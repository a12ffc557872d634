----------------------- MODULE MCProgressRequests -----------------------
(* Two tasks of one assignment and up to two overlapping requests. *)
EXTENDS ProgressRequests, TLC

CONSTANTS i1, i2, phA, phB, r1, r2

MCPhases == {phA, phB}
MCItems  == {i1, i2}

RequestSymmetry == Permutations(Requests)

Shape(type, required, due, allowed) ==
  [type |-> type, required |-> required, due |-> due, phase |-> <<phA, phB>>,
   allowed |-> allowed,
   must |-> [t \in Tasks |-> IF type[t] = "checklist" THEN {i1, i2} ELSE {}],
   may  |-> [t \in Tasks |-> {}]]

\* A reviewed task that becomes overdue on day 1, and a quiz with one attempt.
ReviewQuiz ==
  Shape(<<"review", "quiz">>, <<TRUE, TRUE>>, <<0, NoDate>>, <<NoLimit, 1>>)

\* A checklist and an assessment that becomes overdue on day 1.
ChecklistAssessment ==
  Shape(<<"checklist", "assessment">>, <<TRUE, TRUE>>, <<NoDate, 0>>, <<NoLimit, NoLimit>>)

OneTrack  == {ReviewQuiz}
TwoTracks == {ReviewQuiz, ChecklistAssessment}
=============================================================================
