---------------------- MODULE MCAssignmentProgress ----------------------
(* Small assignments for TLC: every task type, with and without due dates *)
(* and limits, in one or two phases.                                      *)
EXTENDS AssignmentProgress

CONSTANTS i1, i2, i3, phA, phB

MCPhases == {phA, phB}
MCItems  == {i1, i2, i3}

Shape(type, required, due, phase, allowed) ==
  [type |-> type, required |-> required, due |-> due, phase |-> phase,
   allowed |-> allowed,
   must |-> [t \in Tasks |-> IF type[t] = "checklist" THEN {i1, i2} ELSE {}],
   may  |-> [t \in Tasks |-> IF type[t] = "checklist" THEN {i3} ELSE {}]]

\* A quiz with two attempts, a reviewed task due on day 0 and an optional
\* plain task in a phase of its own.
QuizReviewPlain ==
  Shape(<<"quiz", "review", "plain">>, <<TRUE, TRUE, FALSE>>,
        <<NoDate, 0, NoDate>>, <<phA, phA, phB>>, <<2, NoLimit, NoLimit>>)

\* A checklist due on day 1, an assessment and an unlimited optional quiz.
ChecklistAssessment ==
  Shape(<<"checklist", "assessment", "quiz">>, <<TRUE, TRUE, FALSE>>,
        <<1, NoDate, 0>>, <<phA, phB, phB>>, <<NoLimit, NoLimit, NoLimit>>)

\* Nothing is required and one phase is empty.
AllOptional ==
  Shape(<<"review", "checklist", "plain">>, <<FALSE, FALSE, FALSE>>,
        <<0, NoDate, 1>>, <<phA, phA, phA>>, <<NoLimit, NoLimit, NoLimit>>)

MCTracks == {QuizReviewPlain, ChecklistAssessment, AllOptional}
=============================================================================
