--------------------- MODULE AssignmentProgress_proofs ---------------------
(***************************************************************************)
(* Proofs about AssignmentProgress, for every set of track shapes, every   *)
(* number of tasks and every bound.  The second part is about an instance  *)
(* of TrackVersions, the versions an assignment takes its snapshot from.   *)
(***************************************************************************)
EXTENDS AssignmentProgress, AssignmentRows_proofs

-----------------------------------------------------------------------------
(* The inductive invariant. *)

\* Good rows, none of them overdue before its time.
GoodRows ==
  \A t \in Tasks :
    /\ Good(rows[t])
    /\ rows[t].status = "overdue" => PastDue(trk, t, today)

\* The mark of the next task, as the last refresh left it.
Recommended ==
  \A t \in Tasks : rows[t].isNext <=> /\ Open(rows[t])
                                       /\ \A u \in 1 .. t - 1 : ~Open(rows[u])

\* What is stored on the assignment and on its phases is what the refresh
\* derives from the stored tasks.
Derived ==
  /\ assignment = AssignmentOf(trk, rows)
  /\ phases = [p \in Phases |-> PhaseOf(trk, rows, p)]

IInv == TypeOK /\ GoodRows /\ Recommended /\ Derived /\ SubmissionMatchesReview

\* What is derived from the rows has its type.
LEMMA DerivedType ==
  ASSUME NEW tr, NEW rs
  PROVE  /\ AssignmentOf(tr, rs) \in [status : AssignmentStatuses, full : BOOLEAN]
         /\ [p \in Phases |-> PhaseOf(tr, rs, p)] \in
              [Phases -> [status : PhaseStatuses, full : BOOLEAN]]
<1>1. MeanIsFull(tr, rs, Tasks) \in BOOLEAN
  BY DEF MeanIsFull
<1>2. AssignmentOf(tr, rs) \in [status : AssignmentStatuses, full : BOOLEAN]
  BY <1>1, StatusOfCases DEF AssignmentOf
<1>3. \A p \in Phases : PhaseOf(tr, rs, p) \in [status : PhaseStatuses, full : BOOLEAN]
  BY PhaseOfCases
<1> QED
  BY <1>2, <1>3

\* The rows after a refresh.
LEMMA RefreshGivesGoodRows ==
  ASSUME NEW tr, NEW day, NEW new \in [Tasks -> TaskRow],
         \A t \in Tasks : /\ Good(new[t])
                          /\ new[t].status = "overdue" => PastDue(tr, t, day),
         NEW rs, rs = RefreshedRows(tr, new, day)
  PROVE  /\ rs \in [Tasks -> TaskRow]
         /\ \A t \in Tasks :
              /\ Good(rs[t])
              /\ rs[t].status = "overdue" => PastDue(tr, t, day)
              /\ rs[t].isNext <=> /\ Open(rs[t])
                                   /\ \A u \in 1 .. t - 1 : ~Open(rs[u])
              /\ rs[t].status \in {new[t].status, "overdue"}
              /\ new[t].status = "completed" => rs[t].status = "completed"
<1>1. rs \in [Tasks -> TaskRow]
  BY RefreshedType
<1> DEFINE marked == MarkOverdue(tr, new, day)
<1>2. ASSUME NEW t \in Tasks
      PROVE  /\ rs[t] \in TaskRow
             /\ rs[t].progress = new[t].progress
             /\ rs[t].completedAt = new[t].completedAt
             /\ rs[t].status = IF PastDue(tr, t, day) /\ new[t].status # "completed"
                               THEN "overdue" ELSE new[t].status
             /\ Open(rs[t]) <=> Open(marked[t])
             /\ rs[t].isNext <=> /\ Open(marked[t])
                                  /\ \A u \in 1 .. t - 1 : ~Open(marked[u])
  <2>1. marked = MarkOverdue(tr, new, day)
    OBVIOUS
  <2> HIDE DEF marked
  <2> QED
    BY <2>1, RefreshedRow
<1> HIDE DEF marked
<1>3. ASSUME NEW t \in Tasks
      PROVE  rs[t].isNext <=> /\ Open(rs[t])
                               /\ \A u \in 1 .. t - 1 : ~Open(rs[u])
  <2>1. 1 .. t - 1 \subseteq Tasks
    BY SizeAssumption DEF Tasks
  <2> QED
    BY <1>2, <2>1, Zenon
<1>4. ASSUME NEW t \in Tasks
      PROVE  /\ Good(rs[t])
             /\ rs[t].status = "overdue" => PastDue(tr, t, day)
             /\ rs[t].status \in {new[t].status, "overdue"}
             /\ new[t].status = "completed" => rs[t].status = "completed"
  <2>1. CASE PastDue(tr, t, day) /\ new[t].status # "completed"
    <3>1. rs[t].status = "overdue"
      BY <1>2, <2>1, Zenon
    <3> QED
      BY <1>2, <2>1, <3>1 DEF Good, Consistent
  <2>2. CASE ~(PastDue(tr, t, day) /\ new[t].status # "completed")
    <3>1. rs[t].status = new[t].status
      BY <1>2, <2>2, Zenon
    <3>2. Good(new[t]) /\ (new[t].status = "overdue" => PastDue(tr, t, day))
      OBVIOUS
    <3> QED
      BY <1>2, <3>1, <3>2, Zenon DEF Good, Consistent
  <2> QED
    BY <2>1, <2>2
<1> QED
  BY <1>1, <1>3, <1>4

\* What a handler that writes a good row stores.
LEMMA StoreKeeps ==
  ASSUME TypeOK, GoodRows, NEW t \in Tasks, NEW row,
         Good(row), row.status # "overdue",
         Store([rows EXCEPT ![t] = row]), trk' = trk, today' = today
  PROVE  /\ rows' \in [Tasks -> TaskRow] /\ GoodRows' /\ Recommended' /\ Derived'
         /\ rows'[t].status \in {row.status, "overdue"}
         /\ row.status = "completed" => rows'[t].status = "completed"
         /\ \A u \in Tasks \ {t} :
              /\ rows'[u].status \in {rows[u].status, "overdue"}
              /\ rows[u].status = "completed" => rows'[u].status = "completed"
<1> DEFINE new == [rows EXCEPT ![t] = row]
<1>1. new \in [Tasks -> TaskRow]
  BY DEF TypeOK, Good
<1>2. /\ new[t] = row
      /\ \A u \in Tasks \ {t} : new[u] = rows[u]
  BY DEF TypeOK
<1>3. \A u \in Tasks : /\ Good(new[u])
                       /\ new[u].status = "overdue" => PastDue(trk, u, today)
  BY <1>2, Zenon DEF GoodRows
<1>4. rows' = RefreshedRows(trk, new, today)
  BY DEF Store
<1> HIDE DEF new
<1>5. /\ rows' \in [Tasks -> TaskRow]
      /\ \A u \in Tasks :
           /\ Good(rows'[u])
           /\ rows'[u].status = "overdue" => PastDue(trk, u, today)
           /\ rows'[u].isNext <=> /\ Open(rows'[u])
                                  /\ \A v \in 1 .. u - 1 : ~Open(rows'[v])
           /\ rows'[u].status \in {new[u].status, "overdue"}
           /\ new[u].status = "completed" => rows'[u].status = "completed"
  BY <1>1, <1>3, <1>4, RefreshGivesGoodRows
<1>6. GoodRows' /\ Recommended'
  BY <1>5, Zenon DEF GoodRows, Recommended, PastDue
<1>7. Derived'
  BY DEF Store, Derived
<1> QED
  BY <1>2, <1>5, <1>6, <1>7

\* The submission a handler leaves on a reviewed task fits its new status.
LEMMA SubmissionFits ==
  ASSUME SubmissionMatchesReview, NEW t \in Tasks, trk' = trk,
         \A u \in Tasks \ {t} : /\ rows'[u].status \in {rows[u].status, "overdue"}
                                /\ lastSub'[u] = lastSub[u],
         trk.type[t] = "review" =>
           \/ rows'[t].status = "overdue"
           \/ rows'[t].status = "pending_review" /\ lastSub'[t] = "submitted"
           \/ /\ rows'[t].status \in {"revision_requested", "blocked"}
              /\ lastSub'[t] \in {"none", "revision_requested"}
           \/ rows'[t].status = "completed" /\ lastSub'[t] \in {"none", "reviewed"}
  PROVE  SubmissionMatchesReview'
<1> SUFFICES ASSUME NEW u \in Tasks, trk.type[u] = "review"
             PROVE  /\ rows'[u].status = "pending_review" => lastSub'[u] = "submitted"
                    /\ rows'[u].status \in {"revision_requested", "blocked"} =>
                         lastSub'[u] \in {"none", "revision_requested"}
                    /\ rows'[u].status = "completed" => lastSub'[u] \in {"none", "reviewed"}
  BY DEF SubmissionMatchesReview
<1>1. CASE u = t
  BY <1>1
<1>2. CASE u # t
  BY <1>2 DEF SubmissionMatchesReview
<1> QED
  BY <1>1, <1>2

\* The parts of the snapshot have their types.
LEMMA ShapeType ==
  ASSUME TypeOK
  PROVE  /\ trk \in TrackShape
         /\ \A t \in Tasks : /\ trk.type[t] \in TaskTypes
                             /\ trk.must[t] \in SUBSET Items
                             /\ trk.may[t] \in SUBSET Items
  BY ShapeAssumption DEF TypeOK, TrackShape

-----------------------------------------------------------------------------
(* Induction. *)

\* A new assignment satisfies the inductive invariant.
LEMMA InitIInv == Init => IInv
<1> SUFFICES ASSUME Init PROVE IInv
  OBVIOUS
<1> DEFINE fresh == [t \in Tasks |-> FreshRow]
<1>1. FreshRow \in TaskRow
  BY DEF FreshRow, TaskRow, TaskStatuses
<1>2. Good(FreshRow) /\ FreshRow.status = "not_started"
  BY <1>1 DEF Good, Consistent, FreshRow
<1>3. /\ fresh \in [Tasks -> TaskRow]
      /\ \A t \in Tasks : /\ Good(fresh[t]) /\ fresh[t].status = "not_started"
                          /\ fresh[t].status = "overdue" => PastDue(trk, t, today)
  BY <1>1, <1>2
<1>4. rows = RefreshedRows(trk, fresh, today)
  BY DEF Init
<1> HIDE DEF fresh
<1>5. /\ rows \in [Tasks -> TaskRow]
      /\ \A t \in Tasks :
           /\ Good(rows[t])
           /\ rows[t].status = "overdue" => PastDue(trk, t, today)
           /\ rows[t].isNext <=> /\ Open(rows[t])
                                 /\ \A u \in 1 .. t - 1 : ~Open(rows[u])
           /\ rows[t].status \in {fresh[t].status, "overdue"}
  BY <1>3, <1>4, RefreshGivesGoodRows
<1>6. GoodRows /\ Recommended
  BY <1>5, Zenon DEF GoodRows, Recommended
<1>7. Derived
  BY DEF Init, Derived
<1>8. SubmissionMatchesReview
  BY <1>3, <1>5 DEF SubmissionMatchesReview
<1>9. TypeOK
  BY <1>5, <1>7, DerivedType DEF Derived, Init, TypeOK, SubmissionStatuses
<1> QED
  BY <1>6, <1>7, <1>8, <1>9 DEF IInv

\* A quiz submission keeps the invariant, passed or not.
LEMMA SubmitQuizKeeps ==
  ASSUME IInv, NEW t \in Tasks, NEW passed \in BOOLEAN, SubmitQuiz(t, passed)
  PROVE  IInv'
<1> USE DEF IInv
<1> DEFINE row == SubmittedRow("quiz", rows[t], passed)
<1>1. rows[t] \in TaskRow /\ "quiz" \in TaskTypes
  BY DEF TypeOK, TaskTypes
<1>2. Good(row) /\ row.status # "overdue"
  BY <1>1, SubmittedRowGood
<1>3. Store([rows EXCEPT ![t] = row]) /\ trk' = trk /\ today' = today
  BY DEF SubmitQuiz
<1> HIDE DEF row
<1>4. /\ rows' \in [Tasks -> TaskRow] /\ GoodRows' /\ Recommended' /\ Derived'
      /\ \A u \in Tasks \ {t} : rows'[u].status \in {rows[u].status, "overdue"}
  BY <1>2, <1>3, StoreKeeps
<1>5. SubmittedStatus("quiz", passed) \in SubmissionStatuses
  BY Zenon DEF SubmittedStatus, SubmissionStatuses
<1>6. TypeOK'
  <2>1. attempts' \in [Tasks -> Nat] /\ lastSub' \in [Tasks -> SubmissionStatuses]
    BY <1>5 DEF TypeOK, SubmitQuiz
  <2>2. /\ assignment' \in [status : AssignmentStatuses, full : BOOLEAN]
        /\ phases' \in [Phases -> [status : PhaseStatuses, full : BOOLEAN]]
    BY <1>4, DerivedType DEF Derived
  <2> QED
    BY <1>3, <1>4, <2>1, <2>2 DEF TypeOK, SubmitQuiz
<1>7. SubmissionMatchesReview'
  BY <1>3, <1>4, SubmissionFits DEF SubmitQuiz, TypeOK
<1> QED
  BY <1>4, <1>6, <1>7

\* So does the submission of any other task.
LEMMA SubmitTaskKeeps ==
  ASSUME IInv, NEW t \in Tasks, SubmitTask(t)
  PROVE  IInv'
<1> USE DEF IInv
<1> DEFINE row == SubmittedRow(trk.type[t], rows[t], TRUE)
<1>1. rows[t] \in TaskRow /\ trk.type[t] \in TaskTypes
  BY ShapeType DEF TypeOK
<1>2. /\ Good(row) /\ row.status # "overdue"
      /\ row.status = IF trk.type[t] = "review" THEN "pending_review" ELSE "completed"
  BY <1>1, SubmittedRowGood
<1>3. Store([rows EXCEPT ![t] = row]) /\ trk' = trk /\ today' = today
  BY DEF SubmitTask
<1> HIDE DEF row
<1>4. /\ rows' \in [Tasks -> TaskRow] /\ GoodRows' /\ Recommended' /\ Derived'
      /\ rows'[t].status \in {row.status, "overdue"}
      /\ \A u \in Tasks \ {t} : rows'[u].status \in {rows[u].status, "overdue"}
  BY <1>2, <1>3, StoreKeeps
<1>5. /\ SubmittedStatus(trk.type[t], TRUE) \in SubmissionStatuses
      /\ trk.type[t] = "review" => SubmittedStatus(trk.type[t], TRUE) = "submitted"
  BY Zenon DEF SubmittedStatus, SubmissionStatuses
<1>6. TypeOK'
  <2>1. lastSub' \in [Tasks -> SubmissionStatuses]
    BY <1>5 DEF TypeOK, SubmitTask
  <2>2. /\ assignment' \in [status : AssignmentStatuses, full : BOOLEAN]
        /\ phases' \in [Phases -> [status : PhaseStatuses, full : BOOLEAN]]
    BY <1>4, DerivedType DEF Derived
  <2> QED
    BY <1>3, <1>4, <2>1, <2>2 DEF TypeOK, SubmitTask
<1>7. /\ lastSub'[t] = SubmittedStatus(trk.type[t], TRUE)
      /\ \A u \in Tasks \ {t} : lastSub'[u] = lastSub[u]
  BY DEF SubmitTask, TypeOK
<1>8. SubmissionMatchesReview'
  BY <1>2, <1>3, <1>4, <1>5, <1>7, SubmissionFits
<1> QED
  BY <1>4, <1>6, <1>8

\* A mark on a checklist keeps it, stored or lost.
LEMMA UpdateChecklistItemKeeps ==
  ASSUME IInv, NEW t \in Tasks, NEW item \in Items, NEW checked \in BOOLEAN,
         UpdateChecklistItem(t, item, checked)
  PROVE  IInv'
<1> USE DEF IInv
<1> DEFINE ids == TickedItems(t, item, checked)
           row == ChecklistRow(trk.must[t], rows[t], ids)
<1>1. rows[t] \in TaskRow /\ trk.must[t] \in SUBSET Items
  BY ShapeType DEF TypeOK
<1>2. Good(row) /\ row.status # "overdue"
  BY <1>1, ChecklistRowGood
<1>3. Store([rows EXCEPT ![t] = row]) /\ trk' = trk /\ today' = today
  BY DEF UpdateChecklistItem
<1>4. ids \in SUBSET Items
  BY DEF TickedItems, TypeOK
<1> HIDE DEF row, ids
<1>5. /\ rows' \in [Tasks -> TaskRow] /\ GoodRows' /\ Recommended' /\ Derived'
      /\ \A u \in Tasks \ {t} : rows'[u].status \in {rows[u].status, "overdue"}
  BY <1>2, <1>3, StoreKeeps
<1>6. TypeOK'
  <2>1. saved' \in [Tasks -> BOOLEAN] /\ checks' \in [Tasks -> SUBSET Items]
    BY <1>4 DEF TypeOK, UpdateChecklistItem, ids
  <2>2. /\ assignment' \in [status : AssignmentStatuses, full : BOOLEAN]
        /\ phases' \in [Phases -> [status : PhaseStatuses, full : BOOLEAN]]
    BY <1>5, DerivedType DEF Derived
  <2> QED
    BY <1>3, <1>5, <2>1, <2>2 DEF TypeOK, UpdateChecklistItem
<1>7. SubmissionMatchesReview'
  BY <1>3, <1>5, SubmissionFits DEF UpdateChecklistItem
<1> QED
  BY <1>5, <1>6, <1>7

\* A decision keeps it, and the submission it decides follows the task.
LEMMA MentorReviewKeeps ==
  ASSUME IInv, NEW t \in Tasks, NEW decision \in Decisions, MentorReview(t, decision)
  PROVE  IInv'
<1> USE DEF IInv
<1> DEFINE row == ReviewedRow(rows[t], decision)
<1>1. rows[t] \in TaskRow
  BY DEF TypeOK
<1>2. /\ Good(row)
      /\ row.status = IF decision = "approve" THEN "completed"
                      ELSE IF decision = "reject" THEN "blocked" ELSE "revision_requested"
  BY <1>1, ReviewedRowGood
<1>3. Store([rows EXCEPT ![t] = row]) /\ trk' = trk /\ today' = today
  BY DEF MentorReview
<1> HIDE DEF row
<1>4. /\ rows' \in [Tasks -> TaskRow] /\ GoodRows' /\ Recommended' /\ Derived'
      /\ rows'[t].status \in {row.status, "overdue"}
      /\ \A u \in Tasks \ {t} : rows'[u].status \in {rows[u].status, "overdue"}
  BY <1>2, <1>3, StoreKeeps
<1>5. /\ lastSub'[t] = IF lastSub[t] = "none" THEN "none" ELSE ReviewedStatus(decision)
      /\ \A u \in Tasks \ {t} : lastSub'[u] = lastSub[u]
      /\ lastSub' \in [Tasks -> SubmissionStatuses]
  BY DEF MentorReview, TypeOK, ReviewedStatus, SubmissionStatuses
<1>6. TypeOK'
  <2>1. /\ assignment' \in [status : AssignmentStatuses, full : BOOLEAN]
        /\ phases' \in [Phases -> [status : PhaseStatuses, full : BOOLEAN]]
    BY <1>4, DerivedType DEF Derived
  <2> QED
    BY <1>3, <1>4, <1>5, <2>1 DEF TypeOK, MentorReview
<1>7. SubmissionMatchesReview'
  BY <1>2, <1>3, <1>4, <1>5, SubmissionFits DEF ReviewedStatus
<1> QED
  BY <1>4, <1>6, <1>7

\* A scored assessment keeps it.
LEMMA AssessmentScoredKeeps ==
  ASSUME IInv, NEW t \in Tasks, NEW passed \in BOOLEAN, AssessmentScored(t, passed)
  PROVE  IInv'
<1> USE DEF IInv
<1> DEFINE row == ScoredRow(rows[t], passed)
<1>1. rows[t] \in TaskRow
  BY DEF TypeOK
<1>2. Good(row) /\ row.status # "overdue"
  BY <1>1, ScoredRowGood
<1>3. Store([rows EXCEPT ![t] = row]) /\ trk' = trk /\ today' = today
  BY DEF AssessmentScored
<1> HIDE DEF row
<1>4. /\ rows' \in [Tasks -> TaskRow] /\ GoodRows' /\ Recommended' /\ Derived'
      /\ \A u \in Tasks \ {t} : rows'[u].status \in {rows[u].status, "overdue"}
  BY <1>2, <1>3, StoreKeeps
<1>5. TypeOK'
  <2>1. /\ assignment' \in [status : AssignmentStatuses, full : BOOLEAN]
        /\ phases' \in [Phases -> [status : PhaseStatuses, full : BOOLEAN]]
    BY <1>4, DerivedType DEF Derived
  <2> QED
    BY <1>3, <1>4, <2>1 DEF TypeOK, AssessmentScored
<1>6. SubmissionMatchesReview'
  BY <1>3, <1>4, SubmissionFits DEF AssessmentScored
<1> QED
  BY <1>4, <1>5, <1>6

\* A day that passes changes nothing stored.
LEMMA NextDayKeeps ==
  ASSUME IInv, NextDay
  PROVE  IInv'
<1> USE DEF IInv, NextDay
<1>1. TypeOK'
  BY BoundAssumption DEF TypeOK
<1>2. GoodRows'
  <2>1. trk.due \in [Tasks -> Int]
    BY ShapeType DEF TrackShape
  <2>2. \A t \in Tasks : PastDue(trk, t, today) => PastDue(trk', t, today')
    BY <2>1 DEF PastDue, TypeOK
  <2> QED
    BY <2>2 DEF GoodRows
<1>3. Recommended' /\ Derived' /\ SubmissionMatchesReview'
  BY DEF Recommended, Derived, SubmissionMatchesReview
<1> QED
  BY <1>1, <1>2, <1>3

\* Every step keeps the inductive invariant.
LEMMA NextIInv == IInv /\ [Next]_vars => IInv'
<1> SUFFICES ASSUME IInv, [Next]_vars PROVE IInv'
  OBVIOUS
<1>1. CASE \E t \in Tasks, passed \in BOOLEAN : SubmitQuiz(t, passed)
  BY <1>1, SubmitQuizKeeps
<1>2. CASE \E t \in Tasks : SubmitTask(t)
  BY <1>2, SubmitTaskKeeps
<1>3. CASE \E t \in Tasks, item \in Items, checked \in BOOLEAN :
             UpdateChecklistItem(t, item, checked)
  BY <1>3, UpdateChecklistItemKeeps
<1>4. CASE \E t \in Tasks, decision \in Decisions : MentorReview(t, decision)
  BY <1>4, MentorReviewKeeps
<1>5. CASE \E t \in Tasks, passed \in BOOLEAN : AssessmentScored(t, passed)
  BY <1>5, AssessmentScoredKeeps
<1>6. CASE NextDay
  BY <1>6, NextDayKeeps
<1>7. CASE UNCHANGED vars
  BY <1>7 DEF vars, IInv, TypeOK, GoodRows, Recommended, Derived, SubmissionMatchesReview
<1> QED
  BY <1>1, <1>2, <1>3, <1>4, <1>5, <1>6, <1>7 DEF Next

\* IInv holds in every reachable state.
THEOREM IInvAlways == Spec => []IInv
<1>1. Init => IInv
  BY InitIInv
<1>2. IInv /\ [Next]_vars => IInv'
  BY NextIInv
<1> QED
  BY <1>1, <1>2, PTL DEF Spec

-----------------------------------------------------------------------------
(* What follows from it. *)

\* Every column keeps to its domain.
THEOREM TypeCorrect == Spec => []TypeOK
  BY IInvAlways, PTL DEF IInv

\* A completed task has percentage 100 and a time stamp, and no other has.
THEOREM CompletionAlwaysConsistent == Spec => []CompletionIsConsistent
<1>1. IInv => CompletionIsConsistent
  BY DEF IInv, GoodRows, Good, Consistent, CompletionIsConsistent
<1> QED
  BY <1>1, IInvAlways, PTL

\* Submissions and the statuses of reviewed tasks agree.
THEOREM SubmissionAlwaysMatchesReview == Spec => []SubmissionMatchesReview
  BY IInvAlways, PTL DEF IInv

\* The stored status of the assignment and the stored percentages of the
\* assignment and its phases never contradict each other.
THEOREM DerivationsAlwaysAgree == Spec => []DerivationsAgree
<1>1. IInv => DerivationsAgree
  <2> SUFFICES ASSUME IInv PROVE DerivationsAgree
    OBVIOUS
  <2>1. \A t \in Tasks : (rows[t].status = "completed") <=> (rows[t].progress = 100)
    BY DEF IInv, GoodRows, Good, Consistent
  <2>2. /\ assignment.status = StatusOf(trk, rows)
        /\ assignment.full <=> MeanIsFull(trk, rows, Tasks)
    BY DEF IInv, Derived, AssignmentOf
  <2>3. assignment.status = "completed" <=>
          /\ RequiredTasks(trk) # {}
          /\ \A t \in RequiredTasks(trk) : rows[t].status = "completed"
    BY <2>2, StatusOfCases
  <2>4. ASSUME RequiredTasks(trk) # {}
        PROVE  (assignment.status = "completed") <=> assignment.full
    BY <2>1, <2>2, <2>3, <2>4 DEF MeanIsFull, RequiredTasks
  <2>5. ASSUME assignment.status = "completed", NEW p \in Phases, TasksOf(trk, p) # {}
        PROVE  phases[p].status = "completed"
    <3>1. MeanIsFull(trk, rows, TasksOf(trk, p))
      BY <2>1, <2>3, <2>5 DEF MeanIsFull, RequiredTasks
    <3>2. PhaseOf(trk, rows, p).status = "completed"
      BY <2>5, <3>1, PhaseOfCases
    <3> QED
      BY <3>2 DEF IInv, Derived
  <2> QED
    BY <2>4, <2>5 DEF DerivationsAgree
<1> QED
  BY <1>1, IInvAlways, PTL

\* A non-empty set of natural numbers has a least element.
LEMMA LeastElement ==
  ASSUME NEW S \in SUBSET Nat, S # {}
  PROVE  \E n \in S : \A m \in S : n <= m
<1>1. PICK n \in S : \A m \in S : ~(<<m, n>> \in OpToRel(<, Nat))
  BY NatLessThanWellFounded, WFMin
<1>2. \A m \in S : ~(m < n)
  BY <1>1 DEF OpToRel
<1> QED
  BY <1>2

\* The recommendation is the first open task; without one, every task is
\* completed or waits for the mentor.
THEOREM NextTaskIsAlwaysFirstOpen == Spec => []NextTaskIsFirstOpen
<1>1. IInv => NextTaskIsFirstOpen
  <2> SUFFICES ASSUME IInv PROVE NextTaskIsFirstOpen
    OBVIOUS
  <2>1. Tasks \subseteq Nat /\ \A t, u \in Tasks : u < t => u \in 1 .. t - 1
    BY SizeAssumption DEF Tasks
  <2>2. ASSUME NEW t \in Tasks, rows[t].isNext
        PROVE  Open(rows[t]) /\ \A u \in Tasks : u < t => ~Open(rows[u])
    BY <2>1, <2>2 DEF IInv, Recommended
  <2>3. ASSUME \A t \in Tasks : ~rows[t].isNext, NEW t \in Tasks
        PROVE  rows[t].status \in {"completed", "pending_review", "blocked"}
    <3>1. ~Open(rows[t])
      <4> SUFFICES ASSUME Open(rows[t]) PROVE FALSE
        OBVIOUS
      <4> DEFINE open == {u \in Tasks : Open(rows[u])}
      <4>1. PICK first \in open : \A u \in open : first <= u
        <5>1. open \in SUBSET Nat /\ open # {}
          BY <2>1
        <5> HIDE DEF open
        <5> QED
          BY <5>1, LeastElement
      <4>2. \A u \in 1 .. first - 1 : ~Open(rows[u])
        <5>1. \A u \in 1 .. first - 1 : u \in Tasks /\ ~(first <= u)
          BY <4>1, SizeAssumption DEF Tasks
        <5> QED
          BY <4>1, <5>1
      <4> QED
        BY <2>3, <4>1, <4>2 DEF IInv, Recommended
    <3>2. rows[t].status \in TaskStatuses
      BY DEF IInv, TypeOK, TaskRow
    <3> QED
      BY <3>1, <3>2 DEF Open, TaskStatuses
  <2> QED
    BY <2>2, <2>3 DEF NextTaskIsFirstOpen
<1> QED
  BY <1>1, IInvAlways, PTL

\* Nothing is overdue before its time.
THEOREM OverdueIsAlwaysPast == Spec => []OverdueIsPast
<1>1. IInv => OverdueIsPast
  BY StatusOfCases DEF IInv, GoodRows, Derived, AssignmentOf, OverdueIsPast
<1> QED
  BY <1>1, IInvAlways, PTL

\* No request and no midnight takes back the completion of another task.
THEOREM CompletionIsAlwaysKept == Spec => CompletionIsKept
<1> DEFINE Kept ==
      \A t \in Tasks :
        rows[t].status = "completed" /\ rows'[t].status # "completed" =>
          \/ \E decision \in Decisions \ {"approve"} : MentorReview(t, decision)
          \/ SubmitQuiz(t, FALSE)
          \/ AssessmentScored(t, FALSE)
          \/ trk.type[t] = "review" /\ SubmitTask(t)
          \/ \E item \in Items, checked \in BOOLEAN :
               UpdateChecklistItem(t, item, checked)
<1>1. IInv /\ Next => Kept
  <2> SUFFICES ASSUME IInv, Next, NEW t \in Tasks,
                      rows[t].status = "completed", rows'[t].status # "completed"
               PROVE  \/ \E decision \in Decisions \ {"approve"} : MentorReview(t, decision)
                      \/ SubmitQuiz(t, FALSE)
                      \/ AssessmentScored(t, FALSE)
                      \/ trk.type[t] = "review" /\ SubmitTask(t)
                      \/ \E item \in Items, checked \in BOOLEAN :
                           UpdateChecklistItem(t, item, checked)
    OBVIOUS
  <2> USE DEF IInv
  <2>0. /\ \A u \in Tasks : rows[u] \in TaskRow
        /\ "quiz" \in TaskTypes
        /\ \A u \in Tasks : trk.type[u] \in TaskTypes /\ trk.must[u] \in SUBSET Items
    BY ShapeType DEF TypeOK, TaskTypes
  <2>1. CASE \E u \in Tasks, passed \in BOOLEAN : SubmitQuiz(u, passed)
    <3>1. PICK u \in Tasks, passed \in BOOLEAN : SubmitQuiz(u, passed)
      BY <2>1
    <3> DEFINE row == SubmittedRow("quiz", rows[u], passed)
    <3>2. /\ Good(row) /\ row.status # "overdue"
          /\ row.status = IF ~passed THEN "revision_requested" ELSE "completed"
      BY <2>0, SubmittedRowGood
    <3>3. Store([rows EXCEPT ![u] = row]) /\ trk' = trk /\ today' = today
      BY <3>1 DEF SubmitQuiz
    <3> HIDE DEF row
    <3>4. /\ row.status = "completed" => rows'[u].status = "completed"
          /\ u # t => rows'[t].status = "completed"
      BY <3>2, <3>3, StoreKeeps
    <3> QED
      BY <3>1, <3>2, <3>4
  <2>2. CASE \E u \in Tasks : SubmitTask(u)
    <3>1. PICK u \in Tasks : SubmitTask(u)
      BY <2>2
    <3> DEFINE row == SubmittedRow(trk.type[u], rows[u], TRUE)
    <3>2. /\ Good(row) /\ row.status # "overdue"
          /\ row.status = IF trk.type[u] = "review" THEN "pending_review" ELSE "completed"
      BY <2>0, SubmittedRowGood
    <3>3. Store([rows EXCEPT ![u] = row]) /\ trk' = trk /\ today' = today
      BY <3>1 DEF SubmitTask
    <3> HIDE DEF row
    <3>4. /\ row.status = "completed" => rows'[u].status = "completed"
          /\ u # t => rows'[t].status = "completed"
      BY <3>2, <3>3, StoreKeeps
    <3> QED
      BY <3>1, <3>2, <3>4
  <2>3. CASE \E u \in Tasks, item \in Items, checked \in BOOLEAN :
               UpdateChecklistItem(u, item, checked)
    <3>1. PICK u \in Tasks, item \in Items, checked \in BOOLEAN :
                 UpdateChecklistItem(u, item, checked)
      BY <2>3
    <3> DEFINE row == ChecklistRow(trk.must[u], rows[u], TickedItems(u, item, checked))
    <3>2. Good(row) /\ row.status # "overdue"
      BY <2>0, ChecklistRowGood
    <3>3. Store([rows EXCEPT ![u] = row]) /\ trk' = trk /\ today' = today
      BY <3>1 DEF UpdateChecklistItem
    <3> HIDE DEF row
    <3>4. u # t => rows'[t].status = "completed"
      BY <3>2, <3>3, StoreKeeps
    <3> QED
      BY <3>1, <3>4
  <2>4. CASE \E u \in Tasks, decision \in Decisions : MentorReview(u, decision)
    <3>1. PICK u \in Tasks, decision \in Decisions : MentorReview(u, decision)
      BY <2>4
    <3> DEFINE row == ReviewedRow(rows[u], decision)
    <3>2. /\ Good(row) /\ row.status # "overdue"
          /\ decision = "approve" => row.status = "completed"
      BY <2>0, ReviewedRowGood
    <3>3. Store([rows EXCEPT ![u] = row]) /\ trk' = trk /\ today' = today
      BY <3>1 DEF MentorReview
    <3> HIDE DEF row
    <3>4. /\ row.status = "completed" => rows'[u].status = "completed"
          /\ u # t => rows'[t].status = "completed"
      BY <3>2, <3>3, StoreKeeps
    <3> QED
      BY <3>1, <3>2, <3>4
  <2>5. CASE \E u \in Tasks, passed \in BOOLEAN : AssessmentScored(u, passed)
    <3>1. PICK u \in Tasks, passed \in BOOLEAN : AssessmentScored(u, passed)
      BY <2>5
    <3> DEFINE row == ScoredRow(rows[u], passed)
    <3>2. /\ Good(row) /\ row.status # "overdue"
          /\ passed => row.status = "completed"
      BY <2>0, ScoredRowGood
    <3>3. Store([rows EXCEPT ![u] = row]) /\ trk' = trk /\ today' = today
      BY <3>1 DEF AssessmentScored
    <3> HIDE DEF row
    <3>4. /\ row.status = "completed" => rows'[u].status = "completed"
          /\ u # t => rows'[t].status = "completed"
      BY <3>2, <3>3, StoreKeeps
    <3> QED
      BY <3>1, <3>2, <3>4
  <2>6. CASE NextDay
    BY <2>6 DEF NextDay
  <2> QED
    BY <2>1, <2>2, <2>3, <2>4, <2>5, <2>6 DEF Next
<1>2. IInv /\ [Next]_vars => [Kept]_vars
  BY <1>1
<1> QED
  BY <1>2, IInvAlways, PTL DEF Spec, CompletionIsKept

-----------------------------------------------------------------------------
(* The versions of the track an assignment is made from, for any number of versions,   *)
(* edits, gestures and requests under way at once.                                     *)

CONSTANTS MaxRows, MaxEvents, MaxEdits, MaxRequests
VARIABLES versionRows, released, crossed, work, kept, loading, saving, edits, listed, waiting,
          requests, events, doubt

Versions == INSTANCE TrackVersions WITH rows <- versionRows

Ids == 1 .. MaxRows
Row == [number : Nat, status : {"none", "draft", "published", "archived", "gone"},
        current : BOOLEAN, content : SUBSET (1 .. MaxEdits)]

\* The rows of the versions: their ids are given out in order, no number is greater than
\* the id, and the published ones are current.
Table(r) ==
  /\ r \in [Ids -> Row]
  /\ \A v \in Ids :
       /\ r[v].number <= v
       /\ r[v].number = 0 <=> r[v].status = "none"
       /\ r[v].status = "none" => \A u \in Ids : v < u => r[u].status = "none"
       /\ r[v].current <=> r[v].status = "published"

\* Versions that r has are not unsaved in s.
Older(r, s) == \A v \in Ids : r[v].status # "none" => s[v].status # "none"

\* A request under way, and what it has read of the rows: they are as they were when it read
\* them unless a write was answered since; a write is made from rows that allow it.
Sound(q) ==
  /\ q \in [id : {q.id}, op : {"load", "list", "save", "publish", "delete"},
            version : 0 .. MaxRows, content : SUBSET (1 .. MaxEdits),
            seen : {<< >>} \cup [Ids -> Row], mixed : BOOLEAN,
            answer : {"none", "ok", "refused", "lost"}]
  /\ q.op \in {"publish", "delete"} => q.version \in Ids
  /\ q.answer = "ok" => q.seen # << >>
  /\ q.seen # << >> => /\ Table(q.seen) /\ Older(q.seen, versionRows)
                       /\ q.op \in {"load", "list"} => q.answer # "none"
  /\ q.seen # << >> /\ q.answer = "none" =>
       /\ q.op = "publish" => q.version \in Versions!There(q.seen)
       /\ q.op = "delete" => q.version \in Versions!Drafts(q.seen)
  /\ q.seen # << >> /\ ~q.mixed /\ (q.op \in {"load", "list"} \/ q.answer = "none") =>
       q.seen = versionRows

Asked(ops) == \E q \in requests : q.op \in ops
Unsaved == {q \in requests : q.op = "save" /\ q.answer = "none"}
Room == {v \in Ids : versionRows[v].status = "none"}

\* There is a row for every version that is being saved.
RoomForAll == IsFiniteSet(requests) /\ Cardinality(Unsaved) <= Cardinality(Room)

\* Publications that did not cross leave one current version, and no deletion of those.
Published ==
  ~crossed =>
    /\ \A u, v \in Ids : versionRows[u].current /\ versionRows[v].current => u = v
    /\ \A v \in released : versionRows[v].status \in {"published", "archived"}
    /\ released # {} => \E v \in released : versionRows[v].current

\* Who waits has asked, and a list that is not that of the drafts will be asked for.
Pages ==
  /\ loading => Asked({"load"})
  /\ saving => Asked({"save"})
  /\ waiting => Asked({"list"})
  /\ doubt \/ listed = Versions!Drafts(versionRows) \/ Asked({"publish", "delete", "list"})

VersionTypes ==
  /\ Table(versionRows)
  /\ released \subseteq Ids /\ listed \subseteq Ids
  /\ edits \in 0 .. MaxEdits /\ work \subseteq 1 .. MaxEdits /\ kept \subseteq work
  /\ {crossed, loading, saving, waiting, doubt} \subseteq BOOLEAN

VersionsInv ==
  /\ VersionTypes
  /\ \A q \in requests : Sound(q)
  /\ RoomForAll
  /\ Published
  /\ Pages

-----------------------------------------------------------------------------
\* The instance counts as this module does.
LEMMA CountIsCardinality == \A S : Versions!Cardinality(S) = Cardinality(S)
BY DEF Versions!Cardinality, Cardinality

\* The largest of some numbers that are at most n.
LEMMA LargestNumber ==
  ASSUME NEW n \in Nat, NEW S \in SUBSET (0 .. n), S # {}
  PROVE  Versions!Max(S) \in S /\ \A y \in S : y <= Versions!Max(S)
<1> DEFINE T == {n - y : y \in S}
<1>1. T \in SUBSET Nat /\ T # {}
  <2>1. \A y \in S : n - y \in Nat
    OBVIOUS
  <2>2. PICK y : y \in S
    OBVIOUS
  <2> QED
    BY <2>1, <2>2
<1>2. PICK m \in T : \A k \in T : m <= k
  BY <1>1, LeastElement
<1>3. PICK x \in S : m = n - x
  OBVIOUS
<1>4. \A y \in S : x >= y
  BY <1>2, <1>3
<1> QED
  BY <1>4 DEF Versions!Max

\* The id of a new row is the least that was not given out.
LEMMA LeastId ==
  ASSUME NEW S \in SUBSET Ids, S # {}
  PROVE  Versions!Min(S) \in S /\ \A y \in S : Versions!Min(S) <= y
<1>1. S \in SUBSET Nat
  BY DEF Ids
<1>2. \E x \in S : \A y \in S : x <= y
  BY <1>1, LeastElement
<1> QED
  BY <1>2 DEF Versions!Min

\* An image of a finite set is no larger than the set.
LEMMA ImageIsSmaller ==
  ASSUME NEW S, IsFiniteSet(S), NEW T, NEW f \in [S -> T], \A y \in T : \E x \in S : f[x] = y
  PROVE  IsFiniteSet(T) /\ Cardinality(T) <= Cardinality(S)
<1>1. f \in Surjection(S, T)
  BY DEF Surjection
<1> QED
  BY <1>1, FS_Surjection

\* A request that was sent, and nothing has read.
LEMMA FreshRequest ==
  ASSUME NEW q, NEW id, NEW op \in {"load", "list", "save", "publish", "delete"},
         NEW v \in 0 .. MaxRows, NEW c \in SUBSET (1 .. MaxEdits),
         op \in {"publish", "delete"} => v \in Ids,
         q = [id |-> id, op |-> op, version |-> v, content |-> c, seen |-> << >>,
              mixed |-> FALSE, answer |-> "none"]
  PROVE  Sound(q)
BY DEF Sound

LEMMA VersionsStart == ASSUME Versions!VersionsAssumption PROVE Versions!Init => VersionsInv
<1> SUFFICES ASSUME Versions!Init PROVE VersionsInv
  OBVIOUS
<1>1. MaxRows \in Nat /\ MaxRows > 0 /\ MaxEdits \in Nat
  BY DEF Versions!VersionsAssumption
<1>2. /\ versionRows \in [Ids -> Row] /\ versionRows[1].number = 1 /\ versionRows[1].status = "draft"
      /\ ~versionRows[1].current
      /\ \A v \in Ids \ {1} : versionRows[v].number = 0 /\ versionRows[v].status = "none" /\ ~versionRows[v].current
  <2> DEFINE one == [Versions!None EXCEPT !.number = 1]
             two == [one EXCEPT !.status = "draft"]
  <2>1. /\ Versions!None \in Row /\ Versions!None.number = 0 /\ Versions!None.status = "none"
        /\ ~Versions!None.current
    BY DEF Versions!None, Row
  <2>2. one \in Row /\ one.number = 1 /\ ~one.current
    BY <2>1 DEF Row
  <2>3. two \in Row /\ two.number = 1 /\ two.status = "draft" /\ ~two.current
    <3> HIDE DEF one
    <3> QED
      BY <2>2 DEF Row
  <2>4. versionRows = [v \in Ids |-> IF v = 1 THEN two ELSE Versions!None]
    BY DEF Versions!Init, Versions!Ids, Ids
  <2> HIDE DEF two
  <2> QED
    BY <1>1, <2>1, <2>3, <2>4 DEF Ids
<1>3. Table(versionRows)
  BY <1>1, <1>2 DEF Table, Ids
<1>4. VersionTypes
  <2>1. /\ released = {} /\ listed = {} /\ edits = 0 /\ work = {} /\ kept = {}
        /\ crossed = FALSE /\ loading = TRUE /\ saving = FALSE /\ waiting = TRUE /\ doubt = FALSE
    BY DEF Versions!Init
  <2>2. {crossed, loading, saving, waiting, doubt} \subseteq BOOLEAN
    BY <2>1
  <2> QED
    BY <1>1, <1>3, <2>1, <2>2 DEF VersionTypes
<1>5. requests = {[id |-> 1, op |-> "load", version |-> 0, content |-> {}, seen |-> << >>,
                   mixed |-> FALSE, answer |-> "none"],
                  [id |-> 2, op |-> "list", version |-> 0, content |-> {}, seen |-> << >>,
                   mixed |-> FALSE, answer |-> "none"]}
  BY DEF Versions!Init
<1>6. ASSUME NEW q \in requests PROVE Sound(q)
  BY <1>1, <1>5, FreshRequest
<1>7. RoomForAll
  <2>1. Unsaved = {}
    BY <1>5 DEF Unsaved
  <2>2. IsFiniteSet(requests)
    <3> DEFINE first == [id |-> 1, op |-> "load", version |-> 0, content |-> {}, seen |-> << >>,
                         mixed |-> FALSE, answer |-> "none"]
               second == [id |-> 2, op |-> "list", version |-> 0, content |-> {},
                          seen |-> << >>, mixed |-> FALSE, answer |-> "none"]
    <3>1. requests = ({} \cup {first}) \cup {second}
      BY <1>5
    <3> HIDE DEF first, second
    <3>2. IsFiniteSet({} \cup {first})
      BY FS_EmptySet, FS_AddElement
    <3> QED
      BY <3>1, <3>2, FS_AddElement
  <2>3. IsFiniteSet(Room)
    <3>1. IsFiniteSet(Ids) /\ Room \in SUBSET Ids
      BY <1>1, FS_Interval DEF Room, Ids
    <3> QED
      BY <3>1, FS_Subset
  <2> QED
    BY <2>1, <2>2, <2>3, FS_EmptySet, FS_CardinalityType DEF RoomForAll
<1>8. Published
  BY <1>1, <1>2 DEF Published, Versions!Init
<1>9. Pages
  BY <1>5 DEF Pages, Asked, Versions!Init
<1> QED
  BY <1>4, <1>6, <1>7, <1>8, <1>9 DEF VersionsInv

-----------------------------------------------------------------------------
(* Steps that write no versionRows. *)

\* A request that is sent, or answered, or read, while the versionRows stay.
LEMMA SoundStays ==
  ASSUME NEW q, Sound(q), versionRows' = versionRows
  PROVE  Sound(q)'
BY DEF Sound, Older

LEMMA TableKnown ==
  ASSUME VersionsInv, Versions!VersionsAssumption
  PROVE  /\ versionRows \in [Ids -> Row] /\ Older(versionRows, versionRows) /\ MaxRows \in Nat \ {0}
         /\ IsFiniteSet(Room) /\ Cardinality(Room) \in Nat
         /\ IsFiniteSet(Unsaved) /\ Cardinality(Unsaved) \in Nat
         /\ \A r : Versions!There(r) \subseteq Ids /\ Versions!Drafts(r) \subseteq Ids
<1>1. MaxRows \in Nat \ {0}
  BY DEF Versions!VersionsAssumption
<1>2. IsFiniteSet(Room)
  <2>1. IsFiniteSet(Ids) /\ Room \in SUBSET Ids
    BY <1>1, FS_Interval DEF Room, Ids
  <2> QED
    BY <2>1, FS_Subset
<1>3. IsFiniteSet(Unsaved)
  BY FS_Subset DEF VersionsInv, RoomForAll, Unsaved
<1> QED
  BY <1>1, <1>2, <1>3, FS_CardinalityType
     DEF VersionsInv, VersionTypes, Table, Older, Versions!There, Versions!Drafts, Versions!Ids, Ids

\* A request is replaced by what becomes of it.
LEMMA Replaced ==
  ASSUME VersionsInv, Versions!VersionsAssumption, versionRows' = versionRows,
         NEW q \in requests, NEW p, p.op = q.op, Sound(p),
         p.answer = "none" => q.answer = "none",
         requests' = (requests \ {q}) \cup {p}
  PROVE  /\ \A r \in requests' : Sound(r)'
         /\ RoomForAll'
         /\ \A ops : Asked(ops)' <=> Asked(ops)
<1>1. \A r \in requests' : Sound(r)'
  BY SoundStays DEF VersionsInv
<1>2. Room' = Room
  BY DEF Room
<1>3. IsFiniteSet(requests)'
  BY FS_RemoveElement, FS_AddElement DEF VersionsInv, RoomForAll
<1>4. Cardinality(Unsaved') <= Cardinality(Unsaved)
  <2>1. CASE p \notin Unsaved'
    <3>1. Unsaved' \subseteq Unsaved
      BY <2>1 DEF Unsaved
    <3> QED
      BY <3>1, TableKnown, FS_Subset
  <2>2. CASE p \in Unsaved'
    <3>1. q \in Unsaved /\ Unsaved' \subseteq (Unsaved \ {q}) \cup {p}
      BY <2>2 DEF Unsaved
    <3>2. IsFiniteSet(Unsaved \ {q}) /\ Cardinality(Unsaved \ {q}) = Cardinality(Unsaved) - 1
      BY <3>1, TableKnown, FS_RemoveElement
    <3>3. IsFiniteSet((Unsaved \ {q}) \cup {p})
          /\ Cardinality((Unsaved \ {q}) \cup {p}) <= Cardinality(Unsaved)
      <4> DEFINE others == Unsaved \ {q}
      <4>1. IsFiniteSet(others) /\ Cardinality(others) = Cardinality(Unsaved) - 1
        BY <3>2
      <4>2. Cardinality(Unsaved) \in Nat
        BY TableKnown
      <4> HIDE DEF others
      <4>3. /\ IsFiniteSet(others \cup {p})
            /\ \/ Cardinality(others \cup {p}) = Cardinality(others)
               \/ Cardinality(others \cup {p}) = Cardinality(others) + 1
        BY <4>1, FS_AddElement
      <4>4. IsFiniteSet(others \cup {p}) /\ Cardinality(others \cup {p}) <= Cardinality(Unsaved)
        BY <4>1, <4>2, <4>3
      <4> QED
        BY <4>4 DEF others
    <3> QED
      BY <3>1, <3>3, TableKnown, FS_Subset, FS_CardinalityType
  <2> QED
    BY <2>1, <2>2
<1>5. RoomForAll'
  <2>1. IsFiniteSet(Unsaved') /\ Cardinality(Unsaved') \in Nat
    BY <1>3, FS_Subset, FS_CardinalityType DEF Unsaved
  <2> QED
    BY <1>2, <1>3, <1>4, <2>1, TableKnown DEF VersionsInv, RoomForAll
<1>6. ASSUME NEW ops PROVE Asked(ops)' <=> Asked(ops)
  BY DEF Asked
<1> QED
  BY <1>1, <1>5, <1>6

\* A request is taken out when its answer was used.
LEMMA Removed ==
  ASSUME VersionsInv, Versions!VersionsAssumption, versionRows' = versionRows, NEW q \in requests,
         requests' = requests \ {q}
  PROVE  /\ \A r \in requests' : Sound(r)'
         /\ RoomForAll'
         /\ \A ops : q.op \notin ops => (Asked(ops)' <=> Asked(ops))
<1>1. \A r \in requests' : Sound(r)'
  BY SoundStays DEF VersionsInv
<1>2. Room' = Room /\ Unsaved' \subseteq Unsaved
  BY DEF Room, Unsaved
<1>3. IsFiniteSet(requests)' /\ IsFiniteSet(Unsaved)'
  BY <1>2, TableKnown, FS_Subset, FS_RemoveElement DEF VersionsInv, RoomForAll
<1>4. Cardinality(Unsaved') <= Cardinality(Unsaved) /\ Cardinality(Unsaved') \in Nat
  BY <1>2, <1>3, TableKnown, FS_Subset, FS_CardinalityType
<1>5. RoomForAll'
  BY <1>2, <1>3, <1>4, TableKnown DEF VersionsInv, RoomForAll
<1>6. ASSUME NEW ops, q.op \notin ops PROVE Asked(ops)' <=> Asked(ops)
  BY <1>6 DEF Asked
<1> QED
  BY <1>1, <1>5, <1>6

\* A request that saves nothing is added.
LEMMA Added ==
  ASSUME VersionsInv, Versions!VersionsAssumption, versionRows' = versionRows,
         NEW p, p.op # "save", Sound(p), requests' = requests \cup {p}
  PROVE  /\ \A r \in requests' : Sound(r)'
         /\ RoomForAll'
         /\ \A ops : Asked(ops) => Asked(ops)'
<1>1. \A r \in requests' : Sound(r)'
  BY SoundStays DEF VersionsInv
<1>2. Room' = Room /\ Unsaved' = Unsaved
  BY DEF Room, Unsaved
<1>3. IsFiniteSet(requests)'
  BY FS_AddElement DEF VersionsInv, RoomForAll
<1>4. RoomForAll'
  BY <1>2, <1>3 DEF VersionsInv, RoomForAll
<1>5. ASSUME NEW ops, Asked(ops) PROVE Asked(ops)'
  BY <1>5 DEF Asked
<1> QED
  BY <1>1, <1>4, <1>5

\* No step but a write touches what was published.
LEMMA PublishedStays ==
  ASSUME VersionsInv, versionRows' = versionRows, released' = released, crossed' = crossed
  PROVE  Published'
BY DEF VersionsInv, Published

LEMMA ReadKeeps ==
  ASSUME VersionsInv, Versions!VersionsAssumption, NEW q \in requests, Versions!Read(q)
  PROVE  VersionsInv'
<1> DEFINE ok == CASE q.op = "publish" -> q.version \in Versions!There(versionRows)
                   [] q.op = "delete" -> q.version \in Versions!Drafts(versionRows)
                   [] OTHER -> TRUE
           reply == IF ~ok THEN "refused" ELSE IF q.op \in {"load", "list"} THEN "ok" ELSE "none"
           read == [q EXCEPT !.seen = versionRows]
           p == [read EXCEPT !.answer = reply]
<1>1. /\ q.answer = "none" /\ q.seen = << >>
      /\ requests' = (requests \ {q}) \cup {p}
      /\ UNCHANGED <<versionRows, released, crossed, work, kept, loading, saving, edits, listed, waiting,
                     events, doubt>>
  BY DEF Versions!Read, Versions!editorVars, Versions!publishVars
<1>2. Sound(q)
  BY DEF VersionsInv
<1>3. versionRows # << >>
  <2>1. 1 \in DOMAIN versionRows
    BY TableKnown DEF Ids
  <2> QED
    BY <2>1
<1>4. /\ reply \in {"none", "ok", "refused"}
      /\ reply = "ok" => q.op \in {"load", "list"}
      /\ reply = "none" => q.op \notin {"load", "list"}
      /\ reply = "none" /\ q.op = "publish" => q.version \in Versions!There(versionRows)
      /\ reply = "none" /\ q.op = "delete" => q.version \in Versions!Drafts(versionRows)
  OBVIOUS
<1>5. /\ p \in [id : {p.id}, op : {"load", "list", "save", "publish", "delete"},
                version : 0 .. MaxRows, content : SUBSET (1 .. MaxEdits),
                seen : {<< >>} \cup [Ids -> Row], mixed : BOOLEAN,
                answer : {"none", "ok", "refused", "lost"}]
      /\ p.op = q.op /\ p.version = q.version /\ p.seen = versionRows /\ p.answer = reply
  <2>1. /\ read \in [id : {read.id}, op : {"load", "list", "save", "publish", "delete"},
                     version : 0 .. MaxRows, content : SUBSET (1 .. MaxEdits),
                     seen : {<< >>} \cup [Ids -> Row], mixed : BOOLEAN,
                     answer : {"none", "ok", "refused", "lost"}]
        /\ read.op = q.op /\ read.version = q.version /\ read.seen = versionRows
    BY <1>2, TableKnown DEF Sound
  <2> HIDE DEF read, reply
  <2> QED
    BY <1>4, <2>1
<1>6. Sound(p)
  <2> HIDE DEF p, reply
  <2> QED
    BY <1>2, <1>3, <1>4, <1>5, TableKnown DEF Sound, VersionsInv, VersionTypes
<1> HIDE DEF p
<1>7. /\ \A r \in requests' : Sound(r)'
      /\ RoomForAll'
      /\ \A ops : Asked(ops)' <=> Asked(ops)
  BY <1>1, <1>5, <1>6, Replaced
<1>8. VersionTypes' /\ Published'
  BY <1>1, PublishedStays DEF VersionsInv, VersionTypes
<1>9. Pages'
  BY <1>1, <1>7 DEF VersionsInv, Pages
<1> QED
  BY <1>7, <1>8, <1>9 DEF VersionsInv

LEMMA LoseKeeps ==
  ASSUME VersionsInv, Versions!VersionsAssumption, NEW q \in requests, Versions!Lose(q)
  PROVE  VersionsInv'
<1> DEFINE p == [q EXCEPT !.answer = "lost"]
<1>1. /\ q.answer = "ok" \/ (q.answer = "none" /\ q.seen = << >>)
      /\ requests' = (requests \ {q}) \cup {p}
      /\ UNCHANGED <<versionRows, released, crossed, work, kept, loading, saving, edits, listed, waiting,
                     doubt>>
  BY DEF Versions!Lose, Versions!editorVars, Versions!publishVars
<1>2. Sound(p) /\ p.op = q.op /\ p.answer = "lost"
  BY <1>1 DEF VersionsInv, Sound
<1> HIDE DEF p
<1>3. /\ \A r \in requests' : Sound(r)'
      /\ RoomForAll'
      /\ \A ops : Asked(ops)' <=> Asked(ops)
  BY <1>1, <1>2, Replaced
<1>4. VersionTypes' /\ Published'
  BY <1>1, PublishedStays DEF VersionsInv, VersionTypes
<1>5. Pages'
  BY <1>1, <1>3 DEF VersionsInv, Pages
<1> QED
  BY <1>3, <1>4, <1>5 DEF VersionsInv

\* What Ask gives is a new request.
LEMMA AskedFresh ==
  ASSUME NEW op \in {"load", "list", "save", "publish", "delete"}, NEW v \in 0 .. MaxRows,
         op \in {"publish", "delete"} => v \in Ids
  PROVE  Sound(Versions!Ask(op, v)) /\ Versions!Ask(op, v).op = op
BY FreshRequest DEF Versions!Ask

LEMMA ReloadKeeps ==
  ASSUME VersionsInv, Versions!VersionsAssumption, Versions!Reload
  PROVE  VersionsInv'
<1> DEFINE p == Versions!Ask("load", 0)
<1>1. /\ loading' = TRUE /\ requests' = requests \cup {p}
      /\ UNCHANGED <<versionRows, released, crossed, work, kept, saving, edits, listed, waiting, doubt>>
  BY DEF Versions!Reload, Versions!publishVars
<1>2. Sound(p) /\ p.op = "load"
  BY AskedFresh, TableKnown
<1> HIDE DEF p
<1>3. /\ \A r \in requests' : Sound(r)'
      /\ RoomForAll'
      /\ \A ops : Asked(ops) => Asked(ops)'
  BY <1>1, <1>2, Added
<1>4. VersionTypes' /\ Published'
  BY <1>1, PublishedStays DEF VersionsInv, VersionTypes
<1>5. Asked({"load"})'
  BY <1>1, <1>2 DEF Asked
<1>6. Pages'
  BY <1>1, <1>3, <1>5 DEF VersionsInv, Pages
<1> QED
  BY <1>3, <1>4, <1>6 DEF VersionsInv

LEMMA ClickKeeps ==
  ASSUME VersionsInv, Versions!VersionsAssumption, NEW v \in Ids, NEW op \in {"publish", "delete"},
         Versions!Click(op, v)
  PROVE  VersionsInv'
<1> DEFINE p == Versions!Ask(op, v)
<1>1. /\ requests' = requests \cup {p}
      /\ UNCHANGED <<versionRows, released, crossed, work, kept, loading, saving, edits, listed, waiting,
                     doubt>>
  BY DEF Versions!Click, Versions!publishVars, Versions!editorVars
<1>2. Sound(p) /\ p.op = op
  BY AskedFresh, TableKnown DEF Ids
<1> HIDE DEF p
<1>3. /\ \A r \in requests' : Sound(r)'
      /\ RoomForAll'
      /\ \A ops : Asked(ops) => Asked(ops)'
  BY <1>1, <1>2, Added
<1>4. VersionTypes' /\ Published'
  BY <1>1, PublishedStays DEF VersionsInv, VersionTypes
<1>5. Pages'
  BY <1>1, <1>3 DEF VersionsInv, Pages
<1> QED
  BY <1>3, <1>4, <1>5 DEF VersionsInv

LEMMA EditKeeps ==
  ASSUME VersionsInv, Versions!VersionsAssumption, Versions!Edit
  PROVE  VersionsInv'
<1>1. /\ edits < MaxEdits /\ edits' = edits + 1 /\ work' = work \cup {edits + 1}
      /\ UNCHANGED <<versionRows, released, crossed, kept, loading, saving, listed, waiting, requests,
                     events, doubt>>
  BY DEF Versions!Edit, Versions!publishVars
<1>2. VersionTypes' /\ Published'
  BY <1>1, PublishedStays DEF VersionsInv, VersionTypes, Versions!VersionsAssumption
<1>3. (\A q \in requests' : Sound(q)') /\ RoomForAll'
  BY <1>1, SoundStays DEF VersionsInv, RoomForAll, Room, Unsaved
<1>4. Pages'
  BY <1>1 DEF VersionsInv, Pages, Asked
<1> QED
  BY <1>2, <1>3, <1>4 DEF VersionsInv

\* The guard of the save button leaves a row for the version.
LEMMA ClickSaveKeeps ==
  ASSUME VersionsInv, Versions!VersionsAssumption, Versions!ClickSave
  PROVE  VersionsInv'
<1> DEFINE blank == Versions!Ask("save", 0)
           p == [blank EXCEPT !.content = work]
           Saves == {q \in requests : q.op = "save"}
<1>1. /\ Cardinality(Room) > Cardinality(Saves)
      /\ saving' = TRUE /\ requests' = requests \cup {p}
      /\ UNCHANGED <<versionRows, released, crossed, work, kept, loading, edits, listed, waiting, doubt>>
  BY CountIsCardinality DEF Versions!ClickSave, Versions!publishVars, Versions!Ids, Ids, Room
<1>2. Sound(p) /\ p.op = "save"
  <2>1. Sound(blank) /\ blank.op = "save"
    BY AskedFresh, TableKnown
  <2>2. blank.seen = << >> /\ blank.answer = "none"
    BY DEF Versions!Ask
  <2>3. work \in SUBSET (1 .. MaxEdits)
    BY DEF VersionsInv, VersionTypes
  <2> HIDE DEF blank
  <2> QED
    BY <2>1, <2>2, <2>3 DEF Sound
<1> HIDE DEF p
<1>3. \A r \in requests' : Sound(r)'
  BY <1>1, <1>2, SoundStays DEF VersionsInv
<1>4. RoomForAll'
  <2>1. IsFiniteSet(requests) /\ IsFiniteSet(requests')
    BY <1>1, FS_AddElement DEF VersionsInv, RoomForAll
  <2>2. IsFiniteSet(Saves) /\ Cardinality(Saves) \in Nat
    BY <2>1, FS_Subset, FS_CardinalityType
  <2>3. IsFiniteSet(Unsaved) /\ Cardinality(Unsaved) <= Cardinality(Saves)
        /\ Cardinality(Unsaved) \in Nat
    BY <2>2, FS_Subset, FS_CardinalityType DEF Unsaved
  <2>4. Unsaved' \subseteq Unsaved \cup {p}
    BY <1>1 DEF Unsaved
  <2>5. IsFiniteSet(Unsaved \cup {p}) /\ Cardinality(Unsaved \cup {p}) <= Cardinality(Unsaved) + 1
        /\ Cardinality(Unsaved \cup {p}) \in Nat
    BY <2>3, FS_AddElement, FS_CardinalityType
  <2>6. Cardinality(Unsaved') <= Cardinality(Unsaved) + 1 /\ Cardinality(Unsaved') \in Nat
    BY <2>3, <2>4, <2>5, FS_Subset, FS_CardinalityType
  <2>7. Room' = Room
    BY <1>1 DEF Room
  <2> QED
    BY <1>1, <2>1, <2>2, <2>3, <2>6, <2>7, TableKnown DEF RoomForAll
<1>5. VersionTypes' /\ Published'
  BY <1>1, PublishedStays DEF VersionsInv, VersionTypes
<1>6. Asked({"save"})' /\ \A ops : Asked(ops) => Asked(ops)'
  BY <1>1, <1>2 DEF Asked
<1>7. Pages'
  BY <1>1, <1>6 DEF VersionsInv, Pages
<1> QED
  BY <1>3, <1>4, <1>5, <1>7 DEF VersionsInv

LEMMA LoadedKeeps ==
  ASSUME VersionsInv, Versions!VersionsAssumption, NEW q \in requests, q.op = "load",
         q.answer # "none", Versions!Loaded(q)
  PROVE  VersionsInv'
<1>1. /\ loading' = FALSE /\ requests' = requests \ {q}
      /\ UNCHANGED <<versionRows, released, crossed, saving, edits, listed, waiting, doubt>>
  BY DEF Versions!Loaded, Versions!publishVars
<1>2. work' \subseteq 1 .. MaxEdits /\ kept' \subseteq work'
  <2>1. CASE q.answer = "ok" /\ Versions!Shown(q.seen) # {}
    <3>1. PICK v \in Versions!Shown(q.seen) : work' = q.seen[v].content /\ kept' = {}
      BY <2>1 DEF Versions!Loaded
    <3>2. v \in Ids
      BY <3>1 DEF Versions!Shown, Versions!There, Versions!Ids, Ids
    <3>3. Table(q.seen)
      BY <2>1 DEF VersionsInv, Sound
    <3> QED
      BY <3>1, <3>2, <3>3 DEF Table, Row
  <2>2. CASE ~(q.answer = "ok" /\ Versions!Shown(q.seen) # {})
    BY <2>2 DEF Versions!Loaded, VersionsInv, VersionTypes
  <2> QED
    BY <2>1, <2>2
<1>3. /\ \A r \in requests' : Sound(r)'
      /\ RoomForAll'
      /\ \A ops : "load" \notin ops => (Asked(ops)' <=> Asked(ops))
  BY <1>1, Removed
<1>4. VersionTypes' /\ Published'
  BY <1>1, <1>2, PublishedStays DEF VersionsInv, VersionTypes
<1>5. Pages'
  BY <1>1, <1>3 DEF VersionsInv, Pages
<1> QED
  BY <1>3, <1>4, <1>5 DEF VersionsInv

LEMMA SavedKeeps ==
  ASSUME VersionsInv, Versions!VersionsAssumption, NEW q \in requests, q.op = "save",
         Versions!Saved(q)
  PROVE  VersionsInv'
<1>1. /\ saving' = FALSE /\ requests' = requests \ {q}
      /\ kept' = IF q.answer = "ok" THEN kept \cup (q.content \cap work) ELSE kept
      /\ UNCHANGED <<versionRows, released, crossed, work, loading, edits, listed, waiting, doubt>>
  BY DEF Versions!Saved, Versions!publishVars
<1>2. /\ \A r \in requests' : Sound(r)'
      /\ RoomForAll'
      /\ \A ops : "save" \notin ops => (Asked(ops)' <=> Asked(ops))
  BY <1>1, Removed
<1>3. VersionTypes' /\ Published'
  BY <1>1, PublishedStays DEF VersionsInv, VersionTypes
<1>4. Pages'
  BY <1>1, <1>2 DEF VersionsInv, Pages
<1> QED
  BY <1>2, <1>3, <1>4 DEF VersionsInv

\* The list is asked for again after a publication or deletion that was done.
LEMMA ClickedKeeps ==
  ASSUME VersionsInv, Versions!VersionsAssumption, NEW q \in requests,
         q.op \in {"publish", "delete"}, q.answer # "none", Versions!Clicked(q)
  PROVE  VersionsInv'
<1>1. /\ doubt' = (doubt \/ q.answer # "ok")
      /\ UNCHANGED <<versionRows, released, crossed, work, kept, loading, saving, edits, listed>>
  BY DEF Versions!Clicked, Versions!editorVars
<1>2. VersionTypes' /\ Published'
  BY <1>1, PublishedStays DEF VersionsInv, VersionTypes, Versions!Clicked
<1>3. CASE q.answer = "ok"
  <2> DEFINE p == Versions!Ask("list", 0)
  <2>1. waiting' = TRUE /\ requests' = (requests \ {q}) \cup {p}
    BY <1>3 DEF Versions!Clicked
  <2>2. Sound(p) /\ p.op = "list"
    BY AskedFresh, TableKnown
  <2> HIDE DEF p
  <2>3. \A r \in requests' : Sound(r)'
    BY <1>1, <2>1, <2>2, SoundStays DEF VersionsInv
  <2>4. RoomForAll'
    <3>1. Unsaved' = Unsaved /\ Room' = Room
      BY <1>1, <2>1, <2>2 DEF Unsaved, Room
    <3>2. IsFiniteSet(requests')
      BY <2>1, FS_RemoveElement, FS_AddElement DEF VersionsInv, RoomForAll
    <3> QED
      BY <3>1, <3>2 DEF VersionsInv, RoomForAll
  <2>5. /\ Asked({"list"})' /\ Asked({"publish", "delete", "list"})'
        /\ Asked({"load"}) => Asked({"load"})'
        /\ Asked({"save"}) => Asked({"save"})'
    BY <2>1, <2>2 DEF Asked
  <2>6. Pages'
    BY <1>1, <2>5 DEF VersionsInv, Pages
  <2> QED
    BY <1>2, <2>3, <2>4, <2>6 DEF VersionsInv
<1>4. CASE q.answer # "ok"
  <2>1. requests' = requests \ {q} /\ UNCHANGED waiting /\ doubt'
    BY <1>1, <1>4 DEF Versions!Clicked
  <2>2. /\ \A r \in requests' : Sound(r)'
        /\ RoomForAll'
        /\ \A ops : q.op \notin ops => (Asked(ops)' <=> Asked(ops))
    BY <1>1, <2>1, Removed
  <2>3. Pages'
    BY <1>1, <2>1, <2>2 DEF VersionsInv, Pages
  <2> QED
    BY <1>2, <2>2, <2>3 DEF VersionsInv
<1> QED
  BY <1>3, <1>4

\* The list that an answer brings is that of the drafts, if nothing was written since it
\* was read.
LEMMA ListedKeeps ==
  ASSUME VersionsInv, Versions!VersionsAssumption, NEW q \in requests, q.op = "list",
         q.answer # "none", Versions!Listed(q)
  PROVE  VersionsInv'
<1>1. /\ waiting' = FALSE /\ requests' = requests \ {q}
      /\ listed' = IF q.answer = "ok" THEN Versions!Drafts(q.seen) ELSE listed
      /\ doubt' = (q.mixed \/ q.answer # "ok" \/
                     \E r \in requests \ {q} : r.op \in {"publish", "delete"})
      /\ UNCHANGED <<versionRows, released, crossed, work, kept, loading, saving, edits>>
  BY DEF Versions!Listed, Versions!editorVars
<1>2. Sound(q)
  BY DEF VersionsInv
<1>3. /\ \A r \in requests' : Sound(r)'
      /\ RoomForAll'
      /\ \A ops : "list" \notin ops => (Asked(ops)' <=> Asked(ops))
  BY <1>1, Removed
<1>4. listed' \subseteq Ids /\ doubt' \in BOOLEAN
  BY <1>1, <1>2, TableKnown DEF Sound, VersionsInv, VersionTypes
<1>5. VersionTypes' /\ Published'
  BY <1>1, <1>4, PublishedStays DEF VersionsInv, VersionTypes
<1>6. doubt' \/ listed' = Versions!Drafts(versionRows)
  BY <1>1, <1>2 DEF Sound
<1>7. Pages'
  <2>1. Versions!Drafts(versionRows)' = Versions!Drafts(versionRows)
    BY <1>1 DEF Versions!Drafts, Versions!There, Versions!Ids
  <2> QED
    BY <1>1, <1>3, <1>6, <2>1 DEF VersionsInv, Pages
<1> QED
  BY <1>3, <1>5, <1>7 DEF VersionsInv

-----------------------------------------------------------------------------
(* Writes. *)

\* A write that makes a table out of the table: it answers its request, and what the others
\* have read is late.
LEMMA WrittenKeeps ==
  ASSUME VersionsInv, Versions!VersionsAssumption,
         NEW q \in requests, q.answer = "none", q.seen # << >>,
         NEW ok \in BOOLEAN, Versions!Written(q, ok), Table(versionRows'), Older(versionRows, versionRows')
  PROVE  /\ \A r \in requests' : Sound(r)'
         /\ IsFiniteSet(requests')
         /\ Cardinality(Unsaved') <= Cardinality(Unsaved)
         /\ q.op = "save" => Cardinality(Unsaved') < Cardinality(Unsaved)
         /\ \A ops : Asked(ops) => Asked(ops)'
         /\ Asked({q.op})'
<1> DEFINE late(r) == IF r.seen # << >> THEN [r EXCEPT !.mixed = TRUE] ELSE r
           done == [q EXCEPT !.answer = IF ok THEN "ok" ELSE "refused"]
           others == requests \ {q}
<1>1. requests' = {late(r) : r \in others} \cup {done}
  <2>1. requests' = {[r EXCEPT !.mixed = TRUE] : r \in {s \in others : s.seen # << >>}}
                      \cup {s \in others : s.seen = << >>} \cup {done}
    BY DEF Versions!Written
  <2>2. {late(r) : r \in others} =
          {[r EXCEPT !.mixed = TRUE] : r \in {s \in others : s.seen # << >>}}
            \cup {s \in others : s.seen = << >>}
    OBVIOUS
  <2> HIDE DEF late, done, others
  <2> QED
    BY <2>1, <2>2
<1>2. \A s : Older(s, versionRows) => Older(s, versionRows')
  BY DEF Older
<1>3. ASSUME NEW r \in requests, r # q
      PROVE  Sound(late(r))' /\ late(r).op = r.op /\ late(r).answer = r.answer
  <2>1. Sound(r)
    BY DEF VersionsInv
  <2>2. CASE r.seen # << >>
    <3> DEFINE new == [r EXCEPT !.mixed = TRUE]
    <3>1. /\ new \in [id : {new.id}, op : {"load", "list", "save", "publish", "delete"},
                      version : 0 .. MaxRows, content : SUBSET (1 .. MaxEdits),
                      seen : {<< >>} \cup [Ids -> Row], mixed : BOOLEAN,
                      answer : {"none", "ok", "refused", "lost"}]
          /\ new.op = r.op /\ new.answer = r.answer /\ new.seen = r.seen /\ new.mixed
          /\ new.version = r.version
      BY <2>1 DEF Sound
    <3>2. late(r) = new
      BY <2>2
    <3> HIDE DEF new, late
    <3>3. Sound(new)'
      BY <1>2, <2>1, <2>2, <3>1 DEF Sound
    <3> QED
      BY <3>1, <3>2, <3>3
  <2>3. CASE r.seen = << >>
    BY <2>1, <2>3 DEF Sound
  <2> QED
    BY <2>2, <2>3
<1>4. Sound(done)' /\ done.op = q.op /\ done.answer # "none"
  <2>1. Sound(q)
    BY DEF VersionsInv
  <2>2. q.op \notin {"load", "list"}
    BY <2>1 DEF Sound
  <2>3. /\ done \in [id : {done.id}, op : {"load", "list", "save", "publish", "delete"},
                     version : 0 .. MaxRows, content : SUBSET (1 .. MaxEdits),
                     seen : {<< >>} \cup [Ids -> Row], mixed : BOOLEAN,
                     answer : {"none", "ok", "refused", "lost"}]
        /\ done.op = q.op /\ done.answer \in {"ok", "refused"} /\ done.seen = q.seen
        /\ done.version = q.version
    BY <2>1 DEF Sound
  <2> HIDE DEF done
  <2> QED
    BY <1>2, <2>1, <2>2, <2>3 DEF Sound
<1> HIDE DEF late, done
<1>5. \A r \in requests' : Sound(r)'
  BY <1>1, <1>3, <1>4
<1>6. IsFiniteSet(requests')
  <2> DEFINE f == [r \in others |-> late(r)]
             T == {late(r) : r \in others}
  <2>1. IsFiniteSet(others)
    BY FS_RemoveElement DEF VersionsInv, RoomForAll
  <2>2. f \in [others -> T] /\ \A y \in T : \E x \in others : f[x] = y
    OBVIOUS
  <2>3. IsFiniteSet(T)
    <3> HIDE DEF f, T, others
    <3> QED
      BY <2>1, <2>2, ImageIsSmaller
  <2> HIDE DEF T
  <2> QED
    BY <1>1, <2>3, FS_AddElement DEF T
<1>7. /\ Cardinality(Unsaved') <= Cardinality(Unsaved)
      /\ q.op = "save" => Cardinality(Unsaved') < Cardinality(Unsaved)
  <2> DEFINE U == Unsaved \ {q}
             f == [r \in U |-> late(r)]
             T == {late(r) : r \in U}
  <2>1. Unsaved' = T
    <3>1. \A r \in requests' : r \in Unsaved' <=> r.op = "save" /\ r.answer = "none"
      BY DEF Unsaved
    <3>2. Unsaved' \subseteq T
      BY <1>1, <1>3, <1>4, <3>1 DEF Unsaved
    <3>3. T \subseteq Unsaved'
      BY <1>1, <1>3, <3>1 DEF Unsaved
    <3> QED
      BY <3>2, <3>3
  <2>2. IsFiniteSet(U) /\ Cardinality(U) \in Nat /\ Cardinality(U) <= Cardinality(Unsaved)
    <3>1. U \in SUBSET Unsaved /\ IsFiniteSet(Unsaved)
      BY TableKnown
    <3> HIDE DEF U
    <3> QED
      BY <3>1, FS_Subset, FS_CardinalityType
  <2>3. q.op = "save" => Cardinality(U) < Cardinality(Unsaved)
    <3>1. q.op = "save" => q \in Unsaved
      BY DEF Unsaved
    <3>2. q \in Unsaved => Cardinality(U) = Cardinality(Unsaved) - 1
      BY TableKnown, FS_RemoveElement
    <3> QED
      BY <3>1, <3>2, TableKnown
  <2>4. f \in [U -> T] /\ \A y \in T : \E x \in U : f[x] = y
    OBVIOUS
  <2> HIDE DEF f, T, U
  <2>5. IsFiniteSet(T) /\ Cardinality(T) <= Cardinality(U)
    BY <2>2, <2>4, ImageIsSmaller
  <2>6. Cardinality(T) \in Nat
    BY <2>5, FS_CardinalityType
  <2> QED
    BY <2>1, <2>2, <2>3, <2>5, <2>6, TableKnown
<1>8. Asked({q.op})' /\ \A ops : Asked(ops) => Asked(ops)'
  BY <1>1, <1>3, <1>4 DEF Asked
<1> QED
  BY <1>5, <1>6, <1>7, <1>8

\* A new draft takes the next row, and its number is not above the id.
LEMMA SaveKeeps ==
  ASSUME VersionsInv, Versions!VersionsAssumption,
         NEW q \in requests, q.op = "save", q.answer = "none", q.seen # << >>, Versions!Save(q)
  PROVE  VersionsInv'
<1> DEFINE numbers == {0} \cup {q.seen[v].number : v \in Versions!There(q.seen)}
           number == 1 + Versions!Max(numbers)
           ok == \A v \in Versions!There(versionRows) : versionRows[v].number # number
           id == Versions!Min(Room)
           row == [number |-> number, status |-> "draft", current |-> FALSE, content |-> q.content]
<1>1. /\ versionRows' = IF ok THEN [versionRows EXCEPT ![id] = row] ELSE versionRows
      /\ Versions!Written(q, ok) /\ UNCHANGED released
  BY DEF Versions!Save, Room, Versions!Ids, Ids
<1>2. UNCHANGED <<work, kept, loading, saving, edits, listed, waiting>>
  BY <1>1 DEF Versions!Written, Versions!editorVars, Versions!publishVars
<1>3. Sound(q) /\ q \in Unsaved
  BY DEF VersionsInv, Unsaved
<1>4. id \in Room /\ \A v \in Room : id <= v
  <2>1. Cardinality(Unsaved) # 0
    BY <1>3, TableKnown, FS_EmptySet
  <2>2. Room # {} /\ Room \in SUBSET Ids
    BY <2>1, TableKnown, FS_EmptySet DEF VersionsInv, RoomForAll, Room
  <2> QED
    BY <2>2, LeastId
<1>5. id \in Ids /\ id \in Nat /\ id >= 1 /\ versionRows[id].status = "none"
  BY <1>4, TableKnown DEF Room, Ids
<1>6. number \in Nat \ {0} /\ number <= id
  <2>1. \A v \in Versions!There(q.seen) : /\ v \in Ids /\ v < id
                                          /\ q.seen[v].number \in Nat /\ q.seen[v].number <= v
    <3> TAKE v \in Versions!There(q.seen)
    <3>1. v \in Ids /\ q.seen[v].number > 0 /\ Table(q.seen) /\ Older(q.seen, versionRows)
      BY <1>3 DEF Versions!There, Versions!Ids, Ids, Sound
    <3>2. versionRows[v].status # "none"
      BY <3>1 DEF Table, Older
    <3>3. v < id
      BY <1>4, <1>5, <3>1, <3>2, TableKnown DEF VersionsInv, VersionTypes, Table, Room, Ids
    <3> QED
      BY <3>1, <3>3 DEF Table, Row
  <2>2. numbers \in SUBSET (0 .. id - 1) /\ numbers # {}
    <3>1. \A v \in Versions!There(q.seen) : q.seen[v].number \in 0 .. id - 1
      BY <1>5, <2>1 DEF Ids
    <3> QED
      BY <1>5, <3>1
  <2>3. Versions!Max(numbers) \in 0 .. id - 1
    <3>1. id - 1 \in Nat
      BY <1>5
    <3> HIDE DEF numbers
    <3> QED
      BY <2>2, <3>1, LargestNumber
  <2> QED
    BY <1>5, <2>3
<1>7. row \in Row /\ row.number = number /\ row.status = "draft" /\ ~row.current
  BY <1>3, <1>6 DEF Row, Sound
<1> HIDE DEF number, row, ok, id
<1>8. Table(versionRows') /\ Older(versionRows, versionRows')
  <2>1. CASE ok
    <3>1. /\ versionRows' \in [Ids -> Row] /\ versionRows'[id] = row
          /\ \A v \in Ids \ {id} : versionRows'[v] = versionRows[v]
      BY <1>1, <1>5, <1>7, <2>1, TableKnown
    <3>2. \A v \in Ids : versionRows'[v].status = "none" => v # id /\ versionRows[v].status = "none"
      BY <1>7, <3>1
    <3>3. ASSUME NEW v \in Ids, versionRows'[v].status = "none", NEW u \in Ids, v < u
          PROVE  versionRows'[u].status = "none"
      <4>1. versionRows[v].status = "none" /\ versionRows[u].status = "none" /\ v \in Room
        BY <3>2, <3>3 DEF VersionsInv, VersionTypes, Table, Room
      <4>2. u # id
        BY <1>4, <1>5, <3>3, <4>1 DEF Ids
      <4> QED
        BY <3>1, <4>1, <4>2
    <3>4. ASSUME NEW v \in Ids
          PROVE  /\ versionRows'[v].number <= v
                 /\ versionRows'[v].number = 0 <=> versionRows'[v].status = "none"
                 /\ versionRows'[v].current <=> versionRows'[v].status = "published"
      <4>1. CASE v = id
        BY <1>6, <1>7, <3>1, <4>1
      <4>2. CASE v # id
        BY <3>1, <4>2 DEF VersionsInv, VersionTypes, Table
      <4> QED
        BY <4>1, <4>2
    <3> QED
      BY <1>7, <3>1, <3>3, <3>4 DEF Table, Older
  <2>2. CASE ~ok
    BY <1>1, <2>2, TableKnown DEF VersionsInv, VersionTypes
  <2> QED
    BY <2>1, <2>2
<1>9. /\ \A r \in requests' : Sound(r)'
      /\ IsFiniteSet(requests')
      /\ Cardinality(Unsaved') < Cardinality(Unsaved)
      /\ \A ops : Asked(ops) => Asked(ops)'
  <2>1. ok \in BOOLEAN
    BY DEF ok
  <2> QED
    BY <1>1, <1>8, <2>1, WrittenKeeps
<1>10. RoomForAll'
  <2>1. Room \ {id} \subseteq Room' /\ Room' \in SUBSET Ids
    BY <1>1, <1>5, TableKnown DEF Room
  <2>2. IsFiniteSet(Room') /\ Cardinality(Room') \in Nat
    <3>1. 1 \in Int /\ MaxRows \in Int
      BY TableKnown
    <3>2. IsFiniteSet(Ids)
      BY <3>1, FS_Interval DEF Ids
    <3> QED
      BY <2>1, <3>2, FS_Subset, FS_CardinalityType
  <2>3. Cardinality(Room \ {id}) = Cardinality(Room) - 1
    BY <1>4, TableKnown, FS_RemoveElement
  <2>4. Cardinality(Room \ {id}) <= Cardinality(Room')
    BY <2>1, <2>2, FS_Subset
  <2>5. IsFiniteSet(Unsaved') /\ Cardinality(Unsaved') \in Nat
    BY <1>9, FS_Subset, FS_CardinalityType DEF Unsaved
  <2> QED
    BY <1>9, <2>2, <2>3, <2>4, <2>5, TableKnown DEF VersionsInv, RoomForAll
<1>11. /\ crossed' \in BOOLEAN /\ doubt' \in BOOLEAN /\ (crossed => crossed')
       /\ ok => doubt'
       /\ doubt => doubt'
  BY <1>1 DEF Versions!Written, VersionsInv, VersionTypes, ok
<1>12. VersionTypes'
  BY <1>1, <1>2, <1>8, <1>11 DEF VersionsInv, VersionTypes
<1>13. Published'
  <2>1. CASE ok
    <3>1. \A v \in Ids : versionRows'[v].current => v # id /\ versionRows'[v] = versionRows[v]
      BY <1>1, <1>5, <1>7, <2>1, TableKnown
    <3>2. \A v \in Ids : v # id => versionRows'[v] = versionRows[v]
      BY <1>1, <1>5, <2>1, TableKnown
    <3>3. ASSUME ~crossed', NEW v \in released PROVE v # id /\ v \in Ids
      BY <1>5, <1>11, <3>3 DEF VersionsInv, VersionTypes, Published
    <3> QED
      BY <1>1, <1>11, <3>1, <3>2, <3>3 DEF VersionsInv, Published
  <2>2. CASE ~ok
    BY <1>1, <1>11, <2>2 DEF VersionsInv, Published
  <2> QED
    BY <2>1, <2>2
<1>14. Pages'
  <2>1. doubt' \/ Versions!Drafts(versionRows)' = Versions!Drafts(versionRows)
    BY <1>1, <1>11 DEF Versions!Drafts, Versions!There, Versions!Ids
  <2> QED
    BY <1>2, <1>9, <1>11, <2>1 DEF VersionsInv, Pages
<1> QED
  BY <1>9, <1>10, <1>12, <1>13, <1>14 DEF VersionsInv

\* A write that gives out no row.
LEMMA RoomStays ==
  ASSUME VersionsInv, Versions!VersionsAssumption, IsFiniteSet(requests'),
         Cardinality(Unsaved') <= Cardinality(Unsaved),
         \A v \in Ids : versionRows'[v].status = "none" <=> versionRows[v].status = "none"
  PROVE  RoomForAll'
<1>1. Room' = Room
  BY DEF Room
<1>2. IsFiniteSet(Unsaved') /\ Cardinality(Unsaved') \in Nat
  BY FS_Subset, FS_CardinalityType DEF Unsaved
<1> QED
  BY <1>1, <1>2, TableKnown DEF VersionsInv, RoomForAll

\* A publication archives what was published when it read the versionRows.
LEMMA PublishKeeps ==
  ASSUME VersionsInv, Versions!VersionsAssumption,
         NEW q \in requests, q.op = "publish", q.answer = "none", q.seen # << >>,
         Versions!Publish(q)
  PROVE  VersionsInv'
<1> DEFINE ok == versionRows[q.version].status # "gone"
           old(v) == v \in Versions!There(q.seen) /\ q.seen[v].status = "published"
<1>1. /\ versionRows' = IF ok
                 THEN [v \in Ids |->
                         IF v = q.version
                         THEN [versionRows[v] EXCEPT !.status = "published", !.current = TRUE]
                         ELSE IF old(v)
                         THEN [versionRows[v] EXCEPT !.status = "archived", !.current = FALSE]
                         ELSE versionRows[v]]
                 ELSE versionRows
      /\ released' = IF ok THEN released \cup {q.version} ELSE released
      /\ Versions!Written(q, ok)
  BY DEF Versions!Publish, Versions!Ids, Ids
<1>2. UNCHANGED <<work, kept, loading, saving, edits, listed, waiting>>
  BY <1>1 DEF Versions!Written, Versions!editorVars, Versions!publishVars
<1>3. Sound(q)
  BY DEF VersionsInv
<1>4. /\ q.version \in Ids /\ versionRows[q.version].status # "none"
      /\ \A v \in Ids : old(v) => versionRows[v].status # "none"
  <2>1. Table(q.seen) /\ Older(q.seen, versionRows) /\ q.version \in Versions!There(q.seen)
    BY <1>3 DEF Sound
  <2>2. \A v \in Versions!There(q.seen) : v \in Ids /\ q.seen[v].status # "none"
    BY <2>1 DEF Versions!There, Versions!Ids, Ids, Table
  <2> QED
    BY <2>1, <2>2 DEF Older
<1> HIDE DEF old, ok
<1>5. ASSUME ok
      PROVE  /\ versionRows' \in [Ids -> Row]
             /\ versionRows'[q.version].status = "published" /\ versionRows'[q.version].current
             /\ versionRows'[q.version].number = versionRows[q.version].number
             /\ \A v \in Ids : v # q.version /\ old(v) =>
                  /\ versionRows'[v].status = "archived" /\ ~versionRows'[v].current
                  /\ versionRows'[v].number = versionRows[v].number
             /\ \A v \in Ids : v # q.version /\ ~old(v) => versionRows'[v] = versionRows[v]
  <2>1. ASSUME NEW v \in Ids, NEW status \in {"published", "archived"}, NEW current \in BOOLEAN
        PROVE  /\ [versionRows[v] EXCEPT !.status = status, !.current = current] \in Row
               /\ [versionRows[v] EXCEPT !.status = status, !.current = current].status = status
               /\ [versionRows[v] EXCEPT !.status = status, !.current = current].current = current
               /\ [versionRows[v] EXCEPT !.status = status, !.current = current].number = versionRows[v].number
    <3> DEFINE marked == [versionRows[v] EXCEPT !.status = status]
    <3>1. versionRows[v] \in Row
      BY TableKnown
    <3>2. marked \in Row /\ marked.status = status /\ marked.number = versionRows[v].number
      BY <3>1 DEF Row
    <3> HIDE DEF marked
    <3>3. /\ [marked EXCEPT !.current = current] \in Row
          /\ [marked EXCEPT !.current = current].status = status
          /\ [marked EXCEPT !.current = current].current = current
          /\ [marked EXCEPT !.current = current].number = versionRows[v].number
      BY <3>2 DEF Row
    <3> QED
      BY <3>3 DEF marked
  <2> DEFINE new(v) == IF v = q.version
                       THEN [versionRows[v] EXCEPT !.status = "published", !.current = TRUE]
                       ELSE IF old(v)
                       THEN [versionRows[v] EXCEPT !.status = "archived", !.current = FALSE]
                       ELSE versionRows[v]
  <2>2. versionRows' = [v \in Ids |-> new(v)]
    BY <1>1, <1>5
  <2>3. \A v \in Ids : new(v) \in Row
    BY <2>1, TableKnown
  <2>4. /\ new(q.version).status = "published" /\ new(q.version).current
        /\ new(q.version).number = versionRows[q.version].number
    BY <1>4, <2>1
  <2>5. \A v \in Ids : v # q.version /\ old(v) =>
          new(v).status = "archived" /\ ~new(v).current /\ new(v).number = versionRows[v].number
    BY <2>1
  <2>6. \A v \in Ids : v # q.version /\ ~old(v) => new(v) = versionRows[v]
    OBVIOUS
  <2> HIDE DEF new
  <2> QED
    BY <1>4, <2>2, <2>3, <2>4, <2>5, <2>6
<1>6. \A v \in Ids : versionRows'[v].status = "none" <=> versionRows[v].status = "none"
  BY <1>1, <1>4, <1>5
<1>7. Table(versionRows') /\ Older(versionRows, versionRows')
  <2>1. CASE ok
    <3>1. ASSUME NEW v \in Ids
          PROVE  /\ versionRows'[v].number = versionRows[v].number
                 /\ versionRows'[v].current <=> versionRows'[v].status = "published"
      BY <1>5, <2>1 DEF VersionsInv, VersionTypes, Table
    <3> QED
      BY <1>5, <1>6, <2>1, <3>1 DEF VersionsInv, VersionTypes, Table, Older
  <2>2. CASE ~ok
    BY <1>1, <2>2, TableKnown DEF VersionsInv, VersionTypes
  <2> QED
    BY <2>1, <2>2
<1>8. /\ \A r \in requests' : Sound(r)'
      /\ IsFiniteSet(requests')
      /\ Cardinality(Unsaved') <= Cardinality(Unsaved)
      /\ \A ops : Asked(ops) => Asked(ops)'
      /\ Asked({"publish"})'
  <2>1. ok \in BOOLEAN
    BY DEF ok
  <2> QED
    BY <1>1, <1>7, <2>1, WrittenKeeps
<1>9. RoomForAll'
  BY <1>6, <1>8, RoomStays
<1>10. /\ crossed' \in BOOLEAN /\ doubt' \in BOOLEAN /\ (crossed => crossed')
       /\ ok /\ ~crossed' => ~q.mixed
       /\ doubt => doubt'
  BY <1>1 DEF Versions!Written, VersionsInv, VersionTypes, ok
<1>11. VersionTypes'
  BY <1>1, <1>2, <1>4, <1>7, <1>10 DEF VersionsInv, VersionTypes
<1>12. Published'
  <2>1. CASE ok /\ ~crossed'
    <3>1. q.seen = versionRows
      BY <1>3, <1>10, <2>1 DEF Sound
    <3>2. \A v \in Ids : versionRows[v].current => old(v)
      BY <3>1 DEF old, VersionsInv, VersionTypes, Table, Row, Versions!There, Versions!Ids, Ids
    <3>3. \A v \in Ids : versionRows'[v].current => v = q.version
      BY <1>5, <2>1, <3>2
    <3>4. ASSUME NEW v \in released' PROVE versionRows'[v].status \in {"published", "archived"}
      <4>1. CASE v = q.version
        BY <1>5, <2>1, <4>1
      <4>2. CASE v # q.version
        <5>1. v \in released /\ v \in Ids
          BY <1>1, <2>1, <4>2 DEF VersionsInv, VersionTypes
        <5>2. versionRows[v].status \in {"published", "archived"}
          BY <1>10, <2>1, <5>1 DEF VersionsInv, Published
        <5> QED
          BY <1>5, <2>1, <4>2, <5>1, <5>2
      <4> QED
        BY <4>1, <4>2
    <3>5. q.version \in released' /\ versionRows'[q.version].current
      BY <1>1, <1>5, <2>1
    <3> QED
      BY <3>3, <3>4, <3>5 DEF Published
  <2>2. CASE ~ok
    BY <1>1, <1>10, <2>2 DEF VersionsInv, Published
  <2>3. CASE crossed'
    BY <2>3 DEF Published
  <2> QED
    BY <1>10, <2>1, <2>2, <2>3
<1>13. Pages'
  <2>1. Asked({"publish", "delete", "list"})'
    BY <1>8 DEF Asked
  <2> QED
    BY <1>2, <1>8, <2>1 DEF VersionsInv, Pages
<1> QED
  BY <1>8, <1>9, <1>11, <1>12, <1>13 DEF VersionsInv

\* A deletion takes a draft away, which was not published since unless writes crossed.
LEMMA DeleteKeeps ==
  ASSUME VersionsInv, Versions!VersionsAssumption,
         NEW q \in requests, q.op = "delete", q.answer = "none", q.seen # << >>,
         Versions!Delete(q)
  PROVE  VersionsInv'
<1>1. /\ versionRows' = [versionRows EXCEPT ![q.version].status = "gone", ![q.version].current = FALSE]
      /\ Versions!Written(q, TRUE) /\ UNCHANGED released
  BY DEF Versions!Delete
<1>2. UNCHANGED <<work, kept, loading, saving, edits, listed, waiting>>
  BY <1>1 DEF Versions!Written, Versions!editorVars, Versions!publishVars
<1>3. Sound(q)
  BY DEF VersionsInv
<1>4. q.version \in Ids /\ versionRows[q.version].status # "none" /\ q.seen[q.version].status = "draft"
  <2>1. Table(q.seen) /\ Older(q.seen, versionRows) /\ q.version \in Versions!Drafts(q.seen)
    BY <1>3 DEF Sound
  <2>2. q.version \in Ids /\ q.seen[q.version].status = "draft"
    BY <2>1 DEF Versions!Drafts, Versions!There, Versions!Ids, Ids
  <2> QED
    BY <2>1, <2>2 DEF Older
<1>5. /\ versionRows' \in [Ids -> Row]
      /\ versionRows'[q.version].status = "gone" /\ ~versionRows'[q.version].current
      /\ versionRows'[q.version].number = versionRows[q.version].number
      /\ \A v \in Ids : v # q.version => versionRows'[v] = versionRows[v]
  <2> DEFINE marked == [versionRows[q.version] EXCEPT !.status = "gone"]
             row == [marked EXCEPT !.current = FALSE]
  <2>1. marked \in Row /\ marked.status = "gone" /\ marked.number = versionRows[q.version].number
    BY <1>4, TableKnown DEF Row
  <2>2. /\ row \in Row /\ row.status = "gone" /\ ~row.current
        /\ row.number = versionRows[q.version].number
    <3> HIDE DEF marked
    <3> QED
      BY <2>1 DEF Row
  <2>3. versionRows' = [versionRows EXCEPT ![q.version] = row]
    <3>1. versionRows' = [[versionRows EXCEPT ![q.version] = marked]
                     EXCEPT ![q.version] = [[versionRows EXCEPT ![q.version] = marked][q.version]
                                              EXCEPT !.current = FALSE]]
      BY <1>1
    <3>2. [versionRows EXCEPT ![q.version] = marked][q.version] = marked
      BY <1>4, TableKnown
    <3> HIDE DEF marked, row
    <3>3. versionRows' = [[versionRows EXCEPT ![q.version] = marked] EXCEPT ![q.version] = row]
      BY <3>1, <3>2 DEF row
    <3> QED
      BY <1>4, <3>3, TableKnown
  <2> HIDE DEF row
  <2> QED
    BY <1>4, <2>2, <2>3, TableKnown
<1>6. \A v \in Ids : versionRows'[v].status = "none" <=> versionRows[v].status = "none"
  BY <1>4, <1>5
<1>7. Table(versionRows') /\ Older(versionRows, versionRows')
  <2>1. ASSUME NEW v \in Ids
        PROVE  /\ versionRows'[v].number = versionRows[v].number
               /\ versionRows'[v].current <=> versionRows'[v].status = "published"
    BY <1>5 DEF VersionsInv, VersionTypes, Table
  <2> QED
    BY <1>5, <1>6, <2>1 DEF VersionsInv, VersionTypes, Table, Older
<1>8. /\ \A r \in requests' : Sound(r)'
      /\ IsFiniteSet(requests')
      /\ Cardinality(Unsaved') <= Cardinality(Unsaved)
      /\ \A ops : Asked(ops) => Asked(ops)'
      /\ Asked({"delete"})'
  BY <1>1, <1>7, WrittenKeeps
<1>9. RoomForAll'
  BY <1>6, <1>8, RoomStays
<1>10. /\ crossed' \in BOOLEAN /\ doubt' \in BOOLEAN /\ (crossed => crossed')
       /\ ~crossed' => ~q.mixed
       /\ doubt => doubt'
  BY <1>1 DEF Versions!Written, VersionsInv, VersionTypes
<1>11. VersionTypes'
  BY <1>1, <1>2, <1>7, <1>10 DEF VersionsInv, VersionTypes
<1>12. Published'
  <2>1. CASE ~crossed'
    <3>1. versionRows[q.version].status = "draft"
      BY <1>3, <1>4, <1>10, <2>1 DEF Sound
    <3>2. ~versionRows[q.version].current /\ q.version \notin released
      BY <1>4, <1>10, <2>1, <3>1 DEF VersionsInv, VersionTypes, Table, Published
    <3>3. \A v \in Ids : /\ versionRows'[v].current <=> versionRows[v].current
                         /\ v \in released => versionRows'[v] = versionRows[v]
      BY <1>5, <3>2
    <3> QED
      BY <1>1, <1>10, <2>1, <3>3 DEF VersionsInv, VersionTypes, Published
  <2>2. CASE crossed'
    BY <2>2 DEF Published
  <2> QED
    BY <2>1, <2>2
<1>13. Pages'
  <2>1. Asked({"publish", "delete", "list"})'
    BY <1>8 DEF Asked
  <2> QED
    BY <1>2, <1>8, <2>1 DEF VersionsInv, Pages
<1> QED
  BY <1>8, <1>9, <1>11, <1>12, <1>13 DEF VersionsInv

LEMMA VersionsStep ==
  ASSUME Versions!VersionsAssumption, VersionsInv, [Versions!Next]_(Versions!versionVars)
  PROVE  VersionsInv'
<1>1. ASSUME NEW q \in requests,
             Versions!Read(q) \/ Versions!Write(q) \/ Versions!Answered(q) \/ Versions!Lose(q)
      PROVE  VersionsInv'
  <2>1. CASE Versions!Read(q) \/ Versions!Lose(q)
    BY <2>1, ReadKeeps, LoseKeeps
  <2>2. CASE Versions!Write(q)
    <3>1. q.answer = "none" /\ q.seen # << >> /\ q.op \in {"save", "publish", "delete"}
      BY <2>2 DEF Versions!Write, VersionsInv, Sound
    <3>2. /\ q.op = "save" => Versions!Save(q)
          /\ q.op = "publish" => Versions!Publish(q)
          /\ q.op = "delete" => Versions!Delete(q)
      BY <2>2, <3>1 DEF Versions!Write
    <3> QED
      BY <3>1, <3>2, SaveKeeps, PublishKeeps, DeleteKeeps
  <2>3. CASE Versions!Answered(q)
    <3>1. q.answer # "none" /\ q.op \in {"load", "save", "publish", "delete", "list"}
      BY <2>3 DEF Versions!Answered, VersionsInv, Sound
    <3>2. /\ q.op = "load" => Versions!Loaded(q)
          /\ q.op = "save" => Versions!Saved(q)
          /\ q.op \in {"publish", "delete"} => Versions!Clicked(q)
          /\ q.op = "list" => Versions!Listed(q)
      BY <2>3, <3>1 DEF Versions!Answered
    <3> QED
      BY <3>1, <3>2, LoadedKeeps, SavedKeeps, ClickedKeeps, ListedKeeps
  <2> QED
    BY <1>1, <2>1, <2>2, <2>3
<1>2. ASSUME NEW v \in Versions!Ids, NEW op \in {"publish", "delete"}, Versions!Click(op, v)
      PROVE  VersionsInv'
  BY <1>2, ClickKeeps DEF Versions!Ids, Ids
<1>3. CASE UNCHANGED Versions!versionVars
  <2>1. UNCHANGED <<versionRows, released, crossed, work, kept, loading, saving, edits, listed, waiting,
                    requests, events, doubt>>
    BY <1>3 DEF Versions!versionVars, Versions!editorVars, Versions!publishVars
  <2>2. VersionTypes' /\ Published'
    BY <2>1, PublishedStays DEF VersionsInv, VersionTypes
  <2>3. (\A q \in requests' : Sound(q)') /\ RoomForAll'
    BY <2>1, SoundStays DEF VersionsInv, RoomForAll, Room, Unsaved
  <2>4. Pages'
    BY <2>1 DEF VersionsInv, Pages, Asked
  <2> QED
    BY <2>2, <2>3, <2>4 DEF VersionsInv
<1> QED
  BY <1>1, <1>2, <1>3, ReloadKeeps, EditKeeps, ClickSaveKeeps DEF Versions!Next

\* The inductive invariant: what a request has read is still in the rows unless a write was
\* answered since, every save has a row left for it, and who waits has asked.
THEOREM VersionsAlwaysCoherent ==
  ASSUME Versions!VersionsAssumption PROVE Versions!Spec => []VersionsInv
<1>1. Versions!Init => VersionsInv
  BY VersionsStart
<1>2. VersionsInv /\ [Versions!Next]_(Versions!versionVars) => VersionsInv'
  BY VersionsStep
<1> QED
  BY <1>1, <1>2, PTL DEF Versions!Spec

\* The version that assignments are made from is the published one, and there is one at
\* most: publish_track_version clears the mark on the versions it has read before it sets
\* its own, so that only publications that crossed leave two.
THEOREM AlwaysOneCurrent ==
  ASSUME Versions!VersionsAssumption PROVE Versions!Spec => []Versions!OneCurrent
<1>1. VersionsInv => Versions!OneCurrent
  <2> SUFFICES ASSUME VersionsInv PROVE Versions!OneCurrent
    OBVIOUS
  <2> DEFINE current == {v \in Ids : versionRows[v].current}
  <2>1. ASSUME ~crossed PROVE Cardinality(current) <= 1
    <3>1. CASE current = {}
      BY <3>1, FS_EmptySet
    <3>2. CASE current # {}
      <4>1. PICK v : v \in current
        BY <3>2
      <4>2. current = {v}
        BY <2>1, <4>1 DEF VersionsInv, Published
      <4>3. Cardinality({v}) = 1
        BY FS_Singleton
      <4> QED
        BY <4>2, <4>3
    <3> QED
      BY <3>1, <3>2
  <2> QED
    BY <2>1, CountIsCardinality
       DEF VersionsInv, VersionTypes, Table, Versions!OneCurrent, Versions!Ids, Ids
<1> QED
  BY <1>1, VersionsAlwaysCoherent, PTL

\* Unless writes crossed, a version that was published is never deleted, as only a draft
\* is, and one of the published versions stays current.
THEOREM ReleasedAlwaysStays ==
  ASSUME Versions!VersionsAssumption PROVE Versions!Spec => []Versions!ReleasedStays
<1>1. VersionsInv => Versions!ReleasedStays
  BY DEF VersionsInv, Published, Versions!ReleasedStays
<1> QED
  BY <1>1, VersionsAlwaysCoherent, PTL

\* Every variable keeps to its domain, and the editor never drops what it has saved before
\* it is loaded anew.
THEOREM SavedAlwaysStays ==
  ASSUME Versions!VersionsAssumption
  PROVE  Versions!Spec => [](Versions!TypeOK /\ Versions!SavedStays)
<1>1. VersionsInv /\ Versions!VersionsAssumption => Versions!TypeOK /\ Versions!SavedStays
  <2> SUFFICES ASSUME VersionsInv, Versions!VersionsAssumption PROVE Versions!TypeOK
    BY DEF VersionsInv, VersionTypes, Versions!SavedStays
  <2>1. \A v \in Ids :
          /\ versionRows[v].status \in {"none", "draft", "published", "archived", "gone"}
          /\ versionRows[v].number \in 0 .. MaxRows /\ versionRows[v].content \subseteq 1 .. MaxEdits
    BY TableKnown DEF VersionsInv, VersionTypes, Table, Row, Ids
  <2> QED
    BY <2>1 DEF VersionsInv, VersionTypes, Versions!TypeOK, Versions!Ids, Ids
<1> QED
  BY <1>1, VersionsAlwaysCoherent, PTL

\* With nothing under way the editor and the publish page are unlocked, and the list of
\* the drafts is that of the server unless an answer came too late or never.
THEOREM QuietPagesAlwaysCurrent ==
  ASSUME Versions!VersionsAssumption PROVE Versions!Spec => []Versions!QuietPagesAreCurrent
<1>1. VersionsInv => Versions!QuietPagesAreCurrent
  BY DEF VersionsInv, Pages, Asked, Versions!QuietPagesAreCurrent
<1> QED
  BY <1>1, VersionsAlwaysCoherent, PTL
============================================================================
