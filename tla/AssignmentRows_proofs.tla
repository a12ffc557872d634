------------------------ MODULE AssignmentRows_proofs ------------------------
(***************************************************************************)
(* Lemmas about the operators of AssignmentRows: what the handlers and the *)
(* refresh make of rows, for every set of track shapes and every number of *)
(* tasks.  The proofs about AssignmentProgress and about ProgressRequests  *)
(* rest on them.                                                           *)
(***************************************************************************)
EXTENDS AssignmentRows, FiniteSetTheorems, TLAPS

\* A marked part of the required items gives a percentage below 100.
LEMMA PartialPercent ==
  ASSUME NEW c \in Nat, NEW m \in Nat, c < m
  PROVE  (100 * c) \div m \in 0 .. 99
<1>1. m \in Nat \ {0}
  OBVIOUS
<1> DEFINE q == (100 * c) \div m
<1>2. q \in Int /\ 100 * c \in Nat
  BY <1>1
<1>3. m * q <= 100 * c /\ 100 * c < m * (q + 1)
  BY <1>1
<1> QED
  BY <1>1, <1>2, <1>3

Consistent(row) ==
  /\ (row.status = "completed") <=> (row.progress = 100)
  /\ row.status = "completed" => row.completedAt = TRUE

Good(row) == row \in TaskRow /\ Consistent(row)

\* The three ways to write a row.
LEMMA CompletedRow ==
  ASSUME NEW row \in TaskRow
  PROVE  Good(Completed(row)) /\ Completed(row).status = "completed"
<1>1. \A s \in TaskStatuses, p \in 0 .. 100, c \in BOOLEAN :
        [row EXCEPT !.status = s, !.progress = p, !.completedAt = c] \in TaskRow
  BY DEF TaskRow
<1>2. "completed" \in TaskStatuses /\ 100 \in 0 .. 100 /\ TRUE \in BOOLEAN
  BY DEF TaskStatuses
<1>3. Completed(row) \in TaskRow
  BY <1>1, <1>2 DEF Completed
<1>4. Completed(row).status = "completed" /\ Completed(row).progress = 100
  BY DEF Completed, TaskRow
<1>5. Completed(row).completedAt = TRUE
  BY DEF Completed, TaskRow
<1> QED
  BY <1>3, <1>4, <1>5 DEF Good, Consistent

\* A row moved to an open status with less than 100 percent is consistent.
LEMMA MovedRow ==
  ASSUME NEW row \in TaskRow, NEW s \in TaskStatuses \ {"completed"}, NEW p \in 0 .. 99
  PROVE  Good(Moved(row, s, p)) /\ Moved(row, s, p).status = s
<1>1. \A status \in TaskStatuses, percent \in 0 .. 100 :
        Moved(row, status, percent) \in TaskRow
  BY DEF Moved, TaskRow
<1>2. Moved(row, s, p).status = s
  BY DEF Moved, TaskRow
<1>3. Moved(row, s, p).progress = p
  BY DEF Moved, TaskRow
<1>4. /\ s \in TaskStatuses /\ s # "completed"
      /\ p \in 0 .. 100 /\ p # 100
  OBVIOUS
<1> QED
  BY <1>1, <1>2, <1>3, <1>4, Zenon DEF Good, Consistent

\* The same for a reopened row, which also loses its time stamp.
LEMMA ReopenedRow ==
  ASSUME NEW row \in TaskRow, NEW s \in TaskStatuses \ {"completed"}, NEW p \in 0 .. 99
  PROVE  Good(Reopened(row, s, p)) /\ Reopened(row, s, p).status = s
<1>1. \A status \in TaskStatuses, percent \in 0 .. 100 :
        Reopened(row, status, percent) \in TaskRow
  BY DEF Reopened, TaskRow
<1>2. Reopened(row, s, p).status = s
  BY DEF Reopened, TaskRow
<1>3. Reopened(row, s, p).progress = p
  BY DEF Reopened, TaskRow
<1>4. /\ s \in TaskStatuses /\ s # "completed"
      /\ p \in 0 .. 100 /\ p # 100
  OBVIOUS
<1> QED
  BY <1>1, <1>2, <1>3, <1>4, Zenon DEF Good, Consistent

\* Every handler writes a good row, with the status of its branch.
LEMMA SubmittedRowGood ==
  ASSUME NEW type \in TaskTypes, NEW row \in TaskRow, NEW passed \in BOOLEAN
  PROVE  /\ Good(SubmittedRow(type, row, passed))
         /\ SubmittedRow(type, row, passed).status =
              IF type = "quiz" /\ ~passed THEN "revision_requested"
              ELSE IF type = "review" THEN "pending_review" ELSE "completed"
<1>1. CASE type = "quiz" /\ ~passed
  <2>1. SubmittedRow(type, row, passed) = Moved(row, "revision_requested", 60)
    BY <1>1, Zenon DEF SubmittedRow
  <2> QED
    BY <1>1, <2>1, MovedRow DEF TaskStatuses
<1>2. CASE type = "review"
  <2>1. SubmittedRow(type, row, passed) = Moved(row, "pending_review", 75)
    BY <1>2, Zenon DEF SubmittedRow
  <2> QED
    BY <1>2, <2>1, MovedRow DEF TaskStatuses
<1>3. CASE ~(type = "quiz" /\ ~passed) /\ type # "review"
  <2>1. SubmittedRow(type, row, passed) = Completed(row)
    BY <1>3, Zenon DEF SubmittedRow
  <2> QED
    BY <1>3, <2>1, CompletedRow
<1> QED
  BY <1>1, <1>2, <1>3

\* A mentor's decision leaves a consistent row, whatever the row was.
LEMMA ReviewedRowGood ==
  ASSUME NEW row \in TaskRow, NEW decision \in Decisions
  PROVE  /\ Good(ReviewedRow(row, decision))
         /\ ReviewedRow(row, decision).status =
              IF decision = "approve" THEN "completed"
              ELSE IF decision = "reject" THEN "blocked" ELSE "revision_requested"
<1>1. CASE decision = "approve"
  <2>1. ReviewedRow(row, decision) = Completed(row)
    BY <1>1, Zenon DEF ReviewedRow
  <2> QED
    BY <1>1, <2>1, CompletedRow
<1>2. CASE decision = "reject"
  <2>1. ReviewedRow(row, decision) = Moved(row, "blocked", 50)
    BY <1>2, Zenon DEF ReviewedRow
  <2> QED
    BY <1>2, <2>1, MovedRow DEF TaskStatuses
<1>3. CASE decision # "approve" /\ decision # "reject"
  <2>1. ReviewedRow(row, decision) = Moved(row, "revision_requested", 60)
    BY <1>3, Zenon DEF ReviewedRow
  <2> QED
    BY <1>3, <2>1, MovedRow DEF TaskStatuses
<1> QED
  BY <1>1, <1>2, <1>3

\* So does a scored assessment.
LEMMA ScoredRowGood ==
  ASSUME NEW row \in TaskRow, NEW passed \in BOOLEAN
  PROVE  /\ Good(ScoredRow(row, passed))
         /\ ScoredRow(row, passed).status =
              IF passed THEN "completed" ELSE "revision_requested"
  BY CompletedRow, ReopenedRow DEF ScoredRow, TaskStatuses

\* And so does a mark on a checklist.
LEMMA ChecklistRowGood ==
  ASSUME NEW row \in TaskRow, NEW must \in SUBSET Items, NEW ids
  PROVE  /\ Good(ChecklistRow(must, row, ids))
         /\ ChecklistRow(must, row, ids).status \in {"completed", "in_progress", "not_started"}
<1> DEFINE done == must \cap ids
<1>1. CASE must # {} /\ must \subseteq ids
  BY <1>1, CompletedRow, Zenon DEF ChecklistRow
<1>2. CASE ~(must # {} /\ must \subseteq ids) /\ done = {}
  <2>1. ChecklistRow(must, row, ids) = Reopened(row, "not_started", 0)
    BY <1>2, Zenon DEF ChecklistRow
  <2> QED
    BY <2>1, ReopenedRow DEF TaskStatuses
<1>3. CASE ~(must # {} /\ must \subseteq ids) /\ done # {}
  <2>1. IsFiniteSet(must)
    BY FS_Subset, ItemsAssumption
  <2>2. done \in SUBSET must /\ done # must
    BY <1>3
  <2>3. Cardinality(done) <= Cardinality(must) /\ Cardinality(must) # Cardinality(done)
    BY <2>1, <2>2, FS_Subset
  <2>4. Cardinality(done) \in Nat /\ Cardinality(must) \in Nat
    BY <2>1, <2>2, FS_Subset, FS_CardinalityType
  <2>5. Percentage(done, must) \in 0 .. 99
    BY <2>3, <2>4, PartialPercent DEF Percentage
  <2>6. ChecklistRow(must, row, ids) = Reopened(row, "in_progress", Percentage(done, must))
    BY <1>3, Zenon DEF ChecklistRow
  <2> QED
    BY <2>5, <2>6, ReopenedRow DEF TaskStatuses
<1> QED
  BY <1>1, <1>2, <1>3

\* The refresh changes no percentage and no time stamp; the one status it
\* writes is "overdue", on a task that is past due and not completed.
LEMMA MarkedRow ==
  ASSUME NEW tr, NEW new \in [Tasks -> TaskRow], NEW day, NEW t \in Tasks
  PROVE  LET row == MarkOverdue(tr, new, day)[t]
         IN  /\ row \in TaskRow
             /\ row.progress = new[t].progress
             /\ row.completedAt = new[t].completedAt
             /\ row.status = IF PastDue(tr, t, day) /\ new[t].status # "completed"
                             THEN "overdue" ELSE new[t].status
<1>1. CASE PastDue(tr, t, day) /\ new[t].status # "completed"
  <2>1. MarkOverdue(tr, new, day)[t] = [new[t] EXCEPT !.status = "overdue"]
    BY <1>1 DEF MarkOverdue
  <2>2. new[t] \in TaskRow
    OBVIOUS
  <2>3. \A row \in TaskRow, s \in TaskStatuses : [row EXCEPT !.status = s] \in TaskRow
    BY DEF TaskRow
  <2>4. "overdue" \in TaskStatuses
    BY DEF TaskStatuses
  <2>5. \A row \in TaskRow :
          /\ [row EXCEPT !.status = "overdue"].status = "overdue"
          /\ [row EXCEPT !.status = "overdue"].progress = row.progress
          /\ [row EXCEPT !.status = "overdue"].completedAt = row.completedAt
    BY DEF TaskRow
  <2> QED
    BY <1>1, <2>1, <2>2, <2>3, <2>4, <2>5
<1>2. CASE ~(PastDue(tr, t, day) /\ new[t].status # "completed")
  <2>1. MarkOverdue(tr, new, day)[t] = new[t]
    BY <1>2 DEF MarkOverdue
  <2> QED
    BY <1>2, <2>1
<1> QED
  BY <1>1, <1>2

\* What the refresh leaves of one row: the percentage and the stamp, and the
\* status unless the task is past due and not completed.
LEMMA RefreshedRow ==
  ASSUME NEW tr, NEW new \in [Tasks -> TaskRow], NEW day, NEW t \in Tasks
  PROVE  /\ RefreshedRows(tr, new, day)[t] \in TaskRow
         /\ RefreshedRows(tr, new, day)[t].progress = new[t].progress
         /\ RefreshedRows(tr, new, day)[t].completedAt = new[t].completedAt
         /\ RefreshedRows(tr, new, day)[t].status =
              IF PastDue(tr, t, day) /\ new[t].status # "completed" THEN "overdue" ELSE new[t].status
         /\ Open(RefreshedRows(tr, new, day)[t]) <=> Open(MarkOverdue(tr, new, day)[t])
         /\ RefreshedRows(tr, new, day)[t].isNext <=>
              /\ Open(MarkOverdue(tr, new, day)[t])
              /\ \A u \in 1 .. t - 1 : ~Open(MarkOverdue(tr, new, day)[u])
<1> DEFINE marked == MarkOverdue(tr, new, day)
           rs     == RefreshedRows(tr, new, day)
           next   == /\ Open(marked[t])
                     /\ \A u \in 1 .. t - 1 : ~Open(marked[u])
<1>1. rs[t] = [marked[t] EXCEPT !.isNext = next]
  BY DEF RefreshedRows, MarkNext
<1>2. next \in BOOLEAN
  OBVIOUS
<1>3. marked[t] \in TaskRow
  BY MarkedRow
<1>4. \A row \in TaskRow, b \in BOOLEAN :
        /\ [row EXCEPT !.isNext = b] \in TaskRow
        /\ [row EXCEPT !.isNext = b].isNext = b
        /\ [row EXCEPT !.isNext = b].status = row.status
        /\ [row EXCEPT !.isNext = b].progress = row.progress
        /\ [row EXCEPT !.isNext = b].completedAt = row.completedAt
  BY DEF TaskRow
<1>5. Open(marked[t]) <=> Open(rs[t])
  <2> HIDE DEF next
  <2> QED
    BY <1>1, <1>2, <1>3, <1>4 DEF Open
<1>6. /\ rs[t] \in TaskRow
      /\ rs[t].isNext <=> next
      /\ rs[t].status = marked[t].status
      /\ rs[t].progress = marked[t].progress
      /\ rs[t].completedAt = marked[t].completedAt
  <2> HIDE DEF next
  <2> QED
    BY <1>1, <1>2, <1>3, <1>4
<1>7. /\ marked[t].progress = new[t].progress
      /\ marked[t].completedAt = new[t].completedAt
      /\ marked[t].status = IF PastDue(tr, t, day) /\ new[t].status # "completed"
                            THEN "overdue" ELSE new[t].status
  BY MarkedRow
<1> QED
  BY <1>5, <1>6, <1>7, Zenon

\* The refresh returns rows.
LEMMA RefreshedType ==
  ASSUME NEW tr, NEW new \in [Tasks -> TaskRow], NEW day
  PROVE  RefreshedRows(tr, new, day) \in [Tasks -> TaskRow]
<1>1. \A t \in Tasks : RefreshedRows(tr, new, day)[t] \in TaskRow
  BY RefreshedRow
<1>2. RefreshedRows(tr, new, day) =
        [t \in Tasks |-> RefreshedRows(tr, new, day)[t]]
  BY DEF RefreshedRows, MarkNext
<1> QED
  BY <1>1, <1>2

\* After a refresh there is nothing left to recommend.
LEMMA RefreshIsDone ==
  ASSUME NEW tr, NEW new \in [Tasks -> TaskRow], NEW day, NEW rs, rs = RefreshedRows(tr, new, day)
  PROVE  MarkNext(rs) = rs
<1> DEFINE marked == MarkOverdue(tr, new, day)
<1>1. ASSUME NEW t \in Tasks
      PROVE  /\ rs[t] \in TaskRow /\ (Open(rs[t]) <=> Open(marked[t]))
             /\ rs[t].isNext <=> Open(marked[t]) /\ \A u \in 1 .. t - 1 : ~Open(marked[u])
  BY RefreshedRow
<1> HIDE DEF marked
<1>2. \A t \in Tasks : 1 .. t - 1 \subseteq Tasks
  BY SizeAssumption DEF Tasks
<1>3. ASSUME NEW t \in Tasks
      PROVE  rs[t].isNext <=> Open(rs[t]) /\ \A u \in 1 .. t - 1 : ~Open(rs[u])
  BY <1>1, <1>2, Zenon
<1>4. ASSUME NEW t \in Tasks PROVE MarkNext(rs)[t] = rs[t]
  <2> DEFINE next == Open(rs[t]) /\ \A u \in 1 .. t - 1 : ~Open(rs[u])
  <2>1. MarkNext(rs)[t] = [rs[t] EXCEPT !.isNext = next]
    BY DEF MarkNext
  <2>2. rs[t] \in TaskRow /\ next \in BOOLEAN /\ (rs[t].isNext <=> next)
    BY <1>1, <1>3
  <2> HIDE DEF next
  <2>3. rs[t].isNext = next
    BY <2>2 DEF TaskRow
  <2> QED
    BY <2>1, <2>2, <2>3 DEF TaskRow
<1>5. rs \in [Tasks -> TaskRow]
  BY RefreshedType
<1>6. MarkNext(rs) = [t \in Tasks |-> MarkNext(rs)[t]]
  BY DEF MarkNext
<1> QED
  BY <1>4, <1>5, <1>6

\* The status of an assignment and the status of a phase, branch by branch.
LEMMA StatusOfCases ==
  ASSUME NEW tr, NEW rs
  PROVE  /\ StatusOf(tr, rs) \in AssignmentStatuses
         /\ StatusOf(tr, rs) = "completed" <=>
              /\ RequiredTasks(tr) # {}
              /\ \A t \in RequiredTasks(tr) : rs[t].status = "completed"
         /\ StatusOf(tr, rs) = "overdue" => \E t \in Tasks : rs[t].status = "overdue"
<1> DEFINE done == /\ RequiredTasks(tr) # {}
                   /\ \A t \in RequiredTasks(tr) : rs[t].status = "completed"
           late == \E t \in Tasks : rs[t].status = "overdue"
           some == \E t \in Tasks : Begun(rs[t])
<1>1. CASE done
  <2>1. StatusOf(tr, rs) = "completed"
    BY <1>1 DEF StatusOf
  <2> QED
    BY <1>1, <2>1 DEF AssignmentStatuses
<1>2. CASE ~done /\ late
  <2>1. StatusOf(tr, rs) = "overdue"
    BY <1>2 DEF StatusOf
  <2> QED
    BY <1>2, <2>1 DEF AssignmentStatuses
<1>3. CASE ~done /\ ~late /\ some
  <2>1. StatusOf(tr, rs) = "in_progress"
    BY <1>3 DEF StatusOf
  <2> QED
    BY <1>3, <2>1 DEF AssignmentStatuses
<1>4. CASE ~done /\ ~late /\ ~some
  <2>1. StatusOf(tr, rs) = "not_started"
    BY <1>4 DEF StatusOf
  <2> QED
    BY <1>4, <2>1 DEF AssignmentStatuses
<1> QED
  BY <1>1, <1>2, <1>3, <1>4

\* A phase is completed exactly when its required tasks are at 100 percent.
LEMMA PhaseOfCases ==
  ASSUME NEW tr, NEW rs, NEW p
  PROVE  /\ PhaseOf(tr, rs, p) \in [status : PhaseStatuses, full : BOOLEAN]
         /\ TasksOf(tr, p) # {} /\ MeanIsFull(tr, rs, TasksOf(tr, p)) =>
              PhaseOf(tr, rs, p).status = "completed"
<1> DEFINE mine   == TasksOf(tr, p)
           full   == mine # {} /\ MeanIsFull(tr, rs, mine)
           status == IF full THEN "completed"
                     ELSE IF \E t \in mine : Begun(rs[t]) THEN "in_progress"
                     ELSE "not_started"
<1>1. PhaseOf(tr, rs, p) = [full |-> full, status |-> status]
  BY DEF PhaseOf
<1>2. full \in BOOLEAN
  BY DEF MeanIsFull
<1>3. status \in PhaseStatuses /\ (full => status = "completed")
  <2>1. CASE full
    BY <2>1 DEF PhaseStatuses
  <2>2. CASE ~full /\ \E t \in mine : Begun(rs[t])
    BY <2>2 DEF PhaseStatuses
  <2>3. CASE ~full /\ ~\E t \in mine : Begun(rs[t])
    BY <2>3 DEF PhaseStatuses
  <2> QED
    BY <2>1, <2>2, <2>3
<1> HIDE DEF full, status
<1>4. /\ PhaseOf(tr, rs, p) \in [status : PhaseStatuses, full : BOOLEAN]
      /\ full => PhaseOf(tr, rs, p).status = "completed"
  BY <1>1, <1>2, <1>3
<1> QED
  BY <1>4 DEF full

=============================================================================
