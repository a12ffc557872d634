-------------------------- MODULE AssignmentRows --------------------------
(***************************************************************************)
(* The rows of one onboarding assignment and the functions the backend     *)
(* computes on them: what a submission, a checklist mark, a mentor's        *)
(* decision and a scored assessment do to the row of one task, and the      *)
(* refresh every handler runs afterwards (refresh_overdue_and_status,       *)
(* recompute_progress, refresh_next_task, in this order).                   *)
(*                                                                         *)
(* Tasks are numbered in the order refresh_next_task sorts them by (phase   *)
(* order_index, then task order_index).  A percentage is kept for a task;   *)
(* for a phase and for the assignment, whose percentage is the mean over    *)
(* their required tasks, only whether it is 100 is kept.  The code rounds   *)
(* percentages to two decimals; here one is rounded down and a mean is      *)
(* exact.  They agree on what is 100 unless the mean of n tasks, one of     *)
(* them a list of k items, is within 0.005 of it: n * k would be 20000.     *)
(***************************************************************************)
EXTENDS Integers, FiniteSets

CONSTANTS
  NTasks,   \* tasks of the assignment
  Phases,   \* phases of the assignment
  Items,    \* identifiers of checklist items
  Tracks    \* shapes of the published track version the snapshot may copy

Tasks == 1 .. NTasks

NoDate  == -1   \* due_date IS NULL
NoLimit == -1   \* the quiz has no attempts_allowed

\* task_type, up to the branches submit_task and mentor_review_task take:
\* "review" is REVIEW_REQUIRED_TASK_TYPES, "plain" every type without a branch.
TaskTypes == {"quiz", "review", "checklist", "assessment", "plain"}

TaskStatuses == {"not_started", "in_progress", "blocked", "pending_review",
                 "revision_requested", "completed", "overdue"}
PhaseStatuses      == {"not_started", "in_progress", "completed"}
AssignmentStatuses == {"not_started", "in_progress", "completed", "overdue"}
SubmissionStatuses == {"none", "submitted", "reviewed", "revision_requested"}

\* The immutable part of the snapshot: what the refresh and the handlers read.
TrackShape ==
  [type     : [Tasks -> TaskTypes],
   required : [Tasks -> BOOLEAN],
   due      : [Tasks -> Int],
   phase    : [Tasks -> Phases],
   allowed  : [Tasks -> Int],
   must     : [Tasks -> SUBSET Items],   \* required checklist items
   may      : [Tasks -> SUBSET Items]]   \* optional checklist items

ASSUME SizeAssumption  == NTasks \in Nat
ASSUME ShapeAssumption == Tracks \subseteq TrackShape
ASSUME ItemsAssumption == IsFiniteSet(Items)

TaskRow == [status      : TaskStatuses,
            progress    : 0 .. 100,
            completedAt : BOOLEAN,      \* completed_at IS NOT NULL
            isNext      : BOOLEAN]

FreshRow == [status |-> "not_started", progress |-> 0,
             completedAt |-> FALSE, isNext |-> FALSE]

-----------------------------------------------------------------------------
\* What a handler does to the row of its task.

\* Three ways to write a row: a completion is stamped; a task moved to another
\* status keeps its time stamp; a reopened one loses it.
Completed(row) ==
  [row EXCEPT !.status = "completed", !.progress = 100, !.completedAt = TRUE]

Moved(row, status, progress) ==
  [row EXCEPT !.status = status, !.progress = progress]

Reopened(row, status, progress) ==
  [row EXCEPT !.status = status, !.progress = progress, !.completedAt = FALSE]

\* submit_task: the branch on task_type.
SubmittedRow(type, row, passed) ==
  CASE type = "quiz" /\ ~passed -> Moved(row, "revision_requested", 60)
    [] type = "review"          -> Moved(row, "pending_review", 75)
    [] OTHER                    -> Completed(row)

\* The status submit_task leaves on the submission it inserts.
SubmittedStatus(type, passed) ==
  CASE type = "quiz" /\ ~passed -> "revision_requested"
    [] type = "review"          -> "submitted"
    [] OTHER                    -> "reviewed"

\* update_checklist_item, from the set of item ids it computes.
Percentage(part, whole) == (100 * Cardinality(part)) \div Cardinality(whole)

ChecklistRow(must, row, ids) ==
  CASE must # {} /\ must \subseteq ids -> Completed(row)
    [] must \cap ids = {}              -> Reopened(row, "not_started", 0)
    [] OTHER -> Reopened(row, "in_progress", Percentage(must \cap ids, must))

Decisions == {"approve", "reject", "revision_requested"}

\* Mutant: a rejection keeps the percentage the task had.
ReviewedRowKeepsPercent(row, decision) ==
  CASE decision = "approve" -> Completed(row)
    [] decision = "reject"  -> [row EXCEPT !.status = "blocked"]
    [] OTHER                -> Moved(row, "revision_requested", 60)

\* mentor_review_task.  No decision looks at the status the task has.
ReviewedRow(row, decision) ==
  CASE decision = "approve" -> Completed(row)
    [] decision = "reject"  -> Moved(row, "blocked", 50)
    [] OTHER                -> Moved(row, "revision_requested", 60)

\* Mutants: the decision itself is stored; a rejection counts as reviewed.
ReviewedStatusVerbatim(decision) ==
  IF decision = "approve" THEN "reviewed" ELSE decision

ReviewedStatusOnReject(decision) ==
  IF decision = "revision_requested" THEN "revision_requested" ELSE "reviewed"

\* What mentor_review_task leaves on the latest submission, if there is one.
ReviewedStatus(decision) ==
  IF decision = "approve" THEN "reviewed" ELSE "revision_requested"

\* The end of submit_attempt, for a delivery that belongs to a task.
ScoredRow(row, passed) ==
  IF passed THEN Completed(row) ELSE Reopened(row, "revision_requested", 60)

-----------------------------------------------------------------------------
\* The refresh.

PastDue(trk, t, today) == trk.due[t] # NoDate /\ trk.due[t] < today

\* Mutants: a task is overdue on its due day; completed tasks are not spared.
MarkOverdueOnTheDay(trk, rows, today) ==
  [t \in Tasks |->
     IF trk.due[t] # NoDate /\ trk.due[t] <= today /\ rows[t].status # "completed"
     THEN [rows[t] EXCEPT !.status = "overdue"]
     ELSE rows[t]]

MarkOverdueAlways(trk, rows, today) ==
  [t \in Tasks |-> IF PastDue(trk, t, today)
                   THEN [rows[t] EXCEPT !.status = "overdue"] ELSE rows[t]]

\* First loop of refresh_overdue_and_status.
MarkOverdue(trk, rows, today) ==
  [t \in Tasks |->
     IF PastDue(trk, t, today) /\ rows[t].status # "completed"
     THEN [rows[t] EXCEPT !.status = "overdue"]
     ELSE rows[t]]

Begun(row) == row.status \in {"in_progress", "pending_review",
                              "revision_requested", "completed"}

RequiredTasks(trk) == {t \in Tasks : trk.required[t]}
TasksOf(trk, p)    == {t \in Tasks : trk.phase[t] = p}

\* Mutant: overdue is looked for before completed.
StatusOverdueFirst(trk, rows) ==
  IF \E t \in Tasks : rows[t].status = "overdue" THEN "overdue"
  ELSE IF /\ RequiredTasks(trk) # {}
          /\ \A t \in RequiredTasks(trk) : rows[t].status = "completed" THEN "completed"
  ELSE IF \E t \in Tasks : Begun(rows[t]) THEN "in_progress"
  ELSE "not_started"

\* Second part of refresh_overdue_and_status.
StatusOf(trk, rows) ==
  IF /\ RequiredTasks(trk) # {}
     /\ \A t \in RequiredTasks(trk) : rows[t].status = "completed" THEN "completed"
  ELSE IF \E t \in Tasks : rows[t].status = "overdue" THEN "overdue"
  ELSE IF \E t \in Tasks : Begun(rows[t]) THEN "in_progress"
  ELSE "not_started"

\* recompute_progress: the mean over the required tasks of S is 100.  With no
\* required task the code stores 100.
MeanIsFull(trk, rows, S) ==
  \A t \in S \cap RequiredTasks(trk) : rows[t].progress = 100

AssignmentOf(trk, rows) ==
  [status |-> StatusOf(trk, rows), full |-> MeanIsFull(trk, rows, Tasks)]

PhaseOf(trk, rows, p) ==
  LET mine == TasksOf(trk, p)
      full == mine # {} /\ MeanIsFull(trk, rows, mine)
  IN  [full   |-> full,
       status |-> IF full THEN "completed"
                  ELSE IF \E t \in mine : Begun(rows[t]) THEN "in_progress"
                  ELSE "not_started"]

\* Mutant: an overdue task is never recommended.
OpenUnlessOverdue(row) == row.status \in {"not_started", "in_progress", "revision_requested"}

\* refresh_next_task: the first open task in order, and no other.
Open(row) == row.status \in {"not_started", "in_progress",
                             "revision_requested", "overdue"}

MarkNext(rows) ==
  [t \in Tasks |->
     [rows[t] EXCEPT !.isNext = /\ Open(rows[t])
                                /\ \A u \in 1 .. t - 1 : ~Open(rows[u])]]

\* Mutant: the recommendation is refreshed before the overdue tasks are marked.
RefreshedNextFirst(trk, rows, today) == MarkOverdue(trk, MarkNext(rows), today)

RefreshedRows(trk, rows, today) == MarkNext(MarkOverdue(trk, rows, today))

=============================================================================
