------------------------ MODULE AssignmentProgress ------------------------
(***************************************************************************)
(* One onboarding assignment whose requests run one after another: the     *)
(* employee submits tasks and ticks checklist items, the mentor decides,   *)
(* an assessment attempt is scored, days pass.  Every request is one       *)
(* transaction that ends with the refresh of AssignmentRows, so each       *)
(* action here is a whole handler, its refresh and its commit.             *)
(* ProgressRequests takes the same handlers apart.                         *)
(***************************************************************************)
EXTENDS AssignmentRows

CONSTANTS
  MaxDay,       \* bound: the last day of the model
  MaxAttempts   \* bound: recorded attempts of a quiz without a limit

ASSUME BoundAssumption == MaxDay \in Nat /\ MaxAttempts \in Nat

VARIABLES
  trk,          \* the snapshot taken from the track version
  rows,         \* assignment_tasks
  assignment,   \* onboarding_assignments: status, progress_percent = 100
  phases,       \* assignment_phases: status, progress_percent = 100
  lastSub,      \* status of the latest task_submissions row of each task
  attempts,     \* number of quiz_attempts rows of each task
  saved,        \* metadata_json of the task holds a checklist_state
  checks,       \* its completed_item_ids
  today         \* date.today()

vars == <<trk, rows, assignment, phases, lastSub, attempts, saved, checks, today>>

-----------------------------------------------------------------------------
\* Every handler stores new rows through the refresh.
Store(new) ==
  /\ rows'       = RefreshedRows(trk, new, today)
  /\ assignment' = AssignmentOf(trk, rows')
  /\ phases'     = [p \in Phases |-> PhaseOf(trk, rows', p)]

\* create_assignment_from_track, for a start date such that the due dates
\* of the snapshot are those of a shape in Tracks.
Init ==
  /\ trk \in Tracks
  /\ today \in 0 .. MaxDay
  /\ rows = RefreshedRows(trk, [t \in Tasks |-> FreshRow], today)
  /\ assignment = AssignmentOf(trk, rows)
  /\ phases = [p \in Phases |-> PhaseOf(trk, rows, p)]
  /\ lastSub = [t \in Tasks |-> "none"]
  /\ attempts = [t \in Tasks |-> 0]
  /\ saved = [t \in Tasks |-> FALSE]
  /\ checks = [t \in Tasks |-> {}]

\* attempts_allowed of the quiz, or the bound of the model.
AttemptLimit(t) ==
  IF trk.allowed[t] = NoLimit THEN MaxAttempts ELSE trk.allowed[t]

\* POST .../tasks/{t}/submit of a quiz: refused when the attempts recorded
\* have reached attempts_allowed.
SubmitQuiz(t, passed) ==
  /\ trk.type[t] = "quiz"
  /\ attempts[t] < AttemptLimit(t)
  /\ attempts' = [attempts EXCEPT ![t] = @ + 1]
  /\ lastSub' = [lastSub EXCEPT ![t] = SubmittedStatus("quiz", passed)]
  /\ Store([rows EXCEPT ![t] = SubmittedRow("quiz", @, passed)])
  /\ UNCHANGED <<trk, saved, checks, today>>

\* The same of any other task, whatever its type and its status.
SubmitTask(t) ==
  /\ trk.type[t] # "quiz"
  /\ lastSub' = [lastSub EXCEPT ![t] = SubmittedStatus(trk.type[t], TRUE)]
  /\ Store([rows EXCEPT ![t] = SubmittedRow(trk.type[t], @, TRUE)])
  /\ UNCHANGED <<trk, attempts, saved, checks, today>>

\* The item ids the handler works with.
TickedItems(t, item, checked) ==
  IF checked THEN checks[t] \cup {item} ELSE checks[t] \ {item}

\* PATCH .../tasks/{t}/checklist.  The handler edits the checklist_state it
\* read in place, inside a shallow copy of metadata_json; when the column is
\* assigned, the copy equals the old value (both hold the edited state) and
\* the column is left out of the UPDATE.  Only the first mark, which adds
\* the checklist_state, reaches the database.
UpdateChecklistItem(t, item, checked) ==
  /\ trk.type[t] = "checklist"
  /\ item \in trk.must[t] \cup trk.may[t]
  /\ saved' = [saved EXCEPT ![t] = TRUE]
  /\ checks' = [checks EXCEPT ![t] = IF saved[t] THEN @
                                     ELSE TickedItems(t, item, checked)]
  /\ Store([rows EXCEPT ![t] =
              ChecklistRow(trk.must[t], @, TickedItems(t, item, checked))])
  /\ UNCHANGED <<trk, lastSub, attempts, today>>

\* POST .../tasks/{t}/review, by the mentor or an administrator.
MentorReview(t, decision) ==
  /\ lastSub' = [lastSub EXCEPT ![t] = IF @ = "none" THEN "none"
                                       ELSE ReviewedStatus(decision)]
  /\ Store([rows EXCEPT ![t] = ReviewedRow(@, decision)])
  /\ UNCHANGED <<trk, attempts, saved, checks, today>>

\* POST .../attempts/{id}/submit of the delivery created for the task.
AssessmentScored(t, passed) ==
  /\ trk.type[t] = "assessment"
  /\ Store([rows EXCEPT ![t] = ScoredRow(@, passed)])
  /\ UNCHANGED <<trk, lastSub, attempts, saved, checks, today>>

\* Midnight.  No handler runs: the stored statuses stay as they are.
NextDay ==
  /\ today < MaxDay
  /\ today' = today + 1
  /\ UNCHANGED <<trk, rows, assignment, phases, lastSub, attempts, saved, checks>>

Next ==
  \/ \E t \in Tasks, passed \in BOOLEAN : SubmitQuiz(t, passed)
  \/ \E t \in Tasks : SubmitTask(t)
  \/ \E t \in Tasks, item \in Items, checked \in BOOLEAN :
       UpdateChecklistItem(t, item, checked)
  \/ \E t \in Tasks, decision \in Decisions : MentorReview(t, decision)
  \/ \E t \in Tasks, passed \in BOOLEAN : AssessmentScored(t, passed)
  \/ NextDay

Spec == Init /\ [][Next]_vars

-----------------------------------------------------------------------------
\* Every column holds a value of its domain.
TypeOK ==
  /\ trk \in Tracks
  /\ rows \in [Tasks -> TaskRow]
  /\ assignment \in [status : AssignmentStatuses, full : BOOLEAN]
  /\ phases \in [Phases -> [status : PhaseStatuses, full : BOOLEAN]]
  /\ lastSub \in [Tasks -> SubmissionStatuses]
  /\ attempts \in [Tasks -> Nat]
  /\ saved \in [Tasks -> BOOLEAN]
  /\ checks \in [Tasks -> SUBSET Items]
  /\ today \in 0 .. MaxDay

\* A task is completed exactly when its percentage is 100, and then it is
\* stamped: status, progress_percent and completed_at are written by five
\* handlers and the overdue loop, in three different ways.
CompletionIsConsistent ==
  \A t \in Tasks :
    /\ (rows[t].status = "completed") <=> (rows[t].progress = 100)
    /\ rows[t].status = "completed" => rows[t].completedAt

\* The two derivations of an assignment agree: the status, computed from the
\* statuses of the required tasks, and the percentages of the assignment and
\* of its phases, computed from the percentages of the tasks.
DerivationsAgree ==
  /\ RequiredTasks(trk) # {} =>
       ((assignment.status = "completed") <=> assignment.full)
  /\ assignment.status = "completed" =>
       \A p \in Phases : TasksOf(trk, p) # {} => phases[p].status = "completed"

\* What the mentor sees of a task under review: a decided or withdrawn
\* submission never leaves the task waiting, and a completed task has no
\* submission that still asks for a decision.
SubmissionMatchesReview ==
  \A t \in Tasks : trk.type[t] = "review" =>
    /\ rows[t].status = "pending_review" => lastSub[t] = "submitted"
    /\ rows[t].status \in {"revision_requested", "blocked"} =>
         lastSub[t] \in {"none", "revision_requested"}
    /\ rows[t].status = "completed" => lastSub[t] \in {"none", "reviewed"}

\* The recommendation is unique, and when there is none every task is
\* completed or in the mentor's hands, whatever days passed since the last
\* refresh.
NextTaskIsFirstOpen ==
  /\ \A t \in Tasks : rows[t].isNext =>
       /\ Open(rows[t])
       /\ \A u \in Tasks : u < t => ~Open(rows[u])
  /\ (\A t \in Tasks : ~rows[t].isNext) =>
       \A t \in Tasks : rows[t].status \in {"completed", "pending_review", "blocked"}

\* No task is called overdue before its due date has passed, and an overdue
\* assignment has an overdue task.
OverdueIsPast ==
  /\ \A t \in Tasks : rows[t].status = "overdue" => PastDue(trk, t, today)
  /\ assignment.status = "overdue" => \E t \in Tasks : rows[t].status = "overdue"

\* A completed task is left only by a mentor's decision, a failed attempt, a
\* new submission for review or a mark on that very task: the overdue loop
\* never takes a completion back, and no request undoes another task's.
CompletionIsKept ==
  [][\A t \in Tasks :
       rows[t].status = "completed" /\ rows'[t].status # "completed" =>
         \/ \E decision \in Decisions \ {"approve"} : MentorReview(t, decision)
         \/ SubmitQuiz(t, FALSE)
         \/ AssessmentScored(t, FALSE)
         \/ trk.type[t] = "review" /\ SubmitTask(t)
         \/ \E item \in Items, checked \in BOOLEAN :
              UpdateChecklistItem(t, item, checked)]_vars

\* "Checklist updated." (frontend, my-onboarding page): the item just ticked
\* is among the stored marks.
MarkIsStored ==
  [][\A t \in Tasks, item \in Items :
       UpdateChecklistItem(t, item, TRUE) => item \in checks'[t]]_vars
=============================================================================
