------------------------- MODULE ProgressRequests -------------------------
(***************************************************************************)
(* The requests on one assignment as the server runs them: several at a    *)
(* time, each in a READ COMMITTED transaction that locks nothing while it   *)
(* reads.  A request begins, loads the assignment with its phases and      *)
(* tasks, reads once more (the number of quiz attempts, or the latest      *)
(* submission), and commits.  The session keeps the rows it loaded first   *)
(* and writes the columns whose new value differs from the loaded one, so  *)
(* a commit merges with what others committed in between.  Every request   *)
(* updates the assignment row (updated_at), whose lock makes flush and      *)
(* commit one step; and the date it works with is the date of that step.   *)
(*                                                                         *)
(* Percentages of assignment and phases are kept as the sum over the       *)
(* required tasks: the mean times their number, which never changes.       *)
(***************************************************************************)
EXTENDS AssignmentRows, Functions

CONSTANTS
  Requests,     \* requests that can be in flight together
  MaxDay,       \* bound: the last day of the model
  MaxAttempts,  \* bound: recorded attempts of a quiz without a limit
  MaxRequests   \* bound: requests that ever begin, NoLimit for any number

ASSUME RequestsAssumption == IsFiniteSet(Requests) /\ MaxAttempts \in Nat

VARIABLES
  trk, rows, lastSub, attempts, saved, checks, today,
  status,       \* onboarding_assignments.status
  percent,      \* its progress_percent, as a sum
  phases,       \* assignment_phases: status, progress_percent as a sum
  op,           \* what each request was asked for, or NoOp
  stage,        \* how far it got
  snap,         \* the rows it loaded
  read,         \* what its second read returned
  older,        \* the requests that had begun when it began
  overtaken,    \* a later request has submitted its task meanwhile
  begun         \* requests begun so far, for MaxRequests

stored == <<trk, rows, lastSub, attempts, saved, checks, today, status, percent, phases>>
flight == <<op, stage, snap, read, older, overtaken, begun>>
rvars  == <<stored, flight>>

-----------------------------------------------------------------------------
NoOp == [kind |-> "none"]

Operations ==
       [kind : {"submit"}, task : {t \in Tasks : trk.type[t] = "quiz"}, passed : BOOLEAN]
  \cup [kind : {"submit"}, task : {t \in Tasks : trk.type[t] # "quiz"}, passed : {TRUE}]
  \cup (UNION {[kind : {"tick"}, task : {t}, item : trk.must[t] \cup trk.may[t], checked : BOOLEAN] :
                 t \in {u \in Tasks : trk.type[u] = "checklist"}})
  \cup [kind : {"review"}, task : Tasks, decision : Decisions]
  \cup [kind : {"score"}, task : {t \in Tasks : trk.type[t] = "assessment"}, passed : BOOLEAN]

AttemptLimit(t) ==
  IF trk.allowed[t] = NoLimit THEN MaxAttempts ELSE trk.allowed[t]

\* recompute_progress over the required tasks of S.
Sum(new, S) ==
  SumFunctionOnSet([t \in Tasks |-> new[t].progress], S \cap RequiredTasks(trk))

PhasePercent(new, p) == Sum(new, TasksOf(trk, p))
PhaseStatus(new, p)  == PhaseOf(trk, new, p).status

\* The item ids a checklist request works with.
Ticked(r) ==
  LET marks == snap[r].checks[op[r].task]
  IN  IF op[r].checked THEN marks \cup {op[r].item} ELSE marks \ {op[r].item}

\* The row a request writes for its task, before the refresh.
Handled(r) ==
  LET o   == op[r]
      row == snap[r].rows[o.task]
  IN  CASE o.kind = "submit" -> SubmittedRow(trk.type[o.task], row, o.passed)
        [] o.kind = "tick"   -> ChecklistRow(trk.must[o.task], row, Ticked(r))
        [] o.kind = "review" -> ReviewedRow(row, o.decision)
        [] o.kind = "score"  -> ScoredRow(row, o.passed)

\* The column of a flush: the new value where it differs from the loaded one.
Flushed(current, loaded, new) == IF new = loaded THEN current ELSE new

\* A completion writes a new timestamp, which always differs.
FlushedRow(current, loaded, new, stamped) ==
  [status      |-> Flushed(current.status, loaded.status, new.status),
   progress    |-> Flushed(current.progress, loaded.progress, new.progress),
   completedAt |-> stamped \/ Flushed(current.completedAt, loaded.completedAt, new.completedAt),
   isNext      |-> Flushed(current.isNext, loaded.isNext, new.isNext)]

-----------------------------------------------------------------------------
RInit ==
  /\ trk \in Tracks
  /\ today \in 0 .. MaxDay
  /\ rows = RefreshedRows(trk, [t \in Tasks |-> FreshRow], today)
  /\ status = StatusOf(trk, rows)
  /\ percent = Sum(rows, Tasks)
  /\ phases = [p \in Phases |-> [status |-> PhaseStatus(rows, p),
                                 percent |-> PhasePercent(rows, p)]]
  /\ lastSub = [t \in Tasks |-> "none"]
  /\ attempts = [t \in Tasks |-> 0]
  /\ saved = [t \in Tasks |-> FALSE]
  /\ checks = [t \in Tasks |-> {}]
  /\ op = [r \in Requests |-> NoOp]
  /\ stage = [r \in Requests |-> "idle"]
  /\ snap = [r \in Requests |-> NoOp]
  /\ read = [r \in Requests |-> NoOp]
  /\ older = [r \in Requests |-> {}]
  /\ overtaken = [r \in Requests |-> FALSE]
  /\ begun = 0

\* The transaction of a request begins; submitted_at will be this instant.
Begin(r) ==
  /\ stage[r] = "idle"
  /\ MaxRequests = NoLimit \/ begun < MaxRequests
  /\ begun' = IF MaxRequests = NoLimit THEN begun ELSE begun + 1
  /\ \E o \in Operations : op' = [op EXCEPT ![r] = o]
  /\ stage' = [stage EXCEPT ![r] = "begun"]
  /\ older' = [older EXCEPT ![r] = {q \in Requests \ {r} : stage[q] # "idle"}]
  /\ UNCHANGED <<stored, snap, read, overtaken>>

Everything == [rows |-> rows, status |-> status, percent |-> percent,
               phases |-> phases, saved |-> saved, checks |-> checks]

\* get_assignment_by_id: one statement.  A scored attempt has loaded the row
\* of its task before, in a statement of its own, and keeps that row.
Load(r) ==
  /\ stage[r] = "begun"
  /\ IF op[r].kind = "score" /\ snap[r] = NoOp
     THEN /\ snap' = [snap EXCEPT ![r] = [row |-> rows[op[r].task]]]
          /\ UNCHANGED stage
     ELSE /\ snap' = [snap EXCEPT ![r] =
               IF op[r].kind = "score"
               THEN [Everything EXCEPT !.rows[op[r].task] = snap[r].row]
               ELSE Everything]
          /\ stage' = [stage EXCEPT ![r] = "loaded"]
  /\ UNCHANGED <<stored, op, read, older, overtaken, begun>>

\* The request ends: its slot is free, and no one began before it any more.
Leave(r) ==
  /\ op' = [op EXCEPT ![r] = NoOp]
  /\ stage' = [stage EXCEPT ![r] = "idle"]
  /\ snap' = [snap EXCEPT ![r] = NoOp]
  /\ older' = [q \in Requests |-> IF q = r THEN {} ELSE older[q] \ {r}]

IsQuiz(r) == op[r].kind = "submit" /\ trk.type[op[r].task] = "quiz"

\* Mutant: off by one.
OutOfAttemptsLate(r) ==
  IsQuiz(r) /\ attempts[op[r].task] > AttemptLimit(op[r].task)

\* A submission of a quiz with attempts_allowed attempts recorded is refused.
OutOfAttempts(r) ==
  IsQuiz(r) /\ attempts[op[r].task] >= AttemptLimit(op[r].task)

\* The second read: the count of quiz attempts, or the latest submission.
Prepare(r) ==
  LET t == op[r].task
  IN  /\ stage[r] = "loaded"
      /\ \/ /\ OutOfAttempts(r)
            /\ Leave(r)
            /\ read' = [read EXCEPT ![r] = NoOp]
            /\ overtaken' = [overtaken EXCEPT ![r] = FALSE]
         \/ /\ ~OutOfAttempts(r)
            /\ stage' = [stage EXCEPT ![r] = "prepared"]
            /\ read' = [read EXCEPT ![r] =
                 IF op[r].kind = "review" THEN [sub |-> lastSub[t], latest |-> TRUE]
                 ELSE NoOp]
            /\ UNCHANGED <<op, snap, older, overtaken>>
      /\ UNCHANGED <<stored, begun>>

\* The columns of the task rows, of the assignment and of its phases.
FlushRows(r) ==
  LET t   == op[r].task
      old == snap[r]
      new == RefreshedRows(trk, [old.rows EXCEPT ![t] = Handled(r)], today)
  IN  /\ rows' = [u \in Tasks |->
           FlushedRow(rows[u], old.rows[u], new[u],
                      u = t /\ Handled(r).status = "completed")]
      /\ status' = Flushed(status, old.status, StatusOf(trk, new))
      /\ percent' = Flushed(percent, old.percent, Sum(new, Tasks))
      /\ phases' = [p \in Phases |->
           [status  |-> Flushed(phases[p].status, old.phases[p].status, PhaseStatus(new, p)),
            percent |-> Flushed(phases[p].percent, old.phases[p].percent, PhasePercent(new, p))]]

\* Mutant: a decided submission is not decided again.
DecidesOnce(r) ==
  op[r].kind = "review" /\ read[r].sub = "submitted" /\ read[r].latest

\* A mentor's decision goes to the submission it has read, if any.
Decides(r) ==
  op[r].kind = "review" /\ read[r].sub # "none" /\ read[r].latest

\* The submission row: a new one is the latest unless a request that began
\* later was faster; a review rewrites the status of the one it has read.
FlushSubmission(r) ==
  LET o == op[r]
      decided == ReviewedStatus(o.decision)
  IN  CASE o.kind = "submit" /\ ~overtaken[r] ->
             lastSub' = [lastSub EXCEPT ![o.task] = SubmittedStatus(trk.type[o.task], o.passed)]
        [] Decides(r) ->
             lastSub' = [lastSub EXCEPT ![o.task] = Flushed(@, read[r].sub, decided)]
        [] OTHER -> UNCHANGED lastSub

\* What a new submission means to the others in flight on the same task.
Overtake(r) ==
  LET same == {q \in Requests \ {r} : op[q] # NoOp /\ op[q].task = op[r].task}
  IN  /\ overtaken' = [q \in Requests |->
           q # r /\ (overtaken[q] \/ /\ op[r].kind = "submit"
                                     /\ q \in same /\ q \in older[r])]
      /\ read' = [q \in Requests |->
           IF q = r THEN NoOp
           ELSE IF q \in same /\ read[q] # NoOp /\ op[r].kind = "submit" /\ ~overtaken[r]
           THEN [read[q] EXCEPT !.latest = FALSE]
           ELSE read[q]]

Commit(r) ==
  LET t == op[r].task
      first == op[r].kind = "tick" /\ ~snap[r].saved[t]
  IN  /\ stage[r] = "prepared"
      /\ FlushRows(r)
      /\ FlushSubmission(r)
      /\ attempts' = IF IsQuiz(r) THEN [attempts EXCEPT ![t] = @ + 1] ELSE attempts
      /\ saved' = IF first THEN [saved EXCEPT ![t] = TRUE] ELSE saved
      /\ checks' = IF first THEN [checks EXCEPT ![t] = Ticked(r)] ELSE checks
      /\ Overtake(r)
      /\ Leave(r)
      /\ UNCHANGED <<trk, today, begun>>

NextDay ==
  /\ today < MaxDay
  /\ today' = today + 1
  /\ UNCHANGED <<trk, rows, lastSub, attempts, saved, checks, status, percent, phases, flight>>

RNext ==
  \/ \E r \in Requests : Begin(r) \/ Load(r) \/ Prepare(r) \/ Commit(r)
  \/ NextDay

RSpec == RInit /\ [][RNext]_rvars

-----------------------------------------------------------------------------
\* The types of the variables.
TypeOK ==
  /\ rows \in [Tasks -> TaskRow]
  /\ status \in AssignmentStatuses /\ percent \in Nat
  /\ \A p \in Phases : phases[p].status \in PhaseStatuses /\ phases[p].percent \in Nat
  /\ lastSub \in [Tasks -> SubmissionStatuses]
  /\ attempts \in [Tasks -> Nat]
  /\ saved \in [Tasks -> BOOLEAN] /\ checks \in [Tasks -> SUBSET Items]
  /\ \A r \in Requests :
       /\ stage[r] \in {"idle", "begun", "loaded", "prepared"}
       /\ (stage[r] = "idle") <=> (op[r] = NoOp)
       /\ older[r] \subseteq {q \in Requests : stage[q] # "idle"}

\* The row a request writes is computed from what it read: when nobody has
\* committed since, the stored recommendation, assignment and phases are
\* exactly what the refresh derives from the stored tasks, however stale or
\* contradictory earlier overlapping requests left them.
DerivedFromRows ==
  /\ rows = MarkNext(rows)
  /\ status = StatusOf(trk, rows)
  /\ percent = Sum(rows, Tasks)
  /\ \A p \in Phases : phases[p] = [status  |-> PhaseStatus(rows, p),
                                    percent |-> PhasePercent(rows, p)]

UndisturbedCommitRepairs ==
  [][\A r \in Requests :
       Commit(r) /\ snap[r] = Everything => DerivedFromRows']_rvars

\* Overlapping submissions of a quiz can each find an attempt left, so the
\* recorded attempts may pass attempts_allowed, but by no more than the
\* number of requests that were in flight with the last one.
AttemptsBounded ==
  \A t \in Tasks : trk.type[t] = "quiz" /\ attempts[t] # 0 =>
    attempts[t] < AttemptLimit(t) + Cardinality(Requests)

\* One request at a time behaves as the serial specification says.
Serial == INSTANCE AssignmentProgress WITH
  assignment <- [status |-> status,
                 full   |-> percent = 100 * Cardinality(RequiredTasks(trk))],
  phases <- [p \in Phases |->
    [status |-> phases[p].status,
     full   |-> /\ TasksOf(trk, p) # {}
                /\ phases[p].percent = 100 * Cardinality(TasksOf(trk, p) \cap RequiredTasks(trk))]]

SerialSpec == Serial!Spec
=============================================================================
