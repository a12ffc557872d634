------------------------ MODULE ClassificationJob ------------------------
(***************************************************************************)
(* The AI classification of the question bank                              *)
(* (services/assessment_classification_service.py and its endpoints): a    *)
(* background task per job, and the administrators who start, cancel,      *)
(* pause, resume and roll back jobs meanwhile, and create, import, edit    *)
(* and delete questions.                                                   *)
(*                                                                         *)
(* The task selects its job row at the head of every round, but it holds   *)
(* the row it loaded first, and a SELECT does not refresh the attributes   *)
(* of a row its session holds: what it decides on is its own copy.  Both   *)
(* sides write the columns whose value differs from the loaded one.        *)
(*                                                                         *)
(* The job counts the questions its filters select once, before the first  *)
(* batch, and selects them again for every batch.  The ids are random: a   *)
(* new question comes anywhere in their order.  All jobs have the same     *)
(* filters, whatever these are about: a question is listed if it fits.     *)
(*                                                                         *)
(* A batch of questions stays in the task's session while the AI answers.  *)
(* The categories an answer names exist, or are created by the task; which *)
(* is left out.  So is apply_job_items, which calls a function that is     *)
(* nowhere defined and changes nothing.                                    *)
(***************************************************************************)
EXTENDS Integers, FiniteSets

CONSTANTS
  NQuestions,     \* questions of the bank, numbered in the order of their ids
  Banks,          \* what the bank may hold at first, and who is yet to come
  Listings,       \* which of them are there, and listed, at first
  Categories,     \* assessment_categories
  Difficulties,   \* easy, medium, hard
  Labels,         \* classifications the AI may answer
  Orders,         \* mode and dry_run of the jobs
  NJobs,          \* bound: jobs ever started
  BatchSize,      \* batch_size of the jobs
  Admins,         \* requests of administrators that can be in flight together
  MaxEvents,      \* bound: requests, changes of the bank and failures of tasks
  NoLabel         \* category_id or difficulty IS NULL

Questions == 1 .. NQuestions
Jobs      == 1 .. NJobs

Question == [category : Categories \cup {NoLabel}, difficulty : Difficulties \cup {NoLabel}]

ASSUME SizeAssumption  == NQuestions \in Nat /\ NJobs \in Nat
                          /\ MaxEvents \in Nat /\ BatchSize \in Nat \ {0}
ASSUME LabelAssumption == /\ NoLabel \notin Categories \cup Difficulties
                          /\ Labels \subseteq [category : Categories, difficulty : Difficulties]
ASSUME BankAssumption  == /\ Banks \subseteq [Questions -> Question]
                          /\ Listings \subseteq [Questions -> {"awaited", "listed", "unlisted"}]
ASSUME OrderAssumption == Orders \subseteq [mode : {"unclassified_only", "reclassify_all"},
                                             dry  : BOOLEAN]
ASSUME AdminAssumption == IsFiniteSet(Admins)

VARIABLES
  questions,   \* category_id and difficulty of each question
  listing,     \* whether it is yet to come, listed, unlisted or deleted
  jobs,        \* assessment_classification_jobs
  items,       \* assessment_classification_job_items by job and question; those
               \* of a deleted question are gone
  pc,          \* where the background task of each job is
  copy,        \* the row of the job in its session
  last,        \* last_id
  batch,       \* the questions it asks the AI about, as loaded
  op,          \* what each administrator asked for
  seen,        \* what the request has read
  base,        \* the bank when the job began, for the properties
  touched,     \* questions somebody else has changed since, for the properties
  moved,       \* questions that came, left or went while its task ran, for them too
  events       \* requests, changes and failures so far, for MaxEvents

tables == <<questions, listing, jobs, items>>
task   == <<pc, copy, last, batch>>
ghost  == <<base, touched, moved>>
vars   == <<tables, task, op, seen, ghost, events>>

-----------------------------------------------------------------------------
Nothing == [kind |-> "none"]

NoJob == [status |-> "absent", mode |-> "reclassify_all", dry |-> FALSE,
          cancel |-> FALSE, pause |-> FALSE, beat |-> FALSE,
          total |-> 0, processed |-> 0]

Happens == events < MaxEvents /\ events' = events + 1

Active == {"queued", "running", "paused"}

\* The value of a column after a write: untouched if it equals the loaded one.
Merged(current, loaded, new) == IF new = loaded THEN current ELSE new

MergedQuestion(current, loaded, new) ==
  [category   |-> Merged(current.category, loaded.category, new.category),
   difficulty |-> Merged(current.difficulty, loaded.difficulty, new.difficulty)]

There(q) == listing[q] \in {"listed", "unlisted"}

\* The questions the query of the job selects now.
Matching(mode) ==
  {q \in Questions :
     /\ listing[q] = "listed"
     /\ mode = "unclassified_only" => NoLabel \in {questions[q].category, questions[q].difficulty}}

Init ==
  /\ questions \in Banks
  /\ listing \in Listings
  /\ jobs = [j \in Jobs |-> NoJob]
  /\ items = [j \in Jobs |-> [q \in Questions |-> Nothing]]
  /\ pc = [j \in Jobs |-> "none"]
  /\ copy = [j \in Jobs |-> NoJob]
  /\ last = [j \in Jobs |-> 0]
  /\ batch = [j \in Jobs |-> <<>>]
  /\ op = [a \in Admins |-> Nothing]
  /\ seen = [a \in Admins |-> Nothing]
  /\ base = [j \in Jobs |-> questions]
  /\ touched = [j \in Jobs |-> {}]
  /\ moved = [j \in Jobs |-> {}]
  /\ events = 0

-----------------------------------------------------------------------------
(* The background task. *)

\* Up to the first commit: the row is loaded, reset and counted.  Whatever
\* became of the job while the task waited for a thread, it runs now.
Begin(j) ==
  /\ pc[j] = "waiting"
  /\ copy' = [copy EXCEPT ![j] = [jobs[j] EXCEPT
       !.status = "running", !.cancel = FALSE, !.beat = TRUE,
       !.total = Cardinality(Matching(jobs[j].mode)), !.processed = 0]]
  /\ jobs' = [jobs EXCEPT ![j] = copy'[j]]
  /\ pc' = [pc EXCEPT ![j] = "loop"]
  /\ base' = [base EXCEPT ![j] = questions]
  /\ touched' = [touched EXCEPT ![j] = {}]
  /\ moved' = [moved EXCEPT ![j] = {}]
  /\ UNCHANGED <<questions, listing, items, last, batch, op, seen, events>>

\* What the SELECT at the head of a round returns: the row as the task holds
\* it.  A cancellation or a resumption that comes later never shows in it.
Seen(j) == copy[j]

\* The columns a round writes to its job row.
WrittenRow(row, loaded, new) ==
  [row EXCEPT !.status    = Merged(row.status, loaded.status, new.status),
              !.processed = Merged(row.processed, loaded.processed, new.processed),
              !.beat      = TRUE]

Write(j, new) ==
  /\ copy' = [copy EXCEPT ![j] = new]
  /\ jobs' = [jobs EXCEPT ![j] = WrittenRow(jobs[j], copy[j], new)]

\* The next questions in the order of their ids.
NextBatch(j) ==
  LET left == {q \in Matching(jobs[j].mode) : q > last[j]}
  IN  {q \in left : Cardinality({p \in left : p < q}) < BatchSize}

\* The head of a round: a cancellation ends the task, a pause keeps it in the
\* loop, and otherwise the next batch goes to the AI.
Round(j) ==
  LET c    == Seen(j)
      next == NextBatch(j)
  IN  /\ pc[j] = "loop"
      /\ UNCHANGED <<questions, listing, items, op, seen, ghost, events>>
      /\ IF c.cancel
         THEN /\ Write(j, [c EXCEPT !.status = "canceled"])
              /\ pc' = [pc EXCEPT ![j] = "ended"]
              /\ UNCHANGED <<last, batch>>
         ELSE IF c.pause
         THEN /\ c.status # "paused"
              /\ Write(j, [c EXCEPT !.status = "paused"])
              /\ UNCHANGED <<pc, last, batch>>
         ELSE /\ next # {}
              /\ IF c.status = "paused"
                 THEN Write(j, [c EXCEPT !.status = "running"])
                 ELSE UNCHANGED <<jobs, copy>>
              /\ last' = [last EXCEPT ![j] = CHOOSE q \in next : \A p \in next : p <= q]
              /\ batch' = [batch EXCEPT ![j] = [q \in next |-> questions[q]]]
              /\ pc' = [pc EXCEPT ![j] = "asking"]

\* Mutant: a batch the AI failed on is not counted.
RefusedUncounted(j) ==
  /\ pc[j] = "asking"
  /\ Write(j, copy[j])
  /\ pc' = [pc EXCEPT ![j] = "loop"]
  /\ batch' = [batch EXCEPT ![j] = <<>>]
  /\ UNCHANGED <<questions, listing, items, last, op, seen, ghost, events>>

\* Mutant: a batch the AI failed on is asked for again.
RefusedAgain(j) ==
  /\ pc[j] = "asking"
  /\ Write(j, copy[j])
  /\ pc' = [pc EXCEPT ![j] = "loop"]
  /\ last' = [last EXCEPT ![j] = (CHOOSE q \in DOMAIN batch[j] :
                                    \A p \in DOMAIN batch[j] : q <= p) - 1]
  /\ batch' = [batch EXCEPT ![j] = <<>>]
  /\ UNCHANGED <<questions, listing, items, op, seen, ghost, events>>

Asked(j) == [copy[j] EXCEPT !.processed = @ + Cardinality(DOMAIN batch[j])]

\* The call fails: the batch is skipped, not the job.
Refused(j) ==
  /\ pc[j] = "asking"
  /\ Write(j, Asked(j))
  /\ pc' = [pc EXCEPT ![j] = "loop"]
  /\ batch' = [batch EXCEPT ![j] = <<>>]
  /\ UNCHANGED <<questions, listing, items, last, op, seen, ghost, events>>

\* Mutant: both columns are filled when one is empty.
ClassifiedWhole(mode, loaded, label) == label

\* What an answer makes of a question: all of it, or what it lacked.
Classified(mode, loaded, label) ==
  IF mode = "reclassify_all" THEN label
  ELSE [category   |-> IF loaded.category = NoLabel THEN label.category ELSE loaded.category,
        difficulty |-> IF loaded.difficulty = NoLabel THEN label.difficulty ELSE loaded.difficulty]

\* Somebody changes the bank: its questions are no longer the other jobs' own.
Touch(others, new) ==
  touched' = [k \in Jobs |->
    IF k \in others /\ copy[k] # NoJob
    THEN touched[k] \cup {q \in Questions : new[q] # questions[q]}
    ELSE touched[k]]

\* The AI answers for some questions of the batch.  Each is recorded in an
\* item, which has to find it, and, unless the job is a dry run, classified.
Store(j) ==
  /\ pc[j] = "asking"
  /\ \E answer \in [DOMAIN batch[j] -> Labels \cup {Nothing}] :
       LET loaded   == batch[j]
           answered == {q \in DOMAIN batch[j] : answer[q] # Nothing}
           new == [q \in Questions |->
                     IF q \in answered /\ ~copy[j].dry
                     THEN MergedQuestion(questions[q], loaded[q],
                            Classified(copy[j].mode, loaded[q], answer[q]))
                     ELSE questions[q]]
       IN  /\ \A q \in answered : There(q)
           /\ questions' = new
           /\ items' = [items EXCEPT ![j] = [q \in Questions |->
                IF q \in answered
                THEN [old |-> loaded[q], new |-> answer[q], applied |-> ~copy[j].dry]
                ELSE @[q]]]
           /\ Touch(Jobs \ {j}, new)
  /\ Write(j, Asked(j))
  /\ pc' = [pc EXCEPT ![j] = "loop"]
  /\ batch' = [batch EXCEPT ![j] = <<>>]
  /\ UNCHANGED <<listing, last, op, seen, base, moved, events>>

\* No question is left.
Complete(j) ==
  /\ pc[j] = "loop"
  /\ ~Seen(j).cancel /\ ~Seen(j).pause
  /\ NextBatch(j) = {}
  /\ Write(j, [copy[j] EXCEPT !.status = "completed"])
  /\ pc' = [pc EXCEPT ![j] = "ended"]
  /\ UNCHANGED <<questions, listing, items, last, batch, op, seen, ghost, events>>

\* An exception that no batch caught: the transaction is rolled back and the
\* row, read again, says so.
GiveUp(j) ==
  /\ jobs' = [jobs EXCEPT ![j].status = "failed"]
  /\ pc' = [pc EXCEPT ![j] = "ended"]
  /\ batch' = [batch EXCEPT ![j] = <<>>]
  /\ UNCHANGED <<questions, listing, items, copy, last, op, seen, ghost>>

\* The AI answers for a question that was deleted meanwhile.
StoreFails(j) ==
  /\ pc[j] = "asking"
  /\ \E q \in DOMAIN batch[j] : ~There(q)
  /\ GiveUp(j)
  /\ UNCHANGED events

Fail(j) ==
  /\ pc[j] \in {"waiting", "loop", "asking"}
  /\ Happens
  /\ GiveUp(j)

\* The server process dies, and its background tasks with it.
Crash(j) ==
  /\ pc[j] \in {"waiting", "loop", "asking"}
  /\ Happens
  /\ pc' = [pc EXCEPT ![j] = "lost"]
  /\ batch' = [batch EXCEPT ![j] = <<>>]
  /\ UNCHANGED <<tables, copy, last, op, seen, ghost>>

-----------------------------------------------------------------------------
(* The administrators.  A request reads, then writes and commits. *)

Unused == {j \in Jobs : jobs[j].status = "absent"}

\* The latest active job, 0 if there is none.
Existing ==
  LET active == {j \in Jobs : jobs[j].status \in Active}
  IN  IF active = {} THEN 0 ELSE CHOOSE j \in active : \A k \in active : k <= j

\* Requests that are not answered before anything is written.
Requests ==
  {o \in [kind : {"cancel", "pause", "resume"}, job : Jobs] : jobs[o.job].status \in Active}
  \cup {o \in [kind : {"rollback"}, job : Jobs] : jobs[o.job].status = "completed"}
  \cup {o \in [kind : {"start"}, order : Orders] :
          Cardinality(Unused) > Cardinality({a \in Admins : op[a].kind = "start"})}

\* Whether the task of a job passes for dead: its heartbeat may be older than
\* the limit, 30 or 120 seconds, at any time, and a queued job has none.
PassesForDead(j) == IF jobs[j].beat THEN BOOLEAN ELSE {TRUE}

Look(a) ==
  /\ op[a] = Nothing
  /\ Happens
  /\ \E o \in Requests :
       /\ op' = [op EXCEPT ![a] = o]
       /\ CASE o.kind = "start" ->
                 \E dead \in IF Existing = 0 THEN {TRUE} ELSE PassesForDead(Existing) :
                   seen' = [seen EXCEPT ![a] = [existing |-> Existing, dead |-> dead]]
            [] o.kind = "rollback" ->
                 seen' = [seen EXCEPT ![a] =
                   [q \in Questions |-> IF listing[q] = "deleted" THEN Nothing ELSE questions[q]]]
            [] o.kind = "cancel" ->
                 \E dead \in PassesForDead(o.job) :
                   seen' = [seen EXCEPT ![a] = [cancel |-> jobs[o.job].cancel, dead |-> dead]]
            [] OTHER ->
                 seen' = [seen EXCEPT ![a] = [pause |-> jobs[o.job].pause]]
  /\ UNCHANGED <<tables, task, ghost>>

Answer(a) ==
  /\ op' = [op EXCEPT ![a] = Nothing]
  /\ seen' = [seen EXCEPT ![a] = Nothing]

\* A job without a heartbeat for two minutes, or without any, is taken for
\* dead and replaced; a live one is returned instead of a new one.
Start(a) ==
  LET old == seen[a].existing
      new == CHOOSE j \in Unused : \A k \in Unused : j <= k
  IN  /\ op[a].kind = "start"
      /\ IF old # 0 /\ ~seen[a].dead
         THEN UNCHANGED <<jobs, pc>>
         ELSE /\ jobs' = [j \in Jobs |->
                   IF j = new THEN [NoJob EXCEPT !.status = "queued",
                                      !.mode = op[a].order.mode, !.dry = op[a].order.dry]
                   ELSE IF j = old THEN [jobs[j] EXCEPT !.status = "failed"]
                   ELSE jobs[j]]
              /\ pc' = [pc EXCEPT ![new] = "waiting"]
      /\ Answer(a)
      /\ UNCHANGED <<questions, listing, items, copy, last, batch, ghost, events>>

\* Mutant: the status is spelt as in the message.
CancelledRow(row, loaded) ==
  IF loaded.dead THEN [row EXCEPT !.status = "cancelled"]
  ELSE [row EXCEPT !.cancel = Merged(row.cancel, loaded.cancel, TRUE)]

\* A task silent for 30 seconds is taken for dead and its job canceled;
\* otherwise the task is asked to stop.
CanceledRow(row, loaded) ==
  IF loaded.dead THEN [row EXCEPT !.status = "canceled"]
  ELSE [row EXCEPT !.cancel = Merged(row.cancel, loaded.cancel, TRUE)]

PausedRow(row, loaded, pause) == [row EXCEPT !.pause = Merged(row.pause, loaded.pause, pause)]

Control(a) ==
  LET o == op[a]
  IN  /\ o.kind \in {"cancel", "pause", "resume"}
      /\ jobs' = [jobs EXCEPT ![o.job] =
           IF o.kind = "cancel" THEN CanceledRow(jobs[o.job], seen[a])
           ELSE PausedRow(jobs[o.job], seen[a], o.kind = "pause")]
      /\ Answer(a)
      /\ UNCHANGED <<questions, listing, items, task, ghost, events>>

\* Mutant: a question that had no category is passed over.
RollsBackNamed(item, value) ==
  item # Nothing /\ item.applied /\ value = item.new /\ item.old.category # NoLabel

\* "Only rollback if current values still match the applied values."
RollsBack(item, value) == item # Nothing /\ item.applied /\ value = item.new

ToRestore(a) == {q \in Questions : RollsBack(items[op[a].job][q], seen[a][q])}

Rollback(a) ==
  LET j   == op[a].job
      new == [q \in Questions |->
                IF q \in ToRestore(a)
                THEN MergedQuestion(questions[q], seen[a][q], items[j][q].old)
                ELSE questions[q]]
  IN  /\ op[a].kind = "rollback"
      /\ \A q \in ToRestore(a) : There(q)
      /\ questions' = new
      /\ Touch(Jobs \ {j}, new)
      /\ Answer(a)
      /\ UNCHANGED <<listing, jobs, items, task, base, moved, events>>

\* A question it would restore was deleted meanwhile: an error, and nothing is written.
RollbackFails(a) ==
  /\ op[a].kind = "rollback"
  /\ \E q \in ToRestore(a) : ~There(q)
  /\ Answer(a)
  /\ UNCHANGED <<tables, task, ghost, events>>

\* bulk_update_questions sets one column, or clears it.
EditQuestion(q) ==
  /\ Happens
  /\ There(q)
  /\ \E v \in Question :
       /\ v.category = questions[q].category \/ v.difficulty = questions[q].difficulty
       /\ v # questions[q]
       /\ questions' = [questions EXCEPT ![q] = v]
  /\ Touch(Jobs, questions')
  /\ UNCHANGED <<listing, jobs, items, task, op, seen, base, moved>>

Move(q, to) ==
  /\ Happens
  /\ listing' = [listing EXCEPT ![q] = to]
  /\ moved' = [j \in Jobs |-> IF pc[j] \in {"loop", "asking"} THEN moved[j] \cup {q} ELSE moved[j]]
  /\ UNCHANGED <<questions, jobs, items, task, op, seen, base, touched>>

\* A question is created, imported or duplicated, or edited so that it fits.
Enter(q) == listing[q] \in {"awaited", "unlisted"} /\ Move(q, "listed")

\* A question is edited so that it fits no longer, archived for instance.
Leave(q) == listing[q] = "listed" /\ Move(q, "unlisted")

\* delete_permanently takes its items with it.
DeleteQuestion(q) == There(q) /\ Move(q, "deleted")

-----------------------------------------------------------------------------
Work(j) == Round(j) \/ Refused(j) \/ Store(j) \/ StoreFails(j) \/ Complete(j)

Next ==
  \/ \E j \in Jobs : Begin(j) \/ Work(j) \/ Fail(j) \/ Crash(j)
  \/ \E a \in Admins : Look(a) \/ Start(a) \/ Control(a) \/ Rollback(a) \/ RollbackFails(a)
  \/ \E q \in Questions : EditQuestion(q) \/ Enter(q) \/ Leave(q) \/ DeleteQuestion(q)

Spec == Init /\ [][Next]_vars

\* A background task gets a thread and goes on; calls to the AI time out.
Fairness == \A j \in Jobs : WF_vars(Begin(j)) /\ WF_vars(Work(j))

FairSpec == Spec /\ Fairness

-----------------------------------------------------------------------------
Item == [old : Question, new : Question, applied : BOOLEAN]

\* Every column holds a value its CHECK constraint allows.
TypeOK ==
  /\ questions \in [Questions -> Question]
  /\ listing \in [Questions -> {"awaited", "listed", "unlisted", "deleted"}]
  /\ \A j \in Jobs :
       /\ jobs[j].status \in Active \cup {"absent", "completed", "failed", "canceled"}
       /\ jobs[j].beat \in BOOLEAN
       /\ jobs[j].cancel \in BOOLEAN /\ jobs[j].pause \in BOOLEAN
       /\ jobs[j].total \in 0 .. NQuestions /\ jobs[j].processed \in Nat
       /\ items[j] \in [Questions -> Item \cup {Nothing}]
       /\ pc[j] \in {"none", "waiting", "loop", "asking", "ended", "lost"}
       /\ last[j] \in 0 .. NQuestions
       /\ DOMAIN batch[j] \subseteq Questions

\* "Processed x / y": what a job over the whole bank processes and what it counted at
\* first differ by no more questions than came, left or were deleted while it ran, so by
\* none if nobody meddled, whichever batches failed and whatever became of its row
\* meanwhile.  It may thus show more than it counted, or complete with less.
ProgressAddsUp ==
  \A j \in Jobs : jobs[j].mode = "reclassify_all" =>
    /\ jobs[j].processed <= jobs[j].total + Cardinality(moved[j])
    /\ jobs[j].status = "completed" =>
         jobs[j].total <= jobs[j].processed + Cardinality(moved[j])

\* A question nobody else has changed since the job began keeps the category
\* and the difficulty it had, if the job is for unclassified questions only.
OnlyGapsAreFilled ==
  \A j \in Jobs : jobs[j].mode = "unclassified_only" /\ copy[j] # NoJob =>
    \A q \in Questions \ touched[j] :
      /\ base[j][q].category # NoLabel => questions[q].category = base[j][q].category
      /\ base[j][q].difficulty # NoLabel => questions[q].difficulty = base[j][q].difficulty

\* The questions nobody else has changed or deleted are what they were before the job.
Restored(j) ==
  \A q \in Questions \ touched[j] : listing[q] # "deleted" => questions'[q] = base[j][q]

\* Rolling back a job over the whole bank undoes it.
RollbackRestores ==
  [][\A a \in Admins :
       Rollback(a) /\ jobs[op[a].job].mode = "reclassify_all" => Restored(op[a].job)]_vars

\* "Record per-question diff for review/rollback": rolling back undoes a job.
RollbackUndoes ==
  [][\A a \in Admins : Rollback(a) => Restored(op[a].job)]_vars

\* A task that has not died is not asked in vain to stop ("the background
\* task is dead and won't pick up cancel_requested on its own" is said of the
\* others): it sends no batch to the AI after it has been asked.
NoBatchAfterCancel ==
  [][\A j \in Jobs :
       pc[j] = "loop" /\ pc'[j] = "asking" => ~jobs[j].cancel]_vars

\* Every task that runs comes to an end, whatever batches fail and whatever
\* else happens to its job, unless it found its job paused when it began.
TasksEnd ==
  \A j \in Jobs :
    pc[j] = "waiting" ~> pc[j] \in {"ended", "lost"} \/ copy[j].pause
=============================================================================
