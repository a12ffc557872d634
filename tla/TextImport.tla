----------------------------- MODULE TextImport -----------------------------
(***************************************************************************)
(* The import of questions from a text: the sheet of the question bank,    *)
(* src/frontend/app/(app)/assessments/questions/page.tsx, which starts a   *)
(* job, polls it every two seconds and picks it up again after a reload,   *)
(* and the job itself, a thread of src/backend/app/api/v1/endpoints/       *)
(* assessments.py that shares the record of the job with the request that  *)
(* cancels it.                                                             *)
(*                                                                         *)
(* _update_job reads the record, patches it and writes it back: a reading  *)
(* and a writing step here, for the thread and for the cancelling request. *)
(* The record is in Redis, where it expires 600 s after the last write.  A *)
(* command of Redis may fail: in the thread that is an exception, which    *)
(* ends the job by the except clause around all of it, the update after    *)
(* the commit included.                                                    *)
(***************************************************************************)
EXTENDS Integers, FiniteSets

CONSTANTS
    MaxJobs,     \* bound: jobs started
    Chunks,      \* the chunks of a text
    MaxFaults    \* bound: commands of Redis or steps of a thread that fail, requests of
                 \* the page that get no answer, restarts of the server, which end its
                 \* threads, and reloads of the page or renewals of its token, together

ASSUME ImportAssumption ==
    {MaxJobs, Chunks, MaxFaults} \subseteq Nat

Jobs == 1..MaxJobs
Final == {"cancelled", "error", "done"}

VARIABLES
    job,       \* job[j]: the record, [status, cancel_requested]; Absent if none
    thread,    \* thread[j]: what the job's thread does next, its chunk, and
               \* whether it has questions; "caught": it ends, or has ended, in
               \* the except clause
    patch,     \* patch[j][w]: an _update_job of writer w: "thread" or "request"
    saved,     \* saved[j]: the questions of the job are in the bank
    importing, \* textImporting
    jobId,     \* textImportJobId, 0 for null
    interval,  \* the job that textImportPollRef polls, 0 for null
    key,       \* the item textImportJobId of localStorage
    cancelling,\* textImportCancelling
    asked,     \* the requests of the page that are under way
    faults,    \* faults so far
    told       \* history: told[j]: the outcomes the page reported of the job

sheet == <<importing, jobId, interval, key, cancelling>>
importVars == <<job, thread, patch, saved, sheet, asked, faults, told>>

Absent == [status |-> "none", cancel_requested |-> FALSE]
Idle == [stage |-> "idle", status |-> "", copy |-> Absent]

Init ==
    /\ job = [j \in Jobs |-> Absent]
    /\ thread = [j \in Jobs |-> [pc |-> "none", chunk |-> 0, some |-> FALSE]]
    /\ patch = [j \in Jobs |-> [w \in {"thread", "request"} |-> Idle]]
    /\ saved = [j \in Jobs |-> FALSE]
    /\ importing = FALSE
    /\ jobId = 0 /\ interval = 0 /\ key = 0
    /\ cancelling = FALSE
    /\ asked = {}
    /\ faults = 0
    /\ told = [j \in Jobs |-> {}]

(***************************************************************************)
(* The record of a job                                                     *)
(***************************************************************************)

(* _update_job begins: status is what it sets the status to; "cancel" sets
   cancel_requested, and "same" neither, yet it writes all the record. *)
Update(j, w, status) ==
    patch' = [patch EXCEPT ![j][w] = [stage |-> "read", status |-> status, copy |-> Absent]]

ReadJob(j, w) ==
    /\ patch[j][w].stage = "read"
    /\ patch' = [patch EXCEPT ![j][w] = IF job[j] = Absent THEN Idle
                                        ELSE [patch[j][w] EXCEPT !.stage = "write",
                                                                !.copy = job[j]]]
    /\ UNCHANGED <<job, thread, saved, sheet, asked, faults, told>>

(* Mutant: a cancellation is written to the status. *)
PatchedStatus(copy, status) ==
    IF status = "same" THEN copy ELSE [copy EXCEPT !.status = status]

(* The patch is applied to the record that was read. *)
Patched(copy, status) ==
    CASE status = "same" -> copy
      [] status = "cancel" -> [copy EXCEPT !.cancel_requested = TRUE]
      [] OTHER -> [copy EXCEPT !.status = status]

WriteJob(j, w) ==
    /\ patch[j][w].stage = "write"
    /\ job' = [job EXCEPT ![j] = Patched(patch[j][w].copy, patch[j][w].status)]
    /\ patch' = [patch EXCEPT ![j][w] = Idle]
    /\ UNCHANGED <<thread, saved, sheet, asked, faults, told>>

At(j, pc) == thread[j].pc = pc /\ patch[j]["thread"] = Idle
Go(j, pc) == thread' = [thread EXCEPT ![j].pc = pc]
Ended(j) == thread[j].pc \in {"over", "caught"}

(* An exception in an update, or in the thread: the thread goes on in the except clause,
   and an update that fails there, or in a request, is given up. *)
Throw(j, w) ==
    IF w = "thread" /\ thread[j].pc # "caught"
    THEN Go(j, "caught") /\ Update(j, "thread", "error")
    ELSE patch' = [patch EXCEPT ![j][w] = Idle] /\ UNCHANGED thread

Fault == faults < MaxFaults /\ faults' = faults + 1

(* The reading or the writing of an update fails; a write may have been done. *)
UpdateFails(j, w) ==
    /\ patch[j][w].stage \in {"read", "write"}
    /\ Fault
    /\ \/ UNCHANGED job
       \/ /\ patch[j][w].stage = "write"
          /\ job' = [job EXCEPT ![j] = Patched(patch[j][w].copy, patch[j][w].status)]
    /\ Throw(j, w)
    /\ UNCHANGED <<saved, sheet, asked, told>>

(* The record expires, when nobody has written it for long: a thread that is
   alive writes at every chunk. *)
Expire(j) ==
    /\ job[j] # Absent
    /\ Ended(j) /\ patch[j] = [w \in {"thread", "request"} |-> Idle]
    /\ job' = [job EXCEPT ![j] = Absent]
    /\ UNCHANGED <<thread, patch, saved, sheet, asked, faults, told>>

(***************************************************************************)
(* _run_text_import_job.  A step begins an update and goes on when it has  *)
(* been written.                                                           *)
(***************************************************************************)

kept == <<job, sheet, asked, faults, told>>

(* The head of the loop and the check after a chunk. *)
Check(j, pc, next) ==
    /\ At(j, pc)
    /\ IF job[j].cancel_requested
       THEN Go(j, "over") /\ Update(j, "thread", "cancelled")
       ELSE Go(j, next) /\ Update(j, "thread", "same")
    /\ UNCHANGED <<saved, kept>>

(* A chunk yields questions, or is skipped with a warning. *)
Generate(j) ==
    /\ At(j, "generate")
    /\ \E some \in BOOLEAN :
         thread' = [thread EXCEPT ![j] =
             [pc |-> IF some THEN "checkAgain" ELSE "next",
              chunk |-> @.chunk + 1, some |-> @.some \/ some]]
    /\ Update(j, "thread", "same")
    /\ UNCHANGED <<saved, kept>>

CheckAgain(j) ==
    /\ At(j, "checkAgain")
    /\ IF job[j].cancel_requested
       THEN Go(j, "over") /\ Update(j, "thread", "cancelled")
       ELSE Go(j, "next") /\ UNCHANGED patch
    /\ UNCHANGED <<saved, kept>>

NextChunk(j) ==
    /\ At(j, "next")
    /\ IF thread[j].chunk < Chunks
       THEN Go(j, "check") /\ UNCHANGED patch
       ELSE IF thread[j].some
            THEN Go(j, "save") /\ Update(j, "thread", "same")
            ELSE Go(j, "over") /\ Update(j, "thread", "error")
    /\ UNCHANGED <<saved, kept>>

(* A check of the cancellation fails, or the work on the answer of the model. *)
WorkFails(j) ==
    /\ \E pc \in {"check", "generate", "checkAgain"} : At(j, pc)
    /\ Fault
    /\ Throw(j, "thread")
    /\ UNCHANGED <<job, saved, sheet, asked, told>>

(* Mutant: the thread looks for a cancellation once more, after the commit. *)
SaveThenCheck(j) ==
    /\ At(j, "save")
    /\ \/ /\ saved' = [saved EXCEPT ![j] = TRUE]
          /\ Update(j, "thread", IF job[j].cancel_requested THEN "cancelled" ELSE "done")
          /\ Go(j, "over")
       \/ /\ \E stored \in BOOLEAN : saved' = [saved EXCEPT ![j] = stored]
          /\ Update(j, "thread", "error")
          /\ Go(j, "caught")
    /\ UNCHANGED kept

(* All questions in one transaction, or none.  An exception before the commit or at it, or
   from the closing of the session after it, ends in the except clause all the same. *)
Save(j) ==
    /\ At(j, "save")
    /\ \/ /\ saved' = [saved EXCEPT ![j] = TRUE]
          /\ Update(j, "thread", "done")
          /\ Go(j, "over")
       \/ /\ \E stored \in BOOLEAN : saved' = [saved EXCEPT ![j] = stored]
          /\ Update(j, "thread", "error")
          /\ Go(j, "caught")
    /\ UNCHANGED kept

(* The server restarts: its threads are gone, the records are not. *)
Crash ==
    /\ Fault
    /\ thread' = [j \in Jobs |-> IF thread[j].pc \in {"none", "caught"} THEN thread[j]
                                 ELSE [thread[j] EXCEPT !.pc = "over"]]
    /\ patch' = [j \in Jobs |-> [w \in {"thread", "request"} |-> Idle]]
    /\ UNCHANGED <<job, saved, sheet, asked, told>>

(***************************************************************************)
(* The requests of the page                                                *)
(***************************************************************************)

Ask(kind, j) == asked' = asked \cup {[kind |-> kind, job |-> j, reply |-> ""]}
Reply(r, reply) == asked' = (asked \ {r}) \cup {[r EXCEPT !.reply = reply]}

(* import_questions_from_text *)
ServeStart(r) ==
    /\ r.kind = "start" /\ r.reply = ""
    /\ \E j \in Jobs :
         /\ thread[j].pc = "none" /\ \A i \in Jobs : i < j => thread[i].pc # "none"
         /\ job' = [job EXCEPT ![j] = [status |-> "running", cancel_requested |-> FALSE]]
         /\ thread' = [thread EXCEPT ![j].pc = IF Chunks = 0 THEN "next" ELSE "check"]
         /\ asked' = (asked \ {r}) \cup {[r EXCEPT !.job = j, !.reply = "ok"]}
    /\ UNCHANGED <<patch, saved, sheet, faults, told>>

(* get_text_import_job, for a poll or for the look after a reload. *)
ServeGet(r) ==
    /\ r.kind \in {"poll", "peek"} /\ r.reply = ""
    /\ Reply(r, IF job[r.job] = Absent THEN "not ok" ELSE job[r.job].status)
    /\ UNCHANGED <<job, thread, patch, saved, sheet, faults, told>>

(* cancel_text_import_job; the page ignores when, and what, it answers. *)
ServeCancel(r) ==
    /\ r.kind = "cancel" /\ r.reply = ""
    /\ patch[r.job]["request"] = Idle
    /\ IF job[r.job].status = "running" THEN Update(r.job, "request", "cancel")
       ELSE UNCHANGED patch
    /\ Reply(r, "ok")
    /\ UNCHANGED <<job, thread, saved, sheet, faults, told>>

(* The record cannot be read or written: an error of the server, and no job is started.
   The page ignores what its cancellation is answered. *)
ServeFails(r) ==
    /\ r.reply = ""
    /\ Fault
    /\ Reply(r, "not ok")
    /\ UNCHANGED <<job, thread, patch, saved, sheet, told>>

(* The request or its answer is lost: the page gets an exception. *)
Lose(r) ==
    /\ r.reply # "lost"
    /\ Fault
    /\ Reply(r, "lost")
    /\ UNCHANGED <<job, thread, patch, saved, sheet, told>>

(***************************************************************************)
(* The sheet                                                               *)
(***************************************************************************)

(* The button Import. *)
StartImport ==
    /\ ~importing
    /\ \E j \in Jobs : thread[j].pc = "none"
    /\ \A r \in asked : r.kind # "start"
    /\ importing' = TRUE
    /\ Ask("start", 0)
    /\ UNCHANGED <<job, thread, patch, saved, jobId, interval, key, cancelling, faults, told>>

Started(r) ==
    /\ r.kind = "start" /\ r.reply # ""
    /\ IF r.reply = "ok"
       THEN jobId' = r.job /\ key' = r.job /\ interval' = r.job /\ UNCHANGED importing
       ELSE interval' = 0 /\ importing' = FALSE /\ UNCHANGED <<jobId, key>>
    /\ asked' = asked \ {r}
    /\ UNCHANGED <<job, thread, patch, saved, cancelling, faults, told>>

(* startPolling: another request every two seconds. *)
Tick ==
    /\ interval # 0
    /\ [kind |-> "poll", job |-> interval, reply |-> ""] \notin asked
    /\ Ask("poll", interval)
    /\ UNCHANGED <<job, thread, patch, saved, sheet, faults, told>>

(* Mutant: a poll that finds no job is taken for a hiccup. *)
PolledPatiently(r) ==
    /\ r.kind = "poll" /\ r.reply # ""
    /\ asked' = asked \ {r}
    /\ IF r.reply \in Final
       THEN /\ interval' = 0 /\ key' = 0 /\ jobId' = 0
            /\ importing' = FALSE
            /\ cancelling' = FALSE
            /\ told' = [told EXCEPT ![r.job] = @ \cup {r.reply}]
       ELSE UNCHANGED <<sheet, told>>
    /\ UNCHANGED <<job, thread, patch, saved, faults>>

(* An answer to a poll, of whatever job: a final status, or no job, ends the
   import of the page. *)
Polled(r) ==
    /\ r.kind = "poll" /\ r.reply # ""
    /\ asked' = asked \ {r}
    /\ IF r.reply \in Final \cup {"not ok"}
       THEN /\ interval' = 0 /\ key' = 0
            /\ jobId' = IF r.reply = "not ok" THEN jobId ELSE 0
            /\ importing' = FALSE
            /\ cancelling' = FALSE
            /\ told' = [told EXCEPT ![r.job] = @ \cup {r.reply}]
       ELSE UNCHANGED <<sheet, told>>
    /\ UNCHANGED <<job, thread, patch, saved, faults>>

(* The button Stop, and the answer to it. *)
Stop ==
    /\ importing /\ ~cancelling /\ jobId # 0
    /\ cancelling' = TRUE
    /\ Ask("cancel", jobId)
    /\ UNCHANGED <<job, thread, patch, saved, importing, jobId, interval, key, faults, told>>

Stopped(r) ==
    /\ r.kind = "cancel" /\ r.reply # ""
    /\ cancelling' = (cancelling /\ r.reply # "lost")
    /\ asked' = asked \ {r}
    /\ UNCHANGED <<job, thread, patch, saved, importing, jobId, interval, key, faults, told>>

(* The sheet is closed: nothing while a job runs in the background. *)
CloseSheet ==
    /\ ~importing
    /\ <<jobId, interval, cancelling>> # <<0, 0, FALSE>>
    /\ jobId' = 0 /\ interval' = 0 /\ cancelling' = FALSE
    /\ UNCHANGED <<job, thread, patch, saved, importing, key, asked, faults, told>>

(* The page is reloaded, or the access token renewed: the effect on the token
   looks for a job the storage remembers. *)
Peek(under) == asked' = under \cup (IF key = 0 THEN {}
                                    ELSE {[kind |-> "peek", job |-> key, reply |-> ""]})

Reload ==
    /\ Fault
    /\ \/ /\ importing' = FALSE /\ jobId' = 0 /\ interval' = 0 /\ cancelling' = FALSE
          /\ Peek({})
       \/ Peek(asked) /\ UNCHANGED <<importing, jobId, interval, cancelling>>
    /\ UNCHANGED <<job, thread, patch, saved, key, told>>

Peeked(r) ==
    /\ r.kind = "peek" /\ r.reply # ""
    /\ asked' = asked \ {r}
    /\ IF r.reply = "running"
       THEN jobId' = r.job /\ importing' = TRUE /\ interval' = r.job /\ UNCHANGED key
       ELSE key' = 0 /\ UNCHANGED <<jobId, importing, interval>>
    /\ UNCHANGED <<job, thread, patch, saved, cancelling, faults, told>>

Thread(j) ==
    \/ \E w \in {"thread", "request"} : ReadJob(j, w) \/ WriteJob(j, w)
    \/ Check(j, "check", "generate") \/ Generate(j) \/ CheckAgain(j)
    \/ NextChunk(j) \/ Save(j) \/ Expire(j)

Served(r) == ServeStart(r) \/ ServeGet(r) \/ ServeCancel(r)
Handled(r) == Started(r) \/ Polled(r) \/ Stopped(r) \/ Peeked(r)

System ==
    \/ Tick
    \/ \E j \in Jobs : Thread(j)
    \/ \E r \in asked : Served(r) \/ Handled(r)

Next ==
    \/ System
    \/ \E r \in asked : Lose(r) \/ ServeFails(r)
    \/ \E j \in Jobs : WorkFails(j) \/ \E w \in {"thread", "request"} : UpdateFails(j, w)
    \/ Crash \/ StartImport \/ Stop \/ CloseSheet \/ Reload

(* The clock, the server and the network go on: the threads, the ticks, and apart
   from each other the polls and the other requests, of which there are few. *)
Fairness ==
    /\ WF_importVars(\E j \in Jobs : Thread(j))
    /\ WF_importVars(Tick)
    /\ WF_importVars(\E r \in asked : r.kind = "poll" /\ Served(r))
    /\ WF_importVars(\E r \in asked : r.kind = "poll" /\ Handled(r))
    /\ WF_importVars(\E r \in asked : r.kind # "poll" /\ (Served(r) \/ Handled(r)))

Spec == Init /\ [][Next]_importVars /\ Fairness

(***************************************************************************)
(* Properties                                                              *)
(***************************************************************************)

(* The types of the variables. *)
TypeOK ==
    /\ job \in [Jobs -> [status : {"none", "running"} \cup Final, cancel_requested : BOOLEAN]]
    /\ \A j \in Jobs : thread[j].chunk \in 0..Chunks
    /\ saved \in [Jobs -> BOOLEAN]
    /\ {importing, cancelling} \subseteq BOOLEAN
    /\ {jobId, interval, key} \subseteq 0..MaxJobs
    /\ \A r \in asked : r.kind \in {"start", "poll", "peek", "cancel"}

(* What the page reports of a job is so, whatever is cancelled, overwritten, reloaded,
   answered late or fails: of a job it calls done the questions are in the bank, of one it
   calls cancelled none is, and of one it calls failed neither, unless the exception came
   after the commit. *)
ReportsAreTrue ==
    \A j \in Jobs : /\ "done" \in told[j] => saved[j]
                    /\ "cancelled" \in told[j] => ~saved[j]
                    /\ "error" \in told[j] /\ saved[j] => thread[j].pc = "caught"

(* The page does not import for ever, although a cancellation may be overwritten
   by the thread, the end of the job by a cancellation, and a restart leaves a job
   running that nobody works on: the record expires at last. *)
ImportsEnd == importing ~> ~importing

=============================================================================
