---------------------------- MODULE DeploymentRuns ----------------------------
(***************************************************************************)
(* The deployment runs of a platform release for one data center and       *)
(* environment: src/backend/app/services/deployment_run_service.py, whose  *)
(* requests read rows, decide and commit without a lock, and the tab of    *)
(* src/frontend/components/deployment-runs/, which follows every request   *)
(* by a reload that takes the card and its dialogs off the screen.  Other  *)
(* users act on the same runs.                                             *)
(***************************************************************************)
EXTENDS Integers, FiniteSets, FiniteSetsExt

CONSTANTS
    Steps,          \* deploy_steps_snapshot: the steps of the checklist
    MaxRuns,        \* bound: runs ever started
    MaxGestures,    \* bound: requests the user of the tab causes
    MaxRequests,    \* bound: requests of the tab under way at once
    MaxOthers,      \* bound: requests of other users
    MaxLost         \* bound: requests or answers lost

RunsAssumption ==
    {MaxRuns, MaxGestures, MaxRequests, MaxOthers, MaxLost} \subseteq Nat

Runs == 1..MaxRuns      \* in the order of started_at

VARIABLES
    serial,     \* the service happens to finish one request before the next
    runs,       \* the rows of the runs with their items
    release,    \* status of the platform release
    record,     \* WODCDeployment of a work order of the release for the data center
    shown,      \* runs of the tab, as last loaded
    loading,    \* the tab shows only that it loads
    confirming, \* confirmComplete of the card
    noting,     \* the step whose note is being written, with its pendingStatus
    busy,       \* the requests that keep a button of the mounted card disabled
    requests,   \* requests of the tab that are under way
    loads,      \* loads of the tab that are under way
    spent,      \* gestures, requests of others, losses so far
    doubt       \* history: the tab was not told of a change, or took late answers

tabVars == <<shown, loading, confirming, noting, busy, requests, loads>>
runVars == <<serial, runs, release, record, tabVars, spent, doubt>>

NoRun == [status |-> "none", items |-> [s \in Steps |-> "pending"],
          reopened |-> FALSE, forced |-> FALSE]
NoNote == [step |-> 0, status |-> "none"]

Active(r) == runs[r].status = "in_progress"
Pending(items) == {s \in Steps : items[s] \in {"pending", "in_progress"}}
Blocked(items) == {s \in Steps : items[s] = "blocked"}
Unresolved(items) == {s \in Steps : items[s] \in {"blocked", "postponed"}}

(* An operation a user asks for, before the service has seen anything of it. *)
Unseen == [release |-> "none", active |-> FALSE, run |-> NoRun]
Ask(op, r) == [id |-> 0, op |-> op, run |-> r, step |-> 0, status |-> "none",
               force |-> FALSE, stage |-> "sent", seen |-> Unseen]
Update(r, s, v) == [Ask("update", r) EXCEPT !.step = s, !.status = v]
Updates(r) == {Update(r, s, v) : s \in Steps,
                                 v \in {"pending", "in_progress", "done", "blocked", "postponed"}}

NextId(set) == 1 + Max({0} \cup {q.id : q \in set})
Load == [id |-> NextId(loads), stage |-> "list", rows |-> [r \in Runs |-> NoRun],
         todo |-> {}]

(* A release approved by the board; the tab is mounted and loads. *)
Init ==
    /\ serial \in BOOLEAN
    /\ runs = [r \in Runs |-> NoRun]
    /\ release = "cab_approved"
    /\ record = "none"
    /\ shown = [r \in Runs |-> NoRun]
    /\ loading = TRUE
    /\ confirming = FALSE
    /\ noting = NoNote
    /\ busy = {}
    /\ requests = {}
    /\ loads = {[id |-> 1, stage |-> "list", rows |-> [r \in Runs |-> NoRun], todo |-> {}]}
    /\ spent = [gestures |-> 0, others |-> 0, lost |-> 0]
    /\ doubt = FALSE

(***************************************************************************)
(* The service                                                             *)
(***************************************************************************)

(* What a request reads before it decides. *)
Seen(q) == [release |-> release, active |-> \E r \in Runs : Active(r),
            run |-> IF q.run = 0 THEN NoRun ELSE runs[q.run]]

(* Mutant: an active run does not keep another one from being started. *)
AcceptedAnyStart(q, seen) ==
    CASE q.op = "start" -> TRUE
      [] q.op = "complete" -> /\ seen.run.status = "in_progress"
                              /\ Pending(seen.run.items) = {} \/ q.force
      [] q.op = "reopen" -> seen.run.status \in {"completed", "partial"}
      [] OTHER -> seen.run.status = "in_progress"

(* The conditions under which a request is refused, in the eyes of the request. *)
Accepted(q, seen) ==
    CASE q.op = "start" -> ~seen.active
      [] q.op = "complete" -> /\ seen.run.status = "in_progress"
                              /\ Pending(seen.run.items) = {} \/ q.force
      [] q.op = "reopen" -> seen.run.status \in {"completed", "partial"}
      [] OTHER -> seen.run.status = "in_progress"

(* start_run: the run with its checklist; the release is being deployed. *)
StartRun(seen) ==
    /\ \E r \in Runs :
         /\ runs[r].status = "none" /\ \A s \in Runs : runs[s].status = "none" => r <= s
         /\ runs' = [runs EXCEPT ![r].status = "in_progress"]
    /\ release' = IF seen.release = "cab_approved" THEN "deploying" ELSE release
    /\ UNCHANGED record

(* update_item, mark_all_done: only what differs from what was read is written. *)
WriteItems(q, seen) ==
    /\ runs' = [runs EXCEPT ![q.run].items = [s \in Steps |->
         CASE q.op = "update" /\ s = q.step /\ q.status # seen.run.items[s] -> q.status
           [] q.op = "all" /\ seen.run.items[s] = "pending" -> "done"
           [] OTHER -> @[s]]]
    /\ UNCHANGED <<release, record>>

(* Mutant: the steps that are put off do not count. *)
CompleteRunBlockedOnly(q, seen) ==
    LET blocked == Blocked(seen.run.items) # {}
    IN  /\ runs' = [runs EXCEPT ![q.run].status = IF blocked THEN "partial" ELSE "completed",
                                ![q.run].forced = q.force]
        /\ record' = IF blocked THEN "partial" ELSE "deployed"
        /\ release' = IF seen.release = "deploying" /\ ~blocked THEN "deployed" ELSE release

(* Mutant: the record of the work order does not follow the run. *)
CompleteRunAsDeployed(q, seen) ==
    LET blocked == Unresolved(seen.run.items) # {}
    IN  /\ runs' = [runs EXCEPT ![q.run].status = IF blocked THEN "partial" ELSE "completed",
                                ![q.run].forced = q.force]
        /\ record' = "deployed"
        /\ release' = IF seen.release = "deploying" THEN "deployed" ELSE release

(* complete_run, with the records of the release's work orders and its status. *)
CompleteRun(q, seen) ==
    LET blocked == Unresolved(seen.run.items) # {}
    IN  /\ runs' = [runs EXCEPT ![q.run].status = IF blocked THEN "partial" ELSE "completed",
                                ![q.run].forced = q.force]
        /\ record' = IF blocked THEN "partial" ELSE "deployed"
        /\ release' = IF seen.release = "deploying" /\ ~blocked THEN "deployed" ELSE release

(* reopen_run, abort_run *)
ReopenRun(q) ==
    /\ runs' = [runs EXCEPT ![q.run].status = "in_progress", ![q.run].reopened = TRUE]
    /\ UNCHANGED <<release, record>>

AbortRun(q) ==
    /\ runs' = [runs EXCEPT ![q.run].status = "aborted"]
    /\ UNCHANGED <<release, record>>

Apply(q, seen) ==
    CASE q.op = "start" -> StartRun(seen)
      [] q.op = "complete" -> CompleteRun(q, seen)
      [] q.op = "reopen" -> ReopenRun(q)
      [] q.op = "abort" -> AbortRun(q)
      [] OTHER -> WriteItems(q, seen)

CanStart == \E r \in Runs : runs[r].status = "none"

(* A request reads; it is refused, or goes on to commit. *)
Read(q) ==
    /\ q.stage = "sent"
    /\ requests' = (requests \ {q}) \cup
         {IF Accepted(q, Seen(q)) THEN [q EXCEPT !.stage = "read", !.seen = Seen(q)]
          ELSE [q EXCEPT !.stage = "refused"]}
    /\ UNCHANGED <<serial, runs, release, record, shown, loading, confirming, noting, busy,
                   loads, spent, doubt>>

Commit(q) ==
    /\ IF serial THEN q.stage = "sent" /\ Accepted(q, Seen(q)) ELSE q.stage = "read"
    /\ q.op = "start" => CanStart
    /\ Apply(q, IF serial THEN Seen(q) ELSE q.seen)
    /\ requests' = (requests \ {q}) \cup {[q EXCEPT !.stage = "done", !.seen = Unseen]}
    /\ UNCHANGED <<serial, shown, loading, confirming, noting, busy, loads, spent, doubt>>

Serve(q) == ((serial => ~Accepted(q, Seen(q))) /\ Read(q)) \/ Commit(q)

(* A request of another user, who sees the runs as they are or were. *)
OtherUser ==
    /\ spent.others < MaxOthers
    /\ \E q \in {Ask("start", 0)} \cup
               UNION {{Ask(op, r) : op \in {"all", "complete", "reopen", "abort"}} \cup Updates(r)
                      \cup {[Ask("complete", r) EXCEPT !.force = TRUE]} :
                      r \in {r \in Runs : runs[r].status # "none"}} :
         /\ Accepted(q, Seen(q))
         /\ q.op = "start" => CanStart
         /\ Apply(q, Seen(q))
    /\ spent' = [spent EXCEPT !.others = @ + 1]
    /\ doubt' = TRUE
    /\ UNCHANGED <<serial, tabVars>>

(***************************************************************************)
(* The tab                                                                 *)
(***************************************************************************)

(* activeRun is the newest of the active runs; an older one is neither in the
   card nor among the past runs. *)
ShownActive == {r \in Runs : shown[r].status = "in_progress"}
Card == IF ShownActive = {} THEN 0 ELSE Max(ShownActive)
Past == {r \in Runs : shown[r].status \in {"completed", "partial", "aborted"}}

(* A handler of the tab sends its request; its button is disabled meanwhile. *)
Send(q) ==
    /\ ~loading
    /\ spent.gestures < MaxGestures
    /\ Cardinality(requests) < MaxRequests
    /\ ~ \E b \in busy : b.op = q.op /\ b.step = q.step
    /\ LET id == NextId(requests)
       IN  /\ requests' = requests \cup {[q EXCEPT !.id = id]}
           /\ busy' = busy \cup {[id |-> id, op |-> q.op, step |-> q.step]}
    /\ spent' = [spent EXCEPT !.gestures = @ + 1]
    /\ UNCHANGED <<serial, runs, release, record, shown, loading, loads, doubt>>

(* The buttons Start Deployment Run, when no run is active, and Re-open. *)
Start == Card = 0 /\ Send(Ask("start", 0)) /\ UNCHANGED <<confirming, noting>>

Reopen ==
    /\ \E r \in Past : shown[r].status # "aborted" /\ Send(Ask("reopen", r))
    /\ UNCHANGED <<confirming, noting>>

(* Mark All Done, and Abort with its two prompts *)
MarkAllDone ==
    /\ Card # 0 /\ Pending(shown[Card].items) # {}
    /\ Send(Ask("all", Card))
    /\ UNCHANGED <<confirming, noting>>

Abort == Card # 0 /\ Send(Ask("abort", Card)) /\ UNCHANGED <<confirming, noting>>

(* Complete Deployment: with blocked steps, the first click only asks. *)
Complete ==
    /\ ~loading /\ Card # 0
    /\ Pending(shown[Card].items) = {} \/ confirming
    /\ IF Blocked(shown[Card].items) # {} /\ ~confirming
       THEN /\ confirming' = TRUE
            /\ ~ \E b \in busy : b.op = "complete"
            /\ UNCHANGED <<serial, runs, release, record, shown, loading, noting, busy,
                           requests, loads, spent, doubt>>
       ELSE /\ Send([Ask("complete", Card) EXCEPT !.force = confirming])
            /\ UNCHANGED <<confirming, noting>>

(* The buttons of a step; blocked and postponed ask for a note first. *)
MarkStep(s) ==
    /\ ~loading /\ Card # 0
    /\ \E v \in {"pending", "in_progress", "done", "blocked", "postponed"} :
         /\ shown[Card].items[s] # v
         /\ v = "in_progress" => shown[Card].items[s] = "pending"
         /\ IF v \in {"blocked", "postponed"}
            THEN /\ noting = NoNote
                 /\ noting' = [step |-> s, status |-> v]
                 /\ UNCHANGED <<serial, runs, release, record, shown, loading, busy,
                                requests, loads, spent, doubt>>
            ELSE /\ Send(Update(Card, s, v))
                 /\ UNCHANGED noting
    /\ UNCHANGED confirming

SubmitNote ==
    /\ noting # NoNote /\ Card # 0
    /\ Send(Update(Card, noting.step, noting.status))
    /\ noting' = NoNote
    /\ UNCHANGED confirming

(* Mutant: the handler takes the run as read and does not load it again. *)
AnsweredNoReload(q) ==
    /\ q.stage \in {"done", "refused", "lost"}
    /\ requests' = requests \ {q}
    /\ busy' = {b \in busy : b.id # q.id}
    /\ doubt' = (doubt \/ q.stage = "lost")
    /\ UNCHANGED <<loads, loading, confirming, noting, serial, runs, release, record, shown,
                   spent>>

(* loadRuns takes the card off the screen, and its state with it. *)
Answered(q) ==
    /\ q.stage \in {"done", "refused", "lost"}
    /\ requests' = requests \ {q}
    /\ IF q.stage = "done"
       THEN /\ loads' = loads \cup {Load}
            /\ loading' = TRUE
            /\ confirming' = FALSE /\ noting' = NoNote /\ busy' = {}
            /\ doubt' = (doubt \/ loads # {})
       ELSE /\ busy' = {b \in busy : b.id # q.id}
            /\ doubt' = (doubt \/ q.stage = "lost")
            /\ UNCHANGED <<loads, loading, confirming, noting>>
    /\ UNCHANGED <<serial, runs, release, record, shown, spent>>

(* A load lists the runs, then gets each active one with its items. *)
ServeLoad(l) ==
    /\ \/ /\ l.stage = "list"
          /\ loads' = (loads \ {l}) \cup
               {[l EXCEPT !.stage = "detail", !.rows = runs, !.todo = {r \in Runs : Active(r)}]}
       \/ /\ l.stage = "detail"
          /\ \E r \in l.todo :
               loads' = (loads \ {l}) \cup {[l EXCEPT !.todo = @ \ {r}, !.rows[r] = runs[r]]}
    /\ UNCHANGED <<serial, runs, release, record, shown, loading, confirming, noting, busy,
                   requests, spent, doubt>>

Loaded(l) ==
    /\ \/ l.stage = "detail" /\ l.todo = {} /\ shown' = l.rows
       \/ l.stage = "lost" /\ UNCHANGED shown
    /\ loads' = loads \ {l}
    /\ loading' = FALSE
    /\ UNCHANGED <<serial, runs, release, record, confirming, noting, busy, requests, spent,
                   doubt>>

(* A request or its answer is lost; the tab is not told what became of it. *)
Lose ==
    /\ spent.lost < MaxLost
    /\ spent' = [spent EXCEPT !.lost = @ + 1]
    /\ \/ /\ \E q \in requests : q.stage \in {"sent", "done"} /\
               requests' = (requests \ {q}) \cup {[q EXCEPT !.stage = "lost"]}
          /\ UNCHANGED loads
       \/ /\ \E l \in loads : loads' = (loads \ {l}) \cup {[l EXCEPT !.stage = "lost"]}
          /\ UNCHANGED requests
    /\ doubt' = TRUE
    /\ UNCHANGED <<serial, runs, release, record, shown, loading, confirming, noting, busy>>

Next ==
    \/ \E q \in requests : Serve(q) \/ Answered(q)
    \/ OtherUser
    \/ Start \/ Reopen \/ MarkAllDone \/ Abort \/ Complete \/ SubmitNote
    \/ \E s \in Steps : MarkStep(s)
    \/ \E l \in loads : ServeLoad(l) \/ Loaded(l)
    \/ Lose

Spec == Init /\ [][Next]_runVars

(***************************************************************************)
(* Properties                                                              *)
(***************************************************************************)

(* The types of the variables. *)
TypeOK ==
    /\ serial \in BOOLEAN /\ loading \in BOOLEAN /\ confirming \in BOOLEAN
    /\ \A r \in Runs : runs[r].status \in {"none", "in_progress", "completed", "partial", "aborted"}
    /\ release \in {"cab_approved", "deploying", "deployed"}
    /\ record \in {"none", "deployed", "partial"}
    /\ Cardinality(requests) <= MaxRequests

(* "Enforce one active run per release+DC+ENV", as the comment of start_run has
   it: broken by two starts that overlap, and by the re-opening of an old run. *)
OneActiveRun == Cardinality({r \in Runs : Active(r)}) <= 1

(* Without overlap, only the re-opening of a run makes a second one active. *)
OneActiveUnlessReopened ==
    serial => Cardinality({r \in Runs : Active(r) /\ ~runs[r].reopened}) <= 1

(* Without overlap, the verdict on a closed run agrees with its checklist: it is
   completed exactly if no step was blocked or put off, and steps were left
   pending only where the completion was forced. *)
ClosedRunsAreTrue ==
    serial => \A r \in Runs : runs[r].status \in {"completed", "partial"} =>
        /\ runs[r].status = "completed" <=> Unresolved(runs[r].items) = {}
        /\ Pending(runs[r].items) # {} => runs[r].forced

(* Without overlap, what the release and its work orders are recorded as comes
   from a run that had this verdict, unless the run was re-opened since. *)
RecordsFollowRuns ==
    serial =>
        /\ release = "deployed" \/ record = "deployed" =>
             \E r \in Runs : runs[r].status = "completed" \/ runs[r].reopened
        /\ record = "partial" =>
             \E r \in Runs : runs[r].status = "partial" \/ runs[r].reopened

(* When nothing is under way, and no other user, lost answer or overlapping load
   put the tab in doubt, it shows the runs as they are. *)
QuietTabIsCurrent == requests = {} /\ loads = {} /\ ~doubt => shown = runs

=============================================================================
