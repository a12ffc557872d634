---------------------------- MODULE WorkOrderEditor ----------------------------
(***************************************************************************)
(* The editor of a work order, src/frontend/app/(app)/work-orders/[id]/    *)
(* page.tsx, with the copy of the form it keeps in localStorage and the    *)
(* picker that links a release note to a service; the endpoints of         *)
(* src/backend/app/api/v1/endpoints/work_orders.py behind them; and the    *)
(* background tasks that push a work order to its file in git.             *)
(* A form stands for every field of a work order but the links.            *)
(*                                                                         *)
(* The page also has a branch for a conflict, which offers to reload or to *)
(* overwrite.  It is taken when the text of an error has "409" or          *)
(* "conflict" in it; update_work_order answers no 409, and the detail of   *)
(* the one that create_work_order answers, "Work order already exists.",   *)
(* has neither word, so that no answer leads there.                        *)
(***************************************************************************)
EXTENDS Integers, FiniteSets, FiniteSetsExt

CONSTANTS
    Forms,          \* what can be typed or imported
    Blank,          \* the form of a new work order before anything is typed
    Empty,          \* the form of a page whose work order never arrived
    MaxEvents,      \* bound: gestures, changes by others, losses, renewals
    MaxRequests,    \* bound: requests under way before another gesture
    MaxTasks        \* bound: tasks queued or running before another save

WorkOrderAssumption ==
    /\ Blank \notin Forms /\ Empty \notin Forms /\ Blank # Empty /\ Forms # {}
    /\ {MaxEvents, MaxRequests, MaxTasks} \subseteq Nat

VARIABLES
    isNew,      \* the page is /work-orders/new
    loading,
    form,       \* the fields as the page has them
    seen,       \* lastSavedMarkdown, Empty before there is one
    rowKnown,   \* service_db_id of the service the page shows, 0 for none
    linkShown,  \* its release_note_id is set
    banner,     \* localDraftBanner
    timer,      \* the timer that copies the form to localStorage
    picked,     \* pendingImportText, behind the dialog that asks
    saving,
    working,    \* syncWorking or prWorking
    draft,      \* localStorage: the copies under wo:draft:new and wo:draft:<id>
    stored,     \* the work order on the server, Empty before there is one
    raw,        \* its raw_markdown
    row,        \* the id of its row in work_order_services
    linked,     \* that row has a release_note_id
    status,     \* sync_status
    onSave,     \* the tenant's setting sync_on_save
    file,       \* the content of the file in git, and its sha
    tasks,      \* tasks of sync_work_order_to_git_task
    requests,   \* requests of the page under way
    crossed,    \* history: a task overlapped another task or a save
    doubt,      \* history: the page may have missed a change
    events      \* events so far

pageVars == <<isNew, loading, form, seen, rowKnown, linkShown, banner, timer, picked, saving,
              working>>
serverVars == <<stored, raw, row, linked, status, onSave>>
gitVars == <<file, tasks, crossed>>
workVars == <<pageVars, serverVars, gitVars, draft, requests, doubt, events>>

(* fresh: updatedAt is later than lastServerSavedAt; known: the page wrote the copy, or
   restored it; unsaved: it was not the saved form *)
NoDraft == [form |-> Empty, fresh |-> FALSE, known |-> TRUE, unsaved |-> FALSE]
Key == IF isNew THEN "new" ELSE "edit"
Event == events < MaxEvents /\ events' = events + 1
NextId(set) == 1 + Max({0} \cup {x.id : x \in set})
Request(op, content) ==
    [id |-> NextId(requests), op |-> op, content |-> content, raw |-> Empty, row |-> rowKnown,
     linked |-> ~linkShown, served |-> FALSE, ok |-> TRUE, mixed |-> FALSE, gone |-> FALSE,
     new |-> isNew]
Others(q) == requests \ {q}
(* A write on the server makes stale the answers that are on their way. *)
Mixed(set) == {[r EXCEPT !.mixed = @ \/ r.served] : r \in set}
Gone == {[r EXCEPT !.gone = TRUE] : r \in {q \in requests : ~q.served /\ q.op # "load"}}

(* Mutant: the copy of a new work order is not looked for, either. *)
MountedPlainly(new, waiting) ==
    /\ isNew' = new /\ loading' = ~new
    /\ form' = (IF new THEN Blank ELSE Empty) /\ seen' = Empty
    /\ rowKnown' = 0 /\ linkShown' = FALSE
    /\ picked' = Empty /\ saving' = FALSE /\ working' = FALSE
    /\ banner' = NoDraft
    /\ timer' = new
    /\ requests' = IF new THEN waiting ELSE
          waiting \cup {[Request("load", Empty) EXCEPT !.id = NextId(waiting), !.row = 0,
                                                       !.linked = FALSE, !.new = FALSE]}

(* The first render: a new work order is blank, another one is loaded. *)
Mounted(new, waiting) ==
    /\ isNew' = new /\ loading' = ~new
    /\ form' = (IF new THEN Blank ELSE Empty) /\ seen' = Empty
    /\ rowKnown' = 0 /\ linkShown' = FALSE
    /\ picked' = Empty /\ saving' = FALSE /\ working' = FALSE
    /\ banner' = (IF new THEN draft'["new"] ELSE NoDraft)
    /\ timer' = (new /\ draft'["new"] = NoDraft)
    /\ requests' = IF new THEN waiting ELSE
          waiting \cup {[Request("load", Empty) EXCEPT !.id = NextId(waiting), !.row = 0,
                                                       !.linked = FALSE, !.new = FALSE]}

Init ==
    /\ isNew \in BOOLEAN /\ onSave \in BOOLEAN
    /\ stored = (IF isNew THEN Empty ELSE CHOOSE f \in Forms : TRUE)
    /\ loading = FALSE /\ form = (IF isNew THEN Blank ELSE stored) /\ banner = NoDraft
    /\ seen = stored /\ raw = stored
    /\ row = (IF isNew THEN 0 ELSE 1) /\ rowKnown = row
    /\ linked \in {FALSE, ~isNew} /\ linkShown = linked
    /\ status = "pending" /\ file = [form |-> Empty, sha |-> 0] /\ tasks = {}
    /\ timer = TRUE /\ picked = Empty /\ saving = FALSE /\ working = FALSE
    /\ draft = [k \in {"new", "edit"} |-> NoDraft]
    /\ requests = {} /\ crossed = FALSE /\ doubt = FALSE /\ events = 0

(* The page is opened again: what it kept in memory is gone. *)
Reload ==
    /\ Event
    /\ draft' = [k \in {"new", "edit"} |-> IF draft[k] = NoDraft THEN NoDraft
                                           ELSE [draft[k] EXCEPT !.known = FALSE, !.fresh = TRUE]]
    /\ Mounted(isNew, Gone)
    /\ doubt' = FALSE
    /\ UNCHANGED <<serverVars, gitVars>>

(* A new access token runs the effect that loads once more. *)
TokenRenewed ==
    /\ Event
    /\ IF isNew
       THEN /\ form' = Blank /\ seen' = Empty /\ timer' = (banner = NoDraft)
            /\ UNCHANGED <<loading, requests>>
       ELSE /\ loading' = TRUE /\ timer' = FALSE
            /\ requests' = requests \cup {Request("load", Empty)}
            /\ UNCHANGED <<form, seen>>
    /\ UNCHANGED <<isNew, rowKnown, linkShown, banner, picked, saving, working, draft, serverVars,
                   gitVars, doubt>>

(***************************************************************************)
(* The form and its copy in localStorage                                   *)
(***************************************************************************)

(* Mutant: the timer runs under the question about the copy, too. *)
SetFormAnyway(f) ==
    /\ form' = f /\ timer' = TRUE
    /\ UNCHANGED <<isNew, loading, seen, rowKnown, linkShown, saving, working, serverVars,
                   gitVars, requests, doubt>>

SetForm(f) ==
    /\ form' = f /\ timer' = (banner' = NoDraft)
    /\ UNCHANGED <<isNew, loading, seen, rowKnown, linkShown, saving, working, serverVars,
                   gitVars, requests, doubt>>

(* A field is changed, or one of the assistants changes the body. *)
Edit(f) == Event /\ ~loading /\ f # form /\ UNCHANGED <<banner, picked, draft>> /\ SetForm(f)

(* startImportFile: what is not saved is not overwritten without a question. *)
Import(f) ==
    /\ Event /\ ~loading /\ ~saving /\ UNCHANGED <<banner, draft>>
    /\ IF form = seen THEN UNCHANGED picked /\ SetForm(f)
       ELSE picked' = f /\ UNCHANGED <<isNew, loading, form, seen, rowKnown, linkShown, timer,
                                       saving, working, serverVars, gitVars, requests, doubt>>

ConfirmImport ==
    /\ picked # Empty /\ ~loading
    /\ picked' = Empty /\ UNCHANGED <<banner, draft, events>> /\ SetForm(picked)

(* The timer has run for a second and a half. *)
TimerFires ==
    /\ timer
    /\ timer' = FALSE
    /\ draft' = [draft EXCEPT ![Key] = [form |-> form, fresh |-> TRUE, known |-> TRUE,
                                        unsaved |-> form # seen]]
    /\ UNCHANGED <<isNew, loading, form, seen, rowKnown, linkShown, banner, picked, saving,
                   working, serverVars, gitVars, requests, doubt, events>>

(* restoreLocalDraft *)
Restore ==
    /\ banner # NoDraft /\ ~loading
    /\ banner' = NoDraft /\ SetForm(banner.form)
    /\ draft' = [draft EXCEPT ![Key].known = TRUE]
    /\ UNCHANGED <<picked, events>>

(* discardLocalDraft *)
Discard ==
    /\ banner # NoDraft /\ ~loading
    /\ banner' = NoDraft /\ SetForm(form)
    /\ draft' = [draft EXCEPT ![Key] = NoDraft]
    /\ UNCHANGED <<picked, events>>

(***************************************************************************)
(* Requests of the page                                                    *)
(***************************************************************************)

Send(op, content) ==
    /\ Event /\ ~loading /\ Cardinality(requests) < MaxRequests
    /\ requests' = requests \cup {Request(op, content)}
    /\ UNCHANGED <<isNew, loading, form, seen, rowKnown, banner, timer, picked, draft, serverVars,
                   gitVars, doubt>>

(* save, from the button, which waits for the one before, or from the keyboard *)
ClickSave ==
    /\ form # Empty
    /\ Send("save", form) /\ saving' = TRUE /\ UNCHANGED <<linkShown, working>>

(* syncNow and createOrGetPr *)
ClickSync ==
    /\ ~working /\ ~saving /\ ~isNew /\ seen # Empty
    /\ Send("sync", Empty) /\ working' = TRUE /\ UNCHANGED <<linkShown, saving>>

(* handleLink and handleUnlink show the link first and then ask for it. *)
ClickLink ==
    /\ rowKnown # 0 /\ ~isNew /\ \A q \in requests : q.op # "link"
    /\ linkShown' = ~linkShown
    /\ Send("link", Empty) /\ UNCHANGED <<saving, working>>

NewTask(t) == tasks' = tasks \cup {[id |-> NextId(tasks), at |-> "queued", form |-> Empty,
                                    raw |-> Empty, status |-> t, sha |-> 0, ok |-> TRUE]}
Running == {t \in tasks : t.at # "queued"}

(* Mutant: a save leaves the status of the last push. *)
WriteQuietly(f) ==
    /\ stored' = f /\ raw' = f /\ UNCHANGED status
    /\ row' = row + 1 /\ linked' = FALSE
    /\ crossed' = (crossed \/ Running # {})
    /\ UNCHANGED <<onSave, file, tasks>>

(* A save by this page or by another; the rows of its services are new ones. *)
Write(f) ==
    /\ stored' = f /\ raw' = f /\ status' = "pending"
    /\ row' = row + 1 /\ linked' = FALSE
    /\ crossed' = (crossed \/ Running # {})
    /\ IF onSave THEN NewTask("pending") ELSE UNCHANGED tasks
    /\ UNCHANGED <<onSave, file>>

Answer(q, ok, content) ==
    IF q.gone THEN Others(q)
    ELSE Others(q) \cup {[q EXCEPT !.served = TRUE, !.ok = ok, !.content = content]}

(* create_work_order and update_work_order: no version is compared. *)
ServeSave(q) ==
    /\ q.op = "save" /\ ~q.served /\ Cardinality(tasks) < MaxTasks
    /\ LET ok == IF q.new THEN stored = Empty ELSE stored # Empty
       IN  IF ok THEN /\ Write(q.content)
                      /\ requests' = Mixed(Others(q))
                                      \cup (Answer(q, TRUE, q.content) \ Others(q))
                      /\ doubt' = (doubt \/ q.gone)
           ELSE requests' = Answer(q, FALSE, Empty) /\ UNCHANGED <<serverVars, gitVars, doubt>>
    /\ UNCHANGED <<pageVars, draft, events>>

(* get_work_order, and list_service_release_notes for the ids of its rows *)
ServeLoad(q) ==
    /\ q.op = "load" /\ ~q.served /\ stored # Empty
    /\ \E got \in {0, row} :
          requests' = Others(q) \cup {[q EXCEPT !.served = TRUE, !.row = got,
                                             !.content = stored, !.raw = raw,
                                             !.linked = linked /\ got # 0]}
    /\ UNCHANGED <<pageVars, serverVars, gitVars, draft, doubt, events>>

(* link_release_note_to_service: a row that was replaced is not found. *)
ServeLink(q) ==
    /\ q.op = "link" /\ ~q.served
    /\ linked' = IF q.row = row THEN q.linked ELSE linked
    /\ requests' = Mixed(Others(q)) \cup (Answer(q, q.row = row, q.content) \ Others(q))
    /\ UNCHANGED <<pageVars, stored, raw, row, status, onSave, gitVars, draft, doubt, events>>

(* sync_work_order; the request for a pull request pushes before it answers. *)
ServeSync(q) ==
    /\ q.op = "sync" /\ ~q.served /\ Cardinality(tasks) < MaxTasks
    /\ \E inline \in BOOLEAN :
          IF inline THEN UNCHANGED status /\ NewTask(status)
          ELSE status' = "pending" /\ NewTask("pending")
    /\ requests' = Answer(q, TRUE, Empty)
    /\ UNCHANGED <<pageVars, stored, raw, row, linked, onSave, file, crossed, draft, doubt,
                   events>>

Loaded(q) ==
    /\ q.op = "load" /\ q.served
    /\ form' = q.content /\ seen' = q.raw
    /\ rowKnown' = q.row /\ linkShown' = q.linked
    /\ loading' = FALSE /\ timer' = (banner = NoDraft)
    \* lastServerSavedAt is the time of this answer, after that of any copy
    /\ draft' = [draft EXCEPT !["edit"].fresh = FALSE]
    /\ doubt' = q.mixed
    /\ requests' = Others(q)
    /\ UNCHANGED <<isNew, banner, picked, saving, working, serverVars, gitVars, events>>

(* Mutant: what the page shows by now counts as saved. *)
SavedAsShown(q) ==
    /\ q.op = "save" /\ q.served /\ q.ok /\ ~q.new
    /\ seen' = form /\ saving' = FALSE
    /\ banner' = NoDraft /\ timer' = ((timer \/ banner # NoDraft) /\ ~loading)
    /\ draft' = [draft EXCEPT ![Key] = NoDraft]
    /\ doubt' = q.mixed
    /\ requests' = Others(q)
    /\ UNCHANGED <<isNew, loading, form, rowKnown, linkShown, picked, working, serverVars,
                   gitVars, events>>

Saved(q) ==
    /\ q.op = "save" /\ q.served /\ q.ok /\ ~q.new
    /\ seen' = q.content /\ saving' = FALSE
    /\ banner' = NoDraft /\ timer' = ((timer \/ banner # NoDraft) /\ ~loading)
    /\ draft' = [draft EXCEPT ![Key] = NoDraft]
    /\ doubt' = q.mixed
    /\ requests' = Others(q)
    /\ UNCHANGED <<isNew, loading, form, rowKnown, linkShown, picked, working, serverVars,
                   gitVars, events>>

(* The page of the work order that was created takes the place of this one. *)
Created(q) ==
    /\ q.op = "save" /\ q.served /\ q.ok /\ q.new
    /\ draft' = [draft EXCEPT !["new"] = NoDraft]
    /\ Mounted(FALSE, {r \in Others(q) : ~r.served /\ r.op # "load"})
    /\ doubt' = FALSE
    /\ UNCHANGED <<serverVars, gitVars, events>>

(* The other answers, and answers that are errors *)
Answered(q) ==
    /\ q.served /\ q.op # "load" /\ ~(q.op = "save" /\ q.ok)
    /\ saving' = (saving /\ q.op # "save") /\ working' = (working /\ q.op # "sync")
    /\ doubt' = (doubt \/ q.mixed)
    /\ requests' = Others(q)
    /\ UNCHANGED <<isNew, loading, form, seen, rowKnown, linkShown, banner, timer, picked, draft,
                   serverVars, gitVars, events>>

(* A request or its answer is lost; a load that fails leaves the form as it was, and
   a copy that is later than lastServerSavedAt is offered. *)
Lose(q) ==
    /\ Event /\ ~q.gone
    /\ saving' = (saving /\ q.op # "save") /\ working' = (working /\ q.op # "sync")
    /\ loading' = (loading /\ q.op # "load")
    /\ banner' = IF q.op = "load" /\ draft["edit"].fresh THEN draft["edit"] ELSE banner
    /\ timer' = IF q.op = "load" THEN banner' = NoDraft ELSE timer
    /\ doubt' = (doubt \/ q.op # "load")
    /\ requests' = Others(q)
    /\ UNCHANGED <<isNew, form, seen, rowKnown, linkShown, picked, draft, serverVars, gitVars>>

(* Another editor saves the same work order. *)
OtherSaves(f) ==
    /\ Event /\ stored # Empty /\ Cardinality(tasks) < MaxTasks
    /\ Write(f) /\ requests' = Mixed(requests) /\ doubt' = TRUE
    /\ UNCHANGED <<pageVars, draft>>

(***************************************************************************)
(* Pushing to git: sync_work_order_to_git                                  *)
(***************************************************************************)

Becomes(t, u) == tasks' = (tasks \ {t}) \cup {u}
GitStep == UNCHANGED <<pageVars, draft, requests, doubt, events>>

(* The row is read, the branch made, and the sha of the file fetched. *)
Begin(t) ==
    /\ t.at = "queued" /\ GitStep
    /\ Becomes(t, [t EXCEPT !.at = "read", !.form = stored, !.raw = raw, !.status = status,
                            !.sha = file.sha])
    /\ crossed' = (crossed \/ Running # {})
    /\ UNCHANGED <<serverVars, file>>

(* The file is replaced if it still has that sha. *)
Push(t) ==
    /\ t.at = "read" /\ GitStep
    /\ \E reachable \in BOOLEAN :
          LET ok == reachable /\ t.sha = file.sha
          IN  /\ Becomes(t, [t EXCEPT !.at = "pushed", !.ok = ok])
              /\ file' = IF ok THEN [form |-> t.form, sha |-> file.sha + 1] ELSE file
    /\ UNCHANGED <<serverVars, crossed>>

(* Only the columns whose values differ from those that were read are written. *)
Finish(t) ==
    /\ t.at = "pushed" /\ GitStep
    /\ LET result == IF t.ok THEN "synced" ELSE "failed"
       IN  status' = IF result # t.status THEN result ELSE status
    /\ raw' = IF t.ok /\ t.raw # t.form THEN t.form ELSE raw
    /\ tasks' = tasks \ {t}
    /\ UNCHANGED <<stored, row, linked, onSave, file, crossed>>

Next ==
    \/ Reload \/ TokenRenewed \/ ConfirmImport \/ TimerFires \/ Restore \/ Discard
    \/ \E f \in Forms : Edit(f) \/ Import(f) \/ OtherSaves(f)
    \/ ClickSave \/ ClickSync \/ ClickLink
    \/ \E q \in requests : \/ ServeSave(q) \/ ServeLoad(q) \/ ServeLink(q) \/ ServeSync(q)
                           \/ Loaded(q) \/ Saved(q) \/ Created(q) \/ Answered(q) \/ Lose(q)
    \/ \E t \in tasks : Begin(t) \/ Push(t) \/ Finish(t)

Spec == Init /\ [][Next]_workVars

(***************************************************************************)
(* Properties                                                              *)
(***************************************************************************)

(* The types of the variables. *)
TypeOK ==
    /\ {isNew, loading, linkShown, timer, saving, working, linked, onSave} \subseteq BOOLEAN
    /\ form \in Forms \cup {Blank, Empty} /\ seen \in Forms \cup {Blank, Empty}
    /\ {stored, raw} \subseteq Forms \cup {Blank, Empty} /\ rowKnown <= row
    /\ status \in {"pending", "synced", "failed"} /\ events \in 0..MaxEvents
    /\ \A t \in tasks : t.at \in {"queued", "read", "pushed"}

(* When nothing is under way, the label Saved is over what the server has. *)
SavedIsStored ==
    (requests = {} /\ ~doubt /\ ~isNew /\ ~loading /\ seen # Empty /\ form = seen)
        => stored = form

(* While a copy is offered, nothing takes its place in localStorage. *)
OfferedDraftStays == banner # NoDraft => draft[Key].form = banner.form

(* A work order whose status is synced has its fields in git, unless a push met
   another one or a save. *)
SyncedIsPushed == (status = "synced" /\ ~crossed) => file.form = stored

(* A page that was opened again offers the copy of what was not saved: "Draft found
   from ... Restore it or discard to keep the server copy." *)
DraftsAreOffered ==
    (~loading /\ draft[Key].unsaved /\ ~draft[Key].known /\ draft[Key].form # form)
        => banner.form = draft[Key].form

(* The same for a new work order. *)
NewDraftsAreOffered == isNew => DraftsAreOffered

=============================================================================
