---------------------------- MODULE DeliveriesPage ----------------------------
(***************************************************************************)
(* The page on which a test is assigned to employees, src/frontend/app/    *)
(* (app)/assessments/deliveries/page.tsx.  Deliveries of the same test,    *)
(* window and limits are one row, a group, and a change of the group is a  *)
(* loop of requests, any of which may fail; the closing date is no part of *)
(* what makes a group.  Employees take the test meanwhile.  The service is *)
(* that of api/v1/endpoints/assessments.py, one request at a time.         *)
(***************************************************************************)
EXTENDS Integers, Sequences, FiniteSets, FiniteSetsExt, SequencesExt

CONSTANTS
    Employees,      \* who can be picked in the sheet, numbers
    InitialRows,    \* deliveries there are at first, one per employee of the set
    MaxRows,        \* bound: deliveries
    MaxGestures,    \* bound: dialogs opened, groups stopped, access tokens renewed
    MaxTurns,       \* bound: attempts, and rows that are expanded
    MaxHandlers,    \* bound: handlers under way before another gesture
    MaxLost         \* bound: requests that fail and answers that are lost

DeliveriesAssumption ==
    /\ Employees \subseteq Nat \ {0} /\ InitialRows \subseteq Employees
    /\ {MaxRows, MaxGestures, MaxTurns, MaxHandlers, MaxLost} \subseteq Nat
    /\ IsFiniteSet(Employees) /\ Cardinality(InitialRows) <= MaxRows

VARIABLES
    rows,       \* AssessmentDelivery: a sequence, the newest last; run is its attempt
    assigned,   \* history: how often each employee was picked in a sheet that was done
    wish,       \* history: the limits and the closing of each delivery as asked for last
    view,       \* deliveries: what the page shows of rows
    statuses,   \* attemptStatusMap, Unknown where it has no entry
    fetching,   \* fetchingRef: the ids that are not asked for again
    loading,    \* the loading screen is shown
    sheet,      \* createOpen, creating, selectedUserIds
    edit,       \* editGroup with the fields of the form; no ids when it is null
    saving,     \* the button of the edit sheet is disabled
    extend,     \* extendTarget, extendLoading, and the delivery of extendResult
    retake,     \* retakeTarget, retakeLoading
    handlers,   \* handlers under way, each waiting for one request
    tally,      \* gestures, turns, losses so far
    doubt,      \* history: the list was read too early, or a write failed and no list followed
    crossed,    \* history: a handler began beside another one or from an old list, or failed
    failed      \* history: a creation failed

pageVars == <<view, statuses, fetching, loading, sheet, edit, saving, extend, retake>>
deliveryVars == <<rows, assigned, wish, pageVars, handlers, tally, doubt, crossed, failed>>

Ids == 1..MaxRows
Limits(row) == [allowed |-> row.allowed, open |-> row.open, extra |-> row.extra]
Runs == {"not_started", "in_progress", "completed"}
Unknown == [run |-> "unknown", count |-> 0]
New(u) == [user |-> u, allowed |-> 1, open |-> TRUE, extra |-> 0, used |-> 0,
           run |-> "not_started"]
Listed == [i \in DOMAIN rows |-> [user |-> rows[i].user, allowed |-> rows[i].allowed,
                                  open |-> rows[i].open]]
Untouched(g, allowed, open) ==
    [ids |-> g, allowed |-> allowed, open |-> open, touched |-> {}]
NoEdit == Untouched({}, 0, FALSE)

(* groupKey, buildGroups: the limits, and not the closing date.  The list has the newest
   delivery first. *)
Group(i) == {j \in DOMAIN view : view[j].allowed = view[i].allowed}
Groups == {Group(i) : i \in DOMAIN view}
Rep(g) == Max(g)
NewestFirst(g) == {s \in SetToSeqs(g) : \A j, k \in DOMAIN s : j < k => s[j] > s[k]}

(* A handler and the request it waits for, Head(todo) *)
Handler(op, todo, arg) ==
    [id |-> 1 + Max({0} \cup {h.id : h \in handlers}), op |-> op, todo |-> todo, arg |-> arg,
     from |-> "none", answer |-> "none", view |-> << >>, mixed |-> FALSE, got |-> << >>]
Reload(h) == [h EXCEPT !.op = "reload", !.todo = <<0>>, !.answer = "none", !.from = h.op]
Load(h) == [Reload(h) EXCEPT !.op = "load"]
Others(h) == handlers \ {h}
Lists(h) == h.op \in {"load", "reload"}
Writes(h) == h.op \in {"create", "edit", "stop", "extend", "retake"}

(* fetchAttemptStatuses of the ids, unless they are known or were asked for, all at once:
   the answers come in any order. *)
Fetch(ids, set) ==
    LET new == {i \in ids : statuses[i] = Unknown /\ i \notin fetching}
    IN  /\ fetching' = fetching \cup new
        /\ IF new = {} THEN handlers' = set
           ELSE \E todo \in SetToSeqs(new) :
                    handlers' = set \cup {Handler("status", todo, NoEdit)}

Init ==
    /\ \E us \in SetToSeqs(InitialRows) : rows = [i \in DOMAIN us |-> New(us[i])]
    /\ assigned = [u \in Employees |-> 0]
    /\ wish = [i \in Ids |-> Limits(New(0))]
    /\ view = << >>
    /\ statuses = [i \in Ids |-> Unknown]
    /\ fetching = {}
    /\ loading = TRUE
    /\ sheet = [open |-> FALSE, creating |-> FALSE, users |-> {}]
    /\ edit = NoEdit /\ saving = FALSE
    /\ extend = [target |-> 0, loading |-> FALSE, result |-> 0]
    /\ retake = [target |-> 0, loading |-> FALSE]
    /\ handlers = {[id |-> 1, op |-> "load", todo |-> <<0>>, arg |-> NoEdit, from |-> "none",
                    answer |-> "none", view |-> << >>, mixed |-> FALSE, got |-> << >>]}
    /\ tally = [gestures |-> 0, turns |-> 0, lost |-> 0]
    /\ doubt = FALSE /\ crossed = FALSE /\ failed = FALSE

(***************************************************************************)
(* The service and the employees                                           *)
(***************************************************************************)

Served(h) == (Others(h) \cup {[h EXCEPT !.answer = "ok", !.view = Listed']})

(* A list that was read before a write is late. *)
Late(set) == {IF Lists(r) /\ r.answer = "ok" THEN [r EXCEPT !.mixed = TRUE] ELSE r : r \in set}

(* create_delivery, update_delivery, stop_delivery, extend_delivery_time, grant_retake *)
Written(h) ==
    LET i == Head(h.todo)
    IN  CASE h.op = "create" -> Append(rows, New(i))
          [] h.op = "edit" -> [rows EXCEPT ![i].allowed = h.arg.allowed, ![i].open = h.arg.open]
          [] h.op = "stop" -> [rows EXCEPT ![i].open = FALSE]
          [] h.op = "extend" -> IF rows[i].run # "in_progress" THEN rows
                                ELSE [rows EXCEPT ![i].extra = @ + 1]
          [] h.op = "retake" -> [rows EXCEPT ![i].allowed = @ + 1]
          [] OTHER -> rows

Serve(h) ==
    /\ h.answer = "none" /\ h.op # "status"
    /\ h.op = "create" => Len(rows) < MaxRows
    /\ rows' = Written(h)
    /\ handlers' = IF Writes(h) THEN Late(Served(h)) ELSE Served(h)
    /\ UNCHANGED <<assigned, wish, pageVars, tally, doubt, crossed, failed>>

(* What the page makes of the attempts at one test: completed as soon as one of
   them was handed in, even while another one is under way. *)
AttemptStatus(row) ==
    [run |-> IF row.used > 1 THEN "completed" ELSE row.run, count |-> row.used]

(* The requests for the results of the deliveries, each answered on its own *)
ServeStatus(h) ==
    /\ h.op = "status" /\ Len(h.got) < Len(h.todo)
    /\ LET i == h.todo[Len(h.got) + 1]
       IN  \/ /\ handlers' = Others(h) \cup
                   {[h EXCEPT !.got = Append(@, AttemptStatus(rows[i]))]}
              /\ UNCHANGED tally
           \/ /\ tally.lost < MaxLost
              /\ tally' = [tally EXCEPT !.lost = @ + 1]
              /\ handlers' = Others(h) \cup {[h EXCEPT !.got = Append(@, Unknown)]}
    /\ UNCHANGED <<rows, assigned, wish, pageVars, doubt, crossed, failed>>

(* An employee starts an attempt, or completes it. *)
Attempt(i) ==
    /\ i \in DOMAIN rows /\ tally.turns < MaxTurns
    /\ tally' = [tally EXCEPT !.turns = @ + 1]
    /\ rows' = IF rows[i].run = "in_progress" THEN [rows EXCEPT ![i].run = "completed"]
               ELSE [rows EXCEPT ![i].run = "in_progress", ![i].used = @ + 1]
    /\ rows[i].run # "in_progress" => rows[i].open /\ rows[i].used < rows[i].allowed
    /\ UNCHANGED <<assigned, wish, pageVars, handlers, doubt, crossed, failed>>

(* A request fails before it did anything, or its answer is lost. *)
Lose(h) ==
    /\ tally.lost < MaxLost /\ h.op # "status" /\ h.answer \in {"none", "ok"}
    /\ tally' = [tally EXCEPT !.lost = @ + 1]
    /\ handlers' = Others(h) \cup {[h EXCEPT !.answer = "error"]}
    /\ UNCHANGED <<rows, assigned, wish, pageVars, doubt, crossed, failed>>

(***************************************************************************)
(* Lists and statuses                                                      *)
(***************************************************************************)

Gesture == tally.gestures < MaxGestures /\ tally' = [tally EXCEPT !.gestures = @ + 1]

(* load and reloadDeliveries: the effect of a list asks for the statuses of the
   rows that hold one delivery to an employee. *)
Singles(shown) == {i \in DOMAIN shown : shown[i].user # 0 /\
                     \A j \in DOMAIN shown \ {i} : shown[j].allowed # shown[i].allowed}

ListAnswered(h) ==
    /\ Lists(h)
    /\ IF h.answer = "ok" THEN view' = h.view /\ Fetch(Singles(h.view), Others(h))
       ELSE UNCHANGED <<view, fetching>> /\ handlers' = Others(h)
    /\ loading' = (loading /\ h.op # "load")
    /\ sheet' = [sheet EXCEPT !.creating = @ /\ h.from # "create"]
    /\ saving' = (saving /\ h.from # "edit")
    /\ retake' = [retake EXCEPT !.loading = @ /\ h.from # "retake"]
    /\ doubt' = (h.answer # "ok" \/ h.mixed)
    /\ UNCHANGED <<rows, assigned, wish, statuses, edit, extend, tally, crossed, failed>>

(* The answers that came are kept; an id whose request failed stays in fetchingRef. *)
StatusesAnswered(h) ==
    /\ h.op = "status" /\ Len(h.got) = Len(h.todo)
    /\ LET known == {k \in DOMAIN h.got : h.got[k] # Unknown}
       IN  /\ fetching' = fetching \ {h.todo[k] : k \in known}
           /\ statuses' = [i \in Ids |-> IF \E k \in known : h.todo[k] = i
                           THEN h.got[CHOOSE k \in known : h.todo[k] = i] ELSE statuses[i]]
    /\ handlers' = Others(h)
    /\ UNCHANGED <<rows, assigned, wish, view, loading, sheet, edit, saving, extend, retake,
                   tally, doubt, crossed, failed>>

(* A new access token loads everything, with the loading screen. *)
Renew ==
    /\ ~loading /\ Gesture
    /\ loading' = TRUE
    /\ handlers' = handlers \cup {Handler("load", <<0>>, NoEdit)}
    /\ UNCHANGED <<rows, assigned, wish, view, statuses, fetching, sheet, edit, saving, extend,
                   retake, doubt, crossed, failed>>

(* toggleExpand *)
Expand(g) ==
    /\ ~loading /\ Cardinality(g) > 1 /\ tally.turns < MaxTurns
    /\ \E i \in g : statuses[i] = Unknown /\ i \notin fetching
    /\ tally' = [tally EXCEPT !.turns = @ + 1]
    /\ Fetch(g, handlers)
    /\ UNCHANGED <<rows, assigned, wish, view, statuses, loading, sheet, edit, saving, extend,
                   retake, doubt, crossed, failed>>

(***************************************************************************)
(* What the administrator does                                             *)
(***************************************************************************)

Free == ~loading /\ ~sheet.open /\ edit = NoEdit /\ extend.target = 0 /\ retake.target = 0

(* A click that starts a handler *)
Start(op, todo, arg) ==
    /\ Cardinality({h \in handlers : h.op # "status"}) < MaxHandlers
    /\ handlers' = handlers \cup {Handler(op, todo, arg)}

Beside == \E h \in handlers : Writes(h)

OpenSheet ==
    /\ Free /\ Gesture /\ ~sheet.creating
    /\ sheet' = [sheet EXCEPT !.open = TRUE, !.users = {}]
    /\ UNCHANGED <<rows, assigned, wish, view, statuses, fetching, loading, edit, saving,
                   extend, retake, handlers, doubt, crossed, failed>>

CloseSheet ==
    /\ ~loading /\ sheet.open /\ ~sheet.creating
    /\ sheet' = [sheet EXCEPT !.open = FALSE, !.users = {}]
    /\ UNCHANGED <<rows, assigned, wish, view, statuses, fetching, loading, edit, saving,
                   extend, retake, handlers, tally, doubt, crossed, failed>>

Pick(u) ==
    /\ ~loading /\ sheet.open
    /\ sheet' = [sheet EXCEPT !.users = IF u \in @ THEN @ \ {u} ELSE @ \cup {u}]
    /\ UNCHANGED <<rows, assigned, wish, view, statuses, fetching, loading, edit, saving,
                   extend, retake, handlers, tally, doubt, crossed, failed>>

(* createDeliveries, one request after the other, in the order of the clicks.  Nobody, 0,
   is the participant of a delivery that is open to all, or made when the employees could
   not be loaded. *)
ClickCreate ==
    /\ ~loading /\ sheet.open /\ ~sheet.creating
    /\ \E todo \in IF sheet.users = {} THEN {<<0>>} ELSE SetToSeqs(sheet.users) :
           Start("create", todo, Untouched(sheet.users, 0, FALSE))
    /\ sheet' = [sheet EXCEPT !.creating = TRUE]
    /\ UNCHANGED <<rows, assigned, wish, view, statuses, fetching, loading, edit, saving,
                   extend, retake, tally, doubt, crossed, failed>>

(* openEdit: the form shows the first delivery of the group. *)
OpenEdit(g) ==
    /\ Free /\ Gesture
    /\ edit' = Untouched(g, view[Rep(g)].allowed, view[Rep(g)].open)
    /\ crossed' = (crossed \/ doubt \/ Beside \/ (\E h \in handlers : Lists(h))
                   \/ \E i \in g : view[i].open # view[Rep(g)].open)
    /\ UNCHANGED <<rows, assigned, wish, view, statuses, fetching, loading, sheet, saving,
                   extend, retake, handlers, doubt, failed>>

EditForm(field) ==
    /\ ~loading /\ edit # NoEdit /\ field \notin edit.touched
    /\ edit' = IF field = "open" THEN [edit EXCEPT !.open = ~@, !.touched = @ \cup {"open"}]
               ELSE [edit EXCEPT !.allowed = 3, !.touched = @ \cup {"allowed"}]
    /\ UNCHANGED <<rows, assigned, wish, view, statuses, fetching, loading, sheet, saving,
                   extend, retake, handlers, tally, doubt, crossed, failed>>

CancelEdit ==
    /\ ~loading /\ edit # NoEdit /\ ~saving
    /\ edit' = NoEdit
    /\ UNCHANGED <<rows, assigned, wish, view, statuses, fetching, loading, sheet, saving,
                   extend, retake, handlers, tally, doubt, crossed, failed>>

(* saveEdit: every delivery of the group that was open when the form was. *)
SaveEdit ==
    /\ ~loading /\ edit # NoEdit /\ ~saving
    /\ \E todo \in NewestFirst(edit.ids) : Start("edit", todo, edit)
    /\ saving' = TRUE
    /\ wish' = [i \in Ids |-> IF i \notin edit.ids THEN wish[i] ELSE [wish[i] EXCEPT
                    !.allowed = IF "allowed" \in edit.touched THEN edit.allowed ELSE @,
                    !.open = IF "open" \in edit.touched THEN edit.open ELSE @]]
    /\ crossed' = (crossed \/ Beside)
    /\ UNCHANGED <<rows, assigned, view, statuses, fetching, loading, sheet, edit, extend,
                   retake, tally, doubt, failed>>

(* stopGroup, confirmed: nothing is disabled while it goes on. *)
Stop(g) ==
    /\ Free /\ Gesture /\ \E i \in g : view[i].open
    /\ \E todo \in NewestFirst(g) : Start("stop", todo, NoEdit)
    /\ wish' = [i \in Ids |-> IF i \in g THEN [wish[i] EXCEPT !.open = FALSE] ELSE wish[i]]
    /\ crossed' = (crossed \/ Beside)
    /\ UNCHANGED <<rows, assigned, pageVars, doubt, failed>>

(* The dialog of more time can be closed while its request is under way. *)
OpenExtend(i) ==
    /\ Free /\ Gesture /\ i \in DOMAIN view /\ statuses[i].run = "in_progress"
    /\ extend' = [extend EXCEPT !.target = i, !.result = 0]
    /\ UNCHANGED <<rows, assigned, wish, view, statuses, fetching, loading, sheet, edit,
                   saving, retake, handlers, doubt, crossed, failed>>

CloseExtend ==
    /\ ~loading /\ extend.target # 0
    /\ extend' = [extend EXCEPT !.target = 0, !.result = 0]
    /\ UNCHANGED <<rows, assigned, wish, view, statuses, fetching, loading, sheet, edit,
                   saving, retake, handlers, tally, doubt, crossed, failed>>

(* extendTime *)
ClickExtend ==
    /\ ~loading /\ extend.target # 0 /\ extend.result = 0 /\ ~extend.loading
    /\ Start("extend", <<extend.target>>, NoEdit)
    /\ extend' = [extend EXCEPT !.loading = TRUE]
    /\ wish' = [wish EXCEPT ![extend.target].extra = @ + 1]
    /\ UNCHANGED <<rows, assigned, view, statuses, fetching, loading, sheet, edit, saving,
                   retake, tally, doubt, crossed, failed>>

OpenRetake(i) ==
    /\ Free /\ Gesture /\ i \in DOMAIN view
    /\ statuses[i].run = "completed" \/
         (statuses[i] # Unknown /\ statuses[i].count >= view[i].allowed)
    /\ retake' = [retake EXCEPT !.target = i]
    /\ UNCHANGED <<rows, assigned, wish, view, statuses, fetching, loading, sheet, edit,
                   saving, extend, handlers, doubt, crossed, failed>>

CancelRetake ==
    /\ ~loading /\ retake.target # 0 /\ ~retake.loading
    /\ retake' = [retake EXCEPT !.target = 0]
    /\ UNCHANGED <<rows, assigned, wish, view, statuses, fetching, loading, sheet, edit,
                   saving, extend, handlers, tally, doubt, crossed, failed>>

(* grantRetake *)
ClickRetake ==
    /\ ~loading /\ retake.target # 0 /\ ~retake.loading
    /\ Start("retake", <<retake.target>>, NoEdit)
    /\ retake' = [retake EXCEPT !.loading = TRUE]
    /\ wish' = [wish EXCEPT ![retake.target].allowed = @ + 1]
    /\ crossed' = (crossed \/ Beside)
    /\ UNCHANGED <<rows, assigned, view, statuses, fetching, loading, sheet, edit, saving,
                   extend, tally, doubt, failed>>

(***************************************************************************)
(* How the handlers go on                                                  *)
(***************************************************************************)

(* The next delivery of the loop *)
NextRequest(h) ==
    /\ h.op \in {"create", "edit", "stop"} /\ h.answer = "ok" /\ Len(h.todo) > 1
    /\ handlers' = Others(h) \cup {[h EXCEPT !.todo = Tail(@), !.answer = "none"]}
    /\ UNCHANGED <<rows, assigned, wish, pageVars, tally, doubt, crossed, failed>>

(* Mutant: the first answer ends the loop. *)
EndsEarly(h) == h.answer \in {"error", "ok"}

Ends(h) == h.answer = "error" \/ (h.answer = "ok" /\ Len(h.todo) = 1)

(* A creation that fails leaves the sheet as it was, with those it has created for. *)
CreateEnds(h) ==
    /\ IF h.answer = "ok"
       THEN /\ sheet' = [sheet EXCEPT !.open = FALSE, !.users = {}]
            /\ loading' = TRUE
            /\ handlers' = Others(h) \cup {Load(h)}
            /\ assigned' = [u \in Employees |-> assigned[u] + IF u \in h.arg.ids THEN 1 ELSE 0]
            /\ UNCHANGED <<doubt, crossed, failed>>
       ELSE /\ sheet' = [sheet EXCEPT !.creating = FALSE]
            /\ handlers' = Others(h)
            /\ doubt' = TRUE /\ crossed' = TRUE /\ failed' = TRUE
            /\ UNCHANGED <<loading, assigned>>
    /\ UNCHANGED <<rows, wish, view, statuses, fetching, edit, saving, extend, retake, tally>>

(* A change that fails halfway leaves the sheet open and the list as it was. *)
EditEnds(h) ==
    /\ IF h.answer = "ok"
       THEN /\ edit' = NoEdit
            /\ handlers' = Others(h) \cup {Reload(h)}
            /\ UNCHANGED <<saving, doubt, crossed>>
       ELSE /\ saving' = FALSE /\ doubt' = TRUE /\ crossed' = TRUE
            /\ handlers' = Others(h)
            /\ UNCHANGED edit
    /\ UNCHANGED <<rows, assigned, wish, view, statuses, fetching, loading, sheet, extend,
                   retake, tally, failed>>

(* Mutant: the list is loaded only when every delivery was stopped. *)
StopEndsWell(h) ==
    /\ handlers' = IF h.answer = "ok" THEN Others(h) \cup {Reload(h)} ELSE Others(h)
    /\ crossed' = (crossed \/ h.answer = "error")
    /\ UNCHANGED <<rows, assigned, wish, pageVars, tally, doubt, failed>>

(* stopGroup alerts and loads the list even when a request failed. *)
StopEnds(h) ==
    /\ handlers' = Others(h) \cup {Reload(h)}
    /\ crossed' = (crossed \/ h.answer = "error")
    /\ UNCHANGED <<rows, assigned, wish, pageVars, tally, doubt, failed>>

(* The result is shown in whichever dialog is open by then. *)
ExtendEnds(h) ==
    /\ extend' = [extend EXCEPT !.loading = FALSE, !.result = Head(h.todo)]
    /\ handlers' = Others(h)
    /\ UNCHANGED <<rows, assigned, wish, view, statuses, fetching, loading, sheet, edit,
                   saving, retake, tally, doubt, crossed, failed>>

RetakeEnds(h) ==
    /\ IF h.answer = "ok"
       THEN /\ retake' = [retake EXCEPT !.target = 0]
            /\ handlers' = Others(h) \cup {Reload(h)}
            /\ UNCHANGED <<doubt, crossed>>
       ELSE /\ retake' = [retake EXCEPT !.loading = FALSE]
            /\ handlers' = Others(h)
            /\ doubt' = TRUE /\ crossed' = TRUE
    /\ UNCHANGED <<rows, assigned, wish, view, statuses, fetching, loading, sheet, edit,
                   saving, extend, tally, failed>>

Answered(h) ==
    /\ h.answer # "none"
    /\ \/ ListAnswered(h)
       \/ NextRequest(h)
       \/ Ends(h) /\ ( \/ h.op = "create" /\ CreateEnds(h)
                       \/ h.op = "edit" /\ EditEnds(h)
                       \/ h.op = "stop" /\ StopEnds(h)
                       \/ h.op = "extend" /\ ExtendEnds(h)
                       \/ h.op = "retake" /\ RetakeEnds(h))

Dialogs ==
    \/ OpenSheet \/ CloseSheet \/ ClickCreate
    \/ \E u \in Employees : Pick(u)
    \/ \E g \in Groups : OpenEdit(g) \/ Stop(g) \/ Expand(g)
    \/ \E field \in {"open", "allowed"} : EditForm(field)
    \/ CancelEdit \/ SaveEdit
    \/ \E i \in Ids : OpenExtend(i) \/ OpenRetake(i)
    \/ CloseExtend \/ ClickExtend \/ CancelRetake \/ ClickRetake

Next ==
    \/ \E h \in handlers : Serve(h) \/ ServeStatus(h) \/ Lose(h) \/ Answered(h)
                           \/ StatusesAnswered(h)
    \/ \E i \in Ids : Attempt(i)
    \/ Renew \/ Dialogs

Spec == Init /\ [][Next]_deliveryVars

(***************************************************************************)
(* Properties                                                              *)
(***************************************************************************)

(* The types of the variables. *)
TypeOK ==
    /\ DOMAIN rows \subseteq Ids
    /\ \A i \in DOMAIN rows :
          rows[i] \in [user : Employees \cup {0}, allowed : Nat \ {0}, open : BOOLEAN,
                      extra : Nat, used : Nat, run : Runs]
    /\ view \in [DOMAIN view -> [user : Employees \cup {0}, allowed : Nat \ {0},
                                open : BOOLEAN]]
    /\ DOMAIN view \subseteq DOMAIN rows
    /\ statuses \in [Ids -> [run : Runs \cup {"unknown"}, count : Nat]]
    /\ fetching \subseteq Ids /\ edit.ids \subseteq Ids /\ sheet.users \subseteq Employees
    /\ {loading, saving, doubt, crossed, failed} \subseteq BOOLEAN

(* Every employee has the deliveries of the sheets that were done, each once, unless a
   creation failed after some of its deliveries had been made. *)
AssignedOnce ==
    (~failed /\ ~\E h \in handlers : h.op = "create") => \A u \in Employees :
        Cardinality({i \in DOMAIN rows : rows[i].user = u})
            = assigned[u] + IF u \in InitialRows THEN 1 ELSE 0

(* The limits and the closing of every delivery are those asked for last, for each
   delivery of a group, unless handlers ran beside each other or failed. *)
DoneAsAsked ==
    (~crossed /\ ~\E h \in handlers : Writes(h)) =>
        \A i \in DOMAIN rows : /\ rows[i].allowed = wish[i].allowed
                              /\ rows[i].open = wish[i].open
                              /\ rows[i].extra <= wish[i].extra

(* When nothing is under way, the page lists the deliveries as they are and no button is
   disabled for good, unless a list came late or a change failed. *)
QuietPageIsCurrent ==
    handlers = {} =>
        /\ ~loading /\ ~sheet.creating /\ ~saving /\ ~extend.loading /\ ~retake.loading
        /\ ~doubt => view = Listed

=============================================================================
