-------------------------- MODULE ReleaseNoteEditor --------------------------
(***************************************************************************)
(* The editor of a release note, src/frontend/app/(app)/release-notes/[id]/*)
(* page.tsx with its rows: fields are saved as they are left, items are    *)
(* dragged, added, and deleted with five seconds to undo, all of it shown  *)
(* before the service of src/backend/app/services/release_note_service.py  *)
(* has answered.  Requests overtake each other and may fail; a failed save *)
(* loads the note again.                                                   *)
(***************************************************************************)
EXTENDS Integers, FiniteSets, FiniteSetsExt

CONSTANTS
    Titles,         \* what a field of an item may hold
    MaxItems,       \* bound: items ever created; two are there at first
    MaxGestures,    \* bound: edits, drags, additions and deletions
    MaxRequests,    \* bound: requests under way before another gesture
    MaxLost         \* bound: requests or answers lost

EditorAssumption ==
    /\ MaxItems \in Nat \ {0, 1} /\ {MaxGestures, MaxRequests, MaxLost} \subseteq Nat
    /\ Titles # {}

Items == 1..MaxItems
NoItem == [rows |-> 0, title |-> "none", order |-> 0]

VARIABLES
    note,       \* the items on the server; rows is 1 for those that exist
    items,      \* items of the page; rows counts how often an item is listed
    loading,    \* the loading screen is shown
    failed,     \* error: the page shows only that the load failed
    saveState,  \* the indicator
    undoRef,    \* the deletion Undo would take back, with its timer; 0 for null
    toast,      \* undoMessage is shown
    timers,     \* timers that run, or whose deletion is under way, with the item kept
    requests,   \* requests under way
    crashed,    \* the page has failed to render
    tally,      \* gestures, losses and identifiers of timers so far
    undone,     \* history: items whose deletion was taken back before it was sent
    doubt       \* history: the page was told too little or too late to be sure

pageVars == <<items, loading, failed, saveState, undoRef, toast, timers, crashed>>
editorVars == <<note, pageVars, requests, tally, undone, doubt>>

Shown == {i \in Items : items[i].rows > 0}
Stored == {i \in Items : note[i].rows > 0}

NextId(set) == 1 + Max({0} \cup {q.id : q \in set})
Ask(op) == [id |-> NextId(requests), op |-> op, item |-> 0, title |-> "none", timer |-> 0,
            orders |-> [i \in Items |-> -1], held |-> NoItem, answer |-> "none",
            note |-> [i \in Items |-> NoItem], mixed |-> requests # {}]

(* A request is sent; a load that is under way may miss what it does. *)
Sent(set, q) == {[r EXCEPT !.mixed = TRUE] : r \in set} \cup {q}

(* load, with its loading screen *)
StartLoad(set) ==
    /\ requests' = Sent(set, [Ask("load") EXCEPT !.mixed = set # {}])
    /\ loading' = TRUE
    /\ failed' = FALSE

(* A note with two items, whose editor loads. *)
Init ==
    /\ \E t \in Titles :
         note = [i \in Items |-> IF i <= 2 THEN [rows |-> 1, title |-> t, order |-> i - 1]
                                 ELSE NoItem]
    /\ items = [i \in Items |-> NoItem]
    /\ loading = TRUE
    /\ failed = FALSE
    /\ saveState = "idle"
    /\ undoRef = [item |-> 0, timer |-> 0]
    /\ toast = FALSE
    /\ timers = {}
    /\ requests = {[id |-> 1, op |-> "load", item |-> 0, title |-> "none", timer |-> 0,
                    orders |-> [i \in Items |-> -1], held |-> NoItem, answer |-> "none",
                    note |-> [i \in Items |-> NoItem], mixed |-> FALSE]}
    /\ crashed = FALSE
    /\ tally = [gestures |-> 0, lost |-> 0, timers |-> 0]
    /\ undone = {}
    /\ doubt = FALSE

(***************************************************************************)
(* The service, one request at a time                                      *)
(***************************************************************************)

(* create_item: "(max_order or -1) + 1", in which a highest index of 0 counts as none. *)
NextOrder ==
    LET highest == Max({-1} \cup {note[i].order : i \in Stored})
    IN  (IF highest = 0 THEN -1 ELSE highest) + 1

Answer(q, answer) == requests' = (requests \ {q}) \cup {[q EXCEPT !.answer = answer]}

(* update_item, delete_item, create_item, reorder_items, get_release_note *)
Serve(q) ==
    /\ q.answer = "none"
    /\ CASE q.op = "save" /\ q.item \in Stored ->
              note' = [note EXCEPT ![q.item].title = q.title] /\ Answer(q, "ok")
         [] q.op = "delete" /\ q.item \in Stored ->
              note' = [note EXCEPT ![q.item] = NoItem] /\ Answer(q, "ok")
         [] q.op \in {"save", "delete"} /\ q.item \notin Stored ->
              UNCHANGED note /\ Answer(q, "error")
         [] q.op = "add" ->
              /\ note' = [note EXCEPT ![q.item] =
                    [rows |-> 1, title |-> q.title, order |-> NextOrder]]
              /\ requests' = (requests \ {q}) \cup
                    {[q EXCEPT !.answer = "ok", !.held = note'[q.item]]}
         [] q.op = "reorder" ->
              /\ note' = [i \in Items |-> IF i \in Stored /\ q.orders[i] >= 0
                                          THEN [note[i] EXCEPT !.order = q.orders[i]]
                                          ELSE note[i]]
              /\ Answer(q, "ok")
         [] q.op = "load" ->
              /\ UNCHANGED note
              /\ requests' = (requests \ {q}) \cup {[q EXCEPT !.answer = "ok", !.note = note]}
    /\ UNCHANGED <<pageVars, tally, undone, doubt>>

(***************************************************************************)
(* Loading, saving, adding and dragging                                    *)
(***************************************************************************)

Gesture ==
    /\ ~loading /\ ~failed /\ ~crashed
    /\ tally.gestures < MaxGestures
    /\ Cardinality(requests) < MaxRequests

(* The answer of a load replaces the items, deleted ones that wait included. *)
Loaded(q) ==
    /\ items' = IF q.answer = "ok" THEN q.note ELSE items
    /\ loading' = FALSE
    /\ failed' = (failed \/ q.answer # "ok")
    /\ requests' = requests \ {q}
    /\ doubt' = (q.answer # "ok" \/ timers # {} \/ q.mixed)
    /\ UNCHANGED <<note, saveState, undoRef, toast, timers, crashed, tally, undone>>

Retry ==
    /\ failed /\ ~loading /\ ~crashed
    /\ StartLoad(requests)
    /\ UNCHANGED <<note, items, saveState, undoRef, toast, timers, crashed, tally, undone, doubt>>

(* saveField and changeType, as a row is left, with another value or the same. *)
SaveField(i) ==
    /\ Gesture /\ i \in Shown
    /\ \E title \in Titles :
         /\ items' = [items EXCEPT ![i].title = title]
         /\ requests' = Sent(requests, [Ask("save") EXCEPT !.item = i, !.title = title])
    /\ doubt' = (doubt \/ \E q \in requests : q.op = "save" /\ q.item = i)
    /\ saveState' = "saving"
    /\ tally' = [tally EXCEPT !.gestures = @ + 1]
    /\ UNCHANGED <<note, loading, failed, undoRef, toast, timers, crashed, undone>>

(* The page of a failed save loads; the other requests go on meanwhile. *)
Saved(q) ==
    /\ saveState' = IF q.answer = "ok" THEN "saved" ELSE "error"
    /\ IF q.answer = "ok" THEN requests' = requests \ {q} /\ UNCHANGED <<loading, failed>>
       ELSE StartLoad(requests \ {q})
    /\ UNCHANGED <<note, items, undoRef, toast, timers, crashed, tally, undone, doubt>>

(* handleAddConfirm of the row that adds; the new item comes from the answer. *)
AddItem ==
    /\ Gesture
    /\ ~ \E q \in requests : q.op = "add"
    /\ \E i \in Items, title \in Titles :
         /\ i \notin Stored \cup Shown /\ i > 2
         /\ \A q \in requests : q.item # i
         /\ \A t \in timers : t.item # i
         /\ requests' = Sent(requests, [Ask("add") EXCEPT !.item = i, !.title = title])
    /\ tally' = [tally EXCEPT !.gestures = @ + 1]
    /\ UNCHANGED <<note, pageVars, undone, doubt>>

Added(q) ==
    /\ requests' = requests \ {q}
    /\ IF q.answer = "ok"
       THEN items' = [items EXCEPT ![q.item] =
                         IF @.rows = 0 THEN q.held ELSE [@ EXCEPT !.rows = @ + 1]]
            /\ saveState' = "saved"
       ELSE UNCHANGED <<items, saveState>>
    /\ doubt' = (doubt \/ q.answer = "lost")
    /\ UNCHANGED <<note, loading, failed, undoRef, toast, timers, crashed, tally, undone>>

(* handleDragEnd: the indexes of the section are counted anew. *)
Drag(i, j) ==
    /\ Gesture /\ i # j /\ {i, j} \subseteq Shown
    /\ LET before(a, b) == items[a].order < items[b].order
                              \/ (items[a].order = items[b].order /\ a < b)
           place(a) == Cardinality({b \in Shown : before(b, a)})
           moved(a) == IF a = i THEN place(j)
                       ELSE IF place(i) < place(a) /\ place(a) <= place(j) THEN place(a) - 1
                       ELSE IF place(j) <= place(a) /\ place(a) < place(i) THEN place(a) + 1
                       ELSE place(a)
       IN  /\ items' = [a \in Items |-> IF a \in Shown
                                        THEN [items[a] EXCEPT !.order = moved(a)] ELSE items[a]]
           /\ requests' = Sent(requests, [Ask("reorder") EXCEPT !.orders =
                            [a \in Items |-> IF a \in Shown THEN moved(a) ELSE -1]])
    /\ doubt' = (doubt \/ timers # {} \/ \E q \in requests : q.op \in {"reorder", "add"})
    /\ tally' = [tally EXCEPT !.gestures = @ + 1]
    /\ UNCHANGED <<note, loading, failed, saveState, undoRef, toast, timers, crashed, undone>>

Reordered(q) ==
    /\ IF q.answer = "ok" THEN requests' = requests \ {q} /\ UNCHANGED <<loading, failed>>
       ELSE StartLoad(requests \ {q})
    /\ UNCHANGED <<note, items, saveState, undoRef, toast, timers, crashed, tally, undone, doubt>>

(***************************************************************************)
(* Deleting with undo                                                      *)
(***************************************************************************)

(* The row goes at once, a timer is set.  A deletion that still waits is sent,
   with its error ignored, and only the newest can be taken back. *)
Delete(i) ==
    /\ Gesture /\ i \in Shown
    /\ LET timer == tally.timers + 1
       IN  /\ timers' = {t \in timers : t.id # undoRef.timer \/ t.sent} \cup
                          {[id |-> timer, item |-> i, held |-> items[i], sent |-> FALSE]}
           /\ undoRef' = [item |-> i, timer |-> timer]
           /\ tally' = [tally EXCEPT !.gestures = @ + 1, !.timers = timer]
    /\ requests' = IF undoRef.item = 0 THEN requests
                   ELSE Sent(requests, [Ask("delete") EXCEPT !.item = undoRef.item])
    /\ items' = [items EXCEPT ![i] = NoItem]
    /\ toast' = TRUE
    /\ undone' = undone \ {i}
    /\ doubt' = (doubt \/ \E q \in requests : q.item = i)
    /\ UNCHANGED <<note, loading, failed, saveState, crashed>>

TimerFires(t) ==
    /\ ~t.sent
    /\ timers' = (timers \ {t}) \cup {[t EXCEPT !.sent = TRUE]}
    /\ requests' = Sent(requests,
         [Ask("delete") EXCEPT !.item = t.item, !.timer = t.id, !.held = t.held])
    /\ UNCHANGED <<note, items, loading, failed, saveState, undoRef, toast, crashed, tally, undone, doubt>>

Restored(i, held) ==
    [items EXCEPT ![i] = IF @.rows = 0 THEN [held EXCEPT !.rows = 1]
                         ELSE [@ EXCEPT !.rows = @ + 1]]

(* Mutant: a deletion that failed does not bring the row back. *)
DeletedForGood(q) ==
    /\ requests' = requests \ {q}
    /\ IF q.timer = 0 THEN UNCHANGED <<items, undoRef, toast, timers>>
       ELSE /\ UNCHANGED items
            /\ timers' = {t \in timers : t.id # q.timer}
            /\ undoRef' = [item |-> 0, timer |-> 0]
            /\ toast' = FALSE
    /\ doubt' = (doubt \/ (q.answer # "ok" /\ q.timer = 0) \/ q.answer = "lost"
                       \/ undoRef.timer # q.timer)
    /\ UNCHANGED <<note, loading, failed, saveState, crashed, tally, undone>>

(* The answer to the timer's deletion ends whatever deletion could be undone. *)
Deleted(q) ==
    /\ requests' = requests \ {q}
    /\ IF q.timer = 0 THEN UNCHANGED <<items, undoRef, toast, timers>>
       ELSE /\ items' = IF q.answer = "ok" THEN items ELSE Restored(q.item, q.held)
            /\ timers' = {t \in timers : t.id # q.timer}
            /\ undoRef' = [item |-> 0, timer |-> 0]
            /\ toast' = FALSE
    /\ doubt' = (doubt \/ (q.answer # "ok" /\ q.timer = 0) \/ q.answer = "lost"
                       \/ undoRef.timer # q.timer)
    /\ UNCHANGED <<note, loading, failed, saveState, crashed, tally, undone>>

(* History: the item of undoRef is deleted by something that Undo does not stop. *)
AlsoDeleted ==
    \/ \E q \in requests : q.op = "delete" /\ q.item = undoRef.item
    \/ \E t \in timers : t.item = undoRef.item /\ t.id # undoRef.timer

(* Mutant: the timer of the deletion runs on. *)
UndoKeepsTimer ==
    /\ toast /\ ~loading /\ ~failed /\ ~crashed /\ undoRef.item # 0
    /\ LET sent == \E t \in timers : t.id = undoRef.timer /\ t.sent
       IN  /\ \E t \in timers : t.id = undoRef.timer /\ items' = Restored(t.item, t.held)
           /\ UNCHANGED timers
           /\ undone' = IF AlsoDeleted THEN undone
                        ELSE undone \cup ({undoRef.item} \cap Stored)
           /\ doubt' = (doubt \/ sent)
    /\ undoRef' = [item |-> 0, timer |-> 0]
    /\ toast' = FALSE
    /\ UNCHANGED <<note, loading, failed, saveState, requests, crashed, tally>>

(* handleUndo.  The function it hands to setItems reads undoRef.current, which it
   clears: if React runs it only in the next render, the page fails to render. *)
Undo ==
    /\ toast /\ ~loading /\ ~failed /\ ~crashed /\ undoRef.item # 0
    /\ LET sent == \E t \in timers : t.id = undoRef.timer /\ t.sent
       IN  /\ \/ /\ \E t \in timers : t.id = undoRef.timer /\ items' = Restored(t.item, t.held)
                 /\ UNCHANGED crashed
              \/ crashed' = TRUE /\ UNCHANGED items
           /\ timers' = {t \in timers : t.id # undoRef.timer \/ t.sent}
           /\ undone' = IF AlsoDeleted THEN undone
                        ELSE undone \cup ({undoRef.item} \cap Stored)
           /\ doubt' = (doubt \/ sent)
    /\ undoRef' = [item |-> 0, timer |-> 0]
    /\ toast' = FALSE
    /\ UNCHANGED <<note, loading, failed, saveState, requests, tally>>

(* The user loads the page anew: timers and requests' answers are gone with it. *)
Reload ==
    /\ crashed
    /\ items' = [i \in Items |-> NoItem]
    /\ StartLoad({}) /\ saveState' = "idle" /\ crashed' = FALSE
    /\ undoRef' = [item |-> 0, timer |-> 0] /\ toast' = FALSE /\ timers' = {}
    /\ UNCHANGED <<note, tally, undone, doubt>>

Answered(q) ==
    /\ q.answer # "none" /\ ~crashed
    /\ CASE q.op = "load" -> Loaded(q)
         [] q.op = "save" -> Saved(q)
         [] q.op = "add" -> Added(q)
         [] q.op = "reorder" -> Reordered(q)
         [] q.op = "delete" -> Deleted(q)

(* A request fails before it did anything, or its answer is lost: an error to the
   page either way. *)
Lose(q) ==
    /\ tally.lost < MaxLost /\ q.answer \in {"none", "ok"}
    /\ Answer(q, IF q.answer = "none" THEN "failed" ELSE "lost")
    /\ tally' = [tally EXCEPT !.lost = @ + 1]
    /\ UNCHANGED <<note, pageVars, undone, doubt>>

Next ==
    \/ \E q \in requests : Serve(q) \/ Answered(q) \/ Lose(q)
    \/ \E i \in Items : SaveField(i) \/ Delete(i) \/ (\E j \in Items : Drag(i, j))
    \/ \E t \in timers : TimerFires(t)
    \/ AddItem \/ Undo \/ Reload \/ Retry

Spec == Init /\ [][Next]_editorVars

(***************************************************************************)
(* Properties                                                              *)
(***************************************************************************)

(* The types of the variables. *)
TypeOK ==
    /\ \A i \in Items : note[i].rows \in 0..1 /\ items[i].rows \in Nat
    /\ {loading, failed, toast, crashed, doubt} \subseteq BOOLEAN
    /\ saveState \in {"idle", "saving", "saved", "error"}
    /\ undoRef.item \in 0..MaxItems

(* A deletion taken back before it was sent is never carried out, whatever other
   deletions, loads, failures and crashes come between, until it is asked again;
   unless an earlier deletion of the item was forgotten with its timer running. *)
UndoneStays == undone \subseteq Stored

(* When nothing is under way, the editor lists each item of the note once, with
   its title and index, unless it was told too late or not at all. *)
QuietEditorIsCurrent ==
    requests = {} /\ timers = {} /\ ~crashed /\ ~failed /\ ~doubt => items = note

=============================================================================
