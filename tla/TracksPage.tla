------------------------------ MODULE TracksPage ------------------------------
(***************************************************************************)
(* The list of onboarding tracks, src/frontend/app/(app)/tracks/page.tsx,  *)
(* over the endpoints of tracks.py: tracks are switched off and on, deleted,*)
(* or deleted with all their assignments after a preview.  The preview of  *)
(* another track may arrive late, a second switch hides the first one, rows*)
(* leave the list by timers, and others change the tracks meanwhile.       *)
(***************************************************************************)
EXTENDS Integers, FiniteSets, FiniteSetsExt

CONSTANTS
    Tracks,         \* the tracks there are at first
    Assigned,       \* those that assignments refer to at first
    Filters,        \* the choices of the status and role filters, NoFilter the first
    NoFilter,
    Matching,       \* the tracks each filter lists
    MaxEvents,      \* bound: gestures that send a request, changes by others, and losses
    MaxRequests     \* bound: requests under way before another gesture

TracksAssumption ==
    /\ Tracks \subseteq Nat \ {0} /\ Assigned \subseteq Tracks /\ NoFilter \in Filters
    /\ Matching \in [Filters -> SUBSET Tracks]
    /\ {MaxEvents, MaxRequests} \subseteq Nat

VARIABLES
    rows,       \* the tracks on the server: deleted, active, and with assignments or not
    deleted,    \* history: cascade deletions, each with the track its dialog named
    shown,      \* tracks: the list, a partial function from tracks to is_active
    loading,    \* the loading screen is shown
    filter,     \* statusFilter and roleFilter
    switching,  \* statusUpdatingId, 0 for null
    asked,      \* trackToDelete, 0 for null
    deleting,   \* deletingId, 0 for null
    exiting,    \* exitingIds, each with a timer that removes the row
    hiding,     \* timers that set deletingId to null
    cascade,    \* the dialog: target, preview, the phrase typed, and its two flags
    offer,      \* the track that the message offers to disable, 0 for none
    requests,   \* requests under way
    events,     \* gestures, changes by others and losses so far
    doubt       \* history: the list was told too little or too late to be sure

listVars == <<shown, loading, filter, switching, asked, deleting, exiting, hiding>>
trackVars == <<rows, deleted, listVars, cascade, offer, requests, events, doubt>>

Rows(f) == [t \in {u \in Matching[f] : rows[u].there} |-> rows[t].active]
Without(f, t) == [u \in DOMAIN f \ {t} |-> f[u]]
Closed == [target |-> 0, preview |-> 0, typed |-> 0, loading |-> FALSE, deleting |-> FALSE]

Ask(op, t) == [id |-> 1 + Max({0} \cup {q.id : q \in requests}), op |-> op, track |-> t,
               active |-> FALSE, filter |-> filter, named |-> 0, mixed |-> FALSE,
               answer |-> "none", list |-> << >>]

(* A request that goes out while others are under way may be overtaken by them. *)
Sent(set, new) == IF \A q \in set : q.op = "preview" THEN set \cup new
                  ELSE {[q EXCEPT !.mixed = TRUE] : q \in set \cup new}
Load(id) == [id |-> id, op |-> "load", track |-> 0, active |-> FALSE, filter |-> filter,
             named |-> 0, mixed |-> FALSE, answer |-> "none", list |-> << >>]

Init ==
    /\ rows = [t \in Tracks |-> [there |-> TRUE, active |-> TRUE, assigned |-> t \in Assigned]]
    /\ deleted = {}
    /\ filter = NoFilter
    /\ shown = << >> /\ loading = TRUE
    /\ switching = 0 /\ asked = 0 /\ deleting = 0 /\ exiting = {} /\ hiding = 0
    /\ cascade = Closed /\ offer = 0
    /\ requests = {Load(1)}
    /\ events = 0
    /\ doubt = FALSE

(***************************************************************************)
(* The endpoints and other people                                          *)
(***************************************************************************)

(* Mutant: the phrase is compared with nothing. *)
ServeCascadeAnyPhrase(q) ==
    LET ok == rows[q.track].there
    IN  /\ rows' = IF ok THEN [rows EXCEPT ![q.track].there = FALSE] ELSE rows
        /\ deleted' = IF ok THEN deleted \cup {[track |-> q.track, named |-> q.named]}
                      ELSE deleted
        /\ requests' = (requests \ {q}) \cup
                           {[q EXCEPT !.answer = IF ok THEN "ok" ELSE "refused"]}

(* cascade_delete_track: the phrase names the track; the assignments go with it. *)
ServeCascade(q) ==
    LET ok == q.named = q.track /\ rows[q.track].there
    IN  /\ rows' = IF ok THEN [rows EXCEPT ![q.track].there = FALSE] ELSE rows
        /\ deleted' = IF ok THEN deleted \cup {[track |-> q.track, named |-> q.named]}
                      ELSE deleted
        /\ requests' = (requests \ {q}) \cup
                           {[q EXCEPT !.answer = IF ok THEN "ok" ELSE "refused"]}

(* delete_track is refused by the foreign key of an assignment. *)
ServeDelete(q) ==
    LET ok == rows[q.track].there /\ ~rows[q.track].assigned
    IN  /\ rows' = IF ok THEN [rows EXCEPT ![q.track].there = FALSE] ELSE rows
        /\ requests' = (requests \ {q}) \cup
                           {[q EXCEPT !.answer = IF ok THEN "ok" ELSE "refused"]}
        /\ UNCHANGED deleted

(* activate_track, deactivate_track *)
ServeSwitch(q) ==
    /\ rows' = IF rows[q.track].there THEN [rows EXCEPT ![q.track].active = q.active] ELSE rows
    /\ requests' = (requests \ {q}) \cup
                       {[q EXCEPT !.answer = IF rows[q.track].there THEN "ok" ELSE "refused"]}
    /\ UNCHANGED deleted

(* list_tracks, delete_track_preview *)
ServeRead(q) ==
    /\ LET ok == q.op = "load" \/ rows[q.track].there
       IN  requests' = (requests \ {q}) \cup
               {[q EXCEPT !.answer = IF ok THEN "ok" ELSE "refused", !.list = Rows(q.filter)]}
    /\ UNCHANGED <<rows, deleted>>

Serve(q) ==
    /\ q.answer = "none"
    /\ CASE q.op \in {"load", "preview"} -> ServeRead(q)
         [] q.op = "switch" -> ServeSwitch(q)
         [] q.op = "delete" -> ServeDelete(q)
         [] q.op = "cascade" -> ServeCascade(q)
    /\ UNCHANGED <<listVars, cascade, offer, events, doubt>>

Event == events < MaxEvents /\ events' = events + 1

(* Somebody else switches or deletes a track, or assigns it. *)
Other(t) ==
    /\ Event /\ rows[t].there
    /\ \E active \in BOOLEAN, assigned \in {rows[t].assigned, TRUE}, there \in BOOLEAN :
           rows' = [rows EXCEPT ![t] = [there |-> there, active |-> active,
                                        assigned |-> assigned]]
    /\ doubt' = TRUE
    /\ requests' = {[q EXCEPT !.mixed = TRUE] : q \in requests}
    /\ UNCHANGED <<deleted, listVars, cascade, offer>>

(* A request fails before it did anything, or its answer is lost. *)
Lose(q) ==
    /\ Event /\ q.answer \in {"none", "ok"}
    /\ requests' = (requests \ {q}) \cup {[q EXCEPT !.answer = "lost"]}
    /\ UNCHANGED <<rows, deleted, listVars, cascade, offer, doubt>>

(***************************************************************************)
(* Loading, and the menu of a row                                          *)
(***************************************************************************)

Gesture == Event /\ Cardinality(requests) < MaxRequests
Free == asked = 0 /\ cascade.target = 0     \* no dialog is open

(* The effect on the filters loads, with the loading screen. *)
SetFilter(f) ==
    /\ Gesture /\ Free /\ ~loading /\ f # filter
    /\ filter' = f /\ loading' = TRUE
    /\ requests' = Sent(requests, {[Ask("load", 0) EXCEPT !.filter = f]})
    /\ UNCHANGED <<rows, deleted, shown, switching, asked, deleting, exiting, hiding, cascade,
                   offer, doubt>>

(* Another access token: the list is loaded again, and the preview too. *)
Renew ==
    /\ Gesture
    /\ loading' = TRUE
    /\ cascade' = IF cascade.target = 0 THEN cascade
                  ELSE [Closed EXCEPT !.target = cascade.target, !.loading = TRUE,
                                      !.deleting = cascade.deleting]
    /\ requests' = Sent(requests, {Ask("load", 0)} \cup
           (IF cascade.target = 0 THEN {}
            ELSE {[Ask("preview", cascade.target) EXCEPT !.id = @ + 1]}))
    /\ UNCHANGED <<rows, deleted, shown, filter, switching, asked, deleting, exiting, hiding,
                   offer, doubt>>

(* Mutant: a failed load leaves the loading screen. *)
LoadedOrStuck(q) ==
    /\ shown' = IF q.answer = "ok" THEN q.list ELSE shown
    /\ loading' = (q.answer # "ok")
    /\ doubt' = (q.answer # "ok" \/ q.mixed)
    /\ UNCHANGED <<rows, deleted, filter, switching, asked, deleting, exiting, hiding, cascade,
                   offer>>

(* loadTracks: whichever filter the answer is for. *)
Loaded(q) ==
    /\ shown' = IF q.answer = "ok" THEN q.list ELSE shown
    /\ loading' = FALSE
    /\ doubt' = (q.answer # "ok" \/ q.mixed)
    /\ UNCHANGED <<rows, deleted, filter, switching, asked, deleting, exiting, hiding, cascade,
                   offer>>

(* setTrackActive, from the menu of a row or from a message *)
Switch(t, active) ==
    /\ switching' = t
    /\ requests' = Sent(requests, {[Ask("switch", t) EXCEPT !.active = active]})
    /\ UNCHANGED <<rows, deleted, shown, loading, filter, asked, deleting, exiting, hiding,
                   cascade, doubt>>

ClickSwitch(t) ==
    /\ Gesture /\ Free /\ ~loading
    /\ t \in DOMAIN shown /\ switching # t /\ deleting # t
    /\ Switch(t, ~shown[t]) /\ UNCHANGED offer

ClickDisable ==
    /\ Gesture /\ offer # 0
    /\ Switch(offer, FALSE) /\ offer' = 0

Switched(q) ==
    /\ shown' = IF q.answer = "ok" /\ q.track \in DOMAIN shown
                THEN [shown EXCEPT ![q.track] = q.active] ELSE shown
    /\ switching' = 0
    /\ doubt' = (doubt \/ q.answer # "ok" \/ q.mixed)
    /\ UNCHANGED <<rows, deleted, loading, filter, asked, deleting, exiting, hiding, cascade,
                   offer>>

(***************************************************************************)
(* Deleting                                                                *)
(***************************************************************************)

AskDelete(t) ==
    /\ Free /\ ~loading /\ t \in DOMAIN shown /\ deleting # t
    /\ asked' = t
    /\ UNCHANGED <<rows, deleted, shown, loading, filter, switching, deleting, exiting, hiding,
                   cascade, offer, requests, events, doubt>>

CancelDelete ==
    /\ asked # 0 /\ asked' = 0
    /\ UNCHANGED <<rows, deleted, shown, loading, filter, switching, deleting, exiting, hiding,
                   cascade, offer, requests, events, doubt>>

(* deleteTrack *)
ConfirmDelete ==
    /\ Gesture /\ asked # 0 /\ ~loading
    /\ requests' = Sent(requests, {Ask("delete", asked)})
    /\ deleting' = asked /\ asked' = 0
    /\ UNCHANGED <<rows, deleted, shown, loading, filter, switching, exiting, hiding, cascade,
                   offer, doubt>>

(* The row leaves by a timer, and another one ends deletingId, whichever track that
   is by then. *)
Deleted(q) ==
    /\ IF q.answer = "ok"
       THEN exiting' = exiting \cup {q.track} /\ hiding' = hiding + 1
            /\ UNCHANGED <<deleting, offer>>
       ELSE /\ deleting' = 0
            /\ offer' \in IF q.answer = "refused" THEN {0, q.track} ELSE {0}
            /\ UNCHANGED <<exiting, hiding>>
    /\ doubt' = (doubt \/ q.answer = "lost" \/ q.mixed)
    /\ UNCHANGED <<rows, deleted, shown, loading, filter, switching, asked, cascade>>

RowLeaves(t) ==
    /\ t \in exiting
    /\ shown' = Without(shown, t)
    /\ exiting' = exiting \ {t}
    /\ UNCHANGED <<rows, deleted, loading, filter, switching, asked, deleting, hiding, cascade,
                   offer, requests, events, doubt>>

DeletingEnds ==
    /\ hiding > 0 /\ hiding' = hiding - 1
    /\ deleting' = 0
    /\ UNCHANGED <<rows, deleted, shown, loading, filter, switching, asked, exiting, cascade,
                   offer, requests, events, doubt>>

(* The message goes away by itself or by a click. *)
MessageEnds ==
    /\ offer # 0 /\ offer' = 0
    /\ UNCHANGED <<rows, deleted, listVars, cascade, requests, events, doubt>>

(***************************************************************************)
(* Deleting a track with its assignments                                   *)
(***************************************************************************)

(* The effect of a target empties the dialog and asks for a preview. *)
OpenCascade(t) ==
    /\ Gesture /\ Free /\ ~loading
    /\ t \in DOMAIN shown /\ switching # t /\ deleting # t
    /\ cascade' = [Closed EXCEPT !.target = t, !.loading = TRUE]
    /\ requests' = Sent(requests, {Ask("preview", t)})
    /\ UNCHANGED <<rows, deleted, listVars, offer, doubt>>

(* Escape closes the dialog even while the deletion is under way. *)
CloseCascade ==
    /\ cascade.target # 0 /\ ~loading
    /\ cascade' = Closed
    /\ UNCHANGED <<rows, deleted, listVars, offer, requests, events, doubt>>

(* The answer is put in whichever dialog is open, or in none. *)
Previewed(q) ==
    /\ cascade' = [cascade EXCEPT !.loading = FALSE,
                                  !.preview = IF q.answer = "ok" THEN q.track ELSE @]
    /\ UNCHANGED <<rows, deleted, listVars, offer, doubt>>

(* The phrase that is typed is the one the preview asks for. *)
TypePhrase ==
    /\ cascade.target # 0 /\ cascade.preview # 0 /\ ~loading /\ ~cascade.loading
    /\ cascade.typed # cascade.preview
    /\ cascade' = [cascade EXCEPT !.typed = cascade.preview]
    /\ UNCHANGED <<rows, deleted, listVars, offer, requests, events, doubt>>

ClickCascade ==
    /\ Gesture /\ ~loading
    /\ cascade.target # 0 /\ cascade.preview # 0
    /\ ~cascade.deleting /\ ~cascade.loading /\ cascade.typed = cascade.preview
    /\ cascade' = [cascade EXCEPT !.deleting = TRUE]
    /\ requests' = Sent(requests, {[Ask("cascade", cascade.target) EXCEPT
                                       !.named = cascade.typed]})
    /\ UNCHANGED <<rows, deleted, listVars, offer, doubt>>

(* The answer closes whichever dialog is open by then. *)
Cascaded(q) ==
    /\ IF q.answer = "ok"
       THEN /\ exiting' = exiting \cup {q.track}
            /\ cascade' = [Closed EXCEPT !.loading = cascade.loading]
       ELSE cascade' = [cascade EXCEPT !.deleting = FALSE] /\ UNCHANGED exiting
    /\ doubt' = (doubt \/ q.answer = "lost" \/ q.mixed)
    /\ UNCHANGED <<rows, deleted, shown, loading, filter, switching, asked, deleting, hiding,
                   offer>>

Answered(q) ==
    /\ q.answer # "none"
    /\ requests' = requests \ {q}
    /\ CASE q.op = "load" -> Loaded(q)
         [] q.op = "switch" -> Switched(q)
         [] q.op = "delete" -> Deleted(q)
         [] q.op = "preview" -> Previewed(q)
         [] q.op = "cascade" -> Cascaded(q)
    /\ UNCHANGED events

Next ==
    \/ \E q \in requests : Serve(q) \/ Answered(q) \/ Lose(q)
    \/ \E t \in Tracks : \/ Other(t) \/ ClickSwitch(t) \/ AskDelete(t) \/ RowLeaves(t)
                         \/ OpenCascade(t)
    \/ \E f \in Filters : SetFilter(f)
    \/ Renew \/ ClickDisable \/ CancelDelete \/ ConfirmDelete \/ DeletingEnds \/ MessageEnds
    \/ CloseCascade \/ TypePhrase \/ ClickCascade

Spec == Init /\ [][Next]_trackVars

(***************************************************************************)
(* Properties                                                              *)
(***************************************************************************)

(* The types of the variables. *)
TypeOK ==
    /\ \A t \in Tracks : {rows[t].there, rows[t].active, rows[t].assigned} \subseteq BOOLEAN
    /\ DOMAIN shown \subseteq Tracks /\ exiting \subseteq Tracks
    /\ {switching, asked, deleting, offer, cascade.target, cascade.preview, cascade.typed}
           \subseteq Tracks \cup {0}
    /\ {loading, doubt, cascade.loading, cascade.deleting} \subseteq BOOLEAN

(* Only the track that its dialog named is deleted with its assignments, although
   the preview of another track may be the one that is shown. *)
CascadeDeletesNamed == \A d \in deleted : d.named = d.track

(* When nothing is under way, the list is that of the filters, and nothing is left
   disabled, unless the list was told too late or not at all. *)
QuietListIsCurrent ==
    requests = {} /\ exiting = {} /\ hiding = 0 =>
        /\ ~loading /\ switching = 0 /\ deleting = 0
        /\ ~cascade.loading /\ ~cascade.deleting
        /\ ~doubt => shown = Rows(filter)

=============================================================================
