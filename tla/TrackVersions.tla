---------------------------- MODULE TrackVersions ----------------------------
(***************************************************************************)
(* The versions of an onboarding track: track_service.py saves, publishes  *)
(* and deletes them, each from rows it has read before, and two pages ask  *)
(* for it, the editor src/frontend/app/(app)/tracks/[id]/page.tsx, whose   *)
(* every save is a new draft, and its publish page.  What a version holds  *)
(* is the set of edits it was saved with.                                  *)
(***************************************************************************)
EXTENDS Integers, FiniteSets, FiniteSetsExt

CONSTANTS
    MaxRows,        \* bound: versions ever saved
    MaxEvents,      \* bound: gestures that send a request, and losses
    MaxEdits,       \* bound: edits
    MaxRequests     \* bound: requests under way before another gesture

VersionsAssumption ==
    /\ {MaxRows, MaxEvents, MaxEdits, MaxRequests} \subseteq Nat /\ MaxRows > 0

Ids == 1..MaxRows

VARIABLES
    rows,       \* the versions on the server
    released,   \* history: versions that were published once
    crossed,    \* history: a write was made from rows that had changed
    work,       \* phases: the edits that the editor shows
    kept,       \* history: the edits saved since the editor was loaded
    loading,    \* the loading screen of the editor is shown
    saving,     \* its buttons are disabled
    edits,      \* edits so far
    listed,     \* track: the drafts that the publish page lists
    waiting,    \* the loading screen of the publish page is shown
    requests,   \* requests under way
    events,     \* gestures and losses so far
    doubt       \* history: the list was told too little or too late to be sure

editorVars == <<work, kept, loading, saving, edits>>
publishVars == <<listed, waiting>>
versionVars == <<rows, released, crossed, editorVars, publishVars, requests, events, doubt>>

None == [number |-> 0, status |-> "none", current |-> FALSE, content |-> {}]
There(r) == {v \in Ids : r[v].number > 0 /\ r[v].status # "gone"}
Drafts(r) == {v \in There(r) : r[v].status = "draft"}

(* The version a page shows: the current one, else the first. *)
Shown(r) ==
    LET current == {v \in There(r) : r[v].current}
        first == {v \in There(r) : \A u \in There(r) : r[v].number <= r[u].number}
    IN  IF current # {} THEN current ELSE first

Ask(op, v) == [id |-> 1 + Max({0} \cup {q.id : q \in requests}), op |-> op, version |-> v,
               content |-> {}, seen |-> << >>, mixed |-> FALSE, answer |-> "none"]

Init ==
    /\ rows = [v \in Ids |-> IF v = 1 THEN [None EXCEPT !.number = 1, !.status = "draft"]
                             ELSE None]
    /\ released = {} /\ crossed = FALSE
    /\ work = {} /\ kept = {} /\ loading = TRUE /\ saving = FALSE /\ edits = 0
    /\ listed = {} /\ waiting = TRUE
    /\ requests = {[id |-> 1, op |-> "load", version |-> 0, content |-> {}, seen |-> << >>,
                    mixed |-> FALSE, answer |-> "none"],
                   [id |-> 2, op |-> "list", version |-> 0, content |-> {}, seen |-> << >>,
                    mixed |-> FALSE, answer |-> "none"]}
    /\ events = 0
    /\ doubt = FALSE

(***************************************************************************)
(* The service                                                             *)
(***************************************************************************)

(* Mutant: any version may be deleted. *)
ReadAnyDeletion(q) ==
    /\ q.answer = "none" /\ q.seen = << >>
    /\ LET ok == q.op \in {"publish", "delete"} => q.version \in There(rows)
       IN  requests' = (requests \ {q}) \cup
               {[q EXCEPT !.seen = rows, !.answer = IF ~ok THEN "refused"
                                                    ELSE IF q.op \in {"load", "list"} THEN "ok"
                                                    ELSE "none"]}
    /\ UNCHANGED <<rows, released, crossed, editorVars, publishVars, events, doubt>>

(* get_track_template: the rows that a read answers with, or that a write is made
   from; writes of versions that are not there, or deletions of no draft, are refused. *)
Read(q) ==
    /\ q.answer = "none" /\ q.seen = << >>
    /\ LET ok == CASE q.op = "publish" -> q.version \in There(rows)
                   [] q.op = "delete" -> q.version \in Drafts(rows)
                   [] OTHER -> TRUE
       IN  requests' = (requests \ {q}) \cup
               {[q EXCEPT !.seen = rows, !.answer = IF ~ok THEN "refused"
                                                    ELSE IF q.op \in {"load", "list"} THEN "ok"
                                                    ELSE "none"]}
    /\ UNCHANGED <<rows, released, crossed, editorVars, publishVars, events, doubt>>

(* The write of q answers it; reads that were served before are late. *)
Written(q, ok) ==
    /\ requests' = {[r EXCEPT !.mixed = TRUE] : r \in {s \in requests \ {q} : s.seen # << >>}}
                   \cup {s \in requests \ {q} : s.seen = << >>}
                   \cup {[q EXCEPT !.answer = IF ok THEN "ok" ELSE "refused"]}
    /\ crossed' = (crossed \/ (ok /\ q.mixed))
    /\ doubt' = (doubt \/ (ok /\ q.op = "save"))
    /\ UNCHANGED <<editorVars, publishVars, events>>

(* republish_track_template: a new draft with the next number, which is unique. *)
Save(q) ==
    LET number == 1 + Max({0} \cup {q.seen[v].number : v \in There(q.seen)})
        ok == \A v \in There(rows) : rows[v].number # number
        id == Min({v \in Ids : rows[v].status = "none"})
    IN  /\ rows' = IF ok THEN [rows EXCEPT ![id] = [number |-> number, status |-> "draft",
                                             current |-> FALSE, content |-> q.content]]
                   ELSE rows
        /\ Written(q, ok) /\ UNCHANGED released

(* Mutant: the version that was published before is not archived. *)
PublishBeside(q) ==
    LET ok == rows[q.version].status # "gone"
    IN  /\ rows' = IF ok THEN [rows EXCEPT ![q.version].status = "published",
                                           ![q.version].current = TRUE]
                   ELSE rows
        /\ released' = IF ok THEN released \cup {q.version} ELSE released
        /\ Written(q, ok)

(* publish_track_version: what was published when the rows were read is archived. *)
Publish(q) ==
    LET ok == rows[q.version].status # "gone"
    IN  /\ rows' = IF ok
                   THEN [v \in Ids |->
                           IF v = q.version
                           THEN [rows[v] EXCEPT !.status = "published", !.current = TRUE]
                           ELSE IF v \in There(q.seen) /\ q.seen[v].status = "published"
                           THEN [rows[v] EXCEPT !.status = "archived", !.current = FALSE]
                           ELSE rows[v]]
                   ELSE rows
        /\ released' = IF ok THEN released \cup {q.version} ELSE released
        /\ Written(q, ok)

(* delete_track_version *)
Delete(q) ==
    /\ rows' = [rows EXCEPT ![q.version].status = "gone", ![q.version].current = FALSE]
    /\ Written(q, TRUE) /\ UNCHANGED released

Write(q) ==
    /\ q.answer = "none" /\ q.seen # << >>
    /\ CASE q.op = "save" -> Save(q)
         [] q.op = "publish" -> Publish(q)
         [] q.op = "delete" -> Delete(q)

Event == events < MaxEvents /\ events' = events + 1

(* A request fails before it did anything, or its answer is lost. *)
Lose(q) ==
    /\ Event /\ (q.answer = "ok" \/ (q.answer = "none" /\ q.seen = << >>))
    /\ requests' = (requests \ {q}) \cup {[q EXCEPT !.answer = "lost"]}
    /\ UNCHANGED <<rows, released, crossed, editorVars, publishVars, doubt>>

(***************************************************************************)
(* The editor                                                              *)
(***************************************************************************)

Gesture == Event /\ Cardinality(requests) < MaxRequests

(* The effect of another access token, or of other purpose labels *)
Reload ==
    /\ Gesture
    /\ loading' = TRUE
    /\ requests' = requests \cup {Ask("load", 0)}
    /\ UNCHANGED <<rows, released, crossed, work, kept, saving, edits, publishVars, doubt>>

(* The answer replaces what was edited and not saved. *)
Loaded(q) ==
    /\ loading' = FALSE
    /\ IF q.answer = "ok" /\ Shown(q.seen) # {}
       THEN \E v \in Shown(q.seen) : work' = q.seen[v].content /\ kept' = {}
       ELSE UNCHANGED <<work, kept>>
    /\ requests' = requests \ {q}
    /\ UNCHANGED <<rows, released, crossed, saving, edits, publishVars, events, doubt>>

(* The builder changes the phases, also while they are saved. *)
Edit ==
    /\ ~loading /\ edits < MaxEdits
    /\ edits' = edits + 1
    /\ work' = work \cup {edits + 1}
    /\ UNCHANGED <<rows, released, crossed, kept, loading, saving, publishVars, requests, events,
                   doubt>>

(* onSubmit *)
ClickSave ==
    /\ Gesture /\ ~loading /\ ~saving
    /\ Cardinality({v \in Ids : rows[v].status = "none"}) >
           Cardinality({q \in requests : q.op = "save"})
    /\ saving' = TRUE
    /\ requests' = requests \cup {[Ask("save", 0) EXCEPT !.content = work]}
    /\ UNCHANGED <<rows, released, crossed, work, kept, loading, edits, publishVars, doubt>>

(* Mutant: the builder shows the version that the answer holds. *)
SavedAndShown(q) ==
    /\ saving' = FALSE
    /\ IF q.answer # "ok" THEN UNCHANGED <<work, kept>>
       ELSE /\ kept' = kept \cup (q.content \cap work)
            /\ \E v \in Shown(q.seen) : work' = q.seen[v].content
    /\ requests' = requests \ {q}
    /\ UNCHANGED <<rows, released, crossed, loading, edits, publishVars, events, doubt>>

(* The builder stays as it is. *)
Saved(q) ==
    /\ saving' = FALSE
    /\ kept' = IF q.answer = "ok" THEN kept \cup (q.content \cap work) ELSE kept
    /\ requests' = requests \ {q}
    /\ UNCHANGED <<rows, released, crossed, work, loading, edits, publishVars, events, doubt>>

(***************************************************************************)
(* The publish page                                                        *)
(***************************************************************************)

(* publishVersion and deleteVersion, from a confirmed dialog *)
Click(op, v) ==
    /\ Gesture /\ ~waiting /\ v \in listed
    /\ requests' = requests \cup {Ask(op, v)}
    /\ UNCHANGED <<rows, released, crossed, editorVars, publishVars, doubt>>

(* Mutant: the list is not loaded again. *)
ClickedAndKept(q) ==
    /\ requests' = requests \ {q}
    /\ doubt' = (doubt \/ q.answer # "ok")
    /\ UNCHANGED <<rows, released, crossed, editorVars, publishVars, events>>

(* A failure is not shown, and the list stays. *)
Clicked(q) ==
    /\ IF q.answer = "ok"
       THEN waiting' = TRUE /\ requests' = (requests \ {q}) \cup {Ask("list", 0)}
       ELSE requests' = requests \ {q} /\ UNCHANGED waiting
    /\ doubt' = (doubt \/ q.answer # "ok")
    /\ UNCHANGED <<rows, released, crossed, editorVars, listed, events>>

(* loadTrack *)
Listed(q) ==
    /\ waiting' = FALSE
    /\ listed' = IF q.answer = "ok" THEN Drafts(q.seen) ELSE listed
    /\ doubt' = (q.mixed \/ q.answer # "ok" \/
                    \E r \in requests \ {q} : r.op \in {"publish", "delete"})
    /\ requests' = requests \ {q}
    /\ UNCHANGED <<rows, released, crossed, editorVars, events>>

Answered(q) ==
    /\ q.answer # "none"
    /\ CASE q.op = "load" -> Loaded(q)
         [] q.op = "save" -> Saved(q)
         [] q.op \in {"publish", "delete"} -> Clicked(q)
         [] q.op = "list" -> Listed(q)

Next ==
    \/ \E q \in requests : Read(q) \/ Write(q) \/ Answered(q) \/ Lose(q)
    \/ \E v \in Ids, op \in {"publish", "delete"} : Click(op, v)
    \/ Reload \/ Edit \/ ClickSave

Spec == Init /\ [][Next]_versionVars

(***************************************************************************)
(* Properties                                                              *)
(***************************************************************************)

(* The types of the variables. *)
TypeOK ==
    /\ \A v \in Ids : /\ rows[v].status \in {"none", "draft", "published", "archived", "gone"}
                      /\ rows[v].number \in 0..MaxRows /\ rows[v].content \subseteq 1..MaxEdits
    /\ released \subseteq Ids /\ listed \subseteq Ids
    /\ work \subseteq 1..MaxEdits /\ edits \in 0..MaxEdits
    /\ {crossed, loading, saving, waiting, doubt} \subseteq BOOLEAN

(* The version that assignments are made from is the published one, and there is
   one of them, unless publications crossed. *)
OneCurrent ==
    /\ \A v \in Ids : rows[v].current <=> rows[v].status = "published"
    /\ ~crossed => Cardinality({v \in Ids : rows[v].current}) <= 1

(* A version that was published is never deleted, and one remains published once
   one was, unless writes crossed. *)
ReleasedStays ==
    ~crossed => /\ \A v \in released : rows[v].status \in {"published", "archived"}
                /\ released # {} => \E v \in released : rows[v].current

(* What was saved stays in the builder until it is loaded anew, although the saved
   draft is not the version that the page loads. *)
SavedStays == kept \subseteq work

(* When nothing is under way, the publish page lists the drafts there are, and
   neither page waits, unless the page was told too late or not at all. *)
QuietPagesAreCurrent ==
    requests = {} => /\ ~loading /\ ~waiting /\ ~saving
                     /\ ~doubt => listed = Drafts(rows)

=============================================================================
