--------------------------- MODULE ComplianceProfile ---------------------------
(***************************************************************************)
(* The profile page of the compliance hub                                  *)
(* (src/frontend/app/(app)/compliance-hub/profile/page.tsx) with the       *)
(* library endpoints of compliance.py behind it: frameworks and their      *)
(* requirements, which are deleted by a flag and may come back, and the    *)
(* matching of the profile by the language model, whose last result the    *)
(* page also loads when it opens and with every new access token.          *)
(*                                                                         *)
(* There is one control; a requirement is a reference of a framework to    *)
(* it.  Version, type, region and full name of a framework are its         *)
(* details.                                                                *)
(***************************************************************************)
EXTENDS Integers, FiniteSets

CONSTANTS
    Frameworks,       \* keys of frameworks
    FirstFrameworks,  \* the frameworks there are at first, with details and every reference
    References,       \* references to the control
    MaxGestures,      \* bound: gestures, renewals of the token included
    MaxRequests,      \* bound: requests at a time
    MaxLost           \* bound: requests that fail

ProfileAssumption == /\ FirstFrameworks \subseteq Frameworks
                     /\ MaxRequests \in Nat \ {0, 1} /\ {MaxGestures, MaxLost} \subseteq Nat

VARIABLES
    frameworks,  \* rows of compliance.tenant_frameworks: is_active, and the details
    refs,        \* rows of tenant_control_framework_refs: is_active
    runs,        \* number of stored results of matching
    wanted,      \* history: the requirements that were added and not removed since
    page,        \* what the page shows, and its two drawers
    requests,    \* requests that were not answered
    mixed,       \* history: requests overlapped or were lost
    tally        \* gestures and losses so far

profileVars == <<frameworks, refs, runs, wanted, page, requests, mixed, tally>>
libraryVars == <<frameworks, refs, wanted>>

None == ""
Own == -1     \* a result that was computed for a reader and is not stored

There == {f \in Frameworks : frameworks[f].active}
ActiveRefs == {[framework |-> r.framework, ref |-> r.ref] : r \in {x \in refs : x.active}}

(* get_profile_preview groups requirements: a framework without any is not shown. *)
Preview == {r \in ActiveRefs : r.framework \in There}

Request(op, framework, ref, to) ==
    [op |-> op, framework |-> framework, ref |-> ref, to |-> to,
     step |-> "sent", stored |-> FALSE, preview |-> {}, run |-> 0]

Loads == {Request("load", None, None, None), Request("latest", None, None, None)}

Init ==
    /\ frameworks = [f \in Frameworks |-> IF f \in FirstFrameworks
                                          THEN [active |-> TRUE, details |-> "x"]
                                          ELSE [active |-> FALSE, details |-> ""]]
    /\ wanted = [framework : FirstFrameworks, ref : References]
    /\ refs = {[framework |-> r.framework, ref |-> r.ref, active |-> TRUE] : r \in wanted}
    /\ runs \in {0, 1}
    /\ page \in [preview : {{}}, loading : {TRUE}, writer : BOOLEAN, match : {0}, summary : {0},
                 drawer : {"none"}, framework : {None}, ref : {None}]
    /\ requests = Loads
    /\ mixed = FALSE
    /\ tally = [gestures |-> 0, lost |-> 0]

(***************************************************************************)
(* The page.  It is not shown while the preview is loaded, and an open     *)
(* drawer covers it.                                                       *)
(***************************************************************************)

Gesture == tally.gestures < MaxGestures /\ tally' = [tally EXCEPT !.gestures = @ + 1]

Send(more) ==
    /\ Cardinality(requests \cup more) <= MaxRequests /\ more \cap requests = {}
    /\ requests' = requests \cup more
    /\ mixed' = (mixed \/ requests # {})

Saving(ops) == \E q \in requests : q.op \in ops

(* A new access token runs the effect again. *)
Renew ==
    /\ Gesture /\ Send(Loads)
    /\ page' = [page EXCEPT !.loading = TRUE]
    /\ UNCHANGED <<libraryVars, runs>>

(* openAddFw, openEditFw, openAddReq, openEditReq *)
Open(drawer, framework, ref) ==
    /\ Gesture /\ ~page.loading /\ page.drawer = "none"
    /\ CASE drawer = "addFw" -> framework = None /\ ref = None
         [] drawer \in {"editFw", "addReq"} ->
                ref = None /\ \E r \in page.preview : r.framework = framework
         [] drawer = "editReq" -> [framework |-> framework, ref |-> ref] \in page.preview
    /\ page' = [page EXCEPT !.drawer = drawer, !.framework = framework, !.ref = ref]
    /\ UNCHANGED <<libraryVars, runs, requests, mixed>>

(* Cancel, Escape and a click beside the drawer close it, also while it saves. *)
Close ==
    /\ ~page.loading /\ page.drawer # "none"
    /\ page' = [page EXCEPT !.drawer = "none", !.framework = None, !.ref = None]
    /\ UNCHANGED <<libraryVars, runs, requests, mixed, tally>>

(* saveFw: the form of an edited framework has none of its details. *)
SaveFw(key, details) ==
    /\ Gesture /\ ~page.loading /\ ~Saving({"createFw", "updateFw"})
    /\ \/ page.drawer = "addFw" /\ Send({Request("createFw", key, None, details)})
       \/ /\ page.drawer = "editFw" /\ key = page.framework
          /\ Send({Request("updateFw", key, None, details)})
    /\ UNCHANGED <<libraryVars, runs, page>>

(* saveReq: of the control the requirement has *)
SaveReq(ref) ==
    /\ Gesture /\ ~page.loading /\ ~Saving({"addReq", "updateReq"})
    /\ \/ page.drawer = "addReq" /\ Send({Request("addReq", page.framework, ref, None)})
       \/ page.drawer = "editReq" /\ Send({Request("updateReq", page.framework, page.ref, ref)})
    /\ UNCHANGED <<libraryVars, runs, page>>

(* deleteFw, deleteReq, after a confirmation *)
Delete(row) ==
    /\ Gesture /\ ~page.loading /\ page.drawer = "none" /\ row \in page.preview
    /\ \/ Send({Request("deleteFw", row.framework, None, None)})
       \/ Send({Request("deleteReq", row.framework, row.ref, None)})
    /\ UNCHANGED <<libraryVars, runs, page>>

(* runSemanticMatch *)
RunMatch ==
    /\ Gesture /\ ~page.loading /\ page.drawer = "none" /\ ~Saving({"match"})
    /\ Send({Request("match", None, None, None)})
    /\ page' = [page EXCEPT !.summary = 0]
    /\ UNCHANGED <<libraryVars, runs>>

(***************************************************************************)
(* The server.  Each of the endpoints of the library calls log_action by   *)
(* position when the change is committed, which raises: the answer of a    *)
(* request that was done is a failure.                                     *)
(***************************************************************************)

Answered(q, answer) == requests' = (requests \ {q}) \cup {answer}
Committed(q) == Answered(q, [q EXCEPT !.step = "failed", !.stored = TRUE])
Refused(q) == Answered(q, [q EXCEPT !.step = "failed"]) /\ UNCHANGED libraryVars
NothingToDo(q) == Answered(q, [q EXCEPT !.step = "done"]) /\ UNCHANGED libraryVars

Of(rows, framework) == {r \in rows : r.framework = framework}
Row(q, ref) == [framework |-> q.framework, ref |-> ref]
RowsOf(q, ref) == {r \in refs : r.framework = q.framework /\ r.ref = ref}
ActiveRow(q, ref) == [framework |-> q.framework, ref |-> ref, active |-> TRUE]

(* get_profile_preview, get_latest_profile_semantic_match *)
ServeLoad(q) ==
    /\ q.op \in {"load", "latest"}
    /\ Answered(q, [q EXCEPT !.step = "done",
                             !.preview = IF q.op = "load" THEN Preview ELSE {},
                             !.run = IF q.op = "latest" THEN runs ELSE 0])
    /\ UNCHANGED <<libraryVars, runs>>

(* create_library_framework, which takes a deleted one again; update_library_framework *)
ServeSaveFw(q) ==
    /\ q.op \in {"createFw", "updateFw"}
    /\ IF frameworks[q.framework].active = (q.op = "createFw") THEN Refused(q)
       ELSE /\ frameworks' = [frameworks EXCEPT ![q.framework] =
                                  [active |-> TRUE, details |-> q.to]]
            /\ Committed(q)
            /\ UNCHANGED <<refs, wanted>>
    /\ UNCHANGED runs

(* Mutant: the requirements of a deleted framework stay active. *)
ServeDeleteFwOnly(q) ==
    /\ q.op = "deleteFw"
    /\ IF q.framework \notin There THEN NothingToDo(q)
       ELSE /\ frameworks' = [frameworks EXCEPT ![q.framework].active = FALSE]
            /\ refs' = refs
            /\ wanted' = wanted \ Of(wanted, q.framework)
            /\ Committed(q)
    /\ UNCHANGED runs

(* delete_library_framework *)
ServeDeleteFw(q) ==
    /\ q.op = "deleteFw"
    /\ IF q.framework \notin There THEN NothingToDo(q)
       ELSE /\ frameworks' = [frameworks EXCEPT ![q.framework].active = FALSE]
            /\ refs' = (refs \ Of(refs, q.framework)) \cup
                           {[r EXCEPT !.active = FALSE] : r \in Of(refs, q.framework)}
            /\ wanted' = wanted \ Of(wanted, q.framework)
            /\ Committed(q)
    /\ UNCHANGED runs

(* add_framework_requirement looks for the framework... *)
CheckFramework(q) ==
    /\ q.op = "addReq"
    /\ IF q.framework \notin There THEN Refused(q)
       ELSE Answered(q, [q EXCEPT !.step = "checked"]) /\ UNCHANGED libraryVars
    /\ UNCHANGED runs

(* ...and then adds the requirement, or takes a deleted one again. *)
AddRequirement(q) ==
    /\ q.step = "checked"
    /\ refs' = (refs \ RowsOf(q, q.ref)) \cup {ActiveRow(q, q.ref)}
    /\ wanted' = wanted \cup {Row(q, q.ref)}
    /\ Committed(q)
    /\ UNCHANGED <<frameworks, runs, page, mixed, tally>>

(* update_framework_requirement: a reference is part of the key, and one that was deleted
   with its framework is in the way of the new name. *)
ServeUpdateReq(q) ==
    /\ q.op = "updateReq"
    /\ IF ActiveRow(q, q.ref) \notin refs \/ (q.to # q.ref /\ RowsOf(q, q.to) # {})
       THEN Refused(q)
       ELSE /\ refs' = (refs \ RowsOf(q, q.ref)) \cup {ActiveRow(q, q.to)}
            /\ wanted' = (wanted \ {Row(q, q.ref)}) \cup {Row(q, q.to)}
            /\ Committed(q)
            /\ UNCHANGED frameworks
    /\ UNCHANGED runs

(* delete_framework_requirement *)
ServeDeleteReq(q) ==
    /\ q.op = "deleteReq"
    /\ IF RowsOf(q, q.ref) = {} THEN NothingToDo(q)
       ELSE /\ refs' = refs \ RowsOf(q, q.ref)
            /\ wanted' = wanted \ {Row(q, q.ref)}
            /\ Committed(q)
            /\ UNCHANGED frameworks
    /\ UNCHANGED runs

(* apply_profile_semantic_match stores the run, run_profile_semantic_match does not. *)
ServeMatch(q) ==
    /\ q.op = "match"
    /\ runs' = IF page.writer THEN runs + 1 ELSE runs
    /\ Answered(q, [q EXCEPT !.step = "done", !.run = IF page.writer THEN runs + 1 ELSE Own])
    /\ UNCHANGED libraryVars

Serve(q) ==
    /\ q.step = "sent"
    /\ \/ ServeLoad(q) \/ ServeSaveFw(q) \/ ServeDeleteFw(q) \/ CheckFramework(q)
       \/ ServeUpdateReq(q) \/ ServeDeleteReq(q) \/ ServeMatch(q)
    /\ UNCHANGED <<page, mixed, tally>>

Lose(q) ==
    /\ tally.lost < MaxLost /\ q.step \in {"sent", "done"}
    /\ tally' = [tally EXCEPT !.lost = @ + 1]
    /\ Answered(q, [q EXCEPT !.step = "lost"])
    /\ mixed' = TRUE
    /\ UNCHANGED <<libraryVars, runs, page>>

(***************************************************************************)
(* The answers                                                             *)
(***************************************************************************)

(* Mutant: the last result that is loaded is shown beside the one there is. *)
ReadAnsweredOnce(q) ==
    /\ q.op \in {"load", "latest"}
    /\ requests' = requests \ {q}
    /\ page' = CASE q.op = "load" -> [page EXCEPT !.loading = FALSE,
                                          !.preview = IF q.step = "done" THEN q.preview ELSE @]
                 [] OTHER -> page

(* loadPreview; loadLatestMatch shows what there is, without the summary. *)
ReadAnswered(q) ==
    /\ q.op \in {"load", "latest"}
    /\ requests' = requests \ {q}
    /\ page' = CASE q.op = "load" -> [page EXCEPT !.loading = FALSE,
                                          !.preview = IF q.step = "done" THEN q.preview ELSE @]
                 [] q.op = "latest" /\ q.step = "done" /\ q.run # 0 ->
                        [page EXCEPT !.match = q.run, !.summary = 0]
                 [] OTHER -> page

MatchAnswered(q) ==
    /\ q.op = "match"
    /\ requests' = requests \ {q}
    /\ page' = IF q.step = "done"
               THEN [page EXCEPT !.match = q.run, !.summary = IF q.run = Own THEN 0 ELSE q.run]
               ELSE page

(* The drawer closes and the preview is loaded if the request was answered well, which is
   so of a deletion with nothing to delete; else there is an alert. *)
WriteAnswered(q) ==
    /\ q.op \notin {"load", "latest", "match"}
    /\ requests' = (requests \ {q}) \cup
                       IF q.step = "done" THEN {Request("load", None, None, None)} ELSE {}
    /\ page' = IF q.step = "done" THEN [page EXCEPT !.loading = TRUE] ELSE page

Answer(q) ==
    /\ q.step \in {"done", "failed", "lost"}
    /\ ReadAnswered(q) \/ MatchAnswered(q) \/ WriteAnswered(q)
    /\ UNCHANGED <<libraryVars, runs, mixed, tally>>

Next ==
    \/ Renew \/ Close \/ RunMatch
    \/ \E drawer \in {"addFw", "editFw", "addReq", "editReq"},
          f \in Frameworks \cup {None}, r \in References \cup {None} : Open(drawer, f, r)
    \/ \E f \in Frameworks, details \in {"", "x"} : SaveFw(f, details)
    \/ \E r \in References : SaveReq(r)
    \/ \E row \in page.preview : Delete(row)
    \/ \E q \in requests : Serve(q) \/ AddRequirement(q) \/ Lose(q) \/ Answer(q)

Spec == Init /\ [][Next]_profileVars

(***************************************************************************)
(* Properties                                                              *)
(***************************************************************************)

Rows == [framework : Frameworks, ref : References]

(* The types of the variables. *)
TypeOK ==
    /\ frameworks \in [Frameworks -> [active : BOOLEAN, details : {"", "x"}]]
    /\ refs \subseteq [framework : Frameworks, ref : References, active : BOOLEAN]
    /\ wanted \subseteq Rows /\ page.preview \subseteq Rows
    /\ runs \in Nat /\ page.match \in Nat \cup {Own} /\ page.summary \in Nat
    /\ page.loading \in BOOLEAN /\ mixed \in BOOLEAN
    /\ page.drawer \in {"none", "addFw", "editFw", "addReq", "editReq"}
    /\ \A q \in requests : q.step \in {"sent", "checked", "done", "failed", "lost"}

(* While requests do not overlap, deletion by a flag is deletion: the requirements that
   a preview shows are those that were added and not removed since, alone or with their framework,
   also when a framework or a requirement is added again. *)
FlagsAreDeletions == ~mixed => Preview = wanted

(* When nothing is under way and nothing overlapped or was lost, the page shows the result
   of the last matching, and a summary only of that. *)
QuietMatchIsLatest ==
    requests = {} /\ ~mixed => /\ page.match \in {runs, Own}
                               /\ page.summary \in {0, page.match}

(* A request that is answered with a failure was not done. *)
FailuresAreTrue == \A q \in requests : q.step = "failed" => ~q.stored

=============================================================================
