-------------------------- MODULE CompliancePractices --------------------------
(***************************************************************************)
(* The practices page of the compliance hub                                *)
(* (src/frontend/app/(app)/compliance-hub/practices/page.tsx) with the     *)
(* endpoints of compliance.py behind it: a filtered list, one drawer that  *)
(* edits a practice or takes a new one, the matching of practices with     *)
(* controls, and the evidence that is made of accepted matches.            *)
(*                                                                         *)
(* A practice is one control's at most, and its title, description and     *)
(* other fields are one text.  A filter stands for the search, the         *)
(* category, the page and its size together.  A request is one step of the *)
(* server, its transaction.                                                *)
(***************************************************************************)
EXTENDS Integers, FiniteSets, FiniteSetsExt

CONSTANTS
    Practices,      \* ids of practices, in the order in which they are given
    FirstPractices, \* the practices there are at first
    Texts,          \* texts of a practice
    FirstText,      \* the text of the practices there are at first
    FirstMatches,   \* practices whose match was accepted before
    Filters,        \* sets of practices a filter and a page select
    MaxGestures,    \* bound: gestures
    MaxRequests,    \* bound: requests at a time
    MaxLost         \* bound: requests that fail

Unborn == "unborn"
Gone == "gone"

PracticeAssumption ==
    /\ Practices \subseteq Nat \ {0} /\ FirstPractices \subseteq Practices
    /\ FirstMatches \subseteq FirstPractices
    /\ FirstText \in Texts /\ Texts \cap {Unborn, Gone, ""} = {}
    /\ Practices \in Filters /\ {MaxGestures, MaxRequests, MaxLost} \subseteq Nat

VARIABLES
    practices,  \* rows of compliance.practice_items: the text, or Unborn or Gone
    matches,    \* results of matching: the practice, its text then, accepted or not
    evidence,   \* evidence: the practice it is titled after, the match, its status
    list,       \* items, and the filter and page they are listed for; loading
    drawer,     \* mode, selected, the fields, results and setStatus
    requests,   \* requests that were not answered
    mixed,      \* history: something else happened during a request, or it failed
    tally       \* gestures and losses so far

practiceVars == <<practices, matches, evidence, list, drawer, requests, mixed, tally>>
practiceRows == <<practices, matches, evidence>>

Nobody == 0
There == {p \in Practices : practices[p] \notin {Unborn, Gone}}
ItemsFor(filter) == {[id |-> p, text |-> practices[p]] : p \in There \cap filter}
TextOf(items, p) == (CHOOSE i \in items : i.id = p).text
Listed(items) == {i.id : i \in items}

Init ==
    /\ practices = [p \in Practices |-> IF p \in FirstPractices THEN FirstText ELSE Unborn]
    /\ matches = {[practice |-> p, text |-> FirstText, accepted |-> TRUE] : p \in FirstMatches}
    /\ evidence = {}
    /\ list = [items |-> ItemsFor(Practices), filter |-> Practices, loading |-> FALSE]
    /\ drawer = [mode |-> "review", selected |-> Nobody, text |-> "", of |-> Nobody,
                 results |-> {}, status |-> ""]
    /\ requests = {}
    /\ mixed = FALSE
    /\ tally = [gestures |-> 0, lost |-> 0]

(***************************************************************************)
(* The page.  While a list is loaded, nothing else is shown, and while the *)
(* drawer is open, the list behind it cannot be used.                      *)
(***************************************************************************)

Gesture == /\ ~list.loading
           /\ tally.gestures < MaxGestures
           /\ tally' = [tally EXCEPT !.gestures = @ + 1]

InDrawer == drawer.mode = "add" \/ drawer.selected # Nobody
Saving == \E q \in requests : q.op \in {"save", "create", "another"}
Deleting == \E q \in requests : q.op = "delete"

Request(op, p, text, ids) ==
    [op |-> op, practice |-> p, text |-> text, ids |-> ids, items |-> {},
     filter |-> list.filter, step |-> "sent"]

(* A click that sends a request: the closure keeps the filter of the click. *)
Send(request) ==
    /\ Cardinality(requests) < MaxRequests
    /\ request \notin requests
    /\ requests' = requests \cup {request}
    /\ mixed' = (mixed \/ requests # {})

Quietly == mixed' = (mixed \/ requests # {}) /\ UNCHANGED requests

(* A filter, a page or a page size is chosen: the effect loads the list anew. *)
Choose(filter) ==
    /\ Gesture /\ ~InDrawer
    /\ filter # list.filter
    /\ Cardinality(requests) < MaxRequests
    /\ list' = [list EXCEPT !.filter = filter, !.loading = TRUE]
    /\ requests' = requests \cup {[Request("load", Nobody, "", {}) EXCEPT !.filter = filter]}
    /\ mixed' = (mixed \/ requests # {})
    /\ UNCHANGED <<practiceRows, drawer>>

(* openEditor, openAdd *)
Open(p) ==
    /\ Gesture /\ ~InDrawer
    /\ p \in Listed(list.items) \cup {Nobody}
    /\ drawer' = [mode |-> IF p = Nobody THEN "add" ELSE "edit", selected |-> p,
                  text |-> IF p = Nobody THEN "" ELSE TextOf(list.items, p),
                  of |-> p, results |-> {}, status |-> ""]
    /\ Quietly
    /\ UNCHANGED <<practiceRows, list>>

(* Cancel is disabled while a request saves; Escape and a click beside the drawer are
   not. *)
CloseDrawer ==
    /\ Gesture /\ InDrawer
    /\ drawer' = [drawer EXCEPT !.mode = "review", !.selected = Nobody]
    /\ Quietly
    /\ UNCHANGED <<practiceRows, list>>

Type(text) ==
    /\ Gesture /\ InDrawer /\ text # drawer.text
    /\ drawer' = [drawer EXCEPT !.text = text]
    /\ Quietly
    /\ UNCHANGED <<practiceRows, list>>

ChooseStatus(status) ==
    /\ Gesture /\ InDrawer /\ drawer.results # {} /\ status # drawer.status
    /\ drawer' = [drawer EXCEPT !.status = status]
    /\ Quietly
    /\ UNCHANGED <<practiceRows, list>>

(* savePractice, and createFromDrawer, which wants a title and a description *)
Save ==
    /\ Gesture /\ InDrawer /\ ~Saving
    /\ \/ drawer.mode # "add" /\ Send(Request("save", drawer.selected, drawer.text, {}))
       \/ /\ drawer.mode = "add" /\ drawer.text # ""
          /\ \E op \in {"create", "another"} : Send(Request(op, Nobody, drawer.text, {}))
    /\ UNCHANGED <<practiceRows, list, drawer>>

(* deletePractice in the drawer, deletePracticeByItem in the list *)
Delete(p) ==
    /\ Gesture
    /\ IF InDrawer THEN drawer.mode # "add" /\ p = drawer.selected /\ ~Deleting
                   ELSE p \in Listed(list.items)
    /\ Send(Request("delete", p, "", IF drawer.selected = p THEN {p} ELSE {}))
    /\ UNCHANGED <<practiceRows, list, drawer>>

(* runMatch takes the row along; bulkMatch *)
Match(p) ==
    /\ Gesture /\ ~InDrawer
    /\ \/ p = Nobody /\ (\A q \in requests : q.op # "bulk")
             /\ Send(Request("bulk", Nobody, "", {}))
       \/ p \in Listed(list.items) /\ Send(Request("match", p, TextOf(list.items, p), {}))
    /\ UNCHANGED <<practiceRows, list, drawer>>

(* toggleAccept *)
Accept(match) ==
    /\ Gesture /\ InDrawer /\ match \in drawer.results
    /\ Send(Request("accept", match.practice, match.text, {~match.accepted}))
    /\ UNCHANGED <<practiceRows, list, drawer>>

(* applyMapping, of the matches that are shown as accepted *)
Apply ==
    /\ Gesture /\ InDrawer /\ drawer.selected # Nobody
    /\ \A q \in requests : q.op # "apply"
    /\ LET accepted == {m \in drawer.results : m.accepted}
       IN  /\ accepted # {}
           /\ Send(Request("apply", drawer.selected, drawer.status,
                           {<<m.practice, m.text>> : m \in accepted}))
    /\ UNCHANGED <<practiceRows, list, drawer>>

(***************************************************************************)
(* The server                                                              *)
(***************************************************************************)

Answered(q, step, items) ==
    requests' = (requests \ {q}) \cup {[q EXCEPT !.step = step, !.items = items]}

Refused(q) == Answered(q, "failed", {}) /\ UNCHANGED practiceRows

(* list_practices *)
ServeLoad(q) ==
    /\ q.op = "load"
    /\ Answered(q, "done", ItemsFor(q.filter))
    /\ UNCHANGED practiceRows

(* create_practice *)
ServeCreate(q) ==
    /\ q.op \in {"create", "another"}
    /\ \E p \in Practices : practices[p] = Unborn
    /\ practices' = [practices EXCEPT ![Min({p \in Practices : practices[p] = Unborn})] = q.text]
    /\ Answered(q, "done", {})
    /\ UNCHANGED <<matches, evidence>>

(* update_practice, delete_practice *)
ServeChange(q) ==
    /\ q.op \in {"save", "delete"}
    /\ IF q.practice \notin There THEN Refused(q)
       ELSE /\ practices' = [practices EXCEPT ![q.practice] =
                                 IF q.op = "save" THEN q.text ELSE Gone]
            /\ Answered(q, "done", {})
            /\ UNCHANGED <<matches, evidence>>

(* run_practice_match: the results of the same text are kept and given again. *)
Matched(p) ==
    LET same == {m \in matches : m.practice = p /\ m.text = practices[p]}
    IN  IF same # {} THEN same
        ELSE {[practice |-> p, text |-> practices[p], accepted |-> FALSE]}

(* match_practice, match_practices_bulk *)
ServeMatch(q) ==
    /\ q.op \in {"match", "bulk"}
    /\ IF q.op = "match" /\ q.practice \notin There THEN Refused(q)
       ELSE LET ids == IF q.op = "match" THEN {q.practice} ELSE There
            IN  /\ matches' = matches \cup UNION {Matched(p) : p \in ids}
                /\ Answered(q, "done", IF q.op = "match" THEN Matched(q.practice) ELSE {})
                /\ UNCHANGED <<practices, evidence>>

(* update_practice_result *)
ServeAccept(q) ==
    LET its == {m \in matches : m.practice = q.practice /\ m.text = q.text}
        now == {[m EXCEPT !.accepted = TRUE \in q.ids] : m \in its}
    IN  /\ q.op = "accept"
        /\ IF its = {} THEN Refused(q)
           ELSE /\ matches' = (matches \ its) \cup now
                /\ Answered(q, "done", now)
                /\ UNCHANGED <<practices, evidence>>

(* Mutant: the matches are looked for without the practice. *)
ToApplyOfAny(q) == {m \in matches : <<m.practice, m.text>> \in q.ids}

(* The matches of apply_practice_mapping: those of the practice *)
ToApply(q) == {m \in matches : m.practice = q.practice /\ <<m.practice, m.text>> \in q.ids}

(* apply_practice_mapping: evidence is titled after the practice, and its text is the
   practice's now. *)
ServeApply(q) ==
    /\ q.op = "apply"
    /\ IF q.practice \notin There \/ ToApply(q) = {} THEN Refused(q)
       ELSE /\ evidence' = evidence \cup
                   {[title |-> q.practice, practice |-> m.practice, matched |-> m.text,
                     text |-> practices[q.practice], status |-> q.text] : m \in ToApply(q)}
            /\ Answered(q, "done", {})
            /\ UNCHANGED <<practices, matches>>

Serve(q) ==
    /\ q.step = "sent"
    /\ \/ ServeLoad(q) \/ ServeCreate(q) \/ ServeChange(q)
       \/ ServeMatch(q) \/ ServeAccept(q) \/ ServeApply(q)
    /\ UNCHANGED <<list, drawer, mixed, tally>>

(* A request fails, before it is served or after. *)
Lose(q) ==
    /\ tally.lost < MaxLost /\ q.step # "failed"
    /\ tally' = [tally EXCEPT !.lost = @ + 1]
    /\ Answered(q, "failed", {})
    /\ mixed' = TRUE
    /\ UNCHANGED <<practiceRows, list, drawer>>

(***************************************************************************)
(* The answers                                                             *)
(***************************************************************************)

(* loadItems after a change: with the filter of the click *)
Reload(q, op) ==
    requests' = (requests \ {q}) \cup
                    {[Request(op, Nobody, "", {}) EXCEPT !.op = "load", !.filter = q.filter,
                                                         !.text = op]}

(* The fields after an entry that another is to follow *)
Emptied == [drawer EXCEPT !.text = "", !.of = Nobody, !.mode = "add", !.selected = Nobody]

(* setMeta: the page that an overtaken answer is about is the page again, and the effect
   loads it. *)
PageSetBack(q) ==
    /\ q.step = "done" /\ q.filter # list.filter
    /\ \E filter \in Filters \ {list.filter} :
        /\ list' = [list EXCEPT !.filter = filter, !.items = q.items, !.loading = TRUE]
        /\ requests' = (requests \ {q}) \cup
               {[Request("load", Nobody, "", {}) EXCEPT !.filter = filter]}

(* loadItems, and what createFromDrawer does when it is done; an answer for another filter
   may be for another page or only for another search. *)
Loaded(q) ==
    /\ q.op = "load"
    /\ \/ PageSetBack(q)
       \/ /\ list' = [list EXCEPT !.loading = FALSE,
                                   !.items = IF q.step = "done" THEN q.items ELSE @]
          /\ requests' = requests \ {q}
    /\ drawer' = CASE q.text = "another" -> Emptied
                   [] q.text = "create" -> [drawer EXCEPT !.selected = Nobody]
                   [] OTHER -> drawer
    /\ UNCHANGED mixed

(* Mutant: what was accepted is shown as it was. *)
MappingAnsweredAsShown(q) ==
    /\ q.op \in {"accept", "apply"}
    /\ requests' = requests \ {q}
    /\ drawer' = IF q.op = "apply" /\ q.step # "failed" THEN [drawer EXCEPT !.status = ""]
                                                       ELSE drawer
    /\ UNCHANGED <<list, mixed>>

(* Mutant: no reload after a deletion. *)
ChangedQuietly(q) ==
    /\ q.op \in {"save", "create", "another", "delete", "bulk"}
    /\ IF q.step = "failed" \/ q.op = "delete"
       THEN requests' = requests \ {q} /\ UNCHANGED list
       ELSE Reload(q, q.op) /\ list' = [list EXCEPT !.loading = TRUE]
    /\ drawer' = drawer
    /\ UNCHANGED mixed

(* Mutant: the practice whose deletion was confirmed stays in the drawer. *)
ChangedInDrawer(q) ==
    /\ q.op \in {"save", "create", "another", "delete", "bulk"}
    /\ IF q.step = "failed"
       THEN requests' = requests \ {q} /\ UNCHANGED <<list, drawer>>
       ELSE /\ Reload(q, q.op)
            /\ list' = [list EXCEPT !.loading = TRUE]
            /\ drawer' = IF q.op = "save" THEN [drawer EXCEPT !.selected = q.practice]
                                          ELSE drawer
    /\ UNCHANGED mixed

(* The answer of a save selects its practice whichever is open now, and leaves the fields;
   that of a deletion from the drawer closes whichever drawer is open. *)
Changed(q) ==
    /\ q.op \in {"save", "create", "another", "delete", "bulk"}
    /\ IF q.step = "failed"
       THEN requests' = requests \ {q} /\ UNCHANGED <<list, drawer>>
       ELSE /\ Reload(q, q.op)
            /\ list' = [list EXCEPT !.loading = TRUE]
            /\ drawer' = CASE q.op = "save" -> [drawer EXCEPT !.selected = q.practice]
                           [] q.op = "delete" /\ q.ids # {} ->
                                  [drawer EXCEPT !.selected = Nobody, !.results = {}]
                           [] OTHER -> drawer
    /\ UNCHANGED mixed

(* runMatch opens the drawer, whatever is open, with the row as it was at the click; the
   mode and the status to set stay. *)
MatchAnswered(q) ==
    /\ q.op = "match"
    /\ requests' = requests \ {q}
    /\ drawer' = IF q.step = "failed" THEN drawer
                 ELSE [drawer EXCEPT !.selected = q.practice, !.text = q.text,
                                     !.of = q.practice, !.results = q.items]
    /\ UNCHANGED <<list, mixed>>

(* toggleAccept, applyMapping *)
MappingAnswered(q) ==
    /\ q.op \in {"accept", "apply"}
    /\ requests' = requests \ {q}
    /\ drawer' = IF q.step = "failed" THEN drawer
                 ELSE IF q.op = "apply" THEN [drawer EXCEPT !.status = ""]
                 ELSE [drawer EXCEPT !.results =
                          {IF <<m.practice, m.text>> = <<q.practice, q.text>>
                           THEN [m EXCEPT !.accepted = TRUE \in q.ids] ELSE m : m \in @}]
    /\ UNCHANGED <<list, mixed>>

Answer(q) ==
    /\ q.step # "sent"
    /\ Loaded(q) \/ Changed(q) \/ MatchAnswered(q) \/ MappingAnswered(q)
    /\ UNCHANGED <<practiceRows, tally>>

Next ==
    \/ \E filter \in Filters : Choose(filter)
    \/ \E p \in Practices \cup {Nobody} : Open(p) \/ Delete(p) \/ Match(p)
    \/ CloseDrawer \/ Save \/ Apply
    \/ \E text \in Texts : Type(text)
    \/ \E status \in {"", "partial"} : ChooseStatus(status)
    \/ \E match \in drawer.results : Accept(match)
    \/ \E q \in requests : Serve(q) \/ Lose(q) \/ Answer(q)

Spec == Init /\ [][Next]_practiceVars

(***************************************************************************)
(* Properties                                                              *)
(***************************************************************************)

(* The types of the variables. *)
TypeOK ==
    /\ practices \in [Practices -> Texts \cup {"", Unborn, Gone}]
    /\ matches \cup drawer.results
           \subseteq [practice : Practices, text : Texts \cup {""}, accepted : BOOLEAN]
    /\ evidence \subseteq [title : Practices, practice : Practices, matched : Texts \cup {""},
                           text : Texts \cup {""}, status : {"", "partial"}]
    /\ list.items \subseteq [id : Practices, text : Texts \cup {""}]
    /\ list.filter \in Filters /\ list.loading \in BOOLEAN
    /\ drawer.mode \in {"add", "edit", "review"}
    /\ {drawer.selected, drawer.of} \subseteq Practices \cup {Nobody}
    /\ drawer.text \in Texts \cup {""}
    /\ \A q \in requests : q.step \in {"sent", "done", "failed"}
    /\ mixed \in BOOLEAN

(* Evidence that is titled after a practice comes of a match of that practice, also when
   the answer of a save put the name of another practice over the matches. *)
EvidenceIsOfItsPractice == \A e \in evidence : e.practice = e.title

(* When nothing is under way and no request met another gesture or failed, the list is the
   server's for the filter that is shown, and the drawer has the fields of the practice
   whose name it bears, which is there, with its matches as they are stored. *)
QuietPageIsCurrent ==
    requests = {} /\ ~mixed =>
        /\ list.items = ItemsFor(list.filter)
        /\ drawer.selected # Nobody => /\ drawer.selected \in There
                                       /\ drawer.of = drawer.selected
                                       /\ drawer.results \subseteq matches

=============================================================================
