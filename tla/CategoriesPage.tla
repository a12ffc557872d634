---------------------------- MODULE CategoriesPage ----------------------------
(***************************************************************************)
(* The categories of the question bank: the page that keeps their tree     *)
(* (src/frontend/app/(app)/assessments/categories/page.tsx) and the        *)
(* endpoints behind it (assessment_service.py).                            *)
(*                                                                         *)
(* The database keeps the parent of each category; nothing there keeps     *)
(* the parents a forest but the choices the page offers.  Names and slugs  *)
(* are left out: a request that they make fail is one that fails before    *)
(* it is served.                                                           *)
(***************************************************************************)
EXTENDS CategoryForest, FiniteSetsExt

CONSTANTS
    FirstParents, \* the parents of the categories there are at first
    FirstHome,    \* the category of the question
    MaxGestures,  \* bound: gestures
    MaxRequests,  \* bound: requests at a time
    MaxLost       \* bound: requests that fail

(* The foreign keys hold, and the page has made no cycle before. *)
CategoryAssumption ==
    /\ Categories \subseteq Nat \ {Root} /\ IsFiniteSet(Categories)
    /\ FirstParents \in [Categories -> Categories \cup {Root, Gone, Unborn}]
    /\ \A c \in There(FirstParents) : /\ FirstParents[c] \in There(FirstParents) \cup {Root}
                                      /\ Rooted(FirstParents, c)
    /\ FirstHome \in There(FirstParents)
    /\ {MaxGestures, MaxRequests, MaxLost} \subseteq Nat

VARIABLES
    parents,   \* parent_id of each category; Unborn and Gone: no row
    home,      \* category_id of the question
    forest,    \* categories and tree, as the page has them; loading
    panel,     \* the panel, the category it is for, and the choices in it
    requests,  \* requests of the page that were not answered
    stale,     \* history: a request met another, or failed
    merged,    \* history: a category was merged into one below it
    deleted,   \* history: categories whose deletion was served
    tally      \* gestures and losses so far

categoryVars == <<parents, home, forest, panel, requests, stale, merged, deleted, tally>>
serverVars == <<parents, home, merged, deleted>>

Idle == [mode |-> "idle", target |-> Root, parent |-> Root, drop |-> Root]

Init ==
    /\ parents = FirstParents /\ home = FirstHome
    /\ forest = [tree |-> FirstParents, loading |-> FALSE]
    /\ panel = Idle
    /\ requests = {}
    /\ stale = FALSE /\ merged = FALSE /\ deleted = {}
    /\ tally = [gestures |-> 0, lost |-> 0]

(***************************************************************************)
(* The page                                                                *)
(***************************************************************************)

Gesture == tally.gestures < MaxGestures /\ tally' = [tally EXCEPT !.gestures = @ + 1]
Page == ~forest.loading /\ UNCHANGED serverVars
Saving == \E q \in requests : q.op # "load"

Request(op, id, to) == [op |-> op, id |-> id, to |-> to, step |-> "sent", tree |-> FirstParents]

Send(request) ==
    /\ Cardinality(requests) < MaxRequests /\ request \notin requests
    /\ requests' = requests \cup {request}
    /\ stale' = (stale \/ requests # {})

(* Refresh, and a new access token *)
Refresh ==
    /\ Page /\ Gesture
    /\ Send(Request("load", Root, Root))
    /\ forest' = [forest EXCEPT !.loading = TRUE]
    /\ UNCHANGED panel

(* Mutant: only the category itself is no parent of it. *)
ParentOptionsButSelf == There(forest.tree) \ {panel.target}

(* parentOptions; of a new category, the groups and the roots *)
ParentOptions ==
    IF panel.target = Root
    THEN {c \in There(forest.tree) : Children(forest.tree, c) # {} \/ forest.tree[c] = Root}
    ELSE There(forest.tree) \ Below(forest.tree, panel.target)

(* openCreate, for any category as parent, openEdit, and openMerge *)
Open(mode, c) ==
    /\ Page /\ Gesture
    /\ c \in InTree(forest.tree) \cup IF mode = "create" THEN {Root} ELSE {}
    /\ panel' = CASE mode = "create" -> [Idle EXCEPT !.mode = mode, !.parent = c]
                  [] mode = "edit" -> [mode |-> mode, target |-> c,
                                       parent |-> forest.tree[c], drop |-> Root]
                  [] mode = "merge" -> [mode |-> mode, target |-> c, parent |-> c,
                                        drop |-> Root]
    /\ UNCHANGED <<forest, requests, stale>>

(* setFormParentId; setMergeKeepId and setMergeDeleteId *)
Choose(c, d) ==
    /\ Page
    /\ \/ /\ panel.mode \in {"create", "edit"} /\ d = Root
          /\ c \in ParentOptions \cup {Root}
       \/ /\ panel.mode = "merge" /\ c # d
          /\ {c, d} \subseteq There(forest.tree)
    /\ panel' = [panel EXCEPT !.parent = c, !.drop = d]
    /\ panel' # panel
    /\ UNCHANGED <<forest, requests, stale, tally>>

ClosePanel ==
    /\ Page /\ panel # Idle /\ panel' = Idle
    /\ UNCHANGED <<forest, requests, stale, tally>>

(* handleSave sends a change of the parent, and nothing when there is none; handleMerge *)
Save ==
    /\ Page /\ ~Saving
    /\ CASE panel.mode = "create" -> Send(Request("create", Root, panel.parent))
         [] panel.mode = "edit" -> /\ panel.parent # forest.tree[panel.target]
                                   /\ Send(Request("move", panel.target, panel.parent))
         [] panel.mode = "merge" -> /\ panel.drop # Root
                                    /\ Send(Request("merge", panel.parent, panel.drop))
         [] OTHER -> FALSE
    /\ UNCHANGED <<forest, panel, tally>>

(* handleDelete, after the confirmation under the category *)
Delete(c) ==
    /\ Page /\ Gesture /\ ~Saving /\ c \in InTree(forest.tree)
    /\ Send(Request("delete", c, Root))
    /\ UNCHANGED <<forest, panel>>

(***************************************************************************)
(* The server                                                              *)
(***************************************************************************)

Answered(q, step) == requests' = (requests \ {q}) \cup {[q EXCEPT !.step = step]}

ServeLoad(q) ==
    /\ q.op = "load"
    /\ requests' = (requests \ {q}) \cup {[q EXCEPT !.step = "done", !.tree = parents]}
    /\ UNCHANGED serverVars

(* create_category, update_category: the parent must be there and another. *)
ServePlace(q) ==
    LET id == IF q.op = "move" THEN q.id ELSE Min({c \in Categories : parents[c] = Unborn})
    IN  /\ q.op \in {"create", "move"}
        /\ q.op = "create" => \E c \in Categories : parents[c] = Unborn
        /\ IF /\ {q.to} \ {Root} \subseteq There(parents) /\ q.to # id
              /\ q.op = "move" => id \in There(parents)
           THEN parents' = [parents EXCEPT ![id] = q.to] /\ Answered(q, "done")
           ELSE Answered(q, "failed") /\ UNCHANGED parents
        /\ UNCHANGED <<home, merged, deleted>>

(* The parents when a category is gone and its children went to another *)
Left(gone, to) ==
    [c \in Categories |-> IF c = gone THEN Gone ELSE IF parents[c] = gone THEN to ELSE parents[c]]

(* Where the children of a category go: the foreign key makes roots of those of a category
   that is its own parent. *)
Promoted(c) == IF parents[c] = c THEN Root ELSE parents[c]

(* delete_category: the children go to the parent, the question to no category. *)
ServeDelete(q) ==
    /\ q.op = "delete"
    /\ IF q.id \notin There(parents)
       THEN Answered(q, "failed") /\ UNCHANGED <<parents, home, deleted>>
       ELSE /\ parents' = Left(q.id, Promoted(q.id))
            /\ home' = IF home = q.id THEN Root ELSE home
            /\ deleted' = deleted \cup {q.id}
            /\ Answered(q, "done")
    /\ UNCHANGED merged

(* Mutant: the questions stay with the category that goes. *)
ServeMergeTree(q) ==
    /\ q.op = "merge"
    /\ IF ~({q.id, q.to} \subseteq There(parents))
       THEN Answered(q, "failed") /\ UNCHANGED <<parents, home, merged>>
       ELSE /\ parents' = Left(q.to, q.id)
            /\ home' = IF home = q.to THEN Root ELSE home
            /\ merged' = (merged \/ q.id \in Below(parents, q.to))
            /\ Answered(q, "done")
    /\ UNCHANGED deleted

(* merge_categories: the children and the question of the one go to the other, also when
   the other is one of the children. *)
ServeMerge(q) ==
    /\ q.op = "merge"
    /\ IF ~({q.id, q.to} \subseteq There(parents))
       THEN Answered(q, "failed") /\ UNCHANGED <<parents, home, merged>>
       ELSE /\ parents' = Left(q.to, q.id)
            /\ home' = IF home = q.to THEN q.id ELSE home
            /\ merged' = (merged \/ q.id \in Below(parents, q.to))
            /\ Answered(q, "done")
    /\ UNCHANGED deleted

Serve(q) ==
    /\ q.step = "sent"
    /\ ServeLoad(q) \/ ServePlace(q) \/ ServeDelete(q) \/ ServeMerge(q)
    /\ UNCHANGED <<forest, panel, stale, tally>>

Lose(q) ==
    /\ tally.lost < MaxLost /\ q.step # "failed"
    /\ tally' = [tally EXCEPT !.lost = @ + 1]
    /\ Answered(q, "failed")
    /\ stale' = TRUE
    /\ UNCHANGED <<serverVars, forest, panel>>

(* Mutant: a change is shown with the next load. *)
AnswerChangeOnly(q) ==
    /\ q.op # "load"
    /\ requests' = requests \ {q}
    /\ IF q.step = "done" THEN panel' = Idle ELSE UNCHANGED panel
    /\ UNCHANGED forest

(* The answer of a change: the page loads anew and then closes whichever panel is open;
   the one can only be seen after the other. *)
AnswerChange(q) ==
    /\ q.op # "load"
    /\ IF q.step = "done"
       THEN /\ requests' = (requests \ {q}) \cup {Request("load", Root, Root)}
            /\ forest' = [forest EXCEPT !.loading = TRUE]
            /\ panel' = Idle
       ELSE requests' = requests \ {q} /\ UNCHANGED <<forest, panel>>

(* The answer of load *)
AnswerLoad(q) ==
    /\ q.op = "load"
    /\ requests' = requests \ {q}
    /\ forest' = [loading |-> FALSE, tree |-> IF q.step = "done" THEN q.tree ELSE forest.tree]
    /\ UNCHANGED panel

Answer(q) ==
    /\ q.step # "sent"
    /\ AnswerLoad(q) \/ AnswerChange(q)
    /\ UNCHANGED <<serverVars, stale, tally>>

Next ==
    \/ Refresh \/ ClosePanel \/ Save
    \/ \E mode \in {"create", "edit", "merge"}, c \in Categories \cup {Root} : Open(mode, c)
    \/ \E c, d \in Categories \cup {Root} : Choose(c, d)
    \/ \E c \in Categories : Delete(c)
    \/ \E q \in requests : Serve(q) \/ Lose(q) \/ Answer(q)

Spec == Init /\ [][Next]_categoryVars

(***************************************************************************)
(* Properties                                                              *)
(***************************************************************************)

(* The types of the variables. *)
TypeOK ==
    /\ {parents, forest.tree}
           \subseteq [Categories -> Categories \cup {Root, Gone, Unborn}]
    /\ home \in Categories \cup {Root} /\ deleted \subseteq Categories
    /\ panel.mode \in {"idle", "create", "edit", "merge"}
    /\ {panel.target, panel.parent, panel.drop} \subseteq Categories \cup {Root}
    /\ \A q \in requests : q.step \in {"sent", "done", "failed"}
    /\ {forest.loading, stale, merged} \subseteq BOOLEAN

(* Every category hangs under a root, so that the tree has it. *)
CategoriesAreInTree == There(parents) = InTree(parents)

(* As long as no list was stale when a parent was chosen from it, and no category was
   merged into one below it, every category hangs under a root: also after any moves,
   deletions, which promote the children, and other merges. *)
ForestUnlessStale == ~stale /\ ~merged => CategoriesAreInTree

(* The question's category is there, and the question is without one only if its category
   was deleted: merging takes it along, again and again. *)
QuestionsAreKept ==
    /\ home # Root => home \in There(parents)
    /\ home = Root => deleted # {}

(* When nothing is under way and nothing met or failed, the page has the server's tree. *)
QuietTreeIsCurrent == requests = {} /\ ~stale => forest.tree = parents

=============================================================================
