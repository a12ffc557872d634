----------------------------- MODULE CategoryMenu -----------------------------
(***************************************************************************)
(* The menu of src/frontend/components/assessments/                        *)
(* hierarchical-category-menu.tsx, by which the question bank and the test *)
(* builder select categories: a path into the tree, and a selection of     *)
(* categories without children.  The tree is one of the server, which a    *)
(* reload of the page above replaces while path and selection stay.        *)
(***************************************************************************)
EXTENDS CategoryForest, Sequences

CONSTANT MaxReloads   \* bound: reloads

VARIABLES
    tree,      \* the tree that is shown
    path,      \* the categories that were opened, each with its tree then
    selected,  \* selectedIds, "unclassified" left out
    reloads    \* reloads so far

menuVars == <<tree, path, selected, reloads>>

Forests == {f \in [Categories -> Categories \cup {Root}] : \A c \in Categories : Rooted(f, c)}

Init ==
    /\ tree \in Forests
    /\ path = <<>> /\ selected = {} /\ reloads = 0

(* currentChildren, with the tree they are in: that of the category, as it was opened *)
Top == IF path = <<>> THEN [node |-> Root, tree |-> tree] ELSE path[Len(path)]
Shown == Children(Top.tree, Top.node)

(* Mutant: what has children can be ticked, too. *)
LeavesAndGroups == UNION {Below(Top.tree, c) : c \in Shown}

(* leafIds *)
LeavesShown == UNION {Leaves(Top.tree, c) : c \in Shown}

DrillInto(c) ==
    /\ c \in Shown /\ Children(Top.tree, c) # {}
    /\ path' = Append(path, [node |-> c, tree |-> Top.tree])
    /\ UNCHANGED <<tree, selected, reloads>>

DrillOut ==
    /\ path # <<>>
    /\ path' = SubSeq(path, 1, Len(path) - 1)
    /\ UNCHANGED <<tree, selected, reloads>>

(* toggle *)
Toggle(c) ==
    /\ c \in Shown /\ Children(Top.tree, c) = {}
    /\ selected' = IF c \in selected THEN selected \ {c} ELSE selected \cup {c}
    /\ UNCHANGED <<tree, path, reloads>>

(* toggleAll, in an opened category *)
ToggleAll ==
    /\ path # <<>>
    /\ selected' = IF LeavesShown \subseteq selected THEN selected \ LeavesShown
                                                    ELSE selected \cup LeavesShown
    /\ UNCHANGED <<tree, path, reloads>>

(* All categories *)
Clear ==
    /\ path = <<>> /\ selected # {}
    /\ selected' = {}
    /\ UNCHANGED <<tree, path, reloads>>

(* The page above has a new tree. *)
Reload ==
    /\ reloads < MaxReloads
    /\ tree' \in Forests \ {tree}
    /\ reloads' = reloads + 1
    /\ UNCHANGED <<path, selected>>

Next ==
    \/ DrillOut \/ ToggleAll \/ Clear \/ Reload
    \/ \E c \in Categories : DrillInto(c) \/ Toggle(c)

Spec == Init /\ [][Next]_menuVars

(***************************************************************************)
(* Properties                                                              *)
(***************************************************************************)

(* The types of the variables. *)
TypeOK ==
    /\ tree \in Forests
    /\ \A i \in DOMAIN path : path[i].node \in Categories /\ path[i].tree \in Forests
    /\ selected \subseteq Categories /\ reloads \in 0..MaxReloads

(* As long as the tree is not replaced, what is selected can be unticked: it has no
   children, so that it is below exactly one of the entries of the first panel. *)
SelectionIsShown ==
    reloads = 0 => \A c \in selected :
                       Cardinality({r \in Children(tree, Root) : c \in Leaves(tree, r)}) = 1

=============================================================================
