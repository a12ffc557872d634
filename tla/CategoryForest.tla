---------------------------- MODULE CategoryForest ----------------------------
(***************************************************************************)
(* The parents of the categories of the question bank as a forest: what    *)
(* list_categories_tree (endpoints/assessments.py) makes of them, and what *)
(* the pages compute from it.                                              *)
(***************************************************************************)
EXTENDS Integers, FiniteSets

CONSTANT Categories   \* ids of categories, in the order in which they are given

Root == 0      \* of no parent, or of no category
Gone == -1     \* there was such a row
Unborn == -2   \* there will be

There(tree) == {c \in Categories : tree[c] \notin {Unborn, Gone}}

(* The category itself and what is above it, up to a root or round a cycle *)
Chain(tree, c) ==
    LET up[k \in 0..Cardinality(Categories)] ==
            IF k = 0 THEN c ELSE IF up[k - 1] = Root THEN Root ELSE tree[up[k - 1]]
    IN  {up[k] : k \in DOMAIN up}

Below(tree, c) == {d \in There(tree) : c \in Chain(tree, d)}
Children(tree, c) == {d \in There(tree) : tree[d] = c}
Rooted(tree, c) == Root \in Chain(tree, c)

(* list_categories_tree hangs every category under its parent and gives the roots. *)
InTree(tree) == {c \in There(tree) : Rooted(tree, c)}

(* collectLeafIds *)
Leaves(tree, c) == {d \in Below(tree, c) : Children(tree, d) = {}}

===============================================================================
