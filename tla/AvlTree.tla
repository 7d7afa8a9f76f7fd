------------------------------- MODULE AvlTree -------------------------------
(***************************************************************************)
(* wzq_study/avltree.cpp: insert goes down from the root to a free place,    *)
(* one call of insert_into_tree per level, and recover_avl comes back up    *)
(* through the parent pointers and puts the depths right.  The branches     *)
(* for a node out of balance are empty: the tree is not rotated.            *)
(*                                                                         *)
(* Nodes are numbered in the order in which insert makes them; node 0 is    *)
(* NULL, with the depth 0 that getdepth gives it.                          *)
(***************************************************************************)
EXTENDS Integers, Sequences, FiniteSets, FiniteSetsExt

CONSTANTS Elements,
          MaxNodes    \* bound: nodes of the tree

AvlTreeAssumption == Elements \subseteq Nat /\ MaxNodes \in Nat

VARIABLES tree,       \* the nodes, a sequence
          tr,         \* the root
          np,         \* the new node, then the one recover_avl has reached
          pos,        \* the node insert_into_tree was called for
          pc          \* "idle", "insert" in insert_into_tree, "recover" in recover_avl

vars == <<tree, tr, np, pos, pc>>

NULL == 0
Nodes == DOMAIN tree

Init == tree = <<>> /\ tr = NULL /\ np = NULL /\ pos = NULL /\ pc = "idle"

getdepth(n) == IF n = NULL THEN 0 ELSE tree[n].depth

\* insert_value makes the node and enters insert_into_tree, which returns at once
\* from an empty tree; insert then makes the node the root.
insert(element) ==
    /\ pc = "idle" /\ Len(tree) < MaxNodes
    /\ tree' = Append(tree, [element |-> element, depth |-> 1, parent |-> NULL, lchild |-> NULL, rchild |-> NULL])
    /\ np' = Len(tree) + 1
    /\ IF tr = NULL THEN tr' = np' /\ pc' = "recover" /\ UNCHANGED pos
       ELSE pos' = tr /\ pc' = "insert" /\ UNCHANGED tr

GoesLeft(n) == tree[n].element >= tree[np].element

Link(side) == tree' = [tree EXCEPT ![np].parent = pos, ![pos][side] = np]

\* One call: np becomes a child, or the call for that child follows.
insert_into_tree ==
    /\ pc = "insert"
    /\ LET side == IF GoesLeft(pos) THEN "lchild" ELSE "rchild"
       IN IF tree[pos][side] = NULL THEN Link(side) /\ pc' = "recover" /\ UNCHANGED pos
          ELSE pos' = tree[pos][side] /\ UNCHANGED <<tree, pc>>
    /\ UNCHANGED <<tr, np>>

update_depth(n) == LET l == getdepth(tree[n].lchild)
                       r == getdepth(tree[n].rchild)
                   IN [tree EXCEPT ![n].depth = (IF l >= r THEN l ELSE r) + 1]

\* A bug for recover_avl: the root is left out.
recover_avlBelow == /\ pc = "recover" /\ np # NULL
                    /\ tree' = IF np = tr THEN tree ELSE update_depth(np)
                    /\ np' = tree[np].parent
                    /\ UNCHANGED <<tr, pos, pc>>

\* One turn of recover_avl's loop.  It leaves by the break only at the root.
recover_avl == /\ pc = "recover" /\ np # NULL
               /\ tree' = update_depth(np)
               /\ np' = tree[np].parent
               /\ UNCHANGED <<tr, pos, pc>>

recovered == pc = "recover" /\ np = NULL /\ pc' = "idle" /\ UNCHANGED <<tree, tr, np, pos>>

Next == insert_into_tree \/ recover_avl \/ recovered \/ \E element \in Elements : insert(element)

Spec == Init /\ [][Next]_vars

----------------------------------------------------------------------------
\* What lpr_sort, plr_sort and lrp_sort display: the nodes between, before and
\* after their subtrees.
lpr_sort == LET walk[n \in 0 .. Len(tree)] ==
                IF n = NULL THEN <<>> ELSE walk[tree[n].lchild] \o <<n>> \o walk[tree[n].rchild]
            IN walk[tr]

plr_sort == LET walk[n \in 0 .. Len(tree)] ==
                IF n = NULL THEN <<>> ELSE <<n>> \o walk[tree[n].lchild] \o walk[tree[n].rchild]
            IN walk[tr]

lrp_sort == LET walk[n \in 0 .. Len(tree)] ==
                IF n = NULL THEN <<>> ELSE walk[tree[n].lchild] \o walk[tree[n].rchild] \o <<n>>
            IN walk[tr]

----------------------------------------------------------------------------
\* Types, and parent and child pointers that are each other's inverse.
TypeOK == LET Pointers == 0 .. Len(tree) IN
    /\ tree \in Seq([element : Elements, depth : 1 .. MaxNodes, parent : Pointers, lchild : Pointers, rchild : Pointers])
    /\ tr \in Pointers /\ np \in Pointers /\ pos \in Pointers
    /\ pc \in {"idle", "insert", "recover"}
    /\ \A n \in Nodes, side \in {"lchild", "rchild"} : tree[n][side] # NULL => tree[tree[n][side]].parent = n
    /\ \A n \in Nodes : tree[n].parent # NULL => n \in {tree[tree[n].parent].lchild, tree[tree[n].parent].rchild}

\* A node and those above it, by the parent pointers.
Above == LET up[n \in 0 .. Len(tree)] == IF n = NULL THEN {} ELSE {n} \cup up[tree[n].parent] IN up

\* What depth stands for: the longest way down from n, found with the parent pointers.
Height(n) == Max({Cardinality(Above[d]) : d \in {e \in Nodes : n \in Above[e]}}) - Cardinality(Above[n]) + 1

\* Between calls every depth is the height of its subtree, and while recover_avl
\* is under way only the nodes it has still to come to may have another one.
DepthIsHeight == \A n \in Nodes : tree[n].depth = Height(n) \/ (pc = "recover" /\ n \in Above[np])

\* Displayed in order, the elements of the tree are sorted, and of equal ones the
\* latest is first: every node that was inserted is there, and once.
SortedInOrder ==
    pc # "insert" => LET shown == lpr_sort IN
        /\ Len(shown) = Len(tree)
        /\ \A i, j \in DOMAIN shown : i < j => \/ tree[shown[i]].element < tree[shown[j]].element
                                               \/ /\ tree[shown[i]].element = tree[shown[j]].element
                                                  /\ shown[i] > shown[j]

\* The three displays are of the same tree: a node is before those under it in the
\* first and after them in the third, and two nodes neither of which is under the
\* other are in the same order in all three.
DisplaysAgree ==
    pc = "idle" =>
        LET In(s) == [n \in Nodes |-> CHOOSE i \in DOMAIN s : s[i] = n]
            plr == In(plr_sort)
            lpr == In(lpr_sort)
            lrp == In(lrp_sort)
        IN \A m, n \in Nodes :
              \/ m = n
              \/ m \in Above[n] /\ plr[m] < plr[n] /\ lrp[n] < lrp[m]
              \/ n \in Above[m] /\ plr[n] < plr[m] /\ lrp[m] < lrp[n]
              \/ /\ m \notin Above[n] /\ n \notin Above[m]
                 /\ (plr[m] < plr[n]) = (lpr[m] < lpr[n]) /\ (lrp[m] < lrp[n]) = (lpr[m] < lpr[n])
==============================================================================
