----------------------------- MODULE ReverseList -----------------------------
(***************************************************************************)
(* temp/reverse_list.cpp: a singly linked list is constructed, reversed in *)
(* place and destroyed.  next is the heap: the next field of every node    *)
(* that is allocated.  A step is an iteration of one of the three loops.   *)
(* (main leaves the call of distory out; the list is then lost at exit.)   *)
(***************************************************************************)
EXTENDS Naturals, Sequences, Functions

CONSTANTS Cnt,    \* the lengths construct is called with
          NULL

\* construct(0) would return a pointer that was never set.
CntAssumption == Cnt \subseteq Nat \ {0} /\ NULL \notin Nat

VARIABLES cnt,    \* the length asked for
          next,   \* the allocated nodes (a node is its data) and where they point
          p, p1,  \* the first node of the original list, and of the reversed one
          pList,  \* the last node in construct
          pc

vars == <<cnt, next, p, p1, pList, pc>>

Init == /\ cnt \in Cnt
        /\ next = <<>>
        /\ p = NULL /\ p1 = NULL /\ pList = NULL
        /\ pc = "construct"

\* The heap with a node more.
New(heap, n) == [x \in DOMAIN heap \cup {n} |-> IF x = n THEN NULL ELSE heap[x]]

Count == IF pList = NULL THEN 0 ELSE pList + 1

construct == /\ pc = "construct" /\ Count < cnt
             /\ next' = New(IF pList = NULL THEN next
                            ELSE [next EXCEPT ![pList] = Count], Count)
             /\ p' = IF pList = NULL THEN Count ELSE p
             /\ pList' = Count
             /\ UNCHANGED <<cnt, p1, pc>>

Constructed == /\ pc = "construct" /\ Count = cnt
               /\ p1' = p
               /\ pc' = "reverse"
               /\ UNCHANGED <<cnt, next, p, pList>>

\* The node after p is taken out and put before p1.
reverse == LET p2 == next[p]
           IN  /\ pc = "reverse" /\ p2 # NULL
               /\ next' = [next EXCEPT ![p] = next[p2], ![p2] = p1]
               /\ p1' = p2
               /\ UNCHANGED <<cnt, p, pList, pc>>

Reversed == /\ pc = "reverse" /\ next[p] = NULL
            /\ p' = p1
            /\ pc' = "distory"
            /\ UNCHANGED <<cnt, next, p1, pList>>

distory == /\ pc = "distory" /\ p # NULL
           /\ p' = next[p]
           /\ next' = Restrict(next, DOMAIN next \ {p})
           /\ UNCHANGED <<cnt, p1, pList, pc>>

Ended == pc = "distory" /\ p = NULL /\ UNCHANGED vars

Next == construct \/ Constructed \/ reverse \/ Reversed \/ distory \/ Ended

Fairness == WF_vars(Next)

Spec == Init /\ [][Next]_vars /\ Fairness

----------------------------------------------------------------------------
(* Properties *)

\* The first k nodes from node a on, by following next.
Walk(a, k) == LET w[i \in 1 .. k] == IF i = 1 THEN a
                                     ELSE IF w[i - 1] = NULL THEN NULL ELSE next[w[i - 1]]
              IN  w

TypeOK == /\ cnt \in Cnt
          /\ pc \in {"construct", "reverse", "distory"}
          /\ DOMAIN next \subseteq 0 .. cnt - 1
          /\ Range(next) \subseteq 0 .. cnt - 1 \cup {NULL}
          /\ {p, p1, pList} \subseteq 0 .. cnt - 1 \cup {NULL}

\* Between two iterations of reverse no node is lost and none is reached twice:
\* from p1 the nodes up to p in descending order are followed by those that are
\* still to be moved, in ascending order.
SplitAtP ==
    pc = "reverse" =>
        LET w == Walk(p1, cnt + 1)
        IN  /\ p = 0
            /\ w[p1 + 1] = p
            /\ \A i \in 1 .. cnt : w[i] = IF i <= p1 + 1 THEN p1 + 1 - i ELSE i - 1
            /\ w[cnt + 1] = NULL

\* distory frees every node once: what is left to free is what p reaches.
FreesAll == pc = "distory" =>
                {Walk(p, cnt + 1)[i] : i \in 1 .. cnt + 1} \ {NULL} = DOMAIN next

\* The three loops end, and nothing stays allocated.
AllFreed == <>[](pc = "distory" /\ DOMAIN next = {})
==============================================================================
