------------------------------- MODULE MinHeap -------------------------------
(***************************************************************************)
(* wzq_study/minHeap.h: a binary heap in an array that grows.  addItem sifts  *)
(* the new value up to the root, one turn of its loop at a time, and topItem *)
(* calls refactor, which calls itself, to sift the last value down.         *)
(*                                                                         *)
(* The caller is like testMinHeap: it takes only what it has put in.        *)
(***************************************************************************)
EXTENDS Integers, FiniteSets

CONSTANTS Values,
          MaxSize     \* bound: values in the heap at a time

MinHeapAssumption == Values \subseteq Int /\ IsFiniteSet(Values) /\ MaxSize \in Nat

VARIABLES pContent,   \* the array: its domain is 0 .. iCapacity - 1
          iSize,
          top,        \* what topItem returned last
          pc,         \* "idle" between calls, "up" in addItem's loop, "down" in refactor
          at          \* j of the loop, index of refactor

vars == <<pContent, iSize, top, pc, at>>

iCapacity == Cardinality(DOMAIN pContent)
Slots == 0 .. iSize - 1
Parent(j) == (j - 1) \div 2

Init == /\ pContent = [i \in {} |-> 0] /\ iSize = 0
        /\ top = -1 /\ pc = "idle" /\ at = 0

myswap(i, j) == [pContent EXCEPT ![i] = pContent[j], ![j] = pContent[i]]

\* The array with room for one value more: the old one is copied, the rest is zero.
reserver == IF iSize + 1 <= iCapacity THEN pContent
            ELSE [i \in 0 .. 2 * iSize |-> IF i < iCapacity THEN pContent[i] ELSE 0]

addItem(value) == /\ pc = "idle" /\ iSize < MaxSize
                  /\ pContent' = [reserver EXCEPT ![iSize] = value]
                  /\ iSize' = iSize + 1
                  /\ pc' = "up" /\ at' = iSize
                  /\ UNCHANGED top

\* One turn of addItem's loop, which goes on to the root also when nothing is swapped.
SiftUp == /\ pc = "up" /\ at # 0
          /\ pContent' = IF pContent[at] < pContent[Parent(at)] THEN myswap(at, Parent(at)) ELSE pContent
          /\ at' = Parent(at)
          /\ UNCHANGED <<iSize, top, pc>>

Added == pc = "up" /\ at = 0 /\ pc' = "idle" /\ UNCHANGED <<pContent, iSize, top, at>>

\* A bug for topItem: the slot it leaves is cleared.
topItemClears == /\ pc = "idle" /\ iSize > 0
                 /\ top' = pContent[0]
                 /\ pContent' = [pContent EXCEPT ![0] = pContent[iSize - 1], ![iSize - 1] = 0]
                 /\ iSize' = iSize - 1
                 /\ pc' = "down" /\ at' = 0

topItem == /\ pc = "idle" /\ iSize > 0
           /\ top' = pContent[0]
           /\ pContent' = [pContent EXCEPT ![0] = pContent[iSize - 1]]
           /\ iSize' = iSize - 1
           /\ pc' = "down" /\ at' = 0

Child(index, side) == 2 * index + side

Smaller(small, child) == IF child <= iSize /\ pContent[child] < pContent[small] THEN child ELSE small

\* Both comparisons allow for the slot after the last one, where topItem left a value.
Small(index) == Smaller(Smaller(index, Child(index, 1)), Child(index, 2))

refactor == /\ pc = "down"
            /\ IF Small(at) # at THEN pContent' = myswap(Small(at), at) /\ at' = Small(at) /\ UNCHANGED pc
               ELSE pc' = "idle" /\ UNCHANGED <<pContent, at>>
            /\ UNCHANGED <<iSize, top>>

Next == topItem \/ SiftUp \/ Added \/ refactor \/ \E value \in Values : addItem(value)

Spec == Init /\ [][Next]_vars

----------------------------------------------------------------------------
TypeOK == /\ pContent \in [0 .. iCapacity - 1 -> Values \cup {0}]
          /\ iSize \in 0 .. iCapacity
          /\ top \in Values \cup {-1}
          /\ pc \in {"idle", "up", "down"}
          /\ at \in 0 .. iCapacity
          \* refactor may look at the slot after the last one: it is in the array.
          /\ pc = "down" => iSize < iCapacity

\* Which pairs of parent and child may be out of order: between calls none,
\* and within a call only the one the sift has reached.
HeapOrder == \A i \in Slots \ {0} : \/ pContent[Parent(i)] <= pContent[i]
                                    \/ pc = "up" /\ i = at
                                    \/ pc = "down" /\ Parent(i) = at

\* The heap is a bag of values from which the smallest is taken: nothing is
\* lost or doubled when the array grows, and the value that topItem leaves
\* after the last slot is never taken for a child, although refactor looks there.
Queue == INSTANCE MinQueue WITH
    count <- [v \in Values |-> Cardinality({i \in Slots : pContent[i] = v})]
ImplementsQueue == Queue!Spec
==============================================================================
