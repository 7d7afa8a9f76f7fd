------------------------------ MODULE MinQueue ------------------------------
(***************************************************************************)
(* What MinHeap (wzq_study/minHeap.h) promises: a bag of values from which   *)
(* the smallest is taken.                                                  *)
(***************************************************************************)
EXTENDS Integers, FiniteSets

CONSTANTS Values

VARIABLES count,     \* how often each value is in the bag
          top        \* what was taken last

vars == <<count, top>>

Init == count = [v \in Values |-> 0] /\ top = -1

Add(v) == UNCHANGED top /\ count' = [count EXCEPT ![v] = @ + 1]

Take(v) == /\ top' = v
           /\ count[v] > 0 /\ \A w \in Values : count[w] > 0 => v <= w
           /\ count' = [count EXCEPT ![v] = @ - 1]

Next == \E v \in Values : Add(v) \/ Take(v)

Spec == Init /\ [][Next]_vars
==============================================================================
