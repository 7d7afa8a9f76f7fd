-------------------------------- MODULE Sort --------------------------------
(***************************************************************************)
(* wzq_study/sort.cpp: bubble_sort, selection_sort and quick_sort, which    *)
(* test_sort calls through an array of function pointers, one turn of an    *)
(* inner loop, or one statement of my_partition, at a time.                 *)
(***************************************************************************)
EXTENDS Integers, Sequences, FiniteSets, Functions

CONSTANTS Values,
          MaxCnt      \* bound: the length of the array

SortAssumption == Values \subseteq Int /\ IsFiniteSet(Values) /\ MaxCnt \in Nat

VARIABLES arr, given, \* the array, by index 0 .. cnt - 1, and what it was at the call (history)
          pc,         \* the loop or statement to come, "end" when the function returns
          i, j, k,    \* counters of the first two
          low, high, flag,  \* of my_partition
          calls       \* calls of my_quick_sort to come, the next one first: <<low, high>>

vars == <<arr, given, pc, i, j, k, low, high, flag, calls>>
counters == <<i, j, k>>
partition == <<low, high, flag, calls>>

cnt == Cardinality(DOMAIN arr)

Init == /\ \E n \in 0 .. MaxCnt : arr \in [0 .. n - 1 -> Values]
        /\ given = arr
        /\ pc \in {"bubble", "selection", "quick"}
        /\ i = 0 /\ j = (IF pc = "selection" THEN 1 ELSE 0) /\ k = 0
        /\ low = 0 /\ high = 0 /\ flag = 0
        /\ calls = <<<<0, cnt - 1>>>>

Swapped(a, b) == [arr EXCEPT ![a] = arr[b], ![b] = arr[a]]

----------------------------------------------------------------------------
\* The end of the inner loop of bubble_sort.
BubbleRange == cnt - i - 1

\* One turn of the inner loop, or the next pass.
Bubble == /\ pc = "bubble" /\ i < cnt
          /\ IF j < BubbleRange
             THEN /\ arr' = IF arr[j] > arr[j + 1] THEN Swapped(j, j + 1) ELSE arr
                  /\ j' = j + 1 /\ UNCHANGED i
             ELSE i' = i + 1 /\ j' = 0 /\ UNCHANGED arr
          /\ UNCHANGED <<given, pc, k, partition>>

Selection == /\ pc = "selection" /\ i < cnt
             /\ IF j < cnt
                THEN /\ k' = IF arr[j] < arr[k] THEN j ELSE k
                     /\ j' = j + 1 /\ UNCHANGED <<arr, i>>
                ELSE /\ arr' = Swapped(i, k)
                     /\ i' = i + 1 /\ k' = i' /\ j' = i' + 1
             /\ UNCHANGED <<given, pc, partition>>

LoopsEnd == /\ pc \in {"bubble", "selection"} /\ i >= cnt
            /\ pc' = "end" /\ UNCHANGED <<arr, given, counters, partition>>

----------------------------------------------------------------------------
\* my_quick_sort: a range of one element or none is left alone, another partitioned.
QuickSort == /\ pc = "quick" /\ calls # <<>>
             /\ LET lo == calls[1][1]  hi == calls[1][2] IN
                IF lo < hi THEN low' = lo /\ high' = hi /\ flag' = arr[lo] /\ pc' = "down"
                ELSE UNCHANGED <<low, high, flag, pc>>
             /\ calls' = IF calls[1][1] < calls[1][2] THEN calls ELSE Tail(calls)
             /\ UNCHANGED <<arr, given, counters>>

\* The first inner loop of my_partition and the assignment after it.
HighDown == /\ pc = "down"
            /\ IF low < high /\ flag < arr[high] THEN high' = high - 1 /\ UNCHANGED <<arr, pc>>
               ELSE arr' = [arr EXCEPT ![low] = arr[high]] /\ pc' = "up" /\ UNCHANGED high
            /\ UNCHANGED <<given, low, flag, calls, counters>>

\* The second inner loop, the assignment after it and the outer condition.
LowUp == /\ pc = "up"
         /\ IF low < high /\ flag > arr[low] THEN low' = low + 1 /\ UNCHANGED <<arr, pc>>
            ELSE /\ arr' = [arr EXCEPT ![high] = arr[low]]
                 /\ pc' = (IF low < high THEN "down" ELSE "placed") /\ UNCHANGED low
         /\ UNCHANGED <<given, high, flag, calls, counters>>

\* A bug for Placed: the second call's range holds the pivot.
PlacedWithin == /\ pc = "placed"
                /\ arr' = [arr EXCEPT ![low] = flag]
                /\ calls' = <<<<calls[1][1], low - 1>>, <<low, calls[1][2]>>>> \o Tail(calls)
                /\ pc' = "quick"
                /\ UNCHANGED <<given, low, high, flag, counters>>

\* The end of my_partition, and the two calls of my_quick_sort that follow.
Placed == /\ pc = "placed"
          /\ arr' = [arr EXCEPT ![low] = flag]
          /\ calls' = <<<<calls[1][1], low - 1>>, <<low + 1, calls[1][2]>>>> \o Tail(calls)
          /\ pc' = "quick"
          /\ UNCHANGED <<given, low, high, flag, counters>>

QuickEnds == /\ pc = "quick" /\ calls = <<>>
             /\ pc' = "end" /\ UNCHANGED <<arr, given, counters, partition>>

Next == Bubble \/ Selection \/ LoopsEnd \/ QuickSort \/ HighDown \/ LowUp \/ Placed \/ QuickEnds

\* The program is one thread: it goes on.
Fairness == WF_vars(Next)

Spec == Init /\ [][Next]_vars /\ Fairness

----------------------------------------------------------------------------
TypeOK == /\ arr \in [0 .. cnt - 1 -> Values] /\ given \in [DOMAIN arr -> Values]
          /\ pc \in {"bubble", "selection", "quick", "down", "up", "placed", "end"}
          /\ i \in 0 .. cnt /\ j \in 0 .. cnt + 1 /\ k \in 0 .. cnt
          /\ low \in 0 .. cnt /\ high \in 0 .. cnt
          /\ calls \in Seq((0 .. cnt + 1) \X (-1 .. cnt))

Count(a, v) == Cardinality({n \in DOMAIN a : a[n] = v})

\* The array with the pivot back in the hole that my_partition moves about in it.
Whole == IF pc \in {"down", "placed"} THEN [arr EXCEPT ![low] = flag]
         ELSE IF pc = "up" THEN [arr EXCEPT ![high] = flag]
         ELSE arr

\* No element is lost or doubled at any moment, the one my_partition keeps in flag included.
NothingIsLost == \A v \in Values : Count(Whole, v) = Count(given, v)

\* A function that returns leaves the array sorted.
EndsSorted == pc = "end" => \A n \in 1 .. cnt - 1 : arr[n - 1] <= arr[n]

\* What of the array is in its final place while the sort is under way: what
\* selection_sort and bubble_sort are through with, and every element outside the
\* ranges that quick_sort has still to sort is between its neighbours.
RangesAreSeparate ==
    /\ pc = "selection" => \A m \in 0 .. i - 1 : \A n \in DOMAIN arr : m < n => arr[m] <= arr[n]
    /\ pc = "bubble" => \A n \in cnt - i .. cnt - 1 : \A m \in DOMAIN arr : m < n => arr[m] <= arr[n]
    /\ pc = "quick" => \A m, n \in DOMAIN arr :
           m < n => \/ arr[m] <= arr[n]
                    \/ \E c \in Range(calls) : {m, n} \subseteq c[1] .. c[2]

\* my_partition does not get past an element that equals its pivot: quick_sort (the
\* one that makes its calls) returns only if no two elements are equal.
QuickNeedsDistinct == pc = "end" /\ calls = <<>> => IsInjective(given)

\* Every sort ends, quick_sort if no two elements are equal.
Ends == IsInjective(given) \/ pc \in {"bubble", "selection"} ~> pc = "end"
==============================================================================
