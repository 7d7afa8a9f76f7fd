------------------------------- MODULE AddMinus -------------------------------
(***************************************************************************)
(* wzq_study/thread_add_minus.cpp: test_thread starts threads 0 ..         *)
(* NUM_THREADS - 1; an even one adds its number to g_sum, an odd one waits *)
(* once on a condition variable if g_sum is small, and then takes one off. *)
(* The main thread joins all of them in order.                             *)
(*                                                                         *)
(* The code between lock and unlock does not block, except in              *)
(* pthread_cond_wait, so a step is a whole critical section, or the part   *)
(* of it before or after the wait.                                         *)
(***************************************************************************)
EXTENDS Integers, FiniteSets

CONSTANT NUM_THREADS

\* test_thread creates threads in pairs.
NumThreadsAssumption == NUM_THREADS \in Nat /\ NUM_THREADS % 2 = 0

BOUNDARY == 3

VARIABLES g_sum,
          i,        \* the main thread: the next thread to create, then to join
          joining,  \* the main thread is in its second loop
          tpc       \* where each thread is

vars == <<g_sum, i, joining, tpc>>

Threads == 0 .. NUM_THREADS - 1
Adders == {t \in Threads : t % 2 = 0}
Minuses == Threads \ Adders

At(place) == {t \in Threads : tpc[t] = place}

Init == /\ g_sum = 0
        /\ i = 0
        /\ joining = FALSE
        /\ tpc = [t \in Threads |-> "none"]

\* pthread_create succeeds, or fails and the loop goes on all the same.
Create == /\ ~ joining
          /\ i < NUM_THREADS
          /\ tpc' \in {[tpc EXCEPT ![i] = pl] : pl \in {"ready", "failed"}}
          /\ i' = i + 1
          /\ UNCHANGED <<g_sum, joining>>

StartJoining == /\ ~ joining
                /\ i = NUM_THREADS
                /\ joining' = TRUE
                /\ i' = 0
                /\ UNCHANGED <<g_sum, tpc>>

\* tids[i] of a thread that could not be created is not initialised: the join
\* gives an error here (it might as well crash the process).
Join == /\ joining
        /\ i < NUM_THREADS
        /\ tpc[i] \in {"done", "failed"}
        /\ i' = i + 1
        /\ UNCHANGED <<g_sum, joining, tpc>>

\* pthread_cond_signal: one of the threads that wait is woken.
Signal(pcs) == LET waiting == {t \in Threads : pcs[t] = "wait"}
               IN  IF waiting = {} THEN {pcs}
                   ELSE {[pcs EXCEPT ![t] = "woken"] : t \in waiting}

\* A bug for Add: the sum is compared before the number is added.
AddLateSignal(t) ==
    /\ tpc[t] = "ready"
    /\ g_sum' = g_sum + t
    /\ tpc' \in LET pcs == [tpc EXCEPT ![t] = "done"]
                IN  IF g_sum > BOUNDARY THEN Signal(pcs) ELSE {pcs}
    /\ UNCHANGED <<i, joining>>

Add(t) == /\ tpc[t] = "ready"
          /\ g_sum' = g_sum + t
          /\ tpc' \in LET pcs == [tpc EXCEPT ![t] = "done"]
                      IN  IF g_sum' > BOUNDARY THEN Signal(pcs) ELSE {pcs}
          /\ UNCHANGED <<i, joining>>

Minus(t) == /\ tpc[t] = "ready"
            /\ IF g_sum <= 3
               THEN tpc' = [tpc EXCEPT ![t] = "wait"] /\ UNCHANGED g_sum
               ELSE tpc' = [tpc EXCEPT ![t] = "done"] /\ g_sum' = g_sum - 1
            /\ UNCHANGED <<i, joining>>

\* The wait is in an if, not in a loop: g_sum is not looked at again.
Resume(t) == /\ tpc[t] = "woken"
             /\ g_sum' = g_sum - 1
             /\ tpc' = [tpc EXCEPT ![t] = "done"]
             /\ UNCHANGED <<i, joining>>

SpuriousWakeup(t) == /\ tpc[t] = "wait"
                     /\ tpc' = [tpc EXCEPT ![t] = "woken"]
                     /\ UNCHANGED <<g_sum, i, joining>>

MainStep == Create \/ StartJoining \/ Join

ThreadStep(t) == \/ t \in Adders /\ Add(t)
                 \/ t \in Minuses /\ (Minus(t) \/ Resume(t))

Ended == joining /\ i = NUM_THREADS /\ UNCHANGED vars

Next == \/ MainStep
        \/ \E t \in Threads : ThreadStep(t)
        \/ \E t \in Minuses : SpuriousWakeup(t)
        \/ Ended

\* Every thread that can run does; nobody owes anyone a spurious wakeup.
Fairness == /\ WF_vars(MainStep)
            /\ \A t \in Threads : WF_vars(ThreadStep(t))

Spec == Init /\ [][Next]_vars /\ Fairness

----------------------------------------------------------------------------
(* Properties *)

TypeOK == /\ g_sum \in Int
          /\ i \in 0 .. NUM_THREADS
          /\ joining \in BOOLEAN
          /\ tpc \in [Threads -> {"none", "ready", "failed", "wait", "woken", "done"}]

\* The ones that the adders in S add to g_sum: t of them for thread t.
Ones(S) == {u \in S \X Threads : u[2] < u[1]}

\* No update of g_sum is lost: it is the sum of the numbers of the adders that
\* are through, less one for each minus thread that is.
SumAccounts == g_sum = Cardinality(Ones(At("done") \cap Adders))
                       - Cardinality(At("done") \cap Minuses)

\* One signal per adder is too few to wake every waiter (there is no broadcast
\* and a waiter does not signal the next), but it is enough for all but a few:
\* once every thread is through or waiting, at most as many minus threads are
\* left in pthread_cond_wait, with test_thread stuck in pthread_join behind
\* them, as there are adders that did not run or were too small to reach BOUNDARY
\* by themselves.
FewAreStuck == joining /\ At("ready") \cup At("woken") = {} =>
    Cardinality(At("wait")) <=
        Cardinality({t \in Adders : t <= BOUNDARY \/ tpc[t] = "failed"})

\* test_thread comes to its end unless a minus thread waits for ever.
EndsOrWaits == <>[]((joining /\ i = NUM_THREADS) \/ At("wait") # {})
==============================================================================
