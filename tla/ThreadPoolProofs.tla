--------------------------- MODULE ThreadPoolProofs ---------------------------
(***************************************************************************)
(* Proofs about ThreadPool for every pool size and every number of jobs.   *)
(* The inductive invariant Inv says who owns the mutex, how far main's     *)
(* loop counter is, that a job main has not handed over is nowhere, that a *)
(* job that was is in one place, and that sleeping workers are not missed. *)
(***************************************************************************)
EXTENDS ThreadPool, FiniteSetTheorems, TLAPS

LockInv == /\ MainLocked => mtx = Main
           /\ \A w \in Workers : WorkerLocked(w) => mtx = w

CounterInv == /\ mpc \in {"create", "listWorker"} => i <= NWorkers
              /\ mpc = "create" =>
                    \A w \in Workers : w > i => wpc[w] = "none"
              /\ mpc = "listWorker" =>
                    \A w \in Workers : w > i + 1 => wpc[w] = "none"
              /\ mpc = "listWorker" => i < NWorkers
              /\ mpc \in {"addLock", "addList", "addSignal", "addUnlock"}
                    => i < JobSize

\* main is past LIST_ADD for job j.
Added(j) == \/ mpc = "exit"
            \/ mpc \notin {"create", "listWorker"} /\ j < i
            \/ mpc \in {"addSignal", "addUnlock"} /\ j = i

\* Job j is not on the list, not held and not run.
Nowhere(j) == /\ runs[j] = 0
              /\ \A n \in DOMAIN jobs : jobs[n] # j
              /\ \A w \in Workers : j \notin Held(w)

UntouchedInv == \A j \in Jobs : Added(j) \/ Nowhere(j)

HeldInv == \A w \in Workers : Held(w) \subseteq Jobs

Inv == /\ TypeOK /\ LockInv /\ CounterInv /\ HeldInv /\ UntouchedInv
       /\ JobInOnePlace /\ NoIdleWorker

\* The constants: there is at least one worker, and finitely many.
LEMMA ConstantFacts == /\ NWorkers \in Nat \ {0}
                       /\ IsFiniteSet(Workers)
                       /\ \A w \in Workers : w \in Int /\ w # Main /\ w # Free
                       /\ \A j \in Jobs : j \in Nat /\ j # NoJob
<1>1. NWorkers \in Nat \ {0}
  BY PoolSizeAssumption DEF NWorkers
<1>2. IsFiniteSet(Workers)
  BY <1>1, FS_Interval DEF Workers
<1> QED BY <1>1, <1>2, JobSizeAssumption DEF Workers, Jobs, Main, Free, NoJob

\* Sets of workers are finite and their sizes ordered by inclusion.
LEMMA ComingSize ==
  ASSUME NEW S \in SUBSET Workers, NEW T \in SUBSET S
  PROVE  /\ Cardinality(S) \in Nat /\ Cardinality(T) \in Nat
         /\ Cardinality(T) <= Cardinality(S)
         /\ IsFiniteSet(S) /\ IsFiniteSet(T)
<1>1. IsFiniteSet(S)
  BY ConstantFacts, FS_Subset
<1> QED BY <1>1, FS_Subset, FS_CardinalityType

\* Type correctness is preserved by every step.
LEMMA TypeStep == Inv /\ [Next]_vars => TypeOK'
<1> SUFFICES ASSUME Inv, [Next]_vars PROVE TypeOK'
  OBVIOUS
<1> USE ConstantFacts DEF Inv, TypeOK, MainPcs, WorkerPcs
<1>1. CASE CreateWorker
  BY <1>1 DEF CreateWorker
<1>2. CASE CreateFails
  BY <1>2 DEF CreateFails
<1>3. CASE ListWorker
  BY <1>3 DEF ListWorker, LIST_ADD, CounterInv, Workers
<1>4. CASE CreateReturns
  BY <1>4 DEF CreateReturns
<1>5. CASE NewJob \/ NewJobFails \/ Getchar
  BY <1>5 DEF NewJob, NewJobFails, Getchar
<1>6. CASE AddLock
  BY <1>6 DEF AddLock
<1>7. CASE AddList
  BY <1>7, JobSizeAssumption DEF AddList, LIST_ADD, CounterInv, Jobs
<1>8. CASE AddSignal
  BY <1>8 DEF AddSignal, Waiters
<1>9. CASE AddUnlock
  BY <1>9 DEF AddUnlock
<1>10. ASSUME NEW w \in Workers, WorkerStep(w) \/ SpuriousWakeup(w)
       PROVE  TypeOK'
  <2>1. CASE WorkLock(w)
    BY <2>1 DEF WorkLock, mainVars
  <2>2. CASE WorkWait(w)
    BY <2>2 DEF WorkWait, mainVars
  <2>3. CASE WorkTake(w)
    <3>1. Head(jobs) \in Jobs /\ Tail(jobs) \in Seq(Jobs)
      BY <2>3 DEF WorkTake
    <3> QED BY <2>3, <3>1 DEF WorkTake, LIST_REMOVE, mainVars
  <2>4. CASE WorkUnlock(w)
    BY <2>4 DEF WorkUnlock, mainVars
  <2>5. CASE RunJob(w)
    <3>1. job[w] \in Jobs
      BY <2>5 DEF RunJob, HeldInv, Held
    <3> QED BY <2>5, <3>1 DEF RunJob, mainVars
  <2>6. CASE SpuriousWakeup(w)
    BY <2>6 DEF SpuriousWakeup, mainVars
  <2> QED BY <1>10, <2>1, <2>2, <2>3, <2>4, <2>5, <2>6 DEF WorkerStep
<1>11. CASE Exited \/ UNCHANGED vars
  BY <1>11 DEF Exited, vars
<1> QED BY <1>1, <1>2, <1>3, <1>4, <1>5, <1>6, <1>7, <1>8, <1>9, <1>10, <1>11
       DEF Next, MainStep

\* The mutex, the counters and the held jobs.
LEMMA ControlStep == Inv /\ [Next]_vars => (LockInv /\ CounterInv /\ HeldInv)'
<1> SUFFICES ASSUME Inv, [Next]_vars
             PROVE  (LockInv /\ CounterInv /\ HeldInv)'
  OBVIOUS
<1> USE ConstantFacts, JobSizeAssumption
    DEF Inv, TypeOK, LockInv, CounterInv, HeldInv, Held, MainLocked,
        WorkerLocked, Jobs
<1>1. CASE CreateWorker
  BY <1>1 DEF CreateWorker
<1>2. CASE CreateFails \/ ListWorker \/ CreateReturns
  BY <1>2 DEF CreateFails, ListWorker, CreateReturns
<1>3. CASE NewJob \/ NewJobFails \/ Getchar
  BY <1>3 DEF NewJob, NewJobFails, Getchar
<1>4. CASE AddLock
  BY <1>4 DEF AddLock, Free
<1>5. CASE AddList
  BY <1>5 DEF AddList
<1>6. CASE AddSignal
  BY <1>6 DEF AddSignal, Waiters
<1>7. CASE AddUnlock
  BY <1>7 DEF AddUnlock
<1>8. ASSUME NEW w \in Workers, WorkerStep(w) \/ SpuriousWakeup(w)
      PROVE  (LockInv /\ CounterInv /\ HeldInv)'
  <2> USE DEF mainVars, Alive
  <2>1. CASE WorkLock(w)
    BY <2>1 DEF WorkLock, Free, Main
  <2>2. CASE WorkWait(w)
    BY <2>2 DEF WorkWait
  <2>3. CASE WorkTake(w)
    <3>1. Head(jobs) \in 0 .. JobSize - 1
      BY <2>3 DEF WorkTake
    <3> QED BY <2>3, <3>1 DEF WorkTake
  <2>4. CASE WorkUnlock(w)
    BY <2>4 DEF WorkUnlock
  <2>5. CASE RunJob(w)
    BY <2>5 DEF RunJob
  <2>6. CASE SpuriousWakeup(w)
    BY <2>6 DEF SpuriousWakeup
  <2> QED BY <1>8, <2>1, <2>2, <2>3, <2>4, <2>5, <2>6 DEF WorkerStep
<1>9. CASE Exited \/ UNCHANGED vars
  BY <1>9 DEF Exited, vars
<1> QED BY <1>1, <1>2, <1>3, <1>4, <1>5, <1>6, <1>7, <1>8, <1>9
       DEF Next, MainStep

\* A step that changes neither the list, nor the runs, nor what workers hold,
\* and does not take back a job, keeps every job where it is.
LEMMA JobsUnmoved ==
  ASSUME UntouchedInv, JobInOnePlace,
         UNCHANGED <<jobs, runs>>,
         \A w \in Workers : Held(w)' = Held(w),
         \A j \in Jobs : Added(j) => Added(j)'
  PROVE  (UntouchedInv /\ JobInOnePlace)'
<1>1. UntouchedInv'
  BY DEF UntouchedInv, Nowhere
<1>2. JobInOnePlace'
  BY DEF JobInOnePlace, RunAtMostOnce, LinkedOnce, LinkedNotRun, HeldAlone
<1> QED BY <1>1, <1>2

\* The worker createPool starts was not running: no worker's job changes.
LEMMA NewWorkerIdle ==
  ASSUME TypeOK, CounterInv, CreateWorker
  PROVE  \A w \in Workers : Held(w)' = Held(w)
<1>1. i + 1 \in Workers /\ i + 1 > i
  BY ConstantFacts DEF TypeOK, CreateWorker, Workers
<1>2. wpc[i + 1] = "none"
  BY <1>1 DEF CounterInv, CreateWorker
<1> QED BY <1>1, <1>2 DEF TypeOK, CreateWorker, Held

\* Every job stays in one place.
LEMMA JobStep == Inv /\ [Next]_vars => (UntouchedInv /\ JobInOnePlace)'
<1> SUFFICES ASSUME Inv, [Next]_vars PROVE (UntouchedInv /\ JobInOnePlace)'
  OBVIOUS
<1> USE ConstantFacts DEF Inv, TypeOK
<1>1. CASE CreateWorker
  <2>1. \A w \in Workers : Held(w)' = Held(w)
    BY <1>1, NewWorkerIdle
  <2>2. UNCHANGED <<jobs, runs>> /\ \A j \in Jobs : Added(j) => Added(j)'
    BY <1>1 DEF CreateWorker, Added
  <2> QED BY <2>1, <2>2, JobsUnmoved
<1>2. CASE CreateFails \/ ListWorker \/ CreateReturns
  BY <1>2, JobsUnmoved DEF CreateFails, ListWorker, CreateReturns, Added, Held, Jobs
<1>3. CASE NewJob \/ NewJobFails \/ Getchar
  BY <1>3, JobsUnmoved DEF NewJob, NewJobFails, Getchar, Added, Held
<1>4. CASE AddLock
  BY <1>4, JobsUnmoved DEF AddLock, Added, Held
<1>5. CASE AddList
  <2>1. i \in Jobs /\ Nowhere(i)
    BY <1>5, JobSizeAssumption DEF AddList, CounterInv, UntouchedInv, Added, Jobs
  <2>2. /\ jobs' = <<i>> \o jobs
        /\ Len(jobs') = Len(jobs) + 1
        /\ jobs'[1] = i
        /\ \A n \in DOMAIN jobs' : n # 1 =>
              n - 1 \in DOMAIN jobs /\ jobs'[n] = jobs[n - 1]
    BY <1>5, <2>1 DEF AddList, LIST_ADD
  <2>3. DOMAIN jobs' = 1 .. (Len(jobs) + 1) /\ DOMAIN jobs = 1 .. Len(jobs)
    BY <2>1, <2>2
  <2>4. UNCHANGED <<i, runs>> /\ \A w \in Workers : Held(w)' = Held(w)
    BY <1>5 DEF AddList, Held
  <2>5. \A j \in Jobs : j # i => (Added(j)' <=> Added(j))
    BY <1>5 DEF AddList, Added
  <2>6. Added(i)'
    BY <1>5 DEF AddList, Added
  <2>7. UntouchedInv'
    <3> SUFFICES ASSUME NEW j \in Jobs, j # i, Nowhere(j) PROVE Nowhere(j)'
      BY <2>4, <2>5, <2>6 DEF UntouchedInv
    <3> QED BY <2>2, <2>3, <2>4 DEF Nowhere
  <2>8. JobInOnePlace'
    <3>1. LinkedOnce' /\ LinkedNotRun'
      BY <2>1, <2>2, <2>3, <2>4
         DEF JobInOnePlace, LinkedOnce, LinkedNotRun, Nowhere
    <3>2. HeldAlone'
      BY <2>1, <2>2, <2>3, <2>4 DEF JobInOnePlace, HeldAlone, Nowhere
    <3> QED BY <3>1, <3>2, <2>4 DEF JobInOnePlace, RunAtMostOnce
  <2> QED BY <2>7, <2>8
<1>6. CASE AddSignal
  BY <1>6, JobsUnmoved DEF AddSignal, Waiters, Added, Held
<1>7. CASE AddUnlock
  BY <1>7, JobsUnmoved DEF AddUnlock, Added, Held, Jobs
<1>8. ASSUME NEW w \in Workers, WorkerStep(w) \/ SpuriousWakeup(w)
      PROVE  (UntouchedInv /\ JobInOnePlace)'
  <2> USE DEF mainVars
  <2>1. CASE WorkLock(w) \/ WorkWait(w) \/ WorkUnlock(w) \/ SpuriousWakeup(w)
    <3>1. UNCHANGED <<jobs, runs>> /\ \A j \in Jobs : Added(j) => Added(j)'
      BY <2>1 DEF WorkLock, WorkWait, WorkUnlock, SpuriousWakeup, Added
    <3>2. \A v \in Workers : Held(v)' = Held(v)
      BY <2>1 DEF WorkLock, WorkWait, WorkUnlock, SpuriousWakeup, Held
    <3> QED BY <3>1, <3>2, JobsUnmoved
  <2>2. CASE WorkTake(w)
    <3> DEFINE k == Head(jobs)
    <3>1. /\ k \in Jobs /\ k = jobs[1] /\ 1 \in DOMAIN jobs
          /\ Len(jobs') = Len(jobs) - 1
          /\ \A n \in DOMAIN jobs' : n + 1 \in DOMAIN jobs /\ jobs'[n] = jobs[n + 1]
      BY <2>2 DEF WorkTake, LIST_REMOVE
    <3>2. Held(w)' = {k} /\ Held(w) = {}
      BY <2>2 DEF WorkTake, Held
    <3>3. \A v \in Workers \ {w} : Held(v)' = Held(v)
      BY <2>2 DEF WorkTake, Held
    <3>4. runs' = runs /\ \A j \in Jobs : Added(j)' <=> Added(j)
      BY <2>2 DEF WorkTake, Added
    <3>5. DOMAIN jobs = 1 .. Len(jobs) /\ DOMAIN jobs' = 1 .. (Len(jobs) - 1)
      BY <2>2, TypeStep DEF WorkTake, LIST_REMOVE
    <3>6. UntouchedInv'
      <4> SUFFICES ASSUME NEW j \in Jobs, Nowhere(j) PROVE Nowhere(j)'
        BY <3>4 DEF UntouchedInv
      <4>1. j # k
        BY <3>1 DEF Nowhere
      <4>2. runs'[j] = 0
        BY <3>4, Zenon DEF Nowhere
      <4>3. ASSUME NEW n \in DOMAIN jobs' PROVE jobs'[n] # j
        <5>1. n + 1 \in DOMAIN jobs /\ jobs'[n] = jobs[n + 1]
          BY <3>1, <4>3
        <5>2. jobs[n + 1] # j
          BY <5>1, Zenon DEF Nowhere
        <5> QED BY <5>1, <5>2
      <4>4. ASSUME NEW v \in Workers PROVE j \notin Held(v)'
        <5>1. CASE v = w
          <6>1. Held(v)' = {k}
            BY <3>2, <5>1
          <6> QED BY <4>1, <6>1
        <5>2. CASE v # w
          <6>1. Held(v)' = Held(v)
            BY <3>3, <5>2
          <6> QED BY <6>1 DEF Nowhere
        <5> QED BY <5>1, <5>2
      <4> QED BY <4>2, <4>3, <4>4 DEF Nowhere
    <3>7. JobInOnePlace'
      <4> HIDE DEF k
      <4>1. LinkedOnce'
        <5>1. \A m, n \in DOMAIN jobs' : m \in Int /\ n \in Int
          BY <3>5
        <5> QED BY <5>1, <3>1 DEF JobInOnePlace, LinkedOnce
      <4>2. LinkedNotRun'
        BY <3>1, <3>4, <3>5 DEF JobInOnePlace, LinkedNotRun
      <4>3. \A n \in DOMAIN jobs' : jobs'[n] # k
        <5>1. \A n \in DOMAIN jobs' : n \in Int /\ n + 1 # 1
          BY <3>5
        <5> QED BY <5>1, <3>1 DEF JobInOnePlace, LinkedOnce
      <4>4. runs[k] = 0 /\ \A v \in Workers : k \notin Held(v)
        BY <3>1 DEF JobInOnePlace, LinkedNotRun, HeldAlone
      <4>5. ASSUME NEW v \in Workers, NEW j \in Held(v)'
            PROVE  /\ runs[j] = 0
                   /\ \A n \in DOMAIN jobs' : jobs'[n] # j
                   /\ \A u \in Workers \ {v} : j \notin Held(u)'
        <5>1. CASE v = w
          BY <5>1, <4>3, <4>4, <3>2, <3>3
        <5>2. CASE v # w
          <6>1. j \in Held(v) /\ j # k
            BY <5>2, <4>4, <3>3
          <6>2. /\ runs[j] = 0
                /\ \A n \in DOMAIN jobs : jobs[n] # j
                /\ \A u \in Workers \ {v} : j \notin Held(u)
            BY <6>1 DEF JobInOnePlace, HeldAlone
          <6>3. \A n \in DOMAIN jobs' : jobs'[n] # j
            BY <6>2, <3>1
          <6>4. \A u \in Workers \ {v} : j \notin Held(u)'
            BY <6>1, <6>2, <3>2, <3>3
          <6> QED BY <6>2, <6>3, <6>4
        <5> QED BY <5>1, <5>2
      <4>6. HeldAlone'
        BY <4>5, <3>4 DEF HeldAlone
      <4> QED BY <4>1, <4>2, <4>6, <3>4 DEF JobInOnePlace, RunAtMostOnce
    <3> QED BY <3>6, <3>7
  <2>3. CASE RunJob(w)
    <3> DEFINE k == job[w]
    <3>1. Held(w) = {k} /\ Held(w)' = {} /\ k \in Jobs
      BY <2>3 DEF RunJob, Held, HeldInv
    <3>2. \A v \in Workers \ {w} : Held(v)' = Held(v)
      BY <2>3 DEF RunJob, Held
    <3>3. /\ jobs' = jobs
          /\ runs'[k] = runs[k] + 1
          /\ \A j \in Jobs : j # k => runs'[j] = runs[j]
          /\ \A j \in Jobs : Added(j)' <=> Added(j)
      BY <2>3, <3>1 DEF RunJob, Added
    <3>4. /\ runs[k] = 0
          /\ \A n \in DOMAIN jobs : jobs[n] # k
          /\ \A v \in Workers \ {w} : k \notin Held(v)
      BY <3>1 DEF JobInOnePlace, HeldAlone
    <3>5. UntouchedInv'
      <4> SUFFICES ASSUME NEW j \in Jobs, Nowhere(j) PROVE Nowhere(j)'
        BY <3>3 DEF UntouchedInv
      <4>1. j # k
        BY <3>1 DEF Nowhere
      <4>2. runs'[j] = 0
        BY <3>3, <4>1 DEF Nowhere
      <4>3. \A v \in Workers : j \notin Held(v)'
        BY <3>1, <3>2 DEF Nowhere
      <4> QED BY <3>3, <4>2, <4>3 DEF Nowhere
    <3>6. JobInOnePlace'
      <4> HIDE DEF k
      <4>1. RunAtMostOnce'
        <5> SUFFICES ASSUME NEW j \in Jobs PROVE runs'[j] <= 1
          BY DEF RunAtMostOnce
        <5>1. CASE j = k
          BY <3>3, <3>4, <5>1
        <5>2. CASE j # k
          <6>1. runs'[j] = runs[j]
            BY <3>3, <5>2
          <6>2. runs[j] <= 1
            BY Zenon DEF JobInOnePlace, RunAtMostOnce
          <6> QED BY <6>1, <6>2
        <5> QED BY <5>1, <5>2
      <4>2. LinkedOnce' /\ LinkedNotRun'
        BY <3>3, <3>4 DEF JobInOnePlace, LinkedOnce, LinkedNotRun
      <4>3. ASSUME NEW v \in Workers, NEW j \in Held(v)'
            PROVE  /\ runs'[j] = 0
                   /\ \A n \in DOMAIN jobs : jobs[n] # j
                   /\ \A u \in Workers \ {v} : j \notin Held(u)'
        <5>1. v # w /\ j \in Held(v)
          BY <4>3, <3>1, <3>2
        <5>2. j \in Jobs /\ j # k
          BY <5>1, <3>4 DEF HeldInv
        <5>3. /\ runs[j] = 0
              /\ \A n \in DOMAIN jobs : jobs[n] # j
              /\ \A u \in Workers \ {v} : j \notin Held(u)
          BY <5>1 DEF JobInOnePlace, HeldAlone
        <5>4. \A u \in Workers \ {v} : j \notin Held(u)'
          BY <5>3, <3>1, <3>2
        <5> QED BY <5>2, <5>3, <5>4, <3>3
      <4>4. HeldAlone'
        BY <4>3, <3>3 DEF HeldAlone
      <4> QED BY <4>1, <4>2, <4>4 DEF JobInOnePlace
    <3> QED BY <3>5, <3>6
  <2> QED BY <1>8, <2>1, <2>2, <2>3 DEF WorkerStep
<1>9. CASE Exited \/ UNCHANGED vars
  BY <1>9, JobsUnmoved DEF Exited, vars, Added, Held
<1> QED BY <1>1, <1>2, <1>3, <1>4, <1>5, <1>6, <1>7, <1>8, <1>9
       DEF Next, MainStep

\* A step that changes neither the list nor main's signal, and after which no
\* worker has left Coming or started to sleep, misses no sleeping worker.
LEMMA ComingGrows ==
  ASSUME TypeOK, NoIdleWorker, Coming \subseteq Coming', Waiters' \subseteq Waiters,
         jobs' = jobs, mpc = "addSignal" => mpc' = "addSignal"
  PROVE  NoIdleWorker'
<1>1. Coming' \subseteq Workers
  BY DEF Coming
<1>2. /\ Cardinality(Coming) \in Nat /\ Cardinality(Coming') \in Nat
      /\ Cardinality(Coming) <= Cardinality(Coming')
  BY <1>1, ComingSize
<1> QED BY <1>2 DEF NoIdleWorker, TypeOK

\* No sleeping worker is missed.
LEMMA IdleStep == Inv /\ [Next]_vars => NoIdleWorker'
<1> SUFFICES ASSUME Inv, [Next]_vars PROVE NoIdleWorker'
  OBVIOUS
<1> USE DEF Inv, TypeOK
<1>1. CASE CreateWorker
  BY <1>1, ComingGrows DEF CreateWorker, Coming, Waiters
<1>2. CASE CreateFails \/ ListWorker \/ CreateReturns
  BY <1>2, ComingGrows DEF CreateFails, ListWorker, CreateReturns, Coming, Waiters
<1>3. CASE NewJob \/ NewJobFails \/ Getchar
  BY <1>3, ComingGrows DEF NewJob, NewJobFails, Getchar, Coming, Waiters
<1>4. CASE AddLock \/ AddUnlock
  BY <1>4, ComingGrows DEF AddLock, AddUnlock, Coming, Waiters
<1>5. CASE AddList
  <2>1. Coming' = Coming /\ Waiters' = Waiters
    BY <1>5 DEF AddList, Coming, Waiters
  <2>2. Cardinality(Coming) \in Nat
    BY ComingSize DEF Coming
  <2>3. Len(jobs') = Len(jobs) + 1
    BY <1>5, JobSizeAssumption DEF AddList, LIST_ADD, CounterInv, Jobs
  <2> QED BY <1>5, <2>1, <2>2, <2>3 DEF AddList, NoIdleWorker
<1>6. CASE AddSignal
  <2>1. CASE Waiters = {}
    BY <1>6, <2>1 DEF AddSignal, NoIdleWorker, Waiters
  <2>2. CASE Waiters # {}
    <3>1. PICK w \in Waiters : wpc' = [wpc EXCEPT ![w] = "relock"]
      BY <1>6, <2>2 DEF AddSignal
    <3>2. Coming' = Coming \cup {w} /\ w \notin Coming
      BY <3>1 DEF Coming, Waiters
    <3>3. IsFiniteSet(Coming) /\ Cardinality(Coming) \in Nat
      BY ComingSize DEF Coming
    <3>4. Cardinality(Coming') = Cardinality(Coming) + 1
      BY <3>2, <3>3, FS_AddElement
    <3> QED BY <1>6, <2>2, <3>3, <3>4 DEF AddSignal, NoIdleWorker
  <2> QED BY <2>1, <2>2
<1>7. ASSUME NEW w \in Workers, WorkerStep(w) \/ SpuriousWakeup(w)
      PROVE  NoIdleWorker'
  <2> USE DEF mainVars
  <2>1. CASE WorkLock(w) \/ WorkUnlock(w) \/ RunJob(w) \/ SpuriousWakeup(w)
    <3>1. Coming \subseteq Coming' /\ Waiters' \subseteq Waiters
      BY <2>1 DEF WorkLock, WorkUnlock, RunJob, SpuriousWakeup, Coming, Waiters
    <3>2. jobs' = jobs /\ mpc' = mpc
      BY <2>1 DEF WorkLock, WorkUnlock, RunJob, SpuriousWakeup
    <3> QED BY <3>1, <3>2, ComingGrows
  <2>2. CASE WorkWait(w)
    <3>1. Coming' \subseteq Workers
      BY DEF Coming
    <3>2. Cardinality(Coming') \in Nat
      BY <3>1, ComingSize
    <3>3. Len(jobs') = 0
      BY <2>2 DEF WorkWait
    <3> QED BY <3>2, <3>3 DEF NoIdleWorker
  <2>3. CASE WorkTake(w)
    <3>1. Coming' = Coming \ {w} /\ w \in Coming /\ Waiters' = Waiters
      BY <2>3 DEF WorkTake, Coming, Waiters
    <3>2. IsFiniteSet(Coming) /\ Cardinality(Coming) \in Nat
      BY ComingSize DEF Coming
    <3>3. Cardinality(Coming') = Cardinality(Coming) - 1
      BY <3>1, <3>2, FS_RemoveElement
    <3>4. Len(jobs') = Len(jobs) - 1 /\ mpc' = mpc
      BY <2>3 DEF WorkTake, LIST_REMOVE
    <3> QED BY <3>1, <3>2, <3>3, <3>4 DEF NoIdleWorker
  <2> QED BY <1>7, <2>1, <2>2, <2>3 DEF WorkerStep
<1>8. CASE Exited \/ UNCHANGED vars
  BY <1>8, ComingGrows DEF Exited, vars, Coming, Waiters
<1> QED BY <1>1, <1>2, <1>3, <1>4, <1>5, <1>6, <1>7, <1>8 DEF Next, MainStep

\* Inv holds in every reachable state of the pool.
THEOREM Invariance == Spec => []Inv
<1>1. Init => Inv
  <2> SUFFICES ASSUME Init PROVE Inv
    OBVIOUS
  <2> USE ConstantFacts DEF Init
  <2>1. TypeOK
    BY DEF TypeOK, MainPcs, WorkerPcs
  <2>2. LockInv /\ CounterInv
    BY DEF LockInv, CounterInv, MainLocked, WorkerLocked
  <2>3. \A w \in Workers : Held(w) = {}
    BY DEF Held
  <2>4. HeldInv /\ UntouchedInv /\ JobInOnePlace
    BY <2>3 DEF HeldInv, UntouchedInv, Nowhere, JobInOnePlace,
                RunAtMostOnce, LinkedOnce, LinkedNotRun, HeldAlone
  <2>5. NoIdleWorker
    BY DEF NoIdleWorker, Waiters
  <2> QED BY <2>1, <2>2, <2>4, <2>5 DEF Inv
<1>2. Inv /\ [Next]_vars => Inv'
  BY TypeStep, ControlStep, JobStep, IdleStep DEF Inv
<1> QED BY <1>1, <1>2, PTL DEF Spec

\* Every variable keeps its type: the list holds jobs only, the mutex is free or
\* held by one thread, and no thread leaves the lines of its routine.
THEOREM TypeCorrect == Spec => []TypeOK
<1>1. Inv => TypeOK
  BY DEF Inv
<1> QED BY <1>1, Invariance, PTL

\* One thread at a time uses the job list (the lock and unlock calls of
\* workThread and addJobToPool), for every pool size.
THEOREM ListIsProtected == Spec => []MutualExclusion
<1>1. Inv => MutualExclusion
  BY ConstantFacts DEF Inv, LockInv, MutualExclusion
<1> QED BY <1>1, Invariance, PTL

\* No job is run twice, lost or linked after it was run, for any number of
\* workers and jobs (LIST_ADD, LIST_REMOVE and cb_fun).
THEOREM EachJobInOnePlace == Spec => []JobInOnePlace
<1>1. Inv => JobInOnePlace
  BY DEF Inv
<1> QED BY <1>1, Invariance, PTL

\* The signal of addJobToPool and the loop around pthread_cond_wait miss no
\* sleeping worker, for any number of workers and jobs.
THEOREM NoWakeupIsLost == Spec => []NoIdleWorker
<1>1. Inv => NoIdleWorker
  BY DEF Inv
<1> QED BY <1>1, Invariance, PTL

\* A step that moves no job is a stuttering step of JobPool.
LEMMA StatusUnchanged ==
  ASSUME UNCHANGED <<jobs, runs>>, \A w \in Workers : Held(w)' = Held(w)
  PROVE  JobStatus' = JobStatus
BY DEF JobStatus, StatusOf

\* A step that changes the status of one job moves that job in JobPool.
LEMMA StatusMoves ==
  ASSUME NEW k \in Jobs, NEW v,
         StatusOf(k)' = v,
         \A j \in Jobs : j # k => StatusOf(j)' = StatusOf(j)
  PROVE  JobStatus' = [JobStatus EXCEPT ![k] = v] /\ JobStatus[k] = StatusOf(k)
BY DEF JobStatus

\* Every step of the threads is a step of JobPool or changes no status.
LEMMA StatusStep == Inv /\ [Next]_vars => [Pool!JobPoolNext]_JobStatus
<1> SUFFICES ASSUME Inv, [Next]_vars
             PROVE  Pool!JobPoolNext \/ JobStatus' = JobStatus
  OBVIOUS
<1> USE ConstantFacts DEF Inv, TypeOK
<1>1. CASE CreateWorker
  <2>1. UNCHANGED <<jobs, runs>> /\ \A w \in Workers : Held(w)' = Held(w)
    BY <1>1, NewWorkerIdle DEF CreateWorker
  <2> QED BY <2>1, StatusUnchanged
<1>2. CASE CreateFails \/ ListWorker \/ CreateReturns
  BY <1>2, StatusUnchanged DEF CreateFails, ListWorker, CreateReturns, Held
<1>3. CASE NewJob \/ NewJobFails \/ Getchar
  BY <1>3, StatusUnchanged DEF NewJob, NewJobFails, Getchar, Held
<1>4. CASE AddLock \/ AddUnlock
  BY <1>4, StatusUnchanged DEF AddLock, AddUnlock, Held
<1>5. CASE AddSignal
  BY <1>5, StatusUnchanged DEF AddSignal, Waiters, Held
<1>6. CASE AddList
  <2>1. i \in Jobs /\ Nowhere(i)
    BY <1>6, JobSizeAssumption DEF AddList, CounterInv, UntouchedInv, Added, Jobs
  <2>2. \A j : (\E n \in DOMAIN jobs' : jobs'[n] = j) <=>
               (j = i \/ \E n \in DOMAIN jobs : jobs[n] = j)
    <3>1. /\ DOMAIN jobs' = 1 .. (Len(jobs) + 1) /\ DOMAIN jobs = 1 .. Len(jobs)
          /\ Len(jobs) \in Nat
          /\ jobs'[1] = i
          /\ \A n \in 1 .. Len(jobs) : jobs'[n + 1] = jobs[n]
          /\ \A n \in 2 .. (Len(jobs) + 1) : jobs'[n] = jobs[n - 1]
      BY <1>6, <2>1 DEF AddList, LIST_ADD
    <3>2. \A n \in DOMAIN jobs : n + 1 \in DOMAIN jobs'
      BY <3>1
    <3>3. 1 \in DOMAIN jobs' /\
          \A n \in DOMAIN jobs' : n # 1 => n - 1 \in DOMAIN jobs /\ n \in 2 .. (Len(jobs) + 1)
      BY <3>1
    <3>4. ASSUME NEW j, NEW n \in DOMAIN jobs', jobs'[n] = j
          PROVE  j = i \/ \E m \in DOMAIN jobs : jobs[m] = j
      <4>1. CASE n = 1
        BY <3>1, <3>4, <4>1
      <4>2. CASE n # 1
        <5>1. n - 1 \in DOMAIN jobs /\ jobs[n - 1] = j
          BY <3>1, <3>3, <3>4, <4>2
        <5> QED BY <5>1, Zenon
      <4> QED BY <4>1, <4>2
    <3>5. ASSUME NEW j, j = i \/ \E n \in DOMAIN jobs : jobs[n] = j
          PROVE  \E n \in DOMAIN jobs' : jobs'[n] = j
      <4>1. CASE j = i
        BY <3>1, <3>3, <4>1
      <4>2. CASE \E n \in DOMAIN jobs : jobs[n] = j
        <5>1. PICK n \in DOMAIN jobs : jobs[n] = j
          BY <4>2
        <5>2. n + 1 \in DOMAIN jobs' /\ jobs'[n + 1] = j
          BY <3>1, <3>2, <5>1
        <5> QED BY <5>2, Zenon
      <4> QED BY <3>5, <4>1, <4>2
    <3> QED BY <3>4, <3>5, Zenon
  <2>3. runs' = runs /\ \A w \in Workers : Held(w)' = Held(w)
    BY <1>6 DEF AddList, Held
  <2>4. PICK k \in Jobs : k = i
    BY <2>1
  <2>5. StatusOf(k) = "new" /\ StatusOf(k)' = "queued"
    <3>1. /\ runs[k] = 0 /\ runs'[k] = 0
          /\ ~ \E n \in DOMAIN jobs : jobs[n] = k
          /\ \A w \in Workers : k \notin Held(w) /\ k \notin Held(w)'
      BY <2>1, <2>3, <2>4 DEF Nowhere
    <3>2. \E n \in DOMAIN jobs' : jobs'[n] = k
      BY <2>2, <2>4
    <3> QED BY <3>1, <3>2 DEF StatusOf
  <2>6. \A j \in Jobs : j # k => StatusOf(j)' = StatusOf(j)
    BY <2>2, <2>3, <2>4 DEF StatusOf
  <2> QED BY <2>5, <2>6, StatusMoves DEF Pool!JobPoolNext, Pool!Submit, Pool!Move
<1>7. ASSUME NEW w \in Workers, WorkerStep(w) \/ SpuriousWakeup(w)
      PROVE  Pool!JobPoolNext \/ JobStatus' = JobStatus
  <2>1. CASE WorkLock(w) \/ WorkWait(w) \/ WorkUnlock(w) \/ SpuriousWakeup(w)
    <3>1. UNCHANGED <<jobs, runs>>
      BY <2>1 DEF WorkLock, WorkWait, WorkUnlock, SpuriousWakeup
    <3>2. \A v \in Workers : Held(v)' = Held(v)
      BY <2>1 DEF WorkLock, WorkWait, WorkUnlock, SpuriousWakeup, Held
    <3> QED BY <3>1, <3>2, StatusUnchanged
  <2>2. CASE WorkTake(w)
    <3>1. PICK k \in Jobs : k = jobs[1] /\ Held(w)' = {k} /\ Held(w) = {}
                            /\ 1 \in DOMAIN jobs
      BY <2>2 DEF WorkTake, Held
    <3>2. /\ DOMAIN jobs = 1 .. Len(jobs) /\ DOMAIN jobs' = 1 .. (Len(jobs) - 1)
          /\ Len(jobs) \in Nat
          /\ \A n \in 1 .. (Len(jobs) - 1) : jobs'[n] = jobs[n + 1]
      BY <2>2 DEF WorkTake, LIST_REMOVE
    <3>3. ASSUME NEW j \in Jobs, j # k
          PROVE  (\E n \in DOMAIN jobs' : jobs'[n] = j) <=>
                 (\E n \in DOMAIN jobs : jobs[n] = j)
      <4>1. ASSUME NEW n \in DOMAIN jobs, jobs[n] = j
            PROVE  n - 1 \in DOMAIN jobs' /\ jobs'[n - 1] = j
        <5>1. n # 1
          BY <3>1, <3>3, <4>1
        <5> HIDE DEF Inv, TypeOK
        <5>2. n - 1 \in 1 .. (Len(jobs) - 1) /\ (n - 1) + 1 = n
          <6>1. n \in 1 .. Len(jobs) /\ Len(jobs) \in Nat
            BY <3>2
          <6> QED BY <5>1, <6>1
        <5>3. jobs'[n - 1] = jobs[n]
          BY <3>2, <5>2
        <5> QED BY <3>2, <4>1, <5>2, <5>3
      <4>2. ASSUME NEW n \in DOMAIN jobs', jobs'[n] = j
            PROVE  n + 1 \in DOMAIN jobs /\ jobs[n + 1] = j
        <5> HIDE DEF Inv, TypeOK
        <5>1. n \in 1 .. (Len(jobs) - 1)
          BY <3>2
        <5>2. n + 1 \in DOMAIN jobs
          BY <3>2, <5>1
        <5>3. jobs'[n] = jobs[n + 1]
          BY <3>2, <5>1
        <5> QED BY <4>2, <5>2, <5>3
      <4> QED BY <4>1, <4>2
    <3>4. runs' = runs /\ \A v \in Workers \ {w} : Held(v)' = Held(v)
      BY <2>2 DEF WorkTake, Held
    <3>5. runs[k] = 0 /\ \A v \in Workers : k \notin Held(v)
      BY <3>1 DEF JobInOnePlace, LinkedNotRun, HeldAlone
    <3>6. StatusOf(k) = "queued" /\ StatusOf(k)' = "running"
      BY <3>1, <3>4, <3>5 DEF StatusOf
    <3>7. ASSUME NEW j \in Jobs, j # k PROVE StatusOf(j)' = StatusOf(j)
      <4>1. (\E v \in Workers : j \in Held(v)') <=> (\E v \in Workers : j \in Held(v))
        BY <3>1, <3>4, <3>7
      <4> QED BY <4>1, <3>3, <3>4, <3>7 DEF StatusOf
    <3> QED BY <3>6, <3>7, StatusMoves DEF Pool!JobPoolNext, Pool!Start, Pool!Move
  <2>3. CASE RunJob(w)
    <3>1. PICK k \in Jobs : k = job[w] /\ Held(w) = {k} /\ Held(w)' = {}
      BY <2>3 DEF RunJob, Held, HeldInv
    <3>2. /\ jobs' = jobs
          /\ \A v \in Workers \ {w} : Held(v)' = Held(v)
          /\ runs'[k] = runs[k] + 1
          /\ \A j \in Jobs : j # k => runs'[j] = runs[j]
      BY <2>3, <3>1 DEF RunJob, Held
    <3>3. runs[k] = 0
      BY <3>1 DEF JobInOnePlace, HeldAlone
    <3>4. StatusOf(k) = "running" /\ StatusOf(k)' = "done"
      BY <3>1, <3>2, <3>3 DEF StatusOf
    <3>5. ASSUME NEW j \in Jobs, j # k PROVE StatusOf(j)' = StatusOf(j)
      <4>1. (\E v \in Workers : j \in Held(v)') <=> (\E v \in Workers : j \in Held(v))
        BY <3>1, <3>2, <3>5
      <4> QED BY <4>1, <3>2, <3>5 DEF StatusOf
    <3> QED BY <3>4, <3>5, StatusMoves DEF Pool!JobPoolNext, Pool!Finish, Pool!Move
  <2> QED BY <1>7, <2>1, <2>2, <2>3 DEF WorkerStep
<1>8. CASE Exited \/ UNCHANGED vars
  BY <1>8, StatusUnchanged DEF Exited, vars, Held
<1> QED BY <1>1, <1>2, <1>3, <1>4, <1>5, <1>6, <1>7, <1>8 DEF Next, MainStep

\* The pool of threads implements JobPool: a job is queued, started and
\* finished once and in that order, whatever the threads' interleaving.
THEOREM Refinement == Spec => ImplementsJobPool
<1>1. Init => Pool!JobPoolInit
  BY ConstantFacts DEF Init, Pool!JobPoolInit, JobStatus, StatusOf, Held
<1> QED BY <1>1, StatusStep, Invariance, PTL
       DEF Spec, ImplementsJobPool, Pool!JobPoolSpec
==============================================================================
