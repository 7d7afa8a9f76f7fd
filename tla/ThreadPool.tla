------------------------------ MODULE ThreadPool ------------------------------
(***************************************************************************)
(* temp/pthread_pool.cpp: main creates a pool of worker threads, hands it  *)
(* JobSize jobs and waits in getchar(); returning from main ends the       *)
(* process and with it every worker, wherever it is.                       *)
(*                                                                         *)
(* A step is what one thread does between two points at which another      *)
(* thread can tell the difference: acquiring or releasing jobs_mtx, going  *)
(* to sleep on jobs_cond, a change of a shared list, a callback.           *)
(*                                                                         *)
(* Nothing in the program ever sets worker->terminate (line 114 is its     *)
(* only assignment), so the exits of workThread at lines 68, 72-76 and     *)
(* 87-88 are dead code and have no action.                                 *)
(***************************************************************************)
EXTENDS Integers, Sequences, FiniteSets

CONSTANTS PoolSize,   \* the pool_size argument of createPool (WORKER_SIZE)
          JobSize     \* the number of jobs main creates (JOB_SIZE)

ASSUME PoolSizeAssumption == PoolSize \in Int
ASSUME JobSizeAssumption == JobSize \in Nat

\* A bug for NWorkers: a pool of no worker is accepted.
NWorkersUnclamped == IF PoolSize < 0 THEN 0 ELSE PoolSize

\* pool_size < 1 is taken as 1.
NWorkers == IF PoolSize < 1 THEN 1 ELSE PoolSize
Workers == 1 .. NWorkers
Main == 0            \* as an owner of jobs_mtx
Free == -1           \* jobs_mtx is not locked
Jobs == 0 .. JobSize - 1
NoJob == -1

VARIABLES mpc,       \* where main is
          i,         \* main's loop counter, in createPool and then in main
          wpc,       \* where each worker is
          job,       \* the local variable job of each worker
          mtx,       \* the owner of pool->jobs_mtx
          jobs,      \* the list pool->jobs, first element first
          workers,   \* the list pool->workers
          runs       \* how often cb_fun was called for each job (history)

vars == <<mpc, i, wpc, job, mtx, jobs, workers, runs>>
mainVars == <<mpc, i, workers>>

\* The value the next-state relation of a list macro gives to the list.
LIST_ADD(item, list) == <<item>> \o list

\* A bug for LIST_REMOVE: the rest of the list is lost with its head.
LIST_REMOVE_ALL(list) == <<>>

LIST_REMOVE(list) == Tail(list)          \* the program only removes the head

Init == /\ mpc = "create"
        /\ i = 0
        /\ wpc = [w \in Workers |-> "none"]
        /\ job = [w \in Workers |-> NoJob]
        /\ mtx = Free
        /\ jobs = <<>>
        /\ workers = <<>>
        /\ runs = [j \in Jobs |-> 0]

\* The workers blocked in pthread_cond_wait.
Waiters == {w \in Workers : wpc[w] = "wait"}

\* The workers on their way to the test of line 66.
Coming == {w \in Workers : wpc[w] \in {"lock", "relock", "check"}}

----------------------------------------------------------------------------
(* main and createPool *)

\* malloc and pthread_create succeed: the new thread starts to run before it
\* is put on the list of workers.
CreateWorker == /\ mpc = "create"
                /\ i < NWorkers
                /\ wpc' = [wpc EXCEPT ![i + 1] = "lock"]
                /\ mpc' = "listWorker"
                /\ UNCHANGED <<i, job, mtx, jobs, workers, runs>>

\* malloc or pthread_create fails: createPool returns 1 and main with it.
CreateFails == /\ mpc = "create"
               /\ i < NWorkers
               /\ mpc' = "exit"
               /\ UNCHANGED <<i, wpc, job, mtx, jobs, workers, runs>>

ListWorker == /\ mpc = "listWorker"
              /\ workers' = LIST_ADD(i + 1, workers)
              /\ i' = i + 1
              /\ mpc' = "create"
              /\ UNCHANGED <<wpc, job, mtx, jobs, runs>>

CreateReturns == /\ mpc = "create"
                 /\ i = NWorkers
                 /\ i' = 0
                 /\ mpc' = "newJob"
                 /\ UNCHANGED <<wpc, job, mtx, jobs, workers, runs>>

\* A bug for NewJob: one job too many.
NewJobOneMore == /\ mpc = "newJob"
                 /\ mpc' = IF i <= JobSize THEN "addLock" ELSE "getchar"
                 /\ UNCHANGED <<i, wpc, job, mtx, jobs, workers, runs>>

\* malloc succeeds; the loop ends after JobSize jobs.
NewJob == /\ mpc = "newJob"
          /\ mpc' = IF i < JobSize THEN "addLock" ELSE "getchar"
          /\ UNCHANGED <<i, wpc, job, mtx, jobs, workers, runs>>

\* malloc fails: main returns 1.
NewJobFails == /\ mpc = "newJob"
               /\ i < JobSize
               /\ mpc' = "exit"
               /\ UNCHANGED <<i, wpc, job, mtx, jobs, workers, runs>>

AddLock == /\ mpc = "addLock"
           /\ mtx = Free
           /\ mtx' = Main
           /\ mpc' = "addList"
           /\ UNCHANGED <<i, wpc, job, jobs, workers, runs>>

AddList == /\ mpc = "addList"
           /\ jobs' = LIST_ADD(i, jobs)
           /\ mpc' = "addSignal"
           /\ UNCHANGED <<i, wpc, job, mtx, workers, runs>>

\* A bug for AddSignal: the signal is only sent when the list was empty.
AddSignalOnlyWhenEmpty ==
    /\ mpc = "addSignal"
    /\ wpc' \in IF Waiters = {} \/ Len(jobs) > 1
                THEN {wpc}
                ELSE {[wpc EXCEPT ![w] = "relock"] : w \in Waiters}
    /\ mpc' = "addUnlock"
    /\ UNCHANGED <<i, job, mtx, jobs, workers, runs>>

\* pthread_cond_signal wakes one waiter, if there is one.
AddSignal == /\ mpc = "addSignal"
             /\ wpc' \in IF Waiters = {}
                         THEN {wpc}
                         ELSE {[wpc EXCEPT ![w] = "relock"] : w \in Waiters}
             /\ mpc' = "addUnlock"
             /\ UNCHANGED <<i, job, mtx, jobs, workers, runs>>

AddUnlock == /\ mpc = "addUnlock"
             /\ mtx' = Free
             /\ i' = i + 1
             /\ mpc' = "newJob"
             /\ UNCHANGED <<wpc, job, jobs, workers, runs>>

\* getchar returns and so does main.
Getchar == /\ mpc = "getchar"
           /\ mpc' = "exit"
           /\ UNCHANGED <<i, wpc, job, mtx, jobs, workers, runs>>

MainStep == \/ CreateWorker \/ CreateFails \/ ListWorker \/ CreateReturns
            \/ NewJob \/ NewJobFails
            \/ AddLock \/ AddList \/ AddSignal \/ AddUnlock

----------------------------------------------------------------------------
(* workThread *)

Alive(w) == mpc # "exit" /\ wpc[w] # "none"

\* A bug for WorkLock: pthread_cond_wait returns without the mutex.
WorkLockUnlocked(w) == /\ Alive(w)
                       /\ \/ wpc[w] = "lock" /\ mtx = Free /\ mtx' = w
                          \/ wpc[w] = "relock" /\ mtx' = w
                       /\ wpc' = [wpc EXCEPT ![w] = "check"]
                       /\ UNCHANGED <<mainVars, job, jobs, runs>>

\* Line 64, and the return of pthread_cond_wait, which locks the mutex again.
WorkLock(w) == /\ Alive(w)
               /\ wpc[w] \in {"lock", "relock"}
               /\ mtx = Free
               /\ mtx' = w
               /\ wpc' = [wpc EXCEPT ![w] = "check"]
               /\ UNCHANGED <<mainVars, job, jobs, runs>>

\* The list is empty: wait on jobs_cond, releasing jobs_mtx.
WorkWait(w) == /\ Alive(w)
               /\ wpc[w] = "check"
               /\ jobs = <<>>
               /\ mtx' = Free
               /\ wpc' = [wpc EXCEPT ![w] = "wait"]
               /\ UNCHANGED <<mainVars, job, jobs, runs>>

\* POSIX lets pthread_cond_wait return without a signal.
SpuriousWakeup(w) == /\ Alive(w)
                     /\ wpc[w] = "wait"
                     /\ wpc' = [wpc EXCEPT ![w] = "relock"]
                     /\ UNCHANGED <<mainVars, job, mtx, jobs, runs>>

\* A bug for WorkTake: the job is left on the list.
WorkTakeKeeps(w) == /\ Alive(w)
                    /\ wpc[w] = "check"
                    /\ jobs # <<>>
                    /\ job' = [job EXCEPT ![w] = Head(jobs)]
                    /\ wpc' = [wpc EXCEPT ![w] = "unlock"]
                    /\ UNCHANGED <<mainVars, mtx, jobs, runs>>

WorkTake(w) == /\ Alive(w)
               /\ wpc[w] = "check"
               /\ jobs # <<>>
               /\ job' = [job EXCEPT ![w] = Head(jobs)]
               /\ jobs' = LIST_REMOVE(jobs)
               /\ wpc' = [wpc EXCEPT ![w] = "unlock"]
               /\ UNCHANGED <<mainVars, mtx, runs>>

\* A bug for WorkUnlock: the worker leaves with the mutex locked.
WorkUnlockForgets(w) == /\ Alive(w)
                        /\ wpc[w] = "unlock"
                        /\ wpc' = [wpc EXCEPT ![w] = "run"]
                        /\ UNCHANGED <<mainVars, job, mtx, jobs, runs>>

WorkUnlock(w) == /\ Alive(w)
                 /\ wpc[w] = "unlock"
                 /\ mtx' = Free
                 /\ wpc' = [wpc EXCEPT ![w] = "run"]
                 /\ UNCHANGED <<mainVars, job, jobs, runs>>

\* job->cb_fun(job), outside the mutex: myCbFun prints and frees the job.
RunJob(w) == /\ Alive(w)
             /\ wpc[w] = "run"
             /\ runs' = [runs EXCEPT ![job[w]] = @ + 1]
             /\ wpc' = [wpc EXCEPT ![w] = "lock"]
             /\ UNCHANGED <<mainVars, job, mtx, jobs>>

WorkerStep(w) == \/ WorkLock(w) \/ WorkWait(w) \/ WorkTake(w)
                 \/ WorkUnlock(w) \/ RunJob(w)

Exited == mpc = "exit" /\ UNCHANGED vars

Next == \/ MainStep
        \/ Getchar
        \/ \E w \in Workers : WorkerStep(w) \/ SpuriousWakeup(w)
        \/ Exited

\* Every thread that can run does run.  Main's getchar may never return and
\* no one owes a worker a spurious wakeup; nothing is assumed about which of
\* several threads gets the mutex.
Fairness == /\ WF_vars(MainStep)
            /\ \A w \in Workers : WF_vars(WorkerStep(w))

Spec == Init /\ [][Next]_vars

FairSpec == Spec /\ Fairness

----------------------------------------------------------------------------
(* Properties *)

MainPcs == {"create", "listWorker", "newJob", "addLock", "addList",
            "addSignal", "addUnlock", "getchar", "exit"}
WorkerPcs == {"none", "lock", "check", "wait", "relock", "unlock", "run"}

TypeOK == /\ mpc \in MainPcs
          /\ i \in Nat
          /\ wpc \in [Workers -> WorkerPcs]
          /\ job \in [Workers -> Jobs \cup {NoJob}]
          /\ mtx \in Workers \cup {Main, Free}
          /\ jobs \in Seq(Jobs)
          /\ workers \in Seq(Workers)
          /\ runs \in [Jobs -> Nat]

\* main holds jobs_mtx.
MainLocked == mpc \in {"addList", "addSignal", "addUnlock"}

\* Worker w holds jobs_mtx.
WorkerLocked(w) == wpc[w] \in {"check", "unlock"}

\* The shared list pool->jobs is read and changed by one thread at a time:
\* a worker between its lock (line 64, or the relock in pthread_cond_wait) and
\* its unlock (81) excludes every other worker and main's addJobToPool.
MutualExclusion ==
    /\ \A w \in Workers : WorkerLocked(w) => ~ MainLocked
    /\ \A w, v \in Workers : WorkerLocked(w) /\ WorkerLocked(v) => w = v

\* The jobs a worker has unlinked and not yet finished.
Held(w) == IF wpc[w] \in {"unlock", "run"} THEN {job[w]} ELSE {}

RunAtMostOnce == \A j \in Jobs : runs[j] <= 1
LinkedOnce == \A m, n \in DOMAIN jobs : jobs[m] = jobs[n] => m = n
LinkedNotRun == \A n \in DOMAIN jobs : runs[jobs[n]] = 0
HeldAlone == \A w \in Workers : \A j \in Held(w) :
                /\ runs[j] = 0
                /\ \A n \in DOMAIN jobs : jobs[n] # j
                /\ \A v \in Workers \ {w} : j \notin Held(v)

\* A job is in one place only: it is on the list at most once, or held by one
\* worker, or was run once.  In particular no callback runs twice for a job,
\* which would free it twice (lines 148-149), and none is run for a job that
\* is still linked.
JobInOnePlace == RunAtMostOnce /\ LinkedOnce /\ LinkedNotRun /\ HeldAlone

\* No lost wakeup, in its strong form: while a worker sleeps in
\* pthread_cond_wait there is, for every job on the list, a worker on its way
\* to the list (or a signal main is about to send), so no job waits for a busy
\* worker while another sleeps.
NoIdleWorker ==
    Waiters # {} =>
        Len(jobs) <= Cardinality(Coming) + (IF mpc = "addSignal" THEN 1 ELSE 0)

\* Every job handed to the pool is run, unless main ends the process first.
EveryJobRuns == \A j \in Jobs : (\E n \in DOMAIN jobs : jobs[n] = j)
                                   ~> (runs[j] = 1 \/ mpc = "exit")

\* The status of a job as the client sees it.
StatusOf(j) == IF runs[j] > 0 THEN "done"
               ELSE IF \E w \in Workers : j \in Held(w) THEN "running"
               ELSE IF \E n \in DOMAIN jobs : jobs[n] = j THEN "queued"
               ELSE "new"

JobStatus == [j \in Jobs |-> StatusOf(j)]

\* JobPool with the status of a job computed from the list and the workers.
Pool == INSTANCE JobPool WITH status <- JobStatus

\* The threads, the mutex and the list implement the pool JobPool describes:
\* every job is queued, started and finished once and in that order.
ImplementsJobPool == Pool!JobPoolSpec
==============================================================================
