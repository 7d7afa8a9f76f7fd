------------------------------- MODULE JobPool -------------------------------
(***************************************************************************)
(* What the thread pool of temp/pthread_pool.cpp promises to its client,   *)
(* whatever threads, mutex and list it is built from: a job handed to the  *)
(* pool is queued once, run by one worker at a time and finished once.     *)
(***************************************************************************)
CONSTANT Jobs

VARIABLE status

Statuses == {"new", "queued", "running", "done"}

JobPoolInit == status = [j \in Jobs |-> "new"]

Move(j, from, to) == status[j] = from /\ status' = [status EXCEPT ![j] = to]

\* addJobToPool hands the job over.
Submit(j) == Move(j, "new", "queued")

\* A worker unlinks the job from the list.
Start(j) == Move(j, "queued", "running")

\* The worker returns from cb_fun.
Finish(j) == Move(j, "running", "done")

JobPoolNext == \E j \in Jobs : Submit(j) \/ Start(j) \/ Finish(j)

JobPoolSpec == JobPoolInit /\ [][JobPoolNext]_status
==============================================================================
