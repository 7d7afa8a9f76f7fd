----------------------------- MODULE MCPrograms -----------------------------
(***************************************************************************)
(* TLC instance of five programs of several threads or processes: the      *)
(* standby machine of the heartbeat with one retry, two interfaces and     *)
(* descriptors that run out; its probe from both ends, with two standby    *)
(* machines; AddMinus with eight threads; a thread pool asked for with no  *)
(* worker at all; and Pipe with its own sizes.  They share nothing: prog   *)
(* says which of them runs, and the others stay in their initial state.    *)
(* The probe has a run of its own, hence Progs.  Only what is due needs    *)
(* fairness, that of its own program, so each liveness property states it, *)
(* and ProbeSpec for the probe.                                            *)
(***************************************************************************)
EXTENDS HeartBeatClient

CONSTANTS Progs,       \* the programs to be explored
          NUM_THREADS, Times, TextLen, BuffLen,
          Clients, NConns, iMaxConnNum, ServerFds

VARIABLES prog,
          g_sum, ti, joining, tpc,
          mpc, pi, wpc, job, mtx, jobs, workers, runs,
          fpc, cpc, written, reads, bytes, writeEnds, offset, piled,
          spc, si, rfds, iNewSocketId, sfds, listening, backlog, conn, epc, addr, iSocketId, early

Threads8 == INSTANCE AddMinus WITH i <- ti
PoolOfOne == INSTANCE ThreadPool WITH PoolSize <- 0, JobSize <- 4, i <- pi
Pipe10 == INSTANCE Pipe
Probes == INSTANCE HeartBeatProbe WITH FdLimit <- ServerFds, i <- si, cpc <- epc

ASSUME ProgramsAssumption == /\ Threads8!NumThreadsAssumption /\ Pipe10!PipeAssumption
                             /\ Probes!ProbeAssumption

addMinusVars == <<g_sum, ti, joining, tpc>>
poolVars == <<mpc, pi, wpc, job, mtx, jobs, workers, runs>>
pipeVars == <<fpc, cpc, written, reads, bytes, writeEnds, offset, piled>>
probeVars == <<spc, si, rfds, iNewSocketId, sfds, listening, backlog, conn, epc, addr, iSocketId, early>>
AllVars == <<prog, vars, addMinusVars, poolVars, pipeVars, probeVars>>

AllInit == /\ prog \in Progs
           /\ Init /\ Threads8!Init /\ PoolOfOne!Init /\ Pipe10!Init /\ Probes!Init
           /\ prog # "HeartBeatClient" => tele /\ answers = [s \in Server |-> "yes"]

AllNext ==
    /\ UNCHANGED prog
    /\ \/ prog = "HeartBeatClient" /\ Next /\ UNCHANGED <<addMinusVars, poolVars, pipeVars, probeVars>>
       \/ prog = "HeartBeatProbe" /\ Probes!Next /\ UNCHANGED <<vars, addMinusVars, poolVars, pipeVars>>
       \/ prog = "AddMinus" /\ Threads8!Next /\ UNCHANGED <<vars, poolVars, pipeVars, probeVars>>
       \/ prog = "ThreadPool" /\ PoolOfOne!Next /\ UNCHANGED <<vars, addMinusVars, pipeVars, probeVars>>
       \/ prog = "Pipe" /\ Pipe10!Next /\ UNCHANGED <<vars, addMinusVars, poolVars, probeVars>>

AllSpec == AllInit /\ [][AllNext]_AllVars

\* The same, with the fairness of the probe, for the run in which it is alone.
ProbeSpec == AllSpec /\ Probes!Fairness

\* HeartBeatClient: the standby takes over from a main machine that refuses, and
\* hands back to one that answers again, the interfaces down, unless its last take-over
\* stopped at ps with the interfaces up and the flag unchanged.
StandbyFollows == prog = "HeartBeatClient" /\ Fairness => TakesOver /\ HandsBack

\* HeartBeatProbe: ExecServer and ExecClient never wait for each other, and the server
\* loses a descriptor only to a client that went away.
ServerIsSound == Probes!ServerIsSound

\* HeartBeatProbe: every client that waits for its answer gets one, unless the server
\* is stuck or gone.
EveryProbeReturns == Probes!EveryProbeReturns

\* AddMinus: g_sum accounts for every thread that is through, and few threads can
\* be left in pthread_cond_wait.
ThreadsAreAccounted == Threads8!TypeOK /\ Threads8!SumAccounts /\ Threads8!FewAreStuck

\* Pipe: the father is never killed by a child that has read enough, and a text is
\* cut only when more than the child's buffer holds was waiting.
PipeIsKept == Pipe10!PipeIsKept

\* AddMinus: test_thread ends unless a minus thread waits for ever.  ThreadPool:
\* every job runs, since createPool clamps the size to one.  Pipe: both processes end.
ProgramsEnd == /\ prog = "AddMinus" /\ Threads8!Fairness => Threads8!EndsOrWaits
               /\ prog = "ThreadPool" /\ PoolOfOne!Fairness => PoolOfOne!EveryJobRuns
               /\ prog = "Pipe" /\ Pipe10!Fairness => Pipe10!BothEnd
==============================================================================
