--------------------------- MODULE HeartBeatClient ---------------------------
(***************************************************************************)
(* teleHeartBeat/HeartBeat.cpp, RunAsClient: the standby machine probes    *)
(* the two addresses of the main machine in a loop.  When neither answers  *)
(* for RetryTimes + 1 rounds it brings its own network interfaces up and   *)
(* starts teleManager; when one answers again it takes them down.          *)
(*                                                                         *)
(* A probe (ExecClient) connects, writes, reads without a time-out, and    *)
(* closes its socket only if all of that succeeded: a probe that fails     *)
(* leaves a descriptor open.  HeartBeatProbe has its other side.           *)
(* iRetryTimes is only compared with RetryTimes and stops at RetryTimes+1  *)
(* here.                                                                   *)
(***************************************************************************)
EXTENDS Integers, FiniteSets

CONSTANTS RetryTimes,       \* conf.RetryTimes
          iEthernetNumber,  \* conf.iEthernetNumber
          FdLimit           \* descriptors the process may open

ASSUME ConfAssumption == RetryTimes \in Nat /\ iEthernetNumber \in Nat /\ FdLimit \in Nat

Server == 1 .. 2
Ethernet == 1 .. iEthernetNumber
MAIN_FLAG == 0
BACKUP_FLAG == 1

VARIABLES pc, iRetryTimes, iErrorFlag, iMainFlag,
          iRet,       \* iRet1 and iRet2
          i,          \* the loops over the interfaces
          pidCnt,     \* teleManager processes that ps counted
          fds,        \* descriptors left open
          up,         \* interfaces that are up
          tele,       \* teleManager runs on this machine
          answers,    \* how each address of the main machine answers now
          blind,      \* a probe of this round got no socket (history)
          misses,     \* rounds since the last answer, blind ones apart (history)
          psFailed    \* the last attempt to take over stopped at ps (history)

vars == <<pc, iRetryTimes, iErrorFlag, iMainFlag, iRet, i, pidCnt, fds, up, tele,
          answers, blind, misses, psFailed>>
flags == <<iRetryTimes, iErrorFlag, iMainFlag>>
machine == <<up, tele>>
rounds == <<blind, misses>>

Init == /\ pc = "probe1"
        /\ iRetryTimes = 0 /\ iErrorFlag = 0 /\ iMainFlag = MAIN_FLAG
        /\ iRet = [s \in Server |-> 0]
        /\ i = 0 /\ pidCnt = -1 /\ fds = 0
        /\ up = {}
        /\ tele \in BOOLEAN
        /\ answers \in [Server -> {"yes", "no", "silent"}]
        /\ blind = FALSE /\ misses = 0 /\ psFailed = FALSE

----------------------------------------------------------------------------
(* The probes: ExecClient *)

Probing(s) == IF s = 1 THEN "probe1" ELSE "probe2"
Reading(s) == IF s = 1 THEN "read1" ELSE "read2"
NextProbe(s) == IF s = 1 THEN "probe2" ELSE "judge"

Returns(s, ret) == /\ iRet' = [iRet EXCEPT ![s] = ret]
                   /\ pc' = NextProbe(s)
                   /\ UNCHANGED <<flags, i, pidCnt, machine, answers, misses, psFailed>>

\* A descriptor stays open.
Leak == fds' = fds + 1

ProbeNoSocket(s) == /\ pc = Probing(s)
                    /\ fds = FdLimit
                    /\ blind' = TRUE
                    /\ UNCHANGED fds
                    /\ Returns(s, -1)

\* Connect, Write or Read fails and the socket is not closed.
ProbeFails(s) == /\ pc = Probing(s)
                 /\ fds < FdLimit
                 /\ answers[s] = "no"
                 /\ Leak
                 /\ Returns(s, -1)
                 /\ UNCHANGED blind

ProbeAnswered(s) == /\ pc = Probing(s)
                    /\ fds < FdLimit
                    /\ answers[s] = "yes"
                    /\ Returns(s, 0)
                    /\ UNCHANGED <<blind, fds>>

\* The connection is made and nothing comes back: Read blocks.
ProbeBlocks(s) == /\ pc = Probing(s)
                  /\ fds < FdLimit
                  /\ answers[s] = "silent"
                  /\ pc' = Reading(s)
                  /\ UNCHANGED <<flags, iRet, i, pidCnt, fds, machine, answers, rounds, psFailed>>

\* The blocked Read returns after all, with the answer or with an error.
ReadReturns(s) == /\ pc = Reading(s)
                  /\ \/ UNCHANGED fds /\ Returns(s, 0)
                     \/ Leak /\ Returns(s, -1)
                  /\ UNCHANGED blind

Probe(s) == ProbeNoSocket(s) \/ ProbeFails(s) \/ ProbeAnswered(s) \/ ProbeBlocks(s)

----------------------------------------------------------------------------
(* RunAsClient *)

\* A bug for RoundAnswered: the failures before it still count.
RoundAnsweredKeepsCount ==
    /\ pc = "judge"
    /\ \E s \in Server : iRet[s] = 0
    /\ iErrorFlag' = 0
    /\ pc' = "act"
    /\ misses' = 0 /\ blind' = FALSE
    /\ UNCHANGED <<iRetryTimes, iMainFlag, iRet, i, pidCnt, fds, machine, answers, psFailed>>

\* One answer is enough.
RoundAnswered == /\ pc = "judge"
                 /\ \E s \in Server : iRet[s] = 0
                 /\ iRetryTimes' = 0
                 /\ iErrorFlag' = 0
                 /\ pc' = "act"
                 /\ misses' = 0 /\ blind' = FALSE
                 /\ UNCHANGED <<iMainFlag, iRet, i, pidCnt, fds, machine, answers, psFailed>>

\* No answer: try again after a sleep, or give up.  iRetryTimes is not set
\* back then, so the next round without an answer gives up at once.
RoundFailed == /\ pc = "judge"
               /\ \A s \in Server : iRet[s] # 0
               /\ iRetryTimes' = IF iRetryTimes > RetryTimes THEN iRetryTimes ELSE iRetryTimes + 1
               /\ IF iRetryTimes' > RetryTimes
                  THEN iErrorFlag' = 1 /\ pc' = "act"
                  ELSE UNCHANGED iErrorFlag /\ pc' = "probe1"
               /\ misses' = IF blind \/ misses > RetryTimes THEN misses ELSE misses + 1
               /\ blind' = FALSE
               /\ UNCHANGED <<iMainFlag, iRet, i, pidCnt, fds, machine, answers, psFailed>>

\* A bug for Act: what was taken over is not handed back.
ActNoHandBack == /\ pc = "act"
                 /\ pc' = IF iErrorFlag = 1 /\ iMainFlag = MAIN_FLAG THEN "ifup" ELSE "sleep"
                 /\ i' = 0
                 /\ UNCHANGED <<flags, iRet, pidCnt, fds, machine, answers, rounds, psFailed>>

\* Lines 340 and 378.
Act == /\ pc = "act"
       /\ pc' = IF iErrorFlag = 1 /\ iMainFlag = MAIN_FLAG THEN "ifup"
                ELSE IF iErrorFlag = 0 /\ iMainFlag = BACKUP_FLAG THEN "ifdown"
                ELSE "sleep"
       /\ i' = 0
       /\ UNCHANGED <<flags, iRet, pidCnt, fds, machine, answers, rounds, psFailed>>

\* ifconfig <interface> up, once for each; then ps.
IfUp == /\ pc = "ifup"
        /\ IF i < iEthernetNumber
           THEN up' = up \cup {i + 1} /\ i' = i + 1 /\ UNCHANGED pc
           ELSE pc' = "ps" /\ UNCHANGED <<i, up>>
        /\ UNCHANGED <<flags, iRet, pidCnt, fds, tele, answers, rounds, psFailed>>

\* popen fails (it must, with no descriptor left), or fgets does and the pipe
\* stays open: the loop starts over, without a sleep and with the flag as it was.
PsFails == /\ pc = "ps"
           /\ \/ UNCHANGED fds
              \/ fds < FdLimit /\ Leak
           /\ pc' = "probe1"
           /\ psFailed' = TRUE
           /\ UNCHANGED <<flags, iRet, i, pidCnt, machine, answers, rounds>>

PsCounts == /\ pc = "ps"
            /\ fds < FdLimit
            /\ pidCnt' = IF tele THEN 1 ELSE 0
            /\ pc' = "start"
            /\ UNCHANGED <<flags, iRet, i, fds, machine, answers, rounds, psFailed>>

\* teleManager start, whose result is not looked at, unless ps saw one.
TakeOver == /\ pc = "start"
            /\ tele' \in IF pidCnt = 0 THEN {tele, TRUE} ELSE {tele}
            /\ iMainFlag' = BACKUP_FLAG
            /\ pc' = "sleep"
            /\ psFailed' = FALSE
            /\ UNCHANGED <<iRetryTimes, iErrorFlag, iRet, i, pidCnt, fds, up, answers, rounds>>

\* A bug for IfDown: the last interface is left up.
IfDownButOne == /\ pc = "ifdown"
                /\ IF i + 1 < iEthernetNumber
                   THEN up' = up \ {i + 1} /\ i' = i + 1 /\ UNCHANGED pc
                   ELSE pc' = "quick" /\ UNCHANGED <<i, up>>
                /\ UNCHANGED <<flags, iRet, pidCnt, fds, tele, answers, rounds, psFailed>>

\* ifconfig <interface> down, once for each.
IfDown == /\ pc = "ifdown"
          /\ IF i < iEthernetNumber
             THEN up' = up \ {i + 1} /\ i' = i + 1 /\ UNCHANGED pc
             ELSE pc' = "quick" /\ UNCHANGED <<i, up>>
          /\ UNCHANGED <<flags, iRet, pidCnt, fds, tele, answers, rounds, psFailed>>

\* teleManager quick stops it, or fails to.
GiveBack == /\ pc = "quick"
            /\ tele' \in {tele, FALSE}
            /\ iMainFlag' = MAIN_FLAG
            /\ pc' = "sleep"
            /\ UNCHANGED <<iRetryTimes, iErrorFlag, iRet, i, pidCnt, fds, up, answers, rounds, psFailed>>

Sleep == /\ pc = "sleep"
         /\ pc' = "probe1"
         /\ UNCHANGED <<flags, iRet, i, pidCnt, fds, machine, answers, rounds, psFailed>>

ClientStep == \/ \E s \in Server : Probe(s)
              \/ RoundAnswered \/ RoundFailed \/ Act
              \/ IfUp \/ PsFails \/ PsCounts \/ TakeOver
              \/ IfDown \/ GiveBack \/ Sleep

\* The main machine comes and goes, and so does teleManager.
Environment == /\ \/ /\ answers' \in [Server -> {"yes", "no", "silent"}]
                     /\ UNCHANGED tele
                  \/ /\ tele' \in BOOLEAN
                     /\ UNCHANGED answers
               /\ UNCHANGED <<pc, flags, iRet, i, pidCnt, fds, up, rounds, psFailed>>

Next == \/ ClientStep
        \/ \E s \in Server : ReadReturns(s)
        \/ Environment

\* The client goes on whenever it can; a blocked read may never return.
Fairness == WF_vars(ClientStep)

Spec == Init /\ [][Next]_vars /\ Fairness

----------------------------------------------------------------------------
(* Properties *)

TypeOK == /\ pc \in {"probe1", "read1", "probe2", "read2", "judge", "act", "ifup", "ps",
                    "start", "ifdown", "quick", "sleep"}
          /\ iRetryTimes \in 0 .. RetryTimes + 1
          /\ iErrorFlag \in 0 .. 1 /\ iMainFlag \in {MAIN_FLAG, BACKUP_FLAG}
          /\ iRet \in [Server -> {-1, 0}]
          /\ i \in 0 .. iEthernetNumber
          /\ pidCnt \in -1 .. 1
          /\ fds \in 0 .. FdLimit
          /\ up \subseteq Ethernet
          /\ tele \in BOOLEAN
          /\ answers \in [Server -> {"yes", "no", "silent"}]
          /\ blind \in BOOLEAN /\ psFailed \in BOOLEAN
          /\ misses \in 0 .. RetryTimes + 1

\* An interface goes up only after RetryTimes + 1 rounds in a row in which the
\* main machine was asked at both addresses and answered at neither, or when
\* the descriptors lost by failed probes have left the client unable to ask.
NoEarlyTakeOver == [][ ~ (up' \subseteq up) => misses > RetryTimes \/ fds = FdLimit ]_vars

\* Between two rounds the interfaces agree with iMainFlag: all are up on a
\* client that says it is the backup, and none on one that says the main
\* machine runs, unless its last attempt to take over stopped at ps.
InterfacesFollowFlag ==
    /\ iMainFlag = BACKUP_FLAG /\ pc \notin {"ifdown", "quick"} => up = Ethernet
    /\ iMainFlag = MAIN_FLAG /\ pc \notin {"ifup", "ps", "start"} /\ ~ psFailed => up = {}

\* Between two rounds the interfaces agree with the flag, and every variable
\* keeps its type: the retry counter its cap, the descriptors their limit.
StandbyIsConsistent == TypeOK /\ InterfacesFollowFlag

\* When the main machine refuses connections for good the client takes over, with
\* all interfaces up, unless it is stuck in a read, or ps fails time and again.
TakesOver ==
    <>[](\A s \in Server : answers[s] = "no") =>
        \/ <>[](iMainFlag = BACKUP_FLAG /\ up = Ethernet)
        \/ <>[](\E s \in Server : pc = Reading(s))
        \/ []<>(psFailed)

\* When one address of the main machine answers for good the client hands the
\* service back: it says that the main machine runs and takes all interfaces down,
\* unless it is stuck in a read or has run out of descriptors.  Only if its last
\* take-over stopped at ps, where the interfaces are up and the flag has not changed,
\* are they never taken down: both machines have them then.
HandsBack ==
    \A s \in Server : <>[](answers[s] = "yes") =>
        \/ <>[](iMainFlag = MAIN_FLAG /\ (up = {} \/ (psFailed /\ up = Ethernet)))
        \/ <>[](\E t \in Server : pc = Reading(t))
        \/ <>[](fds = FdLimit)
==============================================================================
