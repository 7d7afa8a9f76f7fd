--------------------------- MODULE ProgramsProofs ---------------------------
(***************************************************************************)
(* Proofs about four of the programs of MCPrograms.                        *)
(*                                                                         *)
(* HeartBeatClient, for every number of retries, of interfaces and of      *)
(* descriptors.  StandbyIsConsistent is not inductive: IInv adds which     *)
(* flags lead into the two loops over the interfaces and how far each loop *)
(* is (LoopInv), and that only a round without a descriptor counts as a    *)
(* failure without counting as a miss (CountInv).                          *)
(*                                                                         *)
(* Pipe, for any number of texts and any two lengths of which the child's  *)
(* buffer is the larger one.  PipeIsKept needs to know who still holds the *)
(* writing end, when the child stops, and that a pipe that was never piled *)
(* up holds whole texts.                                                   *)
(*                                                                         *)
(* AddMinus, for every even number of threads.  That few are left waiting  *)
(* is an argument about counts, not about places: g_sum is at least four   *)
(* for each adder through that reaches BOUNDARY by itself, less one for    *)
(* each minus thread through.  So a minus thread waits, or such an adder   *)
(* does not signal, only when at least as many minus threads are through   *)
(* already as such adders, and whenever anybody waits at least as many are *)
(* through or woken (Sums).                                                *)
(*                                                                         *)
(* HeartBeatProbe, for every number of clients, connections and            *)
(* descriptors.  The inductive invariant says which of the two ends has    *)
(* each connection: a connection the server has accepted or is still to    *)
(* accept is there once and was not given back, and a connection that a    *)
(* client holds is held by no other and is in a state that fits the place  *)
(* of the client.  A descriptor the server loses is paid for by a client   *)
(* that left, which the connections whose client is gone are counted for.  *)
(***************************************************************************)
EXTENDS MCPrograms, Sequences, FiniteSetTheorems, TLAPS

----------------------------------------------------------------------------
(* HeartBeatClient *)

TypeControl == /\ pc \in {"probe1", "read1", "probe2", "read2", "judge", "act", "ifup", "ps",
                          "start", "ifdown", "quick", "sleep"}
               /\ iErrorFlag \in 0 .. 1 /\ iMainFlag \in {MAIN_FLAG, BACKUP_FLAG}
               /\ iRet \in [Server -> {-1, 0}]

TypeCounters == /\ iRetryTimes \in 0 .. RetryTimes + 1 /\ misses \in 0 .. RetryTimes + 1
                /\ i \in 0 .. iEthernetNumber
                /\ pidCnt \in -1 .. 1
                /\ fds \in 0 .. FdLimit

TypeMachine == /\ up \subseteq Ethernet
               /\ tele \in BOOLEAN
               /\ answers \in [Server -> {"yes", "no", "silent"}]
               /\ blind \in BOOLEAN /\ psFailed \in BOOLEAN
LoopInv ==
    /\ pc \in {"ifup", "ps", "start"} => iMainFlag = MAIN_FLAG /\ iErrorFlag = 1
    /\ pc \in {"ifdown", "quick"} => iMainFlag = BACKUP_FLAG
    /\ pc = "ifup" => 1 .. i \subseteq up
    /\ pc \in {"ps", "start"} => up = Ethernet
    /\ pc = "ifdown" => up \cap (1 .. i) = {}
    /\ pc = "quick" => up = {}

CountInv ==
    /\ iErrorFlag = 1 => iRetryTimes > RetryTimes
    /\ blind => fds = FdLimit
    /\ fds = FdLimit \/ iRetryTimes <= misses
    /\ pc \in {"read1", "read2"} => fds < FdLimit

IInv == StandbyIsConsistent /\ LoopInv /\ CountInv

\* TypeOK in three parts, which the provers can handle one at a time.
LEMMA TypeParts == TypeOK <=> TypeControl /\ TypeCounters /\ TypeMachine
BY DEF TypeOK, TypeControl, TypeCounters, TypeMachine

\* Type correctness is preserved by every step that is not a probe.
LEMMA TypeStep ==
  ASSUME IInv,
         \/ RoundAnswered \/ RoundFailed \/ Act \/ IfUp \/ PsFails \/ PsCounts \/ TakeOver
         \/ IfDown \/ GiveBack \/ Sleep \/ Environment \/ UNCHANGED vars
  PROVE  TypeOK'
<1> USE ConfAssumption DEF flags, machine, rounds
<1>1. TypeControl /\ TypeCounters /\ TypeMachine
  BY TypeParts DEF IInv, StandbyIsConsistent
<1>2. TypeControl'
  <2>1. CASE RoundAnswered
    BY <1>1, <2>1 DEF TypeControl, RoundAnswered
  <2>2. CASE RoundFailed
    BY <1>1, <2>2 DEF TypeControl, RoundFailed
  <2>3. CASE Act
    BY <1>1, <2>3 DEF TypeControl, Act
  <2>4. CASE IfUp
    BY <1>1, <2>4 DEF TypeControl, IfUp
  <2>5. CASE PsFails
    BY <1>1, <2>5 DEF TypeControl, PsFails
  <2>6. CASE PsCounts
    BY <1>1, <2>6 DEF TypeControl, PsCounts
  <2>7. CASE TakeOver
    BY <1>1, <2>7 DEF TypeControl, TakeOver
  <2>8. CASE IfDown
    BY <1>1, <2>8 DEF TypeControl, IfDown
  <2>9. CASE GiveBack
    BY <1>1, <2>9 DEF TypeControl, GiveBack
  <2>10. CASE Sleep
    BY <1>1, <2>10 DEF TypeControl, Sleep
  <2>11. CASE Environment
    BY <1>1, <2>11 DEF TypeControl, Environment
  <2>12. CASE UNCHANGED vars
    BY <1>1, <2>12 DEF TypeControl, vars
  <2> QED BY <2>1, <2>2, <2>3, <2>4, <2>5, <2>6, <2>7, <2>8, <2>9, <2>10, <2>11, <2>12
<1>3. TypeCounters'
  <2>1. CASE RoundAnswered
    BY <1>1, <2>1 DEF TypeCounters, RoundAnswered
  <2>2. CASE RoundFailed
    BY <1>1, <2>2 DEF TypeCounters, RoundFailed
  <2>3. CASE Act
    BY <1>1, <2>3 DEF TypeCounters, Act
  <2>4. CASE IfUp
    BY <1>1, <2>4 DEF TypeCounters, IfUp
  <2>5. CASE PsFails
    BY <1>1, <2>5 DEF TypeCounters, PsFails, Leak
  <2>6. CASE PsCounts
    BY <1>1, <2>6 DEF TypeCounters, PsCounts
  <2>7. CASE TakeOver
    BY <1>1, <2>7 DEF TypeCounters, TakeOver
  <2>8. CASE IfDown
    BY <1>1, <2>8 DEF TypeCounters, IfDown
  <2>9. CASE GiveBack
    BY <1>1, <2>9 DEF TypeCounters, GiveBack
  <2>10. CASE Sleep
    BY <1>1, <2>10 DEF TypeCounters, Sleep
  <2>11. CASE Environment
    BY <1>1, <2>11 DEF TypeCounters, Environment
  <2>12. CASE UNCHANGED vars
    BY <1>1, <2>12 DEF TypeCounters, vars
  <2> QED BY <2>1, <2>2, <2>3, <2>4, <2>5, <2>6, <2>7, <2>8, <2>9, <2>10, <2>11, <2>12
<1>4. TypeMachine'
  <2>1. CASE RoundAnswered
    BY <1>1, <2>1 DEF TypeMachine, RoundAnswered
  <2>2. CASE RoundFailed
    BY <1>1, <2>2 DEF TypeMachine, RoundFailed
  <2>3. CASE Act
    BY <1>1, <2>3 DEF TypeMachine, Act
  <2>4. CASE IfUp
    <3>1. i < iEthernetNumber => i + 1 \in Ethernet
      BY <1>1 DEF TypeCounters, Ethernet
    <3> QED BY <1>1, <2>4, <3>1 DEF TypeMachine, IfUp
  <2>5. CASE PsFails
    BY <1>1, <2>5 DEF TypeMachine, PsFails
  <2>6. CASE PsCounts
    BY <1>1, <2>6 DEF TypeMachine, PsCounts
  <2>7. CASE TakeOver
    BY <1>1, <2>7 DEF TypeMachine, TakeOver
  <2>8. CASE IfDown
    BY <1>1, <2>8 DEF TypeMachine, IfDown
  <2>9. CASE GiveBack
    BY <1>1, <2>9 DEF TypeMachine, GiveBack
  <2>10. CASE Sleep
    BY <1>1, <2>10 DEF TypeMachine, Sleep
  <2>11. CASE Environment
    BY <1>1, <2>11 DEF TypeMachine, Environment
  <2>12. CASE UNCHANGED vars
    BY <1>1, <2>12 DEF TypeMachine, vars
  <2> QED BY <2>1, <2>2, <2>3, <2>4, <2>5, <2>6, <2>7, <2>8, <2>9, <2>10, <2>11, <2>12
<1> QED BY TypeParts, <1>2, <1>3, <1>4, PTL

\* Every initial state satisfies the inductive invariant.
LEMMA InitInv == Init => IInv
<1> SUFFICES ASSUME Init PROVE IInv
  OBVIOUS
<1>1. TypeOK
  <2>1. TypeControl
    BY DEF Init, TypeControl, MAIN_FLAG
  <2>2. TypeMachine
    BY DEF Init, TypeMachine
  <2>3. TypeCounters
    BY ConfAssumption DEF Init, TypeCounters
  <2> QED BY <2>1, <2>3, <2>2, TypeParts
<1>2. InterfacesFollowFlag /\ LoopInv
  BY DEF Init, InterfacesFollowFlag, LoopInv, MAIN_FLAG, BACKUP_FLAG
<1>3. CountInv
  BY DEF Init, CountInv
<1> QED BY <1>1, <1>2, <1>3 DEF IInv, StandbyIsConsistent

\* What a probe may do: it only moves pc among the probes, sets its result, and
\* leaves a descriptor open or not; it is blind only with none left.
LEMMA ProbeStep ==
  ASSUME IInv, NEW s \in Server, Probe(s) \/ ReadReturns(s)
  PROVE  /\ pc' \in {"read1", "probe2", "read2", "judge"}
         /\ pc \in {"probe1", "read1", "probe2", "read2"}
         /\ iRet' \in [Server -> {-1, 0}]
         /\ fds' \in 0 .. FdLimit /\ fds <= fds'
         /\ pc' \in {"read1", "read2"} => fds' < FdLimit
         /\ blind' \in BOOLEAN /\ (blind' => blind \/ fds = FdLimit)
         /\ UNCHANGED <<flags, i, pidCnt, machine, answers, misses, psFailed>>
<1> USE ConfAssumption DEF IInv, StandbyIsConsistent, TypeOK, CountInv, Server,
                           Probing, Reading, NextProbe, Returns, Leak
<1>1. CASE ProbeNoSocket(s)
  BY <1>1 DEF ProbeNoSocket
<1>2. CASE ProbeFails(s)
  BY <1>2 DEF ProbeFails
<1>3. CASE ProbeAnswered(s)
  BY <1>3 DEF ProbeAnswered
<1>4. CASE ProbeBlocks(s)
  BY <1>4 DEF ProbeBlocks, rounds
<1>5. CASE ReadReturns(s)
  BY <1>5 DEF ReadReturns
<1> QED BY <1>1, <1>2, <1>3, <1>4, <1>5 DEF Probe

\* A probe keeps the invariant.
LEMMA ProbeKeepsInv ==
  ASSUME IInv, NEW s \in Server, Probe(s) \/ ReadReturns(s)
  PROVE  IInv'
<1> USE ProbeStep DEF IInv, StandbyIsConsistent, flags, machine
<1>1. TypeOK'
  BY DEF TypeOK
<1>2. InterfacesFollowFlag' /\ LoopInv'
  BY DEF InterfacesFollowFlag, LoopInv, Ethernet, MAIN_FLAG, BACKUP_FLAG
<1>3. CountInv'
  BY ConfAssumption DEF CountInv, TypeOK
<1> QED BY <1>1, <1>2, <1>3

\* Every step of the client and of its environment keeps the invariant.
LEMMA StepInv == IInv /\ [Next]_vars => IInv'
<1> SUFFICES ASSUME IInv, [Next]_vars PROVE IInv'
  OBVIOUS
<1> USE ConfAssumption DEF IInv, StandbyIsConsistent, flags, machine, rounds,
                           MAIN_FLAG, BACKUP_FLAG
<1>1. CASE RoundAnswered \/ RoundFailed
  <2>1. InterfacesFollowFlag' /\ LoopInv'
    BY <1>1 DEF RoundAnswered, RoundFailed, InterfacesFollowFlag, LoopInv, Ethernet
  <2>2. CountInv'
    BY <1>1 DEF RoundAnswered, RoundFailed, CountInv, TypeOK
  <2> QED BY TypeStep, <1>1, <2>1, <2>2
<1>2. CASE Act
  <2>1. InterfacesFollowFlag' /\ LoopInv'
    BY <1>2 DEF Act, InterfacesFollowFlag, LoopInv, Ethernet, TypeOK
  <2>2. CountInv'
    BY <1>2 DEF Act, CountInv, TypeOK
  <2> QED BY TypeStep, <1>2, <2>1, <2>2
<1>3. CASE IfUp
  <2>1. LoopInv'
    <3>1. CASE i < iEthernetNumber
      BY <1>3, <3>1 DEF IfUp, LoopInv, TypeOK
    <3>2. CASE ~ (i < iEthernetNumber)
      <4>1. up = Ethernet
        <5>1. i = iEthernetNumber
          BY <3>2 DEF TypeOK
        <5>2. 1 .. i \subseteq up /\ up \subseteq Ethernet
          BY <1>3 DEF IfUp, LoopInv, TypeOK
        <5> QED BY <5>1, <5>2 DEF Ethernet
      <4> QED BY <1>3, <3>2, <4>1 DEF IfUp, LoopInv
    <3> QED BY <3>1, <3>2
  <2>2. InterfacesFollowFlag'
    BY <1>3 DEF IfUp, InterfacesFollowFlag, LoopInv, Ethernet
  <2>3. CountInv'
    BY <1>3 DEF IfUp, CountInv
  <2> QED BY TypeStep, <1>3, <2>1, <2>2, <2>3
<1>4. CASE PsFails \/ PsCounts
  <2>1. InterfacesFollowFlag' /\ LoopInv'
    BY <1>4 DEF PsFails, PsCounts, InterfacesFollowFlag, LoopInv, Ethernet
  <2>2. CountInv'
    BY <1>4 DEF PsFails, PsCounts, CountInv, Leak, TypeOK
  <2> QED BY TypeStep, <1>4, <2>1, <2>2
<1>5. CASE TakeOver
  <2>1. InterfacesFollowFlag' /\ LoopInv' /\ CountInv'
    BY <1>5 DEF TakeOver, InterfacesFollowFlag, LoopInv, CountInv, Ethernet
  <2> QED BY TypeStep, <1>5, <2>1
<1>6. CASE IfDown
  <2>1. LoopInv'
    <3>1. CASE i < iEthernetNumber
      BY <1>6, <3>1 DEF IfDown, LoopInv, TypeOK
    <3>2. CASE ~ (i < iEthernetNumber)
      <4>1. up = {}
        BY <1>6, <3>2 DEF IfDown, LoopInv, TypeOK, Ethernet
      <4> QED BY <1>6, <3>2, <4>1 DEF IfDown, LoopInv
    <3> QED BY <3>1, <3>2
  <2>2. InterfacesFollowFlag'
    BY <1>6 DEF IfDown, InterfacesFollowFlag, LoopInv, Ethernet
  <2>3. CountInv'
    BY <1>6 DEF IfDown, CountInv
  <2> QED BY TypeStep, <1>6, <2>1, <2>2, <2>3
<1>7. CASE GiveBack
  <2>1. InterfacesFollowFlag' /\ LoopInv'
    BY <1>7 DEF GiveBack, InterfacesFollowFlag, LoopInv
  <2>2. CountInv'
    BY <1>7 DEF GiveBack, CountInv
  <2> QED BY TypeStep, <1>7, <2>1, <2>2
<1>8. CASE Sleep
  <2>1. InterfacesFollowFlag' /\ LoopInv'
    BY <1>8 DEF Sleep, InterfacesFollowFlag, LoopInv
  <2>2. CountInv'
    BY <1>8 DEF Sleep, CountInv
  <2> QED BY TypeStep, <1>8, <2>1, <2>2
<1>9. CASE Environment \/ UNCHANGED vars
  <2>1. InterfacesFollowFlag' /\ LoopInv' /\ CountInv'
    BY <1>9 DEF Environment, vars, InterfacesFollowFlag, LoopInv, CountInv, Ethernet
  <2> QED BY TypeStep, <1>9, <2>1
<1> QED BY <1>1, <1>2, <1>3, <1>4, <1>5, <1>6, <1>7, <1>9, <1>8, ProbeKeepsInv
         DEF Next, ClientStep

\* The inductive invariant holds in every reachable state.
LEMMA Invariance == Spec => []IInv
BY InitInv, StepInv, PTL DEF Spec

\* RunAsClient keeps its interfaces and iMainFlag in step whatever the main
\* machine, ps and the reads do, with any configuration.
THEOREM StandbyConsistent == Spec => []StandbyIsConsistent
<1>1. IInv => StandbyIsConsistent
  BY DEF IInv
<1> QED BY <1>1, Invariance, PTL

\* RunAsClient brings no interface up before RetryTimes + 1 rounds in a row were
\* missed, short of having no descriptor left to ask with.
THEOREM TakeOverIsLate == Spec => NoEarlyTakeOver
<1> DEFINE Late == ~ (up' \subseteq up) => misses > RetryTimes \/ fds = FdLimit
<1>1. IInv /\ [Next]_vars => [Late]_vars
  <2> SUFFICES ASSUME IInv, Next, ~ (up' \subseteq up)
               PROVE  misses > RetryTimes \/ fds = FdLimit
    OBVIOUS
  <2>1. \A s \in Server : Probe(s) \/ ReadReturns(s) => up' = up
    BY ProbeStep DEF machine
  <2>2. IfUp
    BY <2>1 DEF Next, ClientStep, Environment, RoundAnswered, RoundFailed, Act, PsFails,
                PsCounts, TakeOver, IfDown, GiveBack, Sleep, machine
  <2> QED BY <2>2, ConfAssumption DEF IfUp, IInv, LoopInv, CountInv, StandbyIsConsistent, TypeOK
<1> QED BY <1>1, Invariance, PTL DEF Spec, NoEarlyTakeOver

----------------------------------------------------------------------------
(* Pipe *)

EndsInv == /\ fpc \in {"fork", "loop"} => "father" \in writeEnds
           /\ cpc = "off" /\ fpc \in {"fork", "loop"} => reads = Times
           /\ fpc = "fork" => cpc = "none"

TextsInv == ~ piled => \E n \in Nat : bytes = n * TextLen

PipeInv == Pipe10!PipeIsKept /\ EndsInv /\ TextsInv

\* A multiple of a length leaves no rest.
LEMMA MultipleMod ==
  ASSUME NEW t \in Nat \ {0}, NEW n \in Nat
  PROVE  (n * t) % t = 0
<1> DEFINE d == (n * t) \div t
           r == (n * t) % t
<1>1. n * t \in Nat
  OBVIOUS
<1>2. d \in Int /\ r \in 0 .. t - 1 /\ n * t = t * d + r
  BY <1>1
<1> HIDE DEF d, r
<1>3. t * (n - d) = r
  BY <1>2
<1>4. CASE n - d >= 1
  <2>1. t * (n - d) >= t
    BY <1>2, <1>4
  <2> QED BY <1>2, <1>3, <2>1
<1>5. CASE n - d <= -1
  <2>1. t * (n - d) < 0
    BY <1>2, <1>5
  <2> QED BY <1>2, <1>3, <2>1
<1>6. CASE n - d = 0
  <2>1. r = 0
    BY <1>2, <1>3, <1>6
  <2> QED BY <2>1 DEF r
<1> QED BY <1>2, <1>4, <1>5, <1>6

\* Texts read and texts written, in bytes and in number.
LEMMA TextsCompare ==
  ASSUME NEW t \in Nat \ {0}, NEW r \in Nat, NEW w \in Nat
  PROVE  /\ t * r \in Nat /\ t * w \in Nat
         /\ t * (r + 1) = t * r + t
         /\ t * r <= t * w => r <= w
         /\ r <= w => t * r <= t * w
<1>1. CASE r <= w
  <2>1. t * (w - r) >= 0
    BY <1>1
  <2> QED BY <1>1, <2>1
<1>2. CASE r > w
  <2>1. t * (r - w) >= t
    BY <1>2
  <2> QED BY <1>2, <2>1
<1> QED BY <1>1, <1>2

\* Before the fork the pipe is empty.
LEMMA PipeInit ==
  ASSUME Pipe10!PipeAssumption
  PROVE  Pipe10!Init => PipeInv
<1> SUFFICES ASSUME Pipe10!Init PROVE PipeInv
  OBVIOUS
<1>1. Pipe10!TypeOK /\ Pipe10!WholeUnlessPiled
  <2>1. 0 \in 0 .. Times /\ 0 \in 0 .. TextLen - 1 /\ 0 \in Nat
    BY DEF Pipe10!PipeAssumption
  <2> QED BY <2>1 DEF Pipe10!Init, Pipe10!TypeOK, Pipe10!WholeUnlessPiled
<1>2. Pipe10!NeverOutrun
  <2>1. TextLen * 0 + 0 <= TextLen * 0
    BY DEF Pipe10!PipeAssumption
  <2> QED BY <2>1 DEF Pipe10!Init, Pipe10!NeverOutrun
<1>3. EndsInv
  BY DEF Pipe10!Init, EndsInv
<1>4. TextsInv
  <2>1. 0 = 0 * TextLen
    BY DEF Pipe10!PipeAssumption
  <2> QED BY <2>1 DEF Pipe10!Init, TextsInv
<1> QED BY <1>1, <1>3, <1>4, <1>2 DEF PipeInv, Pipe10!PipeIsKept

\* A write of the father: the child is still there to read it.
LEMMA WriteStep ==
  ASSUME Pipe10!PipeAssumption, PipeInv, Pipe10!Write
  PROVE  PipeInv'
<1> USE DEF Pipe10!PipeAssumption, PipeInv, Pipe10!PipeIsKept, Pipe10!child
<1>1. reads \in Nat /\ written \in Nat /\ bytes \in Nat /\ TextLen \in Nat \ {0}
  BY DEF Pipe10!TypeOK
<1>2. TextLen * reads <= TextLen * written
  BY <1>1, TextsCompare DEF Pipe10!Write, Pipe10!NeverOutrun
<1>3. cpc # "off"
  BY <1>1, <1>2, TextsCompare DEF Pipe10!Write, EndsInv, Pipe10!TypeOK
<1>4. /\ written' = written + 1 /\ bytes' = bytes + TextLen
      /\ UNCHANGED <<fpc, cpc, reads, offset, piled>>
      /\ writeEnds' = writeEnds
  BY <1>3 DEF Pipe10!Write
<1>5. Pipe10!TypeOK'
  BY <1>1, <1>4 DEF Pipe10!Write, Pipe10!TypeOK
<1>6. Pipe10!NeverOutrun'
  <2>1. TextLen * written' = TextLen * written + TextLen
    BY <1>1, <1>4, TextsCompare
  <2>2. TextLen * reads + bytes <= TextLen * written
    BY DEF Pipe10!NeverOutrun, Pipe10!Write
  <2>3. TextLen * reads' + bytes' <= TextLen * written'
    BY <1>1, <1>4, <2>1, <2>2, TextsCompare
  <2> QED BY <1>4, <2>3 DEF Pipe10!NeverOutrun
<1>7. Pipe10!WholeUnlessPiled' /\ EndsInv'
  BY <1>4 DEF Pipe10!WholeUnlessPiled, EndsInv
<1>8. TextsInv'
  <2> SUFFICES ASSUME ~ piled PROVE \E n \in Nat : bytes' = n * TextLen
    BY <1>4 DEF TextsInv
  <2>1. PICK n \in Nat : bytes = n * TextLen
    BY DEF TextsInv
  <2>2. bytes' = (n + 1) * TextLen
    BY <1>1, <1>4, <2>1
  <2> QED BY <2>2
<1> QED BY <1>5, <1>6, <1>7, <1>8

\* A read of the child takes a text or all there is.
LEMMA ReadStep ==
  ASSUME Pipe10!PipeAssumption, PipeInv, Pipe10!Read
  PROVE  PipeInv'
<1> USE DEF Pipe10!PipeAssumption, PipeInv, Pipe10!PipeIsKept, Pipe10!father
<1>1. /\ reads \in Nat /\ written \in Nat /\ bytes \in Nat /\ TextLen \in Nat \ {0}
      /\ offset \in Nat /\ Pipe10!Room \in Nat /\ Pipe10!Room >= TextLen
      /\ Pipe10!Taken \in Nat /\ Pipe10!Taken <= bytes
      /\ Pipe10!Taken = bytes \/ Pipe10!Taken >= TextLen
      /\ ~ (bytes > Pipe10!Room) => Pipe10!Taken = bytes
  <2>1. /\ reads \in Nat /\ written \in Nat /\ bytes \in Nat /\ TextLen \in Nat \ {0}
        /\ offset \in Nat /\ Pipe10!Room \in Nat /\ Pipe10!Room >= TextLen
    BY DEF Pipe10!TypeOK, Pipe10!Room
  <2> QED BY <2>1 DEF Pipe10!Taken, Pipe10!Least
<1>2. /\ reads < Times /\ reads' = reads + 1 /\ bytes' = bytes - Pipe10!Taken
      /\ offset' = (offset + Pipe10!Taken) % TextLen
      /\ piled' = (piled \/ bytes > Pipe10!Room)
      /\ UNCHANGED <<fpc, cpc, written, writeEnds>>
  BY DEF Pipe10!Read
<1>3. offset' \in 0 .. TextLen - 1
  BY <1>1, <1>2
<1>4. piled' \in BOOLEAN
  BY <1>2
<1>5. Pipe10!TypeOK'
  BY <1>1, <1>2, <1>3, <1>4 DEF Pipe10!TypeOK
<1>6. Pipe10!NeverOutrun'
  <2> SUFFICES ASSUME fpc \in {"fork", "loop"}
               PROVE  TextLen * reads' + bytes' <= TextLen * written
    BY <1>2 DEF Pipe10!NeverOutrun
  <2>1. TextLen * reads + bytes <= TextLen * written /\ bytes > 0
    BY DEF Pipe10!NeverOutrun, EndsInv, Pipe10!Read
  <2>2. TextLen * reads' = TextLen * reads + TextLen
    BY <1>1, <1>2, TextsCompare
  <2>3. CASE Pipe10!Taken >= TextLen
    BY <1>1, <1>2, <2>1, <2>2, <2>3, TextsCompare
  <2>4. CASE Pipe10!Taken = bytes
    <3>1. TextLen * reads < TextLen * written
      BY <1>1, <2>1, TextsCompare
    <3>2. reads < written
      BY <1>1, <3>1, TextsCompare
    <3>3. TextLen * (reads + 1) <= TextLen * written
      BY <1>1, <3>2, TextsCompare
    <3> QED BY <1>1, <1>2, <2>4, <3>3
  <2> QED BY <1>1, <2>3, <2>4
<1>7. ASSUME ~ piled'
      PROVE  offset' = 0 /\ bytes' = 0
  <2>1. ~ piled /\ ~ (bytes > Pipe10!Room)
    BY <1>2, <1>7
  <2>2. Pipe10!Taken = bytes /\ offset = 0
    BY <1>1, <2>1 DEF Pipe10!WholeUnlessPiled
  <2>3. PICK n \in Nat : bytes = n * TextLen
    BY <2>1 DEF TextsInv
  <2>4. (offset + Pipe10!Taken) % TextLen = (n * TextLen) % TextLen
    BY <1>1, <2>2, <2>3
  <2> QED BY <1>1, <1>2, <2>2, <2>4, MultipleMod
<1>8. Pipe10!WholeUnlessPiled'
  BY <1>7 DEF Pipe10!WholeUnlessPiled
<1>9. TextsInv'
  <2>1. 0 = 0 * TextLen
    BY <1>1
  <2> QED BY <1>7, <2>1 DEF TextsInv
<1>10. EndsInv'
  BY <1>2 DEF EndsInv, Pipe10!Read
<1> QED BY <1>5, <1>6, <1>8, <1>9, <1>10

\* Every step of the two processes keeps PipeInv.
LEMMA PipeStep ==
  ASSUME Pipe10!PipeAssumption
  PROVE  PipeInv /\ [Pipe10!Next]_(Pipe10!vars) => PipeInv'
<1> SUFFICES ASSUME PipeInv, [Pipe10!Next]_(Pipe10!vars) PROVE PipeInv'
  OBVIOUS
<1> USE DEF PipeInv, Pipe10!PipeIsKept, Pipe10!father, Pipe10!child
<1>1. CASE Pipe10!Fork
  BY <1>1 DEF Pipe10!Fork, Pipe10!TypeOK, Pipe10!NeverOutrun, Pipe10!WholeUnlessPiled, EndsInv, TextsInv
<1>2. CASE Pipe10!ForkFails
  BY <1>2 DEF Pipe10!ForkFails, Pipe10!TypeOK, Pipe10!NeverOutrun, Pipe10!WholeUnlessPiled, EndsInv, TextsInv
<1>3. CASE Pipe10!FatherEnds
  BY <1>3 DEF Pipe10!FatherEnds, Pipe10!TypeOK, Pipe10!NeverOutrun, Pipe10!WholeUnlessPiled, EndsInv, TextsInv
<1>4. CASE Pipe10!ChildBegins
  BY <1>4 DEF Pipe10!ChildBegins, Pipe10!TypeOK, Pipe10!NeverOutrun, Pipe10!WholeUnlessPiled, EndsInv, TextsInv
<1>5. CASE Pipe10!ChildEnds
  BY <1>5 DEF Pipe10!ChildEnds, Pipe10!TypeOK, Pipe10!NeverOutrun, Pipe10!WholeUnlessPiled, EndsInv, TextsInv
<1>6. CASE UNCHANGED Pipe10!vars
  BY <1>6 DEF Pipe10!vars, Pipe10!TypeOK, Pipe10!NeverOutrun, Pipe10!WholeUnlessPiled, EndsInv, TextsInv
<1> QED BY <1>1, <1>2, <1>3, <1>4, <1>5, <1>6, WriteStep, ReadStep
        DEF Pipe10!Next, Pipe10!Father, Pipe10!Child, Pipe10!Ended

\* The father of pipe_test is never killed by SIGPIPE and the child shows whole
\* texts until more is waiting than its buffer holds, however the two are scheduled.
THEOREM PipeSound == Pipe10!Spec => []PipeIsKept
<1>1. PipeInv => PipeIsKept
  BY DEF PipeInv, PipeIsKept
<1>2. Pipe10!PipeAssumption
  BY ProgramsAssumption
<1> QED BY <1>1, <1>2, PipeInit, PipeStep, PTL DEF Pipe10!Spec

----------------------------------------------------------------------------
(* AddMinus *)

ThreadPlaces == {"none", "ready", "failed", "wait", "woken", "done"}

\* The threads that the argument counts, where f says the places: the adders and the
\* minus threads that are through, the adders among them that reach BOUNDARY by
\* themselves, the minus threads that have been woken or did not wait, and those that wait.
DoneAdders(f) == {t \in Threads8!Adders : f[t] = "done"}
DoneMinuses(f) == {t \in Threads8!Minuses : f[t] = "done"}
BigDone(f) == {t \in Threads8!Adders : t > 3 /\ f[t] = "done"}
Awake(f) == {t \in Threads8!Minuses : f[t] \in {"woken", "done"}}
Waiting(f) == {t \in Threads8!Threads : f[t] = "wait"}

\* How many they are, and what the adders have added.
Added(f) == Cardinality(Threads8!Ones(DoneAdders(f)))
Taken(f) == Cardinality(DoneMinuses(f))
Big(f) == Cardinality(BigDone(f))
Woken(f) == Cardinality(Awake(f))

\* The threads and their two kinds, of which there are equally many.
LEMMA ThreadSets ==
  /\ NUM_THREADS \in Nat /\ Threads8!Threads \subseteq Nat
  /\ Threads8!Adders \subseteq Threads8!Threads /\ Threads8!Minuses \subseteq Threads8!Threads
  /\ Threads8!Adders \cap Threads8!Minuses = {} /\ Threads8!Adders \cup Threads8!Minuses = Threads8!Threads
  /\ IsFiniteSet(Threads8!Threads) /\ IsFiniteSet(Threads8!Adders) /\ IsFiniteSet(Threads8!Minuses)
  /\ Cardinality(Threads8!Adders) = Cardinality(Threads8!Minuses)
<1>1. NUM_THREADS \in Nat /\ NUM_THREADS % 2 = 0
  BY ProgramsAssumption DEF Threads8!NumThreadsAssumption
<1>2. /\ Threads8!Threads \subseteq Nat
      /\ Threads8!Adders \subseteq Threads8!Threads /\ Threads8!Minuses \subseteq Threads8!Threads
      /\ Threads8!Adders \cap Threads8!Minuses = {} /\ Threads8!Adders \cup Threads8!Minuses = Threads8!Threads
  BY <1>1 DEF Threads8!Threads, Threads8!Adders, Threads8!Minuses
<1>3. IsFiniteSet(Threads8!Threads)
  BY <1>1, FS_Interval DEF Threads8!Threads
<1>4. IsFiniteSet(Threads8!Adders) /\ IsFiniteSet(Threads8!Minuses)
  BY <1>2, <1>3, FS_Subset
<1> DEFINE h == [t \in Threads8!Adders |-> t + 1]
<1>5. h \in [Threads8!Adders -> Threads8!Minuses]
  <2> SUFFICES ASSUME NEW t \in Threads8!Adders
               PROVE  t + 1 \in Threads8!Minuses
    OBVIOUS
  <2>1. t \in Nat /\ t < NUM_THREADS /\ t % 2 = 0
    BY <1>1 DEF Threads8!Adders, Threads8!Threads
  <2>2. t + 1 < NUM_THREADS
    BY <1>1, <2>1
  <2>3. (t + 1) % 2 # 0
    BY <2>1
  <2> QED BY <1>1, <2>1, <2>2, <2>3 DEF Threads8!Minuses, Threads8!Adders, Threads8!Threads
<1>6. \A s, t \in Threads8!Adders : h[s] = h[t] => s = t
  BY <1>2
<1>7. \A u \in Threads8!Minuses : \E t \in Threads8!Adders : h[t] = u
  <2> SUFFICES ASSUME NEW u \in Threads8!Minuses
               PROVE  \E t \in Threads8!Adders : h[t] = u
    OBVIOUS
  <2>1. u \in Nat /\ u < NUM_THREADS /\ u % 2 # 0
    BY <1>1 DEF Threads8!Minuses, Threads8!Adders, Threads8!Threads
  <2>2. u > 0 /\ (u - 1) % 2 = 0
    BY <2>1
  <2>3. u - 1 \in Threads8!Adders /\ (u - 1) + 1 = u
    BY <1>1, <2>1, <2>2 DEF Threads8!Adders, Threads8!Threads
  <2> QED BY <2>3
<1>8. h \in Bijection(Threads8!Adders, Threads8!Minuses)
  BY <1>5, <1>6, <1>7 DEF Bijection, Injection, Surjection, IsInjective
<1>9. Cardinality(Threads8!Adders) = Cardinality(Threads8!Minuses)
  BY <1>4, <1>8, FS_Bijection DEF ExistsBijection
<1> QED BY <1>1, <1>2, <1>3, <1>4, <1>9

\* The cardinality that AddMinus speaks of.
LEMMA SameCardinality == \A S : Threads8!Cardinality(S) = Cardinality(S)
BY Zenon DEF Threads8!Cardinality, Cardinality, Threads8!IsFiniteSet, IsFiniteSet

\* One more adder adds its number.
LEMMA OnesAdded ==
  ASSUME NEW S \in SUBSET Threads8!Threads, NEW t \in Threads8!Threads, t \notin S
  PROVE  /\ IsFiniteSet(Threads8!Ones(S)) /\ Cardinality(Threads8!Ones(S)) \in Nat
         /\ Cardinality(Threads8!Ones(S \cup {t})) = Cardinality(Threads8!Ones(S)) + t
<1> DEFINE K == Threads8!Ones({t})
           h == [x \in 0 .. t - 1 |-> <<t, x>>]
<1>1. Threads8!Threads \subseteq Nat /\ IsFiniteSet(Threads8!Threads) /\ NUM_THREADS \in Nat
  BY ThreadSets
<1>2. t \in Nat /\ t < NUM_THREADS
  BY <1>1 DEF Threads8!Threads
<1>3. IsFiniteSet(S)
  BY <1>1, FS_Subset
<1>4. IsFiniteSet(S \X Threads8!Threads)
  BY <1>1, <1>3, FS_Product
<1>5. Threads8!Ones(S) \in SUBSET (S \X Threads8!Threads)
  BY DEF Threads8!Ones
<1>6. IsFiniteSet(Threads8!Ones(S))
  BY <1>4, <1>5, FS_Subset
<1>7. h \in [0 .. t - 1 -> K]
  <2> SUFFICES ASSUME NEW x \in 0 .. t - 1
               PROVE  <<t, x>> \in K
    OBVIOUS
  <2>1. x \in Threads8!Threads /\ x < t
    BY <1>1, <1>2 DEF Threads8!Threads
  <2>2. <<t, x>> \in {t} \X Threads8!Threads /\ <<t, x>>[1] = t /\ <<t, x>>[2] = x
    BY <2>1
  <2> QED BY <2>1, <2>2 DEF Threads8!Ones
<1>8. \A x, y \in 0 .. t - 1 : h[x] = h[y] => x = y
  OBVIOUS
<1>9. \A u \in K : \E x \in 0 .. t - 1 : h[x] = u
  <2> SUFFICES ASSUME NEW u \in K
               PROVE  \E x \in 0 .. t - 1 : h[x] = u
    OBVIOUS
  <2>1. u \in {t} \X Threads8!Threads /\ u[2] < u[1]
    BY DEF Threads8!Ones
  <2>2. u = <<t, u[2]>> /\ u[2] \in Threads8!Threads
    BY <2>1
  <2>3. u[2] \in 0 .. t - 1
    BY <1>2, <2>1, <2>2 DEF Threads8!Threads
  <2> QED BY <2>2, <2>3
<1>10. h \in Bijection(0 .. t - 1, K)
  BY <1>7, <1>8, <1>9 DEF Bijection, Injection, Surjection, IsInjective
<1>11. IsFiniteSet(0 .. t - 1) /\ Cardinality(0 .. t - 1) = t
  BY <1>2, FS_Interval
<1>12. IsFiniteSet(K) /\ Cardinality(K) = t
  BY <1>10, <1>11, FS_Bijection DEF ExistsBijection
<1>13. Threads8!Ones(S \cup {t}) = Threads8!Ones(S) \cup K
  BY DEF Threads8!Ones
<1>14. Threads8!Ones(S) \cap K = {}
  BY DEF Threads8!Ones
<1> HIDE DEF K
<1>15. Cardinality(Threads8!Ones(S) \cap K) = 0
  BY <1>14, FS_EmptySet
<1>16. Cardinality(Threads8!Ones(S)) \in Nat
  BY <1>6, FS_CardinalityType
<1>17. Cardinality(Threads8!Ones(S) \cup K) =
          Cardinality(Threads8!Ones(S)) + Cardinality(K) - Cardinality(Threads8!Ones(S) \cap K)
  BY <1>6, <1>12, FS_Union
<1>18. Cardinality(Threads8!Ones(S \cup {t})) = Cardinality(Threads8!Ones(S)) + t
  <2>1. Cardinality(Threads8!Ones(S \cup {t})) = Cardinality(Threads8!Ones(S) \cup K)
    BY <1>13
  <2>2. Cardinality(K) = t
    BY <1>12
  <2> QED BY <1>2, <1>15, <1>16, <1>17, <2>1, <2>2
<1> QED BY <1>6, <1>16, <1>18

\* The counts are numbers, and whoever has taken one off is awake.
LEMMA CountTypes ==
  ASSUME NEW f
  PROVE  /\ Added(f) \in Nat /\ Taken(f) \in Nat /\ Big(f) \in Nat /\ Woken(f) \in Nat
         /\ Taken(f) <= Woken(f)
         /\ IsFiniteSet(BigDone(f)) /\ IsFiniteSet(Awake(f)) /\ IsFiniteSet(DoneMinuses(f))
         /\ DoneAdders(f) \in SUBSET Threads8!Threads
<1>1. /\ Threads8!Adders \subseteq Threads8!Threads /\ IsFiniteSet(Threads8!Threads)
      /\ IsFiniteSet(Threads8!Adders) /\ IsFiniteSet(Threads8!Minuses)
  BY ThreadSets
<1>2. /\ DoneAdders(f) \in SUBSET Threads8!Adders /\ BigDone(f) \in SUBSET Threads8!Adders
      /\ Awake(f) \in SUBSET Threads8!Minuses /\ DoneMinuses(f) \in SUBSET Awake(f)
  BY DEF DoneAdders, BigDone, Awake, DoneMinuses
<1>3. IsFiniteSet(DoneAdders(f)) /\ IsFiniteSet(BigDone(f)) /\ IsFiniteSet(Awake(f))
  BY <1>1, <1>2, FS_Subset
<1>4. IsFiniteSet(DoneMinuses(f)) /\ Cardinality(DoneMinuses(f)) <= Cardinality(Awake(f))
  BY <1>2, <1>3, FS_Subset
<1>5. DoneAdders(f) \in SUBSET Threads8!Threads
  BY <1>1, <1>2
<1>6. IsFiniteSet(DoneAdders(f) \X Threads8!Threads)
  BY <1>1, <1>3, FS_Product
<1>7. Threads8!Ones(DoneAdders(f)) \in SUBSET (DoneAdders(f) \X Threads8!Threads)
  BY DEF Threads8!Ones
<1>8. IsFiniteSet(Threads8!Ones(DoneAdders(f)))
  BY <1>6, <1>7, FS_Subset
<1> QED BY <1>3, <1>4, <1>5, <1>8, FS_CardinalityType DEF Added, Taken, Big, Woken

\* An adder is through.
LEMMA AdderCounts ==
  ASSUME NEW f \in [Threads8!Threads -> ThreadPlaces], NEW t \in Threads8!Adders, f[t] # "done",
         NEW g, g = [f EXCEPT ![t] = "done"]
  PROVE  /\ Added(g) = Added(f) + t
         /\ Taken(g) = Taken(f) /\ Woken(g) = Woken(f)
         /\ t > 3 => Big(g) = Big(f) + 1
         /\ ~ (t > 3) => Big(g) = Big(f)
         /\ Waiting(g) \subseteq Waiting(f)
<1>1. t \in Threads8!Threads /\ t \notin Threads8!Minuses /\ Threads8!Minuses \subseteq Threads8!Threads /\ Threads8!Adders \subseteq Threads8!Threads
  BY ThreadSets
<1>2. \A x \in Threads8!Threads : g[x] = IF x = t THEN "done" ELSE f[x]
  BY <1>1
<1>3. DoneAdders(g) = DoneAdders(f) \cup {t} /\ t \notin DoneAdders(f)
  BY <1>1, <1>2 DEF DoneAdders
<1>4. DoneMinuses(g) = DoneMinuses(f) /\ Awake(g) = Awake(f)
  BY <1>1, <1>2 DEF DoneMinuses, Awake
<1>5. t > 3 => BigDone(g) = BigDone(f) \cup {t} /\ t \notin BigDone(f)
  BY <1>1, <1>2 DEF BigDone
<1>6. ~ (t > 3) => BigDone(g) = BigDone(f)
  BY <1>1, <1>2 DEF BigDone
<1>7. Waiting(g) \subseteq Waiting(f)
  BY <1>2 DEF Waiting
<1>8. Added(g) = Added(f) + t
  BY <1>1, <1>3, CountTypes, OnesAdded DEF Added
<1>9. t > 3 => Big(g) = Big(f) + 1
  BY <1>5, CountTypes, FS_AddElement DEF Big
<1> QED BY <1>4, <1>6, <1>7, <1>8, <1>9 DEF Taken, Woken, Big

\* The counts before and after minus thread t goes to pl, from places f to g.
MinusMoved(f, t, pl, g) ==
    /\ Added(g) = Added(f) /\ Big(g) = Big(f)
    /\ pl = "done" => Taken(g) = Taken(f) + 1
    /\ pl # "done" => Taken(g) = Taken(f)
    /\ f[t] # "woken" /\ pl \in {"woken", "done"} => Woken(g) = Woken(f) + 1
    /\ f[t] # "woken" /\ pl \notin {"woken", "done"} => Woken(g) = Woken(f)
    /\ f[t] = "woken" /\ pl = "done" => Woken(g) = Woken(f)
    /\ pl # "wait" => Waiting(g) \subseteq Waiting(f)

\* So they are when it moves.
LEMMA MinusCounts ==
  ASSUME NEW f \in [Threads8!Threads -> ThreadPlaces], NEW t \in Threads8!Minuses, f[t] # "done",
         NEW pl \in ThreadPlaces, NEW g, g = [f EXCEPT ![t] = pl]
  PROVE  MinusMoved(f, t, pl, g)
<1>1. t \in Threads8!Threads /\ t \notin Threads8!Adders /\ Threads8!Minuses \subseteq Threads8!Threads /\ Threads8!Adders \subseteq Threads8!Threads
  BY ThreadSets
<1>2. \A x \in Threads8!Threads : g[x] = IF x = t THEN pl ELSE f[x]
  BY <1>1
<1>3. DoneAdders(g) = DoneAdders(f) /\ BigDone(g) = BigDone(f)
  BY <1>1, <1>2 DEF DoneAdders, BigDone
<1>4. pl = "done" => DoneMinuses(g) = DoneMinuses(f) \cup {t} /\ t \notin DoneMinuses(f)
  BY <1>1, <1>2 DEF DoneMinuses
<1>5. pl # "done" => DoneMinuses(g) = DoneMinuses(f)
  BY <1>1, <1>2 DEF DoneMinuses
<1>6. f[t] # "woken" /\ pl \in {"woken", "done"} => Awake(g) = Awake(f) \cup {t} /\ t \notin Awake(f)
  BY <1>1, <1>2 DEF Awake
<1>7. f[t] # "woken" /\ pl \notin {"woken", "done"} => Awake(g) = Awake(f)
  BY <1>1, <1>2 DEF Awake
<1>8. f[t] = "woken" /\ pl = "done" => Awake(g) = Awake(f)
  BY <1>1, <1>2 DEF Awake
<1>9. pl # "wait" => Waiting(g) \subseteq Waiting(f)
  BY <1>2 DEF Waiting
<1>10. pl = "done" => Taken(g) = Taken(f) + 1
  BY <1>4, CountTypes, FS_AddElement DEF Taken
<1>11. f[t] # "woken" /\ pl \in {"woken", "done"} => Woken(g) = Woken(f) + 1
  BY <1>6, CountTypes, FS_AddElement DEF Woken
<1> QED BY <1>3, <1>5, <1>7, <1>8, <1>9, <1>10, <1>11 DEF MinusMoved, Added, Big, Taken, Woken

\* Every thread was created, or its creation failed, before the first is joined.
Created == /\ joining => \A t \in Threads8!Threads : tpc[t] # "none"
           /\ ~ joining => \A t \in Threads8!Threads : t < ti <=> tpc[t] # "none"

\* An adder does not wait.
AddersGo == \A t \in Threads8!Adders : tpc[t] \in {"none", "ready", "failed", "done"}

\* What the counts say of g_sum: by it a minus thread waits, or an adder does not
\* signal, only when more minus threads are through than adders that reach BOUNDARY.
Sums(f, g) == /\ g = Added(f) - Taken(f)
              /\ g >= 4 * Big(f) - Taken(f)
              /\ Waiting(f) # {} => Woken(f) >= Big(f)

ThreadsInv == Threads8!TypeOK /\ Created /\ AddersGo /\ Sums(tpc, g_sum)

\* The sum of the properties is that of the invariant.
LEMMA SumIsCounted == ThreadsInv => Threads8!SumAccounts
<1>1. Threads8!At("done") \cap Threads8!Adders = DoneAdders(tpc) /\ Threads8!At("done") \cap Threads8!Minuses = DoneMinuses(tpc)
  BY ThreadSets DEF Threads8!At, DoneAdders, DoneMinuses
<1> QED BY <1>1, SameCardinality DEF ThreadsInv, Sums, Added, Taken, Threads8!SumAccounts

\* At first nobody is through.
LEMMA ThreadsInit == Threads8!Init => ThreadsInv
<1> SUFFICES ASSUME Threads8!Init
             PROVE  ThreadsInv
  OBVIOUS
<1>1. /\ g_sum = 0 /\ ti = 0 /\ joining = FALSE
      /\ tpc = [t \in Threads8!Threads |-> "none"]
  BY DEF Threads8!Init
<1>2. \A t \in Threads8!Threads : tpc[t] = "none" /\ t \in Nat
  BY <1>1, ThreadSets
<1>3. Threads8!TypeOK
  <2>1. tpc \in [Threads8!Threads -> {"none", "ready", "failed", "wait", "woken", "done"}]
    BY <1>1
  <2>2. NUM_THREADS \in Nat
    BY ThreadSets
  <2>3. g_sum \in Int /\ ti \in 0 .. NUM_THREADS
    BY <1>1, <2>2
  <2>4. joining \in BOOLEAN
    BY <1>1, Zenon
  <2> QED BY <2>1, <2>3, <2>4 DEF Threads8!TypeOK
<1>4. Created /\ AddersGo
  BY <1>1, <1>2, ThreadSets DEF Created, AddersGo
<1>5. /\ DoneAdders(tpc) = {} /\ DoneMinuses(tpc) = {} /\ BigDone(tpc) = {} /\ Waiting(tpc) = {}
  BY <1>2, ThreadSets DEF DoneAdders, DoneMinuses, BigDone, Waiting
<1>6. Threads8!Ones({}) = {}
  BY DEF Threads8!Ones
<1>7. Cardinality({}) = 0
  BY FS_EmptySet
<1>8. Added(tpc) = 0 /\ Taken(tpc) = 0 /\ Big(tpc) = 0
  BY <1>5, <1>6, <1>7 DEF Added, Taken, Big
<1>9. Sums(tpc, g_sum)
  BY <1>1, <1>5, <1>8 DEF Sums
<1> QED BY <1>3, <1>4, <1>9 DEF ThreadsInv

\* The main thread creates and joins.
LEMMA MainKeeps ==
  ASSUME ThreadsInv, Threads8!MainStep
  PROVE  ThreadsInv'
<1>1. /\ g_sum \in Int /\ ti \in 0 .. NUM_THREADS /\ joining \in BOOLEAN
      /\ tpc \in [Threads8!Threads -> ThreadPlaces] /\ NUM_THREADS \in Nat /\ Threads8!Threads \subseteq Nat
  BY ThreadSets DEF ThreadsInv, Threads8!TypeOK, ThreadPlaces
<1>2. CASE Threads8!Create
  <2>1. PICK pl \in {"ready", "failed"} : tpc' = [tpc EXCEPT ![ti] = pl]
    BY <1>2 DEF Threads8!Create
  <2>2. ~ joining /\ ti < NUM_THREADS /\ ti' = ti + 1 /\ g_sum' = g_sum /\ joining' = joining
    BY <1>2 DEF Threads8!Create
  <2>3. ti \in Threads8!Threads /\ tpc[ti] = "none"
    BY <1>1, <2>2 DEF ThreadsInv, Created, Threads8!Threads
  <2>4. \A t \in Threads8!Threads : tpc'[t] = IF t = ti THEN pl ELSE tpc[t]
    BY <1>1, <2>1, <2>3
  <2>5. Threads8!TypeOK'
    <3>1. tpc' \in [Threads8!Threads -> ThreadPlaces]
      BY <1>1, <2>1 DEF ThreadPlaces
    <3>2. g_sum' \in Int /\ ti' \in 0 .. NUM_THREADS /\ joining' \in BOOLEAN
      BY <1>1, <2>2
    <3> QED BY <3>1, <3>2 DEF Threads8!TypeOK, ThreadPlaces
  <2>6. Created'
    BY <1>1, <2>2, <2>3, <2>4 DEF ThreadsInv, Created
  <2>7. AddersGo'
    BY <2>4, ThreadSets DEF ThreadsInv, AddersGo
  <2>8. Sums(tpc', g_sum)
    <3>1. /\ DoneAdders(tpc') = DoneAdders(tpc) /\ DoneMinuses(tpc') = DoneMinuses(tpc)
          /\ BigDone(tpc') = BigDone(tpc)
      BY <2>3, <2>4, ThreadSets DEF DoneAdders, DoneMinuses, BigDone
    <3>2. Awake(tpc') = Awake(tpc) /\ Waiting(tpc') = Waiting(tpc)
      BY <2>3, <2>4, ThreadSets DEF Awake, Waiting
    <3> QED BY <3>1, <3>2 DEF ThreadsInv, Sums, Added, Taken, Big, Woken
  <2> QED BY <2>2, <2>5, <2>6, <2>7, <2>8 DEF ThreadsInv
<1>3. CASE Threads8!StartJoining
  <2>1. /\ ~ joining /\ ti = NUM_THREADS /\ joining' = TRUE /\ ti' = 0
        /\ UNCHANGED <<g_sum, tpc>>
    BY <1>3 DEF Threads8!StartJoining
  <2>2. \A t \in Threads8!Threads : tpc[t] # "none"
    BY <1>1, <2>1 DEF ThreadsInv, Created, Threads8!Threads
  <2>3. Threads8!TypeOK'
    BY <1>1, <2>1 DEF Threads8!TypeOK, ThreadPlaces
  <2> QED BY <2>1, <2>2, <2>3 DEF ThreadsInv, Created, AddersGo
<1>4. CASE Threads8!Join
  <2>1. joining /\ ti < NUM_THREADS /\ ti' = ti + 1 /\ UNCHANGED <<g_sum, joining, tpc>>
    BY <1>4 DEF Threads8!Join
  <2>2. Threads8!TypeOK'
    BY <1>1, <2>1 DEF Threads8!TypeOK, ThreadPlaces
  <2> QED BY <2>1, <2>2 DEF ThreadsInv, Created, AddersGo
<1> QED BY <1>2, <1>3, <1>4 DEF Threads8!MainStep

\* What a thread that is there may do to the places.
LEMMA PlacesKeep ==
  ASSUME ThreadsInv, NEW t \in Threads8!Threads, tpc[t] # "none", NEW pl \in ThreadPlaces \ {"none"},
         t \in Threads8!Adders => pl = "done", tpc' = [tpc EXCEPT ![t] = pl],
         UNCHANGED <<ti, joining>>
  PROVE  Created' /\ AddersGo' /\ tpc' \in [Threads8!Threads -> ThreadPlaces]
<1>1. tpc \in [Threads8!Threads -> ThreadPlaces]
  BY DEF ThreadsInv, Threads8!TypeOK, ThreadPlaces
<1>2. \A x \in Threads8!Threads : tpc'[x] = IF x = t THEN pl ELSE tpc[x]
  BY <1>1
<1>3. Created'
  BY <1>2 DEF ThreadsInv, Created
<1>4. AddersGo'
  BY <1>2, ThreadSets DEF ThreadsInv, AddersGo
<1> QED BY <1>1, <1>3, <1>4

\* An adder adds, and signals when the sum is large enough.
LEMMA AddKeeps ==
  ASSUME ThreadsInv, NEW t \in Threads8!Adders, Threads8!Add(t)
  PROVE  ThreadsInv'
<1> DEFINE f == [tpc EXCEPT ![t] = "done"]
<1>1. /\ g_sum \in Int /\ tpc \in [Threads8!Threads -> ThreadPlaces]
      /\ t \in Threads8!Threads /\ t \in Nat
  BY ThreadSets DEF ThreadsInv, Threads8!TypeOK, ThreadPlaces
<1>2. /\ tpc[t] = "ready" /\ g_sum' = g_sum + t /\ UNCHANGED <<ti, joining>>
      /\ tpc' \in IF g_sum' > 3 THEN Threads8!Signal(f) ELSE {f}
  BY DEF Threads8!Add, Threads8!BOUNDARY
<1>3. f \in [Threads8!Threads -> ThreadPlaces] /\ \A x \in Threads8!Threads : f[x] = IF x = t THEN "done" ELSE tpc[x]
  BY <1>1 DEF ThreadPlaces
<1>4. /\ Added(f) = Added(tpc) + t
      /\ Taken(f) = Taken(tpc) /\ Woken(f) = Woken(tpc)
      /\ t > 3 => Big(f) = Big(tpc) + 1
      /\ ~ (t > 3) => Big(f) = Big(tpc)
      /\ Waiting(f) \subseteq Waiting(tpc)
  BY <1>1, <1>2, AdderCounts
<1>5. /\ Added(tpc) \in Nat /\ Taken(tpc) \in Nat /\ Big(tpc) \in Nat /\ Woken(tpc) \in Nat
      /\ Taken(tpc) <= Woken(tpc)
  BY CountTypes
<1>6. /\ g_sum = Added(tpc) - Taken(tpc)
      /\ g_sum >= 4 * Big(tpc) - Taken(tpc)
      /\ Waiting(tpc) # {} => Woken(tpc) >= Big(tpc)
  BY DEF ThreadsInv, Sums
<1> HIDE DEF f
<1>7. /\ g_sum' = Added(f) - Taken(f) /\ g_sum' >= 4 * Big(f) - Taken(f)
  BY <1>1, <1>2, <1>4, <1>5, <1>6
<1>8. CASE tpc' = f /\ (Waiting(f) = {} \/ ~ (g_sum' > 3))
  <2>1. Waiting(f) # {} => Woken(f) >= Big(f)
    <3> SUFFICES ASSUME ~ (g_sum' > 3)
                 PROVE  Woken(f) >= Big(f)
      BY <1>8
    <3>1. 4 * Big(f) - Taken(f) <= 3 /\ Big(f) \in Nat
      BY <1>1, <1>2, <1>4, <1>5, <1>7
    <3>2. Taken(f) >= Big(f)
      BY <1>4, <1>5, <3>1
    <3> QED BY <1>4, <1>5, <3>1, <3>2
  <2>2. Sums(tpc', g_sum')
    BY <1>7, <1>8, <2>1 DEF Sums
  <2>3. Created' /\ AddersGo' /\ tpc' \in [Threads8!Threads -> ThreadPlaces]
    BY <1>1, <1>2, <1>8, PlacesKeep DEF f, ThreadPlaces
  <2>4. Threads8!TypeOK'
    BY <1>1, <1>2, <2>3 DEF ThreadsInv, Threads8!TypeOK, ThreadPlaces
  <2> QED BY <2>2, <2>3, <2>4 DEF ThreadsInv
<1>9. CASE Waiting(f) # {} /\ \E w \in Waiting(f) : tpc' = [f EXCEPT ![w] = "woken"]
  <2>1. PICK w \in Waiting(f) : tpc' = [f EXCEPT ![w] = "woken"]
    BY <1>9
  <2>2. w \in Threads8!Threads /\ f[w] = "wait" /\ w # t /\ tpc[w] = "wait"
    BY <1>3, <2>1 DEF Waiting
  <2>3. w \in Threads8!Minuses
    BY <2>2, ThreadSets DEF ThreadsInv, AddersGo
  <2>4. /\ Added(tpc') = Added(f) /\ Big(tpc') = Big(f) /\ Taken(tpc') = Taken(f)
        /\ Woken(tpc') = Woken(f) + 1
    <3>1. f[w] # "done" /\ "woken" \in ThreadPlaces
      BY <2>2 DEF ThreadPlaces
    <3>2. MinusMoved(f, w, "woken", tpc')
      BY <1>3, <2>1, <2>3, <3>1, MinusCounts
    <3> QED BY <2>2, <3>2 DEF MinusMoved
  <2>5. Woken(tpc') >= Big(tpc')
    BY <1>4, <1>5, <1>6, <1>9, <2>4
  <2>6. Sums(tpc', g_sum')
    BY <1>7, <2>4, <2>5 DEF Sums
  <2>7. \A x \in Threads8!Threads : tpc'[x] = IF x = w THEN "woken" ELSE f[x]
    BY <1>3, <2>1, <2>2
  <2>8. tpc' \in [Threads8!Threads -> ThreadPlaces]
    BY <1>3, <2>1 DEF ThreadPlaces
  <2>9. Threads8!TypeOK'
    BY <1>1, <1>2, <2>8 DEF ThreadsInv, Threads8!TypeOK, ThreadPlaces
  <2>10. \A x \in Threads8!Threads : tpc'[x] # "none" <=> tpc[x] # "none"
    BY <1>2, <1>3, <2>2, <2>7
  <2>11. Created'
    BY <1>2, <2>10 DEF ThreadsInv, Created
  <2>12. AddersGo'
    BY <1>3, <2>3, <2>7, ThreadSets DEF ThreadsInv, AddersGo
  <2> QED BY <2>6, <2>9, <2>11, <2>12 DEF ThreadsInv
<1>10. \/ tpc' = f /\ (Waiting(f) = {} \/ ~ (g_sum' > 3))
       \/ Waiting(f) # {} /\ \E w \in Waiting(f) : tpc' = [f EXCEPT ![w] = "woken"]
  BY <1>2 DEF Threads8!Signal, Waiting
<1> QED BY <1>8, <1>9, <1>10

\* A minus thread takes one off, or waits.
LEMMA MinusKeeps ==
  ASSUME ThreadsInv, NEW t \in Threads8!Minuses, Threads8!Minus(t) \/ Threads8!Resume(t) \/ Threads8!SpuriousWakeup(t)
  PROVE  ThreadsInv'
<1>1. /\ g_sum \in Int /\ tpc \in [Threads8!Threads -> ThreadPlaces]
      /\ t \in Threads8!Threads /\ t \notin Threads8!Adders
  BY ThreadSets DEF ThreadsInv, Threads8!TypeOK, ThreadPlaces
<1>2. PICK pl \in {"wait", "woken", "done"} :
        /\ tpc' = [tpc EXCEPT ![t] = pl] /\ UNCHANGED <<ti, joining>>
        /\ \/ tpc[t] = "ready" /\ pl = "wait" /\ g_sum <= 3 /\ g_sum' = g_sum
           \/ tpc[t] = "ready" /\ pl = "done" /\ g_sum' = g_sum - 1
           \/ tpc[t] = "woken" /\ pl = "done" /\ g_sum' = g_sum - 1
           \/ tpc[t] = "wait" /\ pl = "woken" /\ g_sum' = g_sum
  BY DEF Threads8!Minus, Threads8!Resume, Threads8!SpuriousWakeup
<1>3. tpc[t] # "done" /\ tpc[t] # "none" /\ pl \in ThreadPlaces \ {"none"} /\ pl \in ThreadPlaces
  BY <1>2 DEF ThreadPlaces
<1>4. /\ Added(tpc') = Added(tpc) /\ Big(tpc') = Big(tpc)
      /\ pl = "done" => Taken(tpc') = Taken(tpc) + 1
      /\ pl # "done" => Taken(tpc') = Taken(tpc)
      /\ tpc[t] # "woken" /\ pl \in {"woken", "done"} => Woken(tpc') = Woken(tpc) + 1
      /\ tpc[t] # "woken" /\ pl \notin {"woken", "done"} => Woken(tpc') = Woken(tpc)
      /\ tpc[t] = "woken" /\ pl = "done" => Woken(tpc') = Woken(tpc)
      /\ pl # "wait" => Waiting(tpc') \subseteq Waiting(tpc)
  <2>1. MinusMoved(tpc, t, pl, tpc')
    BY <1>1, <1>2, <1>3, MinusCounts
  <2> QED BY <2>1 DEF MinusMoved
<1>5. /\ Added(tpc) \in Nat /\ Taken(tpc) \in Nat /\ Big(tpc) \in Nat /\ Woken(tpc) \in Nat
      /\ Taken(tpc) <= Woken(tpc)
  BY CountTypes
<1>6. /\ g_sum = Added(tpc) - Taken(tpc)
      /\ g_sum >= 4 * Big(tpc) - Taken(tpc)
      /\ Waiting(tpc) # {} => Woken(tpc) >= Big(tpc)
  BY DEF ThreadsInv, Sums
<1>7. Created' /\ AddersGo' /\ tpc' \in [Threads8!Threads -> ThreadPlaces]
  BY <1>1, <1>2, <1>3, PlacesKeep
<1>8. g_sum' \in Int /\ g_sum' = Added(tpc') - Taken(tpc') /\ g_sum' >= 4 * Big(tpc') - Taken(tpc')
  BY <1>1, <1>2, <1>4, <1>5, <1>6
<1>9. Waiting(tpc') # {} => Woken(tpc') >= Big(tpc')
  <2>1. CASE pl = "wait"
    <3>1. 4 * Big(tpc) - Taken(tpc) <= 3
      BY <1>1, <1>2, <1>5, <1>6, <2>1
    <3>2. Taken(tpc) >= Big(tpc)
      BY <1>5, <3>1
    <3>3. Woken(tpc') = Woken(tpc)
      BY <1>2, <1>4, <2>1
    <3> QED BY <1>4, <1>5, <3>2, <3>3
  <2>2. CASE pl # "wait"
    <3>1. Waiting(tpc') # {} => Woken(tpc) >= Big(tpc)
      BY <1>4, <1>6, <2>2
    <3>2. Woken(tpc') = Woken(tpc) \/ Woken(tpc') = Woken(tpc) + 1
      BY <1>2, <1>4, <2>2
    <3> QED BY <1>4, <1>5, <3>1, <3>2
  <2> QED BY <2>1, <2>2
<1>10. Threads8!TypeOK'
  BY <1>2, <1>7, <1>8 DEF ThreadsInv, Threads8!TypeOK, ThreadPlaces
<1>11. Sums(tpc', g_sum')
  BY <1>8, <1>9 DEF Sums
<1> QED BY <1>7, <1>10, <1>11 DEF ThreadsInv

\* Every step keeps the invariant.
LEMMA ThreadsStep == ThreadsInv /\ [Threads8!Next]_(Threads8!vars) => ThreadsInv'
<1> SUFFICES ASSUME ThreadsInv, [Threads8!Next]_(Threads8!vars)
             PROVE  ThreadsInv'
  OBVIOUS
<1>1. CASE Threads8!MainStep
  BY <1>1, MainKeeps
<1>2. ASSUME NEW t \in Threads8!Threads, Threads8!ThreadStep(t)
      PROVE  ThreadsInv'
  BY <1>2, AddKeeps, MinusKeeps DEF Threads8!ThreadStep
<1>3. ASSUME NEW t \in Threads8!Minuses, Threads8!SpuriousWakeup(t)
      PROVE  ThreadsInv'
  BY <1>3, MinusKeeps
<1>4. CASE UNCHANGED Threads8!vars
  BY <1>4 DEF Threads8!vars, ThreadsInv, Threads8!TypeOK, Created, AddersGo
<1> QED BY <1>1, <1>2, <1>3, <1>4 DEF Threads8!Next, Threads8!Ended

\* When nobody runs any more those that wait are no more than the adders that did not
\* run or were too small: of as many minus threads as adders, one is awake for each
\* adder that reaches BOUNDARY.
LEMMA FewWait == ThreadsInv => Threads8!FewAreStuck
<1> SUFFICES ASSUME ThreadsInv, joining, Threads8!At("ready") \cup Threads8!At("woken") = {}
             PROVE  Cardinality(Threads8!At("wait")) <=
                       Cardinality({t \in Threads8!Adders : t <= 3 \/ tpc[t] = "failed"})
  BY SameCardinality DEF Threads8!FewAreStuck, Threads8!BOUNDARY
<1> DEFINE W == Threads8!At("wait")
           F == {t \in Threads8!Adders : t <= 3 \/ tpc[t] = "failed"}
           B == BigDone(tpc)
           U == Awake(tpc)
<1>1. /\ Threads8!Adders \subseteq Threads8!Threads /\ Threads8!Minuses \subseteq Threads8!Threads /\ Threads8!Threads \subseteq Nat
      /\ Threads8!Adders \cup Threads8!Minuses = Threads8!Threads
      /\ IsFiniteSet(Threads8!Adders) /\ IsFiniteSet(Threads8!Minuses)
      /\ Cardinality(Threads8!Adders) = Cardinality(Threads8!Minuses)
  BY ThreadSets
<1>2. W = Waiting(tpc) /\ W \in SUBSET Threads8!Minuses
  BY <1>1 DEF Threads8!At, Waiting, ThreadsInv, AddersGo
<1>3. U \in SUBSET Threads8!Minuses /\ W \cap U = {} /\ W \cup U \in SUBSET Threads8!Minuses
  BY <1>1, <1>2 DEF Threads8!At, Awake
<1>4. F \in SUBSET Threads8!Adders /\ B \in SUBSET Threads8!Adders
  BY DEF BigDone
<1>5. Threads8!Adders \in SUBSET (B \cup F)
  <2> SUFFICES ASSUME NEW t \in Threads8!Adders
               PROVE  t \in B \/ t \in F
    OBVIOUS
  <2>1. t \in Nat /\ tpc[t] # "none" /\ tpc[t] # "ready"
    BY <1>1 DEF Threads8!At, ThreadsInv, Created
  <2>2. tpc[t] \in {"failed", "done"}
    BY <2>1 DEF ThreadsInv, AddersGo
  <2> QED BY <2>1, <2>2 DEF BigDone
<1> HIDE DEF W, F, B, U
<1>6. IsFiniteSet(W) /\ IsFiniteSet(U) /\ IsFiniteSet(F) /\ IsFiniteSet(B)
  BY <1>1, <1>2, <1>3, <1>4, FS_Subset
<1>7. /\ Cardinality(W) \in Nat /\ Cardinality(U) \in Nat /\ Cardinality(F) \in Nat
      /\ Cardinality(B) \in Nat /\ Cardinality(Threads8!Adders) \in Nat
  BY <1>1, <1>6, FS_CardinalityType
<1>8. Cardinality(W \cup U) = Cardinality(W) + Cardinality(U)
  <2>1. Cardinality(W \cap U) = 0
    BY <1>3, FS_EmptySet
  <2>2. Cardinality(W \cup U) = Cardinality(W) + Cardinality(U) - Cardinality(W \cap U)
    BY <1>6, FS_Union
  <2> QED BY <1>7, <2>1, <2>2
<1>9. Cardinality(W \cup U) <= Cardinality(Threads8!Minuses)
  BY <1>1, <1>3, FS_Subset
<1>10. Cardinality(Threads8!Adders) <= Cardinality(B) + Cardinality(F)
  <2>1. /\ IsFiniteSet(B \cup F)
        /\ Cardinality(B \cup F) = Cardinality(B) + Cardinality(F) - Cardinality(B \cap F)
    BY <1>6, FS_Union
  <2>2. IsFiniteSet(B \cap F)
    BY <1>6, FS_Intersection
  <2>3. Cardinality(B \cap F) \in Nat
    BY <2>2, FS_CardinalityType
  <2>4. Cardinality(Threads8!Adders) <= Cardinality(B \cup F)
    BY <1>5, <2>1, FS_Subset
  <2> QED BY <1>7, <2>1, <2>3, <2>4
<1>11. CASE W = {}
  <2>1. Cardinality(W) = 0
    BY <1>11, FS_EmptySet
  <2>2. Cardinality(W) <= Cardinality(F)
    BY <1>7, <2>1
  <2> QED BY <2>2 DEF W, F
<1>12. CASE W # {}
  <2>1. Cardinality(U) >= Cardinality(B)
    BY <1>2, <1>12 DEF ThreadsInv, Sums, Woken, Big, U, B
  <2>2. Cardinality(W) <= Cardinality(F)
    BY <1>1, <1>7, <1>8, <1>9, <1>10, <2>1
  <2> QED BY <2>2 DEF W, F
<1> QED BY <1>11, <1>12

\* For every even number of threads g_sum accounts for every thread that is through,
\* and at most as many minus threads are left in pthread_cond_wait as there are adders
\* that did not run or were too small to reach BOUNDARY by themselves.
THEOREM ThreadsAccounted == Threads8!Spec => []ThreadsAreAccounted
<1>1. ThreadsInv => ThreadsAreAccounted
  BY SumIsCounted, FewWait DEF ThreadsInv, ThreadsAreAccounted
<1>2. Threads8!Spec => []ThreadsInv
  BY ThreadsInit, ThreadsStep, PTL DEF Threads8!Spec
<1> QED BY <1>1, <1>2, PTL

----------------------------------------------------------------------------
(* HeartBeatProbe *)

States == {"free", "open", "asked", "answered", "fin", "askedFin", "lost", "reset", "dead"}

\* What a connection may be as long as the server has it; as long as a client has it.
AtServer == {"open", "asked", "fin", "askedFin", "lost"}
AtClient == {"open", "asked", "answered", "reset", "dead"}

\* The types, in three parts: the server, the connections and the clients.
TypeServer == /\ spc \in {"down", "listen", "select", "loop", "read", "write"}
              /\ si \in Probes!Server /\ rfds \subseteq Probes!Server /\ listening \subseteq Probes!Server
              /\ iNewSocketId \in Probes!Conns \cup {Probes!None}
              /\ sfds \in 0 .. ServerFds

TypeConns == /\ early \in 0 .. ServerFds
             /\ backlog \in [Probes!Server -> Seq(Probes!Conns)]
             /\ conn \in [Probes!Conns -> States]

TypeClients == /\ epc \in [Clients -> {"off", "connect", "write", "read"}]
               /\ addr \in [Clients -> Probes!Server]
               /\ iSocketId \in [Clients -> Probes!Conns \cup {Probes!None}]

\* The server has accepted a connection in Read and Write only, and had a
\* descriptor for it.
ServingInv == /\ spc \in {"read", "write"} <=> iNewSocketId # Probes!None
              /\ spc = "read" => conn[iNewSocketId] \in AtServer
              /\ spc = "write" => conn[iNewSocketId] \in {"asked", "askedFin"}
              /\ spc \in {"read", "write"} => sfds < ServerFds

\* What select reported is still there when the loop comes to it.
ReportedInv == /\ spc = "loop" => \A s \in rfds : s >= si => backlog[s] # <<>>
               /\ spc \in {"read", "write"} => \A s \in rfds : s > si => backlog[s] # <<>>

\* A connection that is to be accepted is in one place, and not given back.
BacklogInv ==
    /\ \A s \in Probes!Server : \A m \in 1 .. Len(backlog[s]) :
          conn[backlog[s][m]] \in AtServer /\ backlog[s][m] # iNewSocketId
    /\ \A s \in Probes!Server : \A m \in 1 .. Len(backlog[s]) :
       \A t \in Probes!Server : \A n \in 1 .. Len(backlog[t]) :
          backlog[s][m] = backlog[t][n] => s = t /\ m = n

\* A client has a connection between Connect and the end of ExecClient, no other
\* client has it, and it is in a state that fits.
ClientInv ==
    /\ \A c \in Clients : epc[c] \in {"write", "read"} <=> iSocketId[c] # Probes!None
    /\ \A c \in Clients : epc[c] = "write" => conn[iSocketId[c]] \in {"open", "reset", "dead"}
    /\ \A c \in Clients : epc[c] = "read" => conn[iSocketId[c]] \in {"asked", "answered", "reset", "dead"}
    /\ \A c, d \in Clients : iSocketId[c] = iSocketId[d] /\ iSocketId[c] # Probes!None => c = d

\* A connection a client may hold is held by one.
HeldInv == \A k \in Probes!Conns : conn[k] \in AtClient => \E c \in Clients : iSocketId[c] = k

\* The connections whose client is gone, the server still having them.
Left == {k \in Probes!Conns : conn[k] \in {"fin", "askedFin", "lost"}}

LeftInv == early < ServerFds => Cardinality(Left) + sfds <= early

ProbeInv == /\ TypeServer /\ TypeConns /\ TypeClients
            /\ ServingInv /\ ReportedInv /\ BacklogInv /\ ClientInv /\ HeldInv /\ LeftInv

\* The parts of the type invariant are all of it.
LEMMA ProbeTypeParts == Probes!TypeOK <=> TypeServer /\ TypeConns /\ TypeClients
  BY DEF Probes!TypeOK, TypeServer, TypeConns, TypeClients, States

\* There are two addresses, and no connection is 0, which stands for none.
LEMMA ConstantFacts == /\ Probes!Server = {1, 2} /\ Probes!None \notin Probes!Conns
                       /\ IsFiniteSet(Probes!Conns)
                       /\ ServerFds \in Nat /\ ServerFds > 0
<1>1. IsFiniteSet(Probes!Conns)
  BY ProgramsAssumption, FS_Interval DEF Probes!ProbeAssumption, Probes!Conns
<1> QED BY <1>1, ProgramsAssumption DEF Probes!ProbeAssumption, Probes!Server, Probes!Conns, Probes!None

\* The connections left behind are finitely many.
LEMMA LeftIsFinite == IsFiniteSet(Left) /\ Cardinality(Left) \in Nat
<1>1. Left \subseteq Probes!Conns
  BY DEF Left
<1> QED BY <1>1, ConstantFacts, FS_Subset, FS_CardinalityType

\* A connection that the server gives back is not left behind any more, and one
\* whose client goes away is left behind then.
LEMMA LeftMoves ==
  ASSUME TypeConns, NEW k \in Probes!Conns, NEW v \in States, Probes!Becomes(k, v)
  PROVE  /\ Cardinality(Left') \in Nat
         /\ v \notin {"fin", "askedFin", "lost"} => Cardinality(Left') <= Cardinality(Left)
         /\ v \notin {"fin", "askedFin", "lost"} /\ k \in Left
               => Cardinality(Left') = Cardinality(Left) - 1
         /\ Cardinality(Left') <= Cardinality(Left) + 1
<1>1. \A l \in Probes!Conns : conn'[l] = IF l = k THEN v ELSE conn[l]
  BY DEF Probes!Becomes, TypeConns
<1>2. IsFiniteSet(Left) /\ Cardinality(Left) \in Nat
  BY LeftIsFinite
<1>3. CASE v \notin {"fin", "askedFin", "lost"}
  <2>1. Left' = Left \ {k}
    BY <1>1, <1>3 DEF Left
  <2>2. Cardinality(Left \ {k}) = IF k \in Left THEN Cardinality(Left) - 1 ELSE Cardinality(Left)
    BY <1>2, FS_RemoveElement
  <2>3. Cardinality(Left') \in Nat
    BY <2>1, <1>2, FS_RemoveElement, FS_CardinalityType
  <2> QED BY <2>1, <2>2, <2>3, <1>2, <1>3
<1>4. CASE v \in {"fin", "askedFin", "lost"}
  <2>1. Left' = Left \cup {k}
    BY <1>1, <1>4 DEF Left
  <2>2. Cardinality(Left \cup {k}) = IF k \in Left THEN Cardinality(Left) ELSE Cardinality(Left) + 1
    BY <1>2, FS_AddElement
  <2>3. Cardinality(Left') \in Nat
    BY <2>1, <1>2, FS_AddElement, FS_CardinalityType
  <2> QED BY <2>1, <2>2, <2>3, <1>2, <1>4
<1> QED BY <1>3, <1>4

\* What changes a connection that no client has, or answers a client that waits,
\* keeps what is known of the clients.
LEMMA ClientsKept ==
  ASSUME ProbeInv, UNCHANGED Probes!clientVars, NEW k \in Probes!Conns, NEW v \in States, Probes!Becomes(k, v),
         \A c \in Clients : iSocketId[c] = k => epc[c] = "read" /\ v = "answered",
         v \in AtClient => conn[k] \in AtClient
  PROVE  TypeClients' /\ ClientInv' /\ HeldInv'
<1>1. \A l \in Probes!Conns : conn'[l] = IF l = k THEN v ELSE conn[l]
  BY DEF Probes!Becomes, ProbeInv, TypeConns
<1>2. epc' = epc /\ addr' = addr /\ iSocketId' = iSocketId
  BY DEF Probes!clientVars
<1>3. TypeClients'
  BY <1>2 DEF ProbeInv, TypeClients
<1>4. \A c \in Clients : iSocketId[c] # Probes!None => iSocketId[c] \in Probes!Conns
  BY DEF ProbeInv, TypeClients
<1>5. HeldInv'
  BY <1>1, <1>2 DEF ProbeInv, HeldInv
<1>6. ClientInv'
  BY <1>1, <1>2, <1>4 DEF ProbeInv, ClientInv
<1> QED BY <1>3, <1>5, <1>6

\* What leaves the clients and the connections alone keeps what is known of them.
LEMMA ClientsUnmoved ==
  ASSUME ProbeInv, UNCHANGED Probes!clientVars, conn' = conn
  PROVE  TypeClients' /\ ClientInv' /\ HeldInv'
  BY DEF Probes!clientVars, ProbeInv, TypeClients, ClientInv, HeldInv

\* What changes no connection that is to be accepted keeps them apart.
LEMMA BacklogKept ==
  ASSUME ProbeInv, backlog' = backlog, iNewSocketId' \in {iNewSocketId, Probes!None},
         NEW k \in Probes!Conns, NEW v \in States, Probes!Becomes(k, v),
         \/ v \in AtServer
         \/ \A s \in Probes!Server : \A m \in 1 .. Len(backlog[s]) : backlog[s][m] # k
  PROVE  BacklogInv'
<1>1. \A l \in Probes!Conns : conn'[l] = IF l = k THEN v ELSE conn[l]
  BY DEF Probes!Becomes, ProbeInv, TypeConns
<1>2. \A s \in Probes!Server : \A m \in 1 .. Len(backlog[s]) : backlog[s][m] \in Probes!Conns /\ backlog[s][m] # Probes!None
  <2>1. SUFFICES ASSUME NEW s \in Probes!Server PROVE \A m \in 1 .. Len(backlog[s]) : backlog[s][m] \in Probes!Conns /\ backlog[s][m] # Probes!None
    OBVIOUS
  <2>2. backlog[s] \in Seq(Probes!Conns)
    BY DEF ProbeInv, TypeConns
  <2> QED BY <2>2, ConstantFacts
<1>3. \A s \in Probes!Server : \A m \in 1 .. Len(backlog[s]) :
         conn'[backlog[s][m]] \in AtServer /\ backlog[s][m] # iNewSocketId'
  BY <1>1, <1>2 DEF ProbeInv, BacklogInv
<1> QED BY <1>3 DEF ProbeInv, BacklogInv

\* The for loop over the two addresses: the next one, or select again.
LEMMA ContinueFacts ==
  ASSUME ProbeInv, Probes!Continue, backlog' = backlog, spc \in {"loop", "read", "write"}
  PROVE  /\ spc' \in {"select", "loop"} /\ si' \in Probes!Server /\ rfds' = rfds /\ listening' = listening
         /\ ReportedInv'
<1>1. si \in {1, 2} /\ rfds \subseteq {1, 2}
  BY ConstantFacts DEF ProbeInv, TypeServer
<1>2. spc' \in {"select", "loop"} /\ si' \in Probes!Server /\ rfds' = rfds /\ listening' = listening
  BY <1>1, ConstantFacts DEF Probes!Continue
<1>3. spc' = "loop" => si = 1 /\ si' = 2
  BY <1>1 DEF Probes!Continue
<1>4. ASSUME si = 1, NEW s \in rfds, s >= 2 PROVE backlog[s] # <<>>
  <2>1. s >= si /\ s > si
    BY <1>1, <1>4
  <2> QED BY <1>4, <2>1 DEF ProbeInv, ReportedInv
<1> QED BY <1>2, <1>3, <1>4 DEF ReportedInv

\* Steps of ExecServer that neither accept nor give back a connection.
LEMMA LoopKeepsInv ==
  ASSUME ProbeInv, Probes!ServerStarts \/ Probes!Listen \/ Probes!Select \/ Probes!Skip \/ Probes!Read PROVE ProbeInv'
<1>1. /\ conn' = conn /\ backlog' = backlog /\ sfds' = sfds /\ early' = early
      /\ iNewSocketId' = iNewSocketId /\ UNCHANGED Probes!clientVars
  BY DEF Probes!ServerStarts, Probes!Listen, Probes!Select, Probes!Skip, Probes!Read, Probes!Continue, Probes!clientVars
<1>2. TypeClients' /\ ClientInv' /\ HeldInv'
  BY <1>1, ClientsUnmoved
<1>3. TypeConns' /\ BacklogInv'
  BY <1>1 DEF ProbeInv, TypeConns, BacklogInv
<1>4. LeftInv'
  BY <1>1 DEF ProbeInv, LeftInv, Left
<1>5. TypeServer' /\ ServingInv' /\ ReportedInv'
  <2>1. si \in {1, 2} /\ Probes!Server = {1, 2}
    BY ConstantFacts DEF ProbeInv, TypeServer
  <2>2. CASE Probes!ServerStarts
    BY <2>2 DEF Probes!ServerStarts, ProbeInv, TypeServer, ServingInv, ReportedInv
  <2>3. CASE Probes!Listen
    <3>1. spc = "listen" /\ spc' \in {"select", "listen"} /\ si' \in Probes!Server /\ listening' \subseteq Probes!Server /\ rfds' = rfds
      BY <2>1, <2>3 DEF Probes!Listen, ProbeInv, TypeServer
    <3> QED BY <3>1, <1>1 DEF ProbeInv, TypeServer, ServingInv, ReportedInv
  <2>4. CASE Probes!Select
    <3>1. /\ spc = "select" /\ spc' = "loop" /\ si' \in Probes!Server /\ rfds' \subseteq Probes!Server
          /\ listening' = listening
          /\ \A s \in rfds' : backlog[s] # <<>>
      BY <2>1, <2>4 DEF Probes!Select
    <3> QED BY <3>1, <1>1 DEF ProbeInv, TypeServer, ServingInv, ReportedInv
  <2>5. CASE Probes!Skip
    <3>1. spc = "loop" /\ Probes!Continue
      BY <2>5 DEF Probes!Skip
    <3>2. /\ spc' \in {"select", "loop"} /\ si' \in Probes!Server /\ rfds' = rfds /\ listening' = listening
          /\ ReportedInv'
      BY <3>1, <1>1, ContinueFacts
    <3> QED BY <3>1, <3>2, <1>1 DEF ProbeInv, TypeServer, ServingInv
  <2>6. CASE Probes!Read
    <3>1. /\ spc = "read" /\ spc' = "write" /\ si' = si /\ rfds' = rfds /\ listening' = listening
          /\ conn[iNewSocketId] \in {"asked", "askedFin"}
      BY <2>6 DEF Probes!Read
    <3> QED BY <3>1, <1>1 DEF ProbeInv, TypeServer, ServingInv, ReportedInv
  <2> QED BY <2>2, <2>3, <2>4, <2>5, <2>6
<1> QED BY <1>2, <1>3, <1>4, <1>5 DEF ProbeInv

\* accept takes the oldest connection of the address.
LEMMA AcceptKeepsInv == ASSUME ProbeInv, Probes!Accept PROVE ProbeInv'
<1> DEFINE q == backlog[si]
<1>1. /\ spc = "loop" /\ si \in rfds /\ sfds < ServerFds
      /\ iNewSocketId' = Head(q)
      /\ backlog' = [backlog EXCEPT ![si] = Tail(q)]
      /\ spc' = "read"
      /\ UNCHANGED <<si, rfds, sfds, listening, conn, Probes!clientVars, early>>
  BY DEF Probes!Accept
<1>2. si \in Probes!Server /\ si \in {1, 2} /\ rfds \subseteq {1, 2}
  BY ConstantFacts DEF ProbeInv, TypeServer
<1>3. q \in Seq(Probes!Conns) /\ q # <<>>
  <2>1. si >= si
    BY <1>2
  <2> QED BY <1>1, <1>2, <2>1 DEF ProbeInv, TypeConns, ReportedInv
<1> HIDE DEF q
<1>4. /\ Len(q) \in Nat /\ Len(q) >= 1 /\ Head(q) = q[1] /\ q[1] \in Probes!Conns
      /\ Tail(q) \in Seq(Probes!Conns) /\ Len(Tail(q)) = Len(q) - 1
      /\ \A m \in 1 .. Len(Tail(q)) : Tail(q)[m] = q[m + 1] /\ m + 1 \in 1 .. Len(q) /\ m + 1 # 1
  BY <1>3
<1>5. backlog' \in [Probes!Server -> Seq(Probes!Conns)] /\ backlog'[si] = Tail(q)
      /\ \A s \in Probes!Server : s # si => backlog'[s] = backlog[s]
  BY <1>1, <1>2, <1>4 DEF ProbeInv, TypeConns
<1>6. ASSUME NEW s \in Probes!Server, NEW m \in 1 .. Len(backlog'[s])
      PROVE  \E n \in 1 .. Len(backlog[s]) :
                /\ backlog'[s][m] = backlog[s][n]
                /\ n = IF s = si THEN m + 1 ELSE m
  <2>1. CASE s = si
    BY <2>1, <1>4, <1>5 DEF q
  <2>2. CASE s # si
    BY <2>2, <1>5
  <2> QED BY <2>1, <2>2
<1>7. BacklogInv'
  <2>1. ASSUME NEW s \in Probes!Server, NEW m \in 1 .. Len(backlog'[s])
        PROVE  conn'[backlog'[s][m]] \in AtServer /\ backlog'[s][m] # iNewSocketId'
    <3>1. PICK n \in 1 .. Len(backlog[s]) : /\ backlog'[s][m] = backlog[s][n]
                                            /\ n = IF s = si THEN m + 1 ELSE m
      BY <1>6
    <3>2. s = si => n # 1
      BY <3>1, <2>1
    <3>3. 1 \in 1 .. Len(backlog[si]) /\ iNewSocketId' = backlog[si][1]
      BY <1>1, <1>4 DEF q
    <3>4. backlog[s][n] # backlog[si][1]
      BY <3>2, <3>3, <1>2 DEF ProbeInv, BacklogInv
    <3> QED BY <3>1, <3>3, <3>4, <1>1 DEF ProbeInv, BacklogInv
  <2>2. ASSUME NEW s \in Probes!Server, NEW m \in 1 .. Len(backlog'[s]),
               NEW t \in Probes!Server, NEW n \in 1 .. Len(backlog'[t]),
               backlog'[s][m] = backlog'[t][n]
        PROVE  s = t /\ m = n
    <3>1. PICK a \in 1 .. Len(backlog[s]) : /\ backlog'[s][m] = backlog[s][a]
                                            /\ a = IF s = si THEN m + 1 ELSE m
      BY <1>6
    <3>2. PICK b \in 1 .. Len(backlog[t]) : /\ backlog'[t][n] = backlog[t][b]
                                            /\ b = IF t = si THEN n + 1 ELSE n
      BY <1>6
    <3>3. s = t /\ a = b
      <4>1. backlog[s][a] = backlog[t][b]
        BY <2>2, <3>1, <3>2
      <4> QED BY <4>1 DEF ProbeInv, BacklogInv
    <3> QED BY <3>1, <3>2, <3>3
  <2> QED BY <2>1, <2>2 DEF BacklogInv
<1>8. TypeClients' /\ ClientInv' /\ HeldInv'
  BY <1>1, ClientsUnmoved
<1>9. TypeConns' /\ TypeServer'
  BY <1>1, <1>4, <1>5 DEF ProbeInv, TypeConns, TypeServer
<1>10. ServingInv'
  <2>1. Head(q) # Probes!None /\ conn[Head(q)] \in AtServer
    <3>1. 1 \in 1 .. Len(q)
      BY <1>4
    <3> QED BY <3>1, <1>2, <1>4, ConstantFacts DEF ProbeInv, BacklogInv, q
  <2> QED BY <2>1, <1>1 DEF ServingInv
<1>11. ReportedInv'
  <2>1. \A s \in rfds : s > si => s \in Probes!Server /\ s # si /\ backlog[s] # <<>>
    BY <1>1, <1>2, ConstantFacts DEF ProbeInv, ReportedInv
  <2> QED BY <2>1, <1>1, <1>5 DEF ReportedInv
<1>12. LeftInv'
  BY <1>1 DEF ProbeInv, LeftInv, Left
<1> QED BY <1>7, <1>8, <1>9, <1>10, <1>11, <1>12 DEF ProbeInv

\* The server gives a connection up, answered or not: it counts as lost only if
\* the client of it has gone.
LEMMA ServedKeepsInv ==
  ASSUME ProbeInv, Probes!ReadFails \/ Probes!WriteFails \/ Probes!Answer PROVE ProbeInv'
<1> DEFINE k == iNewSocketId
           v == IF Probes!Answer /\ conn[k] = "asked" THEN "answered" ELSE "free"
<1>1. k \in Probes!Conns /\ k # Probes!None /\ spc \in {"read", "write"} /\ sfds < ServerFds /\ sfds \in Nat
  BY ConstantFacts DEF Probes!ReadFails, Probes!WriteFails, Probes!Answer, ProbeInv, TypeServer, ServingInv
<1>2. /\ Probes!Becomes(k, v) /\ iNewSocketId' = Probes!None /\ backlog' = backlog /\ Probes!Continue
      /\ v \in States /\ v \notin AtServer /\ v \notin {"fin", "askedFin", "lost"}
  <2>1. CASE Probes!ReadFails \/ Probes!WriteFails
    <3>1. ~Probes!Answer \/ conn[k] # "asked"
      BY <2>1 DEF Probes!ReadFails, Probes!WriteFails, Probes!Answer
    <3> QED BY <2>1, <3>1 DEF Probes!ReadFails, Probes!WriteFails, Probes!Leak, States, AtServer
  <2>2. CASE Probes!Answer
    BY <2>2 DEF Probes!Answer, States, AtServer
  <2> QED BY <2>1, <2>2
<1>3. \/ /\ conn[k] = "asked" /\ v = "answered" /\ sfds' = sfds
      \/ /\ conn[k] \in {"fin", "askedFin"} /\ v = "free" /\ sfds' \in {sfds, sfds + 1}
  <2>1. CASE Probes!ReadFails \/ Probes!WriteFails
    BY <2>1 DEF Probes!ReadFails, Probes!WriteFails, Probes!Leak, Probes!Answer
  <2>2. CASE Probes!Answer
    BY <2>2 DEF Probes!Answer, ProbeInv, ServingInv
  <2> QED BY <2>1, <2>2
<1> HIDE DEF k, v
<1>4. UNCHANGED Probes!clientVars /\ early' = early
  BY <1>2 DEF Probes!Continue
<1>5. TypeClients' /\ ClientInv' /\ HeldInv'
  <2>1. \A c \in Clients : iSocketId[c] = k => epc[c] = "read" /\ v = "answered"
    BY <1>1, <1>3 DEF ProbeInv, ClientInv, TypeClients
  <2>2. v \in AtClient => conn[k] \in AtClient
    BY <1>3 DEF AtClient
  <2> QED BY <2>1, <2>2, <1>1, <1>2, <1>4, ClientsKept
<1>6. BacklogInv'
  <2>1. \A s \in Probes!Server : \A m \in 1 .. Len(backlog[s]) : backlog[s][m] # k
    BY DEF ProbeInv, BacklogInv, k
  <2> QED BY <2>1, <1>1, <1>2, BacklogKept
<1>7. /\ spc' \in {"select", "loop"} /\ si' \in Probes!Server /\ rfds' = rfds /\ listening' = listening
      /\ ReportedInv'
  BY <1>1, <1>2, ContinueFacts
<1>8. sfds' \in 0 .. ServerFds
  BY <1>1, <1>3, ConstantFacts
<1>9. TypeServer' /\ ServingInv'
  BY <1>2, <1>7, <1>8 DEF ProbeInv, TypeServer, ServingInv
<1>10. TypeConns'
  BY <1>1, <1>2, <1>4 DEF ProbeInv, TypeConns, Probes!Becomes
<1>11. LeftInv'
  <2>1. SUFFICES ASSUME early < ServerFds PROVE Cardinality(Left') + sfds' <= early
    BY <1>4 DEF LeftInv
  <2>2. /\ Cardinality(Left) + sfds <= early /\ Cardinality(Left) \in Nat /\ early \in Nat
        /\ TypeConns
    BY <2>1, LeftIsFinite DEF ProbeInv, LeftInv, TypeConns
  <2>3. Cardinality(Left') \in Nat /\ Cardinality(Left') <= Cardinality(Left)
        /\ (k \in Left => Cardinality(Left') = Cardinality(Left) - 1)
    BY <2>2, <1>1, <1>2, LeftMoves
  <2>4. conn[k] \in {"fin", "askedFin"} => k \in Left
    BY <1>1 DEF Left
  <2> QED BY <2>2, <2>3, <2>4, <1>1, <1>3
<1> QED BY <1>5, <1>6, <1>7, <1>9, <1>10, <1>11 DEF ProbeInv

\* The server is gone: nothing waits for it, and no descriptor is lost any more.
LEMMA ServerDownKeepsInv ==
  ASSUME ProbeInv, NEW as \in {"reset", "dead"}, Probes!ServerDown(as) PROVE ProbeInv'
<1>1. /\ spc' = "down" /\ si' = 1 /\ rfds' = {} /\ iNewSocketId' = Probes!None
      /\ sfds' = 0 /\ listening' = {} /\ early' = 0
      /\ backlog' = [s \in Probes!Server |-> <<>>]
      /\ epc' = epc /\ addr' = addr /\ iSocketId' = iSocketId
  BY DEF Probes!ServerDown, Probes!clientVars
<1>2. \A k \in Probes!Conns : /\ conn'[k] \in States
                              /\ conn[k] \in {"open", "asked"} => conn'[k] = as
                              /\ conn[k] \in {"answered", "reset", "dead"} => conn'[k] = conn[k]
                              /\ conn'[k] \in AtClient => conn[k] \in AtClient
                              /\ conn'[k] \notin {"fin", "askedFin", "lost"}
  BY DEF Probes!ServerDown, ProbeInv, TypeConns, States, AtClient
<1>3. TypeServer' /\ ServingInv' /\ ReportedInv'
  <2>1. 0 \in 0 .. ServerFds /\ 1 \in Probes!Server
    BY ConstantFacts
  <2> QED BY <1>1, <2>1 DEF TypeServer, ServingInv, ReportedInv
<1>4. TypeConns' /\ BacklogInv'
  <2>1. 0 \in 0 .. ServerFds
    BY ConstantFacts
  <2>2. conn' \in [Probes!Conns -> States]
    BY <1>2 DEF Probes!ServerDown
  <2>3. backlog' \in [Probes!Server -> Seq(Probes!Conns)] /\ \A s \in Probes!Server : 1 .. Len(backlog'[s]) = {}
    BY <1>1
  <2> QED BY <1>1, <2>1, <2>2, <2>3 DEF TypeConns, BacklogInv
<1>5. TypeClients'
  BY <1>1 DEF ProbeInv, TypeClients
<1>6. ClientInv'
  <2>1. \A c \in Clients : iSocketId[c] # Probes!None => iSocketId[c] \in Probes!Conns
    BY DEF ProbeInv, TypeClients
  <2> QED BY <2>1, <1>1, <1>2 DEF ProbeInv, ClientInv
<1>7. HeldInv'
  BY <1>1, <1>2 DEF ProbeInv, HeldInv
<1>8. LeftInv'
  <2>1. Left' = {}
    BY <1>2 DEF Left
  <2>2. Cardinality({}) = 0
    BY FS_EmptySet
  <2> QED BY <1>1, <2>1, <2>2 DEF LeftInv
<1> QED BY <1>3, <1>4, <1>5, <1>6, <1>7, <1>8 DEF ProbeInv

\* connect makes a connection that nobody had and that waits to be accepted.
LEMMA ConnectKeepsInv ==
  ASSUME ProbeInv, NEW c \in Clients, Probes!Connect(c) PROVE ProbeInv'
<1> DEFINE a == addr[c]
           q == backlog[a]
<1>1. PICK k \in Probes!Conns : /\ conn[k] = "free" /\ Probes!Becomes(k, "open")
                                /\ iSocketId' = [iSocketId EXCEPT ![c] = k]
                                /\ backlog' = [backlog EXCEPT ![a] = Append(q, k)]
  BY DEF Probes!Connect
<1>2. /\ epc[c] = "connect" /\ epc' = [epc EXCEPT ![c] = "write"]
      /\ UNCHANGED <<Probes!serverVars, addr, early>>
  BY DEF Probes!Connect, Probes!Goto
<1>3. a \in Probes!Server /\ q \in Seq(Probes!Conns)
  BY DEF ProbeInv, TypeClients, TypeConns
<1> HIDE DEF q, a
<1>4. /\ Append(q, k) \in Seq(Probes!Conns) /\ Len(Append(q, k)) = Len(q) + 1 /\ Len(q) \in Nat
      /\ Append(q, k)[Len(q) + 1] = k
      /\ \A m \in 1 .. Len(q) : Append(q, k)[m] = q[m] /\ q[m] \in Probes!Conns
  BY <1>3
<1>5. /\ backlog' \in [Probes!Server -> Seq(Probes!Conns)] /\ backlog'[a] = Append(q, k)
      /\ \A s \in Probes!Server : s # a => backlog'[s] = backlog[s]
  BY <1>1, <1>3, <1>4 DEF ProbeInv, TypeConns
<1>6. \A l \in Probes!Conns : conn'[l] = IF l = k THEN "open" ELSE conn[l]
  BY <1>1 DEF Probes!Becomes, ProbeInv, TypeConns
<1>7. TypeConns'
  BY <1>1, <1>2, <1>5 DEF ProbeInv, TypeConns, Probes!Becomes, States
<1>8. TypeServer'
  BY <1>2 DEF Probes!serverVars, ProbeInv, TypeServer
<1>9. TypeClients'
  BY <1>1, <1>2 DEF ProbeInv, TypeClients
<1>10. /\ spc' = spc /\ si' = si /\ rfds' = rfds /\ iNewSocketId' = iNewSocketId /\ sfds' = sfds
  BY <1>2 DEF Probes!serverVars
<1>11. ServingInv'
  <2>1. iNewSocketId # Probes!None => iNewSocketId \in Probes!Conns
    BY DEF ProbeInv, TypeServer
  <2>2. iNewSocketId # Probes!None => conn'[iNewSocketId] = conn[iNewSocketId]
    BY <2>1, <1>1, <1>6 DEF ProbeInv, ServingInv, AtServer
  <2> QED BY <2>2, <1>10 DEF ProbeInv, ServingInv
<1>12. \A s \in Probes!Server : backlog[s] # <<>> => backlog'[s] # <<>>
  <2>1. Len(Append(q, k)) # 0 /\ Len(<<>>) = 0
    BY <1>4
  <2> QED BY <2>1, <1>5
<1>13. ReportedInv'
  <2>1. rfds \subseteq Probes!Server
    BY DEF ProbeInv, TypeServer
  <2> QED BY <2>1, <1>10, <1>12 DEF ProbeInv, ReportedInv
<1>14. ASSUME NEW s \in Probes!Server, NEW m \in 1 .. Len(backlog'[s])
       PROVE  \/ s = a /\ m = Len(q) + 1 /\ backlog'[s][m] = k
              \/ /\ m \in 1 .. Len(backlog[s]) /\ backlog'[s][m] = backlog[s][m]
                 /\ backlog[s][m] \in Probes!Conns /\ backlog[s][m] # k
                 /\ conn[backlog[s][m]] \in AtServer
  <2>1. CASE s = a /\ m = Len(q) + 1
    BY <2>1, <1>4, <1>5
  <2>2. CASE ~(s = a /\ m = Len(q) + 1)
    <3>1. m \in 1 .. Len(backlog[s]) /\ backlog'[s][m] = backlog[s][m]
      <4>1. CASE s = a
        BY <4>1, <2>2, <1>4, <1>5 DEF q
      <4>2. CASE s # a
        BY <4>2, <1>5
      <4> QED BY <4>1, <4>2
    <3>2. backlog[s] \in Seq(Probes!Conns)
      BY DEF ProbeInv, TypeConns
    <3>3. backlog[s][m] \in Probes!Conns
      BY <3>1, <3>2
    <3>4. conn[backlog[s][m]] \in AtServer
      BY <3>1 DEF ProbeInv, BacklogInv
    <3>5. backlog[s][m] # k
      BY <3>4, <1>1 DEF AtServer
    <3> QED BY <3>1, <3>3, <3>4, <3>5
  <2> QED BY <2>1, <2>2
<1>15. BacklogInv'
  <2>1. ASSUME NEW s \in Probes!Server, NEW m \in 1 .. Len(backlog'[s])
        PROVE  conn'[backlog'[s][m]] \in AtServer /\ backlog'[s][m] # iNewSocketId'
    <3>1. CASE s = a /\ m = Len(q) + 1 /\ backlog'[s][m] = k
      <4>1. conn'[k] \in AtServer
        BY <1>6 DEF AtServer
      <4>2. k # iNewSocketId
        BY <1>1, ConstantFacts DEF ProbeInv, ServingInv, TypeServer, AtServer
      <4> QED BY <3>1, <4>1, <4>2, <1>10
    <3>2. CASE /\ m \in 1 .. Len(backlog[s]) /\ backlog'[s][m] = backlog[s][m]
               /\ backlog[s][m] \in Probes!Conns /\ backlog[s][m] # k
               /\ conn[backlog[s][m]] \in AtServer
      <4>1. backlog[s][m] # iNewSocketId
        BY <3>2 DEF ProbeInv, BacklogInv
      <4> QED BY <3>2, <4>1, <1>6, <1>10
    <3> QED BY <3>1, <3>2, <1>14
  <2>2. ASSUME NEW s \in Probes!Server, NEW m \in 1 .. Len(backlog'[s]),
               NEW t \in Probes!Server, NEW n \in 1 .. Len(backlog'[t]),
               backlog'[s][m] = backlog'[t][n]
        PROVE  s = t /\ m = n
    <3>1. CASE backlog'[s][m] = k
      <4>1. s = a /\ m = Len(q) + 1
        BY <3>1, <1>14
      <4>2. t = a /\ n = Len(q) + 1
        BY <3>1, <2>2, <1>14
      <4> QED BY <4>1, <4>2
    <3>2. CASE backlog'[s][m] # k
      <4>1. m \in 1 .. Len(backlog[s]) /\ backlog'[s][m] = backlog[s][m]
        BY <3>2, <1>14
      <4>2. n \in 1 .. Len(backlog[t]) /\ backlog'[t][n] = backlog[t][n]
        BY <3>2, <2>2, <1>14
      <4>3. backlog[s][m] = backlog[t][n]
        BY <4>1, <4>2, <2>2
      <4> QED BY <4>1, <4>2, <4>3 DEF ProbeInv, BacklogInv
    <3> QED BY <3>1, <3>2
  <2> QED BY <2>1, <2>2 DEF BacklogInv
<1>16. /\ iSocketId'[c] = k /\ epc'[c] = "write" /\ k # Probes!None
       /\ \A d \in Clients : d # c => iSocketId'[d] = iSocketId[d] /\ epc'[d] = epc[d]
       /\ \A d \in Clients : iSocketId[d] # k
       /\ \A d \in Clients : iSocketId[d] # Probes!None => iSocketId[d] \in Probes!Conns
  <2>1. \A d \in Clients : iSocketId[d] # k
    BY <1>1, ConstantFacts DEF ProbeInv, TypeClients, ClientInv
  <2> QED BY <2>1, <1>1, <1>2, ConstantFacts DEF ProbeInv, TypeClients
<1>17. ClientInv'
  <2>1. \A d \in Clients : d # c /\ iSocketId[d] # Probes!None => conn'[iSocketId'[d]] = conn[iSocketId[d]]
    BY <1>6, <1>16
  <2>2. conn'[iSocketId'[c]] = "open"
    BY <1>6, <1>16
  <2>3. ASSUME NEW d \in Clients
        PROVE  /\ epc'[d] \in {"write", "read"} <=> iSocketId'[d] # Probes!None
               /\ epc'[d] = "write" => conn'[iSocketId'[d]] \in {"open", "reset", "dead"}
               /\ epc'[d] = "read" => conn'[iSocketId'[d]] \in {"asked", "answered", "reset", "dead"}
    <3>1. CASE d = c
      BY <3>1, <2>2, <1>16
    <3>2. CASE d # c
      BY <3>2, <2>1, <1>16 DEF ProbeInv, ClientInv
    <3> QED BY <3>1, <3>2
  <2>4. \A d, e \in Clients : iSocketId'[d] = iSocketId'[e] /\ iSocketId'[d] # Probes!None => d = e
    BY <1>16 DEF ProbeInv, ClientInv
  <2> QED BY <2>3, <2>4 DEF ClientInv
<1>18. HeldInv'
  <2>1. SUFFICES ASSUME NEW l \in Probes!Conns, conn'[l] \in AtClient
                 PROVE  \E d \in Clients : iSocketId'[d] = l
    BY DEF HeldInv
  <2>2. CASE l = k
    BY <2>2, <1>16
  <2>3. CASE l # k
    <3>1. PICK d \in Clients : iSocketId[d] = l
      BY <2>1, <2>3, <1>6 DEF ProbeInv, HeldInv
    <3>2. iSocketId[c] = Probes!None
      BY <1>2 DEF ProbeInv, ClientInv
    <3>3. d # c
      BY <3>1, <3>2, ConstantFacts
    <3> QED BY <3>1, <3>3, <1>16
  <2> QED BY <2>2, <2>3
<1>19. LeftInv'
  <2>1. SUFFICES ASSUME early < ServerFds PROVE Cardinality(Left') + sfds <= early
    BY <1>2, <1>10 DEF LeftInv
  <2>2. /\ Cardinality(Left) + sfds <= early /\ Cardinality(Left) \in Nat /\ early \in Nat /\ sfds \in Nat
        /\ TypeConns
    BY <2>1, LeftIsFinite DEF ProbeInv, LeftInv, TypeConns, TypeServer
  <2>3. Cardinality(Left') \in Nat /\ Cardinality(Left') <= Cardinality(Left)
    BY <2>2, <1>1, LeftMoves DEF States
  <2> QED BY <2>2, <2>3
<1> QED BY <1>7, <1>8, <1>9, <1>11, <1>13, <1>15, <1>17, <1>18, <1>19 DEF ProbeInv

\* A client that has no connection stays without one.
LEMMA NoConnectionKeepsInv ==
  ASSUME ProbeInv, NEW c \in Clients, NEW p \in {"off", "connect"}, NEW a \in Probes!Server,
         iSocketId[c] = Probes!None,
         epc' = [epc EXCEPT ![c] = p], addr' = [addr EXCEPT ![c] = a],
         UNCHANGED <<Probes!serverVars, backlog, conn, iSocketId, early>>
  PROVE  ProbeInv'
<1>1. TypeClients'
  BY DEF ProbeInv, TypeClients
<1>2. /\ epc'[c] = p /\ epc[c] \notin {"write", "read"}
      /\ \A d \in Clients : d # c => epc'[d] = epc[d]
  BY DEF ProbeInv, TypeClients, ClientInv
<1>3. ClientInv'
  BY <1>2 DEF ProbeInv, ClientInv
<1>4. TypeServer' /\ TypeConns' /\ ServingInv' /\ ReportedInv' /\ LeftInv'
  BY DEF Probes!serverVars, ProbeInv, TypeServer, TypeConns, ServingInv, ReportedInv, LeftInv, Left
<1>5. BacklogInv' /\ HeldInv'
  BY DEF Probes!serverVars, ProbeInv, BacklogInv, HeldInv
<1> QED BY <1>1, <1>3, <1>4, <1>5 DEF ProbeInv

\* What a client that ends ExecClient or its process leaves to the others.
LEMMA ClientEnds ==
  ASSUME ProbeInv, NEW c \in Clients, NEW p \in {"off", "connect"}, iSocketId[c] # Probes!None,
         epc' = [epc EXCEPT ![c] = p], iSocketId' = [iSocketId EXCEPT ![c] = Probes!None],
         NEW v \in {"free", "fin", "lost", "askedFin"}, Probes!Becomes(iSocketId[c], v)
  PROVE  ClientInv' /\ HeldInv'
<1> DEFINE k == iSocketId[c]
<1>1. k \in Probes!Conns /\ \A d \in Clients : iSocketId[d] # Probes!None => iSocketId[d] \in Probes!Conns
  BY DEF ProbeInv, TypeClients
<1>2. \A l \in Probes!Conns : conn'[l] = IF l = k THEN v ELSE conn[l]
  BY <1>1 DEF Probes!Becomes, ProbeInv, TypeConns
<1>3. /\ epc'[c] = p /\ iSocketId'[c] = Probes!None
      /\ \A d \in Clients : d # c => /\ epc'[d] = epc[d] /\ iSocketId'[d] = iSocketId[d]
                                     /\ iSocketId[d] # k
  BY DEF ProbeInv, TypeClients, ClientInv
<1> HIDE DEF k
<1>4. \A d \in Clients : d # c /\ iSocketId[d] # Probes!None => conn'[iSocketId'[d]] = conn[iSocketId[d]]
  BY <1>1, <1>2, <1>3
<1>5. ClientInv'
  <2>1. ASSUME NEW d \in Clients
        PROVE  /\ epc'[d] \in {"write", "read"} <=> iSocketId'[d] # Probes!None
               /\ epc'[d] = "write" => conn'[iSocketId'[d]] \in {"open", "reset", "dead"}
               /\ epc'[d] = "read" => conn'[iSocketId'[d]] \in {"asked", "answered", "reset", "dead"}
    <3>1. CASE d = c
      BY <3>1, <1>3
    <3>2. CASE d # c
      BY <3>2, <1>3, <1>4 DEF ProbeInv, ClientInv
    <3> QED BY <3>1, <3>2
  <2>2. \A d, e \in Clients : iSocketId'[d] = iSocketId'[e] /\ iSocketId'[d] # Probes!None => d = e
    BY <1>3 DEF ProbeInv, ClientInv
  <2> QED BY <2>1, <2>2 DEF ClientInv
<1>6. HeldInv'
  <2>1. SUFFICES ASSUME NEW l \in Probes!Conns, conn'[l] \in AtClient
                 PROVE  \E d \in Clients : iSocketId'[d] = l
    BY DEF HeldInv
  <2>2. l # k /\ conn[l] \in AtClient
    BY <2>1, <1>2 DEF AtClient
  <2>3. PICK d \in Clients : iSocketId[d] = l
    BY <2>2 DEF ProbeInv, HeldInv
  <2>4. d # c
    BY <2>2, <2>3 DEF k
  <2> QED BY <2>3, <2>4, <1>3
<1> QED BY <1>5, <1>6

\* What a client does to its connection while the server has it.
LEMMA ServerSideKept ==
  ASSUME ProbeInv, NEW k \in Probes!Conns, NEW v \in States, Probes!Becomes(k, v),
         UNCHANGED <<Probes!serverVars, backlog>>,
         \/ conn[k] \in {"open", "asked"} /\ v \in AtServer /\ (conn[k] = "asked" => v = "askedFin")
         \/ conn[k] \notin AtServer
  PROVE  TypeServer' /\ ServingInv' /\ ReportedInv' /\ BacklogInv'
<1>1. \A l \in Probes!Conns : conn'[l] = IF l = k THEN v ELSE conn[l]
  BY DEF Probes!Becomes, ProbeInv, TypeConns
<1>2. /\ spc' = spc /\ si' = si /\ rfds' = rfds /\ iNewSocketId' = iNewSocketId /\ sfds' = sfds
      /\ listening' = listening /\ backlog' = backlog
  BY DEF Probes!serverVars
<1>3. TypeServer' /\ ReportedInv'
  BY <1>2 DEF ProbeInv, TypeServer, ReportedInv
<1>4. BacklogInv'
  <2>1. CASE v \in AtServer
    BY <2>1, <1>2, BacklogKept
  <2>2. CASE conn[k] \notin AtServer
    <3>1. \A s \in Probes!Server : \A m \in 1 .. Len(backlog[s]) : backlog[s][m] # k
      BY <2>2 DEF ProbeInv, BacklogInv
    <3> QED BY <3>1, <1>2, BacklogKept
  <2> QED BY <2>1, <2>2
<1>5. ServingInv'
  <2>1. CASE iNewSocketId = Probes!None \/ iNewSocketId # k
    <3>1. iNewSocketId # Probes!None => conn'[iNewSocketId] = conn[iNewSocketId]
      BY <2>1, <1>1 DEF ProbeInv, TypeServer
    <3> QED BY <3>1, <1>2 DEF ProbeInv, ServingInv
  <2>2. CASE iNewSocketId = k /\ k # Probes!None
    <3>1. conn[k] \in AtServer
      BY <2>2 DEF ProbeInv, ServingInv, AtServer
    <3>2. /\ conn'[k] = v /\ v \in AtServer /\ (conn[k] = "asked" => v = "askedFin")
          /\ conn[k] \in {"open", "asked"}
      BY <3>1, <1>1
    <3> QED BY <2>2, <3>2, <1>2 DEF ProbeInv, ServingInv
  <2> QED BY <2>1, <2>2
<1> QED BY <1>3, <1>4, <1>5

\* A client asks.
LEMMA WriteKeepsInv == ASSUME ProbeInv, NEW c \in Clients, Probes!Write(c) PROVE ProbeInv'
<1> DEFINE k == iSocketId[c]
           v == IF conn[k] = "open" THEN "asked" ELSE "dead"
<1>1. /\ epc[c] = "write" /\ epc' = [epc EXCEPT ![c] = "read"] /\ Probes!Becomes(k, v)
      /\ UNCHANGED <<Probes!serverVars, backlog>> /\ addr' = addr /\ iSocketId' = iSocketId /\ early' = early
      /\ conn[k] # "reset"
  BY DEF Probes!Write, Probes!Goto
<1>2. /\ k \in Probes!Conns /\ conn[k] \in {"open", "dead"} /\ k # Probes!None
      /\ \A d \in Clients : iSocketId[d] # Probes!None => iSocketId[d] \in Probes!Conns
  BY <1>1 DEF ProbeInv, TypeClients, ClientInv
<1>3. /\ v \in States /\ v \in {"asked", "dead"} /\ v \notin {"fin", "askedFin", "lost"}
      /\ conn[k] = "open" => v = "asked"
  BY DEF States
<1> HIDE DEF k, v
<1>4. TypeServer' /\ ServingInv' /\ ReportedInv' /\ BacklogInv'
  <2>1. \/ conn[k] \in {"open", "asked"} /\ v \in AtServer /\ (conn[k] = "asked" => v = "askedFin")
        \/ conn[k] \notin AtServer
    BY <1>2, <1>3 DEF AtServer
  <2> QED BY <2>1, <1>1, <1>2, <1>3, ServerSideKept
<1>5. TypeConns' /\ TypeClients'
  BY <1>1, <1>2, <1>3 DEF ProbeInv, TypeConns, TypeClients, Probes!Becomes
<1>6. \A l \in Probes!Conns : conn'[l] = IF l = k THEN v ELSE conn[l]
  BY <1>1, <1>2 DEF Probes!Becomes, ProbeInv, TypeConns
<1>7. HeldInv'
  BY <1>1, <1>2, <1>6 DEF ProbeInv, HeldInv, AtClient
<1>8. ClientInv'
  <2>1. ASSUME NEW d \in Clients
        PROVE  /\ epc'[d] \in {"write", "read"} <=> iSocketId[d] # Probes!None
               /\ epc'[d] = "write" => conn'[iSocketId[d]] \in {"open", "reset", "dead"}
               /\ epc'[d] = "read" => conn'[iSocketId[d]] \in {"asked", "answered", "reset", "dead"}
    <3>1. CASE d = c
      <4>1. epc'[d] = "read" /\ iSocketId[d] = k
        BY <3>1, <1>1 DEF ProbeInv, TypeClients, k
      <4> QED BY <4>1, <1>2, <1>3, <1>6
    <3>2. CASE d # c
      <4>1. iSocketId[d] # k
        BY <3>2, <1>2 DEF ProbeInv, ClientInv, k
      <4>2. epc'[d] = epc[d] /\ (iSocketId[d] # Probes!None => conn'[iSocketId[d]] = conn[iSocketId[d]])
        BY <3>2, <4>1, <1>1, <1>2, <1>6 DEF ProbeInv, TypeClients
      <4> QED BY <4>2 DEF ProbeInv, ClientInv
    <3> QED BY <3>1, <3>2
  <2> QED BY <2>1, <1>1 DEF ProbeInv, ClientInv
<1>9. LeftInv'
  <2>1. SUFFICES ASSUME early < ServerFds PROVE Cardinality(Left') + sfds <= early
    BY <1>1 DEF LeftInv, Probes!serverVars
  <2>2. /\ Cardinality(Left) + sfds <= early /\ Cardinality(Left) \in Nat /\ early \in Nat /\ sfds \in Nat
        /\ TypeConns
    BY <2>1, LeftIsFinite DEF ProbeInv, LeftInv, TypeConns, TypeServer
  <2>3. Cardinality(Left') \in Nat /\ Cardinality(Left') <= Cardinality(Left)
    BY <2>2, <1>1, <1>2, <1>3, LeftMoves
  <2> QED BY <2>2, <2>3
<1> QED BY <1>4, <1>5, <1>7, <1>8, <1>9 DEF ProbeInv

\* A client has its answer, or is told that the connection is over.
LEMMA ReturnKeepsInv ==
  ASSUME ProbeInv, NEW c \in Clients, Probes!ReadReturns(c) \/ Probes!ReadTimesOut(c) PROVE ProbeInv'
<1> DEFINE k == iSocketId[c]
<1>1. /\ epc[c] \in {"write", "read"} /\ conn[k] \in {"answered", "reset", "dead"}
      /\ Probes!Becomes(k, "free") /\ Probes!Returns(c)
  BY DEF Probes!ReadReturns, Probes!ReadTimesOut
<1>2. k \in Probes!Conns /\ k # Probes!None
  BY <1>1 DEF ProbeInv, TypeClients, ClientInv
<1>3. /\ epc' = [epc EXCEPT ![c] = "connect"] /\ iSocketId' = [iSocketId EXCEPT ![c] = Probes!None]
      /\ addr' = [addr EXCEPT ![c] = 3 - @]
      /\ UNCHANGED <<Probes!serverVars, backlog>> /\ early' = early
  BY <1>1 DEF Probes!Returns, Probes!Goto
<1>4. ClientInv' /\ HeldInv'
  BY <1>1, <1>2, <1>3, ClientEnds
<1>5. TypeClients'
  <2>1. addr' \in [Clients -> Probes!Server]
    BY <1>3, ConstantFacts DEF ProbeInv, TypeClients
  <2> QED BY <2>1, <1>3 DEF ProbeInv, TypeClients
<1>6. TypeServer' /\ ServingInv' /\ ReportedInv' /\ BacklogInv'
  <2>1. conn[k] \notin AtServer /\ "free" \in States
    BY <1>1 DEF AtServer, States
  <2> QED BY <2>1, <1>1, <1>2, <1>3, ServerSideKept
<1>7. TypeConns'
  BY <1>1, <1>2, <1>3 DEF ProbeInv, TypeConns, Probes!Becomes, States
<1>8. LeftInv'
  <2>1. SUFFICES ASSUME early < ServerFds PROVE Cardinality(Left') + sfds <= early
    BY <1>3 DEF LeftInv, Probes!serverVars
  <2>2. /\ Cardinality(Left) + sfds <= early /\ Cardinality(Left) \in Nat /\ early \in Nat /\ sfds \in Nat
        /\ TypeConns
    BY <2>1, LeftIsFinite DEF ProbeInv, LeftInv, TypeConns, TypeServer
  <2>3. Cardinality(Left') \in Nat /\ Cardinality(Left') <= Cardinality(Left)
    BY <2>2, <1>1, <1>2, LeftMoves DEF States
  <2> QED BY <2>2, <2>3
<1> QED BY <1>4, <1>5, <1>6, <1>7, <1>8 DEF ProbeInv

\* A client goes away: the connection is left to the server if the server has it,
\* and is counted then.
LEMMA GoneKeepsInv ==
  ASSUME ProbeInv, NEW c \in Clients, NEW before \in {"fin", "lost"}, Probes!ClientGone(c, before),
         iSocketId[c] # Probes!None
  PROVE  ProbeInv'
<1> DEFINE k == iSocketId[c]
           v == IF conn[k] = "open" THEN before ELSE IF conn[k] = "asked" THEN "askedFin" ELSE "free"
<1>1. /\ epc' = [epc EXCEPT ![c] = "off"] /\ iSocketId' = [iSocketId EXCEPT ![c] = Probes!None]
      /\ Probes!Becomes(k, v) /\ UNCHANGED <<Probes!serverVars, backlog>> /\ addr' = addr
      /\ early' = IF conn[k] \in {"open", "asked"} /\ early < ServerFds THEN early + 1 ELSE early
  BY DEF Probes!ClientGone, Probes!Goto
<1>2. k \in Probes!Conns /\ k # Probes!None /\ conn[k] \in AtClient
  BY DEF ProbeInv, TypeClients, ClientInv, AtClient
<1>3. /\ v \in States /\ v \in {"free", "fin", "lost", "askedFin"}
      /\ v \in {"fin", "lost", "askedFin"} => conn[k] \in {"open", "asked"}
      /\ \/ conn[k] \in {"open", "asked"} /\ v \in AtServer /\ (conn[k] = "asked" => v = "askedFin")
         \/ conn[k] \notin AtServer
  BY <1>2 DEF States, AtServer, AtClient
<1>4. ClientInv' /\ HeldInv'
  <2>1. iSocketId[c] # Probes!None /\ "off" \in {"off", "connect"} /\ Probes!Becomes(iSocketId[c], v)
    BY <1>1
  <2> HIDE DEF v
  <2> QED BY <2>1, <1>1, <1>3, ClientEnds
<1> HIDE DEF k, v
<1>5. TypeServer' /\ ServingInv' /\ ReportedInv' /\ BacklogInv'
  BY <1>1, <1>2, <1>3, ServerSideKept
<1>6. early \in 0 .. ServerFds /\ early' \in 0 .. ServerFds /\ ServerFds \in Nat
  BY <1>1, ConstantFacts DEF ProbeInv, TypeConns
<1>7. TypeConns' /\ TypeClients'
  BY <1>1, <1>2, <1>3, <1>6 DEF ProbeInv, TypeConns, TypeClients, Probes!Becomes
<1>8. LeftInv'
  <2>1. SUFFICES ASSUME early' < ServerFds PROVE Cardinality(Left') + sfds <= early'
    BY <1>1 DEF LeftInv, Probes!serverVars
  <2>2. early < ServerFds
    BY <2>1, <1>1, <1>6
  <2>3. /\ Cardinality(Left) + sfds <= early /\ Cardinality(Left) \in Nat /\ sfds \in Nat
        /\ TypeConns
    BY <2>2, LeftIsFinite DEF ProbeInv, LeftInv, TypeServer
  <2>4. /\ Cardinality(Left') \in Nat
        /\ v \notin {"fin", "askedFin", "lost"} => Cardinality(Left') <= Cardinality(Left)
        /\ Cardinality(Left') <= Cardinality(Left) + 1
    BY <2>3, <1>1, <1>2, <1>3, LeftMoves
  <2>5. CASE v \in {"fin", "askedFin", "lost"}
    <3>1. early' = early + 1
      BY <2>2, <2>5, <1>1, <1>3
    <3> QED BY <3>1, <2>3, <2>4, <1>6
  <2>6. CASE v \notin {"fin", "askedFin", "lost"}
    <3>1. early' >= early
      BY <1>1, <1>6
    <3> QED BY <3>1, <2>3, <2>4, <2>6, <1>6
  <2> QED BY <2>5, <2>6
<1> QED BY <1>4, <1>5, <1>7, <1>8 DEF ProbeInv

\* Every step keeps the inductive invariant.
LEMMA ProbeStepInv == ProbeInv /\ [Probes!Next]_(Probes!vars) => ProbeInv'
<1> SUFFICES ASSUME ProbeInv, [Probes!Next]_(Probes!vars) PROVE ProbeInv'
  OBVIOUS
<1>1. CASE Probes!ServerStarts \/ Probes!Listen \/ Probes!Select \/ Probes!Skip \/ Probes!Read
  BY <1>1, LoopKeepsInv
<1>2. CASE Probes!Accept
  BY <1>2, AcceptKeepsInv
<1>3. CASE Probes!ReadFails \/ Probes!WriteFails \/ Probes!Answer
  BY <1>3, ServedKeepsInv
<1>4. ASSUME NEW as \in {"reset", "dead"}, Probes!ServerDown(as) PROVE ProbeInv'
  BY <1>4, ServerDownKeepsInv
<1>5. ASSUME NEW c \in Clients, Probes!ClientStep(c) PROVE ProbeInv'
  <2>1. CASE Probes!ConnectFails(c)
    <3>1. iSocketId[c] = Probes!None /\ 3 - addr[c] \in Probes!Server
      BY <2>1, ConstantFacts DEF Probes!ConnectFails, ProbeInv, ClientInv, TypeClients
    <3>2. iSocketId' = iSocketId
      BY <2>1, <3>1 DEF Probes!ConnectFails, Probes!Returns, ProbeInv, TypeClients
    <3> QED BY <2>1, <3>1, <3>2, NoConnectionKeepsInv DEF Probes!ConnectFails, Probes!Returns, Probes!Goto
  <2> QED BY <1>5, <2>1, ConnectKeepsInv, WriteKeepsInv, ReturnKeepsInv DEF Probes!ClientStep
<1>6. ASSUME NEW c \in Clients, Probes!ReadTimesOut(c) PROVE ProbeInv'
  BY <1>6, ReturnKeepsInv
<1>7. ASSUME NEW c \in Clients, Probes!ClientStarts(c) PROVE ProbeInv'
  <2>1. iSocketId[c] = Probes!None /\ 1 \in Probes!Server
    BY <1>7, ConstantFacts DEF Probes!ClientStarts, ProbeInv, ClientInv
  <2> QED BY <2>1, <1>7, NoConnectionKeepsInv DEF Probes!ClientStarts, Probes!Goto
<1>8. ASSUME NEW c \in Clients, NEW before \in {"fin", "lost"}, Probes!ClientGone(c, before) PROVE ProbeInv'
  <2>1. CASE iSocketId[c] = Probes!None
    <3>1. /\ epc' = [epc EXCEPT ![c] = "off"] /\ addr[c] \in Probes!Server
          /\ addr' = [addr EXCEPT ![c] = addr[c]] /\ iSocketId' = iSocketId
          /\ UNCHANGED <<Probes!serverVars, backlog, conn, early>>
      BY <1>8, <2>1 DEF Probes!ClientGone, Probes!Goto, ProbeInv, TypeClients
    <3> QED BY <2>1, <3>1, NoConnectionKeepsInv
  <2>2. CASE iSocketId[c] # Probes!None
    BY <1>8, <2>2, GoneKeepsInv
  <2> QED BY <2>1, <2>2
<1>9. CASE UNCHANGED Probes!vars
  <2>1. UNCHANGED Probes!clientVars /\ conn' = conn
    BY <1>9 DEF Probes!vars, Probes!clientVars
  <2>2. TypeClients' /\ ClientInv' /\ HeldInv'
    BY <2>1, ClientsUnmoved
  <2>3. TypeServer' /\ TypeConns' /\ ServingInv' /\ ReportedInv' /\ LeftInv'
    BY <1>9 DEF Probes!vars, ProbeInv, TypeServer, TypeConns, ServingInv, ReportedInv, LeftInv, Left
  <2>4. BacklogInv'
    BY <1>9 DEF Probes!vars, ProbeInv, BacklogInv
  <2> QED BY <2>2, <2>3, <2>4 DEF ProbeInv
<1> QED BY <1>1, <1>2, <1>3, <1>4, <1>5, <1>6, <1>7, <1>8, <1>9 DEF Probes!Next, Probes!ServerStep

\* The inductive invariant holds at the start.
LEMMA ProbeInit == Probes!Init => ProbeInv
<1> SUFFICES ASSUME Probes!Init PROVE ProbeInv
  OBVIOUS
<1>1. 0 \in 0 .. ServerFds /\ 1 \in Probes!Server
  BY ConstantFacts
<1>2. TypeServer /\ TypeConns /\ TypeClients
  BY <1>1 DEF Probes!Init, TypeServer, TypeConns, TypeClients, States
<1>3. ServingInv /\ ReportedInv /\ ClientInv /\ HeldInv
  BY DEF Probes!Init, ServingInv, ReportedInv, ClientInv, HeldInv, AtClient
<1>4. BacklogInv
  <2>1. \A s \in Probes!Server : 1 .. Len(backlog[s]) = {}
    BY DEF Probes!Init
  <2> QED BY <2>1 DEF BacklogInv
<1>5. LeftInv
  <2>1. Left = {} /\ sfds = 0 /\ early = 0
    BY DEF Probes!Init, Left
  <2> QED BY <2>1, FS_EmptySet DEF LeftInv
<1> QED BY <1>2, <1>3, <1>4, <1>5 DEF ProbeInv

\* The inductive invariant holds in every state of the specification.
LEMMA ProbeInvariance == Probes!Spec => []ProbeInv
  BY ProbeInit, ProbeStepInv, PTL DEF Probes!Spec

\* For any number of standby machines and however they and the server come and
\* go: a probe that is answered costs ExecServer no descriptor, and ExecServer
\* never blocks in Read on a client that waits for its answer itself.
THEOREM ServerSound == Probes!Spec => []ServerIsSound
<1>1. ProbeInv => Probes!ServerIsSound
  <2> SUFFICES ASSUME ProbeInv PROVE Probes!ServerIsSound
    OBVIOUS
  <2>1. Probes!LeaksAreAccounted
    <3>1. sfds \in 0 .. ServerFds /\ early \in 0 .. ServerFds /\ ServerFds \in Nat
      BY ConstantFacts DEF ProbeInv, TypeServer, TypeConns
    <3>2. CASE early < ServerFds
      BY <3>1, <3>2, LeftIsFinite DEF ProbeInv, LeftInv, Probes!LeaksAreAccounted
    <3>3. CASE early = ServerFds
      BY <3>1, <3>3 DEF Probes!LeaksAreAccounted
    <3> QED BY <3>1, <3>2, <3>3
  <2>2. Probes!NoMutualWait
    <3>1. SUFFICES ASSUME spc = "read", conn[iNewSocketId] = "open"
                   PROVE  \E c \in Clients : iSocketId[c] = iNewSocketId /\ epc[c] = "write"
      BY DEF Probes!NoMutualWait
    <3>2. iNewSocketId \in Probes!Conns /\ iNewSocketId # Probes!None
      BY <3>1 DEF ProbeInv, TypeServer, ServingInv
    <3>3. PICK c \in Clients : iSocketId[c] = iNewSocketId
      BY <3>1, <3>2 DEF ProbeInv, HeldInv, AtClient
    <3>4. epc[c] = "write"
      BY <3>1, <3>2, <3>3 DEF ProbeInv, ClientInv
    <3> QED BY <3>3, <3>4
  <2> QED BY <2>1, <2>2, ProbeTypeParts DEF ProbeInv, Probes!ServerIsSound
<1>2. ProbeInv => ServerIsSound
  BY <1>1 DEF ServerIsSound
<1> QED BY <1>2, ProbeInvariance, PTL
==============================================================================
