------------------------------- MODULE ShmInit -------------------------------
(***************************************************************************)
(* ShareMemory::init (shm.cpp 143-152) while other processes start and     *)
(* use the same segment.  init takes no lock: it tests iInitFlag and then  *)
(* stores the control block field by field, iInitFlag before iDir, so that *)
(* several processes may find the flag unset, and one may find it set      *)
(* before iDir is.  A step is the test or one store (startPos and endPos   *)
(* always get the same values and are left out); writeData and readData    *)
(* are whole steps, those of ShmRing.  Types says how a process may be      *)
(* started: one writer and one reader, in the instance TLC checks.         *)
(***************************************************************************)
EXTENDS ShmRing

CONSTANTS Types(_),     \* iType, for each process
          MaxTransit    \* a bound on messages written and not read

\* A sound ring never holds so many: the bound stops only runs that have lost
\* messages.
ASSUME TransitAssumption ==
    \A m \in Messages : MaxTransit * Total(m) > EndPos - StartPos

\* There is one writer and one reader at a time.
ASSUME TypesAssumption ==
    \A p \in Procs : /\ Types(p) \subseteq {1, 2}
                     /\ \A q \in Procs \ {p} : Types(p) \cap Types(q) = {}

VARIABLES phase,  \* "late" once init stored a field of a ring in use (history)
          cut     \* a process was killed between its last two stores (history)

initVars == <<vars, phase, cut>>

InitInit == Init /\ phase = "fresh" /\ cut = FALSE

\* The order of the stores; after the last one main goes on.
AfterTest == [readPos |-> "writePos", writePos |-> "iInitFlag", iInitFlag |-> "iDir"]

\* Fields of the control block init stores; pc is the next one.
Stores == {"readPos", "writePos", "iInitFlag", "iDir"}

\* A bug for TestFlag: every process initialises.
TestFlagAlways(p) == /\ pc[p] = "init"
                     /\ pc' = [pc EXCEPT ![p] = "readPos"]
                     /\ UNCHANGED <<ctrl, mem, type, result, queue, at, phase, cut>>

\* Line 144.
TestFlag(p) == /\ pc[p] = "init"
               /\ pc' = [pc EXCEPT ![p] = IF ctrl.iInitFlag # 1 THEN "readPos"
                                          ELSE FirstCall(type[p])]
               /\ UNCHANGED <<ctrl, mem, type, result, queue, at, phase, cut>>

\* Lines 148-151.
Store(p) == /\ pc[p] \in Stores
            /\ ctrl' = [ctrl EXCEPT ![pc[p]] = Initialised[pc[p]]]
            /\ pc' = [pc EXCEPT ![p] = IF @ = "iDir" THEN FirstCall(type[p])
                                       ELSE AfterTest[@]]
            /\ phase' = IF phase = "used" THEN "late" ELSE phase
            /\ UNCHANGED <<mem, type, result, queue, at, cut>>

\* main between two inits: the calls, and the process starts.
Call(p) == /\ \/ \E t \in Types(p) : Start(p, t)
              \/ \E m \in Messages : \/ Len(queue) < MaxTransit /\ writeData(p, m)
                                     \/ writeDataRefused(p, m)
              \/ readData(p)
              \/ readDataRefused(p)
           /\ phase' = IF phase = "fresh" /\ result'[1] \in {"written", "read"}
                       THEN "used" ELSE phase
           /\ UNCHANGED cut

\* The process is killed, or getShm fails.
Kill(p) == /\ StopEarly(p)
           /\ cut' = (cut \/ pc[p] = "iDir")
           /\ UNCHANGED phase

InitNext == \E p \in Procs : TestFlag(p) \/ Store(p) \/ Call(p) \/ Kill(p)

InitSpec == InitInit /\ [][InitNext]_initVars

----------------------------------------------------------------------------
(* Properties *)

InitTypeOK == /\ ctrl \in Control
              /\ mem \in [Cells -> Messages \cup {Zero, Body}]
              /\ pc \in [Procs -> {"off", "init", "write", "read"} \cup Stores]
              /\ phase \in {"fresh", "used", "late"} /\ cut \in BOOLEAN

\* A process that is past init finds both positions in the segment, however
\* many processes are still inside init: the positions are stored before the
\* flag that lets others pass, so no message is copied over the control block.
PositionsAreSet ==
    (\E p \in Procs : pc[p] \in {"write", "read"}) =>
        ctrl.readPos \in StartPos .. EndPos /\ ctrl.writePos \in StartPos .. EndPos

\* A control block marked initialised is sound when no process is inside init,
\* although writer and reader may both have stored it, one of them after the
\* other had used the ring; unless a process was killed between the stores of
\* iInitFlag and iDir: then iDir stays 0 and every later call is refused.
SoundOnceInitialised ==
    ~ cut /\ (\A p \in Procs : pc[p] \notin Stores) => DirTellsLap

\* The missing lock costs messages only when a process that found the flag
\* unset stores a field after another has written or read: until then all
\* messages in transit are in place and every other cell is clear.
OnlyLateInitLoses == phase # "late" => Layout

\* init is safe although it takes no lock: the types and the three facts above.
InitIsSafe == InitTypeOK /\ PositionsAreSet /\ SoundOnceInitialised /\ OnlyLateInitLoses
==============================================================================
