------------------------------- MODULE ShmRing -------------------------------
(***************************************************************************)
(* ShareMemory (wzq_project component/shm.cpp, shm.h): messages of any     *)
(* size through a ring in a System V shared memory segment, and app_shm,   *)
(* the program that uses it as a writer (type 1), a reader (type 2) or     *)
(* both in turn (type 0).                                                  *)
(*                                                                         *)
(* Here the calls of the processes do not overlap: a step is a whole       *)
(* init, writeData or readData.  (There is no lock: ShmRace looks at calls *)
(* that do overlap.)  The segment outlives the processes, which come and   *)
(* go, and are killed, between any two calls.                              *)
(*                                                                         *)
(* A cell of the segment stands for a byte.  The cell at which a message   *)
(* was copied holds the message itself, for its SHM_DATA_HEAD and content; *)
(* the other cells it covers hold Body; a cell that was never written, or  *)
(* was cleared by readData, holds Zero.                                    *)
(***************************************************************************)
EXTENDS Integers, Sequences

CONSTANTS Messages,    \* the messages
          Size(_),     \* head.iSize of a message
          Zero, Body,  \* contents of a cell that is not the start of a message
          HeadSize,    \* sizeof(SHM_DATA_HEAD)
          StartPos,    \* sizeof(SHM_CONTROL)
          EndPos,      \* the size of the segment
          Procs        \* slots for processes running app_shm

\* The only client, app_shm, sends 13 bytes; a message of no byte would be
\* taken for the end of the lap by judegeRead.
ASSUME SizeAssumption == \A m \in Messages : Size(m) \in Nat \ {0}
ASSUME CellAssumption == Zero \notin Messages /\ Body \notin Messages /\ Zero # Body
ASSUME PosAssumption == /\ HeadSize \in Nat \ {0}
                        /\ StartPos \in Nat
                        /\ EndPos \in Nat
                        /\ StartPos + HeadSize < EndPos

VARIABLES ctrl,      \* the SHM_CONTROL at the start of the segment
          mem,       \* the rest of the segment
          type, pc,  \* iType of each process, and its place in main
          result,    \* what the last call returned, with the message
          queue,     \* the messages in transit (history)
          at         \* and where they were copied to (history)

vars == <<ctrl, mem, type, pc, result, queue, at>>

Cells == StartPos .. EndPos - 1

\* SHM_CONTROL; startPos and endPos are the constants.
Control == [iInitFlag : {0, 1}, iDir : {-1, 0, 1}, readPos : Nat, writePos : Nat]

Total(m) == HeadSize + Size(m)

Init == /\ ctrl = [iInitFlag |-> 0, iDir |-> 0, readPos |-> 0, writePos |-> 0]
        /\ mem = [a \in Cells |-> Zero]
        /\ type = [p \in Procs |-> 0]
        /\ pc = [p \in Procs |-> "off"]
        /\ result = <<"none">>
        /\ queue = <<>>
        /\ at = <<>>

----------------------------------------------------------------------------
(* judegeWrite and judegeRead: a new control block and a verdict. *)

\* The writer is ahead of the reader in the same lap, or both are at the same
\* place and the ring is empty.
WriterAhead(c) == \/ c.writePos > c.readPos
                  \/ c.iDir > 0 /\ c.writePos = c.readPos

\* The writer is a lap ahead.
ReaderAhead(c) == \/ c.writePos < c.readPos
                  \/ c.iDir < 0 /\ c.writePos = c.readPos

\* A bug for WrapWriter: the direction is not changed.
WrapWriterKeepsDir(c) == [c EXCEPT !.writePos = StartPos]

WrapWriter(c) == [c EXCEPT !.writePos = StartPos, !.iDir = @ * (-1)]

\* A bug for WrapReader: the direction is not changed.
WrapReaderKeepsDir(c) == [c EXCEPT !.readPos = StartPos]

WrapReader(c) == [c EXCEPT !.readPos = StartPos, !.iDir = @ * (-1)]

FitsAtEnd(c, n) == c.writePos + n <= EndPos

judegeWrite(c, n) ==
    LET wrapped == IF WriterAhead(c) /\ ~ FitsAtEnd(c, n) THEN WrapWriter(c) ELSE c
    IN  [ctrl |-> wrapped,
         ok   |-> \/ WriterAhead(c) /\ FitsAtEnd(c, n)
                  \/ /\ wrapped.writePos < wrapped.readPos
                     /\ wrapped.writePos + n <= wrapped.readPos]

\* iSize of the head the reader finds at its position.
HeadAt(m, a) == IF m[a] \in Messages THEN Size(m[a]) ELSE 0

\* Lines 273-276: the reader has not seen the end of its lap.
MoreInLap(c, m) == /\ c.readPos + HeadSize < EndPos
                   /\ HeadAt(m, c.readPos) > 0
                   /\ c.readPos + HeadSize + HeadAt(m, c.readPos) <= EndPos

judegeRead(c, m) ==
    LET wrapped == IF ReaderAhead(c) /\ ~ MoreInLap(c, m) THEN WrapReader(c) ELSE c
    IN  [ctrl |-> wrapped,
         ok   |-> \/ ReaderAhead(c) /\ MoreInLap(c, m)
                  \/ wrapped.writePos > wrapped.readPos]

\* The two memcpy of writeData.
CopyIn(m, a, msg) == [x \in Cells |-> IF x = a THEN msg
                                      ELSE IF x \in a .. a + Total(msg) - 1 THEN Body
                                      ELSE m[x]]

\* A bug for Clear: the message stays in the segment after it was read.
ClearNothing(m, a, n) == m

\* The memset of readData.
Clear(m, a, n) == [x \in Cells |-> IF x \in a .. a + n - 1 THEN Zero ELSE m[x]]

----------------------------------------------------------------------------
(* app_shm *)

\* main is called: with no argument iType is 0, with "1" or "2" it is that;
\* with any other argument main returns at once.
Start(p, t) == /\ pc[p] = "off"
               /\ pc' = [pc EXCEPT ![p] = "init"]
               /\ type' = [type EXCEPT ![p] = t]
               /\ UNCHANGED <<ctrl, mem, result, queue, at>>

\* The process returns from main (a call failed) or is killed.
Stop(p) == pc' = [pc EXCEPT ![p] = "off"]

\* Where main's loop goes first, and after a successful write and read.
FirstCall(t) == IF t \in {0, 1} THEN "write" ELSE "read"
AfterWrite(t) == IF t \in {0, 2} THEN "read" ELSE "write"
AfterRead(t) == FirstCall(t)

Initialised == [iInitFlag |-> 1, iDir |-> 1,
                readPos |-> StartPos, writePos |-> StartPos]

\* A bug for initShm: every process that attaches resets the control block.
initShmAlways(p) == /\ pc[p] = "init"
                    /\ ctrl' = Initialised
                    /\ pc' = [pc EXCEPT ![p] = FirstCall(type[p])]
                    /\ UNCHANGED <<mem, type, result, queue, at>>

initShm(p) == /\ pc[p] = "init"
              /\ ctrl' = IF ctrl.iInitFlag # 1 THEN Initialised ELSE ctrl
              /\ pc' = [pc EXCEPT ![p] = FirstCall(type[p])]
              /\ UNCHANGED <<mem, type, result, queue, at>>

\* A write that finds room.
writeData(p, m) ==
    LET j == judegeWrite(ctrl, Total(m))
    IN  /\ pc[p] = "write"
        /\ j.ok
        /\ mem' = CopyIn(mem, j.ctrl.writePos, m)
        /\ ctrl' = [j.ctrl EXCEPT !.writePos = @ + Total(m)]
        /\ pc' = [pc EXCEPT ![p] = AfterWrite(type[p])]
        /\ result' = <<"written", m>>
        /\ queue' = Append(queue, m)
        /\ at' = Append(at, j.ctrl.writePos)
        /\ UNCHANGED type

\* A write that is refused still wraps the writer; main returns.
writeDataRefused(p, m) ==
    LET j == judegeWrite(ctrl, Total(m))
    IN  /\ pc[p] = "write"
        /\ ~ j.ok
        /\ ctrl' = j.ctrl
        /\ result' = <<"no room", m>>
        /\ Stop(p)
        /\ UNCHANGED <<mem, type, queue, at>>

\* What is in transit after a read.
Rest(q) == IF q = <<>> THEN q ELSE Tail(q)

\* A read delivers what it finds at readPos, clears it and passes over it.
readData(p) ==
    LET j == judegeRead(ctrl, mem)
        a == j.ctrl.readPos
        n == HeadSize + HeadAt(mem, a)
    IN  /\ pc[p] = "read"
        /\ j.ok
        /\ mem' = Clear(mem, a, n)
        /\ ctrl' = [j.ctrl EXCEPT !.readPos = a + n]
        /\ pc' = [pc EXCEPT ![p] = AfterRead(type[p])]
        /\ result' = <<"read", mem[a]>>
        /\ queue' = Rest(queue)
        /\ at' = Rest(at)
        /\ UNCHANGED type

\* A read that is refused still wraps the reader; main returns.
readDataRefused(p) ==
    LET j == judegeRead(ctrl, mem)
    IN  /\ pc[p] = "read"
        /\ ~ j.ok
        /\ ctrl' = j.ctrl
        /\ result' = <<"empty">>
        /\ Stop(p)
        /\ UNCHANGED <<mem, type, queue, at>>

\* getShm finds no segment (shmget or shmat fails, or the id is 0) in init,
\* writeData or readData, and main returns; or the process is killed.
StopEarly(p) == /\ pc[p] # "off"
                /\ Stop(p)
                /\ UNCHANGED <<ctrl, mem, type, result, queue, at>>

Next == \E p \in Procs :
            \/ \E t \in 0 .. 2 : Start(p, t)
            \/ initShm(p)
            \/ \E m \in Messages : writeData(p, m) \/ writeDataRefused(p, m)
            \/ readData(p)
            \/ readDataRefused(p)
            \/ StopEarly(p)

Spec == Init /\ [][Next]_vars

----------------------------------------------------------------------------
(* Properties *)

TypeOK == /\ ctrl \in Control
          /\ mem \in [Cells -> Messages \cup {Zero, Body}]
          /\ type \in [Procs -> 0 .. 2]
          /\ pc \in [Procs -> {"off", "init", "write", "read"}]
          /\ queue \in Seq(Messages)
          /\ at \in Seq(Cells)

\* Both positions stay in the segment, and the sign of iDir tells which of
\* them is ahead: this is all the control block records about the two laps, and
\* judegeWrite and judegeRead decide by it whether equal positions mean an
\* empty or a full ring.
DirTellsLap ==
    ctrl.iInitFlag = 1 =>
        /\ ctrl.readPos \in StartPos .. EndPos
        /\ ctrl.writePos \in StartPos .. EndPos
        /\ \/ ctrl.iDir = 1 /\ ctrl.readPos <= ctrl.writePos
           \/ ctrl.iDir = -1 /\ ctrl.writePos <= ctrl.readPos

\* The cells of message i of the queue.
Extent(i) == at[i] .. at[i] + Total(queue[i]) - 1

\* No message in transit overwrites another or the control block, each is
\* still where it was copied to, and every other cell is clear: judegeRead
\* takes a cleared head for the end of a lap.
Layout ==
    /\ \A i \in DOMAIN queue : Extent(i) \subseteq Cells /\ mem[at[i]] = queue[i]
    /\ \A i, k \in DOMAIN queue : i # k => Extent(i) \cap Extent(k) = {}
    /\ \A a \in Cells : mem[a] # Zero <=> \E i \in DOMAIN queue : a \in Extent(i)

\* The variables have their types, and the cells hold what the queue says.
CellsAreSound == TypeOK /\ Layout

\* A message that would fit an empty ring and is refused by one is accepted
\* after one more (refused) read, which sends the reader after the writer: no
\* sequence of calls leaves an empty ring that refuses it for ever.
RefusedOnceAtMost ==
    ctrl.iInitFlag = 1 /\ queue = <<>> =>
        \A m \in Messages :
            LET w == judegeWrite(ctrl, Total(m))
                r == judegeRead(w.ctrl, mem)
            IN  \/ w.ok
                \/ StartPos + Total(m) > EndPos
                \/ judegeWrite(r.ctrl, Total(m)).ok

\* The usage message of app_shm (line 13): "iType = 1 : read!" and
\* "iType = 2 : write!".
UsageMessage == \A p \in Procs : /\ type[p] = 1 => pc[p] # "write"
                                 /\ type[p] = 2 => pc[p] # "read"

\* The message queue, seen through the history variable.
MQ == INSTANCE MessageQueue

\* The ring is a queue: messages come out whole, once and in the order they
\* went in, across laps, refused calls and restarts of the processes, and a read
\* is refused only when none is in transit.
ImplementsQueue == MQ!QueueSpec
==============================================================================
