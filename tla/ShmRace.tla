------------------------------- MODULE ShmRace -------------------------------
(***************************************************************************)
(* A writer (app_shm 1) and a reader (app_shm 2) whose calls overlap:      *)
(* shm.cpp takes no lock, so a step is one load or store of the control    *)
(* block or one memcpy or memset.  writePos is stored by the writer only,  *)
(* readPos by the reader only, and iDir by both, with a load and a store.  *)
(* The build (src/MakeCommon: g++ -g, no -O) loads every operand from      *)
(* memory each time the source names it and stores in program order, and   *)
(* the processors it runs on keep that order.                              *)
(*                                                                         *)
(* The segment is first used by processes that take turns; then one writer *)
(* and one reader run together until they exit, which app_shm does at the  *)
(* first call that is refused.                                             *)
(***************************************************************************)
EXTENDS Integers, Sequences

CONSTANTS Messages, Size(_), Zero, Body, HeadSize, StartPos, EndPos

VARIABLES ctrl, mem,
          together,           \* the calls overlap
          wpc, msg, wDir,     \* the writer: its place, message and loaded iDir
          rpc, rLen, rDir,    \* the reader: its place, length and loaded iDir
          queue,              \* messages in transit (history)
          got                 \* what the reader delivered last, and should have

vars == <<ctrl, mem, together, wpc, msg, wDir, rpc, rLen, rDir, queue, got>>
writerVars == <<wpc, msg, wDir>>
readerVars == <<rpc, rLen, rDir, got>>

\* The ring itself is that of ShmRing.
Ring == INSTANCE ShmRing WITH Procs <- {}, type <- <<>>, pc <- <<>>,
                              result <- <<>>, at <- <<>>

Cells == Ring!Cells
Total(m) == Ring!Total(m)

Init == /\ ctrl = Ring!Initialised
        /\ mem = [x \in Cells |-> Zero]
        /\ together = FALSE
        /\ wpc = "idle" /\ msg \in Messages /\ wDir = 1
        /\ rpc = "idle" /\ rLen = 0 /\ rDir = 1
        /\ queue = <<>>
        /\ got = <<>>

RunTogether == /\ wpc = "idle" /\ rpc = "idle" /\ ~ together
               /\ together' = TRUE
               /\ UNCHANGED <<ctrl, mem, queue, writerVars, readerVars>>

\* A refused call: the process exits.  While processes take turns another one
\* takes its place.
Refused == IF together THEN "off" ELSE "idle"

----------------------------------------------------------------------------
(* writeData and judegeWrite *)

WriterStep(from, to) == /\ wpc = from
                        /\ wpc' = to
                        /\ UNCHANGED <<together, readerVars>>

WBegin == /\ together \/ rpc = "idle"
          /\ WriterStep("idle", "test")
          /\ msg' \in Messages
          /\ UNCHANGED <<ctrl, mem, wDir, queue>>

Fit == IF Ring!FitsAtEnd(ctrl, Total(msg)) THEN "head" ELSE "wrap"

\* Line 241, left of ||.
WTest == /\ WriterStep("test", IF ctrl.writePos > ctrl.readPos THEN Fit ELSE "dir")
         /\ UNCHANGED <<ctrl, mem, msg, wDir, queue>>

\* Line 241, right of ||.
WDir == /\ WriterStep("dir", IF ctrl.iDir > 0 THEN "equal" ELSE "room")
        /\ UNCHANGED <<ctrl, mem, msg, wDir, queue>>

WEqual == /\ WriterStep("equal", IF ctrl.writePos = ctrl.readPos THEN Fit ELSE "room")
          /\ UNCHANGED <<ctrl, mem, msg, wDir, queue>>

WWrap == /\ WriterStep("wrap", "load")
         /\ ctrl' = [ctrl EXCEPT !.writePos = StartPos]
         /\ UNCHANGED <<mem, msg, wDir, queue>>

WLoad == /\ WriterStep("load", "store")
         /\ wDir' = ctrl.iDir
         /\ UNCHANGED <<ctrl, mem, msg, queue>>

WStore == /\ WriterStep("store", "room")
          /\ ctrl' = [ctrl EXCEPT !.iDir = wDir * (-1)]
          /\ UNCHANGED <<mem, msg, wDir, queue>>

\* Lines 254 and 256.
WRoom == /\ WriterStep("room", IF ctrl.writePos < ctrl.readPos THEN "enough" ELSE Refused)
         /\ UNCHANGED <<ctrl, mem, msg, wDir, queue>>

\* A bug for WEnough: the room left is not compared with the message.
WEnoughUnchecked == /\ WriterStep("enough", "head")
                    /\ UNCHANGED <<ctrl, mem, msg, wDir, queue>>

WEnough == /\ WriterStep("enough", IF ctrl.writePos + Total(msg) <= ctrl.readPos
                                   THEN "head" ELSE Refused)
           /\ UNCHANGED <<ctrl, mem, msg, wDir, queue>>

WHead == /\ WriterStep("head", "content")
         /\ mem' = [mem EXCEPT ![ctrl.writePos] = msg]
         /\ UNCHANGED <<ctrl, msg, wDir, queue>>

WContent == /\ WriterStep("content", "advance")
            /\ mem' = Ring!CopyIn(mem, ctrl.writePos, msg)
            /\ UNCHANGED <<ctrl, msg, wDir, queue>>

WAdvance == /\ WriterStep("advance", "idle")
            /\ ctrl' = [ctrl EXCEPT !.writePos = @ + Total(msg)]
            /\ queue' = Append(queue, msg)
            /\ UNCHANGED <<mem, msg, wDir>>

Writer == \/ WBegin \/ WTest \/ WDir \/ WEqual \/ WWrap \/ WLoad \/ WStore
          \/ WRoom \/ WEnough \/ WHead \/ WContent \/ WAdvance

----------------------------------------------------------------------------
(* readData and judegeRead *)

ReaderStep(from, to) == /\ rpc = from
                        /\ rpc' = to
                        /\ UNCHANGED <<together, writerVars>>

RBegin == /\ together \/ wpc = "idle"
          /\ ReaderStep("idle", "test")
          /\ UNCHANGED <<ctrl, mem, rLen, rDir, got, queue>>

\* Line 271.
RTest == /\ ReaderStep("test", IF ctrl.writePos < ctrl.readPos THEN "lap" ELSE "dir")
         /\ UNCHANGED <<ctrl, mem, rLen, rDir, got, queue>>

RDir == /\ ReaderStep("dir", IF ctrl.iDir < 0 THEN "equal" ELSE "more")
        /\ UNCHANGED <<ctrl, mem, rLen, rDir, got, queue>>

REqual == /\ ReaderStep("equal", IF ctrl.writePos = ctrl.readPos THEN "lap" ELSE "more")
          /\ UNCHANGED <<ctrl, mem, rLen, rDir, got, queue>>

\* Lines 273-276.
RLap == /\ ReaderStep("lap", IF Ring!MoreInLap(ctrl, mem) THEN "head" ELSE "wrap")
        /\ UNCHANGED <<ctrl, mem, rLen, rDir, got, queue>>

RWrap == /\ ReaderStep("wrap", "load")
         /\ ctrl' = [ctrl EXCEPT !.readPos = StartPos]
         /\ UNCHANGED <<mem, rLen, rDir, got, queue>>

RLoad == /\ ReaderStep("load", "store")
         /\ rDir' = ctrl.iDir
         /\ UNCHANGED <<ctrl, mem, rLen, got, queue>>

RStore == /\ ReaderStep("store", "more")
          /\ ctrl' = [ctrl EXCEPT !.iDir = rDir * (-1)]
          /\ UNCHANGED <<mem, rLen, rDir, got, queue>>

\* Line 293.
RMore == /\ ReaderStep("more", IF ctrl.writePos > ctrl.readPos THEN "head" ELSE Refused)
         /\ UNCHANGED <<ctrl, mem, rLen, rDir, got, queue>>

\* Lines 178-179: what is at readPos, and what should be.
RHead == LET r == ctrl.readPos IN
         /\ ReaderStep("head", "clear")
         /\ got' = <<IF \E m \in Messages : /\ mem[r] = m
                                            /\ mem = Ring!CopyIn(mem, r, m)
                     THEN <<mem[r]>> ELSE <<>>,
                     IF queue = <<>> THEN <<>> ELSE <<Head(queue)>> >>
         /\ rLen' = HeadSize + Ring!HeadAt(mem, r)
         /\ UNCHANGED <<ctrl, mem, rDir, queue>>

RClear == /\ ReaderStep("clear", "advance")
          /\ mem' = Ring!Clear(mem, ctrl.readPos, rLen)
          /\ UNCHANGED <<ctrl, rLen, rDir, got, queue>>

RAdvance == /\ ReaderStep("advance", "idle")
            /\ ctrl' = [ctrl EXCEPT !.readPos = @ + rLen]
            /\ queue' = IF queue = <<>> THEN queue ELSE Tail(queue)
            /\ UNCHANGED <<mem, rLen, rDir, got>>

Reader == \/ RBegin \/ RTest \/ RDir \/ REqual \/ RLap \/ RWrap \/ RLoad \/ RStore
          \/ RMore \/ RHead \/ RClear \/ RAdvance

\* Both processes have exited.
Ended == wpc = "off" /\ rpc = "off" /\ UNCHANGED vars

Next == RunTogether \/ Writer \/ Reader \/ Ended

Spec == Init /\ [][Next]_vars

----------------------------------------------------------------------------
(* Properties *)

\* Although nothing is locked, one writer and one reader that run together
\* until a call is refused pass messages whole, once and in order: the reader
\* delivers the oldest message that was written and not read, in full.
Fifo == got # <<>> => got[1] = got[2] /\ got[1] # <<>>

\* Whenever neither process is inside a call the positions are in the segment and
\* iDir tells which is ahead.  One of the two unsynchronised negations of iDir may
\* be lost, and then a ring that holds messages can look empty to the next process;
\* but only when both processes were wrapping, and then both are at the start of
\* the segment, both calls are refused and both processes exit.
SoundAtRest == wpc \in {"idle", "off"} /\ rpc \in {"idle", "off"} =>
    /\ Ring!DirTellsLap
    /\ ctrl.writePos = ctrl.readPos /\ ctrl.iDir = 1 /\ queue # <<>> =>
          wpc = "off" /\ rpc = "off" /\ ctrl.writePos = StartPos
==============================================================================
