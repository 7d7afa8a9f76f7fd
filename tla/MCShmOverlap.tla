---------------------------- MODULE MCShmOverlap ----------------------------
(***************************************************************************)
(* TLC instance of what happens to the ring when processes overlap.        *)
(* "init": ShmInit, a writer and a reader that start on a fresh segment of *)
(* eight cells after the control block, with messages of three and five    *)
(* cells.  "race": ShmRace, the calls of a writer and a reader step by     *)
(* step, in a ring of twelve cells.  prog says which of them runs; the     *)
(* other stays in its initial state.                                       *)
(***************************************************************************)
EXTENDS ShmInit

CONSTANTS short, medium, writer, reader,
          RaceEnd     \* the size of the segment of ShmRace

ASSUME RaceAssumption == RaceEnd \in Nat /\ StartPos + HeadSize < RaceEnd

VARIABLES prog,
          ctrl2, mem2, together, wpc, msg, wDir, rpc, rLen, rDir, queue2, got

MCSize(m) == IF m = short THEN 1 ELSE 3

MCTypes(p) == IF p = writer THEN {1} ELSE {2}

Race == INSTANCE ShmRace WITH EndPos <- RaceEnd, ctrl <- ctrl2, mem <- mem2, queue <- queue2

raceVars == <<ctrl2, mem2, together, wpc, msg, wDir, rpc, rLen, rDir, queue2, got>>
AllVars == <<prog, initVars, raceVars>>

AllInit == /\ prog \in {"init", "race"}
           /\ InitInit /\ Race!Init
           /\ prog # "race" => msg = short

AllNext == /\ UNCHANGED prog
           /\ \/ prog = "init" /\ InitNext /\ UNCHANGED raceVars
              \/ prog = "race" /\ Race!Next /\ UNCHANGED initVars

AllSpec == AllInit /\ [][AllNext]_AllVars

\* ShmRace: the reader delivers the oldest message that was not read, whole, and
\* when neither process is inside a call the control block is right about the ring,
\* unless both have just exited from a wrap.
RaceIsSound == Race!Fifo /\ Race!SoundAtRest
==============================================================================
