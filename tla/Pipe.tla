-------------------------------- MODULE Pipe --------------------------------
(***************************************************************************)
(* temp/pipe_test.cpp: a father that writes the same text to a pipe a      *)
(* number of times, and a child that reads from it as many times, with a   *)
(* buffer of its own size and no regard to where a text ends.  A text is   *)
(* TextLen bytes, the last one the NUL, so that the child shows what it    *)
(* read up to the first NUL.  The father sleeps between two writes, which  *)
(* orders nothing: the child may be late.                                  *)
(***************************************************************************)
EXTENDS Integers

CONSTANTS Times,     \* texts that are written, and calls of read
          TextLen,   \* strlen(buff) + 1 of the father
          BuffLen    \* sizeof(buff) of the child

\* A read takes at least a text.
PipeAssumption == /\ Times \in Nat
                  /\ TextLen \in Nat \ {0}
                  /\ BuffLen \in Nat
                  /\ TextLen < BuffLen

VARIABLES fpc, cpc,        \* "fork", "loop", "off" or, of the father, "killed"
          written, reads,  \* the counters i of the two loops
          bytes,           \* what is in the pipe
          writeEnds,       \* who holds fd[1]
          offset,          \* where in a text the first byte of the pipe is
          piled            \* read found more than it can take (history)

vars == <<fpc, cpc, written, reads, bytes, writeEnds, offset, piled>>
father == <<fpc, written>>
child == <<cpc, reads, offset, piled>>

Init == /\ fpc = "fork" /\ cpc = "none"
        /\ written = 0 /\ reads = 0
        /\ bytes = 0
        /\ writeEnds = {"father"}
        /\ offset = 0
        /\ piled = FALSE

\* fork; the father closes fd[0].
Fork == /\ fpc = "fork"
        /\ fpc' = "loop" /\ cpc' = "fork"
        /\ writeEnds' = {"father", "child"}
        /\ UNCHANGED <<written, reads, bytes, offset, piled>>

\* pipe or fork fails.
ForkFails == /\ fpc = "fork"
             /\ fpc' = "off" /\ cpc' = "off"
             /\ writeEnds' = {}
             /\ UNCHANGED <<written, reads, bytes, offset, piled>>

\* write, to a pipe that has room for all texts: SIGPIPE if nobody can read it.
Write == /\ fpc = "loop" /\ written < Times
         /\ IF cpc = "off"
            THEN fpc' = "killed" /\ UNCHANGED <<written, bytes>>
            ELSE /\ written' = written + 1
                 /\ bytes' = bytes + TextLen
                 /\ UNCHANGED fpc
         /\ writeEnds' = IF fpc' = "killed" THEN writeEnds \ {"father"} ELSE writeEnds
         /\ UNCHANGED child

\* The father returns from main, and does not wait for the child.
FatherEnds == /\ fpc = "loop" /\ written = Times
              /\ fpc' = "off"
              /\ writeEnds' = writeEnds \ {"father"}
              /\ UNCHANGED <<written, bytes, child>>

ChildBegins == /\ cpc = "fork"
               /\ cpc' = "loop"
               /\ writeEnds' = writeEnds \ {"child"}
               /\ UNCHANGED <<father, reads, bytes, offset, piled>>

\* A bug for Room: a buffer that is shorter than a text.
RoomShort == TextLen \div 2

\* What a read can take.
Room == BuffLen - 1

Least(a, b) == IF a < b THEN a ELSE b

Taken == Least(Room, bytes)

\* read returns what is there; at the end of the pipe it returns 0.
Read == /\ cpc = "loop" /\ reads < Times
        /\ bytes > 0 \/ writeEnds = {}
        /\ reads' = reads + 1
        /\ bytes' = bytes - Taken
        /\ offset' = (offset + Taken) % TextLen
        /\ piled' = (piled \/ bytes > Room)
        /\ UNCHANGED <<father, cpc, writeEnds>>

ChildEnds == /\ cpc = "loop" /\ reads = Times
             /\ cpc' = "off"
             /\ UNCHANGED <<father, reads, bytes, writeEnds, offset, piled>>

Father == Write \/ FatherEnds
Child == ChildBegins \/ Read \/ ChildEnds

Ended == fpc \in {"off", "killed"} /\ cpc = "off" /\ UNCHANGED vars

Next == Fork \/ ForkFails \/ Father \/ Child \/ Ended

\* The two processes are scheduled; a read need not return before there is
\* something to read.
Fairness == WF_vars(Fork \/ ForkFails) /\ WF_vars(Father) /\ WF_vars(Child)

Spec == Init /\ [][Next]_vars /\ Fairness

----------------------------------------------------------------------------
(* Properties *)

TypeOK == /\ fpc \in {"fork", "loop", "off", "killed"}
          /\ cpc \in {"none", "fork", "loop", "off"}
          /\ written \in 0 .. Times /\ reads \in 0 .. Times
          /\ bytes \in Nat
          /\ writeEnds \subseteq {"father", "child"}
          /\ offset \in 0 .. TextLen - 1
          /\ piled \in BOOLEAN

\* The child never outruns the father, although it counts reads and not texts
\* and reads may split and merge texts: each read that is still ahead of it has
\* a text of its own, in the pipe or to be written.  So it is there for the
\* last write, and the father is not killed.
NeverOutrun == /\ fpc # "killed"
               /\ fpc \in {"fork", "loop"} => TextLen * reads + bytes <= TextLen * written

\* A read starts in the middle of a text, and shows its rest only, no sooner
\* than the pipe has held more than the child's buffer.
WholeUnlessPiled == ~ piled => offset = 0

\* The father is never killed by a child that has read enough, and a text is cut
\* only when more than the child's buffer holds was waiting.
PipeIsKept == TypeOK /\ NeverOutrun /\ WholeUnlessPiled

\* Both processes end: the child is not left waiting for texts that it read
\* together with others.
BothEnd == <>(fpc \in {"off", "killed"} /\ cpc = "off")
==============================================================================
