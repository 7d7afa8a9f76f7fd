-------------------------- MODULE MCLargerServers --------------------------
(***************************************************************************)
(* TLC instance of servers with clients enough that two of them meet in    *)
(* the same turn of the loop, for what must never happen.  EpollSocket:    *)
(* three connections and two descriptors, so that a descriptor is handed   *)
(* on in the middle of a batch.  Libevent: two clients that may lose the   *)
(* server at any time.  prog says which of them runs; the other stays in   *)
(* its initial state.                                                      *)
(***************************************************************************)
EXTENDS EpollSocket, TLC

CONSTANTS Clients, Lines

VARIABLES prog,
          up, backlog3, sbev, sout, tcp3, cprog, conn, alloc, active, out, tty, eof, said, heard

Bev == INSTANCE Libevent WITH
    backlog <- backlog3, tcp <- tcp3, prog <- cprog

ASSUME LargerServersAssumption == Bev!LibeventAssumption

bevVars == <<up, backlog3, sbev, sout, tcp3, cprog, conn, alloc, active, out, tty, eof, said, heard>>
AllVars == <<prog, vars, bevVars>>

AllInit == /\ prog \in {"EpollSocket", "Libevent"}
           /\ Init /\ Bev!Init

\* The clients of Libevent may be done, and their server idle.
AllNext ==
    /\ UNCHANGED prog
    /\ \/ prog = "EpollSocket" /\ Next /\ UNCHANGED bevVars
       \/ prog = "Libevent" /\ (Bev!Next \/ UNCHANGED bevVars) /\ UNCHANGED vars

AllSpec == AllInit /\ [][AllNext]_AllVars

Symmetry == Permutations(Conns) \cup Permutations(Clients)

\* Libevent: no callback uses an object that was freed, and no line is lost.
CallbacksAreSound == Bev!TypeOK /\ Bev!NothingFreedIsUsed /\ Bev!LinesAreKept
==============================================================================
