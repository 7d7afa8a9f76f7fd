--------------------------- MODULE HeartBeatProbe ---------------------------
(***************************************************************************)
(* teleHeartBeat/HeartBeat.cpp, the probe from both ends: ExecServer, one  *)
(* thread that serves the two addresses of the main machine, and           *)
(* ExecClient, run by standby machines for one address after the other.    *)
(* What a client does about the outcome is in HeartBeatClient.             *)
(*                                                                         *)
(* A connection is in one of these states, as the two ends make it:        *)
(*   free       not in use                                                 *)
(*   open       made by the client, nothing sent yet                       *)
(*   asked      "ARE YOU OK ?" is sent                                     *)
(*   answered   "I AM OK !" is sent and the server has closed its end      *)
(*   fin        the client's process ended before it asked                 *)
(*   askedFin   the client ended after it asked                            *)
(*   lost       the client's machine vanished before it asked: no FIN      *)
(*   reset      the server's process ended                                 *)
(*   dead       the server's machine vanished: nothing more is heard       *)
(* Neither end sets a time-out or a keep-alive.                            *)
(***************************************************************************)
EXTENDS Integers, Sequences, FiniteSets

CONSTANTS Clients,     \* standby machines
          NConns,      \* connections at a time, those given up on included
          iMaxConnNum, \* the backlog given to listen
          FdLimit      \* descriptors the server may open for connections

ProbeAssumption == NConns \in Nat /\ iMaxConnNum \in Nat /\ FdLimit \in Nat \ {0}

Server == 1 .. 2
Conns == 1 .. NConns
None == 0

VARIABLES spc, i, rfds,  \* ExecServer: its place, loop counter and select's result
          iNewSocketId,  \* the connection it has accepted
          sfds,          \* descriptors it has lost
          listening,     \* the addresses with a listening socket
          backlog,       \* connections not yet accepted, at each address
          conn,          \* the state of each connection
          cpc, addr,     \* ExecClient of each client, and the address it probes
          iSocketId,     \* the connection of each client
          early          \* clients gone before they were answered (history)

vars == <<spc, i, rfds, iNewSocketId, sfds, listening, backlog, conn, cpc, addr, iSocketId, early>>
serverVars == <<spc, i, rfds, iNewSocketId, sfds, listening>>
clientVars == <<cpc, addr, iSocketId>>

Init == /\ spc = "down" /\ i = 1 /\ rfds = {} /\ iNewSocketId = None
        /\ sfds = 0 /\ listening = {} /\ early = 0
        /\ backlog = [s \in Server |-> <<>>]
        /\ conn = [k \in Conns |-> "free"]
        /\ cpc = [c \in Clients |-> "off"]
        /\ addr = [c \in Clients |-> 1]
        /\ iSocketId = [c \in Clients |-> None]

Becomes(k, state) == conn' = [conn EXCEPT ![k] = state]

----------------------------------------------------------------------------
(* ExecServer *)

\* RunAsServer is called.
ServerStarts == /\ spc = "down"
                /\ spc' = "listen"
                /\ UNCHANGED <<i, rfds, iNewSocketId, sfds, listening, backlog, conn, clientVars, early>>

\* Listen at one address after the other.
Listen == /\ spc = "listen"
          /\ listening' = listening \cup {i}
          /\ spc' = IF i = 2 THEN "select" ELSE "listen"
          /\ i' = IF i = 2 THEN 1 ELSE i + 1
          /\ UNCHANGED <<rfds, iNewSocketId, sfds, backlog, conn, clientVars, early>>

\* select returns when a connection waits at some address.
Select == /\ spc = "select"
          /\ \E s \in Server : backlog[s] # <<>>
          /\ rfds' = {s \in Server : backlog[s] # <<>>}
          /\ i' = 1
          /\ spc' = "loop"
          /\ UNCHANGED <<iNewSocketId, sfds, listening, backlog, conn, clientVars, early>>

\* The end of the body of the for loop, and its continue.
Continue == /\ i' = IF i = 2 THEN 1 ELSE i + 1
            /\ spc' = IF i = 2 THEN "select" ELSE "loop"
            /\ UNCHANGED <<rfds, listening, clientVars, early>>

\* Address i has no connection, or accept fails for want of a descriptor.
Skip == /\ spc = "loop"
        /\ i \notin rfds \/ sfds = FdLimit
        /\ Continue
        /\ UNCHANGED <<iNewSocketId, sfds, backlog, conn>>

\* A bug for Accept: the newest connection is taken first.
AcceptLast == /\ spc = "loop"
              /\ i \in rfds
              /\ sfds < FdLimit
              /\ iNewSocketId' = backlog[i][Len(backlog[i])]
              /\ backlog' = [backlog EXCEPT ![i] = SubSeq(@, 1, Len(@) - 1)]
              /\ spc' = "read"
              /\ UNCHANGED <<i, rfds, sfds, listening, conn, clientVars, early>>

Accept == /\ spc = "loop"
          /\ i \in rfds
          /\ sfds < FdLimit
          /\ iNewSocketId' = Head(backlog[i])
          /\ backlog' = [backlog EXCEPT ![i] = Tail(@)]
          /\ spc' = "read"
          /\ UNCHANGED <<i, rfds, sfds, listening, conn, clientVars, early>>

\* Read blocks on a connection that is open or lost.
Read == /\ spc = "read"
        /\ conn[iNewSocketId] \in {"asked", "askedFin"}
        /\ spc' = "write"
        /\ UNCHANGED <<i, rfds, iNewSocketId, sfds, listening, backlog, conn, clientVars, early>>

\* The descriptor of a connection the server gives up on is not closed.
Leak == /\ sfds' = sfds + 1
        /\ iNewSocketId' = None
        /\ Becomes(iNewSocketId, "free")
        /\ UNCHANGED backlog

ReadFails == /\ spc = "read"
             /\ conn[iNewSocketId] = "fin"
             /\ Leak
             /\ Continue

\* A bug for Answer: the connection is left open after the answer.
AnswerNoClose == /\ spc = "write"
                 /\ Becomes(iNewSocketId, IF conn[iNewSocketId] = "asked" THEN "answered" ELSE "free")
                 /\ iNewSocketId' = None
                 /\ sfds' = sfds + 1
                 /\ Continue
                 /\ UNCHANGED backlog

\* Write and close.  A client that is gone does not get it.
Answer == /\ spc = "write"
          /\ Becomes(iNewSocketId, IF conn[iNewSocketId] = "asked" THEN "answered" ELSE "free")
          /\ iNewSocketId' = None
          /\ Continue
          /\ UNCHANGED <<sfds, backlog>>

WriteFails == /\ spc = "write"
              /\ conn[iNewSocketId] = "askedFin"
              /\ Leak
              /\ Continue

ServerStep == Listen \/ Select \/ Skip \/ Accept \/ Read \/ ReadFails \/ Answer \/ WriteFails

\* The process ends (Listen failed, or it was killed), or the machine vanishes
\* (as = "dead"), and is started again some time later.  The clients it was
\* serving, or would have served, find out or do not.
ServerDown(as) ==
    /\ spc # "down"
    /\ spc' = "down" /\ i' = 1 /\ rfds' = {} /\ iNewSocketId' = None
    /\ sfds' = 0 /\ listening' = {} /\ early' = 0
    /\ backlog' = [s \in Server |-> <<>>]
    /\ conn' = [k \in Conns |-> IF conn[k] \in {"open", "asked"} THEN as
                               ELSE IF conn[k] \in {"fin", "askedFin", "lost"} THEN "free"
                               ELSE conn[k]]
    /\ UNCHANGED clientVars

----------------------------------------------------------------------------
(* ExecClient *)

Goto(c, place) == cpc' = [cpc EXCEPT ![c] = place]

\* ExecClient returns; the next call is for the other address.
Returns(c) == /\ Goto(c, "connect")
              /\ addr' = [addr EXCEPT ![c] = 3 - @]
              /\ iSocketId' = [iSocketId EXCEPT ![c] = None]
              /\ UNCHANGED <<serverVars, backlog, early>>

Connect(c) == /\ cpc[c] = "connect"
              /\ addr[c] \in listening
              /\ Len(backlog[addr[c]]) < iMaxConnNum
              /\ \E k \in Conns : /\ conn[k] = "free"
                                  /\ \A l \in 1 .. k - 1 : conn[l] # "free"
                                  /\ Becomes(k, "open")
                                  /\ iSocketId' = [iSocketId EXCEPT ![c] = k]
                                  /\ backlog' = [backlog EXCEPT ![addr[c]] = Append(@, k)]
              /\ Goto(c, "write")
              /\ UNCHANGED <<serverVars, addr, early>>

\* Refused, or timed out because the backlog is full.
ConnectFails(c) == /\ cpc[c] = "connect"
                   /\ addr[c] \notin listening \/ Len(backlog[addr[c]]) >= iMaxConnNum
                   /\ Returns(c)
                   /\ UNCHANGED conn

Write(c) == /\ cpc[c] = "write"
            /\ conn[iSocketId[c]] # "reset"
            /\ Becomes(iSocketId[c], IF conn[iSocketId[c]] = "open" THEN "asked" ELSE "dead")
            /\ Goto(c, "read")
            /\ UNCHANGED <<serverVars, backlog, addr, iSocketId, early>>

\* The answer has come, or the connection was reset: Write or Read returns an
\* error and the client's descriptor is lost.
ReadReturns(c) == /\ \/ cpc[c] = "read" /\ conn[iSocketId[c]] = "answered"
                     \/ cpc[c] \in {"write", "read"} /\ conn[iSocketId[c]] = "reset"
                  /\ Becomes(iSocketId[c], "free")
                  /\ Returns(c)

ClientStep(c) == Connect(c) \/ ConnectFails(c) \/ Write(c) \/ ReadReturns(c)

\* TCP may notice that the other machine is gone, if it has data to repeat.
ReadTimesOut(c) == /\ cpc[c] = "read"
                   /\ conn[iSocketId[c]] = "dead"
                   /\ Becomes(iSocketId[c], "free")
                   /\ Returns(c)

ClientStarts(c) == /\ cpc[c] = "off"
                   /\ Goto(c, "connect")
                   /\ addr' = [addr EXCEPT ![c] = 1]
                   /\ UNCHANGED <<serverVars, backlog, conn, iSocketId, early>>

\* The client's process ends (before = "fin") or its machine vanishes
\* (before = "lost").
ClientGone(c, before) ==
    LET k == iSocketId[c]
    IN  /\ cpc[c] # "off"
        /\ Goto(c, "off")
        /\ iSocketId' = [iSocketId EXCEPT ![c] = None]
        /\ IF k = None THEN UNCHANGED conn
           ELSE Becomes(k, IF conn[k] = "open" THEN before
                           ELSE IF conn[k] = "asked" THEN "askedFin"
                           ELSE "free")
        /\ early' = IF k # None /\ conn[k] \in {"open", "asked"} /\ early < FdLimit
                    THEN early + 1 ELSE early
        /\ UNCHANGED <<serverVars, backlog, addr>>

----------------------------------------------------------------------------

Next == \/ ServerStarts
        \/ ServerStep
        \/ \E as \in {"reset", "dead"} : ServerDown(as)
        \/ \E c \in Clients : \/ ClientStep(c) \/ ReadTimesOut(c) \/ ClientStarts(c)
                              \/ \E before \in {"fin", "lost"} : ClientGone(c, before)

\* The server and the clients go on whenever a system call lets them.
Fairness == /\ WF_vars(ServerStep)
            /\ \A c \in Clients : WF_vars(ClientStep(c))

Spec == Init /\ [][Next]_vars /\ Fairness

----------------------------------------------------------------------------
(* Properties *)

TypeOK == /\ spc \in {"down", "listen", "select", "loop", "read", "write"}
          /\ i \in Server /\ rfds \subseteq Server /\ listening \subseteq Server
          /\ iNewSocketId \in Conns \cup {None}
          /\ sfds \in 0 .. FdLimit /\ early \in 0 .. FdLimit
          /\ backlog \in [Server -> Seq(Conns)]
          /\ conn \in [Conns -> {"free", "open", "asked", "answered", "fin", "askedFin",
                                 "lost", "reset", "dead"}]
          /\ cpc \in [Clients -> {"off", "connect", "write", "read"}]
          /\ addr \in [Clients -> Server]
          /\ iSocketId \in [Clients -> Conns \cup {None}]

\* A probe that is answered costs the server no descriptor: it loses one only
\* to a client that went away while it was being served (lines 228 and 238).
LeaksAreAccounted == sfds <= early

\* The server and a client never wait for each other: when the server blocks in
\* Read (line 224) on a client that is there, that client is about to write and
\* does not wait for an answer itself.
NoMutualWait == spc = "read" /\ conn[iNewSocketId] = "open" =>
                    \E c \in Clients : iSocketId[c] = iNewSocketId /\ cpc[c] = "write"

\* What a server that is not stuck keeps, besides the types of its variables.
ServerIsSound == TypeOK /\ LeaksAreAccounted /\ NoMutualWait

\* The server can serve no one: it has lost all its descriptors, or it waits for
\* a machine that has vanished.
Stuck == \/ sfds = FdLimit
         \/ spc = "read" /\ conn[iNewSocketId] = "lost"

\* Every client that waits for its answer gets one, whatever the other clients
\* do at either address, unless the server is stuck or gone, or its machine
\* vanished and the client waits for ever (line 275).
EveryProbeReturns ==
    \A c \in Clients : cpc[c] = "read" ~>
        (cpc[c] # "read" \/ Stuck \/ conn[iSocketId[c]] = "dead")
==============================================================================
