---------------------------- MODULE SelectServer ----------------------------
(***************************************************************************)
(* socket/server.cpp: a select server that writes the time to every client  *)
(* it passes, and gives back in capitals what a client sends.  The client   *)
(* (socket/client.cpp) sends once, then receives for ever; it goes on       *)
(* sleeping when the connection is over.                                   *)
(*                                                                         *)
(* Sockets block: an end holds Room messages, and a write to a client that  *)
(* is full waits.  The count of 1024 bytes of a time or of a message is    *)
(* one message here.  select has no reason to fail.                        *)
(***************************************************************************)
EXTENDS TcpEnds, Sequences, FiniteSets, FiniteSetsExt, Functions

CONSTANTS MAX_ATTARCH_SIZE, Clients, Room,
          NONE        \* no client

SelectAssumption == /\ MAX_ATTARCH_SIZE \in Nat \ {0} /\ Room \in Nat \ {0}
                    /\ IsFiniteSet(Clients) /\ NONE \notin Clients

VARIABLES spc,        \* "select", "accept", "time", "read", "exit" or "killed"
          i, nready, maxi, maxFd,
          client,     \* the table: descriptors, or -1
          allset, rset,
          who,        \* the client at the other end of each descriptor
          backlog, tcp,
          cst,        \* "out", "new" (has not sent), "sent", "echoed"
          quiet       \* stopped when accepted, nothing unread, the server in select (history)

server == <<i, nready, maxi, maxFd, client, allset, rset, who>>
vars == <<spc, server, backlog, tcp, cst, quiet>>

iServFd == 0
Fds == 1 .. Cardinality(Clients)
Slots == 0 .. MAX_ATTARCH_SIZE - 1

Init == /\ spc = "select" /\ i = 0 /\ nready = 0 /\ maxi = -1 /\ maxFd = iServFd
        /\ client = [k \in Slots |-> -1]
        /\ allset = {iServFd} /\ rset = {}
        /\ who = [f \in Fds |-> NONE]
        /\ backlog = <<>>
        /\ tcp = [c \in Clients |-> NoConnection]
        /\ cst = [c \in Clients |-> "out"]
        /\ quiet = {}

----------------------------------------------------------------------------
(* The server *)

ReadyFds == {f \in allset : f <= maxFd /\ IF f = iServFd THEN backlog # <<>>
                                          ELSE Readable(tcp[who[f]].srv)}

\* On to the next client from slot k on, or to the next select.
Turn(k) == LET more == {j \in k .. maxi' : client'[j] >= 0}
           IN  IF more = {} THEN spc' = "select" /\ i' = 0 ELSE spc' = "time" /\ i' = Min(more)

\* Returns when something is ready, or after three seconds.
Select == /\ spc = "select"
          /\ rset' = ReadyFds /\ nready' = Cardinality(ReadyFds)
          /\ UNCHANGED <<maxi, maxFd, client, allset, who, backlog, tcp, cst, quiet>>
          /\ IF iServFd \in rset' THEN spc' = "accept" /\ i' = 0 ELSE Turn(0)

FreeSlots == {k \in Slots : client[k] < 0}
NewFd == Min({f \in Fds : who[f] = NONE})

\* A bug for Accept: the listening socket is not counted.
AcceptNotCounted == /\ spc = "accept"
                    /\ FreeSlots # {}
                    /\ client' = [client EXCEPT ![Min(FreeSlots)] = NewFd]
                    /\ who' = [who EXCEPT ![NewFd] = Head(backlog)]
                    /\ backlog' = Tail(backlog)
                    /\ allset' = allset \cup {NewFd}
                    /\ maxFd' = Max({maxFd, NewFd})
                    /\ maxi' = Max({maxi, Min(FreeSlots)})
                    /\ Turn(0)
                    /\ UNCHANGED <<nready, rset, tcp, cst, quiet>>

Accept == /\ spc = "accept"
          /\ FreeSlots # {}
          /\ client' = [client EXCEPT ![Min(FreeSlots)] = NewFd]
          /\ who' = [who EXCEPT ![NewFd] = Head(backlog)]
          /\ backlog' = Tail(backlog)
          /\ allset' = allset \cup {NewFd}
          /\ maxFd' = Max({maxFd, NewFd})
          /\ maxi' = Max({maxi, Min(FreeSlots)})
          /\ nready' = nready - 1
          /\ IF nready' = 0 THEN spc' = "select" /\ UNCHANGED i ELSE Turn(0)
          /\ UNCHANGED <<rset, tcp, cst, quiet>>

\* The process ends and the kernel closes its sockets.
Gone(how) == /\ spc' = how /\ i' = 0 /\ nready' = 0 /\ maxi' = -1 /\ maxFd' = iServFd
             /\ client' = [k \in Slots |-> -1]
             /\ allset' = {iServFd} /\ rset' = {}
             /\ who' = [f \in Fds |-> NONE]
             /\ backlog' = <<>>
             /\ tcp' = [c \in Clients |->
                          IF c \in Range(backlog) THEN Refused(tcp[c])
                          ELSE IF c \in Range(who) THEN Closed(tcp[c], "srv") ELSE tcp[c]]
             /\ UNCHANGED <<cst, quiet>>

\* accept fails, or "too many clients".
Exit == spc = "accept" /\ Gone("exit")

Cur == who[client[i]]
SocketOf(side) == tcp[Cur][side]

\* The time goes to every client in the table, ready or not.
WriteTime == /\ spc = "time"
             /\ SocketOf("srv").st # "pipe" /\ Writable(tcp[Cur], "srv", Room)
             /\ tcp' = [tcp EXCEPT ![Cur] = Sent(@, "srv")]
             /\ UNCHANGED <<nready, maxi, maxFd, client, allset, rset, who, backlog, cst, quiet>>
             /\ IF client[i] \in rset THEN spc' = "read" /\ UNCHANGED i ELSE Turn(i + 1)

\* One descriptor has been dealt with.
Counted == /\ nready' = nready - 1
           /\ UNCHANGED <<maxi, maxFd, rset, backlog, quiet>>
           /\ IF nready' = 0 THEN spc' = "select" /\ i' = 0 ELSE Turn(i + 1)

\* What was read is written back, when there is room.  It is read first, but
\* nobody can tell: only the server takes from this end.
Echo == /\ spc = "read"
        /\ SocketOf("srv").rx > 0
        /\ SocketOf("srv").st # "pipe" /\ Writable(tcp[Cur], "srv", Room)
        /\ tcp' = [tcp EXCEPT ![Cur] = Sent(Received(@, "srv"), "srv")]
        /\ cst' = [cst EXCEPT ![Cur] = IF @ = "sent" THEN "echoed" ELSE @]
        /\ UNCHANGED <<client, allset, who>>
        /\ Counted

\* read returns -1, and the write of -1 bytes that follows fails; the client stays.
ReadFails == /\ spc = "read"
             /\ SocketOf("srv").rx = 0 /\ SocketOf("srv").st = "rst"
             /\ tcp' = [tcp EXCEPT ![Cur].srv.st = "pipe"]
             /\ UNCHANGED <<client, allset, who, cst>>
             /\ Counted

\* A bug for Close: the end of the stream is taken for an empty message.
CloseNever == /\ spc = "read"
              /\ SocketOf("srv").rx = 0 /\ SocketOf("srv").st # "rst"
              /\ UNCHANGED <<tcp, client, allset, who, cst>>
              /\ Counted

Close == /\ spc = "read"
         /\ SocketOf("srv").rx = 0 /\ SocketOf("srv").st # "rst"
         /\ tcp' = [tcp EXCEPT ![Cur] = Closed(@, "srv")]
         /\ allset' = allset \ {client[i]}
         /\ client' = [client EXCEPT ![i] = -1]
         /\ who' = [who EXCEPT ![client[i]] = NONE]
         /\ UNCHANGED cst
         /\ Counted

\* A write to a connection that is known to be reset.
Killed == /\ \/ spc = "time"
             \/ spc = "read" /\ SocketOf("srv").rx > 0
          /\ SocketOf("srv").st = "pipe"
          /\ Gone("killed")

----------------------------------------------------------------------------
(* The clients *)

Connect(c) == /\ spc \notin {"exit", "killed"}
              /\ cst[c] = "out" /\ tcp[c] = NoConnection
              /\ cst' = [cst EXCEPT ![c] = "new"]
              /\ tcp' = [tcp EXCEPT ![c] = Connected]
              /\ backlog' = Append(backlog, c)
              /\ quiet' = quiet \ {c}
              /\ UNCHANGED <<spc, server>>

ClientSends(c) == /\ cst[c] = "new"
                  /\ cst' = [cst EXCEPT ![c] = "sent"]
                  /\ tcp' = [tcp EXCEPT ![c] = Sent(@, "cli")]
                  /\ UNCHANGED <<spc, server, backlog, quiet>>

ClientReceives(c) == /\ cst[c] \in {"sent", "echoed"} /\ tcp[c].cli.rx > 0
                     /\ tcp' = [tcp EXCEPT ![c] = Received(@, "cli")]
                     /\ UNCHANGED <<spc, server, backlog, cst, quiet>>

\* The user stops the client: it does not end by itself.
ClientStopped(c) == /\ cst[c] # "out"
                    /\ cst' = [cst EXCEPT ![c] = "out"]
                    /\ tcp' = [tcp EXCEPT ![c] = Closed(@, "cli")]
                    /\ quiet' = IF spc = "select" /\ c \in Range(who) /\ tcp[c].srv.rx = 0 /\ tcp[c].cli.rx = 0
                                THEN quiet \cup {c} ELSE quiet
                    /\ UNCHANGED <<spc, server, backlog>>

ResetArrives(c) == /\ \E side \in Sides : /\ tcp[c][side].st = "prov"
                                          /\ tcp' = [tcp EXCEPT ![c] = ResetAt(@, side)]
                   /\ UNCHANGED <<spc, server, backlog, cst, quiet>>

\* The server is gone, and so are its clients.
Ended == spc \in {"exit", "killed"} /\ UNCHANGED vars

Next == \/ Select \/ Accept \/ Exit \/ WriteTime \/ Echo \/ ReadFails \/ Close \/ Killed \/ Ended
        \/ \E c \in Clients : \/ Connect(c) \/ ClientSends(c) \/ ClientReceives(c)
                              \/ ClientStopped(c) \/ ResetArrives(c)

\* The processes run; a client that is stopped (not ended) for ever is left out.
Fairness == /\ WF_vars(Select \/ Accept \/ Exit \/ WriteTime \/ Echo \/ ReadFails \/ Close \/ Killed)
            /\ \A c \in Clients : /\ WF_vars(ClientSends(c)) /\ WF_vars(ResetArrives(c))
                                  /\ SF_vars(ClientReceives(c))

Spec == Init /\ [][Next]_vars /\ Fairness

----------------------------------------------------------------------------
(* Properties *)

\* The variables have their types, and no write overfills a client.
TypeOK == /\ spc \in {"select", "accept", "time", "read", "exit", "killed"}
          /\ i \in Slots /\ nready \in 0 .. Cardinality(Fds) + 1
          /\ maxi \in Slots \cup {-1} /\ maxFd \in Fds \cup {iServFd}
          /\ client \in [Slots -> Fds \cup {-1}]
          /\ allset \cup rset \subseteq Fds \cup {iServFd}
          /\ who \in [Fds -> Clients \cup {NONE}]
          /\ tcp \in [Clients -> [Sides -> End(Room)]]
          /\ cst \in [Clients -> {"out", "new", "sent", "echoed"}]
          /\ quiet \subseteq Clients /\ Range(backlog) \subseteq Clients

\* In a pass after select found something, nready counts the ready clients still
\* ahead: the loop is left early only when there are none, and a client accepted
\* in this pass is not taken for a ready one.
NreadyIsExact == spc \in {"time", "read"} /\ rset # {} =>
    nready = Cardinality({k \in i .. maxi : client[k] \in rset})

\* Slots, descriptors and the sets agree: each connected client has one slot that
\* the loop reaches (maxi) and one descriptor that select looks at (maxFd).
EverybodyIsWatched ==
    /\ allset = {iServFd} \cup (Range(client) \ {-1})
    /\ Range(client) \ {-1} = {f \in Fds : who[f] # NONE}
    /\ \A f \in allset : f <= maxFd
    /\ \A k \in Slots : client[k] >= 0 => k <= maxi /\ \A j \in Slots \ {k} : client[j] # client[k]

\* A client that is stopped while the server is in select and nothing is unread
\* on either side does not take the server with it: the end of the stream is
\* read in the very next pass, before a second time is written.  (One that is
\* still to be accepted can: if another client is ready in the pass that accepts
\* it, it is written to once in that pass and again before it is read.)
QuietLeaversAreHarmless ==
    [][(spc \in {"time", "read"} /\ spc' = "killed") => Cur \notin quiet]_vars

\* What client c sends comes back, unless the server or the client ends.
EchoedTo(c) == cst[c] = "sent" ~> (cst[c] # "sent" \/ spc \in {"exit", "killed"})
==============================================================================
