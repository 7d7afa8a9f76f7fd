---------------------------- MODULE EdgeTriggered ----------------------------
(***************************************************************************)
(* socket/network: the echo server epoll_tcp_udp.cpp, whose descriptors are  *)
(* all edge triggered, and the client select_non_block_connect.cpp, which    *)
(* waits for its connection for a limited time, says one thing and reads     *)
(* one answer.  A client may also be another program, that says more and     *)
(* leaves when it likes.                                                   *)
(*                                                                         *)
(* An edge triggered descriptor is reported once for all that arrived since  *)
(* it was last reported.  The server takes one connection and one datagram   *)
(* per report, but reads a connection until there is nothing left.          *)
(***************************************************************************)
EXTENDS TcpEnds, Sequences, FiniteSets, Functions

CONSTANTS Clients, NOBODY,
          Backlog,     \* connections that may wait to be accepted
          Room,        \* messages an end can hold
          Datagrams    \* bound: datagrams that are sent to the server

ASSUME EdgeAssumption == /\ IsFiniteSet(Clients) /\ NOBODY \notin Clients /\ {"tcpfd", "udpfd"} \cap Clients = {}
                         /\ {Backlog, Room, Datagrams} \subseteq Nat \ {0}

VARIABLES spc,         \* "wait", "event" (the loop over events), "recv", "send" or "killed"
          ready,       \* descriptors with an edge that epoll_wait has not reported
          events, cur, \* what it reported and is still to be handled; the client being read
          held, backlog, tcp,
          dgrams, answers,   \* datagrams at the server's socket; those it answered
          cpc,         \* the client: "out", "select", "send", "recv", "done", "failed" or
                       \* "refused" (failed, with a socket that is open and has no connection)
          merged, dmerged    \* connections and datagrams that came upon an unreported edge (history)

server == <<spc, events, cur, held>>
udp == <<dgrams, answers, dmerged>>
vars == <<server, ready, backlog, tcp, udp, cpc, merged>>

Init == /\ spc = "wait" /\ ready = {} /\ events = {} /\ cur = NOBODY
        /\ held = {} /\ backlog = <<>> /\ tcp = [c \in Clients |-> NoConnection]
        /\ dgrams = 0 /\ answers = 0 /\ dmerged = 0
        /\ cpc = [c \in Clients |-> "out"] /\ merged = 0

----------------------------------------------------------------------------
(* The server *)

epoll_wait == /\ spc = "wait" /\ ready # {}
              /\ spc' = "event"
              /\ events' = ready /\ ready' = {}
              /\ UNCHANGED <<cur, held, backlog, tcp, udp, cpc, merged>>

Handled == /\ spc = "event" /\ events = {}
           /\ spc' = "wait"
           /\ UNCHANGED <<ready, events, cur, held, backlog, tcp, udp, cpc, merged>>

Handles(fd) == spc = "event" /\ fd \in events /\ events' = events \ {fd}

\* A bug for Accept: the new descriptor is not added.
AcceptOnly == /\ Handles("tcpfd") /\ backlog # <<>>
              /\ held' = held \cup {Head(backlog)} /\ backlog' = Tail(backlog)
              /\ UNCHANGED <<spc, cur, ready, tcp, udp, cpc, merged>>

\* One connection is accepted; addfd finds out whether it is readable already.
Accept == /\ Handles("tcpfd") /\ backlog # <<>>
          /\ held' = held \cup {Head(backlog)} /\ backlog' = Tail(backlog)
          /\ ready' = IF Readable(tcp[Head(backlog)].srv) THEN ready \cup {Head(backlog)} ELSE ready
          /\ UNCHANGED <<spc, cur, tcp, udp, cpc, merged>>

Recvfrom == /\ Handles("udpfd") /\ dgrams > 0
            /\ dgrams' = dgrams - 1 /\ answers' = answers + 1
            /\ UNCHANGED <<spc, cur, held, ready, backlog, tcp, dmerged, cpc, merged>>

Reads(c) == /\ Handles(c)
            /\ spc' = "recv" /\ cur' = c
            /\ UNCHANGED <<held, ready, backlog, tcp, udp, cpc, merged>>

Recv == /\ spc = "recv" /\ cur \in held /\ tcp[cur].srv.rx > 0
        /\ tcp' = [tcp EXCEPT ![cur] = Received(@, "srv")]
        /\ spc' = "send"
        /\ UNCHANGED <<events, cur, held, ready, backlog, udp, cpc, merged>>

\* A bug for Send: the loop is left after one message.
SendOnce == /\ spc = "send" /\ tcp[cur].srv.st # "pipe"
            /\ tcp' = IF Writable(tcp[cur], "srv", Room) THEN [tcp EXCEPT ![cur] = Sent(@, "srv")] ELSE tcp
            /\ spc' = "event" /\ cur' = NOBODY
            /\ UNCHANGED <<events, held, ready, backlog, udp, cpc, merged>>

\* The answer is lost if there is no room for it: the socket does not block.
Send == /\ spc = "send" /\ tcp[cur].srv.st # "pipe"
        /\ tcp' = IF Writable(tcp[cur], "srv", Room) THEN [tcp EXCEPT ![cur] = Sent(@, "srv")] ELSE tcp
        /\ spc' = "recv"
        /\ UNCHANGED <<events, cur, held, ready, backlog, udp, cpc, merged>>

\* SIGPIPE.
Killed == /\ spc = "send" /\ tcp[cur].srv.st = "pipe"
          /\ spc' = "killed"
          /\ held' = {} /\ backlog' = <<>> /\ events' = {} /\ ready' = {} /\ cur' = NOBODY
          /\ tcp' = [c \in Clients |-> IF c \in Range(backlog) THEN Refused(tcp[c])
                                       ELSE IF c \in held THEN Closed(tcp[c], "srv") ELSE tcp[c]]
          /\ UNCHANGED <<udp, cpc, merged>>

\* recv returns -1: nothing is left, an error that closes the socket, or, after
\* RecvEof, a descriptor that is closed already (and is closed again).
RecvFails == /\ spc = "recv"
             /\ \/ cur \notin held /\ UNCHANGED <<held, tcp>>
                \/ cur \in held /\ ~Readable(tcp[cur].srv) /\ UNCHANGED <<held, tcp>>
                \/ /\ cur \in held /\ tcp[cur].srv.rx = 0 /\ tcp[cur].srv.st = "rst"
                   /\ held' = held \ {cur} /\ tcp' = [tcp EXCEPT ![cur] = Closed(@, "srv")]
             /\ ready' = ready \ (Clients \ held')
             /\ spc' = "event" /\ cur' = NOBODY
             /\ UNCHANGED <<events, backlog, udp, cpc, merged>>

\* recv returns 0: the socket is closed and the loop goes on.
RecvEof == /\ spc = "recv" /\ cur \in held
           /\ tcp[cur].srv.rx = 0 /\ tcp[cur].srv.st \in {"fin", "prov", "pipe"}
           /\ held' = held \ {cur} /\ ready' = ready \ {cur}
           /\ tcp' = [tcp EXCEPT ![cur] = Closed(@, "srv")]
           /\ UNCHANGED <<spc, events, cur, backlog, udp, cpc, merged>>

----------------------------------------------------------------------------
(* The clients *)

\* Something arrives for c at the server.
Edge(c) == ready' = IF c \in held THEN ready \cup {c} ELSE ready

Goes(c, to) == cpc' = [cpc EXCEPT ![c] = to]

\* connect returns EINPROGRESS, or an error: then the socket is not closed.
non_block_connect(c) == /\ cpc[c] = "out"
                        /\ Goes(c, "select") \/ (spc = "killed" /\ Goes(c, "refused"))
                        /\ UNCHANGED <<server, ready, backlog, tcp, udp, merged>>

\* The kernel connects, unless too many connections wait; a dead server's answers with a reset.
Made(c) == /\ cpc[c] = "select" /\ tcp[c] = NoConnection
           /\ IF spc = "killed" THEN tcp' = [tcp EXCEPT ![c] = Refused(Connected)] /\ UNCHANGED <<ready, backlog, merged>>
              ELSE /\ Len(backlog) < Backlog
                   /\ backlog' = Append(backlog, c) /\ tcp' = [tcp EXCEPT ![c] = Connected]
                   /\ ready' = ready \cup {"tcpfd"}
                   /\ merged' = IF "tcpfd" \in ready THEN merged + 1 ELSE merged
           /\ UNCHANGED <<server, udp, cpc>>

\* select reports the socket as writable and getsockopt tells why: an end of the
\* stream is no error.
SelectReturns(c) == /\ cpc[c] = "select" /\ tcp[c] # NoConnection
                    /\ IF tcp[c].cli.st \in {"open", "fin"} THEN Goes(c, "send") /\ UNCHANGED <<tcp, ready>>
                       ELSE Goes(c, "failed") /\ tcp' = [tcp EXCEPT ![c] = Closed(@, "cli")] /\ Edge(c)
                    /\ UNCHANGED <<server, backlog, udp, merged>>

\* A bug for SelectTimeout: the socket is not closed.
SelectTimeoutOpen(c) == /\ cpc[c] = "select"
                        /\ Goes(c, "failed")
                        /\ UNCHANGED <<server, ready, backlog, tcp, udp, merged>>

\* Ten seconds are over; the connection may have been made since.
SelectTimeout(c) == /\ cpc[c] = "select"
                    /\ Goes(c, "failed") /\ tcp' = [tcp EXCEPT ![c] = Closed(@, "cli")] /\ Edge(c)
                    /\ UNCHANGED <<server, backlog, udp, merged>>

\* main sends once, another program again, until SIGPIPE kills it (as Leaves does).
ClientSends(c) == /\ cpc[c] \in {"send", "recv"}
                  /\ tcp[c].cli.st # "pipe" /\ Writable(tcp[c], "cli", Room)
                  /\ Goes(c, "recv") /\ tcp' = [tcp EXCEPT ![c] = Sent(@, "cli")] /\ Edge(c)
                  /\ UNCHANGED <<server, backlog, udp, merged>>

\* recv blocks until there is something; then main closes the socket and ends.
ClientReads(c) == /\ cpc[c] = "recv" /\ Readable(tcp[c].cli)
                  /\ LET t == IF tcp[c].cli.rx > 0 THEN Received(tcp[c], "cli") ELSE tcp[c]
                     IN tcp' = [tcp EXCEPT ![c] = Closed(t, "cli")]
                  /\ Goes(c, "done") /\ Edge(c)
                  /\ UNCHANGED <<server, backlog, udp, merged>>

\* Another program, or one that is stopped or killed.
Leaves(c) == /\ cpc[c] \in {"send", "recv"}
             /\ Goes(c, "failed") /\ tcp' = [tcp EXCEPT ![c] = Closed(@, "cli")] /\ Edge(c)
             /\ UNCHANGED <<server, backlog, udp, merged>>

ResetArrives(c) == /\ \E side \in Sides : /\ tcp[c][side].st = "prov"
                                          /\ tcp' = [tcp EXCEPT ![c] = ResetAt(@, side)]
                   /\ Edge(c)
                   /\ UNCHANGED <<server, backlog, udp, cpc, merged>>

Datagram == /\ spc # "killed" /\ dgrams + answers < Datagrams
            /\ dgrams' = dgrams + 1 /\ UNCHANGED answers
            /\ ready' = ready \cup {"udpfd"}
            /\ dmerged' = IF "udpfd" \in ready THEN dmerged + 1 ELSE dmerged
            /\ UNCHANGED <<server, backlog, tcp, cpc, merged>>

ServerRuns == \/ epoll_wait \/ Handled \/ Accept \/ Recvfrom \/ Recv \/ Send \/ Killed \/ RecvFails \/ RecvEof
              \/ \E c \in Clients : Reads(c)

Next == \/ ServerRuns \/ Datagram
        \/ \E c \in Clients : \/ non_block_connect(c) \/ Made(c) \/ SelectReturns(c) \/ SelectTimeout(c)
                              \/ ClientSends(c) \/ ClientReads(c) \/ Leaves(c) \/ ResetArrives(c)

\* The server and the kernel go on, and so does a client whose call returns.
Fairness == /\ WF_vars(ServerRuns)
            /\ \A c \in Clients : /\ WF_vars(Made(c)) /\ WF_vars(SelectReturns(c) \/ SelectTimeout(c))
                                  /\ WF_vars(cpc[c] = "send" /\ ClientSends(c)) /\ WF_vars(ClientReads(c))
                                  /\ WF_vars(ResetArrives(c))

Spec == Init /\ [][Next]_vars /\ Fairness

----------------------------------------------------------------------------
(* Properties *)

\* Types; epoll knows only descriptors that are open.
TypeOK == /\ spc \in {"wait", "event", "recv", "send", "killed"} /\ cur \in Clients \cup {NOBODY}
          /\ ready \subseteq held \cup {"tcpfd", "udpfd"} /\ events \subseteq held \cup {"tcpfd", "udpfd"}
          /\ tcp \in [Clients -> [Sides -> End(Room)]] /\ Len(backlog) <= Backlog
          /\ dgrams \in 0 .. Datagrams /\ answers \in 0 .. Datagrams
          /\ cpc \in [Clients -> {"out", "select", "send", "recv", "done", "failed", "refused"}]

\* The server is exactly as many connections and datagrams behind as came upon
\* an edge that was not reported yet: with one accept and one recvfrom per report
\* they wait until another one comes, and are never made up for.
BehindByMerged == spc # "killed" =>
    LET Under(fd) == Cardinality({fd} \cap ready) + Cardinality({fd} \cap events)
    IN Len(backlog) = merged + Under("tcpfd") /\ dgrams = dmerged + Under("udpfd")

\* Whatever a connection the server holds has for it, an edge or the loop will find.
NoEdgeIsLost == \A c \in held : Readable(tcp[c].srv) => c \in ready \cup events \cup {cur}

\* The server is behind by what came upon an unreported edge and no more, and
\* whatever a connection has for it will be found.
EdgesAreKept == TypeOK /\ BehindByMerged /\ NoEdgeIsLost

\* non_block_connect returns only a connection that was made: the server holds it
\* or it waits to be accepted, or the server has ended it since.  When it fails it
\* has closed its socket, also if the time is over just when the connection is made,
\* but for a connect that fails at once.
OnlyMadeIsReturned == [][\A c \in Clients : cpc[c] \in {"out", "select"} /\ cpc'[c] \notin {"out", "select"} =>
    \/ cpc'[c] = "send" /\ tcp'[c].cli.st = "open" /\ c \in held' \cup Range(backlog')
    \/ cpc'[c] = "send" /\ tcp'[c].cli.st = "fin"
    \/ cpc'[c] = "failed" /\ tcp'[c].cli.st = "closed"
    \/ cpc'[c] = "refused" /\ cpc[c] = "out"]_vars

\* A client that has its connection says its word and gets the answer, or the end
\* of the connection, unless a connection was merged: then it may wait for ever,
\* since recv has no time limit.
AnswersArrive == \A c \in Clients :
    cpc[c] \in {"send", "recv"} ~> cpc[c] \in {"done", "failed"} \/ merged > 0

\* The server closes every connection it holds whose client has gone.
GoneAreClosed == \A c \in Clients :
    c \in held /\ cpc[c] \in {"done", "failed"} ~> c \notin held
==============================================================================
