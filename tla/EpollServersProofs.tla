------------------------- MODULE EpollServersProofs -------------------------
(***************************************************************************)
(* Proofs about the servers of MCEpollServers.                             *)
(*                                                                         *)
(* EdgeTriggered, for every number of clients, every backlog and every     *)
(* number of messages and datagrams.  The server is as far behind as edges *)
(* were merged because it takes one connection and one datagram per report, *)
(* and reports are only in ready or in events; no edge is lost because the *)
(* connection being read is no longer in events and there is no other.     *)
(*                                                                         *)
(* EpollPorts, for every number of ports and of messages.  A batch has one *)
(* event of a connection, and what was reported as writable stays so until *)
(* it is handled: so the client closes only connections that are open, and *)
(* each of them is taken off icnt or counted as an error.                  *)
(*                                                                         *)
(* HttpServer, for every number of clients, descriptors, messages and cuts. *)
(* A browser waits for its page, so what the server has to read from it,   *)
(* what it writes to it and what the browser has to read are one text or   *)
(* page, and one more for each request that recv cut.                      *)
(***************************************************************************)
EXTENDS MCEpollServers, FiniteSetTheorems, TLAPS

\* Connections whose ends hold up to room messages, and those of EdgeTriggered.
EndsOf(room) == [Sides -> End(room)]
Ends == EndsOf(Room)

\* The types, in three parts: the server, the connections and the clients.
TypeServer == /\ spc \in {"wait", "event", "recv", "send", "killed"} /\ cur \in Clients \cup {NOBODY}
              /\ held \subseteq Clients
              /\ ready \subseteq held \cup {"tcpfd", "udpfd"}
              /\ events \subseteq held \cup {"tcpfd", "udpfd"}

TypeConns == tcp \in [Clients -> Ends] /\ backlog \in Seq(Clients) /\ Len(backlog) <= Backlog

TypeCounts == /\ dgrams \in Nat /\ answers \in Nat /\ dgrams + answers <= Datagrams
              /\ merged \in Nat /\ dmerged \in Nat
              /\ cpc \in [Clients -> {"out", "select", "send", "recv", "done", "failed", "refused"}]

\* Where the loops are: all events are handled before epoll_wait, and the
\* connection that is read has been taken out of them.
PlaceInv == /\ spc = "wait" => events = {}
            /\ spc \in {"recv", "send"} => cur \in Clients /\ cur \notin events
            /\ spc \in {"wait", "event"} => cur = NOBODY

\* One report, in ready or in events.
One(fd, S) == IF fd \in S THEN 1 ELSE 0

\* The server is behind by the reports that are due and the edges that were merged.
BehindInv == spc # "killed" => /\ Len(backlog) = merged + One("tcpfd", ready) + One("tcpfd", events)
                               /\ dgrams = dmerged + One("udpfd", ready) + One("udpfd", events)

IInv == TypeServer /\ TypeConns /\ TypeCounts /\ PlaceInv /\ BehindInv /\ NoEdgeIsLost

\* A client that is not told of an end has the server at the other one: it holds the
\* connection, or has yet to accept it.
PeerInv == \A c \in Clients : tcp[c]["cli"].st = "open" => c \in held \cup Range(backlog)

----------------------------------------------------------------------------
(* What the operators of TcpEnds make of a connection *)

\* The bounds are numbers and no client is a socket of the server.
LEMMA ConstantFacts ==
  /\ Room \in Nat /\ Room > 0 /\ Backlog \in Nat /\ Datagrams \in Nat
         /\ "tcpfd" \notin Clients /\ "udpfd" \notin Clients /\ NOBODY \notin Clients
  BY EdgeAssumption

\* The two sides of a connection.
LEMMA OtherFacts == /\ "srv" \in Sides /\ "cli" \in Sides
                    /\ Other("srv") = "cli" /\ Other("cli") = "srv"
                    /\ \A side \in Sides : Other(side) \in Sides /\ Other(side) # side
  BY DEF Other, Sides

\* The ends of a connection.
LEMMA EndFacts ==
  ASSUME NEW room \in Nat, NEW t \in EndsOf(room)
  PROVE  /\ \A side \in Sides : t[side] \in End(room)
         /\ t["srv"] \in End(room) /\ t["srv"].rx \in 0 .. room /\ t["srv"].rx \in Nat
         /\ t["cli"] \in End(room) /\ t["cli"].rx \in 0 .. room /\ t["cli"].rx \in Nat
         /\ t.srv = t["srv"] /\ t.cli = t["cli"]
<1>1. \A side \in Sides : t[side] \in End(room)
  BY DEF EndsOf
<1>2. t["srv"] \in End(room) /\ t["cli"] \in End(room)
  BY <1>1, OtherFacts
<1>3. t.srv = t["srv"] /\ t.cli = t["cli"]
  BY DEF EndsOf, Sides
<1> QED BY <1>1, <1>2, <1>3 DEF End

\* A connection that is not there, and a fresh one.
LEMMA FreshFacts ==
  ASSUME NEW room \in Nat
  PROVE  /\ NoEnd \in End(room) /\ NoEnd.rx = 0 /\ NoEnd.st = "closed"
         /\ Connected \in EndsOf(room) /\ NoConnection \in EndsOf(room)
         /\ NoConnection["srv"] = NoEnd /\ NoConnection["cli"] = NoEnd
         /\ Connected["srv"].st = "open" /\ Connected["cli"].st = "open"
         /\ Connected["srv"].rx = 0 /\ Connected["cli"].rx = 0
<1>1. [rx |-> 0, st |-> "open"] \in End(room) /\ NoEnd \in End(room)
  BY DEF End, NoEnd
<1>2. NoEnd.rx = 0 /\ NoEnd.st = "closed"
  BY DEF NoEnd
<1> QED BY <1>1, <1>2, OtherFacts DEF Connected, NoConnection, EndsOf

\* recv takes one message.
LEMMA ReceivedFacts ==
  ASSUME NEW room \in Nat, NEW t \in EndsOf(room), NEW side \in Sides, t[side].rx > 0
  PROVE  /\ Received(t, side) \in EndsOf(room)
         /\ Received(t, side)[side].rx = t[side].rx - 1
         /\ Received(t, side)[side].st = t[side].st
         /\ Received(t, side)[Other(side)] = t[Other(side)]
<1> DEFINE e == [t[side] EXCEPT !.rx = t[side].rx - 1]
<1>1. Received(t, side) = [t EXCEPT ![side] = e]
  BY Zenon DEF Received
<1>2. t[side] \in End(room)
  BY EndFacts
<1>3. e \in End(room) /\ e.rx = t[side].rx - 1 /\ e.st = t[side].st
  BY <1>2 DEF End
<1> HIDE DEF e
<1> QED BY <1>1, <1>3, OtherFacts DEF EndsOf

\* send adds a message to the other end, or moves this end on.
LEMMA SentFacts ==
  ASSUME NEW room \in Nat, NEW t \in EndsOf(room), NEW side \in Sides,
         t[side].st = "open" => t[Other(side)].rx < room
  PROVE  /\ Sent(t, side) \in EndsOf(room)
         /\ Sent(t, side)[side].rx = t[side].rx
         /\ Sent(t, side)[side].st = IF t[side].st = "fin" THEN "prov"
                                     ELSE IF t[side].st = "rst" THEN "pipe" ELSE t[side].st
         /\ Sent(t, side)[Other(side)].st = t[Other(side)].st
         /\ Sent(t, side)[Other(side)].rx = IF t[side].st = "open" THEN t[Other(side)].rx + 1
                                            ELSE t[Other(side)].rx
<1> DEFINE o == Other(side)
<1>1. t[side] \in End(room) /\ t[o] \in End(room) /\ o \in Sides /\ o # side
  BY EndFacts, OtherFacts
<1>2. CASE t[side].st = "open"
  <2> DEFINE e == [t[o] EXCEPT !.rx = t[o].rx + 1]
  <2>1. Sent(t, side) = [t EXCEPT ![o] = e]
    BY <1>2, Zenon DEF Sent
  <2>2. e \in End(room) /\ e.st = t[o].st /\ e.rx = t[o].rx + 1
    BY <1>1, <1>2 DEF End
  <2> HIDE DEF e
  <2> QED BY <1>1, <1>2, <2>1, <2>2 DEF EndsOf
<1>3. CASE t[side].st \in {"fin", "rst"}
  <2> DEFINE s == IF t[side].st = "fin" THEN "prov" ELSE "pipe"
             e == [t[side] EXCEPT !.st = s]
  <2>1. Sent(t, side) = [t EXCEPT ![side] = e]
    <3>1. CASE t[side].st = "fin"
      BY <3>1, Zenon DEF Sent
    <3>2. CASE t[side].st = "rst"
      BY <3>2, Zenon DEF Sent
    <3> QED BY <1>3, <3>1, <3>2
  <2>2. e \in End(room) /\ e.st = s /\ e.rx = t[side].rx
    BY <1>1 DEF End
  <2> HIDE DEF e
  <2> QED BY <1>1, <1>3, <2>1, <2>2 DEF EndsOf
<1>4. CASE t[side].st \notin {"open", "fin", "rst"}
  <2>1. Sent(t, side) = t
    BY <1>4, Zenon DEF Sent
  <2> QED BY <1>4, <2>1
<1> QED BY <1>2, <1>3, <1>4

\* close ends this side, and the peer is told unless it knows already.
LEMMA ClosedFacts ==
  ASSUME NEW room \in Nat, NEW t \in EndsOf(room), NEW side \in Sides
  PROVE  /\ Closed(t, side) \in EndsOf(room)
         /\ Closed(t, side)[side] = NoEnd
         /\ Closed(t, side)[Other(side)].rx = t[Other(side)].rx
         /\ Closed(t, side)[Other(side)].st = IF t[Other(side)].st # "open" THEN t[Other(side)].st
                                              ELSE IF t[side].rx > 0 THEN "rst" ELSE "fin"
<1> DEFINE o == Other(side)
           e == Told(t[o], t[side].rx > 0)
<1>1. Closed(t, side) = [t EXCEPT ![side] = NoEnd, ![o] = e]
  BY Zenon DEF Closed
<1>2. t[o] \in End(room) /\ o \in Sides /\ o # side
  BY EndFacts, OtherFacts
<1>3. /\ e \in End(room) /\ e.rx = t[o].rx
      /\ e.st = IF t[o].st # "open" THEN t[o].st ELSE IF t[side].rx > 0 THEN "rst" ELSE "fin"
  BY <1>2 DEF Told, End
<1>4. NoEnd \in End(room)
  BY FreshFacts
<1> HIDE DEF e
<1> QED BY <1>1, <1>2, <1>3, <1>4 DEF EndsOf

\* A connection that is never accepted is closed here and reset there.
LEMMA RefusedFacts ==
  ASSUME NEW room \in Nat, NEW t \in EndsOf(room)
  PROVE  /\ Refused(t) \in EndsOf(room) /\ Refused(t)["srv"] = NoEnd
         /\ Refused(t)["cli"].rx = t["cli"].rx
         /\ Refused(t)["cli"].st = IF t["cli"].st # "open" THEN t["cli"].st ELSE "rst"
<1> DEFINE e == Told(t["cli"], TRUE)
<1>1. Refused(t) = [t EXCEPT !["srv"] = NoEnd, !["cli"] = e]
  BY Zenon DEF Refused
<1>2. t["cli"] \in End(room) /\ NoEnd \in End(room)
  BY EndFacts, FreshFacts
<1>3. e \in End(room) /\ e.rx = t["cli"].rx /\ e.st = IF t["cli"].st # "open" THEN t["cli"].st ELSE "rst"
  BY <1>2 DEF Told, End
<1> HIDE DEF e
<1> QED BY <1>1, <1>2, <1>3 DEF EndsOf, Sides

\* The reset that was provoked arrives: from now on a send kills the sender.
LEMMA ResetFacts ==
  ASSUME NEW room \in Nat, NEW t \in EndsOf(room), NEW side \in Sides
  PROVE  /\ ResetAt(t, side) \in EndsOf(room)
         /\ ResetAt(t, side)[side].st = "pipe" /\ ResetAt(t, side)[side].rx = t[side].rx
         /\ ResetAt(t, side)[Other(side)] = t[Other(side)]
<1> DEFINE e == [t[side] EXCEPT !.st = "pipe"]
<1>1. ResetAt(t, side) = [t EXCEPT ![side] = e]
  BY Zenon DEF ResetAt
<1>2. t[side] \in End(room)
  BY EndFacts
<1>3. e \in End(room) /\ e.rx = t[side].rx /\ e.st = "pipe"
  BY <1>2 DEF End
<1> HIDE DEF e
<1> QED BY <1>1, <1>3, OtherFacts DEF EndsOf

\* The two sides of a connection and their ends.
LEMMA SideFacts ==
  ASSUME NEW t \in Ends, NEW side \in Sides
  PROVE  /\ t[side] \in End(Room) /\ t[side].rx \in 0 .. Room /\ t[side].rx \in Nat
         /\ Other(side) \in Sides /\ Other(side) # side
         /\ t.srv = t["srv"] /\ t.cli = t["cli"]
<1>1. t \in EndsOf(Room)
  BY DEF Ends
<1>2. t[side] \in End(Room) /\ t.srv = t["srv"] /\ t.cli = t["cli"]
  BY <1>1, EndFacts, ConstantFacts
<1> QED BY <1>2, OtherFacts, ConstantFacts DEF End

\* A connection that was just made, was never made, or was refused: the server
\* has nothing to read from it.
LEMMA NewFacts ==
  /\ NoEnd \in End(Room) /\ NoConnection \in Ends
         /\ Connected \in Ends /\ Refused(Connected) \in Ends
         /\ ~Readable(Connected.srv) /\ ~Readable(Refused(Connected).srv)
<1>1. /\ NoEnd \in End(Room) /\ NoEnd.rx = 0 /\ NoEnd.st = "closed"
      /\ NoConnection \in Ends /\ Connected \in Ends
      /\ Connected["srv"].st = "open" /\ Connected["srv"].rx = 0
  BY FreshFacts, ConstantFacts DEF Ends
<1>2. Refused(Connected) \in Ends /\ Refused(Connected)["srv"] = NoEnd
  BY <1>1, RefusedFacts, ConstantFacts DEF Ends
<1>3. Connected.srv = Connected["srv"] /\ Refused(Connected).srv = Refused(Connected)["srv"]
  BY <1>1, <1>2, SideFacts, OtherFacts
<1> QED BY <1>1, <1>2, <1>3 DEF Readable

\* recv leaves a connection.
LEMMA ReceivedType ==
  ASSUME NEW t \in Ends, NEW side \in Sides, t[side].rx > 0
  PROVE  Received(t, side) \in Ends
  BY ReceivedFacts, ConstantFacts DEF Ends

\* send leaves a connection, if there is room.
LEMMA SentType ==
  ASSUME NEW t \in Ends, NEW side \in Sides, Writable(t, side, Room)
  PROVE  Sent(t, side) \in Ends
  BY SentFacts, ConstantFacts DEF Ends, Writable

\* close leaves a connection.
LEMMA ClosedType ==
  ASSUME NEW t \in Ends, NEW side \in Sides
  PROVE  Closed(t, side) \in Ends /\ Closed(t, side)[side] = NoEnd
  BY ClosedFacts, ConstantFacts DEF Ends

\* The reset that arrives leaves a connection.
LEMMA ResetType ==
  ASSUME NEW t \in Ends, NEW side \in Sides
  PROVE  ResetAt(t, side) \in Ends
  BY ResetFacts, ConstantFacts DEF Ends

\* The server that is killed takes all its connections along.
LEMMA RefusedType ==
  ASSUME NEW t \in Ends
  PROVE  Refused(t) \in Ends
  BY RefusedFacts, ConstantFacts DEF Ends

----------------------------------------------------------------------------
(* The steps *)

\* Nothing is connected at the start.
LEMMA InitKeeps ==
  ASSUME Init
  PROVE  IInv
<1>1. TypeConns
  <2>1. <<>> \in Seq(Clients) /\ Len(<<>>) = 0
    OBVIOUS
  <2> QED BY <2>1, NewFacts, ConstantFacts DEF Init, TypeConns
<1>2. BehindInv
  BY DEF Init, BehindInv, One
<1> QED BY <1>1, <1>2, ConstantFacts DEF Init, IInv, TypeServer, TypeCounts, PlaceInv, NoEdgeIsLost

\* Whatever a client does to its connection comes with an edge, so that the server
\* will look at it if it holds it; the edges of the two sockets stay as they are.
LEMMA ClientKeeps ==
  ASSUME IInv, NEW c \in Clients, NEW h \in Ends,
         tcp' = [tcp EXCEPT ![c] = h], Edge(c), UNCHANGED <<server, backlog, udp, merged>>,
         cpc' \in [Clients -> {"out", "select", "send", "recv", "done", "failed", "refused"}]
  PROVE  IInv'
<1>1. TypeServer' /\ TypeCounts' /\ PlaceInv'
  BY DEF IInv, TypeServer, TypeCounts, PlaceInv, Edge, server, udp
<1>2. TypeConns'
  BY DEF IInv, TypeConns
<1>3. BehindInv'
  <2>1. One("tcpfd", ready') = One("tcpfd", ready) /\ One("udpfd", ready') = One("udpfd", ready)
    BY ConstantFacts DEF Edge, One
  <2> QED BY <2>1 DEF IInv, BehindInv, server, udp
<1>4. NoEdgeIsLost'
  <2>1. \A d \in Clients : d # c => tcp'[d] = tcp[d]
    BY DEF IInv, TypeConns
  <2>2. ready \subseteq ready' /\ (c \in held => c \in ready')
    BY DEF Edge
  <2> QED BY <2>1, <2>2 DEF IInv, NoEdgeIsLost, TypeServer, server
<1> QED BY <1>1, <1>2, <1>3, <1>4 DEF IInv

\* What the server does to the connection it reads, which the loop will come back
\* to or which has nothing left, takes away no edge of another one.
LEMMA ReadKeeps ==
  ASSUME IInv, spc \in {"recv", "send"}, NEW h \in Ends,
         tcp' = [tcp EXCEPT ![cur] = h],
         \/ UNCHANGED <<held, ready>>
         \/ held' = held \ {cur} /\ ready' = ready \ {cur},
         UNCHANGED <<events, backlog, udp, cpc, merged>>,
         \/ spc' \in {"recv", "send"} /\ cur' = cur
         \/ spc' = "event" /\ cur' = NOBODY /\ (cur \in held' => ~Readable(h.srv))
  PROVE  IInv'
<1>1. cur \in Clients /\ cur \notin events /\ held \subseteq Clients
  BY DEF IInv, PlaceInv, TypeServer
<1>2. TypeServer'
  BY <1>1 DEF IInv, TypeServer
<1>3. TypeConns' /\ TypeCounts' /\ PlaceInv'
  BY <1>1 DEF IInv, TypeConns, TypeCounts, PlaceInv, udp
<1>4. BehindInv'
  <2>1. One("tcpfd", ready') = One("tcpfd", ready) /\ One("udpfd", ready') = One("udpfd", ready)
    BY <1>1, ConstantFacts DEF One
  <2> QED BY <2>1 DEF IInv, BehindInv, udp
<1>5. NoEdgeIsLost'
  <2>1. /\ \A d \in Clients : d # cur => tcp'[d] = tcp[d]
        /\ tcp'[cur] = h
    BY <1>1 DEF IInv, TypeConns
  <2>2. SUFFICES ASSUME NEW d \in held', Readable(tcp'[d].srv)
                 PROVE  d \in ready' \cup events \cup {cur'}
    BY DEF NoEdgeIsLost
  <2>3. CASE d = cur
    BY <2>1, <2>2, <2>3
  <2>4. CASE d # cur
    BY <1>1, <2>1, <2>2, <2>4 DEF IInv, NoEdgeIsLost
  <2> QED BY <2>3, <2>4
<1> QED BY <1>2, <1>3, <1>4, <1>5 DEF IInv

\* epoll_wait, the end of the loop, one connection, one datagram and the event of
\* a connection: a report moves from ready to events and is taken from there once.
LEMMA LoopKeeps ==
  ASSUME IInv,
         epoll_wait \/ Handled \/ Accept \/ Recvfrom \/ \E c \in Clients : Reads(c)
  PROVE  IInv'
<1> USE DEF IInv
<1>1. CASE epoll_wait
  <2>1. TypeServer' /\ TypeConns' /\ TypeCounts' /\ PlaceInv'
    BY <1>1 DEF epoll_wait, TypeServer, TypeConns, TypeCounts, PlaceInv, udp
  <2>2. BehindInv'
    <3>1. events = {} /\ ready' = {} /\ events' = ready /\ spc # "killed"
      BY <1>1 DEF epoll_wait, PlaceInv
    <3> QED BY <1>1, <3>1 DEF epoll_wait, BehindInv, One, TypeCounts, udp
  <2>3. NoEdgeIsLost'
    BY <1>1 DEF epoll_wait, NoEdgeIsLost, PlaceInv
  <2> QED BY <2>1, <2>2, <2>3
<1>2. CASE Handled
  <2>1. TypeServer' /\ TypeConns' /\ TypeCounts' /\ PlaceInv' /\ NoEdgeIsLost'
    BY <1>2 DEF Handled, TypeServer, TypeConns, TypeCounts, PlaceInv, NoEdgeIsLost, udp
  <2>2. BehindInv'
    BY <1>2 DEF Handled, BehindInv, udp
  <2> QED BY <2>1, <2>2
<1>3. CASE Accept
  <2> DEFINE c == Head(backlog)
  <2>1. /\ c \in Clients /\ Tail(backlog) \in Seq(Clients)
        /\ Len(backlog) \in Nat /\ Len(Tail(backlog)) = Len(backlog) - 1
    BY <1>3 DEF Accept, TypeConns
  <2>2. /\ spc = "event" /\ "tcpfd" \in events /\ events' = events \ {"tcpfd"}
        /\ held' = held \cup {c} /\ backlog' = Tail(backlog)
        /\ ready' = IF Readable(tcp[c].srv) THEN ready \cup {c} ELSE ready
        /\ UNCHANGED <<spc, cur, tcp, dgrams, answers, dmerged, cpc, merged>>
    BY <1>3 DEF Accept, Handles, udp
  <2> HIDE DEF c
  <2>3. TypeServer'
    BY <2>1, <2>2 DEF TypeServer
  <2>4. TypeConns' /\ TypeCounts'
    BY <2>1, <2>2, ConstantFacts DEF TypeConns, TypeCounts
  <2>5. PlaceInv'
    BY <2>2 DEF PlaceInv
  <2>6. BehindInv'
    <3>1. /\ One("tcpfd", ready') = One("tcpfd", ready) /\ One("udpfd", ready') = One("udpfd", ready)
          /\ One("tcpfd", events) = 1 /\ One("tcpfd", events') = 0
          /\ One("udpfd", events') = One("udpfd", events)
          /\ One("tcpfd", ready) \in Nat
      BY <2>1, <2>2, ConstantFacts DEF One
    <3>2. /\ Len(backlog) = merged + One("tcpfd", ready) + One("tcpfd", events)
          /\ dgrams = dmerged + One("udpfd", ready) + One("udpfd", events) /\ merged \in Nat
      BY <2>2 DEF BehindInv, TypeCounts
    <3>3. Len(backlog') = merged' + One("tcpfd", ready') + One("tcpfd", events')
      BY <2>1, <2>2, <3>1, <3>2
    <3>4. dgrams' = dmerged' + One("udpfd", ready') + One("udpfd", events')
      BY <2>2, <3>1, <3>2
    <3> QED BY <3>3, <3>4 DEF BehindInv
  <2>7. NoEdgeIsLost'
    BY <2>1, <2>2, ConstantFacts DEF NoEdgeIsLost, TypeServer
  <2> QED BY <2>3, <2>4, <2>5, <2>6, <2>7
<1>4. CASE Recvfrom
  <2>1. /\ spc = "event" /\ "udpfd" \in events /\ events' = events \ {"udpfd"}
        /\ dgrams > 0 /\ dgrams' = dgrams - 1 /\ answers' = answers + 1
        /\ UNCHANGED <<spc, cur, held, ready, backlog, tcp, dmerged, cpc, merged>>
    BY <1>4 DEF Recvfrom, Handles
  <2>2. TypeServer' /\ PlaceInv' /\ TypeConns'
    BY <2>1 DEF TypeServer, PlaceInv, TypeConns
  <2>3. TypeCounts'
    BY <2>1, ConstantFacts DEF TypeCounts
  <2>4. BehindInv'
    <3>1. /\ One("udpfd", events) = 1 /\ One("udpfd", events') = 0
          /\ One("tcpfd", events') = One("tcpfd", events) /\ One("udpfd", ready) \in Nat
      BY <2>1 DEF One
    <3> QED BY <2>1, <3>1 DEF BehindInv, TypeCounts
  <2>5. NoEdgeIsLost'
    BY <2>1, ConstantFacts DEF NoEdgeIsLost, TypeServer
  <2> QED BY <2>2, <2>3, <2>4, <2>5
<1>5. ASSUME NEW c \in Clients, Reads(c) PROVE IInv'
  <2>1. /\ spc = "event" /\ c \in events /\ events' = events \ {c}
        /\ spc' = "recv" /\ cur' = c
        /\ UNCHANGED <<held, ready, backlog, tcp, dgrams, answers, dmerged, cpc, merged>>
    BY <1>5 DEF Reads, Handles, udp
  <2>2. TypeServer' /\ PlaceInv' /\ TypeConns' /\ TypeCounts'
    BY <2>1 DEF TypeServer, PlaceInv, TypeConns, TypeCounts
  <2>3. BehindInv'
    <3>1. One("tcpfd", events') = One("tcpfd", events) /\ One("udpfd", events') = One("udpfd", events)
      BY <2>1, ConstantFacts DEF One
    <3> QED BY <2>1, <3>1 DEF BehindInv
  <2>4. NoEdgeIsLost'
    BY <2>1, ConstantFacts DEF NoEdgeIsLost, TypeServer, PlaceInv
  <2> QED BY <2>2, <2>3, <2>4
<1> QED BY <1>1, <1>2, <1>3, <1>4, <1>5

\* The loop over one connection: recv, send, and how it ends.
LEMMA ConnectionKeeps ==
  ASSUME IInv, Recv \/ Send \/ RecvFails \/ RecvEof
  PROVE  IInv'
<1>1. /\ cur \in Clients /\ tcp[cur] \in Ends /\ held \subseteq Clients
      /\ ready \subseteq held \cup {"tcpfd", "udpfd"}
  BY DEF IInv, TypeServer, TypeConns, PlaceInv, Recv, Send, RecvFails, RecvEof
<1>2. "srv" \in Sides /\ tcp[cur].srv = tcp[cur]["srv"]
  BY <1>1, SideFacts DEF Sides
<1>3. tcp = [tcp EXCEPT ![cur] = tcp[cur]]
  BY <1>1 DEF IInv, TypeConns
<1>4. CASE Recv
  <2>1. Received(tcp[cur], "srv") \in Ends
    BY <1>1, <1>2, <1>4, ReceivedType DEF Recv
  <2>2. tcp' = [tcp EXCEPT ![cur] = Received(tcp[cur], "srv")]
    BY <1>4 DEF Recv
  <2> QED BY <1>4, <2>1, <2>2, ReadKeeps DEF Recv
<1>5. CASE Send
  <2> DEFINE h == IF Writable(tcp[cur], "srv", Room) THEN Sent(tcp[cur], "srv") ELSE tcp[cur]
  <2>1. h \in Ends
    BY <1>1, <1>2, SentType
  <2>2. tcp' = [tcp EXCEPT ![cur] = h]
    BY <1>3, <1>5 DEF Send
  <2> HIDE DEF h
  <2> QED BY <1>5, <2>1, <2>2, ReadKeeps DEF Send
<1>6. CASE RecvFails
  <2>1. /\ spc = "recv" /\ ready' = ready \ (Clients \ held')
        /\ spc' = "event" /\ cur' = NOBODY
        /\ UNCHANGED <<events, backlog, udp, cpc, merged>>
    BY <1>6 DEF RecvFails
  <2>2. CASE UNCHANGED <<held, tcp>> /\ (cur \in held => ~Readable(tcp[cur].srv))
    <3>1. ready' = ready
      BY <1>1, <2>1, <2>2, ConstantFacts
    <3> QED BY <1>1, <1>3, <2>1, <2>2, <3>1, ReadKeeps
  <2>3. CASE held' = held \ {cur} /\ tcp' = [tcp EXCEPT ![cur] = Closed(tcp[cur], "srv")]
    <3>1. Closed(tcp[cur], "srv") \in Ends
      BY <1>1, <1>2, ClosedType
    <3>2. ready' = ready \ {cur} /\ cur \notin held'
      BY <1>1, <2>1, <2>3, ConstantFacts
    <3> QED BY <2>1, <2>3, <3>1, <3>2, ReadKeeps
  <2> QED BY <1>6, <2>2, <2>3 DEF RecvFails
<1>7. CASE RecvEof
  <2>1. /\ spc = "recv" /\ held' = held \ {cur} /\ ready' = ready \ {cur}
        /\ tcp' = [tcp EXCEPT ![cur] = Closed(tcp[cur], "srv")]
        /\ UNCHANGED <<spc, events, cur, backlog, udp, cpc, merged>>
    BY <1>7 DEF RecvEof
  <2>2. Closed(tcp[cur], "srv") \in Ends
    BY <1>1, <1>2, ClosedType
  <2> QED BY <2>1, <2>2, ReadKeeps
<1> QED BY <1>4, <1>5, <1>6, <1>7

\* The server that is killed has nothing left to be behind with.
LEMMA KilledKeeps ==
  ASSUME IInv, Killed
  PROVE  IInv'
<1>1. TypeConns'
  <2>1. \A c \in Clients : Refused(tcp[c]) \in Ends /\ Closed(tcp[c], "srv") \in Ends /\ tcp[c] \in Ends
    BY RefusedType, ClosedType DEF IInv, TypeConns, Sides
  <2>2. tcp' \in [Clients -> Ends]
    BY <2>1 DEF Killed
  <2>3. backlog' = <<>> /\ <<>> \in Seq(Clients) /\ Len(<<>>) = 0
    BY DEF Killed
  <2> QED BY <2>2, <2>3, ConstantFacts DEF TypeConns
<1> QED BY <1>1 DEF IInv, Killed, TypeServer, TypeCounts, PlaceInv, BehindInv, NoEdgeIsLost, udp

\* A connection is made: it waits for the edge that comes with it, or is merged.
LEMMA MadeKeeps ==
  ASSUME IInv, NEW c \in Clients, Made(c)
  PROVE  IInv'
<1>1. UNCHANGED <<server, udp, cpc>> /\ held \subseteq Clients /\ tcp \in [Clients -> Ends]
  BY DEF Made, IInv, TypeServer, TypeConns
<1>2. CASE spc = "killed"
  <2>1. tcp' = [tcp EXCEPT ![c] = Refused(Connected)] /\ UNCHANGED <<ready, backlog, merged>>
    BY <1>2 DEF Made
  <2>2. TypeServer' /\ TypeCounts' /\ PlaceInv' /\ BehindInv'
    BY <1>1, <1>2, <2>1 DEF IInv, TypeServer, TypeCounts, PlaceInv, BehindInv, server, udp
  <2>3. TypeConns'
    BY <2>1, NewFacts DEF IInv, TypeConns
  <2>4. NoEdgeIsLost'
    BY <1>1, <2>1, NewFacts DEF IInv, NoEdgeIsLost, server
  <2> QED BY <2>2, <2>3, <2>4 DEF IInv
<1>3. CASE spc # "killed"
  <2>1. /\ Len(backlog) < Backlog
        /\ backlog' = Append(backlog, c) /\ tcp' = [tcp EXCEPT ![c] = Connected]
        /\ ready' = ready \cup {"tcpfd"}
        /\ merged' = IF "tcpfd" \in ready THEN merged + 1 ELSE merged
    BY <1>3 DEF Made
  <2>2. /\ backlog' \in Seq(Clients) /\ Len(backlog') = Len(backlog) + 1 /\ Len(backlog) \in Nat
        /\ merged \in Nat
    BY <2>1 DEF IInv, TypeConns, TypeCounts
  <2>3. TypeServer' /\ PlaceInv' /\ TypeCounts'
    BY <1>1, <2>1 DEF IInv, TypeServer, PlaceInv, TypeCounts, server, udp
  <2>4. TypeConns'
    BY <2>1, <2>2, NewFacts, ConstantFacts DEF IInv, TypeConns
  <2>5. BehindInv'
    <3>1. /\ Len(backlog) = merged + One("tcpfd", ready) + One("tcpfd", events)
          /\ dgrams = dmerged + One("udpfd", ready) + One("udpfd", events)
      BY <1>3 DEF IInv, BehindInv
    <3>2. /\ One("tcpfd", ready') = 1 /\ One("udpfd", ready') = One("udpfd", ready)
          /\ merged' = merged + One("tcpfd", ready) /\ One("tcpfd", ready) \in Nat
          /\ One("tcpfd", events) \in Nat
      BY <2>1, <2>2 DEF One
    <3>3. Len(backlog') = merged' + One("tcpfd", ready') + One("tcpfd", events)
      BY <2>2, <3>1, <3>2
    <3>4. dgrams = dmerged + One("udpfd", ready') + One("udpfd", events)
      BY <3>1, <3>2
    <3> QED BY <1>1, <3>3, <3>4 DEF BehindInv, server, udp
  <2>6. NoEdgeIsLost'
    BY <1>1, <2>1, NewFacts DEF IInv, NoEdgeIsLost, server
  <2> QED BY <2>3, <2>4, <2>5, <2>6 DEF IInv
<1> QED BY <1>2, <1>3

\* A datagram arrives: it waits for the edge that comes with it, or is merged.
LEMMA DatagramKeeps ==
  ASSUME IInv, Datagram
  PROVE  IInv'
<1>1. /\ spc # "killed" /\ dgrams + answers < Datagrams
      /\ dgrams' = dgrams + 1 /\ answers' = answers
      /\ ready' = ready \cup {"udpfd"}
      /\ dmerged' = IF "udpfd" \in ready THEN dmerged + 1 ELSE dmerged
      /\ UNCHANGED <<spc, events, cur, held, backlog, tcp, cpc, merged>>
  BY DEF Datagram, server
<1>2. TypeServer' /\ PlaceInv' /\ TypeConns' /\ NoEdgeIsLost'
  BY <1>1 DEF IInv, TypeServer, PlaceInv, TypeConns, NoEdgeIsLost
<1>3. TypeCounts'
  BY <1>1, ConstantFacts DEF IInv, TypeCounts
<1>4. BehindInv'
  <2>1. /\ Len(backlog) = merged + One("tcpfd", ready) + One("tcpfd", events)
        /\ dgrams = dmerged + One("udpfd", ready) + One("udpfd", events)
        /\ dgrams \in Nat /\ dmerged \in Nat
    BY <1>1 DEF IInv, BehindInv, TypeCounts
  <2>2. /\ One("udpfd", ready') = 1 /\ One("tcpfd", ready') = One("tcpfd", ready)
        /\ dmerged' = dmerged + One("udpfd", ready) /\ One("udpfd", ready) \in Nat
        /\ One("udpfd", events) \in Nat /\ dgrams' = dgrams + 1
    BY <1>1, <2>1 DEF One
  <2>3. dgrams' = dmerged' + One("udpfd", ready') + One("udpfd", events)
    BY <2>1, <2>2
  <2>4. Len(backlog) = merged + One("tcpfd", ready') + One("tcpfd", events)
    BY <2>1, <2>2
  <2> QED BY <1>1, <2>3, <2>4 DEF BehindInv
<1> QED BY <1>2, <1>3, <1>4 DEF IInv

\* A client's own steps, and a reset that arrives at either side.
LEMMA ClientSteps ==
  ASSUME IInv, NEW c \in Clients,
         \/ non_block_connect(c) \/ SelectReturns(c) \/ SelectTimeout(c) \/ ClientSends(c)
         \/ ClientReads(c) \/ Leaves(c) \/ ResetArrives(c)
  PROVE  IInv'
<1>1. /\ tcp[c] \in Ends /\ "cli" \in Sides /\ tcp[c].cli = tcp[c]["cli"]
      /\ tcp = [tcp EXCEPT ![c] = tcp[c]]
      /\ cpc \in [Clients -> {"out", "select", "send", "recv", "done", "failed", "refused"}]
  BY SideFacts DEF IInv, TypeConns, TypeCounts, Sides
<1>2. Closed(tcp[c], "cli") \in Ends
  BY <1>1, ClosedType
<1>3. CASE UNCHANGED <<server, ready, backlog, tcp, udp, merged>> /\ \E to \in {"select", "send", "refused"} : Goes(c, to)
  <2>1. TypeServer' /\ TypeConns' /\ PlaceInv' /\ NoEdgeIsLost'
    BY <1>3 DEF IInv, TypeServer, TypeConns, PlaceInv, NoEdgeIsLost, server
  <2>2. BehindInv'
    BY <1>3 DEF IInv, BehindInv, server, udp
  <2>3. TypeCounts'
    BY <1>1, <1>3 DEF IInv, TypeCounts, Goes, udp
  <2> QED BY <2>1, <2>2, <2>3 DEF IInv
<1>4. CASE /\ UNCHANGED <<server, backlog, udp, merged>> /\ Edge(c) /\ Goes(c, "failed")
           /\ tcp' = [tcp EXCEPT ![c] = Closed(tcp[c], "cli")]
  <2>1. cpc' \in [Clients -> {"out", "select", "send", "recv", "done", "failed", "refused"}]
    BY <1>1, <1>4 DEF Goes
  <2> QED BY <1>2, <1>4, <2>1, ClientKeeps
<1>5. CASE non_block_connect(c)
  BY <1>3, <1>5 DEF non_block_connect
<1>6. CASE SelectReturns(c)
  BY <1>3, <1>4, <1>6 DEF SelectReturns
<1>7. CASE SelectTimeout(c) \/ Leaves(c)
  BY <1>4, <1>7 DEF SelectTimeout, Leaves
<1>8. CASE ClientSends(c)
  <2>1. Sent(tcp[c], "cli") \in Ends
    BY <1>1, <1>8, SentType DEF ClientSends
  <2>2. cpc' \in [Clients -> {"out", "select", "send", "recv", "done", "failed", "refused"}]
    BY <1>1, <1>8 DEF ClientSends, Goes
  <2>3. /\ tcp' = [tcp EXCEPT ![c] = Sent(tcp[c], "cli")] /\ Edge(c)
        /\ UNCHANGED <<server, backlog, udp, merged>>
    BY <1>8 DEF ClientSends
  <2> QED BY <2>1, <2>2, <2>3, ClientKeeps
<1>9. CASE ClientReads(c)
  <2> DEFINE t == IF tcp[c].cli.rx > 0 THEN Received(tcp[c], "cli") ELSE tcp[c]
  <2>1. t \in Ends
    BY <1>1, ReceivedType
  <2>2. /\ tcp' = [tcp EXCEPT ![c] = Closed(t, "cli")] /\ Edge(c) /\ Goes(c, "done")
        /\ UNCHANGED <<server, backlog, udp, merged>>
    BY <1>9 DEF ClientReads
  <2> HIDE DEF t
  <2>3. Closed(t, "cli") \in Ends
    BY <1>1, <2>1, ClosedType
  <2>4. cpc' \in [Clients -> {"out", "select", "send", "recv", "done", "failed", "refused"}]
    BY <1>1, <2>2 DEF Goes
  <2> QED BY <2>2, <2>3, <2>4, ClientKeeps
<1>10. CASE ResetArrives(c)
  <2>1. PICK side \in Sides : tcp' = [tcp EXCEPT ![c] = ResetAt(tcp[c], side)]
    BY <1>10 DEF ResetArrives
  <2>2. ResetAt(tcp[c], side) \in Ends
    BY <1>1, ResetType
  <2>3. Edge(c) /\ UNCHANGED <<server, backlog, udp, cpc, merged>>
    BY <1>10 DEF ResetArrives
  <2> QED BY <1>1, <2>1, <2>2, <2>3, ClientKeeps
<1> QED BY <1>5, <1>6, <1>7, <1>8, <1>9, <1>10

\* Every step, and a step that changes nothing.
LEMMA StepKeeps ==
  ASSUME IInv, [Next]_vars
  PROVE  IInv'
<1>1. CASE ServerRuns
  BY <1>1, LoopKeeps, ConnectionKeeps, KilledKeeps DEF ServerRuns
<1>2. CASE Datagram
  BY <1>2, DatagramKeeps
<1>3. ASSUME NEW c \in Clients,
             \/ non_block_connect(c) \/ Made(c) \/ SelectReturns(c) \/ SelectTimeout(c)
             \/ ClientSends(c) \/ ClientReads(c) \/ Leaves(c) \/ ResetArrives(c)
      PROVE  IInv'
  BY <1>3, MadeKeeps, ClientSteps
<1>4. CASE UNCHANGED vars
  BY <1>4 DEF vars, server, udp, IInv, TypeServer, TypeConns, TypeCounts, PlaceInv, BehindInv, NoEdgeIsLost
<1> QED BY <1>1, <1>2, <1>3, <1>4 DEF Next

----------------------------------------------------------------------------
(* The theorems *)

\* A set holds a descriptor once or not at all.
LEMMA OneIsCardinality ==
  ASSUME NEW fd, NEW S
  PROVE  Cardinality({fd} \cap S) = One(fd, S)
<1>1. CASE fd \in S
  <2>1. {fd} \cap S = {fd}
    BY <1>1
  <2> QED BY <1>1, <2>1, FS_Singleton DEF One
<1>2. CASE fd \notin S
  <2>1. {fd} \cap S = {}
    BY <1>2
  <2> QED BY <1>2, <2>1, FS_EmptySet DEF One
<1> QED BY <1>1, <1>2

\* The inductive invariant says all that EdgesAreKept says.
LEMMA InvImplies ==
  ASSUME IInv
  PROVE  EdgesAreKept
<1>1. TypeOK
  BY ConstantFacts DEF IInv, TypeServer, TypeConns, TypeCounts, TypeOK, Ends, EndsOf
<1>2. BehindByMerged
  <2>1. ASSUME spc # "killed"
        PROVE  /\ Len(backlog) = merged + (One("tcpfd", ready) + One("tcpfd", events))
               /\ dgrams = dmerged + (One("udpfd", ready) + One("udpfd", events))
    BY <2>1 DEF IInv, BehindInv, TypeCounts, One
  <2> QED BY <2>1, OneIsCardinality DEF BehindByMerged
<1> QED BY <1>1, <1>2 DEF IInv, EdgesAreKept

\* The server of epoll_tcp_udp.cpp is behind by exactly the connections and datagrams
\* that came upon an edge it had not been told of, and every connection it holds that
\* can be read is one that epoll_wait will report or the loop is about to read.
THEOREM EdgesKept == Spec => []EdgesAreKept
<1>1. Init => IInv
  BY InitKeeps
<1>2. IInv /\ [Next]_vars => IInv'
  BY StepKeeps
<1>3. IInv => EdgesAreKept
  BY InvImplies
<1> QED BY <1>1, <1>2, <1>3, PTL DEF Spec

\* A step with one connection, in which the server gives up no other and this one only
\* when its client is told of the end.
LEMMA PeerFrame ==
  ASSUME IInv, PeerInv, NEW c \in Clients, NEW h \in Ends, tcp' = [tcp EXCEPT ![c] = h],
         backlog' = backlog, held \ {c} \subseteq held',
         h["cli"].st = "open" => tcp[c]["cli"].st = "open" /\ held' = held
  PROVE  PeerInv'
<1>1. tcp'[c] = h /\ \A d \in Clients \ {c} : tcp'[d] = tcp[d]
  BY DEF IInv, TypeConns
<1>2. SUFFICES ASSUME NEW d \in Clients, tcp'[d]["cli"].st = "open"
               PROVE  d \in held' \cup Range(backlog)
  BY DEF PeerInv
<1>3. CASE d = c
  BY <1>1, <1>2, <1>3 DEF PeerInv
<1>4. CASE d # c
  BY <1>1, <1>2, <1>4 DEF PeerInv
<1> QED BY <1>3, <1>4

\* The same when the connections and the places of the server stay as they are.
LEMMA PeerSame ==
  ASSUME PeerInv, UNCHANGED <<tcp, held, backlog>>
  PROVE  PeerInv'
  BY DEF PeerInv

\* What a client does with its end, or a reset, opens no connection.
LEMMA PeerClient ==
  ASSUME IInv, PeerInv, NEW c \in Clients,
         \/ non_block_connect(c) \/ SelectReturns(c) \/ SelectTimeout(c) \/ ClientSends(c)
         \/ ClientReads(c) \/ Leaves(c) \/ ResetArrives(c)
  PROVE  PeerInv'
<1>1. /\ tcp[c] \in Ends /\ tcp[c] \in EndsOf(Room) /\ Room \in Nat /\ tcp[c].cli = tcp[c]["cli"]
      /\ "srv" \in Sides /\ "cli" \in Sides /\ NoEnd.st = "closed"
  BY SideFacts, ConstantFacts, OtherFacts, FreshFacts DEF IInv, TypeConns, Ends
<1>2. ASSUME NEW t \in Ends, tcp' = [tcp EXCEPT ![c] = Closed(t, "cli")], UNCHANGED <<held, backlog>>
      PROVE  PeerInv'
  <2>1. Closed(t, "cli") \in Ends /\ Closed(t, "cli")["cli"].st # "open"
    BY <1>1, ClosedType
  <2> QED BY <1>2, <2>1, PeerFrame
<1>3. CASE non_block_connect(c)
  BY <1>3, PeerSame DEF non_block_connect, server
<1>4. CASE SelectReturns(c)
  <2>1. UNCHANGED <<held, backlog>>
    BY <1>4 DEF SelectReturns, server
  <2>2. tcp' = tcp \/ tcp' = [tcp EXCEPT ![c] = Closed(tcp[c], "cli")]
    BY <1>4 DEF SelectReturns
  <2> QED BY <2>1, <2>2, <1>1, <1>2, PeerSame
<1>5. CASE SelectTimeout(c) \/ Leaves(c)
  <2>1. UNCHANGED <<held, backlog>> /\ tcp' = [tcp EXCEPT ![c] = Closed(tcp[c], "cli")]
    BY <1>5 DEF SelectTimeout, Leaves, server
  <2> QED BY <2>1, <1>1, <1>2
<1>6. CASE ClientSends(c)
  <2>1. /\ UNCHANGED <<held, backlog>> /\ tcp' = [tcp EXCEPT ![c] = Sent(tcp[c], "cli")]
        /\ Writable(tcp[c], "cli", Room)
    BY <1>6 DEF ClientSends, server
  <2>2. tcp[c]["cli"].st = "open" => tcp[c]["srv"].rx < Room
    BY <2>1, OtherFacts DEF Writable
  <2>3. /\ Sent(tcp[c], "cli") \in Ends
        /\ Sent(tcp[c], "cli")["cli"].st = "open" => tcp[c]["cli"].st = "open"
    BY <1>1, <2>2, SentFacts, OtherFacts DEF Ends
  <2> QED BY <2>1, <2>3, PeerFrame
<1>7. CASE ClientReads(c)
  <2> DEFINE t == IF tcp[c].cli.rx > 0 THEN Received(tcp[c], "cli") ELSE tcp[c]
  <2>1. t \in Ends
    BY <1>1, ReceivedType
  <2>2. tcp' = [tcp EXCEPT ![c] = Closed(t, "cli")] /\ UNCHANGED <<held, backlog>>
    BY <1>7 DEF ClientReads, server
  <2> HIDE DEF t
  <2> QED BY <2>1, <2>2, <1>2
<1>8. CASE ResetArrives(c)
  <2>1. PICK side \in Sides : tcp' = [tcp EXCEPT ![c] = ResetAt(tcp[c], side)]
    BY <1>8 DEF ResetArrives
  <2>2. UNCHANGED <<held, backlog>>
    BY <1>8 DEF ResetArrives, server
  <2>3. /\ ResetAt(tcp[c], side) \in Ends
        /\ ResetAt(tcp[c], side)["cli"].st = "open" => tcp[c]["cli"].st = "open"
    BY <1>1, ResetFacts, OtherFacts DEF Ends, Sides
  <2> QED BY <2>1, <2>2, <2>3, PeerFrame
<1> QED BY <1>3, <1>4, <1>5, <1>6, <1>7, <1>8

\* The client of a connection that the server closes is told.
LEMMA ClosedPeer ==
  ASSUME NEW t \in Ends
  PROVE  Closed(t, "srv") \in Ends /\ Closed(t, "srv")["cli"].st # "open"
<1>1. t \in EndsOf(Room) /\ Room \in Nat /\ "srv" \in Sides /\ Other("srv") = "cli"
  BY ConstantFacts, OtherFacts DEF Ends
<1>2. Closed(t, "srv")["cli"].st = IF t["cli"].st # "open" THEN t["cli"].st
                                   ELSE IF t["srv"].rx > 0 THEN "rst" ELSE "fin"
  BY <1>1, ClosedFacts
<1>3. Closed(t, "srv")["cli"].st # "open"
  BY <1>2
<1> QED BY <1>1, <1>3, ClosedType

\* The server gives up a connection only by closing it, of which its client is told.
LEMMA PeerServer ==
  ASSUME IInv, PeerInv, Recv \/ Send \/ RecvFails \/ RecvEof
  PROVE  PeerInv'
<1>1. /\ cur \in Clients /\ tcp[cur] \in Ends /\ tcp[cur] \in EndsOf(Room) /\ Room \in Nat
      /\ "srv" \in Sides /\ tcp[cur].srv = tcp[cur]["srv"] /\ UNCHANGED backlog
  BY SideFacts, ConstantFacts, OtherFacts DEF IInv, TypeConns, Ends, PlaceInv, Recv, Send, RecvFails, RecvEof
<1>2. CASE Recv
  <2>1. /\ held' = held /\ tcp' = [tcp EXCEPT ![cur] = Received(tcp[cur], "srv")] /\ tcp[cur]["srv"].rx > 0
    BY <1>1, <1>2 DEF Recv
  <2>2. Received(tcp[cur], "srv") \in Ends /\ Received(tcp[cur], "srv")["cli"] = tcp[cur]["cli"]
    BY <1>1, <2>1, ReceivedFacts, OtherFacts DEF Ends
  <2> QED BY <1>1, <2>1, <2>2, PeerFrame
<1>3. CASE Send
  <2>1. /\ held' = held
        /\ \/ tcp' = tcp
           \/ tcp' = [tcp EXCEPT ![cur] = Sent(tcp[cur], "srv")] /\ Writable(tcp[cur], "srv", Room)
    BY <1>3 DEF Send
  <2>2. CASE tcp' = tcp
    BY <1>1, <2>1, <2>2, PeerSame
  <2>3. CASE tcp' = [tcp EXCEPT ![cur] = Sent(tcp[cur], "srv")] /\ Writable(tcp[cur], "srv", Room)
    <3>1. tcp[cur]["srv"].st = "open" => tcp[cur]["cli"].rx < Room
      BY <2>3, OtherFacts DEF Writable
    <3>2. Sent(tcp[cur], "srv") \in Ends /\ Sent(tcp[cur], "srv")["cli"].st = tcp[cur]["cli"].st
      BY <1>1, <3>1, SentFacts, OtherFacts DEF Ends
    <3> QED BY <1>1, <2>1, <2>3, <3>2, PeerFrame
  <2> QED BY <2>1, <2>2, <2>3
<1>4. CASE UNCHANGED <<held, tcp>>
  BY <1>1, <1>4, PeerSame
<1>5. CASE held' = held \ {cur} /\ tcp' = [tcp EXCEPT ![cur] = Closed(tcp[cur], "srv")]
  <2> DEFINE h == Closed(tcp[cur], "srv")
  <2>1. h \in Ends /\ h["cli"].st # "open"
    BY <1>1, ClosedPeer
  <2>2. held' = held \ {cur} /\ tcp' = [tcp EXCEPT ![cur] = h]
    BY <1>5, Zenon
  <2>3. cur \in Clients /\ backlog' = backlog
    BY <1>1
  <2> HIDE DEF h
  <2>4. held \ {cur} \subseteq held'
    BY <2>2
  <2> QED BY <2>1, <2>2, <2>3, <2>4, PeerFrame
<1> QED BY <1>2, <1>3, <1>4, <1>5 DEF RecvFails, RecvEof

\* The server that is killed ends all its connections, those it has not accepted, too.
LEMMA PeerKilled ==
  ASSUME IInv, PeerInv, Killed
  PROVE  PeerInv'
<1>1. SUFFICES ASSUME NEW c \in Clients PROVE tcp'[c]["cli"].st # "open"
  BY DEF PeerInv
<1>2. /\ tcp[c] \in EndsOf(Room) /\ Room \in Nat
  BY ConstantFacts DEF IInv, TypeConns, Ends
<1>3. tcp'[c] = IF c \in Range(backlog) THEN Refused(tcp[c])
                ELSE IF c \in held THEN Closed(tcp[c], "srv") ELSE tcp[c]
  BY DEF Killed
<1>4. Refused(tcp[c])["cli"].st # "open" /\ Closed(tcp[c], "srv")["cli"].st # "open"
  BY <1>2, RefusedFacts, ClosedFacts, OtherFacts
<1> QED BY <1>3, <1>4 DEF PeerInv

\* A connection is made: it waits to be accepted, or a dead server answers with a reset.
LEMMA PeerMade ==
  ASSUME IInv, PeerInv, NEW c \in Clients, Made(c)
  PROVE  PeerInv'
<1>1. tcp \in [Clients -> Ends] /\ held' = held /\ backlog \in Seq(Clients)
  BY DEF Made, server, IInv, TypeConns
<1>2. CASE spc = "killed"
  <2>1. tcp' = [tcp EXCEPT ![c] = Refused(Connected)] /\ backlog' = backlog
    BY <1>2 DEF Made
  <2>2. Refused(Connected) \in Ends /\ Refused(Connected)["cli"].st # "open"
    BY ConstantFacts, FreshFacts, RefusedFacts DEF Ends
  <2> QED BY <1>1, <2>1, <2>2, PeerFrame
<1>3. CASE spc # "killed"
  <2>1. backlog' = Append(backlog, c) /\ tcp' = [tcp EXCEPT ![c] = Connected]
    BY <1>3 DEF Made
  <2>2. Range(backlog') = Range(backlog) \cup {c}
    <3>1. /\ Len(backlog) \in Nat /\ DOMAIN backlog = 1 .. Len(backlog)
          /\ DOMAIN backlog' = 1 .. (Len(backlog) + 1) /\ backlog'[Len(backlog) + 1] = c
          /\ \A k \in 1 .. Len(backlog) : backlog'[k] = backlog[k]
      BY <1>1, <2>1
    <3>2. \A k \in 1 .. (Len(backlog) + 1) : k \in 1 .. Len(backlog) \/ k = Len(backlog) + 1
      BY <3>1
    <3>3. Len(backlog) + 1 \in 1 .. (Len(backlog) + 1) /\ 1 .. Len(backlog) \subseteq 1 .. (Len(backlog) + 1)
      BY <3>1
    <3> QED BY <3>1, <3>2, <3>3 DEF Range
  <2>3. \A d \in Clients \ {c} : tcp'[d] = tcp[d]
    BY <1>1, <2>1
  <2> QED BY <1>1, <2>2, <2>3 DEF PeerInv
<1> QED BY <1>2, <1>3

\* A connection that is accepted is held when it waits no more.
LEMMA PeerAccept ==
  ASSUME IInv, PeerInv, Accept
  PROVE  PeerInv'
<1>1. /\ backlog # <<>> /\ held' = held \cup {Head(backlog)} /\ backlog' = Tail(backlog) /\ tcp' = tcp
      /\ backlog \in Seq(Clients)
  BY DEF Accept, IInv, TypeConns
<1>2. Range(backlog) \subseteq {Head(backlog)} \cup Range(backlog')
  <2>1. /\ Len(backlog) \in Nat /\ Len(backlog) > 0 /\ DOMAIN backlog = 1 .. Len(backlog)
        /\ Head(backlog) = backlog[1] /\ DOMAIN backlog' = 1 .. (Len(backlog) - 1)
        /\ \A k \in 1 .. (Len(backlog) - 1) : backlog'[k] = backlog[k + 1]
    BY <1>1
  <2>2. SUFFICES ASSUME NEW k \in DOMAIN backlog, k # 1 PROVE backlog[k] \in Range(backlog')
    BY <2>1 DEF Range
  <2>3. k - 1 \in DOMAIN backlog' /\ backlog'[k - 1] = backlog[k]
    BY <2>1, <2>2
  <2> QED BY <2>3 DEF Range
<1> QED BY <1>1, <1>2 DEF PeerInv

\* A client that believes in its connection is right, in every step.
LEMMA PeerKeeps ==
  ASSUME IInv, PeerInv, [Next]_vars
  PROVE  PeerInv'
<1>1. CASE epoll_wait \/ Handled \/ Recvfrom \/ Datagram \/ UNCHANGED vars
  BY <1>1, PeerSame DEF epoll_wait, Handled, Recvfrom, Datagram, vars, server
<1>2. ASSUME NEW c \in Clients, Reads(c)
      PROVE  PeerInv'
  BY <1>2, PeerSame DEF Reads
<1>3. CASE ServerRuns
  BY <1>1, <1>2, <1>3, PeerAccept, PeerServer, PeerKilled DEF ServerRuns
<1>4. ASSUME NEW c \in Clients,
             \/ non_block_connect(c) \/ Made(c) \/ SelectReturns(c) \/ SelectTimeout(c)
             \/ ClientSends(c) \/ ClientReads(c) \/ Leaves(c) \/ ResetArrives(c)
      PROVE  PeerInv'
  BY <1>4, PeerMade, PeerClient
<1> QED BY <1>1, <1>3, <1>4 DEF Next

\* non_block_connect returns only a connection that was made: one the server holds or
\* has yet to accept, or one that it has ended since.  When it fails it has closed its
\* socket, also if the time is over just when the connection is made, but for a connect
\* that fails at once.
THEOREM ConnectReturnsMade == Spec => OnlyMadeIsReturned
<1> DEFINE Rightly(c) ==
             \/ cpc'[c] = "send" /\ tcp'[c].cli.st = "open" /\ c \in held' \cup Range(backlog')
             \/ cpc'[c] = "send" /\ tcp'[c].cli.st = "fin"
             \/ cpc'[c] = "failed" /\ tcp'[c].cli.st = "closed"
             \/ cpc'[c] = "refused" /\ cpc[c] = "out"
           Returned == \A c \in Clients :
                         cpc[c] \in {"out", "select"} /\ cpc'[c] \notin {"out", "select"} => Rightly(c)
<1>1. Init => IInv /\ PeerInv
  <2>1. \A c \in Clients : Init => tcp[c]["cli"].st = "closed"
    BY ConstantFacts, FreshFacts DEF Init
  <2> QED BY <2>1, InitKeeps DEF PeerInv
<1>2. IInv /\ PeerInv /\ [Next]_vars => (IInv /\ PeerInv)'
  BY StepKeeps, PeerKeeps
<1>3. IInv /\ PeerInv /\ [Next]_vars => [Returned]_vars
  <2>1. SUFFICES ASSUME IInv, PeerInv, Next, NEW d \in Clients,
                        cpc[d] \in {"out", "select"}, cpc'[d] \notin {"out", "select"}
                 PROVE  Rightly(d)
    OBVIOUS
  <2>2. /\ cpc \in [Clients -> {"out", "select", "send", "recv", "done", "failed", "refused"}]
        /\ tcp \in [Clients -> Ends] /\ "cli" \in Sides
    BY <2>1 DEF IInv, TypeConns, TypeCounts, Sides
  <2>3. ~(ServerRuns \/ Datagram)
    <3>1. cpc' # cpc
      BY <2>1
    <3> QED BY <3>1 DEF ServerRuns, Datagram, epoll_wait, Handled, Accept, Recvfrom, Recv, Send, Killed,
                        RecvFails, RecvEof, Reads
  <2>4. PICK c \in Clients :
             \/ non_block_connect(c) \/ Made(c) \/ SelectReturns(c) \/ SelectTimeout(c)
             \/ ClientSends(c) \/ ClientReads(c) \/ Leaves(c) \/ ResetArrives(c)
    BY <2>1, <2>3 DEF Next
  <2>5. c = d
    BY <2>1, <2>2, <2>4 DEF non_block_connect, Made, SelectReturns, SelectTimeout, ClientSends, ClientReads,
                            Leaves, ResetArrives, Goes
  <2>6. SelectReturns(d) \/ SelectTimeout(d) \/ non_block_connect(d)
    BY <2>1, <2>4, <2>5 DEF Made, ClientSends, ClientReads, Leaves, ResetArrives
  <2>7. CASE tcp' = [tcp EXCEPT ![d] = Closed(tcp[d], "cli")] /\ cpc'[d] = "failed"
    <3>1. tcp'[d] \in Ends /\ tcp'[d]["cli"] = NoEnd
      BY <2>2, <2>7, ClosedType
    <3>2. tcp'[d].cli = NoEnd
      BY <3>1, <2>2, SideFacts
    <3> QED BY <2>7, <3>2 DEF NoEnd
  <2>8. CASE /\ UNCHANGED <<tcp, held, backlog>> /\ tcp[d].cli.st \in {"open", "fin"} /\ cpc'[d] = "send"
    <3>1. tcp[d].cli = tcp[d]["cli"]
      BY <2>2, SideFacts
    <3>2. tcp[d].cli.st = "open" => d \in held' \cup Range(backlog')
      BY <2>1, <2>8, <3>1 DEF PeerInv
    <3> QED BY <2>8, <3>2
  <2>9. CASE SelectReturns(d)
    <3>1. UNCHANGED <<held, backlog>>
      BY <2>9 DEF SelectReturns, server
    <3> QED BY <2>2, <2>7, <2>8, <2>9, <3>1 DEF SelectReturns, Goes
  <2>10. CASE SelectTimeout(d)
    BY <2>2, <2>7, <2>10 DEF SelectTimeout, Goes
  <2>11. CASE non_block_connect(d)
    BY <2>1, <2>2, <2>11 DEF non_block_connect, Goes
  <2> QED BY <2>6, <2>9, <2>10, <2>11
<1> QED BY <1>1, <1>2, <1>3, PTL DEF Spec, OnlyMadeIsReturned

----------------------------------------------------------------------------
(* EpollPorts *)

\* The events of a batch of EpollPorts.
PortEvents == [port : Three!Ports, listen : BOOLEAN, in : BOOLEAN, out : BOOLEAN]

\* The types.
PortTypes == /\ spc1 \in {"wait", "loop", "off", "killed"}
             /\ cpc1 \in {"connect", "wait", "loop", "exit", "killed"}
             /\ waiting \subseteq Three!Ports
             /\ icnt \in 0 .. Size /\ errs \in 0 .. icnt
             /\ tcp1 \in [Three!Ports -> EndsOf(Hold)]
             /\ sbatch \subseteq PortEvents /\ cbatch \subseteq PortEvents

\* What was reported as writable stays so until it is handled, and there is one event
\* of a connection in a batch.
BatchInv(b, side) ==
    /\ \A e \in b : ~e.listen /\ e.out => Writable(tcp1[e.port], side, Hold)
    /\ \A e, f \in b : e.port = f.port => e = f

\* A connection that is not accepted has brought nothing to the client, and the events
\* of a batch of the server are of connections that are accepted, or to be.
WaitingInv == /\ \A p \in waiting : tcp1[p]["cli"].rx = 0
              /\ \A e \in sbatch : e.listen <=> e.port \in waiting
              /\ \A e \in cbatch : ~e.listen /\ tcp1[e.port]["cli"].st # "closed"

\* While the client connects it has all the connections it made, and nobody knows
\* of the others.
ConnectInv ==
    cpc1 = "connect" =>
        /\ errs = 0 /\ cbatch = {}
        /\ \A p \in Three!Ports : tcp1[p]["cli"].st # "closed" <=> p <= icnt
        /\ \A p \in Three!Ports : p > icnt => p \notin waiting /\ tcp1[p]["srv"].st = "closed"
        /\ \A e \in sbatch : e.port <= icnt

PortsInv == /\ PortTypes /\ BatchInv(sbatch, "srv") /\ BatchInv(cbatch, "cli")
            /\ WaitingInv /\ ConnectInv /\ Three!IcntCoversOpen

\* EpollPorts speaks of connections and of sets as EdgeTriggered does.
LEMMA SamePorts ==
  /\ Three!NoConnection = NoConnection /\ Three!Connected = Connected /\ Three!Sides = Sides
  /\ \A r : Three!End(r) = End(r)
  /\ \A e : Three!Readable(e) <=> Readable(e)
  /\ \A t, side, r : Three!Writable(t, side, r) <=> Writable(t, side, r)
  /\ \A t, side : /\ Three!Sent(t, side) = Sent(t, side) /\ Three!Closed(t, side) = Closed(t, side)
                  /\ Three!ResetAt(t, side) = ResetAt(t, side) /\ Three!Received(t, side) = Received(t, side)
  /\ \A t : Three!Refused(t) = Refused(t)
  /\ \A S : Three!Cardinality(S) = Cardinality(S)
<1>1. /\ Three!NoConnection = NoConnection /\ Three!Connected = Connected /\ Three!Sides = Sides
      /\ \A r : Three!End(r) = End(r)
      /\ \A e : Three!Readable(e) <=> Readable(e)
  BY Zenon DEF Three!NoConnection, NoConnection, Three!Connected, Connected, Three!Sides, Sides,
               Three!End, End, Three!NoEnd, NoEnd, Three!Readable, Readable
<1>2. \A t, side, r : Three!Writable(t, side, r) <=> Writable(t, side, r)
  BY Zenon DEF Three!Writable, Writable, Three!Other, Other
<1>3. \A t, side : Three!Sent(t, side) = Sent(t, side)
  BY Zenon DEF Three!Sent, Sent, Three!Other, Other
<1>4. \A t, side : Three!Closed(t, side) = Closed(t, side)
  BY Zenon DEF Three!Closed, Closed, Three!Other, Other, Three!Told, Told, Three!NoEnd, NoEnd
<1>5. \A t : Three!Refused(t) = Refused(t)
  BY Zenon DEF Three!Refused, Refused, Three!Told, Told, Three!NoEnd, NoEnd
<1>6. \A t, side : Three!ResetAt(t, side) = ResetAt(t, side) /\ Three!Received(t, side) = Received(t, side)
  BY Zenon DEF Three!ResetAt, ResetAt, Three!Received, Received
<1>7. \A S : Three!Cardinality(S) = Cardinality(S)
  BY Zenon DEF Three!Cardinality, Cardinality
<1> QED BY <1>1, <1>2, <1>3, <1>4, <1>5, <1>6, <1>7, Zenon

\* The numbers of ports and messages.
LEMMA PortFacts ==
  /\ Size \in Nat /\ Size > 0 /\ Hold \in Nat /\ Hold > 0
  /\ Three!Ports = 1 .. Size /\ Three!Ports \subseteq Nat /\ IsFiniteSet(Three!Ports) /\ Cardinality(Three!Ports) = Size
<1>1. Size \in Nat /\ Size > 0 /\ Hold \in Nat /\ Hold > 0
  BY EpollServersAssumption DEF Three!PortsAssumption
<1>2. Three!Ports = 1 .. Size
  BY DEF Three!Ports
<1>3. IsFiniteSet(1 .. Size) /\ Cardinality(1 .. Size) = Size
  <2>1. 1 \in Int /\ Size \in Int /\ Size - 1 + 1 = Size /\ 1 <= Size
    BY <1>1
  <2> QED BY <2>1, FS_Interval
<1> QED BY <1>1, <1>2, <1>3

\* One event: the connection is closed because there was nothing to receive, or stays
\* what it was for both, and what is to be read does not become more.
LEMMA PortHandled ==
  ASSUME NEW t \in EndsOf(Hold), NEW side \in Sides, NEW ev, ev.out => Writable(t, side, Hold),
         NEW h, h = Three!Handled(t, side, ev)
  PROVE  /\ h \in EndsOf(Hold)
         /\ h[side].rx <= t[side].rx
         /\ h[Other(side)].st = "closed" <=> t[Other(side)].st = "closed"
         /\ h[Other(side)].st = "open" => t[Other(side)].st = "open"
         /\ ev.in /\ t[side].rx = 0 => h[side].st = "closed"
         /\ ~(ev.in /\ t[side].rx = 0) => (h[side].st = "closed" <=> t[side].st = "closed")
<1> DEFINE u == Three!AfterIn(t, side, ev)
           o == Other(side)
<1>1. h = IF ev.out /\ u[side].st # "closed" THEN Sent(u, side) ELSE u
  BY SamePorts, Zenon DEF Three!Handled
<1>2. u = IF ev.in THEN IF t[side].rx > 0 THEN Received(t, side) ELSE Closed(t, side) ELSE t
  BY SamePorts, Zenon DEF Three!AfterIn, Three!HandleIn
<1>3. /\ t[side].rx \in Nat /\ t[o].rx \in Nat /\ side \in Sides /\ o \in Sides /\ Hold \in Nat
      /\ t[side] \in End(Hold) /\ t[o] \in End(Hold)
  BY EndFacts, OtherFacts, PortFacts DEF End
<1> HIDE DEF u
<1>4. CASE ev.in /\ t[side].rx = 0
  <2>1. u = Closed(t, side)
    BY <1>2, <1>4
  <2>2. /\ u \in EndsOf(Hold) /\ u[side] = NoEnd /\ u[o].rx = t[o].rx
        /\ u[o].st = IF t[o].st # "open" THEN t[o].st ELSE IF t[side].rx > 0 THEN "rst" ELSE "fin"
    BY <2>1, <1>3, ClosedFacts
  <2>3. NoEnd.st = "closed" /\ NoEnd.rx = 0
    BY FreshFacts, PortFacts
  <2>4. h = u
    BY <1>1, <2>2, <2>3
  <2> QED BY <1>3, <1>4, <2>2, <2>3, <2>4
<1>5. CASE ~(ev.in /\ t[side].rx = 0)
  <2>1. u \in EndsOf(Hold) /\ u[side].st = t[side].st /\ u[o] = t[o] /\ u[side].rx <= t[side].rx
    <3>1. CASE ev.in
      <4>1. u = Received(t, side) /\ t[side].rx > 0
        BY <1>2, <1>3, <1>5, <3>1
      <4>2. /\ u \in EndsOf(Hold) /\ u[side].rx = t[side].rx - 1
            /\ u[side].st = t[side].st /\ u[o] = t[o]
        BY <4>1, <1>3, ReceivedFacts
      <4> QED BY <4>2, <1>3
    <3>2. CASE ~ev.in
      BY <3>2, <1>2, <1>3
    <3> QED BY <3>1, <3>2
  <2>2. CASE ev.out /\ u[side].st # "closed"
    <3>1. h = Sent(u, side)
      BY <2>2, <1>1
    <3>2. u[side].st = "open" => u[o].rx < Hold
      BY <2>1, <2>2 DEF Writable
    <3>3. /\ h \in EndsOf(Hold) /\ h[side].rx = u[side].rx
          /\ h[side].st = IF u[side].st = "fin" THEN "prov"
                          ELSE IF u[side].st = "rst" THEN "pipe" ELSE u[side].st
          /\ h[o].st = u[o].st
      BY <3>1, <3>2, <2>1, <1>3, SentFacts
    <3> QED BY <3>3, <2>1, <1>5
  <2>3. CASE ~(ev.out /\ u[side].st # "closed")
    <3>1. h = u
      BY <2>3, <1>1
    <3> QED BY <3>1, <2>1, <1>5
  <2> QED BY <2>2, <2>3
<1> QED BY <1>4, <1>5

\* What the client sees of a step of the server, and the server of one of the client's:
\* not that its own end is closed or opened, and not that there is less room.
SeenBy(t, h, side) == /\ h[Other(side)].rx <= t[Other(side)].rx
                      /\ h[side].st = "closed" <=> t[side].st = "closed"
                      /\ h[side].st = "open" => t[side].st = "open"

\* So what was writable stays so.
LEMMA StaysWritable ==
  ASSUME NEW t \in EndsOf(Hold), NEW h \in EndsOf(Hold), NEW side \in Sides,
         SeenBy(t, h, side), Writable(t, side, Hold)
  PROVE  Writable(h, side, Hold)
<1>1. /\ t[Other(side)].rx \in Nat /\ h[Other(side)].rx \in Nat /\ Hold \in Nat
  BY EndFacts, OtherFacts, PortFacts DEF End
<1> QED BY <1>1 DEF Writable, SeenBy

\* A step of the server, or of the network: its batch and what is to be accepted become less.
LEMMA ServerSide ==
  ASSUME PortsInv, tcp1' \in [Three!Ports -> EndsOf(Hold)],
         UNCHANGED <<cpc1, cbatch, icnt, errs>>,
         spc1' \in {"wait", "loop", "off", "killed"}, waiting' \subseteq waiting, sbatch' \subseteq sbatch,
         \A p \in Three!Ports : SeenBy(tcp1[p], tcp1'[p], "cli"),
         \A p \in Three!Ports : tcp1[p]["srv"].st = "closed" => tcp1'[p]["srv"].st = "closed",
         \A p \in waiting' : tcp1'[p]["cli"].rx = 0,
         \A e \in sbatch' : /\ e.listen <=> e.port \in waiting'
                            /\ Writable(tcp1[e.port], "srv", Hold) => Writable(tcp1'[e.port], "srv", Hold)
  PROVE  PortsInv'
<1>1. PortTypes'
  BY DEF PortsInv, PortTypes
<1>2. BatchInv(sbatch, "srv")'
  <2>1. \A e \in sbatch' : ~e.listen /\ e.out => Writable(tcp1'[e.port], "srv", Hold)
    BY DEF PortsInv, BatchInv
  <2>2. \A e, f \in sbatch' : e.port = f.port => e = f
    BY DEF PortsInv, BatchInv
  <2> QED BY <2>1, <2>2 DEF BatchInv
<1>3. \A e \in cbatch : e.port \in Three!Ports
  BY DEF PortsInv, PortTypes, PortEvents
<1>4. BatchInv(cbatch, "cli")'
  <2>1. ASSUME NEW e \in cbatch, Writable(tcp1[e.port], "cli", Hold)
        PROVE  Writable(tcp1'[e.port], "cli", Hold)
    <3>1. tcp1[e.port] \in EndsOf(Hold) /\ tcp1'[e.port] \in EndsOf(Hold)
      BY <1>3 DEF PortsInv, PortTypes
    <3> QED BY <1>3, <2>1, <3>1, StaysWritable, OtherFacts
  <2> QED BY <2>1 DEF PortsInv, BatchInv
<1>5. WaitingInv'
  <2>1. \A e \in cbatch : tcp1[e.port]["cli"].st # "closed" => tcp1'[e.port]["cli"].st # "closed"
    BY <1>3 DEF SeenBy
  <2> QED BY <2>1 DEF PortsInv, WaitingInv
<1>6. ConnectInv'
  <2>1. SUFFICES ASSUME cpc1 = "connect" PROVE ConnectInv'
    BY DEF ConnectInv
  <2>2. \A p \in Three!Ports : tcp1'[p]["cli"].st # "closed" <=> p <= icnt
    BY <2>1 DEF PortsInv, ConnectInv, SeenBy
  <2>3. \A p \in Three!Ports : p > icnt => p \notin waiting' /\ tcp1'[p]["srv"].st = "closed"
    BY <2>1 DEF PortsInv, ConnectInv
  <2> QED BY <2>1, <2>2, <2>3 DEF PortsInv, ConnectInv
<1>7. Three!IcntCoversOpen'
  <2>1. \A p \in Three!Ports : tcp1'[p].cli.st = "closed" <=> tcp1[p].cli.st = "closed"
    <3> TAKE p \in Three!Ports
    <3>1. tcp1[p] \in EndsOf(Hold) /\ tcp1'[p] \in EndsOf(Hold) /\ Hold \in Nat
      BY PortFacts DEF PortsInv, PortTypes
    <3>2. tcp1[p].cli = tcp1[p]["cli"] /\ tcp1'[p].cli = tcp1'[p]["cli"]
      BY <3>1, EndFacts
    <3> QED BY <3>2 DEF SeenBy
  <2>2. Three!Open' = Three!Open
    BY <2>1 DEF Three!Open, Three!Ports
  <2> QED BY <2>2 DEF PortsInv, Three!IcntCoversOpen
<1> QED BY <1>1, <1>2, <1>4, <1>5, <1>6, <1>7 DEF PortsInv

\* A step of the client after it has connected: its batch becomes less.
LEMMA ClientSide ==
  ASSUME PortsInv, tcp1' \in [Three!Ports -> EndsOf(Hold)],
         UNCHANGED <<spc1, sbatch, waiting>>, cbatch' \subseteq cbatch,
         cpc1' \in {"wait", "loop", "exit", "killed"},
         icnt' \in 0 .. Size, errs' \in 0 .. icnt', Three!IcntCoversOpen',
         \A p \in Three!Ports : SeenBy(tcp1[p], tcp1'[p], "srv"),
         \A e \in cbatch' : tcp1'[e.port] = tcp1[e.port]
  PROVE  PortsInv'
<1>1. PortTypes'
  BY DEF PortsInv, PortTypes
<1>2. BatchInv(cbatch, "cli")'
  BY DEF PortsInv, BatchInv
<1>3. \A e \in sbatch : e.port \in Three!Ports
  BY DEF PortsInv, PortTypes, PortEvents
<1>4. BatchInv(sbatch, "srv")'
  <2>1. ASSUME NEW e \in sbatch, Writable(tcp1[e.port], "srv", Hold)
        PROVE  Writable(tcp1'[e.port], "srv", Hold)
    <3>1. tcp1[e.port] \in EndsOf(Hold) /\ tcp1'[e.port] \in EndsOf(Hold)
      BY <1>3 DEF PortsInv, PortTypes
    <3> QED BY <1>3, <2>1, <3>1, StaysWritable, OtherFacts
  <2> QED BY <2>1 DEF PortsInv, BatchInv
<1>5. WaitingInv'
  <2>1. \A p \in waiting : tcp1'[p]["cli"].rx = 0
    <3> TAKE p \in waiting
    <3>1. /\ p \in Three!Ports /\ tcp1[p]["cli"].rx = 0
          /\ tcp1'[p] \in EndsOf(Hold) /\ Hold \in Nat
      BY PortFacts DEF PortsInv, PortTypes, WaitingInv
    <3>2. tcp1'[p]["cli"].rx \in Nat
      BY <3>1, EndFacts
    <3>3. tcp1'[p]["cli"].rx <= tcp1[p]["cli"].rx
      BY <3>1, OtherFacts DEF SeenBy
    <3> QED BY <3>1, <3>2, <3>3
  <2> QED BY <2>1 DEF PortsInv, WaitingInv
<1>6. ConnectInv'
  BY DEF ConnectInv
<1> QED BY <1>1, <1>2, <1>4, <1>5, <1>6 DEF PortsInv

\* One connection changes.
LEMMA OnePort ==
  ASSUME PortsInv, NEW p \in Three!Ports, NEW h \in EndsOf(Hold), tcp1' = [tcp1 EXCEPT ![p] = h]
  PROVE  /\ tcp1' \in [Three!Ports -> EndsOf(Hold)]
         /\ \A q \in Three!Ports : tcp1'[q] = IF q = p THEN h ELSE tcp1[q]
  BY DEF PortsInv, PortTypes

\* The ends of a connection of EpollPorts.
LEMMA PortEnds ==
  ASSUME PortsInv, NEW p \in Three!Ports
  PROVE  /\ Hold \in Nat /\ tcp1[p] \in EndsOf(Hold)
         /\ tcp1[p]["srv"].rx \in Nat /\ tcp1[p]["cli"].rx \in Nat
         /\ tcp1[p].srv = tcp1[p]["srv"] /\ tcp1[p].cli = tcp1[p]["cli"]
         /\ SeenBy(tcp1[p], tcp1[p], "srv") /\ SeenBy(tcp1[p], tcp1[p], "cli")
<1>1. Hold \in Nat /\ tcp1[p] \in EndsOf(Hold)
  BY PortFacts DEF PortsInv, PortTypes
<1>2. /\ tcp1[p]["srv"].rx \in Nat /\ tcp1[p]["cli"].rx \in Nat
      /\ tcp1[p].srv = tcp1[p]["srv"] /\ tcp1[p].cli = tcp1[p]["cli"]
  BY <1>1, EndFacts
<1> QED BY <1>1, <1>2, OtherFacts DEF SeenBy

\* The server's end sends, is closed, or is reset: what the client sees of it.
LEMMA SeenByClient ==
  ASSUME NEW t \in EndsOf(Hold)
  PROVE  /\ SeenBy(t, Closed(t, "srv"), "cli") /\ SeenBy(t, Refused(t), "cli")
         /\ Closed(t, "srv") \in EndsOf(Hold) /\ Refused(t) \in EndsOf(Hold)
         /\ Closed(t, "srv")["srv"].st = "closed" /\ Refused(t)["srv"].st = "closed"
<1>1. Hold \in Nat /\ NoEnd.rx = 0 /\ NoEnd.st = "closed" /\ t["srv"].rx \in Nat
  BY PortFacts, FreshFacts, EndFacts
<1>2. /\ Closed(t, "srv") \in EndsOf(Hold) /\ Closed(t, "srv")["srv"] = NoEnd
      /\ Closed(t, "srv")["cli"].st = IF t["cli"].st # "open" THEN t["cli"].st
                                      ELSE IF t["srv"].rx > 0 THEN "rst" ELSE "fin"
  BY <1>1, ClosedFacts, OtherFacts
<1>3. /\ Refused(t) \in EndsOf(Hold) /\ Refused(t)["srv"] = NoEnd
      /\ Refused(t)["cli"].st = IF t["cli"].st # "open" THEN t["cli"].st ELSE "rst"
  BY <1>1, RefusedFacts
<1>4. SeenBy(t, Closed(t, "srv"), "cli")
  BY <1>1, <1>2, OtherFacts DEF SeenBy
<1>5. SeenBy(t, Refused(t), "cli")
  BY <1>1, <1>3, OtherFacts DEF SeenBy
<1> QED BY <1>1, <1>2, <1>3, <1>4, <1>5

\* The client's end is closed: what the server sees of it.
LEMMA SeenByServer ==
  ASSUME NEW t \in EndsOf(Hold)
  PROVE  SeenBy(t, Closed(t, "cli"), "srv") /\ Closed(t, "cli") \in EndsOf(Hold)
<1>1. Hold \in Nat /\ NoEnd.rx = 0 /\ NoEnd.st = "closed" /\ t["cli"].rx \in Nat
  BY PortFacts, FreshFacts, EndFacts
<1>2. /\ Closed(t, "cli") \in EndsOf(Hold) /\ Closed(t, "cli")["cli"] = NoEnd
      /\ Closed(t, "cli")["srv"].st = IF t["srv"].st # "open" THEN t["srv"].st
                                      ELSE IF t["cli"].rx > 0 THEN "rst" ELSE "fin"
  BY <1>1, ClosedFacts, OtherFacts
<1> QED BY <1>1, <1>2, OtherFacts DEF SeenBy

\* The initial state.
LEMMA PortsStart ==
  ASSUME Three!Init
  PROVE  PortsInv
<1>1. /\ spc1 = "wait" /\ sbatch = {} /\ waiting = {} /\ cpc1 = "connect" /\ cbatch = {}
      /\ icnt = 0 /\ errs = 0 /\ tcp1 = [p \in Three!Ports |-> NoConnection]
  BY SamePorts DEF Three!Init
<1>2. /\ NoConnection \in EndsOf(Hold) /\ Size \in Nat
      /\ NoConnection["srv"].st = "closed" /\ NoConnection["cli"].st = "closed"
  BY PortFacts, FreshFacts
<1>3. PortTypes
  BY <1>1, <1>2 DEF PortTypes
<1>4. BatchInv(sbatch, "srv") /\ BatchInv(cbatch, "cli") /\ WaitingInv
  BY <1>1 DEF BatchInv, WaitingInv
<1>5. ConnectInv
  <2>1. \A p \in Three!Ports : p \in Nat /\ p > 0
    BY PortFacts
  <2> QED BY <1>1, <1>2, <2>1 DEF ConnectInv
<1>6. Three!IcntCoversOpen
  BY <1>1 DEF Three!IcntCoversOpen
<1> QED BY <1>3, <1>4, <1>5, <1>6 DEF PortsInv

\* accept: a connection that is there may be written to.
LEMMA PortsAccept ==
  ASSUME PortsInv, NEW e \in sbatch, Three!Accept(e)
  PROVE  PortsInv'
<1>1. /\ e.listen /\ e \in PortEvents /\ e.port \in Three!Ports /\ e.port \in waiting
      /\ tcp1[e.port]["cli"].rx = 0
  BY DEF Three!Accept, PortsInv, PortTypes, PortEvents, WaitingInv
<1>2. sbatch' = sbatch \ {e} /\ spc1' \in {"wait", "loop"} /\ UNCHANGED <<cpc1, cbatch, icnt, errs>>
  BY DEF Three!Accept, Three!ServerAdvance, Three!client
<1>3. \A f \in sbatch' : f \in sbatch /\ f.port # e.port /\ f.port \in Three!Ports
  BY <1>2 DEF PortsInv, PortTypes, PortEvents, BatchInv
<1>4. \A f \in sbatch' : f.listen <=> f.port \in waiting
  BY <1>3 DEF PortsInv, WaitingInv
<1>5. CASE waiting' = waiting \ {e.port} /\ tcp1' = [tcp1 EXCEPT ![e.port] = Three!Sent(@, "srv")]
  <2> DEFINE t == tcp1[e.port]
             h == Sent(t, "srv")
  <2>1. tcp1' = [tcp1 EXCEPT ![e.port] = h]
    BY <1>5, SamePorts, Zenon
  <2>2. t \in EndsOf(Hold) /\ Hold \in Nat /\ t["cli"].rx < Hold /\ t["srv"].rx \in Nat
    BY <1>1, PortEnds, PortFacts
  <2>3. /\ h \in EndsOf(Hold) /\ h["srv"].rx = t["srv"].rx /\ h["cli"].st = t["cli"].st
        /\ h["srv"].st = IF t["srv"].st = "fin" THEN "prov"
                         ELSE IF t["srv"].st = "rst" THEN "pipe" ELSE t["srv"].st
    BY <2>2, SentFacts, OtherFacts
  <2>4. SeenBy(t, h, "cli") /\ (t["srv"].st = "closed" => h["srv"].st = "closed")
    BY <2>2, <2>3, OtherFacts DEF SeenBy
  <2> HIDE DEF h
  <2>5. /\ tcp1' \in [Three!Ports -> EndsOf(Hold)]
        /\ \A q \in Three!Ports : tcp1'[q] = IF q = e.port THEN h ELSE tcp1[q]
    BY <1>1, <2>1, <2>3, OnePort
  <2>6. \A q \in Three!Ports : SeenBy(tcp1[q], tcp1'[q], "cli")
    BY <2>4, <2>5, PortEnds
  <2>7. \A q \in Three!Ports : tcp1[q]["srv"].st = "closed" => tcp1'[q]["srv"].st = "closed"
    BY <2>4, <2>5
  <2>8. \A q \in waiting' : tcp1'[q]["cli"].rx = 0
    <3> TAKE q \in waiting'
    <3>1. q \in Three!Ports /\ q # e.port /\ tcp1[q]["cli"].rx = 0
      BY <1>5 DEF PortsInv, PortTypes, WaitingInv
    <3> QED BY <3>1, <2>5
  <2>9. \A f \in sbatch' : /\ f.listen <=> f.port \in waiting'
                           /\ Writable(tcp1[f.port], "srv", Hold) => Writable(tcp1'[f.port], "srv", Hold)
    BY <1>3, <1>4, <1>5, <2>5
  <2>10. waiting' \subseteq waiting /\ sbatch' \subseteq sbatch /\ spc1' \in {"wait", "loop", "off", "killed"}
    BY <1>2, <1>5
  <2> QED BY <1>2, <2>5, <2>6, <2>7, <2>8, <2>9, <2>10, ServerSide
<1>6. CASE UNCHANGED <<waiting, tcp1>>
  <2>1. tcp1' \in [Three!Ports -> EndsOf(Hold)]
    BY <1>6 DEF PortsInv, PortTypes
  <2>2. \A q \in Three!Ports : SeenBy(tcp1[q], tcp1'[q], "cli")
    BY <1>6, PortEnds
  <2>3. \A q \in Three!Ports : tcp1[q]["srv"].st = "closed" => tcp1'[q]["srv"].st = "closed"
    BY <1>6
  <2>4. \A q \in waiting' : tcp1'[q]["cli"].rx = 0
    BY <1>6 DEF PortsInv, WaitingInv
  <2>5. \A f \in sbatch' : /\ f.listen <=> f.port \in waiting'
                           /\ Writable(tcp1[f.port], "srv", Hold) => Writable(tcp1'[f.port], "srv", Hold)
    BY <1>4, <1>6
  <2>6. waiting' \subseteq waiting /\ sbatch' \subseteq sbatch /\ spc1' \in {"wait", "loop", "off", "killed"}
    BY <1>2, <1>6
  <2> QED BY <1>2, <2>1, <2>2, <2>3, <2>4, <2>5, <2>6, ServerSide
<1> QED BY <1>5, <1>6 DEF Three!Accept

\* The server handles an event of a connection.
LEMMA PortsServerHandle ==
  ASSUME PortsInv, NEW e \in sbatch, Three!ServerHandle(e)
  PROVE  PortsInv'
<1> DEFINE t == tcp1[e.port]
           h == Three!Handled(t, "srv", e)
<1>1. /\ ~e.listen /\ e \in PortEvents /\ e.port \in Three!Ports /\ e.port \notin waiting
      /\ e.out => Writable(t, "srv", Hold)
  BY DEF Three!ServerHandle, PortsInv, PortTypes, PortEvents, WaitingInv, BatchInv
<1>2. /\ sbatch' = sbatch \ {e} /\ spc1' \in {"wait", "loop"}
      /\ UNCHANGED <<cpc1, cbatch, icnt, errs>> /\ waiting' = waiting
  BY DEF Three!ServerHandle, Three!ServerAdvance, Three!client
<1>3. tcp1' = [tcp1 EXCEPT ![e.port] = h]
  BY Zenon DEF Three!ServerHandle
<1>4. t \in EndsOf(Hold)
  BY <1>1, PortEnds
<1>5. /\ h \in EndsOf(Hold) /\ h["srv"].rx <= t["srv"].rx
      /\ h["cli"].st = "closed" <=> t["cli"].st = "closed"
      /\ h["cli"].st = "open" => t["cli"].st = "open"
      /\ t["srv"].st = "closed" => h["srv"].st = "closed"
  BY <1>1, <1>4, PortHandled, OtherFacts
<1>6. SeenBy(t, h, "cli")
  BY <1>5, OtherFacts DEF SeenBy
<1> HIDE DEF h
<1>7. /\ tcp1' \in [Three!Ports -> EndsOf(Hold)]
      /\ \A q \in Three!Ports : tcp1'[q] = IF q = e.port THEN h ELSE tcp1[q]
  BY <1>1, <1>3, <1>5, OnePort
<1>8. \A q \in Three!Ports : SeenBy(tcp1[q], tcp1'[q], "cli")
  BY <1>6, <1>7, PortEnds
<1>9. \A q \in Three!Ports : tcp1[q]["srv"].st = "closed" => tcp1'[q]["srv"].st = "closed"
  BY <1>5, <1>7
<1>10. \A q \in waiting' : tcp1'[q]["cli"].rx = 0
  <2> TAKE q \in waiting'
  <2>1. q \in Three!Ports /\ q # e.port /\ tcp1[q]["cli"].rx = 0
    BY <1>1, <1>2 DEF PortsInv, PortTypes, WaitingInv
  <2> QED BY <2>1, <1>7
<1>11. \A f \in sbatch' : /\ f.listen <=> f.port \in waiting'
                          /\ Writable(tcp1[f.port], "srv", Hold) => Writable(tcp1'[f.port], "srv", Hold)
  <2> TAKE f \in sbatch'
  <2>1. f \in sbatch /\ f.port # e.port /\ f.port \in Three!Ports
    BY <1>2 DEF PortsInv, PortTypes, PortEvents, BatchInv
  <2>2. f.listen <=> f.port \in waiting
    BY <2>1 DEF PortsInv, WaitingInv
  <2> QED BY <2>1, <2>2, <1>2, <1>7
<1>12. waiting' \subseteq waiting /\ sbatch' \subseteq sbatch /\ spc1' \in {"wait", "loop", "off", "killed"}
  BY <1>2
<1> QED BY <1>2, <1>7, <1>8, <1>9, <1>10, <1>11, <1>12, ServerSide

\* The server is gone.
LEMMA PortsServerGone ==
  ASSUME PortsInv, NEW how \in {"off", "killed"}, Three!ServerGone(how)
  PROVE  PortsInv'
<1>1. /\ spc1' = how /\ sbatch' = {} /\ waiting' = {} /\ UNCHANGED <<cpc1, cbatch, icnt, errs>>
      /\ tcp1' = [p \in Three!Ports |-> IF p \in waiting THEN Refused(tcp1[p])
                                    ELSE IF tcp1[p].srv.st # "closed" THEN Closed(tcp1[p], "srv") ELSE tcp1[p]]
  BY SamePorts, Zenon DEF Three!ServerGone, Three!client
<1>2. \A p \in Three!Ports : /\ tcp1'[p] \in {Refused(tcp1[p]), Closed(tcp1[p], "srv"), tcp1[p]}
                         /\ tcp1'[p] \in EndsOf(Hold)
  <2> TAKE p \in Three!Ports
  <2>1. tcp1'[p] \in {Refused(tcp1[p]), Closed(tcp1[p], "srv"), tcp1[p]}
    BY <1>1
  <2> QED BY <2>1, SeenByClient, PortEnds
<1>3. tcp1' \in [Three!Ports -> EndsOf(Hold)]
  BY <1>1, <1>2
<1>4. \A p \in Three!Ports : SeenBy(tcp1[p], tcp1'[p], "cli")
  BY <1>2, SeenByClient, PortEnds
<1>5. \A p \in Three!Ports : tcp1[p]["srv"].st = "closed" => tcp1'[p]["srv"].st = "closed"
  BY <1>2, SeenByClient, PortEnds
<1> QED BY <1>1, <1>3, <1>4, <1>5, ServerSide

\* epoll_wait of the server: what is to be accepted, and one event of every other connection.
LEMMA PortsServerWait ==
  ASSUME PortsInv, Three!ServerWait
  PROVE  PortsInv'
<1> DEFINE R == Three!ReadyAt("srv")
           E(p) == Three!Event(p, "srv")
<1>1. /\ spc1' = "loop" /\ UNCHANGED <<waiting, cpc1, cbatch, icnt, errs, tcp1>>
      /\ sbatch' = Three!Listeners \cup {e \in R : e.port \notin waiting}
  BY DEF Three!ServerWait, Three!client
<1>2. /\ \A e \in Three!Listeners : e.port \in waiting /\ e.listen /\ e \in PortEvents
      /\ \A e, f \in Three!Listeners : e.port = f.port => e = f
  <2> DEFINE L(p) == [port |-> p, listen |-> TRUE, in |-> TRUE, out |-> FALSE]
  <2>1. \A p \in waiting : L(p).port = p /\ L(p).listen /\ L(p) \in PortEvents
    BY DEF PortEvents, PortsInv, PortTypes
  <2>2. \A e \in Three!Listeners : \E p \in waiting : e = L(p)
    BY DEF Three!Listeners
  <2> HIDE DEF L
  <2> QED BY <2>1, <2>2
<1>3. /\ \A e \in R : e.port \in Three!Ports /\ ~e.listen /\ e \in PortEvents /\ e = E(e.port)
      /\ \A e \in R : tcp1[e.port]["srv"].st # "closed"
      /\ \A e \in R : e.out => Writable(tcp1[e.port], "srv", Hold)
  <2> SUFFICES ASSUME NEW e \in R
               PROVE  /\ e.port \in Three!Ports /\ ~e.listen /\ e \in PortEvents /\ e = E(e.port)
                      /\ tcp1[e.port]["srv"].st # "closed"
                      /\ e.out => Writable(tcp1[e.port], "srv", Hold)
    BY Zenon
  <2>1. PICK p \in Three!Ports : e = Three!Event(p, "srv") /\ tcp1[p]["srv"].st # "closed"
    BY DEF Three!ReadyAt
  <2>2. e.port = p /\ ~e.listen /\ (e.out <=> Writable(tcp1[p], "srv", Hold)) /\ e \in PortEvents
    <3>1. e = [port |-> p, listen |-> FALSE, in |-> Three!Readable(tcp1[p]["srv"]), out |-> Three!Writable(tcp1[p], "srv", Hold)]
      BY <2>1 DEF Three!Event
    <3>2. Three!Readable(tcp1[p]["srv"]) \in BOOLEAN /\ Three!Writable(tcp1[p], "srv", Hold) \in BOOLEAN
      BY DEF Three!Readable, Three!Writable
    <3> QED BY <3>1, <3>2, SamePorts DEF PortEvents
  <2> QED BY <2>1, <2>2
<1> HIDE DEF R, E
<1>4. PortTypes'
  <2>1. sbatch' \subseteq PortEvents
    BY <1>1, <1>2, <1>3
  <2> QED BY <1>1, <2>1 DEF PortsInv, PortTypes
<1>5. BatchInv(sbatch, "srv")'
  <2>1. \A e \in sbatch' : ~e.listen /\ e.out => Writable(tcp1[e.port], "srv", Hold)
    BY <1>1, <1>2, <1>3
  <2>2. \A e, f \in sbatch' : e.port = f.port => e = f
    <3> TAKE e, f \in sbatch'
    <3> HAVE e.port = f.port
    <3>1. CASE e.port \in waiting
      <4>1. e \in Three!Listeners /\ f \in Three!Listeners
        BY <1>1, <3>1
      <4> QED BY <4>1, <1>2
    <3>2. CASE e.port \notin waiting
      <4>1. e \in R /\ f \in R
        BY <1>1, <1>2, <3>2
      <4>2. e = E(e.port) /\ f = E(f.port)
        BY <4>1, <1>3
      <4> QED BY <4>2
    <3> QED BY <3>1, <3>2
  <2> QED BY <1>1, <2>1, <2>2 DEF BatchInv
<1>6. BatchInv(cbatch, "cli")'
  BY <1>1 DEF PortsInv, BatchInv
<1>7. WaitingInv'
  <2>1. \A e \in sbatch' : e.listen <=> e.port \in waiting
    BY <1>1, <1>2, <1>3
  <2> QED BY <1>1, <2>1 DEF PortsInv, WaitingInv
<1>8. ConnectInv'
  <2>1. ASSUME cpc1 = "connect", NEW e \in sbatch'
        PROVE  e.port <= icnt
    <3>1. e.port \in Three!Ports /\ (e.port \in waiting \/ tcp1[e.port]["srv"].st # "closed")
      BY <1>1, <1>2, <1>3 DEF PortEvents
    <3>2. ~(e.port > icnt)
      BY <2>1, <3>1 DEF PortsInv, ConnectInv
    <3>3. e.port \in Nat /\ icnt \in Nat
      BY <3>1, PortFacts DEF PortsInv, PortTypes
    <3> QED BY <3>2, <3>3
  <2> QED BY <1>1, <2>1 DEF PortsInv, ConnectInv
<1>9. Three!IcntCoversOpen'
  BY <1>1 DEF PortsInv, Three!IcntCoversOpen, Three!Open, Three!Ports
<1> QED BY <1>4, <1>5, <1>6, <1>7, <1>8, <1>9 DEF PortsInv

\* The client makes one connection more.
LEMMA PortsConnect ==
  ASSUME PortsInv, Three!Connect
  PROVE  PortsInv'
<1> DEFINE p == icnt + 1
<1>1. /\ cpc1 = "connect" /\ icnt < Size /\ icnt' = p /\ waiting' = waiting \cup {p}
      /\ tcp1' = [tcp1 EXCEPT ![p] = Connected]
      /\ UNCHANGED <<spc1, sbatch, cpc1, cbatch, errs>>
  BY SamePorts DEF Three!Connect
<1>2. /\ icnt \in Nat /\ Size \in Nat /\ Hold \in Nat /\ p \in Three!Ports /\ p > icnt
      /\ Three!Ports = 1 .. Size
  BY <1>1, PortFacts DEF PortsInv, PortTypes
<1>3. /\ Connected \in EndsOf(Hold) /\ Connected["cli"].rx = 0
      /\ Connected["srv"].st = "open" /\ Connected["cli"].st = "open"
  BY <1>2, FreshFacts
<1>4. /\ tcp1' \in [Three!Ports -> EndsOf(Hold)]
      /\ \A q \in Three!Ports : tcp1'[q] = IF q = p THEN Connected ELSE tcp1[q]
  BY <1>1, <1>2, <1>3, OnePort
<1>5. /\ errs = 0 /\ cbatch = {} /\ p \notin waiting
      /\ \A q \in Three!Ports : tcp1[q]["cli"].st # "closed" <=> q <= icnt
      /\ \A q \in Three!Ports : q > icnt => q \notin waiting /\ tcp1[q]["srv"].st = "closed"
      /\ \A e \in sbatch : e.port <= icnt
  BY <1>1, <1>2 DEF PortsInv, ConnectInv
<1>6. \A e \in sbatch : e.port \in Three!Ports /\ e.port # p
  <2>1. \A e \in sbatch : e.port \in Three!Ports
    BY DEF PortsInv, PortTypes, PortEvents
  <2> QED BY <1>2, <1>5, <2>1
<1> HIDE DEF p
<1>7. PortTypes'
  BY <1>1, <1>2, <1>4, <1>5 DEF PortsInv, PortTypes
<1>8. BatchInv(sbatch, "srv")'
  BY <1>1, <1>4, <1>6 DEF PortsInv, BatchInv
<1>9. BatchInv(cbatch, "cli")'
  BY <1>1, <1>5 DEF BatchInv
<1>10. WaitingInv'
  <2>1. \A q \in waiting' : tcp1'[q]["cli"].rx = 0
    <3> TAKE q \in waiting'
    <3>1. q = p \/ (q \in waiting /\ q \in Three!Ports /\ tcp1[q]["cli"].rx = 0)
      BY <1>1 DEF PortsInv, PortTypes, WaitingInv
    <3> QED BY <3>1, <1>2, <1>3, <1>4
  <2>2. \A e \in sbatch' : e.listen <=> e.port \in waiting'
    BY <1>1, <1>6 DEF PortsInv, WaitingInv
  <2> QED BY <1>1, <1>5, <2>1, <2>2 DEF WaitingInv
<1>11. ConnectInv'
  <2>1. \A q \in Three!Ports : q \in Nat
    BY PortFacts
  <2>2. \A q \in Three!Ports : tcp1'[q]["cli"].st # "closed" <=> q <= icnt'
    <3> TAKE q \in Three!Ports
    <3>1. CASE q = p
      BY <3>1, <1>1, <1>2, <1>3, <1>4 DEF p
    <3>2. CASE q # p
      <4>1. tcp1'[q]["cli"].st # "closed" <=> q <= icnt
        BY <3>2, <1>4, <1>5
      <4>2. q <= icnt <=> q <= icnt'
        BY <3>2, <2>1, <1>1, <1>2 DEF p
      <4> QED BY <4>1, <4>2
    <3> QED BY <3>1, <3>2
  <2>3. \A q \in Three!Ports : q > icnt' => q \notin waiting' /\ tcp1'[q]["srv"].st = "closed"
    <3> TAKE q \in Three!Ports
    <3> HAVE q > icnt'
    <3>1. q > icnt /\ q # p
      BY <2>1, <1>1, <1>2 DEF p
    <3> QED BY <3>1, <1>1, <1>4, <1>5
  <2>4. \A e \in sbatch' : e.port <= icnt'
    BY <2>1, <1>1, <1>2, <1>5, <1>6 DEF p
  <2> QED BY <1>1, <1>5, <2>2, <2>3, <2>4 DEF ConnectInv
<1>12. Three!IcntCoversOpen'
  BY <1>1 DEF Three!IcntCoversOpen
<1> QED BY <1>7, <1>8, <1>9, <1>10, <1>11, <1>12 DEF PortsInv

\* All connections are made: icnt is their number.
LEMMA PortsConnectDone ==
  ASSUME PortsInv, Three!ConnectDone
  PROVE  PortsInv'
<1>1. /\ cpc1 = "connect" /\ icnt = Size /\ cpc1' = "wait"
      /\ UNCHANGED <<spc1, sbatch, waiting, cbatch, icnt, tcp1, errs>>
  BY DEF Three!ConnectDone, Three!server
<1>2. errs = 0 /\ cbatch = {} /\ \A q \in Three!Ports : tcp1[q]["cli"].st # "closed" <=> q <= icnt
  BY <1>1 DEF PortsInv, ConnectInv
<1>3. Three!Open = Three!Ports
  <2>1. \A q \in Three!Ports : tcp1[q].cli.st # "closed"
    BY <1>1, <1>2, PortEnds, PortFacts
  <2> QED BY <2>1 DEF Three!Open
<1>4. Three!Open' = Three!Open
  BY <1>1 DEF Three!Open, Three!Ports
<1>5. Three!IcntCoversOpen'
  <2>1. Cardinality(Three!Ports) = Size /\ Size \in Nat
    BY PortFacts
  <2>2. Three!Cardinality(Three!Open') = Size
    BY <1>3, <1>4, <2>1, SamePorts
  <2> QED BY <1>1, <1>2, <2>1, <2>2 DEF Three!IcntCoversOpen
<1>6. PortTypes' /\ BatchInv(sbatch, "srv")' /\ BatchInv(cbatch, "cli")' /\ WaitingInv'
  BY <1>1 DEF PortsInv, PortTypes, BatchInv, WaitingInv
<1>7. ConnectInv'
  BY <1>1 DEF ConnectInv
<1> QED BY <1>5, <1>6, <1>7 DEF PortsInv

\* epoll_wait of the client: some of the events of its connections.
LEMMA PortsClientWait ==
  ASSUME PortsInv, Three!ClientWait
  PROVE  PortsInv'
<1>1. /\ cpc1 = "wait" /\ cpc1' = "loop" /\ UNCHANGED <<spc1, sbatch, waiting, icnt, tcp1, errs>>
      /\ cbatch' \subseteq Three!ReadyAt("cli")
  BY DEF Three!ClientWait, Three!server
<1>2. \A e \in cbatch' : /\ e.port \in Three!Ports /\ ~e.listen /\ e \in PortEvents
                         /\ tcp1[e.port]["cli"].st # "closed"
                         /\ e = Three!Event(e.port, "cli")
                         /\ e.out => Writable(tcp1[e.port], "cli", Hold)
  <2> TAKE e \in cbatch'
  <2>1. PICK p \in Three!Ports : e = Three!Event(p, "cli") /\ tcp1[p]["cli"].st # "closed"
    BY <1>1 DEF Three!ReadyAt
  <2>2. e.port = p /\ ~e.listen /\ (e.out <=> Writable(tcp1[p], "cli", Hold)) /\ e \in PortEvents
    <3>1. e = [port |-> p, listen |-> FALSE, in |-> Three!Readable(tcp1[p]["cli"]), out |-> Three!Writable(tcp1[p], "cli", Hold)]
      BY <2>1 DEF Three!Event
    <3>2. Three!Readable(tcp1[p]["cli"]) \in BOOLEAN /\ Three!Writable(tcp1[p], "cli", Hold) \in BOOLEAN
      BY DEF Three!Readable, Three!Writable
    <3> QED BY <3>1, <3>2, SamePorts DEF PortEvents
  <2> QED BY <2>1, <2>2
<1>3. PortTypes'
  BY <1>1, <1>2 DEF PortsInv, PortTypes
<1>4. BatchInv(cbatch, "cli")'
  <2>1. \A e, f \in cbatch' : e.port = f.port => e = f
    BY <1>2
  <2> QED BY <1>1, <1>2, <2>1 DEF BatchInv
<1>5. BatchInv(sbatch, "srv")' /\ ConnectInv'
  BY <1>1 DEF PortsInv, BatchInv, ConnectInv
<1>6. WaitingInv'
  BY <1>1, <1>2 DEF PortsInv, WaitingInv
<1>7. Three!IcntCoversOpen'
  BY <1>1 DEF PortsInv, Three!IcntCoversOpen, Three!Open, Three!Ports
<1> QED BY <1>3, <1>4, <1>5, <1>6, <1>7 DEF PortsInv

\* The client is gone.
LEMMA PortsClientGone ==
  ASSUME PortsInv, NEW how \in {"exit", "killed"}, Three!ClientGone(how)
  PROVE  PortsInv'
<1>1. /\ cpc1' = how /\ cbatch' = {} /\ UNCHANGED <<spc1, sbatch, waiting>> /\ UNCHANGED <<icnt, errs>>
      /\ tcp1' = [p \in Three!Ports |-> IF tcp1[p].cli.st # "closed" THEN Closed(tcp1[p], "cli") ELSE tcp1[p]]
  BY SamePorts, Zenon DEF Three!ClientGone, Three!server
<1>2. \A p \in Three!Ports : tcp1'[p] \in EndsOf(Hold) /\ SeenBy(tcp1[p], tcp1'[p], "srv")
  <2> TAKE p \in Three!Ports
  <2>1. tcp1'[p] = Closed(tcp1[p], "cli") \/ tcp1'[p] = tcp1[p]
    BY <1>1
  <2>2. SeenBy(tcp1[p], Closed(tcp1[p], "cli"), "srv") /\ Closed(tcp1[p], "cli") \in EndsOf(Hold)
    BY SeenByServer, PortEnds
  <2> QED BY <2>1, <2>2, PortEnds
<1>3. tcp1' \in [Three!Ports -> EndsOf(Hold)]
  BY <1>1, <1>2
<1>4. icnt' \in 0 .. Size /\ errs' \in 0 .. icnt'
  BY <1>1 DEF PortsInv, PortTypes
<1>5. Three!IcntCoversOpen'
  BY <1>1 DEF Three!IcntCoversOpen
<1> QED BY <1>1, <1>2, <1>3, <1>4, <1>5, ClientSide

\* The client handles an event.  A connection it closes was open: there is one less, and
\* either icnt is one less too, or there is one error more.
LEMMA PortsClientHandle ==
  ASSUME PortsInv, NEW e \in cbatch, Three!ClientHandle(e)
  PROVE  PortsInv'
<1> DEFINE t == tcp1[e.port]
           h == Three!Handled(t, "cli", e)
<1>1. /\ e.port \in Three!Ports
      /\ e.out => Writable(t, "cli", Hold)
      /\ t["cli"].st # "closed"
  BY DEF PortsInv, PortTypes, PortEvents, WaitingInv, BatchInv
<1>2. /\ cpc1 = "loop" /\ cbatch' = cbatch \ {e} /\ cpc1' \in {"wait", "loop"}
      /\ UNCHANGED <<spc1, sbatch, waiting>>
  BY DEF Three!ClientHandle, Three!server
<1>3. tcp1' = [tcp1 EXCEPT ![e.port] = h]
  BY Zenon DEF Three!ClientHandle
<1>4. t \in EndsOf(Hold) /\ t.cli = t["cli"] /\ t["cli"].rx \in Nat
  BY <1>1, PortEnds
<1>5. /\ h \in EndsOf(Hold) /\ h["cli"].rx <= t["cli"].rx
      /\ h["srv"].st = "closed" <=> t["srv"].st = "closed"
      /\ h["srv"].st = "open" => t["srv"].st = "open"
      /\ h["cli"].st = "closed" <=> (e.in /\ t["cli"].rx = 0)
  BY <1>1, <1>4, PortHandled, OtherFacts
<1>6. SeenBy(t, h, "srv")
  BY <1>5, OtherFacts DEF SeenBy
<1> HIDE DEF h
<1>7. /\ tcp1' \in [Three!Ports -> EndsOf(Hold)]
      /\ \A q \in Three!Ports : tcp1'[q] = IF q = e.port THEN h ELSE tcp1[q]
  BY <1>1, <1>3, <1>5, OnePort
<1>8. \A q \in Three!Ports : SeenBy(tcp1[q], tcp1'[q], "srv")
  BY <1>6, <1>7, PortEnds
<1>9. \A f \in cbatch' : tcp1'[f.port] = tcp1[f.port]
  <2> TAKE f \in cbatch'
  <2>1. f \in cbatch /\ f.port # e.port /\ f.port \in Three!Ports
    BY <1>2 DEF PortsInv, PortTypes, PortEvents, BatchInv
  <2> QED BY <2>1, <1>7
<1>10. \A q \in Three!Ports : tcp1'[q].cli = tcp1'[q]["cli"]
  BY <1>7, EndFacts, PortFacts
<1>11. e.port \in Three!Open /\ IsFiniteSet(Three!Open)
  <2>1. Three!Open \subseteq Three!Ports
    BY DEF Three!Open
  <2> QED BY <2>1, <1>1, <1>4, PortFacts, FS_Subset DEF Three!Open
<1>12. Three!Open' = {q \in Three!Ports : tcp1'[q].cli.st # "closed"}
  BY DEF Three!Open, Three!Ports
<1>13. Cardinality(Three!Open) \in Nat /\ Cardinality(Three!Open) > 0
  <2>1. Cardinality(Three!Open) \in Nat
    BY <1>11, FS_CardinalityType
  <2>2. Cardinality(Three!Open) # 0
    BY <1>11, FS_EmptySet
  <2> QED BY <2>1, <2>2
<1>14. /\ icnt \in 0 .. Size /\ errs \in 0 .. icnt /\ icnt = Cardinality(Three!Open) + errs
       /\ Size \in Nat
  BY <1>2, SamePorts, PortFacts DEF PortsInv, PortTypes, Three!IcntCoversOpen
<1>15. icnt' \in 0 .. Size /\ errs' \in 0 .. icnt' /\ icnt' = Cardinality(Three!Open') + errs'
  <2>1. CASE Three!Shut(e)
    <3>1. Three!Open' = Three!Open \ {e.port}
      <4>1. h["cli"].st = "closed"
        BY <1>4, <1>5, <2>1 DEF Three!Shut
      <4> QED BY <4>1, <1>7, <1>10, <1>12, PortEnds DEF Three!Open
    <3>2. Cardinality(Three!Open') = Cardinality(Three!Open) - 1
      BY <3>1, <1>11, FS_RemoveElement
    <3>3. \/ icnt' = icnt /\ errs' = errs + 1
          \/ icnt' = icnt - 1 /\ errs' = errs
      BY <2>1 DEF Three!ClientHandle, Three!Uncount
    <3> QED BY <3>2, <3>3, <1>13, <1>14
  <2>2. CASE ~Three!Shut(e)
    <3>1. Three!Open' = Three!Open
      <4>1. h["cli"].st # "closed"
        BY <1>4, <1>5, <2>2 DEF Three!Shut
      <4> QED BY <4>1, <1>1, <1>4, <1>7, <1>10, <1>12, PortEnds DEF Three!Open
    <3>2. icnt' = icnt /\ errs' = errs
      BY <2>2 DEF Three!ClientHandle, Three!Uncount, Three!Failed, Three!Shut
    <3> QED BY <3>1, <3>2, <1>14
  <2> QED BY <2>1, <2>2
<1>16. Three!IcntCoversOpen'
  BY <1>15, SamePorts DEF Three!IcntCoversOpen
<1>17. cbatch' \subseteq cbatch /\ cpc1' \in {"wait", "loop", "exit", "killed"}
  BY <1>2
<1> QED BY <1>2, <1>7, <1>8, <1>9, <1>15, <1>16, <1>17, ClientSide

\* A reset arrives.
LEMMA PortsReset ==
  ASSUME PortsInv, NEW p \in Three!Ports, Three!ResetArrives(p)
  PROVE  PortsInv'
<1>1. PICK side \in Sides : tcp1[p][side].st = "prov" /\ tcp1' = [tcp1 EXCEPT ![p] = Three!ResetAt(@, side)]
  BY SamePorts DEF Three!ResetArrives
<1> DEFINE t == tcp1[p]
           h == ResetAt(t, side)
<1>2. tcp1' = [tcp1 EXCEPT ![p] = h]
  BY <1>1, SamePorts, Zenon
<1>3. UNCHANGED <<spc1, sbatch, waiting>> /\ UNCHANGED <<cpc1, cbatch, icnt, errs>>
  BY DEF Three!ResetArrives, Three!server, Three!client
<1>4. t \in EndsOf(Hold) /\ Hold \in Nat /\ t["srv"].rx \in Nat /\ t["cli"].rx \in Nat
  BY PortEnds
<1>5. /\ h \in EndsOf(Hold) /\ h[side].st = "pipe" /\ h[side].rx = t[side].rx
      /\ h[Other(side)] = t[Other(side)]
  BY <1>4, ResetFacts
<1> HIDE DEF h
<1>6. /\ h["srv"].rx = t["srv"].rx /\ h["cli"].rx = t["cli"].rx
      /\ \A s \in Sides : h[s].st = t[s].st \/ (h[s].st = "pipe" /\ t[s].st = "prov")
  BY <1>1, <1>5, OtherFacts DEF Sides
<1>7. SeenBy(t, h, "cli") /\ SeenBy(t, h, "srv") /\ (t["srv"].st = "closed" => h["srv"].st = "closed")
  BY <1>4, <1>6, OtherFacts DEF SeenBy
<1>8. /\ tcp1' \in [Three!Ports -> EndsOf(Hold)]
      /\ \A q \in Three!Ports : tcp1'[q] = IF q = p THEN h ELSE tcp1[q]
  BY <1>2, <1>5, OnePort
<1>9. \A q \in Three!Ports : SeenBy(tcp1[q], tcp1'[q], "cli")
  BY <1>7, <1>8, PortEnds
<1>10. \A q \in Three!Ports : SeenBy(tcp1[q], tcp1'[q], "srv")
  BY <1>7, <1>8, PortEnds
<1>11. \A q \in Three!Ports : tcp1[q]["srv"].st = "closed" => tcp1'[q]["srv"].st = "closed"
  BY <1>7, <1>8
<1>12. \A q \in waiting' : tcp1'[q]["cli"].rx = 0
  <2> TAKE q \in waiting'
  <2>1. q \in Three!Ports /\ tcp1[q]["cli"].rx = 0
    BY <1>3 DEF PortsInv, PortTypes, WaitingInv
  <2> QED BY <2>1, <1>6, <1>8
<1>13. \A f \in sbatch' : /\ f.listen <=> f.port \in waiting'
                          /\ Writable(tcp1[f.port], "srv", Hold) => Writable(tcp1'[f.port], "srv", Hold)
  <2> TAKE f \in sbatch'
  <2>1. f.port \in Three!Ports /\ (f.listen <=> f.port \in waiting')
    BY <1>3 DEF PortsInv, PortTypes, PortEvents, WaitingInv
  <2>2. tcp1[f.port] \in EndsOf(Hold) /\ tcp1'[f.port] \in EndsOf(Hold)
    BY <2>1, <1>8, PortEnds
  <2> QED BY <2>1, <2>2, <1>10, StaysWritable, OtherFacts
<1>14. waiting' \subseteq waiting /\ sbatch' \subseteq sbatch /\ spc1' \in {"wait", "loop", "off", "killed"}
  BY <1>3 DEF PortsInv, PortTypes
<1> QED BY <1>3, <1>8, <1>9, <1>11, <1>12, <1>13, <1>14, ServerSide

\* Every step of the client and the server keeps the invariant.
LEMMA PortsStep ==
  ASSUME PortsInv, [Three!Next]_(Three!vars)
  PROVE  PortsInv'
<1>1. CASE UNCHANGED Three!vars
  <2>1. /\ UNCHANGED <<spc1, sbatch, waiting, cpc1, cbatch, icnt, tcp1, errs>>
    BY <1>1 DEF Three!vars
  <2>2. PortTypes' /\ WaitingInv' /\ ConnectInv' /\ BatchInv(sbatch, "srv")' /\ BatchInv(cbatch, "cli")'
    BY <2>1 DEF PortsInv, PortTypes, BatchInv, WaitingInv, ConnectInv
  <2>3. Three!IcntCoversOpen'
    BY <2>1 DEF PortsInv, Three!IcntCoversOpen, Three!Open, Three!Ports
  <2> QED BY <2>2, <2>3 DEF PortsInv
<1>2. CASE Three!ServerWait
  BY <1>2, PortsServerWait
<1>3. CASE Three!ServerKilled
  BY <1>3, PortsServerGone DEF Three!ServerKilled
<1>4. CASE Three!ServerStopped
  BY <1>4, PortsServerGone DEF Three!ServerStopped
<1>5. CASE \E e \in sbatch : Three!Accept(e) \/ Three!ServerHandle(e)
  BY <1>5, PortsAccept, PortsServerHandle
<1>6. CASE Three!Connect
  BY <1>6, PortsConnect
<1>7. CASE Three!ConnectFails \/ Three!NoneLeft \/ Three!ClientKilled \/ Three!ClientStopped
  BY <1>7, PortsClientGone DEF Three!ConnectFails, Three!NoneLeft, Three!ClientKilled, Three!ClientStopped
<1>8. CASE Three!ConnectDone
  BY <1>8, PortsConnectDone
<1>9. CASE Three!ClientWait
  BY <1>9, PortsClientWait
<1>10. CASE \E e \in cbatch : Three!ClientHandle(e)
  BY <1>10, PortsClientHandle
<1>11. CASE \E p \in Three!Ports : Three!ResetArrives(p)
  BY <1>11, PortsReset
<1>12. CASE Three!TimeOut
  BY <1>12, <1>1 DEF Three!TimeOut
<1> QED BY <1>1, <1>2, <1>3, <1>4, <1>5, <1>6, <1>7, <1>8, <1>9, <1>10, <1>11, <1>12 DEF Three!Next

\* It says all that PortsAndPages says of EpollPorts.
LEMMA PortsInvImplies ==
  ASSUME PortsInv
  PROVE  Three!TypeOK /\ Three!IcntCoversOpen
<1>1. errs \in 0 .. Size
  BY PortFacts DEF PortsInv, PortTypes
<1>2. tcp1 \in [Three!Ports -> [Three!Sides -> Three!End(Hold)]]
  BY SamePorts DEF PortsInv, PortTypes, EndsOf
<1>3. sbatch \cup cbatch \subseteq [port : Three!Ports, listen : BOOLEAN, in : BOOLEAN, out : BOOLEAN]
  BY DEF PortsInv, PortTypes, PortEvents
<1> QED BY <1>1, <1>2, <1>3 DEF PortsInv, PortTypes, Three!TypeOK

----------------------------------------------------------------------------
(* HttpServer *)

\* What clients of HttpServer send, and what is left of it when recv cuts it.
Texts == SUBSET Http!Words

\* The types.
HttpTypes == /\ spc3 \in {"wait", "write", "killed"} /\ cur3 \in Clients \cup {NOBODY} /\ page \in Http!Pages
             /\ held3 \subseteq Clients /\ Cardinality(held3) <= NFds
             /\ tcp3 \in [Clients -> EndsOf(Hold)]
             /\ backlog3 \in Seq(Clients)
             /\ text \in [Clients -> Seq(Texts)]
             /\ cst3 \in [Clients -> {"out", "ready", "asked", "flood"}]
             /\ want \in [Clients -> Http!Requests] /\ got \in [Clients -> Http!Pages]
             /\ left3 \in [Clients -> Nat] /\ cut \in [Clients -> Nat]

\* A connection is held or waits, once; the server writes to one it holds.
HttpPlaces == /\ \A k \in DOMAIN backlog3 : backlog3[k] \notin held3
              /\ \A k, l \in DOMAIN backlog3 : backlog3[k] = backlog3[l] => k = l
              /\ \A c \in held3 : tcp3[c]["srv"].st # "closed"
              /\ \A k \in DOMAIN backlog3 : tcp3[backlog3[k]]["srv"].st # "closed"
              /\ spc3 = "write" => cur3 \in held3

\* The page that answers a request.
Fits(w, p) == p = IF "msisdn" \in w THEN "result" ELSE "form"

\* The server is about to answer this client.
Writing(c) == spc3 = "write" /\ cur3 = c

\* The texts and pages of a client that are under way.
UnderWay(c) == tcp3[c]["srv"].rx + tcp3[c]["cli"].rx + (IF Writing(c) THEN 1 ELSE 0)

\* One text or page of a browser is under way, and one more for each that recv cut; as
\* long as it cut none it is the request, or the page that answers it.
OneRequest(c) ==
    /\ cst3[c] = "ready" => UnderWay(c) <= cut[c]
    /\ cst3[c] = "asked" => UnderWay(c) <= 1 + cut[c] /\ (tcp3[c]["cli"].st = "open" => UnderWay(c) >= 1)
    /\ cst3[c] = "asked" /\ cut[c] = 0 =>
          /\ tcp3[c]["srv"].rx = 1 => text[c] = <<want[c]>>
          /\ Writing(c) => Fits(want[c], page)
          /\ tcp3[c]["cli"].rx = 1 => Fits(want[c], got[c])

\* What text and left say of the sockets: a client that left nothing unread is not
\* written to once the server may be killed by it.
Follows(c) ==
    /\ tcp3[c]["srv"].st # "closed" => Len(text[c]) = tcp3[c]["srv"].rx
    /\ tcp3[c]["cli"].st = "open" => tcp3[c]["srv"].st = "open"
    /\ tcp3[c]["srv"].st # "closed" => (tcp3[c]["srv"].st = "open" <=> cst3[c] # "out")
    /\ cst3[c] = "out" /\ left3[c] = 0 => tcp3[c]["srv"].rx = 0
    /\ tcp3[c]["srv"].st \in {"prov", "pipe"} /\ left3[c] = 0 => ~Writing(c)

HttpInv == HttpTypes /\ HttpPlaces /\ \A c \in Clients : OneRequest(c) /\ Follows(c)

\* HttpServer speaks of connections, of sets and of sequences as EdgeTriggered does.
LEMMA SameHttp ==
  /\ Http!NoConnection = NoConnection /\ Http!Connected = Connected /\ Http!Sides = Sides
  /\ \A r : Http!End(r) = End(r)
  /\ \A e : Http!Readable(e) <=> Readable(e)
  /\ \A t, side, r : Http!Writable(t, side, r) <=> Writable(t, side, r)
  /\ \A t, side : /\ Http!Sent(t, side) = Sent(t, side) /\ Http!Closed(t, side) = Closed(t, side)
                  /\ Http!ResetAt(t, side) = ResetAt(t, side) /\ Http!Received(t, side) = Received(t, side)
  /\ \A t : Http!Refused(t) = Refused(t)
  /\ \A S : Http!Cardinality(S) = Cardinality(S) /\ (Http!IsFiniteSet(S) <=> IsFiniteSet(S))
  /\ \A f : Http!Range(f) = {f[x] : x \in DOMAIN f}
<1>1. /\ Http!NoConnection = NoConnection /\ Http!Connected = Connected /\ Http!Sides = Sides
      /\ \A r : Http!End(r) = End(r)
      /\ \A e : Http!Readable(e) <=> Readable(e)
  BY Zenon DEF Http!NoConnection, NoConnection, Http!Connected, Connected, Http!Sides, Sides,
               Http!End, End, Http!NoEnd, NoEnd, Http!Readable, Readable
<1>2. \A t, side, r : Http!Writable(t, side, r) <=> Writable(t, side, r)
  BY Zenon DEF Http!Writable, Writable, Http!Other, Other
<1>3. \A t, side : Http!Sent(t, side) = Sent(t, side)
  BY Zenon DEF Http!Sent, Sent, Http!Other, Other
<1>4. \A t, side : Http!Closed(t, side) = Closed(t, side)
  BY Zenon DEF Http!Closed, Closed, Http!Other, Other, Http!Told, Told, Http!NoEnd, NoEnd
<1>5. \A t : Http!Refused(t) = Refused(t)
  BY Zenon DEF Http!Refused, Refused, Http!Told, Told, Http!NoEnd, NoEnd
<1>6. \A t, side : Http!ResetAt(t, side) = ResetAt(t, side) /\ Http!Received(t, side) = Received(t, side)
  BY Zenon DEF Http!ResetAt, ResetAt, Http!Received, Received
<1>7. \A S : Http!Cardinality(S) = Cardinality(S)
  BY Zenon DEF Http!Cardinality, Cardinality
<1>8. \A S : Http!IsFiniteSet(S) <=> IsFiniteSet(S)
  BY Zenon DEF Http!IsFiniteSet, IsFiniteSet
<1>9. \A f : Http!Range(f) = {f[x] : x \in DOMAIN f}
  BY Zenon DEF Http!Range
<1> QED BY <1>1, <1>2, <1>3, <1>4, <1>5, <1>6, <1>7, <1>8, <1>9, Zenon

\* The clients and the descriptors of HttpServer.
LEMMA HttpFacts ==
  /\ IsFiniteSet(Clients) /\ NOBODY \notin Clients /\ NFds \in Nat /\ NFds > 0 /\ Hold \in Nat /\ Hold > 0
  BY EpollServersAssumption, SameHttp DEF Http!HttpAssumption

\* One client's step: the others see nothing of it, and the server writes to no other
\* that it did not write to.
LEMMA HttpFrame ==
  ASSUME HttpInv, HttpTypes', HttpPlaces', NEW c \in Clients,
         \A d \in Clients \ {c} : /\ tcp3'[d] = tcp3[d] /\ cst3'[d] = cst3[d] /\ want'[d] = want[d]
                                  /\ got'[d] = got[d] /\ text'[d] = text[d] /\ left3'[d] = left3[d] /\ cut'[d] = cut[d],
         \A d \in Clients \ {c} : (Writing(d)' <=> Writing(d)) /\ (Writing(d) => page' = page),
         OneRequest(c)', Follows(c)'
  PROVE  HttpInv'
<1>1. ASSUME NEW d \in Clients \ {c}
      PROVE  OneRequest(d)' /\ Follows(d)'
  <2>1. OneRequest(d) /\ Follows(d)
    BY DEF HttpInv
  <2>2. (Writing(d)' <=> Writing(d)) /\ (Writing(d) => page' = page)
    OBVIOUS
  <2>3. /\ tcp3'[d] = tcp3[d] /\ cst3'[d] = cst3[d] /\ want'[d] = want[d]
        /\ got'[d] = got[d] /\ text'[d] = text[d] /\ left3'[d] = left3[d] /\ cut'[d] = cut[d]
    OBVIOUS
  <2>4. OneRequest(d)'
    <3>1. UnderWay(d)' = UnderWay(d)
      BY <2>2, <2>3 DEF UnderWay
    <3> QED BY <3>1, <2>1, <2>2, <2>3 DEF OneRequest
  <2>5. Follows(d)'
    BY <2>1, <2>2, <2>3 DEF Follows
  <2> QED BY <2>4, <2>5
<1> QED BY <1>1 DEF HttpInv

\* The ends of a connection of HttpServer.
LEMMA HttpEnds ==
  ASSUME HttpInv, NEW c \in Clients
  PROVE  /\ Hold \in Nat /\ tcp3[c] \in EndsOf(Hold)
         /\ tcp3[c]["srv"].rx \in Nat /\ tcp3[c]["cli"].rx \in Nat
         /\ tcp3[c].srv = tcp3[c]["srv"] /\ tcp3[c].cli = tcp3[c]["cli"]
<1>1. Hold \in Nat /\ tcp3[c] \in EndsOf(Hold)
  BY HttpFacts DEF HttpInv, HttpTypes
<1> QED BY <1>1, EndFacts

\* What is under way are numbers, and if it is one thing it is at one place.
LEMMA HttpWay ==
  ASSUME HttpInv, NEW c \in Clients
  PROVE  /\ UnderWay(c) \in Nat /\ cut[c] \in Nat
         /\ Writing(c) => UnderWay(c) = tcp3[c]["srv"].rx + tcp3[c]["cli"].rx + 1
         /\ ~Writing(c) => UnderWay(c) = tcp3[c]["srv"].rx + tcp3[c]["cli"].rx
         /\ UnderWay(c) <= 0 => tcp3[c]["srv"].rx = 0 /\ tcp3[c]["cli"].rx = 0 /\ ~Writing(c)
<1>1. tcp3[c]["srv"].rx \in Nat /\ tcp3[c]["cli"].rx \in Nat
  BY HttpEnds
<1>2. cut[c] \in Nat
  BY DEF HttpInv, HttpTypes
<1> QED BY <1>1, <1>2 DEF UnderWay

\* One connection changes.
LEMMA OneClient ==
  ASSUME HttpInv, NEW c \in Clients, NEW h \in EndsOf(Hold), tcp3' = [tcp3 EXCEPT ![c] = h]
  PROVE  /\ tcp3' \in [Clients -> EndsOf(Hold)] /\ tcp3'[c] = h
         /\ \A d \in Clients \ {c} : tcp3'[d] = tcp3[d]
  BY DEF HttpInv, HttpTypes

\* The server's places stay when nothing is accepted and no end of its own is closed.
LEMMA PlacesKept ==
  ASSUME HttpInv, UNCHANGED <<held3, backlog3>>, spc3' = "write" => cur3' \in held3,
         NEW c \in Clients, tcp3'[c]["srv"].st = "closed" => tcp3[c]["srv"].st = "closed",
         \A d \in Clients \ {c} : tcp3'[d] = tcp3[d]
  PROVE  HttpPlaces'
<1>1. \A d \in Clients : tcp3'[d]["srv"].st = "closed" => tcp3[d]["srv"].st = "closed"
  OBVIOUS
<1>2. \A k \in DOMAIN backlog3 : backlog3[k] \in Clients
  BY DEF HttpInv, HttpTypes
<1>3. \A d \in held3 : d \in Clients
  BY DEF HttpInv, HttpTypes
<1> QED BY <1>1, <1>2, <1>3 DEF HttpInv, HttpPlaces

\* The initial state.
LEMMA HttpStart ==
  ASSUME Http!Init
  PROVE  HttpInv
<1>1. /\ spc3 = "wait" /\ cur3 = NOBODY /\ page = "hello" /\ held3 = {} /\ backlog3 = <<>>
      /\ tcp3 = [c \in Clients |-> NoConnection] /\ text = [c \in Clients |-> <<>>]
      /\ cst3 = [c \in Clients |-> "out"] /\ want = [c \in Clients |-> {"GET "}]
      /\ got = [c \in Clients |-> "hello"] /\ left3 = [c \in Clients |-> 0]
      /\ cut = [c \in Clients |-> 0]
  BY SameHttp DEF Http!Init
<1>2. backlog3 = <<>> /\ held3 = {}
  BY DEF Http!Init
<1>3. text = [c \in Clients |-> <<>>]
  BY DEF Http!Init
<1>4. /\ NoConnection \in EndsOf(Hold)
      /\ NoConnection["srv"].st = "closed" /\ NoConnection["cli"].st = "closed"
      /\ NoConnection["srv"].rx = 0 /\ NoConnection["cli"].rx = 0
  BY HttpFacts, FreshFacts
<1>5. Cardinality(held3) <= NFds
  <2>1. Cardinality({}) = 0
    BY FS_EmptySet
  <2> QED BY <1>2, <2>1, HttpFacts
<1>6. HttpTypes
  <2>1. backlog3 \in Seq(Clients) /\ text \in [Clients -> Seq(Texts)]
    BY <1>2, <1>3
  <2>2. /\ cst3 \in [Clients -> {"out", "ready", "asked", "flood"}] /\ left3 \in [Clients -> Nat]
        /\ cut \in [Clients -> Nat]
        /\ tcp3 \in [Clients -> EndsOf(Hold)]
    BY <1>1, <1>4
  <2>3. page \in Http!Pages /\ want \in [Clients -> Http!Requests] /\ got \in [Clients -> Http!Pages]
    BY <1>1 DEF Http!Pages, Http!Requests
  <2> QED BY <1>1, <1>5, <2>1, <2>2, <2>3 DEF HttpTypes
<1>7. HttpPlaces
  <2>1. DOMAIN backlog3 = {}
    BY <1>2
  <2> QED BY <1>1, <2>1 DEF HttpPlaces
<1>8. ASSUME NEW c \in Clients PROVE OneRequest(c) /\ Follows(c)
  <2>1. /\ tcp3[c] = NoConnection /\ cst3[c] = "out" /\ text[c] = <<>>
    BY <1>1
  <2>2. OneRequest(c)
    BY <2>1 DEF OneRequest
  <2>3. Follows(c)
    BY <2>1, <1>4 DEF Follows
  <2> QED BY <2>2, <2>3
<1> QED BY <1>6, <1>7, <1>8 DEF HttpInv

\* A client connects: there was no connection, so the server neither holds one nor writes to it.
LEMMA HttpConnect ==
  ASSUME HttpInv, NEW c \in Clients, Http!Connect(c)
  PROVE  HttpInv'
<1>1. /\ spc3 # "killed" /\ tcp3[c] = NoConnection /\ tcp3' = [tcp3 EXCEPT ![c] = Connected]
      /\ backlog3' = Append(backlog3, c) /\ UNCHANGED <<spc3, cur3, page, held3, want, got>>
      /\ cut' = [cut EXCEPT ![c] = 0]
  BY SameHttp DEF Http!Connect
<1>2. PICK s \in {"ready", "flood"} : cst3' = [cst3 EXCEPT ![c] = s]
  BY DEF Http!Connect
<1>3. text' = [text EXCEPT ![c] = <<>>]
  BY DEF Http!Connect
<1>4. left3' = [left3 EXCEPT ![c] = 0]
  BY DEF Http!Connect
<1>5. /\ NoConnection["srv"].st = "closed" /\ Connected \in EndsOf(Hold)
      /\ Connected["srv"].st = "open" /\ Connected["cli"].st = "open"
      /\ Connected["srv"].rx = 0 /\ Connected["cli"].rx = 0
  BY HttpFacts, FreshFacts
<1>6. /\ tcp3' \in [Clients -> EndsOf(Hold)] /\ tcp3'[c] = Connected
      /\ \A d \in Clients \ {c} : tcp3'[d] = tcp3[d]
  BY <1>1, <1>5, OneClient
<1>7. /\ c \notin held3 /\ ~Writing(c)
      /\ \A k \in DOMAIN backlog3 : backlog3[k] # c
  BY <1>1, <1>5 DEF HttpInv, HttpPlaces, Writing
<1>8. /\ text' \in [Clients -> Seq(Texts)] /\ text'[c] = <<>>
      /\ \A d \in Clients \ {c} : text'[d] = text[d]
  BY <1>3 DEF HttpInv, HttpTypes
<1>9. /\ cst3' \in [Clients -> {"out", "ready", "asked", "flood"}] /\ cst3'[c] = s
      /\ \A d \in Clients \ {c} : cst3'[d] = cst3[d]
  BY <1>2 DEF HttpInv, HttpTypes
<1>10. /\ left3' \in [Clients -> Nat] /\ \A d \in Clients \ {c} : left3'[d] = left3[d]
       /\ cut' \in [Clients -> Nat] /\ cut'[c] = 0 /\ \A d \in Clients \ {c} : cut'[d] = cut[d]
  BY <1>1, <1>4 DEF HttpInv, HttpTypes
<1>11. backlog3 \in Seq(Clients) /\ Len(backlog3) \in Nat /\ DOMAIN backlog3 = 1 .. Len(backlog3)
  BY DEF HttpInv, HttpTypes
<1>12. /\ backlog3' \in Seq(Clients) /\ DOMAIN backlog3' = 1 .. (Len(backlog3) + 1)
       /\ backlog3'[Len(backlog3) + 1] = c
       /\ \A k \in 1 .. Len(backlog3) : backlog3'[k] = backlog3[k]
  BY <1>1, <1>11
<1>13. HttpTypes'
  BY <1>1, <1>6, <1>8, <1>9, <1>10, <1>12 DEF HttpInv, HttpTypes
<1>14. HttpPlaces'
  <2>1. \A k \in DOMAIN backlog3' : k = Len(backlog3) + 1 \/ k \in DOMAIN backlog3
    BY <1>11, <1>12
  <2>2. \A k \in DOMAIN backlog3' : backlog3'[k] \notin held3'
    BY <2>1, <1>1, <1>7, <1>11, <1>12 DEF HttpInv, HttpPlaces
  <2>3. \A k, l \in DOMAIN backlog3' : backlog3'[k] = backlog3'[l] => k = l
    BY <2>1, <1>7, <1>11, <1>12 DEF HttpInv, HttpPlaces
  <2>4. \A d \in held3' : tcp3'[d]["srv"].st # "closed"
    BY <1>1, <1>6, <1>7 DEF HttpInv, HttpTypes, HttpPlaces
  <2>5. \A k \in DOMAIN backlog3' : tcp3'[backlog3'[k]]["srv"].st # "closed"
    <3> TAKE k \in DOMAIN backlog3'
    <3>1. CASE k = Len(backlog3) + 1
      BY <3>1, <1>5, <1>6, <1>12
    <3>2. CASE k \in DOMAIN backlog3
      <4>1. backlog3'[k] = backlog3[k] /\ backlog3[k] \in Clients \ {c}
        BY <3>2, <1>7, <1>11, <1>12
      <4>2. tcp3[backlog3[k]]["srv"].st # "closed"
        BY <3>2 DEF HttpInv, HttpPlaces
      <4> QED BY <4>1, <4>2, <1>6
    <3> QED BY <2>1, <3>1, <3>2
  <2>6. spc3' = "write" => cur3' \in held3'
    BY <1>1 DEF HttpInv, HttpPlaces
  <2> QED BY <2>2, <2>3, <2>4, <2>5, <2>6 DEF HttpPlaces
<1>15. Writing(c)' <=> Writing(c)
  BY <1>1 DEF Writing
<1>16. OneRequest(c)'
  <2>1. UnderWay(c)' = 0
    BY <1>5, <1>6, <1>7, <1>15 DEF UnderWay
  <2>2. cst3'[c] # "asked" /\ cut'[c] = 0
    BY <1>9, <1>10
  <2> QED BY <2>1, <2>2 DEF OneRequest
<1>17. Follows(c)'
  <2>1. Len(text'[c]) = 0
    BY <1>8
  <2> QED BY <2>1, <1>5, <1>6, <1>9 DEF Follows
<1>18. \A d \in Clients \ {c} : (Writing(d)' <=> Writing(d)) /\ (Writing(d) => page' = page)
  BY <1>1 DEF Writing
<1>19. \A d \in Clients \ {c} : /\ tcp3'[d] = tcp3[d] /\ cst3'[d] = cst3[d] /\ want'[d] = want[d]
                                /\ got'[d] = got[d] /\ text'[d] = text[d] /\ left3'[d] = left3[d] /\ cut'[d] = cut[d]
  BY <1>1, <1>6, <1>8, <1>9, <1>10
<1> QED BY <1>13, <1>14, <1>16, <1>17, <1>18, <1>19, HttpFrame

\* A client sends: what arrives is the last that is unread.
LEMMA HttpSends ==
  ASSUME HttpInv, NEW c \in Clients, NEW s \in Texts, Http!Sends(c, s),
         tcp3[c]["cli"].st = "open", tcp3[c]["srv"].rx < Hold,
         cst3' \in [Clients -> {"out", "ready", "asked", "flood"}], want' \in [Clients -> Http!Requests],
         \A d \in Clients \ {c} : cst3'[d] = cst3[d] /\ want'[d] = want[d],
         \/ cst3[c] = "flood" /\ cst3'[c] = "flood"
         \/ cst3[c] = "ready" /\ cst3'[c] = "asked" /\ want'[c] = s
  PROVE  HttpInv'
<1> DEFINE t == tcp3[c]
           h == Sent(t, "cli")
<1>1. UNCHANGED <<spc3, cur3, page, held3, backlog3, got, left3, cut>>
  BY DEF Http!Sends
<1>2. tcp3' = [tcp3 EXCEPT ![c] = h]
  BY SameHttp, Zenon DEF Http!Sends
<1>3. text' = [text EXCEPT ![c] = Append(text[c], s)]
  BY Zenon DEF Http!Sends
<1>4. OneRequest(c) /\ Follows(c)
  BY DEF HttpInv
<1>5. t \in EndsOf(Hold) /\ Hold \in Nat /\ t["srv"].rx \in Nat /\ t["cli"].rx \in Nat
  BY HttpEnds
<1>6. /\ h \in EndsOf(Hold) /\ h["cli"].rx = t["cli"].rx /\ h["cli"].st = "open"
      /\ h["srv"].st = t["srv"].st /\ h["srv"].rx = t["srv"].rx + 1
  BY <1>5, SentFacts, OtherFacts
<1> HIDE DEF h
<1>7. /\ tcp3' \in [Clients -> EndsOf(Hold)] /\ tcp3'[c] = h
      /\ \A d \in Clients \ {c} : tcp3'[d] = tcp3[d]
  BY <1>2, <1>6, OneClient
<1>8. t["srv"].st = "open" /\ Len(text[c]) = t["srv"].rx
  BY <1>4 DEF Follows
<1>9. text[c] \in Seq(Texts) /\ Len(text[c]) \in Nat
  BY DEF HttpInv, HttpTypes
<1>10. Append(text[c], s) \in Seq(Texts) /\ Len(Append(text[c], s)) = t["srv"].rx + 1
  BY <1>8, <1>9
<1>11. /\ text' \in [Clients -> Seq(Texts)] /\ text'[c] = Append(text[c], s)
       /\ \A d \in Clients \ {c} : text'[d] = text[d]
  <2> DEFINE a == Append(text[c], s)
  <2>1. a \in Seq(Texts) /\ text' = [text EXCEPT ![c] = a]
    BY <1>3, <1>10
  <2> HIDE DEF a
  <2>2. text' \in [Clients -> Seq(Texts)] /\ text'[c] = a /\ \A d \in Clients \ {c} : text'[d] = text[d]
    BY <2>1 DEF HttpInv, HttpTypes
  <2> QED BY <2>2 DEF a
<1>12. t["srv"].rx = 0 => text'[c] = <<s>>
  <2> SUFFICES ASSUME t["srv"].rx = 0 PROVE text'[c] = <<s>>
    OBVIOUS
  <2>1. text[c] = <<>>
    BY <1>8, <1>9
  <2>2. Append(<<>>, s) = <<s>>
    OBVIOUS
  <2> QED BY <2>1, <2>2, <1>11
<1>13. Writing(c)' <=> Writing(c)
  BY <1>1 DEF Writing
<1>14. HttpTypes'
  BY <1>1, <1>7, <1>11 DEF HttpInv, HttpTypes
<1>15. HttpPlaces'
  <2>1. spc3' = "write" => cur3' \in held3
    BY <1>1 DEF HttpInv, HttpPlaces
  <2>2. tcp3'[c]["srv"].st = "closed" => tcp3[c]["srv"].st = "closed"
    BY <1>6, <1>7
  <2> QED BY <1>1, <1>7, <2>1, <2>2, PlacesKept
<1>16. OneRequest(c)'
  <2>1. CASE cst3'[c] = "flood"
    BY <2>1 DEF OneRequest
  <2>2. CASE cst3[c] = "ready" /\ cst3'[c] = "asked" /\ want'[c] = s
    <3>1. UnderWay(c) <= cut[c] /\ UnderWay(c) \in Nat /\ cut[c] \in Nat /\ cut'[c] = cut[c]
      BY <1>1, <1>4, <2>2, HttpWay DEF OneRequest
    <3>2. UnderWay(c)' = UnderWay(c) + 1
      BY <1>5, <1>6, <1>7, <1>13 DEF UnderWay
    <3>3. UnderWay(c)' <= 1 + cut'[c] /\ UnderWay(c)' >= 1
      BY <3>1, <3>2
    <3>4. ASSUME cut'[c] = 0 PROVE h["cli"].rx = 0 /\ ~Writing(c)' /\ text'[c] = <<want'[c]>>
      <4>1. t["srv"].rx = 0 /\ t["cli"].rx = 0 /\ ~Writing(c)
        BY <3>1, <3>4, HttpWay
      <4> QED BY <4>1, <2>2, <1>6, <1>12, <1>13
    <3> QED BY <2>2, <3>3, <3>4, <1>7 DEF OneRequest
  <2> QED BY <2>1, <2>2
<1>17. Follows(c)'
  <2>1. Len(text'[c]) = h["srv"].rx
    BY <1>6, <1>10, <1>11
  <2>2. cst3'[c] # "out"
    OBVIOUS
  <2> QED BY <2>1, <2>2, <1>6, <1>7, <1>8 DEF Follows
<1>18. \A d \in Clients \ {c} : (Writing(d)' <=> Writing(d)) /\ (Writing(d) => page' = page)
  BY <1>1 DEF Writing
<1>19. \A d \in Clients \ {c} : /\ tcp3'[d] = tcp3[d] /\ cst3'[d] = cst3[d] /\ want'[d] = want[d]
                                /\ got'[d] = got[d] /\ text'[d] = text[d] /\ left3'[d] = left3[d] /\ cut'[d] = cut[d]
  BY <1>1, <1>7, <1>11
<1> QED BY <1>14, <1>15, <1>16, <1>17, <1>18, <1>19, HttpFrame

\* A browser asks, if there is room: what is under way before is left over from cuts.
LEMMA HttpRequest ==
  ASSUME HttpInv, NEW c \in Clients, Http!Request(c)
  PROVE  HttpInv'
<1>1. /\ cst3[c] = "ready" /\ tcp3[c].cli.st = "open" /\ Writable(tcp3[c], "cli", Hold)
      /\ cst3' = [cst3 EXCEPT ![c] = "asked"]
  BY SameHttp DEF Http!Request
<1>2. PICK s \in Http!Requests : want' = [want EXCEPT ![c] = s] /\ Http!Sends(c, s)
  BY DEF Http!Request
<1>3. tcp3[c].cli = tcp3[c]["cli"]
  BY HttpEnds
<1>4. tcp3[c]["srv"].rx < Hold
  BY <1>1, <1>3, OtherFacts DEF Writable
<1>5. /\ cst3' \in [Clients -> {"out", "ready", "asked", "flood"}] /\ cst3'[c] = "asked"
      /\ \A d \in Clients \ {c} : cst3'[d] = cst3[d]
  BY <1>1 DEF HttpInv, HttpTypes
<1>6. /\ want' \in [Clients -> Http!Requests] /\ want'[c] = s
      /\ \A d \in Clients \ {c} : want'[d] = want[d]
  BY <1>2 DEF HttpInv, HttpTypes
<1>7. s \in Texts
  BY DEF Texts, Http!Requests, Http!Words
<1> QED BY <1>1, <1>2, <1>3, <1>4, <1>5, <1>6, <1>7, HttpSends

\* client.cpp sends when there is room.
LEMMA HttpFlood ==
  ASSUME HttpInv, NEW c \in Clients, Http!FloodSends(c)
  PROVE  HttpInv'
<1>1. /\ cst3[c] = "flood" /\ tcp3[c].cli.st = "open" /\ Writable(tcp3[c], "cli", Hold)
      /\ Http!Sends(c, {}) /\ UNCHANGED <<cst3, want>>
  BY SameHttp DEF Http!FloodSends
<1>2. tcp3[c].cli = tcp3[c]["cli"]
  BY HttpEnds
<1>3. tcp3[c]["srv"].rx < Hold
  BY <1>1, <1>2, OtherFacts DEF Writable
<1>4. {} \in Texts
  BY DEF Texts
<1>5. cst3' \in [Clients -> {"out", "ready", "asked", "flood"}] /\ want' \in [Clients -> Http!Requests]
  BY <1>1 DEF HttpInv, HttpTypes
<1> QED BY <1>1, <1>2, <1>3, <1>4, <1>5, HttpSends

\* A client reads: a browser has its page then, and there is one less under way.
LEMMA HttpClientReads ==
  ASSUME HttpInv, NEW c \in Clients, Http!ClientReads(c)
  PROVE  HttpInv'
<1> DEFINE t == tcp3[c]
           h == Received(t, "cli")
           s == IF cst3[c] = "asked" THEN "ready" ELSE cst3[c]
<1>1. cst3[c] # "out" /\ t.cli.rx > 0 /\ UNCHANGED <<spc3, cur3, page, held3, backlog3, text, want, got, left3, cut>>
  BY DEF Http!ClientReads
<1>2. tcp3' = [tcp3 EXCEPT ![c] = h]
  BY SameHttp, Zenon DEF Http!ClientReads
<1>3. cst3' = [cst3 EXCEPT ![c] = s]
  BY Zenon DEF Http!ClientReads
<1>4. OneRequest(c) /\ Follows(c) /\ cst3[c] \in {"out", "ready", "asked", "flood"}
  BY DEF HttpInv, HttpTypes
<1>5. /\ t \in EndsOf(Hold) /\ Hold \in Nat /\ t["srv"].rx \in Nat /\ t["cli"].rx \in Nat
      /\ t["cli"].rx > 0
  BY <1>1, HttpEnds
<1>6. /\ h \in EndsOf(Hold) /\ h["cli"].rx = t["cli"].rx - 1 /\ h["cli"].st = t["cli"].st
      /\ h["srv"] = t["srv"]
  BY <1>5, ReceivedFacts, OtherFacts
<1> HIDE DEF h
<1>7. /\ tcp3' \in [Clients -> EndsOf(Hold)] /\ tcp3'[c] = h
      /\ \A d \in Clients \ {c} : tcp3'[d] = tcp3[d]
  BY <1>2, <1>6, OneClient
<1>8. /\ s \in {"ready", "flood"} /\ (cst3[c] = "asked" => s = "ready")
      /\ (s = "ready" => cst3[c] \in {"asked", "ready"})
  BY <1>1, <1>4
<1> HIDE DEF s
<1>9. /\ cst3' \in [Clients -> {"out", "ready", "asked", "flood"}] /\ cst3'[c] = s
      /\ \A d \in Clients \ {c} : cst3'[d] = cst3[d]
  BY <1>3, <1>8 DEF HttpInv, HttpTypes
<1>10. HttpTypes'
  BY <1>1, <1>7, <1>9 DEF HttpInv, HttpTypes
<1>11. HttpPlaces'
  <2>1. spc3' = "write" => cur3' \in held3
    BY <1>1 DEF HttpInv, HttpPlaces
  <2>2. tcp3'[c]["srv"].st = "closed" => tcp3[c]["srv"].st = "closed"
    BY <1>6, <1>7
  <2> QED BY <1>1, <1>7, <2>1, <2>2, PlacesKept
<1>12. Writing(c)' <=> Writing(c)
  BY <1>1 DEF Writing
<1>13. OneRequest(c)'
  <2>1. CASE s = "flood"
    BY <2>1, <1>9 DEF OneRequest
  <2>2. CASE s = "ready"
    <3>1. UnderWay(c) <= 1 + cut[c] /\ UnderWay(c) \in Nat /\ cut[c] \in Nat /\ cut'[c] = cut[c]
      BY <2>2, <1>1, <1>4, <1>8, HttpWay DEF OneRequest
    <3>2. UnderWay(c)' = UnderWay(c) - 1
      BY <1>5, <1>6, <1>7, <1>12 DEF UnderWay
    <3>3. UnderWay(c)' <= cut'[c]
      BY <3>1, <3>2
    <3> QED BY <2>2, <3>3, <1>9 DEF OneRequest
  <2> QED BY <2>1, <2>2, <1>8
<1>14. Follows(c)'
  BY <1>1, <1>4, <1>6, <1>7, <1>8, <1>9, <1>12 DEF Follows
<1>15. \A d \in Clients \ {c} : (Writing(d)' <=> Writing(d)) /\ (Writing(d) => page' = page)
  BY <1>1 DEF Writing
<1>16. \A d \in Clients \ {c} : /\ tcp3'[d] = tcp3[d] /\ cst3'[d] = cst3[d] /\ want'[d] = want[d]
                                /\ got'[d] = got[d] /\ text'[d] = text[d] /\ left3'[d] = left3[d] /\ cut'[d] = cut[d]
  BY <1>1, <1>7, <1>9
<1> QED BY <1>10, <1>11, <1>13, <1>14, <1>15, <1>16, HttpFrame

\* A client leaves: the server sees the end, or a reset, and left says what is unread.
LEMMA HttpLeaves ==
  ASSUME HttpInv, NEW c \in Clients, Http!Leaves(c)
  PROVE  HttpInv'
<1> DEFINE t == tcp3[c]
           h == Closed(t, "cli")
<1>1. /\ cst3[c] # "out" /\ UNCHANGED <<spc3, cur3, page, held3, backlog3, text, cut>>
      /\ want' = [want EXCEPT ![c] = {"GET "}] /\ got' = [got EXCEPT ![c] = "hello"]
      /\ cst3' = [cst3 EXCEPT ![c] = "out"] /\ left3' = [left3 EXCEPT ![c] = t.srv.rx]
  BY DEF Http!Leaves
<1>2. tcp3' = [tcp3 EXCEPT ![c] = h]
  BY SameHttp, Zenon DEF Http!Leaves
<1>3. Follows(c)
  BY DEF HttpInv
<1>4. /\ t \in EndsOf(Hold) /\ Hold \in Nat /\ t["srv"].rx \in Nat /\ t.srv = t["srv"]
      /\ NoEnd.st = "closed"
  BY HttpEnds, FreshFacts
<1>5. /\ h \in EndsOf(Hold) /\ h["cli"] = NoEnd /\ h["srv"].rx = t["srv"].rx
      /\ h["srv"].st = IF t["srv"].st # "open" THEN t["srv"].st
                       ELSE IF t["cli"].rx > 0 THEN "rst" ELSE "fin"
  BY <1>4, ClosedFacts, OtherFacts
<1> HIDE DEF h
<1>6. /\ tcp3' \in [Clients -> EndsOf(Hold)] /\ tcp3'[c] = h
      /\ \A d \in Clients \ {c} : tcp3'[d] = tcp3[d]
  BY <1>2, <1>5, OneClient
<1>7. /\ cst3' \in [Clients -> {"out", "ready", "asked", "flood"}] /\ cst3'[c] = "out"
      /\ \A d \in Clients \ {c} : cst3'[d] = cst3[d]
  BY <1>1 DEF HttpInv, HttpTypes
<1>8. /\ left3' \in [Clients -> Nat] /\ left3'[c] = t["srv"].rx
      /\ \A d \in Clients \ {c} : left3'[d] = left3[d]
  BY <1>1, <1>4 DEF HttpInv, HttpTypes
<1>9. HttpTypes'
  <2>1. want' \in [Clients -> Http!Requests] /\ got' \in [Clients -> Http!Pages]
    BY <1>1 DEF HttpInv, HttpTypes, Http!Requests, Http!Pages
  <2> QED BY <2>1, <1>1, <1>6, <1>7, <1>8 DEF HttpInv, HttpTypes
<1>10. HttpPlaces'
  <2>1. spc3' = "write" => cur3' \in held3
    BY <1>1 DEF HttpInv, HttpPlaces
  <2>2. tcp3'[c]["srv"].st = "closed" => tcp3[c]["srv"].st = "closed"
    BY <1>5, <1>6
  <2> QED BY <1>1, <1>6, <2>1, <2>2, PlacesKept
<1>11. OneRequest(c)'
  BY <1>7 DEF OneRequest
<1>12. Follows(c)'
  <2>1. h["srv"].st \notin {"open", "prov", "pipe"}
    BY <1>1, <1>3, <1>5 DEF Follows
  <2>2. h["srv"].st = "closed" <=> t["srv"].st = "closed"
    BY <1>5
  <2> QED BY <2>1, <2>2, <1>1, <1>3, <1>4, <1>5, <1>6, <1>7, <1>8 DEF Follows
<1>13. \A d \in Clients \ {c} : (Writing(d)' <=> Writing(d)) /\ (Writing(d) => page' = page)
  BY <1>1 DEF Writing
<1>14. \A d \in Clients \ {c} : /\ tcp3'[d] = tcp3[d] /\ cst3'[d] = cst3[d] /\ want'[d] = want[d]
                                /\ got'[d] = got[d] /\ text'[d] = text[d] /\ left3'[d] = left3[d] /\ cut'[d] = cut[d]
  <2>1. \A d \in Clients \ {c} : want'[d] = want[d] /\ got'[d] = got[d]
    BY <1>1 DEF HttpInv, HttpTypes
  <2> QED BY <2>1, <1>1, <1>6, <1>7, <1>8
<1> QED BY <1>9, <1>10, <1>11, <1>12, <1>13, <1>14, HttpFrame

\* A reset arrives.
LEMMA HttpReset ==
  ASSUME HttpInv, NEW c \in Clients, Http!ResetArrives(c)
  PROVE  HttpInv'
<1>1. PICK side \in Sides : tcp3[c][side].st = "prov" /\ tcp3' = [tcp3 EXCEPT ![c] = Http!ResetAt(@, side)]
  BY SameHttp DEF Http!ResetArrives
<1> DEFINE t == tcp3[c]
           h == ResetAt(t, side)
<1>2. tcp3' = [tcp3 EXCEPT ![c] = h]
  BY <1>1, SameHttp, Zenon
<1>3. UNCHANGED <<spc3, cur3, page, held3, backlog3, text, cst3, want, got, left3, cut>>
  BY DEF Http!ResetArrives
<1>4. OneRequest(c) /\ Follows(c)
  BY DEF HttpInv
<1>5. t \in EndsOf(Hold) /\ Hold \in Nat
  BY HttpEnds
<1>6. /\ h \in EndsOf(Hold) /\ h[side].st = "pipe" /\ h[side].rx = t[side].rx
      /\ h[Other(side)] = t[Other(side)]
  BY <1>5, ResetFacts
<1> HIDE DEF h
<1>7. /\ h["srv"].rx = t["srv"].rx /\ h["cli"].rx = t["cli"].rx
      /\ h["srv"].st = t["srv"].st \/ (h["srv"].st = "pipe" /\ t["srv"].st = "prov")
      /\ h["cli"].st = t["cli"].st \/ (h["cli"].st = "pipe" /\ t["cli"].st = "prov")
  BY <1>1, <1>6, OtherFacts DEF Sides
<1>8. /\ tcp3' \in [Clients -> EndsOf(Hold)] /\ tcp3'[c] = h
      /\ \A d \in Clients \ {c} : tcp3'[d] = tcp3[d]
  BY <1>2, <1>6, OneClient
<1>9. HttpTypes'
  BY <1>3, <1>8 DEF HttpInv, HttpTypes
<1>10. HttpPlaces'
  <2>1. spc3' = "write" => cur3' \in held3
    BY <1>3 DEF HttpInv, HttpPlaces
  <2>2. tcp3'[c]["srv"].st = "closed" => tcp3[c]["srv"].st = "closed"
    BY <1>7, <1>8
  <2> QED BY <1>3, <1>8, <2>1, <2>2, PlacesKept
<1>11. Writing(c)' <=> Writing(c)
  BY <1>3 DEF Writing
<1>12. OneRequest(c)'
  <2>1. UnderWay(c)' = UnderWay(c) /\ (tcp3'[c]["cli"].st = "open" => t["cli"].st = "open")
    BY <1>7, <1>8, <1>11 DEF UnderWay
  <2> QED BY <2>1, <1>3, <1>4, <1>7, <1>8, <1>11 DEF OneRequest
<1>13. Follows(c)'
  BY <1>3, <1>4, <1>7, <1>8, <1>11 DEF Follows
<1>14. \A d \in Clients \ {c} : (Writing(d)' <=> Writing(d)) /\ (Writing(d) => page' = page)
  BY <1>3 DEF Writing
<1>15. \A d \in Clients \ {c} : /\ tcp3'[d] = tcp3[d] /\ cst3'[d] = cst3[d] /\ want'[d] = want[d]
                                /\ got'[d] = got[d] /\ text'[d] = text[d] /\ left3'[d] = left3[d] /\ cut'[d] = cut[d]
  BY <1>3, <1>8
<1> QED BY <1>9, <1>10, <1>12, <1>13, <1>14, <1>15, HttpFrame

\* accept: a connection is held and waits no more.
LEMMA HttpAccept ==
  ASSUME HttpInv, Http!Accept
  PROVE  HttpInv'
<1>1. /\ spc3 = "wait" /\ backlog3 # <<>> /\ Http!Cardinality(held3) < NFds
      /\ held3' = held3 \cup {Head(backlog3)} /\ backlog3' = Tail(backlog3)
      /\ UNCHANGED <<spc3, cur3, page, tcp3, text, cst3, want, got, left3, cut>>
  BY DEF Http!Accept
<1>2. backlog3 \in Seq(Clients) /\ Len(backlog3) \in Nat /\ DOMAIN backlog3 = 1 .. Len(backlog3)
  BY DEF HttpInv, HttpTypes
<1>3. Len(backlog3) > 0 /\ Head(backlog3) = backlog3[1] /\ backlog3[1] \in Clients
  BY <1>1, <1>2
<1>4. /\ backlog3' \in Seq(Clients) /\ DOMAIN backlog3' = 1 .. (Len(backlog3) - 1)
      /\ \A k \in 1 .. (Len(backlog3) - 1) : backlog3'[k] = backlog3[k + 1]
  BY <1>1, <1>2, <1>3
<1>5. held3 \subseteq Clients /\ backlog3[1] \notin held3
  <2>1. 1 \in DOMAIN backlog3
    BY <1>2, <1>3
  <2> QED BY <2>1 DEF HttpInv, HttpTypes, HttpPlaces
<1>6. Cardinality(held3') <= NFds
  <2>1. IsFiniteSet(held3)
    BY <1>5, HttpFacts, FS_Subset
  <2>2. Cardinality(held3') = Cardinality(held3) + 1 /\ Cardinality(held3) \in Nat
    BY <2>1, <1>1, <1>3, <1>5, FS_AddElement, FS_CardinalityType
  <2> QED BY <2>2, <1>1, SameHttp, HttpFacts
<1>7. HttpTypes'
  BY <1>1, <1>3, <1>4, <1>5, <1>6 DEF HttpInv, HttpTypes
<1>8. HttpPlaces'
  <2>1. \A k \in DOMAIN backlog3' : /\ k + 1 \in DOMAIN backlog3 /\ backlog3'[k] = backlog3[k + 1]
                                    /\ k \in Nat /\ k > 0
    BY <1>2, <1>3, <1>4
  <2>2. 1 \in DOMAIN backlog3
    BY <1>2, <1>3
  <2>3. \A k, l \in DOMAIN backlog3 : backlog3[k] = backlog3[l] => k = l
    BY DEF HttpInv, HttpPlaces
  <2>4. \A k \in DOMAIN backlog3' : backlog3'[k] \notin held3'
    <3> TAKE k \in DOMAIN backlog3'
    <3>1. backlog3[k + 1] \notin held3
      BY <2>1 DEF HttpInv, HttpPlaces
    <3>2. backlog3[k + 1] # backlog3[1]
      <4>1. k + 1 # 1
        BY <2>1
      <4> QED BY <4>1, <2>1, <2>2, <2>3
    <3> QED BY <3>1, <3>2, <2>1, <1>1, <1>3
  <2>5. \A k, l \in DOMAIN backlog3' : backlog3'[k] = backlog3'[l] => k = l
    <3> TAKE k, l \in DOMAIN backlog3'
    <3> HAVE backlog3'[k] = backlog3'[l]
    <3>1. k + 1 = l + 1
      BY <2>1, <2>3
    <3> QED BY <3>1, <2>1
  <2>6. \A d \in held3' : tcp3[d]["srv"].st # "closed"
    BY <2>2, <1>1, <1>3 DEF HttpInv, HttpPlaces
  <2>7. \A k \in DOMAIN backlog3' : tcp3[backlog3'[k]]["srv"].st # "closed"
    BY <2>1 DEF HttpInv, HttpPlaces
  <2> QED BY <1>1, <2>4, <2>5, <2>6, <2>7 DEF HttpPlaces
<1>9. ASSUME NEW c \in Clients PROVE OneRequest(c)' /\ Follows(c)'
  BY <1>1 DEF HttpInv, OneRequest, Follows, UnderWay, Writing
<1> QED BY <1>7, <1>8, <1>9 DEF HttpInv

\* recv fails: the connection is closed.
LEMMA HttpRecvFails ==
  ASSUME HttpInv, NEW c \in Clients, Http!RecvFails(c)
  PROVE  HttpInv'
<1> DEFINE t == tcp3[c]
           h == Closed(t, "srv")
<1>1. /\ spc3 = "wait" /\ c \in held3 /\ t.srv.rx = 0 /\ t.srv.st = "rst" /\ held3' = held3 \ {c}
      /\ UNCHANGED <<spc3, cur3, page, backlog3, text, cst3, want, got, left3, cut>>
  BY DEF Http!RecvFails
<1>2. tcp3' = [tcp3 EXCEPT ![c] = h]
  BY SameHttp, Zenon DEF Http!RecvFails
<1>3. OneRequest(c) /\ Follows(c)
  BY DEF HttpInv
<1>4. /\ t \in EndsOf(Hold) /\ Hold \in Nat /\ t.srv = t["srv"] /\ t["cli"].rx \in Nat
      /\ NoEnd.st = "closed" /\ NoEnd.rx = 0
  BY HttpEnds, FreshFacts
<1>5. /\ h \in EndsOf(Hold) /\ h["srv"] = NoEnd /\ h["cli"].rx = t["cli"].rx
      /\ h["cli"].st = IF t["cli"].st # "open" THEN t["cli"].st
                       ELSE IF t["srv"].rx > 0 THEN "rst" ELSE "fin"
  BY <1>4, ClosedFacts, OtherFacts
<1> HIDE DEF h
<1>6. /\ tcp3' \in [Clients -> EndsOf(Hold)] /\ tcp3'[c] = h
      /\ \A d \in Clients \ {c} : tcp3'[d] = tcp3[d]
  BY <1>2, <1>5, OneClient
<1>7. Cardinality(held3') <= NFds
  <2>1. IsFiniteSet(held3) /\ Cardinality(held3) <= NFds
    BY HttpFacts, FS_Subset DEF HttpInv, HttpTypes
  <2>2. Cardinality(held3') = Cardinality(held3) - 1 /\ Cardinality(held3) \in Nat
    BY <2>1, <1>1, FS_RemoveElement, FS_CardinalityType
  <2> QED BY <2>1, <2>2, HttpFacts
<1>8. HttpTypes'
  BY <1>1, <1>6, <1>7 DEF HttpInv, HttpTypes
<1>9. HttpPlaces'
  <2>1. \A k \in DOMAIN backlog3 : backlog3[k] \in Clients
    BY DEF HttpInv, HttpTypes
  <2>2. \A k \in DOMAIN backlog3 : backlog3[k] # c
    BY <1>1 DEF HttpInv, HttpPlaces
  <2>3. \A k \in DOMAIN backlog3 : tcp3'[backlog3[k]]["srv"].st # "closed"
    BY <2>1, <2>2, <1>6 DEF HttpInv, HttpPlaces
  <2>4. \A d \in held3' : tcp3'[d]["srv"].st # "closed"
    BY <1>1, <1>6 DEF HttpInv, HttpTypes, HttpPlaces
  <2> QED BY <1>1, <2>3, <2>4 DEF HttpInv, HttpPlaces
<1>10. \A d \in Clients : ~Writing(d)' /\ ~Writing(d)
  BY <1>1 DEF Writing
<1>11. OneRequest(c)'
  <2>1. UnderWay(c)' = UnderWay(c) /\ tcp3'[c]["cli"].st # "open" /\ tcp3'[c]["srv"].rx = 0
    BY <1>1, <1>4, <1>5, <1>6, <1>10 DEF UnderWay
  <2> QED BY <2>1, <1>1, <1>3, <1>5, <1>6, <1>10 DEF OneRequest
<1>12. Follows(c)'
  <2>1. h["cli"].st # "open"
    BY <1>5
  <2> QED BY <1>1, <1>4, <1>5, <1>6, <1>10, <2>1 DEF Follows
<1>13. \A d \in Clients \ {c} : (Writing(d)' <=> Writing(d)) /\ (Writing(d) => page' = page)
  BY <1>10
<1>14. \A d \in Clients \ {c} : /\ tcp3'[d] = tcp3[d] /\ cst3'[d] = cst3[d] /\ want'[d] = want[d]
                                /\ got'[d] = got[d] /\ text'[d] = text[d] /\ left3'[d] = left3[d] /\ cut'[d] = cut[d]
  BY <1>1, <1>6
<1> QED BY <1>8, <1>9, <1>11, <1>12, <1>13, <1>14, HttpFrame

\* Of r texts and l pages m texts are taken, and one page is written for them.
LEMMA TakenCount ==
  ASSUME NEW r \in Nat, NEW l \in Nat, NEW m \in 0 .. r, NEW u \in Nat, NEW z \in Nat,
         (z = u /\ m >= 1) \/ z = u + 1, NEW k \in Nat, r + l <= k + u
  PROVE  (r - m) + l + 1 <= k + z /\ (r - m) + l + 1 >= 1
  OBVIOUS

\* If there was one text or page, it was the text that was taken.
LEMMA TakenOne ==
  ASSUME NEW r \in Nat, NEW l \in Nat, NEW m \in 0 .. r, m >= 1, r + l <= 1
  PROVE  r = 1 /\ l = 0 /\ m = 1
  OBVIOUS

\* The texts after the n-th.
LEMMA RestOfTexts ==
  ASSUME NEW S, NEW s \in Seq(S), NEW n \in 1 .. Len(s)
  PROVE  s[n] \in S /\ SubSeq(s, n + 1, Len(s)) \in Seq(S) /\ Len(SubSeq(s, n + 1, Len(s))) = Len(s) - n
<1>1. n \in Nat /\ Len(s) \in Nat /\ n + 1 \in 1 .. Len(s) + 1
  OBVIOUS
<1> QED BY <1>1

\* recv of the server takes m texts, and the first part of one more if it cuts one: what
\* it answers is under way instead of them.  If it cut none, the one text of a browser
\* is its request.
LEMMA HttpTakes ==
  ASSUME HttpInv, NEW c \in Clients, Http!Requested(c),
         spc3' = "write", cur3' = c, UNCHANGED <<held3, backlog3, cst3, want, got, left3>>,
         NEW m \in 0 .. tcp3[c]["srv"].rx, tcp3' = [tcp3 EXCEPT ![c].srv.rx = @ - m],
         NEW x \in Seq(Texts), Len(x) = tcp3[c]["srv"].rx - m, text' = [text EXCEPT ![c] = x],
         NEW z \in Nat, (z = cut[c] /\ m >= 1) \/ z = cut[c] + 1, cut' = [cut EXCEPT ![c] = z],
         page' \in Http!Pages,
         z = cut[c] /\ m = 1 /\ text[c] = <<want[c]>> => Fits(want[c], page')
  PROVE  HttpInv'
<1> DEFINE t == tcp3[c]
           e == [t["srv"] EXCEPT !.rx = t["srv"].rx - m]
           h == [t EXCEPT !["srv"] = e]
<1>1. spc3 = "wait" /\ c \in held3 /\ t.srv.rx > 0
  BY DEF Http!Requested
<1>2. OneRequest(c) /\ Follows(c) /\ t["srv"].st # "closed"
  BY <1>1 DEF HttpInv, HttpPlaces
<1>3. /\ t \in EndsOf(Hold) /\ Hold \in Nat /\ t["srv"].rx \in Nat /\ t["cli"].rx \in Nat
      /\ t.srv = t["srv"] /\ t["srv"] \in End(Hold) /\ t["srv"].rx > 0
  BY <1>1, HttpEnds, EndFacts
<1>4. tcp3' = [tcp3 EXCEPT ![c] = h]
  BY <1>3, Zenon
<1>5. m \in Nat /\ m <= t["srv"].rx
  BY <1>3
<1>6. e \in End(Hold) /\ e.rx = t["srv"].rx - m /\ e.st = t["srv"].st
  BY <1>3, <1>5 DEF End
<1> HIDE DEF e
<1>7. h \in EndsOf(Hold) /\ h["srv"] = e /\ h["cli"] = t["cli"]
  BY <1>3, <1>6, OtherFacts DEF EndsOf, Sides
<1> HIDE DEF h
<1>8. /\ tcp3' \in [Clients -> EndsOf(Hold)] /\ tcp3'[c] = h
      /\ \A d \in Clients \ {c} : tcp3'[d] = tcp3[d]
  BY <1>4, <1>7, OneClient
<1>9. /\ text' \in [Clients -> Seq(Texts)] /\ text'[c] = x
      /\ \A d \in Clients \ {c} : text'[d] = text[d]
  BY DEF HttpInv, HttpTypes
<1>10. /\ cut' \in [Clients -> Nat] /\ cut'[c] = z
       /\ \A d \in Clients \ {c} : cut'[d] = cut[d]
  BY DEF HttpInv, HttpTypes
<1>11. HttpTypes'
  BY <1>8, <1>9, <1>10 DEF HttpInv, HttpTypes
<1>12. HttpPlaces'
  <2>1. tcp3'[c]["srv"].st = "closed" => tcp3[c]["srv"].st = "closed"
    BY <1>6, <1>7, <1>8
  <2> QED BY <1>1, <1>8, <2>1, PlacesKept
<1>13. Writing(c)' /\ \A d \in Clients : ~Writing(d)
  BY <1>1 DEF Writing
<1>14. OneRequest(c)'
  <2>1. UnderWay(c) = t["srv"].rx + t["cli"].rx /\ UnderWay(c) \in Nat /\ cut[c] \in Nat
    BY <1>13, HttpWay
  <2>2. UnderWay(c)' = (t["srv"].rx - m) + t["cli"].rx + 1
    BY <1>6, <1>7, <1>8, <1>13 DEF UnderWay
  <2>3. ASSUME NEW k \in Nat, UnderWay(c) <= k + cut[c]
        PROVE  UnderWay(c)' <= k + z /\ UnderWay(c)' >= 1
    <3> DEFINE rx == t["srv"].rx
               l == t["cli"].rx
    <3>1. rx \in Nat /\ l \in Nat /\ m \in 0 .. rx /\ cut[c] \in Nat /\ rx + l <= k + cut[c]
      BY <2>1, <2>3, <1>3
    <3> HIDE DEF rx, l
    <3>2. (rx - m) + l + 1 <= k + z /\ (rx - m) + l + 1 >= 1
      BY <3>1, TakenCount
    <3> QED BY <2>2, <3>2 DEF rx, l
  <2>4. cst3[c] = "ready" => UnderWay(c)' <= z
    <3> SUFFICES ASSUME cst3[c] = "ready" PROVE UnderWay(c)' <= 0 + z
      OBVIOUS
    <3>1. UnderWay(c) <= 0 + cut[c]
      BY <2>1, <1>2 DEF OneRequest
    <3> QED BY <2>3, <3>1
  <2>5. cst3[c] = "asked" => UnderWay(c)' <= 1 + z /\ UnderWay(c)' >= 1
    <3> SUFFICES ASSUME cst3[c] = "asked" PROVE UnderWay(c)' <= 1 + z /\ UnderWay(c)' >= 1
      OBVIOUS
    <3>1. UnderWay(c) <= 1 + cut[c]
      BY <1>2 DEF OneRequest
    <3> QED BY <2>3, <3>1
  <2>6. ASSUME cst3[c] = "asked", z = 0
        PROVE  tcp3'[c]["srv"].rx = 0 /\ tcp3'[c]["cli"].rx = 0 /\ Fits(want[c], page')
    <3>1. cut[c] = 0 /\ m >= 1 /\ UnderWay(c) <= 1 + 0
      BY <2>1, <2>6, <1>2 DEF OneRequest
    <3>2. t["srv"].rx = 1 /\ t["cli"].rx = 0 /\ m = 1
      <4> DEFINE rx == t["srv"].rx
                 l == t["cli"].rx
      <4>1. rx \in Nat /\ l \in Nat /\ m \in 0 .. rx /\ m >= 1 /\ rx + l <= 1
        BY <2>1, <3>1, <1>3
      <4> HIDE DEF rx, l
      <4>2. rx = 1 /\ l = 0 /\ m = 1
        BY <4>1, TakenOne
      <4> QED BY <4>2 DEF rx, l
    <3>3. text[c] = <<want[c]>>
      BY <2>6, <3>1, <3>2, <1>2 DEF OneRequest
    <3>4. Fits(want[c], page')
      BY <2>6, <3>1, <3>2, <3>3
    <3> QED BY <3>2, <3>4, <1>6, <1>7, <1>8
  <2> QED BY <2>4, <2>5, <2>6, <1>10 DEF OneRequest
<1>15. Follows(c)'
  <2>1. cst3[c] = "out" => left3[c] # 0
    BY <1>2, <1>3 DEF Follows
  <2>2. t["srv"].st \in {"prov", "pipe"} => left3[c] # 0
    BY <2>1, <1>2 DEF Follows
  <2>3. Len(text'[c]) = h["srv"].rx
    BY <1>6, <1>7, <1>9
  <2> QED BY <2>1, <2>2, <2>3, <1>2, <1>6, <1>7, <1>8 DEF Follows
<1>16. \A d \in Clients \ {c} : (Writing(d)' <=> Writing(d)) /\ (Writing(d) => page' = page)
  BY <1>13 DEF Writing
<1>17. \A d \in Clients \ {c} : /\ tcp3'[d] = tcp3[d] /\ cst3'[d] = cst3[d] /\ want'[d] = want[d]
                                /\ got'[d] = got[d] /\ text'[d] = text[d] /\ left3'[d] = left3[d] /\ cut'[d] = cut[d]
  BY <1>8, <1>9, <1>10
<1> QED BY <1>11, <1>12, <1>14, <1>15, <1>16, <1>17, HttpFrame

\* recv of the server: it takes texts whole, or cuts the last of them.
LEMMA HttpRecv ==
  ASSUME HttpInv, NEW c \in Clients, Http!Recv(c)
  PROVE  HttpInv'
<1> DEFINE rx == tcp3[c]["srv"].rx
           before(n) == UNION {text[c][k] : k \in 1 .. n - 1}
           after(n) == SubSeq(text[c], n + 1, Len(text[c]))
<1>1. /\ Http!Requested(c) /\ spc3' = "write" /\ cur3' = c
      /\ UNCHANGED <<held3, backlog3, cst3, want, got, left3>>
  BY DEF Http!Recv
<1>2. rx \in Nat /\ tcp3[c].srv.rx = rx /\ cut[c] \in Nat
  BY HttpEnds, HttpWay
<1>3. text[c] \in Seq(Texts) /\ Len(text[c]) = rx
  BY <1>1 DEF HttpInv, HttpTypes, HttpPlaces, Follows, Http!Requested
<1>4. PICK n \in 1 .. rx :
         \/ /\ page' = Http!PageFor(before(n) \cup text[c][n]) /\ text' = [text EXCEPT ![c] = after(n)]
            /\ tcp3' = [tcp3 EXCEPT ![c].srv.rx = @ - n] /\ cut' = cut
         \/ /\ \E p \in Http!Cuts(text[c][n]) : /\ page' = Http!PageFor(before(n) \cup p[1])
                                               /\ text' = [text EXCEPT ![c] = <<p[2]>> \o after(n)]
            /\ tcp3' = [tcp3 EXCEPT ![c].srv.rx = @ - (n - 1)] /\ cut' = [cut EXCEPT ![c] = @ + 1]
  BY <1>2 DEF Http!Recv
<1>5. /\ after(n) \in Seq(Texts) /\ Len(after(n)) = rx - n /\ text[c][n] \in Texts
      /\ n \in Nat /\ n >= 1 /\ n <= rx
  <2> DEFINE a == SubSeq(text[c], n + 1, Len(text[c]))
  <2>1. n \in Nat /\ n >= 1 /\ n <= rx /\ n \in 1 .. Len(text[c])
    BY <1>2, <1>3
  <2>2. text[c][n] \in Texts /\ a \in Seq(Texts) /\ Len(a) = Len(text[c]) - n
    BY <2>1, <1>3, RestOfTexts
  <2>3. after(n) = a
    OBVIOUS
  <2> HIDE DEF after, a
  <2> QED BY <2>1, <2>2, <2>3, <1>3
<1>6. \A words : Http!PageFor(words) \in Http!Pages
  BY DEF Http!PageFor, Http!Pages
<1>7. CASE /\ page' = Http!PageFor(before(n) \cup text[c][n]) /\ text' = [text EXCEPT ![c] = after(n)]
           /\ tcp3' = [tcp3 EXCEPT ![c].srv.rx = @ - n] /\ cut' = cut
  <2>1. ASSUME n = 1, text[c] = <<want[c]>> PROVE Fits(want[c], page')
    <3>1. before(n) = {} /\ text[c][n] = want[c]
      <4>1. 1 .. 1 - 1 = {} /\ <<want[c]>>[1] = want[c]
        OBVIOUS
      <4>2. before(n) = UNION {text[c][k] : k \in {}}
        BY <2>1, <4>1, Zenon
      <4>3. UNION {text[c][k] : k \in {}} = {}
        BY Zenon
      <4> QED BY <2>1, <4>1, <4>2, <4>3, Zenon
    <3>2. page' = Http!PageFor(want[c])
      <4>1. \A w : {} \cup w = w
        OBVIOUS
      <4>2. before(n) \cup text[c][n] = want[c]
        BY <3>1, <4>1, Zenon
      <4> QED BY <1>7, <4>2, Zenon
    <3>3. "GET " \in want[c]
      <4>1. want[c] \in Http!Requests
        BY DEF HttpInv, HttpTypes
      <4>2. \A w \in Http!Requests : "GET " \in w
        BY DEF Http!Requests, Http!Words
      <4> QED BY <4>1, <4>2
    <3> QED BY <3>2, <3>3 DEF Http!PageFor, Fits
  <2>2. cut' = [cut EXCEPT ![c] = cut[c]]
    BY <1>7 DEF HttpInv, HttpTypes
  <2>3. page' \in Http!Pages /\ n \in 0 .. rx
    BY <1>5, <1>6, <1>7
  <2> HIDE DEF before, after
  <2> QED BY <1>1, <1>2, <1>5, <1>7, <2>1, <2>2, <2>3, HttpTakes
<1>8. CASE /\ \E p \in Http!Cuts(text[c][n]) : /\ page' = Http!PageFor(before(n) \cup p[1])
                                              /\ text' = [text EXCEPT ![c] = <<p[2]>> \o after(n)]
           /\ tcp3' = [tcp3 EXCEPT ![c].srv.rx = @ - (n - 1)] /\ cut' = [cut EXCEPT ![c] = @ + 1]
  <2>1. PICK p \in Http!Cuts(text[c][n]) : /\ page' = Http!PageFor(before(n) \cup p[1])
                                           /\ text' = [text EXCEPT ![c] = <<p[2]>> \o after(n)]
    BY <1>8
  <2>2. p[2] \in Texts
    BY <1>5 DEF Http!Cuts, Texts
  <2> DEFINE a == after(n)
             x == <<p[2]>> \o a
             z == cut[c] + 1
  <2>3. a \in Seq(Texts) /\ Len(a) = rx - n
    BY <1>5
  <2>4. /\ text' = [text EXCEPT ![c] = x] /\ tcp3' = [tcp3 EXCEPT ![c].srv.rx = @ - (n - 1)]
        /\ cut' = [cut EXCEPT ![c] = z]
    BY <1>8, <2>1, Zenon
  <2>5. page' \in Http!Pages /\ n - 1 \in 0 .. rx /\ z \in Nat /\ z # cut[c]
    <3>1. page' \in Http!Pages
      BY <1>6, <2>1, Zenon
    <3>2. n - 1 \in 0 .. rx
      BY <1>2, <1>5
    <3>3. z \in Nat /\ z # cut[c]
      BY <1>2
    <3> QED BY <3>1, <3>2, <3>3
  <2> HIDE DEF a, z
  <2>6. x \in Seq(Texts) /\ Len(x) = 1 + Len(a)
    BY <2>2, <2>3
  <2>7. Len(x) = rx - (n - 1)
    BY <2>3, <2>6, <1>2, <1>5
  <2>8. z = cut[c] + 1
    BY DEF z
  <2> HIDE DEF x
  <2> QED BY <1>1, <2>4, <2>5, <2>6, <2>7, <2>8, HttpTakes
<1> QED BY <1>4, <1>7, <1>8

\* The page is written: the browser that asked is there, and has nothing else to read.
LEMMA HttpWritePage ==
  ASSUME HttpInv, Http!WritePage
  PROVE  HttpInv'
<1>1. cur3 \in Clients
  BY DEF Http!WritePage, HttpInv, HttpPlaces, HttpTypes
<1> SUFFICES ASSUME NEW c \in Clients, c = cur3 PROVE HttpInv'
  BY <1>1
<1> DEFINE t == tcp3[c]
           h == Sent(t, "srv")
<1>2. /\ spc3 = "write" /\ t.srv.st # "pipe" /\ Writable(t, "srv", Hold)
      /\ spc3' = "wait" /\ cur3' = NOBODY
      /\ UNCHANGED <<held3, backlog3, text, cst3, want, left3, cut>> /\ page' = "hello"
      /\ got' = IF t.srv.st = "open" THEN [got EXCEPT ![c] = page] ELSE got
  BY SameHttp DEF Http!WritePage
<1>3. tcp3' = [tcp3 EXCEPT ![c] = h]
  BY SameHttp, Zenon DEF Http!WritePage
<1>4. c \in held3 /\ c \in Clients /\ t["srv"].st # "closed" /\ Writing(c)
  BY <1>2 DEF HttpInv, HttpPlaces, HttpTypes, Writing
<1>5. OneRequest(c) /\ Follows(c)
  BY <1>4 DEF HttpInv
<1>6. t \in EndsOf(Hold) /\ Hold \in Nat /\ t["srv"].rx \in Nat /\ t["cli"].rx \in Nat
  BY <1>4, HttpEnds
<1>7. /\ h \in EndsOf(Hold) /\ h["srv"].rx = t["srv"].rx /\ h["cli"].st = t["cli"].st
      /\ h["srv"].st = IF t["srv"].st = "fin" THEN "prov"
                       ELSE IF t["srv"].st = "rst" THEN "pipe" ELSE t["srv"].st
      /\ h["cli"].rx = IF t["srv"].st = "open" THEN t["cli"].rx + 1 ELSE t["cli"].rx
  <2>1. t["srv"].st = "open" => t["cli"].rx < Hold
    BY <1>2, OtherFacts DEF Writable
  <2> QED BY <2>1, <1>6, SentFacts, OtherFacts
<1> HIDE DEF h
<1>8. /\ tcp3' \in [Clients -> EndsOf(Hold)] /\ tcp3'[c] = h
      /\ \A d \in Clients \ {c} : tcp3'[d] = tcp3[d]
  BY <1>3, <1>4, <1>7, OneClient
<1>9. /\ got' \in [Clients -> Http!Pages] /\ (t.srv.st = "open" => got'[c] = page)
      /\ \A d \in Clients \ {c} : got'[d] = got[d]
  BY <1>2, <1>4 DEF HttpInv, HttpTypes
<1>10. HttpTypes'
  BY <1>2, <1>8, <1>9 DEF HttpInv, HttpTypes, Http!Pages
<1>11. HttpPlaces'
  <2>1. tcp3'[c]["srv"].st = "closed" => tcp3[c]["srv"].st = "closed"
    BY <1>7, <1>8
  <2>2. UNCHANGED <<held3, backlog3>> /\ (spc3' = "write" => cur3' \in held3)
    BY <1>2
  <2> QED BY <1>4, <1>8, <2>1, <2>2, PlacesKept
<1>12. \A d \in Clients : ~Writing(d)'
  BY <1>2 DEF Writing
<1>13. OneRequest(c)'
  <2>1. /\ UnderWay(c) = t["srv"].rx + t["cli"].rx + 1 /\ UnderWay(c) \in Nat
        /\ UnderWay(c)' = h["srv"].rx + h["cli"].rx /\ cut[c] \in Nat /\ cut'[c] = cut[c]
    <3>1. UnderWay(c)' = h["srv"].rx + h["cli"].rx
      BY <1>6, <1>7, <1>8, <1>12 DEF UnderWay
    <3> QED BY <3>1, <1>2, <1>4, HttpWay
  <2>2. CASE cst3[c] = "ready"
    <3>1. UnderWay(c)' <= cut'[c]
      BY <2>1, <2>2, <1>5, <1>6, <1>7 DEF OneRequest
    <3> QED BY <2>2, <3>1, <1>2 DEF OneRequest
  <2>3. CASE cst3[c] = "asked"
    <3>1. t["srv"].st = "open" /\ t.srv.st = "open" /\ h["cli"].rx = t["cli"].rx + 1
      BY <2>3, <1>4, <1>5, <1>7, HttpEnds DEF Follows
    <3>2. UnderWay(c)' = UnderWay(c)
      BY <2>1, <3>1, <1>6, <1>7
    <3>3. UnderWay(c)' <= 1 + cut'[c] /\ UnderWay(c)' >= 1
      BY <2>1, <2>3, <3>2, <1>5, <1>6 DEF OneRequest
    <3>4. ASSUME cut'[c] = 0 PROVE h["srv"].rx = 0 /\ Fits(want'[c], got'[c])
      <4>1. Fits(want[c], page) /\ UnderWay(c) <= 1 + 0
        BY <2>1, <2>3, <3>4, <1>4, <1>5 DEF OneRequest
      <4>2. h["srv"].rx = 0
        BY <4>1, <2>1, <1>6, <1>7
      <4> QED BY <4>1, <4>2, <3>1, <1>2, <1>9
    <3>5. cst3'[c] = "asked" /\ tcp3'[c] = h /\ ~Writing(c)'
      BY <2>3, <1>2, <1>4, <1>8, <1>12
    <3> QED BY <3>3, <3>4, <3>5 DEF OneRequest
  <2>4. CASE cst3[c] \notin {"ready", "asked"}
    BY <2>4, <1>2 DEF OneRequest
  <2> QED BY <2>2, <2>3, <2>4
<1>14. Follows(c)'
  <2>1. ~Writing(c)'
    BY <1>4, <1>12
  <2>2. (h["srv"].st = "closed" <=> t["srv"].st = "closed") /\ (h["srv"].st = "open" <=> t["srv"].st = "open")
    BY <1>7
  <2> QED BY <2>1, <2>2, <1>2, <1>5, <1>7, <1>8 DEF Follows
<1>15. \A d \in Clients \ {c} : (Writing(d)' <=> Writing(d)) /\ (Writing(d) => page' = page)
  BY <1>2, <1>12 DEF Writing
<1>16. \A d \in Clients \ {c} : /\ tcp3'[d] = tcp3[d] /\ cst3'[d] = cst3[d] /\ want'[d] = want[d]
                                /\ got'[d] = got[d] /\ text'[d] = text[d] /\ left3'[d] = left3[d] /\ cut'[d] = cut[d]
  BY <1>2, <1>8, <1>9
<1> QED BY <1>4, <1>10, <1>11, <1>13, <1>14, <1>15, <1>16, HttpFrame

\* SIGPIPE: all connections end, those that wait are reset.
LEMMA HttpKilled ==
  ASSUME HttpInv, Http!Killed
  PROVE  HttpInv'
<1>1. /\ spc3' = "killed" /\ held3' = {} /\ UNCHANGED <<cur3, page, text, cst3, want, got, left3, cut>>
  BY DEF Http!Killed
<1>2. backlog3' = <<>>
  BY DEF Http!Killed
<1>3. tcp3' = [c \in Clients |-> IF c \in Http!Range(backlog3) THEN Refused(tcp3[c])
                                 ELSE IF c \in held3 THEN Closed(tcp3[c], "srv") ELSE tcp3[c]]
  BY SameHttp, Zenon DEF Http!Killed
<1>4. ASSUME NEW c \in Clients
      PROVE  /\ tcp3'[c] \in EndsOf(Hold)
             /\ \/ tcp3'[c] = tcp3[c] /\ ~Writing(c)
                \/ /\ tcp3'[c]["srv"].st = "closed" /\ tcp3'[c]["srv"].rx = 0
                   /\ tcp3'[c]["cli"].rx = tcp3[c]["cli"].rx /\ tcp3'[c]["cli"].st # "open"
  <2> DEFINE t == tcp3[c]
  <2>1. tcp3'[c] \in {t, Refused(t), Closed(t, "srv")}
    BY <1>3
  <2>2. t \in EndsOf(Hold) /\ Hold \in Nat /\ NoEnd.st = "closed" /\ NoEnd.rx = 0
    BY HttpEnds, FreshFacts
  <2>3. /\ Refused(t) \in EndsOf(Hold) /\ Refused(t)["srv"] = NoEnd
        /\ Refused(t)["cli"].rx = t["cli"].rx /\ Refused(t)["cli"].st # "open"
    BY <2>2, RefusedFacts
  <2>4. /\ Closed(t, "srv") \in EndsOf(Hold) /\ Closed(t, "srv")["srv"] = NoEnd
        /\ Closed(t, "srv")["cli"].rx = t["cli"].rx /\ Closed(t, "srv")["cli"].st # "open"
    BY <2>2, ClosedFacts, OtherFacts
  <2>5. Writing(c) => c \in held3
    BY DEF HttpInv, HttpPlaces, Writing
  <2>6. CASE tcp3'[c] = t /\ ~Writing(c)
    BY <2>2, <2>6
  <2>7. CASE tcp3'[c] = Refused(t)
    BY <2>2, <2>3, <2>7
  <2>8. CASE tcp3'[c] = Closed(t, "srv")
    BY <2>2, <2>4, <2>8
  <2> QED BY <1>3, <2>1, <2>5, <2>6, <2>7, <2>8
<1>5. HttpTypes'
  <2>1. Cardinality(held3') <= NFds
    <3>1. Cardinality({}) = 0
      BY FS_EmptySet
    <3> QED BY <3>1, <1>1, HttpFacts
  <2>2. tcp3' \in [Clients -> EndsOf(Hold)]
    BY <1>3, <1>4
  <2>3. backlog3' \in Seq(Clients)
    BY <1>2
  <2> QED BY <2>1, <2>2, <2>3, <1>1 DEF HttpInv, HttpTypes
<1>6. HttpPlaces'
  <2>1. DOMAIN backlog3' = {}
    BY <1>2
  <2> QED BY <2>1, <1>1 DEF HttpPlaces
<1>7. ASSUME NEW c \in Clients PROVE OneRequest(c)' /\ Follows(c)'
  <2>1. OneRequest(c) /\ Follows(c) /\ ~Writing(c)'
    BY <1>1 DEF HttpInv, Writing
  <2>2. /\ cst3'[c] = cst3[c] /\ want'[c] = want[c] /\ got'[c] = got[c]
        /\ text'[c] = text[c] /\ left3'[c] = left3[c] /\ cut'[c] = cut[c]
    BY <1>1
  <2>3. /\ tcp3[c]["srv"].rx \in Nat /\ tcp3[c]["cli"].rx \in Nat
        /\ UnderWay(c) \in Nat /\ cut[c] \in Nat
    BY HttpEnds, HttpWay
  <2>4. CASE tcp3'[c] = tcp3[c] /\ ~Writing(c)
    <3>1. UnderWay(c)' = UnderWay(c)
      BY <2>1, <2>4 DEF UnderWay
    <3> QED BY <2>1, <2>2, <2>4, <3>1 DEF OneRequest, Follows
  <2>5. CASE /\ tcp3'[c]["srv"].st = "closed" /\ tcp3'[c]["srv"].rx = 0
             /\ tcp3'[c]["cli"].rx = tcp3[c]["cli"].rx /\ tcp3'[c]["cli"].st # "open"
    <3>1. UnderWay(c)' <= UnderWay(c) /\ UnderWay(c)' \in Nat
      BY <2>1, <2>3, <2>5 DEF UnderWay
    <3>2. /\ cst3[c] = "ready" => UnderWay(c)' <= cut'[c]
          /\ cst3[c] = "asked" => UnderWay(c)' <= 1 + cut'[c]
      BY <2>1, <2>2, <2>3, <3>1 DEF OneRequest
    <3>3. OneRequest(c)'
      BY <2>1, <2>2, <2>5, <3>2 DEF OneRequest
    <3>4. Follows(c)'
      BY <2>1, <2>5 DEF Follows
    <3> QED BY <3>3, <3>4
  <2> QED BY <1>4, <2>4, <2>5
<1> QED BY <1>5, <1>6, <1>7 DEF HttpInv

\* Every step of the server and its clients keeps the invariant.
LEMMA HttpStep ==
  ASSUME HttpInv, [Http!Next]_(Http!vars)
  PROVE  HttpInv'
<1>1. CASE UNCHANGED Http!vars
  <2>1. UNCHANGED <<spc3, cur3, page, held3, backlog3, tcp3, text, cst3, want, got, left3, cut>>
    BY <1>1 DEF Http!vars
  <2>2. HttpTypes' /\ HttpPlaces'
    BY <2>1 DEF HttpInv, HttpTypes, HttpPlaces
  <2>3. ASSUME NEW c \in Clients PROVE OneRequest(c)' /\ Follows(c)'
    BY <2>1 DEF HttpInv, OneRequest, Follows, UnderWay, Writing
  <2> QED BY <2>2, <2>3 DEF HttpInv
<1>2. CASE Http!Accept
  BY <1>2, HttpAccept
<1>3. CASE Http!WritePage
  BY <1>3, HttpWritePage
<1>4. CASE Http!Killed
  BY <1>4, HttpKilled
<1>5. CASE Http!Idle
  BY <1>1, <1>5 DEF Http!Idle
<1>6. ASSUME NEW c \in Clients, Http!Recv(c) \/ Http!RecvFails(c) \/ Http!Connect(c) \/ Http!Request(c)
      PROVE  HttpInv'
  BY <1>6, HttpRecv, HttpRecvFails, HttpConnect, HttpRequest
<1>7. ASSUME NEW c \in Clients, Http!FloodSends(c) \/ Http!ClientReads(c) \/ Http!Leaves(c) \/ Http!ResetArrives(c)
      PROVE  HttpInv'
  BY <1>7, HttpFlood, HttpClientReads, HttpLeaves, HttpReset
<1> QED BY <1>1, <1>2, <1>3, <1>4, <1>5, <1>6, <1>7 DEF Http!Next

\* It says all that PortsAndPages says of HttpServer.
LEMMA HttpInvImplies ==
  ASSUME HttpInv
  PROVE  Http!TypeOK /\ Http!PagesFit
<1>1. \A c \in held3 : Len(text[c]) = tcp3[c].srv.rx
  <2> TAKE c \in held3
  <2>1. c \in Clients /\ tcp3[c]["srv"].st # "closed" /\ Follows(c)
    BY DEF HttpInv, HttpTypes, HttpPlaces
  <2>2. tcp3[c].srv = tcp3[c]["srv"]
    BY <2>1, HttpEnds
  <2> QED BY <2>1, <2>2 DEF Follows
<1>2. tcp3 \in [Clients -> [Http!Sides -> Http!End(Hold)]] /\ Http!Cardinality(held3) <= NFds
  BY SameHttp DEF HttpInv, HttpTypes, EndsOf
<1>3. Http!TypeOK
  BY <1>1, <1>2 DEF HttpInv, HttpTypes, Http!TypeOK
<1>4. Http!PagesFit
  <2> SUFFICES ASSUME NEW c \in Clients
               PROVE  /\ cst3[c] = "ready" => Http!InFlight(c) <= cut[c]
                      /\ cst3[c] = "asked" => Http!InFlight(c) <= 1 + cut[c]
                      /\ cst3[c] = "asked" /\ tcp3[c].cli.st = "open" => Http!InFlight(c) >= 1
                      /\ cst3[c] = "asked" /\ cut[c] = 0 /\ tcp3[c].cli.rx > 0 =>
                            got[c] = IF "msisdn" \in want[c] THEN "result" ELSE "form"
    BY DEF Http!PagesFit
  <2>1. OneRequest(c)
    BY DEF HttpInv
  <2>2. /\ tcp3[c].cli = tcp3[c]["cli"] /\ tcp3[c].srv = tcp3[c]["srv"]
        /\ tcp3[c]["srv"].rx \in Nat /\ tcp3[c]["cli"].rx \in Nat
    BY HttpEnds
  <2>3. Http!InFlight(c) = UnderWay(c)
    BY <2>2 DEF Http!InFlight, UnderWay, Writing
  <2>4. /\ cst3[c] = "ready" => Http!InFlight(c) <= cut[c]
        /\ cst3[c] = "asked" => Http!InFlight(c) <= 1 + cut[c]
        /\ cst3[c] = "asked" /\ tcp3[c].cli.st = "open" => Http!InFlight(c) >= 1
    BY <2>1, <2>2, <2>3 DEF OneRequest
  <2>5. ASSUME cst3[c] = "asked", cut[c] = 0, tcp3[c].cli.rx > 0
        PROVE  got[c] = IF "msisdn" \in want[c] THEN "result" ELSE "form"
    <3>1. UnderWay(c) <= 1 + 0
      BY <2>1, <2>5 DEF OneRequest
    <3>2. tcp3[c]["cli"].rx = 1
      BY <3>1, <2>2, <2>5 DEF UnderWay
    <3> QED BY <3>2, <2>1, <2>5 DEF OneRequest, Fits
  <2> QED BY <2>4, <2>5
<1> QED BY <1>3, <1>4

\* The server is killed only while it writes to a client that left something unread.
LEMMA KilledByUnread ==
  ASSUME HttpInv, [Http!Next]_(Http!vars)
  PROVE  [spc3 = "write" /\ spc3' = "killed" => left3[cur3] > 0]_(Http!vars)
<1>1. CASE Http!Killed
  <2>1. cur3 \in held3 /\ cur3 \in Clients /\ Writing(cur3) /\ Follows(cur3)
    BY <1>1 DEF Http!Killed, HttpInv, HttpPlaces, HttpTypes, Writing
  <2>2. tcp3[cur3]["srv"].st = "pipe"
    BY <1>1, <2>1, HttpEnds DEF Http!Killed
  <2>3. left3[cur3] # 0
    BY <2>1, <2>2 DEF Follows
  <2>4. left3[cur3] \in Nat
    BY <2>1 DEF HttpInv, HttpTypes
  <2>5. left3[cur3] > 0
    BY <2>3, <2>4
  <2> QED BY <2>5
<1>2. CASE ~Http!Killed
  <2>1. spc3 = "write" => spc3' # "killed"
    BY <1>2 DEF Http!Next, Http!Accept, Http!WritePage, Http!Idle, Http!Recv, Http!Requested, Http!RecvFails, Http!Connect, Http!Request,
                Http!Sends, Http!FloodSends, Http!ClientReads, Http!Leaves, Http!ResetArrives, Http!vars
  <2> QED BY <2>1
<1> QED BY <1>1, <1>2

----------------------------------------------------------------------------
(* The theorems about EpollPorts and HttpServer *)

\* epoll_client.cpp lets epoll_wait report all of its connections, since icnt is their
\* number and the errors'; http.cpp sends a browser one page for each request, the one it
\* asked for, and one more for each request that recv cut, and leaves none without.
THEOREM PortsAndPagesKept == Three!Spec /\ Http!Spec => []PortsAndPages
<1>1. Three!Init => PortsInv
  BY PortsStart
<1>2. PortsInv /\ [Three!Next]_(Three!vars) => PortsInv'
  BY PortsStep
<1>3. Http!Init => HttpInv
  BY HttpStart
<1>4. HttpInv /\ [Http!Next]_(Http!vars) => HttpInv'
  BY HttpStep
<1>5. PortsInv /\ HttpInv => PortsAndPages
  BY PortsInvImplies, HttpInvImplies DEF PortsAndPages
<1> QED BY <1>1, <1>2, <1>3, <1>4, <1>5, PTL DEF Three!Spec, Http!Spec

\* No client of http.cpp that left nothing unread kills the server by SIGPIPE, since a
\* page is only ever written after something was read.
THEOREM HttpUnharmed == Http!Spec => Http!UnharmedByReadClients
<1>1. Http!Init => HttpInv
  BY HttpStart
<1>2. HttpInv /\ [Http!Next]_(Http!vars) => HttpInv'
  BY HttpStep
<1>3. HttpInv /\ [Http!Next]_(Http!vars) => [spc3 = "write" /\ spc3' = "killed" => left3[cur3] > 0]_(Http!vars)
  BY KilledByUnread
<1> QED BY <1>1, <1>2, <1>3, PTL DEF Http!Spec, Http!UnharmedByReadClients
===============================================================================
