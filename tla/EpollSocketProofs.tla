-------------------------- MODULE EpollSocketProofs --------------------------
(***************************************************************************)
(* Proofs about EpollSocket for every number of connections, descriptors   *)
(* and messages.  The inductive invariant says where each connection is    *)
(* (to be accepted, accepted or closed), that a batch has one event per    *)
(* accepted connection which still can be sent to when it was reported     *)
(* writable, and how the two ends of a connection know of each other.      *)
(*                                                                         *)
(* Then Libevent, for every number of clients and of lines: each client by *)
(* itself, its events of this turn, and where its lines are.               *)
(***************************************************************************)
EXTENDS MCLargerServers, TLAPS

Ends == [Sides -> End(Room)]

\* The types, in two parts: the server's loop, and the connections.
TypeLoop == /\ sst \in {"init", "wait", "loop", "ended", "killed"}
            /\ batch \subseteq [fd : 0 .. NFds, conn : Conns \cup {"listener"}, in : BOOLEAN, out : BOOLEAN]
            /\ interest \subseteq 1 .. NFds
            /\ fdOf \in [Conns -> 0 .. NFds]

TypeConns == /\ tcp \in [Conns -> Ends]
             /\ cst \in [Conns -> {"out", "running", "idle", "killed"}]
             /\ left \in [Conns -> 0 .. Room]
             /\ backlog \in Seq(Conns)

\* A connection that is to be accepted is there once; nothing was sent to its client.
BacklogInv ==
    /\ \A k \in DOMAIN backlog : /\ tcp[backlog[k]].srv.st # "closed"
                                 /\ tcp[backlog[k]].cli.rx = 0
    /\ \A k, l \in DOMAIN backlog : backlog[k] = backlog[l] => k = l
    /\ Listener \in batch => backlog # <<>>

\* The accepted connections have descriptors of their own.
FdInv ==
    /\ \A c \in Conns : fdOf[c] # 0 => fdOf[c] \in interest
    /\ \A fd \in interest : \E c \in Conns : fdOf[c] = fd
    /\ \A c, d \in Conns : c # d /\ fdOf[c] # 0 => fdOf[c] # fdOf[d]
    /\ \A c \in Conns : fdOf[c] # 0 <=> tcp[c].srv.st # "closed" /\ \A k \in DOMAIN backlog : backlog[k] # c

\* An event of the batch is the only one of its connection, which has the
\* descriptor; it can be sent to if that was reported, and if nothing was to be
\* read then, the server has not sent to a client that left.
BatchInv == \A ev \in batch \ {Listener} :
    /\ ev.conn \in Conns /\ fdOf[ev.conn] = ev.fd /\ ev.fd # 0
    /\ ev.out => Writable(tcp[ev.conn], "srv", Room)
    /\ ~ev.in => tcp[ev.conn].srv.st \in {"open", "fin", "rst"}
    /\ \A e \in batch \ {Listener} : e.conn = ev.conn => e = ev

\* What the two ends know of each other, and of the client that left.
EndsInv == \A c \in Conns :
    /\ tcp[c].srv.st = "open" <=> tcp[c].cli.st = "open"
    /\ tcp[c].srv.st = "open" => cst[c] = "running"
    /\ tcp[c].cli.st \notin {"open", "closed"} => tcp[c].srv.st = "closed"
    /\ tcp[c].srv.st \notin {"open", "closed"} => cst[c] = "out" /\ tcp[c].srv.rx <= left[c]

IInv == TypeLoop /\ TypeConns /\ BacklogInv /\ FdInv /\ BatchInv /\ EndsInv

----------------------------------------------------------------------------
(* What the operators of TcpEnds and EpollEvent make of a connection *)

\* There is room for a message, and a descriptor.
LEMMA RoomFacts == Room \in Nat /\ Room > 0 /\ NFds \in Nat /\ NFds > 0
  BY EpollSocketAssumption

\* The two sides of a connection.
LEMMA OtherFacts == /\ "srv" \in Sides /\ "cli" \in Sides
                    /\ Other("srv") = "cli" /\ Other("cli") = "srv"
                    /\ \A side \in Sides : Other(side) \in Sides /\ Other(side) # side
  BY DEF Other, Sides

\* An end of a connection.
LEMMA SideFacts ==
  ASSUME NEW t \in Ends, NEW side \in Sides
  PROVE  /\ t[side] \in End(Room) /\ t[side].rx \in 0 .. Room /\ t[side].rx \in Nat
         /\ t[side].st \in {"closed", "open", "fin", "prov", "rst", "pipe"}
  BY RoomFacts DEF Ends, End

\* The two ends of a connection, by name.
LEMMA EndFacts ==
  ASSUME NEW t \in Ends
  PROVE  t.srv = t["srv"] /\ t.cli = t["cli"]
  BY DEF Ends, Sides

\* An end that is closed has nothing to be read.
LEMMA NoEndFacts == NoEnd \in End(Room) /\ NoEnd.rx = 0 /\ NoEnd.st = "closed"
  BY RoomFacts DEF NoEnd, End

\* recv takes one message.
LEMMA ReceivedFacts ==
  ASSUME NEW t \in Ends, NEW side \in Sides, t[side].rx > 0
  PROVE  /\ Received(t, side) \in Ends
         /\ Received(t, side)[side].rx = t[side].rx - 1
         /\ Received(t, side)[side].st = t[side].st
         /\ Received(t, side)[Other(side)] = t[Other(side)]
<1> DEFINE e == [t[side] EXCEPT !.rx = t[side].rx - 1]
<1>1. Received(t, side) = [t EXCEPT ![side] = e]
  BY Zenon DEF Received
<1>2. e \in End(Room) /\ e.rx = t[side].rx - 1 /\ e.st = t[side].st
  <2>1. t[side] \in End(Room) /\ t[side].rx - 1 \in 0 .. Room
    BY SideFacts, RoomFacts
  <2> QED BY <2>1 DEF End
<1> HIDE DEF e
<1> QED BY <1>1, <1>2, OtherFacts DEF Ends

\* send adds a message to the other end, or moves this end on.
LEMMA SentFacts ==
  ASSUME NEW t \in Ends, NEW side \in Sides,
         t[side].st = "open" => t[Other(side)].rx < Room
  PROVE  /\ Sent(t, side) \in Ends
         /\ Sent(t, side)[side].rx = t[side].rx
         /\ Sent(t, side)[side].st = IF t[side].st = "fin" THEN "prov"
                                     ELSE IF t[side].st = "rst" THEN "pipe" ELSE t[side].st
         /\ Sent(t, side)[Other(side)].st = t[Other(side)].st
         /\ t[side].st # "open" => Sent(t, side)[Other(side)].rx = t[Other(side)].rx
         /\ t[side].st = "open" => Sent(t, side)[Other(side)].rx = t[Other(side)].rx + 1
<1>1. CASE t[side].st = "open"
  <2> DEFINE o == Other(side)
             e == [t[o] EXCEPT !.rx = t[o].rx + 1]
  <2>1. Sent(t, side) = [t EXCEPT ![o] = e]
    BY <1>1, Zenon DEF Sent
  <2>2. e \in End(Room) /\ e.st = t[o].st /\ e.rx = t[o].rx + 1
    <3>1. t[o] \in End(Room) /\ t[o].rx + 1 \in 0 .. Room
      BY <1>1, OtherFacts, SideFacts, RoomFacts
    <3> QED BY <3>1 DEF End
  <2> HIDE DEF e
  <2> QED BY <1>1, <2>1, <2>2, OtherFacts DEF Ends
<1>2. CASE t[side].st = "fin"
  <2> DEFINE e == [t[side] EXCEPT !.st = "prov"]
  <2>1. Sent(t, side) = [t EXCEPT ![side] = e]
    BY <1>2, Zenon DEF Sent
  <2>2. e \in End(Room) /\ e.st = "prov" /\ e.rx = t[side].rx
    <3>1. t[side] \in End(Room)
      BY SideFacts
    <3> QED BY <3>1 DEF End
  <2> HIDE DEF e
  <2> QED BY <1>2, <2>1, <2>2, OtherFacts DEF Ends
<1>3. CASE t[side].st = "rst"
  <2> DEFINE e == [t[side] EXCEPT !.st = "pipe"]
  <2>1. Sent(t, side) = [t EXCEPT ![side] = e]
    BY <1>3, Zenon DEF Sent
  <2>2. e \in End(Room) /\ e.st = "pipe" /\ e.rx = t[side].rx
    <3>1. t[side] \in End(Room)
      BY SideFacts
    <3> QED BY <3>1 DEF End
  <2> HIDE DEF e
  <2> QED BY <1>3, <2>1, <2>2, OtherFacts DEF Ends
<1>4. CASE t[side].st \notin {"open", "fin", "rst"}
  <2>1. Sent(t, side) = t
    BY <1>4, Zenon DEF Sent
  <2> QED BY <1>4, <2>1
<1> QED BY <1>1, <1>2, <1>3, <1>4

\* A peer that is told of the end of the connection.
LEMMA ToldFacts ==
  ASSUME NEW e \in End(Room), NEW reset
  PROVE  /\ Told(e, reset) \in End(Room) /\ Told(e, reset).rx = e.rx
         /\ Told(e, reset).st \in {"fin", "rst"} \/ e.st # "open"
         /\ e.st # "open" => Told(e, reset).st = e.st
  BY DEF Told, End

\* close ends this side, and the peer is told unless it knows already.
LEMMA ClosedFacts ==
  ASSUME NEW t \in Ends, NEW side \in Sides
  PROVE  /\ Closed(t, side) \in Ends
         /\ Closed(t, side)[side] = NoEnd
         /\ Closed(t, side)[Other(side)].rx = t[Other(side)].rx
         /\ Closed(t, side)[Other(side)].st \in {"fin", "rst"} \/ t[Other(side)].st # "open"
         /\ t[Other(side)].st # "open" => Closed(t, side)[Other(side)].st = t[Other(side)].st
<1> DEFINE o == Other(side)
           e == Told(t[o], t[side].rx > 0)
<1>1. Closed(t, side) = [t EXCEPT ![side] = NoEnd, ![o] = e]
  BY OtherFacts DEF Closed, Ends
<1>2. /\ e \in End(Room) /\ e.rx = t[o].rx
      /\ e.st \in {"fin", "rst"} \/ t[o].st # "open"
      /\ t[o].st # "open" => e.st = t[o].st
  <2>1. t[o] \in End(Room)
    BY OtherFacts, SideFacts
  <2> QED BY <2>1, ToldFacts
<1>3. o \in Sides /\ o # side
  BY OtherFacts
<1> HIDE DEF e, o
<1>4. Closed(t, side)[side] = NoEnd /\ Closed(t, side)[o] = e
  BY <1>1, <1>3 DEF Ends
<1>5. Closed(t, side) \in Ends
  BY <1>1, <1>2, <1>3, NoEndFacts DEF Ends
<1> QED BY <1>2, <1>4, <1>5 DEF o

\* A connection that is never accepted is closed here and reset there.
LEMMA RefusedFacts ==
  ASSUME NEW t \in Ends
  PROVE  /\ Refused(t) \in Ends /\ Refused(t)["srv"] = NoEnd
         /\ Refused(t)["cli"].st # "open"
<1> DEFINE e == Told(t["cli"], TRUE)
<1>1. Refused(t) = [t EXCEPT !["srv"] = NoEnd, !["cli"] = e]
  BY DEF Refused, Ends, Sides
<1>2. e \in End(Room) /\ e.st # "open"
  <2>1. t["cli"] \in End(Room)
    BY OtherFacts, SideFacts
  <2> QED BY <2>1, ToldFacts
<1> HIDE DEF e
<1> QED BY <1>1, <1>2, NoEndFacts DEF Ends, Sides

\* The reset that was provoked arrives: from now on a send kills the sender.
LEMMA ResetFacts ==
  ASSUME NEW t \in Ends, NEW side \in Sides
  PROVE  /\ ResetAt(t, side) \in Ends
         /\ ResetAt(t, side)[side].st = "pipe" /\ ResetAt(t, side)[side].rx = t[side].rx
         /\ ResetAt(t, side)[Other(side)] = t[Other(side)]
<1> DEFINE e == [t[side] EXCEPT !.st = "pipe"]
<1>1. ResetAt(t, side) = [t EXCEPT ![side] = e]
  BY Zenon DEF ResetAt
<1>2. e \in End(Room) /\ e.rx = t[side].rx /\ e.st = "pipe"
  <2>1. t[side] \in End(Room)
    BY SideFacts
  <2> QED BY <2>1 DEF End
<1> HIDE DEF e
<1> QED BY <1>1, <1>2, OtherFacts DEF Ends

\* One event: the connection is closed because there was nothing to receive, or
\* stays what it was for the peer, and what is to be read does not become more.
LEMMA HandledFacts ==
  ASSUME NEW t \in Ends, NEW side \in Sides, NEW ev, ev.out => Writable(t, side, Room)
  PROVE  LET h == Handled(t, side, ev) o == Other(side) IN
         /\ h \in Ends
         /\ \/ /\ ev.in /\ t[side].rx = 0 /\ h[side] = NoEnd
               /\ h[o].rx = t[o].rx
               /\ h[o].st \in {"fin", "rst"} \/ t[o].st # "open"
               /\ t[o].st # "open" => h[o].st = t[o].st
            \/ /\ h[side].rx <= t[side].rx
               /\ h[side].st = "open" <=> t[side].st = "open"
               /\ h[side].st = "closed" <=> t[side].st = "closed"
               /\ h[o].st = t[o].st
               /\ t[side].st # "open" => h[o].rx = t[o].rx
<1> DEFINE u == AfterIn(t, side, ev)
           h == Handled(t, side, ev)
           o == Other(side)
<1>1. h = IF ev.out /\ u[side].st # "closed" THEN Sent(u, side) ELSE u
  BY DEF Handled
<1>2. CASE ev.in /\ t[side].rx = 0
  <2>1. u = Closed(t, side)
    BY <1>2 DEF AfterIn, HandleIn
  <2>2. u[side] = NoEnd
    BY <2>1, ClosedFacts
  <2>3. h = u
    BY <2>2, <1>1, NoEndFacts
  <2> QED BY <1>2, <2>1, <2>2, <2>3, ClosedFacts
<1>3. CASE ~(ev.in /\ t[side].rx = 0)
  <2>1. /\ u \in Ends /\ u[side].st = t[side].st /\ u[o] = t[o] /\ u[side].rx <= t[side].rx
        /\ u[side].rx \in Nat /\ t[side].rx \in Nat
    <3>1. CASE ev.in
      <4>1. t[side].rx \in Nat /\ t[side].rx > 0
        BY <1>3, <3>1, SideFacts
      <4>2. u = Received(t, side)
        BY <3>1, <4>1 DEF AfterIn, HandleIn
      <4> QED BY <4>1, <4>2, ReceivedFacts
    <3>2. CASE ~ev.in
      <4>1. u = t
        BY <3>2 DEF AfterIn
      <4> QED BY <4>1, SideFacts
    <3> QED BY <3>1, <3>2
  <2> HIDE DEF u
  <2>2. CASE ev.out /\ u[side].st # "closed"
    <3>1. h = Sent(u, side)
      BY <2>2, <1>1
    <3>2. u[side].st = "open" => u[o].rx < Room
      BY <2>1, <2>2 DEF Writable
    <3>3. /\ h \in Ends /\ h[side].rx = u[side].rx
          /\ h[side].st = IF u[side].st = "fin" THEN "prov"
                          ELSE IF u[side].st = "rst" THEN "pipe" ELSE u[side].st
          /\ h[o].st = u[o].st
          /\ u[side].st # "open" => h[o].rx = u[o].rx
      BY <3>1, <3>2, <2>1, SentFacts
    <3> HIDE DEF h
    <3> QED BY <3>3, <2>1 DEF h
  <2>3. CASE ~(ev.out /\ u[side].st # "closed")
    <3>1. h = u
      BY <2>3, <1>1
    <3> QED BY <3>1, <2>1
  <2> QED BY <2>2, <2>3
<1> QED BY <1>2, <1>3

----------------------------------------------------------------------------
(* The steps *)

\* What EndsInv says of one connection.
Agree(t, state, unread) ==
    /\ t.srv.st = "open" <=> t.cli.st = "open"
    /\ t.srv.st = "open" => state = "running"
    /\ t.cli.st \notin {"open", "closed"} => t.srv.st = "closed"
    /\ t.srv.st \notin {"open", "closed"} => state = "out" /\ t.srv.rx <= unread

\* EndsInv is about each connection by itself.
LEMMA EndsAgree == EndsInv <=> \A c \in Conns : Agree(tcp[c], cst[c], left[c])
  BY DEF EndsInv, Agree

\* A client's step changes its own connection only, of which the server sees
\* neither that it is closed nor that there is less room.
LEMMA ClientSideKept ==
  ASSUME IInv, NEW c \in Conns, NEW h \in Ends, tcp' = [tcp EXCEPT ![c] = h],
         UNCHANGED <<sst, batch, interest, fdOf, backlog>>,
         NEW s \in {"out", "running", "idle", "killed"}, cst' = [cst EXCEPT ![c] = s],
         NEW n \in 0 .. Room, left' = [left EXCEPT ![c] = n],
         h.srv.st = "closed" <=> tcp[c].srv.st = "closed",
         tcp[c].cli.rx = 0 => h.cli.rx = 0,
         Writable(tcp[c], "srv", Room) => Writable(h, "srv", Room),
         tcp[c].srv.st \in {"open", "fin", "rst"} => h.srv.st \in {"open", "fin", "rst"},
         Agree(h, s, n)
  PROVE  IInv'
<1>1. TypeLoop'
  BY DEF IInv, TypeLoop
<1>2. TypeConns'
  BY DEF IInv, TypeConns
<1>3. \A d \in Conns : /\ tcp'[d] = IF d = c THEN h ELSE tcp[d]
                       /\ cst'[d] = IF d = c THEN s ELSE cst[d]
                       /\ left'[d] = IF d = c THEN n ELSE left[d]
  BY DEF IInv, TypeConns
<1>4. \A k \in DOMAIN backlog : backlog[k] \in Conns
  BY DEF IInv, TypeConns
<1>5. BacklogInv'
  BY <1>3, <1>4 DEF IInv, BacklogInv
<1>6. FdInv'
  BY <1>3 DEF IInv, FdInv
<1>7. BatchInv'
  <2>1. SUFFICES ASSUME NEW ev \in batch \ {Listener}
                 PROVE  /\ ev.conn \in Conns /\ fdOf[ev.conn] = ev.fd /\ ev.fd # 0
                        /\ ev.out => Writable(tcp'[ev.conn], "srv", Room)
                        /\ ~ev.in => tcp'[ev.conn].srv.st \in {"open", "fin", "rst"}
                        /\ \A e \in batch \ {Listener} : e.conn = ev.conn => e = ev
    BY DEF BatchInv
  <2>2. /\ ev.conn \in Conns /\ fdOf[ev.conn] = ev.fd /\ ev.fd # 0
        /\ ev.out => Writable(tcp[ev.conn], "srv", Room)
        /\ ~ev.in => tcp[ev.conn].srv.st \in {"open", "fin", "rst"}
        /\ \A e \in batch \ {Listener} : e.conn = ev.conn => e = ev
    BY DEF IInv, BatchInv
  <2>3. CASE ev.conn = c
    <3>1. tcp'[ev.conn] = h
      BY <2>3, <1>3
    <3> QED BY <2>2, <2>3, <3>1
  <2>4. CASE ev.conn # c
    <3>1. tcp'[ev.conn] = tcp[ev.conn]
      BY <2>2, <2>4, <1>3
    <3> QED BY <2>2, <3>1
  <2> QED BY <2>3, <2>4
<1>8. EndsInv'
  <2>1. \A d \in Conns : Agree(tcp'[d], cst'[d], left'[d])
    BY <1>3, EndsAgree DEF IInv
  <2> QED BY <2>1 DEF EndsInv, Agree
<1> QED BY <1>1, <1>2, <1>5, <1>6, <1>7, <1>8 DEF IInv

\* What is known of a connection, its ends written as the lemmas above do.
LEMMA ConnFacts ==
  ASSUME IInv, NEW c \in Conns
  PROVE  /\ tcp[c] \in Ends /\ tcp[c].srv = tcp[c]["srv"] /\ tcp[c].cli = tcp[c]["cli"]
         /\ cst[c] \in {"out", "running", "idle", "killed"} /\ left[c] \in 0 .. Room
         /\ fdOf[c] \in 0 .. NFds
         /\ Agree(tcp[c], cst[c], left[c])
<1>1. tcp[c] \in Ends
  BY DEF IInv, TypeConns
<1>2. Agree(tcp[c], cst[c], left[c])
  BY EndsAgree DEF IInv
<1> QED BY <1>1, <1>2, EndFacts DEF IInv, TypeConns, TypeLoop

\* The loop of a client: what it is told it is told by its own end.
LEMMA ClientWaitKeepsInv == ASSUME IInv, NEW c \in Conns, ClientWait(c) PROVE IInv'
<1> DEFINE t == tcp[c]
           ev == ClientEvent(c)
<1>1. /\ t \in Ends /\ t.srv = t["srv"] /\ t.cli = t["cli"]
      /\ cst[c] = "running" /\ left[c] \in 0 .. Room /\ Agree(t, cst[c], left[c])
  BY ConnFacts DEF ClientWait
<1>2. /\ UNCHANGED <<sst, batch, interest, fdOf, backlog>> /\ left' = left
  BY DEF ClientWait
<1>3. left' = [left EXCEPT ![c] = left[c]]
  BY <1>2 DEF IInv, TypeConns
<1>4. CASE Killed(t, "cli", ev)
  <2> DEFINE h == Closed(t, "cli")
  <2>1. tcp' = [tcp EXCEPT ![c] = h] /\ cst' = [cst EXCEPT ![c] = "killed"]
    BY <1>4 DEF ClientWait
  <2>2. t["cli"].st = "pipe"
    <3>1. AfterIn(t, "cli", ev)["cli"].st = "pipe"
      BY <1>4 DEF Killed
    <3>2. CASE ev.in /\ t["cli"].rx > 0
      BY <3>1, <3>2, <1>1, ReceivedFacts, OtherFacts DEF AfterIn, HandleIn
    <3>3. CASE ev.in /\ ~(t["cli"].rx > 0)
      BY <3>1, <3>3, <1>1, ClosedFacts, OtherFacts, NoEndFacts DEF AfterIn, HandleIn
    <3>4. CASE ~ev.in
      BY <3>1, <3>4 DEF AfterIn
    <3> QED BY <3>2, <3>3, <3>4
  <2>3. t["srv"].st = "closed"
    BY <2>2, <1>1 DEF Agree
  <2>4. /\ h \in Ends /\ h["cli"] = NoEnd /\ h["srv"].st = "closed"
    BY <1>1, <2>3, ClosedFacts, OtherFacts
  <2> HIDE DEF h
  <2>5. h.srv = h["srv"] /\ h.cli = h["cli"]
    BY <2>4, EndFacts
  <2>6. Agree(h, "killed", left[c]) /\ Writable(h, "srv", Room)
    BY <2>4, <2>5, NoEndFacts DEF Agree, Writable
  <2> QED BY <1>1, <1>2, <1>3, <2>1, <2>3, <2>4, <2>5, <2>6, ClientSideKept, NoEndFacts
<1>5. CASE ~Killed(t, "cli", ev)
  <2> DEFINE h == Handled(t, "cli", ev)
             s == IF tcp'[c].cli = NoEnd THEN "idle" ELSE cst[c]
  <2>1. /\ tcp' = [tcp EXCEPT ![c] = h] /\ cst' = [cst EXCEPT ![c] = s]
        /\ s \in {"idle", "running"}
    BY <1>1, <1>5 DEF ClientWait
  <2>2. ev.out => Writable(t, "cli", Room)
    BY DEF ClientEvent
  <2>3. ev.in /\ t["cli"].rx = 0 => t["cli"].st \in {"fin", "prov", "rst", "pipe"}
    <3>1. SUFFICES ASSUME ev.in, t["cli"].rx = 0 PROVE t["cli"].st \in {"fin", "prov", "rst", "pipe"}
      OBVIOUS
    <3>2. Readable(t["cli"])
      BY <3>1, <1>1 DEF ClientEvent
    <3> QED BY <3>1, <3>2 DEF Readable
  <2>4. /\ h \in Ends
        /\ \/ /\ ev.in /\ t["cli"].rx = 0 /\ h["cli"] = NoEnd
              /\ h["srv"].rx = t["srv"].rx
              /\ h["srv"].st \in {"fin", "rst"} \/ t["srv"].st # "open"
              /\ t["srv"].st # "open" => h["srv"].st = t["srv"].st
           \/ /\ h["cli"].rx <= t["cli"].rx
              /\ h["cli"].st = "open" <=> t["cli"].st = "open"
              /\ h["cli"].st = "closed" <=> t["cli"].st = "closed"
              /\ h["srv"].st = t["srv"].st
              /\ t["cli"].st # "open" => h["srv"].rx = t["srv"].rx
    BY <1>1, <2>2, HandledFacts, OtherFacts
  <2> HIDE DEF h, s, ev
  <2>5. h.srv = h["srv"] /\ h.cli = h["cli"] /\ tcp'[c] = h
    BY <2>1, <2>4, EndFacts DEF IInv, TypeConns
  <2>6. /\ h["cli"].rx \in Nat /\ t["cli"].rx \in Nat
        /\ h["cli"].rx <= t["cli"].rx /\ h["srv"].st = t["srv"].st
    <3>1. h["cli"].rx \in Nat /\ t["cli"].rx \in Nat
      BY <1>1, <2>4, SideFacts, OtherFacts
    <3>2. CASE ev.in /\ t["cli"].rx = 0 /\ h["cli"] = NoEnd
                /\ (t["srv"].st # "open" => h["srv"].st = t["srv"].st)
      <4>1. t["srv"].st = "closed"
        BY <3>2, <2>3, <1>1 DEF Agree
      <4> QED BY <3>1, <3>2, <4>1, NoEndFacts
    <3> QED BY <3>1, <3>2, <2>4
  <2>7. Agree(h, s, left[c])
    <3>1. CASE t["cli"].st = "open"
      <4>1. h["cli"].st = "open"
        BY <3>1, <2>3, <2>4
      <4>2. s = "running" /\ t["srv"].st = "open"
        BY <3>1, <4>1, <2>5, <1>1, NoEndFacts DEF s, Agree
      <4> QED BY <4>1, <4>2, <2>5, <2>6 DEF Agree
    <3>2. CASE t["cli"].st # "open"
      <4>1. t["srv"].st = "closed" /\ h["cli"].st # "open"
        BY <3>2, <2>4, <1>1, NoEndFacts DEF Agree
      <4> QED BY <4>1, <2>5, <2>6 DEF Agree
    <3> QED BY <3>1, <3>2
  <2>8. Writable(t, "srv", Room) => Writable(h, "srv", Room)
    BY <2>6, RoomFacts, OtherFacts DEF Writable
  <2>9. tcp[c].cli.rx = 0 => h.cli.rx = 0
    BY <2>5, <2>6, <1>1
  <2>10. /\ s \in {"out", "running", "idle", "killed"}
         /\ h.srv.st = "closed" <=> tcp[c].srv.st = "closed"
         /\ tcp[c].srv.st \in {"open", "fin", "rst"} => h.srv.st \in {"open", "fin", "rst"}
    BY <1>1, <2>1, <2>5, <2>6
  <2> QED BY <1>1, <1>2, <1>3, <2>1, <2>4, <2>7, <2>8, <2>9, <2>10, ClientSideKept
<1> QED BY <1>4, <1>5

\* A client is stopped: its end is closed, unless it was already.
LEMMA ClientStoppedKeepsInv == ASSUME IInv, NEW c \in Conns, ClientStopped(c) PROVE IInv'
<1> DEFINE t == tcp[c]
           h == IF cst[c] = "running" THEN Closed(t, "cli") ELSE t
           n == t["srv"].rx
<1>1. /\ t \in Ends /\ t.srv = t["srv"] /\ t.cli = t["cli"]
      /\ cst[c] \in {"running", "idle"} /\ Agree(t, cst[c], left[c])
  BY ConnFacts DEF ClientStopped
<1>2. n \in 0 .. Room
  BY <1>1, SideFacts, OtherFacts
<1>3. /\ UNCHANGED <<sst, batch, interest, fdOf, backlog>>
      /\ cst' = [cst EXCEPT ![c] = "out"] /\ left' = [left EXCEPT ![c] = n]
  BY <1>1 DEF ClientStopped
<1>4. tcp' = [tcp EXCEPT ![c] = h]
  BY DEF ClientStopped, IInv, TypeConns
<1>5. /\ h \in Ends
      /\ h["srv"].st = "closed" <=> t["srv"].st = "closed"
      /\ t["srv"].st \in {"open", "fin", "rst"} => h["srv"].st \in {"open", "fin", "rst"}
      /\ h["srv"].rx = n /\ h["srv"].st # "open" /\ h["cli"].st # "open"
      /\ h["srv"].st # "closed" => h["cli"] = NoEnd
      /\ t["cli"].rx = 0 => h["cli"].rx = 0
      /\ h["cli"].st \notin {"open", "closed"} => h["srv"].st = "closed"
  <2>1. CASE cst[c] = "running"
    <3>1. h = Closed(t, "cli")
      BY <2>1
    <3>2. /\ h \in Ends /\ h["cli"] = NoEnd /\ h["srv"].rx = n
          /\ h["srv"].st \in {"fin", "rst"} \/ t["srv"].st # "open"
          /\ t["srv"].st # "open" => h["srv"].st = t["srv"].st
      BY <3>1, <1>1, ClosedFacts, OtherFacts
    <3> HIDE DEF h
    <3> QED BY <3>2, NoEndFacts
  <2>2. CASE cst[c] = "idle"
    <3>1. h = t
      BY <2>2
    <3>2. t["srv"].st = "closed" /\ t["cli"].st # "open"
      BY <2>2, <1>1 DEF Agree
    <3> QED BY <3>1, <3>2, <1>1
  <2> QED BY <1>1, <2>1, <2>2
<1> HIDE DEF h, n
<1>6. h.srv = h["srv"] /\ h.cli = h["cli"]
  BY <1>5, EndFacts
<1>7. Agree(h, "out", n)
  <2>1. n \in Nat
    BY <1>2, RoomFacts
  <2> QED BY <2>1, <1>5, <1>6, NoEndFacts DEF Agree
<1>8. Writable(h, "srv", Room)
  BY <1>5 DEF Writable
<1>9. /\ h.srv.st = "closed" <=> tcp[c].srv.st = "closed"
      /\ tcp[c].srv.st \in {"open", "fin", "rst"} => h.srv.st \in {"open", "fin", "rst"}
      /\ tcp[c].cli.rx = 0 => h.cli.rx = 0
  BY <1>1, <1>5, <1>6
<1> QED BY <1>2, <1>3, <1>4, <1>5, <1>7, <1>8, <1>9, ClientSideKept

\* A reset that was provoked arrives at one of the ends.
LEMMA ResetKeepsInv == ASSUME IInv, NEW c \in Conns, ResetArrives(c) PROVE IInv'
<1> DEFINE t == tcp[c]
<1>1. PICK side \in Sides : t[side].st = "prov" /\ tcp' = [tcp EXCEPT ![c] = ResetAt(t, side)]
  BY DEF ResetArrives
<1> DEFINE h == ResetAt(t, side)
<1>2. /\ t \in Ends /\ t.srv = t["srv"] /\ t.cli = t["cli"]
      /\ cst[c] \in {"out", "running", "idle", "killed"} /\ left[c] \in 0 .. Room
      /\ Agree(t, cst[c], left[c])
  BY ConnFacts
<1>3. /\ UNCHANGED <<sst, batch, interest, fdOf, backlog>>
      /\ cst' = [cst EXCEPT ![c] = cst[c]] /\ left' = [left EXCEPT ![c] = left[c]]
  BY DEF ResetArrives, IInv, TypeConns
<1>4. /\ h \in Ends /\ h[side].st = "pipe" /\ h[side].rx = t[side].rx
      /\ h[Other(side)] = t[Other(side)]
  BY <1>2, ResetFacts
<1> HIDE DEF h
<1>5. h.srv = h["srv"] /\ h.cli = h["cli"]
  BY <1>4, EndFacts
<1>6. /\ h["srv"].rx = t["srv"].rx /\ h["cli"].rx = t["cli"].rx
      /\ h["srv"].st = t["srv"].st \/ (t["srv"].st = "prov" /\ h["srv"].st = "pipe")
      /\ h["cli"].st = t["cli"].st \/ (t["cli"].st = "prov" /\ h["cli"].st = "pipe")
  <2>1. CASE side = "srv"
    BY <2>1, <1>1, <1>4, OtherFacts
  <2>2. CASE side = "cli"
    BY <2>2, <1>1, <1>4, OtherFacts
  <2> QED BY <2>1, <2>2 DEF Sides
<1>7. Agree(h, cst[c], left[c])
  BY <1>2, <1>5, <1>6 DEF Agree
<1>8. Writable(t, "srv", Room) => Writable(h, "srv", Room)
  BY <1>6, OtherFacts DEF Writable
<1>9. /\ h.srv.st = "closed" <=> tcp[c].srv.st = "closed"
      /\ tcp[c].srv.st \in {"open", "fin", "rst"} => h.srv.st \in {"open", "fin", "rst"}
      /\ tcp[c].cli.rx = 0 => h.cli.rx = 0
  BY <1>2, <1>5, <1>6
<1> QED BY <1>1, <1>2, <1>3, <1>4, <1>7, <1>8, <1>9, ClientSideKept DEF h

\* What a fresh connection looks like, and one that is not there.
LEMMA FreshFacts ==
  /\ Connected \in Ends /\ Connected.srv.st = "open" /\ Connected.cli.st = "open" /\ Connected.cli.rx = 0
  /\ NoConnection \in Ends /\ NoConnection.srv.st = "closed" /\ NoConnection.cli.st = "closed"
<1>1. [rx |-> 0, st |-> "open"] \in End(Room)
  BY RoomFacts DEF End
<1>2. Connected \in Ends /\ NoConnection \in Ends
  BY <1>1, NoEndFacts DEF Connected, NoConnection, Ends
<1>3. /\ Connected["srv"] = [rx |-> 0, st |-> "open"] /\ Connected["cli"] = [rx |-> 0, st |-> "open"]
      /\ NoConnection["srv"] = NoEnd /\ NoConnection["cli"] = NoEnd
  BY OtherFacts DEF Connected, NoConnection
<1>4. /\ Connected.srv = Connected["srv"] /\ Connected.cli = Connected["cli"]
      /\ NoConnection.srv = NoConnection["srv"] /\ NoConnection.cli = NoConnection["cli"]
  BY <1>2, EndFacts
<1> QED BY <1>2, <1>3, <1>4, NoEndFacts

\* A client connects: the connection waits to be accepted, and no event is about it.
LEMMA RunAsClientKeepsInv == ASSUME IInv, NEW c \in Conns, RunAsClient(c) PROVE IInv'
<1>1. /\ tcp[c] = NoConnection /\ tcp' = [tcp EXCEPT ![c] = Connected]
      /\ cst' = [cst EXCEPT ![c] = "running"] /\ left' = [left EXCEPT ![c] = 0]
      /\ backlog' = Append(backlog, c)
      /\ sst' = sst /\ batch' = batch /\ interest' = interest /\ fdOf' = fdOf
  BY DEF RunAsClient
<1>2. tcp[c].srv.st = "closed"
  BY <1>1, FreshFacts
<1>3. fdOf[c] = 0
  BY <1>2 DEF IInv, FdInv
<1>4. \A d \in Conns : /\ tcp'[d] = IF d = c THEN Connected ELSE tcp[d]
                       /\ cst'[d] = IF d = c THEN "running" ELSE cst[d]
                       /\ left'[d] = IF d = c THEN 0 ELSE left[d]
  BY <1>1 DEF IInv, TypeConns
<1>5. /\ backlog \in Seq(Conns) /\ Len(backlog) \in Nat /\ DOMAIN backlog = 1 .. Len(backlog)
      /\ backlog' \in Seq(Conns) /\ DOMAIN backlog' = 1 .. (Len(backlog) + 1)
      /\ backlog'[Len(backlog) + 1] = c
      /\ \A k \in 1 .. Len(backlog) : /\ k \in DOMAIN backlog' /\ backlog'[k] = backlog[k]
                                      /\ backlog[k] \in Conns /\ backlog[k] # c
  <2>1. backlog \in Seq(Conns)
    BY DEF IInv, TypeConns
  <2>2. \A k \in DOMAIN backlog : backlog[k] # c
    BY <1>2 DEF IInv, BacklogInv
  <2> QED BY <2>1, <2>2, <1>1
<1>6. ASSUME NEW k \in DOMAIN backlog'
      PROVE  \/ k = Len(backlog) + 1 /\ backlog'[k] = c
             \/ k \in DOMAIN backlog /\ backlog'[k] = backlog[k] /\ backlog[k] # c /\ backlog[k] \in Conns
  BY <1>5
<1>7. TypeLoop'
  BY <1>1 DEF IInv, TypeLoop
<1>8. TypeConns'
  <2>1. 0 \in 0 .. Room
    BY RoomFacts
  <2> QED BY <2>1, <1>1, <1>5, FreshFacts DEF IInv, TypeConns
<1>9. BacklogInv'
  <2>1. ASSUME NEW k \in DOMAIN backlog'
        PROVE  tcp'[backlog'[k]].srv.st # "closed" /\ tcp'[backlog'[k]].cli.rx = 0
    BY <1>4, <1>6, FreshFacts DEF IInv, BacklogInv
  <2>2. ASSUME NEW k \in DOMAIN backlog', NEW l \in DOMAIN backlog', backlog'[k] = backlog'[l]
        PROVE  k = l
    BY <2>2, <1>6 DEF IInv, BacklogInv
  <2>3. backlog' # <<>>
    <3>1. Len(backlog') # 0 /\ Len(<<>>) = 0
      BY <1>5
    <3> QED BY <3>1
  <2> QED BY <2>1, <2>2, <2>3 DEF BacklogInv
<1>10. FdInv'
  <2>1. ASSUME NEW d \in Conns
        PROVE  fdOf[d] # 0 <=> tcp'[d].srv.st # "closed" /\ \A k \in DOMAIN backlog' : backlog'[k] # d
    <3>1. CASE d = c
      <4>1. Len(backlog) + 1 \in DOMAIN backlog' /\ backlog'[Len(backlog) + 1] = c
        BY <1>5
      <4> QED BY <3>1, <4>1, <1>3
    <3>2. CASE d # c
      <4>1. (\A k \in DOMAIN backlog' : backlog'[k] # d) <=> \A k \in DOMAIN backlog : backlog[k] # d
        BY <3>2, <1>5, <1>6
      <4> QED BY <3>2, <4>1, <1>4 DEF IInv, FdInv
    <3> QED BY <3>1, <3>2
  <2> QED BY <2>1, <1>1 DEF IInv, FdInv
<1>11. BatchInv'
  <2>1. \A ev \in batch \ {Listener} : ev.conn \in Conns /\ ev.conn # c
    BY <1>3 DEF IInv, BatchInv
  <2>2. \A ev \in batch \ {Listener} : tcp'[ev.conn] = tcp[ev.conn]
    BY <2>1, <1>4
  <2> QED BY <2>2, <1>1 DEF IInv, BatchInv
<1>12. EndsInv'
  <2>1. Agree(Connected, "running", 0)
    BY FreshFacts DEF Agree
  <2>2. \A d \in Conns : Agree(tcp'[d], cst'[d], left'[d])
    BY <2>1, <1>4, EndsAgree DEF IInv
  <2> QED BY <2>2 DEF EndsInv, Agree
<1> QED BY <1>7, <1>8, <1>9, <1>10, <1>11, <1>12 DEF IInv

\* epoll_wait reports what is so now, one event per connection.
LEMMA EpollWaitKeepsInv == ASSUME IInv, EpollWait PROVE IInv'
<1>1. /\ batch' = Ready \cup (IF backlog # <<>> THEN {Listener} ELSE {}) /\ sst' = "loop"
      /\ interest' = interest /\ fdOf' = fdOf /\ backlog' = backlog /\ tcp' = tcp
      /\ cst' = cst /\ left' = left
  BY DEF EpollWait
<1>2. ASSUME NEW ev \in Ready
      PROVE  /\ ev.conn \in Conns /\ fdOf[ev.conn] = ev.fd /\ ev.fd \in interest
             /\ ev = [fd |-> fdOf[ev.conn], conn |-> ev.conn, in |-> Readable(tcp[ev.conn].srv),
                      out |-> Writable(tcp[ev.conn], "srv", Room)]
  <2>1. PICK c \in Conns : /\ fdOf[c] \in interest
                           /\ ev = [fd |-> fdOf[c], conn |-> c, in |-> Readable(tcp[c].srv),
                                    out |-> Writable(tcp[c], "srv", Room)]
    BY DEF Ready
  <2> QED BY <2>1
<1>3. \A ev \in Ready : ev.fd \in 1 .. NFds /\ ev.fd \in 0 .. NFds /\ ev.fd # 0
  BY <1>2, RoomFacts DEF IInv, TypeLoop
<1>4. TypeLoop'
  <2>1. ASSUME NEW ev \in Ready
        PROVE  ev \in [fd : 0 .. NFds, conn : Conns \cup {"listener"}, in : BOOLEAN, out : BOOLEAN]
    <3>1. Readable(tcp[ev.conn].srv) \in BOOLEAN /\ Writable(tcp[ev.conn], "srv", Room) \in BOOLEAN
      BY DEF Readable, Writable
    <3> QED BY <3>1, <1>2, <1>3
  <2>2. Listener \in [fd : 0 .. NFds, conn : Conns \cup {"listener"}, in : BOOLEAN, out : BOOLEAN]
    <3>1. 0 \in 0 .. NFds
      BY RoomFacts
    <3> QED BY <3>1 DEF Listener
  <2>3. batch' \subseteq [fd : 0 .. NFds, conn : Conns \cup {"listener"}, in : BOOLEAN, out : BOOLEAN]
    BY <1>1, <2>1, <2>2
  <2> QED BY <1>1, <2>3 DEF IInv, TypeLoop
<1>5. TypeConns' /\ FdInv' /\ EndsInv'
  BY <1>1 DEF IInv, TypeConns, FdInv, EndsInv
<1>6. Listener \notin Ready
  BY <1>3 DEF Listener
<1>7. BacklogInv'
  <2>1. Listener \in batch' => backlog # <<>>
    BY <1>1, <1>6
  <2> QED BY <2>1, <1>1 DEF IInv, BacklogInv
<1>8. BatchInv'
  <2>1. SUFFICES ASSUME NEW ev \in batch' \ {Listener}
                 PROVE  /\ ev.conn \in Conns /\ fdOf[ev.conn] = ev.fd /\ ev.fd # 0
                        /\ ev.out => Writable(tcp[ev.conn], "srv", Room)
                        /\ ~ev.in => tcp[ev.conn].srv.st \in {"open", "fin", "rst"}
                        /\ \A e \in batch' \ {Listener} : e.conn = ev.conn => e = ev
    BY <1>1 DEF BatchInv
  <2>2. ev \in Ready /\ batch' \ {Listener} \subseteq Ready
    BY <1>1
  <2>3. ev.in = Readable(tcp[ev.conn].srv) /\ ev.out = Writable(tcp[ev.conn], "srv", Room)
    BY <1>2, <2>2
  <2>4. \A e \in Ready : e.conn = ev.conn => e = ev
    BY <1>2, <2>2
  <2>5. ev.conn \in Conns /\ fdOf[ev.conn] = ev.fd /\ ev.fd # 0
    BY <1>2, <1>3, <2>2
  <2>6. ev.fd # 0 => tcp[ev.conn].srv.st # "closed"
    BY <2>5 DEF IInv, FdInv
  <2>7. ~ev.in => tcp[ev.conn].srv.st \in {"open", "fin", "rst"}
    <3>1. SUFFICES ASSUME ~Readable(tcp[ev.conn].srv) PROVE tcp[ev.conn].srv.st \in {"open", "fin", "rst"}
      BY <2>3
    <3>2. tcp[ev.conn]["srv"].st \in {"closed", "open", "fin", "prov", "rst", "pipe"}
          /\ tcp[ev.conn].srv = tcp[ev.conn]["srv"]
      BY <2>5, ConnFacts, SideFacts, OtherFacts
    <3> QED BY <3>1, <3>2, <2>5, <2>6 DEF Readable
  <2> QED BY <2>2, <2>3, <2>4, <2>5, <2>7
<1> QED BY <1>4, <1>5, <1>7, <1>8 DEF IInv

\* accept takes the oldest connection and gives it a descriptor nobody has; the
\* welcome finds room, since nothing was sent to that client before.
LEMMA AcceptKeepsInv == ASSUME IInv, Accept PROVE IInv'
<1> DEFINE c == Head(backlog)
           h == Sent(tcp[c], "srv")
<1>1. PICK fd \in 1 .. NFds : /\ NewFd(fd)
                              /\ fdOf' = [fdOf EXCEPT ![c] = fd]
                              /\ tcp' = [tcp EXCEPT ![c] = h]
                              /\ interest' = interest \cup {fd}
  BY DEF Accept
<1>2. /\ Listener \in batch /\ batch' = batch \ {Listener} /\ sst' \in {"wait", "loop"}
      /\ backlog' = Tail(backlog) /\ cst' = cst /\ left' = left
  BY DEF Accept, Advance
<1>3. backlog \in Seq(Conns) /\ backlog # <<>>
  BY <1>2 DEF IInv, TypeConns, BacklogInv
<1>4. /\ 1 \in DOMAIN backlog /\ c = backlog[1] /\ c \in Conns
      /\ Len(backlog) \in Nat /\ Len(backlog) >= 1 /\ DOMAIN backlog = 1 .. Len(backlog)
      /\ backlog' \in Seq(Conns) /\ DOMAIN backlog' = 1 .. (Len(backlog) - 1)
      /\ \A k \in 1 .. (Len(backlog) - 1) : backlog'[k] = backlog[k + 1]
  BY <1>2, <1>3
<1>5. /\ tcp[c] \in Ends /\ tcp[c].srv = tcp[c]["srv"] /\ tcp[c].cli = tcp[c]["cli"]
      /\ Agree(tcp[c], cst[c], left[c])
  BY <1>4, ConnFacts
<1>6. tcp[c]["srv"].st # "closed" /\ tcp[c]["cli"].rx = 0 /\ fdOf[c] = 0
  BY <1>4, <1>5 DEF IInv, BacklogInv, FdInv
<1>7. /\ h \in Ends /\ h["srv"].rx = tcp[c]["srv"].rx
      /\ h["srv"].st = IF tcp[c]["srv"].st = "fin" THEN "prov"
                       ELSE IF tcp[c]["srv"].st = "rst" THEN "pipe" ELSE tcp[c]["srv"].st
      /\ h["cli"].st = tcp[c]["cli"].st
  <2>1. tcp[c]["srv"].st = "open" => tcp[c][Other("srv")].rx < Room
    BY <1>6, OtherFacts, RoomFacts
  <2> QED BY <2>1, <1>5, SentFacts, OtherFacts
<1> HIDE DEF c, h
<1>8. h.srv = h["srv"] /\ h.cli = h["cli"]
  BY <1>7, EndFacts
<1>9. h.srv.st # "closed" /\ Agree(h, cst[c], left[c])
  BY <1>5, <1>6, <1>7, <1>8 DEF Agree
<1>10. \A d \in Conns : /\ tcp'[d] = IF d = c THEN h ELSE tcp[d]
                        /\ fdOf'[d] = IF d = c THEN fd ELSE fdOf[d]
  BY <1>1, <1>4 DEF IInv, TypeConns, TypeLoop
<1>11. ASSUME NEW k \in DOMAIN backlog'
       PROVE  /\ k + 1 \in DOMAIN backlog /\ k + 1 # 1 /\ backlog'[k] = backlog[k + 1]
              /\ backlog[k + 1] \in Conns /\ backlog[k + 1] # c
  <2>1. k + 1 \in DOMAIN backlog /\ k + 1 # 1 /\ backlog'[k] = backlog[k + 1]
    BY <1>4
  <2> QED BY <2>1, <1>3, <1>4 DEF IInv, BacklogInv
<1>12. fd \in 0 .. NFds /\ fd # 0
  BY RoomFacts
<1>13. TypeLoop'
  BY <1>1, <1>2, <1>4, <1>12 DEF IInv, TypeLoop
<1>14. TypeConns'
  BY <1>1, <1>2, <1>4, <1>7 DEF IInv, TypeConns
<1>15. BacklogInv'
  <2>1. ASSUME NEW k \in DOMAIN backlog'
        PROVE  tcp'[backlog'[k]].srv.st # "closed" /\ tcp'[backlog'[k]].cli.rx = 0
    BY <1>10, <1>11 DEF IInv, BacklogInv
  <2>2. ASSUME NEW k \in DOMAIN backlog', NEW l \in DOMAIN backlog', backlog'[k] = backlog'[l]
        PROVE  k = l
    <3>1. backlog[k + 1] = backlog[l + 1] /\ k + 1 \in DOMAIN backlog /\ l + 1 \in DOMAIN backlog
      BY <2>2, <1>11
    <3>2. k + 1 = l + 1
      BY <3>1 DEF IInv, BacklogInv
    <3> QED BY <3>2, <1>4
  <2> QED BY <2>1, <2>2, <1>2 DEF BacklogInv
<1>16. FdInv'
  <2>1. ASSUME NEW d \in Conns
        PROVE  fdOf'[d] # 0 <=> tcp'[d].srv.st # "closed" /\ \A k \in DOMAIN backlog' : backlog'[k] # d
    <3>1. CASE d = c
      BY <3>1, <1>9, <1>10, <1>11, <1>12
    <3>2. CASE d # c
      <4>1. (\A k \in DOMAIN backlog' : backlog'[k] # d) <=> \A k \in DOMAIN backlog : backlog[k] # d
        <5>1. ASSUME NEW k \in DOMAIN backlog, backlog[k] = d
              PROVE  k - 1 \in DOMAIN backlog' /\ backlog'[k - 1] = d
          <6>1. k # 1
            BY <5>1, <3>2, <1>4
          <6>2. k - 1 \in 1 .. (Len(backlog) - 1) /\ (k - 1) + 1 = k
            BY <6>1, <1>4
          <6> QED BY <6>2, <5>1, <1>4
        <5> QED BY <5>1, <1>11
      <4> QED BY <3>2, <4>1, <1>10 DEF IInv, FdInv
    <3> QED BY <3>1, <3>2
  <2>2. \A d \in Conns : fdOf'[d] # 0 => fdOf'[d] \in interest'
    BY <1>1, <1>10 DEF IInv, FdInv
  <2>3. ASSUME NEW f \in interest' PROVE \E d \in Conns : fdOf'[d] = f
    <3>1. CASE f = fd
      BY <3>1, <1>4, <1>10
    <3>2. CASE f # fd
      <4>1. f \in interest /\ f # 0
        BY <3>2, <1>1 DEF IInv, TypeLoop
      <4>2. PICK d \in Conns : fdOf[d] = f
        BY <4>1 DEF IInv, FdInv
      <4>3. d # c
        BY <4>1, <4>2, <1>6
      <4> QED BY <4>2, <4>3, <1>10
    <3> QED BY <3>1, <3>2
  <2>4. \A d, e \in Conns : d # e /\ fdOf'[d] # 0 => fdOf'[d] # fdOf'[e]
    <3>1. \A d \in Conns : fdOf[d] # fd
      BY <1>1 DEF NewFd
    <3> QED BY <3>1, <1>10 DEF IInv, FdInv
  <2> QED BY <2>1, <2>2, <2>3, <2>4 DEF FdInv
<1>17. BatchInv'
  <2>1. \A ev \in batch \ {Listener} : ev.conn \in Conns /\ ev.conn # c
    BY <1>6 DEF IInv, BatchInv
  <2>2. \A ev \in batch \ {Listener} : tcp'[ev.conn] = tcp[ev.conn] /\ fdOf'[ev.conn] = fdOf[ev.conn]
    BY <2>1, <1>10
  <2>3. batch' \ {Listener} = batch \ {Listener}
    BY <1>2
  <2> QED BY <2>2, <2>3 DEF IInv, BatchInv
<1>18. EndsInv'
  <2>1. \A d \in Conns : Agree(tcp'[d], cst'[d], left'[d])
    BY <1>2, <1>9, <1>10, EndsAgree DEF IInv
  <2> QED BY <2>1 DEF EndsInv, Agree
<1> QED BY <1>13, <1>14, <1>15, <1>16, <1>17, <1>18 DEF IInv

\* One event is handled: the connection is closed and its descriptor free, or the
\* server still has it.
LEMMA HandleKeepsInv == ASSUME IInv, NEW ev \in batch, Handle(ev) PROVE IInv'
<1> DEFINE c == ev.conn
           t == tcp[c]
           h == Handled(t, "srv", ev)
<1>1. /\ ev \in batch \ {Listener} /\ batch' = batch \ {ev} /\ sst' \in {"wait", "loop"}
      /\ tcp' = [tcp EXCEPT ![c] = h] /\ backlog' = backlog /\ cst' = cst /\ left' = left
      /\ IF tcp'[c].srv = NoEnd
         THEN fdOf' = [fdOf EXCEPT ![c] = 0] /\ interest' = interest \ {ev.fd}
         ELSE fdOf' = fdOf /\ interest' = interest
  BY DEF Handle, Advance
<1>2. /\ c \in Conns /\ fdOf[c] = ev.fd /\ ev.fd # 0
      /\ ev.out => Writable(t, "srv", Room)
      /\ \A e \in batch \ {Listener} : e.conn = c => e = ev
  BY <1>1 DEF IInv, BatchInv
<1>3. /\ t \in Ends /\ t.srv = t["srv"] /\ t.cli = t["cli"]
      /\ Agree(t, cst[c], left[c]) /\ left[c] \in 0 .. Room
  BY <1>2, ConnFacts
<1>4. t["srv"].st # "closed" /\ \A k \in DOMAIN backlog : backlog[k] # c
  BY <1>2, <1>3 DEF IInv, FdInv
<1>5. /\ h \in Ends
      /\ \/ /\ h["srv"] = NoEnd
            /\ h["cli"].st \in {"fin", "rst"} \/ t["cli"].st # "open"
            /\ t["cli"].st # "open" => h["cli"].st = t["cli"].st
         \/ /\ h["srv"].rx <= t["srv"].rx
            /\ h["srv"].st = "open" <=> t["srv"].st = "open"
            /\ h["srv"].st = "closed" <=> t["srv"].st = "closed"
            /\ h["cli"].st = t["cli"].st
  BY <1>2, <1>3, HandledFacts, OtherFacts
<1> HIDE DEF c, t, h
<1>6. h.srv = h["srv"] /\ h.cli = h["cli"]
  BY <1>5, EndFacts
<1>7. \A d \in Conns : tcp'[d] = IF d = c THEN h ELSE tcp[d]
  BY <1>1, <1>2 DEF IInv, TypeConns
<1>8. h.srv.st = "closed" <=> h.srv = NoEnd
  BY <1>4, <1>5, <1>6, NoEndFacts
<1>9. Agree(h, cst[c], left[c])
  <2>1. CASE h["srv"] = NoEnd
    BY <2>1, <1>4, <1>5, <1>6, NoEndFacts DEF Agree
  <2>2. CASE h["srv"] # NoEnd
    <3>1. h["srv"].rx \in Nat /\ t["srv"].rx \in Nat /\ left[c] \in Nat
      BY <1>3, <1>5, SideFacts, OtherFacts, RoomFacts
    <3> QED BY <2>2, <3>1, <1>3, <1>4, <1>5, <1>6 DEF Agree
  <2> QED BY <2>1, <2>2
<1>10. \A d \in Conns : fdOf'[d] = IF d = c /\ h.srv.st = "closed" THEN 0 ELSE fdOf[d]
  <2>1. tcp'[c] = h
    BY <1>2, <1>7
  <2> QED BY <2>1, <1>1, <1>2, <1>8 DEF IInv, TypeLoop
<1>11. interest' = IF h.srv.st = "closed" THEN interest \ {fdOf[c]} ELSE interest
  BY <1>1, <1>2, <1>7, <1>8
<1>12. TypeLoop'
  <2>1. 0 \in 0 .. NFds
    BY RoomFacts
  <2>2. fdOf' \in [Conns -> 0 .. NFds]
    <3>1. fdOf' = fdOf \/ fdOf' = [fdOf EXCEPT ![c] = 0]
      BY <1>1
    <3> QED BY <2>1, <3>1 DEF IInv, TypeLoop
  <2> QED BY <2>2, <1>1, <1>11 DEF IInv, TypeLoop
<1>13. TypeConns'
  BY <1>1, <1>5 DEF IInv, TypeConns
<1>14. BacklogInv'
  <2>1. \A k \in DOMAIN backlog : tcp'[backlog[k]] = tcp[backlog[k]]
    BY <1>4, <1>7 DEF IInv, TypeConns
  <2> QED BY <2>1, <1>1 DEF IInv, BacklogInv
<1>15. FdInv'
  <2>1. ASSUME NEW d \in Conns
        PROVE  fdOf'[d] # 0 <=> tcp'[d].srv.st # "closed" /\ \A k \in DOMAIN backlog : backlog[k] # d
    <3>1. CASE d = c
      BY <3>1, <1>2, <1>4, <1>7, <1>10
    <3>2. CASE d # c
      BY <3>2, <1>7, <1>10 DEF IInv, FdInv
    <3> QED BY <3>1, <3>2
  <2>2. \A d \in Conns : fdOf'[d] # 0 => fdOf'[d] \in interest'
    BY <1>2, <1>10, <1>11 DEF IInv, FdInv
  <2>3. \A f \in interest' : \E d \in Conns : fdOf'[d] = f
    BY <1>2, <1>10, <1>11 DEF IInv, FdInv
  <2>4. \A d, e \in Conns : d # e /\ fdOf'[d] # 0 => fdOf'[d] # fdOf'[e]
    BY <1>10 DEF IInv, FdInv
  <2> QED BY <2>1, <2>2, <2>3, <2>4, <1>1 DEF FdInv
<1>16. BatchInv'
  <2>1. \A e \in batch' \ {Listener} : e \in batch \ {Listener} /\ e.conn \in Conns /\ e.conn # c
    BY <1>1, <1>2 DEF IInv, BatchInv
  <2>2. \A e \in batch' \ {Listener} : tcp'[e.conn] = tcp[e.conn] /\ fdOf'[e.conn] = fdOf[e.conn]
    BY <2>1, <1>7, <1>10
  <2> QED BY <2>1, <2>2 DEF IInv, BatchInv
<1>17. EndsInv'
  <2>1. \A d \in Conns : Agree(tcp'[d], cst'[d], left'[d])
    BY <1>1, <1>7, <1>9, EndsAgree DEF IInv
  <2> QED BY <2>1 DEF EndsInv, Agree
<1> QED BY <1>12, <1>13, <1>14, <1>15, <1>16, <1>17 DEF IInv

\* The server is gone: it has no connection any more, and every client's end
\* knows or will know.
LEMMA GoneKeepsInv == ASSUME IInv, NEW how \in {"ended", "killed"}, Gone(how) PROVE IInv'
<1>1. /\ sst' = how /\ batch' = {} /\ interest' = {} /\ backlog' = <<>>
      /\ fdOf' = [c \in Conns |-> 0] /\ cst' = cst /\ left' = left
  BY DEF Gone
<1>2. ASSUME NEW c \in Conns
      PROVE  /\ tcp'[c] \in Ends /\ tcp'[c]["srv"].st = "closed" /\ tcp'[c]["cli"].st # "open"
  <2>1. /\ tcp[c] \in Ends /\ tcp[c].srv = tcp[c]["srv"] /\ tcp[c].cli = tcp[c]["cli"]
        /\ Agree(tcp[c], cst[c], left[c])
    BY ConnFacts
  <2>2. CASE \E k \in DOMAIN backlog : backlog[k] = c
    <3>1. tcp'[c] = Refused(tcp[c])
      BY <2>2 DEF Gone
    <3> QED BY <3>1, <2>1, RefusedFacts, NoEndFacts
  <2>3. CASE fdOf[c] # 0 /\ ~\E k \in DOMAIN backlog : backlog[k] = c
    <3>1. tcp'[c] = Closed(tcp[c], "srv")
      BY <2>3 DEF Gone
    <3> QED BY <3>1, <2>1, ClosedFacts, OtherFacts, NoEndFacts
  <2>4. CASE fdOf[c] = 0 /\ ~\E k \in DOMAIN backlog : backlog[k] = c
    <3>1. tcp'[c] = tcp[c]
      BY <2>4 DEF Gone
    <3>2. tcp[c].srv.st = "closed"
      BY <2>4 DEF IInv, FdInv
    <3> QED BY <3>1, <3>2, <2>1 DEF Agree
  <2> QED BY <2>2, <2>3, <2>4
<1>3. TypeLoop'
  <2>1. 0 \in 0 .. NFds
    BY RoomFacts
  <2> QED BY <2>1, <1>1 DEF TypeLoop
<1>4. TypeConns'
  <2>1. tcp' \in [Conns -> Ends]
    BY <1>2 DEF Gone
  <2>2. backlog' \in Seq(Conns)
    BY <1>1
  <2> QED BY <2>1, <2>2, <1>1 DEF IInv, TypeConns
<1>5. \A c \in Conns : tcp'[c].srv.st = "closed" /\ tcp'[c].cli.st # "open"
  BY <1>2, EndFacts
<1>6. DOMAIN backlog' = {}
  BY <1>1
<1>7. BacklogInv' /\ FdInv' /\ BatchInv'
  BY <1>1, <1>5, <1>6 DEF BacklogInv, FdInv, BatchInv
<1>8. EndsInv'
  BY <1>5 DEF EndsInv
<1> QED BY <1>3, <1>4, <1>7, <1>8 DEF IInv

\* Every step keeps the inductive invariant.
LEMMA StepInv == IInv /\ [Next]_vars => IInv'
<1> SUFFICES ASSUME IInv, [Next]_vars PROVE IInv'
  OBVIOUS
<1>1. CASE RunAsServer
  BY <1>1 DEF RunAsServer, IInv, TypeLoop, TypeConns, BacklogInv, FdInv, BatchInv, EndsInv
<1>2. CASE EpollWait
  BY <1>2, EpollWaitKeepsInv
<1>3. CASE Accept
  BY <1>3, AcceptKeepsInv
<1>4. ASSUME NEW ev \in batch, Handle(ev) PROVE IInv'
  BY <1>4, HandleKeepsInv
<1>5. CASE ServerFails \/ AcceptFails \/ ServerKilled
  BY <1>5, GoneKeepsInv DEF ServerFails, AcceptFails, ServerKilled
<1>6. ASSUME NEW c \in Conns, RunAsClient(c) \/ ClientWait(c) \/ ClientStopped(c) \/ ResetArrives(c)
      PROVE  IInv'
  BY <1>6, RunAsClientKeepsInv, ClientWaitKeepsInv, ClientStoppedKeepsInv, ResetKeepsInv
<1>7. CASE UNCHANGED vars
  BY <1>7 DEF vars, IInv, TypeLoop, TypeConns, BacklogInv, FdInv, BatchInv, EndsInv
<1> QED BY <1>1, <1>2, <1>3, <1>4, <1>5, <1>6, <1>7 DEF Next, TimeOut

\* The inductive invariant holds at the start.
LEMMA InitInv == Init => IInv
<1> SUFFICES ASSUME Init PROVE IInv
  OBVIOUS
<1>1. TypeLoop
  <2>1. 0 \in 0 .. NFds
    BY RoomFacts
  <2> QED BY <2>1 DEF Init, TypeLoop
<1>2. TypeConns
  <2>1. 0 \in 0 .. Room
    BY RoomFacts
  <2> QED BY <2>1, FreshFacts DEF Init, TypeConns
<1>3. \A c \in Conns : tcp[c].srv.st = "closed" /\ tcp[c].cli.st = "closed"
  BY FreshFacts DEF Init
<1>4. DOMAIN backlog = {}
  BY DEF Init
<1>5. BacklogInv /\ FdInv /\ BatchInv /\ EndsInv
  BY <1>3, <1>4 DEF Init, BacklogInv, FdInv, BatchInv, EndsInv
<1> QED BY <1>1, <1>2, <1>5 DEF IInv

\* The inductive invariant holds in every state.
LEMMA Invariance == Spec => []IInv
  BY InitInv, StepInv, PTL DEF Spec

\* For every number of clients and descriptors: although descriptors are closed and
\* handed on in the middle of a batch, every event EpollWait has still to handle is
\* about the connection that has the descriptor now, no send finds its socket full,
\* and the set of epoll holds the accepted connections, each once.
THEOREM BatchSound == Spec => []BatchIsSound
<1>1. IInv => BatchIsSound
  <2> SUFFICES ASSUME IInv PROVE BatchIsSound
    OBVIOUS
  <2>1. \A k \in DOMAIN backlog : backlog[k] \in Conns
    BY DEF IInv, TypeConns
  <2>2. TypeOK
    BY <2>1 DEF IInv, TypeOK, TypeLoop, TypeConns, Ends
  <2>3. EventsAreFresh
    BY DEF IInv, EventsAreFresh, BatchInv, FdInv
  <2>4. interest = {fdOf[c] : c \in Conns} \ {0}
    <3>1. 0 \notin interest
      BY DEF IInv, TypeLoop
    <3> QED BY <3>1 DEF IInv, FdInv
  <2>5. InterestIsExact
    BY <2>4 DEF IInv, FdInv, InterestIsExact
  <2> QED BY <2>2, <2>3, <2>5 DEF BatchIsSound
<1> QED BY <1>1, Invariance, PTL

\* For every number of clients: a client that leaves kills the server (SIGPIPE in
\* send, line 272) only if something it had sent was not read yet when it left.
THEOREM ReadClientsDoNoHarm == Spec => UnharmedByReadClients
<1> DEFINE Harm == sst = "loop" /\ sst' = "killed" =>
                      \E c \in Conns : tcp[c].srv.st = "pipe" /\ cst[c] = "out" /\ left[c] > 0
<1>1. IInv /\ [Next]_vars => [Harm]_vars
  <2> SUFFICES ASSUME IInv, Next, sst = "loop", sst' = "killed"
               PROVE  \E c \in Conns : tcp[c].srv.st = "pipe" /\ cst[c] = "out" /\ left[c] > 0
    OBVIOUS
  <2>1. ServerKilled
    BY DEF Next, RunAsServer, EpollWait, Accept, Handle, Advance, ServerFails, AcceptFails, Gone,
           RunAsClient, ClientWait, ClientStopped, ResetArrives, TimeOut, vars
  <2>2. PICK ev \in batch \ {Listener} : Killed(tcp[ev.conn], "srv", ev)
    BY <2>1 DEF ServerKilled
  <2> DEFINE c == ev.conn
             t == tcp[c]
  <2>3. c \in Conns /\ (~ev.in => t.srv.st \in {"open", "fin", "rst"})
    BY DEF IInv, BatchInv
  <2>4. /\ t \in Ends /\ t.srv = t["srv"] /\ Agree(t, cst[c], left[c]) /\ left[c] \in 0 .. Room
        /\ t["srv"].rx \in Nat
    BY <2>3, ConnFacts, SideFacts, OtherFacts
  <2>5. AfterIn(t, "srv", ev)["srv"].st = "pipe"
    BY <2>2 DEF Killed
  <2> HIDE DEF c, t
  <2>6. ev.in
    BY <2>3, <2>4, <2>5 DEF AfterIn
  <2>7. CASE t["srv"].rx = 0
    <3>1. AfterIn(t, "srv", ev) = Closed(t, "srv")
      BY <2>6, <2>7 DEF AfterIn, HandleIn
    <3> QED BY <3>1, <2>4, <2>5, ClosedFacts, NoEndFacts, OtherFacts
  <2>8. CASE t["srv"].rx > 0
    <3>1. AfterIn(t, "srv", ev) = Received(t, "srv")
      BY <2>6, <2>8 DEF AfterIn, HandleIn
    <3>2. t["srv"].st = "pipe"
      BY <3>1, <2>4, <2>5, <2>8, ReceivedFacts, OtherFacts
    <3>3. cst[c] = "out" /\ t["srv"].rx <= left[c]
      BY <3>2, <2>4 DEF Agree
    <3>4. left[c] > 0
      BY <3>3, <2>4, <2>8, RoomFacts
    <3> QED BY <3>2, <3>3, <3>4, <2>3, <2>4 DEF t
  <2> QED BY <2>4, <2>7, <2>8
<1> QED BY <1>1, Invariance, PTL DEF Spec, UnharmedByReadClients

----------------------------------------------------------------------------
(* Libevent *)

\* The types of Libevent, with functions where TypeOK speaks of values.
BevTypes == /\ up \in BOOLEAN /\ sbev \subseteq Clients /\ backlog3 \in Seq(Clients)
            /\ tcp3 \in [Clients -> Ends]
            /\ sout \in [Clients -> Nat] /\ heard \in [Clients -> Nat]
            /\ cprog \in [Clients -> {"out", "loop", "failed", "finished", "killed", "stopped"}]
            /\ conn \in [Clients -> {"none", "pending", "made", "refused", "used"}]
            /\ alloc \in [Clients -> {{}, Bev!Objects}]
            /\ active \in [Clients -> SUBSET {"read", "write", "cmd"}]
            /\ out \in [Clients -> Nat] /\ tty \in [Clients -> Nat] /\ said \in [Clients -> Nat]
            /\ eof \in [Clients -> BOOLEAN]

\* Who waits in the backlog waits once, and is not accepted yet.
BevQueue == \A k, l \in DOMAIN backlog3 : /\ backlog3[k] \notin sbev
                                          /\ backlog3[k] = backlog3[l] => k = l

\* The server has to do with client c.
Known(c) == c \in sbev \/ \E k \in DOMAIN backlog3 : backlog3[k] = c

\* A client the server has not heard of.
Young(c) == /\ cprog[c] = "out" => /\ said[c] = 0 /\ heard[c] = 0 /\ tty[c] = 0 /\ out[c] = 0
                                   /\ alloc[c] = {}
            /\ cprog[c] = "out" \/ conn[c] = "pending" => tcp3[c] = NoConnection
            /\ \/ cprog[c] = "out" \/ conn[c] = "pending"
               \/ cprog[c] = "loop" /\ conn[c] \in {"none", "refused"}
               => ~Known(c)

\* The events of this turn: none without the objects, and a socket that was found
\* writable stays so until its callback.
Turns(c) == /\ alloc[c] = {} => active[c] = {}
            /\ "write" \in active[c] =>
                  \/ conn[c] \in {"made", "refused"}
                  \/ conn[c] = "used" /\ out[c] > 0 /\ Writable(tcp3[c], "cli", Room)

\* Where the lines are.
Lasts(c) == /\ cprog[c] = "loop" /\ alloc[c] # {}
            /\ conn[c] \in {"made", "used"} => tcp3[c]["cli"].st = "open" /\ tcp3[c]["srv"].st = "open"
Counts(c) == /\ sout[c] <= heard[c] /\ said[c] <= Lines
             /\ tty[c] + out[c] + tcp3[c]["srv"].rx + heard[c] <= said[c]
             /\ Lasts(c) => said[c] = tty[c] + out[c] + tcp3[c]["srv"].rx + heard[c]

ClientInv(c) == Young(c) /\ Turns(c) /\ Counts(c)
BevInv == BevTypes /\ BevQueue /\ \A c \in Clients : ClientInv(c)

\* Libevent speaks of connections as EpollSocket does.
LEMMA SameEnds ==
  /\ Bev!NoConnection = NoConnection /\ Bev!Connected = Connected /\ Bev!Sides = Sides
  /\ \A r : Bev!End(r) = End(r)
  /\ \A e : Bev!Readable(e) <=> Readable(e)
  /\ \A t, side, r : Bev!Writable(t, side, r) <=> Writable(t, side, r)
  /\ \A t, side : /\ Bev!Sent(t, side) = Sent(t, side) /\ Bev!Closed(t, side) = Closed(t, side)
                  /\ Bev!ResetAt(t, side) = ResetAt(t, side)
  /\ \A t : Bev!Refused(t) = Refused(t)
<1>1. /\ Bev!NoConnection = NoConnection /\ Bev!Connected = Connected /\ Bev!Sides = Sides
      /\ \A r : Bev!End(r) = End(r)
      /\ \A e : Bev!Readable(e) <=> Readable(e)
  BY Zenon DEF Bev!NoConnection, NoConnection, Bev!Connected, Connected, Bev!Sides, Sides,
               Bev!End, End, Bev!NoEnd, NoEnd, Bev!Readable, Readable
<1>2. \A t, side, r : Bev!Writable(t, side, r) <=> Writable(t, side, r)
  BY Zenon DEF Bev!Writable, Writable, Bev!Other, Other
<1>3. \A t, side : Bev!Sent(t, side) = Sent(t, side)
  BY Zenon DEF Bev!Sent, Sent, Bev!Other, Other
<1>4. \A t, side : Bev!Closed(t, side) = Closed(t, side)
  BY Zenon DEF Bev!Closed, Closed, Bev!Other, Other, Bev!Told, Told, Bev!NoEnd, NoEnd
<1>5. \A t : Bev!Refused(t) = Refused(t)
  BY Zenon DEF Bev!Refused, Refused, Bev!Told, Told, Bev!NoEnd, NoEnd
<1>6. \A t, side : Bev!ResetAt(t, side) = ResetAt(t, side)
  BY Zenon DEF Bev!ResetAt, ResetAt
<1> QED BY <1>1, <1>2, <1>3, <1>4, <1>5, <1>6

\* What one client is about does not change for another.
Untouched(d) == /\ tcp3'[d] = tcp3[d] /\ sout'[d] = sout[d] /\ heard'[d] = heard[d]
                /\ cprog'[d] = cprog[d] /\ conn'[d] = conn[d] /\ alloc'[d] = alloc[d]
                /\ active'[d] = active[d] /\ out'[d] = out[d] /\ tty'[d] = tty[d] /\ said'[d] = said[d]
                /\ Known(d)' => Known(d)

\* A client of which nothing changes keeps its part of the invariant.
LEMMA UntouchedKeeps == ASSUME NEW d \in Clients, ClientInv(d), Untouched(d) PROVE ClientInv(d)'
<1>1. Young(d)'
  BY DEF ClientInv, Young, Untouched
<1>2. Turns(d)'
  BY DEF ClientInv, Turns, Untouched, Writable
<1>3. Counts(d)'
  BY DEF ClientInv, Counts, Lasts, Untouched
<1> QED BY <1>1, <1>2, <1>3 DEF ClientInv

\* A step of which one client is the subject.
LEMMA OneClient ==
  ASSUME BevInv, NEW c \in Clients, BevTypes', BevQueue', ClientInv(c)',
         \A d \in Clients \ {c} : Untouched(d)
  PROVE  BevInv'
<1>1. \A d \in Clients \ {c} : ClientInv(d)'
  BY UntouchedKeeps DEF BevInv
<1> QED BY <1>1 DEF BevInv

\* What is known of a client.
LEMMA ClientFacts ==
  ASSUME BevInv, NEW c \in Clients
  PROVE  /\ tcp3[c] \in Ends /\ tcp3[c].srv = tcp3[c]["srv"] /\ tcp3[c].cli = tcp3[c]["cli"]
         /\ tcp3[c]["srv"] \in End(Room) /\ tcp3[c]["cli"] \in End(Room)
         /\ tcp3[c]["srv"].rx \in Nat /\ tcp3[c]["cli"].rx \in Nat
         /\ sout[c] \in Nat /\ heard[c] \in Nat /\ out[c] \in Nat /\ tty[c] \in Nat /\ said[c] \in Nat
         /\ alloc[c] \in {{}, Bev!Objects} /\ active[c] \subseteq {"read", "write", "cmd"}
         /\ Young(c) /\ Turns(c) /\ Counts(c)
<1>1. tcp3[c] \in Ends
  BY DEF BevInv, BevTypes
<1>2. Young(c) /\ Turns(c) /\ Counts(c)
  BY DEF BevInv, ClientInv
<1> QED BY <1>1, <1>2, EndFacts, SideFacts, OtherFacts DEF BevInv, BevTypes

\* The oldest connection is accepted.
LEMMA AcceptCbKeeps == ASSUME BevInv, Bev!accept_cb PROVE BevInv'
<1>1. /\ up /\ backlog3 # <<>> /\ sbev' = sbev \cup {Head(backlog3)} /\ backlog3' = Tail(backlog3)
      /\ UNCHANGED <<up, sout, heard, tcp3, cprog, conn, alloc, active, out, tty, eof, said>>
  BY DEF Bev!accept_cb, Bev!client, Bev!terminal
<1>2. /\ backlog3 \in Seq(Clients) /\ Head(backlog3) = backlog3[1] /\ 1 \in DOMAIN backlog3
      /\ backlog3' \in Seq(Clients) /\ Head(backlog3) \in Clients
      /\ \A k \in DOMAIN backlog3' : k + 1 \in DOMAIN backlog3 /\ backlog3'[k] = backlog3[k + 1] /\ k + 1 # 1
  <2>1. backlog3 \in Seq(Clients) /\ backlog3 # <<>>
    BY <1>1 DEF BevInv, BevTypes
  <2>2. 1 \in DOMAIN backlog3 /\ Head(backlog3) = backlog3[1] /\ Head(backlog3) \in Clients
    BY <2>1
  <2>3. Tail(backlog3) \in Seq(Clients) /\ Len(Tail(backlog3)) = Len(backlog3) - 1
    BY <2>1
  <2>4. \A k \in DOMAIN Tail(backlog3) : /\ k + 1 \in DOMAIN backlog3 /\ k + 1 # 1
                                        /\ Tail(backlog3)[k] = backlog3[k + 1]
    BY <2>1, <2>3
  <2> QED BY <1>1, <2>1, <2>2, <2>3, <2>4
<1>3. BevTypes'
  BY <1>1, <1>2 DEF BevInv, BevTypes
<1>4. BevQueue'
  BY <1>1, <1>2 DEF BevInv, BevQueue
<1>5. \A d \in Clients : Known(d)' => Known(d)
  BY <1>1, <1>2 DEF Known
<1>6. \A d \in Clients : Untouched(d)
  BY <1>1, <1>5 DEF Untouched
<1> QED BY <1>3, <1>4, <1>6, UntouchedKeeps DEF BevInv

\* Only the connection and what the server counts about it change.
LEMMA ServedKeeps ==
  ASSUME BevInv, NEW c \in Clients, NEW h \in Ends, NEW m \in Nat, NEW n \in Nat,
         c \in sbev, sbev' \in {sbev, sbev \ {c}},
         tcp3' = [tcp3 EXCEPT ![c] = h], sout' = [sout EXCEPT ![c] = m], heard' = [heard EXCEPT ![c] = n],
         UNCHANGED <<up, backlog3, cprog, conn, alloc, active, out, tty, eof, said>>,
         m <= n, h["srv"].rx <= tcp3[c]["srv"].rx, h["srv"].rx + n <= tcp3[c]["srv"].rx + heard[c],
         h["cli"].st = "open" => tcp3[c]["cli"].st = "open",
         h["cli"].st = "open" /\ h["srv"].st = "open" =>
            /\ tcp3[c]["srv"].st = "open"
            /\ h["srv"].rx + n = tcp3[c]["srv"].rx + heard[c]
  PROVE  BevInv'
<1> DEFINE t == tcp3[c]
<1>1. /\ t \in Ends /\ t["srv"].rx \in Nat /\ out[c] \in Nat /\ tty[c] \in Nat /\ heard[c] \in Nat /\ said[c] \in Nat
      /\ Young(c) /\ Turns(c) /\ Counts(c) /\ h["srv"].rx \in Nat
  BY ClientFacts, SideFacts, OtherFacts
<1>2. BevTypes'
  BY DEF BevInv, BevTypes
<1>3. BevQueue'
  BY DEF BevInv, BevQueue
<1>4. \A d \in Clients : Known(d)' => Known(d)
  BY DEF Known
<1>5. \A d \in Clients \ {c} : Untouched(d)
  BY <1>4 DEF Untouched, BevInv, BevTypes
<1>6. tcp3'[c] = h /\ sout'[c] = m /\ heard'[c] = n /\ Known(c)
  BY DEF BevInv, BevTypes, Known
<1>7. Young(c)'
  <2>1. ~(cprog[c] = "out" \/ conn[c] = "pending" \/ (cprog[c] = "loop" /\ conn[c] \in {"none", "refused"}))
    BY <1>1, <1>6 DEF Young
  <2> QED BY <2>1 DEF Young
<1>8. Turns(c)'
  BY <1>1, <1>6, RoomFacts, OtherFacts DEF Turns, Writable
<1>9. Counts(c)'
  <2>1. Lasts(c)' => Lasts(c) /\ h["srv"].rx + n = t["srv"].rx + heard[c]
    <3>1. ~(cprog[c] = "loop" /\ conn[c] \notin {"made", "used"})
      BY <1>1, <1>6 DEF Young, BevInv, BevTypes
    <3> QED BY <1>6, <3>1 DEF Lasts
  <2> QED BY <1>1, <1>6, <2>1 DEF Counts
<1> QED BY <1>2, <1>3, <1>5, <1>7, <1>8, <1>9, OneClient DEF ClientInv

\* A bufferevent of the server is freed.
LEMMA DropKeeps ==
  ASSUME BevInv, NEW c \in Clients, c \in sbev, Bev!Drop(c),
         UNCHANGED <<up, backlog3, heard, cprog, conn, alloc, active, out, tty, eof, said>>
  PROVE  BevInv'
<1> DEFINE h == Closed(tcp3[c], "srv")
<1>1. /\ tcp3' = [tcp3 EXCEPT ![c] = h] /\ sout' = [sout EXCEPT ![c] = 0] /\ sbev' = sbev \ {c}
  BY SameEnds DEF Bev!Drop
<1>2. /\ h \in Ends /\ h["srv"] = NoEnd /\ h["cli"].st # "open"
  <2>1. tcp3[c] \in Ends
    BY ClientFacts
  <2> QED BY <2>1, ClosedFacts, OtherFacts
<1>3. heard' = [heard EXCEPT ![c] = heard[c]] /\ heard[c] \in Nat /\ tcp3[c]["srv"].rx \in Nat
  BY ClientFacts DEF BevInv, BevTypes
<1>4. h["srv"].rx = 0
  BY <1>2, NoEndFacts
<1> HIDE DEF h
<1>5. h["srv"].rx <= tcp3[c]["srv"].rx /\ h["srv"].rx + heard[c] <= tcp3[c]["srv"].rx + heard[c] /\ 0 <= heard[c]
  BY <1>3, <1>4
<1> QED BY <1>1, <1>2, <1>3, <1>5, ServedKeeps

\* All that had arrived at an end is read.
Emptied(t, side) == [t EXCEPT ![side] = [t[side] EXCEPT !.rx = 0]]

\* Nothing else changes.
LEMMA EmptiedFacts ==
  ASSUME NEW t \in Ends, NEW side \in Sides
  PROVE  /\ Emptied(t, side) \in Ends
         /\ Emptied(t, side)[side].rx = 0 /\ Emptied(t, side)[side].st = t[side].st
         /\ Emptied(t, side)[Other(side)] = t[Other(side)]
<1> DEFINE e == [t[side] EXCEPT !.rx = 0]
<1>1. e \in End(Room) /\ e.rx = 0 /\ e.st = t[side].st
  <2>1. t[side] \in End(Room)
    BY SideFacts
  <2> QED BY <2>1, RoomFacts DEF End
<1>2. Emptied(t, side) = [t EXCEPT ![side] = e]
  BY Zenon DEF Emptied
<1> HIDE DEF e
<1> QED BY <1>1, <1>2, OtherFacts DEF Ends

\* The server reads all that has arrived, and puts one reply into its output.
LEMMA ServerReadsKeeps == ASSUME BevInv, NEW c \in Clients, Bev!socket_read_cb(c) PROVE BevInv'
<1> DEFINE t == tcp3[c]
           h == Emptied(t, "srv")
<1>1. /\ c \in sbev /\ t.srv.rx > 0 /\ heard' = [heard EXCEPT ![c] = heard[c] + t.srv.rx]
      /\ sout' = [sout EXCEPT ![c] = sout[c] + 1]
      /\ UNCHANGED <<up, backlog3, sbev, cprog, conn, alloc, active, out, tty, eof, said>>
  BY DEF Bev!socket_read_cb, Bev!client, Bev!terminal
<1>2. tcp3' = [tcp3 EXCEPT ![c] = h]
  BY Zenon DEF Bev!socket_read_cb, Emptied
<1>3. /\ t \in Ends /\ t.srv = t["srv"] /\ t["srv"].rx \in Nat /\ sout[c] \in Nat /\ heard[c] \in Nat
      /\ Counts(c)
  BY ClientFacts
<1>4. h \in Ends /\ h["srv"].rx = 0 /\ h["srv"].st = t["srv"].st /\ h["cli"] = t["cli"]
  BY <1>3, EmptiedFacts, OtherFacts
<1>5. sout[c] + 1 <= heard[c] + t["srv"].rx /\ sout[c] + 1 \in Nat /\ heard[c] + t["srv"].rx \in Nat
  BY <1>1, <1>3 DEF Counts
<1> HIDE DEF h
<1>6. h["srv"].rx <= t["srv"].rx /\ h["srv"].rx + (heard[c] + t["srv"].rx) = t["srv"].rx + heard[c]
  BY <1>3, <1>4
<1>7. h["srv"].rx + (heard[c] + t["srv"].rx) <= t["srv"].rx + heard[c]
  BY <1>3, <1>4
<1>8. heard' = [heard EXCEPT ![c] = heard[c] + t["srv"].rx]
  BY <1>1, <1>3
<1> QED BY <1>1, <1>2, <1>3, <1>4, <1>5, <1>6, <1>7, <1>8, ServedKeeps

\* Replies are written as long as there is room, and an error frees the bufferevent.
LEMMA ServerWritesKeeps == ASSUME BevInv, NEW c \in Clients, Bev!ServerWrites(c) PROVE BevInv'
<1> DEFINE t == tcp3[c]
           h == Sent(t, "srv")
<1>1. /\ c \in sbev /\ sout[c] > 0 /\ Writable(t, "srv", Room)
      /\ UNCHANGED <<up, backlog3, heard, cprog, conn, alloc, active, out, tty, eof, said>>
  BY SameEnds DEF Bev!ServerWrites, Bev!client, Bev!terminal
<1>2. CASE t.srv.st = "rst"
  BY <1>1, <1>2, DropKeeps DEF Bev!ServerWrites
<1>3. CASE t.srv.st # "rst"
  <2>1. tcp3' = [tcp3 EXCEPT ![c] = h] /\ sout' = [sout EXCEPT ![c] = sout[c] - 1] /\ sbev' = sbev
    BY <1>3, SameEnds DEF Bev!ServerWrites
  <2>2. /\ t \in Ends /\ sout[c] \in Nat /\ heard[c] \in Nat /\ t["srv"].rx \in Nat /\ Counts(c)
        /\ t["srv"].st = "open" => t["cli"].rx < Room
    BY <1>1, ClientFacts, OtherFacts DEF Writable
  <2>3. h \in Ends /\ h["srv"].rx = t["srv"].rx /\ h["cli"].st = t["cli"].st
        /\ (h["srv"].st = "open" => t["srv"].st = "open")
    BY <2>2, SentFacts, OtherFacts
  <2>4. sout[c] - 1 \in Nat /\ sout[c] - 1 <= heard[c]
    BY <1>1, <2>2 DEF Counts
  <2>5. heard' = [heard EXCEPT ![c] = heard[c]]
    BY <1>1 DEF BevInv, BevTypes
  <2> HIDE DEF h
  <2>6. h["srv"].rx + heard[c] <= t["srv"].rx + heard[c] /\ h["srv"].rx + heard[c] = t["srv"].rx + heard[c]
        /\ h["srv"].rx <= t["srv"].rx
    BY <2>2, <2>3
  <2> QED BY <1>1, <2>1, <2>2, <2>3, <2>4, <2>5, <2>6, ServedKeeps
<1> QED BY <1>2, <1>3

\* The server ends, and all its connections with it.
LEMMA ServerEndsKeeps == ASSUME BevInv, Bev!ServerEnds PROVE BevInv'
<1>1. /\ up' = FALSE /\ backlog3' = <<>> /\ sbev' = {} /\ sout' = [c \in Clients |-> 0]
      /\ tcp3' = [c \in Clients |-> IF c \in Bev!Range(backlog3) THEN Refused(tcp3[c])
                                    ELSE IF c \in sbev THEN Closed(tcp3[c], "srv") ELSE tcp3[c]]
      /\ UNCHANGED <<heard, cprog, conn, alloc, active, out, tty, eof, said>>
  BY SameEnds DEF Bev!ServerEnds, Bev!By, Bev!client, Bev!terminal
<1>2. \A c \in Clients : ~Known(c)'
  BY <1>1 DEF Known
<1>3. ASSUME NEW c \in Clients
      PROVE  /\ tcp3'[c] \in Ends
             /\ \/ tcp3'[c] = tcp3[c]
                \/ Known(c) /\ tcp3'[c]["srv"].rx = 0 /\ tcp3'[c]["cli"].st # "open"
  <2>1. tcp3[c] \in Ends
    BY ClientFacts
  <2>2. CASE c \in Bev!Range(backlog3)
    <3>1. Known(c)
      BY <2>2 DEF Known, Bev!Range
    <3>2. tcp3'[c] = Refused(tcp3[c])
      BY <1>1, <2>2
    <3> QED BY <2>1, <3>1, <3>2, RefusedFacts, NoEndFacts
  <2>3. CASE c \notin Bev!Range(backlog3) /\ c \in sbev
    <3>1. Known(c) /\ tcp3'[c] = Closed(tcp3[c], "srv")
      BY <1>1, <2>3 DEF Known
    <3>2. /\ Closed(tcp3[c], "srv") \in Ends /\ Closed(tcp3[c], "srv")["srv"] = NoEnd
          /\ Closed(tcp3[c], "srv")["cli"].st # "open"
      BY <2>1, ClosedFacts, OtherFacts
    <3> QED BY <3>1, <3>2, NoEndFacts
  <2>4. CASE c \notin Bev!Range(backlog3) /\ c \notin sbev
    BY <1>1, <2>1, <2>4
  <2> QED BY <2>2, <2>3, <2>4
<1>4. BevTypes'
  <2>1. tcp3' \in [Clients -> Ends]
    BY <1>1, <1>3
  <2>2. sout' \in [Clients -> Nat] /\ backlog3' \in Seq(Clients)
    BY <1>1
  <2> QED BY <1>1, <2>1, <2>2 DEF BevInv, BevTypes
<1>5. BevQueue'
  BY <1>1 DEF BevQueue
<1>6. ASSUME NEW c \in Clients PROVE ClientInv(c)'
  <2>1. /\ tcp3[c]["srv"].rx \in Nat /\ heard[c] \in Nat /\ out[c] \in Nat /\ tty[c] \in Nat /\ said[c] \in Nat
        /\ Young(c) /\ Turns(c) /\ Counts(c) /\ tcp3'[c]["srv"].rx \in Nat
        /\ sout'[c] = 0 /\ ~Known(c)'
    BY <1>1, <1>2, <1>3, ClientFacts, SideFacts, OtherFacts
  <2>2. CASE tcp3'[c] = tcp3[c]
    <3>1. Young(c)' /\ Turns(c)'
      BY <1>1, <2>1, <2>2 DEF Young, Turns, Writable
    <3>2. Counts(c)'
      BY <1>1, <2>1, <2>2 DEF Counts, Lasts
    <3> QED BY <3>1, <3>2 DEF ClientInv
  <2>3. CASE Known(c) /\ tcp3'[c]["srv"].rx = 0 /\ tcp3'[c]["cli"].st # "open"
    <3>1. ~(cprog[c] = "out" \/ conn[c] = "pending" \/ (cprog[c] = "loop" /\ conn[c] \in {"none", "refused"}))
      BY <2>1, <2>3 DEF Young
    <3>2. Young(c)' /\ Turns(c)'
      BY <1>1, <2>1, <2>3, <3>1, OtherFacts DEF Young, Turns, Writable
    <3>3. ~Lasts(c)'
      BY <1>1, <2>3, <3>1 DEF Lasts, BevInv, BevTypes
    <3>4. Counts(c)'
      <4>1. heard'[c] = heard[c] /\ said'[c] = said[c] /\ tty'[c] = tty[c] /\ out'[c] = out[c]
        BY <1>1
      <4>2. said[c] <= Lines /\ tty[c] + out[c] + tcp3[c]["srv"].rx + heard[c] <= said[c]
        BY <2>1, Zenon DEF Counts
      <4>3. 0 <= heard[c] /\ tty[c] + out[c] + 0 + heard[c] <= said[c]
        BY <2>1, <4>2
      <4> QED BY <2>1, <2>3, <3>3, <4>1, <4>2, <4>3 DEF Counts
    <3> QED BY <3>2, <3>4 DEF ClientInv
  <2> QED BY <1>3, <2>2, <2>3
<1> QED BY <1>4, <1>5, <1>6 DEF BevInv

\* A client that is called for the first time gets both objects.
LEMMA EnterFacts ==
  ASSUME BevInv, NEW c \in Clients, cprog[c] = "out", Bev!Enter(c)
  PROVE  /\ cprog' = [cprog EXCEPT ![c] = "loop"] /\ alloc' = [alloc EXCEPT ![c] = Bev!Objects]
         /\ UNCHANGED <<active, out>> /\ active[c] = {} /\ Bev!Objects # {}
  BY ClientFacts DEF Bev!Enter, Bev!Objects, Young, Turns

\* A client that has connected is at the end of the backlog.
LEMMA ReachedFacts ==
  ASSUME BevInv, NEW c \in Clients, tcp3[c] = NoConnection, ~Known(c), Bev!Reached(c)
  PROVE  /\ tcp3' = [tcp3 EXCEPT ![c] = Connected] /\ Connected \in Ends
         /\ Connected["srv"].rx = 0 /\ tcp3[c]["srv"].rx = 0
         /\ UNCHANGED <<up, sbev, sout, heard, tty, eof, said>>
         /\ backlog3' \in Seq(Clients) /\ BevQueue'
         /\ \A d \in Clients \ {c} : Known(d)' => Known(d)
<1>1. /\ tcp3' = [tcp3 EXCEPT ![c] = Connected] /\ backlog3' = Append(backlog3, c)
      /\ UNCHANGED <<up, sbev, sout, heard, tty, eof, said>>
  BY SameEnds DEF Bev!Reached, Bev!terminal
<1>2. Connected \in Ends /\ Connected["srv"].rx = 0 /\ tcp3[c]["srv"].rx = 0
  BY FreshFacts, OtherFacts, NoEndFacts DEF Connected, NoConnection
<1>3. /\ backlog3 \in Seq(Clients) /\ backlog3' \in Seq(Clients)
      /\ \A k \in DOMAIN backlog3' : \/ k \in DOMAIN backlog3 /\ backlog3'[k] = backlog3[k]
                                     \/ k = Len(backlog3) + 1 /\ backlog3'[k] = c
  <2>1. backlog3 \in Seq(Clients)
    BY DEF BevInv, BevTypes
  <2>2. Append(backlog3, c) \in Seq(Clients) /\ Len(Append(backlog3, c)) = Len(backlog3) + 1
    BY <2>1
  <2> QED BY <1>1, <2>1, <2>2
<1>4. BevQueue'
  BY <1>1, <1>3 DEF BevInv, BevQueue, Known
<1>5. \A d \in Clients \ {c} : Known(d)' => Known(d)
  BY <1>1, <1>3 DEF Known
<1> QED BY <1>1, <1>2, <1>3, <1>4, <1>5

\* main of the client, connected at once or connecting, or without a server.
LEMMA MainKeeps ==
  ASSUME BevInv, NEW c \in Clients, Bev!MainConnected(c) \/ Bev!MainConnects(c) \/ Bev!MainFails(c)
  PROVE  BevInv'
<1>1. /\ cprog[c] = "out" /\ tcp3[c] = NoConnection /\ ~Known(c)
      /\ said[c] = 0 /\ heard[c] = 0 /\ tty[c] = 0 /\ out[c] = 0 /\ alloc[c] = {} /\ active[c] = {}
      /\ sout[c] \in Nat /\ Young(c) /\ Turns(c) /\ Counts(c)
  BY ClientFacts DEF Bev!MainConnected, Bev!MainConnects, Bev!MainFails, Young, Turns
<1>2. tcp3[c]["srv"].rx = 0
  BY <1>1, OtherFacts, NoEndFacts DEF NoConnection
<1>3. CASE Bev!MainConnected(c)
  <2>1. /\ conn' = [conn EXCEPT ![c] = "used"] /\ Bev!Enter(c) /\ Bev!Reached(c)
    BY <1>3 DEF Bev!MainConnected
  <2>2. /\ cprog' = [cprog EXCEPT ![c] = "loop"] /\ alloc' = [alloc EXCEPT ![c] = Bev!Objects]
        /\ UNCHANGED <<active, out>>
    BY <1>1, <2>1, EnterFacts
  <2>3. /\ tcp3' = [tcp3 EXCEPT ![c] = Connected] /\ Connected \in Ends /\ Connected["srv"].rx = 0
        /\ UNCHANGED <<up, sbev, sout, heard, tty, eof, said>>
        /\ backlog3' \in Seq(Clients) /\ BevQueue'
        /\ \A d \in Clients \ {c} : Known(d)' => Known(d)
    BY <1>1, <2>1, ReachedFacts
  <2>4. BevTypes'
    BY <2>1, <2>2, <2>3 DEF BevInv, BevTypes
  <2>5. \A d \in Clients \ {c} : Untouched(d)
    BY <2>1, <2>2, <2>3 DEF BevInv, BevTypes, Untouched
  <2>6. cprog'[c] = "loop" /\ conn'[c] = "used" /\ tcp3'[c] = Connected
    BY <2>1, <2>2, <2>3 DEF BevInv, BevTypes
  <2>7. Young(c)'
    BY <2>6 DEF Young
  <2>8. Turns(c)'
    BY <1>1, <2>2 DEF Turns
  <2>9. Counts(c)'
    BY <1>1, <1>2, <2>2, <2>3, <2>6 DEF Counts
  <2> QED BY <2>3, <2>4, <2>5, <2>7, <2>8, <2>9, OneClient DEF ClientInv
<1>4. CASE Bev!MainConnects(c)
  <2>1. /\ conn' = [conn EXCEPT ![c] = "pending"] /\ Bev!Enter(c)
        /\ UNCHANGED <<tcp3, up, backlog3, sbev, sout, heard, tty, eof, said>>
    BY <1>4 DEF Bev!MainConnects, Bev!server, Bev!terminal
  <2>2. /\ cprog' = [cprog EXCEPT ![c] = "loop"] /\ alloc' = [alloc EXCEPT ![c] = Bev!Objects]
        /\ UNCHANGED <<active, out>>
    BY <1>1, <2>1, EnterFacts
  <2>3. BevTypes' /\ BevQueue'
    BY <2>1, <2>2 DEF BevInv, BevTypes, BevQueue
  <2>4. \A d \in Clients : Known(d)' <=> Known(d)
    BY <2>1 DEF Known
  <2>5. \A d \in Clients \ {c} : Untouched(d)
    BY <2>1, <2>2, <2>4 DEF BevInv, BevTypes, Untouched
  <2>6. cprog'[c] = "loop" /\ conn'[c] = "pending"
    BY <2>1, <2>2 DEF BevInv, BevTypes
  <2>7. Young(c)'
    BY <1>1, <2>1, <2>4, <2>6 DEF Young
  <2>8. Turns(c)'
    BY <1>1, <2>2 DEF Turns
  <2>9. Counts(c)'
    BY <1>1, <1>2, <2>1, <2>2 DEF Counts
  <2> QED BY <2>3, <2>5, <2>7, <2>8, <2>9, OneClient DEF ClientInv
<1>5. CASE Bev!MainFails(c)
  <2>1. /\ cprog' = [cprog EXCEPT ![c] = "failed"]
        /\ UNCHANGED <<conn, alloc, active, out, tcp3, up, backlog3, sbev, sout, heard, tty, eof, said>>
    BY <1>5 DEF Bev!MainFails, Bev!server, Bev!terminal
  <2>2. BevTypes' /\ BevQueue'
    BY <2>1 DEF BevInv, BevTypes, BevQueue
  <2>3. \A d \in Clients : Known(d)' <=> Known(d)
    BY <2>1 DEF Known
  <2>4. \A d \in Clients \ {c} : Untouched(d)
    BY <2>1, <2>3 DEF BevInv, BevTypes, Untouched
  <2>5. cprog'[c] = "failed"
    BY <2>1 DEF BevInv, BevTypes
  <2>6. Young(c)'
    BY <1>1, <2>1, <2>3, <2>5 DEF Young
  <2>7. Turns(c)' /\ Counts(c)'
    BY <1>1, <1>2, <2>1, <2>5 DEF Turns, Counts, Lasts
  <2> QED BY <2>2, <2>4, <2>6, <2>7, OneClient DEF ClientInv
<1> QED BY <1>3, <1>4, <1>5

\* The kernel is through with connecting.
LEMMA MadeKeeps == ASSUME BevInv, NEW c \in Clients, Bev!Made(c) PROVE BevInv'
<1>1. /\ conn[c] = "pending" /\ tcp3[c] = NoConnection /\ ~Known(c) /\ "write" \notin active[c]
      /\ cprog[c] = "loop" /\ Young(c) /\ Turns(c) /\ Counts(c)
      /\ UNCHANGED <<cprog, alloc, active, out>>
  BY ClientFacts DEF Bev!Made, Young, Turns
<1>2. CASE up
  <2>1. conn' = [conn EXCEPT ![c] = "made"] /\ Bev!Reached(c)
    BY <1>2 DEF Bev!Made
  <2>2. /\ tcp3' = [tcp3 EXCEPT ![c] = Connected] /\ Connected \in Ends
        /\ Connected["srv"].rx = 0 /\ tcp3[c]["srv"].rx = 0
        /\ UNCHANGED <<up, sbev, sout, heard, tty, eof, said>>
        /\ backlog3' \in Seq(Clients) /\ BevQueue'
        /\ \A d \in Clients \ {c} : Known(d)' => Known(d)
    BY <1>1, <2>1, ReachedFacts
  <2>3. BevTypes'
    BY <1>1, <2>1, <2>2 DEF BevInv, BevTypes
  <2>4. \A d \in Clients \ {c} : Untouched(d)
    BY <1>1, <2>1, <2>2 DEF BevInv, BevTypes, Untouched
  <2>5. conn'[c] = "made" /\ tcp3'[c] = Connected
    BY <2>1, <2>2 DEF BevInv, BevTypes
  <2>6. Young(c)' /\ Turns(c)'
    BY <1>1, <2>5 DEF Young, Turns
  <2>7. Counts(c)'
    <3>1. Lasts(c)' => Lasts(c)
      BY <1>1, <2>5 DEF Lasts
    <3> QED BY <1>1, <2>2, <2>5, <3>1 DEF Counts
  <2> QED BY <2>2, <2>3, <2>4, <2>6, <2>7, OneClient DEF ClientInv
<1>3. CASE ~up
  <2>1. /\ conn' = [conn EXCEPT ![c] = "refused"]
        /\ UNCHANGED <<tcp3, up, backlog3, sbev, sout, heard, tty, eof, said>>
    BY <1>3 DEF Bev!Made, Bev!server, Bev!terminal
  <2>2. BevTypes' /\ BevQueue'
    BY <1>1, <2>1 DEF BevInv, BevTypes, BevQueue
  <2>3. \A d \in Clients : Known(d)' <=> Known(d)
    BY <2>1 DEF Known
  <2>4. \A d \in Clients \ {c} : Untouched(d)
    BY <1>1, <2>1, <2>3 DEF BevInv, BevTypes, Untouched
  <2>5. conn'[c] = "refused"
    BY <2>1 DEF BevInv, BevTypes
  <2>6. Young(c)' /\ Turns(c)'
    BY <1>1, <2>1, <2>3, <2>5 DEF Young, Turns
  <2>7. Counts(c)'
    BY <1>1, <2>1, <2>5 DEF Counts, Lasts
  <2> QED BY <2>2, <2>4, <2>6, <2>7, OneClient DEF ClientInv
<1> QED BY <1>2, <1>3

\* A step of a client that the server and the kernel do not see.
LEMMA OwnStep ==
  ASSUME BevInv, NEW c \in Clients, BevTypes', UNCHANGED <<up, backlog3, sbev, sout, heard>>,
         \A d \in Clients \ {c} : /\ tcp3'[d] = tcp3[d] /\ cprog'[d] = cprog[d] /\ conn'[d] = conn[d]
                                  /\ alloc'[d] = alloc[d] /\ active'[d] = active[d] /\ out'[d] = out[d]
                                  /\ tty'[d] = tty[d] /\ said'[d] = said[d],
         (Known(c)' <=> Known(c)) => ClientInv(c)'
  PROVE  BevInv'
<1>1. \A d \in Clients : Known(d)' <=> Known(d)
  BY DEF Known
<1>2. \A d \in Clients \ {c} : Untouched(d)
  BY <1>1 DEF Untouched
<1>3. BevQueue'
  BY DEF BevInv, BevQueue
<1> QED BY <1>1, <1>2, <1>3, OneClient

\* libevent finds the events that are ready.
LEMMA DispatchKeeps == ASSUME BevInv, NEW c \in Clients, Bev!event_base_dispatch(c) PROVE BevInv'
<1>1. /\ alloc[c] # {} /\ active' = [active EXCEPT ![c] = Bev!Ready(c)]
      /\ UNCHANGED <<cprog, conn, alloc, out, tcp3, up, backlog3, sbev, sout, heard, tty, eof, said>>
  BY DEF Bev!event_base_dispatch, Bev!server, Bev!terminal
<1>2. Bev!Ready(c) \subseteq {"read", "write", "cmd"}
  BY DEF Bev!Ready
<1>3. "write" \in Bev!Ready(c) => \/ conn[c] \in {"made", "refused"}
                                  \/ conn[c] = "used" /\ out[c] > 0 /\ Writable(tcp3[c], "cli", Room)
  BY SameEnds DEF Bev!Ready
<1>4. BevTypes'
  BY <1>1, <1>2 DEF BevInv, BevTypes
<1>5. active'[c] = Bev!Ready(c) /\ Young(c) /\ Turns(c) /\ Counts(c)
  BY <1>1, ClientFacts DEF BevInv, BevTypes
<1>6. ASSUME Known(c)' <=> Known(c) PROVE ClientInv(c)'
  <2>1. Young(c)'
    BY <1>1, <1>5, <1>6 DEF Young
  <2>2. Turns(c)'
    BY <1>1, <1>3, <1>5 DEF Turns, Writable
  <2>3. Counts(c)'
    BY <1>1, <1>5 DEF Counts, Lasts
  <2> QED BY <2>1, <2>2, <2>3 DEF ClientInv
<1>7. \A d \in Clients \ {c} : active'[d] = active[d]
  BY <1>1 DEF BevInv, BevTypes
<1> QED BY <1>1, <1>4, <1>6, <1>7, OwnStep

\* A line goes from the terminal to the output of the bufferevent.
LEMMA CmdKeeps == ASSUME BevInv, NEW c \in Clients, Bev!cmd_msg_cb(c) PROVE BevInv'
<1> DEFINE y == IF tty[c] > 0 THEN tty[c] - 1 ELSE tty[c]
           o == IF tty[c] > 0 THEN out[c] + 1 ELSE out[c]
           v == active[c] \ {"cmd"}
<1>1. /\ active' = [active EXCEPT ![c] = v] /\ cprog[c] = "loop" /\ active[c] # {}
      /\ UNCHANGED <<cprog, conn, alloc, eof, said, tcp3, up, backlog3, sbev, sout, heard>>
  BY DEF Bev!cmd_msg_cb, Bev!Called, Bev!server
<1>2. tty' = [tty EXCEPT ![c] = y] /\ out' = [out EXCEPT ![c] = o]
  BY DEF Bev!cmd_msg_cb, BevInv, BevTypes
<1>3. /\ tty[c] \in Nat /\ out[c] \in Nat /\ said[c] \in Nat /\ heard[c] \in Nat /\ tcp3[c]["srv"].rx \in Nat
      /\ Young(c) /\ Turns(c) /\ Counts(c) /\ active[c] \subseteq {"read", "write", "cmd"}
  BY ClientFacts
<1>4. y \in Nat /\ o \in Nat /\ y + o = tty[c] + out[c] /\ o >= out[c] /\ v \subseteq {"read", "write", "cmd"}
      /\ v \subseteq active[c]
  BY <1>3
<1> HIDE DEF y, o, v
<1>5. BevTypes'
  BY <1>1, <1>2, <1>4 DEF BevInv, BevTypes
<1>6. active'[c] = v /\ tty'[c] = y /\ out'[c] = o
  BY <1>1, <1>2 DEF BevInv, BevTypes
<1>7. ASSUME Known(c)' <=> Known(c) PROVE ClientInv(c)'
  <2>1. Young(c)'
    BY <1>1, <1>3, <1>7 DEF Young
  <2>2. Turns(c)'
    <3>1. alloc[c] # {}
      BY <1>1, <1>3 DEF Turns
    <3>2. "write" \in v => "write" \in active[c]
      BY <1>4
    <3> QED BY <1>1, <1>3, <1>4, <1>6, <3>1, <3>2 DEF Turns, Writable
  <2>3. Counts(c)'
    BY <1>1, <1>3, <1>4, <1>6 DEF Counts, Lasts
  <2> QED BY <2>1, <2>2, <2>3 DEF ClientInv
<1>8. \A d \in Clients \ {c} : active'[d] = active[d] /\ tty'[d] = tty[d] /\ out'[d] = out[d]
  BY <1>1, <1>2 DEF BevInv, BevTypes
<1> QED BY <1>1, <1>5, <1>7, <1>8, OwnStep

\* The client reads what the server has sent.
LEMMA ClientReadsKeeps == ASSUME BevInv, NEW c \in Clients, Bev!server_msg_cb(c) PROVE BevInv'
<1> DEFINE t == tcp3[c]
           h == Emptied(t, "cli")
           v == active[c] \ {"read"}
<1>1. /\ active' = [active EXCEPT ![c] = v]
      /\ UNCHANGED <<cprog, conn, alloc, out, up, backlog3, sbev, sout, heard, tty, eof, said>>
  BY DEF Bev!server_msg_cb, Bev!server, Bev!terminal
<1>2. tcp3' = [tcp3 EXCEPT ![c] = h]
  BY Zenon DEF Bev!server_msg_cb, Emptied
<1>3. t \in Ends /\ Young(c) /\ Turns(c) /\ Counts(c) /\ active[c] \subseteq {"read", "write", "cmd"}
      /\ cprog[c] = "loop" /\ "read" \in active[c]
  BY ClientFacts DEF Bev!server_msg_cb, Bev!Called
<1>4. h \in Ends /\ h["cli"].st = t["cli"].st /\ h["srv"] = t["srv"]
  BY <1>3, EmptiedFacts, OtherFacts
<1> HIDE DEF h
<1>5. BevTypes'
  BY <1>1, <1>2, <1>3, <1>4 DEF BevInv, BevTypes
<1>6. active'[c] = v /\ tcp3'[c] = h
  BY <1>1, <1>2 DEF BevInv, BevTypes
<1>7. conn[c] # "pending"
  <2>1. t.cli = t["cli"] /\ t.cli.rx > 0
    BY ClientFacts DEF Bev!server_msg_cb
  <2>2. NoConnection["cli"].rx = 0
    BY OtherFacts, NoEndFacts DEF NoConnection
  <2> QED BY <1>3, <2>1, <2>2 DEF Young
<1>8. ASSUME Known(c)' <=> Known(c) PROVE ClientInv(c)'
  <2>1. Young(c)'
    BY <1>1, <1>3, <1>7, <1>8 DEF Young
  <2>2. Turns(c)'
    BY <1>1, <1>3, <1>4, <1>6, OtherFacts DEF Turns, Writable
  <2>3. Counts(c)'
    BY <1>1, <1>3, <1>4, <1>6 DEF Counts, Lasts
  <2> QED BY <2>1, <2>2, <2>3 DEF ClientInv
<1>9. \A d \in Clients \ {c} : active'[d] = active[d] /\ tcp3'[d] = tcp3[d]
  BY <1>1, <1>2 DEF BevInv, BevTypes
<1> QED BY <1>1, <1>5, <1>8, <1>9, OwnStep

\* The end of the client is closed, if it has one: the server is told.
LEMMA ClientClosedFacts ==
  ASSUME BevInv, NEW c \in Clients
  PROVE  LET h == Closed(tcp3[c], "cli")
         IN  /\ h \in Ends /\ h["srv"].rx = tcp3[c]["srv"].rx
             /\ h["cli"].st # "open"
  BY ClientFacts, ClosedFacts, OtherFacts, NoEndFacts

\* A client without objects has no events, and nothing is kept for it.
LEMMA EmptyHandedKeeps ==
  ASSUME BevInv, NEW c \in Clients, NEW h \in Ends, h["srv"].rx = tcp3[c]["srv"].rx,
         tcp3' = [tcp3 EXCEPT ![c] = h], h = tcp3[c] \/ conn[c] \in {"made", "used"},
         NEW p \in {"loop", "finished", "killed", "stopped"}, cprog' = [cprog EXCEPT ![c] = p], cprog[c] = "loop",
         NEW k \in {conn[c], "none"}, conn' = [conn EXCEPT ![c] = k], k = conn[c] \/ p # "loop",
         alloc' = [alloc EXCEPT ![c] = {}], active' = [active EXCEPT ![c] = {}],
         NEW o \in Nat, o <= out[c], out' = [out EXCEPT ![c] = o],
         UNCHANGED <<up, backlog3, sbev, sout, heard, tty, eof, said>>
  PROVE  BevInv'
<1>1. /\ tty[c] \in Nat /\ out[c] \in Nat /\ said[c] \in Nat /\ heard[c] \in Nat /\ tcp3[c]["srv"].rx \in Nat
      /\ Young(c) /\ Turns(c) /\ Counts(c)
      /\ conn[c] \in {"none", "pending", "made", "refused", "used"}
  BY ClientFacts DEF BevInv, BevTypes
<1>2. k \in {"none", "pending", "made", "refused", "used"}
      /\ p \in {"out", "loop", "failed", "finished", "killed", "stopped"}
  BY <1>1
<1>3. BevTypes'
  BY <1>2 DEF BevInv, BevTypes
<1>4. /\ tcp3'[c] = h /\ cprog'[c] = p /\ conn'[c] = k /\ alloc'[c] = {} /\ active'[c] = {} /\ out'[c] = o
  BY DEF BevInv, BevTypes
<1>5. ASSUME Known(c)' <=> Known(c) PROVE ClientInv(c)'
  <2>1. Young(c)'
    BY <1>1, <1>4, <1>5 DEF Young
  <2>2. Turns(c)'
    BY <1>4 DEF Turns
  <2>3. Counts(c)'
    BY <1>1, <1>4 DEF Counts, Lasts
  <2> QED BY <2>1, <2>2, <2>3 DEF ClientInv
<1>6. \A d \in Clients \ {c} : /\ tcp3'[d] = tcp3[d] /\ cprog'[d] = cprog[d] /\ conn'[d] = conn[d]
                               /\ alloc'[d] = alloc[d] /\ active'[d] = active[d] /\ out'[d] = out[d]
  BY DEF BevInv, BevTypes
<1> QED BY <1>3, <1>5, <1>6, OwnStep

\* event_cb frees both objects.
LEMMA FailsKeeps == ASSUME BevInv, NEW c \in Clients, Bev!Fails(c) PROVE BevInv'
<1> DEFINE h == IF conn[c] = "used" THEN Closed(tcp3[c], "cli") ELSE tcp3[c]
<1>1. /\ cprog[c] = "loop" /\ alloc' = [alloc EXCEPT ![c] = {}] /\ active' = [active EXCEPT ![c] = {}]
      /\ out' = [out EXCEPT ![c] = 0] /\ tcp3' = [tcp3 EXCEPT ![c] = h]
      /\ UNCHANGED <<cprog, conn, up, backlog3, sbev, sout, heard, tty, eof, said>>
  BY SameEnds DEF Bev!Fails, Bev!event_cb, Bev!Called, Bev!server, Bev!terminal
<1>2. h \in Ends /\ h["srv"].rx = tcp3[c]["srv"].rx /\ (h = tcp3[c] \/ conn[c] \in {"made", "used"})
  BY ClientFacts, ClientClosedFacts
<1>3. /\ cprog' = [cprog EXCEPT ![c] = "loop"] /\ conn' = [conn EXCEPT ![c] = conn[c]]
  BY <1>1 DEF BevInv, BevTypes
<1>4. 0 <= out[c]
  BY ClientFacts
<1> HIDE DEF h
<1> QED BY <1>1, <1>2, <1>3, <1>4, EmptyHandedKeeps

\* The client is killed or stopped.
LEMMA ClientEndsKeeps ==
  ASSUME BevInv, NEW c \in Clients, NEW how \in {"killed", "stopped"}, Bev!Ends(c, how)
  PROVE  BevInv'
<1> DEFINE h == IF conn[c] \in {"made", "used"} /\ alloc[c] # {} THEN Closed(tcp3[c], "cli") ELSE tcp3[c]
<1>1. /\ cprog[c] = "loop" /\ alloc' = [alloc EXCEPT ![c] = {}] /\ active' = [active EXCEPT ![c] = {}]
      /\ out' = [out EXCEPT ![c] = 0] /\ tcp3' = [tcp3 EXCEPT ![c] = h]
      /\ cprog' = [cprog EXCEPT ![c] = how] /\ conn' = [conn EXCEPT ![c] = "none"]
      /\ UNCHANGED <<up, backlog3, sbev, sout, heard, tty, eof, said>>
  BY SameEnds DEF Bev!Ends, Bev!server, Bev!terminal
<1>2. h \in Ends /\ h["srv"].rx = tcp3[c]["srv"].rx /\ (h = tcp3[c] \/ conn[c] \in {"made", "used"})
  BY ClientFacts, ClientClosedFacts
<1>3. 0 <= out[c]
  BY ClientFacts
<1> HIDE DEF h
<1> QED BY <1>1, <1>2, <1>3, EmptyHandedKeeps

\* event_base_dispatch returns when no event is left.
LEMMA FinishedKeeps == ASSUME BevInv, NEW c \in Clients, Bev!Finished(c) PROVE BevInv'
<1>1. /\ cprog[c] = "loop" /\ alloc[c] = {} /\ cprog' = [cprog EXCEPT ![c] = "finished"]
      /\ UNCHANGED <<conn, alloc, active, out, tcp3, up, backlog3, sbev, sout, heard, tty, eof, said>>
  BY DEF Bev!Finished, Bev!server, Bev!terminal
<1>2. active[c] = {} /\ tcp3[c] \in Ends /\ out[c] \in Nat
  BY <1>1, ClientFacts DEF Turns
<1>3. /\ alloc' = [alloc EXCEPT ![c] = {}] /\ active' = [active EXCEPT ![c] = {}]
      /\ out' = [out EXCEPT ![c] = out[c]] /\ tcp3' = [tcp3 EXCEPT ![c] = tcp3[c]]
      /\ conn' = [conn EXCEPT ![c] = conn[c]]
  BY <1>1, <1>2 DEF BevInv, BevTypes
<1>4. out[c] <= out[c]
  BY <1>2
<1> QED BY <1>1, <1>2, <1>3, <1>4, EmptyHandedKeeps

\* event_cb is told that the connection is made.
LEMMA HasConnectedKeeps == ASSUME BevInv, NEW c \in Clients, Bev!HasConnected(c) PROVE BevInv'
<1> DEFINE v == active[c] \ {"write"}
<1>1. /\ conn[c] = "made" /\ conn' = [conn EXCEPT ![c] = "used"] /\ active' = [active EXCEPT ![c] = v]
      /\ cprog[c] = "loop" /\ active[c] # {}
      /\ UNCHANGED <<cprog, alloc, out, tcp3, up, backlog3, sbev, sout, heard, tty, eof, said>>
  BY DEF Bev!HasConnected, Bev!Called, Bev!server, Bev!terminal
<1>2. Young(c) /\ Turns(c) /\ Counts(c) /\ v \subseteq {"read", "write", "cmd"}
  BY ClientFacts
<1>3. BevTypes'
  BY <1>1, <1>2 DEF BevInv, BevTypes
<1>4. active'[c] = v /\ conn'[c] = "used"
  BY <1>1 DEF BevInv, BevTypes
<1>5. ASSUME Known(c)' <=> Known(c) PROVE ClientInv(c)'
  <2>1. Young(c)'
    BY <1>1, <1>2, <1>4 DEF Young
  <2>2. Turns(c)'
    BY <1>1, <1>2, <1>4 DEF Turns
  <2>3. Counts(c)'
    BY <1>1, <1>2, <1>4 DEF Counts, Lasts
  <2> QED BY <2>1, <2>2, <2>3 DEF ClientInv
<1>6. \A d \in Clients \ {c} : active'[d] = active[d] /\ conn'[d] = conn[d]
  BY <1>1 DEF BevInv, BevTypes
<1> QED BY <1>1, <1>3, <1>5, <1>6, OwnStep

\* A line leaves the output: it found room when the turn began, and still does.
LEMMA ClientWritesKeeps == ASSUME BevInv, NEW c \in Clients, Bev!ClientWrites(c) PROVE BevInv'
<1> DEFINE t == tcp3[c]
           h == Sent(t, "cli")
           v == active[c] \ {"write"}
<1>1. /\ conn[c] = "used" /\ "write" \in active[c] /\ cprog[c] = "loop"
      /\ tcp3' = [tcp3 EXCEPT ![c] = h] /\ out' = [out EXCEPT ![c] = out[c] - 1]
      /\ active' = [active EXCEPT ![c] = v]
      /\ UNCHANGED <<cprog, conn, alloc, up, backlog3, sbev, sout, heard, tty, eof, said>>
  BY SameEnds DEF Bev!ClientWrites, Bev!Called, Bev!server, Bev!terminal
<1>2. /\ t \in Ends /\ tty[c] \in Nat /\ out[c] \in Nat /\ said[c] \in Nat /\ heard[c] \in Nat
      /\ t["srv"].rx \in Nat /\ Young(c) /\ Turns(c) /\ Counts(c) /\ v \subseteq {"read", "write", "cmd"}
  BY ClientFacts
<1>3. out[c] > 0 /\ (t["cli"].st = "open" => t["srv"].rx < Room)
  BY <1>1, <1>2, OtherFacts DEF Turns, Writable
<1>4. /\ h \in Ends /\ h["srv"].st = t["srv"].st
      /\ t["cli"].st # "open" => h["srv"].rx = t["srv"].rx /\ h["cli"].st # "open"
      /\ t["cli"].st = "open" => h["srv"].rx = t["srv"].rx + 1
  <2>1. /\ h \in Ends /\ h["srv"].st = t["srv"].st
        /\ t["cli"].st # "open" => h["srv"].rx = t["srv"].rx
        /\ h["cli"].st = IF t["cli"].st = "fin" THEN "prov" ELSE IF t["cli"].st = "rst" THEN "pipe" ELSE t["cli"].st
    BY <1>2, <1>3, SentFacts, OtherFacts
  <2>2. t["cli"].st = "open" => h["srv"].rx = t["srv"].rx + 1
    BY <1>2, <1>3, SentFacts, OtherFacts
  <2> QED BY <2>1, <2>2
<1> HIDE DEF h
<1>5. BevTypes'
  <2>1. out[c] - 1 \in Nat
    BY <1>2, <1>3
  <2> QED BY <1>1, <1>2, <1>4, <2>1 DEF BevInv, BevTypes
<1>6. active'[c] = v /\ out'[c] = out[c] - 1 /\ tcp3'[c] = h
  BY <1>1 DEF BevInv, BevTypes
<1>7. ASSUME Known(c)' <=> Known(c) PROVE ClientInv(c)'
  <2>1. Young(c)'
    BY <1>1, <1>2 DEF Young
  <2>2. Turns(c)'
    BY <1>1, <1>2, <1>6 DEF Turns
  <2>3. Counts(c)'
    <3>1. Lasts(c)' => Lasts(c) /\ t["cli"].st = "open"
      BY <1>1, <1>4, <1>6 DEF Lasts
    <3> QED BY <1>1, <1>2, <1>3, <1>4, <1>6, <3>1 DEF Counts
  <2> QED BY <2>1, <2>2, <2>3 DEF ClientInv
<1>8. \A d \in Clients \ {c} : active'[d] = active[d] /\ out'[d] = out[d] /\ tcp3'[d] = tcp3[d]
  BY <1>1 DEF BevInv, BevTypes
<1> QED BY <1>1, <1>5, <1>7, <1>8, OwnStep

\* A line is typed, or the terminal is at its end.
LEMMA TypesKeeps == ASSUME BevInv, NEW c \in Clients, Bev!Types(c) \/ Bev!TypesEof(c) PROVE BevInv'
<1>1. /\ cprog[c] = "loop" /\ tty[c] \in Nat /\ out[c] \in Nat /\ said[c] \in Nat /\ heard[c] \in Nat
      /\ tcp3[c]["srv"].rx \in Nat /\ Young(c) /\ Turns(c) /\ Counts(c) /\ Lines \in Nat
      /\ UNCHANGED <<cprog, conn, alloc, active, out, tcp3, up, backlog3, sbev, sout, heard>>
  BY ClientFacts, LargerServersAssumption DEF Bev!Types, Bev!TypesEof, Bev!client, Bev!server, Bev!LibeventAssumption
<1>2. CASE Bev!Types(c)
  <2>1. /\ said[c] < Lines /\ tty' = [tty EXCEPT ![c] = tty[c] + 1] /\ said' = [said EXCEPT ![c] = said[c] + 1]
        /\ eof' = eof
    BY <1>2 DEF Bev!Types
  <2>2. BevTypes'
    <3>1. tty' \in [Clients -> Nat] /\ said' \in [Clients -> Nat]
      BY <1>1, <2>1 DEF BevInv, BevTypes
    <3> QED BY <1>1, <2>1, <3>1 DEF BevInv, BevTypes
  <2>3. tty'[c] = tty[c] + 1 /\ said'[c] = said[c] + 1
    BY <2>1 DEF BevInv, BevTypes
  <2>4. ASSUME Known(c)' <=> Known(c) PROVE ClientInv(c)'
    <3>1. Young(c)' /\ Turns(c)'
      BY <1>1, <2>4 DEF Young, Turns, Writable
    <3>2. Counts(c)'
      BY <1>1, <2>1, <2>3 DEF Counts, Lasts
    <3> QED BY <3>1, <3>2 DEF ClientInv
  <2>5. \A d \in Clients \ {c} : tty'[d] = tty[d] /\ said'[d] = said[d]
    BY <2>1 DEF BevInv, BevTypes
  <2> QED BY <1>1, <2>2, <2>4, <2>5, OwnStep
<1>3. CASE Bev!TypesEof(c)
  <2>1. eof' = [eof EXCEPT ![c] = TRUE] /\ tty' = tty /\ said' = said
    BY <1>3 DEF Bev!TypesEof
  <2>2. BevTypes'
    BY <1>1, <2>1 DEF BevInv, BevTypes
  <2>3. ASSUME Known(c)' <=> Known(c) PROVE ClientInv(c)'
    <3>1. Young(c)' /\ Turns(c)'
      BY <1>1, <2>1, <2>3 DEF Young, Turns, Writable
    <3>2. Counts(c)'
      BY <1>1, <2>1 DEF Counts, Lasts
    <3> QED BY <3>1, <3>2 DEF ClientInv
  <2> QED BY <1>1, <2>1, <2>2, <2>3, OwnStep
<1> QED BY <1>2, <1>3

\* A reset that was provoked arrives at one of the ends.
LEMMA BevResetKeeps == ASSUME BevInv, NEW c \in Clients, Bev!ResetArrives(c) PROVE BevInv'
<1> DEFINE t == tcp3[c]
<1>1. UNCHANGED <<cprog, conn, alloc, active, out, up, backlog3, sbev, sout, heard, tty, eof, said>>
  BY DEF Bev!ResetArrives, Bev!client, Bev!server, Bev!terminal
<1>2. PICK side \in Sides : t[side].st = "prov" /\ tcp3' = [tcp3 EXCEPT ![c] = ResetAt(t, side)]
  BY SameEnds DEF Bev!ResetArrives
<1> DEFINE h == ResetAt(t, side)
<1>3. t \in Ends /\ Young(c) /\ Turns(c) /\ Counts(c)
  BY ClientFacts
<1>4. /\ h \in Ends /\ h["srv"].rx = t["srv"].rx /\ t # NoConnection
      /\ h["cli"].st = "open" => t["cli"].st = "open"
      /\ ~(h["cli"].st = "open" /\ h["srv"].st = "open")
      /\ h["cli"].st = t["cli"].st \/ h["cli"].st = "pipe"
  <2>1. /\ h \in Ends /\ h[side].st = "pipe" /\ h[side].rx = t[side].rx /\ h[Other(side)] = t[Other(side)]
    BY <1>3, ResetFacts
  <2>2. t # NoConnection
    BY <1>2, OtherFacts, NoEndFacts DEF NoConnection
  <2>3. side \in {"srv", "cli"}
    BY DEF Sides
  <2> QED BY <2>1, <2>2, <2>3, OtherFacts
<1>5. tcp3' = [tcp3 EXCEPT ![c] = h]
  BY <1>2
<1> HIDE DEF h
<1>6. BevTypes'
  BY <1>1, <1>4, <1>5 DEF BevInv, BevTypes
<1>7. tcp3'[c] = h
  BY <1>5 DEF BevInv, BevTypes
<1>8. ASSUME Known(c)' <=> Known(c) PROVE ClientInv(c)'
  <2>1. Young(c)'
    BY <1>1, <1>3, <1>4, <1>7, <1>8 DEF Young
  <2>2. Turns(c)'
    BY <1>1, <1>3, <1>4, <1>7, OtherFacts DEF Turns, Writable
  <2>3. Counts(c)'
    <3>1. Lasts(c)' => Lasts(c)
      BY <1>1, <1>4, <1>7 DEF Lasts
    <3> QED BY <1>1, <1>3, <1>4, <1>7, <3>1 DEF Counts
  <2> QED BY <2>1, <2>2, <2>3 DEF ClientInv
<1>9. \A d \in Clients \ {c} : tcp3'[d] = tcp3[d]
  BY <1>5 DEF BevInv, BevTypes
<1> QED BY <1>1, <1>6, <1>8, <1>9, OwnStep

\* Every step of Libevent keeps the invariant.
LEMMA BevStep == BevInv /\ [Bev!Next]_(Bev!vars) => BevInv'
<1> SUFFICES ASSUME BevInv, [Bev!Next]_(Bev!vars) PROVE BevInv'
  OBVIOUS
<1>1. CASE Bev!accept_cb \/ Bev!ServerEnds
  BY <1>1, AcceptCbKeeps, ServerEndsKeeps
<1>2. ASSUME NEW c \in Clients, Bev!socket_event_cb(c) PROVE BevInv'
  BY <1>2, DropKeeps DEF Bev!socket_event_cb, Bev!client, Bev!terminal
<1>3. ASSUME NEW c \in Clients, Bev!ServerRuns(c) PROVE BevInv'
  BY <1>2, <1>3, ServerReadsKeeps, ServerWritesKeeps DEF Bev!ServerRuns
<1>4. ASSUME NEW c \in Clients, Bev!ClientRuns(c) PROVE BevInv'
  BY <1>4, DispatchKeeps, CmdKeeps, ClientReadsKeeps, FailsKeeps, HasConnectedKeeps, ClientWritesKeeps,
     FinishedKeeps, ClientEndsKeeps DEF Bev!ClientRuns
<1>5. CASE UNCHANGED Bev!vars
  <2>1. UNCHANGED <<up, backlog3, sbev, sout, heard, tcp3, cprog, conn, alloc, active, out, tty, eof, said>>
    BY <1>5 DEF Bev!vars, Bev!server, Bev!client, Bev!terminal
  <2>2. BevTypes' /\ BevQueue' /\ \A d \in Clients : Known(d)' <=> Known(d)
    BY <2>1 DEF BevInv, BevTypes, BevQueue, Known
  <2>3. \A d \in Clients : Untouched(d)
    BY <2>1, <2>2 DEF Untouched
  <2> QED BY <2>2, <2>3, UntouchedKeeps DEF BevInv
<1>6. ASSUME NEW c \in Clients,
             \/ Bev!MainConnected(c) \/ Bev!MainFails(c) \/ Bev!MainConnects(c) \/ Bev!Made(c)
             \/ Bev!Ends(c, "stopped") \/ Bev!Types(c) \/ Bev!TypesEof(c) \/ Bev!ResetArrives(c)
      PROVE  BevInv'
  BY <1>6, MainKeeps, MadeKeeps, ClientEndsKeeps, TypesKeeps, BevResetKeeps
<1> QED BY <1>1, <1>3, <1>4, <1>5, <1>6 DEF Bev!Next

\* Libevent starts with clients that have done nothing.
LEMMA BevStart == Bev!Init => BevInv
<1> SUFFICES ASSUME Bev!Init PROVE BevInv
  OBVIOUS
<1>1. /\ up = TRUE /\ backlog3 = <<>> /\ sbev = {} /\ sout = [c \in Clients |-> 0] /\ heard = [c \in Clients |-> 0]
      /\ tcp3 = [c \in Clients |-> NoConnection] /\ cprog = [c \in Clients |-> "out"]
      /\ conn = [c \in Clients |-> "none"] /\ alloc = [c \in Clients |-> {}]
      /\ active = [c \in Clients |-> {}] /\ out = [c \in Clients |-> 0] /\ tty = [c \in Clients |-> 0]
      /\ eof = [c \in Clients |-> FALSE] /\ said = [c \in Clients |-> 0]
  BY SameEnds DEF Bev!Init, Bev!By
<1>2. NoConnection \in Ends /\ NoConnection["srv"].rx = 0
  BY FreshFacts, OtherFacts, NoEndFacts DEF NoConnection
<1>3. BevTypes
  <2>1. backlog3 \in Seq(Clients) /\ tcp3 \in [Clients -> Ends] /\ active \in [Clients -> SUBSET {"read", "write", "cmd"}]
    BY <1>1, <1>2
  <2> QED BY <1>1, <2>1 DEF BevTypes
<1>4. BevQueue
  BY <1>1 DEF BevQueue
<1>5. ASSUME NEW c \in Clients PROVE ClientInv(c)
  <2>1. ~Known(c)
    BY <1>1 DEF Known
  <2>2. Young(c) /\ Turns(c)
    BY <1>1, <2>1 DEF Young, Turns
  <2>3. Counts(c)
    BY <1>1, <1>2, LargerServersAssumption DEF Counts, Lasts, Bev!LibeventAssumption
  <2> QED BY <2>2, <2>3 DEF ClientInv
<1> QED BY <1>3, <1>4, <1>5 DEF BevInv

\* For every number of clients and of lines: although the terminal and the socket may
\* be ready in the same turn, and each callback holds the other's object, no callback
\* of the libevent clients is called with an object that event_cb has freed; while a
\* connection lasts every line is in one place, and the server never has more than was
\* typed.
THEOREM CallbacksSound == Bev!Spec => []CallbacksAreSound
<1>1. BevInv => CallbacksAreSound
  <2> SUFFICES ASSUME BevInv PROVE CallbacksAreSound
    OBVIOUS
  <2>1. Lines \in Nat
    BY LargerServersAssumption DEF Bev!LibeventAssumption
  <2>2. ASSUME NEW c \in Clients
        PROVE  /\ sout[c] \in 0 .. Lines /\ heard[c] \in 0 .. Lines /\ out[c] \in 0 .. Lines
               /\ tty[c] \in 0 .. Lines /\ said[c] \in 0 .. Lines
    BY <2>1, ClientFacts DEF Counts
  <2>3. sout \in [Clients -> 0 .. Lines] /\ heard \in [Clients -> 0 .. Lines]
    BY <2>2 DEF BevInv, BevTypes
  <2>4. {out[c] : c \in Clients} \cup {tty[c] : c \in Clients} \cup {said[c] : c \in Clients} \subseteq 0 .. Lines
    BY <2>2
  <2>5. Bev!Range(backlog3) \subseteq Clients \ sbev
    BY DEF BevInv, BevTypes, BevQueue, Bev!Range
  <2>6. tcp3 \in [Clients -> [Bev!Sides -> Bev!End(Room)]]
    BY SameEnds DEF BevInv, BevTypes, Ends
  <2>7. alloc \in [Clients -> SUBSET Bev!Objects]
    BY DEF BevInv, BevTypes
  <2>8. Bev!TypeOK
    BY <2>3, <2>4, <2>5, <2>6, <2>7 DEF Bev!TypeOK, BevInv, BevTypes
  <2>9. Bev!NothingFreedIsUsed
    BY ClientFacts DEF Bev!NothingFreedIsUsed, Turns
  <2>10. Bev!LinesAreKept
    BY ClientFacts DEF Bev!LinesAreKept, Counts, Lasts
  <2> QED BY <2>8, <2>9, <2>10 DEF CallbacksAreSound
<1> QED BY <1>1, BevStart, BevStep, PTL DEF Bev!Spec
==============================================================================
