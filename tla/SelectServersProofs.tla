------------------------ MODULE SelectServersProofs ------------------------
(***************************************************************************)
(* Proofs about MySocketServer and SelectServer, for every number of slots *)
(* and clients and, in SelectServer, every room in a socket.               *)
(*                                                                         *)
(* MySocketIsSound is not inductive: MyInv adds that what select found     *)
(* readable and is still to be read is in the table (LoopInv), that every  *)
(* connection is in one slot or once in the backlog in the middle of a     *)
(* pass as well (PlaceInv), and what the two ends of a connection can be   *)
(* while the client has one question under way (OneAtATime).               *)
(*                                                                         *)
(* SelectWatchesAll needs the same of descriptors (Watched, PeersInv), the *)
(* count of what is ahead when accept is still to come (PassInv), which a  *)
(* bijection from slots to descriptors gives, and that a descriptor is     *)
(* free for a client that waits (the pigeonhole principle).  QuietInv      *)
(* follows a client that left quietly through the pass that finds it.      *)
(***************************************************************************)
EXTENDS MCSelectServers, FiniteSetTheorems, WellFoundedInduction, TLAPS

\* Connections whose ends hold up to room messages.
EndsOf(room) == [Sides -> End(room)]

----------------------------------------------------------------------------
(* Least elements, and what the operators of TcpEnds make of a connection *)

\* A set of numbers has a least element.
LEMMA LeastFacts ==
  ASSUME NEW S, S \subseteq Nat, S # {}
  PROVE  Min(S) \in S /\ \A y \in S : Min(S) <= y
<1> DEFINE R == OpToRel(<, Nat)
<1>1. IsWellFoundedOn(R, Nat)
  BY NatLessThanWellFounded
<1>2. \A x, y \in Nat : x < y => <<x, y>> \in R
  BY DEF OpToRel
<1> HIDE DEF R
<1>3. PICK x \in S : \A y \in S : ~ (<<y, x>> \in R)
  BY <1>1, WFMin
<1>4. \A y \in S : x <= y
  <2> SUFFICES ASSUME NEW y \in S PROVE x <= y
    OBVIOUS
  <2>1. x \in Nat /\ y \in Nat /\ ~(y < x)
    BY <1>2, <1>3
  <2> QED BY <2>1
<1> QED BY <1>4, Zenon DEF Min

\* The two sides of a connection.
LEMMA OtherFacts == /\ "srv" \in Sides /\ "cli" \in Sides
                    /\ Other("srv") = "cli" /\ Other("cli") = "srv"
                    /\ \A side \in Sides : Other(side) \in Sides /\ Other(side) # side
  BY DEF Other, Sides

\* The ends of a connection.
LEMMA SideFacts ==
  ASSUME NEW room \in Nat, NEW t \in EndsOf(room)
  PROVE  /\ \A side \in Sides : t[side] \in End(room)
         /\ t["srv"] \in End(room) /\ t["srv"].rx \in 0 .. room /\ t["srv"].rx \in Nat
         /\ t["cli"] \in End(room) /\ t["cli"].rx \in 0 .. room /\ t["cli"].rx \in Nat
         /\ t.srv = t["srv"] /\ t.cli = t["cli"]
<1>1. \A side \in Sides : t[side] \in End(room)
  BY DEF EndsOf
<1>2. t["srv"] \in End(room) /\ t["cli"] \in End(room)
  BY <1>1, OtherFacts
<1>3. t.srv = t["srv"] /\ t.cli = t["cli"]
  BY DEF EndsOf, Sides
<1> QED BY <1>1, <1>2, <1>3 DEF End

\* A connection that is not there, and a fresh one.
LEMMA FreshFacts ==
  ASSUME NEW room \in Nat
  PROVE  /\ NoEnd \in End(room) /\ NoEnd.rx = 0 /\ NoEnd.st = "closed"
         /\ Connected \in EndsOf(room) /\ NoConnection \in EndsOf(room)
         /\ NoConnection["srv"] = NoEnd /\ NoConnection["cli"] = NoEnd
         /\ Connected["srv"].st = "open" /\ Connected["cli"].st = "open"
         /\ Connected["srv"].rx = 0 /\ Connected["cli"].rx = 0
<1>1. [rx |-> 0, st |-> "open"] \in End(room) /\ NoEnd \in End(room)
  BY DEF End, NoEnd
<1>2. NoEnd.rx = 0 /\ NoEnd.st = "closed"
  BY DEF NoEnd
<1> QED BY <1>1, <1>2, OtherFacts DEF Connected, NoConnection, EndsOf

\* recv takes one message.
LEMMA ReceivedFacts ==
  ASSUME NEW room \in Nat, NEW t \in EndsOf(room), NEW side \in Sides, t[side].rx > 0
  PROVE  /\ Received(t, side) \in EndsOf(room)
         /\ Received(t, side)[side].rx = t[side].rx - 1
         /\ Received(t, side)[side].st = t[side].st
         /\ Received(t, side)[Other(side)] = t[Other(side)]
<1> DEFINE e == [t[side] EXCEPT !.rx = t[side].rx - 1]
<1>1. Received(t, side) = [t EXCEPT ![side] = e]
  BY Zenon DEF Received
<1>2. t[side] \in End(room)
  BY SideFacts
<1>3. e \in End(room) /\ e.rx = t[side].rx - 1 /\ e.st = t[side].st
  BY <1>2 DEF End
<1> HIDE DEF e
<1> QED BY <1>1, <1>3, OtherFacts DEF EndsOf

\* send adds a message to the other end, or moves this end on.
LEMMA SentFacts ==
  ASSUME NEW room \in Nat, NEW t \in EndsOf(room), NEW side \in Sides,
         t[side].st = "open" => t[Other(side)].rx < room
  PROVE  /\ Sent(t, side) \in EndsOf(room)
         /\ Sent(t, side)[side].rx = t[side].rx
         /\ Sent(t, side)[side].st = IF t[side].st = "fin" THEN "prov"
                                     ELSE IF t[side].st = "rst" THEN "pipe" ELSE t[side].st
         /\ Sent(t, side)[Other(side)].st = t[Other(side)].st
         /\ Sent(t, side)[Other(side)].rx = IF t[side].st = "open" THEN t[Other(side)].rx + 1
                                            ELSE t[Other(side)].rx
<1> DEFINE o == Other(side)
<1>1. t[side] \in End(room) /\ t[o] \in End(room) /\ o \in Sides /\ o # side
  BY SideFacts, OtherFacts
<1>2. CASE t[side].st = "open"
  <2> DEFINE e == [t[o] EXCEPT !.rx = t[o].rx + 1]
  <2>1. Sent(t, side) = [t EXCEPT ![o] = e]
    BY <1>2, Zenon DEF Sent
  <2>2. e \in End(room) /\ e.st = t[o].st /\ e.rx = t[o].rx + 1
    BY <1>1, <1>2 DEF End
  <2> HIDE DEF e
  <2> QED BY <1>1, <1>2, <2>1, <2>2 DEF EndsOf
<1>3. CASE t[side].st \in {"fin", "rst"}
  <2> DEFINE s == IF t[side].st = "fin" THEN "prov" ELSE "pipe"
             e == [t[side] EXCEPT !.st = s]
  <2>1. Sent(t, side) = [t EXCEPT ![side] = e]
    <3>1. CASE t[side].st = "fin"
      BY <3>1, Zenon DEF Sent
    <3>2. CASE t[side].st = "rst"
      BY <3>2, Zenon DEF Sent
    <3> QED BY <1>3, <3>1, <3>2
  <2>2. e \in End(room) /\ e.st = s /\ e.rx = t[side].rx
    BY <1>1 DEF End
  <2> HIDE DEF e
  <2> QED BY <1>1, <1>3, <2>1, <2>2 DEF EndsOf
<1>4. CASE t[side].st \notin {"open", "fin", "rst"}
  <2>1. Sent(t, side) = t
    BY <1>4, Zenon DEF Sent
  <2> QED BY <1>4, <2>1
<1> QED BY <1>2, <1>3, <1>4

\* close ends this side, and the peer is told unless it knows already.
LEMMA ClosedFacts ==
  ASSUME NEW room \in Nat, NEW t \in EndsOf(room), NEW side \in Sides
  PROVE  /\ Closed(t, side) \in EndsOf(room)
         /\ Closed(t, side)[side] = NoEnd
         /\ Closed(t, side)[Other(side)].rx = t[Other(side)].rx
         /\ Closed(t, side)[Other(side)].st = IF t[Other(side)].st # "open" THEN t[Other(side)].st
                                              ELSE IF t[side].rx > 0 THEN "rst" ELSE "fin"
<1> DEFINE o == Other(side)
           e == Told(t[o], t[side].rx > 0)
<1>1. Closed(t, side) = [t EXCEPT ![side] = NoEnd, ![o] = e]
  BY Zenon DEF Closed
<1>2. t[o] \in End(room) /\ o \in Sides /\ o # side
  BY SideFacts, OtherFacts
<1>3. /\ e \in End(room) /\ e.rx = t[o].rx
      /\ e.st = IF t[o].st # "open" THEN t[o].st ELSE IF t[side].rx > 0 THEN "rst" ELSE "fin"
  BY <1>2 DEF Told, End
<1>4. NoEnd \in End(room)
  BY FreshFacts
<1> HIDE DEF e
<1> QED BY <1>1, <1>2, <1>3, <1>4 DEF EndsOf

\* The server closes its end: the client's keeps what is unread, and is told.
LEMMA ServerCloses ==
  ASSUME NEW room \in Nat, NEW t \in EndsOf(room)
  PROVE  /\ Closed(t, "srv") \in EndsOf(room)
         /\ Closed(t, "srv")["srv"].st = "closed" /\ Closed(t, "srv")["srv"].rx = 0
         /\ Closed(t, "srv")["cli"].rx = t["cli"].rx
         /\ Closed(t, "srv")["cli"].st = IF t["cli"].st # "open" THEN t["cli"].st
                                         ELSE IF t["srv"].rx > 0 THEN "rst" ELSE "fin"
<1> DEFINE h == Closed(t, "srv")
<1>1. "srv" \in Sides /\ Other("srv") = "cli"
  BY OtherFacts
<1>2. /\ h \in EndsOf(room) /\ h["srv"] = NoEnd /\ h["cli"].rx = t["cli"].rx
      /\ h["cli"].st = IF t["cli"].st # "open" THEN t["cli"].st ELSE IF t["srv"].rx > 0 THEN "rst" ELSE "fin"
  BY <1>1, ClosedFacts
<1>3. NoEnd.rx = 0 /\ NoEnd.st = "closed"
  BY FreshFacts
<1> HIDE DEF h
<1>4. h["srv"].st = "closed" /\ h["srv"].rx = 0
  BY <1>2, <1>3
<1> QED BY <1>2, <1>4 DEF h

\* A connection that is never accepted is closed here and reset there.
LEMMA RefusedFacts ==
  ASSUME NEW room \in Nat, NEW t \in EndsOf(room)
  PROVE  /\ Refused(t) \in EndsOf(room) /\ Refused(t)["srv"] = NoEnd
         /\ Refused(t)["cli"].rx = t["cli"].rx
         /\ Refused(t)["cli"].st = IF t["cli"].st # "open" THEN t["cli"].st ELSE "rst"
<1> DEFINE e == Told(t["cli"], TRUE)
<1>1. Refused(t) = [t EXCEPT !["srv"] = NoEnd, !["cli"] = e]
  BY Zenon DEF Refused
<1>2. t["cli"] \in End(room) /\ NoEnd \in End(room)
  BY SideFacts, FreshFacts
<1>3. e \in End(room) /\ e.rx = t["cli"].rx /\ e.st = IF t["cli"].st # "open" THEN t["cli"].st ELSE "rst"
  BY <1>2 DEF Told, End
<1> HIDE DEF e
<1> QED BY <1>1, <1>2, <1>3 DEF EndsOf, Sides

\* The reset that was provoked arrives: from now on a send kills the sender.
LEMMA ResetFacts ==
  ASSUME NEW room \in Nat, NEW t \in EndsOf(room), NEW side \in Sides
  PROVE  /\ ResetAt(t, side) \in EndsOf(room)
         /\ ResetAt(t, side)[side].st = "pipe" /\ ResetAt(t, side)[side].rx = t[side].rx
         /\ ResetAt(t, side)[Other(side)] = t[Other(side)]
<1> DEFINE e == [t[side] EXCEPT !.st = "pipe"]
<1>1. ResetAt(t, side) = [t EXCEPT ![side] = e]
  BY Zenon DEF ResetAt
<1>2. t[side] \in End(room)
  BY SideFacts
<1>3. e \in End(room) /\ e.rx = t[side].rx /\ e.st = "pipe"
  BY <1>2 DEF End
<1> HIDE DEF e
<1> QED BY <1>1, <1>3, OtherFacts DEF EndsOf

----------------------------------------------------------------------------
(* MySocketServer *)

Table(c) == \E k \in Slots : iClientId[k] = c
Queued(c) == \E k \in DOMAIN backlog : backlog[k] = c

TypeConns == /\ tcp \in [Clients -> EndsOf(1)]
             /\ cst \in [Clients -> {"out", "write", "read"}]
             /\ iClientId \in [Slots -> Clients \cup {NONE}]
             /\ backlog \in Seq(Clients)

\* Where the server is: what select found readable stays so until it is read.
LoopInv == /\ spc \in {"select", "accept", "loop"} /\ i \in 0 .. CONNECT_NUM
           /\ rfds \subseteq Clients \cup {Listening}
           /\ spc = "accept" => /\ backlog # <<>>
                                /\ \A c \in Clients \cap rfds : Table(c) /\ Readable(tcp[c]["srv"])
           /\ spc = "loop" => /\ i \in Slots /\ iClientId[i] \in rfds
                              /\ \A k \in i .. CONNECT_NUM :
                                    iClientId[k] \in rfds => Readable(tcp[iClientId[k]]["srv"])

\* Every connection the server has is in one place.
PlaceInv == /\ \A k, l \in Slots : iClientId[k] # NONE /\ iClientId[k] = iClientId[l] => k = l
            /\ \A k, l \in DOMAIN backlog : backlog[k] = backlog[l] => k = l
            /\ \A c \in Clients : ~(Table(c) /\ Queued(c))
            /\ \A c \in Clients : Table(c) \/ Queued(c) <=> tcp[c]["srv"].st # "closed"

\* One question or one answer is under way, none when the client is to ask, and
\* nothing is to be read where an answer would kill the server.
OneAtATime(t, s) == /\ t["srv"].st = "open" <=> t["cli"].st = "open"
                    /\ t["cli"].st = "closed" <=> s = "out"
                    /\ t["srv"].rx + t["cli"].rx <= 1
                    /\ s = "write" /\ t["cli"].st = "open" => t["srv"].rx = 0 /\ t["cli"].rx = 0
                    /\ t["srv"].st \in {"closed", "prov", "pipe", "rst"} => t["srv"].rx = 0

MyInv == TypeConns /\ LoopInv /\ PlaceInv /\ \A c \in Clients : OneAtATime(tcp[c], cst[c])

\* The table has a slot, and its marks are no clients.
LEMMA TableFacts ==
  /\ CONNECT_NUM \in Nat /\ CONNECT_NUM > 0 /\ NONE \notin Clients
  /\ Listening \notin Clients /\ Listening # NONE /\ Slots \subseteq Nat
  BY MySocketAssumption DEF Listening, Slots

\* What is known of a client.
LEMMA ConnFacts ==
  ASSUME MyInv, NEW c \in Clients
  PROVE  /\ tcp[c] \in EndsOf(1) /\ cst[c] \in {"out", "write", "read"} /\ OneAtATime(tcp[c], cst[c])
         /\ tcp[c]["srv"].rx \in {0, 1} /\ tcp[c]["cli"].rx \in {0, 1}
         /\ tcp[c].srv = tcp[c]["srv"] /\ tcp[c].cli = tcp[c]["cli"]
<1>1. tcp[c] \in EndsOf(1) /\ cst[c] \in {"out", "write", "read"} /\ OneAtATime(tcp[c], cst[c])
  BY DEF MyInv, TypeConns
<1>2. tcp[c]["srv"].rx \in 0 .. 1 /\ tcp[c]["cli"].rx \in 0 .. 1
      /\ tcp[c].srv = tcp[c]["srv"] /\ tcp[c].cli = tcp[c]["cli"]
  BY <1>1, SideFacts
<1> QED BY <1>1, <1>2

\* A step of a client or of the kernel: the server's end stays open or closed, and
\* what was readable stays readable.
LEMMA ClientSide ==
  ASSUME MyInv, NEW c \in Clients, NEW h \in EndsOf(1), NEW s \in {"out", "write", "read"},
         tcp' = [tcp EXCEPT ![c] = h], cst' = [cst EXCEPT ![c] = s],
         UNCHANGED <<spc, i, iClientId, rfds, backlog>>,
         h["srv"].st = "closed" <=> tcp[c]["srv"].st = "closed",
         Readable(tcp[c]["srv"]) => Readable(h["srv"]),
         OneAtATime(h, s)
  PROVE  MyInv'
<1>1. TypeConns'
  BY DEF MyInv, TypeConns
<1>2. \A d \in Clients : /\ tcp'[d] = IF d = c THEN h ELSE tcp[d]
                         /\ cst'[d] = IF d = c THEN s ELSE cst[d]
  BY DEF MyInv, TypeConns
<1>3. \A d \in Clients : (Table(d)' <=> Table(d)) /\ (Queued(d)' <=> Queued(d))
  BY DEF Table, Queued
<1>4. \A d \in Clients : Readable(tcp[d]["srv"]) => Readable(tcp'[d]["srv"])
  BY <1>2
<1>5. LoopInv'
  <2>1. \A k \in Slots : iClientId[k] \in rfds => iClientId[k] \in Clients
    BY TableFacts DEF MyInv, TypeConns, LoopInv
  <2>2. i' \in 0 .. CONNECT_NUM /\ spc' \in {"select", "accept", "loop"} /\ rfds' \subseteq Clients \cup {Listening}
    BY DEF MyInv, LoopInv
  <2>3. spc' = "accept" => /\ backlog' # <<>>
                           /\ \A d \in Clients \cap rfds' : Table(d)' /\ Readable(tcp'[d]["srv"])
    BY <1>3, <1>4 DEF MyInv, LoopInv
  <2>4. spc' = "loop" => /\ i' \in Slots /\ iClientId'[i'] \in rfds'
                         /\ \A k \in i' .. CONNECT_NUM :
                               iClientId'[k] \in rfds' => Readable(tcp'[iClientId'[k]]["srv"])
    <3> SUFFICES ASSUME spc = "loop", NEW k \in i .. CONNECT_NUM, iClientId[k] \in rfds
                 PROVE  Readable(tcp'[iClientId[k]]["srv"])
      BY DEF MyInv, LoopInv
    <3>1. k \in Slots
      BY TableFacts DEF MyInv, LoopInv, Slots
    <3> QED BY <1>4, <2>1, <3>1 DEF MyInv, LoopInv
  <2> QED BY <2>2, <2>3, <2>4 DEF LoopInv
<1>6. PlaceInv'
  <2>1. \A d \in Clients : tcp'[d]["srv"].st = "closed" <=> tcp[d]["srv"].st = "closed"
    BY <1>2
  <2> QED BY <1>3, <2>1 DEF MyInv, PlaceInv
<1>7. \A d \in Clients : OneAtATime(tcp'[d], cst'[d])
  BY <1>2 DEF MyInv
<1> QED BY <1>1, <1>5, <1>6, <1>7 DEF MyInv

\* The client ends, and with it its end of the connection.
LEMMA EndsFacts ==
  ASSUME MyInv, NEW c \in Clients, cst[c] # "out"
  PROVE  LET h == Closed(tcp[c], "cli")
         IN  /\ h \in EndsOf(1) /\ OneAtATime(h, "out")
             /\ h["srv"].st = "closed" <=> tcp[c]["srv"].st = "closed"
             /\ Readable(tcp[c]["srv"]) => Readable(h["srv"])
<1> DEFINE t == tcp[c]
           h == Closed(t, "cli")
<1>1. /\ t \in EndsOf(1) /\ OneAtATime(t, cst[c]) /\ t["srv"].rx \in {0, 1} /\ t["cli"].rx \in {0, 1}
  BY ConnFacts
<1>2. /\ h \in EndsOf(1) /\ h["cli"].rx = 0 /\ h["cli"].st = "closed" /\ h["srv"].rx = t["srv"].rx
      /\ h["srv"].st = IF t["srv"].st # "open" THEN t["srv"].st ELSE IF t["cli"].rx > 0 THEN "rst" ELSE "fin"
  <2>1. 1 \in Nat
    OBVIOUS
  <2> QED BY <1>1, <2>1, ClosedFacts, OtherFacts, FreshFacts
<1> HIDE DEF h
<1>3. OneAtATime(h, "out")
  BY <1>1, <1>2 DEF OneAtATime
<1>4. (h["srv"].st = "closed" <=> t["srv"].st = "closed") /\ (Readable(t["srv"]) => Readable(h["srv"]))
  BY <1>1, <1>2 DEF Readable
<1> QED BY <1>2, <1>3, <1>4 DEF h

\* A question is sent, or the client ends.
LEMMA AskKeeps == ASSUME MyInv, NEW c \in Clients, Ask(c) PROVE MyInv'
<1> DEFINE t == tcp[c]
           h == Sent(t, "cli")
<1>1. cst[c] = "write" /\ UNCHANGED <<spc, i, iClientId, rfds, backlog>>
  BY DEF Ask
<1>2. /\ t \in EndsOf(1) /\ OneAtATime(t, cst[c]) /\ t["srv"].rx \in {0, 1} /\ t["cli"].rx \in {0, 1}
      /\ t.cli = t["cli"]
  BY ConnFacts
<1>3. CASE t.cli.st \in {"rst", "pipe"}
  <2>1. cst' = [cst EXCEPT ![c] = "out"] /\ tcp' = [tcp EXCEPT ![c] = Closed(t, "cli")]
    BY <1>3 DEF Ask, Ends
  <2> QED BY <1>1, <2>1, EndsFacts, ClientSide
<1>4. CASE t.cli.st \notin {"rst", "pipe"}
  <2>1. cst' = [cst EXCEPT ![c] = "read"] /\ tcp' = [tcp EXCEPT ![c] = h]
    BY <1>4 DEF Ask
  <2>2. t["cli"].st = "open" => t["srv"].rx = 0 /\ t["cli"].rx = 0
    BY <1>1, <1>2 DEF OneAtATime
  <2>3. /\ h \in EndsOf(1) /\ h["cli"].rx = t["cli"].rx
        /\ h["cli"].st = IF t["cli"].st = "fin" THEN "prov"
                         ELSE IF t["cli"].st = "rst" THEN "pipe" ELSE t["cli"].st
        /\ h["srv"].st = t["srv"].st
        /\ h["srv"].rx = IF t["cli"].st = "open" THEN t["srv"].rx + 1 ELSE t["srv"].rx
    <3>1. 1 \in Nat /\ (t["cli"].st = "open" => t["srv"].rx < 1)
      BY <2>2
    <3> QED BY <1>2, <3>1, SentFacts, OtherFacts
  <2> HIDE DEF h
  <2>4. OneAtATime(h, "read")
    BY <1>1, <1>2, <2>2, <2>3 DEF OneAtATime
  <2>5. (h["srv"].st = "closed" <=> t["srv"].st = "closed") /\ (Readable(t["srv"]) => Readable(h["srv"]))
    BY <1>2, <2>3 DEF Readable
  <2> QED BY <1>1, <2>1, <2>3, <2>4, <2>5, ClientSide
<1> QED BY <1>3, <1>4

\* The answer is read, or the client ends.
LEMMA GetAnswerKeeps == ASSUME MyInv, NEW c \in Clients, GetAnswer(c) PROVE MyInv'
<1> DEFINE t == tcp[c]
           h == Received(t, "cli")
<1>1. cst[c] = "read" /\ UNCHANGED <<spc, i, iClientId, rfds, backlog>>
  BY DEF GetAnswer
<1>2. /\ t \in EndsOf(1) /\ OneAtATime(t, cst[c]) /\ t["srv"].rx \in {0, 1} /\ t["cli"].rx \in {0, 1}
      /\ t.cli = t["cli"]
  BY ConnFacts
<1>3. CASE t.cli.rx = 0
  <2>1. cst' = [cst EXCEPT ![c] = "out"] /\ tcp' = [tcp EXCEPT ![c] = Closed(t, "cli")]
    BY <1>3 DEF GetAnswer, Ends
  <2> QED BY <1>1, <2>1, EndsFacts, ClientSide
<1>4. CASE t.cli.rx # 0
  <2>1. cst' = [cst EXCEPT ![c] = "write"] /\ tcp' = [tcp EXCEPT ![c] = h]
    BY <1>4 DEF GetAnswer
  <2>2. h \in EndsOf(1) /\ h["cli"].rx = t["cli"].rx - 1 /\ h["cli"].st = t["cli"].st /\ h["srv"] = t["srv"]
    <3>1. 1 \in Nat /\ t["cli"].rx > 0
      BY <1>2, <1>4
    <3> QED BY <1>2, <3>1, ReceivedFacts, OtherFacts
  <2> HIDE DEF h
  <2>3. OneAtATime(h, "write")
    BY <1>1, <1>2, <1>4, <2>2 DEF OneAtATime
  <2> QED BY <1>1, <2>1, <2>2, <2>3, ClientSide
<1> QED BY <1>3, <1>4

\* The reset that an answer provoked arrives.
LEMMA ResetKeeps == ASSUME MyInv, NEW c \in Clients, ResetArrives(c) PROVE MyInv'
<1> DEFINE t == tcp[c]
<1>1. PICK side \in Sides : t[side].st = "prov" /\ tcp' = [tcp EXCEPT ![c] = ResetAt(t, side)]
  BY DEF ResetArrives
<1> DEFINE h == ResetAt(t, side)
<1>2. /\ t \in EndsOf(1) /\ OneAtATime(t, cst[c]) /\ t["srv"].rx \in {0, 1} /\ t["cli"].rx \in {0, 1}
      /\ cst[c] \in {"out", "write", "read"}
  BY ConnFacts
<1>3. h \in EndsOf(1) /\ h[side].st = "pipe" /\ h[side].rx = t[side].rx /\ h[Other(side)] = t[Other(side)]
  <2>1. 1 \in Nat
    OBVIOUS
  <2> QED BY <1>2, <2>1, ResetFacts
<1>4. \/ side = "srv" /\ Other(side) = "cli"
      \/ side = "cli" /\ Other(side) = "srv"
  BY DEF Sides, Other
<1>5. tcp' = [tcp EXCEPT ![c] = h] /\ UNCHANGED <<spc, i, iClientId, rfds, backlog>>
  BY <1>1 DEF ResetArrives
<1>6. cst' = [cst EXCEPT ![c] = cst[c]]
  BY DEF ResetArrives, MyInv, TypeConns
<1> HIDE DEF h
<1>7. OneAtATime(h, cst[c])
  BY <1>1, <1>2, <1>3, <1>4 DEF OneAtATime
<1>8. (h["srv"].st = "closed" <=> t["srv"].st = "closed") /\ (Readable(t["srv"]) => Readable(h["srv"]))
  BY <1>1, <1>2, <1>3, <1>4 DEF Readable
<1> QED BY <1>2, <1>3, <1>5, <1>6, <1>7, <1>8, ClientSide

\* A client connects, and is last in the backlog.
LEMMA ConnectKeeps == ASSUME MyInv, NEW c \in Clients, Connect(c) PROVE MyInv'
<1>1. /\ cst[c] = "out" /\ tcp[c] = NoConnection /\ cst' = [cst EXCEPT ![c] = "write"]
      /\ tcp' = [tcp EXCEPT ![c] = Connected] /\ backlog' = Append(backlog, c)
      /\ UNCHANGED <<spc, i, iClientId, rfds>>
  BY DEF Connect
<1>2. /\ Connected \in EndsOf(1) /\ Connected["srv"].st = "open" /\ Connected["cli"].st = "open"
      /\ Connected["srv"].rx = 0 /\ Connected["cli"].rx = 0 /\ NoConnection["srv"].st = "closed"
  <2>1. 1 \in Nat
    OBVIOUS
  <2> QED BY <2>1, FreshFacts
<1>3. ~Table(c) /\ ~Queued(c)
  BY <1>1, <1>2 DEF MyInv, PlaceInv
<1>4. TypeConns'
  BY <1>1, <1>2 DEF MyInv, TypeConns
<1>5. /\ backlog' # <<>>
      /\ \A k \in DOMAIN backlog : k \in DOMAIN backlog' /\ backlog'[k] = backlog[k]
      /\ \A k \in DOMAIN backlog' : \/ k \in DOMAIN backlog /\ backlog'[k] = backlog[k]
                                    \/ k = Len(backlog) + 1 /\ backlog'[k] = c
      /\ Len(backlog) + 1 \in DOMAIN backlog' /\ backlog'[Len(backlog) + 1] = c
  <2>1. backlog \in Seq(Clients)
    BY DEF MyInv, TypeConns
  <2>2. /\ Append(backlog, c) \in Seq(Clients) /\ Len(Append(backlog, c)) = Len(backlog) + 1
        /\ Len(<<>>) = 0 /\ Len(backlog) \in Nat
    BY <2>1
  <2> QED BY <1>1, <2>1, <2>2
<1>6. \A d \in Clients : /\ tcp'[d] = IF d = c THEN Connected ELSE tcp[d]
                         /\ cst'[d] = IF d = c THEN "write" ELSE cst[d]
                         /\ Table(d)' <=> Table(d)
                         /\ Queued(d)' <=> Queued(d) \/ d = c
  <2>1. \A d \in Clients : tcp'[d] = IF d = c THEN Connected ELSE tcp[d]
    BY <1>1 DEF MyInv, TypeConns
  <2>2. \A d \in Clients : cst'[d] = IF d = c THEN "write" ELSE cst[d]
    BY <1>1 DEF MyInv, TypeConns
  <2>3. \A d \in Clients : Table(d)' <=> Table(d)
    BY <1>1 DEF Table
  <2>4. \A d \in Clients : Queued(d)' <=> Queued(d) \/ d = c
    BY <1>5 DEF Queued
  <2> QED BY <2>1, <2>2, <2>3, <2>4
<1>7. LoopInv'
  <2>1. \A k \in Slots : iClientId[k] \in rfds => iClientId[k] \in Clients /\ iClientId[k] # c
    BY <1>3, TableFacts DEF MyInv, TypeConns, LoopInv, Table
  <2>2. spc' = "accept" => \A d \in Clients \cap rfds' : Table(d)' /\ Readable(tcp'[d]["srv"])
    BY <1>1, <1>3, <1>6 DEF MyInv, LoopInv
  <2>3. spc = "loop" => \A k \in i .. CONNECT_NUM : iClientId[k] \in rfds => Readable(tcp'[iClientId[k]]["srv"])
    <3> SUFFICES ASSUME spc = "loop", NEW k \in i .. CONNECT_NUM, iClientId[k] \in rfds
                 PROVE  Readable(tcp'[iClientId[k]]["srv"])
      OBVIOUS
    <3>1. k \in Slots
      BY TableFacts DEF MyInv, LoopInv, Slots
    <3> QED BY <1>6, <2>1, <3>1 DEF MyInv, LoopInv
  <2> QED BY <1>1, <1>5, <2>2, <2>3 DEF MyInv, LoopInv
<1>8. PlaceInv'
  <2>1. \A k, l \in Slots : iClientId'[k] # NONE /\ iClientId'[k] = iClientId'[l] => k = l
    BY <1>1 DEF MyInv, PlaceInv
  <2>2. \A k, l \in DOMAIN backlog' : backlog'[k] = backlog'[l] => k = l
    BY <1>3, <1>5 DEF MyInv, PlaceInv, Queued
  <2>3. \A d \in Clients : /\ ~(Table(d)' /\ Queued(d)')
                           /\ Table(d)' \/ Queued(d)' <=> tcp'[d]["srv"].st # "closed"
    BY <1>2, <1>3, <1>6 DEF MyInv, PlaceInv
  <2> QED BY <2>1, <2>2, <2>3 DEF PlaceInv
<1>9. \A d \in Clients : OneAtATime(tcp'[d], cst'[d])
  <2>1. OneAtATime(Connected, "write")
    BY <1>2 DEF OneAtATime
  <2> QED BY <1>6, <2>1 DEF MyInv
<1> QED BY <1>4, <1>7, <1>8, <1>9 DEF MyInv

\* The loop goes on to a slot whose client is readable, or the pass ends.
LEMMA TurnKeeps ==
  ASSUME TypeConns', NEW k \in 1 .. CONNECT_NUM + 1, NEW R, R \subseteq Clients \cup {Listening}, Turn(k, R),
         \A j \in k .. CONNECT_NUM : iClientId'[j] \in R => Readable(tcp'[iClientId'[j]]["srv"])
  PROVE  LoopInv'
<1> DEFINE more == {j \in k .. CONNECT_NUM : iClientId'[j] \in R}
<1>1. CASE more = {}
  <2>1. spc' = "select" /\ i' = 0 /\ rfds' = {}
    BY <1>1 DEF Turn
  <2> QED BY <2>1, TableFacts DEF LoopInv
<1>2. CASE more # {}
  <2>1. spc' = "loop" /\ i' = Min(more) /\ rfds' = R
    BY <1>2 DEF Turn
  <2>2. more \subseteq Nat /\ more \subseteq Slots
    BY TableFacts DEF Slots
  <2>3. i' \in more
    BY <1>2, <2>1, <2>2, LeastFacts
  <2>4. i' \in Slots /\ iClientId'[i'] \in R /\ i' \in 0 .. CONNECT_NUM /\ i' >= k
    BY <2>2, <2>3, TableFacts DEF Slots
  <2>5. \A j \in i' .. CONNECT_NUM : j \in k .. CONNECT_NUM
    BY <2>4, TableFacts DEF Slots
  <2> HIDE DEF more
  <2> QED BY <2>1, <2>4, <2>5 DEF LoopInv
<1> QED BY <1>1, <1>2

\* select reports the clients of the table that can be read.
LEMMA SelectKeeps == ASSUME MyInv, Select PROVE MyInv'
<1>1. UNCHANGED <<iClientId, backlog, tcp, cst>> /\ spc = "select"
  BY DEF Select
<1>2. TypeConns' /\ PlaceInv' /\ \A c \in Clients : OneAtATime(tcp'[c], cst'[c])
  BY <1>1 DEF MyInv, TypeConns, PlaceInv, Table, Queued
<1>3. /\ ReadySet \subseteq Clients \cup {Listening}
      /\ \A c \in Clients \cap ReadySet : Table(c) /\ Readable(tcp[c]["srv"])
      /\ Listening \in ReadySet => backlog # <<>>
  <2>1. \A c \in Range(iClientId) \ {NONE} : c \in Clients /\ Table(c) /\ tcp[c].srv = tcp[c]["srv"]
    BY ConnFacts DEF Range, MyInv, TypeConns, Table
  <2>2. \A c \in ReadySet : \/ c = Listening /\ backlog # <<>>
                            \/ c \in Range(iClientId) \ {NONE} /\ Readable(tcp[c].srv)
    BY DEF ReadySet
  <2> QED BY <2>1, <2>2, TableFacts
<1>4. CASE Listening \in ReadySet
  <2>1. spc' = "accept" /\ rfds' = ReadySet /\ i' = i
    BY <1>4 DEF Select
  <2> QED BY <1>1, <1>2, <1>3, <1>4, <2>1 DEF MyInv, LoopInv, Table
<1>5. CASE Listening \notin ReadySet
  <2>1. Turn(1, ReadySet)
    BY <1>5 DEF Select
  <2>2. \A j \in 1 .. CONNECT_NUM : iClientId'[j] \in ReadySet => Readable(tcp'[iClientId'[j]]["srv"])
    BY <1>1, <1>3, <1>5, TableFacts
  <2>3. 1 \in 1 .. CONNECT_NUM + 1
    BY TableFacts
  <2>4. LoopInv'
    BY <1>2, <1>3, <2>1, <2>2, <2>3, TurnKeeps
  <2> QED BY <1>2, <2>4 DEF MyInv
<1> QED BY <1>4, <1>5

\* accept takes the oldest connection: the others stay in their order.
LEMMA TakenFacts ==
  ASSUME MyInv, backlog # <<>>, backlog' = Tail(backlog)
  PROVE  /\ Head(backlog) \in Clients /\ Queued(Head(backlog)) /\ backlog' \in Seq(Clients)
         /\ \A d \in Clients : Queued(d)' <=> Queued(d) /\ d # Head(backlog)
         /\ \A k, l \in DOMAIN backlog' : backlog'[k] = backlog'[l] => k = l
<1>1. backlog \in Seq(Clients) /\ \A k, l \in DOMAIN backlog : backlog[k] = backlog[l] => k = l
  BY DEF MyInv, TypeConns, PlaceInv
<1>2. 1 \in DOMAIN backlog /\ Head(backlog) = backlog[1] /\ Head(backlog) \in Clients
  BY <1>1
<1>3. Tail(backlog) \in Seq(Clients) /\ Len(Tail(backlog)) = Len(backlog) - 1
  BY <1>1
<1>4. \A k \in DOMAIN Tail(backlog) : k \in Nat /\ k + 1 \in DOMAIN backlog /\ k + 1 # 1 /\ Tail(backlog)[k] = backlog[k + 1]
  BY <1>1, <1>3
<1>5. \A k \in DOMAIN backlog \ {1} : k - 1 \in DOMAIN Tail(backlog) /\ Tail(backlog)[k - 1] = backlog[k]
  <2> SUFFICES ASSUME NEW k \in DOMAIN backlog \ {1}
               PROVE  k - 1 \in DOMAIN Tail(backlog) /\ Tail(backlog)[k - 1] = backlog[k]
    OBVIOUS
  <2>1. k \in 2 .. Len(backlog) /\ k - 1 \in 1 .. Len(backlog) - 1
    BY <1>1
  <2>2. k - 1 \in DOMAIN Tail(backlog)
    BY <1>3, <2>1
  <2> QED BY <1>4, <2>1, <2>2
<1>6. \A d \in Clients : Queued(d)' => Queued(d) /\ d # Head(backlog)
  BY <1>1, <1>2, <1>4 DEF Queued
<1>7. \A d \in Clients : Queued(d) /\ d # Head(backlog) => Queued(d)'
  BY <1>2, <1>5 DEF Queued
<1>8. \A k, l \in DOMAIN backlog' : backlog'[k] = backlog'[l] => k = l
  BY <1>1, <1>4
<1> QED BY <1>2, <1>3, <1>6, <1>7, <1>8 DEF Queued

\* A connection is accepted: it gets the first free slot, or is closed.
LEMMA AcceptKeeps == ASSUME MyInv, Accept PROVE MyInv'
<1> DEFINE c == Head(backlog)
           t == tcp[c]
           f == Min(FreeSlots)
<1>1. /\ spc = "accept" /\ backlog # <<>> /\ backlog' = Tail(backlog) /\ cst' = cst /\ Turn(1, rfds)
      /\ rfds \subseteq Clients \cup {Listening}
      /\ \A d \in Clients \cap rfds : Table(d) /\ Readable(tcp[d]["srv"])
  BY DEF Accept, MyInv, LoopInv
<1>2. /\ c \in Clients /\ Queued(c) /\ backlog' \in Seq(Clients)
      /\ \A d \in Clients : Queued(d)' <=> Queued(d) /\ d # c
      /\ \A k, l \in DOMAIN backlog' : backlog'[k] = backlog'[l] => k = l
  BY <1>1, TakenFacts
<1>3. ~Table(c) /\ c \notin rfds /\ t["srv"].st # "closed"
  BY <1>1, <1>2 DEF MyInv, PlaceInv
<1>4. 1 \in 1 .. CONNECT_NUM + 1 /\ 1 \in Nat
  BY TableFacts
<1> HIDE DEF c
<1>5. CASE FreeSlots # {}
  <2>1. iClientId' = [iClientId EXCEPT ![f] = c] /\ tcp' = tcp
    BY <1>5 DEF Accept, c
  <2>2. f \in Slots /\ iClientId[f] = NONE
    <3>1. FreeSlots \subseteq Nat /\ FreeSlots \subseteq Slots
      BY TableFacts DEF FreeSlots
    <3>2. f \in FreeSlots
      BY <1>5, <3>1, LeastFacts
    <3> QED BY <3>2 DEF FreeSlots
  <2> HIDE DEF f
  <2>3. TypeConns'
    BY <1>1, <1>2, <2>1, <2>2 DEF MyInv, TypeConns
  <2>4. \A k \in Slots : iClientId'[k] = IF k = f THEN c ELSE iClientId[k]
    BY <2>1, <2>2 DEF MyInv, TypeConns
  <2>5. \A d \in Clients : Table(d)' <=> Table(d) \/ d = c
    BY <2>2, <2>4, TableFacts DEF Table
  <2>6. PlaceInv'
    <3>1. \A k, l \in Slots : iClientId'[k] # NONE /\ iClientId'[k] = iClientId'[l] => k = l
      BY <1>3, <2>4 DEF MyInv, PlaceInv, Table
    <3>2. \A d \in Clients : /\ ~(Table(d)' /\ Queued(d)')
                             /\ Table(d)' \/ Queued(d)' <=> tcp'[d]["srv"].st # "closed"
      BY <1>2, <1>3, <2>1, <2>5 DEF MyInv, PlaceInv
    <3> QED BY <1>2, <3>1, <3>2 DEF PlaceInv
  <2>7. \A j \in 1 .. CONNECT_NUM : iClientId'[j] \in rfds => Readable(tcp'[iClientId'[j]]["srv"])
    <3> SUFFICES ASSUME NEW j \in Slots, iClientId'[j] \in rfds PROVE Readable(tcp[iClientId'[j]]["srv"])
      BY <2>1 DEF Slots
    <3>1. iClientId'[j] \in Clients
      BY <1>1, <2>3, TableFacts DEF TypeConns
    <3> QED BY <1>1, <3>1
  <2>8. LoopInv'
    BY <1>1, <1>4, <2>3, <2>7, TurnKeeps
  <2>9. \A d \in Clients : OneAtATime(tcp'[d], cst'[d])
    BY <1>1, <2>1 DEF MyInv
  <2> QED BY <2>3, <2>6, <2>8, <2>9 DEF MyInv
<1>6. CASE FreeSlots = {}
  <2> DEFINE h == Closed(t, "srv")
  <2>1. tcp' = [tcp EXCEPT ![c] = h] /\ iClientId' = iClientId
    BY <1>6 DEF Accept, c
  <2>2. /\ t \in EndsOf(1) /\ OneAtATime(t, cst[c]) /\ t["srv"].rx \in {0, 1} /\ t["cli"].rx \in {0, 1}
    BY <1>2, ConnFacts
  <2>3. /\ h \in EndsOf(1) /\ h["srv"].rx = 0 /\ h["srv"].st = "closed" /\ h["cli"].rx = t["cli"].rx
        /\ h["cli"].st = IF t["cli"].st # "open" THEN t["cli"].st ELSE IF t["srv"].rx > 0 THEN "rst" ELSE "fin"
    BY <1>4, <2>2, ClosedFacts, OtherFacts, FreshFacts
  <2> HIDE DEF h
  <2>4. OneAtATime(h, cst[c])
    BY <2>2, <2>3 DEF OneAtATime
  <2>5. TypeConns'
    BY <1>1, <1>2, <2>1, <2>3 DEF MyInv, TypeConns
  <2>6. \A d \in Clients : tcp'[d] = (IF d = c THEN h ELSE tcp[d]) /\ (Table(d)' <=> Table(d))
    BY <2>1 DEF MyInv, TypeConns, Table
  <2>7. PlaceInv'
    <3>1. \A d \in Clients : /\ ~(Table(d)' /\ Queued(d)')
                             /\ Table(d)' \/ Queued(d)' <=> tcp'[d]["srv"].st # "closed"
      BY <1>2, <1>3, <2>3, <2>6 DEF MyInv, PlaceInv
    <3>2. \A k, l \in Slots : iClientId'[k] # NONE /\ iClientId'[k] = iClientId'[l] => k = l
      BY <2>1 DEF MyInv, PlaceInv
    <3> QED BY <1>2, <3>1, <3>2 DEF PlaceInv
  <2>8. \A j \in 1 .. CONNECT_NUM : iClientId'[j] \in rfds => Readable(tcp'[iClientId'[j]]["srv"])
    <3> SUFFICES ASSUME NEW j \in Slots, iClientId'[j] \in rfds PROVE Readable(tcp'[iClientId'[j]]["srv"])
      BY DEF Slots
    <3>1. iClientId'[j] \in Clients /\ iClientId'[j] # c
      BY <1>1, <1>3, <2>5, TableFacts DEF TypeConns
    <3> QED BY <1>1, <2>6, <3>1
  <2>9. LoopInv'
    BY <1>1, <1>4, <2>5, <2>8, TurnKeeps
  <2>10. \A d \in Clients : OneAtATime(tcp'[d], cst'[d])
    BY <1>1, <2>4, <2>6 DEF MyInv
  <2> QED BY <2>5, <2>7, <2>9, <2>10 DEF MyInv
<1> QED BY <1>5, <1>6

\* The client of the current slot, which is readable.
LEMMA CurrentFacts ==
  ASSUME MyInv, spc = "loop"
  PROVE  /\ i \in Slots /\ iClientId[i] \in Clients /\ Table(iClientId[i]) /\ i + 1 \in 1 .. CONNECT_NUM + 1
         /\ rfds \subseteq Clients \cup {Listening}
         /\ \A j \in i + 1 .. CONNECT_NUM : /\ j \in Slots /\ iClientId[j] # iClientId[i]
                                            /\ iClientId[j] \in rfds => /\ iClientId[j] \in Clients
                                                                        /\ Readable(tcp[iClientId[j]]["srv"])
         /\ Readable(tcp[iClientId[i]]["srv"])
<1>1. i \in Slots /\ iClientId[i] \in rfds /\ rfds \subseteq Clients \cup {Listening}
  BY DEF MyInv, LoopInv
<1>2. iClientId[i] \in Clients /\ Table(iClientId[i])
  BY <1>1, TableFacts DEF MyInv, TypeConns, Table
<1>3. i + 1 \in 1 .. CONNECT_NUM + 1 /\ i \in i .. CONNECT_NUM
  BY <1>1, TableFacts DEF Slots
<1>4. ASSUME NEW j \in i + 1 .. CONNECT_NUM
      PROVE  /\ j \in Slots /\ iClientId[j] # iClientId[i]
             /\ iClientId[j] \in rfds => /\ iClientId[j] \in Clients
                                         /\ Readable(tcp[iClientId[j]]["srv"])
  <2>1. j \in Slots /\ j # i /\ j \in i .. CONNECT_NUM
    BY <1>1, TableFacts DEF Slots
  <2> QED BY <1>1, <1>2, <2>1, TableFacts DEF MyInv, TypeConns, LoopInv, PlaceInv
<1>5. Readable(tcp[iClientId[i]]["srv"])
  BY <1>1, <1>3 DEF MyInv, LoopInv
<1> QED BY <1>1, <1>2, <1>3, <1>4, <1>5

\* A question is read and answered.
LEMMA AnswerKeeps == ASSUME MyInv, Answer PROVE MyInv'
<1> DEFINE c == iClientId[i]
           t == tcp[c]
           r == Received(t, "srv")
           h == Sent(r, "srv")
<1>1. /\ spc = "loop" /\ t.srv.rx > 0 /\ tcp' = [tcp EXCEPT ![c] = h]
      /\ UNCHANGED <<iClientId, backlog, cst>> /\ Turn(i + 1, rfds)
  BY DEF Answer
<1>2. /\ i \in Slots /\ c \in Clients /\ Table(c) /\ i + 1 \in 1 .. CONNECT_NUM + 1
      /\ rfds \subseteq Clients \cup {Listening}
      /\ \A j \in i + 1 .. CONNECT_NUM : /\ j \in Slots /\ iClientId[j] # c
                                         /\ iClientId[j] \in rfds => /\ iClientId[j] \in Clients
                                                                     /\ Readable(tcp[iClientId[j]]["srv"])
  BY <1>1, CurrentFacts
<1>3. /\ t \in EndsOf(1) /\ OneAtATime(t, cst[c]) /\ t["srv"].rx \in {0, 1} /\ t["cli"].rx \in {0, 1}
      /\ t.srv = t["srv"] /\ 1 \in Nat
  BY <1>2, ConnFacts
<1>4. t["srv"].rx = 1 /\ t["cli"].rx = 0 /\ t["srv"].st \in {"open", "fin"}
  <2>1. t["srv"].st \in {"closed", "open", "fin", "prov", "rst", "pipe"}
    <3>1. t["srv"] \in End(1)
      BY <1>3, SideFacts
    <3> QED BY <3>1 DEF End
  <2> QED BY <1>1, <1>3, <2>1 DEF OneAtATime
<1>5. /\ r \in EndsOf(1) /\ r["srv"].rx = 0 /\ r["srv"].st = t["srv"].st /\ r["cli"] = t["cli"]
  BY <1>3, <1>4, ReceivedFacts, OtherFacts
<1> HIDE DEF r
<1>6. /\ h \in EndsOf(1) /\ h["srv"].rx = 0 /\ h["cli"].st = t["cli"].st
      /\ h["srv"].st = IF t["srv"].st = "fin" THEN "prov" ELSE "open"
      /\ h["cli"].rx = IF t["srv"].st = "open" THEN 1 ELSE 0
  <2>1. r["srv"].st = "open" => r["cli"].rx < 1
    BY <1>4, <1>5
  <2>2. /\ h \in EndsOf(1) /\ h["srv"].rx = r["srv"].rx /\ h["cli"].st = r["cli"].st
        /\ h["srv"].st = IF r["srv"].st = "fin" THEN "prov" ELSE IF r["srv"].st = "rst" THEN "pipe" ELSE r["srv"].st
        /\ h["cli"].rx = IF r["srv"].st = "open" THEN r["cli"].rx + 1 ELSE r["cli"].rx
    BY <1>3, <1>5, <2>1, SentFacts, OtherFacts
  <2> QED BY <1>4, <1>5, <2>2
<1> HIDE DEF h
<1>7. OneAtATime(h, cst[c])
  BY <1>3, <1>4, <1>6 DEF OneAtATime
<1>8. \A d \in Clients : /\ tcp'[d] = IF d = c THEN h ELSE tcp[d]
                         /\ tcp'[d]["srv"].st = "closed" <=> tcp[d]["srv"].st = "closed"
  BY <1>1, <1>4, <1>6 DEF MyInv, TypeConns
<1>9. TypeConns'
  BY <1>1, <1>2, <1>6 DEF MyInv, TypeConns
<1>10. PlaceInv'
  <2>1. \A d \in Clients : (Table(d)' <=> Table(d)) /\ (Queued(d)' <=> Queued(d))
    BY <1>1 DEF Table, Queued
  <2> QED BY <1>1, <1>8, <2>1 DEF MyInv, PlaceInv
<1>11. LoopInv'
  <2>1. \A j \in i + 1 .. CONNECT_NUM : iClientId'[j] \in rfds => Readable(tcp'[iClientId'[j]]["srv"])
    BY <1>1, <1>2, <1>8
  <2> QED BY <1>1, <1>2, <1>9, <2>1, TurnKeeps
<1>12. \A d \in Clients : OneAtATime(tcp'[d], cst'[d])
  BY <1>1, <1>7, <1>8 DEF MyInv
<1> QED BY <1>9, <1>10, <1>11, <1>12 DEF MyInv

\* The current client is gone: its descriptor is closed and its slot is free.
LEMMA LeaveKeeps == ASSUME MyInv, Leave PROVE MyInv'
<1> DEFINE c == iClientId[i]
           t == tcp[c]
           h == Closed(t, "srv")
<1>1. /\ spc = "loop" /\ t.srv.rx = 0 /\ tcp' = [tcp EXCEPT ![c] = h]
      /\ iClientId' = [iClientId EXCEPT ![i] = NONE]
      /\ UNCHANGED <<backlog, cst>> /\ Turn(i + 1, rfds)
  BY DEF Leave
<1>2. /\ i \in Slots /\ c \in Clients /\ Table(c) /\ i + 1 \in 1 .. CONNECT_NUM + 1
      /\ rfds \subseteq Clients \cup {Listening}
      /\ \A j \in i + 1 .. CONNECT_NUM : /\ j \in Slots /\ iClientId[j] # c
                                         /\ iClientId[j] \in rfds => /\ iClientId[j] \in Clients
                                                                     /\ Readable(tcp[iClientId[j]]["srv"])
  BY <1>1, CurrentFacts
<1>3. /\ t \in EndsOf(1) /\ OneAtATime(t, cst[c]) /\ t["srv"].rx \in {0, 1} /\ t["cli"].rx \in {0, 1}
      /\ t.srv = t["srv"] /\ 1 \in Nat
  BY <1>2, ConnFacts
<1>4. /\ h \in EndsOf(1) /\ h["srv"].rx = 0 /\ h["srv"].st = "closed" /\ h["cli"].rx = t["cli"].rx
      /\ h["cli"].st = IF t["cli"].st # "open" THEN t["cli"].st ELSE IF t["srv"].rx > 0 THEN "rst" ELSE "fin"
  BY <1>3, ServerCloses
<1> HIDE DEF h
<1>5. OneAtATime(h, cst[c])
  BY <1>3, <1>4 DEF OneAtATime
<1>6. TypeConns'
  BY <1>1, <1>2, <1>4 DEF MyInv, TypeConns
<1>7. \A d \in Clients : tcp'[d] = IF d = c THEN h ELSE tcp[d]
  BY <1>1 DEF MyInv, TypeConns
<1>8. \A k \in Slots : iClientId'[k] = IF k = i THEN NONE ELSE iClientId[k]
  BY <1>1 DEF MyInv, TypeConns
<1>9. /\ \A k \in Slots : k # i => iClientId[k] # c
      /\ \A k, l \in Slots : iClientId[k] # NONE /\ iClientId[k] = iClientId[l] => k = l
  BY <1>2, TableFacts DEF MyInv, PlaceInv
<1>10. \A d \in Clients : (Table(d)' <=> Table(d) /\ d # c) /\ (Queued(d)' <=> Queued(d))
  <2>1. \A d \in Clients : Table(d)' => Table(d) /\ d # c
    BY <1>8, <1>9, TableFacts DEF Table
  <2>2. \A d \in Clients : Table(d) /\ d # c => Table(d)'
    BY <1>8 DEF Table
  <2>3. \A d \in Clients : Queued(d)' <=> Queued(d)
    BY <1>1 DEF Queued
  <2> QED BY <2>1, <2>2, <2>3
<1>11. PlaceInv'
  <2>1. \A k, l \in Slots : iClientId'[k] # NONE /\ iClientId'[k] = iClientId'[l] => k = l
    BY <1>8, <1>9
  <2>2. \A k, l \in DOMAIN backlog' : backlog'[k] = backlog'[l] => k = l
    BY <1>1 DEF MyInv, PlaceInv
  <2>3. \A d \in Clients : /\ ~(Table(d)' /\ Queued(d)')
                           /\ Table(d)' \/ Queued(d)' <=> tcp'[d]["srv"].st # "closed"
    BY <1>2, <1>4, <1>7, <1>10 DEF MyInv, PlaceInv
  <2> QED BY <2>1, <2>2, <2>3 DEF PlaceInv
<1>12. LoopInv'
  <2>1. \A j \in i + 1 .. CONNECT_NUM : iClientId'[j] \in rfds => Readable(tcp'[iClientId'[j]]["srv"])
    <3> SUFFICES ASSUME NEW j \in i + 1 .. CONNECT_NUM, iClientId'[j] \in rfds
                 PROVE  Readable(tcp'[iClientId'[j]]["srv"])
      OBVIOUS
    <3>1. j # i /\ j \in Slots
      BY <1>2, TableFacts DEF Slots
    <3> QED BY <1>2, <1>7, <1>8, <3>1
  <2> QED BY <1>1, <1>2, <1>6, <2>1, TurnKeeps
<1>13. \A d \in Clients : OneAtATime(tcp'[d], cst'[d])
  BY <1>1, <1>5, <1>7 DEF MyInv
<1> QED BY <1>6, <1>11, <1>12, <1>13 DEF MyInv

\* The user stops a client.
LEMMA StoppedKeeps == ASSUME MyInv, NEW c \in Clients, ClientStopped(c) PROVE MyInv'
<1>1. /\ cst[c] # "out" /\ UNCHANGED <<spc, i, iClientId, rfds, backlog>>
      /\ cst' = [cst EXCEPT ![c] = "out"] /\ tcp' = [tcp EXCEPT ![c] = Closed(tcp[c], "cli")]
  BY DEF ClientStopped, Ends
<1> QED BY <1>1, EndsFacts, ClientSide

\* accept fails: the pass is given up.
LEMMA FailsKeeps == ASSUME MyInv, AcceptFails PROVE MyInv'
<1>1. spc' = "select" /\ rfds' = {} /\ UNCHANGED <<i, iClientId, backlog, tcp, cst>>
  BY DEF AcceptFails
<1>2. TypeConns' /\ PlaceInv' /\ \A c \in Clients : OneAtATime(tcp'[c], cst'[c])
  BY <1>1 DEF MyInv, TypeConns, PlaceInv, Table, Queued
<1>3. LoopInv'
  BY <1>1 DEF MyInv, LoopInv
<1> QED BY <1>2, <1>3 DEF MyInv

\* The server has no connection at first.
LEMMA MyInit == Init => MyInv
<1> SUFFICES ASSUME Init PROVE MyInv
  OBVIOUS
<1>1. /\ NoConnection \in EndsOf(1) /\ NoConnection["srv"].st = "closed" /\ NoConnection["cli"].st = "closed"
      /\ NoConnection["srv"].rx = 0 /\ NoConnection["cli"].rx = 0
  <2>1. 1 \in Nat
    OBVIOUS
  <2> QED BY <2>1, FreshFacts
<1>2. TypeConns
  BY <1>1 DEF Init, TypeConns
<1>3. LoopInv
  BY TableFacts DEF Init, LoopInv
<1>4. PlaceInv
  <2>1. \A c \in Clients : ~Table(c) /\ ~Queued(c)
    BY TableFacts DEF Init, Table, Queued
  <2> QED BY <1>1, <2>1 DEF Init, PlaceInv
<1>5. \A c \in Clients : OneAtATime(tcp[c], cst[c])
  <2>1. OneAtATime(NoConnection, "out")
    BY <1>1 DEF OneAtATime
  <2> QED BY <2>1 DEF Init
<1> QED BY <1>2, <1>3, <1>4, <1>5 DEF MyInv

\* Every step keeps the invariant.
LEMMA MyStep == MyInv /\ [Next]_vars => MyInv'
<1> SUFFICES ASSUME MyInv, [Next]_vars PROVE MyInv'
  OBVIOUS
<1>1. CASE Select \/ AcceptFails \/ Accept \/ Answer \/ Leave
  BY <1>1, SelectKeeps, FailsKeeps, AcceptKeeps, AnswerKeeps, LeaveKeeps
<1>2. CASE \E c \in Clients : Connect(c) \/ Ask(c) \/ GetAnswer(c) \/ ClientStopped(c) \/ ResetArrives(c)
  BY <1>2, ConnectKeeps, AskKeeps, GetAnswerKeeps, StoppedKeeps, ResetKeeps
<1>3. CASE UNCHANGED vars
  BY <1>3 DEF vars, MyInv, TypeConns, LoopInv, PlaceInv, Table, Queued
<1> QED BY <1>1, <1>2, <1>3 DEF Next

\* What is to be read is read once, and every connection is in one place.
LEMMA MySocketFollows == MyInv => MySocketIsSound
<1> SUFFICES ASSUME MyInv PROVE MySocketIsSound
  OBVIOUS
<1>1. TypeOK
  <2>1. Range(backlog) \subseteq Clients
    BY DEF MyInv, TypeConns, Range
  <2> QED BY <2>1 DEF MyInv, TypeConns, LoopInv, TypeOK, EndsOf
<1>2. ReadsAreReady
  <2> SUFFICES ASSUME spc = "loop", NEW k \in i .. CONNECT_NUM, iClientId[k] \in rfds
               PROVE  Readable(tcp[iClientId[k]].srv)
    BY DEF ReadsAreReady
  <2>1. k \in Slots /\ Readable(tcp[iClientId[k]]["srv"])
    BY TableFacts DEF MyInv, LoopInv, Slots
  <2>2. iClientId[k] \in Clients
    BY <2>1, TableFacts DEF MyInv, LoopInv, TypeConns
  <2> QED BY <2>1, <2>2, ConnFacts
<1>3. TableIsExact
  <2> SUFFICES ASSUME NEW c \in Clients
               PROVE  LET places == {k \in Slots : iClientId[k] = c} \cup {-k : k \in {j \in DOMAIN backlog : backlog[j] = c}}
                      IN  Cardinality(places) = IF tcp[c].srv.st = "closed" THEN 0 ELSE 1
    BY DEF TableIsExact
  <2> DEFINE places == {k \in Slots : iClientId[k] = c} \cup {-k : k \in {j \in DOMAIN backlog : backlog[j] = c}}
  <2>0. tcp[c].srv = tcp[c]["srv"] /\ c # NONE
    BY ConnFacts, TableFacts
  <2>1. CASE tcp[c]["srv"].st = "closed"
    <3>1. ~Table(c) /\ ~Queued(c)
      BY <2>1 DEF MyInv, PlaceInv
    <3>2. places = {}
      BY <3>1 DEF Table, Queued
    <3> QED BY <2>0, <2>1, <3>2, FS_EmptySet
  <2>2. CASE Table(c)
    <3>1. PICK k \in Slots : iClientId[k] = c
      BY <2>2 DEF Table
    <3>2. \A l \in Slots : iClientId[l] = c => l = k
      BY <2>0, <3>1 DEF MyInv, PlaceInv
    <3>3. ~Queued(c) /\ tcp[c]["srv"].st # "closed"
      BY <2>2 DEF MyInv, PlaceInv
    <3>4. places = {k}
      BY <3>1, <3>2, <3>3 DEF Queued
    <3> QED BY <2>0, <3>3, <3>4, FS_Singleton
  <2>3. CASE Queued(c)
    <3>1. PICK k \in DOMAIN backlog : backlog[k] = c
      BY <2>3 DEF Queued
    <3>2. \A l \in DOMAIN backlog : backlog[l] = c => l = k
      BY <3>1 DEF MyInv, PlaceInv
    <3>3. ~Table(c) /\ tcp[c]["srv"].st # "closed"
      BY <2>3 DEF MyInv, PlaceInv
    <3>4. places = {-k}
      BY <3>1, <3>2, <3>3 DEF Table
    <3> QED BY <2>0, <3>3, <3>4, FS_Singleton
  <2> QED BY <2>1, <2>2, <2>3 DEF MyInv, PlaceInv
<1>4. NeverKilled
  <2> SUFFICES ASSUME spc = "loop", tcp[iClientId[i]].srv.rx > 0
               PROVE  tcp[iClientId[i]].srv.st # "pipe"
    BY DEF NeverKilled
  <2>1. iClientId[i] \in Clients
    BY CurrentFacts
  <2> QED BY <2>1, ConnFacts DEF OneAtATime
<1> QED BY <1>1, <1>2, <1>3, <1>4 DEF MySocketIsSound

\* MySocketServer, for every number of slots and clients: AsServer reads only
\* where read does not block, every connection it has open is in one slot of
\* iClientId or in the backlog, and no answer it writes kills it.
THEOREM MySocketSound == Spec => []MySocketIsSound
<1>1. Spec => []MyInv
  BY MyInit, MyStep, PTL DEF Spec
<1> QED BY <1>1, MySocketFollows, PTL

----------------------------------------------------------------------------
(* SelectServer *)

TypePass == /\ spc2 \in {"select", "accept", "time", "read", "exit", "killed"}
            /\ i2 \in Select2!Slots /\ nready \in 0 .. Cardinality(Select2!Fds) + 1
            /\ rset \subseteq Select2!Fds \cup {0}

TypeTable == /\ maxi \in Select2!Slots \cup {-1} /\ maxFd \in Select2!Fds \cup {0}
             /\ client \in [Select2!Slots -> Select2!Fds \cup {-1}]
             /\ allset \subseteq Select2!Fds \cup {0}
             /\ who \in [Select2!Fds -> Clients \cup {NONE}]

TypePeers == /\ tcp2 \in [Clients -> EndsOf(Room)]
             /\ cst2 \in [Clients -> {"out", "new", "sent", "echoed"}]
             /\ quiet \subseteq Clients /\ backlog2 \in Seq(Clients)

\* EverybodyIsWatched, slot by slot and descriptor by descriptor.
Watched == /\ 0 \in allset
           /\ \A f \in Select2!Fds : f \in allset <=> who[f] # NONE
           /\ \A f \in Select2!Fds : who[f] # NONE <=> \E k \in Select2!Slots : client[k] = f
           /\ \A f \in Select2!Fds : f \in allset => f <= maxFd
           /\ \A k \in Select2!Slots : client[k] \in Select2!Fds => k <= maxi
           /\ \A k, l \in Select2!Slots : client[k] \in Select2!Fds /\ client[k] = client[l] => k = l

\* A client has one descriptor or waits for one, and the server's end is open.
PeersInv == /\ \A f, g \in Select2!Fds : who[f] # NONE /\ who[f] = who[g] => f = g
            /\ \A f \in Select2!Fds : who[f] # NONE => tcp2[who[f]]["srv"].st # "closed"
            /\ \A k, l \in DOMAIN backlog2 : backlog2[k] = backlog2[l] => k = l
            /\ \A k \in DOMAIN backlog2 : /\ backlog2[k] \notin quiet
                                          /\ tcp2[backlog2[k]]["srv"].st # "closed"
                                          /\ \A f \in Select2!Fds : who[f] # backlog2[k]

\* The server's end is told of nothing while the client is there, and the one
\* message of a client is not sent before it is.
Talk(t, s) == /\ t["srv"].st \in {"fin", "prov", "rst", "pipe"} => t["cli"].st = "closed"
              /\ t["cli"].st = "closed" <=> s = "out"
              /\ t["srv"].rx <= 1
              /\ s = "new" => t["srv"].rx = 0

\* The slots from n on whose descriptors select reported.
Ahead(n) == {k \in Select2!Slots : k >= n /\ client[k] \in rset}

PassInv == /\ spc2 = "accept" => /\ i2 = 0 /\ 0 \in rset /\ rset \subseteq allset
                                 /\ nready = Cardinality(rset) /\ backlog2 # <<>>
           /\ spc2 \in {"time", "read"} => /\ client[i2] \in Select2!Fds
                                           /\ rset # {} => nready = Cardinality(Ahead(i2))
           /\ spc2 = "read" => client[i2] \in rset

\* The end of a stream that nothing came before is read in the pass in which the
\* time is written to it.
Leaving(f, e) == /\ e.rx = 0
                 /\ \/ e.st = "fin"
                    \/ spc2 = "read" /\ client[i2] = f /\ e.st \in {"prov", "pipe"}
                 /\ spc2 \in {"accept", "time", "read"} => f \in rset

QuietInv == /\ \A c \in quiet : cst2[c] = "out"
            /\ \A f \in Select2!Fds : who[f] \in quiet => Leaving(f, tcp2[who[f]]["srv"])

SelectInv == /\ TypePass /\ TypeTable /\ TypePeers
             /\ Watched /\ PeersInv /\ PassInv /\ QuietInv
             /\ \A c \in Clients : Talk(tcp2[c], cst2[c])

\* SelectServer speaks of connections as MySocketServer does.
LEMMA SameEnds ==
  /\ Select2!NoConnection = NoConnection /\ Select2!Connected = Connected /\ Select2!Sides = Sides
  /\ \A r : Select2!End(r) = End(r)
  /\ \A e : Select2!Readable(e) <=> Readable(e)
  /\ \A t, side, r : Select2!Writable(t, side, r) <=> Writable(t, side, r)
  /\ \A t, side : /\ Select2!Sent(t, side) = Sent(t, side) /\ Select2!Closed(t, side) = Closed(t, side)
                  /\ Select2!ResetAt(t, side) = ResetAt(t, side) /\ Select2!Received(t, side) = Received(t, side)
  /\ \A t : Select2!Refused(t) = Refused(t)
<1>1. /\ Select2!NoConnection = NoConnection /\ Select2!Connected = Connected /\ Select2!Sides = Sides
      /\ \A r : Select2!End(r) = End(r)
      /\ \A e : Select2!Readable(e) <=> Readable(e)
  BY Zenon DEF Select2!NoConnection, NoConnection, Select2!Connected, Connected, Select2!Sides, Sides,
               Select2!End, End, Select2!NoEnd, NoEnd, Select2!Readable, Readable
<1>2. \A t, side, r : Select2!Writable(t, side, r) <=> Writable(t, side, r)
  BY Zenon DEF Select2!Writable, Writable, Select2!Other, Other
<1>3. \A t, side : Select2!Sent(t, side) = Sent(t, side)
  BY Zenon DEF Select2!Sent, Sent, Select2!Other, Other
<1>4. \A t, side : Select2!Closed(t, side) = Closed(t, side)
  BY Zenon DEF Select2!Closed, Closed, Select2!Other, Other, Select2!Told, Told, Select2!NoEnd, NoEnd
<1>5. \A t : Select2!Refused(t) = Refused(t)
  BY Zenon DEF Select2!Refused, Refused, Select2!Told, Told, Select2!NoEnd, NoEnd
<1>6. \A t, side : Select2!ResetAt(t, side) = ResetAt(t, side) /\ Select2!Received(t, side) = Received(t, side)
  BY Zenon DEF Select2!ResetAt, ResetAt, Select2!Received, Received
<1> QED BY <1>1, <1>2, <1>3, <1>4, <1>5, <1>6, Zenon

\* And of sets and functions.
LEMMA SameSets ==
  /\ \A T : Select2!Min(T) = Min(T) /\ Select2!Max(T) = Max(T)
  /\ \A T : Select2!IsFiniteSet(T) <=> IsFiniteSet(T)
  /\ \A T : Select2!Cardinality(T) = Cardinality(T)
  /\ \A f : Select2!Range(f) = Range(f)
<1>1. \A T : Select2!Min(T) = Min(T) /\ Select2!Max(T) = Max(T)
  BY Zenon DEF Select2!Min, Min, Select2!Max, Max
<1>2. \A T : Select2!IsFiniteSet(T) <=> IsFiniteSet(T)
  BY Zenon DEF Select2!IsFiniteSet, IsFiniteSet
<1>3. \A T : Select2!Cardinality(T) = Cardinality(T)
  BY Zenon DEF Select2!Cardinality, Cardinality
<1>4. \A f : Select2!Range(f) = Range(f)
  BY Zenon DEF Select2!Range, Range
<1> QED BY <1>1, <1>2, <1>3, <1>4

\* The numbers of slots and descriptors.
LEMMA SelectFacts ==
  /\ MAX_ATTARCH_SIZE \in Nat /\ MAX_ATTARCH_SIZE > 0 /\ Room \in Nat /\ Room > 0
  /\ IsFiniteSet(Clients) /\ Cardinality(Clients) \in Nat /\ NONE \notin Clients
  /\ Select2!Slots = 0 .. MAX_ATTARCH_SIZE - 1 /\ Select2!Slots \subseteq Nat /\ 0 \in Select2!Slots
  /\ Select2!Fds = 1 .. Cardinality(Clients) /\ Select2!Fds \subseteq Nat /\ 0 \notin Select2!Fds /\ -1 \notin Select2!Fds
  /\ IsFiniteSet(Select2!Slots) /\ IsFiniteSet(Select2!Fds) /\ Cardinality(Select2!Fds) = Cardinality(Clients)
  /\ Select2!iServFd = 0
<1>1. /\ MAX_ATTARCH_SIZE \in Nat /\ MAX_ATTARCH_SIZE > 0 /\ Room \in Nat /\ Room > 0
      /\ IsFiniteSet(Clients) /\ NONE \notin Clients
  BY SelectServersAssumption, SameSets DEF Select2!SelectAssumption
<1>2. Cardinality(Clients) \in Nat
  BY <1>1, FS_CardinalityType
<1>3. Select2!Slots = 0 .. MAX_ATTARCH_SIZE - 1 /\ Select2!Fds = 1 .. Cardinality(Clients) /\ Select2!iServFd = 0
  BY SameSets DEF Select2!Slots, Select2!Fds, Select2!iServFd
<1>4. Select2!Slots \subseteq Nat /\ 0 \in Select2!Slots /\ Select2!Fds \subseteq Nat /\ 0 \notin Select2!Fds /\ -1 \notin Select2!Fds
  BY <1>1, <1>2, <1>3
<1>5. IsFiniteSet(0 .. MAX_ATTARCH_SIZE - 1)
  BY <1>1, FS_Interval
<1>6. IsFiniteSet(1 .. Cardinality(Clients)) /\ Cardinality(1 .. Cardinality(Clients)) = Cardinality(Clients)
  BY <1>2, FS_Interval
<1> QED BY <1>1, <1>2, <1>3, <1>4, <1>5, <1>6

\* What is known of a client.
LEMMA PeerFacts ==
  ASSUME SelectInv, NEW c \in Clients
  PROVE  /\ tcp2[c] \in EndsOf(Room) /\ Talk(tcp2[c], cst2[c])
         /\ cst2[c] \in {"out", "new", "sent", "echoed"}
         /\ tcp2[c]["srv"].rx \in Nat /\ tcp2[c]["cli"].rx \in Nat /\ tcp2[c]["cli"].rx <= Room
         /\ tcp2[c].srv = tcp2[c]["srv"] /\ tcp2[c].cli = tcp2[c]["cli"]
         /\ tcp2[c]["srv"].st \in {"closed", "open", "fin", "prov", "rst", "pipe"}
<1>1. /\ tcp2[c] \in EndsOf(Room) /\ Talk(tcp2[c], cst2[c])
      /\ cst2[c] \in {"out", "new", "sent", "echoed"}
  BY DEF SelectInv, TypePeers
<1>2. /\ tcp2[c]["srv"].rx \in 0 .. Room /\ tcp2[c]["cli"].rx \in 0 .. Room
      /\ tcp2[c].srv = tcp2[c]["srv"] /\ tcp2[c].cli = tcp2[c]["cli"] /\ tcp2[c]["srv"] \in End(Room)
  BY <1>1, SideFacts, SelectFacts
<1>3. tcp2[c]["srv"].st \in {"closed", "open", "fin", "prov", "rst", "pipe"}
  BY <1>2 DEF End
<1> QED BY <1>1, <1>2, <1>3, SelectFacts

\* The loop goes on to the next client in the table, or the pass ends.
LEMMA TurnFacts ==
  ASSUME TypeTable', Watched', NEW k \in 0 .. MAX_ATTARCH_SIZE, Select2!Turn(k)
  PROVE  \/ spc2' = "select" /\ i2' = 0
         \/ /\ spc2' = "time" /\ i2' \in Select2!Slots /\ i2' >= k /\ client'[i2'] \in Select2!Fds
            /\ \A j \in Select2!Slots : j >= k /\ client'[j] \in Select2!Fds => j >= i2'
<1> DEFINE more == {j \in k .. maxi' : client'[j] >= 0}
<1>1. CASE more = {}
  BY <1>1 DEF Select2!Turn
<1>2. CASE more # {}
  <2>1. spc2' = "time" /\ i2' = Min(more)
    BY <1>2, SameSets DEF Select2!Turn
  <2>2. \A j \in more : j \in Nat /\ j \in Select2!Slots /\ j >= k /\ client'[j] \in Select2!Fds
    BY SelectFacts DEF TypeTable
  <2>3. \A j \in Select2!Slots : j >= k /\ client'[j] \in Select2!Fds => j \in more
    BY SelectFacts DEF TypeTable, Watched
  <2> HIDE DEF more
  <2>4. more \subseteq Nat
    BY <2>2
  <2>5. i2' \in more /\ \A j \in more : i2' <= j
    BY <1>2, <2>1, <2>4, LeastFacts
  <2> QED BY <2>1, <2>2, <2>3, <2>5
<1> QED BY <1>1, <1>2

\* Client c and its connection move to s and h, and the server stays where it is.
PeerMove(c, h, s) ==
    /\ tcp2' = [tcp2 EXCEPT ![c] = h] /\ cst2' = [cst2 EXCEPT ![c] = s]
    /\ UNCHANGED <<spc2, i2, nready, maxi, maxFd, client, allset, rset, who, backlog2>>
    /\ h["srv"].st = "closed" <=> tcp2[c]["srv"].st = "closed"
    /\ Talk(h, s)

\* No other client becomes quiet, and c only if its last connection is ending.
QuietMove(c, h, s) ==
    /\ quiet' \subseteq quiet \cup {c}
    /\ c \in quiet' => /\ s = "out"
                       /\ \A k \in DOMAIN backlog2 : backlog2[k] # c
                       /\ \A f \in Select2!Fds : who[f] = c => Leaving(f, h["srv"])

\* A step of a client or of the kernel that leaves the server where it is.
LEMMA PeerSide ==
  ASSUME SelectInv, NEW c \in Clients, NEW h \in EndsOf(Room), NEW s \in {"out", "new", "sent", "echoed"},
         PeerMove(c, h, s), QuietMove(c, h, s)
  PROVE  SelectInv'
<1> USE DEF PeerMove, QuietMove
<1>1. /\ \A d \in Clients : tcp2'[d] = IF d = c THEN h ELSE tcp2[d]
      /\ \A d \in Clients : cst2'[d] = IF d = c THEN s ELSE cst2[d]
      /\ \A f \in Select2!Fds : who[f] # NONE => who[f] \in Clients
      /\ \A k \in DOMAIN backlog2 : backlog2[k] \in Clients
  BY DEF SelectInv, TypePeers, TypeTable
<1>2. TypePass' /\ TypeTable'
  BY DEF SelectInv, TypePass, TypeTable
<1>3. TypePeers'
  BY DEF SelectInv, TypePeers
<1>4. Watched'
  BY DEF SelectInv, Watched
<1>5. PeersInv'
  <2>1. \A d \in Clients : tcp2'[d]["srv"].st = "closed" <=> tcp2[d]["srv"].st = "closed"
    BY <1>1
  <2>2. \A k \in DOMAIN backlog2 : backlog2[k] \notin quiet'
    BY DEF SelectInv, PeersInv
  <2> QED BY <1>1, <2>1, <2>2 DEF SelectInv, PeersInv
<1>6. PassInv'
  BY DEF SelectInv, PassInv, Ahead
<1>7. QuietInv'
  <2>1. \A d \in quiet' : cst2'[d] = "out"
    BY <1>1, <1>3 DEF SelectInv, QuietInv, TypePeers
  <2>2. ASSUME NEW f \in Select2!Fds, who[f] \in quiet'
        PROVE  Leaving(f, tcp2[who[f]]["srv"])'
    <3>1. who[f] \in Clients
      BY <2>2, <1>3 DEF TypePeers
    <3>2. CASE who[f] = c
      <4>1. tcp2'[who[f]]["srv"] = h["srv"] /\ Leaving(f, h["srv"])
        BY <1>1, <2>2, <3>1, <3>2
      <4> QED BY <4>1 DEF Leaving
    <3>3. CASE who[f] # c
      <4>1. tcp2'[who[f]]["srv"] = tcp2[who[f]]["srv"] /\ who[f] \in quiet
        BY <1>1, <2>2, <3>1, <3>3
      <4>2. Leaving(f, tcp2[who[f]]["srv"])
        BY <4>1 DEF SelectInv, QuietInv
      <4> QED BY <4>1, <4>2 DEF Leaving
    <3> QED BY <3>2, <3>3
  <2> QED BY <2>1, <2>2 DEF QuietInv
<1>8. \A d \in Clients : Talk(tcp2'[d], cst2'[d])
  BY <1>1 DEF SelectInv
<1> QED BY <1>2, <1>3, <1>4, <1>5, <1>6, <1>7, <1>8 DEF SelectInv

\* The client sends its message.
LEMMA SendsKeeps == ASSUME SelectInv, NEW c \in Clients, Select2!ClientSends(c) PROVE SelectInv'
<1> DEFINE t == tcp2[c]
           h == Sent(t, "cli")
<1>1. /\ cst2[c] = "new" /\ tcp2' = [tcp2 EXCEPT ![c] = h] /\ cst2' = [cst2 EXCEPT ![c] = "sent"]
      /\ UNCHANGED <<spc2, i2, nready, maxi, maxFd, client, allset, rset, who, backlog2, quiet>>
  BY SameEnds DEF Select2!ClientSends, Select2!server
<1>2. t \in EndsOf(Room) /\ Talk(t, cst2[c]) /\ t["srv"].rx \in Nat
  BY PeerFacts
<1>3. t["srv"].rx = 0 /\ c \notin quiet
  BY <1>1, <1>2 DEF Talk, SelectInv, QuietInv
<1>4. /\ h \in EndsOf(Room) /\ h["srv"].st = t["srv"].st
      /\ h["cli"].st = IF t["cli"].st = "fin" THEN "prov"
                       ELSE IF t["cli"].st = "rst" THEN "pipe" ELSE t["cli"].st
      /\ h["srv"].rx = IF t["cli"].st = "open" THEN t["srv"].rx + 1 ELSE t["srv"].rx
  <2>1. t["srv"].rx < Room /\ Room \in Nat
    BY <1>3, SelectFacts
  <2> QED BY <1>2, <2>1, SentFacts, OtherFacts
<1> HIDE DEF h
<1>5. Talk(h, "sent")
  BY <1>1, <1>2, <1>3, <1>4 DEF Talk
<1>6. PeerMove(c, h, "sent")
  BY <1>1, <1>4, <1>5 DEF PeerMove
<1>7. QuietMove(c, h, "sent")
  BY <1>1, <1>3 DEF QuietMove
<1>8. h \in EndsOf(Room) /\ "sent" \in {"out", "new", "sent", "echoed"}
  BY <1>4
<1> QED BY <1>6, <1>7, <1>8, PeerSide, Zenon

\* The client takes a message.
LEMMA ReceivesKeeps == ASSUME SelectInv, NEW c \in Clients, Select2!ClientReceives(c) PROVE SelectInv'
<1> DEFINE t == tcp2[c]
           h == Received(t, "cli")
<1>1. /\ cst2[c] \in {"sent", "echoed"} /\ t.cli.rx > 0 /\ tcp2' = [tcp2 EXCEPT ![c] = h]
      /\ UNCHANGED <<spc2, i2, nready, maxi, maxFd, client, allset, rset, who, backlog2, cst2, quiet>>
  BY SameEnds DEF Select2!ClientReceives, Select2!server
<1>2. t \in EndsOf(Room) /\ Talk(t, cst2[c]) /\ t["srv"].rx \in Nat /\ t["cli"].rx \in Nat /\ t.cli = t["cli"]
  BY PeerFacts
<1>3. c \notin quiet
  BY <1>1 DEF SelectInv, QuietInv
<1>4. h \in EndsOf(Room) /\ h["srv"] = t["srv"] /\ h["cli"].st = t["cli"].st
  BY <1>1, <1>2, ReceivedFacts, OtherFacts, SelectFacts
<1> HIDE DEF h
<1>5. Talk(h, cst2[c])
  BY <1>2, <1>4 DEF Talk
<1>6. cst2' = [cst2 EXCEPT ![c] = cst2[c]] /\ cst2[c] \in {"out", "new", "sent", "echoed"}
  BY <1>1, PeerFacts DEF SelectInv, TypePeers
<1>7. PeerMove(c, h, cst2[c])
  BY <1>1, <1>4, <1>5, <1>6 DEF PeerMove
<1>8. QuietMove(c, h, cst2[c])
  BY <1>1, <1>3 DEF QuietMove
<1> QED BY <1>4, <1>6, <1>7, <1>8, PeerSide, Zenon

\* The user stops a client: if it was accepted and nothing is unread, the server
\* sees the end of the stream.
LEMMA Stopped2Keeps == ASSUME SelectInv, NEW c \in Clients, Select2!ClientStopped(c) PROVE SelectInv'
<1> DEFINE t == tcp2[c]
           h == Closed(t, "cli")
<1>1. /\ cst2[c] # "out" /\ tcp2' = [tcp2 EXCEPT ![c] = h] /\ cst2' = [cst2 EXCEPT ![c] = "out"]
      /\ UNCHANGED <<spc2, i2, nready, maxi, maxFd, client, allset, rset, who, backlog2>>
  BY SameEnds DEF Select2!ClientStopped, Select2!server
<1>2. \/ quiet' = quiet
      \/ /\ quiet' = quiet \cup {c} /\ spc2 = "select" /\ c \in Range(who)
         /\ t.srv.rx = 0 /\ t.cli.rx = 0
  BY SameSets DEF Select2!ClientStopped
<1>3. /\ t \in EndsOf(Room) /\ Talk(t, cst2[c]) /\ t["srv"].rx \in Nat /\ t["cli"].rx \in Nat
      /\ t.cli = t["cli"] /\ t.srv = t["srv"]
      /\ t["srv"].st \in {"closed", "open", "fin", "prov", "rst", "pipe"}
  BY PeerFacts
<1>4. c \notin quiet
  BY <1>1 DEF SelectInv, QuietInv
<1>5. /\ h \in EndsOf(Room) /\ h["cli"].st = "closed" /\ h["srv"].rx = t["srv"].rx
      /\ h["srv"].st = IF t["srv"].st # "open" THEN t["srv"].st ELSE IF t["cli"].rx > 0 THEN "rst" ELSE "fin"
  BY <1>3, ClosedFacts, OtherFacts, FreshFacts, SelectFacts
<1> HIDE DEF h
<1>6. Talk(h, "out")
  BY <1>3, <1>5 DEF Talk
<1>7. quiet' \subseteq quiet \cup {c}
  BY <1>2
<1>8. ASSUME c \in quiet'
      PROVE  /\ \A k \in DOMAIN backlog2 : backlog2[k] # c
             /\ \A f \in Select2!Fds : who[f] = c => Leaving(f, h["srv"])
  <2>1. spc2 = "select" /\ c \in Range(who) /\ t.srv.rx = 0 /\ t.cli.rx = 0
    BY <1>2, <1>4, <1>8
  <2>2. PICK f \in Select2!Fds : who[f] = c
    BY <2>1 DEF Range, SelectInv, TypeTable
  <2>3. \A k \in DOMAIN backlog2 : backlog2[k] # c
    BY <2>2 DEF SelectInv, PeersInv
  <2>4. t["srv"].st # "closed" /\ t["cli"].st # "closed"
    BY <1>1, <1>3, <2>2, SelectFacts DEF SelectInv, PeersInv, Talk
  <2>5. h["srv"].st = "fin" /\ h["srv"].rx = 0
    BY <1>3, <1>5, <2>1, <2>4 DEF Talk
  <2> QED BY <2>1, <2>3, <2>5 DEF Leaving
<1>9. h["srv"].st = "closed" <=> t["srv"].st = "closed"
  BY <1>5
<1>10. PeerMove(c, h, "out")
  BY <1>1, <1>6, <1>9 DEF PeerMove
<1>11. QuietMove(c, h, "out")
  BY <1>7, <1>8 DEF QuietMove
<1>12. h \in EndsOf(Room) /\ "out" \in {"out", "new", "sent", "echoed"}
  BY <1>5
<1> QED BY <1>10, <1>11, <1>12, PeerSide, Zenon

\* The reset that a time provoked arrives.
LEMMA Reset2Keeps == ASSUME SelectInv, NEW c \in Clients, Select2!ResetArrives(c) PROVE SelectInv'
<1> DEFINE t == tcp2[c]
<1>1. PICK side \in Sides : t[side].st = "prov" /\ tcp2' = [tcp2 EXCEPT ![c] = ResetAt(t, side)]
  BY SameEnds DEF Select2!ResetArrives
<1> DEFINE h == ResetAt(t, side)
<1>2. UNCHANGED <<spc2, i2, nready, maxi, maxFd, client, allset, rset, who, backlog2, cst2, quiet>>
  BY DEF Select2!ResetArrives, Select2!server
<1>3. t \in EndsOf(Room) /\ Talk(t, cst2[c]) /\ t["srv"].rx \in Nat
  BY PeerFacts
<1>4. h \in EndsOf(Room) /\ h[side].st = "pipe" /\ h[side].rx = t[side].rx /\ h[Other(side)] = t[Other(side)]
  BY <1>3, ResetFacts, SelectFacts
<1>5. \/ side = "srv" /\ Other(side) = "cli"
      \/ side = "cli" /\ Other(side) = "srv"
  BY DEF Sides, Other
<1>6. tcp2' = [tcp2 EXCEPT ![c] = h] /\ cst2' = [cst2 EXCEPT ![c] = cst2[c]]
      /\ cst2[c] \in {"out", "new", "sent", "echoed"}
  BY <1>1, <1>2, PeerFacts DEF SelectInv, TypePeers
<1> HIDE DEF h
<1>7. Talk(h, cst2[c])
  BY <1>1, <1>3, <1>4, <1>5 DEF Talk
<1>8. h["srv"].st = "closed" <=> t["srv"].st = "closed"
  BY <1>1, <1>4, <1>5
<1>9. ASSUME c \in quiet
      PROVE  /\ cst2[c] = "out"
             /\ \A k \in DOMAIN backlog2 : backlog2[k] # c
             /\ \A f \in Select2!Fds : who[f] = c => Leaving(f, h["srv"])
  <2>1. cst2[c] = "out" /\ \A k \in DOMAIN backlog2 : backlog2[k] # c
    BY <1>9 DEF SelectInv, QuietInv, PeersInv
  <2>2. ASSUME NEW f \in Select2!Fds, who[f] = c PROVE Leaving(f, h["srv"])
    <3>1. Leaving(f, t["srv"])
      BY <1>9, <2>2 DEF SelectInv, QuietInv
    <3>2. h["srv"] = t["srv"] \/ (t["srv"].st = "prov" /\ h["srv"].st = "pipe" /\ h["srv"].rx = t["srv"].rx)
      BY <1>1, <1>4, <1>5
    <3> QED BY <3>1, <3>2 DEF Leaving
  <2> QED BY <2>1, <2>2
<1>10. quiet' \subseteq quiet \cup {c} /\ (c \in quiet' => c \in quiet)
  BY <1>2
<1>11. PeerMove(c, h, cst2[c])
  BY <1>2, <1>6, <1>7, <1>8 DEF PeerMove
<1>12. QuietMove(c, h, cst2[c])
  BY <1>9, <1>10 DEF QuietMove
<1> QED BY <1>4, <1>6, <1>11, <1>12, PeerSide, Zenon

\* A client connects, and is last in the backlog.
LEMMA Connect2Keeps == ASSUME SelectInv, NEW c \in Clients, Select2!Connect(c) PROVE SelectInv'
<1>1. /\ tcp2[c] = NoConnection /\ tcp2' = [tcp2 EXCEPT ![c] = Connected]
      /\ cst2' = [cst2 EXCEPT ![c] = "new"] /\ backlog2' = Append(backlog2, c) /\ quiet' = quiet \ {c}
      /\ UNCHANGED <<spc2, i2, nready, maxi, maxFd, client, allset, rset, who>>
  BY SameEnds DEF Select2!Connect, Select2!server
<1>2. /\ Connected \in EndsOf(Room) /\ Connected["srv"].st = "open" /\ Connected["cli"].st = "open"
      /\ Connected["srv"].rx = 0 /\ NoConnection["srv"].st = "closed"
  BY FreshFacts, SelectFacts
<1>3. /\ \A f \in Select2!Fds : who[f] # c
      /\ \A k \in DOMAIN backlog2 : backlog2[k] # c
  BY <1>1, <1>2, SelectFacts DEF SelectInv, PeersInv
<1>4. /\ \A d \in Clients : tcp2'[d] = IF d = c THEN Connected ELSE tcp2[d]
      /\ \A d \in Clients : cst2'[d] = IF d = c THEN "new" ELSE cst2[d]
      /\ \A f \in Select2!Fds : who[f] # NONE => who[f] \in Clients
      /\ \A k \in DOMAIN backlog2 : backlog2[k] \in Clients
  BY <1>1 DEF SelectInv, TypePeers, TypeTable
<1>5. /\ backlog2' # <<>>
      /\ \A k \in DOMAIN backlog2' : \/ k \in DOMAIN backlog2 /\ backlog2'[k] = backlog2[k]
                                     \/ k = Len(backlog2) + 1 /\ backlog2'[k] = c
  <2>1. backlog2 \in Seq(Clients)
    BY DEF SelectInv, TypePeers
  <2>2. /\ Append(backlog2, c) \in Seq(Clients) /\ Len(Append(backlog2, c)) = Len(backlog2) + 1
        /\ Len(<<>>) = 0 /\ Len(backlog2) \in Nat
    BY <2>1
  <2> QED BY <1>1, <2>1, <2>2
<1>6. TypePass' /\ TypeTable' /\ Watched'
  BY <1>1 DEF SelectInv, TypePass, TypeTable, Watched
<1>7. TypePeers'
  BY <1>1, <1>2 DEF SelectInv, TypePeers
<1>8. PeersInv'
  <2>1. \A k, l \in DOMAIN backlog2' : backlog2'[k] = backlog2'[l] => k = l
    BY <1>3, <1>5 DEF SelectInv, PeersInv
  <2>2. \A f \in Select2!Fds : who[f] # NONE => tcp2'[who[f]]["srv"].st # "closed"
    BY <1>3, <1>4 DEF SelectInv, PeersInv
  <2>3. \A k \in DOMAIN backlog2' : /\ backlog2'[k] \notin quiet'
                                    /\ tcp2'[backlog2'[k]]["srv"].st # "closed"
                                    /\ \A f \in Select2!Fds : who[f] # backlog2'[k]
    BY <1>1, <1>2, <1>3, <1>4, <1>5 DEF SelectInv, PeersInv
  <2> QED BY <1>1, <2>1, <2>2, <2>3 DEF SelectInv, PeersInv
<1>9. PassInv'
  BY <1>1, <1>5 DEF SelectInv, PassInv, Ahead
<1>10. QuietInv'
  <2>1. \A d \in quiet' : cst2'[d] = "out"
    BY <1>1, <1>4 DEF SelectInv, QuietInv, TypePeers
  <2>2. ASSUME NEW f \in Select2!Fds, who[f] \in quiet'
        PROVE  Leaving(f, tcp2[who[f]]["srv"])'
    <3>1. who[f] \in quiet /\ tcp2'[who[f]] = tcp2[who[f]]
      BY <1>1, <1>3, <1>4, <2>2 DEF SelectInv, TypePeers
    <3> QED BY <1>1, <3>1 DEF SelectInv, QuietInv, Leaving
  <2> QED BY <1>1, <2>1, <2>2 DEF QuietInv
<1>11. \A d \in Clients : Talk(tcp2'[d], cst2'[d])
  <2>1. Talk(Connected, "new")
    BY <1>2 DEF Talk
  <2> QED BY <1>4, <2>1 DEF SelectInv
<1> QED BY <1>6, <1>7, <1>8, <1>9, <1>10, <1>11 DEF SelectInv

\* Each descriptor is in one slot, so descriptors and their slots are as many.
LEMMA SlotsOf ==
  ASSUME TypeTable, Watched, NEW R, R \subseteq allset, 0 \notin R
  PROVE  LET A == {k \in Select2!Slots : client[k] \in R}
         IN  IsFiniteSet(A) /\ IsFiniteSet(R) /\ Cardinality(A) = Cardinality(R)
<1> DEFINE A == {k \in Select2!Slots : client[k] \in R}
           b == [k \in A |-> client[k]]
<1>1. IsFiniteSet(A)
  BY SelectFacts, FS_Subset
<1>2. R \subseteq Select2!Fds
  BY DEF TypeTable
<1>3. b \in Bijection(A, R)
  <2>1. b \in Injection(A, R)
    BY <1>2 DEF Injection, IsInjective, Watched
  <2>2. \A f \in R : \E k \in A : b[k] = f
    BY <1>2 DEF Watched
  <2> QED BY <2>1, <2>2 DEF Bijection, Surjection, Injection
<1>4. ExistsBijection(A, R)
  BY <1>3 DEF ExistsBijection
<1> QED BY <1>1, <1>4, FS_Bijection

\* What select reports.
LEMMA ReadyFacts ==
  ASSUME SelectInv
  PROVE  /\ Select2!ReadyFds \subseteq allset
         /\ 0 \in Select2!ReadyFds => backlog2 # <<>>
         /\ \A f \in Select2!Fds : who[f] # NONE /\ Readable(tcp2[who[f]]["srv"]) => f \in Select2!ReadyFds
<1>1. \A f \in Select2!Fds : who[f] # NONE => /\ f \in allset /\ f <= maxFd /\ f # 0
                                        /\ tcp2[who[f]].srv = tcp2[who[f]]["srv"]
  BY PeerFacts, SelectFacts DEF SelectInv, Watched, TypeTable
<1> QED BY <1>1, SelectFacts, SameEnds DEF Select2!ReadyFds

\* A set of descriptors has a count within the type of nready.
LEMMA CountType ==
  ASSUME NEW R, R \subseteq Select2!Fds \cup {0}
  PROVE  IsFiniteSet(R) /\ Cardinality(R) \in 0 .. Cardinality(Select2!Fds) + 1
<1>1. IsFiniteSet(Select2!Fds \cup {0}) /\ Cardinality(Select2!Fds \cup {0}) = Cardinality(Select2!Fds) + 1
  BY SelectFacts, FS_AddElement
<1>2. IsFiniteSet(R) /\ Cardinality(R) <= Cardinality(Select2!Fds \cup {0})
  BY <1>1, FS_Subset
<1>3. Cardinality(R) \in Nat
  BY <1>2, FS_CardinalityType
<1> QED BY <1>1, <1>2, <1>3, SelectFacts

\* select returns: the pass begins with what it reported.
LEMMA Select2Keeps == ASSUME SelectInv, Select2!Select PROVE SelectInv'
<1> DEFINE R == Select2!ReadyFds
<1>1. /\ spc2 = "select" /\ rset' = R /\ nready' = Cardinality(R)
      /\ UNCHANGED <<maxi, maxFd, client, allset, who, backlog2, tcp2, cst2, quiet>>
      /\ \/ 0 \in R /\ spc2' = "accept" /\ i2' = 0
         \/ 0 \notin R /\ Select2!Turn(0)
  BY SameSets, SelectFacts DEF Select2!Select
<1>2. /\ R \subseteq allset /\ R \subseteq Select2!Fds \cup {0} /\ (0 \in R => backlog2 # <<>>)
      /\ \A f \in Select2!Fds : who[f] # NONE /\ Readable(tcp2[who[f]]["srv"]) => f \in R
  BY ReadyFacts DEF SelectInv, TypeTable
<1> HIDE DEF R
<1>3. Cardinality(R) \in 0 .. Cardinality(Select2!Fds) + 1
  BY <1>2, CountType
<1>4. TypeTable' /\ TypePeers' /\ Watched' /\ PeersInv' /\ \A d \in Clients : Talk(tcp2'[d], cst2'[d])
  BY <1>1 DEF SelectInv, TypeTable, TypePeers, Watched, PeersInv
<1>5. \/ spc2' = "select" /\ i2' = 0
      \/ spc2' = "accept" /\ i2' = 0 /\ 0 \in R
      \/ /\ spc2' = "time" /\ i2' \in Select2!Slots /\ client[i2'] \in Select2!Fds /\ 0 \notin R
         /\ \A j \in Select2!Slots : client[j] \in Select2!Fds => j >= i2'
  <2>1. CASE 0 \in R
    BY <1>1, <2>1
  <2>2. CASE 0 \notin R
    <3>1. 0 \in 0 .. MAX_ATTARCH_SIZE /\ Select2!Turn(0)
      BY <1>1, <2>2, SelectFacts
    <3>2. \A j \in Select2!Slots : j >= 0
      BY SelectFacts
    <3>3. \/ spc2' = "select" /\ i2' = 0
          \/ /\ spc2' = "time" /\ i2' \in Select2!Slots /\ i2' >= 0 /\ client'[i2'] \in Select2!Fds
             /\ \A j \in Select2!Slots : j >= 0 /\ client'[j] \in Select2!Fds => j >= i2'
      BY <1>4, <3>1, TurnFacts
    <3> QED BY <1>1, <2>2, <3>2, <3>3
  <2> QED BY <2>1, <2>2
<1>6. TypePass'
  BY <1>1, <1>2, <1>3, <1>5, SelectFacts DEF TypePass
<1>7. PassInv'
  <2>1. CASE spc2' = "time"
    <3>1. Ahead(i2)' = {k \in Select2!Slots : client[k] \in R}
      <4>1. \A k \in Select2!Slots : client[k] \in R => k >= i2'
        BY <1>2, <1>5, <2>1 DEF SelectInv, TypeTable
      <4> QED BY <1>1, <4>1 DEF Ahead
    <3>2. Cardinality({k \in Select2!Slots : client[k] \in R}) = Cardinality(R)
      BY <1>2, <1>5, <2>1, SlotsOf DEF SelectInv
    <3> QED BY <1>1, <1>5, <2>1, <3>1, <3>2 DEF PassInv
  <2>2. CASE spc2' = "accept"
    BY <1>1, <1>2, <1>5, <2>2 DEF PassInv
  <2>3. CASE spc2' = "select"
    BY <2>3 DEF PassInv
  <2> QED BY <1>5, <2>1, <2>2, <2>3
<1>8. QuietInv'
  <2>1. \A d \in quiet' : cst2'[d] = "out"
    BY <1>1 DEF SelectInv, QuietInv
  <2>2. ASSUME NEW f \in Select2!Fds, who[f] \in quiet
        PROVE  Leaving(f, tcp2[who[f]]["srv"])'
    <3>1. Leaving(f, tcp2[who[f]]["srv"]) /\ who[f] # NONE
      BY <2>2, SelectFacts DEF SelectInv, QuietInv, TypePeers
    <3>2. tcp2[who[f]]["srv"].rx = 0 /\ tcp2[who[f]]["srv"].st = "fin"
      BY <1>1, <3>1 DEF Leaving
    <3>3. f \in R
      BY <1>2, <3>1, <3>2 DEF Readable
    <3> QED BY <1>1, <3>2, <3>3 DEF Leaving
  <2> QED BY <1>1, <2>1, <2>2 DEF QuietInv
<1> QED BY <1>4, <1>6, <1>7, <1>8 DEF SelectInv

\* A client that waits has no descriptor, so that one is left for it.
LEMMA FreeFd ==
  ASSUME SelectInv, backlog2 # <<>>
  PROVE  Select2!NewFd \in Select2!Fds /\ who[Select2!NewFd] = NONE
<1> DEFINE free == {f \in Select2!Fds : who[f] = NONE}
           c == Head(backlog2)
<1>1. c \in Clients /\ \A f \in Select2!Fds : who[f] # c
  <2>1. backlog2 \in Seq(Clients)
    BY DEF SelectInv, TypePeers
  <2>2. 1 \in DOMAIN backlog2 /\ c = backlog2[1] /\ c \in Clients
    BY <2>1
  <2> QED BY <2>2 DEF SelectInv, PeersInv
<1> HIDE DEF c
<1>2. free # {}
  <2> SUFFICES ASSUME \A f \in Select2!Fds : who[f] # NONE PROVE FALSE
    OBVIOUS
  <2>1. who \in [Select2!Fds -> Clients \ {c}]
    BY <1>1 DEF SelectInv, TypeTable
  <2>2. IsFiniteSet(Clients \ {c}) /\ Cardinality(Clients \ {c}) = Cardinality(Clients) - 1
    BY <1>1, SelectFacts, FS_RemoveElement
  <2>3. Cardinality(Clients \ {c}) < Cardinality(Select2!Fds)
    BY <2>2, SelectFacts
  <2>4. PICK f \in Select2!Fds, g \in Select2!Fds : f # g /\ who[f] = who[g]
    BY <2>1, <2>2, <2>3, SelectFacts, FS_PigeonHole
  <2> QED BY <2>4 DEF SelectInv, PeersInv
<1>3. free \subseteq Nat
  BY SelectFacts
<1>4. Select2!NewFd = Min(free)
  BY SameSets DEF Select2!NewFd
<1>5. Select2!NewFd \in free
  BY <1>2, <1>3, <1>4, LeastFacts
<1> QED BY <1>5

\* The larger of two numbers.
LEMMA LargerFacts ==
  ASSUME NEW a \in Int, NEW b \in Int
  PROVE  Max({a, b}) \in {a, b} /\ Max({a, b}) >= a /\ Max({a, b}) >= b
<1>1. \E x \in {a, b} : \A y \in {a, b} : x >= y
  <2>1. CASE a >= b
    BY <2>1
  <2>2. CASE b >= a
    BY <2>2
  <2> QED BY <2>1, <2>2
<1>2. Max({a, b}) \in {a, b} /\ \A y \in {a, b} : Max({a, b}) >= y
  BY <1>1, Zenon DEF Max
<1> QED BY <1>2

\* accept takes the oldest connection: the others stay in their order.
LEMMA Taken2Facts ==
  ASSUME SelectInv, backlog2 # <<>>, backlog2' = Tail(backlog2)
  PROVE  /\ Head(backlog2) \in Clients /\ Head(backlog2) \notin quiet /\ backlog2' \in Seq(Clients)
         /\ tcp2[Head(backlog2)]["srv"].st # "closed" /\ \A f \in Select2!Fds : who[f] # Head(backlog2)
         /\ \A k, l \in DOMAIN backlog2' : backlog2'[k] = backlog2'[l] => k = l
         /\ \A k \in DOMAIN backlog2' : /\ backlog2'[k] # Head(backlog2)
                                        /\ \E l \in DOMAIN backlog2 : backlog2'[k] = backlog2[l]
<1>1. backlog2 \in Seq(Clients) /\ \A k, l \in DOMAIN backlog2 : backlog2[k] = backlog2[l] => k = l
  BY DEF SelectInv, TypePeers, PeersInv
<1>2. 1 \in DOMAIN backlog2 /\ Head(backlog2) = backlog2[1] /\ Head(backlog2) \in Clients
  BY <1>1
<1>3. Tail(backlog2) \in Seq(Clients) /\ Len(Tail(backlog2)) = Len(backlog2) - 1
  BY <1>1
<1>4. \A k \in DOMAIN Tail(backlog2) : /\ k \in Nat /\ k + 1 \in DOMAIN backlog2 /\ k + 1 # 1
                                       /\ Tail(backlog2)[k] = backlog2[k + 1]
  BY <1>1, <1>3
<1>5. \A k, l \in DOMAIN backlog2' : backlog2'[k] = backlog2'[l] => k = l
  BY <1>1, <1>4
<1>6. \A k \in DOMAIN backlog2' : /\ backlog2'[k] # Head(backlog2)
                                  /\ \E l \in DOMAIN backlog2 : backlog2'[k] = backlog2[l]
  BY <1>1, <1>2, <1>4
<1>7. /\ Head(backlog2) \notin quiet /\ tcp2[Head(backlog2)]["srv"].st # "closed"
      /\ \A f \in Select2!Fds : who[f] # Head(backlog2)
  BY <1>2 DEF SelectInv, PeersInv
<1> QED BY <1>2, <1>3, <1>5, <1>6, <1>7

\* A connection is accepted: it gets the first free slot and a free descriptor, and
\* the listening socket no longer counts as ready.
LEMMA Accept2Keeps == ASSUME SelectInv, Select2!Accept PROVE SelectInv'
<1> DEFINE c == Head(backlog2)
           m == Min(Select2!FreeSlots)
           n == Select2!NewFd
<1>1. /\ spc2 = "accept" /\ Select2!FreeSlots # {} /\ backlog2' = Tail(backlog2)
      /\ client' = [client EXCEPT ![m] = n] /\ who' = [who EXCEPT ![n] = c]
      /\ allset' = allset \cup {n} /\ maxFd' = Max({maxFd, n}) /\ maxi' = Max({maxi, m})
      /\ nready' = nready - 1 /\ UNCHANGED <<rset, tcp2, cst2, quiet>>
      /\ \/ nready' = 0 /\ spc2' = "select" /\ i2' = i2
         \/ nready' # 0 /\ Select2!Turn(0)
  BY SameSets DEF Select2!Accept
<1>2. /\ i2 = 0 /\ 0 \in rset /\ rset \subseteq allset /\ nready = Cardinality(rset) /\ backlog2 # <<>>
  BY <1>1 DEF SelectInv, PassInv
<1>3. /\ c \in Clients /\ c \notin quiet /\ backlog2' \in Seq(Clients)
      /\ tcp2[c]["srv"].st # "closed" /\ \A f \in Select2!Fds : who[f] # c
      /\ \A k, l \in DOMAIN backlog2' : backlog2'[k] = backlog2'[l] => k = l
      /\ \A k \in DOMAIN backlog2' : /\ backlog2'[k] # c
                                     /\ \E l \in DOMAIN backlog2 : backlog2'[k] = backlog2[l]
  BY <1>1, <1>2, Taken2Facts
<1>4. n \in Select2!Fds /\ who[n] = NONE /\ n \notin allset /\ n \in Nat
  BY <1>2, FreeFd, SelectFacts DEF SelectInv, Watched
<1>5. m \in Select2!Slots /\ client[m] = -1 /\ m \in Nat
  <2>1. Select2!FreeSlots \subseteq Nat /\ Select2!FreeSlots \subseteq Select2!Slots
    BY SelectFacts DEF Select2!FreeSlots
  <2>2. m \in Select2!FreeSlots
    BY <1>1, <2>1, LeastFacts
  <2> HIDE DEF m
  <2>3. m \in Select2!Slots /\ client[m] < 0
    BY <2>2 DEF Select2!FreeSlots
  <2>4. client[m] \in Select2!Fds \cup {-1}
    BY <2>3 DEF SelectInv, TypeTable
  <2> QED BY <2>3, <2>4, SelectFacts
<1> HIDE DEF c, m, n
<1>6. /\ \A k \in Select2!Slots : client'[k] = IF k = m THEN n ELSE client[k]
      /\ \A f \in Select2!Fds : who'[f] = IF f = n THEN c ELSE who[f]
      /\ \A k \in Select2!Slots : client[k] # n
  <2>1. \A k \in Select2!Slots : client[k] # n
    BY <1>4 DEF SelectInv, Watched
  <2> QED BY <1>1, <2>1 DEF SelectInv, TypeTable
<1>7. /\ maxFd' \in {maxFd, n} /\ maxFd' >= maxFd /\ maxFd' >= n /\ maxFd \in Nat
      /\ maxi' \in {maxi, m} /\ maxi' >= maxi /\ maxi' >= m /\ maxi \in Int
  <2>1. maxFd \in Nat /\ maxi \in Int
    BY SelectFacts DEF SelectInv, TypeTable
  <2>2. maxFd' \in {maxFd, n} /\ maxFd' >= maxFd /\ maxFd' >= n
    <3>1. maxFd \in Int /\ n \in Int
      BY <1>4, <2>1
    <3> QED BY <1>1, <3>1, LargerFacts
  <2>3. maxi' \in {maxi, m} /\ maxi' >= maxi /\ maxi' >= m
    <3>1. m \in Int
      BY <1>5
    <3> QED BY <1>1, <2>1, <3>1, LargerFacts
  <2> QED BY <2>1, <2>2, <2>3
<1>8. TypeTable'
  BY <1>1, <1>3, <1>4, <1>5, <1>7 DEF SelectInv, TypeTable
<1>9. Watched'
  <2>1. 0 \in allset' /\ \A f \in Select2!Fds : f \in allset' <=> who'[f] # NONE
    BY <1>1, <1>3, <1>6, SelectFacts DEF SelectInv, Watched
  <2>2. ASSUME NEW f \in Select2!Fds PROVE who'[f] # NONE <=> \E k \in Select2!Slots : client'[k] = f
    <3>1. CASE f = n
      BY <1>3, <1>5, <1>6, <3>1, SelectFacts
    <3>2. CASE f # n
      <4>1. who[f] # NONE <=> \E k \in Select2!Slots : client[k] = f
        BY DEF SelectInv, Watched
      <4>2. f # -1
        BY SelectFacts
      <4>3. (\E k \in Select2!Slots : client[k] = f) <=> (\E k \in Select2!Slots : client'[k] = f)
        BY <1>5, <1>6, <3>2, <4>2
      <4> QED BY <1>6, <3>2, <4>1, <4>3
    <3> QED BY <3>1, <3>2
  <2>3. \A f \in Select2!Fds : f \in allset' => f <= maxFd'
    <3>1. \A f \in Select2!Fds : f \in Nat
      BY SelectFacts
    <3> QED BY <1>1, <1>4, <1>7, <3>1 DEF SelectInv, Watched
  <2>4. \A k \in Select2!Slots : client'[k] \in Select2!Fds => k <= maxi'
    <3>1. \A k \in Select2!Slots : k \in Nat
      BY SelectFacts
    <3>2. maxi' \in Int
      BY <1>5, <1>7
    <3>3. \A k \in Select2!Slots : client[k] \in Select2!Fds => k <= maxi
      BY DEF SelectInv, Watched
    <3> QED BY <1>5, <1>6, <1>7, <3>1, <3>2, <3>3
  <2>5. \A k, l \in Select2!Slots : client'[k] \in Select2!Fds /\ client'[k] = client'[l] => k = l
    BY <1>6 DEF SelectInv, Watched
  <2> QED BY <2>1, <2>2, <2>3, <2>4, <2>5 DEF Watched
<1>10. TypePeers' /\ \A d \in Clients : Talk(tcp2'[d], cst2'[d])
  BY <1>1, <1>3 DEF SelectInv, TypePeers
<1>11. PeersInv'
  <2>1. \A f, g \in Select2!Fds : who'[f] # NONE /\ who'[f] = who'[g] => f = g
    BY <1>3, <1>6 DEF SelectInv, PeersInv
  <2>2. \A f \in Select2!Fds : who'[f] # NONE => tcp2'[who'[f]]["srv"].st # "closed"
    BY <1>1, <1>3, <1>6 DEF SelectInv, PeersInv
  <2>3. \A k \in DOMAIN backlog2' : /\ backlog2'[k] \notin quiet'
                                    /\ tcp2'[backlog2'[k]]["srv"].st # "closed"
                                    /\ \A f \in Select2!Fds : who'[f] # backlog2'[k]
    BY <1>1, <1>3, <1>6 DEF SelectInv, PeersInv
  <2> QED BY <1>3, <2>1, <2>2, <2>3 DEF PeersInv
<1>12. /\ rset \subseteq Select2!Fds \cup {0} /\ n \notin rset
       /\ nready' = Cardinality(rset \ {0}) /\ nready' \in 0 .. Cardinality(Select2!Fds) + 1
       /\ nready' = Cardinality({k \in Select2!Slots : client'[k] \in rset})
  <2>1. rset \subseteq Select2!Fds \cup {0} /\ n \notin rset
    BY <1>2, <1>4 DEF SelectInv, TypePass
  <2>2. IsFiniteSet(rset) /\ Cardinality(rset \ {0}) \in 0 .. Cardinality(Select2!Fds) + 1
    BY <2>1, CountType
  <2>3. Cardinality(rset \ {0}) = nready - 1
    BY <1>2, <2>2, FS_RemoveElement
  <2>4. {k \in Select2!Slots : client'[k] \in rset} = {k \in Select2!Slots : client[k] \in rset \ {0}}
    <3>1. \A k \in Select2!Slots : client[k] # 0 /\ (k = m => client[k] \notin rset)
      <4>1. -1 \notin rset
        BY <2>1, SelectFacts
      <4> QED BY <1>5, <4>1, SelectFacts DEF SelectInv, TypeTable
    <3> QED BY <1>6, <2>1, <3>1
  <2>5. Cardinality({k \in Select2!Slots : client[k] \in rset \ {0}}) = Cardinality(rset \ {0})
    BY <1>2, SlotsOf DEF SelectInv
  <2> QED BY <1>1, <2>1, <2>2, <2>3, <2>4, <2>5
<1>13. \/ spc2' = "select" /\ i2' = 0
       \/ /\ spc2' = "time" /\ i2' \in Select2!Slots /\ client'[i2'] \in Select2!Fds
          /\ \A j \in Select2!Slots : client'[j] \in Select2!Fds => j >= i2'
  <2>1. CASE nready' = 0
    BY <1>1, <1>2, <2>1
  <2>2. CASE nready' # 0
    <3>1. 0 \in 0 .. MAX_ATTARCH_SIZE /\ Select2!Turn(0) /\ \A j \in Select2!Slots : j >= 0
      BY <1>1, <2>2, SelectFacts
    <3>2. \/ spc2' = "select" /\ i2' = 0
          \/ /\ spc2' = "time" /\ i2' \in Select2!Slots /\ i2' >= 0 /\ client'[i2'] \in Select2!Fds
             /\ \A j \in Select2!Slots : j >= 0 /\ client'[j] \in Select2!Fds => j >= i2'
      BY <1>8, <1>9, <3>1, TurnFacts
    <3> QED BY <3>1, <3>2
  <2> QED BY <2>1, <2>2
<1>14. TypePass'
  BY <1>1, <1>12, <1>13, SelectFacts DEF TypePass
<1>15. PassInv'
  <2>1. CASE spc2' = "time"
    <3>1. Ahead(i2)' = {k \in Select2!Slots : client'[k] \in rset}
      <4>1. \A k \in Select2!Slots : client'[k] \in rset => k >= i2'
        <5>1. \A k \in Select2!Slots : client'[k] \in rset => client'[k] \in Select2!Fds
          <6>1. \A k \in Select2!Slots : client'[k] # 0
            BY <1>8, SelectFacts DEF TypeTable
          <6> QED BY <1>12, <6>1
        <5> QED BY <1>13, <2>1, <5>1
      <4> QED BY <1>1, <4>1 DEF Ahead
    <3> QED BY <1>1, <1>12, <1>13, <2>1, <3>1 DEF PassInv
  <2>2. CASE spc2' = "select"
    BY <2>2 DEF PassInv
  <2> QED BY <1>13, <2>1, <2>2
<1>16. QuietInv'
  <2>1. \A d \in quiet' : cst2'[d] = "out"
    BY <1>1 DEF SelectInv, QuietInv
  <2>2. ASSUME NEW f \in Select2!Fds, who'[f] \in quiet
        PROVE  Leaving(f, tcp2[who[f]]["srv"])'
    <3>1. who'[f] = who[f]
      BY <1>3, <1>6, <2>2
    <3>2. Leaving(f, tcp2[who[f]]["srv"])
      BY <2>2, <3>1 DEF SelectInv, QuietInv
    <3>3. tcp2'[who'[f]]["srv"].rx = 0 /\ tcp2'[who'[f]]["srv"].st = "fin" /\ f \in rset'
      BY <1>1, <3>1, <3>2 DEF Leaving
    <3> QED BY <3>3 DEF Leaving
  <2> QED BY <1>1, <2>1, <2>2 DEF QuietInv
<1> QED BY <1>8, <1>9, <1>10, <1>11, <1>14, <1>15, <1>16 DEF SelectInv

\* The client of the current slot.
LEMMA Current2Facts ==
  ASSUME SelectInv, spc2 \in {"time", "read"}
  PROVE  /\ i2 \in Select2!Slots /\ i2 + 1 \in 0 .. MAX_ATTARCH_SIZE /\ client[i2] \in Select2!Fds
         /\ Select2!Cur = who[client[i2]] /\ who[client[i2]] \in Clients
         /\ tcp2[who[client[i2]]]["srv"].st # "closed"
         /\ \A f \in Select2!Fds : who[f] = who[client[i2]] => f = client[i2]
         /\ \A side \in Sides : Select2!SocketOf(side) = tcp2[who[client[i2]]][side]
<1>1. i2 \in Select2!Slots /\ client[i2] \in Select2!Fds
  BY DEF SelectInv, TypePass, PassInv
<1>2. i2 + 1 \in 0 .. MAX_ATTARCH_SIZE
  BY <1>1, SelectFacts
<1>3. who[client[i2]] # NONE
  BY <1>1 DEF SelectInv, Watched
<1>4. who[client[i2]] \in Clients /\ tcp2[who[client[i2]]]["srv"].st # "closed"
      /\ \A f \in Select2!Fds : who[f] = who[client[i2]] => f = client[i2]
  BY <1>1, <1>3 DEF SelectInv, TypeTable, PeersInv
<1>5. Select2!Cur = who[client[i2]] /\ \A side \in Sides : Select2!SocketOf(side) = tcp2[who[client[i2]]][side]
  BY DEF Select2!Cur, Select2!SocketOf
<1> QED BY <1>1, <1>2, <1>4, <1>5

\* What the server does to one connection leaves the clients as they are.
LEMMA ServedPeers ==
  ASSUME SelectInv, NEW c \in Clients, NEW h \in EndsOf(Room), NEW s \in {"out", "new", "sent", "echoed"},
         tcp2' = [tcp2 EXCEPT ![c] = h], cst2' = [cst2 EXCEPT ![c] = s],
         UNCHANGED <<maxi, maxFd, client, allset, who, backlog2, quiet>>,
         h["srv"].st # "closed", Talk(h, s)
  PROVE  /\ TypeTable' /\ TypePeers' /\ Watched' /\ PeersInv'
         /\ \A d \in Clients : Talk(tcp2'[d], cst2'[d])
<1>1. /\ \A d \in Clients : tcp2'[d] = IF d = c THEN h ELSE tcp2[d]
      /\ \A d \in Clients : cst2'[d] = IF d = c THEN s ELSE cst2[d]
      /\ \A f \in Select2!Fds : who[f] # NONE => who[f] \in Clients
      /\ \A k \in DOMAIN backlog2 : backlog2[k] \in Clients
  BY DEF SelectInv, TypePeers, TypeTable
<1>2. TypeTable' /\ Watched'
  BY DEF SelectInv, TypeTable, Watched
<1>3. TypePeers'
  BY DEF SelectInv, TypePeers
<1>4. PeersInv'
  BY <1>1 DEF SelectInv, PeersInv
<1>5. \A d \in Clients : Talk(tcp2'[d], cst2'[d])
  BY <1>1 DEF SelectInv
<1> QED BY <1>1, <1>2, <1>3, <1>4, <1>5

\* The time is written to the current client: one that was reported is read next.
LEMMA WriteTimeKeeps == ASSUME SelectInv, Select2!WriteTime PROVE SelectInv'
<1> DEFINE c == who[client[i2]]
           t == tcp2[c]
           h == Sent(t, "srv")
<1>1. /\ i2 \in Select2!Slots /\ i2 + 1 \in 0 .. MAX_ATTARCH_SIZE /\ client[i2] \in Select2!Fds
      /\ Select2!Cur = c /\ c \in Clients /\ t["srv"].st # "closed"
      /\ \A f \in Select2!Fds : who[f] = c => f = client[i2]
  BY Current2Facts DEF Select2!WriteTime
<1>2. /\ spc2 = "time" /\ Writable(t, "srv", Room) /\ tcp2' = [tcp2 EXCEPT ![c] = h]
      /\ UNCHANGED <<nready, maxi, maxFd, client, allset, rset, who, backlog2, cst2, quiet>>
      /\ \/ client[i2] \in rset /\ spc2' = "read" /\ i2' = i2
         \/ client[i2] \notin rset /\ Select2!Turn(i2 + 1)
  BY <1>1, SameEnds DEF Select2!WriteTime
<1>3. /\ t \in EndsOf(Room) /\ Talk(t, cst2[c]) /\ t["srv"].rx \in Nat /\ t["cli"].rx \in Nat
      /\ cst2[c] \in {"out", "new", "sent", "echoed"}
      /\ t["srv"].st \in {"closed", "open", "fin", "prov", "rst", "pipe"}
  BY <1>1, PeerFacts
<1>4. /\ h \in EndsOf(Room) /\ h["srv"].rx = t["srv"].rx /\ h["cli"].st = t["cli"].st
      /\ h["srv"].st = IF t["srv"].st = "fin" THEN "prov"
                       ELSE IF t["srv"].st = "rst" THEN "pipe" ELSE t["srv"].st
  <2>1. t["srv"].st = "open" => t["cli"].rx < Room
    BY <1>2, OtherFacts DEF Writable
  <2> QED BY <1>3, <2>1, SentFacts, OtherFacts, SelectFacts
<1> HIDE DEF h
<1>5. Talk(h, cst2[c]) /\ h["srv"].st # "closed"
  BY <1>1, <1>3, <1>4 DEF Talk
<1>6. cst2' = [cst2 EXCEPT ![c] = cst2[c]] /\ UNCHANGED <<maxi, maxFd, client, allset, who, backlog2, quiet>>
  BY <1>2 DEF SelectInv, TypePeers
<1>7. /\ TypeTable' /\ TypePeers' /\ Watched' /\ PeersInv'
      /\ \A d \in Clients : Talk(tcp2'[d], cst2'[d])
      /\ \A d \in Clients : tcp2'[d] = IF d = c THEN h ELSE tcp2[d]
  <2>1. c \in Clients /\ cst2[c] \in {"out", "new", "sent", "echoed"} /\ h \in EndsOf(Room)
    BY <1>1, <1>3, <1>4
  <2>2. tcp2' = [tcp2 EXCEPT ![c] = h]
    BY <1>2
  <2>3. \A d \in Clients : tcp2'[d] = IF d = c THEN h ELSE tcp2[d]
    BY <2>2 DEF SelectInv, TypePeers
  <2> HIDE DEF c
  <2> QED BY <1>5, <1>6, <2>1, <2>2, <2>3, ServedPeers
<1>8. \/ client[i2] \in rset /\ spc2' = "read" /\ i2' = i2
      \/ client[i2] \notin rset /\ spc2' = "select" /\ i2' = 0
      \/ /\ client[i2] \notin rset /\ spc2' = "time" /\ i2' \in Select2!Slots /\ i2' >= i2 + 1
         /\ client'[i2'] \in Select2!Fds
         /\ \A j \in Select2!Slots : j >= i2 + 1 /\ client'[j] \in Select2!Fds => j >= i2'
  BY <1>1, <1>2, <1>7, TurnFacts
<1>9. TypePass'
  BY <1>1, <1>2, <1>8, SelectFacts DEF SelectInv, TypePass
<1>10. PassInv'
  <2>1. rset # {} => nready = Cardinality(Ahead(i2))
    BY <1>2 DEF SelectInv, PassInv
  <2>2. CASE spc2' = "read"
    <3>1. Ahead(i2)' = Ahead(i2)
      BY <1>2, <1>8, <2>2 DEF Ahead
    <3> QED BY <1>1, <1>2, <1>8, <2>1, <2>2, <3>1 DEF PassInv
  <2>3. CASE spc2' = "time"
    <3>1. Ahead(i2)' = Ahead(i2)
      <4>1. \A k \in Select2!Slots : client[k] \in rset => client[k] \in Select2!Fds
        <5>1. \A k \in Select2!Slots : client[k] # 0
          BY SelectFacts DEF SelectInv, TypeTable
        <5> QED BY <5>1 DEF SelectInv, TypePass
      <4>2. \A k \in Select2!Slots : k \in Nat
        BY SelectFacts
      <4>3. \A k \in Select2!Slots : client[k] \in rset => (k >= i2 <=> k >= i2')
        BY <1>1, <1>2, <1>8, <2>3, <4>1, <4>2
      <4> QED BY <1>2, <4>3 DEF Ahead
    <3> QED BY <1>2, <1>8, <2>1, <2>3, <3>1 DEF PassInv
  <2>4. CASE spc2' = "select"
    BY <2>4 DEF PassInv
  <2> QED BY <1>8, <2>2, <2>3, <2>4
<1>11. QuietInv'
  <2>1. \A d \in quiet' : cst2'[d] = "out"
    BY <1>2 DEF SelectInv, QuietInv
  <2>2. ASSUME NEW f \in Select2!Fds, who[f] \in quiet
        PROVE  Leaving(f, tcp2[who[f]]["srv"])'
    <3>1. who[f] \in Clients /\ Leaving(f, tcp2[who[f]]["srv"])
      BY <2>2 DEF SelectInv, QuietInv, TypePeers
    <3>2. tcp2[who[f]]["srv"].rx = 0 /\ tcp2[who[f]]["srv"].st = "fin" /\ f \in rset
      BY <1>2, <3>1 DEF Leaving
    <3>3. CASE who[f] = c
      <4>1. f = client[i2] /\ spc2' = "read" /\ i2' = i2
        BY <1>1, <1>8, <3>2, <3>3
      <4>2. tcp2'[who[f]]["srv"].rx = 0 /\ tcp2'[who[f]]["srv"].st = "prov"
        BY <1>4, <1>7, <3>1, <3>2, <3>3
      <4> QED BY <1>2, <3>2, <4>1, <4>2 DEF Leaving
    <3>4. CASE who[f] # c
      <4>1. tcp2'[who[f]] = tcp2[who[f]]
        BY <1>7, <3>1, <3>4
      <4> QED BY <1>2, <3>2, <4>1 DEF Leaving
    <3> QED BY <3>3, <3>4
  <2> QED BY <1>2, <2>1, <2>2 DEF QuietInv
<1> QED BY <1>7, <1>9, <1>10, <1>11 DEF SelectInv

\* A reported descriptor has been dealt with: those that are left are ahead, and if
\* there are none the pass is over.
LEMMA CountedKeeps ==
  ASSUME SelectInv, spc2 = "read", TypeTable', Watched', Select2!Counted,
         \A k \in Select2!Slots : k # i2 => client'[k] = client[k],
         client'[i2] \in {client[i2], -1}
  PROVE  TypePass' /\ PassInv' /\ spc2' \in {"select", "time"} /\ rset' = rset
<1>1. /\ nready' = nready - 1 /\ rset' = rset
      /\ \/ nready' = 0 /\ spc2' = "select" /\ i2' = 0
         \/ nready' # 0 /\ Select2!Turn(i2 + 1)
  BY DEF Select2!Counted
<1>2. i2 \in Select2!Slots /\ i2 + 1 \in 0 .. MAX_ATTARCH_SIZE /\ client[i2] \in rset /\ i2 \in Nat
  BY Current2Facts, SelectFacts DEF SelectInv, PassInv
<1>3. nready = Cardinality(Ahead(i2)) /\ i2 \in Ahead(i2)
  BY <1>2 DEF SelectInv, PassInv, Ahead
<1>4. IsFiniteSet(Ahead(i2))
  <2>1. Ahead(i2) \in SUBSET Select2!Slots
    BY DEF Ahead
  <2> QED BY <2>1, SelectFacts, FS_Subset
<1>5. nready' = Cardinality(Ahead(i2) \ {i2}) /\ nready' \in Nat
  <2>1. IsFiniteSet(Ahead(i2) \ {i2}) /\ Cardinality(Ahead(i2) \ {i2}) = Cardinality(Ahead(i2)) - 1
    BY <1>3, <1>4, FS_RemoveElement
  <2> QED BY <1>1, <1>3, <2>1, FS_CardinalityType
<1>6. \/ spc2' = "select" /\ i2' = 0
      \/ /\ spc2' = "time" /\ i2' \in Select2!Slots /\ i2' >= i2 + 1 /\ client'[i2'] \in Select2!Fds
         /\ \A j \in Select2!Slots : j >= i2 + 1 /\ client'[j] \in Select2!Fds => j >= i2'
  BY <1>1, <1>2, TurnFacts
<1>7. TypePass'
  <2>1. nready' \in 0 .. Cardinality(Select2!Fds) + 1
    BY <1>1, <1>5, SelectFacts DEF SelectInv, TypePass
  <2> QED BY <1>1, <1>6, <2>1, SelectFacts DEF SelectInv, TypePass
<1>8. PassInv'
  <2>1. CASE spc2' = "time"
    <3>1. Ahead(i2)' = Ahead(i2) \ {i2}
      <4>1. \A k \in Select2!Slots : k \in Nat
        BY SelectFacts
      <4>2. \A k \in Select2!Slots : client[k] \in rset => client[k] \in Select2!Fds
        <5>1. \A k \in Select2!Slots : client[k] # 0
          BY SelectFacts DEF SelectInv, TypeTable
        <5> QED BY <5>1 DEF SelectInv, TypePass
      <4>3. \A k \in Select2!Slots : k >= i2' => k # i2 /\ k >= i2
        <5>1. i2' \in Nat /\ i2' >= i2 + 1
          BY <1>6, <2>1, <4>1
        <5> QED BY <1>2, <4>1, <5>1
      <4>4. \A k \in Select2!Slots : k >= i2 /\ k # i2 => k >= i2 + 1 /\ client'[k] = client[k]
        BY <1>2, <4>1
      <4>5. \A k \in Select2!Slots : k >= i2' /\ client'[k] \in rset <=> k >= i2 /\ k # i2 /\ client[k] \in rset
        BY <1>6, <2>1, <4>2, <4>3, <4>4
      <4> QED BY <1>1, <4>5 DEF Ahead
    <3> QED BY <1>5, <1>6, <2>1, <3>1 DEF PassInv
  <2>2. CASE spc2' = "select"
    BY <2>2 DEF PassInv
  <2> QED BY <1>6, <2>1, <2>2
<1> QED BY <1>1, <1>6, <1>7, <1>8

\* A client that is leaving and not the current one stays so.
LEMMA LeavingKeeps ==
  ASSUME SelectInv, spc2 = "read", NEW f \in Select2!Fds, who[f] \in quiet, f # client[i2],
         rset' = rset, spc2' \in {"select", "time"}, NEW e, e = tcp2[who[f]]["srv"]
  PROVE  /\ e.rx = 0 /\ e.st = "fin"
         /\ spc2' \in {"accept", "time", "read"} => f \in rset'
<1>1. Leaving(f, tcp2[who[f]]["srv"])
  BY DEF SelectInv, QuietInv
<1> QED BY <1>1 DEF Leaving

\* What was read is written back.
LEMMA EchoKeeps == ASSUME SelectInv, Select2!Echo PROVE SelectInv'
<1> DEFINE c == who[client[i2]]
           t == tcp2[c]
           r == Received(t, "srv")
           h == Sent(r, "srv")
           s == IF cst2[c] = "sent" THEN "echoed" ELSE cst2[c]
<1>1. /\ i2 \in Select2!Slots /\ client[i2] \in Select2!Fds /\ Select2!Cur = c /\ c \in Clients /\ t["srv"].st # "closed"
      /\ \A f \in Select2!Fds : who[f] = c => f = client[i2]
      /\ Select2!SocketOf("srv") = t["srv"]
  BY Current2Facts, OtherFacts DEF Select2!Echo
<1>2. /\ spc2 = "read" /\ t["srv"].rx > 0 /\ Writable(t, "srv", Room)
      /\ tcp2' = [tcp2 EXCEPT ![c] = h] /\ cst2' = [cst2 EXCEPT ![c] = s]
      /\ UNCHANGED <<client, allset, who>> /\ Select2!Counted
  BY <1>1, SameEnds DEF Select2!Echo
<1>3. UNCHANGED <<maxi, maxFd, client, allset, who, backlog2, quiet>>
  BY <1>2 DEF Select2!Counted
<1>4. /\ t \in EndsOf(Room) /\ Talk(t, cst2[c]) /\ t["srv"].rx \in Nat /\ t["cli"].rx \in Nat
      /\ cst2[c] \in {"out", "new", "sent", "echoed"}
      /\ t["srv"].st \in {"closed", "open", "fin", "prov", "rst", "pipe"}
  BY <1>1, PeerFacts
<1>5. r \in EndsOf(Room) /\ r["srv"].rx = t["srv"].rx - 1 /\ r["srv"].st = t["srv"].st /\ r["cli"] = t["cli"]
  BY <1>2, <1>4, ReceivedFacts, OtherFacts, SelectFacts
<1> HIDE DEF r
<1>6. /\ h \in EndsOf(Room) /\ h["srv"].rx = t["srv"].rx - 1 /\ h["cli"].st = t["cli"].st
      /\ h["srv"].st = IF t["srv"].st = "fin" THEN "prov"
                       ELSE IF t["srv"].st = "rst" THEN "pipe" ELSE t["srv"].st
  <2>1. r["srv"].st = "open" => r["cli"].rx < Room
    BY <1>2, <1>5, OtherFacts DEF Writable
  <2> QED BY <1>5, <2>1, SentFacts, OtherFacts, SelectFacts
<1> HIDE DEF h
<1>7. Talk(h, s) /\ h["srv"].st # "closed" /\ s \in {"out", "new", "sent", "echoed"}
  <2>1. s \in {"out", "new", "sent", "echoed"} /\ (s = "out" <=> cst2[c] = "out")
    BY <1>4
  <2> HIDE DEF s
  <2>2. h["srv"].rx = 0
    <3>1. t["srv"].rx <= 1
      BY <1>4, Zenon DEF Talk
    <3> QED BY <1>2, <1>4, <1>6, <3>1
  <2>3. h["srv"].st \in {"fin", "prov", "rst", "pipe"} => t["srv"].st \in {"fin", "prov", "rst", "pipe"}
    BY <1>6
  <2>4. h["cli"].st = "closed" <=> s = "out"
    BY <1>4, <1>6, <2>1, Zenon DEF Talk
  <2>5. h["srv"].st \in {"fin", "prov", "rst", "pipe"} => h["cli"].st = "closed"
    BY <1>4, <1>6, <2>3, Zenon DEF Talk
  <2>6. h["srv"].st # "closed"
    BY <1>1, <1>6
  <2>7. h["srv"].rx <= 1
    BY <2>2
  <2> QED BY <2>1, <2>2, <2>4, <2>5, <2>6, <2>7, Zenon DEF Talk
<1>8. c \notin quiet
  BY <1>1, <1>2 DEF SelectInv, QuietInv, Leaving
<1>9. /\ \A d \in Clients : tcp2'[d] = IF d = c THEN h ELSE tcp2[d]
      /\ \A d \in Clients : cst2'[d] = IF d = c THEN s ELSE cst2[d]
  BY <1>2 DEF SelectInv, TypePeers
<1> HIDE DEF c, s
<1>10. /\ TypeTable' /\ TypePeers' /\ Watched' /\ PeersInv'
       /\ \A d \in Clients : Talk(tcp2'[d], cst2'[d])
  BY <1>1, <1>2, <1>3, <1>6, <1>7, ServedPeers
<1>11. TypePass' /\ PassInv' /\ spc2' \in {"select", "time"} /\ rset' = rset
  BY <1>2, <1>10, CountedKeeps
<1>12. QuietInv'
  <2>1. \A d \in quiet' : cst2'[d] = "out"
    BY <1>3, <1>8, <1>9 DEF SelectInv, QuietInv, TypePeers
  <2>2. ASSUME NEW f \in Select2!Fds, who[f] \in quiet
        PROVE  Leaving(f, tcp2[who[f]]["srv"])'
    <3>1. tcp2'[who[f]]["srv"] = tcp2[who[f]]["srv"] /\ f # client[i2]
      BY <1>8, <1>9, <2>2 DEF SelectInv, TypePeers, c
    <3>2. /\ tcp2[who[f]]["srv"].rx = 0 /\ tcp2[who[f]]["srv"].st = "fin"
          /\ spc2' \in {"accept", "time", "read"} => f \in rset'
      BY <1>2, <1>11, <2>2, <3>1, LeavingKeeps
    <3> QED BY <1>3, <3>1, <3>2 DEF Leaving
  <2> QED BY <1>3, <2>1, <2>2 DEF QuietInv
<1> QED BY <1>10, <1>11, <1>12 DEF SelectInv

\* A read of a connection that was reset: the client stays in the table.
LEMMA ReadFailsKeeps == ASSUME SelectInv, Select2!ReadFails PROVE SelectInv'
<1> DEFINE c == who[client[i2]]
           t == tcp2[c]
           h == ResetAt(t, "srv")
<1>1. /\ i2 \in Select2!Slots /\ client[i2] \in Select2!Fds /\ Select2!Cur = c /\ c \in Clients
      /\ \A f \in Select2!Fds : who[f] = c => f = client[i2]
      /\ Select2!SocketOf("srv") = t["srv"]
  BY Current2Facts, OtherFacts DEF Select2!ReadFails
<1>2. /\ t \in EndsOf(Room) /\ Talk(t, cst2[c]) /\ t["srv"].rx \in Nat
      /\ cst2[c] \in {"out", "new", "sent", "echoed"} /\ t.srv = t["srv"]
  BY <1>1, PeerFacts
<1>3. tcp2' = [tcp2 EXCEPT ![c] = h]
  <2>1. tcp2' = [tcp2 EXCEPT ![c] = [t EXCEPT !["srv"] = [t["srv"] EXCEPT !.st = "pipe"]]]
    BY <1>1, Zenon DEF Select2!ReadFails
  <2>2. h = [t EXCEPT !["srv"] = [t["srv"] EXCEPT !.st = "pipe"]]
    BY Zenon DEF ResetAt
  <2> HIDE DEF h
  <2> QED BY <2>1, <2>2
<1>4. /\ spc2 = "read" /\ t["srv"].rx = 0 /\ t["srv"].st = "rst"
      /\ UNCHANGED <<client, allset, who, cst2>> /\ Select2!Counted
  BY <1>1 DEF Select2!ReadFails
<1>5. UNCHANGED <<maxi, maxFd, client, allset, who, backlog2, quiet>>
  BY <1>4 DEF Select2!Counted
<1>6. h \in EndsOf(Room) /\ h["srv"].st = "pipe" /\ h["srv"].rx = t["srv"].rx /\ h["cli"] = t["cli"]
  BY <1>2, ResetFacts, OtherFacts, SelectFacts
<1> HIDE DEF h
<1>7. Talk(h, cst2[c]) /\ h["srv"].st # "closed" /\ cst2' = [cst2 EXCEPT ![c] = cst2[c]]
  BY <1>2, <1>4, <1>6 DEF Talk, SelectInv, TypePeers
<1>8. c \notin quiet
  BY <1>1, <1>4 DEF SelectInv, QuietInv, Leaving
<1>9. \A d \in Clients : tcp2'[d] = IF d = c THEN h ELSE tcp2[d]
  BY <1>3 DEF SelectInv, TypePeers
<1> HIDE DEF c
<1>10. /\ TypeTable' /\ TypePeers' /\ Watched' /\ PeersInv'
       /\ \A d \in Clients : Talk(tcp2'[d], cst2'[d])
  BY <1>1, <1>2, <1>3, <1>5, <1>6, <1>7, ServedPeers
<1>11. TypePass' /\ PassInv' /\ spc2' \in {"select", "time"} /\ rset' = rset
  BY <1>4, <1>10, CountedKeeps
<1>12. QuietInv'
  <2>1. \A d \in quiet' : cst2'[d] = "out"
    BY <1>4, <1>5 DEF SelectInv, QuietInv
  <2>2. ASSUME NEW f \in Select2!Fds, who[f] \in quiet
        PROVE  Leaving(f, tcp2[who[f]]["srv"])'
    <3>1. tcp2'[who[f]]["srv"] = tcp2[who[f]]["srv"] /\ f # client[i2]
      BY <1>8, <1>9, <2>2 DEF SelectInv, TypePeers, c
    <3>2. /\ tcp2[who[f]]["srv"].rx = 0 /\ tcp2[who[f]]["srv"].st = "fin"
          /\ spc2' \in {"accept", "time", "read"} => f \in rset'
      BY <1>4, <1>11, <2>2, <3>1, LeavingKeeps
    <3> QED BY <1>5, <3>1, <3>2 DEF Leaving
  <2> QED BY <1>5, <2>1, <2>2 DEF QuietInv
<1> QED BY <1>10, <1>11, <1>12 DEF SelectInv

\* The current client has left: its slot and its descriptor are free again.
LEMMA CloseKeeps == ASSUME SelectInv, Select2!Close PROVE SelectInv'
<1> DEFINE g == client[i2]
           c == who[g]
           t == tcp2[c]
           h == Closed(t, "srv")
<1>1. /\ i2 \in Select2!Slots /\ g \in Select2!Fds /\ Select2!Cur = c /\ c \in Clients
      /\ \A f \in Select2!Fds : who[f] = c => f = g
      /\ Select2!SocketOf("srv") = t["srv"]
  BY Current2Facts, OtherFacts DEF Select2!Close
<1>2. /\ spc2 = "read" /\ tcp2' = [tcp2 EXCEPT ![c] = h] /\ allset' = allset \ {g}
      /\ client' = [client EXCEPT ![i2] = -1] /\ who' = [who EXCEPT ![g] = NONE] /\ cst2' = cst2 /\ Select2!Counted
  BY <1>1, SameEnds DEF Select2!Close
<1>3. UNCHANGED <<maxi, maxFd, backlog2, quiet>>
  BY <1>2 DEF Select2!Counted
<1>4. /\ t \in EndsOf(Room) /\ Talk(t, cst2[c]) /\ t["srv"].rx \in Nat
      /\ cst2[c] \in {"out", "new", "sent", "echoed"}
  BY <1>1, PeerFacts
<1>5. /\ h \in EndsOf(Room) /\ h["srv"].st = "closed" /\ h["srv"].rx = 0
      /\ h["cli"].st = IF t["cli"].st # "open" THEN t["cli"].st ELSE IF t["srv"].rx > 0 THEN "rst" ELSE "fin"
  BY <1>4, ServerCloses, SelectFacts
<1> HIDE DEF h
<1>6. Talk(h, cst2[c])
  BY <1>4, <1>5 DEF Talk
<1>7. \A d \in Clients : tcp2'[d] = IF d = c THEN h ELSE tcp2[d]
  BY <1>2 DEF SelectInv, TypePeers
<1>8. /\ \A k \in Select2!Slots : client'[k] = IF k = i2 THEN -1 ELSE client[k]
      /\ \A f \in Select2!Fds : who'[f] = IF f = g THEN NONE ELSE who[f]
      /\ \A k \in Select2!Slots : client[k] = g => k = i2
  <2>1. \A k \in Select2!Slots : client[k] = g => k = i2
    BY <1>1 DEF SelectInv, Watched
  <2> QED BY <1>2, <2>1 DEF SelectInv, TypeTable
<1>9. TypeTable'
  <2>1. client' \in [Select2!Slots -> Select2!Fds \cup {-1}]
    BY <1>2 DEF SelectInv, TypeTable
  <2>2. who' \in [Select2!Fds -> Clients \cup {NONE}]
    BY <1>2 DEF SelectInv, TypeTable
  <2> QED BY <1>2, <1>3, <2>1, <2>2 DEF SelectInv, TypeTable
<1>10. TypePeers'
  BY <1>2, <1>3, <1>5 DEF SelectInv, TypePeers
<1> HIDE DEF g, c
<1>11. Watched'
  <2>1. 0 \in allset' /\ \A f \in Select2!Fds : f \in allset' <=> who'[f] # NONE
    BY <1>1, <1>2, <1>8, SelectFacts DEF SelectInv, Watched
  <2>2. ASSUME NEW f \in Select2!Fds PROVE who'[f] # NONE <=> \E k \in Select2!Slots : client'[k] = f
    <3>1. who[f] # NONE <=> \E k \in Select2!Slots : client[k] = f
      BY DEF SelectInv, Watched
    <3>2. f # -1
      BY SelectFacts
    <3>3. CASE f = g
      BY <1>8, <3>2, <3>3
    <3>4. CASE f # g
      <4>1. client[i2] # f
        BY <3>4 DEF g
      <4>2. (\E k \in Select2!Slots : client[k] = f) <=> (\E k \in Select2!Slots : client'[k] = f)
        BY <1>8, <3>2, <4>1
      <4> QED BY <1>8, <3>1, <3>4, <4>2
    <3> QED BY <3>3, <3>4
  <2>3. \A f \in Select2!Fds : f \in allset' => f <= maxFd'
    BY <1>2, <1>3 DEF SelectInv, Watched
  <2>4. \A k \in Select2!Slots : client'[k] \in Select2!Fds => k <= maxi'
    BY <1>3, <1>8, SelectFacts DEF SelectInv, Watched
  <2>5. \A k, l \in Select2!Slots : client'[k] \in Select2!Fds /\ client'[k] = client'[l] => k = l
    BY <1>8, SelectFacts DEF SelectInv, Watched
  <2> QED BY <2>1, <2>2, <2>3, <2>4, <2>5 DEF Watched
<1>12. PeersInv'
  <2>1. \A f, e \in Select2!Fds : who'[f] # NONE /\ who'[f] = who'[e] => f = e
    BY <1>8 DEF SelectInv, PeersInv
  <2>2. \A f \in Select2!Fds : who'[f] # NONE => who'[f] = who[f] /\ who[f] # c /\ who[f] \in Clients
    BY <1>1, <1>8 DEF SelectInv, TypeTable
  <2>3. \A f \in Select2!Fds : who'[f] # NONE => tcp2'[who'[f]]["srv"].st # "closed"
    BY <1>7, <2>2 DEF SelectInv, PeersInv
  <2>4. \A k \in DOMAIN backlog2 : backlog2[k] # c /\ backlog2[k] \in Clients
    <3>1. c = who[g]
      BY DEF c
    <3> QED BY <1>1, <3>1 DEF SelectInv, PeersInv, TypePeers
  <2>5. \A k \in DOMAIN backlog2' : /\ backlog2'[k] \notin quiet'
                                    /\ tcp2'[backlog2'[k]]["srv"].st # "closed"
                                    /\ \A f \in Select2!Fds : who'[f] # backlog2'[k]
    BY <1>3, <1>7, <1>8, <2>4, SelectFacts DEF SelectInv, PeersInv
  <2> QED BY <1>3, <2>1, <2>3, <2>5 DEF SelectInv, PeersInv
<1>13. \A d \in Clients : Talk(tcp2'[d], cst2'[d])
  BY <1>2, <1>6, <1>7 DEF SelectInv
<1>14. TypePass' /\ PassInv' /\ spc2' \in {"select", "time"} /\ rset' = rset
  <2>1. client'[i2] \in {client[i2], -1} /\ \A k \in Select2!Slots : k # i2 => client'[k] = client[k]
    BY <1>1, <1>8
  <2> QED BY <1>2, <1>9, <1>11, <2>1, CountedKeeps
<1>15. QuietInv'
  <2>1. \A d \in quiet' : cst2'[d] = "out"
    BY <1>2, <1>3 DEF SelectInv, QuietInv
  <2>2. ASSUME NEW f \in Select2!Fds, who'[f] \in quiet
        PROVE  Leaving(f, tcp2[who[f]]["srv"])'
    <3>1. who'[f] = who[f] /\ who[f] \in quiet /\ f # g /\ who[f] \in Clients
      BY <1>8, <2>2, SelectFacts DEF SelectInv, TypePeers
    <3>2. tcp2'[who'[f]]["srv"] = tcp2[who[f]]["srv"]
      BY <1>1, <1>7, <3>1
    <3>3. /\ tcp2[who[f]]["srv"].rx = 0 /\ tcp2[who[f]]["srv"].st = "fin"
          /\ spc2' \in {"accept", "time", "read"} => f \in rset'
      BY <1>2, <1>14, <3>1, LeavingKeeps DEF g
    <3> QED BY <3>2, <3>3 DEF Leaving
  <2> QED BY <1>3, <2>1, <2>2 DEF QuietInv
<1> QED BY <1>9, <1>10, <1>11, <1>12, <1>13, <1>14, <1>15 DEF SelectInv

\* A table without clients.
LEMMA EmptyTable ==
  ASSUME i2 = 0, nready = 0, maxi = -1, maxFd = 0, client = [k \in Select2!Slots |-> -1], allset = {0}, rset = {},
         who = [f \in Select2!Fds |-> NONE], backlog2 = <<>>, spc2 \in {"select", "exit", "killed"}
  PROVE  /\ TypePass /\ TypeTable /\ Watched /\ PeersInv /\ PassInv /\ backlog2 \in Seq(Clients)
         /\ \A f \in Select2!Fds : who[f] = NONE
<1>1. TypePass
  BY SelectFacts DEF TypePass
<1>2. TypeTable
  BY DEF TypeTable
<1>3. Watched
  BY SelectFacts DEF Watched
<1>4. PeersInv
  BY DEF PeersInv
<1>5. PassInv
  BY DEF PassInv
<1> QED BY <1>1, <1>2, <1>3, <1>4, <1>5

\* The process ends: every connection is closed or refused.
LEMMA GoneKeeps ==
  ASSUME SelectInv, NEW how \in {"exit", "killed"}, Select2!Gone(how)
  PROVE  SelectInv'
<1>1. /\ spc2' = how /\ i2' = 0 /\ nready' = 0 /\ maxi' = -1 /\ maxFd' = 0
      /\ client' = [k \in Select2!Slots |-> -1] /\ allset' = {0} /\ rset' = {}
      /\ who' = [f \in Select2!Fds |-> NONE] /\ backlog2' = <<>> /\ UNCHANGED <<cst2, quiet>>
  BY SelectFacts DEF Select2!Gone
<1>2. /\ TypePass' /\ TypeTable' /\ Watched' /\ PeersInv' /\ PassInv' /\ backlog2' \in Seq(Clients)
      /\ \A f \in Select2!Fds : who'[f] = NONE
  <2>1. TypePass'
    BY <1>1, SelectFacts DEF TypePass
  <2>2. TypeTable'
    BY <1>1 DEF TypeTable
  <2>3. Watched'
    BY <1>1, SelectFacts DEF Watched
  <2>4. PeersInv'
    BY <1>1 DEF PeersInv
  <2>5. PassInv'
    BY <1>1 DEF PassInv
  <2> QED BY <1>1, <2>1, <2>2, <2>3, <2>4, <2>5
<1>3. tcp2' = [c \in Clients |-> IF c \in Range(backlog2) THEN Refused(tcp2[c])
                                 ELSE IF c \in Range(who) THEN Closed(tcp2[c], "srv") ELSE tcp2[c]]
  BY SameEnds, SameSets DEF Select2!Gone
<1>4. ASSUME NEW c \in Clients
      PROVE  tcp2'[c] \in EndsOf(Room) /\ Talk(tcp2'[c], cst2[c])
  <2> DEFINE t == tcp2[c]
  <2>1. t \in EndsOf(Room) /\ Talk(t, cst2[c]) /\ t["srv"].rx \in Nat
    BY PeerFacts
  <2>2. CASE tcp2'[c] = Refused(t)
    <3> DEFINE h == Refused(t)
    <3>1. /\ h \in EndsOf(Room) /\ h["srv"].st = "closed" /\ h["srv"].rx = 0
          /\ h["cli"].st = IF t["cli"].st # "open" THEN t["cli"].st ELSE "rst"
      BY <2>1, RefusedFacts, FreshFacts, SelectFacts
    <3> HIDE DEF h
    <3>2. Talk(h, cst2[c])
      BY <2>1, <3>1 DEF Talk
    <3> QED BY <2>2, <3>1, <3>2 DEF h
  <2>3. CASE tcp2'[c] = Closed(t, "srv")
    <3> DEFINE h == Closed(t, "srv")
    <3>1. /\ h \in EndsOf(Room) /\ h["srv"].st = "closed" /\ h["srv"].rx = 0
          /\ h["cli"].st = IF t["cli"].st # "open" THEN t["cli"].st ELSE IF t["srv"].rx > 0 THEN "rst" ELSE "fin"
      <4>1. Room \in Nat /\ "srv" \in Sides /\ Other("srv") = "cli"
        BY SelectFacts, OtherFacts
      <4>2. NoEnd.rx = 0 /\ NoEnd.st = "closed"
        BY <4>1, FreshFacts
      <4> QED BY <2>1, <4>1, <4>2, ClosedFacts
    <3> HIDE DEF h
    <3>2. Talk(h, cst2[c])
      BY <2>1, <3>1 DEF Talk
    <3> QED BY <2>3, <3>1, <3>2 DEF h
  <2>4. CASE tcp2'[c] = t
    BY <2>1, <2>4
  <2> QED BY <1>3, <2>2, <2>3, <2>4
<1>5. TypePeers'
  <2>1. tcp2' \in [Clients -> EndsOf(Room)]
    <3>1. tcp2' = [c \in Clients |-> tcp2'[c]]
      BY <1>3
    <3> QED BY <1>4, <3>1
  <2> QED BY <1>1, <1>2, <2>1 DEF SelectInv, TypePeers
<1>6. QuietInv'
  <2>1. NONE \notin quiet'
    BY <1>1, SelectFacts DEF SelectInv, TypePeers
  <2> QED BY <1>1, <1>2, <2>1 DEF SelectInv, QuietInv
<1> QED BY <1>1, <1>2, <1>4, <1>5, <1>6 DEF SelectInv

\* The server has no client at first.
LEMMA SelectInit == Select2!Init => SelectInv
<1> SUFFICES ASSUME Select2!Init PROVE SelectInv
  OBVIOUS
<1>1. /\ spc2 = "select" /\ i2 = 0 /\ nready = 0 /\ maxi = -1 /\ maxFd = 0
      /\ client = [k \in Select2!Slots |-> -1] /\ allset = {0} /\ rset = {}
      /\ who = [f \in Select2!Fds |-> NONE] /\ backlog2 = <<>> /\ quiet = {}
      /\ tcp2 = [c \in Clients |-> NoConnection] /\ cst2 = [c \in Clients |-> "out"]
  BY SelectFacts, SameEnds DEF Select2!Init
<1>2. /\ TypePass /\ TypeTable /\ Watched /\ PeersInv /\ PassInv /\ backlog2 \in Seq(Clients)
      /\ \A f \in Select2!Fds : who[f] = NONE
  BY <1>1, EmptyTable
<1>3. /\ NoConnection \in EndsOf(Room) /\ NoConnection["srv"].st = "closed" /\ NoConnection["srv"].rx = 0
      /\ NoConnection["cli"].st = "closed"
  BY FreshFacts, SelectFacts
<1>4. TypePeers /\ QuietInv
  BY <1>1, <1>2, <1>3 DEF TypePeers, QuietInv
<1>5. \A c \in Clients : Talk(tcp2[c], cst2[c])
  <2>1. Talk(NoConnection, "out")
    BY <1>3 DEF Talk
  <2> QED BY <1>1, <2>1
<1> QED BY <1>2, <1>4, <1>5 DEF SelectInv

\* Every step keeps the invariant.
LEMMA SelectStep == SelectInv /\ [Select2!Next]_(Select2!vars) => SelectInv'
<1> SUFFICES ASSUME SelectInv, [Select2!Next]_(Select2!vars) PROVE SelectInv'
  OBVIOUS
<1>1. CASE Select2!Select \/ Select2!Accept \/ Select2!WriteTime \/ Select2!Echo \/ Select2!ReadFails \/ Select2!Close
  BY <1>1, Select2Keeps, Accept2Keeps, WriteTimeKeeps, EchoKeeps, ReadFailsKeeps, CloseKeeps
<1>2. CASE Select2!Exit \/ Select2!Killed
  <2>1. Select2!Gone("exit") \/ Select2!Gone("killed")
    BY <1>2 DEF Select2!Exit, Select2!Killed
  <2> QED BY <2>1, GoneKeeps
<1>3. CASE \E c \in Clients : \/ Select2!Connect(c) \/ Select2!ClientSends(c) \/ Select2!ClientReceives(c)
                              \/ Select2!ClientStopped(c) \/ Select2!ResetArrives(c)
  BY <1>3, Connect2Keeps, SendsKeeps, ReceivesKeeps, Stopped2Keeps, Reset2Keeps
<1>4. CASE UNCHANGED Select2!vars
  BY <1>4 DEF Select2!vars, Select2!server, SelectInv, TypePass, TypeTable, TypePeers, Watched, PeersInv, PassInv,
              QuietInv, Leaving, Ahead
<1> QED BY <1>1, <1>2, <1>3, <1>4 DEF Select2!Next, Select2!Ended

\* The invariant says of sets and counts what it says of slots and descriptors.
LEMMA SelectFollows == SelectInv => SelectWatchesAll
<1> SUFFICES ASSUME SelectInv PROVE SelectWatchesAll
  OBVIOUS
<1>1. Select2!TypeOK
  <2>1. Range(backlog2) \subseteq Clients
    BY DEF SelectInv, TypePeers, Range
  <2>2. tcp2 \in [Clients -> [Select2!Sides -> Select2!End(Room)]]
    BY SameEnds DEF SelectInv, TypePeers, EndsOf
  <2>3. nready \in 0 .. Select2!Cardinality(Select2!Fds) + 1 /\ Select2!Range(backlog2) \subseteq Clients
    BY <2>1, SameSets DEF SelectInv, TypePass
  <2> QED BY <2>2, <2>3, SelectFacts DEF SelectInv, TypePass, TypeTable, TypePeers, Select2!TypeOK
<1>2. Select2!NreadyIsExact
  <2> SUFFICES ASSUME spc2 \in {"time", "read"}, rset # {}
               PROVE  nready = Cardinality({k \in i2 .. maxi : client[k] \in rset})
    BY SameSets DEF Select2!NreadyIsExact
  <2>1. \A k \in Select2!Slots : client[k] \in rset => client[k] \in Select2!Fds /\ k <= maxi
    <3>1. \A k \in Select2!Slots : client[k] # 0
      BY SelectFacts DEF SelectInv, TypeTable
    <3> QED BY <3>1 DEF SelectInv, TypePass, Watched
  <2>2. i2 \in Select2!Slots /\ maxi \in Select2!Slots \cup {-1}
    BY DEF SelectInv, TypePass, TypeTable
  <2>3. \A k : k \in i2 .. maxi /\ client[k] \in rset <=> k \in Select2!Slots /\ k >= i2 /\ client[k] \in rset
    BY <2>1, <2>2, SelectFacts
  <2>4. {k \in i2 .. maxi : client[k] \in rset} = Ahead(i2)
    BY <2>3 DEF Ahead
  <2> QED BY <2>4 DEF SelectInv, PassInv
<1>3. Select2!EverybodyIsWatched
  <2>1. \A f : f \in Range(client) \ {-1} <=> f \in Select2!Fds /\ \E k \in Select2!Slots : client[k] = f
    BY SelectFacts DEF Range, SelectInv, TypeTable
  <2>2. Range(client) \ {-1} = {f \in Select2!Fds : who[f] # NONE}
    BY <2>1 DEF SelectInv, Watched
  <2>3. allset = {0} \cup (Range(client) \ {-1})
    BY <2>2 DEF SelectInv, Watched, TypeTable
  <2>4. \A f \in allset : f <= maxFd
    <3>1. 0 <= maxFd
      BY SelectFacts DEF SelectInv, TypeTable
    <3> QED BY <3>1 DEF SelectInv, Watched, TypeTable
  <2>5. \A k \in Select2!Slots : client[k] >= 0 => client[k] \in Select2!Fds
    BY SelectFacts DEF SelectInv, TypeTable
  <2>6. \A k \in Select2!Slots : client[k] >= 0 => k <= maxi /\ \A j \in Select2!Slots \ {k} : client[j] # client[k]
    BY <2>5 DEF SelectInv, Watched
  <2> QED BY <2>2, <2>3, <2>4, <2>6, SameSets, SelectFacts DEF Select2!EverybodyIsWatched
<1> QED BY <1>1, <1>2, <1>3 DEF SelectWatchesAll

\* SelectServer, for every number of slots and clients and every room in the
\* sockets: nready counts the reported clients that the loop has not reached, so
\* that leaving it early skips none, and slots, descriptors, maxi, maxFd and allset
\* agree after any sequence of accepts and closes.
THEOREM SelectServerWatches == Select2!Spec => []SelectWatchesAll
<1>1. Select2!Spec => []SelectInv
  BY SelectInit, SelectStep, PTL DEF Select2!Spec
<1> QED BY <1>1, SelectFollows, PTL

\* SelectServer: the end of the stream of a client that left with nothing unread is
\* read before a second time is written to it, so that it kills nobody.
THEOREM QuietLeavers == Select2!Spec => QuietLeaversAreHarmless
<1> DEFINE Harmless == (spc2 \in {"time", "read"} /\ spc2' = "killed") => Select2!Cur \notin quiet
<1>1. SelectInv /\ [Select2!Next]_(Select2!vars) => [Harmless]_(Select2!vars)
  <2> SUFFICES ASSUME SelectInv, Select2!Next, spc2 \in {"time", "read"}, spc2' = "killed"
               PROVE  Select2!Cur \notin quiet
    OBVIOUS
  <2>1. Select2!Killed
    <3>1. spc2' # spc2
      OBVIOUS
    <3>2. ~Select2!WriteTime
      <4>1. ASSUME Select2!WriteTime PROVE FALSE
        BY <4>1 DEF Select2!WriteTime, Select2!Turn
      <4> QED BY <4>1
    <3>3. ~Select2!Echo /\ ~Select2!ReadFails /\ ~Select2!Close
      BY DEF Select2!Echo, Select2!ReadFails, Select2!Close, Select2!Counted, Select2!Turn
    <3>4. ~Select2!Select /\ ~Select2!Accept /\ ~Select2!Exit /\ ~Select2!Ended
      BY DEF Select2!Select, Select2!Accept, Select2!Exit, Select2!Ended
    <3>5. \A c \in Clients : ~(Select2!Connect(c) \/ Select2!ClientSends(c) \/ Select2!ClientReceives(c)
                               \/ Select2!ClientStopped(c) \/ Select2!ResetArrives(c))
      BY <3>1 DEF Select2!Connect, Select2!ClientSends, Select2!ClientReceives, Select2!ClientStopped, Select2!ResetArrives
    <3> QED BY <3>2, <3>3, <3>4, <3>5 DEF Select2!Next
  <2>2. /\ client[i2] \in Select2!Fds /\ Select2!Cur = who[client[i2]]
        /\ Select2!SocketOf("srv") = tcp2[who[client[i2]]]["srv"]
    BY Current2Facts, OtherFacts
  <2>3. ASSUME who[client[i2]] \in quiet PROVE FALSE
    <3>1. Leaving(client[i2], tcp2[who[client[i2]]]["srv"])
      BY <2>2, <2>3 DEF SelectInv, QuietInv
    <3> QED BY <2>1, <2>2, <3>1 DEF Select2!Killed, Leaving
  <2> QED BY <2>2, <2>3
<1>2. Select2!Spec => []SelectInv
  BY SelectInit, SelectStep, PTL DEF Select2!Spec
<1> QED BY <1>1, <1>2, PTL DEF Select2!Spec, QuietLeaversAreHarmless, Select2!QuietLeaversAreHarmless
=============================================================================
