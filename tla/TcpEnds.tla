------------------------------- MODULE TcpEnds -------------------------------
(***************************************************************************)
(* What the kernel does with a TCP connection, as far as the servers and   *)
(* clients of this repository run into it.  A connection t is a function   *)
(* from its two sides, "srv" and "cli", to ends [rx, st]: rx messages are  *)
(* to be received, and st is one of                                        *)
(*    "closed"  this side has closed (or never was)                        *)
(*    "open"    so far as this side knows the peer is there                *)
(*    "fin"     the peer has closed                                        *)
(*    "prov"    and was sent something since, the reset is on its way      *)
(*    "rst"     a reset came, ECONNRESET is pending                        *)
(*    "pipe"    a send fails with EPIPE, and SIGPIPE kills the sender      *)
(* What was received before the end of the stream or a reset can still be  *)
(* read after it.                                                          *)
(***************************************************************************)
EXTENDS Integers

Sides == {"srv", "cli"}
Other(side) == IF side = "srv" THEN "cli" ELSE "srv"

End(room) == [rx : 0 .. room, st : {"closed", "open", "fin", "prov", "rst", "pipe"}]
NoEnd == [rx |-> 0, st |-> "closed"]
NoConnection == [side \in Sides |-> NoEnd]
Connected == [side \in Sides |-> [rx |-> 0, st |-> "open"]]

\* read or recv returns at once; -1 rather than 0 is returned for "rst".
Readable(e) == e.rx > 0 \/ e.st \in {"fin", "prov", "rst", "pipe"}
Received(t, side) == [t EXCEPT ![side].rx = @ - 1]

\* EPOLLOUT: the peer has room, or the send would fail at once.
Writable(t, side, room) == t[side].st # "open" \/ t[Other(side)].rx < room

\* A send that does not kill: it arrives, or provokes a reset, or takes a pending error.
Sent(t, side) == IF t[side].st = "open" THEN [t EXCEPT ![Other(side)].rx = @ + 1]
                 ELSE IF t[side].st = "fin" THEN [t EXCEPT ![side].st = "prov"]
                 ELSE IF t[side].st = "rst" THEN [t EXCEPT ![side].st = "pipe"]
                 ELSE t

\* The end of a peer that is still there sees a reset or the end of the stream.
Told(e, reset) == IF e.st = "open" THEN [e EXCEPT !.st = IF reset THEN "rst" ELSE "fin"] ELSE e

\* close: the peer sees a reset if something was unread.
Closed(t, side) == [t EXCEPT ![side] = NoEnd, ![Other(side)] = Told(@, t[side].rx > 0)]

\* The listening socket is closed before the connection was accepted.
Refused(t) == [t EXCEPT !["srv"] = NoEnd, !["cli"] = Told(@, TRUE)]

\* The reset that a send to a closed peer provoked has arrived.
ResetAt(t, side) == [t EXCEPT ![side].st = "pipe"]
==============================================================================
