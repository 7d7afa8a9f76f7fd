----------------------------- MODULE EpollEvent -----------------------------
(***************************************************************************)
(* One event of a connection as component/epoll_socket.cpp (lines 243-273), *)
(* epoll_server.cpp (149-174) and epoll_client.cpp (113-140) handle it: recv *)
(* if it is readable, then send if it is writable, without asking whether    *)
(* the socket has just been closed.  ev says what epoll_wait reported.       *)
(***************************************************************************)
EXTENDS TcpEnds

\* A bug for HandleIn: a recv of nothing is not told from one of something.
HandleInNoEof(t, side) == IF t[side].rx > 0 THEN Received(t, side) ELSE t

\* recv: a message is printed; the end of the stream and an error close.
HandleIn(t, side) == IF t[side].rx > 0 THEN Received(t, side) ELSE Closed(t, side)

AfterIn(t, side, ev) == IF ev.in THEN HandleIn(t, side) ELSE t

\* A socket that was just closed is still sent to: EBADF.
Handled(t, side, ev) == LET u == AfterIn(t, side, ev)
                        IN  IF ev.out /\ u[side].st # "closed" THEN Sent(u, side) ELSE u

Killed(t, side, ev) == ev.out /\ AfterIn(t, side, ev)[side].st = "pipe"
==============================================================================
