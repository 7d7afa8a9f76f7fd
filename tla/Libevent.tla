------------------------------ MODULE Libevent ------------------------------
(***************************************************************************)
(* socket/libevent: the server and the client that talk through             *)
(* bufferevents (zhongji), and the versions in which libevent also accepts   *)
(* and connects (gaoji).  A client has two events, its bufferevent and     *)
(* ev_cmd, the terminal, and each callback holds the other's object.         *)
(*                                                                         *)
(* libevent itself is external: a turn of its loop finds the events that are  *)
(* ready and calls their callbacks in some order, an event that is freed is   *)
(* no longer called, and the loop ends when no event is left.  What is in a   *)
(* bufferevent's output when it is freed is gone.                           *)
(***************************************************************************)
EXTENDS TcpEnds, Sequences, FiniteSets, Functions

CONSTANTS Clients,
          Room,        \* messages an end can hold
          Lines        \* bound: lines that are typed at a client

LibeventAssumption == IsFiniteSet(Clients) /\ Room \in Nat \ {0} /\ Lines \in Nat

VARIABLES up,          \* the server is there
          backlog, sbev,  \* clients to be accepted; those that have a bufferevent at the server
          sout,        \* replies in the output of that bufferevent
          tcp,
          prog,        \* the client: "out", "loop" in event_base_dispatch, "failed", "finished", "killed", "stopped"
          conn,        \* of its socket: "none", "pending", "made", "refused", "used"
          alloc,       \* the objects it has not freed: "bev", "ev_cmd"
          active,      \* events of this turn to be called: "read", "write", "cmd"
          out,         \* lines in its bufferevent's output
          tty, eof,    \* lines typed and not read; the terminal is at its end
          said, heard  \* lines typed in all, and read by the server (history)

server == <<up, backlog, sbev, sout, heard>>
terminal == <<tty, eof, said>>
client == <<prog, conn, alloc, active, out>>
vars == <<server, tcp, client, terminal>>

By(x) == [c \in Clients |-> x]

Init == /\ up = TRUE /\ backlog = <<>> /\ sbev = {} /\ sout = By(0) /\ heard = By(0)
        /\ tcp = By(NoConnection)
        /\ prog = By("out") /\ conn = By("none") /\ alloc = By({}) /\ active = By({}) /\ out = By(0)
        /\ tty = By(0) /\ eof = By(FALSE) /\ said = By(0)

Objects == {"bev", "ev_cmd"}

----------------------------------------------------------------------------
(* The server *)

accept_cb == /\ up /\ backlog # <<>>
             /\ sbev' = sbev \cup {Head(backlog)}
             /\ backlog' = Tail(backlog)
             /\ UNCHANGED <<up, sout, heard, tcp, client, terminal>>

\* event_cb of the server: the bufferevent is freed.
Drop(c) == /\ sbev' = sbev \ {c}
           /\ sout' = [sout EXCEPT ![c] = 0]
           /\ tcp' = [tcp EXCEPT ![c] = Closed(@, "srv")]

\* All that has arrived gets one reply.
socket_read_cb(c) == /\ up /\ c \in sbev /\ tcp[c].srv.rx > 0
                     /\ heard' = [heard EXCEPT ![c] = @ + tcp[c].srv.rx]
                     /\ tcp' = [tcp EXCEPT ![c].srv.rx = 0]
                     /\ sout' = [sout EXCEPT ![c] = @ + 1]
                     /\ UNCHANGED <<up, backlog, sbev, client, terminal>>

\* The read found the end of the stream or an error.
socket_event_cb(c) == /\ up /\ c \in sbev /\ tcp[c].srv.rx = 0 /\ Readable(tcp[c].srv)
                      /\ Drop(c)
                      /\ UNCHANGED <<up, backlog, heard, client, terminal>>

\* libevent writes what is in the output; an error is reported to event_cb.
ServerWrites(c) == /\ up /\ c \in sbev /\ sout[c] > 0
                   /\ Writable(tcp[c], "srv", Room) /\ tcp[c].srv.st # "pipe"
                   /\ IF tcp[c].srv.st = "rst" THEN Drop(c)
                      ELSE /\ tcp' = [tcp EXCEPT ![c] = Sent(@, "srv")]
                           /\ sout' = [sout EXCEPT ![c] = @ - 1] /\ UNCHANGED sbev
                   /\ UNCHANGED <<up, backlog, heard, client, terminal>>

\* The server is stopped, or killed by SIGPIPE.
ServerEnds == /\ up /\ up' = FALSE
              /\ backlog' = <<>> /\ sbev' = {}
              /\ sout' = By(0)
              /\ tcp' = [c \in Clients |-> IF c \in Range(backlog) THEN Refused(tcp[c])
                                           ELSE IF c \in sbev THEN Closed(tcp[c], "srv") ELSE tcp[c]]
              /\ UNCHANGED <<heard, client, terminal>>

----------------------------------------------------------------------------
(* The client *)

Enter(c) == /\ prog' = [prog EXCEPT ![c] = "loop"]
            /\ alloc' = [alloc EXCEPT ![c] = Objects]
            /\ UNCHANGED <<active, out>>

Reached(c) == /\ backlog' = Append(backlog, c)
              /\ tcp' = [tcp EXCEPT ![c] = Connected]
              /\ UNCHANGED <<up, sbev, sout, heard, terminal>>

\* zhongji_client: tcp_connect_server comes first.
MainConnected(c) == /\ prog[c] = "out" /\ up
                    /\ conn' = [conn EXCEPT ![c] = "used"]
                    /\ Enter(c) /\ Reached(c)
MainFails(c) == /\ prog[c] = "out" /\ ~up
                /\ prog' = [prog EXCEPT ![c] = "failed"]
                /\ UNCHANGED <<conn, alloc, active, out, tcp, server, terminal>>

\* gaoji_client: bufferevent_socket_connect starts to connect.
MainConnects(c) == /\ prog[c] = "out"
                   /\ conn' = [conn EXCEPT ![c] = "pending"]
                   /\ Enter(c) /\ UNCHANGED <<tcp, server, terminal>>

\* The kernel is through with connecting.
Made(c) == /\ conn[c] = "pending" /\ prog[c] = "loop"
           /\ IF up THEN Reached(c) /\ conn' = [conn EXCEPT ![c] = "made"]
              ELSE conn' = [conn EXCEPT ![c] = "refused"] /\ UNCHANGED <<tcp, server, terminal>>
           /\ UNCHANGED <<prog, alloc, active, out>>

\* The events libevent finds ready.
Ready(c) == {e \in {"read", "write", "cmd"} :
    \/ e = "cmd" /\ "ev_cmd" \in alloc[c] /\ (tty[c] > 0 \/ eof[c])
    \/ e = "read" /\ "bev" \in alloc[c] /\ conn[c] = "used" /\ Readable(tcp[c].cli)
    \/ e = "write" /\ "bev" \in alloc[c] /\ conn[c] \in {"made", "refused"}
    \/ e = "write" /\ "bev" \in alloc[c] /\ conn[c] = "used" /\ out[c] > 0 /\ Writable(tcp[c], "cli", Room)}

event_base_dispatch(c) == /\ prog[c] = "loop" /\ alloc[c] # {} /\ active[c] = {} /\ Ready(c) # {}
                          /\ active' = [active EXCEPT ![c] = Ready(c)]
                          /\ UNCHANGED <<prog, conn, alloc, out, tcp, server, terminal>>

Called(c, e) == prog[c] = "loop" /\ e \in active[c]

\* At the end of the terminal read returns 0, nothing is written and the event stays.
cmd_msg_cb(c) == /\ Called(c, "cmd")
                 /\ IF tty[c] > 0 THEN /\ tty' = [tty EXCEPT ![c] = @ - 1]
                                       /\ out' = [out EXCEPT ![c] = @ + 1]
                    ELSE UNCHANGED <<tty, out>>
                 /\ active' = [active EXCEPT ![c] = @ \ {"cmd"}]
                 /\ UNCHANGED <<prog, conn, alloc, eof, said, tcp, server>>

\* A bug for event_cb: ev_cmd is not freed.
event_cbKeeps(c) == /\ alloc' = [alloc EXCEPT ![c] = @ \ {"bev"}]
                    /\ active' = [active EXCEPT ![c] = @ \cap {"cmd"}]
                    /\ out' = [out EXCEPT ![c] = 0]
                    /\ tcp' = [tcp EXCEPT ![c] = IF conn[c] = "used" THEN Closed(@, "cli") ELSE @]

\* Both objects are freed and their events taken off this turn.
event_cb(c) == /\ alloc' = [alloc EXCEPT ![c] = {}]
               /\ active' = [active EXCEPT ![c] = {}]
               /\ out' = [out EXCEPT ![c] = 0]
               /\ tcp' = [tcp EXCEPT ![c] = IF conn[c] = "used" THEN Closed(@, "cli") ELSE @]

server_msg_cb(c) == /\ Called(c, "read") /\ tcp[c].cli.rx > 0
                    /\ tcp' = [tcp EXCEPT ![c].cli.rx = 0]
                    /\ active' = [active EXCEPT ![c] = @ \ {"read"}]
                    /\ UNCHANGED <<prog, conn, alloc, out, server, terminal>>

\* Reading found the end or an error, writing an error, or the connection was refused.
Fails(c) == /\ \/ Called(c, "read") /\ tcp[c].cli.rx = 0
               \/ Called(c, "write") /\ (conn[c] = "refused" \/ tcp[c].cli.st = "rst")
            /\ event_cb(c)
            /\ UNCHANGED <<prog, conn, server, terminal>>

\* event_cb returns at once for BEV_EVENT_CONNECTED.
HasConnected(c) == /\ Called(c, "write") /\ conn[c] = "made"
                   /\ conn' = [conn EXCEPT ![c] = "used"]
                   /\ active' = [active EXCEPT ![c] = @ \ {"write"}]
                   /\ UNCHANGED <<prog, alloc, out, tcp, server, terminal>>

ClientWrites(c) == /\ Called(c, "write") /\ conn[c] = "used" /\ tcp[c].cli.st \in {"open", "fin", "prov"}
                   /\ tcp' = [tcp EXCEPT ![c] = Sent(@, "cli")]
                   /\ out' = [out EXCEPT ![c] = @ - 1]
                   /\ active' = [active EXCEPT ![c] = @ \ {"write"}]
                   /\ UNCHANGED <<prog, conn, alloc, server, terminal>>

Finished(c) == /\ prog[c] = "loop" /\ alloc[c] = {}
               /\ prog' = [prog EXCEPT ![c] = "finished"]
               /\ UNCHANGED <<conn, alloc, active, out, tcp, server, terminal>>

\* The client is killed by SIGPIPE, or the user stops it.
Ends(c, how) == /\ prog[c] = "loop"
                /\ how = "killed" => Called(c, "write") /\ tcp[c].cli.st = "pipe"
                /\ prog' = [prog EXCEPT ![c] = how]
                /\ conn' = [conn EXCEPT ![c] = "none"]
                /\ alloc' = [alloc EXCEPT ![c] = {}] /\ active' = [active EXCEPT ![c] = {}] /\ out' = [out EXCEPT ![c] = 0]
                /\ tcp' = [tcp EXCEPT ![c] = IF conn[c] \in {"made", "used"} /\ alloc[c] # {} THEN Closed(@, "cli") ELSE @]
                /\ UNCHANGED <<server, terminal>>

Types(c) == /\ prog[c] = "loop" /\ said[c] < Lines /\ ~eof[c]
            /\ tty' = [tty EXCEPT ![c] = @ + 1] /\ said' = [said EXCEPT ![c] = @ + 1]
            /\ UNCHANGED <<eof, client, tcp, server>>
TypesEof(c) == /\ prog[c] = "loop" /\ ~eof[c]
               /\ eof' = [eof EXCEPT ![c] = TRUE]
               /\ UNCHANGED <<tty, said, client, tcp, server>>

ResetArrives(c) == \E side \in Sides : /\ tcp[c][side].st = "prov"
                                       /\ tcp' = [tcp EXCEPT ![c] = ResetAt(@, side)]
                                       /\ UNCHANGED <<client, server, terminal>>

ClientRuns(c) == \/ event_base_dispatch(c) \/ cmd_msg_cb(c) \/ server_msg_cb(c) \/ Fails(c) \/ HasConnected(c)
                 \/ ClientWrites(c) \/ Finished(c) \/ Ends(c, "killed")

ServerRuns(c) == socket_read_cb(c) \/ socket_event_cb(c) \/ ServerWrites(c)

Next == \/ accept_cb \/ ServerEnds
        \/ \E c \in Clients : \/ MainConnected(c) \/ MainFails(c) \/ MainConnects(c) \/ Made(c)
                              \/ ClientRuns(c) \/ Ends(c, "stopped")
                              \/ Types(c) \/ TypesEof(c) \/ ServerRuns(c) \/ ResetArrives(c)

\* Every event that is ready is called once in a turn, and the kernel makes progress.
Fairness == /\ WF_vars(accept_cb)
            /\ \A c \in Clients : WF_vars(ClientRuns(c)) /\ WF_vars(ServerRuns(c)) /\ WF_vars(Made(c)) /\ WF_vars(ResetArrives(c))

Spec == Init /\ [][Next]_vars /\ Fairness

----------------------------------------------------------------------------
(* Properties *)

\* Types, and nobody is accepted twice; the server never reads or answers more than was typed.
TypeOK == /\ up \in BOOLEAN /\ sbev \subseteq Clients /\ Range(backlog) \subseteq Clients \ sbev
          /\ sout \in [Clients -> 0 .. Lines] /\ tcp \in [Clients -> [Sides -> End(Room)]]
          /\ prog \in [Clients -> {"out", "loop", "failed", "finished", "killed", "stopped"}]
          /\ conn \in [Clients -> {"none", "pending", "made", "refused", "used"}]
          /\ alloc \in [Clients -> SUBSET Objects] /\ active \in [Clients -> SUBSET {"read", "write", "cmd"}]
          /\ {out[c] : c \in Clients} \cup {tty[c] : c \in Clients} \cup {said[c] : c \in Clients} \subseteq 0 .. Lines
          /\ eof \in [Clients -> BOOLEAN] /\ heard \in [Clients -> 0 .. Lines]

\* No callback is called with an object that was freed, also when the terminal
\* and the socket are ready in the same turn: cmd_msg_cb uses the bufferevent.
NothingFreedIsUsed == \A c \in Clients : active[c] # {} => alloc[c] = Objects

\* While the connection lasts no line is lost or doubled: a line is in the
\* terminal, in the bufferevent (also before there is a connection), on its way or read.
LinesAreKept == \A c \in Clients :
    prog[c] = "loop" /\ alloc[c] # {} /\ (conn[c] \in {"made", "used"} => tcp[c].cli.st = "open" /\ tcp[c].srv.st = "open")
       => said[c] = tty[c] + out[c] + tcp[c].srv.rx + heard[c]

\* A client ends when the server has: both events are freed, so that its loop has
\* nothing left, even if the terminal is at its end and always ready.
ClientsFollow == \A c \in Clients : ~up /\ prog[c] = "loop" ~> prog[c] # "loop"

\* What is typed is read by the server, also what was typed while connecting,
\* unless one of the two ends.
LinesArrive == \A c \in Clients : \A n \in 1 .. Lines :
    said[c] = n ~> heard[c] >= n \/ ~up \/ prog[c] # "loop"
==============================================================================
