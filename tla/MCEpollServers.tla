--------------------------- MODULE MCEpollServers ---------------------------
(***************************************************************************)
(* TLC instance of the epoll servers and their clients: EdgeTriggered with *)
(* two clients whose connections may merge, as two datagrams may;          *)
(* EpollPorts with three connections, so that one is closed in the batch   *)
(* in which others are still to be handled; EpollSocket with two           *)
(* connections, for what must happen in the end (MCLargerServers has       *)
(* three); HttpServer with two clients and two descriptors; and Libevent   *)
(* with one client that says more than its peer has room for.  There is    *)
(* room for two messages per end, so that something is unread when a       *)
(* client leaves, and for one in EdgeTriggered, whose proofs are for any.  *)
(* prog says which of them runs; the others stay in their initial state.   *)
(***************************************************************************)
EXTENDS EdgeTriggered

CONSTANTS Conns, NFds,
          Size,   \* SERVER_SIZE of EpollPorts
          Hold,   \* messages an end can hold, but in EdgeTriggered
          MaxCuts

VARIABLES prog,
          spc1, sbatch, waiting, cpc1, cbatch, icnt, tcp1, errs,
          sst, batch, interest, fdOf, backlog2, tcp2, cst2, left2,
          spc3, cur3, page, held3, backlog3, tcp3, text, cut, cst3, want, got, left3,
          up, backlog5, sbev, sout, tcp5, cprog, conn, alloc, active, out, tty, eof, said, heard

Three == INSTANCE EpollPorts WITH
    Room <- Hold, spc <- spc1, cpc <- cpc1, tcp <- tcp1

Socket == INSTANCE EpollSocket WITH
    Room <- Hold, backlog <- backlog2, tcp <- tcp2, cst <- cst2, left <- left2

Http == INSTANCE HttpServer WITH
    Room <- Hold, spc <- spc3, cur <- cur3, held <- held3,
    backlog <- backlog3, tcp <- tcp3, cst <- cst3, left <- left3

Bev == INSTANCE Libevent WITH
    Clients <- {CHOOSE c \in Clients : TRUE}, Room <- Hold, Lines <- 3, backlog <- backlog5, tcp <- tcp5, prog <- cprog

ASSUME EpollServersAssumption == Three!PortsAssumption /\ Http!HttpAssumption /\ Bev!LibeventAssumption

portsVars == <<spc1, sbatch, waiting, cpc1, cbatch, icnt, tcp1, errs>>
socketVars == <<sst, batch, interest, fdOf, backlog2, tcp2, cst2, left2>>
httpVars == <<spc3, cur3, page, held3, backlog3, tcp3, text, cut, cst3, want, got, left3>>
bevVars == <<up, backlog5, sbev, sout, tcp5, cprog, conn, alloc, active, out, tty, eof, said, heard>>
AllVars == <<prog, vars, portsVars, socketVars, httpVars, bevVars>>

AllInit == /\ prog \in {"EpollPorts", "EpollSocket", "HttpServer", "EdgeTriggered", "Libevent"}
           /\ Init /\ Three!Init /\ Socket!Init /\ Http!Init /\ Bev!Init

\* The clients of EdgeTriggered and Libevent may be done, and their server idle.
AllNext ==
    /\ UNCHANGED prog
    /\ \/ /\ prog = "EdgeTriggered" /\ (Next \/ UNCHANGED vars)
          /\ UNCHANGED <<portsVars, socketVars, httpVars, bevVars>>
       \/ /\ prog = "EpollPorts" /\ Three!Next
          /\ UNCHANGED <<vars, socketVars, httpVars, bevVars>>
       \/ /\ prog = "EpollSocket" /\ Socket!Next
          /\ UNCHANGED <<vars, portsVars, httpVars, bevVars>>
       \/ /\ prog = "HttpServer" /\ Http!Next
          /\ UNCHANGED <<vars, portsVars, socketVars, bevVars>>
       \/ /\ prog = "Libevent" /\ (Bev!Next \/ UNCHANGED bevVars)
          /\ UNCHANGED <<vars, portsVars, socketVars, httpVars>>

AllSpec == AllInit /\ [][AllNext]_AllVars

\* EpollPorts: icnt is the number of open connections, but for errors.
\* HttpServer: a browser gets a page for each request, the one it asked for, and
\* one more for each request that recv cut.
PortsAndPages == /\ Three!TypeOK /\ Three!IcntCoversOpen
                 /\ Http!TypeOK /\ Http!PagesFit

\* Those who stay notice that the others are gone.  EpollPorts: the client ends
\* when the server is gone, but for its errors.  EpollSocket: the server closes the
\* connection of every client that leaves, and the clients notice that it is gone.
\* EdgeTriggered: the server closes the connections of clients that have gone.
\* Libevent: a client ends when the server has.
GoneAreNoticed ==
    /\ prog = "EpollPorts" /\ Three!Fairness => Three!ClientEnds
    /\ prog = "EpollSocket" /\ Socket!Fairness => Socket!LeaversAreClosed /\ Socket!ClientsNotice
    /\ prog = "EdgeTriggered" /\ Fairness => GoneAreClosed
    /\ prog = "Libevent" /\ Bev!Fairness => Bev!ClientsFollow

\* HttpServer: every request of an accepted client gets its page, unless the server
\* is killed, which no client does that left nothing unread.  EdgeTriggered: a client
\* gets its answer, or the end.  Libevent: what is typed is read by the server.
EverybodyIsAnswered ==
    /\ Http!UnharmedByReadClients
    /\ prog = "HttpServer" /\ Http!Fairness => Http!RequestsAreAnswered
    /\ prog = "EdgeTriggered" /\ Fairness => AnswersArrive
    /\ prog = "Libevent" /\ Bev!Fairness => Bev!LinesArrive
==============================================================================
