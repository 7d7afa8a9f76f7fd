----------------------------- MODULE EpollSocket -----------------------------
(***************************************************************************)
(* component/epoll_socket.cpp: one class that is run as a server, whose     *)
(* loop accepts clients, prints what they send and sends them a greeting    *)
(* whenever they are writable, and as a client, whose loop does the same    *)
(* with its one connection.  Both loops are EpollWait; only the server     *)
(* takes the branch of lines 217-240.                                      *)
(*                                                                         *)
(* A connection has two ends, "srv" and "cli".  Messages have the size of  *)
(* the buffer, so a recv takes one; an end holds up to Room of them, and   *)
(* beyond that the other end is not writable (see TcpEnds).                *)
(***************************************************************************)
EXTENDS EpollEvent, Sequences, FiniteSets

CONSTANTS Conns,    \* connections, each used again when both its ends are closed
          NFds,     \* descriptors the server has for them
          Room      \* messages an end can hold

ASSUME EpollSocketAssumption == /\ IsFiniteSet(Conns)
                                /\ NFds \in Nat \ {0}
                                /\ Room \in Nat \ {0}

VARIABLES sst,        \* the server: "init", "wait", "loop", "ended" or "killed"
          batch,      \* what epoll_wait reported and the for loop has still to see
          interest,   \* the descriptors in m_EpollFd, the listening one not counted
          fdOf,       \* the server's descriptor of each connection; 0 if none
          backlog,    \* connections to accept
          tcp,        \* the ends of each connection
          cst,        \* the client of each connection
          left        \* what was unread at the server when the client left (history)

vars == <<sst, batch, interest, fdOf, backlog, tcp, cst, left>>

Listener == [fd |-> 0, conn |-> "listener", in |-> TRUE, out |-> FALSE]

\* The reset that a send to a closed peer provoked arrives.
ResetArrives(c) == /\ \E side \in Sides :
                         /\ tcp[c][side].st = "prov"
                         /\ tcp' = [tcp EXCEPT ![c] = ResetAt(@, side)]
                   /\ UNCHANGED <<sst, batch, interest, fdOf, backlog, cst, left>>

----------------------------------------------------------------------------
(* The server *)

Init == /\ sst = "init" /\ batch = {} /\ interest = {} /\ backlog = <<>>
        /\ fdOf = [c \in Conns |-> 0]
        /\ tcp = [c \in Conns |-> NoConnection]
        /\ cst = [c \in Conns |-> "out"]
        /\ left = [c \in Conns |-> 0]

RunAsServer == /\ sst = "init"
               /\ sst' = "wait"
               /\ UNCHANGED <<batch, interest, fdOf, backlog, tcp, cst, left>>

\* All ready descriptors are reported, in an order that depends on the kernel.
Ready == {[fd |-> fdOf[c], conn |-> c, in |-> Readable(tcp[c].srv), out |-> Writable(tcp[c], "srv", Room)] :
             c \in {d \in Conns : fdOf[d] \in interest /\ (Readable(tcp[d].srv) \/ Writable(tcp[d], "srv", Room))}}

EpollWait == /\ sst = "wait"
             /\ batch' = Ready \cup (IF backlog # <<>> THEN {Listener} ELSE {})
             /\ batch' # {}
             /\ sst' = "loop"
             /\ UNCHANGED <<interest, fdOf, backlog, tcp, cst, left>>

\* The for loop goes on, or EpollWait returns and is called again.
Advance(ev) == /\ batch' = batch \ {ev}
               /\ sst' = IF batch' = {} THEN "wait" ELSE "loop"

\* The lowest descriptor that is free.
NewFd(fd) == /\ \A c \in Conns : fdOf[c] # fd
             /\ \A l \in 1 .. fd - 1 : \E c \in Conns : fdOf[c] = l

\* The welcome is sent before the descriptor is added to the set.
Accept == /\ sst = "loop" /\ Listener \in batch
          /\ Advance(Listener)
          /\ LET c == Head(backlog)
             IN  \E fd \in 1 .. NFds :
                    /\ NewFd(fd)
                    /\ fdOf' = [fdOf EXCEPT ![c] = fd]
                    /\ tcp' = [tcp EXCEPT ![c] = Sent(@, "srv")]
                    /\ interest' = interest \cup {fd}
          /\ backlog' = Tail(backlog)
          /\ UNCHANGED <<cst, left>>

\* A bug for Handle: the event of a connection that was closed is looked at again.
HandleAgain(ev) ==
    /\ sst = "loop" /\ ev \in batch /\ ev # Listener
    /\ tcp[ev.conn].srv.st # "closed"
    /\ ~Killed(tcp[ev.conn], "srv", ev)
    /\ tcp' = [tcp EXCEPT ![ev.conn] = Handled(@, "srv", ev)]
    /\ IF tcp'[ev.conn].srv = NoEnd
       THEN /\ fdOf' = [fdOf EXCEPT ![ev.conn] = 0]
            /\ interest' = interest \ {ev.fd}
            /\ UNCHANGED <<batch, sst>>
       ELSE UNCHANGED <<fdOf, interest>> /\ Advance(ev)
    /\ UNCHANGED <<backlog, cst, left>>

\* After an error there is no EPOLL_CTL_DEL, but close takes the descriptor
\* out of the set as well.
Handle(ev) ==
    /\ sst = "loop" /\ ev \in batch /\ ev # Listener
    /\ ~Killed(tcp[ev.conn], "srv", ev)
    /\ Advance(ev)
    /\ tcp' = [tcp EXCEPT ![ev.conn] = Handled(@, "srv", ev)]
    /\ IF tcp'[ev.conn].srv = NoEnd
       THEN /\ fdOf' = [fdOf EXCEPT ![ev.conn] = 0]
            /\ interest' = interest \ {ev.fd}
       ELSE UNCHANGED <<fdOf, interest>>
    /\ UNCHANGED <<backlog, cst, left>>

\* The process ends, and the kernel closes what it had open.  A connection that
\* was not accepted is reset.
Gone(how) ==
    /\ sst' = how /\ batch' = {} /\ interest' = {} /\ backlog' = <<>>
    /\ fdOf' = [c \in Conns |-> 0]
    /\ tcp' = [c \in Conns |->
                 IF \E k \in DOMAIN backlog : backlog[k] = c
                 THEN Refused(tcp[c])
                 ELSE IF fdOf[c] # 0 THEN Closed(tcp[c], "srv") ELSE tcp[c]]
    /\ UNCHANGED <<cst, left>>

\* The socket cannot be set up, or a signal interrupts epoll_wait.
ServerFails == sst \in {"init", "wait"} /\ Gone("ended")

\* accept fails, for want of a descriptor or for another reason.
AcceptFails == sst = "loop" /\ Listener \in batch /\ Gone("ended")

ServerKilled == /\ sst = "loop"
                /\ \E ev \in batch \ {Listener} : Killed(tcp[ev.conn], "srv", ev)
                /\ Gone("killed")

----------------------------------------------------------------------------
(* The clients *)

RunAsClient(c) == /\ sst \in {"wait", "loop"}
                  /\ cst[c] \in {"out", "killed"} /\ tcp[c] = NoConnection
                  /\ cst' = [cst EXCEPT ![c] = "running"]
                  /\ tcp' = [tcp EXCEPT ![c] = Connected]
                  /\ backlog' = Append(backlog, c)
                  /\ left' = [left EXCEPT ![c] = 0]
                  /\ UNCHANGED <<sst, batch, interest, fdOf>>

ClientEvent(c) == [in |-> Readable(tcp[c].cli), out |-> Writable(tcp[c], "cli", Room)]

\* The loop of a client has one descriptor.  When the server is gone it closes
\* that and goes on waiting for nothing ("idle"), or is killed.
ClientWait(c) == /\ cst[c] = "running"
                 /\ LET ev == ClientEvent(c)
                    IN  /\ ev.in \/ ev.out
                        /\ IF Killed(tcp[c], "cli", ev)
                           THEN /\ tcp' = [tcp EXCEPT ![c] = Closed(@, "cli")]
                                /\ cst' = [cst EXCEPT ![c] = "killed"]
                           ELSE /\ tcp' = [tcp EXCEPT ![c] = Handled(@, "cli", ev)]
                                /\ cst' = [cst EXCEPT ![c] = IF tcp'[c].cli = NoEnd THEN "idle" ELSE @]
                 /\ UNCHANGED <<sst, batch, interest, fdOf, backlog, left>>

\* The user ends a client: nothing in the program does.
ClientStopped(c) == /\ cst[c] \in {"running", "idle"}
                    /\ cst' = [cst EXCEPT ![c] = "out"]
                    /\ left' = [left EXCEPT ![c] = tcp[c].srv.rx]
                    /\ tcp' = IF cst[c] = "running" THEN [tcp EXCEPT ![c] = Closed(@, "cli")] ELSE tcp
                    /\ UNCHANGED <<sst, batch, interest, fdOf, backlog>>

\* Nothing to do: epoll_wait times out and is called again, for ever.
TimeOut == UNCHANGED vars

Next == \/ RunAsServer \/ EpollWait \/ Accept
        \/ \E ev \in batch : Handle(ev)
        \/ ServerFails \/ AcceptFails \/ ServerKilled
        \/ \E c \in Conns : RunAsClient(c) \/ ClientWait(c) \/ ClientStopped(c) \/ ResetArrives(c)
        \/ TimeOut

\* The processes are scheduled and the network delivers; who stops a client may not.
Fairness == /\ WF_vars(EpollWait) /\ WF_vars(Accept \/ AcceptFails \/ ServerKilled \/ \E ev \in batch : Handle(ev))
            /\ \A c \in Conns : WF_vars(ClientWait(c)) /\ WF_vars(ResetArrives(c))

Spec == Init /\ [][Next]_vars /\ Fairness

----------------------------------------------------------------------------
(* Properties *)

\* The variables have their types; in particular no send is made to an end that
\* is full, where the server, whose sockets block, would wait for its client.
TypeOK ==
    /\ sst \in {"init", "wait", "loop", "ended", "killed"}
    /\ batch \subseteq [fd : 0 .. NFds, conn : Conns \cup {"listener"}, in : BOOLEAN, out : BOOLEAN]
    /\ interest \subseteq 1 .. NFds
    /\ fdOf \in [Conns -> 0 .. NFds]
    /\ tcp \in [Conns -> [Sides -> End(Room)]]
    /\ cst \in [Conns -> {"out", "running", "idle", "killed"}]
    /\ left \in [Conns -> 0 .. Room]
    /\ \A k \in DOMAIN backlog : backlog[k] \in Conns

\* Accepts and closes in the middle of a batch hand descriptors on, but what is
\* left of the batch is about the connections that have the descriptors now.
EventsAreFresh == \A ev \in batch \ {Listener} : fdOf[ev.conn] = ev.fd /\ ev.fd \in interest

\* The set of epoll holds exactly the accepted connections, each once, although
\* the error path of line 263 does not take the descriptor out of it.
InterestIsExact ==
    /\ interest = {fdOf[c] : c \in Conns} \ {0}
    /\ \A c, d \in Conns : c # d /\ fdOf[c] # 0 => fdOf[c] # fdOf[d]
    /\ \A c \in Conns : fdOf[c] # 0 <=> tcp[c].srv.st # "closed" /\ \A k \in DOMAIN backlog : backlog[k] # c

\* What is left of a batch is about connections that are still there, and the set
\* of epoll holds exactly the accepted ones.
BatchIsSound == TypeOK /\ EventsAreFresh /\ InterestIsExact

\* A client may leave at any time without harm to the server if all it sent has
\* been read: only what is still to be read makes the server send to a
\* connection that it has been told is over, and be killed by SIGPIPE.
UnharmedByReadClients ==
    [][sst = "loop" /\ sst' = "killed" => \E c \in Conns : tcp[c].srv.st = "pipe" /\ cst[c] = "out" /\ left[c] > 0]_vars

\* The server closes the connection of every client that leaves, or ends.
LeaversAreClosed == \A c \in Conns : (fdOf[c] # 0 /\ cst[c] = "out") ~> fdOf[c] = 0

\* Every client finds out that the server is gone: none keeps its socket.
ClientsNotice == \A c \in Conns : (sst \in {"ended", "killed"}) ~> tcp[c].cli.st = "closed"
==============================================================================
