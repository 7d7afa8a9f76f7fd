----------------------------- MODULE EpollPorts -----------------------------
(***************************************************************************)
(* component/epoll_server.cpp and epoll_client.cpp: the server listens on a  *)
(* number of ports; the client connects to them one by one and then waits   *)
(* for events of all its connections, of at most icnt at a time, where icnt  *)
(* counts the connections, or is meant to.                                 *)
(*                                                                         *)
(* One run of the client against one run of the server, either of which   *)
(* the user may stop; a connection is known by its port.                   *)
(***************************************************************************)
EXTENDS EpollEvent, FiniteSets

CONSTANTS Size,      \* SERVER_SIZE and CLIENT_SIZE
          Room       \* messages an end can hold

PortsAssumption == Size \in Nat \ {0} /\ Room \in Nat \ {0}

Ports == 1 .. Size

VARIABLES spc,       \* the server: "wait", "loop", "off" or "killed"
          sbatch,    \* the events of its last epoll_wait, still to be handled
          waiting,   \* ports with a connection to accept
          cpc,       \* the client: "connect", "wait", "loop", "exit" or "killed"
          cbatch, icnt,
          tcp,
          errs       \* connections the client closed after an error (history)

vars == <<spc, sbatch, waiting, cpc, cbatch, icnt, tcp, errs>>

Event(p, side) == [port |-> p, listen |-> FALSE,
                   in |-> Readable(tcp[p][side]), out |-> Writable(tcp[p], side, Room)]
ReadyAt(side) == {e \in {Event(p, side) : p \in {q \in Ports : tcp[q][side].st # "closed"}} : e.in \/ e.out}
Listeners == {[port |-> p, listen |-> TRUE, in |-> TRUE, out |-> FALSE] : p \in waiting}

Init == /\ spc = "wait" /\ sbatch = {} /\ waiting = {}
        /\ cpc = "connect" /\ cbatch = {} /\ icnt = 0
        /\ tcp = [p \in Ports |-> NoConnection]
        /\ errs = 0

----------------------------------------------------------------------------
(* The server *)

server == <<spc, sbatch, waiting>>
client == <<cpc, cbatch, icnt, errs>>

ServerWait == /\ spc = "wait"
              /\ sbatch' = Listeners \cup {e \in ReadyAt("srv") : e.port \notin waiting}
              /\ sbatch' # {}
              /\ spc' = "loop"
              /\ UNCHANGED <<waiting, client, tcp>>

ServerAdvance(e) == /\ sbatch' = sbatch \ {e}
                    /\ spc' = IF sbatch' = {} THEN "wait" ELSE "loop"

\* accept may fail; it is tried again at the next turn.
Accept(e) == /\ spc = "loop" /\ e \in sbatch /\ e.listen
             /\ ServerAdvance(e)
             /\ \/ waiting' = waiting \ {e.port} /\ tcp' = [tcp EXCEPT ![e.port] = Sent(@, "srv")]
                \/ UNCHANGED <<waiting, tcp>>
             /\ UNCHANGED client

ServerHandle(e) == /\ spc = "loop" /\ e \in sbatch /\ ~e.listen
                   /\ ~Killed(tcp[e.port], "srv", e)
                   /\ tcp' = [tcp EXCEPT ![e.port] = Handled(@, "srv", e)]
                   /\ ServerAdvance(e)
                   /\ UNCHANGED <<waiting, client>>

ServerGone(how) == /\ spc' = how /\ sbatch' = {} /\ waiting' = {}
                   /\ tcp' = [p \in Ports |-> IF p \in waiting THEN Refused(tcp[p])
                                              ELSE IF tcp[p].srv.st # "closed" THEN Closed(tcp[p], "srv")
                                              ELSE tcp[p]]
                   /\ UNCHANGED client

ServerKilled == /\ spc = "loop"
                /\ \E e \in sbatch : ~e.listen /\ Killed(tcp[e.port], "srv", e)
                /\ ServerGone("killed")

ServerStopped == spc \in {"wait", "loop"} /\ ServerGone("off")

----------------------------------------------------------------------------
(* The client *)

Connect == /\ cpc = "connect" /\ icnt < Size /\ spc \in {"wait", "loop"}
           /\ icnt' = icnt + 1
           /\ tcp' = [tcp EXCEPT ![icnt'] = Connected]
           /\ waiting' = waiting \cup {icnt'}
           /\ UNCHANGED <<spc, sbatch, cpc, cbatch, errs>>

ClientGone(how) == /\ cpc' = how /\ cbatch' = {}
                   /\ tcp' = [p \in Ports |-> IF tcp[p].cli.st # "closed" THEN Closed(tcp[p], "cli") ELSE tcp[p]]
                   /\ UNCHANGED <<server, icnt, errs>>

\* connect is refused: exit.
ConnectFails == /\ cpc = "connect" /\ icnt < Size /\ spc \in {"off", "killed"}
                /\ ClientGone("exit")

ConnectDone == /\ cpc = "connect" /\ icnt = Size
               /\ cpc' = "wait"
               /\ UNCHANGED <<server, cbatch, icnt, tcp, errs>>

\* A bug for ClientWait: room for one event less.
ClientWaitFewer == /\ cpc = "wait" /\ icnt > 0
                   /\ \E s \in SUBSET ReadyAt("cli") :
                        /\ s # {} /\ Cardinality(s) <= icnt - 1
                        /\ cbatch' = s
                   /\ cpc' = "loop"
                   /\ UNCHANGED <<server, icnt, tcp, errs>>

\* At most icnt events are asked for: as many as there are, or any icnt of them.
ClientWait == /\ cpc = "wait" /\ icnt > 0
              /\ \E s \in SUBSET ReadyAt("cli") :
                    /\ s # {} /\ Cardinality(s) <= icnt
                    /\ Cardinality(s) = icnt \/ s = ReadyAt("cli")
                    /\ cbatch' = s
              /\ cpc' = "loop"
              /\ UNCHANGED <<server, icnt, tcp, errs>>

\* epoll_wait for 0 events is an error: exit.
NoneLeft == /\ cpc = "wait" /\ icnt = 0
            /\ ClientGone("exit")

\* recv returned -1 rather than 0.
Failed(e) == e.in /\ tcp[e.port].cli.rx = 0 /\ tcp[e.port].cli.st = "rst"
Shut(e) == e.in /\ tcp[e.port].cli.rx = 0

\* A bug for Uncount: closing after an error counts twice.
UncountTwice(e) == IF Failed(e) THEN icnt - 2 ELSE IF Shut(e) THEN icnt - 1 ELSE icnt

\* icnt-- at the end of a stream, but not after an error.
Uncount(e) == IF Shut(e) /\ ~Failed(e) THEN icnt - 1 ELSE icnt

ClientHandle(e) == /\ cpc = "loop" /\ e \in cbatch
                   /\ ~Killed(tcp[e.port], "cli", e)
                   /\ tcp' = [tcp EXCEPT ![e.port] = Handled(@, "cli", e)]
                   /\ icnt' = Uncount(e)
                   /\ errs' = IF Failed(e) THEN errs + 1 ELSE errs
                   /\ cbatch' = cbatch \ {e}
                   /\ cpc' = IF cbatch' = {} THEN "wait" ELSE "loop"
                   /\ UNCHANGED server

ClientKilled == /\ cpc = "loop"
                /\ \E e \in cbatch : Killed(tcp[e.port], "cli", e)
                /\ ClientGone("killed")

\* The user stops the client.
ClientStopped == cpc \in {"connect", "wait", "loop"} /\ ClientGone("exit")

ResetArrives(p) == /\ \E side \in Sides : /\ tcp[p][side].st = "prov"
                                          /\ tcp' = [tcp EXCEPT ![p] = ResetAt(@, side)]
                   /\ UNCHANGED <<server, client>>

\* epoll_wait times out and is called again.
TimeOut == UNCHANGED vars

Next == \/ ServerWait \/ ServerKilled \/ ServerStopped
        \/ \E e \in sbatch : Accept(e) \/ ServerHandle(e)
        \/ Connect \/ ConnectFails \/ ConnectDone \/ ClientWait \/ NoneLeft \/ ClientKilled \/ ClientStopped
        \/ \E e \in cbatch : ClientHandle(e)
        \/ \E p \in Ports : ResetArrives(p)
        \/ TimeOut

\* Both processes run; epoll hands out ready descriptors in turn.
Fairness == /\ WF_vars(ServerWait \/ ServerKilled \/ \E e \in sbatch : Accept(e) \/ ServerHandle(e))
            /\ WF_vars(Connect \/ ConnectFails \/ ConnectDone \/ ClientWait \/ NoneLeft \/ ClientKilled
                          \/ \E e \in cbatch : ClientHandle(e))
            /\ \A p \in Ports : WF_vars(ResetArrives(p))

Spec == Init /\ [][Next]_vars /\ Fairness

----------------------------------------------------------------------------
(* Properties *)

\* The variables have their types.
TypeOK == /\ spc \in {"wait", "loop", "off", "killed"}
          /\ cpc \in {"connect", "wait", "loop", "exit", "killed"}
          /\ waiting \subseteq Ports
          /\ icnt \in 0 .. Size /\ errs \in 0 .. Size
          /\ tcp \in [Ports -> [Sides -> End(Room)]]
          /\ sbatch \cup cbatch \subseteq [port : Ports, listen : BOOLEAN, in : BOOLEAN, out : BOOLEAN]

Open == {p \in Ports : tcp[p].cli.st # "closed"}

\* icnt drifts from the number of connections, but only upwards and only by those
\* closed after an error: while one is open, epoll_wait can report them all, and
\* the program does not take itself to be done.
IcntCoversOpen == cpc \in {"wait", "loop"} => icnt = Cardinality(Open) + errs

\* When the server is gone the client lets go of all its connections, and ends,
\* unless it closed one of them after an error: then it waits for ever.
ClientEnds == (spc \in {"off", "killed"}) ~> (Open = {} /\ (cpc \in {"exit", "killed"} \/ errs > 0))
==============================================================================
