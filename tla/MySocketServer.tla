--------------------------- MODULE MySocketServer ---------------------------
(***************************************************************************)
(* wzq_study/mysocket.cpp: AsServer keeps up to CONNECT_NUM clients in a    *)
(* table, selects over them and answers each question; AsClient asks, waits *)
(* for the answer, sleeps and asks again.  All sockets block.               *)
(*                                                                         *)
(* A descriptor of the server is known by the client at the other end; a    *)
(* client comes back when both ends of its last connection are closed.     *)
(* AsServer does not return once it listens.                               *)
(***************************************************************************)
EXTENDS TcpEnds, Sequences, FiniteSets, FiniteSetsExt, Functions

CONSTANTS CONNECT_NUM, Clients,
          NONE         \* a free slot: 0 or -1

ASSUME MySocketAssumption == /\ CONNECT_NUM \in Nat \ {0}
                             /\ IsFiniteSet(Clients) /\ NONE \notin Clients
                             /\ "iSocketId" \notin Clients \cup {NONE}

VARIABLES spc,         \* the server: "select", "accept" or "loop"
          i, iClientId, rfds,
          backlog,     \* clients to accept
          tcp,         \* the connection of each client
          cst          \* the clients: "out", "write" or "read"

vars == <<spc, i, iClientId, rfds, backlog, tcp, cst>>

Listening == "iSocketId"
Slots == 1 .. CONNECT_NUM

Init == /\ spc = "select" /\ i = 0 /\ rfds = {} /\ backlog = <<>>
        /\ iClientId = [k \in Slots |-> NONE]
        /\ tcp = [c \in Clients |-> NoConnection]
        /\ cst = [c \in Clients |-> "out"]

----------------------------------------------------------------------------
(* The server *)

\* On to the next slot from k on whose descriptor is in fds, or to the next pass,
\* which builds rfds anew.
Turn(k, fds) == LET more == {j \in k .. CONNECT_NUM : iClientId'[j] \in fds}
                IN  IF more = {} THEN spc' = "select" /\ i' = 0 /\ rfds' = {}
                    ELSE spc' = "loop" /\ i' = Min(more) /\ rfds' = fds

ReadySet == {c \in Range(iClientId) \ {NONE} : Readable(tcp[c].srv)}
               \cup (IF backlog # <<>> THEN {Listening} ELSE {})

\* A bug for Select: the set of the last pass is not built anew.
SelectStale == /\ spc = "select"
               /\ ReadySet # {}
               /\ UNCHANGED <<iClientId, backlog, tcp, cst>>
               /\ LET fds == ReadySet \cup (Range(iClientId) \ {NONE})
                  IN  IF Listening \in fds THEN spc' = "accept" /\ rfds' = fds /\ UNCHANGED i
                      ELSE Turn(1, fds)

Select == /\ spc = "select"
          /\ UNCHANGED <<iClientId, backlog, tcp, cst>>
          /\ ReadySet # {}
          /\ IF Listening \in ReadySet THEN spc' = "accept" /\ rfds' = ReadySet /\ UNCHANGED i
             ELSE Turn(1, ReadySet)

\* continue: the clients are not looked at in this pass.
AcceptFails == /\ spc = "accept"
               /\ spc' = "select" /\ rfds' = {}
               /\ UNCHANGED <<i, iClientId, backlog, tcp, cst>>

FreeSlots == {k \in Slots : iClientId[k] = NONE}

\* A bug for Accept: a client for whom there is no slot is not closed.
AcceptNoClose == /\ spc = "accept"
                 /\ backlog' = Tail(backlog)
                 /\ iClientId' = IF FreeSlots # {} THEN [iClientId EXCEPT ![Min(FreeSlots)] = Head(backlog)]
                                 ELSE iClientId
                 /\ Turn(1, rfds)
                 /\ UNCHANGED <<tcp, cst>>

\* The first free slot, or close.
Accept == /\ spc = "accept"
          /\ backlog' = Tail(backlog)
          /\ LET c == Head(backlog)
             IN  IF FreeSlots # {}
                 THEN iClientId' = [iClientId EXCEPT ![Min(FreeSlots)] = c] /\ UNCHANGED tcp
                 ELSE tcp' = [tcp EXCEPT ![c] = Closed(@, "srv")] /\ UNCHANGED iClientId
          /\ Turn(1, rfds)
          /\ UNCHANGED cst

\* A question is read and answered; a failed write is passed over.
Answer == /\ spc = "loop"
          /\ LET c == iClientId[i]
             IN  /\ tcp[c].srv.rx > 0
                 /\ tcp' = [tcp EXCEPT ![c] = Sent(Received(@, "srv"), "srv")]
          /\ UNCHANGED <<iClientId, backlog, cst>>
          /\ Turn(i + 1, rfds)

\* read returns 0 or -1.
Leave == /\ spc = "loop"
         /\ tcp[iClientId[i]].srv.rx = 0
         /\ tcp' = [tcp EXCEPT ![iClientId[i]] = Closed(@, "srv")]
         /\ iClientId' = [iClientId EXCEPT ![i] = NONE]
         /\ UNCHANGED <<backlog, cst>>
         /\ Turn(i + 1, rfds)

----------------------------------------------------------------------------
(* The clients *)

Connect(c) == /\ cst[c] = "out" /\ tcp[c] = NoConnection
              /\ cst' = [cst EXCEPT ![c] = "write"]
              /\ tcp' = [tcp EXCEPT ![c] = Connected]
              /\ backlog' = Append(backlog, c)
              /\ UNCHANGED <<spc, i, iClientId, rfds>>

\* AsClient returns, or the user stops it.
Ends(c) == /\ cst' = [cst EXCEPT ![c] = "out"]
           /\ tcp' = [tcp EXCEPT ![c] = Closed(@, "cli")]

Ask(c) == /\ cst[c] = "write"
          /\ IF tcp[c].cli.st \in {"rst", "pipe"} THEN Ends(c)
             ELSE /\ cst' = [cst EXCEPT ![c] = "read"]
                  /\ tcp' = [tcp EXCEPT ![c] = Sent(@, "cli")]
          /\ UNCHANGED <<spc, i, iClientId, rfds, backlog>>

\* The sleep after the answer is where "write" begins.
GetAnswer(c) == /\ cst[c] = "read"
                /\ Readable(tcp[c].cli)
                /\ IF tcp[c].cli.rx = 0 THEN Ends(c)
                   ELSE /\ cst' = [cst EXCEPT ![c] = "write"]
                        /\ tcp' = [tcp EXCEPT ![c] = Received(@, "cli")]
                /\ UNCHANGED <<spc, i, iClientId, rfds, backlog>>

ClientStopped(c) == /\ cst[c] # "out"
                    /\ Ends(c)
                    /\ UNCHANGED <<spc, i, iClientId, rfds, backlog>>

ResetArrives(c) == /\ \E side \in Sides : /\ tcp[c][side].st = "prov"
                                          /\ tcp' = [tcp EXCEPT ![c] = ResetAt(@, side)]
                   /\ UNCHANGED <<spc, i, iClientId, rfds, backlog, cst>>

Next == \/ Select \/ AcceptFails \/ Accept \/ Answer \/ Leave
        \/ \E c \in Clients : Connect(c) \/ Ask(c) \/ GetAnswer(c) \/ ClientStopped(c) \/ ResetArrives(c)

\* Processes run, and accept does not fail for ever: AsServer would not look at
\* a client again if it did.
Fairness == /\ WF_vars(Select \/ Answer \/ Leave) /\ WF_vars(Accept \/ AcceptFails) /\ SF_vars(Accept)
            /\ \A c \in Clients : WF_vars(GetAnswer(c)) /\ WF_vars(ResetArrives(c))

Spec == Init /\ [][Next]_vars /\ Fairness

----------------------------------------------------------------------------
(* Properties *)

\* The variables have their types: a client has one question or one answer
\* under way, never two.
TypeOK == /\ spc \in {"select", "accept", "loop"}
          /\ i \in 0 .. CONNECT_NUM
          /\ iClientId \in [Slots -> Clients \cup {NONE}]
          /\ rfds \subseteq Clients \cup {Listening}
          /\ tcp \in [Clients -> [Sides -> End(1)]]
          /\ cst \in [Clients -> {"out", "write", "read"}]
          /\ Range(backlog) \subseteq Clients

\* The server reads only where read does not block, however the table and the
\* connections changed since select: one silent client cannot stop the others.
ReadsAreReady == spc = "loop" =>
    \A k \in i .. CONNECT_NUM : iClientId[k] \in rfds => Readable(tcp[iClientId[k]].srv)

\* Between passes every connection the server has open is either to be accepted
\* or in the table, in one slot: none is leaked, and none is closed twice.
TableIsExact == spc = "select" =>
    \A c \in Clients :
       LET places == {k \in Slots : iClientId[k] = c} \cup {-k : k \in {j \in DOMAIN backlog : backlog[j] = c}}
       IN  Cardinality(places) = IF tcp[c].srv.st = "closed" THEN 0 ELSE 1

\* Because a client has one question open at a time, no moment at which it can
\* be stopped leaves the server writing an answer to a connection that it knows
\* is reset, and being killed by SIGPIPE.
NeverKilled == spc = "loop" =>
    LET e == tcp[iClientId[i]].srv IN e.rx > 0 => e.st # "pipe"

\* Every question is answered, or the client is told that it was not let in.
QuestionsEnd == \A c \in Clients : cst[c] = "read" ~> cst[c] # "read"
==============================================================================
