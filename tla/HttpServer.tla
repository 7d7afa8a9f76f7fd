----------------------------- MODULE HttpServer -----------------------------
(***************************************************************************)
(* wzq_http/http.cpp: an epoll server that answers whatever one recv gives   *)
(* with one of three pages.  Its clients are browsers, which wait for the    *)
(* page, and wzq_http/client.cpp, which sends without end and reads when it  *)
(* can ("flood").  Sockets of the server block, so a page for a client that  *)
(* does not read stops everything.  When a client has closed its end the     *)
(* server does nothing (lines 246-252 are commented out): epoll reports the  *)
(* descriptor again and again.                                             *)
(*                                                                         *)
(* What a client sends at once is a text, known by the words DealRecv looks  *)
(* for.  One recv may return several texts, and may cut the last of them:    *)
(* the rest is then a text of its own.                                     *)
(*                                                                         *)
(* The batches of epoll_wait are left out: only the server reads from its    *)
(* ends, so what was reported as readable stays so.                        *)
(***************************************************************************)
EXTENDS TcpEnds, Sequences, FiniteSets, Functions

CONSTANTS Clients, NFds,
          Room,       \* texts or pages an end can hold
          MaxCuts,    \* bound: texts of a connection that are cut
          NOBODY

HttpAssumption == /\ IsFiniteSet(Clients) /\ NOBODY \notin Clients
                  /\ NFds \in Nat \ {0} /\ Room \in Nat \ {0} /\ MaxCuts \in Nat

VARIABLES spc,        \* "wait", "write" (in DealRecv) or "killed"
          cur,        \* the client it writes to
          page,       \* the page it writes
          held,       \* clients whose connection the server has open
          backlog, tcp,
          text,       \* the texts unread at the server
          cut,        \* texts of the connection that recv cut (history)
          cst,        \* "out", "ready", "asked" (a browser) or "flood"
          want, got,  \* the browser's last request and the last page that was sent to it
          left        \* unread at the server when the client left (history)

vars == <<spc, cur, page, held, backlog, tcp, text, cut, cst, want, got, left>>

Words == {"GET ", "msisdn"}
Requests == {{"GET "}, Words}
Pages == {"hello", "form", "result"}

Init == /\ spc = "wait" /\ cur = NOBODY /\ page = "hello"
        /\ held = {} /\ backlog = <<>>
        /\ tcp = [c \in Clients |-> NoConnection]
        /\ text = [c \in Clients |-> <<>>] /\ cut = [c \in Clients |-> 0]
        /\ cst = [c \in Clients |-> "out"]
        /\ want = [c \in Clients |-> {"GET "}] /\ got = [c \in Clients |-> "hello"]
        /\ left = [c \in Clients |-> 0]

----------------------------------------------------------------------------
\* A connection needs a descriptor; accept fails for ever when there is none,
\* and the loop goes on (continue).
Accept == /\ spc = "wait"
          /\ backlog # <<>> /\ Cardinality(held) < NFds
          /\ held' = held \cup {Head(backlog)}
          /\ backlog' = Tail(backlog)
          /\ UNCHANGED <<spc, cur, page, tcp, text, cut, cst, want, got, left>>

\* DealRecv looks for two words anywhere in what it received.
PageFor(words) == IF "GET " \notin words THEN "hello" ELSE IF "msisdn" \notin words THEN "form" ELSE "result"

\* The words left in the two parts of a text that is cut: "GET " stands before
\* "msisdn", and one word at most is cut through.
Cuts(t) == {p \in (SUBSET t) \X (SUBSET t) :
               /\ p[1] \cap p[2] = {} /\ Cardinality(t \ (p[1] \cup p[2])) <= 1
               /\ "GET " \notin p[2] /\ ("msisdn" \in p[1] => p[1] = t)}

Requested(c) == spc = "wait" /\ c \in held /\ tcp[c].srv.rx > 0

\* One recv takes as many texts as have arrived by then, or fewer, the last of
\* them whole or the first part of it.
Recv(c) == /\ Requested(c)
           /\ \E n \in 1 .. tcp[c].srv.rx :
                 LET before == UNION {text[c][k] : k \in 1 .. n - 1}
                     after == SubSeq(text[c], n + 1, Len(text[c]))
                 IN \/ /\ page' = PageFor(before \cup text[c][n])
                       /\ text' = [text EXCEPT ![c] = after]
                       /\ tcp' = [tcp EXCEPT ![c].srv.rx = @ - n]
                       /\ UNCHANGED cut
                    \/ /\ cut[c] < MaxCuts
                       /\ \E p \in Cuts(text[c][n]) : /\ page' = PageFor(before \cup p[1])
                                                     /\ text' = [text EXCEPT ![c] = <<p[2]>> \o after]
                       /\ tcp' = [tcp EXCEPT ![c].srv.rx = @ - (n - 1)]
                       /\ cut' = [cut EXCEPT ![c] = @ + 1]
           /\ spc' = "write" /\ cur' = c
           /\ UNCHANGED <<held, backlog, cst, want, got, left>>

\* A bug for WritePage: the write is tried again after it succeeded.
WritePageTwice == /\ spc = "write"
                  /\ tcp[cur].srv.st # "pipe" /\ Writable(tcp[cur], "srv", Room)
                  /\ tcp' = [tcp EXCEPT ![cur] = Sent(@, "srv")]
                  /\ got' = IF tcp[cur].srv.st = "open" THEN [got EXCEPT ![cur] = page] ELSE got
                  /\ \/ spc' = "wait" /\ cur' = NOBODY /\ page' = "hello"
                     \/ UNCHANGED <<spc, cur, page>>
                  /\ UNCHANGED <<held, backlog, text, cut, cst, want, left>>

\* The write of DealRecv waits until there is room; the buffer is cleared after it.
WritePage == /\ spc = "write"
             /\ tcp[cur].srv.st # "pipe" /\ Writable(tcp[cur], "srv", Room)
             /\ tcp' = [tcp EXCEPT ![cur] = Sent(@, "srv")]
             /\ got' = IF tcp[cur].srv.st = "open" THEN [got EXCEPT ![cur] = page] ELSE got
             /\ spc' = "wait" /\ cur' = NOBODY /\ page' = "hello"
             /\ UNCHANGED <<held, backlog, text, cut, cst, want, left>>

\* recv returns -1.
RecvFails(c) == /\ spc = "wait" /\ c \in held
                /\ tcp[c].srv.rx = 0 /\ tcp[c].srv.st = "rst"
                /\ tcp' = [tcp EXCEPT ![c] = Closed(@, "srv")]
                /\ held' = held \ {c}
                /\ UNCHANGED <<spc, cur, page, backlog, text, cut, cst, want, got, left>>

\* SIGPIPE.
Killed == /\ spc = "write" /\ tcp[cur].srv.st = "pipe"
          /\ spc' = "killed"
          /\ held' = {} /\ backlog' = <<>>
          /\ tcp' = [c \in Clients |-> IF c \in Range(backlog) THEN Refused(tcp[c])
                                       ELSE IF c \in held THEN Closed(tcp[c], "srv") ELSE tcp[c]]
          /\ UNCHANGED <<cur, page, text, cut, cst, want, got, left>>

----------------------------------------------------------------------------
(* The clients *)

Connect(c) == /\ spc # "killed"
              /\ cst[c] = "out" /\ tcp[c] = NoConnection
              /\ cst' \in {[cst EXCEPT ![c] = "ready"], [cst EXCEPT ![c] = "flood"]}
              /\ tcp' = [tcp EXCEPT ![c] = Connected]
              /\ backlog' = Append(backlog, c)
              /\ text' = [text EXCEPT ![c] = <<>>] /\ cut' = [cut EXCEPT ![c] = 0] /\ left' = [left EXCEPT ![c] = 0]
              /\ UNCHANGED <<spc, cur, page, held, want, got>>

Sends(c, s) == /\ tcp' = [tcp EXCEPT ![c] = Sent(@, "cli")]
               /\ text' = [text EXCEPT ![c] = Append(@, s)]
               /\ UNCHANGED <<spc, cur, page, held, backlog, cut, got, left>>

Request(c) == /\ cst[c] = "ready" /\ tcp[c].cli.st = "open" /\ Writable(tcp[c], "cli", Room)
              /\ cst' = [cst EXCEPT ![c] = "asked"]
              /\ \E s \in Requests : want' = [want EXCEPT ![c] = s] /\ Sends(c, s)

\* What it says holds neither word.  EPOLLOUT is looked at only when there is nothing to read.
FloodSends(c) == /\ cst[c] = "flood" /\ tcp[c].cli.st = "open"
                 /\ ~Readable(tcp[c].cli) /\ Writable(tcp[c], "cli", Room)
                 /\ Sends(c, {}) /\ UNCHANGED <<cst, want>>

ClientReads(c) == /\ cst[c] # "out" /\ tcp[c].cli.rx > 0
                  /\ tcp' = [tcp EXCEPT ![c] = Received(@, "cli")]
                  /\ cst' = [cst EXCEPT ![c] = IF @ = "asked" THEN "ready" ELSE @]
                  /\ UNCHANGED <<spc, cur, page, held, backlog, text, cut, want, got, left>>

\* A browser closes, or the program is stopped.
Leaves(c) == /\ cst[c] # "out"
             /\ cst' = [cst EXCEPT ![c] = "out"]
             /\ left' = [left EXCEPT ![c] = tcp[c].srv.rx]
             /\ tcp' = [tcp EXCEPT ![c] = Closed(@, "cli")]
             /\ want' = [want EXCEPT ![c] = {"GET "}] /\ got' = [got EXCEPT ![c] = "hello"]
             /\ UNCHANGED <<spc, cur, page, held, backlog, text, cut>>

ResetArrives(c) == /\ \E side \in Sides : /\ tcp[c][side].st = "prov"
                                          /\ tcp' = [tcp EXCEPT ![c] = ResetAt(@, side)]
                   /\ UNCHANGED <<spc, cur, page, held, backlog, text, cut, cst, want, got, left>>

\* recv returns 0, or nothing is ready.
Idle == UNCHANGED vars

Next == \/ Accept \/ WritePage \/ Killed \/ Idle
        \/ \E c \in Clients : \/ Recv(c) \/ RecvFails(c) \/ Connect(c) \/ Request(c) \/ FloodSends(c)
                              \/ ClientReads(c) \/ Leaves(c) \/ ResetArrives(c)

\* epoll hands out ready descriptors in turn, so each of them has its turn
\* however often the closed ones are reported (hence strong fairness); clients read.
Fairness == /\ SF_vars(Accept) /\ WF_vars(WritePage) /\ WF_vars(Killed)
            /\ \A c \in Clients : /\ SF_vars(Recv(c)) /\ SF_vars(RecvFails(c))
                                  /\ WF_vars(ClientReads(c)) /\ WF_vars(ResetArrives(c))

Spec == Init /\ [][Next]_vars /\ Fairness

----------------------------------------------------------------------------
(* Properties *)

\* The variables have their types; text follows the sockets.
TypeOK == /\ spc \in {"wait", "write", "killed"} /\ cur \in Clients \cup {NOBODY} /\ page \in Pages
          /\ held \subseteq Clients /\ Cardinality(held) <= NFds
          /\ tcp \in [Clients -> [Sides -> End(Room)]]
          /\ cst \in [Clients -> {"out", "ready", "asked", "flood"}]
          /\ \A c \in held : Len(text[c]) = tcp[c].srv.rx
          /\ want \in [Clients -> Requests] /\ got \in [Clients -> Pages]

\* The texts and pages of a browser that are under way.
InFlight(c) == tcp[c].srv.rx + tcp[c].cli.rx + (IF spc = "write" /\ cur = c THEN 1 ELSE 0)

\* A browser asks for one page at a time.  It never waits for a page that is not
\* under way, and gets one page for each request and one more for each that recv
\* cut, since each part is answered: that page is left over, and taken for the
\* answer to its next request.  As long as none was cut it gets the page it asked for.
PagesFit == \A c \in Clients :
    /\ cst[c] = "ready" => InFlight(c) <= cut[c]
    /\ cst[c] = "asked" => InFlight(c) <= 1 + cut[c]
    /\ cst[c] = "asked" /\ tcp[c].cli.st = "open" => InFlight(c) >= 1
    /\ cst[c] = "asked" /\ cut[c] = 0 /\ tcp[c].cli.rx > 0 =>
          got[c] = IF "msisdn" \in want[c] THEN "result" ELSE "form"

\* A client that left nothing unread does not kill the server, since a page is
\* only ever written after something was read.
UnharmedByReadClients == [][spc = "write" /\ spc' = "killed" => left[cur] > 0]_vars

\* Every request is answered by a page, unless the server is killed, although it is never
\* done with the clients that left, and a write waits for a client to read.  Only
\* a connection that is not accepted may wait for ever, when all descriptors are
\* held, be it by clients that left.
RequestsAreAnswered == \A c \in Clients :
    cst[c] = "asked" ~> \/ cst[c] # "asked" \/ spc = "killed"
                        \/ c \notin held /\ Cardinality(held) = NFds
==============================================================================
