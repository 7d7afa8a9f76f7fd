----------------------------- MODULE ChatServer -----------------------------
(***************************************************************************)
(* socket/network/poll_chat_server.cpp: one thread polls the listening     *)
(* socket and up to USER_LIMIT users, and passes what one user says to all *)
(* the others.  It keeps the sockets in fds[1 .. user_counter], moving the *)
(* last one into the gap when a user leaves, and per descriptor a buffer   *)
(* for what was received and a pointer to the buffer that is to be sent.   *)
(*                                                                         *)
(* events |= ~POLLIN (line 160) sets every bit, and line 177 clears none:  *)
(* from the first message on a user is polled for everything (all).  The   *)
(* client program (poll_chat_client.cpp) sends what is typed and closes.   *)
(*                                                                         *)
(* An entry of fds past user_counter, and a revents that was handled, is    *)
(* never read again; both are set back here.                               *)
(*                                                                         *)
(* A text is known by the descriptor of the user who spoke it.             *)
(*                                                                         *)
(* Left out: a recv that finds nothing (EAGAIN, or 0 bytes), which line    *)
(* 128 excludes on Linux because POLLIN is set without POLLRDHUP, and a    *)
(* send that fails, whose result is not looked at.                         *)
(***************************************************************************)
EXTENDS Integers, FiniteSets

CONSTANTS USER_LIMIT,
          Fds,     \* descriptors of users
          NULL,    \* the null pointer; no descriptor, no one
          Wild     \* a pointer or a text that is not initialised

ASSUME ChatAssumption == /\ USER_LIMIT \in Nat \ {0}
                         /\ IsFiniteSet(Fds) /\ Cardinality(Fds) >= USER_LIMIT
                         /\ NULL \notin Fds /\ Wild \notin Fds /\ NULL # Wild

\* revents, by the branch of lines 106-166 it leads to.
Events == {"POLLERR", "POLLRDHUP", "POLLIN", "POLLOUT", "nothing"}

VARIABLES spc, i, user_counter,
          listenIn,    \* POLLIN in fds[0].revents
          fds,         \* fds[1 .. USER_LIMIT]: the descriptor and its events
          revents,     \* and their revents
          users,       \* write_buf, as the descriptor whose buf it points to, and buf
          peer,        \* the other end of each descriptor; "none" if it is closed
          inbox,       \* the descriptors that something can be received from
          due          \* the last one to speak to each user, until it is sent (history)

vars == <<spc, i, user_counter, listenIn, fds, revents, users, peer, inbox, due>>

NoEntry == [fd |-> NULL, all |-> FALSE]
Nothing == [k \in 1 .. USER_LIMIT |-> "nothing"]

Init == /\ spc = "poll" /\ i = 0 /\ user_counter = 0 /\ listenIn = FALSE
        /\ fds = [k \in 1 .. USER_LIMIT |-> NoEntry]
        /\ revents = Nothing
        /\ users = [f \in Fds |-> [write_buf |-> Wild, buf |-> Wild]]
        /\ peer = [f \in Fds |-> "none"]
        /\ inbox = {}
        /\ due = [f \in Fds |-> NULL]

----------------------------------------------------------------------------
(* The clients.  What they do during a pass of the loop is noticed by the    *)
(* next poll and not before, so they do it between two passes; only a reset *)
(* can make a difference at once, to a recv that is due.                    *)

ClientSends(f) == /\ spc = "poll"
                  /\ peer[f] = "open"
                  /\ f \notin inbox
                  /\ inbox' = inbox \cup {f}
                  /\ UNCHANGED <<spc, i, user_counter, listenIn, fds, revents, users, peer, due>>

\* The client closes its socket ("hup"), or the connection is reset ("err").
ClientLeaves(f, how) == /\ \/ spc = "poll"
                           \/ how = "err" /\ \E k \in 1 .. user_counter :
                                                fds[k].fd = f /\ revents[k] = "POLLIN"
                        /\ peer[f] = "open"
                        /\ peer' = [peer EXCEPT ![f] = how]
                        /\ UNCHANGED <<spc, i, user_counter, listenIn, fds, revents, users, inbox, due>>

----------------------------------------------------------------------------
(* The server *)

\* What poll reports of an entry.
Ready(e) == IF peer[e.fd] = "err" THEN "POLLERR"
            ELSE IF peer[e.fd] = "hup" THEN "POLLRDHUP"
            ELSE IF e.fd \in inbox THEN "POLLIN"
            ELSE IF e.all THEN "POLLOUT"
            ELSE "nothing"

\* The next turn of the for loop, from entry k: entries of which nothing is
\* reported are passed over.
Turn(k) == LET more == {j \in k .. USER_LIMIT : revents'[j] # "nothing"}
           IN  IF more = {} THEN i' = 0 /\ spc' = "poll"
               ELSE /\ \E j \in more : i' = j /\ \A l \in more : j <= l
                    /\ spc' = "loop"

\* A new client may be waiting at any time.
Poll == /\ spc = "poll"
        /\ revents' = [k \in 1 .. USER_LIMIT |-> IF k <= user_counter THEN Ready(fds[k]) ELSE "nothing"]
        /\ listenIn' \in BOOLEAN
        /\ listenIn' \/ revents' # Nothing
        /\ IF listenIn' THEN i' = 0 /\ spc' = "loop" ELSE Turn(1)
        /\ UNCHANGED <<user_counter, fds, users, peer, inbox, due>>

\* poll fails: the server ends, and the kernel closes its sockets.
PollFails == /\ spc = "poll"
             /\ spc' = "off" /\ i' = 0 /\ user_counter' = 0 /\ listenIn' = FALSE
             /\ fds' = [k \in 1 .. USER_LIMIT |-> NoEntry]
             /\ revents' = Nothing
             /\ users' = [f \in Fds |-> [write_buf |-> Wild, buf |-> Wild]]
             /\ peer' = [f \in Fds |-> "none"]
             /\ inbox' = {}
             /\ due' = [f \in Fds |-> NULL]

\* Entry i is done with.
NextTurn == /\ revents' = [revents EXCEPT ![i] = "nothing"]
            /\ Turn(i + 1)
            /\ UNCHANGED <<user_counter, listenIn>>

Listening == spc = "loop" /\ i = 0 /\ listenIn

\* Back from the listening socket.
ToUsers == /\ listenIn' = FALSE
           /\ UNCHANGED <<revents, users, inbox, due>>
           /\ Turn(1)

AcceptFails == /\ Listening
               /\ ToUsers
               /\ UNCHANGED <<user_counter, fds, peer>>

\* Sends "too many users" and closes.
TooMany == /\ Listening
           /\ user_counter >= USER_LIMIT
           /\ ToUsers
           /\ UNCHANGED <<user_counter, fds, peer>>

\* users[connfd] keeps what an earlier user of the descriptor left there.
Accept ==
    /\ Listening
    /\ user_counter < USER_LIMIT
    /\ user_counter' = user_counter + 1
    /\ \E connfd \in Fds :
          /\ peer[connfd] = "none"
          /\ peer' = [peer EXCEPT ![connfd] = "open"]
          /\ fds' = [fds EXCEPT ![user_counter'] = [fd |-> connfd, all |-> FALSE]]
    /\ ToUsers

Entry == fds[i]
Reports(v) == spc = "loop" /\ i > 0 /\ revents[i] = v

\* getsockopt takes the error off the socket; the user stays.
GetError == /\ Reports("POLLERR")
            /\ peer' = [peer EXCEPT ![Entry.fd] = "hup"]
            /\ NextTurn
            /\ UNCHANGED <<fds, users, inbox, due>>

\* What each user is owed once the slot of descriptor g is overwritten.
DueWithout(g) == [f \in Fds |-> IF f = g \/ users[f].write_buf = g THEN NULL ELSE due[f]]

\* A bug for Remove: the last entry is dropped instead of the one that left.
RemoveLast ==
    /\ users' = [users EXCEPT ![Entry.fd] = users[fds[user_counter].fd]]
    /\ peer' = [peer EXCEPT ![Entry.fd] = "none"]
    /\ inbox' = inbox \ {Entry.fd}
    /\ fds' = [fds EXCEPT ![user_counter] = NoEntry]
    /\ revents' = [revents EXCEPT ![user_counter] = "nothing"]
    /\ user_counter' = user_counter - 1
    /\ Turn(i)
    /\ due' = DueWithout(Entry.fd)
    /\ UNCHANGED listenIn

\* Lines 121-125: the last user's data goes to the slot of the one that left,
\* its entry to position i, which is looked at again.  What others were to be
\* sent from that slot is lost.
Remove ==
    /\ users' = [users EXCEPT ![Entry.fd] = users[fds[user_counter].fd]]
    /\ peer' = [peer EXCEPT ![Entry.fd] = "none"]
    /\ inbox' = inbox \ {Entry.fd}
    /\ fds' = [fds EXCEPT ![i] = fds[user_counter], ![user_counter] = NoEntry]
    /\ revents' = [revents EXCEPT ![i] = revents[user_counter], ![user_counter] = "nothing"]
    /\ user_counter' = user_counter - 1
    /\ Turn(i)
    /\ due' = DueWithout(Entry.fd)
    /\ UNCHANGED listenIn

Leave == Reports("POLLRDHUP") /\ Remove

\* The connection was reset after poll.
RecvFails == /\ Reports("POLLIN")
             /\ peer[Entry.fd] = "err"
             /\ Remove

\* The users other than the one on connfd.
Others(connfd) == {k \in 1 .. user_counter : fds[k].fd # connfd}

\* What connfd says goes to the buf of its slot, and the write_buf of the users
\* told points there.
Deliver(connfd, told) ==
    users' = [f \in Fds |-> [write_buf |-> IF f \in told THEN connfd ELSE users[f].write_buf,
                             buf |-> IF f = connfd THEN connfd ELSE users[f].buf]]

\* A bug for Recv: the user in the last entry is not told.
RecvAllButLast ==
    LET connfd == Entry.fd
        told == {fds[k].fd : k \in Others(connfd)}
    IN  /\ Reports("POLLIN")
        /\ inbox' = inbox \ {connfd}
        /\ Deliver(connfd, told \ {fds[user_counter].fd})
        /\ fds' = [k \in DOMAIN fds |-> IF k \in Others(connfd) \ {user_counter}
                                        THEN [fds[k] EXCEPT !.all = TRUE] ELSE fds[k]]
        /\ due' = [f \in Fds |-> IF f \in told THEN connfd ELSE due[f]]
        /\ NextTurn
        /\ UNCHANGED peer

Recv ==
    LET connfd == Entry.fd
        told == {fds[k].fd : k \in Others(connfd)}
    IN  /\ Reports("POLLIN")
        /\ inbox' = inbox \ {connfd}
        /\ Deliver(connfd, told)
        /\ fds' = [k \in DOMAIN fds |-> IF k \in Others(connfd)
                                        THEN [fds[k] EXCEPT !.all = TRUE] ELSE fds[k]]
        /\ due' = [f \in Fds |-> IF f \in told THEN connfd ELSE due[f]]
        /\ NextTurn
        /\ UNCHANGED peer

\* Only a user of whom nothing else is reported is sent what it is owed.
Send == /\ Reports("POLLOUT")
        /\ IF users[Entry.fd].write_buf = NULL
           THEN UNCHANGED <<users, due>>
           ELSE /\ users' = [users EXCEPT ![Entry.fd].write_buf = NULL]
                /\ due' = [due EXCEPT ![Entry.fd] = NULL]
        /\ NextTurn
        /\ UNCHANGED <<fds, peer, inbox>>

ServerStep == \/ Poll \/ AcceptFails \/ TooMany \/ Accept
              \/ GetError \/ Leave \/ RecvFails \/ Recv \/ Send

Ended == spc = "off" /\ UNCHANGED vars

Next == \/ ServerStep \/ PollFails \/ Ended
        \/ \E f \in Fds : \/ ClientSends(f)
                          \/ \E how \in {"hup", "err"} : ClientLeaves(f, how)

\* The server goes on, and poll returns when a user has something to report; no
\* newcomer need come.
Fairness == /\ WF_vars(Poll /\ revents' # Nothing)
            /\ WF_vars(ServerStep /\ spc = "loop")

Spec == Init /\ [][Next]_vars /\ Fairness

----------------------------------------------------------------------------
(* Properties *)

TypeOK == /\ spc \in {"poll", "loop", "off"}
          /\ i \in 0 .. USER_LIMIT /\ user_counter \in 0 .. USER_LIMIT
          /\ listenIn \in BOOLEAN
          /\ fds \in [1 .. USER_LIMIT -> [fd : Fds \cup {NULL}, all : BOOLEAN]]
          /\ revents \in [1 .. USER_LIMIT -> Events]
          /\ users \in [Fds -> [write_buf : Fds \cup {NULL, Wild}, buf : Fds \cup {Wild}]]
          /\ peer \in [Fds -> {"none", "open", "hup", "err"}]
          /\ inbox \subseteq Fds
          /\ due \in [Fds -> Fds \cup {NULL}]

\* The table is exact: fds[1 .. user_counter] holds every open descriptor once
\* and no closed one, whatever users come and go within one pass of the loop.
TableIsExact ==
    /\ {fds[k].fd : k \in 1 .. user_counter} = {f \in Fds : peer[f] # "none"}
    /\ \A j, k \in 1 .. user_counter : fds[j].fd = fds[k].fd => j = k

\* The variables have their types, and the table is exact.
TableIsSound == TypeOK /\ TableIsExact

\* write_buf is not initialised for a newcomer (line 48 does not, nor does
\* accept), but it is never looked at before a message has set it: POLLOUT is
\* asked for only after that, even when a descriptor or an entry is reused.
NoWildPointer == \A k \in 1 .. user_counter : fds[k].all => users[fds[k].fd].write_buf # Wild

\* A user is going to be sent what the last other user to speak said, as long as
\* that one stays: its buf still holds it and write_buf still points there,
\* although entries and slots are moved and reused meanwhile.
LatestIsPending == \A k \in 1 .. user_counter :
    LET f == fds[k].fd IN
    due[f] # NULL => /\ users[f].write_buf \in Fds
                     /\ users[users[f].write_buf].buf = due[f]

\* What write_buf points at is there and is what it should be.
TextsAreSound == NoWildPointer /\ LatestIsPending

\* A user that has closed its connection is removed.
LeaversAreRemoved == \A f \in Fds : peer[f] \in {"hup", "err"} ~> peer[f] = "none"

\* What a user is owed is sent, or the speaker or the user leaves first, unless
\* the user speaks itself (POLLIN goes before POLLOUT).
OwedIsSent == \A f \in Fds :
    due[f] # NULL ~> (due[f] = NULL \/ f \in inbox)
==============================================================================
