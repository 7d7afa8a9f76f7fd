--------------------------- MODULE MCSelectServers ---------------------------
(***************************************************************************)
(* TLC instance of the servers that loop over a table of sockets:          *)
(* MySocketServer and SelectServer with two slots and three clients, so    *)
(* that the table fills, a slot below the highest is freed and used again, *)
(* and one client is turned away; and the poll chat with two users, for    *)
(* what must happen in the end (MCChatServer has three).  prog says which  *)
(* of them runs; the others stay in their initial state.                   *)
(***************************************************************************)
EXTENDS MySocketServer

CONSTANTS MAX_ATTARCH_SIZE, Room, Users, NULL, Wild

VARIABLES prog,
          spc2, i2, nready, maxi, maxFd, client, allset, rset, who, backlog2, tcp2, cst2, quiet,
          spc3, i3, user_counter, listenIn, fds, revents, users, peer, inbox, due

Select2 == INSTANCE SelectServer WITH
    spc <- spc2, i <- i2, backlog <- backlog2, tcp <- tcp2, cst <- cst2

Chat == INSTANCE ChatServer WITH USER_LIMIT <- 2, Fds <- Users, spc <- spc3, i <- i3

ASSUME SelectServersAssumption == Select2!SelectAssumption

selectVars == <<spc2, i2, nready, maxi, maxFd, client, allset, rset, who, backlog2, tcp2, cst2, quiet>>
chatVars == <<spc3, i3, user_counter, listenIn, fds, revents, users, peer, inbox, due>>
AllVars == <<prog, vars, selectVars, chatVars>>

AllInit == /\ prog \in {"MySocketServer", "SelectServer", "ChatServer"}
           /\ Init /\ Select2!Init /\ Chat!Init

AllNext == /\ UNCHANGED prog
           /\ \/ prog = "MySocketServer" /\ Next /\ UNCHANGED <<selectVars, chatVars>>
              \/ prog = "SelectServer" /\ Select2!Next /\ UNCHANGED <<vars, chatVars>>
              \/ prog = "ChatServer" /\ Chat!Next /\ UNCHANGED <<vars, selectVars>>

AllSpec == AllInit /\ [][AllNext]_AllVars

\* MySocketServer: the table is exact, only ready descriptors are read, and no
\* answer is written that would kill the server.
MySocketIsSound == TypeOK /\ ReadsAreReady /\ TableIsExact /\ NeverKilled

\* SelectServer: the loop is left early only when no ready client is ahead, and
\* slots and descriptors freed in any order stay watched.
SelectWatchesAll == Select2!TypeOK /\ Select2!NreadyIsExact /\ Select2!EverybodyIsWatched

\* SelectServer: a client that leaves quietly does not kill the server.
QuietLeaversAreHarmless == Select2!QuietLeaversAreHarmless

\* MySocketServer: every question is answered or refused.  SelectServer: what a
\* client sends comes back (the clients are alike, so one stands for all of them).
\* ChatServer: a user that has closed its connection is removed, and what a user
\* is owed is sent in the end.
ClientsAreServed ==
    /\ prog = "MySocketServer" /\ Fairness => QuestionsEnd
    /\ LET c == CHOOSE c \in Clients : TRUE
       IN  prog = "SelectServer" /\ Select2!Fairness => Select2!EchoedTo(c)
    /\ prog = "ChatServer" /\ Chat!Fairness => Chat!LeaversAreRemoved /\ Chat!OwedIsSent
==============================================================================
