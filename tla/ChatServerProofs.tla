--------------------------- MODULE ChatServerProofs ---------------------------
(***************************************************************************)
(* Proofs about ChatServer for every number of users and descriptors.      *)
(* The table of open descriptors stays exact because every position past   *)
(* user_counter is quiet, so that the loop only handles positions in use;  *)
(* what is to be sent stays in place because a write_buf that is owed      *)
(* something points at the slot of another user, and a closed descriptor   *)
(* is owed nothing.                                                        *)
(***************************************************************************)
EXTENDS ChatServer, FiniteSetTheorems, TLAPS

\* The types, in three parts: the loop, the table and what is kept per descriptor.
TypeLoop == /\ spc \in {"poll", "loop", "off"}
            /\ i \in 0 .. USER_LIMIT
            /\ listenIn \in BOOLEAN

TypeTable == /\ user_counter \in 0 .. USER_LIMIT
             /\ fds \in [1 .. USER_LIMIT -> [fd : Fds \cup {NULL}, all : BOOLEAN]]
             /\ revents \in [1 .. USER_LIMIT -> Events]

TypeUsers == /\ users \in [Fds -> [write_buf : Fds \cup {NULL, Wild}, buf : Fds \cup {Wild}]]
             /\ peer \in [Fds -> {"none", "open", "hup", "err"}]
             /\ inbox \subseteq Fds
             /\ due \in [Fds -> Fds \cup {NULL}]

\* Nothing is reported of a position that is not in use.
QuietInv == \A k \in 1 .. USER_LIMIT : k > user_counter => revents[k] = "nothing"

\* The positions in use hold open descriptors, every open one, and none twice.
TableInv == /\ \A k \in 1 .. user_counter : fds[k].fd \in Fds /\ peer[fds[k].fd] # "none"
            /\ \A f \in Fds : peer[f] # "none" => \E k \in 1 .. user_counter : fds[k].fd = f
            /\ \A j, k \in 1 .. user_counter : fds[j].fd = fds[k].fd => j = k

\* What a descriptor is owed is in the slot of another one, and a closed
\* descriptor is owed nothing.
OwedInv == \A f \in Fds :
    due[f] # NULL => /\ peer[f] # "none"
                     /\ users[f].write_buf \in Fds /\ users[f].write_buf # f
                     /\ users[users[f].write_buf].buf = due[f]

IInv == TypeLoop /\ TypeTable /\ TypeUsers /\ QuietInv /\ TableInv /\ NoWildPointer /\ OwedInv


\* The parts of the type invariant are all of it.
LEMMA TypeParts == TypeOK <=> TypeLoop /\ TypeTable /\ TypeUsers
  BY DEF TypeOK, TypeLoop, TypeTable, TypeUsers

\* The for loop stays within fds, wherever it goes on.
LEMMA TurnFacts ==
  ASSUME NEW k \in Nat, k >= 1, Turn(k)
  PROVE  i' \in 0 .. USER_LIMIT /\ spc' \in {"poll", "loop", "off"}
<1> DEFINE more == {j \in k .. USER_LIMIT : revents'[j] # "nothing"}
<1>1. CASE more = {}
  BY <1>1, ChatAssumption DEF Turn
<1>2. CASE more # {}
  <2>1. PICK j \in more : i' = j
    BY <1>2 DEF Turn
  <2> QED BY <1>2, <2>1, ChatAssumption DEF Turn
<1> QED BY <1>1, <1>2

\* So does the way back from the listening socket.
LEMMA ToUsersFacts == ASSUME ToUsers PROVE TypeLoop'
<1>1. i' \in 0 .. USER_LIMIT /\ spc' \in {"poll", "loop", "off"}
  <2>1. Turn(1) /\ 1 \in Nat /\ 1 >= 1
    BY DEF ToUsers
  <2> QED BY <2>1, TurnFacts
<1>2. listenIn' \in BOOLEAN
  BY DEF ToUsers
<1> QED BY <1>1, <1>2 DEF TypeLoop

\* A position that poll reported something of is in use.
LEMMA InUse ==
  ASSUME IInv, NEW v, Reports(v), v # "nothing"
  PROVE  /\ i \in 1 .. user_counter /\ i \in 1 .. USER_LIMIT
         /\ Entry = fds[i] /\ Entry.fd \in Fds /\ peer[Entry.fd] # "none"
<1>1. i \in 1 .. USER_LIMIT /\ user_counter \in 0 .. USER_LIMIT
  BY ChatAssumption DEF IInv, TypeLoop, TypeTable, Reports
<1>2. i \in 1 .. user_counter
  BY <1>1, ChatAssumption DEF IInv, QuietInv, Reports
<1> QED BY <1>1, <1>2 DEF IInv, TableInv, Entry

\* Going on to the next position keeps the loop and what poll reported sound.
LEMMA NextTurnFacts ==
  ASSUME IInv, NextTurn, i \in 1 .. USER_LIMIT, fds' \in [1 .. USER_LIMIT -> [fd : Fds \cup {NULL}, all : BOOLEAN]]
  PROVE  TypeLoop' /\ TypeTable' /\ QuietInv'
<1>1. TypeLoop'
  <2>1. i + 1 \in Nat /\ i + 1 >= 1 /\ Turn(i + 1)
    BY ChatAssumption DEF NextTurn
  <2> QED BY <2>1, TurnFacts DEF IInv, TypeLoop, NextTurn
<1>2. revents' \in [1 .. USER_LIMIT -> Events]
  BY DEF NextTurn, IInv, TypeTable, Events
<1> QED BY <1>1, <1>2 DEF IInv, TypeTable, QuietInv, NextTurn

\* A connection that is open or broken may break: the table stays exact.
LEMMA Breaks ==
  ASSUME IInv, NEW f \in Fds, peer[f] # "none", NEW how \in {"hup", "err"},
         peer' = [peer EXCEPT ![f] = how], UNCHANGED <<user_counter, fds, users, inbox, due>>
  PROVE  TypeUsers' /\ TableInv' /\ NoWildPointer' /\ OwedInv'
<1>1. peer' \in [Fds -> {"none", "open", "hup", "err"}]
      /\ \A g \in Fds : peer'[g] = "none" <=> peer[g] = "none"
  BY DEF IInv, TypeUsers
<1>2. TypeUsers' /\ NoWildPointer'
  BY <1>1 DEF IInv, TypeUsers, NoWildPointer
<1>3. TableInv'
  BY <1>1 DEF IInv, TableInv
<1>4. OwedInv'
  BY <1>1 DEF IInv, OwedInv
<1> QED BY <1>2, <1>3, <1>4

\* With an empty table the invariant holds.
LEMMA EmptyInv ==
  ASSUME spc \in {"poll", "off"}, i = 0, user_counter = 0, listenIn = FALSE,
         fds = [k \in 1 .. USER_LIMIT |-> NoEntry],
         revents = Nothing,
         users = [f \in Fds |-> [write_buf |-> Wild, buf |-> Wild]],
         peer = [f \in Fds |-> "none"],
         inbox = {},
         due = [f \in Fds |-> NULL]
  PROVE  IInv
<1>1. TypeLoop
  <2>1. i \in 0 .. USER_LIMIT
    BY ChatAssumption
  <2>2. spc \in {"poll", "loop", "off"} /\ listenIn \in BOOLEAN
    OBVIOUS
  <2> QED BY <2>1, <2>2 DEF TypeLoop
<1>2. TypeTable /\ TypeUsers
  <2>1. NoEntry \in [fd : Fds \cup {NULL}, all : BOOLEAN]
    BY DEF NoEntry
  <2>2. user_counter \in 0 .. USER_LIMIT
    BY ChatAssumption
  <2> QED BY <2>1, <2>2 DEF TypeTable, TypeUsers, Nothing, Events
<1>3. QuietInv /\ TableInv /\ NoWildPointer /\ OwedInv
  BY DEF QuietInv, TableInv, NoWildPointer, OwedInv, Nothing
<1> QED BY <1>1, <1>2, <1>3 DEF IInv

\* poll only reports: of positions in use, one of the events the loop knows.
LEMMA PollKeepsInv == ASSUME IInv, Poll PROVE IInv'
<1>1. TypeTable' /\ QuietInv'
  BY ChatAssumption DEF IInv, TypeTable, QuietInv, Poll, Ready, Events
<1>2. TypeLoop'
  <2>1. CASE listenIn'
    BY <2>1, ChatAssumption DEF IInv, TypeLoop, Poll
  <2>2. CASE ~listenIn'
    BY <2>2, TurnFacts DEF IInv, TypeLoop, Poll
  <2> QED BY <2>1, <2>2
<1>3. TypeUsers' /\ TableInv' /\ NoWildPointer' /\ OwedInv'
  BY DEF IInv, TypeUsers, TableInv, NoWildPointer, OwedInv, Poll
<1> QED BY <1>1, <1>2, <1>3 DEF IInv

\* A client that cannot be taken leaves everything but the loop alone.
LEMMA NotTakenKeepsInv == ASSUME IInv, ToUsers, UNCHANGED <<user_counter, fds, peer>> PROVE IInv'
<1>1. TypeLoop'
  BY ToUsersFacts
<1> QED BY <1>1 DEF IInv, TypeTable, TypeUsers, QuietInv, TableInv, NoWildPointer, OwedInv, ToUsers

\* A newcomer takes the first free position with a descriptor nobody has; it is
\* owed nothing and not polled for output, so that its write_buf does not matter.
LEMMA AcceptKeepsInv == ASSUME IInv, Accept PROVE IInv'
<1> DEFINE n == user_counter + 1
<1>1. PICK connfd \in Fds : /\ peer[connfd] = "none"
                            /\ peer' = [peer EXCEPT ![connfd] = "open"]
                            /\ fds' = [fds EXCEPT ![user_counter'] = [fd |-> connfd, all |-> FALSE]]
  BY DEF Accept
<1>2. /\ n \in 1 .. USER_LIMIT /\ user_counter' = n /\ n \notin 1 .. user_counter
      /\ 1 .. n = (1 .. user_counter) \cup {n} /\ user_counter \in Nat
  BY ChatAssumption DEF Accept, IInv, TypeTable
<1>3. /\ revents' = revents /\ users' = users /\ inbox' = inbox /\ due' = due
      /\ ToUsers
  BY DEF Accept, ToUsers
<1>4. TypeLoop'
  BY <1>3, ToUsersFacts
<1> HIDE DEF n
<1>5. /\ fds' \in [1 .. USER_LIMIT -> [fd : Fds \cup {NULL}, all : BOOLEAN]]
      /\ fds'[n] = [fd |-> connfd, all |-> FALSE]
      /\ \A k \in 1 .. user_counter : k # n /\ fds'[k] = fds[k]
  BY <1>1, <1>2 DEF IInv, TypeTable
<1>6. /\ peer' \in [Fds -> {"none", "open", "hup", "err"}]
      /\ peer'[connfd] = "open"
      /\ \A f \in Fds : f # connfd => peer'[f] = peer[f]
  BY <1>1 DEF IInv, TypeUsers
<1>7. TypeTable'
  <2>1. user_counter' \in 0 .. USER_LIMIT
    BY <1>2, ChatAssumption
  <2> QED BY <2>1, <1>3, <1>5 DEF IInv, TypeTable
<1>8. QuietInv'
  <2>1. SUFFICES ASSUME NEW k \in 1 .. USER_LIMIT, k > user_counter'
                 PROVE  revents'[k] = "nothing"
    BY DEF QuietInv
  <2>2. k > user_counter
    BY <2>1, <1>2 DEF n
  <2> QED BY <2>2, <1>3 DEF IInv, QuietInv
<1>9. TypeUsers'
  BY <1>3, <1>6 DEF IInv, TypeUsers
<1>10. TableInv'
  <2>1. \A k \in 1 .. user_counter : fds'[k].fd # connfd
    BY <1>1, <1>5 DEF IInv, TableInv
  <2>2. \A k \in 1 .. user_counter' : fds'[k].fd \in Fds /\ peer'[fds'[k].fd] # "none"
    <3>1. ASSUME NEW k \in 1 .. user_counter
          PROVE  fds'[k].fd \in Fds /\ peer'[fds'[k].fd] # "none"
      <4>1. fds'[k] = fds[k] /\ fds[k].fd # connfd
        BY <1>5, <2>1
      <4> QED BY <4>1, <1>6 DEF IInv, TableInv
    <3>2. fds'[n].fd = connfd /\ peer'[connfd] # "none"
      BY <1>5, <1>6
    <3> QED BY <1>2, <3>1, <3>2
  <2>3. ASSUME NEW f \in Fds, peer'[f] # "none"
        PROVE  \E k \in 1 .. user_counter' : fds'[k].fd = f
    BY <2>3, <1>2, <1>5, <1>6 DEF IInv, TableInv
  <2>4. \A j, k \in 1 .. user_counter' : fds'[j].fd = fds'[k].fd => j = k
    <3>1. \A j, k \in 1 .. user_counter : fds'[j].fd = fds'[k].fd => j = k
      BY <1>5 DEF IInv, TableInv
    <3>2. fds'[n].fd = connfd
      BY <1>5
    <3> QED BY <1>2, <2>1, <3>1, <3>2
  <2> QED BY <2>2, <2>3, <2>4 DEF TableInv
<1>11. NoWildPointer'
  BY <1>2, <1>3, <1>5 DEF IInv, NoWildPointer
<1>12. OwedInv'
  BY <1>1, <1>3, <1>6 DEF IInv, OwedInv
<1> QED BY <1>4, <1>7, <1>8, <1>9, <1>10, <1>11, <1>12 DEF IInv


\* A broken connection is only noted, in a pass of the loop.
LEMMA GetErrorKeepsInv == ASSUME IInv, GetError PROVE IInv'
<1>1. i \in 1 .. USER_LIMIT /\ Entry.fd \in Fds /\ peer[Entry.fd] # "none"
  BY InUse DEF GetError
<1>2. TypeLoop' /\ TypeTable' /\ QuietInv'
  BY <1>1, NextTurnFacts DEF GetError, IInv, TypeTable
<1>3. TypeUsers' /\ TableInv' /\ NoWildPointer' /\ OwedInv'
  BY <1>1, Breaks DEF GetError, NextTurn
<1> QED BY <1>2, <1>3 DEF IInv

\* What Remove does to the table: position i gets the last entry, and the last
\* position is given up.
LEMMA RemoveFacts ==
  ASSUME IInv, Remove, i \in 1 .. user_counter
  PROVE  /\ user_counter \in 1 .. USER_LIMIT /\ user_counter' = user_counter - 1
         /\ i \in 1 .. USER_LIMIT /\ Entry = fds[i] /\ Entry.fd \in Fds
         /\ TypeTable' /\ QuietInv'
         /\ \A k \in 1 .. user_counter' :
               /\ k \in 1 .. user_counter /\ k # user_counter
               /\ fds'[k] = IF k = i THEN fds[user_counter] ELSE fds[k]
         /\ fds[user_counter].fd \in Fds
<1> DEFINE n == user_counter
<1>1. n \in 1 .. USER_LIMIT /\ i \in 1 .. USER_LIMIT /\ n \in Nat /\ i \in Nat
  BY ChatAssumption DEF IInv, TypeTable
<1>2. n \in 1 .. n /\ fds[n].fd \in Fds /\ fds[i].fd \in Fds
  BY <1>1 DEF IInv, TableInv
<1>3. /\ fds' = [fds EXCEPT ![i] = fds[n], ![n] = NoEntry]
      /\ revents' = [revents EXCEPT ![i] = revents[n], ![n] = "nothing"]
      /\ user_counter' = n - 1
  BY DEF Remove
<1>4. NoEntry \in [fd : Fds \cup {NULL}, all : BOOLEAN]
  BY DEF NoEntry
<1>5. /\ fds' \in [1 .. USER_LIMIT -> [fd : Fds \cup {NULL}, all : BOOLEAN]]
      /\ revents' \in [1 .. USER_LIMIT -> Events]
  BY <1>1, <1>3, <1>4 DEF IInv, TypeTable, Events
<1>6. user_counter' \in 0 .. USER_LIMIT
  BY <1>1, <1>3, ChatAssumption
<1>7. TypeTable'
  BY <1>5, <1>6 DEF TypeTable
<1>8. QuietInv'
  <2>1. SUFFICES ASSUME NEW k \in 1 .. USER_LIMIT, k > n - 1 PROVE revents'[k] = "nothing"
    BY <1>3 DEF QuietInv
  <2>2. CASE k = n
    BY <2>2, <1>1, <1>3 DEF IInv, TypeTable
  <2>3. CASE k # n
    <3>1. k > n /\ k # i
      BY <2>1, <2>3, <1>1
    <3> QED BY <2>3, <3>1, <1>1, <1>3 DEF IInv, TypeTable, QuietInv
  <2> QED BY <2>2, <2>3
<1>9. ASSUME NEW k \in 1 .. (n - 1)
      PROVE  /\ k \in 1 .. n /\ k # n
             /\ fds'[k] = IF k = i THEN fds[n] ELSE fds[k]
  <2>1. k \in 1 .. n /\ k # n /\ k \in 1 .. USER_LIMIT
    BY <1>1, ChatAssumption
  <2> QED BY <2>1, <1>1, <1>3 DEF IInv, TypeTable
<1> QED BY <1>1, <1>2, <1>3, <1>7, <1>8, <1>9 DEF Entry

\* A user that leaves is taken out of the table and nobody else is, and what the
\* others are owed from other slots than the one overwritten is still there.
LEMMA RemoveKeepsInv == ASSUME IInv, Remove, i \in 1 .. user_counter PROVE IInv'
<1> DEFINE n == user_counter
           g == Entry.fd
<1>1. /\ n \in 1 .. USER_LIMIT /\ user_counter' = n - 1
      /\ i \in 1 .. USER_LIMIT /\ g = fds[i].fd /\ g \in Fds
      /\ TypeTable' /\ QuietInv'
      /\ fds[n].fd \in Fds
  BY RemoveFacts
<1>2. \A k \in 1 .. (n - 1) :
         /\ k \in 1 .. n /\ k # n
         /\ fds'[k] = IF k = i THEN fds[n] ELSE fds[k]
  BY RemoveFacts
<1>3. /\ users' = [users EXCEPT ![g] = users[fds[n].fd]]
      /\ peer' = [peer EXCEPT ![g] = "none"]
      /\ inbox' = inbox \ {g}
      /\ due' = DueWithout(g)
      /\ Turn(i) /\ listenIn' = listenIn
  BY DEF Remove
<1> HIDE DEF g, n
<1>4. TypeLoop'
  <2>1. i \in Nat /\ i >= 1
    BY <1>1
  <2> QED BY <2>1, <1>3, TurnFacts DEF IInv, TypeLoop
<1>5. /\ peer' \in [Fds -> {"none", "open", "hup", "err"}]
      /\ peer'[g] = "none" /\ \A f \in Fds : f # g => peer'[f] = peer[f]
  BY <1>1, <1>3 DEF IInv, TypeUsers
<1>6. /\ users' \in [Fds -> [write_buf : Fds \cup {NULL, Wild}, buf : Fds \cup {Wild}]]
      /\ \A f \in Fds : f # g => users'[f] = users[f]
  BY <1>1, <1>3 DEF IInv, TypeUsers
<1>7. /\ due' \in [Fds -> Fds \cup {NULL}]
      /\ \A f \in Fds : due'[f] # NULL => f # g /\ users[f].write_buf # g /\ due'[f] = due[f]
  BY <1>3 DEF IInv, TypeUsers, DueWithout
<1>8. TypeUsers'
  BY <1>3, <1>5, <1>6, <1>7 DEF IInv, TypeUsers
<1>9. i \in 1 .. n /\ n \in 1 .. n
  BY <1>1 DEF n
<1>10. \A k \in 1 .. (n - 1) : \E l \in 1 .. n : l # i /\ fds'[k] = fds[l]
  BY <1>2, <1>9
<1>11. \A k \in 1 .. (n - 1) :
          fds'[k].fd \in Fds /\ fds'[k].fd # g /\ peer'[fds'[k].fd] # "none"
  BY <1>1, <1>5, <1>9, <1>10 DEF IInv, TableInv, n
<1>12. ASSUME NEW f \in Fds, peer'[f] # "none"
       PROVE  \E k \in 1 .. (n - 1) : fds'[k].fd = f
  <2>1. f # g /\ peer[f] # "none"
    BY <1>12, <1>5
  <2>2. PICK l \in 1 .. n : fds[l].fd = f
    BY <2>1 DEF IInv, TableInv, n
  <2>3. l # i
    BY <2>1, <2>2, <1>1
  <2>4. CASE l = n
    <3>1. i \in 1 .. (n - 1)
      BY <1>1, <1>9, <2>3, <2>4
    <3> QED BY <3>1, <1>2, <2>2, <2>4
  <2>5. CASE l # n
    <3>1. l \in 1 .. (n - 1)
      BY <1>1, <2>5
    <3> QED BY <3>1, <1>2, <2>2, <2>3
  <2> QED BY <2>4, <2>5
<1>13. ASSUME NEW j \in 1 .. (n - 1), NEW k \in 1 .. (n - 1), fds'[j].fd = fds'[k].fd
       PROVE  j = k
  BY <1>2, <1>9, <1>13 DEF IInv, TableInv, n
<1>14. TableInv'
  BY <1>1, <1>11, <1>12, <1>13 DEF TableInv
<1>15. NoWildPointer'
  <2>1. SUFFICES ASSUME NEW k \in 1 .. (n - 1), fds'[k].all
                 PROVE  users'[fds'[k].fd].write_buf # Wild
    BY <1>1 DEF NoWildPointer
  <2>2. users'[fds'[k].fd] = users[fds'[k].fd]
    BY <1>6, <1>11
  <2> QED BY <2>1, <2>2, <1>10 DEF IInv, NoWildPointer, n
<1>16. OwedInv'
  BY <1>5, <1>6, <1>7 DEF IInv, OwedInv
<1> QED BY <1>1, <1>4, <1>8, <1>14, <1>15, <1>16 DEF IInv

\* What a user says reaches the write_buf of all the others, and what the speaker
\* itself is owed is in a slot that is not overwritten.
LEMMA RecvKeepsInv == ASSUME IInv, Recv PROVE IInv'
<1> DEFINE connfd == Entry.fd
           told == {fds[k].fd : k \in Others(connfd)}
<1>1. i \in 1 .. USER_LIMIT /\ connfd \in Fds /\ peer[connfd] # "none"
  BY InUse DEF Recv
<1>2. /\ inbox' = inbox \ {connfd}
      /\ Deliver(connfd, told)
      /\ fds' = [k \in DOMAIN fds |-> IF k \in Others(connfd)
                                      THEN [fds[k] EXCEPT !.all = TRUE] ELSE fds[k]]
      /\ due' = [f \in Fds |-> IF f \in told THEN connfd ELSE due[f]]
      /\ NextTurn /\ peer' = peer /\ user_counter' = user_counter
  BY DEF Recv, NextTurn
<1>3. \A k \in Others(connfd) : k \in 1 .. user_counter /\ fds[k].fd # connfd
  BY DEF Others
<1>4. \A k \in 1 .. user_counter : k \in 1 .. USER_LIMIT
  BY ChatAssumption DEF IInv, TypeTable
<1>5. \A f \in told : f \in Fds /\ f # connfd /\ peer[f] # "none"
  BY <1>3 DEF IInv, TableInv
<1> HIDE DEF connfd
<1>6. \A k \in 1 .. USER_LIMIT : /\ fds'[k] \in [fd : Fds \cup {NULL}, all : BOOLEAN]
                                 /\ fds'[k].fd = fds[k].fd
                                 /\ k \notin Others(connfd) => fds'[k] = fds[k]
  BY <1>2 DEF IInv, TypeTable
<1>7. fds' \in [1 .. USER_LIMIT -> [fd : Fds \cup {NULL}, all : BOOLEAN]]
  BY <1>2, <1>6 DEF IInv, TypeTable
<1>8. TypeLoop' /\ TypeTable' /\ QuietInv'
  BY <1>1, <1>2, <1>7, NextTurnFacts
<1>9. TableInv'
  <2>1. \A k \in 1 .. user_counter : fds'[k].fd = fds[k].fd
    BY <1>4, <1>6
  <2>2. user_counter' = user_counter /\ peer' = peer
    BY <1>2
  <2> QED BY <2>1, <2>2 DEF IInv, TableInv
<1>10. \A f \in Fds : /\ f \in told => users'[f].write_buf = connfd
                      /\ f \notin told => users'[f].write_buf = users[f].write_buf
                      /\ f = connfd => users'[f].buf = connfd
                      /\ f # connfd => users'[f].buf = users[f].buf
  BY <1>2 DEF Deliver
<1>11. \A f \in Fds : /\ f \in told => due'[f] = connfd
                      /\ f \notin told => due'[f] = due[f]
  BY <1>2
<1>12. TypeUsers'
  <2>1. users' \in [Fds -> [write_buf : Fds \cup {NULL, Wild}, buf : Fds \cup {Wild}]]
    BY <1>1, <1>2 DEF IInv, TypeUsers, Deliver
  <2>2. due' \in [Fds -> Fds \cup {NULL}]
    BY <1>1, <1>2 DEF IInv, TypeUsers
  <2> QED BY <2>1, <2>2, <1>2 DEF IInv, TypeUsers
<1>13. NoWildPointer'
  <2>1. SUFFICES ASSUME NEW k \in 1 .. user_counter, fds'[k].all
                 PROVE  users'[fds'[k].fd].write_buf # Wild
    BY <1>2 DEF NoWildPointer
  <2>2. fds'[k].fd = fds[k].fd /\ fds[k].fd \in Fds
    BY <1>4, <1>6 DEF IInv, TableInv
  <2>3. CASE k \in Others(connfd)
    <3>1. fds[k].fd \in told
      BY <2>3
    <3> QED BY <3>1, <2>2, <1>1, <1>10, ChatAssumption
  <2>4. CASE k \notin Others(connfd)
    <3>1. fds'[k] = fds[k] /\ fds[k].fd = connfd
      BY <2>4, <1>4, <1>6 DEF Others
    <3>2. fds[k].fd \notin told
      BY <3>1, <1>5
    <3> QED BY <2>1, <2>2, <3>1, <3>2, <1>10 DEF IInv, NoWildPointer
  <2> QED BY <2>3, <2>4
<1>14. OwedInv'
  <2>1. SUFFICES ASSUME NEW f \in Fds, due'[f] # NULL
                 PROVE  /\ peer'[f] # "none"
                        /\ users'[f].write_buf \in Fds /\ users'[f].write_buf # f
                        /\ users'[users'[f].write_buf].buf = due'[f]
    BY DEF OwedInv
  <2> HIDE DEF told
  <2>2. CASE f \in told
    BY <2>2, <1>1, <1>2, <1>5, <1>10, <1>11
  <2>3. CASE f \notin told
    <3>1. /\ due[f] # NULL /\ users'[f].write_buf = users[f].write_buf
          /\ due'[f] = due[f]
      BY <2>1, <2>3, <1>10, <1>11
    <3>2. /\ peer[f] # "none" /\ users[f].write_buf \in Fds /\ users[f].write_buf # f
          /\ users[users[f].write_buf].buf = due[f]
      BY <3>1 DEF IInv, OwedInv
    <3>3. f = connfd
      <4>1. PICK k \in 1 .. user_counter : fds[k].fd = f
        BY <3>2 DEF IInv, TableInv
      <4>2. k \notin Others(connfd)
        BY <4>1, <2>3 DEF told
      <4> QED BY <4>1, <4>2 DEF Others
    <3> QED BY <3>1, <3>2, <3>3, <1>2, <1>10
  <2> QED BY <2>2, <2>3
<1> QED BY <1>8, <1>9, <1>12, <1>13, <1>14 DEF IInv


\* A user that was sent something is owed nothing any more, and its write_buf is
\* the null pointer; the texts stay where they are.
LEMMA SendKeepsInv == ASSUME IInv, Send PROVE IInv'
<1> DEFINE g == Entry.fd
<1>1. i \in 1 .. USER_LIMIT /\ g \in Fds
  BY InUse DEF Send
<1>2. NextTurn /\ fds' = fds /\ peer' = peer /\ inbox' = inbox /\ user_counter' = user_counter
  BY DEF Send, NextTurn
<1>3. TypeLoop' /\ TypeTable' /\ QuietInv'
  BY <1>1, <1>2, NextTurnFacts DEF IInv, TypeTable
<1>4. TableInv'
  BY <1>2 DEF IInv, TableInv
<1>5. CASE users[g].write_buf = NULL
  <2>1. users' = users /\ due' = due
    BY <1>5 DEF Send
  <2> QED BY <2>1, <1>2, <1>3, <1>4 DEF IInv, TypeUsers, NoWildPointer, OwedInv
<1>6. CASE users[g].write_buf # NULL
  <2> DEFINE sent == [users[g] EXCEPT !.write_buf = NULL]
  <2>1. users' = [users EXCEPT ![g] = sent] /\ due' = [due EXCEPT ![g] = NULL]
    BY <1>6, Zenon DEF Send
  <2> HIDE DEF g
  <2>2. sent \in [write_buf : Fds \cup {NULL, Wild}, buf : Fds \cup {Wild}]
        /\ sent.write_buf = NULL /\ sent.buf = users[g].buf
    BY <1>1 DEF IInv, TypeUsers
  <2> HIDE DEF sent
  <2>3. /\ users' \in [Fds -> [write_buf : Fds \cup {NULL, Wild}, buf : Fds \cup {Wild}]]
        /\ users'[g] = sent /\ \A f \in Fds : f # g => users'[f] = users[f]
    BY <1>1, <2>1, <2>2 DEF IInv, TypeUsers
  <2>4. /\ due' \in [Fds -> Fds \cup {NULL}]
        /\ due'[g] = NULL /\ \A f \in Fds : f # g => due'[f] = due[f]
    BY <1>1, <2>1 DEF IInv, TypeUsers
  <2>5. TypeUsers'
    BY <2>3, <2>4, <1>2 DEF IInv, TypeUsers
  <2>6. NoWildPointer'
    <3>1. SUFFICES ASSUME NEW k \in 1 .. user_counter, fds[k].all
                   PROVE  users'[fds[k].fd].write_buf # Wild
      BY <1>2 DEF NoWildPointer
    <3>2. fds[k].fd \in Fds /\ users[fds[k].fd].write_buf # Wild
      BY <3>1 DEF IInv, TableInv, NoWildPointer
    <3> QED BY <3>2, <2>2, <2>3, ChatAssumption
  <2>7. OwedInv'
    <3>1. \A f \in Fds : users'[f].buf = users[f].buf
      BY <2>2, <2>3
    <3> QED BY <3>1, <2>3, <2>4, <1>2 DEF IInv, OwedInv
  <2> QED BY <1>3, <1>4, <2>5, <2>6, <2>7 DEF IInv
<1> QED BY <1>5, <1>6

\* Every step keeps the inductive invariant.
LEMMA StepInv == IInv /\ [Next]_vars => IInv'
<1> SUFFICES ASSUME IInv, [Next]_vars PROVE IInv'
  OBVIOUS
<1>1. CASE Poll
  BY <1>1, PollKeepsInv
<1>2. CASE AcceptFails \/ TooMany
  BY <1>2, NotTakenKeepsInv DEF AcceptFails, TooMany
<1>3. CASE Accept
  BY <1>3, AcceptKeepsInv
<1>4. CASE GetError
  BY <1>4, GetErrorKeepsInv
<1>5. CASE Leave \/ RecvFails
  <2>1. Remove /\ i \in 1 .. user_counter
    BY <1>5, InUse DEF Leave, RecvFails
  <2> QED BY <2>1, RemoveKeepsInv
<1>6. CASE Recv
  BY <1>6, RecvKeepsInv
<1>7. CASE Send
  BY <1>7, SendKeepsInv
<1>8. CASE PollFails
  <2>1. spc' = "off" /\ i' = 0 /\ user_counter' = 0 /\ listenIn' = FALSE
    BY <1>8 DEF PollFails
  <2>2. /\ fds' = [k \in 1 .. USER_LIMIT |-> NoEntry]
        /\ revents' = Nothing
        /\ users' = [f \in Fds |-> [write_buf |-> Wild, buf |-> Wild]]
        /\ peer' = [f \in Fds |-> "none"]
        /\ inbox' = {}
        /\ due' = [f \in Fds |-> NULL]
    BY <1>8 DEF PollFails
  <2>3. TypeLoop'
    <3>1. i' \in 0 .. USER_LIMIT
      BY <2>1, ChatAssumption
    <3>2. spc' \in {"poll", "loop", "off"} /\ listenIn' \in BOOLEAN
      BY <2>1
    <3> QED BY <3>1, <3>2 DEF TypeLoop
  <2>4. TypeTable'
    <3>1. NoEntry \in [fd : Fds \cup {NULL}, all : BOOLEAN]
      BY DEF NoEntry
    <3>2. user_counter' \in 0 .. USER_LIMIT
      BY <2>1, ChatAssumption
    <3> QED BY <2>2, <3>1, <3>2 DEF TypeTable, Nothing, Events
  <2>5. TypeUsers'
    BY <2>2 DEF TypeUsers
  <2>6. QuietInv' /\ TableInv' /\ NoWildPointer' /\ OwedInv'
    BY <2>1, <2>2 DEF QuietInv, TableInv, NoWildPointer, OwedInv, Nothing
  <2> QED BY <2>3, <2>4, <2>5, <2>6 DEF IInv
<1>9. ASSUME NEW f \in Fds, ClientSends(f) PROVE IInv'
  BY <1>9 DEF ClientSends, IInv, TypeLoop, TypeTable, TypeUsers, QuietInv, TableInv,
              NoWildPointer, OwedInv
<1>10. ASSUME NEW f \in Fds, NEW how \in {"hup", "err"}, ClientLeaves(f, how) PROVE IInv'
  <2>1. TypeUsers' /\ TableInv' /\ NoWildPointer' /\ OwedInv'
    BY <1>10, Breaks DEF ClientLeaves
  <2>2. TypeLoop' /\ TypeTable' /\ QuietInv'
    BY <1>10 DEF ClientLeaves, IInv, TypeLoop, TypeTable, QuietInv
  <2> QED BY <2>1, <2>2 DEF IInv
<1>11. CASE UNCHANGED vars
  BY <1>11 DEF vars, IInv, TypeLoop, TypeTable, TypeUsers, QuietInv, TableInv,
               NoWildPointer, OwedInv
<1> QED BY <1>1, <1>2, <1>3, <1>4, <1>5, <1>6, <1>7, <1>8, <1>9, <1>10, <1>11
        DEF Next, ServerStep, Ended

\* The inductive invariant holds in every state of the server.
LEMMA Invariance == Spec => []IInv
<1>1. Init => IInv
  BY EmptyInv DEF Init
<1> QED BY <1>1, StepInv, PTL DEF Spec

\* For every USER_LIMIT and however users come, go and are moved in one pass of
\* the loop of main: fds[1 .. user_counter] holds the open descriptors, each once.
THEOREM TableSound == Spec => []TableIsSound
<1>1. IInv => TableIsSound
  <2> SUFFICES ASSUME IInv PROVE TableIsSound
    OBVIOUS
  <2>1. {fds[k].fd : k \in 1 .. user_counter} = {f \in Fds : peer[f] # "none"}
    BY DEF IInv, TableInv
  <2>2. \A j, k \in 1 .. user_counter : fds[j].fd = fds[k].fd => j = k
    BY DEF IInv, TableInv
  <2> QED BY <2>1, <2>2, TypeParts DEF IInv, TableIsSound, TableIsExact
<1> QED BY <1>1, Invariance, PTL

\* For every USER_LIMIT: no write_buf is used before it was set (line 169), and
\* what a user is owed is where its write_buf points (lines 153-163), although
\* users[...] is overwritten when a user leaves (lines 121 and 140).
THEOREM TextsSound == Spec => []TextsAreSound
<1>1. IInv => TextsAreSound
  <2> SUFFICES ASSUME IInv PROVE TextsAreSound
    OBVIOUS
  <2>1. NoWildPointer
    BY DEF IInv
  <2>2. LatestIsPending
    BY DEF IInv, TableInv, OwedInv, LatestIsPending
  <2> QED BY <2>1, <2>2 DEF TextsAreSound
<1> QED BY <1>1, Invariance, PTL
===============================================================================
