----------------------------- MODULE MessageQueue -----------------------------
(***************************************************************************)
(* What ShareMemory (wzq_project component/shm.cpp) offers to a writer and *)
(* a reader that take turns: a queue of messages.  A write may be refused  *)
(* for lack of room; a read is refused only when there is no message, and  *)
(* delivers the oldest one otherwise.                                      *)
(***************************************************************************)
EXTENDS Sequences

CONSTANT Messages

VARIABLES queue,    \* the messages in transit, oldest first
          result    \* what the last call returned: <<status, message>>

QueueInit == queue = <<>> /\ result = <<"none">>

Send(m) == queue' = Append(queue, m) /\ result' = <<"written", m>>

SendRefused(m) == UNCHANGED queue /\ result' = <<"no room", m>>

Receive == /\ queue # <<>>
           /\ result' = <<"read", Head(queue)>>
           /\ queue' = Tail(queue)

ReceiveRefused == /\ queue = <<>>
                  /\ result' = <<"empty">>
                  /\ UNCHANGED queue

QueueNext == \/ \E m \in Messages : Send(m) \/ SendRefused(m)
             \/ Receive
             \/ ReceiveRefused

QueueSpec == QueueInit /\ [][QueueNext]_<<queue, result>>
==============================================================================
