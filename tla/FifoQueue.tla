------------------------------ MODULE FifoQueue ------------------------------
(***************************************************************************)
(* What the two queues of the server (client_queue.c, task_queue.c)        *)
(* promise: a bounded first-in first-out queue that can be closed.  After  *)
(* the close nothing is added; what is in the queue is still handed out.   *)
(***************************************************************************)
EXTENDS Integers, Sequences

CONSTANTS Producers, Consumers, Items,
          Capacity,  \* the queue's capacity
          NoItem     \* what a consumer got last if it got nothing yet

VARIABLES
  queue,   \* what is in the queue, oldest first
  closed,  \* shutdown has been signalled
  got      \* the item each consumer took last

fifovars == <<queue, closed, got>>

Init ==
  /\ queue = <<>>
  /\ closed = FALSE
  /\ got = [c \in Consumers |-> NoItem]

Put(x) ==
  /\ ~ closed
  /\ Len(queue) < Capacity
  /\ queue' = Append(queue, x)
  /\ UNCHANGED <<closed, got>>

Take(c) ==
  /\ queue # <<>>
  /\ got' = [got EXCEPT ![c] = Head(queue)]
  /\ queue' = Tail(queue)
  /\ UNCHANGED closed

Close ==
  /\ closed' = TRUE
  /\ UNCHANGED <<queue, got>>

Next ==
  \/ \E x \in Items : Put(x)
  \/ \E c \in Consumers : Take(c)
  \/ Close

Spec == Init /\ [][Next]_fifovars
=============================================================================
