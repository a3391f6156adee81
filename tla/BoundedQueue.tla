---------------------------- MODULE BoundedQueue ----------------------------
(***************************************************************************)
(* The bounded queue between two groups of threads (client_queue.c; the    *)
(* text of task_queue.c is the same algorithm over another element type):  *)
(* a ring buffer, one mutex, the condition variables not_empty and         *)
(* not_full, and a shutdown flag, which is raised by the SIGINT handler    *)
(* and again by the main thread once it has left its accept loop (main.c). *)
(*                                                                         *)
(* A thread's pc is one of                                                 *)
(*   out     outside the queue's code                                      *)
(*   lock    about to lock the mutex                                       *)
(*   in      holding the mutex, at the test of the while loop              *)
(*   wait    asleep in pthread_cond_wait                                   *)
(*   relock  woken, about to take the mutex again                          *)
(*   stop    (main) past the accept loop, about to signal the shutdown     *)
(*   exit    a consumer whose pop returned -1; main once it has signalled  *)
(*                                                                         *)
(* The handler runs on some thread, which stands still meanwhile.          *)
(***************************************************************************)
EXTENDS Integers, Sequences, FiniteSets

CONSTANTS
  Producers,    \* the threads that push
  Consumers,    \* the threads that pop
  Main,         \* the main thread, a producer of the client queue only
  Capacity,     \* q->capacity
  MaxPushes,    \* bound: pushes per producer
  MaxSpurious,  \* bound: spurious wakeups of pthread_cond_wait
  Interruptible, \* the threads SIGINT may be delivered to
  SignalPoints, \* where it may meet them: a set of pc values
  NoThread, NoItem

Threads == Producers \cup Consumers \cup {Main}
Items == Producers \X (1 .. MaxPushes)
Ring == 0 .. Capacity - 1

ASSUME ThreadsAssumption ==
  /\ IsFiniteSet(Producers) /\ IsFiniteSet(Consumers)
  /\ Producers \cap Consumers = {}
  /\ Main \notin Consumers
  /\ NoThread \notin Threads
  /\ Interruptible \subseteq Threads
  /\ NoItem \notin Items
ASSUME BoundsAssumption ==
  Capacity \in Nat \ {0} /\ MaxPushes \in Nat /\ MaxSpurious \in Nat

VARIABLES
  fds,       \* q->fds, the ring
  head, tail, size, shutdown,
  mtx,       \* owner of q->mtx
  pc,        \* where each thread is
  handler,   \* the thread the SIGINT handler runs on
  handler_called,
  pushes,    \* how often each producer has called push
  got,       \* the item each consumer popped last
  spurious   \* spurious wakeups so far

ring == <<fds, head, tail, size>>
history == <<pushes, got, spurious>>
vars == <<fds, head, tail, size, shutdown, mtx, pc, handler, handler_called,
          pushes, got, spurious>>

PCs == {"out", "lock", "in", "wait", "relock", "stop", "exit"}

TypeOK ==
  /\ fds \in [Ring -> Items \cup {NoItem}]
  /\ head \in Ring /\ tail \in Ring /\ size \in 0 .. Capacity
  /\ shutdown \in BOOLEAN
  /\ mtx \in Threads \cup {NoThread}
  /\ pc \in [Threads -> PCs]
  /\ handler \in Threads \cup {NoThread}
  /\ handler_called \in BOOLEAN
  /\ pushes \in [Producers -> 0 .. MaxPushes]
  /\ got \in [Consumers -> Items \cup {NoItem}]
  /\ spurious \in 0 .. MaxSpurious

\* client_queue_init
Init ==
  /\ fds = [i \in Ring |-> NoItem]
  /\ head = 0 /\ tail = 0 /\ size = 0
  /\ shutdown = FALSE
  /\ mtx = NoThread
  /\ pc = [t \in Threads |-> "out"]
  /\ handler = NoThread
  /\ handler_called = FALSE
  /\ pushes = [p \in Producers |-> 0]
  /\ got = [c \in Consumers |-> NoItem]
  /\ spurious = 0

\* t executes its own code: no signal handler runs on top of it.
Running(t) == handler # t

\* The threads asleep on not_empty and on not_full.
Sleeping(S) == {t \in S : pc[t] = "wait"}

\* pthread_cond_signal for the sleepers in S, by a thread t that goes to at.
SignalOne(S, t, at) ==
  IF Sleeping(S) = {}
    THEN pc' = [pc EXCEPT ![t] = at]
    ELSE \E u \in Sleeping(S) : pc' = [pc EXCEPT ![t] = at, ![u] = "relock"]

\* Variant: only not_empty is broadcast.
ConsumersWoken ==
  [t \in Threads |-> IF t \in Sleeping(Consumers) THEN "relock" ELSE pc[t]]

\* Variant: only not_full is broadcast.
ProducersWoken ==
  [t \in Threads |-> IF t \in Sleeping(Producers) THEN "relock" ELSE pc[t]]

\* pthread_cond_broadcast on both condition variables: the pcs afterwards.
AllWoken == [t \in Threads |-> IF pc[t] = "wait" THEN "relock" ELSE pc[t]]

-----------------------------------------------------------------------------
(* Entering and leaving the critical section *)

CallPush(p) ==
  /\ Running(p) /\ pc[p] = "out"
  /\ pushes[p] < MaxPushes
  /\ pushes' = [pushes EXCEPT ![p] = @ + 1]
  /\ pc' = [pc EXCEPT ![p] = "lock"]
  /\ UNCHANGED <<ring, shutdown, mtx, handler, handler_called, got, spurious>>

CallPop(c) ==
  /\ Running(c) /\ pc[c] = "out"
  /\ pc' = [pc EXCEPT ![c] = "lock"]
  /\ UNCHANGED <<ring, shutdown, mtx, handler, handler_called, history>>

Lock(t) ==
  /\ Running(t) /\ pc[t] \in {"lock", "relock"}
  /\ mtx = NoThread
  /\ mtx' = t
  /\ pc' = [pc EXCEPT ![t] = "in"]
  /\ UNCHANGED <<ring, shutdown, handler, handler_called, history>>

\* t, inside the critical section, gives the mutex back.
Unlock(t) == Running(t) /\ pc[t] = "in" /\ mtx' = NoThread

\* pthread_cond_wait: give the mutex back and fall asleep, in one step.
Sleep(t) ==
  /\ Unlock(t)
  /\ pc' = [pc EXCEPT ![t] = "wait"]
  /\ UNCHANGED <<ring, shutdown, handler, handler_called, history>>

\* A cond_wait may return with no signal at all.
SpuriousWakeup(t) ==
  /\ pc[t] = "wait"
  /\ spurious < MaxSpurious
  /\ spurious' = spurious + 1
  /\ pc' = [pc EXCEPT ![t] = "relock"]
  /\ UNCHANGED <<ring, shutdown, mtx, handler, handler_called, pushes, got>>

-----------------------------------------------------------------------------
(* client_queue_push *)

PushWait(p) == size = Capacity /\ ~ shutdown /\ Sleep(p)

PushRefused(p) ==
  /\ Unlock(p)
  /\ shutdown
  /\ pc' = [pc EXCEPT ![p] = "out"]
  /\ UNCHANGED <<ring, shutdown, handler, handler_called, history>>

\* Variant: signal only when the queue was empty.
PushSignallingFirst(p) ==
  /\ Unlock(p)
  /\ ~ shutdown /\ size < Capacity
  /\ fds' = [fds EXCEPT ![tail] = <<p, pushes[p]>>]
  /\ tail' = (tail + 1) % Capacity
  /\ size' = size + 1
  /\ IF size = 0 THEN SignalOne(Consumers, p, "out") ELSE pc' = [pc EXCEPT ![p] = "out"]
  /\ UNCHANGED <<head, shutdown, handler, handler_called, history>>

\* Variant: a woken producer does not test again whether there is room.
PushUnchecked(p) ==
  /\ Unlock(p)
  /\ ~ shutdown
  /\ fds' = [fds EXCEPT ![tail] = <<p, pushes[p]>>]
  /\ tail' = (tail + 1) % Capacity
  /\ size' = size + 1
  /\ SignalOne(Consumers, p, "out")
  /\ UNCHANGED <<head, shutdown, handler, handler_called, history>>

\* Variant: the tail does not move.
PushOverwriting(p) ==
  /\ Unlock(p)
  /\ ~ shutdown /\ size < Capacity
  /\ fds' = [fds EXCEPT ![tail] = <<p, pushes[p]>>]
  /\ size' = size + 1
  /\ SignalOne(Consumers, p, "out")
  /\ UNCHANGED <<head, tail, shutdown, handler, handler_called, history>>

Push(p) ==
  /\ Unlock(p)
  /\ ~ shutdown /\ size < Capacity
  /\ fds' = [fds EXCEPT ![tail] = <<p, pushes[p]>>]
  /\ tail' = (tail + 1) % Capacity
  /\ size' = size + 1
  /\ SignalOne(Consumers, p, "out")
  /\ UNCHANGED <<head, shutdown, handler, handler_called, history>>

-----------------------------------------------------------------------------
(* client_queue_pop *)

PopWait(c) == size = 0 /\ ~ shutdown /\ Sleep(c)

\* Variant: the shutdown wins over what is still in the queue.
PopShutdownEarly(c) ==
  /\ Unlock(c)
  /\ shutdown
  /\ pc' = [pc EXCEPT ![c] = "exit"]
  /\ UNCHANGED <<ring, shutdown, handler, handler_called, history>>

\* pop returns -1 and the worker loop of the thread ends.
PopShutdown(c) ==
  /\ Unlock(c)
  /\ size = 0 /\ shutdown
  /\ pc' = [pc EXCEPT ![c] = "exit"]
  /\ UNCHANGED <<ring, shutdown, handler, handler_called, history>>

Pop(c) ==
  /\ Unlock(c)
  /\ size > 0
  /\ got' = [got EXCEPT ![c] = fds[head]]
  /\ head' = (head + 1) % Capacity
  /\ size' = size - 1
  /\ SignalOne(Producers, c, "out")
  /\ UNCHANGED <<fds, tail, shutdown, handler, handler_called, pushes, spurious>>

-----------------------------------------------------------------------------
(* Shutdown *)

\* client_queue_signal_shutdown: needs the mutex, which it holds for no step
\* of anybody else.
SignalShutdown ==
  /\ mtx = NoThread
  /\ shutdown' = TRUE
  /\ UNCHANGED <<ring, mtx, history>>

\* SIGINT is delivered while t is at one of the SignalPoints.
Interrupt(t) ==
  /\ ~ handler_called
  /\ t \in Interruptible /\ pc[t] \in SignalPoints
  /\ handler_called' = TRUE
  /\ handler' = t
  /\ UNCHANGED <<ring, shutdown, mtx, pc, history>>

\* int_handler gets through client_queue_signal_shutdown and returns.
HandlerShutdown ==
  /\ handler # NoThread
  /\ SignalShutdown
  /\ pc' = AllWoken
  /\ handler' = NoThread
  /\ UNCHANGED handler_called

\* The accept loop ends: keep_running is 0, or accept has failed.
LeaveAcceptLoop ==
  /\ Running(Main) /\ pc[Main] = "out"
  /\ pc' = [pc EXCEPT ![Main] = "stop"]
  /\ UNCHANGED <<ring, shutdown, mtx, handler, handler_called, history>>

\* The main thread signals the queue again before it joins the threads.
MainShutdown ==
  /\ Running(Main) /\ pc[Main] = "stop"
  /\ SignalShutdown
  /\ pc' = [AllWoken EXCEPT ![Main] = "exit"]
  /\ UNCHANGED <<handler, handler_called>>

-----------------------------------------------------------------------------

PushStep(p) == Lock(p) \/ PushWait(p) \/ PushRefused(p) \/ Push(p)
PopStep(c) == CallPop(c) \/ Lock(c) \/ PopWait(c) \/ PopShutdown(c) \/ Pop(c)

\* Everybody has come to an end.
Finished ==
  /\ \A t \in Consumers \cup {Main} : pc[t] = "exit"
  /\ \A p \in Producers \ {Main} : pc[p] = "out" /\ pushes[p] = MaxPushes
  /\ UNCHANGED vars

Next ==
  \/ \E p \in Producers : CallPush(p) \/ PushStep(p)
  \/ \E c \in Consumers : PopStep(c)
  \/ \E t \in Threads : SpuriousWakeup(t) \/ Interrupt(t)
  \/ HandlerShutdown
  \/ LeaveAcceptLoop
  \/ MainShutdown
  \/ Finished

Spec == Init /\ [][Next]_vars

\* Threads inside the queue's code keep running; a consumer comes back for
\* the next item; once the handler has run (keep_running = 0, the listening
\* socket closed) the accept loop ends.  Nobody has to push, to send SIGINT
\* or to wake up spuriously.
FairSpec ==
  /\ Spec
  /\ \A p \in Producers : WF_vars(PushStep(p))
  /\ \A c \in Consumers : WF_vars(PopStep(c))
  /\ WF_vars(HandlerShutdown)
  /\ WF_vars(handler_called /\ LeaveAcceptLoop)
  /\ WF_vars(MainShutdown)

-----------------------------------------------------------------------------
(* Properties *)

\* Where a thread is that is in the middle of push or pop and awake.
Awake(S) == {t \in S : pc[t] \in {"lock", "in", "relock"}}

\* No wakeup is lost: if somebody sleeps on not_empty, enough consumers are
\* on their way to empty the queue, and if somebody sleeps on not_full,
\* enough producers are on their way to fill it.  One pthread_cond_signal
\* per push and per pop is enough, even when a late-comer takes the item.
NoLostWakeup ==
  /\ Sleeping(Consumers) # {} => Cardinality(Awake(Consumers)) >= size
  /\ Sleeping(Producers) # {} => Cardinality(Awake(Producers)) >= Capacity - size

\* After the shutdown nobody is left asleep, and nobody falls asleep again.
ShutdownWakesAll ==
  shutdown => Sleeping(Producers) = {} /\ Sleeping(Consumers) = {}

\* Every item that is in the queue is handed to a consumer, before or after
\* the shutdown (graceful termination: accepted clients are served).
EveryItemDelivered ==
  \A x \in Items :
    (\E i \in 0 .. size - 1 : fds[(head + i) % Capacity] = x)
      ~> (\E c \in Consumers : got[c] = x)

\* phase1_report.md: "Shutdown broadcasts both CVs to wake all threads for
\* graceful termination": SIGINT makes every consumer leave its loop.
ShutdownTerminates ==
  handler_called ~> \A c \in Consumers \cup {Main} : pc[c] = "exit"

\* The ring is a first-in first-out queue: nothing is lost, overtaken or
\* handed out twice, and nothing is added after the shutdown.
Content == [i \in 1 .. size |-> fds[(head + i - 1) % Capacity]]
Fifo == INSTANCE FifoQueue WITH queue <- Content, closed <- shutdown
ImplementsFifo == Fifo!Spec
=============================================================================
