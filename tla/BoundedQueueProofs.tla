------------------------- MODULE BoundedQueueProofs -------------------------
(***************************************************************************)
(* What holds of the two queues of the server for every number of          *)
(* producers and consumers, every capacity and every number of pushes and  *)
(* spurious wakeups, wherever the signal is delivered.  A pthread_cond_    *)
(* signal wakes one sleeper only, so that nobody sleeps for ever is a      *)
(* matter of counting: see NoLostWakeup.                                   *)
(***************************************************************************)
EXTENDS BoundedQueue, FiniteSetTheorems, SequenceTheorems, TLAPS

\* A producer inside push has an item of its own in its hands.
PushesCounted ==
  \A p \in Producers : pc[p] \in {"lock", "in", "wait", "relock"} => pushes[p] # 0

\* head, tail and size, which the code changes separately, describe one
\* stretch of the ring.
RingFits == tail = (head + size) % Capacity

\* The inductive invariant.
IInv == TypeOK /\ PushesCounted /\ RingFits /\ ShutdownWakesAll /\ NoLostWakeup

\* The part of it that is kept by itself.
Shape == TypeOK /\ PushesCounted

-----------------------------------------------------------------------------
(* Facts about the ring *)

\* The modulo of the code wraps once at most.
LEMMA Wraps ==
  ASSUME NEW n \in 0 .. 2 * Capacity - 1
  PROVE  /\ n % Capacity = IF n < Capacity THEN n ELSE n - Capacity
         /\ n % Capacity \in Ring
<1>1. Capacity \in Nat \ {0}
  BY BoundsAssumption
<1>2. CASE n < Capacity
  <2>1. n % Capacity = n
    BY <1>1, <1>2
  <2> QED
    BY <1>1, <1>2, <2>1 DEF Ring
<1>3. CASE n >= Capacity
  <2> DEFINE m == n - Capacity
  <2>1. m \in 0 .. Capacity - 1 /\ n = m + Capacity
    BY <1>1, <1>3
  <2> HIDE DEF m
  <2>2. (m + Capacity) % Capacity = m
    BY <1>1, <2>1
  <2> QED
    BY <1>1, <1>3, <2>1, <2>2 DEF Ring
<1> QED
  BY <1>1, <1>2, <1>3

\* The next entry of the ring.
LEMMA NextEntry ==
  ASSUME NEW i \in Ring
  PROVE  /\ (i + 1) % Capacity = IF i = Capacity - 1 THEN 0 ELSE i + 1
         /\ (i + 1) % Capacity \in Ring
<1>1. Capacity \in Nat \ {0}
  BY BoundsAssumption
<1>2. i + 1 \in 0 .. 2 * Capacity - 1
  BY <1>1 DEF Ring
<1> QED
  BY <1>1, <1>2, Wraps DEF Ring

-----------------------------------------------------------------------------
(* Facts about the threads *)

\* A signal changes the place of the thread that sends it, and of at most one
\* sleeper, who is awake then; if there is a sleeper it is exactly one.
LEMMA SignalWakesOne ==
  ASSUME TypeOK, NEW S \in SUBSET Threads, NEW t \in Threads, NEW at \in PCs,
         pc[t] # "wait", SignalOne(S, t, at)
  PROVE  \/ /\ Sleeping(S) = {}
            /\ pc' = [pc EXCEPT ![t] = at]
         \/ \E u \in Sleeping(S) : /\ u # t
                                   /\ pc' = [pc EXCEPT ![t] = at, ![u] = "relock"]
  BY DEF SignalOne, Sleeping, TypeOK

\* Everybody is a thread, and main is no consumer.
LEMMA ThreadFacts ==
  /\ Producers \subseteq Threads /\ Consumers \subseteq Threads /\ Main \in Threads
  /\ Producers \cap Consumers = {} /\ Main \notin Consumers
  /\ NoThread \notin Threads
  BY ThreadsAssumption DEF Threads

-----------------------------------------------------------------------------
(* Types and items *)

\* The queue is empty and everybody outside.
LEMMA InitShape == Init => Shape
<1> SUFFICES ASSUME Init PROVE Shape
  OBVIOUS
<1>1. 0 \in Ring /\ 0 \in 0 .. Capacity /\ 0 \in 0 .. MaxPushes /\ 0 \in 0 .. MaxSpurious
  BY BoundsAssumption DEF Ring
<1> QED
  BY <1>1, ThreadFacts DEF Init, Shape, TypeOK, PushesCounted, PCs

\* Whoever is inside push or pop: only the ring, the places of the threads and
\* what the consumers got change.
LEMMA PushKeepsShape ==
  ASSUME Shape, NEW p \in Producers, Push(p)
  PROVE  Shape'
<1> USE ThreadFacts, BoundsAssumption DEF Shape
<1>1. <<p, pushes[p]>> \in Items
  BY DEF Push, Unlock, TypeOK, PushesCounted, Items
<1>2. tail' \in Ring /\ size' \in 0 .. Capacity
  BY NextEntry DEF Push, TypeOK
<1>3. PICK at \in {"out"}, u \in Threads \cup {NoThread} :
        /\ u \in Threads => pc[u] = "wait"
        /\ pc' = [t \in Threads |-> IF t = u THEN "relock" ELSE IF t = p THEN at ELSE pc[t]]
  <2>1. CASE Sleeping(Consumers) = {}
    BY <2>1 DEF Push, SignalOne, TypeOK
  <2>2. CASE Sleeping(Consumers) # {}
    BY <2>2 DEF Push, SignalOne, Sleeping, TypeOK
  <2> QED BY <2>1, <2>2
<1>4. TypeOK'
  BY <1>1, <1>2, <1>3 DEF Push, Unlock, history, TypeOK, PCs
<1>5. PushesCounted'
  BY <1>3 DEF Push, history, PushesCounted
<1> QED BY <1>4, <1>5

\* A pop moves head by one entry.
LEMMA PopKeepsShape ==
  ASSUME Shape, NEW c \in Consumers, Pop(c)
  PROVE  Shape'
<1> USE ThreadFacts, BoundsAssumption DEF Shape
<1>1. head' \in Ring /\ size' \in 0 .. Capacity
  BY NextEntry DEF Pop, TypeOK
<1>2. PICK at \in {"out"}, u \in Threads \cup {NoThread} :
        /\ u \in Threads => pc[u] = "wait"
        /\ pc' = [t \in Threads |-> IF t = u THEN "relock" ELSE IF t = c THEN at ELSE pc[t]]
  <2>1. CASE Sleeping(Producers) = {}
    BY <2>1 DEF Pop, SignalOne, TypeOK
  <2>2. CASE Sleeping(Producers) # {}
    BY <2>2 DEF Pop, SignalOne, Sleeping, TypeOK
  <2> QED BY <2>1, <2>2
<1>3. TypeOK'
  BY <1>1, <1>2 DEF Pop, Unlock, TypeOK, PCs
<1>4. PushesCounted'
  BY <1>2 DEF Pop, PushesCounted
<1> QED BY <1>3, <1>4

\* Every step keeps the types and the numbering of the pushes.
LEMMA StepKeepsShape ==
  ASSUME Shape, [Next]_vars
  PROVE  Shape'
<1> USE ThreadFacts, BoundsAssumption DEF Shape
<1>1. CASE UNCHANGED vars
  BY <1>1 DEF vars, TypeOK, PushesCounted
<1>2. ASSUME NEW p \in Producers, CallPush(p)
      PROVE  Shape'
  BY <1>2 DEF CallPush, ring, TypeOK, PushesCounted, PCs
<1>3. ASSUME NEW c \in Consumers, CallPop(c)
      PROVE  Shape'
  BY <1>3 DEF CallPop, ring, history, TypeOK, PushesCounted, PCs
<1>4. ASSUME NEW t \in Threads, Lock(t)
      PROVE  Shape'
  BY <1>4 DEF Lock, ring, history, TypeOK, PushesCounted, PCs
<1>5. ASSUME NEW t \in Threads, Sleep(t)
      PROVE  Shape'
  BY <1>5 DEF Sleep, Unlock, ring, history, TypeOK, PushesCounted, PCs
<1>6. ASSUME NEW t \in Threads, SpuriousWakeup(t)
      PROVE  Shape'
  BY <1>6 DEF SpuriousWakeup, ring, TypeOK, PushesCounted, PCs
<1>7. ASSUME NEW p \in Producers, PushRefused(p)
      PROVE  Shape'
  BY <1>7 DEF PushRefused, Unlock, ring, history, TypeOK, PushesCounted, PCs
<1>8. ASSUME NEW c \in Consumers, PopShutdown(c)
      PROVE  Shape'
  BY <1>8 DEF PopShutdown, Unlock, ring, history, TypeOK, PushesCounted, PCs
<1>9. ASSUME NEW t \in Threads, Interrupt(t)
      PROVE  Shape'
  BY <1>9 DEF Interrupt, ring, history, TypeOK, PushesCounted, PCs
<1>10. CASE HandlerShutdown
  BY <1>10 DEF HandlerShutdown, SignalShutdown, AllWoken, ring, history, TypeOK, PushesCounted, PCs
<1>11. CASE LeaveAcceptLoop
  BY <1>11 DEF LeaveAcceptLoop, ring, history, TypeOK, PushesCounted, PCs
<1>12. CASE MainShutdown
  BY <1>12 DEF MainShutdown, SignalShutdown, AllWoken, ring, history, TypeOK, PushesCounted, PCs
<1> QED
  BY <1>1, <1>2, <1>3, <1>4, <1>5, <1>6, <1>7, <1>8, <1>9, <1>10, <1>11, <1>12,
     PushKeepsShape, PopKeepsShape
  DEF Next, PushStep, PopStep, PushWait, PopWait, Finished

-----------------------------------------------------------------------------
(* The shutdown *)

\* The shutdown wakes all sleepers, and the flag is tested before every sleep.
LEMMA StepKeepsShutdown ==
  ASSUME Shape, ShutdownWakesAll, [Next]_vars
  PROVE  ShutdownWakesAll'
<1> USE ThreadFacts DEF Shape, TypeOK
<1>1. ASSUME NEW t \in Threads, shutdown' = shutdown, ~ shutdown, Sleep(t)
      PROVE  ShutdownWakesAll'
  BY <1>1 DEF ShutdownWakesAll
<1>2. ASSUME shutdown' = shutdown,
             \A t \in Threads : pc'[t] = "wait" => pc[t] = "wait"
      PROVE  ShutdownWakesAll'
  BY <1>2 DEF ShutdownWakesAll, Sleeping
<1>3. ASSUME \A t \in Threads : pc'[t] # "wait"
      PROVE  ShutdownWakesAll'
  BY <1>3 DEF ShutdownWakesAll, Sleeping
<1>4. CASE UNCHANGED vars
  BY <1>2, <1>4 DEF vars
<1>5. ASSUME NEW p \in Producers,
             CallPush(p) \/ Lock(p) \/ PushRefused(p)
      PROVE  ShutdownWakesAll'
  BY <1>2, <1>5 DEF CallPush, Lock, PushRefused
<1>6. ASSUME NEW c \in Consumers,
             CallPop(c) \/ Lock(c) \/ PopShutdown(c)
      PROVE  ShutdownWakesAll'
  BY <1>2, <1>6 DEF CallPop, Lock, PopShutdown
<1>7. ASSUME NEW p \in Producers, Push(p)
      PROVE  ShutdownWakesAll'
  BY <1>7 DEF Push, ShutdownWakesAll
<1>8. ASSUME NEW c \in Consumers, Pop(c)
      PROVE  ShutdownWakesAll'
  <2>1. \A t \in Threads : pc'[t] = "wait" => pc[t] = "wait"
    BY <1>8 DEF Pop, SignalOne, Sleeping
  <2> QED BY <1>2, <1>8, <2>1 DEF Pop
<1>9. ASSUME NEW p \in Producers, PushWait(p)
      PROVE  ShutdownWakesAll'
  BY <1>1, <1>9 DEF PushWait, Sleep
<1>10. ASSUME NEW c \in Consumers, PopWait(c)
       PROVE  ShutdownWakesAll'
  BY <1>1, <1>10 DEF PopWait, Sleep
<1>11. ASSUME NEW t \in Threads, SpuriousWakeup(t) \/ Interrupt(t)
       PROVE  ShutdownWakesAll'
  BY <1>2, <1>11 DEF SpuriousWakeup, Interrupt
<1>12. CASE HandlerShutdown \/ MainShutdown
  BY <1>3, <1>12 DEF HandlerShutdown, MainShutdown, AllWoken
<1>13. CASE LeaveAcceptLoop
  BY <1>2, <1>13 DEF LeaveAcceptLoop
<1> QED
  BY <1>4, <1>5, <1>6, <1>7, <1>8, <1>9, <1>10, <1>11, <1>12, <1>13
  DEF Next, PushStep, PopStep, Finished

-----------------------------------------------------------------------------
(* The ring *)

\* Whoever moves the head or the tail moves the size along.
LEMMA StepKeepsRing ==
  ASSUME Shape, RingFits, [Next]_vars
  PROVE  RingFits'
<1> USE DEF Shape
<1>1. Capacity \in Nat \ {0} /\ head \in Ring /\ tail \in Ring /\ size \in 0 .. Capacity
  BY BoundsAssumption DEF TypeOK
<1>2. \A h \in Ring, n \in 0 .. Capacity :
        (h + n) % Capacity = IF h + n < Capacity THEN h + n ELSE h + n - Capacity
  <2>1. \A k \in 0 .. 2 * Capacity - 1 :
          k % Capacity = IF k < Capacity THEN k ELSE k - Capacity
    BY Wraps
  <2>2. \A h \in Ring, n \in 0 .. Capacity : h + n \in 0 .. 2 * Capacity - 1
    BY <1>1 DEF Ring
  <2> QED BY <1>1, <2>1, <2>2 DEF Ring
<1>3. CASE UNCHANGED ring
  BY <1>3 DEF ring, RingFits
<1>4. ASSUME NEW p \in Producers, Push(p)
      PROVE  RingFits'
  <2>1. /\ head' = head /\ size' = size + 1 /\ size' \in 0 .. Capacity
        /\ tail' = (tail + 1) % Capacity
    BY <1>1, <1>4 DEF Push
  <2>2. tail = IF head + size < Capacity THEN head + size ELSE head + size - Capacity
    BY <1>1, <1>2 DEF RingFits
  <2>3. (head + size') % Capacity
          = IF head + size' < Capacity THEN head + size' ELSE head + size' - Capacity
    BY <1>1, <1>2, <2>1
  <2> QED BY <1>1, <2>1, <2>2, <2>3, NextEntry DEF RingFits, Ring
<1>5. ASSUME NEW c \in Consumers, Pop(c)
      PROVE  RingFits'
  <2>1. /\ tail' = tail /\ size' = size - 1 /\ size' \in 0 .. Capacity
        /\ head' = (head + 1) % Capacity
    BY <1>1, <1>5 DEF Pop
  <2>2. tail = IF head + size < Capacity THEN head + size ELSE head + size - Capacity
    BY <1>1, <1>2 DEF RingFits
  <2>3. /\ head' \in Ring
        /\ (head' + size') % Capacity
             = IF head' + size' < Capacity THEN head' + size' ELSE head' + size' - Capacity
    BY <1>1, <1>2, <2>1, NextEntry
  <2> QED BY <1>1, <2>1, <2>2, <2>3, NextEntry DEF RingFits, Ring
<1> QED
  BY <1>3, <1>4, <1>5
  DEF Next, PushStep, PopStep, CallPush, CallPop, Lock, PushWait, PopWait, Sleep, PushRefused,
      PopShutdown, SpuriousWakeup, Interrupt, HandlerShutdown, SignalShutdown,
      LeaveAcceptLoop, MainShutdown, Finished, vars, ring

-----------------------------------------------------------------------------
(* The wakeups *)

\* What the awake threads of S are after a step, compared with before.
LEMMA AwakeCount ==
  ASSUME NEW A, NEW B, IsFiniteSet(A), IsFiniteSet(B)
  PROVE  /\ Cardinality(A) \in Nat /\ Cardinality(B) \in Nat
         /\ A \subseteq B => Cardinality(A) <= Cardinality(B)
         /\ \A t : A \ {t} \subseteq B => Cardinality(A) - 1 <= Cardinality(B)
         /\ \A t : A \cup {t} \subseteq B /\ t \notin A => Cardinality(A) + 1 <= Cardinality(B)
<1>1. Cardinality(A) \in Nat /\ Cardinality(B) \in Nat
  BY FS_CardinalityType
<1>2. A \subseteq B => Cardinality(A) <= Cardinality(B)
  BY FS_Subset
<1>3. ASSUME NEW t, A \ {t} \subseteq B
      PROVE  Cardinality(A) - 1 <= Cardinality(B)
  <2>1. Cardinality(A \ {t}) <= Cardinality(B)
    BY <1>3, FS_Subset
  <2>2. Cardinality(A \ {t}) = IF t \in A THEN Cardinality(A) - 1 ELSE Cardinality(A)
    BY FS_RemoveElement
  <2> QED BY <1>1, <2>1, <2>2
<1>4. ASSUME NEW t, A \cup {t} \subseteq B, t \notin A
      PROVE  Cardinality(A) + 1 <= Cardinality(B)
  <2>1. Cardinality(A \cup {t}) <= Cardinality(B)
    BY <1>4, FS_Subset
  <2>2. Cardinality(A \cup {t}) = Cardinality(A) + 1
    BY <1>4, FS_AddElement
  <2> QED BY <2>1, <2>2
<1> QED BY <1>1, <1>2, <1>3, <1>4

\* The sets of awake threads are finite, before and after a step.
LEMMA AwakeFinite ==
  /\ IsFiniteSet(Awake(Producers)) /\ IsFiniteSet(Awake(Consumers))
  /\ IsFiniteSet(Awake(Producers)') /\ IsFiniteSet(Awake(Consumers)')
<1>1. /\ Awake(Producers) \subseteq Producers /\ Awake(Producers)' \subseteq Producers
      /\ Awake(Consumers) \subseteq Consumers /\ Awake(Consumers)' \subseteq Consumers
  BY DEF Awake
<1>2. IsFiniteSet(Producers) /\ IsFiniteSet(Consumers)
  BY ThreadsAssumption
<1> QED BY <1>1, <1>2, FS_Subset

\* A step that leaves the size alone, puts nobody to sleep and lets nobody leave
\* who is awake loses no wakeup.
LEMMA QuietStep ==
  ASSUME Shape, NoLostWakeup, size' = size,
         \A t \in Producers \cup Consumers :
           /\ pc'[t] = "wait" => pc[t] = "wait"
           /\ pc[t] \in {"lock", "in", "relock"} => pc'[t] \in {"lock", "in", "relock"}
  PROVE  NoLostWakeup'
<1>1. /\ Awake(Producers) \subseteq Awake(Producers)'
      /\ Awake(Consumers) \subseteq Awake(Consumers)'
      /\ Sleeping(Producers)' \subseteq Sleeping(Producers)
      /\ Sleeping(Consumers)' \subseteq Sleeping(Consumers)
  BY DEF Awake, Sleeping
<1>2. /\ Cardinality(Awake(Producers)) <= Cardinality(Awake(Producers)')
      /\ Cardinality(Awake(Consumers)) <= Cardinality(Awake(Consumers)')
      /\ Cardinality(Awake(Producers)) \in Nat /\ Cardinality(Awake(Consumers)) \in Nat
      /\ Cardinality(Awake(Producers)') \in Nat /\ Cardinality(Awake(Consumers)') \in Nat
  BY <1>1, AwakeFinite, AwakeCount
<1>3. size \in Int /\ Capacity \in Int
  BY BoundsAssumption DEF Shape, TypeOK
<1> QED BY <1>1, <1>2, <1>3 DEF NoLostWakeup

\* One more item: the producer leaves, and one more consumer is awake if any
\* was asleep.
LEMMA PushWakes ==
  ASSUME Shape, NoLostWakeup, NEW p \in Producers, Push(p)
  PROVE  NoLostWakeup'
<1> USE ThreadFacts DEF Shape
<1>1. size \in Nat /\ size' = size + 1 /\ Capacity \in Nat /\ pc[p] = "in"
  BY BoundsAssumption DEF Push, Unlock, TypeOK
<1>2. /\ Cardinality(Awake(Producers)) \in Nat /\ Cardinality(Awake(Consumers)) \in Nat
      /\ Cardinality(Awake(Producers)') \in Nat /\ Cardinality(Awake(Consumers)') \in Nat
  BY AwakeFinite, AwakeCount
<1>3. /\ Awake(Producers) \ {p} \subseteq Awake(Producers)'
      /\ Sleeping(Producers)' \subseteq Sleeping(Producers)
  BY <1>1 DEF Push, SignalOne, Awake, Sleeping, TypeOK
<1>4. Cardinality(Awake(Producers)) - 1 <= Cardinality(Awake(Producers)')
  BY <1>3, AwakeFinite, AwakeCount
<1>5. Sleeping(Producers)' # {} => Cardinality(Awake(Producers)') >= Capacity - size'
  BY <1>1, <1>2, <1>3, <1>4 DEF NoLostWakeup
<1>6. ASSUME Sleeping(Consumers)' # {}
      PROVE  Cardinality(Awake(Consumers)') >= size'
  <2>1. Sleeping(Consumers) # {}
    BY <1>1, <1>6 DEF Push, SignalOne, Sleeping, TypeOK
  <2>2. PICK u \in Sleeping(Consumers) : pc' = [pc EXCEPT ![p] = "out", ![u] = "relock"]
    BY <2>1 DEF Push, SignalOne
  <2>3. Awake(Consumers) \cup {u} \subseteq Awake(Consumers)' /\ u \notin Awake(Consumers)
    BY <2>2 DEF Awake, Sleeping, TypeOK
  <2>4. Cardinality(Awake(Consumers)) + 1 <= Cardinality(Awake(Consumers)')
    BY <2>3, AwakeFinite, AwakeCount
  <2> QED BY <1>1, <1>2, <2>1, <2>4 DEF NoLostWakeup
<1> QED BY <1>5, <1>6 DEF NoLostWakeup

\* One item less: the same with the sides exchanged.
LEMMA PopWakes ==
  ASSUME Shape, NoLostWakeup, NEW c \in Consumers, Pop(c)
  PROVE  NoLostWakeup'
<1> USE ThreadFacts DEF Shape
<1>1. size \in Nat /\ size' = size - 1 /\ Capacity \in Nat /\ pc[c] = "in"
  BY BoundsAssumption DEF Pop, Unlock, TypeOK
<1>2. /\ Cardinality(Awake(Producers)) \in Nat /\ Cardinality(Awake(Consumers)) \in Nat
      /\ Cardinality(Awake(Producers)') \in Nat /\ Cardinality(Awake(Consumers)') \in Nat
  BY AwakeFinite, AwakeCount
<1>3. /\ Awake(Consumers) \ {c} \subseteq Awake(Consumers)'
      /\ Sleeping(Consumers)' \subseteq Sleeping(Consumers)
  BY <1>1 DEF Pop, SignalOne, Awake, Sleeping, TypeOK
<1>4. Cardinality(Awake(Consumers)) - 1 <= Cardinality(Awake(Consumers)')
  BY <1>3, AwakeFinite, AwakeCount
<1>5. Sleeping(Consumers)' # {} => Cardinality(Awake(Consumers)') >= size'
  BY <1>1, <1>2, <1>3, <1>4 DEF NoLostWakeup
<1>6. ASSUME Sleeping(Producers)' # {}
      PROVE  Cardinality(Awake(Producers)') >= Capacity - size'
  <2>1. Sleeping(Producers) # {}
    BY <1>1, <1>6 DEF Pop, SignalOne, Sleeping, TypeOK
  <2>2. PICK u \in Sleeping(Producers) : pc' = [pc EXCEPT ![c] = "out", ![u] = "relock"]
    BY <2>1 DEF Pop, SignalOne
  <2>3. Awake(Producers) \cup {u} \subseteq Awake(Producers)' /\ u \notin Awake(Producers)
    BY <2>2 DEF Awake, Sleeping, TypeOK
  <2>4. Cardinality(Awake(Producers)) + 1 <= Cardinality(Awake(Producers)')
    BY <2>3, AwakeFinite, AwakeCount
  <2> QED BY <1>1, <1>2, <2>1, <2>4 DEF NoLostWakeup
<1> QED BY <1>5, <1>6 DEF NoLostWakeup

\* A producer goes to sleep only when there is no room to be filled, a consumer
\* only when there is nothing to be taken.
LEMMA WaitLosesNothing ==
  ASSUME Shape, NoLostWakeup,
         \/ \E p \in Producers : PushWait(p)
         \/ \E c \in Consumers : PopWait(c)
  PROVE  NoLostWakeup'
<1> USE ThreadFacts DEF Shape
<1>1. /\ Cardinality(Awake(Producers)) \in Nat /\ Cardinality(Awake(Consumers)) \in Nat
      /\ Cardinality(Awake(Producers)') \in Nat /\ Cardinality(Awake(Consumers)') \in Nat
  BY AwakeFinite, AwakeCount
<1>2. size \in Nat /\ size' = size /\ Capacity \in Nat
  BY BoundsAssumption DEF PushWait, PopWait, Sleep, ring, TypeOK
<1>3. ASSUME NEW p \in Producers, PushWait(p)
      PROVE  NoLostWakeup'
  <2>1. Capacity - size' = 0
    BY <1>2, <1>3 DEF PushWait
  <2>2. Sleeping(Consumers)' = Sleeping(Consumers) /\ Awake(Consumers)' = Awake(Consumers)
    BY <1>3 DEF PushWait, Sleep, Sleeping, Awake, TypeOK
  <2> QED BY <1>1, <1>2, <2>1, <2>2 DEF NoLostWakeup
<1>4. ASSUME NEW c \in Consumers, PopWait(c)
      PROVE  NoLostWakeup'
  <2>1. size' = 0
    BY <1>2, <1>4 DEF PopWait
  <2>2. Sleeping(Producers)' = Sleeping(Producers) /\ Awake(Producers)' = Awake(Producers)
    BY <1>4 DEF PopWait, Sleep, Sleeping, Awake, TypeOK
  <2> QED BY <1>1, <1>2, <2>1, <2>2 DEF NoLostWakeup
<1> QED BY <1>3, <1>4

\* After the shutdown there are no sleepers whose wakeup could be lost.
LEMMA NobodyToWake ==
  ASSUME shutdown', ShutdownWakesAll'
  PROVE  NoLostWakeup'
  BY DEF ShutdownWakesAll, NoLostWakeup

\* A waiting thread that could go on has a wakeup on its way, whatever happens.
LEMMA StepKeepsWakeups ==
  ASSUME Shape, NoLostWakeup, ShutdownWakesAll', [Next]_vars
  PROVE  NoLostWakeup'
<1> USE ThreadFacts DEF Shape, TypeOK
<1>1. CASE UNCHANGED vars
  BY <1>1, QuietStep DEF vars
<1>2. ASSUME NEW p \in Producers, CallPush(p)
      PROVE  NoLostWakeup'
  BY <1>2, QuietStep DEF CallPush, ring
<1>3. ASSUME NEW c \in Consumers, CallPop(c)
      PROVE  NoLostWakeup'
  BY <1>3, QuietStep DEF CallPop, ring
<1>4. ASSUME NEW t \in Threads, Lock(t) \/ SpuriousWakeup(t) \/ Interrupt(t)
      PROVE  NoLostWakeup'
  BY <1>4, QuietStep DEF Lock, SpuriousWakeup, Interrupt, ring
<1>5. ASSUME NEW p \in Producers, PushRefused(p)
      PROVE  NoLostWakeup'
  BY <1>5, NobodyToWake DEF PushRefused
<1>6. ASSUME NEW c \in Consumers, PopShutdown(c)
      PROVE  NoLostWakeup'
  BY <1>6, NobodyToWake DEF PopShutdown
<1>7. CASE HandlerShutdown \/ MainShutdown
  BY <1>7, NobodyToWake DEF HandlerShutdown, MainShutdown, SignalShutdown
<1>8. CASE LeaveAcceptLoop
  BY <1>8, QuietStep DEF LeaveAcceptLoop, ring
<1> QED
  BY <1>1, <1>2, <1>3, <1>4, <1>5, <1>6, <1>7, <1>8, PushWakes, PopWakes, WaitLosesNothing
  DEF Next, PushStep, PopStep, Finished

-----------------------------------------------------------------------------
(* The theorems *)

\* Nobody waits at first.
LEMMA InitEstablishes == Init => IInv
<1> SUFFICES ASSUME Init PROVE IInv
  OBVIOUS
<1>1. \A t \in Threads : pc[t] = "out"
  BY DEF Init
<1>2. ShutdownWakesAll /\ NoLostWakeup
  BY <1>1, ThreadFacts DEF ShutdownWakesAll, NoLostWakeup, Sleeping
<1>3. RingFits
  <2>1. Capacity \in Nat \ {0}
    BY BoundsAssumption
  <2>2. 0 % Capacity = 0
    BY <2>1
  <2> QED BY <2>2 DEF Init, RingFits
<1> QED BY <1>2, <1>3, InitShape DEF IInv, Shape

\* In every reachable state of a queue the ring is in order, nobody sleeps
\* after the shutdown and no wakeup is lost.
THEOREM Invariance == Spec => []IInv
<1>1. IInv /\ [Next]_vars => IInv'
  BY StepKeepsShape, StepKeepsRing, StepKeepsShutdown, StepKeepsWakeups DEF IInv, Shape
<1> QED BY <1>1, InitEstablishes, PTL DEF Spec

\* The indices stay inside the ring, the size between zero and the capacity, and
\* no item is made up.
THEOREM TypeCorrect == Spec => []TypeOK
<1>1. IInv => TypeOK
  BY DEF IInv
<1> QED BY <1>1, Invariance, PTL

\* After signal_shutdown nobody is left in pthread_cond_wait, and nobody gets
\* there any more: main can join the threads.
THEOREM ShutdownReachesAll == Spec => []ShutdownWakesAll
<1>1. IInv => ShutdownWakesAll
  BY DEF IInv
<1> QED BY <1>1, Invariance, PTL

\* One pthread_cond_signal per push and per pop is enough, whoever takes the
\* mutex first and whoever wakes up without a signal.
THEOREM NoWakeupLost == Spec => []NoLostWakeup
<1>1. IInv => NoLostWakeup
  BY DEF IInv
<1> QED BY <1>1, Invariance, PTL

-----------------------------------------------------------------------------
(* The queue behind the ring *)

\* What the ring holds is a sequence.
LEMMA ContentIsSeq ==
  ASSUME TypeOK
  PROVE  Content \in Seq(Items \cup {NoItem}) /\ Len(Content) = size
<1>1. /\ Capacity \in Nat \ {0} /\ head \in Ring /\ size \in Nat /\ size <= Capacity
  BY BoundsAssumption DEF TypeOK
<1>2. \A k \in 0 .. 2 * Capacity - 1 : k % Capacity \in Ring
  BY Wraps
<1>3. \A i \in 1 .. size : head + i - 1 \in 0 .. 2 * Capacity - 1
  BY <1>1 DEF Ring
<1>4. \A i \in 1 .. size : fds[(head + i - 1) % Capacity] \in Items \cup {NoItem}
  BY <1>2, <1>3 DEF TypeOK
<1> QED BY <1>1, <1>4 DEF Content

\* Where the items of the queue lie: in different entries, and the next item goes
\* to an entry that is free.
LEMMA Entries ==
  ASSUME Shape, RingFits, NEW i \in 1 .. size
  PROVE  /\ head + i - 1 \in 0 .. 2 * Capacity - 1
         /\ (head + i - 1) % Capacity
              = IF head + i - 1 < Capacity THEN head + i - 1 ELSE head + i - 1 - Capacity
         /\ (head + i - 1) % Capacity \in Ring
         /\ size < Capacity => (head + i - 1) % Capacity # tail
<1>1. /\ Capacity \in Nat \ {0} /\ head \in Ring /\ tail \in Ring
      /\ size \in Nat /\ size <= Capacity
  BY BoundsAssumption DEF Shape, TypeOK
<1>2. \A k \in 0 .. 2 * Capacity - 1 :
        /\ k % Capacity = IF k < Capacity THEN k ELSE k - Capacity
        /\ k % Capacity \in Ring
  BY Wraps
<1>3. head + i - 1 \in 0 .. 2 * Capacity - 1 /\ head + size \in 0 .. 2 * Capacity - 1
  BY <1>1 DEF Ring
<1>4. tail = IF head + size < Capacity THEN head + size ELSE head + size - Capacity
  BY <1>1, <1>2, <1>3 DEF RingFits
<1>5. /\ (head + i - 1) % Capacity
           = IF head + i - 1 < Capacity THEN head + i - 1 ELSE head + i - 1 - Capacity
      /\ (head + i - 1) % Capacity \in Ring
  BY <1>1, <1>2, <1>3 DEF Ring
<1>6. size < Capacity => (head + i - 1) % Capacity # tail
  BY <1>1, <1>4, <1>5 DEF Ring
<1> QED BY <1>3, <1>5, <1>6

\* The entry a push writes becomes the last of the sequence ...
LEMMA PushPuts ==
  ASSUME Shape, RingFits, NEW p \in Producers, Push(p)
  PROVE  \E x \in Items : Fifo!Put(x)
<1> DEFINE x == <<p, pushes[p]>>
<1>1. x \in Items
  BY ThreadFacts DEF Push, Unlock, Shape, TypeOK, PushesCounted, Items
<1>2. /\ size \in Nat /\ size < Capacity /\ size' = size + 1
      /\ head' = head /\ fds' = [fds EXCEPT ![tail] = x]
      /\ tail \in Ring /\ head \in Ring /\ fds \in [Ring -> Items \cup {NoItem}]
      /\ Capacity \in Nat \ {0}
  BY BoundsAssumption DEF Push, Shape, TypeOK
<1> HIDE DEF x
<1>3. ASSUME NEW i \in 1 .. size
      PROVE  fds'[(head + i - 1) % Capacity] = fds[(head + i - 1) % Capacity]
  BY <1>2, <1>3, Entries
<1>4. fds'[(head + (size + 1) - 1) % Capacity] = x
  <2>1. head + (size + 1) - 1 = head + size
    BY <1>2 DEF Ring
  <2> QED BY <1>2, <2>1 DEF RingFits
<1>5. Content \in Seq(Items \cup {NoItem}) /\ Len(Content) = size
  BY ContentIsSeq DEF Shape
<1>6. Content' = [i \in 1 .. size + 1 |-> IF i = size + 1 THEN x ELSE Content[i]]
  BY <1>2, <1>3, <1>4 DEF Content
<1>7. Content' = Append(Content, x)
  <2> DEFINE S == Items \cup {NoItem}
  <2>1. Content' \in Seq(S) /\ Len(Content') = size + 1
    BY <1>1, <1>2, <1>5, <1>6
  <2>2. /\ Append(Content, x) \in Seq(S) /\ Len(Append(Content, x)) = size + 1
        /\ \A i \in 1 .. size : Append(Content, x)[i] = Content[i]
        /\ Append(Content, x)[size + 1] = x
    BY <1>1, <1>5, AppendProperties
  <2>3. \A i \in 1 .. size + 1 : Content'[i] = Append(Content, x)[i]
    BY <1>2, <1>6, <2>2
  <2> HIDE DEF S
  <2> QED BY <2>1, <2>2, <2>3, SeqEqual
<1> QED BY <1>1, <1>2, <1>5, <1>7 DEF Push, Fifo!Put, history

\* ... and the entry a pop reads was the first.
LEMMA PopTakes ==
  ASSUME Shape, RingFits, NEW c \in Consumers, Pop(c)
  PROVE  Fifo!Take(c)
<1>1. /\ size \in Nat /\ size > 0 /\ size <= Capacity /\ size' = size - 1
      /\ head' = (head + 1) % Capacity /\ head \in Ring /\ fds' = fds
      /\ Capacity \in Nat \ {0}
  BY BoundsAssumption DEF Pop, Shape, TypeOK
<1>2. Content \in Seq(Items \cup {NoItem}) /\ Len(Content) = size
  BY ContentIsSeq DEF Shape
<1>3. Head(Content) = fds[head]
  <2>1. head % Capacity = head
    BY <1>1 DEF Ring
  <2>2. head + 1 - 1 = head /\ 1 \in 1 .. size
    BY <1>1 DEF Ring
  <2> QED BY <1>1, <1>2, <2>1, <2>2 DEF Content
<1>4. ASSUME NEW i \in 1 .. size - 1
      PROVE  (head' + i - 1) % Capacity = (head + (i + 1) - 1) % Capacity
  <2>1. /\ i + 1 \in 1 .. size /\ head' \in Ring
        /\ head' = IF head = Capacity - 1 THEN 0 ELSE head + 1
    BY <1>1, NextEntry
  <2>2. head' + i - 1 \in 0 .. 2 * Capacity - 1
    BY <1>1, <2>1 DEF Ring
  <2>3. (head' + i - 1) % Capacity
          = IF head' + i - 1 < Capacity THEN head' + i - 1 ELSE head' + i - 1 - Capacity
    BY <1>1, <2>2, Wraps
  <2>4. (head + (i + 1) - 1) % Capacity
          = IF head + (i + 1) - 1 < Capacity THEN head + (i + 1) - 1
                                             ELSE head + (i + 1) - 1 - Capacity
    BY <2>1, Entries
  <2> QED BY <1>1, <2>1, <2>3, <2>4 DEF Ring
<1>5. Content' = [i \in 1 .. size - 1 |-> Content[i + 1]]
  <2>1. \A i \in 1 .. size - 1 : i + 1 \in 1 .. size
    BY <1>1
  <2>2. \A i \in 1 .. size - 1 : Content[i + 1] = fds[(head + (i + 1) - 1) % Capacity]
    BY <2>1 DEF Content
  <2> QED BY <1>1, <1>4, <2>2 DEF Content
<1>6. Content' = Tail(Content)
  <2> DEFINE S == Items \cup {NoItem}
  <2>1. Content # <<>>
    BY <1>1, <1>2
  <2>2. /\ Tail(Content) \in Seq(S) /\ Len(Tail(Content)) = size - 1
        /\ \A i \in 1 .. size - 1 : Tail(Content)[i] = Content[i + 1]
    BY <1>2, <2>1, HeadTailProperties
  <2>3. \A i \in 1 .. size - 1 : Content[i + 1] \in S
    BY <1>1, <1>2
  <2>4. Content' \in Seq(S) /\ Len(Content') = size - 1
    BY <1>1, <1>5, <2>3
  <2>5. \A i \in 1 .. size - 1 : Content'[i] = Tail(Content)[i]
    BY <1>5, <2>2
  <2> HIDE DEF S
  <2> QED BY <2>2, <2>4, <2>5, SeqEqual
<1>7. Content # <<>>
  BY <1>1, <1>2
<1> QED BY <1>3, <1>6, <1>7 DEF Pop, Fifo!Take

\* Everything else the threads, the handler and main do is invisible, but for
\* the shutdown.
LEMMA OthersStutter ==
  ASSUME UNCHANGED <<ring, got>>, shutdown' \in {shutdown, TRUE}
  PROVE  [Fifo!Next]_(Fifo!fifovars)
<1>1. Content' = Content
  BY DEF Content, ring
<1> QED BY <1>1 DEF Fifo!Next, Fifo!Close, Fifo!fifovars

\* Both queues of the server are bounded first-in first-out queues that can be
\* closed: nothing is lost, made up, overtaken or handed out twice, whatever
\* the order in which producers, consumers and the signal handler get the mutex.
THEOREM Refinement == Spec => ImplementsFifo
<1>1. Init => Fifo!Init
  <2> SUFFICES ASSUME Init PROVE Fifo!Init
    OBVIOUS
  <2>1. Content = <<>>
    BY DEF Init, Content
  <2> QED BY <2>1 DEF Init, Fifo!Init
<1>2. ASSUME IInv, [Next]_vars
      PROVE  [Fifo!Next]_(Fifo!fifovars)
  <2>1. ASSUME NEW p \in Producers, Push(p)
        PROVE  [Fifo!Next]_(Fifo!fifovars)
    BY <1>2, <2>1, PushPuts DEF IInv, Shape, Fifo!Next
  <2>2. ASSUME NEW c \in Consumers, Pop(c)
        PROVE  [Fifo!Next]_(Fifo!fifovars)
    BY <1>2, <2>2, PopTakes DEF IInv, Shape, Fifo!Next
  <2>3. ASSUME NEW p \in Producers, CallPush(p) \/ Lock(p) \/ PushWait(p) \/ PushRefused(p)
        PROVE  [Fifo!Next]_(Fifo!fifovars)
    BY <2>3, OthersStutter DEF CallPush, Lock, PushWait, Sleep, PushRefused, history
  <2>4. ASSUME NEW c \in Consumers, CallPop(c) \/ Lock(c) \/ PopWait(c) \/ PopShutdown(c)
        PROVE  [Fifo!Next]_(Fifo!fifovars)
    BY <2>4, OthersStutter DEF CallPop, Lock, PopWait, Sleep, PopShutdown, history
  <2>5. ASSUME NEW t \in Threads, SpuriousWakeup(t) \/ Interrupt(t)
        PROVE  [Fifo!Next]_(Fifo!fifovars)
    BY <2>5, OthersStutter DEF SpuriousWakeup, Interrupt, history
  <2>6. CASE HandlerShutdown \/ MainShutdown
    BY <2>6, OthersStutter DEF HandlerShutdown, MainShutdown, SignalShutdown, history
  <2>7. CASE LeaveAcceptLoop \/ UNCHANGED vars
    BY <2>7, OthersStutter DEF LeaveAcceptLoop, vars, ring, history
  <2> QED
    BY <1>2, <2>1, <2>2, <2>3, <2>4, <2>5, <2>6, <2>7
    DEF Next, PushStep, PopStep, Finished
<1> QED BY <1>1, <1>2, Invariance, PTL DEF Spec, ImplementsFifo, Fifo!Spec
=============================================================================
