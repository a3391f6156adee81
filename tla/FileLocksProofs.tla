-------------------------- MODULE FileLocksProofs --------------------------
(***************************************************************************)
(* What holds of the lock manager for every number of workers, files and   *)
(* slots and every hash function (the first part), and what holds as long  *)
(* as no two of the files asked for collide (the second part).             *)
(***************************************************************************)
EXTENDS FileLocks, FiniteSetTheorems, WellFoundedInduction, TLAPS

\* The workers that own a reference to slot s.
Referrers(s) == {w \in Workers : Refers(w, s)}

\* The control state of a worker determines what it carries.
ControlShape ==
  \A w \in Workers :
    /\ slot[w] # NoSlot
         <=> pc[w] \in {"wait", "print", "held", "unlocked", "drop"}
    /\ file[w] = NoFile <=> pc[w] = "idle"

\* manager_mtx is held exactly while probing or dropping a reference.
ManagerOwned ==
  \A w \in Workers : manager_mtx = w <=> pc[w] \in {"find", "drop"}

\* The inductive invariant.
IInv ==
  /\ TypeOK
  /\ ControlShape
  /\ ManagerOwned
  /\ RefCountExact
  /\ PointerValid
  /\ SlotMutexOwned

-----------------------------------------------------------------------------
(* Facts about slots and references *)

\* A slot that the probing loop stops at is one of the table's slots.
LEMMA ProbeInRange ==
  ASSUME NEW f \in Files, NEW s, Probe(f, s)
  PROVE  s \in Slots /\ StopsAt(f, s)
<1>1. PICK k \in 0 .. Capacity - 1 : s = ProbeIndex(f, k) /\ StopsAt(f, s)
  BY DEF Probe
<1>2. Hash[f] \in Nat /\ Capacity \in Nat \ {0} /\ k \in Nat
  BY CapacityAssumption, HashAssumption DEF Slots
<1>3. (Hash[f] + k) % Capacity \in 0 .. Capacity - 1
  BY <1>2
<1> QED
  BY <1>1, <1>3 DEF ProbeIndex, Slots

\* The references to a slot are finitely many.
LEMMA ReferrersFinite ==
  \A s : IsFiniteSet(Referrers(s)) /\ Cardinality(Referrers(s)) \in Nat
<1> SUFFICES ASSUME NEW s
             PROVE  IsFiniteSet(Referrers(s)) /\ Cardinality(Referrers(s)) \in Nat
  OBVIOUS
<1>1. Referrers(s) \subseteq Workers
  BY DEF Referrers
<1> QED
  BY <1>1, WorkersAssumption, FS_Subset, FS_CardinalityType

\* Taking a reference to s adds one to the count of s and nothing elsewhere.
LEMMA TakeReference ==
  ASSUME TypeOK, RefCountExact, NEW w \in Workers, NEW s \in Slots,
         slot[w] = NoSlot,
         slot' = [slot EXCEPT ![w] = s],
         ref_count' = [ref_count EXCEPT ![s] = @ + 1],
         in_use' = [in_use EXCEPT ![s] = TRUE]
  PROVE  RefCountExact'
<1> SUFFICES ASSUME NEW t \in Slots
             PROVE  /\ ref_count'[t] = Cardinality(Referrers(t)')
                    /\ in_use'[t] <=> \E u \in Workers : slot'[u] = t
  BY DEF RefCountExact, Refers, Referrers
<1>1. /\ ref_count[t] = Cardinality(Referrers(t))
      /\ in_use[t] <=> \E u \in Workers : slot[u] = t
  BY DEF RefCountExact, Refers, Referrers
<1>2. t # NoSlot /\ s # NoSlot
  BY CapacityAssumption DEF Slots, NoSlot
<1>3. CASE t = s
  <2>1. Referrers(t)' = Referrers(t) \cup {w} /\ w \notin Referrers(t)
    BY <1>2, <1>3 DEF Referrers, Refers, TypeOK
  <2>2. Cardinality(Referrers(t)') = Cardinality(Referrers(t)) + 1
    BY <2>1, ReferrersFinite, FS_AddElement
  <2> QED
    BY <1>1, <1>3, <2>2 DEF TypeOK
<1>4. CASE t # s
  <2>1. Referrers(t)' = Referrers(t)
    BY <1>2, <1>4 DEF Referrers, Refers, TypeOK
  <2>2. (\E u \in Workers : slot'[u] = t) <=> (\E u \in Workers : slot[u] = t)
    BY <2>1 DEF Referrers, Refers
  <2> QED
    BY <1>1, <1>4, <2>1, <2>2 DEF TypeOK
<1> QED
  BY <1>3, <1>4

\* Dropping a reference subtracts one, and frees the slot with the last one.
LEMMA LoseReference ==
  ASSUME TypeOK, RefCountExact, NEW w \in Workers, NEW s \in Slots,
         slot[w] = s,
         slot' = [slot EXCEPT ![w] = NoSlot],
         ref_count' = [ref_count EXCEPT ![s] = @ - 1],
         in_use' = [in_use EXCEPT ![s] = @ /\ ~ (ref_count[s] - 1 <= 0)]
  PROVE  /\ RefCountExact'
         /\ ref_count' \in [Slots -> Nat]
         /\ ref_count[s] - 1 <= 0 => \A u \in Workers \ {w} : slot[u] # s
<1>1. ASSUME NEW t \in Slots
      PROVE  /\ ref_count[t] = Cardinality(Referrers(t))
             /\ in_use[t] <=> \E u \in Workers : slot[u] = t
  BY DEF RefCountExact, Refers, Referrers
<1>2. s # NoSlot
  BY CapacityAssumption DEF Slots, NoSlot
<1>3. /\ Referrers(s)' = Referrers(s) \ {w}
      /\ w \in Referrers(s)
  BY <1>2 DEF Referrers, Refers, TypeOK
<1>4. Cardinality(Referrers(s)') = Cardinality(Referrers(s)) - 1
  BY <1>3, ReferrersFinite, FS_RemoveElement
<1>5. IsFiniteSet(Referrers(s)') /\ Cardinality(Referrers(s)') \in Nat
  BY <1>3, ReferrersFinite, FS_RemoveElement, FS_CardinalityType
<1>6. Cardinality(Referrers(s)') = 0 <=> Referrers(s)' = {}
  BY <1>5, FS_EmptySet
<1>7. ref_count[s] = Cardinality(Referrers(s))
  BY <1>1
<1>8. ref_count[s] - 1 = Cardinality(Referrers(s)') /\ ref_count[s] - 1 \in Nat
  BY <1>4, <1>5, <1>7
<1>9. ref_count[s] - 1 <= 0 <=> Referrers(s)' = {}
  BY <1>6, <1>8
<1>10. Referrers(s)' = {} <=> \A u \in Workers \ {w} : slot[u] # s
  BY <1>3 DEF Referrers, Refers
<1>11. Referrers(s)' = {} <=> ~ \E u \in Workers : slot'[u] = s
  BY DEF Referrers, Refers
<1>12. in_use[s]
  BY <1>1
<1>13. in_use'[s] <=> \E u \in Workers : slot'[u] = s
  <2>1. in_use'[s] = (in_use[s] /\ ~ (ref_count[s] - 1 <= 0))
    BY DEF TypeOK
  <2> QED
    BY <2>1, <1>9, <1>11, <1>12, Zenon
<1>14. ASSUME NEW t \in Slots, t # s
       PROVE  /\ ref_count'[t] = Cardinality(Referrers(t)')
              /\ in_use'[t] <=> \E u \in Workers : slot'[u] = t
  <2>1. Referrers(t)' = Referrers(t)
    <3>1. t # NoSlot
      BY CapacityAssumption DEF Slots, NoSlot
    <3> QED
      BY <3>1, <1>14 DEF Referrers, Refers, TypeOK
  <2>2. (\E u \in Workers : slot'[u] = t) <=> (\E u \in Workers : slot[u] = t)
    BY <2>1 DEF Referrers, Refers
  <2>3. ref_count'[t] = ref_count[t] /\ in_use'[t] = in_use[t]
    BY <1>14 DEF TypeOK
  <2>4. ref_count[t] = Cardinality(Referrers(t))
        /\ (in_use[t] <=> \E u \in Workers : slot[u] = t)
    BY <1>1
  <2> QED
    BY <2>1, <2>2, <2>3, <2>4
<1>15. ref_count'[s] = Cardinality(Referrers(s)')
  BY <1>8 DEF TypeOK
<1>16. RefCountExact'
  BY <1>13, <1>14, <1>15 DEF RefCountExact, Refers, Referrers
<1>17. ref_count' \in [Slots -> Nat]
  BY <1>8 DEF TypeOK
<1> QED
  BY <1>9, <1>10, <1>16, <1>17
-----------------------------------------------------------------------------
(* The invariant is inductive *)

\* The empty table of file_lock_manager_init satisfies the invariant.
LEMMA InitEstablishes == Init => IInv
<1> SUFFICES ASSUME Init PROVE IInv
  OBVIOUS
<1> USE DEF Init
<1>1. TypeOK
  BY DEF TypeOK, PCs
<1>2. ControlShape /\ ManagerOwned /\ PointerValid
  BY WorkersAssumption DEF ControlShape, ManagerOwned, PointerValid, NoSlot
<1>3. RefCountExact
  <2> SUFFICES ASSUME NEW s \in Slots
               PROVE  /\ ref_count[s] = Cardinality({w \in Workers : Refers(w, s)})
                      /\ in_use[s] <=> \E w \in Workers : Refers(w, s)
    BY DEF RefCountExact
  <2>1. s # NoSlot
    BY CapacityAssumption DEF Slots, NoSlot
  <2>2. {w \in Workers : Refers(w, s)} = {}
    BY <2>1 DEF Refers
  <2> QED
    BY <2>2, FS_EmptySet
<1>4. SlotMutexOwned
  BY WorkersAssumption DEF SlotMutexOwned, Inside
<1> QED
  BY <1>1, <1>2, <1>3, <1>4 DEF IInv

\* A pointer a worker holds is a slot of the table.
LEMMA PointerInRange ==
  ASSUME IInv, NEW w \in Workers,
         pc[w] \in {"wait", "print", "held", "unlocked", "drop"}
  PROVE  slot[w] \in Slots
  BY DEF IInv, ControlShape, TypeOK

\* Every step of a worker through acquire and release keeps the invariant.
LEMMA StepPreserves == IInv /\ [Next]_vars => IInv'
<1> SUFFICES ASSUME IInv, [Next]_vars
             PROVE  IInv'
  OBVIOUS
<1>0. used' \subseteq Files
  BY DEF IInv, TypeOK, Next, Step, LockManager, vars
<1> USE DEF IInv
<1>1. ASSUME NEW w \in Workers, NEW f \in Files, LockManager(w, f)
      PROVE  IInv'
  <2> USE DEF LockManager
  <2>1. TypeOK'
    BY <1>0, <1>1 DEF TypeOK, PCs
  <2>2. ControlShape' /\ ManagerOwned'
    BY <1>1, FilesAssumption, WorkersAssumption
    DEF ControlShape, ManagerOwned, TypeOK, PCs
  <2>3. RefCountExact'
    BY <1>1 DEF RefCountExact, Refers
  <2>4. PointerValid' /\ SlotMutexOwned'
    BY <1>1 DEF PointerValid, SlotMutexOwned, Inside, Refers, ControlShape, TypeOK
  <2> QED
    BY <2>1, <2>2, <2>3, <2>4
<1>2. ASSUME NEW w \in Workers, NEW s \in Slots, UseExisting(w, s)
      PROVE  IInv'
  <2> USE DEF UseExisting
  <2>0. file[w] \in Files /\ slot[w] = NoSlot
    BY <1>2 DEF ControlShape, TypeOK
  <2>1. StopsAt(file[w], s)
    BY <1>2, <2>0, ProbeInRange
  <2>2. TypeOK'
    BY <1>0, <1>2 DEF TypeOK, PCs
  <2>3. ControlShape' /\ ManagerOwned'
    BY <1>2, WorkersAssumption, CapacityAssumption
    DEF ControlShape, ManagerOwned, TypeOK, PCs, Slots, NoSlot
  <2>4. in_use' = [in_use EXCEPT ![s] = TRUE]
    BY <1>2 DEF TypeOK
  <2>5. RefCountExact'
    BY <1>2, <2>0, <2>4, TakeReference
  <2>6. PointerValid'
    BY <1>2, <2>1 DEF PointerValid, TypeOK, StopsAt
  <2>7. SlotMutexOwned'
    BY <1>2, <2>0 DEF SlotMutexOwned, Inside, Refers, TypeOK, NoSlot, Slots
  <2> QED
    BY <2>2, <2>3, <2>5, <2>6, <2>7
<1>3. ASSUME NEW w \in Workers, NEW s \in Slots, CreateLock(w, s)
      PROVE  IInv'
  <2> USE DEF CreateLock
  <2>0. file[w] \in Files /\ slot[w] = NoSlot
    BY <1>3 DEF ControlShape, TypeOK
  <2>1. \A u \in Workers : slot[u] # s
    BY <1>3 DEF RefCountExact, Refers
  <2>2. TypeOK'
    BY <1>0, <1>3, <2>0 DEF TypeOK, PCs
  <2>3. ControlShape' /\ ManagerOwned'
    BY <1>3, WorkersAssumption, CapacityAssumption
    DEF ControlShape, ManagerOwned, TypeOK, PCs, Slots, NoSlot
  <2>4. ref_count[s] = 0
    <3>1. {u \in Workers : Refers(u, s)} = {}
      BY <2>1 DEF Refers
    <3> QED
      BY <3>1, FS_EmptySet DEF RefCountExact
  <2>5. ref_count' = [ref_count EXCEPT ![s] = @ + 1]
    BY <1>3, <2>4 DEF TypeOK
  <2>6. RefCountExact'
    BY <1>3, <2>0, <2>5, TakeReference
  <2>7. PointerValid'
    BY <1>3, <2>0, <2>1 DEF PointerValid, TypeOK
  <2>8. SlotMutexOwned'
    BY <1>3, <2>0, <2>1 DEF SlotMutexOwned, Inside, Refers, TypeOK, NoSlot, Slots
  <2> QED
    BY <2>2, <2>3, <2>6, <2>7, <2>8
<1>4. ASSUME NEW w \in Workers, TableFull(w) \/ GiveUp(w) \/ RelockManager(w)
      PROVE  IInv'
  <2> USE DEF TableFull, GiveUp, RelockManager, lockvars
  <2>1. TypeOK'
    BY <1>0, <1>4 DEF TypeOK, PCs
  <2>2. ControlShape'
    BY <1>4 DEF ControlShape, TypeOK, PCs
  <2>3. ManagerOwned'
    BY <1>4, WorkersAssumption DEF ManagerOwned, TypeOK, PCs
  <2>4. RefCountExact'
    BY <1>4 DEF RefCountExact, Refers
  <2>5. PointerValid'
    BY <1>4 DEF PointerValid, ControlShape, TypeOK
  <2>6. SlotMutexOwned'
    BY <1>4 DEF SlotMutexOwned, Inside, Refers, TypeOK, PCs
  <2> QED
    BY <2>1, <2>2, <2>3, <2>4, <2>5, <2>6
<1>5. ASSUME NEW w \in Workers, LockFile(w) \/ ReturnLock(w) \/ UnlockFile(w)
      PROVE  IInv'
  <2> USE DEF LockFile, ReturnLock, UnlockFile, lockvars
  <2>0. slot[w] \in Slots
    BY <1>5, PointerInRange
  <2>1. TypeOK'
    BY <1>0, <1>5 DEF TypeOK, PCs
  <2>2. ControlShape' /\ ManagerOwned'
    BY <1>5 DEF ControlShape, ManagerOwned, TypeOK, PCs
  <2>3. RefCountExact'
    BY <1>5 DEF RefCountExact, Refers
  <2>4. PointerValid'
    BY <1>5 DEF PointerValid
  <2>5. in_use[slot[w]]
    BY <2>0 DEF PointerValid, NoSlot, Slots
  <2>6. SlotMutexOwned'
    BY <1>5, <2>0, <2>5, WorkersAssumption
    DEF SlotMutexOwned, Inside, Refers, TypeOK, PCs
  <2> QED
    BY <2>1, <2>2, <2>3, <2>4, <2>6
<1>6. ASSUME NEW w \in Workers, DropReference(w)
      PROVE  IInv'
  <2> DEFINE s == slot[w]
             last == ref_count[s] - 1 <= 0
  <2> USE DEF DropReference
  <2>0. s \in Slots /\ in_use[s]
    BY <1>6, PointerInRange DEF PointerValid, NoSlot, Slots
  <2>1. /\ RefCountExact'
        /\ ref_count' \in [Slots -> Nat]
        /\ last => \A u \in Workers \ {w} : slot[u] # s
    BY <1>6, <2>0, LoseReference
  <2>2. TypeOK'
    BY <1>0, <1>6, <2>1 DEF TypeOK, PCs
  <2>3. ControlShape' /\ ManagerOwned'
    BY <1>6, WorkersAssumption, FilesAssumption
    DEF ControlShape, ManagerOwned, TypeOK, PCs
  <2>4. PointerValid'
    <3> SUFFICES ASSUME NEW u \in Workers, slot'[u] # NoSlot
                 PROVE  in_use'[slot'[u]] /\ filepath'[slot'[u]] = file'[u]
      BY DEF PointerValid
    <3>1. u # w /\ slot'[u] = slot[u] /\ file'[u] = file[u] /\ slot[u] \in Slots
      BY <1>6 DEF TypeOK
    <3>2. in_use[slot[u]] /\ filepath[slot[u]] = file[u]
      BY <3>1 DEF PointerValid
    <3>3. CASE slot[u] = s
      <4>1. ~ last
        BY <3>1, <3>3, <2>1
      <4> QED
        BY <1>6, <2>0, <3>1, <3>2, <3>3, <4>1 DEF TypeOK
    <3>4. CASE slot[u] # s
      BY <1>6, <3>1, <3>2, <3>4 DEF TypeOK
    <3> QED
      BY <3>3, <3>4
  <2>5. SlotMutexOwned'
    <3> SUFFICES ASSUME NEW t \in Slots
                 PROVE  /\ \A u \in Workers :
                             mtx'[t] = u <=> slot'[u] = t /\ pc'[u] \in {"print", "held"}
                        /\ ~ in_use'[t] => mtx'[t] = NoWorker
      BY DEF SlotMutexOwned, Refers, Inside
    <3>1. \A u \in Workers : mtx[t] = u <=> slot[u] = t /\ pc[u] \in {"print", "held"}
      BY DEF SlotMutexOwned, Refers, Inside
    <3>2. \A u \in Workers :
            mtx'[t] = u <=> slot'[u] = t /\ pc'[u] \in {"print", "held"}
      BY <1>6, <3>1 DEF TypeOK, PCs, NoSlot, Slots
    <3>3. ASSUME ~ in_use'[t] PROVE mtx'[t] = NoWorker
      <4>1. \A u \in Workers : slot'[u] # t
        BY <2>1, <3>3 DEF RefCountExact, Refers
      <4> QED
        BY <3>2, <4>1, <2>2 DEF TypeOK
    <3> QED
      BY <3>2, <3>3
  <2> QED
    BY <2>1, <2>2, <2>3, <2>4, <2>5
<1>7. CASE UNCHANGED vars
  BY <1>0, <1>7 DEF vars, TypeOK, ControlShape, ManagerOwned, RefCountExact,
              PointerValid, SlotMutexOwned, Refers, Inside
<1> QED
  BY <1>1, <1>2, <1>3, <1>4, <1>5, <1>6, <1>7 DEF Next, Step

-----------------------------------------------------------------------------
(* Any hash function *)

\* Every reachable state satisfies the inductive invariant.
THEOREM Invariance == Spec => []IInv
  BY InitEstablishes, StepPreserves, PTL DEF Spec

\* The lock table is well typed; in particular no reference count of
\* file_locks.c ever goes below zero.
THEOREM TypeCorrect == Spec => []TypeOK
<1>1. IInv => TypeOK
  BY DEF IInv
<1> QED
  BY <1>1, Invariance, PTL

\* Reference counts are exact: file_lock_release empties a slot when the last
\* worker that acquired it has given it back, and never earlier.
THEOREM ReferencesExact == Spec => []RefCountExact
<1>1. IInv => RefCountExact
  BY DEF IInv
<1> QED
  BY <1>1, Invariance, PTL

\* The FileLock pointer file_lock_acquire returned stays good until
\* file_lock_release has used it, whatever collides.
THEOREM PointersStayGood == Spec => []PointerValid
<1>1. IInv => PointerValid
  BY DEF IInv
<1> QED
  BY <1>1, Invariance, PTL

\* Each slot's mutex belongs to the worker inside it, and a free slot's to
\* nobody.
THEOREM SlotMutexes == Spec => []SlotMutexOwned
<1>1. IInv => SlotMutexOwned
  BY DEF IInv
<1> QED
  BY <1>1, Invariance, PTL

\* While a worker holds a FileLock pointer nobody frees or renames its slot.
THEOREM SlotsNotReused == Spec => SlotNotReused
<1> DEFINE Kept == \A w \in Workers :
                     slot[w] # NoSlot /\ slot'[w] = slot[w]
                       => filepath'[slot[w]] = filepath[slot[w]] /\ in_use'[slot[w]]
<1>1. IInv /\ IInv' /\ [Next]_vars => [Kept]_vars
  <2> SUFFICES ASSUME IInv, IInv', Next,
                      NEW w \in Workers, slot[w] # NoSlot, slot'[w] = slot[w]
               PROVE  filepath'[slot[w]] = filepath[slot[w]] /\ in_use'[slot[w]]
    OBVIOUS
  <2>1. /\ filepath[slot[w]] = file[w]
        /\ in_use'[slot'[w]] /\ filepath'[slot'[w]] = file'[w]
    BY DEF IInv, PointerValid
  <2>2. file'[w] = file[w]
    <3>1. /\ file[w] # NoFile /\ file'[w] # NoFile
          /\ pc[w] \in {"wait", "print", "held", "unlocked", "drop"}
      BY DEF IInv, ControlShape
    <3>2. PICK u \in Workers : (\E f \in Files : LockManager(u, f)) \/ Step(u)
      BY DEF Next
    <3>3. file' = file \/ (pc[u] = "idle" /\ \E f : file' = [file EXCEPT ![u] = f])
                       \/ file' = [file EXCEPT ![u] = NoFile]
      BY <3>2 DEF Step, LockManager, UseExisting, CreateLock, TableFull, LockFile,
                  ReturnLock, GiveUp, UnlockFile, RelockManager, DropReference
    <3> QED
      BY <3>1, <3>3 DEF IInv, TypeOK
  <2> QED
    BY <2>1, <2>2
<1> QED
  BY <1>1, Invariance, PTL DEF Spec, SlotNotReused

\* A non-empty set of numbers has a least element.
LEMMA LeastNumber ==
  ASSUME NEW K, K \subseteq Nat, K # {}
  PROVE  \E n \in K : \A j \in K : n <= j
<1>1. PICK n \in K : \A j \in K : ~ (<<j, n>> \in OpToRel(<, Nat))
  BY NatLessThanWellFounded, WFMin
<1>2. \A j \in K : ~ (j < n)
  BY <1>1 DEF OpToRel
<1> QED
  BY <1>2

\* A worker that is refused has found every slot in use.
LEMMA RefusalSeesAll ==
  ASSUME IInv, NEW w \in Workers, TableFull(w), NEW t \in Slots
  PROVE  in_use[t]
<1> SUFFICES ASSUME ~ in_use[t] PROVE FALSE
  OBVIOUS
<1>1. file[w] \in Files
  BY DEF TableFull, IInv, ControlShape, TypeOK
<1>2. \E k \in 0 .. Capacity - 1 : ProbeIndex(file[w], k) = t
  <2> DEFINE h == Hash[file[w]]
             k == IF h <= t THEN t - h ELSE t + Capacity - h
  <2>1. h \in 0 .. Capacity - 1 /\ t \in 0 .. Capacity - 1 /\ Capacity \in Nat \ {0}
    BY <1>1, HashAssumption, CapacityAssumption DEF Slots
  <2>2. k \in 0 .. Capacity - 1 /\ (h + k = t \/ h + k = t + Capacity)
    BY <2>1
  <2> HIDE DEF h, k
  <2>3. (h + k) % Capacity = t
    <3>1. t % Capacity = t /\ (t + Capacity) % Capacity = t
      BY <2>1
    <3> QED
      BY <2>2, <3>1
  <2> QED
    BY <2>2, <2>3 DEF ProbeIndex, h
<1> DEFINE Stop(k) == StopsAt(file[w], ProbeIndex(file[w], k))
<1>3. PICK k \in 0 .. Capacity - 1 : Stop(k)
  BY <1>2 DEF StopsAt
<1>4. \E n \in 0 .. Capacity - 1 : Stop(n) /\ \A j \in 0 .. n - 1 : ~ Stop(j)
  <2> DEFINE K == {i \in 0 .. Capacity - 1 : Stop(i)}
  <2> HIDE DEF Stop
  <2>1. K \subseteq Nat /\ k \in K
    BY <1>3, CapacityAssumption
  <2>2. PICK n \in K : \A j \in K : n <= j
    BY <2>1, LeastNumber
  <2>3. ASSUME NEW j \in 0 .. n - 1 PROVE ~ Stop(j)
    BY <2>2, CapacityAssumption
  <2> QED
    BY <2>2, <2>3
<1>5. \E s \in Slots : Probe(file[w], s)
  <2>1. PICK n \in 0 .. Capacity - 1 : Stop(n) /\ \A j \in 0 .. n - 1 : ~ Stop(j)
    BY <1>4
  <2>2. Probe(file[w], ProbeIndex(file[w], n))
    BY <2>1 DEF Probe
  <2> QED
    BY <1>1, <2>2, ProbeInRange
<1> QED
  BY <1>5 DEF TableFull

\* ... and every slot in use has a worker of its own: with fewer workers than
\* slots two slots would share one, but a worker has one pointer only.
LEMMA RefusalNeedsReferences ==
  ASSUME IInv, NEW w \in Workers, TableFull(w)
  PROVE  Cardinality({u \in Workers \ {w} : slot[u] # NoSlot}) >= Capacity
<1> DEFINE Users == {u \in Workers \ {w} : slot[u] # NoSlot}
           user == [s \in Slots |-> CHOOSE u \in Users : slot[u] = s]
<1>1. ASSUME NEW s \in Slots
      PROVE  \E u \in Users : slot[u] = s
  <2>1. slot[w] = NoSlot /\ s # NoSlot
    BY CapacityAssumption DEF IInv, ControlShape, NoSlot, Slots, TableFull
  <2>2. in_use[s]
    BY RefusalSeesAll
  <2>3. \E u \in Workers : slot[u] = s
    BY <2>2 DEF IInv, RefCountExact, Refers
  <2> QED
    BY <2>1, <2>3
<1>2. \A s \in Slots : user[s] \in Users /\ slot[user[s]] = s
  BY <1>1
<1>3. user \in [Slots -> Users]
  BY <1>2
<1>4. IsFiniteSet(Users) /\ Cardinality(Users) \in Nat
  <2>1. Users \subseteq Workers
    OBVIOUS
  <2> QED
    BY <2>1, WorkersAssumption, FS_Subset, FS_CardinalityType
<1>5. IsFiniteSet(Slots) /\ Cardinality(Slots) = Capacity
  <2>1. 0 \in Int /\ Capacity - 1 \in Int /\ Capacity \in Nat \ {0}
    BY CapacityAssumption
  <2>2. /\ IsFiniteSet(0 .. Capacity - 1)
        /\ Cardinality(0 .. Capacity - 1)
             = IF 0 > Capacity - 1 THEN 0 ELSE Capacity - 1 - 0 + 1
    BY <2>1, FS_Interval
  <2> QED
    BY <2>1, <2>2 DEF Slots
<1> SUFFICES ASSUME Cardinality(Users) < Cardinality(Slots)
             PROVE  FALSE
  BY <1>4, <1>5, CapacityAssumption
<1> HIDE DEF user
<1>6. \E s, t \in Slots : s # t /\ user[s] = user[t]
  BY <1>3, <1>4, <1>5, FS_PigeonHole
<1> QED
  BY <1>2, <1>6

\* The only step that refuses a worker is TableFull.
LEMMA OnlyTableFullRefuses ==
  ASSUME IInv, [Next]_vars, NEW w \in Workers, pc[w] # "refused", pc'[w] = "refused"
  PROVE  TableFull(w)
<1>1. CASE UNCHANGED vars
  BY <1>1 DEF vars
<1>2. ASSUME NEW u \in Workers, TableFull(u)
      PROVE  TableFull(w)
  <2>1. u = w
    BY <1>2 DEF TableFull, IInv, TypeOK
  <2> QED
    BY <1>2, <2>1
<1> QED
  BY <1>1, <1>2
  DEF IInv, TypeOK, PCs, Next, Step, LockManager, UseExisting, CreateLock, LockFile,
      ReturnLock, GiveUp, UnlockFile, RelockManager, DropReference

\* file_lock_acquire returns NULL only while Capacity other workers own a
\* lock or wait for one, whatever the paths hash to.
THEOREM RefusedOnlyForFullTable == Spec => RefusedOnlyWhenFull
<1> DEFINE Full == \A w \in Workers :
                     pc[w] # "refused" /\ pc'[w] = "refused"
                       => Cardinality({u \in Workers \ {w} : slot[u] # NoSlot}) >= Capacity
<1>1. IInv /\ [Next]_vars => [Full]_vars
  BY OnlyTableFullRefuses, RefusalNeedsReferences
<1> QED
  BY <1>1, Invariance, PTL DEF Spec, RefusedOnlyWhenFull

\* ... so with at least as many slots as workers, as in the server (1024 slots,
\* 4 workers), file_lock_acquire never returns NULL.
THEOREM AcquireNeverRefused ==
  ASSUME Cardinality(Workers) <= Capacity
  PROVE  Spec => [](\A w \in Workers : pc[w] # "refused")
<1> DEFINE Never == \A w \in Workers : pc[w] # "refused"
<1>1. Init => Never
  BY DEF Init
<1>2. IInv /\ Never /\ [Next]_vars => Never'
  <2> SUFFICES ASSUME IInv, Never, [Next]_vars, NEW w \in Workers, pc'[w] = "refused"
               PROVE  FALSE
    OBVIOUS
  <2> DEFINE Users == {u \in Workers \ {w} : slot[u] # NoSlot}
  <2>1. TableFull(w)
    BY OnlyTableFullRefuses
  <2>2. Cardinality(Users) >= Capacity
    BY <2>1, RefusalNeedsReferences
  <2>3. /\ IsFiniteSet(Workers \ {w})
        /\ Cardinality(Workers \ {w}) = Cardinality(Workers) - 1
        /\ Cardinality(Workers) \in Nat
    BY WorkersAssumption, FS_RemoveElement, FS_CardinalityType
  <2>4. Users \subseteq Workers \ {w}
    OBVIOUS
  <2>5. Cardinality(Users) <= Cardinality(Workers \ {w}) /\ Cardinality(Users) \in Nat
    BY <2>3, <2>4, FS_Subset, FS_CardinalityType
  <2> QED
    BY <2>2, <2>3, <2>5, CapacityAssumption
<1> QED
  BY <1>1, <1>2, Invariance, PTL DEF Spec

-----------------------------------------------------------------------------
(* As long as no two of the files asked for collide *)

\* Every file asked for is on record.
Recorded ==
  /\ \A w \in Workers : pc[w] # "idle" => file[w] \in used
  /\ \A s \in Slots : in_use[s] => filepath[s] \in used

\* As long as they are apart, every lock sits in the slot its path hashes to.
HomeSlots ==
  UsedApart => \A s \in Slots : in_use[s] => Hash[filepath[s]] = s

\* The record only grows, so files that are apart now were apart before.
LEMMA UsedGrows ==
  ASSUME [Next]_vars
  PROVE  used \subseteq used' /\ (UsedApart' => UsedApart)
<1>1. used \subseteq used'
  BY DEF Next, Step, LockManager, vars
<1> QED
  BY <1>1 DEF UsedApart

\* What is in the table or asked for stays on record.
LEMMA RecordedPreserved ==
  ASSUME IInv, Recorded, [Next]_vars
  PROVE  Recorded'
<1>0. used \subseteq used'
  BY UsedGrows
<1>1. ASSUME NEW w \in Workers, NEW f \in Files, LockManager(w, f)
      PROVE  Recorded'
  BY <1>1 DEF LockManager, Recorded, IInv, TypeOK
<1>2. ASSUME NEW w \in Workers, NEW s \in Slots, CreateLock(w, s)
      PROVE  Recorded'
  BY <1>0, <1>2 DEF CreateLock, Recorded, IInv, TypeOK
<1>3. ASSUME NEW w \in Workers, DropReference(w)
      PROVE  Recorded'
  <2> DEFINE s == slot[w]
             last == ref_count[s] - 1 <= 0
  <2>1. \A u \in Workers : pc'[u] # "idle" => file'[u] \in used'
    BY <1>0, <1>3 DEF DropReference, Recorded, IInv, TypeOK
  <2>2. s \in Slots
    BY <1>3, PointerInRange DEF DropReference
  <2>3. ASSUME NEW t \in Slots, in_use'[t]
        PROVE  filepath'[t] \in used'
    <3>1. in_use' = [in_use EXCEPT ![s] = @ /\ ~ last]
      BY <1>3 DEF DropReference
    <3>2. filepath' = [filepath EXCEPT ![s] = IF last THEN NoFile ELSE @]
      BY <1>3 DEF DropReference
    <3>3. in_use[t] /\ filepath'[t] = filepath[t]
      BY <2>2, <2>3, <3>1, <3>2 DEF IInv, TypeOK
    <3> QED
      BY <1>0, <3>3 DEF Recorded
  <2> QED
    BY <2>1, <2>3 DEF Recorded
<1>4. ASSUME NEW w \in Workers,
             \/ \E s \in Slots : UseExisting(w, s)
             \/ TableFull(w)
             \/ LockFile(w)
             \/ ReturnLock(w)
             \/ GiveUp(w)
             \/ UnlockFile(w)
             \/ RelockManager(w)
      PROVE  Recorded'
  BY <1>0, <1>4
  DEF Recorded, IInv, TypeOK, lockvars, UseExisting, TableFull, LockFile,
      ReturnLock, GiveUp, UnlockFile, RelockManager
<1>5. CASE UNCHANGED vars
  BY <1>5 DEF vars, Recorded
<1> QED
  BY <1>1, <1>2, <1>3, <1>4, <1>5 DEF Next, Step

\* While the files asked for are apart the probing loop looks at one slot only.
LEMMA ProbeIsHash ==
  ASSUME TypeOK, Recorded, HomeSlots, UsedApart,
         NEW f \in used, NEW s \in Slots, Probe(f, s)
  PROVE  s = Hash[f]
<1>1. Hash[f] \in 0 .. Capacity - 1 /\ Capacity \in Nat \ {0}
  BY HashAssumption, CapacityAssumption DEF Slots, TypeOK
<1>2. ProbeIndex(f, 0) = Hash[f]
  BY <1>1 DEF ProbeIndex
<1>3. StopsAt(f, Hash[f])
  BY <1>1 DEF StopsAt, HomeSlots, Recorded, UsedApart, Slots
<1>4. PICK k \in 0 .. Capacity - 1 :
        s = ProbeIndex(f, k) /\ \A j \in 0 .. k - 1 : ~ StopsAt(f, ProbeIndex(f, j))
  BY DEF Probe
<1>5. k = 0
  BY <1>1, <1>2, <1>3, <1>4
<1> QED
  BY <1>2, <1>4, <1>5

\* ... so every lock in the table sits at the slot its path hashes to.
LEMMA HomeSlotsPreserved ==
  ASSUME IInv, Recorded, HomeSlots, [Next]_vars
  PROVE  HomeSlots'
<1> SUFFICES ASSUME UsedApart'
             PROVE  \A s \in Slots : in_use'[s] => Hash[filepath'[s]] = s
  BY DEF HomeSlots
<1>0. UsedApart /\ \A s \in Slots : in_use[s] => Hash[filepath[s]] = s
  BY UsedGrows DEF HomeSlots
<1> DEFINE Goal == \A s \in Slots : in_use'[s] => Hash[filepath'[s]] = s
<1>1. ASSUME NEW w \in Workers, NEW s \in Slots, CreateLock(w, s)
      PROVE  Goal
  <2>1. file[w] \in used
    BY <1>1 DEF CreateLock, Recorded
  <2>2. s = Hash[file[w]]
    BY <1>0, <1>1, <2>1, ProbeIsHash DEF CreateLock, IInv
  <2> QED
    BY <1>0, <1>1, <2>2 DEF CreateLock, IInv, TypeOK
<1>2. ASSUME NEW w \in Workers, DropReference(w)
      PROVE  Goal
  <2> DEFINE s == slot[w]
             last == ref_count[s] - 1 <= 0
  <2>1. s \in Slots
    BY <1>2, PointerInRange DEF DropReference
  <2>2. ASSUME NEW t \in Slots, in_use'[t]
        PROVE  in_use[t] /\ filepath'[t] = filepath[t]
    <3>1. in_use' = [in_use EXCEPT ![s] = @ /\ ~ last]
      BY <1>2 DEF DropReference
    <3>2. filepath' = [filepath EXCEPT ![s] = IF last THEN NoFile ELSE @]
      BY <1>2 DEF DropReference
    <3> QED
      BY <2>1, <2>2, <3>1, <3>2 DEF IInv, TypeOK
  <2> QED
    BY <1>0, <2>2
<1>3. CASE UNCHANGED <<in_use, filepath>>
  BY <1>0, <1>3
<1> QED
  BY <1>1, <1>2, <1>3
  DEF Next, Step, vars, lockvars, LockManager, UseExisting, TableFull, LockFile,
      ReturnLock, GiveUp, UnlockFile, RelockManager

\* The inductive invariant of this part.
HInv == IInv /\ Recorded /\ HomeSlots

\* It holds in every reachable state.
LEMMA HomeInvariance == Spec => []HInv
<1>1. Init => Recorded /\ HomeSlots
  BY DEF Init, Recorded, HomeSlots
<1>2. HInv /\ [Next]_vars => HInv'
  BY StepPreserves, RecordedPreserved, HomeSlotsPreserved DEF HInv
<1> QED
  BY <1>1, <1>2, InitEstablishes, PTL DEF Spec, HInv

\* Locks that sit where their path hashes to exclude each other: two workers
\* inside one file would be inside one slot's mutex.
LEMMA HomeExcludes == HInv => ExclusionWhileApart
<1> SUFFICES ASSUME HInv, UsedApart
             PROVE  FileExclusion /\ OneLockPerFile
  BY DEF ExclusionWhileApart
<1>1. OneLockPerFile
  BY DEF HInv, HomeSlots, OneLockPerFile
<1>2. ASSUME NEW u \in Workers, NEW w \in Workers,
             Inside(u), Inside(w), file[u] = file[w]
      PROVE  u = w
  <2>1. slot[u] \in Slots /\ slot[w] \in Slots
    BY <1>2, PointerInRange DEF Inside, HInv
  <2>2. slot[u] # NoSlot /\ slot[w] # NoSlot
    BY <2>1, CapacityAssumption DEF Slots, NoSlot
  <2>3. slot[u] = slot[w]
    BY <1>1, <1>2, <2>1, <2>2 DEF HInv, IInv, PointerValid, OneLockPerFile
  <2>4. mtx[slot[u]] = u /\ mtx[slot[w]] = w
    BY <1>2, <2>1 DEF HInv, IInv, SlotMutexOwned, Refers
  <2> QED
    BY <2>3, <2>4
<1> QED
  BY <1>1, <1>2 DEF FileExclusion

\* Until two files that hash alike have been asked for, the lock manager does
\* what file_locks.h promises: two workers are never inside one file's lock,
\* and the table never holds two locks of one path.
THEOREM Exclusion == Spec => []ExclusionWhileApart
  BY HomeInvariance, HomeExcludes, PTL

-----------------------------------------------------------------------------
(* The refinement *)

\* A step after which every worker is inside what it was inside before is a
\* stuttering step of FileMutex.
LEMMA SameHeld ==
  ASSUME \A w \in Workers : Inside(w)' = Inside(w),
         \A w \in Workers : Inside(w) => file'[w] = file[w]
  PROVE  Held' = Held
  BY DEF Held

\* Until two files that hash alike have been asked for, every step of the lock
\* manager is a step of FileMutex or leaves the abstract state alone: only the
\* lock and the unlock of a slot's mutex are visible.
THEOREM Refinement == Spec => ImplementsFileMutex
<1>1. Init => Mutex!Init
  BY DEF Init, Mutex!Init, Inside, Held
<1>2. HInv /\ HInv' /\ [Next]_vars => [UsedApart' => [Mutex!Next]_Held]_vars
  <2> SUFFICES ASSUME HInv, HInv', [Next]_vars, UsedApart'
               PROVE  Mutex!Next \/ Held' = Held
    OBVIOUS
  <2> USE DEF HInv
  <2>0. FileExclusion'
    BY HomeExcludes, PTL DEF ExclusionWhileApart
  <2>1. ASSUME NEW w \in Workers, LockFile(w)
        PROVE  Mutex!Next
    <3>1. file[w] \in Files /\ ~ Inside(w)
      BY <2>1 DEF LockFile, IInv, ControlShape, TypeOK, Inside
    <3>2. /\ Inside(w)'
          /\ \A u \in Workers \ {w} : Inside(u)' = Inside(u)
          /\ file' = file
      BY <2>1 DEF LockFile, Inside, IInv, TypeOK
    <3>3. Held' = Held \cup {<<w, file[w]>>}
      BY <3>1, <3>2 DEF Held
    <3>4. \A g \in Files : <<w, g>> \notin Held
      BY <3>1 DEF Held
    <3>5. \A u \in Workers : <<u, file[w]>> \notin Held
      BY <2>0, <3>1, <3>2 DEF Held, FileExclusion
    <3>6. PICK f \in Files : f = file[w]
      BY <3>1
    <3>7. Mutex!Acquire(w, f)
      BY <3>3, <3>4, <3>5, <3>6 DEF Mutex!Acquire, Held
    <3> QED
      BY <3>7 DEF Mutex!Next
  <2>2. ASSUME NEW w \in Workers, UnlockFile(w)
        PROVE  Mutex!Next
    <3>1. file[w] \in Files /\ Inside(w)
      BY <2>2 DEF UnlockFile, IInv, ControlShape, TypeOK, Inside
    <3>2. /\ ~ Inside(w)'
          /\ \A u \in Workers \ {w} : Inside(u)' = Inside(u)
          /\ file' = file
      BY <2>2 DEF UnlockFile, Inside, IInv, TypeOK
    <3>3. Held' = Held \ {<<w, file[w]>>}
      BY <3>1, <3>2 DEF Held
    <3>4. <<w, file[w]>> \in Held
      BY <3>1 DEF Held
    <3>5. PICK f \in Files : f = file[w]
      BY <3>1
    <3>6. Mutex!Release(w, f)
      BY <3>3, <3>4, <3>5 DEF Mutex!Release, Held
    <3> QED
      BY <3>6 DEF Mutex!Next
  <2>3. ASSUME NEW w \in Workers,
               \/ \E f \in Files : LockManager(w, f)
               \/ \E s \in Slots : UseExisting(w, s)
               \/ \E s \in Slots : CreateLock(w, s)
               \/ TableFull(w)
               \/ ReturnLock(w)
               \/ GiveUp(w)
               \/ RelockManager(w)
               \/ DropReference(w)
        PROVE  Held' = Held
    <3>1. /\ \A u \in Workers : Inside(u)' = Inside(u)
          /\ \A u \in Workers : Inside(u) => file'[u] = file[u]
      BY <2>3 DEF IInv, TypeOK, Inside, LockManager, UseExisting, CreateLock,
                  TableFull, ReturnLock, GiveUp, RelockManager, DropReference
    <3> QED
      BY <3>1, SameHeld
  <2>4. CASE UNCHANGED vars
    BY <2>4 DEF vars, Held, Inside
  <2> QED
    BY <2>1, <2>2, <2>3, <2>4 DEF Next, Step
<1> QED
  BY <1>1, <1>2, HomeInvariance, PTL DEF Spec, ImplementsFileMutex

=============================================================================
