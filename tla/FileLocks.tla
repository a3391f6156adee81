------------------------------ MODULE FileLocks ------------------------------
(***************************************************************************)
(* The per-file lock manager (src/sync/file_locks.c) as the worker threads *)
(* use it: an open-addressing table of Capacity lock slots with linear     *)
(* probing, one mutex per slot, a reference count per slot and a manager   *)
(* mutex over the whole table.                                             *)
(*                                                                         *)
(* A worker runs file_lock_acquire, does its file I/O, and runs            *)
(* file_lock_release.  pc says where it is:                                *)
(*   idle      not in the lock manager                                     *)
(*   find      in file_lock_acquire, holding manager_mtx, probing          *)
(*   wait      owns a reference to its slot, blocked on the slot's mutex   *)
(*   print     owns the mutex, about to print lock->ref_count              *)
(*   held      file_lock_acquire has returned the lock                     *)
(*   refused   file_lock_acquire has returned NULL (table full)            *)
(*   unlocked  in file_lock_release, mutex given back, reference not yet   *)
(*   drop      in file_lock_release, holding manager_mtx                   *)
(*                                                                         *)
(* The hash of a path (djb2 modulo the capacity) is an arbitrary function: *)
(* nothing below depends on which one, only on whether it collides.        *)
(***************************************************************************)
EXTENDS Integers, FiniteSets

CONSTANTS Workers,   \* the worker threads
          Files,     \* the "username/filename" keys
          Capacity,  \* number of lock slots (MAX_FILE_LOCKS)
          Hash,      \* hash_filepath, a function from Files to slot indices
          NoWorker,  \* the owner of a free mutex
          NoFile     \* the empty filepath

Slots == 0 .. Capacity - 1
NoSlot == -1

ASSUME WorkersAssumption == IsFiniteSet(Workers) /\ NoWorker \notin Workers
ASSUME FilesAssumption == NoFile \notin Files
ASSUME CapacityAssumption == Capacity \in Nat \ {0}
ASSUME HashAssumption == Hash \in [Files -> Slots]

VARIABLES
  filepath,     \* locks[s].filepath
  ref_count,    \* locks[s].ref_count
  in_use,       \* locks[s].in_use
  mtx,          \* owner of locks[s].mtx
  manager_mtx,  \* owner of manager_mtx
  pc,           \* where each worker is
  file,         \* the path a worker asked for
  slot,         \* the FileLock pointer a worker holds, as a slot index
  used          \* history: every file asked for so far (no guard reads it)

lockvars == <<filepath, ref_count, in_use, mtx, manager_mtx>>
vars == <<filepath, ref_count, in_use, mtx, manager_mtx, pc, file, slot, used>>

PCs == {"idle", "find", "wait", "print", "held", "refused", "unlocked", "drop"}

TypeOK ==
  /\ filepath \in [Slots -> Files \cup {NoFile}]
  /\ ref_count \in [Slots -> Nat]
  /\ in_use \in [Slots -> BOOLEAN]
  /\ mtx \in [Slots -> Workers \cup {NoWorker}]
  /\ manager_mtx \in Workers \cup {NoWorker}
  /\ pc \in [Workers -> PCs]
  /\ file \in [Workers -> Files \cup {NoFile}]
  /\ slot \in [Workers -> Slots \cup {NoSlot}]
  /\ used \subseteq Files

\* file_lock_manager_init
Init ==
  /\ filepath = [s \in Slots |-> NoFile]
  /\ ref_count = [s \in Slots |-> 0]
  /\ in_use = [s \in Slots |-> FALSE]
  /\ mtx = [s \in Slots |-> NoWorker]
  /\ manager_mtx = NoWorker
  /\ pc = [w \in Workers |-> "idle"]
  /\ file = [w \in Workers |-> NoFile]
  /\ slot = [w \in Workers |-> NoSlot]
  /\ used = {}

-----------------------------------------------------------------------------
(* file_lock_acquire *)

\* The slot looked at after k collisions.
ProbeIndex(f, k) == (Hash[f] + k) % Capacity

\* Variant: the comparison of the path is forgotten.
StopsAtAnySlot(f, s) == TRUE

\* Variant: only an empty slot stops the loop, a lock of the path does not.
StopsAtEmpty(f, s) == ~ in_use[s]

\* The probing loop stops at s: s is f's lock, or s is empty.
StopsAt(f, s) == in_use[s] => filepath[s] = f

\* s is the first slot of f's probe sequence at which the loop stops.
Probe(f, s) ==
  \E k \in 0 .. Capacity - 1 :
    /\ s = ProbeIndex(f, k)
    /\ StopsAt(f, s)
    /\ \A j \in 0 .. k - 1 : ~ StopsAt(f, ProbeIndex(f, j))

LockManager(w, f) ==
  /\ pc[w] = "idle"
  /\ manager_mtx = NoWorker
  /\ manager_mtx' = w
  /\ file' = [file EXCEPT ![w] = f]
  /\ pc' = [pc EXCEPT ![w] = "find"]
  /\ used' = used \cup {f}
  /\ UNCHANGED <<filepath, ref_count, in_use, mtx, slot>>

\* Variant: the reference is not counted.
UseExistingUncounted(w, s) ==
  /\ pc[w] = "find"
  /\ Probe(file[w], s)
  /\ in_use[s]
  /\ slot' = [slot EXCEPT ![w] = s]
  /\ manager_mtx' = NoWorker
  /\ pc' = [pc EXCEPT ![w] = "wait"]
  /\ UNCHANGED <<filepath, ref_count, in_use, mtx, file>>

\* The path has a lock: share it.
UseExisting(w, s) ==
  /\ pc[w] = "find"
  /\ Probe(file[w], s)
  /\ in_use[s]
  /\ ref_count' = [ref_count EXCEPT ![s] = @ + 1]
  /\ slot' = [slot EXCEPT ![w] = s]
  /\ manager_mtx' = NoWorker
  /\ pc' = [pc EXCEPT ![w] = "wait"]
  /\ UNCHANGED <<filepath, in_use, mtx, file>>

\* The loop met an empty slot first: make it the path's lock.
CreateLock(w, s) ==
  /\ pc[w] = "find"
  /\ Probe(file[w], s)
  /\ ~ in_use[s]
  /\ filepath' = [filepath EXCEPT ![s] = file[w]]
  /\ ref_count' = [ref_count EXCEPT ![s] = 1]
  /\ in_use' = [in_use EXCEPT ![s] = TRUE]
  /\ slot' = [slot EXCEPT ![w] = s]
  /\ manager_mtx' = NoWorker
  /\ pc' = [pc EXCEPT ![w] = "wait"]
  /\ UNCHANGED <<mtx, file>>

\* Every slot belongs to another path: return NULL.
TableFull(w) ==
  /\ pc[w] = "find"
  /\ \A s \in Slots : ~ Probe(file[w], s)
  /\ manager_mtx' = NoWorker
  /\ pc' = [pc EXCEPT ![w] = "refused"]
  /\ UNCHANGED <<filepath, ref_count, in_use, mtx, file, slot>>

\* Variant: the slot's mutex is not waited for.
LockFileAnyway(w) ==
  /\ pc[w] = "wait"
  /\ mtx' = [mtx EXCEPT ![slot[w]] = w]
  /\ pc' = [pc EXCEPT ![w] = "print"]
  /\ UNCHANGED <<filepath, ref_count, in_use, manager_mtx, file, slot>>

LockFile(w) ==
  /\ pc[w] = "wait"
  /\ mtx[slot[w]] = NoWorker
  /\ mtx' = [mtx EXCEPT ![slot[w]] = w]
  /\ pc' = [pc EXCEPT ![w] = "print"]
  /\ UNCHANGED <<filepath, ref_count, in_use, manager_mtx, file, slot>>

\* printf of lock->ref_count, outside manager_mtx; then the call returns.
ReturnLock(w) ==
  /\ pc[w] = "print"
  /\ pc' = [pc EXCEPT ![w] = "held"]
  /\ UNCHANGED <<lockvars, file, slot>>

\* The caller of a refused acquire answers with an error and moves on.
GiveUp(w) ==
  /\ pc[w] = "refused"
  /\ pc' = [pc EXCEPT ![w] = "idle"]
  /\ file' = [file EXCEPT ![w] = NoFile]
  /\ UNCHANGED <<lockvars, slot>>

-----------------------------------------------------------------------------
(* file_lock_release *)

\* Variant: the mutex stays locked.
UnlockFileNot(w) ==
  /\ pc[w] = "held"
  /\ pc' = [pc EXCEPT ![w] = "unlocked"]
  /\ UNCHANGED <<lockvars, file, slot>>

UnlockFile(w) ==
  /\ pc[w] = "held"
  /\ mtx' = [mtx EXCEPT ![slot[w]] = NoWorker]
  /\ pc' = [pc EXCEPT ![w] = "unlocked"]
  /\ UNCHANGED <<filepath, ref_count, in_use, manager_mtx, file, slot>>

RelockManager(w) ==
  /\ pc[w] = "unlocked"
  /\ manager_mtx = NoWorker
  /\ manager_mtx' = w
  /\ pc' = [pc EXCEPT ![w] = "drop"]
  /\ UNCHANGED <<filepath, ref_count, in_use, mtx, file, slot>>

\* Variant: every release empties the slot.
DropReferenceFreeing(w) ==
  /\ pc[w] = "drop"
  /\ ref_count' = [ref_count EXCEPT ![slot[w]] = @ - 1]
  /\ in_use' = [in_use EXCEPT ![slot[w]] = FALSE]
  /\ filepath' = [filepath EXCEPT ![slot[w]] = NoFile]
  /\ slot' = [slot EXCEPT ![w] = NoSlot]
  /\ file' = [file EXCEPT ![w] = NoFile]
  /\ manager_mtx' = NoWorker
  /\ pc' = [pc EXCEPT ![w] = "idle"]
  /\ UNCHANGED mtx

\* Variant: the slot is emptied one reference too late.
DropReferenceLeaking(w) ==
  LET s == slot[w]
      last == ref_count[s] - 1 < 0
  IN
  /\ pc[w] = "drop"
  /\ ref_count' = [ref_count EXCEPT ![s] = @ - 1]
  /\ in_use' = [in_use EXCEPT ![s] = @ /\ ~ last]
  /\ filepath' = [filepath EXCEPT ![s] = IF last THEN NoFile ELSE @]
  /\ slot' = [slot EXCEPT ![w] = NoSlot]
  /\ file' = [file EXCEPT ![w] = NoFile]
  /\ manager_mtx' = NoWorker
  /\ pc' = [pc EXCEPT ![w] = "idle"]
  /\ UNCHANGED mtx

\* Give the reference back; the last one empties the slot.
DropReference(w) ==
  LET s == slot[w]
      last == ref_count[s] - 1 <= 0
  IN
  /\ pc[w] = "drop"
  /\ ref_count' = [ref_count EXCEPT ![s] = @ - 1]
  /\ in_use' = [in_use EXCEPT ![s] = @ /\ ~ last]
  /\ filepath' = [filepath EXCEPT ![s] = IF last THEN NoFile ELSE @]
  /\ slot' = [slot EXCEPT ![w] = NoSlot]
  /\ file' = [file EXCEPT ![w] = NoFile]
  /\ manager_mtx' = NoWorker
  /\ pc' = [pc EXCEPT ![w] = "idle"]
  /\ UNCHANGED mtx

-----------------------------------------------------------------------------

\* What a worker does once it has called the lock manager.
Step(w) ==
  /\ \/ \E s \in Slots : UseExisting(w, s)
     \/ \E s \in Slots : CreateLock(w, s)
     \/ TableFull(w)
     \/ LockFile(w)
     \/ ReturnLock(w)
     \/ GiveUp(w)
     \/ UnlockFile(w)
     \/ RelockManager(w)
     \/ DropReference(w)
  /\ UNCHANGED used

Next ==
  \E w \in Workers :
    \/ \E f \in Files : LockManager(w, f)
    \/ Step(w)

Spec == Init /\ [][Next]_vars

\* A worker inside the lock manager is a running thread: it keeps taking
\* steps when it can.  Nothing is assumed about who wins a contended mutex.
FairSpec == Spec /\ \A w \in Workers : WF_vars(Step(w))

-----------------------------------------------------------------------------
(* Properties *)

\* w is past pthread_mutex_lock(&lock->mtx) and has not given it back.
Inside(w) == pc[w] \in {"print", "held"}

\* w owns a reference to slot s.
Refers(w, s) == slot[w] = s

\* The reference count of a slot is the number of workers between the
\* increment in file_lock_acquire and the decrement in file_lock_release,
\* and a slot is in use exactly while there is one.
RefCountExact ==
  \A s \in Slots :
    /\ ref_count[s] = Cardinality({w \in Workers : Refers(w, s)})
    /\ in_use[s] <=> \E w \in Workers : Refers(w, s)

\* A worker's FileLock pointer stays good: the slot it points to is in use
\* and still carries the path the worker asked for, so file_lock_release
\* reads the right filepath and unlocks the right mutex.
PointerValid ==
  \A w \in Workers :
    slot[w] # NoSlot => in_use[slot[w]] /\ filepath[slot[w]] = file[w]

\* A slot's mutex is owned by the worker that is inside it, and by nobody
\* else; a slot that is freed or given to another path is never locked.
SlotMutexOwned ==
  \A s \in Slots :
    /\ \A w \in Workers : mtx[s] = w <=> Refers(w, s) /\ Inside(w)
    /\ ~ in_use[s] => mtx[s] = NoWorker

\* No step of anybody renames or frees the slot a worker points to.
SlotNotReused ==
  [][\A w \in Workers :
       slot[w] # NoSlot /\ slot'[w] = slot[w]
         => filepath'[slot[w]] = filepath[slot[w]] /\ in_use'[slot[w]]]_vars

\* file_lock_acquire returns NULL ("Lock table full") only while Capacity
\* other workers own a lock or wait for one: the probing loop does not miss an
\* empty slot, and a slot nobody uses has been emptied, whatever the hash.
RefusedOnlyWhenFull ==
  [][\A w \in Workers :
       pc[w] # "refused" /\ pc'[w] = "refused"
         => Cardinality({u \in Workers \ {w} : slot[u] # NoSlot}) >= Capacity]_vars

\* The purpose of the module (file_locks.h: operations on the same file are
\* serialised): two workers are never inside the lock of one file.  It is not
\* so: the lock of a path may sit past a slot that a colliding path gave back.
FileExclusion ==
  \A u, w \in Workers :
    Inside(u) /\ Inside(w) /\ file[u] = file[w] => u = w

\* Stronger: the table never holds two locks of one path.
OneLockPerFile ==
  \A s, t \in Slots :
    in_use[s] /\ in_use[t] /\ filepath[s] = filepath[t] => s = t

\* No two of the paths asked for so far hash to the same slot.
UsedApart == \A f, g \in used : Hash[f] = Hash[g] => f = g

\* What the module does promise: until the first two paths that collide have
\* been asked for, the operations on one file are serialised.
ExclusionWhileApart == UsedApart => FileExclusion /\ OneLockPerFile

\* A file somebody waits for is always handed on: release wakes a waiter,
\* and no waiter is left behind on a slot nobody will unlock.
FileProgress ==
  \A f \in Files :
    (\E w \in Workers : pc[w] = "wait" /\ file[w] = f)
      ~> (\E w \in Workers : pc[w] = "held" /\ file[w] = f)

\* Seen from the outside, and until two paths that collide have been asked
\* for, the table is one mutex per file.
Held == {<<w, file[w]>> : w \in {u \in Workers : Inside(u)}}
Mutex == INSTANCE FileMutex WITH held <- Held
ImplementsFileMutex ==
  Mutex!Init /\ [][UsedApart' => [Mutex!Next]_Held]_vars
=============================================================================
