------------------------------ MODULE FileMutex ------------------------------
(***************************************************************************)
(* What the per-file locks promise the workers: each file is a mutex of    *)
(* its own, a worker holds at most one of them at a time, and workers on   *)
(* different files do not disturb each other.  The table of lock slots,    *)
(* the reference counts and the manager mutex of file_locks.c are not      *)
(* visible here; FileLocks is shown to implement this specification.       *)
(***************************************************************************)
CONSTANTS Workers,  \* the worker threads
          Files     \* the "username/filename" keys

VARIABLE held       \* the pairs <<w, f>> such that w is inside f's lock

Init == held = {}

\* file_lock_acquire returns f's lock to w.
Acquire(w, f) ==
  /\ \A g \in Files : <<w, g>> \notin held
  /\ \A u \in Workers : <<u, f>> \notin held
  /\ held' = held \cup {<<w, f>>}

\* file_lock_release gives it back.
Release(w, f) ==
  /\ <<w, f>> \in held
  /\ held' = held \ {<<w, f>>}

Next == \E w \in Workers, f \in Files : Acquire(w, f) \/ Release(w, f)

Spec == Init /\ [][Next]_held
=============================================================================
