--------------------------- MODULE MCBoundedQueue ---------------------------
(***************************************************************************)
(* Small instances of BoundedQueue for TLC.                                *)
(***************************************************************************)
EXTENDS BoundedQueue, TLC

\* SIGINT meets a thread that does not hold the queue's mutex.
OutsideMutex == PCs \ {"in", "exit"}

\* SIGINT meets a thread anywhere.
Anywhere == PCs \ {"exit"}
=============================================================================
