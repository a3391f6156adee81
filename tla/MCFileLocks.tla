---------------------------- MODULE MCFileLocks ----------------------------
(***************************************************************************)
(* Small instances of FileLocks for TLC.                                   *)
(***************************************************************************)
EXTENDS FileLocks, TLC

\* Every path hashes to slot 0: the worst case for linear probing.
CollidingHash == [f \in Files |-> 0]

\* The first two paths (in TLC's order) hash to slot 0, the others to slot 1:
\* with three paths and two slots the table fills up, two paths collide, and
\* two pairs of paths do not.
OneCollision ==
  CHOOSE h \in [Files -> Slots] :
    /\ Cardinality({f \in Files : h[f] = 0}) = 2
    /\ \A f \in Files : h[f] \in {0, 1}

WorkerSymmetry == Permutations(Workers)
=============================================================================
