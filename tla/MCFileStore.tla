----------------------------- MODULE MCFileStore -----------------------------
(***************************************************************************)
(* Small instances of FileStore for TLC.                                   *)
(***************************************************************************)
EXTENDS FileStore, TLC

CONSTANTS small, large

SmallAndLarge == small :> 1 @@ large :> 2
=============================================================================
