---------------------------- MODULE MCLockManager ---------------------------
(***************************************************************************)
(* Model-checking instance of LockManager.  As many entries as goroutines: *)
(* a goroutine keeps at most one entry alive, so an allocation never fails.*)
(***************************************************************************)
EXTENDS LockManager
=============================================================================
