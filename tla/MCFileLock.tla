----------------------------- MODULE MCFileLock -----------------------------
(***************************************************************************)
(* TLC instance of FileLock: two processes, a timeout of three ticks and a *)
(* refresh every tick, so that a lock can be fresh, aging and stale.       *)
(***************************************************************************)
EXTENDS FileLock, TLC

CONSTANTS p1, p2

MCProc == {p1, p2}
=============================================================================
