----------------------------- MODULE MCParallel -----------------------------
(***************************************************************************)
(* TLC instance of Parallel: five tasks on two workers, and room for two   *)
(* errors, so that the buffer can overflow while tasks are still queued.   *)
(***************************************************************************)
EXTENDS Parallel

MCTasks == 5
=============================================================================
