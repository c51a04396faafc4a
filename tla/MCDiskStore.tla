---------------------------- MODULE MCDiskStore ----------------------------
(***************************************************************************)
(* TLC instance of DiskStore: two payloads of different size, so that the  *)
(* limit is met exactly, exceeded, or reached only by a second payload or  *)
(* a repeated delivery.                                                    *)
(***************************************************************************)
EXTENDS DiskStore, TLC

CONSTANTS b1, b2

MCBatch == {b1, b2}
MCSize  == b1 :> 1 @@ b2 :> 2
=============================================================================
