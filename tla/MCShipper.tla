----------------------------- MODULE MCShipper -----------------------------
(***************************************************************************)
(* TLC instance of Shipper: three files and chunks of two, so that one     *)
(* listing spans two chunks and a replay can name a file of the same chunk,*)
(* of a later chunk, or one already uploaded; one file is no cost metric.  *)
(***************************************************************************)
EXTENDS Shipper

MCFile  == 1..3
MCCost  == {1, 2}
MCUsage == {10, 75, 90}
=============================================================================
