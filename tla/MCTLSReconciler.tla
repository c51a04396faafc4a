--------------------------- MODULE MCTLSReconciler ---------------------------
(***************************************************************************)
(* TLC instance of TLSReconciler: two handshakes, the files replaced once. *)
(***************************************************************************)
EXTENDS TLSReconciler

CONSTANTS h1, h2

MCHandshake == {h1, h2}
=============================================================================
