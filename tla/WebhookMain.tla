----------------------------- MODULE WebhookMain -----------------------------
(***************************************************************************)
(* The webhook binary (src/app/functions/webhook/main.go): it either       *)
(* serves admission requests (module Webhook) behind its TLS listener      *)
(* (module TLSReconciler) or, with --backfill, runs the backfill (module   *)
(* Backfill) and exits.  The handshakes and the requests behind them share *)
(* no state, so a behaviour follows one of the three.                      *)
(***************************************************************************)
EXTENDS Webhook, Backfill, TLSReconciler

ServerOff ==
  /\ rows = {}
  /\ request = [q \in Request |->
       [pc |-> "new", http |-> <<>>, tags |-> <<>>, found |-> {}, answer |-> NoAnswer]]
  /\ pusher = [pc |-> "off", running |-> FALSE, cancelled |-> FALSE, final |-> FALSE,
               found |-> {}, batch |-> {}, completed |-> {}, attempt |-> 0]
  /\ keeper = [pc |-> "off", running |-> FALSE, cancelled |-> FALSE, expired |-> {}]
  /\ life = "exited"
  /\ faults = 0
  /\ delivered = {} /\ latest = {} /\ raced = {}

MainInit ==
  \/ Init /\ BackfillStart("off") /\ TLSStart("off") /\ ~withCA
  \/ ServerOff /\ BackfillInit /\ TLSStart("off") /\ ~withCA
  \/ ServerOff /\ BackfillStart("off") /\ TLSInit

MainNext ==
  \/ Next /\ UNCHANGED <<backfillVars, tlsVars>>
  \/ BackfillNext /\ UNCHANGED <<vars, tlsVars>>
  \/ TLSNext /\ UNCHANGED <<vars, backfillVars>>

MainSpec ==
  /\ MainInit /\ [][MainNext]_<<vars, backfillVars, tlsVars>>
  /\ Fairness /\ BackfillFairness

-----------------------------------------------------------------------------
(* The binary ends: a backfill however the services, lists and pushes      *)
(* fail, though a failing node list is repeated without end; a server that *)
(* has stopped, whose two Shutdown calls do not deadlock with the          *)
(* goroutines they wait for.                                               *)
MainEnds == BackfillEnds /\ Exits
=============================================================================
