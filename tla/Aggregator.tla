------------------------------ MODULE Aggregator ------------------------------
(***************************************************************************)
(* The aggregator pod: the collector container (module Collector) and the  *)
(* shipper container (src/app/functions/shipper/main.go, Run of            *)
(* src/app/domain/shipper/shipper.go) on one volume, and the end of the    *)
(* pod, when both are signalled and the shipper waits for the marker file  *)
(* of the collector.  The cycle of the shipper, its failures and its       *)
(* crashes are module Shipper; here only its end matters.                  *)
(***************************************************************************)
EXTENDS Collector

CONSTANT MaxDeletion  \* bound: the latest time at which the pod is deleted

VARIABLES
  terminating, \* the pod is being deleted
  shipper      \* the three goroutines of the shipper

vars == <<collectorVars, terminating, shipper>>

Init ==
  /\ CollectorInit
  /\ terminating = FALSE
  /\ shipper = [run |-> "cycle", handler |-> "wait", main |-> "serve", ctxDone |-> FALSE,
                pending |-> FALSE, timedOut |-> FALSE]

ShipperUp == shipper.main # "down"

-----------------------------------------------------------------------------
(* The goroutine of Run *)

(* A cycle, at the start or when the ticker fires. *)
RunShipper ==
  /\ ShipperUp /\ shipper.run = "select"
  /\ shipper' = [shipper EXCEPT !.run = "cycle"]
  /\ UNCHANGED <<collectorVars, terminating>>

CycleEnds ==
  /\ ShipperUp /\ shipper.run = "cycle"
  /\ shipper' = [shipper EXCEPT !.run = "select"]
  /\ UNCHANGED <<collectorVars, terminating>>

(* Run takes the signal from its own channel and returns without a flush. *)
RunSignalled ==
  /\ ShipperUp /\ shipper.run = "select" /\ shipper.pending
  /\ shipper' = [shipper EXCEPT !.run = "returned", !.pending = FALSE, !.ctxDone = TRUE]
  /\ UNCHANGED <<collectorVars, terminating>>

(* The other case of the select: the files that are finished are uploaded. *)
FinalFlush ==
  /\ ShipperUp /\ shipper.run = "select" /\ shipper.ctxDone
  /\ shipper' = [shipper EXCEPT !.run = "flush"]
  /\ UNCHANGED <<collectorVars, terminating>>

FinalFlushEnds ==
  /\ ShipperUp /\ shipper.run = "flush"
  /\ shipper' = [shipper EXCEPT !.run = "returned"]
  /\ UNCHANGED <<collectorVars, terminating>>

-----------------------------------------------------------------------------
(* HandleShutdownEvents of the shipper *)

AwaitMarker ==
  /\ ShipperUp /\ shipper.handler = "wait" /\ terminating
  /\ shipper' = [shipper EXCEPT !.handler = "await"]
  /\ UNCHANGED <<collectorVars, terminating>>

Shutdown(timedOut) ==
  shipper' = [shipper EXCEPT !.handler = "exit", !.ctxDone = TRUE, !.timedOut = timedOut]

(* The file is there, whichever incarnation of the collector wrote it. *)
MarkerFound ==
  /\ ShipperUp /\ shipper.handler = "await"
  /\ marker # {}
  /\ Shutdown(FALSE)
  /\ UNCHANGED <<collectorVars, terminating>>

(* ShutdownGracePeriod is over. *)
MarkerMissing ==
  /\ ShipperUp /\ shipper.handler = "await"
  /\ Shutdown(TRUE)
  /\ UNCHANGED <<collectorVars, terminating>>

(* os.Exit by the handler, or by main when its server (external) has       *)
(* stopped at the signal, whatever Run is doing.                           *)
ShipperExits ==
  /\ ShipperUp
  /\ shipper.handler = "exit" \/ terminating
  /\ shipper' = [shipper EXCEPT !.main = "down", !.run = "down", !.handler = "down",
                                !.pending = FALSE, !.ctxDone = FALSE, !.timedOut = FALSE]
  /\ UNCHANGED <<collectorVars, terminating>>

-----------------------------------------------------------------------------
(* The pod *)

(* The pod is deleted: the kubelet signals both containers. *)
Terminate ==
  /\ ~terminating /\ now <= MaxDeletion
  /\ terminating' = TRUE
  /\ process' = [process EXCEPT !.signalled = Serving \/ @]
  /\ shipper' = [shipper EXCEPT !.pending = TRUE]
  /\ kubelet' = Idle
  /\ UNCHANGED <<now, write, buffer, store, firstDone, tracker, marker, faults,
                 lost, firstBad>>

RunStep ==
  \/ RunShipper \/ CycleEnds
  \/ RunSignalled \/ FinalFlush \/ FinalFlushEnds

Next ==
  \/ CollectorNext /\ UNCHANGED <<terminating, shipper>>
  \/ Restart /\ ~terminating /\ UNCHANGED <<terminating, shipper>>
  \/ RunStep
  \/ AwaitMarker \/ MarkerFound \/ MarkerMissing \/ ShipperExits
  \/ Terminate

Spec == Init /\ [][Next]_vars

-----------------------------------------------------------------------------
(* Properties *)

(* The values the state takes. *)
TypeOK ==
  /\ CollectorTypeOK
  /\ terminating \in BOOLEAN
  /\ shipper.run \in {"cycle", "select", "flush", "returned", "down"}
  /\ shipper.handler \in {"wait", "await", "exit", "down"}
  /\ shipper.main \in {"serve", "down"}

(* When the shipper lists the files for its last upload, nothing the       *)
(* collector has acknowledged before its flush is still in memory only:    *)
(* the marker is there and is written after both flushes.  It need not be  *)
(* so when the wait has timed out or the marker is of an earlier           *)
(* incarnation of the collector, which nobody has removed.                 *)
FinalFlushComplete ==
  shipper.run = "flush" /\ ~shipper.timedOut /\ (marker = {} \/ process.incarnation \in marker) =>
    \A s \in Stores : Pairs(s, store[s].mem) \subseteq lost
=============================================================================
