-------------------------- MODULE Aggregator_proofs --------------------------
(***************************************************************************)
(* Theorems about the aggregator pod: its types, that nothing acknowledged *)
(* is left in memory when the shipper lists its last files, that a process *)
(* found unhealthy is ended in time, and that a write answered 204 has its *)
(* rows in the stores.                                                     *)
(*                                                                         *)
(* The four rest on one another: EndInv says how far the two goroutines    *)
(* that end the process have come, ClockInv and ProbeInv where the kubelet *)
(* and the latch of /livez are, WriteInv what the handlers' records hold,  *)
(* and AckInv where the rows of each write are.                            *)
(***************************************************************************)
EXTENDS Aggregator, SequenceTheorems, WellFoundedInduction, TLAPS

-----------------------------------------------------------------------------
(* The end of the process: the invariant *)

StoreShapes ==
  /\ store = [s \in Stores |-> store[s]]
  /\ \A s \in Stores : store[s] = [mem |-> store[s].mem, disk |-> store[s].disk]

ProcessShape ==
  process = [pc |-> process.pc, main |-> process.main, signalled |-> process.signalled,
             flushed |-> process.flushed, incarnation |-> process.incarnation]

ProcessTyped ==
  /\ ProcessShape
  /\ process.pc \in Stores \cup {"wait", "marker", "exit", "down"}
  /\ process.main \in Stores \cup {"serve", "exit", "down"}
  /\ process.flushed \subseteq Stores
  /\ process.incarnation \in Nat \ {0}
  /\ marker \subseteq 1..process.incarnation

(* Nothing is at work, and nothing in memory, while the container is down. *)
DownInv ==
  /\ process.pc = "down" <=> process.main = "down"
  /\ ~Serving => /\ process.flushed = {} /\ firstBad = {} /\ buffer = {}
                 /\ \A s \in Stores : store[s].mem = {}
                 /\ \A w \in Write : ~Handling(w)

(* The flushes that each of the two goroutines has behind it. *)
FlushOrder ==
  /\ process.pc = "observability" => "cost" \in process.flushed
  /\ process.pc \in {"marker", "exit"} \/ process.main = "exit" => process.flushed = Stores
  /\ process.main = "cost" => "observability" \in process.flushed

(* What is put into a store after its flush is counted as lost. *)
FlushedIsLost == \A s \in process.flushed : Pairs(s, store[s].mem) \subseteq lost

MarkerAtEnd == process.incarnation \in marker => process.pc \in {"exit", "down"}

EndInv ==
  /\ StoreShapes /\ ProcessTyped /\ DownInv
  /\ FlushOrder /\ FlushedIsLost /\ MarkerAtEnd

ShipperShape ==
  shipper = [run |-> shipper.run, handler |-> shipper.handler, main |-> shipper.main,
             ctxDone |-> shipper.ctxDone, pending |-> shipper.pending,
             timedOut |-> shipper.timedOut]

(* The context of Run ends when the marker is found or the wait is over.   *)
ShipperInv ==
  /\ ShipperShape
  /\ shipper.run = "flush" => shipper.ctxDone
  /\ shipper.run \in {"cycle", "select", "flush"} /\ shipper.ctxDone /\ ~shipper.timedOut
       => marker # {}

-----------------------------------------------------------------------------
(* The steps of a store *)

Accounted(s, row) == row \in store[s].mem \cup store[s].disk \/ <<s, row>> \in lost

(* A row that a store has, or that is counted as lost, stays so. *)
Kept ==
  \A s \in Stores : \A row :
    row \in store[s].mem \cup store[s].disk \/ <<s, row>> \in lost =>
      row \in store'[s].mem \cup store'[s].disk \/ <<s, row>> \in lost'

StoreSet(s, mem, disk) ==
  /\ store' = [t \in Stores |-> store'[t]]
  /\ store'[s] = [mem |-> mem, disk |-> disk]
  /\ \A t \in Stores \ {s} : store'[t] = store[t]

LEMMA MemSet ==
  ASSUME StoreShapes, NEW s \in Stores, NEW mem, store' = [store EXCEPT ![s].mem = mem]
  PROVE  StoreSet(s, mem, store[s].disk)
  BY DEF StoreShapes, StoreSet

LEMMA BothSet ==
  ASSUME StoreShapes, NEW s \in Stores, NEW mem, NEW disk,
         store' = [store EXCEPT ![s] = [mem |-> mem, disk |-> disk]]
  PROVE  StoreSet(s, mem, disk)
  BY DEF StoreShapes, StoreSet

LEMMA SetShapes ==
  ASSUME StoreShapes, NEW s \in Stores, NEW mem, NEW disk, StoreSet(s, mem, disk)
  PROVE  StoreShapes' /\ store'[s].mem = mem /\ store'[s].disk = disk
  BY DEF StoreShapes, StoreSet

(* What the calls of a store do to the pairs. *)
Effect(s, rows) ==
  \/ StoreSet(s, store[s].mem \cup rows, store[s].disk)
     /\ lost' = IF s \in process.flushed THEN lost \cup Pairs(s, rows) ELSE lost \ Pairs(s, rows)
  \/ UNCHANGED <<store, lost>>
  \/ StoreSet(s, {}, store[s].disk) /\ lost' = lost \cup Pairs(s, store[s].mem)
  \/ StoreSet(s, {}, store[s].disk \cup store[s].mem \cup rows) /\ lost' = lost \ Pairs(s, rows)

LEMMA CallEffect ==
  ASSUME StoreShapes, NEW s \in Stores, NEW rows
  PROVE  /\ Put(s, rows) \/ PutFails(s, rows) => Effect(s, rows)
         /\ FlushStore(s) \/ FlushStoreFails(s) => Effect(s, {})
<1>1. Put(s, rows) => Effect(s, rows)
  BY MemSet DEF Put, Effect
<1>2. PutFails(s, rows) => Effect(s, rows)
  BY MemSet, BothSet DEF PutFails, Effect
<1>3. FlushStore(s) => Effect(s, {})
  <2> SUFFICES ASSUME FlushStore(s) PROVE Effect(s, {})
    OBVIOUS
  <2>1. StoreSet(s, {}, store[s].disk \cup store[s].mem)
    BY BothSet DEF FlushStore, StoreShapes
  <2>2. lost' = lost \ Pairs(s, {})
    BY DEF FlushStore, Pairs
  <2> QED
    BY <2>1, <2>2 DEF Effect
<1>4. FlushStoreFails(s) => Effect(s, {})
  BY <1>3, MemSet DEF FlushStoreFails, Effect
<1> QED
  BY <1>1, <1>2, <1>3, <1>4

LEMMA EffectKeeps ==
  ASSUME StoreShapes, FlushedIsLost, NEW s \in Stores, NEW rows, Effect(s, rows),
         process.flushed \subseteq Stores
  PROVE  /\ StoreShapes' /\ Kept
         /\ \A t \in process.flushed : Pairs(t, store'[t].mem) \subseteq lost'
<1>1. CASE StoreSet(s, store[s].mem \cup rows, store[s].disk)
           /\ lost' = IF s \in process.flushed THEN lost \cup Pairs(s, rows)
                      ELSE lost \ Pairs(s, rows)
  BY <1>1, SetShapes DEF FlushedIsLost, Pairs, StoreSet, Kept
<1>2. CASE UNCHANGED <<store, lost>>
  BY <1>2 DEF FlushedIsLost, StoreShapes, Kept
<1>3. CASE StoreSet(s, {}, store[s].disk) /\ lost' = lost \cup Pairs(s, store[s].mem)
  BY <1>3, SetShapes DEF FlushedIsLost, Pairs, StoreSet, Kept
<1>4. CASE StoreSet(s, {}, store[s].disk \cup store[s].mem \cup rows)
           /\ lost' = lost \ Pairs(s, rows)
  BY <1>4, SetShapes DEF FlushedIsLost, Pairs, StoreSet, Kept
<1> QED
  BY <1>1, <1>2, <1>3, <1>4 DEF Effect

-----------------------------------------------------------------------------
(* What the steps of the handlers and of the probes leave alone *)

LEMMA WriteStepFrame ==
  ASSUME NEW w \in Write, WriteStep(w)
  PROVE  /\ Handling(w)
         /\ UNCHANGED <<now, kubelet, process, marker, firstBad>>
         /\ \/ UNCHANGED <<store, lost>>
            \/ \E s \in Stores : \E rows :
                 Put(s, rows) \/ PutFails(s, rows) \/ FlushStore(s) \/ FlushStoreFails(s)
<1>1. CASE TransformNext(w)
  BY <1>1 DEF TransformNext, Handling, Transforming
<1>2. CASE TransformEnds(w)
  BY <1>2 DEF TransformEnds, Handling, Transforming
<1>3. CASE PutCost(w)
  <2>1. "cost" \in Stores
    BY DEF Stores
  <2> QED
    BY <1>3, <2>1 DEF PutCost, Handling
<1>4. CASE FirstFlush(w)
  <2>1. "cost" \in Stores
    BY DEF Stores
  <2> QED
    BY <1>4, <2>1 DEF FirstFlush, Handling
<1>5. CASE PutObservability(w)
  <2>1. "observability" \in Stores
    BY DEF Stores
  <2> QED
    BY <1>5, <2>1 DEF PutObservability, Handling
<1>6. CASE Answer(w)
  BY <1>6 DEF Answer, Handling
<1> QED
  BY <1>1, <1>2, <1>3, <1>4, <1>5, <1>6 DEF WriteStep

LEMMA WriteStepEffect ==
  ASSUME StoreShapes, NEW w \in Write, WriteStep(w)
  PROVE  \/ UNCHANGED <<store, lost>>
         \/ \E s \in Stores : \E rows : Effect(s, rows)
<1>1. CASE UNCHANGED <<store, lost>>
  BY <1>1
<1>2. CASE ~UNCHANGED <<store, lost>>
  <2>1. PICK s \in Stores : \E rows :
          Put(s, rows) \/ PutFails(s, rows) \/ FlushStore(s) \/ FlushStoreFails(s)
    BY <1>2, WriteStepFrame
  <2> QED
    BY <2>1, CallEffect
<1> QED
  BY <1>1, <1>2

(* The steps that change neither the stores nor the process. *)
LEMMA PostFrame ==
  ASSUME NEW w \in Write, NEW p, PostMetrics(w, p) \/ ReadAllFails(w, p)
  PROVE  Serving /\ UNCHANGED <<now, buffer, store, firstDone, tracker, kubelet, process, marker,
                                lost, firstBad>>
  BY DEF PostMetrics, ReadAllFails, Sends

LEMMA ProbeFrame ==
  ASSUME GetHealthz \/ GetLivez \/ Tick
  PROVE  /\ Serving
         /\ UNCHANGED <<write, buffer, store, marker, lost>>
         /\ process' = process \/ process' = [process EXCEPT !.signalled = TRUE]
  BY DEF GetHealthz, GetLivez, Tick, Probed

(* A step that signals the process, or leaves it, and not the rest. *)
LEMMA EndKept ==
  ASSUME EndInv, Serving, UNCHANGED <<store, marker, lost>>,
         process' = process \/ \E b : process' = [process EXCEPT !.signalled = b]
  PROVE  EndInv'
<1>1. /\ process'.pc = process.pc /\ process'.main = process.main
      /\ process'.flushed = process.flushed /\ process'.incarnation = process.incarnation
      /\ ProcessShape'
  BY DEF EndInv, ProcessTyped, ProcessShape
<1>2. StoreShapes' /\ ProcessTyped'
  BY <1>1 DEF EndInv, StoreShapes, ProcessTyped
<1>3. DownInv' /\ Serving'
  BY <1>1 DEF EndInv, DownInv, Serving
<1>4. FlushOrder' /\ FlushedIsLost' /\ MarkerAtEnd'
  BY <1>1 DEF EndInv, FlushOrder, FlushedIsLost, MarkerAtEnd
<1> QED
  BY <1>2, <1>3, <1>4 DEF EndInv

LEMMA WriteStepEnd ==
  ASSUME EndInv, NEW w \in Write, WriteStep(w)
  PROVE  EndInv'
<1>1. Serving /\ UNCHANGED <<process, marker>>
  BY WriteStepFrame DEF EndInv, DownInv
<1>2. CASE UNCHANGED <<store, lost>>
  BY <1>1, <1>2, EndKept
<1>3. CASE \E s \in Stores : \E rows : Effect(s, rows)
  <2>1. StoreShapes' /\ FlushedIsLost'
    BY <1>1, <1>3, EffectKeeps DEF EndInv, ProcessTyped, FlushedIsLost
  <2> QED
    BY <1>1, <2>1 DEF EndInv, ProcessTyped, ProcessShape, DownInv, Serving, FlushOrder, MarkerAtEnd
<1> QED
  BY <1>2, <1>3, WriteStepEffect DEF EndInv

(* The two goroutines flush the stores. *)
LEMMA FlushEnd ==
  ASSUME EndInv, NEW s \in Stores, HandlerFlush(s) \/ DeferredFlush(s)
  PROVE  EndInv'
<1>1. Effect(s, {}) /\ process.flushed \subseteq Stores /\ UNCHANGED marker
  BY CallEffect DEF HandlerFlush, DeferredFlush, FlushAtExit, EndInv, ProcessTyped
<1>2. StoreShapes' /\ \A t \in process.flushed : Pairs(t, store'[t].mem) \subseteq lost'
  BY <1>1, EffectKeeps DEF EndInv
<1>3. store'[s].mem = {}
  BY MemSet, BothSet, SetShapes
  DEF HandlerFlush, DeferredFlush, FlushAtExit, FlushStore, FlushStoreFails, EndInv
<1>4. FlushedIsLost'
  <2>1. process'.flushed = process.flushed \cup {s}
    BY DEF HandlerFlush, DeferredFlush, EndInv, ProcessTyped, ProcessShape
  <2> QED
    BY <1>2, <1>3, <2>1 DEF FlushedIsLost, Pairs
<1>5. /\ ProcessShape' /\ process'.flushed = process.flushed \cup {s}
      /\ process'.incarnation = process.incarnation
      /\ \/ /\ process'.main = process.main
            /\ process.pc = s /\ process'.pc = NextStep(s)
         \/ /\ process'.pc = process.pc /\ Serving
            /\ process.main = s
            /\ process'.main = IF s = "observability" THEN "cost" ELSE "exit"
  BY DEF HandlerFlush, DeferredFlush, EndInv, ProcessTyped, ProcessShape
<1>6. NextStep("cost") = "observability" /\ NextStep("observability") = "marker"
  BY DEF NextStep
<1>7. ProcessTyped' /\ DownInv' /\ FlushOrder' /\ MarkerAtEnd'
  <2>1. process.pc # "down" /\ process.main # "down"
    BY <1>5 DEF EndInv, DownInv, Serving, Stores
  <2> QED
    BY <1>1, <1>5, <1>6, <2>1
    DEF EndInv, ProcessTyped, DownInv, Serving, FlushOrder, MarkerAtEnd, Stores
<1> QED
  BY <1>2, <1>4, <1>7 DEF EndInv

LEMMA MarkerEnd ==
  ASSUME EndInv, HandleSignal \/ WriteMarker \/ ServerReturns
  PROVE  EndInv'
<1>1. UNCHANGED <<store, lost>> /\ marker' \subseteq marker \cup {process.incarnation}
  BY DEF HandleSignal, WriteMarker, ServerReturns
<1>2. /\ ProcessShape' /\ process'.flushed = process.flushed
      /\ process'.incarnation = process.incarnation
      /\ \/ /\ process'.main = process.main /\ process.pc \in {"wait", "marker"}
            /\ process'.pc = NextStep(process.pc)
            /\ process.pc = "wait" => marker' = marker
         \/ /\ process'.pc = process.pc /\ Serving /\ marker' = marker
            /\ process.main = "serve" /\ process'.main = "observability"
  BY DEF HandleSignal, WriteMarker, ServerReturns, EndInv, ProcessTyped, ProcessShape
<1>3. NextStep("wait") = "cost" /\ NextStep("marker") = "exit"
  BY DEF NextStep
<1>4. process.pc # "down" /\ process.main # "down" /\ process'.pc # "down"
      /\ process'.main # "down"
  BY <1>2, <1>3 DEF EndInv, DownInv, Serving
<1>5. StoreShapes' /\ ProcessTyped'
  BY <1>1, <1>2, <1>3 DEF EndInv, StoreShapes, ProcessTyped, Stores
<1>6. DownInv' /\ FlushedIsLost'
  BY <1>1, <1>2, <1>4 DEF EndInv, DownInv, Serving, FlushedIsLost
<1>7. FlushOrder'
  BY <1>2, <1>3 DEF EndInv, FlushOrder, Stores
<1>8. MarkerAtEnd'
  BY <1>1, <1>2, <1>3 DEF EndInv, MarkerAtEnd
<1> QED
  BY <1>5, <1>6, <1>7, <1>8 DEF EndInv

LEMMA GoneEnd ==
  ASSUME EndInv, NEW destroyed, Gone(destroyed)
  PROVE  EndInv' /\ ~Serving'
<1>1. /\ ProcessShape' /\ process'.flushed = {}
      /\ process'.incarnation = process.incarnation
      /\ process'.pc = "down" /\ process'.main = "down"
  BY DEF Gone, EndInv, ProcessTyped, ProcessShape
<1>2. StoreShapes' /\ \A s \in Stores : store'[s].mem = {} /\ store'[s].disk = store[s].disk
  <2>1. store' = [s \in Stores |-> [store[s] EXCEPT !.mem = {}]]
    BY DEF Gone
  <2>2. ASSUME NEW s \in Stores
        PROVE  store'[s] = [mem |-> {}, disk |-> store[s].disk]
    <3>1. store'[s] = [store[s] EXCEPT !.mem = {}]
      BY <2>1
    <3>2. store[s] = [mem |-> store[s].mem, disk |-> store[s].disk]
      BY DEF EndInv, StoreShapes
    <3> QED
      BY <3>1, <3>2
  <2> QED
    BY <2>1, <2>2 DEF StoreShapes
<1>3. \A w \in Write : ~Handling(w)'
  <2> SUFFICES ASSUME NEW w \in Write PROVE ~Handling(w)'
    OBVIOUS
  <2>1. CASE Handling(w)
    <3>1. write'[w] = [write[w] EXCEPT !.pc = "new", !.rest = <<>>, !.out = {}]
      BY <2>1 DEF Gone
    <3> QED
      BY <3>1 DEF Handling
  <2>2. CASE ~Handling(w)
    BY <2>2 DEF Gone, Handling
  <2> QED
    BY <2>1, <2>2
<1>4. UNCHANGED marker /\ firstBad' = {} /\ buffer' = {}
  BY DEF Gone
<1> QED
  BY <1>1, <1>2, <1>3, <1>4
  DEF EndInv, ProcessTyped, DownInv, Serving, FlushOrder, FlushedIsLost, MarkerAtEnd, Stores

(* The next incarnation finds the markers of the earlier ones only. *)
LEMMA RestartEnd ==
  ASSUME EndInv, Restart
  PROVE  EndInv'
<1>1. /\ ProcessShape' /\ process'.flushed = {}
      /\ process'.incarnation = process.incarnation + 1
      /\ process'.pc = "wait" /\ process'.main = "serve"
      /\ UNCHANGED <<store, lost, marker>>
  BY DEF Restart, Started, ProcessShape
<1> QED
  BY <1>1 DEF EndInv, StoreShapes, ProcessTyped, DownInv, Serving, FlushOrder, FlushedIsLost,
              MarkerAtEnd, Stores

-----------------------------------------------------------------------------
(* The invariant of the end holds *)

LEMMA CollectorInitEnd == CollectorInit => EndInv
<1> SUFFICES ASSUME CollectorInit PROVE EndInv
  OBVIOUS
<1>1. StoreShapes /\ \A s \in Stores : store[s].mem = {}
  BY DEF CollectorInit, StoreShapes
<1>2. ProcessShape /\ process.pc = "wait" /\ process.main = "serve" /\ process.flushed = {}
      /\ process.incarnation = 1 /\ marker = {}
  BY DEF CollectorInit, Started, ProcessShape
<1> QED
  BY <1>1, <1>2 DEF EndInv, ProcessTyped, DownInv, Serving, FlushOrder, FlushedIsLost,
                    MarkerAtEnd, Stores

(* The steps of the shipper leave the collector alone. *)
ShipperStep ==
  \/ RunStep
  \/ AwaitMarker \/ MarkerFound \/ MarkerMissing \/ ShipperExits

LEMMA ShipperFrame ==
  ASSUME ShipperStep
  PROVE  UNCHANGED <<collectorVars, terminating>> /\ ShipperUp
  BY DEF ShipperStep, RunStep, RunShipper, CycleEnds, RunSignalled, FinalFlush, FinalFlushEnds,
         AwaitMarker, MarkerFound, MarkerMissing, ShipperExits

LEMMA CollectorStepEnd ==
  ASSUME EndInv, CollectorNext \/ Restart
  PROVE  EndInv'
<1>1. ASSUME NEW w \in Write, NEW p \in Payloads(w), PostMetrics(w, p) \/ ReadAllFails(w, p)
      PROVE  EndInv'
  BY <1>1, PostFrame, EndKept
<1>2. ASSUME NEW w \in Write, WriteStep(w) PROVE EndInv'
  BY <1>2, WriteStepEnd
<1>3. CASE GetHealthz \/ GetLivez \/ Tick
  BY <1>3, ProbeFrame, EndKept
<1>4. CASE ServerReturns \/ HandleSignal \/ WriteMarker
  BY <1>4, MarkerEnd
<1>5. ASSUME NEW s \in Stores, HandlerFlush(s) \/ DeferredFlush(s) PROVE EndInv'
  BY <1>5, FlushEnd
<1>6. CASE Exit \/ ConcurrentMapWrites
  BY <1>6, GoneEnd DEF Exit, ConcurrentMapWrites
<1>7. CASE Restart
  BY <1>7, RestartEnd
<1> QED
  BY <1>1, <1>2, <1>3, <1>4, <1>5, <1>6, <1>7 DEF CollectorNext, ExitStep

(* A deletion signals the collector, if it is up. *)
LEMMA TerminateEnd ==
  ASSUME EndInv, Terminate
  PROVE  EndInv'
<1>1. UNCHANGED <<write, buffer, store, marker, lost, firstBad>>
      /\ \E b : process' = [process EXCEPT !.signalled = b]
  BY DEF Terminate
<1>2. /\ process'.pc = process.pc /\ process'.main = process.main
      /\ process'.flushed = process.flushed /\ process'.incarnation = process.incarnation
      /\ ProcessShape'
  BY <1>1 DEF EndInv, ProcessTyped, ProcessShape
<1> QED
  BY <1>1, <1>2 DEF EndInv, StoreShapes, ProcessTyped, DownInv, Serving, Handling, FlushOrder,
                    FlushedIsLost, MarkerAtEnd

LEMMA NextEnd ==
  ASSUME EndInv, [Next]_vars
  PROVE  EndInv'
<1>1. CASE CollectorNext \/ Restart
  BY <1>1, CollectorStepEnd
<1>2. CASE ShipperStep \/ UNCHANGED vars
  <2>1. UNCHANGED <<write, buffer, store, process, marker, lost, firstBad>>
    BY <1>2, ShipperFrame DEF vars, collectorVars
  <2> QED
    BY <2>1 DEF EndInv, StoreShapes, ProcessTyped, ProcessShape, DownInv, Serving, Handling,
                FlushOrder, FlushedIsLost, MarkerAtEnd
<1>3. CASE Terminate
  BY <1>3, TerminateEnd
<1> QED
  BY <1>1, <1>2, <1>3 DEF Next, ShipperStep

(* The markers stay. *)
LEMMA MarkersStay ==
  ASSUME [Next]_vars, marker # {}
  PROVE  marker' # {}
<1>1. ASSUME NEW w \in Write, NEW p \in Payloads(w), PostMetrics(w, p) \/ ReadAllFails(w, p)
      PROVE  marker' = marker
  BY <1>1, PostFrame
<1>2. ASSUME NEW w \in Write, WriteStep(w) PROVE marker' = marker
  BY <1>2, WriteStepFrame
<1>3. CASE GetHealthz \/ GetLivez \/ Tick
  BY <1>3, ProbeFrame
<1>4. CASE ServerReturns \/ HandleSignal \/ Restart \/ WriteMarker
  BY <1>4 DEF ServerReturns, HandleSignal, Restart, WriteMarker
<1>5. ASSUME NEW s \in Stores, HandlerFlush(s) \/ DeferredFlush(s) PROVE marker' = marker
  BY <1>5 DEF HandlerFlush, DeferredFlush
<1>6. CASE Exit \/ ConcurrentMapWrites
  BY <1>6 DEF Exit, ConcurrentMapWrites, Gone
<1>7. CASE ShipperStep \/ UNCHANGED vars
  BY <1>7, ShipperFrame DEF vars, collectorVars
<1>8. CASE Terminate
  BY <1>8 DEF Terminate
<1> QED
  BY <1>1, <1>2, <1>3, <1>4, <1>5, <1>6, <1>7, <1>8
  DEF Next, CollectorNext, ExitStep, ShipperStep

LEMMA NextShipper ==
  ASSUME ShipperInv, [Next]_vars
  PROVE  ShipperInv'
<1>1. CASE UNCHANGED shipper
  BY <1>1, MarkersStay DEF ShipperInv, ShipperShape
<1>2. CASE Terminate
  <2>1. shipper' = [shipper EXCEPT !.pending = TRUE] /\ marker' = marker
    BY <1>2 DEF Terminate
  <2> QED
    BY <2>1 DEF ShipperInv, ShipperShape
<1>3. CASE ShipperStep
  <2> USE DEF ShipperInv, ShipperShape
  <2>1. marker' = marker
    BY <1>3, ShipperFrame DEF collectorVars
  <2>2. CASE RunShipper
    BY <2>1, <2>2 DEF RunShipper
  <2>3. CASE CycleEnds
    BY <2>1, <2>3 DEF CycleEnds
  <2>4. CASE RunSignalled
    BY <2>1, <2>4 DEF RunSignalled
  <2>5. CASE FinalFlush
    BY <2>1, <2>5 DEF FinalFlush
  <2>6. CASE FinalFlushEnds
    BY <2>1, <2>6 DEF FinalFlushEnds
  <2>7. CASE AwaitMarker
    BY <2>1, <2>7 DEF AwaitMarker
  <2>8. CASE MarkerFound
    BY <2>1, <2>8 DEF MarkerFound, Shutdown
  <2>9. CASE MarkerMissing
    BY <2>1, <2>9 DEF MarkerMissing, Shutdown
  <2>10. CASE ShipperExits
    BY <2>1, <2>10 DEF ShipperExits
  <2> QED
    BY <1>3, <2>2, <2>3, <2>4, <2>5, <2>6, <2>7, <2>8, <2>9, <2>10 DEF ShipperStep, RunStep
<1> QED
  BY <1>1, <1>2, <1>3 DEF Next, ShipperStep, vars

(* When the shipper lists the files for its last upload, the collector has *)
(* nothing of before its flush in memory, whatever the writes, faults and  *)
(* restarts, and whichever of its two goroutines was faster: the marker of *)
(* this incarnation follows both flushes, and what is put after a flush is *)
(* counted as lost.                                                        *)
THEOREM NothingLeftInMemory == Spec => []FinalFlushComplete
<1>1. Init => EndInv /\ ShipperInv
  BY CollectorInitEnd DEF Init, ShipperInv, ShipperShape
<1>2. EndInv /\ ShipperInv /\ [Next]_vars => EndInv' /\ ShipperInv'
  BY NextEnd, NextShipper
<1>3. EndInv /\ ShipperInv => FinalFlushComplete
  BY DEF EndInv, ShipperInv, FinalFlushComplete, MarkerAtEnd, FlushOrder, FlushedIsLost, DownInv,
         Serving, Pairs
<1> QED
  BY <1>1, <1>2, <1>3, PTL DEF Spec

-----------------------------------------------------------------------------
(* The tracker *)

LEMMA Least ==
  ASSUME NEW S, S \subseteq Nat, S # {}
  PROVE  \E x \in S : \A y \in S : x <= y
<1>1. PICK x \in S : \A y \in S : ~(<<y, x>> \in OpToRel(<, Nat))
  BY NatLessThanWellFounded, WFMin
<1>2. \A y \in S : ~(y < x)
  BY <1>1 DEF OpToRel
<1>3. \A y \in S : x <= y
  BY <1>2
<1> QED
  BY <1>3

LEMMA MinOfNaturals ==
  ASSUME NEW S, S \subseteq Nat, S # {}
  PROVE  /\ Min(S) \in S
         /\ \A y \in S : Min(S) <= y
  BY Least DEF Min

LEMMA LargerSeq ==
  ASSUME NEW S, NEW T, S \subseteq T, NEW q \in Seq(S)
  PROVE  q \in Seq(T)
  BY ElementOfSeq, LenProperties

LEMMA RestOfSeq ==
  ASSUME NEW S, NEW q \in Seq(S), NEW m \in 1..Len(q)
  PROVE  SubSeq(q, m, Len(q)) \in Seq(S)
<1>1. m \in Int /\ Len(q) \in Int /\ \A i \in m..Len(q) : q[i] \in S
  BY LenProperties, ElementOfSeq
<1> QED
  BY <1>1, SubSeqProperties

Events(n) == Seq([at : 0..n, failure : BOOLEAN])

TrackerTyped(t, n) ==
  /\ t = [events |-> t.events, last |-> t.last]
  /\ t.last \subseteq 0..n
  /\ t.events \in Events(n)

LEMMA PruneTyped ==
  ASSUME NEW t, NEW n \in Nat, TrackerTyped(t, n)
  PROVE  TrackerTyped(prune(t, n), n) /\ prune(t, n).last = t.last
<1> DEFINE recent == {i \in DOMAIN t.events : t.events[i].at + Window > n}
           kept == IF recent = {} THEN <<>> ELSE SubSeq(t.events, Min(recent), Len(t.events))
<1>1. t.events \in Events(n) /\ t.events \in Seq([at : 0..n, failure : BOOLEAN])
      /\ Len(t.events) \in Nat
  BY DEF TrackerTyped, Events
<1>2. kept \in Events(n)
  <2>1. CASE recent = {}
    BY <2>1 DEF Events
  <2>2. CASE recent # {}
    <3>1. recent \subseteq 1..Len(t.events)
      BY <1>1
    <3>2. Min(recent) \in 1..Len(t.events)
      <4>1. recent \subseteq Nat
        BY <3>1
      <4> HIDE DEF recent
      <4> QED
        BY <2>2, <3>1, <4>1, MinOfNaturals
    <3>3. SubSeq(t.events, Min(recent), Len(t.events)) \in Seq([at : 0..n, failure : BOOLEAN])
      BY <1>1, <3>2, RestOfSeq
    <3> QED
      BY <2>2, <3>3 DEF Events
  <2> QED
    BY <2>1, <2>2
<1>3. prune(t, n) = [t EXCEPT !.events = kept]
  BY DEF prune
<1> HIDE DEF kept
<1>4. prune(t, n) = [events |-> kept, last |-> t.last]
  BY <1>3 DEF TrackerTyped
<1> QED
  BY <1>2, <1>4 DEF TrackerTyped

LEMMA RecordTyped ==
  ASSUME NEW t, NEW n \in Nat, NEW status, TrackerTyped(t, n)
  PROVE  TrackerTyped(Record(t, n, status), n) /\ Record(t, n, status).last = t.last
<1> DEFINE p == prune(t, n)
           event == [at |-> n, failure |-> isFailureStatus(status)]
<1>1. TrackerTyped(p, n) /\ p.last = t.last
  BY PruneTyped
<1>2. isFailureStatus(status) \in BOOLEAN
  BY DEF isFailureStatus
<1>3. event \in [at : 0..n, failure : BOOLEAN]
  BY <1>2
<1>4. Record(t, n, status) = [p EXCEPT !.events = Append(p.events, event)]
  BY DEF Record
<1> HIDE DEF p, event
<1>5. Append(p.events, event) \in Events(n)
  BY <1>1, <1>3 DEF TrackerTyped, Events
<1>6. Record(t, n, status) = [events |-> Append(p.events, event), last |-> p.last]
  BY <1>1, <1>4 DEF TrackerTyped
<1> QED
  BY <1>1, <1>5, <1>6 DEF TrackerTyped

LEMMA EvaluateTyped ==
  ASSUME NEW t, NEW n \in Nat, TrackerTyped(t, n)
  PROVE  /\ TrackerTyped(evaluateLocked(t, n), n)
         /\ evaluateLocked(t, n).last = IF Exceeded(t, n) THEN {n} ELSE t.last
<1>1. TrackerTyped(prune(t, n), n) /\ prune(t, n).last = t.last
  BY PruneTyped
<1>2. CASE Exceeded(t, n)
  <2>1. evaluateLocked(t, n) = [prune(t, n) EXCEPT !.last = {n}]
    BY <1>2 DEF evaluateLocked
  <2>2. evaluateLocked(t, n) = [events |-> prune(t, n).events, last |-> {n}]
    BY <1>1, <2>1 DEF TrackerTyped
  <2> QED
    BY <1>1, <1>2, <2>2 DEF TrackerTyped
<1>3. CASE ~Exceeded(t, n)
  BY <1>1, <1>3 DEF evaluateLocked
<1> QED
  BY <1>2, <1>3

(* Time passes. *)
LEMMA TrackerLater ==
  ASSUME NEW t, NEW n \in Nat, TrackerTyped(t, n)
  PROVE  TrackerTyped(t, n + 1)
<1>1. 0..n \subseteq 0..(n + 1)
  OBVIOUS
<1>2. [at : 0..n, failure : BOOLEAN] \subseteq [at : 0..(n + 1), failure : BOOLEAN]
  BY <1>1
<1>3. t.events \in Seq([at : 0..(n + 1), failure : BOOLEAN])
  BY <1>2, LargerSeq DEF TrackerTyped, Events
<1> QED
  BY <1>1, <1>3 DEF TrackerTyped, Events

-----------------------------------------------------------------------------
(* The clock, the tracker and the probes *)

KubeletTyped ==
  /\ kubelet = [due |-> kubelet.due, failures |-> kubelet.failures]
  /\ kubelet.due \in Nat /\ kubelet.failures \in 0..ProbeFailures

ClockInv ==
  /\ now \in 0..MaxTime /\ now \in Nat
  /\ KubeletTyped
  /\ TrackerTyped(tracker, now)

(* The probe is not late, and the container not yet to be ended. *)
ProbeOnTime ==
  Probed => /\ now <= kubelet.due
            /\ kubelet.failures < ProbeFailures

(* The latch is at least as young as the first unhealthy evaluation. *)
LatchHolds == \A b \in firstBad : b \in Nat /\ \E l \in tracker.last : b <= l

OneLatch == \A k, l \in tracker.last : k = l

(* Each probe since then has failed. *)
FailuresFollow ==
  Probed => \A b \in firstBad : kubelet.due <= b + (kubelet.failures + 1) * ProbePeriod

ProbeInv == ProbeOnTime /\ LatchHolds /\ OneLatch /\ FailuresFollow

(* A probe is never due later than a period from now. *)
DueSoon == Probed => kubelet.due <= now + ProbePeriod

(* Steps of neither a probe nor the clock, and not of a new incarnation. *)
ClockKept ==
  /\ UNCHANGED <<now, kubelet>>
  /\ tracker' = tracker \/ \E status : tracker' = Record(tracker, now, status)
  /\ firstBad' = firstBad
  /\ Probed' => Probed

LEMMA ClockKeptKeeps ==
  ASSUME ClockInv, ClockKept
  PROVE  ClockInv' /\ (ProbeInv /\ DueSoon => ProbeInv' /\ DueSoon')
<1>1. TrackerTyped(tracker', now) /\ tracker'.last = tracker.last
  BY RecordTyped DEF ClockInv, ClockKept
<1> QED
  BY <1>1 DEF ClockInv, ClockKept, KubeletTyped, ProbeInv, ProbeOnTime, LatchHolds, OneLatch,
              FailuresFollow, DueSoon

LEMMA WriteStepClock ==
  ASSUME NEW w \in Write, WriteStep(w)
  PROVE  ClockKept
<1>1. UNCHANGED <<now, kubelet, process, firstBad>>
  BY WriteStepFrame
<1>2. tracker' = tracker \/ \E status : tracker' = Record(tracker, now, status)
  BY DEF WriteStep, TransformNext, TransformEnds, PutCost, FirstFlush, PutObservability, Answer
<1> QED
  BY <1>1, <1>2 DEF ClockKept, Probed, Serving

(* The steps that end the process. *)
LEMMA ExitStepClock ==
  ASSUME EndInv,
         \/ ServerReturns \/ HandleSignal \/ WriteMarker
         \/ \E s \in Stores : HandlerFlush(s) \/ DeferredFlush(s)
  PROVE  ClockKept
<1>1. UNCHANGED <<now, kubelet, tracker, firstBad>>
  BY DEF ServerReturns, HandleSignal, WriteMarker, HandlerFlush, DeferredFlush
<1>2. process'.signalled = process.signalled
  BY DEF ServerReturns, HandleSignal, WriteMarker, HandlerFlush, DeferredFlush, EndInv,
         ProcessTyped, ProcessShape
<1>3. Serving
  BY DEF ServerReturns, HandleSignal, WriteMarker, HandlerFlush, DeferredFlush, Serving, Stores
<1> QED
  BY <1>1, <1>2, <1>3 DEF ClockKept, Probed

LEMMA GoneClock ==
  ASSUME ClockInv, EndInv, NEW destroyed, Gone(destroyed)
  PROVE  ClockInv' /\ ProbeInv' /\ DueSoon'
<1>1. ~Serving' /\ firstBad' = {} /\ tracker' = [events |-> <<>>, last |-> {}]
      /\ UNCHANGED <<now, kubelet>>
  BY GoneEnd DEF Gone, NewErrorRateTracker
<1>2. TrackerTyped(tracker', now)
  BY <1>1 DEF TrackerTyped, Events
<1> QED
  BY <1>1, <1>2 DEF ClockInv, KubeletTyped, ProbeInv, ProbeOnTime, LatchHolds, OneLatch,
              FailuresFollow, DueSoon, Probed

LEMMA RestartClock ==
  ASSUME ClockInv, ProbeInv, EndInv, Restart
  PROVE  ClockInv' /\ ProbeInv' /\ DueSoon'
<1>1. /\ kubelet' = [due |-> now + ProbePeriod, failures |-> 0]
      /\ UNCHANGED <<now, tracker, firstBad>> /\ firstBad = {}
  BY DEF Restart, EndInv, DownInv
<1> QED
  BY <1>1, CollectorAssumption
  DEF ClockInv, KubeletTyped, ProbeInv, ProbeOnTime, LatchHolds, OneLatch, FailuresFollow, DueSoon

LEMMA TickClock ==
  ASSUME ClockInv, Tick
  PROVE  ClockInv' /\ (ProbeInv /\ DueSoon => ProbeInv' /\ DueSoon')
<1>1. /\ now < MaxTime /\ now' = now + 1 /\ Probed /\ now < kubelet.due
      /\ UNCHANGED <<tracker, kubelet, process, firstBad>>
  BY DEF Tick
<1>2. TrackerTyped(tracker', now')
  BY <1>1, TrackerLater DEF ClockInv
<1>3. ClockInv'
  BY <1>1, <1>2, CollectorAssumption DEF ClockInv, KubeletTyped
<1>4. ASSUME ProbeInv, DueSoon PROVE ProbeInv' /\ DueSoon'
  BY <1>1, <1>4, CollectorAssumption
  DEF ClockInv, KubeletTyped, ProbeInv, ProbeOnTime, LatchHolds, OneLatch, FailuresFollow, DueSoon,
      Probed, Serving
<1> QED
  BY <1>3, <1>4

(* An evaluation keeps the latch young. *)
LEMMA EvaluateClock ==
  ASSUME ClockInv, Evaluate, now' = now
  PROVE  /\ TrackerTyped(tracker', now')
         /\ LatchHolds /\ OneLatch => LatchHolds' /\ OneLatch'
         /\ \A b \in firstBad' : b \in firstBad \/ (b = now /\ ~Healthy(tracker, now))
<1>1. TrackerTyped(tracker', now')
      /\ tracker'.last = IF Exceeded(tracker, now) THEN {now} ELSE tracker.last
  BY EvaluateTyped DEF ClockInv, Evaluate
<1>2. ASSUME LatchHolds, OneLatch PROVE LatchHolds' /\ OneLatch'
  <2>1. OneLatch'
    BY <1>1, <1>2 DEF OneLatch
  <2>2. ASSUME NEW b \in firstBad' PROVE b \in Nat /\ \E l \in tracker'.last : b <= l
    <3>1. CASE Exceeded(tracker, now)
      <4>1. tracker'.last = {now}
        BY <1>1, <3>1
      <4>2. b \in Nat /\ b <= now
        <5>1. CASE b \in firstBad
          BY <1>2, <5>1 DEF LatchHolds, ClockInv, TrackerTyped
        <5>2. CASE b \notin firstBad
          BY <5>2 DEF Evaluate, ClockInv
        <5> QED
          BY <5>1, <5>2
      <4> QED
        BY <4>1, <4>2
    <3>2. CASE ~Exceeded(tracker, now)
      BY <1>1, <1>2, <2>2, <3>2 DEF LatchHolds, Evaluate, Healthy
    <3> QED
      BY <3>1, <3>2
  <2> QED
    BY <2>1, <2>2 DEF LatchHolds
<1>3. \A b \in firstBad' : b \in firstBad \/ (b = now /\ ~Healthy(tracker, now))
  BY DEF Evaluate
<1> QED
  BY <1>1, <1>2, <1>3

LEMMA Periods ==
  ASSUME NEW k \in Nat, NEW p \in Nat
  PROVE  /\ k * p \in Nat
         /\ (k + 1) * p = k * p + p
         /\ \A m \in Nat : k <= m => k * p <= m * p
<1>1. (k + 1) * p = k * p + p /\ k * p \in Nat
  OBVIOUS
<1>2. ASSUME NEW m \in Nat, k <= m PROVE k * p <= m * p
  <2>1. PICK d \in Nat : m = k + d
    BY <1>2
  <2>2. m * p = k * p + d * p /\ d * p \in Nat
    BY <2>1
  <2> QED
    BY <1>1, <2>2
<1> QED
  BY <1>1, <1>2

(* The failures in a row fit into the time for which the latch holds. *)
CooldownCovers == ProbePeriod * ProbeFailures <= Cooldown

LEMMA HealthzClock ==
  ASSUME ClockInv, GetHealthz
  PROVE  ClockInv' /\ (ProbeInv /\ DueSoon => ProbeInv' /\ DueSoon')
<1>1. Probed /\ Evaluate /\ UNCHANGED <<now, kubelet, process>>
  BY DEF GetHealthz
<1>2. ClockInv'
  BY <1>1, EvaluateClock DEF ClockInv, KubeletTyped
<1>3. ASSUME ProbeInv, DueSoon PROVE ProbeInv' /\ DueSoon'
  <2>1. ProbeOnTime' /\ DueSoon' /\ LatchHolds' /\ OneLatch'
    BY <1>1, <1>3, EvaluateClock DEF ProbeInv, ProbeOnTime, DueSoon, Probed, Serving
  <2>2. ASSUME NEW b \in firstBad'
        PROVE  kubelet.due <= b + (kubelet.failures + 1) * ProbePeriod
    <3>1. CASE b \in firstBad
      BY <1>1, <1>3, <3>1 DEF ProbeInv, FailuresFollow
    <3>2. CASE b = now
      <4>1. kubelet.failures \in Nat /\ ProbePeriod \in Nat /\ now \in Nat /\ kubelet.due \in Nat
        BY CollectorAssumption DEF ClockInv, KubeletTyped
      <4>2. /\ kubelet.failures * ProbePeriod \in Nat
            /\ (kubelet.failures + 1) * ProbePeriod = kubelet.failures * ProbePeriod + ProbePeriod
        BY <4>1, Periods
      <4>3. kubelet.due <= now + ProbePeriod
        BY <1>1, <1>3 DEF DueSoon
      <4> QED
        BY <3>2, <4>1, <4>2, <4>3
    <3> QED
      BY <1>1, <3>1, <3>2, EvaluateClock
  <2>3. FailuresFollow'
    BY <1>1, <2>2 DEF FailuresFollow
  <2> QED
    BY <2>1, <2>3 DEF ProbeInv
<1> QED
  BY <1>2, <1>3

LEMMA LivezClock ==
  ASSUME EndInv, ClockInv, GetLivez
  PROVE  ClockInv' /\ (CooldownCovers /\ ProbeInv /\ DueSoon => ProbeInv' /\ DueSoon')
<1> DEFINE failures == IF HealthyWithinCooldown(tracker, now) THEN 0 ELSE kubelet.failures + 1
<1>1. Probed /\ Evaluate /\ now' = now /\ kubelet.due = now
  BY DEF GetLivez
<1>2. \/ /\ failures < ProbeFailures
         /\ kubelet' = [due |-> now + ProbePeriod, failures |-> failures] /\ UNCHANGED process
      \/ /\ ~(failures < ProbeFailures)
         /\ kubelet' = [due |-> 0, failures |-> 0]
         /\ process' = [process EXCEPT !.signalled = TRUE]
  BY DEF GetLivez, Idle
<1>3. /\ now \in Nat /\ ProbePeriod \in Nat \ {0} /\ ProbeFailures \in Nat \ {0}
      /\ kubelet.failures \in Nat /\ failures \in Nat
  BY CollectorAssumption DEF ClockInv, KubeletTyped
<1> HIDE DEF failures
<1>4. TrackerTyped(tracker', now') /\ (LatchHolds /\ OneLatch => LatchHolds' /\ OneLatch')
      /\ \A b \in firstBad' : b \in firstBad \/ (b = now /\ ~Healthy(tracker, now))
  BY <1>1, EvaluateClock
<1>5. ClockInv'
  <2>1. KubeletTyped'
    BY <1>2, <1>3 DEF KubeletTyped
  <2> QED
    BY <1>1, <1>4, <2>1 DEF ClockInv
<1>6. ASSUME CooldownCovers, ProbeInv, DueSoon PROVE ProbeInv' /\ DueSoon'
  <2>1. LatchHolds' /\ OneLatch'
    BY <1>4, <1>6 DEF ProbeInv
  <2>2. CASE ~(failures < ProbeFailures)
    <3>1. ~Probed'
      <4>1. process' = [process EXCEPT !.signalled = TRUE]
        BY <1>2, <2>2
      <4>2. "signalled" \in DOMAIN process
        BY DEF EndInv, ProcessTyped, ProcessShape
      <4> QED
        BY <4>1, <4>2 DEF Probed
    <3> QED
      BY <2>1, <3>1 DEF ProbeInv, ProbeOnTime, FailuresFollow, DueSoon
  <2>3. CASE failures < ProbeFailures
    <3>1. kubelet'.due = now + ProbePeriod /\ kubelet'.failures = failures
      BY <1>2, <2>3
    <3>2. ASSUME NEW b \in firstBad'
          PROVE  now + ProbePeriod <= b + (failures + 1) * ProbePeriod
      <4>1. /\ failures * ProbePeriod \in Nat
            /\ (failures + 1) * ProbePeriod = failures * ProbePeriod + ProbePeriod
        BY <1>3, Periods
      <4>2. CASE b \in firstBad
        <5>1. b \in Nat /\ now <= b + (kubelet.failures + 1) * ProbePeriod
          BY <1>1, <1>6, <4>2 DEF ProbeInv, FailuresFollow, LatchHolds
        <5>2. ~HealthyWithinCooldown(tracker, now)
          <6>1. PICK l \in tracker.last : b <= l
            BY <1>6, <4>2 DEF ProbeInv, LatchHolds
          <6>2. l \in Nat
            BY <6>1 DEF ClockInv, TrackerTyped
          <6>3. kubelet.failures + 1 <= ProbeFailures
            BY <1>1, <1>3, <1>6 DEF ProbeInv, ProbeOnTime
          <6>4. (kubelet.failures + 1) * ProbePeriod <= ProbeFailures * ProbePeriod
            BY <1>3, <6>3, Periods
          <6>5. ProbeFailures * ProbePeriod = ProbePeriod * ProbeFailures
            BY <1>3
          <6>6. Cooldown \in Nat /\ (kubelet.failures + 1) * ProbePeriod \in Nat
                /\ ProbeFailures * ProbePeriod \in Nat
            BY <1>3, Periods, ErrorRateAssumption
          <6>7. now <= b + Cooldown
            BY <1>3, <1>6, <5>1, <6>4, <6>5, <6>6 DEF CooldownCovers
          <6>8. ~(now - l > Cooldown)
            BY <1>3, <5>1, <6>1, <6>2, <6>6, <6>7
          <6> QED
            BY <6>1, <6>8 DEF HealthyWithinCooldown
        <5>3. failures = kubelet.failures + 1
          BY <5>2 DEF failures
        <5> QED
          BY <1>3, <4>1, <5>1, <5>3
      <4>3. CASE b = now
        BY <1>3, <4>1, <4>3
      <4> QED
        BY <1>4, <4>2, <4>3
    <3>3. FailuresFollow'
      BY <3>1, <3>2 DEF FailuresFollow
    <3>4. ProbeOnTime' /\ DueSoon'
      BY <1>1, <1>3, <2>3, <3>1 DEF ProbeOnTime, DueSoon
    <3> QED
      BY <2>1, <3>3, <3>4 DEF ProbeInv
  <2> QED
    BY <2>2, <2>3
<1> QED
  BY <1>5, <1>6

LEMMA TerminateClock ==
  ASSUME ClockInv, EndInv, Terminate
  PROVE  ClockInv' /\ (ProbeInv /\ DueSoon => ProbeInv' /\ DueSoon')
<1>1. /\ kubelet' = [due |-> 0, failures |-> 0]
      /\ UNCHANGED <<now, tracker, firstBad>>
  BY DEF Terminate, Idle
<1>2. process'.pc = process.pc /\ (process'.signalled <=> (Serving \/ process.signalled))
  BY DEF Terminate, EndInv, ProcessTyped, ProcessShape
<1>3. ~Probed'
  BY <1>2 DEF Probed, Serving
<1>4. ClockInv'
  BY <1>1, CollectorAssumption DEF ClockInv, KubeletTyped
<1> QED
  BY <1>1, <1>3, <1>4 DEF ProbeInv, ProbeOnTime, LatchHolds, OneLatch, FailuresFollow, DueSoon

LEMMA InitClock == Init => ClockInv /\ ProbeInv /\ DueSoon
<1> SUFFICES ASSUME Init PROVE ClockInv /\ ProbeInv /\ DueSoon
  OBVIOUS
<1>1. /\ now = 0 /\ firstBad = {}
      /\ kubelet = [due |-> ProbePeriod, failures |-> 0]
      /\ tracker = [events |-> <<>>, last |-> {}]
  BY DEF Init, CollectorInit, NewErrorRateTracker
<1>2. TrackerTyped(tracker, now)
  BY <1>1 DEF TrackerTyped, Events
<1> QED
  BY <1>1, <1>2, CollectorAssumption
  DEF ClockInv, KubeletTyped, ProbeInv, ProbeOnTime, LatchHolds, OneLatch, FailuresFollow, DueSoon

LEMMA NextClock ==
  ASSUME EndInv, ClockInv, [Next]_vars
  PROVE  ClockInv' /\ (CooldownCovers /\ ProbeInv /\ DueSoon => ProbeInv' /\ DueSoon')
<1> DEFINE Goal == ClockInv' /\ (CooldownCovers /\ ProbeInv /\ DueSoon => ProbeInv' /\ DueSoon')
<1>1. ASSUME NEW w \in Write, NEW p \in Payloads(w), PostMetrics(w, p) \/ ReadAllFails(w, p)
      PROVE  ClockKept
  BY <1>1, PostFrame DEF ClockKept, Probed, Serving
<1>2. ASSUME NEW w \in Write, WriteStep(w) PROVE ClockKept
  BY <1>2, WriteStepClock
<1>3. CASE GetHealthz
  BY <1>3, HealthzClock
<1>4. CASE GetLivez
  BY <1>4, LivezClock
<1>5. CASE Tick
  BY <1>5, TickClock
<1>6. ASSUME \/ ServerReturns \/ HandleSignal \/ WriteMarker
             \/ \E s \in Stores : HandlerFlush(s) \/ DeferredFlush(s)
      PROVE  ClockKept
  BY <1>6, ExitStepClock
<1>7. CASE Exit \/ ConcurrentMapWrites
  BY <1>7, GoneClock DEF Exit, ConcurrentMapWrites
<1>8. ASSUME Restart PROVE Goal
  <2>1. /\ kubelet' = [due |-> now + ProbePeriod, failures |-> 0]
        /\ UNCHANGED <<now, tracker, firstBad>>
    BY <1>8 DEF Restart
  <2>2. ClockInv'
    BY <2>1, CollectorAssumption DEF ClockInv, KubeletTyped
  <2> QED
    BY <1>8, <2>2, RestartClock
<1>9. ASSUME ShipperStep \/ UNCHANGED vars PROVE ClockKept
  BY <1>9, ShipperFrame DEF ClockKept, vars, collectorVars, Probed, Serving
<1>10. CASE Terminate
  BY <1>10, TerminateClock
<1>11. CASE ClockKept
  BY <1>11, ClockKeptKeeps
<1> QED
  BY <1>1, <1>2, <1>3, <1>4, <1>5, <1>6, <1>7, <1>8, <1>9, <1>10, <1>11
  DEF Next, CollectorNext, ExitStep, ShipperStep

(* Once a probe has found the error rate too high, each liveness probe     *)
(* fails until the kubelet ends the container, whatever is answered        *)
(* meanwhile and though the window may empty: the cooldown covers all the  *)
(* failures in a row.  With the chart's probe (15 seconds, 3 failures) and *)
(* the cooldown of main.go (5 minutes) it does.                            *)
THEOREM UnhealthyIsRestarted ==
  ASSUME CooldownCovers
  PROVE  Spec => []RestartFollows
<1> DEFINE I == EndInv /\ ClockInv /\ ProbeInv /\ DueSoon
<1>1. Init => I
  BY CollectorInitEnd, InitClock DEF Init
<1>2. I /\ [Next]_vars => I'
  BY NextEnd, NextClock
<1>3. I => RestartFollows
  <2> SUFFICES ASSUME I, Probed, NEW b \in firstBad
               PROVE  now <= b + ProbePeriod * ProbeFailures
    BY DEF RestartFollows
  <2>1. /\ now \in Nat /\ kubelet.due \in Nat /\ kubelet.failures \in Nat /\ b \in Nat
        /\ ProbePeriod \in Nat /\ ProbeFailures \in Nat
    BY CollectorAssumption DEF ClockInv, KubeletTyped, ProbeInv, LatchHolds
  <2>2. kubelet.failures + 1 <= ProbeFailures /\ now <= kubelet.due
    BY <2>1 DEF ProbeInv, ProbeOnTime
  <2>3. kubelet.due <= b + (kubelet.failures + 1) * ProbePeriod
    BY DEF ProbeInv, FailuresFollow
  <2>4. (kubelet.failures + 1) * ProbePeriod <= ProbeFailures * ProbePeriod
        /\ (kubelet.failures + 1) * ProbePeriod \in Nat /\ ProbeFailures * ProbePeriod \in Nat
    BY <2>1, <2>2, Periods
  <2>5. ProbeFailures * ProbePeriod = ProbePeriod * ProbeFailures
    BY <2>1
  <2> QED
    BY <2>1, <2>2, <2>3, <2>4, <2>5
<1> QED
  BY <1>1, <1>2, <1>3, PTL DEF Spec

-----------------------------------------------------------------------------
(* The steps of the writes, field by field *)

WriteShape(r) ==
  r = [pc |-> r.pc, sent |-> r.sent, rest |-> r.rest, out |-> r.out, status |-> r.status,
       tries |-> r.tries, mixed |-> r.mixed]

WriteShapes == write = [w \in Write |-> write[w]] /\ \A w \in Write : WriteShape(write[w])

(* One write moves, and its fields become these. *)
Becomes(w, pc, sent, rest, out, status, tries) ==
  /\ write' = [v \in Write |-> write'[v]]
  /\ WriteShape(write'[w])
  /\ write'[w].pc = pc /\ write'[w].sent = sent /\ write'[w].rest = rest
  /\ write'[w].out = out /\ write'[w].status = status /\ write'[w].tries = tries
  /\ write'[w].mixed = write[w].mixed
  /\ \A v \in Write \ {w} : write'[v] = write[v]

LEMMA BecomesShapes ==
  ASSUME WriteShapes, NEW w \in Write, NEW pc, NEW sent, NEW rest, NEW out, NEW status, NEW tries,
         Becomes(w, pc, sent, rest, out, status, tries)
  PROVE  WriteShapes'
  BY DEF WriteShapes, Becomes

LEMMA GotoBecomes ==
  ASSUME WriteShapes, NEW w \in Write, NEW pc, NEW status, Goto(w, pc, status)
  PROVE  Becomes(w, pc, write[w].sent, write[w].rest, write[w].out, status, write[w].tries)
<1>1. write' = [v \in Write |-> write'[v]] /\ \A v \in Write \ {w} : write'[v] = write[v]
  BY DEF WriteShapes, Goto
<1>2. write'[w] = [[write[w] EXCEPT !.pc = pc] EXCEPT !.status = status]
  BY DEF WriteShapes, Goto
<1>3. WriteShape(write[w])
  BY DEF WriteShapes
<1>4. WriteShape(write'[w])
  BY <1>2, <1>3 DEF WriteShape
<1>5. /\ write'[w].pc = pc
      /\ write'[w].sent = write[w].sent /\ write'[w].rest = write[w].rest
      /\ write'[w].out = write[w].out
      /\ write'[w].status = status /\ write'[w].tries = write[w].tries
      /\ write'[w].mixed = write[w].mixed
  BY <1>2, <1>3 DEF WriteShape
<1> QED
  BY <1>1, <1>4, <1>5 DEF Becomes

LEMMA TransformNextBecomes ==
  ASSUME WriteShapes, NEW w \in Write, TransformNext(w)
  PROVE  Becomes(w, "transform", write[w].sent, Tail(write[w].rest),
                 write[w].out \cup ToSet(transformSingle(Head(write[w].rest))),
                 write[w].status, write[w].tries)
<1>0. write[w].pc = "transform"
  BY DEF TransformNext, Transforming
<1>1. write' = [v \in Write |-> write'[v]] /\ \A v \in Write \ {w} : write'[v] = write[v]
  BY DEF WriteShapes, TransformNext
<1>2. write'[w] = [[write[w] EXCEPT !.rest = Tail(@)]
                 EXCEPT !.out = @ \cup ToSet(transformSingle(Head(write[w].rest)))]
  BY DEF WriteShapes, TransformNext
<1>3. WriteShape(write[w])
  BY DEF WriteShapes
<1>4. WriteShape(write'[w])
  BY <1>2, <1>3 DEF WriteShape
<1>5. /\ write'[w].pc = "transform"
      /\ write'[w].sent = write[w].sent /\ write'[w].rest = Tail(write[w].rest)
      /\ write'[w].out = write[w].out \cup ToSet(transformSingle(Head(write[w].rest)))
      /\ write'[w].status = write[w].status /\ write'[w].tries = write[w].tries
      /\ write'[w].mixed = write[w].mixed
  BY <1>2, <1>3, <1>0 DEF WriteShape
<1> QED
  BY <1>1, <1>4, <1>5 DEF Becomes

LEMMA TransformEndsBecomes ==
  ASSUME WriteShapes, NEW w \in Write, TransformEnds(w)
  PROVE  Becomes(w, "cost", write[w].sent, write[w].rest, write[w].out \cup flushMemory(buffer),
                 write[w].status, write[w].tries)
<1>1. write' = [v \in Write |-> write'[v]] /\ \A v \in Write \ {w} : write'[v] = write[v]
  BY DEF WriteShapes, TransformEnds
<1>2. write'[w] = [[write[w] EXCEPT !.pc = "cost"] EXCEPT !.out = @ \cup flushMemory(buffer)]
  BY DEF WriteShapes, TransformEnds
<1>3. WriteShape(write[w])
  BY DEF WriteShapes
<1>4. WriteShape(write'[w])
  BY <1>2, <1>3 DEF WriteShape
<1>5. /\ write'[w].pc = "cost"
      /\ write'[w].sent = write[w].sent /\ write'[w].rest = write[w].rest
      /\ write'[w].out = write[w].out \cup flushMemory(buffer)
      /\ write'[w].status = write[w].status /\ write'[w].tries = write[w].tries
      /\ write'[w].mixed = write[w].mixed
  BY <1>2, <1>3 DEF WriteShape
<1> QED
  BY <1>1, <1>4, <1>5 DEF Becomes

LEMMA AnswerBecomes ==
  ASSUME WriteShapes, NEW w \in Write, Answer(w)
  PROVE  Becomes(w, IF isFailureStatus(write[w].status) THEN "new" ELSE "done",
                 write[w].sent, <<>>, {}, write[w].status, write[w].tries)
<1>1. write' = [v \in Write |-> write'[v]] /\ \A v \in Write \ {w} : write'[v] = write[v]
  BY DEF WriteShapes, Answer
<1>2. write'[w] =
        [[[write[w] EXCEPT !.pc = IF isFailureStatus(write[w].status) THEN "new" ELSE "done"]
            EXCEPT !.rest = <<>>] EXCEPT !.out = {}]
  BY DEF WriteShapes, Answer
<1>3. WriteShape(write[w])
  BY DEF WriteShapes
<1>4. WriteShape(write'[w])
  BY <1>2, <1>3 DEF WriteShape
<1>5. /\ write'[w].pc = IF isFailureStatus(write[w].status) THEN "new" ELSE "done"
      /\ write'[w].sent = write[w].sent /\ write'[w].rest = <<>>
      /\ write'[w].out = {}
      /\ write'[w].status = write[w].status /\ write'[w].tries = write[w].tries
      /\ write'[w].mixed = write[w].mixed
  BY <1>2, <1>3 DEF WriteShape
<1> QED
  BY <1>1, <1>4, <1>5 DEF Becomes

LEMMA ReadAllFailsBecomes ==
  ASSUME WriteShapes, NEW w \in Write, NEW p, ReadAllFails(w, p)
  PROVE  Becomes(w, "answer", {p}, write[w].rest, write[w].out, 400, write[w].tries + 1)
<1>1. write' = [v \in Write |-> write'[v]] /\ \A v \in Write \ {w} : write'[v] = write[v]
  BY DEF WriteShapes, ReadAllFails
<1>2. write'[w] = [[[[write[w] EXCEPT !.pc = "answer"] EXCEPT !.sent = {p}]
                  EXCEPT !.status = 400] EXCEPT !.tries = @ + 1]
  BY DEF WriteShapes, ReadAllFails
<1>3. WriteShape(write[w])
  BY DEF WriteShapes
<1>4. WriteShape(write'[w])
  BY <1>2, <1>3 DEF WriteShape
<1>5. /\ write'[w].pc = "answer"
      /\ write'[w].sent = {p} /\ write'[w].rest = write[w].rest
      /\ write'[w].out = write[w].out
      /\ write'[w].status = 400 /\ write'[w].tries = write[w].tries + 1
      /\ write'[w].mixed = write[w].mixed
  BY <1>2, <1>3 DEF WriteShape
<1> QED
  BY <1>1, <1>4, <1>5 DEF Becomes

(* What PostMetrics makes of the write, and what it means for the others.  *)
Transforms(p) == EarlyAnswer(p) = 0 /\ Decode(p) # <<>>
Others(w) == {v \in Write \ {w} : Transforming(v)}

LEMMA PostSets ==
  ASSUME WriteShapes, NEW w \in Write, NEW p, PostMetrics(w, p)
  PROVE  /\ WriteShapes'
         /\ write'[w].pc = IF EarlyAnswer(p) # 0 THEN "answer"
                           ELSE IF Transforms(p) THEN "transform" ELSE "cost"
         /\ write'[w].sent = {p}
         /\ write'[w].rest = IF EarlyAnswer(p) = 0 THEN Decode(p) ELSE <<>>
         /\ write'[w].out = {}
         /\ write'[w].status = EarlyAnswer(p)
         /\ write'[w].tries = write[w].tries + 1
         /\ write'[w].mixed = (Transforms(p) /\ Others(w) # {})
         /\ \A v \in Write \ {w} :
              /\ write'[v].pc = write[v].pc /\ write'[v].sent = write[v].sent
              /\ write'[v].rest = write[v].rest /\ write'[v].out = write[v].out
              /\ write'[v].status = write[v].status /\ write'[v].tries = write[v].tries
              /\ write'[v].mixed = (write[v].mixed \/ (Transforms(p) /\ v \in Others(w)))
<1>1. write' = [v \in Write |->
           IF v = w
           THEN [pc |-> IF EarlyAnswer(p) # 0 THEN "answer"
                        ELSE IF Transforms(p) THEN "transform" ELSE "cost",
                 sent |-> {p},
                 rest |-> IF EarlyAnswer(p) = 0 THEN Decode(p) ELSE <<>>, out |-> {},
                 status |-> EarlyAnswer(p), tries |-> write[w].tries + 1,
                 mixed |-> Transforms(p) /\ Others(w) # {}]
           ELSE [write[v] EXCEPT !.mixed = @ \/ (Transforms(p) /\ v \in Others(w))]]
  BY DEF PostMetrics, Transforms, Others
<1>2. ASSUME NEW v \in Write \ {w}
      PROVE  /\ WriteShape(write'[v])
             /\ write'[v].pc = write[v].pc /\ write'[v].sent = write[v].sent
             /\ write'[v].rest = write[v].rest /\ write'[v].out = write[v].out
             /\ write'[v].status = write[v].status /\ write'[v].tries = write[v].tries
             /\ write'[v].mixed = (write[v].mixed \/ (Transforms(p) /\ v \in Others(w)))
  <2>1. write'[v] = [write[v] EXCEPT !.mixed = write[v].mixed
                                               \/ (Transforms(p) /\ v \in Others(w))]
    BY <1>1
  <2>2. WriteShape(write[v])
    BY DEF WriteShapes
  <2> QED
    BY <2>1, <2>2 DEF WriteShape
<1>3. write'[w] = [pc |-> IF EarlyAnswer(p) # 0 THEN "answer"
                          ELSE IF Transforms(p) THEN "transform" ELSE "cost",
                   sent |-> {p},
                   rest |-> IF EarlyAnswer(p) = 0 THEN Decode(p) ELSE <<>>, out |-> {},
                   status |-> EarlyAnswer(p), tries |-> write[w].tries + 1,
                   mixed |-> Transforms(p) /\ Others(w) # {}]
  BY <1>1
<1>4. WriteShape(write'[w])
  BY <1>3 DEF WriteShape
<1>5. WriteShapes'
  BY <1>1, <1>2, <1>4 DEF WriteShapes
<1> QED
  BY <1>2, <1>3, <1>5

LEMMA GoneSets ==
  ASSUME WriteShapes, NEW destroyed, Gone(destroyed)
  PROVE  /\ WriteShapes'
         /\ \A w \in Write :
              /\ write'[w].pc = IF Handling(w) THEN "new" ELSE write[w].pc
              /\ write'[w].sent = write[w].sent
              /\ write'[w].status = write[w].status /\ write'[w].tries = write[w].tries
              /\ write'[w].mixed = write[w].mixed
<1>1. write' = [w \in Write |-> IF Handling(w)
                                THEN [write[w] EXCEPT !.pc = "new", !.rest = <<>>, !.out = {}]
                                ELSE write[w]]
  BY DEF Gone
<1>2. ASSUME NEW w \in Write
      PROVE  /\ WriteShape(write'[w])
             /\ write'[w].pc = IF Handling(w) THEN "new" ELSE write[w].pc
             /\ write'[w].sent = write[w].sent
             /\ write'[w].status = write[w].status /\ write'[w].tries = write[w].tries
             /\ write'[w].mixed = write[w].mixed
  <2>1. WriteShape(write[w])
    BY DEF WriteShapes
  <2>2. CASE Handling(w)
    <3>1. write'[w] = [write[w] EXCEPT !.pc = "new", !.rest = <<>>, !.out = {}]
      BY <1>1, <2>2
    <3> QED
      BY <2>1, <2>2, <3>1 DEF WriteShape
  <2>3. CASE ~Handling(w)
    BY <1>1, <2>1, <2>3
  <2> QED
    BY <2>2, <2>3
<1> QED
  BY <1>1, <1>2 DEF WriteShapes

-----------------------------------------------------------------------------
(* The types *)

WriteTypes ==
  \A w \in Write :
    /\ write[w].pc \in {"new", "transform", "cost", "flush", "observability",
                        "answer", "done"}
    /\ write[w].tries \in 0..MaxTries(w)
    /\ write[w].status \in {0, 200, 204, 400, 500}
    /\ write[w].mixed \in BOOLEAN

WriteInv == WriteShapes /\ WriteTypes

LEMMA MoveTyped ==
  ASSUME WriteInv, NEW w \in Write,
         write' = [v \in Write |-> write'[v]], WriteShape(write'[w]),
         write'[w].pc \in {"new", "transform", "cost", "flush", "observability", "answer", "done"},
         write'[w].status \in {0, 200, 204, 400, 500},
         write'[w].tries \in 0..MaxTries(w),
         write'[w].mixed = write[w].mixed,
         \A v \in Write \ {w} : write'[v] = write[v]
  PROVE  WriteInv'
<1>1. WriteShapes'
  BY DEF WriteInv, WriteShapes
<1>2. WriteTypes'
  BY DEF WriteInv, WriteTypes
<1> QED
  BY <1>1, <1>2 DEF WriteInv

LEMMA PutTyped ==
  ASSUME WriteInv, NEW w \in Write, PutCost(w) \/ FirstFlush(w) \/ PutObservability(w)
  PROVE  WriteInv'
<1>1. PICK pc \in {"flush", "observability", "answer"}, status \in {0, 204, 500} :
        Goto(w, pc, status)
  BY DEF PutCost, FirstFlush, PutObservability
<1>2. Becomes(w, pc, write[w].sent, write[w].rest, write[w].out, status, write[w].tries)
  BY <1>1, GotoBecomes DEF WriteInv
<1>3. write[w].tries \in 0..MaxTries(w)
  BY DEF WriteInv, WriteTypes
<1> QED
  BY <1>2, <1>3, MoveTyped DEF Becomes

LEMMA WriteStepTyped ==
  ASSUME WriteInv, NEW w \in Write, WriteStep(w)
  PROVE  WriteInv'
<1>1. write[w].tries \in 0..MaxTries(w) /\ write[w].status \in {0, 200, 204, 400, 500}
      /\ WriteShapes
  BY DEF WriteInv, WriteTypes
<1>2. CASE TransformNext(w)
  BY <1>1, <1>2, TransformNextBecomes, MoveTyped DEF Becomes
<1>3. CASE TransformEnds(w)
  BY <1>1, <1>3, TransformEndsBecomes, MoveTyped DEF Becomes
<1>4. CASE PutCost(w) \/ FirstFlush(w) \/ PutObservability(w)
  BY <1>4, PutTyped
<1>5. CASE Answer(w)
  <2>1. PICK pc \in {"new", "done"} :
          Becomes(w, pc, write[w].sent, <<>>, {}, write[w].status, write[w].tries)
    BY <1>1, <1>5, AnswerBecomes
  <2> QED
    BY <1>1, <2>1, MoveTyped DEF Becomes
<1> QED
  BY <1>2, <1>3, <1>4, <1>5 DEF WriteStep

LEMMA PostTyped ==
  ASSUME WriteInv, NEW w \in Write, NEW p \in Payloads(w), PostMetrics(w, p) \/ ReadAllFails(w, p)
  PROVE  WriteInv'
<1>1. write[w].tries + 1 \in 0..MaxTries(w)
  <2>1. write[w].tries < MaxTries(w)
    BY DEF PostMetrics, ReadAllFails, Sends
  <2>2. write[w].tries \in 0..MaxTries(w) /\ MaxTries(w) \in Nat
    BY CollectorAssumption DEF WriteInv, WriteTypes
  <2> QED
    BY <2>1, <2>2
<1>2. CASE ReadAllFails(w, p)
  BY <1>1, <1>2, ReadAllFailsBecomes, MoveTyped DEF WriteInv, Becomes
<1>3. CASE PostMetrics(w, p)
  <2>1. WriteShapes'
    BY <1>3, PostSets DEF WriteInv
  <2>2. EarlyAnswer(p) \in {0, 200, 500}
    BY DEF EarlyAnswer
  <2>3. \A v \in Write : write'[v].mixed \in BOOLEAN
    <3>1. \A v \in Write \ {w} :
            write'[v].mixed = (write[v].mixed \/ (Transforms(p) /\ v \in Others(w)))
      BY <1>3, PostSets DEF WriteInv
    <3>2. write'[w].mixed = (Transforms(p) /\ Others(w) # {})
      BY <1>3, PostSets DEF WriteInv
    <3> QED
      BY <3>1, <3>2
  <2>4. /\ write'[w].pc \in {"answer", "transform", "cost"}
        /\ write'[w].status = EarlyAnswer(p)
        /\ write'[w].tries = write[w].tries + 1
    BY <1>3, PostSets DEF WriteInv
  <2>5. \A v \in Write \ {w} : /\ write'[v].pc = write[v].pc /\ write'[v].tries = write[v].tries
                               /\ write'[v].status = write[v].status
    BY <1>3, PostSets DEF WriteInv
  <2>6. WriteTypes'
    BY <1>1, <2>2, <2>3, <2>4, <2>5 DEF WriteInv, WriteTypes
  <2> QED
    BY <2>1, <2>6 DEF WriteInv
<1> QED
  BY <1>2, <1>3

LEMMA GoneTyped ==
  ASSUME WriteInv, NEW destroyed, Gone(destroyed)
  PROVE  WriteInv'
  BY GoneSets DEF WriteInv, WriteTypes

LEMMA NextWrites ==
  ASSUME WriteInv, [Next]_vars
  PROVE  WriteInv'
<1>1. ASSUME UNCHANGED write PROVE WriteInv'
  BY <1>1 DEF WriteInv, WriteShapes, WriteShape, WriteTypes
<1>2. ASSUME NEW w \in Write, NEW p \in Payloads(w), PostMetrics(w, p) \/ ReadAllFails(w, p)
      PROVE  WriteInv'
  BY <1>2, PostTyped
<1>3. ASSUME NEW w \in Write, WriteStep(w) PROVE WriteInv'
  BY <1>3, WriteStepTyped
<1>4. CASE Exit \/ ConcurrentMapWrites
  BY <1>4, GoneTyped DEF Exit, ConcurrentMapWrites
<1>5. ASSUME \/ GetHealthz \/ GetLivez \/ Tick
             \/ ServerReturns \/ HandleSignal \/ WriteMarker
             \/ Restart \/ Terminate
      PROVE  UNCHANGED write
  BY <1>5 DEF GetHealthz, GetLivez, Tick, ServerReturns, HandleSignal, WriteMarker, Restart,
              Terminate
<1>6. ASSUME NEW s \in Stores, HandlerFlush(s) \/ DeferredFlush(s) PROVE UNCHANGED write
  BY <1>6 DEF HandlerFlush, DeferredFlush
<1>7. CASE ShipperStep \/ UNCHANGED vars
  BY <1>1, <1>7, ShipperFrame DEF vars, collectorVars
<1> QED
  BY <1>1, <1>2, <1>3, <1>4, <1>5, <1>6, <1>7 DEF Next, CollectorNext, ExitStep, ShipperStep

(* The counters and flags. *)
FaultsTyped == faults \in 0..MaxFaults
FlagsTyped == firstDone \in BOOLEAN /\ process.signalled \in BOOLEAN /\ terminating \in BOOLEAN
ShipperTyped ==
  /\ ShipperShape
  /\ shipper.run \in {"cycle", "select", "flush", "returned", "down"}
  /\ shipper.handler \in {"wait", "await", "exit", "down"}
  /\ shipper.main \in {"serve", "down"}

LEMMA NextFaults ==
  ASSUME FaultsTyped, [Next]_vars
  PROVE  FaultsTyped'
<1>1. ASSUME UNCHANGED faults \/ CollectorFault PROVE FaultsTyped'
  BY <1>1, CollectorAssumption DEF FaultsTyped, CollectorFault
<1>2. ASSUME NEW w \in Write, NEW p \in Payloads(w), PostMetrics(w, p) \/ ReadAllFails(w, p)
      PROVE  UNCHANGED faults \/ CollectorFault
  BY <1>2 DEF PostMetrics, ReadAllFails
<1>3. ASSUME NEW w \in Write, WriteStep(w) PROVE UNCHANGED faults \/ CollectorFault
  BY <1>3 DEF WriteStep, TransformNext, TransformEnds, PutCost, FirstFlush, PutObservability,
              Answer, PutFails, FlushStoreFails
<1>4. ASSUME NEW s \in Stores, HandlerFlush(s) \/ DeferredFlush(s)
      PROVE  UNCHANGED faults \/ CollectorFault
  BY <1>4 DEF HandlerFlush, DeferredFlush, FlushAtExit, FlushStoreFails
<1>5. ASSUME \/ GetHealthz \/ GetLivez \/ Tick
             \/ ServerReturns \/ HandleSignal \/ WriteMarker \/ Exit \/ ConcurrentMapWrites
             \/ Restart \/ Terminate
      PROVE  UNCHANGED faults \/ CollectorFault
  BY <1>5 DEF GetHealthz, GetLivez, Tick, ServerReturns, HandleSignal, WriteMarker, Exit,
              ConcurrentMapWrites, Restart, Terminate
<1>6. CASE ShipperStep \/ UNCHANGED vars
  BY <1>1, <1>6, ShipperFrame DEF vars, collectorVars
<1> QED
  BY <1>1, <1>2, <1>3, <1>4, <1>5, <1>6 DEF Next, CollectorNext, ExitStep, ShipperStep

LEMMA NextFlags ==
  ASSUME EndInv, FlagsTyped, [Next]_vars
  PROVE  FlagsTyped'
<1> DEFINE Same == UNCHANGED <<firstDone, terminating>> /\ process'.signalled = process.signalled
<1>1. ASSUME Same PROVE FlagsTyped'
  BY <1>1 DEF FlagsTyped
<1>2. ASSUME NEW w \in Write, NEW p \in Payloads(w), PostMetrics(w, p) \/ ReadAllFails(w, p)
      PROVE  UNCHANGED <<firstDone, process>>
  BY <1>2, PostFrame
<1>3. ASSUME NEW w \in Write, WriteStep(w)
      PROVE  (firstDone' = firstDone \/ firstDone' = TRUE) /\ UNCHANGED process
  BY <1>3 DEF WriteStep, TransformNext, TransformEnds, PutCost, FirstFlush, PutObservability,
              Answer
<1>4. ASSUME GetHealthz \/ GetLivez \/ Tick \/ Restart
      PROVE  UNCHANGED firstDone /\ (process'.signalled = process.signalled
                                      \/ process'.signalled \in BOOLEAN)
  <2>1. CASE Restart
    BY <2>1 DEF Restart, Started
  <2>2. CASE GetHealthz \/ GetLivez \/ Tick
    <3>1. UNCHANGED firstDone
      BY <2>2 DEF GetHealthz, GetLivez, Tick
    <3>2. CASE process' = [process EXCEPT !.signalled = TRUE]
      <4>1. process'.signalled = TRUE
        BY <3>2 DEF EndInv, ProcessTyped, ProcessShape
      <4> QED
        BY <3>1, <4>1
    <3> QED
      BY <2>2, <3>1, <3>2, ProbeFrame
  <2> QED
    BY <1>4, <2>1, <2>2
<1>5. ASSUME \/ ServerReturns \/ HandleSignal \/ WriteMarker
             \/ \E s \in Stores : HandlerFlush(s) \/ DeferredFlush(s)
      PROVE  UNCHANGED firstDone /\ process'.signalled = process.signalled
  BY <1>5 DEF ServerReturns, HandleSignal, WriteMarker, HandlerFlush, DeferredFlush, EndInv,
              ProcessTyped, ProcessShape
<1>6. ASSUME Exit \/ ConcurrentMapWrites
      PROVE  firstDone' = FALSE /\ process'.signalled = process.signalled
  BY <1>6 DEF Exit, ConcurrentMapWrites, Gone, EndInv, ProcessTyped, ProcessShape
<1>7. ASSUME ShipperStep \/ UNCHANGED vars PROVE Same
  BY <1>7, ShipperFrame DEF vars, collectorVars
<1>8. CASE Terminate
  <2>1. UNCHANGED firstDone /\ terminating' = TRUE
    BY <1>8 DEF Terminate
  <2>2. process' = [process EXCEPT !.signalled = Serving \/ process.signalled]
    BY <1>8 DEF Terminate
  <2>3. process'.signalled = (Serving \/ process.signalled)
    BY <2>2 DEF EndInv, ProcessTyped, ProcessShape
  <2>4. process'.signalled \in BOOLEAN
    BY <2>3
  <2> QED
    BY <2>1, <2>4 DEF FlagsTyped
<1> QED
  BY <1>1, <1>2, <1>3, <1>4, <1>5, <1>6, <1>7, <1>8
  DEF Next, CollectorNext, ExitStep, ShipperStep, FlagsTyped

LEMMA NextShipperTyped ==
  ASSUME ShipperTyped, [Next]_vars
  PROVE  ShipperTyped'
<1>1. CASE UNCHANGED shipper
  BY <1>1 DEF ShipperTyped, ShipperShape
<1>2. CASE Terminate
  BY <1>2 DEF Terminate, ShipperTyped, ShipperShape
<1>3. CASE RunShipper \/ CycleEnds \/ FinalFlush \/ FinalFlushEnds \/ AwaitMarker
  BY <1>3 DEF RunShipper, CycleEnds, FinalFlush, FinalFlushEnds, AwaitMarker, ShipperTyped,
              ShipperShape
<1>4. CASE RunSignalled
  BY <1>4 DEF RunSignalled, ShipperTyped, ShipperShape
<1>5. CASE MarkerFound \/ MarkerMissing
  BY <1>5 DEF MarkerFound, MarkerMissing, Shutdown, ShipperTyped, ShipperShape
<1>6. CASE ShipperExits
  BY <1>6 DEF ShipperExits, ShipperTyped, ShipperShape
<1> QED
  BY <1>1, <1>2, <1>3, <1>4, <1>5, <1>6 DEF Next, RunStep, vars

TypeInv == EndInv /\ ClockInv /\ WriteInv /\ FaultsTyped /\ FlagsTyped /\ ShipperTyped

LEMMA InitTypes == Init => TypeInv
<1> SUFFICES ASSUME Init PROVE TypeInv
  OBVIOUS
<1>1. EndInv /\ ClockInv
  BY CollectorInitEnd, InitClock DEF Init
<1>2. write = [w \in Write |-> [pc |-> "new", sent |-> {}, rest |-> <<>>, out |-> {},
                                status |-> 0, tries |-> 0, mixed |-> FALSE]]
  BY DEF Init, CollectorInit
<1>3. WriteInv
  <2>1. WriteShapes
    <3>1. ASSUME NEW w \in Write PROVE WriteShape(write[w])
      <4>1. write[w] = [pc |-> "new", sent |-> {}, rest |-> <<>>, out |-> {},
                        status |-> 0, tries |-> 0, mixed |-> FALSE]
        BY <1>2
      <4> QED
        BY <4>1 DEF WriteShape
    <3> QED
      BY <1>2, <3>1 DEF WriteShapes
  <2>2. ASSUME NEW w \in Write
        PROVE  /\ write[w].pc = "new" /\ write[w].tries = 0 /\ write[w].status = 0
               /\ write[w].mixed = FALSE
    BY <1>2
  <2>3. WriteTypes
    <3>1. ASSUME NEW w \in Write PROVE 0 \in 0..MaxTries(w)
      BY CollectorAssumption
    <3>2. ASSUME NEW w \in Write PROVE write[w].mixed \in BOOLEAN
      BY <2>2
    <3> QED
      BY <2>2, <3>1, <3>2 DEF WriteTypes
  <2> QED
    BY <2>1, <2>3 DEF WriteInv
<1>4. FaultsTyped
  BY CollectorAssumption DEF Init, CollectorInit, FaultsTyped
<1>5. FlagsTyped
  BY DEF Init, CollectorInit, Started, FlagsTyped
<1>6. ShipperTyped
  BY DEF Init, ShipperTyped, ShipperShape
<1> QED
  BY <1>1, <1>3, <1>4, <1>5, <1>6 DEF TypeInv

LEMMA NextTypes == TypeInv /\ [Next]_vars => TypeInv'
  BY NextEnd, NextClock, NextWrites, NextFaults, NextFlags, NextShipperTyped DEF TypeInv

(* The pod keeps its types; among them that no marker is of an incarnation *)
(* to come, and no event of the tracker of the future.                     *)
THEOREM TypesOfPod == Spec => []TypeOK
<1>1. TypeInv => TypeOK
  <2> SUFFICES ASSUME TypeInv PROVE TypeOK
    OBVIOUS
  <2>1. tracker.last \subseteq 0..now /\ \A e \in ToSet(tracker.events) :
                                           e.at \in 0..now /\ e.failure \in BOOLEAN
    <3>1. tracker.events \in Seq([at : 0..now, failure : BOOLEAN]) /\ tracker.last \subseteq 0..now
      BY DEF TypeInv, ClockInv, TrackerTyped, Events
    <3>2. ASSUME NEW e \in ToSet(tracker.events)
          PROVE  e \in [at : 0..now, failure : BOOLEAN]
      <4>1. PICK i \in DOMAIN tracker.events : e = tracker.events[i]
        BY DEF ToSet
      <4>2. i \in 1..Len(tracker.events)
        BY <3>1
      <4> QED
        BY <3>1, <4>1, <4>2, ElementOfSeq
    <3> QED
      BY <3>1, <3>2
  <2>2. CollectorTypeOK
    BY <2>1 DEF TypeInv, EndInv, ProcessTyped, ClockInv, KubeletTyped, WriteInv, WriteTypes,
                FaultsTyped, FlagsTyped, CollectorTypeOK
  <2> QED
    BY <2>2 DEF TypeInv, FlagsTyped, ShipperTyped, TypeOK
<1> QED
  BY <1>1, InitTypes, NextTypes, PTL DEF Spec

-----------------------------------------------------------------------------
(* The transformation *)

LastOf(ms, k) ==
  {ms[i] : i \in {i \in 1..k :
     /\ Buffered(ms[i])
     /\ \A j \in 1..k : j > i /\ Buffered(ms[j]) =>
          ms[j].name # ms[i].name \/ ms[j].container # ms[i].container}}

SinglesOf(ms, k) == UNION {ToSet(transformSingle(ms[i])) : i \in 1..k}

LEMMA LastOfAll ==
  ASSUME NEW ms, ms \in Seq(ToSet(ms))
  PROVE  LastBuffered(ms) = LastOf(ms, Len(ms)) /\ Singles(ms) = SinglesOf(ms, Len(ms))
<1>1. DOMAIN ms = 1..Len(ms)
  OBVIOUS
<1> QED
  BY <1>1 DEF LastBuffered, LastOf, Singles, SinglesOf

LEMMA LastOfNone ==
  ASSUME NEW ms
  PROVE  LastOf(ms, 0) = {} /\ SinglesOf(ms, 0) = {}
  BY DEF LastOf, SinglesOf

(* One more metric replaces the earlier one of its name and container. *)
LEMMA LastOfNext ==
  ASSUME NEW ms, NEW k \in Nat
  PROVE  LastOf(ms, k + 1) =
           IF Buffered(ms[k + 1]) THEN bufferMemoryMetric(LastOf(ms, k), ms[k + 1])
           ELSE LastOf(ms, k)
<1> DEFINE Differ(a, b) == b.name # a.name \/ b.container # a.container
           Index(n) == {i \in 1..n : Buffered(ms[i]) /\ \A j \in 1..n :
                                       j > i /\ Buffered(ms[j]) => Differ(ms[i], ms[j])}
<1>1. \A n : LastOf(ms, n) = {ms[i] : i \in Index(n)}
  BY DEF LastOf
<1>2. 1..(k + 1) = 1..k \cup {k + 1}
  OBVIOUS
<1>3. CASE Buffered(ms[k + 1])
  <2>1. Index(k + 1) = {i \in Index(k) : Differ(ms[i], ms[k + 1])} \cup {k + 1}
    BY <1>2, <1>3
  <2>2. bufferMemoryMetric(LastOf(ms, k), ms[k + 1])
          = {m \in LastOf(ms, k) : Differ(m, ms[k + 1])} \cup {ms[k + 1]}
    BY DEF bufferMemoryMetric
  <2> HIDE DEF Index, Differ
  <2> QED
    BY <1>1, <1>3, <2>1, <2>2
<1>4. CASE ~Buffered(ms[k + 1])
  <2>1. Index(k + 1) = Index(k)
    BY <1>2, <1>4
  <2> HIDE DEF Index
  <2> QED
    BY <1>1, <1>4, <2>1
<1> QED
  BY <1>3, <1>4

LEMMA SinglesOfNext ==
  ASSUME NEW ms, NEW k \in Nat
  PROVE  SinglesOf(ms, k + 1) = SinglesOf(ms, k) \cup ToSet(transformSingle(ms[k + 1]))
<1>1. 1..(k + 1) = 1..k \cup {k + 1}
  OBVIOUS
<1> QED
  BY <1>1 DEF SinglesOf

(* How far the transformation of a write has come: what is left is the end *)
(* of its metrics, and the others are in its result or in the buffer.      *)
Progress(ms, rest, out, buf, mixed) ==
  /\ rest \in Seq(ToSet(ms)) /\ Len(rest) <= Len(ms)
  /\ \A i \in 1..Len(rest) : rest[i] = ms[Len(ms) - Len(rest) + i]
  /\ SinglesOf(ms, Len(ms) - Len(rest)) \subseteq out
  /\ ~mixed => buf = LastOf(ms, Len(ms) - Len(rest))

LEMMA ProgressStart ==
  ASSUME NEW ms, ms \in Seq(ToSet(ms)), NEW out, NEW mixed
  PROVE  Progress(ms, ms, out, {}, mixed)
<1>1. Len(ms) \in Nat /\ Len(ms) - Len(ms) = 0
  OBVIOUS
<1>2. \A i \in 1..Len(ms) : ms[i] = ms[Len(ms) - Len(ms) + i]
  BY <1>1
<1> QED
  BY <1>1, <1>2, LastOfNone DEF Progress

LEMMA ProgressNext ==
  ASSUME NEW ms, NEW rest, NEW out, NEW buf, NEW mixed,
         ms \in Seq(ToSet(ms)), Progress(ms, rest, out, buf, mixed), rest # <<>>
  PROVE  Progress(ms, Tail(rest), out \cup ToSet(transformSingle(Head(rest))),
                  IF Buffered(Head(rest)) THEN bufferMemoryMetric(buf, Head(rest)) ELSE buf, mixed)
<1> DEFINE k == Len(ms) - Len(rest)
<1>1. /\ rest \in Seq(ToSet(ms)) /\ Len(rest) \in Nat \ {0} /\ Len(ms) \in Nat /\ k \in Nat
      /\ Head(rest) = rest[1] /\ Tail(rest) \in Seq(ToSet(ms))
      /\ Len(Tail(rest)) = Len(rest) - 1
      /\ \A i \in 1..Len(Tail(rest)) : Tail(rest)[i] = rest[i + 1]
  BY HeadTailProperties DEF Progress
<1>2. Len(ms) - Len(Tail(rest)) = k + 1
  BY <1>1
<1>3. Head(rest) = ms[k + 1]
  BY <1>1 DEF Progress
<1>4. \A i \in 1..Len(Tail(rest)) : Tail(rest)[i] = ms[Len(ms) - Len(Tail(rest)) + i]
  <2> TAKE i \in 1..Len(Tail(rest))
  <2>1. i + 1 \in 1..Len(rest) /\ i \in Nat
    BY <1>1
  <2>2. rest[i + 1] = ms[Len(ms) - Len(rest) + (i + 1)]
    BY <2>1 DEF Progress
  <2>3. Len(ms) - Len(rest) + (i + 1) = Len(ms) - Len(Tail(rest)) + i
    BY <1>1, <2>1
  <2> QED
    BY <1>1, <2>2, <2>3
<1>5. SinglesOf(ms, k + 1) \subseteq out \cup ToSet(transformSingle(Head(rest)))
  BY <1>1, <1>3, SinglesOfNext DEF Progress
<1>6. ASSUME ~mixed
      PROVE  (IF Buffered(Head(rest)) THEN bufferMemoryMetric(buf, Head(rest)) ELSE buf)
               = LastOf(ms, k + 1)
  BY <1>1, <1>3, <1>6, LastOfNext DEF Progress
<1> HIDE DEF k
<1> QED
  BY <1>1, <1>2, <1>4, <1>5, <1>6 DEF Progress

(* The rows a write is to store are those it has, or owed to the shared    *)
(* buffer.                                                                 *)
LEMMA FlushedName ==
  ASSUME NEW ms, \A m \in ToSet(ms) :
           m = [name |-> m.name, container |-> m.container, labelled |-> m.labelled,
                value |-> m.value],
         NEW row \in flushMemory(LastBuffered(ms))
  PROVE  row.name = standardGPUMemoryUsage
<1>1. LastBuffered(ms) \subseteq ToSet(ms)
  BY DEF LastBuffered, ToSet
<1>2. PICK p \in LastBuffered(ms) \X LastBuffered(ms) :
        row = [p[1] EXCEPT !.name = standardGPUMemoryUsage, !.value = p[1].value \o p[2].value]
  BY DEF flushMemory
<1>3. p[1] \in ToSet(ms)
  BY <1>1, <1>2
<1>4. p[1] = [name |-> p[1].name, container |-> p[1].container, labelled |-> p[1].labelled,
              value |-> p[1].value]
  BY <1>3
<1>5. "name" \in DOMAIN p[1]
  BY <1>4
<1>6. row = [[p[1] EXCEPT !.name = standardGPUMemoryUsage]
               EXCEPT !.value = p[1].value \o p[2].value]
  BY <1>2
<1> QED
  BY <1>4, <1>6

LEMMA FilterUnion ==
  ASSUME NEW a, NEW b, NEW s \in Stores
  PROVE  Filter(a \cup b)[s] = Filter(a)[s] \cup Filter(b)[s]
  BY DEF Filter, FilterCost, FilterObservability, Stores

LEMMA FilterPart ==
  ASSUME NEW a, NEW s \in Stores
  PROVE  Filter(a)[s] \subseteq a
         /\ \A b : a \subseteq b => Filter(a)[s] \subseteq Filter(b)[s]
  BY DEF Filter, FilterCost, FilterObservability, Stores

(* The shared buffer may have the memory row of another write, or none.    *)
SharedRow(mixed, row) == mixed /\ row.name = standardGPUMemoryUsage

LEMMA ProgressEnd ==
  ASSUME NEW p, NEW out, NEW buf, NEW mixed, NEW s \in Stores,
         Decode(p) \in Seq(ToSet(Decode(p))),
         \A m \in ToSet(Decode(p)) :
           m = [name |-> m.name, container |-> m.container, labelled |-> m.labelled,
                value |-> m.value],
         Progress(Decode(p), <<>>, out, buf, mixed), NEW row \in Expected(p)[s]
  PROVE  row \in Filter(out \cup flushMemory(buf))[s] \/ SharedRow(mixed, row)
<1>1. Len(<<>>) = 0 /\ Len(Decode(p)) \in Nat
  OBVIOUS
<1>2. Singles(Decode(p)) \subseteq out /\ (~mixed => buf = LastBuffered(Decode(p)))
  BY <1>1, LastOfAll DEF Progress
<1>3. row \in Filter(Singles(Decode(p)))[s]
      \/ row \in Filter(flushMemory(LastBuffered(Decode(p))))[s]
  BY FilterUnion DEF Expected
<1>4. CASE row \in Filter(Singles(Decode(p)))[s]
  BY <1>2, <1>4, FilterPart, FilterUnion
<1>5. CASE row \in Filter(flushMemory(LastBuffered(Decode(p))))[s]
  <2>1. CASE ~mixed
    BY <1>2, <1>5, <2>1, FilterUnion
  <2>2. CASE mixed
    BY <1>5, <2>2, FilterPart, FlushedName DEF SharedRow
  <2> QED
    BY <2>1, <2>2
<1> QED
  BY <1>3, <1>4, <1>5

(* With the buffer shared, or replaced, nothing is said of it. *)
LEMMA ProgressMixed ==
  ASSUME NEW ms, NEW rest, NEW out, NEW buf, NEW mixed, NEW buf2, NEW mixed2,
         Progress(ms, rest, out, buf, mixed), ~mixed2 => ~mixed /\ buf2 = buf
  PROVE  Progress(ms, rest, out, buf2, mixed2)
  BY DEF Progress

-----------------------------------------------------------------------------
(* No row is dropped on the way *)

LEMMA PutKept ==
  ASSUME EndInv, NEW s \in Stores, NEW rows, Effect(s, rows)
  PROVE  Kept
  BY EffectKeeps DEF EndInv, ProcessTyped

LEMMA SameKept ==
  ASSUME UNCHANGED <<store, lost>>
  PROVE  Kept
  BY DEF Kept

(* An exit finds both stores flushed, and a crash is counted as a fault. *)
LEMMA GoneKept ==
  ASSUME EndInv, NEW destroyed, Gone(destroyed),
         \A s \in Stores : Pairs(s, store[s].mem) \subseteq lost \cup destroyed
  PROVE  Kept
<1>1. store' = [s \in Stores |-> [store[s] EXCEPT !.mem = {}]] /\ lost' = lost \cup destroyed
  BY DEF Gone
<1>2. ASSUME NEW s \in Stores
      PROVE  store'[s].disk = store[s].disk
  <2>1. store'[s] = [store[s] EXCEPT !.mem = {}]
    BY <1>1
  <2>2. store[s] = [mem |-> store[s].mem, disk |-> store[s].disk]
    BY DEF EndInv, StoreShapes
  <2> QED
    BY <2>1, <2>2
<1> QED
  BY <1>1, <1>2 DEF Kept, Pairs

LEMMA NextKept ==
  ASSUME EndInv, [Next]_vars
  PROVE  Kept
<1>1. ASSUME NEW w \in Write, NEW p \in Payloads(w), PostMetrics(w, p) \/ ReadAllFails(w, p)
      PROVE  Kept
  BY <1>1, PostFrame, SameKept
<1>2. ASSUME NEW w \in Write, WriteStep(w) PROVE Kept
  BY <1>2, WriteStepEffect, PutKept, SameKept DEF EndInv
<1>3. CASE GetHealthz \/ GetLivez \/ Tick
  BY <1>3, ProbeFrame, SameKept
<1>4. CASE ServerReturns \/ HandleSignal \/ Restart \/ WriteMarker \/ Terminate
  BY <1>4, SameKept DEF ServerReturns, HandleSignal, Restart, WriteMarker, Terminate
<1>5. ASSUME NEW s \in Stores, HandlerFlush(s) \/ DeferredFlush(s) PROVE Kept
  BY <1>5, CallEffect, PutKept DEF HandlerFlush, DeferredFlush, FlushAtExit, EndInv
<1>6. CASE Exit
  <2>1. \A s \in Stores : Pairs(s, store[s].mem) \subseteq lost
    BY <1>6 DEF Exit, EndInv, FlushOrder, FlushedIsLost
  <2> QED
    BY <1>6, <2>1, GoneKept DEF Exit
<1>7. CASE ConcurrentMapWrites
  BY <1>7, GoneKept DEF ConcurrentMapWrites
<1>8. CASE ShipperStep \/ UNCHANGED vars
  BY <1>8, ShipperFrame, SameKept DEF vars, collectorVars
<1> QED
  BY <1>1, <1>2, <1>3, <1>4, <1>5, <1>6, <1>7, <1>8
  DEF Next, CollectorNext, ExitStep, ShipperStep

-----------------------------------------------------------------------------
(* An acknowledged write: the invariant *)

AtWork == {"cost", "flush", "observability"}

ExpectedRows(w, s) == UNION {Expected(p)[s] : p \in write[w].sent}

Excused(w, row) == SharedRow(write[w].mixed, row)

Answered204(w) == write[w].pc \in {"answer", "done"} /\ write[w].status = 204

RowsStored(w, s) == \A row \in ExpectedRows(w, s) : Accounted(s, row) \/ Excused(w, row)

(* A write that is transformed without another one has the buffer alone,   *)
(* and leaves it empty.                                                    *)
BufferInv ==
  /\ \A w, v \in Write : Transforming(w) /\ Transforming(v) /\ ~write[w].mixed => v = w
  /\ (\A w \in Write : ~Transforming(w)) => buffer = {}

(* Where the expected rows of a write are, while its handler goes on. *)
RowsInv(w) ==
  /\ write[w].sent \subseteq Payloads(w)
  /\ Transforming(w) =>
       \A p \in write[w].sent :
         Progress(Decode(p), write[w].rest, write[w].out, buffer, write[w].mixed)
  /\ write[w].pc \in AtWork =>
       \A s \in Stores : \A row \in ExpectedRows(w, s) :
         row \in RowsFor(w, s) \/ Excused(w, row)
  /\ write[w].pc \in {"flush", "observability"} \/ Answered204(w) => RowsStored(w, "cost")
  /\ Answered204(w) => RowsStored(w, "observability")

AckInv == BufferInv /\ \A w \in Write : RowsInv(w)

-----------------------------------------------------------------------------
(* An acknowledged write: the steps *)

LEMMA StoresNamed == "cost" \in Stores /\ "observability" \in Stores
                     /\ \A s \in Stores : s = "cost" \/ s = "observability"
  BY DEF Stores

(* Nothing has happened to the write but that another one has met it. *)
LEMMA RowsKept ==
  ASSUME NEW w, RowsInv(w), Kept,
         write'[w].pc = write[w].pc, write'[w].sent = write[w].sent,
         write'[w].rest = write[w].rest, write'[w].out = write[w].out,
         write'[w].status = write[w].status,
         write[w].mixed => write'[w].mixed,
         Transforming(w) /\ ~write'[w].mixed => buffer' = buffer
  PROVE  RowsInv(w)'
<1>1. \A s : ExpectedRows(w, s)' = ExpectedRows(w, s) /\ RowsFor(w, s)' = RowsFor(w, s)
  BY DEF ExpectedRows, RowsFor
<1>2. \A row : Excused(w, row) => Excused(w, row)'
  BY DEF Excused, SharedRow
<1>3. \A s \in Stores : RowsStored(w, s) => RowsStored(w, s)'
  BY <1>1, <1>2 DEF RowsStored, Kept, Accounted
<1>4. Transforming(w)' =>
        \A p \in write'[w].sent :
          Progress(Decode(p), write'[w].rest, write'[w].out, buffer', write'[w].mixed)
  BY ProgressMixed DEF RowsInv, Transforming
<1>5. write'[w].pc \in AtWork =>
        \A s \in Stores : \A row \in ExpectedRows(w, s)' :
          row \in RowsFor(w, s)' \/ Excused(w, row)'
  BY <1>1, <1>2 DEF RowsInv
<1>6. Answered204(w)' => Answered204(w)
  BY DEF Answered204
<1> QED
  BY <1>3, <1>4, <1>5, <1>6, StoresNamed DEF RowsInv

(* The handler is back at the client. *)
LEMMA RowsIdle ==
  ASSUME NEW w, RowsInv(w), Kept,
         write'[w].pc \in {"new", "done"},
         write'[w].sent = write[w].sent, write'[w].status = write[w].status,
         write[w].mixed => write'[w].mixed,
         write'[w].pc = "done" => write[w].pc \in {"answer", "done"}
  PROVE  RowsInv(w)'
<1>1. \A s : ExpectedRows(w, s)' = ExpectedRows(w, s)
  BY DEF ExpectedRows
<1>2. \A row : Excused(w, row) => Excused(w, row)'
  BY DEF Excused, SharedRow
<1>3. \A s \in Stores : RowsStored(w, s) => RowsStored(w, s)'
  BY <1>1, <1>2 DEF RowsStored, Kept, Accounted
<1>4. Answered204(w)' => Answered204(w)
  BY DEF Answered204
<1>5. ~Transforming(w)' /\ write'[w].pc \notin AtWork
  BY DEF Transforming, AtWork
<1> QED
  BY <1>3, <1>4, <1>5, StoresNamed DEF RowsInv, AtWork

(* The handler has failed, or has answered before PutMetrics. *)
LEMMA RowsFailed ==
  ASSUME NEW w, write'[w].sent \subseteq Payloads(w), write'[w].pc = "answer",
         write'[w].status # 204
  PROVE  RowsInv(w)'
  BY DEF RowsInv, Transforming, AtWork, Answered204

(* A payload without metrics makes no rows. *)
LEMMA NothingExpected ==
  ASSUME NEW p, Decode(p) = <<>>, NEW s \in Stores
  PROVE  Expected(p)[s] = {}
<1>1. Singles(<<>>) = {} /\ LastBuffered(<<>>) = {}
  BY DEF Singles, LastBuffered
<1>2. flushMemory({}) = {}
  BY DEF flushMemory
<1>3. Expected(p) = Filter({})
  BY <1>1, <1>2 DEF Expected
<1> QED
  BY <1>3, FilterPart

LEMMA PostRows ==
  ASSUME AckInv, WriteInv, Kept, NEW w \in Write, NEW p \in Payloads(w), PostMetrics(w, p)
  PROVE  AckInv'
<1>1. WriteShapes /\ buffer' = buffer /\ ~Transforming(w)
  BY DEF PostMetrics, Sends, Transforming, WriteInv
<1>2. /\ write'[w].pc = IF EarlyAnswer(p) # 0 THEN "answer"
                        ELSE IF Transforms(p) THEN "transform" ELSE "cost"
      /\ write'[w].sent = {p}
      /\ write'[w].rest = IF EarlyAnswer(p) = 0 THEN Decode(p) ELSE <<>>
      /\ write'[w].out = {}
      /\ write'[w].status = EarlyAnswer(p)
  BY <1>1, PostSets
<1>3. (write'[w].mixed <=> (Transforms(p) /\ Others(w) # {}))
      /\ \A v \in Write \ {w} :
           write'[v].mixed <=> (write[v].mixed \/ (Transforms(p) /\ v \in Others(w)))
  BY <1>1, PostSets
<1>4. \A v \in Write \ {w} :
        /\ write'[v].pc = write[v].pc /\ write'[v].sent = write[v].sent
        /\ write'[v].rest = write[v].rest /\ write'[v].out = write[v].out
        /\ write'[v].status = write[v].status
  BY <1>1, PostSets
<1>5. Transforming(w)' <=> Transforms(p)
  BY <1>2 DEF Transforming, Transforms
<1>6. \A v \in Write \ {w} : Transforming(v)' <=> Transforming(v)
  BY <1>4 DEF Transforming
<1>7. BufferInv'
  <2>1. \A v, u \in Write : Transforming(v)' /\ Transforming(u)' /\ ~write'[v].mixed => u = v
    <3> SUFFICES ASSUME NEW v \in Write, NEW u \in Write, Transforming(v)', Transforming(u)',
                        ~write'[v].mixed, u # v
                 PROVE  FALSE
      OBVIOUS
    <3>1. CASE v = w
      <4>1. u \in Others(w)
        BY <1>6, <3>1 DEF Others
      <4> QED
        BY <1>3, <1>5, <3>1, <4>1
    <3>2. CASE u = w
      <4>1. v \in Others(w)
        BY <1>6, <3>2 DEF Others
      <4> QED
        BY <1>3, <1>5, <3>2, <4>1
    <3>3. CASE v # w /\ u # w
      BY <1>3, <1>6, <3>3 DEF AckInv, BufferInv
    <3> QED
      BY <3>1, <3>2, <3>3
  <2>2. (\A v \in Write : ~Transforming(v)') => buffer' = {}
    BY <1>1, <1>6 DEF AckInv, BufferInv
  <2> QED
    BY <2>1, <2>2 DEF BufferInv
<1>8. ASSUME NEW v \in Write \ {w} PROVE RowsInv(v)'
  BY <1>1, <1>3, <1>4, RowsKept DEF AckInv
<1>9. RowsInv(w)'
  <2>1. CASE EarlyAnswer(p) # 0
    <3>1. EarlyAnswer(p) # 204
      BY DEF EarlyAnswer
    <3> QED
      BY <1>2, <2>1, <3>1, RowsFailed
  <2>2. CASE Transforms(p)
    <3>1. Decode(p) \in Seq(ToSet(Decode(p)))
      BY MetricsAssumption
    <3>2. Progress(Decode(p), Decode(p), {}, {}, write'[w].mixed)
      BY <3>1, ProgressStart
    <3>3. ~write'[w].mixed => buffer' = {}
      <4>1. Others(w) = {} => \A v \in Write : ~Transforming(v)
        BY <1>1 DEF Others
      <4> QED
        BY <1>1, <1>3, <2>2, <4>1 DEF AckInv, BufferInv
    <3>4. Progress(Decode(p), Decode(p), {}, buffer', write'[w].mixed)
      BY <3>2, <3>3, ProgressMixed
    <3>5. write'[w].pc = "transform" /\ write'[w].rest = Decode(p)
      BY <1>2, <2>2 DEF Transforms
    <3>6. \A q \in write'[w].sent :
            Progress(Decode(q), write'[w].rest, write'[w].out, buffer', write'[w].mixed)
      BY <1>2, <3>4, <3>5
    <3> QED
      BY <1>2, <3>5, <3>6 DEF RowsInv, Transforming, AtWork, Answered204
  <2>3. CASE EarlyAnswer(p) = 0 /\ Decode(p) = <<>>
    <3>1. \A s \in Stores : ExpectedRows(w, s)' = {}
      BY <1>2, <2>3, NothingExpected DEF ExpectedRows
    <3>2. write'[w].pc = "cost"
      BY <1>2, <2>3 DEF Transforms
    <3> QED
      BY <1>2, <3>1, <3>2 DEF RowsInv, Transforming, AtWork, Answered204
  <2> QED
    BY <2>1, <2>2, <2>3 DEF Transforms
<1> QED
  BY <1>7, <1>8, <1>9 DEF AckInv

(* One write moves, and none begins or ends to be transformed. *)
LEMMA MoveRows ==
  ASSUME AckInv, Kept, NEW w \in Write, UNCHANGED buffer,
         \A v \in Write \ {w} : write'[v] = write[v],
         ~Transforming(w), ~Transforming(w)', RowsInv(w)'
  PROVE  AckInv'
<1>1. ASSUME NEW v \in Write \ {w} PROVE RowsInv(v)'
  BY <1>1, RowsKept DEF AckInv
<1>2. \A v \in Write : Transforming(v)' <=> Transforming(v)
  BY DEF Transforming
<1>3. \A v \in Write : Transforming(v) => v # w
  OBVIOUS
<1>4. BufferInv'
  <2>1. \A v, u \in Write : Transforming(v)' /\ Transforming(u)' /\ ~write'[v].mixed => u = v
    BY <1>2, <1>3 DEF AckInv, BufferInv
  <2> QED
    BY <1>2, <2>1 DEF AckInv, BufferInv
<1> QED
  BY <1>1, <1>4 DEF AckInv

LEMMA UnreadRows ==
  ASSUME AckInv, WriteInv, Kept, NEW w \in Write, NEW p \in Payloads(w), ReadAllFails(w, p)
  PROVE  AckInv'
<1>1. Becomes(w, "answer", {p}, write[w].rest, write[w].out, 400, write[w].tries + 1)
  BY ReadAllFailsBecomes DEF WriteInv
<1>2. UNCHANGED buffer /\ ~Transforming(w)
  BY DEF ReadAllFails, Sends, Transforming
<1>3. write'[w].sent = {p} /\ write'[w].pc = "answer" /\ write'[w].status # 204
      /\ \A v \in Write \ {w} : write'[v] = write[v]
  BY <1>1 DEF Becomes
<1>4. RowsInv(w)' /\ ~Transforming(w)'
  BY <1>3, RowsFailed DEF Transforming
<1> QED
  BY <1>2, <1>3, <1>4, MoveRows

LEMMA TransformNextRows ==
  ASSUME AckInv, WriteInv, Kept, NEW w \in Write, TransformNext(w)
  PROVE  AckInv'
<1> DEFINE metric == Head(write[w].rest)
<1>1. /\ Transforming(w) /\ write[w].rest # <<>>
      /\ buffer' = IF Buffered(metric) THEN bufferMemoryMetric(buffer, metric) ELSE buffer
  BY DEF TransformNext
<1>2. Becomes(w, "transform", write[w].sent, Tail(write[w].rest),
              write[w].out \cup ToSet(transformSingle(metric)), write[w].status, write[w].tries)
  BY TransformNextBecomes DEF WriteInv
<1>3. /\ write'[w].pc = "transform" /\ write'[w].sent = write[w].sent
      /\ write'[w].rest = Tail(write[w].rest)
      /\ write'[w].out = write[w].out \cup ToSet(transformSingle(metric))
      /\ write'[w].mixed = write[w].mixed
      /\ \A v \in Write \ {w} : write'[v] = write[v]
  BY <1>2 DEF Becomes
<1>4. \A v \in Write : (Transforming(v)' <=> Transforming(v)) /\ write'[v].mixed = write[v].mixed
  BY <1>1, <1>3 DEF Transforming
<1>5. BufferInv'
  BY <1>1, <1>4 DEF AckInv, BufferInv
<1>6. ASSUME NEW v \in Write \ {w} PROVE RowsInv(v)'
  <2>1. Transforming(v) => write[v].mixed
    BY <1>1 DEF AckInv, BufferInv
  <2> QED
    BY <1>3, <2>1, RowsKept DEF AckInv
<1>7. RowsInv(w)'
  <2>1. ASSUME NEW p \in write[w].sent
        PROVE  Progress(Decode(p), write'[w].rest, write'[w].out, buffer', write'[w].mixed)
    <3>1. p \in Payloads(w)
          /\ Progress(Decode(p), write[w].rest, write[w].out, buffer, write[w].mixed)
      BY <1>1 DEF AckInv, RowsInv
    <3>2. Decode(p) \in Seq(ToSet(Decode(p)))
      BY <3>1, MetricsAssumption
    <3>3. Progress(Decode(p), Tail(write[w].rest),
                   write[w].out \cup ToSet(transformSingle(metric)),
                   IF Buffered(metric) THEN bufferMemoryMetric(buffer, metric) ELSE buffer,
                   write[w].mixed)
      BY <1>1, <3>1, <3>2, ProgressNext
    <3> HIDE DEF metric
    <3> QED
      BY <1>1, <1>3, <3>3
  <2>2. write'[w].sent \subseteq Payloads(w)
    BY <1>3 DEF AckInv, RowsInv
  <2> QED
    BY <1>3, <2>1, <2>2 DEF RowsInv, AtWork, Answered204
<1> QED
  BY <1>5, <1>6, <1>7 DEF AckInv

LEMMA TransformEndsRows ==
  ASSUME AckInv, WriteInv, Kept, NEW w \in Write, TransformEnds(w)
  PROVE  AckInv'
<1>1. Transforming(w) /\ write[w].rest = <<>> /\ buffer' = {}
  BY DEF TransformEnds
<1>2. Becomes(w, "cost", write[w].sent, write[w].rest, write[w].out \cup flushMemory(buffer),
              write[w].status, write[w].tries)
  BY TransformEndsBecomes DEF WriteInv
<1>3. /\ write'[w].pc = "cost" /\ write'[w].sent = write[w].sent
      /\ write'[w].out = write[w].out \cup flushMemory(buffer)
      /\ write'[w].mixed = write[w].mixed
      /\ \A v \in Write \ {w} : write'[v] = write[v]
  BY <1>2 DEF Becomes
<1>4. \A v \in Write : (Transforming(v)' => Transforming(v)) /\ write'[v].mixed = write[v].mixed
  BY <1>1, <1>3 DEF Transforming
<1>5. BufferInv'
  BY <1>1, <1>4 DEF AckInv, BufferInv
<1>6. ASSUME NEW v \in Write \ {w} PROVE RowsInv(v)'
  <2>1. Transforming(v) => write[v].mixed
    BY <1>1 DEF AckInv, BufferInv
  <2> QED
    BY <1>3, <2>1, RowsKept DEF AckInv
<1>7. RowsInv(w)'
  <2>1. ASSUME NEW s \in Stores, NEW row \in ExpectedRows(w, s)'
        PROVE  row \in RowsFor(w, s)' \/ Excused(w, row)'
    <3>1. PICK p \in write[w].sent : row \in Expected(p)[s]
      BY <1>3 DEF ExpectedRows
    <3>2. p \in Payloads(w)
          /\ Progress(Decode(p), <<>>, write[w].out, buffer, write[w].mixed)
      BY <1>1 DEF AckInv, RowsInv
    <3>3. /\ Decode(p) \in Seq(ToSet(Decode(p)))
          /\ \A m \in ToSet(Decode(p)) :
               m = [name |-> m.name, container |-> m.container, labelled |-> m.labelled,
                    value |-> m.value]
      BY <3>2, MetricsAssumption
    <3>4. row \in Filter(write[w].out \cup flushMemory(buffer))[s]
          \/ SharedRow(write[w].mixed, row)
      BY <3>1, <3>2, <3>3, ProgressEnd
    <3> QED
      BY <1>3, <3>4 DEF RowsFor, Excused
  <2>2. write'[w].sent \subseteq Payloads(w)
    BY <1>3 DEF AckInv, RowsInv
  <2> QED
    BY <1>3, <2>1, <2>2 DEF RowsInv, AtWork, Answered204, Transforming
<1> QED
  BY <1>5, <1>6, <1>7 DEF AckInv

-----------------------------------------------------------------------------
(* The calls of the stores *)

LEMMA PutHolds ==
  ASSUME StoreShapes, NEW s \in Stores, NEW rows, Put(s, rows)
  PROVE  rows \subseteq store'[s].mem
<1>1. StoreSet(s, store[s].mem \cup rows, store[s].disk)
  BY MemSet DEF Put
<1>2. store'[s].mem = store[s].mem \cup rows
  BY <1>1, SetShapes
<1> QED
  BY <1>2

(* A step of a handler between the transformation and the answer. *)
LEMMA GotoRows ==
  ASSUME AckInv, WriteInv, Kept, NEW w \in Write, UNCHANGED buffer, ~Transforming(w),
         NEW pc \in {"flush", "observability", "answer"}, NEW status,
         Goto(w, pc, status),
         pc # "answer" => write[w].pc \in AtWork,
         pc # "answer" \/ status = 204 => RowsStored(w, "cost")',
         pc = "answer" /\ status = 204 => RowsStored(w, "observability")'
  PROVE  AckInv'
<1>1. Becomes(w, pc, write[w].sent, write[w].rest, write[w].out, status, write[w].tries)
  BY GotoBecomes DEF WriteInv
<1>2. /\ write'[w].pc = pc /\ write'[w].sent = write[w].sent /\ write'[w].out = write[w].out
      /\ write'[w].status = status /\ write'[w].mixed = write[w].mixed
      /\ \A v \in Write \ {w} : write'[v] = write[v]
  BY <1>1 DEF Becomes
<1>3. ~Transforming(w)'
  BY <1>2 DEF Transforming
<1>4. \A s : ExpectedRows(w, s)' = ExpectedRows(w, s) /\ RowsFor(w, s)' = RowsFor(w, s)
  BY <1>2 DEF ExpectedRows, RowsFor
<1>5. \A row : Excused(w, row) => Excused(w, row)'
  BY <1>2 DEF Excused, SharedRow
<1>6. write'[w].pc \in AtWork =>
        \A s \in Stores : \A row \in ExpectedRows(w, s)' :
          row \in RowsFor(w, s)' \/ Excused(w, row)'
  BY <1>2, <1>4, <1>5 DEF AckInv, RowsInv, AtWork
<1>7. write'[w].sent \subseteq Payloads(w)
  BY <1>2 DEF AckInv, RowsInv
<1>8. RowsInv(w)'
  BY <1>2, <1>3, <1>6, <1>7 DEF RowsInv, Answered204
<1> QED
  BY <1>2, <1>3, <1>8, MoveRows

(* The rows that were stored are stored still. *)
LEMMA StoredStill ==
  ASSUME WriteInv, Kept, NEW w \in Write, NEW s \in Stores, NEW pc, NEW status,
         Goto(w, pc, status), RowsStored(w, s)
  PROVE  RowsStored(w, s)'
<1>1. Becomes(w, pc, write[w].sent, write[w].rest, write[w].out, status, write[w].tries)
  BY GotoBecomes DEF WriteInv
<1>2. ExpectedRows(w, s)' = ExpectedRows(w, s) /\ \A row : Excused(w, row) => Excused(w, row)'
  BY <1>1 DEF Becomes, ExpectedRows, Excused, SharedRow
<1> QED
  BY <1>2 DEF RowsStored, Accounted, Kept

(* The rows that are put, or none, are all that is expected of the store.  *)
LEMMA StoredNow ==
  ASSUME EndInv, AckInv, WriteInv, NEW w \in Write, NEW s \in Stores, NEW pc, NEW status,
         Goto(w, pc, status), write[w].pc \in AtWork,
         RowsFor(w, s) = {} \/ Put(s, RowsFor(w, s))
  PROVE  RowsStored(w, s)'
<1>1. Becomes(w, pc, write[w].sent, write[w].rest, write[w].out, status, write[w].tries)
  BY GotoBecomes DEF WriteInv
<1>2. ExpectedRows(w, s)' = ExpectedRows(w, s) /\ \A row : Excused(w, row) => Excused(w, row)'
  BY <1>1 DEF Becomes, ExpectedRows, Excused, SharedRow
<1>3. \A row \in ExpectedRows(w, s) : row \in RowsFor(w, s) \/ Excused(w, row)
  BY DEF AckInv, RowsInv
<1>4. \A row \in RowsFor(w, s) : row \in store'[s].mem
  BY PutHolds DEF EndInv
<1> QED
  BY <1>2, <1>3, <1>4 DEF RowsStored, Accounted

LEMMA PutCostRows ==
  ASSUME EndInv, AckInv, WriteInv, Kept, NEW w \in Write, PutCost(w)
  PROVE  AckInv'
<1>1. UNCHANGED buffer /\ write[w].pc = "cost"
  BY DEF PutCost
<1>2. ~Transforming(w) /\ write[w].pc \in AtWork
  BY <1>1 DEF Transforming, AtWork
<1>3. CASE Goto(w, "answer", 500)
  BY <1>1, <1>2, <1>3, GotoRows
<1>4. ASSUME NEW pc \in {"flush", "observability"}, Goto(w, pc, 0),
             RowsFor(w, "cost") = {} \/ Put("cost", RowsFor(w, "cost"))
      PROVE  AckInv'
  <2>1. RowsStored(w, "cost")'
    BY <1>2, <1>4, StoredNow, StoresNamed
  <2> QED
    BY <1>1, <1>2, <1>4, <2>1, GotoRows
<1> QED
  BY <1>3, <1>4 DEF PutCost

LEMMA FirstFlushRows ==
  ASSUME EndInv, AckInv, WriteInv, Kept, NEW w \in Write, FirstFlush(w)
  PROVE  AckInv'
<1>1. UNCHANGED buffer /\ write[w].pc = "flush"
  BY DEF FirstFlush
<1>2. ~Transforming(w) /\ write[w].pc \in AtWork
  BY <1>1 DEF Transforming, AtWork
<1>3. CASE Goto(w, "answer", 500)
  BY <1>1, <1>2, <1>3, GotoRows
<1>4. CASE Goto(w, "observability", 0)
  <2>1. RowsStored(w, "cost")
    BY <1>1 DEF AckInv, RowsInv
  <2>2. RowsStored(w, "cost")'
    BY <1>4, <2>1, StoredStill, StoresNamed
  <2> QED
    BY <1>1, <1>2, <1>4, <2>2, GotoRows
<1> QED
  BY <1>3, <1>4 DEF FirstFlush

LEMMA PutObservabilityRows ==
  ASSUME EndInv, AckInv, WriteInv, Kept, NEW w \in Write, PutObservability(w)
  PROVE  AckInv'
<1>1. UNCHANGED buffer /\ write[w].pc = "observability"
  BY DEF PutObservability
<1>2. ~Transforming(w) /\ write[w].pc \in AtWork
  BY <1>1 DEF Transforming, AtWork
<1>3. CASE Goto(w, "answer", 500)
  BY <1>1, <1>2, <1>3, GotoRows
<1>4. ASSUME Goto(w, "answer", 204),
             RowsFor(w, "observability") = {}
               \/ Put("observability", RowsFor(w, "observability"))
      PROVE  AckInv'
  <2>1. RowsStored(w, "cost")
    BY <1>1 DEF AckInv, RowsInv
  <2>2. RowsStored(w, "cost")'
    BY <1>4, <2>1, StoredStill, StoresNamed
  <2>3. RowsStored(w, "observability")'
    BY <1>2, <1>4, StoredNow, StoresNamed
  <2> QED
    BY <1>1, <1>2, <1>4, <2>2, <2>3, GotoRows
<1> QED
  BY <1>3, <1>4 DEF PutObservability

LEMMA AnswerRows ==
  ASSUME AckInv, WriteInv, Kept, NEW w \in Write, Answer(w)
  PROVE  AckInv'
<1>1. UNCHANGED buffer /\ write[w].pc = "answer"
  BY DEF Answer
<1>2. PICK pc \in {"new", "done"} :
        Becomes(w, pc, write[w].sent, <<>>, {}, write[w].status, write[w].tries)
  BY AnswerBecomes DEF WriteInv
<1>3. /\ write'[w].pc \in {"new", "done"} /\ write'[w].sent = write[w].sent
      /\ write'[w].status = write[w].status /\ write'[w].mixed = write[w].mixed
      /\ \A v \in Write \ {w} : write'[v] = write[v]
  BY <1>2 DEF Becomes
<1>4. ~Transforming(w) /\ ~Transforming(w)'
  BY <1>1, <1>3 DEF Transforming
<1>5. RowsInv(w)'
  BY <1>1, <1>3, RowsIdle DEF AckInv
<1> QED
  BY <1>1, <1>3, <1>4, <1>5, MoveRows

LEMMA GoneRows ==
  ASSUME AckInv, WriteInv, Kept, NEW destroyed, Gone(destroyed)
  PROVE  AckInv'
<1>1. \A w \in Write :
        /\ write'[w].pc = IF Handling(w) THEN "new" ELSE write[w].pc
        /\ write'[w].sent = write[w].sent
        /\ write'[w].status = write[w].status
        /\ write'[w].mixed = write[w].mixed
  BY GoneSets DEF WriteInv
<1>2. \A w \in Write : write'[w].pc \in {"new", "done"}
                       /\ (write'[w].pc = "done" => write[w].pc = "done")
  BY <1>1 DEF WriteInv, WriteTypes, Handling
<1>3. buffer' = {}
  BY DEF Gone
<1>4. \A w \in Write : RowsInv(w)'
  BY <1>1, <1>2, RowsIdle DEF AckInv
<1>5. BufferInv'
  BY <1>2, <1>3 DEF BufferInv, Transforming
<1> QED
  BY <1>4, <1>5 DEF AckInv

LEMMA SameRows ==
  ASSUME AckInv, Kept, UNCHANGED <<write, buffer>>
  PROVE  AckInv'
<1>1. ASSUME NEW w \in Write PROVE RowsInv(w)'
  BY <1>1, RowsKept DEF AckInv
<1>2. BufferInv'
  BY DEF AckInv, BufferInv, Transforming
<1> QED
  BY <1>1, <1>2 DEF AckInv

LEMMA NextRows ==
  ASSUME EndInv, WriteInv, AckInv, [Next]_vars
  PROVE  AckInv'
<1>0. Kept
  BY NextKept
<1>1. ASSUME NEW w \in Write, NEW p \in Payloads(w), PostMetrics(w, p) \/ ReadAllFails(w, p)
      PROVE  AckInv'
  BY <1>0, <1>1, PostRows, UnreadRows
<1>2. ASSUME NEW w \in Write, WriteStep(w) PROVE AckInv'
  BY <1>0, <1>2, TransformNextRows, TransformEndsRows, PutCostRows, FirstFlushRows,
     PutObservabilityRows, AnswerRows
  DEF WriteStep
<1>3. CASE GetHealthz \/ GetLivez \/ Tick
  BY <1>0, <1>3, ProbeFrame, SameRows
<1>4. CASE ServerReturns \/ HandleSignal \/ Restart \/ WriteMarker \/ Terminate
  BY <1>0, <1>4, SameRows DEF ServerReturns, HandleSignal, Restart, WriteMarker, Terminate
<1>5. ASSUME NEW s \in Stores, HandlerFlush(s) \/ DeferredFlush(s) PROVE AckInv'
  BY <1>0, <1>5, SameRows DEF HandlerFlush, DeferredFlush
<1>6. CASE Exit \/ ConcurrentMapWrites
  BY <1>0, <1>6, GoneRows DEF Exit, ConcurrentMapWrites
<1>7. CASE ShipperStep \/ UNCHANGED vars
  BY <1>0, <1>7, ShipperFrame, SameRows DEF vars, collectorVars
<1> QED
  BY <1>1, <1>2, <1>3, <1>4, <1>5, <1>6, <1>7
  DEF Next, CollectorNext, ExitStep, ShipperStep

(* A write that has been answered 204 has all the rows that its metrics    *)
(* make in the stores, for any number of writes in any order, with any     *)
(* payloads, filters, faults and restarts: the rows are lost only to a     *)
(* fault or to a Put behind the last flush, and the GPU memory row only    *)
(* when two writes were transformed at a time.                             *)
THEOREM AcknowledgedIsStored == Spec => []AckedStored
<1> DEFINE I == EndInv /\ WriteInv /\ AckInv
<1>1. Init => I
  <2> SUFFICES ASSUME Init PROVE I
    OBVIOUS
  <2>1. EndInv /\ WriteInv
    BY InitTypes DEF TypeInv
  <2>2. /\ write = [w \in Write |-> [pc |-> "new", sent |-> {}, rest |-> <<>>, out |-> {},
                                     status |-> 0, tries |-> 0, mixed |-> FALSE]]
        /\ buffer = {}
    BY DEF Init, CollectorInit
  <2>3. \A w \in Write : write[w].pc = "new" /\ write[w].sent = {}
    BY <2>2
  <2>4. BufferInv
    BY <2>2, <2>3 DEF BufferInv, Transforming
  <2>5. \A w \in Write : RowsInv(w)
    BY <2>3 DEF RowsInv, Transforming, AtWork, Answered204
  <2> QED
    BY <2>1, <2>4, <2>5 DEF AckInv
<1>2. I /\ [Next]_vars => I'
  BY NextEnd, NextWrites, NextRows
<1>3. I => AckedStored
  <2> SUFFICES ASSUME I PROVE AckedStored
    OBVIOUS
  <2>1. ASSUME NEW w \in Write, write[w].pc = "done" /\ write[w].status = 204, NEW s \in Stores
        PROVE  RowsStored(w, s)
    BY <2>1, StoresNamed DEF AckInv, RowsInv, Answered204
  <2> USE DEF AckedStored
  <2> TAKE w \in Write
  <2> HAVE write[w].pc = "done" /\ write[w].status = 204
  <2> TAKE s \in Stores
  <2> TAKE row \in UNION {Expected(p)[s] : p \in write[w].sent}
  <2>2. RowsStored(w, s)
    BY <2>1
  <2>3. row \in ExpectedRows(w, s)
    BY DEF ExpectedRows
  <2>4. Accounted(s, row) \/ Excused(w, row)
    BY <2>2, <2>3 DEF RowsStored
  <2> QED
    BY <2>4 DEF Accounted, Excused, SharedRow
<1> QED
  BY <1>1, <1>2, <1>3, PTL DEF Spec
=============================================================================
