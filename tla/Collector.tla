------------------------------ MODULE Collector ------------------------------
(***************************************************************************)
(* The collector process (src/app/functions/collector/main.go): remote     *)
(* writes through PutMetrics into the cost and the observability store,    *)
(* the error-rate tracker and the kubelet's probes of it, the flush at a   *)
(* signal, and the restart of the container.                               *)
(*                                                                         *)
(* A store is [mem, disk], the rows in the open file and those in finished *)
(* ones; module DiskStore models it, here only Put and Flush and the ways  *)
(* they fail are kept.  The client retries a write that failed with 5xx.   *)
(***************************************************************************)
EXTENDS ErrorRate, MetricPipeline, FiniteSets, TLC

CONSTANTS
  Write,          \* the remote writes of the client
  Payloads(_),    \* the payloads each may have: [length, contentType, garbled, samples]
  MaxPayloadSize, \* the longest body
  ProbePeriod,    \* livenessProbe.periodSeconds
  ProbeFailures,  \* livenessProbe.failureThreshold
  MaxTime,        \* bound: the clock
  MaxTries(_),    \* bound: how often the client sends a write
  MaxFaults       \* bound: failing disk operations, data races and read errors

ASSUME CollectorAssumption ==
  /\ MaxPayloadSize \in Nat /\ MaxTime \in Nat /\ MaxFaults \in Nat
  /\ ProbePeriod \in Nat \ {0} /\ ProbeFailures \in Nat \ {0}
  /\ \A w \in Write : MaxTries(w) \in Nat /\ \A p \in Payloads(w) : p.length \in Nat

(* The metrics are records; stated of what is decoded, which is a part of  *)
(* the samples, because SelectSeq is recursive.                            *)
ASSUME MetricsAssumption ==
  \A w \in Write : \A p \in Payloads(w) :
    /\ Decode(p) \in Seq(ToSet(Decode(p)))
    /\ \A m \in ToSet(Decode(p)) :
         m = [name |-> m.name, container |-> m.container, labelled |-> m.labelled,
              value |-> m.value]

VARIABLES
  now,        \* the clock
  write,      \* each write: where its handler is, and the client's view of it
  buffer,     \* memoryBuffer of the transformer
  store,      \* the two stores
  firstDone,  \* initialFlush
  tracker,    \* collectorErrorRate
  kubelet,    \* when the next liveness probe is due, and the failures in a row
  process,    \* the signal, the two goroutines that end the process, the flushed stores
  marker,     \* the incarnations that wrote the marker file
  faults,     \* how many faults have happened
  lost,       \* history: pairs of a store and a row, lost to a fault or put after the last flush
  firstBad    \* history: the first unhealthy evaluation of this incarnation, none or one

collectorVars == <<now, write, buffer, store, firstDone, tracker, kubelet, process,
                   marker, faults, lost, firstBad>>

Stores == {"cost", "observability"}

CollectorFault == faults < MaxFaults /\ faults' = faults + 1

(* A handler is at work on the write. *)
Handling(w) == write[w].pc \in {"transform", "cost", "flush", "observability", "answer"}

Serving == process.pc # "down"

(* A new process, the n-th of this container. *)
Started(n) ==
  [pc |-> "wait", main |-> "serve", signalled |-> FALSE, flushed |-> {}, incarnation |-> n]

CollectorInit ==
  /\ now = 0
  /\ write = [w \in Write |-> [pc |-> "new", sent |-> {}, rest |-> <<>>, out |-> {},
                               status |-> 0, tries |-> 0, mixed |-> FALSE]]
  /\ buffer = {}
  /\ store = [s \in Stores |-> [mem |-> {}, disk |-> {}]]
  /\ firstDone = FALSE
  /\ tracker = NewErrorRateTracker
  /\ kubelet = [due |-> ProbePeriod, failures |-> 0]
  /\ process = Started(1)
  /\ marker = {}
  /\ faults = 0
  /\ lost = {} /\ firstBad = {}

-----------------------------------------------------------------------------
(* A remote write *)

(* What PostMetrics answers before it calls PutMetrics, 0 for nothing yet. *)
EarlyAnswer(payload) ==
  IF payload.length = 0 \/ payload.length > MaxPayloadSize THEN 200
  ELSE IF Undecodable(payload) THEN 500 ELSE 0

(* Somebody else's metrics are on their way through the shared buffer. *)
Transforming(w) == write[w].pc = "transform"

(* The client sends a write, for the first time or again. *)
Sends(w, payload) ==
  /\ write[w].pc = "new" /\ write[w].tries < MaxTries(w)
  /\ write[w].sent \subseteq {payload}
  /\ Serving /\ process.main = "serve"

PostMetrics(w, payload) ==
  /\ Sends(w, payload)
  /\ LET others == {v \in Write \ {w} : Transforming(v)}
         early == EarlyAnswer(payload)
         transforms == early = 0 /\ Decode(payload) # <<>>
     IN  write' = [v \in Write |->
           IF v = w
           THEN [pc |-> IF early # 0 THEN "answer" ELSE IF transforms THEN "transform" ELSE "cost",
                 sent |-> {payload},
                 rest |-> IF early = 0 THEN Decode(payload) ELSE <<>>, out |-> {},
                 status |-> early, tries |-> write[w].tries + 1,
                 mixed |-> transforms /\ others # {}]
           ELSE [write[v] EXCEPT !.mixed = @ \/ (transforms /\ v \in others)]]
  /\ UNCHANGED <<now, buffer, store, firstDone, tracker, kubelet, process, marker, faults,
                 lost, firstBad>>

(* The body cannot be read: 400, which the client does not retry. *)
ReadAllFails(w, payload) ==
  /\ Sends(w, payload)
  /\ payload.length \in 1..MaxPayloadSize
  /\ CollectorFault
  /\ write' = [write EXCEPT ![w].pc = "answer", ![w].sent = {payload}, ![w].status = 400,
                            ![w].tries = @ + 1]
  /\ UNCHANGED <<now, buffer, store, firstDone, tracker, kubelet, process, marker, lost, firstBad>>

(* Transform takes the metrics one by one. *)
TransformNext(w) ==
  /\ Transforming(w) /\ write[w].rest # <<>>
  /\ LET metric == Head(write[w].rest) IN
     /\ write' = [write EXCEPT ![w].rest = Tail(@),
                               ![w].out = @ \cup ToSet(transformSingle(metric))]
     /\ buffer' = IF Buffered(metric) THEN bufferMemoryMetric(buffer, metric) ELSE buffer
  /\ UNCHANGED <<now, store, firstDone, tracker, kubelet, process, marker, faults, lost, firstBad>>

(* and then empties the buffer, whoever has filled it. *)
TransformEnds(w) ==
  /\ Transforming(w) /\ write[w].rest = <<>>
  /\ write' = [write EXCEPT ![w].pc = "cost", ![w].out = @ \cup flushMemory(buffer)]
  /\ buffer' = {}
  /\ UNCHANGED <<now, store, firstDone, tracker, kubelet, process, marker, faults, lost, firstBad>>

Pairs(s, rows) == {s} \X rows

(* Put of a store: the rows are in memory. *)
Put(s, rows) ==
  /\ store' = [store EXCEPT ![s].mem = @ \cup rows]
  /\ lost' = IF s \in process.flushed THEN lost \cup Pairs(s, rows) ELSE lost \ Pairs(s, rows)

(* Put returns an error: no file is open and none can be opened, or the    *)
(* flush at the row limit has lost the open file, or only the next file    *)
(* could not be opened.                                                    *)
PutFails(s, rows) ==
  /\ CollectorFault
  /\ \/ store[s].mem = {} /\ UNCHANGED <<store, lost>>
     \/ /\ store' = [store EXCEPT ![s].mem = {}]
        /\ lost' = lost \cup Pairs(s, store[s].mem)
     \/ /\ store' = [store EXCEPT ![s] = [mem |-> {}, disk |-> @.disk \cup @.mem \cup rows]]
        /\ lost' = lost \ Pairs(s, rows)

FlushStore(s) ==
  /\ store' = [store EXCEPT ![s] = [mem |-> {}, disk |-> @.disk \cup @.mem]]
  /\ UNCHANGED lost

(* Flush returns an error: the open file is lost, or the next not opened. *)
FlushStoreFails(s) ==
  /\ CollectorFault
  /\ \/ FlushStore(s)
     \/ /\ store' = [store EXCEPT ![s].mem = {}]
        /\ lost' = lost \cup Pairs(s, store[s].mem)

Goto(w, pc, status) == write' = [write EXCEPT ![w].pc = pc, ![w].status = status]

(* The filtered rows of a write for one store; none is no Put. *)
RowsFor(w, s) == Filter(write[w].out)[s]

(* Mutant of PutCost: the error of the store is not returned. *)
MutPutCost(w) ==
  /\ write[w].pc = "cost"
  /\ LET rows == RowsFor(w, "cost")
         after == IF rows # {} /\ ~firstDone THEN "flush" ELSE "observability"
     IN  \/ rows = {} /\ Goto(w, after, 0) /\ UNCHANGED <<store, lost, faults>>
         \/ rows # {} /\ Put("cost", rows) /\ Goto(w, after, 0) /\ UNCHANGED faults
         \/ rows # {} /\ PutFails("cost", rows) /\ Goto(w, after, 0)
  /\ UNCHANGED <<now, buffer, firstDone, tracker, kubelet, process, marker, firstBad>>

(* The cost rows, and the test of initialFlush. *)
PutCost(w) ==
  /\ write[w].pc = "cost"
  /\ LET rows == RowsFor(w, "cost")
         after == IF rows # {} /\ ~firstDone THEN "flush" ELSE "observability"
     IN  \/ rows = {} /\ Goto(w, after, 0) /\ UNCHANGED <<store, lost, faults>>
         \/ rows # {} /\ Put("cost", rows) /\ Goto(w, after, 0) /\ UNCHANGED faults
         \/ rows # {} /\ PutFails("cost", rows) /\ Goto(w, "answer", 500)
  /\ UNCHANGED <<now, buffer, firstDone, tracker, kubelet, process, marker, firstBad>>

(* Two writes may both have found initialFlush unset. *)
FirstFlush(w) ==
  /\ write[w].pc = "flush"
  /\ firstDone' = TRUE
  /\ \/ FlushStore("cost") /\ Goto(w, "observability", 0) /\ UNCHANGED faults
     \/ FlushStoreFails("cost") /\ Goto(w, "answer", 500)
  /\ UNCHANGED <<now, buffer, tracker, kubelet, process, marker, firstBad>>

(* The observability rows; when this fails the cost rows stay stored. *)
PutObservability(w) ==
  /\ write[w].pc = "observability"
  /\ LET rows == RowsFor(w, "observability")
     IN  \/ rows = {} /\ Goto(w, "answer", 204) /\ UNCHANGED <<store, lost, faults>>
         \/ rows # {} /\ Put("observability", rows) /\ Goto(w, "answer", 204) /\ UNCHANGED faults
         \/ rows # {} /\ PutFails("observability", rows) /\ Goto(w, "answer", 500)
  /\ UNCHANGED <<now, buffer, firstDone, tracker, kubelet, process, marker, firstBad>>

(* The answer reaches the client, and the middleware records it; the       *)
(* client sends a write again after a 5xx.                                 *)
Answer(w) ==
  /\ write[w].pc = "answer"
  /\ tracker' = Record(tracker, now, write[w].status)
  /\ write' = [write EXCEPT ![w].pc = IF isFailureStatus(write[w].status) THEN "new" ELSE "done",
                            ![w].rest = <<>>, ![w].out = {}]
  /\ UNCHANGED <<now, buffer, store, firstDone, kubelet, process, marker, faults, lost, firstBad>>
-----------------------------------------------------------------------------
(* The probes *)

(* A container that has been told to stop is not probed any more. *)
Probed == Serving /\ ~process.signalled
Idle == [due |-> 0, failures |-> 0]

(* An evaluation of the tracker, by either probe. *)
Evaluate ==
  /\ tracker' = evaluateLocked(tracker, now)
  /\ firstBad' = IF firstBad = {} /\ ~Healthy(tracker, now) THEN {now} ELSE firstBad

(* The readiness probe may come at any time. *)
GetHealthz ==
  /\ Probed
  /\ Evaluate
  /\ UNCHANGED <<now, write, buffer, store, firstDone, kubelet, process, marker, faults, lost>>

(* The liveness probe; the kubelet (external) ends the container after     *)
(* ProbeFailures failures in a row.                                        *)
GetLivez ==
  /\ Probed
  /\ kubelet.due = now
  /\ Evaluate
  /\ LET failures == IF HealthyWithinCooldown(tracker, now) THEN 0 ELSE kubelet.failures + 1 IN
     IF failures < ProbeFailures
     THEN kubelet' = [due |-> now + ProbePeriod, failures |-> failures] /\ UNCHANGED process
     ELSE kubelet' = Idle /\ process' = [process EXCEPT !.signalled = TRUE]
  /\ UNCHANGED <<now, write, buffer, store, firstDone, marker, faults, lost>>

(* Time passes, and the kubelet's probe is not late.  Only the probes read *)
(* the clock: it stands still when there are none.                         *)
Tick ==
  /\ now < MaxTime
  /\ Probed /\ now < kubelet.due
  /\ now' = now + 1
  /\ UNCHANGED <<write, buffer, store, firstDone, tracker, kubelet, process, marker, faults,
                 lost, firstBad>>
-----------------------------------------------------------------------------
(* The end of the process *)

FlushAtExit(s) ==
  \/ FlushStore(s) /\ UNCHANGED faults
  \/ FlushStoreFails(s)

NextStep(pc) == CASE pc = "wait" -> "cost" [] pc = "cost" -> "observability"
                  [] pc = "observability" -> "marker" [] pc = "marker" -> "exit"

(* HandleShutdownEvents: each store is flushed, and errors are ignored;    *)
(* the server still answers.                                               *)
HandleSignal ==
  /\ process.pc = "wait" /\ process.signalled
  /\ process' = [process EXCEPT !.pc = NextStep("wait")]
  /\ UNCHANGED <<now, write, buffer, store, firstDone, tracker, kubelet, marker, faults,
                 lost, firstBad>>

(* Mutant of HandlerFlush: the marker is written before the last store is flushed. *)
MutHandlerFlush(s) ==
  /\ process.pc = s
  /\ FlushAtExit(s)
  /\ process' = [process EXCEPT !.pc = NextStep(s), !.flushed = @ \cup {s}]
  /\ marker' = marker \cup {process.incarnation}
  /\ UNCHANGED <<now, write, buffer, firstDone, tracker, kubelet, firstBad>>

HandlerFlush(s) ==
  /\ process.pc = s
  /\ FlushAtExit(s)
  /\ process' = [process EXCEPT !.pc = NextStep(s), !.flushed = @ \cup {s}]
  /\ UNCHANGED <<now, write, buffer, firstDone, tracker, kubelet, marker, firstBad>>

WriteMarker ==
  /\ process.pc = "marker"
  /\ \/ marker' = marker \cup {process.incarnation} /\ UNCHANGED faults
     \/ CollectorFault /\ UNCHANGED marker
  /\ process' = [process EXCEPT !.pc = NextStep("marker")]
  /\ UNCHANGED <<now, write, buffer, store, firstDone, tracker, kubelet, lost, firstBad>>

(* The server (external) may stop at the signal as well, with its handlers *)
(* at work; the deferred calls of main flush the stores once more.         *)
ServerReturns ==
  /\ Serving /\ process.signalled /\ process.main = "serve"
  /\ process' = [process EXCEPT !.main = "observability"]
  /\ UNCHANGED <<now, write, buffer, store, firstDone, tracker, kubelet, marker, faults,
                 lost, firstBad>>

DeferredFlush(s) ==
  /\ Serving /\ process.main = s
  /\ FlushAtExit(s)
  /\ process' = [process EXCEPT !.main = IF s = "observability" THEN "cost" ELSE "exit",
                                !.flushed = @ \cup {s}]
  /\ UNCHANGED <<now, write, buffer, firstDone, tracker, kubelet, marker, firstBad>>

(* The process is gone, and what it had in memory; a write in flight fails *)
(* at the client, which sends it again.                                    *)
Gone(destroyed) ==
  /\ process' = [process EXCEPT !.pc = "down", !.main = "down", !.flushed = {}]
  /\ write' = [w \in Write |-> IF Handling(w)
                               THEN [write[w] EXCEPT !.pc = "new", !.rest = <<>>, !.out = {}]
                               ELSE write[w]]
  /\ buffer' = {}
  /\ store' = [s \in Stores |-> [store[s] EXCEPT !.mem = {}]]
  /\ lost' = lost \cup destroyed
  /\ firstDone' = FALSE
  /\ tracker' = NewErrorRateTracker
  /\ firstBad' = {}
  /\ UNCHANGED <<now, kubelet, marker>>

Exit ==
  /\ Serving
  /\ process.pc = "exit" \/ process.main = "exit"
  /\ Gone({})
  /\ UNCHANGED faults

(* Two handlers write the map of the transformer at once, and the runtime  *)
(* ends the process.                                                       *)
ConcurrentMapWrites ==
  /\ Serving
  /\ Cardinality({w \in Write : Transforming(w)}) > 1
  /\ CollectorFault
  /\ Gone(UNION {Pairs(s, store[s].mem) : s \in Stores})

(* The kubelet starts the container again, on the same volume. *)
Restart ==
  /\ ~Serving
  /\ process' = Started(process.incarnation + 1)
  /\ kubelet' = [due |-> now + ProbePeriod, failures |-> 0]
  /\ UNCHANGED <<now, write, buffer, store, firstDone, tracker, marker, faults, lost, firstBad>>

-----------------------------------------------------------------------------
WriteStep(w) ==
  \/ TransformNext(w) \/ TransformEnds(w)
  \/ PutCost(w) \/ FirstFlush(w) \/ PutObservability(w) \/ Answer(w)

ExitStep ==
  \/ HandleSignal \/ (\E s \in Stores : HandlerFlush(s)) \/ WriteMarker
  \/ (\E s \in Stores : DeferredFlush(s)) \/ Exit

CollectorNext ==
  \/ \E w \in Write : \E p \in Payloads(w) : PostMetrics(w, p) \/ ReadAllFails(w, p)
  \/ \E w \in Write : WriteStep(w)
  \/ GetHealthz \/ GetLivez \/ Tick
  \/ ServerReturns \/ ExitStep \/ ConcurrentMapWrites

-----------------------------------------------------------------------------
(* Properties *)

(* The values the state takes; no event of the tracker is of the future. *)
CollectorTypeOK ==
  /\ now \in 0..MaxTime /\ faults \in 0..MaxFaults
  /\ firstDone \in BOOLEAN
  /\ process.pc \in Stores \cup {"wait", "marker", "exit", "down"}
  /\ process.main \in Stores \cup {"serve", "exit", "down"}
  /\ process.signalled \in BOOLEAN /\ process.flushed \subseteq Stores
  /\ marker \subseteq 1..process.incarnation
  /\ kubelet.due \in Nat /\ kubelet.failures \in 0..ProbeFailures
  /\ tracker.last \subseteq 0..now
  /\ \A e \in ToSet(tracker.events) : e.at \in 0..now /\ e.failure \in BOOLEAN
  /\ \A w \in Write :
       /\ write[w].pc \in {"new", "transform", "cost", "flush", "observability",
                           "answer", "done"}
       /\ write[w].tries \in 0..MaxTries(w)
       /\ write[w].status \in {0, 200, 204, 400, 500}
       /\ write[w].mixed \in BOOLEAN

(* Of the metrics for the buffer the last one of each name and container.  *)
LastBuffered(metrics) ==
  {metrics[i] : i \in {i \in DOMAIN metrics :
     /\ Buffered(metrics[i])
     /\ \A j \in DOMAIN metrics :
          j > i /\ Buffered(metrics[j]) =>
            \/ metrics[j].name # metrics[i].name
            \/ metrics[j].container # metrics[i].container}}

(* The rows a write makes when it has the transformer for itself. *)
Singles(metrics) == UNION {ToSet(transformSingle(metrics[i])) : i \in DOMAIN metrics}
Expected(payload) ==
  Filter(Singles(Decode(payload)) \cup flushMemory(LastBuffered(Decode(payload))))

(* A write answered 204 has all its rows in the stores: in memory, or on   *)
(* disk when the process has ended, whatever the order of signal, flushes, *)
(* second flush by main, exit and restart.  Rows are lost only to a fault  *)
(* or when they were put after the flush of their store at the end, and    *)
(* the GPU memory row when two transformations met in the shared buffer.   *)
AckedStored ==
  \A w \in Write : write[w].pc = "done" /\ write[w].status = 204 =>
    \A s \in Stores : \A row \in UNION {Expected(p)[s] : p \in write[w].sent} :
      \/ row \in store[s].mem \cup store[s].disk
      \/ <<s, row>> \in lost
      \/ write[w].mixed /\ row.name = standardGPUMemoryUsage

(* Once a probe has found the error rate too high, the kubelet ends the    *)
(* container within ProbePeriod * ProbeFailures, though the traffic stops  *)
(* and the window empties: the latch of /livez holds long enough for all   *)
(* the failures in a row, also for the one at the very end of the cooldown.*)
RestartFollows ==
  Probed =>
    \A b \in firstBad : now <= b + ProbePeriod * ProbeFailures
=============================================================================
