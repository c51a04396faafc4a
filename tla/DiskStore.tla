------------------------------ MODULE DiskStore ------------------------------
(***************************************************************************)
(* The collector's on-disk metric store (src/app/storage/disk/disk.go) and *)
(* the Prometheus remote-write clients that feed it.                       *)
(*                                                                         *)
(* Rows are appended to one hidden "active" file.  When enough rows have   *)
(* accumulated, or when the ticker fires, the file is sealed (JSON array   *)
(* closed, compressor and file closed) and renamed to                      *)
(* <content>_<start>_<stop>.json.br, which makes it visible to the shipper,*)
(* and a new active file is opened.  Put and Flush run under the mutex     *)
(* d.mu; the file system and the process may fail between the steps.       *)
(*                                                                         *)
(* A client keeps sending a batch until one of its deliveries is answered  *)
(* with success.  It may give up waiting and send again while the server   *)
(* still works on the earlier delivery.                                    *)
(***************************************************************************)
EXTENDS Naturals, FiniteSets

CONSTANTS
  Batch,      \* the remote-write payloads
  Size,       \* Size[b]: the number of rows of payload b
  RowLimit,   \* rowLimit: the row count at which Put itself flushes
  MaxClock,   \* bound: the millisecond clock stops here
  MaxFaults   \* bound: I/O errors, crashes and client timeouts of a behaviour

ASSUME DiskStoreAssumption ==
  /\ Size \in [Batch -> Nat \ {0}]
  /\ RowLimit \in Nat \ {0}
  /\ MaxClock \in Nat
  /\ MaxFaults \in Nat

VARIABLES
  \* the store's memory and files
  up,          \* the collector process is running
  clock,       \* timestamp.Milli()
  writerOpen,  \* d.writer # nil
  rowCount,    \* d.rowCount
  startTime,   \* d.startTime
  active,      \* the deliveries whose rows are in the active file
  sealed,      \* the active file is a finished, closed JSON array
  step,        \* where the holder of d.mu is; "free" when nobody holds it
  serving,     \* the delivery whose Put holds d.mu (empty for a Flush)
  files,       \* the visible files: [start, stop, rows, sealed]
  \* the clients and their connections
  client,      \* what the client of each batch knows
  attempt,     \* how often each batch has been sent
  inflight,    \* the deliveries waiting for d.mu
  replies,     \* the answers not yet read by a client
  \* accounting
  faults,      \* how many faults have happened
  destroyed    \* history: batches whose acknowledged rows a fault destroyed

storeVars  == <<writerOpen, rowCount, startTime, active, sealed>>
clientVars == <<client, attempt>>
vars == <<up, clock, storeVars, step, serving, files, clientVars, inflight,
          replies, faults, destroyed>>

(* The n-th time batch b was sent. *)
Delivery == Batch \X (Nat \ {0})

VisibleFile ==
  [start: Nat, stop: Nat, rows: SUBSET Delivery, sealed: BOOLEAN]

(* The answer of the handler that served delivery d. *)
Reply == [d: Delivery, ok: BOOLEAN]

TypeOK ==
  /\ up \in BOOLEAN
  /\ clock \in Nat
  /\ writerOpen \in BOOLEAN
  /\ rowCount \in Nat
  /\ startTime \in Nat
  /\ active \in SUBSET Delivery
  /\ sealed \in BOOLEAN
  /\ step \in {"free", "seal", "rename", "reopen"}
  /\ serving \in SUBSET Delivery
  /\ files \in SUBSET VisibleFile
  /\ client \in [Batch -> {"idle", "waiting", "acked"}]
  /\ attempt \in [Batch -> Nat]
  /\ inflight \in SUBSET Delivery
  /\ replies \in SUBSET Reply
  /\ faults \in Nat
  /\ destroyed \in SUBSET Batch

Init ==
  /\ up = TRUE
  /\ clock = 0
  /\ writerOpen = TRUE
  /\ rowCount = 0
  /\ startTime = 0
  /\ active = {}
  /\ sealed = FALSE
  /\ step = "free"
  /\ serving = {}
  /\ files = {}
  /\ client = [b \in Batch |-> "idle"]
  /\ attempt = [b \in Batch |-> 0]
  /\ inflight = {}
  /\ replies = {}
  /\ faults = 0
  /\ destroyed = {}

-----------------------------------------------------------------------------
(* Helpers *)

(* A fault happens, within the bound. *)
Fault == faults < MaxFaults /\ faults' = faults + 1

(* The client of d[1] still waits for the answer to delivery d. *)
Awaited(d) == client[d[1]] = "waiting" /\ d[2] = attempt[d[1]]

(* The batch is acknowledged, or its acknowledgement is on its way. *)
Acknowledged(b) ==
  \/ client[b] = "acked"
  \/ \E r \in replies : r.ok /\ Awaited(r.d) /\ r.d[1] = b

(* The rows of the deliveries in S are no longer on any disk. *)
Destroy(S) ==
  destroyed' = destroyed \cup {b \in Batch : Acknowledged(b) /\ \E d \in S : d[1] = b}

(* Mutant of Answer: the error of a failed flush is swallowed. *)
MutAnswerSwallowsError(ok) ==
  /\ replies' = replies \cup {[d |-> d, ok |-> TRUE] : d \in serving}
  /\ serving' = {}
  /\ step' = "free"

(* The handler of the delivery being served (if any) answers and d.mu is    *)
(* unlocked.                                                                *)
Answer(ok) ==
  /\ replies' = replies \cup {[d |-> d, ok |-> ok] : d \in serving}
  /\ serving' = {}
  /\ step' = "free"

(* The writer state after a successful newFileWriter. *)
FreshWriter ==
  /\ writerOpen' = TRUE
  /\ rowCount' = 0
  /\ startTime' = clock
  /\ active' = {}
  /\ sealed' = FALSE

(* Mutants of NoWriter: the surplus over the limit is carried over; the     *)
(* buffer is kept; the count is not reset.                                  *)
MutNoWriterCarriesSurplus ==
  /\ writerOpen' = FALSE
  /\ rowCount' = rowCount - RowLimit
  /\ active' = {}
  /\ sealed' = FALSE
  /\ UNCHANGED startTime

MutNoWriterKeepsBuffer ==
  /\ writerOpen' = FALSE
  /\ rowCount' = 0
  /\ sealed' = FALSE
  /\ UNCHANGED <<startTime, active>>

MutNoWriterKeepsCount ==
  /\ writerOpen' = FALSE
  /\ active' = {}
  /\ sealed' = FALSE
  /\ UNCHANGED <<startTime, rowCount>>

(* The writer state after flushUnlocked, successful or not: everything nil. *)
NoWriter ==
  /\ writerOpen' = FALSE
  /\ rowCount' = 0
  /\ active' = {}
  /\ sealed' = FALSE
  /\ UNCHANGED startTime

-----------------------------------------------------------------------------
(* The clients (Prometheus, external) *)

Send(b) ==
  /\ up
  /\ client[b] = "idle"
  /\ client' = [client EXCEPT ![b] = "waiting"]
  /\ attempt' = [attempt EXCEPT ![b] = @ + 1]
  /\ inflight' = inflight \cup {<<b, attempt[b] + 1>>}
  /\ UNCHANGED <<up, clock, storeVars, step, serving, files, replies, faults, destroyed>>

(* The client stops waiting; the server goes on with the delivery. *)
GiveUp(b) ==
  /\ client[b] = "waiting"
  /\ Fault
  /\ client' = [client EXCEPT ![b] = "idle"]
  /\ UNCHANGED <<up, clock, storeVars, step, serving, files, attempt, inflight,
                 replies, destroyed>>

(* An answer arrives; the client ignores it unless it still waits for it. *)
Receive(r) ==
  /\ r \in replies
  /\ replies' = replies \ {r}
  /\ client' = [client EXCEPT ![r.d[1]] =
                  IF ~Awaited(r.d) THEN @ ELSE IF r.ok THEN "acked" ELSE "idle"]
  /\ UNCHANGED <<up, clock, storeVars, step, serving, files, attempt, inflight,
                 faults, destroyed>>

-----------------------------------------------------------------------------
(* Put *)

(* The row count with the rows of delivery d; a reopened writer counts from *)
(* zero.  The mutant loses the rows that reopen the writer.                 *)
MutCounted(d) == IF writerOpen THEN rowCount + Size[d[1]] ELSE 0

Counted(d) == (IF writerOpen THEN rowCount ELSE 0) + Size[d[1]]

(* The row limit is reached.  The mutant flushes one row too late. *)
MutFull(rows) == rows > RowLimit

Full(rows) == rows >= RowLimit

(* Put locks d.mu, reopens a writer that a failed flush left nil, appends   *)
(* the rows, and either returns or, at the row limit, goes on to flush.     *)
Put(d) ==
  /\ up /\ step = "free" /\ d \in inflight
  /\ inflight' = inflight \ {d}
  /\ writerOpen' = TRUE
  /\ rowCount' = Counted(d)
  /\ startTime' = IF writerOpen THEN startTime ELSE clock
  /\ active' = (IF writerOpen THEN active ELSE {}) \cup {d}
  /\ sealed' = FALSE
  /\ \/ /\ ~Full(rowCount')
        /\ replies' = replies \cup {[d |-> d, ok |-> TRUE]}
        /\ UNCHANGED <<step, serving>>
     \/ /\ Full(rowCount')
        /\ step' = "seal"
        /\ serving' = {d}
        /\ UNCHANGED replies
  /\ UNCHANGED <<up, clock, files, clientVars, faults, destroyed>>

(* Put cannot reopen the writer: the rows are refused. *)
PutRecoverFails(d) ==
  /\ up /\ step = "free" /\ d \in inflight
  /\ ~writerOpen
  /\ Fault
  /\ inflight' = inflight \ {d}
  /\ replies' = replies \cup {[d |-> d, ok |-> FALSE]}
  /\ UNCHANGED <<up, clock, storeVars, step, serving, files, clientVars, destroyed>>

-----------------------------------------------------------------------------
(* Flush, and the flush at the end of Put *)

(* The ticker goroutine (or the collector's first flush, or shutdown) calls *)
(* Flush; it does nothing unless rows are counted.                          *)
FlushLock ==
  /\ up /\ step = "free"
  /\ rowCount > 0
  /\ step' = "seal"
  /\ serving' = {}
  /\ UNCHANGED <<up, clock, storeVars, files, clientVars, inflight, replies,
                 faults, destroyed>>

(* arrayState.End, writer.Flush, compressor.Close, file.Close. *)
Seal ==
  /\ up /\ step = "seal"
  /\ sealed' = TRUE
  /\ step' = "rename"
  /\ UNCHANGED <<up, clock, writerOpen, rowCount, startTime, active, serving,
                 files, clientVars, inflight, replies, faults, destroyed>>

(* The rename replaces a visible file that has the same two timestamps.     *)
Rename ==
  LET new  == [start |-> startTime, stop |-> clock, rows |-> active, sealed |-> sealed]
      same == {g \in files : g.start = startTime /\ g.stop = clock}
  IN
  /\ up /\ step = "rename"
  /\ files' = (files \ same) \cup {new}
  /\ Destroy(UNION {g.rows : g \in same})
  /\ NoWriter
  /\ step' = "reopen"
  /\ UNCHANGED <<up, clock, serving, clientVars, inflight, replies, faults>>

(* Sealing or renaming fails: the active file is removed and its rows with  *)
(* it; the caller gets the error.                                           *)
Abandon ==
  /\ up /\ step \in {"seal", "rename"}
  /\ Fault
  /\ Destroy(active)
  /\ NoWriter
  /\ Answer(FALSE)
  /\ UNCHANGED <<up, clock, files, clientVars, inflight>>

(* newFileWriter after a successful flush, and the answer to the caller. *)
Reopen ==
  /\ up /\ step = "reopen"
  /\ FreshWriter
  /\ Answer(TRUE)
  /\ UNCHANGED <<up, clock, files, clientVars, inflight, faults, destroyed>>

(* Mutant of ReopenFails: the handler never answers. *)
MutReopenFailsSilently ==
  /\ up /\ step = "reopen"
  /\ Fault
  /\ serving' = {}
  /\ step' = "free"
  /\ UNCHANGED <<up, clock, storeVars, files, clientVars, inflight, replies, destroyed>>

(* newFileWriter fails: the rows are safe in the visible file, yet the      *)
(* caller gets an error.                                                    *)
ReopenFails ==
  /\ up /\ step = "reopen"
  /\ Fault
  /\ Answer(FALSE)
  /\ UNCHANGED <<up, clock, storeVars, files, clientVars, inflight, destroyed>>

-----------------------------------------------------------------------------
(* The environment *)

Tick ==
  /\ clock < MaxClock
  /\ clock' = clock + 1
  /\ UNCHANGED <<up, storeVars, step, serving, files, clientVars, inflight,
                 replies, faults, destroyed>>

(* The process dies.  The active file stays behind under a name no glob     *)
(* matches, which is as good as gone; connections break.                    *)
Crash ==
  /\ up
  /\ Fault
  /\ up' = FALSE
  /\ Destroy(active)
  /\ NoWriter
  /\ step' = "free"
  /\ serving' = {}
  /\ inflight' = {}
  /\ replies' = {}
  /\ client' = [b \in Batch |-> IF client[b] = "waiting" THEN "idle" ELSE client[b]]
  /\ UNCHANGED <<clock, files, attempt>>

(* NewDiskStore on the same volume. *)
Restart ==
  /\ ~up
  /\ up' = TRUE
  /\ FreshWriter
  /\ UNCHANGED <<clock, step, serving, files, clientVars, inflight, replies,
                 faults, destroyed>>

-----------------------------------------------------------------------------
FlushStep == Seal \/ Rename \/ Abandon \/ Reopen \/ ReopenFails

Next ==
  \/ \E b \in Batch : Send(b) \/ GiveUp(b)
  \/ \E r \in replies : Receive(r)
  \/ \E d \in inflight : Put(d) \/ PutRecoverFails(d)
  \/ FlushLock
  \/ FlushStep
  \/ Tick
  \/ Crash
  \/ Restart

(* Clients retry, handlers and the ticker goroutine run, a crashed container*)
(* is restarted.  Faults, and the clock, are under no obligation.           *)
Fairness ==
  /\ \A b \in Batch : WF_vars(Send(b))
  /\ WF_vars(\E r \in replies : Receive(r))
  /\ WF_vars(\E d \in inflight : Put(d))
  /\ WF_vars(FlushLock)
  /\ WF_vars(FlushStep)
  /\ WF_vars(Restart)

Spec == Init /\ [][Next]_vars /\ Fairness

-----------------------------------------------------------------------------
(* Properties *)

OnDisk == active \cup UNION {g.rows : g \in files}

Kept(b) == b \in destroyed \/ \E d \in OnDisk : d[1] = b

(* No acknowledgement without the rows: a batch the collector has answered *)
(* with success is in the active file or in a visible file, unless a fault *)
(* (crash, failed flush, equal file name) destroyed it after the answer.   *)
(* Guards the error paths of Put and flushUnlocked: none may answer with   *)
(* success, or drop a buffer that was not renamed, on its own.             *)
AckedKept == \A b \in Batch : client[b] = "acked" => Kept(b)

(* One delivery, one copy: flushing hands the buffer over, it does not copy *)
(* it, so whatever duplicates CloudZero receives come from a second         *)
(* delivery, never from a store that wrote the rows into two files.         *)
DeliveredOnce ==
  /\ \A g, h \in files : g # h => g.rows \cap h.rows = {}
  /\ \A g \in files : g.rows \cap active = {}
  /\ inflight \cap OnDisk = {}

(* The rows of the deliveries in S, and their number. *)
RowsOf(S) == UNION {{d} \X (1..Size[d[1]]) : d \in S}

Rows(S) == Cardinality(RowsOf(S))

(* rowCount, on which Put and Flush decide, counts exactly the rows of the  *)
(* active file, so that no row can sit in a file that Flush takes for empty.*)
RowCountExact == rowCount = Rows(active)

(* The row limit: whatever the order of Put, ticker and failures, a visible *)
(* file exceeds the limit by less than its last payload, is never empty,    *)
(* and is a closed JSON array.                                              *)
FileWellFormed ==
  \A g \in files :
    /\ g.sealed
    /\ g.start <= g.stop
    /\ \E d \in g.rows : Rows(g.rows \ {d}) < RowLimit

(* Recovery: however the faults fall, every batch is acknowledged at last   *)
(* (a failed flush leaves a store that the next Put can use).               *)
EventuallyAcked == \A b \in Batch : <>(client[b] = "acked")

(* Rows do not stay in the hidden file: it is emptied again and again, into *)
(* a visible file or by a fault, even when no further Put arrives.          *)
BufferDrains == []<>(active = {})

(* disk.go:236 "Data in the current buffer is lost, but Prometheus will     *)
(* retry": a failed flush loses only rows whose client has no success yet.  *)
LostRowsAreRetried == [][Abandon => destroyed' = destroyed]_vars

=============================================================================
