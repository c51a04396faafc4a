----------------------------- MODULE Regurgitator -----------------------------
(***************************************************************************)
(* The regurgitator (src/app/functions/regurgitator, src/app/domain/       *)
(* metricio) transcodes metrics: files are read in parallel, or remote-    *)
(* write requests are received, into one channel; FanOut copies every      *)
(* metric to the channel of every output; the writers of an output take    *)
(* from its channel and write to a file or, in batches and with retries,   *)
(* to a remote-write URL.  A first signal asks for a graceful shutdown,    *)
(* five seconds or a second signal cancel everything.                      *)
(*                                                                         *)
(* A metric is its number.  Each channel operation and each write is a     *)
(* step.                                                                   *)
(***************************************************************************)
EXTENDS Naturals, Sequences, FiniteSets, SequencesExt

CONSTANTS
  Transcodings,   \* the invocations
  Readers,        \* --readers: files read at the same time
  ChannelBuffer,  \* the capacity of each channel
  BatchSize,      \* of the JSON reader and of the remote writer
  MaxFlushes,     \* attempts of one flush
  MaxWriteFaults  \* bound: writes that fail

ASSUME RegurgitatorAssumption ==
  /\ Readers \in Nat \ {0} /\ ChannelBuffer \in Nat \ {0} /\ BatchSize \in Nat \ {0}
  /\ MaxFlushes \in Nat \ {0} /\ MaxWriteFaults \in Nat

VARIABLES
  job,       \* the invocation
  run,       \* the main goroutine, and the first error of a reader
  signal,    \* "none", "shutdown" and then "forced"
  reader,    \* the file readers, or the handlers of requests
  input,     \* inputCh
  fan,       \* FanOut: the metric it holds and the output it is sent to next
  output,    \* the channels of the outputs
  writer,    \* the writers of each output
  sink,      \* what each output has got
  writeFaults

regurgitatorVars == <<job, run, signal, reader, input, fan, output, writer, sink, writeFaults>>

-----------------------------------------------------------------------------
(* Inputs *)

IsSupportedFile(file) == file.format \in {"csv", "parquet", "json"}

(* A file, a directory, or nothing: [kind, files]. *)
expandInputs(in, recursive) ==
  IF \E i \in DOMAIN in : in[i].kind = "missing" \/ (in[i].kind = "dir" /\ ~recursive)
  THEN [files |-> <<>>, error |-> TRUE]
  ELSE [files |-> FoldLeft(LAMBDA fs, i :
                    fs \o (IF i.kind = "dir" THEN SelectSeq(i.files, IsSupportedFile) ELSE i.files),
                    <<>>, in),
        error |-> FALSE]

(* What reading a source gives: the metrics that are passed on, and how it *)
(* ends -- "never" is a loop, "panic" the end of the process.              *)
Unread == [rows |-> <<>>, end |-> "error"]

(* A row is "good", or "bad" when it cannot be decoded; a "short" row of a *)
(* CSV file has its labels but not a column that comes after them.         *)
Good(row) == row.is = "good"
AllGood(rows) == \A i \in DOMAIN rows : Good(rows[i])

(* The rows before the first one that is as given. *)
Before(rows, is) ==
  LET first == SelectInSeq(rows, LAMBDA row : row.is = is)
  IN  IF first = 0 THEN rows ELSE SubSeq(rows, 1, first - 1)
WholeBatches(rows) == SubSeq(rows, 1, (Len(rows) \div BatchSize) * BatchSize)

(* A CSV row that does not parse is skipped, and a file without its three  *)
(* columns is an error.  A short row is indexed beyond its end; an error   *)
(* of the volume is taken for one of the row and the read repeated for as  *)
(* long as it fails.  Both leave the batch in hand unsent.                 *)
ReadCSVFile(file) ==
  LET panics == \E i \in DOMAIN file.rows : file.rows[i].is = "short"
      good == SelectSeq(Before(file.rows, "short"), Good)
      end == IF panics THEN "panic" ELSE IF file.fails THEN "never" ELSE "ok"
  IN  IF ~file.header THEN Unread
      ELSE [rows |-> IF end = "ok" THEN good ELSE WholeBatches(good), end |-> end]

(* A JSON metric that does not parse, or an error of the volume, ends the  *)
(* file; the batch in hand is not passed on.                               *)
ReadJSONFile(file) ==
  IF ~file.header THEN Unread
  ELSE IF AllGood(file.rows) /\ ~file.fails THEN [rows |-> file.rows, end |-> "ok"]
  ELSE [rows |-> WholeBatches(Before(file.rows, "bad")), end |-> "error"]

(* The reader panics on a file that is not Parquet.  The rows before a     *)
(* damaged page are passed on.                                             *)
ReadParquetFile(file) ==
  IF ~file.header THEN [rows |-> <<>>, end |-> "panic"]
  ELSE [rows |-> Before(file.rows, "bad"),
        end |-> IF AllGood(file.rows) /\ ~file.fails THEN "ok" ELSE "error"]

readFile(file) ==
  CASE file.opens /\ file.format = "csv" -> ReadCSVFile(file)
    [] file.opens /\ file.format = "json" -> ReadJSONFile(file)
    [] file.opens /\ file.format = "parquet" -> ReadParquetFile(file)
    [] OTHER -> Unread

(* A request whose body cannot be read, decompressed or parsed, or whose   *)
(* method is not POST, is answered with an error; a series gives a metric  *)
(* for each of its samples.                                                *)
TimeSeriesToMetrics(series) == series.samples
decodeRequest(r) ==
  IF r.post /\ r.decodes
  THEN [rows |-> FoldLeft(LAMBDA rows, s : rows \o TimeSeriesToMetrics(s), <<>>, r.series),
        end |-> "ok"]
  ELSE Unread

(* What an invocation reads from, and what the i-th of it gives. *)
Files(t) == expandInputs(t.inputs, t.recursive)
Sources(t) == IF t.listen THEN t.requests ELSE Files(t).files
ReadOf(t, i) == IF t.listen THEN decodeRequest(Sources(t)[i]) ELSE readFile(Sources(t)[i])

Listening == job.listen
Read(i) == ReadOf(job, i)

(* Every invocation has an output, every output a writer, and every row    *)
(* that is read a number of its own.                                       *)
ASSUME TranscodingsAssumption ==
  /\ Transcodings # {}
  /\ \A t \in Transcodings :
       /\ t.outputs \in Seq(ToSet(t.outputs)) /\ t.outputs # <<>>
       /\ \A out \in ToSet(t.outputs) : out.writers \in Nat \ {0}
       /\ \A i \in DOMAIN Sources(t) :
            /\ ReadOf(t, i).rows \in Seq(ToSet(ReadOf(t, i).rows))
            /\ \A row \in ToSet(ReadOf(t, i).rows) : row.id \in Nat
       /\ \A i, j \in DOMAIN Sources(t) :
            \A k \in DOMAIN ReadOf(t, i).rows, l \in DOMAIN ReadOf(t, j).rows :
              ReadOf(t, i).rows[k].id = ReadOf(t, j).rows[l].id => i = j /\ k = l

-----------------------------------------------------------------------------
(* Outputs *)

isRemoteWriteURL(out) == out.format = "url"

(* A file of an unknown format, or that cannot be created. *)
createWriter(out) == out.format \in {"url", "csv", "json", "parquet"} /\ out.created

WriterIds == UNION {{<<o, w>> : w \in 1..(IF isRemoteWriteURL(job.outputs[o])
                                          THEN job.outputs[o].writers ELSE 1)} :
                    o \in DOMAIN job.outputs}

EmptyChannel == [items |-> <<>>, closed |-> FALSE]

RegurgitatorStart(at, transcodings) ==
  /\ job \in transcodings
  /\ run = [pc |-> at, error |-> FALSE]
  /\ signal = "none"
  /\ reader = <<>>
  /\ input = EmptyChannel
  /\ fan = [pc |-> "off", item |-> 0, to |-> 1]
  /\ output = [o \in DOMAIN job.outputs |-> EmptyChannel]
  /\ writer = [w \in WriterIds |-> [pc |-> "off", batch |-> <<>>, attempt |-> 0, closing |-> FALSE]]
  /\ sink = [o \in DOMAIN job.outputs |->
               [got |-> {}, twice |-> {}, lost |-> FALSE, complete |-> FALSE]]
  /\ writeFaults = 0

RegurgitatorInit == RegurgitatorStart("start", Transcodings)
RegurgitatorOff == RegurgitatorStart("off", {CHOOSE t \in Transcodings : TRUE})

(* The flags, the writers and FanOut; any error ends the program. *)
Start ==
  /\ run.pc = "start"
  /\ IF (Listening <=> job.inputs # <<>>)
        \/ \E o \in DOMAIN job.outputs : ~createWriter(job.outputs[o])
     THEN run' = [pc |-> "exit", error |-> TRUE] /\ UNCHANGED <<reader, fan, writer>>
     ELSE /\ run' = [run EXCEPT !.pc = "read"]
          /\ reader' = [i \in DOMAIN Sources(job) |-> [pc |-> "waiting", sent |-> 0]]
          /\ fan' = [fan EXCEPT !.pc = "receive"]
          /\ writer' = [w \in WriterIds |-> [writer[w] EXCEPT !.pc = "receive"]]
  /\ UNCHANGED <<job, signal, input, output, sink, writeFaults>>

Signal ==
  /\ signal = "none" /\ run.pc \notin {"off", "exit"}
  /\ signal' = "shutdown"
  /\ UNCHANGED <<job, run, reader, input, fan, output, writer, sink, writeFaults>>

(* The grace period, or a second signal. *)
ForceShutdown ==
  /\ signal = "shutdown" /\ run.pc # "exit"
  /\ signal' = "forced"
  /\ UNCHANGED <<job, run, reader, input, fan, output, writer, sink, writeFaults>>

Forced == signal = "forced"
Exited == run.pc = "exit"

-----------------------------------------------------------------------------
(* Readers *)

Reading == {i \in DOMAIN reader : reader[i].pc = "reading"}

(* A place of the semaphore; a request until the server stops. *)
StartReader(i) ==
  /\ run.pc = "read" /\ reader[i].pc = "waiting"
  /\ Listening \/ Cardinality(Reading) < Readers
  /\ reader' = [reader EXCEPT ![i].pc = "reading"]
  /\ UNCHANGED <<job, run, signal, input, fan, output, writer, sink, writeFaults>>

(* Sending on the full channel waits; on the closed one it is a panic,     *)
(* from which the HTTP server recovers: the request gets no answer.        *)
SendMetric(i) ==
  /\ ~Exited /\ reader[i].pc = "reading" /\ reader[i].sent < Len(Read(i).rows)
  /\ IF input.closed
     THEN reader' = [reader EXCEPT ![i].pc = "aborted"] /\ UNCHANGED input
     ELSE /\ Len(input.items) < ChannelBuffer
          /\ input' = [input EXCEPT !.items = Append(@, Read(i).rows[reader[i].sent + 1].id)]
          /\ reader' = [reader EXCEPT ![i].sent = @ + 1]
  /\ UNCHANGED <<job, run, signal, fan, output, writer, sink, writeFaults>>

(* The end of a file, or the answer to a request. *)
EndReader(i) ==
  /\ ~Exited /\ reader[i].pc = "reading" /\ reader[i].sent = Len(Read(i).rows)
  /\ Read(i).end \in {"ok", "error"}
  /\ reader' = [reader EXCEPT ![i].pc = "done"]
  /\ run' = [run EXCEPT !.error = @ \/ (~Listening /\ Read(i).end = "error")]
  /\ UNCHANGED <<job, signal, input, fan, output, writer, sink, writeFaults>>

(* Nobody recovers from a panic of a file reader. *)
PanicReader(i) ==
  /\ ~Exited /\ reader[i].pc = "reading" /\ reader[i].sent = Len(Read(i).rows)
  /\ Read(i).end = "panic"
  /\ run' = [pc |-> "exit", error |-> TRUE]
  /\ UNCHANGED <<job, signal, reader, input, fan, output, writer, sink, writeFaults>>

(* The readers' channel is closed; with an error the program ends here,    *)
(* without waiting for the writers.                                        *)
ReadersReturn(error) ==
  /\ run' = [pc |-> IF error THEN "exit" ELSE "wait", error |-> error]
  /\ input' = [input EXCEPT !.closed = TRUE]
  /\ UNCHANGED <<job, signal, reader, fan, output, writer, sink, writeFaults>>

(* A signal is ignored by the file readers. *)
StartFileReaders ==
  /\ run.pc = "read" /\ ~Listening
  /\ \A i \in DOMAIN reader : reader[i].pc = "done"
  /\ ReadersReturn(run.error \/ Files(job).error)

(* Shutdown waits five seconds for the requests; or the listener fails. *)
StartHTTPServer ==
  /\ run.pc = "read" /\ Listening
  /\ \/ signal # "none" /\ ReadersReturn(FALSE)
     \/ ~job.address /\ ReadersReturn(TRUE)

-----------------------------------------------------------------------------
(* FanOut *)

(* Mutant of CloseOutputs: the writers are not told that nothing follows. *)
MutCloseOutputs == fan' = [fan EXCEPT !.pc = "done"] /\ UNCHANGED output

CloseOutputs ==
  /\ fan' = [fan EXCEPT !.pc = "done"]
  /\ output' = [o \in DOMAIN output |-> [output[o] EXCEPT !.closed = TRUE]]

FanOutReceive ==
  /\ ~Exited /\ fan.pc = "receive"
  /\ \/ Forced /\ CloseOutputs /\ UNCHANGED input
     \/ /\ input.items # <<>>
        /\ input' = [input EXCEPT !.items = Tail(@)]
        /\ fan' = [pc |-> "send", item |-> Head(input.items), to |-> 1]
        /\ UNCHANGED output
     \/ input.items = <<>> /\ input.closed /\ CloseOutputs /\ UNCHANGED input
  /\ UNCHANGED <<job, run, signal, reader, writer, sink, writeFaults>>

FanOutSend ==
  /\ ~Exited /\ fan.pc = "send"
  /\ \/ Forced /\ CloseOutputs
     \/ /\ Len(output[fan.to].items) < ChannelBuffer
        /\ output' = [output EXCEPT ![fan.to].items = Append(@, fan.item)]
        /\ fan' = IF fan.to = Len(job.outputs) THEN [fan EXCEPT !.pc = "receive"]
                  ELSE [fan EXCEPT !.to = @ + 1]
  /\ UNCHANGED <<job, run, signal, reader, input, writer, sink, writeFaults>>

-----------------------------------------------------------------------------
(* Writers *)

Gets(s, rows) ==
  [s EXCEPT !.got = @ \cup rows, !.twice = @ \cup (rows \cap s.got)]

WriteFault == writeFaults < MaxWriteFaults /\ writeFaults' = writeFaults + 1

(* The next metric: a file's writer writes it, an error is only logged.    *)
WriteOne(w) ==
  /\ ~Exited /\ writer[w].pc = "receive" /\ output[w[1]].items # <<>>
  /\ LET o == w[1]
         metric == Head(output[o].items)
     IN  /\ output' = [output EXCEPT ![o].items = Tail(@)]
         /\ IF isRemoteWriteURL(job.outputs[o])
            THEN /\ writer' = [writer EXCEPT
                      ![w].batch = Append(@, metric),
                      ![w].pc = IF Len(writer[w].batch) + 1 >= BatchSize THEN "flush" ELSE @,
                      ![w].attempt = 1]
                 /\ UNCHANGED <<sink, writeFaults>>
            ELSE /\ \/ sink' = [sink EXCEPT ![o] = Gets(@, {metric})] /\ UNCHANGED writeFaults
                    \/ sink' = [sink EXCEPT ![o].lost = TRUE] /\ WriteFault
                 /\ UNCHANGED writer
  /\ UNCHANGED <<job, run, signal, reader, input, fan>>

Flushed(w) == [writer EXCEPT ![w].pc = IF writer[w].closing THEN "done" ELSE "receive",
                             ![w].batch = <<>>]

(* Mutant of GivesUp: a batch that could not be sent is dropped. *)
MutGivesUp(w) == Flushed(w)

(* The batch is kept: the next flush sends it as well. *)
GivesUp(w) == [writer EXCEPT ![w].pc = IF writer[w].closing THEN "done" ELSE "receive"]

(* What the last flush cannot send is lost. *)
GiveUp(w, received) ==
  /\ writer' = GivesUp(w)
  /\ LET s == Gets(sink[w[1]], received)
     IN  sink' = [sink EXCEPT ![w[1]] = [s EXCEPT !.lost = s.lost \/ writer[w].closing]]

(* An attempt to send the batch.  A request that fails may have been       *)
(* received.                                                               *)
flush(w) ==
  /\ ~Exited /\ writer[w].pc = "flush"
  /\ LET o == w[1]
         batch == ToSet(writer[w].batch)
     IN  \/ batch = {} /\ writer' = Flushed(w) /\ UNCHANGED <<sink, writeFaults>>
         \/ batch # {} /\ Forced /\ GiveUp(w, {}) /\ UNCHANGED writeFaults
         \/ /\ batch # {} /\ ~Forced
            /\ writer' = Flushed(w)
            /\ sink' = [sink EXCEPT ![o] = Gets(@, batch)]
            /\ UNCHANGED writeFaults
         \/ /\ batch # {} /\ ~Forced /\ WriteFault
            /\ \E received \in {{}, batch} :
                 IF writer[w].attempt = MaxFlushes
                 THEN GiveUp(w, received)
                 ELSE /\ writer' = [writer EXCEPT ![w].attempt = @ + 1]
                      /\ sink' = [sink EXCEPT ![o] = Gets(@, received)]
  /\ UNCHANGED <<job, run, signal, reader, input, fan, output>>

(* The channel is closed and empty: Close flushes the rest, or completes   *)
(* and closes the file; its error is ignored.                              *)
Close(w) ==
  /\ ~Exited /\ writer[w].pc = "receive"
  /\ output[w[1]].items = <<>> /\ output[w[1]].closed
  /\ IF isRemoteWriteURL(job.outputs[w[1]])
     THEN /\ writer' = [writer EXCEPT ![w].pc = "flush", ![w].attempt = 1, ![w].closing = TRUE]
          /\ UNCHANGED <<sink, writeFaults>>
     ELSE /\ writer' = [writer EXCEPT ![w].pc = "done"]
          /\ \/ sink' = [sink EXCEPT ![w[1]].complete = TRUE] /\ UNCHANGED writeFaults
             \/ sink' = [sink EXCEPT ![w[1]].lost = TRUE] /\ WriteFault
  /\ UNCHANGED <<job, run, signal, reader, input, fan, output>>

(* The main goroutine waits for FanOut and then for the writers. *)
WaitForWriters == fan.pc = "done" /\ \A w \in WriterIds : writer[w].pc = "done"

Return ==
  /\ run.pc = "wait" /\ WaitForWriters
  /\ run' = [run EXCEPT !.pc = "exit"]
  /\ UNCHANGED <<job, signal, reader, input, fan, output, writer, sink, writeFaults>>

-----------------------------------------------------------------------------
RegurgitatorProgress ==
  \/ Start \/ ForceShutdown \/ StartFileReaders \/ StartHTTPServer \/ Return
  \/ \E i \in DOMAIN reader : StartReader(i) \/ SendMetric(i) \/ EndReader(i) \/ PanicReader(i)
  \/ FanOutReceive \/ FanOutSend
  \/ \E w \in WriterIds : WriteOne(w) \/ flush(w) \/ Close(w)

(* A server waits for a signal. *)
RegurgitatorEnded ==
  \/ run.pc \in {"exit", "off"}
  \/ Listening /\ signal = "none" /\ run.pc = "read"

RegurgitatorStep == RegurgitatorProgress \/ Signal

-----------------------------------------------------------------------------
(* Properties *)

(* A reader repeats a failing read of a CSV file for ever. *)
ReadsForEver(i) == reader[i].sent = Len(Read(i).rows) /\ Read(i).end = "never"

(* A reader waits for room in a channel from which nobody takes any more:  *)
(* the cancelled context has ended FanOut, and the readers of files are    *)
(* not told (main.go:656, 682, 707).                                       *)
NobodyReceives(i) ==
  /\ Forced /\ fan.pc = "done"
  /\ reader[i].sent < Len(Read(i).rows) /\ Len(input.items) = ChannelBuffer

(* The two ways in which wg.Wait (main.go:584) never returns, whatever     *)
(* signals follow. *)
RegurgitatorHangs ==
  /\ ~Listening /\ run.pc = "read"
  /\ \E i \in Reading : ReadsForEver(i) \/ NobodyReceives(i)

(* What has been read from files, or received in requests answered 204. *)
Accepted ==
  UNION {{Read(i).rows[k].id : k \in 1..reader[i].sent} :
         i \in {i \in DOMAIN reader : reader[i].pc = "done"}}

(* Nothing is lost between the readers and the outputs: a run that returns *)
(* without an error and was not forced has written every metric it read,   *)
(* and every metric of a request it has answered, to every output whose    *)
(* own writes did not fail -- however the writers share the channel,       *)
(* whichever flush gave up before a later one succeeded and whatever the   *)
(* other outputs did -- and to a file exactly once, with its footer.       *)
Transcoded ==
  Exited /\ ~run.error /\ ~Forced =>
    \A o \in DOMAIN sink : ~sink[o].lost =>
      /\ Accepted \subseteq sink[o].got
      /\ ~isRemoteWriteURL(job.outputs[o]) => sink[o].twice = {} /\ sink[o].complete
=============================================================================
