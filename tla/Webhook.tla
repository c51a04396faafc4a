------------------------------- MODULE Webhook -------------------------------
(***************************************************************************)
(* The webhook server (src/app/functions/webhook/main.go): admission       *)
(* requests that write the resource store, the pusher that sends the       *)
(* unsent records and stamps them (src/app/domain/pusher), the housekeeper *)
(* that deletes expired ones (src/app/domain/housekeeper), and the orderly *)
(* end of the process.  Every statement or transaction of the store and    *)
(* every attempt to send is a step.                                        *)
(***************************************************************************)
EXTENDS ResourceStore, FiniteSetsExt

CONSTANTS
  Request,     \* the admission requests, as identities
  Http(_),     \* the HTTP requests an identity may stand for
  Size(_),     \* the size of a row
  SentMaxBytes,\* settings.RemoteWrite.MaxBytesPerSend
  MaxRetries,  \* settings.RemoteWrite.MaxRetries
  MaxFaults    \* bound: failing statements and attempts

ASSUME WebhookAssumption ==
  SentMaxBytes \in Nat /\ MaxRetries \in Nat /\ MaxFaults \in Nat

(* The namespace of an object is a string, perhaps empty: the formatters   *)
(* take its address, which is never nil.                                   *)
ASSUME ObjectAssumption ==
  \A q \in Request : \A h \in Http(q) : ~Malformed(h) =>
    \A o \in h.body.review.object \cup h.body.review.oldObject : o.namespace # NoNamespace

VARIABLES
  rows,       \* the table
  request,    \* where each admission request is, and what it has read
  pusher,     \* the goroutine of the pusher
  keeper,     \* the goroutine of the housekeeper
  life,       \* where main is
  faults,     \* how many faults have happened
  delivered,  \* history: the series the remote endpoint has accepted
  latest,     \* history: the tags of the last successful write of each key
  raced       \* history: keys whose last write, or a later one over it, went by a stale read

vars == <<rows, request, pusher, keeper, life, faults, delivered, latest, raced>>

Fault == faults < MaxFaults /\ faults' = faults + 1

Key(tags) == <<tags.type, tags.name, tags.namespace>>

(* FormatMetrics: one series for the labels, one for the annotations. *)
FormatMetrics(records) ==
  {<<r.type, "labels", r.name, r.namespace, r.labels>> : r \in records}
  \cup {<<r.type, "annotations", r.name, r.namespace, r.annotations>> : r \in records}

NoAnswer == [status |-> 0, version |-> "", uid |-> "", allowed |-> FALSE, close |-> FALSE]
(* The connection is dropped: the handler has panicked. *)
Dropped == [NoAnswer EXCEPT !.status = 1]

Init ==
  /\ rows = {}
  /\ request = [q \in Request |->
       [pc |-> "new", http |-> <<>>, tags |-> <<>>, found |-> {}, answer |-> NoAnswer]]
  /\ pusher = [pc |-> "wait", running |-> TRUE, cancelled |-> FALSE, final |-> FALSE,
               found |-> {}, batch |-> {}, completed |-> {}, attempt |-> 0]
  /\ keeper = [pc |-> "wait", running |-> TRUE, cancelled |-> FALSE, expired |-> {}]
  /\ life = "serving"
  /\ faults = 0
  /\ delivered = {} /\ latest = {} /\ raced = {}

-----------------------------------------------------------------------------
(* Admission requests *)

history == <<delivered, latest, raced>>

Reply(q, h, answer) ==
  request' = [request EXCEPT ![q].pc = "done", ![q].http = h, ![q].found = {},
                             ![q].answer = answer]

(* Mutant of PostAdmissionRequest: an answer without the verdict. *)
MutPostAdmissionRequest(q, h) ==
  /\ request[q].pc = "new" /\ life = "serving"
  /\ IF Malformed(h) THEN Reply(q, h, BadRequest)
     ELSE LET review == requestBodyToModelReview(h.body) IN
          \/ /\ Review(review) = {}
             /\ Reply(q, h, marshallResponseToJSON(review, registered(review.gvk), FALSE))
          \/ \E tags \in Review(review) :
               request' = [request EXCEPT ![q].pc = "find", ![q].http = h, ![q].tags = tags]
  /\ UNCHANGED <<rows, pusher, keeper, life, faults, history>>

(* PostAdmissionRequest up to the first statement; the requests that write *)
(* nothing are answered here.                                              *)
PostAdmissionRequest(q, h) ==
  /\ request[q].pc = "new" /\ life = "serving"
  /\ IF Malformed(h) THEN Reply(q, h, BadRequest)
     ELSE LET review == requestBodyToModelReview(h.body) IN
          \/ /\ Review(review) = {}
             /\ \E answer \in AllowResponses(h) : Reply(q, h, answer)
          \/ \E tags \in Review(review) :
               request' = [request EXCEPT ![q].pc = "find", ![q].http = h, ![q].tags = tags]
  /\ UNCHANGED <<rows, pusher, keeper, life, faults, history>>

(* FindFirstBy: one of the rows, or none. *)
FindFirstBy(q) ==
  /\ request[q].pc = "find"
  /\ \/ /\ FindBy(rows, request[q].tags) = {}
        /\ request' = [request EXCEPT ![q].pc = "create"]
     \/ \E r \in FindBy(rows, request[q].tags) :
          request' = [request EXCEPT ![q].pc = "update", ![q].found = {r}]
  /\ UNCHANGED <<rows, pusher, keeper, life, faults, history>>

(* Any other error leaves found nil as well, and a record is created. *)
FindFails(q) ==
  /\ request[q].pc = "find"
  /\ Fault
  /\ request' = [request EXCEPT ![q].pc = "create"]
  /\ UNCHANGED <<rows, pusher, keeper, life, history>>

(* The record it has found is gone, or there is one though it found none. *)
Stale(q) ==
  \/ \E r \in request[q].found : \A s \in rows : s.id # r.id
  \/ request[q].found = {} /\ FindBy(rows, request[q].tags) # {}

(* The write has returned without an error, and the request is allowed. *)
Written(q) ==
  LET tags == request[q].tags IN
  /\ latest' = {t \in latest : Key(t) # Key(tags)} \cup {tags}
  /\ raced' = IF Stale(q) THEN raced \cup {Key(tags)} ELSE raced \ {Key(tags)}
  /\ \E answer \in AllowResponses(request[q].http) : Reply(q, request[q].http, answer)

CreateRecord(q) ==
  /\ request[q].pc = "create"
  /\ rows' = Create(rows, q, request[q].tags)
  /\ Written(q)
  /\ UNCHANGED <<pusher, keeper, life, faults, delivered>>

(* Mutant of UpdateRecord: the record keeps its sent_at. *)
MutUpdateRecord(q) ==
  /\ request[q].pc = "update"
  /\ \E r \in request[q].found : rows' = Update(rows, r.id, request[q].tags, r.sent)
  /\ Written(q)
  /\ UNCHANGED <<pusher, keeper, life, faults, delivered>>

UpdateRecord(q) ==
  /\ request[q].pc = "update"
  /\ \E r \in request[q].found : rows' = Update(rows, r.id, request[q].tags, FALSE)
  /\ Written(q)
  /\ UNCHANGED <<pusher, keeper, life, faults, delivered>>

(* A failing Create or Update is logged and the request allowed, unless    *)
(* the resource has no namespace: the error path reads it and panics.      *)
WriteFails(q) ==
  /\ request[q].pc \in {"create", "update"}
  /\ Fault
  /\ \/ /\ request[q].tags.namespace # NoNamespace
        /\ \E answer \in AllowResponses(request[q].http) : Reply(q, request[q].http, answer)
     \/ /\ request[q].tags.namespace = NoNamespace
        /\ Reply(q, request[q].http, Dropped)
  /\ UNCHANGED <<rows, pusher, keeper, life, history>>

-----------------------------------------------------------------------------
(* The pusher *)

(* Mutant of EndFlush: the goroutine ends with the first flush that fails. *)
MutEndFlush(p) ==
  [p EXCEPT !.pc = IF p.final \/ p.pc = "send" THEN "exit" ELSE "wait", !.final = FALSE,
            !.found = {}, !.batch = {}, !.completed = {}, !.attempt = 0]

EndFlush(p) ==
  [p EXCEPT !.pc = IF p.final THEN "exit" ELSE "wait", !.final = FALSE,
            !.found = {}, !.batch = {}, !.completed = {}, !.attempt = 0]

(* FindAllBy at the start of Flush. *)
Flush(final) ==
  /\ pusher.pc = "wait"
  /\ final => pusher.cancelled
  /\ LET started == [pusher EXCEPT !.final = final] IN
     \/ /\ pusher' = IF Unsent(rows) = {} THEN EndFlush(started)
                     ELSE [started EXCEPT !.pc = "batch", !.found = Unsent(rows)]
        /\ UNCHANGED faults
     \/ Fault /\ pusher' = EndFlush(started)
  /\ UNCHANGED <<rows, request, keeper, life, history>>

(* The ticker fires, or the context is done. *)
TickFlush == Flush(FALSE)
FinalFlush == Flush(TRUE)

TotalSize(S) == MapThenSumSet(Size, S)

(* Records are taken in order until the next one would exceed the limit. *)
NextBatch ==
  /\ pusher.pc = "batch"
  /\ \E B \in (SUBSET pusher.found) \ {{}} :
       /\ TotalSize(B) <= SentMaxBytes \/ Cardinality(B) = 1
       /\ B = pusher.found
          \/ \E r \in pusher.found \ B : TotalSize(B) + Size(r) > SentMaxBytes
       /\ pusher' = [pusher EXCEPT !.pc = "send", !.batch = B, !.attempt = 0,
                                   !.found = pusher.found \ B,
                                   !.completed = pusher.completed \cup B]
  /\ UNCHANGED <<rows, request, keeper, life, faults, history>>

(* A request of PushMetrics is answered 2xx. *)
PushMetrics ==
  /\ pusher.pc = "send" /\ pusher.attempt < MaxRetries
  /\ ~pusher.cancelled
  /\ delivered' = delivered \cup FormatMetrics(pusher.batch)
  /\ pusher' = [pusher EXCEPT !.pc = IF pusher.found = {} THEN "stamp" ELSE "batch"]
  /\ UNCHANGED <<rows, request, keeper, life, faults, latest, raced>>

(* Mutant of AttemptFails: the retries are not counted against the limit. *)
MutAttemptFails ==
  /\ pusher.pc = "send"
  /\ \/ pusher.cancelled /\ UNCHANGED <<faults, delivered>>
     \/ Fault /\ delivered' \in {delivered, delivered \cup FormatMetrics(pusher.batch)}
  /\ pusher' = [pusher EXCEPT !.attempt = pusher.attempt + 1]
  /\ UNCHANGED <<rows, request, keeper, life, latest, raced>>

(* An attempt fails: always when the context is cancelled, else by a       *)
(* fault, and then the endpoint may have taken the batch all the same.     *)
AttemptFails ==
  /\ pusher.pc = "send" /\ pusher.attempt < MaxRetries
  /\ \/ pusher.cancelled /\ UNCHANGED <<faults, delivered>>
     \/ Fault /\ delivered' \in {delivered, delivered \cup FormatMetrics(pusher.batch)}
  /\ pusher' = [pusher EXCEPT !.attempt = pusher.attempt + 1]
  /\ UNCHANGED <<rows, request, keeper, life, latest, raced>>

(* The retries are used up: Flush returns, whatever it has sent before. *)
SendFails ==
  /\ pusher.pc = "send" /\ pusher.attempt >= MaxRetries
  /\ pusher' = EndFlush(pusher)
  /\ UNCHANGED <<rows, request, keeper, life, faults, history>>

(* Mutant of Stamped: only sent_at is written, not the labels it has sent. *)
MutStamped(completed) ==
  {IF \E c \in completed : c.id = r.id THEN [r EXCEPT !.sent = TRUE, !.fresh = TRUE]
   ELSE r : r \in rows}

(* Every record it has read is written back with sent_at set. *)
Stamped(completed) ==
  {r \in rows : \A c \in completed : c.id # r.id}
  \cup UNION {Update({r \in rows : r.id = c.id}, c.id, Tags(c), TRUE) : c \in completed}

(* The transaction at the end of Flush. *)
StampRecords ==
  /\ pusher.pc = "stamp"
  /\ \/ /\ rows' = Stamped(pusher.completed)
        /\ raced' = raced \cup {Key(c) : c \in {c \in pusher.completed :
                                  \E r \in rows : r.id = c.id /\ Tags(r) # Tags(c)}}
        /\ UNCHANGED faults
     \/ Fault /\ UNCHANGED <<rows, raced>>
  /\ pusher' = EndFlush(pusher)
  /\ UNCHANGED <<request, keeper, life, delivered, latest>>

(* Mutant of PusherExits: running is cleared under the mutex Shutdown holds. *)
MutPusherExits ==
  /\ pusher.pc = "exit" /\ life # "stop pusher"
  /\ pusher' = [pusher EXCEPT !.pc = "off", !.running = FALSE]
  /\ UNCHANGED <<rows, request, keeper, life, faults, history>>

(* running is cleared without the mutex, and done is closed. *)
PusherExits ==
  /\ pusher.pc = "exit"
  /\ pusher' = [pusher EXCEPT !.pc = "off", !.running = FALSE]
  /\ UNCHANGED <<rows, request, keeper, life, faults, history>>

-----------------------------------------------------------------------------
(* The housekeeper *)

(* Time passes and a row leaves the retention time; that of an unsent row  *)
(* starts again when it is stamped.                                        *)
Ages(r) ==
  /\ r.sent /\ r.fresh
  /\ rows' = (rows \ {r}) \cup {[r EXCEPT !.fresh = FALSE]}
  /\ UNCHANGED <<request, pusher, keeper, life, faults, history>>

FindExpired ==
  /\ keeper.pc = "wait" /\ ~keeper.cancelled
  /\ Expired(rows) # {}
  /\ keeper' = [keeper EXCEPT !.pc = "delete", !.expired = Expired(rows)]
  /\ UNCHANGED <<rows, request, pusher, life, faults, history>>

(* The rows it has read are deleted by id, whatever they are now. *)
DeleteExpired ==
  /\ keeper.pc = "delete" /\ ~keeper.cancelled
  /\ rows' = Delete(rows, {r.id : r \in keeper.expired})
  /\ raced' = raced \cup {Key(c) : c \in {c \in keeper.expired :
                            \E r \in rows : r.id = c.id /\ ~r.sent}}
  /\ keeper' = [keeper EXCEPT !.pc = "wait", !.expired = {}]
  /\ UNCHANGED <<request, pusher, life, faults, delivered, latest>>

(* The transaction fails, as it must when the context is cancelled. *)
DeleteFails ==
  /\ keeper.pc = "delete"
  /\ \/ keeper.cancelled /\ UNCHANGED faults
     \/ Fault
  /\ keeper' = [keeper EXCEPT !.pc = "wait", !.expired = {}]
  /\ UNCHANGED <<rows, request, pusher, life, history>>

KeeperExits ==
  /\ keeper.pc = "wait" /\ keeper.cancelled
  /\ keeper' = [keeper EXCEPT !.pc = "off", !.running = FALSE]
  /\ UNCHANGED <<rows, request, pusher, life, faults, history>>

-----------------------------------------------------------------------------
(* The end of main: its deferred calls run in reverse order *)

(* The server has been told to stop and its requests are answered. *)
ServerStops ==
  /\ life = "serving"
  /\ \A q \in Request : request[q].pc \in {"new", "done"}
  /\ life' = "stop keeper"
  /\ keeper' = [keeper EXCEPT !.cancelled = TRUE]
  /\ UNCHANGED <<rows, request, pusher, faults, history>>

(* The housekeeper's Shutdown returns and the pusher's cancels its context. *)
KeeperStopped ==
  /\ life = "stop keeper" /\ keeper.pc = "off"
  /\ life' = "stop pusher"
  /\ pusher' = [pusher EXCEPT !.cancelled = pusher.running]
  /\ UNCHANGED <<rows, request, keeper, faults, history>>

PusherStopped ==
  /\ life = "stop pusher"
  /\ pusher.pc = "off" \/ ~pusher.running
  /\ life' = "exited"
  /\ UNCHANGED <<rows, request, pusher, keeper, faults, history>>

-----------------------------------------------------------------------------
RequestStep(q) ==
  \/ FindFirstBy(q) \/ FindFails(q)
  \/ CreateRecord(q) \/ UpdateRecord(q) \/ WriteFails(q)

SendStep == NextBatch \/ PushMetrics \/ AttemptFails \/ SendFails \/ StampRecords \/ PusherExits

KeeperStep == FindExpired \/ DeleteExpired \/ DeleteFails \/ KeeperExits

Next ==
  \/ \E q \in Request : \E h \in Http(q) : PostAdmissionRequest(q, h)
  \/ \E q \in Request : RequestStep(q)
  \/ TickFlush \/ FinalFlush \/ SendStep
  \/ \E r \in rows : Ages(r)
  \/ KeeperStep
  \/ ServerStops \/ KeeperStopped \/ PusherStopped

Fairness ==
  /\ \A q \in Request : WF_vars(RequestStep(q))
  /\ WF_vars(TickFlush) /\ SF_vars(FinalFlush) /\ WF_vars(SendStep)
  /\ WF_vars(KeeperStep) /\ WF_vars(KeeperStopped) /\ WF_vars(PusherStopped)

Spec == Init /\ [][Next]_vars /\ Fairness
-----------------------------------------------------------------------------
(* Properties *)

Series(t) == FormatMetrics({t})

RowType(r) ==
  /\ r.id \in Request
  /\ r.sent \in BOOLEAN /\ r.fresh \in BOOLEAN

(* The values the state takes.                                             *)
TypeOK ==
  /\ \A r \in rows : RowType(r)
  /\ \A q \in Request :
       /\ request[q].pc \in {"new", "find", "create", "update", "done"}
       /\ request[q].pc = "update" => Cardinality(request[q].found) = 1
  /\ pusher.pc \in {"wait", "batch", "send", "stamp", "exit", "off"}
  /\ pusher.attempt \in 0..MaxRetries
  /\ pusher.pc = "send" => pusher.batch # {}
  /\ keeper.pc \in {"wait", "delete", "off"}
  /\ life \in {"serving", "stop keeper", "stop pusher", "exited"}
  /\ faults \in 0..MaxFaults

(* Requests for the same new resource that all find no record leave one    *)
(* row for a resource with a namespace.                                    *)
UniqueKeys ==
  \A r, s \in rows : SameKey(r, s) /\ r.namespace # NoNamespace => r = s

(* What a stamped row says has been accepted by the endpoint: an update    *)
(* that comes in while the pusher sends is never marked as sent with the   *)
(* record sent before it.                                                  *)
SentMeansDelivered == \A r \in rows : r.sent => Series(r) \subseteq delivered

(* The last record written for a resource is delivered or waits in an      *)
(* unsent row, unless one of the unsynchronised read-modify-writes         *)
(* (request, pusher, housekeeper) has overwritten a row that changed after *)
(* it was read, or a find that failed counted as nothing found             *)
(* (generic.go:42) and the row there was hid the new one.                  *)
LostOnlyByRace ==
  \A t \in latest :
    \/ Key(t) \in raced
    \/ Series(t) \subseteq delivered
    \/ \E r \in Unsent(rows) : Tags(r) = t

(* No request the API server has sent well formed is refused or left       *)
(* without an answer, except that a failing write of a resource without a  *)
(* namespace drops the connection.                                         *)
NeverDenied ==
  \A q \in Request : request[q].pc = "done" =>
    \/ request[q].answer.allowed
    \/ Malformed(request[q].http) /\ request[q].answer = BadRequest
    \/ /\ request[q].answer = Dropped
       /\ request[q].tags.namespace = NoNamespace

(* Unsent records are sent as long as the server runs: a failed flush is   *)
(* repeated as a whole.                                                    *)
UnsentDrains ==
  (life = "serving" /\ Unsent(rows) # {}) ~> (life # "serving" \/ Unsent(rows) = {})

(* Once the server has stopped the process ends: the two Shutdown calls do *)
(* not deadlock with the goroutines they wait for.                         *)
Exits == (life # "serving") ~> (life = "exited")
=============================================================================
