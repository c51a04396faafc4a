--------------------------- MODULE Webhook_proofs ---------------------------
(***************************************************************************)
(* Proofs, for any requests, filters, batch and retry limits and faults,   *)
(* that the webhook keeps one row for a resource with a namespace; that a  *)
(* row that is marked as sent was sent as it stands, although the pusher   *)
(* writes back what it has read before sending; that it denies no request; *)
(* that the last record of a resource is lost only to a stale write; and,  *)
(* for any cluster, that a backfill which ends well has sent everything.   *)
(***************************************************************************)
EXTENDS WebhookMain, FiniteSetTheorems, WellFoundedInduction, TLAPS

-----------------------------------------------------------------------------
(* The inductive invariant *)

RowShape(r) ==
  r = [id |-> r.id, type |-> r.type, name |-> r.name, namespace |-> r.namespace,
       labels |-> r.labels, annotations |-> r.annotations, sent |-> r.sent, fresh |-> r.fresh]

RequestShape(r) ==
  r = [pc |-> r.pc, http |-> r.http, tags |-> r.tags, found |-> r.found, answer |-> r.answer]

PusherShape ==
  pusher = [pc |-> pusher.pc, running |-> pusher.running, cancelled |-> pusher.cancelled,
            final |-> pusher.final, found |-> pusher.found, batch |-> pusher.batch,
            completed |-> pusher.completed, attempt |-> pusher.attempt]

Shapes ==
  /\ \A r \in rows : RowShape(r)
  /\ request = [q \in Request |-> request[q]]
  /\ \A q \in Request : RequestShape(request[q])
  /\ PusherShape

(* A request makes at most one row, in its last step: ids are not reused.  *)
IdsUsed == \A r \in rows : r.id \in Request /\ request[r.id].pc = "done"
UniqueIds(S) == \A r, s \in S : r.id = s.id => r = s

(* The records the pusher has read: no id twice, of requests that are done,*)
(* and a row that has one of the ids is still of the same resource.        *)
InFlight == pusher.found \cup pusher.completed
FlightInv ==
  /\ UniqueIds(InFlight)
  /\ \A c \in InFlight : c.id \in Request /\ request[c.id].pc = "done"
  /\ \A c \in InFlight, r \in rows : c.id = r.id => SameKey(r, c)

(* Of these the completed ones have been accepted, save for the batch that *)
(* is being sent.                                                          *)
CompletedInv ==
  /\ \A c \in pusher.completed :
       Series(c) \subseteq delivered \/ (pusher.pc = "send" /\ c \in pusher.batch)
  /\ pusher.pc = "wait" => pusher.completed = {}

IInv ==
  /\ Shapes /\ IdsUsed /\ UniqueIds(rows) /\ FlightInv /\ CompletedInv
  /\ UniqueKeys /\ SentMeansDelivered

-----------------------------------------------------------------------------
(* The statements of the store *)

(* What Update makes of a row. *)
Updated(r, id, tags, sent) ==
  IF r.id = id THEN Row(id, [Tags(r) EXCEPT !.labels = tags.labels,
                                            !.annotations = tags.annotations], sent)
  ELSE r

(* A series depends on the resource and its tags. *)
LEMMA SameSeries ==
  ASSUME NEW a, NEW b, SameKey(a, b), a.labels = b.labels, a.annotations = b.annotations
  PROVE  Series(a) = Series(b)
  BY DEF SameKey, Series, FormatMetrics

LEMMA SeriesOfAll ==
  ASSUME NEW S, NEW c \in S PROVE Series(c) \subseteq FormatMetrics(S)
  BY DEF Series, FormatMetrics

-----------------------------------------------------------------------------
(* Init *)

LEMMA InitInv == Init \/ ServerOff => IInv
<1> SUFFICES ASSUME Init \/ ServerOff PROVE IInv
  OBVIOUS
<1>1. /\ rows = {} /\ pusher.found = {} /\ pusher.completed = {}
      /\ request = [q \in Request |->
           [pc |-> "new", http |-> <<>>, tags |-> <<>>, found |-> {}, answer |-> NoAnswer]]
      /\ PusherShape
  BY DEF Init, ServerOff, PusherShape
<1>2. Shapes
  BY <1>1 DEF Shapes, RequestShape
<1> QED BY <1>1, <1>2 DEF IInv, IdsUsed, UniqueIds, FlightInv, InFlight, CompletedInv, UniqueKeys,
                          SentMeansDelivered

-----------------------------------------------------------------------------
(* Requests *)

(* One request moves on; the others stay. *)
Moved(q) ==
  /\ request' = [p \in Request |-> request'[p]]
  /\ \A p \in Request : RequestShape(request[p])'
  /\ \A p \in Request : p # q => request'[p] = request[p]

LEMMA ReplyMoves ==
  ASSUME Shapes, NEW q \in Request, NEW h, NEW answer, Reply(q, h, answer)
  PROVE  Moved(q) /\ request'[q].pc = "done"
<1>1. DOMAIN request = Request
  BY DEF Shapes
<1>2. request'[q] = [request[q] EXCEPT !.pc = "done", !.http = h, !.found = {}, !.answer = answer]
  BY <1>1 DEF Reply
<1>3. RequestShape(request'[q]) /\ request'[q].pc = "done"
  BY <1>2 DEF Shapes, RequestShape
<1>4. /\ request' = [p \in Request |-> request'[p]]
      /\ \A p \in Request : p # q => request'[p] = request[p]
  BY <1>1 DEF Reply
<1> QED BY <1>3, <1>4 DEF Moved, Shapes

(* Requests that move without writing leave the invariant alone.           *)
LEMMA MovingKeeps ==
  ASSUME IInv, NEW q \in Request, Moved(q), request[q].pc # "done",
         UNCHANGED <<rows, pusher, delivered>>
  PROVE  IInv'
<1>1. Shapes'
  BY DEF IInv, Shapes, Moved, PusherShape, RowShape
<1>2. IdsUsed' /\ FlightInv'
  BY DEF IInv, IdsUsed, FlightInv, Moved, InFlight, UniqueIds
<1> QED BY <1>1, <1>2 DEF IInv, UniqueIds, CompletedInv, UniqueKeys, SentMeansDelivered, InFlight

LEMMA PostKeeps ==
  ASSUME IInv, NEW q \in Request, NEW h, PostAdmissionRequest(q, h)
  PROVE  IInv'
<1>1. UNCHANGED <<rows, pusher, delivered>> /\ request[q].pc # "done"
  BY DEF PostAdmissionRequest, history
<1>2. Moved(q)
  <2>1. \/ \E answer : Reply(q, h, answer)
        \/ \E tags : request' = [request EXCEPT ![q].pc = "find", ![q].http = h, ![q].tags = tags]
    BY DEF PostAdmissionRequest
  <2>2. CASE \E answer : Reply(q, h, answer)
    BY <2>2, ReplyMoves DEF IInv
  <2>3. CASE \E tags : request' = [request EXCEPT ![q].pc = "find", ![q].http = h, ![q].tags = tags]
    BY <2>3 DEF IInv, Shapes, RequestShape, Moved
  <2> QED BY <2>1, <2>2, <2>3
<1> QED BY <1>1, <1>2, MovingKeeps

LEMMA FindKeeps ==
  ASSUME IInv, NEW q \in Request, FindFirstBy(q) \/ FindFails(q)
  PROVE  IInv'
<1>1. UNCHANGED <<rows, pusher, delivered>> /\ request[q].pc # "done"
  BY DEF FindFirstBy, FindFails, history
<1>2. \/ request' = [request EXCEPT ![q].pc = "create"]
      \/ \E r : request' = [request EXCEPT ![q].pc = "update", ![q].found = {r}]
  BY DEF FindFirstBy, FindFails
<1>3. Moved(q)
  <2>1. CASE request' = [request EXCEPT ![q].pc = "create"]
    BY <2>1 DEF IInv, Shapes, RequestShape, Moved
  <2>2. CASE \E r : request' = [request EXCEPT ![q].pc = "update", ![q].found = {r}]
    BY <2>2 DEF IInv, Shapes, RequestShape, Moved
  <2> QED BY <1>2, <2>1, <2>2
<1> QED BY <1>1, <1>3, MovingKeeps

LEMMA WriteFailsKeeps ==
  ASSUME IInv, NEW q \in Request, WriteFails(q)
  PROVE  IInv'
<1>1. UNCHANGED <<rows, pusher, delivered>> /\ request[q].pc # "done"
  BY DEF WriteFails, history
<1>2. \E h, answer : Reply(q, h, answer)
  BY DEF WriteFails
<1>3. Moved(q)
  BY <1>2, ReplyMoves DEF IInv
<1> QED BY <1>1, <1>3, MovingKeeps

(* A request that is done stays done, whoever writes.                      *)
LEMMA DoneStays ==
  ASSUME Shapes, NEW q \in Request, Written(q), request[q].pc # "done"
  PROVE  /\ Moved(q) /\ request'[q].pc = "done"
         /\ \A p \in Request : request[p].pc = "done" => request'[p].pc = "done"
<1>1. \E h, answer : Reply(q, h, answer)
  BY DEF Written
<1>2. Moved(q) /\ request'[q].pc = "done"
  BY <1>1, ReplyMoves
<1> QED BY <1>2 DEF Moved

(* Every row is one of the old ones, or an old one with new tags that is   *)
(* not marked as sent.                                                     *)
LEMMA UpdateRecordKeeps ==
  ASSUME IInv, NEW q \in Request, UpdateRecord(q)
  PROVE  IInv'
<1>1. PICK f \in request[q].found : rows' = Update(rows, f.id, request[q].tags, FALSE)
  BY DEF UpdateRecord
<1>2. /\ UNCHANGED <<pusher, delivered>> /\ Moved(q) /\ request'[q].pc = "done"
      /\ \A p \in Request : request[p].pc = "done" => request'[p].pc = "done"
  BY DoneStays DEF UpdateRecord, IInv
<1>3. ASSUME NEW u \in rows'
      PROVE  \E r \in rows : /\ u = Updated(r, f.id, request[q].tags, FALSE)
                             /\ RowShape(u) /\ u.id = r.id /\ SameKey(u, r)
                             /\ u = r \/ ~u.sent
  <2>1. PICK r \in rows : u = Updated(r, f.id, request[q].tags, FALSE)
    BY <1>1 DEF Update, Updated
  <2>2. RowShape(r)
    BY DEF IInv, Shapes
  <2>3. RowShape(u) /\ u.id = r.id /\ SameKey(u, r) /\ (u = r \/ ~u.sent)
    <3>1. CASE r.id = f.id
      BY <2>1, <2>2, <3>1 DEF Updated, Row, Tags, RowShape, SameKey
    <3>2. CASE r.id # f.id
      BY <2>1, <2>2, <3>2 DEF Updated, SameKey
    <3> QED BY <3>1, <3>2
  <2> QED BY <2>1, <2>3
<1>4. \A u \in rows' : \E r \in rows :
        /\ RowShape(u) /\ u.id = r.id /\ SameKey(u, r) /\ (u = r \/ ~u.sent)
  BY <1>3
<1>5. UniqueIds(rows')
  <2> SUFFICES ASSUME NEW u \in rows', NEW v \in rows', u.id = v.id PROVE u = v
    BY DEF UniqueIds
  <2>1. PICK r \in rows : u = Updated(r, f.id, request[q].tags, FALSE) /\ u.id = r.id
    BY <1>3
  <2>2. PICK s \in rows : v = Updated(s, f.id, request[q].tags, FALSE) /\ v.id = s.id
    BY <1>3
  <2>3. r = s
    BY <2>1, <2>2 DEF IInv, UniqueIds
  <2> QED BY <2>1, <2>2, <2>3
<1>6. Shapes'
  BY <1>2, <1>4 DEF IInv, Shapes, Moved, PusherShape
<1>7. IdsUsed' /\ UniqueIds(rows')
  BY <1>2, <1>4, <1>5 DEF IInv, IdsUsed
<1>8. FlightInv'
  <2>1. ASSUME NEW c \in InFlight, NEW u \in rows', c.id = u.id PROVE SameKey(u, c)
    BY <1>4, <2>1 DEF IInv, FlightInv, SameKey
  <2> QED BY <1>2, <2>1 DEF IInv, FlightInv, InFlight, UniqueIds
<1>9. UniqueKeys'
  <2> SUFFICES ASSUME NEW u \in rows', NEW v \in rows', SameKey(u, v), u.namespace # NoNamespace
               PROVE  u = v
    BY DEF UniqueKeys
  <2>1. PICK r \in rows : u.id = r.id /\ SameKey(u, r)
    BY <1>4
  <2>2. PICK s \in rows : v.id = s.id /\ SameKey(v, s)
    BY <1>4
  <2>3. r = s
    BY <2>1, <2>2 DEF SameKey, IInv, UniqueKeys
  <2> QED BY <2>1, <2>2, <2>3, <1>7 DEF UniqueIds
<1>10. SentMeansDelivered'
  BY <1>2, <1>4 DEF IInv, SentMeansDelivered
<1>11. CompletedInv'
  BY <1>2 DEF IInv, CompletedInv
<1> QED BY <1>6, <1>7, <1>8, <1>9, <1>10, <1>11 DEF IInv

LEMMA CreateRecordKeeps ==
  ASSUME IInv, NEW q \in Request, CreateRecord(q)
  PROVE  IInv'
<1> DEFINE new == Row(q, request[q].tags, FALSE)
<1>1. /\ UNCHANGED <<pusher, delivered>> /\ Moved(q) /\ request'[q].pc = "done"
      /\ \A p \in Request : request[p].pc = "done" => request'[p].pc = "done"
  BY DoneStays DEF CreateRecord, IInv
<1>2. request[q].pc # "done"
  BY DEF CreateRecord
<1>3. CASE rows' = rows
  <2>1. Shapes'
    BY <1>1, <1>3 DEF IInv, Shapes, Moved, PusherShape, RowShape
  <2>2. IdsUsed' /\ FlightInv'
    BY <1>1, <1>3 DEF IInv, IdsUsed, FlightInv, InFlight, UniqueIds
  <2> QED BY <1>1, <1>3, <2>1, <2>2
          DEF IInv, UniqueIds, CompletedInv, UniqueKeys, SentMeansDelivered
<1>4. CASE rows' = rows \cup {new} /\ Conflicts(rows, request[q].tags) = {}
  <2>1. RowShape(new) /\ new.id = q /\ ~new.sent /\ SameKey(new, request[q].tags)
    BY DEF new, Row, RowShape, SameKey
  <2>2. \A r \in rows : r.id # q
    BY <1>2 DEF IInv, IdsUsed
  <2>3. \A c \in InFlight : c.id # q
    BY <1>2 DEF IInv, FlightInv
  <2>4. Shapes'
    BY <1>1, <1>4, <2>1 DEF IInv, Shapes, Moved, PusherShape, RowShape
  <2>5. IdsUsed' /\ UniqueIds(rows)'
    BY <1>1, <1>4, <2>1, <2>2 DEF IInv, IdsUsed, UniqueIds
  <2>6. FlightInv'
    BY <1>1, <1>4, <2>1, <2>3 DEF IInv, FlightInv, InFlight, UniqueIds
  <2>7. UniqueKeys'
    <3>1. \A r \in rows : SameKey(r, new) => new.namespace = NoNamespace
      BY <1>4, <2>1 DEF Conflicts, SameKey
    <3> QED BY <1>4, <3>1 DEF IInv, UniqueKeys, SameKey
  <2>8. SentMeansDelivered' /\ CompletedInv'
    BY <1>1, <1>4, <2>1 DEF IInv, SentMeansDelivered, CompletedInv
  <2> QED BY <2>4, <2>5, <2>6, <2>7, <2>8 DEF IInv
<1> QED BY <1>3, <1>4 DEF CreateRecord, Create

-----------------------------------------------------------------------------
(* The pusher *)

(* Fields of the pusher that concern no record may change freely.          *)
LEMMA PusherKeeps ==
  ASSUME IInv, UNCHANGED <<rows, request>>, delivered \subseteq delivered', PusherShape',
         InFlight' \subseteq InFlight, CompletedInv'
  PROVE  IInv'
<1>1. Shapes'
  BY DEF IInv, Shapes, RowShape, RequestShape
<1>2. IdsUsed' /\ FlightInv' /\ UniqueIds(rows)' /\ UniqueKeys'
  BY DEF IInv, IdsUsed, FlightInv, UniqueIds, UniqueKeys
<1>3. SentMeansDelivered'
  BY DEF IInv, SentMeansDelivered, Series, FormatMetrics
<1> QED BY <1>1, <1>2, <1>3 DEF IInv

LEMMA EndFlushFields ==
  ASSUME NEW p,
         p = [pc |-> p.pc, running |-> p.running, cancelled |-> p.cancelled, final |-> p.final,
              found |-> p.found, batch |-> p.batch, completed |-> p.completed,
              attempt |-> p.attempt],
         pusher' = EndFlush(p)
  PROVE  PusherShape' /\ pusher'.found = {} /\ pusher'.completed = {}
  BY DEF EndFlush, PusherShape

LEMMA FlushKeeps ==
  ASSUME IInv, NEW final \in BOOLEAN, Flush(final)
  PROVE  IInv'
<1> DEFINE started == [pusher EXCEPT !.final = final]
<1>1. UNCHANGED <<rows, request, delivered>>
  BY DEF Flush, history
<1>2. started = [pc |-> started.pc, running |-> started.running, cancelled |-> started.cancelled,
                 final |-> started.final, found |-> started.found, batch |-> started.batch,
                 completed |-> started.completed, attempt |-> started.attempt]
      /\ started.completed = pusher.completed
  BY DEF IInv, Shapes, PusherShape
<1>3. \/ pusher' = EndFlush(started)
      \/ pusher' = [started EXCEPT !.pc = "batch", !.found = Unsent(rows)]
  BY DEF Flush
<1>4. CASE pusher' = EndFlush(started)
  <2>1. PusherShape' /\ pusher'.found = {} /\ pusher'.completed = {}
    BY <1>2, <1>4, EndFlushFields
  <2> QED BY <1>1, <2>1, PusherKeeps DEF InFlight, CompletedInv
<1>5. CASE pusher' = [started EXCEPT !.pc = "batch", !.found = Unsent(rows)]
  <2>1. /\ PusherShape' /\ pusher'.found = Unsent(rows) /\ pusher'.completed = pusher.completed
        /\ pusher'.pc = "batch"
    BY <1>2, <1>5 DEF PusherShape
  <2>2. pusher.completed = {}
    BY DEF IInv, CompletedInv, Flush
  <2>3. Shapes' /\ IdsUsed' /\ UniqueIds(rows)' /\ UniqueKeys'
    BY <1>1, <2>1 DEF IInv, Shapes, RowShape, RequestShape, IdsUsed, UniqueIds, UniqueKeys
  <2>4. FlightInv'
    <3>1. InFlight' \subseteq rows
      BY <2>1, <2>2 DEF InFlight, Unsent
    <3> QED BY <1>1, <3>1 DEF IInv, IdsUsed, FlightInv, UniqueIds, SameKey
  <2>5. SentMeansDelivered' /\ CompletedInv'
    BY <1>1, <2>1, <2>2 DEF IInv, SentMeansDelivered, CompletedInv
  <2> QED BY <2>3, <2>4, <2>5 DEF IInv
<1> QED BY <1>3, <1>4, <1>5

LEMMA NextBatchKeeps ==
  ASSUME IInv, NextBatch
  PROVE  IInv'
<1>1. PICK B \in SUBSET pusher.found :
        pusher' = [pusher EXCEPT !.pc = "send", !.batch = B, !.attempt = 0,
                                 !.found = pusher.found \ B,
                                 !.completed = pusher.completed \cup B]
  BY DEF NextBatch
<1>2. /\ PusherShape' /\ pusher'.pc = "send" /\ pusher'.batch = B
      /\ pusher'.found = pusher.found \ B /\ pusher'.completed = pusher.completed \cup B
  BY <1>1 DEF IInv, Shapes, PusherShape
<1>3. UNCHANGED <<rows, request, delivered>> /\ pusher.pc = "batch"
  BY DEF NextBatch, history
<1>4. InFlight' \subseteq InFlight
  BY <1>2 DEF InFlight
<1>5. CompletedInv'
  BY <1>2, <1>3 DEF IInv, CompletedInv
<1> QED BY <1>2, <1>3, <1>4, <1>5, PusherKeeps

LEMMA PushMetricsKeeps ==
  ASSUME IInv, PushMetrics
  PROVE  IInv'
<1>1. /\ UNCHANGED <<rows, request>> /\ delivered' = delivered \cup FormatMetrics(pusher.batch)
      /\ \E pc \in {"stamp", "batch"} : pusher' = [pusher EXCEPT !.pc = pc]
  BY DEF PushMetrics
<1>2. /\ PusherShape' /\ pusher'.pc # "wait"
      /\ pusher'.found = pusher.found /\ pusher'.completed = pusher.completed
  BY <1>1 DEF IInv, Shapes, PusherShape
<1>3. InFlight' \subseteq InFlight
  BY <1>2 DEF InFlight
<1>4. \A c \in pusher.completed : Series(c) \subseteq delivered'
  BY <1>1, SeriesOfAll DEF IInv, CompletedInv
<1>5. CompletedInv'
  <2>1. ASSUME NEW c \in pusher'.completed PROVE (Series(c) \subseteq delivered)'
    BY <1>2, <1>4, <2>1 DEF Series, FormatMetrics
  <2> QED BY <1>2, <2>1 DEF CompletedInv
<1> QED BY <1>1, <1>2, <1>3, <1>5, PusherKeeps

(* Steps that leave the records in flight and the place of the pusher.     *)
LEMMA SameFlight ==
  ASSUME IInv, UNCHANGED <<rows, request>>, delivered \subseteq delivered', PusherShape',
         pusher'.found = pusher.found, pusher'.completed = pusher.completed,
         pusher'.batch = pusher.batch,
         pusher'.pc = pusher.pc \/ (pusher.pc = "exit" /\ pusher'.pc = "off")
  PROVE  IInv'
<1>1. InFlight' \subseteq InFlight
  BY DEF InFlight
<1>2. CompletedInv'
  BY DEF IInv, CompletedInv, Series, FormatMetrics
<1> QED BY <1>1, <1>2, PusherKeeps

LEMMA SendKeeps ==
  ASSUME IInv, AttemptFails \/ SendFails \/ PusherExits \/ KeeperStopped
  PROVE  IInv'
<1>1. UNCHANGED <<rows, request>> /\ delivered \subseteq delivered'
  BY DEF AttemptFails, SendFails, PusherExits, KeeperStopped, history
<1>2. CASE AttemptFails
  <2>1. PusherShape' /\ pusher'.pc = pusher.pc /\ pusher'.found = pusher.found
        /\ pusher'.completed = pusher.completed /\ pusher'.batch = pusher.batch
    BY <1>2 DEF AttemptFails, IInv, Shapes, PusherShape
  <2> QED BY <1>1, <2>1, SameFlight
<1>3. CASE PusherExits
  <2>1. PusherShape' /\ pusher.pc = "exit" /\ pusher'.pc = "off" /\ pusher'.found = pusher.found
        /\ pusher'.completed = pusher.completed /\ pusher'.batch = pusher.batch
    BY <1>3 DEF PusherExits, IInv, Shapes, PusherShape
  <2> QED BY <1>1, <2>1, SameFlight
<1>4. CASE KeeperStopped
  <2>1. PusherShape' /\ pusher'.pc = pusher.pc /\ pusher'.found = pusher.found
        /\ pusher'.completed = pusher.completed /\ pusher'.batch = pusher.batch
    BY <1>4 DEF KeeperStopped, IInv, Shapes, PusherShape
  <2> QED BY <1>1, <2>1, SameFlight
<1>5. CASE SendFails
  <2>1. PusherShape' /\ pusher'.found = {} /\ pusher'.completed = {}
    BY <1>5, EndFlushFields DEF SendFails, IInv, Shapes, PusherShape
  <2> QED BY <1>1, <2>1, PusherKeeps DEF InFlight, CompletedInv
<1> QED BY <1>2, <1>3, <1>4, <1>5

(* A row of the table that the transaction leaves: as it was, or stamped   *)
(* with what the pusher read and sent of the same resource.                *)
LEMMA StampedRows ==
  ASSUME IInv, pusher.pc = "stamp", NEW u \in Stamped(pusher.completed)
  PROVE  \E r \in rows :
           /\ RowShape(u) /\ u.id = r.id /\ SameKey(u, r)
           /\ \/ u = r /\ \A c \in pusher.completed : c.id # r.id
              \/ \E c \in pusher.completed :
                   c.id = r.id /\ u = Updated(r, c.id, Tags(c), TRUE) /\ Series(u) = Series(c)
<1>1. CASE u \in rows /\ \A c \in pusher.completed : c.id # u.id
  BY <1>1 DEF IInv, Shapes, SameKey
<1>2. ASSUME NEW c \in pusher.completed,
             u \in Update({r \in rows : r.id = c.id}, c.id, Tags(c), TRUE)
      PROVE  \E r \in rows :
               /\ RowShape(u) /\ u.id = r.id /\ SameKey(u, r)
               /\ c.id = r.id /\ u = Updated(r, c.id, Tags(c), TRUE) /\ Series(u) = Series(c)
  <2>1. PICK r \in rows : r.id = c.id /\ u = Updated(r, c.id, Tags(c), TRUE)
    BY <1>2 DEF Update, Updated
  <2>2. /\ RowShape(u) /\ u.id = r.id /\ SameKey(u, r)
        /\ u.labels = c.labels /\ u.annotations = c.annotations
    BY <2>1 DEF Updated, Row, Tags, RowShape, SameKey
  <2>3. SameKey(u, c)
    BY <2>1, <2>2 DEF IInv, FlightInv, InFlight, SameKey
  <2>4. Series(u) = Series(c)
    BY <2>2, <2>3, SameSeries
  <2> QED BY <2>1, <2>2, <2>4
<1>3. \/ u \in rows /\ \A c \in pusher.completed : c.id # u.id
      \/ \E c \in pusher.completed :
           u \in Update({r \in rows : r.id = c.id}, c.id, Tags(c), TRUE)
  BY DEF Stamped
<1>4. CASE \E c \in pusher.completed :
             u \in Update({r \in rows : r.id = c.id}, c.id, Tags(c), TRUE)
  <2>1. PICK c \in pusher.completed :
          u \in Update({r \in rows : r.id = c.id}, c.id, Tags(c), TRUE)
    BY <1>4
  <2>2. PICK r \in rows :
          /\ RowShape(u) /\ u.id = r.id /\ SameKey(u, r)
          /\ c.id = r.id /\ u = Updated(r, c.id, Tags(c), TRUE) /\ Series(u) = Series(c)
    BY <2>1, <1>2
  <2> QED BY <2>2
<1> QED BY <1>1, <1>3, <1>4

LEMMA StampKeeps ==
  ASSUME IInv, StampRecords
  PROVE  IInv'
<1>1. UNCHANGED <<request, delivered>> /\ pusher.pc = "stamp" /\ pusher' = EndFlush(pusher)
  BY DEF StampRecords
<1>2. PusherShape' /\ pusher'.found = {} /\ pusher'.completed = {}
  BY <1>1, EndFlushFields DEF IInv, Shapes, PusherShape
<1>3. CASE rows' = rows
  BY <1>1, <1>2, <1>3, PusherKeeps DEF InFlight, CompletedInv
<1>4. CASE rows' = Stamped(pusher.completed)
  <2>1. \A u \in rows' : \E r \in rows :
           /\ RowShape(u) /\ u.id = r.id /\ SameKey(u, r)
           /\ \/ u = r /\ \A c \in pusher.completed : c.id # r.id
              \/ \E c \in pusher.completed :
                   c.id = r.id /\ u = Updated(r, c.id, Tags(c), TRUE) /\ Series(u) = Series(c)
    BY <1>1, <1>4, StampedRows
  <2>2. Shapes' /\ IdsUsed'
    <3>1. \A u \in rows' : RowShape(u) /\ \E r \in rows : u.id = r.id
      BY <2>1
    <3> QED BY <1>1, <1>2, <3>1 DEF IInv, Shapes, IdsUsed
  <2>3. UniqueIds(rows')
    <3> SUFFICES ASSUME NEW u \in rows', NEW v \in rows', u.id = v.id PROVE u = v
      BY DEF UniqueIds
    <3>1. PICK r \in rows :
            /\ u.id = r.id
            /\ \/ u = r /\ \A c \in pusher.completed : c.id # r.id
               \/ \E c \in pusher.completed : c.id = r.id /\ u = Updated(r, c.id, Tags(c), TRUE)
      BY <2>1
    <3>2. PICK s \in rows :
            /\ v.id = s.id
            /\ \/ v = s /\ \A c \in pusher.completed : c.id # s.id
               \/ \E c \in pusher.completed : c.id = s.id /\ v = Updated(s, c.id, Tags(c), TRUE)
      BY <2>1
    <3>3. r = s
      BY <3>1, <3>2 DEF IInv, UniqueIds
    <3>4. \A c, d \in pusher.completed : c.id = d.id => c = d
      BY DEF IInv, FlightInv, InFlight, UniqueIds
    <3> QED BY <3>1, <3>2, <3>3, <3>4
  <2>4. UniqueKeys'
    <3> SUFFICES ASSUME NEW u \in rows', NEW v \in rows', SameKey(u, v), u.namespace # NoNamespace
                 PROVE  u = v
      BY DEF UniqueKeys
    <3>1. PICK r \in rows : u.id = r.id /\ SameKey(u, r)
      BY <2>1
    <3>2. PICK s \in rows : v.id = s.id /\ SameKey(v, s)
      BY <2>1
    <3>3. r = s
      BY <3>1, <3>2 DEF SameKey, IInv, UniqueKeys
    <3> QED BY <3>1, <3>2, <3>3, <2>3 DEF UniqueIds
  <2>5. SentMeansDelivered'
    <3>1. \A c \in pusher.completed : Series(c) \subseteq delivered
      BY <1>1 DEF IInv, CompletedInv
    <3>2. \A u \in rows' : u \in rows \/ \E c \in pusher.completed : Series(u) = Series(c)
      BY <2>1
    <3>3. \A u \in rows' : u.sent => Series(u) \subseteq delivered
      BY <3>1, <3>2 DEF IInv, SentMeansDelivered
    <3>4. \A u \in rows' : u.sent => Series(u)' \subseteq delivered'
      BY <1>1, <3>3 DEF Series, FormatMetrics
    <3> QED BY <3>4 DEF SentMeansDelivered
  <2>6. FlightInv' /\ CompletedInv'
    BY <1>2 DEF FlightInv, InFlight, UniqueIds, CompletedInv
  <2> QED BY <2>2, <2>3, <2>4, <2>5, <2>6 DEF IInv
<1> QED BY <1>3, <1>4 DEF StampRecords

-----------------------------------------------------------------------------
(* The housekeeper and the end of main *)

(* Rows are taken away, or only grow old.                                  *)
LEMMA OlderRowsKeep ==
  ASSUME IInv, UNCHANGED <<request, pusher, delivered>>, UniqueIds(rows'),
         \A u \in rows' : \E r \in rows :
           /\ RowShape(u) /\ u.id = r.id /\ SameKey(u, r) /\ u.sent = r.sent
           /\ Series(u) = Series(r)
  PROVE  IInv'
<1>1. Shapes' /\ IdsUsed' /\ CompletedInv'
  BY DEF IInv, Shapes, IdsUsed, RequestShape, PusherShape, CompletedInv
<1>2. FlightInv'
  <2>1. ASSUME NEW c \in InFlight, NEW u \in rows', c.id = u.id PROVE SameKey(u, c)
    BY <2>1 DEF IInv, FlightInv, SameKey
  <2> QED BY <2>1 DEF IInv, FlightInv, InFlight, UniqueIds
<1>3. UniqueKeys'
  <2> SUFFICES ASSUME NEW u \in rows', NEW v \in rows', SameKey(u, v), u.namespace # NoNamespace
               PROVE  u = v
    BY DEF UniqueKeys
  <2>1. PICK r \in rows : u.id = r.id /\ SameKey(u, r)
    OBVIOUS
  <2>2. PICK s \in rows : v.id = s.id /\ SameKey(v, s)
    OBVIOUS
  <2>3. SameKey(r, s) /\ r.namespace # NoNamespace
    BY <2>1, <2>2 DEF SameKey
  <2>4. r = s
    BY <2>3 DEF IInv, UniqueKeys
  <2> QED BY <2>1, <2>2, <2>4 DEF UniqueIds
<1>4. SentMeansDelivered'
  BY DEF IInv, SentMeansDelivered
<1> QED BY <1>1, <1>2, <1>3, <1>4 DEF IInv

LEMMA DeleteKeeps ==
  ASSUME IInv, DeleteExpired
  PROVE  IInv'
<1>1. UNCHANGED <<request, pusher, delivered>> /\ rows' \subseteq rows
  BY DEF DeleteExpired, Delete
<1>2. UniqueIds(rows') /\ \A r \in rows : RowShape(r)
  BY <1>1 DEF IInv, UniqueIds, Shapes
<1> QED BY <1>1, <1>2, OlderRowsKeep DEF SameKey

LEMMA AgesKeeps ==
  ASSUME IInv, NEW r \in rows, Ages(r)
  PROVE  IInv'
<1> DEFINE old == [r EXCEPT !.fresh = FALSE]
<1>1. UNCHANGED <<request, pusher, delivered>> /\ rows' = (rows \ {r}) \cup {old}
  BY DEF Ages, history
<1>2. /\ RowShape(old) /\ old.id = r.id /\ SameKey(old, r) /\ old.sent = r.sent
      /\ old.labels = r.labels /\ old.annotations = r.annotations
  <2>1. RowShape(r)
    BY DEF IInv, Shapes
  <2>2. RowShape(old)
    <3>1. PICK o : o = old
      OBVIOUS
    <3> HIDE DEF old
    <3>2. RowShape(o)
      BY <2>1, <3>1 DEF RowShape, old
    <3> QED BY <3>1, <3>2
  <2>3. /\ old.id = r.id /\ old.type = r.type /\ old.name = r.name
        /\ old.namespace = r.namespace /\ old.sent = r.sent
        /\ old.labels = r.labels /\ old.annotations = r.annotations
    BY <2>1 DEF RowShape
  <2> QED BY <2>2, <2>3 DEF SameKey
<1> HIDE DEF old
<1>3. Series(old) = Series(r)
  BY <1>2, SameSeries
<1>4. UniqueIds(rows')
  BY <1>1, <1>2 DEF IInv, UniqueIds
<1>5. \A u \in rows' : \E s \in rows :
        /\ RowShape(u) /\ u.id = s.id /\ SameKey(u, s) /\ u.sent = s.sent
        /\ Series(u) = Series(s)
  BY <1>1, <1>2, <1>3 DEF IInv, Shapes, SameKey
<1> QED BY <1>1, <1>4, <1>5, OlderRowsKeep

(* What no part of the invariant reads. *)
LEMMA SilentKeeps ==
  ASSUME IInv, UNCHANGED <<rows, request, pusher, delivered>>
  PROVE  IInv'
  BY DEF IInv, Shapes, RowShape, RequestShape, PusherShape, IdsUsed, UniqueIds, FlightInv, InFlight,
         CompletedInv, UniqueKeys, SentMeansDelivered, Series, FormatMetrics

-----------------------------------------------------------------------------
LEMMA NextKeeps ==
  ASSUME IInv, MainNext
  PROVE  IInv'
<1>1. CASE UNCHANGED vars
  BY <1>1, SilentKeeps DEF vars
<1>2. CASE Next
  <2>1. CASE \E q \in Request : \E h \in Http(q) : PostAdmissionRequest(q, h)
    BY <2>1, PostKeeps
  <2>2. ASSUME NEW q \in Request, RequestStep(q) PROVE IInv'
    BY <2>2, FindKeeps, CreateRecordKeeps, UpdateRecordKeeps, WriteFailsKeeps DEF RequestStep
  <2>3. CASE TickFlush \/ FinalFlush
    BY <2>3, FlushKeeps DEF TickFlush, FinalFlush
  <2>4. CASE SendStep
    BY <2>4, NextBatchKeeps, PushMetricsKeeps, SendKeeps, StampKeeps DEF SendStep
  <2>5. CASE \E r \in rows : Ages(r)
    BY <2>5, AgesKeeps
  <2>6. CASE KeeperStep
    <3>1. CASE DeleteExpired
      BY <3>1, DeleteKeeps
    <3>2. CASE FindExpired \/ DeleteFails \/ KeeperExits
      <4>1. UNCHANGED <<rows, request, pusher, delivered>>
        BY <3>2 DEF FindExpired, DeleteFails, KeeperExits, history
      <4> QED BY <4>1, SilentKeeps
    <3> QED BY <2>6, <3>1, <3>2 DEF KeeperStep
  <2>7. CASE ServerStops \/ PusherStopped
    <3>1. UNCHANGED <<rows, request, pusher, delivered>>
      BY <2>7 DEF ServerStops, PusherStopped, history
    <3> QED BY <3>1, SilentKeeps
  <2>8. CASE KeeperStopped
    BY <2>8, SendKeeps
  <2> QED BY <1>2, <2>1, <2>2, <2>3, <2>4, <2>5, <2>6, <2>7, <2>8 DEF Next
<1> QED BY <1>1, <1>2 DEF MainNext

LEMMA Invariance == MainSpec => []IInv
<1>1. MainInit => IInv
  BY InitInv DEF MainInit
<1>2. IInv /\ [MainNext]_<<vars, backfillVars, tlsVars>> => IInv'
  <2>1. ASSUME IInv, UNCHANGED <<vars, backfillVars, tlsVars>> PROVE IInv'
    BY <2>1, SilentKeeps DEF vars
  <2> QED BY <2>1, NextKeeps
<1> QED BY <1>1, <1>2, PTL DEF MainSpec

(* Two requests for the same new resource that both find no record leave   *)
(* one row (genericWriteDataToStorage with the ON CONFLICT of Create), and *)
(* no write by id of the pusher or a later request makes a second one.     *)
THEOREM OneRowPerResource == MainSpec => []UniqueKeys
<1>1. IInv => UniqueKeys
  BY DEF IInv
<1> QED BY <1>1, Invariance, PTL

(* A row is marked as sent only with labels and annotations the endpoint   *)
(* has accepted: the pusher writes back the record it has read, so an      *)
(* update that came in while it was sending is not taken for sent.         *)
THEOREM NothingUnsentIsStamped == MainSpec => []SentMeansDelivered
<1>1. IInv => SentMeansDelivered
  BY DEF IInv
<1> QED BY <1>1, Invariance, PTL
-----------------------------------------------------------------------------
(* Answers *)

(* What a request may be told. *)
Answered(h, tags, answer) ==
  \/ answer.allowed
  \/ Malformed(h) /\ answer = BadRequest
  \/ answer = Dropped /\ tags.namespace = NoNamespace

LEMMA AllowAnswers ==
  ASSUME NEW h, NEW tags, NEW answer \in AllowResponses(h) PROVE Answered(h, tags, answer)
  BY DEF AllowResponses, marshallResponseToJSON, Answered

LEMMA ReplyAnswers ==
  ASSUME Shapes, NeverDenied, NEW q \in Request, NEW h, NEW answer,
         Answered(h, request[q].tags, answer), Reply(q, h, answer)
  PROVE  NeverDenied'
<1>1. DOMAIN request = Request
  BY DEF Shapes
<1>2. request'[q] = [request[q] EXCEPT !.pc = "done", !.http = h, !.found = {}, !.answer = answer]
  BY <1>1 DEF Reply
<1>3. /\ request'[q].http = h /\ request'[q].answer = answer
      /\ request'[q].tags = request[q].tags
  BY <1>2 DEF Shapes, RequestShape
<1>4. \A p \in Request : p # q => request'[p] = request[p]
  BY <1>1 DEF Reply
<1>5. ASSUME NEW p \in Request, request'[p].pc = "done"
      PROVE  Answered(request'[p].http, request'[p].tags, request'[p].answer)
  <2>1. CASE p = q
    BY <1>3, <2>1
  <2>2. CASE p # q
    BY <1>4, <1>5, <2>2 DEF NeverDenied, Answered
  <2> QED BY <2>1, <2>2
<1> QED BY <1>5 DEF NeverDenied, Answered

LEMMA UnansweredKeeps ==
  ASSUME NeverDenied, NEW q \in Request, Moved(q), request'[q].pc # "done" PROVE NeverDenied'
  BY DEF NeverDenied, Moved

LEMMA AnswersKeep ==
  ASSUME IInv, NeverDenied, MainNext PROVE NeverDenied'
<1>1. CASE UNCHANGED request
  BY <1>1 DEF NeverDenied
<1>2. ASSUME NEW q \in Request, NEW h \in Http(q), PostAdmissionRequest(q, h) PROVE NeverDenied'
  <2>1. CASE \E answer : Answered(h, request[q].tags, answer) /\ Reply(q, h, answer)
    BY <2>1, ReplyAnswers DEF IInv
  <2>2. CASE Malformed(h) /\ Reply(q, h, BadRequest)
    BY <2>1, <2>2 DEF Answered
  <2>3. CASE \E answer \in AllowResponses(h) : Reply(q, h, answer)
    BY <2>1, <2>3, AllowAnswers
  <2>4. ASSUME NEW tags,
               request' = [request EXCEPT ![q].pc = "find", ![q].http = h, ![q].tags = tags]
        PROVE  NeverDenied'
    <3>1. request'[q].pc = "find" /\ \A p \in Request : p # q => request'[p] = request[p]
      BY <2>4 DEF IInv, Shapes, RequestShape
    <3> QED BY <3>1 DEF NeverDenied
  <2> QED BY <1>2, <2>2, <2>3, <2>4 DEF PostAdmissionRequest
<1>3. ASSUME NEW q \in Request, RequestStep(q) PROVE NeverDenied'
  <2>1. CASE FindFirstBy(q) \/ FindFails(q)
    <3>1. ASSUME NEW pc \in {"create", "update"}, NEW found,
                 request' = [request EXCEPT ![q].pc = pc, ![q].found = found]
          PROVE  request'[q].pc # "done" /\ \A p \in Request : p # q => request'[p] = request[p]
      BY <3>1 DEF IInv, Shapes, RequestShape
    <3>2. request'[q].pc # "done" /\ \A p \in Request : p # q => request'[p] = request[p]
      <4>1. CASE request' = [request EXCEPT ![q].pc = "create"]
        <5>1. request' = [request EXCEPT ![q].pc = "create", ![q].found = request[q].found]
          BY <4>1 DEF IInv, Shapes, RequestShape
        <5> QED BY <3>1, <5>1
      <4>2. CASE \E r : request' = [request EXCEPT ![q].pc = "update", ![q].found = {r}]
        BY <3>1, <4>2
      <4> QED BY <2>1, <4>1, <4>2 DEF FindFirstBy, FindFails
    <3> QED BY <3>2 DEF NeverDenied
  <2>2. CASE \E answer \in AllowResponses(request[q].http) : Reply(q, request[q].http, answer)
    BY <2>2, AllowAnswers, ReplyAnswers DEF IInv
  <2>3. CASE CreateRecord(q) \/ UpdateRecord(q)
    BY <2>2, <2>3 DEF CreateRecord, UpdateRecord, Written
  <2>4. CASE WriteFails(q)
    <3>1. CASE request[q].tags.namespace = NoNamespace /\ Reply(q, request[q].http, Dropped)
      <4>1. Answered(request[q].http, request[q].tags, Dropped)
        BY <3>1 DEF Answered
      <4> QED BY <3>1, <4>1, ReplyAnswers DEF IInv
    <3> QED BY <2>2, <2>4, <3>1 DEF WriteFails
  <2> QED BY <1>3, <2>1, <2>3, <2>4 DEF RequestStep
<1>4. CASE Next
  <2>1. CASE TickFlush \/ FinalFlush \/ SendStep
    <3>1. TickFlush \/ FinalFlush => UNCHANGED request
      BY DEF TickFlush, FinalFlush, Flush
    <3>2. NextBatch => UNCHANGED request
      BY DEF NextBatch
    <3>5. PushMetrics => UNCHANGED request
      BY DEF PushMetrics
    <3>3. AttemptFails \/ SendFails => UNCHANGED request
      BY DEF AttemptFails, SendFails
    <3>4. StampRecords \/ PusherExits => UNCHANGED request
      BY DEF StampRecords, PusherExits
    <3> QED BY <1>1, <2>1, <3>1, <3>2, <3>3, <3>4, <3>5 DEF SendStep
  <2>2. CASE \E r \in rows : Ages(r)
    BY <1>1, <2>2 DEF Ages
  <2>3. CASE KeeperStep \/ ServerStops \/ PusherStopped \/ KeeperStopped
    <3>1. FindExpired \/ DeleteExpired => UNCHANGED request
      BY DEF FindExpired, DeleteExpired
    <3>2. DeleteFails \/ KeeperExits => UNCHANGED request
      BY DEF DeleteFails, KeeperExits
    <3>3. ServerStops \/ PusherStopped => UNCHANGED request
      BY DEF ServerStops, PusherStopped
    <3>4. KeeperStopped => UNCHANGED request
      BY DEF KeeperStopped
    <3> QED BY <1>1, <2>3, <3>1, <3>2, <3>3, <3>4 DEF KeeperStep
  <2> QED BY <1>2, <1>3, <1>4, <2>1, <2>2, <2>3 DEF Next
<1> QED BY <1>1, <1>4 DEF MainNext, vars

(* No admission request is denied whatever the storage does: an answer is  *)
(* the allow response, except for a body that is no review, and for the    *)
(* write that fails on a resource without a namespace, which panics.       *)
THEOREM NoRequestIsDenied == MainSpec => []NeverDenied
<1>1. MainInit => NeverDenied
  BY DEF MainInit, Init, ServerOff, NeverDenied
<1>2. IInv /\ NeverDenied /\ [MainNext]_<<vars, backfillVars, tlsVars>> => NeverDenied'
  <2>1. ASSUME NeverDenied, UNCHANGED <<vars, backfillVars, tlsVars>> PROVE NeverDenied'
    BY <2>1 DEF vars, NeverDenied
  <2> QED BY <2>1, AnswersKeep
<1> QED BY <1>1, <1>2, Invariance, PTL DEF MainSpec

-----------------------------------------------------------------------------
(* What the handlers write *)

(* Of nodes and namespaces, and of nothing else, the record has no         *)
(* namespace.                                                              *)
Placed(t) == t.namespace = NoNamespace <=> t.type \in {"node", "namespace"}

(* The formatter of a handler fits its type. *)
Fits(h) ==
  \/ h.formatter \in {"pod", "workload"} /\ h.type \notin {"node", "namespace"}
  \/ h.formatter \in {"node", "namespace"} /\ h.type = h.formatter

LEMMA HandlersFit ==
  ASSUME NEW e \in NewWebhookFactory PROVE Fits(e.handler)
<1>1. /\ Fits(PodHandler) /\ Fits(NamespaceHandler) /\ Fits(NodeHandler)
      /\ Fits(DeploymentHandler) /\ Fits(StatefulSetHandler) /\ Fits(DaemonSetHandler)
  BY DEF Fits, PodHandler, NamespaceHandler, NodeHandler, DeploymentHandler,
         StatefulSetHandler, DaemonSetHandler, Configured, Handler
<1>2. /\ Fits(ReplicaSetHandler) /\ Fits(ServiceHandler) /\ Fits(PersistentVolumeClaimHandler)
      /\ Fits(CustomResourceDefinitionHandler) /\ Fits(IngressHandler) /\ Fits(GatewayHandler)
  BY DEF Fits, ReplicaSetHandler, ServiceHandler, PersistentVolumeClaimHandler,
         CustomResourceDefinitionHandler, IngressHandler, GatewayHandler, Disabled, Handler
<1>3. /\ Fits(JobHandler) /\ Fits(CronJobHandler) /\ Fits(StorageClassHandler)
      /\ Fits(IngressClassHandler) /\ Fits(GatewayClassHandler)
  BY DEF Fits, JobHandler, CronJobHandler, StorageClassHandler, IngressClassHandler,
         GatewayClassHandler, Configured, CountOnly, Handler
<1>4. ASSUME NEW group, NEW versions, NEW kind, NEW h, Fits(h),
             e \in register(group, versions, kind, h)
      PROVE  Fits(e.handler)
  BY <1>4 DEF register
<1> QED BY <1>1, <1>2, <1>3, <1>4 DEF NewWebhookFactory

LEMMA RegistrationFits ==
  ASSUME NEW gvk, registered(gvk) PROVE Fits(Registration(gvk))
<1>1. (CHOOSE e \in NewWebhookFactory : e.gvk = gvk) \in NewWebhookFactory
  BY DEF registered
<1> QED BY <1>1, HandlersFit DEF Registration

(* A record is what ResourceTags makes of an object of the review.         *)
LEMMA ReviewWrites ==
  ASSUME NEW q \in Request, NEW h \in Http(q), ~Malformed(h),
         NEW tags \in Review(requestBodyToModelReview(h.body))
  PROVE  tags = Tags(tags) /\ Placed(tags)
<1> DEFINE review == requestBodyToModelReview(h.body)
           handler == Registration(review.gvk)
<1>1. /\ review.old = h.body.review.oldObject
      /\ review.new = h.body.review.object
  BY DEF requestBodyToModelReview, NewAdmissionReviewV1, NewAdmissionReviewV1Beta1, AdmissionReview
<1>2. Fits(handler) /\ \E o \in Raw(review) : tags = formatData(handler, o)
  BY RegistrationFits DEF Review, Execute
<1>3. PICK o \in Raw(review) : tags = formatData(handler, o)
  BY <1>2
<1>4. o.namespace # NoNamespace
  BY <1>1, ObjectAssumption DEF Raw
<1>5. PICK ns : /\ tags = ResourceTags(handler, o, ns)
                /\ ns = NoNamespace <=> handler.type \in {"node", "namespace"}
  <2>1. CASE handler.formatter = "pod"
    BY <1>2, <1>3, <1>4, <2>1 DEF Fits, formatData, PodDataFormatter
  <2>2. CASE handler.formatter = "workload"
    BY <1>2, <1>3, <1>4, <2>2 DEF Fits, formatData, WorkloadDataFormatter
  <2>3. CASE handler.formatter = "namespace"
    BY <1>2, <1>3, <2>3 DEF Fits, formatData, NamespaceDataFormatter
  <2>4. CASE handler.formatter = "node"
    BY <1>2, <1>3, <2>4 DEF Fits, formatData, NodeDataFormatter
  <2> QED BY <1>2, <2>1, <2>2, <2>3, <2>4 DEF Fits
<1> QED BY <1>5 DEF ResourceTags, Tags, Placed

-----------------------------------------------------------------------------
(* Lost updates *)

(* A record that was read from the table: a row with its id is still of    *)
(* the same resource.                                                      *)
Known(c) ==
  /\ c.id \in Request /\ request[c.id].pc = "done"
  /\ \A r \in rows : r.id = c.id => SameKey(r, c)

Asking(q) == request[q].pc \in {"find", "create", "update"}

KeeperShape ==
  keeper = [pc |-> keeper.pc, running |-> keeper.running, cancelled |-> keeper.cancelled,
            expired |-> keeper.expired]

(* What a request and the housekeeper have read.                           *)
RequestReads(q) ==
  /\ Asking(q) => request[q].tags = Tags(request[q].tags) /\ Placed(request[q].tags)
  /\ request[q].pc \in {"new", "find", "create"} => request[q].found = {}
  /\ request[q].pc = "update" =>
       \E f \in request[q].found : request[q].found = {f} /\ Known(f) /\ SameKey(f, request[q].tags)

KeeperReads == KeeperShape /\ \A c \in keeper.expired : Known(c)

ReadInv ==
  /\ \A r \in rows : Placed(r)
  /\ \A q \in Request : RequestReads(q)
  /\ KeeperReads

(* The last record written for a resource has been sent, or is the record  *)
(* of a row, sent or not, if no stale write went over it.                  *)
KeptInv ==
  \A t \in latest :
    \/ Key(t) \in raced
    \/ Series(t) \subseteq delivered
    \/ \E r \in rows : Tags(r) = t

(* Requests that are done stay done, and a row has the id and the resource *)
(* of an old one, or the id of a request that was not done.                *)
Descends ==
  /\ \A p \in Request : request[p].pc = "done" => request'[p].pc = "done"
  /\ \A u \in rows' :
       /\ Placed(u)
       /\ request[u.id].pc # "done" \/ \E r \in rows : u.id = r.id /\ SameKey(u, r)

LEMMA SameRowsDescend ==
  ASSUME ReadInv, UNCHANGED rows,
         \A p \in Request : request[p].pc = "done" => request'[p].pc = "done"
  PROVE  Descends
  BY DEF ReadInv, Descends, SameKey

LEMMA SameKeyPlaced ==
  ASSUME ReadInv, NEW u, NEW r \in rows, SameKey(u, r) PROVE Placed(u)
  BY DEF ReadInv, Placed, SameKey

LEMMA UpdateDescends ==
  ASSUME IInv, ReadInv, NEW q \in Request, UpdateRecord(q)
  PROVE  Descends
<1>1. /\ request[q].pc # "done"
      /\ \A p \in Request : request[p].pc = "done" => request'[p].pc = "done"
  BY DoneStays DEF UpdateRecord, IInv
<1>2. PICK f \in request[q].found : rows' = Update(rows, f.id, request[q].tags, FALSE)
  BY DEF UpdateRecord
<1>3. \A u \in rows' : \E r \in rows : u.id = r.id /\ SameKey(u, r)
  BY <1>2 DEF Update, Row, Tags, SameKey
<1> QED BY <1>1, <1>3, SameKeyPlaced DEF Descends

LEMMA CreateDescends ==
  ASSUME IInv, ReadInv, NEW q \in Request, CreateRecord(q)
  PROVE  Descends
<1> DEFINE new == Row(q, request[q].tags, FALSE)
<1>1. /\ request[q].pc # "done"
      /\ \A p \in Request : request[p].pc = "done" => request'[p].pc = "done"
  BY DoneStays DEF CreateRecord, IInv
<1>2. rows' \subseteq rows \cup {new}
  BY DEF CreateRecord, Create
<1>3. new.id = q /\ Placed(new)
  BY DEF CreateRecord, ReadInv, RequestReads, Asking, Row, Placed
<1> HIDE DEF new
<1> QED BY <1>1, <1>2, <1>3 DEF ReadInv, Descends, SameKey

LEMMA StampDescends ==
  ASSUME IInv, ReadInv, StampRecords
  PROVE  Descends
<1>1. UNCHANGED request
  BY DEF StampRecords
<1>2. CASE rows' = rows
  BY <1>1, <1>2, SameRowsDescend
<1>3. CASE rows' = Stamped(pusher.completed)
  <2>1. \A u \in rows' : \E r \in rows : u.id = r.id /\ SameKey(u, r)
    BY <1>3, StampedRows DEF StampRecords
  <2> QED BY <1>1, <2>1, SameKeyPlaced DEF Descends
<1> QED BY <1>2, <1>3 DEF StampRecords

LEMMA KeeperDescends ==
  ASSUME ReadInv, DeleteExpired \/ \E r \in rows : Ages(r)
  PROVE  Descends
<1>1. UNCHANGED request
  BY DEF DeleteExpired, Ages
<1>2. \A u \in rows' : \E r \in rows : u.id = r.id /\ SameKey(u, r)
  <2>1. CASE DeleteExpired
    BY <2>1 DEF DeleteExpired, Delete, SameKey
  <2>2. ASSUME NEW r \in rows, Ages(r) 
        PROVE  \A u \in rows' : \E s \in rows : u.id = s.id /\ SameKey(u, s)
    <3>1. [r EXCEPT !.fresh = FALSE].id = r.id /\ SameKey([r EXCEPT !.fresh = FALSE], r)
      BY DEF SameKey
    <3> QED BY <2>2, <3>1 DEF Ages, SameKey
  <2> QED BY <2>1, <2>2
<1> QED BY <1>1, <1>2, SameKeyPlaced DEF Descends

LEMMA SilentDescends ==
  ASSUME ReadInv, UNCHANGED <<rows, request>> PROVE Descends
  BY SameRowsDescend

LEMMA MovesDescend ==
  ASSUME IInv, ReadInv, NEW q \in Request, Moved(q), request[q].pc # "done", UNCHANGED rows
  PROVE  Descends
  BY SameRowsDescend DEF Moved

LEMMA PostMoves ==
  ASSUME IInv, NEW q \in Request, NEW h, PostAdmissionRequest(q, h)
  PROVE  Moved(q) /\ request[q].pc # "done" /\ UNCHANGED rows
<1>1. CASE \E answer : Reply(q, h, answer)
  BY <1>1, ReplyMoves DEF PostAdmissionRequest, IInv
<1>2. CASE \E tags : request' = [request EXCEPT ![q].pc = "find", ![q].http = h, ![q].tags = tags]
  BY <1>2 DEF PostAdmissionRequest, IInv, Shapes, RequestShape, Moved
<1> QED BY <1>1, <1>2 DEF PostAdmissionRequest

LEMMA FindMoves ==
  ASSUME IInv, NEW q \in Request, FindFirstBy(q) \/ FindFails(q)
  PROVE  Moved(q) /\ request[q].pc # "done" /\ UNCHANGED rows
<1>1. request[q].pc # "done" /\ UNCHANGED rows
  BY DEF FindFirstBy, FindFails
<1>2. CASE request' = [request EXCEPT ![q].pc = "create"]
  BY <1>1, <1>2 DEF IInv, Shapes, RequestShape, Moved
<1>3. CASE \E r : request' = [request EXCEPT ![q].pc = "update", ![q].found = {r}]
  BY <1>1, <1>3 DEF IInv, Shapes, RequestShape, Moved
<1> QED BY <1>2, <1>3 DEF FindFirstBy, FindFails

LEMMA WriteFailsMoves ==
  ASSUME IInv, NEW q \in Request, WriteFails(q)
  PROVE  Moved(q) /\ request[q].pc # "done" /\ UNCHANGED rows
  BY ReplyMoves DEF WriteFails, IInv

(* Steps of nobody's request that leave the rows alone.                    *)
Silent == UNCHANGED <<rows, request>>

LEMMA SilentSteps ==
  /\ TickFlush \/ FinalFlush \/ NextBatch \/ PushMetrics \/ AttemptFails => Silent
  /\ SendFails \/ PusherExits \/ FindExpired \/ DeleteFails \/ KeeperExits => Silent
  /\ ServerStops \/ KeeperStopped \/ PusherStopped => Silent
<1>1. TickFlush \/ FinalFlush => Silent
  BY DEF TickFlush, FinalFlush, Flush, Silent
<1>2. NextBatch => Silent
  BY DEF NextBatch, Silent
<1>3. PushMetrics \/ AttemptFails \/ SendFails \/ PusherExits => Silent
  BY DEF PushMetrics, AttemptFails, SendFails, PusherExits, Silent
<1>4. FindExpired \/ DeleteFails \/ KeeperExits => Silent
  BY DEF FindExpired, DeleteFails, KeeperExits, Silent
<1>5. ServerStops \/ KeeperStopped \/ PusherStopped => Silent
  BY DEF ServerStops, KeeperStopped, PusherStopped, Silent
<1> QED BY <1>1, <1>2, <1>3, <1>4, <1>5

(* Every step is one of these. *)
LEMMA Steps ==
  ASSUME MainNext
  PROVE  \/ \E q \in Request : \E h \in Http(q) : PostAdmissionRequest(q, h)
         \/ \E q \in Request : FindFirstBy(q) \/ FindFails(q)
         \/ \E q \in Request : CreateRecord(q) \/ UpdateRecord(q)
         \/ \E q \in Request : WriteFails(q)
         \/ StampRecords \/ DeleteExpired
         \/ \E r \in rows : Ages(r)
         \/ TickFlush \/ FinalFlush \/ NextBatch \/ PushMetrics \/ AttemptFails
         \/ SendFails \/ PusherExits \/ FindExpired \/ DeleteFails \/ KeeperExits
         \/ ServerStops \/ KeeperStopped \/ PusherStopped
         \/ UNCHANGED vars
  BY DEF MainNext, Next, RequestStep, SendStep, KeeperStep

LEMMA StepDescends ==
  ASSUME IInv, ReadInv, MainNext
  PROVE  Descends
<1>1. ASSUME NEW q \in Request, NEW h \in Http(q), PostAdmissionRequest(q, h) PROVE Descends
  BY <1>1, PostMoves, MovesDescend
<1>2. ASSUME NEW q \in Request, FindFirstBy(q) \/ FindFails(q) PROVE Descends
  BY <1>2, FindMoves, MovesDescend
<1>3. ASSUME NEW q \in Request, WriteFails(q) PROVE Descends
  BY <1>3, WriteFailsMoves, MovesDescend
<1>4. CASE Silent \/ UNCHANGED vars
  BY <1>4, SilentDescends DEF Silent, vars
<1> QED BY <1>1, <1>2, <1>3, <1>4, Steps, SilentSteps, UpdateDescends, CreateDescends,
           StampDescends, KeeperDescends

LEMMA KnownStays ==
  ASSUME Descends, NEW c, Known(c) PROVE Known(c)'
  BY DEF Descends, Known, SameKey

(* A request that does not move still knows what it has read.              *)
LEMMA ReadsStay ==
  ASSUME Descends, NEW q, RequestReads(q), request'[q] = request[q] PROVE RequestReads(q)'
<1>1. Asking(q)' = Asking(q) /\ (Placed(request[q].tags))' = Placed(request[q].tags)
  BY DEF Asking, Placed
<1>2. ASSUME NEW f, Known(f) PROVE Known(f)'
  BY <1>2, KnownStays
<1> QED BY <1>1, <1>2 DEF RequestReads, Placed, Asking, SameKey, Tags

LEMMA KeeperStays ==
  ASSUME Descends, KeeperReads, UNCHANGED keeper PROVE KeeperReads'
<1>1. ASSUME NEW f, Known(f) PROVE Known(f)'
  BY <1>1, KnownStays
<1> QED BY <1>1 DEF KeeperReads, KeeperShape

(* One request has moved. *)
LEMMA MovedReads ==
  ASSUME ReadInv, Descends, NEW q \in Request, Moved(q), RequestReads(q)', UNCHANGED keeper
  PROVE  ReadInv'
<1>1. \A p \in Request : RequestReads(p)'
  BY ReadsStay DEF ReadInv, Moved
<1>2. \A u \in rows' : Placed(u)
  BY DEF Descends
<1>3. KeeperReads'
  BY KeeperStays DEF ReadInv
<1> QED BY <1>1, <1>2, <1>3 DEF ReadInv, Placed

LEMMA DoneReads ==
  ASSUME NEW q, request'[q].pc = "done" PROVE RequestReads(q)'
  BY DEF RequestReads, Asking

LEMMA PostReads ==
  ASSUME IInv, ReadInv, NEW q \in Request, NEW h \in Http(q), PostAdmissionRequest(q, h)
  PROVE  ReadInv'
<1>1. Moved(q) /\ Descends /\ UNCHANGED keeper
  BY PostMoves, MovesDescend DEF PostAdmissionRequest
<1>2. ASSUME NEW answer, Reply(q, h, answer) PROVE RequestReads(q)'
  BY <1>2, ReplyMoves, DoneReads DEF IInv
<1>3. ASSUME ~Malformed(h), NEW tags \in Review(requestBodyToModelReview(h.body)),
             request' = [request EXCEPT ![q].pc = "find", ![q].http = h, ![q].tags = tags]
      PROVE  RequestReads(q)'
  <2>1. tags = Tags(tags) /\ Placed(tags)
    BY <1>3, ReviewWrites
  <2>2. request[q].found = {}
    BY DEF ReadInv, RequestReads, PostAdmissionRequest
  <2>3. request'[q].pc = "find" /\ request'[q].tags = tags /\ request'[q].found = {}
    BY <1>3, <2>2 DEF IInv, Shapes, RequestShape
  <2> QED BY <2>1, <2>3 DEF RequestReads, Asking, Placed, Tags
<1>4. RequestReads(q)'
  BY <1>2, <1>3 DEF PostAdmissionRequest
<1> QED BY <1>1, <1>4, MovedReads

LEMMA FindReads ==
  ASSUME IInv, ReadInv, NEW q \in Request, FindFirstBy(q) \/ FindFails(q)
  PROVE  ReadInv'
<1>1. Moved(q) /\ Descends /\ UNCHANGED <<keeper, rows>>
  BY FindMoves, MovesDescend DEF FindFirstBy, FindFails
<1>2. /\ request[q].found = {} /\ request[q].tags = Tags(request[q].tags)
      /\ Placed(request[q].tags)
  BY DEF ReadInv, RequestReads, Asking, FindFirstBy, FindFails
<1>3. CASE request' = [request EXCEPT ![q].pc = "create"]
  <2>1. /\ request'[q].pc = "create" /\ request'[q].tags = request[q].tags
        /\ request'[q].found = {}
    BY <1>2, <1>3 DEF IInv, Shapes, RequestShape
  <2>2. RequestReads(q)'
    BY <1>2, <2>1 DEF RequestReads, Asking, Placed, Tags
  <2> QED BY <1>1, <2>2, MovedReads
<1>4. ASSUME NEW r \in FindBy(rows, request[q].tags),
             request' = [request EXCEPT ![q].pc = "update", ![q].found = {r}]
      PROVE  ReadInv'
  <2>1. /\ request'[q].pc = "update" /\ request'[q].tags = request[q].tags
        /\ request'[q].found = {r}
    <3>1. DOMAIN request = Request /\ RequestShape(request[q])
      BY DEF IInv, Shapes
    <3>2. request'[q] = [request[q] EXCEPT !.pc = "update", !.found = {r}]
      BY <1>4, <3>1
    <3> QED BY <3>1, <3>2 DEF RequestShape
  <2>2. SameKey(r, request[q].tags)
    BY <1>2 DEF FindBy, ReadInv, Placed, SameKey
  <2>3. Known(r)
    BY DEF IInv, IdsUsed, UniqueIds, FindBy, Known, SameKey
  <2>4. Known(r)'
    BY <1>1, <2>3, KnownStays
  <2>5. RequestReads(q)'
    BY <1>2, <2>1, <2>2, <2>4 DEF RequestReads, Asking, Placed, Tags, SameKey
  <2> QED BY <1>1, <2>5, MovedReads
<1> QED BY <1>3, <1>4 DEF FindFirstBy, FindFails

LEMMA WriteReads ==
  ASSUME IInv, ReadInv, NEW q \in Request, CreateRecord(q) \/ UpdateRecord(q) \/ WriteFails(q)
  PROVE  ReadInv'
<1>1. Moved(q) /\ request'[q].pc = "done" /\ UNCHANGED keeper
  <2>1. CASE CreateRecord(q) \/ UpdateRecord(q)
    BY <2>1, DoneStays DEF IInv, CreateRecord, UpdateRecord
  <2>2. CASE WriteFails(q)
    BY <2>2, ReplyMoves DEF IInv, WriteFails
  <2> QED BY <2>1, <2>2
<1>2. Descends
  BY CreateDescends, UpdateDescends, WriteFailsMoves, MovesDescend
<1> QED BY <1>1, <1>2, DoneReads, MovedReads

(* The requests stay where they are. *)
LEMMA OthersRead ==
  ASSUME ReadInv, Descends, UNCHANGED request, KeeperReads' PROVE ReadInv'
<1>1. \A p \in Request : RequestReads(p)'
  BY ReadsStay DEF ReadInv
<1>2. \A u \in rows' : Placed(u)
  BY DEF Descends
<1> QED BY <1>1, <1>2 DEF ReadInv, Placed

LEMMA KeeperStepReads ==
  ASSUME IInv, ReadInv, FindExpired \/ DeleteExpired \/ DeleteFails \/ KeeperExits \/ ServerStops
  PROVE  ReadInv'
<1>1. Descends /\ UNCHANGED request
  BY KeeperDescends, SilentSteps, SilentDescends DEF Silent, DeleteExpired
<1>2. CASE FindExpired
  <2>1. KeeperShape' /\ keeper'.expired = Expired(rows) /\ UNCHANGED <<rows, request>>
    BY <1>2 DEF FindExpired, ReadInv, KeeperReads, KeeperShape
  <2>2. \A c \in Expired(rows) : Known(c)
    BY DEF IInv, IdsUsed, UniqueIds, Expired, Known, SameKey
  <2>3. KeeperReads'
    BY <1>1, <2>1, <2>2, KnownStays DEF KeeperReads
  <2> QED BY <1>1, <2>3, OthersRead
<1>3. CASE DeleteExpired \/ DeleteFails
  <2>1. KeeperShape' /\ keeper'.expired = {}
    BY <1>3 DEF DeleteExpired, DeleteFails, ReadInv, KeeperReads, KeeperShape
  <2> QED BY <1>1, <2>1, OthersRead DEF KeeperReads
<1>4. CASE KeeperExits \/ ServerStops
  <2>1. KeeperShape' /\ keeper'.expired = keeper.expired
    BY <1>4 DEF KeeperExits, ServerStops, ReadInv, KeeperReads, KeeperShape
  <2>2. \A c \in keeper.expired : Known(c)'
    BY <1>1, KnownStays DEF ReadInv, KeeperReads
  <2> QED BY <1>1, <2>1, <2>2, OthersRead DEF KeeperReads
<1> QED BY <1>2, <1>3, <1>4

LEMMA ReadKeeps ==
  ASSUME IInv, ReadInv, MainNext
  PROVE  ReadInv'
<1>1. Descends
  BY StepDescends
<1>2. CASE UNCHANGED <<request, keeper>>
  BY <1>1, <1>2, KeeperStays, OthersRead DEF ReadInv
<1>3. TickFlush \/ FinalFlush \/ NextBatch \/ StampRecords => UNCHANGED <<request, keeper>>
  BY DEF TickFlush, FinalFlush, Flush, NextBatch, StampRecords
<1>4. /\ PushMetrics \/ AttemptFails \/ SendFails \/ PusherExits => UNCHANGED <<request, keeper>>
      /\ KeeperStopped \/ PusherStopped => UNCHANGED <<request, keeper>>
  BY DEF PushMetrics, AttemptFails, SendFails, PusherExits, KeeperStopped, PusherStopped
<1>5. (\E r \in rows : Ages(r)) \/ UNCHANGED vars => UNCHANGED <<request, keeper>>
  BY DEF Ages, vars
<1> QED BY <1>2, <1>3, <1>4, <1>5, Steps, PostReads, FindReads, WriteReads, KeeperStepReads

(* Series are kept by the endpoint. *)
LEMMA SeriesStay ==
  ASSUME IInv, MainNext PROVE delivered \subseteq delivered'
<1>1. TickFlush \/ FinalFlush \/ NextBatch \/ StampRecords => UNCHANGED delivered
  BY DEF TickFlush, FinalFlush, Flush, NextBatch, StampRecords, history
<1>2. PushMetrics \/ AttemptFails \/ SendFails \/ PusherExits => delivered \subseteq delivered'
  BY DEF PushMetrics, AttemptFails, SendFails, PusherExits, history
<1>3. FindExpired \/ DeleteExpired \/ DeleteFails \/ KeeperExits => UNCHANGED delivered
  BY DEF FindExpired, DeleteExpired, DeleteFails, KeeperExits, history
<1>4. ServerStops \/ KeeperStopped \/ PusherStopped \/ UNCHANGED vars => UNCHANGED delivered
  BY DEF ServerStops, KeeperStopped, PusherStopped, history, vars
<1>5. ASSUME NEW q \in Request,
             \/ \E h \in Http(q) : PostAdmissionRequest(q, h)
             \/ FindFirstBy(q) \/ FindFails(q) \/ CreateRecord(q) \/ UpdateRecord(q)
             \/ WriteFails(q)
      PROVE  UNCHANGED delivered
  BY <1>5 DEF PostAdmissionRequest, FindFirstBy, FindFails, CreateRecord, UpdateRecord, WriteFails,
              history
<1>6. (\E r \in rows : Ages(r)) => UNCHANGED delivered
  BY DEF Ages, history
<1> QED BY <1>1, <1>2, <1>3, <1>4, <1>5, <1>6, Steps

LEMMA SilentKept ==
  ASSUME IInv, KeptInv, MainNext, UNCHANGED <<latest, raced>>,
         \A r \in rows : \E u \in rows' : Tags(u) = Tags(r)
  PROVE  KeptInv'
  BY SeriesStay DEF KeptInv, Series, FormatMetrics, Key

(* The write of a request: its own record is a row or the read was stale,  *)
(* and the rows of other resources are left alone.                         *)
LEMMA WrittenKept ==
  ASSUME IInv, KeptInv, MainNext, NEW q \in Request, Written(q),
         Stale(q) \/ \E u \in rows' : Tags(u) = request[q].tags,
         \A r \in rows : SameKey(r, request[q].tags) \/ \E u \in rows' : Tags(u) = Tags(r)
  PROVE  KeptInv'
<1> DEFINE tags == request[q].tags
<1>1. /\ latest' = {t \in latest : Key(t) # Key(tags)} \cup {tags}
      /\ raced' = IF Stale(q) THEN raced \cup {Key(tags)} ELSE raced \ {Key(tags)}
  BY DEF Written
<1>2. \/ Key(tags) \in raced'
      \/ \E u \in rows' : Tags(u) = tags
  BY <1>1
<1>3. ASSUME NEW t \in latest, Key(t) # Key(tags)
      PROVE  \/ Key(t) \in raced'
             \/ Series(t) \subseteq delivered'
             \/ \E r \in rows' : Tags(r) = t
  <2>1. CASE Key(t) \in raced
    BY <1>1, <1>3, <2>1
  <2>2. CASE Series(t) \subseteq delivered
    BY <2>2, SeriesStay
  <2>3. ASSUME NEW r \in rows, Tags(r) = t PROVE \E u \in rows' : Tags(u) = t
    <3>1. ~SameKey(r, tags)
      BY <1>3, <2>3 DEF SameKey, Tags, Key
    <3> QED BY <2>3, <3>1
  <2> QED BY <2>1, <2>2, <2>3 DEF KeptInv
<1> HIDE DEF tags
<1> QED BY <1>1, <1>2, <1>3 DEF KeptInv, Series, FormatMetrics, Key

LEMMA CreateKept ==
  ASSUME IInv, ReadInv, KeptInv, MainNext, NEW q \in Request, CreateRecord(q)
  PROVE  KeptInv'
<1> DEFINE new == Row(q, request[q].tags, FALSE)
<1>1. request[q].found = {} /\ request[q].tags = Tags(request[q].tags)
  BY DEF CreateRecord, ReadInv, RequestReads, Asking
<1>2. Tags(new) = request[q].tags
  BY <1>1 DEF Row, Tags
<1>3. rows \subseteq rows'
  BY DEF CreateRecord, Create
<1>4. ~Stale(q) => new \in rows'
  BY <1>1 DEF Stale, CreateRecord, Create, FindBy, Conflicts, SameKey
<1> HIDE DEF new
<1>5. Stale(q) \/ \E u \in rows' : Tags(u) = request[q].tags
  BY <1>2, <1>4
<1>6. Written(q)
  BY DEF CreateRecord
<1> QED BY <1>3, <1>5, <1>6, WrittenKept

LEMMA UpdateKept ==
  ASSUME IInv, ReadInv, KeptInv, MainNext, NEW q \in Request, UpdateRecord(q)
  PROVE  KeptInv'
<1> DEFINE tags == request[q].tags
<1>1. PICK f : request[q].found = {f} /\ Known(f) /\ SameKey(f, tags)
  BY DEF UpdateRecord, ReadInv, RequestReads
<1>2. rows' = Update(rows, f.id, tags, FALSE) /\ Written(q) /\ tags = Tags(tags)
  BY <1>1 DEF UpdateRecord, ReadInv, RequestReads, Asking
<1>3. ASSUME NEW r \in rows, r.id = f.id
      PROVE  SameKey(r, tags) /\ \E u \in rows' : Tags(u) = tags
  <2>1. SameKey(r, tags)
    BY <1>1, <1>3 DEF Known, SameKey
  <2>2. Updated(r, f.id, tags, FALSE) \in rows'
    BY <1>2 DEF Update, Updated
  <2>3. Tags(Updated(r, f.id, tags, FALSE)) = Tags(tags)
    BY <1>3, <2>1 DEF Updated, Row, Tags, SameKey
  <2> QED BY <1>2, <2>1, <2>2, <2>3
<1>4. ASSUME NEW r \in rows, r.id # f.id PROVE r \in rows'
  BY <1>2, <1>4 DEF Update
<1>5. Stale(q) \/ \E r \in rows : r.id = f.id
  BY <1>1 DEF Stale
<1> QED BY <1>2, <1>3, <1>4, <1>5, WrittenKept

(* The rows the pusher writes back: one that has changed since is raced.   *)
LEMMA StampKept ==
  ASSUME IInv, KeptInv, MainNext, StampRecords
  PROVE  KeptInv'
<1> USE DEF KeptInv
<1>1. latest' = latest
  BY DEF StampRecords
<1>2. CASE UNCHANGED <<rows, raced>>
  BY <1>1, <1>2, SilentKept
<1>3. CASE /\ rows' = Stamped(pusher.completed)
           /\ raced' = raced \cup {Key(c) : c \in {c \in pusher.completed :
                                      \E r \in rows : r.id = c.id /\ Tags(r) # Tags(c)}}
  <2>1. ASSUME NEW r \in rows
        PROVE  Key(Tags(r)) \in raced' \/ \E u \in rows' : Tags(u) = Tags(r)
    <3>1. CASE \A c \in pusher.completed : c.id # r.id
      BY <1>3, <3>1 DEF Stamped
    <3>2. ASSUME NEW c \in pusher.completed, c.id = r.id, Tags(r) # Tags(c)
          PROVE  Key(Tags(r)) \in raced'
      <4>1. Key(Tags(r)) = Key(c)
        BY <3>2 DEF IInv, FlightInv, InFlight, SameKey, Key, Tags
      <4> QED BY <1>3, <3>2, <4>1
    <3>3. ASSUME NEW c \in pusher.completed, c.id = r.id, Tags(r) = Tags(c)
          PROVE  \E u \in rows' : Tags(u) = Tags(r)
      <4>1. Updated(r, c.id, Tags(c), TRUE)
              \in Update({s \in rows : s.id = c.id}, c.id, Tags(c), TRUE)
        BY <3>3 DEF Update, Updated
      <4>2. Updated(r, c.id, Tags(c), TRUE) \in rows'
        BY <1>3, <4>1 DEF Stamped
      <4>3. Tags(Updated(r, c.id, Tags(c), TRUE)) = Tags(r)
        BY <3>3 DEF Updated, Row, Tags
      <4> QED BY <4>2, <4>3
    <3> QED BY <3>1, <3>2, <3>3
  <2>2. raced \subseteq raced'
    BY <1>3
  <2>3. ASSUME NEW t \in latest
        PROVE  \/ Key(t) \in raced'
               \/ Series(t) \subseteq delivered'
               \/ \E u \in rows' : Tags(u) = t
    BY <2>1, <2>2, SeriesStay
  <2> QED BY <1>1, <2>3 DEF Series, FormatMetrics, Key
<1> QED BY <1>2, <1>3 DEF StampRecords

(* The rows the housekeeper deletes: one that is unsent again is raced.    *)
LEMMA DeleteKept ==
  ASSUME IInv, ReadInv, KeptInv, MainNext, DeleteExpired
  PROVE  KeptInv'
<1> USE DEF KeptInv
<1>1. /\ latest' = latest
      /\ rows' = {r \in rows : r.id \notin {c.id : c \in keeper.expired}}
      /\ raced' = raced \cup {Key(c) : c \in {c \in keeper.expired :
                                \E r \in rows : r.id = c.id /\ ~r.sent}}
  BY DEF DeleteExpired, Delete
<1>2. ASSUME NEW r \in rows
      PROVE  \/ Key(Tags(r)) \in raced'
             \/ Series(Tags(r)) \subseteq delivered
             \/ r \in rows'
  <2>1. ASSUME NEW c \in keeper.expired, c.id = r.id, ~r.sent PROVE Key(Tags(r)) \in raced'
    <3>1. Key(Tags(r)) = Key(c)
      BY <2>1 DEF ReadInv, KeeperReads, Known, SameKey, Key, Tags
    <3> QED BY <1>1, <2>1, <3>1
  <2>2. CASE r.sent
    <3>1. Series(Tags(r)) = Series(r)
      BY DEF Series, FormatMetrics, Tags
    <3> QED BY <2>2, <3>1 DEF IInv, SentMeansDelivered
  <2> QED BY <1>1, <2>1, <2>2
<1>3. ASSUME NEW t \in latest
      PROVE  \/ Key(t) \in raced'
             \/ Series(t) \subseteq delivered'
             \/ \E u \in rows' : Tags(u) = t
  BY <1>1, <1>2, SeriesStay
<1> QED BY <1>1, <1>3 DEF Series, FormatMetrics, Key

LEMMA AgesKept ==
  ASSUME IInv, KeptInv, MainNext, NEW r \in rows, Ages(r)
  PROVE  KeptInv'
<1>1. Tags([r EXCEPT !.fresh = FALSE]) = Tags(r)
  BY DEF IInv, Shapes, RowShape, Tags
<1>2. UNCHANGED <<latest, raced>> /\ \A s \in rows : \E u \in rows' : Tags(u) = Tags(s)
  BY <1>1 DEF Ages, history
<1> QED BY <1>2, SilentKept

LEMMA KeptKeeps ==
  ASSUME IInv, ReadInv, KeptInv, MainNext
  PROVE  KeptInv'
<1> DEFINE Quiet == UNCHANGED <<rows, latest, raced>>
<1>1. CASE Quiet
  BY <1>1, SilentKept
<1>2. TickFlush \/ FinalFlush \/ NextBatch => Quiet
  BY DEF TickFlush, FinalFlush, Flush, NextBatch, history
<1>3. PushMetrics \/ AttemptFails \/ SendFails \/ PusherExits => Quiet
  BY DEF PushMetrics, AttemptFails, SendFails, PusherExits, history
<1>4. FindExpired \/ DeleteFails \/ KeeperExits => Quiet
  BY DEF FindExpired, DeleteFails, KeeperExits, history
<1>5. ServerStops \/ KeeperStopped \/ PusherStopped \/ UNCHANGED vars => Quiet
  BY DEF ServerStops, KeeperStopped, PusherStopped, history, vars
<1>6. ASSUME NEW q \in Request,
             \/ \E h \in Http(q) : PostAdmissionRequest(q, h)
             \/ FindFirstBy(q) \/ FindFails(q) \/ WriteFails(q)
      PROVE  Quiet
  BY <1>6 DEF PostAdmissionRequest, FindFirstBy, FindFails, WriteFails, history
<1> HIDE DEF Quiet
<1> QED BY <1>1, <1>2, <1>3, <1>4, <1>5, <1>6, Steps, CreateKept, UpdateKept, StampKept,
           DeleteKept, AgesKept

LEMMA InitKept == Init \/ ServerOff => ReadInv /\ KeptInv
<1> SUFFICES ASSUME Init \/ ServerOff PROVE ReadInv /\ KeptInv
  OBVIOUS
<1>1. /\ rows = {} /\ latest = {} /\ keeper.expired = {} /\ KeeperShape
      /\ \A q \in Request : request[q].pc = "new" /\ request[q].found = {}
  BY DEF Init, ServerOff, KeeperShape
<1> QED BY <1>1 DEF ReadInv, RequestReads, Asking, KeeperReads, KeptInv

(* The last record a request has written for a resource is delivered, or   *)
(* waits in a row that is not marked as sent (genericWriteDataToStorage,   *)
(* Flush, the housekeeper): it is lost only when one of the three writes   *)
(* back or deletes, by id, a row that has changed since it was read, or    *)
(* when a create meets a row its read did not see.                         *)
THEOREM OnlyStaleWritesLose == MainSpec => []LostOnlyByRace
<1>1. MainInit => ReadInv /\ KeptInv
  BY InitKept DEF MainInit
<1>2. IInv /\ ReadInv /\ KeptInv /\ [MainNext]_<<vars, backfillVars, tlsVars>>
        => ReadInv' /\ KeptInv'
  <2>1. ASSUME ReadInv, KeptInv, UNCHANGED <<vars, backfillVars, tlsVars>>
        PROVE  ReadInv' /\ KeptInv'
    <3>1. ReadInv'
      BY <2>1 DEF vars, ReadInv, RequestReads, Asking, KeeperReads, KeeperShape, Known, Placed,
                  SameKey, Tags
    <3>2. KeptInv'
      BY <2>1 DEF vars, KeptInv, Series, FormatMetrics, Key, Tags
    <3> QED BY <3>1, <3>2
  <2> QED BY <2>1, ReadKeeps, KeptKeeps
<1>3. IInv /\ KeptInv => LostOnlyByRace
  <2> SUFFICES ASSUME IInv, KeptInv, NEW t \in latest, Key(t) \notin raced,
                      ~(Series(t) \subseteq delivered)
               PROVE  \E r \in Unsent(rows) : Tags(r) = t
    BY DEF LostOnlyByRace
  <2>1. PICK r \in rows : Tags(r) = t
    BY DEF KeptInv
  <2>2. Series(r) = Series(t)
    BY <2>1 DEF Series, FormatMetrics, Tags
  <2>3. ~r.sent
    BY <2>2 DEF IInv, SentMeansDelivered
  <2> QED BY <2>1, <2>3 DEF Unsent
<1> QED BY <1>1, <1>2, <1>3, Invariance, PTL DEF MainSpec

-----------------------------------------------------------------------------
(* The values of the state *)

RequestType(q) ==
  /\ request[q].pc \in {"new", "find", "create", "update", "done"}
  /\ request[q].pc = "update" => Cardinality(request[q].found) = 1

PusherType ==
  /\ pusher.pc \in {"wait", "batch", "send", "stamp", "exit", "off"}
  /\ pusher.attempt \in 0..MaxRetries
  /\ pusher.pc = "send" => pusher.batch # {}

RestType ==
  /\ keeper.pc \in {"wait", "delete", "off"}
  /\ life \in {"serving", "stop keeper", "stop pusher", "exited"}
  /\ faults \in 0..MaxFaults

TypeInv ==
  /\ \A r \in rows : RowType(r)
  /\ \A q \in Request : RequestType(q)
  /\ PusherType /\ RestType

LEMMA FaultType ==
  ASSUME faults \in 0..MaxFaults, Fault \/ UNCHANGED faults PROVE faults' \in 0..MaxFaults
  BY WebhookAssumption DEF Fault

LEMMA RowOfType ==
  ASSUME NEW id \in Request, NEW tags, NEW sent \in BOOLEAN PROVE RowType(Row(id, tags, sent))
<1>1. /\ Row(id, tags, sent).id = id /\ Row(id, tags, sent).fresh = TRUE
      /\ Row(id, tags, sent).sent = sent
  BY DEF Row
<1> QED BY <1>1 DEF RowType

LEMMA UpdatedType ==
  ASSUME NEW r, RowType(r), NEW id \in Request, NEW tags, NEW sent \in BOOLEAN
  PROVE  RowType(Updated(r, id, tags, sent))
<1>1. CASE r.id = id
  BY <1>1, RowOfType DEF Updated
<1>2. CASE r.id # id
  BY <1>2 DEF Updated
<1> QED BY <1>1, <1>2

(* A request that moves to a place with a type. *)
LEMMA MovedType ==
  ASSUME TypeInv, NEW q \in Request, Moved(q), RequestType(q)', UNCHANGED <<pusher, keeper, life>>,
         \A u \in rows' : RowType(u), Fault \/ UNCHANGED faults
  PROVE  TypeInv'
<1>1. \A p \in Request : RequestType(p)'
  BY DEF TypeInv, RequestType, Moved
<1>2. PusherType' /\ RestType'
  BY FaultType DEF TypeInv, PusherType, RestType
<1>3. \A u \in rows' : RowType(u)'
  BY DEF RowType
<1> QED BY <1>1, <1>2, <1>3 DEF TypeInv

LEMMA DoneType == ASSUME NEW q, request'[q].pc = "done" PROVE RequestType(q)'
  BY DEF RequestType

LEMMA PostType ==
  ASSUME IInv, TypeInv, NEW q \in Request, NEW h \in Http(q), PostAdmissionRequest(q, h)
  PROVE  TypeInv'
<1>1. Moved(q) /\ UNCHANGED <<rows, pusher, keeper, life, faults>>
  BY PostMoves DEF PostAdmissionRequest
<1>2. RequestType(q)'
  <2>1. ASSUME NEW answer, Reply(q, h, answer) PROVE RequestType(q)'
    BY <2>1, ReplyMoves, DoneType DEF IInv
  <2>2. ASSUME NEW tags,
               request' = [request EXCEPT ![q].pc = "find", ![q].http = h, ![q].tags = tags]
        PROVE  RequestType(q)'
    <3>1. request'[q].pc = "find"
      BY <2>2 DEF IInv, Shapes, RequestShape
    <3> QED BY <3>1 DEF RequestType
  <2> QED BY <2>1, <2>2 DEF PostAdmissionRequest
<1> QED BY <1>1, <1>2, MovedType DEF TypeInv

LEMMA FindType ==
  ASSUME IInv, TypeInv, NEW q \in Request, FindFirstBy(q) \/ FindFails(q)
  PROVE  TypeInv'
<1>1. Moved(q) /\ UNCHANGED <<rows, pusher, keeper, life>> /\ (Fault \/ UNCHANGED faults)
  BY FindMoves DEF FindFirstBy, FindFails
<1>2. DOMAIN request = Request /\ RequestShape(request[q])
  BY DEF IInv, Shapes
<1>3. RequestType(q)'
  <2>1. CASE request' = [request EXCEPT ![q].pc = "create"]
    BY <1>2, <2>1 DEF RequestType
  <2>2. ASSUME NEW r, request' = [request EXCEPT ![q].pc = "update", ![q].found = {r}]
        PROVE  RequestType(q)'
    <3>1. request'[q] = [request[q] EXCEPT !.pc = "update", !.found = {r}]
      BY <1>2, <2>2
    <3>2. request'[q].pc = "update" /\ request'[q].found = {r}
      BY <1>2, <3>1 DEF RequestShape
    <3>3. Cardinality({r}) = 1
      BY FS_Singleton
    <3> QED BY <3>2, <3>3 DEF RequestType
  <2> QED BY <2>1, <2>2 DEF FindFirstBy, FindFails
<1> QED BY <1>1, <1>3, MovedType DEF TypeInv

LEMMA WriteType ==
  ASSUME IInv, ReadInv, TypeInv, NEW q \in Request,
         CreateRecord(q) \/ UpdateRecord(q) \/ WriteFails(q)
  PROVE  TypeInv'
<1>1. Moved(q) /\ request'[q].pc = "done"
  <2>1. CASE CreateRecord(q) \/ UpdateRecord(q)
    BY <2>1, DoneStays DEF IInv, CreateRecord, UpdateRecord
  <2>2. CASE WriteFails(q)
    BY <2>2, ReplyMoves DEF IInv, WriteFails
  <2> QED BY <2>1, <2>2
<1>2. UNCHANGED <<pusher, keeper, life>> /\ (Fault \/ UNCHANGED faults)
  BY DEF CreateRecord, UpdateRecord, WriteFails
<1>3. \A u \in rows' : RowType(u)
  <2>1. CASE CreateRecord(q)
    <3>1. RowType(Row(q, request[q].tags, FALSE))
      BY RowOfType
    <3> QED BY <2>1, <3>1 DEF CreateRecord, Create, TypeInv
  <2>2. CASE UpdateRecord(q)
    <3>1. PICK f \in request[q].found : rows' = Update(rows, f.id, request[q].tags, FALSE)
      BY <2>2 DEF UpdateRecord
    <3>2. f.id \in Request
      BY <2>2, <3>1 DEF UpdateRecord, ReadInv, RequestReads, Known
    <3>3. \A r \in rows : RowType(Updated(r, f.id, request[q].tags, FALSE))
      BY <3>2, UpdatedType DEF TypeInv
    <3> QED BY <3>1, <3>3 DEF Update, Updated
  <2>3. CASE WriteFails(q)
    BY <2>3 DEF WriteFails, TypeInv
  <2> QED BY <2>1, <2>2, <2>3
<1> QED BY <1>1, <1>2, <1>3, DoneType, MovedType

(* The requests stay where they are. *)
LEMMA OthersType ==
  ASSUME TypeInv, UNCHANGED request, \A u \in rows' : RowType(u), PusherType', RestType'
  PROVE  TypeInv'
<1>1. \A p \in Request : RequestType(p)'
  BY DEF TypeInv, RequestType
<1>2. \A u \in rows' : RowType(u)'
  BY DEF RowType
<1> QED BY <1>1, <1>2 DEF TypeInv

LEMMA EndFlushType ==
  ASSUME NEW p,
         p = [pc |-> p.pc, running |-> p.running, cancelled |-> p.cancelled, final |-> p.final,
              found |-> p.found, batch |-> p.batch, completed |-> p.completed,
              attempt |-> p.attempt],
         pusher' = EndFlush(p)
  PROVE  PusherType'
<1>1. pusher'.pc \in {"exit", "wait"} /\ pusher'.attempt = 0
  BY DEF EndFlush
<1> QED BY <1>1, WebhookAssumption DEF PusherType

LEMMA PusherStepType ==
  ASSUME IInv, TypeInv,
         \/ TickFlush \/ FinalFlush \/ NextBatch \/ PushMetrics \/ AttemptFails \/ SendFails
         \/ StampRecords \/ PusherExits \/ KeeperStopped
  PROVE  TypeInv'
<1> USE WebhookAssumption
<1>1. UNCHANGED <<request, keeper>> /\ (life' = life \/ life' = "stop pusher")
  BY DEF TickFlush, FinalFlush, Flush, NextBatch, PushMetrics, AttemptFails, SendFails,
         StampRecords, PusherExits, KeeperStopped, history
<1>2. Fault \/ UNCHANGED faults
  BY DEF TickFlush, FinalFlush, Flush, NextBatch, PushMetrics, AttemptFails, SendFails,
         StampRecords, PusherExits, KeeperStopped, history
<1>3. RestType'
  BY <1>1, <1>2, FaultType DEF TypeInv, RestType
<1>4. PusherShape /\ PusherType
  BY DEF IInv, Shapes, TypeInv
<1>5. \A u \in rows' : RowType(u)
  <2>1. CASE rows' = rows
    BY <2>1 DEF TypeInv
  <2>2. CASE StampRecords /\ rows' = Stamped(pusher.completed)
    <3>1. ASSUME NEW c \in pusher.completed, NEW r \in rows
          PROVE  RowType(Updated(r, c.id, Tags(c), TRUE))
      <4>1. c.id \in Request /\ RowType(r)
        BY DEF IInv, FlightInv, InFlight, TypeInv
      <4> QED BY <4>1, UpdatedType
    <3>2. ASSUME NEW u \in rows'
          PROVE  \/ u \in rows
                 \/ \E c \in pusher.completed, r \in rows : u = Updated(r, c.id, Tags(c), TRUE)
      <4>1. u \in Stamped(pusher.completed) /\ pusher.pc = "stamp"
        BY <2>2 DEF StampRecords
      <4> QED BY <4>1, StampedRows
    <3> QED BY <3>1, <3>2 DEF TypeInv
  <2> QED BY <2>1, <2>2, SilentSteps DEF Silent, StampRecords
<1>6. PusherType'
  <2>1. ASSUME NEW final, Flush(final) PROVE PusherType'
    <3> DEFINE started == [pusher EXCEPT !.final = final]
    <3>1. CASE pusher' = EndFlush(started)
      <4>1. started = [pc |-> started.pc, running |-> started.running,
                       cancelled |-> started.cancelled, final |-> started.final,
                       found |-> started.found, batch |-> started.batch,
                       completed |-> started.completed, attempt |-> started.attempt]
        BY <1>4 DEF PusherShape
      <4> HIDE DEF started
      <4> QED BY <3>1, <4>1, EndFlushType
    <3>2. CASE pusher' = [started EXCEPT !.pc = "batch", !.found = Unsent(rows)]
      <4>1. pusher'.pc = "batch" /\ pusher'.attempt = pusher.attempt
        BY <1>4, <3>2 DEF PusherShape
      <4> QED BY <1>4, <4>1 DEF PusherType
    <3> QED BY <2>1, <3>1, <3>2 DEF Flush
  <2>2. CASE NextBatch
    <3>1. PICK B \in (SUBSET pusher.found) \ {{}} :
            pusher' = [pusher EXCEPT !.pc = "send", !.batch = B, !.attempt = 0,
                                     !.found = pusher.found \ B,
                                     !.completed = pusher.completed \cup B]
      BY <2>2 DEF NextBatch
    <3>2. pusher'.pc = "send" /\ pusher'.attempt = 0 /\ pusher'.batch = B
      BY <1>4, <3>1 DEF PusherShape
    <3> QED BY <3>1, <3>2 DEF PusherType
  <2>3. CASE PushMetrics
    <3>1. pusher'.pc \in {"stamp", "batch"} /\ pusher'.attempt = pusher.attempt
      BY <1>4, <2>3 DEF PushMetrics, PusherShape
    <3> QED BY <1>4, <3>1 DEF PusherType
  <2>4. CASE AttemptFails
    <3>1. /\ pusher'.pc = pusher.pc /\ pusher'.attempt = pusher.attempt + 1
          /\ pusher'.batch = pusher.batch /\ pusher.attempt < MaxRetries
      BY <1>4, <2>4 DEF AttemptFails, PusherShape
    <3> QED BY <1>4, <3>1 DEF PusherType
  <2>5. CASE SendFails \/ StampRecords
    BY <1>4, <2>5, EndFlushType DEF SendFails, StampRecords, PusherShape
  <2>6. CASE PusherExits
    <3>1. pusher'.pc = "off" /\ pusher'.attempt = pusher.attempt
      BY <1>4, <2>6 DEF PusherExits, PusherShape
    <3> QED BY <1>4, <3>1 DEF PusherType
  <2>7. CASE KeeperStopped
    <3>1. /\ pusher'.pc = pusher.pc /\ pusher'.attempt = pusher.attempt
          /\ pusher'.batch = pusher.batch
      BY <1>4, <2>7 DEF KeeperStopped, PusherShape
    <3> QED BY <1>4, <3>1 DEF PusherType
  <2> QED BY <2>1, <2>2, <2>3, <2>4, <2>5, <2>6, <2>7 DEF TickFlush, FinalFlush
<1> QED BY <1>1, <1>3, <1>5, <1>6, OthersType

LEMMA KeeperStepType ==
  ASSUME ReadInv, TypeInv,
         \/ FindExpired \/ DeleteExpired \/ DeleteFails \/ KeeperExits
         \/ ServerStops \/ PusherStopped \/ \E r \in rows : Ages(r)
  PROVE  TypeInv'
<1>1. UNCHANGED <<request, pusher>>
  BY DEF FindExpired, DeleteExpired, DeleteFails, KeeperExits, ServerStops, PusherStopped, Ages,
         history
<1>2. Fault \/ UNCHANGED faults
  BY DEF FindExpired, DeleteExpired, DeleteFails, KeeperExits, ServerStops, PusherStopped, Ages,
         history
<1>3. keeper'.pc \in {"wait", "delete", "off"} /\ life' \in {life, "stop keeper", "exited"}
  BY DEF FindExpired, DeleteExpired, DeleteFails, KeeperExits, ServerStops, PusherStopped, Ages,
         history, ReadInv, KeeperReads, KeeperShape, TypeInv, RestType
<1>4. \A u \in rows' : RowType(u)
  <2>1. CASE rows' \subseteq rows
    BY <2>1 DEF TypeInv
  <2>2. ASSUME NEW r \in rows, Ages(r) PROVE \A u \in rows' : RowType(u)
    <3>1. RowType([r EXCEPT !.fresh = FALSE])
      BY DEF TypeInv, RowType
    <3> QED BY <2>2, <3>1 DEF Ages, TypeInv
  <2> QED BY <2>1, <2>2 DEF FindExpired, DeleteExpired, Delete, DeleteFails, KeeperExits,
          ServerStops, PusherStopped
<1>5. PusherType' /\ RestType'
  BY <1>1, <1>2, <1>3, FaultType DEF TypeInv, PusherType, RestType
<1> QED BY <1>1, <1>4, <1>5, OthersType

LEMMA InitType == Init \/ ServerOff => TypeInv
<1> SUFFICES ASSUME Init \/ ServerOff PROVE TypeInv
  OBVIOUS
<1>1. /\ rows = {} /\ pusher.pc \in {"wait", "off"} /\ pusher.attempt = 0
      /\ keeper.pc \in {"wait", "off"} /\ life \in {"serving", "exited"} /\ faults = 0
      /\ \A q \in Request : request[q].pc = "new"
  BY DEF Init, ServerOff
<1>2. 0 \in 0..MaxRetries /\ 0 \in 0..MaxFaults
  BY WebhookAssumption
<1>3. PusherType /\ RestType
  BY <1>1, <1>2 DEF PusherType, RestType
<1> QED BY <1>1, <1>3 DEF TypeInv, RequestType

(* The requests, the pusher and the housekeeper are where their code may   *)
(* be; a request that updates has read one record, the pusher never sends  *)
(* an empty batch, and counts its attempts up to the retry limit.          *)
THEOREM TypesOfServer == MainSpec => []TypeOK
<1>1. MainInit => ReadInv /\ TypeInv
  BY InitKept, InitType DEF MainInit
<1>2. IInv /\ ReadInv /\ TypeInv /\ [MainNext]_<<vars, backfillVars, tlsVars>>
        => ReadInv' /\ TypeInv'
  <2>1. ASSUME ReadInv, UNCHANGED vars PROVE ReadInv'
    BY <2>1 DEF vars, ReadInv, RequestReads, Asking, KeeperReads, KeeperShape, Known, Placed,
                SameKey, Tags
  <2>2. ASSUME TypeInv, UNCHANGED vars PROVE TypeInv'
    BY <2>2 DEF vars, TypeInv, RequestType, PusherType, RestType, RowType
  <2>3. ASSUME IInv, ReadInv, TypeInv, MainNext PROVE TypeInv'
    BY <2>2, <2>3, Steps, PostType, FindType, WriteType, PusherStepType, KeeperStepType
  <2> QED BY <2>1, <2>2, <2>3, ReadKeeps DEF vars
<1>3. TypeInv => TypeOK
  BY DEF TypeInv, TypeOK, RequestType, PusherType, RestType
<1> QED BY <1>1, <1>2, <1>3, Invariance, PTL DEF MainSpec

-----------------------------------------------------------------------------
(* The backfill: where every object of the cluster is *)

Before == {"off", "await_webhook", "await_collector"}
OfNamespaces == phase \in {"namespaces", "wait"}

Kinds == ToSet(catalog) \cup {node, namespace}
ClusterObjects ==
  Objects(NodePages) \cup Objects(NamespacePages)
  \cup UNION {Objects(ResourcePages(gvk, ns.name)) :
                gvk \in ToSet(catalog), ns \in Objects(NamespacePages)}
Records == UNION {Review(buildAdmissionReview(gvk, o)) : gvk \in Kinds, o \in ClusterObjects}

TaskType(t) ==
  /\ t = [gvk |-> t.gvk, namespace |-> t.namespace, items |-> t.items, next |-> t.next]
  /\ t.gvk \in Kinds /\ t.items \in Seq(ClusterObjects) /\ t.next \in Nat
  /\ t.next > 0 =>
       t.gvk \in ToSet(catalog) /\ \E ns \in Objects(NamespacePages) : t.namespace = ns.name

FailuresType ==
  /\ failures = [await |-> failures.await, nodes |-> failures.nodes,
                 list |-> failures.list, push |-> failures.push]
  /\ failures.await \in Nat /\ failures.nodes \in Nat
  /\ failures.list \in Nat /\ failures.push \in Nat

BackfillType ==
  /\ phase \in Before \cup {"nodes", "wait_nodes", "namespaces", "wait", "flush",
                             "exit_0", "exit_1"}
  /\ page \in Nat \ {0} /\ (phase \in {"nodes", "namespaces", "exit_1"} \/ page = 1)
  /\ OfNodes => todo \in Seq(Objects(NodePages)) /\ scan = 0
  /\ OfNamespaces => todo \in Seq(Objects(NamespacePages))
  /\ scan \in 0..Len(catalog) /\ (todo = <<>> => scan = 0)
  /\ phase \in Before \cup {"flush", "exit_0"} => todo = <<>> /\ tasks = {}
  /\ \A t \in tasks : TaskType(t)
  /\ batch \in Seq(Records) /\ (phase = "exit_0" => batch = <<>>)
  /\ FailuresType

(* No list and no push has failed. *)
Fine == failures.list = 0 /\ failures.push = 0 /\ phase # "exit_1"

(* What the review of an object writes is in the batch or accepted.        *)
Reviewed(gvk, o) ==
  \A record \in Review(buildAdmissionReview(gvk, o)) :
    Tagged(record) => record \in streamed \cup ToSet(batch)

(* What a task has yet to review. *)
Rest(pages, next) == UNION {ToSet(pages[i]) : i \in next..Len(pages)}
Pending(t) ==
  ToSet(t.items)
  \cup (IF t.next > 0 THEN Rest(ResourcePages(t.gvk, t.namespace), t.next) ELSE {})

InTask(gvk, o) == \E t \in tasks : t.gvk = gvk /\ o \in Pending(t)

(* The task of a node, or the k-th of a namespace, is yet to be handed to  *)
(* the pool.                                                               *)
NodeAhead(o) ==
  \/ phase \in Before
  \/ phase = "nodes" /\ o \in Rest(NodePages, page)
  \/ OfNodes /\ o \in ToSet(todo)

NamespaceAhead(ns, k) ==
  \/ phase \in Before \/ OfNodes
  \/ phase = "namespaces" /\ ns \in Rest(NamespacePages, page)
  \/ OfNamespaces /\ \E i \in 1..Len(todo) : todo[i] = ns /\ (i > 1 \/ scan <= k)

NodesInv ==
  \A o \in Objects(NodePages) : Reviewed(node, o) \/ InTask(node, o) \/ NodeAhead(o)
NamespacesInv ==
  \A ns \in Objects(NamespacePages) :
    Reviewed(namespace, ns) \/ InTask(namespace, ns) \/ NamespaceAhead(ns, 0)
ResourcesInv ==
  \A k \in 1..Len(catalog), ns \in Objects(NamespacePages) :
    \A o \in Objects(ResourcePages(catalog[k], ns.name)) :
      Reviewed(catalog[k], o) \/ InTask(catalog[k], o) \/ NamespaceAhead(ns, k)

BackfillInv == BackfillType /\ (Fine => NodesInv /\ NamespacesInv /\ ResourcesInv)

-----------------------------------------------------------------------------
(* Lists and records *)

LEMMA CatalogLen == Len(catalog) = 23 /\ DOMAIN catalog = 1..23
  BY DEF catalog

LEMMA CatalogKinds == ToSet(catalog) = {catalog[k] : k \in 1..Len(catalog)}
  BY CatalogLen DEF ToSet

LEMMA ElementsOf ==
  ASSUME NEW S, NEW s \in Seq(S) PROVE ToSet(s) = {s[i] : i \in 1..Len(s)}
  BY DEF ToSet

LEMMA SetOfSeq ==
  ASSUME NEW S, NEW s \in Seq(S)
  PROVE  /\ ToSet(s) = {s[i] : i \in 1..Len(s)} /\ ToSet(s) \subseteq S
         /\ s = <<>> => ToSet(s) = {}
         /\ s # <<>> => /\ Head(s) \in S /\ Tail(s) \in Seq(S)
                        /\ ToSet(s) = {Head(s)} \cup ToSet(Tail(s))
<1>1. ToSet(s) = {s[i] : i \in 1..Len(s)} /\ ToSet(s) \subseteq S
  BY DEF ToSet
<1>2. s = <<>> => ToSet(s) = {}
  BY DEF ToSet
<1>3. ASSUME s # <<>>
      PROVE  Head(s) \in S /\ Tail(s) \in Seq(S) /\ ToSet(s) = {Head(s)} \cup ToSet(Tail(s))
  <2>1. /\ Head(s) = s[1] /\ Tail(s) \in Seq(S) /\ Len(s) \in Nat /\ Len(s) >= 1
        /\ Len(Tail(s)) = Len(s) - 1
        /\ \A i \in 1..Len(s) - 1 : Tail(s)[i] = s[i + 1]
    BY <1>3
  <2>2. ToSet(Tail(s)) = {Tail(s)[i] : i \in 1..Len(s) - 1}
    BY <2>1, ElementsOf
  <2>3. \A i \in 1..Len(s) : s[i] = Head(s) \/ s[i] \in ToSet(Tail(s))
    <3>1. ASSUME NEW i \in 1..Len(s), i # 1 PROVE s[i] \in ToSet(Tail(s))
      <4>1. i - 1 \in 1..Len(s) - 1 /\ Tail(s)[i - 1] = s[i]
        BY <2>1, <3>1
      <4> QED BY <2>2, <4>1
    <3> QED BY <2>1, <3>1
  <2>4. ToSet(Tail(s)) \subseteq ToSet(s) /\ Head(s) \in ToSet(s)
    BY <1>1, <2>1, <2>2
  <2> QED BY <1>1, <2>1, <2>3, <2>4
<1> QED BY <1>1, <1>2, <1>3

LEMMA SetOfAppend ==
  ASSUME NEW S, NEW s \in Seq(S), NEW e \in S
  PROVE  Append(s, e) \in Seq(S) /\ ToSet(Append(s, e)) = ToSet(s) \cup {e}
<1>1. /\ Append(s, e) \in Seq(S) /\ Len(Append(s, e)) = Len(s) + 1
      /\ Append(s, e)[Len(s) + 1] = e /\ Len(s) \in Nat
      /\ \A i \in 1..Len(s) : Append(s, e)[i] = s[i]
  OBVIOUS
<1>2. ToSet(Append(s, e)) = {Append(s, e)[i] : i \in 1..Len(s) + 1}
  BY <1>1 DEF ToSet
<1>3. ToSet(s) = {s[i] : i \in 1..Len(s)}
  BY DEF ToSet
<1>4. 1..Len(s) + 1 = 1..Len(s) \cup {Len(s) + 1}
  BY <1>1
<1> QED BY <1>1, <1>2, <1>3, <1>4

(* The pages from one on are that page and those after it. *)
LEMMA RestSplits ==
  ASSUME NEW pages, Len(pages) \in Nat, NEW n \in Nat \ {0}
  PROVE  /\ n <= Len(pages) => Rest(pages, n) = ToSet(pages[n]) \cup Rest(pages, n + 1)
         /\ n > Len(pages) => Rest(pages, n) = {}
         /\ Rest(pages, 1) = Objects(pages)
<1>1. ASSUME n <= Len(pages) PROVE n..Len(pages) = {n} \cup (n + 1..Len(pages))
  BY <1>1
<1>2. ASSUME n > Len(pages) PROVE n..Len(pages) = {}
  BY <1>2
<1> QED BY <1>1, <1>2 DEF Rest, Objects

(* The review of an object writes one record at most, and one with a tag   *)
(* only for a kind that is scanned.                                        *)
LEMMA OneRecord ==
  ASSUME NEW gvk, NEW o,
         NEW r \in Review(buildAdmissionReview(gvk, o)),
         NEW s \in Review(buildAdmissionReview(gvk, o))
  PROVE  r = s
  BY DEF Review, Execute, Raw, buildAdmissionReview

LEMMA FormattedTags ==
  ASSUME NEW h, Fits(h), NEW o
  PROVE  \E ns : formatData(h, o) = ResourceTags(h, o, ns)
<1>1. CASE h.formatter = "pod"
  BY <1>1 DEF formatData, PodDataFormatter
<1>2. CASE h.formatter = "workload"
  BY <1>2 DEF formatData, WorkloadDataFormatter
<1>3. CASE h.formatter = "namespace"
  BY <1>3 DEF formatData, NamespaceDataFormatter
<1>4. CASE h.formatter = "node"
  BY <1>4 DEF formatData, NodeDataFormatter
<1> QED BY <1>1, <1>2, <1>3, <1>4 DEF Fits

LEMMA TaggedIsScanned ==
  ASSUME NEW gvk, NEW o, NEW record \in Review(buildAdmissionReview(gvk, o)), Tagged(record)
  PROVE  registered(gvk) /\ ScanEnabled(gvk)
<1> DEFINE h == Registration(gvk)
<1>1. registered(gvk) /\ record = formatData(h, o)
  BY DEF Review, Execute, Raw, buildAdmissionReview
<1>2. PICK ns : record = ResourceTags(h, o, ns)
  BY <1>1, FormattedTags, RegistrationFits
<1>3. FilteredLabels(h, o) # {} \/ FilteredAnnotations(h, o) # {}
  BY <1>2 DEF Tagged, ResourceTags
<1>4. (h.labels /\ h.labelsForType) \/ (h.annotations /\ h.annotationsForType)
  BY <1>3 DEF FilteredLabels, FilteredAnnotations, TagFilter
<1> QED BY <1>1, <1>4 DEF ScanEnabled

(* The table has one entry for a node, and its handler says whether nodes  *)
(* are wanted.                                                             *)
LEMMA GvkKind == ASSUME NEW g, NEW v, NEW k PROVE Gvk(g, v, k).kind = k
  BY DEF Gvk

LEMMA NodeRegistered ==
  ASSUME registered(node) PROVE Registration(node) = NodeHandler
<1>1. ASSUME NEW e \in NewWebhookFactory, e.gvk = node PROVE e.handler = NodeHandler
  <2>1. e.gvk.kind = "node"
    <3>1. \E group, version : node = Gvk(group, version, "node")
      BY Zenon DEF node
    <3> QED BY <1>1, <3>1, GvkKind
  <2>2. ASSUME NEW group, NEW versions, NEW k, NEW h, k # "node",
               e \in register(group, versions, k, h)
        PROVE  FALSE
    BY <2>1, <2>2 DEF register
  <2>3. ASSUME NEW group, NEW versions, e \in register(group, versions, "node", NodeHandler)
        PROVE  e.handler = NodeHandler
    BY <2>3 DEF register
  <2> QED BY <2>2, <2>3 DEF NewWebhookFactory
<1> QED BY <1>1 DEF registered, Registration

LEMMA UnwantedNodes ==
  ASSUME AfterServices # "nodes", NEW o PROVE Reviewed(node, o)
<1>1. ~NodeHandler.labelsForType /\ ~NodeHandler.annotationsForType
  BY DEF AfterServices
<1>2. ~(registered(node) /\ ScanEnabled(node))
  BY <1>1, NodeRegistered DEF ScanEnabled
<1> QED BY <1>2, TaggedIsScanned DEF Reviewed

LEMMA UnscannedKinds ==
  ASSUME NEW gvk, ~ScanEnabled(gvk), NEW o PROVE Reviewed(gvk, o)
  BY TaggedIsScanned DEF Reviewed

-----------------------------------------------------------------------------
(* The steps of the backfill *)

LEMMA StartsComplete ==
  ASSUME BackfillStart("off") \/ BackfillInit PROVE BackfillInv
<1>1. /\ page = 1 /\ todo = <<>> /\ scan = 0 /\ tasks = {} /\ batch = <<>>
      /\ failures = [await |-> 0, nodes |-> 0, list |-> 0, push |-> 0]
      /\ phase \in {"off", "await_webhook"} \/ phase = AfterServices
  BY DEF BackfillStart, BackfillInit, FirstPhase
<1>2. AfterServices \in {"nodes", "namespaces"}
  BY DEF AfterServices
<1>3. FailuresType
  BY <1>1 DEF FailuresType
<1>4. BackfillType
  BY <1>1, <1>2, <1>3, CatalogLen DEF BackfillType, Before, OfNodes, OfNamespaces
<1>5. NodesInv
  <2>1. Rest(NodePages, 1) = Objects(NodePages)
    BY PagesAssumption, RestSplits
  <2>2. phase \in Before \/ phase = "nodes" \/ AfterServices # "nodes"
    BY <1>1 DEF Before
  <2> QED BY <1>1, <2>1, <2>2, UnwantedNodes DEF NodesInv, NodeAhead
<1>6. \A ns \in Objects(NamespacePages), k \in 0..Len(catalog) : NamespaceAhead(ns, k)
  <2>1. Rest(NamespacePages, 1) = Objects(NamespacePages)
    BY PagesAssumption, RestSplits
  <2> QED BY <1>1, <1>2, <2>1 DEF NamespaceAhead, Before, OfNodes
<1>7. NamespacesInv /\ ResourcesInv
  BY <1>6, CatalogLen DEF NamespacesInv, ResourcesInv
<1> QED BY <1>4, <1>5, <1>7 DEF BackfillInv

Complete == NodesInv /\ NamespacesInv /\ ResourcesInv

(* What was reviewed stays so. *)
Grows == streamed \cup ToSet(batch) \subseteq streamed' \cup ToSet(batch')

(* What a task had to review is reviewed or is with a task. *)
TasksKeep ==
  \A gvk, o : InTask(gvk, o) => InTask(gvk, o)' \/ Reviewed(gvk, o)'

(* What was not handed over is not yet, or is with a task now. *)
AheadKeep ==
  /\ \A o \in Objects(NodePages) :
       NodeAhead(o) => NodeAhead(o)' \/ InTask(node, o)' \/ Reviewed(node, o)'
  /\ \A ns \in Objects(NamespacePages) :
       NamespaceAhead(ns, 0) => NamespaceAhead(ns, 0)' \/ InTask(namespace, ns)'
  /\ \A ns \in Objects(NamespacePages), k \in 1..Len(catalog) :
       NamespaceAhead(ns, k) =>
         \/ NamespaceAhead(ns, k)' \/ ~ScanEnabled(catalog[k])
         \/ \A o \in Objects(ResourcePages(catalog[k], ns.name)) : InTask(catalog[k], o)'

LEMMA ReviewedStays ==
  ASSUME Grows, NEW gvk, NEW o, Reviewed(gvk, o) PROVE Reviewed(gvk, o)'
  BY DEF Grows, Reviewed, Tagged

LEMMA CompleteStays ==
  ASSUME Complete, Grows, TasksKeep, AheadKeep PROVE Complete'
<1>1. NodesInv'
  <2> SUFFICES ASSUME NEW o \in Objects(NodePages)
               PROVE  (Reviewed(node, o) \/ InTask(node, o) \/ NodeAhead(o))'
    BY DEF NodesInv
  <2> QED BY ReviewedStays DEF Complete, NodesInv, TasksKeep, AheadKeep
<1>2. NamespacesInv'
  <2> SUFFICES ASSUME NEW ns \in Objects(NamespacePages)
               PROVE  (Reviewed(namespace, ns) \/ InTask(namespace, ns)
                         \/ NamespaceAhead(ns, 0))'
    BY DEF NamespacesInv
  <2> QED BY ReviewedStays DEF Complete, NamespacesInv, TasksKeep, AheadKeep
<1>3. ResourcesInv'
  <2> SUFFICES ASSUME NEW k \in 1..Len(catalog), NEW ns \in Objects(NamespacePages),
                      NEW o \in Objects(ResourcePages(catalog[k], ns.name))
               PROVE  (Reviewed(catalog[k], o) \/ InTask(catalog[k], o)
                         \/ NamespaceAhead(ns, k))'
    BY DEF ResourcesInv
  <2>1. ~ScanEnabled(catalog[k]) => Reviewed(catalog[k], o)'
    <3>1. ~ScanEnabled(catalog[k]) => Reviewed(catalog[k], o)
      BY UnscannedKinds
    <3> QED BY <3>1, ReviewedStays
  <2>2. Reviewed(catalog[k], o) => Reviewed(catalog[k], o)'
    BY ReviewedStays
  <2> QED BY <2>1, <2>2 DEF Complete, ResourcesInv, TasksKeep, AheadKeep
<1> QED BY <1>1, <1>2, <1>3 DEF Complete

LEMMA InTaskStays ==
  ASSUME tasks \subseteq tasks', NEW gvk, NEW o, InTask(gvk, o) PROVE InTask(gvk, o)'
  BY DEF InTask, Pending, Rest

(* Steps that hand over nothing. *)
LEMMA WaitingAhead ==
  ASSUME UNCHANGED <<phase, page, todo, scan>> PROVE AheadKeep
  BY DEF AheadKeep, NodeAhead, NamespaceAhead, Rest, OfNodes, OfNamespaces

LEMMA SameTasks ==
  ASSUME UNCHANGED <<tasks, batch, streamed>> PROVE Grows /\ TasksKeep
<1>1. Grows
  BY DEF Grows
<1>2. \A gvk, o : InTask(gvk, o) => InTask(gvk, o)'
  BY InTaskStays
<1> QED BY <1>1, <1>2 DEF TasksKeep

(* A fault counts. *)
LEMMA Faults ==
  ASSUME FailuresType, NEW what \in {"await", "nodes", "list", "push"}, BackfillFault(what)
  PROVE  /\ FailuresType' /\ failures' # failures
         /\ what = "list" => failures'.list > 0
         /\ what = "push" => failures'.push > 0
<1>1. failures' = [failures EXCEPT ![what] = failures[what] + 1]
  BY DEF BackfillFault
<1>2. CASE what = "await"
  <2>1. failures' = [failures EXCEPT !.await = failures.await + 1]
    BY <1>1, <1>2
  <2>2. failures'.await = failures.await + 1
    BY <2>1 DEF FailuresType
  <2> QED BY <1>2, <2>1, <2>2 DEF FailuresType
<1>3. CASE what = "nodes"
  <2>1. failures' = [failures EXCEPT !.nodes = failures.nodes + 1]
    BY <1>1, <1>3
  <2>2. failures'.nodes = failures.nodes + 1
    BY <2>1 DEF FailuresType
  <2> QED BY <1>3, <2>1, <2>2 DEF FailuresType
<1>4. CASE what = "list"
  <2>1. failures' = [failures EXCEPT !.list = failures.list + 1]
    BY <1>1, <1>4
  <2>2. failures'.list = failures.list + 1
    BY <2>1 DEF FailuresType
  <2> QED BY <1>4, <2>1, <2>2 DEF FailuresType
<1>5. CASE what = "push"
  <2>1. failures' = [failures EXCEPT !.push = failures.push + 1]
    BY <1>1, <1>5
  <2>2. failures'.push = failures.push + 1
    BY <2>1 DEF FailuresType
  <2> QED BY <1>5, <2>1, <2>2 DEF FailuresType
<1> QED BY <1>2, <1>3, <1>4, <1>5

(* The counts of lists and pushes only grow. *)
LEMMA FineBefore ==
  ASSUME FailuresType, phase # "exit_1",
         \/ failures' = failures
         \/ \E what \in {"await", "nodes", "list", "push"} : BackfillFault(what)
  PROVE  FailuresType' /\ (Fine' => Fine)
<1>1. CASE failures' = failures
  BY <1>1 DEF FailuresType, Fine
<1>2. ASSUME NEW what \in {"await", "nodes", "list", "push"}, BackfillFault(what)
      PROVE  FailuresType' /\ (Fine' => Fine)
  <2>1. FailuresType'
    BY <1>2, Faults
  <2>2. failures' = [failures EXCEPT ![what] = @ + 1]
    BY <1>2 DEF BackfillFault
  <2>3. failures'.list >= failures.list /\ failures'.push >= failures.push
    <3>1. CASE what = "list"
      BY <2>2, <3>1 DEF FailuresType
    <3>2. CASE what = "push"
      BY <2>2, <3>2 DEF FailuresType
    <3>3. CASE what \in {"await", "nodes"}
      BY <2>2, <3>3 DEF FailuresType
    <3> QED BY <3>1, <3>2, <3>3
  <2> QED BY <2>1, <2>3 DEF FailuresType, Fine
<1> QED BY <1>1, <1>2

LEMMA ServiceKeeps ==
  ASSUME BackfillInv, ServiceAnswers \/ ServiceFails PROVE BackfillInv'
<1>1. /\ phase \in {"await_webhook", "await_collector"}
      /\ UNCHANGED <<page, todo, scan, tasks, batch, streamed>>
  BY DEF ServiceAnswers, ServiceFails
<1>2. BackfillType /\ page = 1 /\ todo = <<>> /\ tasks = {} /\ scan = 0
  BY <1>1 DEF BackfillInv, BackfillType, Before
<1>3. /\ phase' \in {"await_webhook", "await_collector", "exit_1"} \/ phase' = AfterServices
      /\ phase # "exit_1"
  BY <1>1 DEF ServiceAnswers, ServiceFails, NextService
<1>4. AfterServices \in {"nodes", "namespaces"}
  BY DEF AfterServices
<1>5. FailuresType' /\ (Fine' => Fine)
  <2>1. failures' = failures \/ BackfillFault("await")
    BY DEF ServiceAnswers, ServiceFails
  <2> QED BY <1>2, <1>3, <2>1, FineBefore DEF BackfillType
<1>6. BackfillType'
  BY <1>1, <1>2, <1>3, <1>4, <1>5 DEF BackfillType, Before, OfNodes, OfNamespaces, TaskType
<1>7. ASSUME Fine, phase' # "exit_1" PROVE Complete'
  <2>1. Rest(NodePages, 1) = Objects(NodePages) /\ Rest(NamespacePages, 1) = Objects(NamespacePages)
    BY PagesAssumption, RestSplits
  <2>2. \A o \in Objects(NodePages) : NodeAhead(o)' \/ Reviewed(node, o)'
    <3>1. AfterServices # "nodes" => \A o : Reviewed(node, o)'
      BY <1>1, UnwantedNodes DEF Reviewed, Tagged
    <3> QED BY <1>1, <1>2, <1>3, <1>7, <2>1, <3>1 DEF NodeAhead, Before, Rest
  <2>3. \A ns \in Objects(NamespacePages), k \in 0..Len(catalog) : NamespaceAhead(ns, k)'
    BY <1>1, <1>2, <1>3, <1>4, <1>7, <2>1 DEF NamespaceAhead, Before, OfNodes, Rest
  <2>4. TasksKeep /\ Grows
    BY <1>1, SameTasks
  <2>5. AheadKeep
    BY <2>2, <2>3, CatalogLen DEF AheadKeep
  <2> QED BY <1>7, <2>4, <2>5, CompleteStays DEF BackfillInv, Complete
<1> QED BY <1>5, <1>6, <1>7 DEF BackfillInv, Complete, Fine

LEMMA ListNodesKeeps ==
  ASSUME BackfillInv, ListNodes PROVE BackfillInv'
<1>1. /\ phase = "nodes" /\ todo = <<>> /\ page <= Len(NodePages) /\ todo' = NodePages[page]
      /\ \/ page < Len(NodePages) /\ page' = page + 1 /\ phase' = "nodes"
         \/ ~(page < Len(NodePages)) /\ page' = 1 /\ phase' = "wait_nodes"
      /\ UNCHANGED <<scan, tasks, batch, streamed, failures>>
  BY DEF ListNodes, Listing
<1>2. BackfillType /\ scan = 0 /\ page \in Nat \ {0}
  BY <1>1 DEF BackfillInv, BackfillType
<1>3. todo' \in Seq(Objects(NodePages)) /\ Len(NodePages) \in Nat
  BY <1>1, <1>2, PagesAssumption
<1>4. BackfillType'
  <2>1. FailuresType'
    BY <1>1, <1>2 DEF BackfillType, FailuresType
  <2> QED BY <1>1, <1>2, <1>3, <2>1 DEF BackfillType, Before, OfNodes, OfNamespaces, TaskType
<1>5. AheadKeep
  <2>1. ASSUME NEW o \in Objects(NodePages), NodeAhead(o) PROVE NodeAhead(o)'
    <3>1. o \in Rest(NodePages, page)
      <4>1. ToSet(todo) = {}
        BY <1>1 DEF ToSet
      <4> QED BY <1>1, <2>1, <4>1 DEF NodeAhead, Before
    <3>2. o \in ToSet(NodePages[page]) \/ o \in Rest(NodePages, page + 1)
      BY <1>1, <1>2, <1>3, <3>1, RestSplits
    <3>3. page + 1 > Len(NodePages) => Rest(NodePages, page + 1) = {}
      BY <1>2, <1>3, RestSplits
    <3> QED BY <1>1, <1>2, <1>3, <3>2, <3>3 DEF NodeAhead, OfNodes, Rest
  <2>2. \A ns, k : NamespaceAhead(ns, k)'
    BY <1>1 DEF NamespaceAhead, OfNodes
  <2> QED BY <2>1, <2>2 DEF AheadKeep
<1>6. Complete => Complete'
  BY <1>1, <1>5, SameTasks, CompleteStays
<1> QED BY <1>1, <1>4, <1>6 DEF BackfillInv, Complete, Fine

LEMMA ListNamespacesKeeps ==
  ASSUME BackfillInv, ListNamespaces PROVE BackfillInv'
<1>1. /\ phase = "namespaces" /\ todo = <<>> /\ page <= Len(NamespacePages)
      /\ todo' = NamespacePages[page]
      /\ \/ page < Len(NamespacePages) /\ page' = page + 1 /\ phase' = "namespaces"
         \/ ~(page < Len(NamespacePages)) /\ page' = 1 /\ phase' = "wait"
      /\ UNCHANGED <<scan, tasks, batch, streamed, failures>>
  BY DEF ListNamespaces, Listing
<1>2. BackfillType /\ scan = 0 /\ page \in Nat \ {0}
  BY <1>1 DEF BackfillInv, BackfillType
<1>3. todo' \in Seq(Objects(NamespacePages)) /\ Len(NamespacePages) \in Nat
  BY <1>1, <1>2, PagesAssumption
<1>4. BackfillType'
  <2>1. FailuresType'
    BY <1>1, <1>2 DEF BackfillType, FailuresType
  <2> QED BY <1>1, <1>2, <1>3, <2>1 DEF BackfillType, Before, OfNodes, OfNamespaces, TaskType
<1>5. AheadKeep
  <2>1. \A o : ~NodeAhead(o)
    BY <1>1 DEF NodeAhead, Before, OfNodes
  <2>2. ASSUME NEW ns \in Objects(NamespacePages), NEW k \in 0..Len(catalog),
               NamespaceAhead(ns, k)
        PROVE  NamespaceAhead(ns, k)'
    <3>1. ns \in Rest(NamespacePages, page)
      BY <1>1, <2>2 DEF NamespaceAhead, Before, OfNodes
    <3>2. ns \in ToSet(NamespacePages[page]) \/ ns \in Rest(NamespacePages, page + 1)
      BY <1>1, <1>2, <1>3, <3>1, RestSplits
    <3>3. page + 1 > Len(NamespacePages) => Rest(NamespacePages, page + 1) = {}
      BY <1>2, <1>3, RestSplits
    <3>4. CASE ns \in ToSet(NamespacePages[page])
      <4>1. PICK i \in 1..Len(todo') : todo'[i] = ns
        BY <1>1, <1>3, <3>4, ElementsOf
      <4> QED BY <1>1, <1>2, <4>1, CatalogLen DEF NamespaceAhead, OfNamespaces
    <3>5. CASE ns \in Rest(NamespacePages, page + 1)
      BY <1>1, <1>2, <1>3, <3>3, <3>5 DEF NamespaceAhead, Rest
    <3> QED BY <3>2, <3>4, <3>5
  <2> QED BY <2>1, <2>2, CatalogLen DEF AheadKeep
<1>6. Complete => Complete'
  BY <1>1, <1>5, SameTasks, CompleteStays
<1> QED BY <1>1, <1>4, <1>6 DEF BackfillInv, Complete, Fine

LEMMA ListFailsKeeps ==
  ASSUME BackfillInv, NodeListFails \/ NamespaceListFails PROVE BackfillInv'
<1>1. /\ UNCHANGED <<page, todo, scan, tasks, batch, streamed>> /\ todo = <<>>
      /\ \/ NodeListFails /\ phase = "nodes" /\ phase' = phase /\ BackfillFault("nodes")
         \/ phase = "namespaces" /\ phase' = "exit_1" /\ BackfillFault("list")
  BY DEF NodeListFails, NamespaceListFails
<1>2. BackfillType /\ FailuresType
  BY DEF BackfillInv, BackfillType
<1>3. FailuresType' /\ (Fine' => Fine)
  BY <1>1, <1>2, FineBefore
<1>4. BackfillType'
  BY <1>1, <1>2, <1>3 DEF BackfillType, Before, OfNodes, OfNamespaces, TaskType
<1>5. phase' = "exit_1" => ~Fine'
  BY DEF Fine
<1>6. CASE phase' = phase
  <2>1. Complete => Complete'
    BY <1>1, <1>6, SameTasks, WaitingAhead, CompleteStays
  <2> QED BY <1>3, <1>4, <2>1 DEF BackfillInv, Complete
<1> QED BY <1>1, <1>4, <1>5, <1>6 DEF BackfillInv

LEMMA WaitKeeps ==
  ASSUME BackfillInv, Wait PROVE BackfillInv'
<1>1. /\ todo = <<>> /\ tasks = {}
      /\ \/ phase = "wait" /\ phase' = "flush"
         \/ phase = "wait_nodes" /\ phase' = "namespaces"
      /\ UNCHANGED <<page, todo, scan, tasks, batch, streamed, failures>>
  BY DEF Wait
<1>2. BackfillType /\ page = 1
  BY <1>1 DEF BackfillInv, BackfillType, Before
<1>3. FailuresType'
  BY <1>1, <1>2 DEF BackfillType, FailuresType
<1>4. BackfillType'
  BY <1>1, <1>2, <1>3 DEF BackfillType, Before, OfNodes, OfNamespaces, TaskType
<1>5. AheadKeep
  <2>1. \A o : ~NodeAhead(o)
    <3>1. ToSet(todo) = {}
      BY <1>1 DEF ToSet
    <3> QED BY <1>1, <3>1 DEF NodeAhead, Before, OfNodes
  <2>2. phase = "wait" => \A ns, k : ~NamespaceAhead(ns, k)
    BY <1>1 DEF NamespaceAhead, Before, OfNodes
  <2>3. phase = "wait_nodes" => \A ns \in Objects(NamespacePages) : \A k : NamespaceAhead(ns, k)'
    <3>1. Rest(NamespacePages, 1) = Objects(NamespacePages)
      BY PagesAssumption, RestSplits
    <3> QED BY <1>1, <1>2, <3>1 DEF NamespaceAhead, Rest
  <2> QED BY <1>1, <2>1, <2>2, <2>3 DEF AheadKeep
<1>6. Complete => Complete'
  BY <1>1, <1>5, SameTasks, CompleteStays
<1> QED BY <1>1, <1>4, <1>6 DEF BackfillInv, Complete, Fine

LEMMA LeastOf ==
  ASSUME NEW S, S \subseteq Nat, S # {} PROVE Min(S) \in S /\ \A y \in S : Min(S) <= y
<1>1. PICK x \in S : \A y \in S : ~(<<y, x>> \in OpToRel(<, Nat))
  BY NatLessThanWellFounded, WFMin
<1>2. \A y \in S : ~(y < x)
  BY <1>1 DEF OpToRel
<1>3. \E m \in S : \A y \in S : m <= y
  BY <1>2
<1> QED BY <1>3 DEF Min

(* The loop over the catalog passes no kind that is scanned. *)
LEMMA NextKinds ==
  ASSUME BackfillType, todo # <<>>, phase # "exit_1"
  PROVE  /\ NextKind \in 0..Len(catalog) /\ (OfNodes => NextKind = 0)
         /\ NextKind = 0 \/ NextKind > scan
         /\ \A k \in 1..Len(catalog) :
              ~OfNodes /\ ScanEnabled(catalog[k]) /\ k > scan => NextKind # 0 /\ NextKind <= k
<1> DEFINE ahead == {k \in scan + 1..Len(catalog) : ~OfNodes /\ ScanEnabled(catalog[k])}
<1>1. NextKind = IF ahead = {} THEN 0 ELSE Min(ahead)
  BY DEF NextKind
<1>2. scan \in 0..Len(catalog) /\ Len(catalog) \in Nat
  BY CatalogLen DEF BackfillType
<1>3. ahead \subseteq Nat /\ ahead \subseteq scan + 1..Len(catalog) /\ (OfNodes => ahead = {})
  BY <1>2
<1>4. \A k \in 1..Len(catalog) : ~OfNodes /\ ScanEnabled(catalog[k]) /\ k > scan => k \in ahead
  BY <1>2
<1> HIDE DEF ahead
<1>5. CASE ahead = {}
  BY <1>1, <1>2, <1>4, <1>5
<1>6. CASE ahead # {}
  <2>1. NextKind \in ahead /\ \A k \in ahead : NextKind <= k
    BY <1>1, <1>3, <1>6, LeastOf
  <2> QED BY <1>2, <1>3, <1>4, <2>1
<1> QED BY <1>5, <1>6

LEMMA TaskIn ==
  ASSUME NEW t, t \in tasks', NEW gvk, gvk = t.gvk, NEW o, o \in Pending(t)
  PROVE  InTask(gvk, o)'
<1>1. Pending(t)' = Pending(t)
  BY DEF Pending, Rest
<1> QED BY <1>1 DEF InTask

LEMMA RunTaskKeeps ==
  ASSUME BackfillInv, RunTask PROVE BackfillInv'
<1>1. /\ phase \notin {"exit_0", "exit_1"} /\ todo # <<>>
      /\ tasks' = tasks \cup {NextTask} /\ scan' = NextKind
      /\ todo' = IF NextKind = 0 THEN Tail(todo) ELSE todo
      /\ UNCHANGED <<phase, page, batch, streamed, failures>>
  BY DEF RunTask
<1>2. BackfillType
  BY DEF BackfillInv
<1>3. OfNodes \/ OfNamespaces
  BY <1>1, <1>2 DEF BackfillType, Before, OfNodes, OfNamespaces
<1>4. /\ NextKind \in 0..Len(catalog) /\ (OfNodes => NextKind = 0)
      /\ NextKind = 0 \/ NextKind > scan
      /\ \A k \in 1..Len(catalog) :
           ~OfNodes /\ ScanEnabled(catalog[k]) /\ k > scan => NextKind # 0 /\ NextKind <= k
  BY <1>1, <1>2, NextKinds
<1>5. ~(OfNodes /\ OfNamespaces)
  BY DEF OfNodes, OfNamespaces
<1>6. scan \in 0..Len(catalog) /\ Len(catalog) \in Nat
  BY <1>2, CatalogLen DEF BackfillType
<1>7. ASSUME NEW S, todo \in Seq(S)
      PROVE  /\ todo' \in Seq(S) /\ Head(todo) \in S /\ Head(todo) = todo[1] /\ Len(todo) \in Nat
             /\ Len(todo') = IF NextKind = 0 THEN Len(todo) - 1 ELSE Len(todo)
             /\ \A i \in 1..Len(todo) : i > 1 /\ NextKind = 0 => todo'[i - 1] = todo[i]
             /\ ToSet(todo) = {Head(todo)} \cup ToSet(Tail(todo))
  <2>1. /\ Head(todo) \in S /\ Tail(todo) \in Seq(S) /\ Len(Tail(todo)) = Len(todo) - 1
        /\ Head(todo) = todo[1] /\ Len(todo) \in Nat /\ Len(todo) >= 1
        /\ \A i \in 1..Len(todo) - 1 : Tail(todo)[i] = todo[i + 1]
    BY <1>1, <1>7
  <2>2. ToSet(todo) = {Head(todo)} \cup ToSet(Tail(todo))
    BY <1>1, <1>7, SetOfSeq
  <2>3. ASSUME NEW i \in 1..Len(todo), i > 1 PROVE Tail(todo)[i - 1] = todo[i]
    <3>1. i - 1 \in 1..Len(todo) - 1 /\ (i - 1) + 1 = i
      BY <2>1, <2>3
    <3> QED BY <2>1, <3>1
  <2> QED BY <1>1, <1>7, <2>1, <2>2, <2>3
<1>8. /\ OfNodes => todo \in Seq(Objects(NodePages)) /\ scan = 0
      /\ OfNamespaces => todo \in Seq(Objects(NamespacePages))
  BY <1>2 DEF BackfillType
<1>9. TaskType(NextTask)
  <2>1. ASSUME NEW gvk \in {node, namespace}, NEW o \in ClusterObjects
        PROVE  TaskType(ObjectTask(gvk, o))
    BY <2>1 DEF TaskType, ObjectTask, Kinds
  <2>2. ASSUME NEW gvk \in ToSet(catalog), NEW ns \in Objects(NamespacePages)
        PROVE  TaskType(ListTask(gvk, ns.name))
    BY DEF TaskType, ListTask, Kinds
  <2>3. scan > 0 => catalog[scan] \in ToSet(catalog) /\ OfNamespaces
    BY <1>3, <1>6, <1>8, CatalogKinds
  <2>4. OfNodes => Head(todo) \in Objects(NodePages)
    BY <1>7, <1>8
  <2>5. OfNamespaces => Head(todo) \in Objects(NamespacePages)
    BY <1>7, <1>8
  <2>6. Head(todo) \in ClusterObjects
    BY <1>3, <2>4, <2>5 DEF ClusterObjects
  <2>7. CASE scan > 0
    BY <2>2, <2>3, <2>5, <2>7 DEF NextTask
  <2>8. CASE ~(scan > 0)
    BY <2>1, <2>6, <2>8 DEF NextTask
  <2> QED BY <2>7, <2>8
<1>10. BackfillType'
  <2>1. /\ OfNodes' = OfNodes /\ OfNamespaces' = OfNamespaces
        /\ phase \notin Before \cup {"flush", "exit_0"}
    BY <1>1, <1>3 DEF OfNodes, OfNamespaces, Before
  <2>2. todo' = <<>> => scan' = 0
    BY <1>1
  <2>3. FailuresType' /\ (\A t \in tasks' : TaskType(t))
    BY <1>1, <1>2, <1>9 DEF BackfillType, FailuresType
  <2>4. /\ OfNodes => todo' \in Seq(Objects(NodePages)) /\ scan' = 0
        /\ OfNamespaces => todo' \in Seq(Objects(NamespacePages))
    BY <1>1, <1>4, <1>7, <1>8
  <2> QED BY <1>1, <1>2, <1>4, <2>1, <2>2, <2>3, <2>4 DEF BackfillType, TaskType
<1>11. ASSUME NEW gvk, gvk = NextTask.gvk, NEW o, o \in Pending(NextTask)
       PROVE  InTask(gvk, o)'
  BY <1>1, <1>11, TaskIn
<1>12. ASSUME scan = 0, NEW gvk, gvk = (IF OfNodes THEN node ELSE namespace),
              NEW o, o = Head(todo)
       PROVE  InTask(gvk, o)'
  <2>1. NextTask.gvk = gvk /\ NextTask.items = <<o>>
    BY <1>12 DEF NextTask, ObjectTask
  <2>2. o \in Pending(NextTask)
    <3>1. o \in ToSet(<<o>>)
      BY DEF ToSet
    <3> QED BY <2>1, <3>1 DEF Pending
  <2> QED BY <1>11, <2>1, <2>2
<1>13. ASSUME scan > 0, NEW gvk, gvk = catalog[scan], NEW ns, ns = Head(todo),
              NEW o \in Objects(ResourcePages(gvk, ns.name))
       PROVE  InTask(gvk, o)'
  <2>1. NextTask.gvk = gvk /\ NextTask.namespace = ns.name /\ NextTask.next = 1
    BY <1>13 DEF NextTask, ListTask
  <2>2. o \in Rest(ResourcePages(gvk, ns.name), 1)
    BY <1>13 DEF Rest, Objects
  <2>3. o \in Pending(NextTask)
    BY <2>1, <2>2 DEF Pending
  <2> QED BY <1>11, <2>1, <2>3
<1>14. AheadKeep
  <2>1. ASSUME NEW o \in Objects(NodePages), NodeAhead(o)
        PROVE  NodeAhead(o)' \/ InTask(node, o)'
    <3>1. CASE phase = "nodes" /\ o \in Rest(NodePages, page)
      BY <1>1, <3>1 DEF NodeAhead, Rest
    <3>2. CASE OfNodes /\ o \in ToSet(todo)
      <4>1. scan = 0 /\ todo' = Tail(todo) /\ (o = Head(todo) \/ o \in ToSet(Tail(todo)))
        BY <1>1, <1>4, <1>7, <1>8, <3>2
      <4>2. o = Head(todo) => InTask(node, o)'
        BY <1>12, <3>2, <4>1
      <4>3. o \in ToSet(Tail(todo)) => NodeAhead(o)'
        BY <1>1, <3>2, <4>1 DEF NodeAhead, OfNodes
      <4> QED BY <4>1, <4>2, <4>3
    <3> QED BY <1>3, <2>1, <3>1, <3>2 DEF NodeAhead, Before, OfNodes, OfNamespaces
  <2>2. ASSUME NEW ns \in Objects(NamespacePages), NEW k \in 0..Len(catalog),
               NamespaceAhead(ns, k), k = 0 \/ ScanEnabled(catalog[k]),
               ~NamespaceAhead(ns, k)'
        PROVE  scan = k /\ Head(todo) = ns /\ OfNamespaces
    <3>1. ~OfNodes /\ OfNamespaces
      BY <1>1, <1>3, <2>2 DEF NamespaceAhead, OfNodes
    <3>2. PICK i \in 1..Len(todo) : todo[i] = ns /\ (i > 1 \/ scan <= k)
      <4>1. ~(phase = "namespaces" /\ ns \in Rest(NamespacePages, page))
        BY <1>1, <2>2 DEF NamespaceAhead, Rest
      <4> QED BY <2>2, <3>1, <4>1 DEF NamespaceAhead, OfNamespaces, Before
    <3>3. /\ Head(todo) = todo[1] /\ Len(todo) \in Nat
          /\ Len(todo') = IF NextKind = 0 THEN Len(todo) - 1 ELSE Len(todo)
          /\ i > 1 /\ NextKind = 0 => todo'[i - 1] = todo[i]
      BY <1>7, <1>8, <3>1
    <3>4. \A j \in 1..Len(todo') : todo'[j] = ns => ~(j > 1 \/ NextKind <= k)
      BY <1>1, <2>2, <3>1 DEF NamespaceAhead, OfNamespaces
    <3>5. ~(i > 1)
      <4>1. CASE i > 1 /\ NextKind = 0
        <5>1. i - 1 \in 1..Len(todo') /\ todo'[i - 1] = ns
          BY <3>2, <3>3, <4>1
        <5> QED BY <3>4, <4>1, <5>1
      <4>2. CASE i > 1 /\ NextKind # 0
        <5>1. todo' = todo
          BY <1>1, <4>2
        <5> QED BY <3>2, <3>4, <4>2, <5>1
      <4> QED BY <4>1, <4>2
    <3>6. i = 1 /\ scan <= k /\ Head(todo) = ns
      BY <3>2, <3>3, <3>5
    <3>7. ~(k > scan)
      <4> SUFFICES ASSUME k > scan PROVE FALSE
        OBVIOUS
      <4>1. k \in 1..Len(catalog) /\ ScanEnabled(catalog[k])
        BY <1>6, <2>2
      <4>2. NextKind # 0 /\ NextKind <= k /\ todo' = todo
        BY <1>1, <1>4, <3>1, <4>1
      <4> QED BY <3>2, <3>4, <3>6, <4>2
    <3> QED BY <1>6, <3>1, <3>6, <3>7
  <2>3. ASSUME NEW ns \in Objects(NamespacePages), NamespaceAhead(ns, 0)
        PROVE  NamespaceAhead(ns, 0)' \/ InTask(namespace, ns)'
    <3> SUFFICES ASSUME ~NamespaceAhead(ns, 0)' PROVE InTask(namespace, ns)'
      OBVIOUS
    <3>1. scan = 0 /\ Head(todo) = ns /\ ~OfNodes
      BY <1>5, <1>6, <2>2, <2>3
    <3> QED BY <1>12, <3>1
  <2>4. ASSUME NEW ns \in Objects(NamespacePages), NEW k \in 1..Len(catalog),
               NamespaceAhead(ns, k), ScanEnabled(catalog[k]), ~NamespaceAhead(ns, k)',
               NEW o \in Objects(ResourcePages(catalog[k], ns.name))
        PROVE  InTask(catalog[k], o)'
    <3>1. scan = k /\ Head(todo) = ns /\ scan > 0
      BY <1>6, <2>2, <2>4
    <3> QED BY <1>13, <3>1
  <2> QED BY <2>1, <2>3, <2>4 DEF AheadKeep
<1>15. Grows /\ TasksKeep
  BY <1>1, InTaskStays DEF Grows, TasksKeep
<1> QED BY <1>1, <1>10, <1>14, <1>15, CompleteStays DEF BackfillInv, Complete, Fine

(* A task takes one step; the other tasks stay. *)
LEMMA OthersIn ==
  ASSUME NEW t, tasks \ {t} \subseteq tasks', NEW gvk, NEW o, InTask(gvk, o),
         ~(gvk = t.gvk /\ o \in Pending(t))
  PROVE  InTask(gvk, o)'
<1>1. PICK u \in tasks : u.gvk = gvk /\ o \in Pending(u)
  BY DEF InTask
<1>2. u \in tasks'
  BY <1>1
<1> QED BY <1>1, <1>2, TaskIn

(* What it had to review is with its next state or reviewed. *)
LEMMA OneTask ==
  ASSUME NEW t, tasks \ {t} \subseteq tasks',
         \A o \in Pending(t) :
           \/ \E u \in tasks' : u.gvk = t.gvk /\ o \in Pending(u)
           \/ \A gvk : gvk = t.gvk => Reviewed(gvk, o)'
  PROVE  TasksKeep
<1> SUFFICES ASSUME NEW gvk, NEW o, InTask(gvk, o)
             PROVE  InTask(gvk, o)' \/ Reviewed(gvk, o)'
  BY DEF TasksKeep
<1>1. CASE ~(gvk = t.gvk /\ o \in Pending(t))
  BY <1>1, OthersIn
<1>2. CASE gvk = t.gvk /\ o \in Pending(t)
  <2>1. ASSUME NEW u \in tasks', u.gvk = t.gvk, o \in Pending(u) PROVE InTask(gvk, o)'
    BY <1>2, <2>1, TaskIn
  <2> QED BY <1>2, <2>1
<1> QED BY <1>1, <1>2

LEMMA TaskTypes ==
  ASSUME BackfillType, UNCHANGED <<phase, page, todo, scan>>, tasks # {},
         \A u \in tasks' : TaskType(u), batch' \in Seq(Records), FailuresType'
  PROVE  BackfillType' /\ phase \notin {"exit_0", "flush"}
<1>1. phase \notin Before \cup {"flush", "exit_0"}
  BY DEF BackfillType
<1> QED BY <1>1 DEF BackfillType, OfNodes, OfNamespaces, TaskType

LEMMA TaskMoves ==
  ASSUME NEW t, TaskType(t), NEW items, NEW next
  PROVE  /\ [t EXCEPT !.items = items] =
              [gvk |-> t.gvk, namespace |-> t.namespace, items |-> items, next |-> t.next]
         /\ [t EXCEPT !.items = items, !.next = next] =
              [gvk |-> t.gvk, namespace |-> t.namespace, items |-> items, next |-> next]
<1>1. t = [gvk |-> t.gvk, namespace |-> t.namespace, items |-> t.items, next |-> t.next]
  BY DEF TaskType
<1>2. [t EXCEPT !.items = items] =
        [gvk |-> t.gvk, namespace |-> t.namespace, items |-> items, next |-> t.next]
  BY <1>1
<1>3. [t EXCEPT !.items = items, !.next = next] =
        [[gvk |-> t.gvk, namespace |-> t.namespace, items |-> items, next |-> t.next]
           EXCEPT !.next = next]
  BY <1>2
<1> QED BY <1>2, <1>3

(* The pages of the task's list. *)
LEMMA PagesOf ==
  ASSUME NEW t, TaskType(t), t.next > 0, NEW pages, pages = ResourcePages(t.gvk, t.namespace)
  PROVE  /\ pages \in Seq(Seq(Objects(pages))) /\ Objects(pages) \subseteq ClusterObjects
         /\ Len(pages) \in Nat
<1>1. PICK ns \in Objects(NamespacePages) : t.namespace = ns.name
  BY DEF TaskType
<1>2. t.gvk \in ToSet(catalog)
  BY DEF TaskType
<1>3. pages \in Seq(Seq(Objects(pages)))
  BY <1>1, <1>2, PagesAssumption
<1>4. Objects(pages) \subseteq ClusterObjects
  BY <1>1, <1>2 DEF ClusterObjects
<1> QED BY <1>3, <1>4

LEMMA ListResourcesKeeps ==
  ASSUME BackfillInv, NEW t \in tasks, ListResources(t) PROVE BackfillInv'
<1> DEFINE pages == ResourcePages(t.gvk, t.namespace)
           u == [t EXCEPT !.items = pages[t.next],
                          !.next = IF t.next < Len(pages) THEN t.next + 1 ELSE 0]
<1>1. /\ t.items = <<>> /\ t.next > 0
      /\ \/ t.next > Len(pages) /\ tasks' = tasks \ {t}
         \/ ~(t.next > Len(pages)) /\ tasks' = (tasks \ {t}) \cup {u}
      /\ UNCHANGED <<phase, page, todo, scan, batch, streamed, failures>>
  BY DEF ListResources, Becomes
<1>2. BackfillType /\ TaskType(t)
  BY DEF BackfillInv, BackfillType
<1>3. /\ pages \in Seq(Seq(Objects(pages))) /\ Objects(pages) \subseteq ClusterObjects
      /\ Len(pages) \in Nat /\ t.next \in Nat \ {0}
  <2>1. t.next \in Nat \ {0}
    BY <1>1, <1>2 DEF TaskType
  <2> QED BY <1>1, <1>2, <2>1, PagesOf
<1>4. Pending(t) = Rest(pages, t.next)
  <2>1. ToSet(t.items) = {}
    BY <1>1 DEF ToSet
  <2> QED BY <1>1, <2>1 DEF Pending
<1>5. ASSUME ~(t.next > Len(pages))
      PROVE  TaskType(u) /\ u.gvk = t.gvk /\ Pending(u) = Pending(t)
  <2>1. /\ u = [gvk |-> t.gvk, namespace |-> t.namespace, items |-> pages[t.next],
                next |-> IF t.next < Len(pages) THEN t.next + 1 ELSE 0]
    BY <1>2, TaskMoves
  <2>2. pages[t.next] \in Seq(ClusterObjects)
    BY <1>3, <1>5
  <2>3. TaskType(u) /\ u.gvk = t.gvk
    BY <1>1, <1>2, <1>3, <2>1, <2>2 DEF TaskType
  <2>4. Rest(pages, t.next) = ToSet(pages[t.next]) \cup Rest(pages, t.next + 1)
    <3>1. t.next <= Len(pages)
      BY <1>3, <1>5
    <3> HIDE DEF pages
    <3> QED BY <1>3, <3>1, RestSplits
  <2>5. t.next + 1 > Len(pages) => Rest(pages, t.next + 1) = {}
    BY <1>3, RestSplits
  <2>6. CASE t.next < Len(pages)
    <3>1. u.items = pages[t.next] /\ u.next = t.next + 1 /\ u.next > 0
          /\ u.namespace = t.namespace
      BY <1>3, <2>1, <2>6
    <3>2. Pending(u) = ToSet(pages[t.next]) \cup Rest(pages, t.next + 1)
      BY <2>3, <3>1 DEF Pending
    <3> QED BY <1>4, <2>3, <2>4, <3>2
  <2>7. CASE ~(t.next < Len(pages))
    <3>1. u.items = pages[t.next] /\ u.next = 0 /\ ~(u.next > 0)
      BY <1>3, <2>1, <2>7
    <3>2. Pending(u) = ToSet(pages[t.next])
      BY <3>1 DEF Pending
    <3> QED BY <1>3, <1>4, <2>3, <2>4, <2>5, <2>7, <3>2
  <2> QED BY <2>6, <2>7
<1>6. BackfillType'
  <2>1. FailuresType'
    BY <1>1, <1>2 DEF BackfillType, FailuresType
  <2>2. \A v \in tasks' : TaskType(v)
    BY <1>1, <1>2, <1>5 DEF BackfillType
  <2>3. batch' \in Seq(Records)
    BY <1>1, <1>2 DEF BackfillType
  <2> QED BY <1>1, <1>2, <2>1, <2>2, <2>3, TaskTypes
<1>7. TasksKeep
  <2>1. t.next > Len(pages) => Pending(t) = {}
    BY <1>3, <1>4, RestSplits
  <2> HIDE DEF u
  <2> QED BY <1>1, <1>5, <2>1, OneTask
<1>8. Grows /\ AheadKeep
  BY <1>1, WaitingAhead DEF Grows
<1> QED BY <1>1, <1>6, <1>7, <1>8, CompleteStays DEF BackfillInv, Complete, Fine

LEMMA TaskEndsKeeps ==
  ASSUME BackfillInv, NEW t \in tasks, ListResourcesFails(t) \/ TaskEnds(t)
  PROVE  BackfillInv'
<1>1. /\ tasks' = tasks \ {t} /\ t.items = <<>>
      /\ UNCHANGED <<phase, page, todo, scan, batch, streamed>>
      /\ \/ BackfillFault("list")
         \/ t.next = 0 /\ failures' = failures
      /\ phase # "exit_1"
  BY DEF ListResourcesFails, TaskEnds, Alive
<1>2. BackfillType
  BY DEF BackfillInv
<1>3. FailuresType' /\ (Fine' => Fine)
  BY <1>1, <1>2, FineBefore DEF BackfillType
<1>4. BackfillType'
  <2>1. \A v \in tasks' : TaskType(v)
    BY <1>1, <1>2 DEF BackfillType
  <2>2. batch' \in Seq(Records)
    BY <1>1, <1>2 DEF BackfillType
  <2> QED BY <1>1, <1>2, <1>3, <2>1, <2>2, TaskTypes
<1>5. CASE BackfillFault("list")
  <2>1. ~Fine'
    BY <1>2, <1>5, Faults DEF BackfillType, Fine, FailuresType
  <2> QED BY <1>4, <2>1 DEF BackfillInv
<1>6. CASE t.next = 0 /\ failures' = failures
  <2>1. Pending(t) = {}
    BY <1>1, <1>6 DEF Pending, ToSet
  <2>2. TasksKeep
    BY <1>1, <2>1, OneTask
  <2>3. Grows /\ AheadKeep
    BY <1>1, WaitingAhead DEF Grows
  <2> QED BY <1>3, <1>4, <2>2, <2>3, CompleteStays DEF BackfillInv, Complete
<1> QED BY <1>1, <1>5, <1>6

(* The batch is accepted, or a push has failed. *)
LEMMA Flushes ==
  ASSUME FailuresType, phase # "exit_1", NEW records, flushLocked(records)
  PROVE  /\ batch' = <<>> /\ FailuresType'
         /\ failures' = failures \/ failures'.push > 0
         /\ failures'.push = 0 => streamed' = streamed \cup ToSet(records)
<1>1. CASE streamed' = streamed \cup ToSet(records) /\ failures' = failures
  BY <1>1 DEF flushLocked, FailuresType
<1>2. CASE BackfillFault("push")
  <2>1. FailuresType' /\ failures'.push > 0
    BY <1>2, Faults
  <2>2. failures'.push # 0
    BY <2>1 DEF FailuresType
  <2> QED BY <2>1, <2>2 DEF flushLocked
<1> QED BY <1>1, <1>2 DEF flushLocked

LEMMA Stores ==
  ASSUME BackfillType, Alive, phase' = phase, NEW record \in Records, StoreCreate(record)
  PROVE  /\ batch' \in Seq(Records) /\ FailuresType' /\ (Fine' => Fine)
         /\ Fine' => Grows /\ record \in streamed' \cup ToSet(batch')
<1> DEFINE records == Append(batch, record)
<1>1. batch \in Seq(Records) /\ FailuresType /\ phase # "exit_1"
  BY DEF BackfillType, Alive
<1>2. records \in Seq(Records) /\ ToSet(records) = ToSet(batch) \cup {record}
  BY <1>1, SetOfAppend
<1> HIDE DEF records
<1>3. CASE batch' = records /\ UNCHANGED <<streamed, failures>>
  BY <1>1, <1>2, <1>3 DEF FailuresType, Fine, Grows
<1>4. CASE flushLocked(records)
  <2>1. /\ batch' = <<>> /\ FailuresType'
        /\ failures' = failures \/ failures'.push > 0
        /\ failures'.push = 0 => streamed' = streamed \cup ToSet(records)
    BY <1>1, <1>4, Flushes
  <2>2. Fine' => failures' = failures /\ streamed' = streamed \cup ToSet(records)
    BY <2>1 DEF Fine, FailuresType
  <2>3. Fine' => Fine
    BY <2>2 DEF Fine
  <2>4. <<>> \in Seq(Records)
    OBVIOUS
  <2> QED BY <1>2, <2>1, <2>2, <2>3, <2>4 DEF Grows
<1> QED BY <1>3, <1>4 DEF StoreCreate, records

LEMMA ReviewKeeps ==
  ASSUME BackfillInv, NEW t \in tasks, ReviewObject(t) PROVE BackfillInv'
<1> DEFINE written == Review(buildAdmissionReview(t.gvk, Head(t.items)))
           u == [t EXCEPT !.items = Tail(t.items)]
<1>1. /\ Alive /\ t.items # <<>> /\ tasks' = (tasks \ {t}) \cup {u}
      /\ \/ written = {} /\ UNCHANGED <<batch, streamed, failures>>
         \/ \E record \in written : StoreCreate(record)
      /\ UNCHANGED <<phase, page, todo, scan>>
  BY DEF ReviewObject, Becomes
<1>2. BackfillType /\ TaskType(t)
  BY DEF BackfillInv, BackfillType
<1>3. /\ Head(t.items) \in ClusterObjects /\ Tail(t.items) \in Seq(ClusterObjects)
      /\ ToSet(t.items) = {Head(t.items)} \cup ToSet(Tail(t.items))
  BY <1>1, <1>2, SetOfSeq DEF TaskType
<1>4. /\ u = [gvk |-> t.gvk, namespace |-> t.namespace, items |-> Tail(t.items),
              next |-> t.next]
  BY <1>2, TaskMoves
<1>5. TaskType(u) /\ u.gvk = t.gvk
  BY <1>2, <1>3, <1>4 DEF TaskType
<1>6. Pending(t) = {Head(t.items)} \cup Pending(u)
  BY <1>3, <1>4 DEF Pending
<1>7. written \subseteq Records
  BY <1>2, <1>3 DEF Records, TaskType
<1>8. /\ batch' \in Seq(Records) /\ FailuresType' /\ (Fine' => Fine)
      /\ Fine' => Grows /\ \A record \in written : record \in streamed' \cup ToSet(batch')
  <2>1. CASE written = {} /\ UNCHANGED <<batch, streamed, failures>>
    BY <1>1, <1>2, <2>1 DEF BackfillType, FailuresType, Fine, Grows
  <2>2. ASSUME NEW record \in written, StoreCreate(record)
        PROVE  /\ batch' \in Seq(Records) /\ FailuresType' /\ (Fine' => Fine)
               /\ Fine' => Grows /\ \A r \in written : r \in streamed' \cup ToSet(batch')
    <3>1. \A r \in written : r = record
      BY <2>2, OneRecord
    <3> HIDE DEF written
    <3> QED BY <1>1, <1>2, <1>7, <2>2, <3>1, Stores
  <2> QED BY <1>1, <2>1, <2>2
<1>9. BackfillType'
  <2>1. \A v \in tasks' : TaskType(v)
    BY <1>1, <1>2, <1>5 DEF BackfillType
  <2> QED BY <1>1, <1>2, <1>8, <2>1, TaskTypes
<1>10. Fine' => TasksKeep
  <2>1. ASSUME Fine', NEW gvk, gvk = t.gvk, NEW o, o = Head(t.items) PROVE Reviewed(gvk, o)'
    BY <1>8, <2>1 DEF Reviewed, Tagged
  <2>2. u \in tasks' /\ tasks \ {t} \subseteq tasks'
    BY <1>1
  <2> HIDE DEF u
  <2> QED BY <1>5, <1>6, <2>1, <2>2, OneTask
<1>11. AheadKeep
  BY <1>1, WaitingAhead
<1> QED BY <1>8, <1>9, <1>10, <1>11, CompleteStays DEF BackfillInv, Complete

LEMMA StreamFlushKeeps ==
  ASSUME BackfillInv, StreamFlush PROVE BackfillInv'
<1>1. /\ phase = "flush" /\ UNCHANGED <<page, todo, scan, tasks>>
      /\ \/ batch = <<>> /\ UNCHANGED <<batch, streamed, failures>>
         \/ flushLocked(batch)
      /\ \/ failures' = failures /\ phase' = "exit_0"
         \/ failures' # failures /\ phase' = "exit_1"
  BY DEF StreamFlush
<1>2. BackfillType /\ FailuresType /\ todo = <<>> /\ tasks = {} /\ page = 1
  BY <1>1 DEF BackfillInv, BackfillType, Before
<1>3. batch' = <<>> /\ FailuresType'
  BY <1>1, <1>2, Flushes DEF FailuresType
<1>4. BackfillType'
  <2>1. <<>> \in Seq(Records) /\ scan = 0
    BY <1>2 DEF BackfillType
  <2> QED BY <1>1, <1>2, <1>3, <2>1 DEF BackfillType, Before, OfNodes, OfNamespaces, TaskType
<1>5. ASSUME Fine' PROVE Fine /\ Grows
  <2>1. failures' = failures
    BY <1>1, <1>5 DEF Fine
  <2>2. Fine
    BY <1>1, <1>5, <2>1 DEF Fine
  <2>3. failures'.push = 0
    BY <1>5 DEF Fine
  <2> QED BY <1>1, <1>2, <2>2, <2>3, Flushes DEF Grows
<1>6. TasksKeep
  BY <1>2 DEF TasksKeep, InTask
<1>7. AheadKeep
  BY <1>1 DEF AheadKeep, NodeAhead, NamespaceAhead, Before, OfNodes, OfNamespaces
<1> QED BY <1>4, <1>5, <1>6, <1>7, CompleteStays DEF BackfillInv, Complete

LEMMA BackfillKeeps ==
  ASSUME BackfillInv, BackfillNext \/ UNCHANGED backfillVars PROVE BackfillInv'
<1>1. CASE UNCHANGED backfillVars
  <2>1. UNCHANGED <<phase, page, todo, scan, tasks, batch, streamed, failures>>
    BY <1>1 DEF backfillVars
  <2>2. BackfillType'
    BY <2>1 DEF BackfillInv, BackfillType, Before, OfNodes, OfNamespaces, FailuresType, TaskType
  <2>3. Complete => Complete'
    BY <2>1, SameTasks, WaitingAhead, CompleteStays
  <2> QED BY <2>1, <2>2, <2>3 DEF BackfillInv, Complete, Fine
<1>2. ASSUME NEW t \in tasks, TaskStep(t) PROVE BackfillInv'
  BY <1>2, ListResourcesKeeps, TaskEndsKeeps, ReviewKeeps DEF TaskStep
<1> QED BY <1>1, <1>2, ServiceKeeps, ListNodesKeeps, ListNamespacesKeeps, ListFailsKeeps,
           RunTaskKeeps, WaitKeeps, StreamFlushKeeps DEF BackfillNext

(* At a good end nothing is ahead, no task runs and the batch is empty. *)
LEMMA EndIsComplete ==
  ASSUME BackfillInv PROVE BackfillComplete
<1> SUFFICES ASSUME phase = "exit_0", failures.list = 0, failures.push = 0,
                    NEW c \in Cluster, NEW record \in Review(buildAdmissionReview(c[1], c[2])),
                    Tagged(record)
             PROVE  record \in streamed
  BY DEF BackfillComplete
<1>1. /\ todo = <<>> /\ tasks = {} /\ batch = <<>>
      /\ NodesInv /\ NamespacesInv /\ ResourcesInv
  BY DEF BackfillInv, BackfillType, Fine
<1>2. \A o : ~NodeAhead(o)
  BY DEF NodeAhead, Before, OfNodes
<1>3. \A ns, k : ~NamespaceAhead(ns, k)
  BY DEF NamespaceAhead, Before, OfNodes, OfNamespaces
<1>4. \A gvk, o : ~InTask(gvk, o)
  BY <1>1 DEF InTask
<1>5. ToSet(batch) = {}
  BY <1>1 DEF ToSet
<1>6. ASSUME NEW gvk, NEW o, Reviewed(gvk, o), c = <<gvk, o>> PROVE record \in streamed
  BY <1>5, <1>6 DEF Reviewed
<1>7. ASSUME NEW o \in Objects(NodePages), c = <<node, o>> PROVE record \in streamed
  BY <1>1, <1>2, <1>4, <1>6, <1>7 DEF NodesInv
<1>8. ASSUME NEW o \in Objects(NamespacePages), c = <<namespace, o>> PROVE record \in streamed
  BY <1>1, <1>3, <1>4, <1>6, <1>8 DEF NamespacesInv
<1>9. ASSUME NEW gvk \in ToSet(catalog), NEW ns \in Objects(NamespacePages),
             NEW o \in Objects(ResourcePages(gvk, ns.name)), c = <<gvk, o>>
      PROVE  record \in streamed
  <2>1. PICK k \in 1..Len(catalog) : gvk = catalog[k]
    BY CatalogKinds
  <2> QED BY <1>1, <1>3, <1>4, <1>6, <1>9, <2>1 DEF ResourcesInv
<1> QED BY <1>7, <1>8, <1>9 DEF Cluster

(* A backfill that ends well, without a failing list or push, has sent     *)
(* every record with a tag, of every page of every kind, whatever the      *)
(* lists hold and in whichever order the tasks of the pool run             *)
(* (backfiller.go: Start, enumerateNodes, the loops over the pages; the    *)
(* batches of the streaming store).                                        *)
THEOREM BackfillSendsAll == MainSpec => []BackfillComplete
<1>1. MainInit => BackfillInv
  BY StartsComplete DEF MainInit
<1>2. BackfillInv /\ [MainNext]_<<vars, backfillVars, tlsVars>> => BackfillInv'
  BY BackfillKeeps DEF MainNext
<1>3. BackfillInv => BackfillComplete
  BY EndIsComplete
<1> QED BY <1>1, <1>2, <1>3, PTL DEF MainSpec
=============================================================================
