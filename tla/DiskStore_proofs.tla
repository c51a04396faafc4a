-------------------------- MODULE DiskStore_proofs --------------------------
(***************************************************************************)
(* Proofs, for any set of payloads, row limit and bounds, that the store   *)
(* never acknowledges rows it does not keep (AckedKept), never keeps a     *)
(* delivery twice (DeliveredOnce), counts the rows of the active file      *)
(* exactly (RowCountExact) and makes no open, empty or overfull file       *)
(* visible (FileWellFormed).                                               *)
(***************************************************************************)
EXTENDS DiskStore, FiniteSetTheorems, TLAPS

-----------------------------------------------------------------------------
(* The inductive invariant *)

(* What the steps of a flush rely on: while the holder of the lock is      *)
(* sealing or renaming, its rows are in the active file; when it reopens   *)
(* the writer they are in a visible file; without a writer nothing is      *)
(* buffered and nothing is counted.                                        *)
FlushInv ==
  /\ step \in {"seal", "rename"} => writerOpen /\ serving \subseteq active
  /\ step = "reopen" => ~writerOpen /\ serving \subseteq UNION {g.rows : g \in files}
  /\ step = "free" => serving = {}
  /\ ~writerOpen => active = {} /\ rowCount = 0
  /\ ~up => ~writerOpen /\ step = "free" /\ inflight = {} /\ replies = {}

(* No delivery is known anywhere before the client has sent it. *)
KnownDeliveries == inflight \cup serving \cup OnDisk \cup {r.d : r \in replies}

SentInv == \A d \in KnownDeliveries : d[2] <= attempt[d[1]]

(* An answer the client is still going to believe is as good as an         *)
(* acknowledgement.                                                        *)
RepliesKept ==
  \A r \in replies : r.ok /\ Awaited(r.d) => Kept(r.d[1])

IInv == TypeOK /\ FlushInv /\ SentInv /\ AckedKept /\ RepliesKept /\ DeliveredOnce

-----------------------------------------------------------------------------
(* Types *)

LEMMA TypeInit == Init => TypeOK
<1> SUFFICES ASSUME Init PROVE TypeOK
  OBVIOUS
<1>1. up \in BOOLEAN /\ writerOpen \in BOOLEAN /\ sealed \in BOOLEAN
  BY Zenon DEF Init
<1>2. clock \in Nat /\ rowCount \in Nat /\ startTime \in Nat /\ faults \in Nat
      /\ attempt \in [Batch -> Nat]
  BY DEF Init
<1> QED
  BY <1>1, <1>2 DEF Init, TypeOK

LEMMA FaultType == TypeOK /\ Fault => faults' \in Nat
  BY DEF TypeOK, Fault

(* A delivery that is being sent is a delivery. *)
LEMMA NextDelivery ==
  ASSUME TypeOK, NEW b \in Batch
  PROVE  <<b, attempt[b] + 1>> \in Delivery
  BY DEF TypeOK, Delivery

LEMMA ReplyType ==
  ASSUME NEW d \in Delivery, NEW ok \in BOOLEAN
  PROVE  [d |-> d, ok |-> ok] \in Reply
  BY DEF Reply

(* The answers to a served delivery are replies. *)
LEMMA AnswerType ==
  ASSUME TypeOK, NEW ok \in BOOLEAN, Answer(ok)
  PROVE  replies' \in SUBSET Reply
  BY ReplyType DEF Answer, TypeOK

LEMMA DestroyType ==
  ASSUME TypeOK, NEW S, Destroy(S)
  PROVE  destroyed' \in SUBSET Batch
  BY DEF Destroy, TypeOK

LEMMA TypeStep == TypeOK /\ [Next]_vars => TypeOK'
<1> SUFFICES ASSUME TypeOK, [Next]_vars PROVE TypeOK'
  OBVIOUS
<1> USE DiskStoreAssumption
<1>1. ASSUME NEW b \in Batch, Send(b) PROVE TypeOK'
  BY <1>1, NextDelivery DEF Send, TypeOK, storeVars
<1>2. ASSUME NEW b \in Batch, GiveUp(b) PROVE TypeOK'
  BY <1>2 DEF GiveUp, Fault, TypeOK, storeVars
<1>3. ASSUME NEW r \in replies, Receive(r) PROVE TypeOK'
  <2>1. client' \in [Batch -> {"idle", "waiting", "acked"}]
    BY <1>3 DEF Receive, TypeOK, Delivery
  <2> QED BY <1>3, <2>1 DEF Receive, TypeOK, storeVars
<1>4. ASSUME NEW d \in inflight, Put(d) PROVE TypeOK'
  <2>1. d \in Delivery /\ Size[d[1]] \in Nat
    BY DEF TypeOK, Delivery, DiskStoreAssumption
  <2>2. rowCount' \in Nat
    BY <1>4, <2>1 DEF Put, Counted, TypeOK
  <2>3. replies' \in SUBSET Reply /\ step' \in {"free", "seal"}
        /\ serving' \in SUBSET Delivery
    BY <1>4, <2>1, ReplyType DEF Put, TypeOK
  <2> QED BY <1>4, <2>1, <2>2, <2>3 DEF Put, TypeOK, clientVars
<1>5. ASSUME NEW d \in inflight, PutRecoverFails(d) PROVE TypeOK'
  BY <1>5, ReplyType, FaultType DEF PutRecoverFails, TypeOK, storeVars, clientVars
<1>6. CASE FlushLock
  BY <1>6 DEF FlushLock, TypeOK, storeVars, clientVars
<1>7. CASE Seal
  BY <1>7 DEF Seal, TypeOK, clientVars
<1>8. CASE Rename
  <2>1. [start |-> startTime, stop |-> clock, rows |-> active, sealed |-> sealed] \in VisibleFile
    BY DEF TypeOK, VisibleFile
  <2>2. files' \in SUBSET VisibleFile
    BY <1>8, <2>1 DEF Rename, TypeOK
  <2>3. destroyed' \in SUBSET Batch
    BY <1>8, DestroyType DEF Rename
  <2> QED BY <1>8, <2>2, <2>3 DEF Rename, NoWriter, TypeOK, clientVars
<1>9. CASE Abandon
  <2>1. destroyed' \in SUBSET Batch
    BY <1>9, DestroyType DEF Abandon
  <2>2. replies' \in SUBSET Reply
    BY <1>9, AnswerType DEF Abandon
  <2> QED BY <1>9, <2>1, <2>2, FaultType DEF Abandon, Answer, NoWriter, TypeOK, clientVars
<1>10. CASE Reopen
  <2>1. replies' \in SUBSET Reply
    BY <1>10, AnswerType DEF Reopen
  <2> QED BY <1>10, <2>1 DEF Reopen, Answer, FreshWriter, TypeOK, clientVars
<1>11. CASE ReopenFails
  <2>1. replies' \in SUBSET Reply
    BY <1>11, AnswerType DEF ReopenFails
  <2> QED BY <1>11, <2>1 DEF ReopenFails, Answer, Fault, TypeOK, storeVars, clientVars
<1>12. CASE Tick
  BY <1>12 DEF Tick, TypeOK, storeVars, clientVars
<1>13. CASE Crash
  <2>1. destroyed' \in SUBSET Batch
    BY <1>13, DestroyType DEF Crash
  <2>2. client' \in [Batch -> {"idle", "waiting", "acked"}]
    BY <1>13 DEF Crash, TypeOK
  <2> QED BY <1>13, <2>1, <2>2, FaultType DEF Crash, NoWriter, TypeOK
<1>14. CASE Restart
  BY <1>14 DEF Restart, FreshWriter, TypeOK, clientVars
<1>15. CASE UNCHANGED vars
  BY <1>15 DEF vars, storeVars, clientVars, TypeOK
<1> QED
  BY <1>1, <1>2, <1>3, <1>4, <1>5, <1>6, <1>7, <1>8, <1>9, <1>10, <1>11, <1>12,
     <1>13, <1>14, <1>15 DEF Next, FlushStep

(* Every variable of the store, its files and its clients keeps its type.  *)
THEOREM TypeCorrect == Spec => []TypeOK
<1>1. Init => TypeOK
  BY TypeInit
<1>2. TypeOK /\ [Next]_vars => TypeOK'
  BY TypeStep
<1> QED
  BY <1>1, <1>2, PTL DEF Spec

-----------------------------------------------------------------------------
(* The flush *)

LEMMA FlushInvStep == TypeOK /\ FlushInv /\ [Next]_vars => FlushInv'
<1> SUFFICES ASSUME TypeOK, FlushInv, [Next]_vars PROVE FlushInv'
  OBVIOUS
<1> USE DEF FlushInv
<1>1. ASSUME NEW b \in Batch, Send(b) PROVE FlushInv'
  BY <1>1 DEF Send, storeVars
<1>2. ASSUME NEW b \in Batch, GiveUp(b) PROVE FlushInv'
  BY <1>2 DEF GiveUp, storeVars
<1>3. ASSUME NEW r \in replies, Receive(r) PROVE FlushInv'
  BY <1>3 DEF Receive, storeVars
<1>4. ASSUME NEW d \in inflight, Put(d) PROVE FlushInv'
  BY <1>4 DEF Put
<1>5. ASSUME NEW d \in inflight, PutRecoverFails(d) PROVE FlushInv'
  BY <1>5 DEF PutRecoverFails, storeVars
<1>6. CASE FlushLock
  <2>1. writerOpen
    BY <1>6 DEF FlushLock
  <2> QED BY <1>6, <2>1 DEF FlushLock, storeVars
<1>7. CASE Seal
  BY <1>7 DEF Seal
<1>8. CASE Rename
  <2>1. active \subseteq UNION {g.rows : g \in files'}
    BY <1>8 DEF Rename
  <2> QED BY <1>8, <2>1 DEF Rename, NoWriter
<1>9. CASE Abandon
  BY <1>9 DEF Abandon, Answer, NoWriter
<1>10. CASE Reopen
  BY <1>10 DEF Reopen, Answer, FreshWriter
<1>11. CASE ReopenFails
  BY <1>11 DEF ReopenFails, Answer, storeVars
<1>12. CASE Tick
  BY <1>12 DEF Tick, storeVars
<1>13. CASE Crash
  BY <1>13 DEF Crash, NoWriter
<1>14. CASE Restart
  BY <1>14 DEF Restart, FreshWriter
<1>15. CASE UNCHANGED vars
  BY <1>15 DEF vars, storeVars
<1> QED
  BY <1>1, <1>2, <1>3, <1>4, <1>5, <1>6, <1>7, <1>8, <1>9, <1>10, <1>11, <1>12,
     <1>13, <1>14, <1>15 DEF Next, FlushStep

-----------------------------------------------------------------------------
(* What a step does to the rows *)

(* A delivery on disk stays there, or a fault destroys it and the          *)
(* destruction is recorded against the batch it acknowledges.              *)
LEMMA RowsStay ==
  ASSUME TypeOK, FlushInv, [Next]_vars
  PROVE  /\ destroyed \subseteq destroyed'
         /\ \A d \in OnDisk : d \in OnDisk' \/ (Acknowledged(d[1]) => d[1] \in destroyed')
<1> DEFINE Stay == /\ destroyed \subseteq destroyed'
                   /\ \A d \in OnDisk :
                        d \in OnDisk' \/ (Acknowledged(d[1]) => d[1] \in destroyed')
<1> SUFFICES Stay
  OBVIOUS
<1>0. \A d \in OnDisk : d[1] \in Batch
  BY DEF OnDisk, TypeOK, VisibleFile, Delivery
<1>1. ASSUME UNCHANGED <<active, files, destroyed>> PROVE Stay
  BY <1>1 DEF OnDisk
<1>2. ASSUME NEW d \in inflight, Put(d) PROVE Stay
  <2>1. active \subseteq active' /\ files' = files /\ destroyed' = destroyed
    BY <1>2 DEF Put, FlushInv
  <2> QED BY <2>1 DEF OnDisk
<1>3. CASE Rename
  <2> DEFINE new  == [start |-> startTime, stop |-> clock, rows |-> active, sealed |-> sealed]
             same == {g \in files : g.start = startTime /\ g.stop = clock}
  <2>1. files' = (files \ same) \cup {new} /\ Destroy(UNION {g.rows : g \in same})
    BY <1>3 DEF Rename
  <2>2. destroyed \subseteq destroyed'
    BY <2>1 DEF Destroy
  <2>3. ASSUME NEW d \in active PROVE d \in OnDisk'
    <3>1. new \in files' /\ d \in new.rows
      BY <2>1
    <3> QED BY <3>1 DEF OnDisk
  <2>4. ASSUME NEW g \in files \ same, NEW d \in g.rows PROVE d \in OnDisk'
    BY <2>1 DEF OnDisk
  <2>5. ASSUME NEW g \in same, NEW d \in g.rows, Acknowledged(d[1]) PROVE d[1] \in destroyed'
    <3>1. d \in UNION {h.rows : h \in same} /\ d \in OnDisk
      BY DEF OnDisk
    <3> HIDE DEF same
    <3> QED BY <2>1, <2>5, <3>1, <1>0 DEF Destroy
  <2> HIDE DEF new, same
  <2> QED BY <2>2, <2>3, <2>4, <2>5 DEF OnDisk
<1>4. ASSUME Destroy(active), files' = files PROVE Stay
  BY <1>0, <1>4 DEF Destroy, OnDisk
<1>5. CASE Reopen \/ Restart
  <2>1. ~writerOpen /\ active = {}
    BY <1>5 DEF Reopen, Restart, FlushInv
  <2>2. files' = files /\ destroyed' = destroyed
    BY <1>5 DEF Reopen, Restart
  <2> QED BY <2>1, <2>2 DEF OnDisk
<1>6. CASE Abandon \/ Crash
  BY <1>4, <1>6 DEF Abandon, Crash
<1>7. CASE UNCHANGED vars
  BY <1>1, <1>7 DEF vars, storeVars
<1>8. CASE \E b \in Batch : Send(b) \/ GiveUp(b)
  BY <1>1, <1>8 DEF Send, GiveUp, storeVars
<1>9. CASE \E r \in replies : Receive(r)
  BY <1>1, <1>9 DEF Receive, storeVars
<1>10. CASE \E d \in inflight : PutRecoverFails(d)
  BY <1>1, <1>10 DEF PutRecoverFails, storeVars
<1>11. CASE FlushLock \/ Seal \/ ReopenFails \/ Tick
  BY <1>1, <1>11 DEF FlushLock, Seal, ReopenFails, Tick, storeVars
<1> HIDE DEF Stay
<1> QED
  BY <1>2, <1>3, <1>5, <1>6, <1>7, <1>8, <1>9, <1>10, <1>11 DEF Next, FlushStep

(* What is kept and acknowledged stays kept. *)
LEMMA KeptStays ==
  ASSUME TypeOK, FlushInv, [Next]_vars, NEW b \in Batch, Acknowledged(b), Kept(b)
  PROVE  Kept(b)'
  BY RowsStay DEF Kept

-----------------------------------------------------------------------------
(* Deliveries are sent before anything else happens to them *)

LEMMA KnownType == TypeOK => KnownDeliveries \subseteq Delivery
  BY DEF KnownDeliveries, OnDisk, TypeOK, VisibleFile, Reply

(* Only Send makes a new delivery known. *)
LEMMA NothingNewIsKnown ==
  ASSUME FlushInv, [Next]_vars, \A b \in Batch : ~Send(b)
  PROVE  KnownDeliveries' \subseteq KnownDeliveries /\ attempt' = attempt
<1> USE DEF KnownDeliveries, OnDisk
<1>1. ASSUME NEW b \in Batch, GiveUp(b)
      PROVE  KnownDeliveries' \subseteq KnownDeliveries /\ attempt' = attempt
  BY <1>1 DEF GiveUp, storeVars
<1>2. ASSUME NEW r \in replies, Receive(r)
      PROVE  KnownDeliveries' \subseteq KnownDeliveries /\ attempt' = attempt
  BY <1>2 DEF Receive, storeVars
<1>3. ASSUME NEW d \in inflight, Put(d)
      PROVE  KnownDeliveries' \subseteq KnownDeliveries /\ attempt' = attempt
  <2>1. attempt' = attempt /\ files' = files
    BY <1>3 DEF Put, clientVars
  <2>2. inflight' \subseteq inflight /\ active' \subseteq active \cup inflight
        /\ serving' \subseteq serving \cup inflight
    BY <1>3 DEF Put
  <2>3. {r.d : r \in replies'} \subseteq {r.d : r \in replies} \cup inflight
    BY <1>3 DEF Put
  <2> QED BY <2>1, <2>2, <2>3
<1>4. ASSUME NEW d \in inflight, PutRecoverFails(d)
      PROVE  KnownDeliveries' \subseteq KnownDeliveries /\ attempt' = attempt
  <2>1. {r.d : r \in replies'} \subseteq {r.d : r \in replies} \cup inflight
    BY <1>4 DEF PutRecoverFails
  <2> QED BY <1>4, <2>1 DEF PutRecoverFails, storeVars, clientVars
<1>5. CASE Rename
  <2>1. UNION {g.rows : g \in files'} \subseteq active \cup UNION {g.rows : g \in files}
    BY <1>5 DEF Rename
  <2>2. active' = {} /\ serving' = serving /\ inflight' = inflight /\ replies' = replies
        /\ attempt' = attempt
    BY <1>5 DEF Rename, NoWriter, clientVars
  <2> QED BY <2>1, <2>2
<1>6. ASSUME NEW ok, Answer(ok)
      PROVE  {r.d : r \in replies'} \subseteq {r.d : r \in replies} \cup serving
             /\ serving' = {}
  BY <1>6 DEF Answer
<1>7. CASE Abandon
  <2>1. active' = {} /\ files' = files /\ inflight' = inflight /\ attempt' = attempt
        /\ Answer(FALSE)
    BY <1>7 DEF Abandon, NoWriter, clientVars
  <2> QED BY <1>6, <2>1
<1>8. CASE Reopen
  <2>1. active' = {} /\ files' = files /\ inflight' = inflight /\ attempt' = attempt
        /\ Answer(TRUE)
    BY <1>8 DEF Reopen, FreshWriter, clientVars
  <2> QED BY <1>6, <2>1
<1>9. CASE ReopenFails
  <2>1. active' = active /\ files' = files /\ inflight' = inflight /\ attempt' = attempt
        /\ Answer(FALSE)
    BY <1>9 DEF ReopenFails, storeVars, clientVars
  <2> QED BY <1>6, <2>1
<1>10. CASE Crash
  BY <1>10 DEF Crash, NoWriter
<1>11. CASE Restart
  BY <1>11 DEF Restart, FreshWriter, clientVars
<1>12. CASE FlushLock \/ Seal \/ Tick
  BY <1>12 DEF FlushLock, Seal, Tick, storeVars, clientVars
<1>13. CASE UNCHANGED vars
  BY <1>13 DEF vars, storeVars, clientVars
<1> QED
  BY <1>1, <1>2, <1>3, <1>4, <1>5, <1>7, <1>8, <1>9, <1>10, <1>11, <1>12, <1>13
  DEF Next, FlushStep

LEMMA SentInvStep == TypeOK /\ FlushInv /\ SentInv /\ [Next]_vars => SentInv'
<1> SUFFICES ASSUME TypeOK, FlushInv, SentInv, [Next]_vars PROVE SentInv'
  OBVIOUS
<1>1. ASSUME NEW b \in Batch, Send(b) PROVE SentInv'
  <2>1. KnownDeliveries' \subseteq KnownDeliveries \cup {<<b, attempt[b] + 1>>}
    BY <1>1 DEF Send, KnownDeliveries, OnDisk, storeVars
  <2>2. \A c \in Batch : attempt'[c] = IF c = b THEN attempt[b] + 1 ELSE attempt[c]
    BY <1>1 DEF Send, TypeOK
  <2>3. \A c \in Batch : attempt[c] \in Nat
    BY DEF TypeOK
  <2>4. \A d \in KnownDeliveries : d[1] \in Batch /\ d[2] \in Nat
    BY KnownType DEF Delivery
  <2> QED BY <2>1, <2>2, <2>3, <2>4 DEF SentInv
<1>2. CASE \A b \in Batch : ~Send(b)
  BY <1>2, NothingNewIsKnown DEF SentInv
<1> QED BY <1>1, <1>2

-----------------------------------------------------------------------------
(* Acknowledgements *)

(* An answer that counts after the step counted before it, or is the one   *)
(* given in the step, and then the rows are kept.                          *)
LEMMA NewReplyKept ==
  ASSUME TypeOK, FlushInv, SentInv, [Next]_vars,
         NEW r \in replies', r.ok, Awaited(r.d)'
  PROVE  \/ r \in replies /\ Awaited(r.d)
         \/ Kept(r.d[1])'
<1>1. ASSUME UNCHANGED <<replies, client, attempt>> PROVE r \in replies /\ Awaited(r.d)
  BY <1>1 DEF Awaited
<1>2. ASSUME NEW b \in Batch, Send(b) PROVE r \in replies /\ Awaited(r.d)
  <2>1. r \in replies /\ r.d \in KnownDeliveries
    BY <1>2 DEF Send, KnownDeliveries
  <2>2. r.d[1] \in Batch /\ r.d[2] \in Nat /\ r.d[2] <= attempt[r.d[1]]
    BY <2>1, KnownType DEF SentInv, Delivery
  <2>3. r.d[1] # b
    BY <1>2, <2>2 DEF Send, Awaited, TypeOK
  <2> QED BY <1>2, <2>1, <2>2, <2>3 DEF Send, Awaited, TypeOK
<1>3. ASSUME NEW b \in Batch, GiveUp(b) PROVE r \in replies /\ Awaited(r.d)
  BY <1>3 DEF GiveUp, Awaited, TypeOK
<1>4. ASSUME NEW q \in replies, Receive(q) PROVE r \in replies /\ Awaited(r.d)
  BY <1>4 DEF Receive, Awaited, TypeOK
<1>5. ASSUME NEW d \in inflight, Put(d) PROVE (r \in replies /\ Awaited(r.d)) \/ Kept(r.d[1])'
  <2>1. client' = client /\ attempt' = attempt /\ d \in active'
    BY <1>5 DEF Put, clientVars
  <2>2. r \in replies \/ r.d = d
    BY <1>5 DEF Put
  <2> QED BY <2>1, <2>2 DEF Awaited, Kept, OnDisk
<1>6. ASSUME NEW d \in inflight, PutRecoverFails(d) PROVE r \in replies /\ Awaited(r.d)
  BY <1>6 DEF PutRecoverFails, Awaited, clientVars
<1>7. CASE Reopen
  <2>1. client' = client /\ attempt' = attempt /\ files' = files
    BY <1>7 DEF Reopen, clientVars
  <2>2. r \in replies \/ r.d \in serving
    BY <1>7 DEF Reopen, Answer
  <2>3. serving \subseteq OnDisk'
    BY <1>7, <2>1 DEF Reopen, FlushInv, OnDisk
  <2> QED BY <2>1, <2>2, <2>3 DEF Awaited, Kept
<1>8. CASE Abandon \/ ReopenFails
  BY <1>8 DEF Abandon, ReopenFails, Answer, Awaited, clientVars
<1>9. CASE FlushLock \/ Seal \/ Rename \/ Tick \/ Restart
  BY <1>1, <1>9 DEF FlushLock, Seal, Rename, Tick, Restart, clientVars
<1>10. CASE Crash
  BY <1>10 DEF Crash
<1>11. CASE UNCHANGED vars
  BY <1>1, <1>11 DEF vars, clientVars
<1> QED
  BY <1>2, <1>3, <1>4, <1>5, <1>6, <1>7, <1>8, <1>9, <1>10, <1>11 DEF Next, FlushStep

LEMMA RepliesKeptStep ==
  TypeOK /\ FlushInv /\ SentInv /\ RepliesKept /\ [Next]_vars => RepliesKept'
<1> SUFFICES ASSUME TypeOK, FlushInv, SentInv, RepliesKept, [Next]_vars,
                    NEW r \in replies', r.ok, Awaited(r.d)'
             PROVE  Kept(r.d[1])'
  BY DEF RepliesKept
<1>1. CASE r \in replies /\ Awaited(r.d)
  <2>1. r.d[1] \in Batch
    BY <1>1, KnownType DEF KnownDeliveries, Delivery
  <2>2. Kept(r.d[1]) /\ Acknowledged(r.d[1])
    BY <1>1 DEF RepliesKept, Acknowledged
  <2> QED BY <2>1, <2>2, KeptStays
<1> QED BY <1>1, NewReplyKept

(* A client learns of its success from an answer, and from nothing else. *)
LEMMA AckedByReply ==
  ASSUME TypeOK, [Next]_vars, NEW b \in Batch, client'[b] = "acked", client[b] # "acked"
  PROVE  \E r \in replies : r.ok /\ Awaited(r.d) /\ r.d[1] = b
<1>1. CASE UNCHANGED client
  BY <1>1
<1>2. ASSUME NEW c \in Batch, Send(c) \/ GiveUp(c) PROVE FALSE
  BY <1>2 DEF Send, GiveUp, TypeOK
<1>3. ASSUME NEW r \in replies, Receive(r) PROVE r.ok /\ Awaited(r.d) /\ r.d[1] = b
  BY <1>3 DEF Receive, TypeOK
<1>4. CASE Crash
  BY <1>4 DEF Crash, TypeOK
<1> QED
  BY <1>1, <1>2, <1>3, <1>4 DEF Next, FlushStep, Put, PutRecoverFails, FlushLock, Seal,
     Rename, Abandon, Reopen, ReopenFails, Tick, Restart, vars, clientVars

LEMMA AckedKeptStep ==
  TypeOK /\ FlushInv /\ AckedKept /\ RepliesKept /\ [Next]_vars => AckedKept'
<1> SUFFICES ASSUME TypeOK, FlushInv, AckedKept, RepliesKept, [Next]_vars,
                    NEW b \in Batch, client'[b] = "acked"
             PROVE  Kept(b)'
  BY DEF AckedKept
<1>1. CASE client[b] = "acked"
  BY <1>1, KeptStays DEF AckedKept, Acknowledged
<1>2. CASE client[b] # "acked"
  <2>1. PICK r \in replies : r.ok /\ Awaited(r.d) /\ r.d[1] = b
    BY <1>2, AckedByReply
  <2> QED BY <2>1, KeptStays DEF RepliesKept, Acknowledged
<1> QED BY <1>1, <1>2

-----------------------------------------------------------------------------
(* No second copy *)

LEMMA DeliveredOnceStep ==
  TypeOK /\ FlushInv /\ SentInv /\ DeliveredOnce /\ [Next]_vars => DeliveredOnce'
<1> SUFFICES ASSUME TypeOK, FlushInv, SentInv, DeliveredOnce, [Next]_vars
             PROVE  DeliveredOnce'
  OBVIOUS
<1> USE DEF DeliveredOnce, OnDisk
<1>1. ASSUME UNCHANGED <<active, files>>, inflight' \subseteq inflight PROVE DeliveredOnce'
  BY <1>1
<1>2. ASSUME active' = {}, files' = files, inflight' \subseteq inflight PROVE DeliveredOnce'
  BY <1>2
<1>3. ASSUME NEW b \in Batch, Send(b) PROVE DeliveredOnce'
  <2>1. <<b, attempt[b] + 1>> \notin OnDisk
    <3>1. attempt[b] \in Nat
      BY DEF TypeOK
    <3>2. SUFFICES ASSUME <<b, attempt[b] + 1>> \in KnownDeliveries PROVE FALSE
      BY DEF KnownDeliveries
    <3>3. attempt[b] + 1 <= attempt[b]
      BY <3>2 DEF SentInv
    <3> QED BY <3>1, <3>3
  <2> QED BY <1>3, <2>1 DEF Send, storeVars
<1>4. ASSUME NEW d \in inflight, Put(d) PROVE DeliveredOnce'
  <2>1. files' = files /\ inflight' = inflight \ {d} /\ active' = active \cup {d}
    BY <1>4 DEF Put, FlushInv
  <2>2. d \notin active /\ \A g \in files : d \notin g.rows
    OBVIOUS
  <2> QED BY <2>1, <2>2
<1>5. CASE Rename
  <2> DEFINE new  == [start |-> startTime, stop |-> clock, rows |-> active, sealed |-> sealed]
             same == {g \in files : g.start = startTime /\ g.stop = clock}
  <2>1. files' = (files \ same) \cup {new} /\ active' = {} /\ inflight' = inflight
    BY <1>5 DEF Rename, NoWriter
  <2>2. new.rows = active
    OBVIOUS
  <2> HIDE DEF new, same
  <2>3. \A g, h \in files' : g # h => g.rows \cap h.rows = {}
    BY <2>1, <2>2
  <2>4. inflight' \cap OnDisk' = {}
    BY <2>1, <2>2
  <2> QED BY <2>1, <2>3, <2>4
<1>6. CASE Abandon \/ Crash
  BY <1>2, <1>6 DEF Abandon, Crash, NoWriter
<1>7. CASE Reopen \/ Restart
  BY <1>2, <1>7 DEF Reopen, Restart, FreshWriter
<1>8. CASE \E b \in Batch : GiveUp(b)
  BY <1>1, <1>8 DEF GiveUp, storeVars
<1>9. CASE \E r \in replies : Receive(r)
  BY <1>1, <1>9 DEF Receive, storeVars
<1>10. CASE \E d \in inflight : PutRecoverFails(d)
  BY <1>1, <1>10 DEF PutRecoverFails, storeVars
<1>11. CASE FlushLock \/ Seal \/ ReopenFails \/ Tick \/ UNCHANGED vars
  BY <1>1, <1>11 DEF FlushLock, Seal, ReopenFails, Tick, vars, storeVars
<1> QED
  BY <1>3, <1>4, <1>5, <1>6, <1>7, <1>8, <1>9, <1>10, <1>11 DEF Next, FlushStep

-----------------------------------------------------------------------------
(* The row count *)

(* Adding a delivery to a set adds its rows, and taking one away never     *)
(* leaves more.                                                            *)
LEMMA NoRows == Rows({}) = 0
<1>1. RowsOf({}) = {}
  BY DEF RowsOf
<1>2. Cardinality({}) = 0
  BY FS_EmptySet
<1> QED BY <1>1, <1>2, Zenon DEF Rows

LEMMA RowsOfOne ==
  ASSUME NEW d \in Delivery
  PROVE  /\ IsFiniteSet({d} \X (1..Size[d[1]]))
         /\ Cardinality({d} \X (1..Size[d[1]])) = Size[d[1]]
<1> DEFINE n == Size[d[1]]
<1>1. n \in Nat \ {0}
  BY DiskStoreAssumption DEF Delivery
<1> HIDE DEF n
<1>2. IsFiniteSet(1..n) /\ Cardinality(1..n) = n
  BY <1>1, FS_Interval
<1>3. IsFiniteSet({d}) /\ Cardinality({d}) = 1
  BY FS_Singleton
<1>4. IsFiniteSet({d} \X (1..n)) /\ Cardinality({d} \X (1..n)) = 1 * n
  BY <1>2, <1>3, FS_Product
<1>5. 1 * n = n
  BY <1>1
<1> QED BY <1>4, <1>5 DEF n

LEMMA RowsAdded ==
  ASSUME NEW S \in SUBSET Delivery, IsFiniteSet(RowsOf(S)), NEW d \in Delivery, d \notin S
  PROVE  /\ IsFiniteSet(RowsOf(S \cup {d}))
         /\ Rows(S \cup {d}) = Rows(S) + Size[d[1]]
<1> DEFINE R == {d} \X (1..Size[d[1]])
<1>1. IsFiniteSet(R) /\ Cardinality(R) = Size[d[1]]
  BY RowsOfOne
<1>2. RowsOf(S \cup {d}) = RowsOf(S) \cup R
  BY DEF RowsOf
<1>3. RowsOf(S) \cap R = {}
  BY DEF RowsOf
<1> HIDE DEF R
<1>4. /\ IsFiniteSet(RowsOf(S) \cup R)
      /\ Cardinality(RowsOf(S) \cup R)
           = Cardinality(RowsOf(S)) + Cardinality(R) - Cardinality(RowsOf(S) \cap R)
  BY <1>1, FS_Union
<1>5. Cardinality(RowsOf(S) \cap R) = 0
  BY <1>3, FS_EmptySet
<1>6. Cardinality(RowsOf(S)) \in Nat /\ Cardinality(R) \in Nat
  BY <1>1, FS_CardinalityType
<1>7. Cardinality(RowsOf(S) \cup R) = Cardinality(RowsOf(S)) + Size[d[1]]
  BY <1>1, <1>4, <1>5, <1>6
<1>8. Rows(S \cup {d}) = Rows(S) + Size[d[1]]
  BY <1>2, <1>7, Zenon DEF Rows
<1> QED BY <1>2, <1>4, <1>8

LEMMA FewerRows ==
  ASSUME NEW S, IsFiniteSet(RowsOf(S)), NEW d
  PROVE  Rows(S \ {d}) <= Rows(S)
<1>1. RowsOf(S \ {d}) \subseteq RowsOf(S)
  BY DEF RowsOf
<1> QED BY <1>1, FS_Subset DEF Rows

(* Between flushes the store is below the row limit; the flush that is     *)
(* under way found it below the limit, or was started by the delivery that *)
(* took it there.                                                          *)
LimitInv ==
  /\ step \in {"free", "reopen"} => rowCount < RowLimit
  /\ step \in {"seal", "rename"} =>
       \E d \in active : Rows(active \ {d}) < RowLimit

CountInv ==
  /\ IsFiniteSet(RowsOf(active))
  /\ RowCountExact

FileInv ==
  /\ startTime <= clock
  /\ step = "rename" => sealed
  /\ FileWellFormed

(* A step either leaves the active file and its count alone, empties both, *)
(* or appends a delivery that was not in the file.                         *)
LEMMA CountStep ==
  TypeOK /\ FlushInv /\ DeliveredOnce /\ CountInv /\ [Next]_vars => CountInv'
<1> SUFFICES ASSUME TypeOK, FlushInv, DeliveredOnce, CountInv, [Next]_vars
             PROVE  CountInv'
  OBVIOUS
<1> USE DEF CountInv, RowCountExact
<1>1. ASSUME UNCHANGED <<active, rowCount>> PROVE CountInv'
  BY <1>1
<1>2. ASSUME active' = {}, rowCount' = 0 PROVE CountInv'
  <2>1. IsFiniteSet(RowsOf({}))
    BY FS_EmptySet DEF RowsOf
  <2> QED BY <1>2, <2>1, NoRows
<1>3. ASSUME NEW d \in inflight, Put(d) PROVE CountInv'
  <2>1. d \in Delivery /\ d \notin active /\ active \in SUBSET Delivery
    BY DEF TypeOK, DeliveredOnce, OnDisk
  <2>2. active' = active \cup {d} /\ rowCount' = rowCount + Size[d[1]]
    BY <1>3 DEF Put, Counted, FlushInv
  <2>3. /\ IsFiniteSet(RowsOf(active \cup {d}))
        /\ Rows(active \cup {d}) = Rows(active) + Size[d[1]]
    BY <2>1, RowsAdded
  <2> QED BY <2>2, <2>3
<1>4. CASE Rename \/ Abandon \/ Crash
  BY <1>2, <1>4 DEF Rename, Abandon, Crash, NoWriter
<1>5. CASE Reopen \/ Restart
  BY <1>2, <1>5 DEF Reopen, Restart, FreshWriter
<1>6. CASE \E b \in Batch : Send(b) \/ GiveUp(b)
  BY <1>1, <1>6 DEF Send, GiveUp, storeVars
<1>7. CASE \E r \in replies : Receive(r)
  BY <1>1, <1>7 DEF Receive, storeVars
<1>8. CASE \E d \in inflight : PutRecoverFails(d)
  BY <1>1, <1>8 DEF PutRecoverFails, storeVars
<1>9. CASE FlushLock \/ Seal \/ ReopenFails \/ Tick \/ UNCHANGED vars
  BY <1>1, <1>9 DEF FlushLock, Seal, ReopenFails, Tick, vars, storeVars
<1> QED
  BY <1>3, <1>4, <1>5, <1>6, <1>7, <1>8, <1>9 DEF Next, FlushStep

(* Only Put adds rows, and it goes on to flush when they reach the limit.  *)
LEMMA LimitStep ==
  TypeOK /\ FlushInv /\ DeliveredOnce /\ CountInv /\ LimitInv /\ [Next]_vars => LimitInv'
<1> SUFFICES ASSUME TypeOK, FlushInv, DeliveredOnce, CountInv, LimitInv, [Next]_vars
             PROVE  LimitInv'
  OBVIOUS
<1> USE DEF LimitInv
<1>0. RowLimit \in Nat \ {0} /\ step \in {"free", "seal", "rename", "reopen"}
  BY DiskStoreAssumption DEF TypeOK
<1>1. ASSUME UNCHANGED <<active, rowCount, step>> PROVE LimitInv'
  BY <1>1
<1>2. ASSUME rowCount' = 0, step' \in {"free", "reopen"} PROVE LimitInv'
  BY <1>0, <1>2
<1>3. ASSUME NEW d \in inflight, Put(d) PROVE LimitInv'
  <2>1. d \notin active
    BY DEF DeliveredOnce, OnDisk
  <2>2. step = "free" /\ active' = active \cup {d} /\ rowCount' = rowCount + Size[d[1]]
    BY <1>3 DEF Put, Counted, FlushInv
  <2>3. CASE ~Full(rowCount')
    <3>1. step' = "free"
      BY <1>3, <2>3 DEF Put
    <3>2. rowCount' \in Nat
      BY <1>3, TypeStep DEF TypeOK
    <3> QED BY <1>0, <2>3, <3>1, <3>2 DEF Full
  <2>4. CASE Full(rowCount')
    <3>1. step' = "seal"
      BY <1>3, <2>4 DEF Put
    <3>2. d \in active' /\ active' \ {d} = active
      BY <2>1, <2>2
    <3>3. Rows(active) < RowLimit
      BY <2>2 DEF CountInv, RowCountExact
    <3> QED BY <3>1, <3>2, <3>3
  <2> QED BY <2>3, <2>4
<1>4. CASE FlushLock
  <2>1. step = "free" /\ step' = "seal" /\ rowCount > 0 /\ active' = active
    BY <1>4 DEF FlushLock, storeVars
  <2>2. Rows(active) < RowLimit /\ Rows(active) # 0 /\ Rows(active) = rowCount
    BY <2>1 DEF CountInv, RowCountExact, TypeOK
  <2>3. PICK d \in active : TRUE
    BY <2>2, NoRows
  <2>4. Rows(active \ {d}) <= Rows(active)
    BY FewerRows DEF CountInv
  <2>5. Rows(active \ {d}) \in Nat /\ Rows(active) \in Nat
    <3>1. RowsOf(active \ {d}) \subseteq RowsOf(active)
      BY DEF RowsOf
    <3>2. IsFiniteSet(RowsOf(active \ {d}))
      BY <3>1, FS_Subset DEF CountInv
    <3> QED BY <3>2, FS_CardinalityType DEF Rows, CountInv
  <2>6. Rows(active \ {d}) < RowLimit
    BY <1>0, <2>2, <2>4, <2>5
  <2> QED BY <2>1, <2>3, <2>6
<1>5. CASE Seal
  BY <1>5 DEF Seal
<1>6. CASE Rename \/ Abandon \/ Crash
  BY <1>2, <1>6 DEF Rename, Abandon, Crash, NoWriter, Answer
<1>7. CASE Reopen
  BY <1>2, <1>7 DEF Reopen, FreshWriter, Answer
<1>8. CASE ReopenFails
  <2>1. rowCount' = 0 /\ step' = "free"
    BY <1>8 DEF ReopenFails, storeVars, Answer, FlushInv
  <2> QED BY <1>2, <2>1
<1>9. CASE Restart
  <2>1. rowCount' = 0 /\ step' = "free"
    BY <1>9 DEF Restart, FreshWriter, FlushInv
  <2> QED BY <1>2, <2>1
<1>10. CASE \E b \in Batch : Send(b) \/ GiveUp(b)
  BY <1>1, <1>10 DEF Send, GiveUp, storeVars
<1>11. CASE \E r \in replies : Receive(r)
  BY <1>1, <1>11 DEF Receive, storeVars
<1>12. CASE \E d \in inflight : PutRecoverFails(d)
  BY <1>1, <1>12 DEF PutRecoverFails, storeVars
<1>13. CASE Tick \/ UNCHANGED vars
  BY <1>1, <1>13 DEF Tick, vars, storeVars
<1> QED
  BY <1>3, <1>4, <1>5, <1>6, <1>7, <1>8, <1>9, <1>10, <1>11, <1>12, <1>13
  DEF Next, FlushStep

(* Only Rename makes a file visible, from a sealed file that LimitInv is   *)
(* about.                                                                  *)
LEMMA FileStep ==
  TypeOK /\ FlushInv /\ LimitInv /\ FileInv /\ [Next]_vars => FileInv'
<1> SUFFICES ASSUME TypeOK, FlushInv, LimitInv, FileInv, [Next]_vars PROVE FileInv'
  OBVIOUS
<1> USE DEF FileInv, FileWellFormed
<1>0. clock \in Nat /\ startTime \in Nat
  BY DEF TypeOK
<1>1. ASSUME UNCHANGED <<files, step, sealed, startTime, clock>> PROVE FileInv'
  BY <1>1
<1>2. ASSUME UNCHANGED files, step' # "rename", clock' = clock, startTime' \in {startTime, clock}
      PROVE  FileInv'
  BY <1>0, <1>2
<1>3. CASE Seal
  BY <1>3 DEF Seal
<1>4. CASE Rename
  <2> DEFINE new  == [start |-> startTime, stop |-> clock, rows |-> active, sealed |-> sealed]
             same == {g \in files : g.start = startTime /\ g.stop = clock}
  <2>1. files' = (files \ same) \cup {new}
    BY <1>4 DEF Rename
  <2>2. step = "rename" /\ step' = "reopen" /\ UNCHANGED <<clock, startTime>>
    BY <1>4 DEF Rename, NoWriter
  <2>3. new.sealed /\ new.start <= new.stop
    BY <2>2
  <2>4. \E d \in new.rows : Rows(new.rows \ {d}) < RowLimit
    BY <2>2 DEF LimitInv
  <2> HIDE DEF new, same
  <2>5. FileWellFormed'
    BY <2>1, <2>3, <2>4
  <2> QED BY <2>2, <2>5
<1>5. CASE Tick
  <2>1. UNCHANGED <<files, step, sealed, startTime>> /\ clock' = clock + 1
    BY <1>5 DEF Tick, storeVars
  <2> QED BY <1>0, <2>1
<1>6. ASSUME NEW d \in inflight, Put(d) PROVE FileInv'
  BY <1>2, <1>6 DEF Put
<1>7. CASE Abandon \/ Crash
  BY <1>2, <1>7 DEF Abandon, Crash, NoWriter, Answer
<1>8. CASE Reopen
  BY <1>2, <1>8 DEF Reopen, FreshWriter, Answer
<1>9. CASE ReopenFails \/ FlushLock
  BY <1>2, <1>9 DEF ReopenFails, FlushLock, storeVars, Answer
<1>10. CASE Restart
  BY <1>2, <1>10 DEF Restart, FreshWriter, FlushInv
<1>11. CASE \E b \in Batch : Send(b) \/ GiveUp(b)
  BY <1>1, <1>11 DEF Send, GiveUp, storeVars
<1>12. CASE \E r \in replies : Receive(r)
  BY <1>1, <1>12 DEF Receive, storeVars
<1>13. CASE \E d \in inflight : PutRecoverFails(d)
  BY <1>1, <1>13 DEF PutRecoverFails, storeVars
<1>14. CASE UNCHANGED vars
  BY <1>1, <1>14 DEF vars, storeVars
<1> QED
  BY <1>3, <1>4, <1>5, <1>6, <1>7, <1>8, <1>9, <1>10, <1>11, <1>12, <1>13, <1>14
  DEF Next, FlushStep

-----------------------------------------------------------------------------
(* The theorems *)

LEMMA IInvInit == Init => IInv
<1> SUFFICES ASSUME Init PROVE IInv
  OBVIOUS
<1>1. FlushInv /\ SentInv /\ AckedKept /\ RepliesKept /\ DeliveredOnce
  BY DEF Init, FlushInv, SentInv, KnownDeliveries, OnDisk, AckedKept, RepliesKept, DeliveredOnce
<1> QED BY <1>1, TypeInit DEF IInv

LEMMA IInvStep == IInv /\ [Next]_vars => IInv'
  BY TypeStep, FlushInvStep, SentInvStep, AckedKeptStep, RepliesKeptStep, DeliveredOnceStep
  DEF IInv

LEMMA IInvAlways == Spec => []IInv
  BY IInvInit, IInvStep, PTL DEF Spec

(* For any payloads, row limit and interleaving of clients, ticker, faults *)
(* and restarts: no batch is acknowledged whose rows the collector does    *)
(* not keep, except those a fault has destroyed after the acknowledgement. *)
THEOREM NoAckWithoutRows == Spec => []AckedKept
<1>1. IInv => AckedKept
  BY DEF IInv
<1> QED BY <1>1, IInvAlways, PTL

(* No flush, failed flush, crash or restart ever leaves the rows of one    *)
(* delivery in two files, or keeps rows of a delivery still to be handled. *)
THEOREM NoSecondCopy == Spec => []DeliveredOnce
<1>1. IInv => DeliveredOnce
  BY DEF IInv
<1> QED BY <1>1, IInvAlways, PTL
(* The three invariants of the row count hold together: what a flush finds *)
(* rests on the count, and the files on what the flush found.              *)
RowsInv == IInv /\ CountInv /\ LimitInv /\ FileInv

LEMMA RowsInvInit == Init => RowsInv
<1> SUFFICES ASSUME Init PROVE RowsInv
  OBVIOUS
<1>1. CountInv
  <2>1. IsFiniteSet(RowsOf({}))
    BY FS_EmptySet DEF RowsOf
  <2> QED BY <2>1, NoRows DEF Init, CountInv, RowCountExact
<1>2. LimitInv /\ FileInv
  BY DiskStoreAssumption DEF Init, LimitInv, FileInv, FileWellFormed
<1> QED BY <1>1, <1>2, IInvInit DEF RowsInv

LEMMA RowsInvStep == RowsInv /\ [Next]_vars => RowsInv'
<1>1. RowsInv => TypeOK /\ FlushInv /\ DeliveredOnce
  BY DEF RowsInv, IInv
<1> QED BY <1>1, IInvStep, CountStep, LimitStep, FileStep DEF RowsInv

LEMMA RowsInvAlways == Spec => []RowsInv
  BY RowsInvInit, RowsInvStep, PTL DEF Spec

(* Whatever Put, the ticker, a failed flush, a failed reopening, a crash   *)
(* and a restart do to it, rowCount is the number of rows of the active    *)
(* file: Flush never takes a file with rows for an empty one.              *)
THEOREM RowCountIsExact == Spec => []RowCountExact
<1>1. RowsInv => RowCountExact
  BY DEF RowsInv, CountInv
<1> QED BY <1>1, RowsInvAlways, PTL

(* For any payload sizes and row limit, a file the shipper can see is a    *)
(* closed array, is not empty, and would be below the limit without some   *)
(* one payload.                                                            *)
THEOREM FilesAreWellFormed == Spec => []FileWellFormed
<1>1. RowsInv => FileWellFormed
  BY DEF RowsInv, FileInv
<1> QED BY <1>1, RowsInvAlways, PTL
=============================================================================
