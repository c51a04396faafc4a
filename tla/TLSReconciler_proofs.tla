------------------------ MODULE TLSReconciler_proofs ------------------------
(***************************************************************************)
(* Proofs, for any number of handshakes, any limit of roots and any number *)
(* of versions of the files, that a handshake is left to wait only in the  *)
(* three ways the history variable names, and that neither the certificate *)
(* nor the roots ever go back to older ones.                               *)
(***************************************************************************)
EXTENDS WebhookMain, FiniteSetTheorems, SequenceTheorems, TLAPS

Steps ==
  {"off", "new", "check", "park", "parked", "decide", "set", "do", "joined", "load", "done"}
  \cup Leading

CallType == call \in [Handshake -> [pc : Steps, cert : Nat, roots : Nat]]

-----------------------------------------------------------------------------
(* Waiting *)

(* Whoever may still clear the flag. *)
Clearing == {"do"} \cup (Leading \ {"broadcast", "finish"})

(* A flag that is set will be cleared, and who waits for it or is about to *)
(* has somebody to be woken by, unless something was stranded.             *)
FlagInv == stranded = {} /\ reloading => \E c \in Handshake : call[c].pc \in Clearing
WakeInv ==
  stranded = {} /\ (\E c \in Handshake : call[c].pc \in {"park", "parked"}) => Awaker

WaitInv == CallType /\ FlagInv /\ WakeInv

LEMMA WaitInit == ASSUME NEW pc \in {"new", "off"}, TLSStart(pc) PROVE WaitInv
  BY DEF TLSStart, WaitInv, CallType, FlagInv, WakeInv, Steps

(* What a move changes. *)
LEMMA MovesTo ==
  ASSUME CallType, NEW c \in Handshake, NEW pc, Moves(c, pc)
  PROVE  call'[c].pc = pc /\ \A d \in Handshake \ {c} : call'[d] = call[d]
  BY DEF CallType, Moves

(* Whoever clears the flag wakes the others too. *)
LEMMA ClearerIsEnough ==
  ASSUME NEW d \in Handshake, call'[d].pc \in Clearing PROVE FlagInv' /\ WakeInv'
  BY DEF FlagInv, WakeInv, Awaker, Clearing, Leading

LEMMA CallTypeStep == ASSUME CallType, files \in Nat, cert \in Nat, TLSNext PROVE CallType'
<1>1. ASSUME NEW c \in Handshake, CallStep(c) PROVE CallType'
  <2>1. CASE LoadReloading(c)
    BY <2>1 DEF LoadReloading, CallType, Steps, Leading, Moves, At
  <2>2. CASE CondWait(c)
    BY <2>2 DEF CondWait, CallType, Steps, Leading, Moves, At
  <2>3. CASE needReload(c)
    BY <2>3 DEF needReload, CallType, Steps, Leading, Moves, At
  <2>4. CASE SetReloading(c)
    BY <2>4 DEF SetReloading, CallType, Steps, Leading, Moves, At
  <2>5. CASE Do(c)
    BY <2>5 DEF Do, CallType, Steps, Leading, Moves, At
  <2>6. CASE ReadCert(c)
    BY <2>6 DEF ReadCert, CallType, Steps, Leading, Moves, At
  <2>7. CASE ReadKey(c)
    BY <2>7 DEF ReadKey, ProviderFails, CallType, Steps, Leading, Moves, At
  <2>8. CASE ReadCA(c)
    BY <2>8 DEF ReadCA, CallType, Steps, Leading, Moves, At
  <2>9. CASE StorePool(c)
    BY <2>9 DEF StorePool, CallType, Steps, Leading, Moves, At
  <2>10. CASE StoreCert(c)
    BY <2>10 DEF StoreCert, CallType, Steps, Leading, Moves, At
  <2>11. CASE ClearReloading(c)
    BY <2>11 DEF ClearReloading, CallType, Steps, Leading, Moves, At
  <2>12. CASE Broadcast(c)
    BY <2>12 DEF Broadcast, CallType, Steps, Leading, Moves, At
  <2>13. CASE FlightEnds(c)
    BY <2>13 DEF FlightEnds, CallType, Steps, Leading, Moves, At
  <2>14. CASE Return(c)
    BY <2>14 DEF Return, CallType, Steps, Leading, Moves, At
  <2> QED BY <1>1, <2>1, <2>2, <2>3, <2>4, <2>5, <2>6, <2>7, <2>8, <2>9, <2>10, <2>11, <2>12,
             <2>13, <2>14 DEF CallStep
<1>2. CASE Rotate \/ SIGHUP
  BY <1>2 DEF Rotate, SIGHUP, CallType
<1> QED BY <1>1, <1>2 DEF TLSNext

LEMMA WaitStep ==
  ASSUME CallType, FlagInv, WakeInv, TLSNext
  PROVE  FlagInv' /\ WakeInv'
<1>1. ASSUME NEW c \in Handshake, CallStep(c) PROVE FlagInv' /\ WakeInv'
  <2>1. CASE LoadReloading(c)
    BY <2>1 DEF LoadReloading, CallType, Moves, At, FlagInv, WakeInv, Awaker, Clearing, Leading
  <2>2. CASE CondWait(c)
    BY <2>2 DEF CondWait, CallType, Moves, At, FlagInv, WakeInv, Awaker, Clearing, Leading
  <2>3. CASE needReload(c)
    BY <2>3 DEF needReload, CallType, Moves, At, FlagInv, WakeInv, Awaker, Clearing, Leading
  <2>4. CASE SetReloading(c)
    BY <2>4, MovesTo, ClearerIsEnough DEF SetReloading, Clearing, Leading
  <2>5. CASE Do(c)
    <3>1. CASE Flight = {}
      <4>1. call'[c].pc = "read cert"
        BY <2>5, <3>1, MovesTo DEF Do
      <4> QED BY <4>1, ClearerIsEnough DEF Clearing, Leading
    <3>2. CASE \E d \in Flight : call[d].pc \in {"broadcast", "finish"}
      BY <2>5, <3>2 DEF Do, FlagInv, WakeInv
    <3>3. CASE \E d \in Flight : call[d].pc \notin {"broadcast", "finish"}
      <4>1. PICK d \in Flight : call[d].pc \notin {"broadcast", "finish"}
        BY <3>3
      <4>2. d \in Handshake \ {c} /\ call[d].pc \in Clearing
        BY <2>5, <4>1 DEF Do, At, Flight, Clearing, Leading
      <4>3. Moves(c, IF Flight = {} THEN "read cert" ELSE "joined")
        BY <2>5 DEF Do
      <4>4. call'[d] = call[d]
        BY <4>2, <4>3, MovesTo
      <4> QED BY <4>2, <4>4, ClearerIsEnough
    <3> QED BY <3>1, <3>2, <3>3
  <2>6. CASE ReadCert(c)
    <3>1. call'[c].pc = "read key"
      BY <2>6 DEF ReadCert, CallType
    <3> QED BY <3>1, ClearerIsEnough DEF Clearing, Leading
  <2>7. CASE ReadKey(c)
    <3>1. CASE call[c].cert = files
      <4>1. PICK pc \in {"read ca", "store cert"} : Moves(c, pc)
        BY <2>7, <3>1 DEF ReadKey, ProviderFails
      <4>2. call'[c].pc = pc
        BY <4>1, MovesTo
      <4> QED BY <4>2, ClearerIsEnough DEF Clearing, Leading
    <3>2. CASE call[c].cert # files
      BY <2>7, <3>2 DEF ReadKey, ProviderFails, FlagInv, WakeInv
    <3> QED BY <3>1, <3>2
  <2>8. CASE ReadCA(c)
    <3>1. call'[c].pc = "store pool"
      BY <2>8 DEF ReadCA, CallType
    <3> QED BY <3>1, ClearerIsEnough DEF Clearing, Leading
  <2>9. CASE StorePool(c)
    <3>1. call'[c].pc = "store cert"
      BY <2>9, MovesTo DEF StorePool
    <3> QED BY <3>1, ClearerIsEnough DEF Clearing, Leading
  <2>10. CASE StoreCert(c)
    <3>1. call'[c].pc = "clear"
      BY <2>10, MovesTo DEF StoreCert
    <3> QED BY <3>1, ClearerIsEnough DEF Clearing, Leading
  <2>11. CASE ClearReloading(c)
    <3>1. call'[c].pc = "broadcast" /\ ~reloading'
      BY <2>11, MovesTo DEF ClearReloading
    <3> QED BY <3>1 DEF FlagInv, WakeInv, Awaker, Leading
  <2>12. CASE Broadcast(c)
    <3>1. ASSUME NEW d \in Handshake
          PROVE  /\ call[d].pc \in Clearing => call'[d].pc \in Clearing
                 /\ call'[d].pc \notin {"park", "parked"} \/ At(d, "park")
      BY <2>12 DEF Broadcast, At, CallType, Clearing, Leading
    <3>2. FlagInv'
      BY <2>12, <3>1 DEF Broadcast, FlagInv
    <3>3. WakeInv'
      BY <2>12, <3>1 DEF Broadcast, WakeInv
    <3> QED BY <3>2, <3>3
  <2>13. CASE FlightEnds(c)
    <3>1. ASSUME NEW d \in Handshake
          PROVE  /\ call[d].pc \in Clearing => call'[d].pc \in Clearing
                 /\ call[d].pc \in {"set", "do"} \cup (Leading \ {"finish"}) => call'[d] = call[d]
                 /\ call'[d].pc \in {"park", "parked"} => call'[d] = call[d]
      BY <2>13 DEF FlightEnds, At, CallType, Clearing, Leading
    <3>2. FlagInv'
      BY <2>13, <3>1 DEF FlightEnds, FlagInv
    <3>3. WakeInv'
      BY <2>13, <3>1 DEF FlightEnds, WakeInv, Awaker
    <3> QED BY <3>2, <3>3
  <2>14. CASE Return(c)
    <3>1. At(c, "load") /\ call'[c].pc = "done" /\ \A d \in Handshake \ {c} : call'[d] = call[d]
      BY <2>14 DEF Return, CallType
    <3>2. FlagInv'
      BY <2>14, <3>1 DEF Return, At, FlagInv, Clearing, Leading
    <3>3. WakeInv'
      BY <2>14, <3>1 DEF Return, At, WakeInv, Awaker, Leading
    <3> QED BY <3>2, <3>3
  <2> QED BY <1>1, <2>1, <2>2, <2>3, <2>4, <2>5, <2>6, <2>7, <2>8, <2>9, <2>10, <2>11, <2>12,
             <2>13, <2>14 DEF CallStep
<1>2. CASE Rotate \/ SIGHUP
  BY <1>2 DEF Rotate, SIGHUP, FlagInv, WakeInv, Awaker, CallType
<1> QED BY <1>1, <1>2 DEF TLSNext

-----------------------------------------------------------------------------
(* The certificate and the roots *)

(* A call that has read the certificate and has not stored it yet. *)
Holding == {"read key", "read ca", "store pool", "store cert"}

CertType == CallType /\ files \in Nat /\ cert \in Nat /\ ll \in Seq(Nat)

(* One call at a time reads the files and stores what it has read. *)
OneLeader == \A c, d \in Flight : c = d

(* What the leader holds is no older than what is in use. *)
CertInv ==
  /\ cert <= files
  /\ \A c \in Handshake : call[c].pc \in Holding => cert <= call[c].cert /\ call[c].cert <= files

RootsInv ==
  /\ Len(ll) <= RootsLimit
  /\ pool = {ll[i] : i \in 1..Len(ll)}
  /\ \A i \in 1..Len(ll) : ll[i] <= files
  /\ \A c \in Handshake : At(c, "store pool") =>
       call[c].roots <= files /\ \A i \in 1..Len(ll) : ll[i] <= call[c].roots

NewestInv == CertType /\ OneLeader /\ CertInv /\ RootsInv

LEMMA NewestInit == ASSUME NEW pc \in {"new", "off"}, TLSStart(pc) PROVE NewestInv
<1>1. CallType /\ \A c \in Handshake : call[c].pc = pc
  BY DEF TLSStart, CallType, Steps
<1>2. \A c \in Handshake : call[c].pc \notin Leading \cup Holding
  BY <1>1 DEF Leading, Holding
<1>3. CertType
  BY <1>1 DEF TLSStart, CertType
<1>4. OneLeader
  BY <1>2 DEF OneLeader, Flight
<1>5. CertInv
  BY <1>2 DEF TLSStart, CertInv
<1>6. ll = <<>> /\ Len(ll) = 0 /\ pool = {}
  BY DEF TLSStart
<1>7. RootsInv
  <2>1. 1..Len(ll) = {}
    BY <1>6
  <2>2. Len(ll) <= RootsLimit
    BY <1>6, TLSAssumption
  <2>3. pool = {ll[i] : i \in 1..Len(ll)}
    BY <1>6, <2>1
  <2>4. \A c \in Handshake : ~At(c, "store pool")
    BY <1>2 DEF At, Leading
  <2> QED BY <2>1, <2>2, <2>3, <2>4 DEF RootsInv
<1> QED BY <1>3, <1>4, <1>5, <1>7 DEF NewestInv

(* Who leads a flight led it before, or found none under way. *)
LEMMA LeaderStep ==
  ASSUME CallType, OneLeader, TLSNext
  PROVE  OneLeader'
<1>1. ASSUME NEW c \in Handshake, CallStep(c), ~Do(c) PROVE Flight' \subseteq Flight
  <2>1. CASE LoadReloading(c) \/ CondWait(c) \/ needReload(c) \/ SetReloading(c)
    <3>1. ASSUME NEW pc \in {"park", "decide", "parked", "set", "load", "do"}, Moves(c, pc)
          PROVE  Flight' \subseteq Flight
      BY <3>1, MovesTo DEF Flight, Leading
    <3> QED BY <2>1, <3>1 DEF LoadReloading, CondWait, needReload, SetReloading
  <2>2. CASE ReadCert(c) \/ ReadKey(c) \/ ReadCA(c)
    BY <2>2 DEF ReadCert, ReadKey, ProviderFails, ReadCA, CallType, Moves, At, Flight, Leading
  <2>3. CASE StorePool(c) \/ StoreCert(c) \/ ClearReloading(c)
    BY <2>3 DEF StorePool, StoreCert, ClearReloading, CallType, Moves, At, Flight, Leading
  <2>4. CASE Broadcast(c)
    BY <2>4 DEF Broadcast, CallType, At, Flight, Leading
  <2>5. CASE FlightEnds(c)
    BY <2>5 DEF FlightEnds, CallType, At, Flight, Leading
  <2>6. CASE Return(c)
    BY <2>6 DEF Return, CallType, At, Flight, Leading
  <2> QED BY <1>1, <2>1, <2>2, <2>3, <2>4, <2>5, <2>6 DEF CallStep
<1>2. ASSUME NEW c \in Handshake, Do(c) PROVE OneLeader'
  <2>1. CASE Flight = {}
    <3>1. \A d \in Handshake \ {c} : call'[d] = call[d]
      BY <1>2, MovesTo DEF Do
    <3>2. Flight' \subseteq {c}
      BY <2>1, <3>1 DEF Flight
    <3> QED BY <3>2 DEF OneLeader
  <2>2. CASE Flight # {}
    <3>1. call'[c].pc = "joined" /\ \A d \in Handshake \ {c} : call'[d] = call[d]
      BY <1>2, <2>2, MovesTo DEF Do
    <3>2. Flight' \subseteq Flight
      BY <3>1 DEF Flight, Leading
    <3> QED BY <3>2 DEF OneLeader
  <2> QED BY <2>1, <2>2
<1>3. CASE Rotate \/ SIGHUP
  BY <1>3 DEF Rotate, SIGHUP, OneLeader, Flight
<1>4. CASE Flight' \subseteq Flight
  BY <1>4 DEF OneLeader
<1> QED BY <1>1, <1>2, <1>3, <1>4 DEF TLSNext
LEMMA CertStep ==
  ASSUME CertType, OneLeader, CertInv, TLSNext
  PROVE  CertInv' /\ cert' >= cert
<1>1. ASSUME NEW c \in Handshake, CallStep(c), ~StoreCert(c) PROVE CertInv' /\ cert' = cert
  <2>1. cert' = cert /\ files' = files
    BY <1>1 DEF CallStep, LoadReloading, CondWait, needReload, SetReloading, Do, ReadCert, ReadKey,
                ReadCA, StorePool, ClearReloading, Broadcast, FlightEnds, Return
  <2>2. ASSUME NEW d \in Handshake, call'[d].pc \in Holding
        PROVE  call'[d].cert = files \/ (call[d].pc \in Holding /\ call'[d].cert = call[d].cert)
    <3>1. CASE LoadReloading(c)
      BY <2>2, <3>1 DEF LoadReloading, CertType, CallType, Moves, Holding
    <3>2. CASE CondWait(c)
      BY <2>2, <3>2 DEF CondWait, CertType, CallType, Moves, Holding
    <3>3. CASE needReload(c)
      BY <2>2, <3>3 DEF needReload, CertType, CallType, Moves, Holding
    <3>4. CASE SetReloading(c)
      BY <2>2, <3>4 DEF SetReloading, CertType, CallType, Moves, Holding
    <3>5. CASE Do(c)
      BY <2>2, <3>5 DEF Do, CertType, CallType, Moves, Holding
    <3>6. CASE ReadCert(c)
      <4>1. call'[c].cert = files /\ \A e \in Handshake \ {c} : call'[e] = call[e]
        BY <3>6 DEF ReadCert, CertType, CallType
      <4> QED BY <2>2, <4>1
    <3>7. CASE ReadKey(c)
      BY <2>2, <3>7 DEF ReadKey, ProviderFails, CertType, CallType, Moves, At, Holding
    <3>8. CASE ReadCA(c)
      BY <2>2, <3>8 DEF ReadCA, CertType, CallType, At, Holding
    <3>9. CASE StorePool(c)
      BY <2>2, <3>9 DEF StorePool, CertType, CallType, Moves, At, Holding
    <3>10. CASE ClearReloading(c)
      BY <2>2, <3>10 DEF ClearReloading, CertType, CallType, Moves, Holding
    <3>11. CASE Broadcast(c)
      BY <2>2, <3>11 DEF Broadcast, CertType, CallType, At, Holding
    <3>12. CASE FlightEnds(c)
      BY <2>2, <3>12 DEF FlightEnds, CertType, CallType, At, Holding
    <3>13. CASE Return(c)
      BY <2>2, <3>13 DEF Return, CertType, CallType, Holding
    <3> QED BY <1>1, <3>1, <3>2, <3>3, <3>4, <3>5, <3>6, <3>7, <3>8, <3>9, <3>10, <3>11, <3>12,
               <3>13 DEF CallStep
  <2> QED BY <2>1, <2>2 DEF CertInv, CertType
<1>2. ASSUME NEW c \in Handshake, StoreCert(c) PROVE CertInv' /\ cert' >= cert
  <2>1. /\ At(c, "store cert") /\ cert' = call[c].cert /\ files' = files
        /\ call'[c].pc = "clear" /\ \A d \in Handshake \ {c} : call'[d] = call[d]
    BY <1>2, MovesTo DEF StoreCert, CertType
  <2>2. cert <= call[c].cert /\ call[c].cert <= files
    BY <2>1 DEF CertInv, At, Holding
  <2>3. c \in Flight
    BY <2>1 DEF Flight, At, Leading
  <2>4. ASSUME NEW d \in Handshake PROVE call'[d].pc \notin Holding
    <3>1. CASE d = c
      BY <2>1, <3>1 DEF Holding
    <3>2. CASE d # c
      BY <2>1, <2>3, <3>2 DEF OneLeader, Flight, Holding, Leading
    <3> QED BY <3>1, <3>2
  <2> QED BY <2>1, <2>2, <2>4 DEF CertInv
<1>3. CASE Rotate \/ SIGHUP
  BY <1>3 DEF Rotate, SIGHUP, CertInv, CertType, CallType
<1>4. ASSUME cert' = cert PROVE cert' >= cert
  BY <1>4 DEF CertType
<1> QED BY <1>1, <1>2, <1>3, <1>4 DEF TLSNext, Rotate, SIGHUP
(* The list with one more root is cut to the limit, which loses the oldest. *)
LEMMA RootsCut ==
  ASSUME ll \in Seq(Nat), Len(ll) <= RootsLimit, NEW root \in Nat,
         ll' = SubSeq(<<root>> \o ll, 1, IF Len(ll) < RootsLimit THEN Len(ll) + 1 ELSE RootsLimit)
  PROVE  /\ ll' \in Seq(Nat) /\ Len(ll') <= RootsLimit
         /\ \A i \in 1..Len(ll') : ll'[i] = root \/ \E j \in 1..Len(ll) : ll'[i] = ll[j]
<1> DEFINE all == <<root>> \o ll
           n == IF Len(ll) < RootsLimit THEN Len(ll) + 1 ELSE RootsLimit
<1>1. n \in Nat /\ n <= RootsLimit /\ n <= Len(ll) + 1 /\ 1 <= n
  BY TLSAssumption
<1>2. /\ all \in Seq(Nat) /\ Len(all) = Len(ll) + 1
      /\ \A i \in 1..Len(ll) + 1 : all[i] = IF i = 1 THEN root ELSE ll[i - 1]
  OBVIOUS
<1>3. ll' = SubSeq(all, 1, n)
  OBVIOUS
<1> HIDE DEF all, n
<1>4. \A i \in 1..n : all[i] \in Nat
  BY <1>1, <1>2
<1>5. ll' \in Seq(Nat) /\ Len(ll') = n /\ \A i \in 1..n : ll'[i] = all[i]
  <2>1. n \in Int /\ 1 \in Int /\ n - 1 + 1 = n /\ \A i \in 1..n : 1 + i - 1 = i
    BY <1>1
  <2>2. /\ SubSeq(all, 1, n) \in Seq(Nat)
        /\ Len(SubSeq(all, 1, n)) = IF 1 <= n THEN n - 1 + 1 ELSE 0
        /\ \A i \in 1..n - 1 + 1 : SubSeq(all, 1, n)[i] = all[1 + i - 1]
    BY <1>4, <2>1, SubSeqProperties
  <2> QED BY <1>1, <1>3, <2>1, <2>2
<1>6. ASSUME NEW i \in 1..n PROVE ll'[i] = root \/ \E j \in 1..Len(ll) : ll'[i] = ll[j]
  <2>1. CASE i = 1
    BY <1>1, <1>2, <1>5, <2>1
  <2>2. CASE i # 1
    <3>1. i \in 1..Len(ll) + 1 /\ i - 1 \in 1..Len(ll)
      BY <1>1, <2>2
    <3>2. ll'[i] = ll[i - 1]
      BY <1>2, <1>5, <2>2, <3>1
    <3> QED BY <3>1, <3>2
  <2> QED BY <2>1, <2>2
<1> QED BY <1>1, <1>5, <1>6

(* A set made of the members of a list has no more of them. *)
LEMMA PoolSize ==
  ASSUME NEW s \in Seq(Nat)
  PROVE  /\ Cardinality({s[i] : i \in 1..Len(s)}) \in Nat
         /\ Cardinality({s[i] : i \in 1..Len(s)}) <= Len(s)
<1> DEFINE S == {s[i] : i \in 1..Len(s)}
           f == [i \in 1..Len(s) |-> s[i]]
<1>1. f \in Surjection(1..Len(s), S)
  BY DEF Surjection
<1>2. Len(s) \in Nat /\ IsFiniteSet(1..Len(s)) /\ Cardinality(1..Len(s)) = Len(s)
  <2>1. Len(s) \in Nat /\ 1 \in Int /\ Len(s) \in Int
    OBVIOUS
  <2>2. IsFiniteSet(1..Len(s)) /\ Cardinality(1..Len(s)) = IF 1 > Len(s) THEN 0 ELSE Len(s) - 1 + 1
    BY <2>1, FS_Interval
  <2> QED BY <2>1, <2>2
<1> HIDE DEF S, f
<1>3. IsFiniteSet(S) /\ Cardinality(S) <= Cardinality(1..Len(s))
  BY <1>1, <1>2, FS_Surjection
<1>4. Cardinality(S) \in Nat
  BY <1>3, FS_CardinalityType
<1> QED BY <1>2, <1>3, <1>4 DEF S
LEMMA RootsStep ==
  ASSUME NewestInv, TLSNext
  PROVE  /\ ll' \in Seq(Nat) /\ RootsInv'
         /\ \A old \in pool, new \in pool' \ pool : new > old
<1> USE DEF NewestInv
<1>1. ASSUME NEW c \in Handshake, StorePool(c)
      PROVE  /\ ll' \in Seq(Nat) /\ RootsInv'
             /\ \A old \in pool, new \in pool' \ pool : new > old
  <2> DEFINE root == call[c].roots
  <2>1. /\ At(c, "store pool") /\ files' = files
        /\ call'[c].pc = "store cert" /\ \A d \in Handshake \ {c} : call'[d] = call[d]
    BY <1>1, MovesTo DEF StorePool, CertType
  <2>2. root \in Nat /\ root <= files /\ \A i \in 1..Len(ll) : ll[i] <= root
    BY <2>1 DEF RootsInv, CertType, CallType
  <2>3. /\ ll' \in Seq(Nat) /\ Len(ll') <= RootsLimit
        /\ \A i \in 1..Len(ll') : ll'[i] = root \/ \E j \in 1..Len(ll) : ll'[i] = ll[j]
    BY <1>1, <2>2, RootsCut DEF StorePool, CertType, RootsInv
  <2>4. pool' = {ll'[i] : i \in 1..Len(ll')}
    BY <1>1 DEF StorePool
  <2>5. \A i \in 1..Len(ll') : ll'[i] <= files'
    BY <2>1, <2>2, <2>3 DEF RootsInv
  <2>6. ASSUME NEW d \in Handshake PROVE ~At(d, "store pool")'
    <3>1. CASE d = c
      BY <2>1, <3>1 DEF At
    <3>2. CASE d # c
      BY <2>1, <3>2 DEF At, OneLeader, Flight, Leading
    <3> QED BY <3>1, <3>2
  <2>7. RootsInv'
    BY <2>3, <2>4, <2>5, <2>6 DEF RootsInv
  <2>8. ASSUME NEW old \in pool, NEW new \in pool' \ pool PROVE new > old
    <3>1. PICK j \in 1..Len(ll) : old = ll[j]
      BY DEF RootsInv
    <3>2. PICK i \in 1..Len(ll') : new = ll'[i]
      BY <2>4
    <3>3. new = root
      BY <2>3, <3>2 DEF RootsInv
    <3>4. old \in Nat /\ old <= root /\ old # root
      BY <2>2, <3>1, <3>3 DEF CertType
    <3> QED BY <2>2, <3>3, <3>4
  <2> QED BY <2>3, <2>7, <2>8
<1>2. ASSUME UNCHANGED <<ll, pool>>, files' \in Nat, files' >= files,
             \A d \in Handshake : At(d, "store pool")' =>
               \/ call'[d].roots = files /\ files' = files
               \/ At(d, "store pool") /\ call'[d].roots = call[d].roots
      PROVE  /\ ll' \in Seq(Nat) /\ RootsInv'
             /\ \A old \in pool, new \in pool' \ pool : new > old
  <2>1. ll' \in Seq(Nat) /\ pool' = {ll'[i] : i \in 1..Len(ll')} /\ Len(ll') <= RootsLimit
    BY <1>2 DEF RootsInv, CertType
  <2>2. ASSUME NEW i \in 1..Len(ll') PROVE ll'[i] <= files'
    <3>1. ll' = ll /\ i \in 1..Len(ll) /\ files \in Nat
      BY <1>2 DEF CertType
    <3>2. ll[i] \in Nat
      BY <3>1 DEF CertType
    <3>3. ll[i] <= files
      BY <3>1 DEF RootsInv
    <3>4. files' \in Nat /\ files <= files'
      BY <1>2, <3>1
    <3>5. ll[i] <= files'
      BY <3>1, <3>2, <3>3, <3>4
    <3> QED BY <3>1, <3>5
  <2>3. ASSUME NEW d \in Handshake, At(d, "store pool")'
        PROVE  call'[d].roots <= files' /\ \A i \in 1..Len(ll') : ll'[i] <= call'[d].roots
    <3>1. CASE call'[d].roots = files /\ files' = files
      BY <1>2, <3>1 DEF RootsInv, CertType
    <3>2. CASE At(d, "store pool") /\ call'[d].roots = call[d].roots
      <4>1. call[d].roots \in Nat /\ call[d].roots <= files
        BY <3>2 DEF RootsInv, CertType, CallType
      <4>2. \A i \in 1..Len(ll) : ll[i] <= call[d].roots
        BY <3>2 DEF RootsInv
      <4>3. ll' = ll /\ files \in Nat
        BY <1>2 DEF CertType
      <4>4. files' \in Nat /\ files <= files'
        BY <1>2, <4>3
      <4>5. call[d].roots <= files'
        BY <4>1, <4>3, <4>4
      <4> QED BY <3>2, <4>2, <4>3, <4>5
    <3> QED BY <1>2, <2>3, <3>1, <3>2
  <2> QED BY <1>2, <2>1, <2>2, <2>3 DEF RootsInv
<1>3. CASE Rotate
  <2>1. call' = call /\ ll' = ll /\ pool' = pool /\ files' = files + 1
    BY <1>3 DEF Rotate
  <2>2. files' \in Nat /\ files' >= files
    BY <2>1 DEF CertType
  <2>3. \A d \in Handshake : At(d, "store pool")' =>
          At(d, "store pool") /\ call'[d].roots = call[d].roots
    BY <2>1 DEF At
  <2> QED BY <1>2, <2>1, <2>2, <2>3
<1>4. CASE SIGHUP
  <2>1. call' = call /\ ll' = ll /\ pool' = pool /\ files' = files
    BY <1>4 DEF SIGHUP
  <2>2. files' \in Nat /\ files' >= files
    BY <2>1 DEF CertType
  <2>3. \A d \in Handshake : At(d, "store pool")' =>
          At(d, "store pool") /\ call'[d].roots = call[d].roots
    BY <2>1 DEF At
  <2> QED BY <1>2, <2>1, <2>2, <2>3
<1>5. ASSUME NEW c \in Handshake, CallStep(c), ~StorePool(c)
      PROVE  /\ UNCHANGED <<ll, pool>> /\ files' = files
             /\ \A d \in Handshake : At(d, "store pool")' =>
                  \/ call'[d].roots = files
                  \/ At(d, "store pool") /\ call'[d].roots = call[d].roots
  <2>1. UNCHANGED <<ll, pool>> /\ files' = files
    BY <1>5 DEF CallStep, LoadReloading, CondWait, needReload, SetReloading, Do, ReadCert, ReadKey,
                ReadCA, StoreCert, ClearReloading, Broadcast, FlightEnds, Return
  <2>2. ASSUME NEW d \in Handshake, At(d, "store pool")'
        PROVE  \/ call'[d].roots = files
               \/ At(d, "store pool") /\ call'[d].roots = call[d].roots
    <3>1. ASSUME NEW pc \in Steps \ {"store pool"}, Moves(c, pc)
          PROVE  At(d, "store pool") /\ call'[d].roots = call[d].roots
      BY <2>2, <3>1, MovesTo DEF At, CertType
    <3>2. CASE LoadReloading(c) \/ CondWait(c)
      BY <3>1, <3>2 DEF LoadReloading, CondWait, Steps
    <3>3. CASE needReload(c) \/ SetReloading(c)
      BY <3>1, <3>3 DEF needReload, SetReloading, Steps
    <3>4. CASE Do(c)
      BY <3>1, <3>4 DEF Do, Steps, Leading
    <3>5. CASE ReadCert(c)
      BY <2>2, <3>5 DEF ReadCert, CertType, CallType, At
    <3>6. CASE ReadKey(c)
      BY <3>1, <3>6 DEF ReadKey, ProviderFails, Steps, Leading
    <3>7. CASE ReadCA(c)
      <4>1. call'[c].roots = files /\ \A e \in Handshake \ {c} : call'[e] = call[e]
        BY <3>7 DEF ReadCA, CertType, CallType
      <4> QED BY <2>2, <4>1 DEF At
    <3>8. CASE StoreCert(c) \/ ClearReloading(c)
      BY <3>1, <3>8 DEF StoreCert, ClearReloading, Steps, Leading
    <3>9. CASE Broadcast(c)
      BY <2>2, <3>9 DEF Broadcast, CertType, CallType, At
    <3>10. CASE FlightEnds(c)
      BY <2>2, <3>10 DEF FlightEnds, CertType, CallType, At
    <3>11. CASE Return(c)
      BY <2>2, <3>11 DEF Return, CertType, CallType, At
    <3> QED BY <1>5, <3>2, <3>3, <3>4, <3>5, <3>6, <3>7, <3>8, <3>9, <3>10, <3>11 DEF CallStep
  <2> QED BY <2>1, <2>2
<1>6. ASSUME NEW c \in Handshake, CallStep(c), ~StorePool(c)
      PROVE  /\ ll' \in Seq(Nat) /\ RootsInv'
             /\ \A old \in pool, new \in pool' \ pool : new > old
  <2>1. ll' = ll /\ pool' = pool /\ files' = files
    BY <1>5, <1>6
  <2>2. files' \in Nat /\ files' >= files
    BY <2>1 DEF CertType
  <2> QED BY <1>2, <1>5, <1>6, <2>1, <2>2
<1> QED BY <1>1, <1>3, <1>4, <1>6 DEF TLSNext
LEMMA TLSStep ==
  ASSUME NewestInv, FlagInv, WakeInv, TLSNext
  PROVE  /\ NewestInv' /\ FlagInv' /\ WakeInv'
         /\ cert' >= cert /\ Cardinality(pool') <= RootsLimit
         /\ \A old \in pool, new \in pool' \ pool : new > old
<1>1. CallType' /\ OneLeader' /\ CertInv' /\ cert' >= cert /\ FlagInv' /\ WakeInv'
  BY CallTypeStep, LeaderStep, CertStep, WaitStep DEF NewestInv, CertType
<1>2. /\ ll' \in Seq(Nat) /\ RootsInv'
      /\ \A old \in pool, new \in pool' \ pool : new > old
  BY RootsStep
<1>3. ASSUME NEW c \in Handshake, CallStep(c)
      PROVE  files' = files /\ (cert' = cert \/ cert' = call[c].cert)
  BY <1>3 DEF CallStep, LoadReloading, CondWait, needReload, SetReloading, Do, ReadCert, ReadKey,
              ReadCA, StorePool, StoreCert, ClearReloading, Broadcast, FlightEnds, Return
<1>4. files' \in Nat /\ cert' \in Nat
  <2>1. ASSUME NEW c \in Handshake, CallStep(c) PROVE files' \in Nat /\ cert' \in Nat
    BY <1>3, <2>1 DEF NewestInv, CertType, CallType
  <2>2. CASE Rotate \/ SIGHUP
    BY <2>2 DEF Rotate, SIGHUP, NewestInv, CertType
  <2> QED BY <2>1, <2>2 DEF TLSNext
<1>5. Cardinality(pool') <= RootsLimit
  <2>1. pool' = {ll'[i] : i \in 1..Len(ll')} /\ Len(ll') <= RootsLimit
    BY <1>2 DEF RootsInv
  <2>2. Cardinality(pool') <= Len(ll') /\ Cardinality(pool') \in Nat /\ Len(ll') \in Nat
    BY <1>2, <2>1, PoolSize
  <2> QED BY <2>1, <2>2, TLSAssumption
<1> QED BY <1>1, <1>2, <1>4, <1>5 DEF NewestInv, CertType

LEMMA TLSStutters ==
  ASSUME NewestInv, FlagInv, WakeInv, UNCHANGED tlsVars
  PROVE  NewestInv' /\ FlagInv' /\ WakeInv'
<1>1. CertType' /\ OneLeader' /\ CertInv'
  BY DEF tlsVars, NewestInv, CertType, CallType, OneLeader, Flight, CertInv
<1>2. RootsInv'
  BY DEF tlsVars, NewestInv, RootsInv, At
<1>3. FlagInv' /\ WakeInv'
  BY DEF tlsVars, FlagInv, WakeInv, Awaker
<1> QED BY <1>1, <1>2, <1>3 DEF NewestInv

TLSInv == NewestInv /\ FlagInv /\ WakeInv

LEMMA TLSInvStart == MainInit => TLSInv
<1>1. ASSUME NEW pc \in {"new", "off"}, TLSStart(pc) PROVE TLSInv
  BY <1>1, NewestInit, WaitInit DEF TLSInv, WaitInv
<1> QED BY <1>1 DEF MainInit, TLSInit

LEMMA TLSInvHolds == MainSpec => []TLSInv
<1>1. TLSInv /\ [MainNext]_<<vars, backfillVars, tlsVars>> => TLSInv'
  BY TLSStep, TLSStutters DEF TLSInv, MainNext
<1> QED BY TLSInvStart, <1>1, PTL DEF MainSpec

-----------------------------------------------------------------------------
(* A handshake is left waiting for a reload only when the provider failed, *)
(* a caller joined a flight whose flag had been cleared, or it came to the *)
(* list after the Broadcast: for any number of handshakes.                 *)
THEOREM WaitsAreAnswered == MainSpec => []WaitIsAnswered
<1>1. TLSInv => WaitIsAnswered
  BY DEF TLSInv, WakeInv, WaitIsAnswered, At
<1> QED BY <1>1, TLSInvHolds, PTL

(* The certificate in use never goes back to an older one, and the pool    *)
(* keeps at most rootsLimit roots and gains newer ones only, however many  *)
(* handshakes reload at once and whenever the files change.                *)
THEOREM CertificatesAdvance == MainSpec => NewestCertificate
<1>1. ASSUME TLSInv, [MainNext]_<<vars, backfillVars, tlsVars>>
      PROVE  [/\ cert' >= cert
              /\ Cardinality(pool') <= RootsLimit
              /\ \A old \in pool, new \in pool' \ pool : new > old]_tlsVars
  BY <1>1, TLSStep DEF TLSInv, MainNext
<1> QED BY <1>1, TLSInvHolds, PTL DEF MainSpec, NewestCertificate
=============================================================================
