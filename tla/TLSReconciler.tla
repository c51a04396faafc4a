---------------------------- MODULE TLSReconciler ----------------------------
(***************************************************************************)
(* The certificates of the webhook server                                  *)
(* (src/app/domain/monitor/tls_monitor.go): every TLS handshake asks the   *)
(* reconciler, which reads the files at the first handshake and after a    *)
(* SIGHUP.  A call of certificates is a process; each load and store of    *)
(* the atomics, each operation of the condition variable and of the single *)
(* flight, and each file that is read is a step.                           *)
(*                                                                         *)
(* Versions of the files are numbers; 0 is none.                           *)
(***************************************************************************)
EXTENDS Naturals, Sequences, FiniteSets

CONSTANTS
  Handshake,   \* the calls of certificates
  RootsLimit,  \* rootsLimit
  MaxVersion   \* bound: the versions of the files

ASSUME TLSAssumption == RootsLimit \in Nat \ {0} /\ MaxVersion \in Nat \ {0}

VARIABLES
  call,       \* each call: where it is, and what it has read
  reloading,  \* the flag
  once,       \* the first reload has been requested
  sigc,       \* signals in the channel, at most one
  files,      \* the version on the volume
  withCA,     \* a path of a CA file is configured
  ll,         \* the list of the root CAs, newest first
  pool,       \* the pool in use
  cert,       \* the certificate in use
  stranded    \* history: how somebody may have been left to wait

tlsVars == <<call, reloading, once, sigc, files, withCA, ll, pool, cert, stranded>>

TLSStart(pc) ==
  /\ call = [c \in Handshake |-> [pc |-> pc, cert |-> 0, roots |-> 0]]
  /\ reloading = FALSE /\ once = FALSE /\ sigc = FALSE
  /\ files = 1 /\ withCA \in BOOLEAN
  /\ ll = <<>> /\ pool = {} /\ cert = 0
  /\ stranded = {}

TLSInit == TLSStart("new")

At(c, pc) == call[c].pc = pc
Moves(c, pc) == call' = [call EXCEPT ![c].pc = pc]

-----------------------------------------------------------------------------
(* The wait *)

(* The flag is loaded; somebody who finds it set will call Wait. *)
LoadReloading(c) ==
  /\ call[c].pc \in {"new", "check"}
  /\ Moves(c, IF reloading THEN "park" ELSE "decide")
  /\ UNCHANGED <<reloading, once, sigc, files, withCA, ll, pool, cert, stranded>>

(* Wait: only now is the caller on the list that Broadcast wakes. *)
CondWait(c) ==
  /\ At(c, "park")
  /\ Moves(c, "parked")
  /\ UNCHANGED <<reloading, once, sigc, files, withCA, ll, pool, cert, stranded>>

(* needReload: the first call ever, or a signal in the channel. *)
needReload(c) ==
  /\ At(c, "decide")
  /\ once' = TRUE
  /\ sigc' = (sigc /\ ~once)
  /\ Moves(c, IF ~once \/ sigc THEN "set" ELSE "load")
  /\ UNCHANGED <<reloading, files, withCA, ll, pool, cert, stranded>>

SetReloading(c) ==
  /\ At(c, "set")
  /\ reloading' = TRUE
  /\ Moves(c, "do")
  /\ UNCHANGED <<once, sigc, files, withCA, ll, pool, cert, stranded>>

-----------------------------------------------------------------------------
(* The flight *)

Leading == {"read cert", "read key", "read ca", "store pool", "store cert", "clear",
            "broadcast", "finish"}

Flight == {c \in Handshake : call[c].pc \in Leading}

(* Mutant of Do: every caller reloads for itself. *)
MutDo(c) ==
  /\ At(c, "do")
  /\ Moves(c, "read cert")
  /\ UNCHANGED <<reloading, once, sigc, files, withCA, ll, pool, cert, stranded>>

(* flight.Do: the call leads, or joins the flight under way.  One that     *)
(* joins after the flag has been cleared leaves it set for good.           *)
Do(c) ==
  /\ At(c, "do")
  /\ Moves(c, IF Flight = {} THEN "read cert" ELSE "joined")
  /\ stranded' = IF \E d \in Flight : call[d].pc \in {"broadcast", "finish"}
                 THEN stranded \cup {"joined late"} ELSE stranded
  /\ UNCHANGED <<reloading, once, sigc, files, withCA, ll, pool, cert>>

(* LoadX509KeyPair reads the two files one after the other. *)
ReadCert(c) ==
  /\ At(c, "read cert")
  /\ call' = [call EXCEPT ![c].pc = "read key", ![c].cert = files]
  /\ UNCHANGED <<reloading, once, sigc, files, withCA, ll, pool, cert, stranded>>

(* The provider fails: the flag stays set and nobody is woken. *)
ProviderFails(c) ==
  /\ Moves(c, "finish")
  /\ stranded' = stranded \cup {"provider error"}

ReadKey(c) ==
  /\ At(c, "read key")
  /\ \/ /\ call[c].cert = files
        /\ Moves(c, IF withCA THEN "read ca" ELSE "store cert")
        /\ UNCHANGED stranded
     \/ call[c].cert # files /\ ProviderFails(c)
  /\ UNCHANGED <<reloading, once, sigc, files, withCA, ll, pool, cert>>

ReadCA(c) ==
  /\ At(c, "read ca")
  /\ call' = [call EXCEPT ![c].pc = "store pool", ![c].roots = files]
  /\ UNCHANGED <<reloading, once, sigc, files, withCA, ll, pool, cert, stranded>>

(* The list keeps the newest RootsLimit roots, and the pool is made of it. *)
StorePool(c) ==
  /\ At(c, "store pool")
  /\ ll' = SubSeq(<<call[c].roots>> \o ll, 1,
                  IF Len(ll) < RootsLimit THEN Len(ll) + 1 ELSE RootsLimit)
  /\ pool' = {ll'[i] : i \in 1..Len(ll')}
  /\ Moves(c, "store cert")
  /\ UNCHANGED <<reloading, once, sigc, files, withCA, cert, stranded>>

StoreCert(c) ==
  /\ At(c, "store cert")
  /\ cert' = call[c].cert
  /\ Moves(c, "clear")
  /\ UNCHANGED <<reloading, once, sigc, files, withCA, ll, pool, stranded>>

ClearReloading(c) ==
  /\ At(c, "clear")
  /\ reloading' = FALSE
  /\ Moves(c, "broadcast")
  /\ UNCHANGED <<once, sigc, files, withCA, ll, pool, cert, stranded>>

(* Mutant of Broadcast: one caller is woken. *)
MutBroadcast(c) ==
  /\ At(c, "broadcast")
  /\ LET woken == {d \in Handshake : At(d, "parked")} IN
     \E w \in SUBSET woken :
       /\ Cardinality(w) = (IF woken = {} THEN 0 ELSE 1)
       /\ call' = [d \in Handshake |-> IF d = c THEN [call[d] EXCEPT !.pc = "finish"]
                                       ELSE IF d \in w THEN [call[d] EXCEPT !.pc = "check"]
                                       ELSE call[d]]
  /\ stranded' = IF \E d \in Handshake : At(d, "park")
                 THEN stranded \cup {"lost wakeup"} ELSE stranded
  /\ UNCHANGED <<reloading, once, sigc, files, withCA, ll, pool, cert>>

(* Broadcast wakes the callers on the list; the locker locks nothing, so   *)
(* that one may be on its way to the list.                                 *)
Broadcast(c) ==
  /\ At(c, "broadcast")
  /\ call' = [d \in Handshake |-> IF d = c THEN [call[d] EXCEPT !.pc = "finish"]
                                  ELSE IF At(d, "parked") THEN [call[d] EXCEPT !.pc = "check"]
                                  ELSE call[d]]
  /\ stranded' = IF \E d \in Handshake : At(d, "park")
                 THEN stranded \cup {"lost wakeup"} ELSE stranded
  /\ UNCHANGED <<reloading, once, sigc, files, withCA, ll, pool, cert>>

(* The flight ends, for the calls that joined it too. *)
FlightEnds(c) ==
  /\ At(c, "finish")
  /\ call' = [d \in Handshake |-> IF d = c \/ At(d, "joined")
                                  THEN [call[d] EXCEPT !.pc = "load"] ELSE call[d]]
  /\ UNCHANGED <<reloading, once, sigc, files, withCA, ll, pool, cert, stranded>>

(* certificates returns what is in the atomics. *)
Return(c) ==
  /\ At(c, "load")
  /\ call' = [call EXCEPT ![c] = [pc |-> "done", cert |-> cert, roots |-> 0]]
  /\ UNCHANGED <<reloading, once, sigc, files, withCA, ll, pool, cert, stranded>>

-----------------------------------------------------------------------------
(* The files are replaced, all at once; a signal may follow. *)
Rotate ==
  /\ files < MaxVersion /\ \E c \in Handshake : call[c].pc \notin {"done", "off"}
  /\ files' = files + 1
  /\ UNCHANGED <<call, reloading, once, sigc, withCA, ll, pool, cert, stranded>>

(* The channel holds one signal; more are dropped. *)
SIGHUP ==
  /\ ~sigc /\ \E c \in Handshake : call[c].pc \notin {"done", "off"}
  /\ sigc' = TRUE
  /\ UNCHANGED <<call, reloading, once, files, withCA, ll, pool, cert, stranded>>

CallStep(c) ==
  \/ LoadReloading(c) \/ CondWait(c) \/ needReload(c) \/ SetReloading(c) \/ Do(c)
  \/ ReadCert(c) \/ ReadKey(c) \/ ReadCA(c) \/ StorePool(c) \/ StoreCert(c)
  \/ ClearReloading(c) \/ Broadcast(c) \/ FlightEnds(c) \/ Return(c)

TLSNext == (\E c \in Handshake : CallStep(c)) \/ Rotate \/ SIGHUP

(* The goroutine of every handshake goes on. *)
TLSFairness == \A c \in Handshake : WF_tlsVars(CallStep(c))

TLSSpec == TLSInit /\ [][TLSNext]_tlsVars /\ TLSFairness

-----------------------------------------------------------------------------
(* Properties *)

(* Somebody will clear the flag and wake the callers on the list. *)
Awaker == \E c \in Handshake : call[c].pc \in {"set", "do"} \cup (Leading \ {"finish"})

(* A handshake waits for the flag only while somebody is there to wake it, *)
(* save in three cases: the provider has failed, which leaves the flag set;*)
(* a caller has joined a flight that had cleared the flag already; or it   *)
(* went to the list after the Broadcast it was to be woken by.             *)
WaitIsAnswered ==
  (\E c \in Handshake : At(c, "parked")) => Awaker \/ stranded # {}

(* The certificate in use is never replaced by an older one, though many   *)
(* calls reload at once and the files change while they read; and the pool *)
(* holds no more than the limit of roots, the newest among them.           *)
NewestCertificate ==
  [][/\ cert' >= cert
     /\ Cardinality(pool') <= RootsLimit
     /\ \A old \in pool, new \in pool' \ pool : new > old]_tlsVars

(* A handshake ends: it waits only if a reload is in progress. *)
HandshakeEnds == \A c \in Handshake : At(c, "new") ~> At(c, "done")
=============================================================================
