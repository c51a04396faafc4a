------------------------------ MODULE ErrorRate ------------------------------
(***************************************************************************)
(* The error-rate tracker behind the probes of the collector               *)
(* (src/app/http/middleware/errorrate.go).  A tracker is [events, last]:   *)
(* the answers in the order of their arrival, each [at, failure], and the  *)
(* time of the last unhealthy evaluation, none or one.  The operators take *)
(* the tracker and the time; the mutex makes each of them one step.        *)
(***************************************************************************)
EXTENDS Naturals, Sequences, SequencesExt

CONSTANTS
  Window,        \* errorRateWindow
  Threshold,     \* errorRateThreshold, in percent
  MinFailures,   \* errorRateMinFailures
  Cooldown       \* errorRateLivenessCooldown

ASSUME ErrorRateAssumption ==
  Window \in Nat /\ Threshold \in Nat /\ MinFailures \in Nat /\ Cooldown \in Nat

NewErrorRateTracker == [events |-> <<>>, last |-> {}]

isFailureStatus(code) == code \in 500..599

(* The events before the first one of the window are dropped. *)
prune(tracker, now) ==
  LET recent == {i \in DOMAIN tracker.events : tracker.events[i].at + Window > now}
  IN  [tracker EXCEPT !.events = IF recent = {} THEN <<>> ELSE SubSeq(@, Min(recent), Len(@))]

(* Mutant of Record: an answer is filed under the time at which it expires. *)
MutRecord(tracker, now, status) ==
  [prune(tracker, now) EXCEPT
     !.events = Append(@, [at |-> now + Window, failure |-> isFailureStatus(status)])]

Record(tracker, now, status) ==
  [prune(tracker, now) EXCEPT
     !.events = Append(@, [at |-> now, failure |-> isFailureStatus(status)])]

(* The rate is exceeded by at least MinFailures failures. *)
Exceeded(tracker, now) ==
  LET events == prune(tracker, now).events
      failures == Len(SelectSeq(events, LAMBDA e : e.failure))
  IN  events # <<>> /\ failures >= MinFailures /\ failures * 100 > Threshold * Len(events)

(* The tracker after an evaluation: an unhealthy one is remembered. *)
evaluateLocked(tracker, now) ==
  IF Exceeded(tracker, now) THEN [prune(tracker, now) EXCEPT !.last = {now}]
  ELSE prune(tracker, now)

Healthy(tracker, now) == ~Exceeded(tracker, now)

(* Mutant of HealthyWithinCooldown: the latch is open at its last instant. *)
MutHealthyWithinCooldown(tracker, now) ==
  Healthy(tracker, now) /\ \A l \in tracker.last : now - l >= Cooldown

HealthyWithinCooldown(tracker, now) ==
  Healthy(tracker, now) /\ \A l \in tracker.last : now - l > Cooldown
=============================================================================
