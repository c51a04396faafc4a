--------------------------- MODULE FileLock_proofs ---------------------------
(***************************************************************************)
(* Theorems about the lock file: its state has the right types, and in a   *)
(* calm run the lock is held by at most one process, whose timestamp no    *)
(* other can take for stale.  The latter needs that nobody has died or     *)
(* that there are at most two processes: of three, two may both find the   *)
(* lock of the dead one stale, and the slower of them then removes the new *)
(* lock of the other.                                                      *)
(***************************************************************************)
EXTENDS FileLock, FiniteSetTheorems, TLAPS

-----------------------------------------------------------------------------
(* The inductive invariant *)

NobodyDead == \A p \in Proc : pc[p] # "dead"

AtMostTwo == \A p, q, r \in Proc : p = q \/ q = r \/ p = r

Quiet == calm /\ (NobodyDead \/ AtMostTwo)

(* Only a process in its critical section has a refresh goroutine. *)
RefresherOfHolder == \A p \in Proc : refresher[p] # "off" => pc[p] = "held"

(* The file is that of the process between its creation and its release.   *)
FileOfOwner ==
  \A p \in Proc : pc[p] \in {"write", "held"} =>
    \E f \in file : f.by = p /\ (f.written <=> pc[p] = "held")

(* A file belongs to such a process or to one that died as one. *)
OwnerOfFile == \A f \in file : pc[f.by] \in {"write", "held", "dead"}

(* The age of the timestamp counts from the last refresh. *)
AgeSinceRefresh == \A f \in file : pc[f.by] = "held" => f.age <= due[f.by]

(* A refresh that has begun carries the current time. *)
StampIsNow == \A p \in Proc : refresher[p] \in {"verify", "rename"} => stamp[p] = 0

(* The goroutine ends before the critical section only when cancelled. *)
StoppedWhenCancelled ==
  \A p \in Proc : pc[p] = "held" /\ refresher[p] = "off" => p \in cancelled

(* No refresh finds the lock lost, and none has failed. *)
NeverLost == \A p \in Proc : refresher[p] # "lost"

(* A lock is found stale only after a death. *)
StaleAfterDeath ==
  \A p \in Proc : pc[p] = "remove" \/ (pc[p] = "check" /\ Stale(seen[p])) => ~NobodyDead

QuietInv ==
  /\ FileOfOwner /\ OwnerOfFile /\ AgeSinceRefresh
  /\ StampIsNow /\ StoppedWhenCancelled /\ NeverLost /\ StaleAfterDeath

(* There is at most one lock file, in a form SMT can use. *)
SingleFile == \A f, g \in file : f = g

(* A process reads the lock of another only while it has a retry left. *)
RetryLeft == \A p \in Proc : pc[p] \in {"read", "check"} => retry[p] <= MaxRetry

BaseInv == TypeOK /\ SingleFile /\ RefresherOfHolder /\ RetryLeft

IInv == BaseInv /\ (Quiet => QuietInv)

-----------------------------------------------------------------------------
(* Helpers *)

LEMMA AtMostOneElement ==
  ASSUME NEW S, \A x, y \in S : x = y
  PROVE  Cardinality(S) \in Nat /\ Cardinality(S) <= 1
<1>1. CASE S = {}
  BY <1>1, FS_EmptySet
<1>2. CASE S # {}
  <2>1. PICK x \in S : TRUE
    BY <1>2
  <2>2. S = {x}
    BY <2>1
  <2> QED
    BY <2>2, FS_Singleton
<1> QED
  BY <1>1, <1>2

LEMMA MinOfTwo ==
  ASSUME NEW m \in Nat, NEW n \in Nat
  PROVE  Min({m, n}) = IF m <= n THEN m ELSE n
<1>1. \E x \in {m, n} : \A y \in {m, n} : x <= y
  OBVIOUS
<1>2. /\ Min({m, n}) \in {m, n}
      /\ \A y \in {m, n} : Min({m, n}) <= y
  BY <1>1 DEF Min
<1> QED
  BY <1>2

LEMMA OlderAge ==
  ASSUME NEW age \in Age
  PROVE  /\ Older(age) \in Age
         /\ Older(age) <= age + 1
<1>1. age + 1 \in Nat /\ StaleTimeout \in Nat
  BY FileLockAssumption DEF Age
<1> QED
  BY <1>1, MinOfTwo, FileLockAssumption DEF Older, Age

LEMMA DueAfterTick ==
  ASSUME NEW d \in 0..RefreshInterval
  PROVE  /\ Min({d + 1, RefreshInterval}) \in 0..RefreshInterval
         /\ d < RefreshInterval => Min({d + 1, RefreshInterval}) = d + 1
<1>1. d + 1 \in Nat /\ RefreshInterval \in Nat
  BY FileLockAssumption
<1> QED
  BY <1>1, MinOfTwo, FileLockAssumption

(* The ages of the records of the lock file. *)
LEMMA FileAfterWrite ==
  ASSUME TypeOK, NEW p \in Proc, Write(p), NEW g \in file'
  PROVE  \E f \in file :
           /\ g.by = f.by
           /\ f.by = p => g.written /\ g.age = 0
           /\ f.by # p => g = f
  BY DEF Write, TypeOK, LockFile

LEMMA FileAfterTick ==
  ASSUME TypeOK, Tick, NEW g \in file'
  PROVE  \E f \in file : /\ g.by = f.by
                         /\ g.written = f.written
                         /\ g.age = Older(f.age)
  BY DEF Tick, TypeOK, LockFile

-----------------------------------------------------------------------------
(* The invariant holds in the beginning *)

LEMMA InitInv == Init => IInv
<1> SUFFICES ASSUME Init PROVE IInv
  OBVIOUS
<1>1. TypeOK
  BY FS_EmptySet, FileLockAssumption DEF Init, TypeOK, Age, LockFile
<1> QED
  BY <1>1 DEF Init, IInv, BaseInv, SingleFile, RefresherOfHolder, QuietInv, FileOfOwner,
     OwnerOfFile, AgeSinceRefresh, StampIsNow, StoppedWhenCancelled, NeverLost,
     StaleAfterDeath, RetryLeft

(* The file stays one record, or none. *)
LEMMA FileTyped ==
  ASSUME BaseInv, [Next]_vars
  PROVE  /\ file' \in SUBSET LockFile /\ Cardinality(file') <= 1
         /\ SingleFile'
<1>1. file \in SUBSET LockFile /\ SingleFile
  BY DEF BaseInv, TypeOK
<1>2. file' \in SUBSET LockFile /\ SingleFile'
  <2>1. CASE file' = file
    BY <1>1, <2>1 DEF SingleFile
  <2>2. CASE file' = {}
    BY <2>2 DEF SingleFile
  <2>3. CASE \E p \in Proc : Create(p)
    <3>1. PICK p \in Proc : Create(p)
      BY <2>3
    <3>2. file' = file \/ file' = {[by |-> p, written |-> FALSE, age |-> 0]}
      BY <3>1 DEF Create
    <3>3. [by |-> p, written |-> FALSE, age |-> 0] \in LockFile
      BY FileLockAssumption DEF LockFile, Age
    <3> QED
      BY <1>1, <3>2, <3>3 DEF SingleFile
  <2>4. CASE \E p \in Proc : Write(p)
    <3>1. PICK p \in Proc : Write(p)
      BY <2>4
    <3>2. \A f \in file :
            LET g == IF f.by = p THEN [f EXCEPT !.written = TRUE, !.age = 0] ELSE f
            IN  g \in LockFile
      <4> TAKE f \in file
      <4>1. f \in LockFile /\ 0 \in Age /\ TRUE \in BOOLEAN
        BY <1>1, FileLockAssumption DEF Age
      <4>2. [f EXCEPT !.written = TRUE] \in LockFile
        BY <4>1 DEF LockFile
      <4>3. [[f EXCEPT !.written = TRUE] EXCEPT !.age = 0] \in LockFile
        BY <4>1, <4>2 DEF LockFile
      <4>4. [f EXCEPT !.written = TRUE, !.age = 0]
              = [[f EXCEPT !.written = TRUE] EXCEPT !.age = 0]
        BY <4>1 DEF LockFile
      <4> QED
        BY <4>1, <4>3, <4>4
    <3>3. file' = {IF f.by = p THEN [f EXCEPT !.written = TRUE, !.age = 0] ELSE f : f \in file}
      BY <3>1 DEF Write
    <3>4. file' \in SUBSET LockFile
      BY <3>2, <3>3
    <3> QED
      BY <1>1, <3>3, <3>4 DEF SingleFile
  <2>5. CASE \E p \in Proc : RefreshRename(p)
    BY <1>1, <2>5, FileLockAssumption DEF BaseInv, TypeOK, RefreshRename, SingleFile, LockFile
  <2>6. CASE Tick
    BY <1>1, <2>6, OlderAge DEF Tick, SingleFile, LockFile
  <2>7. \A p \in Proc :
          /\ AcquireStep(p) => Create(p) \/ Write(p) \/ file' = file \/ file' = {}
          /\ RefreshStep(p) => RefreshRename(p) \/ file' = file \/ file' = {}
    BY DEF AcquireStep, RefreshStep, ReturnError, WriteFails, Read, Check, Remove, RemoveFails,
           RefreshStart, RefreshVerify, RefreshGivesUp, RefreshStop, ReadFails
  <2> QED
    BY <2>1, <2>2, <2>3, <2>4, <2>5, <2>6, <2>7
    DEF Next, vars, StartAcquire, Cancel, RefreshFails, Release, ReleaseFails, Crash, Restart
<1> QED
  BY <1>2, AtMostOneElement DEF SingleFile

(* The other variables keep their types. *)
OthersTyped ==
  /\ pc \in [Proc -> {"idle", "try", "write", "read", "check", "remove", "sleep",
                      "held", "dead"}]
  /\ retry \in [Proc -> 0..(MaxRetry + 1)]
  /\ seen \in [Proc -> Age]
  /\ refresher \in [Proc -> {"off", "wait", "verify", "rename", "lost"}]
  /\ due \in [Proc -> 0..RefreshInterval]
  /\ stamp \in [Proc -> Age]
  /\ cancelled \in SUBSET Proc
  /\ faults \in 0..MaxFaults

LEMMA AcquireTyped ==
  ASSUME BaseInv, NEW p \in Proc, StartAcquire(p) \/ Cancel(p) \/ AcquireStep(p)
  PROVE  OthersTyped' /\ RefresherOfHolder' /\ RetryLeft'
<1> USE FileLockAssumption
<1> USE DEF BaseInv, TypeOK, OthersTyped, RefresherOfHolder, RetryLeft, acquire, refresh, Goto,
        Refresher, Fault
<1>1. CASE StartAcquire(p)
  BY <1>1 DEF StartAcquire
<1>2. CASE Cancel(p)
  BY <1>2 DEF Cancel
<1>3. CASE ReturnError(p)
  BY <1>3 DEF ReturnError
<1>4. CASE Create(p)
  BY <1>4 DEF Create, Exhausted
<1>5. CASE Write(p)
  <2>1. /\ pc[p] = "write"
        /\ pc' = [pc EXCEPT ![p] = "held"]
        /\ refresher' = [refresher EXCEPT ![p] = "wait"]
        /\ due' = [due EXCEPT ![p] = 0]
        /\ UNCHANGED <<retry, seen, stamp, cancelled, faults>>
    BY <1>5 DEF Write
  <2> QED
    BY <2>1
<1>6. CASE WriteFails(p)
  BY <1>6 DEF WriteFails
<1>7. CASE Read(p)
  <2>1. \A f \in file : f.age \in Age
    BY DEF LockFile
  <2>2. seen' \in [Proc -> Age]
    BY <1>7, <2>1 DEF Read, WaitForRetry
  <2>3. /\ retry' \in [Proc -> 0..(MaxRetry + 1)]
        /\ retry[p] <= MaxRetry
        /\ \A q \in Proc \ {p} : retry'[q] = retry[q]
        /\ pc'[p] = "check" => retry'[p] = retry[p]
    BY <1>7 DEF Read, WaitForRetry
  <2>4. /\ pc' \in [Proc -> {"idle", "try", "write", "read", "check", "remove", "sleep",
                            "held", "dead"}]
        /\ pc[p] = "read" /\ pc'[p] \in {"try", "sleep", "check"}
        /\ \A q \in Proc \ {p} : pc'[q] = pc[q]
    BY <1>7 DEF Read, WaitForRetry
  <2> QED
    BY <1>7, <2>2, <2>3, <2>4 DEF Read
<1>8. CASE Check(p)
  BY <1>8 DEF Check, WaitForRetry
<1>9. CASE Remove(p)
  BY <1>9 DEF Remove
<1>10. CASE RemoveFails(p)
  BY <1>10 DEF RemoveFails
<1>11. CASE ReadFails(p)
  BY <1>11 DEF ReadFails
<1> QED
  BY <1>1, <1>2, <1>3, <1>4, <1>5, <1>6, <1>7, <1>8, <1>9, <1>10, <1>11 DEF AcquireStep

LEMMA OtherStepsTyped ==
  ASSUME BaseInv, NEW p \in Proc,
         RefreshStep(p) \/ RefreshFails(p) \/ Release(p) \/ ReleaseFails(p)
           \/ Crash(p) \/ Restart(p)
  PROVE  OthersTyped' /\ RefresherOfHolder' /\ RetryLeft'
<1> USE FileLockAssumption
<1> USE DEF BaseInv, TypeOK, OthersTyped, RefresherOfHolder, RetryLeft, acquire, refresh, Goto,
        Refresher, Fault
<1>1. CASE RefreshStart(p)
  BY <1>1 DEF RefreshStart, Age
<1>2. CASE RefreshVerify(p)
  BY <1>2 DEF RefreshVerify
<1>3. CASE RefreshRename(p)
  BY <1>3 DEF RefreshRename
<1>4. CASE RefreshStop(p)
  BY <1>4 DEF RefreshStop
<1>5. CASE RefreshFails(p)
  BY <1>5 DEF RefreshFails
<1>6. CASE Release(p)
  BY <1>6 DEF Release
<1>7. CASE ReleaseFails(p)
  BY <1>7 DEF ReleaseFails
<1>8. CASE Crash(p)
  BY <1>8 DEF Crash
<1>9. CASE Restart(p)
  BY <1>9 DEF Restart
<1>10. CASE RefreshGivesUp(p)
  BY <1>10 DEF RefreshGivesUp
<1> QED
  BY <1>1, <1>2, <1>3, <1>4, <1>5, <1>6, <1>7, <1>8, <1>9, <1>10 DEF RefreshStep

LEMMA TickTyped ==
  ASSUME BaseInv, Tick
  PROVE  OthersTyped' /\ RefresherOfHolder' /\ RetryLeft'
<1>1. seen' \in [Proc -> Age] /\ stamp' \in [Proc -> Age]
  BY OlderAge DEF Tick, BaseInv, TypeOK
<1>2. due' \in [Proc -> 0..RefreshInterval]
  BY DueAfterTick DEF Tick, BaseInv, TypeOK
<1>3. faults' \in 0..MaxFaults
  BY FileLockAssumption DEF Tick, Fault, BaseInv, TypeOK
<1> QED
  BY <1>1, <1>2, <1>3 DEF Tick, BaseInv, TypeOK, OthersTyped, RefresherOfHolder, RetryLeft

LEMMA CalmTyped ==
  ASSUME BaseInv, [Next]_vars
  PROVE  calm' \in BOOLEAN
<1>1. calm \in BOOLEAN
  BY DEF BaseInv, TypeOK
<1>2. calm' = calm \/ calm' = FALSE
  <2>1. CASE Tick
    BY <2>1 DEF Tick
  <2>2. CASE UNCHANGED vars
    BY <2>2 DEF vars
  <2>3. ASSUME NEW q \in Proc, StartAcquire(q) \/ Cancel(q) \/ AcquireStep(q)
        PROVE  calm' = calm
    BY <2>3 DEF StartAcquire, Cancel, AcquireStep, ReturnError, Create, Write, WriteFails, Read,
       ReadFails, Check, Remove, RemoveFails
  <2>4. ASSUME NEW q \in Proc, RefreshStep(q) \/ RefreshFails(q)
        PROVE  calm' = calm \/ calm' = FALSE
    BY <2>4 DEF RefreshStep, RefreshStart, RefreshVerify, RefreshRename, RefreshGivesUp,
       RefreshStop, RefreshFails
  <2>5. ASSUME NEW q \in Proc, Release(q) \/ ReleaseFails(q) \/ Crash(q) \/ Restart(q)
        PROVE  calm' = calm \/ calm' = FALSE
    BY <2>5 DEF Release, ReleaseFails, Crash, Restart
  <2> QED
    BY <2>1, <2>2, <2>3, <2>4, <2>5 DEF Next
<1> QED
  BY <1>1, <1>2

LEMMA NextBase ==
  ASSUME BaseInv, [Next]_vars
  PROVE  BaseInv'
<1>1. OthersTyped' /\ RefresherOfHolder' /\ RetryLeft'
  <2>1. CASE UNCHANGED vars
    BY <2>1 DEF BaseInv, TypeOK, OthersTyped, RefresherOfHolder, RetryLeft, vars, acquire, refresh
  <2>2. CASE Tick
    BY <2>2, TickTyped
  <2> QED
    BY <2>1, <2>2, AcquireTyped, OtherStepsTyped DEF Next
<1> QED
  BY <1>1, FileTyped, CalmTyped DEF BaseInv, TypeOK, OthersTyped

-----------------------------------------------------------------------------
(* The lock of a quiet run *)

(* Nobody comes back from the dead in a calm run. *)
LEMMA QuietBefore ==
  ASSUME BaseInv, [Next]_vars, Quiet'
  PROVE  /\ Quiet
         /\ \A p \in Proc : pc[p] = "dead" => pc'[p] = "dead"
<1>1. calm /\ \A p \in Proc : pc[p] = "dead" => pc'[p] = "dead"
  <2> USE DEF BaseInv, TypeOK, Quiet, Goto
  <2>1. CASE Tick
    BY <2>1 DEF Tick
  <2>2. CASE UNCHANGED vars
    BY <2>2 DEF vars, acquire
  <2>3. ASSUME NEW q \in Proc, StartAcquire(q) \/ Cancel(q) \/ AcquireStep(q)
        PROVE  calm /\ \A p \in Proc : pc[p] = "dead" => pc'[p] = "dead"
    BY <2>3 DEF StartAcquire, Cancel, AcquireStep, ReturnError, Create, Write, WriteFails, Read,
       ReadFails, Check, Remove, RemoveFails, WaitForRetry, acquire
  <2>4. ASSUME NEW q \in Proc, RefreshStep(q) \/ RefreshFails(q)
        PROVE  calm /\ \A p \in Proc : pc[p] = "dead" => pc'[p] = "dead"
    BY <2>4 DEF RefreshStep, RefreshStart, RefreshVerify, RefreshRename, RefreshGivesUp,
       RefreshStop, RefreshFails, acquire
  <2>5. ASSUME NEW q \in Proc, Release(q) \/ ReleaseFails(q) \/ Crash(q) \/ Restart(q)
        PROVE  calm /\ \A p \in Proc : pc[p] = "dead" => pc'[p] = "dead"
    BY <2>5 DEF Release, ReleaseFails, Crash, Restart
  <2> QED
    BY <2>1, <2>2, <2>3, <2>4, <2>5 DEF Next
<1> QED
  BY <1>1 DEF Quiet, NobodyDead

(* Of two processes at most one is not dead when somebody is. *)
LEMMA OnlyOneAlive ==
  ASSUME Quiet, ~NobodyDead,
         NEW p \in Proc, NEW q \in Proc, pc[p] # "dead", pc[q] # "dead"
  PROVE  p = q
  BY DEF Quiet, NobodyDead, AtMostTwo

(* Two processes never own the lock at once. *)
LEMMA OneOwner ==
  ASSUME BaseInv, FileOfOwner, NEW p \in Proc, NEW q \in Proc,
         pc[p] \in {"write", "held"}, pc[q] \in {"write", "held"}
  PROVE  p = q
  BY DEF BaseInv, SingleFile, FileOfOwner

(* The steps of Acquire. *)
LEMMA AcquireQuiet ==
  ASSUME BaseInv, BaseInv', Quiet, QuietInv, NEW p \in Proc,
         StartAcquire(p) \/ Cancel(p) \/ AcquireStep(p)
  PROVE  QuietInv'
<1> USE FileLockAssumption
<1> USE DEF BaseInv, TypeOK, RefresherOfHolder, QuietInv, FileOfOwner, OwnerOfFile,
        AgeSinceRefresh, StampIsNow, StoppedWhenCancelled, NeverLost, StaleAfterDeath, NobodyDead,
        SingleFile, acquire, refresh, Goto, Refresher, Fault, LockFile
<1>1. CASE StartAcquire(p)
  BY <1>1 DEF StartAcquire
<1>2. CASE Cancel(p)
  BY <1>2 DEF Cancel
<1>3. CASE ReturnError(p)
  BY <1>3 DEF ReturnError
<1>4. CASE Create(p)
  <2>1. CASE file # {}
    BY <1>4, <2>1 DEF Create
  <2>2. CASE file = {}
    <3>1. /\ pc[p] = "try" /\ pc' = [pc EXCEPT ![p] = "write"]
          /\ UNCHANGED <<seen, refresher, due, stamp, cancelled>>
      BY <1>4, <2>2 DEF Create
    <3>2. \E f \in file' : f.by = p /\ f.written = FALSE
      <4>1. file' = {[by |-> p, written |-> FALSE, age |-> 0]}
        BY <1>4, <2>2 DEF Create
      <4> HIDE DEF BaseInv, QuietInv
      <4> QED
        BY <4>1
    <3>3. \A f \in file' : f.by = p
      BY <1>4, <2>2 DEF Create
    <3> QED
      BY <2>2, <3>1, <3>2, <3>3
  <2> QED
    BY <2>1, <2>2
<1>5. CASE Write(p)
  <2>1. /\ pc[p] = "write"
        /\ pc' = [pc EXCEPT ![p] = "held"]
        /\ refresher' = [refresher EXCEPT ![p] = "wait"]
        /\ due' = [due EXCEPT ![p] = 0]
        /\ UNCHANGED <<seen, stamp, cancelled>>
    BY <1>5 DEF Write
  <2>2. \A g \in file' : g.by = p /\ g.written /\ g.age = 0
    <3>1. \A f \in file : f.by = p
      BY <2>1
    <3>2. TypeOK
      BY DEF BaseInv
    <3> HIDE DEF BaseInv, TypeOK, QuietInv, LockFile
    <3> TAKE g \in file'
    <3>3. PICK f \in file : /\ g.by = f.by
                            /\ f.by = p => g.written /\ g.age = 0
      BY <1>5, <3>2, FileAfterWrite
    <3> QED
      BY <3>1, <3>3
  <2>3. file' # {}
    <3>1. file # {}
      BY <2>1
    <3>2. file' = {IF f.by = p THEN [f EXCEPT !.written = TRUE, !.age = 0] ELSE f : f \in file}
      BY <1>5 DEF Write
    <3> HIDE DEF BaseInv, TypeOK, QuietInv, LockFile
    <3> QED
      BY <3>1, <3>2
  <2>4. \A q \in Proc : pc[q] \in {"write", "held"} => q = p
    BY <2>1, OneOwner
  <2> QED
    BY <2>1, <2>2, <2>3, <2>4
<1>6. CASE WriteFails(p)
  BY <1>6, OneOwner DEF WriteFails
<1>7. CASE Read(p)
  <2>1. /\ pc[p] = "read"
        /\ pc' = [pc EXCEPT ![p] = pc'[p]]
        /\ pc'[p] \in {"try", "sleep", "check"}
        /\ \A q \in Proc \ {p} : seen'[q] = seen[q]
        /\ UNCHANGED <<file, refresher, due, stamp, cancelled>>
    BY <1>7 DEF Read, WaitForRetry
  <2>2. ASSUME pc'[p] = "check", Stale(seen'[p])
        PROVE  ~NobodyDead
    <3>1. PICK f \in file : f.written /\ seen'[p] = f.age
      BY <1>7, <2>2 DEF Read, WaitForRetry
    <3>2. pc[f.by] # "write"
      BY <3>1
    <3>3. pc[f.by] # "held"
      BY <2>2, <3>1 DEF Stale, Age
    <3> QED
      BY <3>2, <3>3
  <2>3. NobodyDead' => NobodyDead
    BY <2>1
  <2> QED
    BY <2>1, <2>2, <2>3
<1>8. CASE Check(p)
  BY <1>8 DEF Check, WaitForRetry
<1>9. CASE Remove(p)
  BY <1>9, OnlyOneAlive DEF Remove
<1>10. CASE RemoveFails(p)
  BY <1>10 DEF RemoveFails
<1>11. CASE ReadFails(p)
  BY <1>11 DEF ReadFails
<1> QED
  BY <1>1, <1>2, <1>3, <1>4, <1>5, <1>6, <1>7, <1>8, <1>9, <1>10, <1>11 DEF AcquireStep

LEMMA OtherStepsQuiet ==
  ASSUME BaseInv, BaseInv', Quiet, Quiet', QuietInv, NEW p \in Proc,
         RefreshStep(p) \/ RefreshFails(p) \/ Release(p) \/ ReleaseFails(p)
           \/ Crash(p) \/ Restart(p)
  PROVE  QuietInv'
<1> USE FileLockAssumption
<1> USE DEF BaseInv, TypeOK, RefresherOfHolder, QuietInv, FileOfOwner, OwnerOfFile,
        AgeSinceRefresh, StampIsNow, StoppedWhenCancelled, NeverLost, StaleAfterDeath, NobodyDead,
        SingleFile, acquire, refresh, Goto, Refresher, Fault, LockFile
<1>1. CASE RefreshStart(p)
  BY <1>1 DEF RefreshStart
<1>2. CASE RefreshVerify(p)
  BY <1>2 DEF RefreshVerify
<1>3. CASE RefreshRename(p)
  BY <1>3 DEF RefreshRename
<1>4. CASE RefreshStop(p)
  BY <1>4 DEF RefreshStop
<1>5. CASE RefreshFails(p)
  BY <1>5 DEF RefreshFails, Quiet
<1>6. CASE Release(p)
  BY <1>6, OneOwner DEF Release
<1>7. CASE ReleaseFails(p)
  BY <1>7 DEF ReleaseFails, Quiet
<1>8. CASE Crash(p)
  BY <1>8 DEF Crash
<1>9. CASE Restart(p)
  BY <1>9 DEF Restart, Quiet
<1>10. CASE RefreshGivesUp(p)
  BY <1>10 DEF RefreshGivesUp
<1> QED
  BY <1>1, <1>2, <1>3, <1>4, <1>5, <1>6, <1>7, <1>8, <1>9, <1>10 DEF RefreshStep

LEMMA TickQuiet ==
  ASSUME BaseInv, BaseInv', Quiet, Quiet', QuietInv, Tick
  PROVE  QuietInv'
<1>1. \A p \in Proc : ~Busy(p)
  BY DEF Tick, Quiet
<1>2. /\ \A p \in Proc : pc'[p] = IF pc[p] = "sleep" THEN "try" ELSE pc[p]
      /\ UNCHANGED <<refresher, cancelled>>
  BY DEF Tick, BaseInv, TypeOK
<1>3. NobodyDead' <=> NobodyDead
  BY <1>2 DEF NobodyDead
<1>4. FileOfOwner'
  <2> SUFFICES ASSUME NEW p \in Proc, pc'[p] \in {"write", "held"}
               PROVE  \E g \in file' : g.by = p /\ (g.written <=> pc'[p] = "held")
    BY DEF FileOfOwner
  <2>1. pc'[p] = pc[p]
    BY <1>2
  <2>2. PICK f \in file : f.by = p /\ (f.written <=> pc[p] = "held")
    BY <2>1 DEF QuietInv, FileOfOwner
  <2>3. f \in LockFile /\ [f EXCEPT !.age = Older(@)] \in file'
    BY DEF Tick, BaseInv, TypeOK
  <2> QED
    BY <2>1, <2>2, <2>3 DEF LockFile
<1>5. OwnerOfFile'
  BY <1>2, FileAfterTick DEF BaseInv, QuietInv, OwnerOfFile, TypeOK, LockFile
<1>6. AgeSinceRefresh'
  <2> SUFFICES ASSUME NEW g \in file', pc'[g.by] = "held" PROVE g.age <= due'[g.by]
    BY DEF AgeSinceRefresh
  <2>1. PICK f \in file : g.by = f.by /\ g.age = Older(f.age)
    BY FileAfterTick DEF BaseInv
  <2>2. f \in LockFile /\ f.by \in Proc /\ f.age \in Age /\ f.age \in Nat
    BY DEF BaseInv, TypeOK, LockFile, Age
  <2>3. pc[f.by] = "held" /\ f.age <= due[f.by]
    BY <1>2, <2>1, <2>2 DEF QuietInv, AgeSinceRefresh
  <2>4. due[f.by] \in 0..RefreshInterval /\ due[f.by] # RefreshInterval
    BY <1>1, <2>2, <2>3 DEF Busy, BaseInv, TypeOK, QuietInv, StoppedWhenCancelled
  <2>5. due'[f.by] = due[f.by] + 1
    <3>1. due[f.by] < RefreshInterval
      BY <2>4, FileLockAssumption
    <3>2. due'[f.by] = Min({due[f.by] + 1, RefreshInterval})
      BY <2>2 DEF Tick
    <3> QED
      BY <2>4, <3>1, <3>2, DueAfterTick
  <2>6. Older(f.age) <= f.age + 1 /\ Older(f.age) \in Nat
    BY <2>2, OlderAge DEF Age
  <2> QED
    BY <2>1, <2>2, <2>3, <2>4, <2>5, <2>6
<1>7. StampIsNow'
  BY <1>1, <1>2 DEF Busy, StampIsNow
<1>8. StoppedWhenCancelled'
  BY <1>2 DEF QuietInv, StoppedWhenCancelled
<1>9. StaleAfterDeath'
  BY <1>1, <1>2 DEF Busy, StaleAfterDeath
<1>10. NeverLost'
  BY <1>2 DEF QuietInv, NeverLost
<1> QED
  BY <1>4, <1>5, <1>6, <1>7, <1>8, <1>9, <1>10 DEF QuietInv

LEMMA NextInv ==
  ASSUME IInv, [Next]_vars
  PROVE  IInv'
<1>1. BaseInv /\ BaseInv'
  BY NextBase DEF IInv
<1>2. ASSUME Quiet' PROVE QuietInv'
  <2>1. Quiet /\ QuietInv
    BY <1>1, <1>2, QuietBefore DEF IInv
  <2>2. CASE UNCHANGED vars
    BY <2>1, <2>2 DEF vars, acquire, refresh, QuietInv, FileOfOwner, OwnerOfFile,
       AgeSinceRefresh, StampIsNow, StoppedWhenCancelled, NeverLost, StaleAfterDeath, NobodyDead
  <2>3. CASE Tick
    BY <1>1, <1>2, <2>1, <2>3, TickQuiet
  <2>4. CASE \E p \in Proc : StartAcquire(p) \/ Cancel(p) \/ AcquireStep(p)
    BY <1>1, <2>1, <2>4, AcquireQuiet
  <2>5. CASE \E p \in Proc : \/ RefreshStep(p) \/ RefreshFails(p) \/ Release(p)
                            \/ ReleaseFails(p) \/ Crash(p) \/ Restart(p)
    BY <1>1, <1>2, <2>1, <2>5, OtherStepsQuiet
  <2> QED
    BY <2>2, <2>3, <2>4, <2>5 DEF Next
<1> QED
  BY <1>1, <1>2 DEF IInv

THEOREM Invariant == Spec => []IInv
<1>1. IInv /\ [Next]_vars => IInv'
  BY NextInv
<1> QED
  BY InitInv, <1>1, PTL DEF Spec

-----------------------------------------------------------------------------
(* The theorems *)

(* The state of the lock file and of its processes has the declared types: *)
(* there is never more than one lock file, and no process waits for a lock *)
(* more often than maxRetry allows.                                        *)
THEOREM TypesOfLock == Spec => []TypeOK
  BY Invariant, PTL DEF IInv, BaseInv

LEMMA QuietImplies ==
  ASSUME IInv, NobodyDead \/ AtMostTwo
  PROVE  MutexWhenCalm /\ HolderIsFresh
<1> SUFFICES ASSUME calm PROVE Cardinality(Holders) <= 1
               /\ \A p \in Holders : \E f \in file : f.by = p /\ f.written /\ ~Stale(f.age)
  BY DEF MutexWhenCalm, HolderIsFresh
<1>1. BaseInv /\ QuietInv
  BY DEF IInv, Quiet
<1>2. \A p, q \in Holders : p = q
  BY <1>1, OneOwner DEF Holders, QuietInv
<1>3. ASSUME NEW p \in Holders
      PROVE  \E f \in file : f.by = p /\ f.written /\ ~Stale(f.age)
  <2>1. p \in Proc /\ pc[p] = "held"
    BY DEF Holders
  <2>2. PICK f \in file : f.by = p /\ f.written
    BY <1>1, <2>1 DEF QuietInv, FileOfOwner
  <2>3. f.age <= due[p] /\ f.age \in Nat /\ due[p] \in 0..RefreshInterval
    BY <1>1, <2>1, <2>2 DEF QuietInv, AgeSinceRefresh, BaseInv, TypeOK, LockFile, Age
  <2>4. ~Stale(f.age)
    BY <2>3, FileLockAssumption DEF Stale
  <2> QED
    BY <2>2, <2>4
<1> QED
  BY <1>2, <1>3, AtMostOneElement

(* However many processes share the volume, as long as none of them dies   *)
(* and the run is calm, the lock has one holder, and the file is its own   *)
(* and too young to be removed.                                            *)
THEOREM LockWithoutDeaths ==
  Spec => []((\A p \in Proc : pc[p] # "dead") => MutexWhenCalm /\ HolderIsFresh)
<1>1. IInv => ((\A p \in Proc : pc[p] # "dead") => MutexWhenCalm /\ HolderIsFresh)
  BY QuietImplies DEF NobodyDead
<1> QED
  BY Invariant, <1>1, PTL

(* Two processes keep mutual exclusion also when one dies and leaves its   *)
(* lock behind: the other is alone when it takes the stale lock over.      *)
THEOREM LockOfTwo ==
  ASSUME AtMostTwo
  PROVE  Spec => [](MutexWhenCalm /\ HolderIsFresh)
<1>1. IInv => MutexWhenCalm /\ HolderIsFresh
  BY QuietImplies
<1> QED
  BY Invariant, <1>1, PTL
=============================================================================
