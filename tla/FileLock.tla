------------------------------- MODULE FileLock -------------------------------
(***************************************************************************)
(* The lock file of src/app/utils/lock/filelock.go: processes that share a *)
(* volume create it with O_EXCL, keep its timestamp fresh from a           *)
(* background goroutine while they hold it, and remove it when its         *)
(* timestamp is stale.  Every file operation is a step of its own.         *)
(*                                                                         *)
(* Time is counted in ticks and kept as ages, which stop growing at        *)
(* StaleTimeout.  A tick passes only when nobody is in the middle of an    *)
(* operation or late with a refresh, except that a process may be paused   *)
(* there, which counts as a fault.                                         *)
(***************************************************************************)
EXTENDS Naturals, FiniteSets, FiniteSetsExt

CONSTANTS
  Proc,             \* the processes (host name and pid)
  StaleTimeout,     \* staleTimeout, in ticks
  RefreshInterval,  \* refreshInterval, in ticks
  MaxRetry,         \* maxRetry
  MaxFaults         \* bound: crashes, restarts, pauses, cancellations, failing calls

ASSUME FileLockAssumption ==
  /\ RefreshInterval \in Nat \ {0}
  /\ StaleTimeout \in Nat /\ StaleTimeout > RefreshInterval
  /\ MaxRetry \in Nat
  /\ MaxFaults \in Nat

VARIABLES
  file,       \* the lock file: none, or one record
  pc,         \* where each process is in Acquire; "held" after it
  retry,      \* the retries of the running Acquire
  seen,       \* the age of the timestamp Acquire has read
  refresher,  \* where the refresh goroutine is
  due,        \* ticks since its last refresh
  stamp,      \* the age of the timestamp in its temporary file
  cancelled,  \* processes whose context is cancelled
  faults,     \* how many faults have happened
  calm        \* history: no restart, pause, failed refresh or release yet

acquire == <<pc, retry, seen>>
refresh == <<refresher, due, stamp>>
vars == <<file, acquire, refresh, cancelled, faults, calm>>

Age == 0..StaleTimeout

(* A lock file: who created or last replaced it, whether its content has   *)
(* been written, and the age of the timestamp in it.                       *)
LockFile == [by: Proc, written: BOOLEAN, age: Age]

TypeOK ==
  /\ file \in SUBSET LockFile /\ Cardinality(file) <= 1
  /\ pc \in [Proc -> {"idle", "try", "write", "read", "check", "remove", "sleep",
                      "held", "dead"}]
  /\ retry \in [Proc -> 0..(MaxRetry + 1)]
  /\ seen \in [Proc -> Age]
  /\ refresher \in [Proc -> {"off", "wait", "verify", "rename", "lost"}]
  /\ due \in [Proc -> 0..RefreshInterval]
  /\ stamp \in [Proc -> Age]
  /\ cancelled \in SUBSET Proc
  /\ faults \in 0..MaxFaults
  /\ calm \in BOOLEAN

Init ==
  /\ file = {}
  /\ pc = [p \in Proc |-> "idle"]
  /\ retry = [p \in Proc |-> 0]
  /\ seen = [p \in Proc |-> 0]
  /\ refresher = [p \in Proc |-> "off"]
  /\ due = [p \in Proc |-> 0]
  /\ stamp = [p \in Proc |-> 0]
  /\ cancelled = {}
  /\ faults = 0
  /\ calm = TRUE

-----------------------------------------------------------------------------
(* Helpers *)

Fault == faults < MaxFaults /\ faults' = faults + 1

Goto(p, l) == pc' = [pc EXCEPT ![p] = l]

Refresher(p, l) == refresher' = [refresher EXCEPT ![p] = l]

Older(age) == Min({age + 1, StaleTimeout})

(* time.Since(timestamp) >= staleTimeout *)
Stale(age) == age >= StaleTimeout

-----------------------------------------------------------------------------
(* Acquire *)

StartAcquire(p) ==
  /\ pc[p] = "idle"
  /\ Goto(p, "try")
  /\ retry' = [retry EXCEPT ![p] = 0]
  /\ UNCHANGED <<file, seen, refresh, cancelled, faults, calm>>

(* The context is cancelled (shutdown); the next Acquire has another one. *)
Cancel(p) ==
  /\ pc[p] \in {"try", "sleep", "held"}
  /\ Fault
  /\ cancelled' = cancelled \cup {p}
  /\ UNCHANGED <<file, acquire, refresh, calm>>

Exhausted(p) == retry[p] > MaxRetry

(* Acquire returns ErrLockContextCancelled or ErrMaxRetryExceeded. *)
ReturnError(p) ==
  /\ pc[p] = "try"
  /\ p \in cancelled \/ Exhausted(p)
  /\ Goto(p, "idle")
  /\ cancelled' = cancelled \ {p}
  /\ UNCHANGED <<file, retry, seen, refresh, faults, calm>>

(* Mutant of Create: without O_EXCL an existing lock file is opened too. *)
MutCreate(p) ==
  /\ pc[p] = "try" /\ p \notin cancelled /\ ~Exhausted(p)
  /\ file' = {[by |-> p, written |-> FALSE, age |-> 0]}
  /\ Goto(p, "write")
  /\ UNCHANGED <<retry, seen, refresh, cancelled, faults, calm>>

(* os.OpenFile with O_CREATE and O_EXCL. *)
Create(p) ==
  /\ pc[p] = "try" /\ p \notin cancelled /\ ~Exhausted(p)
  /\ \/ /\ file = {}
        /\ file' = {[by |-> p, written |-> FALSE, age |-> 0]}
        /\ Goto(p, "write")
     \/ /\ file # {}
        /\ Goto(p, "read")
        /\ UNCHANGED file
  /\ UNCHANGED <<retry, seen, refresh, cancelled, faults, calm>>

(* writeLock fills the file p has created, unless somebody has removed it; *)
(* the refresh goroutine starts.                                           *)
Write(p) ==
  /\ pc[p] = "write"
  /\ file' = {IF f.by = p THEN [f EXCEPT !.written = TRUE, !.age = 0] ELSE f : f \in file}
  /\ Goto(p, "held")
  /\ Refresher(p, "wait")
  /\ due' = [due EXCEPT ![p] = 0]
  /\ UNCHANGED <<retry, seen, stamp, cancelled, faults, calm>>

(* writeLock fails: the path is removed and Acquire returns the error. *)
WriteFails(p) ==
  /\ pc[p] = "write"
  /\ Fault
  /\ file' = {}
  /\ Goto(p, "idle")
  /\ UNCHANGED <<retry, seen, refresh, cancelled, calm>>

(* The lock counts as valid: wait for the retry interval. *)
WaitForRetry(p) ==
  /\ Goto(p, "sleep")
  /\ retry' = [retry EXCEPT ![p] = @ + 1]

(* readLockContent: the file is gone, or not (yet) written, or it has a    *)
(* timestamp.                                                              *)
Read(p) ==
  /\ pc[p] = "read"
  /\ \/ file = {} /\ Goto(p, "try") /\ UNCHANGED <<retry, seen>>
     \/ \E f \in file : ~f.written /\ WaitForRetry(p) /\ UNCHANGED seen
     \/ \E f \in file : /\ f.written
                        /\ Goto(p, "check")
                        /\ seen' = [seen EXCEPT ![p] = f.age]
                        /\ UNCHANGED retry
  /\ UNCHANGED <<file, refresh, cancelled, faults, calm>>

(* The file cannot be read for another reason: Acquire returns the error.  *)
ReadFails(p) ==
  /\ pc[p] = "read"
  /\ Fault
  /\ Goto(p, "idle")
  /\ UNCHANGED <<file, retry, seen, refresh, cancelled, calm>>

Check(p) ==
  /\ pc[p] = "check"
  /\ \/ ~Stale(seen[p]) /\ WaitForRetry(p)
     \/ Stale(seen[p]) /\ Goto(p, "remove") /\ UNCHANGED retry
  /\ UNCHANGED <<file, seen, refresh, cancelled, faults, calm>>

(* Mutant of Remove: the stale file stays. *)
MutRemove(p) ==
  /\ pc[p] = "remove"
  /\ Goto(p, "try")
  /\ UNCHANGED <<file, retry, seen, refresh, cancelled, faults, calm>>

(* os.Remove takes whatever lock file there is by now. *)
Remove(p) ==
  /\ pc[p] = "remove"
  /\ file' = {}
  /\ Goto(p, "try")
  /\ UNCHANGED <<retry, seen, refresh, cancelled, faults, calm>>

(* os.Remove fails for another reason than a missing file. *)
RemoveFails(p) ==
  /\ pc[p] = "remove"
  /\ Fault
  /\ Goto(p, "idle")
  /\ UNCHANGED <<file, retry, seen, refresh, cancelled, calm>>

AcquireStep(p) ==
  \/ ReturnError(p) \/ Create(p) \/ Write(p) \/ WriteFails(p)
  \/ Read(p) \/ ReadFails(p) \/ Check(p) \/ Remove(p) \/ RemoveFails(p)

-----------------------------------------------------------------------------
(* The refresh goroutine *)

(* The ticker fires: the temporary file is written with the current time.  *)
(* The select may take the tick although the context is cancelled as well. *)
RefreshStart(p) ==
  /\ refresher[p] = "wait" /\ due[p] = RefreshInterval
  /\ Refresher(p, "verify")
  /\ stamp' = [stamp EXCEPT ![p] = 0]
  /\ UNCHANGED <<file, acquire, due, cancelled, faults, calm>>

(* The lock still belongs to this process, or it is lost. *)
RefreshVerify(p) ==
  /\ refresher[p] = "verify"
  /\ Refresher(p, IF \E f \in file : f.written /\ f.by = p THEN "rename" ELSE "lost")
  /\ UNCHANGED <<file, acquire, due, stamp, cancelled, faults, calm>>

(* Mutant of RefreshRename: the old timestamp stays. *)
MutRefreshRename(p) ==
  /\ refresher[p] = "rename"
  /\ Refresher(p, "wait")
  /\ due' = [due EXCEPT ![p] = 0]
  /\ UNCHANGED <<file, acquire, stamp, cancelled, faults, calm>>

RefreshRename(p) ==
  /\ refresher[p] = "rename"
  /\ file' = {[by |-> p, written |-> TRUE, age |-> stamp[p]]}
  /\ Refresher(p, "wait")
  /\ due' = [due EXCEPT ![p] = 0]
  /\ UNCHANGED <<acquire, stamp, cancelled, faults, calm>>

(* The temporary file cannot be created or written, or the rename fails. *)
RefreshFails(p) ==
  /\ refresher[p] \in {"verify", "rename"}
  /\ Fault
  /\ Refresher(p, "lost")
  /\ calm' = FALSE
  /\ UNCHANGED <<file, acquire, due, stamp, cancelled>>

(* After either error the goroutine removes the lock file, whoever owns it *)
(* by now, and ends, while the process goes on in its critical section.    *)
RefreshGivesUp(p) ==
  /\ refresher[p] = "lost"
  /\ file' = {}
  /\ Refresher(p, "off")
  /\ UNCHANGED <<acquire, due, stamp, cancelled, faults, calm>>

(* ctx.Done(): the goroutine ends. *)
RefreshStop(p) ==
  /\ refresher[p] = "wait" /\ p \in cancelled
  /\ Refresher(p, "off")
  /\ UNCHANGED <<file, acquire, due, stamp, cancelled, faults, calm>>

RefreshStep(p) ==
  \/ RefreshStart(p) \/ RefreshVerify(p) \/ RefreshRename(p)
  \/ RefreshGivesUp(p) \/ RefreshStop(p)

-----------------------------------------------------------------------------
(* Release *)

(* The goroutine is cancelled and waited for, and the path is removed. *)
Release(p) ==
  /\ pc[p] = "held" /\ refresher[p] \in {"off", "wait"}
  /\ file' = {}
  /\ Goto(p, "idle")
  /\ Refresher(p, "off")
  /\ cancelled' = cancelled \ {p}
  /\ UNCHANGED <<retry, seen, due, stamp, faults, calm>>

(* The removal fails; the error is logged and the file stays. *)
ReleaseFails(p) ==
  /\ pc[p] = "held" /\ refresher[p] \in {"off", "wait"}
  /\ Fault
  /\ Goto(p, "idle")
  /\ Refresher(p, "off")
  /\ cancelled' = cancelled \ {p}
  /\ calm' = FALSE
  /\ UNCHANGED <<file, retry, seen, due, stamp>>

-----------------------------------------------------------------------------
(* The environment *)

(* In the middle of an operation, late with a refresh, or holding the lock *)
(* with a cancelled context, which makes every request fail at once.       *)
Busy(p) ==
  \/ pc[p] \in {"try", "write", "read", "check", "remove"}
  \/ refresher[p] \in {"verify", "rename", "lost"}
  \/ refresher[p] = "wait" /\ due[p] = RefreshInterval
  \/ pc[p] = "held" /\ p \in cancelled

Tick ==
  /\ IF \E p \in Proc : Busy(p)
       THEN Fault /\ calm' = FALSE
       ELSE UNCHANGED <<faults, calm>>
  /\ file' = {[f EXCEPT !.age = Older(@)] : f \in file}
  /\ seen' = [p \in Proc |-> Older(seen[p])]
  /\ stamp' = [p \in Proc |-> Older(stamp[p])]
  /\ due' = [p \in Proc |-> Min({due[p] + 1, RefreshInterval})]
  /\ pc' = [p \in Proc |-> IF pc[p] = "sleep" THEN "try" ELSE pc[p]]
  /\ UNCHANGED <<retry, refresher, cancelled>>

Crash(p) ==
  /\ pc[p] # "dead"
  /\ Fault
  /\ Goto(p, "dead")
  /\ Refresher(p, "off")
  /\ cancelled' = cancelled \ {p}
  /\ UNCHANGED <<file, retry, seen, due, stamp, calm>>

Restart(p) ==
  /\ pc[p] = "dead"
  /\ Fault
  /\ Goto(p, "idle")
  /\ calm' = FALSE
  /\ UNCHANGED <<file, retry, seen, refresh, cancelled>>

-----------------------------------------------------------------------------
Next ==
  \/ \E p \in Proc :
       \/ StartAcquire(p) \/ Cancel(p) \/ AcquireStep(p)
       \/ RefreshStep(p) \/ RefreshFails(p)
       \/ Release(p) \/ ReleaseFails(p)
       \/ Crash(p) \/ Restart(p)
  \/ Tick

(* Acquire is called again and again (the ticker of the shipper), its loop *)
(* and the goroutines run, critical sections end, time passes.             *)
Fairness ==
  /\ \A p \in Proc : /\ WF_vars(StartAcquire(p))
                     /\ WF_vars(AcquireStep(p))
                     /\ WF_vars(RefreshStep(p))
                     /\ WF_vars(Release(p))
  /\ WF_vars(Tick)

Spec == Init /\ [][Next]_vars /\ Fairness

-----------------------------------------------------------------------------
(* Properties *)

Holders == {p \in Proc : pc[p] = "held"}

(* Mutual exclusion, as long as nobody is paused inside an operation and   *)
(* nothing but a crash leaves the lock behind: of two processes, the one   *)
(* that is left takes a stale lock over.  With three it is violated: two   *)
(* of them find the lock of the dead one stale, and the second removes not *)
(* that lock but the one the first has created since (filelock.go:191).    *)
(* (A failed refresh gives the lock up in the middle of the critical       *)
(* section; calm excludes that.)                                           *)
MutexWhenCalm == calm => Cardinality(Holders) <= 1

(* While a process works with the lock, the file is its own and no reader  *)
(* can take it for stale: the refresh outruns the timeout.                 *)
HolderIsFresh ==
  calm => \A p \in Holders : \E f \in file : f.by = p /\ f.written /\ ~Stale(f.age)

(* The file was created and its creator died before it wrote it. *)
Orphaned == \E f \in file : ~f.written /\ pc[f.by] # "write"

(* A lock left behind by a crash or a failed release is taken over: the    *)
(* lock is held again and again, however the faults fall, unless a crash   *)
(* between the creation and the first write left an empty file.            *)
LockRecovers ==
  []<>(Holders # {} \/ Orphaned \/ \A p \in Proc : pc[p] = "dead")

(* filelock.go:170 "count corrupt files as valid, so wait for lock to      *)
(* expire": an orphaned empty lock file expires.                           *)
CorruptLockExpires == Orphaned ~> ~Orphaned
=============================================================================
