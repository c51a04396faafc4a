------------------------------- MODULE Parallel -------------------------------
(***************************************************************************)
(* The worker pool of src/app/utils/parallel/parallel.go, used the way the *)
(* shipper (HandleRequest) and the backfiller use it: one goroutine starts *)
(* all tasks with Run, calls Wait on the waiter and at last Close on the   *)
(* manager, and never reads the error channel.                             *)
(***************************************************************************)
EXTENDS Naturals, FiniteSets

CONSTANTS
  Tasks,    \* the number of tasks, numbered as they are handed to Run
  Workers,  \* the capacity of the semaphore
  Buffer    \* errChannelBuffer

ASSUME ParallelAssumption ==
  /\ Tasks \in Nat
  /\ Workers \in Nat \ {0, 1}   \* minNumWorkers
  /\ Buffer \in Nat

Task == 1..Tasks

VARIABLES
  caller,     \* "add", "acquire", "spawn", "wait", "close" or "done"
  next,       \* the task Run is called with
  task,       \* where the goroutine of each task is
  semaphore,  \* the slots taken
  managerWg,  \* Manager.wg
  waiterWg,   \* Waiter.wg
  errch,      \* the errors in the channel
  errors,     \* history: the tasks that failed
  closed      \* the channels that are closed

vars == <<caller, next, task, semaphore, managerWg, waiterWg, errch, errors, closed>>

TypeOK ==
  /\ caller \in {"add", "acquire", "spawn", "wait", "close", "done"}
  /\ next \in 1..(Tasks + 1)
  /\ task \in [Task -> {"new", "running", "failed", "release", "free", "done", "gone"}]
  /\ semaphore \in 0..Workers
  /\ managerWg \in Nat /\ waiterWg \in Nat
  /\ errch \in 0..Buffer
  /\ errors \in SUBSET Task
  /\ closed \in SUBSET {"errch", "semaphore"}

Init ==
  /\ caller = IF Tasks = 0 THEN "wait" ELSE "add"
  /\ next = 1
  /\ task = [t \in Task |-> "new"]
  /\ semaphore = 0 /\ managerWg = 0 /\ waiterWg = 0
  /\ errch = 0 /\ errors = {} /\ closed = {}

Step(t, s) == task' = [task EXCEPT ![t] = s]

-----------------------------------------------------------------------------
(* Run *)

(* waiter.wg.Add(1) *)
RunAdd ==
  /\ caller = "add"
  /\ waiterWg' = waiterWg + 1
  /\ caller' = "acquire"
  /\ UNCHANGED <<next, task, semaphore, managerWg, errch, errors, closed>>

(* Mutant of SlotFree: the semaphore has one slot more. *)
MutSlotFree == semaphore <= Workers

SlotFree == semaphore < Workers

(* p.semaphore <- struct{}{}, which blocks while the semaphore is full. *)
RunAcquire ==
  /\ caller = "acquire"
  /\ SlotFree
  /\ semaphore' = semaphore + 1
  /\ caller' = "spawn"
  /\ UNCHANGED <<next, task, managerWg, waiterWg, errch, errors, closed>>

(* p.wg.Add(1), go func() *)
RunSpawn ==
  /\ caller = "spawn"
  /\ managerWg' = managerWg + 1
  /\ Step(next, "running")
  /\ next' = next + 1
  /\ caller' = IF next + 1 \in Task THEN "add" ELSE "wait"
  /\ UNCHANGED <<semaphore, waiterWg, errch, errors, closed>>

-----------------------------------------------------------------------------
(* The goroutine of a task *)

Succeed(t) ==
  /\ task[t] = "running"
  /\ Step(t, "release")
  /\ UNCHANGED <<caller, next, semaphore, managerWg, waiterWg, errch, errors, closed>>

Fail(t) ==
  /\ task[t] = "running"
  /\ Step(t, "failed")
  /\ errors' = errors \cup {t}
  /\ UNCHANGED <<caller, next, semaphore, managerWg, waiterWg, errch, closed>>

(* waiter.errch <- err, which blocks while the buffer is full. *)
SendError(t) ==
  /\ task[t] = "failed"
  /\ errch < Buffer
  /\ errch' = errch + 1
  /\ Step(t, "release")
  /\ UNCHANGED <<caller, next, semaphore, managerWg, waiterWg, errors, closed>>

(* Deferred: p.wg.Done() ... *)
ManagerDone(t) ==
  /\ task[t] = "release"
  /\ managerWg' = managerWg - 1
  /\ Step(t, "free")
  /\ UNCHANGED <<caller, next, semaphore, waiterWg, errch, errors, closed>>

(* Mutant of FreeSlot: the slot is not given back. *)
MutFreeSlot(t) ==
  /\ task[t] = "free"
  /\ Step(t, "done")
  /\ UNCHANGED <<caller, next, semaphore, managerWg, waiterWg, errch, errors, closed>>

(* ... <-p.semaphore (also when it is closed by now) ... *)
FreeSlot(t) ==
  /\ task[t] = "free"
  /\ semaphore' = semaphore - 1
  /\ Step(t, "done")
  /\ UNCHANGED <<caller, next, managerWg, waiterWg, errch, errors, closed>>

(* ... and waiter.wg.Done(). *)
WaiterDone(t) ==
  /\ task[t] = "done"
  /\ waiterWg' = waiterWg - 1
  /\ Step(t, "gone")
  /\ UNCHANGED <<caller, next, semaphore, managerWg, errch, errors, closed>>

TaskStep(t) ==
  Succeed(t) \/ Fail(t) \/ SendError(t) \/ ManagerDone(t) \/ FreeSlot(t) \/ WaiterDone(t)

-----------------------------------------------------------------------------
(* Wait and Close *)

(* Mutant of Wait: it waits for the manager, not for the waiter. *)
MutWait ==
  /\ caller = "wait" /\ managerWg = 0
  /\ closed' = closed \cup {"errch"}
  /\ caller' = "close"
  /\ UNCHANGED <<next, task, semaphore, managerWg, waiterWg, errch, errors>>

Wait ==
  /\ caller = "wait" /\ waiterWg = 0
  /\ closed' = closed \cup {"errch"}
  /\ caller' = "close"
  /\ UNCHANGED <<next, task, semaphore, managerWg, waiterWg, errch, errors>>

Close ==
  /\ caller = "close" /\ managerWg = 0
  /\ closed' = closed \cup {"semaphore"}
  /\ caller' = "done"
  /\ UNCHANGED <<next, task, semaphore, managerWg, waiterWg, errch, errors>>

-----------------------------------------------------------------------------
CallerStep == RunAdd \/ RunAcquire \/ RunSpawn \/ Wait \/ Close

Next == CallerStep \/ \E t \in Task : TaskStep(t)

(* Goroutines are scheduled, and a task that runs comes to an end. *)
Fairness == WF_vars(CallerStep) /\ \A t \in Task : WF_vars(TaskStep(t))

Spec == Init /\ [][Next]_vars /\ Fairness

-----------------------------------------------------------------------------
(* Properties *)

Active == {t \in Task : task[t] \in {"running", "failed"}}

(* No more tasks run at a time than the pool has workers. *)
Bounded == Cardinality(Active) <= Workers

(* Wait does not return early: when it has returned, every task has run to *)
(* its end, its error (if any) is in the channel, no slot is taken and     *)
(* nobody will send on the closed channel.                                 *)
WaitCoversAll ==
  "errch" \in closed =>
    /\ \A t \in Task : task[t] = "gone"
    /\ errch = Cardinality(errors)
    /\ semaphore = 0

(* The caller gets through, as long as no more tasks fail than the error   *)
(* channel can hold.                                                       *)
WaitReturnsIfErrorsFit == []<>(caller = "done" \/ Cardinality(errors) > Buffer)

(* shipper.go:209 "Non-blocking: Individual upload failures don't block    *)
(* subsequent processing": the caller gets through whatever fails.         *)
FailuresDoNotBlock == <>(caller = "done")
=============================================================================
