--------------------------- MODULE Parallel_proofs ---------------------------
(***************************************************************************)
(* Proofs, for any number of tasks, workers and any error buffer, that the *)
(* pool runs no more tasks than it has workers, and that Wait returns only *)
(* when all tasks have ended.                                              *)
(***************************************************************************)
EXTENDS Parallel, FiniteSetTheorems, TLAPS

-----------------------------------------------------------------------------
(* The inductive invariant: what the counters count *)

In(S) == {t \in Task : task[t] \in S}

(* Between the counter's increment and its decrement. *)
Managed == {"running", "failed", "release"}
Holding == {"running", "failed", "release", "free"}
Awaited == {"running", "failed", "release", "free", "done"}

States == {"new", "running", "failed", "release", "free", "done", "gone"}

(* The errors that have left their task. *)
Sent == {t \in errors : task[t] # "failed"}

(* The counters with what Run has added ahead of the goroutine. *)
CountInv ==
  /\ semaphore = Cardinality(In(Holding)) + (IF caller = "spawn" THEN 1 ELSE 0)
  /\ managerWg = Cardinality(In(Managed))
  /\ waiterWg = Cardinality(In(Awaited)) + (IF caller \in {"acquire", "spawn"} THEN 1 ELSE 0)
  /\ errch = Cardinality(Sent)

(* The tasks are started in order, and a failed one has its error noted.   *)
StartInv ==
  /\ \A t \in Task : task[t] = "new" <=> t >= next
  /\ caller \in {"wait", "close", "done"} => next = Tasks + 1
  /\ caller \in {"add", "acquire", "spawn"} => next \in Task
  /\ In({"failed"}) \subseteq errors
  /\ \A t \in errors : task[t] \notin {"new", "running"}

(* Once the error channel is closed every task is gone. *)
ClosedInv ==
  /\ "errch" \in closed => caller \in {"close", "done"}
  /\ caller \in {"close", "done"} => \A t \in Task : task[t] = "gone"

Types ==
  /\ caller \in {"add", "acquire", "spawn", "wait", "close", "done"}
  /\ next \in Nat
  /\ task \in [Task -> States]
  /\ semaphore \in 0..Workers
  /\ errors \in SUBSET Task

IInv == Types /\ CountInv /\ StartInv /\ ClosedInv

-----------------------------------------------------------------------------
(* Counting *)

LEMMA TasksFinite == IsFiniteSet(Task)
  BY ParallelAssumption, FS_Interval DEF Task

LEMMA InFinite ==
  ASSUME NEW S
  PROVE  IsFiniteSet(In(S)) /\ Cardinality(In(S)) \in Nat
<1>1. In(S) \in SUBSET Task
  BY DEF In
<1>2. IsFiniteSet(In(S))
  BY <1>1, TasksFinite, FS_Subset
<1> QED BY <1>2, FS_CardinalityType

LEMMA SentFinite ==
  ASSUME errors \in SUBSET Task
  PROVE  IsFiniteSet(Sent) /\ Cardinality(Sent) \in Nat
<1>1. Sent \in SUBSET Task
  BY DEF Sent
<1>2. IsFiniteSet(Sent)
  BY <1>1, TasksFinite, FS_Subset
<1> QED BY <1>2, FS_CardinalityType

(* A task that moves enters or leaves what is counted, or neither.         *)
LEMMA StepCounts ==
  ASSUME NEW S, NEW t \in Task, NEW s, task \in [Task -> States], Step(t, s)
  PROVE  /\ task[t] \notin S /\ s \in S =>
              Cardinality(In(S)') = Cardinality(In(S)) + 1
         /\ task[t] \in S /\ s \notin S =>
              Cardinality(In(S)') = Cardinality(In(S)) - 1
         /\ (task[t] \in S <=> s \in S) => Cardinality(In(S)') = Cardinality(In(S))
<1>1. task' = [task EXCEPT ![t] = s]
  BY DEF Step
<1>2. In(S)' = IF s \in S THEN In(S) \cup {t} ELSE In(S) \ {t}
  BY <1>1 DEF In
<1>3. t \in In(S) <=> task[t] \in S
  BY DEF In
<1>4. IsFiniteSet(In(S)) /\ Cardinality(In(S)) \in Nat
  BY InFinite
<1>5. CASE s \in S
  BY <1>2, <1>3, <1>4, <1>5, FS_AddElement
<1>6. CASE s \notin S
  BY <1>2, <1>3, <1>4, <1>6, FS_RemoveElement
<1> QED BY <1>5, <1>6

-----------------------------------------------------------------------------
(* Init and the steps *)

LEMMA IInvInit == Init => IInv
<1> SUFFICES ASSUME Init PROVE IInv
  OBVIOUS
<1>1. task = [t \in Task |-> "new"] /\ errors = {} /\ closed = {} /\ next = 1
  BY DEF Init
<1>2. In(Holding) = {} /\ In(Managed) = {} /\ In(Awaited) = {} /\ In({"failed"}) = {} /\ Sent = {}
  BY <1>1 DEF In, Holding, Managed, Awaited, Sent
<1>3. CountInv
  BY <1>2, FS_EmptySet DEF Init, CountInv
<1>4. StartInv
  BY <1>1, <1>2, ParallelAssumption DEF Init, StartInv, Task
<1>5. Types /\ ClosedInv
  BY <1>1, ParallelAssumption DEF Init, Types, ClosedInv, States
<1> QED BY <1>3, <1>4, <1>5 DEF IInv

LEMMA TaskStepKeeps ==
  ASSUME IInv, NEW t \in Task, TaskStep(t)
  PROVE  IInv'
<1> USE DEF IInv
<1>1. caller' = caller /\ next' = next /\ closed' = closed
  BY DEF TaskStep, Succeed, Fail, SendError, ManagerDone, FreeSlot, WaiterDone
<1>2. PICK s \in {"failed", "release", "free", "done", "gone"} : Step(t, s)
  BY DEF TaskStep, Succeed, Fail, SendError, ManagerDone, FreeSlot, WaiterDone
<1>3. task' \in [Task -> States] /\ task'[t] = s /\ \A u \in Task : u # t => task'[u] = task[u]
  BY <1>2 DEF Types, Step, States
<1>4. task[t] \notin {"new", "gone"}
  BY DEF TaskStep, Succeed, Fail, SendError, ManagerDone, FreeSlot, WaiterDone
<1>5. ClosedInv'
  BY <1>1, <1>4 DEF ClosedInv
<1>6. /\ Cardinality(In(Holding)) \in Nat /\ Cardinality(In(Managed)) \in Nat
      /\ Cardinality(In(Awaited)) \in Nat /\ Cardinality(Sent) \in Nat
  BY InFinite, SentFinite DEF Types
<1>7. errors' \in SUBSET Task /\ (errors' = errors \/ errors' = errors \cup {t})
  BY DEF TaskStep, Succeed, Fail, SendError, ManagerDone, FreeSlot, WaiterDone, Types
<1>8. StartInv'
  <2>1. \A u \in Task : task'[u] = "new" <=> u >= next'
    BY <1>1, <1>3, <1>4 DEF StartInv
  <2>2. In({"failed"})' \subseteq errors'
    BY <1>2, <1>3 DEF TaskStep, Succeed, Fail, SendError, ManagerDone, FreeSlot, WaiterDone,
                      StartInv, In, Step, Types
  <2>3. \A u \in errors' : task'[u] \notin {"new", "running"}
    BY <1>3, <1>7 DEF StartInv, Types
  <2> QED BY <1>1, <2>1, <2>2, <2>3 DEF StartInv
<1>9. Sent' = IF task[t] = "failed" THEN Sent \cup {t} ELSE Sent
  <2>1. CASE task[t] = "failed"
    BY <1>3, <2>1 DEF TaskStep, Succeed, Fail, SendError, ManagerDone, FreeSlot, WaiterDone,
                      StartInv, Sent, In, Types, Step
  <2>2. CASE task[t] # "failed"
    BY <1>3, <2>2 DEF TaskStep, Succeed, Fail, SendError, ManagerDone, FreeSlot, WaiterDone,
                      StartInv, Sent, Types, Step
  <2> QED BY <2>1, <2>2
<1>10. CountInv' /\ semaphore' \in 0..Workers
  <2>1. CASE Succeed(t) \/ Fail(t)
    <3>1. \A S \in {Holding, Managed, Awaited} : Cardinality(In(S)') = Cardinality(In(S))
      BY <2>1, StepCounts DEF Succeed, Fail, Holding, Managed, Awaited, Types
    <3>2. Sent' = Sent
      BY <1>9, <2>1 DEF Succeed, Fail
    <3> QED BY <1>1, <2>1, <3>1, <3>2 DEF Succeed, Fail, CountInv, Types
  <2>2. CASE SendError(t)
    <3>1. \A S \in {Holding, Managed, Awaited} : Cardinality(In(S)') = Cardinality(In(S))
      BY <2>2, StepCounts DEF SendError, Holding, Managed, Awaited, Types
    <3>2. Sent' = Sent \cup {t} /\ t \notin Sent
      BY <1>9, <2>2 DEF SendError, Sent
    <3>3. Cardinality(Sent') = Cardinality(Sent) + 1
      BY <3>2, SentFinite, FS_AddElement DEF Types
    <3> QED BY <1>1, <2>2, <3>1, <3>3 DEF SendError, CountInv, Types
  <2>3. CASE ManagerDone(t)
    <3>1. /\ Cardinality(In(Holding)') = Cardinality(In(Holding))
          /\ Cardinality(In(Awaited)') = Cardinality(In(Awaited))
          /\ Cardinality(In(Managed)') = Cardinality(In(Managed)) - 1
      BY <2>3, StepCounts DEF ManagerDone, Holding, Managed, Awaited, Types
    <3>2. Sent' = Sent
      BY <1>9, <2>3 DEF ManagerDone
    <3> QED BY <1>1, <2>3, <3>1, <3>2 DEF ManagerDone, CountInv, Types
  <2>4. CASE FreeSlot(t)
    <3>1. /\ Cardinality(In(Holding)') = Cardinality(In(Holding)) - 1
          /\ Cardinality(In(Awaited)') = Cardinality(In(Awaited))
          /\ Cardinality(In(Managed)') = Cardinality(In(Managed))
      BY <2>4, StepCounts DEF FreeSlot, Holding, Managed, Awaited, Types
    <3>2. Sent' = Sent
      BY <1>9, <2>4 DEF FreeSlot
    <3>3. Cardinality(In(Holding)') \in Nat
      <4>1. In(Holding)' \in SUBSET Task
        BY DEF In
      <4>2. IsFiniteSet(In(Holding)')
        BY <4>1, TasksFinite, FS_Subset
      <4> QED BY <4>2, FS_CardinalityType
    <3> QED BY <1>1, <1>6, <2>4, <3>1, <3>2, <3>3, ParallelAssumption DEF FreeSlot, CountInv, Types
  <2>5. CASE WaiterDone(t)
    <3>1. /\ Cardinality(In(Holding)') = Cardinality(In(Holding))
          /\ Cardinality(In(Managed)') = Cardinality(In(Managed))
          /\ Cardinality(In(Awaited)') = Cardinality(In(Awaited)) - 1
      BY <2>5, StepCounts DEF WaiterDone, Holding, Managed, Awaited, Types
    <3>2. Sent' = Sent
      BY <1>9, <2>5 DEF WaiterDone
    <3> QED BY <1>1, <1>6, <2>5, <3>1, <3>2 DEF WaiterDone, CountInv, Types
  <2> QED BY <2>1, <2>2, <2>3, <2>4, <2>5 DEF TaskStep
<1>11. Types'
  BY <1>1, <1>3, <1>7, <1>10 DEF Types
<1> QED BY <1>5, <1>8, <1>10, <1>11

(* The caller's steps but RunSpawn move no task. *)
LEMMA NoTaskMoves ==
  ASSUME task' = task, errors' = errors
  PROVE  /\ \A S : In(S)' = In(S)
         /\ Sent' = Sent
  BY DEF In, Sent

LEMMA RunSpawnKeeps ==
  ASSUME IInv, RunSpawn
  PROVE  IInv'
<1> USE DEF IInv
<1>1. next \in Task /\ task[next] = "new" /\ Step(next, "running") /\ next' = next + 1
  BY DEF RunSpawn, StartInv, Task
<1>2. /\ task' \in [Task -> States] /\ task'[next] = "running"
      /\ \A u \in Task : u # next => task'[u] = task[u]
  BY <1>1 DEF Types, Step, States
<1>3. caller' \in {"add", "wait"} /\ (caller' = "add" <=> next + 1 \in Task)
  BY DEF RunSpawn
<1>4. \A S \in {Holding, Managed, Awaited} : Cardinality(In(S)') = Cardinality(In(S)) + 1
  BY <1>1, StepCounts DEF Holding, Managed, Awaited, Types
<1>5. next \notin errors
  BY <1>1 DEF StartInv
<1>6. Sent' = Sent
  BY <1>2, <1>5 DEF RunSpawn, Sent, Types
<1>7. Cardinality(In(Holding)) \in Nat /\ Cardinality(In(Awaited)) \in Nat
  BY InFinite
<1>8. CountInv'
  BY <1>3, <1>4, <1>6, <1>7 DEF RunSpawn, CountInv
<1>9. StartInv'
  <2>1. \A u \in Task : task'[u] = "new" <=> u >= next'
    BY <1>1, <1>2 DEF StartInv, Task
  <2>2. /\ caller' \in {"wait", "close", "done"} => next' = Tasks + 1
        /\ caller' \in {"add", "acquire", "spawn"} => next' \in Task
    BY <1>1, <1>3, ParallelAssumption DEF Task
  <2>3. In({"failed"})' \subseteq errors'
    BY <1>2 DEF RunSpawn, StartInv, In
  <2>4. \A u \in errors' : task'[u] \notin {"new", "running"}
    BY <1>2, <1>5 DEF RunSpawn, StartInv, Types
  <2> QED BY <2>1, <2>2, <2>3, <2>4 DEF StartInv
<1>10. Types' /\ ClosedInv'
  BY <1>1, <1>2, <1>3 DEF RunSpawn, Types, ClosedInv
<1> QED BY <1>8, <1>9, <1>10

(* When the waiter's count is zero every task has been started and is gone.*)
LEMMA WaitIsLast ==
  ASSUME IInv, caller = "wait", waiterWg = 0
  PROVE  \A t \in Task : task[t] = "gone"
<1>1. In(Awaited) = {}
  BY InFinite, FS_EmptySet DEF IInv, CountInv
<1>2. \A t \in Task : task[t] \in States /\ task[t] \notin Awaited
  BY <1>1 DEF IInv, Types, In
<1>3. next = Tasks + 1 /\ \A t \in Task : task[t] # "new"
  BY ParallelAssumption DEF IInv, StartInv, Task
<1> QED BY <1>2, <1>3 DEF States, Awaited

LEMMA CallerStepKeeps ==
  ASSUME IInv, CallerStep
  PROVE  IInv'
<1>1. CASE RunAdd
  <2>1. CountInv'
    BY <1>1, NoTaskMoves, InFinite DEF RunAdd, IInv, CountInv
  <2> QED BY <1>1, <2>1, NoTaskMoves DEF RunAdd, IInv, Types, StartInv, ClosedInv
<1>2. CASE RunAcquire
  <2>1. CountInv'
    BY <1>2, NoTaskMoves, InFinite DEF RunAcquire, IInv, CountInv
  <2>2. semaphore' \in 0..Workers
    BY <1>2, ParallelAssumption DEF RunAcquire, SlotFree, IInv, Types
  <2> QED BY <1>2, <2>1, <2>2, NoTaskMoves DEF RunAcquire, IInv, Types, StartInv, ClosedInv
<1>3. CASE RunSpawn
  BY <1>3, RunSpawnKeeps
<1>4. CASE Wait
  <2>1. CountInv'
    BY <1>4, NoTaskMoves DEF Wait, IInv, CountInv
  <2> QED BY <1>4, <2>1, WaitIsLast, NoTaskMoves DEF Wait, IInv, Types, StartInv, ClosedInv
<1>5. CASE Close
  <2>1. CountInv'
    BY <1>5, NoTaskMoves DEF Close, IInv, CountInv
  <2> QED BY <1>5, <2>1, NoTaskMoves DEF Close, IInv, Types, StartInv, ClosedInv
<1> QED BY <1>1, <1>2, <1>3, <1>4, <1>5 DEF CallerStep

LEMMA StutterKeeps == ASSUME IInv, UNCHANGED vars PROVE IInv'
<1>1. CountInv'
  BY NoTaskMoves DEF IInv, CountInv, vars
<1> QED BY <1>1, NoTaskMoves DEF IInv, Types, StartInv, ClosedInv, vars

LEMMA IInvHolds == Spec => []IInv
<1>1. IInv /\ [Next]_vars => IInv'
  BY TaskStepKeeps, CallerStepKeeps, StutterKeeps DEF Next
<1> QED BY IInvInit, <1>1, PTL DEF Spec

-----------------------------------------------------------------------------
(* The results *)

(* The semaphore bounds the running tasks, although the manager's count is *)
(* decremented before the slot is given back (parallel.go:44).             *)
THEOREM PoolIsBounded == Spec => []Bounded
<1>1. IInv => Bounded
  <2> SUFFICES ASSUME IInv PROVE Bounded
    OBVIOUS
  <2>1. Active \in SUBSET In(Holding)
    BY DEF Active, In, Holding
  <2>2. Cardinality(Active) <= Cardinality(In(Holding))
    BY <2>1, InFinite, FS_Subset
  <2>3. Cardinality(Active) \in Nat
    BY <2>1, InFinite, FS_Subset, FS_CardinalityType
  <2>4. Cardinality(In(Holding)) <= semaphore /\ semaphore <= Workers
    BY InFinite DEF IInv, CountInv, Types
  <2> QED BY <2>2, <2>3, <2>4, InFinite, ParallelAssumption DEF Bounded, IInv, Types
<1> QED BY <1>1, IInvHolds, PTL

(* When Wait has closed the error channel every task is gone, every error  *)
(* is in the channel and no slot is taken (parallel.go:92).                *)
THEOREM WaitIsComplete == Spec => []WaitCoversAll
<1>1. IInv => WaitCoversAll
  <2> SUFFICES ASSUME IInv, "errch" \in closed
               PROVE  /\ \A t \in Task : task[t] = "gone"
                      /\ errch = Cardinality(errors) /\ semaphore = 0
    BY DEF WaitCoversAll
  <2>1. caller \in {"close", "done"} /\ \A t \in Task : task[t] = "gone"
    BY DEF IInv, ClosedInv
  <2>2. Sent = errors /\ In(Holding) = {}
    BY <2>1 DEF Sent, In, Holding, IInv, Types
  <2> QED BY <2>1, <2>2, FS_EmptySet DEF IInv, CountInv
<1> QED BY <1>1, IInvHolds, PTL
=============================================================================
