------------------------------- MODULE Shipper -------------------------------
(***************************************************************************)
(* The metric shipper (src/app/domain/shipper): the life of the metric     *)
(* files from the moment the collector's rename makes them visible.        *)
(*                                                                         *)
(* A cycle of the shipper takes the lock file, lists the files of the base *)
(* directory, and handles them in chunks: it asks the backend for          *)
(* presigned URLs, searches the volume for the files the backend wants     *)
(* replayed, uploads all of them in parallel, moves (cost metrics) or      *)
(* removes (everything else) what is uploaded, and abandons the replays it *)
(* cannot find.  Then it releases the lock and purges uploaded files when  *)
(* the volume is under pressure.  Every call may fail, its reply may be    *)
(* lost, and the process may die at any point.                             *)
(*                                                                         *)
(* Files are numbered by age, which is also the order of the listing.      *)
(***************************************************************************)
EXTENDS Naturals, FiniteSets

CONSTANTS
  File,         \* the metric files, numbered by age
  Cost,         \* those that carry cost metrics
  ChunkSize,    \* filesChunkSize
  MemoryBacked, \* IsMemoryBacked(): the volume is a tmpfs
  Usage,        \* the values (percent used) the volume's usage can take
  MaxFaults,    \* bound: failed calls and searches, lost replies, crashes, refusals
  MaxReplays    \* bound: replay requests of a behaviour

ASSUME ShipperAssumption ==
  /\ File \subseteq Nat
  /\ Cost \subseteq File
  /\ ChunkSize \in Nat \ {0}
  /\ MemoryBacked \in BOOLEAN
  /\ Usage \subseteq 0..100 /\ Usage # {}
  /\ MaxFaults \in Nat
  /\ MaxReplays \in Nat

VARIABLES
  \* the volume, shared with the collector
  made,       \* history: the files the collector has finished
  base,       \* the files in the storage directory
  uploaded,   \* the files in its "uploaded" subdirectory
  lock,       \* the lock file: "none", "held", or "left" by a crash
  usage,      \* percent of the volume in use
  \* the backend
  known,      \* the reference ids it has been asked URLs for
  remote,     \* the files it has stored
  abandoned,  \* the ids the shipper told it to give up on
  \* the shipper process
  pc,         \* where the cycle is
  todo,       \* the listed files of the chunks to come
  allocation, \* files of the chunk that got a presigned URL
  replay,     \* ids the backend wants replayed
  reqs,       \* the upload requests not yet finished
  toAbandon,  \* the replays for which there is no request
  \* accounting
  blind,      \* history: replays whose search failed instead of finding none
  puts,       \* how often each file has been stored
  replays,    \* how often each file has been asked for again
  faults      \* how many faults have happened

volume  == <<made, base, uploaded, lock, usage>>
backend == <<known, remote, abandoned>>
memory  == <<todo, allocation, replay, reqs, toAbandon>>
history == <<blind, puts, replays>>
vars == <<volume, backend, pc, memory, history, faults>>

(* An upload request: the file, the directory it was opened in, the URL    *)
(* it uses, and whether it still has to be sent or only to be marked.      *)
Request == [file: File, at: {"base", "uploaded"}, via: {"allocation", "replay"},
            stage: {"queued", "sent"}]

TypeOK ==
  /\ made \in SUBSET File /\ base \in SUBSET File /\ uploaded \in SUBSET File
  /\ lock \in {"none", "held", "left"}
  /\ usage \in Usage
  /\ known \in SUBSET File /\ remote \in SUBSET File /\ abandoned \in SUBSET File
  /\ pc \in {"down", "idle", "allocate", "find", "upload", "disk", "purge"}
  /\ todo \in SUBSET File /\ allocation \in SUBSET File /\ replay \in SUBSET File
  /\ reqs \in SUBSET Request
  /\ toAbandon \in SUBSET File
  /\ blind \in SUBSET File
  /\ puts \in [File -> Nat] /\ replays \in [File -> Nat]
  /\ faults \in Nat

Init ==
  /\ made = {} /\ base = {} /\ uploaded = {} /\ lock = "none"
  /\ usage \in Usage
  /\ known = {} /\ remote = {} /\ abandoned = {}
  /\ pc = "idle"
  /\ todo = {} /\ allocation = {} /\ replay = {} /\ reqs = {} /\ toAbandon = {}
  /\ blind = {}
  /\ puts = [f \in File |-> 0] /\ replays = [f \in File |-> 0]
  /\ faults = 0

-----------------------------------------------------------------------------
(* Helpers *)

Fault == faults < MaxFaults /\ faults' = faults + 1

Local == base \cup uploaded

(* The k oldest files of S. *)
Oldest(S, k) == {f \in S : Cardinality({g \in S : g < f}) < k}

(* Chunk(files, filesChunkSize)[i]: the chunk at the head of the list. *)
Chunk == Oldest(todo, ChunkSize)

(* Mutant of LeaveProcessFiles: an error path without the release. *)
MutLeaveProcessFiles(next) ==
  /\ lock' = IF next = "disk" THEN "none" ELSE lock
  /\ pc' = next
  /\ todo' = {} /\ allocation' = {} /\ replay' = {} /\ reqs' = {} /\ toAbandon' = {}

(* Release(), deferred by ProcessFiles, and the end of the request. *)
LeaveProcessFiles(next) ==
  /\ lock' = "none"
  /\ pc' = next
  /\ todo' = {} /\ allocation' = {} /\ replay' = {} /\ reqs' = {} /\ toAbandon' = {}

-----------------------------------------------------------------------------
(* The environment: collector, volume, time *)

(* The collector's rename makes a file visible (DiskStore!Rename). *)
Produce(f) ==
  /\ f \in File \ made
  /\ \A g \in File : g < f => g \in made
  /\ made' = made \cup {f}
  /\ base' = base \cup {f}
  /\ UNCHANGED <<uploaded, lock, usage, backend, pc, memory, history, faults>>

(* Mutant of UsageChanges: the used bytes are not capped at the configured  *)
(* limit, so that the percentage exceeds 100.                               *)
MutUsageChanges ==
  /\ usage' \in {u + 100 : u \in Usage}
  /\ UNCHANGED <<made, base, uploaded, lock, backend, pc, memory, history, faults>>

(* The usage of the volume changes, through these files or others. *)
UsageChanges ==
  /\ usage' \in Usage \ {usage}
  /\ UNCHANGED <<made, base, uploaded, lock, backend, pc, memory, history, faults>>

(* Five minutes pass: the next Acquire removes the lock a crash has left. *)
LockExpires ==
  /\ lock = "left"
  /\ lock' = "none"
  /\ UNCHANGED <<made, base, uploaded, usage, backend, pc, memory, history, faults>>

-----------------------------------------------------------------------------
(* ProcessFiles *)

(* The ticker fires: Acquire succeeds and the files are listed and opened. *)
(* While the lock is left over, Acquire gives up after its retries, the    *)
(* cycle ends in an error and nothing changes.                             *)
StartCycle ==
  /\ pc = "idle"
  /\ lock = "none"
  /\ \/ base = {} /\ pc' = "disk" /\ UNCHANGED <<lock, memory>>
     \/ /\ base # {}
        /\ lock' = "held" /\ pc' = "allocate" /\ todo' = base
        /\ UNCHANGED <<allocation, replay, reqs, toAbandon>>
  /\ UNCHANGED <<made, base, uploaded, usage, backend, history, faults>>

(* The context is cancelled before Acquire looks: ProcessFiles returns nil  *)
(* and the volume is cleaned up although the lock was never taken.         *)
CancelledCycle ==
  /\ pc = "idle"
  /\ Fault
  /\ pc' = "disk"
  /\ UNCHANGED <<volume, backend, memory, history>>

(* AllocatePresignedURLs fails: the cycle ends in an error, the other      *)
(* chunks and the disk management are left to the next one.  The request   *)
(* may have reached the backend.                                           *)
AllocateFails ==
  /\ pc = "allocate"
  /\ Fault
  /\ known' \in {known, known \cup Chunk}
  /\ LeaveProcessFiles("idle")
  /\ UNCHANGED <<made, base, uploaded, usage, remote, abandoned, history>>

(* The backend allocates URLs for the files of A (it may leave some out)   *)
(* and asks for the ids in R, which it knows, to be replayed.              *)
Allocate(A, R) ==
  /\ pc = "allocate"
  /\ A \subseteq Chunk
  /\ R \subseteq known
  /\ IF A = Chunk THEN UNCHANGED faults ELSE Fault
  /\ \A f \in R : replays[f] < MaxReplays
  /\ known' = known \cup Chunk
  /\ replays' = [f \in File |-> IF f \in R THEN replays[f] + 1 ELSE replays[f]]
  /\ \/ /\ A = {} /\ R = {}
        /\ LeaveProcessFiles("disk")
     \/ /\ A \cup R # {}
        /\ pc' = "find"
        /\ todo' = todo \ Chunk
        /\ allocation' = A /\ replay' = R
        /\ UNCHANGED <<lock, reqs, toAbandon>>
  /\ UNCHANGED <<made, base, uploaded, usage, remote, abandoned, blind, puts>>

(* Mutant of Missing: the ids without a local file are not told apart from *)
(* the others.                                                             *)
MutMissing(found) == replay \ allocation

(* The replays that no request stands for. *)
Missing(found) == replay \ (allocation \cup found)

(* Find walks the volume once per replay; the walk fails when a name it    *)
(* has listed is gone before it is examined (the collector renames its     *)
(* active file, the refresh of the lock its temporary one), and then the   *)
(* file counts as not found.                                               *)
FindReplays ==
  /\ pc = "find"
  /\ \E failed \in SUBSET replay :
       LET found == (replay \ failed) \cap Local IN
       /\ reqs' = {[file |-> f, at |-> "base", via |-> "allocation", stage |-> "queued"] :
                     f \in allocation}
                  \cup
                  {[file |-> f, at |-> IF f \in base THEN "base" ELSE "uploaded",
                    via |-> "replay", stage |-> "queued"] : f \in found}
       /\ toAbandon' = Missing(found)
       /\ blind' = blind \cup failed
       /\ IF failed = {} THEN UNCHANGED faults ELSE Fault
  /\ pc' = "upload"
  /\ UNCHANGED <<volume, backend, todo, allocation, replay, puts, replays>>

-----------------------------------------------------------------------------
(* The upload workers: every request on its own *)

Sent(r) == [r EXCEPT !.stage = "sent"]

(* Mutant of Upload: the answer is taken for a success unseen. *)
MutUpload(r) ==
  /\ pc = "upload" /\ r \in reqs /\ r.stage = "queued"
  /\ reqs' = (reqs \ {r}) \cup {Sent(r)}
  /\ \/ /\ remote' = remote \cup {r.file}
        /\ puts' = [puts EXCEPT ![r.file] = @ + 1]
     \/ UNCHANGED <<remote, puts>>
  /\ UNCHANGED <<volume, known, abandoned, pc, todo, allocation, replay, toAbandon,
                 blind, replays, faults>>

(* UploadFile: the object store has the file and says so. *)
Upload(r) ==
  /\ pc = "upload" /\ r \in reqs /\ r.stage = "queued"
  /\ remote' = remote \cup {r.file}
  /\ puts' = [puts EXCEPT ![r.file] = @ + 1]
  /\ reqs' = (reqs \ {r}) \cup {Sent(r)}
  /\ UNCHANGED <<volume, known, abandoned, pc, todo, allocation, replay, toAbandon,
                 blind, replays, faults>>

(* Mutant of UploadFails: the worker does not return on the error. *)
MutUploadFails(r) ==
  /\ pc = "upload" /\ r \in reqs /\ r.stage = "queued"
  /\ Fault
  /\ reqs' = (reqs \ {r}) \cup {Sent(r)}
  /\ UNCHANGED <<volume, backend, pc, todo, allocation, replay, toAbandon, history>>

(* UploadFile returns an error; the file may have been stored all the same. *)
UploadFails(r) ==
  /\ pc = "upload" /\ r \in reqs /\ r.stage = "queued"
  /\ Fault
  /\ reqs' = reqs \ {r}
  /\ \/ UNCHANGED <<remote, puts>>
     \/ /\ remote' = remote \cup {r.file}
        /\ puts' = [puts EXCEPT ![r.file] = @ + 1]
  /\ UNCHANGED <<volume, known, abandoned, pc, todo, allocation, replay, toAbandon,
                 blind, replays>>

(* Mutant of Mark: the removal is not restricted to what is not a cost      *)
(* metric, so that nothing is kept for a replay.                            *)
MutMarkRemovesAll(r) ==
  /\ pc = "upload" /\ r \in reqs /\ r.stage = "sent"
  /\ reqs' = reqs \ {r}
  /\ base' = base \ {r.file}
  /\ UNCHANGED <<made, uploaded, lock, usage, backend, pc, todo, allocation, replay,
                 toAbandon, history, faults>>

(* Mutant of Mark: every location is taken to be under "uploaded".          *)
MutMarkMovesNothing(r) ==
  /\ pc = "upload" /\ r \in reqs /\ r.stage = "sent"
  /\ reqs' = reqs \ {r}
  /\ base' = base \ ({r.file} \ Cost)
  /\ UNCHANGED <<made, uploaded, lock, usage, backend, pc, todo, allocation, replay,
                 toAbandon, history, faults>>

(* MarkFileUploaded for cost metrics: a rename into "uploaded", which       *)
(* fails when another request has moved the file already, or nothing for a *)
(* file that was opened there.  Any other file is removed.                 *)
Mark(r) ==
  /\ pc = "upload" /\ r \in reqs /\ r.stage = "sent"
  /\ reqs' = reqs \ {r}
  /\ IF r.at = "uploaded" /\ r.file \in Cost
       THEN UNCHANGED <<base, uploaded>>
       ELSE /\ base' = base \ {r.file}
            /\ uploaded' = uploaded \cup ({r.file} \cap base \cap Cost)
  /\ UNCHANGED <<made, lock, usage, backend, pc, todo, allocation, replay, toAbandon,
                 history, faults>>

(* The rename or the removal fails: the file is listed again next time. *)
MarkFails(r) ==
  /\ pc = "upload" /\ r \in reqs /\ r.stage = "sent"
  /\ Fault
  /\ reqs' = reqs \ {r}
  /\ UNCHANGED <<volume, backend, pc, todo, allocation, replay, toAbandon, history>>

(* waiter.Wait() has returned: AbandonFiles (no call when there is nothing *)
(* to abandon; an error is only logged), then the next chunk or the end.   *)
AbandonFiles ==
  /\ pc = "upload" /\ reqs = {}
  /\ \/ /\ abandoned' = abandoned \cup toAbandon
        /\ known' = known \ toAbandon
        /\ UNCHANGED faults
     \/ /\ toAbandon # {}
        /\ Fault
        /\ UNCHANGED <<abandoned, known>>
  /\ \/ /\ todo = {}
        /\ LeaveProcessFiles("disk")
     \/ /\ todo # {}
        /\ pc' = "allocate"
        /\ allocation' = {} /\ replay' = {} /\ toAbandon' = {}
        /\ UNCHANGED <<lock, todo, reqs>>
  /\ UNCHANGED <<made, base, uploaded, usage, remote, history>>

-----------------------------------------------------------------------------
(* HandleDisk, outside the lock *)

(* CalculatePressureLevel with getThresholds: 0 none .. 4 critical. *)
Threshold ==
  IF MemoryBacked THEN <<20, 40, 60, 80>> ELSE <<50, 70, 85, 95>>

Pressure(u) == Cardinality({i \in 1..4 : u >= Threshold[i]})

PressureMedium   == 2
PressureHigh     == 3
PressureCritical == 4

(* GetCleanupPercentage, for the two levels it is called with. *)
CleanupPercentage(level) ==
  IF level = PressureCritical
    THEN IF MemoryBacked THEN 70 ELSE 50
    ELSE IF MemoryBacked THEN 50 ELSE 25

(* Mutant of NumToRemove: rounded down to nothing when few files are left. *)
MutNumToRemove(n, percent) == (n * percent) \div 100

NumToRemove(n, percent) ==
  LET k == (n * percent) \div 100 IN IF k = 0 /\ percent > 0 THEN 1 ELSE k

(* The files of S are removed, but a removal may fail (it is logged and the *)
(* loop goes on).                                                           *)
RemoveUploaded(S) ==
  \/ uploaded' = uploaded \ S /\ UNCHANGED faults
  \/ Fault /\ \E kept \in S : uploaded' = (uploaded \ S) \cup {kept}

(* ManageDiskUsage reads the usage: nothing to do, or the purge by age.     *)
(* The cutoff is a point in time; any of the oldest files may be before it. *)
PurgeFilesBefore ==
  /\ pc = "disk"
  /\ \/ /\ Pressure(usage) < PressureMedium
        /\ pc' = "idle"
        /\ UNCHANGED <<uploaded, faults>>
     \/ /\ Pressure(usage) >= PressureMedium
        /\ \E k \in 0..Cardinality(uploaded) : RemoveUploaded(Oldest(uploaded, k))
        /\ pc' = "purge"
  /\ UNCHANGED <<made, base, lock, usage, backend, memory, history>>

(* executeCleanupStrategy reads the usage again and, if it is still high,   *)
(* removes the oldest percentage of what is left.                           *)
PurgeOldestPercentage ==
  /\ pc = "purge"
  /\ IF Pressure(usage) < PressureHigh
       THEN UNCHANGED <<uploaded, faults>>
       ELSE RemoveUploaded(Oldest(uploaded,
              NumToRemove(Cardinality(uploaded), CleanupPercentage(Pressure(usage)))))
  /\ pc' = "idle"
  /\ UNCHANGED <<made, base, lock, usage, backend, memory, history>>

(* Reading the usage or walking the directory fails. *)
HandleDiskFails ==
  /\ pc \in {"disk", "purge"}
  /\ Fault
  /\ pc' = "idle"
  /\ UNCHANGED <<volume, backend, memory, history>>

-----------------------------------------------------------------------------
(* The process *)

(* The shipper dies (or its process exits at shutdown, whatever the cycle   *)
(* is doing): the lock file stays.                                          *)
Crash ==
  /\ pc # "down"
  /\ Fault
  /\ pc' = "down"
  /\ lock' = IF lock = "held" THEN "left" ELSE lock
  /\ todo' = {} /\ allocation' = {} /\ replay' = {} /\ reqs' = {} /\ toAbandon' = {}
  /\ UNCHANGED <<made, base, uploaded, usage, backend, history>>

Restart ==
  /\ pc = "down"
  /\ pc' = "idle"
  /\ UNCHANGED <<volume, backend, memory, history, faults>>

-----------------------------------------------------------------------------
AllocateChunk == \E A \in SUBSET Chunk, R \in SUBSET known : Allocate(A, R)

WorkerStep ==
  \E r \in reqs : Upload(r) \/ UploadFails(r) \/ Mark(r) \/ MarkFails(r)

CycleStep ==
  \/ StartCycle
  \/ CancelledCycle
  \/ AllocateFails
  \/ AllocateChunk
  \/ FindReplays
  \/ WorkerStep
  \/ AbandonFiles
  \/ PurgeFilesBefore
  \/ PurgeOldestPercentage
  \/ HandleDiskFails

Next ==
  \/ \E f \in File : Produce(f)
  \/ UsageChanges
  \/ LockExpires
  \/ CycleStep
  \/ Crash
  \/ Restart

(* The ticker and the workers run, time passes, a dead container is        *)
(* restarted.  Nothing is assumed of the collector, the volume or faults.  *)
Fairness ==
  /\ WF_vars(LockExpires)
  /\ WF_vars(CycleStep)
  /\ WF_vars(Restart)

Spec == Init /\ [][Next]_vars /\ Fairness

-----------------------------------------------------------------------------
(* Properties *)

(* No metric file is lost: whatever crashes, failed calls, replays and     *)
(* purges come together, a file the collector has finished is in the base  *)
(* directory until the object store has it.                                *)
NothingLost == made \subseteq base \cup remote

(* What sits in "uploaded" is stored remotely and is not listed again, so  *)
(* that the purges, which look there only, can cost no data and no cost    *)
(* file is uploaded again without being asked for.                         *)
UploadedIsShipped == uploaded \subseteq remote /\ uploaded \cap base = {}

(* A replay is abandoned only if the file is gone from the volume after    *)
(* having been stored, or its search failed.                               *)
AbandonedIsGone ==
  \A f \in (abandoned \cup toAbandon) \ blind : f \in remote /\ f \notin Local

(* Duplicates have a cause: the object store receives a file once, and     *)
(* once more at most for every fault and every replay of it.               *)
PutsAccounted == \A f \in File : puts[f] <= 1 + faults + replays[f]

(* Under high pressure a cycle frees at least the oldest uploaded file     *)
(* (unless the removal fails), however few files there are, and never a    *)
(* file while it keeps an older one.                                       *)
PurgeMakesRoom ==
  [][PurgeOldestPercentage /\ Pressure(usage) >= PressureHigh /\ uploaded # {}
       /\ faults' = faults
     => /\ uploaded' # uploaded
        /\ \A f \in uploaded \ uploaded', g \in uploaded' : f < g]_vars

(* Cost metrics stay at hand for replays: outside the purges no step of    *)
(* the shipper takes the last local copy of a cost file away.              *)
CostFilesKept ==
  [][pc \notin {"disk", "purge"} => Local \cap Cost \subseteq Local']_vars

(* The shipper implements FileDelivery: a file is held locally until it is *)
(* stored, and it is stored at last, however the faults fall.              *)
Phase ==
  [f \in File |-> IF f \in remote THEN "stored"
                  ELSE IF f \in Local THEN "held" ELSE "new"]

Delivery == INSTANCE FileDelivery WITH phase <- Phase

ImplementsFileDelivery == Delivery!Spec

(* shipper.go:436 "failed to find this file locally": the reason sent with *)
(* an abandoned replay, whatever made the search fail.                     *)
AbandonReasonTrue ==
  [][\A f \in abandoned' \ abandoned : f \notin Local]_vars
=============================================================================
