--------------------------- MODULE Shipper_proofs ---------------------------
(***************************************************************************)
(* Proofs, for any set of files, chunk size, thresholds and bounds, that   *)
(* the shipper loses no file, purges and abandons only what the object     *)
(* store has, stores no file twice without a cause and frees room under    *)
(* pressure, and that its steps are steps of FileDelivery.                 *)
(***************************************************************************)
EXTENDS Shipper, FiniteSetTheorems, WellFoundedInduction, TLAPS

-----------------------------------------------------------------------------
(* The inductive invariant *)

(* Whatever the shipper, the backend or the volume knows of was made by    *)
(* the collector before.                                                   *)
MadeInv ==
  /\ Local \cup remote \cup known \cup todo \cup allocation \cup replay \subseteq made
  /\ \A r \in reqs : r.file \in made

(* A request reaches the stage "sent" only through a successful upload.    *)
SentInv == \A r \in reqs : r.stage = "sent" => r.file \in remote

SafetyInv == MadeInv /\ SentInv /\ NothingLost /\ UploadedIsShipped /\ AbandonedIsGone

IInv == TypeOK /\ SafetyInv

-----------------------------------------------------------------------------
(* Helpers *)

LEMMA OldestIsSubset == ASSUME NEW S, NEW k PROVE Oldest(S, k) \subseteq S
  BY DEF Oldest

LEMMA ChunkIsListed == Chunk \subseteq todo
  BY OldestIsSubset DEF Chunk

LEMMA FaultType == TypeOK /\ Fault => faults' \in Nat
  BY DEF TypeOK, Fault

(* A purge takes files out of "uploaded" and puts none in. *)
LEMMA RemoveShrinks ==
  ASSUME NEW k, RemoveUploaded(Oldest(uploaded, k))
  PROVE  uploaded' \subseteq uploaded /\ (faults' = faults \/ Fault)
  BY OldestIsSubset DEF RemoveUploaded

LEMMA SentType ==
  ASSUME NEW r \in Request PROVE Sent(r) \in Request /\ Sent(r).file = r.file
  BY DEF Request, Sent

-----------------------------------------------------------------------------
(* Types *)

LEMMA TypeInit == Init => TypeOK
<1> SUFFICES ASSUME Init PROVE TypeOK
  OBVIOUS
<1>1. faults \in Nat /\ puts \in [File -> Nat] /\ replays \in [File -> Nat]
  BY DEF Init
<1> QED BY <1>1 DEF Init, TypeOK

(* The end of ProcessFiles. *)
LEMMA LeaveType ==
  ASSUME TypeOK, NEW p \in {"idle", "disk"}, LeaveProcessFiles(p)
  PROVE  /\ lock' \in {"none", "held", "left"}
         /\ pc' \in {"down", "idle", "allocate", "find", "upload", "disk", "purge"}
         /\ todo' \in SUBSET File /\ allocation' \in SUBSET File /\ replay' \in SUBSET File
         /\ reqs' \in SUBSET Request /\ toAbandon' \in SUBSET File
  BY DEF LeaveProcessFiles

LEMMA TypeStep == TypeOK /\ [Next]_vars => TypeOK'
<1> SUFFICES ASSUME TypeOK, [Next]_vars PROVE TypeOK'
  OBVIOUS
<1> USE DEF volume, backend, memory, history
<1>1. ASSUME NEW f \in File, Produce(f) PROVE TypeOK'
  BY <1>1 DEF Produce, TypeOK
<1>2. CASE UsageChanges
  BY <1>2 DEF UsageChanges, TypeOK
<1>3. CASE LockExpires
  BY <1>3 DEF LockExpires, TypeOK
<1>4. CASE StartCycle \/ CancelledCycle
  BY <1>4, FaultType DEF StartCycle, CancelledCycle, TypeOK
<1>5. CASE AllocateFails
  <2>1. known' \in SUBSET File
    BY <1>5, ChunkIsListed DEF AllocateFails, TypeOK
  <2>2. LeaveProcessFiles("idle") /\ faults' \in Nat
    BY <1>5, FaultType DEF AllocateFails
  <2> QED BY <1>5, <2>1, <2>2, LeaveType DEF AllocateFails, TypeOK
<1>6. ASSUME NEW A \in SUBSET Chunk, NEW R \in SUBSET known, Allocate(A, R) PROVE TypeOK'
  <2>1. known' \in SUBSET File /\ A \in SUBSET File /\ R \in SUBSET File
    BY <1>6, ChunkIsListed DEF Allocate, TypeOK
  <2>2. replays' \in [File -> Nat]
    BY <1>6 DEF Allocate, TypeOK
  <2>3. faults' \in Nat
    BY <1>6, FaultType DEF Allocate, TypeOK
  <2>4. CASE LeaveProcessFiles("disk")
    BY <1>6, <2>1, <2>2, <2>3, <2>4, LeaveType DEF Allocate, TypeOK
  <2>5. CASE ~LeaveProcessFiles("disk")
    BY <1>6, <2>1, <2>2, <2>3, <2>5 DEF Allocate, TypeOK
  <2> QED BY <2>4, <2>5
<1>7. CASE FindReplays
  <2>1. PICK failed \in SUBSET replay :
          LET found == (replay \ failed) \cap Local IN
          /\ reqs' = {[file |-> f, at |-> "base", via |-> "allocation", stage |-> "queued"] :
                        f \in allocation}
                     \cup
                     {[file |-> f, at |-> IF f \in base THEN "base" ELSE "uploaded",
                       via |-> "replay", stage |-> "queued"] : f \in found}
          /\ toAbandon' = Missing(found)
          /\ blind' = blind \cup failed
    BY <1>7 DEF FindReplays
  <2>2. reqs' \in SUBSET Request
    BY <2>1 DEF Request, TypeOK
  <2>3. toAbandon' \in SUBSET File /\ blind' \in SUBSET File
    BY <2>1 DEF Missing, TypeOK
  <2>4. faults' \in Nat
    BY <1>7, FaultType DEF FindReplays, TypeOK
  <2> QED BY <1>7, <2>2, <2>3, <2>4 DEF FindReplays, TypeOK
<1>8. ASSUME NEW r \in reqs PROVE r \in Request /\ r.file \in File
  BY DEF TypeOK, Request
<1>9. ASSUME NEW r \in reqs, Upload(r) PROVE TypeOK'
  <2>1. puts' \in [File -> Nat] /\ remote' \in SUBSET File
    BY <1>8, <1>9 DEF Upload, TypeOK
  <2>2. reqs' \in SUBSET Request
    BY <1>8, <1>9, SentType DEF Upload, TypeOK
  <2> QED BY <1>9, <2>1, <2>2 DEF Upload, TypeOK
<1>10. ASSUME NEW r \in reqs, UploadFails(r) PROVE TypeOK'
  <2>1. puts' \in [File -> Nat] /\ remote' \in SUBSET File
    BY <1>8, <1>10 DEF UploadFails, TypeOK
  <2> QED BY <1>10, <2>1, FaultType DEF UploadFails, TypeOK
<1>11. ASSUME NEW r \in reqs, Mark(r) PROVE TypeOK'
  BY <1>8, <1>11 DEF Mark, TypeOK
<1>12. ASSUME NEW r \in reqs, MarkFails(r) PROVE TypeOK'
  BY <1>12, FaultType DEF MarkFails, TypeOK
<1>13. CASE AbandonFiles
  <2>1. abandoned' \in SUBSET File /\ known' \in SUBSET File /\ faults' \in Nat
    BY <1>13, FaultType DEF AbandonFiles, TypeOK
  <2>2. CASE LeaveProcessFiles("disk")
    BY <1>13, <2>1, <2>2, LeaveType DEF AbandonFiles, TypeOK
  <2>3. CASE ~LeaveProcessFiles("disk")
    BY <1>13, <2>1, <2>3 DEF AbandonFiles, TypeOK
  <2> QED BY <2>2, <2>3
<1>14. CASE PurgeFilesBefore
  <2>1. uploaded' \in SUBSET File /\ faults' \in Nat
    BY <1>14, RemoveShrinks, FaultType DEF PurgeFilesBefore, TypeOK
  <2> QED BY <1>14, <2>1 DEF PurgeFilesBefore, TypeOK
<1>15. CASE PurgeOldestPercentage
  <2>1. uploaded' \in SUBSET File /\ faults' \in Nat
    BY <1>15, RemoveShrinks, FaultType DEF PurgeOldestPercentage, TypeOK
  <2> QED BY <1>15, <2>1 DEF PurgeOldestPercentage, TypeOK
<1>16. CASE HandleDiskFails
  BY <1>16, FaultType DEF HandleDiskFails, TypeOK
<1>17. CASE Crash
  BY <1>17, FaultType DEF Crash, TypeOK
<1>18. CASE Restart
  BY <1>18 DEF Restart, TypeOK
<1>19. CASE UNCHANGED vars
  BY <1>19 DEF vars, TypeOK
<1> QED
  BY <1>1, <1>2, <1>3, <1>4, <1>5, <1>6, <1>7, <1>9, <1>10, <1>11, <1>12, <1>13, <1>14,
     <1>15, <1>16, <1>17, <1>18, <1>19 DEF Next, CycleStep, AllocateChunk, WorkerStep

(* Every variable of the shipper, its volume and its backend keeps its     *)
(* type.                                                                   *)
THEOREM TypeCorrect == Spec => []TypeOK
<1> QED BY TypeInit, TypeStep, PTL DEF Spec

-----------------------------------------------------------------------------
(* Every action keeps the invariant *)

LEMMA ProduceKeeps ==
  ASSUME TypeOK, SafetyInv, NEW f \in File, Produce(f) PROVE SafetyInv'
<1> USE DEF SafetyInv, Local, backend, memory, history
<1>1. f \notin made /\ made' = made \cup {f} /\ base' = base \cup {f} /\ uploaded' = uploaded
      /\ UNCHANGED <<backend, memory, history>>
  BY DEF Produce
<1>2. MadeInv' /\ SentInv'
  BY <1>1 DEF MadeInv, SentInv
<1>3. NothingLost' /\ UploadedIsShipped'
  BY <1>1 DEF MadeInv, NothingLost, UploadedIsShipped
<1>4. AbandonedIsGone'
  BY <1>1 DEF MadeInv, AbandonedIsGone
<1> QED BY <1>2, <1>3, <1>4

LEMMA AllocateKeeps ==
  ASSUME TypeOK, SafetyInv, NEW A \in SUBSET Chunk, NEW R \in SUBSET known, Allocate(A, R)
  PROVE  SafetyInv'
<1> USE DEF SafetyInv, Local
<1>1. UNCHANGED <<made, base, uploaded, remote, abandoned, blind>>
  BY DEF Allocate
<1>2. known' \subseteq made /\ todo' \subseteq made /\ allocation' \subseteq made
      /\ replay' \subseteq made
  BY ChunkIsListed DEF Allocate, LeaveProcessFiles, MadeInv
<1>3. reqs' \subseteq reqs /\ toAbandon' \subseteq toAbandon
  BY DEF Allocate, LeaveProcessFiles
<1> QED BY <1>1, <1>2, <1>3 DEF MadeInv, SentInv, NothingLost, UploadedIsShipped, AbandonedIsGone

LEMMA FindReplaysKeeps ==
  ASSUME TypeOK, SafetyInv, FindReplays PROVE SafetyInv'
<1> USE DEF SafetyInv
<1>1. PICK failed \in SUBSET replay :
        LET found == (replay \ failed) \cap Local IN
        /\ reqs' = {[file |-> f, at |-> "base", via |-> "allocation", stage |-> "queued"] :
                      f \in allocation}
                   \cup
                   {[file |-> f, at |-> IF f \in base THEN "base" ELSE "uploaded",
                     via |-> "replay", stage |-> "queued"] : f \in found}
        /\ toAbandon' = Missing(found)
        /\ blind' = blind \cup failed
  BY DEF FindReplays
<1>2. UNCHANGED <<volume, backend, todo, allocation, replay>>
  BY DEF FindReplays
<1>3. \A r \in reqs' : r.stage = "queued" /\ r.file \in allocation \cup replay
  BY <1>1
<1>4. MadeInv' /\ SentInv'
  BY <1>2, <1>3 DEF MadeInv, SentInv, Local, volume, backend
<1>5. AbandonedIsGone'
  <2> SUFFICES ASSUME NEW f \in (abandoned' \cup toAbandon') \ blind'
               PROVE  f \in remote' /\ f \notin Local'
    BY DEF AbandonedIsGone
  <2>1. Local' = Local /\ remote' = remote /\ abandoned' = abandoned
    BY <1>2 DEF Local, volume, backend
  <2>2. CASE f \in abandoned
    BY <1>1, <2>1, <2>2 DEF AbandonedIsGone
  <2>3. CASE f \in toAbandon'
    <3>1. f \in replay /\ f \notin failed /\ f \notin Local
      BY <1>1, <2>3 DEF Missing
    <3>2. f \in base \cup remote
      BY <3>1 DEF MadeInv, NothingLost
    <3> QED BY <2>1, <3>1, <3>2 DEF Local
  <2> QED BY <2>1, <2>2, <2>3
<1>6. NothingLost' /\ UploadedIsShipped'
  BY <1>2 DEF NothingLost, UploadedIsShipped, volume, backend
<1> QED BY <1>4, <1>5, <1>6

(* A request ends, or is sent after its file has been stored. *)
LEMMA UploadKeeps ==
  ASSUME TypeOK, SafetyInv, NEW r \in reqs, Upload(r) \/ UploadFails(r) PROVE SafetyInv'
<1> USE DEF SafetyInv, volume
<1>1. UNCHANGED <<made, base, uploaded, known, abandoned, todo, allocation, replay, toAbandon,
                 blind>>
  BY DEF Upload, UploadFails
<1>2. r.file \in made
  BY DEF MadeInv
<1>3. remote \subseteq remote' /\ remote' \subseteq made
  BY <1>2 DEF Upload, UploadFails, MadeInv
<1>4. \A q \in reqs' : q \in reqs \/ (q.file = r.file /\ r.file \in remote')
  <2>1. r \in Request
    BY DEF TypeOK
  <2> QED BY <2>1, SentType DEF Upload, UploadFails
<1>5. MadeInv' /\ SentInv'
  BY <1>1, <1>2, <1>3, <1>4 DEF MadeInv, SentInv, Local
<1>6. NothingLost' /\ UploadedIsShipped' /\ AbandonedIsGone'
  BY <1>1, <1>3 DEF NothingLost, UploadedIsShipped, AbandonedIsGone, Local
<1> QED BY <1>5, <1>6

(* The file of a finished request is stored, so its local copy may go. *)
LEMMA MarkKeeps ==
  ASSUME TypeOK, SafetyInv, NEW r \in reqs, Mark(r) PROVE SafetyInv'
<1> USE DEF SafetyInv, backend, history
<1>1. UNCHANGED <<made, backend, todo, allocation, replay, toAbandon, blind>>
      /\ reqs' \subseteq reqs
  BY DEF Mark
<1>2. r.file \in remote
  BY DEF SentInv, Mark
<1>3. /\ base \ {r.file} \subseteq base' /\ base' \subseteq base
      /\ uploaded' \subseteq uploaded \cup ({r.file} \cap base)
      /\ base' \cap uploaded' \subseteq base \cap uploaded
  BY DEF Mark
<1>4. MadeInv' /\ SentInv'
  BY <1>1, <1>3 DEF MadeInv, SentInv, Local
<1>5. NothingLost' /\ UploadedIsShipped'
  BY <1>1, <1>2, <1>3 DEF NothingLost, UploadedIsShipped
<1>6. AbandonedIsGone'
  BY <1>1, <1>3 DEF AbandonedIsGone, Local
<1> QED BY <1>4, <1>5, <1>6

(* The purges take stored files only; everything else leaves the volume,   *)
(* the object store and the made files alone.                              *)
LEMMA QuietKeeps ==
  ASSUME SafetyInv,
         UNCHANGED <<made, base, remote, blind>>, uploaded' \subseteq uploaded,
         known' \subseteq known \cup todo, todo' \subseteq todo \cup base,
         allocation' \subseteq allocation, replay' \subseteq replay, reqs' \subseteq reqs,
         abandoned' \cup toAbandon' \subseteq abandoned \cup toAbandon
  PROVE  SafetyInv'
<1> USE DEF SafetyInv, Local
<1>1. MadeInv' /\ SentInv'
  BY DEF MadeInv, SentInv
<1>2. NothingLost' /\ UploadedIsShipped'
  BY DEF NothingLost, UploadedIsShipped
<1>3. AbandonedIsGone'
  BY DEF AbandonedIsGone
<1> QED BY <1>1, <1>2, <1>3

LEMMA SafetyInvStep == TypeOK /\ SafetyInv /\ [Next]_vars => SafetyInv'
<1> SUFFICES ASSUME TypeOK, SafetyInv, [Next]_vars PROVE SafetyInv'
  OBVIOUS
<1> USE DEF volume, backend, memory, history
<1>1. ASSUME NEW f \in File, Produce(f) PROVE SafetyInv'
  BY <1>1, ProduceKeeps
<1>2. CASE UsageChanges \/ LockExpires \/ StartCycle \/ CancelledCycle \/ Restart \/ UNCHANGED vars
  BY <1>2, QuietKeeps DEF UsageChanges, LockExpires, StartCycle, CancelledCycle, Restart,
     vars
<1>3. CASE AllocateFails
  BY <1>3, QuietKeeps, ChunkIsListed DEF AllocateFails, LeaveProcessFiles
<1>4. ASSUME NEW A \in SUBSET Chunk, NEW R \in SUBSET known, Allocate(A, R) PROVE SafetyInv'
  BY <1>4, AllocateKeeps
<1>5. CASE FindReplays
  BY <1>5, FindReplaysKeeps
<1>6. ASSUME NEW r \in reqs, Upload(r) \/ UploadFails(r) PROVE SafetyInv'
  BY <1>6, UploadKeeps
<1>7. ASSUME NEW r \in reqs, Mark(r) PROVE SafetyInv'
  BY <1>7, MarkKeeps
<1>8. ASSUME NEW r \in reqs, MarkFails(r) PROVE SafetyInv'
  BY <1>8, QuietKeeps DEF MarkFails
<1>9. CASE AbandonFiles
  BY <1>9, QuietKeeps DEF AbandonFiles, LeaveProcessFiles
<1>10. CASE PurgeFilesBefore
  BY <1>10, QuietKeeps, RemoveShrinks DEF PurgeFilesBefore
<1>11. CASE PurgeOldestPercentage
  BY <1>11, QuietKeeps, RemoveShrinks DEF PurgeOldestPercentage
<1>12. CASE HandleDiskFails
  BY <1>12, QuietKeeps DEF HandleDiskFails
<1>13. CASE Crash
  BY <1>13, QuietKeeps DEF Crash
<1> QED
  BY <1>1, <1>2, <1>3, <1>4, <1>5, <1>6, <1>7, <1>8, <1>9, <1>10, <1>11, <1>12, <1>13
  DEF Next, CycleStep, AllocateChunk, WorkerStep

LEMMA IInvInit == Init => IInv
<1> SUFFICES ASSUME Init PROVE IInv
  OBVIOUS
<1>1. SafetyInv
  BY DEF SafetyInv, Init, MadeInv, SentInv, NothingLost, UploadedIsShipped, AbandonedIsGone, Local
<1> QED BY <1>1, TypeInit DEF IInv

LEMMA IInvAlways == Spec => []IInv
<1>1. IInv /\ [Next]_vars => IInv'
  BY TypeStep, SafetyInvStep DEF IInv
<1> QED BY <1>1, IInvInit, PTL DEF Spec

-----------------------------------------------------------------------------
(* Safety *)

(* Whatever files are made, however they are chunked, and however crashes, *)
(* lost replies, replays and purges interleave: every file the collector   *)
(* has finished is in the base directory until the object store has it.    *)
THEOREM FilesAreNotLost == Spec => []NothingLost
<1>1. IInv => NothingLost
  BY DEF IInv, SafetyInv
<1> QED BY <1>1, IInvAlways, PTL

(* The purges and the second listing are harmless: what is in "uploaded"   *)
(* is stored remotely and not in the base directory.                       *)
THEOREM PurgesAreHarmless == Spec => []UploadedIsShipped
<1>1. IInv => UploadedIsShipped
  BY DEF IInv, SafetyInv
<1> QED BY <1>1, IInvAlways, PTL

(* Unless the search itself failed, an abandoned replay is of a stored     *)
(* file without a local copy.                                              *)
THEOREM AbandonsAreHarmless == Spec => []AbandonedIsGone
<1>1. IInv => AbandonedIsGone
  BY DEF IInv, SafetyInv
<1> QED BY <1>1, IInvAlways, PTL

-----------------------------------------------------------------------------
(* Refinement of FileDelivery *)

LEMMA PhaseStutters ==
  ASSUME remote' = remote, Local' \ remote = Local \ remote
  PROVE  UNCHANGED Phase
<1>1. \A f \in File : (f \in Local' <=> f \in Local) \/ f \in remote
  OBVIOUS
<1> QED BY <1>1 DEF Phase

LEMMA ProduceRefines ==
  ASSUME IInv, NEW f \in File, Produce(f) PROVE Delivery!Produce(f)
<1>1. f \notin Local /\ f \notin remote
  BY DEF Produce, IInv, SafetyInv, MadeInv
<1>2. remote' = remote /\ Local' = Local \cup {f}
  BY DEF Produce, Local, backend
<1>3. Phase' = [Phase EXCEPT ![f] = "held"]
  BY <1>1, <1>2 DEF Phase
<1> QED BY <1>1, <1>3 DEF Delivery!Produce, Phase

(* The object store gets a file that is held locally, or has it already.   *)
LEMMA UploadRefines ==
  ASSUME IInv, NEW r \in reqs, UNCHANGED <<base, uploaded>>, remote' = remote \cup {r.file}
  PROVE  Delivery!Store(r.file) \/ UNCHANGED Phase
<1>1. r.file \in File /\ r.file \in base \cup remote
  BY DEF IInv, SafetyInv, MadeInv, NothingLost, TypeOK, Request
<1>2. CASE r.file \in remote
  <2>1. remote' = remote
    BY <1>2
  <2> QED BY <2>1, PhaseStutters DEF Local
<1>3. CASE r.file \notin remote
  <2>1. Phase[r.file] = "held"
    BY <1>1, <1>3 DEF Phase, Local
  <2>2. Phase' = [Phase EXCEPT ![r.file] = "stored"]
    BY <1>1 DEF Phase, Local
  <2> QED BY <2>1, <2>2 DEF Delivery!Store
<1> QED BY <1>2, <1>3

LEMMA StepRefines == IInv /\ [Next]_vars => [Delivery!Next]_Phase
<1> SUFFICES ASSUME IInv, [Next]_vars PROVE [Delivery!Next]_Phase
  OBVIOUS
<1> USE DEF volume, backend, memory, history
<1>1. ASSUME NEW f \in File, Produce(f) PROVE Delivery!Next
  BY <1>1, ProduceRefines DEF Delivery!Next
<1>2. ASSUME UNCHANGED <<base, uploaded, remote>> PROVE UNCHANGED Phase
  BY <1>2, PhaseStutters DEF Local
<1>3. ASSUME UNCHANGED <<base, remote>>, uploaded' \subseteq uploaded PROVE UNCHANGED Phase
  <2>1. uploaded \subseteq remote
    BY DEF IInv, SafetyInv, UploadedIsShipped
  <2> QED BY <1>3, <2>1, PhaseStutters DEF Local
<1>4. CASE UsageChanges \/ LockExpires \/ StartCycle \/ CancelledCycle \/ FindReplays
           \/ AbandonFiles \/ HandleDiskFails \/ Crash \/ Restart \/ UNCHANGED vars
  BY <1>2, <1>4 DEF UsageChanges, LockExpires, StartCycle, CancelledCycle, FindReplays,
     AbandonFiles, HandleDiskFails, Crash, Restart, vars
<1>5. CASE AllocateFails \/ AllocateChunk
  BY <1>2, <1>5 DEF AllocateFails, AllocateChunk, Allocate
<1>6. CASE PurgeFilesBefore \/ PurgeOldestPercentage
  BY <1>3, <1>6, RemoveShrinks DEF PurgeFilesBefore, PurgeOldestPercentage
<1>7. ASSUME NEW r \in reqs, Upload(r) \/ UploadFails(r) PROVE [Delivery!Next]_Phase
  <2>1. UNCHANGED <<base, uploaded>> /\ (remote' = remote \/ remote' = remote \cup {r.file})
    BY <1>7 DEF Upload, UploadFails
  <2>2. r.file \in File
    BY DEF IInv, TypeOK, Request
  <2> QED BY <1>2, <2>1, <2>2, UploadRefines DEF Delivery!Next
<1>8. ASSUME NEW r \in reqs, Mark(r) \/ MarkFails(r) PROVE UNCHANGED Phase
  <2>1. r.file \in remote
    BY <1>8 DEF Mark, MarkFails, IInv, SafetyInv, SentInv
  <2>2. remote' = remote /\ base \ {r.file} \subseteq base' /\ base' \subseteq base
        /\ uploaded \subseteq uploaded' /\ uploaded' \subseteq uploaded \cup {r.file}
    BY <1>8 DEF Mark, MarkFails
  <2> QED BY <2>1, <2>2, PhaseStutters DEF Local
<1> QED
  BY <1>1, <1>4, <1>5, <1>6, <1>7, <1>8 DEF Next, CycleStep, WorkerStep

(* The shipper implements the safety part of FileDelivery: seen from       *)
(* outside, its only steps take a file from "new" to "held" to "stored",   *)
(* never back.                                                             *)
THEOREM RefinesFileDelivery == Spec => Delivery!Safety
<1>1. Init => Delivery!Init
  BY DEF Init, Delivery!Init, Phase, Local
<1> QED BY <1>1, StepRefines, IInvAlways, PTL DEF Spec, Delivery!Safety

(* Outside the purges no step takes the last local copy of a cost metric   *)
(* file, which a replay may still ask for.                                 *)
THEOREM CostFilesAreKept == Spec => CostFilesKept
<1>1. [Next]_vars => (pc \notin {"disk", "purge"} => Local \cap Cost \subseteq Local')
  <2> SUFFICES ASSUME [Next]_vars, pc \notin {"disk", "purge"}
               PROVE  Local \cap Cost \subseteq Local'
    OBVIOUS
  <2>1. ASSUME NEW r \in reqs, Mark(r) PROVE Local \cap Cost \subseteq Local'
    BY <2>1 DEF Mark, Local
  <2>2. CASE \E f \in File : Produce(f)
    BY <2>2 DEF Produce, Local
  <2>3. CASE \E r \in reqs : Upload(r) \/ UploadFails(r) \/ MarkFails(r)
    BY <2>3 DEF Upload, UploadFails, MarkFails, Local, volume
  <2>4. CASE UsageChanges \/ LockExpires \/ StartCycle \/ CancelledCycle \/ AllocateFails
             \/ AllocateChunk \/ FindReplays \/ AbandonFiles \/ Crash \/ Restart \/ UNCHANGED vars
    BY <2>4 DEF UsageChanges, LockExpires, StartCycle, CancelledCycle, AllocateFails,
       AllocateChunk, Allocate, FindReplays, AbandonFiles, Crash, Restart, vars, volume, Local
  <2> QED
    BY <2>1, <2>2, <2>3, <2>4 DEF Next, CycleStep, WorkerStep, PurgeFilesBefore,
       PurgeOldestPercentage, HandleDiskFails
<1> QED BY <1>1, PTL DEF Spec, CostFilesKept

-----------------------------------------------------------------------------
(* Every upload has a cause: the invariant *)

(* A request belongs to a file of the chunk, or to a replay, at most one    *)
(* to each.                                                                *)
RequestInv ==
  /\ pc # "upload" => reqs = {}
  /\ pc = "find" => allocation \cap todo = {}
  /\ \A r \in reqs : r.via = "allocation" => r.at = "base" /\ r.file \notin todo
  /\ \A r, q \in reqs : r.file = q.file /\ r.via = q.via => r = q

(* The file may be put once more without a fault or a replay: it is on its *)
(* way to the worker, or will be listed (again), because nobody is about   *)
(* to take it out of the base directory.                                   *)
Due(f) ==
  \/ f \notin made
  \/ f \in todo
  \/ pc = "find" /\ f \in allocation
  \/ \E r \in reqs : r.file = f /\ r.via = "allocation" /\ r.stage = "queued"
  \/ f \in base /\ \A r \in reqs : ~(r.file = f /\ r.at = "base" /\ r.stage = "sent")

(* A replay of it has been asked for and is not served yet. *)
Asked(f) ==
  \/ pc = "find" /\ f \in replay
  \/ \E r \in reqs : r.file = f /\ r.via = "replay" /\ r.stage = "queued"

One(due) == IF due THEN 1 ELSE 0

Caused(f) == puts[f] + One(Due(f)) + One(Asked(f)) <= 1 + faults + replays[f]

PutsInv == \A f \in File : Caused(f)

-----------------------------------------------------------------------------
(* Every upload has a cause: the steps *)

LEMMA RequestStep == TypeOK /\ RequestInv /\ [Next]_vars => RequestInv'
<1> SUFFICES ASSUME TypeOK, RequestInv, [Next]_vars PROVE RequestInv'
  OBVIOUS
<1> USE DEF volume, backend, memory, history
<1>1. ASSUME UNCHANGED <<pc, reqs, allocation, todo>> PROVE RequestInv'
  BY <1>1 DEF RequestInv
<1>2. ASSUME reqs' = {}, pc' # "find" PROVE RequestInv'
  BY <1>2 DEF RequestInv
<1>3. CASE (\E f \in File : Produce(f)) \/ UsageChanges \/ LockExpires \/ UNCHANGED vars
  BY <1>1, <1>3 DEF Produce, UsageChanges, LockExpires, vars
<1>4. CASE StartCycle \/ CancelledCycle \/ Restart \/ PurgeFilesBefore
           \/ PurgeOldestPercentage \/ HandleDiskFails
  BY <1>2, <1>4 DEF StartCycle, CancelledCycle, Restart, PurgeFilesBefore,
                    PurgeOldestPercentage, HandleDiskFails, RequestInv
<1>5. CASE AllocateFails \/ AbandonFiles \/ Crash
  BY <1>2, <1>5 DEF AllocateFails, AbandonFiles, Crash, LeaveProcessFiles
<1>6. CASE AllocateChunk
  BY <1>6 DEF AllocateChunk, Allocate, LeaveProcessFiles, RequestInv
<1>7. CASE FindReplays
  <2>1. PICK failed \in SUBSET replay :
          LET found == (replay \ failed) \cap Local IN
          reqs' = {[file |-> f, at |-> "base", via |-> "allocation", stage |-> "queued"] :
                     f \in allocation}
                  \cup
                  {[file |-> f, at |-> IF f \in base THEN "base" ELSE "uploaded",
                    via |-> "replay", stage |-> "queued"] : f \in found}
    BY <1>7 DEF FindReplays
  <2>2. \A r \in reqs' : \/ r.file \in allocation /\ r.via = "allocation" /\ r.at = "base"
                            /\ r = [file |-> r.file, at |-> "base", via |-> "allocation",
                                    stage |-> "queued"]
                         \/ r.via = "replay"
                            /\ r = [file |-> r.file,
                                    at |-> IF r.file \in base THEN "base" ELSE "uploaded",
                                    via |-> "replay", stage |-> "queued"]
    BY <2>1
  <2>3. \A r, q \in reqs' : r.file = q.file /\ r.via = q.via => r = q
    BY <2>2
  <2>4. pc = "find" /\ pc' = "upload" /\ todo' = todo
    BY <1>7 DEF FindReplays
  <2> QED
    BY <2>2, <2>3, <2>4 DEF RequestInv
<1>8. ASSUME NEW r \in reqs, Upload(r) PROVE RequestInv'
  <2>1. r \in Request
    BY DEF TypeOK
  <2>2. Sent(r).file = r.file /\ Sent(r).via = r.via /\ Sent(r).at = r.at
    BY <2>1 DEF Request, Sent
  <2>3. UNCHANGED <<pc, todo>> /\ reqs' = (reqs \ {r}) \cup {Sent(r)} /\ pc = "upload"
    BY <1>8 DEF Upload
  <2> QED
    BY <2>2, <2>3 DEF RequestInv
<1>9. ASSUME NEW r \in reqs, UploadFails(r) \/ Mark(r) \/ MarkFails(r) PROVE RequestInv'
  BY <1>9 DEF UploadFails, Mark, MarkFails, RequestInv
<1> QED
  BY <1>3, <1>4, <1>5, <1>6, <1>7, <1>8, <1>9 DEF Next, CycleStep, WorkerStep

(* The sum for one file, from what a step does to its parts. *)
LEMMA Balance ==
  ASSUME TypeOK, TypeOK', NEW f \in File, Caused(f),
         \/ /\ puts'[f] = puts[f] /\ faults' >= faults /\ replays'[f] = replays[f]
            /\ (Due(f)' => Due(f)) /\ (Asked(f)' => Asked(f))
         \/ /\ puts'[f] = puts[f] /\ faults' >= faults /\ replays'[f] = replays[f] + 1
            /\ Due(f)' => Due(f)
         \/ /\ puts'[f] = puts[f] /\ faults' = faults + 1 /\ replays'[f] = replays[f]
            /\ Asked(f)' => Asked(f)
         \/ /\ puts'[f] = puts[f] + 1 /\ faults' = faults + 1 /\ replays'[f] = replays[f]
            /\ (Due(f)' => Due(f)) /\ (Asked(f)' => Asked(f))
         \/ /\ puts'[f] = puts[f] + 1 /\ faults' = faults /\ replays'[f] = replays[f]
            /\ \/ Due(f) /\ ~Due(f)' /\ (Asked(f)' => Asked(f))
               \/ Asked(f) /\ ~Asked(f)' /\ (Due(f)' => Due(f))
  PROVE  Caused(f)'
<1>1. /\ puts[f] \in Nat /\ puts'[f] \in Nat /\ replays[f] \in Nat /\ replays'[f] \in Nat
      /\ faults \in Nat /\ faults' \in Nat
  BY DEF TypeOK
<1> DEFINE d == One(Due(f))  a == One(Asked(f))  dd == One(Due(f)')  aa == One(Asked(f)')
<1>2. d \in 0..1 /\ a \in 0..1 /\ dd \in 0..1 /\ aa \in 0..1
  BY DEF One
<1>3. puts[f] + d + a <= 1 + faults + replays[f]
  BY DEF Caused
<1>4. /\ (Due(f)' => Due(f)) => dd <= d
      /\ (Asked(f)' => Asked(f)) => aa <= a
      /\ Due(f) /\ ~Due(f)' => d = 1 /\ dd = 0
      /\ Asked(f) /\ ~Asked(f)' => a = 1 /\ aa = 0
  BY DEF One
<1> HIDE DEF d, a, dd, aa
<1>5. \/ /\ puts'[f] = puts[f] /\ faults' >= faults /\ replays'[f] = replays[f]
         /\ dd <= d /\ aa <= a
      \/ puts'[f] = puts[f] /\ faults' >= faults /\ replays'[f] = replays[f] + 1 /\ dd <= d
      \/ puts'[f] = puts[f] /\ faults' = faults + 1 /\ replays'[f] = replays[f] /\ aa <= a
      \/ /\ puts'[f] = puts[f] + 1 /\ faults' = faults + 1 /\ replays'[f] = replays[f]
         /\ dd <= d /\ aa <= a
      \/ /\ puts'[f] = puts[f] + 1 /\ faults' = faults /\ replays'[f] = replays[f]
         /\ \/ d = 1 /\ dd = 0 /\ aa <= a
            \/ a = 1 /\ aa = 0 /\ dd <= d
  BY <1>4
<1>6. puts'[f] + dd + aa <= 1 + faults' + replays'[f]
  BY <1>1, <1>2, <1>3, <1>5
<1> QED
  BY <1>6 DEF Caused, d, a, dd, aa

(* A step that sends no request. *)
LEMMA QuietPuts ==
  ASSUME TypeOK, TypeOK', PutsInv, UNCHANGED <<puts, replays>>, faults' >= faults,
         \A f \in File : (Due(f)' => Due(f)) /\ (Asked(f)' => Asked(f))
  PROVE  PutsInv'
  BY Balance DEF PutsInv

(* A fault may put the file back on the list; nothing makes it asked for.  *)
LEMMA FaultyPuts ==
  ASSUME TypeOK, TypeOK', PutsInv, UNCHANGED <<puts, replays>>, Fault,
         \A f \in File : Asked(f)' => Asked(f)
  PROVE  PutsInv'
  BY Balance DEF PutsInv, Fault

LEMMA FaultIsMore == ASSUME TypeOK, UNCHANGED faults \/ Fault PROVE faults' >= faults
  BY DEF TypeOK, Fault

LEMMA AllocatePuts ==
  ASSUME TypeOK, TypeOK', RequestInv, PutsInv,
         NEW A \in SUBSET Chunk, NEW R \in SUBSET known, Allocate(A, R)
  PROVE  PutsInv'
<1>1. puts' = puts /\ faults' >= faults
  BY FaultIsMore DEF Allocate
<1>2. reqs = {} /\ reqs' = {} /\ pc = "allocate"
  BY DEF Allocate, LeaveProcessFiles, RequestInv
<1>3. \A f : Due(f)' => Due(f)
  BY <1>2, ChunkIsListed DEF Allocate, LeaveProcessFiles, Due
<1>4. R \subseteq File
  BY DEF TypeOK
<1>5. \A f \in File : replays'[f] = IF f \in R THEN replays[f] + 1 ELSE replays[f]
  BY DEF Allocate
<1>6. \A f : Asked(f)' => f \in R
  BY <1>2 DEF Allocate, LeaveProcessFiles, Asked
<1>7. ASSUME NEW f \in File PROVE Caused(f)'
  BY <1>1, <1>3, <1>5, <1>6, Balance DEF PutsInv
<1> QED
  BY <1>7 DEF PutsInv

LEMMA FindPuts ==
  ASSUME TypeOK, TypeOK', RequestInv, PutsInv, FindReplays
  PROVE  PutsInv'
<1>1. PICK failed \in SUBSET replay :
        LET found == (replay \ failed) \cap Local IN
        reqs' = {[file |-> f, at |-> "base", via |-> "allocation", stage |-> "queued"] :
                   f \in allocation}
                \cup
                {[file |-> f, at |-> IF f \in base THEN "base" ELSE "uploaded",
                  via |-> "replay", stage |-> "queued"] : f \in found}
  BY DEF FindReplays
<1>2. \A r \in reqs' : \/ r.via = "allocation" /\ r.file \in allocation
                       \/ r.via = "replay" /\ r.file \in replay
  BY <1>1
<1>3. /\ pc = "find" /\ pc' = "upload" /\ reqs = {}
      /\ UNCHANGED <<made, base, todo, puts, replays>>
  BY DEF FindReplays, volume, RequestInv
<1>4. faults' >= faults
  BY FaultIsMore DEF FindReplays
<1>5. \A f : (Due(f)' => Due(f)) /\ (Asked(f)' => Asked(f))
  BY <1>2, <1>3 DEF Due, Asked
<1> QED
  BY <1>3, <1>4, <1>5, QuietPuts

(* A put uses up what its request stands for. *)
LEMMA UploadPuts ==
  ASSUME TypeOK, TypeOK', IInv, RequestInv, PutsInv, NEW r \in reqs, Upload(r)
  PROVE  PutsInv'
<1>1. /\ UNCHANGED <<made, base, uploaded, todo, pc, allocation, replay, replays, faults>>
      /\ reqs' = (reqs \ {r}) \cup {Sent(r)}
      /\ pc = "upload" /\ r.stage = "queued"
      /\ puts' = [puts EXCEPT ![r.file] = @ + 1]
  BY DEF Upload, volume
<1>2. r \in Request /\ r.file \in File /\ r.file \in made
  BY DEF TypeOK, Request, IInv, SafetyInv, MadeInv
<1>3. /\ Sent(r).file = r.file /\ Sent(r).via = r.via /\ Sent(r).at = r.at
      /\ Sent(r).stage = "sent"
  BY <1>2 DEF Request, Sent
<1>4. \A f : (Due(f)' => Due(f)) /\ (Asked(f)' => Asked(f))
  BY <1>1, <1>3 DEF Due, Asked
<1>5. puts'[r.file] = puts[r.file] + 1 /\ \A f \in File \ {r.file} : puts'[f] = puts[f]
  BY <1>1, <1>2 DEF TypeOK
<1>6. r.via = "allocation" \/ r.via = "replay"
  BY <1>2 DEF Request
<1>7. CASE r.via = "allocation"
  <2>1. Due(r.file)
    BY <1>1, <1>7 DEF Due
  <2>2. r.at = "base" /\ r.file \notin todo
    BY <1>7 DEF RequestInv
  <2>3. \A q \in reqs \ {r} : ~(q.file = r.file /\ q.via = "allocation")
    BY <1>7 DEF RequestInv
  <2>4. \A q \in reqs' : ~(q.file = r.file /\ q.via = "allocation" /\ q.stage = "queued")
    BY <1>1, <1>3, <2>3
  <2>5. Sent(r) \in reqs'
    BY <1>1
  <2>6. ~Due(r.file)'
    BY <1>1, <1>2, <1>3, <2>2, <2>4, <2>5 DEF Due
  <2> QED
    BY <1>1, <1>2, <1>4, <1>5, <2>1, <2>6, Balance, FaultIsMore DEF PutsInv
<1>8. CASE r.via = "replay"
  <2>1. Asked(r.file)
    BY <1>1, <1>8 DEF Asked
  <2>2. \A q \in reqs \ {r} : ~(q.file = r.file /\ q.via = "replay")
    BY <1>8 DEF RequestInv
  <2>3. ~Asked(r.file)'
    BY <1>1, <1>3, <2>2 DEF Asked
  <2> QED
    BY <1>1, <1>2, <1>4, <1>5, <2>1, <2>3, Balance, FaultIsMore DEF PutsInv
<1> QED
  BY <1>6, <1>7, <1>8

LEMMA UploadFailsPuts ==
  ASSUME TypeOK, TypeOK', PutsInv, NEW r \in reqs, UploadFails(r)
  PROVE  PutsInv'
<1>1. /\ UNCHANGED <<made, base, todo, pc, allocation, replay, replays>>
      /\ reqs' = reqs \ {r} /\ r.stage = "queued" /\ faults' = faults + 1
  BY DEF UploadFails, volume, Fault
<1>2. \A f : (Due(f)' => Due(f)) /\ (Asked(f)' => Asked(f))
  BY <1>1 DEF Due, Asked
<1>3. r.file \in File
  BY DEF TypeOK, Request
<1>4. \A f \in File : puts'[f] = puts[f] \/ puts'[f] = puts[f] + 1
  BY <1>3 DEF UploadFails, TypeOK
<1>5. faults' >= faults
  BY <1>1 DEF TypeOK
<1> QED
  BY <1>1, <1>2, <1>4, <1>5, Balance DEF PutsInv

(* A file is marked where the request has found it, so that it is not      *)
(* listed again.                                                           *)
LEMMA MarkPuts ==
  ASSUME TypeOK, TypeOK', PutsInv, NEW r \in reqs, Mark(r)
  PROVE  PutsInv'
<1>1. /\ UNCHANGED <<made, todo, pc, allocation, replay, puts, replays, faults>>
      /\ reqs' = reqs \ {r} /\ r.stage = "sent"
      /\ base' \subseteq base /\ (r.at = "base" => r.file \notin base')
  BY DEF Mark, history
<1>2. \A f : (Due(f)' => Due(f)) /\ (Asked(f)' => Asked(f))
  BY <1>1 DEF Due, Asked
<1> QED
  BY <1>1, <1>2, QuietPuts, FaultIsMore

LEMMA PutsStep ==
  ASSUME IInv, TypeOK', RequestInv, PutsInv, [Next]_vars
  PROVE  PutsInv'
<1> USE DEF volume, backend, memory, history
<1>0. TypeOK
  BY DEF IInv
<1>1. ASSUME NEW f \in File, Produce(f) PROVE PutsInv'
  <2>1. /\ UNCHANGED <<todo, pc, allocation, replay, reqs, puts, replays, faults>>
        /\ made' = made \cup {f} /\ base' = base \cup {f} /\ f \notin made
    BY <1>1 DEF Produce
  <2>2. \A g : (Due(g)' => Due(g)) /\ (Asked(g)' => Asked(g))
    BY <2>1 DEF Due, Asked
  <2> QED
    BY <1>0, <2>1, <2>2, QuietPuts, FaultIsMore
<1>2. CASE UsageChanges \/ LockExpires \/ UNCHANGED vars
  <2>1. UNCHANGED <<made, base, todo, pc, allocation, replay, reqs, puts, replays, faults>>
    BY <1>2 DEF UsageChanges, LockExpires, vars
  <2>2. \A g : (Due(g)' => Due(g)) /\ (Asked(g)' => Asked(g))
    BY <2>1 DEF Due, Asked
  <2> QED
    BY <1>0, <2>1, <2>2, QuietPuts, FaultIsMore
<1>3. CASE StartCycle \/ CancelledCycle \/ Restart \/ PurgeFilesBefore
           \/ PurgeOldestPercentage \/ HandleDiskFails
  <2>1. /\ UNCHANGED <<made, base, puts, replays>> /\ pc # "upload" /\ pc' # "find"
        /\ UNCHANGED reqs /\ todo' \subseteq todo \cup base
        /\ UNCHANGED faults \/ Fault
    BY <1>3, RemoveShrinks DEF StartCycle, CancelledCycle, Restart, PurgeFilesBefore,
                    PurgeOldestPercentage, HandleDiskFails
  <2>2. reqs = {}
    BY <2>1 DEF RequestInv
  <2>3. \A g : (Due(g)' => Due(g)) /\ (Asked(g)' => Asked(g))
    BY <2>1, <2>2 DEF Due, Asked
  <2> QED
    BY <1>0, <2>1, <2>3, QuietPuts, FaultIsMore
<1>4. CASE AllocateFails \/ Crash
  <2>1. /\ UNCHANGED <<puts, replays>> /\ pc' # "find" /\ reqs' = {} /\ Fault
    BY <1>4 DEF AllocateFails, Crash, LeaveProcessFiles
  <2>2. \A g : Asked(g)' => Asked(g)
    BY <2>1 DEF Asked
  <2> QED
    BY <1>0, <2>1, <2>2, FaultyPuts
<1>5. CASE AllocateChunk
  BY <1>0, <1>5, AllocatePuts DEF AllocateChunk
<1>6. CASE FindReplays
  BY <1>0, <1>6, FindPuts
<1>7. ASSUME NEW r \in reqs, Upload(r) \/ UploadFails(r) \/ Mark(r) PROVE PutsInv'
  BY <1>0, <1>7, UploadPuts, UploadFailsPuts, MarkPuts
<1>8. ASSUME NEW r \in reqs, MarkFails(r) PROVE PutsInv'
  <2>1. UNCHANGED <<pc, replay, puts, replays>> /\ reqs' \subseteq reqs /\ Fault
    BY <1>8 DEF MarkFails
  <2>2. \A g : Asked(g)' => Asked(g)
    BY <2>1 DEF Asked
  <2> QED
    BY <1>0, <2>1, <2>2, FaultyPuts
<1>9. CASE AbandonFiles
  <2>1. /\ UNCHANGED <<made, base, puts, replays>> /\ pc' # "find"
        /\ reqs = {} /\ reqs' = {} /\ todo' \subseteq todo
        /\ UNCHANGED faults \/ Fault
    BY <1>9 DEF AbandonFiles, LeaveProcessFiles
  <2>2. \A g : (Due(g)' => Due(g)) /\ (Asked(g)' => Asked(g))
    BY <2>1 DEF Due, Asked
  <2> QED
    BY <1>0, <2>1, <2>2, QuietPuts, FaultIsMore
<1> QED
  BY <1>1, <1>2, <1>3, <1>4, <1>5, <1>6, <1>7, <1>8, <1>9 DEF Next, CycleStep, WorkerStep

(* The object store gets no file twice without a cause: for any files,     *)
(* chunks and interleaving of workers, crashes, lost replies and replays,  *)
(* a file is put once, and once more for every fault and every replay of   *)
(* it.                                                                     *)
THEOREM DuplicatesHaveCauses == Spec => []PutsAccounted
<1> DEFINE I == IInv /\ RequestInv /\ PutsInv
<1>1. Init => I
  <2> SUFFICES ASSUME Init PROVE I
    OBVIOUS
  <2>1. RequestInv
    BY DEF Init, RequestInv
  <2>2. ASSUME NEW f \in File PROVE Caused(f)
    <3>1. ~Asked(f) /\ puts[f] = 0 /\ replays[f] = 0 /\ faults = 0
      BY DEF Init, Asked
    <3> QED
      BY <3>1 DEF Caused, One
  <2> QED
    BY <2>1, <2>2, IInvInit DEF PutsInv
<1>2. I /\ [Next]_vars => I'
  <2>1. IInv /\ [Next]_vars => IInv' /\ TypeOK'
    BY TypeStep, SafetyInvStep DEF IInv
  <2> QED
    BY <2>1, RequestStep, PutsStep DEF IInv
<1>3. I => PutsAccounted
  <2> SUFFICES ASSUME I, NEW f \in File PROVE puts[f] <= 1 + faults + replays[f]
    BY DEF PutsAccounted
  <2>1. puts[f] \in Nat /\ faults \in Nat /\ replays[f] \in Nat
    BY DEF IInv, TypeOK
  <2>2. One(Due(f)) \in 0..1 /\ One(Asked(f)) \in 0..1
    BY DEF One
  <2> QED
    BY <2>1, <2>2 DEF PutsInv, Caused
<1> QED
  BY <1>1, <1>2, <1>3, PTL DEF Spec

-----------------------------------------------------------------------------
(* The purge *)

LEMMA Least ==
  ASSUME NEW S, S \subseteq Nat, S # {}
  PROVE  \E x \in S : \A y \in S : x <= y
<1>1. PICK x \in S : \A y \in S : ~(<<y, x>> \in OpToRel(<, Nat))
  BY NatLessThanWellFounded, WFMin
<1>2. \A y \in S : ~(y < x)
  BY <1>1 DEF OpToRel
<1> QED
  BY <1>2

(* The oldest files of a set are none of its younger ones, and not nothing. *)
LEMMA OldestFirst ==
  ASSUME NEW S, IsFiniteSet(S), S \subseteq Nat, NEW k \in Nat
  PROVE  \A f \in Oldest(S, k), g \in S \ Oldest(S, k) : f < g
<1> SUFFICES ASSUME NEW f \in Oldest(S, k), NEW g \in S \ Oldest(S, k), ~(f < g)
             PROVE  FALSE
  OBVIOUS
<1> DEFINE below(x) == {h \in S : h < x}
<1>1. f \in S /\ Cardinality(below(f)) < k /\ ~(Cardinality(below(g)) < k)
  BY DEF Oldest
<1>2. f \in Nat /\ g \in Nat /\ g <= f
  BY <1>1
<1>3. below(g) \subseteq below(f)
  <2>1. \A h \in S : h < g => h < f
    BY <1>2
  <2> QED
    BY <2>1
<1>4. IsFiniteSet(below(f)) /\ IsFiniteSet(below(g))
  BY FS_Subset
<1>5. /\ Cardinality(below(g)) <= Cardinality(below(f))
      /\ Cardinality(below(f)) \in Nat /\ Cardinality(below(g)) \in Nat
  BY <1>3, <1>4, FS_Subset, FS_CardinalityType
<1> HIDE DEF below
<1> QED
  BY <1>1, <1>5

LEMMA OldestIsSome ==
  ASSUME NEW S, S \subseteq Nat, S # {}, NEW k \in Nat \ {0}
  PROVE  Oldest(S, k) # {}
<1>1. PICK x \in S : \A y \in S : x <= y
  BY Least
<1>2. {g \in S : g < x} = {}
  <2>1. \A g \in S : ~(g < x)
    BY <1>1
  <2> QED
    BY <2>1
<1>3. Cardinality({g \in S : g < x}) = 0
  BY <1>2, FS_EmptySet
<1> QED
  BY <1>3 DEF Oldest

(* A percentage of some files is at least one file. *)
LEMMA SomeAreRemoved ==
  ASSUME NEW n \in Nat, NEW level
  PROVE  NumToRemove(n, CleanupPercentage(level)) \in Nat \ {0}
<1>1. CleanupPercentage(level) \in {25, 50, 70}
  BY DEF CleanupPercentage
<1>2. \A p \in {25, 50, 70} : n * p \in Nat /\ (n * p) \div 100 \in Nat /\ p > 0
  OBVIOUS
<1> QED
  BY <1>1, <1>2 DEF NumToRemove

FiniteInv == IsFiniteSet(made)

LEMMA FiniteStep == FiniteInv /\ [Next]_vars => FiniteInv'
<1> SUFFICES ASSUME FiniteInv, [Next]_vars PROVE FiniteInv'
  OBVIOUS
<1>1. CASE \E f \in File : Produce(f)
  BY <1>1, FS_AddElement DEF Produce, FiniteInv
<1>2. CASE UNCHANGED made
  BY <1>2 DEF FiniteInv
<1>3. CASE CycleStep
  BY <1>2, <1>3 DEF CycleStep, StartCycle, CancelledCycle, AllocateFails, AllocateChunk, Allocate,
     FindReplays, WorkerStep, Upload, UploadFails, Mark, MarkFails, AbandonFiles, PurgeFilesBefore,
     PurgeOldestPercentage, HandleDiskFails, volume
<1>4. CASE UsageChanges \/ LockExpires \/ Crash \/ Restart \/ UNCHANGED vars
  BY <1>2, <1>4 DEF UsageChanges, LockExpires, Crash, Restart, vars, volume
<1> QED
  BY <1>1, <1>3, <1>4 DEF Next

(* With the volume under high pressure and no removal that fails, a cycle  *)
(* frees files, however few there are, and the oldest ones.                *)
THEOREM PurgesMakeRoom == Spec => PurgeMakesRoom
<1> DEFINE I == IInv /\ FiniteInv
           Freed == PurgeOldestPercentage /\ Pressure(usage) >= PressureHigh /\ uploaded # {}
                      /\ faults' = faults
                    => /\ uploaded' # uploaded
                       /\ \A f \in uploaded \ uploaded', g \in uploaded' : f < g
<1>1. Init => I
  BY IInvInit, FS_EmptySet DEF Init, FiniteInv
<1>2. I /\ [Next]_vars => I'
  BY TypeStep, SafetyInvStep, FiniteStep DEF IInv
<1>3. I => Freed
  <2> SUFFICES ASSUME I, PurgeOldestPercentage, Pressure(usage) >= PressureHigh, uploaded # {},
                      faults' = faults
               PROVE  /\ uploaded' # uploaded
                      /\ \A f \in uploaded \ uploaded', g \in uploaded' : f < g
    OBVIOUS
  <2> DEFINE k == NumToRemove(Cardinality(uploaded), CleanupPercentage(Pressure(usage)))
  <2>1. uploaded \subseteq Nat /\ uploaded \subseteq made /\ faults \in Nat
    BY ShipperAssumption DEF IInv, TypeOK, SafetyInv, MadeInv, Local
  <2>2. IsFiniteSet(uploaded) /\ Cardinality(uploaded) \in Nat
    BY <2>1, FS_Subset, FS_CardinalityType DEF FiniteInv
  <2>3. k \in Nat \ {0}
    BY <2>2, SomeAreRemoved
  <2>4. ~(Pressure(usage) < PressureHigh)
    <3> DEFINE reached == {i \in 1..4 : usage >= Threshold[i]}
    <3>1. IsFiniteSet(reached)
      <4>1. IsFiniteSet(1..4)
        <5>1. \A a, b \in Int : IsFiniteSet(a..b)
          BY FS_Interval
        <5>2. 1 \in Int /\ 4 \in Int
          OBVIOUS
        <5> QED
          BY <5>1, <5>2, Zenon
      <4>2. reached \in SUBSET (1..4)
        OBVIOUS
      <4> HIDE DEF reached
      <4> QED
        BY <4>1, <4>2, FS_Subset
    <3>2. Pressure(usage) \in Nat
      BY <3>1, FS_CardinalityType DEF Pressure
    <3> QED
      BY <3>2 DEF PressureHigh
  <2>5. RemoveUploaded(Oldest(uploaded, k))
    BY <2>4 DEF PurgeOldestPercentage
  <2> HIDE DEF k
  <2>6. uploaded' = uploaded \ Oldest(uploaded, k)
    BY <2>1, <2>5 DEF RemoveUploaded, Fault
  <2>7. Oldest(uploaded, k) # {} /\ Oldest(uploaded, k) \subseteq uploaded
    BY <2>1, <2>3, OldestIsSome, OldestIsSubset
  <2>8. \A f \in Oldest(uploaded, k), g \in uploaded \ Oldest(uploaded, k) : f < g
    BY <2>1, <2>2, <2>3, OldestFirst
  <2> QED
    BY <2>6, <2>7, <2>8
<1>4. I /\ [Next]_vars => [Freed]_vars
  BY <1>3
<1> QED
  BY <1>1, <1>2, <1>3, PTL DEF Spec, PurgeMakesRoom
=============================================================================
