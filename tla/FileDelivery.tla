---------------------------- MODULE FileDelivery ----------------------------
(***************************************************************************)
(* What the shipper promises about the metric files of the agent, seen     *)
(* from outside: a file the collector has finished is held on the local    *)
(* volume until CloudZero has it, it is never forgotten before that, and   *)
(* CloudZero gets it at last.  What happens to the local copy afterwards   *)
(* (kept for replays, removed, purged) does not matter here.               *)
(***************************************************************************)
CONSTANT File

VARIABLE phase   \* of each file: "new", "held" (local only) or "stored"

Init == phase = [f \in File |-> "new"]

Produce(f) == phase[f] = "new" /\ phase' = [phase EXCEPT ![f] = "held"]

Store(f) == phase[f] = "held" /\ phase' = [phase EXCEPT ![f] = "stored"]

Next == \E f \in File : Produce(f) \/ Store(f)

Safety == Init /\ [][Next]_phase

Spec == Safety /\ \A f \in File : WF_phase(Store(f))
=============================================================================
