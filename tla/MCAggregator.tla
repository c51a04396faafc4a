---------------------------- MODULE MCAggregator ----------------------------
(***************************************************************************)
(* TLC instance of Aggregator: a write of two GPU memory metrics of one    *)
(* container, and one that is either a cost metric or a body that cannot   *)
(* be decoded, which is answered 500 and sent again.                       *)
(***************************************************************************)
EXTENDS Aggregator

CONSTANTS w1, w2

MCWrite == {w1, w2}

Metric(name, value) == [name |-> name, container |-> "c", labelled |-> TRUE, value |-> <<value>>]

Payload(garbled, samples) ==
  [length |-> 1, garbled |-> garbled, samples |-> samples,
   contentType |-> [media |-> "application/x-protobuf", proto |-> {}]]

MCPayloads(w) ==
  IF w = w1
  THEN {Payload(FALSE, <<Metric(dcgmMemoryUsed, 1), Metric(dcgmMemoryFree, 3)>>)}
  ELSE {Payload(FALSE, <<Metric("cpu", 2)>>),
        Payload(TRUE, <<>>)}

MCMaxTries(w) == IF w = w1 THEN 1 ELSE 2

MCCostFilter == {"cpu", standardGPUMemoryUsage}
MCObservabilityFilter == {standardGPUMemoryUsage}
=============================================================================
