---------------------------- MODULE MetricPipeline ----------------------------
(***************************************************************************)
(* What PutMetrics makes of the samples of one remote-write request        *)
(* (src/app/domain/metric_collector.go): decoding, the DCGM transformation *)
(* (src/app/domain/transform), and the division into cost and              *)
(* observability metrics (src/app/domain/metric_filter.go).  No state: the *)
(* buffer of the transformer is an argument.                               *)
(*                                                                         *)
(* A metric is [name, container, labelled, value]: labelled says that it   *)
(* has the three required labels, container stands for them and the gpu    *)
(* label, and value is a tuple of numbers.                                 *)
(***************************************************************************)
EXTENDS Naturals, Sequences

CONSTANTS
  CostFilter,          \* the names settings.Metrics.Cost matches, {} for no filter
  ObservabilityFilter  \* those of settings.Metrics.Observability

-----------------------------------------------------------------------------
(* Content types and decoding *)

V1 == "io.prometheus.write.v1.Request"
V2 == "io.prometheus.write.v2.Request"

(* The proto parameter of the header, none or one; "other" is no message. *)
parseProtoMsg(contentType) ==
  IF contentType.media # "application/x-protobuf" THEN "error"
  ELSE IF contentType.proto = {} THEN V1
  ELSE IF contentType.proto \subseteq {V1, V2} THEN CHOOSE p \in contentType.proto : TRUE
  ELSE "error"

(* Metrics without a name are not kept; version 2 keeps them. *)
DecodeV1(samples) == SelectSeq(samples, LAMBDA metric : metric.name # "")
DecodeV2(samples) == samples

(* The payload cannot be decompressed, decoded, or has no known type. *)
Undecodable(payload) == parseProtoMsg(payload.contentType) = "error" \/ payload.garbled

Decode(payload) ==
  IF parseProtoMsg(payload.contentType) = V1 THEN DecodeV1(payload.samples)
  ELSE DecodeV2(payload.samples)

-----------------------------------------------------------------------------
(* The transformation *)

dcgmGPUUtilization == "DCGM_FI_DEV_GPU_UTIL"
dcgmMemoryUsed == "DCGM_FI_DEV_FB_USED"
dcgmMemoryFree == "DCGM_FI_DEV_FB_FREE"
dcgmOther == "DCGM_FI_DEV_"  \* any other metric of the exporter
standardGPUUsage == "container_resources_gpu_usage_percent"
standardGPUMemoryUsage == "container_resources_gpu_memory_usage_percent"

DCGM == {dcgmGPUUtilization, dcgmMemoryUsed, dcgmMemoryFree, dcgmOther}

hasRequiredLabels(metric) == metric.labelled

Buffered(metric) ==
  metric.name \in {dcgmMemoryUsed, dcgmMemoryFree} /\ hasRequiredLabels(metric)

transformGPUUtilization(metric) == <<[metric EXCEPT !.name = standardGPUUsage]>>

(* What a metric contributes at once to the result. *)
transformSingle(metric) ==
  IF metric.name \notin DCGM THEN <<metric>>
  ELSE IF ~hasRequiredLabels(metric) \/ Buffered(metric) THEN <<>>
  ELSE IF metric.name = dcgmGPUUtilization THEN transformGPUUtilization(metric)
  ELSE <<metric>>

(* The buffer holds at most one metric of each name and container. *)
bufferMemoryMetric(buffer, metric) ==
  {m \in buffer : m.name # metric.name \/ m.container # metric.container} \cup {metric}

(* The metrics made from the complete pairs; the buffer is empty after it. *)
flushMemory(buffer) ==
  {[p[1] EXCEPT !.name = standardGPUMemoryUsage, !.value = p[1].value \o p[2].value] :
     p \in {p \in buffer \X buffer :
              /\ p[1].name = dcgmMemoryUsed /\ p[2].name = dcgmMemoryFree
              /\ p[1].container = p[2].container
              /\ p[1].value # <<0>> \/ p[2].value # <<0>>}}

-----------------------------------------------------------------------------
(* The filter *)

Test(filter, name) == filter = {} \/ name \in filter

FilterCost(metrics) == {m \in metrics : Test(CostFilter, m.name)}
FilterObservability(metrics) == {m \in metrics : Test(ObservabilityFilter, m.name)}

(* The two parts, by the store they go to. *)
Filter(metrics) ==
  [cost |-> FilterCost(metrics), observability |-> FilterObservability(metrics)]
=============================================================================
