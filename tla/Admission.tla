------------------------------ MODULE Admission ------------------------------
(***************************************************************************)
(* What the webhook makes of one admission request: the HTTP checks and    *)
(* the translation of the review (src/app/handlers/webhook.go,             *)
(* src/app/types/review.go), the dispatch table and the execution of a     *)
(* handler (src/app/domain/webhook), the configuration of every handler    *)
(* and the record its formatter produces.  The module has no state.        *)
(*                                                                         *)
(* A request is [content, proto, body]; a body is [kind, review]; a review *)
(* carries the fields of the Kubernetes AdmissionRequest.  A tag is        *)
(* [key, clean, val]: clean says that the strict policy leaves both its    *)
(* key and its value alone.  What may be missing is a set of at most one   *)
(* element: the objects (none also when the bytes do not decode) and the   *)
(* requested kind.  Kinds are in lower case, as Review looks them up.      *)
(***************************************************************************)
EXTENDS Naturals, FiniteSets

CONSTANTS
  LabelFilter,       \* settings.Filters.Labels: enabled, resources, patterns
  AnnotationFilter,  \* settings.Filters.Annotations
  ReconnectFrequency \* settings.Server.ReconnectFrequency

(* A pattern list is the set of the keys its regular expressions match. *)
FilterSettings(f) ==
  /\ f.enabled \in BOOLEAN
  /\ f.resources \subseteq {"pods", "namespaces", "deployments", "jobs", "cronjobs",
                            "statefulsets", "daemonsets", "nodes"}

ASSUME AdmissionAssumption ==
  /\ FilterSettings(LabelFilter) /\ FilterSettings(AnnotationFilter)
  /\ ReconnectFrequency \in Nat

-----------------------------------------------------------------------------
(* Translation of the request *)

OperationUnknown == "unknown"
Operations == {"create", "update", "delete", "connect"}

(* Kubernetes writes the operations in upper case. *)
OperationToModel == [CREATE |-> "create", UPDATE |-> "update",
                     DELETE |-> "delete", CONNECT |-> "connect"]

v1OperationToModel(op) ==
  IF op \in DOMAIN OperationToModel THEN OperationToModel[op] ELSE OperationUnknown

v1Beta1OperationToModel(op) == v1OperationToModel(op)

(* The kind of the original request when the API server converted it. *)
v1KindToModel(request) ==
  IF request.requestKind # {} THEN CHOOSE k \in request.requestKind : TRUE
  ELSE request.gvk

v1Beta1KindToModel(request) == v1KindToModel(request)

AdmissionReview(version, op, kind, request) ==
  [version |-> version, id |-> request.uid, operation |-> op, gvk |-> kind,
   old |-> request.oldObject, new |-> request.object]

NewAdmissionReviewV1(request) ==
  AdmissionReview("v1", v1OperationToModel(request.operation),
                  v1KindToModel(request), request)

NewAdmissionReviewV1Beta1(request) ==
  AdmissionReview("v1beta1", v1Beta1OperationToModel(request.operation),
                  v1Beta1KindToModel(request), request)

(* The universal deserializer knows the two AdmissionReview versions. *)
Decodable(body) == body.kind \in {"v1", "v1beta1"}

requestBodyToModelReview(body) ==
  IF body.kind = "v1" THEN NewAdmissionReviewV1(body.review)
  ELSE NewAdmissionReviewV1Beta1(body.review)

(* configReader: a read error, or more than MaxRequestBodyBytes. *)
ReadFails(body) == body.kind \in {"unreadable", "too large"}

(* The checks of PostAdmissionRequest that answer 400. *)
Malformed(q) ==
  \/ q.content # "application/json"
  \/ ReadFails(q.body)
  \/ q.body.kind = "empty"
  \/ ~Decodable(q.body)

-----------------------------------------------------------------------------
(* Handlers: the accessor of each kind and the formatter it is given *)

Handler(type, formatter, labels, annotations, labelsForType, annotationsForType) ==
  [type |-> type, formatter |-> formatter, generic |-> TRUE,
   labels |-> labels, annotations |-> annotations,
   labelsForType |-> labelsForType, annotationsForType |-> annotationsForType]

(* Both filters are asked about the resource. *)
Configured(type, resource, formatter) ==
  Handler(type, formatter, LabelFilter.enabled, AnnotationFilter.enabled,
          resource \in LabelFilter.resources, resource \in AnnotationFilter.resources)

(* Accessors that answer FALSE to every question. *)
Disabled(type) == Handler(type, "workload", FALSE, FALSE, FALSE, FALSE)

(* Handlers of their own, which count the event and never store anything. *)
CountOnly(type) ==
  [Handler(type, "workload", LabelFilter.enabled, AnnotationFilter.enabled, TRUE, TRUE)
     EXCEPT !.generic = FALSE]

PodHandler == Configured("pod", "pods", "pod")
NamespaceHandler == Configured("namespace", "namespaces", "namespace")
NodeHandler == Configured("node", "nodes", "node")
DeploymentHandler == Configured("deployment", "deployments", "workload")
StatefulSetHandler == Configured("statefulset", "statefulsets", "workload")
DaemonSetHandler == Configured("daemonset", "daemonsets", "workload")
JobHandler == Configured("job", "jobs", "workload")
CronJobHandler == Configured("cronjob", "cronjobs", "workload")
ReplicaSetHandler == Disabled("replicaset")
ServiceHandler == Disabled("service")
PersistentVolumeClaimHandler == Disabled("pvc")
CustomResourceDefinitionHandler == Disabled("crd")
IngressHandler == Disabled("ingress")
GatewayHandler == Disabled("gateway")
StorageClassHandler == CountOnly("storageclass")
IngressClassHandler == CountOnly("ingressclass")
GatewayClassHandler == CountOnly("gatewayclass")

-----------------------------------------------------------------------------
(* The dispatch table *)

register(group, versions, kind, handler) ==
  {[gvk |-> [group |-> group, version |-> v, kind |-> kind], handler |-> handler] :
     v \in versions}

NewWebhookFactory ==
  register("apps", {"v1", "v1beta2", "v1beta1"}, "deployment", DeploymentHandler)
  \cup register("apps", {"v1", "v1beta2", "v1beta1"}, "statefulset", StatefulSetHandler)
  \cup register("apps", {"v1", "v1beta2"}, "daemonset", DaemonSetHandler)
  \cup register("apps", {"v1", "v1beta2"}, "replicaset", ReplicaSetHandler)
  \cup register("", {"v1"}, "pod", PodHandler)
  \cup register("", {"v1"}, "namespace", NamespaceHandler)
  \cup register("", {"v1"}, "node", NodeHandler)
  \cup register("", {"v1"}, "service", ServiceHandler)
  \cup register("", {"v1"}, "persistentvolume", PersistentVolumeClaimHandler)
  \cup register("", {"v1"}, "persistentvolumeclaim", PersistentVolumeClaimHandler)
  \cup register("batch", {"v1"}, "job", JobHandler)
  \cup register("batch", {"v1", "v1beta1"}, "cronjob", CronJobHandler)
  \cup register("apiextensions.k8s.io", {"v1", "v1beta1"}, "customresourcedefinition",
                CustomResourceDefinitionHandler)
  \cup register("networking.k8s.io", {"v1", "v1beta1"}, "ingress", IngressHandler)
  \cup register("gateway.networking.k8s.io", {"v1", "v1beta1"}, "gateway", GatewayHandler)
  \cup register("storage.k8s.io", {"v1", "v1beta1"}, "storageclass", StorageClassHandler)
  \cup register("networking.k8s.io", {"v1", "v1beta1"}, "ingressclass", IngressClassHandler)
  \cup register("networking.k8s.io", {"v1", "v1beta1"}, "gatewayclass", GatewayClassHandler)

registered(gvk) == \E e \in NewWebhookFactory : e.gvk = gvk

(* GetConfigurationAccessor, and the handler Review executes. *)
Registration(gvk) == (CHOOSE e \in NewWebhookFactory : e.gvk = gvk).handler

-----------------------------------------------------------------------------
(* Filters and formatters *)

evalTag(tag, patterns) == tag.clean /\ tag.key \in patterns

TagFilter(tags, patterns, enabled) ==
  {tag \in tags : enabled /\ evalTag(tag, patterns)}

FilteredLabels(h, object) ==
  IF h.labels THEN TagFilter(object.labels, LabelFilter.patterns, h.labelsForType) ELSE {}

FilteredAnnotations(h, object) ==
  IF h.annotations
  THEN TagFilter(object.annotations, AnnotationFilter.patterns, h.annotationsForType)
  ELSE {}

NoNamespace == "nil"

ResourceTags(h, object, namespace) ==
  [type |-> h.type, name |-> object.name, namespace |-> namespace,
   labels |-> FilteredLabels(h, object), annotations |-> FilteredAnnotations(h, object)]

PodDataFormatter(h, object) == ResourceTags(h, object, object.namespace)
WorkloadDataFormatter(h, object) == ResourceTags(h, object, object.namespace)
NamespaceDataFormatter(h, object) == ResourceTags(h, object, NoNamespace)
NodeDataFormatter(h, object) == ResourceTags(h, object, NoNamespace)

formatData(h, object) ==
  CASE h.formatter = "pod" -> PodDataFormatter(h, object)
    [] h.formatter = "workload" -> WorkloadDataFormatter(h, object)
    [] h.formatter = "namespace" -> NamespaceDataFormatter(h, object)
    [] h.formatter = "node" -> NodeDataFormatter(h, object)

-----------------------------------------------------------------------------
(* Execution *)

Raw(review) == IF review.operation = "delete" THEN review.old ELSE review.new

(* The operations of a generic handler that write the record. *)
admitFunc(h, operation) ==
  h.generic /\ operation \in {"create", "update", "delete"}
  /\ (h.labelsForType \/ h.annotationsForType)

(* Execute of the handler Review finds: the records it writes, none or     *)
(* one.  An object that cannot be decoded, an unknown operation and the    *)
(* default handler only allow.                                             *)
Execute(h, review) ==
  {formatData(h, object) : object \in {o \in Raw(review) : admitFunc(h, review.operation)}}

Review(review) ==
  IF registered(review.gvk) THEN Execute(Registration(review.gvk), review) ELSE {}

-----------------------------------------------------------------------------
(* Answers *)

BadRequest == [status |-> 400, version |-> "", uid |-> "", allowed |-> FALSE, close |-> FALSE]

marshallResponseToJSON(review, allowed, close) ==
  [status |-> 200, version |-> review.version, uid |-> review.id,
   allowed |-> allowed, close |-> close]

(* Every ReconnectFrequency-th HTTP/1 answer closes the connection. *)
MayClose(q) ==
  IF q.proto = 1 /\ ReconnectFrequency > 0
  THEN IF ReconnectFrequency = 1 THEN {TRUE} ELSE BOOLEAN
  ELSE {FALSE}

(* The answers PostAdmissionRequest may give to a request it does not      *)
(* refuse: always an allowance.                                            *)
AllowResponses(q) ==
  {marshallResponseToJSON(requestBodyToModelReview(q.body), TRUE, c) : c \in MayClose(q)}
=============================================================================
