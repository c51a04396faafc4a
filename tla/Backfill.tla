------------------------------- MODULE Backfill -------------------------------
(***************************************************************************)
(* The backfill mode of the webhook binary: wait for the two services,     *)
(* enumerate the nodes, then every namespace and its resources page by     *)
(* page, review each object as if it were created                          *)
(* (src/app/domain/webhook/backfiller/backfiller.go), stream the records   *)
(* in batches (src/app/storage/streaming/store.go), and flush the rest     *)
(* (src/app/functions/webhook/main.go).  The goroutines of the pool are    *)
(* tasks of which at most Workers run; the pool itself is module Parallel. *)
(***************************************************************************)
EXTENDS Admission, SequencesExt

CONSTANTS
  NodePages,        \* the pages of the node list, each a sequence of objects
  NamespacePages,   \* the pages of the namespace list
  ResourcePages(_, _),  \* the pages of the list of a kind in a namespace
  Workers,          \* MaxWorkersPerPool, or fewer CPUs
  MaxConnectionAttempts,
  MaxBatchCount,    \* maxBatchCount of the streaming store
  WaitForServices,  \* not --backfill-no-wait
  MaxBackfillFaults \* bound: failing probes, lists and pushes

ASSUME BackfillAssumption ==
  /\ Len(NamespacePages) >= 1 /\ Len(NodePages) >= 1
  /\ Workers \in Nat \ {0} /\ MaxConnectionAttempts \in Nat \ {0}
  /\ MaxBatchCount \in Nat \ {0}
  /\ MaxBackfillFaults \in Nat

VARIABLES
  phase,      \* where Start is
  attempt,    \* of AwaitWebhookService or AwaitCollectorService
  page,       \* the page it lists next
  todo,       \* the objects of the listed page whose tasks are not all handed to the pool
  scan,       \* the kind of the catalog whose list the first of them gets next, 0 for itself
  tasks,      \* the running tasks
  batch,      \* the streaming store
  streamed,   \* history: the records accepted by the collector
  failures    \* how many faults have happened, by kind

backfillVars == <<phase, attempt, page, todo, scan, tasks, batch, streamed, failures>>

FailureCount == failures.await + failures.nodes + failures.list + failures.push

BackfillFault(kind) ==
  /\ FailureCount < MaxBackfillFaults
  /\ failures' = [failures EXCEPT ![kind] = @ + 1]

(* enumerateNodes returns at once when nobody wants the nodes. *)
AfterServices ==
  IF NodeHandler.labelsForType \/ NodeHandler.annotationsForType
  THEN "nodes" ELSE "namespaces"

FirstPhase == IF WaitForServices THEN "await_webhook" ELSE AfterServices

BackfillStart(p) ==
  /\ phase = p
  /\ attempt = 0 /\ page = 1
  /\ todo = <<>> /\ scan = 0 /\ tasks = {} /\ batch = <<>> /\ streamed = {}
  /\ failures = [await |-> 0, nodes |-> 0, list |-> 0, push |-> 0]

BackfillInit == BackfillStart(FirstPhase)

-----------------------------------------------------------------------------
(* The services *)

TestTag == [key |-> "app", clean |-> TRUE, val |-> "test"]

(* The review of a test pod the backfiller and the diagnostics send.       *)
TestReview ==
  [kind |-> "v1",
   review |-> [uid |-> "test", operation |-> "CREATE", requestKind |-> {},
               gvk |-> [group |-> "", version |-> "v1", kind |-> "pod"], oldObject |-> {},
               object |-> {[name |-> "cloudzero-test", namespace |-> "default",
                            labels |-> {TestTag}, annotations |-> {TestTag}]}]]

(* SendPodToValidatingWebhook: a 200 with an AdmissionResponse will do, whatever it says. *)
Validates(answer) == answer.status = 200

NextService(p) == IF p = "await_webhook" THEN "await_collector" ELSE AfterServices

(* The service answers: the webhook as it answers any review, the          *)
(* collector 2xx to an empty write.                                        *)
ServiceAnswers ==
  /\ phase \in {"await_webhook", "await_collector"}
  /\ phase = "await_webhook" =>
       \E answer \in AllowResponses([proto |-> 1, body |-> TestReview]) : Validates(answer)
  /\ phase' = NextService(phase)
  /\ attempt' = 0
  /\ UNCHANGED <<page, todo, scan, tasks, batch, streamed, failures>>

(* AwaitWebhookService, AwaitCollectorService: after the last attempt Start *)
(* returns an error and main exits.                                        *)
ServiceFails ==
  /\ phase \in {"await_webhook", "await_collector"}
  /\ BackfillFault("await")
  /\ attempt' = attempt + 1
  /\ phase' = IF attempt + 1 = MaxConnectionAttempts THEN "exit_1" ELSE phase
  /\ UNCHANGED <<page, todo, scan, tasks, batch, streamed>>

-----------------------------------------------------------------------------
(* The listing loops *)

Gvk(group, version, kind) == [group |-> group, version |-> version, kind |-> kind]

node == Gvk("", "v1", "node")
namespace == Gvk("", "v1", "namespace")

(* The kinds that are listed in each namespace, in this order.             *)
catalog ==
  <<Gvk("apps", "v1", "deployment"), Gvk("apps", "v1beta2", "deployment"),
    Gvk("apps", "v1beta1", "deployment"), Gvk("apps", "v1", "statefulset"),
    Gvk("apps", "v1beta2", "statefulset"), Gvk("apps", "v1beta1", "statefulset"),
    Gvk("apps", "v1", "daemonset"), Gvk("apps", "v1beta2", "daemonset"),
    Gvk("apps", "v1", "replicaset"), Gvk("apps", "v1beta2", "replicaset"),
    Gvk("", "v1", "pod"), Gvk("", "v1", "service"), Gvk("", "v1", "persistentvolume"),
    Gvk("", "v1", "persistentvolumeclaim"), Gvk("batch", "v1", "job"),
    Gvk("batch", "v1", "cronjob"), Gvk("batch", "v1beta1", "cronjob"),
    Gvk("networking.k8s.io", "v1", "ingress"), Gvk("networking.k8s.io", "v1beta1", "ingress"),
    Gvk("storage.k8s.io", "v1", "storageclass"), Gvk("storage.k8s.io", "v1beta1", "storageclass"),
    Gvk("networking.k8s.io", "v1", "ingressclass"),
    Gvk("networking.k8s.io", "v1beta1", "ingressclass")>>

(* What the pages of a list hold. *)
Objects(pages) == UNION {ToSet(pages[i]) : i \in 1..Len(pages)}

ASSUME PagesAssumption ==
  /\ NodePages \in Seq(Seq(Objects(NodePages)))
  /\ NamespacePages \in Seq(Seq(Objects(NamespacePages)))
  /\ \A gvk \in ToSet(catalog), ns \in Objects(NamespacePages) :
       ResourcePages(gvk, ns.name) \in Seq(Seq(Objects(ResourcePages(gvk, ns.name))))

(* The accessor of a kind asks for its labels or its annotations. *)
ScanEnabled(gvk) ==
  LET cfg == Registration(gvk) IN
  (cfg.labels /\ cfg.labelsForType) \/ (cfg.annotations /\ cfg.annotationsForType)

(* A task reviews the objects it holds, then lists the next page.          *)
ObjectTask(gvk, object) ==
  [gvk |-> gvk, namespace |-> object.name, items |-> <<object>>, next |-> 0]
ListTask(gvk, ns) == [gvk |-> gvk, namespace |-> ns, items |-> <<>>, next |-> 1]

(* A page of nodes or namespaces is listed. *)
Listing(pages, here, last) ==
  /\ phase = here /\ todo = <<>> /\ page <= Len(pages)
  /\ todo' = pages[page]
  /\ IF page < Len(pages) THEN page' = page + 1 /\ phase' = phase
     ELSE page' = 1 /\ phase' = last
  /\ UNCHANGED <<attempt, scan, tasks, batch, streamed, failures>>

ListNodes == Listing(NodePages, "nodes", "wait_nodes")
ListNamespaces == Listing(NamespacePages, "namespaces", "wait")

(* A failing node list is tried again at once, without a limit. *)
NodeListFails ==
  /\ phase = "nodes" /\ todo = <<>>
  /\ BackfillFault("nodes")
  /\ UNCHANGED <<phase, attempt, page, todo, scan, tasks, batch, streamed>>

(* A failing namespace list ends the process with the tasks still running. *)
NamespaceListFails ==
  /\ phase = "namespaces" /\ todo = <<>>
  /\ BackfillFault("list")
  /\ phase' = "exit_1"
  /\ UNCHANGED <<attempt, page, todo, scan, tasks, batch, streamed>>

OfNodes == phase \in {"nodes", "wait_nodes"}

(* The loop over the catalog: the next kind that is scanned, or 0.  A node *)
(* has no lists.                                                           *)
NextKind ==
  LET ahead == {k \in scan + 1..Len(catalog) : ~OfNodes /\ ScanEnabled(catalog[k])} IN
  IF ahead = {} THEN 0 ELSE Min(ahead)

NextTask ==
  IF scan > 0 THEN ListTask(catalog[scan], Head(todo).name)
  ELSE ObjectTask(IF OfNodes THEN node ELSE namespace, Head(todo))

(* pool.Run: blocks while Workers tasks are running. *)
RunTask ==
  /\ phase \notin {"exit_0", "exit_1"}
  /\ todo # <<>> /\ Cardinality(tasks) < Workers
  /\ tasks' = tasks \cup {NextTask}
  /\ scan' = NextKind
  /\ todo' = IF NextKind = 0 THEN Tail(todo) ELSE todo
  /\ UNCHANGED <<phase, attempt, page, batch, streamed, failures>>

(* Mutant of Wait: Start returns while tasks are running. *)
MutWait ==
  /\ phase \in {"wait_nodes", "wait"}
  /\ todo = <<>>
  /\ phase' = IF phase = "wait" THEN "flush" ELSE "namespaces"
  /\ UNCHANGED <<attempt, page, todo, scan, tasks, batch, streamed, failures>>

(* waiter.Wait, of enumerateNodes and of Start. *)
Wait ==
  /\ phase \in {"wait_nodes", "wait"}
  /\ todo = <<>> /\ tasks = {}
  /\ phase' = IF phase = "wait" THEN "flush" ELSE "namespaces"
  /\ UNCHANGED <<attempt, page, todo, scan, tasks, batch, streamed, failures>>

-----------------------------------------------------------------------------
(* The tasks *)

Alive == phase \notin {"exit_0", "exit_1"}

Becomes(t, u) == tasks' = (tasks \ {t}) \cup {u}

(* The next page of the task's list. *)
ListResources(t) ==
  /\ Alive /\ t.items = <<>> /\ t.next > 0
  /\ LET pages == ResourcePages(t.gvk, t.namespace) IN
     IF t.next > Len(pages) THEN tasks' = tasks \ {t}
     ELSE Becomes(t, [t EXCEPT !.items = pages[t.next],
                               !.next = IF t.next < Len(pages) THEN t.next + 1 ELSE 0])
  /\ UNCHANGED <<phase, attempt, page, todo, scan, batch, streamed, failures>>

(* A failing list is taken for an empty one, also in the middle of one. *)
ListResourcesFails(t) ==
  /\ Alive /\ t.items = <<>> /\ t.next > 0
  /\ BackfillFault("list")
  /\ tasks' = tasks \ {t}
  /\ UNCHANGED <<phase, attempt, page, todo, scan, batch, streamed>>

(* The review of an existing object: a creation. *)
buildAdmissionReview(gvk, object) ==
  [version |-> "v1", id |-> object.name, operation |-> "create", gvk |-> gvk,
   old |-> {}, new |-> {object}]

(* PushMetrics of the batch; it is dropped when every retry fails.         *)
flushLocked(records) ==
  /\ batch' = <<>>
  /\ \/ streamed' = streamed \cup ToSet(records) /\ UNCHANGED failures
     \/ BackfillFault("push") /\ UNCHANGED streamed

(* Create of the streaming store, under its mutex. *)
StoreCreate(record) ==
  LET records == Append(batch, record) IN
  IF Len(records) >= MaxBatchCount THEN flushLocked(records)
  ELSE batch' = records /\ UNCHANGED <<streamed, failures>>

(* Review of one object: the streaming store finds nothing and creates.    *)
ReviewObject(t) ==
  /\ Alive /\ t.items # <<>>
  /\ LET records == Review(buildAdmissionReview(t.gvk, Head(t.items))) IN
     \/ records = {} /\ UNCHANGED <<batch, streamed, failures>>
     \/ \E record \in records : StoreCreate(record)
  /\ Becomes(t, [t EXCEPT !.items = Tail(t.items)])
  /\ UNCHANGED <<phase, attempt, page, todo, scan>>

TaskEnds(t) ==
  /\ Alive /\ t.items = <<>> /\ t.next = 0
  /\ tasks' = tasks \ {t}
  /\ UNCHANGED <<phase, attempt, page, todo, scan, batch, streamed, failures>>

(* main: the last flush; its failure is fatal. *)
StreamFlush ==
  /\ phase = "flush"
  /\ IF batch = <<>> THEN UNCHANGED <<batch, streamed, failures>> ELSE flushLocked(batch)
  /\ phase' = IF failures' = failures THEN "exit_0" ELSE "exit_1"
  /\ UNCHANGED <<attempt, page, todo, scan, tasks>>

-----------------------------------------------------------------------------
TaskStep(t) == ListResources(t) \/ ListResourcesFails(t) \/ ReviewObject(t) \/ TaskEnds(t)

BackfillNext ==
  \/ ServiceAnswers \/ ServiceFails
  \/ ListNodes \/ NodeListFails
  \/ ListNamespaces \/ NamespaceListFails
  \/ RunTask \/ Wait
  \/ \E t \in tasks : TaskStep(t)
  \/ StreamFlush

BackfillFairness == WF_backfillVars(BackfillNext)

-----------------------------------------------------------------------------
(* Properties *)

(* What the cluster holds: pairs of a kind and an object. *)
Cluster ==
  {<<node, o>> : o \in Objects(NodePages)}
  \cup {<<namespace, o>> : o \in Objects(NamespacePages)}
  \cup UNION {{<<gvk, o>> : o \in Objects(ResourcePages(gvk, ns.name))} :
                gvk \in ToSet(catalog), ns \in Objects(NamespacePages)}

Tagged(record) == record.labels # {} \/ record.annotations # {}

(* A backfill that ends well without a failing list or push has sent every *)
(* record that carries a tag, of every page of every kind: no kind is      *)
(* skipped that has something to say, no page is lost at a page boundary,  *)
(* and no task is still running at the last flush.                         *)
BackfillComplete ==
  phase = "exit_0" /\ failures.list = 0 /\ failures.push = 0 =>
    \A c \in Cluster : \A record \in Review(buildAdmissionReview(c[1], c[2])) :
      Tagged(record) => record \in streamed

(* The backfill ends, although a failing node list is repeated without end. *)
BackfillEnds == (phase = FirstPhase) ~> (phase \in {"exit_0", "exit_1"})
=============================================================================
