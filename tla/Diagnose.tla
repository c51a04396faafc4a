------------------------------- MODULE Diagnose -------------------------------
(***************************************************************************)
(* The validator (src/app/functions/agent-validator and                    *)
(* src/app/domain/diagnostic): the configuration is read and validated,    *)
(* the checks of a stage run in parallel and report into one status        *)
(* report, the report is posted, and a failing required check fails the    *)
(* pod's lifecycle hook.  Every request a check makes is a step; what the  *)
(* outside world answers is free.                                          *)
(*                                                                         *)
(* The region, account and cluster of the deployment come from             *)
(* DetectConfiguration (module Scout), whose result is Deployment.         *)
(***************************************************************************)
EXTENDS Naturals, Sequences, SequencesExt

CONSTANTS
  Commands,               \* the invocations: [run, stage, post, config]
  MaxRetry,               \* attempts of the kube-state-metrics check
  IstioMaxRetry,          \* attempts of a request to the Envoy sidecar
  MaxConnectionAttempts   \* attempts of the webhook check

ASSUME DiagnoseAssumption ==
  /\ MaxRetry \in Nat \ {0} /\ IstioMaxRetry \in Nat \ {0}
  /\ MaxConnectionAttempts \in Nat \ {0}
  /\ \A c \in Commands : c.config.namespace \in BOOLEAN

VARIABLES
  command,   \* the invocation
  phase,     \* where runDiagnostics is
  task,      \* the goroutines of Run: [name, pc, attempt]
  report,    \* the status report: the stage's state and the checks
  posted,    \* the reports the CloudZero API has received
  outcome    \* how the process ended

diagnoseVars == <<command, phase, task, report, posted, outcome>>

config == command.config
Reported(name, passing) == [name |-> name, passing |-> passing]
EmptyReport == [state |-> "none", checks |-> {}]

DiagnoseStart(at, commands) ==
  /\ command \in commands
  /\ phase = at
  /\ task = <<>>
  /\ report = EmptyReport
  /\ posted = {}
  /\ outcome = "none"

DiagnoseInit == DiagnoseStart("settings", Commands)
DiagnoseOff == DiagnoseStart("off", {CHOOSE c \in Commands : TRUE})

-----------------------------------------------------------------------------
(* Settings *)

(* NewSettings: the last file to give a value wins; one that is missing or *)
(* does not parse is fatal.                                                *)
NewSettings == config.files = "readable"

LoggingValid == config.logDirectory
CloudzeroValid == config.host \notin {"", "garbled"} /\ config.keyFile = "readable"
PrometheusValid == config.endpoint # "garbled" /\ config.kubeMetrics

IsValidStage(name) == name \in {"pre-start", "post-start", "config-load", "pre-stop"}

RegisteredChecks ==
  {"api_key_valid", "k8s_version", "k8s_namespace", "k8s_provider",
   "kube_state_metrics_reachable", "scrape_cfg", "prometheus_version",
   "webhook_server_reachable", "istio_xcluster_lb"}
IsValidDiagnostic(name) == name \in RegisteredChecks \cup {"agent_settings"}

(* A type that is left out is optional. *)
IsValidCheckType(type) == type \in {"required", "optional", "informative", ""}

(* Names are compared without regard to case and surrounding space, which  *)
(* "exact" tells apart: the checks are normalised in place, the stage only *)
(* in a copy.                                                              *)
DiagnosticsValid ==
  \A i \in DOMAIN config.stages :
    /\ IsValidStage(config.stages[i].name)
    /\ \A j \in DOMAIN config.stages[i].checks :
         /\ IsValidDiagnostic(config.stages[i].checks[j].name)
         /\ IsValidCheckType(config.stages[i].checks[j].type)

(* Deployment is what DetectConfiguration makes of the deployment. *)
Validate(Deployment) ==
  LoggingValid /\ Deployment = "ok" /\ CloudzeroValid /\ PrometheusValid /\ DiagnosticsValid

(* The locations without empty ones and repetitions; two defaults. *)
Configurations ==
  IF config.configurations = <<>> THEN <<"prometheus.yml", "configmap.yml">>
  ELSE FoldLeft(LAMBDA kept, l : IF l = "" \/ Contains(kept, l) THEN kept ELSE Append(kept, l),
                <<>>, config.configurations)

-----------------------------------------------------------------------------
(* The catalog and the runner *)

(* The checks of the stages of this name, in order; the command "run"      *)
(* replaces the configured stages by one of required checks.               *)
ChecksOf(invocation) ==
  IF invocation.run # <<>>
  THEN [i \in DOMAIN invocation.run |-> [name |-> invocation.run[i], type |-> "required"]]
  ELSE FoldLeft(LAMBDA checks, s : IF s.exact /\ s.name = invocation.stage
                                   THEN checks \o s.checks ELSE checks,
                <<>>, invocation.config.stages)

StageChecks == ChecksOf(command)

(* A later entry of the same check gives its type. *)
checkTypes(name) ==
  LET entries == {i \in DOMAIN StageChecks : StageChecks[i].name = name}
  IN  IF entries = {} THEN "" ELSE StageChecks[Max(entries)].type

(* Get: names the catalog does not know are dropped. *)
Get(checks) == {i \in DOMAIN checks : checks[i].name \in RegisteredChecks}

(* The entries that are run, each by a goroutine of its own. *)
Plan == Get(StageChecks)

PostState ==
  CASE command.stage = "pre-start" -> "INIT_OK"
    [] command.stage = "post-start" -> "POD_STARTED"
    [] command.stage = "pre-stop" -> "POD_STOPPING"
    [] OTHER -> report.state

(* Fatal and a failing command are exit 1, a panic is exit 2. *)
Ends(how) == phase' = "ended" /\ outcome' = how

LoadSettings(Deployment) ==
  /\ phase = "settings"
  /\ NewSettings /\ LoggingValid => Deployment # "pending"
  /\ IF NewSettings /\ Validate(Deployment)
     THEN phase' = "catalog" /\ UNCHANGED outcome ELSE Ends("fatal")
  /\ UNCHANGED <<command, task, report, posted>>

(* Every provider is constructed, whatever the stage needs; that of        *)
(* kube-state-metrics panics without a configuration of the cluster.       *)
NewCatalog ==
  /\ phase = "catalog"
  /\ IF config.kubeConfig THEN phase' = "pre" /\ UNCHANGED outcome ELSE Ends("panic")
  /\ UNCHANGED <<command, task, report, posted>>

(* The pre step, and one goroutine per entry of the plan. *)
StartChecks ==
  /\ phase = "pre"
  /\ report' = [report EXCEPT !.state =
                  IF command.stage = "pre-start" THEN "INIT_STARTED" ELSE @]
  /\ task' = [i \in Plan |-> [name |-> StageChecks[i].name, pc |-> "start", attempt |-> 1]]
  /\ phase' = "run"
  /\ UNCHANGED <<command, posted, outcome>>

-----------------------------------------------------------------------------
(* The providers: the outcomes of a goroutine's next step.  None of them   *)
(* returns an error.                                                       *)

To(t, pc) == [task |-> [t EXCEPT !.pc = pc, !.attempt = 1], adds |-> {}]
Done(t, passing) ==
  [task |-> [t EXCEPT !.pc = "done"], adds |-> {Reported(t.name, passing)}]

(* Another attempt, or what follows when they are used up. *)
Retry(t, max, exhausted) ==
  IF t.attempt < max THEN [task |-> [t EXCEPT !.attempt = @ + 1], adds |-> {}] ELSE exhausted

(* ToError: an error for the known codes from 400 on; 0 is no response. *)
KnownErrors ==
  (400..431 \ {419, 420, 427, 430}) \cup (500..511 \ {509})
ToError(code) == code \in KnownErrors
Do(code) == code # 0 /\ ~ToError(code)

Codes == {0, 200, 302, 403, 499, 503}

CheckAPIKey(t) == {Done(t, Do(code)) : code \in Codes}

(* The namespace and the pod's name are environment variables. *)
CheckNamespace(t) == {Done(t, config.namespace)}

(* The pod and then its node are read. *)
CheckProvider(t) ==
  IF ~config.namespace \/ ~config.podName THEN {Done(t, FALSE)}
  ELSE IF t.pc = "start" THEN {To(t, "node"), Done(t, FALSE)}
  ELSE {Done(t, TRUE), Done(t, FALSE)}

CheckK8sVersion(t) == {Done(t, TRUE), Done(t, FALSE)}

(* A body that cannot be read ends the check; a missing metric is reported *)
(* at every attempt, also when a later attempt finds them all.             *)
CheckKMS(t) ==
  LET again == Retry(t, MaxRetry, Done(t, FALSE))
  IN  {again, Done(t, FALSE), Done(t, TRUE),
       [again EXCEPT !.adds = @ \cup {Reported(t.name, FALSE)}]}

(* Each location in turn: found and read, or not. *)
CheckScrapeConfig(t) ==
  IF Configurations = <<>> THEN {Done(t, FALSE)}
  ELSE LET adds(found) == {Reported(t.name, found)}
       IN  {IF t.attempt < Len(Configurations)
            THEN [task |-> [t EXCEPT !.attempt = @ + 1], adds |-> adds(found)]
            ELSE Done(t, found) : found \in BOOLEAN}

(* An error of Stat other than "does not exist" leaves no file info to     *)
(* look at: a panic.                                                       *)
CheckPrometheusVersion(t) ==
  CASE config.executable = "unreadable" -> {[task |-> [t EXCEPT !.pc = "panic"], adds |-> {}]}
    [] config.executable = "executable" -> {Done(t, TRUE), Done(t, FALSE)}
    [] OTHER -> {Done(t, FALSE)}

(* Any failure of an attempt: no answer, a status that is not 200, an      *)
(* encoding or a body that does not decode, no response in the review.     *)
CheckWebhook(t) ==
  {Done(t, TRUE), Retry(t, MaxConnectionAttempts, Done(t, FALSE))}

effectiveClusterID ==
  IF config.istio.configured # "" THEN config.istio.configured ELSE config.istio.clusterName

checkAmbientMode(t) ==
  LET istio == config.istio
  IN  Done(t, /\ istio.configured # ""
              /\ istio.topology \in {"", istio.configured})

(* What the id the sidecar answers decides; "" is an answer without one. *)
checkSidecarMode(t, id) ==
  IF (id # "" /\ effectiveClusterID # id)
     \/ config.istio.topology \notin {"", effectiveClusterID}
  THEN Done(t, FALSE) ELSE To(t, "clusters")

(* The id is asked for twice; a sidecar that does not answer the second    *)
(* time, and whatever the clusters are, pass.                              *)
CheckIstio(t) ==
  CASE t.pc = "start" ->
         {To(t, "sidecar"),
          Retry(t, IstioMaxRetry,
                IF config.istio.ambient THEN checkAmbientMode(t) ELSE Done(t, TRUE))}
    [] t.pc = "sidecar" ->
         {checkSidecarMode(t, id) : id \in config.istio.envoy}
           \cup {Retry(t, IstioMaxRetry, Done(t, TRUE))}
    [] OTHER -> {Done(t, TRUE), Retry(t, IstioMaxRetry, Done(t, TRUE))}

Check(t) ==
  CASE t.name = "api_key_valid" -> CheckAPIKey(t)
    [] t.name = "k8s_version" -> CheckK8sVersion(t)
    [] t.name = "k8s_namespace" -> CheckNamespace(t)
    [] t.name = "k8s_provider" -> CheckProvider(t)
    [] t.name = "kube_state_metrics_reachable" -> CheckKMS(t)
    [] t.name = "scrape_cfg" -> CheckScrapeConfig(t)
    [] t.name = "prometheus_version" -> CheckPrometheusVersion(t)
    [] t.name = "webhook_server_reachable" -> CheckWebhook(t)
    [] t.name = "istio_xcluster_lb" -> CheckIstio(t)

(* A step of one goroutine; AddCheck holds the report's lock. *)
CheckStep(i) ==
  /\ phase = "run" /\ task[i].pc \notin {"done", "panic"}
  /\ \E o \in Check(task[i]) :
       /\ task' = [task EXCEPT ![i] = o.task]
       /\ report' = [report EXCEPT !.checks = @ \cup o.adds]
  /\ UNCHANGED <<command, phase, posted, outcome>>

(* A panic of one goroutine is the end of all. *)
Panic(i) ==
  /\ phase = "run" /\ task[i].pc = "panic"
  /\ Ends("panic")
  /\ UNCHANGED <<command, task, report, posted>>

-----------------------------------------------------------------------------
(* After the join *)

(* Mutant of Joined: Run waits for the first goroutine only. *)
MutJoined == \A i \in DOMAIN task : (\A j \in DOMAIN task : i <= j) => task[i].pc = "done"

Joined == \A i \in DOMAIN task : task[i].pc = "done"

AnyFailing == \E c \in report.checks : ~c.passing

(* The post step; a failing check of pre-start replaces its state. *)
ProcessFailures ==
  /\ phase = "run" /\ Joined
  /\ report' = [report EXCEPT !.state =
                  IF command.stage = "pre-start" /\ AnyFailing THEN "INIT_FAILED" ELSE PostState]
  /\ phase' = "report"
  /\ UNCHANGED <<command, task, posted, outcome>>

ShouldFail ==
  \E c \in report.checks : ~c.passing /\ checkTypes(c.name) = "required"

(* Whether the report is posted; a failed post is only logged. *)
Posts == IF command.run # <<>> THEN command.post ELSE ~config.disableTelemetry

PostReport ==
  /\ phase = "report"
  /\ \/ /\ Posts /\ ~config.disableTelemetry
        /\ \E code \in Codes \ {0} :
             posted' = posted \cup {[report |-> report, accepted |-> Do(code)]}
     \/ UNCHANGED posted
  /\ phase' = "verdict"
  /\ UNCHANGED <<command, task, report, outcome>>

(* The command "run" never fails. *)
Verdict ==
  /\ phase = "verdict"
  /\ Ends(IF command.run = <<>> /\ ShouldFail THEN "failed" ELSE "succeeded")
  /\ UNCHANGED <<command, task, report, posted>>

(* An interrupt ends the process at once, and successfully. *)
Interrupt ==
  /\ phase \notin {"ended", "off"}
  /\ Ends("interrupted")
  /\ UNCHANGED <<command, task, report, posted>>

DiagnoseProgress(Deployment) ==
  \/ LoadSettings(Deployment) \/ NewCatalog \/ StartChecks
  \/ \E i \in DOMAIN task : CheckStep(i) \/ Panic(i)
  \/ ProcessFailures \/ PostReport \/ Verdict

DiagnoseEnded == phase \in {"ended", "off"}

DiagnoseStep(Deployment) == DiagnoseProgress(Deployment) \/ Interrupt

-----------------------------------------------------------------------------
(* Properties *)

Failing(name) == Reported(name, FALSE) \in report.checks

(* The exit code can be trusted although the checks run in parallel and    *)
(* report when they like: a stage succeeds only when every check of it     *)
(* that the catalog knows has reported and no required one has reported a  *)
(* failure, it fails only because of one, and the report that is posted is *)
(* the whole report, its state INIT_OK only when nothing at all failed.    *)
VerdictComplete ==
  /\ \A c \in ToSet(StageChecks) :
       outcome = "succeeded" /\ c.name \in RegisteredChecks =>
         /\ \E passing \in BOOLEAN : Reported(c.name, passing) \in report.checks
         /\ command.run = <<>> /\ checkTypes(c.name) = "required" => ~Failing(c.name)
  /\ outcome = "failed" => \E name \in RegisteredChecks : Failing(name)
  /\ \A p \in posted :
       /\ p.report = report
       /\ p.report.state = "INIT_OK" => ~AnyFailing
       /\ p.report.state = "INIT_FAILED" => AnyFailing
=============================================================================
