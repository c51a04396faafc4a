-------------------------------- MODULE MCJobs --------------------------------
(***************************************************************************)
(* TLC instance of Jobs.  Seven places to run: each cloud, AWS with and    *)
(* without tokens, a network where two metadata services answer, and one   *)
(* where none does.  The validator runs every stage and every check; the   *)
(* regurgitator reads nine files and receives three requests; the          *)
(* certificate job runs three times, once with a wrong key size.           *)
(***************************************************************************)
EXTENDS Jobs

Answer(status, text) == [Failed EXCEPT !.status = status, !.text = text]
Document(region, account, group) ==
  [status |-> 200, text |-> "document", region |-> region, account |-> account, group |-> group]

Absent == {Answer(404, "")}

AwsMetadata(root, token, request) ==
  CASE request = "aws_root" -> {Answer(root, "")}
    [] request = "aws_instance_id" -> {Answer(200, "i-1")}
    [] request = "aws_token" -> {Answer(token, "token")}
    [] request = "aws_region" -> {Answer(200, "us-east-1")}
    [] request = "aws_identity" -> {Document("us-east-1", "123", <<>>), Document("", "", <<>>),
                                    Answer(200, "garbled")}
    [] OTHER -> Absent

AzureMetadata(request) ==
  IF request = "azure_instance"
  THEN {Document("westus", "sub-1", <<"MC", "group", "aks", "westus">>),
        Document("westus", "sub-1", <<"MC", "group", TooLong, "westus">>),
        Document("westus", "sub-1", <<"group">>), Document("westus", "", <<>>)}
  ELSE Absent

GoogleMetadata(request) ==
  CASE request = "google_root" -> {Answer(200, "")}
    [] request = "google_project" -> {Answer(200, "project-1")}
    [] request = "google_zone" -> {[Answer(200, "europe-west1-b") EXCEPT !.region = "europe-west1"],
                                   Answer(200, "zone")}
    [] request = "google_cluster" -> {Answer(200, "gke-1"), Answer(404, "")}
    [] OTHER -> Absent

OracleMetadata(request) ==
  IF request = "oci_instance"
  THEN {[Document("us-ashburn-1", "", <<>>) EXCEPT !.text = "tenant"], Answer(200, "garbled")}
  ELSE Absent

MCClouds == {"aws", "aws without tokens", "azure", "google", "oci", "two", "nowhere"}

MCImds(at, request) ==
  CASE request = "none" -> {}
    [] at = "aws" -> AwsMetadata(401, 200, request)
    [] at = "aws without tokens" -> AwsMetadata(200, 405, request)
    [] at = "azure" -> AzureMetadata(request)
    [] at = "google" -> GoogleMetadata(request)
    [] at = "oci" -> OracleMetadata(request)
    [] at = "two" -> IF request \in {"google_root", "google_project", "google_zone",
                                     "google_cluster"}
                     THEN GoogleMetadata(request) ELSE AwsMetadata(401, 200, request)
    [] OTHER -> {Failed}

Given(region, account, cluster) ==
  [state |-> "pending", region |-> region, account |-> account, cluster |-> cluster]
MCGivens == {Given("", "", ""), Given("", "", "mine"), Given("here", "42", "mine")}

MCValidatorGivens == {Given("", "", ""), Given("here", "42", "mine")}

Sources3(aggregator, webhook) ==
  [aggregator |-> aggregator, webhook |-> webhook, insights |-> TRUE]
Around(aggregator, webhook, apiKey) ==
  [sources |-> Sources3(aggregator, webhook), host |-> TRUE, apiKey |-> apiKey]
MCSurroundings ==
  {Around(TRUE, TRUE, TRUE), Around(TRUE, FALSE, FALSE), Around(FALSE, TRUE, TRUE)}

-----------------------------------------------------------------------------
(* The validator *)

Typed(name, type) == [name |-> name, type |-> type]
Stage(name, checks) == [name |-> name, exact |-> TRUE, checks |-> checks]

MCIstio ==
  [configured |-> "c1", clusterName |-> "c1", topology |-> "c1", ambient |-> FALSE,
   envoy |-> {"", "c1", "c2"}]

MCConfig ==
  [files |-> "readable", logDirectory |-> TRUE, host |-> "api", keyFile |-> "readable",
   endpoint |-> "kms", kubeMetrics |-> TRUE, kubeConfig |-> TRUE, namespace |-> TRUE,
   podName |-> TRUE, executable |-> "executable", configurations |-> <<"a", "", "b", "a">>,
   disableTelemetry |-> FALSE, istio |-> MCIstio,
   stages |-> <<Stage("pre-start", <<Typed("api_key_valid", "required"),
                                     Typed("kube_state_metrics_reachable", "required"),
                                     Typed("istio_xcluster_lb", "optional")>>),
                Stage("post-start", <<Typed("scrape_cfg", "required"),
                                      Typed("k8s_provider", "optional"),
                                      Typed("webhook_server_reachable", "required")>>),
                Stage("config-load", <<Typed("k8s_version", "required"),
                                       Typed("prometheus_version", ""),
                                       Typed("k8s_version", "informative")>>),
                [Stage("pre-stop", <<Typed("k8s_namespace", "required")>>) EXCEPT !.exact = FALSE],
                Stage("pre-stop", <<Typed("agent_settings", "required"),
                                    Typed("k8s_namespace", "optional")>>)>>]

Diagnosing(stage, c) == [run |-> <<>>, stage |-> stage, post |-> TRUE, config |-> c]

MCCommands ==
  {Diagnosing(s, MCConfig) : s \in {"pre-start", "post-start", "config-load", "pre-stop"}}
  \cup {Diagnosing("config-load", c) : c \in
          {[MCConfig EXCEPT !.files = "garbled"], [MCConfig EXCEPT !.logDirectory = FALSE],
           [MCConfig EXCEPT !.host = "garbled"], [MCConfig EXCEPT !.kubeMetrics = FALSE],
           [MCConfig EXCEPT !.stages[1].checks[1].name = "unknown"],
           [MCConfig EXCEPT !.stages[1].name = "unknown"],
           [MCConfig EXCEPT !.kubeConfig = FALSE],
           [MCConfig EXCEPT !.executable = "unreadable"],
           [MCConfig EXCEPT !.disableTelemetry = TRUE]}}
  \cup {[run |-> <<"k8s_provider", "istio_xcluster_lb">>, stage |-> "pre-start", post |-> post,
         config |-> [MCConfig EXCEPT !.istio = [@ EXCEPT !.ambient = TRUE],
                                     !.podName = post]] : post \in BOOLEAN}

-----------------------------------------------------------------------------
(* The regurgitator *)

Row(id, is) == [id |-> id, is |-> is]
File(format, rows) ==
  [format |-> format, opens |-> TRUE, header |-> TRUE, rows |-> rows, fails |-> FALSE]
Input(kind, files) == [kind |-> kind, files |-> files]
Out(format, created, writers) == [format |-> format, created |-> created, writers |-> writers]

csv == File("csv", <<Row(1, "bad"), Row(2, "good")>>)
json == File("json", <<Row(4, "good"), Row(5, "good"), Row(6, "bad")>>)
parquet == File("parquet", <<Row(7, "good")>>)
text == File("text", <<>>)

(* A read that keeps failing, a row that ends before its date, a damaged   *)
(* page, a file that is not Parquet, and one that cannot be opened.        *)
Rows == <<Row(11, "good"), Row(12, "good"), Row(13, "good")>>
unreadable == [File("csv", Rows) EXCEPT !.fails = TRUE]
shortRow == File("csv", Append(Rows, Row(14, "short")))
damaged == [File("parquet", <<Row(15, "good")>>) EXCEPT !.fails = TRUE]
notParquet == [File("parquet", <<>>) EXCEPT !.header = FALSE]
closed == [File("json", <<>>) EXCEPT !.opens = FALSE]

Transcode(inputs, outputs) ==
  [listen |-> FALSE, inputs |-> inputs, requests |-> <<>>, recursive |-> TRUE, address |-> TRUE,
   outputs |-> outputs]
Serve(requests, outputs) ==
  [listen |-> TRUE, inputs |-> <<>>, requests |-> requests, recursive |-> TRUE,
   address |-> TRUE, outputs |-> outputs]

Series(ids) == [samples |-> [i \in DOMAIN ids |-> Row(ids[i], "good")]]
Request(decodes, series) == [post |-> TRUE, decodes |-> decodes, series |-> series]

remote == Out("url", TRUE, 2)
MCTranscodings ==
  {Transcode(<<Input("dir", <<csv, text>>), Input("file", <<parquet>>)>>,
             <<remote, Out("csv", TRUE, 1)>>),
   Transcode(<<Input("file", <<csv>>), Input("file", <<json>>)>>, <<Out("json", TRUE, 1)>>),
   Transcode(<<Input("file", <<unreadable>>), Input("file", <<closed>>)>>,
             <<Out("json", TRUE, 1)>>),
   Transcode(<<Input("file", <<shortRow>>), Input("file", <<damaged>>)>>,
             <<Out("csv", TRUE, 1)>>),
   Transcode(<<Input("file", <<csv>>), Input("file", <<notParquet>>)>>,
             <<Out("csv", TRUE, 1)>>),
   Transcode(<<Input("missing", <<>>)>>, <<Out("parquet", TRUE, 1)>>),
   Transcode(<<Input("file", <<csv>>)>>, <<Out("csv", FALSE, 1)>>),
   Transcode(<<>>, <<remote>>),
   [Transcode(<<Input("dir", <<csv>>)>>, <<remote>>) EXCEPT !.recursive = FALSE],
   Serve(<<Request(TRUE, <<Series(<<1, 2>>), Series(<<3>>)>>), Request(FALSE, <<>>),
           Request(TRUE, <<Series(<<4>>)>>)>>, <<Out("url", TRUE, 1)>>),
   [Serve(<<Request(TRUE, <<Series(<<1>>)>>)>>, <<Out("csv", TRUE, 1)>>) EXCEPT !.address = FALSE]}

-----------------------------------------------------------------------------
(* The certificate job *)

CONSTANTS g1, g2, g3
MCGeneration == {g1, g2, g3}
MCFlags(g) ==
  [service |-> "webhook", namespace |-> "cza", validity |-> 365, algorithm |-> "RSA",
   keySize |-> IF g = g3 THEN 1024 ELSE 2048]
=============================================================================
