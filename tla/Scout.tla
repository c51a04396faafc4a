-------------------------------- MODULE Scout --------------------------------
(***************************************************************************)
(* Detection of the cloud environment (src/app/utils/scout): the four      *)
(* providers are asked in parallel, the first that recognises its metadata *)
(* service cancels the others, its metadata is then read, and the account, *)
(* region and cluster name of the configuration are checked against it or  *)
(* filled in.  Each request to a metadata service, and each of the writes  *)
(* a detecting goroutine makes without a lock, is a step.                  *)
(*                                                                         *)
(* An answer has a status, 0 for a request that failed, a text, "garbled"  *)
(* where a document does not parse, and the fields of a document that say  *)
(* where the process runs.  The empty string is what is missing or blank.  *)
(***************************************************************************)
EXTENDS Naturals, Sequences, Functions

CONSTANTS
  Clouds,           \* the clouds the process may run on
  Imds(_, _),       \* the answers of a cloud to a request
  Givens,           \* the values a configuration may give
  MaxScoutFaults    \* bound: requests that fail

(* A resource group of an answer is the sequence of its parts. *)
ASSUME ScoutAssumption ==
  /\ MaxScoutFaults \in Nat
  /\ \A at \in Clouds : \A answer \in Imds(at, "azure_instance") : answer.group \in Seq(STRING)

VARIABLES
  cloud,      \* where the process runs
  given,      \* region, account and cluster of the configuration
  probe,      \* the detecting goroutines: the request each makes next
  cancelled,  \* the context of the detection
  env,        \* environmentInfo, its error, and the chosen scout
  info,       \* the metadata requests of EnvironmentInfo
  settings,   \* what DetectConfiguration has made of the given values
  scoutFaults

scoutVars == <<cloud, given, probe, cancelled, env, info, settings, scoutFaults>>

Providers == {"aws", "azure", "google", "oci"}

Blank == ""
Unknown == Blank
TooLong == "longer than a label"
NoInfo == [provider |-> Unknown, region |-> Blank, account |-> Blank, cluster |-> Blank]
NoEnv == [info |-> NoInfo, scout |-> Unknown, error |-> FALSE]
NoSettings == [state |-> "pending", region |-> Blank, account |-> Blank, cluster |-> Blank]

(* The first request of Detect. *)
DetectRequest ==
  [aws |-> "aws_root", azure |-> "azure_instance", google |-> "google_root",
   oci |-> "oci_instance"]

ScoutStart(at, clouds, givens) ==
  /\ cloud \in clouds /\ given \in givens
  /\ probe = [p \in Providers |-> IF at = "off" THEN "off" ELSE DetectRequest[p]]
  /\ cancelled = FALSE
  /\ env = NoEnv
  /\ info = [pc |-> "detect", found |-> NoInfo]
  /\ settings = NoSettings
  /\ scoutFaults = 0

ScoutInit == ScoutStart("detect", Clouds, Givens)
ScoutOff == ScoutStart("off", {"nowhere"}, {NoSettings})

Failed == [status |-> 0, text |-> Blank, region |-> Blank, account |-> Blank, group |-> <<>>]

(* A request that fails: the network, the time limit, an unreadable body. *)
RequestFails ==
  scoutFaults < MaxScoutFaults /\ scoutFaults' = scoutFaults + 1

(* The answer a request gets. *)
Answered(request, answer) ==
  \/ answer \in Imds(cloud, request) /\ UNCHANGED scoutFaults
  \/ answer = Failed /\ RequestFails

Success(answer) == answer.status \in 200..299

-----------------------------------------------------------------------------
(* Detect of each provider: what a goroutine does with an answer *)

(* 401 is the answer of a metadata service that insists on a token; after  *)
(* a 200 the instance id is asked for as well.                             *)
DetectAws(request, answer) ==
  IF request = "aws_instance_id"
  THEN IF answer.status = 200 /\ answer.text # Blank THEN "cancel" ELSE "done"
  ELSE IF answer.status = 401 THEN "cancel"
  ELSE IF answer.status = 200 THEN "aws_instance_id" ELSE "done"

DetectAzure(answer) == IF Success(answer) THEN "cancel" ELSE "done"
DetectGoogle(answer) == IF Success(answer) THEN "cancel" ELSE "done"

(* A document that names its tenant (the text) or its region. *)
DetectOracle(answer) ==
  IF /\ answer.status = 200 /\ answer.text # "garbled"
     /\ answer.text # Blank \/ answer.region # Blank
  THEN "cancel" ELSE "done"

Detected(p, request, answer) ==
  CASE p = "aws" -> DetectAws(request, answer)
    [] p = "azure" -> DetectAzure(answer)
    [] p = "google" -> DetectGoogle(answer)
    [] p = "oci" -> DetectOracle(answer)

Requests == {"aws_root", "aws_instance_id", "azure_instance", "google_root", "oci_instance"}

(* A goroutine's request is answered, or fails because it was cancelled. *)
Detect(p) ==
  /\ probe[p] \in Requests
  /\ \/ \E answer \in Imds(cloud, probe[p]) \cup {Failed} :
          /\ Answered(probe[p], answer)
          /\ probe' = [probe EXCEPT ![p] = Detected(p, probe[p], answer)]
     \/ cancelled /\ probe' = [probe EXCEPT ![p] = "done"] /\ UNCHANGED scoutFaults
  /\ UNCHANGED <<cloud, given, cancelled, env, info, settings>>

CancelOthers(p) ==
  /\ probe[p] = "cancel"
  /\ cancelled' = TRUE
  /\ probe' = [probe EXCEPT ![p] = "write_provider"]
  /\ UNCHANGED <<cloud, given, env, info, settings, scoutFaults>>

(* Two goroutines may both have detected: their writes interleave. *)
WriteProvider(p) ==
  /\ probe[p] = "write_provider"
  /\ env' = [env EXCEPT !.info.provider = p]
  /\ probe' = [probe EXCEPT ![p] = "write_scout"]
  /\ UNCHANGED <<cloud, given, cancelled, info, settings, scoutFaults>>

WriteScout(p) ==
  /\ probe[p] = "write_scout"
  /\ env' = [env EXCEPT !.scout = p]
  /\ probe' = [probe EXCEPT ![p] = "done"]
  /\ UNCHANGED <<cloud, given, cancelled, info, settings, scoutFaults>>

-----------------------------------------------------------------------------
(* EnvironmentInfo of the chosen provider *)

FirstRequest ==
  [aws |-> "aws_token", azure |-> "azure_instance", google |-> "google_project",
   oci |-> "oci_instance"]

(* All goroutines have ended; without a scout there is no provider. *)
DetectReturns ==
  /\ info.pc = "detect"
  /\ \A p \in Providers : probe[p] = "done"
  /\ IF env.scout = Unknown
     THEN info' = [info EXCEPT !.pc = "done"] /\ env' = [env EXCEPT !.error = TRUE]
     ELSE info' = [pc |-> FirstRequest[env.scout], found |-> [NoInfo EXCEPT !.provider = env.scout]]
          /\ UNCHANGED env
  /\ UNCHANGED <<cloud, given, probe, cancelled, settings, scoutFaults>>

(* The next request, the metadata with what this one has told, or an error. *)
Then(pc, found) == [pc |-> pc, found |-> found]
Error == Then("error", NoInfo)

(* 405 to the request for a token: the requests go on without one. *)
getToken(found, answer) ==
  IF answer.status \in {200, 405} THEN Then("aws_region", found) ELSE Error
getMetadata(found, answer) ==
  IF answer.status = 200 THEN Then("aws_identity", [found EXCEPT !.region = answer.text])
  ELSE Error
Parsed(answer) == answer.status = 200 /\ answer.text # "garbled"

getAccountID(found, answer) ==
  IF Parsed(answer) /\ answer.account # Blank
  THEN Then("store", [found EXCEPT !.account = answer.account]) ELSE Error

(* The cluster is the last part but one of a resource group MC_..._..._... *)
(* with at least three; a name that is too long for a DNS label is dropped.*)
extractClusterName(group) ==
  IF Len(group) >= 4 /\ group[1] = "MC" /\ group[Len(group) - 1] # TooLong
  THEN group[Len(group) - 1] ELSE Blank

azureInfo(found, answer) ==
  IF Parsed(answer) /\ answer.account # Blank /\ answer.region # Blank
  THEN Then("store", [found EXCEPT !.region = answer.region, !.account = answer.account,
                                   !.cluster = extractClusterName(answer.group)])
  ELSE Error

(* The tenancy is no account: the canonical region is all there is. *)
oracleInfo(found, answer) ==
  IF Parsed(answer) /\ answer.region # Blank
  THEN Then("store", [found EXCEPT !.region = answer.region]) ELSE Error

(* The region is the zone without its last part; a zone of one part stays. *)
extractRegionFromZone(answer) ==
  IF answer.region # Blank THEN answer.region ELSE answer.text

(* A missing cluster name is no error. *)
googleInfo(found, request, answer) ==
  CASE request = "google_project" /\ answer.status = 200 ->
         Then("google_zone", [found EXCEPT !.account = answer.text])
    [] request = "google_zone" /\ answer.status = 200 ->
         Then("google_cluster", [found EXCEPT !.region = extractRegionFromZone(answer)])
    [] request = "google_cluster" ->
         Then("store", [found EXCEPT !.cluster =
                          IF answer.status = 200 THEN answer.text ELSE Blank])
    [] OTHER -> Error

InfoNext(request, found, answer) ==
  CASE request = "aws_token" -> getToken(found, answer)
    [] request = "aws_region" -> getMetadata(found, answer)
    [] request = "aws_identity" -> getAccountID(found, answer)
    [] request = "azure_instance" -> azureInfo(found, answer)
    [] request = "oci_instance" -> oracleInfo(found, answer)
    [] OTHER -> googleInfo(found, request, answer)

InfoRequest ==
  /\ info.pc \notin {"detect", "store", "error", "done"}
  /\ \E answer \in Imds(cloud, info.pc) \cup {Failed} :
       /\ Answered(info.pc, answer)
       /\ info' = InfoNext(info.pc, info.found, answer)
  /\ UNCHANGED <<cloud, given, probe, cancelled, env, settings>>

(* The metadata replaces what the detection has written. *)
StoreInfo ==
  /\ info.pc \in {"store", "error"}
  /\ env' = IF info.pc = "error" THEN [env EXCEPT !.error = TRUE]
            ELSE [env EXCEPT !.info = info.found]
  /\ info' = [info EXCEPT !.pc = "done"]
  /\ UNCHANGED <<cloud, given, probe, cancelled, settings, scoutFaults>>

-----------------------------------------------------------------------------
(* DetectConfiguration *)

(* What is detected wins over what is given. *)
Pick(detected, own) == IF detected # Blank THEN detected ELSE own

Settled(state, values) ==
  [state |-> state, region |-> values.region, account |-> values.account,
   cluster |-> values.cluster]

(* Mutant of Merged: a value that is neither given nor detected is left empty. *)
MutMerged(own, found) ==
  Settled("ok", [region |-> Pick(found.region, own.region),
                 account |-> Pick(found.account, own.account),
                 cluster |-> Pick(found.cluster, own.cluster)])

Merged(own, found) ==
  LET merged == [region |-> Pick(found.region, own.region),
                 account |-> Pick(found.account, own.account),
                 cluster |-> Pick(found.cluster, own.cluster)]
  IN  IF Blank \in {merged.region, merged.account, merged.cluster}
      THEN Settled("error", own) ELSE Settled("ok", merged)

(* A failed or unknown detection is only a warning when all is given. *)
DetectConfiguration ==
  /\ info.pc = "done" /\ settings.state = "pending"
  /\ settings' =
       IF env.error \/ env.info.provider = Unknown
       THEN IF Blank \in {given.region, given.account, given.cluster}
            THEN Settled("error", given) ELSE Settled("ok", given)
       ELSE Merged(given, env.info)
  /\ UNCHANGED <<cloud, given, probe, cancelled, env, info, scoutFaults>>

-----------------------------------------------------------------------------
ScoutStep ==
  \/ \E p \in Providers : Detect(p) \/ CancelOthers(p) \/ WriteProvider(p) \/ WriteScout(p)
  \/ DetectReturns \/ InfoRequest \/ StoreInfo

-----------------------------------------------------------------------------
(* Properties *)

(* The requests a provider's metadata comes from. *)
Origin ==
  [aws |-> [region |-> "aws_region", account |-> "aws_identity", cluster |-> "none"],
   azure |-> [region |-> "azure_instance", account |-> "azure_instance",
              cluster |-> "azure_instance"],
   google |-> [region |-> "google_zone", account |-> "google_project",
               cluster |-> "google_cluster"],
   oci |-> [region |-> "oci_instance", account |-> "none", cluster |-> "none"]]

AnswersOf(request) ==
  UNION {{a.text, a.region, a.account} \cup Range(a.group) : a \in Imds(cloud, request)}

FromOneCloud(values) ==
  \E p \in Providers : \A field \in DOMAIN Origin[p] :
    values[field] = given[field] \/ values[field] \in AnswersOf(Origin[p][field])

(* Settings that are accepted are complete, and never a mixture of two     *)
(* clouds: although several goroutines may detect and write the provider   *)
(* and the scout without a lock, every value that is not the given one was *)
(* answered by one and the same metadata service to the request for it.    *)
ConfigurationSound ==
  settings.state = "ok" =>
    /\ Blank \notin {settings.region, settings.account, settings.cluster}
    /\ FromOneCloud(settings)
=============================================================================
