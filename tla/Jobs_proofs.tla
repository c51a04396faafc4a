----------------------------- MODULE Jobs_proofs -----------------------------
(***************************************************************************)
(* Proofs, for any number of runs of the certificate job, places to run,   *)
(* invocations of the validator and transcodings: the secret and the CA    *)
(* bundle belong together after a certificate job that succeeded and was   *)
(* alone; accepted settings are complete and of one cloud; the verdict of a *)
(* stage, its report and its checks agree; and nothing is lost between the *)
(* regurgitator's readers and outputs.  The programs do not disturb each   *)
(* other.                                                                  *)
(***************************************************************************)
EXTENDS Jobs, TLAPS

-----------------------------------------------------------------------------
(* The inductive invariant *)

RunType ==
  /\ generation \in
       [Generation -> [pc : {"off", "new", "secret", "bundle", "succeeded", "failed"},
                       alone : BOOLEAN]]
  /\ latest \subseteq Generation

(* While the last run is alone no other is under way: nobody patches what  *)
(* it has patched.                                                         *)
NoRival ==
  \A g \in latest : generation[g].alone =>
    \A h \in Generation : h # g => ~Running(h)

(* It goes on to the bundle, and succeeds, only with its own certificate.  *)
OwnSecret ==
  \A g \in latest :
    generation[g].alone /\ generation[g].pc \in {"bundle", "succeeded"} =>
      secret = CertificateData(g)

OwnBundle ==
  \A g \in latest :
    generation[g].alone /\ generation[g].pc = "succeeded" => webhooks.caBundle = g

IInv == RunType /\ webhooks \in [any : BOOLEAN, caBundle : Generation \cup {None}]
          /\ NoRival /\ OwnSecret /\ OwnBundle

-----------------------------------------------------------------------------
(* A pc is set for one run only. *)
LEMMA AtSetsOne ==
  ASSUME NEW g \in Generation, NEW pc \in {"bundle", "succeeded", "failed"}, RunType, At(g, pc)
  PROVE  /\ generation' \in
              [Generation -> [pc : {"off", "new", "secret", "bundle", "succeeded", "failed"},
                              alone : BOOLEAN]]
         /\ generation'[g].pc = pc /\ generation'[g].alone = generation[g].alone
         /\ \A h \in Generation : h # g => generation'[h] = generation[h]
  BY DEF RunType, At

LEMMA BundleInit == CertificatesInit \/ CertificatesOff => IInv
<1> SUFFICES ASSUME CertificatesInit \/ CertificatesOff PROVE IInv
  OBVIOUS
<1>1. /\ latest = {}
      /\ generation \in [Generation -> [pc : {"off", "new"}, alone : BOOLEAN]]
      /\ webhooks \in [any : BOOLEAN, caBundle : {None}]
  <2>1. CASE CertificatesInit
    BY <2>1 DEF CertificatesInit, CertificatesStart
  <2>2. CASE CertificatesOff
    BY <2>2 DEF CertificatesOff, CertificatesStart
  <2> QED BY <2>1, <2>2
<1>2. RunType
  BY <1>1 DEF RunType
<1> QED BY <1>1, <1>2 DEF IInv, NoRival, OwnSecret, OwnBundle

(* A run that starts is the last, and alone if no other is under way.      *)
LEMMA GenerateKeeps ==
  ASSUME IInv, NEW g \in Generation, Generate(g)
  PROVE  IInv'
<1>1. /\ latest' = {g} /\ webhooks' = webhooks
      /\ generation'[g].pc \in {"secret", "failed"}
      /\ generation'[g].alone => \A o \in Generation : ~Running(o)
      /\ \A h \in Generation : h # g => generation'[h].pc = generation[h].pc
  BY DEF IInv, RunType, Generate
<1>2. generation' \in
        [Generation -> [pc : {"off", "new", "secret", "bundle", "succeeded", "failed"},
                        alone : BOOLEAN]]
  BY DEF IInv, RunType, Generate
<1>3. RunType'
  BY <1>1, <1>2 DEF RunType
<1>4. NoRival'
  BY <1>1 DEF NoRival, Running
<1>5. OwnSecret' /\ OwnBundle'
  BY <1>1 DEF OwnSecret, OwnBundle
<1> QED BY <1>1, <1>3, <1>4, <1>5 DEF IInv

(* A run patches the secret.  If it is not the last one, or not alone, the *)
(* last one is not alone either.                                           *)
LEMMA PatchSecretKeeps ==
  ASSUME IInv, NEW g \in Generation, PatchSecret(g)
  PROVE  IInv'
<1>1. /\ latest' = latest /\ webhooks' = webhooks /\ generation[g].pc = "secret"
      /\ \/ At(g, "bundle") /\ secret' = CertificateData(g)
         \/ At(g, "failed")
  BY DEF PatchSecret
<1>2. PICK pc \in {"bundle", "failed"} :
        At(g, pc) /\ (pc = "bundle" => secret' = CertificateData(g))
  BY <1>1
<1>3. /\ generation' \in
           [Generation -> [pc : {"off", "new", "secret", "bundle", "succeeded", "failed"},
                           alone : BOOLEAN]]
      /\ generation'[g].pc = pc /\ generation'[g].alone = generation[g].alone
      /\ \A h \in Generation : h # g => generation'[h] = generation[h]
  BY <1>2, AtSetsOne DEF IInv
<1>4. Running(g)
  BY <1>1 DEF Running
<1>5. NoRival'
  BY <1>1, <1>3, <1>4 DEF IInv, NoRival, Running, RunType
<1>6. \A h \in latest : generation'[h].alone => h = g
  BY <1>3, <1>4 DEF IInv, NoRival, RunType
<1>7. OwnSecret' /\ OwnBundle'
  BY <1>1, <1>2, <1>3, <1>6 DEF OwnSecret, OwnBundle, CertificateData
<1>8. RunType'
  BY <1>1, <1>3 DEF IInv, RunType
<1> QED BY <1>1, <1>5, <1>7, <1>8 DEF IInv

(* A run patches the bundle: what it then has in both places is its own.   *)
LEMMA PatchBundleKeeps ==
  ASSUME IInv, NEW g \in Generation, PatchWebhookConfiguration(g)
  PROVE  IInv'
<1> DEFINE patched == IF webhooks.any
                      THEN [webhooks EXCEPT !.caBundle = CertificateData(g).caBundle] ELSE webhooks
<1>1. /\ latest' = latest /\ secret' = secret /\ generation[g].pc = "bundle"
      /\ webhooks' \in {webhooks, patched}
  BY DEF PatchWebhookConfiguration
<1>2. PICK pc \in {"succeeded", "failed"} :
        At(g, pc) /\ (pc = "succeeded" => webhooks.any /\ webhooks' = patched)
  BY DEF PatchWebhookConfiguration
<1>3. /\ generation' \in
           [Generation -> [pc : {"off", "new", "secret", "bundle", "succeeded", "failed"},
                           alone : BOOLEAN]]
      /\ generation'[g].pc = pc /\ generation'[g].alone = generation[g].alone
      /\ \A h \in Generation : h # g => generation'[h] = generation[h]
  BY <1>2, AtSetsOne DEF IInv
<1>4. Running(g)
  BY <1>1 DEF Running
<1>5. NoRival'
  BY <1>1, <1>3, <1>4 DEF IInv, NoRival, Running, RunType
<1>6. \A h \in latest : generation'[h].alone => h = g
  BY <1>3, <1>4 DEF IInv, NoRival, RunType
<1>7. webhooks' \in [any : BOOLEAN, caBundle : Generation \cup {None}]
      /\ (pc = "succeeded" => webhooks'.caBundle = g)
  BY <1>1, <1>2 DEF IInv, CertificateData
<1>8. OwnSecret'
  BY <1>1, <1>3, <1>6 DEF IInv, OwnSecret, CertificateData
<1>9. OwnBundle'
  BY <1>1, <1>3, <1>6, <1>7 DEF OwnBundle
<1>10. RunType'
  BY <1>1, <1>3 DEF IInv, RunType
<1> QED BY <1>5, <1>7, <1>8, <1>9, <1>10 DEF IInv

LEMMA StutterKeeps == ASSUME IInv, UNCHANGED certificateVars PROVE IInv'
  BY DEF IInv, RunType, NoRival, OwnSecret, OwnBundle, Running, CertificateData, certificateVars

LEMMA InvImpliesBundle == IInv => BundleMatches
<1> SUFFICES ASSUME IInv, NEW g \in latest,
                    generation[g].pc = "succeeded", generation[g].alone
             PROVE  /\ ValidateExistingCertificate
                    /\ secret.tlsKey = secret.tlsCrt /\ secret.caBundle = secret.tlsCrt
                    /\ webhooks.caBundle = secret.caBundle
  BY DEF BundleMatches
<1>1. g \in Generation /\ g # None
  BY CertificatesAssumption DEF IInv, RunType
<1>2. secret = CertificateData(g) /\ webhooks.caBundle = g
  BY DEF IInv, OwnSecret, OwnBundle
<1> QED BY <1>1, <1>2 DEF CertificateData, ValidateExistingCertificate, NoCertificate

-----------------------------------------------------------------------------
(* A step of the programs is one of the certificate job or leaves its      *)
(* state alone.                                                            *)
LEMMA JobsStep ==
  ASSUME [JobsNext]_jobsVars
  PROVE  CertificatesStep \/ UNCHANGED certificateVars
  BY DEF JobsNext, Programs, Diagnoses, Regurgitates, Certifies, jobsVars

(* After a certificate job that succeeded without overlapping another the  *)
(* server certificate, its key and both copies of the CA belong together,  *)
(* whatever earlier runs left (certificate.go:226, UpdateResources).       *)
THEOREM BundleIsSound == JobsSpec => []BundleMatches
<1>1. JobsInit => IInv
  BY BundleInit DEF JobsInit
<1>2. IInv /\ [JobsNext]_jobsVars => IInv'
  BY JobsStep, StutterKeeps, GenerateKeeps, PatchSecretKeeps, PatchBundleKeeps
     DEF CertificatesStep, CertificatesProgress
<1>3. IInv => BundleMatches
  BY InvImpliesBundle
<1> QED BY <1>1, <1>2, <1>3, PTL DEF JobsSpec

-----------------------------------------------------------------------------
(* The scout: the metadata that is collected is one provider's *)

Fields == {"region", "account", "cluster"}
FoundShape(i) ==
  i = [provider |-> i.provider, region |-> i.region, account |-> i.account, cluster |-> i.cluster]

(* Every field is missing or was answered to the request for it. *)
Sourced(i, p) ==
  /\ FoundShape(i) /\ i.provider = p
  /\ \A f \in Fields : i[f] = Blank \/ i[f] \in AnswersOf(Origin[p][f])

Asking ==
  [aws |-> {"aws_token", "aws_region", "aws_identity"}, azure |-> {"azure_instance"},
   google |-> {"google_project", "google_zone", "google_cluster"}, oci |-> {"oci_instance"}]

Switched == cloud \in Clouds \/ (info.pc = "detect" /\ \A p \in Providers : probe[p] = "off")

ScoutType ==
  /\ env = [info |-> env.info, scout |-> env.scout, error |-> env.error]
  /\ info = [pc |-> info.pc, found |-> info.found]
  /\ FoundShape(env.info)
  /\ env.scout \in Providers \cup {Unknown}

(* Nobody writes the provider any more when the requests for metadata are  *)
(* made: all goroutines have ended.                                        *)
JoinedInv == info.pc # "detect" => \A p \in Providers : probe[p] = "done"

InfoInv ==
  info.pc \notin {"detect", "error", "done"} =>
    \E p \in Providers : Sourced(info.found, p) /\ info.pc \in Asking[p] \cup {"store"}

EnvInv == info.pc = "done" => env.error = TRUE \/ \E p \in Providers : Sourced(env.info, p)

ScoutInv ==
  Switched /\ ScoutType /\ JoinedInv /\ InfoInv /\ EnvInv /\ ConfigurationSound

LEMMA OriginOf ==
  ASSUME NEW p \in Providers PROVE DOMAIN Origin[p] = Fields
  BY DEF Providers, Origin, Fields

LEMMA InAnswers ==
  ASSUME NEW request, NEW a \in Imds(cloud, request)
  PROVE  /\ a.text \in AnswersOf(request) /\ a.region \in AnswersOf(request)
         /\ a.account \in AnswersOf(request) /\ Range(a.group) \subseteq AnswersOf(request)
  BY DEF AnswersOf

LEMMA ScoutStarts ==
  ASSUME NEW at, NEW clouds, NEW givens, ScoutStart(at, clouds, givens),
         clouds \subseteq Clouds \/ at = "off"
  PROVE  ScoutInv
<1>1. /\ cloud \in clouds /\ env = NoEnv /\ info = [pc |-> "detect", found |-> NoInfo]
      /\ settings = NoSettings
      /\ probe = [p \in Providers |-> IF at = "off" THEN "off" ELSE DetectRequest[p]]
  BY DEF ScoutStart
<1>2. Switched
  BY <1>1 DEF Switched
<1>3. ScoutType
  BY <1>1 DEF ScoutType, FoundShape, NoEnv, NoInfo
<1> QED BY <1>1, <1>2, <1>3
           DEF ScoutInv, JoinedInv, InfoInv, EnvInv, ConfigurationSound, NoSettings

(* An answer, or none, moves on within one provider's requests. *)
LEMMA InfoMoves ==
  ASSUME NEW p \in Providers, NEW request \in Asking[p], NEW found, Sourced(found, p),
         NEW answer, answer \in Imds(cloud, request) \/ answer = Failed,
         cloud \in Clouds, NEW next, next = InfoNext(request, found, answer)
  PROVE  /\ next = [pc |-> next.pc, found |-> next.found]
         /\ \/ next.pc = "error"
            \/ next.pc \in Asking[p] \cup {"store"} /\ Sourced(next.found, p)
<1> USE DEF Fields
<1>1. /\ answer = Failed => answer.status = 0
      /\ answer.status = 200 => answer \in Imds(cloud, request)
  BY DEF Failed
<1>2. /\ FoundShape(found) /\ found.provider = p
      /\ \A f \in Fields : found[f] = Blank \/ found[f] \in AnswersOf(Origin[p][f])
  BY DEF Sourced
<1>3. Error = [pc |-> "error", found |-> NoInfo]
  BY DEF Error, Then
<1>4. CASE p = "aws"
  <2>1. request \in {"aws_token", "aws_region", "aws_identity"}
    BY <1>4 DEF Asking
  <2>2. Origin[p].region = "aws_region" /\ Origin[p].account = "aws_identity"
    BY <1>4 DEF Origin
  <2>3. CASE request = "aws_token"
    BY <1>3, <1>4, <2>3 DEF InfoNext, getToken, Then, Asking
  <2>4. CASE request = "aws_region"
    <3>1. next = IF answer.status = 200
                 THEN [pc |-> "aws_identity", found |-> [found EXCEPT !.region = answer.text]]
                 ELSE Error
      BY <2>4 DEF InfoNext, getMetadata, Then
    <3>2. answer.status = 200 => Sourced([found EXCEPT !.region = answer.text], p)
      BY <1>1, <1>2, <2>2, <2>4, InAnswers DEF Sourced, FoundShape
    <3> QED BY <1>3, <1>4, <3>1, <3>2 DEF Asking
  <2>5. CASE request = "aws_identity"
    <3>1. \/ next = Error
          \/ /\ answer.status = 200
             /\ next = [pc |-> "store", found |-> [found EXCEPT !.account = answer.account]]
      BY <2>5 DEF InfoNext, getAccountID, Parsed, Then
    <3>2. answer.status = 200 => Sourced([found EXCEPT !.account = answer.account], p)
      BY <1>1, <1>2, <2>2, <2>5, InAnswers DEF Sourced, FoundShape
    <3> QED BY <1>3, <3>1, <3>2
  <2> QED BY <2>1, <2>3, <2>4, <2>5
<1>5. CASE p = "azure"
  <2> DEFINE cluster == extractClusterName(answer.group)
             new == [found EXCEPT !.region = answer.region, !.account = answer.account,
                                  !.cluster = cluster]
  <2>1. request = "azure_instance"
    BY <1>5 DEF Asking
  <2>2. \A f \in Fields : Origin[p][f] = "azure_instance"
    BY <1>5 DEF Origin
  <2>3. next = Error \/ (answer.status = 200 /\ next = [pc |-> "store", found |-> new])
    BY <2>1 DEF InfoNext, azureInfo, Parsed, Then
  <2>4. ASSUME answer.status = 200 PROVE Sourced(new, p)
    <3>1. answer \in Imds(cloud, "azure_instance") /\ answer.group \in Seq(STRING)
      BY <1>1, <2>1, <2>4, ScoutAssumption
    <3>2. cluster = Blank \/ cluster \in Range(answer.group)
      <4>1. CASE Len(answer.group) >= 4
        <5>1. Len(answer.group) - 1 \in DOMAIN answer.group
          BY <3>1, <4>1
        <5> QED BY <5>1 DEF extractClusterName, Range
      <4> QED BY <4>1 DEF extractClusterName
    <3> HIDE DEF cluster
    <3>3. /\ new.region = answer.region /\ new.account = answer.account
          /\ new.cluster = cluster /\ new.provider = p /\ FoundShape(new)
      <4>1. PICK a : a = [found EXCEPT !.region = answer.region]
        OBVIOUS
      <4>2. a = [provider |-> p, region |-> answer.region, account |-> found.account,
                 cluster |-> found.cluster]
        BY <1>2, <4>1 DEF FoundShape
      <4>3. PICK b : b = [a EXCEPT !.account = answer.account]
        OBVIOUS
      <4>4. b = [provider |-> p, region |-> answer.region, account |-> answer.account,
                 cluster |-> found.cluster]
        BY <4>2, <4>3
      <4>5. new = [b EXCEPT !.cluster = cluster]
        BY <4>1, <4>3
      <4>6. new = [provider |-> p, region |-> answer.region, account |-> answer.account,
                   cluster |-> cluster]
        BY <4>4, <4>5
      <4> QED BY <4>6 DEF FoundShape
    <3> HIDE DEF new
    <3> QED BY <2>2, <3>1, <3>2, <3>3, InAnswers DEF Sourced
  <2> QED BY <1>3, <2>3, <2>4
<1>6. CASE p = "google"
  <2>1. request \in {"google_project", "google_zone", "google_cluster"}
    BY <1>6 DEF Asking
  <2>2. /\ Origin[p].region = "google_zone" /\ Origin[p].account = "google_project"
        /\ Origin[p].cluster = "google_cluster"
    BY <1>6 DEF Origin
  <2>3. CASE request = "google_project"
    <3>1. next = IF answer.status = 200
                 THEN [pc |-> "google_zone", found |-> [found EXCEPT !.account = answer.text]]
                 ELSE Error
      BY <2>3 DEF InfoNext, googleInfo, Then
    <3>2. answer.status = 200 => Sourced([found EXCEPT !.account = answer.text], p)
      BY <1>1, <1>2, <2>2, <2>3, InAnswers DEF Sourced, FoundShape
    <3> QED BY <1>3, <1>6, <3>1, <3>2 DEF Asking
  <2>4. CASE request = "google_zone"
    <3> DEFINE region == extractRegionFromZone(answer)
    <3>1. next = IF answer.status = 200
                 THEN [pc |-> "google_cluster", found |-> [found EXCEPT !.region = region]]
                 ELSE Error
      BY <2>4 DEF InfoNext, googleInfo, Then
    <3>2. answer.status = 200 => region \in AnswersOf("google_zone")
      BY <1>1, <2>4, InAnswers DEF extractRegionFromZone
    <3> HIDE DEF region
    <3>3. answer.status = 200 => Sourced([found EXCEPT !.region = region], p)
      BY <1>2, <2>2, <3>2 DEF Sourced, FoundShape
    <3> QED BY <1>3, <1>6, <3>1, <3>3 DEF Asking
  <2>5. CASE request = "google_cluster"
    <3> DEFINE cluster == IF answer.status = 200 THEN answer.text ELSE Blank
    <3>1. next = [pc |-> "store", found |-> [found EXCEPT !.cluster = cluster]]
      BY <2>5 DEF InfoNext, googleInfo, Then
    <3>2. cluster = Blank \/ cluster \in AnswersOf("google_cluster")
      BY <1>1, <2>5, InAnswers
    <3> HIDE DEF cluster
    <3>3. Sourced([found EXCEPT !.cluster = cluster], p)
      BY <1>2, <2>2, <3>2 DEF Sourced, FoundShape
    <3> QED BY <3>1, <3>3
  <2> QED BY <2>1, <2>3, <2>4, <2>5
<1>7. CASE p = "oci"
  <2>1. request = "oci_instance" /\ Origin[p].region = "oci_instance"
    BY <1>7 DEF Asking, Origin
  <2>2. \/ next = Error
        \/ /\ answer.status = 200
           /\ next = [pc |-> "store", found |-> [found EXCEPT !.region = answer.region]]
    BY <2>1 DEF InfoNext, oracleInfo, Parsed, Then
  <2>3. answer.status = 200 => Sourced([found EXCEPT !.region = answer.region], p)
    BY <1>1, <1>2, <2>1, InAnswers DEF Sourced, FoundShape
  <2> QED BY <1>3, <2>2, <2>3
<1> QED BY <1>4, <1>5, <1>6, <1>7 DEF Providers

(* What does not touch the settings keeps them sound. *)
LEMMA SettingsStay ==
  ASSUME ConfigurationSound, UNCHANGED <<cloud, given, settings>> PROVE ConfigurationSound'
  BY DEF ConfigurationSound, FromOneCloud, AnswersOf

LEMMA SourcedStays ==
  ASSUME cloud' = cloud, NEW i, NEW p, Sourced(i, p) PROVE Sourced(i, p)'
  BY DEF Sourced, AnswersOf

LEMMA DetectKeeps ==
  ASSUME ScoutInv, NEW p \in Providers,
         Detect(p) \/ CancelOthers(p) \/ WriteProvider(p) \/ WriteScout(p)
  PROVE  ScoutInv'
<1>1. /\ probe[p] \notin {"done", "off"} /\ UNCHANGED <<cloud, given, info, settings>>
      /\ \/ env' = env
         \/ env' = [env EXCEPT !.info.provider = p]
         \/ env' = [env EXCEPT !.scout = p]
  BY DEF Detect, CancelOthers, WriteProvider, WriteScout, Requests
<1>2. info.pc = "detect" /\ cloud \in Clouds
  BY <1>1 DEF ScoutInv, JoinedInv, Switched
<1>3. ScoutType'
  <2>1. CASE env' = env
    BY <1>1, <2>1 DEF ScoutInv, ScoutType, FoundShape
  <2>2. CASE env' = [env EXCEPT !.info.provider = p]
    <3>1. env' = [env EXCEPT !.info = [env.info EXCEPT !.provider = p]]
      BY <2>2
    <3>2. /\ env' = [info |-> env'.info, scout |-> env'.scout, error |-> env'.error]
          /\ env'.scout = env.scout /\ env'.info = [env.info EXCEPT !.provider = p]
      BY <3>1 DEF ScoutInv, ScoutType
    <3>3. FoundShape(env'.info)
      BY <3>2 DEF ScoutInv, ScoutType, FoundShape
    <3> QED BY <1>1, <3>2, <3>3 DEF ScoutInv, ScoutType, FoundShape
  <2>3. CASE env' = [env EXCEPT !.scout = p]
    <3>1. /\ env' = [info |-> env'.info, scout |-> env'.scout, error |-> env'.error]
          /\ env'.scout = p /\ env'.info = env.info
      BY <2>3 DEF ScoutInv, ScoutType
    <3> QED BY <1>1, <3>1 DEF ScoutInv, ScoutType, FoundShape
  <2> QED BY <1>1, <2>1, <2>2, <2>3
<1>4. ConfigurationSound'
  BY <1>1, SettingsStay DEF ScoutInv
<1> QED BY <1>1, <1>2, <1>3, <1>4 DEF ScoutInv, Switched, JoinedInv, InfoInv, EnvInv

LEMMA DetectReturnsKeeps ==
  ASSUME ScoutInv, DetectReturns PROVE ScoutInv'
<1>1. /\ info.pc = "detect" /\ \A p \in Providers : probe[p] = "done"
      /\ UNCHANGED <<cloud, given, probe, settings>>
      /\ \/ /\ info' = [info EXCEPT !.pc = "done"] /\ env' = [env EXCEPT !.error = TRUE]
         \/ /\ env.scout # Unknown /\ UNCHANGED env
            /\ info' = [pc |-> FirstRequest[env.scout],
                        found |-> [NoInfo EXCEPT !.provider = env.scout]]
  BY DEF DetectReturns
<1>2. cloud \in Clouds
  <2>1. "aws" \in Providers
    BY DEF Providers
  <2> QED BY <1>1, <2>1 DEF ScoutInv, Switched
<1>3. ConfigurationSound'
  BY <1>1, SettingsStay DEF ScoutInv
<1>4. CASE info' = [info EXCEPT !.pc = "done"] /\ env' = [env EXCEPT !.error = TRUE]
  <2>1. /\ env' = [info |-> env.info, scout |-> env.scout, error |-> TRUE]
        /\ info' = [pc |-> "done", found |-> info.found]
    BY <1>4 DEF ScoutInv, ScoutType
  <2>2. env'.error = TRUE
    BY <2>1
  <2>3. ScoutType'
    BY <2>1 DEF ScoutInv, ScoutType, FoundShape
  <2>4. info'.pc = "done"
    BY <2>1
  <2> QED BY <1>1, <1>2, <1>3, <2>2, <2>3, <2>4
             DEF ScoutInv, Switched, JoinedInv, InfoInv, EnvInv
<1>5. CASE /\ env.scout # Unknown /\ UNCHANGED env
           /\ info' = [pc |-> FirstRequest[env.scout],
                       found |-> [NoInfo EXCEPT !.provider = env.scout]]
  <2>1. env.scout \in Providers
    BY <1>5 DEF ScoutInv, ScoutType
  <2>2. FirstRequest[env.scout] \in Asking[env.scout]
    BY <2>1 DEF FirstRequest, Asking, Providers
  <2>3. info'.found = [provider |-> env.scout, region |-> Blank, account |-> Blank,
                       cluster |-> Blank]
    BY <1>5 DEF NoInfo
  <2>4. ASSUME NEW i, i = info'.found, NEW p, p = env.scout PROVE Sourced(i, p)'
    BY <2>3, <2>4 DEF Sourced, FoundShape, Fields
  <2>5. info'.pc \in Asking[env.scout] /\ info'.pc \notin {"done", "detect"}
    BY <1>5, <2>1, <2>2 DEF Asking, Providers
  <2>6. ScoutType'
    BY <1>5 DEF ScoutInv, ScoutType, FoundShape
  <2>7. InfoInv'
    BY <1>5, <2>1, <2>4, <2>5 DEF InfoInv
  <2> QED BY <1>1, <1>2, <1>3, <2>5, <2>6, <2>7
             DEF ScoutInv, Switched, JoinedInv, EnvInv
<1> QED BY <1>1, <1>4, <1>5

LEMMA InfoRequestKeeps ==
  ASSUME ScoutInv, InfoRequest PROVE ScoutInv'
<1>1. /\ info.pc \notin {"detect", "store", "error", "done"}
      /\ UNCHANGED <<cloud, given, probe, env, settings>>
  BY DEF InfoRequest
<1>2. PICK answer :
        /\ answer \in Imds(cloud, info.pc) \/ answer = Failed
        /\ info' = InfoNext(info.pc, info.found, answer)
  BY DEF InfoRequest
<1>3. PICK p \in Providers : Sourced(info.found, p) /\ info.pc \in Asking[p]
  BY <1>1 DEF ScoutInv, InfoInv
<1>4. cloud \in Clouds
  BY <1>1 DEF ScoutInv, Switched
<1>5. /\ info' = [pc |-> info'.pc, found |-> info'.found]
      /\ \/ info'.pc = "error"
         \/ info'.pc \in Asking[p] \cup {"store"} /\ Sourced(info'.found, p)
  BY <1>2, <1>3, <1>4, InfoMoves
<1>6. InfoInv'
  BY <1>1, <1>5, SourcedStays DEF InfoInv
<1>7. info'.pc \notin {"detect", "done"}
  BY <1>5 DEF Asking, Providers
<1>8. ScoutType'
  BY <1>1, <1>5 DEF ScoutInv, ScoutType, FoundShape
<1>9. ConfigurationSound'
  BY <1>1, SettingsStay DEF ScoutInv
<1> QED BY <1>1, <1>4, <1>6, <1>7, <1>8, <1>9 DEF ScoutInv, Switched, JoinedInv, EnvInv

LEMMA StoreInfoKeeps ==
  ASSUME ScoutInv, StoreInfo PROVE ScoutInv'
<1>1. /\ info.pc \in {"store", "error"} /\ info' = [info EXCEPT !.pc = "done"]
      /\ UNCHANGED <<cloud, given, probe, settings>>
      /\ \/ info.pc = "error" /\ env' = [env EXCEPT !.error = TRUE]
         \/ info.pc = "store" /\ env' = [env EXCEPT !.info = info.found]
  BY DEF StoreInfo
<1>2. info' = [pc |-> "done", found |-> info.found] /\ info'.pc = "done"
  BY <1>1 DEF ScoutInv, ScoutType
<1>3. ConfigurationSound'
  BY <1>1, SettingsStay DEF ScoutInv
<1>4. cloud \in Clouds
  BY <1>1 DEF ScoutInv, Switched
<1>5. ScoutType' /\ EnvInv'
  <2>1. CASE info.pc = "error" /\ env' = [env EXCEPT !.error = TRUE]
    <3>1. env' = [info |-> env.info, scout |-> env.scout, error |-> TRUE]
      BY <2>1 DEF ScoutInv, ScoutType
    <3>2. env'.error = TRUE
      BY <3>1
    <3> QED BY <1>2, <3>1, <3>2 DEF ScoutInv, ScoutType, EnvInv, FoundShape
  <2>2. CASE info.pc = "store" /\ env' = [env EXCEPT !.info = info.found]
    <3>1. PICK p \in Providers : Sourced(info.found, p)
      BY <2>2 DEF ScoutInv, InfoInv
    <3>2. env' = [info |-> info.found, scout |-> env.scout, error |-> env.error]
      BY <2>2 DEF ScoutInv, ScoutType
    <3>3. env'.info = info.found /\ env'.scout = env.scout /\ FoundShape(env'.info)
      BY <3>1, <3>2 DEF Sourced
    <3>4. Sourced(info.found, p)' /\ info'.found = info.found
      BY <1>1, <1>2, <3>1, SourcedStays
    <3>5. EnvInv'
      BY <3>3, <3>4 DEF EnvInv
    <3> QED BY <1>2, <3>2, <3>3, <3>5 DEF ScoutInv, ScoutType, FoundShape
  <2> QED BY <1>1, <2>1, <2>2
<1> QED BY <1>1, <1>2, <1>3, <1>4, <1>5 DEF ScoutInv, Switched, JoinedInv, InfoInv

LEMMA ConfigurationKeeps ==
  ASSUME ScoutInv, DetectConfiguration PROVE ScoutInv'
<1>1. info.pc = "done" /\ UNCHANGED <<cloud, given, probe, cancelled, env, info>>
  BY DEF DetectConfiguration
<1>2. /\ Switched' /\ ScoutType' /\ JoinedInv' /\ InfoInv'
  BY <1>1 DEF ScoutInv, Switched, ScoutType, JoinedInv, InfoInv, FoundShape
<1>3. EnvInv'
  BY <1>1, SourcedStays DEF ScoutInv, EnvInv
<1>4. ConfigurationSound'
  <2> SUFFICES ASSUME settings'.state = "ok"
               PROVE  /\ Blank \notin {settings'.region, settings'.account, settings'.cluster}
                      /\ FromOneCloud(settings)'
    BY DEF ConfigurationSound
  <2>1. CASE /\ settings' = Settled("ok", given)
             /\ Blank \notin {given.region, given.account, given.cluster}
    <3>1. /\ settings'.region = given.region /\ settings'.account = given.account
          /\ settings'.cluster = given.cluster
      BY <2>1 DEF Settled
    <3>2. "aws" \in Providers
      BY DEF Providers
    <3>3. \A f \in Fields : settings'[f] = given'[f]
      BY <1>1, <3>1 DEF Fields
    <3> QED BY <2>1, <3>1, <3>2, <3>3, OriginOf DEF FromOneCloud
  <2>2. CASE settings' = Merged(given, env.info) /\ ~env.error
    <3>1. PICK p \in Providers : Sourced(env.info, p)
      BY <1>1, <2>2 DEF ScoutInv, EnvInv
    <3> DEFINE merged == [region |-> Pick(env.info.region, given.region),
                          account |-> Pick(env.info.account, given.account),
                          cluster |-> Pick(env.info.cluster, given.cluster)]
    <3>2. settings' = IF Blank \in {merged.region, merged.account, merged.cluster}
                      THEN Settled("error", given) ELSE Settled("ok", merged)
      BY <2>2 DEF Merged
    <3>3. Settled("error", given).state = "error"
      BY DEF Settled
    <3>4. /\ Blank \notin {merged.region, merged.account, merged.cluster}
          /\ settings' = Settled("ok", merged)
      BY <3>2, <3>3
    <3>5. \A f \in Fields : settings'[f] = Pick(env.info[f], given[f])
      BY <3>4 DEF Settled, Fields
    <3>6. \A f \in Fields : settings'[f] = given[f] \/ settings'[f] \in AnswersOf(Origin[p][f])
      BY <3>1, <3>5 DEF Pick, Sourced
    <3>7. FromOneCloud(settings)'
      BY <1>1, <3>6, OriginOf DEF FromOneCloud, AnswersOf
    <3> QED BY <3>4, <3>7 DEF Settled
  <2>3. \/ settings' = Settled("error", given)
        \/ /\ settings' = Settled("ok", given)
           /\ Blank \notin {given.region, given.account, given.cluster}
        \/ settings' = Merged(given, env.info) /\ ~env.error
    BY DEF DetectConfiguration
  <2>4. Settled("error", given).state = "error"
    BY DEF Settled
  <2> QED BY <2>1, <2>2, <2>3, <2>4
<1> QED BY <1>2, <1>3, <1>4 DEF ScoutInv

LEMMA ScoutStays ==
  ASSUME ScoutInv, UNCHANGED scoutVars PROVE ScoutInv'
<1>1. UNCHANGED <<cloud, given, probe, cancelled, env, info, settings, scoutFaults>>
  BY DEF scoutVars
<1>2. /\ Switched' /\ ScoutType' /\ JoinedInv'
  BY <1>1 DEF ScoutInv, Switched, ScoutType, JoinedInv, FoundShape
<1>3. InfoInv' /\ EnvInv'
  BY <1>1, SourcedStays DEF ScoutInv, InfoInv, EnvInv
<1> QED BY <1>1, <1>2, <1>3, SettingsStay DEF ScoutInv

(* Settings that are accepted are complete and of one cloud, though        *)
(* several goroutines may detect and write what they have detected without *)
(* a lock (utils/scout/auto: Detect, EnvironmentInfo; DetectConfiguration).*)
THEOREM SettingsAreSound == JobsSpec => []ConfigurationSound
<1>1. JobsInit => ScoutInv
  BY ScoutStarts, JobsAssumption DEF JobsInit, ScoutInit, ScoutOff
<1>2. ScoutInv /\ [JobsNext]_jobsVars => ScoutInv'
  <2> SUFFICES ASSUME ScoutInv, [JobsNext]_jobsVars PROVE ScoutInv'
    OBVIOUS
  <2>1. CASE UNCHANGED scoutVars
    BY <2>1, ScoutStays
  <2>2. CASE ProgramStep \/ ValidatorDetects
    <3>1. CASE ScoutStep
      BY <3>1, DetectKeeps, DetectReturnsKeeps, InfoRequestKeeps, StoreInfoKeeps DEF ScoutStep
    <3>2. CASE RunLoader \/ RunScout
      BY <3>2, ScoutStays DEF RunLoader, RunScout
    <3>3. CASE RunSettings \/ ValidatorDetects
      BY <3>3, ConfigurationKeeps DEF RunSettings, ValidatorDetects
    <3> QED BY <2>2, <3>1, <3>2, <3>3 DEF ProgramStep
  <2> QED BY <2>1, <2>2
             DEF JobsNext, jobsVars, Programs, Diagnoses, Regurgitates, Certifies
<1>3. ScoutInv => ConfigurationSound
  BY DEF ScoutInv
<1> QED BY <1>1, <1>2, <1>3, PTL DEF JobsSpec

-----------------------------------------------------------------------------
(* The validator: what its goroutines have reported when the verdict falls *)

TaskShape(t) == t = [name |-> t.name, pc |-> t.pc, attempt |-> t.attempt]

Reports(name) == {Reported(name, b) : b \in BOOLEAN}

(* The outcome of a goroutine's step: it reports under its own name, and   *)
(* it reports before it is done.                                           *)
Reporting(t, o) ==
  /\ TaskShape(o.task) /\ o.task.name = t.name
  /\ o.adds \subseteq Reports(t.name)
  /\ o.task.pc = "done" => o.adds # {}

(* Whether the namespace is set is known of every invocation. *)
ReportType ==
  /\ phase # "off" => command.config.namespace \in BOOLEAN
  /\ report = [state |-> report.state, checks |-> report.checks]
  /\ report.checks \subseteq UNION {Reports(name) : name \in RegisteredChecks}

Early == {"off", "settings", "catalog", "pre"}

TaskInv ==
  /\ phase \in Early => task = <<>> /\ report = EmptyReport
  /\ phase \in {"run", "report", "verdict"} =>
       /\ task = [i \in Plan |-> task[i]]
       /\ \A i \in Plan :
            /\ TaskShape(task[i]) /\ task[i].name = StageChecks[i].name
            /\ task[i].pc = "done" => report.checks \cap Reports(task[i].name) # {}
  /\ phase \in {"report", "verdict"} => \A i \in Plan : task[i].pc = "done"

(* The state of the report agrees with its checks. *)
StateSound ==
  /\ report.state = "INIT_OK" => ~AnyFailing
  /\ report.state = "INIT_FAILED" => AnyFailing

ReportInv ==
  /\ phase = "run" => report.state \in {"none", "INIT_STARTED"}
  /\ phase \in {"report", "verdict"} => StateSound
  /\ \A p \in posted : p.report = report
  /\ posted # {} => phase \in {"verdict", "ended"} /\ StateSound

OutcomeInv ==
  /\ phase # "ended" => outcome = "none"
  /\ outcome = "succeeded" => \A c \in ToSet(StageChecks) : c.name \in RegisteredChecks =>
       /\ \E passing \in BOOLEAN : Reported(c.name, passing) \in report.checks
       /\ command.run = <<>> /\ checkTypes(c.name) = "required" => ~Failing(c.name)
  /\ outcome = "failed" => \E name \in RegisteredChecks : Failing(name)

DiagInv == ReportType /\ TaskInv /\ ReportInv /\ OutcomeInv

-----------------------------------------------------------------------------
(* The checks *)

LEMMA DoneReports ==
  ASSUME NEW t, TaskShape(t), NEW b \in BOOLEAN PROVE Reporting(t, Done(t, b))
<1>1. PICK d : d = [t EXCEPT !.pc = "done"]
  OBVIOUS
<1>2. TaskShape(d) /\ d.name = t.name
  BY <1>1 DEF TaskShape
<1>3. Done(t, b).task = d /\ Done(t, b).adds = {Reported(t.name, b)}
  BY <1>1 DEF Done
<1> QED BY <1>2, <1>3 DEF Reporting, Reports

LEMMA ToReports ==
  ASSUME NEW t, TaskShape(t), NEW pc, pc # "done" PROVE Reporting(t, To(t, pc))
<1>1. PICK d : d = [t EXCEPT !.pc = pc]
  OBVIOUS
<1>2. d = [name |-> t.name, pc |-> pc, attempt |-> t.attempt]
  BY <1>1 DEF TaskShape
<1>3. PICK e : e = [d EXCEPT !.attempt = 1]
  OBVIOUS
<1>4. e = [name |-> t.name, pc |-> pc, attempt |-> 1]
  BY <1>2, <1>3
<1>5. To(t, pc).task = e /\ To(t, pc).adds = {}
  BY <1>1, <1>3 DEF To
<1> QED BY <1>4, <1>5 DEF Reporting, TaskShape

LEMMA AgainReports ==
  ASSUME NEW t, TaskShape(t), t.pc # "done", NEW adds, adds \subseteq Reports(t.name)
  PROVE  Reporting(t, [task |-> [t EXCEPT !.attempt = @ + 1], adds |-> adds])
<1>1. PICK d : d = [t EXCEPT !.attempt = @ + 1]
  OBVIOUS
<1>2. d = [name |-> t.name, pc |-> t.pc, attempt |-> t.attempt + 1]
  BY <1>1 DEF TaskShape
<1>3. Reporting(t, [task |-> d, adds |-> adds])
  BY <1>2 DEF Reporting, TaskShape
<1> QED BY <1>1, <1>3

LEMMA RetryReports ==
  ASSUME NEW t, TaskShape(t), t.pc # "done", NEW max, NEW exhausted, Reporting(t, exhausted)
  PROVE  Reporting(t, Retry(t, max, exhausted))
  BY AgainReports DEF Retry

(* No check reports under another name or ends without a report. *)
LEMMA ChecksReport ==
  ASSUME NEW t, TaskShape(t), t.pc # "done", t.name \in RegisteredChecks, NEW o \in Check(t),
         command.config.namespace \in BOOLEAN
  PROVE  Reporting(t, o)
<1>1. \A b \in BOOLEAN : Reporting(t, Done(t, b))
  BY DoneReports
<1>2. \A max, x : Reporting(t, x) => Reporting(t, Retry(t, max, x))
  BY RetryReports
<1>3. CASE t.name = "api_key_valid"
  <2>1. \E code \in Codes : o = Done(t, Do(code))
    BY <1>3 DEF Check, CheckAPIKey
  <2>2. \A code : Do(code) \in BOOLEAN
    BY DEF Do
  <2> QED BY <1>1, <2>1, <2>2
<1>4. CASE t.name = "k8s_version"
  BY <1>1, <1>4 DEF Check, CheckK8sVersion
<1>5. CASE t.name = "k8s_namespace"
  BY <1>1, <1>5 DEF Check, CheckNamespace, config
<1>6. CASE t.name = "k8s_provider"
  <2>1. Reporting(t, To(t, "node"))
    BY ToReports
  <2> QED BY <1>1, <1>6, <2>1 DEF Check, CheckProvider
<1>7. CASE t.name = "kube_state_metrics_reachable"
  <2> DEFINE again == Retry(t, MaxRetry, Done(t, FALSE))
  <2>1. o \in {again, Done(t, FALSE), Done(t, TRUE),
               [again EXCEPT !.adds = @ \cup {Reported(t.name, FALSE)}]}
    BY <1>7 DEF Check, CheckKMS
  <2>2. Reporting(t, again)
    BY <1>1, <1>2
  <2>3. PICK u, adds : again = [task |-> u, adds |-> adds]
    BY Zenon DEF Retry, Done
  <2> HIDE DEF again
  <2>4. [again EXCEPT !.adds = @ \cup {Reported(t.name, FALSE)}] =
          [task |-> u, adds |-> adds \cup {Reported(t.name, FALSE)}]
    <3>1. PICK v : v = adds \cup {Reported(t.name, FALSE)}
      OBVIOUS
    <3>2. again.adds = adds
      BY <2>3
    <3>3. [again EXCEPT !.adds = v] = [task |-> u, adds |-> v]
      BY <2>3
    <3> QED BY <3>1, <3>2, <3>3
  <2>5. Reporting(t, [task |-> u, adds |-> adds \cup {Reported(t.name, FALSE)}])
    BY <2>2, <2>3 DEF Reporting, Reports
  <2> QED BY <1>1, <2>1, <2>2, <2>4, <2>5
<1>8. CASE t.name = "scrape_cfg"
  <2>1. \/ o = Done(t, FALSE)
        \/ \E found \in BOOLEAN :
             \/ o = [task |-> [t EXCEPT !.attempt = @ + 1], adds |-> {Reported(t.name, found)}]
             \/ o = Done(t, found)
    BY <1>8 DEF Check, CheckScrapeConfig
  <2>2. \A found \in BOOLEAN : {Reported(t.name, found)} \subseteq Reports(t.name)
    BY DEF Reports
  <2> QED BY <1>1, <2>1, <2>2, AgainReports
<1>9. CASE t.name = "prometheus_version"
  <2>1. PICK d : d = [t EXCEPT !.pc = "panic"]
    OBVIOUS
  <2>2. d = [name |-> t.name, pc |-> "panic", attempt |-> t.attempt]
    BY <2>1 DEF TaskShape
  <2>3. Reporting(t, [task |-> d, adds |-> {}])
    BY <2>2 DEF Reporting, TaskShape
  <2>4. o \in {[task |-> d, adds |-> {}], Done(t, TRUE), Done(t, FALSE)}
    BY <1>9, <2>1 DEF Check, CheckPrometheusVersion
  <2> QED BY <1>1, <2>3, <2>4
<1>10. CASE t.name = "webhook_server_reachable"
  <2>1. o \in {Done(t, TRUE), Retry(t, MaxConnectionAttempts, Done(t, FALSE))}
    BY <1>10 DEF Check, CheckWebhook
  <2> QED BY <1>1, <1>2, <2>1
<1>11. CASE t.name = "istio_xcluster_lb"
  <2>1. Reporting(t, checkAmbientMode(t))
    <3>1. \E b \in BOOLEAN : checkAmbientMode(t) = Done(t, b)
      BY Zenon DEF checkAmbientMode
    <3> QED BY <1>1, <3>1
  <2>2. Reporting(t, To(t, "sidecar")) /\ Reporting(t, To(t, "clusters"))
    BY ToReports
  <2>3. \A id : Reporting(t, checkSidecarMode(t, id))
    <3>1. \A id : checkSidecarMode(t, id) \in {Done(t, FALSE), To(t, "clusters")}
      BY Zenon DEF checkSidecarMode
    <3> QED BY <1>1, <2>2, <3>1
  <2>4. Check(t) = CheckIstio(t)
    BY <1>11 DEF Check
  <2>5. CASE t.pc = "start"
    <3>1. o \in {To(t, "sidecar"),
                 Retry(t, IstioMaxRetry,
                       IF config.istio.ambient THEN checkAmbientMode(t) ELSE Done(t, TRUE))}
      BY <2>4, <2>5 DEF CheckIstio
    <3> QED BY <1>1, <1>2, <2>1, <2>2, <3>1
  <2>6. CASE t.pc = "sidecar"
    <3>1. \/ \E id : o = checkSidecarMode(t, id)
          \/ o = Retry(t, IstioMaxRetry, Done(t, TRUE))
      BY <2>4, <2>6 DEF CheckIstio
    <3> QED BY <1>1, <1>2, <2>3, <3>1
  <2>7. CASE t.pc \notin {"start", "sidecar"}
    <3>1. o \in {Done(t, TRUE), Retry(t, IstioMaxRetry, Done(t, TRUE))}
      BY <2>4, <2>7 DEF CheckIstio
    <3> QED BY <1>1, <1>2, <3>1
  <2> QED BY <2>5, <2>6, <2>7
<1> QED BY <1>3, <1>4, <1>5, <1>6, <1>7, <1>8, <1>9, <1>10, <1>11 DEF RegisteredChecks

-----------------------------------------------------------------------------
(* The steps of the validator *)

LEMMA SamePlan ==
  ASSUME command' = command
  PROVE  /\ StageChecks' = StageChecks /\ Plan' = Plan
         /\ \A name : checkTypes(name)' = checkTypes(name)
<1>1. StageChecks' = StageChecks
  BY DEF StageChecks
<1>2. Plan' = Plan
  BY <1>1 DEF Plan, Get
<1>3. \A name : checkTypes(name)' = checkTypes(name)
  BY <1>1, Zenon DEF checkTypes
<1> QED BY <1>1, <1>2, <1>3

LEMMA ValidatorStarts ==
  ASSUME NEW at \in {"off", "settings"}, NEW commands, DiagnoseStart(at, commands),
         commands \subseteq Commands \/ at = "off"
  PROVE  DiagInv
<1> USE DiagnoseAssumption
<1>1. command \in commands /\ phase = at /\ task = <<>> /\ report = EmptyReport /\ posted = {} /\ outcome = "none"
  BY DEF DiagnoseStart
<1> QED BY <1>1 DEF DiagInv, ReportType, EmptyReport, TaskInv, Early, ReportInv, OutcomeInv

(* The process ends before the verdict. *)
LEMMA EarlyEnds ==
  ASSUME DiagInv, phase \notin {"ended", "off"}, NEW how \in {"fatal", "panic", "interrupted"}, Ends(how),
         UNCHANGED <<command, task, report, posted>>
  PROVE  DiagInv'
<1>1. phase' = "ended" /\ outcome' = how
  BY DEF Ends
<1>2. ReportType' /\ TaskInv'
  BY <1>1 DEF DiagInv, ReportType, TaskInv, Early, Reports, Reported
<1>3. ReportInv'
  BY <1>1 DEF DiagInv, ReportInv, StateSound, AnyFailing
<1> QED BY <1>1, <1>2, <1>3 DEF DiagInv, OutcomeInv

LEMMA BeginKeeps ==
  ASSUME DiagInv, NEW deployment, LoadSettings(deployment) \/ NewCatalog PROVE DiagInv'
<1>1. /\ phase \in {"settings", "catalog"} /\ UNCHANGED <<command, task, report, posted>>
      /\ \/ phase' \in {"catalog", "pre"} /\ outcome' = outcome
         \/ Ends("fatal") \/ Ends("panic")
  BY DEF LoadSettings, NewCatalog
<1>2. CASE phase' \in {"catalog", "pre"} /\ outcome' = outcome
  BY <1>1, <1>2
     DEF DiagInv, ReportType, TaskInv, Early, ReportInv, OutcomeInv, Reports, Reported
<1> QED BY <1>1, <1>2, EarlyEnds

LEMMA StartChecksKeeps ==
  ASSUME DiagInv, StartChecks PROVE DiagInv'
<1>1. /\ phase = "pre" /\ phase' = "run" /\ UNCHANGED <<command, posted, outcome>>
      /\ report' = [report EXCEPT !.state =
                      IF command.stage = "pre-start" THEN "INIT_STARTED" ELSE @]
      /\ task' = [i \in Plan |-> [name |-> StageChecks[i].name, pc |-> "start", attempt |-> 1]]
  BY DEF StartChecks
<1>2. report = [state |-> "none", checks |-> {}] /\ outcome = "none" /\ posted = {}
  BY <1>1 DEF DiagInv, TaskInv, Early, EmptyReport, ReportInv, OutcomeInv
<1>3. /\ report' = [state |-> report'.state, checks |-> {}]
      /\ report'.state \in {"none", "INIT_STARTED"}
  BY <1>1, <1>2
<1>4. ReportType'
  BY <1>1, <1>3 DEF DiagInv, ReportType
<1>5. TaskInv'
  <2>1. Plan' = Plan /\ StageChecks' = StageChecks
    BY <1>1, SamePlan
  <2>2. \A i \in Plan : TaskShape(task'[i]) /\ task'[i].name = StageChecks[i].name
                        /\ task'[i].pc = "start"
    BY <1>1 DEF TaskShape
  <2>3. task' = [i \in Plan |-> task'[i]]
    BY <1>1
  <2> QED BY <1>1, <2>1, <2>2, <2>3 DEF TaskInv, Early, TaskShape
<1> QED BY <1>1, <1>2, <1>3, <1>4, <1>5 DEF DiagInv, ReportInv, OutcomeInv

LEMMA CheckStepKeeps ==
  ASSUME DiagInv, NEW i \in DOMAIN task, CheckStep(i) PROVE DiagInv'
<1>1. PICK o \in Check(task[i]) :
        /\ task' = [task EXCEPT ![i] = o.task]
        /\ report' = [report EXCEPT !.checks = @ \cup o.adds]
  BY DEF CheckStep
<1>2. /\ phase = "run" /\ task[i].pc # "done" /\ UNCHANGED <<command, phase, posted, outcome>>
      /\ i \in Plan
  BY DEF CheckStep, DiagInv, TaskInv
<1>3. /\ TaskShape(task[i]) /\ task[i].name = StageChecks[i].name
      /\ task[i].name \in RegisteredChecks /\ command.config.namespace \in BOOLEAN
  BY <1>2 DEF DiagInv, TaskInv, ReportType, Plan, Get
<1>4. Reporting(task[i], o)
  BY <1>1, <1>2, <1>3, ChecksReport
<1>5. report' = [state |-> report.state, checks |-> report.checks \cup o.adds]
  BY <1>1 DEF DiagInv, ReportType
<1>6. ReportType'
  BY <1>2, <1>3, <1>4, <1>5 DEF DiagInv, ReportType, Reporting, Reports, Reported
<1>7. TaskInv'
  <2>1. Plan' = Plan /\ StageChecks' = StageChecks
    BY <1>2, SamePlan
  <2>2. task = [j \in Plan |-> task[j]]
    BY <1>2 DEF DiagInv, TaskInv
  <2>3. task' = [j \in Plan |-> task'[j]]
    BY <1>1, <2>2
  <2>4. ASSUME NEW j \in Plan
        PROVE  /\ TaskShape(task'[j]) /\ task'[j].name = StageChecks[j].name
               /\ task'[j].pc = "done" => report'.checks \cap Reports(task'[j].name) # {}
    <3>1. CASE j = i
      <4>1. task'[j] = o.task
        BY <1>1, <1>2, <2>2, <3>1
      <4> QED BY <1>3, <1>4, <1>5, <3>1, <4>1 DEF Reporting
    <3>2. CASE j # i
      <4>1. task'[j] = task[j]
        BY <1>1, <2>2, <3>2
      <4> QED BY <1>2, <1>5, <4>1 DEF DiagInv, TaskInv
    <3> QED BY <3>1, <3>2
  <2> QED BY <1>2, <2>1, <2>3, <2>4 DEF TaskInv, Early, TaskShape, Reports, Reported
<1>8. posted = {} /\ outcome = "none"
  BY <1>2 DEF DiagInv, ReportInv, OutcomeInv
<1> QED BY <1>2, <1>5, <1>6, <1>7, <1>8 DEF DiagInv, ReportInv, OutcomeInv

LEMMA ProcessFailuresKeeps ==
  ASSUME DiagInv, ProcessFailures PROVE DiagInv'
<1> DEFINE state == IF command.stage = "pre-start" /\ AnyFailing THEN "INIT_FAILED" ELSE PostState
<1>1. /\ phase = "run" /\ Joined /\ phase' = "report"
      /\ UNCHANGED <<command, task, posted, outcome>>
      /\ report' = [report EXCEPT !.state = state]
  BY DEF ProcessFailures
<1>2. /\ state = "INIT_OK" => ~AnyFailing
      /\ state = "INIT_FAILED" => AnyFailing
  BY <1>1 DEF PostState, DiagInv, ReportInv
<1> HIDE DEF state
<1>3. report' = [state |-> state, checks |-> report.checks]
  BY <1>1 DEF DiagInv, ReportType
<1>4. StateSound'
  BY <1>2, <1>3 DEF StateSound, AnyFailing
<1>5. ReportType'
  BY <1>1, <1>3 DEF DiagInv, ReportType, Reports, Reported
<1>6. TaskInv'
  <2>1. Plan' = Plan /\ StageChecks' = StageChecks
    BY <1>1, SamePlan
  <2>2. \A i \in Plan : task[i].pc = "done"
    <3>1. DOMAIN task = Plan
      BY <1>1 DEF DiagInv, TaskInv
    <3> QED BY <1>1, <3>1 DEF Joined
  <2> QED BY <1>1, <1>3, <2>1, <2>2 DEF DiagInv, TaskInv, Early, TaskShape, Reports, Reported
<1>7. posted = {} /\ outcome = "none"
  BY <1>1 DEF DiagInv, ReportInv, OutcomeInv
<1> QED BY <1>1, <1>4, <1>5, <1>6, <1>7 DEF DiagInv, ReportInv, OutcomeInv

LEMMA PostReportKeeps ==
  ASSUME DiagInv, PostReport PROVE DiagInv'
<1>1. /\ phase = "report" /\ phase' = "verdict" /\ UNCHANGED <<command, task, report, outcome>>
      /\ \A p \in posted' : p \in posted \/ p.report = report
  BY DEF PostReport
<1>2. Plan' = Plan /\ StageChecks' = StageChecks
  BY <1>1, SamePlan
<1>3. ReportType' /\ TaskInv'
  BY <1>1, <1>2 DEF DiagInv, ReportType, TaskInv, Early, TaskShape, Reports, Reported
<1>4. ReportInv'
  BY <1>1 DEF DiagInv, ReportInv, StateSound, AnyFailing
<1>5. outcome = "none"
  BY <1>1 DEF DiagInv, OutcomeInv
<1> QED BY <1>1, <1>3, <1>4, <1>5 DEF DiagInv, OutcomeInv

LEMMA VerdictKeeps ==
  ASSUME DiagInv, Verdict PROVE DiagInv'
<1>1. /\ phase = "verdict" /\ phase' = "ended" /\ UNCHANGED <<command, task, report, posted>>
      /\ \/ outcome' = "failed" /\ ShouldFail
         \/ outcome' = "succeeded" /\ ~(command.run = <<>> /\ ShouldFail)
  BY DEF Verdict, Ends
<1>2. StageChecks' = StageChecks /\ \A name : checkTypes(name)' = checkTypes(name)
  BY <1>1, SamePlan
<1>3. ReportType' /\ TaskInv'
  BY <1>1 DEF DiagInv, ReportType, TaskInv, Early, Reports, Reported
<1>4. ReportInv'
  BY <1>1 DEF DiagInv, ReportInv, StateSound, AnyFailing
<1>5. ASSUME NEW name, Reported(name, FALSE) \in report.checks, checkTypes(name) = "required"
      PROVE  ShouldFail
  <2>1. Reported(name, FALSE).name = name /\ Reported(name, FALSE).passing = FALSE
    BY DEF Reported
  <2> QED BY <1>5, <2>1 DEF ShouldFail
<1>6. ASSUME ShouldFail PROVE \E name \in RegisteredChecks : Failing(name)
  <2>1. PICK c \in report.checks : ~c.passing
    BY <1>6 DEF ShouldFail
  <2>2. PICK name \in RegisteredChecks, b \in BOOLEAN : c = Reported(name, b)
    BY DEF DiagInv, ReportType, Reports
  <2>3. c.passing = b
    BY <2>2 DEF Reported
  <2>4. b = FALSE
    BY <2>1, <2>3
  <2> QED BY <2>2, <2>4 DEF Failing
<1>7. ASSUME NEW c \in ToSet(StageChecks), c.name \in RegisteredChecks
      PROVE  \E passing \in BOOLEAN : Reported(c.name, passing) \in report.checks
  <2>1. PICK i \in DOMAIN StageChecks : c = StageChecks[i]
    BY <1>7 DEF ToSet
  <2>2. i \in Plan
    BY <1>7, <2>1 DEF Plan, Get
  <2> QED BY <1>1, <2>1, <2>2 DEF DiagInv, TaskInv, Reports
<1>8. OutcomeInv'
  <2>1. CASE outcome' = "failed" /\ ShouldFail
    BY <1>1, <1>6, <2>1 DEF OutcomeInv, Failing, Reported
  <2>2. CASE outcome' = "succeeded" /\ ~(command.run = <<>> /\ ShouldFail)
    BY <1>1, <1>2, <1>5, <1>7, <2>2 DEF OutcomeInv, Failing, Reported
  <2> QED BY <1>1, <2>1, <2>2
<1> QED BY <1>3, <1>4, <1>8 DEF DiagInv

LEMMA ValidatorStays ==
  ASSUME DiagInv, UNCHANGED diagnoseVars PROVE DiagInv'
<1>1. UNCHANGED <<command, phase, task, report, posted, outcome>>
  BY DEF diagnoseVars
<1>2. /\ Plan' = Plan /\ StageChecks' = StageChecks
      /\ \A name : checkTypes(name)' = checkTypes(name)
  BY <1>1, SamePlan
<1>3. ReportType' /\ TaskInv'
  BY <1>1, <1>2 DEF DiagInv, ReportType, TaskInv, Early, TaskShape, Reports, Reported
<1>4. ReportInv'
  BY <1>1 DEF DiagInv, ReportInv, StateSound, AnyFailing
<1>5. OutcomeInv'
  BY <1>1, <1>2 DEF DiagInv, OutcomeInv, Failing, Reported
<1> QED BY <1>3, <1>4, <1>5 DEF DiagInv

LEMMA ValidatorKeeps ==
  ASSUME DiagInv, NEW deployment, DiagnoseStep(deployment) PROVE DiagInv'
<1>1. ASSUME NEW i \in DOMAIN task, Panic(i) PROVE DiagInv'
  <2>1. phase \notin {"ended", "off"} /\ Ends("panic") /\ UNCHANGED <<command, task, report, posted>>
    BY <1>1 DEF Panic
  <2> QED BY <2>1, EarlyEnds
<1>2. CASE Interrupt
  <2>1. phase \notin {"ended", "off"} /\ Ends("interrupted") /\ UNCHANGED <<command, task, report, posted>>
    BY <1>2 DEF Interrupt
  <2> QED BY <2>1, EarlyEnds
<1> QED BY <1>1, <1>2, BeginKeeps, StartChecksKeeps, CheckStepKeeps, ProcessFailuresKeeps,
           PostReportKeeps, VerdictKeeps DEF DiagnoseStep, DiagnoseProgress

(* The verdict of a stage covers every check of it, however the goroutines *)
(* of the checks interleave, retry and fail, and the posted report is the  *)
(* one the verdict comes from (domain/diagnostic/runner: Run, AddCheck,    *)
(* the pre and post steps; agent-validator: runDiagnostics).               *)
THEOREM VerdictsAreComplete == JobsSpec => []VerdictComplete
<1>1. JobsInit => DiagInv
  BY ValidatorStarts, Zenon DEF JobsInit, DiagnoseInit, DiagnoseOff
<1>2. DiagInv /\ [JobsNext]_jobsVars => DiagInv'
  <2> SUFFICES ASSUME DiagInv, [JobsNext]_jobsVars PROVE DiagInv'
    OBVIOUS
  <2>1. CASE UNCHANGED diagnoseVars
    BY <2>1, ValidatorStays
  <2>2. CASE DiagnoseStep(settings.state)
    BY <2>2, ValidatorKeeps
  <2> QED BY <2>1, <2>2
             DEF JobsNext, jobsVars, Programs, Diagnoses, Regurgitates, Certifies
<1>3. DiagInv => VerdictComplete
  <2> SUFFICES ASSUME DiagInv PROVE VerdictComplete
    OBVIOUS
  <2>1. ASSUME NEW p \in posted
        PROVE  /\ p.report = report
               /\ p.report.state = "INIT_OK" => ~AnyFailing
               /\ p.report.state = "INIT_FAILED" => AnyFailing
    BY <2>1 DEF DiagInv, ReportInv, StateSound
  <2> QED BY <2>1 DEF VerdictComplete, DiagInv, OutcomeInv
<1> QED BY <1>1, <1>2, <1>3, PTL DEF JobsSpec
-----------------------------------------------------------------------------
(* The regurgitator: the inductive invariant *)

Id(i, k) == Read(i).rows[k].id

Output == DOMAIN job.outputs

IsFile(o) == ~isRemoteWriteURL(job.outputs[o])

(* No entry of the sequence is there twice. *)
Distinct(s) == \A i, j \in DOMAIN s : s[i] = s[j] => i = j

ReaderType ==
  /\ reader = [i \in DOMAIN reader |-> reader[i]]
  /\ DOMAIN reader \subseteq DOMAIN Sources(job)
  /\ \A i \in DOMAIN reader :
       /\ reader[i] = [pc |-> reader[i].pc, sent |-> reader[i].sent]
       /\ reader[i].sent \in 0..Len(Read(i).rows)

FanType ==
  /\ input = [items |-> input.items, closed |-> input.closed]
  /\ input.items \in Seq(Nat)
  /\ fan = [pc |-> fan.pc, item |-> fan.item, to |-> fan.to]
  /\ fan.pc = "send" => fan.item \in Nat /\ fan.to \in Output

IsChannel(c) == c = [items |-> c.items, closed |-> c.closed] /\ c.items \in Seq(Nat)

IsSink(s) == s = [got |-> s.got, twice |-> s.twice, lost |-> s.lost, complete |-> s.complete]

IsWriter(r) ==
  /\ r = [pc |-> r.pc, batch |-> r.batch, attempt |-> r.attempt, closing |-> r.closing]
  /\ r.batch \in Seq(Nat)

OutputType ==
  /\ output = [o \in Output |-> output[o]] /\ \A o \in Output : IsChannel(output[o])
  /\ sink = [o \in Output |-> sink[o]] /\ \A o \in Output : IsSink(sink[o])
  /\ writer = [w \in WriterIds |-> writer[w]] /\ \A w \in WriterIds : IsWriter(writer[w])

TranscodeType ==
  /\ job \in Transcodings
  /\ run = [pc |-> run.pc, error |-> run.error]
  /\ run.pc \in {"off", "start"} => reader = <<>> /\ fan.pc = "off"
  /\ ReaderType /\ FanType /\ OutputType

(* Nothing is lost on the way: what a reader has sent is before the output,*)
(* in its channel, with one of its writers, or written, unless a write to  *)
(* the output has failed.                                                  *)
IsSent(x) == \E i \in DOMAIN reader : \E k \in 1..reader[i].sent : x = Id(i, k)

Carried(x, o) ==
  \/ x \in ToSet(input.items)
  \/ fan.pc = "send" /\ fan.item = x /\ fan.to <= o
  \/ x \in ToSet(output[o].items)
  \/ \E w \in WriterIds : w[1] = o /\ x \in ToSet(writer[w].batch)
  \/ x \in sink[o].got
  \/ sink[o].lost = TRUE

FlowInv == \A x : IsSent(x) => \A o \in Output : Carried(x, o)

(* The end goes down the same way: a stage is over only when the one       *)
(* before it is, and has nothing left.                                     *)
EndsInOrder ==
  /\ fan.pc = "done" => input.items = <<>> /\ input.closed = TRUE
  /\ \A o \in Output : output[o].closed = TRUE => fan.pc = "done"
  /\ \A w \in WriterIds :
       /\ writer[w].closing = TRUE \/ writer[w].pc = "done" =>
            output[w[1]].closed = TRUE /\ output[w[1]].items = <<>>
       /\ writer[w].pc = "done" /\ writer[w].batch # <<>> => sink[w[1]].lost = TRUE
       /\ IsFile(w[1]) => /\ writer[w].batch = <<>> /\ writer[w].pc # "flush"
                          /\ writer[w].pc = "done" =>
                               sink[w[1]].complete = TRUE \/ sink[w[1]].lost = TRUE
  /\ run.pc = "exit" /\ run.error # TRUE => WaitForWriters

(* A file gets nothing twice, because no stage of the way has anything     *)
(* that a later one has, or that is still to be read.                      *)
IsUnsent(x) ==
  \E i \in DOMAIN Sources(job) : \E k \in DOMAIN Read(i).rows :
    /\ i \in DOMAIN reader => k > reader[i].sent
    /\ x = Id(i, k)

Passed(o) == ToSet(output[o].items) \cup sink[o].got

OnceInv ==
  /\ \A x : IsUnsent(x) => /\ x \notin ToSet(input.items)
                           /\ fan.pc = "send" => fan.item # x
                           /\ \A o \in Output : IsFile(o) => x \notin Passed(o)
  /\ Distinct(input.items)
  /\ fan.pc = "send" => fan.item \notin ToSet(input.items)
  /\ \A o \in Output : IsFile(o) =>
       /\ Distinct(output[o].items)
       /\ ToSet(output[o].items) \cap sink[o].got = {}
       /\ ToSet(input.items) \cap Passed(o) = {}
       /\ fan.pc = "send" /\ fan.to <= o => fan.item \notin Passed(o)
       /\ sink[o].twice = {}

TranscodeInv == TranscodeType /\ (~Forced => FlowInv /\ EndsInOrder /\ OnceInv)

-----------------------------------------------------------------------------
(* The regurgitator: sequences *)

LEMMA EntriesOf ==
  ASSUME NEW s \in Seq(Nat)
  PROVE  ToSet(s) = {s[i] : i \in 1..Len(s)} /\ ToSet(s) \subseteq Nat
  BY DEF ToSet

LEMMA OfHeadAndTail ==
  ASSUME NEW s \in Seq(Nat), s # <<>>
  PROVE  /\ Head(s) \in Nat /\ Tail(s) \in Seq(Nat)
         /\ ToSet(s) = {Head(s)} \cup ToSet(Tail(s))
         /\ Distinct(s) => Distinct(Tail(s)) /\ Head(s) \notin ToSet(Tail(s))
<1>1. /\ Head(s) = s[1] /\ Tail(s) \in Seq(Nat) /\ Len(s) \in Nat /\ Len(s) >= 1
      /\ Len(Tail(s)) = Len(s) - 1
      /\ \A i \in 1..Len(s) - 1 : Tail(s)[i] = s[i + 1]
  OBVIOUS
<1>2. ToSet(Tail(s)) = {Tail(s)[i] : i \in 1..Len(s) - 1}
  BY <1>1, EntriesOf
<1>3. \A i \in 1..Len(s) : s[i] = Head(s) \/ s[i] \in ToSet(Tail(s))
  <2>1. ASSUME NEW i \in 1..Len(s), i # 1 PROVE s[i] \in ToSet(Tail(s))
    <3>1. i - 1 \in 1..Len(s) - 1 /\ Tail(s)[i - 1] = s[i]
      BY <1>1, <2>1
    <3> QED BY <1>2, <3>1
  <2> QED BY <1>1, <2>1
<1>4. ToSet(Tail(s)) \subseteq ToSet(s) /\ Head(s) \in ToSet(s)
  BY <1>1, <1>2, EntriesOf
<1>5. ASSUME Distinct(s) PROVE Distinct(Tail(s)) /\ Head(s) \notin ToSet(Tail(s))
  <2>1. \A i, j \in 1..Len(s) : s[i] = s[j] => i = j
    BY <1>5 DEF Distinct
  <2>2. \A i, j \in 1..Len(s) - 1 : Tail(s)[i] = Tail(s)[j] => i = j
    <3> SUFFICES ASSUME NEW i \in 1..Len(s) - 1, NEW j \in 1..Len(s) - 1,
                        Tail(s)[i] = Tail(s)[j]
                 PROVE  i = j
      OBVIOUS
    <3>1. s[i + 1] = s[j + 1] /\ i + 1 \in 1..Len(s) /\ j + 1 \in 1..Len(s)
      BY <1>1
    <3>2. i + 1 = j + 1
      BY <2>1, <3>1
    <3> QED BY <3>2
  <2>3. DOMAIN Tail(s) = 1..Len(s) - 1
    BY <1>1
  <2>4. ASSUME NEW i \in 1..Len(s) - 1 PROVE Tail(s)[i] # s[1]
    <3>1. i + 1 \in 1..Len(s) /\ 1 \in 1..Len(s) /\ i + 1 # 1 /\ Tail(s)[i] = s[i + 1]
      BY <1>1
    <3> QED BY <2>1, <3>1
  <2>5. Distinct(Tail(s))
    BY <2>2, <2>3 DEF Distinct
  <2>6. Head(s) \notin ToSet(Tail(s))
    BY <1>1, <1>2, <2>4
  <2> QED BY <2>5, <2>6
<1>6. ToSet(s) = {Head(s)} \cup ToSet(Tail(s))
  BY <1>3, <1>4, EntriesOf
<1>7. Head(s) \in Nat
  OBVIOUS
<1> QED BY <1>1, <1>5, <1>6, <1>7

LEMMA OfAppend ==
  ASSUME NEW s \in Seq(Nat), NEW e \in Nat
  PROVE  /\ Append(s, e) \in Seq(Nat)
         /\ ToSet(Append(s, e)) = ToSet(s) \cup {e}
         /\ Distinct(s) /\ e \notin ToSet(s) => Distinct(Append(s, e))
<1>1. /\ Append(s, e) \in Seq(Nat) /\ Len(Append(s, e)) = Len(s) + 1
      /\ Append(s, e)[Len(s) + 1] = e /\ Len(s) \in Nat
      /\ \A i \in 1..Len(s) : Append(s, e)[i] = s[i]
  OBVIOUS
<1>2. ToSet(Append(s, e)) = {Append(s, e)[i] : i \in 1..Len(s) + 1}
  BY <1>1, EntriesOf
<1>3. ToSet(s) = {s[i] : i \in 1..Len(s)}
  BY EntriesOf
<1>4. 1..Len(s) + 1 = 1..Len(s) \cup {Len(s) + 1}
  BY <1>1
<1>5. ASSUME Distinct(s), e \notin ToSet(s) PROVE Distinct(Append(s, e))
  <2>1. DOMAIN Append(s, e) = 1..Len(s) \cup {Len(s) + 1}
    BY <1>1, <1>4
  <2>2. \A i, j \in 1..Len(s) : s[i] = s[j] => i = j
    BY <1>5 DEF Distinct
  <2> QED BY <1>1, <1>3, <1>5, <2>1, <2>2 DEF Distinct
<1> QED BY <1>1, <1>2, <1>3, <1>4, <1>5

LEMMA OfNothing == ToSet(<<>>) = {} /\ Distinct(<<>>)
  BY DEF ToSet, Distinct

-----------------------------------------------------------------------------
(* The regurgitator: types *)

LEMMA OfTheJob ==
  ASSUME job \in Transcodings
  PROVE  /\ Output = 1..Len(job.outputs) /\ Len(job.outputs) \in Nat /\ 1 \in Output
         /\ \A o \in Output : <<o, 1>> \in WriterIds
         /\ \A w \in WriterIds : w[1] \in Output
         /\ \A i \in DOMAIN Sources(job) :
              /\ Len(Read(i).rows) \in Nat /\ DOMAIN Read(i).rows = 1..Len(Read(i).rows)
              /\ \A k \in DOMAIN Read(i).rows : Id(i, k) \in Nat
         /\ \A i, j \in DOMAIN Sources(job) :
              \A k \in DOMAIN Read(i).rows, l \in DOMAIN Read(j).rows :
                Id(i, k) = Id(j, l) => i = j /\ k = l
<1>1. /\ job.outputs \in Seq(ToSet(job.outputs)) /\ job.outputs # <<>>
      /\ \A out \in ToSet(job.outputs) : out.writers \in Nat \ {0}
  BY TranscodingsAssumption
<1>2. Output = 1..Len(job.outputs) /\ Len(job.outputs) \in Nat /\ 1 \in Output
  BY <1>1 DEF Output
<1>3. ASSUME NEW o \in Output PROVE <<o, 1>> \in WriterIds
  <2>1. job.outputs[o].writers \in Nat \ {0}
    BY <1>1, <1>2, <1>3 DEF ToSet, Output
  <2>2. 1 \in 1..(IF isRemoteWriteURL(job.outputs[o]) THEN job.outputs[o].writers ELSE 1)
    BY <2>1
  <2> QED BY <2>2 DEF WriterIds, Output
<1>4. \A w \in WriterIds : w[1] \in Output
  BY DEF WriterIds, Output
<1>5. ASSUME NEW i \in DOMAIN Sources(job)
      PROVE  /\ Len(Read(i).rows) \in Nat /\ DOMAIN Read(i).rows = 1..Len(Read(i).rows)
             /\ \A k \in DOMAIN Read(i).rows : Id(i, k) \in Nat
  <2>1. /\ Read(i).rows \in Seq(ToSet(Read(i).rows))
        /\ \A row \in ToSet(Read(i).rows) : row.id \in Nat
    BY TranscodingsAssumption DEF Read
  <2>2. \A k \in DOMAIN Read(i).rows : Read(i).rows[k] \in ToSet(Read(i).rows)
    BY DEF ToSet
  <2> QED BY <2>1, <2>2 DEF Id
<1>6. \A i, j \in DOMAIN Sources(job) :
        \A k \in DOMAIN Read(i).rows, l \in DOMAIN Read(j).rows :
          Id(i, k) = Id(j, l) => i = j /\ k = l
  BY TranscodingsAssumption DEF Read, Id
<1> QED BY <1>2, <1>3, <1>4, <1>5, <1>6

LEMMA SameJob ==
  ASSUME job' = job
  PROVE  /\ Output' = Output /\ WriterIds' = WriterIds /\ Sources(job)' = Sources(job)
         /\ \A o : IsFile(o)' = IsFile(o)
         /\ \A i : Read(i)' = Read(i)
         /\ \A i, k : Id(i, k)' = Id(i, k)
  BY DEF Output, WriterIds, IsFile, Read, Id, isRemoteWriteURL

(* The steps of the main goroutine and of the signal handler leave alone   *)
(* what is on the way.                                                     *)
OnTheWay == <<job, input.items, fan, output, writer, sink>>

LEMMA TypeWhenStill ==
  ASSUME TranscodeType, UNCHANGED <<job, reader, input, fan, output, writer, sink>>,
         run' = [pc |-> run'.pc, error |-> run'.error],
         run'.pc \in {"off", "start"} => run.pc = run'.pc
  PROVE  TranscodeType'
<1> USE SameJob
<1>1. ReaderType'
  BY DEF TranscodeType, ReaderType
<1>2. FanType' /\ OutputType'
  BY DEF TranscodeType, FanType, OutputType
<1> QED BY <1>1, <1>2 DEF TranscodeType

(* What a change of one field leaves. *)
LEMMA ChannelItems ==
  ASSUME NEW c, IsChannel(c), NEW v \in Seq(Nat)
  PROVE  LET new == [c EXCEPT !.items = v]
         IN  /\ IsChannel(new) /\ new.items = v
             /\ new.closed = c.closed
<1>1. PICK i, k :
        /\ c = [items |-> i, closed |-> k] /\ i \in Seq(Nat)
        /\ c.items = i /\ c.closed = k
  BY DEF IsChannel
<1>2. [c EXCEPT !.items = v] = [items |-> v, closed |-> k]
  BY <1>1
<1> QED BY <1>1, <1>2 DEF IsChannel

LEMMA ChannelClosed ==
  ASSUME NEW c, IsChannel(c), NEW v
  PROVE  LET new == [c EXCEPT !.closed = v]
         IN  /\ IsChannel(new) /\ new.closed = v
             /\ new.items = c.items
<1>1. PICK i, k :
        /\ c = [items |-> i, closed |-> k] /\ i \in Seq(Nat)
        /\ c.items = i /\ c.closed = k
  BY DEF IsChannel
<1>2. [c EXCEPT !.closed = v] = [items |-> i, closed |-> v]
  BY <1>1
<1> QED BY <1>1, <1>2 DEF IsChannel

LEMMA SinkGot ==
  ASSUME NEW s, IsSink(s), NEW v
  PROVE  LET new == [s EXCEPT !.got = v]
         IN  /\ IsSink(new) /\ new.got = v
             /\ new.twice = s.twice /\ new.lost = s.lost /\ new.complete = s.complete
<1>1. PICK g, t, l, c :
        /\ s = [got |-> g, twice |-> t, lost |-> l, complete |-> c]
        /\ s.got = g /\ s.twice = t /\ s.lost = l /\ s.complete = c
  BY DEF IsSink
<1>2. [s EXCEPT !.got = v] = [got |-> v, twice |-> t, lost |-> l, complete |-> c]
  BY <1>1
<1> QED BY <1>1, <1>2 DEF IsSink

LEMMA SinkTwice ==
  ASSUME NEW s, IsSink(s), NEW v
  PROVE  LET new == [s EXCEPT !.twice = v]
         IN  /\ IsSink(new) /\ new.twice = v
             /\ new.got = s.got /\ new.lost = s.lost /\ new.complete = s.complete
<1>1. PICK g, t, l, c :
        /\ s = [got |-> g, twice |-> t, lost |-> l, complete |-> c]
        /\ s.got = g /\ s.twice = t /\ s.lost = l /\ s.complete = c
  BY DEF IsSink
<1>2. [s EXCEPT !.twice = v] = [got |-> g, twice |-> v, lost |-> l, complete |-> c]
  BY <1>1
<1> QED BY <1>1, <1>2 DEF IsSink

LEMMA SinkLost ==
  ASSUME NEW s, IsSink(s), NEW v
  PROVE  LET new == [s EXCEPT !.lost = v]
         IN  /\ IsSink(new) /\ new.lost = v
             /\ new.got = s.got /\ new.twice = s.twice /\ new.complete = s.complete
<1>1. PICK g, t, l, c :
        /\ s = [got |-> g, twice |-> t, lost |-> l, complete |-> c]
        /\ s.got = g /\ s.twice = t /\ s.lost = l /\ s.complete = c
  BY DEF IsSink
<1>2. [s EXCEPT !.lost = v] = [got |-> g, twice |-> t, lost |-> v, complete |-> c]
  BY <1>1
<1> QED BY <1>1, <1>2 DEF IsSink

LEMMA SinkComplete ==
  ASSUME NEW s, IsSink(s), NEW v
  PROVE  LET new == [s EXCEPT !.complete = v]
         IN  /\ IsSink(new) /\ new.complete = v
             /\ new.got = s.got /\ new.twice = s.twice /\ new.lost = s.lost
<1>1. PICK g, t, l, c :
        /\ s = [got |-> g, twice |-> t, lost |-> l, complete |-> c]
        /\ s.got = g /\ s.twice = t /\ s.lost = l /\ s.complete = c
  BY DEF IsSink
<1>2. [s EXCEPT !.complete = v] = [got |-> g, twice |-> t, lost |-> l, complete |-> v]
  BY <1>1
<1> QED BY <1>1, <1>2 DEF IsSink

LEMMA WriterPc ==
  ASSUME NEW r, IsWriter(r), NEW v
  PROVE  LET new == [r EXCEPT !.pc = v]
         IN  /\ IsWriter(new) /\ new.pc = v
             /\ new.batch = r.batch /\ new.attempt = r.attempt /\ new.closing = r.closing
<1>1. PICK p, b, a, c :
        /\ r = [pc |-> p, batch |-> b, attempt |-> a, closing |-> c] /\ b \in Seq(Nat)
        /\ r.pc = p /\ r.batch = b /\ r.attempt = a /\ r.closing = c
  BY DEF IsWriter
<1>2. [r EXCEPT !.pc = v] = [pc |-> v, batch |-> b, attempt |-> a, closing |-> c]
  BY <1>1
<1> QED BY <1>1, <1>2 DEF IsWriter

LEMMA WriterBatch ==
  ASSUME NEW r, IsWriter(r), NEW v \in Seq(Nat)
  PROVE  LET new == [r EXCEPT !.batch = v]
         IN  /\ IsWriter(new) /\ new.batch = v
             /\ new.pc = r.pc /\ new.attempt = r.attempt /\ new.closing = r.closing
<1>1. PICK p, b, a, c :
        /\ r = [pc |-> p, batch |-> b, attempt |-> a, closing |-> c] /\ b \in Seq(Nat)
        /\ r.pc = p /\ r.batch = b /\ r.attempt = a /\ r.closing = c
  BY DEF IsWriter
<1>2. [r EXCEPT !.batch = v] = [pc |-> p, batch |-> v, attempt |-> a, closing |-> c]
  BY <1>1
<1> QED BY <1>1, <1>2 DEF IsWriter

LEMMA WriterAttempt ==
  ASSUME NEW r, IsWriter(r), NEW v
  PROVE  LET new == [r EXCEPT !.attempt = v]
         IN  /\ IsWriter(new) /\ new.attempt = v
             /\ new.pc = r.pc /\ new.batch = r.batch /\ new.closing = r.closing
<1>1. PICK p, b, a, c :
        /\ r = [pc |-> p, batch |-> b, attempt |-> a, closing |-> c] /\ b \in Seq(Nat)
        /\ r.pc = p /\ r.batch = b /\ r.attempt = a /\ r.closing = c
  BY DEF IsWriter
<1>2. [r EXCEPT !.attempt = v] = [pc |-> p, batch |-> b, attempt |-> v, closing |-> c]
  BY <1>1
<1> QED BY <1>1, <1>2 DEF IsWriter

LEMMA WriterClosing ==
  ASSUME NEW r, IsWriter(r), NEW v
  PROVE  LET new == [r EXCEPT !.closing = v]
         IN  /\ IsWriter(new) /\ new.closing = v
             /\ new.pc = r.pc /\ new.batch = r.batch /\ new.attempt = r.attempt
<1>1. PICK p, b, a, c :
        /\ r = [pc |-> p, batch |-> b, attempt |-> a, closing |-> c] /\ b \in Seq(Nat)
        /\ r.pc = p /\ r.batch = b /\ r.attempt = a /\ r.closing = c
  BY DEF IsWriter
<1>2. [r EXCEPT !.closing = v] = [pc |-> p, batch |-> b, attempt |-> a, closing |-> v]
  BY <1>1
<1> QED BY <1>1, <1>2 DEF IsWriter

LEMMA GetsFields ==
  ASSUME NEW s, IsSink(s), NEW rows
  PROVE  /\ IsSink(Gets(s, rows)) /\ Gets(s, rows).got = s.got \cup rows
         /\ Gets(s, rows).twice = s.twice \cup (rows \cap s.got)
         /\ Gets(s, rows).lost = s.lost /\ Gets(s, rows).complete = s.complete
<1> DEFINE s1 == [s EXCEPT !.got = s.got \cup rows]
           s2 == [s1 EXCEPT !.twice = s1.twice \cup (rows \cap s.got)]
<1>1. Gets(s, rows) = s2
  BY SinkGot DEF Gets
<1>2. /\ IsSink(s1) /\ s1.got = s.got \cup rows /\ s1.twice = s.twice
      /\ s1.lost = s.lost /\ s1.complete = s.complete
  BY SinkGot
<1> HIDE DEF s1
<1>3. /\ IsSink(s2) /\ s2.got = s1.got /\ s2.twice = s1.twice \cup (rows \cap s.got)
      /\ s2.lost = s1.lost /\ s2.complete = s1.complete
  BY <1>2, SinkTwice
<1> HIDE DEF s2
<1> QED BY <1>1, <1>2, <1>3

LEMMA StartType == ASSUME TranscodeType, Start PROVE TranscodeType'
<1>1. UNCHANGED <<job, input, output, sink>>
  BY DEF Start
<1> USE SameJob, OfTheJob DEF TranscodeType
<1>2. CASE run' = [pc |-> "exit", error |-> TRUE] /\ UNCHANGED <<reader, fan, writer>>
  BY <1>1, <1>2, TypeWhenStill
<1>3. CASE /\ run' = [run EXCEPT !.pc = "read"]
           /\ reader' = [i \in DOMAIN Sources(job) |-> [pc |-> "waiting", sent |-> 0]]
           /\ fan' = [fan EXCEPT !.pc = "receive"]
           /\ writer' = [w \in WriterIds |-> [writer[w] EXCEPT !.pc = "receive"]]
  <2>1. ReaderType'
    BY <1>1, <1>3 DEF ReaderType
  <2>2. FanType'
    BY <1>1, <1>3 DEF FanType
  <2>3. ASSUME NEW w \in WriterIds PROVE IsWriter(writer'[w])
    <3>1. IsWriter(writer[w]) /\ writer'[w] = [writer[w] EXCEPT !.pc = "receive"]
      BY <1>3 DEF OutputType
    <3> QED BY ONLY <3>1, WriterPc
  <2>4. writer' = [w \in WriterIds |-> writer'[w]] /\ WriterIds' = WriterIds /\ Output' = Output
    BY <1>1, <1>3
  <2>6. OutputType'
    BY <1>1, <2>3, <2>4 DEF OutputType
  <2>7. run'.pc = "read" /\ run' = [pc |-> run'.pc, error |-> run'.error]
    BY <1>3
  <2> QED BY <1>1, <2>1, <2>2, <2>6, <2>7
<1> QED BY <1>2, <1>3 DEF Start

LEMMA ReaderFields ==
  ASSUME NEW r, NEW p, NEW n, r = [pc |-> p, sent |-> n], NEW v
  PROVE  /\ [r EXCEPT !.pc = v] = [pc |-> v, sent |-> n]
         /\ [r EXCEPT !.sent = v] = [pc |-> p, sent |-> v]
  OBVIOUS

LEMMA ReaderStepType ==
  ASSUME TranscodeType, NEW i \in DOMAIN reader,
         StartReader(i) \/ SendMetric(i) \/ EndReader(i)
  PROVE  TranscodeType'
<1> USE SameJob, OfTheJob DEF TranscodeType
<1>1. /\ i \in DOMAIN Sources(job) /\ reader[i].sent \in 0..Len(Read(i).rows)
      /\ reader[i] = [pc |-> reader[i].pc, sent |-> reader[i].sent]
  BY DEF ReaderType
<1>2. UNCHANGED <<job, fan, output, writer, sink>> /\ run.pc \notin {"off", "start"}
  <2>1. run.pc \notin {"off", "start"}
    BY DEF ReaderType
  <2> QED BY <2>1 DEF StartReader, SendMetric, EndReader
<1>3. OutputType'
  BY <1>2 DEF OutputType
<1>4. ASSUME NEW pc, NEW sent \in 0..Len(Read(i).rows),
             reader' = [reader EXCEPT ![i] = [pc |-> pc, sent |-> sent]]
      PROVE  ReaderType'
  BY <1>1, <1>2, <1>4 DEF ReaderType
<1>5. CASE StartReader(i)
  <2>1. reader' = [reader EXCEPT ![i] = [pc |-> "reading", sent |-> reader[i].sent]]
    <3>1. [reader[i] EXCEPT !.pc = "reading"] = [pc |-> "reading", sent |-> reader[i].sent]
      BY <1>1, ReaderFields
    <3>2. reader' = [reader EXCEPT ![i] = [reader[i] EXCEPT !.pc = "reading"]]
      BY <1>5 DEF StartReader
    <3> QED BY <3>1, <3>2, Zenon
  <2>2. FanType' /\ run' = run
    BY <1>2, <1>5 DEF StartReader, FanType
  <2> QED BY <1>1, <1>2, <1>3, <1>4, <2>1, <2>2
<1>6. CASE EndReader(i)
  <2>1. reader' = [reader EXCEPT ![i] = [pc |-> "done", sent |-> reader[i].sent]]
    <3>1. [reader[i] EXCEPT !.pc = "done"] = [pc |-> "done", sent |-> reader[i].sent]
      BY <1>1, ReaderFields
    <3>2. reader' = [reader EXCEPT ![i] = [reader[i] EXCEPT !.pc = "done"]]
      BY <1>6 DEF EndReader
    <3> QED BY <3>1, <3>2, Zenon
  <2>2. FanType' /\ run' = [pc |-> run.pc, error |-> run'.error]
    <3>1. FanType'
      BY <1>2, <1>6 DEF EndReader, FanType
    <3>2. run' = [pc |-> run.pc, error |-> run'.error]
      BY <1>6 DEF EndReader
    <3> QED BY <3>1, <3>2
  <2>3. ReaderType'
    BY <1>1, <1>4, <2>1
  <2>4. run' = [pc |-> run'.pc, error |-> run'.error] /\ run'.pc \notin {"off", "start"}
    BY <1>2, <2>2
  <2> QED BY <1>2, <1>3, <2>2, <2>3, <2>4
<1>7. CASE SendMetric(i)
  <2>1. CASE input.closed
    <3>1. reader' = [reader EXCEPT ![i] = [pc |-> "aborted", sent |-> reader[i].sent]]
      <4>1. [reader[i] EXCEPT !.pc = "aborted"] = [pc |-> "aborted", sent |-> reader[i].sent]
        BY <1>1, ReaderFields
      <4>2. reader' = [reader EXCEPT ![i] = [reader[i] EXCEPT !.pc = "aborted"]]
        BY <1>7, <2>1 DEF SendMetric
      <4> QED BY <4>1, <4>2, Zenon
    <3>2. FanType' /\ run' = run
      BY <1>2, <1>7, <2>1 DEF SendMetric, FanType
    <3> QED BY <1>1, <1>2, <1>3, <1>4, <3>1, <3>2
  <2>2. CASE ~input.closed
    <3>1. /\ reader[i].sent < Len(Read(i).rows)
          /\ input' = [input EXCEPT !.items =
                         Append(input.items, Read(i).rows[reader[i].sent + 1].id)]
          /\ reader' = [reader EXCEPT ![i].sent = reader[i].sent + 1]
          /\ run' = run
      BY <1>7, <2>2 DEF SendMetric
    <3>2. reader' = [reader EXCEPT ![i] = [pc |-> reader[i].pc, sent |-> reader[i].sent + 1]]
      <4>1. [reader[i] EXCEPT !.sent = reader[i].sent + 1]
              = [pc |-> reader[i].pc, sent |-> reader[i].sent + 1]
        BY <1>1, ReaderFields
      <4>2. reader' = [reader EXCEPT ![i] = [reader[i] EXCEPT !.sent = reader[i].sent + 1]]
        BY <3>1
      <4> QED BY <4>1, <4>2, Zenon
    <3>3. reader[i].sent + 1 \in DOMAIN Read(i).rows /\ reader[i].sent + 1 \in 0..Len(Read(i).rows)
      BY <1>1, <3>1
    <3>4. Read(i).rows[reader[i].sent + 1].id \in Nat
      BY <1>1, <3>3 DEF Id
    <3>5. FanType'
      <4> DEFINE e == Read(i).rows[reader[i].sent + 1].id
      <4> HIDE DEF e
      <4>1. input' = [items |-> Append(input.items, e), closed |-> input.closed]
        BY <3>1 DEF FanType, e
      <4>2. Append(input.items, e) \in Seq(Nat)
        BY <3>4, OfAppend DEF FanType, e
      <4> QED BY <1>2, <4>1, <4>2 DEF FanType
    <3>6. ReaderType'
      BY <1>4, <3>2, <3>3
    <3> QED BY <1>2, <1>3, <3>1, <3>5, <3>6
  <2> QED BY <2>1, <2>2
<1> QED BY <1>5, <1>6, <1>7

LEMMA MainStepType ==
  ASSUME TranscodeType,
         \/ Signal \/ ForceShutdown \/ StartFileReaders \/ StartHTTPServer \/ Return
         \/ \E i \in DOMAIN reader : PanicReader(i)
  PROVE  TranscodeType'
<1> USE DEF TranscodeType
<1>1. CASE Signal \/ ForceShutdown
  BY <1>1, TypeWhenStill DEF Signal, ForceShutdown
<1>2. CASE Return
  <2>1. run' = [pc |-> "exit", error |-> run.error]
    BY <1>2 DEF Return
  <2> QED BY <1>2, <2>1, TypeWhenStill DEF Return
<1>3. ASSUME NEW error, ReadersReturn(error) PROVE TranscodeType'
  <2>1. /\ run' = [pc |-> IF error THEN "exit" ELSE "wait", error |-> error]
        /\ input' = [items |-> input.items, closed |-> TRUE]
        /\ UNCHANGED <<job, reader, fan, output, writer, sink>>
    BY <1>3 DEF ReadersReturn, FanType
  <2>2. ReaderType' /\ OutputType'
    BY <2>1, SameJob DEF ReaderType, OutputType
  <2>3. FanType'
    BY <2>1, SameJob DEF FanType
  <2>4. run'.pc \notin {"off", "start"} /\ run' = [pc |-> run'.pc, error |-> run'.error]
    BY <2>1
  <2> QED BY <2>1, <2>2, <2>3, <2>4
<1>4. CASE StartFileReaders \/ StartHTTPServer
  BY <1>3, <1>4 DEF StartFileReaders, StartHTTPServer
<1>5. CASE \E i \in DOMAIN reader : PanicReader(i)
  <2>1. run' = [pc |-> "exit", error |-> TRUE]
    BY <1>5 DEF PanicReader
  <2> QED BY <1>5, <2>1, TypeWhenStill DEF PanicReader
<1> QED BY <1>1, <1>2, <1>4, <1>5

-----------------------------------------------------------------------------
(* The regurgitator: what FanOut and the writers change *)

LEMMA OutputStep ==
  ASSUME OutputType, NEW o \in Output, NEW s \in Seq(Nat),
         output' = [output EXCEPT ![o].items = s]
  PROVE  /\ output' = [p \in Output |-> output'[p]]
         /\ IsChannel(output'[o]) /\ output'[o].items = s /\ output'[o].closed = output[o].closed
         /\ \A p \in Output : p # o => output'[p] = output[p]
<1>1. output = [p \in Output |-> output[p]] /\ IsChannel(output[o])
  BY DEF OutputType
<1>2. output'[o] = [output[o] EXCEPT !.items = s]
  BY <1>1
<1>3. /\ IsChannel(output'[o]) /\ output'[o].items = s /\ output'[o].closed = output[o].closed
  BY ONLY s \in Seq(Nat), <1>1, <1>2, ChannelItems
<1>4. \A p \in Output : p # o => output'[p] = output[p]
  BY <1>1
<1>5. output' = [p \in Output |-> output'[p]]
  BY <1>1
<1> QED BY <1>3, <1>4, <1>5

LEMMA SinkStep ==
  ASSUME OutputType, NEW o \in Output, NEW s, sink' = [sink EXCEPT ![o] = s]
  PROVE  /\ sink' = [p \in Output |-> sink'[p]]
         /\ sink'[o] = s
         /\ \A p \in Output : p # o => sink'[p] = sink[p]
  BY DEF OutputType

LEMMA WriterStep ==
  ASSUME OutputType, NEW w \in WriterIds, NEW s, writer' = [writer EXCEPT ![w] = s]
  PROVE  /\ writer' = [v \in WriterIds |-> writer'[v]]
         /\ writer'[w] = s
         /\ \A v \in WriterIds : v # w => writer'[v] = writer[v]
  BY DEF OutputType

(* FanOut hands its metric to one output. *)
Sends ==
  LET o == fan.to IN
  /\ o \in Output /\ fan.item \in Nat
  /\ output' = [p \in Output |-> output'[p]]
  /\ IsChannel(output'[o]) /\ output'[o].closed = output[o].closed
  /\ output'[o].items = Append(output[o].items, fan.item)
  /\ \A p \in Output : p # o => output'[p] = output[p]
  /\ fan' = [pc |-> fan'.pc, item |-> fan.item, to |-> fan'.to]
  /\ \/ o = Len(job.outputs) /\ fan'.pc = "receive"
     \/ o + 1 \in Output /\ fan'.pc = "send" /\ fan'.to = o + 1

LEMMA SendEffect ==
  ASSUME TranscodeType, FanOutSend
  PROVE  /\ UNCHANGED <<job, run, signal, reader, input, writer, sink>> /\ fan.pc = "send"
         /\ (Forced /\ CloseOutputs) \/ Sends
<1> USE DEF TranscodeType
<1>1. /\ fan.pc = "send" /\ fan.item \in Nat /\ fan.to \in Output
      /\ fan = [pc |-> fan.pc, item |-> fan.item, to |-> fan.to]
      /\ UNCHANGED <<job, run, signal, reader, input, writer, sink>>
  BY DEF FanOutSend, FanType
<1>2. CASE Forced /\ CloseOutputs
  BY <1>1, <1>2
<1>3. CASE /\ output' = [output EXCEPT ![fan.to].items = Append(output[fan.to].items, fan.item)]
           /\ fan' = IF fan.to = Len(job.outputs) THEN [fan EXCEPT !.pc = "receive"]
                     ELSE [fan EXCEPT !.to = fan.to + 1]
  <2>1. Append(output[fan.to].items, fan.item) \in Seq(Nat)
    BY <1>1, OfAppend DEF OutputType, IsChannel
  <2>2. \/ /\ fan.to = Len(job.outputs)
           /\ fan' = [pc |-> "receive", item |-> fan.item, to |-> fan.to]
        \/ /\ fan.to + 1 \in Output
           /\ fan' = [pc |-> "send", item |-> fan.item, to |-> fan.to + 1]
    <3>1. CASE fan.to = Len(job.outputs)
      BY <1>1, <1>3, <3>1
    <3>2. CASE fan.to # Len(job.outputs)
      <4>1. fan.to + 1 \in Output
        BY <1>1, <3>2, OfTheJob
      <4>2. fan' = [pc |-> "send", item |-> fan.item, to |-> fan.to + 1]
        BY <1>1, <1>3, <3>2
      <4> QED BY <4>1, <4>2
    <3> QED BY <3>1, <3>2
  <2>3. /\ output' = [p \in Output |-> output'[p]]
        /\ IsChannel(output'[fan.to]) /\ output'[fan.to].closed = output[fan.to].closed
        /\ output'[fan.to].items = Append(output[fan.to].items, fan.item)
        /\ \A p \in Output : p # fan.to => output'[p] = output[p]
    BY <1>1, <1>3, <2>1, OutputStep
  <2>4. /\ fan' = [pc |-> fan'.pc, item |-> fan.item, to |-> fan'.to]
        /\ \/ fan.to = Len(job.outputs) /\ fan'.pc = "receive"
           \/ fan.to + 1 \in Output /\ fan'.pc = "send" /\ fan'.to = fan.to + 1
    BY <2>2
  <2>5. Sends
    BY <1>1, <2>3, <2>4 DEF Sends
  <2> QED BY <1>1, <2>5
<1> QED BY <1>2, <1>3 DEF FanOutSend

LEMMA CloseOutputsEffect ==
  ASSUME TranscodeType, CloseOutputs
  PROVE  /\ fan' = [pc |-> "done", item |-> fan.item, to |-> fan.to]
         /\ output' = [o \in Output |-> output'[o]]
         /\ \A o \in Output : /\ IsChannel(output'[o]) /\ output'[o].closed = TRUE
                              /\ output'[o].items = output[o].items
<1> USE DEF TranscodeType
<1>1. fan' = [pc |-> "done", item |-> fan.item, to |-> fan.to]
  BY DEF CloseOutputs, FanType
<1>2. output' = [o \in Output |-> [output[o] EXCEPT !.closed = TRUE]]
  BY DEF CloseOutputs, OutputType
<1>3. ASSUME NEW o \in Output
      PROVE  /\ IsChannel(output'[o]) /\ output'[o].closed = TRUE
             /\ output'[o].items = output[o].items
  <2>1. IsChannel(output[o]) /\ output'[o] = [output[o] EXCEPT !.closed = TRUE]
    BY <1>2 DEF OutputType
  <2> QED BY ONLY <2>1, ChannelClosed
<1>4. output' = [o \in Output |-> output'[o]]
  BY <1>2
<1> QED BY <1>1, <1>3, <1>4

(* FanOut takes the next metric. *)
Takes ==
  /\ input.items # <<>> /\ UNCHANGED output
  /\ input' = [items |-> Tail(input.items), closed |-> input.closed]
  /\ fan' = [pc |-> "send", item |-> Head(input.items), to |-> 1]

LEMMA ReceiveEffect ==
  ASSUME TranscodeType, FanOutReceive
  PROVE  /\ UNCHANGED <<job, run, signal, reader, writer, sink>> /\ fan.pc = "receive"
         /\ \/ /\ CloseOutputs /\ UNCHANGED input
               /\ Forced \/ (input.items = <<>> /\ input.closed = TRUE)
            \/ Takes
<1>1. input = [items |-> input.items, closed |-> input.closed]
  BY DEF TranscodeType, FanType
<1>2. CASE /\ input.items # <<>>
           /\ input' = [input EXCEPT !.items = Tail(input.items)]
           /\ fan' = [pc |-> "send", item |-> Head(input.items), to |-> 1]
           /\ UNCHANGED output
  <2>1. input' = [items |-> Tail(input.items), closed |-> input.closed]
    BY <1>1, <1>2
  <2> QED BY <1>2, <2>1 DEF FanOutReceive, Takes
<1> QED BY <1>2 DEF FanOutReceive

(* FanOut's end, of which the writers learn. *)
LEMMA ClosingType ==
  ASSUME TranscodeType, CloseOutputs, UNCHANGED <<job, run, reader, input, writer, sink>>,
         fan.pc \in {"receive", "send"}
  PROVE  TranscodeType'
<1>1. ReaderType'
  BY SameJob DEF TranscodeType, ReaderType
<1>2. FanType'
  <2>1. fan' = [pc |-> "done", item |-> fan.item, to |-> fan.to]
    BY CloseOutputsEffect
  <2> QED BY <2>1, SameJob DEF TranscodeType, FanType
<1>3. OutputType'
  <2>1. /\ output' = [o \in Output |-> output'[o]]
        /\ \A o \in Output : IsChannel(output'[o])
    BY CloseOutputsEffect
  <2> QED BY <2>1, SameJob DEF TranscodeType, OutputType
<1> QED BY <1>1, <1>2, <1>3 DEF TranscodeType

LEMMA FanOutType ==
  ASSUME TranscodeType, FanOutReceive \/ FanOutSend PROVE TranscodeType'
<1>1. CASE FanOutReceive
  <2>1. CASE CloseOutputs /\ UNCHANGED input
    BY <1>1, <2>1, ReceiveEffect, ClosingType
  <2>2. CASE Takes
    <3>1. UNCHANGED <<job, run, reader, writer, sink>> /\ fan.pc = "receive"
      BY <1>1, ReceiveEffect
    <3>2. ReaderType' /\ OutputType'
      BY <2>2, <3>1, SameJob DEF TranscodeType, ReaderType, OutputType, Takes
    <3>3. Head(input.items) \in Nat /\ Tail(input.items) \in Seq(Nat)
      BY <2>2, OfHeadAndTail DEF TranscodeType, FanType, Takes
    <3>4. 1 \in Output
      BY OfTheJob DEF TranscodeType
    <3>5. FanType'
      BY <2>2, <3>1, <3>3, <3>4, SameJob DEF FanType, Takes
    <3> QED BY <3>1, <3>2, <3>5 DEF TranscodeType
  <2> QED BY <1>1, <2>1, <2>2, ReceiveEffect
<1>2. CASE FanOutSend
  <2>1. CASE CloseOutputs
    BY <1>2, <2>1, SendEffect, ClosingType
  <2>2. CASE Sends
    <3>1. UNCHANGED <<job, run, reader, input, writer, sink>> /\ fan.pc = "send"
      BY <1>2, SendEffect
    <3>2. ReaderType'
      BY <3>1, SameJob DEF TranscodeType, ReaderType
    <3>3. FanType'
      <4>1. /\ fan' = [pc |-> fan'.pc, item |-> fan.item, to |-> fan'.to] /\ fan.item \in Nat
            /\ fan'.pc = "send" => fan'.to \in Output
        BY <2>2 DEF Sends
      <4>2. fan'.item = fan.item
        BY <4>1
      <4> QED BY <3>1, <4>1, <4>2, SameJob DEF TranscodeType, FanType
    <3>4. OutputType'
      BY <2>2, <3>1, SameJob DEF TranscodeType, OutputType, Sends
    <3> QED BY <3>1, <3>2, <3>3, <3>4 DEF TranscodeType
  <2> QED BY <1>2, <2>1, <2>2, SendEffect
<1> QED BY <1>1, <1>2

-----------------------------------------------------------------------------
(* The regurgitator: a step of one writer *)

Other(w) ==
  /\ \A v \in WriterIds : v # w => writer'[v] = writer[v]
  /\ \A o \in Output : o # w[1] => sink'[o] = sink[o] /\ output'[o] = output[o]
  /\ writer' = [v \in WriterIds |-> writer'[v]]
  /\ sink' = [o \in Output |-> sink'[o]]
  /\ output' = [o \in Output |-> output'[o]]
  /\ UNCHANGED <<job, run, signal, reader, input, fan>>

(* The writer of a file writes the next metric, fails to, or closes it. *)
FileMoves(w, o) ==
  /\ writer'[w].batch = writer[w].batch /\ writer'[w].pc # "flush"
  /\ writer'[w].pc = "done" => sink'[o].complete = TRUE \/ sink'[o].lost = TRUE
  /\ \/ /\ output'[o].items = output[o].items
        /\ sink'[o].got = sink[o].got /\ sink'[o].twice = sink[o].twice
     \/ /\ output[o].items # <<>> /\ output'[o].items = Tail(output[o].items)
        /\ sink'[o].got \subseteq sink[o].got \cup {Head(output[o].items)}
        /\ sink'[o].twice \subseteq
             sink[o].twice \cup ({Head(output[o].items)} \cap sink[o].got)

(* What each of its steps keeps of what an output has, and when it ends.   *)
WriterKeeps(w, o) ==
  /\ IsWriter(writer'[w]) /\ IsSink(sink'[o]) /\ IsChannel(output'[o])
  /\ output'[o].closed = output[o].closed
  /\ output[o].items = <<>> => output'[o].items = <<>>
  /\ sink[o].got \subseteq sink'[o].got
  /\ sink[o].lost = TRUE => sink'[o].lost = TRUE
  /\ sink[o].complete = TRUE => sink'[o].complete = TRUE
  /\ \/ sink'[o].lost = TRUE
     \/ ToSet(output[o].items) \cup ToSet(writer[w].batch) \subseteq
          ToSet(output'[o].items) \cup ToSet(writer'[w].batch) \cup sink'[o].got
  /\ writer'[w].closing = TRUE \/ writer'[w].pc = "done" =>
       writer[w].closing = TRUE \/ (output[o].items = <<>> /\ output[o].closed = TRUE)
  /\ writer'[w].pc = "done" /\ writer'[w].batch # <<>> => IsFile(o) \/ sink'[o].lost = TRUE

WriterMoves(w) ==
  /\ Other(w) /\ WriterKeeps(w, w[1])
  /\ IsFile(w[1]) /\ writer[w].pc # "flush" => FileMoves(w, w[1])

LEMMA WriteOneMoves ==
  ASSUME TranscodeType, NEW w \in WriterIds, WriteOne(w) PROVE WriterMoves(w)
<1> DEFINE o == w[1]
           metric == Head(output[o].items)
<1>1. o \in Output /\ OutputType
  BY OfTheJob DEF TranscodeType
<1>2. /\ output[o].items # <<>> /\ writer[w].pc = "receive"
      /\ UNCHANGED <<job, run, signal, reader, input, fan>>
      /\ output' = [output EXCEPT ![o].items = Tail(output[o].items)]
  BY DEF WriteOne
<1>3. /\ IsChannel(output[o]) /\ output[o].items \in Seq(Nat)
      /\ IsSink(sink[o]) /\ IsWriter(writer[w]) /\ writer[w].batch \in Seq(Nat)
      /\ writer = [v \in WriterIds |-> writer[v]] /\ sink = [p \in Output |-> sink[p]]
  BY <1>1 DEF OutputType, IsChannel, IsWriter
<1>4. /\ metric \in Nat /\ Tail(output[o].items) \in Seq(Nat)
      /\ ToSet(output[o].items) = {metric} \cup ToSet(Tail(output[o].items))
  BY <1>2, <1>3, OfHeadAndTail
<1>5. /\ output' = [p \in Output |-> output'[p]]
      /\ IsChannel(output'[o]) /\ output'[o].items = Tail(output[o].items)
      /\ output'[o].closed = output[o].closed
      /\ \A p \in Output : p # o => output'[p] = output[p]
  BY <1>1, <1>2, <1>4, OutputStep
<1>6. CASE ~IsFile(o)
  <2> DEFINE pc == IF Len(writer[w].batch) + 1 >= BatchSize THEN "flush" ELSE writer[w].pc
             s1 == [writer[w] EXCEPT !.batch = Append(writer[w].batch, metric)]
             s2 == [s1 EXCEPT !.pc = pc]
             s3 == [s2 EXCEPT !.attempt = 1]
  <2>1. writer' = [writer EXCEPT ![w] = s3] /\ UNCHANGED sink
    <3>1. s1.pc = writer[w].pc
      BY <1>3 DEF IsWriter
    <3> QED BY <1>3, <1>6, <3>1 DEF WriteOne, IsFile, o
  <2> HIDE DEF o, metric
  <2>2. /\ Append(writer[w].batch, metric) \in Seq(Nat)
        /\ ToSet(Append(writer[w].batch, metric)) = ToSet(writer[w].batch) \cup {metric}
    BY <1>3, <1>4, OfAppend
  <2>3. /\ IsWriter(s1) /\ s1.batch = Append(writer[w].batch, metric)
        /\ s1.closing = writer[w].closing
    BY ONLY <1>3, <2>2, WriterBatch
  <2>4. pc # "done"
    BY <1>2
  <2> HIDE DEF s1, pc
  <2>5. IsWriter(s2) /\ s2.batch = s1.batch /\ s2.closing = s1.closing /\ s2.pc = pc
    BY ONLY <2>3, WriterPc
  <2> HIDE DEF s2
  <2>6. IsWriter(s3) /\ s3.batch = s2.batch /\ s3.closing = s2.closing /\ s3.pc = s2.pc
    BY ONLY <2>5, WriterAttempt
  <2> HIDE DEF s3
  <2>7. writer'[w] = s3 /\ writer' = [v \in WriterIds |-> writer'[v]]
        /\ \A v \in WriterIds : v # w => writer'[v] = writer[v]
    BY <1>1, <2>1, WriterStep
  <2>8. Other(w)
    BY <1>2, <1>3, <1>5, <2>1, <2>7 DEF Other, o
  <2>9. WriterKeeps(w, o)
    BY <1>2, <1>3, <1>4, <1>5, <2>1, <2>2, <2>3, <2>4, <2>5, <2>6, <2>7 DEF WriterKeeps
  <2> QED BY <1>6, <2>8, <2>9 DEF WriterMoves, o
<1>7. CASE IsFile(o)
  <2>1. PICK s : /\ writer' = writer /\ sink' = [sink EXCEPT ![o] = s]
                 /\ \/ s = Gets(sink[o], {metric})
                    \/ s = [sink[o] EXCEPT !.lost = TRUE]
    <3>1. CASE sink' = [sink EXCEPT ![o] = Gets(sink[o], {metric})]
      BY <1>3, <1>7, <3>1 DEF WriteOne, IsFile, o
    <3>2. CASE sink' = [sink EXCEPT ![o] = [sink[o] EXCEPT !.lost = TRUE]]
      BY <1>3, <1>7, <3>2 DEF WriteOne, IsFile, o
    <3> QED BY <1>3, <1>7, <3>1, <3>2 DEF WriteOne, IsFile, o
  <2> HIDE DEF o, metric
  <2>2. /\ IsSink(s) /\ s.complete = sink[o].complete
        /\ s.twice \subseteq sink[o].twice \cup ({metric} \cap sink[o].got)
        /\ \/ s.got = sink[o].got \cup {metric} /\ s.lost = sink[o].lost
           \/ s.got = sink[o].got /\ s.lost = TRUE
    <3>1. CASE s = Gets(sink[o], {metric})
      BY ONLY <1>3, <3>1, GetsFields
    <3>2. CASE s = [sink[o] EXCEPT !.lost = TRUE]
      BY ONLY <1>3, <3>2, SinkLost
    <3> QED BY <2>1, <3>1, <3>2
  <2>3. sink'[o] = s /\ sink' = [p \in Output |-> sink'[p]]
        /\ \A p \in Output : p # o => sink'[p] = sink[p]
    BY <1>1, <2>1, SinkStep
  <2>4. Other(w)
    BY <1>2, <1>3, <1>5, <2>1, <2>3 DEF Other, o
  <2>5. WriterKeeps(w, o)
    BY <1>2, <1>3, <1>4, <1>5, <2>1, <2>2, <2>3 DEF WriterKeeps
  <2>6. FileMoves(w, o)
    BY <1>2, <1>5, <2>1, <2>2, <2>3 DEF FileMoves, metric
  <2> QED BY <2>4, <2>5, <2>6 DEF WriterMoves, o
<1> QED BY <1>6, <1>7

(* What the last attempt of a flush leaves when it fails. *)
LEMMA GiveUpEffect ==
  ASSUME OutputType, NEW w \in WriterIds, w[1] \in Output, NEW received, GiveUp(w, received)
  PROVE  LET o == w[1] IN
         /\ IsWriter(writer'[w]) /\ writer'[w].batch = writer[w].batch
         /\ writer'[w].closing = writer[w].closing
         /\ writer'[w].pc = IF writer[w].closing = TRUE THEN "done" ELSE "receive"
         /\ \A v \in WriterIds : v # w => writer'[v] = writer[v]
         /\ writer' = [v \in WriterIds |-> writer'[v]]
         /\ IsSink(sink'[o]) /\ sink'[o].got = sink[o].got \cup received
         /\ sink'[o].complete = sink[o].complete
         /\ sink[o].lost = TRUE \/ writer[w].closing = TRUE => sink'[o].lost = TRUE
         /\ \A p \in Output : p # o => sink'[p] = sink[p]
         /\ sink' = [p \in Output |-> sink'[p]]
<1> DEFINE o == w[1]
           pc == IF writer[w].closing = TRUE THEN "done" ELSE "receive"
           W == [writer[w] EXCEPT !.pc = pc]
           G == Gets(sink[o], received)
           S == [G EXCEPT !.lost = G.lost \/ writer[w].closing]
<1>1. /\ writer = [v \in WriterIds |-> writer[v]] /\ sink = [p \in Output |-> sink[p]]
      /\ IsWriter(writer[w]) /\ IsSink(sink[o])
  BY DEF OutputType
<1>2. writer' = [writer EXCEPT ![w] = W]
  BY <1>1 DEF GiveUp, GivesUp
<1>3. sink' = [sink EXCEPT ![o] = S]
  BY <1>1 DEF GiveUp
<1>4. IsWriter(W) /\ W.pc = pc /\ W.batch = writer[w].batch /\ W.closing = writer[w].closing
  BY ONLY <1>1, WriterPc
<1> HIDE DEF W
<1>5. /\ writer'[w] = W /\ writer' = [v \in WriterIds |-> writer'[v]]
      /\ \A v \in WriterIds : v # w => writer'[v] = writer[v]
  BY <1>2, WriterStep
<1>6. /\ IsSink(G) /\ G.got = sink[o].got \cup received
      /\ G.lost = sink[o].lost /\ G.complete = sink[o].complete
  BY ONLY <1>1, GetsFields
<1> HIDE DEF G
<1>7. /\ IsSink(S) /\ S.got = G.got /\ S.complete = G.complete
      /\ S.lost = (G.lost \/ writer[w].closing)
  BY ONLY <1>6, SinkLost
<1> HIDE DEF S
<1>8. sink'[o] = S /\ sink' = [p \in Output |-> sink'[p]]
        /\ \A p \in Output : p # o => sink'[p] = sink[p]
  BY <1>3, SinkStep
<1>9. sink[o].lost = TRUE \/ writer[w].closing = TRUE => S.lost = TRUE
  BY <1>6, <1>7
<1> QED BY <1>4, <1>5, <1>6, <1>7, <1>8, <1>9

LEMMA FlushedEffect ==
  ASSUME OutputType, NEW w \in WriterIds, writer' = Flushed(w)
  PROVE  /\ IsWriter(writer'[w]) /\ writer'[w].batch = <<>>
         /\ writer'[w].closing = writer[w].closing
         /\ writer'[w].pc = IF writer[w].closing = TRUE THEN "done" ELSE "receive"
         /\ \A v \in WriterIds : v # w => writer'[v] = writer[v]
         /\ writer' = [v \in WriterIds |-> writer'[v]]
<1> DEFINE pc == IF writer[w].closing = TRUE THEN "done" ELSE "receive"
           s1 == [writer[w] EXCEPT !.pc = pc]
           s2 == [s1 EXCEPT !.batch = <<>>]
<1>1. writer = [v \in WriterIds |-> writer[v]] /\ IsWriter(writer[w])
  BY DEF OutputType
<1>2. writer' = [writer EXCEPT ![w] = s2]
  BY <1>1 DEF Flushed
<1>3. IsWriter(s1) /\ s1.pc = pc /\ s1.closing = writer[w].closing
  BY ONLY <1>1, WriterPc
<1> HIDE DEF s1
<1>4. <<>> \in Seq(Nat)
  OBVIOUS
<1>5. IsWriter(s2) /\ s2.pc = s1.pc /\ s2.closing = s1.closing /\ s2.batch = <<>>
  BY ONLY <1>3, <1>4, WriterBatch
<1> HIDE DEF s2
<1>6. /\ writer'[w] = s2 /\ writer' = [v \in WriterIds |-> writer'[v]]
      /\ \A v \in WriterIds : v # w => writer'[v] = writer[v]
  BY <1>2, WriterStep
<1> QED BY <1>3, <1>5, <1>6

LEMMA FlushMoves ==
  ASSUME TranscodeType, NEW w \in WriterIds, flush(w) PROVE WriterMoves(w)
<1> DEFINE o == w[1]
           batch == ToSet(writer[w].batch)
<1>1. o \in Output /\ OutputType
  BY OfTheJob DEF TranscodeType
<1>2. writer[w].pc = "flush" /\ UNCHANGED <<job, run, signal, reader, input, fan, output>>
  BY DEF flush
<1>3. /\ output = [p \in Output |-> output[p]] /\ IsChannel(output[o])
      /\ IsSink(sink[o]) /\ IsWriter(writer[w])
      /\ writer = [v \in WriterIds |-> writer[v]] /\ sink = [p \in Output |-> sink[p]]
  BY <1>1 DEF OutputType
<1>4. SUFFICES /\ \A v \in WriterIds : v # w => writer'[v] = writer[v]
               /\ \A p \in Output : p # o => sink'[p] = sink[p]
               /\ writer' = [v \in WriterIds |-> writer'[v]]
               /\ sink' = [p \in Output |-> sink'[p]]
               /\ IsWriter(writer'[w]) /\ IsSink(sink'[o])
               /\ sink[o].got \subseteq sink'[o].got
               /\ sink[o].lost = TRUE => sink'[o].lost = TRUE
               /\ sink'[o].complete = sink[o].complete
               /\ \/ writer'[w].batch = writer[w].batch
                  \/ writer'[w].batch = <<>> /\ batch \subseteq sink'[o].got
               /\ writer'[w].closing = writer[w].closing
               /\ writer'[w].pc = "done" =>
                    /\ writer[w].closing = TRUE
                    /\ writer'[w].batch = <<>> \/ sink'[o].lost = TRUE
  <2>1. Other(w)
    BY <1>2, <1>3, <1>4 DEF Other
  <2> HIDE DEF o
  <2>2. WriterKeeps(w, o)
    BY <1>2, <1>3, <1>4 DEF WriterKeeps
  <2> QED BY <1>2, <2>1, <2>2 DEF WriterMoves, o
<1>5. CASE batch = {} /\ writer' = Flushed(w) /\ UNCHANGED sink
  BY <1>1, <1>3, <1>5, FlushedEffect
<1>6. ASSUME NEW received, GiveUp(w, received)
      PROVE  /\ \A v \in WriterIds : v # w => writer'[v] = writer[v]
             /\ \A p \in Output : p # o => sink'[p] = sink[p]
             /\ writer' = [v \in WriterIds |-> writer'[v]]
             /\ sink' = [p \in Output |-> sink'[p]]
             /\ IsWriter(writer'[w]) /\ IsSink(sink'[o])
             /\ sink[o].got \subseteq sink'[o].got
             /\ sink[o].lost = TRUE => sink'[o].lost = TRUE
             /\ sink'[o].complete = sink[o].complete
             /\ writer'[w].batch = writer[w].batch
             /\ writer'[w].closing = writer[w].closing
             /\ writer'[w].pc = "done" => writer[w].closing = TRUE /\ sink'[o].lost = TRUE
  BY <1>1, <1>6, GiveUpEffect
<1>7. ASSUME NEW received, sink' = [sink EXCEPT ![o] = Gets(sink[o], received)]
      PROVE  /\ \A p \in Output : p # o => sink'[p] = sink[p]
             /\ sink' = [p \in Output |-> sink'[p]] /\ IsSink(sink'[o])
             /\ sink'[o].got = sink[o].got \cup received
             /\ sink'[o].lost = sink[o].lost /\ sink'[o].complete = sink[o].complete
  <2>1. sink'[o] = Gets(sink[o], received)
    BY <1>1, <1>3, <1>7
  <2> HIDE DEF o
  <2>2. IsSink(sink'[o]) /\ sink'[o].got = sink[o].got \cup received
        /\ sink'[o].lost = sink[o].lost /\ sink'[o].complete = sink[o].complete
    BY ONLY <1>3, <2>1, GetsFields
  <2> QED BY <1>1, <1>7, <2>2, SinkStep
<1>8. CASE writer' = Flushed(w) /\ sink' = [sink EXCEPT ![o] = Gets(sink[o], batch)]
  <2> HIDE DEF o, batch
  <2>1. /\ \A p \in Output : p # o => sink'[p] = sink[p]
        /\ sink' = [p \in Output |-> sink'[p]] /\ IsSink(sink'[o])
        /\ sink'[o].got = sink[o].got \cup batch
        /\ sink'[o].lost = sink[o].lost /\ sink'[o].complete = sink[o].complete
    BY <1>7, <1>8
  <2> QED BY <1>1, <1>8, <2>1, FlushedEffect
<1>9. ASSUME NEW received, sink' = [sink EXCEPT ![o] = Gets(sink[o], received)],
             writer' = [writer EXCEPT ![w].attempt = writer[w].attempt + 1]
      PROVE  /\ \A v \in WriterIds : v # w => writer'[v] = writer[v]
             /\ writer' = [v \in WriterIds |-> writer'[v]]
             /\ IsWriter(writer'[w]) /\ writer'[w].batch = writer[w].batch
             /\ writer'[w].closing = writer[w].closing /\ writer'[w].pc = "flush"
  <2> DEFINE s == [writer[w] EXCEPT !.attempt = writer[w].attempt + 1]
  <2>1. writer' = [writer EXCEPT ![w] = s]
    BY <1>3, <1>9
  <2>2. IsWriter(s) /\ s.batch = writer[w].batch /\ s.closing = writer[w].closing
        /\ s.pc = writer[w].pc
    BY ONLY <1>3, WriterAttempt
  <2> HIDE DEF s
  <2> QED BY <1>1, <1>2, <2>1, <2>2, WriterStep
<1>10. CASE \E received \in {{}, batch} :
              IF writer[w].attempt = MaxFlushes
              THEN GiveUp(w, received)
              ELSE /\ writer' = [writer EXCEPT ![w].attempt = writer[w].attempt + 1]
                   /\ sink' = [sink EXCEPT ![o] = Gets(sink[o], received)]
  <2> PICK received : \/ GiveUp(w, received)
                      \/ /\ writer' = [writer EXCEPT ![w].attempt = writer[w].attempt + 1]
                         /\ sink' = [sink EXCEPT ![o] = Gets(sink[o], received)]
    BY <1>10
  <2>1. CASE GiveUp(w, received)
    BY <1>6, <2>1
  <2>2. CASE /\ writer' = [writer EXCEPT ![w].attempt = writer[w].attempt + 1]
             /\ sink' = [sink EXCEPT ![o] = Gets(sink[o], received)]
    BY <1>7, <1>9, <2>2
  <2> QED BY <2>1, <2>2
<1>11. CASE GiveUp(w, {})
  BY <1>6, <1>11
<1>12. \/ batch = {} /\ writer' = Flushed(w) /\ UNCHANGED sink
       \/ GiveUp(w, {})
       \/ writer' = Flushed(w) /\ sink' = [sink EXCEPT ![o] = Gets(sink[o], batch)]
       \/ \E received \in {{}, batch} :
            IF writer[w].attempt = MaxFlushes
            THEN GiveUp(w, received)
            ELSE /\ writer' = [writer EXCEPT ![w].attempt = writer[w].attempt + 1]
                 /\ sink' = [sink EXCEPT ![o] = Gets(sink[o], received)]
  BY DEF flush
<1> QED BY <1>5, <1>8, <1>10, <1>11, <1>12

LEMMA CloseMoves ==
  ASSUME TranscodeType, NEW w \in WriterIds, Close(w) PROVE WriterMoves(w)
<1> DEFINE o == w[1]
<1>1. o \in Output /\ OutputType
  BY OfTheJob DEF TranscodeType
<1>2. /\ writer[w].pc = "receive" /\ output[o].items = <<>> /\ output[o].closed = TRUE
      /\ UNCHANGED <<job, run, signal, reader, input, fan, output>>
  BY DEF Close
<1>3. /\ output = [p \in Output |-> output[p]] /\ IsChannel(output[o])
      /\ IsSink(sink[o]) /\ IsWriter(writer[w])
      /\ writer = [v \in WriterIds |-> writer[v]] /\ sink = [p \in Output |-> sink[p]]
  BY <1>1 DEF OutputType
<1>4. CASE ~IsFile(o)
  <2> DEFINE s1 == [writer[w] EXCEPT !.pc = "flush"]
             s2 == [s1 EXCEPT !.attempt = 1]
             s3 == [s2 EXCEPT !.closing = TRUE]
  <2>1. writer' = [writer EXCEPT ![w] = s3] /\ UNCHANGED sink
    BY <1>3, <1>4 DEF Close, IsFile, o
  <2> HIDE DEF o
  <2>2. IsWriter(s1) /\ s1.batch = writer[w].batch /\ s1.pc = "flush"
    BY ONLY <1>3, WriterPc
  <2> HIDE DEF s1
  <2>3. IsWriter(s2) /\ s2.batch = s1.batch /\ s2.pc = s1.pc
    BY ONLY <2>2, WriterAttempt
  <2> HIDE DEF s2
  <2>4. IsWriter(s3) /\ s3.batch = s2.batch /\ s3.pc = s2.pc
    BY ONLY <2>3, WriterClosing
  <2> HIDE DEF s3
  <2>5. writer'[w] = s3 /\ writer' = [v \in WriterIds |-> writer'[v]]
        /\ \A v \in WriterIds : v # w => writer'[v] = writer[v]
    BY <1>1, <2>1, WriterStep
  <2>6. Other(w)
    BY <1>2, <1>3, <2>1, <2>5 DEF Other, o
  <2>7. WriterKeeps(w, o)
    BY <1>2, <1>3, <2>1, <2>2, <2>3, <2>4, <2>5 DEF WriterKeeps
  <2> QED BY <1>4, <2>6, <2>7 DEF WriterMoves, o
<1>5. CASE IsFile(o)
  <2> DEFINE r == [writer[w] EXCEPT !.pc = "done"]
  <2>1. PICK s : /\ writer' = [writer EXCEPT ![w] = r] /\ sink' = [sink EXCEPT ![o] = s]
                 /\ \/ s = [sink[o] EXCEPT !.complete = TRUE]
                    \/ s = [sink[o] EXCEPT !.lost = TRUE]
    <3>1. CASE sink' = [sink EXCEPT ![o] = [sink[o] EXCEPT !.complete = TRUE]]
      BY <1>3, <1>5, <3>1 DEF Close, IsFile, o
    <3>2. CASE sink' = [sink EXCEPT ![o] = [sink[o] EXCEPT !.lost = TRUE]]
      BY <1>3, <1>5, <3>2 DEF Close, IsFile, o
    <3> QED BY <1>3, <1>5, <3>1, <3>2 DEF Close, IsFile, o
  <2> HIDE DEF o
  <2>2. /\ IsSink(s) /\ s.got = sink[o].got /\ s.twice = sink[o].twice
        /\ sink[o].complete = TRUE => s.complete = TRUE
        /\ sink[o].lost = TRUE => s.lost = TRUE
        /\ s.complete = TRUE \/ s.lost = TRUE
    <3>1. CASE s = [sink[o] EXCEPT !.complete = TRUE]
      BY ONLY <1>3, <3>1, SinkComplete
    <3>2. CASE s = [sink[o] EXCEPT !.lost = TRUE]
      BY ONLY <1>3, <3>2, SinkLost
    <3> QED BY <2>1, <3>1, <3>2
  <2>3. IsWriter(r) /\ r.batch = writer[w].batch /\ r.closing = writer[w].closing /\ r.pc = "done"
    BY ONLY <1>3, WriterPc
  <2> HIDE DEF r
  <2>4. sink'[o] = s /\ sink' = [p \in Output |-> sink'[p]]
        /\ \A p \in Output : p # o => sink'[p] = sink[p]
    BY <1>1, <2>1, SinkStep
  <2>5. writer'[w] = r /\ writer' = [v \in WriterIds |-> writer'[v]]
        /\ \A v \in WriterIds : v # w => writer'[v] = writer[v]
    BY <1>1, <2>1, WriterStep
  <2>6. Other(w)
    BY <1>2, <1>3, <2>4, <2>5 DEF Other, o
  <2>7. WriterKeeps(w, o)
    BY <1>2, <1>3, <1>5, <2>2, <2>3, <2>4, <2>5 DEF WriterKeeps
  <2>8. FileMoves(w, o)
    BY <1>2, <2>2, <2>3, <2>4, <2>5 DEF FileMoves
  <2> QED BY <2>6, <2>7, <2>8 DEF WriterMoves, o
<1> QED BY <1>4, <1>5

LEMMA WriterType ==
  ASSUME TranscodeType, NEW w \in WriterIds, WriterMoves(w) PROVE TranscodeType'
<1>1. UNCHANGED <<job, run, reader, input, fan>>
  BY DEF WriterMoves, Other
<1>2. ReaderType' /\ FanType'
  BY <1>1, SameJob DEF TranscodeType, ReaderType, FanType
<1>3. OutputType'
  BY <1>1, SameJob DEF TranscodeType, OutputType, WriterMoves, Other, WriterKeeps
<1> QED BY <1>1, <1>2, <1>3 DEF TranscodeType

-----------------------------------------------------------------------------
(* The regurgitator: what is on the way stays on it *)

Steady == TranscodeType /\ ~Forced /\ FlowInv /\ EndsInOrder /\ OnceInv

(* A step that moves no metric. *)
LEMMA StillInv ==
  ASSUME Steady, UNCHANGED <<job, fan, output, writer, sink>>, input'.items = input.items,
         input.closed = TRUE => input'.closed = TRUE,
         DOMAIN reader' = DOMAIN reader,
         \A i \in DOMAIN reader : reader'[i].sent = reader[i].sent,
         run'.pc = "exit" /\ run'.error # TRUE => WaitForWriters
  PROVE  FlowInv' /\ EndsInOrder' /\ OnceInv'
<1>1. \A x : IsSent(x)' <=> IsSent(x)
  BY SameJob DEF IsSent
<1>2. \A x, o : Carried(x, o)' <=> Carried(x, o)
  BY SameJob DEF Carried
<1>3. \A x : IsUnsent(x)' <=> IsUnsent(x)
  BY SameJob DEF IsUnsent
<1>4. FlowInv'
  BY <1>1, <1>2, SameJob DEF Steady, FlowInv
<1>5. EndsInOrder'
  BY SameJob DEF Steady, EndsInOrder, WaitForWriters
<1>6. OnceInv'
  BY <1>3, SameJob DEF Steady, OnceInv, Passed
<1> QED BY <1>4, <1>5, <1>6

LEMMA MainInv ==
  ASSUME Steady,
         \/ Signal \/ StartFileReaders \/ StartHTTPServer \/ Return
         \/ \E i \in DOMAIN reader : PanicReader(i)
  PROVE  FlowInv' /\ EndsInOrder' /\ OnceInv'
<1>1. CASE Signal
  <2>1. run.pc # "exit" /\ UNCHANGED <<job, run, reader, input, fan, output, writer, sink>>
    BY <1>1 DEF Signal
  <2> QED BY <2>1, StillInv
<1>2. CASE Return
  <2>1. WaitForWriters /\ UNCHANGED <<job, reader, input, fan, output, writer, sink>>
    BY <1>2 DEF Return
  <2> QED BY <2>1, StillInv
<1>3. ASSUME NEW error, ReadersReturn(error), error \in BOOLEAN
      PROVE  FlowInv' /\ EndsInOrder' /\ OnceInv'
  <2>1. /\ run' = [pc |-> IF error THEN "exit" ELSE "wait", error |-> error]
        /\ input' = [items |-> input.items, closed |-> TRUE]
        /\ UNCHANGED <<job, reader, fan, output, writer, sink>>
    BY <1>3 DEF ReadersReturn, Steady, TranscodeType, FanType
  <2>2. ~(run'.pc = "exit" /\ run'.error # TRUE)
    BY <1>3, <2>1
  <2> QED BY <2>1, <2>2, StillInv
<1>4. CASE StartFileReaders
  <2>1. PICK error \in BOOLEAN : ReadersReturn(error)
    BY <1>4 DEF StartFileReaders
  <2> QED BY <1>3, <2>1
<1>5. CASE StartHTTPServer
  BY <1>3, <1>5 DEF StartHTTPServer
<1>6. CASE \E i \in DOMAIN reader : PanicReader(i)
  <2>1. /\ run' = [pc |-> "exit", error |-> TRUE]
        /\ UNCHANGED <<job, reader, input, fan, output, writer, sink>>
    BY <1>6 DEF PanicReader
  <2> QED BY <2>1, StillInv
<1> QED BY <1>1, <1>2, <1>4, <1>5, <1>6

LEMMA StartInv == ASSUME Steady, Start PROVE FlowInv' /\ EndsInOrder' /\ OnceInv'
<1>1. UNCHANGED <<job, input, output, sink>> /\ reader = <<>> /\ fan.pc = "off"
  BY DEF Start, Steady, TranscodeType
<1>2. CASE run' = [pc |-> "exit", error |-> TRUE] /\ UNCHANGED <<reader, fan, writer>>
  BY <1>1, <1>2, StillInv
<1>3. CASE /\ run' = [run EXCEPT !.pc = "read"]
           /\ reader' = [i \in DOMAIN Sources(job) |-> [pc |-> "waiting", sent |-> 0]]
           /\ fan' = [fan EXCEPT !.pc = "receive"]
           /\ writer' = [w \in WriterIds |-> [writer[w] EXCEPT !.pc = "receive"]]
  <2>1. fan'.pc = "receive" /\ run'.pc = "read"
    BY <1>3 DEF Steady, TranscodeType, FanType
  <2>2. ASSUME NEW w \in WriterIds
        PROVE  /\ writer'[w].pc = "receive" /\ writer'[w].batch = writer[w].batch
               /\ writer'[w].closing = writer[w].closing
    <3>1. IsWriter(writer[w]) /\ writer'[w] = [writer[w] EXCEPT !.pc = "receive"]
      BY <1>3 DEF Steady, TranscodeType, OutputType
    <3> QED BY ONLY <3>1, WriterPc
  <2>3. \A x : ~IsSent(x)'
    BY <1>3 DEF IsSent
  <2>4. \A x : IsUnsent(x)' => IsUnsent(x)
    BY <1>1, SameJob DEF IsUnsent
  <2>5. FlowInv'
    BY <2>3 DEF FlowInv
  <2>6. EndsInOrder'
    BY <1>1, <2>1, <2>2, SameJob DEF Steady, EndsInOrder
  <2>7. OnceInv'
    BY <1>1, <2>1, <2>4, SameJob DEF Steady, OnceInv, Passed
  <2> QED BY <2>5, <2>6, <2>7
<1> QED BY <1>2, <1>3 DEF Start

LEMMA ReaderInv ==
  ASSUME Steady, NEW i \in DOMAIN reader, StartReader(i) \/ SendMetric(i) \/ EndReader(i)
  PROVE  FlowInv' /\ EndsInOrder' /\ OnceInv'
<1>1. /\ i \in DOMAIN Sources(job) /\ reader[i].sent \in 0..Len(Read(i).rows)
      /\ reader[i] = [pc |-> reader[i].pc, sent |-> reader[i].sent]
      /\ reader = [j \in DOMAIN reader |-> reader[j]] /\ DOMAIN reader \subseteq DOMAIN Sources(job)
      /\ \A j \in DOMAIN reader : reader[j].sent \in 0..Len(Read(j).rows)
      /\ job \in Transcodings
  BY DEF Steady, TranscodeType, ReaderType
<1>2. UNCHANGED <<job, fan, output, writer, sink>>
  BY DEF StartReader, SendMetric, EndReader
<1>3. ASSUME NEW pc, reader' = [reader EXCEPT ![i].pc = pc], UNCHANGED input,
             run' = run \/ run'.pc # "exit"
      PROVE  FlowInv' /\ EndsInOrder' /\ OnceInv'
  <2>1. reader'[i].sent = reader[i].sent
    <3>1. reader'[i] = [reader[i] EXCEPT !.pc = pc]
      BY <1>1, <1>3
    <3>2. reader'[i] = [pc |-> pc, sent |-> reader[i].sent]
      BY ONLY <1>1, <3>1, ReaderFields
    <3> QED BY <3>2
  <2>2. DOMAIN reader' = DOMAIN reader /\ \A j \in DOMAIN reader : j # i => reader'[j] = reader[j]
    BY <1>1, <1>3
  <2>3. run'.pc = "exit" /\ run'.error # TRUE => WaitForWriters
    BY <1>3 DEF Steady, EndsInOrder
  <2> QED BY <1>2, <1>3, <2>1, <2>2, <2>3, StillInv
<1>4. CASE StartReader(i)
  BY <1>3, <1>4 DEF StartReader
<1>5. CASE EndReader(i)
  <2>1. run.pc # "exit" /\ run'.pc = run.pc
    BY <1>5 DEF EndReader, Exited, Steady, TranscodeType
  <2> QED BY <1>3, <1>5, <2>1 DEF EndReader
<1>6. CASE SendMetric(i) /\ input.closed
  BY <1>3, <1>6 DEF SendMetric
<1>7. CASE SendMetric(i) /\ ~input.closed
  <2> PICK k : k = reader[i].sent + 1
    OBVIOUS
  <2> PICK new : new = Id(i, k)
    OBVIOUS
  <2>1. /\ reader[i].sent < Len(Read(i).rows) /\ input.closed # TRUE
        /\ input' = [input EXCEPT !.items = Append(input.items, new)]
        /\ reader' = [reader EXCEPT ![i].sent = k]
        /\ run' = run
    BY <1>7 DEF SendMetric, Id
  <2>2. k \in DOMAIN Read(i).rows /\ k \in Nat /\ new \in Nat
    BY <1>1, <2>1, OfTheJob
  <2>3. reader'[i].sent = k
    <3>1. reader'[i] = [reader[i] EXCEPT !.sent = k]
      BY <1>1, <2>1
    <3>2. reader'[i] = [pc |-> reader[i].pc, sent |-> k]
      BY ONLY <1>1, <3>1, ReaderFields
    <3> QED BY <3>2
  <2>4. DOMAIN reader' = DOMAIN reader /\ \A j \in DOMAIN reader : j # i => reader'[j] = reader[j]
    BY <1>1, <2>1
  <2>5. /\ input'.items = Append(input.items, new) /\ input.items \in Seq(Nat)
        /\ input'.closed = input.closed
    BY <2>1 DEF Steady, TranscodeType, FanType
  <2>6. /\ ToSet(input'.items) = ToSet(input.items) \cup {new}
        /\ Distinct(input.items) /\ new \notin ToSet(input.items) => Distinct(input'.items)
    BY <2>2, <2>5, OfAppend
  <2>7. IsUnsent(new)
    BY <1>1, <2>2 DEF IsUnsent
  <2>8. ASSUME NEW x, IsUnsent(x)' PROVE IsUnsent(x) /\ x # new
    <3>1. PICK j \in DOMAIN Sources(job) : \E l \in DOMAIN Read(j).rows :
            (j \in DOMAIN reader' => l > reader'[j].sent) /\ x = Id(j, l)
      BY <1>2, <2>8, SameJob DEF IsUnsent
    <3>2. PICK l \in DOMAIN Read(j).rows :
            (j \in DOMAIN reader' => l > reader'[j].sent) /\ x = Id(j, l)
      BY <3>1
    <3>3. l \in Nat
      BY <1>1, OfTheJob
    <3>4. j \in DOMAIN reader => l > reader[j].sent
      BY <1>1, <2>2, <2>3, <2>4, <3>2, <3>3
    <3>5. j # i \/ l # k
      BY <2>2, <2>3, <2>4, <3>2, <3>3
    <3>6. x # new
      BY <1>1, <2>2, <3>2, <3>5, OfTheJob
    <3> QED BY <3>2, <3>4, <3>6 DEF IsUnsent
  <2>9. ASSUME NEW x, IsSent(x)' PROVE IsSent(x) \/ x = new
    <3>1. PICK j \in DOMAIN reader : \E l \in 1..reader'[j].sent : x = Id(j, l)
      BY <1>2, <2>4, <2>9, SameJob DEF IsSent
    <3>2. PICK l \in 1..reader'[j].sent : x = Id(j, l)
      BY <3>1
    <3>3. l \in 1..reader[j].sent \/ (j = i /\ l = k)
      BY <1>1, <2>2, <2>3, <2>4
    <3> QED BY <3>2, <3>3 DEF IsSent
  <2>10. FlowInv'
    <3>1. ASSUME NEW x, NEW o \in Output, Carried(x, o) PROVE Carried(x, o)'
      BY <1>2, <2>6, <3>1, SameJob DEF Carried
    <3>2. ASSUME NEW o \in Output PROVE Carried(new, o)'
      BY <2>6 DEF Carried
    <3> QED BY <1>2, <2>9, <3>1, <3>2, SameJob DEF FlowInv, Steady
  <2>11. EndsInOrder'
    BY <1>2, <2>1, <2>5, SameJob DEF EndsInOrder, Steady, WaitForWriters
  <2>12. OnceInv'
    BY <1>2, <2>6, <2>7, <2>8, SameJob DEF OnceInv, Steady, Passed
  <2> QED BY <2>10, <2>11, <2>12
<1> QED BY <1>4, <1>5, <1>6, <1>7

LEMMA ClosingInv ==
  ASSUME Steady, CloseOutputs, UNCHANGED <<job, run, reader, input, writer, sink>>,
         fan.pc = "receive", input.items = <<>>, input.closed = TRUE
  PROVE  FlowInv' /\ EndsInOrder' /\ OnceInv'
<1>1. /\ fan' = [pc |-> "done", item |-> fan.item, to |-> fan.to]
      /\ \A o \in Output : output'[o].closed = TRUE /\ output'[o].items = output[o].items
  BY CloseOutputsEffect DEF Steady
<1>2. fan'.pc = "done"
  BY <1>1
<1>3. ASSUME NEW x, NEW o \in Output, Carried(x, o) PROVE Carried(x, o)'
  BY <1>1, <1>3, SameJob DEF Carried
<1>4. FlowInv'
  BY <1>3, SameJob DEF FlowInv, Steady, IsSent
<1>5. \A w \in WriterIds : w[1] \in Output
  BY OfTheJob DEF Steady, TranscodeType
<1>6. EndsInOrder'
  BY <1>1, <1>2, <1>5, SameJob DEF EndsInOrder, Steady, WaitForWriters
<1>7. OnceInv'
  BY <1>1, <1>2, SameJob DEF OnceInv, Steady, Passed, IsUnsent
<1> QED BY <1>4, <1>6, <1>7

LEMMA TakesInv ==
  ASSUME Steady, Takes, UNCHANGED <<job, run, reader, writer, sink>>, fan.pc = "receive"
  PROVE  FlowInv' /\ EndsInOrder' /\ OnceInv'
<1> PICK item : item = Head(input.items)
  OBVIOUS
<1>1. /\ input.items # <<>> /\ output' = output
      /\ input'.items = Tail(input.items) /\ input'.closed = input.closed
      /\ fan'.pc = "send" /\ fan'.item = item /\ fan'.to = 1
  BY DEF Takes
<1>2. /\ ToSet(input.items) = {item} \cup ToSet(input'.items)
      /\ Distinct(input.items) =>
           Distinct(input'.items) /\ item \notin ToSet(input'.items)
  BY <1>1, OfHeadAndTail DEF Steady, TranscodeType, FanType
<1>3. \A o \in Output : 1 <= o
  BY OfTheJob DEF Steady, TranscodeType
<1>4. ASSUME NEW x, NEW o \in Output, Carried(x, o) PROVE Carried(x, o)'
  BY <1>1, <1>2, <1>3, <1>4, SameJob DEF Carried
<1>5. FlowInv'
  BY <1>4, SameJob DEF FlowInv, Steady, IsSent
<1>6. \A w \in WriterIds : w[1] \in Output
  BY OfTheJob DEF Steady, TranscodeType
<1>7. EndsInOrder'
  BY <1>1, <1>6, SameJob DEF EndsInOrder, Steady, WaitForWriters
<1>8. OnceInv'
  BY <1>1, <1>2, SameJob DEF OnceInv, Steady, Passed, IsUnsent
<1> QED BY <1>5, <1>7, <1>8

LEMMA SendsInv ==
  ASSUME Steady, Sends, UNCHANGED <<job, run, reader, input, writer, sink>>, fan.pc = "send"
  PROVE  FlowInv' /\ EndsInOrder' /\ OnceInv'
<1> PICK item, to : item = fan.item /\ to = fan.to
  OBVIOUS
<1>1. /\ to \in Output /\ item \in Nat /\ output[to].items \in Seq(Nat)
      /\ output'[to].closed = output[to].closed
      /\ output'[to].items = Append(output[to].items, item)
      /\ \A p \in Output : p # to => output'[p] = output[p]
      /\ fan'.item = item
      /\ \/ to = Len(job.outputs) /\ fan'.pc = "receive"
         \/ to + 1 \in Output /\ fan'.pc = "send" /\ fan'.to = to + 1
  <2>1. fan'.item = fan.item
    BY DEF Sends
  <2> QED BY <2>1 DEF Sends, Steady, TranscodeType, OutputType, IsChannel
<1>2. /\ ToSet(output'[to].items) = ToSet(output[to].items) \cup {item}
      /\ Distinct(output[to].items) /\ item \notin ToSet(output[to].items) =>
           Distinct(output'[to].items)
  BY <1>1, OfAppend
<1>3. Output = 1..Len(job.outputs) /\ Len(job.outputs) \in Nat
  BY OfTheJob DEF Steady, TranscodeType
<1>4. \A o \in Output : o # to /\ to <= o => fan'.pc = "send" /\ fan'.to <= o
  BY <1>1, <1>3
<1>5. \A o \in Output : fan'.pc = "send" /\ fan'.to <= o => o # to /\ to <= o
  BY <1>1, <1>3
<1>6. ASSUME NEW x, NEW o \in Output, Carried(x, o) PROVE Carried(x, o)'
  <2>1. CASE fan.pc = "send" /\ fan.item = x /\ fan.to <= o
    BY <1>1, <1>2, <1>4, <2>1 DEF Carried
  <2>2. CASE x \in ToSet(output[o].items)
    BY <1>1, <1>2, <2>2 DEF Carried
  <2> QED BY <1>6, <2>1, <2>2, SameJob DEF Carried
<1>7. FlowInv'
  BY <1>6, SameJob DEF FlowInv, Steady, IsSent
<1>8. \A w \in WriterIds : w[1] \in Output
  BY OfTheJob DEF Steady, TranscodeType
<1>9. EndsInOrder'
  <2>1. \A o \in Output : output[o].closed # TRUE /\ output'[o].closed # TRUE
    BY <1>1 DEF EndsInOrder, Steady
  <2> QED BY <1>1, <1>8, <2>1, SameJob DEF EndsInOrder, Steady, WaitForWriters
<1>10. OnceInv'
  <2>1. \A o \in Output : /\ o # to => Passed(o)' = Passed(o)
                          /\ Passed(to)' = Passed(to) \cup {item}
    BY <1>1, <1>2 DEF Passed
  <2>2. \A x : IsUnsent(x)' <=> IsUnsent(x)
    BY SameJob DEF IsUnsent
  <2>3. ASSUME NEW x, IsUnsent(x)
        PROVE  /\ x \notin ToSet(input'.items) /\ fan'.item # x
               /\ \A o \in Output : IsFile(o) => x \notin Passed(o)'
    BY <1>1, <2>1, <2>3 DEF OnceInv, Steady
  <2>4. ASSUME NEW o \in Output, IsFile(o)
        PROVE  /\ Distinct(output'[o].items)
               /\ ToSet(output'[o].items) \cap sink[o].got = {}
               /\ ToSet(input.items) \cap Passed(o)' = {}
               /\ fan'.pc = "send" /\ fan'.to <= o => item \notin Passed(o)'
               /\ sink[o].twice = {}
    <3>1. CASE o = to
      <4>1. item \notin Passed(o) /\ item \notin ToSet(input.items)
        BY <1>1, <1>3, <2>4, <3>1 DEF OnceInv, Steady
      <4> QED BY <1>2, <1>5, <2>1, <2>4, <3>1, <4>1 DEF OnceInv, Steady, Passed
    <3>2. CASE o # to
      BY <1>1, <1>5, <2>1, <2>4, <3>2 DEF OnceInv, Steady
    <3> QED BY <3>1, <3>2
  <2>5. Distinct(input.items) /\ item \notin ToSet(input.items)
    BY DEF OnceInv, Steady
  <2> QED BY <1>1, <2>2, <2>3, <2>4, <2>5, SameJob DEF OnceInv
<1> QED BY <1>7, <1>9, <1>10

LEMMA FanOutInv ==
  ASSUME Steady, FanOutReceive \/ FanOutSend PROVE FlowInv' /\ EndsInOrder' /\ OnceInv'
  BY ReceiveEffect, SendEffect, ClosingInv, TakesInv, SendsInv DEF Steady

LEMMA WriterInv ==
  ASSUME Steady, NEW w \in WriterIds, WriterMoves(w), run.pc # "exit"
  PROVE  FlowInv' /\ EndsInOrder' /\ OnceInv'
<1> PICK o : o = w[1]
  OBVIOUS
<1>1. /\ Other(w) /\ WriterKeeps(w, o) /\ o \in Output
      /\ IsFile(o) => FileMoves(w, o) /\ writer[w].pc # "flush"
      /\ \A v \in WriterIds : v[1] \in Output
  <2>1. w[1] \in Output /\ \A v \in WriterIds : v[1] \in Output
    BY OfTheJob DEF Steady, TranscodeType
  <2>2. IsFile(o) => writer[w].pc # "flush"
    BY DEF EndsInOrder, Steady
  <2> QED BY <2>1, <2>2 DEF WriterMoves
<1>2. /\ UNCHANGED <<job, run, reader, input, fan>>
      /\ \A v \in WriterIds : v # w => writer'[v] = writer[v]
      /\ \A p \in Output : p # o => sink'[p] = sink[p] /\ output'[p] = output[p]
  BY <1>1 DEF Other
<1>3. ASSUME NEW x, NEW p \in Output, Carried(x, p) PROVE Carried(x, p)'
  <2>1. CASE p # o
    <3>1. ASSUME NEW v \in WriterIds, v[1] = p PROVE writer'[v] = writer[v]
      BY <1>2, <2>1, <3>1
    <3> QED BY <1>2, <1>3, <2>1, <3>1, SameJob DEF Carried
  <2>2. CASE p = o
    <3>1. CASE x \in ToSet(output[o].items) \/ x \in ToSet(writer[w].batch)
      BY <1>1, <1>2, <2>2, <3>1, SameJob DEF Carried, WriterKeeps
    <3>2. CASE \E v \in WriterIds : v # w /\ v[1] = o /\ x \in ToSet(writer[v].batch)
      BY <1>2, <2>2, <3>2, SameJob DEF Carried
    <3>3. CASE x \in sink[o].got \/ sink[o].lost = TRUE
      BY <1>1, <2>2, <3>3 DEF Carried, WriterKeeps
    <3>4. CASE x \in ToSet(input.items) \/ (fan.pc = "send" /\ fan.item = x /\ fan.to <= p)
      BY <1>2, <3>4 DEF Carried
    <3> QED BY <1>3, <2>2, <3>1, <3>2, <3>3, <3>4 DEF Carried
  <2> QED BY <2>1, <2>2
<1>4. FlowInv'
  BY <1>2, <1>3, SameJob DEF FlowInv, Steady, IsSent
<1>5. EndsInOrder'
  <2>1. /\ fan'.pc = "done" => input'.items = <<>> /\ input'.closed = TRUE
        /\ \A p \in Output : output'[p].closed = TRUE => fan'.pc = "done"
        /\ run'.pc # "exit"
    BY <1>1, <1>2 DEF EndsInOrder, Steady, WriterKeeps
  <2>2. ASSUME NEW p \in Output, output[p].closed = TRUE, output[p].items = <<>>
        PROVE  output'[p].closed = TRUE /\ output'[p].items = <<>>
    BY <1>1, <1>2, <2>2 DEF WriterKeeps
  <2>3. ASSUME NEW p \in Output
        PROVE  /\ sink[p].lost = TRUE => sink'[p].lost = TRUE
               /\ sink[p].complete = TRUE => sink'[p].complete = TRUE
    BY <1>1, <1>2 DEF WriterKeeps
  <2>4. ASSUME NEW v \in WriterIds
        PROVE  /\ writer'[v].closing = TRUE \/ writer'[v].pc = "done" =>
                    output'[v[1]].closed = TRUE /\ output'[v[1]].items = <<>>
               /\ writer'[v].pc = "done" /\ writer'[v].batch # <<>> => sink'[v[1]].lost = TRUE
               /\ IsFile(v[1]) =>
                    /\ writer'[v].batch = <<>> /\ writer'[v].pc # "flush"
                    /\ writer'[v].pc = "done" =>
                         sink'[v[1]].complete = TRUE \/ sink'[v[1]].lost = TRUE
    <3>1. CASE v # w
      BY <1>1, <1>2, <2>2, <2>3, <3>1 DEF EndsInOrder, Steady
    <3>2. CASE v = w
      <4>1. writer'[w].closing = TRUE \/ writer'[w].pc = "done" =>
              output[o].closed = TRUE /\ output[o].items = <<>>
        BY <1>1 DEF EndsInOrder, Steady, WriterKeeps
      <4>2. IsFile(o) => writer[w].batch = <<>>
        BY DEF EndsInOrder, Steady
      <4> QED BY <1>1, <2>2, <3>2, <4>1, <4>2 DEF WriterKeeps, FileMoves
    <3> QED BY <3>1, <3>2
  <2> QED BY <1>2, <2>1, <2>4, SameJob DEF EndsInOrder
<1>6. OnceInv'
  <2>1. ASSUME NEW p \in Output, IsFile(p)
        PROVE  /\ Distinct(output'[p].items) /\ Passed(p)' \subseteq Passed(p)
               /\ ToSet(output'[p].items) \cap sink'[p].got = {}
               /\ sink'[p].twice = {}
    <3>1. CASE p # o
      BY <1>2, <2>1, <3>1 DEF OnceInv, Steady, Passed
    <3>2. CASE p = o /\ output[o].items # <<>> /\ output'[o].items = Tail(output[o].items)
      <4> PICK head : head = Head(output[o].items)
        OBVIOUS
      <4>1. /\ ToSet(output[o].items) = {head} \cup ToSet(output'[o].items)
            /\ Distinct(output[o].items) =>
                 Distinct(output'[o].items) /\ head \notin ToSet(output'[o].items)
        BY <1>1, <3>2, OfHeadAndTail DEF Steady, TranscodeType, OutputType, IsChannel
      <4>2. /\ Distinct(output[o].items) /\ ToSet(output[o].items) \cap sink[o].got = {}
            /\ sink[o].twice = {}
        BY <1>1, <2>1, <3>2 DEF OnceInv, Steady
      <4>3. /\ sink'[o].got \subseteq sink[o].got \cup {head}
            /\ sink'[o].twice \subseteq sink[o].twice \cup ({head} \cap sink[o].got)
        BY <1>1, <2>1, <3>2 DEF FileMoves
      <4> QED BY <3>2, <4>1, <4>2, <4>3 DEF Passed
    <3>3. CASE /\ p = o /\ output'[o].items = output[o].items
               /\ sink'[o].got = sink[o].got /\ sink'[o].twice = sink[o].twice
      BY <2>1, <3>3 DEF OnceInv, Steady, Passed
    <3> QED BY <1>1, <2>1, <3>1, <3>2, <3>3 DEF FileMoves
  <2>2. \A x : IsUnsent(x)' <=> IsUnsent(x)
    BY <1>2, SameJob DEF IsUnsent
  <2> QED BY <1>2, <2>1, <2>2, SameJob DEF OnceInv, Steady
<1> QED BY <1>4, <1>5, <1>6

-----------------------------------------------------------------------------
(* The regurgitator: the invariant *)

LEMMA RegurgitatorStarts ==
  ASSUME NEW at \in {"start", "off"}, NEW transcodings \in SUBSET Transcodings,
         RegurgitatorStart(at, transcodings)
  PROVE  TranscodeInv
<1>1. /\ job \in Transcodings /\ run = [pc |-> at, error |-> FALSE] /\ signal = "none"
      /\ reader = <<>> /\ input = [items |-> <<>>, closed |-> FALSE]
      /\ fan = [pc |-> "off", item |-> 0, to |-> 1]
      /\ output = [o \in Output |-> [items |-> <<>>, closed |-> FALSE]]
      /\ writer = [w \in WriterIds |->
                     [pc |-> "off", batch |-> <<>>, attempt |-> 0, closing |-> FALSE]]
      /\ sink = [o \in Output |-> [got |-> {}, twice |-> {}, lost |-> FALSE, complete |-> FALSE]]
  BY DEF RegurgitatorStart, EmptyChannel, Output
<1>2. DOMAIN reader = {}
  BY <1>1
<1>3. ReaderType
  BY <1>1, <1>2 DEF ReaderType
<1>4. FanType
  BY <1>1 DEF FanType
<1>5. /\ \A o \in Output : IsChannel(output[o]) /\ IsSink(sink[o])
      /\ \A w \in WriterIds : IsWriter(writer[w])
  <2>1. ASSUME NEW o \in Output PROVE IsChannel(output[o]) /\ IsSink(sink[o])
    <3>1. output[o] = [items |-> <<>>, closed |-> FALSE]
      BY <1>1
    <3>2. sink[o] = [got |-> {}, twice |-> {}, lost |-> FALSE, complete |-> FALSE]
      BY <1>1
    <3> QED BY ONLY <3>1, <3>2 DEF IsChannel, IsSink
  <2>2. ASSUME NEW w \in WriterIds PROVE IsWriter(writer[w])
    <3>1. writer[w] = [pc |-> "off", batch |-> <<>>, attempt |-> 0, closing |-> FALSE]
      BY <1>1
    <3> QED BY ONLY <3>1 DEF IsWriter
  <2> QED BY <2>1, <2>2
<1>6. OutputType
  BY <1>1, <1>5 DEF OutputType
<1>7. TranscodeType
  BY <1>1, <1>3, <1>4, <1>6 DEF TranscodeType
<1>8. FlowInv
  BY <1>2 DEF FlowInv, IsSent
<1>9. \A w \in WriterIds : w[1] \in Output
  BY <1>1, OfTheJob
<1>10. EndsInOrder
  BY <1>1, <1>9 DEF EndsInOrder
<1>11. OnceInv
  BY <1>1, OfNothing DEF OnceInv, Passed
<1> QED BY <1>7, <1>8, <1>10, <1>11 DEF TranscodeInv

LEMMA RegurgitatorStays ==
  ASSUME TranscodeInv, UNCHANGED regurgitatorVars PROVE TranscodeInv'
<1>1. UNCHANGED <<job, run, signal, reader, input, fan, output, writer, sink>>
  BY DEF regurgitatorVars
<1>2. TranscodeType'
  BY <1>1, TypeWhenStill DEF TranscodeInv, TranscodeType
<1>3. ASSUME ~Forced' PROVE FlowInv' /\ EndsInOrder' /\ OnceInv'
  <2>1. Steady
    BY <1>1, <1>3 DEF TranscodeInv, Steady, Forced
  <2> QED BY <1>1, <2>1, StillInv DEF Steady, EndsInOrder
<1> QED BY <1>2, <1>3 DEF TranscodeInv

LEMMA RegurgitatorKeepsTypes ==
  ASSUME TranscodeType, RegurgitatorStep PROVE TranscodeType'
<1>1. ASSUME NEW w \in WriterIds, WriteOne(w) \/ flush(w) \/ Close(w) PROVE TranscodeType'
  BY <1>1, WriteOneMoves, FlushMoves, CloseMoves, WriterType
<1> QED BY <1>1, StartType, ReaderStepType, MainStepType, FanOutType
       DEF RegurgitatorStep, RegurgitatorProgress

LEMMA RegurgitatorKeeps ==
  ASSUME TranscodeInv, RegurgitatorStep PROVE TranscodeInv'
<1>1. TranscodeType'
  BY RegurgitatorKeepsTypes DEF TranscodeInv
<1>2. ASSUME ~Forced' PROVE FlowInv' /\ EndsInOrder' /\ OnceInv'
  <2>1. ~ForceShutdown
    BY <1>2 DEF ForceShutdown, Forced
  <2>2. Steady
    <3>1. signal' = signal \/ Signal
      BY <2>1 DEF RegurgitatorStep, RegurgitatorProgress, Start, StartFileReaders,
                  StartHTTPServer, ReadersReturn, Return, StartReader, SendMetric, EndReader,
                  PanicReader, FanOutReceive, FanOutSend, WriteOne, flush, Close
    <3>2. ~Forced
      BY <1>2, <3>1 DEF Signal, Forced
    <3> QED BY <3>2 DEF TranscodeInv, Steady
  <2>3. ASSUME NEW w \in WriterIds, WriteOne(w) \/ flush(w) \/ Close(w)
        PROVE  FlowInv' /\ EndsInOrder' /\ OnceInv'
    <3>1. WriterMoves(w)
      BY <2>2, <2>3, WriteOneMoves, FlushMoves, CloseMoves DEF Steady
    <3>2. run.pc # "exit"
      BY <2>3 DEF WriteOne, flush, Close, Exited
    <3> QED BY <2>2, <3>1, <3>2, WriterInv
  <2> QED BY <2>1, <2>2, <2>3, StartInv, MainInv, ReaderInv, FanOutInv
         DEF RegurgitatorStep, RegurgitatorProgress
<1> QED BY <1>1, <1>2 DEF TranscodeInv

(* Nothing is lost between the readers and the outputs, and a file gets    *)
(* nothing twice, for any number of files, outputs and writers, sizes of   *)
(* the channels and of the batches, and writes that fail (functions/       *)
(* regurgitator/main.go: startFileReaders, startHTTPServer, FanOut, and    *)
(* WriteOne, flush and Close of the writers).  Nothing is said of a run    *)
(* that was forced to stop, or of an output whose own write failed.        *)
THEOREM TranscodingsAreComplete == JobsSpec => []Transcoded
<1>1. JobsInit => TranscodeInv
  <2> SUFFICES ASSUME JobsInit PROVE TranscodeInv
    OBVIOUS
  <2>1. {CHOOSE t \in Transcodings : TRUE} \in SUBSET Transcodings
    BY TranscodingsAssumption
  <2>2. CASE RegurgitatorInit
    BY <2>2, RegurgitatorStarts DEF RegurgitatorInit
  <2>3. CASE RegurgitatorOff
    BY <2>1, <2>3, RegurgitatorStarts DEF RegurgitatorOff
  <2> QED BY <2>2, <2>3 DEF JobsInit
<1>2. TranscodeInv /\ [JobsNext]_jobsVars => TranscodeInv'
  <2> SUFFICES ASSUME TranscodeInv, [JobsNext]_jobsVars PROVE TranscodeInv'
    OBVIOUS
  <2>1. CASE UNCHANGED regurgitatorVars
    BY <2>1, RegurgitatorStays
  <2>2. CASE RegurgitatorStep
    BY <2>2, RegurgitatorKeeps
  <2> QED BY <2>1, <2>2
             DEF JobsNext, jobsVars, Programs, Diagnoses, Regurgitates, Certifies
<1>3. TranscodeInv => Transcoded
  <2> SUFFICES ASSUME TranscodeInv, Exited, ~run.error, ~Forced,
                      NEW o \in DOMAIN sink, ~sink[o].lost
               PROVE  /\ Accepted \subseteq sink[o].got
                      /\ ~isRemoteWriteURL(job.outputs[o]) =>
                           sink[o].twice = {} /\ sink[o].complete
    BY DEF Transcoded
  <2>1. TranscodeType /\ FlowInv /\ EndsInOrder /\ OnceInv
    BY DEF TranscodeInv
  <2>2. o \in Output /\ sink[o].lost # TRUE /\ <<o, 1>> \in WriterIds
    BY <2>1, OfTheJob DEF TranscodeType, OutputType
  <2>3. fan.pc = "done" /\ \A w \in WriterIds : writer[w].pc = "done"
    BY <2>1 DEF EndsInOrder, Exited, WaitForWriters
  <2>4. ToSet(input.items) = {} /\ ToSet(output[o].items) = {}
    <3>1. <<o, 1>>[1] = o
      OBVIOUS
    <3>2. input.items = <<>> /\ output[o].items = <<>>
      BY <2>1, <2>2, <2>3, <3>1 DEF EndsInOrder
    <3> QED BY <3>2, OfNothing
  <2>5. \A w \in WriterIds : w[1] = o => ToSet(writer[w].batch) = {}
    <3>1. \A w \in WriterIds : w[1] = o => writer[w].batch = <<>>
      BY <2>1, <2>2, <2>3 DEF EndsInOrder
    <3> QED BY <3>1, OfNothing
  <2>6. ASSUME NEW x \in Accepted PROVE x \in sink[o].got
    <3>1. IsSent(x)
      BY <2>6 DEF Accepted, IsSent, Id
    <3>2. Carried(x, o)
      BY <2>1, <2>2, <3>1 DEF FlowInv
    <3> QED BY <2>2, <2>3, <2>4, <2>5, <3>2 DEF Carried
  <2>7. ASSUME ~isRemoteWriteURL(job.outputs[o]) PROVE sink[o].twice = {} /\ sink[o].complete
    <3>1. IsFile(o)
      BY <2>7 DEF IsFile
    <3>2. sink[o].twice = {}
      BY <2>1, <2>2, <3>1 DEF OnceInv
    <3>3. <<o, 1>>[1] = o
      OBVIOUS
    <3>4. sink[o].complete = TRUE
      BY <2>1, <2>2, <2>3, <3>1, <3>3 DEF EndsInOrder
    <3> QED BY <3>2, <3>4
  <2> QED BY <2>6, <2>7
<1> QED BY <1>1, <1>2, <1>3, PTL DEF JobsSpec
=============================================================================
