----------------------------- MODULE ClusterConfig -----------------------------
(***************************************************************************)
(* The cluster-configuration loader (src/app/functions/cluster-config) and *)
(* the scout command (src/app/functions/scout), on top of EnvironmentInfo  *)
(* of module Scout.  The loader collects what it can, notes an error for   *)
(* what it cannot, and posts both; it succeeds whatever happens.           *)
(***************************************************************************)
EXTENDS Scout, FiniteSets

CONSTANT Surroundings   \* what the loader finds around it

VARIABLES
  program,   \* "configuration", "load", "info" or "detect", and how it ended
  around,    \* the surroundings
  loaded     \* the cluster configuration and whether it has been posted

loaderVars == <<program, around, loaded>>

NoClusterConfig ==
  [account |-> "", region |-> "", cluster |-> "", provider |-> "", errors |-> {}]

(* Only the loader looks around. *)
NoSurroundings == [sources |-> <<>>, host |-> FALSE, apiKey |-> FALSE]

LoaderStart(programs, surroundings) ==
  /\ program \in [name : programs, ended : {"no"}]
  /\ around \in (IF program.name = "load" THEN surroundings ELSE {NoSurroundings})
  /\ loaded = [config |-> NoClusterConfig, posted |-> FALSE]

LoaderInit == LoaderStart({"configuration", "load", "info", "detect"}, Surroundings)
LoaderOff == LoaderStart({"off"}, Surroundings)

EndProgram(how) == program' = [program EXCEPT !.ended = how]

Scouted == info.pc = "done" /\ program.ended = "no"

(* The values given win, the detected ones fill in: the opposite of        *)
(* DetectConfiguration.                                                    *)
FilledIn(detected, own) == IF own # "" THEN own ELSE detected

(* Each source that fails leaves its name among the errors. *)
Missing == {source \in DOMAIN around.sources : ~around.sources[source]}

ClusterConfig ==
  IF env.error
  THEN [NoClusterConfig EXCEPT
         !.account = given.account, !.region = given.region, !.cluster = given.cluster,
         !.errors = Missing \cup {"scout"}]
  ELSE [account |-> FilledIn(env.info.account, given.account),
        region |-> FilledIn(env.info.region, given.region),
        cluster |-> FilledIn(env.info.cluster, given.cluster),
        provider |-> env.info.provider,
        errors |-> Missing]

(* The settings of the aggregator hold host and key; when they could not   *)
(* be loaded there is nothing to take them from: a panic.  The answer of   *)
(* the API is only logged.                                                 *)
RunLoader ==
  /\ program.name = "load" /\ Scouted
  /\ IF "aggregator" \in Missing
     THEN EndProgram("panic") /\ loaded' = [config |-> ClusterConfig, posted |-> FALSE]
     ELSE /\ EndProgram("succeeded")
          /\ \E posted \in BOOLEAN :
               /\ posted => around.host /\ around.apiKey
               /\ loaded' = [config |-> ClusterConfig, posted |-> posted]
  /\ UNCHANGED <<around, scoutVars>>

(* runScout fails with the detection, runDetect never does. *)
RunScout ==
  /\ program.name \in {"info", "detect"} /\ Scouted
  /\ EndProgram(IF program.name = "info" /\ env.error THEN "failed" ELSE "succeeded")
  /\ UNCHANGED <<around, loaded, scoutVars>>

(* The settings of the webhook, the collector and the shipper. *)
RunSettings ==
  /\ program.name = "configuration" /\ program.ended = "no"
  /\ DetectConfiguration
  /\ EndProgram(settings'.state)
  /\ UNCHANGED <<around, loaded>>

ProgramEnded == program.name = "off" \/ program.ended # "no"

ProgramStep ==
  \/ ScoutStep /\ UNCHANGED loaderVars
  \/ RunLoader \/ RunScout \/ RunSettings
=============================================================================
