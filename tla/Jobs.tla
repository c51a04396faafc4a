--------------------------------- MODULE Jobs ---------------------------------
(***************************************************************************)
(* The programs of the agent that run once and end: the configuration that *)
(* every server settles when it starts, the cluster-configuration loader   *)
(* and the scout command (module ClusterConfig on Scout), the validator    *)
(* (module Diagnose, whose deployment settings come from the same Scout),  *)
(* the regurgitator (module Regurgitator) and the certificate job (module  *)
(* Certificates).  They share no state beyond that: a behaviour follows    *)
(* one of them.                                                            *)
(***************************************************************************)
EXTENDS ClusterConfig, Diagnose, Regurgitator, Certificates

CONSTANTS ValidatorClouds, ValidatorGivens   \* where the validator runs

ASSUME JobsAssumption == ValidatorClouds \subseteq Clouds

jobsVars == <<scoutVars, loaderVars, diagnoseVars, regurgitatorVars, certificateVars>>

JobsInit ==
  \/ ScoutInit /\ LoaderInit /\ DiagnoseOff /\ RegurgitatorOff /\ CertificatesOff
  \/ /\ ScoutStart("detect", ValidatorClouds, ValidatorGivens) /\ LoaderOff
     /\ DiagnoseInit /\ RegurgitatorOff /\ CertificatesOff
  \/ ScoutOff /\ LoaderOff /\ DiagnoseOff /\ RegurgitatorInit /\ CertificatesOff
  \/ ScoutOff /\ LoaderOff /\ DiagnoseOff /\ RegurgitatorOff /\ CertificatesInit

(* Deployment.Validate of the validator's settings. *)
ValidatorDetects ==
  /\ phase = "settings"
  /\ DetectConfiguration
  /\ UNCHANGED loaderVars

(* The validator comes to its deployment after the files and the logging.  *)
Programs ==
  /\ phase = "off" \/ (phase = "settings" /\ NewSettings /\ LoggingValid)
  /\ ProgramStep \/ ValidatorDetects
  /\ UNCHANGED <<diagnoseVars, regurgitatorVars, certificateVars>>
Diagnoses(step) ==
  step /\ UNCHANGED <<scoutVars, loaderVars, regurgitatorVars, certificateVars>>
Regurgitates(step) ==
  step /\ UNCHANGED <<scoutVars, loaderVars, diagnoseVars, certificateVars>>
Certifies(step) ==
  step /\ UNCHANGED <<scoutVars, loaderVars, diagnoseVars, regurgitatorVars>>

JobsNext ==
  \/ Programs
  \/ Diagnoses(DiagnoseStep(settings.state))
  \/ Regurgitates(RegurgitatorStep)
  \/ Certifies(CertificatesStep)

(* The schedulers of the processes: every program takes its next step,     *)
(* but nobody need send a signal or start a job.                           *)
JobsFairness ==
  /\ WF_jobsVars(Programs)
  /\ WF_jobsVars(Diagnoses(DiagnoseProgress(settings.state)))
  /\ WF_jobsVars(Regurgitates(RegurgitatorProgress))
  /\ WF_jobsVars(Certifies(CertificatesProgress))

JobsSpec == JobsInit /\ [][JobsNext]_jobsVars /\ JobsFairness

-----------------------------------------------------------------------------
(* Every program ends although its requests, checks, writes and patches    *)
(* fail and are repeated and its goroutines wait for each other's          *)
(* channels.  Of being told to stop this holds for the validator, the      *)
(* certificate job and the regurgitator's server; the regurgitator reading *)
(* files ends, also when forced to, except in two ways, and then it hangs  *)
(* for good: a CSV file whose reads keep failing is read for ever          *)
(* (csv_reader.go:79-86), and a forced shutdown ends FanOut while a reader *)
(* still has more to send than its channel holds, although main.go:264     *)
(* cancels the context "to force exit" and main.go:557-560 expects the     *)
(* readers to "finish quickly".                                            *)
JobsEnd ==
  <>[](/\ ProgramEnded /\ DiagnoseEnded /\ CertificatesEnded
       /\ RegurgitatorEnded \/ RegurgitatorHangs)
=============================================================================
