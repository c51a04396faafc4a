----------------------------- MODULE Certificates -----------------------------
(***************************************************************************)
(* The certificate job (src/app/functions/certifik8s, src/app/domain/      *)
(* certificate and its client src/app/domain/k8s/certificate_client.go):   *)
(* it generates a key, a CA certificate and a server certificate, patches  *)
(* the TLS secret and then the CA bundle of the first webhook of the       *)
(* webhook configuration.  A job that fails is started again, and nothing  *)
(* keeps two from running at the same time.                                *)
(***************************************************************************)
EXTENDS Naturals

CONSTANTS
  None,            \* no certificate
  Generation,      \* the runs of the job
  Flags(_),        \* the flags of a run
  MaxPatchFaults   \* bound: requests to the API server that fail

ASSUME CertificatesAssumption == MaxPatchFaults \in Nat /\ None \notin Generation

VARIABLES
  secret,       \* the data of the TLS secret
  webhooks,     \* the CA bundle of the first webhook, if there is one
  generation,   \* where each run is, and whether it has run alone
  latest,       \* history: the run that was started last
  patchFaults

certificateVars == <<secret, webhooks, generation, latest, patchFaults>>

NoCertificate == [caBundle |-> None, tlsCrt |-> None, tlsKey |-> None]

CertificatesStart(at, any) ==
  /\ secret = NoCertificate
  /\ webhooks \in [any : any, caBundle : {None}]
  /\ generation = [g \in Generation |-> [pc |-> at, alone |-> TRUE]]
  /\ latest = {}
  /\ patchFaults = 0

CertificatesInit == CertificatesStart("new", BOOLEAN)
CertificatesOff == CertificatesStart("off", {FALSE})

(* Mutant of CertificateData: a CA that is already there is kept, although  *)
(* its key is gone and the new certificate is signed by a new one.         *)
MutCertificateData(g) ==
  [caBundle |-> IF secret.caBundle = None THEN g ELSE secret.caBundle,
   tlsCrt |-> g, tlsKey |-> g]

(* The certificate and the key of a run; a CA of one run does not verify   *)
(* the certificate of another.                                             *)
CertificateData(g) == [caBundle |-> g, tlsCrt |-> g, tlsKey |-> g]

(* RSA needs 2048 bits, ECDSA one of three curves, Ed25519 takes no size.  *)
KeySizeValid(algorithm, size) ==
  CASE algorithm = "RSA" -> size >= 2048
    [] algorithm = "ECDSA" -> size \in {256, 384, 521}
    [] algorithm = "Ed25519" -> size = 0
    [] OTHER -> FALSE

GenerateCertificate(f) ==
  f.service # "" /\ f.namespace # "" /\ f.validity > 0 /\ KeySizeValid(f.algorithm, f.keySize)

Running(g) == generation[g].pc \notin {"new", "off", "succeeded", "failed"}

At(g, pc) == generation' = [generation EXCEPT ![g].pc = pc]

(* The flags are checked and the certificate is generated before anything  *)
(* is written.                                                             *)
Generate(g) ==
  /\ generation[g].pc = "new"
  /\ latest' = {g}
  /\ generation' = [h \in Generation |->
       IF h = g THEN [pc |-> IF GenerateCertificate(Flags(g)) THEN "secret" ELSE "failed",
                      alone |-> \A o \in Generation : ~Running(o)]
       ELSE [generation[h] EXCEPT !.alone = @ /\ ~Running(h)]]
  /\ UNCHANGED <<secret, webhooks, patchFaults>>

PatchFault == patchFaults < MaxPatchFaults /\ patchFaults' = patchFaults + 1

(* One patch replaces the three entries; the error of a request that was   *)
(* carried out ends the run as well.                                       *)
PatchSecret(g) ==
  /\ generation[g].pc = "secret"
  /\ \/ secret' = CertificateData(g) /\ At(g, "bundle") /\ UNCHANGED patchFaults
     \/ secret' \in {secret, CertificateData(g)} /\ At(g, "failed") /\ PatchFault
  /\ UNCHANGED <<webhooks, latest>>

(* "replace" of the bundle of webhook 0 fails when there is none. *)
PatchWebhookConfiguration(g) ==
  /\ generation[g].pc = "bundle"
  /\ LET patched == IF webhooks.any
                    THEN [webhooks EXCEPT !.caBundle = CertificateData(g).caBundle] ELSE webhooks
     IN  \/ /\ webhooks' = patched
            /\ At(g, IF webhooks.any THEN "succeeded" ELSE "failed")
            /\ UNCHANGED patchFaults
         \/ webhooks' \in {webhooks, patched} /\ At(g, "failed") /\ PatchFault
  /\ UNCHANGED <<secret, latest>>

CertificatesProgress ==
  \E g \in Generation : PatchSecret(g) \/ PatchWebhookConfiguration(g)

CertificatesEnded == \A g \in Generation : ~Running(g)

CertificatesStep == CertificatesProgress \/ \E g \in Generation : Generate(g)

(* What the command "validate" looks at: the entries exist. *)
ValidateExistingCertificate ==
  \A field \in DOMAIN NoCertificate : secret[field] # NoCertificate[field]

-----------------------------------------------------------------------------
(* Properties *)

(* The API server trusts the server's certificate once the job is through: *)
(* although the secret and the bundle are patched one after the other and  *)
(* earlier runs may have failed or been repeated between the two, when the *)
(* run that was started last succeeded and did not overlap with another,   *)
(* the certificate, its key and both copies of the CA belong together.     *)
BundleMatches ==
  \A g \in latest :
    generation[g].pc = "succeeded" /\ generation[g].alone =>
      /\ ValidateExistingCertificate
      /\ secret.tlsKey = secret.tlsCrt /\ secret.caBundle = secret.tlsCrt
      /\ webhooks.caBundle = secret.caBundle
=============================================================================
