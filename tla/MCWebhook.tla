------------------------------ MODULE MCWebhook ------------------------------
(***************************************************************************)
(* TLC instance of WebhookMain.  The server: a pod that is created and     *)
(* updated, a namespace that is deleted; the update and the deletion may   *)
(* instead be requests that write nothing.  The backfill: two nodes and    *)
(* two namespaces on two pages each, and two pages of pods in one of the   *)
(* namespaces.  Three TLS handshakes and two versions of the certificate.  *)
(***************************************************************************)
EXTENDS WebhookMain

CONSTANTS create, update, remove, h1, h2, h3

MCLabelFilter == [enabled |-> TRUE, resources |-> {"pods", "namespaces", "nodes"}, patterns |-> {"team"}]
MCAnnotationFilter == [enabled |-> FALSE, resources |-> {}, patterns |-> {}]

MCRequest == {create, update, remove}

Tag(key, clean, val) == [key |-> key, clean |-> clean, val |-> val]

Object(name, ns, val) ==
  [name |-> name, namespace |-> ns, annotations |-> {},
   labels |-> {Tag("team", TRUE, val), Tag("app", TRUE, val), Tag("team", FALSE, val)}]

Body(kind, uid, operation, gvk, old, new) ==
  [kind |-> kind,
   review |-> [uid |-> uid, operation |-> operation, gvk |-> gvk, requestKind |-> {},
               oldObject |-> old, object |-> new]]

Json(proto, body) == [content |-> "application/json", proto |-> proto, body |-> body]

pod == Gvk("", "v1", "pod")
MCHttp(q) ==
  CASE q = create -> {Json(1, Body("v1", "1", "CREATE", pod, {}, {Object("p", "a", 1)}))}
    [] q = update -> {Json(2, Body("v1", "2", "UPDATE", pod, {}, {Object("p", "a", 2)})),
                      Json(2, Body("v1", "2", "CREATE", namespace, {}, {Object("a", "a", 2)})),
                      Json(2, Body("v1", "2", "UPDATE", Gvk("apps", "v1", "replicaset"),
                                   {}, {Object("r", "a", 1)}))}
    [] q = remove -> {Json(2, Body("v1beta1", "3", "DELETE", namespace,
                                   {Object("a", "a", 1)}, {})),
                      Json(2, Body("v1", "3", "CREATE", Gvk("", "v1", "secret"),
                                   {}, {Object("s", "a", 1)})),
                      Json(2, [kind |-> "garbage"])}

MCSize(row) == 1

MCHandshake == {h1, h2, h3}

MCNodePages == <<<<Object("n1", "", 1)>>, <<Object("n2", "", 1)>>>>
MCNamespacePages == <<<<Object("a", "", 1)>>, <<Object("b", "", 1)>>>>
MCResourcePages(gvk, ns) ==
  IF gvk = pod /\ ns = "a" THEN <<<<Object("p1", "a", 1)>>, <<Object("p2", "a", 1)>>>>
  ELSE <<>>
=============================================================================
