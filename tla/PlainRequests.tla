--------------------------- MODULE PlainRequests ---------------------------
(***************************************************************************)
(* Requests that leave no doubt how they want their services routed: what  *)
(* the theorem about ServedAsAsked assumes of the requests.  The labels of *)
(* routes, and the fields that override them, are plain text; a template   *)
(* variable is the whole of such a label, or is bound to it by its path,   *)
(* one variable to a label, and has a value.  A Playspec that is not       *)
(* stored by a launch keeps its variables and is deployed without values   *)
(* for them, so its variables may not decide a route.                      *)
(***************************************************************************)
EXTENDS Resources

Routing == {"port", "subdomain", "visibility"}

IsScalar(v) == {"text", "token", "kind"} \subseteq DOMAIN v

IsPlain(v) == IsScalar(v) /\ v.token = NoToken

PlainLabels(labels) == \A k \in DOMAIN labels \cap Routing : IsPlain(labels[k])

ServiceFields ==
  {"image", "build", "envFile", "labels", "env", "ports", "command", "volumes"}

PlainService(s) == DOMAIN s = ServiceFields /\ PlainLabels(s.labels)

DocFields == {"services", "variables", "declared"}

(***************************************************************************)
(* A document whose routes do not depend on its variables.                 *)
(***************************************************************************)
Literal(d) ==
  /\ DocFields \subseteq DOMAIN d
  /\ \A n \in DOMAIN d.services : PlainService(d.services[n])
  /\ \A x \in DOMAIN d.variables, n \in DOMAIN d.services, k \in Routing :
       <<n, k>> \notin d.variables[x].path

PlainOverride(o) ==
  /\ \A k \in DOMAIN o \cap {"subdomain", "exposure_visibility", "exposure_port", "auth_password"} :
       IsPlain(o[k])
  /\ "exposure" \in DOMAIN o => \A k \in DOMAIN o.exposure \cap Routing : IsPlain(o.exposure[k])

PlainOverrides(overrides) == \A n \in DOMAIN overrides : PlainOverride(overrides[n])

(***************************************************************************)
(* A launch request whose variables decide routes, and are given a value.  *)
(***************************************************************************)
Binders(d, n, k) == {x \in DOMAIN d.variables : <<n, k>> \in d.variables[x].path}

Settled(q, x) ==
  IF x \in DOMAIN q.variables /\ ~IsBlank(q.variables[x]) THEN IsPlain(q.variables[x])
  ELSE IsPlain(q.doc.variables[x].default) /\ ~IsBlank(q.doc.variables[x].default)

SettledLabel(q, v) ==
  /\ IsScalar(v)
  /\ \/ v.token = NoToken
     \/ v.token \in DOMAIN q.doc.variables /\ v.text = "" /\ Settled(q, v.token)

SettledService(q, n) ==
  LET s == q.doc.services[n]
  IN  /\ DOMAIN s = ServiceFields
      /\ \A k \in Routing \cap DOMAIN s.labels : SettledLabel(q, s.labels[k])
      /\ \A k \in Routing : \A x, y \in Binders(q.doc, n, k) : x = y /\ Settled(q, x)

SettledVariables(d) ==
  /\ DOMAIN d.variables # {} => d.declared
  /\ DOMAIN d.variables \cap ({NoToken, RootDomain} \cup EnvNames) = {}
  /\ \A x \in DOMAIN d.variables : \A p \in d.variables[x].path :
       p = <<p[1], p[2]>> /\ p[2] # "basicauth.users"

SettledDoc(q) ==
  /\ DocFields \subseteq DOMAIN q.doc
  /\ SettledVariables(q.doc)
  /\ \A n \in DOMAIN q.doc.services : SettledService(q, n)

SettledLaunch(q) ==
  /\ SettledDoc(q)
  /\ \A n \in DOMAIN q.subdomains : IsPlain(q.subdomains[n])
  /\ PlainOverrides(q.services)

-----------------------------------------------------------------------------
PlainRequest(q) ==
  /\ q.kind = "launch" => SettledLaunch(q) /\ NoToken \notin DOMAIN q.env
  /\ q.kind = "create_playground" => PlainOverrides(q.services) /\ NoToken \notin DOMAIN q.env
  /\ q.kind = "create_playspec" => Literal(q.doc) /\ PlainOverrides(q.metadata)
  /\ q.kind = "update_playspec" =>
       (q.doc # None => Literal(q.doc)) /\ PlainOverrides(q.metadata)

PlainRequestsOnly == \A q \in Requests : PlainRequest(q)
=============================================================================
