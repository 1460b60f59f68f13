-------------------------- MODULE ComposeDocuments --------------------------
(***************************************************************************)
(* What fibe-distilled does to a Compose document, as operators: template  *)
(* variables, service overrides, Playspec service metadata, validation of  *)
(* the fibe.gg labels, and the runtime document a deployment writes.  The  *)
(* module has no state; Resources stores and deploys what it computes.     *)
(*                                                                         *)
(* A document is [services, variables, declared, extensions]: a function   *)
(* from service names to services, the variable declarations, whether the  *)
(* variables block is there, and whether x-fibe.gg asks only for what is   *)
(* supported.  A scalar keeps its literal text, the one template token it  *)
(* may mention and its YAML kind; a ${NAME} expression is a token named    *)
(* NAME, and no template variable has the name of one.  Text syntax is     *)
(* abstracted to Grammar: for every checked label, the literals its        *)
(* validator accepts.  An operator that may refuse a document returns the  *)
(* set of documents it may produce, which is empty when it refuses.        *)
(***************************************************************************)
EXTENDS Naturals, FiniteSets

CONSTANTS Grammar,    \* checked label -> literals its validator accepts
          Numerals,   \* literals that read as numbers
          EnvNames    \* names that ${NAME} expressions of the documents use

ASSUME GrammarAssumption ==
  /\ {"repo_url", "source_mount", "dockerfile", "branch", "port", "visibility", "subdomain",
      "path_rule", "production", "build_args"} \subseteq DOMAIN Grammar
  /\ "" \notin Grammar["port"]

(***************************************************************************)
(* The entries of old, replaced and extended by those of new (the @@ of    *)
(* the TLC module, with a definition that a proof can unfold).             *)
(***************************************************************************)
Updated(old, new) ==
  [k \in DOMAIN old \cup DOMAIN new |-> IF k \in DOMAIN new THEN new[k] ELSE old[k]]

Entry(k, v) == [j \in {k} |-> v]

NoToken == "no token"
RootDomain == "root_domain"

Text(t)  == [text |-> t, token |-> NoToken, kind |-> "string"]
Token(x) == [text |-> "", token |-> x, kind |-> "string"]
Blank    == Text("")

ContainsVariable(v) == v.token \notin {NoToken, RootDomain} \cup EnvNames
Unresolved(v) == ContainsVariable(v) \/ v.token = RootDomain
IsBlank(v) == v.text = "" /\ v.token = NoToken

(***************************************************************************)
(* Every place of a service that can mention a token.                      *)
(***************************************************************************)
ServiceScalars(s) ==
  {s.image, s.command} \cup {s.labels[k] : k \in DOMAIN s.labels}
    \cup {s.env[k] : k \in DOMAIN s.env} \cup {s.volumes[k] : k \in DOMAIN s.volumes}

Scalars(doc) == UNION {ServiceScalars(doc.services[n]) : n \in DOMAIN doc.services}

HasUnresolvedTokens(doc) == \E v \in Scalars(doc) : Unresolved(v)
InlineNames(doc) == {v.token : v \in {w \in Scalars(doc) : ContainsVariable(w)}}

Each(f, F(_)) == [k \in DOMAIN f |-> F(f[k])]

OverServiceScalars(s, F(_)) ==
  [s EXCEPT !.image = F(@), !.command = F(@),
            !.labels = Each(@, F), !.env = Each(@, F), !.volumes = Each(@, F)]

OverScalars(doc, F(_)) ==
  [doc EXCEPT !.services = [n \in DOMAIN @ |-> OverServiceScalars(@[n], F)]]

(***************************************************************************)
(* Labels.                                                                 *)
(***************************************************************************)
FibeLabels ==
  {"repo_url", "source_mount", "dockerfile", "branch", "start_command", "port",
   "visibility", "subdomain", "path_rule", "production", "build_target", "build_args"}

\* Labels of other tools that a document may carry.
ForeignLabels == {"basicauth.users"}

Label(s, k) == IF k \in DOMAIN s.labels THEN s.labels[k] ELSE Blank

BoolLabel(s, k) == Label(s, k).text = "true"

\* Map-form labels keep their YAML kind until they are checked.
RawTypeAllowed(k, v) ==
  \/ v.kind = "string"
  \/ v.kind = "bool" /\ k \in {"production"} \cup ForeignLabels
  \/ v.kind = "number" /\ k \in {"port"} \cup ForeignLabels

ValidFibeLabel(k, v) ==
  /\ k \in FibeLabels \cup ForeignLabels
  /\ k \in FibeLabels => ~IsBlank(v)

\* A path rule is checked predicate by predicate, also when it has a token.
ValidPathRule(v) ==
  IF v.text = "" THEN IsBlank(v) \/ ContainsVariable(v) ELSE v.text \in Grammar["path_rule"]

\* These keep their checks of the literal part when a token is in them.
ValidRepoPath(k, v) ==
  \/ IsBlank(v)
  \/ IF v.text = "" THEN ContainsVariable(v) ELSE v.text \in Grammar[k]

Accepted(k, v) == IsBlank(v) \/ ContainsVariable(v) \/ v.text \in Grammar[k]

ValidSource(s) ==
  LET repo == Label(s, "repo_url")
  IN  /\ ValidRepoPath("repo_url", repo)
      /\ (s.build \/ ~IsBlank(Label(s, "source_mount"))) => ~IsBlank(repo)
      /\ ValidRepoPath("dockerfile", Label(s, "dockerfile"))
      /\ ValidRepoPath("source_mount", Label(s, "source_mount"))
      /\ \A k \in {"branch", "build_args"} : Accepted(k, Label(s, k))

ValidRouting(s) ==
  /\ ~IsBlank(Label(s, "visibility")) => ~IsBlank(Label(s, "port"))
  /\ ValidPathRule(Label(s, "path_rule"))
  /\ \A k \in {"port", "visibility", "subdomain"} : Accepted(k, Label(s, k))

ValidService(s) ==
  /\ ~s.envFile
  /\ \A k \in DOMAIN s.labels : RawTypeAllowed(k, s.labels[k]) /\ ValidFibeLabel(k, s.labels[k])
  /\ Accepted("production", Label(s, "production"))
  /\ ValidSource(s)
  /\ ValidRouting(s)

(***************************************************************************)
(* Template variables.  A declaration is [wellFormed, required, random,    *)
(* default, pattern, path]: pattern is the set of values its validation    *)
(* accepts (empty when it has none) and path the set of <<service, label>> *)
(* it is written to.                                                       *)
(***************************************************************************)
NeedsCompilation(doc, provided) ==
  \/ doc.declared
  \/ DOMAIN provided # {}
  \/ HasUnresolvedTokens(doc)

ValidReferences(doc) ==
  LET inline == InlineNames(doc)
      names  == DOMAIN doc.variables
  IN  /\ inline \subseteq names
      /\ \A x \in names : x \in inline \/ doc.variables[x].path # {}
      /\ \A x \in names : \A p \in doc.variables[x].path : p[1] \in DOMAIN doc.services

ValidDefinition(d) == d.wellFormed /\ d.default.token = NoToken

ValidDeclarations(doc) ==
  NeedsCompilation(doc, <<>>) =>
    /\ \A x \in DOMAIN doc.variables : ValidDefinition(doc.variables[x])
    /\ ValidReferences(doc)

\* A value of text form becomes a YAML boolean or number where it reads as one.
Coerced(v) ==
  [v EXCEPT !.kind = IF IsBlank(v) THEN "null"
                     ELSE IF v.text \in {"true", "false"} THEN "bool"
                     ELSE IF v.text \in Numerals THEN "number" ELSE "string"]

\* Provided, else default, else a fresh secret, else nothing.
CompiledValue(d, x, provided, secret) ==
  IF x \in DOMAIN provided /\ ~IsBlank(provided[x]) THEN provided[x]
  ELSE IF ~IsBlank(d.default) THEN d.default
  ELSE IF d.random THEN Text(secret) ELSE Blank

CompiledOk(d, v) ==
  /\ ValidDefinition(d)
  /\ d.required => ~IsBlank(v)
  /\ IsBlank(v) \/ d.pattern = {} \/ v.text \in d.pattern

\* One pass: a token inside a value is not replaced again.
Replaced(v, value) ==
  IF v.token \in DOMAIN value
  THEN LET w == value[v.token]
           r == IF IsBlank(w) THEN Text("placeholder") ELSE w
       IN  [v EXCEPT !.text = IF @ = "" THEN r.text ELSE @, !.token = r.token]
  ELSE v

\* Two variables bound to one path are written in the order of a Go map.
PathWrites(doc, value) ==
  LET slots == UNION {doc.variables[x].path : x \in DOMAIN value}
      writers(p) == {x \in DOMAIN value : p \in doc.variables[x].path}
      choices == {c \in [slots -> DOMAIN value] : \A p \in slots : c[p] \in writers(p)}
      written(n, s, c) ==
        [s EXCEPT !.labels = Updated(@, [k \in {p[2] : p \in {q \in slots : q[1] = n}} |->
                                           Coerced(value[c[<<n, k>>]])])]
  IN  {[doc EXCEPT !.services = [n \in DOMAIN @ |-> written(n, @[n], c)]] : c \in choices}

ApplyVariables(doc, provided, secret) ==
  IF ~NeedsCompilation(doc, provided) THEN {doc}
  ELSE LET value == [x \in DOMAIN doc.variables |->
                       CompiledValue(doc.variables[x], x, provided, secret)]
           fill(v) == Replaced(v, value)
       IN  IF /\ DOMAIN provided \subseteq DOMAIN doc.variables
              /\ \A x \in DOMAIN value : CompiledOk(doc.variables[x], value[x])
              /\ ValidReferences(doc)
           THEN {[d EXCEPT !.variables = <<>>, !.declared = FALSE] :
                   d \in PathWrites(OverScalars(doc, fill), value)}
           ELSE {}

WithRootDomain(v, domain) ==
  IF v.token = RootDomain
  THEN [v EXCEPT !.token = NoToken, !.text = IF @ = "" THEN domain ELSE @] ELSE v

ApplyRootDomainToken(doc, domain) ==
  LET fill(v) == WithRootDomain(v, domain)
  IN  IF \A v \in Scalars(doc) : v.token # RootDomain THEN {doc}
      ELSE IF domain = "" THEN {} ELSE {OverScalars(doc, fill)}

\* "compose" is Validate: syntax, labels and declarations of a whole document.
Validate(doc) ==
  /\ DOMAIN doc.services # {}
  /\ doc.extensions
  /\ \A n \in DOMAIN doc.services : ValidService(doc.services[n])
  /\ ValidDeclarations(doc)

(***************************************************************************)
(* Service overrides: a function from service names, or "_global", to      *)
(* functions from fields to values.  exposure, git_config, env_vars and    *)
(* port_mappings are nested; every other value is a scalar.                *)
(***************************************************************************)
Global == "_global"

StringFields ==
  {"auth_password", "subdomain", "exposure_visibility", "path_rule", "image", "repo_url",
   "build_target", "start_command"}

IsString(v) == v.kind = "string" /\ ~IsBlank(v)
IsBoolean(v) == v.text \in {"true", "false"}
IsPort(v) == v.token = NoToken /\ v.text \in Grammar["port"]

ValidEnvVars(env) == DOMAIN env # {} /\ \A k \in DOMAIN env : env[k].kind # "list"

Disabled(e) == "enabled" \in DOMAIN e /\ e.enabled.text = "false"

\* Nothing else of an exposure is checked once it is switched off.
ValidExposure(e) ==
  /\ DOMAIN e # {} /\ DOMAIN e \subseteq {"enabled", "port", "subdomain", "visibility", "path_rule"}
  /\ "enabled" \in DOMAIN e => IsBoolean(e.enabled)
  /\ ~Disabled(e) =>
       /\ "port" \in DOMAIN e => IsPort(e.port)
       /\ \A k \in DOMAIN e \cap {"subdomain", "visibility", "path_rule"} : IsString(e[k])

ValidPortMappings(m) ==
  DOMAIN m # {} /\ \A c \in DOMAIN m : c \in Grammar["port"] /\ IsPort(m[c])

ValidField(k, v) ==
  \/ k \in StringFields /\ IsString(v)
  \/ k = "dockerfile_path" /\ ~IsBlank(v) /\ ValidRepoPath("dockerfile", v)
  \/ k = "build_args" /\ v.text \in Grammar["build_args"]
  \/ k = "production" /\ IsBoolean(v)
  \/ k = "exposure_port" /\ IsPort(v)
  \/ k = "env_vars" /\ ValidEnvVars(v)
  \/ k = "exposure" /\ ValidExposure(v)
  \/ k = "git_config" /\ DOMAIN v = {"branch_name"} /\ v.branch_name.text \in Grammar["branch"]
  \/ k = "port_mappings" /\ ValidPortMappings(v)

ValidOverride(n, o) ==
  /\ DOMAIN o # {}
  /\ \A k \in DOMAIN o : ValidField(k, o[k]) /\ (n = Global => k = "env_vars")

ValidOverrides(doc, subdomains, overrides) ==
  /\ \A n \in DOMAIN subdomains : n \in DOMAIN doc.services /\ ~IsBlank(subdomains[n])
  /\ \A n \in DOMAIN overrides : n \in DOMAIN doc.services \cup {Global}
                                 /\ ValidOverride(n, overrides[n])

RejectJobMode(overrides) ==
  "_run" \in DOMAIN overrides \/ \E n \in DOMAIN overrides : "job_watch" \in DOMAIN overrides[n]

DirectLabels ==
  [subdomain |-> "subdomain", exposure_visibility |-> "visibility",
   path_rule |-> "path_rule", exposure_port |-> "port"]
ExposureLabels ==
  [port |-> "port", subdomain |-> "subdomain", visibility |-> "visibility",
   path_rule |-> "path_rule"]
MetadataLabels ==
  [dockerfile_path |-> "dockerfile", repo_url |-> "repo_url", build_target |-> "build_target",
   production |-> "production", build_args |-> "build_args"]

Mapped(labels, fields, mapping) ==
  LET given == DOMAIN fields \cap DOMAIN mapping
  IN  Updated(labels, [l \in {mapping[f] : f \in given} |->
        [fields[CHOOSE f \in given : mapping[f] = l] EXCEPT !.kind = "string"]])

ExposureOverridden(labels, e) ==
  IF Disabled(e)
  THEN [k \in DOMAIN labels \ {"port", "subdomain", "path_rule", "visibility"} |-> labels[k]]
  ELSE LET needsPort == /\ "enabled" \in DOMAIN e /\ "port" \notin DOMAIN e
                        /\ ~("port" \in DOMAIN labels /\ IsPort(labels["port"]))
       IN  Mapped(IF needsPort THEN Updated(labels, Entry("port", Text("80"))) ELSE labels,
                  e, ExposureLabels)

\* Faulty: the flat fields are applied after the nested exposure.
LabelsOverriddenFlatLast(labels, o) ==
  LET exposed == IF "exposure" \in DOMAIN o THEN ExposureOverridden(labels, o.exposure) ELSE labels
      direct  == Mapped(exposed, o, DirectLabels)
      branch  == IF "git_config" \in DOMAIN o
                 THEN Updated(direct, Entry("branch", o.git_config.branch_name)) ELSE direct
      start   == IF "start_command" \in DOMAIN o
                 THEN Updated(branch, Entry("start_command", o.start_command)) ELSE branch
  IN  Mapped(start, o, MetadataLabels)

\* Flat fields first, then the nested exposure, which may clear them.
LabelsOverridden(labels, o) ==
  LET direct  == Mapped(labels, o, DirectLabels)
      exposed == IF "exposure" \in DOMAIN o THEN ExposureOverridden(direct, o.exposure) ELSE direct
      branch  == IF "git_config" \in DOMAIN o
                 THEN Updated(exposed, Entry("branch", o.git_config.branch_name)) ELSE exposed
      start   == IF "start_command" \in DOMAIN o
                 THEN Updated(branch, Entry("start_command", o.start_command)) ELSE branch
  IN  Mapped(start, o, MetadataLabels)

EnvVars(o) == IF "env_vars" \in DOMAIN o THEN o.env_vars ELSE <<>>

\* A mapping replaces the entries of its container port and keeps their protocol.
PortsOverridden(ports, mappings) ==
  Updated(ports, [c \in DOMAIN mappings |->
    [host |-> mappings[c].text,
     protocol |-> IF c \in DOMAIN ports THEN ports[c].protocol ELSE ""]])

ServiceOverridden(s, o) ==
  [s EXCEPT !.labels = LabelsOverridden(@, o),
            !.ports = IF "port_mappings" \in DOMAIN o THEN PortsOverridden(@, o.port_mappings) ELSE @,
            !.command = IF "start_command" \in DOMAIN o THEN o.start_command ELSE @,
            !.image = IF "image" \in DOMAIN o THEN o.image ELSE @]

\* The buckets are visited in the order of a Go map: for every service of its
\* own bucket, the global environment may come before or after it.
ApplyServiceOverrides(doc, overrides) ==
  LET named  == DOMAIN overrides \ {Global}
      global == IF Global \in DOMAIN overrides THEN EnvVars(overrides[Global]) ELSE <<>>
      env(n, s, late) ==
        LET own == IF n \in named THEN EnvVars(overrides[n]) ELSE <<>>
        IN  IF n \in late THEN Updated(Updated(s.env, global), own)
            ELSE Updated(Updated(s.env, own), global)
      next(n, s, late) ==
        [(IF n \in named THEN ServiceOverridden(s, overrides[n]) ELSE s)
           EXCEPT !.env = env(n, s, late)]
  IN  {[doc EXCEPT !.services = [n \in DOMAIN @ |-> next(n, @[n], late)]] : late \in SUBSET named}

WithSubdomain(s, v) == [s EXCEPT !.labels = Updated(@, Entry("subdomain", v))]

ApplyServiceSubdomains(doc, subdomains) ==
  [doc EXCEPT !.services = [n \in DOMAIN @ |->
     IF n \in DOMAIN subdomains THEN WithSubdomain(@[n], subdomains[n]) ELSE @[n]]]

\* ${NAME} is replaced before the environment of the services is set.
ApplyEnvInterpolation(doc, env) ==
  LET fill(v) == Replaced(v, env) IN OverScalars(doc, fill)

ApplyGlobalEnv(doc, env) ==
  [doc EXCEPT !.services = [n \in DOMAIN @ |-> [@[n] EXCEPT !.env = Updated(@, env)]]]

(***************************************************************************)
(* The three ways a document is produced.                                  *)
(***************************************************************************)
LaunchCompose(doc, request, domain, secret) ==
  IF RejectJobMode(request.services) \/ ~doc.extensions THEN {}
  ELSE UNION {UNION {
         IF ValidOverrides(e, request.subdomains, request.services)
         THEN ApplyServiceOverrides(ApplyServiceSubdomains(e, request.subdomains), request.services)
         ELSE {} : e \in ApplyRootDomainToken(d, domain)}
       : d \in ApplyVariables(doc, request.variables, secret)}

\* playspecServiceOverrides drops name and type and keeps the rest as an override.
ValidMetadata(doc, metadata) ==
  \A n \in DOMAIN metadata :
    /\ n \in DOMAIN doc.services
    /\ DOMAIN metadata[n] \subseteq {"repo_url", "dockerfile_path", "start_command",
                                     "build_target", "build_args", "production", "image", "exposure"}
    /\ \A k \in DOMAIN metadata[n] : ValidField(k, metadata[n][k])

ApplyPlayspecServices(doc, metadata) ==
  IF metadata = <<>> THEN {doc}
  ELSE IF ~doc.extensions \/ ~ValidMetadata(doc, metadata) THEN {}
  ELSE ApplyServiceOverrides(doc, metadata)

PlaygroundCompose(doc, env, overrides) ==
  IF DOMAIN env = {} /\ DOMAIN overrides = {} THEN {doc}
  ELSE IF RejectJobMode(overrides) \/ ~doc.extensions \/ ~ValidOverrides(doc, <<>>, overrides) THEN {}
  ELSE ApplyServiceOverrides(ApplyGlobalEnv(ApplyEnvInterpolation(doc, env), env), overrides)

EffectiveCompose(doc, env, overrides) ==
  {d \in PlaygroundCompose(doc, env, overrides) : ~HasUnresolvedTokens(d) /\ Validate(d)}

(***************************************************************************)
(* The runtime document.                                                   *)
(***************************************************************************)
Fallback(v, other) == IF IsBlank(v) THEN other ELSE v.text

Summary(n, s) ==
  [port |-> Label(s, "port").text,
   visibility |-> Fallback(Label(s, "visibility"), "external"),
   subdomain |-> Fallback(Label(s, "subdomain"), n),
   repo |-> Label(s, "repo_url").text,
   mount |-> Label(s, "source_mount").text,
   path |-> Label(s, "path_rule").text,
   production |-> BoolLabel(s, "production"),
   build |-> s.build \/ (BoolLabel(s, "production") /\ ~IsBlank(Label(s, "repo_url"))),
   start |-> Label(s, "start_command")]

Unprotected == [users |-> "", router |-> "none"]

\* An internal route gets its middleware on the router that answers: the
\* secure one, since every Marquee is served over https.
RouteAuth(s, sum, password) ==
  IF sum.visibility # "internal" \/ "basicauth.users" \in DOMAIN s.labels THEN Unprotected
  ELSE [users |-> password, router |-> "secure"]

Route(s, sum, domain, password) ==
  [hosts |-> {<<sum.subdomain, domain>>}, path |-> sum.path,
   redirect |-> TRUE, auth |-> RouteAuth(s, sum, password)]

ServicePassword(n, overrides, password) ==
  IF n \in DOMAIN overrides /\ "auth_password" \in DOMAIN overrides[n]
  THEN overrides[n].auth_password.text ELSE password

SourceVolumes(s, sum, checkout) ==
  IF sum.mount = "" \/ sum.repo = "" THEN s.volumes
  ELSE IF sum.production THEN [t \in DOMAIN s.volumes \ {sum.mount} |-> s.volumes[t]]
  ELSE Updated(s.volumes, Entry(sum.mount, Text(checkout)))

SourceBuild(sum, checkout) ==
  IF sum.repo # "" /\ (sum.build \/ sum.production) THEN checkout ELSE ""

RuntimeService(n, s, domain, password) ==
  LET sum == Summary(n, s)
      checkout == sum.repo
  IN  [ports |-> {},
       healthcheck |-> sum.port = "",
       routes |-> IF sum.port = "" \/ domain = "" THEN {} ELSE {Route(s, sum, domain, password)},
       command |-> IF IsBlank(sum.start) THEN s.command ELSE sum.start,
       volumes |-> SourceVolumes(s, sum, checkout),
       context |-> SourceBuild(sum, checkout)]

\* A document with a routed service needs a domain to route it under.
RuntimeCompose(doc, overrides, domain, password) ==
  IF domain = "" /\ \E n \in DOMAIN doc.services : ~IsBlank(Label(doc.services[n], "port")) THEN {}
  ELSE {[n \in DOMAIN doc.services |->
           RuntimeService(n, doc.services[n], domain, ServicePassword(n, overrides, password))]}
=============================================================================
