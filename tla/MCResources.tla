---------------------------- MODULE MCResources ----------------------------
(***************************************************************************)
(* Documents, overrides and requests for TLC.                              *)
(***************************************************************************)
EXTENDS PlainRequests, TLC

Num(t) == [Text(t) EXCEPT !.kind = "number"]

MCGrammar ==
  [repo_url |-> {"https://github.com/acme/api", "git@github.com:acme/api"},
   source_mount |-> {"/app"}, dockerfile |-> {"Dockerfile"}, branch |-> {"main"},
   port |-> {"80", "3000", "9000"}, visibility |-> {"internal", "external"},
   subdomain |-> {"api", "web"}, path_rule |-> {"Path(/v1)"},
   production |-> {"true", "false"}, build_args |-> {"A=1"}]

MCNumerals == {"80", "3000", "9000"}
MCEnvNames == {"TAG"}

MCCanonical ==
  "https://github.com/acme/api" :> [id |-> "acme/api", github |-> TRUE] @@
  "git@github.com:acme/api" :> [id |-> "acme/api", github |-> TRUE] @@
  "https://github.com/acme/web" :> [id |-> "acme/web", github |-> TRUE] @@
  "https://example.com/lib" :> [id |-> "lib", github |-> FALSE]

Service(labels) ==
  [image |-> Text("nginx"), build |-> FALSE, envFile |-> FALSE, labels |-> labels,
   env |-> <<>>, ports |-> ("80" :> [host |-> "8080", protocol |-> ""]),
   command |-> Blank, volumes |-> <<>>]

Document(services) ==
  [services |-> services, variables |-> <<>>, declared |-> FALSE, extensions |-> TRUE]

Variable(default, path) ==
  [wellFormed |-> TRUE, required |-> FALSE, random |-> FALSE, default |-> default,
   pattern |-> {}, path |-> path]

Plain ==
  Document([web |-> Service([port |-> Num("80"), visibility |-> Text("internal")])])

Template ==
  [Document([web |-> [Service([port |-> Token("PORT"), subdomain |-> Text("web")])
                        EXCEPT !.env = [KEY |-> Token("KEY"), HOST |-> Token(RootDomain)],
                               !.image = Token("TAG")]])
     EXCEPT !.declared = TRUE,
            !.variables = [PORT |-> Variable(Text("3000"), {}),
                           KEY |-> [Variable(Blank, {}) EXCEPT !.random = TRUE],
                           SIDE |-> Variable(Text("internal"), {<<"web", "visibility">>})]]

Broken == Document([web |-> Service([visibility |-> Text("internal")])])

Source(repo) ==
  Document([api |-> [Service([repo_url |-> Text(repo), dockerfile |-> Text("Dockerfile"),
                              source_mount |-> Text("/app")]) EXCEPT !.build = TRUE]])

\* A flat field and an exposure that is switched off.
Hidden ==
  [web |-> [exposure_port |-> Num("9000"), subdomain |-> Text("api"),
            exposure |-> [enabled |-> Text("false")]]]
Exposed ==
  [web |-> [exposure |-> [enabled |-> Text("true"), visibility |-> Text("internal")],
            auth_password |-> Text("pw")]]
Env == [web |-> [env_vars |-> [A |-> Text("1")]]] @@ (Global :> [env_vars |-> [A |-> Text("2")]])
Unknown == [db |-> [image |-> Text("postgres")]]
RunMode == [_run |-> [image |-> Text("busybox")]]

Launching(name, d, services, repo, playground) ==
  [kind |-> "launch", name |-> name, doc |-> d, variables |-> <<>>, subdomains |-> <<>>,
   services |-> services, env |-> <<>>, repo |-> repo, playground |-> playground]

Creating(name, of, services) ==
  [kind |-> "create_playground", name |-> name, of |-> of, env |-> <<>>, services |-> services]

Deleting(kind, of) == [kind |-> kind, of |-> of]

MCRequests ==
  {Launching("one", Plain, Hidden, "https://github.com/acme/api", TRUE),
   Launching("one", Plain, Exposed, None, TRUE),
   [Launching("one", Template, <<>>, "https://github.com/acme/web", TRUE)
      EXCEPT !.variables = [PORT |-> Num("9000")], !.env = [TAG |-> Text("nginx:2")],
             !.subdomains = [web |-> Text("api")]],
   Launching("one", Source("https://github.com/acme/api"), <<>>, "https://example.com/lib", FALSE),
   Launching("two", Plain, Unknown, None, TRUE),
   Launching("two", Plain, RunMode, None, TRUE),
   Launching("two", Broken, <<>>, None, FALSE),
   Creating("one", "one", Env),
   Creating("two", "two", <<>>),
   Deleting("delete_playground", "one"),
   Deleting("delete_playspec", "one"),
   Deleting("delete_prop", "one"),
   [kind |-> "create_playspec", name |-> "one", doc |-> Broken,
    metadata |-> [web |-> [exposure |-> [enabled |-> Text("true")]]]],
   [kind |-> "create_playspec", name |-> "two", doc |-> Template, metadata |-> <<>>],
   [kind |-> "update_playspec", of |-> "one", name |-> "two", doc |-> None, metadata |-> <<>>],
   [kind |-> "update_playspec", of |-> "one", name |-> None, doc |-> Broken, metadata |-> <<>>],
   [kind |-> "create_prop", name |-> "one", repo |-> "git@github.com:acme/api"],
   [kind |-> "update_prop", of |-> "one", name |-> None, repo |-> "https://github.com/acme/web"],
   [kind |-> "update_prop", of |-> "one", name |-> "two", repo |-> None],
   [kind |-> "sync_prop", of |-> "one"]}

\* Two clients launch the same document under one name with different environments.
MCRacingLaunches ==
  {[Launching("one", Plain, <<>>, None, TRUE) EXCEPT !.env = [TAG |-> Text(v)]] : v \in {"1", "2"}}

(***************************************************************************)
(* All but the template that is stored as a Playspec of its own are what   *)
(* ServicesAreServedAsAsked is about; the runs have that one too.          *)
(***************************************************************************)
ASSUME MCRequestsAssumption ==
  \A q \in Requests : PlainRequest(q) \/ (q.kind = "create_playspec" /\ q.doc = Template)
=============================================================================
