----------------------------- MODULE Resources -----------------------------
(***************************************************************************)
(* Playspecs, Props and Playgrounds as rows, and the requests that write   *)
(* them: launches, and the create, update, sync and delete handlers.       *)
(* Nothing here takes a transaction over two statements; every request is  *)
(* a sequence of single statements on three tables, pure computations on   *)
(* Compose documents (module ComposeDocuments) and calls to GitHub.        *)
(*                                                                         *)
(* One action is one statement or one call, with the computation that      *)
(* follows it.  A request is a record: kind, and the fields of that kind.  *)
(***************************************************************************)
EXTENDS ComposeDocuments

CONSTANTS
  Threads,      \* request goroutines
  Requests,     \* the requests clients send
  Canonical,    \* repository text -> [id, github]: what SameRepositoryURL compares
  Domain,       \* root domain of the configured Marquee
  Secrets,      \* values a random variable may get
  MaxRequests,  \* bound on requests
  MaxTroubles,  \* bound on failing statements, refusals of GitHub, lost clients
  None

ASSUME ResourcesAssumption ==
  /\ MaxRequests \in Nat /\ MaxTroubles \in Nat
  /\ \A q \in Requests : q.kind \in {"launch", "create_playspec", "update_playspec",
       "delete_playspec", "create_prop", "update_prop", "sync_prop", "delete_prop",
       "create_playground", "delete_playground"}
  /\ None \notin Nat \cup DOMAIN Canonical \cup {"refused"}

(***************************************************************************)
(* State.                                                                  *)
(*   playspecs, props, playgrounds   the tables, by id; ids the next ids   *)
(*   pc, req, answer                 each thread's request and its answer  *)
(*   doc, ps, prop                   the document it computed, the copies  *)
(*                                   of the rows it read (with their id)   *)
(*   made                            ids of the rows a request made        *)
(*   left                            how much of the bounds is left        *)
(*   served                          what was deployed, for whom: no part  *)
(*                                   of the program                        *)
(***************************************************************************)
VARIABLES playspecs, props, playgrounds, ids, pc, req, answer, doc, ps, prop, made, left, served

tables == <<playspecs, props, playgrounds, ids>>
locals == <<req, doc, ps, prop, made>>
vars == <<tables, pc, locals, answer, left, served>>

Points ==
  {"idle", "prepare", "create_playspec", "replay_playspec", "create_prop", "replay_prop",
   "cleanup", "cleanup_props", "resolve", "load", "lookup", "insert", "again", "deploy",
   "new_playspec", "find_playspec", "save_playspec", "count", "delete_playspec",
   "new_prop", "find_prop", "save_prop", "fetch", "reload", "references", "delete_prop",
   "delete_playground"}

Empty == [i \in {} |-> None]

Init ==
  /\ playspecs = Empty /\ props = Empty /\ playgrounds = Empty
  /\ ids = [playspec |-> 1, prop |-> 1, playground |-> 1]
  /\ pc = [t \in Threads |-> "idle"]
  /\ req = [t \in Threads |-> None]
  /\ answer = [t \in Threads |-> None]
  /\ doc = [t \in Threads |-> None]
  /\ ps = [t \in Threads |-> None]
  /\ prop = [t \in Threads |-> None]
  /\ made = [t \in Threads |-> [playspec |-> None, prop |-> None, playground |-> None]]
  /\ left = [requests |-> MaxRequests, troubles |-> MaxTroubles]
  /\ served = Empty

-----------------------------------------------------------------------------
Goto(t, point) == pc' = [pc EXCEPT ![t] = point] /\ UNCHANGED answer

Answer(t, a) == pc' = [pc EXCEPT ![t] = "idle"] /\ answer' = [answer EXCEPT ![t] = a]

Refuse(t) == Answer(t, "refused")

Trouble == left.troubles > 0 /\ left' = [left EXCEPT !.troubles = @ - 1]

Named(table, name) == {i \in DOMAIN table : table[i].name = name}

Found(table, i) == [id |-> i, row |-> table[i]]

Having(table, i, row) ==
  [j \in DOMAIN table \cup {i} |-> IF j = i THEN row ELSE table[j]]

Without(table, gone) == [i \in DOMAIN table \ gone |-> table[i]]

(***************************************************************************)
(* INSERT: the next id, unless the name is taken.                          *)
(***************************************************************************)
InsertPlayspec(row) ==
  /\ Named(playspecs, row.name) = {}
  /\ playspecs' = Having(playspecs, ids.playspec, row)
  /\ ids' = [ids EXCEPT !.playspec = @ + 1]

InsertProp(row) ==
  /\ Named(props, row.name) = {}
  /\ props' = Having(props, ids.prop, row)
  /\ ids' = [ids EXCEPT !.prop = @ + 1]

(***************************************************************************)
(* DELETE of a Playspec leaves the Playgrounds that use it without one.    *)
(***************************************************************************)
DeletePlayspecs(gone) ==
  /\ playspecs' = Without(playspecs, gone)
  /\ playgrounds' = [g \in DOMAIN playgrounds |->
       [playgrounds[g] EXCEPT !.playspec = IF @ \in gone THEN None ELSE @]]

SameRepository(a, b) == Canonical[a].id = Canonical[b].id

IsGitHub(repo) == Canonical[repo].github

(***************************************************************************)
(* GitHubRepositoryURLs of a document.                                     *)
(***************************************************************************)
RepositoriesOf(d) == {Label(d.services[n], "repo_url").text : n \in DOMAIN d.services} \ {""}

GitHubRepositories(d) ==
  IF Validate(d) THEN {r \in RepositoriesOf(d) : r \in DOMAIN Canonical /\ IsGitHub(r)} ELSE {}

(***************************************************************************)
(* requireRuntimeWritable refuses when the token cannot push to one of the *)
(* repositories, or GitHub cannot be asked; others are not asked about.    *)
(***************************************************************************)
NotWritable(repos) == Trouble /\ \E r \in repos : IsGitHub(r)

LaunchRepositories(q, d) == GitHubRepositories(d) \cup ({q.repo} \ {None})

(***************************************************************************)
(* PlayspecsReferencingProp.  The services column repeats the labels: what *)
(* it names was written into the document when it was stored.              *)
(***************************************************************************)
References(row, repo) ==
  \E r \in RepositoriesOf(row.doc) : r \in DOMAIN Canonical /\ SameRepository(r, repo)

FirstPoint(kind) ==
  CASE kind = "launch" -> "prepare"
    [] kind = "create_playspec" -> "new_playspec"
    [] kind \in {"update_playspec", "delete_playspec"} -> "find_playspec"
    [] kind = "create_prop" -> "new_prop"
    [] kind \in {"update_prop", "sync_prop", "delete_prop"} -> "find_prop"
    [] kind = "create_playground" -> "resolve"
    [] kind = "delete_playground" -> "delete_playground"

Receive(t) ==
  /\ pc[t] = "idle"
  /\ left.requests > 0
  /\ \E q \in Requests :
       /\ req' = [req EXCEPT ![t] = q]
       /\ pc' = [pc EXCEPT ![t] = FirstPoint(q.kind)]
  /\ left' = [left EXCEPT !.requests = @ - 1]
  /\ answer' = [answer EXCEPT ![t] = None]
  /\ doc' = [doc EXCEPT ![t] = None]
  /\ ps' = [ps EXCEPT ![t] = None]
  /\ prop' = [prop EXCEPT ![t] = None]
  /\ made' = [made EXCEPT ![t] = [playspec |-> None, prop |-> None, playground |-> None]]
  /\ UNCHANGED <<tables, served>>

-----------------------------------------------------------------------------
(***************************************************************************)
(* Launch.  The document is computed before anything is written; GitHub is *)
(* asked whether its repositories, and the launch's own, can be pushed to. *)
(***************************************************************************)
PrepareLaunch(t) ==
  /\ pc[t] = "prepare"
  /\ LET q == req[t]
         docs == UNION {LaunchCompose(q.doc, q, Domain, s) : s \in Secrets}
     IN  \/ /\ \E d \in docs : doc' = [doc EXCEPT ![t] = d]
            /\ Goto(t, "create_playspec")
            /\ UNCHANGED left
         \/ docs = {} /\ Refuse(t) /\ UNCHANGED <<doc, left>>
         \/ /\ \E d \in docs : NotWritable(LaunchRepositories(q, d))
            /\ Refuse(t) /\ UNCHANGED doc
  /\ UNCHANGED <<tables, req, ps, prop, made, served>>

AfterPlayspec(q) ==
  IF q.repo # None THEN "create_prop" ELSE IF q.playground THEN "load" ELSE "idle"

AfterProp(q) == IF q.playground THEN "load" ELSE "idle"

Continue(t, point) ==
  IF point = "idle" THEN Answer(t, "created") ELSE Goto(t, point)

(***************************************************************************)
(* createLaunchPlayspec: insert, or replay the row of that name when it    *)
(* has the same document.                                                  *)
(***************************************************************************)
CreateLaunchPlayspec(t) ==
  /\ pc[t] = "create_playspec"
  /\ LET row == [name |-> req[t].name, doc |-> doc[t]]
     IN  \/ /\ Validate(doc[t])
            /\ InsertPlayspec(row)
            /\ ps' = [ps EXCEPT ![t] = [id |-> ids.playspec, row |-> row]]
            /\ made' = [made EXCEPT ![t] = [@ EXCEPT !.playspec = ids.playspec]]
            /\ Continue(t, AfterPlayspec(req[t]))
            /\ UNCHANGED left
         \/ /\ Validate(doc[t]) /\ Named(playspecs, row.name) # {}
            /\ Goto(t, "replay_playspec")
            /\ UNCHANGED <<playspecs, ids, ps, made, left>>
         \/ /\ ~Validate(doc[t])
            /\ Refuse(t)
            /\ UNCHANGED <<playspecs, ids, ps, made, left>>
         \/ Validate(doc[t]) /\ Trouble /\ Refuse(t) /\ UNCHANGED <<playspecs, ids, ps, made>>
  /\ UNCHANGED <<props, playgrounds, req, doc, prop, served>>

ReplayLaunchPlayspec(t) ==
  /\ pc[t] = "replay_playspec"
  /\ LET same == {i \in Named(playspecs, req[t].name) : playspecs[i].doc = doc[t]}
     IN  \/ /\ \E i \in same : ps' = [ps EXCEPT ![t] = Found(playspecs, i)]
            /\ Continue(t, AfterPlayspec(req[t]))
         \/ same = {} /\ Refuse(t) /\ UNCHANGED ps
  /\ UNCHANGED <<tables, req, doc, prop, made, left, served>>

(***************************************************************************)
(* ensureLaunchProp; a failure undoes the Playspec.                        *)
(***************************************************************************)
CreateLaunchProp(t) ==
  /\ pc[t] = "create_prop"
  /\ LET row == [name |-> req[t].name, repo |-> req[t].repo, meta |-> None]
     IN  \/ /\ InsertProp(row)
            /\ made' = [made EXCEPT ![t] = [@ EXCEPT !.prop = ids.prop]]
            /\ Continue(t, AfterProp(req[t]))
            /\ UNCHANGED left
         \/ /\ Named(props, row.name) # {}
            /\ Goto(t, "replay_prop")
            /\ UNCHANGED <<props, ids, made, left>>
         \/ Trouble /\ Goto(t, "cleanup") /\ UNCHANGED <<props, ids, made>>
  /\ UNCHANGED <<playspecs, playgrounds, req, doc, ps, prop, served>>

ReplayLaunchProp(t) ==
  /\ pc[t] = "replay_prop"
  /\ IF \E i \in Named(props, req[t].name) : SameRepository(props[i].repo, req[t].repo)
     THEN Continue(t, AfterProp(req[t])) ELSE Goto(t, "cleanup")
  /\ UNCHANGED <<tables, locals, left, served>>

(***************************************************************************)
(* cleanupLaunchResources deletes what the launch made, by id, under the   *)
(* request's context; it stops at the first failure.                       *)
(***************************************************************************)
CleanupLaunchPlayspec(t) ==
  /\ pc[t] = "cleanup"
  /\ \/ /\ DeletePlayspecs({made[t].playspec})
        /\ Goto(t, "cleanup_props")
        /\ UNCHANGED left
     \/ /\ made[t].playspec # None
        /\ Trouble /\ Answer(t, "left behind") /\ UNCHANGED <<playspecs, playgrounds>>
  /\ UNCHANGED <<props, ids, locals, served>>

(***************************************************************************)
(* Faulty: only the Playspec is undone.                                    *)
(***************************************************************************)
CleanupNoProps(t) ==
  /\ pc[t] = "cleanup_props"
  /\ Refuse(t)
  /\ UNCHANGED <<tables, locals, left, served>>

CleanupLaunchProps(t) ==
  /\ pc[t] = "cleanup_props"
  /\ \/ props' = Without(props, {made[t].prop}) /\ Refuse(t) /\ UNCHANGED left
     \/ made[t].prop # None /\ Trouble /\ Answer(t, "left behind") /\ UNCHANGED props
  /\ UNCHANGED <<playspecs, playgrounds, ids, locals, served>>

-----------------------------------------------------------------------------
(***************************************************************************)
(* Creating a Playground, on its own or at the end of a launch, whose      *)
(* resources are cleaned up when it fails.                                 *)
(***************************************************************************)
FailPlayground(t) == IF req[t].kind = "launch" THEN Goto(t, "cleanup") ELSE Refuse(t)

ResolvePlayspec(t) ==
  /\ pc[t] = "resolve"
  /\ \/ /\ \E i \in Named(playspecs, req[t].of) : ps' = [ps EXCEPT ![t] = Found(playspecs, i)]
        /\ Goto(t, "load")
     \/ Named(playspecs, req[t].of) = {} /\ Refuse(t) /\ UNCHANGED ps
  /\ UNCHANGED <<tables, req, doc, prop, made, left, served>>

Usable(t, d) == EffectiveCompose(d, req[t].env, req[t].services)

(***************************************************************************)
(* The Playspec is read again by id, and its document must be one that the *)
(* overrides leave valid and without template variables.                   *)
(***************************************************************************)
LoadPlayspec(t) ==
  /\ pc[t] = "load"
  /\ LET i == ps[t].id
         usable == i \in DOMAIN playspecs /\ Usable(t, playspecs[i].doc) # {}
     IN  \/ usable /\ ps' = [ps EXCEPT ![t] = Found(playspecs, i)]
                   /\ Goto(t, "lookup") /\ UNCHANGED left
         \/ ~usable /\ FailPlayground(t) /\ UNCHANGED <<ps, left>>
         \/ Trouble /\ FailPlayground(t) /\ UNCHANGED ps
  /\ UNCHANGED <<tables, req, doc, prop, made, served>>

PlaygroundRow(t) ==
  [name |-> req[t].name, playspec |-> ps[t].id, env |-> req[t].env, services |-> req[t].services]

(***************************************************************************)
(* compatibleExistingPlayground: a row of that name with the same intent   *)
(* is the answer, another one is a conflict.                               *)
(***************************************************************************)
Replayed(t) == \E g \in Named(playgrounds, req[t].name) : playgrounds[g] = PlaygroundRow(t)

LookupPlayground(t) ==
  /\ pc[t] = "lookup"
  /\ \/ Named(playgrounds, req[t].name) = {} /\ Goto(t, "insert")
     \/ Replayed(t) /\ Answer(t, "created")
     \/ Named(playgrounds, req[t].name) # {} /\ ~Replayed(t) /\ FailPlayground(t)
  /\ UNCHANGED <<tables, locals, left, served>>

InsertPlayground(t) ==
  /\ pc[t] = "insert"
  /\ LET taken == Named(playgrounds, req[t].name) # {}
         orphan == ps[t].id \notin DOMAIN playspecs
     IN  \/ /\ ~taken /\ ~orphan
            /\ playgrounds' = Having(playgrounds, ids.playground, PlaygroundRow(t))
            /\ ids' = [ids EXCEPT !.playground = @ + 1]
            /\ made' = [made EXCEPT ![t] = [@ EXCEPT !.playground = ids.playground]]
            /\ Goto(t, "deploy")
            /\ UNCHANGED left
         \/ taken /\ Goto(t, "again") /\ UNCHANGED <<playgrounds, ids, made, left>>
         \/ ~taken /\ orphan /\ FailPlayground(t) /\ UNCHANGED <<playgrounds, ids, made, left>>
         \/ Trouble /\ FailPlayground(t) /\ UNCHANGED <<playgrounds, ids, made>>
  /\ UNCHANGED <<playspecs, props, req, doc, ps, prop, served>>

LookupAgain(t) ==
  /\ pc[t] = "again"
  /\ IF Replayed(t) THEN Answer(t, "created") ELSE FailPlayground(t)
  /\ UNCHANGED <<tables, locals, left, served>>

(***************************************************************************)
(* The detached deployment renders the copy of the Playspec just read.  It *)
(* is asked for by the launch, while the Playspec is what it computed.     *)
(***************************************************************************)
Deploy(t) ==
  /\ pc[t] = "deploy"
  /\ LET own == req[t].kind = "launch" /\ ps[t].row.doc = doc[t]
     IN  \E d \in Usable(t, ps[t].row.doc) :
           \E r \in RuntimeCompose(d, req[t].services, Domain, "generated") :
             served' = Having(served, made[t].playground,
               [doc |-> IF own THEN req[t].doc ELSE ps[t].row.doc,
                variables |-> IF own THEN req[t].variables ELSE <<>>,
                subdomains |-> IF own THEN req[t].subdomains ELSE <<>>,
                services |-> req[t].services, runtime |-> r])
  /\ Answer(t, "created")
  /\ UNCHANGED <<tables, locals, left>>

(***************************************************************************)
(* DELETE of the row; PlaygroundLifecycle has the whole handler.           *)
(***************************************************************************)
DeletePlayground(t) ==
  /\ pc[t] = "delete_playground"
  /\ playgrounds' = Without(playgrounds, Named(playgrounds, req[t].of))
  /\ Answer(t, IF Named(playgrounds, req[t].of) = {} THEN "refused" ELSE "deleted")
  /\ UNCHANGED <<playspecs, props, ids, locals, left, served>>

-----------------------------------------------------------------------------
(***************************************************************************)
(* Playspec handlers.                                                      *)
(***************************************************************************)
Stored(base, metadata) == {d \in ApplyPlayspecServices(base, metadata) : Validate(d)}

CreatePlayspec(t) ==
  /\ pc[t] = "new_playspec"
  /\ LET docs == Stored(req[t].doc, req[t].metadata)
     IN  \/ \E d \in docs : InsertPlayspec([name |-> req[t].name, doc |-> d]) /\ Answer(t, "created")
         \/ /\ docs = {} \/ Named(playspecs, req[t].name) # {}
            /\ Refuse(t) /\ UNCHANGED <<playspecs, ids>>
  /\ UNCHANGED <<props, playgrounds, locals, left, served>>

FindPlayspec(t) ==
  /\ pc[t] = "find_playspec"
  /\ \/ /\ \E i \in Named(playspecs, req[t].of) : ps' = [ps EXCEPT ![t] = Found(playspecs, i)]
        /\ Goto(t, IF req[t].kind = "update_playspec" THEN "reload" ELSE "count")
     \/ Named(playspecs, req[t].of) = {} /\ Refuse(t) /\ UNCHANGED ps
  /\ UNCHANGED <<tables, req, doc, prop, made, left, served>>

(***************************************************************************)
(* saveUpdate reads the row again, by id, and applies the fields given.    *)
(***************************************************************************)
ApplyPlayspecUpdate(t) ==
  /\ pc[t] = "reload" /\ req[t].kind = "update_playspec"
  /\ LET q == req[t]
         row == playspecs[ps[t].id]
         base == IF q.doc # None THEN q.doc ELSE row.doc
         docs == IF ps[t].id \notin DOMAIN playspecs THEN {}
                 ELSE IF q.doc = None /\ q.metadata = <<>> THEN {row.doc}
                 ELSE Stored(base, q.metadata)
         name == IF q.name # None THEN q.name ELSE row.name
     IN  \/ /\ \E d \in docs : ps' = [ps EXCEPT ![t] = [id |-> @.id, row |-> [name |-> name, doc |-> d]]]
            /\ Goto(t, "save_playspec")
         \/ docs = {} /\ Refuse(t) /\ UNCHANGED ps
  /\ UNCHANGED <<tables, req, doc, prop, made, left, served>>

(***************************************************************************)
(* Faulty: the name is not unique in the table.                            *)
(***************************************************************************)
SavableAnyName(table, i, row) == i \in DOMAIN table

(***************************************************************************)
(* UPDATE of every column: the row must be there, and its name stay        *)
(* unique.                                                                 *)
(***************************************************************************)
Savable(table, i, row) == i \in DOMAIN table /\ Named(table, row.name) \subseteq {i}

SavePlayspec(t) ==
  /\ pc[t] = "save_playspec"
  /\ IF Savable(playspecs, ps[t].id, ps[t].row)
     THEN playspecs' = [playspecs EXCEPT ![ps[t].id] = ps[t].row] /\ Answer(t, "updated")
     ELSE Refuse(t) /\ UNCHANGED playspecs
  /\ UNCHANGED <<props, playgrounds, ids, locals, left, served>>

CountPlaygrounds(t) ==
  /\ pc[t] = "count"
  /\ IF \E g \in DOMAIN playgrounds : playgrounds[g].playspec = ps[t].id
     THEN Refuse(t) ELSE Goto(t, "delete_playspec")
  /\ UNCHANGED <<tables, locals, left, served>>

(***************************************************************************)
(* By the name in the path, whatever row has it now.                       *)
(***************************************************************************)
DeletePlayspec(t) ==
  /\ pc[t] = "delete_playspec"
  /\ LET gone == Named(playspecs, req[t].of)
     IN  DeletePlayspecs(gone) /\ Answer(t, IF gone = {} THEN "refused" ELSE "deleted")
  /\ UNCHANGED <<props, ids, locals, left, served>>

-----------------------------------------------------------------------------
(***************************************************************************)
(* Prop handlers.  meta is the repository that the synced columns are      *)
(* about: private, branches, time of the last sync.                        *)
(***************************************************************************)
CreateProp(t) ==
  /\ pc[t] = "new_prop"
  /\ \/ /\ InsertProp([name |-> req[t].name, repo |-> req[t].repo, meta |-> None])
        /\ Answer(t, "created") /\ UNCHANGED left
     \/ /\ Named(props, req[t].name) # {}
        /\ Refuse(t) /\ UNCHANGED <<props, ids, left>>
     \/ NotWritable({req[t].repo}) /\ Refuse(t) /\ UNCHANGED <<props, ids>>
  /\ UNCHANGED <<playspecs, playgrounds, locals, served>>

FindProp(t) ==
  /\ pc[t] = "find_prop"
  /\ LET q == req[t]
         next(row) == CASE q.kind = "update_prop" -> "reload"
                        [] q.kind = "delete_prop" -> "references"
                        [] q.kind = "sync_prop" /\ IsGitHub(row.repo) -> "fetch"
                        [] OTHER -> "idle"
     IN  \/ \E i \in Named(props, q.of) :
              /\ prop' = [prop EXCEPT ![t] = Found(props, i)]
              /\ IF next(props[i]) = "idle" THEN Answer(t, "unchanged") ELSE Goto(t, next(props[i]))
         \/ Named(props, q.of) = {} /\ Refuse(t) /\ UNCHANGED prop
  /\ UNCHANGED <<tables, req, doc, ps, made, left, served>>

(***************************************************************************)
(* savePropUpdate: another repository is asked whether it can be pushed to *)
(* and loses the synced columns.                                           *)
(***************************************************************************)
ApplyPropUpdate(t) ==
  /\ pc[t] = "reload" /\ req[t].kind = "update_prop"
  /\ LET q == req[t]
         i == prop[t].id
         row == props[i]
         changed == q.repo # None /\ ~SameRepository(q.repo, row.repo)
         next == [name |-> IF q.name # None THEN q.name ELSE row.name,
                  repo |-> IF q.repo # None THEN q.repo ELSE row.repo,
                  meta |-> IF changed THEN None ELSE row.meta]
     IN  \/ /\ i \in DOMAIN props
            /\ prop' = [prop EXCEPT ![t] = [id |-> i, row |-> next]]
            /\ Goto(t, "save_prop") /\ UNCHANGED left
         \/ i \notin DOMAIN props /\ Refuse(t) /\ UNCHANGED <<prop, left>>
         \/ /\ i \in DOMAIN props /\ changed /\ NotWritable({q.repo})
            /\ Refuse(t) /\ UNCHANGED prop
  /\ UNCHANGED <<tables, req, doc, ps, made, served>>

(***************************************************************************)
(* syncGitHubPropMetadata asks GitHub about the repository first read.     *)
(***************************************************************************)
FetchMetadata(t) ==
  /\ pc[t] = "fetch"
  /\ \/ Goto(t, "reload") /\ UNCHANGED left
     \/ Trouble /\ Refuse(t)
  /\ UNCHANGED <<tables, locals, served>>

Synced(row, about) == [name |-> row.name, repo |-> row.repo, meta |-> about]

(***************************************************************************)
(* Faulty: the metadata is saved whatever the repository is by now.        *)
(***************************************************************************)
MergeUnchecked(t) ==
  /\ pc[t] = "reload" /\ req[t].kind = "sync_prop"
  /\ LET i == prop[t].id
         about == Canonical[prop[t].row.repo].id
     IN  \/ /\ i \in DOMAIN props
            /\ prop' = [prop EXCEPT ![t] = [id |-> i, row |-> Synced(props[i], about)]]
            /\ Goto(t, "save_prop")
         \/ i \notin DOMAIN props /\ Refuse(t) /\ UNCHANGED prop
  /\ UNCHANGED <<tables, req, doc, ps, made, left, served>>

(***************************************************************************)
(* savePropSyncMetadata drops what it fetched when the row has moved to    *)
(* another repository, and merges it into the row as it is now otherwise.  *)
(***************************************************************************)
MergeMetadata(t) ==
  /\ pc[t] = "reload" /\ req[t].kind = "sync_prop"
  /\ LET i == prop[t].id
         about == Canonical[prop[t].row.repo].id
     IN  \/ /\ i \in DOMAIN props /\ SameRepository(props[i].repo, prop[t].row.repo)
            /\ prop' = [prop EXCEPT ![t] = [id |-> i, row |-> Synced(props[i], about)]]
            /\ Goto(t, "save_prop")
         \/ /\ i \in DOMAIN props /\ ~SameRepository(props[i].repo, prop[t].row.repo)
            /\ Answer(t, "unchanged") /\ UNCHANGED prop
         \/ i \notin DOMAIN props /\ Refuse(t) /\ UNCHANGED prop
  /\ UNCHANGED <<tables, req, doc, ps, made, left, served>>

SaveProp(t) ==
  /\ pc[t] = "save_prop"
  /\ IF Savable(props, prop[t].id, prop[t].row)
     THEN props' = [props EXCEPT ![prop[t].id] = prop[t].row] /\ Answer(t, "updated")
     ELSE Refuse(t) /\ UNCHANGED props
  /\ UNCHANGED <<playspecs, playgrounds, ids, locals, left, served>>

FindReferences(t) ==
  /\ pc[t] = "references"
  /\ IF \E i \in DOMAIN playspecs : References(playspecs[i], prop[t].row.repo)
     THEN Refuse(t) ELSE Goto(t, "delete_prop")
  /\ UNCHANGED <<tables, locals, left, served>>

DeleteProp(t) ==
  /\ pc[t] = "delete_prop"
  /\ LET gone == Named(props, req[t].of)
     IN  /\ props' = Without(props, gone)
         /\ Answer(t, IF gone = {} THEN "refused" ELSE "deleted")
  /\ UNCHANGED <<playspecs, playgrounds, ids, locals, left, served>>

-----------------------------------------------------------------------------
Launch(t) ==
  \/ PrepareLaunch(t) \/ CreateLaunchPlayspec(t) \/ ReplayLaunchPlayspec(t)
  \/ CreateLaunchProp(t) \/ ReplayLaunchProp(t)
  \/ CleanupLaunchPlayspec(t) \/ CleanupLaunchProps(t)

PlaygroundStep(t) ==
  \/ ResolvePlayspec(t) \/ LoadPlayspec(t) \/ LookupPlayground(t) \/ InsertPlayground(t)
  \/ LookupAgain(t) \/ Deploy(t) \/ DeletePlayground(t)

PlayspecStep(t) ==
  \/ CreatePlayspec(t) \/ FindPlayspec(t) \/ ApplyPlayspecUpdate(t) \/ SavePlayspec(t)
  \/ CountPlaygrounds(t) \/ DeletePlayspec(t)

PropStep(t) ==
  \/ CreateProp(t) \/ FindProp(t) \/ ApplyPropUpdate(t) \/ FetchMetadata(t)
  \/ MergeMetadata(t) \/ SaveProp(t) \/ FindReferences(t) \/ DeleteProp(t)

Next ==
  \E t \in Threads :
    Receive(t) \/ Launch(t) \/ PlaygroundStep(t) \/ PlayspecStep(t) \/ PropStep(t)

Spec == Init /\ [][Next]_vars

-----------------------------------------------------------------------------
(***************************************************************************)
(* The tables keep their constraints: ids are never used again, names are  *)
(* unique, and a Playground's Playspec is there or is none.                *)
(***************************************************************************)
WellFormed(table, next) ==
  /\ DOMAIN table \subseteq 1 .. next - 1
  /\ \A i, j \in DOMAIN table : table[i].name = table[j].name => i = j

TypeOK ==
  /\ WellFormed(playspecs, ids.playspec)
  /\ WellFormed(props, ids.prop)
  /\ WellFormed(playgrounds, ids.playground)
  /\ \A g \in DOMAIN playgrounds : playgrounds[g].playspec \in DOMAIN playspecs \cup {None}
  /\ \A i \in DOMAIN playspecs : Validate(playspecs[i].doc)
  /\ pc \in [Threads -> Points]
  /\ req \in [Threads -> Requests \cup {None}]
  /\ left \in [requests : 0 .. MaxRequests, troubles : 0 .. MaxTroubles]

(***************************************************************************)
(* A launch that is refused leaves no row it made, whatever happened at    *)
(* the same time; only a failing cleanup may leave some.                   *)
(***************************************************************************)
FailedLaunchLeavesNothing ==
  \A t \in Threads :
    answer[t] = "refused" =>
      /\ made[t].playspec \notin DOMAIN playspecs
      /\ made[t].prop \notin DOMAIN props
      /\ made[t].playground = None

(***************************************************************************)
(* The synced columns of a Prop are never those of another repository,     *)
(* however its updates and syncs interleave.                               *)
(***************************************************************************)
MetadataMatchesRepository ==
  \A i \in DOMAIN props : props[i].meta \in {None, Canonical[props[i].repo].id}

(***************************************************************************)
(* What a request asks for a service, told without labels: the nested      *)
(* exposure, else the flat field, else the subdomain map, else what the    *)
(* document says once its variables have their values.                     *)
(***************************************************************************)
VariableValue(s, x) ==
  IF x \in DOMAIN s.variables /\ ~IsBlank(s.variables[x])
  THEN s.variables[x].text ELSE s.doc.variables[x].default.text

Declared(s, n, k) ==
  LET bound == {x \in DOMAIN s.doc.variables : <<n, k>> \in s.doc.variables[x].path}
      v == Label(s.doc.services[n], k)
  IN  IF bound # {} THEN VariableValue(s, CHOOSE x \in bound : TRUE)
      ELSE IF ContainsVariable(v) THEN VariableValue(s, v.token) ELSE v.text

Overrides(s, n) == IF n \in DOMAIN s.services THEN s.services[n] ELSE Empty

Exposure(s, n) ==
  IF "exposure" \in DOMAIN Overrides(s, n) THEN Overrides(s, n).exposure ELSE Empty

Asked(s, n, nested, flat, k) ==
  IF nested \in DOMAIN Exposure(s, n) THEN Exposure(s, n)[nested].text
  ELSE IF flat \in DOMAIN Overrides(s, n) THEN Overrides(s, n)[flat].text
  ELSE IF k = "subdomain" /\ n \in DOMAIN s.subdomains THEN s.subdomains[n].text
  ELSE Declared(s, n, k)

AskedPort(s, n) ==
  LET port == Asked(s, n, "port", "exposure_port", "port")
  IN  IF Disabled(Exposure(s, n)) THEN ""
      ELSE IF port = "" /\ "enabled" \in DOMAIN Exposure(s, n) THEN "80" ELSE port

OwnAuth(s, n) == "basicauth.users" \in DOMAIN s.doc.services[n].labels

(***************************************************************************)
(* A service is routed exactly when that is asked, under the host asked,   *)
(* behind a password exactly when it is internal and brings no users, and  *)
(* never by a port of the host.                                            *)
(***************************************************************************)
AsAsked(s, n) ==
  LET subdomain == Asked(s, n, "subdomain", "subdomain", "subdomain")
      internal == Asked(s, n, "visibility", "exposure_visibility", "visibility") = "internal"
  IN  /\ s.runtime[n].ports = {}
      /\ s.runtime[n].routes = {} <=> AskedPort(s, n) = ""
      /\ \A r \in s.runtime[n].routes :
           /\ r.hosts = {<<IF subdomain = "" THEN n ELSE subdomain, Domain>>}
           /\ r.auth # Unprotected <=> internal /\ ~OwnAuth(s, n)
           /\ r.auth # Unprotected => r.auth.router = "secure" /\ r.auth.users # ""

ServedAsAsked ==
  \A g \in DOMAIN served : \A n \in DOMAIN served[g].runtime : AsAsked(served[g], n)

(***************************************************************************)
(* No Playground loses its Playspec: a Playspec is deleted only while no   *)
(* Playground refers to it ("Delete deletes an unused Playspec"), and the  *)
(* cleanup of a launch "removes records created by a failed launch".       *)
(***************************************************************************)
PlaygroundKeepsPlayspec == \A g \in DOMAIN playgrounds : playgrounds[g].playspec # None
=============================================================================
