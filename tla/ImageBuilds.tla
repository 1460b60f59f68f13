----------------------------- MODULE ImageBuilds -----------------------------
(***************************************************************************)
(* Dynamic image builds: every deployment and every push builds the        *)
(* services of its Playspec one after the other.  A build inserts its own  *)
(* record, looks for an equivalent record whose image is still on the      *)
(* host, may wait for one that is being built, and otherwise runs docker   *)
(* build under a tag made of project, service and commit.                  *)
(*                                                                         *)
(* One action is one SQL statement or one host command.                    *)
(***************************************************************************)
EXTENDS Integers, Sequences

CONSTANTS
  Builders,     \* deployments and pushes that build images
  Playgrounds,  \* each has one compose project and one checkout per service
  Props,        \* the playgrounds whose repository is a known Prop
  Services,     \* the sequence of services that need a build
  Digests,      \* identities of a build: dockerfile, target, arguments
  MaxCommit,    \* bound on the commits a checkout moves through
  MaxMishaps,   \* bound on failing host commands and process restarts
  None

ASSUME ConstantsAssumption ==
  /\ Props \subseteq Playgrounds
  /\ Services \in Seq(STRING) /\ Services # <<>>
  /\ MaxCommit \in Nat
  /\ MaxMishaps \in Nat
  /\ None \notin Playgrounds \cup Digests \cup Nat

(***************************************************************************)
(* State.                                                                  *)
(*   recs    the table build_records; a record is its position             *)
(*   images  labels of the local images, by tag                            *)
(*   head    the commit each playground's checkout is at                   *)
(*   pc      where each builder is                                         *)
(*   plan    what it builds: playground, digest, and index into Services   *)
(*   mine    its record and the copy of it                                 *)
(*   cands   the records it listed and still has to look at, by their ids   *)
(***************************************************************************)
VARIABLES recs, images, head, pc, plan, mine, cands, mishaps

vars == <<recs, images, head, pc, plan, mine, cands, mishaps>>

Commits == 0 .. MaxCommit

Statuses == {"pending", "building", "success", "failed"}

Refs == [pg : Playgrounds, service : STRING, commit : Commits]

Labels == [commit : Commits, digest : Digests]

Record == [pg : Playgrounds, prop : BOOLEAN, service : STRING, digest : Digests,
           commit : Commits \cup {None}, status : Statuses,
           image : Refs \cup {None}, reused : BOOLEAN]

Plan == [pg : Playgrounds, digest : Digests, at : 1 .. Len(Services)]

NothingListed == [i \in {} |-> None]

Mine == [id : Nat, rec : Record]

ASSUME NoneAssumption == None \notin Plan \cup Refs \cup Mine

Points == {"new", "create", "commit", "list", "verify", "await", "poll", "reuse",
           "mark", "docker", "save", "fail", "done", "failed", "dead"}

Init ==
  /\ recs = <<>>
  /\ images = [r \in {} |-> None]
  /\ head = [g \in Playgrounds |-> 0]
  /\ pc = [b \in Builders |-> "new"]
  /\ plan = [b \in Builders |-> None]
  /\ mine = [b \in Builders |-> None]
  /\ cands = [b \in Builders |-> NothingListed]
  /\ mishaps = 0

-----------------------------------------------------------------------------
Goto(b, point) == pc' = [pc EXCEPT ![b] = point]

Mishap == mishaps < MaxMishaps /\ mishaps' = mishaps + 1

Copy(b) == mine[b].rec

ServiceOf(b) == Services[plan[b].at]

(***************************************************************************)
(* DeterministicImageRef: project, service and commit - not the identity.  *)
(***************************************************************************)
DeterministicImageRef(pg, service, commit) ==
  [pg |-> pg, service |-> service, commit |-> commit]

(***************************************************************************)
(* NewPendingRecord.                                                       *)
(***************************************************************************)
NewPendingRecord(b) ==
  [pg |-> plan[b].pg, prop |-> plan[b].pg \in Props, service |-> ServiceOf(b),
   digest |-> plan[b].digest, commit |-> None, status |-> "pending",
   image |-> None, reused |-> FALSE]

(***************************************************************************)
(* Faulty: the query does not compare the identity.                        *)
(***************************************************************************)
ReusableByCommit(rec, key) ==
  /\ rec.prop = key.prop
  /\ ~key.prop => rec.pg = key.pg /\ rec.service = key.service
  /\ rec.commit = key.commit
  /\ rec.status \in {"success", "building"}

(***************************************************************************)
(* ListReusableBuildRecords: across playgrounds and services when the      *)
(* repository is a known Prop, else of this playground and service.        *)
(***************************************************************************)
Reusable(rec, key) ==
  /\ rec.prop = key.prop
  /\ ~key.prop => rec.pg = key.pg /\ rec.service = key.service
  /\ rec.commit = key.commit
  /\ rec.digest = key.digest
  /\ rec.status \in {"success", "building"}

Listed(key) ==
  [i \in {j \in DOMAIN recs : Reusable(recs[j], key)} |-> recs[i]]

(***************************************************************************)
(* ImageExistsForBuild compares the labels of the image a record names.    *)
(***************************************************************************)
ImageExistsForBuild(rec) ==
  /\ rec.image \in DOMAIN images
  /\ images[rec.image].commit = rec.commit
  /\ images[rec.image].digest = rec.digest

(***************************************************************************)
(* SaveBuildRecord writes the whole copy.                                  *)
(***************************************************************************)
SaveBuildRecord(b, rec) == recs' = [recs EXCEPT ![mine[b].id] = rec]

Keep(b, rec) == mine' = [mine EXCEPT ![b] = [id |-> mine[b].id, rec |-> rec]]

-----------------------------------------------------------------------------
(***************************************************************************)
(* buildServices takes the services in order and ends at the first that    *)
(* fails.                                                                  *)
(***************************************************************************)
Begin(b) ==
  /\ pc[b] = "new"
  /\ \E pg \in Playgrounds, digest \in Digests :
       plan' = [plan EXCEPT ![b] = [pg |-> pg, digest |-> digest, at |-> 1]]
  /\ Goto(b, "create")
  /\ UNCHANGED <<recs, images, head, mine, cands, mishaps>>

NextService(b) ==
  IF plan[b].at < Len(Services)
  THEN plan' = [plan EXCEPT ![b] = [plan[b] EXCEPT !.at = @ + 1]] /\ Goto(b, "create")
  ELSE UNCHANGED plan /\ Goto(b, "done")

(***************************************************************************)
(* Faulty: the id is the last one before the insert.                       *)
(***************************************************************************)
CreateBuildRecordStaleId(b) ==
  /\ pc[b] = "create"
  /\ recs' = Append(recs, NewPendingRecord(b))
  /\ mine' = [mine EXCEPT ![b] = [id |-> Len(recs), rec |-> NewPendingRecord(b)]]
  /\ Goto(b, "commit")
  /\ UNCHANGED <<images, head, plan, cands, mishaps>>

(***************************************************************************)
(* newBuildRecordWithCommit: insert the pending record, then read HEAD.    *)
(***************************************************************************)
CreateBuildRecord(b) ==
  /\ pc[b] = "create"
  /\ recs' = Append(recs, NewPendingRecord(b))
  /\ mine' = [mine EXCEPT ![b] = [id |-> Len(recs) + 1, rec |-> NewPendingRecord(b)]]
  /\ Goto(b, "commit")
  /\ UNCHANGED <<images, head, plan, cands, mishaps>>

(***************************************************************************)
(* AttachCommit sets commit and tag in the copy only; the row keeps them   *)
(* empty until the next save.                                              *)
(***************************************************************************)
AttachCommit(b, commit) ==
  [Copy(b) EXCEPT !.commit = commit,
                  !.image = DeterministicImageRef(plan[b].pg, ServiceOf(b), commit)]

(***************************************************************************)
(* Faulty: the record is marked building before the search for others.     *)
(***************************************************************************)
ResolveAndMark(b) ==
  /\ pc[b] = "commit"
  /\ Keep(b, [AttachCommit(b, head[plan[b].pg]) EXCEPT !.status = "building"])
  /\ SaveBuildRecord(b, [AttachCommit(b, head[plan[b].pg]) EXCEPT !.status = "building"])
  /\ Goto(b, "list")
  /\ UNCHANGED <<images, head, plan, cands, mishaps>>

ResolveSourceCommit(b) ==
  /\ pc[b] = "commit"
  /\ \/ Keep(b, AttachCommit(b, head[plan[b].pg])) /\ Goto(b, "list") /\ UNCHANGED mishaps
     \/ Mishap /\ Goto(b, "fail") /\ UNCHANGED mine
  /\ UNCHANGED <<recs, images, head, plan, cands>>

ListReusable(b) ==
  /\ pc[b] = "list"
  /\ cands' = [cands EXCEPT ![b] = Listed(Copy(b))]
  /\ Goto(b, "verify")
  /\ UNCHANGED <<recs, images, head, plan, mine, mishaps>>

(***************************************************************************)
(* The query orders by id, the newest record first, and so go all loops    *)
(* over its result.                                                        *)
(***************************************************************************)
Newest(i, ids) == i \in ids /\ \A j \in ids : j <= i

LookOnlyAt(b, ids) ==
  cands' = [cands EXCEPT ![b] = [i \in ids |-> cands[b][i]]]

(***************************************************************************)
(* verifiedReusableBuildRecord over the successful candidates; then the    *)
(* candidates that are being built and that started less than              *)
(* defaultBuildStaleTimeout ago - any of them, for time is not modelled -  *)
(* are worth waiting for.                                                  *)
(***************************************************************************)
Succeeded(b) == {i \in DOMAIN cands[b] : cands[b][i].status = "success"}

Waitable(b, fresh) ==
  {i \in fresh : cands[b][i].status = "building" /\ i # mine[b].id}

VerifySuccess(b) ==
  /\ pc[b] = "verify"
  /\ \/ \E i \in Succeeded(b) :
          /\ Newest(i, Succeeded(b))
          /\ \/ /\ ImageExistsForBuild(cands[b][i])
                /\ LookOnlyAt(b, {i})
                /\ Goto(b, "reuse")
             \/ /\ ~ImageExistsForBuild(cands[b][i])
                /\ LookOnlyAt(b, DOMAIN cands[b] \ {i})
                /\ UNCHANGED pc
     \/ /\ Succeeded(b) = {}
        /\ \E fresh \in SUBSET DOMAIN cands[b] : LookOnlyAt(b, Waitable(b, fresh))
        /\ Goto(b, "await")
  /\ UNCHANGED <<recs, images, head, plan, mine, mishaps>>

(***************************************************************************)
(* waitForReusableBuildRecord: the image of a record still building counts *)
(* if it is there; otherwise poll the record.                              *)
(***************************************************************************)
AwaitBuilding(b) ==
  /\ pc[b] = "await"
  /\ \/ DOMAIN cands[b] = {} /\ Goto(b, "mark") /\ UNCHANGED cands
     \/ \E i \in DOMAIN cands[b] :
          /\ Newest(i, DOMAIN cands[b])
          /\ \/ /\ ImageExistsForBuild(cands[b][i])
                /\ LookOnlyAt(b, {i})
                /\ Goto(b, "reuse")
             \/ /\ ~ImageExistsForBuild(cands[b][i])
                /\ Goto(b, "poll")
                /\ UNCHANGED cands
  /\ UNCHANGED <<recs, images, head, plan, mine, mishaps>>

(***************************************************************************)
(* One tick of pollReusableBuildRecord that ends the wait: the record is   *)
(* settled, or the deadline has passed.                                    *)
(***************************************************************************)
Polled(i) == recs[i]

Ignore(b, i) ==
  /\ LookOnlyAt(b, DOMAIN cands[b] \ {i})
  /\ Goto(b, "await")

Poll(b) ==
  /\ pc[b] = "poll"
  /\ \E i \in DOMAIN cands[b] :
       /\ Newest(i, DOMAIN cands[b])
       /\ \/ /\ Polled(i).status = "success"
             /\ ImageExistsForBuild(Polled(i))
             /\ cands' = [cands EXCEPT ![b] = [j \in {i} |-> Polled(j)]]
             /\ Goto(b, "reuse")
          \/ /\ \/ Polled(i).status = "failed"
                \/ Polled(i).status = "success" /\ ~ImageExistsForBuild(Polled(i))
             /\ Ignore(b, i)
  /\ UNCHANGED <<recs, images, head, plan, mine, mishaps>>

(***************************************************************************)
(* Faulty: there is no deadline; only a settled record ends the wait.      *)
(***************************************************************************)
PollUntilSettled(b) ==
  /\ pc[b] = "poll"
  /\ \E i \in DOMAIN cands[b] :
       /\ Newest(i, DOMAIN cands[b])
       /\ Polled(i).status \in {"success", "failed"}
       /\ Ignore(b, i)
  /\ UNCHANGED <<recs, images, head, plan, mine, mishaps>>

PollDeadline(b) ==
  /\ pc[b] = "poll"
  /\ \E i \in DOMAIN cands[b] : Newest(i, DOMAIN cands[b]) /\ Ignore(b, i)
  /\ UNCHANGED <<recs, images, head, plan, mine, mishaps>>

(***************************************************************************)
(* A host command that looks for an image can fail, and the build with it. *)
(***************************************************************************)
LookFails(b) ==
  /\ pc[b] \in {"verify", "await", "poll"}
  /\ Mishap
  /\ Goto(b, "fail")
  /\ UNCHANGED <<recs, images, head, plan, mine, cands>>

(***************************************************************************)
(* A builder that leaves its record forgets it.                            *)
(***************************************************************************)
Forget(b) ==
  /\ mine' = [mine EXCEPT ![b] = None]
  /\ cands' = [cands EXCEPT ![b] = NothingListed]

(***************************************************************************)
(* Faulty: a reused image leaves its own record pending.                   *)
(***************************************************************************)
SaveNothingReused(b) ==
  /\ pc[b] = "reuse"
  /\ NextService(b)
  /\ Forget(b)
  /\ UNCHANGED <<recs, images, head, mishaps>>

SaveReused(b) ==
  /\ pc[b] = "reuse"
  /\ \E i \in DOMAIN cands[b] :
       SaveBuildRecord(b, [Copy(b) EXCEPT !.status = "success", !.reused = TRUE,
                                          !.image = cands[b][i].image])
  /\ NextService(b)
  /\ Forget(b)
  /\ UNCHANGED <<images, head, mishaps>>

(***************************************************************************)
(* runFreshBuildRecord: mark the record building, build, save.             *)
(***************************************************************************)
SaveBuilding(b) ==
  /\ pc[b] = "mark"
  /\ SaveBuildRecord(b, [Copy(b) EXCEPT !.status = "building"])
  /\ Keep(b, [Copy(b) EXCEPT !.status = "building"])
  /\ Goto(b, "docker")
  /\ UNCHANGED <<images, head, plan, cands, mishaps>>

BuildImage(b) ==
  /\ pc[b] = "docker"
  /\ \/ /\ images' = [r \in DOMAIN images \cup {Copy(b).image} |->
                        IF r = Copy(b).image
                        THEN [commit |-> Copy(b).commit, digest |-> Copy(b).digest]
                        ELSE images[r]]
        /\ Goto(b, "save")
        /\ UNCHANGED mishaps
     \/ Mishap /\ Goto(b, "fail") /\ UNCHANGED images
  /\ UNCHANGED <<recs, head, plan, mine, cands>>

SaveSuccessful(b) ==
  /\ pc[b] = "save"
  /\ SaveBuildRecord(b, [Copy(b) EXCEPT !.status = "success"])
  /\ NextService(b)
  /\ Forget(b)
  /\ UNCHANGED <<images, head, mishaps>>

FailBuildRecord(b) ==
  /\ pc[b] = "fail"
  /\ SaveBuildRecord(b, [Copy(b) EXCEPT !.status = "failed"])
  /\ Goto(b, "failed")
  /\ Forget(b)
  /\ UNCHANGED <<images, head, plan, mishaps>>

-----------------------------------------------------------------------------
(***************************************************************************)
(* Around the builds: a source sync moves a checkout - one that nobody     *)
(* builds from may as well move later - and the process dies, leaving its  *)
(* records as they are.                                                    *)
(***************************************************************************)
SourceMoves ==
  /\ \E b \in Builders :
       /\ plan[b] # None
       /\ head[plan[b].pg] < MaxCommit
       /\ head' = [head EXCEPT ![plan[b].pg] = @ + 1]
  /\ UNCHANGED <<recs, images, pc, plan, mine, cands, mishaps>>

Crash ==
  /\ Mishap
  /\ pc' = [b \in Builders |-> IF pc[b] \in {"new", "done", "failed"} THEN pc[b] ELSE "dead"]
  /\ mine' = [b \in Builders |-> None]
  /\ cands' = [b \in Builders |-> NothingListed]
  /\ UNCHANGED <<recs, images, head, plan>>

-----------------------------------------------------------------------------
Build(b) ==
  \/ CreateBuildRecord(b) \/ ResolveSourceCommit(b) \/ ListReusable(b)
  \/ VerifySuccess(b) \/ AwaitBuilding(b) \/ Poll(b) \/ PollDeadline(b)
  \/ LookFails(b) \/ SaveReused(b) \/ SaveBuilding(b) \/ BuildImage(b) \/ SaveSuccessful(b)
  \/ FailBuildRecord(b)

Next ==
  \/ \E b \in Builders : Begin(b) \/ Build(b)
  \/ SourceMoves \/ Crash

Spec == Init /\ [][Next]_vars

(***************************************************************************)
(* A build once begun goes on: docker build has a timeout of 45 minutes,   *)
(* and so has every wait.                                                  *)
(***************************************************************************)
FairSpec == Spec /\ \A b \in Builders : WF_vars(Build(b))

-----------------------------------------------------------------------------
(***************************************************************************)
(* Every variable has the type its declaration promises.                   *)
(***************************************************************************)
TypeOK ==
  /\ recs \in Seq(Record)
  /\ DOMAIN images \subseteq Refs
  /\ images \in [DOMAIN images -> Labels]
  /\ head \in [Playgrounds -> Commits]
  /\ pc \in [Builders -> Points]
  /\ plan \in [Builders -> Plan \cup {None}]
  /\ mine \in [Builders -> Mine \cup {None}]
  /\ \A b \in Builders : mine[b] # None => mine[b].id \in DOMAIN recs
  /\ DOMAIN cands = Builders
  /\ \A b \in Builders : /\ DOMAIN cands[b] \subseteq DOMAIN recs
                        /\ cands[b] \in [DOMAIN cands[b] -> Record]
  /\ mishaps \in 0 .. MaxMishaps

(***************************************************************************)
(* A deployment is never given the image of another commit or of another   *)
(* identity, fresh or reused, from this playground or from another.  The   *)
(* tag does not name the identity: builds of one playground under two      *)
(* identities overwrite each other's image, and are left out.              *)
(***************************************************************************)
Undisputed(ref) ==
  \A b, c \in {d \in Builders : plan[d] # None} :
    plan[b].pg = ref.pg /\ plan[c].pg = ref.pg => plan[b].digest = plan[c].digest

Completes(b) == pc[b] \in {"save", "reuse"} /\ mine'[b] = None /\ pc'[b] # "dead"

ServedImage ==
  [][\A b \in Builders :
       Completes(b) => LET rec == recs'[mine[b].id]
                       IN  Undisputed(rec.image) => ImageExistsForBuild(rec)]_vars

(***************************************************************************)
(* Nobody waits for a build that is itself waiting: however many builds of *)
(* one commit begin at once, their waits cannot form a cycle.              *)
(***************************************************************************)
NoWaitCycle ==
  \A b, c \in Builders :
    pc[b] = "poll" /\ pc[c] \in {"list", "verify", "await", "poll"}
      => mine[c].id \notin DOMAIN cands[b]

(***************************************************************************)
(* A record left pending or building is one that a build still works on,   *)
(* or that a crash left behind.                                            *)
(***************************************************************************)
OpenRecordHasOwner ==
  (\A b \in Builders : pc[b] # "dead") =>
    \A i \in DOMAIN recs :
      recs[i].status \in {"pending", "building"} =>
        \E b \in Builders : mine[b] # None /\ mine[b].id = i

(***************************************************************************)
(* Every build comes to an end, also one that waits for a record whose     *)
(* builder died.                                                           *)
(***************************************************************************)
BuildEnds ==
  \A b \in Builders : pc[b] = "create" ~> pc[b] \in {"done", "failed", "dead"}
=============================================================================
