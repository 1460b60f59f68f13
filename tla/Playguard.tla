----------------------------- MODULE Playguard -----------------------------
(***************************************************************************)
(* Background reconciliation of one Playground: the Playguard loop         *)
(* (expiration, source sync, runtime refresh and repair, orphan sweep)     *)
(* beside the requests and the push webhook that work on the same row and  *)
(* the same project directory.                                             *)
(*                                                                         *)
(* One action is one SQL statement or one host command.  Consecutive reads *)
(* of the row with no write of the same process between them are one step: *)
(* the last of them decides.  A deployment is three steps here, each saved *)
(* under the guard that PlaygroundLifecycle models in full.                *)
(***************************************************************************)
EXTENDS Integers

CONSTANTS
  Requests,    \* requests and webhook deliveries, each run once
  Kinds,       \* what they may be
  Guard,       \* the Playguard goroutine
  MaxClock,    \* bound on the clock that expirations are compared with
  MaxMishaps,  \* bound on failing host commands and unready routes, on what
               \* happens to the host from outside, and on process restarts
  None         \* no value

AllKinds == {"deploy", "stop", "delete", "extend", "edit", "push", "refresh"}

ASSUME ConstantsAssumption ==
  /\ Guard \notin Requests
  /\ Kinds \subseteq AllKinds
  /\ MaxClock \in Nat
  /\ MaxMishaps \in Nat

Procs == Requests \cup {Guard}

-----------------------------------------------------------------------------
(***************************************************************************)
(* State.                                                                  *)
(*   row    status, state_reason ("sync" for every source_sync_ reason),   *)
(*          expires_at, and whether playguard_repair_lock_until lies ahead *)
(*   rt     the host: project directory, compose.yml (as rendered, changed *)
(*          or missing), containers (down, as rendered, or of another      *)
(*          image), and whether the checkouts hold local work              *)
(*   pc     where each process is                                          *)
(*   mem    the copy of the row it works on                                *)
(*   want   the status it expects to find when it reloads the row          *)
(*   obs    what it last saw on the host                                   *)
(*   now    the tick of the current pass; clock is the time                *)
(***************************************************************************)
VARIABLES row, rt, pc, mem, want, obs, now, clock, mishaps

vars == <<row, rt, pc, mem, want, obs, now, clock, mishaps>>

Stored == {"in_progress", "running", "has_changes", "error", "stopping",
           "stopped", "destroying"}

Times == Nat \cup {None}

Row == [status  : Stored \cup {"none", "deleted"},
        reason  : {"none", "sync", "other"},
        expires : Times,
        lock    : BOOLEAN]

Blank == [status |-> "none", reason |-> "none", expires |-> None, lock |-> FALSE]

Runtime == [dir     : BOOLEAN,
            compose : {"none", "good", "other"},
            up      : {"down", "ok", "other"},
            src     : {"clean", "dirty"}]

RefreshPoints == {"inspect", "observe", "observed", "drift", "repair", "resync",
                  "preserve", "redeploy", "up", "settle", "clean", "cleanrm",
                  "save"}

GuardPoints == {"tick", "load", "reload", "dirty", "expire", "down", "rm",
                "downfail", "expired", "delete", "sweep", "rows", "reap",
                "reaprm"}

SyncPoints == {"sync", "record", "synced"}

RequestPoints == {"new", "done", "deploy", "deployed", "failed", "build",
                  "built", "stopping", "halt", "halted", "haltfail",
                  "destroying", "destroy", "destroyrm", "destroyed",
                  "destroyfail"}

Points == RefreshPoints \cup GuardPoints \cup SyncPoints \cup RequestPoints

Observations == {"missing", "failed", "ready", "dir", "down", "ok", "other", "clean", "dirty"}

ASSUME NoneAssumption == None \notin Int \cup Observations

Seen == Observations \cup Stored \cup {None}

Init ==
  /\ row = Blank
  /\ rt = [dir |-> FALSE, compose |-> "none", up |-> "down", src |-> "clean"]
  /\ pc = [p \in Procs |-> IF p = Guard THEN "tick" ELSE "new"]
  /\ mem = [p \in Procs |-> Blank]
  /\ want = [p \in Procs |-> None]
  /\ obs = [p \in Procs |-> None]
  /\ now = 0
  /\ clock = 0
  /\ mishaps = 0

locals == <<mem, want, obs>>
world == <<now, clock>>

-----------------------------------------------------------------------------
(***************************************************************************)
(* Helpers.                                                                *)
(***************************************************************************)
Exists == row.status \in Stored

Goto(p, point) == pc' = [pc EXCEPT ![p] = point]

Mishap == mishaps < MaxMishaps /\ mishaps' = mishaps + 1

(***************************************************************************)
(* A process that returns forgets its copies.  A pass goes on with the     *)
(* orphan sweep, whatever reconcileCurrentPlayground returned.             *)
(***************************************************************************)
ReturnTo(p, point) ==
  /\ Goto(p, point)
  /\ mem' = [mem EXCEPT ![p] = Blank]
  /\ want' = [want EXCEPT ![p] = None]
  /\ obs' = [obs EXCEPT ![p] = None]

(***************************************************************************)
(* Faulty: a pass whose playground is gone ends without the sweep.         *)
(***************************************************************************)
ReturnSweepless(p) ==
  ReturnTo(p, IF p # Guard THEN "done" ELSE IF Exists THEN "sweep" ELSE "tick")

Return(p) == ReturnTo(p, IF p = Guard THEN "sweep" ELSE "done")

(***************************************************************************)
(* Go on at a point with a copy of the row.                                *)
(***************************************************************************)
Take(p, pg, point) ==
  /\ mem' = [mem EXCEPT ![p] = pg]
  /\ Goto(p, point)
  /\ UNCHANGED <<want, obs>>

(***************************************************************************)
(* currentRefreshPlayground and currentSourceSyncPlayground: reload the    *)
(* row; the work is superseded when its status has changed.                *)
(***************************************************************************)
Current(p) == Exists /\ row.status = want[p]

(***************************************************************************)
(* SavePlayground: the whole copy, on no condition but the id.             *)
(***************************************************************************)
Saved(p) == row' = IF Exists THEN mem[p] ELSE row

SetStatus(pg, status, reason) ==
  [pg EXCEPT !.status = status, !.reason = reason]

(***************************************************************************)
(* Host commands.                                                          *)
(***************************************************************************)
See(p, what, point) ==
  /\ obs' = [obs EXCEPT ![p] = what]
  /\ Goto(p, point)
  /\ UNCHANGED <<mem, want>>

DownHost == rt' = [rt EXCEPT !.up = "down"]

RemoveHost == rt' = [rt EXCEPT !.dir = FALSE, !.compose = "none", !.src = "clean"]

DeployHost == rt' = [rt EXCEPT !.dir = TRUE, !.compose = "good", !.up = "ok"]

(***************************************************************************)
(* DestroyCompose: tear the containers down, then remove the directory.    *)
(***************************************************************************)
TearDown(p, from, next, failed) ==
  /\ pc[p] = from
  /\ \/ DownHost /\ Goto(p, next) /\ UNCHANGED mishaps
     \/ Mishap /\ Goto(p, failed) /\ UNCHANGED rt
  /\ UNCHANGED <<row, locals, world>>

-----------------------------------------------------------------------------
(***************************************************************************)
(* Policy (internal/playguard).                                            *)
(***************************************************************************)
ExpirableStatus(status) == status \in {"running", "has_changes"}

ShouldSyncSources(pg) ==
  \/ pg.status \in {"running", "has_changes"}
  \/ pg.status = "error" /\ pg.reason = "sync"

ShouldRefreshRuntime(pg) ==
  pg.reason # "sync" /\ pg.status \in {"running", "error", "stopped"}

Expired(pg, t) == pg.expires # None /\ t > pg.expires

(***************************************************************************)
(* expirationClaim.matches: mem holds the row that was claimed.            *)
(***************************************************************************)
ClaimMatches(p) ==
  /\ Exists
  /\ row.status = mem[p].status
  /\ ExpirableStatus(row.status)
  /\ row.expires = mem[p].expires
  /\ Expired(row, now)

-----------------------------------------------------------------------------
(***************************************************************************)
(* Faulty: the time is taken once, when the loop starts.                   *)
(***************************************************************************)
PassTickFrozen(p) ==
  /\ p = Guard /\ pc[p] = "tick"
  /\ Goto(p, "load")
  /\ UNCHANGED <<row, rt, locals, world, mishaps>>

(***************************************************************************)
(* The loop: a tick fixes the time of the pass, the row is loaded, and     *)
(* reconcilePlayground picks expiration, source sync or runtime refresh.   *)
(***************************************************************************)
PassTick(p) ==
  /\ p = Guard /\ pc[p] = "tick"
  /\ now' = clock
  /\ Goto(p, "load")
  /\ UNCHANGED <<row, rt, locals, clock, mishaps>>

Begin(p, point) ==
  /\ mem' = [mem EXCEPT ![p] = row]
  /\ want' = [want EXCEPT ![p] = row.status]
  /\ Goto(p, point)
  /\ UNCHANGED obs

PassLoad(p) ==
  /\ pc[p] = "load"
  /\ \/ Exists /\ Expired(row, now) /\ ExpirableStatus(row.status) /\ Begin(p, "dirty")
     \/ /\ ~(Expired(row, now) /\ ExpirableStatus(row.status))
        /\ \/ Exists /\ ShouldSyncSources(row) /\ Begin(p, "sync")
           \/ ~ShouldSyncSources(row) /\ ShouldRefreshRuntime(row) /\ Begin(p, "inspect")
           \/ ~ShouldSyncSources(row) /\ ~ShouldRefreshRuntime(row) /\ Return(p)
  /\ UNCHANGED <<row, rt, mishaps, world>>

(***************************************************************************)
(* Faulty: the row is not looked for again.                                *)
(***************************************************************************)
PassReloadUnchecked(p) ==
  /\ pc[p] = "reload"
  /\ Begin(p, "inspect")
  /\ UNCHANGED <<row, rt, mishaps, world>>

(***************************************************************************)
(* reloadPlaygroundAfterSourceSync, then refreshPlaygroundRuntimeIfNeeded. *)
(***************************************************************************)
PassReload(p) ==
  /\ pc[p] = "reload"
  /\ \/ ShouldRefreshRuntime(row) /\ Begin(p, "inspect")
     \/ ~ShouldRefreshRuntime(row) /\ Return(p)
  /\ UNCHANGED <<row, rt, mishaps, world>>

-----------------------------------------------------------------------------
(***************************************************************************)
(* Source sync, of a pass or of a push: run the checkouts, then record a   *)
(* failure or clear an earlier one, if the row still has the status the    *)
(* sync began under.                                                       *)
(***************************************************************************)
SyncRun(p) ==
  /\ pc[p] = "sync"
  /\ \/ See(p, rt.src, "record") /\ UNCHANGED mishaps
     \/ Mishap /\ See(p, "failed", "record")
  /\ UNCHANGED <<row, rt, world>>

(***************************************************************************)
(* classifiedSourceSyncFailurePlayground keeps local work in has_changes;  *)
(* every other failure is an error.                                        *)
(***************************************************************************)
SyncResult(p) ==
  CASE obs[p] = "dirty"  -> SetStatus(row, "has_changes", "sync")
    [] obs[p] = "failed" -> SetStatus(row, "error", "sync")
    [] row.status = "has_changes" /\ row.reason = "sync"
                         -> SetStatus(row, "running", "none")
    [] OTHER             -> row

(***************************************************************************)
(* What follows a sync: a pass reloads the row; a push whose sync failed   *)
(* ends, and one that succeeded builds its services or refreshes.          *)
(***************************************************************************)
AfterSync(p) ==
  \/ p = Guard /\ ReturnTo(p, "reload")
  \/ p # Guard /\ obs[p] # "clean" /\ Return(p)
  \/ p # Guard /\ obs[p] = "clean" /\ ReturnTo(p, "build")
  \/ p # Guard /\ obs[p] = "clean" /\ ReturnTo(p, "reload")

SyncRecord(p) ==
  /\ pc[p] = "record"
  /\ \/ Current(p) /\ SyncResult(p) # row /\ Take(p, SyncResult(p), "synced")
     \/ ~Exists /\ Return(p)
     \/ Exists /\ (Current(p) => SyncResult(p) = row) /\ AfterSync(p)
  /\ UNCHANGED <<row, rt, mishaps, world>>

SyncSave(p) ==
  /\ pc[p] = "synced"
  /\ Saved(p)
  /\ IF Exists THEN AfterSync(p) ELSE Return(p)
  /\ UNCHANGED <<rt, mishaps, world>>

-----------------------------------------------------------------------------
(***************************************************************************)
(* RefreshPlayground, of a pass, of POST .../status/refresh or of a push:  *)
(* inspect the services, reload the row, save what was seen or repair.     *)
(***************************************************************************)
RefreshInspect(p) ==
  /\ pc[p] = "inspect"
  /\ \/ See(p, IF rt.compose = "none" THEN "missing" ELSE rt.up, "observe")
        /\ UNCHANGED mishaps
     \/ Mishap /\ See(p, "failed", "observe")
  /\ UNCHANGED <<row, rt, world>>

(***************************************************************************)
(* Faulty: containers that are down do not change the status.              *)
(***************************************************************************)
ObservedUp(p, ready) ==
  IF obs[p] = "ok" /\ ready THEN SetStatus(row, "running", "none") ELSE row

(***************************************************************************)
(* applyObservedRuntimeStatus.  A routed service that runs but does not    *)
(* answer yet leaves the status alone.                                     *)
(***************************************************************************)
Observed(p, ready) ==
  CASE obs[p] = "ok" /\ ready  -> SetStatus(row, "running", "none")
    [] obs[p] = "ok" /\ ~ready -> row
    [] row.status \in {"running", "in_progress"} -> [row EXCEPT !.status = "stopped"]
    [] OTHER -> row

(***************************************************************************)
(* repairRuntimeDrift begins unless the cooldown of an earlier repair      *)
(* lasts; MarkRuntimeRepairStarted sets the lock in the copy.              *)
(***************************************************************************)
BeginRepair(p) ==
  \/ row.lock /\ Return(p)
  \/ ~row.lock /\ Take(p, [row EXCEPT !.lock = TRUE], "resync")

RepairableInspection(p) ==
  obs[p] = "other" \/ (obs[p] = "missing" /\ row.status = "running")

RefreshObserve(p) ==
  /\ pc[p] = "observe"
  /\ \/ ~Current(p) /\ Return(p) /\ UNCHANGED mishaps
     \/ Current(p) /\ RepairableInspection(p) /\ BeginRepair(p) /\ UNCHANGED mishaps
     \/ /\ Current(p) /\ obs[p] = "missing" /\ row.status = "in_progress"
        /\ Return(p) /\ UNCHANGED mishaps
     \/ /\ Current(p)
        /\ \/ obs[p] = "failed"
           \/ obs[p] = "missing" /\ row.status \notin {"running", "in_progress"}
        /\ Take(p, SetStatus(row, "error", "other"), "save") /\ UNCHANGED mishaps
     \/ /\ Current(p) /\ obs[p] \in {"down", "ok"}
        /\ Take(p, Observed(p, TRUE), "observed") /\ UNCHANGED mishaps
     \/ /\ Current(p) /\ obs[p] = "ok"
        /\ Mishap /\ Take(p, Observed(p, FALSE), "observed")
  /\ UNCHANGED <<row, rt, world>>

RefreshSave(p) ==
  /\ pc[p] = "observed"
  /\ Saved(p)
  /\ \/ /\ Exists /\ mem[p].status = "running"
        /\ want' = [want EXCEPT ![p] = "running"]
        /\ Goto(p, "drift")
        /\ UNCHANGED <<mem, obs>>
     \/ ~(Exists /\ mem[p].status = "running") /\ Return(p)
  /\ UNCHANGED <<rt, mishaps, world>>

(***************************************************************************)
(* refreshRuntimeArtifactDrift compares compose.yml with the rendered one. *)
(***************************************************************************)
RefreshDrift(p) ==
  /\ pc[p] = "drift"
  /\ \/ rt.compose = "good" /\ Return(p) /\ UNCHANGED mishaps
     \/ rt.compose # "good" /\ Goto(p, "repair") /\ UNCHANGED <<locals, mishaps>>
     \/ Mishap /\ Return(p)
  /\ UNCHANGED <<row, rt, world>>

RepairBegin(p) ==
  /\ pc[p] = "repair"
  /\ \/ Current(p) /\ BeginRepair(p)
     \/ ~Current(p) /\ Return(p)
  /\ UNCHANGED <<row, rt, mishaps, world>>

(***************************************************************************)
(* syncRepairSources: local work is kept and ends the repair.              *)
(***************************************************************************)
RepairSync(p) ==
  /\ pc[p] = "resync"
  /\ \/ Goto(p, IF rt.src = "dirty" THEN "preserve" ELSE "redeploy")
        /\ UNCHANGED <<locals, mishaps>>
     \/ Mishap /\ Take(p, SetStatus(mem[p], "error", "sync"), "save")
  /\ UNCHANGED <<row, rt, world>>

RepairPreserve(p) ==
  /\ pc[p] = "preserve"
  /\ \/ Current(p) /\ Take(p, SetStatus(mem[p], "has_changes", "sync"), "save")
     \/ ~Current(p) /\ Return(p)
  /\ UNCHANGED <<row, rt, mishaps, world>>

(***************************************************************************)
(* redeployRuntimeRepair: check the status, DeployCompose, check again,    *)
(* then save the copy made before the repair, or clean up.                 *)
(***************************************************************************)
RepairCheck(p) ==
  /\ pc[p] = "redeploy"
  /\ \/ Current(p) /\ Goto(p, "up") /\ UNCHANGED locals
     \/ ~Current(p) /\ Return(p)
  /\ UNCHANGED <<row, rt, mishaps, world>>

RepairUp(p) ==
  /\ pc[p] = "up"
  /\ \/ DeployHost /\ Goto(p, "settle") /\ UNCHANGED <<locals, mishaps>>
     \/ /\ Mishap /\ rt' = [rt EXCEPT !.dir = TRUE]
        /\ Take(p, SetStatus(mem[p], "error", "other"), "save")
  /\ UNCHANGED <<row, world>>

RepairSettle(p) ==
  /\ pc[p] = "settle"
  /\ \/ Current(p) /\ Take(p, SetStatus(mem[p], "running", "none"), "save")
     \/ Exists /\ ~Current(p) /\ See(p, row.status, "clean")
     \/ ~Exists /\ Return(p)
  /\ UNCHANGED <<row, rt, mishaps, world>>

(***************************************************************************)
(* cleanupSupersededRuntimeByStatus, for repairs and for deployments.      *)
(***************************************************************************)
CleanStop(p) ==
  /\ pc[p] = "clean" /\ obs[p] # "destroying"
  /\ \/ /\ obs[p] \in {"stopping", "stopped"} /\ rt.compose # "none"
        /\ DownHost /\ UNCHANGED mishaps
     \/ /\ obs[p] \notin {"stopping", "stopped"} \/ rt.compose = "none"
        /\ UNCHANGED <<rt, mishaps>>
     \/ obs[p] \in {"stopping", "stopped"} /\ Mishap /\ UNCHANGED rt
  /\ Return(p)
  /\ UNCHANGED <<row, world>>

CleanDestroy(p) ==
  /\ pc[p] = "clean" /\ obs[p] = "destroying"
  /\ \/ DownHost /\ Goto(p, "cleanrm") /\ UNCHANGED <<locals, mishaps>>
     \/ Mishap /\ Return(p) /\ UNCHANGED rt
  /\ UNCHANGED <<row, world>>

CleanRemove(p) ==
  /\ pc[p] = "cleanrm"
  /\ \/ RemoveHost /\ UNCHANGED mishaps
     \/ Mishap /\ UNCHANGED rt
  /\ Return(p)
  /\ UNCHANGED <<row, world>>

(***************************************************************************)
(* The unconditional save that ends many paths.                            *)
(***************************************************************************)
SaveAndReturn(p) ==
  /\ pc[p] = "save"
  /\ Saved(p)
  /\ Return(p)
  /\ UNCHANGED <<rt, mishaps, world>>

-----------------------------------------------------------------------------
(***************************************************************************)
(* enforceExpiration.  The checkouts are inspected first; a check that     *)
(* fails counts as dirty.                                                  *)
(*                                                                         *)
(* Faulty: a failed check counts as clean.                                 *)
(***************************************************************************)
ExpireInspectTrusting(p) ==
  /\ pc[p] = "dirty"
  /\ \/ See(p, rt.src, "expire") /\ UNCHANGED mishaps
     \/ Mishap /\ See(p, "clean", "expire")
  /\ UNCHANGED <<row, rt, world>>

ExpireInspect(p) ==
  /\ pc[p] = "dirty"
  /\ \/ See(p, rt.src, "expire") /\ UNCHANGED mishaps
     \/ Mishap /\ See(p, "dirty", "expire")
  /\ UNCHANGED <<row, rt, world>>

ExpireDecide(p) ==
  /\ pc[p] = "expire"
  /\ \/ ~ClaimMatches(p) /\ Return(p)
     \/ /\ ClaimMatches(p) /\ obs[p] = "dirty"
        /\ Take(p, SetStatus(row, "has_changes", "other"), "save")
     \/ ClaimMatches(p) /\ obs[p] # "dirty" /\ Goto(p, "down") /\ UNCHANGED locals
  /\ UNCHANGED <<row, rt, mishaps, world>>

ExpireDown(p) == TearDown(p, "down", "rm", "downfail")

ExpireRemove(p) ==
  /\ pc[p] = "rm"
  /\ \/ RemoveHost /\ Goto(p, "expired") /\ UNCHANGED mishaps
     \/ Mishap /\ Goto(p, "downfail") /\ UNCHANGED rt
  /\ UNCHANGED <<row, locals, world>>

ExpireFailed(p) ==
  /\ pc[p] = "downfail"
  /\ \/ ClaimMatches(p) /\ Take(p, SetStatus(row, "error", "other"), "save")
     \/ ~ClaimMatches(p) /\ Return(p)
  /\ UNCHANGED <<row, rt, mishaps, world>>

(***************************************************************************)
(* deleteExpiredPlayground and markDestroyedExpirationSuperseded: a row    *)
(* that changed while its runtime was destroyed is kept as stopped.        *)
(***************************************************************************)
ExpireConfirm(p) ==
  /\ pc[p] = "expired"
  /\ \/ ClaimMatches(p) /\ Goto(p, "delete") /\ UNCHANGED locals
     \/ /\ Exists /\ ~ClaimMatches(p) /\ row.status = mem[p].status
        /\ Take(p, SetStatus(row, "stopped", "none"), "save")
     \/ (~Exists \/ row.status # mem[p].status) /\ Return(p)
  /\ UNCHANGED <<row, rt, mishaps, world>>

ExpireDelete(p) ==
  /\ pc[p] = "delete"
  /\ row' = [Blank EXCEPT !.status = "deleted"]
  /\ Return(p)
  /\ UNCHANGED <<rt, mishaps, world>>

-----------------------------------------------------------------------------
(***************************************************************************)
(* reconcileOwnedRemoteOrphans: directories first, rows second, then every *)
(* directory without a row is destroyed.                                   *)
(*                                                                         *)
(* Faulty: the rows are listed before the directories.                     *)
(***************************************************************************)
SweepListRowsFirst(p) ==
  /\ pc[p] = "sweep"
  /\ See(p, IF Exists THEN None ELSE "dir", "rows")
  /\ UNCHANGED <<row, rt, mishaps, world>>

SweepList(p) ==
  /\ pc[p] = "sweep"
  /\ \/ See(p, IF rt.dir THEN "dir" ELSE None, "rows") /\ UNCHANGED mishaps
     \/ Mishap /\ ReturnTo(p, "tick")
  /\ UNCHANGED <<row, rt, world>>

SweepRows(p) ==
  /\ pc[p] = "rows"
  /\ \/ obs[p] = "dir" /\ ~Exists /\ Goto(p, "reap") /\ UNCHANGED locals
     \/ ~(obs[p] = "dir" /\ ~Exists) /\ ReturnTo(p, "tick")
  /\ UNCHANGED <<row, rt, mishaps, world>>

SweepDown(p) == TearDown(p, "reap", "reaprm", "tick")

SweepRemove(p) ==
  /\ pc[p] = "reaprm"
  /\ \/ RemoveHost /\ UNCHANGED mishaps
     \/ Mishap /\ UNCHANGED rt
  /\ ReturnTo(p, "tick")
  /\ UNCHANGED <<row, world>>

-----------------------------------------------------------------------------
(***************************************************************************)
(* Requests.  A deployment begins by creating the row or by marking it     *)
(* in_progress, and keeps what it did only while the row stays that way.   *)
(***************************************************************************)
ArriveDeploy(t) ==
  /\ \/ row.status = "none" /\ row' \in [status : {"in_progress"}, reason : {"none"},
                                         expires : {None, clock}, lock : {FALSE}]
     \/ /\ row.status \in {"running", "has_changes", "error", "stopped"}
        /\ row' = [row EXCEPT !.status = "in_progress"]
  /\ Goto(t, "deploy")
  /\ UNCHANGED locals

DeployUp(t) ==
  /\ pc[t] = "deploy"
  /\ \/ DeployHost /\ Goto(t, "deployed") /\ UNCHANGED mishaps
     \/ Mishap /\ rt' = [rt EXCEPT !.dir = TRUE] /\ Goto(t, "failed")
  /\ UNCHANGED <<row, locals, world>>

DeployDone(t) ==
  /\ pc[t] \in {"deployed", "failed"}
  /\ \/ /\ row.status = "in_progress"
        /\ row' = IF pc[t] = "deployed" THEN SetStatus(row, "running", "none")
                  ELSE SetStatus(row, "error", "other")
        /\ Return(t)
     \/ /\ Exists /\ row.status # "in_progress" /\ pc[t] = "deployed"
        /\ See(t, row.status, "clean")
        /\ UNCHANGED row
     \/ /\ (~Exists \/ (row.status # "in_progress" /\ pc[t] = "failed"))
        /\ Return(t)
        /\ UNCHANGED row
  /\ UNCHANGED <<rt, mishaps, world>>

(***************************************************************************)
(* extendPlaygroundExpiration adds to the later of now and the present     *)
(* expiration; stopped and stopping rows are refused.                      *)
(***************************************************************************)
CanExtend(status) == status \notin {"destroying", "stopping", "stopped"}

Extended(pg) ==
  [pg EXCEPT !.expires = IF pg.expires = None \/ pg.expires < clock THEN clock + 1
                         ELSE pg.expires + 1]

(***************************************************************************)
(* PATCH: a configuration edit marks rows in use; never_expire clears      *)
(* expires_at.  Both save the whole copy.                                  *)
(***************************************************************************)
Edited(pg) ==
  IF pg.status \in {"in_progress", "running"} THEN SetStatus(pg, "has_changes", "other")
  ELSE pg

ShouldHandlePush(pg) == ShouldSyncSources(pg)

StopAllowed == {"in_progress", "running", "has_changes", "error"}

ArriveExisting(t, kind) ==
  /\ Exists
  /\ \/ kind = "refresh" /\ Begin(t, "inspect")
     \/ kind = "extend" /\ CanExtend(row.status) /\ Take(t, Extended(row), "save")
     \/ kind = "edit" /\ Take(t, Edited(row), "save")
     \/ kind = "edit" /\ Take(t, [row EXCEPT !.expires = None], "save")
     \/ kind = "push" /\ ShouldHandlePush(row) /\ Begin(t, "sync")
     \/ kind = "stop" /\ row.status \in StopAllowed /\ Begin(t, "stopping")
     \/ kind = "delete" /\ Begin(t, "destroying")
  /\ UNCHANGED row

Arrive(t) ==
  /\ t \in Requests /\ pc[t] = "new"
  /\ \E kind \in Kinds :
       \/ kind = "deploy" /\ ArriveDeploy(t)
       \/ ArriveExisting(t, kind)
  /\ UNCHANGED <<rt, mishaps, world>>

(***************************************************************************)
(* stopPlayground: save stopping, StopCompose, claim again, save stopped.  *)
(***************************************************************************)
StopMark(t) ==
  /\ pc[t] = "stopping"
  /\ row' = IF Exists THEN [mem[t] EXCEPT !.status = "stopping"] ELSE row
  /\ \/ Exists /\ Goto(t, "halt") /\ want' = [want EXCEPT ![t] = "stopping"]
        /\ UNCHANGED <<mem, obs>>
     \/ ~Exists /\ Return(t)
  /\ UNCHANGED <<rt, mishaps, world>>

StopHalt(t) ==
  /\ pc[t] = "halt"
  /\ \/ rt.compose # "none" /\ DownHost /\ Goto(t, "halted") /\ UNCHANGED mishaps
     \/ rt.compose = "none" /\ Goto(t, "haltfail") /\ UNCHANGED <<rt, mishaps>>
     \/ Mishap /\ Goto(t, "haltfail") /\ UNCHANGED rt
  /\ UNCHANGED <<row, locals, world>>

StopReclaim(t) ==
  /\ pc[t] \in {"halted", "haltfail"}
  /\ \/ /\ Current(t)
        /\ Take(t, IF pc[t] = "halted" THEN [row EXCEPT !.status = "stopped"]
                   ELSE SetStatus(row, "error", "other"), "save")
     \/ ~Current(t) /\ Return(t)
  /\ UNCHANGED <<row, rt, mishaps, world>>

(***************************************************************************)
(* playgroundsDelete: save destroying, DestroyCompose, delete the row.     *)
(***************************************************************************)
DestroyMark(t) ==
  /\ pc[t] = "destroying"
  /\ row' = IF Exists THEN [mem[t] EXCEPT !.status = "destroying"] ELSE row
  /\ \/ Exists /\ Goto(t, "destroy") /\ want' = [want EXCEPT ![t] = "destroying"]
        /\ UNCHANGED <<mem, obs>>
     \/ ~Exists /\ Return(t)
  /\ UNCHANGED <<rt, mishaps, world>>

DestroyDown(t) == TearDown(t, "destroy", "destroyrm", "destroyfail")

DestroyRemove(t) ==
  /\ pc[t] = "destroyrm"
  /\ \/ RemoveHost /\ Goto(t, "destroyed") /\ UNCHANGED mishaps
     \/ Mishap /\ Goto(t, "destroyfail") /\ UNCHANGED rt
  /\ UNCHANGED <<row, locals, world>>

DestroyRow(t) ==
  /\ pc[t] = "destroyed"
  /\ row' = [Blank EXCEPT !.status = "deleted"]
  /\ Return(t)
  /\ UNCHANGED <<rt, mishaps, world>>

DestroyFailed(t) ==
  /\ pc[t] = "destroyfail"
  /\ \/ Current(t) /\ Take(t, SetStatus(row, "error", row.reason), "save")
     \/ ~Current(t) /\ Return(t)
  /\ UNCHANGED <<row, rt, mishaps, world>>

(***************************************************************************)
(* buildGitHubPushService: reload and check the row, build, reload the row *)
(* and mark it, whatever its status is by then.  A failed build only adds  *)
(* diagnostics.                                                            *)
(***************************************************************************)
PushBuild(t) ==
  /\ pc[t] = "build"
  /\ \/ Exists /\ ShouldHandlePush(row) /\ Begin(t, "built") /\ UNCHANGED mishaps
     \/ ~(Exists /\ ShouldHandlePush(row)) /\ Return(t) /\ UNCHANGED mishaps
  /\ UNCHANGED <<row, rt, world>>

PushBuilt(t) ==
  /\ pc[t] = "built"
  /\ \/ ~Exists /\ Return(t) /\ UNCHANGED mishaps
     \/ Exists /\ Take(t, SetStatus(row, "has_changes", "other"), "save") /\ UNCHANGED mishaps
     \/ Exists /\ Mishap /\ Take(t, row, "save")
  /\ UNCHANGED <<row, rt, world>>

-----------------------------------------------------------------------------
(***************************************************************************)
(* The world: time passes, cooldowns end, the host drifts, and the user    *)
(* edits checkouts - not between the dirty check and the destruction that  *)
(* relies on it, a window no check can close.                              *)
(***************************************************************************)
TimePasses ==
  /\ clock < MaxClock
  /\ clock' = clock + 1
  /\ UNCHANGED <<row, rt, pc, mem, want, obs, now, mishaps>>

CooldownEnds ==
  /\ row.lock
  /\ row' = [row EXCEPT !.lock = FALSE]
  /\ mem' = [p \in Procs |-> [mem[p] EXCEPT !.lock = FALSE]]
  /\ UNCHANGED <<rt, pc, want, obs, now, clock, mishaps>>

Destroying == pc[Guard] \in {"expire", "down", "rm"}

UserEdits ==
  /\ rt.dir /\ ~Destroying
  /\ rt' = [rt EXCEPT !.src = "dirty"]
  /\ UNCHANGED <<row, pc, mem, want, obs, now, clock, mishaps>>

HostDrifts ==
  /\ Mishap
  /\ rt.dir
  /\ \/ rt.up # "down" /\ \E up \in {"down", "other"} : rt' = [rt EXCEPT !.up = up]
     \/ rt.compose = "good" /\ \E file \in {"none", "other"} : rt' = [rt EXCEPT !.compose = file]
     \/ rt.src = "dirty" /\ rt' = [rt EXCEPT !.src = "clean"]
  /\ UNCHANGED <<row, pc, mem, want, obs, now, clock>>

(***************************************************************************)
(* The process dies and starts again: RecoverInterruptedPlaygrounds turns  *)
(* an active row into an error, and the loop begins anew.                  *)
(***************************************************************************)
Restart ==
  /\ Mishap
  /\ row' = IF row.status = "in_progress" THEN SetStatus(row, "error", "other") ELSE row
  /\ pc' = [p \in Procs |-> IF p = Guard THEN "tick"
                            ELSE IF pc[p] = "new" THEN "new" ELSE "done"]
  /\ mem' = [p \in Procs |-> Blank]
  /\ want' = [p \in Procs |-> None]
  /\ obs' = [p \in Procs |-> None]
  /\ UNCHANGED <<rt, now, clock>>

-----------------------------------------------------------------------------
Pass(p) ==
  \/ PassTick(p) \/ PassLoad(p)
  \/ ExpireInspect(p) \/ ExpireDecide(p) \/ ExpireDown(p) \/ ExpireRemove(p)
  \/ ExpireFailed(p) \/ ExpireConfirm(p) \/ ExpireDelete(p)
  \/ SweepList(p) \/ SweepRows(p) \/ SweepDown(p) \/ SweepRemove(p)

Refresh(p) ==
  \/ PassReload(p) \/ SyncRun(p) \/ SyncRecord(p) \/ SyncSave(p)
  \/ RefreshInspect(p) \/ RefreshObserve(p) \/ RefreshSave(p) \/ RefreshDrift(p)
  \/ RepairBegin(p) \/ RepairSync(p) \/ RepairPreserve(p) \/ RepairCheck(p)
  \/ RepairUp(p) \/ RepairSettle(p) \/ CleanStop(p) \/ CleanDestroy(p)
  \/ CleanRemove(p) \/ SaveAndReturn(p)

Handle(t) ==
  \/ DeployUp(t) \/ DeployDone(t)
  \/ StopMark(t) \/ StopHalt(t) \/ StopReclaim(t)
  \/ DestroyMark(t) \/ DestroyDown(t) \/ DestroyRemove(t) \/ DestroyRow(t)
  \/ DestroyFailed(t) \/ PushBuild(t) \/ PushBuilt(t)

Step(p) == Pass(p) \/ Refresh(p) \/ Handle(p)

Next ==
  \/ \E p \in Procs : Arrive(p) \/ Step(p)
  \/ TimePasses \/ CooldownEnds \/ UserEdits \/ HostDrifts \/ Restart

Spec == Init /\ [][Next]_vars

(***************************************************************************)
(* The loop ticks for ever, a request once begun goes on, and a cooldown   *)
(* of two minutes ends.  Requests, time and drift are not promised.        *)
(***************************************************************************)
FairSpec ==
  /\ Spec
  /\ \A p \in Procs : WF_vars(Step(p))
  /\ WF_vars(CooldownEnds)

-----------------------------------------------------------------------------
(***************************************************************************)
(* Every variable has the type its declaration promises; in particular no  *)
(* combination of stale copies stores an undocumented status.              *)
(***************************************************************************)
TypeOK ==
  /\ row \in Row
  /\ rt \in Runtime
  /\ pc \in [Procs -> Points]
  /\ mem \in [Procs -> Row]
  /\ want \in [Procs -> Stored \cup {None}]
  /\ obs \in [Procs -> Seen]
  /\ now \in 0 .. MaxClock
  /\ clock \in 0 .. MaxClock
  /\ mishaps \in 0 .. MaxMishaps

(***************************************************************************)
(* The orphan sweep never touches a project that a row represents, even    *)
(* when the playground is created while the sweep is between its lists.    *)
(***************************************************************************)
Reaping(p) == pc[p] \in {"reap", "reaprm"}

SweepSparesRows == Reaping(Guard) => ~Exists

(***************************************************************************)
(* Expiration never removes a directory whose checkouts hold local work,   *)
(* whatever else failed or changed between the claim and the removal.      *)
(***************************************************************************)
ExpirationKeepsWork == pc[Guard] \in {"down", "rm"} => rt.src = "clean"

(***************************************************************************)
(* Playguard converges: however requests, repairs, stale saves, faults and *)
(* restarts interleave, from some time on a playground reported running    *)
(* runs what was rendered for it, and one reported stopped runs nothing.   *)
(***************************************************************************)
Honest ==
  /\ row.status = "running" => rt.up = "ok" /\ rt.compose = "good"
  /\ row.status = "stopped" => rt.up = "down" \/ rt.compose = "none"

Converges == <>[]Honest

(***************************************************************************)
(* No directory outlives its row for ever: whatever a late deployment or   *)
(* repair writes for a deleted playground, the sweep removes.              *)
(***************************************************************************)
TreesAreReaped == <>[](row.status = "deleted" => ~rt.dir)

(***************************************************************************)
(* Expiration is enforced: an expired playground in an expirable status    *)
(* does not stay that way, unless its checkouts hold local work.           *)
(***************************************************************************)
Overdue == Expired(row, clock) /\ ExpirableStatus(row.status) /\ rt.src = "clean"

ExpirationIsEnforced == Overdue ~> ~Overdue
=============================================================================
