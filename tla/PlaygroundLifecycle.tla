------------------------ MODULE PlaygroundLifecycle ------------------------
(***************************************************************************)
(* The lifecycle of one Playground: its SQLite row, its Compose project on *)
(* the host, and the goroutines that work on both at the same time.        *)
(*                                                                         *)
(* SQLite runs with one connection, so one statement is one atomic step    *)
(* and everything between two statements can be interleaved.  A task is    *)
(* one HTTP request together with the detached goroutine it may start:     *)
(*                                                                         *)
(*   Creators   POST   /api/playgrounds, then DeployPlayground             *)
(*   Operators  POST   .../operations  rollout, retry_compose, start,      *)
(*                                     hard_restart                        *)
(*   Stoppers   POST   .../operations  stop                                *)
(*   Deleters   DELETE /api/playgrounds/{id}                               *)
(*   Patchers   PATCH  /api/playgrounds/{id}                               *)
(*                                                                         *)
(* Every row considered has a Playspec, a Marquee and a Compose project:   *)
(* createPlaygroundRecord refuses to create any other.                     *)
(***************************************************************************)
EXTENDS Naturals

CONSTANTS
  Creators, Operators, Stoppers, Deleters, Patchers,  \* tasks, each run once
  OpKinds,     \* the actions Operators may request
  Forces,      \* the values of the payload's force flag
  Playspecs,   \* values of playspec_id
  Overrides,   \* values of env_overrides together with service_branches
  Routed,      \* does the Compose file expose routed services
  MaxFaults,   \* bound on failing runtime calls and lost client connections
  MaxRestarts, \* bound on process restarts
  None         \* no value

Tasks == Creators \cup Operators \cup Stoppers \cup Deleters \cup Patchers

(***************************************************************************)
(* retry_compose runs exactly the code of rollout.                         *)
(***************************************************************************)
Kinds == {"rollout", "start", "hard_restart"}

ASSUME TasksAssumption ==
  /\ Creators \cap (Operators \cup Stoppers \cup Deleters \cup Patchers) = {}
  /\ Operators \cap (Stoppers \cup Deleters \cup Patchers) = {}
  /\ Stoppers \cap (Deleters \cup Patchers) = {}
  /\ Deleters \cap Patchers = {}

ASSUME ConstantsAssumption ==
  /\ OpKinds \subseteq Kinds
  /\ Forces \subseteq BOOLEAN
  /\ Routed \in BOOLEAN
  /\ MaxFaults \in Nat
  /\ MaxRestarts \in Nat
  /\ None \notin Playspecs
  /\ None \notin Overrides

-----------------------------------------------------------------------------
(***************************************************************************)
(* State.                                                                  *)
(*   row    the playgrounds row: status, playspec_id, overrides,           *)
(*          generated_compose_yaml (as the inputs it was rendered from)    *)
(*          and whether error_details is set                               *)
(*   rt     the host: the project directory, compose.yml in it, and what   *)
(*          the running containers were created from (None when stopped)   *)
(*   pc     where each task is                                             *)
(*   step   the creation step a deployment is in                           *)
(*   mem    the copy of the row a task works on                            *)
(*   ps     the Playspec a deployment has loaded                           *)
(*   ren    the Compose file it has rendered                               *)
(*   sup    the status its deploymentSupersededError carries               *)
(***************************************************************************)
VARIABLES row, rt, pc, step, mem, ps, ren, sup, faults, restarts

vars == <<row, rt, pc, step, mem, ps, ren, sup, faults, restarts>>

Stored == {"pending", "in_progress", "running", "has_changes", "error",
           "stopping", "stopped", "destroying"}

(***************************************************************************)
(* A Compose file is known by what it was rendered from.                   *)
(***************************************************************************)
Rendered == (Playspecs \cup {None}) \X (Overrides \cup {None})

ASSUME NoneAssumption == None \notin Stored \cup Rendered

Row == [status : Stored \cup {"none", "deleted"},
        spec   : Playspecs \cup {None},
        over   : Overrides \cup {None},
        gen    : Rendered \cup {None},
        err    : BOOLEAN]

Blank == [status |-> "none", spec |-> None, over |-> None, gen |-> None,
          err |-> FALSE]

Runtime == [dir     : BOOLEAN,
            compose : Rendered \cup {None},
            up      : Rendered \cup {None}]

Steps == {"compose_render", "host_prerequisites", "source_sync", "builds",
          "compose_deploy", "compose_start", "runtime_observe"}

(***************************************************************************)
(* The points of DeployPlayground and StartRuntimePlayground at which the  *)
(* deployment still goes on if the row is active.                          *)
(***************************************************************************)
Owning == {"begin", "check", "run", "save", "up", "finish", "progress",
           "recheck", "keep", "lastcheck", "finalize", "fail", "failcheck",
           "failkeep", "failsave"}

Points == Owning \cup
  {"new", "done", "insert", "rollout", "start", "hard_restart", "down",
   "reclaim", "deploy", "startprep", "startup", "cleanup", "cleanrm", "stop",
   "stopping", "halt", "stopclaim", "stopped", "stopfail", "stoperr", "del",
   "destroying", "destroy", "remove", "delrow", "delfail", "delerr", "patch"}

Init ==
  /\ row = Blank
  /\ rt = [dir |-> FALSE, compose |-> None, up |-> None]
  /\ pc = [t \in Tasks |-> "new"]
  /\ step = [t \in Tasks |-> "compose_render"]
  /\ mem = [t \in Tasks |-> Blank]
  /\ ps = [t \in Tasks |-> None]
  /\ ren = [t \in Tasks |-> None]
  /\ sup = [t \in Tasks |-> None]
  /\ faults = 0
  /\ restarts = 0

-----------------------------------------------------------------------------
(***************************************************************************)
(* Helpers.                                                                *)
(***************************************************************************)
Exists == row.status \in Stored

(***************************************************************************)
(* deploymentStatusActive, and the same test under another name in the     *)
(* handlers, playgroundActiveCreation.                                     *)
(***************************************************************************)
Active(status) == status \in {"pending", "in_progress"}

Goto(t, point) == pc' = [pc EXCEPT ![t] = point]

Fault == faults < MaxFaults /\ faults' = faults + 1

(***************************************************************************)
(* A task that ends forgets its local variables.                           *)
(***************************************************************************)
End(t) ==
  /\ Goto(t, "done")
  /\ step' = [step EXCEPT ![t] = "compose_render"]
  /\ mem' = [mem EXCEPT ![t] = Blank]
  /\ ps' = [ps EXCEPT ![t] = None]
  /\ ren' = [ren EXCEPT ![t] = None]
  /\ sup' = [sup EXCEPT ![t] = None]

locals == <<step, mem, ps, ren, sup>>
bounds == <<faults, restarts>>

(***************************************************************************)
(* preserveLatestDeploymentMetadata: the user's fields come from the row.  *)
(***************************************************************************)
Latest(pg) == [pg EXCEPT !.spec = row.spec, !.over = row.over]

(***************************************************************************)
(* The end of a deployment whose row has left the active statuses, and     *)
(* where cleanupSupersededRuntime runs first.                              *)
(***************************************************************************)
Superseded(t, cleans) ==
  \/ /\ cleans
     /\ Exists
     /\ sup' = [sup EXCEPT ![t] = row.status]
     /\ Goto(t, "cleanup")
     /\ UNCHANGED <<step, mem, ps, ren>>
  \/ /\ ~cleans \/ ~Exists
     /\ End(t)

(***************************************************************************)
(* recordCreationStep and saveDeploymentProgress: read the row, refuse     *)
(* unless it is active, write it only if it is still the row that was      *)
(* read, and otherwise try again.  The loop is one atomic step here;       *)
(* module DeploymentProgress shows that it may be.                         *)
(***************************************************************************)
SaveProgress(t, pg, cleans, point, name) ==
  \/ /\ Active(row.status)
     /\ row' = Latest(pg)
     /\ mem' = [mem EXCEPT ![t] = Latest(pg)]
     /\ step' = [step EXCEPT ![t] = name]
     /\ Goto(t, point)
     /\ UNCHANGED <<ps, ren, sup>>
  \/ /\ ~Active(row.status)
     /\ Superseded(t, cleans)
     /\ UNCHANGED row

(***************************************************************************)
(* requireActiveDeployment: reload the row and go on only if it is active. *)
(* Most callers keep the copy pg they had and drop the reloaded one.       *)
(***************************************************************************)
RequireActive(t, pg, cleans, point, name) ==
  \/ /\ Active(row.status)
     /\ mem' = [mem EXCEPT ![t] = pg]
     /\ step' = [step EXCEPT ![t] = name]
     /\ Goto(t, point)
     /\ UNCHANGED <<ps, ren, sup>>
  \/ /\ ~Active(row.status)
     /\ Superseded(t, cleans)

(***************************************************************************)
(* Runtime calls.  Each one is a command on the host; what it does to      *)
(* compose.yml and the containers is one step, except DestroyCompose,      *)
(* which tears containers down first and removes the directory afterwards, *)
(* and DeployCompose, which writes compose.yml first and runs compose up   *)
(* afterwards.  A missing compose.yml makes every command but the          *)
(* teardown fail.                                                          *)
(***************************************************************************)
ComposeMissing == rt.compose = None

ComposeUp == rt' = [rt EXCEPT !.up = rt.compose]

ComposeDown == rt' = [rt EXCEPT !.up = None]

RemoveFiles == rt' = [rt EXCEPT !.dir = FALSE, !.compose = None]

-----------------------------------------------------------------------------
(***************************************************************************)
(* POST /api/playgrounds.  compatibleExistingPlayground looks the name up  *)
(* first: a duplicate is answered from the row (or refused) and deploys    *)
(* nothing.  The instance follows one row, so nothing is created again     *)
(* after a deletion.                                                       *)
(***************************************************************************)
CreateLookup(t) ==
  /\ pc[t] = "new" /\ t \in Creators
  /\ \/ /\ row.status = "none"
        /\ Goto(t, "insert")
        /\ UNCHANGED locals
     \/ /\ row.status # "none"
        /\ End(t)
  /\ UNCHANGED <<row, rt, bounds>>

(***************************************************************************)
(* CreatePlayground: the unique name admits one INSERT; a request that     *)
(* loses the race is answered like a duplicate.  The winner starts the     *)
(* detached DeployPlayground with the Playspec it loaded.                  *)
(***************************************************************************)
CreateInsert(t) ==
  /\ pc[t] = "insert"
  /\ \/ /\ row.status = "none"
        /\ \E spec \in Playspecs, over \in Overrides :
             LET pg == [status |-> "pending", spec |-> spec, over |-> over,
                        gen |-> None, err |-> FALSE]
             IN  row' = pg /\ mem' = [mem EXCEPT ![t] = pg]
        /\ Goto(t, "deploy")
        /\ UNCHANGED <<step, ps, ren, sup>>
     \/ /\ row.status # "none"
        /\ End(t)
        /\ UNCHANGED row
  /\ UNCHANGED <<rt, bounds>>

-----------------------------------------------------------------------------
(***************************************************************************)
(* POST .../operations for the actions that deploy.                        *)
(*                                                                         *)
(* validatePlaygroundOperationState: no deployment over an active one,     *)
(* even with force; without force the action's own statuses.               *)
(***************************************************************************)
AllowedFrom(kind) ==
  IF kind = "start" THEN {"stopped"} ELSE {"running", "has_changes", "error"}

OperationAllowed(kind, force) ==
  /\ Exists
  /\ ~Active(row.status)
  /\ force \/ row.status \in AllowedFrom(kind)

(***************************************************************************)
(* The request is checked against the row it loads and enqueued with that  *)
(* copy.                                                                   *)
(***************************************************************************)
OperationRequest(t) ==
  /\ pc[t] = "new" /\ t \in Operators
  /\ \E kind \in OpKinds, force \in Forces :
       \/ /\ OperationAllowed(kind, force)
          /\ Goto(t, kind)
          /\ mem' = [mem EXCEPT ![t] = row]
          /\ UNCHANGED <<step, ps, ren, sup>>
       \/ /\ ~OperationAllowed(kind, force)
          /\ End(t)
  /\ UNCHANGED <<row, rt, bounds>>

(***************************************************************************)
(* currentPlaygroundOperationClaim: the row must still have the status the *)
(* copy has.                                                               *)
(***************************************************************************)
Claim(t, point) ==
  \/ /\ row.status = mem[t].status
     /\ mem' = [mem EXCEPT ![t] = row]
     /\ Goto(t, point)
     /\ UNCHANGED <<step, ps, ren, sup>>
  \/ /\ row.status # mem[t].status
     /\ End(t)

RolloutClaim(t) ==
  /\ pc[t] = "rollout"
  /\ Claim(t, "deploy")
  /\ UNCHANGED <<row, rt, bounds>>

StartClaim(t) ==
  /\ pc[t] = "start"
  /\ Claim(t, "startprep")
  /\ UNCHANGED <<row, rt, bounds>>

(***************************************************************************)
(* hardRestartPlayground: claim, DownCompose, claim again, deploy.         *)
(***************************************************************************)
HardRestartClaim(t) ==
  /\ pc[t] = "hard_restart"
  /\ Claim(t, "down")
  /\ UNCHANGED <<row, rt, bounds>>

HardRestartDown(t) ==
  /\ pc[t] = "down"
  /\ \/ ComposeDown /\ Goto(t, "reclaim") /\ UNCHANGED <<locals, faults>>
     \/ Fault /\ End(t) /\ UNCHANGED rt
  /\ UNCHANGED <<row, restarts>>

HardRestartReclaim(t) ==
  /\ pc[t] = "reclaim"
  /\ Claim(t, "deploy")
  /\ UNCHANGED <<row, rt, bounds>>
-----------------------------------------------------------------------------
(***************************************************************************)
(* DeployPlayground and StartRuntimePlayground.                            *)
(*                                                                         *)
(* recordCreationStepForStart: a deployment starts only from the status    *)
(* its caller saw, and only from one that may be deployed.  The Playspec   *)
(* was loaded by the caller, for the playspec_id its copy had; everything  *)
(* else the user can change is taken from the row once more.               *)
(***************************************************************************)
StartAllowed == {"pending", "in_progress", "running", "has_changes", "error",
                 "stopped"}

(***************************************************************************)
(* Faulty: the first save does not compare the status with the caller's.   *)
(***************************************************************************)
StartDeploymentFromAny(t, name, point) ==
  \/ /\ row.status \in StartAllowed
     /\ LET pg == Latest([mem[t] EXCEPT !.status = "in_progress"])
        IN  row' = pg /\ mem' = [mem EXCEPT ![t] = pg]
     /\ ps' = [ps EXCEPT ![t] = mem[t].spec]
     /\ step' = [step EXCEPT ![t] = name]
     /\ Goto(t, point)
     /\ UNCHANGED <<ren, sup>>
  \/ /\ row.status \notin StartAllowed
     /\ End(t)
     /\ UNCHANGED row

StartDeployment(t, name, point) ==
  \/ /\ row.status = mem[t].status
     /\ row.status \in StartAllowed
     /\ LET pg == Latest([mem[t] EXCEPT !.status = "in_progress"])
        IN  row' = pg /\ mem' = [mem EXCEPT ![t] = pg]
     /\ ps' = [ps EXCEPT ![t] = mem[t].spec]
     /\ step' = [step EXCEPT ![t] = name]
     /\ Goto(t, point)
     /\ UNCHANGED <<ren, sup>>
  \/ /\ row.status # mem[t].status \/ row.status \notin StartAllowed
     /\ End(t)
     /\ UNCHANGED row

DeployStart(t) ==
  /\ pc[t] = "deploy"
  /\ StartDeployment(t, "compose_render", "run")
  /\ UNCHANGED <<rt, bounds>>

(***************************************************************************)
(* prepareRuntimeStart first fills fields the copy lacks from the row      *)
(* (preserveLatestRuntimeFields).                                          *)
(***************************************************************************)
Preserve(pg) == [pg EXCEPT !.gen = IF pg.gen = None THEN row.gen ELSE pg.gen]

StartPrepare(t) ==
  /\ pc[t] = "startprep"
  /\ \/ /\ Exists
        /\ mem' = [mem EXCEPT ![t] = Preserve(mem[t])]
        /\ Goto(t, "startup")
        /\ UNCHANGED <<step, ps, ren, sup>>
     \/ ~Exists /\ End(t)
  /\ UNCHANGED <<row, rt, bounds>>

StartRecord(t) ==
  /\ pc[t] = "startup"
  /\ StartDeployment(t, "compose_start", "check")
  /\ UNCHANGED <<rt, bounds>>

(***************************************************************************)
(* The first half of runCreationStep: record the step as running, then     *)
(* check once more that the deployment is wanted.                          *)
(***************************************************************************)
StepBegin(t) ==
  /\ pc[t] = "begin"
  /\ SaveProgress(t, mem[t], step[t] = "runtime_observe", "check", step[t])
  /\ UNCHANGED <<rt, bounds>>

StepCheck(t) ==
  /\ pc[t] = "check"
  /\ RequireActive(t, IF step[t] = "compose_start" THEN row ELSE mem[t],
                   step[t] = "runtime_observe", "run", step[t])
  /\ UNCHANGED <<row, rt, bounds>>

(***************************************************************************)
(* The work of a step.  renderPlayground reads the Playspec loaded at the  *)
(* claim and the overrides of the copy.                                    *)
(***************************************************************************)
RunRender(t) ==
  /\ pc[t] = "run" /\ step[t] = "compose_render"
  /\ LET yaml == <<ps[t], mem[t].over>>
     IN  /\ ren' = [ren EXCEPT ![t] = yaml]
         /\ mem' = [mem EXCEPT ![t].gen = yaml]
  /\ Goto(t, "finish")
  /\ UNCHANGED <<row, rt, step, ps, sup, bounds>>

RunHostPrerequisites(t) ==
  /\ pc[t] = "run" /\ step[t] = "host_prerequisites"
  /\ Goto(t, "finish")
  /\ UNCHANGED <<row, rt, locals, bounds>>

(***************************************************************************)
(* PreparePlaygroundWorkspace creates the project directory, then the      *)
(* repositories are checked out in it.                                     *)
(***************************************************************************)
RunSourceSync(t) ==
  /\ pc[t] = "run" /\ step[t] = "source_sync"
  /\ rt' = [rt EXCEPT !.dir = TRUE]
  /\ Goto(t, "finish")
  /\ UNCHANGED <<row, locals, bounds>>

(***************************************************************************)
(* buildServices, then one more progress save with the built image refs in *)
(* the Compose file.                                                       *)
(***************************************************************************)
RunBuilds(t) ==
  /\ pc[t] = "run" /\ step[t] = "builds"
  /\ mem' = [mem EXCEPT ![t].gen = ren[t]]
  /\ Goto(t, "save")
  /\ UNCHANGED <<row, rt, step, ps, ren, sup, bounds>>

SaveBuilds(t) ==
  /\ pc[t] = "save"
  /\ SaveProgress(t, mem[t], FALSE, "finish", step[t])
  /\ UNCHANGED <<rt, bounds>>

(***************************************************************************)
(* DeployCompose: write compose.yml, then compose up.                      *)
(***************************************************************************)
RunDeployWrite(t) ==
  /\ pc[t] = "run" /\ step[t] = "compose_deploy"
  /\ rt' = [rt EXCEPT !.dir = TRUE, !.compose = ren[t]]
  /\ Goto(t, "up")
  /\ UNCHANGED <<row, locals, bounds>>

(***************************************************************************)
(* compose up, as the end of DeployCompose or as StartCompose.             *)
(***************************************************************************)
RunComposeUp(t) ==
  /\ pc[t] = "up" \/ (pc[t] = "run" /\ step[t] = "compose_start")
  /\ \/ ~ComposeMissing /\ ComposeUp /\ Goto(t, "finish")
     \/ ComposeMissing /\ UNCHANGED rt /\ Goto(t, "fail")
  /\ UNCHANGED <<row, locals, bounds>>

(***************************************************************************)
(* observeRuntimeServices: inspection needs compose.yml; routed services   *)
(* must be up before the timeout, others need not.                         *)
(***************************************************************************)
Observable == ~ComposeMissing /\ (Routed => rt.up # None)

RunObserve(t) ==
  /\ pc[t] = "run" /\ step[t] = "runtime_observe"
  /\ Goto(t, IF Observable THEN "finish" ELSE "fail")
  /\ UNCHANGED <<row, rt, locals, bounds>>

(***************************************************************************)
(* Any of these calls can fail on the host, after part of its work.        *)
(***************************************************************************)
RunFails(t) ==
  /\ pc[t] \in {"run", "up"}
  /\ Fault
  /\ \/ UNCHANGED rt
     \/ /\ pc[t] = "run" /\ step[t] \in {"source_sync", "compose_deploy"}
        /\ rt' = [rt EXCEPT !.dir = TRUE]
     \/ /\ pc[t] = "up" \/ step[t] = "compose_start"
        /\ ComposeUp
  /\ Goto(t, "fail")
  /\ UNCHANGED <<row, locals, restarts>>

(***************************************************************************)
(* The second half of runCreationStep: record the step as completed and go *)
(* on to the next one.  Only from compose_deploy on does a superseded      *)
(* deployment clean up behind itself; compose_start does not.              *)
(***************************************************************************)
NextStep(name) ==
  CASE name = "compose_render"     -> "host_prerequisites"
    [] name = "host_prerequisites" -> "source_sync"
    [] name = "source_sync"        -> "builds"
    [] name = "builds"             -> "compose_deploy"
    [] OTHER                       -> "runtime_observe"

AfterFinish(name) ==
  CASE name = "compose_render"  -> "progress"
    [] name = "compose_deploy"  -> "recheck"
    [] name = "compose_start"   -> "keep"
    [] name = "runtime_observe" -> "lastcheck"
    [] OTHER                    -> "begin"

(***************************************************************************)
(* Faulty: a deployment superseded during compose up forgets to clean up.  *)
(***************************************************************************)
StepFinishNoCleanup(t) ==
  /\ pc[t] = "finish"
  /\ SaveProgress(t, mem[t], step[t] = "runtime_observe",
                  AfterFinish(step[t]), NextStep(step[t]))
  /\ UNCHANGED <<rt, bounds>>

StepFinish(t) ==
  /\ pc[t] = "finish"
  /\ SaveProgress(t, mem[t], step[t] \in {"compose_deploy", "runtime_observe"},
                  AfterFinish(step[t]), NextStep(step[t]))
  /\ UNCHANGED <<rt, bounds>>

(***************************************************************************)
(* DeployPlayground saves once more between rendering and the host steps.  *)
(***************************************************************************)
Progress(t) ==
  /\ pc[t] = "progress"
  /\ SaveProgress(t, mem[t], FALSE, "begin", step[t])
  /\ UNCHANGED <<rt, bounds>>

(***************************************************************************)
(* deployAndObserveCompose goes on with the reloaded row, and              *)
(* observeDeployedCompose checks once more but keeps its copy.             *)
(***************************************************************************)
Recheck(t) ==
  /\ pc[t] = "recheck"
  /\ RequireActive(t, row, TRUE, "begin", step[t])
  /\ UNCHANGED <<row, rt, bounds>>

LastCheck(t) ==
  /\ pc[t] = "lastcheck"
  /\ RequireActive(t, mem[t], TRUE, "finalize", step[t])
  /\ UNCHANGED <<row, rt, bounds>>

(***************************************************************************)
(* observeRuntimeStart fills gaps in its copy before it observes.          *)
(***************************************************************************)
StartKeep(t) ==
  /\ pc[t] = "keep"
  /\ \/ /\ Exists
        /\ mem' = [mem EXCEPT ![t] = Preserve(mem[t])]
        /\ Goto(t, "begin")
        /\ UNCHANGED <<step, ps, ren, sup>>
     \/ ~Exists /\ End(t)
  /\ UNCHANGED <<row, rt, bounds>>

(***************************************************************************)
(* Faulty: the final save keeps the error details of an earlier failure,   *)
(* or the status the deployment ran under.                                 *)
(***************************************************************************)
FinalizeKeepingError(t) ==
  /\ pc[t] = "finalize"
  /\ \/ /\ Active(row.status)
        /\ row' = Latest([mem[t] EXCEPT !.status = "running"])
     \/ /\ ~Active(row.status)
        /\ UNCHANGED row
  /\ End(t)
  /\ UNCHANGED <<rt, bounds>>

FinalizeKeepingStatus(t) ==
  /\ pc[t] = "finalize"
  /\ \/ /\ Active(row.status)
        /\ row' = Latest([mem[t] EXCEPT !.err = FALSE])
     \/ /\ ~Active(row.status)
        /\ UNCHANGED row
  /\ End(t)
  /\ UNCHANGED <<rt, bounds>>

(***************************************************************************)
(* successfulDeploymentPlayground, saved under the same guard.             *)
(***************************************************************************)
Finalize(t) ==
  /\ pc[t] = "finalize"
  /\ \/ /\ Active(row.status)
        /\ row' = Latest([mem[t] EXCEPT !.status = "running", !.err = FALSE])
     \/ /\ ~Active(row.status)
        /\ UNCHANGED row
  /\ End(t)
  /\ UNCHANGED <<rt, bounds>>

-----------------------------------------------------------------------------
(***************************************************************************)
(* failDeploymentAfterCreationStep: record the failed step, check that the *)
(* row is active, fill gaps, save the error.  The last save is             *)
(* unconditional.  The superseded status, if any check met one, is what    *)
(* observeDeployedCompose then cleans up for.                              *)
(***************************************************************************)
AfterFail(t, status) ==
  \/ /\ step[t] = "runtime_observe" /\ status # None
     /\ sup' = [sup EXCEPT ![t] = status]
     /\ Goto(t, "cleanup")
     /\ UNCHANGED <<step, mem, ps, ren>>
  \/ /\ step[t] # "runtime_observe" \/ status = None
     /\ End(t)

FailRecord(t) ==
  /\ pc[t] = "fail"
  /\ \/ /\ Active(row.status)
        /\ row' = Latest(mem[t])
        /\ mem' = [mem EXCEPT ![t] = Latest(mem[t])]
        /\ UNCHANGED sup
     \/ /\ ~Active(row.status)
        /\ sup' = [sup EXCEPT ![t] = IF Exists THEN row.status ELSE None]
        /\ UNCHANGED <<row, mem>>
  /\ Goto(t, "failcheck")
  /\ UNCHANGED <<rt, step, ps, ren, bounds>>

FailCheck(t) ==
  /\ pc[t] = "failcheck"
  /\ \/ /\ Active(row.status)
        /\ mem' = [mem EXCEPT ![t] = row]
        /\ Goto(t, "failkeep")
        /\ UNCHANGED <<step, ps, ren, sup>>
     \/ /\ ~Active(row.status)
        /\ AfterFail(t, IF Exists THEN row.status ELSE sup[t])
  /\ UNCHANGED <<row, rt, bounds>>

FailKeep(t) ==
  /\ pc[t] = "failkeep"
  /\ \/ /\ Exists
        /\ mem' = [mem EXCEPT ![t] = Preserve(mem[t])]
        /\ Goto(t, "failsave")
        /\ UNCHANGED <<step, ps, ren, sup>>
     \/ ~Exists /\ AfterFail(t, sup[t])
  /\ UNCHANGED <<row, rt, bounds>>

FailSave(t) ==
  /\ pc[t] = "failsave"
  /\ \/ /\ Exists
        /\ row' = [mem[t] EXCEPT !.status = "error", !.err = TRUE]
     \/ ~Exists /\ UNCHANGED row
  /\ AfterFail(t, sup[t])
  /\ UNCHANGED <<rt, bounds>>

(***************************************************************************)
(* cleanupSupersededRuntimeByStatus: StopCompose, which needs compose.yml, *)
(* or DestroyCompose, or nothing.                                          *)
(***************************************************************************)
CleanupStop(t) ==
  /\ pc[t] = "cleanup" /\ sup[t] \in {"stopping", "stopped"}
  /\ \/ ~ComposeMissing /\ ComposeDown /\ UNCHANGED faults
     \/ ComposeMissing /\ UNCHANGED <<rt, faults>>
     \/ Fault /\ UNCHANGED rt
  /\ End(t)
  /\ UNCHANGED <<row, restarts>>

CleanupDestroy(t) ==
  /\ pc[t] = "cleanup" /\ sup[t] = "destroying"
  /\ \/ ComposeDown /\ Goto(t, "cleanrm") /\ UNCHANGED <<locals, faults>>
     \/ Fault /\ End(t) /\ UNCHANGED rt
  /\ UNCHANGED <<row, restarts>>

CleanupRemove(t) ==
  /\ pc[t] = "cleanrm"
  /\ \/ RemoveFiles /\ UNCHANGED faults
     \/ Fault /\ UNCHANGED rt
  /\ End(t)
  /\ UNCHANGED <<row, restarts>>

CleanupNothing(t) ==
  /\ pc[t] = "cleanup"
  /\ sup[t] \notin {"stopping", "stopped", "destroying"}
  /\ End(t)
  /\ UNCHANGED <<row, rt, bounds>>

-----------------------------------------------------------------------------
(***************************************************************************)
(* POST .../operations stop: claim and save "stopping", StopCompose, claim *)
(* and save "stopped".  A claim compares statuses; the save that follows   *)
(* it is unconditional and writes the whole row.                           *)
(***************************************************************************)
StopAllowed(force) ==
  /\ Exists
  /\ force \/ row.status \in {"pending", "in_progress", "running",
                             "has_changes", "error"}

StopRequest(t) ==
  /\ pc[t] = "new" /\ t \in Stoppers
  /\ \E force \in Forces :
       \/ /\ StopAllowed(force)
          /\ Goto(t, "stop")
          /\ mem' = [mem EXCEPT ![t] = row]
          /\ UNCHANGED <<step, ps, ren, sup>>
       \/ /\ ~StopAllowed(force)
          /\ End(t)
  /\ UNCHANGED <<row, rt, bounds>>

(***************************************************************************)
(* SavePlayground: an UPDATE of every column, with no condition but the id.*)
(***************************************************************************)
Save(t, pg, point) ==
  \/ /\ Exists
     /\ row' = pg
     /\ mem' = [mem EXCEPT ![t] = pg]
     /\ Goto(t, point)
     /\ UNCHANGED <<step, ps, ren, sup>>
  \/ /\ ~Exists
     /\ End(t)
     /\ UNCHANGED row

SaveAndEnd(t, pg) ==
  /\ row' = IF Exists THEN pg ELSE row
  /\ End(t)

StopClaim(t) ==
  /\ pc[t] = "stop"
  /\ Claim(t, "stopping")
  /\ UNCHANGED <<row, rt, bounds>>

StopMark(t) ==
  /\ pc[t] = "stopping"
  /\ Save(t, [mem[t] EXCEPT !.status = "stopping"], "halt")
  /\ UNCHANGED <<rt, bounds>>

(***************************************************************************)
(* Faulty: a StopCompose that finds no Compose file returns without        *)
(* recording the failure.                                                  *)
(***************************************************************************)
StopHaltSilently(t) ==
  /\ pc[t] = "halt"
  /\ \/ ~ComposeMissing /\ ComposeDown /\ Goto(t, "stopclaim") /\ UNCHANGED faults
     \/ ComposeMissing /\ Goto(t, "done") /\ UNCHANGED <<rt, faults>>
     \/ Fault /\ Goto(t, "stopfail") /\ UNCHANGED rt
  /\ UNCHANGED <<row, locals, restarts>>

StopHalt(t) ==
  /\ pc[t] = "halt"
  /\ \/ ~ComposeMissing /\ ComposeDown /\ Goto(t, "stopclaim") /\ UNCHANGED faults
     \/ ComposeMissing /\ Goto(t, "stopfail") /\ UNCHANGED <<rt, faults>>
     \/ Fault /\ Goto(t, "stopfail") /\ UNCHANGED rt
  /\ UNCHANGED <<row, locals, restarts>>

StopReclaim(t) ==
  /\ pc[t] = "stopclaim"
  /\ Claim(t, "stopped")
  /\ UNCHANGED <<row, rt, bounds>>

StopDone(t) ==
  /\ pc[t] = "stopped"
  /\ SaveAndEnd(t, [mem[t] EXCEPT !.status = "stopped"])
  /\ UNCHANGED <<rt, bounds>>

StopFailClaim(t) ==
  /\ pc[t] = "stopfail"
  /\ Claim(t, "stoperr")
  /\ UNCHANGED <<row, rt, bounds>>

StopFailSave(t) ==
  /\ pc[t] = "stoperr"
  /\ SaveAndEnd(t, [mem[t] EXCEPT !.status = "error", !.err = TRUE])
  /\ UNCHANGED <<rt, bounds>>

-----------------------------------------------------------------------------
(***************************************************************************)
(* DELETE /api/playgrounds/{id}: claim, save "destroying", DestroyCompose, *)
(* delete the row.                                                         *)
(***************************************************************************)
DeleteRequest(t) ==
  /\ pc[t] = "new" /\ t \in Deleters
  /\ \/ /\ Exists
        /\ Goto(t, "del")
        /\ mem' = [mem EXCEPT ![t] = row]
        /\ UNCHANGED <<step, ps, ren, sup>>
     \/ ~Exists /\ End(t)
  /\ UNCHANGED <<row, rt, bounds>>

DeleteClaim(t) ==
  /\ pc[t] = "del"
  /\ Claim(t, "destroying")
  /\ UNCHANGED <<row, rt, bounds>>

DeleteMark(t) ==
  /\ pc[t] = "destroying"
  /\ Save(t, [mem[t] EXCEPT !.status = "destroying", !.err = FALSE], "destroy")
  /\ UNCHANGED <<rt, bounds>>

DeleteDown(t) ==
  /\ pc[t] = "destroy"
  /\ \/ ComposeDown /\ Goto(t, "remove") /\ UNCHANGED faults
     \/ Fault /\ Goto(t, "delfail") /\ UNCHANGED rt
  /\ UNCHANGED <<row, locals, restarts>>

DeleteFiles(t) ==
  /\ pc[t] = "remove"
  /\ \/ RemoveFiles /\ Goto(t, "delrow") /\ UNCHANGED faults
     \/ Fault /\ Goto(t, "delfail") /\ UNCHANGED rt
  /\ UNCHANGED <<row, locals, restarts>>

DeleteRow(t) ==
  /\ pc[t] = "delrow"
  /\ row' = [Blank EXCEPT !.status = "deleted"]
  /\ End(t)
  /\ UNCHANGED <<rt, bounds>>

DeleteFailClaim(t) ==
  /\ pc[t] = "delfail"
  /\ Claim(t, "delerr")
  /\ UNCHANGED <<row, rt, bounds>>

DeleteFailSave(t) ==
  /\ pc[t] = "delerr"
  /\ SaveAndEnd(t, [mem[t] EXCEPT !.status = "error", !.err = TRUE])
  /\ UNCHANGED <<rt, bounds>>

-----------------------------------------------------------------------------
(***************************************************************************)
(* Faulty: an edit during a deployment does not mark the row.              *)
(***************************************************************************)
PatchedUnmarked(spec, over) ==
  [row EXCEPT
     !.spec = spec, !.over = over,
     !.status = IF /\ <<spec, over>> # <<row.spec, row.over>>
                   /\ row.status \in {"pending", "running"}
                THEN "has_changes" ELSE row.status]

(***************************************************************************)
(* PATCH /api/playgrounds/{id}: read the row, apply the payload,           *)
(* markRuntimeConfigChanged, and save the whole copy.  An edit that leaves *)
(* spec and over alone (a rename, an expiration) saves them all the same.  *)
(***************************************************************************)
Patched(spec, over) ==
  [row EXCEPT
     !.spec = spec, !.over = over,
     !.status = IF /\ <<spec, over>> # <<row.spec, row.over>>
                   /\ row.status \in {"pending", "in_progress", "running"}
                THEN "has_changes" ELSE row.status]

PatchRead(t) ==
  /\ pc[t] = "new" /\ t \in Patchers
  /\ \/ /\ Exists
        /\ \E spec \in Playspecs, over \in Overrides :
             mem' = [mem EXCEPT ![t] = Patched(spec, over)]
        /\ Goto(t, "patch")
        /\ UNCHANGED <<step, ps, ren, sup>>
     \/ ~Exists /\ End(t)
  /\ UNCHANGED <<row, rt, bounds>>

PatchSave(t) ==
  /\ pc[t] = "patch"
  /\ SaveAndEnd(t, mem[t])
  /\ UNCHANGED <<rt, bounds>>

-----------------------------------------------------------------------------
(***************************************************************************)
(* stop, DELETE and PATCH run on the request's context: when the client    *)
(* goes away the next statement or command fails, and so does the write    *)
(* that would have recorded the failure.                                   *)
(***************************************************************************)
Disconnect(t) ==
  /\ t \in Stoppers \cup Deleters \cup Patchers
  /\ pc[t] \notin {"new", "done"}
  /\ Fault
  /\ End(t)
  /\ UNCHANGED <<row, rt, restarts>>

(***************************************************************************)
(* Faulty: the recovery stores the reason as the status, or overlooks the  *)
(* deployments that had not recorded a step yet.                           *)
(***************************************************************************)
RecoveredAsReason ==
  IF Active(row.status) THEN [row EXCEPT !.status = "interrupted", !.err = TRUE]
  ELSE row

RecoveredInProgress ==
  IF row.status = "in_progress" THEN [row EXCEPT !.status = "error", !.err = TRUE]
  ELSE row

(***************************************************************************)
(* The process dies and starts again: its goroutines are gone, and         *)
(* RecoverInterruptedPlaygrounds turns active rows into errors before the  *)
(* server listens.                                                         *)
(***************************************************************************)
Recovered ==
  IF Active(row.status) THEN [row EXCEPT !.status = "error", !.err = TRUE] ELSE row

Restart ==
  /\ restarts < MaxRestarts
  /\ restarts' = restarts + 1
  /\ row' = Recovered
  /\ pc' = [t \in Tasks |-> IF pc[t] = "new" THEN "new" ELSE "done"]
  /\ step' = [t \in Tasks |-> "compose_render"]
  /\ mem' = [t \in Tasks |-> Blank]
  /\ ps' = [t \in Tasks |-> None]
  /\ ren' = [t \in Tasks |-> None]
  /\ sup' = [t \in Tasks |-> None]
  /\ UNCHANGED <<rt, faults>>

-----------------------------------------------------------------------------
(***************************************************************************)
(* The specification.                                                      *)
(***************************************************************************)
Arrive(t) ==
  CreateLookup(t) \/ OperationRequest(t) \/ StopRequest(t) \/ DeleteRequest(t)
    \/ PatchRead(t)

Deploy(t) ==
  \/ CreateInsert(t) \/ RolloutClaim(t) \/ StartClaim(t) \/ HardRestartClaim(t)
  \/ HardRestartDown(t) \/ HardRestartReclaim(t)
  \/ DeployStart(t) \/ StartPrepare(t) \/ StartRecord(t)
  \/ StepBegin(t) \/ StepCheck(t) \/ RunRender(t) \/ RunHostPrerequisites(t)
  \/ RunSourceSync(t) \/ RunBuilds(t) \/ SaveBuilds(t) \/ RunDeployWrite(t)
  \/ RunComposeUp(t) \/ RunObserve(t) \/ StepFinish(t) \/ Progress(t)
  \/ Recheck(t) \/ LastCheck(t) \/ StartKeep(t) \/ Finalize(t)
  \/ FailRecord(t) \/ FailCheck(t) \/ FailKeep(t) \/ FailSave(t)
  \/ CleanupStop(t) \/ CleanupDestroy(t) \/ CleanupRemove(t) \/ CleanupNothing(t)

Handle(t) ==
  \/ StopClaim(t) \/ StopMark(t) \/ StopHalt(t) \/ StopReclaim(t) \/ StopDone(t)
  \/ StopFailClaim(t) \/ StopFailSave(t)
  \/ DeleteClaim(t) \/ DeleteMark(t) \/ DeleteDown(t) \/ DeleteFiles(t)
  \/ DeleteRow(t) \/ DeleteFailClaim(t) \/ DeleteFailSave(t)
  \/ PatchSave(t)

Work(t) == Deploy(t) \/ Handle(t)

(***************************************************************************)
(* Every task of the instance has run.                                     *)
(***************************************************************************)
Idle == (\A t \in Tasks : pc[t] = "done") /\ UNCHANGED vars

Next ==
  \/ \E t \in Tasks : Arrive(t) \/ Work(t) \/ RunFails(t) \/ Disconnect(t)
  \/ Restart
  \/ Idle

Spec == Init /\ [][Next]_vars

(***************************************************************************)
(* A goroutine that can take its next step takes it: host commands run     *)
(* under timeouts, and nothing else blocks one.  Requests need not come.   *)
(***************************************************************************)
FairSpec == Spec /\ \A t \in Tasks : WF_vars(Work(t))

-----------------------------------------------------------------------------
(***************************************************************************)
(* Properties.                                                             *)
(***************************************************************************)

(***************************************************************************)
(* Every variable has the type its declaration promises: in particular,    *)
(* row.status never leaves the documented values.                          *)
(***************************************************************************)
TypeOK ==
  /\ row \in Row
  /\ rt \in Runtime
  /\ pc \in [Tasks -> Points]
  /\ step \in [Tasks -> Steps]
  /\ mem \in [Tasks -> Row]
  /\ ps \in [Tasks -> Playspecs \cup {None}]
  /\ ren \in [Tasks -> Rendered \cup {None}]
  /\ sup \in [Tasks -> Stored \cup {None}]
  /\ faults \in 0 .. MaxFaults
  /\ restarts \in 0 .. MaxRestarts

(***************************************************************************)
(* A playground in status error carries error details and a running one    *)
(* carries none, whichever handler, worker or recovery wrote the row last  *)
(* and however old the copy was that it wrote.                             *)
(***************************************************************************)
Diagnosed(pg) ==
  /\ pg.status = "error" => pg.err
  /\ pg.status = "running" => ~pg.err

DiagnosticsMatchStatus == Diagnosed(row)

(***************************************************************************)
(* A row that says a deployment is under way has a goroutine that will     *)
(* still carry it to an end: no early return, failure path, stop, delete,  *)
(* lost client or restart leaves a pending or in_progress row behind,      *)
(* which no rollout could ever leave again.                                *)
(***************************************************************************)
Owner(t) ==
  \/ pc[t] \in Owning
  \/ pc[t] = "deploy" /\ mem[t].status = "pending" /\ row.status = "pending"

ActiveHasOwner == Active(row.status) => \E t \in Tasks : Owner(t)

(***************************************************************************)
(* At most one deployment goes on at a time: the claim of a rollout, the   *)
(* guarded first save and the name's uniqueness let no second worker into  *)
(* the host's project directory.                                           *)
(***************************************************************************)
SingleDeployment ==
  \A t, u \in Tasks : pc[t] \in Owning /\ pc[u] \in Owning => t = u

(***************************************************************************)
(* No request or worker is in flight.                                      *)
(***************************************************************************)
Quiet == \A t \in Tasks : pc[t] \in {"new", "done"}

(***************************************************************************)
(* A playground reported stopped has no running containers once the        *)
(* requests and workers that were in flight have ended: a deployment that  *)
(* brings containers up after the stop must take them down again.          *)
(***************************************************************************)
StoppedIsDown == Quiet /\ row.status = "stopped" => rt.up = None

(***************************************************************************)
(* A playground reported running runs containers created from the          *)
(* configuration its row shows: a configuration edit that lands in the     *)
(* middle of a deployment is never reported as deployed.                   *)
(***************************************************************************)
RunningReflectsConfig ==
  Quiet /\ row.status = "running" => rt.up = <<row.spec, row.over>>

(***************************************************************************)
(* A deployment that has begun ends: its row leaves pending and            *)
(* in_progress, because the work finishes, fails, is superseded or is      *)
(* recovered after a restart.                                              *)
(***************************************************************************)
DeploymentSettles == Active(row.status) ~> ~Active(row.status)

(***************************************************************************)
(* A stop that was accepted ends: the row leaves stopping.                 *)
(***************************************************************************)
StopSettles == row.status = "stopping" ~> row.status # "stopping"
=============================================================================
