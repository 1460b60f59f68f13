--------------------- MODULE PlaygroundLifecycleProofs ---------------------
(***************************************************************************)
(* Proofs about PlaygroundLifecycle, for any number of requests, faults    *)
(* and restarts.                                                           *)
(***************************************************************************)
EXTENDS PlaygroundLifecycle, TLAPS

-----------------------------------------------------------------------------
(***************************************************************************)
(* Type correctness.  The row and the host are typed by one lemma per      *)
(* helper, the tasks' local variables by LocalsOK.                         *)
(***************************************************************************)
LocalsOK ==
  /\ pc \in [Tasks -> Points]
  /\ step \in [Tasks -> Steps]
  /\ mem \in [Tasks -> Row]
  /\ ps \in [Tasks -> Playspecs \cup {None}]
  /\ ren \in [Tasks -> Rendered \cup {None}]
  /\ sup \in [Tasks -> Stored \cup {None}]

BoundsOK ==
  /\ faults \in 0 .. MaxFaults
  /\ restarts \in 0 .. MaxRestarts

LEMMA TypeParts ==
  TypeOK <=> row \in Row /\ rt \in Runtime /\ LocalsOK /\ BoundsOK
BY DEF TypeOK, LocalsOK, BoundsOK

LEMMA TypePartsNext ==
  TypeOK' <=> row' \in Row /\ rt' \in Runtime /\ LocalsOK' /\ BoundsOK'
BY DEF TypeOK, LocalsOK, BoundsOK

LEMMA BlankIsRow == Blank \in Row
BY DEF Blank, Row

LEMMA StatusIsRow ==
  ASSUME NEW pg \in Row, NEW s \in Stored, NEW e \in BOOLEAN
  PROVE  /\ [pg EXCEPT !.status = s] \in Row
         /\ [pg EXCEPT !.err = e] \in Row
         /\ [pg EXCEPT !.status = s, !.err = e] \in Row
BY DEF Row

LEMMA LatestIsRow ==
  ASSUME row \in Row, NEW pg \in Row
  PROVE  Latest(pg) \in Row
BY DEF Latest, Row

LEMMA PreserveIsRow ==
  ASSUME row \in Row, NEW pg \in Row
  PROVE  Preserve(pg) \in Row
BY DEF Preserve, Row

LEMMA EndOK ==
  ASSUME LocalsOK, NEW t \in Tasks, End(t)
  PROVE  LocalsOK'
BY BlankIsRow DEF End, Goto, LocalsOK, Points, Steps

LEMMA GotoOK ==
  ASSUME LocalsOK, NEW t \in Tasks, NEW point \in Points, Goto(t, point),
         UNCHANGED locals
  PROVE  LocalsOK'
BY DEF Goto, LocalsOK, locals

LEMMA MemOK ==
  ASSUME LocalsOK, NEW t \in Tasks, NEW point \in Points, NEW pg \in Row,
         Goto(t, point), mem' = [mem EXCEPT ![t] = pg],
         UNCHANGED <<step, ps, ren, sup>>
  PROVE  LocalsOK'
BY DEF Goto, LocalsOK

LEMMA ClaimOK ==
  ASSUME LocalsOK, row \in Row, NEW t \in Tasks, NEW point \in Points,
         Claim(t, point)
  PROVE  LocalsOK'
BY EndOK, MemOK DEF Claim

LEMMA SupersededOK ==
  ASSUME LocalsOK, NEW t \in Tasks, NEW cleans \in BOOLEAN, Superseded(t, cleans)
  PROVE  LocalsOK'
<1>1. CASE End(t)
  BY <1>1, EndOK
<1>2. CASE ~End(t)
  BY <1>2 DEF Superseded, Goto, LocalsOK, Points, Exists
<1> QED
  BY <1>1, <1>2

LEMMA SaveProgressOK ==
  ASSUME LocalsOK, row \in Row, NEW t \in Tasks, NEW pg \in Row,
         NEW cleans \in BOOLEAN, NEW point \in Points, NEW name \in Steps,
         SaveProgress(t, pg, cleans, point, name)
  PROVE  LocalsOK' /\ row' \in Row
<1>1. CASE Active(row.status)
  <2>1. Latest(pg) \in Row
    BY LatestIsRow
  <2> QED
    BY <1>1, <2>1 DEF SaveProgress, Goto, LocalsOK
<1>2. CASE ~Active(row.status)
  BY <1>2, SupersededOK DEF SaveProgress
<1> QED
  BY <1>1, <1>2

LEMMA RequireActiveOK ==
  ASSUME LocalsOK, NEW t \in Tasks, NEW pg \in Row,
         NEW cleans \in BOOLEAN, NEW point \in Points, NEW name \in Steps,
         RequireActive(t, pg, cleans, point, name)
  PROVE  LocalsOK'
<1>1. CASE Active(row.status)
  BY <1>1 DEF RequireActive, Goto, LocalsOK
<1>2. CASE ~Active(row.status)
  BY <1>2, SupersededOK DEF RequireActive
<1> QED
  BY <1>1, <1>2

LEMMA StartDeploymentOK ==
  ASSUME LocalsOK, row \in Row, NEW t \in Tasks, NEW name \in Steps,
         NEW point \in Points, StartDeployment(t, name, point)
  PROVE  LocalsOK' /\ row' \in Row
<1>1. CASE row.status # mem[t].status \/ row.status \notin StartAllowed
  BY <1>1, EndOK DEF StartDeployment
<1>2. CASE ~(row.status # mem[t].status \/ row.status \notin StartAllowed)
  <2> DEFINE pg == Latest([mem[t] EXCEPT !.status = "in_progress"])
  <2>1. mem[t] \in Row
    BY DEF LocalsOK
  <2>2. [mem[t] EXCEPT !.status = "in_progress"] \in Row
    BY <2>1, StatusIsRow DEF Stored
  <2>3. pg \in Row
    BY <2>2, LatestIsRow
  <2>4. mem[t].spec \in Playspecs \cup {None}
    BY <2>1 DEF Row
  <2>5. /\ row' = pg /\ mem' = [mem EXCEPT ![t] = pg]
        /\ ps' = [ps EXCEPT ![t] = mem[t].spec]
        /\ step' = [step EXCEPT ![t] = name]
        /\ Goto(t, point)
        /\ UNCHANGED <<ren, sup>>
    BY <1>2 DEF StartDeployment
  <2> HIDE DEF pg
  <2> QED
    BY <2>3, <2>4, <2>5 DEF Goto, LocalsOK
<1> QED
  BY <1>1, <1>2

LEMMA AfterFailOK ==
  ASSUME LocalsOK, NEW t \in Tasks, NEW status \in Stored \cup {None},
         AfterFail(t, status)
  PROVE  LocalsOK'
<1>1. CASE End(t)
  BY <1>1, EndOK
<1>2. CASE ~End(t)
  BY <1>2 DEF AfterFail, Goto, LocalsOK, Points
<1> QED
  BY <1>1, <1>2

LEMMA SaveOK ==
  ASSUME LocalsOK, row \in Row, NEW t \in Tasks, NEW pg \in Row,
         NEW point \in Points, Save(t, pg, point)
  PROVE  LocalsOK' /\ row' \in Row
<1>1. CASE Exists
  BY <1>1, MemOK DEF Save
<1>2. CASE ~Exists
  BY <1>2, EndOK DEF Save
<1> QED
  BY <1>1, <1>2

LEMMA SaveAndEndOK ==
  ASSUME LocalsOK, row \in Row, NEW t \in Tasks, NEW pg \in Row,
         SaveAndEnd(t, pg)
  PROVE  LocalsOK' /\ row' \in Row
BY EndOK DEF SaveAndEnd

LEMMA RuntimeOK ==
  ASSUME rt \in Runtime
  PROVE  /\ ComposeUp => rt' \in Runtime
         /\ ComposeDown => rt' \in Runtime
         /\ RemoveFiles => rt' \in Runtime
         /\ (rt' = [rt EXCEPT !.dir = TRUE]) => rt' \in Runtime
         /\ (UNCHANGED rt) => rt' \in Runtime
BY DEF ComposeUp, ComposeDown, RemoveFiles, Runtime

LEMMA BoundsKept ==
  ASSUME BoundsOK
  PROVE  /\ (UNCHANGED bounds) => BoundsOK'
         /\ (Fault /\ UNCHANGED restarts) => BoundsOK'
         /\ (UNCHANGED <<faults, restarts>>) => BoundsOK'
BY ConstantsAssumption DEF BoundsOK, Fault, bounds

LEMMA NamesOK ==
  ASSUME NEW name \in Steps
  PROVE  NextStep(name) \in Steps /\ AfterFinish(name) \in Points
BY DEF NextStep, AfterFinish, Steps, Points, Owning

LEMMA PatchedIsRow ==
  ASSUME row \in Row, NEW spec \in Playspecs, NEW over \in Overrides
  PROVE  Patched(spec, over) \in Row
BY DEF Patched, Row, Stored

(***************************************************************************)
(* Requests.                                                               *)
(***************************************************************************)
LEMMA ArriveType ==
  ASSUME TypeOK, NEW t \in Tasks, Arrive(t)
  PROVE  TypeOK'
<1> USE TypeParts, BoundsKept, RuntimeOK DEF Points, Owning
<1>1. CASE CreateLookup(t)
  BY <1>1, EndOK, GotoOK, TypePartsNext DEF CreateLookup
<1>2. CASE OperationRequest(t)
  <2>1. LocalsOK'
    <3>1. PICK kind \in OpKinds, force \in Forces :
             \/ /\ Goto(t, kind)
                /\ mem' = [mem EXCEPT ![t] = row]
                /\ UNCHANGED <<step, ps, ren, sup>>
             \/ End(t)
      BY <1>2 DEF OperationRequest
    <3>2. kind \in Points
      BY ConstantsAssumption DEF Kinds
    <3> QED
      BY <3>1, <3>2, EndOK, MemOK
  <2> QED
    BY <1>2, <2>1, TypePartsNext DEF OperationRequest
<1>3. CASE StopRequest(t)
  <2>1. LocalsOK'
    BY <1>3, EndOK, MemOK DEF StopRequest
  <2> QED
    BY <1>3, <2>1, TypePartsNext DEF StopRequest
<1>4. CASE DeleteRequest(t)
  <2>1. LocalsOK'
    BY <1>4, EndOK, MemOK DEF DeleteRequest
  <2> QED
    BY <1>4, <2>1, TypePartsNext DEF DeleteRequest
<1>5. CASE PatchRead(t)
  <2>1. LocalsOK'
    BY <1>5, EndOK, MemOK, PatchedIsRow DEF PatchRead
  <2> QED
    BY <1>5, <2>1, TypePartsNext DEF PatchRead
<1> QED
  BY <1>1, <1>2, <1>3, <1>4, <1>5 DEF Arrive

(***************************************************************************)
(* Claims and the first save of a deployment.                              *)
(***************************************************************************)
LEMMA ClaimType ==
  ASSUME TypeOK, NEW t \in Tasks,
         \/ CreateInsert(t) \/ RolloutClaim(t) \/ StartClaim(t)
         \/ HardRestartClaim(t) \/ HardRestartDown(t) \/ HardRestartReclaim(t)
         \/ DeployStart(t) \/ StartPrepare(t) \/ StartRecord(t)
  PROVE  TypeOK'
<1> USE TypeParts, BoundsKept, RuntimeOK DEF Points, Owning
<1>1. CASE CreateInsert(t)
  <2>1. LocalsOK' /\ row' \in Row
    <3>1. CASE row.status = "none"
      <4>1. PICK spec \in Playspecs, over \in Overrides :
               LET pg == [status |-> "pending", spec |-> spec, over |-> over,
                          gen |-> None, err |-> FALSE]
               IN  row' = pg /\ mem' = [mem EXCEPT ![t] = pg]
        BY <1>1, <3>1 DEF CreateInsert
      <4> DEFINE pg == [status |-> "pending", spec |-> spec, over |-> over,
                        gen |-> None, err |-> FALSE]
      <4>2. pg \in Row
        BY DEF Row, Stored
      <4>3. row' = pg /\ mem' = [mem EXCEPT ![t] = pg]
        BY <4>1
      <4> HIDE DEF pg
      <4> QED
        BY <1>1, <3>1, <4>2, <4>3, MemOK DEF CreateInsert
    <3>2. CASE row.status # "none"
      BY <1>1, <3>2, EndOK DEF CreateInsert
    <3> QED
      BY <3>1, <3>2
  <2> QED
    BY <1>1, <2>1, TypePartsNext DEF CreateInsert
<1>2. CASE RolloutClaim(t)
  BY <1>2, ClaimOK, TypePartsNext DEF RolloutClaim
<1>3. CASE StartClaim(t)
  BY <1>3, ClaimOK, TypePartsNext DEF StartClaim
<1>4. CASE HardRestartClaim(t)
  BY <1>4, ClaimOK, TypePartsNext DEF HardRestartClaim
<1>5. CASE HardRestartDown(t)
  <2>1. LocalsOK'
    BY <1>5, EndOK, GotoOK DEF HardRestartDown
  <2> QED
    BY <1>5, <2>1, TypePartsNext DEF HardRestartDown
<1>6. CASE HardRestartReclaim(t)
  BY <1>6, ClaimOK, TypePartsNext DEF HardRestartReclaim
<1>7. CASE DeployStart(t)
  <2>1. LocalsOK' /\ row' \in Row
    BY <1>7, StartDeploymentOK DEF DeployStart, Steps
  <2> QED
    BY <1>7, <2>1, TypePartsNext DEF DeployStart
<1>8. CASE StartPrepare(t)
  <2>1. mem[t] \in Row
    BY DEF LocalsOK
  <2>2. LocalsOK'
    BY <1>8, <2>1, EndOK, MemOK, PreserveIsRow DEF StartPrepare
  <2> QED
    BY <1>8, <2>2, TypePartsNext DEF StartPrepare
<1>9. CASE StartRecord(t)
  <2>1. LocalsOK' /\ row' \in Row
    BY <1>9, StartDeploymentOK DEF StartRecord, Steps
  <2> QED
    BY <1>9, <2>1, TypePartsNext DEF StartRecord
<1> QED
  BY <1>1, <1>2, <1>3, <1>4, <1>5, <1>6, <1>7, <1>8, <1>9

(***************************************************************************)
(* The steps of a deployment that talk to the database.                    *)
(***************************************************************************)
LEMMA StepType ==
  ASSUME TypeOK, NEW t \in Tasks,
         \/ StepBegin(t) \/ StepCheck(t) \/ SaveBuilds(t) \/ StepFinish(t)
         \/ Progress(t) \/ Recheck(t) \/ LastCheck(t) \/ StartKeep(t)
         \/ Finalize(t)
  PROVE  TypeOK'
<1> USE TypeParts, BoundsKept, RuntimeOK DEF Points, Owning
<1>a. mem[t] \in Row /\ step[t] \in Steps
  BY DEF LocalsOK
<1>1. CASE StepBegin(t)
  <2>1. LocalsOK' /\ row' \in Row
    BY <1>1, <1>a, SaveProgressOK DEF StepBegin
  <2> QED
    BY <1>1, <2>1, TypePartsNext DEF StepBegin
<1>2. CASE StepCheck(t)
  <2>1. LocalsOK'
    BY <1>2, <1>a, RequireActiveOK DEF StepCheck
  <2> QED
    BY <1>2, <2>1, TypePartsNext DEF StepCheck
<1>3. CASE SaveBuilds(t)
  <2>1. LocalsOK' /\ row' \in Row
    BY <1>3, <1>a, SaveProgressOK DEF SaveBuilds
  <2> QED
    BY <1>3, <2>1, TypePartsNext DEF SaveBuilds
<1>4. CASE StepFinish(t)
  <2>1. LocalsOK' /\ row' \in Row
    <3>1. NextStep(step[t]) \in Steps /\ AfterFinish(step[t]) \in Points
      BY <1>a, NamesOK
    <3>2. (step[t] \in {"compose_deploy", "runtime_observe"}) \in BOOLEAN
      OBVIOUS
    <3> HIDE DEF Points
    <3> QED
      BY <1>4, <1>a, <3>1, <3>2, SaveProgressOK DEF StepFinish
  <2> QED
    BY <1>4, <2>1, TypePartsNext DEF StepFinish
<1>5. CASE Progress(t)
  <2>1. LocalsOK' /\ row' \in Row
    BY <1>5, <1>a, SaveProgressOK DEF Progress
  <2> QED
    BY <1>5, <2>1, TypePartsNext DEF Progress
<1>6. CASE Recheck(t)
  <2>1. LocalsOK'
    BY <1>6, <1>a, RequireActiveOK DEF Recheck
  <2> QED
    BY <1>6, <2>1, TypePartsNext DEF Recheck
<1>7. CASE LastCheck(t)
  <2>1. LocalsOK'
    BY <1>7, <1>a, RequireActiveOK DEF LastCheck
  <2> QED
    BY <1>7, <2>1, TypePartsNext DEF LastCheck
<1>8. CASE StartKeep(t)
  <2>1. LocalsOK'
    BY <1>8, <1>a, EndOK, MemOK, PreserveIsRow DEF StartKeep
  <2> QED
    BY <1>8, <2>1, TypePartsNext DEF StartKeep
<1>9. CASE Finalize(t)
  <2>1. [mem[t] EXCEPT !.status = "running", !.err = FALSE] \in Row
    BY <1>a, StatusIsRow DEF Stored
  <2>2. row' \in Row
    BY <1>9, <2>1, LatestIsRow DEF Finalize
  <2> QED
    BY <1>9, <2>2, EndOK, TypePartsNext DEF Finalize
<1> QED
  BY <1>1, <1>2, <1>3, <1>4, <1>5, <1>6, <1>7, <1>8, <1>9

(***************************************************************************)
(* The steps of a deployment that work on the host.                        *)
(***************************************************************************)
LEMMA RunType ==
  ASSUME TypeOK, NEW t \in Tasks,
         \/ RunRender(t) \/ RunHostPrerequisites(t) \/ RunSourceSync(t)
         \/ RunBuilds(t) \/ RunDeployWrite(t) \/ RunComposeUp(t)
         \/ RunObserve(t) \/ RunFails(t)
  PROVE  TypeOK'
<1> USE TypeParts, BoundsKept, RuntimeOK DEF Points, Owning
<1>a. /\ mem[t] \in Row /\ ren[t] \in Rendered \cup {None}
      /\ ps[t] \in Playspecs \cup {None}
  BY DEF LocalsOK
<1>1. CASE RunRender(t)
  <2> DEFINE yaml == <<ps[t], mem[t].over>>
  <2>1. yaml \in Rendered
    BY <1>a DEF Row, Rendered
  <2>2. [mem[t] EXCEPT !.gen = yaml] \in Row
    BY <1>a, <2>1 DEF Row
  <2>3. /\ ren' = [ren EXCEPT ![t] = yaml]
        /\ mem' = [mem EXCEPT ![t].gen = yaml]
        /\ pc' = [pc EXCEPT ![t] = "finish"]
        /\ UNCHANGED <<step, ps, sup>>
    BY <1>1 DEF RunRender, Goto
  <2> HIDE DEF yaml
  <2>4. LocalsOK'
    BY <2>1, <2>2, <2>3 DEF LocalsOK
  <2> QED
    BY <1>1, <2>4, TypePartsNext DEF RunRender
<1>2. CASE RunHostPrerequisites(t)
  BY <1>2, GotoOK, TypePartsNext DEF RunHostPrerequisites
<1>3. CASE RunSourceSync(t)
  BY <1>3, GotoOK, TypePartsNext DEF RunSourceSync
<1>4. CASE RunBuilds(t)
  <2>1. [mem[t] EXCEPT !.gen = ren[t]] \in Row
    BY <1>a DEF Row
  <2>2. LocalsOK'
    BY <1>4, <2>1 DEF RunBuilds, Goto, LocalsOK
  <2> QED
    BY <1>4, <2>2, TypePartsNext DEF RunBuilds
<1>5. CASE RunDeployWrite(t)
  <2>1. rt' \in Runtime
    BY <1>5, <1>a DEF RunDeployWrite, Runtime
  <2> QED
    BY <1>5, <2>1, GotoOK, TypePartsNext DEF RunDeployWrite
<1>6. CASE RunComposeUp(t)
  <2>1. LocalsOK'
    BY <1>6, GotoOK DEF RunComposeUp
  <2> QED
    BY <1>6, <2>1, TypePartsNext DEF RunComposeUp
<1>7. CASE RunObserve(t)
  <2>1. LocalsOK'
    BY <1>7, GotoOK DEF RunObserve
  <2> QED
    BY <1>7, <2>1, TypePartsNext DEF RunObserve
<1>8. CASE RunFails(t)
  BY <1>8, GotoOK, TypePartsNext DEF RunFails
<1> QED
  BY <1>1, <1>2, <1>3, <1>4, <1>5, <1>6, <1>7, <1>8

(***************************************************************************)
(* The failure path and the cleanup behind a superseded deployment.        *)
(***************************************************************************)
LEMMA FailType ==
  ASSUME TypeOK, NEW t \in Tasks,
         \/ FailRecord(t) \/ FailCheck(t) \/ FailKeep(t) \/ FailSave(t)
         \/ CleanupStop(t) \/ CleanupDestroy(t) \/ CleanupRemove(t)
         \/ CleanupNothing(t)
  PROVE  TypeOK'
<1> USE TypeParts, BoundsKept, RuntimeOK DEF Points, Owning
<1>a. mem[t] \in Row /\ sup[t] \in Stored \cup {None}
  BY DEF LocalsOK
<1>b. (IF Exists THEN row.status ELSE sup[t]) \in Stored \cup {None}
  BY <1>a DEF Exists
<1>1. CASE FailRecord(t)
  <2>1. Latest(mem[t]) \in Row
    BY <1>a, LatestIsRow
  <2>2. row' \in Row
    BY <1>1, <2>1 DEF FailRecord
  <2>3. mem' \in [Tasks -> Row]
    BY <1>1, <2>1 DEF FailRecord, LocalsOK
  <2>4. sup' \in [Tasks -> Stored \cup {None}]
    BY <1>1 DEF FailRecord, LocalsOK, Exists
  <2>5. LocalsOK'
    BY <1>1, <2>3, <2>4 DEF FailRecord, Goto, LocalsOK
  <2> QED
    BY <1>1, <2>2, <2>5, TypePartsNext DEF FailRecord
<1>2. CASE FailCheck(t)
  <2>1. LocalsOK'
    BY <1>2, <1>b, MemOK, AfterFailOK DEF FailCheck
  <2> QED
    BY <1>2, <2>1, TypePartsNext DEF FailCheck
<1>3. CASE FailKeep(t)
  <2>1. LocalsOK'
    BY <1>3, <1>a, MemOK, PreserveIsRow, AfterFailOK DEF FailKeep
  <2> QED
    BY <1>3, <2>1, TypePartsNext DEF FailKeep
<1>4. CASE FailSave(t)
  <2>1. [mem[t] EXCEPT !.status = "error", !.err = TRUE] \in Row
    BY <1>a, StatusIsRow DEF Stored
  <2>2. row' \in Row
    BY <1>4, <2>1 DEF FailSave
  <2>3. LocalsOK'
    BY <1>4, <1>a, AfterFailOK DEF FailSave
  <2> QED
    BY <1>4, <2>2, <2>3, TypePartsNext DEF FailSave
<1>5. CASE CleanupStop(t)
  <2>1. rt' \in Runtime /\ BoundsOK'
    BY <1>5 DEF CleanupStop
  <2> QED
    BY <1>5, <2>1, EndOK, TypePartsNext DEF CleanupStop
<1>6. CASE CleanupDestroy(t)
  <2>1. LocalsOK'
    BY <1>6, EndOK, GotoOK DEF CleanupDestroy
  <2> QED
    BY <1>6, <2>1, TypePartsNext DEF CleanupDestroy
<1>7. CASE CleanupRemove(t)
  BY <1>7, EndOK, TypePartsNext DEF CleanupRemove
<1>8. CASE CleanupNothing(t)
  BY <1>8, EndOK, TypePartsNext DEF CleanupNothing
<1> QED
  BY <1>1, <1>2, <1>3, <1>4, <1>5, <1>6, <1>7, <1>8

(***************************************************************************)
(* stop, DELETE and PATCH.                                                 *)
(***************************************************************************)
LEMMA HandleType ==
  ASSUME TypeOK, NEW t \in Tasks, Handle(t)
  PROVE  TypeOK'
<1> USE TypeParts, BoundsKept, RuntimeOK DEF Points, Owning
<1>a. mem[t] \in Row
  BY DEF LocalsOK
<1>b. /\ [mem[t] EXCEPT !.status = "stopping"] \in Row
      /\ [mem[t] EXCEPT !.status = "stopped"] \in Row
      /\ [mem[t] EXCEPT !.status = "error", !.err = TRUE] \in Row
      /\ [mem[t] EXCEPT !.status = "destroying", !.err = FALSE] \in Row
  BY <1>a, StatusIsRow DEF Stored
<1>1. CASE StopClaim(t)
  BY <1>1, ClaimOK, TypePartsNext DEF StopClaim
<1>2. CASE StopMark(t)
  BY <1>2, <1>b, SaveOK, TypePartsNext DEF StopMark
<1>3. CASE StopHalt(t)
  <2>1. LocalsOK'
    BY <1>3, GotoOK DEF StopHalt
  <2> QED
    BY <1>3, <2>1, TypePartsNext DEF StopHalt
<1>4. CASE StopReclaim(t)
  BY <1>4, ClaimOK, TypePartsNext DEF StopReclaim
<1>5. CASE StopDone(t)
  BY <1>5, <1>b, SaveAndEndOK, TypePartsNext DEF StopDone
<1>6. CASE StopFailClaim(t)
  BY <1>6, ClaimOK, TypePartsNext DEF StopFailClaim
<1>7. CASE StopFailSave(t)
  BY <1>7, <1>b, SaveAndEndOK, TypePartsNext DEF StopFailSave
<1>8. CASE DeleteClaim(t)
  BY <1>8, ClaimOK, TypePartsNext DEF DeleteClaim
<1>9. CASE DeleteMark(t)
  BY <1>9, <1>b, SaveOK, TypePartsNext DEF DeleteMark
<1>10. CASE DeleteDown(t)
  <2>1. LocalsOK'
    BY <1>10, GotoOK DEF DeleteDown
  <2> QED
    BY <1>10, <2>1, TypePartsNext DEF DeleteDown
<1>11. CASE DeleteFiles(t)
  <2>1. LocalsOK'
    BY <1>11, GotoOK DEF DeleteFiles
  <2> QED
    BY <1>11, <2>1, TypePartsNext DEF DeleteFiles
<1>12. CASE DeleteRow(t)
  <2>1. row' \in Row
    BY <1>12 DEF DeleteRow, Blank, Row
  <2> QED
    BY <1>12, <2>1, EndOK, TypePartsNext DEF DeleteRow
<1>13. CASE DeleteFailClaim(t)
  BY <1>13, ClaimOK, TypePartsNext DEF DeleteFailClaim
<1>14. CASE DeleteFailSave(t)
  BY <1>14, <1>b, SaveAndEndOK, TypePartsNext DEF DeleteFailSave
<1>15. CASE PatchSave(t)
  BY <1>15, <1>a, SaveAndEndOK, TypePartsNext DEF PatchSave
<1> QED
  BY <1>1, <1>2, <1>3, <1>4, <1>5, <1>6, <1>7, <1>8, <1>9, <1>10, <1>11,
     <1>12, <1>13, <1>14, <1>15 DEF Handle

LEMMA RestartType ==
  ASSUME TypeOK, Restart
  PROVE  TypeOK'
<1>1. row' \in Row
  BY DEF Restart, Recovered, TypeOK, Row, Stored
<1>2. LocalsOK'
  BY BlankIsRow DEF Restart, LocalsOK, TypeOK, Points, Steps
<1>3. BoundsOK'
  BY ConstantsAssumption DEF Restart, BoundsOK, TypeOK
<1>4. rt' \in Runtime
  BY DEF Restart, TypeOK
<1> QED
  BY <1>1, <1>2, <1>3, <1>4, TypePartsNext

LEMMA TypeStep == TypeOK /\ [Next]_vars => TypeOK'
<1> SUFFICES ASSUME TypeOK, [Next]_vars PROVE TypeOK'
  OBVIOUS
<1>1. ASSUME NEW t \in Tasks, Deploy(t) PROVE TypeOK'
  BY <1>1, ClaimType, StepType, RunType, FailType DEF Deploy
<1>2. ASSUME NEW t \in Tasks, Disconnect(t) PROVE TypeOK'
  BY <1>2, TypeParts, TypePartsNext, EndOK, BoundsKept, RuntimeOK DEF Disconnect
<1>3. CASE UNCHANGED vars
  BY <1>3 DEF vars, TypeOK
<1>4. CASE Idle
  BY <1>3, <1>4 DEF Idle
<1> QED
  BY <1>1, <1>2, <1>3, <1>4, ArriveType, HandleType, RunType, RestartType
     DEF Next, Work

(***************************************************************************)
(* The model is well typed: every handler, worker and recovery writes rows *)
(* whose status is one of the documented values.                           *)
(***************************************************************************)
THEOREM TypeCorrect == Spec => []TypeOK
<1>1. Init => TypeOK
  BY BlankIsRow, ConstantsAssumption
     DEF Init, TypeOK, Runtime, Points, Steps
<1> QED
  BY <1>1, TypeStep, PTL DEF Spec

-----------------------------------------------------------------------------
(***************************************************************************)
(* An active row always has an owner.                                      *)
(*                                                                         *)
(* ActiveHasOwner is inductive once it is known which requests reach which *)
(* points: only creations and operations deploy, so a lost client          *)
(* connection never takes an owner away, and only a PATCH saves a copy     *)
(* with the status it read.  The theorem leaves PATCH out: with it the     *)
(* property fails, as the run stuck_deployment shows.                      *)
(***************************************************************************)
DeployPoints ==
  Owning \cup {"insert", "rollout", "start", "hard_restart", "down", "reclaim",
               "deploy", "startprep", "startup"}

KindOf(t) ==
  /\ pc[t] \in DeployPoints => t \in Creators \cup Operators
  /\ pc[t] = "patch" => t \in Patchers

OInv ==
  /\ TypeOK
  /\ \A t \in Tasks : KindOf(t)
  /\ ActiveHasOwner

(***************************************************************************)
(* What a step of task t may do: leave the other tasks alone, stay among   *)
(* the points of t's kind, and not abandon an active row.                  *)
(***************************************************************************)
Only(t) == \A u \in Tasks \ {t} : pc'[u] = pc[u] /\ mem'[u] = mem[u]

Kept(t) ==
  \/ ~Active(row.status)'
  \/ Owner(t)'
  \/ row' = row /\ ~Owner(t)

Careful(t) == Only(t) /\ KindOf(t)' /\ Kept(t)

LEMMA CarefulKeepsOwner ==
  ASSUME OInv, TypeOK', NEW t \in Tasks, Careful(t)
  PROVE  OInv'
<1>1. \A u \in Tasks : KindOf(u)'
  <2> SUFFICES ASSUME NEW u \in Tasks PROVE KindOf(u)'
    OBVIOUS
  <2>1. CASE u = t
    BY <2>1 DEF Careful
  <2>2. CASE u # t
    BY <2>2 DEF OInv, Careful, Only, KindOf
  <2> QED
    BY <2>1, <2>2
<1>2. ActiveHasOwner'
  <2>1. CASE ~Active(row.status)' \/ Owner(t)'
    BY <2>1 DEF ActiveHasOwner
  <2>2. CASE row' = row /\ ~Owner(t)
    <3> SUFFICES ASSUME Active(row.status) PROVE \E u \in Tasks : Owner(u)'
      BY <2>2 DEF ActiveHasOwner, Active
    <3>1. PICK u \in Tasks : Owner(u)
      BY DEF OInv, ActiveHasOwner
    <3>2. u # t
      BY <2>2, <3>1
    <3>3. Owner(u)'
      BY <2>2, <3>1, <3>2 DEF Careful, Only, Owner
    <3> QED
      BY <3>3
  <2> QED
    BY <2>1, <2>2 DEF Careful, Kept
<1> QED
  BY <1>1, <1>2 DEF OInv

LEMMA ArriveCareful ==
  ASSUME OInv, NEW t \in Tasks, Arrive(t)
  PROVE  Careful(t)
<1> USE DEF OInv, Careful, Only, KindOf, Kept, Owner, Owning, DeployPoints,
            Goto, TypeOK
<1>1. CASE CreateLookup(t)
  BY <1>1 DEF CreateLookup, End, locals
<1>2. CASE OperationRequest(t)
  BY <1>2, ConstantsAssumption DEF OperationRequest, End, Kinds
<1>3. CASE StopRequest(t)
  BY <1>3 DEF StopRequest, End
<1>4. CASE DeleteRequest(t)
  BY <1>4 DEF DeleteRequest, End
<1>5. CASE PatchRead(t)
  BY <1>5 DEF PatchRead, End
<1> QED
  BY <1>1, <1>2, <1>3, <1>4, <1>5 DEF Arrive

LEMMA ClaimCareful ==
  ASSUME OInv, NEW t \in Tasks,
         \/ CreateInsert(t) \/ RolloutClaim(t) \/ StartClaim(t)
         \/ HardRestartClaim(t) \/ HardRestartDown(t) \/ HardRestartReclaim(t)
         \/ DeployStart(t) \/ StartPrepare(t) \/ StartRecord(t)
  PROVE  Careful(t)
<1> USE DEF OInv, Careful, Only, KindOf, Kept, Owner, Owning, DeployPoints,
            Goto, TypeOK
<1>1. CASE CreateInsert(t)
  BY <1>1 DEF CreateInsert, End
<1>2. CASE RolloutClaim(t)
  BY <1>2 DEF RolloutClaim, Claim, End
<1>3. CASE StartClaim(t)
  BY <1>3 DEF StartClaim, Claim, End
<1>4. CASE HardRestartClaim(t)
  BY <1>4 DEF HardRestartClaim, Claim, End
<1>5. CASE HardRestartDown(t)
  BY <1>5 DEF HardRestartDown, End, locals
<1>6. CASE HardRestartReclaim(t)
  BY <1>6 DEF HardRestartReclaim, Claim, End
<1>7. CASE DeployStart(t)
  BY <1>7 DEF DeployStart, StartDeployment, StartAllowed, End
<1>8. CASE StartPrepare(t)
  BY <1>8 DEF StartPrepare, End
<1>9. CASE StartRecord(t)
  BY <1>9 DEF StartRecord, StartDeployment, End
<1> QED
  BY <1>1, <1>2, <1>3, <1>4, <1>5, <1>6, <1>7, <1>8, <1>9

(***************************************************************************)
(* A guarded save either leaves the deployment at one of its points or     *)
(* finds the row inactive.                                                 *)
(***************************************************************************)
LEMMA SupersededCareful ==
  ASSUME OInv, NEW t \in Tasks, NEW cleans, Superseded(t, cleans),
         ~Active(row.status), row' = row
  PROVE  Careful(t)
BY DEF OInv, Careful, Only, KindOf, Kept, Owning, DeployPoints, Goto, TypeOK,
       Superseded, End, Active

LEMMA SaveProgressCareful ==
  ASSUME OInv, NEW t \in Tasks, pc[t] \in Owning, NEW pg, NEW cleans,
         NEW point \in Owning, NEW name,
         SaveProgress(t, pg, cleans, point, name)
  PROVE  Careful(t)
<1>1. CASE Active(row.status)
  BY <1>1 DEF OInv, Careful, Only, KindOf, Kept, Owner, Owning, DeployPoints,
              Goto, TypeOK, SaveProgress
<1>2. CASE ~Active(row.status)
  BY <1>2, SupersededCareful DEF SaveProgress
<1> QED
  BY <1>1, <1>2

LEMMA RequireActiveCareful ==
  ASSUME OInv, NEW t \in Tasks, pc[t] \in Owning, NEW pg, NEW cleans,
         NEW point \in Owning, NEW name, row' = row,
         RequireActive(t, pg, cleans, point, name)
  PROVE  Careful(t)
<1>1. CASE Active(row.status)
  BY <1>1 DEF OInv, Careful, Only, KindOf, Kept, Owner, Owning, DeployPoints,
              Goto, TypeOK, RequireActive
<1>2. CASE ~Active(row.status)
  BY <1>2, SupersededCareful DEF RequireActive
<1> QED
  BY <1>1, <1>2

LEMMA StepCareful ==
  ASSUME OInv, NEW t \in Tasks,
         \/ StepBegin(t) \/ StepCheck(t) \/ SaveBuilds(t) \/ StepFinish(t)
         \/ Progress(t) \/ Recheck(t) \/ LastCheck(t) \/ StartKeep(t)
         \/ Finalize(t)
  PROVE  Careful(t)
<1> USE DEF Owning
<1>1. CASE StepBegin(t)
  BY <1>1, SaveProgressCareful DEF StepBegin
<1>2. CASE StepCheck(t)
  BY <1>2, RequireActiveCareful DEF StepCheck
<1>3. CASE SaveBuilds(t)
  BY <1>3, SaveProgressCareful DEF SaveBuilds
<1>4. CASE StepFinish(t)
  <2>1. AfterFinish(step[t]) \in Owning
    BY DEF AfterFinish
  <2> HIDE DEF Owning
  <2>2. pc[t] \in Owning
    BY <1>4 DEF StepFinish, Owning
  <2> QED
    BY <1>4, <2>1, <2>2, SaveProgressCareful DEF StepFinish
<1>5. CASE Progress(t)
  BY <1>5, SaveProgressCareful DEF Progress
<1>6. CASE Recheck(t)
  BY <1>6, RequireActiveCareful DEF Recheck
<1>7. CASE LastCheck(t)
  BY <1>7, RequireActiveCareful DEF LastCheck
<1>8. CASE StartKeep(t)
  BY <1>8 DEF StartKeep, End, OInv, Careful, Only, KindOf, Kept, Owner,
              DeployPoints, Goto, TypeOK, Exists, Active, Stored
<1>9. CASE Finalize(t)
  <2>1. ~Active(row.status)'
    BY <1>9 DEF Finalize, Latest, Active, OInv, TypeOK, Row
  <2> QED
    BY <1>9, <2>1 DEF Finalize, End, OInv, Careful, Only, KindOf, Kept,
                      DeployPoints, Goto, TypeOK
<1> QED
  BY <1>1, <1>2, <1>3, <1>4, <1>5, <1>6, <1>7, <1>8, <1>9

LEMMA RunCareful ==
  ASSUME OInv, NEW t \in Tasks,
         \/ RunRender(t) \/ RunHostPrerequisites(t) \/ RunSourceSync(t)
         \/ RunBuilds(t) \/ RunDeployWrite(t) \/ RunComposeUp(t)
         \/ RunObserve(t) \/ RunFails(t)
  PROVE  Careful(t)
<1> USE DEF OInv, Careful, Only, KindOf, Kept, Owner, Owning, DeployPoints,
            Goto, TypeOK, locals
<1>1. CASE RunRender(t)
  BY <1>1 DEF RunRender
<1>2. CASE RunHostPrerequisites(t)
  BY <1>2 DEF RunHostPrerequisites
<1>3. CASE RunSourceSync(t)
  BY <1>3 DEF RunSourceSync
<1>4. CASE RunBuilds(t)
  BY <1>4 DEF RunBuilds
<1>5. CASE RunDeployWrite(t)
  BY <1>5 DEF RunDeployWrite
<1>6. CASE RunComposeUp(t)
  BY <1>6 DEF RunComposeUp
<1>7. CASE RunObserve(t)
  BY <1>7 DEF RunObserve
<1>8. CASE RunFails(t)
  BY <1>8 DEF RunFails
<1> QED
  BY <1>1, <1>2, <1>3, <1>4, <1>5, <1>6, <1>7, <1>8

LEMMA FailCareful ==
  ASSUME OInv, NEW t \in Tasks,
         \/ FailRecord(t) \/ FailCheck(t) \/ FailKeep(t) \/ FailSave(t)
         \/ CleanupStop(t) \/ CleanupDestroy(t) \/ CleanupRemove(t)
         \/ CleanupNothing(t)
  PROVE  Careful(t)
<1> USE DEF OInv, Careful, Only, KindOf, Kept, Owner, Owning, DeployPoints,
            Goto, TypeOK, Active
<1>1. CASE FailRecord(t)
  BY <1>1 DEF FailRecord
<1>2. CASE FailCheck(t)
  BY <1>2 DEF FailCheck, AfterFail, End
<1>3. CASE FailKeep(t)
  BY <1>3 DEF FailKeep, AfterFail, End, Exists, Stored
<1>4. CASE FailSave(t)
  <2>1. ~Active(row.status)'
    BY <1>4 DEF FailSave, Exists, Stored, Row
  <2> QED
    BY <1>4, <2>1 DEF FailSave, AfterFail, End
<1>5. CASE CleanupStop(t)
  BY <1>5 DEF CleanupStop, End
<1>6. CASE CleanupDestroy(t)
  BY <1>6 DEF CleanupDestroy, End, locals
<1>7. CASE CleanupRemove(t)
  BY <1>7 DEF CleanupRemove, End
<1>8. CASE CleanupNothing(t)
  BY <1>8 DEF CleanupNothing, End
<1> QED
  BY <1>1, <1>2, <1>3, <1>4, <1>5, <1>6, <1>7, <1>8

LEMMA HandleCareful ==
  ASSUME Patchers = {}, OInv, NEW t \in Tasks, Handle(t)
  PROVE  Careful(t)
<1> USE DEF OInv, Careful, Only, KindOf, Kept, Owner, Owning, DeployPoints,
            Goto, TypeOK, Active
<1>a. mem[t] \in Row
  OBVIOUS
<1>1. CASE StopClaim(t)
  BY <1>1 DEF StopClaim, Claim, End
<1>2. CASE StopMark(t)
  <2>1. ~Active(row.status)'
    BY <1>2, <1>a DEF StopMark, Save, Exists, Stored, Row
  <2> QED
    BY <1>2, <2>1 DEF StopMark, Save, End
<1>3. CASE StopHalt(t)
  BY <1>3 DEF StopHalt, locals
<1>4. CASE StopReclaim(t)
  BY <1>4 DEF StopReclaim, Claim, End
<1>5. CASE StopDone(t)
  <2>1. ~Active(row.status)'
    BY <1>5, <1>a DEF StopDone, SaveAndEnd, Exists, Stored, Row
  <2> QED
    BY <1>5, <2>1 DEF StopDone, SaveAndEnd, End
<1>6. CASE StopFailClaim(t)
  BY <1>6 DEF StopFailClaim, Claim, End
<1>7. CASE StopFailSave(t)
  <2>1. ~Active(row.status)'
    BY <1>7, <1>a DEF StopFailSave, SaveAndEnd, Exists, Stored, Row
  <2> QED
    BY <1>7, <2>1 DEF StopFailSave, SaveAndEnd, End
<1>8. CASE DeleteClaim(t)
  BY <1>8 DEF DeleteClaim, Claim, End
<1>9. CASE DeleteMark(t)
  <2>1. ~Active(row.status)'
    BY <1>9, <1>a DEF DeleteMark, Save, Exists, Stored, Row
  <2> QED
    BY <1>9, <2>1 DEF DeleteMark, Save, End
<1>10. CASE DeleteDown(t)
  BY <1>10 DEF DeleteDown, locals
<1>11. CASE DeleteFiles(t)
  BY <1>11 DEF DeleteFiles, locals
<1>12. CASE DeleteRow(t)
  <2>1. ~Active(row.status)'
    BY <1>12 DEF DeleteRow, Blank
  <2> QED
    BY <1>12, <2>1 DEF DeleteRow, End
<1>13. CASE DeleteFailClaim(t)
  BY <1>13 DEF DeleteFailClaim, Claim, End
<1>14. CASE DeleteFailSave(t)
  <2>1. ~Active(row.status)'
    BY <1>14, <1>a DEF DeleteFailSave, SaveAndEnd, Exists, Stored, Row
  <2> QED
    BY <1>14, <2>1 DEF DeleteFailSave, SaveAndEnd, End
<1>15. CASE PatchSave(t)
  BY <1>15 DEF PatchSave
<1> QED
  BY <1>1, <1>2, <1>3, <1>4, <1>5, <1>6, <1>7, <1>8, <1>9, <1>10, <1>11,
     <1>12, <1>13, <1>14, <1>15 DEF Handle

LEMMA DisconnectCareful ==
  ASSUME OInv, NEW t \in Tasks, Disconnect(t)
  PROVE  Careful(t)
<1>1. t \notin Creators \cup Operators
  BY TasksAssumption DEF Disconnect
<1>2. pc[t] \notin DeployPoints
  BY <1>1 DEF OInv, KindOf
<1>3. ~Owner(t) /\ row' = row
  BY <1>2 DEF Disconnect, Owner, DeployPoints
<1>4. Only(t) /\ KindOf(t)'
  BY DEF OInv, TypeOK, Disconnect, End, Goto, Only, KindOf, DeployPoints, Owning
<1> QED
  BY <1>3, <1>4 DEF Careful, Kept

LEMMA RestartOwner ==
  ASSUME OInv, Restart
  PROVE  OInv'
<1>1. TypeOK'
  BY RestartType DEF OInv
<1>2. ~Active(row.status)'
  BY DEF OInv, TypeOK, Restart, Recovered, Active, Row
<1>3. \A t \in Tasks : KindOf(t)'
  BY DEF OInv, KindOf, Restart, DeployPoints, Owning
<1> QED
  BY <1>1, <1>2, <1>3 DEF OInv, ActiveHasOwner

(***************************************************************************)
(* A pending or in_progress row never outlives the goroutine responsible   *)
(* for it, for any number of creations, operations, stops, deletions,      *)
(* faults, lost clients and restarts.                                      *)
(***************************************************************************)
THEOREM NoAbandonedDeployment ==
  ASSUME Patchers = {}
  PROVE  Spec => []ActiveHasOwner
<1>1. Init => OInv
  <2> SUFFICES ASSUME Init PROVE OInv
    OBVIOUS
  <2>1. TypeOK
    BY BlankIsRow, ConstantsAssumption
       DEF Init, TypeOK, Runtime, Points, Steps
  <2> QED
    BY <2>1 DEF Init, OInv, KindOf, DeployPoints, Owning, ActiveHasOwner,
                Active, Blank
<1>2. OInv /\ [Next]_vars => OInv'
  <2> SUFFICES ASSUME OInv, [Next]_vars PROVE OInv'
    OBVIOUS
  <2>1. TypeOK'
    BY TypeStep DEF OInv
  <2>2. ASSUME NEW t \in Tasks,
               Arrive(t) \/ Work(t) \/ RunFails(t) \/ Disconnect(t)
        PROVE  OInv'
    <3>1. Careful(t)
      BY <2>2, ArriveCareful, ClaimCareful, StepCareful, RunCareful,
         FailCareful, HandleCareful, DisconnectCareful DEF Work, Deploy
    <3> QED
      BY <2>1, <3>1, CarefulKeepsOwner
  <2>3. CASE UNCHANGED vars
    BY <2>1, <2>3 DEF vars, OInv, KindOf, ActiveHasOwner, Owner
  <2>4. CASE Idle
    BY <2>3, <2>4 DEF Idle
  <2> QED
    BY <2>2, <2>3, <2>4, RestartOwner DEF Next
<1>3. OInv => ActiveHasOwner
  BY DEF OInv
<1> QED
  BY <1>1, <1>2, <1>3, PTL DEF Spec

-----------------------------------------------------------------------------
(***************************************************************************)
(* Diagnostics.  Rows are written from copies that may be old, so the      *)
(* invariant is about every copy as well as the row.                       *)
(***************************************************************************)
DInv ==
  /\ TypeOK
  /\ Diagnosed(row)
  /\ \A t \in Tasks : Diagnosed(mem[t])

LEMMA DiagnosedCopies ==
  ASSUME row \in Row, NEW pg \in Row, Diagnosed(pg)
  PROVE  /\ Diagnosed(Latest(pg))
         /\ Diagnosed(Preserve(pg))
         /\ \A y : Diagnosed([pg EXCEPT !.gen = y])
BY DEF Diagnosed, Latest, Preserve, Row

LEMMA DiagnosedStatus ==
  ASSUME NEW pg \in Row
  PROVE  /\ \A s \in Stored \ {"error", "running"} :
              /\ Diagnosed([pg EXCEPT !.status = s])
              /\ Diagnosed([pg EXCEPT !.status = s, !.err = FALSE])
         /\ Diagnosed([pg EXCEPT !.status = "error", !.err = TRUE])
         /\ Diagnosed([pg EXCEPT !.status = "running", !.err = FALSE])
BY DEF Diagnosed, Row, Stored

LEMMA DiagnosedBlank == Diagnosed(Blank)
BY DEF Diagnosed, Blank

(***************************************************************************)
(* A step writes the row and one copy, both diagnosed.                     *)
(***************************************************************************)
Marked(t) ==
  /\ Diagnosed(row)'
  /\ \/ mem' = mem
     \/ \E pg \in Row : Diagnosed(pg) /\ mem' = [mem EXCEPT ![t] = pg]

LEMMA MarkedKeeps ==
  ASSUME DInv, TypeOK', NEW t \in Tasks, Marked(t)
  PROVE  DInv'
<1>1. ASSUME NEW u \in Tasks PROVE Diagnosed(mem[u])'
  <2>1. CASE mem' = mem
    BY <2>1 DEF DInv
  <2>2. CASE \E pg \in Row : Diagnosed(pg) /\ mem' = [mem EXCEPT ![t] = pg]
    <3>1. PICK pg \in Row : Diagnosed(pg) /\ mem' = [mem EXCEPT ![t] = pg]
      BY <2>2
    <3>2. CASE u = t
      <4>1. mem'[u] = pg
        BY <3>1, <3>2 DEF DInv, TypeOK
      <4> QED
        BY <3>1, <4>1
    <3>3. CASE u # t
      <4>1. mem'[u] = mem[u]
        BY <3>1, <3>3 DEF DInv, TypeOK
      <4> QED
        BY <4>1 DEF DInv
    <3> QED
      BY <3>2, <3>3
  <2> QED
    BY <2>1, <2>2 DEF Marked
<1> QED
  BY <1>1 DEF DInv, Marked

LEMMA EndMarked ==
  ASSUME NEW t \in Tasks, End(t), Diagnosed(row)'
  PROVE  Marked(t)
BY DiagnosedBlank, BlankIsRow DEF Marked, End

LEMMA SaveProgressMarked ==
  ASSUME DInv, NEW t \in Tasks, NEW cleans, NEW point, NEW name,
         SaveProgress(t, mem[t], cleans, point, name)
  PROVE  Marked(t)
<1>1. mem[t] \in Row /\ row \in Row /\ Diagnosed(mem[t]) /\ Diagnosed(row)
  BY DEF DInv, TypeOK
<1>2. CASE Active(row.status)
  <2>1. Latest(mem[t]) \in Row /\ Diagnosed(Latest(mem[t]))
    BY <1>1, LatestIsRow, DiagnosedCopies
  <2> QED
    BY <1>2, <2>1 DEF SaveProgress, Marked
<1>3. CASE ~Active(row.status)
  BY <1>1, <1>3, EndMarked DEF SaveProgress, Superseded, Marked
<1> QED
  BY <1>2, <1>3

LEMMA RequireActiveMarked ==
  ASSUME DInv, NEW t \in Tasks, NEW pg \in Row, Diagnosed(pg), NEW cleans,
         NEW point, NEW name, row' = row,
         RequireActive(t, pg, cleans, point, name)
  PROVE  Marked(t)
<1>1. Diagnosed(row)'
  BY DEF DInv
<1> QED
  BY <1>1, EndMarked DEF RequireActive, Superseded, Marked

LEMMA ClaimMarked ==
  ASSUME DInv, NEW t \in Tasks, NEW point, row' = row, Claim(t, point)
  PROVE  Marked(t)
<1>1. Diagnosed(row)' /\ Diagnosed(row) /\ row \in Row
  BY DEF DInv, TypeOK
<1> QED
  BY <1>1, EndMarked DEF Claim, Marked

LEMMA StartDeploymentMarked ==
  ASSUME DInv, NEW t \in Tasks, NEW name, NEW point,
         StartDeployment(t, name, point)
  PROVE  Marked(t)
<1>1. mem[t] \in Row /\ row \in Row /\ Diagnosed(row)
  BY DEF DInv, TypeOK
<1>2. CASE row.status # mem[t].status \/ row.status \notin StartAllowed
  BY <1>1, <1>2, EndMarked DEF StartDeployment
<1>3. CASE ~(row.status # mem[t].status \/ row.status \notin StartAllowed)
  <2> DEFINE pg == [mem[t] EXCEPT !.status = "in_progress"]
  <2>1. pg \in Row /\ Diagnosed(pg)
    BY <1>1, StatusIsRow, DiagnosedStatus DEF Stored
  <2> HIDE DEF pg
  <2>2. Latest(pg) \in Row /\ Diagnosed(Latest(pg))
    BY <1>1, <2>1, LatestIsRow, DiagnosedCopies
  <2> QED
    BY <1>3, <2>2 DEF StartDeployment, Marked, pg
<1> QED
  BY <1>2, <1>3

LEMMA AfterFailMarked ==
  ASSUME NEW t \in Tasks, NEW status, AfterFail(t, status), Diagnosed(row)'
  PROVE  Marked(t)
BY EndMarked DEF AfterFail, Marked

LEMMA SaveMarked ==
  ASSUME DInv, NEW t \in Tasks, NEW pg \in Row, Diagnosed(pg), NEW point,
         Save(t, pg, point) \/ SaveAndEnd(t, pg)
  PROVE  Marked(t)
<1>1. Diagnosed(row)
  BY DEF DInv
<1>2. CASE Save(t, pg, point)
  BY <1>1, <1>2, EndMarked DEF Save, Marked
<1>3. CASE SaveAndEnd(t, pg)
  <2>1. Diagnosed(row)'
    BY <1>1, <1>3 DEF SaveAndEnd
  <2> QED
    BY <1>3, <2>1, EndMarked DEF SaveAndEnd
<1> QED
  BY <1>2, <1>3

LEMMA ArriveMarked ==
  ASSUME DInv, NEW t \in Tasks, Arrive(t)
  PROVE  Marked(t)
<1>a. row \in Row /\ Diagnosed(row)
  BY DEF DInv, TypeOK
<1>b. row' = row
  BY DEF Arrive, CreateLookup, OperationRequest, StopRequest, DeleteRequest,
         PatchRead
<1>c. End(t) => Marked(t)
  BY <1>a, <1>b, EndMarked
<1>1. CASE CreateLookup(t)
  BY <1>1, <1>a, <1>b, <1>c DEF CreateLookup, Marked, locals
<1>2. CASE OperationRequest(t)
  BY <1>2, <1>a, <1>b, <1>c DEF OperationRequest, Marked
<1>3. CASE StopRequest(t)
  BY <1>3, <1>a, <1>b, <1>c DEF StopRequest, Marked
<1>4. CASE DeleteRequest(t)
  BY <1>4, <1>a, <1>b, <1>c DEF DeleteRequest, Marked
<1>5. CASE PatchRead(t)
  <2>1. \A spec \in Playspecs, over \in Overrides :
          Patched(spec, over) \in Row /\ Diagnosed(Patched(spec, over))
    BY <1>a, PatchedIsRow DEF Patched, Diagnosed, Row
  <2> QED
    BY <1>5, <1>a, <1>b, <1>c, <2>1 DEF PatchRead, Marked
<1> QED
  BY <1>1, <1>2, <1>3, <1>4, <1>5 DEF Arrive

LEMMA DeployMarked ==
  ASSUME DInv, NEW t \in Tasks, Deploy(t) \/ RunFails(t)
  PROVE  Marked(t)
<1>a. row \in Row /\ Diagnosed(row) /\ mem[t] \in Row /\ Diagnosed(mem[t])
  BY DEF DInv, TypeOK
<1>b. row' = row /\ End(t) => Marked(t)
  BY <1>a, EndMarked
<1>c. row' = row /\ mem' = mem => Marked(t)
  BY <1>a DEF Marked
<1>d. Preserve(mem[t]) \in Row /\ Diagnosed(Preserve(mem[t]))
  BY <1>a, PreserveIsRow, DiagnosedCopies
<1>1. CASE CreateInsert(t)
  <2>1. \A spec \in Playspecs, over \in Overrides :
          LET pg == [status |-> "pending", spec |-> spec, over |-> over,
                     gen |-> None, err |-> FALSE]
          IN  pg \in Row /\ Diagnosed(pg)
    BY DEF Diagnosed, Row, Stored
  <2> QED
    BY <1>1, <1>b, <2>1 DEF CreateInsert, Marked
<1>2. CASE RolloutClaim(t) \/ StartClaim(t) \/ HardRestartClaim(t)
             \/ HardRestartReclaim(t)
  BY <1>2, ClaimMarked
     DEF RolloutClaim, StartClaim, HardRestartClaim, HardRestartReclaim
<1>3. CASE HardRestartDown(t)
  BY <1>3, <1>b, <1>c DEF HardRestartDown, locals
<1>4. CASE DeployStart(t) \/ StartRecord(t)
  BY <1>4, StartDeploymentMarked DEF DeployStart, StartRecord
<1>5. CASE StartPrepare(t) \/ StartKeep(t)
  BY <1>5, <1>a, <1>b, <1>d DEF StartPrepare, StartKeep, Marked
<1>6. CASE StepBegin(t) \/ SaveBuilds(t) \/ StepFinish(t) \/ Progress(t)
  BY <1>6, SaveProgressMarked DEF StepBegin, SaveBuilds, StepFinish, Progress
<1>7. CASE StepCheck(t)
  BY <1>7, <1>a, RequireActiveMarked DEF StepCheck
<1>8. CASE Recheck(t) \/ LastCheck(t)
  BY <1>8, <1>a, RequireActiveMarked DEF Recheck, LastCheck
<1>9. CASE RunRender(t)
  <2> DEFINE yaml == <<ps[t], mem[t].over>>
  <2>1. [mem[t] EXCEPT !.gen = yaml] \in Row
    BY <1>a DEF Row, Rendered, DInv, TypeOK
  <2>2. Diagnosed([mem[t] EXCEPT !.gen = yaml])
    BY <1>a, DiagnosedCopies
  <2>3. row' = row /\ mem' = [mem EXCEPT ![t] = [mem[t] EXCEPT !.gen = yaml]]
    BY <1>9 DEF RunRender
  <2> QED
    BY <1>a, <2>1, <2>2, <2>3 DEF Marked
<1>10. CASE RunBuilds(t)
  <2>1. [mem[t] EXCEPT !.gen = ren[t]] \in Row
    BY <1>a DEF Row, DInv, TypeOK
  <2>2. Diagnosed([mem[t] EXCEPT !.gen = ren[t]])
    BY <1>a, DiagnosedCopies
  <2>3. row' = row /\ mem' = [mem EXCEPT ![t] = [mem[t] EXCEPT !.gen = ren[t]]]
    BY <1>10 DEF RunBuilds
  <2> QED
    BY <1>a, <2>1, <2>2, <2>3 DEF Marked
<1>11. CASE \/ RunHostPrerequisites(t) \/ RunSourceSync(t)
            \/ RunDeployWrite(t) \/ RunComposeUp(t) \/ RunObserve(t)
            \/ RunFails(t)
  BY <1>11, <1>c DEF RunHostPrerequisites, RunSourceSync, RunDeployWrite,
                     RunComposeUp, RunObserve, RunFails, locals
<1>12. CASE Finalize(t)
  <2> DEFINE pg == [mem[t] EXCEPT !.status = "running", !.err = FALSE]
  <2>1. pg \in Row /\ Diagnosed(pg)
    BY <1>a, StatusIsRow, DiagnosedStatus DEF Stored
  <2> HIDE DEF pg
  <2>2. Diagnosed(Latest(pg))
    BY <1>a, <2>1, DiagnosedCopies
  <2>3. Diagnosed(row)'
    BY <1>12, <1>a, <2>2 DEF Finalize, pg
  <2> QED
    BY <1>12, <2>3, EndMarked DEF Finalize
<1>13. CASE FailRecord(t)
  <2>1. Latest(mem[t]) \in Row /\ Diagnosed(Latest(mem[t]))
    BY <1>a, LatestIsRow, DiagnosedCopies
  <2> QED
    BY <1>13, <1>a, <2>1 DEF FailRecord, Marked
<1>14. CASE FailCheck(t)
  BY <1>14, <1>a, AfterFailMarked DEF FailCheck, Marked
<1>15. CASE FailKeep(t)
  BY <1>15, <1>a, <1>d, AfterFailMarked DEF FailKeep, Marked
<1>16. CASE FailSave(t)
  <2>1. Diagnosed([mem[t] EXCEPT !.status = "error", !.err = TRUE])
    BY <1>a, DiagnosedStatus
  <2>2. Diagnosed(row)'
    BY <1>16, <1>a, <2>1 DEF FailSave
  <2> QED
    BY <1>16, <2>2, AfterFailMarked DEF FailSave
<1>17. CASE \/ CleanupStop(t) \/ CleanupDestroy(t) \/ CleanupRemove(t)
            \/ CleanupNothing(t)
  BY <1>17, <1>b, <1>c DEF CleanupStop, CleanupDestroy, CleanupRemove,
                           CleanupNothing, locals
<1> QED
  BY <1>1, <1>2, <1>3, <1>4, <1>5, <1>6, <1>7, <1>8, <1>9, <1>10, <1>11,
     <1>12, <1>13, <1>14, <1>15, <1>16, <1>17 DEF Deploy

LEMMA HandleMarked ==
  ASSUME DInv, NEW t \in Tasks, Handle(t)
  PROVE  Marked(t)
<1>a. row \in Row /\ Diagnosed(row) /\ mem[t] \in Row /\ Diagnosed(mem[t])
  BY DEF DInv, TypeOK
<1>b. row' = row /\ mem' = mem => Marked(t)
  BY <1>a DEF Marked
<1>1. CASE \/ StopClaim(t) \/ StopReclaim(t) \/ StopFailClaim(t)
           \/ DeleteClaim(t) \/ DeleteFailClaim(t)
  BY <1>1, ClaimMarked
     DEF StopClaim, StopReclaim, StopFailClaim, DeleteClaim, DeleteFailClaim
<1>2. CASE StopHalt(t) \/ DeleteDown(t) \/ DeleteFiles(t)
  BY <1>2, <1>b DEF StopHalt, DeleteDown, DeleteFiles, locals
<1>3. CASE StopMark(t) \/ StopDone(t)
  <2>1. \A s \in {"stopping", "stopped"} :
          /\ [mem[t] EXCEPT !.status = s] \in Row
          /\ Diagnosed([mem[t] EXCEPT !.status = s])
    BY <1>a, StatusIsRow, DiagnosedStatus DEF Stored
  <2> QED
    BY <1>3, <2>1, SaveMarked DEF StopMark, StopDone
<1>4. CASE StopFailSave(t) \/ DeleteFailSave(t)
  <2>1. /\ [mem[t] EXCEPT !.status = "error", !.err = TRUE] \in Row
        /\ Diagnosed([mem[t] EXCEPT !.status = "error", !.err = TRUE])
    BY <1>a, StatusIsRow, DiagnosedStatus DEF Stored
  <2> QED
    BY <1>4, <2>1, SaveMarked DEF StopFailSave, DeleteFailSave
<1>5. CASE DeleteMark(t)
  <2>1. /\ [mem[t] EXCEPT !.status = "destroying", !.err = FALSE] \in Row
        /\ Diagnosed([mem[t] EXCEPT !.status = "destroying", !.err = FALSE])
    BY <1>a, StatusIsRow, DiagnosedStatus DEF Stored
  <2> QED
    BY <1>5, <2>1, SaveMarked DEF DeleteMark
<1>6. CASE DeleteRow(t)
  <2>1. Diagnosed(row)'
    BY <1>6 DEF DeleteRow, Diagnosed, Blank
  <2> QED
    BY <1>6, <2>1, EndMarked DEF DeleteRow
<1>7. CASE PatchSave(t)
  BY <1>7, <1>a, SaveMarked DEF PatchSave
<1> QED
  BY <1>1, <1>2, <1>3, <1>4, <1>5, <1>6, <1>7 DEF Handle

(***************************************************************************)
(* A row in error has its details and a running row has none, under every  *)
(* interleaving of requests, workers, faults and restarts, PATCH included. *)
(***************************************************************************)
THEOREM DiagnosticsAlwaysMatch == Spec => []DiagnosticsMatchStatus
<1>1. Init => DInv
  <2> SUFFICES ASSUME Init PROVE DInv
    OBVIOUS
  <2>1. TypeOK
    BY BlankIsRow, ConstantsAssumption
       DEF Init, TypeOK, Runtime, Points, Steps
  <2> QED
    BY <2>1, DiagnosedBlank DEF Init, DInv
<1>2. DInv /\ [Next]_vars => DInv'
  <2> SUFFICES ASSUME DInv, [Next]_vars PROVE DInv'
    OBVIOUS
  <2>1. TypeOK'
    BY TypeStep DEF DInv
  <2>2. ASSUME NEW t \in Tasks,
               Arrive(t) \/ Work(t) \/ RunFails(t) \/ Disconnect(t)
        PROVE  DInv'
    <3>1. ASSUME Disconnect(t) PROVE Marked(t)
      BY <3>1, EndMarked DEF Disconnect, DInv
    <3>2. Marked(t)
      BY <2>2, <3>1, ArriveMarked, DeployMarked, HandleMarked DEF Work
    <3> QED
      BY <2>1, <3>2, MarkedKeeps
  <2>3. ASSUME Restart PROVE DInv'
    <3>1. Diagnosed(row)'
      BY <2>3 DEF Restart, Recovered, DInv, TypeOK, Diagnosed, Row
    <3>2. \A t \in Tasks : Diagnosed(mem[t])'
      BY <2>3, DiagnosedBlank DEF Restart
    <3> QED
      BY <2>1, <3>1, <3>2 DEF DInv
  <2>4. CASE UNCHANGED vars
    BY <2>1, <2>4 DEF vars, DInv
  <2>5. CASE Idle
    BY <2>4, <2>5 DEF Idle
  <2> QED
    BY <2>2, <2>3, <2>4, <2>5 DEF Next
<1>3. DInv => DiagnosticsMatchStatus
  BY DEF DInv, DiagnosticsMatchStatus
<1> QED
  BY <1>1, <1>2, <1>3, PTL DEF Spec

-----------------------------------------------------------------------------
(***************************************************************************)
(* One deployment at a time, where only creations and operations are in    *)
(* play.  A stop or a PATCH takes the row out of in_progress while its     *)
(* worker still runs, and a second deployment may then start: the run      *)
(* overlapping_deployments shows what that leads to.                       *)
(***************************************************************************)
Waiting(t) == pc[t] = "deploy" /\ mem[t].status = "pending"

Busy(t) == pc[t] \in Owning \/ Waiting(t)

ClaimPoints == {"rollout", "start", "hard_restart", "down", "reclaim", "deploy",
                "startprep", "startup"}

HandlerPoints == {"stop", "stopping", "halt", "stopclaim", "stopped", "stopfail",
                  "stoperr", "del", "destroying", "destroy", "remove", "delrow",
                  "delfail", "delerr", "patch"}

Sound(t) ==
  /\ pc[t] \in Owning => /\ row.status = "in_progress"
                         /\ mem[t].status = "in_progress"
  /\ Waiting(t) => row.status = "pending"
  /\ pc[t] \in ClaimPoints /\ ~Waiting(t) => ~Active(mem[t].status)
  /\ pc[t] \notin HandlerPoints

SInv ==
  /\ OInv
  /\ \A t \in Tasks : Sound(t)
  /\ \A t, u \in Tasks : Busy(t) /\ Busy(u) => t = u

(***************************************************************************)
(* The busy task may do anything sound; another one may leave the row      *)
(* alone and stay idle, or take over a row nobody deploys.                 *)
(***************************************************************************)
Exclusive(t) ==
  /\ Sound(t)'
  /\ Busy(t) \/ (row' = row /\ ~Busy(t)') \/ ~Active(row.status)

LEMMA ExclusiveKeeps ==
  ASSUME SInv, OInv', NEW t \in Tasks, Only(t), Exclusive(t)
  PROVE  SInv'
<1>1. \A u \in Tasks \ {t} : Busy(u)' <=> Busy(u)
  BY DEF Only, Busy, Waiting
<1>2. \A u \in Tasks : Busy(u) => Active(row.status)
  BY DEF SInv, Sound, Busy, Active
<1>3. \A u \in Tasks \ {t} : Busy(u)' => row' = row /\ ~Busy(t)'
  BY <1>1, <1>2 DEF SInv, Exclusive
<1>4. \A u, v \in Tasks : Busy(u)' /\ Busy(v)' => u = v
  <2> SUFFICES ASSUME NEW u \in Tasks, NEW v \in Tasks, Busy(u)', Busy(v)'
               PROVE  u = v
    OBVIOUS
  <2>1. CASE u = t \/ v = t
    BY <2>1, <1>3
  <2>2. CASE u # t /\ v # t
    BY <2>2, <1>1 DEF SInv
  <2> QED
    BY <2>1, <2>2
<1>5. ASSUME NEW u \in Tasks PROVE Sound(u)'
  <2>1. CASE u = t
    BY <2>1 DEF Exclusive
  <2>2. CASE u # t
    <3>1. pc'[u] = pc[u] /\ mem'[u] = mem[u] /\ Sound(u)
      BY <2>2 DEF Only, SInv
    <3>2. CASE Busy(u)'
      BY <2>2, <3>1, <3>2, <1>3 DEF Sound, Waiting
    <3>3. CASE ~Busy(u)'
      BY <3>1, <3>3 DEF Sound, Waiting, Busy
    <3> QED
      BY <3>2, <3>3
  <2> QED
    BY <2>1, <2>2
<1> QED
  BY <1>4, <1>5 DEF SInv

LEMMA ArriveExclusive ==
  ASSUME Stoppers = {}, Deleters = {}, Patchers = {},
         SInv, NEW t \in Tasks, Arrive(t)
  PROVE  Exclusive(t)
<1> USE DEF SInv, OInv, TypeOK, Exclusive, Sound, Busy, Waiting, Owning,
            ClaimPoints, HandlerPoints, Goto
<1>1. CASE CreateLookup(t)
  BY <1>1 DEF CreateLookup, End, locals
<1>2. CASE OperationRequest(t)
  BY <1>2, ConstantsAssumption
     DEF OperationRequest, OperationAllowed, End, Kinds, Active
<1>3. CASE StopRequest(t) \/ DeleteRequest(t) \/ PatchRead(t)
  BY <1>3 DEF StopRequest, DeleteRequest, PatchRead
<1> QED
  BY <1>1, <1>2, <1>3 DEF Arrive

LEMMA ClaimExclusive ==
  ASSUME SInv, NEW t \in Tasks,
         \/ CreateInsert(t) \/ RolloutClaim(t) \/ StartClaim(t)
         \/ HardRestartClaim(t) \/ HardRestartDown(t) \/ HardRestartReclaim(t)
         \/ DeployStart(t) \/ StartPrepare(t) \/ StartRecord(t)
  PROVE  Exclusive(t)
<1> USE DEF SInv, OInv, TypeOK, Exclusive, Sound, Busy, Waiting, Owning,
            ClaimPoints, HandlerPoints, Goto, Active
<1>1. CASE CreateInsert(t)
  BY <1>1 DEF CreateInsert, End
<1>2. CASE RolloutClaim(t)
  BY <1>2 DEF RolloutClaim, Claim, End
<1>3. CASE StartClaim(t)
  BY <1>3 DEF StartClaim, Claim, End
<1>4. CASE HardRestartClaim(t)
  BY <1>4 DEF HardRestartClaim, Claim, End
<1>5. CASE HardRestartDown(t)
  BY <1>5 DEF HardRestartDown, End, locals
<1>6. CASE HardRestartReclaim(t)
  BY <1>6 DEF HardRestartReclaim, Claim, End
<1>7. CASE DeployStart(t)
  <2>1. Latest([mem[t] EXCEPT !.status = "in_progress"]).status = "in_progress"
    BY DEF Latest, Row
  <2> QED
    BY <1>7, <2>1 DEF DeployStart, StartDeployment, StartAllowed, End
<1>8. CASE StartPrepare(t)
  <2>1. Preserve(mem[t]).status = mem[t].status
    BY DEF Preserve, Row
  <2> QED
    BY <1>8, <2>1 DEF StartPrepare, End
<1>9. CASE StartRecord(t)
  <2>1. Latest([mem[t] EXCEPT !.status = "in_progress"]).status = "in_progress"
    BY DEF Latest, Row
  <2> QED
    BY <1>9, <2>1 DEF StartRecord, StartDeployment, StartAllowed, End
<1> QED
  BY <1>1, <1>2, <1>3, <1>4, <1>5, <1>6, <1>7, <1>8, <1>9

(***************************************************************************)
(* A deployment in progress is never superseded here: its row stays        *)
(* in_progress until it ends by itself.                                    *)
(***************************************************************************)
LEMMA SaveProgressExclusive ==
  ASSUME SInv, NEW t \in Tasks, pc[t] \in Owning, NEW cleans,
         NEW point \in Owning, NEW name,
         SaveProgress(t, mem[t], cleans, point, name)
  PROVE  Exclusive(t)
<1>1. row.status = "in_progress" /\ mem[t].status = "in_progress"
  BY DEF SInv, Sound
<1>2. Latest(mem[t]).status = "in_progress"
  BY <1>1 DEF Latest, SInv, OInv, TypeOK, Row
<1>3. /\ row' = Latest(mem[t]) /\ mem' = [mem EXCEPT ![t] = Latest(mem[t])]
      /\ Goto(t, point)
  BY <1>1 DEF SaveProgress, Active
<1>4. pc'[t] = point /\ mem'[t] = Latest(mem[t])
  BY <1>3 DEF Goto, SInv, OInv, TypeOK
<1> QED
  BY <1>2, <1>3, <1>4 DEF Exclusive, Sound, Busy, Waiting, Owning, ClaimPoints,
                          HandlerPoints

LEMMA RequireActiveExclusive ==
  ASSUME SInv, NEW t \in Tasks, pc[t] \in Owning, NEW pg, NEW cleans,
         pg.status = "in_progress", NEW point \in Owning, NEW name, row' = row,
         RequireActive(t, pg, cleans, point, name)
  PROVE  Exclusive(t)
<1>1. row.status = "in_progress"
  BY DEF SInv, Sound
<1>2. mem' = [mem EXCEPT ![t] = pg] /\ Goto(t, point)
  BY <1>1 DEF RequireActive, Active
<1>3. pc'[t] = point /\ mem'[t] = pg
  BY <1>2 DEF Goto, SInv, OInv, TypeOK
<1> QED
  BY <1>1, <1>3 DEF Exclusive, Sound, Busy, Waiting, Owning, ClaimPoints,
                    HandlerPoints

LEMMA StepExclusive ==
  ASSUME SInv, NEW t \in Tasks,
         \/ StepBegin(t) \/ StepCheck(t) \/ SaveBuilds(t) \/ StepFinish(t)
         \/ Progress(t) \/ Recheck(t) \/ LastCheck(t) \/ StartKeep(t)
         \/ Finalize(t)
  PROVE  Exclusive(t)
<1>a. pc[t] \in Owning
  BY DEF StepBegin, StepCheck, SaveBuilds, StepFinish, Progress, Recheck,
         LastCheck, StartKeep, Finalize, Owning
<1>b. row.status = "in_progress" /\ mem[t].status = "in_progress"
  BY <1>a DEF SInv, Sound
<1>c. {"begin", "check", "run", "finish", "finalize"} \subseteq Owning
  BY DEF Owning
<1>1. CASE StepBegin(t)
  BY <1>1, <1>a, <1>c, SaveProgressExclusive DEF StepBegin
<1>2. CASE StepCheck(t)
  BY <1>2, <1>a, <1>b, <1>c, RequireActiveExclusive DEF StepCheck
<1>3. CASE SaveBuilds(t)
  BY <1>3, <1>a, <1>c, SaveProgressExclusive DEF SaveBuilds
<1>4. CASE StepFinish(t)
  <2>1. AfterFinish(step[t]) \in Owning
    BY DEF AfterFinish, Owning
  <2> QED
    BY <1>4, <1>a, <2>1, SaveProgressExclusive DEF StepFinish
<1>5. CASE Progress(t)
  BY <1>5, <1>a, <1>c, SaveProgressExclusive DEF Progress
<1>6. CASE Recheck(t)
  BY <1>6, <1>a, <1>b, <1>c, RequireActiveExclusive DEF Recheck
<1>7. CASE LastCheck(t)
  BY <1>7, <1>a, <1>b, <1>c, RequireActiveExclusive DEF LastCheck
<1>8. CASE StartKeep(t)
  <2>1. Preserve(mem[t]).status = "in_progress"
    BY <1>b DEF Preserve, SInv, OInv, TypeOK, Row
  <2> QED
    BY <1>8, <1>a, <1>b, <2>1
       DEF StartKeep, Exists, Stored, Exclusive, Sound, Busy, Waiting, Owning,
           ClaimPoints, HandlerPoints, Goto, SInv, OInv, TypeOK
<1>9. CASE Finalize(t)
  BY <1>9, <1>a DEF Finalize, End, Goto, Exclusive, Sound, Busy, Waiting, Owning,
                    ClaimPoints, HandlerPoints, SInv, OInv, TypeOK
<1> QED
  BY <1>1, <1>2, <1>3, <1>4, <1>5, <1>6, <1>7, <1>8, <1>9

LEMMA RunExclusive ==
  ASSUME SInv, NEW t \in Tasks,
         \/ RunRender(t) \/ RunHostPrerequisites(t) \/ RunSourceSync(t)
         \/ RunBuilds(t) \/ RunDeployWrite(t) \/ RunComposeUp(t)
         \/ RunObserve(t) \/ RunFails(t)
  PROVE  Exclusive(t)
<1>a. pc[t] \in Owning
  BY DEF RunRender, RunHostPrerequisites, RunSourceSync, RunBuilds,
         RunDeployWrite, RunComposeUp, RunObserve, RunFails, Owning
<1>b. row.status = "in_progress" /\ mem[t].status = "in_progress"
  BY <1>a DEF SInv, Sound
<1>c. row' = row
  BY DEF RunRender, RunHostPrerequisites, RunSourceSync, RunBuilds,
         RunDeployWrite, RunComposeUp, RunObserve, RunFails
<1>d. pc'[t] \in Owning
  BY DEF RunRender, RunHostPrerequisites, RunSourceSync, RunBuilds,
         RunDeployWrite, RunComposeUp, RunObserve, RunFails, Owning, Goto,
         SInv, OInv, TypeOK
<1>e. mem'[t].status = "in_progress"
  <2>1. CASE RunRender(t)
    BY <1>b, <2>1 DEF RunRender, SInv, OInv, TypeOK, Row
  <2>2. CASE RunBuilds(t)
    BY <1>b, <2>2 DEF RunBuilds, SInv, OInv, TypeOK, Row
  <2>3. CASE mem' = mem
    BY <1>b, <2>3
  <2> QED
    BY <2>1, <2>2, <2>3 DEF RunHostPrerequisites, RunSourceSync, RunDeployWrite,
       RunComposeUp, RunObserve, RunFails, locals
<1> QED
  BY <1>a, <1>b, <1>c, <1>d, <1>e
     DEF Exclusive, Sound, Busy, Waiting, Owning, ClaimPoints, HandlerPoints

LEMMA FailExclusive ==
  ASSUME SInv, NEW t \in Tasks,
         \/ FailRecord(t) \/ FailCheck(t) \/ FailKeep(t) \/ FailSave(t)
         \/ CleanupStop(t) \/ CleanupDestroy(t) \/ CleanupRemove(t)
         \/ CleanupNothing(t)
  PROVE  Exclusive(t)
<1> USE DEF SInv, OInv, TypeOK, Exclusive, Sound, Busy, Waiting, Owning,
            ClaimPoints, HandlerPoints, Goto, Active
<1>1. CASE FailRecord(t)
  <2>1. row.status = "in_progress" /\ mem[t].status = "in_progress"
    BY <1>1 DEF FailRecord
  <2>2. Latest(mem[t]).status = "in_progress"
    BY <2>1 DEF Latest, Row
  <2> QED
    BY <1>1, <2>1, <2>2 DEF FailRecord
<1>2. CASE FailCheck(t)
  BY <1>2 DEF FailCheck
<1>3. CASE FailKeep(t)
  <2>1. Preserve(mem[t]).status = mem[t].status
    BY DEF Preserve, Row
  <2> QED
    BY <1>3, <2>1 DEF FailKeep, Exists, Stored
<1>4. CASE FailSave(t)
  BY <1>4 DEF FailSave, AfterFail, End
<1>5. CASE CleanupStop(t) \/ CleanupRemove(t) \/ CleanupNothing(t)
  BY <1>5 DEF CleanupStop, CleanupRemove, CleanupNothing, End
<1>6. CASE CleanupDestroy(t)
  BY <1>6 DEF CleanupDestroy, End, locals
<1> QED
  BY <1>1, <1>2, <1>3, <1>4, <1>5, <1>6

(***************************************************************************)
(* Creations and operations never deploy the same playground at the same   *)
(* time, however many are requested, whatever fails and whenever the       *)
(* process restarts.                                                       *)
(***************************************************************************)
THEOREM OneDeploymentAtATime ==
  ASSUME Stoppers = {}, Deleters = {}, Patchers = {}
  PROVE  Spec => []SingleDeployment
<1>1. Init => SInv
  <2> SUFFICES ASSUME Init PROVE SInv
    OBVIOUS
  <2>1. TypeOK
    BY BlankIsRow, ConstantsAssumption
       DEF Init, TypeOK, Runtime, Points, Steps
  <2>2. OInv
    BY <2>1 DEF Init, OInv, KindOf, DeployPoints, Owning, ActiveHasOwner,
                Active, Blank
  <2> QED
    BY <2>2 DEF Init, SInv, Sound, Busy, Waiting, Owning, ClaimPoints,
                HandlerPoints
<1>2. SInv /\ [Next]_vars => SInv'
  <2> SUFFICES ASSUME SInv, [Next]_vars PROVE SInv'
    OBVIOUS
  <2>1. ASSUME NEW t \in Tasks,
               Arrive(t) \/ Work(t) \/ RunFails(t) \/ Disconnect(t)
        PROVE  SInv'
    <3>1. OInv /\ TypeOK'
      BY TypeStep DEF SInv, OInv
    <3>2. ~Handle(t)
      BY DEF SInv, Sound, HandlerPoints, Handle, StopClaim, StopMark, StopHalt,
         StopReclaim, StopDone, StopFailClaim, StopFailSave, DeleteClaim,
         DeleteMark, DeleteDown, DeleteFiles, DeleteRow, DeleteFailClaim,
         DeleteFailSave, PatchSave
    <3>3. ~Disconnect(t)
      BY DEF Disconnect
    <3>4. Careful(t)
      BY <2>1, <3>1, <3>2, <3>3, ArriveCareful, ClaimCareful, StepCareful,
         RunCareful, FailCareful DEF Work, Deploy
    <3>5. OInv'
      BY <3>1, <3>4, CarefulKeepsOwner
    <3>6. Exclusive(t)
      BY <2>1, <3>2, <3>3, ArriveExclusive, ClaimExclusive, StepExclusive,
         RunExclusive, FailExclusive DEF Work, Deploy
    <3> QED
      BY <3>4, <3>5, <3>6, ExclusiveKeeps DEF Careful
  <2>2. ASSUME Restart PROVE SInv'
    <3>1. OInv'
      BY <2>2, RestartOwner DEF SInv
    <3>2. \A t \in Tasks : pc'[t] \in {"new", "done"}
      BY <2>2 DEF Restart
    <3> QED
      BY <3>1, <3>2 DEF SInv, Sound, Busy, Waiting, Owning, ClaimPoints,
                        HandlerPoints
  <2>3. CASE UNCHANGED vars
    BY <2>3 DEF vars, SInv, OInv, TypeOK, KindOf, ActiveHasOwner, Owner, Sound,
                Busy, Waiting
  <2>4. CASE Idle
    BY <2>3, <2>4 DEF Idle
  <2> QED
    BY <2>1, <2>2, <2>3, <2>4 DEF Next
<1>3. SInv => SingleDeployment
  BY DEF SInv, SingleDeployment, Busy
<1> QED
  BY <1>1, <1>2, <1>3, PTL DEF Spec

-----------------------------------------------------------------------------
(***************************************************************************)
(* A running playground runs what its row shows. Besides creations, only   *)
(* one kind of further request is in play (OneKind): stops and deletions,  *)
(* or edits, or rollouts and starts. Any two of them together break the    *)
(* property, and so does a hard restart that a restart of the process      *)
(* interrupts: TLC shows each on a small instance.                         *)
(*                                                                         *)
(* While the row is live, it shows the Playspec s and the overrides o it   *)
(* was created with (an edit that changes them makes it has_changes, and   *)
(* no operation is there to deploy the change). RInv says that then        *)
(* everything in flight fits s and o as well: the copies the tasks work    *)
(* on, the Playspec a deployment has loaded, the Compose file it has       *)
(* rendered, compose.yml and the containers. Whoever takes containers down *)
(* has taken the row out of the live statuses before.                      *)
(***************************************************************************)
Live == {"pending", "in_progress", "running"}
Ending == {"stopping", "stopped", "destroying"}
Calm == Stoppers = {} /\ Deleters = {}

OneKind ==
  \/ Operators = {} /\ Patchers = {}
  \/ Operators = {} /\ Calm
  \/ Patchers = {} /\ Calm /\ "hard_restart" \notin OpKinds

(***************************************************************************)
(* Nobody takes containers down: the row is live, or no request does so.   *)
(***************************************************************************)
Intact == row.status \in Live \/ Calm

Shows(pg, s, o) ==
  pg.status \in Live \/ (Patchers = {} /\ pg.status \in Stored)
    => pg.spec = s /\ pg.over = o

StopPoints == {"stop", "stopping", "halt", "stopclaim", "stopped", "stopfail",
               "stoperr"}
DeletePoints == {"del", "destroying", "destroy", "remove", "delrow", "delfail",
                 "delerr"}
Lowering == {"halt", "destroy", "remove", "cleanrm"}

(***************************************************************************)
(* The steps of a deployment by which it has rendered its Compose file,    *)
(* and those by which compose up has run.                                  *)
(***************************************************************************)
WrittenBy(name, point) ==
  \/ name \in {"host_prerequisites", "source_sync", "builds", "compose_deploy"}
  \/ name = "compose_render" /\ point = "finish"

PastUp(name, point) ==
  \/ name = "runtime_observe"
  \/ name \in {"compose_deploy", "compose_start"} /\ point = "finish"

Leads(t, point, name, s, o) ==
  /\ point = "save" => name = "builds"
  /\ point = "up" => name = "compose_deploy"
  /\ point \in {"recheck", "keep", "lastcheck", "finalize"}
       => name = "runtime_observe"
  /\ WrittenBy(name, point) => ren[t] = <<s, o>>
  /\ PastUp(name, point) => rt.up = <<s, o>> \/ ~Intact

(***************************************************************************)
(* What kind of request is at which point.                                 *)
(***************************************************************************)
Role(t) ==
  /\ pc[t] \in StopPoints => t \in Stoppers
  /\ pc[t] \in DeletePoints => t \in Deleters
  /\ pc[t] = "patch" => t \in Patchers
  /\ pc[t] \in StopPoints \cup DeletePoints \cup {"patch"} =>
       mem[t].status \in Stored
  /\ pc[t] \notin {"hard_restart", "down", "reclaim"}
  /\ pc[t] \in ClaimPoints =>
       t \in Operators \/ (pc[t] = "deploy" /\ mem[t].status = "pending")

(***************************************************************************)
(* What a task has in its hands was made from s and o.                     *)
(***************************************************************************)
Fit(t, s, o) ==
  /\ Role(t)
  /\ Shows(mem[t], s, o)
  /\ Calm => mem[t].status \notin Ending
  /\ pc[t] \in Lowering \/ sup[t] \in Ending => ~Intact
  /\ pc[t] \in Owning => /\ Active(mem[t].status) /\ ps[t] = s
                         /\ Leads(t, pc[t], step[t], s, o)
  /\ pc[t] = "patch" /\ mem[t].status = "running" => rt.up = <<s, o>>

(***************************************************************************)
(* So were the row, compose.yml and the containers.                        *)
(***************************************************************************)
Host(s, o) ==
  /\ row.status # "none"
  /\ Shows(row, s, o)
  /\ Calm => row.status \notin Ending
  /\ row.status = "running" => rt.up = <<s, o>>
  /\ rt.compose \in {None, <<s, o>>}
  /\ rt.up \in {None, <<s, o>>}
  /\ Intact /\ rt.up = <<s, o>> => rt.compose = <<s, o>>

(***************************************************************************)
(* No row has been created yet.                                            *)
(***************************************************************************)
Fresh ==
  /\ row.status = "none"
  /\ rt.up = None /\ rt.compose = None
  /\ \A t \in Tasks : /\ pc[t] \in {"new", "insert", "done"}
                      /\ mem[t].status = "none"
                      /\ sup[t] = None

RInv ==
  /\ TypeOK
  /\ Fresh \/ \E s \in Playspecs, o \in Overrides :
                Host(s, o) /\ \A t \in Tasks : Fit(t, s, o)

(***************************************************************************)
(* A step is safe if it touches no other task, leaves its own task and the *)
(* host fit, and takes no containers down while the row is live.           *)
(***************************************************************************)
Alone(t) ==
  \A u \in Tasks \ {t} :
    /\ pc'[u] = pc[u] /\ step'[u] = step[u] /\ mem'[u] = mem[u]
    /\ ps'[u] = ps[u] /\ ren'[u] = ren[u] /\ sup'[u] = sup[u]

Forward(s, o) ==
  /\ Intact' => Intact
  /\ rt.up = <<s, o>> => rt'.up = <<s, o>> \/ ~Intact'

Safe(t, s, o) == Alone(t) /\ Fit(t, s, o)' /\ Host(s, o)' /\ Forward(s, o)

Placed(s, o) == TypeOK /\ Host(s, o) /\ \A t \in Tasks : Fit(t, s, o)

LEMMA SafeKeeps ==
  ASSUME OneKind, NEW s \in Playspecs, NEW o \in Overrides, Placed(s, o),
         NEW t \in Tasks, Safe(t, s, o)
  PROVE  \A u \in Tasks : Fit(u, s, o)'
<1> SUFFICES ASSUME NEW u \in Tasks PROVE Fit(u, s, o)'
  OBVIOUS
<1>1. CASE u = t
  BY <1>1 DEF Safe
<1>2. CASE u # t
  <2>1. Fit(u, s, o)
    BY DEF Placed
  <2>2. /\ pc'[u] = pc[u] /\ step'[u] = step[u] /\ mem'[u] = mem[u]
        /\ ps'[u] = ps[u] /\ ren'[u] = ren[u] /\ sup'[u] = sup[u]
    BY <1>2 DEF Safe, Alone
  <2>3. Role(u)' /\ Shows(mem[u], s, o)'
    BY <2>1, <2>2 DEF Fit, Role, Shows
  <2>4. pc[u] = "patch" => Intact'
    BY <2>1 DEF Fit, Role, OneKind, Intact, Calm
  <2>5. Intact' => Intact
    BY DEF Safe, Forward
  <2>6. rt.up = <<s, o>> => rt'.up = <<s, o>> \/ ~Intact'
    BY DEF Safe, Forward
  <2> QED
    BY <2>1, <2>2, <2>3, <2>4, <2>5, <2>6 DEF Fit, Leads, PastUp, WrittenBy, Calm
<1> QED
  BY <1>1, <1>2

(***************************************************************************)
(* What leaves the row and the host alone, and the end of a task.          *)
(***************************************************************************)
LEMMA StillHost ==
  ASSUME NEW s, NEW o, Host(s, o), row' = row, rt' = rt
  PROVE  Host(s, o)' /\ Forward(s, o)
BY DEF Host, Forward, Shows, Intact, Calm

LEMMA EndAlone ==
  ASSUME TypeOK, NEW t \in Tasks, End(t)
  PROVE  Alone(t)
BY DEF TypeOK, End, Goto, Alone

LEMMA EndFit ==
  ASSUME TypeOK, NEW t \in Tasks, End(t), NEW s, NEW o
  PROVE  Fit(t, s, o)'
<1>1. /\ pc'[t] = "done" /\ mem'[t] = Blank /\ sup'[t] = None
      /\ step'[t] = "compose_render"
  BY DEF TypeOK, End, Goto
<1> QED
  BY <1>1, NoneAssumption
     DEF Fit, Role, Shows, Blank, StopPoints, DeletePoints, ClaimPoints,
         Lowering, Ending, Stored, Owning, Leads, PastUp, WrittenBy, Live

LEMMA EndSafe ==
  ASSUME TypeOK, NEW t \in Tasks, End(t), NEW s, NEW o, Host(s, o),
         row' = row, rt' = rt
  PROVE  Safe(t, s, o)
BY EndAlone, EndFit, StillHost DEF Safe

(***************************************************************************)
(* A task that moves on, with a new copy or the one it had.                *)
(***************************************************************************)
LEMMA MemAlone ==
  ASSUME TypeOK, NEW t \in Tasks, NEW point, NEW pg, Goto(t, point),
         mem' = [mem EXCEPT ![t] = pg], UNCHANGED <<step, ps, ren, sup>>
  PROVE  /\ Alone(t)
         /\ pc'[t] = point /\ mem'[t] = pg
         /\ step'[t] = step[t] /\ ps'[t] = ps[t] /\ ren'[t] = ren[t]
         /\ sup'[t] = sup[t]
BY DEF TypeOK, Goto, Alone

LEMMA GotoAlone ==
  ASSUME TypeOK, NEW t \in Tasks, NEW point, Goto(t, point), UNCHANGED locals
  PROVE  /\ Alone(t)
         /\ pc'[t] = point /\ mem'[t] = mem[t]
         /\ step'[t] = step[t] /\ ps'[t] = ps[t] /\ ren'[t] = ren[t]
         /\ sup'[t] = sup[t]
BY DEF TypeOK, Goto, Alone, locals

(***************************************************************************)
(* Requests, and the claims of the operations.                             *)
(***************************************************************************)
LEMMA ArriveSafe ==
  ASSUME OneKind, NEW s \in Playspecs, NEW o \in Overrides, Placed(s, o),
         NEW t \in Tasks, Arrive(t)
  PROVE  Safe(t, s, o)
<1>a. TypeOK /\ Host(s, o) /\ Fit(t, s, o)
  BY DEF Placed
<1>b. row' = row /\ rt' = rt
  BY DEF Arrive, CreateLookup, OperationRequest, StopRequest, DeleteRequest,
         PatchRead
<1>c. End(t) => Safe(t, s, o)
  BY <1>a, <1>b, EndSafe
<1>d. Host(s, o)' /\ Forward(s, o)
  BY <1>a, <1>b, StillHost
<1>e. Intact' <=> Intact
  BY <1>b DEF Intact, Calm
<1>1. CASE CreateLookup(t)
  BY <1>1, <1>a, <1>c DEF CreateLookup, Host
<1>2. CASE OperationRequest(t)
  <2>1. PICK kind \in OpKinds, force \in Forces :
           \/ /\ OperationAllowed(kind, force)
              /\ Goto(t, kind)
              /\ mem' = [mem EXCEPT ![t] = row]
              /\ UNCHANGED <<step, ps, ren, sup>>
           \/ End(t)
    BY <1>2 DEF OperationRequest
  <2>2. CASE ~End(t)
    <3>1. /\ Alone(t) /\ pc'[t] = kind /\ mem'[t] = row
          /\ sup'[t] = sup[t]
      BY <1>a, <2>1, <2>2, MemAlone
    <3>2. t \in Operators /\ kind \in {"rollout", "start"}
      BY <1>2, <2>1, ConstantsAssumption DEF OperationRequest, OneKind, Kinds
    <3>3. Fit(t, s, o)'
      BY <1>a, <1>e, <3>1, <3>2
         DEF Fit, Host, Role, Shows, StopPoints, DeletePoints, ClaimPoints,
             Lowering, Owning, Leads, PastUp, WrittenBy, Calm
    <3> QED
      BY <1>d, <3>1, <3>3 DEF Safe
  <2> QED
    BY <1>c, <2>2
<1>3. CASE StopRequest(t)
  <2>2. CASE ~End(t)
    <3>0. Goto(t, "stop") /\ mem' = [mem EXCEPT ![t] = row]
          /\ UNCHANGED <<step, ps, ren, sup>> /\ Exists /\ t \in Stoppers
      BY <1>3, <2>2 DEF StopRequest, StopAllowed
    <3>1. /\ Alone(t) /\ pc'[t] = "stop" /\ mem'[t] = row
          /\ sup'[t] = sup[t]
      BY <1>a, <3>0, MemAlone
    <3>3. Fit(t, s, o)'
      BY <1>a, <1>e, <3>0, <3>1
         DEF Fit, Host, Role, Shows, StopPoints, DeletePoints, ClaimPoints,
             Lowering, Owning, Leads, PastUp, WrittenBy, Calm, Exists
    <3> QED
      BY <1>d, <3>1, <3>3 DEF Safe
  <2> QED
    BY <1>c, <2>2
<1>4. CASE DeleteRequest(t)
  <2>2. CASE ~End(t)
    <3>0. Goto(t, "del") /\ mem' = [mem EXCEPT ![t] = row]
          /\ UNCHANGED <<step, ps, ren, sup>> /\ Exists /\ t \in Deleters
      BY <1>4, <2>2 DEF DeleteRequest
    <3>1. /\ Alone(t) /\ pc'[t] = "del" /\ mem'[t] = row
          /\ sup'[t] = sup[t]
      BY <1>a, <3>0, MemAlone
    <3>3. Fit(t, s, o)'
      BY <1>a, <1>e, <3>0, <3>1
         DEF Fit, Host, Role, Shows, StopPoints, DeletePoints, ClaimPoints,
             Lowering, Owning, Leads, PastUp, WrittenBy, Calm, Exists
    <3> QED
      BY <1>d, <3>1, <3>3 DEF Safe
  <2> QED
    BY <1>c, <2>2
<1>5. CASE PatchRead(t)
  <2>2. CASE ~End(t)
    <3>0. PICK spec \in Playspecs, over \in Overrides :
             mem' = [mem EXCEPT ![t] = Patched(spec, over)]
      BY <1>5, <2>2 DEF PatchRead
    <3>1. Goto(t, "patch") /\ UNCHANGED <<step, ps, ren, sup>> /\ t \in Patchers
      BY <1>5, <2>2 DEF PatchRead
    <3>2. /\ Alone(t) /\ pc'[t] = "patch" /\ mem'[t] = Patched(spec, over)
          /\ sup'[t] = sup[t]
      BY <1>a, <3>0, <3>1, MemAlone
    <3>3. /\ Patched(spec, over).status \in {row.status, "has_changes"}
          /\ Patched(spec, over).status \in Live =>
               /\ Patched(spec, over).status = row.status
               /\ spec = row.spec /\ over = row.over
          /\ Patched(spec, over).spec = spec /\ Patched(spec, over).over = over
      BY <1>a DEF Patched, TypeOK, Row, Live
    <3> HIDE DEF Patched
    <3>8. mem'[t].status \in Stored
      BY <1>5, <2>2, <3>2, <3>3 DEF PatchRead, Exists, Stored
    <3>4. Shows(mem[t], s, o)'
      BY <1>a, <3>1, <3>2, <3>3 DEF Host, Shows, Live
    <3>5. Calm => mem'[t].status \notin Ending
      BY <1>a, <3>2, <3>3 DEF Host, Ending
    <3>6. mem'[t].status = "running" => rt'.up = <<s, o>>
      BY <1>a, <1>b, <3>2, <3>3 DEF Host, Live
    <3>7. Fit(t, s, o)'
      BY <1>a, <1>e, <3>1, <3>2, <3>4, <3>5, <3>6, <3>8
         DEF Fit, Role, StopPoints, DeletePoints, ClaimPoints,
             Lowering, Owning, Leads, PastUp, WrittenBy, Calm, Exists
    <3> QED
      BY <1>d, <3>2, <3>7 DEF Safe
  <2> QED
    BY <1>c, <2>2
<1> QED
  BY <1>1, <1>2, <1>3, <1>4, <1>5 DEF Arrive

LEMMA ClaimSafe ==
  ASSUME OneKind, NEW s \in Playspecs, NEW o \in Overrides, Placed(s, o),
         NEW t \in Tasks,
         \/ RolloutClaim(t) \/ StartClaim(t)
         \/ HardRestartClaim(t) \/ HardRestartDown(t) \/ HardRestartReclaim(t)
         \/ StartPrepare(t)
  PROVE  Safe(t, s, o)
<1>a. TypeOK /\ Host(s, o) /\ Fit(t, s, o) /\ mem[t] \in Row
  BY DEF Placed, TypeOK
<1>b. pc[t] \in {"rollout", "start", "startprep"}
  BY <1>a DEF Fit, Role, RolloutClaim, StartClaim, HardRestartClaim,
              HardRestartDown, HardRestartReclaim, StartPrepare
<1>c. t \in Operators /\ Calm /\ Patchers = {}
  BY <1>a, <1>b DEF Fit, Role, ClaimPoints, OneKind
<1>d. row' = row /\ rt' = rt
  BY <1>b DEF RolloutClaim, StartClaim, HardRestartClaim,
              HardRestartDown, HardRestartReclaim, StartPrepare
<1>e. Host(s, o)' /\ Forward(s, o)
  BY <1>a, <1>d, StillHost
<1>f. Intact'
  BY <1>c DEF Intact, Calm
<1>1. CASE End(t)
  BY <1>a, <1>d, <1>1, EndSafe
<1>2. ASSUME NEW pg, NEW point \in {"deploy", "startprep", "startup"},
             Goto(t, point), mem' = [mem EXCEPT ![t] = pg],
             UNCHANGED <<step, ps, ren, sup>>,
             Shows(pg, s, o), pg.status \notin Ending
      PROVE  Safe(t, s, o)
  <2>1. /\ Alone(t) /\ pc'[t] = point /\ mem'[t] = pg /\ sup'[t] = sup[t]
    BY <1>a, <1>2, MemAlone
  <2>2. Fit(t, s, o)'
    BY <1>a, <1>c, <1>f, <1>2, <2>1
       DEF Fit, Role, Shows, StopPoints, DeletePoints, ClaimPoints,
           Lowering, Owning, Calm, Intact
  <2> QED
    BY <1>e, <2>1, <2>2 DEF Safe
<1>3. CASE RolloutClaim(t) \/ StartClaim(t)
  <2>1. Shows(row, s, o) /\ row.status \notin Ending
    BY <1>a, <1>c DEF Host
  <2> QED
    BY <1>1, <1>2, <1>3, <2>1 DEF RolloutClaim, StartClaim, Claim
<1>4. CASE StartPrepare(t)
  <2>1. /\ Preserve(mem[t]).status = mem[t].status
        /\ Preserve(mem[t]).spec = mem[t].spec
        /\ Preserve(mem[t]).over = mem[t].over
    BY <1>a DEF Preserve, Row
  <2>2. Shows(Preserve(mem[t]), s, o) /\ Preserve(mem[t]).status \notin Ending
    BY <1>a, <1>c, <2>1 DEF Fit, Shows
  <2> QED
    BY <1>1, <1>2, <1>4, <2>2 DEF StartPrepare
<1> QED
  BY <1>b, <1>3, <1>4 DEF RolloutClaim, StartClaim, HardRestartClaim,
              HardRestartDown, HardRestartReclaim, StartPrepare

(***************************************************************************)
(* Saves: the row keeps showing s and o, or leaves the live statuses.      *)
(***************************************************************************)
LEMMA SavedHost ==
  ASSUME NEW s, NEW o, Host(s, o), rt' = rt, row'.status # "none",
         Shows(row, s, o)', Calm => row'.status \notin Ending,
         row'.status = "running" => rt.up = <<s, o>>,
         row'.status \in Live => Intact
  PROVE  Host(s, o)' /\ Forward(s, o)
BY DEF Host, Forward, Intact, Calm

LEMMA StartDeploymentSafe ==
  ASSUME OneKind, NEW s \in Playspecs, NEW o \in Overrides, Placed(s, o),
         NEW t \in Tasks, DeployStart(t) \/ StartRecord(t)
  PROVE  Safe(t, s, o)
<1>a. TypeOK /\ Host(s, o) /\ Fit(t, s, o) /\ mem[t] \in Row /\ row \in Row
  BY DEF Placed, TypeOK
<1>b. pc[t] \in {"deploy", "startup"} /\ rt' = rt
  BY DEF DeployStart, StartRecord
<1>1. PICK name \in {"compose_render", "compose_start"}, point \in {"run", "check"} :
         /\ StartDeployment(t, name, point)
         /\ name = "compose_render" => point = "run"
         /\ name = "compose_start" => point = "check"
  BY DEF DeployStart, StartRecord
<1>2. CASE row.status # mem[t].status \/ row.status \notin StartAllowed
  BY <1>a, <1>b, <1>1, <1>2, EndSafe DEF StartDeployment
<1>3. CASE ~(row.status # mem[t].status \/ row.status \notin StartAllowed)
  <2> DEFINE pg == Latest([mem[t] EXCEPT !.status = "in_progress"])
  <2>1. /\ row' = pg /\ mem' = [mem EXCEPT ![t] = pg]
        /\ ps' = [ps EXCEPT ![t] = mem[t].spec]
        /\ step' = [step EXCEPT ![t] = name]
        /\ Goto(t, point)
        /\ UNCHANGED <<ren, sup>>
    BY <1>1, <1>3 DEF StartDeployment
  <2>2. /\ pg.status = "in_progress" /\ pg.spec = row.spec /\ pg.over = row.over
    BY <1>a DEF Latest, Row
  <2> HIDE DEF pg
  <2>3. row.status = mem[t].status /\ row.status \in Stored
    BY <1>3 DEF StartAllowed, Stored
  <2>4. \/ Calm /\ Patchers = {}
        \/ row.status \in Live
    BY <1>a, <1>b, <2>3 DEF Fit, Role, ClaimPoints, OneKind, Live
  <2>5. /\ row.spec = s /\ row.over = o /\ mem[t].spec = s
    BY <1>a, <2>3, <2>4 DEF Host, Fit, Shows
  <2>6. Intact /\ Intact'
    BY <2>1, <2>2, <2>4 DEF Intact, Live
  <2>7. /\ Alone(t) /\ pc'[t] = point /\ mem'[t] = pg /\ sup'[t] = sup[t]
        /\ ps'[t] = s /\ step'[t] = name
    BY <1>a, <2>1, <2>5 DEF TypeOK, Goto, Alone
  <2>8. Host(s, o)' /\ Forward(s, o)
    BY <1>a, <1>b, <2>1, <2>2, <2>5, <2>6, SavedHost DEF Shows, Ending
  <2>9. Fit(t, s, o)'
    <3>1. point \in {"run", "check"}
      OBVIOUS
    <3>2. Leads(t, pc[t], step[t], s, o)'
      BY <1>1, <2>7 DEF Leads, WrittenBy, PastUp
    <3> QED
      BY <1>a, <2>2, <2>5, <2>6, <2>7, <3>1, <3>2
         DEF Fit, Role, Shows, StopPoints, DeletePoints, ClaimPoints, Active,
             Lowering, Ending, Calm
  <2> QED
    BY <2>7, <2>8, <2>9 DEF Safe
<1> QED
  BY <1>2, <1>3

LEMMA InsertSafe ==
  ASSUME NEW s \in Playspecs, NEW o \in Overrides, Placed(s, o),
         NEW t \in Tasks, CreateInsert(t)
  PROVE  Safe(t, s, o)
<1>a. TypeOK /\ Host(s, o)
  BY DEF Placed
<1> QED
  BY <1>a, EndSafe DEF CreateInsert, Host

(***************************************************************************)
(* The steps of a deployment that read or save the row.                    *)
(***************************************************************************)
LEMMA SupersededSafe ==
  ASSUME NEW s \in Playspecs, NEW o \in Overrides, Placed(s, o),
         NEW t \in Tasks, NEW cleans, Superseded(t, cleans),
         ~Active(row.status), row' = row, rt' = rt
  PROVE  Safe(t, s, o)
<1>a. TypeOK /\ Host(s, o) /\ Fit(t, s, o)
  BY DEF Placed
<1>1. CASE End(t)
  BY <1>a, <1>1, EndSafe
<1>2. CASE ~End(t)
  <2>1. /\ sup' = [sup EXCEPT ![t] = row.status]
        /\ Goto(t, "cleanup")
        /\ UNCHANGED <<step, mem, ps, ren>>
    BY <1>2 DEF Superseded
  <2>2. /\ Alone(t) /\ pc'[t] = "cleanup" /\ mem'[t] = mem[t]
        /\ sup'[t] = row.status
    BY <1>a, <2>1 DEF TypeOK, Goto, Alone
  <2>3. row.status \in Ending => ~Intact'
    BY <1>a DEF Host, Intact, Ending, Live, Calm
  <2>4. Fit(t, s, o)'
    BY <1>a, <2>2, <2>3
       DEF Fit, Role, Shows, StopPoints, DeletePoints, ClaimPoints,
           Lowering, Owning, Calm
  <2> QED
    BY <1>a, <2>2, <2>4, StillHost DEF Safe
<1> QED
  BY <1>1, <1>2

LEMMA LeadsFit ==
  ASSUME NEW s \in Playspecs, NEW o \in Overrides, Placed(s, o),
         NEW t \in Tasks, pc[t] \in Owning, NEW point \in Owning, NEW name,
         Leads(t, point, name, s, o), NEW pg,
         Active(pg.status), pg.spec = s, pg.over = o,
         pc'[t] = point, mem'[t] = pg, step'[t] = name, ps'[t] = ps[t],
         ren'[t] = ren[t], sup'[t] = sup[t], rt' = rt, Intact' <=> Intact
  PROVE  Fit(t, s, o)'
<1>1. Fit(t, s, o)
  BY DEF Placed
<1> QED
  BY <1>1 DEF Fit, Role, Shows, StopPoints, DeletePoints, ClaimPoints, Lowering,
              Owning, Active, Calm, Leads, Leads, PastUp, WrittenBy, Ending, Live

LEMMA SaveProgressSafe ==
  ASSUME NEW s \in Playspecs, NEW o \in Overrides, Placed(s, o),
         NEW t \in Tasks, pc[t] \in Owning, NEW point \in Owning, NEW name,
         Leads(t, point, name, s, o), NEW cleans, rt' = rt,
         SaveProgress(t, mem[t], cleans, point, name)
  PROVE  Safe(t, s, o)
<1>a. /\ TypeOK /\ Host(s, o) /\ Fit(t, s, o) /\ mem[t] \in Row /\ row \in Row
      /\ Active(mem[t].status)
  BY DEF Placed, TypeOK, Fit
<1>1. CASE Active(row.status)
  <2> DEFINE pg == Latest(mem[t])
  <2>1. /\ row' = pg /\ mem' = [mem EXCEPT ![t] = pg]
        /\ step' = [step EXCEPT ![t] = name] /\ Goto(t, point)
        /\ UNCHANGED <<ps, ren, sup>>
    BY <1>1 DEF SaveProgress
  <2>2. row.spec = s /\ row.over = o
    BY <1>a, <1>1 DEF Host, Shows, Active, Live
  <2>3. Active(pg.status) /\ pg.spec = s /\ pg.over = o
    BY <1>a, <2>2 DEF Latest, Row
  <2> HIDE DEF pg
  <2>4. /\ Alone(t) /\ pc'[t] = point /\ mem'[t] = pg /\ step'[t] = name
        /\ ps'[t] = ps[t] /\ ren'[t] = ren[t] /\ sup'[t] = sup[t]
    BY <1>a, <2>1 DEF TypeOK, Goto, Alone
  <2>5. Intact /\ Intact'
    BY <1>1, <2>1, <2>3 DEF Intact, Active, Live
  <2>6. Host(s, o)' /\ Forward(s, o)
    BY <1>a, <2>1, <2>3, <2>5, SavedHost DEF Shows, Active, Ending
  <2>7. Fit(t, s, o)'
    BY <2>3, <2>4, <2>5, LeadsFit
  <2> QED
    BY <2>4, <2>6, <2>7 DEF Safe
<1>2. CASE ~Active(row.status)
  BY <1>2, SupersededSafe DEF SaveProgress
<1> QED
  BY <1>1, <1>2

LEMMA RequireActiveSafe ==
  ASSUME NEW s \in Playspecs, NEW o \in Overrides, Placed(s, o),
         NEW t \in Tasks, pc[t] \in Owning, NEW point \in Owning,
         Leads(t, point, step[t], s, o), NEW pg \in {row, mem[t]}, NEW cleans,
         row' = row, rt' = rt,
         RequireActive(t, pg, cleans, point, step[t])
  PROVE  Safe(t, s, o)
<1>a. /\ TypeOK /\ Host(s, o) /\ Fit(t, s, o) /\ Active(mem[t].status)
  BY DEF Placed, TypeOK, Fit
<1>1. CASE Active(row.status)
  <2>1. /\ mem' = [mem EXCEPT ![t] = pg]
        /\ step' = [step EXCEPT ![t] = step[t]] /\ Goto(t, point)
        /\ UNCHANGED <<ps, ren, sup>>
    BY <1>1 DEF RequireActive
  <2>2. Active(pg.status) /\ pg.spec = s /\ pg.over = o
    BY <1>a, <1>1 DEF Host, Fit, Shows, Active, Live
  <2>3. /\ Alone(t) /\ pc'[t] = point /\ mem'[t] = pg /\ step'[t] = step[t]
        /\ ps'[t] = ps[t] /\ ren'[t] = ren[t] /\ sup'[t] = sup[t]
    BY <1>a, <2>1 DEF TypeOK, Goto, Alone
  <2>4. Intact' <=> Intact
    BY DEF Intact, Calm
  <2>5. Fit(t, s, o)'
    BY <2>2, <2>3, <2>4, LeadsFit
  <2> QED
    BY <1>a, <2>3, <2>5, StillHost DEF Safe
<1>2. CASE ~Active(row.status)
  BY <1>2, SupersededSafe DEF RequireActive
<1> QED
  BY <1>1, <1>2

LEMMA StepSafe ==
  ASSUME NEW s \in Playspecs, NEW o \in Overrides, Placed(s, o),
         NEW t \in Tasks,
         \/ StepBegin(t) \/ StepCheck(t) \/ SaveBuilds(t) \/ StepFinish(t)
         \/ Progress(t) \/ Recheck(t) \/ LastCheck(t) \/ StartKeep(t)
         \/ Finalize(t)
  PROVE  Safe(t, s, o)
<1>a. /\ TypeOK /\ Host(s, o) /\ Fit(t, s, o) /\ mem[t] \in Row /\ row \in Row
      /\ step[t] \in Steps
  BY DEF Placed, TypeOK
<1>b. rt' = rt
  BY DEF StepBegin, StepCheck, SaveBuilds, StepFinish, Progress, Recheck,
         LastCheck, StartKeep, Finalize
<1>c. pc[t] \in Owning
  BY DEF StepBegin, StepCheck, SaveBuilds, StepFinish, Progress, Recheck,
         LastCheck, StartKeep, Finalize, Owning
<1>d. {"begin", "check", "run", "finish", "finalize"} \subseteq Owning
  BY DEF Owning
<1>e. Leads(t, pc[t], step[t], s, o)
  BY <1>a, <1>c DEF Fit
<1>1. CASE StepBegin(t)
  <2>1. Leads(t, "check", step[t], s, o)
    BY <1>1, <1>e DEF StepBegin, Leads, WrittenBy, PastUp
  <2> QED
    BY <1>1, <1>b, <1>c, <1>d, <2>1, SaveProgressSafe DEF StepBegin
<1>2. CASE StepCheck(t)
  <2>1. Leads(t, "run", step[t], s, o)
    BY <1>2, <1>e DEF StepCheck, Leads, WrittenBy, PastUp
  <2>2. (IF step[t] = "compose_start" THEN row ELSE mem[t]) \in {row, mem[t]}
    OBVIOUS
  <2> QED
    BY <1>2, <1>b, <1>c, <1>d, <2>1, <2>2, RequireActiveSafe DEF StepCheck
<1>3. CASE SaveBuilds(t)
  <2>1. Leads(t, "finish", step[t], s, o)
    BY <1>3, <1>e DEF SaveBuilds, Leads, WrittenBy, PastUp
  <2> QED
    BY <1>3, <1>b, <1>c, <1>d, <2>1, SaveProgressSafe DEF SaveBuilds
<1>4. CASE StepFinish(t)
  <2>1. AfterFinish(step[t]) \in Owning
    BY DEF AfterFinish, Owning
  <2>2. Leads(t, AfterFinish(step[t]), NextStep(step[t]), s, o)
    BY <1>4, <1>a, <1>e
       DEF StepFinish, AfterFinish, NextStep, Leads, WrittenBy, PastUp, Steps
  <2> QED
    BY <1>4, <1>b, <1>c, <2>1, <2>2, SaveProgressSafe DEF StepFinish
<1>5. CASE Progress(t)
  <2>1. Leads(t, "begin", step[t], s, o)
    BY <1>5, <1>e DEF Progress, Leads, WrittenBy, PastUp
  <2> QED
    BY <1>5, <1>b, <1>c, <1>d, <2>1, SaveProgressSafe DEF Progress
<1>6. CASE Recheck(t)
  <2>1. Leads(t, "begin", step[t], s, o)
    BY <1>6, <1>e DEF Recheck, Leads, WrittenBy, PastUp
  <2> QED
    BY <1>6, <1>b, <1>c, <1>d, <2>1, RequireActiveSafe DEF Recheck
<1>7. CASE LastCheck(t)
  <2>1. Leads(t, "finalize", step[t], s, o)
    BY <1>7, <1>e DEF LastCheck, Leads, WrittenBy, PastUp
  <2> QED
    BY <1>7, <1>b, <1>c, <1>d, <2>1, RequireActiveSafe DEF LastCheck
<1>8. CASE StartKeep(t)
  <2>1. CASE End(t)
    BY <1>8, <1>a, <1>b, <2>1, EndSafe DEF StartKeep
  <2>2. CASE ~End(t)
    <3> DEFINE pg == Preserve(mem[t])
    <3>1. /\ Goto(t, "begin") /\ mem' = [mem EXCEPT ![t] = pg]
          /\ UNCHANGED <<step, ps, ren, sup>>
      BY <1>8, <2>2 DEF StartKeep
    <3>2. Active(pg.status) /\ pg.spec = s /\ pg.over = o
      BY <1>a, <1>c DEF Preserve, Row, Fit, Shows, Active, Live
    <3> HIDE DEF pg
    <3>3. /\ Alone(t) /\ pc'[t] = "begin" /\ mem'[t] = pg /\ step'[t] = step[t]
          /\ ps'[t] = ps[t] /\ ren'[t] = ren[t] /\ sup'[t] = sup[t]
      BY <1>a, <3>1, MemAlone
    <3>4. row' = row
      BY <1>8 DEF StartKeep
    <3>5. Leads(t, "begin", step[t], s, o)
      BY <1>8, <1>e DEF StartKeep, Leads, WrittenBy, PastUp
    <3>6. Intact' <=> Intact
      BY <3>4 DEF Intact, Calm
    <3>7. Fit(t, s, o)'
      BY <1>b, <1>c, <1>d, <3>2, <3>3, <3>5, <3>6, LeadsFit
    <3> QED
      BY <1>a, <1>b, <3>3, <3>4, <3>7, StillHost DEF Safe
  <2> QED
    BY <2>1, <2>2
<1>9. CASE Finalize(t)
  <2>1. CASE ~Active(row.status)
    BY <1>9, <1>a, <2>1, EndSafe DEF Finalize
  <2>2. CASE Active(row.status)
    <3>1. /\ row' = Latest([mem[t] EXCEPT !.status = "running", !.err = FALSE])
          /\ End(t)
      BY <1>9, <2>2 DEF Finalize
    <3>2. row'.status = "running" /\ row'.spec = row.spec /\ row'.over = row.over
      BY <1>a, <3>1 DEF Latest, Row
    <3>3. row.spec = s /\ row.over = o
      BY <1>a, <2>2 DEF Host, Shows, Active, Live
    <3>4. Intact
      BY <2>2 DEF Intact, Active, Live
    <3>5. rt.up = <<s, o>>
      BY <1>9, <1>e, <3>4 DEF Finalize, Leads, PastUp
    <3>6. Host(s, o)' /\ Forward(s, o)
      BY <1>a, <1>b, <3>2, <3>3, <3>4, <3>5, SavedHost DEF Shows, Ending
    <3> QED
      BY <1>a, <3>1, <3>6, EndAlone, EndFit DEF Safe
  <2> QED
    BY <2>1, <2>2
<1> QED
  BY <1>1, <1>2, <1>3, <1>4, <1>5, <1>6, <1>7, <1>8, <1>9

(***************************************************************************)
(* The steps of a deployment on the host.                                  *)
(***************************************************************************)
LEMMA RuntimeHost ==
  ASSUME NEW s, NEW o, Host(s, o), row' = row,
         rt'.compose \in {None, <<s, o>>}, rt'.up \in {None, <<s, o>>},
         Intact /\ rt.up = <<s, o>> => rt'.up = <<s, o>>,
         Intact /\ rt'.up = <<s, o>> => rt'.compose = <<s, o>>
  PROVE  Host(s, o)' /\ Forward(s, o) /\ (Intact' <=> Intact)
<1>1. Intact' <=> Intact
  BY DEF Intact, Calm
<1>2. row.status = "running" => rt'.up = <<s, o>>
  BY DEF Host, Intact, Live
<1> QED
  BY <1>1, <1>2 DEF Host, Forward, Shows, Calm

LEMMA HostCommands ==
  ASSUME NEW s \in Playspecs, NEW o \in Overrides, rt \in Runtime, Host(s, o),
         row' = row
  PROVE  /\ ComposeUp => Host(s, o)' /\ Forward(s, o)
         /\ (rt' = [rt EXCEPT !.dir = TRUE]) => Host(s, o)' /\ Forward(s, o)
         /\ (rt' = [rt EXCEPT !.dir = TRUE, !.compose = <<s, o>>])
               => Host(s, o)' /\ Forward(s, o)
         /\ ComposeDown /\ ~Intact => Host(s, o)' /\ Forward(s, o)
         /\ RemoveFiles /\ ~Intact => Host(s, o)' /\ Forward(s, o)
<1>1. /\ rt.compose \in {None, <<s, o>>} /\ rt.up \in {None, <<s, o>>}
      /\ Intact /\ rt.up = <<s, o>> => rt.compose = <<s, o>>
  BY DEF Host
<1>2. ASSUME ComposeUp PROVE Host(s, o)' /\ Forward(s, o)
  <2>1. rt'.compose = rt.compose /\ rt'.up = rt.compose
    BY <1>2 DEF ComposeUp, Runtime
  <2> QED
    BY <1>1, <2>1, RuntimeHost
<1>3. ASSUME rt' = [rt EXCEPT !.dir = TRUE] PROVE Host(s, o)' /\ Forward(s, o)
  <2>1. rt'.compose = rt.compose /\ rt'.up = rt.up
    BY <1>3 DEF Runtime
  <2> QED
    BY <1>1, <2>1, RuntimeHost
<1>4. ASSUME rt' = [rt EXCEPT !.dir = TRUE, !.compose = <<s, o>>]
      PROVE  Host(s, o)' /\ Forward(s, o)
  <2>1. rt'.compose = <<s, o>> /\ rt'.up = rt.up
    BY <1>4 DEF Runtime
  <2> QED
    BY <1>1, <2>1, RuntimeHost
<1>5. ASSUME ComposeDown, ~Intact PROVE Host(s, o)' /\ Forward(s, o)
  <2>1. rt'.compose = rt.compose /\ rt'.up = None
    BY <1>5 DEF ComposeDown, Runtime
  <2> QED
    BY <1>1, <1>5, <2>1, RuntimeHost
<1>6. ASSUME RemoveFiles, ~Intact PROVE Host(s, o)' /\ Forward(s, o)
  <2>1. rt'.compose = None /\ rt'.up = rt.up
    BY <1>6 DEF RemoveFiles, Runtime
  <2> QED
    BY <1>1, <1>6, <2>1, RuntimeHost
<1> QED
  BY <1>2, <1>3, <1>4, <1>5, <1>6

(***************************************************************************)
(* A deployment that goes on with the copy, the Playspec and the Compose   *)
(* file it had.                                                            *)
(***************************************************************************)
LEMMA GoOn ==
  ASSUME NEW s \in Playspecs, NEW o \in Overrides, Placed(s, o),
         NEW t \in Tasks, pc[t] \in Owning, NEW point \in Owning,
         Goto(t, point), UNCHANGED locals, row' = row,
         Host(s, o)', Forward(s, o), Leads(t, point, step[t], s, o)'
  PROVE  Safe(t, s, o)
<1>1. TypeOK /\ Fit(t, s, o)
  BY DEF Placed
<1>2. /\ Alone(t) /\ pc'[t] = point /\ mem'[t] = mem[t] /\ step'[t] = step[t]
      /\ ps'[t] = ps[t] /\ ren'[t] = ren[t] /\ sup'[t] = sup[t]
  BY <1>1, GotoAlone
<1>3. Intact' <=> Intact
  BY DEF Intact, Calm
<1>4. Leads(t, pc[t], step[t], s, o)'
  BY <1>2 DEF Leads
<1>5. Fit(t, s, o)'
  BY <1>1, <1>2, <1>3, <1>4
     DEF Fit, Role, Shows, StopPoints, DeletePoints, ClaimPoints, Lowering,
         Owning, Calm
<1> QED
  BY <1>2, <1>5 DEF Safe

LEMMA RunSafe ==
  ASSUME NEW s \in Playspecs, NEW o \in Overrides, Placed(s, o),
         NEW t \in Tasks,
         \/ RunRender(t) \/ RunHostPrerequisites(t) \/ RunSourceSync(t)
         \/ RunBuilds(t) \/ RunDeployWrite(t) \/ RunComposeUp(t)
         \/ RunObserve(t) \/ RunFails(t)
  PROVE  Safe(t, s, o)
<1>a. /\ TypeOK /\ Host(s, o) /\ Fit(t, s, o) /\ mem[t] \in Row /\ row \in Row
      /\ step[t] \in Steps /\ rt \in Runtime
  BY DEF Placed, TypeOK
<1>b. row' = row
  BY DEF RunRender, RunHostPrerequisites, RunSourceSync, RunBuilds,
         RunDeployWrite, RunComposeUp, RunObserve, RunFails
<1>c. pc[t] \in {"run", "up"} /\ pc[t] \in Owning
  BY DEF RunRender, RunHostPrerequisites, RunSourceSync, RunBuilds,
         RunDeployWrite, RunComposeUp, RunObserve, RunFails, Owning
<1>d. {"up", "save", "finish", "fail"} \subseteq Owning
  BY DEF Owning
<1>e. Leads(t, pc[t], step[t], s, o)
  BY <1>a, <1>c DEF Fit
<1>f. (rt' = rt) => Host(s, o)' /\ Forward(s, o)
  BY <1>a, <1>b, StillHost
<1>g. Active(mem[t].status) /\ ps[t] = s /\ mem[t].spec = s /\ mem[t].over = o
  BY <1>a, <1>c DEF Fit, Shows, Active, Live
<1>h. Intact' <=> Intact
  BY <1>b DEF Intact, Calm
<1>1. CASE RunRender(t)
  <2> DEFINE pg == [mem[t] EXCEPT !.gen = <<s, o>>]
  <2>1. /\ ren' = [ren EXCEPT ![t] = <<s, o>>]
        /\ mem' = [mem EXCEPT ![t] = pg]
        /\ Goto(t, "finish") /\ UNCHANGED <<step, ps, sup, rt>>
    BY <1>1, <1>g DEF RunRender
  <2>2. pg.status = mem[t].status /\ pg.spec = s /\ pg.over = o
    BY <1>a, <1>g DEF Row
  <2> HIDE DEF pg
  <2>3. /\ Alone(t) /\ pc'[t] = "finish" /\ mem'[t] = pg
        /\ step'[t] = step[t] /\ step[t] = "compose_render"
        /\ ps'[t] = ps[t] /\ ren'[t] = <<s, o>> /\ sup'[t] = sup[t]
    BY <1>1, <1>a, <2>1 DEF TypeOK, Goto, Alone, RunRender
  <2>4. Leads(t, pc[t], step[t], s, o)'
    BY <2>3 DEF Leads, WrittenBy, PastUp
  <2>5. Fit(t, s, o)'
    BY <1>a, <1>g, <1>h, <2>2, <2>3, <2>4
       DEF Fit, Role, Shows, StopPoints, DeletePoints, ClaimPoints, Lowering,
           Calm
  <2> QED
    BY <1>f, <2>1, <2>3, <2>5 DEF Safe
<1>2. CASE RunHostPrerequisites(t)
  <2>1. Leads(t, "finish", step[t], s, o)'
    BY <1>2, <1>e, <1>h
       DEF RunHostPrerequisites, Leads, WrittenBy, PastUp, locals
  <2> QED
    BY <1>2, <1>c, <1>d, <1>f, <2>1, GoOn DEF RunHostPrerequisites
<1>3. CASE RunSourceSync(t)
  <2>1. Host(s, o)' /\ Forward(s, o)
    BY <1>3, <1>a, <1>b, HostCommands DEF RunSourceSync
  <2>2. Leads(t, "finish", step[t], s, o)'
    BY <1>3, <1>e DEF RunSourceSync, Leads, WrittenBy, PastUp, locals
  <2> QED
    BY <1>3, <1>c, <1>d, <2>1, <2>2, GoOn DEF RunSourceSync
<1>4. CASE RunBuilds(t)
  <2> DEFINE pg == [mem[t] EXCEPT !.gen = ren[t]]
  <2>1. /\ mem' = [mem EXCEPT ![t] = pg]
        /\ Goto(t, "save") /\ UNCHANGED <<step, ps, ren, sup, rt>>
    BY <1>4 DEF RunBuilds
  <2>2. pg.status = mem[t].status /\ pg.spec = s /\ pg.over = o
    BY <1>a, <1>g DEF Row
  <2> HIDE DEF pg
  <2>3. /\ Alone(t) /\ pc'[t] = "save" /\ mem'[t] = pg
        /\ step'[t] = step[t] /\ step[t] = "builds"
        /\ ps'[t] = ps[t] /\ ren'[t] = ren[t] /\ sup'[t] = sup[t]
    <3>1. step[t] = "builds"
      BY <1>4 DEF RunBuilds
    <3>2. /\ Alone(t) /\ pc'[t] = "save" /\ mem'[t] = pg
          /\ step'[t] = step[t]
          /\ ps'[t] = ps[t] /\ ren'[t] = ren[t] /\ sup'[t] = sup[t]
      BY <1>a, <2>1, MemAlone
    <3> QED
      BY <3>1, <3>2
  <2>4. Leads(t, pc[t], step[t], s, o)'
    BY <1>e, <2>3 DEF Leads, WrittenBy, PastUp
  <2>5. Fit(t, s, o)'
    BY <1>a, <1>g, <1>h, <2>2, <2>3, <2>4
       DEF Fit, Role, Shows, StopPoints, DeletePoints, ClaimPoints, Lowering,
           Calm
  <2> QED
    BY <1>f, <2>1, <2>3, <2>5 DEF Safe
<1>5. CASE RunDeployWrite(t)
  <2>1. step[t] = "compose_deploy" /\ ren[t] = <<s, o>>
    BY <1>5, <1>e DEF RunDeployWrite, Leads, WrittenBy
  <2>2. Host(s, o)' /\ Forward(s, o)
    BY <1>5, <1>a, <1>b, <2>1, HostCommands DEF RunDeployWrite
  <2>3. Leads(t, "up", step[t], s, o)'
    BY <1>5, <2>1 DEF RunDeployWrite, Leads, WrittenBy, PastUp, locals
  <2> QED
    BY <1>5, <1>c, <1>d, <2>2, <2>3, GoOn DEF RunDeployWrite
<1>6. CASE RunComposeUp(t)
  <2>1. CASE ComposeMissing
    <3>1. rt' = rt /\ Goto(t, "fail") /\ UNCHANGED locals
      BY <1>6, <2>1 DEF RunComposeUp
    <3>2. Leads(t, "fail", step[t], s, o)'
      BY <1>c, <1>e, <1>h, <3>1 DEF Leads, WrittenBy, PastUp, locals
    <3> QED
      BY <1>b, <1>c, <1>d, <1>f, <3>1, <3>2, GoOn
  <2>2. CASE ~ComposeMissing
    <3>1. ComposeUp /\ Goto(t, "finish") /\ UNCHANGED locals
      BY <1>6, <2>2 DEF RunComposeUp
    <3>2. rt'.up = <<s, o>>
      BY <1>a, <2>2, <3>1 DEF ComposeMissing, ComposeUp, Host, Runtime
    <3>3. step[t] # "compose_render"
      BY <1>6, <1>e DEF RunComposeUp, Leads
    <3>4. Leads(t, "finish", step[t], s, o)'
      BY <1>e, <3>1, <3>2, <3>3 DEF Leads, WrittenBy, PastUp, locals
    <3>5. Host(s, o)' /\ Forward(s, o)
      BY <1>a, <1>b, <3>1, HostCommands
    <3> QED
      BY <1>b, <1>c, <1>d, <3>1, <3>4, <3>5, GoOn
  <2> QED
    BY <2>1, <2>2
<1>7. CASE RunObserve(t)
  <2>1. PICK point \in {"finish", "fail"} : Goto(t, point)
    BY <1>7 DEF RunObserve
  <2>2. Leads(t, point, step[t], s, o)'
    BY <1>7, <1>e, <1>h DEF RunObserve, Leads, WrittenBy, PastUp, locals
  <2> QED
    BY <1>7, <1>c, <1>d, <1>f, <2>1, <2>2, GoOn DEF RunObserve
<1>8. CASE RunFails(t)
  <2>1. Host(s, o)' /\ Forward(s, o)
    BY <1>8, <1>a, <1>b, <1>f, HostCommands DEF RunFails
  <2>2. Leads(t, "fail", step[t], s, o)'
    BY <1>8, <1>c, <1>e, <1>h, <2>1
       DEF RunFails, Leads, WrittenBy, PastUp, locals, Forward
  <2> QED
    BY <1>8, <1>c, <1>d, <2>1, <2>2, GoOn DEF RunFails
<1> QED
  BY <1>1, <1>2, <1>3, <1>4, <1>5, <1>6, <1>7, <1>8

LEMMA AfterFailFit ==
  ASSUME NEW s \in Playspecs, NEW o \in Overrides, Placed(s, o),
         NEW t \in Tasks, pc[t] \in Owning, NEW status, AfterFail(t, status),
         status \in Ending => ~Intact', Intact' => Intact
  PROVE  Alone(t) /\ Fit(t, s, o)'
<1>a. TypeOK /\ Fit(t, s, o)
  BY DEF Placed
<1>1. CASE End(t)
  BY <1>a, <1>1, EndAlone, EndFit
<1>2. CASE ~End(t)
  <2>1. /\ sup' = [sup EXCEPT ![t] = status]
        /\ Goto(t, "cleanup")
        /\ UNCHANGED <<step, mem, ps, ren>>
    BY <1>2 DEF AfterFail
  <2>2. /\ Alone(t) /\ pc'[t] = "cleanup" /\ mem'[t] = mem[t]
        /\ sup'[t] = status
    BY <1>a, <2>1 DEF TypeOK, Goto, Alone
  <2> QED
    BY <1>a, <2>2
       DEF Fit, Role, Shows, StopPoints, DeletePoints, ClaimPoints,
           Lowering, Owning, Calm
<1> QED
  BY <1>1, <1>2

LEMMA FailSafe ==
  ASSUME NEW s \in Playspecs, NEW o \in Overrides, Placed(s, o),
         NEW t \in Tasks,
         FailRecord(t) \/ FailCheck(t) \/ FailKeep(t) \/ FailSave(t)
  PROVE  Safe(t, s, o)
<1>a. /\ TypeOK /\ Host(s, o) /\ Fit(t, s, o) /\ mem[t] \in Row /\ row \in Row
  BY DEF Placed, TypeOK
<1>b. rt' = rt
  BY DEF FailRecord, FailCheck, FailKeep, FailSave
<1>c. pc[t] \in Owning
  BY DEF FailRecord, FailCheck, FailKeep, FailSave, Owning
<1>d. {"failcheck", "failkeep", "failsave"} \subseteq Owning
  BY DEF Owning
<1>e. Leads(t, pc[t], step[t], s, o)
  BY <1>a, <1>c DEF Fit
<1>f. pc[t] \in {"fail", "failcheck", "failkeep", "failsave"}
  BY DEF FailRecord, FailCheck, FailKeep, FailSave
<1>g. \A point \in {"failcheck", "failkeep", "failsave"} :
        Leads(t, point, step[t], s, o)
  BY <1>e, <1>f DEF Leads, WrittenBy, PastUp
<1>h. Active(mem[t].status) /\ mem[t].spec = s /\ mem[t].over = o
  BY <1>a, <1>c DEF Fit, Shows, Active, Live
<1>i. sup[t] \in Ending => ~Intact
  BY <1>a DEF Fit
<1>j. row.status \in Ending => ~Intact
  BY <1>a DEF Host, Intact, Ending, Live
<1>k. (row' = row) => (Intact' <=> Intact) /\ Host(s, o)' /\ Forward(s, o)
  BY <1>a, <1>b, StillHost DEF Intact, Calm
<1>l. ASSUME NEW pg, NEW point \in {"failcheck", "failkeep", "failsave"},
             Goto(t, point), mem' = [mem EXCEPT ![t] = pg],
             UNCHANGED <<step, ps, ren, sup>>, Intact' <=> Intact,
             Active(pg.status), pg.spec = s, pg.over = o
      PROVE  Alone(t) /\ Fit(t, s, o)'
  <2>1. /\ Alone(t)
        /\ pc'[t] = point /\ mem'[t] = pg
        /\ step'[t] = step[t] /\ ps'[t] = ps[t] /\ ren'[t] = ren[t]
        /\ sup'[t] = sup[t]
    BY <1>a, <1>l, MemAlone
  <2>2. Fit(t, s, o)'
    BY <1>b, <1>c, <1>d, <1>g, <1>l, <2>1, LeadsFit
  <2> QED
    BY <2>1, <2>2
<1>1. CASE FailRecord(t)
  <2>1. CASE Active(row.status)
    <3> DEFINE pg == Latest(mem[t])
    <3>1. /\ row' = pg /\ mem' = [mem EXCEPT ![t] = pg] /\ Goto(t, "failcheck")
          /\ UNCHANGED <<step, ps, ren, sup>>
      BY <1>1, <2>1 DEF FailRecord
    <3>2. row.spec = s /\ row.over = o
      BY <1>a, <2>1 DEF Host, Shows, Active, Live
    <3>3. Active(pg.status) /\ pg.spec = s /\ pg.over = o
      BY <1>a, <1>h, <3>2 DEF Latest, Row
    <3> HIDE DEF pg
    <3>4. Intact /\ Intact'
      BY <2>1, <3>1, <3>3 DEF Intact, Active, Live
    <3>5. Host(s, o)' /\ Forward(s, o)
      BY <1>a, <1>b, <3>1, <3>3, <3>4, SavedHost DEF Shows, Active, Ending
    <3> QED
      BY <1>l, <3>1, <3>3, <3>4, <3>5 DEF Safe
  <2>2. CASE ~Active(row.status)
    <3>1. /\ row' = row /\ mem' = mem /\ Goto(t, "failcheck")
          /\ sup' = [sup EXCEPT ![t] = IF Exists THEN row.status ELSE None]
          /\ UNCHANGED <<step, ps, ren>>
      BY <1>1, <2>2 DEF FailRecord
    <3>2. /\ Alone(t) /\ pc'[t] = "failcheck" /\ mem'[t] = mem[t]
          /\ step'[t] = step[t] /\ ps'[t] = ps[t] /\ ren'[t] = ren[t]
          /\ sup'[t] \in {row.status, None}
      BY <1>a, <3>1 DEF TypeOK, Goto, Alone
    <3>3. sup'[t] \in Ending => ~Intact'
      BY <1>j, <1>k, <3>1, <3>2, NoneAssumption DEF Ending, Stored
    <3>4. Leads(t, "failcheck", step[t], s, o)'
      BY <1>b, <1>g, <1>k, <3>1, <3>2 DEF Leads
    <3>5. Fit(t, s, o)'
      BY <1>a, <1>c, <1>k, <3>1, <3>2, <3>3, <3>4
         DEF Fit, Role, Shows, StopPoints, DeletePoints, ClaimPoints,
             Lowering, Calm
    <3> QED
      BY <1>k, <3>1, <3>2, <3>5 DEF Safe
  <2> QED
    BY <2>1, <2>2
<1>2. CASE FailCheck(t)
  <2>0. row' = row
    BY <1>2 DEF FailCheck
  <2>1. CASE Active(row.status)
    <3>1. row.spec = s /\ row.over = o
      BY <1>a, <2>1 DEF Host, Shows, Active, Live
    <3> QED
      BY <1>2, <1>k, <1>l, <2>0, <2>1, <3>1 DEF FailCheck, Safe
  <2>2. CASE ~Active(row.status)
    <3>1. AfterFail(t, IF Exists THEN row.status ELSE sup[t])
      BY <1>2, <2>2 DEF FailCheck
    <3>2. (IF Exists THEN row.status ELSE sup[t]) \in Ending => ~Intact'
      BY <1>i, <1>j, <1>k, <2>0
    <3>3. Alone(t) /\ Fit(t, s, o)'
      BY <1>c, <1>k, <2>0, <3>1, <3>2, AfterFailFit
    <3> QED
      BY <1>k, <2>0, <3>3 DEF Safe
  <2> QED
    BY <2>1, <2>2
<1>3. CASE FailKeep(t)
  <2>0. row' = row
    BY <1>3 DEF FailKeep
  <2>1. CASE AfterFail(t, sup[t])
    <3>1. Alone(t) /\ Fit(t, s, o)'
      BY <1>c, <1>i, <1>k, <2>0, <2>1, AfterFailFit
    <3> QED
      BY <1>k, <2>0, <3>1 DEF Safe
  <2>2. CASE ~AfterFail(t, sup[t])
    <3> DEFINE pg == Preserve(mem[t])
    <3>1. Goto(t, "failsave") /\ mem' = [mem EXCEPT ![t] = pg]
          /\ UNCHANGED <<step, ps, ren, sup>>
      BY <1>3, <2>2 DEF FailKeep
    <3>2. Active(pg.status) /\ pg.spec = s /\ pg.over = o
      BY <1>a, <1>h DEF Preserve, Row
    <3> HIDE DEF pg
    <3> QED
      BY <1>k, <1>l, <2>0, <3>1, <3>2 DEF Safe
  <2> QED
    BY <2>1, <2>2
<1>4. CASE FailSave(t)
  <2>1. AfterFail(t, sup[t])
    BY <1>4 DEF FailSave
  <2>2. CASE row' = row
    <3>1. Alone(t) /\ Fit(t, s, o)'
      BY <1>c, <1>i, <1>k, <2>1, <2>2, AfterFailFit
    <3> QED
      BY <1>k, <2>2, <3>1 DEF Safe
  <2>3. CASE row' = [mem[t] EXCEPT !.status = "error", !.err = TRUE]
    <3>1. row'.status = "error" /\ row'.spec = s /\ row'.over = o
      BY <1>a, <1>h, <2>3 DEF Row
    <3>2. Host(s, o)' /\ Forward(s, o)
      BY <1>a, <1>b, <3>1, SavedHost DEF Shows, Ending, Live
    <3>3. Intact' => Intact
      BY <3>2 DEF Forward
    <3>4. Alone(t) /\ Fit(t, s, o)'
      BY <1>c, <1>i, <3>3, <2>1, AfterFailFit
    <3> QED
      BY <3>2, <3>4 DEF Safe
  <2> QED
    BY <1>4, <2>2, <2>3 DEF FailSave
<1> QED
  BY <1>1, <1>2, <1>3, <1>4

LEMMA CleanupSafe ==
  ASSUME NEW s \in Playspecs, NEW o \in Overrides, Placed(s, o),
         NEW t \in Tasks,
         \/ CleanupStop(t) \/ CleanupDestroy(t) \/ CleanupRemove(t)
         \/ CleanupNothing(t)
  PROVE  Safe(t, s, o)
<1>a. /\ TypeOK /\ Host(s, o) /\ Fit(t, s, o) /\ rt \in Runtime
  BY DEF Placed, TypeOK
<1>b. row' = row
  BY DEF CleanupStop, CleanupDestroy, CleanupRemove, CleanupNothing
<1>c. Host(s, o)' /\ Forward(s, o)
  <2>1. CASE rt' = rt
    BY <1>a, <1>b, <2>1, StillHost
  <2>2. CASE rt' # rt
    <3>1. ComposeDown \/ RemoveFiles
      BY <2>2 DEF CleanupStop, CleanupDestroy, CleanupRemove, CleanupNothing
    <3>2. ~Intact
      BY <1>a, <2>2 DEF CleanupStop, CleanupDestroy, CleanupRemove,
         CleanupNothing, Fit, Lowering, Ending
    <3> QED
      BY <1>a, <1>b, <3>1, <3>2, HostCommands
  <2> QED
    BY <2>1, <2>2
<1>1. CASE End(t)
  BY <1>a, <1>c, <1>1, EndAlone, EndFit DEF Safe
<1>2. CASE ~End(t)
  <2>1. /\ Goto(t, "cleanrm") /\ UNCHANGED locals /\ sup[t] = "destroying"
        /\ pc[t] = "cleanup"
    BY <1>2 DEF CleanupStop, CleanupDestroy, CleanupRemove, CleanupNothing
  <2>2. /\ Alone(t)
        /\ pc'[t] = "cleanrm" /\ mem'[t] = mem[t]
        /\ sup'[t] = sup[t]
    BY <1>a, <2>1, GotoAlone
  <2>3. ~Intact'
    BY <1>a, <1>b, <2>1 DEF Fit, Ending, Intact, Calm
  <2>4. Fit(t, s, o)'
    BY <1>a, <2>1, <2>2, <2>3
       DEF Fit, Role, Shows, StopPoints, DeletePoints, ClaimPoints,
           Owning, Calm
  <2> QED
    BY <1>c, <2>2, <2>4 DEF Safe
<1> QED
  BY <1>1, <1>2

LEMMA MoveFit ==
  ASSUME NEW s \in Playspecs, NEW o \in Overrides, Placed(s, o),
         NEW t \in Tasks, ~Calm, Intact' => Intact,
         NEW point, NEW pg, pg.status \in Stored, pg.spec = s, pg.over = o,
         \/ point \in StopPoints /\ t \in Stoppers
         \/ point \in DeletePoints /\ t \in Deleters,
         point \in Lowering => ~Intact',
         Goto(t, point), mem' = [mem EXCEPT ![t] = pg],
         UNCHANGED <<step, ps, ren, sup>>
  PROVE  Alone(t) /\ Fit(t, s, o)'
<1>a. TypeOK /\ Fit(t, s, o)
  BY DEF Placed
<1>1. /\ Alone(t)
      /\ pc'[t] = point /\ mem'[t] = pg
      /\ sup'[t] = sup[t]
  BY <1>a, MemAlone
<1> QED
  BY <1>a, <1>1 DEF Fit, Role, Shows, StopPoints, DeletePoints, ClaimPoints,
                    Owning, Calm

LEMMA HandleSafe ==
  ASSUME OneKind, NEW s \in Playspecs, NEW o \in Overrides, Placed(s, o),
         NEW t \in Tasks, Handle(t), ~PatchSave(t)
  PROVE  Safe(t, s, o)
<1>a. /\ TypeOK /\ Host(s, o) /\ Fit(t, s, o) /\ mem[t] \in Row /\ rt \in Runtime
      /\ mem \in [Tasks -> Row]
  BY DEF Placed, TypeOK
<1>b. \/ t \in Stoppers /\ pc[t] \in StopPoints
      \/ t \in Deleters /\ pc[t] \in DeletePoints
  BY <1>a DEF Fit, Role, Handle, StopClaim, StopMark, StopHalt,
         StopReclaim, StopDone, StopFailClaim, StopFailSave, DeleteClaim,
         DeleteMark, DeleteDown, DeleteFiles, DeleteRow, DeleteFailClaim,
         DeleteFailSave, StopPoints, DeletePoints
<1>c. ~Calm /\ Patchers = {}
  BY <1>b DEF OneKind, Calm
<1>d. mem[t].status \in Stored /\ mem[t].spec = s /\ mem[t].over = o
  BY <1>a, <1>b, <1>c DEF Fit, Role, Shows
<1>e. (row' = row /\ rt' = rt) => Host(s, o)' /\ Forward(s, o)
  BY <1>a, StillHost
<1>f. Forward(s, o) => (Intact' => Intact)
  BY DEF Forward
<1>g. End(t) => Alone(t) /\ Fit(t, s, o)'
  BY <1>a, EndAlone, EndFit
<1>h. ASSUME NEW pg, pg.status \in Stored \ Live, pg.spec = s, pg.over = o,
             row' = pg, rt' = rt
      PROVE  Host(s, o)' /\ Forward(s, o) /\ ~Intact'
  <2>1. Host(s, o)' /\ Forward(s, o)
    BY <1>a, <1>c, <1>h, SavedHost DEF Shows, Stored, Live
  <2> QED
    BY <1>c, <1>h, <2>1 DEF Intact, Calm
<1>i. {"stopping", "stopped", "destroying", "error"} \subseteq Stored \ Live
  BY DEF Stored, Live
<1>1. CASE \/ StopClaim(t) \/ StopReclaim(t) \/ StopFailClaim(t)
           \/ DeleteClaim(t) \/ DeleteFailClaim(t)
  <2>1. PICK point : /\ Claim(t, point)
                     /\ \/ point \in StopPoints /\ t \in Stoppers
                        \/ point \in DeletePoints /\ t \in Deleters
                     /\ point \notin Lowering
    BY <1>1, <1>a DEF StopClaim, StopReclaim, StopFailClaim, DeleteClaim,
       DeleteFailClaim, StopPoints, DeletePoints, Lowering, Fit, Role
  <2>2. row' = row /\ rt' = rt
    BY <1>1 DEF StopClaim, StopReclaim, StopFailClaim, DeleteClaim,
       DeleteFailClaim
  <2>3. CASE End(t)
    BY <1>e, <1>g, <2>2, <2>3 DEF Safe
  <2>4. CASE ~End(t)
    <3>1. row.status = mem[t].status /\ Goto(t, point)
          /\ mem' = [mem EXCEPT ![t] = row] /\ UNCHANGED <<step, ps, ren, sup>>
      BY <2>1, <2>4 DEF Claim
    <3>2. row.spec = s /\ row.over = o
      BY <1>a, <1>c, <1>d, <3>1 DEF Host, Shows
    <3>3. Alone(t) /\ Fit(t, s, o)'
      BY <1>c, <1>d, <1>e, <1>f, <2>1, <2>2, <3>1, <3>2, MoveFit
    <3> QED
      BY <1>e, <2>2, <3>3 DEF Safe
  <2> QED
    BY <2>3, <2>4
<1>2. CASE StopHalt(t) \/ DeleteDown(t) \/ DeleteFiles(t)
  <2>1. ~Intact
    BY <1>2, <1>a DEF StopHalt, DeleteDown, DeleteFiles, Fit, Lowering
  <2>2. row' = row /\ UNCHANGED locals
    BY <1>2 DEF StopHalt, DeleteDown, DeleteFiles
  <2>3. ~Intact'
    BY <2>1, <2>2 DEF Intact, Calm
  <2>4. rt' = rt \/ ComposeDown \/ RemoveFiles
    BY <1>2 DEF StopHalt, DeleteDown, DeleteFiles
  <2>5. Host(s, o)' /\ Forward(s, o)
    BY <1>a, <1>e, <2>1, <2>2, <2>4, HostCommands
  <2>6. PICK point : /\ Goto(t, point)
                     /\ \/ point \in StopPoints /\ t \in Stoppers
                        \/ point \in DeletePoints /\ t \in Deleters
    BY <1>2, <1>a DEF StopHalt, DeleteDown, DeleteFiles, StopPoints,
       DeletePoints, Fit, Role
  <2>7. mem' = [mem EXCEPT ![t] = mem[t]]
    BY <1>a, <2>2 DEF locals
  <2>8. UNCHANGED <<step, ps, ren, sup>>
    BY <2>2 DEF locals
  <2>9. Alone(t) /\ Fit(t, s, o)'
    BY <1>c, <1>d, <2>3, <2>6, <2>7, <2>8, MoveFit
  <2> QED
    BY <2>5, <2>9 DEF Safe
<1>3. CASE StopMark(t) \/ DeleteMark(t)
  <2>1. PICK pg, point :
          /\ point \in {"halt", "destroy"}
          /\ Save(t, pg, point) /\ rt' = rt
          /\ pg.status \in Stored \ Live /\ pg.spec = s /\ pg.over = o
          /\ point = "halt" => t \in Stoppers
          /\ point = "destroy" => t \in Deleters
    <3>1. CASE StopMark(t)
      <4> DEFINE pg == [mem[t] EXCEPT !.status = "stopping"]
      <4>1. pg.status = "stopping" /\ pg.spec = s /\ pg.over = o
        BY <1>a, <1>d DEF Row
      <4>2. Save(t, pg, "halt") /\ rt' = rt /\ t \in Stoppers
        BY <1>a, <3>1 DEF StopMark, Fit, Role, StopPoints
      <4> HIDE DEF pg
      <4>3. pg.status \in Stored \ Live
        BY <1>i, <4>1
      <4> QED
        BY <4>1, <4>2, <4>3, Zenon
    <3>2. CASE DeleteMark(t)
      <4> DEFINE pg == [mem[t] EXCEPT !.status = "destroying", !.err = FALSE]
      <4>1. pg.status = "destroying" /\ pg.spec = s /\ pg.over = o
        BY <1>a, <1>d DEF Row
      <4>2. Save(t, pg, "destroy") /\ rt' = rt /\ t \in Deleters
        BY <1>a, <3>2 DEF DeleteMark, Fit, Role, DeletePoints
      <4> HIDE DEF pg
      <4>3. pg.status \in Stored \ Live
        BY <1>i, <4>1
      <4> QED
        BY <4>1, <4>2, <4>3, Zenon
    <3> QED
      BY <1>3, <3>1, <3>2
  <2>2. CASE ~Exists
    BY <1>e, <1>g, <2>1, <2>2 DEF Save, Safe
  <2>3. CASE Exists
    <3>1. /\ row' = pg /\ mem' = [mem EXCEPT ![t] = pg] /\ Goto(t, point)
          /\ UNCHANGED <<step, ps, ren, sup>>
      BY <2>1, <2>3 DEF Save
    <3>2. Host(s, o)' /\ Forward(s, o) /\ ~Intact'
      BY <1>h, <2>1, <3>1
    <3>3. \/ point \in StopPoints /\ t \in Stoppers
          \/ point \in DeletePoints /\ t \in Deleters
      BY <2>1 DEF StopPoints, DeletePoints
    <3>4. Alone(t) /\ Fit(t, s, o)'
      BY <1>c, <2>1, <3>1, <3>2, <3>3, MoveFit
    <3> QED
      BY <3>2, <3>4 DEF Safe
  <2> QED
    BY <2>2, <2>3
<1>4. CASE StopDone(t) \/ StopFailSave(t) \/ DeleteFailSave(t)
  <2>1. PICK pg : /\ SaveAndEnd(t, pg) /\ rt' = rt
                  /\ pg.status \in Stored \ Live /\ pg.spec = s /\ pg.over = o
    <3>1. CASE StopDone(t)
      <4> DEFINE pg == [mem[t] EXCEPT !.status = "stopped"]
      <4>1. pg.status = "stopped" /\ pg.spec = s /\ pg.over = o
        BY <1>a, <1>d DEF Row
      <4>2. SaveAndEnd(t, pg) /\ rt' = rt
        BY <3>1 DEF StopDone
      <4> HIDE DEF pg
      <4>3. pg.status \in Stored \ Live
        BY <1>i, <4>1
      <4> QED
        BY <4>1, <4>2, <4>3, Zenon
    <3>2. CASE StopFailSave(t) \/ DeleteFailSave(t)
      <4> DEFINE pg == [mem[t] EXCEPT !.status = "error", !.err = TRUE]
      <4>1. pg.status = "error" /\ pg.spec = s /\ pg.over = o
        BY <1>a, <1>d DEF Row
      <4>2. SaveAndEnd(t, pg) /\ rt' = rt
        BY <3>2 DEF StopFailSave, DeleteFailSave
      <4> HIDE DEF pg
      <4>3. pg.status \in Stored \ Live
        BY <1>i, <4>1
      <4> QED
        BY <4>1, <4>2, <4>3, Zenon
    <3> QED
      BY <1>4, <3>1, <3>2
  <2>2. End(t) /\ (row' = row \/ row' = pg)
    BY <2>1 DEF SaveAndEnd
  <2>3. Host(s, o)' /\ Forward(s, o)
    BY <1>e, <1>h, <2>1, <2>2
  <2> QED
    BY <1>g, <2>2, <2>3 DEF Safe
<1>5. CASE DeleteRow(t)
  <2>1. row'.status = "deleted" /\ End(t) /\ rt' = rt
    BY <1>5 DEF DeleteRow, Blank
  <2>2. Host(s, o)' /\ Forward(s, o)
    BY <1>a, <1>c, <2>1, SavedHost DEF Shows, Stored, Live
  <2> QED
    BY <1>g, <2>1, <2>2 DEF Safe
<1> QED
  BY <1>1, <1>2, <1>3, <1>4, <1>5 DEF Handle

LEMMA PatchSaveSafe ==
  ASSUME OneKind, NEW s \in Playspecs, NEW o \in Overrides, Placed(s, o),
         NEW t \in Tasks, PatchSave(t)
  PROVE  Safe(t, s, o)
<1>a. TypeOK /\ Host(s, o) /\ Fit(t, s, o)
  BY DEF Placed
<1>b. pc[t] = "patch" /\ End(t) /\ rt' = rt /\ (row' = row \/ row' = mem[t])
  BY DEF PatchSave, SaveAndEnd
<1>c. Calm
  BY <1>a, <1>b DEF Fit, Role, OneKind
<1>1. Host(s, o)' /\ Forward(s, o)
  <2>1. CASE row' = row
    BY <1>a, <1>b, <2>1, StillHost
  <2>2. CASE row' = mem[t]
    <3>1. /\ mem[t].status \in Stored /\ mem[t].status \notin Ending
          /\ Shows(mem[t], s, o)
          /\ mem[t].status = "running" => rt.up = <<s, o>>
      BY <1>a, <1>b, <1>c DEF Fit, Role
    <3>2. Shows(row, s, o)'
      BY <2>2, <3>1 DEF Shows
    <3> QED
      BY <1>a, <1>b, <1>c, <2>2, <3>1, <3>2, SavedHost DEF Intact, Stored
  <2> QED
    BY <1>b, <2>1, <2>2
<1> QED
  BY <1>a, <1>b, <1>1, EndAlone, EndFit DEF Safe

LEMMA DisconnectSafe ==
  ASSUME NEW s \in Playspecs, NEW o \in Overrides, Placed(s, o),
         NEW t \in Tasks, Disconnect(t)
  PROVE  Safe(t, s, o)
BY EndSafe DEF Placed, Disconnect

(***************************************************************************)
(* Before the row exists: the INSERT decides what s and o are.             *)
(***************************************************************************)
LEMMA FreshStep ==
  ASSUME TypeOK, TypeOK', Fresh, NEW t \in Tasks,
         Arrive(t) \/ Work(t) \/ RunFails(t) \/ Disconnect(t)
  PROVE  Fresh' \/ \E s \in Playspecs, o \in Overrides :
                     Host(s, o)' /\ \A u \in Tasks : Fit(u, s, o)'
<1>a. pc[t] \in {"new", "insert", "done"} /\ row.status = "none"
  BY DEF Fresh
<1>1. \/ CreateLookup(t) \/ OperationRequest(t) \/ StopRequest(t)
      \/ DeleteRequest(t) \/ PatchRead(t) \/ CreateInsert(t) \/ Disconnect(t)
  BY <1>a DEF Arrive, Work, Deploy, Handle,
     RolloutClaim, StartClaim, HardRestartClaim, HardRestartDown,
     HardRestartReclaim, DeployStart, StartPrepare, StartRecord, StepBegin,
     StepCheck, RunRender, RunHostPrerequisites, RunSourceSync, RunBuilds,
     SaveBuilds, RunDeployWrite, RunComposeUp, RunObserve, StepFinish, Progress,
     Recheck, LastCheck, StartKeep, Finalize, FailRecord, FailCheck, FailKeep,
     FailSave, CleanupStop, CleanupDestroy, CleanupRemove, CleanupNothing,
     StopClaim, StopMark, StopHalt, StopReclaim, StopDone, StopFailClaim,
     StopFailSave, DeleteClaim, DeleteMark, DeleteDown, DeleteFiles, DeleteRow,
     DeleteFailClaim, DeleteFailSave, PatchSave, RunFails
<1>2. CASE row' = row
  <2>1. rt' = rt
    BY <1>1 DEF CreateLookup, OperationRequest, StopRequest, DeleteRequest,
       PatchRead, CreateInsert, Disconnect
  <2>2. End(t) \/ (Goto(t, "insert") /\ UNCHANGED locals)
    BY <1>1, <1>2, <1>a DEF CreateLookup, OperationRequest, OperationAllowed,
       StopRequest, StopAllowed, DeleteRequest, PatchRead, CreateInsert,
       Disconnect, Exists, Stored, TypeOK, Row
  <2>3. \A u \in Tasks : /\ pc'[u] \in {"new", "insert", "done"}
                         /\ mem'[u].status = "none" /\ sup'[u] = None
    BY <2>2 DEF End, Goto, locals, TypeOK, Fresh, Blank
  <2> QED
    BY <1>2, <2>1, <2>3 DEF Fresh
<1>3. CASE row' # row
  <2>1. CreateInsert(t) /\ row'.status # "none"
    BY <1>1, <1>3 DEF CreateLookup, OperationRequest,
       StopRequest, DeleteRequest, PatchRead, CreateInsert, Disconnect
  <2>2. PICK s \in Playspecs, o \in Overrides :
          LET pg == [status |-> "pending", spec |-> s, over |-> o,
                     gen |-> None, err |-> FALSE]
          IN  row' = pg /\ mem' = [mem EXCEPT ![t] = pg]
    BY <1>a, <2>1 DEF CreateInsert
  <2>3. /\ row'.status = "pending" /\ row'.spec = s /\ row'.over = o
        /\ mem'[t] = row' /\ rt' = rt
        /\ pc' = [pc EXCEPT ![t] = "deploy"] /\ UNCHANGED <<step, ps, ren, sup>>
        /\ \A u \in Tasks \ {t} : mem'[u] = mem[u]
    BY <1>a, <2>1, <2>2 DEF CreateInsert, TypeOK, Goto
  <2>4. Host(s, o)'
    BY <2>3 DEF Fresh, Host, Shows, Ending, Intact
  <2>5. ASSUME NEW u \in Tasks PROVE Fit(u, s, o)'
    <3>1. sup'[u] = None
      BY <2>3 DEF Fresh
    <3>2. CASE u = t
      <4>1. pc'[u] = "deploy" /\ mem'[u] = row'
        BY <2>3, <3>2 DEF TypeOK
      <4> QED
        BY <2>3, <3>1, <4>1, NoneAssumption
           DEF Fit, Role, Shows, StopPoints, DeletePoints, ClaimPoints,
               Lowering, Ending, Owning, Stored
    <3>3. CASE u # t
      <4>1. pc'[u] \in {"new", "insert", "done"} /\ mem'[u].status = "none"
        BY <2>3, <3>3 DEF TypeOK, Fresh
      <4> QED
        BY <3>1, <4>1, NoneAssumption
           DEF Fit, Role, Shows, StopPoints, DeletePoints, ClaimPoints,
               Lowering, Ending, Owning, Stored, Live
    <3> QED
      BY <3>2, <3>3
  <2> QED
    BY <2>4, <2>5
<1> QED
  BY <1>2, <1>3

(***************************************************************************)
(* Next to any number of creations, with any failures of host commands and *)
(* process restarts: a playground reported running runs containers created *)
(* from the configuration its row shows, under stops and deletions, under  *)
(* edits (PATCH), or under rollouts and starts.                            *)
(***************************************************************************)
THEOREM RunningAsConfigured ==
  ASSUME OneKind
  PROVE  Spec => []RunningReflectsConfig
<1>1. Init => RInv
  <2> SUFFICES ASSUME Init PROVE RInv
    OBVIOUS
  <2>1. TypeOK
    BY BlankIsRow, ConstantsAssumption
       DEF Init, TypeOK, Runtime, Points, Steps
  <2> QED
    BY <2>1 DEF Init, RInv, Fresh, Blank
<1>2. RInv /\ [Next]_vars => RInv'
  <2> SUFFICES ASSUME RInv, [Next]_vars PROVE RInv'
    OBVIOUS
  <2>1. TypeOK /\ TypeOK'
    BY TypeStep DEF RInv
  <2>2. ASSUME NEW t \in Tasks,
               Arrive(t) \/ Work(t) \/ RunFails(t) \/ Disconnect(t)
        PROVE  RInv'
    <3>1. CASE Fresh
      BY <2>1, <2>2, <3>1, FreshStep DEF RInv
    <3>2. CASE ~Fresh
      <4>1. PICK s \in Playspecs, o \in Overrides : Placed(s, o)
        BY <2>1, <3>2 DEF RInv, Placed
      <4>2. Safe(t, s, o)
        BY <2>2, <4>1, ArriveSafe, ClaimSafe, StartDeploymentSafe, InsertSafe,
           StepSafe, RunSafe, FailSafe, CleanupSafe, HandleSafe, PatchSaveSafe,
           DisconnectSafe DEF Work, Deploy
      <4>3. \A u \in Tasks : Fit(u, s, o)'
        BY <4>1, <4>2, SafeKeeps
      <4> QED
        BY <2>1, <4>2, <4>3 DEF Safe, RInv
    <3> QED
      BY <3>1, <3>2
  <2>3. ASSUME Restart PROVE RInv'
    <3>1. /\ rt' = rt
          /\ \A t \in Tasks : /\ pc'[t] \in {"new", "done"} /\ mem'[t] = Blank
                              /\ sup'[t] = None /\ step'[t] = "compose_render"
      BY <2>3 DEF Restart
    <3>2. CASE Fresh
      <4>1. row' = row
        BY <2>3, <3>2 DEF Restart, Recovered, Active, Fresh
      <4> QED
        BY <2>1, <3>1, <3>2, <4>1 DEF RInv, Fresh, Blank
    <3>3. CASE ~Fresh
      <4>1. PICK s \in Playspecs, o \in Overrides : Placed(s, o)
        BY <2>1, <3>3 DEF RInv, Placed
      <4>2. Host(s, o)'
        <5>1. CASE Active(row.status)
          <6>1. row.spec = s /\ row.over = o
            BY <4>1, <5>1 DEF Placed, Host, Shows, Active, Live
          <6>2. row'.status = "error" /\ row'.spec = s /\ row'.over = o
            BY <2>1, <2>3, <5>1, <6>1 DEF Restart, Recovered, TypeOK, Row
          <6> QED
            BY <3>1, <4>1, <6>2, SavedHost DEF Placed, Shows, Ending, Live
        <5>2. CASE ~Active(row.status)
          BY <2>3, <3>1, <4>1, <5>2, StillHost DEF Restart, Recovered, Placed
        <5> QED
          BY <5>1, <5>2
      <4>3. ASSUME NEW t \in Tasks PROVE Fit(t, s, o)'
        BY <3>1, NoneAssumption
           DEF Fit, Role, Shows, Blank, StopPoints, DeletePoints, ClaimPoints,
               Lowering, Ending, Stored, Owning, Live
      <4> QED
        BY <2>1, <4>2, <4>3 DEF RInv
    <3> QED
      BY <3>2, <3>3
  <2>4. CASE UNCHANGED vars
    BY <2>1, <2>4 DEF vars, RInv, Fresh, Host, Fit, Role, Shows, Leads, Intact,
                      Calm, WrittenBy, PastUp
  <2>5. CASE Idle
    BY <2>4, <2>5 DEF Idle
  <2> QED
    BY <2>2, <2>3, <2>4, <2>5 DEF Next
<1>3. RInv => RunningReflectsConfig
  BY DEF RInv, Fresh, RunningReflectsConfig, Host, Shows, Live
<1> QED
  BY <1>1, <1>2, <1>3, PTL DEF Spec

-----------------------------------------------------------------------------
(***************************************************************************)
(* A stopped playground has no containers. The setting (OneStop) is one    *)
(* stop, any number of creations, deletions, rollouts and unforced starts, *)
(* and no failures. A second stop, an edit, a hard restart, a forced       *)
(* start, a failing host command or a restart of the process between the   *)
(* stop and the cleanup each break the property: TLC shows each on a small *)
(* instance.                                                               *)
(*                                                                         *)
(* The stop marks the row, takes the containers down and marks the row     *)
(* again, while a deployment it has superseded may still bring containers  *)
(* up. HInv says how that ends well. Either the stop is over and the row   *)
(* has been deployed anew or failed (Over), or a deletion is past the      *)
(* point of no return (Doomed), or the row is steady: it says "stopping"   *)
(* while the stop is at work and "stopped" only when it has ended, and     *)
(* containers that are up after StopCompose belong to a task that will     *)
(* still take them down (Cleans).                                          *)
(***************************************************************************)
OneStop ==
  /\ \A p, q \in Stoppers : p = q
  /\ Patchers = {}
  /\ "hard_restart" \notin OpKinds
  /\ "start" \in OpKinds => TRUE \notin Forces
  /\ MaxFaults = 0 /\ MaxRestarts = 0

Halted == {"stopping", "stopped"}
(***************************************************************************)
(* The points of a stop between its two saves, and those of a deletion     *)
(* past its save.                                                          *)
(***************************************************************************)
AfterMark == {"halt", "stopclaim", "stopped", "stopfail", "stoperr"}
Erasing == {"destroy", "remove", "delrow"}

(***************************************************************************)
(* What the program point of a task says about its copy of the row.        *)
(***************************************************************************)
Post(t) ==
  /\ pc[t] \in StopPoints => t \in Stoppers
  /\ pc[t] \in DeletePoints => t \in Deleters
  /\ pc[t] \notin {"hard_restart", "down", "reclaim", "patch", "delfail", "delerr"}
  /\ pc[t] \in {"start", "startprep", "startup"} => mem[t].status = "stopped"
  /\ pc[t] \in Owning => Active(mem[t].status)
  /\ pc[t] \in AfterMark => mem[t].status = "stopping"

Posts == TypeOK /\ \A t \in Tasks : Post(t)

(***************************************************************************)
(* The stop is over.                                                       *)
(***************************************************************************)
Over == /\ row.status \notin Halted
        /\ \A p \in Stoppers : pc[p] = "done"

(***************************************************************************)
(* A deletion has begun to tear down, or is done.                          *)
(***************************************************************************)
Doomed == \/ row.status = "deleted"
          \/ \E d \in Tasks : pc[d] \in Erasing

(***************************************************************************)
(* A deployment has what its step needs, and once compose up has run,      *)
(* containers are up or the row is halted.                                 *)
(***************************************************************************)
Progressing(t) ==
  /\ step[t] # "compose_start"
  /\ pc[t] \notin {"keep", "failkeep", "failsave"}
  /\ pc[t] = "save" => step[t] = "builds"
  /\ pc[t] = "progress" => step[t] = "host_prerequisites"
  /\ pc[t] = "up" => step[t] = "compose_deploy" /\ rt.compose # None
  /\ pc[t] \in {"recheck", "lastcheck", "finalize"} => step[t] = "runtime_observe"
  /\ pc[t] \in {"fail", "failcheck"} => /\ step[t] = "runtime_observe"
                                        /\ row.status \in Halted
  /\ WrittenBy(step[t], pc[t]) => ren[t] # None
  /\ PastUp(step[t], pc[t]) => /\ rt.compose # None
                               /\ rt.up # None \/ row.status \in Halted

Works(t) ==
  /\ pc[t] \in Owning => Progressing(t)
  /\ pc[t] = "cleanup" /\ sup[t] \in Halted => row.status \in Halted
  /\ pc[t] = "cleanup" => sup[t] # "destroying"
  /\ pc[t] # "cleanrm"
  /\ pc[t] \in AfterMark => row.status = "stopping"

(***************************************************************************)
(* The task will take the containers down before it ends if the row is     *)
(* halted.                                                                 *)
(***************************************************************************)
Cleans(t) ==
  \/ pc[t] \in Owning /\ PastUp(step[t], pc[t]) /\ pc[t] # "finalize"
  \/ pc[t] = "cleanup" /\ sup[t] \in Halted

(***************************************************************************)
(* StopCompose has run.                                                    *)
(***************************************************************************)
Brought ==
  row.status = "stopped" \/ \E p \in Tasks : pc[p] \in {"stopclaim", "stopped"}

Steady ==
  /\ row.status \notin {"destroying", "deleted"}
  /\ row.status = "stopping" => \E p \in Tasks : pc[p] \in AfterMark
  /\ row.status = "stopped" => \A p \in Stoppers : pc[p] = "done"
  /\ rt.up # None => rt.compose # None
  /\ Brought /\ rt.up # None => \E t \in Tasks : Cleans(t)
  /\ \A t \in Tasks : Works(t)

HInv == Posts /\ (Over \/ Doomed \/ Steady)

LEMMA NoFaults ==
  ASSUME OneStop, TypeOK
  PROVE  /\ ~Fault
         /\ ~Restart
         /\ \A t \in Tasks : ~RunFails(t) /\ ~Disconnect(t)
<1>1. ~Fault
  BY DEF OneStop, TypeOK, Fault
<1>2. ~Restart
  BY DEF OneStop, TypeOK, Restart
<1> QED
  BY <1>1, <1>2 DEF RunFails, Disconnect

(***************************************************************************)
(* A step changes nothing but the row, the host and the local variables of *)
(* its own task.                                                           *)
(***************************************************************************)
LEMMA ClaimAlone ==
  ASSUME TypeOK, NEW t \in Tasks, NEW point, Claim(t, point)
  PROVE  Alone(t)
BY DEF Claim, TypeOK, Goto, Alone, End

LEMMA SupersededAlone ==
  ASSUME TypeOK, NEW t \in Tasks, NEW cleans, Superseded(t, cleans)
  PROVE  Alone(t)
BY DEF Superseded, TypeOK, Goto, Alone, End

LEMMA SaveProgressAlone ==
  ASSUME TypeOK, NEW t \in Tasks, NEW pg, NEW cleans, NEW point, NEW name,
         SaveProgress(t, pg, cleans, point, name)
  PROVE  Alone(t)
<1>1. CASE Active(row.status)
  BY <1>1 DEF SaveProgress, TypeOK, Goto, Alone
<1> QED
  BY <1>1, SupersededAlone DEF SaveProgress

LEMMA RequireActiveAlone ==
  ASSUME TypeOK, NEW t \in Tasks, NEW pg, NEW cleans, NEW point, NEW name,
         RequireActive(t, pg, cleans, point, name)
  PROVE  Alone(t)
<1>1. CASE Active(row.status)
  BY <1>1 DEF RequireActive, TypeOK, Goto, Alone
<1> QED
  BY <1>1, SupersededAlone DEF RequireActive

LEMMA StartDeploymentAlone ==
  ASSUME TypeOK, NEW t \in Tasks, NEW name, NEW point,
         StartDeployment(t, name, point)
  PROVE  Alone(t)
BY DEF StartDeployment, TypeOK, Goto, Alone, End

LEMMA AfterFailAlone ==
  ASSUME TypeOK, NEW t \in Tasks, NEW status, AfterFail(t, status)
  PROVE  Alone(t)
BY DEF AfterFail, TypeOK, Goto, Alone, End

LEMMA WorkAlone ==
  ASSUME TypeOK, NEW t \in Tasks, Arrive(t) \/ Work(t)
  PROVE  Alone(t)
<1>1. CASE Arrive(t)
  BY <1>1, EndAlone, MemAlone, GotoAlone
     DEF Arrive, CreateLookup, OperationRequest, StopRequest, DeleteRequest,
         PatchRead
<1>2. CASE CreateInsert(t)
  BY <1>2, EndAlone, MemAlone DEF CreateInsert
<1>3. CASE \/ RolloutClaim(t) \/ StartClaim(t) \/ HardRestartClaim(t)
           \/ HardRestartReclaim(t) \/ StopClaim(t) \/ StopReclaim(t)
           \/ StopFailClaim(t) \/ DeleteClaim(t) \/ DeleteFailClaim(t)
  BY <1>3, ClaimAlone DEF RolloutClaim, StartClaim, HardRestartClaim,
     HardRestartReclaim, StopClaim, StopReclaim, StopFailClaim, DeleteClaim,
     DeleteFailClaim
<1>4. CASE DeployStart(t) \/ StartRecord(t)
  BY <1>4, StartDeploymentAlone DEF DeployStart, StartRecord
<1>5. CASE \/ HardRestartDown(t) \/ CleanupStop(t) \/ CleanupDestroy(t)
           \/ CleanupRemove(t) \/ CleanupNothing(t) \/ Finalize(t)
  BY <1>5, EndAlone, GotoAlone DEF HardRestartDown, CleanupStop, CleanupDestroy,
     CleanupRemove, CleanupNothing, Finalize
<1>6. CASE StartPrepare(t) \/ StartKeep(t) \/ FailKeep(t) \/ FailCheck(t)
  BY <1>6, EndAlone, MemAlone, AfterFailAlone
     DEF StartPrepare, StartKeep, FailKeep, FailCheck
<1>7. CASE StepBegin(t) \/ SaveBuilds(t) \/ StepFinish(t) \/ Progress(t)
  BY <1>7, SaveProgressAlone DEF StepBegin, SaveBuilds, StepFinish, Progress
<1>8. CASE StepCheck(t) \/ Recheck(t) \/ LastCheck(t)
  BY <1>8, RequireActiveAlone DEF StepCheck, Recheck, LastCheck
<1>9. CASE RunRender(t) \/ RunBuilds(t) \/ FailRecord(t)
  BY <1>9 DEF RunRender, RunBuilds, FailRecord, TypeOK, Goto, Alone
<1>10. CASE \/ RunHostPrerequisites(t) \/ RunSourceSync(t) \/ RunDeployWrite(t)
            \/ RunComposeUp(t) \/ RunObserve(t) \/ StopHalt(t) \/ DeleteDown(t)
            \/ DeleteFiles(t)
  BY <1>10, GotoAlone DEF RunHostPrerequisites, RunSourceSync, RunDeployWrite,
     RunComposeUp, RunObserve, StopHalt, DeleteDown, DeleteFiles
<1>11. CASE FailSave(t)
  BY <1>11, AfterFailAlone DEF FailSave
<1>12. CASE StopMark(t) \/ DeleteMark(t)
  BY <1>12, EndAlone, MemAlone DEF StopMark, DeleteMark, Save
<1>13. CASE \/ StopDone(t) \/ StopFailSave(t) \/ DeleteFailSave(t)
            \/ DeleteRow(t) \/ PatchSave(t)
  BY <1>13, EndAlone DEF StopDone, StopFailSave, DeleteFailSave, DeleteRow,
     PatchSave, SaveAndEnd
<1> QED
  BY <1>1, <1>2, <1>3, <1>4, <1>5, <1>6, <1>7, <1>8, <1>9, <1>10, <1>11,
     <1>12, <1>13 DEF Work, Deploy, Handle

(***************************************************************************)
(* Every step of a task keeps what its program point says.                 *)
(***************************************************************************)
LEMMA EndPost ==
  ASSUME TypeOK, NEW t \in Tasks, End(t)
  PROVE  Post(t)'
<1>1. pc'[t] = "done"
  BY DEF TypeOK, End, Goto
<1> QED
  BY <1>1 DEF Post, StopPoints, DeletePoints, Owning, AfterMark

LEMMA SupersededPost ==
  ASSUME TypeOK, NEW t \in Tasks, NEW cleans, Superseded(t, cleans)
  PROVE  Post(t)'
<1>1. CASE End(t)
  BY <1>1, EndPost
<1>2. CASE ~End(t)
  <2>1. pc'[t] = "cleanup"
    BY <1>2 DEF TypeOK, Superseded, Goto
  <2> QED
    BY <2>1 DEF Post, StopPoints, DeletePoints, Owning, AfterMark
<1> QED
  BY <1>1, <1>2

LEMMA OwningPost ==
  ASSUME NEW t \in Tasks, pc'[t] \in Owning, Active(mem'[t].status)
  PROVE  Post(t)'
BY DEF Post, StopPoints, DeletePoints, Owning, AfterMark

LEMMA SaveProgressPost ==
  ASSUME Posts, NEW t \in Tasks, pc[t] \in Owning, NEW cleans,
         NEW point \in Owning, NEW name,
         SaveProgress(t, mem[t], cleans, point, name)
  PROVE  Post(t)'
<1>1. CASE Active(row.status)
  <2>1. pc'[t] = point /\ mem'[t] = Latest(mem[t])
    BY <1>1 DEF SaveProgress, Goto, Posts, TypeOK
  <2>2. Latest(mem[t]).status = mem[t].status
    BY DEF Latest, Posts, TypeOK, Row
  <2>3. Active(mem[t].status)
    BY DEF Posts, Post
  <2> QED
    BY <2>1, <2>2, <2>3, OwningPost
<1> QED
  BY <1>1, SupersededPost DEF SaveProgress, Posts

LEMMA RequireActivePost ==
  ASSUME Posts, NEW t \in Tasks, pc[t] \in Owning, NEW cleans,
         NEW point \in Owning, NEW name, NEW pg \in {row, mem[t]},
         RequireActive(t, pg, cleans, point, name)
  PROVE  Post(t)'
<1>1. CASE Active(row.status)
  <2>1. pc'[t] = point /\ mem'[t] = pg
    BY <1>1 DEF RequireActive, Goto, Posts, TypeOK
  <2>2. Active(mem[t].status)
    BY DEF Posts, Post
  <2> QED
    BY <1>1, <2>1, <2>2, OwningPost
<1> QED
  BY <1>1, SupersededPost DEF RequireActive, Posts

LEMMA AfterFailPost ==
  ASSUME TypeOK, NEW t \in Tasks, NEW status, AfterFail(t, status)
  PROVE  Post(t)'
<1>1. CASE End(t)
  BY <1>1, EndPost
<1>2. CASE ~End(t)
  <2>1. pc'[t] = "cleanup"
    BY <1>2 DEF TypeOK, AfterFail, Goto
  <2> QED
    BY <2>1 DEF Post, StopPoints, DeletePoints, Owning, AfterMark
<1> QED
  BY <1>1, <1>2

LEMMA ClaimPost ==
  ASSUME TypeOK, NEW t \in Tasks,
         NEW point \in {"deploy", "startprep", "stopping", "stopped", "stoperr",
                        "destroying"},
         Claim(t, point),
         point = "startprep" => mem[t].status = "stopped",
         point \in {"stopping", "stopped", "stoperr"} => t \in Stoppers,
         point \in {"stopped", "stoperr"} => mem[t].status = "stopping",
         point = "destroying" => t \in Deleters
  PROVE  Post(t)'
<1>1. CASE End(t)
  BY <1>1, EndPost
<1>2. CASE ~End(t)
  <2>1. pc'[t] = point /\ mem'[t] = row /\ row.status = mem[t].status
    BY <1>2 DEF TypeOK, Claim, Goto
  <2> QED
    BY <2>1 DEF Post, StopPoints, DeletePoints, Owning, AfterMark
<1> QED
  BY <1>1, <1>2

LEMMA ArrivePost ==
  ASSUME OneStop, Posts, NEW t \in Tasks, Arrive(t)
  PROVE  Post(t)'
<1> USE DEF Post, StopPoints, DeletePoints, Owning, AfterMark, Goto
<1>a. TypeOK /\ (End(t) => Post(t)')
  BY EndPost DEF Posts
<1>1. CASE CreateLookup(t)
  <2>1. End(t) \/ pc'[t] = "insert"
    BY <1>1, <1>a DEF CreateLookup, TypeOK
  <2> QED
    BY <1>a, <2>1
<1>2. CASE OperationRequest(t)
  <2>1. PICK kind \in OpKinds, force \in Forces :
           \/ /\ OperationAllowed(kind, force)
              /\ Goto(t, kind)
              /\ mem' = [mem EXCEPT ![t] = row]
           \/ End(t)
    BY <1>2 DEF OperationRequest
  <2>2. CASE ~End(t)
    <3>1. pc'[t] = kind /\ mem'[t] = row /\ OperationAllowed(kind, force)
      BY <1>a, <2>1, <2>2 DEF TypeOK
    <3>2. kind \in {"rollout", "start"} /\ force \in BOOLEAN
      BY ConstantsAssumption DEF OneStop, Kinds
    <3>3. kind = "start" => row.status = "stopped"
      BY <3>1, <3>2 DEF OneStop, OperationAllowed, AllowedFrom
    <3> QED
      BY <3>1, <3>2, <3>3
  <2> QED
    BY <1>a, <2>2
<1>3. CASE StopRequest(t)
  <2>1. End(t) \/ (pc'[t] = "stop" /\ t \in Stoppers)
    BY <1>3, <1>a DEF StopRequest, TypeOK
  <2> QED
    BY <1>a, <2>1
<1>4. CASE DeleteRequest(t)
  <2>1. End(t) \/ (pc'[t] = "del" /\ t \in Deleters)
    BY <1>4, <1>a DEF DeleteRequest, TypeOK
  <2> QED
    BY <1>a, <2>1
<1>5. CASE PatchRead(t)
  BY <1>5 DEF PatchRead, OneStop
<1> QED
  BY <1>1, <1>2, <1>3, <1>4, <1>5 DEF Arrive

LEMMA DeployPost ==
  ASSUME OneStop, Posts, NEW t \in Tasks, Deploy(t)
  PROVE  Post(t)'
<1>a. TypeOK /\ Post(t) /\ (End(t) => Post(t)') /\ mem[t] \in Row
  BY EndPost DEF Posts, TypeOK
<1>b. ASSUME pc[t] \in Owning, pc'[t] \in Owning, mem'[t] = mem[t]
      PROVE Post(t)'
  BY <1>a, <1>b, OwningPost DEF Post
<1>c. {"begin", "check", "run", "save", "up", "finish", "progress", "recheck",
       "keep", "lastcheck", "finalize", "fail", "failcheck", "failkeep",
       "failsave"} \subseteq Owning
  BY DEF Owning
<1>1. CASE CreateInsert(t)
  <2>1. End(t) \/ pc'[t] = "deploy"
    BY <1>1, <1>a DEF CreateInsert, TypeOK, Goto
  <2> QED
    BY <1>a, <2>1 DEF Post, StopPoints, DeletePoints, Owning, AfterMark
<1>2. CASE \/ RolloutClaim(t) \/ StartClaim(t) \/ HardRestartClaim(t)
           \/ HardRestartReclaim(t)
  BY <1>2, <1>a, ClaimPost DEF RolloutClaim, StartClaim, HardRestartClaim,
     HardRestartReclaim, Post
<1>3. CASE HardRestartDown(t)
  BY <1>3, <1>a DEF HardRestartDown, Post
<1>4. CASE DeployStart(t) \/ StartRecord(t)
  <2>1. PICK name \in {"compose_render", "compose_start"},
             point \in {"run", "check"} : StartDeployment(t, name, point)
    BY <1>4 DEF DeployStart, StartRecord
  <2>2. CASE ~End(t)
    <3>1. mem' = [mem EXCEPT ![t] = Latest([mem[t] EXCEPT !.status = "in_progress"])]
          /\ Goto(t, point)
      BY <2>1, <2>2 DEF StartDeployment
    <3>2. Latest([mem[t] EXCEPT !.status = "in_progress"]).status = "in_progress"
      BY <1>a DEF Latest, Row
    <3>3. pc'[t] = point /\ mem'[t].status = "in_progress"
      BY <1>a, <3>1, <3>2 DEF TypeOK, Goto
    <3> QED
      BY <1>c, <3>3, OwningPost DEF Active
  <2> QED
    BY <1>a, <2>2
<1>5. CASE StartPrepare(t)
  <2>1. Preserve(mem[t]).status = mem[t].status
    BY <1>a DEF Preserve, Row
  <2>2. End(t) \/ (pc'[t] = "startup" /\ mem'[t] = Preserve(mem[t]))
    BY <1>5, <1>a DEF StartPrepare, TypeOK, Goto
  <2>3. mem[t].status = "stopped"
    BY <1>5, <1>a DEF StartPrepare, Post
  <2> QED
    BY <1>a, <2>1, <2>2, <2>3 DEF Post, StopPoints, DeletePoints, Owning, AfterMark
<1>6. CASE StepBegin(t) \/ SaveBuilds(t) \/ Progress(t)
  BY <1>6, <1>c, SaveProgressPost DEF StepBegin, SaveBuilds, Progress
<1>7. CASE StepFinish(t)
  <2>1. AfterFinish(step[t]) \in Owning
    BY DEF AfterFinish, Owning
  <2> QED
    BY <1>7, <1>c, <2>1, SaveProgressPost DEF StepFinish
<1>8. CASE StepCheck(t) \/ Recheck(t) \/ LastCheck(t)
  <2>1. (IF step[t] = "compose_start" THEN row ELSE mem[t]) \in {row, mem[t]}
    OBVIOUS
  <2> QED
    BY <1>8, <1>c, <2>1, RequireActivePost DEF StepCheck, Recheck, LastCheck
<1>9. CASE StartKeep(t) \/ FailKeep(t)
  <2>1. Preserve(mem[t]).status = mem[t].status /\ Active(mem[t].status)
    BY <1>9, <1>a, <1>c DEF Preserve, Row, Post, StartKeep, FailKeep
  <2>2. \/ End(t) \/ AfterFail(t, sup[t])
        \/ pc'[t] \in {"begin", "failsave"} /\ mem'[t] = Preserve(mem[t])
    BY <1>9, <1>a DEF StartKeep, FailKeep, TypeOK, Goto
  <2> QED
    BY <1>a, <1>c, <2>1, <2>2, OwningPost, AfterFailPost
<1>10. CASE RunRender(t) \/ RunBuilds(t)
  <2>1. pc'[t] \in {"finish", "save"} /\ mem'[t].status = mem[t].status
    BY <1>10, <1>a DEF RunRender, RunBuilds, TypeOK, Goto, Row
  <2>2. Active(mem[t].status)
    BY <1>10, <1>a, <1>c DEF RunRender, RunBuilds, Post
  <2> QED
    BY <1>c, <2>1, <2>2, OwningPost
<1>11. CASE \/ RunHostPrerequisites(t) \/ RunSourceSync(t) \/ RunDeployWrite(t)
            \/ RunComposeUp(t) \/ RunObserve(t)
  <2>1. /\ pc[t] \in {"run", "up"} /\ pc'[t] \in {"finish", "up", "fail"}
        /\ mem' = mem
    BY <1>11, <1>a DEF RunHostPrerequisites, RunSourceSync, RunDeployWrite,
       RunComposeUp, RunObserve, TypeOK, Goto, locals
  <2> QED
    BY <1>b, <1>c, <2>1
<1>12. CASE FailRecord(t)
  <2>1. pc'[t] = "failcheck" /\ mem'[t].status = mem[t].status
    BY <1>12, <1>a DEF FailRecord, Latest, TypeOK, Goto, Row
  <2>2. Active(mem[t].status)
    BY <1>12, <1>a, <1>c DEF FailRecord, Post
  <2> QED
    BY <1>c, <2>1, <2>2, OwningPost
<1>13. CASE FailCheck(t)
  <2>1. \/ AfterFail(t, IF Exists THEN row.status ELSE sup[t])
        \/ pc'[t] = "failkeep" /\ mem'[t] = row /\ Active(row.status)
    BY <1>13, <1>a DEF FailCheck, TypeOK, Goto
  <2> QED
    BY <1>a, <1>c, <2>1, OwningPost, AfterFailPost
<1>14. CASE FailSave(t)
  BY <1>14, <1>a, AfterFailPost DEF FailSave
<1>15. CASE \/ CleanupStop(t) \/ CleanupDestroy(t) \/ CleanupRemove(t)
            \/ CleanupNothing(t) \/ Finalize(t)
  <2>1. End(t) \/ pc'[t] = "cleanrm"
    BY <1>15, <1>a DEF CleanupStop, CleanupDestroy, CleanupRemove,
       CleanupNothing, Finalize, TypeOK, Goto
  <2> QED
    BY <1>a, <2>1 DEF Post, StopPoints, DeletePoints, Owning, AfterMark
<1> QED
  BY <1>1, <1>2, <1>3, <1>4, <1>5, <1>6, <1>7, <1>8, <1>9, <1>10, <1>11,
     <1>12, <1>13, <1>14, <1>15 DEF Deploy

LEMMA HandlePost ==
  ASSUME OneStop, Posts, NEW t \in Tasks, Handle(t)
  PROVE  Post(t)'
<1>a. TypeOK /\ Post(t) /\ (End(t) => Post(t)') /\ mem[t] \in Row /\ ~Fault
  BY EndPost, NoFaults DEF Posts, TypeOK
<1>1. CASE StopClaim(t) \/ StopReclaim(t) \/ StopFailClaim(t) \/ DeleteClaim(t)
  BY <1>1, <1>a, ClaimPost DEF StopClaim, StopReclaim, StopFailClaim, DeleteClaim,
     Post, StopPoints, DeletePoints, AfterMark
<1>2. CASE StopMark(t)
  <2>1. \/ End(t)
        \/ pc'[t] = "halt" /\ mem'[t] = [mem[t] EXCEPT !.status = "stopping"]
    BY <1>2, <1>a DEF StopMark, Save, TypeOK, Goto
  <2>2. [mem[t] EXCEPT !.status = "stopping"].status = "stopping" /\ t \in Stoppers
    BY <1>2, <1>a DEF Row, StopMark, Post, StopPoints
  <2> QED
    BY <1>a, <2>1, <2>2 DEF Post, StopPoints, DeletePoints, Owning, AfterMark
<1>3. CASE StopHalt(t)
  <2>1. pc'[t] \in {"stopclaim", "stopfail"} /\ mem' = mem
    BY <1>3, <1>a DEF StopHalt, TypeOK, Goto, locals
  <2>2. mem[t].status = "stopping" /\ t \in Stoppers
    BY <1>3, <1>a DEF StopHalt, Post, AfterMark, StopPoints
  <2> QED
    BY <2>1, <2>2 DEF Post, StopPoints, DeletePoints, Owning, AfterMark
<1>4. CASE DeleteMark(t) \/ DeleteDown(t) \/ DeleteFiles(t)
  <2>1. End(t) \/ pc'[t] \in {"destroy", "remove", "delrow"}
    BY <1>4, <1>a DEF DeleteMark, DeleteDown, DeleteFiles, Save, TypeOK, Goto
  <2>2. t \in Deleters
    BY <1>4, <1>a DEF DeleteMark, DeleteDown, DeleteFiles, Post, DeletePoints
  <2> QED
    BY <1>a, <2>1, <2>2 DEF Post, StopPoints, DeletePoints, Owning, AfterMark
<1>5. CASE \/ StopDone(t) \/ StopFailSave(t) \/ DeleteRow(t) \/ DeleteFailSave(t)
           \/ PatchSave(t)
  BY <1>5, <1>a DEF StopDone, StopFailSave, DeleteRow, DeleteFailSave, PatchSave,
     SaveAndEnd
<1>6. CASE DeleteFailClaim(t)
  BY <1>6, <1>a DEF DeleteFailClaim, Post
<1> QED
  BY <1>1, <1>2, <1>3, <1>4, <1>5, <1>6 DEF Handle

LEMMA PostsKept ==
  ASSUME OneStop, Posts, TypeOK', NEW t \in Tasks, Arrive(t) \/ Work(t)
  PROVE  Posts'
<1>1. Alone(t) /\ Post(t)'
  BY WorkAlone, ArrivePost, DeployPost, HandlePost DEF Work, Posts
<1>2. ASSUME NEW u \in Tasks, u # t PROVE Post(u)'
  BY <1>1, <1>2 DEF Posts, Alone, Post
<1> QED
  BY <1>1, <1>2 DEF Posts

(***************************************************************************)
(* What a step does to the row.                                            *)
(***************************************************************************)
RowMoves(t) ==
  \/ row' = row
  \/ row'.status = "deleted"
  \/ /\ row.status # "deleted"
     /\ \/ row'.status \in {"pending", "in_progress", "running", "error",
                             "destroying"}
        \/ row'.status \in Halted /\ pc[t] \in StopPoints

LEMMA SaveProgressRow ==
  ASSUME Posts, NEW t \in Tasks, pc[t] \in Owning, NEW cleans,
         NEW point, NEW name,
         SaveProgress(t, mem[t], cleans, point, name)
  PROVE  \/ row' = row
         \/ Active(row.status) /\ Active(row'.status)
<1>1. CASE Active(row.status)
  <2>1. row' = Latest(mem[t])
    BY <1>1 DEF SaveProgress
  <2>2. Latest(mem[t]).status = mem[t].status
    BY DEF Latest, Posts, TypeOK, Row
  <2>3. Active(mem[t].status)
    BY DEF Posts, Post
  <2> QED
    BY <1>1, <2>1, <2>2, <2>3
<1> QED
  BY <1>1 DEF SaveProgress

LEMMA RowStep ==
  ASSUME OneStop, Posts, NEW t \in Tasks, Arrive(t) \/ Work(t)
  PROVE  RowMoves(t)
<1>a. TypeOK /\ Post(t) /\ mem[t] \in Row /\ row \in Row
  BY DEF Posts, TypeOK
<1>b. {"begin", "save", "finish", "progress", "finalize", "fail", "failsave"}
        \subseteq Owning
  BY DEF Owning
<1>c. Active(row.status) /\ Active(row'.status) => RowMoves(t)
  BY DEF RowMoves, Active
<1>1. CASE Arrive(t)
  BY <1>1 DEF RowMoves, Arrive, CreateLookup, OperationRequest, StopRequest,
     DeleteRequest, PatchRead
<1>2. CASE \/ RolloutClaim(t) \/ StartClaim(t) \/ HardRestartClaim(t)
           \/ HardRestartDown(t) \/ HardRestartReclaim(t) \/ StartPrepare(t)
           \/ StepCheck(t) \/ RunRender(t) \/ RunHostPrerequisites(t)
           \/ RunSourceSync(t) \/ RunBuilds(t) \/ RunDeployWrite(t)
           \/ RunComposeUp(t) \/ RunObserve(t) \/ Recheck(t) \/ LastCheck(t)
           \/ StartKeep(t) \/ FailCheck(t) \/ FailKeep(t) \/ CleanupStop(t)
           \/ CleanupDestroy(t) \/ CleanupRemove(t) \/ CleanupNothing(t)
  BY <1>2 DEF RowMoves, RolloutClaim, StartClaim, HardRestartClaim,
     HardRestartDown, HardRestartReclaim, StartPrepare, StepCheck, RunRender,
     RunHostPrerequisites, RunSourceSync, RunBuilds, RunDeployWrite,
     RunComposeUp, RunObserve, Recheck, LastCheck, StartKeep, FailCheck,
     FailKeep, CleanupStop, CleanupDestroy, CleanupRemove, CleanupNothing
<1>3. CASE CreateInsert(t)
  BY <1>3 DEF RowMoves, CreateInsert
<1>4. CASE DeployStart(t) \/ StartRecord(t)
  <2>1. \/ row' = row
        \/ /\ row' = Latest([mem[t] EXCEPT !.status = "in_progress"])
           /\ row.status \in StartAllowed
    BY <1>4 DEF DeployStart, StartRecord, StartDeployment
  <2>2. Latest([mem[t] EXCEPT !.status = "in_progress"]).status = "in_progress"
    BY <1>a DEF Latest, Row
  <2> QED
    BY <2>1, <2>2 DEF RowMoves, StartAllowed
<1>5. CASE StepBegin(t) \/ SaveBuilds(t) \/ StepFinish(t) \/ Progress(t)
  <2>1. row' = row \/ (Active(row.status) /\ Active(row'.status))
    BY <1>5, <1>b, SaveProgressRow DEF StepBegin, SaveBuilds, StepFinish, Progress
  <2> QED
    BY <1>c, <2>1 DEF RowMoves
<1>6. CASE Finalize(t)
  <2>1. \/ row' = row
        \/ /\ row' = Latest([mem[t] EXCEPT !.status = "running", !.err = FALSE])
           /\ Active(row.status)
    BY <1>6 DEF Finalize
  <2>2. Latest([mem[t] EXCEPT !.status = "running", !.err = FALSE]).status
          = "running"
    BY <1>a DEF Latest, Row
  <2> QED
    BY <2>1, <2>2 DEF RowMoves, Active
<1>7. CASE FailRecord(t)
  <2>1. row' = row \/ (row' = Latest(mem[t]) /\ Active(row.status))
    BY <1>7 DEF FailRecord
  <2>2. Latest(mem[t]).status = mem[t].status /\ Active(mem[t].status)
    BY <1>7, <1>a, <1>b DEF Latest, Row, FailRecord, Post
  <2> QED
    BY <1>c, <2>1, <2>2 DEF RowMoves
<1>8. ASSUME NEW pg, Exists, row' = pg,
             \/ pg.status \in {"error", "destroying"}
             \/ pg.status \in Halted /\ pc[t] \in StopPoints
      PROVE  RowMoves(t)
  BY <1>8 DEF RowMoves, Exists, Stored
<1>9. CASE FailSave(t) \/ StopFailSave(t) \/ DeleteFailSave(t)
  <2>1. \/ row' = row
        \/ row' = [mem[t] EXCEPT !.status = "error", !.err = TRUE] /\ Exists
    BY <1>9 DEF FailSave, StopFailSave, DeleteFailSave, SaveAndEnd
  <2>2. [mem[t] EXCEPT !.status = "error", !.err = TRUE].status = "error"
    BY <1>a DEF Row
  <2> QED
    BY <1>8, <2>1, <2>2 DEF RowMoves
<1>10. CASE \/ StopClaim(t) \/ StopHalt(t) \/ StopReclaim(t) \/ StopFailClaim(t)
            \/ DeleteClaim(t) \/ DeleteDown(t) \/ DeleteFiles(t)
            \/ DeleteFailClaim(t)
  BY <1>10 DEF RowMoves, StopClaim, StopHalt, StopReclaim, StopFailClaim,
     DeleteClaim, DeleteDown, DeleteFiles, DeleteFailClaim
<1>11. CASE StopMark(t) \/ StopDone(t)
  <2>1. /\ pc[t] \in StopPoints
        /\ \/ row' = row
           \/ /\ Exists
              /\ \/ row' = [mem[t] EXCEPT !.status = "stopping"]
                 \/ row' = [mem[t] EXCEPT !.status = "stopped"]
    BY <1>11 DEF StopMark, StopDone, Save, SaveAndEnd, StopPoints
  <2>2. /\ [mem[t] EXCEPT !.status = "stopping"].status \in Halted
        /\ [mem[t] EXCEPT !.status = "stopped"].status \in Halted
    BY <1>a DEF Row, Halted
  <2> QED
    BY <1>8, <2>1, <2>2 DEF RowMoves
<1>12. CASE DeleteMark(t)
  <2>1. \/ row' = row
        \/ /\ Exists
           /\ row' = [mem[t] EXCEPT !.status = "destroying", !.err = FALSE]
    BY <1>12 DEF DeleteMark, Save
  <2>2. [mem[t] EXCEPT !.status = "destroying", !.err = FALSE].status
          = "destroying"
    BY <1>a DEF Row
  <2> QED
    BY <1>8, <2>1, <2>2 DEF RowMoves
<1>13. CASE DeleteRow(t)
  BY <1>13 DEF RowMoves, DeleteRow, Blank
<1>14. CASE PatchSave(t)
  BY <1>14, <1>a DEF PatchSave, Post
<1> QED
  BY <1>1, <1>2, <1>3, <1>4, <1>5, <1>6, <1>7, <1>9, <1>10, <1>11, <1>12,
     <1>13, <1>14 DEF Work, Deploy, Handle

(***************************************************************************)
(* The stop being over, and a deletion being under way, last.              *)
(***************************************************************************)
LEMMA OverKept ==
  ASSUME OneStop, Posts, Over, NEW t \in Tasks, Arrive(t) \/ Work(t)
  PROVE  Over'
<1>a. TypeOK /\ Post(t) /\ mem[t] \in Row /\ row \in Row /\ Alone(t)
  BY WorkAlone DEF Posts, TypeOK
<1>b. pc[t] # "done" /\ pc[t] \notin StopPoints
  <2>1. pc[t] # "done"
    BY DEF Arrive, Work, Deploy, Handle, CreateLookup, OperationRequest,
     StopRequest, DeleteRequest, PatchRead, CreateInsert,
     RolloutClaim, StartClaim, HardRestartClaim, HardRestartDown,
     HardRestartReclaim, DeployStart, StartPrepare, StartRecord, StepBegin,
     StepCheck, RunRender, RunHostPrerequisites, RunSourceSync, RunBuilds,
     SaveBuilds, RunDeployWrite, RunComposeUp, RunObserve, StepFinish, Progress,
     Recheck, LastCheck, StartKeep, Finalize, FailRecord, FailCheck, FailKeep,
     FailSave, CleanupStop, CleanupDestroy, CleanupRemove, CleanupNothing,
     StopClaim, StopMark, StopHalt, StopReclaim, StopDone, StopFailClaim,
     StopFailSave, DeleteClaim, DeleteMark, DeleteDown, DeleteFiles, DeleteRow,
     DeleteFailClaim, DeleteFailSave, PatchSave
  <2> QED
    BY <1>a, <2>1 DEF Over, Post, StopPoints
<1>1. \A p \in Stoppers : pc'[p] = "done"
  <2>1. t \notin Stoppers
    BY <1>b DEF Over
  <2>2. Stoppers \subseteq Tasks
    BY DEF Tasks
  <2> QED
    BY <1>a, <2>1, <2>2 DEF Over, Alone
<1>2. row'.status \notin Halted
  BY <1>b, RowStep DEF RowMoves, Over, Halted
<1> QED
  BY <1>1, <1>2 DEF Over

LEMMA DoomedKept ==
  ASSUME OneStop, Posts, Doomed, NEW t \in Tasks, Arrive(t) \/ Work(t)
  PROVE  Doomed'
<1>a. TypeOK /\ Post(t) /\ Alone(t)
  BY WorkAlone DEF Posts
<1>1. CASE row.status = "deleted"
  BY <1>1, RowStep DEF RowMoves, Doomed
<1>2. CASE row.status # "deleted"
  <2>1. PICK d \in Tasks : pc[d] \in Erasing
    BY <1>2 DEF Doomed
  <2>2. CASE d # t
    BY <1>a, <2>1, <2>2 DEF Alone, Doomed
  <2>3. CASE d = t
    <3>1. DeleteDown(t) \/ DeleteFiles(t) \/ DeleteRow(t)
      BY <2>1, <2>3 DEF Erasing, Arrive, Work, Deploy, Handle, CreateLookup,
     OperationRequest, StopRequest, DeleteRequest, PatchRead, CreateInsert,
     RolloutClaim, StartClaim, HardRestartClaim, HardRestartDown,
     HardRestartReclaim, DeployStart, StartPrepare, StartRecord, StepBegin,
     StepCheck, RunRender, RunHostPrerequisites, RunSourceSync, RunBuilds,
     SaveBuilds, RunDeployWrite, RunComposeUp, RunObserve, StepFinish, Progress,
     Recheck, LastCheck, StartKeep, Finalize, FailRecord, FailCheck, FailKeep,
     FailSave, CleanupStop, CleanupDestroy, CleanupRemove, CleanupNothing,
     StopClaim, StopMark, StopHalt, StopReclaim, StopDone, StopFailClaim,
     StopFailSave, DeleteClaim, DeleteMark, DeleteFailClaim, DeleteFailSave,
     PatchSave
    <3>2. ~Fault
      BY <1>a, NoFaults
    <3>3. \/ pc'[t] \in {"remove", "delrow"}
          \/ row'.status = "deleted"
      BY <1>a, <3>1, <3>2 DEF DeleteDown, DeleteFiles, DeleteRow, Blank, Goto,
         TypeOK
    <3> QED
      BY <3>3 DEF Doomed, Erasing
  <2> QED
    BY <2>2, <2>3
<1> QED
  BY <1>1, <1>2

(***************************************************************************)
(* A step that disturbs no other task. Every step of every task but the    *)
(* stop itself is one, unless it ends the stop or begins the deletion.     *)
(***************************************************************************)
Ordinary(t) ==
  /\ Alone(t)
  /\ pc[t] # "done" /\ pc[t] \notin AfterMark /\ pc'[t] \notin AfterMark
  /\ IF row.status \in Halted THEN row' = row
     ELSE row'.status \notin Halted \cup {"destroying", "deleted"}
  /\ rt.compose # None => rt'.compose # None
  /\ rt'.up # None => rt'.compose # None
  /\ rt.up # None => rt'.up # None \/ row.status \in Halted
  /\ rt'.up # None => rt.up # None \/ Cleans(t)'
  /\ row.status \in Halted /\ Cleans(t) => Cleans(t)' \/ rt'.up = None
  /\ Works(t)'

LEMMA OrdinarySteady ==
  ASSUME TypeOK, Steady, NEW t \in Tasks, Ordinary(t)
  PROVE  Steady'
<1>1. row'.status \notin {"destroying", "deleted"}
  BY DEF Ordinary, Steady
<1>2. row'.status \in Halted => row' = row
  BY DEF Ordinary, Halted
<1>3. row'.status = "stopping" => \E p \in Tasks : pc'[p] \in AfterMark
  BY <1>2 DEF Halted, Steady, Ordinary, Alone
<1>4. row'.status = "stopped" => \A p \in Stoppers : pc'[p] = "done"
  <2> SUFFICES ASSUME row'.status = "stopped", NEW p \in Stoppers
               PROVE  pc'[p] = "done"
    OBVIOUS
  <2>1. pc[p] = "done"
    BY <1>2 DEF Halted, Steady
  <2>2. p \in Tasks /\ p # t
    BY <2>1 DEF Tasks, Ordinary
  <2> QED
    BY <2>1, <2>2 DEF Ordinary, Alone
<1>5. rt'.up # None => rt'.compose # None
  BY DEF Ordinary
<1>6. ASSUME Brought', rt'.up # None PROVE \E u \in Tasks : Cleans(u)'
  <2>1. Brought /\ row.status \in Halted
    <3>1. CASE row'.status = "stopped"
      BY <1>2, <3>1 DEF Halted, Brought
    <3>2. CASE row'.status # "stopped"
      <4>1. PICK p \in Tasks : pc'[p] \in {"stopclaim", "stopped"}
        BY <1>6, <3>2 DEF Brought
      <4>2. p # t /\ pc[p] = pc'[p]
        BY <4>1 DEF Ordinary, Alone, AfterMark
      <4>3. row.status = "stopping"
        BY <4>1, <4>2 DEF Steady, Works, AfterMark
      <4> QED
        BY <4>1, <4>2, <4>3 DEF Brought, Halted
    <3> QED
      BY <3>1, <3>2
  <2>2. CASE rt.up = None
    BY <1>6, <2>2 DEF Ordinary
  <2>3. CASE rt.up # None
    <3>1. PICK u \in Tasks : Cleans(u)
      BY <2>1, <2>3 DEF Steady
    <3>2. CASE u = t
      BY <1>6, <2>1, <3>1, <3>2 DEF Ordinary
    <3>3. CASE u # t
      BY <3>1, <3>3 DEF Ordinary, Alone, Cleans, PastUp
    <3> QED
      BY <3>2, <3>3
  <2> QED
    BY <2>2, <2>3
<1>7. ASSUME NEW u \in Tasks PROVE Works(u)'
  <2>1. CASE u = t
    BY <2>1 DEF Ordinary
  <2>2. CASE u # t
    <3>1. Works(u)
      BY DEF Steady
    <3>2. /\ pc'[u] = pc[u] /\ step'[u] = step[u] /\ ren'[u] = ren[u]
          /\ sup'[u] = sup[u]
      BY <2>2 DEF Ordinary, Alone
    <3>3. /\ row.status \in Halted => row' = row
          /\ rt.compose # None => rt'.compose # None
          /\ rt.up # None => rt'.up # None \/ row.status \in Halted
      BY DEF Ordinary
    <3>4. pc[u] \in Owning => Progressing(u)'
      BY <3>1, <3>2, <3>3 DEF Works, Progressing, WrittenBy, PastUp
    <3>5. pc[u] \in AfterMark => row'.status = "stopping"
      BY <3>1, <3>3 DEF Works, Halted
    <3> QED
      BY <3>1, <3>2, <3>3, <3>4, <3>5 DEF Works
  <2> QED
    BY <2>1, <2>2
<1> QED
  BY <1>1, <1>3, <1>4, <1>5, <1>6, <1>7 DEF Steady

(***************************************************************************)
(* A step that leaves the row and the host alone, from a point at which    *)
(* the task had no containers to take down.                                *)
(***************************************************************************)
LEMMA PlainOrdinary ==
  ASSUME Steady, NEW t \in Tasks, Alone(t), row' = row, rt' = rt,
         pc[t] \notin AfterMark, pc[t] # "done", ~Cleans(t),
         pc'[t] \notin Owning \cup AfterMark \cup {"cleanup", "cleanrm"}
  PROVE  Ordinary(t)
BY DEF Ordinary, Steady, Works, Halted

LEMMA SupersededOrdinary ==
  ASSUME Posts, Steady, NEW t \in Tasks, NEW cleans, Superseded(t, cleans),
         pc[t] \in Owning, PastUp(step[t], pc[t]) => cleans, row' = row, rt' = rt
  PROVE  Ordinary(t)
<1>a. TypeOK /\ Alone(t)
  BY SupersededAlone DEF Posts
<1>b. pc[t] # "done" /\ pc[t] \notin AfterMark \cup {"cleanup"}
  BY DEF Owning, AfterMark
<1>1. CASE End(t)
  <2>1. pc'[t] = "done" /\ (row.status \in Halted => ~cleans)
    <3>1. pc'[t] = "done"
      BY <1>a, <1>1 DEF End, Goto, TypeOK
    <3>2. (row.status \in Halted => ~cleans)
      BY <1>a, <3>1 DEF Superseded, Goto, TypeOK, Exists, Stored, Halted
    <3> QED
      BY <3>1, <3>2
  <2>2. row.status \in Halted => ~Cleans(t)
    BY <1>b, <2>1 DEF Cleans
  <2> QED
    BY <1>a, <1>b, <2>1, <2>2
       DEF Ordinary, Steady, Works, Halted, Owning, AfterMark
<1>2. CASE ~End(t)
  <2>1. pc'[t] = "cleanup" /\ sup'[t] = row.status
    BY <1>a, <1>2 DEF Superseded, Goto, TypeOK
  <2>2. row.status # "destroying"
    BY DEF Steady
  <2>3. row.status \in Halted => Cleans(t)'
    BY <2>1 DEF Cleans
  <2>4. Works(t)'
    BY <2>1, <2>2 DEF Works, Owning, AfterMark
  <2> QED
    BY <1>a, <1>b, <2>1, <2>3, <2>4 DEF Ordinary, Steady, AfterMark, Halted
<1> QED
  BY <1>1, <1>2

(***************************************************************************)
(* The points and steps a deployment may go on to.                         *)
(***************************************************************************)
Onward(t, point, name) ==
  /\ name # "compose_start"
  /\ point \in {"begin", "check", "run", "finish", "progress", "recheck",
                "lastcheck", "finalize"}
  /\ point = "progress" => name = "host_prerequisites"
  /\ point \in {"recheck", "lastcheck", "finalize"} => name = "runtime_observe"
  /\ WrittenBy(name, point) => ren[t] # None
  /\ PastUp(name, point) => /\ rt.compose # None
                            /\ row.status \notin Halted => rt.up # None

LEMMA OnwardOrdinary ==
  ASSUME TypeOK, Steady, NEW t \in Tasks, pc[t] \in Owning, Alone(t),
         NEW point, NEW name, Onward(t, point, name),
         Active(row.status), Active(row'.status), rt' = rt,
         pc'[t] = point, step'[t] = name, ren'[t] = ren[t]
  PROVE  Ordinary(t)
<1>1. row.status \notin Halted /\ row'.status \notin Halted \cup {"destroying", "deleted"}
  BY DEF Active, Halted
<1>2. pc[t] # "done" /\ pc[t] \notin AfterMark
  BY DEF Owning, AfterMark
<1>3. pc'[t] \in Owning /\ pc'[t] \notin AfterMark \cup {"cleanup", "cleanrm"}
  BY DEF Onward, Owning, AfterMark
<1>4. Progressing(t)'
  BY <1>1 DEF Onward, Progressing, WrittenBy, PastUp
<1>5. Works(t)'
  BY <1>3, <1>4 DEF Works
<1> QED
  BY <1>1, <1>2, <1>3, <1>5 DEF Ordinary, Steady

LEMMA SaveProgressOrdinary ==
  ASSUME Posts, Steady, NEW t \in Tasks, pc[t] \in Owning, NEW cleans,
         NEW point, NEW name, Onward(t, point, name),
         PastUp(step[t], pc[t]) => cleans, rt' = rt,
         SaveProgress(t, mem[t], cleans, point, name)
  PROVE  Ordinary(t)
<1>a. TypeOK /\ Alone(t)
  BY SaveProgressAlone DEF Posts
<1>1. CASE Active(row.status)
  <2>1. row' = Latest(mem[t]) /\ pc'[t] = point /\ step'[t] = name
        /\ ren'[t] = ren[t]
    BY <1>1, <1>a DEF SaveProgress, Goto, TypeOK
  <2>2. Latest(mem[t]).status = mem[t].status
    BY DEF Latest, Posts, TypeOK, Row
  <2>3. Active(row'.status)
    BY <2>1, <2>2 DEF Posts, Post
  <2> QED
    BY <1>a, <1>1, <2>1, <2>3, OnwardOrdinary
<1>2. CASE ~Active(row.status)
  BY <1>2, SupersededOrdinary DEF SaveProgress
<1> QED
  BY <1>1, <1>2

LEMMA RequireActiveOrdinary ==
  ASSUME Posts, Steady, NEW t \in Tasks, pc[t] \in Owning, NEW cleans, NEW pg,
         NEW point, Onward(t, point, step[t]),
         PastUp(step[t], pc[t]) => cleans, rt' = rt, row' = row,
         RequireActive(t, pg, cleans, point, step[t])
  PROVE  Ordinary(t)
<1>a. TypeOK /\ Alone(t)
  BY RequireActiveAlone DEF Posts
<1>1. CASE Active(row.status)
  <2>1. pc'[t] = point /\ step'[t] = step[t] /\ ren'[t] = ren[t]
    BY <1>1, <1>a DEF RequireActive, Goto, TypeOK
  <2> QED
    BY <1>a, <1>1, <2>1, OnwardOrdinary
<1>2. CASE ~Active(row.status)
  BY <1>2, SupersededOrdinary DEF RequireActive
<1> QED
  BY <1>1, <1>2

(***************************************************************************)
(* The steps of a deployment, one lemma per group of actions.              *)
(***************************************************************************)
LEMMA StepOrdinary ==
  ASSUME Posts, Steady, NEW t \in Tasks,
         \/ StepBegin(t) \/ StepCheck(t) \/ SaveBuilds(t) \/ StepFinish(t)
         \/ Progress(t) \/ Recheck(t) \/ LastCheck(t) \/ StartKeep(t)
  PROVE  Ordinary(t)
<1>a. TypeOK /\ step[t] \in Steps
  BY DEF Posts, TypeOK
<1>b. pc[t] \in Owning
  BY DEF StepBegin, StepCheck, SaveBuilds, StepFinish, Progress, Recheck,
         LastCheck, StartKeep, Owning
<1>c. Progressing(t)
  BY <1>b DEF Steady, Works
<1>d. rt' = rt
  BY DEF StepBegin, StepCheck, SaveBuilds, StepFinish, Progress, Recheck,
         LastCheck, StartKeep
<1>1. CASE StepBegin(t)
  <2>1. Onward(t, "check", step[t])
    BY <1>1, <1>c DEF StepBegin, Progressing, Onward, WrittenBy, PastUp
  <2>2. PastUp(step[t], pc[t]) => step[t] = "runtime_observe"
    BY <1>1 DEF StepBegin, PastUp
  <2> QED
    BY <1>1, <1>b, <1>d, <2>1, <2>2, SaveProgressOrdinary DEF StepBegin
<1>2. CASE StepCheck(t)
  <2>1. Onward(t, "run", step[t])
    BY <1>2, <1>c DEF StepCheck, Progressing, Onward, WrittenBy, PastUp
  <2>2. PastUp(step[t], pc[t]) => step[t] = "runtime_observe"
    BY <1>2 DEF StepCheck, PastUp
  <2> QED
    BY <1>2, <1>b, <1>d, <2>1, <2>2, RequireActiveOrdinary DEF StepCheck
<1>3. CASE SaveBuilds(t)
  <2>1. Onward(t, "finish", step[t]) /\ ~PastUp(step[t], pc[t])
    BY <1>3, <1>c DEF SaveBuilds, Progressing, Onward, WrittenBy, PastUp
  <2> QED
    BY <1>3, <1>b, <1>d, <2>1, SaveProgressOrdinary DEF SaveBuilds
<1>4. CASE StepFinish(t)
  <2>1. Onward(t, AfterFinish(step[t]), NextStep(step[t]))
    <3>1. pc[t] = "finish" /\ step[t] \in Steps \ {"compose_start"}
      BY <1>4, <1>a, <1>c DEF StepFinish, Progressing
    <3>2. WrittenBy(step[t], "finish") => ren[t] # None
      BY <3>1, <1>c DEF Progressing
    <3>3. PastUp(step[t], "finish") => /\ rt.compose # None
                                       /\ row.status \notin Halted => rt.up # None
      BY <3>1, <1>c DEF Progressing
    <3>4. CASE step[t] = "compose_render"
      BY <3>2, <3>4 DEF Onward, AfterFinish, NextStep, WrittenBy, PastUp
    <3>5. CASE step[t] = "host_prerequisites"
      BY <3>2, <3>5 DEF Onward, AfterFinish, NextStep, WrittenBy, PastUp
    <3>6. CASE step[t] = "source_sync"
      BY <3>2, <3>6 DEF Onward, AfterFinish, NextStep, WrittenBy, PastUp
    <3>7. CASE step[t] = "builds"
      BY <3>2, <3>7 DEF Onward, AfterFinish, NextStep, WrittenBy, PastUp
    <3>8. CASE step[t] = "compose_deploy"
      BY <3>3, <3>8 DEF Onward, AfterFinish, NextStep, WrittenBy, PastUp
    <3>9. CASE step[t] = "runtime_observe"
      BY <3>3, <3>9 DEF Onward, AfterFinish, NextStep, WrittenBy, PastUp
    <3> QED
      BY <3>1, <3>4, <3>5, <3>6, <3>7, <3>8, <3>9 DEF Steps
  <2>2. PastUp(step[t], pc[t]) => step[t] \in {"compose_deploy", "runtime_observe"}
    BY <1>c DEF PastUp, Progressing
  <2> QED
    BY <1>4, <1>b, <1>d, <2>1, <2>2, SaveProgressOrdinary DEF StepFinish
<1>5. CASE Progress(t)
  <2>1. Onward(t, "begin", step[t]) /\ ~PastUp(step[t], pc[t])
    BY <1>5, <1>c DEF Progress, Progressing, Onward, WrittenBy, PastUp
  <2> QED
    BY <1>5, <1>b, <1>d, <2>1, SaveProgressOrdinary DEF Progress
<1>6. CASE Recheck(t)
  <2>1. Onward(t, "begin", step[t])
    BY <1>6, <1>c DEF Recheck, Progressing, Onward, WrittenBy, PastUp
  <2> QED
    BY <1>6, <1>b, <1>d, <2>1, RequireActiveOrdinary DEF Recheck
<1>7. CASE LastCheck(t)
  <2>1. Onward(t, "finalize", step[t])
    BY <1>7, <1>c DEF LastCheck, Progressing, Onward, WrittenBy, PastUp
  <2> QED
    BY <1>7, <1>b, <1>d, <2>1, RequireActiveOrdinary DEF LastCheck
<1>8. CASE StartKeep(t)
  BY <1>8, <1>c DEF StartKeep, Progressing
<1> QED
  BY <1>1, <1>2, <1>3, <1>4, <1>5, <1>6, <1>7, <1>8

LEMMA FinalizeOrdinary ==
  ASSUME Posts, Steady, NEW t \in Tasks, Finalize(t)
  PROVE  Ordinary(t)
<1>a. TypeOK /\ mem[t] \in Row /\ row \in Row
  BY DEF Posts, TypeOK
<1>1. pc[t] = "finalize" /\ pc'[t] = "done" /\ rt' = rt /\ Alone(t)
  BY <1>a, EndAlone DEF Finalize, End, Goto, TypeOK
<1>2. \/ row' = row
      \/ Active(row.status) /\ row'.status = "running"
  BY <1>a DEF Finalize, Latest, Row
<1>3. ~Cleans(t)
  BY <1>1 DEF Cleans
<1>4. Works(t)'
  BY <1>1 DEF Works, Owning, AfterMark
<1> QED
  BY <1>1, <1>2, <1>3, <1>4 DEF Ordinary, Steady, AfterMark, Halted, Active

LEMMA RunOrdinary ==
  ASSUME Posts, Steady, NEW t \in Tasks,
         \/ RunRender(t) \/ RunHostPrerequisites(t) \/ RunSourceSync(t)
         \/ RunBuilds(t) \/ RunDeployWrite(t) \/ RunComposeUp(t)
         \/ RunObserve(t)
  PROVE  Ordinary(t)
<1>a. /\ TypeOK /\ mem[t] \in Row /\ step[t] \in Steps /\ rt \in Runtime
      /\ Alone(t)
  BY WorkAlone DEF Posts, TypeOK, Work, Deploy
<1>b. row' = row
  BY DEF RunRender, RunHostPrerequisites, RunSourceSync, RunBuilds,
         RunDeployWrite, RunComposeUp, RunObserve
<1>c. pc[t] \in {"run", "up"} /\ pc[t] \in Owning
  BY DEF RunRender, RunHostPrerequisites, RunSourceSync, RunBuilds,
         RunDeployWrite, RunComposeUp, RunObserve, Owning
<1>d. Progressing(t)
  BY <1>c DEF Steady, Works
<1>e. pc[t] # "done" /\ pc[t] \notin AfterMark
  BY <1>c DEF AfterMark
<1>f. row.status \notin {"destroying", "deleted"} /\ (rt.up # None => rt.compose # None)
  BY DEF Steady
<1>g. ASSUME pc'[t] \in {"up", "save", "finish", "fail"}, Progressing(t)',
             rt.compose # None => rt'.compose # None,
             rt'.up # None => rt'.compose # None,
             rt.up # None => rt'.up # None \/ row.status \in Halted,
             rt'.up # None => rt.up # None \/ Cleans(t)',
             Cleans(t) => Cleans(t)'
      PROVE  Ordinary(t)
  <2>1. Works(t)'
    BY <1>g DEF Works, AfterMark
  <2>2. pc'[t] \notin AfterMark
    BY <1>g DEF AfterMark
  <2> QED
    BY <1>a, <1>b, <1>e, <1>f, <1>g, <2>1, <2>2 DEF Ordinary, Halted
<1>h. Cleans(t) => PastUp(step[t], pc[t])
  BY <1>c DEF Cleans
<1>i. {"up", "save", "finish", "fail"} \subseteq Owning
  BY DEF Owning
<1>1. CASE RunRender(t)
  <2>1. pc'[t] = "finish" /\ step'[t] = "compose_render" /\ rt' = rt
        /\ ren'[t] = <<ps[t], mem[t].over>>
    BY <1>1, <1>a DEF RunRender, TypeOK, Goto
  <2>2. ren'[t] # None
    <3>1. ren'[t] \in Rendered
      BY <1>a, <2>1 DEF Rendered, TypeOK, Row
    <3> QED
      BY <3>1, NoneAssumption
  <2>3. ~Cleans(t)
    BY <1>1, <1>h DEF RunRender, PastUp
  <2>4. Progressing(t)'
    BY <2>1, <2>2 DEF Progressing, WrittenBy, PastUp
  <2> QED
    BY <1>f, <1>g, <2>1, <2>3, <2>4
<1>2. CASE RunHostPrerequisites(t) \/ RunSourceSync(t)
  <2>1. /\ pc'[t] = "finish" /\ step'[t] = step[t] /\ ren'[t] = ren[t]
        /\ pc[t] = "run" /\ step[t] \in {"host_prerequisites", "source_sync"}
    BY <1>2, <1>a DEF RunHostPrerequisites, RunSourceSync, TypeOK, Goto, locals
  <2>2. rt'.compose = rt.compose /\ rt'.up = rt.up
    BY <1>2, <1>a DEF RunHostPrerequisites, RunSourceSync, Runtime
  <2>3. ~Cleans(t)
    BY <1>h, <2>1 DEF PastUp
  <2>4. Progressing(t)'
    BY <1>d, <2>1 DEF Progressing, WrittenBy, PastUp
  <2> QED
    BY <1>f, <1>g, <2>1, <2>2, <2>3, <2>4
<1>3. CASE RunBuilds(t)
  <2>1. /\ pc'[t] = "save" /\ step'[t] = step[t] /\ ren'[t] = ren[t]
        /\ pc[t] = "run" /\ step[t] = "builds" /\ rt' = rt
    BY <1>3, <1>a DEF RunBuilds, TypeOK, Goto
  <2>3. ~Cleans(t)
    BY <1>h, <2>1 DEF PastUp
  <2>4. Progressing(t)'
    BY <1>d, <2>1 DEF Progressing, WrittenBy, PastUp
  <2> QED
    BY <1>f, <1>g, <2>1, <2>3, <2>4
<1>4. CASE RunDeployWrite(t)
  <2>1. /\ pc'[t] = "up" /\ step'[t] = step[t] /\ ren'[t] = ren[t]
        /\ pc[t] = "run" /\ step[t] = "compose_deploy"
    BY <1>4, <1>a DEF RunDeployWrite, TypeOK, Goto, locals
  <2>2. rt'.compose = ren[t] /\ rt'.up = rt.up
    BY <1>4, <1>a DEF RunDeployWrite, Runtime
  <2>3. ~Cleans(t)
    BY <1>h, <2>1 DEF PastUp
  <2>4. ren[t] # None
    BY <1>d, <2>1 DEF Progressing, WrittenBy
  <2>5. Progressing(t)'
    BY <2>1, <2>2, <2>4 DEF Progressing, WrittenBy, PastUp
  <2> QED
    BY <1>f, <1>g, <2>1, <2>2, <2>3, <2>4, <2>5
<1>5. CASE RunComposeUp(t)
  <2>1. step[t] = "compose_deploy" /\ rt.compose # None /\ pc[t] = "up"
    BY <1>5, <1>d DEF RunComposeUp, Progressing
  <2>2. /\ pc'[t] = "finish" /\ step'[t] = step[t] /\ ren'[t] = ren[t]
    BY <1>5, <1>a, <2>1 DEF RunComposeUp, ComposeMissing, TypeOK, Goto, locals
  <2>3. rt'.compose = rt.compose /\ rt'.up = rt.compose
    BY <1>5, <1>a, <2>1 DEF RunComposeUp, ComposeMissing, ComposeUp, Runtime
  <2>4. Cleans(t)'
    BY <1>i, <2>1, <2>2 DEF Cleans, PastUp
  <2>5. Progressing(t)'
    BY <1>d, <2>1, <2>2, <2>3 DEF Progressing, WrittenBy, PastUp
  <2> QED
    BY <1>f, <1>g, <2>1, <2>2, <2>3, <2>4, <2>5
<1>6. CASE RunObserve(t)
  <2>1. /\ pc'[t] = IF Observable THEN "finish" ELSE "fail"
        /\ step'[t] = step[t] /\ ren'[t] = ren[t]
        /\ pc[t] = "run" /\ step[t] = "runtime_observe" /\ rt' = rt
    BY <1>6, <1>a DEF RunObserve, TypeOK, Goto, locals
  <2>2. rt.compose # None /\ (rt.up # None \/ row.status \in Halted)
    BY <1>d, <2>1 DEF Progressing, PastUp
  <2>3. pc'[t] = "fail" => row.status \in Halted
    BY <2>1, <2>2 DEF Observable, ComposeMissing
  <2>4. Cleans(t)'
    BY <1>i, <2>1 DEF Cleans, PastUp
  <2>5. Progressing(t)'
    BY <1>b, <1>d, <2>1, <2>2, <2>3 DEF Progressing, WrittenBy, PastUp
  <2> QED
    BY <1>f, <1>g, <2>1, <2>4, <2>5
<1> QED
  BY <1>1, <1>2, <1>3, <1>4, <1>5, <1>6

LEMMA FailOrdinary ==
  ASSUME Posts, Steady, NEW t \in Tasks,
         FailRecord(t) \/ FailCheck(t) \/ FailKeep(t) \/ FailSave(t)
  PROVE  Ordinary(t)
<1>a. TypeOK /\ Alone(t)
  BY WorkAlone DEF Posts, Work, Deploy
<1>b. pc[t] \in Owning
  BY DEF FailRecord, FailCheck, FailKeep, FailSave, Owning
<1>c. Progressing(t)
  BY <1>b DEF Steady, Works
<1>d. /\ pc[t] \in {"fail", "failcheck"} /\ step[t] = "runtime_observe"
      /\ row.status \in Halted
  BY <1>c DEF Progressing, FailRecord, FailCheck, FailKeep, FailSave
<1>e. ~Active(row.status) /\ Exists /\ row.status # None
  BY <1>d, NoneAssumption DEF Active, Halted, Exists, Stored
<1>f. row' = row /\ rt' = rt
  BY <1>d, <1>e DEF FailRecord, FailCheck, FailKeep, FailSave
<1>1. CASE FailRecord(t)
  <2>1. pc'[t] = "failcheck" /\ step'[t] = step[t] /\ ren'[t] = ren[t]
    BY <1>1, <1>a DEF FailRecord, TypeOK, Goto
  <2>2. Progressing(t)'
    BY <1>c, <1>d, <1>f, <2>1 DEF Progressing, WrittenBy, PastUp, FailRecord
  <2>3. Works(t)' /\ Cleans(t)' /\ pc'[t] \notin AfterMark
    BY <1>d, <2>1, <2>2 DEF Works, Cleans, AfterMark, PastUp, Owning
  <2> QED
    BY <1>a, <1>d, <1>f, <2>3 DEF Ordinary, Steady, AfterMark
<1>2. CASE FailCheck(t)
  <2>1. AfterFail(t, row.status)
    BY <1>2, <1>e DEF FailCheck
  <2>2. pc'[t] = "cleanup" /\ sup'[t] = row.status
    BY <1>a, <1>d, <1>e, <2>1 DEF AfterFail, TypeOK, Goto
  <2>3. Works(t)' /\ Cleans(t)' /\ pc'[t] \notin AfterMark
    BY <1>d, <1>f, <2>2 DEF Works, Cleans, AfterMark, Owning, Halted
  <2> QED
    BY <1>a, <1>d, <1>f, <2>3 DEF Ordinary, Steady, AfterMark
<1> QED
  BY <1>d, <1>1, <1>2 DEF FailKeep, FailSave

LEMMA CleanupOrdinary ==
  ASSUME OneStop, Posts, Steady, NEW t \in Tasks,
         \/ CleanupStop(t) \/ CleanupDestroy(t) \/ CleanupRemove(t)
         \/ CleanupNothing(t)
  PROVE  Ordinary(t)
<1>a. TypeOK /\ Alone(t) /\ rt \in Runtime /\ ~Fault
  BY WorkAlone, NoFaults DEF Posts, Work, Deploy, TypeOK
<1>b. Works(t) /\ row' = row
  BY DEF Steady, CleanupStop, CleanupDestroy, CleanupRemove, CleanupNothing
<1>1. CASE CleanupStop(t)
  <2>1. pc[t] = "cleanup" /\ row.status \in Halted
    BY <1>1, <1>b DEF CleanupStop, Works, Halted
  <2>2. pc'[t] = "done"
    BY <1>1, <1>a DEF CleanupStop, End, Goto, TypeOK
  <2>3. rt'.compose = rt.compose /\ rt'.up = None
    <3>1. CASE ComposeMissing
      BY <1>1, <1>a, <3>1 DEF CleanupStop, ComposeMissing, Steady
    <3>2. CASE ~ComposeMissing
      BY <1>1, <1>a, <3>2 DEF CleanupStop, ComposeDown, Runtime
    <3> QED
      BY <3>1, <3>2
  <2>4. Works(t)' /\ pc'[t] \notin AfterMark /\ pc[t] \notin AfterMark
    BY <2>1, <2>2 DEF Works, Owning, AfterMark
  <2> QED
    BY <1>a, <1>b, <2>1, <2>2, <2>3, <2>4 DEF Ordinary
<1>2. CASE CleanupDestroy(t) \/ CleanupRemove(t)
  BY <1>2, <1>b DEF CleanupDestroy, CleanupRemove, Works
<1>3. CASE CleanupNothing(t)
  <2>1. pc'[t] = "done" /\ pc[t] = "cleanup" /\ rt' = rt /\ sup[t] \notin Halted
    BY <1>3, <1>a DEF CleanupNothing, End, Goto, TypeOK, Halted
  <2>2. ~Cleans(t)
    BY <2>1 DEF Cleans, Owning
  <2> QED
    BY <1>a, <1>b, <2>1, <2>2, PlainOrdinary DEF Owning, AfterMark
<1> QED
  BY <1>1, <1>2, <1>3

(***************************************************************************)
(* Requests and claims.                                                    *)
(***************************************************************************)
LEMMA ClaimOrdinary ==
  ASSUME OneStop, Posts, Steady, NEW t \in Tasks,
         \/ Arrive(t) \/ RolloutClaim(t) \/ StartClaim(t) \/ StartPrepare(t)
         \/ StopClaim(t) \/ DeleteClaim(t)
  PROVE  Ordinary(t)
<1>a. TypeOK /\ Alone(t) /\ Post(t)'
  BY WorkAlone, ArrivePost, DeployPost, HandlePost DEF Posts, Work, Deploy, Handle
<1>b. row' = row /\ rt' = rt
  BY DEF Arrive, CreateLookup, OperationRequest, StopRequest, DeleteRequest,
         PatchRead, RolloutClaim, StartClaim, StartPrepare, StopClaim, DeleteClaim
<1>c. pc[t] \in {"new", "rollout", "start", "startprep", "stop", "del"}
  BY DEF Arrive, CreateLookup, OperationRequest, StopRequest, DeleteRequest,
         PatchRead, RolloutClaim, StartClaim, StartPrepare, StopClaim, DeleteClaim
<1>d. ~Cleans(t) /\ pc[t] \notin AfterMark
  BY <1>c DEF Cleans, Owning, AfterMark
<1>e. pc'[t] \in {"done", "insert", "rollout", "start", "hard_restart", "stop",
                  "del", "patch", "deploy", "startprep", "startup", "stopping",
                  "destroying"}
  <2>1. CASE Arrive(t)
    BY <2>1, <1>a, ConstantsAssumption DEF Arrive, CreateLookup, OperationRequest,
       StopRequest, DeleteRequest, PatchRead, End, Goto, TypeOK, Kinds
  <2>2. CASE ~Arrive(t)
    BY <2>2, <1>a DEF RolloutClaim, StartClaim, StartPrepare, StopClaim,
       DeleteClaim, Claim, End, Goto, TypeOK
  <2> QED
    BY <2>1, <2>2
<1> QED
  BY <1>a, <1>b, <1>c, <1>d, <1>e, PlainOrdinary DEF Owning, AfterMark

LEMMA InsertOrdinary ==
  ASSUME Posts, Steady, NEW t \in Tasks, CreateInsert(t)
  PROVE  Ordinary(t)
<1>a. TypeOK /\ Alone(t)
  BY WorkAlone DEF Posts, Work, Deploy
<1>1. /\ pc[t] = "insert" /\ pc'[t] \in {"deploy", "done"} /\ rt' = rt
      /\ row' = row \/ (row.status = "none" /\ row'.status = "pending")
  BY <1>a DEF CreateInsert, End, Goto, TypeOK
<1>2. Works(t)' /\ ~Cleans(t)
  BY <1>1 DEF Works, Cleans, Owning, AfterMark
<1> QED
  BY <1>a, <1>1, <1>2 DEF Ordinary, Steady, AfterMark, Halted

(***************************************************************************)
(* A deployment begins from a stopped row only when the stop is over.      *)
(***************************************************************************)
LEMMA StartDeploymentOrdinary ==
  ASSUME Posts, Steady, NEW t \in Tasks, DeployStart(t) \/ StartRecord(t)
  PROVE  Ordinary(t) \/ Over'
<1>a. TypeOK /\ Alone(t) /\ mem[t] \in Row /\ row \in Row /\ Post(t)
  BY WorkAlone DEF Posts, TypeOK, Work, Deploy
<1>b. pc[t] \in {"deploy", "startup"} /\ rt' = rt
  BY DEF DeployStart, StartRecord
<1>c. ~Cleans(t) /\ pc[t] \notin AfterMark
  BY <1>b DEF Cleans, Owning, AfterMark
<1>1. PICK name \in {"compose_render", "compose_start"}, point \in {"run", "check"} :
         /\ StartDeployment(t, name, point)
         /\ name = "compose_render" => point = "run"
         /\ name = "compose_start" => mem[t].status = "stopped"
  BY <1>a DEF DeployStart, StartRecord, Post
<1>2. CASE row.status # mem[t].status \/ row.status \notin StartAllowed
  <2>1. pc'[t] = "done" /\ row' = row
    BY <1>a, <1>1, <1>2 DEF StartDeployment, End, Goto, TypeOK
  <2> QED
    BY <1>a, <1>b, <1>c, <2>1, PlainOrdinary DEF Owning, AfterMark
<1>3. CASE ~(row.status # mem[t].status \/ row.status \notin StartAllowed)
  <2>1. /\ row' = Latest([mem[t] EXCEPT !.status = "in_progress"])
        /\ pc'[t] = point /\ step'[t] = name
    BY <1>a, <1>1, <1>3 DEF StartDeployment, Goto, TypeOK
  <2>2. row'.status = "in_progress"
    BY <1>a, <2>1 DEF Latest, Row
  <2>3. CASE row.status = "stopped"
    <3>1. \A p \in Stoppers : pc'[p] = "done"
      <4> SUFFICES ASSUME NEW p \in Stoppers PROVE pc'[p] = "done"
        OBVIOUS
      <4>1. pc[p] = "done" /\ p \in Tasks
        BY <2>3 DEF Steady, Tasks
      <4> QED
        BY <1>a, <1>b, <4>1 DEF Alone
    <3> QED
      BY <2>2, <3>1 DEF Over, Halted
  <2>4. CASE row.status # "stopped"
    <3>1. row.status \notin Halted /\ name = "compose_render" /\ point = "run"
      BY <1>1, <1>3, <2>4 DEF StartAllowed, Halted
    <3>2. Progressing(t)'
      BY <2>1, <3>1 DEF Progressing, WrittenBy, PastUp
    <3>3. Works(t)' /\ pc'[t] \notin AfterMark
      BY <2>1, <3>1, <3>2 DEF Works, AfterMark
    <3> QED
      BY <1>a, <1>b, <1>c, <2>2, <3>1, <3>3 DEF Ordinary, Steady, Halted
  <2> QED
    BY <2>3, <2>4
<1> QED
  BY <1>2, <1>3

LEMMA DeleteMarkOrdinary ==
  ASSUME Posts, Steady, NEW t \in Tasks, DeleteMark(t)
  PROVE  Ordinary(t) \/ Doomed'
<1>a. TypeOK /\ Alone(t)
  BY WorkAlone DEF Posts, Work, Handle
<1>b. pc[t] = "destroying" /\ rt' = rt
  BY DEF DeleteMark
<1>1. CASE ~Exists
  <2>1. pc'[t] = "done" /\ row' = row
    BY <1>a, <1>1 DEF DeleteMark, Save, End, Goto, TypeOK
  <2>2. ~Cleans(t)
    BY <1>b DEF Cleans, Owning
  <2> QED
    BY <1>a, <1>b, <2>1, <2>2, PlainOrdinary DEF Owning, AfterMark
<1>2. CASE Exists
  <2>1. pc'[t] = "destroy"
    BY <1>a, <1>2 DEF DeleteMark, Save, Goto, TypeOK
  <2> QED
    BY <2>1 DEF Doomed, Erasing
<1> QED
  BY <1>1, <1>2

(***************************************************************************)
(* The stop itself.                                                        *)
(***************************************************************************)
LEMMA OnlyStopper ==
  ASSUME OneStop, Posts, NEW t \in Stoppers, NEW u \in Tasks, pc[u] \in StopPoints
  PROVE  u = t
BY DEF OneStop, Posts, Post

LEMMA StopperSteady ==
  ASSUME OneStop, Posts, Posts', Steady, NEW t \in Tasks, Alone(t),
         t \in Stoppers, pc[t] \in StopPoints, pc'[t] \in StopPoints \cup {"done"},
         row'.status \in Halted, rt'.compose = rt.compose,
         rt'.up = rt.up \/ rt'.up = None,
         rt'.up = None \/ pc'[t] \notin {"stopclaim", "stopped"}
           \/ pc[t] \in {"stopclaim", "stopped"},
         row'.status = "stopping" <=> pc'[t] \in AfterMark,
         row'.status = "stopped" => pc'[t] = "done" /\ pc[t] = "stopped"
  PROVE  Steady'
<1>1. \A u \in Tasks : pc'[u] \in StopPoints => u = t
  BY DEF OneStop, Posts, Post
<1>2. row'.status \notin {"destroying", "deleted"}
  BY DEF Halted
<1>3. row'.status = "stopping" => \E p \in Tasks : pc'[p] \in AfterMark
  OBVIOUS
<1>4. row'.status = "stopped" => \A p \in Stoppers : pc'[p] = "done"
  BY DEF OneStop
<1>5. rt'.up # None => rt'.compose # None
  BY DEF Steady
<1>6. ASSUME Brought', rt'.up # None PROVE \E u \in Tasks : Cleans(u)'
  <2>1. rt.up # None
    BY <1>6
  <2>2. pc[t] \in {"stopclaim", "stopped"}
    <3>1. CASE row'.status = "stopped"
      BY <3>1
    <3>2. CASE row'.status # "stopped"
      <4>1. PICK p \in Tasks : pc'[p] \in {"stopclaim", "stopped"}
        BY <1>6, <3>2 DEF Brought
      <4>2. p = t
        BY <1>1, <4>1 DEF StopPoints
      <4> QED
        BY <1>6, <4>1, <4>2
    <3> QED
      BY <3>1, <3>2
  <2>3. PICK u \in Tasks : Cleans(u)
    BY <2>1, <2>2 DEF Steady, Brought
  <2>4. u # t
    BY <2>3 DEF Cleans, StopPoints, Owning
  <2> QED
    BY <2>3, <2>4 DEF Alone, Cleans, PastUp
<1>7. ASSUME NEW u \in Tasks PROVE Works(u)'
  <2>1. CASE u = t
    BY <2>1 DEF Works, StopPoints, Owning
  <2>2. CASE u # t
    <3>1. Works(u)
      BY DEF Steady
    <3>2. /\ pc'[u] = pc[u] /\ step'[u] = step[u] /\ ren'[u] = ren[u]
          /\ sup'[u] = sup[u]
      BY <2>2 DEF Alone
    <3>3. pc'[u] \notin AfterMark
      BY <1>1, <2>2 DEF AfterMark, StopPoints
    <3>4. pc[u] \in Owning => Progressing(u)'
      BY <3>1, <3>2 DEF Works, Progressing, WrittenBy, PastUp
    <3> QED
      BY <3>1, <3>2, <3>3, <3>4 DEF Works
  <2> QED
    BY <2>1, <2>2
<1> QED
  BY <1>2, <1>3, <1>4, <1>5, <1>6, <1>7 DEF Steady

LEMMA StopSteady ==
  ASSUME OneStop, Posts, Posts', Steady, NEW t \in Tasks,
         \/ StopMark(t) \/ StopHalt(t) \/ StopReclaim(t) \/ StopDone(t)
         \/ StopFailClaim(t) \/ StopFailSave(t)
  PROVE  Steady' \/ Over'
<1>a. /\ TypeOK /\ Alone(t) /\ mem[t] \in Row /\ row \in Row /\ rt \in Runtime
      /\ Post(t) /\ ~Fault
  BY WorkAlone, NoFaults DEF Posts, TypeOK, Work, Handle
<1>b. pc[t] \in StopPoints \ {"stop"} /\ t \in Stoppers
  BY <1>a DEF Post, StopPoints, StopMark, StopHalt, StopReclaim, StopDone,
     StopFailClaim, StopFailSave
<1>c. pc[t] \in AfterMark => row.status = "stopping" /\ mem[t].status = "stopping"
  BY <1>a DEF Post, Steady, Works
<1>d. "stopping" \in Halted /\ "stopped" \in Halted
  BY DEF Halted
<1>1. CASE StopMark(t)
  <2>1. CASE ~Exists
    <3>1. pc'[t] = "done" /\ row' = row /\ rt' = rt
      BY <1>1, <1>a, <2>1 DEF StopMark, Save, End, Goto, TypeOK
    <3>2. ~Cleans(t) /\ pc[t] \notin AfterMark
      BY <1>1 DEF StopMark, Cleans, Owning, AfterMark
    <3>3. Ordinary(t)
      BY <1>a, <1>b, <3>1, <3>2, PlainOrdinary DEF Owning, AfterMark, StopPoints
    <3> QED
      BY <1>a, <3>3, OrdinarySteady
  <2>2. CASE Exists
    <3>1. pc'[t] = "halt" /\ row' = [mem[t] EXCEPT !.status = "stopping"] /\ rt' = rt
      BY <1>1, <1>a, <2>2 DEF StopMark, Save, Goto, TypeOK
    <3>2. row'.status = "stopping"
      BY <1>a, <3>1 DEF Row
    <3>3. pc'[t] \in StopPoints /\ pc'[t] \in AfterMark
      BY <3>1 DEF StopPoints, AfterMark
    <3> QED
      BY <1>a, <1>b, <1>d, <3>1, <3>2, <3>3, StopperSteady
  <2> QED
    BY <2>1, <2>2
<1>2. CASE StopHalt(t)
  <2>1. row' = row /\ row.status = "stopping"
    BY <1>2, <1>c DEF StopHalt, AfterMark
  <2>2. rt'.compose = rt.compose /\ rt'.up = None
    <3>1. CASE ComposeMissing
      BY <1>2, <1>a, <3>1 DEF StopHalt, ComposeMissing, Steady
    <3>2. CASE ~ComposeMissing
      BY <1>2, <1>a, <3>2 DEF StopHalt, ComposeDown, Runtime
    <3> QED
      BY <3>1, <3>2
  <2>3. pc'[t] \in {"stopclaim", "stopfail"}
    BY <1>2, <1>a DEF StopHalt, Goto, TypeOK
  <2>4. pc'[t] \in StopPoints /\ pc'[t] \in AfterMark
    BY <2>3 DEF StopPoints, AfterMark
  <2> QED
    BY <1>a, <1>b, <1>d, <2>1, <2>2, <2>4, StopperSteady
<1>3. CASE StopReclaim(t) \/ StopFailClaim(t)
  <2>1. row' = row /\ rt' = rt /\ row.status = "stopping"
    BY <1>3, <1>c DEF StopReclaim, StopFailClaim, AfterMark
  <2>2. row.status = mem[t].status
    BY <1>3, <1>c DEF StopReclaim, StopFailClaim, AfterMark
  <2>3. \/ pc[t] = "stopclaim" /\ pc'[t] = "stopped"
        \/ pc[t] = "stopfail" /\ pc'[t] = "stoperr"
    BY <1>3, <1>a, <2>2 DEF StopReclaim, StopFailClaim, Claim, Goto, TypeOK
  <2>4. pc'[t] \in StopPoints /\ pc'[t] \in AfterMark
    BY <2>3 DEF StopPoints, AfterMark
  <2> QED
    BY <1>a, <1>b, <1>d, <2>1, <2>3, <2>4, StopperSteady
<1>4. CASE StopDone(t)
  <2>1. Exists /\ pc[t] = "stopped"
    BY <1>4, <1>c DEF StopDone, AfterMark, Exists, Stored
  <2>2. /\ row' = [mem[t] EXCEPT !.status = "stopped"] /\ rt' = rt
        /\ pc'[t] = "done"
    BY <1>4, <1>a, <2>1 DEF StopDone, SaveAndEnd, End, Goto, TypeOK
  <2>3. row'.status = "stopped"
    BY <1>a, <2>2 DEF Row
  <2>4. pc'[t] \notin AfterMark
    BY <2>2 DEF AfterMark
  <2> QED
    BY <1>a, <1>b, <1>d, <2>1, <2>2, <2>3, <2>4, StopperSteady
<1>5. CASE StopFailSave(t)
  <2>1. Exists
    BY <1>5, <1>c DEF StopFailSave, AfterMark, Exists, Stored
  <2>2. /\ row' = [mem[t] EXCEPT !.status = "error", !.err = TRUE]
        /\ pc'[t] = "done"
    BY <1>5, <1>a, <2>1 DEF StopFailSave, SaveAndEnd, End, Goto, TypeOK
  <2>3. row'.status = "error"
    BY <1>a, <2>2 DEF Row
  <2>4. \A p \in Stoppers : pc'[p] = "done"
    BY <1>b, <2>2 DEF OneStop
  <2> QED
    BY <2>3, <2>4 DEF Over, Halted
<1> QED
  BY <1>1, <1>2, <1>3, <1>4, <1>5

LEMMA SteadyStep ==
  ASSUME OneStop, Posts, Posts', Steady, ~Doomed,
         NEW t \in Tasks, Arrive(t) \/ Work(t)
  PROVE  Over' \/ Doomed' \/ Steady'
<1>a. TypeOK /\ Post(t)
  BY DEF Posts
<1>b. Ordinary(t) => Steady'
  BY <1>a, OrdinarySteady
<1>1. CASE Arrive(t)
  BY <1>1, <1>b, ClaimOrdinary
<1>2. CASE Deploy(t)
  <2>1. ~HardRestartClaim(t) /\ ~HardRestartDown(t) /\ ~HardRestartReclaim(t)
    BY <1>a DEF Post, HardRestartClaim, HardRestartDown, HardRestartReclaim
  <2> QED
    BY <1>2, <1>b, <2>1, InsertOrdinary, ClaimOrdinary, StartDeploymentOrdinary,
       StepOrdinary, FinalizeOrdinary, RunOrdinary, FailOrdinary, CleanupOrdinary
       DEF Deploy
<1>3. CASE Handle(t)
  <2>1. ~DeleteFailClaim(t) /\ ~DeleteFailSave(t) /\ ~PatchSave(t)
    BY <1>a DEF Post, DeleteFailClaim, DeleteFailSave, PatchSave
  <2>2. ~DeleteDown(t) /\ ~DeleteFiles(t) /\ ~DeleteRow(t)
    BY DEF Doomed, Erasing, DeleteDown, DeleteFiles, DeleteRow
  <2> QED
    BY <1>3, <1>b, <2>1, <2>2, ClaimOrdinary, StopSteady, DeleteMarkOrdinary
       DEF Handle
<1> QED
  BY <1>1, <1>2, <1>3 DEF Work

(***************************************************************************)
(* One stop against any number of creations, rollouts, starts and          *)
(* deletions: once the requests and workers in flight have ended, a        *)
(* playground reported stopped has no running containers, even if a        *)
(* deployment brought some up after StopCompose had run.                   *)
(***************************************************************************)
THEOREM StoppedMeansDown ==
  ASSUME OneStop
  PROVE  Spec => []StoppedIsDown
<1>1. Init => HInv
  <2> SUFFICES ASSUME Init PROVE HInv
    OBVIOUS
  <2>1. TypeOK
    BY BlankIsRow, ConstantsAssumption
       DEF Init, TypeOK, Runtime, Points, Steps
  <2>2. row.status = "none" /\ rt.up = None
    BY DEF Init, Blank
  <2>3. \A t \in Tasks : pc[t] = "new"
    BY DEF Init
  <2>4. Posts
    BY <2>1, <2>3 DEF Posts, Post, StopPoints, DeletePoints, Owning, AfterMark
  <2>5. Steady
    BY <2>2, <2>3 DEF Steady, Works, Owning, AfterMark
  <2> QED
    BY <2>4, <2>5 DEF HInv
<1>2. HInv /\ [Next]_vars => HInv'
  <2> SUFFICES ASSUME HInv, [Next]_vars PROVE HInv'
    OBVIOUS
  <2>1. TypeOK /\ TypeOK' /\ Posts
    BY TypeStep DEF HInv, Posts
  <2>2. ASSUME NEW t \in Tasks, Arrive(t) \/ Work(t) PROVE HInv'
    <3>1. Posts'
      BY <2>1, <2>2, PostsKept
    <3> QED
      BY <2>1, <2>2, <3>1, OverKept, DoomedKept, SteadyStep DEF HInv
  <2>3. CASE UNCHANGED vars
    BY <2>1, <2>3 DEF vars, HInv, Posts, Post, Over, Doomed, Steady, Works,
       Progressing, Cleans, Brought, WrittenBy, PastUp
  <2>4. /\ ~Restart /\ (Idle => UNCHANGED vars)
        /\ \A t \in Tasks : ~RunFails(t) /\ ~Disconnect(t)
    BY <2>1, NoFaults DEF Idle
  <2> QED
    BY <2>2, <2>3, <2>4 DEF Next
<1>3. HInv => StoppedIsDown
  BY DEF HInv, StoppedIsDown, Quiet, Over, Doomed, Erasing, Steady, Brought,
         Cleans, Owning, Halted
<1> QED
  BY <1>1, <1>2, <1>3, PTL DEF Spec
=============================================================================
