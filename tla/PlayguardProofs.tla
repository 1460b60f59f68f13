-------------------------- MODULE PlayguardProofs --------------------------
(***************************************************************************)
(* Proofs about Playguard, for any number of requests of any kinds, any    *)
(* clock and any number of mishaps: types, the orphan sweep and the        *)
(* expiration.                                                             *)
(***************************************************************************)
EXTENDS Playguard, TLAPS

(***************************************************************************)
(* The inductive invariant.  A directory, and a process at work, are only  *)
(* there once the row has been created; a copy about to be saved holds a   *)
(* stored status, so no save makes a row forget that it was created; a     *)
(* request is never inside the pass; and what the Guard is about to        *)
(* destroy is what its last look allows.                                   *)
(***************************************************************************)
Idle == {"new", "done", "tick", "load", "sweep", "rows"}

Saving == {"save", "observed", "synced"}

Fatal == {"expire", "down", "rm", "rows", "reap", "reaprm"}

GuardOnly == GuardPoints \ {"reload"}

Ordinary == Points \ (Saving \cup Fatal)

Working(p) ==
  /\ pc[p] \in Saving => mem[p].status \in Stored
  /\ pc[p] \notin Idle => row.status # "none"
  /\ p = Guard \/ pc[p] \notin GuardOnly

Allowed(point, o) ==
  /\ point = "expire" => o \in {"clean", "dirty"} /\ (o = "clean" => rt.src = "clean")
  /\ point \in {"down", "rm"} => rt.src = "clean"
  /\ point = "rows" /\ o = "dir" => row.status # "none"
  /\ point \in {"reap", "reaprm"} => row.status = "deleted"

PInv ==
  /\ TypeOK
  /\ rt.dir => row.status # "none"
  /\ \A p \in Procs : Working(p)
  /\ Allowed(pc[Guard], obs[Guard])

LEMMA InitPInv == Init => PInv
<1> SUFFICES ASSUME Init PROVE PInv
  OBVIOUS
<1>1. TypeOK
  BY ConstantsAssumption
     DEF Init, TypeOK, Row, Blank, Runtime, Times, Points, RequestPoints, GuardPoints, Seen
<1>2. Guard \in Procs /\ pc[Guard] = "tick"
  BY DEF Init, Procs
<1>3. \A p \in Procs : Working(p)
  BY DEF Init, Working, Saving, Idle, GuardOnly, GuardPoints
<1> QED
  BY <1>1, <1>2, <1>3 DEF Init, PInv, Allowed

-----------------------------------------------------------------------------
(***************************************************************************)
(* What a step may do to the row, the host and the clocks: a created row   *)
(* stays created, a deleted one deleted, and no step but the user's makes  *)
(* local work.                                                             *)
(***************************************************************************)
Surround ==
  /\ row' \in Row /\ rt' \in Runtime
  /\ now' \in 0 .. MaxClock /\ clock' \in 0 .. MaxClock /\ mishaps' \in 0 .. MaxMishaps
  /\ rt'.src \in {rt.src, "clean"}
  /\ rt'.dir => row'.status # "none"
  /\ row.status # "none" => row'.status # "none"
  /\ row.status = "deleted" => row'.status = "deleted"

(***************************************************************************)
(* A process goes to a point with pg, w and o as its copies.               *)
(***************************************************************************)
LEMMA Moved ==
  ASSUME PInv, Surround, NEW p \in Procs,
         NEW point \in Points, NEW pg \in Row, NEW w \in Stored \cup {None}, NEW o \in Seen,
         pc' = [pc EXCEPT ![p] = point], mem' = [mem EXCEPT ![p] = pg],
         want' = [want EXCEPT ![p] = w], obs' = [obs EXCEPT ![p] = o],
         point \in Saving => pg.status \in Stored,
         point \notin Idle => row'.status # "none",
         p = Guard \/ point \notin GuardOnly,
         p = Guard => Allowed(point, o)'
  PROVE  PInv'
<1>1. TypeOK'
  BY DEF PInv, TypeOK, Surround
<1>2. rt'.dir => row'.status # "none"
  BY DEF Surround
<1>3. ASSUME NEW q \in Procs PROVE Working(q)'
  <2>1. CASE q = p
    BY <2>1 DEF PInv, TypeOK, Working
  <2>2. CASE q # p
    BY <2>2 DEF PInv, TypeOK, Working, Surround
  <2> QED
    BY <2>1, <2>2
<1>4. Allowed(pc[Guard], obs[Guard])'
  <2>1. CASE p = Guard
    BY <2>1 DEF PInv, TypeOK, Allowed
  <2>2. CASE p # Guard
    <3>1. pc'[Guard] = pc[Guard] /\ obs'[Guard] = obs[Guard]
      BY <2>2 DEF PInv, TypeOK, Procs
    <3> QED
      BY <3>1 DEF PInv, Allowed, Surround
  <2> QED
    BY <2>1, <2>2
<1> QED
  BY <1>1, <1>2, <1>3, <1>4 DEF PInv

(***************************************************************************)
(* The forms such a move takes in the actions.                             *)
(***************************************************************************)
LEMMA Types ==
  ASSUME PInv, NEW p \in Procs
  PROVE  /\ row \in Row /\ rt \in Runtime /\ mem[p] \in Row /\ obs[p] \in Seen
         /\ want[p] \in Stored \cup {None} /\ pc[p] \in Points
         /\ now \in 0 .. MaxClock /\ clock \in 0 .. MaxClock /\ mishaps \in 0 .. MaxMishaps
         /\ pc[p] \notin Idle => row.status # "none"
         /\ pc[p] \in Saving => mem[p].status \in Stored
         /\ rt.dir => row.status # "none"
         /\ p = Guard \/ pc[p] \notin GuardOnly
         /\ mem = [mem EXCEPT ![p] = mem[p]] /\ want = [want EXCEPT ![p] = want[p]]
         /\ obs = [obs EXCEPT ![p] = obs[p]]
         /\ Guard \in Procs /\ Allowed(pc[Guard], obs[Guard])
         /\ None \in Seen /\ None \in Stored \cup {None} /\ Blank \in Row
BY DEF PInv, TypeOK, Working, Procs, Seen, Blank, Row, Times

LEMMA StoredIsNot == "none" \notin Stored /\ "deleted" \notin Stored
BY DEF Stored

LEMMA PointFacts ==
  /\ Ordinary \subseteq Points /\ Saving \subseteq Points \ Fatal
  /\ Ordinary \cap Saving = {} /\ Ordinary \cap Fatal = {}
  /\ {"sweep", "done", "tick", "load", "reload", "build"} \subseteq Ordinary
  /\ {"inspect", "observe", "drift", "repair", "resync", "preserve", "redeploy", "up",
      "settle", "clean", "cleanrm", "dirty", "downfail", "expired", "delete", "sync",
      "record", "deploy", "deployed", "failed", "built", "stopping", "halt", "halted",
      "haltfail", "destroying", "destroy", "destroyrm", "destroyed", "destroyfail"}
       \subseteq Ordinary \ Idle
  /\ Fatal \cup {"dirty", "downfail", "expired", "delete", "tick", "load", "sweep"} \subseteq GuardOnly
  /\ {"done", "reload", "build", "inspect", "observe", "drift", "repair", "resync", "preserve",
      "redeploy", "up", "settle", "clean", "cleanrm", "sync", "record", "deploy", "deployed",
      "failed", "built", "stopping", "halt", "halted", "haltfail", "destroying", "destroy",
      "destroyrm", "destroyed", "destroyfail"} \cap GuardOnly = {}
  /\ Saving \cap GuardOnly = {}
  /\ {"reload", "build"} \cap Idle = {} /\ {"sweep", "done", "tick", "load"} \subseteq Idle
  /\ {"expire", "down", "rm", "reap", "reaprm"} \subseteq Points \ (Idle \cup Saving)
  /\ "rows" \in Points \ Saving /\ {"save", "observed", "synced"} = Saving /\ Saving \cap Idle = {}
BY DEF Saving, Fatal, GuardOnly, Ordinary, Idle, Points, RefreshPoints, GuardPoints, SyncPoints, RequestPoints

LEMMA InPass ==
  ASSUME PInv, NEW p \in Procs
  PROVE  /\ pc[p] \in {"tick", "load", "sweep", "rows"} => p = Guard
         /\ pc[p] \in {"dirty", "expire", "down", "rm", "downfail", "expired", "delete",
                      "reap", "reaprm"} => p = Guard /\ row.status # "none"
         /\ p = Guard => Allowed(pc[p], obs[p])
<1>1. p = Guard \/ pc[p] \notin GuardOnly
  BY Types
<1>2. pc[p] \notin Idle => row.status # "none"
  BY Types
<1> QED
  BY <1>1, <1>2, Types DEF GuardOnly, GuardPoints, Idle

LEMMA AtWork ==
  ASSUME PInv, NEW p \in Procs, pc[p] \notin Idle
  PROVE  row.status # "none"
BY Types

LEMMA ReturnsTo ==
  ASSUME PInv, Surround, NEW p \in Procs, NEW point \in Ordinary,
         p = Guard \/ point \notin GuardOnly,
         point \in Idle \/ row.status # "none", ReturnTo(p, point)
  PROVE  PInv'
<1>1. Allowed(point, None)'
  BY PointFacts DEF Allowed, Fatal
<1>2. point \notin Idle => row'.status # "none"
  BY DEF Surround
<1> QED
  BY <1>1, <1>2, PointFacts, Types, Moved DEF ReturnTo, Goto

LEMMA Returns ==
  ASSUME PInv, Surround, NEW p \in Procs, Return(p)
  PROVE  PInv'
<1>1. {"sweep", "done"} \subseteq Ordinary \cap Idle
  BY PointFacts
<1>2. PICK point \in {"sweep", "done"} : ReturnTo(p, point) /\ (p = Guard \/ point = "done")
  BY DEF Return
<1> QED
  BY <1>1, <1>2, PointFacts, ReturnsTo

LEMMA Takes ==
  ASSUME PInv, Surround, NEW p \in Procs, NEW point \in Points \ Fatal, row.status # "none",
         p = Guard \/ point \notin GuardOnly,
         NEW pg \in Row, pg.status \in Stored, Take(p, pg, point)
  PROVE  PInv'
<1>1. Allowed(point, obs[p])' /\ row'.status # "none"
  BY DEF Allowed, Fatal, Surround
<1>2. /\ want' = [want EXCEPT ![p] = want[p]] /\ obs' = [obs EXCEPT ![p] = obs[p]]
      /\ pc' = [pc EXCEPT ![p] = point] /\ mem' = [mem EXCEPT ![p] = pg]
  BY Types DEF Take, Goto
<1> QED
  BY <1>1, <1>2, PointFacts, Types, Moved

LEMMA Goes ==
  ASSUME PInv, Surround, NEW p \in Procs, NEW point \in Ordinary,
         p = Guard \/ point \notin GuardOnly,
         point \in Idle \/ row.status # "none", Goto(p, point), UNCHANGED locals
  PROVE  PInv'
<1>1. Allowed(point, obs[p])' /\ (row.status # "none" => row'.status # "none")
  BY PointFacts DEF Allowed, Fatal, Surround
<1>2. /\ mem' = [mem EXCEPT ![p] = mem[p]] /\ want' = [want EXCEPT ![p] = want[p]]
      /\ obs' = [obs EXCEPT ![p] = obs[p]] /\ pc' = [pc EXCEPT ![p] = point]
  BY Types DEF Goto, locals
<1> QED
  BY <1>1, <1>2, PointFacts, Types, Moved

LEMMA Sees ==
  ASSUME PInv, Surround, NEW p \in Procs, NEW point \in Ordinary,
         p = Guard \/ point \notin GuardOnly,
         row.status # "none", NEW o \in Seen, See(p, o, point)
  PROVE  PInv'
<1>1. Allowed(point, o)' /\ row'.status # "none"
  BY PointFacts DEF Allowed, Fatal, Surround
<1>2. /\ mem' = [mem EXCEPT ![p] = mem[p]] /\ want' = [want EXCEPT ![p] = want[p]]
      /\ obs' = [obs EXCEPT ![p] = o] /\ pc' = [pc EXCEPT ![p] = point]
  BY Types DEF See, Goto
<1> QED
  BY <1>1, <1>2, PointFacts, Types, Moved

LEMMA Begins ==
  ASSUME PInv, Surround, NEW p \in Procs, NEW point \in Ordinary,
         p = Guard \/ point \notin GuardOnly,
         Exists, Begin(p, point)
  PROVE  PInv'
<1>1. row.status # "none" /\ row.status \in Stored
  BY StoredIsNot DEF Exists
<1>2. Allowed(point, obs[p])' /\ row'.status # "none"
  BY <1>1, PointFacts DEF Allowed, Fatal, Surround
<1>3. /\ mem' = [mem EXCEPT ![p] = row] /\ want' = [want EXCEPT ![p] = row.status]
      /\ obs' = [obs EXCEPT ![p] = obs[p]] /\ pc' = [pc EXCEPT ![p] = point]
  BY Types DEF Begin, Goto
<1> QED
  BY <1>1, <1>2, <1>3, PointFacts, Types, Moved

-----------------------------------------------------------------------------
(***************************************************************************)
(* What the actions write: copies of the row, the row, the host.           *)
(***************************************************************************)
Reasons == {"none", "sync", "other"}

LEMMA StatusForms ==
  ASSUME NEW pg \in Row, NEW s \in Stored, NEW r \in Reasons
  PROVE  /\ SetStatus(pg, s, r) \in Row /\ SetStatus(pg, s, r).status \in Stored
         /\ [pg EXCEPT !.status = s] \in Row /\ [pg EXCEPT !.status = s].status \in Stored
BY DEF Row, SetStatus, Reasons

LEMMA OtherForms ==
  ASSUME NEW pg \in Row
  PROVE  /\ \A b \in BOOLEAN : /\ [pg EXCEPT !.lock = b] \in Row
                               /\ [pg EXCEPT !.lock = b].status = pg.status
         /\ \A e \in Times : /\ [pg EXCEPT !.expires = e] \in Row
                             /\ [pg EXCEPT !.expires = e].status = pg.status
BY DEF Row

LEMMA Literals ==
  /\ {"in_progress", "running", "has_changes", "error", "stopping", "stopped", "destroying"} \subseteq Stored
  /\ {"none", "sync", "other"} \subseteq Reasons
BY DEF Stored, Reasons

LEMMA Quiet ==
  ASSUME PInv, UNCHANGED <<row, rt, world>>, UNCHANGED mishaps \/ Mishap
  PROVE  Surround
<1>1. mishaps' \in 0 .. MaxMishaps
  BY ConstantsAssumption DEF PInv, TypeOK, Mishap
<1> QED
  BY <1>1 DEF PInv, TypeOK, Surround, world

LEMMA Hosts ==
  ASSUME PInv, UNCHANGED <<row, world>>, UNCHANGED mishaps \/ Mishap,
         row.status # "none",
         UNCHANGED rt \/ DownHost \/ RemoveHost \/ DeployHost \/ rt' = [rt EXCEPT !.dir = TRUE]
  PROVE  Surround
<1>1. mishaps' \in 0 .. MaxMishaps
  BY ConstantsAssumption DEF PInv, TypeOK, Mishap
<1>2. rt' \in Runtime /\ rt'.src \in {rt.src, "clean"}
  BY DEF PInv, TypeOK, DownHost, RemoveHost, DeployHost, Runtime
<1> QED
  BY <1>1, <1>2 DEF PInv, TypeOK, Surround, world

LEMMA Writes ==
  ASSUME PInv, UNCHANGED <<rt, mishaps, world>>, row' \in Row,
         row.status # "none" => row'.status # "none",
         row.status = "deleted" => row'.status = "deleted"
  PROVE  Surround
BY DEF PInv, TypeOK, Surround, world

LEMMA Saves ==
  ASSUME PInv, UNCHANGED <<rt, mishaps, world>>, NEW p \in Procs, pc[p] \in Saving, Saved(p)
  PROVE  Surround
<1>1. row' \in Row /\ (row.status # "none" => row'.status # "none")
  BY Types, StoredIsNot DEF Saved
<1>2. row.status = "deleted" => row'.status = "deleted"
  BY StoredIsNot DEF Saved, Exists
<1> QED
  BY <1>1, <1>2, Writes

LEMMA Tears ==
  ASSUME PInv, NEW p \in Procs, NEW from \in Points \ Idle,
         NEW next \in Points \ Saving, NEW failed \in Ordinary,
         TearDown(p, from, next, failed),
         p = Guard \/ (next \notin GuardOnly /\ failed \notin GuardOnly),
         p = Guard => Allowed(next, obs[p])'
  PROVE  PInv'
<1>1. row.status # "none" /\ UNCHANGED locals
  BY Types DEF TearDown
<1>2. Surround
  BY <1>1, Hosts DEF TearDown
<1>3. CASE Goto(p, failed)
  BY <1>1, <1>2, <1>3, Goes
<1>4. CASE Goto(p, next)
  <2>1. /\ mem' = [mem EXCEPT ![p] = mem[p]] /\ want' = [want EXCEPT ![p] = want[p]]
        /\ obs' = [obs EXCEPT ![p] = obs[p]] /\ pc' = [pc EXCEPT ![p] = next]
    BY <1>1, <1>4, Types DEF Goto, locals
  <2>2. row'.status # "none"
    BY <1>1, <1>2 DEF Surround
  <2> QED
    BY <1>2, <2>1, <2>2, PointFacts, Types, Moved
<1> QED
  BY <1>3, <1>4 DEF TearDown

-----------------------------------------------------------------------------
(***************************************************************************)
(* The pass.                                                               *)
(***************************************************************************)
LEMMA PassTickInv == ASSUME PInv, NEW p \in Procs, PassTick(p) PROVE PInv'
<1>1. Surround
  BY DEF PassTick, PInv, TypeOK, Surround
<1> QED
  BY <1>1, PointFacts, Goes DEF PassTick

LEMMA PassLoadInv == ASSUME PInv, NEW p \in Procs, PassLoad(p) PROVE PInv'
<1>1. Surround
  BY Quiet DEF PassLoad
<1>2. ShouldRefreshRuntime(row) => Exists
  BY DEF ShouldRefreshRuntime, Exists, Stored
<1>3. \/ Exists /\ \E point \in {"dirty", "sync", "inspect"} : Begin(p, point)
      \/ Return(p)
  BY <1>2 DEF PassLoad
<1>4. p = Guard
  BY PointFacts, Types DEF PassLoad
<1> QED
  BY <1>1, <1>3, <1>4, PointFacts, Begins, Returns

LEMMA PassReloadInv == ASSUME PInv, NEW p \in Procs, PassReload(p) PROVE PInv'
<1>1. Surround
  BY Quiet DEF PassReload
<1>2. ShouldRefreshRuntime(row) => Exists
  BY DEF ShouldRefreshRuntime, Exists, Stored
<1> QED
  BY <1>1, <1>2, PointFacts, Begins, Returns DEF PassReload

LEMMA SweepListInv == ASSUME PInv, NEW p \in Procs, SweepList(p) PROVE PInv'
<1>0. p = Guard
  BY InPass DEF SweepList
<1>1. Surround
  BY Quiet DEF SweepList
<1>2. CASE ReturnTo(p, "tick")
  BY <1>0, <1>1, <1>2, PointFacts, ReturnsTo
<1>3. CASE See(p, IF rt.dir THEN "dir" ELSE None, "rows")
  <2>1. PICK o \in Seen : o = IF rt.dir THEN "dir" ELSE None
    BY DEF Seen, Observations
  <2>2. o = "dir" => row'.status # "none"
    BY <1>1, <2>1, Types, NoneAssumption DEF Observations, Surround
  <2>3. Allowed("rows", o)'
    BY <2>2 DEF Allowed
  <2>4. /\ mem' = [mem EXCEPT ![p] = mem[p]] /\ want' = [want EXCEPT ![p] = want[p]]
        /\ obs' = [obs EXCEPT ![p] = o] /\ pc' = [pc EXCEPT ![p] = "rows"]
    BY <1>3, <2>1, Types DEF See, Goto
  <2> QED
    BY <1>0, <1>1, <2>3, <2>4, PointFacts, Types, Moved DEF Idle
<1> QED
  BY <1>2, <1>3 DEF SweepList

LEMMA SweepRowsInv == ASSUME PInv, NEW p \in Procs, SweepRows(p) PROVE PInv'
<1>0. p = Guard /\ pc[p] = "rows" /\ row' = row
  BY InPass DEF SweepRows
<1>1. Surround
  BY Quiet DEF SweepRows
<1>2. CASE ReturnTo(p, "tick")
  BY <1>0, <1>1, <1>2, PointFacts, ReturnsTo
<1>3. CASE obs[p] = "dir" /\ ~Exists /\ Goto(p, "reap") /\ UNCHANGED locals
  <2>1. /\ mem' = [mem EXCEPT ![p] = mem[p]] /\ want' = [want EXCEPT ![p] = want[p]]
        /\ obs' = [obs EXCEPT ![p] = "dir"] /\ pc' = [pc EXCEPT ![p] = "reap"]
    BY <1>3, Types DEF Goto, locals
  <2>2. row.status \in {"none", "deleted"}
    BY <1>3, Types DEF Exists, Row
  <2>3. row.status # "none"
    BY <1>0, <1>3, InPass DEF Allowed
  <2>4. Allowed("reap", "dir")'
    BY <1>0, <2>2, <2>3 DEF Allowed
  <2>5. "dir" \in Seen
    BY DEF Seen, Observations
  <2> QED
    BY <1>0, <1>1, <2>1, <2>3, <2>4, <2>5, PointFacts, Types, Moved
<1> QED
  BY <1>2, <1>3 DEF SweepRows

LEMMA SweepDownInv == ASSUME PInv, NEW p \in Procs, SweepDown(p) PROVE PInv'
<1>1. p = Guard /\ pc[p] = "reap" /\ row' = row
  BY InPass DEF SweepDown, TearDown
<1>2. Allowed("reaprm", obs[p])'
  BY <1>1, InPass DEF Allowed
<1> QED
  BY <1>1, <1>2, PointFacts, Tears DEF SweepDown

LEMMA SweepRemoveInv == ASSUME PInv, NEW p \in Procs, SweepRemove(p) PROVE PInv'
<1>1. p = Guard /\ row.status # "none"
  BY InPass DEF SweepRemove
<1>2. Surround
  BY <1>1, Hosts DEF SweepRemove
<1> QED
  BY <1>1, <1>2, PointFacts, ReturnsTo DEF SweepRemove

-----------------------------------------------------------------------------
(***************************************************************************)
(* The expiration.                                                         *)
(***************************************************************************)
LEMMA ExpireInspectInv == ASSUME PInv, NEW p \in Procs, ExpireInspect(p) PROVE PInv'
<1>1. p = Guard /\ row.status # "none" /\ rt' = rt
  BY InPass DEF ExpireInspect
<1>2. Surround
  BY Quiet DEF ExpireInspect
<1>3. PICK o \in {"clean", "dirty"} :
        See(p, o, "expire") /\ (o = "clean" => rt.src = "clean")
  BY Types DEF ExpireInspect, Runtime
<1>4. o \in Seen /\ row'.status # "none"
  BY <1>1, <1>2 DEF Seen, Observations, Surround
<1>5. Allowed("expire", o)'
  BY <1>1, <1>3 DEF Allowed
<1>6. /\ mem' = [mem EXCEPT ![p] = mem[p]] /\ want' = [want EXCEPT ![p] = want[p]]
      /\ obs' = [obs EXCEPT ![p] = o] /\ pc' = [pc EXCEPT ![p] = "expire"]
  BY <1>3, Types DEF See, Goto
<1> QED
  BY <1>1, <1>2, <1>4, <1>5, <1>6, PointFacts, Types, Moved

LEMMA ExpireDecideInv == ASSUME PInv, NEW p \in Procs, ExpireDecide(p) PROVE PInv'
<1>1. p = Guard /\ pc[p] = "expire" /\ row.status # "none" /\ rt' = rt
  BY InPass DEF ExpireDecide
<1>2. Surround
  BY Quiet DEF ExpireDecide
<1>3. CASE Return(p)
  BY <1>2, <1>3, Returns
<1>4. CASE Take(p, SetStatus(row, "has_changes", "other"), "save")
  <2>1. /\ SetStatus(row, "has_changes", "other") \in Row
        /\ SetStatus(row, "has_changes", "other").status \in Stored
    BY Types, Literals, StatusForms
  <2> QED
    BY <1>1, <1>2, <1>4, <2>1, PointFacts, Takes
<1>5. CASE obs[p] # "dirty" /\ Goto(p, "down") /\ UNCHANGED locals
  <2>1. rt.src = "clean"
    BY <1>1, <1>5, InPass DEF Allowed
  <2>2. Allowed("down", obs[p])' /\ obs' = obs
    BY <1>1, <1>5, <2>1 DEF Allowed, locals
  <2>3. PICK o \in Seen : o = obs[p]
    BY Types
  <2>4. Allowed("down", o)' /\ row'.status # "none"
    BY <1>1, <1>2, <2>1 DEF Allowed, Surround
  <2>5. /\ mem' = [mem EXCEPT ![p] = mem[p]] /\ want' = [want EXCEPT ![p] = want[p]]
        /\ obs' = [obs EXCEPT ![p] = o] /\ pc' = [pc EXCEPT ![p] = "down"]
    BY <1>5, <2>3, Types DEF Goto, locals
  <2> QED
    BY <1>1, <1>2, <2>4, <2>5, PointFacts, Types, Moved
<1> QED
  BY <1>3, <1>4, <1>5 DEF ExpireDecide

LEMMA ExpireDownInv == ASSUME PInv, NEW p \in Procs, ExpireDown(p) PROVE PInv'
<1>1. p = Guard /\ pc[p] = "down"
  BY InPass DEF ExpireDown, TearDown
<1>2. rt'.src = rt.src
  BY Types DEF ExpireDown, TearDown, DownHost, Runtime
<1>3. Allowed("rm", obs[p])'
  BY <1>1, <1>2, InPass DEF Allowed
<1> QED
  BY <1>1, <1>3, PointFacts, Tears DEF ExpireDown

LEMMA ExpireRemoveInv == ASSUME PInv, NEW p \in Procs, ExpireRemove(p) PROVE PInv'
<1>1. p = Guard /\ row.status # "none"
  BY InPass DEF ExpireRemove
<1>2. Surround
  BY <1>1, Hosts DEF ExpireRemove
<1>3. PICK point \in {"expired", "downfail"} : Goto(p, point) /\ UNCHANGED locals
  BY DEF ExpireRemove
<1> QED
  BY <1>1, <1>2, <1>3, PointFacts, Goes

LEMMA ExpireFailedInv == ASSUME PInv, NEW p \in Procs, ExpireFailed(p) PROVE PInv'
<1>1. p = Guard /\ row.status # "none"
  BY InPass DEF ExpireFailed
<1>2. Surround
  BY Quiet DEF ExpireFailed
<1>3. CASE Take(p, SetStatus(row, "error", "other"), "save")
  <2>1. /\ SetStatus(row, "error", "other") \in Row
        /\ SetStatus(row, "error", "other").status \in Stored
    BY Types, Literals, StatusForms
  <2> QED
    BY <1>1, <1>2, <1>3, <2>1, PointFacts, Takes
<1> QED
  BY <1>2, <1>3, Returns DEF ExpireFailed

LEMMA ExpireConfirmInv == ASSUME PInv, NEW p \in Procs, ExpireConfirm(p) PROVE PInv'
<1>1. p = Guard /\ row.status # "none"
  BY InPass DEF ExpireConfirm
<1>2. Surround
  BY Quiet DEF ExpireConfirm
<1>3. CASE Goto(p, "delete") /\ UNCHANGED locals
  BY <1>1, <1>2, <1>3, PointFacts, Goes
<1>4. CASE Take(p, SetStatus(row, "stopped", "none"), "save")
  <2>1. /\ SetStatus(row, "stopped", "none") \in Row
        /\ SetStatus(row, "stopped", "none").status \in Stored
    BY Types, Literals, StatusForms
  <2> QED
    BY <1>1, <1>2, <1>4, <2>1, PointFacts, Takes
<1> QED
  BY <1>2, <1>3, <1>4, Returns DEF ExpireConfirm

LEMMA ExpireDeleteInv == ASSUME PInv, NEW p \in Procs, ExpireDelete(p) PROVE PInv'
<1>1. [Blank EXCEPT !.status = "deleted"] \in Row
  BY DEF Blank, Row, Times
<1>2. [Blank EXCEPT !.status = "deleted"].status = "deleted"
  BY DEF Blank
<1>3. Surround
  BY <1>1, <1>2, Writes DEF ExpireDelete
<1> QED
  BY <1>3, Returns DEF ExpireDelete

-----------------------------------------------------------------------------
(***************************************************************************)
(* Source sync.                                                            *)
(***************************************************************************)
Busy == {"inspect", "observe", "observed", "drift", "repair", "resync", "preserve",
         "redeploy", "up", "settle", "clean", "cleanrm", "save", "sync", "record",
         "synced", "deploy", "deployed", "failed", "build", "built", "stopping", "halt",
         "halted", "haltfail", "destroying", "destroy", "destroyrm", "destroyed",
         "destroyfail", "reload"}

LEMMA BusyFacts ==
  /\ Busy \subseteq Points \ (Fatal \cup Idle \cup GuardOnly)
  /\ Busy \ Saving \subseteq Ordinary
BY DEF Busy, Saving, Fatal, GuardOnly, Ordinary, Idle, Points, RefreshPoints, GuardPoints,
       SyncPoints, RequestPoints

(***************************************************************************)
(* The same forms for a process that is busy and stays so.                 *)
(***************************************************************************)
LEMMA BusyGoes ==
  ASSUME PInv, Surround, NEW p \in Procs, NEW point \in Busy \ Saving, row.status # "none"
  PROVE  /\ Goto(p, point) /\ UNCHANGED locals => PInv'
         /\ ReturnTo(p, point) => PInv'
         /\ \A o \in Seen : See(p, o, point) => PInv'
         /\ Exists /\ Begin(p, point) => PInv'
<1>1. point \in Ordinary /\ point \notin GuardOnly
  BY BusyFacts
<1>2. ASSUME NEW o \in Seen, See(p, o, point) PROVE PInv'
  BY <1>1, <1>2, Sees
<1> QED
  BY <1>1, <1>2, Goes, ReturnsTo, Begins

LEMMA BusyTakes ==
  ASSUME PInv, Surround, NEW p \in Procs, NEW point \in Busy, row.status # "none",
         NEW pg \in Row, pg.status \in Stored, Take(p, pg, point)
  PROVE  PInv'
<1>1. point \in Points \ Fatal /\ point \notin GuardOnly
  BY BusyFacts
<1> QED
  BY <1>1, Takes

LEMMA SyncRunInv == ASSUME PInv, NEW p \in Procs, SyncRun(p) PROVE PInv'
<1>1. row.status # "none"
  BY AtWork DEF SyncRun, Idle
<1>2. Surround
  BY Quiet DEF SyncRun
<1>3. PICK o \in Seen : See(p, o, "record")
  BY Types DEF SyncRun, Runtime, Seen, Observations
<1> QED
  BY <1>1, <1>2, <1>3, BusyGoes DEF Busy, Saving

LEMMA AfterSyncInv ==
  ASSUME PInv, Surround, NEW p \in Procs, row.status # "none", AfterSync(p)
  PROVE  PInv'
BY BusyGoes, Returns DEF AfterSync, Busy, Saving

LEMMA SyncRecordInv == ASSUME PInv, NEW p \in Procs, SyncRecord(p) PROVE PInv'
<1>1. row.status # "none"
  BY AtWork DEF SyncRecord, Idle
<1>2. Surround
  BY Quiet DEF SyncRecord
<1>3. CASE Current(p) /\ Take(p, SyncResult(p), "synced")
  <2>1. row \in Row /\ row.status \in Stored
    BY <1>3, Types DEF Current, Exists
  <2>2. SyncResult(p) \in Row /\ SyncResult(p).status \in Stored
    BY <2>1, Literals, StatusForms DEF SyncResult
  <2> QED
    BY <1>1, <1>2, <1>3, <2>2, BusyTakes DEF Busy
<1>4. CASE Return(p)
  BY <1>2, <1>4, Returns
<1>5. CASE AfterSync(p)
  BY <1>1, <1>2, <1>5, AfterSyncInv
<1> QED
  BY <1>3, <1>4, <1>5 DEF SyncRecord

LEMMA SyncSaveInv == ASSUME PInv, NEW p \in Procs, SyncSave(p) PROVE PInv'
<1>1. row.status # "none"
  BY AtWork DEF SyncSave, Idle
<1>2. Surround
  BY Saves DEF SyncSave, Saving
<1> QED
  BY <1>1, <1>2, AfterSyncInv, Returns DEF SyncSave

-----------------------------------------------------------------------------
(***************************************************************************)
(* Refresh and repair.                                                     *)
(***************************************************************************)
LEMMA RefreshInspectInv == ASSUME PInv, NEW p \in Procs, RefreshInspect(p) PROVE PInv'
<1>1. row.status # "none"
  BY AtWork DEF RefreshInspect, Idle
<1>2. Surround
  BY Quiet DEF RefreshInspect
<1>3. PICK o \in Seen : See(p, o, "observe")
  BY Types DEF RefreshInspect, Runtime, Seen, Observations
<1> QED
  BY <1>1, <1>2, <1>3, BusyGoes DEF Busy, Saving

LEMMA BeginRepairInv ==
  ASSUME PInv, Surround, NEW p \in Procs, Current(p), BeginRepair(p)
  PROVE  PInv'
<1>1. row \in Row /\ row.status \in Stored /\ row.status # "none"
  BY Types, StoredIsNot DEF Current, Exists
<1>2. [row EXCEPT !.lock = TRUE] \in Row /\ [row EXCEPT !.lock = TRUE].status = row.status
  BY <1>1, OtherForms
<1> QED
  BY <1>1, <1>2, BusyTakes, Returns DEF BeginRepair, Busy

LEMMA RefreshObserveInv == ASSUME PInv, NEW p \in Procs, RefreshObserve(p) PROVE PInv'
<1>1. row.status # "none"
  BY AtWork DEF RefreshObserve, Idle
<1>2. Surround
  BY Quiet DEF RefreshObserve
<1>3. CASE Return(p)
  BY <1>2, <1>3, Returns
<1>4. CASE Current(p) /\ BeginRepair(p)
  BY <1>2, <1>4, BeginRepairInv
<1>5. CASE Take(p, SetStatus(row, "error", "other"), "save")
  <2>1. /\ SetStatus(row, "error", "other") \in Row
        /\ SetStatus(row, "error", "other").status \in Stored
    BY Types, Literals, StatusForms
  <2> QED
    BY <1>1, <1>2, <1>5, <2>1, BusyTakes DEF Busy
<1>6. ASSUME Current(p), NEW ready \in BOOLEAN, Take(p, Observed(p, ready), "observed")
      PROVE  PInv'
  <2>1. row \in Row /\ row.status \in Stored
    BY <1>6, Types DEF Current, Exists
  <2>2. Observed(p, ready) \in Row /\ Observed(p, ready).status \in Stored
    BY <2>1, Literals, StatusForms DEF Observed
  <2> QED
    BY <1>1, <1>2, <1>6, <2>2, BusyTakes DEF Busy
<1> QED
  BY <1>3, <1>4, <1>5, <1>6 DEF RefreshObserve

LEMMA RefreshSaveInv == ASSUME PInv, NEW p \in Procs, RefreshSave(p) PROVE PInv'
<1>1. row.status # "none"
  BY AtWork DEF RefreshSave, Idle
<1>2. Surround
  BY Saves DEF RefreshSave, Saving
<1>3. CASE /\ want' = [want EXCEPT ![p] = "running"]
           /\ Goto(p, "drift") /\ UNCHANGED <<mem, obs>>
  <2>1. PICK o \in Seen : o = obs[p]
    BY Types
  <2>2. Allowed("drift", o)' /\ row'.status # "none" /\ "running" \in Stored
    BY <1>1, <1>2, Literals DEF Allowed, Surround
  <2>3. /\ mem' = [mem EXCEPT ![p] = mem[p]] /\ obs' = [obs EXCEPT ![p] = o]
        /\ pc' = [pc EXCEPT ![p] = "drift"]
    BY <1>3, <2>1, Types DEF Goto
  <2>4. "drift" \in Points \ (Saving \cup GuardOnly)
    BY BusyFacts DEF Busy, Saving
  <2> QED
    BY <1>2, <1>3, <2>2, <2>3, <2>4, Types, Moved
<1> QED
  BY <1>2, <1>3, Returns DEF RefreshSave

LEMMA RefreshDriftInv == ASSUME PInv, NEW p \in Procs, RefreshDrift(p) PROVE PInv'
<1>1. row.status # "none"
  BY AtWork DEF RefreshDrift, Idle
<1>2. Surround
  BY Quiet DEF RefreshDrift
<1>3. Return(p) \/ (Goto(p, "repair") /\ UNCHANGED locals)
  BY DEF RefreshDrift
<1> QED
  BY <1>1, <1>2, <1>3, Returns, BusyGoes DEF Busy, Saving

LEMMA RepairBeginInv == ASSUME PInv, NEW p \in Procs, RepairBegin(p) PROVE PInv'
<1>1. Surround
  BY Quiet DEF RepairBegin
<1> QED
  BY <1>1, Returns, BeginRepairInv DEF RepairBegin

LEMMA RepairSyncInv == ASSUME PInv, NEW p \in Procs, RepairSync(p) PROVE PInv'
<1>1. row.status # "none"
  BY AtWork DEF RepairSync, Idle
<1>2. Surround
  BY Quiet DEF RepairSync
<1>3. /\ SetStatus(mem[p], "error", "sync") \in Row
      /\ SetStatus(mem[p], "error", "sync").status \in Stored
  BY Types, Literals, StatusForms
<1>4. CASE Take(p, SetStatus(mem[p], "error", "sync"), "save")
  BY <1>1, <1>2, <1>3, <1>4, BusyTakes DEF Busy
<1>5. CASE UNCHANGED locals /\ \E point \in {"preserve", "redeploy"} : Goto(p, point)
  BY <1>1, <1>2, <1>5, BusyGoes DEF Busy, Saving
<1> QED
  BY <1>4, <1>5 DEF RepairSync

LEMMA RepairPreserveInv == ASSUME PInv, NEW p \in Procs, RepairPreserve(p) PROVE PInv'
<1>1. row.status # "none"
  BY AtWork DEF RepairPreserve, Idle
<1>2. Surround
  BY Quiet DEF RepairPreserve
<1>3. /\ SetStatus(mem[p], "has_changes", "sync") \in Row
      /\ SetStatus(mem[p], "has_changes", "sync").status \in Stored
  BY Types, Literals, StatusForms
<1> QED
  BY <1>1, <1>2, <1>3, BusyTakes, Returns DEF RepairPreserve, Busy

LEMMA RepairCheckInv == ASSUME PInv, NEW p \in Procs, RepairCheck(p) PROVE PInv'
<1>1. row.status # "none"
  BY AtWork DEF RepairCheck, Idle
<1>2. Surround
  BY Quiet DEF RepairCheck
<1> QED
  BY <1>1, <1>2, BusyGoes, Returns DEF RepairCheck, Busy, Saving

LEMMA RepairUpInv == ASSUME PInv, NEW p \in Procs, RepairUp(p) PROVE PInv'
<1>1. row.status # "none"
  BY AtWork DEF RepairUp, Idle
<1>2. Surround
  BY <1>1, Hosts DEF RepairUp
<1>3. /\ SetStatus(mem[p], "error", "other") \in Row
      /\ SetStatus(mem[p], "error", "other").status \in Stored
  BY Types, Literals, StatusForms
<1>4. CASE Take(p, SetStatus(mem[p], "error", "other"), "save")
  BY <1>1, <1>2, <1>3, <1>4, BusyTakes DEF Busy
<1>5. CASE Goto(p, "settle") /\ UNCHANGED locals
  BY <1>1, <1>2, <1>5, BusyGoes DEF Busy, Saving
<1> QED
  BY <1>4, <1>5 DEF RepairUp

LEMMA RepairSettleInv == ASSUME PInv, NEW p \in Procs, RepairSettle(p) PROVE PInv'
<1>1. row.status # "none"
  BY AtWork DEF RepairSettle, Idle
<1>2. Surround
  BY Quiet DEF RepairSettle
<1>3. /\ SetStatus(mem[p], "running", "none") \in Row
      /\ SetStatus(mem[p], "running", "none").status \in Stored
  BY Types, Literals, StatusForms
<1>4. CASE Take(p, SetStatus(mem[p], "running", "none"), "save")
  BY <1>1, <1>2, <1>3, <1>4, BusyTakes DEF Busy
<1>5. CASE Exists /\ See(p, row.status, "clean")
  <2>1. row.status \in Seen
    BY <1>5 DEF Exists, Seen
  <2> QED
    BY <1>1, <1>2, <1>5, <2>1, BusyGoes DEF Busy, Saving
<1>6. CASE Return(p)
  BY <1>2, <1>6, Returns
<1> QED
  BY <1>4, <1>5, <1>6 DEF RepairSettle

LEMMA CleanStopInv == ASSUME PInv, NEW p \in Procs, CleanStop(p) PROVE PInv'
<1>1. row.status # "none"
  BY AtWork DEF CleanStop, Idle
<1>2. Surround
  BY <1>1, Hosts DEF CleanStop
<1> QED
  BY <1>2, Returns DEF CleanStop

LEMMA CleanDestroyInv == ASSUME PInv, NEW p \in Procs, CleanDestroy(p) PROVE PInv'
<1>1. row.status # "none"
  BY AtWork DEF CleanDestroy, Idle
<1>2. Surround
  BY <1>1, Hosts DEF CleanDestroy
<1> QED
  BY <1>1, <1>2, BusyGoes, Returns DEF CleanDestroy, Busy, Saving

LEMMA CleanRemoveInv == ASSUME PInv, NEW p \in Procs, CleanRemove(p) PROVE PInv'
<1>1. row.status # "none"
  BY AtWork DEF CleanRemove, Idle
<1>2. Surround
  BY <1>1, Hosts DEF CleanRemove
<1> QED
  BY <1>2, Returns DEF CleanRemove

LEMMA SaveAndReturnInv == ASSUME PInv, NEW p \in Procs, SaveAndReturn(p) PROVE PInv'
<1>1. Surround
  BY Saves DEF SaveAndReturn, Saving
<1> QED
  BY <1>1, Returns DEF SaveAndReturn

-----------------------------------------------------------------------------
(***************************************************************************)
(* Requests.                                                               *)
(***************************************************************************)
LEMMA ArriveDeployInv ==
  ASSUME PInv, NEW t \in Requests, pc[t] = "new", ArriveDeploy(t), UNCHANGED <<rt, mishaps, world>>
  PROVE  PInv'
<1>1. row' \in Row /\ row'.status = "in_progress" /\ row.status # "deleted"
  <2>1. CASE row.status = "none" /\ row' \in [status : {"in_progress"}, reason : {"none"},
                                              expires : {None, clock}, lock : {FALSE}]
    <3>1. {None, clock} \subseteq Times
      BY DEF PInv, TypeOK, Times
    <3> QED
      BY <2>1, <3>1, Literals DEF Row
  <2>2. CASE /\ row.status \in {"running", "has_changes", "error", "stopped"}
             /\ row' = [row EXCEPT !.status = "in_progress"]
    BY <2>2, Literals DEF Row, PInv, TypeOK
  <2> QED
    BY <2>1, <2>2 DEF ArriveDeploy
<1>2. Surround /\ t \in Procs
  BY <1>1, Writes DEF Procs
<1>3. PICK o \in Seen : o = obs[t]
  BY <1>2, Types
<1>4. Allowed("deploy", o)'
  BY DEF Allowed
<1>5. /\ mem' = [mem EXCEPT ![t] = mem[t]] /\ want' = [want EXCEPT ![t] = want[t]]
      /\ obs' = [obs EXCEPT ![t] = o] /\ pc' = [pc EXCEPT ![t] = "deploy"]
  BY <1>2, <1>3, Types DEF ArriveDeploy, Goto, locals
<1>6. "deploy" \in Points \ (Saving \cup GuardOnly)
  BY BusyFacts DEF Busy, Saving
<1> QED
  BY <1>1, <1>2, <1>4, <1>5, <1>6, Types, Moved

LEMMA ArriveExistingInv ==
  ASSUME PInv, NEW t \in Requests, NEW kind, ArriveExisting(t, kind), UNCHANGED <<rt, mishaps, world>>
  PROVE  PInv'
<1>1. t \in Procs /\ Exists /\ row \in Row /\ row.status \in Stored /\ row.status # "none"
  BY Types, StoredIsNot DEF ArriveExisting, Exists, Procs
<1>2. Surround
  BY Quiet DEF ArriveExisting
<1>3. CASE \E point \in {"inspect", "sync", "stopping", "destroying"} : Begin(t, point)
  BY <1>1, <1>2, <1>3, BusyGoes DEF Busy, Saving
<1>4. CASE Take(t, Extended(row), "save")
  <2>1. clock \in Nat /\ (row.expires = None \/ row.expires \in Nat)
    BY <1>1, ConstantsAssumption DEF PInv, TypeOK, Row, Times
  <2>2. (IF row.expires = None \/ row.expires < clock THEN clock + 1 ELSE row.expires + 1) \in Times
    BY <2>1 DEF Times
  <2>3. Extended(row) \in Row /\ Extended(row).status \in Stored
    BY <1>1, <2>2, OtherForms DEF Extended
  <2> QED
    BY <1>1, <1>2, <1>4, <2>3, BusyTakes DEF Busy
<1>5. CASE Take(t, Edited(row), "save")
  <2>1. Edited(row) \in Row /\ Edited(row).status \in Stored
    BY <1>1, Literals, StatusForms DEF Edited
  <2> QED
    BY <1>1, <1>2, <1>5, <2>1, BusyTakes DEF Busy
<1>6. CASE Take(t, [row EXCEPT !.expires = None], "save")
  <2>1. [row EXCEPT !.expires = None] \in Row /\ [row EXCEPT !.expires = None].status \in Stored
    BY <1>1, OtherForms DEF Times
  <2> QED
    BY <1>1, <1>2, <1>6, <2>1, BusyTakes DEF Busy
<1> QED
  BY <1>3, <1>4, <1>5, <1>6 DEF ArriveExisting

LEMMA ArriveInv == ASSUME PInv, NEW t \in Procs, Arrive(t) PROVE PInv'
BY ArriveDeployInv, ArriveExistingInv DEF Arrive

LEMMA DeployUpInv == ASSUME PInv, NEW t \in Procs, DeployUp(t) PROVE PInv'
<1>1. row.status # "none"
  BY AtWork DEF DeployUp, Idle
<1>2. Surround
  BY <1>1, Hosts DEF DeployUp
<1>3. PICK point \in {"deployed", "failed"} : Goto(t, point) /\ UNCHANGED locals
  BY DEF DeployUp
<1> QED
  BY <1>1, <1>2, <1>3, BusyGoes DEF Busy, Saving

LEMMA DeployDoneInv == ASSUME PInv, NEW t \in Procs, DeployDone(t) PROVE PInv'
<1>1. row.status # "none"
  BY AtWork DEF DeployDone, Idle
<1>2. CASE /\ row.status = "in_progress" /\ Return(t)
           /\ row' = IF pc[t] = "deployed" THEN SetStatus(row, "running", "none")
                     ELSE SetStatus(row, "error", "other")
  <2>1. row' \in Row /\ row'.status \in Stored
    BY <1>2, Types, Literals, StatusForms
  <2>2. Surround
    BY <1>2, <2>1, StoredIsNot, Writes DEF DeployDone
  <2> QED
    BY <1>2, <2>2, Returns
<1>3. CASE UNCHANGED row /\ Exists /\ See(t, row.status, "clean")
  <2>1. row.status \in Seen
    BY <1>3 DEF Exists, Seen
  <2>2. Surround
    BY <1>3, Quiet DEF DeployDone
  <2> QED
    BY <1>1, <1>3, <2>1, <2>2, BusyGoes DEF Busy, Saving
<1>4. CASE UNCHANGED row /\ Return(t)
  BY <1>4, Quiet, Returns DEF DeployDone
<1> QED
  BY <1>2, <1>3, <1>4 DEF DeployDone

(***************************************************************************)
(* The two marks that a request saves before it works on the host.         *)
(***************************************************************************)
LEMMA Marks ==
  ASSUME PInv, NEW t \in Procs, NEW s \in Stored, NEW point \in Busy \ Saving,
         row' = (IF Exists THEN [mem[t] EXCEPT !.status = s] ELSE row),
         UNCHANGED <<rt, mishaps, world>>, row.status # "none",
         \/ /\ Exists /\ Goto(t, point) /\ want' = [want EXCEPT ![t] = s]
            /\ UNCHANGED <<mem, obs>>
         \/ ~Exists /\ Return(t)
  PROVE  PInv'
<1>1. /\ [mem[t] EXCEPT !.status = s] \in Row /\ [mem[t] EXCEPT !.status = s].status \in Stored
  BY Types, Literals, StatusForms
<1>2. Surround
  BY <1>1, Types, StoredIsNot, Writes DEF Exists
<1>3. CASE /\ Goto(t, point) /\ want' = [want EXCEPT ![t] = s] /\ UNCHANGED <<mem, obs>>
  <2>1. PICK o \in Seen : o = obs[t]
    BY Types
  <2>2. point \in Points \ (Fatal \cup GuardOnly \cup Saving)
    BY BusyFacts
  <2>3. Allowed(point, o)' /\ row'.status # "none"
    BY <1>2, <2>2 DEF Allowed, Fatal, Surround
  <2>4. /\ mem' = [mem EXCEPT ![t] = mem[t]] /\ obs' = [obs EXCEPT ![t] = o]
        /\ pc' = [pc EXCEPT ![t] = point]
    BY <1>3, <2>1, Types DEF Goto
  <2> QED
    BY <1>2, <1>3, <2>2, <2>3, <2>4, Types, Moved
<1> QED
  BY <1>2, <1>3, Returns

LEMMA StopMarkInv == ASSUME PInv, NEW t \in Procs, StopMark(t) PROVE PInv'
<1>1. row.status # "none"
  BY AtWork DEF StopMark, Idle
<1>2. "halt" \in Busy \ Saving /\ "stopping" \in Stored
  BY Literals DEF Busy, Saving
<1> QED
  BY <1>1, <1>2, Marks DEF StopMark

LEMMA DestroyMarkInv == ASSUME PInv, NEW t \in Procs, DestroyMark(t) PROVE PInv'
<1>1. row.status # "none"
  BY AtWork DEF DestroyMark, Idle
<1>2. "destroy" \in Busy \ Saving /\ "destroying" \in Stored
  BY Literals DEF Busy, Saving
<1> QED
  BY <1>1, <1>2, Marks DEF DestroyMark

LEMMA StopHaltInv == ASSUME PInv, NEW t \in Procs, StopHalt(t) PROVE PInv'
<1>1. row.status # "none"
  BY AtWork DEF StopHalt, Idle
<1>2. Surround
  BY <1>1, Hosts DEF StopHalt
<1>3. PICK point \in {"halted", "haltfail"} : Goto(t, point) /\ UNCHANGED locals
  BY DEF StopHalt
<1> QED
  BY <1>1, <1>2, <1>3, BusyGoes DEF Busy, Saving

LEMMA StopReclaimInv == ASSUME PInv, NEW t \in Procs, StopReclaim(t) PROVE PInv'
<1>1. row.status # "none"
  BY AtWork DEF StopReclaim, Idle
<1>2. Surround
  BY Quiet DEF StopReclaim
<1>3. /\ [row EXCEPT !.status = "stopped"] \in Row
      /\ [row EXCEPT !.status = "stopped"].status \in Stored
      /\ SetStatus(row, "error", "other") \in Row
      /\ SetStatus(row, "error", "other").status \in Stored
  BY Types, Literals, StatusForms
<1> QED
  BY <1>1, <1>2, <1>3, BusyTakes, Returns DEF StopReclaim, Busy

LEMMA DestroyDownInv == ASSUME PInv, NEW t \in Procs, DestroyDown(t) PROVE PInv'
<1>1. Allowed("destroyrm", obs[t])'
  BY DEF Allowed
<1>2. {"destroy", "destroyrm", "destroyfail"} \subseteq Ordinary \ (Saving \cup GuardOnly \cup Idle)
  BY BusyFacts DEF Busy, Saving
<1>3. Ordinary \subseteq Points
  BY DEF Ordinary
<1> QED
  BY <1>1, <1>2, <1>3, Tears DEF DestroyDown

LEMMA DestroyRemoveInv == ASSUME PInv, NEW t \in Procs, DestroyRemove(t) PROVE PInv'
<1>1. row.status # "none"
  BY AtWork DEF DestroyRemove, Idle
<1>2. Surround
  BY <1>1, Hosts DEF DestroyRemove
<1>3. PICK point \in {"destroyed", "destroyfail"} : Goto(t, point) /\ UNCHANGED locals
  BY DEF DestroyRemove
<1> QED
  BY <1>1, <1>2, <1>3, BusyGoes DEF Busy, Saving

LEMMA DestroyRowInv == ASSUME PInv, NEW t \in Procs, DestroyRow(t) PROVE PInv'
<1>1. [Blank EXCEPT !.status = "deleted"] \in Row
  BY DEF Blank, Row, Times
<1>2. [Blank EXCEPT !.status = "deleted"].status = "deleted"
  BY DEF Blank
<1>3. Surround
  BY <1>1, <1>2, Writes DEF DestroyRow
<1> QED
  BY <1>3, Returns DEF DestroyRow

LEMMA DestroyFailedInv == ASSUME PInv, NEW t \in Procs, DestroyFailed(t) PROVE PInv'
<1>1. row.status # "none" /\ row.reason \in Reasons
  BY AtWork, Types DEF DestroyFailed, Idle, Row, Reasons
<1>2. Surround
  BY Quiet DEF DestroyFailed
<1>3. /\ SetStatus(row, "error", row.reason) \in Row
      /\ SetStatus(row, "error", row.reason).status \in Stored
  BY <1>1, Types, Literals, StatusForms
<1> QED
  BY <1>1, <1>2, <1>3, BusyTakes, Returns DEF DestroyFailed, Busy

LEMMA PushBuildInv == ASSUME PInv, NEW t \in Procs, PushBuild(t) PROVE PInv'
<1>1. row.status # "none"
  BY AtWork DEF PushBuild, Idle
<1>2. Surround
  BY Quiet DEF PushBuild
<1> QED
  BY <1>1, <1>2, BusyGoes, Returns DEF PushBuild, Busy, Saving

LEMMA PushBuiltInv == ASSUME PInv, NEW t \in Procs, PushBuilt(t) PROVE PInv'
<1>1. row.status # "none"
  BY AtWork DEF PushBuilt, Idle
<1>2. Surround
  BY Quiet DEF PushBuilt
<1>3. /\ SetStatus(row, "has_changes", "other") \in Row
      /\ SetStatus(row, "has_changes", "other").status \in Stored
      /\ row \in Row /\ (Exists => row.status \in Stored)
  BY Types, Literals, StatusForms DEF Exists
<1> QED
  BY <1>1, <1>2, <1>3, BusyTakes, Returns DEF PushBuilt, Busy

-----------------------------------------------------------------------------
(***************************************************************************)
(* The world.                                                              *)
(***************************************************************************)
LEMMA TimeInv == PInv /\ TimePasses => PInv'
BY ConstantsAssumption DEF PInv, TypeOK, TimePasses, Working, Allowed

LEMMA CooldownInv == PInv /\ CooldownEnds => PInv'
<1> SUFFICES ASSUME PInv, CooldownEnds PROVE PInv'
  OBVIOUS
<1>1. row' \in Row /\ row'.status = row.status
  BY OtherForms DEF CooldownEnds, PInv, TypeOK
<1>2. ASSUME NEW p \in Procs
      PROVE  mem'[p] \in Row /\ mem'[p].status = mem[p].status
  BY OtherForms DEF CooldownEnds, PInv, TypeOK
<1>3. mem' \in [Procs -> Row]
  BY <1>2 DEF CooldownEnds
<1>4. UNCHANGED <<rt, pc, want, obs, now, clock, mishaps>>
  BY DEF CooldownEnds
<1> QED
  BY <1>1, <1>2, <1>3, <1>4 DEF PInv, TypeOK, Working, Allowed

LEMMA UserEditsInv == PInv /\ UserEdits => PInv'
<1> SUFFICES ASSUME PInv, UserEdits PROVE PInv'
  OBVIOUS
<1>1. rt' \in Runtime /\ rt.dir /\ ~Destroying
  BY DEF UserEdits, PInv, TypeOK, Runtime
<1>2. UNCHANGED <<row, pc, mem, want, obs, now, clock, mishaps>>
  BY DEF UserEdits
<1>3. TypeOK'
  BY <1>1, <1>2 DEF PInv, TypeOK
<1>4. Allowed(pc[Guard], obs[Guard])'
  BY <1>1, <1>2 DEF PInv, Allowed, Destroying
<1> QED
  BY <1>1, <1>2, <1>3, <1>4 DEF PInv, Working

LEMMA HostDriftsInv == PInv /\ HostDrifts => PInv'
<1> SUFFICES ASSUME PInv, HostDrifts PROVE PInv'
  OBVIOUS
<1>1. rt' \in Runtime /\ rt.dir /\ rt'.src \in {rt.src, "clean"}
  BY DEF HostDrifts, PInv, TypeOK, Runtime
<1>2. UNCHANGED <<row, pc, mem, want, obs, now, clock>> /\ mishaps' \in 0 .. MaxMishaps
  BY ConstantsAssumption DEF HostDrifts, Mishap, PInv, TypeOK
<1>3. TypeOK'
  BY <1>1, <1>2 DEF PInv, TypeOK
<1>4. Allowed(pc[Guard], obs[Guard])'
  BY <1>1, <1>2 DEF PInv, Allowed
<1> QED
  BY <1>1, <1>2, <1>3, <1>4 DEF PInv, Working

LEMMA RestartInv == PInv /\ Restart => PInv'
<1> SUFFICES ASSUME PInv, Restart PROVE PInv'
  OBVIOUS
<1>1. row' \in Row /\ (row.status # "none" => row'.status # "none")
  <2>1. row \in Row
    BY DEF PInv, TypeOK
  <2>2. /\ SetStatus(row, "error", "other") \in Row
        /\ SetStatus(row, "error", "other").status \in Stored
    BY <2>1, Literals, StatusForms
  <2>3. row' = IF row.status = "in_progress" THEN SetStatus(row, "error", "other") ELSE row
    BY DEF Restart
  <2> QED
    BY <2>1, <2>2, <2>3, StoredIsNot
<1>2. mishaps' \in 0 .. MaxMishaps
  BY ConstantsAssumption DEF Restart, Mishap, PInv, TypeOK
<1>3. \A p \in Procs : pc'[p] \in {"tick", "new", "done"} /\ (p # Guard => pc'[p] # "tick")
  BY DEF Restart
<1>4. {"tick", "new", "done"} \subseteq Idle \cap Points /\ {"new", "done"} \cap GuardOnly = {}
  BY DEF Idle, Points, GuardPoints, RequestPoints, GuardOnly
<1>5. Blank \in Row /\ None \in Seen
  BY DEF Blank, Row, Times, Seen
<1>6. TypeOK'
  BY <1>1, <1>2, <1>3, <1>4, <1>5 DEF Restart, PInv, TypeOK
<1>7. \A p \in Procs : Working(p)'
  BY <1>3, <1>4 DEF Working, Saving
<1>8. Allowed(pc[Guard], obs[Guard])' /\ (rt'.dir => row'.status # "none")
  BY <1>1, <1>3 DEF Restart, Allowed, Procs, PInv
<1> QED
  BY <1>6, <1>7, <1>8 DEF PInv

-----------------------------------------------------------------------------
LEMMA StepInv == ASSUME PInv, NEW p \in Procs, Step(p) PROVE PInv'
<1>1. CASE Pass(p)
  BY <1>1, PassTickInv, PassLoadInv, ExpireInspectInv, ExpireDecideInv, ExpireDownInv,
     ExpireRemoveInv, ExpireFailedInv, ExpireConfirmInv, ExpireDeleteInv, SweepListInv,
     SweepRowsInv, SweepDownInv, SweepRemoveInv DEF Pass
<1>2. CASE Refresh(p)
  BY <1>2, PassReloadInv, SyncRunInv, SyncRecordInv, SyncSaveInv, RefreshInspectInv,
     RefreshObserveInv, RefreshSaveInv, RefreshDriftInv, RepairBeginInv, RepairSyncInv,
     RepairPreserveInv, RepairCheckInv, RepairUpInv, RepairSettleInv, CleanStopInv,
     CleanDestroyInv, CleanRemoveInv, SaveAndReturnInv DEF Refresh
<1>3. CASE Handle(p)
  BY <1>3, DeployUpInv, DeployDoneInv, StopMarkInv, StopHaltInv, StopReclaimInv,
     DestroyMarkInv, DestroyDownInv, DestroyRemoveInv, DestroyRowInv, DestroyFailedInv,
     PushBuildInv, PushBuiltInv DEF Handle
<1> QED
  BY <1>1, <1>2, <1>3 DEF Step

LEMMA NextPInv == PInv /\ [Next]_vars => PInv'
<1> SUFFICES ASSUME PInv, [Next]_vars PROVE PInv'
  OBVIOUS
<1>1. CASE UNCHANGED vars
  BY <1>1 DEF vars, PInv, TypeOK, Working, Allowed
<1>2. CASE Next
  BY <1>2, ArriveInv, StepInv, TimeInv, CooldownInv, UserEditsInv, HostDriftsInv, RestartInv
     DEF Next
<1> QED
  BY <1>1, <1>2

THEOREM PInvAlways == Spec => []PInv
  BY InitPInv, NextPInv, PTL DEF Spec

(***************************************************************************)
(* Whatever stale copies the requests, the webhook and the loop save over  *)
(* each other, the row keeps to the documented statuses.                   *)
(***************************************************************************)
THEOREM TypeCorrect == Spec => []TypeOK
<1>1. PInv => TypeOK
  BY DEF PInv
<1> QED
  BY <1>1, PInvAlways, PTL

(***************************************************************************)
(* reconcileOwnedRemoteOrphans destroys no project that a row represents:  *)
(* a directory listed before the rows had its row at that time, so a       *)
(* missing row is one that was deleted, and those do not come back.        *)
(***************************************************************************)
THEOREM SweepIsSafe == Spec => []SweepSparesRows
<1>1. PInv => SweepSparesRows
  BY StoredIsNot DEF PInv, Allowed, SweepSparesRows, Reaping, Exists
<1> QED
  BY <1>1, PInvAlways, PTL

(***************************************************************************)
(* enforceExpiration destroys nothing before its check has found every     *)
(* checkout clean, however often commands fail or the process restarts.    *)
(***************************************************************************)
THEOREM ExpirationIsSafe == Spec => []ExpirationKeepsWork
<1>1. PInv => ExpirationKeepsWork
  BY DEF PInv, Allowed, ExpirationKeepsWork
<1> QED
  BY <1>1, PInvAlways, PTL
=============================================================================
