----------------------- MODULE SourceCheckoutProofs -----------------------
(***************************************************************************)
(* Proofs about SourceCheckout, for any number of threads, checkouts,      *)
(* commits and failures.  They rest on SourceSyncLocksProofs: whatever the *)
(* syncs, the user and the remote do, the locks only take lock steps, so   *)
(* a thread inside its sync is alone on its checkout and on the staging    *)
(* directory beside it.                                                    *)
(***************************************************************************)
EXTENDS SourceCheckout, SourceSyncLocksProofs

Staged == {repo \in Repo : repo.local # None} \cup {Absent}

(***************************************************************************)
(* The inductive invariant.  Inside says that a sync runs exactly while    *)
(* its thread holds the lock; Sound is what holds of every checkout, and   *)
(* Ready what a sync at point p may count on: r and m are what is at its   *)
(* path and in its staging directory, s is the history it has cloned.      *)
(***************************************************************************)
Inside == \A t \in Threads : at[t] # "out" <=> pc[t] = "sync"

Sound(r) == r.kind = "repo" => r.whole /\ (r.current => r.local # None)

Ready(p, r, m, s) ==
  /\ p \in {"clear", "upload", "remove", "rename"} => s # None
  /\ p \in {"remove", "rename"} => m # Absent /\ m.whole
  /\ p = "checkout" /\ r.kind = "repo" => r.tracking # None
  /\ p \in {"clone", "clear", "upload", "remove", "rename"} => r = Absent

Disk ==
  /\ SourcesTypeOK
  /\ Inside
  /\ \A k \in Keys : Sound(tree[k])
  /\ \A t \in Threads : Ready(at[t], tree[key[t]], tmp[key[t]], staged[t])

CInv == LInv /\ Disk

-----------------------------------------------------------------------------
LEMMA InitCInv == InitSources => CInv
<1> SUFFICES ASSUME InitSources PROVE CInv
  OBVIOUS
<1>1. LInv
  BY InitLInv DEF InitSources
<1>2. Elsewhere \in Repo
  BY DEF Elsewhere, Repo
<1>3. SourcesTypeOK
  BY <1>2, TroubleAssumption DEF InitSources, SourcesTypeOK, Histories, SyncPoints, Results
<1>4. Inside
  BY DEF InitSources, Init, Inside
<1>5. \A k \in Keys : Sound(tree[k])
  BY DEF InitSources, Sound, Absent, Plain, Elsewhere
<1>6. \A t \in Threads : Ready(at[t], tree[key[t]], tmp[key[t]], staged[t])
  BY DEF InitSources, Ready
<1> QED
  BY <1>1, <1>3, <1>4, <1>5, <1>6 DEF CInv, Disk

(***************************************************************************)
(* The locks take their own steps only.                                    *)
(***************************************************************************)
LEMMA LocksStep == [NextSources]_allVars => [Next]_vars
BY DEF NextSources, allVars, Waits, BeginSync, EndSync, SyncStep, GiveUp, Stat,
       Status, Fetch, Checkout, Relation, Pull, Vanished, Clone, ClearTmp, Upload,
       RemoveTarget, Rename, UserWorks, RemoteMoves, Next

LEMMA LocksInvariant == CInv /\ [NextSources]_allVars => LInv'
BY LocksStep, NextLInv DEF CInv

(***************************************************************************)
(* Two threads inside a sync are on different checkouts.                   *)
(***************************************************************************)
LEMMA Alone ==
  ASSUME CInv, NEW t \in Threads, NEW u \in Threads,
         at[t] # "out", at[u] # "out", key[t] = key[u]
  PROVE  t = u
BY EntriesAssumption DEF CInv, Disk, Inside, LInv, TypeOK, Mapped, Owned

(***************************************************************************)
(* A step of one sync: it leaves r at its path, m in its staging           *)
(* directory, goes to p with s cloned and c as its category.               *)
(***************************************************************************)
LEMMA OneStep ==
  ASSUME CInv, NEW t \in Threads, at[t] # "out", UNCHANGED <<vars, upstream>>,
         NEW r \in Repo \cup {Absent, Plain}, NEW m \in Staged,
         NEW p \in SyncPoints, p # "out",
         NEW s \in Histories \cup {None}, NEW c \in Results,
         tree' = [tree EXCEPT ![key[t]] = r],
         tmp' = [tmp EXCEPT ![key[t]] = m],
         at' = [at EXCEPT ![t] = p],
         staged' = [staged EXCEPT ![t] = s],
         result' = [result EXCEPT ![t] = c],
         trouble' \in 0..MaxTrouble,
         Sound(r), Ready(p, r, m, s)
  PROVE  Disk'
<1>1. key[t] \in Keys /\ key' = key /\ pc' = pc
  BY DEF CInv, LInv, TypeOK, vars
<1>2. SourcesTypeOK'
  BY <1>1 DEF CInv, Disk, SourcesTypeOK, Staged
<1>3. Inside'
  BY <1>1 DEF CInv, Disk, SourcesTypeOK, Inside
<1>4. ASSUME NEW k \in Keys PROVE Sound(tree'[k])
  BY <1>1 DEF CInv, Disk, SourcesTypeOK
<1>5. ASSUME NEW u \in Threads
      PROVE  Ready(at'[u], tree'[key'[u]], tmp'[key'[u]], staged'[u])
  <2>1. CASE u = t
    BY <2>1, <1>1 DEF CInv, Disk, SourcesTypeOK
  <2>2. CASE u # t /\ at[u] = "out"
    BY <2>2 DEF CInv, Disk, SourcesTypeOK, Ready
  <2>3. CASE u # t /\ at[u] # "out"
    <3>1. key[u] # key[t]
      BY <2>3, Alone
    <3>2. key[u] \in Keys
      BY DEF CInv, LInv, TypeOK
    <3>3. Ready(at[u], tree[key[u]], tmp[key[u]], staged[u])
      BY DEF CInv, Disk
    <3>4. /\ at'[u] = at[u] /\ staged'[u] = staged[u] /\ key'[u] = key[u]
          /\ tree'[key[u]] = tree[key[u]] /\ tmp'[key[u]] = tmp[key[u]]
      BY <2>3, <3>1, <3>2, <1>1 DEF CInv, Disk, SourcesTypeOK
    <3> QED
      BY <3>3, <3>4
  <2> QED
    BY <2>1, <2>2, <2>3
<1> QED
  BY <1>2, <1>3, <1>4, <1>5 DEF Disk

(***************************************************************************)
(* What OneStep asks of the values that a step leaves alone.               *)
(***************************************************************************)
LEMMA Here ==
  ASSUME CInv, NEW t \in Threads
  PROVE  /\ key[t] \in Keys
         /\ tree[key[t]] \in Repo \cup {Absent, Plain} /\ Sound(tree[key[t]])
         /\ IsRepo(key[t]) => tree[key[t]] \in Repo
         /\ tmp[key[t]] \in Staged
         /\ upstream[key[t]] \in Histories \cup {None}
         /\ staged[t] \in Histories \cup {None} /\ result[t] \in Results
         /\ Ready(at[t], tree[key[t]], tmp[key[t]], staged[t])
         /\ trouble \in 0..MaxTrouble /\ None \in Results
         /\ tree = [tree EXCEPT ![key[t]] = tree[key[t]]]
         /\ tmp = [tmp EXCEPT ![key[t]] = tmp[key[t]]]
         /\ at = [at EXCEPT ![t] = at[t]]
         /\ staged = [staged EXCEPT ![t] = staged[t]]
         /\ result = [result EXCEPT ![t] = result[t]]
BY DEF CInv, Disk, LInv, TypeOK, SourcesTypeOK, Staged, Results, IsRepo, Absent, Plain, Repo

(***************************************************************************)
(* A step that leaves the disk alone and goes on at p, or ends.            *)
(***************************************************************************)
LEMMA GoesOn ==
  ASSUME CInv, NEW t \in Threads, at[t] # "out", UNCHANGED <<vars, repos, trouble>>,
         NEW p \in SyncPoints \ {"out", "upload", "remove", "rename", "clear"},
         p = "checkout" => at[t] = "checkout",
         p = "clone" => tree[key[t]] = Absent,
         Go(t, p)
  PROVE  Disk'
<1>1. Ready(p, tree[key[t]], tmp[key[t]], staged[t])
  BY Here DEF Ready
<1>2. /\ tree' = [tree EXCEPT ![key[t]] = tree[key[t]]]
      /\ tmp' = [tmp EXCEPT ![key[t]] = tmp[key[t]]]
      /\ at' = [at EXCEPT ![t] = p]
      /\ staged' = [staged EXCEPT ![t] = staged[t]]
      /\ result' = [result EXCEPT ![t] = result[t]]
  BY Here DEF Go, repos
<1>3. trouble' \in 0..MaxTrouble /\ UNCHANGED <<vars, upstream>>
  BY Here DEF repos
<1> QED
  BY <1>1, <1>2, <1>3, Here, OneStep

LEMMA Ends ==
  ASSUME CInv, NEW t \in Threads, at[t] # "out", UNCHANGED <<vars, repos>>,
         NEW c \in Results, trouble' \in 0..MaxTrouble, EndWith(t, c)
  PROVE  Disk'
<1>1. Ready("end", tree[key[t]], tmp[key[t]], None)
  BY DEF Ready
<1>2. "end" \in SyncPoints
  BY DEF SyncPoints
<1> QED
  BY <1>1, <1>2, Here, OneStep DEF EndWith, repos

(***************************************************************************)
(* A git command leaves r at the path, and goes on at p or ends with c.    *)
(***************************************************************************)
LEMMA Moves ==
  ASSUME CInv, NEW t \in Threads, at[t] # "out",
         UNCHANGED <<vars, tmp, upstream, trouble>>,
         NEW r \in Repo \cup {Absent, Plain}, Sound(r), SetTree(key[t], r),
         NEW p \in SyncPoints, NEW c \in Results,
         \/ p \in {"checkout", "relation", "rename"} /\ Go(t, p)
         \/ p = "end" /\ EndWith(t, c),
         Ready(p, r, tmp[key[t]], staged[t])
  PROVE  Disk'
<1>1. CASE p = "end" /\ EndWith(t, c)
  <2>1. Ready(p, r, tmp[key[t]], None)
    BY <1>1 DEF Ready
  <2> QED
    BY <1>1, <2>1, Here, OneStep DEF EndWith, SetTree
<1>2. CASE p \in {"checkout", "relation", "rename"} /\ Go(t, p)
  <2>1. /\ tree' = [tree EXCEPT ![key[t]] = r]
        /\ tmp' = [tmp EXCEPT ![key[t]] = tmp[key[t]]]
        /\ at' = [at EXCEPT ![t] = p]
        /\ staged' = [staged EXCEPT ![t] = staged[t]]
        /\ result' = [result EXCEPT ![t] = result[t]]
    BY <1>2, Here DEF Go, SetTree
  <2>2. trouble' \in 0..MaxTrouble /\ UNCHANGED <<vars, upstream>>
    BY Here
  <2> QED
    BY <1>2, <2>1, <2>2, Here, OneStep
<1> QED
  BY <1>1, <1>2

-----------------------------------------------------------------------------
(***************************************************************************)
(* One lemma per action.                                                   *)
(***************************************************************************)
LEMMA StatDisk == ASSUME CInv, NEW t \in Threads, Stat(t) PROVE Disk'
<1>1. at[t] # "out" /\ UNCHANGED <<vars, repos, trouble>>
  BY DEF Stat
<1>2. CASE Go(t, "status")
  BY <1>1, <1>2, GoesOn, at[t] = "stat" DEF Stat, SyncPoints
<1>3. CASE Go(t, "clone") /\ tree[key[t]] = Absent
  BY <1>1, <1>3, GoesOn DEF Stat, Path, Go, SyncPoints
<1>4. CASE EndWith(t, "checkout_failed")
  BY <1>1, <1>4, Here, Ends DEF Results, PreservesWork
<1> QED
  BY <1>2, <1>3, <1>4 DEF Stat, Path

LEMMA StatusDisk == ASSUME CInv, NEW t \in Threads, Status(t) PROVE Disk'
<1>1. at[t] # "out" /\ UNCHANGED <<vars, repos, trouble>>
  BY DEF Status
<1>2. CASE Go(t, "fetch")
  BY <1>1, <1>2, GoesOn DEF SyncPoints
<1>3. CASE EndWith(t, "dirty_work")
  BY <1>1, <1>3, Here, Ends DEF Results, PreservesWork
<1> QED
  BY <1>2, <1>3 DEF Status

LEMMA FetchDisk == ASSUME CInv, NEW t \in Threads, Fetch(t) PROVE Disk'
<1> DEFINE r == [tree[key[t]] EXCEPT !.tracking = upstream[key[t]]]
<1>1. at[t] = "fetch" /\ tree[key[t]] \in Repo /\ SetTree(key[t], r)
  BY Here DEF Fetch, Path
<1>2. r \in Repo /\ Sound(r) /\ r.tracking = upstream[key[t]]
  BY <1>1, Here DEF Repo, Sound
<1>3. UNCHANGED <<vars, tmp, upstream, trouble>>
  BY DEF Fetch
<1>4. CASE upstream[key[t]] = None /\ EndWith(t, "missing_upstream")
  <2>1. Ready("end", r, tmp[key[t]], staged[t])
    BY DEF Ready
  <2> HIDE DEF r
  <2> QED
    BY <1>1, <1>2, <1>3, <1>4, <2>1, Moves DEF Results, PreservesWork, SyncPoints
<1>5. CASE upstream[key[t]] # None /\ Go(t, "checkout")
  <2>1. Ready("checkout", r, tmp[key[t]], staged[t])
    BY <1>2, <1>5 DEF Ready
  <2> HIDE DEF r
  <2> QED
    BY <1>1, <1>2, <1>3, <1>5, <2>1, Moves, Here DEF SyncPoints
<1> QED
  BY <1>4, <1>5 DEF Fetch, Path

LEMMA CheckoutDisk == ASSUME CInv, NEW t \in Threads, Checkout(t) PROVE Disk'
<1> DEFINE r == [tree[key[t]] EXCEPT
                   !.current = TRUE,
                   !.local = IF tree[key[t]].local = None THEN tree[key[t]].tracking
                             ELSE tree[key[t]].local]
<1>1. at[t] = "checkout" /\ tree[key[t]] \in Repo /\ tree[key[t]].kind = "repo"
  BY Here DEF Checkout, Path, IsRepo
<1>2. UNCHANGED <<vars, tmp, upstream, trouble>>
  BY DEF Checkout
<1>3. CASE SetTree(key[t], r) /\ Go(t, "relation")
  <2>1. tree[key[t]].tracking # None
    BY <1>1, Here DEF Ready
  <2>2. r \in Repo /\ Sound(r)
    BY <1>1, <2>1, Here DEF Repo, Sound
  <2>3. Ready("relation", r, tmp[key[t]], staged[t])
    BY DEF Ready
  <2> HIDE DEF r
  <2> QED
    BY <1>1, <1>2, <1>3, <2>2, <2>3, Moves, Here DEF SyncPoints
<1>4. CASE EndWith(t, "checkout_failed") /\ UNCHANGED tree
  BY <1>1, <1>2, <1>4, Here, Ends DEF Results, PreservesWork, repos
<1> QED
  BY <1>3, <1>4 DEF Checkout, Path

LEMMA RelationDisk == ASSUME CInv, NEW t \in Threads, Relation(t) PROVE Disk'
<1>1. at[t] # "out" /\ UNCHANGED <<vars, repos, trouble>>
  BY DEF Relation
<1>2. CASE Go(t, "pull")
  BY <1>1, <1>2, GoesOn DEF SyncPoints
<1>3. CASE EndWith(t, "diverged")
  BY <1>1, <1>3, Here, Ends DEF Results, PreservesWork
<1>4. CASE EndWith(t, "ahead")
  BY <1>1, <1>4, Here, Ends DEF Results, PreservesWork
<1> QED
  BY <1>2, <1>3, <1>4 DEF Relation

LEMMA PullDisk == ASSUME CInv, NEW t \in Threads, Pull(t) PROVE Disk'
<1> DEFINE r == [tree[key[t]] EXCEPT !.local = upstream[key[t]],
                                     !.tracking = upstream[key[t]]]
<1>1. at[t] = "pull" /\ tree[key[t]] \in Repo /\ tree[key[t]].kind = "repo"
  BY Here DEF Pull, Path, IsRepo
<1>2. UNCHANGED <<vars, tmp, upstream, trouble>>
  BY DEF Pull
<1>3. CASE upstream[key[t]] # None /\ SetTree(key[t], r) /\ EndWith(t, "ok")
  <2>1. r \in Repo /\ Sound(r)
    BY <1>1, <1>3, Here DEF Repo, Sound
  <2>2. Ready("end", r, tmp[key[t]], staged[t])
    BY DEF Ready
  <2> HIDE DEF r
  <2> QED
    BY <1>1, <1>2, <1>3, <2>1, <2>2, Moves DEF Results, SyncPoints
<1>4. CASE EndWith(t, "failed") /\ UNCHANGED tree
  BY <1>1, <1>2, <1>4, Here, Ends DEF Results, repos
<1> QED
  BY <1>3, <1>4 DEF Pull, Path

LEMMA VanishedDisk == ASSUME CInv, NEW t \in Threads, Vanished(t) PROVE Disk'
<1>1. at[t] # "out" /\ UNCHANGED <<vars, repos, trouble>>
  BY DEF Vanished
<1>2. PICK c \in {"checkout_failed", "history_unverifiable", "failed"} : EndWith(t, c)
  BY DEF Vanished
<1>3. c \in Results
  BY DEF Results, PreservesWork
<1> QED
  BY <1>1, <1>2, <1>3, Here, Ends

LEMMA GiveUpDisk == ASSUME CInv, NEW t \in Threads, GiveUp(t) PROVE Disk'
<1>1. at[t] # "out" /\ UNCHANGED <<vars, repos>>
  BY DEF GiveUp
<1>2. trouble' \in 0..MaxTrouble
  BY Here, TroubleAssumption DEF GiveUp, Trouble
<1>3. PICK c \in {"git_auth", "repository_not_found", "failed"} : EndWith(t, c)
  BY DEF GiveUp
<1>4. c \in Results
  BY DEF Results
<1> QED
  BY <1>1, <1>2, <1>3, <1>4, Ends

LEMMA CloneDisk == ASSUME CInv, NEW t \in Threads, Clone(t) PROVE Disk'
<1>1. at[t] # "out" /\ UNCHANGED <<vars, repos, trouble>>
  BY DEF Clone
<1>2. CASE EndWith(t, "repository_not_found")
  BY <1>1, <1>2, Here, Ends DEF Results
<1>3. CASE /\ upstream[key[t]] # None /\ staged' = [staged EXCEPT ![t] = upstream[key[t]]]
           /\ at' = [at EXCEPT ![t] = "clear"] /\ UNCHANGED result
  <2>1. Ready("clear", tree[key[t]], tmp[key[t]], upstream[key[t]])
    BY <1>3, Here DEF Clone, Ready
  <2>2. "clear" \in SyncPoints
    BY DEF SyncPoints
  <2>3. /\ tree' = [tree EXCEPT ![key[t]] = tree[key[t]]]
        /\ tmp' = [tmp EXCEPT ![key[t]] = tmp[key[t]]]
        /\ result' = [result EXCEPT ![t] = result[t]]
    BY <1>1, <1>3, Here DEF repos
  <2>4. trouble' \in 0..MaxTrouble /\ UNCHANGED <<vars, upstream>>
    BY <1>1, Here DEF repos
  <2>5. upstream[key[t]] \in Histories \cup {None} /\ tree[key[t]] \in Repo \cup {Absent, Plain}
        /\ tmp[key[t]] \in Staged /\ result[t] \in Results /\ Sound(tree[key[t]])
    BY Here
  <2> QED
    BY <1>1, <1>3, <2>1, <2>2, <2>3, <2>4, <2>5, OneStep
<1> QED
  BY <1>2, <1>3 DEF Clone, Path

LEMMA ClearDisk == ASSUME CInv, NEW t \in Threads, ClearTmp(t) PROVE Disk'
<1>1. at[t] = "clear" /\ Absent \in Staged /\ "upload" \in SyncPoints
  BY DEF ClearTmp, Staged, SyncPoints
<1>2. Ready("upload", tree[key[t]], Absent, staged[t])
  BY <1>1, Here DEF Ready
<1>3. /\ tree' = [tree EXCEPT ![key[t]] = tree[key[t]]]
      /\ tmp' = [tmp EXCEPT ![key[t]] = Absent]
      /\ at' = [at EXCEPT ![t] = "upload"]
      /\ staged' = [staged EXCEPT ![t] = staged[t]]
      /\ result' = [result EXCEPT ![t] = result[t]]
  BY Here DEF ClearTmp, Path, Go, SetTmp
<1>4. trouble' \in 0..MaxTrouble /\ UNCHANGED <<vars, upstream>>
  BY Here DEF ClearTmp
<1> QED
  BY <1>1, <1>2, <1>3, <1>4, Here, OneStep

LEMMA UploadDisk == ASSUME CInv, NEW t \in Threads, Upload(t) PROVE Disk'
<1>1. at[t] = "upload" /\ staged[t] # None
  BY Here DEF Upload, Ready
<1>2. ASSUME NEW whole \in BOOLEAN
      PROVE  /\ Cloned(staged[t], whole) \in Staged /\ Cloned(staged[t], whole).whole = whole
             /\ Cloned(staged[t], whole) # Absent
  BY <1>1, Here DEF Cloned, Staged, Repo, Absent
<1>3. CASE /\ SetTmp(key[t], Cloned(staged[t], FALSE))
           /\ UNCHANGED <<at, staged, result>>
  <2>1. Ready("upload", tree[key[t]], Cloned(staged[t], FALSE), staged[t])
    BY <1>1, Here DEF Ready
  <2>2. "upload" \in SyncPoints
    BY DEF SyncPoints
  <2>3. /\ tree' = [tree EXCEPT ![key[t]] = tree[key[t]]]
        /\ tmp' = [tmp EXCEPT ![key[t]] = Cloned(staged[t], FALSE)]
        /\ at' = [at EXCEPT ![t] = "upload"]
        /\ staged' = [staged EXCEPT ![t] = staged[t]]
        /\ result' = [result EXCEPT ![t] = result[t]]
    BY <1>1, <1>3, Here DEF Upload, SetTmp
  <2>4. trouble' \in 0..MaxTrouble /\ UNCHANGED <<vars, upstream>>
    BY Here DEF Upload
  <2> QED
    BY <1>1, <1>2, <2>1, <2>2, <2>3, <2>4, Here, OneStep
<1>4. CASE SetTmp(key[t], Cloned(staged[t], TRUE)) /\ Go(t, "remove")
  <2>1. Ready("remove", tree[key[t]], Cloned(staged[t], TRUE), staged[t])
    BY <1>1, <1>2, Here DEF Ready
  <2>2. "remove" \in SyncPoints
    BY DEF SyncPoints
  <2>3. /\ tree' = [tree EXCEPT ![key[t]] = tree[key[t]]]
        /\ tmp' = [tmp EXCEPT ![key[t]] = Cloned(staged[t], TRUE)]
        /\ at' = [at EXCEPT ![t] = "remove"]
        /\ staged' = [staged EXCEPT ![t] = staged[t]]
        /\ result' = [result EXCEPT ![t] = result[t]]
    BY <1>1, <1>4, Here DEF Upload, SetTmp, Go
  <2>4. trouble' \in 0..MaxTrouble /\ UNCHANGED <<vars, upstream>>
    BY Here DEF Upload
  <2> QED
    BY <1>1, <1>2, <2>1, <2>2, <2>3, <2>4, Here, OneStep
<1> QED
  BY <1>3, <1>4 DEF Upload, Path

LEMMA RemoveDisk == ASSUME CInv, NEW t \in Threads, RemoveTarget(t) PROVE Disk'
<1>1. at[t] = "remove" /\ Sound(Absent)
  BY DEF RemoveTarget, Sound, Absent
<1>2. Ready("rename", Absent, tmp[key[t]], staged[t])
  BY <1>1, Here DEF Ready
<1> QED
  BY <1>1, <1>2, Here, Moves DEF RemoveTarget, Path, SyncPoints

LEMMA RenameDisk == ASSUME CInv, NEW t \in Threads, Rename(t) PROVE Disk'
<1>1. at[t] = "rename" /\ tmp[key[t]] # Absent /\ tmp[key[t]].whole
  BY Here DEF Rename, Ready
<1>2. tmp[key[t]] \in Repo /\ Sound(tmp[key[t]]) /\ Absent \in Staged
  BY <1>1, Here DEF Staged, Sound
<1>3. Ready("end", tmp[key[t]], Absent, None)
  BY DEF Ready
<1>4. "end" \in SyncPoints /\ "ok" \in Results
  BY DEF SyncPoints, Results
<1> QED
  BY <1>1, <1>2, <1>3, <1>4, Here, OneStep DEF Rename, Path, EndWith, SetTree, SetTmp

-----------------------------------------------------------------------------
LEMMA SyncStepDisk ==
  ASSUME CInv, NEW t \in Threads, SyncStep(t)
  PROVE  Disk'
BY StatDisk, StatusDisk, FetchDisk, CheckoutDisk, RelationDisk, PullDisk, VanishedDisk,
   CloneDisk, ClearDisk, UploadDisk, RemoveDisk, RenameDisk DEF SyncStep

(***************************************************************************)
(* Taking and releasing the lock: a thread enters its sync with nothing    *)
(* to count on and leaves it with nothing left to do.                      *)
(***************************************************************************)
LEMMA WaitsDisk == ASSUME CInv, NEW t \in Threads, Waits(t) PROVE Disk'
<1>1. UNCHANGED <<repos, at, staged, result, trouble>>
  BY DEF Waits
<1>2. SourcesTypeOK'
  BY <1>1 DEF CInv, Disk, SourcesTypeOK, repos
<1>3. pc[t] # "sync" /\ pc'[t] # "sync" /\ \A u \in Threads : u # t => pc'[u] = pc[u] /\ key'[u] = key[u]
  BY DEF Waits, Lock, Release, CInv, LInv, TypeOK
<1>4. Inside'
  BY <1>1, <1>3 DEF CInv, Disk, Inside
<1>5. (\A k \in Keys : Sound(tree[k]))'
  BY <1>1 DEF CInv, Disk, repos
<1>6. ASSUME NEW u \in Threads
      PROVE  Ready(at'[u], tree'[key'[u]], tmp'[key'[u]], staged'[u])
  <2>1. CASE u = t
    BY <2>1, <1>1, <1>3 DEF CInv, Disk, Inside, Ready
  <2>2. CASE u # t
    BY <2>2, <1>1, <1>3 DEF CInv, Disk, repos
  <2> QED
    BY <2>1, <2>2
<1> QED
  BY <1>2, <1>4, <1>5, <1>6 DEF Disk

LEMMA BeginDisk == ASSUME CInv, NEW t \in Threads, BeginSync(t) PROVE Disk'
<1>1. UNCHANGED <<repos, key, staged, result, trouble>> /\ at' = [at EXCEPT ![t] = "stat"]
      /\ pc' = [pc EXCEPT ![t] = "sync"]
  BY DEF BeginSync, Acquire, Go
<1>2. SourcesTypeOK'
  BY <1>1 DEF CInv, Disk, SourcesTypeOK, repos, SyncPoints
<1>3. Inside'
  BY <1>1 DEF CInv, Disk, LInv, TypeOK, SourcesTypeOK, Inside
<1>4. (\A k \in Keys : Sound(tree[k]))'
  BY <1>1 DEF CInv, Disk, repos
<1>5. (\A u \in Threads : Ready(at[u], tree[key[u]], tmp[key[u]], staged[u]))'
  BY <1>1 DEF CInv, Disk, SourcesTypeOK, repos, Ready
<1> QED
  BY <1>2, <1>3, <1>4, <1>5 DEF Disk

LEMMA EndDisk == ASSUME CInv, NEW t \in Threads, EndSync(t) PROVE Disk'
<1>1. UNCHANGED <<repos, key, staged, result, trouble>> /\ at' = [at EXCEPT ![t] = "out"]
      /\ pc' = [pc EXCEPT ![t] = "unref"]
  BY DEF EndSync, Unlock, Go
<1>2. SourcesTypeOK'
  BY <1>1 DEF CInv, Disk, SourcesTypeOK, repos, SyncPoints
<1>3. Inside'
  BY <1>1 DEF CInv, Disk, LInv, TypeOK, SourcesTypeOK, Inside
<1>4. (\A k \in Keys : Sound(tree[k]))'
  BY <1>1 DEF CInv, Disk, repos
<1>5. (\A u \in Threads : Ready(at[u], tree[key[u]], tmp[key[u]], staged[u]))'
  BY <1>1 DEF CInv, Disk, SourcesTypeOK, repos, Ready
<1> QED
  BY <1>2, <1>3, <1>4, <1>5 DEF Disk

(***************************************************************************)
(* The user and the remote.  The user may take the checkout away or commit *)
(* under a running sync; the tracking branch stays as it was fetched.      *)
(***************************************************************************)
LEMMA UserDisk == ASSUME CInv, NEW k \in Keys, UserWorks(k) PROVE Disk'
<1>0. Trouble /\ IsRepo(k)
  BY DEF UserWorks
<1>1. tree[k] \in Repo /\ tree[k].kind = "repo" /\ Sound(tree[k])
  BY <1>0 DEF IsRepo, CInv, Disk, SourcesTypeOK, Absent, Plain
<1>2. UNCHANGED <<vars, tmp, upstream, at, staged, result>> /\ trouble' \in 0..MaxTrouble
  <2>1. UNCHANGED <<vars, tmp, upstream, at, staged, result>>
    BY DEF UserWorks
  <2> QED
    BY <1>0, <2>1, TroubleAssumption DEF Trouble, CInv, Disk, SourcesTypeOK
<1> DEFINE edited == [tree[k] EXCEPT !.dirty = TRUE]
           switched == [tree[k] EXCEPT !.current = FALSE]
           committed(c) == [tree[k] EXCEPT !.local = tree[k].local \cup {c}, !.dirty = FALSE]
<1>3. \E r \in Repo \cup {Absent} :
        /\ SetTree(k, r) /\ Sound(r)
        /\ r.kind = "repo" => r.tracking = tree[k].tracking
  <2>1. /\ edited \in Repo /\ Sound(edited) /\ edited.tracking = tree[k].tracking
        /\ switched \in Repo /\ Sound(switched) /\ switched.tracking = tree[k].tracking
    BY <1>1 DEF Repo, Sound
  <2>2. ASSUME tree[k].current, NEW c \in Commits
        PROVE  /\ committed(c) \in Repo /\ Sound(committed(c))
               /\ committed(c).tracking = tree[k].tracking
    <3>1. tree[k].local \in Histories
      BY <1>1, <2>2 DEF Sound, Repo
    <3>2. tree[k].local \cup {c} \in Histories
      BY <3>1 DEF Histories
    <3>3. tree[k].local \cup {c} # None
      BY <3>2, NoneAssumption DEF Histories
    <3> QED
      BY <1>1, <3>2, <3>3 DEF Sound, Repo
  <2>3. Sound(Absent) /\ Absent.kind # "repo"
    BY DEF Sound, Absent
  <2>4. \/ SetTree(k, edited) \/ SetTree(k, switched) \/ SetTree(k, Absent)
        \/ tree[k].current /\ \E c \in Commits : SetTree(k, committed(c))
    BY DEF UserWorks
  <2> HIDE DEF edited, switched, committed
  <2> QED
    BY <2>1, <2>2, <2>3, <2>4
<1>4. PICK r \in Repo \cup {Absent} :
        /\ tree' = [tree EXCEPT ![k] = r] /\ Sound(r)
        /\ r.kind = "repo" => r.tracking = tree[k].tracking
  BY <1>3 DEF SetTree
<1>5. SourcesTypeOK'
  BY <1>2, <1>4 DEF CInv, Disk, SourcesTypeOK
<1>6. Inside'
  BY <1>2 DEF CInv, Disk, Inside, vars
<1>7. (\A l \in Keys : Sound(tree[l]))'
  BY <1>4 DEF CInv, Disk, SourcesTypeOK
<1>8. (\A u \in Threads : Ready(at[u], tree[key[u]], tmp[key[u]], staged[u]))'
  BY <1>1, <1>2, <1>4 DEF CInv, Disk, SourcesTypeOK, LInv, TypeOK, vars, Ready, Absent
<1> QED
  BY <1>5, <1>6, <1>7, <1>8 DEF Disk

LEMMA RemoteDisk == ASSUME CInv, NEW k \in Keys, RemoteMoves(k) PROVE Disk'
<1>1. UNCHANGED <<vars, tree, tmp, at, staged, result>> /\ trouble' \in 0..MaxTrouble
  BY TroubleAssumption DEF RemoteMoves, Trouble, CInv, Disk, SourcesTypeOK
<1>2. upstream' \in [Keys -> Histories \cup {None}]
  BY DEF RemoteMoves, CInv, Disk, SourcesTypeOK, Histories
<1>3. SourcesTypeOK'
  BY <1>1, <1>2 DEF CInv, Disk, SourcesTypeOK
<1> QED
  BY <1>1, <1>3 DEF CInv, Disk, Inside, vars

LEMMA NextCInv == CInv /\ [NextSources]_allVars => CInv'
<1> SUFFICES ASSUME CInv, [NextSources]_allVars PROVE Disk'
  BY LocksInvariant DEF CInv
<1>1. CASE UNCHANGED allVars
  BY <1>1 DEF allVars, vars, repos, CInv, Disk, SourcesTypeOK, Inside
<1>2. ASSUME NEW t \in Threads,
             Waits(t) \/ BeginSync(t) \/ SyncStep(t) \/ GiveUp(t) \/ EndSync(t)
      PROVE  Disk'
  BY <1>2, WaitsDisk, BeginDisk, SyncStepDisk, GiveUpDisk, EndDisk
<1>3. ASSUME NEW k \in Keys, UserWorks(k) \/ RemoteMoves(k) PROVE Disk'
  BY <1>3, UserDisk, RemoteDisk
<1> QED
  BY <1>1, <1>2, <1>3 DEF NextSources

THEOREM CInvAlways == SpecSources => []CInv
  BY InitCInv, NextCInv, PTL DEF SpecSources

-----------------------------------------------------------------------------
(***************************************************************************)
(* Whatever a sync leaves behind when a command fails or its context ends, *)
(* every checkout and every staging directory is in one of the states that *)
(* the next sync knows how to meet.                                        *)
(***************************************************************************)
THEOREM SourcesTypeCorrect == SpecSources => []SourcesTypeOK
<1>1. CInv => SourcesTypeOK
  BY DEF CInv, Disk
<1> QED
  BY <1>1, CInvAlways, PTL

(***************************************************************************)
(* replaceRemoteDir never puts half an upload in the place of a checkout:  *)
(* what a sync moves there is what that sync has uploaded to the end.      *)
(***************************************************************************)
THEOREM CheckoutsAreWhole == SpecSources => []CheckoutIsWhole
<1>1. CInv => CheckoutIsWhole
  BY DEF CInv, Disk, Sound, CheckoutIsWhole, IsRepo
<1> QED
  BY <1>1, CInvAlways, PTL

(***************************************************************************)
(* No sync loses local work, although the user edits and commits between   *)
(* the checks of a sync and its commands: git itself refuses, and a clone  *)
(* only ever replaces a path at which there was nothing.                   *)
(***************************************************************************)
Kept(k) ==
  /\ tree[k] = Plain => tree'[k] = Plain
  /\ IsRepo(k) => /\ tree'[k].kind = "repo"
                  /\ tree[k].dirty => tree'[k].dirty
                  /\ WorkOf(k) \subseteq tree'[k].local

LEMMA NotMine ==
  ASSUME CInv, NEW t \in Threads, NEW k \in Keys, NEW r,
         k # key[t] \/ r = tree[k], SetTree(key[t], r)
  PROVE  tree'[k] = tree[k]
BY DEF SetTree, CInv, Disk, SourcesTypeOK

LEMMA SameKept == ASSUME NEW k \in Keys, tree'[k] = tree[k] PROVE Kept(k)
BY DEF Kept, WorkOf, IsRepo, Ahead

LEMMA WriteKept ==
  ASSUME CInv, NEW t \in Threads, NEW k \in Keys, NEW r, SetTree(key[t], r),
         k = key[t] =>
           /\ tree[k] # Plain
           /\ IsRepo(k) => /\ r.kind = "repo" /\ (tree[k].dirty => r.dirty)
                           /\ WorkOf(k) \subseteq r.local
  PROVE  Kept(k)
<1>1. CASE k = key[t]
  <2>1. tree'[k] = r
    BY <1>1 DEF SetTree, CInv, Disk, SourcesTypeOK
  <2> QED
    BY <1>1, <2>1 DEF Kept
<1>2. CASE k # key[t]
  BY <1>2, NotMine, SameKept
<1> QED
  BY <1>1, <1>2

LEMMA FetchKept ==
  ASSUME CInv, NEW t \in Threads, Fetch(t), NEW k \in Keys PROVE Kept(k)
<1> DEFINE r == [tree[key[t]] EXCEPT !.tracking = upstream[key[t]]]
<1>1. tree[key[t]] \in Repo /\ tree[key[t]].kind = "repo" /\ SetTree(key[t], r)
  BY Here DEF Fetch, Path, IsRepo
<1>2. r.kind = "repo" /\ r.dirty = tree[key[t]].dirty /\ r.local = tree[key[t]].local
  BY <1>1 DEF Repo
<1>3. tree[key[t]] # Plain /\ WorkOf(key[t]) \subseteq tree[key[t]].local
  BY <1>1 DEF Plain, WorkOf, Ahead
<1> HIDE DEF r
<1> QED
  BY <1>1, <1>2, <1>3, WriteKept

LEMMA CheckoutKept ==
  ASSUME CInv, NEW t \in Threads, Checkout(t), NEW k \in Keys PROVE Kept(k)
<1> DEFINE r == [tree[key[t]] EXCEPT
                   !.current = TRUE,
                   !.local = IF tree[key[t]].local = None THEN tree[key[t]].tracking
                             ELSE tree[key[t]].local]
<1>1. tree[key[t]] \in Repo /\ tree[key[t]].kind = "repo"
  BY Here DEF Checkout, Path, IsRepo
<1>2. SetTree(key[t], r) \/ UNCHANGED tree
  BY DEF Checkout, Path
<1>3. /\ r.kind = "repo" /\ r.dirty = tree[key[t]].dirty
      /\ tree[key[t]].local # None => r.local = tree[key[t]].local
  BY <1>1 DEF Repo
<1>4. tree[key[t]] # Plain /\ WorkOf(key[t]) \subseteq r.local
  BY <1>1, <1>3 DEF Plain, WorkOf, Ahead
<1> HIDE DEF r
<1> QED
  BY <1>2, <1>3, <1>4, WriteKept, SameKept

LEMMA PullKept ==
  ASSUME CInv, NEW t \in Threads, Pull(t), NEW k \in Keys PROVE Kept(k)
<1> DEFINE r == [tree[key[t]] EXCEPT !.local = upstream[key[t]],
                                     !.tracking = upstream[key[t]]]
<1>1. tree[key[t]] \in Repo /\ tree[key[t]].kind = "repo"
  BY Here DEF Pull, Path, IsRepo
<1>2. \/ SetTree(key[t], r) /\ tree[key[t]].local \subseteq upstream[key[t]]
      \/ UNCHANGED tree
  BY DEF Pull, Path
<1>3. r.kind = "repo" /\ r.dirty = tree[key[t]].dirty /\ r.local = upstream[key[t]]
  BY <1>1 DEF Repo
<1>4. tree[key[t]] # Plain /\ WorkOf(key[t]) \subseteq tree[key[t]].local
  BY <1>1 DEF Plain, WorkOf, Ahead
<1> HIDE DEF r
<1> QED
  BY <1>2, <1>3, <1>4, WriteKept, SameKept

LEMMA ReplaceKept ==
  ASSUME CInv, NEW t \in Threads, RemoveTarget(t) \/ Rename(t), NEW k \in Keys
  PROVE  Kept(k)
<1>1. tree[key[t]] = Absent
  BY Here DEF RemoveTarget, Rename, Ready
<1>2. tree[key[t]] # Plain /\ ~IsRepo(key[t])
  BY <1>1 DEF Absent, Plain, IsRepo
<1>3. PICK r : SetTree(key[t], r)
  BY DEF RemoveTarget, Rename, Path
<1> QED
  BY <1>2, <1>3, WriteKept

THEOREM LocalWorkIsKept == SpecSources => WorkIsKept
<1>1. ASSUME CInv, NEW t \in Threads, NEW k \in Keys, SyncStep(t)
      PROVE  Kept(k)
  <2>1. CASE Fetch(t)
    BY <1>1, <2>1, FetchKept
  <2>2. CASE Checkout(t)
    BY <1>1, <2>2, CheckoutKept
  <2>3. CASE Pull(t)
    BY <1>1, <2>3, PullKept
  <2>4. CASE RemoveTarget(t) \/ Rename(t)
    BY <1>1, <2>4, ReplaceKept
  <2>5. CASE \/ Stat(t) \/ Status(t) \/ Relation(t) \/ Vanished(t)
             \/ Clone(t) \/ ClearTmp(t) \/ Upload(t)
    <3>1. tree' = tree
      BY <2>5 DEF Stat, Status, Relation, Vanished, Clone, ClearTmp, Upload, repos
    <3> QED
      BY <3>1, SameKept
  <2> QED
    BY <1>1, <2>1, <2>2, <2>3, <2>4, <2>5 DEF SyncStep
<1>2. CInv =>
        [\A t \in Threads, k \in Keys : SyncStep(t) =>
           /\ tree[k] = Plain => tree'[k] = Plain
           /\ IsRepo(k) => /\ tree'[k].kind = "repo"
                           /\ tree[k].dirty => tree'[k].dirty
                           /\ WorkOf(k) \subseteq tree'[k].local]_allVars
  BY <1>1 DEF Kept
<1> QED
  BY <1>2, CInvAlways, PTL DEF WorkIsKept
=============================================================================
