--------------------------- MODULE SourceCheckout ---------------------------
(***************************************************************************)
(* What a source sync does while it holds the lock of a checkout: clone    *)
(* into a staging directory and move it into place, or update the checkout *)
(* in place if it holds no local work.  Beside it the user edits and       *)
(* commits in the checkout, and the remote branch moves, is rewritten and  *)
(* goes away.                                                              *)
(*                                                                         *)
(* One action is one git command or one file operation.  Native git and    *)
(* go-git take the same steps and are not told apart.                      *)
(***************************************************************************)
EXTENDS SourceSyncLocks

CONSTANTS
  Commits,    \* commit ids; a history is the set of the commits in it
  MaxTrouble  \* bound on failing commands and on the user's and remote's moves

ASSUME TroubleAssumption == MaxTrouble \in Nat

ASSUME NoneAssumption == \A history \in SUBSET Commits : history # None

(***************************************************************************)
(* State, beside the locks.                                                *)
(*   tree      what is at each checkout path                               *)
(*   tmp       what is at the same path with .fibe-distilled-sync-tmp      *)
(*   upstream  the remote branch of each checkout, or None                 *)
(*   at        where each thread is in its sync                            *)
(*   staged    the history it has cloned, or None                          *)
(*   result    the category its last sync ended with                       *)
(***************************************************************************)
VARIABLES tree, tmp, upstream, at, staged, result, trouble

repos == <<tree, tmp, upstream>>

allVars == <<vars, repos, at, staged, result, trouble>>

Histories == SUBSET Commits

(***************************************************************************)
(* local and tracking are the branch and its origin/ counterpart; current  *)
(* says whether the branch is checked out; whole, that no file is missing. *)
(***************************************************************************)
Repo == [kind : {"repo"}, local : Histories \cup {None}, tracking : Histories \cup {None},
         current : BOOLEAN, dirty : BOOLEAN, whole : BOOLEAN]

Absent == [kind |-> "absent"]

Plain == [kind |-> "plain"]    \* a directory without .git

(***************************************************************************)
(* A checkout of another branch: the source's branch has been changed.     *)
(***************************************************************************)
Elsewhere == [kind |-> "repo", local |-> None, tracking |-> None,
              current |-> FALSE, dirty |-> FALSE, whole |-> TRUE]

IsRepo(k) == tree[k].kind = "repo"

SyncPoints == {"out", "stat", "status", "fetch", "checkout", "relation", "pull",
               "clone", "clear", "upload", "remove", "rename", "end"}

(***************************************************************************)
(* sourceSyncError.PreservesWork tells local work from failures.           *)
(***************************************************************************)
PreservesWork == {"dirty_work", "ahead", "diverged", "missing_upstream",
                  "checkout_failed", "history_unverifiable"}

Results == PreservesWork \cup {None, "ok", "git_auth", "repository_not_found", "failed"}

InitSources ==
  /\ Init
  /\ tree \in [Keys -> {Absent, Plain, Elsewhere}]
  /\ tmp = [k \in Keys |-> Absent]
  /\ upstream = [k \in Keys |-> {}]
  /\ at = [t \in Threads |-> "out"]
  /\ staged = [t \in Threads |-> None]
  /\ result = [t \in Threads |-> None]
  /\ trouble = 0

-----------------------------------------------------------------------------
Path(t) == key[t]

Go(t, point) ==
  /\ at' = [at EXCEPT ![t] = point]
  /\ UNCHANGED <<staged, result>>

EndWith(t, category) ==
  /\ at' = [at EXCEPT ![t] = "end"]
  /\ result' = [result EXCEPT ![t] = category]
  /\ staged' = [staged EXCEPT ![t] = None]

Trouble == trouble < MaxTrouble /\ trouble' = trouble + 1

SetTree(k, what) == tree' = [tree EXCEPT ![k] = what]

SetTmp(k, what) == tmp' = [tmp EXCEPT ![k] = what]

(***************************************************************************)
(* A command fails, or the context ends: whatever was on disk stays, the   *)
(* staging directory too, for its removal fails on the same context.       *)
(* classifyGoGitError names the cause when git named it.                   *)
(***************************************************************************)
GiveUp(t) ==
  /\ at[t] \notin {"out", "end"}
  /\ Trouble
  /\ \E category \in {"git_auth", "repository_not_found", "failed"} : EndWith(t, category)
  /\ UNCHANGED <<vars, repos>>

-----------------------------------------------------------------------------
(***************************************************************************)
(* Sync: a directory without .git is never touched, one with .git is       *)
(* updated, and a missing one is cloned.                                   *)
(***************************************************************************)
Stat(t) ==
  /\ at[t] = "stat"
  /\ \/ tree[Path(t)] = Absent /\ Go(t, "clone")
     \/ tree[Path(t)] = Plain /\ EndWith(t, "checkout_failed")
     \/ IsRepo(Path(t)) /\ Go(t, "status")
  /\ UNCHANGED <<vars, repos, trouble>>

(***************************************************************************)
(* requireCleanGitCLIWorktree.                                             *)
(***************************************************************************)
Status(t) ==
  /\ at[t] = "status" /\ IsRepo(Path(t))
  /\ \/ tree[Path(t)].dirty /\ EndWith(t, "dirty_work")
     \/ ~tree[Path(t)].dirty /\ Go(t, "fetch")
  /\ UNCHANGED <<vars, repos, trouble>>

(***************************************************************************)
(* refreshGitCLIOrigin: set-url, fetch --all --prune, rev-parse origin/... *)
(***************************************************************************)
Fetch(t) ==
  /\ at[t] = "fetch" /\ IsRepo(Path(t))
  /\ SetTree(Path(t), [tree[Path(t)] EXCEPT !.tracking = upstream[Path(t)]])
  /\ \/ upstream[Path(t)] = None /\ EndWith(t, "missing_upstream")
     \/ upstream[Path(t)] # None /\ Go(t, "checkout")
  /\ UNCHANGED <<vars, tmp, upstream, trouble>>

(***************************************************************************)
(* checkoutGitCLIBranch: git refuses to switch branches over edits that    *)
(* the switch would lose, and then the branch cannot be created either.    *)
(***************************************************************************)
Checkout(t) ==
  /\ at[t] = "checkout" /\ IsRepo(Path(t))
  /\ LET repo == tree[Path(t)]
     IN  \/ /\ SetTree(Path(t), [repo EXCEPT
                 !.current = TRUE,
                 !.local = IF repo.local = None THEN repo.tracking ELSE repo.local])
            /\ Go(t, "relation")
         \/ repo.dirty /\ ~repo.current /\ EndWith(t, "checkout_failed") /\ UNCHANGED tree
  /\ UNCHANGED <<vars, tmp, upstream, trouble>>

(***************************************************************************)
(* gitCLIBranchRelation counts the commits on either side only;            *)
(* ensureGitCLIFFOnlyBranch lets a branch pass that has none of its own.   *)
(***************************************************************************)
Ahead(repo) == repo.local \ repo.tracking

Behind(repo) == repo.tracking \ repo.local

Relation(t) ==
  /\ at[t] = "relation" /\ IsRepo(Path(t))
  /\ LET repo == tree[Path(t)]
     IN  \/ Ahead(repo) # {} /\ Behind(repo) # {} /\ EndWith(t, "diverged")
         \/ Ahead(repo) # {} /\ Behind(repo) = {} /\ EndWith(t, "ahead")
         \/ Ahead(repo) = {} /\ Go(t, "pull")
  /\ UNCHANGED <<vars, repos, trouble>>

(***************************************************************************)
(* Faulty: the branch is reset to its upstream.                            *)
(***************************************************************************)
PullHard(t) ==
  /\ at[t] = "pull" /\ IsRepo(Path(t)) /\ upstream[Path(t)] # None
  /\ SetTree(Path(t), [tree[Path(t)] EXCEPT !.local = upstream[Path(t)],
                                            !.tracking = upstream[Path(t)]])
  /\ EndWith(t, "ok")
  /\ UNCHANGED <<vars, tmp, upstream, trouble>>

(***************************************************************************)
(* git pull --ff-only fetches once more, and fails if the branch cannot    *)
(* be fast-forwarded any longer or the merge would lose edits.             *)
(***************************************************************************)
Pull(t) ==
  /\ at[t] = "pull" /\ IsRepo(Path(t))
  /\ LET repo == tree[Path(t)]
         forward == upstream[Path(t)] # None /\ repo.current /\ repo.local \subseteq upstream[Path(t)]
     IN  \/ /\ forward
            /\ SetTree(Path(t), [repo EXCEPT !.local = upstream[Path(t)],
                                             !.tracking = upstream[Path(t)]])
            /\ EndWith(t, "ok")
         \/ ~forward /\ EndWith(t, "failed") /\ UNCHANGED tree
         \/ repo.dirty /\ EndWith(t, "failed") /\ UNCHANGED tree
  /\ UNCHANGED <<vars, tmp, upstream, trouble>>

(***************************************************************************)
(* A step that finds its checkout removed by the user fails.               *)
(***************************************************************************)
Vanished(t) ==
  /\ at[t] \in {"status", "fetch", "checkout", "relation", "pull"}
  /\ ~IsRepo(Path(t))
  /\ EndWith(t, IF at[t] = "checkout" THEN "checkout_failed"
                ELSE IF at[t] = "relation" THEN "history_unverifiable" ELSE "failed")
  /\ UNCHANGED <<vars, repos, trouble>>

-----------------------------------------------------------------------------
(***************************************************************************)
(* Faulty: a clone that finds no branch goes on with nothing.              *)
(***************************************************************************)
CloneUnchecked(t) ==
  /\ at[t] = "clone"
  /\ staged' = [staged EXCEPT ![t] = upstream[Path(t)]]
  /\ at' = [at EXCEPT ![t] = "clear"]
  /\ UNCHANGED <<vars, repos, result, trouble>>

(***************************************************************************)
(* cloneGitCheckout, into a directory of the process's own; a missing      *)
(* branch reads "reference not found" and is taken for a missing           *)
(* repository.                                                             *)
(***************************************************************************)
Clone(t) ==
  /\ at[t] = "clone"
  /\ \/ /\ upstream[Path(t)] # None
        /\ staged' = [staged EXCEPT ![t] = upstream[Path(t)]]
        /\ at' = [at EXCEPT ![t] = "clear"]
        /\ UNCHANGED result
     \/ upstream[Path(t)] = None /\ EndWith(t, "repository_not_found")
  /\ UNCHANGED <<vars, repos, trouble>>

(***************************************************************************)
(* replaceRemoteDir: remove what an earlier attempt left, upload, remove   *)
(* the target, rename.  Half an upload is a state of its own.              *)
(***************************************************************************)
Cloned(history, whole) ==
  [kind |-> "repo", local |-> history, tracking |-> history, current |-> TRUE,
   dirty |-> FALSE, whole |-> whole]

(***************************************************************************)
(* Faulty: what an earlier attempt uploaded is taken as it is.             *)
(***************************************************************************)
ClearNothing(t) ==
  /\ at[t] = "clear"
  /\ Go(t, IF tmp[Path(t)] = Absent THEN "upload" ELSE "remove")
  /\ UNCHANGED <<vars, repos, trouble>>

ClearTmp(t) ==
  /\ at[t] = "clear"
  /\ SetTmp(Path(t), Absent)
  /\ Go(t, "upload")
  /\ UNCHANGED <<vars, tree, upstream, trouble>>

Upload(t) ==
  /\ at[t] = "upload"
  /\ \/ /\ tmp[Path(t)] = Absent
        /\ SetTmp(Path(t), Cloned(staged[t], FALSE))
        /\ UNCHANGED <<at, staged, result>>
     \/ /\ tmp[Path(t)] # Absent
        /\ SetTmp(Path(t), Cloned(staged[t], TRUE))
        /\ Go(t, "remove")
  /\ UNCHANGED <<vars, tree, upstream, trouble>>

RemoveTarget(t) ==
  /\ at[t] = "remove"
  /\ SetTree(Path(t), Absent)
  /\ Go(t, "rename")
  /\ UNCHANGED <<vars, tmp, upstream, trouble>>

Rename(t) ==
  /\ at[t] = "rename"
  /\ SetTree(Path(t), tmp[Path(t)])
  /\ SetTmp(Path(t), Absent)
  /\ EndWith(t, "ok")
  /\ UNCHANGED <<vars, upstream, trouble>>

-----------------------------------------------------------------------------
(***************************************************************************)
(* The user's side: edit, commit, switch branches, push.                   *)
(***************************************************************************)
Known(history) == IF history = None THEN {} ELSE history

Unused(c) ==
  \A k \in Keys :
    /\ c \notin Known(upstream[k])
    /\ IsRepo(k) => c \notin Known(tree[k].local)

UserWorks(k) ==
  /\ Trouble /\ IsRepo(k)
  /\ \/ SetTree(k, [tree[k] EXCEPT !.dirty = TRUE]) /\ UNCHANGED upstream
     \/ SetTree(k, [tree[k] EXCEPT !.current = FALSE]) /\ UNCHANGED upstream
     \/ /\ tree[k].current
        /\ \E c \in Commits :
             Unused(c) /\ SetTree(k, [tree[k] EXCEPT !.local = @ \cup {c}, !.dirty = FALSE])
        /\ UNCHANGED upstream
     \/ SetTree(k, Absent) /\ UNCHANGED upstream
  /\ UNCHANGED <<vars, tmp, at, staged, result>>

(***************************************************************************)
(* The remote's side: a push, a rewritten history, a deleted branch.       *)
(***************************************************************************)
RemoteMoves(k) ==
  /\ Trouble
  /\ \E c \in Commits :
       /\ Unused(c)
       /\ upstream' \in {[upstream EXCEPT ![k] = {c}], [upstream EXCEPT ![k] = None],
                         IF upstream[k] = None THEN upstream
                         ELSE [upstream EXCEPT ![k] = @ \cup {c}]}
  /\ UNCHANGED <<vars, tree, tmp, at, staged, result>>

-----------------------------------------------------------------------------
(***************************************************************************)
(* runSourceSyncPlans: each plan's sync runs between lock and release.     *)
(***************************************************************************)
BeginSync(t) ==
  /\ Acquire(t)
  /\ Go(t, "stat")
  /\ UNCHANGED <<repos, trouble>>

EndSync(t) ==
  /\ at[t] = "end"
  /\ Unlock(t)
  /\ Go(t, "out")
  /\ UNCHANGED <<repos, trouble>>

Waits(t) ==
  /\ Lock(t) \/ Release(t)
  /\ UNCHANGED <<repos, at, staged, result, trouble>>

SyncStep(t) ==
  \/ Stat(t) \/ Status(t) \/ Fetch(t) \/ Checkout(t) \/ Relation(t) \/ Pull(t)
  \/ Vanished(t) \/ Clone(t) \/ ClearTmp(t) \/ Upload(t) \/ RemoveTarget(t)
  \/ Rename(t)

NextSources ==
  \/ \E t \in Threads :
       Waits(t) \/ BeginSync(t) \/ SyncStep(t) \/ GiveUp(t) \/ EndSync(t)
  \/ \E k \in Keys : UserWorks(k) \/ RemoteMoves(k)

SpecSources == InitSources /\ [][NextSources]_allVars

-----------------------------------------------------------------------------
(***************************************************************************)
(* The states above; what is uploaded always has its branch.               *)
(***************************************************************************)
SourcesTypeOK ==
  /\ tree \in [Keys -> Repo \cup {Absent, Plain}]
  /\ tmp \in [Keys -> {repo \in Repo : repo.local # None} \cup {Absent}]
  /\ upstream \in [Keys -> Histories \cup {None}]
  /\ at \in [Threads -> SyncPoints]
  /\ staged \in [Threads -> Histories \cup {None}]
  /\ result \in [Threads -> Results]
  /\ trouble \in 0..MaxTrouble

(***************************************************************************)
(* A sync never loses local work: edits stay, commits stay, a directory    *)
(* that is not a checkout stays - whoever else syncs, and whatever the     *)
(* user does between the sync's checks and its commands.                   *)
(***************************************************************************)
WorkOf(k) ==
  IF IsRepo(k) /\ tree[k].local # None /\ tree[k].tracking # None
  THEN Ahead(tree[k]) ELSE {}

WorkIsKept ==
  [][\A t \in Threads, k \in Keys : SyncStep(t) =>
       /\ tree[k] = Plain => tree'[k] = Plain
       /\ IsRepo(k) => /\ tree'[k].kind = "repo"
                       /\ tree[k].dirty => tree'[k].dirty
                       /\ WorkOf(k) \subseteq tree'[k].local]_allVars

(***************************************************************************)
(* A checkout is never seen half uploaded, although syncs give up at any   *)
(* point and the next one meets what they left.                            *)
(***************************************************************************)
CheckoutIsWhole == \A k \in Keys : IsRepo(k) => tree[k].whole
=============================================================================
