-------------------------- MODULE SourceSyncLocks --------------------------
(***************************************************************************)
(* keyedSourceSyncLocks: a map from checkout path to a reference-counted   *)
(* mutex, created by the first thread that wants a path and deleted by the *)
(* last one that is done with it.  Threads are the deployments, webhooks   *)
(* and reconciliations that sync sources in the same process.              *)
(*                                                                         *)
(* Every access to the map and to a refs field happens under the one mutex *)
(* l.mu, whose critical sections neither block nor take another lock, so   *)
(* each of them is one step.                                               *)
(***************************************************************************)
EXTENDS Naturals, FiniteSets

CONSTANTS
  Threads,  \* goroutines that sync sources
  Keys,     \* checkout paths
  Entries,  \* addresses of sourceSyncLock values
  None      \* nil

ASSUME ThreadsAssumption == IsFiniteSet(Threads) /\ None \notin Threads

ASSUME EntriesAssumption == None \notin Entries

VARIABLES
  pc,     \* where each thread is
  key,    \* the path of the plan it is on
  ent,    \* the entry it has a reference to
  locks,  \* l.locks: the entry of each path, or None
  refs,   \* refs of each entry
  owner   \* the thread that holds the mutex of each entry, or None

vars == <<pc, key, ent, locks, refs, owner>>

Points == {"idle", "wait", "sync", "unref"}

Init ==
  /\ pc = [t \in Threads |-> "idle"]
  /\ key \in [Threads -> Keys]
  /\ ent = [t \in Threads |-> None]
  /\ locks = [k \in Keys |-> None]
  /\ refs = [e \in Entries |-> 0]
  /\ owner = [e \in Entries |-> None]

(***************************************************************************)
(* An address the allocator may hand out: nothing points to it any more.   *)
(***************************************************************************)
Fresh(e) ==
  /\ \A k \in Keys : locks[k] # e
  /\ \A t \in Threads : ent[t] # e

-----------------------------------------------------------------------------
(***************************************************************************)
(* Faulty: the reference is not counted.                                   *)
(***************************************************************************)
ReferUncounted(t, k, e, count) ==
  /\ locks' = [locks EXCEPT ![k] = e]
  /\ refs' = [refs EXCEPT ![e] = count]
  /\ ent' = [ent EXCEPT ![t] = e]

(***************************************************************************)
(* lock up to l.mu.Unlock(): find or create the path's entry and count a   *)
(* reference to it.                                                        *)
(***************************************************************************)
Refer(t, k, e, count) ==
  /\ locks' = [locks EXCEPT ![k] = e]
  /\ refs' = [refs EXCEPT ![e] = count + 1]
  /\ ent' = [ent EXCEPT ![t] = e]

Lock(t) ==
  /\ pc[t] = "idle"
  /\ \E k \in Keys :
       /\ key' = [key EXCEPT ![t] = k]
       /\ \/ locks[k] # None /\ Refer(t, k, locks[k], refs[locks[k]])
          \/ locks[k] = None /\ \E e \in Entries : Fresh(e) /\ Refer(t, k, e, 0)
  /\ pc' = [pc EXCEPT ![t] = "wait"]
  /\ UNCHANGED owner

(***************************************************************************)
(* entry.mu.Lock() returns.                                                *)
(***************************************************************************)
Acquire(t) ==
  /\ pc[t] = "wait"
  /\ owner[ent[t]] = None
  /\ owner' = [owner EXCEPT ![ent[t]] = t]
  /\ pc' = [pc EXCEPT ![t] = "sync"]
  /\ UNCHANGED <<key, ent, locks, refs>>

(***************************************************************************)
(* Faulty: the mutex is not given back.                                    *)
(***************************************************************************)
UnlockForgotten(t) ==
  /\ pc[t] = "sync"
  /\ pc' = [pc EXCEPT ![t] = "unref"]
  /\ UNCHANGED <<key, ent, locks, refs, owner>>

(***************************************************************************)
(* The sync has returned, well or with an error: the deferred release      *)
(* gives the mutex back first ...                                          *)
(***************************************************************************)
Unlock(t) ==
  /\ pc[t] = "sync"
  /\ owner' = [owner EXCEPT ![ent[t]] = None]
  /\ pc' = [pc EXCEPT ![t] = "unref"]
  /\ UNCHANGED <<key, ent, locks, refs>>

(***************************************************************************)
(* Faulty: the entry is deleted by every thread that is done with it.      *)
(***************************************************************************)
ReleaseAlways(t) ==
  /\ pc[t] = "unref"
  /\ refs' = [refs EXCEPT ![ent[t]] = refs[ent[t]] - 1]
  /\ locks' = [locks EXCEPT ![key[t]] = None]
  /\ ent' = [ent EXCEPT ![t] = None]
  /\ pc' = [pc EXCEPT ![t] = "idle"]
  /\ UNCHANGED <<key, owner>>

(***************************************************************************)
(* Faulty: the entry is never deleted.                                     *)
(***************************************************************************)
ReleaseNever(t) ==
  /\ pc[t] = "unref"
  /\ refs' = [refs EXCEPT ![ent[t]] = refs[ent[t]] - 1]
  /\ ent' = [ent EXCEPT ![t] = None]
  /\ pc' = [pc EXCEPT ![t] = "idle"]
  /\ UNCHANGED <<key, locks, owner>>

(***************************************************************************)
(* Faulty: the entry goes when one reference is left.                      *)
(***************************************************************************)
ReleaseEarly(t) ==
  /\ pc[t] = "unref"
  /\ refs' = [refs EXCEPT ![ent[t]] = refs[ent[t]] - 1]
  /\ locks' = IF refs[ent[t]] = 2 THEN [locks EXCEPT ![key[t]] = None] ELSE locks
  /\ ent' = [ent EXCEPT ![t] = None]
  /\ pc' = [pc EXCEPT ![t] = "idle"]
  /\ UNCHANGED <<key, owner>>

(***************************************************************************)
(* ... and then, under l.mu, the reference, together with the entry when   *)
(* it was the last one.                                                    *)
(***************************************************************************)
Release(t) ==
  /\ pc[t] = "unref"
  /\ refs' = [refs EXCEPT ![ent[t]] = refs[ent[t]] - 1]
  /\ locks' = IF refs[ent[t]] = 1 THEN [locks EXCEPT ![key[t]] = None] ELSE locks
  /\ ent' = [ent EXCEPT ![t] = None]
  /\ pc' = [pc EXCEPT ![t] = "idle"]
  /\ UNCHANGED <<key, owner>>

Next == \E t \in Threads : Lock(t) \/ Acquire(t) \/ Unlock(t) \/ Release(t)

Spec == Init /\ [][Next]_vars

(***************************************************************************)
(* A sync runs under a timeout and then releases.  A sync.Mutex hands over *)
(* to a thread that has waited for a millisecond, so nobody is overtaken   *)
(* for ever: strong fairness of Acquire.                                   *)
(***************************************************************************)
FairSpec ==
  /\ Spec
  /\ \A t \in Threads : SF_vars(Acquire(t)) /\ WF_vars(Unlock(t) \/ Release(t))

-----------------------------------------------------------------------------
(***************************************************************************)
(* Every variable has the type its declaration promises; no reference      *)
(* count falls below zero.                                                 *)
(***************************************************************************)
TypeOK ==
  /\ pc \in [Threads -> Points]
  /\ key \in [Threads -> Keys]
  /\ ent \in [Threads -> Entries \cup {None}]
  /\ locks \in [Keys -> Entries \cup {None}]
  /\ refs \in [Entries -> Nat]
  /\ owner \in [Entries -> Threads \cup {None}]

(***************************************************************************)
(* Two syncs never run on the same checkout, although the mutex that keeps *)
(* them apart may have been deleted and created again in between.          *)
(***************************************************************************)
OneSyncPerCheckout ==
  \A t, u \in Threads :
    pc[t] = "sync" /\ pc[u] = "sync" /\ key[t] = key[u] => t = u

(***************************************************************************)
(* The map holds an entry for exactly the paths somebody is using: when    *)
(* everybody is idle it is empty, however the releases interleaved.        *)
(***************************************************************************)
NoLeakedEntry ==
  \A k \in Keys :
    locks[k] # None => \E t \in Threads : pc[t] # "idle" /\ key[t] = k

(***************************************************************************)
(* The map of reference-counted mutexes is one mutex per path.             *)
(***************************************************************************)
Phase(t) ==
  CASE pc[t] = "wait" -> "waiting"
    [] pc[t] = "sync" -> "holding"
    [] OTHER          -> "idle"

Abstract == INSTANCE KeyedMutex WITH phase <- [t \in Threads |-> Phase(t)]

IsKeyedMutex == Abstract!Spec

(***************************************************************************)
(* Whoever waits for a checkout gets it.                                   *)
(***************************************************************************)
SyncRuns == \A t \in Threads : pc[t] = "wait" ~> pc[t] = "sync"
=============================================================================
