----------------------- MODULE SourceSyncLocksProofs -----------------------
(***************************************************************************)
(* Proofs about SourceSyncLocks, for any finite set of threads and any set *)
(* of checkout paths: reference counting keeps the entry of a path in the  *)
(* map for as long as anybody uses it, so the map of mutexes is a mutex    *)
(* per path.                                                               *)
(***************************************************************************)
EXTENDS SourceSyncLocks, FiniteSetTheorems, TLAPS

(***************************************************************************)
(* The inductive invariant.  Counted is what Release decides by; Mapped    *)
(* and OnePath say that two threads on one path use one entry; Owned ties  *)
(* the mutexes to the threads that hold them.                              *)
(***************************************************************************)
Users(e) == {t \in Threads : ent[t] = e}

Counted == \A e \in Entries : refs[e] = Cardinality(Users(e))

Mapped ==
  \A t \in Threads :
    /\ pc[t] = "idle" <=> ent[t] = None
    /\ ent[t] # None => locks[key[t]] = ent[t]

OnePath == \A k, l \in Keys : locks[k] = locks[l] /\ locks[k] # None => k = l

Used == \A k \in Keys : locks[k] # None => \E t \in Threads : ent[t] = locks[k]

Owned ==
  \A e \in Entries, t \in Threads :
    owner[e] = t <=> pc[t] = "sync" /\ ent[t] = e

LInv == TypeOK /\ Counted /\ Mapped /\ OnePath /\ Used /\ Owned

-----------------------------------------------------------------------------
LEMMA InitLInv == Init => LInv
<1> SUFFICES ASSUME Init PROVE LInv
  OBVIOUS
<1>1. TypeOK
  BY DEF Init, TypeOK, Points
<1>2. Counted
  <2> SUFFICES ASSUME NEW e \in Entries PROVE refs[e] = Cardinality(Users(e))
    BY DEF Counted
  <2>1. Users(e) = {}
    BY EntriesAssumption DEF Users, Init
  <2> QED
    BY <2>1, FS_EmptySet DEF Init
<1>3. Mapped /\ OnePath /\ Used /\ Owned
  BY ThreadsAssumption, EntriesAssumption
     DEF Init, Mapped, OnePath, Used, Owned
<1> QED
  BY <1>1, <1>2, <1>3 DEF LInv

(***************************************************************************)
(* The users of an entry are finitely many, and taking or dropping a       *)
(* reference changes their number by one.                                  *)
(***************************************************************************)
LEMMA UsersFinite ==
  ASSUME NEW e
  PROVE  IsFiniteSet(Users(e)) /\ Cardinality(Users(e)) \in Nat
<1>1. Users(e) \in SUBSET Threads
  BY DEF Users
<1>2. IsFiniteSet(Users(e))
  BY <1>1, ThreadsAssumption, FS_Subset
<1> QED
  BY <1>2, FS_CardinalityType

LEMMA ReferCounts ==
  ASSUME LInv, NEW t \in Threads, ent[t] = None, NEW e \in Entries,
         ent' = [ent EXCEPT ![t] = e],
         refs' = [refs EXCEPT ![e] = refs[e] + 1]
  PROVE  Counted'
<1> SUFFICES ASSUME NEW d \in Entries
             PROVE  refs'[d] = Cardinality(Users(d)')
  BY DEF Counted
<1>1. CASE d = e
  <2>1. Users(d)' = Users(d) \cup {t}
    BY <1>1 DEF Users, LInv, TypeOK
  <2>2. t \notin Users(d)
    BY EntriesAssumption DEF Users
  <2>3. Cardinality(Users(d) \cup {t}) = Cardinality(Users(d)) + 1
    BY <2>2, UsersFinite, FS_AddElement
  <2> QED
    BY <1>1, <2>1, <2>3 DEF LInv, TypeOK, Counted
<1>2. CASE d # e
  <2>1. Users(d)' = Users(d)
    BY <1>2, EntriesAssumption DEF Users, LInv, TypeOK
  <2> QED
    BY <1>2, <2>1 DEF LInv, TypeOK, Counted
<1> QED
  BY <1>1, <1>2

LEMMA ReleaseCounts ==
  ASSUME LInv, NEW t \in Threads, ent[t] \in Entries,
         ent' = [ent EXCEPT ![t] = None],
         refs' = [refs EXCEPT ![ent[t]] = refs[ent[t]] - 1]
  PROVE  Counted' /\ refs' \in [Entries -> Nat]
<1>0. PICK e \in Entries : e = ent[t]
  OBVIOUS
<1>1. t \in Users(e)
  BY <1>0 DEF Users
<1>2. Users(e)' = Users(e) \ {t}
  BY <1>0, EntriesAssumption DEF Users, LInv, TypeOK
<1>3. Cardinality(Users(e) \ {t}) = Cardinality(Users(e)) - 1
  BY <1>1, UsersFinite, FS_RemoveElement
<1>4. IsFiniteSet(Users(e) \ {t})
  BY UsersFinite, FS_RemoveElement
<1>5. Cardinality(Users(e)) - 1 \in Nat
  BY <1>3, <1>4, FS_CardinalityType
<1>6. refs[e] = Cardinality(Users(e))
  BY DEF LInv, Counted
<1>7. refs' \in [Entries -> Nat]
  BY <1>0, <1>5, <1>6 DEF LInv, TypeOK
<1>8. ASSUME NEW d \in Entries, d # e
      PROVE  Users(d)' = Users(d)
  BY <1>0, <1>8, EntriesAssumption DEF Users, LInv, TypeOK
<1>9. ASSUME NEW d \in Entries
      PROVE  refs'[d] = Cardinality(Users(d)')
  <2>1. CASE d = e
    BY <2>1, <1>0, <1>2, <1>3, <1>6 DEF LInv, TypeOK
  <2>2. CASE d # e
    BY <2>2, <1>0, <1>8 DEF LInv, TypeOK, Counted
  <2> QED
    BY <2>1, <2>2
<1> QED
  BY <1>7, <1>9 DEF Counted

(***************************************************************************)
(* Release deletes the entry exactly when nobody else uses it.             *)
(***************************************************************************)
LEMMA LastUser ==
  ASSUME LInv, NEW t \in Threads, ent[t] \in Entries
  PROVE  refs[ent[t]] = 1 <=> \A u \in Threads : ent[u] = ent[t] => u = t
<1> DEFINE S == Users(ent[t])
<1>1. IsFiniteSet(S) /\ refs[ent[t]] = Cardinality(S) /\ t \in S
  BY UsersFinite DEF LInv, Counted, Users
<1>2. Cardinality(S) = 1 <=> \E x : S = {x}
  BY <1>1, FS_Singleton
<1>3. (\E x : S = {x}) <=> S = {t}
  BY <1>1
<1>4. S = {t} <=> \A u \in Threads : ent[u] = ent[t] => u = t
  BY DEF Users
<1> QED
  BY <1>1, <1>2, <1>3, <1>4

-----------------------------------------------------------------------------
(***************************************************************************)
(* One lemma per action.                                                   *)
(***************************************************************************)
LEMMA ReferPreserves ==
  ASSUME LInv, NEW t \in Threads, NEW k \in Keys, NEW e \in Entries,
         pc[t] = "idle", pc' = [pc EXCEPT ![t] = "wait"],
         key' = [key EXCEPT ![t] = k], UNCHANGED owner,
         Refer(t, k, e, refs[e]),
         locks[k] = e \/ (locks[k] = None /\ Fresh(e))
  PROVE  LInv'
<1>1. ent[t] = None /\ refs[e] \in Nat
  BY DEF LInv, Mapped, TypeOK
<1>2. TypeOK'
  BY <1>1 DEF LInv, TypeOK, Refer, Points
<1>3. Counted'
  BY <1>1, ReferCounts DEF Refer
<1>4. Mapped'
  BY <1>1, EntriesAssumption DEF LInv, Mapped, TypeOK, Refer, Fresh
<1>5. OnePath'
  BY EntriesAssumption DEF LInv, OnePath, TypeOK, Refer, Fresh
<1>6. Used'
  <2> SUFFICES ASSUME NEW l \in Keys, locks'[l] # None
               PROVE  \E u \in Threads : ent'[u] = locks'[l]
    BY DEF Used
  <2>1. CASE l = k
    BY <2>1 DEF LInv, TypeOK, Refer
  <2>2. CASE l # k
    <3>1. PICK u \in Threads : ent[u] = locks[l]
      BY <2>2 DEF LInv, Used, TypeOK, Refer
    <3>2. u # t
      BY <3>1, <2>2, <1>1 DEF LInv, TypeOK, Refer
    <3> QED
      BY <3>1, <3>2, <2>2 DEF LInv, TypeOK, Refer
  <2> QED
    BY <2>1, <2>2
<1>7. Owned'
  BY <1>1, EntriesAssumption DEF LInv, Owned, TypeOK, Refer
<1> QED
  BY <1>2, <1>3, <1>4, <1>5, <1>6, <1>7 DEF LInv

LEMMA LockPreserves ==
  ASSUME LInv, NEW t \in Threads, Lock(t)
  PROVE  LInv'
<1>1. PICK k \in Keys :
        /\ key' = [key EXCEPT ![t] = k]
        /\ \/ locks[k] # None /\ Refer(t, k, locks[k], refs[locks[k]])
           \/ locks[k] = None /\ \E e \in Entries : Fresh(e) /\ Refer(t, k, e, 0)
  BY DEF Lock
<1>2. pc[t] = "idle" /\ pc' = [pc EXCEPT ![t] = "wait"] /\ UNCHANGED owner
  BY DEF Lock
<1>3. CASE locks[k] # None /\ Refer(t, k, locks[k], refs[locks[k]])
  <2>1. locks[k] \in Entries
    BY <1>3 DEF LInv, TypeOK
  <2> QED
    BY <1>1, <1>2, <1>3, <2>1, ReferPreserves
<1>4. CASE locks[k] = None /\ \E e \in Entries : Fresh(e) /\ Refer(t, k, e, 0)
  <2>1. PICK e \in Entries : Fresh(e) /\ Refer(t, k, e, 0)
    BY <1>4
  <2>2. Users(e) = {}
    BY <2>1 DEF Fresh, Users
  <2>3. refs[e] = 0
    BY <2>2, FS_EmptySet DEF LInv, Counted
  <2> QED
    BY <1>1, <1>2, <1>4, <2>1, <2>3, ReferPreserves
<1> QED
  BY <1>1, <1>3, <1>4

LEMMA AcquirePreserves ==
  ASSUME LInv, NEW t \in Threads, Acquire(t)
  PROVE  LInv'
<1>1. ent[t] \in Entries
  BY DEF LInv, Mapped, TypeOK, Acquire
<1>2. TypeOK'
  BY <1>1 DEF LInv, TypeOK, Acquire, Points
<1>3. Counted'
  BY DEF LInv, Counted, Users, Acquire
<1>4. Mapped' /\ OnePath' /\ Used'
  BY DEF LInv, TypeOK, Mapped, OnePath, Used, Acquire
<1>5. Owned'
  BY <1>1, ThreadsAssumption DEF LInv, TypeOK, Owned, Acquire
<1> QED
  BY <1>2, <1>3, <1>4, <1>5 DEF LInv

LEMMA UnlockPreserves ==
  ASSUME LInv, NEW t \in Threads, Unlock(t)
  PROVE  LInv'
<1>1. ent[t] \in Entries /\ owner[ent[t]] = t
  BY DEF LInv, Mapped, Owned, TypeOK, Unlock
<1>2. TypeOK'
  BY <1>1 DEF LInv, TypeOK, Unlock, Points
<1>3. Counted'
  BY DEF LInv, Counted, Users, Unlock
<1>4. Mapped' /\ OnePath' /\ Used'
  BY DEF LInv, TypeOK, Mapped, OnePath, Used, Unlock
<1>5. Owned'
  BY <1>1, ThreadsAssumption DEF LInv, TypeOK, Owned, Unlock
<1> QED
  BY <1>2, <1>3, <1>4, <1>5 DEF LInv

LEMMA ReleasePreserves ==
  ASSUME LInv, NEW t \in Threads, Release(t)
  PROVE  LInv'
<1>1. ent[t] \in Entries /\ locks[key[t]] = ent[t] /\ key[t] \in Keys
  BY DEF LInv, Mapped, TypeOK, Release
<1>2. Counted' /\ refs' \in [Entries -> Nat]
  BY <1>1, ReleaseCounts DEF Release
<1>3. TypeOK'
  BY <1>1, <1>2 DEF LInv, TypeOK, Release, Points
<1>4. ASSUME NEW u \in Threads, u # t, ent[u] # None
      PROVE  locks'[key[u]] = locks[key[u]]
  <2>1. CASE refs[ent[t]] = 1
    <3>1. ent[u] # ent[t]
      BY <2>1, <1>1, <1>4, LastUser
    <3>2. key[u] # key[t]
      BY <3>1, <1>1, <1>4 DEF LInv, Mapped
    <3> QED
      BY <2>1, <3>2 DEF Release, LInv, TypeOK
  <2>2. CASE refs[ent[t]] # 1
    BY <2>2 DEF Release
  <2> QED
    BY <2>1, <2>2
<1>5. Mapped'
  BY <1>4, EntriesAssumption DEF LInv, Mapped, TypeOK, Release
<1>6. OnePath'
  BY DEF LInv, OnePath, TypeOK, Release
<1>7. Used'
  <2> SUFFICES ASSUME NEW l \in Keys, locks'[l] # None
               PROVE  \E u \in Threads : ent'[u] = locks'[l]
    BY DEF Used
  <2>1. locks'[l] = locks[l]
    BY DEF LInv, TypeOK, Release
  <2>2. PICK u \in Threads : ent[u] = locks[l]
    BY <2>1 DEF LInv, Used
  <2>3. CASE u # t
    BY <2>1, <2>2, <2>3 DEF LInv, TypeOK, Release
  <2>4. CASE u = t
    <3>1. l = key[t]
      BY <2>1, <2>2, <2>4, <1>1, EntriesAssumption DEF LInv, OnePath
    <3>2. refs[ent[t]] # 1
      BY <3>1, <1>1 DEF LInv, TypeOK, Release
    <3>3. PICK v \in Threads : ent[v] = ent[t] /\ v # t
      BY <3>2, <1>1, LastUser
    <3> QED
      BY <2>1, <2>2, <2>4, <3>3 DEF LInv, TypeOK, Release
  <2> QED
    BY <2>3, <2>4
<1>8. Owned'
  BY <1>1, EntriesAssumption DEF LInv, TypeOK, Owned, Release
<1> QED
  BY <1>2, <1>3, <1>5, <1>6, <1>7, <1>8 DEF LInv

LEMMA NextLInv == LInv /\ [Next]_vars => LInv'
<1> SUFFICES ASSUME LInv, [Next]_vars PROVE LInv'
  OBVIOUS
<1>1. CASE UNCHANGED vars
  BY <1>1 DEF vars, LInv, TypeOK, Counted, Users, Mapped, OnePath, Used, Owned
<1>2. ASSUME NEW t \in Threads, Lock(t) PROVE LInv'
  BY <1>2, LockPreserves
<1>3. ASSUME NEW t \in Threads, Acquire(t) PROVE LInv'
  BY <1>3, AcquirePreserves
<1>4. ASSUME NEW t \in Threads, Unlock(t) PROVE LInv'
  BY <1>4, UnlockPreserves
<1>5. ASSUME NEW t \in Threads, Release(t) PROVE LInv'
  BY <1>5, ReleasePreserves
<1> QED
  BY <1>1, <1>2, <1>3, <1>4, <1>5 DEF Next

THEOREM LInvAlways == Spec => []LInv
  BY InitLInv, NextLInv, PTL DEF Spec

(***************************************************************************)
(* The lock map, the reference counts of its entries and the threads that  *)
(* use them keep their types, whatever is evicted and made again.          *)
(***************************************************************************)
THEOREM LocksTypeCorrect == Spec => []TypeOK
  BY LInvAlways, PTL DEF LInv

-----------------------------------------------------------------------------
(***************************************************************************)
(* Two syncs never run on the same checkout at the same time, for any      *)
(* number of threads, checkouts and interleavings of lock and release.     *)
(***************************************************************************)
THEOREM SyncsExclude == Spec => []OneSyncPerCheckout
<1>1. LInv => OneSyncPerCheckout
  BY EntriesAssumption DEF LInv, TypeOK, Mapped, Owned, OneSyncPerCheckout
<1> QED
  BY <1>1, LInvAlways, PTL

(***************************************************************************)
(* The map never keeps an entry for a path nobody uses.                    *)
(***************************************************************************)
THEOREM NothingLeaks == Spec => []NoLeakedEntry
<1>1. LInv => NoLeakedEntry
  <2> SUFFICES ASSUME LInv, NEW k \in Keys, locks[k] # None
               PROVE  \E t \in Threads : pc[t] # "idle" /\ key[t] = k
    BY DEF NoLeakedEntry
  <2>1. PICK t \in Threads : ent[t] = locks[k]
    BY DEF LInv, Used
  <2> QED
    BY <2>1 DEF LInv, TypeOK, Mapped, OnePath
<1> QED
  BY <1>1, LInvAlways, PTL

(***************************************************************************)
(* keyedSourceSyncLocks implements one mutex per path: every step is one   *)
(* of the abstract steps or a stutter.                                     *)
(***************************************************************************)
THEOREM MapIsMutex == Spec => IsKeyedMutex
<1>1. Init => Abstract!Init
  BY DEF Init, Abstract!Init, Phase
<1>2. ASSUME LInv, [Next]_vars
      PROVE  [Abstract!Next]_(Abstract!vars)
  <2>1. ASSUME NEW t \in Threads, Lock(t)
        PROVE  Abstract!Ask(t)
    BY <1>2, <2>1 DEF Lock, Abstract!Ask, Phase, LInv, TypeOK
  <2>2. ASSUME NEW t \in Threads, Acquire(t)
        PROVE  Abstract!Hold(t)
    <3>1. ASSUME NEW u \in Threads, Phase(u) = "holding"
          PROVE  key[u] # key[t]
      <4>1. pc[u] = "sync"
        BY <3>1 DEF Phase
      <4>2. ent[u] # ent[t]
        BY <4>1, <1>2, <2>2, ThreadsAssumption DEF Acquire, LInv, Owned, Mapped, TypeOK
      <4> QED
        BY <4>1, <4>2, <1>2, <2>2 DEF Acquire, LInv, Mapped, TypeOK
    <3> QED
      BY <3>1, <1>2, <2>2 DEF Acquire, Abstract!Hold, Phase, LInv, TypeOK
  <2>3. ASSUME NEW t \in Threads, Unlock(t)
        PROVE  Abstract!Give(t)
    BY <1>2, <2>3 DEF Unlock, Abstract!Give, Phase, LInv, TypeOK
  <2>4. ASSUME NEW t \in Threads, Release(t)
        PROVE  UNCHANGED Abstract!vars
    BY <1>2, <2>4 DEF Release, Abstract!vars, Phase, LInv, TypeOK
  <2>5. CASE UNCHANGED vars
    BY <2>5 DEF vars, Abstract!vars, Phase
  <2> QED
    BY <1>2, <2>1, <2>2, <2>3, <2>4, <2>5 DEF Next, Abstract!Next
<1> QED
  BY <1>1, <1>2, LInvAlways, PTL DEF Spec, IsKeyedMutex, Abstract!Spec
=============================================================================
