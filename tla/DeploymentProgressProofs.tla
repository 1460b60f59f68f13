---------------------- MODULE DeploymentProgressProofs ----------------------
(***************************************************************************)
(* Proofs about DeploymentProgress, for any number of deployments and      *)
(* handlers: the retry loop implements the atomic guarded save.            *)
(***************************************************************************)
EXTENDS DeploymentProgress, TLAPS

USE DEF row

(***************************************************************************)
(* The inductive invariant: versions only grow and every write makes a new *)
(* one, so a row read at the present version is the present row.           *)
(***************************************************************************)
IInv == TypeOK /\ SeenIsCurrent

LEMMA InitInvariant == Init => IInv
<1> SUFFICES ASSUME Init PROVE IInv
  OBVIOUS
<1>1. TypeOK
  BY DEF Init, TypeOK, Row, WorkerPhases, HandlerPhases
<1>2. SeenIsCurrent
  BY DEF Init, SeenIsCurrent
<1> QED
  BY <1>1, <1>2 DEF IInv

(***************************************************************************)
(* A statement that writes the row makes every earlier reading stale.      *)
(***************************************************************************)
LEMMA WriteAgesSeen ==
  ASSUME IInv, NEW s, NEW u, NEW p, Write(s, u, p), UNCHANGED seen,
         NEW a \in Workers \cup Handlers, NEW point, point # "write",
         Goto(a, point)
  PROVE  SeenIsCurrent'
<1> SUFFICES ASSUME NEW w \in Workers, phase'[w] = "write"
             PROVE  /\ seen[w][1] \in Allowed
                    /\ seen[w][4] <= version'
                    /\ seen[w][4] # version'
  BY DEF SeenIsCurrent
<1>1. phase[w] = "write"
  BY DEF IInv, TypeOK, Goto
<1>2. seen[w][1] \in Allowed /\ seen[w][4] <= version
  BY <1>1 DEF IInv, SeenIsCurrent
<1>3. seen[w] \in Row /\ version \in Nat
  BY DEF IInv, TypeOK, Row
<1>4. seen[w][4] \in Nat
  BY <1>3 DEF Row
<1> QED
  BY <1>2, <1>3, <1>4 DEF Write

(***************************************************************************)
(* A step that leaves the row and the readings alone, and sends no worker  *)
(* to its write, keeps SeenIsCurrent.                                      *)
(***************************************************************************)
LEMMA QuietKeepsSeen ==
  ASSUME IInv, UNCHANGED <<row, seen>>,
         NEW a \in Workers \cup Handlers, NEW point, point # "write",
         Goto(a, point)
  PROVE  SeenIsCurrent'
<1> SUFFICES ASSUME NEW w \in Workers, phase'[w] = "write"
             PROVE  phase[w] = "write"
  BY DEF IInv, SeenIsCurrent
<1> QED
  BY DEF IInv, TypeOK, Goto

LEMMA NextInvariant == IInv /\ [Next]_vars => IInv'
<1> SUFFICES ASSUME IInv, [Next]_vars PROVE IInv'
  OBVIOUS
<1> USE DEF IInv
<1>1. ASSUME NEW w \in Workers, Ask(w) PROVE IInv'
  <2>1. TypeOK'
    BY <1>1 DEF Ask, Goto, TypeOK, Row, WorkerPhases, HandlerPhases
  <2>2. SeenIsCurrent'
    BY <1>1, QuietKeepsSeen DEF Ask
  <2> QED
    BY <2>1, <2>2
<1>2. ASSUME NEW w \in Workers, TryRead(w) PROVE IInv'
  <2>1. TypeOK'
    BY <1>2 DEF TryRead, Goto, TypeOK, Row, WorkerPhases, HandlerPhases
  <2>2. SeenIsCurrent'
    <3> SUFFICES ASSUME NEW v \in Workers, phase'[v] = "write"
                 PROVE  /\ seen'[v][1] \in Allowed
                        /\ seen'[v][4] <= version
                        /\ seen'[v][4] = version => seen'[v] = row
      BY <1>2 DEF TryRead, SeenIsCurrent
    <3>1. CASE v = w
      BY <1>2, <3>1 DEF TryRead, TypeOK, Row
    <3>2. CASE v # w
      BY <1>2, <3>2 DEF TryRead, Goto, TypeOK, SeenIsCurrent
    <3> QED
      BY <3>1, <3>2
  <2> QED
    BY <2>1, <2>2
<1>3. ASSUME NEW w \in Workers, TryRefuse(w) PROVE IInv'
  <2>1. TypeOK'
    BY <1>3 DEF TryRefuse, Goto, TypeOK, Row, WorkerPhases, HandlerPhases
  <2>2. SeenIsCurrent'
    BY <1>3, QuietKeepsSeen DEF TryRefuse
  <2> QED
    BY <2>1, <2>2
<1>4. ASSUME NEW w \in Workers, TryWrite(w) PROVE IInv'
  <2>1. TypeOK'
    <3>1. want[w] \in Statuses \X Progress /\ seen[w] \in Row
      BY DEF TypeOK
    <3>2. row' \in Row
      BY <1>4, <3>1 DEF TryWrite, Write, TypeOK, Row
    <3> QED
      BY <1>4, <3>2 DEF TryWrite, Goto, TypeOK, WorkerPhases, HandlerPhases
  <2>2. SeenIsCurrent'
    BY <1>4, WriteAgesSeen DEF TryWrite
  <2> QED
    BY <2>1, <2>2
<1>5. ASSUME NEW w \in Workers, TryAgain(w) PROVE IInv'
  <2>1. TypeOK'
    BY <1>5 DEF TryAgain, Goto, TypeOK, Row, WorkerPhases, HandlerPhases
  <2>2. SeenIsCurrent'
    BY <1>5, QuietKeepsSeen DEF TryAgain
  <2> QED
    BY <2>1, <2>2
<1>6. ASSUME NEW h \in Handlers, Load(h) PROVE IInv'
  <2>1. TypeOK'
    BY <1>6 DEF Load, Goto, TypeOK, Row, WorkerPhases, HandlerPhases
  <2>2. SeenIsCurrent'
    BY <1>6, QuietKeepsSeen DEF Load
  <2> QED
    BY <2>1, <2>2
<1>7. ASSUME NEW h \in Handlers, SavePlayground(h) PROVE IInv'
  <2>1. TypeOK'
    <3>1. copy[h] \in Row
      BY DEF TypeOK
    <3>2. row' \in Row
      BY <1>7, <3>1 DEF SavePlayground, Write, TypeOK, Row
    <3> QED
      BY <1>7, <3>2 DEF SavePlayground, Goto, TypeOK, WorkerPhases, HandlerPhases
  <2>2. SeenIsCurrent'
    BY <1>7, WriteAgesSeen, QuietKeepsSeen DEF SavePlayground
  <2> QED
    BY <2>1, <2>2
<1>8. ASSUME NEW h \in Handlers, DeletePlayground(h) PROVE IInv'
  <2>1. TypeOK'
    <3>1. row' \in Row
      BY <1>8 DEF DeletePlayground, Write, TypeOK, Row
    <3> QED
      BY <1>8, <3>1 DEF DeletePlayground, Goto, TypeOK, WorkerPhases, HandlerPhases
  <2>2. SeenIsCurrent'
    BY <1>8, WriteAgesSeen DEF DeletePlayground
  <2> QED
    BY <2>1, <2>2
<1>9. CASE UNCHANGED vars
  BY <1>9 DEF vars, TypeOK, SeenIsCurrent
<1> QED
  BY <1>1, <1>2, <1>3, <1>4, <1>5, <1>6, <1>7, <1>8, <1>9 DEF Next, Try

(***************************************************************************)
(* trySaveDeploymentProgress never holds a reading that looks current and  *)
(* is not, whoever else writes the row.                                    *)
(***************************************************************************)
THEOREM SeenIsAlwaysCurrent == Spec => [](TypeOK /\ SeenIsCurrent)
<1>1. Init => IInv
  BY InitInvariant
<1>2. IInv /\ [Next]_vars => IInv'
  BY NextInvariant
<1> QED
  BY <1>1, <1>2, PTL DEF Spec, IInv

(***************************************************************************)
(* The stored row, the copies of it that the workers and the handlers hold, *)
(* and where each of them is in its read-check-save loop keep their types. *)
(***************************************************************************)
THEOREM ProgressTypeCorrect == Spec => []TypeOK
  BY SeenIsAlwaysCurrent, PTL

-----------------------------------------------------------------------------
(***************************************************************************)
(* Refinement.                                                             *)
(***************************************************************************)
Phase == [w \in Workers |->
            IF phase[w] \in {"read", "write"} THEN "saving" ELSE phase[w]]

(***************************************************************************)
(* A worker's move shows in the abstract phases, a handler's does not.     *)
(***************************************************************************)
LEMMA PhaseOfWorker ==
  ASSUME TypeOK, NEW w \in Workers, NEW point, Goto(w, point)
  PROVE  Phase' = [Phase EXCEPT ![w] =
                     IF point \in {"read", "write"} THEN "saving" ELSE point]
BY DEF TypeOK, Phase, Goto

LEMMA PhaseOfHandler ==
  ASSUME TypeOK, NEW h \in Handlers, NEW point, Goto(h, point)
  PROVE  Phase' = Phase
BY TaskAssumption DEF TypeOK, Phase, Goto

LEMMA InitRefines == Init => Abstract!Init
<1> SUFFICES ASSUME Init PROVE Abstract!Init
  OBVIOUS
<1>1. Phase = [w \in Workers |-> "idle"]
  BY DEF Init, Phase
<1>2. want \in [Workers -> Statuses \X Progress]
  BY DEF Init
<1> QED
  BY <1>1, <1>2 DEF Init, Phase, Abstract!Init

(***************************************************************************)
(* Each step of the loop is a step of the atomic save or changes nothing   *)
(* the atomic save can see.  The interesting one is TryWrite: by           *)
(* SeenIsCurrent the user fields it writes are the ones in the row.        *)
(***************************************************************************)
LEMMA StepRefines ==
  IInv /\ [Next]_vars => [Abstract!Next]_(Abstract!vars)
<1> SUFFICES ASSUME IInv, [Next]_vars
             PROVE  Abstract!Next \/ UNCHANGED <<status, user, prog, Phase, want>>
  BY DEF Abstract!vars, Phase
<1> USE DEF IInv
<1>1. ASSUME NEW w \in Workers, Ask(w) PROVE Abstract!Ask(w)
  <2>1. Phase[w] # "saving"
    BY <1>1 DEF Ask, Phase, TypeOK, WorkerPhases, HandlerPhases
  <2>2. Phase' = [Phase EXCEPT ![w] = "saving"]
    BY <1>1, PhaseOfWorker DEF Ask
  <2> QED
    BY <1>1, <2>1, <2>2 DEF Ask, Abstract!Ask, Phase
<1>2. ASSUME NEW w \in Workers, TryRead(w)
      PROVE  UNCHANGED <<status, user, prog, Phase, want>>
  <2>1. Phase' = Phase
    BY <1>2 DEF TryRead, Goto, Phase, TypeOK
  <2> QED
    BY <1>2, <2>1 DEF TryRead
<1>3. ASSUME NEW w \in Workers, TryRefuse(w) PROVE Abstract!Refuse(w)
  <2>1. Phase[w] = "saving"
    BY <1>3 DEF TryRefuse, Phase
  <2>2. Phase' = [Phase EXCEPT ![w] = "refused"]
    BY <1>3, PhaseOfWorker DEF TryRefuse
  <2> QED
    BY <1>3, <2>1, <2>2 DEF TryRefuse, Abstract!Refuse, Phase
<1>4. ASSUME NEW w \in Workers, TryWrite(w) PROVE Abstract!Save(w)
  <2>1. Phase[w] = "saving"
    BY <1>4 DEF TryWrite, Phase
  <2>2. Phase' = [Phase EXCEPT ![w] = "saved"]
    BY <1>4, PhaseOfWorker DEF TryWrite
  <2>3. status \in Allowed /\ seen[w] = row
    BY <1>4 DEF TryWrite, Current, SeenIsCurrent
  <2>4. /\ status' = want[w][1] /\ user' = user /\ prog' = want[w][2]
        /\ want' = want
    BY <1>4, <2>3 DEF TryWrite, Write
  <2> QED
    BY <2>1, <2>2, <2>3, <2>4 DEF Abstract!Save, Phase
<1>5. ASSUME NEW w \in Workers, TryAgain(w)
      PROVE  Abstract!Refuse(w) \/ UNCHANGED <<status, user, prog, Phase, want>>
  <2>1. CASE status = Gone
    <3>1. Phase[w] = "saving"
      BY <1>5 DEF TryAgain, Phase
    <3>2. Phase' = [Phase EXCEPT ![w] = "refused"]
      BY <1>5, <2>1, PhaseOfWorker DEF TryAgain
    <3>3. status \notin Allowed
      BY <2>1, StatusAssumption
    <3> QED
      BY <1>5, <3>1, <3>2, <3>3 DEF TryAgain, Abstract!Refuse, Phase
  <2>2. CASE status # Gone
    <3>1. Phase' = Phase
      BY <1>5, <2>2 DEF TryAgain, Goto, Phase, TypeOK
    <3> QED
      BY <1>5, <3>1 DEF TryAgain
  <2> QED
    BY <2>1, <2>2
<1>6. ASSUME NEW h \in Handlers, Load(h)
      PROVE  UNCHANGED <<status, user, prog, Phase, want>>
  BY <1>6, PhaseOfHandler DEF Load
<1>7. ASSUME NEW h \in Handlers, SavePlayground(h)
      PROVE  Abstract!Other \/ UNCHANGED <<status, user, prog, Phase, want>>
  <2>1. Phase' = Phase
    BY <1>7, PhaseOfHandler DEF SavePlayground
  <2>2. copy[h] \in Row
    BY DEF TypeOK
  <2> QED
    BY <1>7, <2>1, <2>2 DEF SavePlayground, Write, Row, Abstract!Other, Phase
<1>8. ASSUME NEW h \in Handlers, DeletePlayground(h) PROVE Abstract!Other
  <2>1. Phase' = Phase
    BY <1>8, PhaseOfHandler DEF DeletePlayground
  <2> QED
    BY <1>8, <2>1 DEF DeletePlayground, Write, TypeOK, Row, Abstract!Other, Phase
<1>9. CASE UNCHANGED vars
  BY <1>9 DEF vars, Phase
<1> QED
  BY <1>1, <1>2, <1>3, <1>4, <1>5, <1>6, <1>7, <1>8, <1>9
     DEF Next, Try, Abstract!Next

(***************************************************************************)
(* saveDeploymentProgressWhen behaves as one atomic guarded save, for any  *)
(* number of concurrent deployments and handlers: the assumption under     *)
(* which PlaygroundLifecycle models it as a single step.                   *)
(***************************************************************************)
THEOREM LoopIsAtomic == Spec => AtomicGuardedSave
<1>1. Init => Abstract!Init
  BY InitRefines
<1>2. IInv /\ [Next]_vars => [Abstract!Next]_(Abstract!vars)
  BY StepRefines
<1>3. Spec => []IInv
  BY SeenIsAlwaysCurrent DEF IInv
<1> QED
  BY <1>1, <1>2, <1>3, PTL DEF Spec, AtomicGuardedSave, Abstract!Spec
=============================================================================
