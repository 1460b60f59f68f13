----------------------- MODULE AsyncOperationsProofs -----------------------
(***************************************************************************)
(* Proofs about AsyncOperations, for any number of operations, faults and  *)
(* restarts: a result is honest and final.                                 *)
(***************************************************************************)
EXTENDS AsyncOperations, TLAPS

(***************************************************************************)
(* The inductive invariant: a goroutine that may still write finds its row *)
(* pending, an operation not yet enqueued has no row, and what a goroutine *)
(* is about to store is how its function ended.                            *)
(***************************************************************************)
Live == {"queued", "work", "save", "fallback"}

Unwritten(o) ==
  /\ pc[o] \in Live => Pending(o)
  /\ pc[o] = "new" => op[o].status = "none"
  /\ pc[o] = "save" => out[o] \in Outcomes

AInv == TypeOK /\ ResultIsHonest /\ \A o \in Ops : Unwritten(o)

LEMMA InitAInv == Init => AInv
  BY BoundsAssumption
     DEF Init, AInv, TypeOK, Row, Errors, Points, Outcomes, ResultIsHonest,
         Honest, Unwritten, Live, Pending

(***************************************************************************)
(* A save replaces the row of an operation whose result is not stored yet  *)
(* by an honest one, or leaves it.                                         *)
(***************************************************************************)
LEMMA SavePreserves ==
  ASSUME AInv, NEW o \in Ops, NEW row \in Row, NEW then \in Points,
         NEW otherwise \in Points, SaveAsync(o, row, then, otherwise),
         UNCHANGED <<out, restarts>>,
         row.status = "success" <=> row.payload,
         row.status = "error" <=> row.error # "none",
         row.status = "success" => out[o] = "ok",
         row.error \in Outcomes => out[o] = row.error,
         then \in Live => row.status \in {"queued", "running"},
         otherwise \in Live => Pending(o),
         then \notin {"new", "save"}, otherwise \notin {"new", "save"}
  PROVE  AInv'
<1>1. TypeOK'
  BY BoundsAssumption DEF AInv, TypeOK, SaveAsync, Goto
<1>2. ResultIsHonest'
  BY DEF AInv, TypeOK, ResultIsHonest, Honest, SaveAsync
<1>3. ASSUME NEW p \in Ops PROVE Unwritten(p)'
  <2>1. CASE p = o
    BY <2>1 DEF AInv, TypeOK, Unwritten, Pending, SaveAsync, Goto
  <2>2. CASE p # o
    BY <2>2 DEF AInv, TypeOK, Unwritten, Pending, SaveAsync, Goto
  <2> QED
    BY <2>1, <2>2
<1> QED
  BY <1>1, <1>2, <1>3 DEF AInv

LEMMA FailureIsHonest ==
  ASSUME NEW code \in Errors \ {"none"}
  PROVE  /\ Failure(code) \in Row
         /\ Failure(code).status = "error"
         /\ Failure(code).error = code
         /\ Failure(code).payload = FALSE
  BY DEF Failure, Row

LEMMA NextAInv == AInv /\ [Next]_vars => AInv'
<1> SUFFICES ASSUME AInv, [Next]_vars PROVE AInv'
  OBVIOUS
<1>1. ASSUME NEW o \in Ops, Enqueue(o) PROVE AInv'
  <2> DEFINE row == [status |-> "queued", payload |-> FALSE, error |-> "none"]
  <2>1. row \in Row /\ "queued" \in Points /\ "done" \in Points
    BY DEF Row, Errors, Points
  <2> QED
    BY <1>1, <2>1, SavePreserves DEF Enqueue, Live, Outcomes
<1>2. ASSUME NEW o \in Ops, MarkRunning(o) PROVE AInv'
  <2> DEFINE row == [op[o] EXCEPT !.status = "running"]
  <2>1. op[o] \in Row /\ Pending(o) /\ Honest(o)
    BY <1>2 DEF AInv, TypeOK, Unwritten, ResultIsHonest, MarkRunning, Live
  <2>2. row \in Row /\ row.status = "running" /\ row.payload = op[o].payload
        /\ row.error = op[o].error /\ "work" \in Points
    BY <2>1 DEF Row, Points
  <2>3. op[o].payload = FALSE /\ op[o].error = "none"
    BY <2>1 DEF Honest, Pending, Row
  <2> HIDE DEF row
  <2> QED
    BY <1>2, <2>1, <2>2, <2>3, SavePreserves DEF MarkRunning, Outcomes, row
<1>3. ASSUME NEW o \in Ops, Run(o) PROVE AInv'
  <2>1. TypeOK'
    BY <1>3 DEF AInv, TypeOK, Run, Goto, Points
  <2>2. op[o].status # "success" /\ op[o].error = "none"
    BY <1>3 DEF AInv, TypeOK, Unwritten, Pending, ResultIsHonest, Honest, Run, Live
  <2>3. ResultIsHonest'
    BY <1>3, <2>2 DEF AInv, TypeOK, ResultIsHonest, Honest, Run, Outcomes
  <2>4. ASSUME NEW p \in Ops PROVE Unwritten(p)'
    BY <1>3 DEF AInv, TypeOK, Unwritten, Pending, Run, Goto, Live
  <2> QED
    BY <2>1, <2>3, <2>4 DEF AInv
<1>4. ASSUME NEW o \in Ops, FinishAsync(o) PROVE AInv'
  <2> DEFINE row == [status |-> "success", payload |-> TRUE, error |-> "none"]
  <2>1. Pending(o) /\ out[o] \in Outcomes
    BY <1>4 DEF AInv, Unwritten, FinishAsync, Live
  <2>2. CASE out[o] = "ok"
    <3>1. row \in Row /\ "done" \in Points /\ "fallback" \in Points
      BY DEF Row, Errors, Points
    <3>2. SaveAsync(o, row, "done", "fallback") /\ UNCHANGED <<out, restarts>>
      BY <1>4, <2>2 DEF FinishAsync
    <3> QED
      BY <2>1, <2>2, <3>1, <3>2, SavePreserves DEF Live, Outcomes
  <2>3. CASE out[o] # "ok"
    <3>1. out[o] \in Errors \ {"none"} /\ "done" \in Points
      BY <2>1, <2>3 DEF Errors, Outcomes, Points
    <3>2. SaveAsync(o, Failure(out[o]), "done", "done") /\ UNCHANGED <<out, restarts>>
      BY <1>4, <2>3 DEF FinishAsync
    <3>3. /\ Failure(out[o]) \in Row
          /\ Failure(out[o]).status = "error"
          /\ Failure(out[o]).error = out[o]
          /\ Failure(out[o]).payload = FALSE
      BY <3>1, FailureIsHonest
    <3>4. "done" \notin Live
      BY DEF Live
    <3> QED
      BY <2>1, <3>1, <3>2, <3>3, <3>4, SavePreserves
  <2> QED
    BY <2>2, <2>3
<1>5. ASSUME NEW o \in Ops, FinishAsyncPersistenceError(o) PROVE AInv'
  <2>1. "unsaved" \in Errors \ {"none"} /\ "unsaved" \notin Outcomes /\ "done" \in Points
    BY DEF Errors, Outcomes, Points
  <2>2. /\ Failure("unsaved") \in Row
        /\ Failure("unsaved").status = "error"
        /\ Failure("unsaved").error = "unsaved"
        /\ Failure("unsaved").payload = FALSE
    BY <2>1, FailureIsHonest
  <2>3. "done" \notin Live
    BY DEF Live
  <2> QED
    BY <1>5, <2>1, <2>2, <2>3, SavePreserves DEF FinishAsyncPersistenceError
<1>6. CASE Restart
  <2>1. "interrupted" \in Errors \ {"none"} /\ "interrupted" \notin Outcomes
    BY DEF Errors, Outcomes
  <2>2. ASSUME NEW o \in Ops PROVE op'[o] = op[o] \/ op'[o] = Failure("interrupted")
    BY <1>6 DEF Restart, Recovered, AInv, TypeOK
  <2>3. op' \in [Ops -> Row]
    BY <1>6, <2>1, FailureIsHonest DEF Restart, Recovered, AInv, TypeOK
  <2>4. TypeOK'
    BY <1>6, <2>3, BoundsAssumption DEF Restart, AInv, TypeOK, Points
  <2>5. ASSUME NEW o \in Ops PROVE Honest(o)'
    <3>1. CASE op'[o] = op[o]
      BY <1>6, <3>1 DEF Restart, AInv, ResultIsHonest, Honest
    <3>2. CASE op'[o] = Failure("interrupted")
      BY <3>2, <2>1 DEF Failure, Honest
    <3> QED
      BY <2>2, <3>1, <3>2
  <2>6. ASSUME NEW o \in Ops PROVE Unwritten(o)'
    BY <1>6 DEF Restart, Recovered, AInv, TypeOK, Unwritten, Pending, Live
  <2> QED
    BY <2>4, <2>5, <2>6 DEF AInv, ResultIsHonest
<1>7. CASE UNCHANGED vars
  BY <1>7 DEF vars, AInv, TypeOK, ResultIsHonest, Honest, Unwritten, Pending
<1> QED
  BY <1>1, <1>2, <1>3, <1>4, <1>5, <1>6, <1>7 DEF Next, Work, Idle

THEOREM AInvAlways == Spec => []AInv
  BY InitAInv, NextAInv, PTL DEF Spec

(***************************************************************************)
(* Stored operations keep to the statuses and errors the store knows, and  *)
(* goroutines to their steps, under restarts and failing saves.            *)
(***************************************************************************)
THEOREM OperationsTypeCorrect == Spec => []TypeOK
  BY AInvAlways, PTL DEF AInv

(***************************************************************************)
(* Success is reported only for an operation that succeeded, an error of   *)
(* its own only for one that failed, and never both.                       *)
(***************************************************************************)
THEOREM ResultsAreHonest == Spec => []ResultIsHonest
  BY AInvAlways, PTL DEF AInv

(***************************************************************************)
(* A stored result never changes: no late goroutine, second attempt or     *)
(* recovery writes over it.                                                *)
(***************************************************************************)
THEOREM ResultsAreFinal == Spec => ResultIsFinal
<1>1. ASSUME AInv, [Next]_vars, NEW o \in Ops, Final(o)
      PROVE  op'[o] = op[o]
  <2>1. pc[o] \notin Live /\ pc[o] # "new"
    BY <1>1 DEF AInv, Unwritten, Final, Pending
  <2>2. ASSUME NEW p \in Ops, NEW row, NEW then, NEW otherwise, p # o,
               SaveAsync(p, row, then, otherwise)
        PROVE  op'[o] = op[o]
    BY <1>1, <2>2 DEF SaveAsync, AInv, TypeOK
  <2>3. ASSUME NEW p \in Ops, Enqueue(p) \/ Work(p) PROVE op'[o] = op[o]
    <3>1. p # o
      BY <2>1, <2>3 DEF Enqueue, Work, MarkRunning, Run, FinishAsync,
                        FinishAsyncPersistenceError, Live
    <3> QED
      BY <2>2, <2>3, <3>1 DEF Enqueue, Work, MarkRunning, Run, FinishAsync,
                              FinishAsyncPersistenceError
  <2>4. CASE Restart
    BY <1>1, <2>4 DEF Restart, Recovered, Pending, Final, AInv, TypeOK
  <2> QED
    BY <1>1, <2>3, <2>4 DEF Next, Idle, vars
<1>2. AInv /\ [Next]_vars => [\A o \in Ops : Final(o) => op'[o] = op[o]]_vars
  BY <1>1
<1> QED
  BY <1>2, AInvAlways, PTL DEF Spec, ResultIsFinal
=============================================================================
