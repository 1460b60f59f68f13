-------------------------- MODULE AsyncOperations --------------------------
(***************************************************************************)
(* The async supervisor: Enqueue stores an operation and starts a detached *)
(* goroutine, which runs it and stores its result; a client polls the row. *)
(* Any statement can fail, the process can die between any two of them,    *)
(* and a failing statement is logged, seldom retried.                      *)
(***************************************************************************)
EXTENDS Naturals

CONSTANTS
  Ops,         \* operations clients will enqueue, each once
  MaxFaults,   \* bound on failing statements
  MaxRestarts  \* bound on process restarts

ASSUME BoundsAssumption == MaxFaults \in Nat /\ MaxRestarts \in Nat

(***************************************************************************)
(*   op   the async_operations rows: status, whether payload_json holds a  *)
(*        result, and what error_json says                                 *)
(*   pc   where each operation's goroutine is                              *)
(*   out  what the operation did: nothing yet, or how its function ended   *)
(***************************************************************************)
VARIABLES op, pc, out, faults, restarts

vars == <<op, pc, out, faults, restarts>>

Outcomes == {"ok", "failed", "panicked"}

Errors == {"none", "failed", "panicked", "unsaved", "interrupted"}

Row == [status : {"none", "queued", "running", "success", "error"},
        payload : BOOLEAN, error : Errors]

Points == {"new", "queued", "work", "save", "fallback", "done"}

Pending(o) == op[o].status \in {"queued", "running"}

Final(o) == op[o].status \in {"success", "error"}

Init ==
  /\ op = [o \in Ops |-> [status |-> "none", payload |-> FALSE, error |-> "none"]]
  /\ pc = [o \in Ops |-> "new"]
  /\ out = [o \in Ops |-> "none"]
  /\ faults = 0
  /\ restarts = 0

Goto(o, point) == pc' = [pc EXCEPT ![o] = point]

(***************************************************************************)
(* SaveAsync writes status, payload and error together, or fails.          *)
(***************************************************************************)
SaveAsync(o, row, then, otherwise) ==
  \/ op' = [op EXCEPT ![o] = row] /\ Goto(o, then) /\ UNCHANGED faults
  \/ /\ faults < MaxFaults
     /\ faults' = faults + 1
     /\ Goto(o, otherwise)
     /\ UNCHANGED op

Failure(code) == [status |-> "error", payload |-> FALSE, error |-> code]

-----------------------------------------------------------------------------
(***************************************************************************)
(* Enqueue: no row, no goroutine.                                          *)
(***************************************************************************)
Enqueue(o) ==
  /\ pc[o] = "new"
  /\ SaveAsync(o, [status |-> "queued", payload |-> FALSE, error |-> "none"],
               "queued", "done")
  /\ UNCHANGED <<out, restarts>>

(***************************************************************************)
(* runAsync marks the row running and goes on even if that fails.          *)
(***************************************************************************)
MarkRunning(o) ==
  /\ pc[o] = "queued"
  /\ SaveAsync(o, [op[o] EXCEPT !.status = "running"], "work", "work")
  /\ UNCHANGED <<out, restarts>>

(***************************************************************************)
(* The operation's function returns a payload or an error, or panics.      *)
(***************************************************************************)
Run(o) ==
  /\ pc[o] = "work"
  /\ \E how \in Outcomes : out' = [out EXCEPT ![o] = how]
  /\ Goto(o, "save")
  /\ UNCHANGED <<op, faults, restarts>>

(***************************************************************************)
(* Faulty: finishAsync stores the payload whether there is an error or not,*)
(* or returns when it cannot store one.                                    *)
(***************************************************************************)
FinishAsyncAsSuccess(o) ==
  /\ pc[o] = "save"
  /\ SaveAsync(o, [status |-> "success", payload |-> TRUE, error |-> "none"],
               "done", "fallback")
  /\ UNCHANGED <<out, restarts>>

FinishAsyncOnce(o) ==
  /\ pc[o] = "save"
  /\ SaveAsync(o, IF out[o] = "ok"
                  THEN [status |-> "success", payload |-> TRUE, error |-> "none"]
                  ELSE Failure(out[o]),
               "done", "done")
  /\ UNCHANGED <<out, restarts>>

(***************************************************************************)
(* finishAsync.  A result that cannot be stored gets a second attempt as   *)
(* an error; an error that cannot be stored is only logged.                *)
(***************************************************************************)
FinishAsync(o) ==
  /\ pc[o] = "save"
  /\ \/ /\ out[o] = "ok"
        /\ SaveAsync(o, [status |-> "success", payload |-> TRUE, error |-> "none"],
                     "done", "fallback")
     \/ /\ out[o] # "ok"
        /\ SaveAsync(o, Failure(out[o]), "done", "done")
  /\ UNCHANGED <<out, restarts>>

FinishAsyncPersistenceError(o) ==
  /\ pc[o] = "fallback"
  /\ SaveAsync(o, Failure("unsaved"), "done", "done")
  /\ UNCHANGED <<out, restarts>>

-----------------------------------------------------------------------------
(***************************************************************************)
(* Faulty: the recovery rewrites every row, or only the running ones, or   *)
(* stores the reason as the status.                                        *)
(***************************************************************************)
RecoveredAll(o) == IF op[o].status # "none" THEN Failure("interrupted") ELSE op[o]

RecoveredRunning(o) ==
  IF op[o].status = "running" THEN Failure("interrupted") ELSE op[o]

RecoveredAsStatus(o) ==
  IF Pending(o) THEN [Failure("interrupted") EXCEPT !.status = "interrupted"]
  ELSE op[o]

(***************************************************************************)
(* The process dies and starts again.  RecoverInterruptedAsyncOperations   *)
(* ends every pending row in one statement; when that fails the server     *)
(* starts all the same.                                                    *)
(***************************************************************************)
Recovered(o) == IF Pending(o) THEN Failure("interrupted") ELSE op[o]

Restart ==
  /\ restarts < MaxRestarts
  /\ restarts' = restarts + 1
  /\ pc' = [o \in Ops |-> IF pc[o] = "new" THEN "new" ELSE "done"]
  /\ \/ op' = [o \in Ops |-> Recovered(o)] /\ UNCHANGED faults
     \/ faults < MaxFaults /\ faults' = faults + 1 /\ UNCHANGED op
  /\ UNCHANGED out

-----------------------------------------------------------------------------
Work(o) ==
  MarkRunning(o) \/ Run(o) \/ FinishAsync(o) \/ FinishAsyncPersistenceError(o)

(***************************************************************************)
(* Every operation of the instance has been enqueued and has ended.        *)
(***************************************************************************)
Idle == (\A o \in Ops : pc[o] = "done") /\ UNCHANGED vars

Next == (\E o \in Ops : Enqueue(o) \/ Work(o)) \/ Restart \/ Idle

Spec == Init /\ [][Next]_vars

(***************************************************************************)
(* A goroutine that can go on goes on.  Clients need not come.             *)
(***************************************************************************)
FairSpec == Spec /\ \A o \in Ops : WF_vars(Work(o))

-----------------------------------------------------------------------------
(***************************************************************************)
(* Every variable has the type its declaration promises.                   *)
(***************************************************************************)
TypeOK ==
  /\ op \in [Ops -> Row]
  /\ pc \in [Ops -> Points]
  /\ out \in [Ops -> Outcomes \cup {"none"}]
  /\ faults \in 0 .. MaxFaults
  /\ restarts \in 0 .. MaxRestarts

(***************************************************************************)
(* A polled result is the truth: success only for an operation that did    *)
(* succeed, with its payload; its own error only for one that failed that  *)
(* way; and an error never comes with a payload.                           *)
(***************************************************************************)
Honest(o) ==
  /\ op[o].status = "success" <=> op[o].payload
  /\ op[o].status = "error" <=> op[o].error # "none"
  /\ op[o].status = "success" => out[o] = "ok"
  /\ op[o].error \in Outcomes => out[o] = op[o].error

ResultIsHonest == \A o \in Ops : Honest(o)

(***************************************************************************)
(* A client that has seen an operation end never sees it change again,     *)
(* whatever fails, retries or restarts afterwards.                         *)
(***************************************************************************)
ResultIsFinal == [][\A o \in Ops : Final(o) => op'[o] = op[o]]_vars

(***************************************************************************)
(* Unless a statement fails, an operation a client polls ends, across      *)
(* restarts too.                                                           *)
(***************************************************************************)
OperationSettles == \A o \in Ops : Pending(o) ~> Final(o) \/ faults > 0

(***************************************************************************)
(* An operation that has succeeded is answered even if one more statement  *)
(* fails, as long as the process lives: storing its result is tried once   *)
(* more, as an error.                                                      *)
(***************************************************************************)
SuccessSettles ==
  \A o \in Ops :
    pc[o] = "save" /\ out[o] = "ok" /\ restarts = MaxRestarts
        /\ faults + 1 >= MaxFaults
      ~> Final(o)
=============================================================================
