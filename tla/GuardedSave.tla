---------------------------- MODULE GuardedSave ----------------------------
(***************************************************************************)
(* What saveDeploymentProgressWhen promises its callers: one atomic step   *)
(* that either finds the playground's status allowed and writes the        *)
(* deployment's own fields, leaving the user's fields as they are, or      *)
(* finds it not allowed (or the row gone) and changes nothing.             *)
(*                                                                         *)
(* PlaygroundLifecycle takes its progress saves to be steps of this kind;  *)
(* module DeploymentProgress shows that the retry loop in the code         *)
(* implements them.                                                        *)
(***************************************************************************)
CONSTANTS
  Workers,     \* deployments of the playground
  Statuses,    \* values of the status column
  Allowed,     \* the statuses from which a progress save may write
  Metadata,    \* values of the fields preserveLatestDeploymentMetadata keeps
  Progress,    \* values of the fields a deployment owns
  Gone         \* no row

VARIABLES
  status, user, prog,  \* the row's columns
  phase,               \* what each worker is doing
  want                 \* the status and progress a worker is asked to save

vars == <<status, user, prog, phase, want>>

Phases == {"idle", "saving", "saved", "refused"}

Init ==
  /\ status \in Statuses
  /\ user \in Metadata
  /\ prog \in Progress
  /\ phase = [w \in Workers |-> "idle"]
  /\ want \in [Workers -> Statuses \X Progress]

Ask(w) ==
  /\ phase[w] # "saving"
  /\ phase' = [phase EXCEPT ![w] = "saving"]
  /\ \E s \in Statuses, p \in Progress : want' = [want EXCEPT ![w] = <<s, p>>]
  /\ UNCHANGED <<status, user, prog>>

Save(w) ==
  /\ phase[w] = "saving"
  /\ status \in Allowed
  /\ status' = want[w][1]
  /\ prog' = want[w][2]
  /\ phase' = [phase EXCEPT ![w] = "saved"]
  /\ UNCHANGED <<user, want>>

Refuse(w) ==
  /\ phase[w] = "saving"
  /\ status \notin Allowed
  /\ phase' = [phase EXCEPT ![w] = "refused"]
  /\ UNCHANGED <<status, user, prog, want>>

(***************************************************************************)
(* Handlers write what they please.                                        *)
(***************************************************************************)
Other ==
  /\ status # Gone
  /\ status' \in Statuses \cup {Gone}
  /\ user' \in Metadata
  /\ prog' \in Progress
  /\ UNCHANGED <<phase, want>>

Next == (\E w \in Workers : Ask(w) \/ Save(w) \/ Refuse(w)) \/ Other

Spec == Init /\ [][Next]_vars
=============================================================================
