------------------------- MODULE DeploymentProgress -------------------------
(***************************************************************************)
(* saveDeploymentProgressWhen in detail: read the row, check its status,   *)
(* merge the user's fields into the candidate, UPDATE ... WHERE status and *)
(* updated_at are still the ones read, and start over when no row matched. *)
(* Meanwhile handlers save the same row (SavePlayground) or delete it.     *)
(*                                                                         *)
(* updated_at is a nanosecond timestamp taken by a single process whose    *)
(* statements run one at a time; it is a version number here.              *)
(***************************************************************************)
EXTENDS Naturals

CONSTANTS
  Workers,     \* deployments of the playground
  Handlers,    \* requests that save or delete the row
  Statuses,    \* values of the status column
  Allowed,     \* the statuses from which a progress save may write
  Metadata,    \* name, playspec, marquee, overrides, branches, expiration
  Progress,    \* the fields a deployment owns
  MaxVersion,  \* bound: no call or request starts after so many writes
  Gone         \* no row

ASSUME StatusAssumption ==
  /\ Allowed \subseteq Statuses
  /\ Gone \notin Statuses

ASSUME TaskAssumption == Workers \cap Handlers = {}

ASSUME BoundAssumption == MaxVersion \in Nat

VARIABLES
  status, user, prog, version,  \* the row; version is updated_at
  phase,                        \* where each worker and handler is
  want,                         \* what a worker is asked to save
  seen,                         \* the row a worker read
  copy                          \* the row a handler read

vars == <<status, user, prog, version, phase, want, seen, copy>>

row == <<status, user, prog, version>>

Row == (Statuses \cup {Gone}) \X Metadata \X Progress \X Nat

WorkerPhases == {"idle", "read", "write", "saved", "refused"}
HandlerPhases == {"idle", "loaded"}

Init ==
  /\ status \in Statuses
  /\ user \in Metadata
  /\ prog \in Progress
  /\ version = 0
  /\ phase = [a \in Workers \cup Handlers |-> "idle"]
  /\ want \in [Workers -> {<<status, prog>>}]
  /\ seen = [w \in Workers |-> row]
  /\ copy = [h \in Handlers |-> row]

Goto(a, point) == phase' = [phase EXCEPT ![a] = point]

(***************************************************************************)
(* Faulty: the statement leaves updated_at alone.                          *)
(***************************************************************************)
WriteUnstamped(s, u, p) ==
  /\ status' = s
  /\ user' = u
  /\ prog' = p
  /\ UNCHANGED version

(***************************************************************************)
(* A statement that writes the row stamps it with the time.                *)
(***************************************************************************)
Write(s, u, p) ==
  /\ status' = s
  /\ user' = u
  /\ prog' = p
  /\ version' = version + 1

-----------------------------------------------------------------------------
(***************************************************************************)
(* A worker calls saveDeploymentProgress with its next status and progress.*)
(***************************************************************************)
Ask(w) ==
  /\ phase[w] \notin {"read", "write"}
  /\ version < MaxVersion
  /\ Goto(w, "read")
  /\ \E s \in Statuses, p \in Progress : want' = [want EXCEPT ![w] = <<s, p>>]
  /\ UNCHANGED <<row, seen, copy>>

(***************************************************************************)
(* trySaveDeploymentProgress up to the guarded UPDATE.                     *)
(***************************************************************************)
TryRead(w) ==
  /\ phase[w] = "read"
  /\ status \in Allowed
  /\ seen' = [seen EXCEPT ![w] = row]
  /\ Goto(w, "write")
  /\ UNCHANGED <<row, want, copy>>

TryRefuse(w) ==
  /\ phase[w] = "read"
  /\ status \notin Allowed
  /\ Goto(w, "refused")
  /\ UNCHANGED <<row, want, seen, copy>>

(***************************************************************************)
(* Faulty: the guard compares the status only.                             *)
(***************************************************************************)
CurrentByStatus(w) == status = seen[w][1]

(***************************************************************************)
(* SavePlaygroundIfCurrent: the row still has the status and updated_at    *)
(* that were read.  The candidate holds the user's fields as they were     *)
(* read.                                                                   *)
(***************************************************************************)
Current(w) == status = seen[w][1] /\ version = seen[w][4]

TryWrite(w) ==
  /\ phase[w] = "write"
  /\ Current(w)
  /\ Write(want[w][1], seen[w][2], want[w][2])
  /\ Goto(w, "saved")
  /\ UNCHANGED <<want, seen, copy>>

(***************************************************************************)
(* Faulty: the retry does not read the row again.                          *)
(***************************************************************************)
TryAgainUnread(w) ==
  /\ phase[w] = "write"
  /\ ~Current(w)
  /\ Goto(w, IF status = Gone THEN "refused" ELSE "write")
  /\ UNCHANGED <<row, want, seen, copy>>

(***************************************************************************)
(* No row matched: SavePlaygroundIfCurrent reads the row again, and its    *)
(* absence is an error, anything else a retry.                             *)
(***************************************************************************)
TryAgain(w) ==
  /\ phase[w] = "write"
  /\ ~Current(w)
  /\ Goto(w, IF status = Gone THEN "refused" ELSE "read")
  /\ UNCHANGED <<row, want, seen, copy>>

-----------------------------------------------------------------------------
(***************************************************************************)
(* A handler reads the row and later saves its copy with new values in     *)
(* some fields, whatever the row holds by then; or deletes the row.        *)
(***************************************************************************)
Load(h) ==
  /\ phase[h] = "idle"
  /\ version < MaxVersion
  /\ status # Gone
  /\ copy' = [copy EXCEPT ![h] = row]
  /\ Goto(h, "loaded")
  /\ UNCHANGED <<row, want, seen>>

(***************************************************************************)
(* Faulty: two columns of the UPDATE are swapped.                          *)
(***************************************************************************)
SavePlaygroundSwapped(h) ==
  /\ phase[h] = "loaded"
  /\ \/ /\ status # Gone
        /\ \E s \in Statuses, u \in Metadata : Write(u, s, copy[h][3])
     \/ status = Gone /\ UNCHANGED row
  /\ Goto(h, "idle")
  /\ UNCHANGED <<want, seen, copy>>

SavePlayground(h) ==
  /\ phase[h] = "loaded"
  /\ \/ /\ status # Gone
        /\ \E s \in Statuses, u \in Metadata : Write(s, u, copy[h][3])
     \/ status = Gone /\ UNCHANGED row
  /\ Goto(h, "idle")
  /\ UNCHANGED <<want, seen, copy>>

DeletePlayground(h) ==
  /\ phase[h] = "loaded"
  /\ status # Gone
  /\ Write(Gone, user, prog)
  /\ Goto(h, "idle")
  /\ UNCHANGED <<want, seen, copy>>

-----------------------------------------------------------------------------
Try(w) == TryRead(w) \/ TryRefuse(w) \/ TryWrite(w) \/ TryAgain(w)

Next ==
  \/ \E w \in Workers : Ask(w) \/ Try(w)
  \/ \E h \in Handlers : Load(h) \/ SavePlayground(h) \/ DeletePlayground(h)

Spec == Init /\ [][Next]_vars

FairSpec == Spec /\ \A w \in Workers : WF_vars(Try(w))

-----------------------------------------------------------------------------
(***************************************************************************)
(* Every variable has the type its declaration promises.                   *)
(***************************************************************************)
TypeOK ==
  /\ row \in Row
  /\ phase \in [Workers \cup Handlers -> WorkerPhases \cup HandlerPhases]
  /\ want \in [Workers -> Statuses \X Progress]
  /\ seen \in [Workers -> Row]
  /\ copy \in [Handlers -> Row]

(***************************************************************************)
(* A row read before a guarded write was allowed, and is still the row if  *)
(* it still has the version read: updated_at alone tells whether any other *)
(* statement wrote in between.                                             *)
(***************************************************************************)
SeenIsCurrent ==
  \A w \in Workers : phase[w] = "write" =>
    /\ seen[w][1] \in Allowed
    /\ seen[w][4] <= version
    /\ seen[w][4] = version => seen[w] = row

(***************************************************************************)
(* The loop is a refinement of the atomic guarded save: between its read   *)
(* and its write a call is still saving.                                   *)
(***************************************************************************)
Abstract ==
  INSTANCE GuardedSave WITH
    phase <- [w \in Workers |->
                IF phase[w] \in {"read", "write"} THEN "saving" ELSE phase[w]]

AtomicGuardedSave == Abstract!Spec

(***************************************************************************)
(* A progress save returns: the loop retries only because another          *)
(* statement wrote the row, and the others stop writing.                   *)
(***************************************************************************)
SaveReturns ==
  \A w \in Workers : phase[w] = "read" ~> phase[w] \in {"saved", "refused"}
=============================================================================
