---------------------------- MODULE KeyedMutex ----------------------------
(***************************************************************************)
(* What withLock promises runSourceSyncPlans: for each checkout path, a    *)
(* mutex.  A thread asks for a path, holds it when nobody else holds the   *)
(* same path, and gives it back.                                           *)
(***************************************************************************)
CONSTANTS Threads, Keys

VARIABLES
  phase,   \* what each thread is doing
  key      \* the path it asked for last

vars == <<phase, key>>

Init ==
  /\ phase = [t \in Threads |-> "idle"]
  /\ key \in [Threads -> Keys]

Ask(t) ==
  /\ phase[t] = "idle"
  /\ phase' = [phase EXCEPT ![t] = "waiting"]
  /\ \E k \in Keys : key' = [key EXCEPT ![t] = k]

Hold(t) ==
  /\ phase[t] = "waiting"
  /\ \A u \in Threads : phase[u] = "holding" => key[u] # key[t]
  /\ phase' = [phase EXCEPT ![t] = "holding"]
  /\ UNCHANGED key

Give(t) ==
  /\ phase[t] = "holding"
  /\ phase' = [phase EXCEPT ![t] = "idle"]
  /\ UNCHANGED key

Next == \E t \in Threads : Ask(t) \/ Hold(t) \/ Give(t)

Spec == Init /\ [][Next]_vars
=============================================================================
