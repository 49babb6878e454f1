-------------------------- MODULE DeletionPromise --------------------------
(***************************************************************************)
(* What SecureStore promises the owner of a file about deletion, whatever  *)
(* requests, workers and failures are behind it: a file leaves for Trash   *)
(* and comes back with its keys; the keys go only from Trash, all at once  *)
(* and for ever; and a file under retention or legal hold does neither.    *)
(***************************************************************************)
CONSTANTS Files, Keys

VARIABLES
  phase,    \* "active", "trash" or "purged"
  readable, \* the keys that still open a version of the file
  guarded   \* files under retention or legal hold

vars == <<phase, readable, guarded>>

Init ==
  /\ phase = [f \in Files |-> "active"]
  /\ readable \in [Files -> SUBSET Keys]
  /\ guarded = {}

Move(f, from, to) == phase[f] = from /\ phase' = [phase EXCEPT ![f] = to]

Trash(f) ==
  /\ f \notin guarded
  /\ Move(f, "active", "trash") /\ UNCHANGED <<readable, guarded>>

Recover(f) == Move(f, "trash", "active") /\ UNCHANGED <<readable, guarded>>

Purge(f) ==
  /\ f \notin guarded
  /\ Move(f, "trash", "purged")
  /\ readable' = [readable EXCEPT ![f] = {}]
  /\ UNCHANGED guarded

AddVersion(f) ==
  /\ phase[f] = "active"
  /\ \E k \in Keys : readable' = [readable EXCEPT ![f] = @ \cup {k}]
  /\ UNCHANGED <<phase, guarded>>

(* A policy is set, released, or runs out.                                 *)
Guard == guarded' \subseteq Files /\ UNCHANGED <<phase, readable>>

Next ==
  \/ \E f \in Files : Trash(f) \/ Recover(f) \/ Purge(f) \/ AddVersion(f)
  \/ Guard

Spec == Init /\ [][Next]_vars
=============================================================================
