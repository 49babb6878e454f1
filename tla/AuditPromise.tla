---------------------------- MODULE AuditPromise ----------------------------
(***************************************************************************)
(* What the audit trail promises, whoever dispatches it and whatever fails *)
(* on the way: entries are numbered without a gap, none is ever changed or *)
(* recorded twice, and the evidence of a mutation is recorded only once    *)
(* the mutation has committed.                                             *)
(***************************************************************************)
EXTENDS Naturals

CONSTANTS Intents, Events  \* evidence of mutations, among all events

VARIABLES
  log,   \* <<sequence, event>> pairs
  last,  \* the highest sequence
  due    \* intents whose mutation committed

Init == log = {} /\ last = 0 /\ due = {}

Commit(i) ==
  /\ i \in Intents \ due
  /\ due' = due \cup {i} /\ UNCHANGED <<log, last>>

Record(e) ==
  /\ \A entry \in log : entry[2] # e
  /\ e \in Intents => e \in due
  /\ last' = last + 1
  /\ log' = log \cup {<<last + 1, e>>}
  /\ UNCHANGED due

Next == \E e \in Events : Commit(e) \/ Record(e)

Spec == Init /\ [][Next]_<<log, last, due>>
=============================================================================
