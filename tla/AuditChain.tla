----------------------------- MODULE AuditChain -----------------------------
(***************************************************************************)
(* The signed audit chain (internal/audit over PostgreSQL) and the outbox  *)
(* that feeds it (internal/auditoutbox).  A mutation's transaction         *)
(* enqueues an intent; every flusher (the ticker's, and the one after each *)
(* audited request) lists the pending intents and appends them one by one, *)
(* each in a transaction, then anchors the checkpoint and acknowledges the *)
(* row.  Other requests append an event of their own directly.             *)
(*                                                                         *)
(* Append is serializable, and its first statement waits for the advisory  *)
(* lock: the snapshot is older than what the previous holder committed, so *)
(* a transaction that had to wait reads a stale checkpoint and fails when  *)
(* it locks the row (or inserts sequence 1 again).  MACs are abstracted to *)
(* hash links: an event's MAC is named by the event.  Key versions and     *)
(* list queries are left out.                                              *)
(***************************************************************************)
EXTENDS Naturals, FiniteSets

CONSTANTS
  Intents,      \* event ids of mutation intents, numbered by occurred_at
  Requests,     \* event ids of direct appends, one per request
  Flushers,     \* FlushOutbox calls that may be under way together
  Genesis,      \* the previous MAC of the first event
  Ticker,       \* the one of them that the server's ticker makes
  Limit,        \* rows a flush takes at most (100 in the code)
  Consecutive,  \* does the anchor accept consecutive sequences only
  LostReplies,  \* may a commit's reply be lost
  MaxCrashes    \* bound: the server stops at most so often

Events  == Intents \cup Requests
Procs   == Flushers \cup Requests

ASSUME AuditAssumption ==
  /\ Intents \subseteq Nat /\ IsFiniteSet(Intents)
  /\ Intents \cap Requests = {} /\ Flushers \cap Requests = {}
  /\ Genesis \notin Events
  /\ Ticker \in Flushers /\ Limit \in Nat \ {0}
  /\ Consecutive \in BOOLEAN /\ LostReplies \in BOOLEAN /\ MaxCrashes \in Nat

VARIABLES
  outbox,      \* no row, pending (dispatched_at is NULL) or dispatched
  place,       \* securestore_audit_outbox.chain_sequence, or 0
  chain,       \* securestore_audit_events: sequence, event id, previous MAC
  checkpoint,  \* last_sequence and last_mac of the chain
  batch,       \* intents a flush has yet to deliver
  step,        \* where a flush or request stands
  item,        \* the event it is about
  number,      \* last_sequence as its transaction sees it, then what Append returned
  anchored,    \* sequence of the anchor's latest record, or 0
  seen,        \* the events Verify has read
  verdict,     \* none, reading, valid or invalid: what Verify says
  crashes

tables == <<outbox, place, chain, checkpoint>>
procs  == <<batch, step, item, number>>
verify == <<seen, verdict>>
vars   == <<tables, procs, anchored, verify, crashes>>

Init ==
  /\ outbox = [i \in Intents |-> "none"] /\ place = [i \in Intents |-> 0]
  /\ chain = {} /\ checkpoint = [sequence |-> 0, mac |-> Genesis]
  /\ batch = [p \in Flushers |-> {}]
  /\ step = [p \in Procs |-> "idle"]
  /\ item = [p \in Procs |-> Genesis]
  /\ number = [p \in Procs |-> 0]
  /\ anchored = 0 /\ crashes = 0
  /\ seen = {} /\ verdict = "none"

Goto(p, s) == step' = [step EXCEPT ![p] = s]
Chained(e) == \E row \in chain : row.id = e
Earliest(i, S) == i \in S /\ \A j \in S : i <= j

----------------------------------------------------------------------------
(* A mutation commits, its intent with it.                                 *)
Enqueue(i) ==
  /\ outbox[i] = "none"
  /\ outbox' = [outbox EXCEPT ![i] = "pending"]
  /\ UNCHANGED <<place, chain, checkpoint, procs, anchored, verify, crashes>>

ListUncommitted(p) == \* fault: intents are listed before their commit
  /\ step[p] = "idle" /\ batch[p] = {}
  /\ \E i \in Intents : outbox[i] # "dispatched" /\ batch' = [batch EXCEPT ![p] = {i}]
  /\ UNCHANGED <<tables, step, item, number, anchored, verify, crashes>>

(* PendingOutbox: the earliest undelivered intents.                        *)
ListPending(p) ==
  /\ step[p] = "idle" /\ batch[p] = {}
  /\ \E S \in SUBSET {i \in Intents : outbox[i] = "pending"} :
       /\ S # {} /\ Cardinality(S) <= Limit
       /\ \A i \in S, j \in Intents : outbox[j] = "pending" /\ j < i => j \in S
       /\ Cardinality(S) < Limit => \A j \in Intents : outbox[j] = "pending" => j \in S
       /\ batch' = [batch EXCEPT ![p] = S]
  /\ UNCHANGED <<tables, step, item, number, anchored, verify, crashes>>

(* A transaction begins: its snapshot is taken before it holds the lock.   *)
Begin(p, e) ==
  /\ step[p] = "idle"
  /\ item' = [item EXCEPT ![p] = e]
  /\ number' = [number EXCEPT ![p] = checkpoint.sequence]
  /\ Goto(p, "append")
  /\ UNCHANGED <<tables, verify, crashes>>

BeginAppend(p, e) == Begin(p, e) /\ UNCHANGED anchored

NextIntent(p, i) == Earliest(i, batch[p]) /\ BeginAppend(p, i) /\ UNCHANGED batch

RequestAppends(r) == BeginAppend(r, r) /\ UNCHANGED batch

(* A process ends what it is at and forgets it.                            *)
Leave(p, s) ==
  /\ Goto(p, s)
  /\ item' = [item EXCEPT ![p] = Genesis] /\ number' = [number EXCEPT ![p] = 0]

(* A flush or request gives up on an error.                                *)
Abandon(p) ==
  /\ Leave(p, IF p \in Requests THEN "done" ELSE "idle")
  /\ batch' = IF p \in Requests THEN batch ELSE [batch EXCEPT ![p] = {}]

(* The next event, linked to the last, and the checkpoint moved to it.     *)
Insert(p) ==
  /\ chain' = chain \cup
       {[sequence |-> number[p] + 1, id |-> item[p], previous |-> checkpoint.mac]}
  /\ checkpoint' = [sequence |-> number[p] + 1, mac |-> item[p]]

Return(p, sequence) ==
  /\ number' = [number EXCEPT ![p] = sequence] /\ Goto(p, "anchor")
  /\ UNCHANGED <<batch, item>>

AppendUnlocked(p) ==   \* fault: the checkpoint is read before others are done
  /\ step[p] = "append" /\ ~Chained(item[p])
  /\ Insert(p) /\ Return(p, number[p] + 1)
  /\ UNCHANGED <<outbox, place, anchored, verify, crashes>>

AppendAlways(p) ==     \* fault: event_id is not unique
  /\ step[p] = "append" /\ number[p] = checkpoint.sequence
  /\ Insert(p) /\ Return(p, number[p] + 1)
  /\ UNCHANGED <<outbox, place, anchored, verify, crashes>>

(* Append inserts the event and moves the checkpoint, in one transaction.  *)
AppendEvent(p) ==
  /\ step[p] = "append" /\ number[p] = checkpoint.sequence /\ ~Chained(item[p])
  /\ Insert(p)
  /\ Return(p, number[p] + 1) \/ (LostReplies /\ Abandon(p))
  /\ UNCHANGED <<outbox, place, anchored, verify, crashes>>

(* The transaction fails, as it must when its snapshot is stale; the flush *)
(* counts the attempt and stops.                                           *)
AppendFails(p) ==
  /\ step[p] = "append" /\ Abandon(p)
  /\ UNCHANGED <<tables, anchored, verify, crashes>>

FindFails(p) == \* fault: the unique key is an error like any other
  Chained(item[p]) /\ AppendFails(p)

(* The insert hits a unique key, and the event is there: Append returns it.*)
FindEvent(p) ==
  /\ step[p] = "append" /\ number[p] \in {checkpoint.sequence, 0}
  /\ \E row \in chain : row.id = item[p] /\ Return(p, row.sequence)
  /\ UNCHANGED <<tables, anchored, verify, crashes>>

(* What the anchor takes: a file takes any record, a ledger only the next. *)
Accepts(sequence) == Consecutive => sequence = anchored + 1

Acknowledge(p) ==
  IF p \in Requests THEN Leave(p, "done")
                    ELSE Goto(p, "mark") /\ UNCHANGED <<item, number>>

(* The committed event's checkpoint is anchored, also when it was there    *)
(* already; a failure is ignored.                                          *)
AnchorCheckpoint(p) ==
  /\ step[p] = "anchor" /\ Acknowledge(p)
  /\ Accepts(number[p]) /\ anchored' = number[p]
  /\ UNCHANGED <<tables, batch, verify, crashes>>

AnchorFails(p) ==
  /\ step[p] = "anchor" /\ Acknowledge(p)
  /\ UNCHANGED <<tables, batch, anchored, verify, crashes>>

(* MarkOutboxDispatched, then the next intent of the batch.                *)
MarkDispatched(p) ==
  /\ step[p] = "mark"
  /\ LET i == item[p] IN
     /\ outbox' = [outbox EXCEPT ![i] = "dispatched"]
     /\ place' = IF outbox[i] = "pending" THEN [place EXCEPT ![i] = number[p]] ELSE place
     /\ \/ batch' = [batch EXCEPT ![p] = @ \ {i}] /\ Leave(p, "idle")
        \/ LostReplies /\ Abandon(p)
  /\ UNCHANGED <<chain, checkpoint, anchored, verify, crashes>>

MarkFails(p) ==
  /\ step[p] = "mark" /\ Abandon(p)
  /\ UNCHANGED <<tables, anchored, verify, crashes>>

(* What Verify accepts: sequences 1, 2, ... without gap or fork, each event*)
(* linked to the one before it, and the checkpoint to the last.            *)
Ends(events, n, mac) ==
  IF n = 0 THEN mac = Genesis
           ELSE \E row \in events : row.sequence = n /\ row.id = mac

Intact(events, head) ==
  /\ {row.sequence : row \in events} = 1..head.sequence
  /\ \A a, b \in events : a.sequence = b.sequence => a = b
  /\ \A row \in events : Ends(events, row.sequence - 1, row.previous)
  /\ Ends(events, head.sequence, head.mac)

(* LoadChain reads the events and then the checkpoint, in two queries.     *)
LoadEvents ==
  /\ verdict = "none" /\ verdict' = "reading" /\ seen' = chain
  /\ UNCHANGED <<tables, procs, anchored, crashes>>

LoadCheckpoint ==
  /\ verdict = "reading"
  /\ verdict' = IF Intact(seen, checkpoint) THEN "valid" ELSE "invalid"
  /\ seen' = {}
  /\ UNCHANGED <<tables, procs, anchored, crashes>>

Crash ==
  /\ crashes < MaxCrashes /\ crashes' = crashes + 1
  /\ batch' = [p \in Flushers |-> {}]
  /\ step' = [p \in Procs |-> IF p \in Requests /\ step[p] # "idle" THEN "done" ELSE "idle"]
  /\ item' = [p \in Procs |-> Genesis] /\ number' = [p \in Procs |-> 0]
  /\ UNCHANGED <<tables, anchored, verify>>

AppendStep(p) ==
  \/ AppendEvent(p) \/ FindEvent(p) \/ AppendFails(p)
  \/ AnchorCheckpoint(p) \/ AnchorFails(p)

Flush(p) ==
  \/ ListPending(p) \/ AppendStep(p) \/ MarkDispatched(p) \/ MarkFails(p)
  \/ \E i \in batch[p] : NextIntent(p, i)

Next ==
  \/ \E i \in Intents : Enqueue(i)
  \/ \E p \in Flushers : Flush(p)
  \/ \E r \in Requests : RequestAppends(r) \/ AppendStep(r)
  \/ LoadEvents \/ LoadCheckpoint
  \/ Crash

Spec == Init /\ [][Next]_vars

(* The ticker flushes every five seconds; the database does not refuse its *)
(* transactions for ever, nor the anchor every record it could take.       *)
Fairness ==
  /\ WF_vars(Flush(Ticker))
  /\ SF_vars(AppendEvent(Ticker)) /\ SF_vars(FindEvent(Ticker))
  /\ SF_vars(MarkDispatched(Ticker)) /\ SF_vars(AnchorCheckpoint(Ticker))

FairSpec == Spec /\ Fairness

----------------------------------------------------------------------------
(* Every variable keeps its type.                                          *)
TypeOK ==
  /\ outbox \in [Intents -> {"none", "pending", "dispatched"}]
  /\ place \in [Intents -> Nat]
  /\ chain \subseteq [sequence : Nat, id : Events, previous : Events \cup {Genesis}]
  /\ checkpoint \in [sequence : Nat, mac : Events \cup {Genesis}]
  /\ batch \in [Flushers -> SUBSET Intents]
  /\ step \in [Procs -> {"idle", "append", "anchor", "mark", "done"}]
  /\ item \in [Procs -> Events \cup {Genesis}]
  /\ number \in [Procs -> Nat]
  /\ anchored \in Nat /\ crashes \in 0..MaxCrashes
  /\ seen \subseteq [sequence : Nat, id : Events, previous : Events \cup {Genesis}]
  /\ verdict \in {"none", "reading", "valid", "invalid"}

(* Whoever appends, and whichever commits fail, lose their reply or are    *)
(* retried, the tables verify: no gap, no fork, no broken link.            *)
ChainVerifies == Intact(chain, checkpoint)

AtMostOnce == \A a, b \in chain : a.id = b.id => a = b

DispatchedIsChained ==
  \A i \in Intents : outbox[i] = "dispatched" =>
    \E row \in chain : row.id = i /\ row.sequence = place[i]

(* Delivering an intent again (a retry, two flushers, a lost reply) never  *)
(* records its event a second time, and its row leaves the outbox only     *)
(* when the event is in the chain, at the chain_sequence the row names.    *)
ExactlyOnce == AtMostOnce /\ DispatchedIsChained

(* The anchor never vouches for a checkpoint the database has not          *)
(* committed: Verify would take the database for rolled back.              *)
AnchorNeverAhead == anchored <= checkpoint.sequence

(* Two flushes may acknowledge one row, and a reply may be lost: no row    *)
(* goes back to an earlier stage, and the chain_sequence of a row that was *)
(* acknowledged is never rewritten (MarkOutboxDispatched).                 *)
AcknowledgedOnce ==
  [][\A i \in Intents :
       /\ outbox[i] # "none" => outbox'[i] # "none"
       /\ outbox[i] = "dispatched" =>
            outbox'[i] = "dispatched" /\ place'[i] = place[i]]_vars

(* The chain and its outbox implement AuditPromise.                        *)
Promise == INSTANCE AuditPromise WITH
  log  <- {<<row.sequence, row.id>> : row \in chain},
  last <- checkpoint.sequence,
  due  <- {i \in Intents : outbox[i] # "none"}

PromiseKept == Promise!Spec

(* Committed evidence reaches the chain, whatever crashes or fails now and *)
(* then, and its row is acknowledged.                                      *)
EvidenceDelivered ==
  \A i \in Intents : outbox[i] = "pending" ~> outbox[i] = "dispatched"

(* Verify reads events and checkpoint in two queries, so it may report a   *)
(* chain that is whole as broken: only if an append committed between them.*)
AlarmMeansInterference == [][verdict' = "invalid" /\ verdict # "invalid" => chain # seen]_vars
=============================================================================
