-------------------------- MODULE AuditChainProofs --------------------------
(***************************************************************************)
(* Theorems about AuditChain, for any intents, requests and flushers, any  *)
(* limit and number of crashes, and whatever replies are lost.             *)
(*                                                                         *)
(* The chain is an invariant by itself (Chain), given the types: a         *)
(* transaction whose snapshot is stale fails.  What is said of the outbox  *)
(* and the anchor needs to know what each process works on (Working): an   *)
(* intent that is due and, once Append has returned, the row it returned.  *)
(***************************************************************************)
EXTENDS AuditChain, TLAPS

(* Who is under way has an event in hand, a flusher that of an intent.     *)
Active(p) ==
  step[p] \in {"append", "anchor", "mark"} =>
    item[p] \in IF p \in Flushers THEN Intents ELSE Events

Typed == TypeOK /\ \A p \in Procs : Active(p)

(* The set equation of Intact, sequence by sequence.                       *)
Numbered ==
  /\ \A row \in chain : row.sequence \in 1..checkpoint.sequence
  /\ \A n \in 1..checkpoint.sequence : \E row \in chain : row.sequence = n

Linked ==
  /\ \A a, b \in chain : a.sequence = b.sequence => a = b
  /\ \A row \in chain : Ends(chain, row.sequence - 1, row.previous)
  /\ Ends(chain, checkpoint.sequence, checkpoint.mac)

----------------------------------------------------------------------------
(* Types.                                                                  *)

LEMMA TypeStep == ASSUME Typed, [Next]_vars PROVE Typed'
<1> USE AuditAssumption DEF Typed, Active, TypeOK, Procs, Events, Goto, Leave, Abandon, vars, tables, procs, verify
<1>1. ASSUME NEW i \in Intents, Enqueue(i) PROVE Typed'
  BY <1>1 DEF Enqueue
<1>2. ASSUME NEW p \in Procs, AppendEvent(p) PROVE Typed'
  <2>1. item[p] \in Events
    BY <1>2 DEF AppendEvent
  <2> QED BY <1>2, <2>1 DEF AppendEvent, Insert, Return
<1>3. ASSUME NEW p \in Procs, FindEvent(p) PROVE Typed'
  BY <1>3 DEF FindEvent, Return
<1>4. ASSUME NEW p \in Procs, AppendFails(p) PROVE Typed'
  BY <1>4 DEF AppendFails
<1>5. ASSUME NEW p \in Procs, AnchorCheckpoint(p) \/ AnchorFails(p) PROVE Typed'
  BY <1>5 DEF AnchorCheckpoint, AnchorFails, Acknowledge
<1>6. ASSUME NEW p \in Flushers, MarkDispatched(p) \/ MarkFails(p) PROVE Typed'
  BY <1>6 DEF MarkDispatched, MarkFails
<1>7. ASSUME NEW p \in Flushers, ListPending(p) PROVE Typed'
  BY <1>7 DEF ListPending
<1>8. ASSUME NEW p \in Flushers, NEW i \in batch[p], NextIntent(p, i) PROVE Typed'
  BY <1>8 DEF NextIntent, BeginAppend, Begin
<1>9. ASSUME NEW r \in Requests, RequestAppends(r) PROVE Typed'
  BY <1>9 DEF RequestAppends, BeginAppend, Begin
<1>10. ASSUME LoadEvents \/ LoadCheckpoint PROVE Typed'
  BY <1>10 DEF LoadEvents, LoadCheckpoint
<1>11. ASSUME Crash PROVE Typed'
  BY <1>11 DEF Crash
<1>12. ASSUME UNCHANGED vars PROVE Typed'
  BY <1>12
<1> QED BY <1>1, <1>2, <1>3, <1>4, <1>5, <1>6, <1>7, <1>8, <1>9, <1>10, <1>11, <1>12
        DEF Next, Flush, AppendStep

LEMMA InitTypes == Init => Typed
  BY AuditAssumption DEF Init, Typed, Active, TypeOK, Procs, Events

(* Every variable keeps its type (the tables and the local variables of    *)
(* FlushOutbox, appendEvent and Verify).                                   *)
THEOREM Typing == Spec => []TypeOK
<1>1. Typed /\ [Next]_vars => Typed'
  BY TypeStep
<1>2. Typed => TypeOK
  BY DEF Typed
<1> QED BY InitTypes, <1>1, <1>2, PTL DEF Spec

----------------------------------------------------------------------------
(* The chain.  Rows are only added, by Insert, above every other.          *)

Chain == Numbered /\ Linked /\ AtMostOnce

LEMMA InsertKeepsChain ==
  ASSUME Typed, Chain, NEW p \in Procs, AppendEvent(p) PROVE Chain'
<1> DEFINE n == checkpoint.sequence
           new == [sequence |-> n + 1, id |-> item[p], previous |-> checkpoint.mac]
<1>1. /\ chain' = chain \cup {new} /\ new \in chain'
      /\ checkpoint'.sequence = n + 1 /\ checkpoint'.mac = item[p]
  BY DEF AppendEvent, Insert
<1>2. /\ n \in Nat /\ \A row \in chain : row.sequence \in Nat
      /\ new.sequence = n + 1 /\ new.id = item[p] /\ new.previous = checkpoint.mac
  BY DEF Typed, TypeOK
<1> HIDE DEF n, new
<1>3. \A row \in chain : row.sequence \in 1..n /\ row.id # new.id
  BY <1>2 DEF Chain, Numbered, AppendEvent, Chained, n
<1>4. Numbered'
  <2>1. \A row \in chain' : row.sequence \in 1..checkpoint'.sequence
    BY <1>1, <1>2, <1>3
  <2>2. ASSUME NEW m \in 1..checkpoint'.sequence
        PROVE  \E row \in chain' : row.sequence = m
    <3>1. CASE m = n + 1
      BY <1>1, <1>2, <3>1
    <3>2. CASE m \in 1..n
      BY <1>1, <3>2 DEF Chain, Numbered, n
    <3> QED BY <1>1, <1>2, <3>1, <3>2
  <2> QED BY <2>1, <2>2 DEF Numbered
<1>5. Linked'
  <2>1. \A a, b \in chain' : a.sequence = b.sequence => a = b
    BY <1>1, <1>2, <1>3 DEF Chain, Linked
  <2>2. ASSUME NEW m, NEW mac, Ends(chain, m, mac) PROVE Ends(chain', m, mac)
    BY <1>1, <2>2 DEF Ends
  <2>3. Ends(chain', new.sequence - 1, new.previous)
    <3>1. Ends(chain', n, checkpoint.mac)
      BY <2>2 DEF Chain, Linked, n
    <3>2. new.sequence - 1 = n
      BY <1>2
    <3> QED BY <1>2, <3>1, <3>2
  <2>4. \A row \in chain' : Ends(chain', row.sequence - 1, row.previous)
    BY <1>1, <2>2, <2>3 DEF Chain, Linked
  <2>5. Ends(chain', checkpoint'.sequence, checkpoint'.mac)
    BY <1>1, <1>2 DEF Ends
  <2> QED BY <2>1, <2>4, <2>5 DEF Linked
<1>6. AtMostOnce'
  BY <1>1, <1>3 DEF Chain, AtMostOnce
<1> QED BY <1>4, <1>5, <1>6 DEF Chain

(* No other step writes to the chain.                                      *)
LEMMA ChainSteps ==
  ASSUME [Next]_vars
  PROVE  \/ \E p \in Procs : AppendEvent(p)
         \/ UNCHANGED <<chain, checkpoint>>
<1> USE DEF vars, tables, Procs
<1>1. ASSUME NEW p \in Flushers, Flush(p), ~AppendEvent(p) PROVE UNCHANGED <<chain, checkpoint>>
  BY <1>1 DEF Flush, ListPending, AppendStep, FindEvent, AppendFails, AnchorCheckpoint,
     AnchorFails, MarkDispatched, MarkFails, NextIntent, BeginAppend, Begin
<1>2. ASSUME NEW r \in Requests, RequestAppends(r) \/ AppendStep(r), ~AppendEvent(r)
      PROVE  UNCHANGED <<chain, checkpoint>>
  BY <1>2 DEF RequestAppends, AppendStep, FindEvent, AppendFails, AnchorCheckpoint,
     AnchorFails, BeginAppend, Begin
<1>3. ASSUME (\E i \in Intents : Enqueue(i)) \/ LoadEvents \/ LoadCheckpoint \/ Crash \/ UNCHANGED vars
      PROVE  UNCHANGED <<chain, checkpoint>>
  BY <1>3 DEF Enqueue, LoadEvents, LoadCheckpoint, Crash
<1> QED BY <1>1, <1>2, <1>3 DEF Next

LEMMA ChainStep == ASSUME Typed, Chain, [Next]_vars PROVE Chain'
<1>1. CASE UNCHANGED <<chain, checkpoint>>
  BY <1>1 DEF Chain, Numbered, Linked, AtMostOnce, Ends
<1> QED BY <1>1, InsertKeepsChain, ChainSteps

LEMMA ChainInit == Init => Chain
  BY DEF Init, Chain, Numbered, Linked, AtMostOnce, Ends

LEMMA ChainInvariant == Spec => [](Typed /\ Chain)
<1>1. Typed /\ Chain /\ [Next]_vars => (Typed /\ Chain)'
  BY TypeStep, ChainStep
<1> QED BY InitTypes, ChainInit, <1>1, PTL DEF Spec

(* Verify accepts the tables, whoever appends and whatever fails           *)
(* (PostgresRepository.Append, Service.Verify).                            *)
THEOREM Integrity == Spec => []ChainVerifies
<1>1. ASSUME Typed, Chain PROVE ChainVerifies
  <2>1. {row.sequence : row \in chain} = 1..checkpoint.sequence
    BY <1>1 DEF Chain, Numbered
  <2> QED BY <1>1, <2>1 DEF ChainVerifies, Intact, Chain, Linked
<1> QED BY ChainInvariant, <1>1, PTL

(* Verify finds a chain broken only if an append committed between its two *)
(* reads (LoadChain).                                                      *)
THEOREM AlarmIsInterference == Spec => AlarmMeansInterference
<1>1. ASSUME ChainVerifies, [Next]_vars
      PROVE  [verdict' = "invalid" /\ verdict # "invalid" => chain # seen]_vars
  <2>1. ASSUME LoadCheckpoint, chain = seen PROVE verdict' = "valid"
    BY <1>1, <2>1 DEF LoadCheckpoint, ChainVerifies
  <2>2. CASE verdict' = "invalid" /\ verdict # "invalid"
    <3>1. LoadCheckpoint \/ LoadEvents
      BY <1>1, <2>2
      DEF vars, verify, Next, Enqueue, Flush, ListPending, AppendStep, AppendEvent, FindEvent, AppendFails,
          AnchorCheckpoint, AnchorFails, MarkDispatched, MarkFails, NextIntent, RequestAppends, BeginAppend,
          Begin, Crash
    <3> QED BY <2>1, <2>2, <3>1 DEF LoadEvents
  <2> QED BY <2>2
<1> QED BY Integrity, <1>1, PTL DEF Spec, AlarmMeansInterference

----------------------------------------------------------------------------
(* Outbox and anchor.                                                      *)

Row(e, n) == \E row \in chain : row.id = e /\ row.sequence = n

Working(p) ==
  /\ step[p] \in {"anchor", "mark"} => Row(item[p], number[p])
  /\ item[p] \in Intents => outbox[item[p]] # "none"

Listed(p) == \A i \in batch[p] : outbox[i] # "none"

IInv ==
  /\ Typed /\ Chain
  /\ \A p \in Procs : Working(p)
  /\ \A p \in Flushers : Listed(p)
  /\ DispatchedIsChained /\ AnchorNeverAhead

LEMMA EvidenceStep == ASSUME IInv, [Next]_vars PROVE IInv'
<1> USE AuditAssumption DEF Typed, Active, TypeOK, Working, Listed, Row, Procs, Events,
        Goto, Leave, Abandon, vars, tables, procs, verify
<1> DEFINE Kept == /\ \A p \in Procs : Working(p)
                   /\ \A p \in Flushers : Listed(p)
           Sound == DispatchedIsChained /\ AnchorNeverAhead
<1>1. Typed /\ Typed' /\ Chain'
  BY TypeStep, ChainStep DEF IInv
<1> USE <1>1
<1>2. ASSUME NEW i \in Intents, Enqueue(i) PROVE Kept' /\ Sound'
  BY <1>2 DEF IInv, Enqueue, DispatchedIsChained, AnchorNeverAhead
<1>3. ASSUME NEW p \in Procs, AppendEvent(p) PROVE Kept' /\ Sound'
  <2>1. /\ chain \subseteq chain' /\ checkpoint'.sequence = checkpoint.sequence + 1
        /\ \E row \in chain' : row.id = item[p] /\ row.sequence = number[p] + 1
    <3> DEFINE new == [sequence |-> number[p] + 1, id |-> item[p], previous |-> checkpoint.mac]
    <3>1. chain' = chain \cup {new} /\ number[p] = checkpoint.sequence
      BY <1>3 DEF AppendEvent, Insert
    <3>2. checkpoint'.sequence = number[p] + 1
      BY <1>3 DEF AppendEvent, Insert
    <3>3. new \in chain' /\ new.id = item[p] /\ new.sequence = number[p] + 1
      BY <3>1
    <3> QED BY <3>1, <3>2, <3>3
  <2>2. outbox' = outbox /\ place' = place /\ anchored' = anchored
    BY <1>3 DEF AppendEvent
  <2>3. ASSUME NEW q \in Procs, q # p PROVE Working(q)'
    <3>1. step'[q] = step[q] /\ item'[q] = item[q] /\ number'[q] = number[q]
      BY <1>3, <2>3 DEF AppendEvent, Return
    <3> QED BY <2>1, <2>2, <3>1 DEF IInv
  <2>4. Working(p)'
    <3>1. CASE Return(p, number[p] + 1)
      <4>1. step'[p] = "anchor" /\ item'[p] = item[p] /\ number'[p] = number[p] + 1
        BY <3>1 DEF Return
      <4> QED BY <2>1, <2>2, <4>1 DEF IInv
    <3>2. CASE Abandon(p)
      <4>1. step'[p] \in {"idle", "done"} /\ item'[p] = Genesis
        BY <3>2
      <4> QED BY <4>1
    <3> QED BY <1>3, <3>1, <3>2 DEF AppendEvent
  <2>5. \A q \in Flushers : Listed(q)'
    <3>1. \A q \in Flushers : batch'[q] \in {batch[q], {}}
      BY <1>3 DEF AppendEvent, Return
    <3> QED BY <2>2, <3>1 DEF IInv
  <2>6. AnchorNeverAhead'
    BY <2>1, <2>2 DEF IInv, AnchorNeverAhead
  <2>7. DispatchedIsChained'
    BY <2>1, <2>2 DEF IInv, DispatchedIsChained
  <2> QED BY <2>3, <2>4, <2>5, <2>6, <2>7
<1>4. ASSUME NEW p \in Procs, FindEvent(p) PROVE Kept' /\ Sound'
  BY <1>4 DEF IInv, FindEvent, Return, DispatchedIsChained, AnchorNeverAhead
<1>5. ASSUME NEW p \in Procs, AppendFails(p) PROVE Kept' /\ Sound'
  BY <1>5 DEF IInv, AppendFails, DispatchedIsChained, AnchorNeverAhead
<1>6. ASSUME NEW p \in Procs, AnchorCheckpoint(p) \/ AnchorFails(p) PROVE Kept' /\ Sound'
  <2>1. Kept' /\ DispatchedIsChained'
    BY <1>6 DEF IInv, AnchorCheckpoint, AnchorFails, Acknowledge, DispatchedIsChained
  <2>2. AnchorNeverAhead'
    <3>1. step[p] = "anchor" /\ checkpoint' = checkpoint /\ anchored' \in {anchored, number[p]}
      BY <1>6 DEF AnchorCheckpoint, AnchorFails
    <3>2. PICK row \in chain : row.sequence = number[p]
      BY <3>1 DEF IInv
    <3>3. number[p] \in 1..checkpoint.sequence
      BY <3>2 DEF IInv, Chain, Numbered
    <3> QED BY <3>1, <3>3 DEF IInv, AnchorNeverAhead
  <2> QED BY <2>1, <2>2
<1>7. ASSUME NEW p \in Flushers, MarkDispatched(p) PROVE Kept' /\ Sound'
  <2>1. item[p] \in Intents /\ Row(item[p], number[p]) /\ outbox[item[p]] # "none"
    BY <1>7 DEF IInv, MarkDispatched
  <2>2. /\ outbox' = [outbox EXCEPT ![item[p]] = "dispatched"]
        /\ \A i \in Intents : i # item[p] => place'[i] = place[i]
        /\ place'[item[p]] = IF outbox[item[p]] = "pending" THEN number[p] ELSE place[item[p]]
        /\ UNCHANGED <<chain, checkpoint, anchored>>
    BY <1>7, <2>1 DEF MarkDispatched
  <2>3. \A i \in Intents : outbox[i] # "none" => outbox'[i] # "none"
    BY <2>2
  <2>4. ASSUME NEW q \in Procs PROVE Working(q)'
    <3>1. CASE q = p
      <4>1. step'[p] = "idle" /\ item'[p] = Genesis
        BY <1>7 DEF MarkDispatched
      <4> QED BY <3>1, <4>1
    <3>2. CASE q # p
      <4>1. step'[q] = step[q] /\ item'[q] = item[q] /\ number'[q] = number[q]
        BY <1>7, <3>2 DEF MarkDispatched
      <4> QED BY <2>2, <2>3, <4>1 DEF IInv
    <3> QED BY <3>1, <3>2
  <2>5. \A q \in Flushers : Listed(q)'
    <3>1. \A q \in Flushers : batch'[q] \subseteq batch[q]
      BY <1>7 DEF MarkDispatched
    <3> QED BY <2>3, <3>1 DEF IInv
  <2>6. AnchorNeverAhead'
    BY <2>2 DEF IInv, AnchorNeverAhead
  <2>7. ASSUME NEW i \in Intents, outbox'[i] = "dispatched" PROVE Row(i, place[i])' 
    <3>1. CASE i = item[p]
      <4>1. outbox[i] \in {"pending", "dispatched"}
        BY <2>1, <3>1
      <4> QED BY <2>1, <2>2, <3>1, <4>1 DEF IInv, DispatchedIsChained
    <3>2. CASE i # item[p]
      BY <2>2, <2>7, <3>2 DEF IInv, DispatchedIsChained
    <3> QED BY <3>1, <3>2
  <2>8. DispatchedIsChained'
    BY <2>7 DEF DispatchedIsChained
  <2> QED BY <2>4, <2>5, <2>6, <2>8
<1>8. ASSUME NEW p \in Flushers, MarkFails(p) PROVE Kept' /\ Sound'
  BY <1>8 DEF IInv, MarkFails, DispatchedIsChained, AnchorNeverAhead
<1>9. ASSUME NEW p \in Flushers, ListPending(p) PROVE Kept' /\ Sound'
  BY <1>9 DEF IInv, ListPending, DispatchedIsChained, AnchorNeverAhead
<1>10. ASSUME NEW p \in Flushers, NEW i \in batch[p], NextIntent(p, i) PROVE Kept' /\ Sound'
  BY <1>10 DEF IInv, NextIntent, BeginAppend, Begin, DispatchedIsChained, AnchorNeverAhead
<1>11. ASSUME NEW r \in Requests, RequestAppends(r) PROVE Kept' /\ Sound'
  BY <1>11 DEF IInv, RequestAppends, BeginAppend, Begin, DispatchedIsChained, AnchorNeverAhead
<1>12. ASSUME LoadEvents \/ LoadCheckpoint PROVE Kept' /\ Sound'
  BY <1>12 DEF IInv, LoadEvents, LoadCheckpoint, DispatchedIsChained, AnchorNeverAhead
<1>13. ASSUME Crash PROVE Kept' /\ Sound'
  BY <1>13 DEF IInv, Crash, DispatchedIsChained, AnchorNeverAhead
<1>14. ASSUME UNCHANGED vars PROVE Kept' /\ Sound'
  BY <1>14 DEF IInv, DispatchedIsChained, AnchorNeverAhead
<1>15. Kept' /\ Sound'
  BY <1>2, <1>3, <1>4, <1>5, <1>6, <1>7, <1>8, <1>9, <1>10, <1>11, <1>12, <1>13, <1>14
     DEF Next, Flush, AppendStep
<1> QED BY <1>1, <1>15 DEF IInv

LEMMA Invariance == Spec => []IInv
<1>1. Init => IInv
  BY InitTypes, ChainInit, AuditAssumption
     DEF Init, IInv, Working, Listed, Row, DispatchedIsChained, AnchorNeverAhead, Procs, Events
<1>2. IInv /\ [Next]_vars => IInv'
  BY EvidenceStep
<1> QED BY <1>1, <1>2, PTL DEF Spec

(* No event is in the chain twice, however often its intent is delivered,  *)
(* and a row leaves the outbox only with its event in the chain, at the    *)
(* sequence it names (FlushOutbox, the unique key on event_id,             *)
(* MarkOutboxDispatched).                                                  *)
THEOREM Delivery == Spec => []ExactlyOnce
<1>1. IInv => ExactlyOnce
  BY DEF IInv, Chain, ExactlyOnce
<1> QED BY Invariance, <1>1, PTL

(* The anchor holds no checkpoint that was not committed (appendEvent).    *)
THEOREM AnchorBehind == Spec => []AnchorNeverAhead
<1>1. IInv => AnchorNeverAhead
  BY DEF IInv
<1> QED BY Invariance, <1>1, PTL

(* A row that is acknowledged twice keeps the place it was given first.    *)
THEOREM Acknowledgement == Spec => AcknowledgedOnce
<1>1. ASSUME IInv, [Next]_vars, NEW i \in Intents
      PROVE  /\ outbox[i] # "none" => outbox'[i] # "none"
             /\ outbox[i] = "dispatched" => outbox'[i] = "dispatched" /\ place'[i] = place[i]
  <2> USE DEF vars, tables, Procs
  <2>1. ASSUME NEW j \in Intents, Enqueue(j)
        PROVE  /\ place' = place
               /\ outbox[i] # "none" => outbox'[i] = outbox[i]
    BY <2>1 DEF Enqueue
  <2>2. ASSUME NEW p \in Flushers, MarkDispatched(p)
        PROVE  /\ outbox'[i] \in {outbox[i], "dispatched"}
               /\ outbox[i] = "dispatched" => place'[i] = place[i]
    <3>1. outbox \in [Intents -> {"none", "pending", "dispatched"}] /\ place \in [Intents -> Nat]
      BY <1>1 DEF IInv, Typed, TypeOK
    <3> QED BY <2>2, <3>1 DEF MarkDispatched
  <2>3. ASSUME NEW p \in Flushers, Flush(p), ~MarkDispatched(p) PROVE UNCHANGED <<outbox, place>>
    BY <2>3 DEF Flush, ListPending, AppendStep, AppendEvent, FindEvent, AppendFails,
       AnchorCheckpoint, AnchorFails, MarkFails, NextIntent, BeginAppend, Begin
  <2>4. ASSUME NEW r \in Requests, RequestAppends(r) \/ AppendStep(r)
        PROVE  UNCHANGED <<outbox, place>>
    BY <2>4 DEF RequestAppends, AppendStep, AppendEvent, FindEvent, AppendFails,
       AnchorCheckpoint, AnchorFails, BeginAppend, Begin
  <2>5. ASSUME LoadEvents \/ LoadCheckpoint \/ Crash \/ UNCHANGED vars
        PROVE  UNCHANGED <<outbox, place>>
    BY <2>5 DEF LoadEvents, LoadCheckpoint, Crash
  <2> QED BY <1>1, <2>1, <2>2, <2>3, <2>4, <2>5 DEF Next
<1>2. IInv /\ [Next]_vars =>
        \A i \in Intents :
          /\ outbox[i] # "none" => outbox'[i] # "none"
          /\ outbox[i] = "dispatched" => outbox'[i] = "dispatched" /\ place'[i] = place[i]
  BY <1>1
<1> QED BY Invariance, <1>2, PTL DEF Spec, AcknowledgedOnce

----------------------------------------------------------------------------
(* The promise: every step of the chain and its outbox is one of           *)
(* AuditPromise, or none.                                                  *)

LEMMA PromiseStep ==
  ASSUME IInv, [Next]_vars
  PROVE  \/ UNCHANGED <<chain, checkpoint, {i \in Intents : outbox[i] # "none"}>>
         \/ Promise!Next
<1> DEFINE Due == {i \in Intents : outbox[i] # "none"}
<1> USE AuditAssumption DEF Typed, Active, TypeOK, Procs, Events, vars, tables, procs, verify
<1>1. Typed
  BY DEF IInv
<1> USE <1>1
<1>2. ASSUME NEW i \in Intents, Enqueue(i) PROVE Promise!Next
  <2>1. i \in Intents \ Due /\ Due' = Due \cup {i}
    BY <1>2 DEF Enqueue
  <2>2. UNCHANGED <<chain, checkpoint>>
    BY <1>2 DEF Enqueue
  <2>3. Promise!Commit(i)
    BY <2>1, <2>2 DEF Promise!Commit
  <2> QED BY <2>3 DEF Promise!Next
<1>3. ASSUME NEW p \in Procs, AppendEvent(p) PROVE Promise!Next
  <2>1. PICK e \in Events : e = item[p]
    BY <1>3 DEF AppendEvent
  <2> DEFINE n == checkpoint.sequence
             new == [sequence |-> n + 1, id |-> e, previous |-> checkpoint.mac]
             log == {<<row.sequence, row.id>> : row \in chain}
  <2>2. chain' = chain \cup {new} /\ checkpoint'.sequence = n + 1
    BY <1>3, <2>1 DEF AppendEvent, Insert
  <2>3. (e \in Intents => e \in Due) /\ Due' = Due
    BY <1>3, <2>1 DEF IInv, Working, AppendEvent
  <2>4. \A entry \in log : entry[2] # e
    BY <1>3, <2>1 DEF AppendEvent, Chained
  <2>5. log' = log \cup {<<n + 1, e>>}
    <3>1. new.sequence = n + 1 /\ new.id = e
      OBVIOUS
    <3> HIDE DEF new, n
    <3> QED BY <2>2, <3>1
  <2>6. Promise!Record(e)
    BY <2>2, <2>3, <2>4, <2>5 DEF Promise!Record
  <2> QED BY <2>6 DEF Promise!Next
<1>4. ASSUME NEW p \in Flushers, MarkDispatched(p) PROVE UNCHANGED <<chain, checkpoint, Due>>
  <2>1. item[p] \in Intents /\ outbox[item[p]] # "none"
    BY <1>4 DEF IInv, Working, MarkDispatched
  <2> QED BY <1>4, <2>1 DEF MarkDispatched
<1>5. ASSUME UNCHANGED <<chain, checkpoint, outbox>> PROVE UNCHANGED <<chain, checkpoint, Due>>
  BY <1>5
<1>6. ASSUME NEW p \in Procs, FindEvent(p) \/ AppendFails(p) \/ AnchorCheckpoint(p) \/ AnchorFails(p)
      PROVE  UNCHANGED <<chain, checkpoint, outbox>>
  BY <1>6 DEF FindEvent, AppendFails, AnchorCheckpoint, AnchorFails
<1>7. ASSUME NEW p \in Flushers, ListPending(p) \/ MarkFails(p) \/ \E i \in batch[p] : NextIntent(p, i)
      PROVE  UNCHANGED <<chain, checkpoint, outbox>>
  BY <1>7 DEF ListPending, MarkFails, NextIntent, BeginAppend, Begin
<1>8. ASSUME (\E r \in Requests : RequestAppends(r)) \/ LoadEvents \/ LoadCheckpoint \/ Crash \/ UNCHANGED vars
      PROVE  UNCHANGED <<chain, checkpoint, outbox>>
  BY <1>8 DEF RequestAppends, BeginAppend, Begin, LoadEvents, LoadCheckpoint, Crash
<1> QED BY <1>2, <1>3, <1>4, <1>5, <1>6, <1>7, <1>8 DEF Next, Flush, AppendStep

(* The tables implement AuditPromise: numbered without a gap, nothing      *)
(* changed or recorded twice, no evidence of what did not commit           *)
(* (Enqueue, FlushOutbox, PostgresRepository.Append).                      *)
THEOREM Refinement == Spec => PromiseKept
<1>1. Init => Promise!Init
  BY DEF Init, Promise!Init
<1>2. ASSUME IInv, [Next]_vars
      PROVE  [Promise!Next]_(<<{<<row.sequence, row.id>> : row \in chain}, checkpoint.sequence,
                               {i \in Intents : outbox[i] # "none"}>>)
  BY <1>2, PromiseStep
<1> QED BY <1>1, <1>2, Invariance, PTL DEF Spec, PromiseKept, Promise!Spec
=============================================================================
