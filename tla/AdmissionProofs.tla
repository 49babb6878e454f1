-------------------------- MODULE AdmissionProofs --------------------------
(***************************************************************************)
(* Theorems about Admission for every number of processes, owners and      *)
(* uploads.  The charge of an upload passes from its reservation to its    *)
(* row; Tracked says what the row must look like at each stage for the     *)
(* hand-over to leave no gap, and Recorded where the quotas in memory and  *)
(* on their way to it come from.  Working and Recovering keep a goroutine  *)
(* and a startup from taking up one upload, so that nothing but Admit puts *)
(* an upload among those that count (Counts); bytes are counted one by one *)
(* (Units), which lets sums be compared.  Hence the limits, and the        *)
(* refinement of CapacityPromise.                                          *)
(***************************************************************************)
EXTENDS Admission, FiniteSetTheorems, TLAPS

Early == {"reserve", "receive", "cleanup"}

Tracked ==
  /\ \A u \in Uploads : u \in file => row[u] \notin {"absent", "deleted"}
  /\ \A u \in Uploads : task[u] \in Early => row[u] \in {"quarantined", "ended"}
  /\ \A u \in Uploads : task[u] = "reserve" => u \notin file
  /\ \A u \in Uploads : row[u] = "stored" => u \in sized

Recorded ==
  /\ \A o \in Owners : {NoOverride, quota[o]} \subseteq granted[o]
  /\ \A s \in Servers : \A p \in unsaved[s] : p[2] \in granted[p[1]]

(* What the goroutine of an upload relies on, unless the upload lapsed.    *)
Working(u) ==
  /\ task[u] # "none" => home[u] \in Servers /\ phase[home[u]] = "up"
  /\ task[u] = "receive" => u \in file
  /\ u \notin lapsed =>
       /\ task[u] \in Early => row[u] = "quarantined"
       /\ task[u] = "process" => u \in file /\ row[u] \in Pending

(* A startup looks at every row once, and no goroutine of that process is  *)
(* under way meanwhile.                                                    *)
Recovering(s) ==
  /\ phase[s] # "starting" => todo[s] = {} /\ resume[s] = {}
  /\ \A p, q \in todo[s] : p[1] = q[1] => p = q
  /\ \A p \in todo[s] :
       /\ row[p[1]] # "absent"
       /\ home[p[1]] = s => p[1] \in lapsed \/ row[p[1]] \in Pending
  /\ \A u \in resume[s] :
       /\ home[u] = s /\ u \in file /\ (u \in lapsed \/ row[u] \in Pending)
       /\ \A p \in todo[s] : p[1] # u

Steady == (\A u \in Uploads : Working(u)) /\ (\A s \in Servers : Recovering(s))

(* The uploads the bounds speak of.                                        *)
Counts == {u \in Uploads : Holds(u)} \ lapsed

IInv == TypeOK /\ Tracked /\ ChargedThroughout

----------------------------------------------------------------------------
LEMMA InitIInv == Init => IInv /\ Recorded /\ QuotaOnRecord
<1> SUFFICES ASSUME Init PROVE IInv /\ Recorded /\ QuotaOnRecord
  OBVIOUS
<1>1. TypeOK
  BY DEF Init, TypeOK, Statuses, Tasks
<1>2. Tracked /\ ChargedThroughout
  BY DEF Init, Tracked, Early, ChargedThroughout, Holds
<1>3. Recorded /\ QuotaOnRecord
  BY DEF Init, Recorded, QuotaOnRecord
<1> QED BY <1>1, <1>2, <1>3 DEF IInv

(* Either handler changes the quota to an override or to none.             *)
LEMMA QuotaChanges ==
  ASSUME NEW s \in Servers, NEW o \in Owners, UpdateOwnerQuota(s, o) \/ ResetOwnerQuota(s, o)
  PROVE  \E q \in Overrides \cup {NoOverride} : CommitQuota(s, o, q) \/ ApplyQuota(s, o, q)
BY DEF UpdateOwnerQuota, ResetOwnerQuota

(* Types, one action after the other.                                      *)
LEMMA TypeStep == TypeOK /\ [Next]_vars => TypeOK'
<1> SUFFICES ASSUME TypeOK, [Next]_vars PROVE TypeOK'
  OBVIOUS
<1> USE AdmissionAssumption DEF TypeOK, At, Goto, ledger, work, servers, quotas
<1>a. \A u \in Uploads : \A t \in Statuses : [row EXCEPT ![u] = t] \in [Uploads -> Statuses]
  OBVIOUS
<1>b. \A u \in Uploads : \A t \in Tasks : [task EXCEPT ![u] = t] \in [Uploads -> Tasks]
  OBVIOUS
<1>c. \A u \in Uploads : \A t \in Statuses : Write(u, t) => row' \in [Uploads -> Statuses] /\ sized' \subseteq Uploads
  BY <1>a DEF Write
<1>d. Pending \cup {"stored", "ended"} \subseteq Statuses /\ {"quarantined", "processing"} = Pending
  BY DEF Statuses, Pending
<1>e. {"none", "reserve", "receive", "cleanup", "process", "release"} \subseteq Tasks
  BY DEF Tasks
<1>f. \A s \in Servers : Stop(s) =>
        /\ phase' \in [Servers -> {"down", "starting", "up"}]
        /\ todo' \in [Servers -> SUBSET (Uploads \X BOOLEAN)]
        /\ resume' \in [Servers -> SUBSET Uploads]
        /\ cached' \in [Servers -> [Owners -> Overrides \cup {NoOverride}]]
        /\ unsaved' \in [Servers -> SUBSET (Owners \X (Overrides \cup {NoOverride}))]
        /\ task' \in [Uploads -> Tasks]
  <2> SUFFICES ASSUME NEW s \in Servers, Stop(s)
               PROVE  /\ phase' \in [Servers -> {"down", "starting", "up"}]
                      /\ todo' \in [Servers -> SUBSET (Uploads \X BOOLEAN)]
                      /\ resume' \in [Servers -> SUBSET Uploads]
                      /\ cached' \in [Servers -> [Owners -> Overrides \cup {NoOverride}]]
                      /\ unsaved' \in [Servers -> SUBSET (Owners \X (Overrides \cup {NoOverride}))]
                      /\ task' \in [Uploads -> Tasks]
    OBVIOUS
  <2>1. [o \in Owners |-> NoOverride] \in [Owners -> Overrides \cup {NoOverride}]
    OBVIOUS
  <2>2. cached' \in [Servers -> [Owners -> Overrides \cup {NoOverride}]]
    BY <2>1 DEF Stop
  <2>3. task' \in [Uploads -> Tasks]
    BY <1>e DEF Stop
  <2>4. todo' \in [Servers -> SUBSET (Uploads \X BOOLEAN)] /\ resume' \in [Servers -> SUBSET Uploads]
    BY DEF Stop
  <2>5. unsaved' \in [Servers -> SUBSET (Owners \X (Overrides \cup {NoOverride}))]
    BY DEF Stop
  <2> QED BY <2>2, <2>3, <2>4, <2>5 DEF Stop
<1>1. ASSUME NEW s \in Servers, NEW u \in Uploads, Create(s, u) PROVE TypeOK'
  BY <1>1 DEF Create, Statuses, Pending, Tasks
<1>2. ASSUME NEW u \in Uploads, Admit(u) PROVE TypeOK'
  BY <1>2 DEF Admit, Reserved, Live, Tasks
<1>3. ASSUME NEW u \in Uploads, Refuse(u) PROVE TypeOK'
  BY <1>3 DEF Refuse, Reserved, Live, Tasks, Statuses
<1>4. ASSUME NEW u \in Uploads, Receive(u) PROVE TypeOK'
  <2>1. row' \in [Uploads -> Statuses] /\ sized' \subseteq Uploads
    BY <1>4, <1>c, <1>d DEF Receive
  <2>2. task' \in [Uploads -> Tasks]
    BY <1>4, <1>b, <1>e DEF Receive
  <2> QED BY <1>4, <2>1, <2>2 DEF Receive
<1>5. ASSUME NEW u \in Uploads, Cleanup(u) PROVE TypeOK'
  BY <1>5 DEF Cleanup, Drop, TryDrop, Tasks, Statuses
<1>6. ASSUME NEW u \in Uploads, Advance(u) \/ Conclude(u) \/ GiveUp(u) PROVE TypeOK'
  <2>1. row' \in [Uploads -> Statuses] /\ sized' \subseteq Uploads
    BY <1>6, <1>c, <1>d DEF Advance, Conclude, GiveUp
  <2>2. task' \in [Uploads -> Tasks]
    BY <1>6, <1>b, <1>e DEF Advance, Conclude, GiveUp
  <2> QED BY <1>6, <2>1, <2>2 DEF Advance, Conclude, GiveUp
<1>7. ASSUME NEW u \in Uploads, Release(u) \/ Expire(u) PROVE TypeOK'
  BY <1>7 DEF Release, Expire, Drop, TryDrop, Tasks
<1>8. ASSUME NEW s \in Servers, NEW o \in Owners, NEW q \in Overrides \cup {NoOverride},
             CommitQuota(s, o, q)
      PROVE TypeOK'
  <2>1. <<o, q>> \in Owners \X (Overrides \cup {NoOverride})
    OBVIOUS
  <2>2. unsaved' \in [Servers -> SUBSET (Owners \X (Overrides \cup {NoOverride}))]
    BY <1>8, <2>1 DEF CommitQuota
  <2>3. granted' \in [Owners -> SUBSET (Overrides \cup {NoOverride})]
    BY <1>8 DEF CommitQuota
  <2> QED BY <1>8, <2>2, <2>3 DEF CommitQuota
<1>9. ASSUME NEW s \in Servers, NEW o \in Owners, NEW q \in Overrides \cup {NoOverride},
             ApplyQuota(s, o, q)
      PROVE TypeOK'
  BY <1>9 DEF ApplyQuota
<1>10. ASSUME NEW s \in Servers, Crash(s) \/ FailStart(s) PROVE TypeOK'
  BY <1>10, <1>f DEF Crash, FailStart
<1>11. ASSUME NEW s \in Servers, Load(s) PROVE TypeOK'
  <2>1. {<<u, u \in sized>> : u \in {v \in Uploads : row[v] \in Pending}} \in SUBSET (Uploads \X BOOLEAN)
    <3>1. ASSUME NEW u \in Uploads PROVE <<u, u \in sized>> \in Uploads \X BOOLEAN
      <4>1. CASE u \in sized
        <5>1. (u \in sized) = TRUE
          BY <4>1
        <5> QED BY <5>1
      <4>2. CASE u \notin sized
        <5>1. (u \in sized) = FALSE
          BY <4>2
        <5> QED BY <5>1
      <4> QED BY <4>1, <4>2
    <3> QED BY <3>1
  <2>2. todo' \in [Servers -> SUBSET (Uploads \X BOOLEAN)]
    BY <1>11, <2>1 DEF Load
  <2> QED BY <1>11, <2>2 DEF Load
<1>12. ASSUME NEW s \in Servers, NEW u \in Uploads,
              RecoverIncomplete(s, u) \/ RecoverMissing(s, u) \/ RecoverPending(s, u)
       PROVE TypeOK'
  <2>1. todo' \in [Servers -> SUBSET (Uploads \X BOOLEAN)]
    <3>1. PICK w \in BOOLEAN : Taken(s, u, w)
      BY <1>12 DEF RecoverIncomplete, RecoverMissing, RecoverPending
    <3>2. todo[s] \ {<<u, w>>} \in SUBSET (Uploads \X BOOLEAN)
      OBVIOUS
    <3> QED BY <3>1, <3>2 DEF Taken
  <2>2. CASE RecoverIncomplete(s, u)
    BY <2>1, <2>2, <1>a, <1>d DEF RecoverIncomplete, Taken, Reaped, Drop, TryDrop
  <2>3. CASE RecoverMissing(s, u)
    BY <2>1, <2>3, <1>c, <1>d DEF RecoverMissing, Taken, Reaped
  <2>4. CASE RecoverPending(s, u)
    BY <2>1, <2>4 DEF RecoverPending, Taken
  <2> QED BY <1>12, <2>2, <2>3, <2>4
<1>13. ASSUME NEW s \in Servers, Serve(s) PROVE TypeOK'
  BY <1>13 DEF Serve, Tasks
<1>14. CASE UNCHANGED vars
  BY <1>14 DEF vars
<1> QED
  BY <1>1, <1>2, <1>3, <1>4, <1>5, <1>6, <1>7, <1>8, <1>9, <1>10, <1>11, <1>12, <1>13, <1>14, QuotaChanges
  DEF Next, Request, Processing, Recovery

(* The row of an upload at each stage, and its charge.  Only the steps     *)
(* that write rows, quarantine objects or reservations matter.             *)
LEMMA ChargeStep == IInv /\ TypeOK' /\ [Next]_vars => Tracked' /\ ChargedThroughout'
<1> SUFFICES ASSUME IInv, TypeOK', [Next]_vars PROVE Tracked' /\ ChargedThroughout'
  OBVIOUS
<1> USE DEF IInv, TypeOK, Tracked, ChargedThroughout, Holds, Charged, ChargedAmong, Early, Pending,
            Statuses, At, Goto, ledger, work, servers, quotas
<1> DEFINE Kept == Tracked' /\ ChargedThroughout'
<1>1. ASSUME NEW s \in Servers, NEW u \in Uploads, Create(s, u) PROVE Kept
  BY <1>1 DEF Create
<1>2. ASSUME NEW u \in Uploads, Admit(u) PROVE Kept
  <2>1. /\ reserved' = (reserved \ expired) \cup {u}
        /\ lapsed' = lapsed \cup ((reserved \cap expired) \ sized)
        /\ file' = file \cup {u} /\ row' = row /\ sized' = sized
        /\ task' = [task EXCEPT ![u] = "receive"] /\ task[u] = "reserve"
    BY <1>2 DEF Admit, Reserved, Live
  <2>2. Tracked'
    BY <2>1
  <2>3. ChargedThroughout'
    BY <2>1
  <2> QED BY <2>2, <2>3
<1>3. ASSUME NEW u \in Uploads, Refuse(u) PROVE Kept
  <2>1. /\ sized' = sized /\ file' = file /\ task' = [task EXCEPT ![u] = "none"]
        /\ row' \in {row, [row EXCEPT ![u] = "deleted"]} /\ u \notin file
        /\ row[u] \in {"quarantined", "ended"}
    BY <1>3 DEF Refuse, Reserved
  <2>2. Tracked'
    BY <2>1
  <2>3. \A v \in Uploads : v # u /\ v \in reserved => v \in reserved' \/ v \in sized \/ v \in lapsed'
    BY <1>3 DEF Refuse, Reserved, Live
  <2>4. lapsed \subseteq lapsed'
    BY <1>3 DEF Refuse, Reserved
  <2>5. ChargedThroughout'
    BY <2>1, <2>3, <2>4
  <2> QED BY <2>2, <2>5
<1>4. ASSUME NEW u \in Uploads, Receive(u) PROVE Kept
  <2>1. /\ UNCHANGED <<reserved, file, lapsed>> /\ task[u] = "receive"
        /\ task' \in {[task EXCEPT ![u] = "process"], [task EXCEPT ![u] = "cleanup"]}
        /\ \/ row' = row /\ sized' = sized
           \/ row' = [row EXCEPT ![u] = "quarantined"] /\ sized' = sized \cup {u}
    BY <1>4 DEF Receive, Write
  <2>2. Tracked'
    BY <2>1
  <2>3. ChargedThroughout'
    BY <2>1
  <2> QED BY <2>2, <2>3
<1>5. ASSUME NEW u \in Uploads, Cleanup(u) PROVE Kept
  BY <1>5 DEF Cleanup, Drop, TryDrop
<1>6. ASSUME NEW u \in Uploads, Advance(u) \/ Conclude(u) \/ GiveUp(u) PROVE Kept
  <2>1. CASE Advance(u)
    BY <2>1 DEF Advance, Write
  <2>2. CASE Conclude(u)
    BY <2>2 DEF Conclude, Write
  <2>3. CASE GiveUp(u)
    BY <2>3 DEF GiveUp, Write
  <2> QED BY <1>6, <2>1, <2>2, <2>3
<1>7. ASSUME NEW u \in Uploads, Release(u) \/ Expire(u) PROVE Kept
  BY <1>7 DEF Release, Expire, Drop, TryDrop
<1>8. ASSUME NEW s \in Servers, NEW o \in Owners, NEW q \in Overrides \cup {NoOverride},
             CommitQuota(s, o, q) \/ ApplyQuota(s, o, q)
      PROVE Kept
  BY <1>8 DEF CommitQuota, ApplyQuota
<1>9. ASSUME NEW s \in Servers, Crash(s) \/ FailStart(s) PROVE Kept
  BY <1>9 DEF Crash, FailStart, Stop
<1>10. ASSUME NEW s \in Servers, Load(s) PROVE Kept
  BY <1>10 DEF Load
<1>11. ASSUME NEW s \in Servers, NEW u \in Uploads, RecoverIncomplete(s, u) PROVE Kept
  BY <1>11 DEF RecoverIncomplete, Taken, Reaped, Drop, TryDrop
<1>12. ASSUME NEW s \in Servers, NEW u \in Uploads, RecoverMissing(s, u) PROVE Kept
  BY <1>12 DEF RecoverMissing, Taken, Reaped, Write
<1>13. ASSUME NEW s \in Servers, NEW u \in Uploads, RecoverPending(s, u) PROVE Kept
  BY <1>13 DEF RecoverPending, Taken
<1>14. ASSUME NEW s \in Servers, Serve(s) PROVE Kept
  BY <1>14 DEF Serve
<1>15. CASE UNCHANGED vars
  BY <1>15 DEF vars
<1> QED
  BY <1>1, <1>2, <1>3, <1>4, <1>5, <1>6, <1>7, <1>8, <1>9, <1>10, <1>11, <1>12, <1>13, <1>14, <1>15,
     QuotaChanges
  DEF Next, Request, Processing, Recovery

(* Only quota changes and startups touch what the processes remember.      *)
LEMMA QuotaStep == TypeOK /\ Recorded /\ QuotaOnRecord /\ [Next]_vars => Recorded' /\ QuotaOnRecord'
<1> SUFFICES ASSUME TypeOK, Recorded, QuotaOnRecord, [Next]_vars PROVE Recorded' /\ QuotaOnRecord'
  OBVIOUS
<1> USE DEF TypeOK, Recorded, QuotaOnRecord
<1>1. ASSUME UNCHANGED quotas PROVE Recorded' /\ QuotaOnRecord'
  BY <1>1 DEF quotas
<1>2. ASSUME NEW s \in Servers, NEW o \in Owners, NEW q \in Overrides \cup {NoOverride},
             CommitQuota(s, o, q)
      PROVE Recorded' /\ QuotaOnRecord'
  <2>1. \A p \in Owners : granted'[p] = IF p = o THEN granted[p] \cup {q} ELSE granted[p]
    BY <1>2 DEF CommitQuota
  <2>2. \A t \in Servers : unsaved'[t] \subseteq unsaved[t] \cup {<<o, q>>}
    BY <1>2 DEF CommitQuota
  <2>3. \A t \in Servers : \A p \in unsaved'[t] : p \in Owners \X (Overrides \cup {NoOverride})
    BY <2>2
  <2>4. \A t \in Servers : \A p \in unsaved'[t] : p[2] \in granted'[p[1]]
    <3> SUFFICES ASSUME NEW t \in Servers, NEW p \in unsaved'[t] PROVE p[2] \in granted'[p[1]]
      OBVIOUS
    <3>1. p[1] \in Owners
      BY <2>3
    <3>2. CASE p = <<o, q>>
      BY <3>2, <2>1
    <3>3. CASE p \in unsaved[t]
      BY <3>1, <3>3, <2>1
    <3> QED BY <3>2, <3>3, <2>2
  <2>5. \A p \in Owners : {NoOverride, quota'[p]} \subseteq granted'[p]
    BY <1>2, <2>1 DEF CommitQuota
  <2> QED BY <1>2, <2>1, <2>4, <2>5 DEF CommitQuota
<1>3. ASSUME NEW s \in Servers, NEW o \in Owners, NEW q \in Overrides \cup {NoOverride},
             ApplyQuota(s, o, q)
      PROVE Recorded' /\ QuotaOnRecord'
  <2>1. q \in granted[o]
    BY <1>3 DEF ApplyQuota
  <2> QED BY <1>3, <2>1 DEF ApplyQuota
<1>4. ASSUME NEW s \in Servers, Stop(s), UNCHANGED <<quota, granted>>
      PROVE Recorded' /\ QuotaOnRecord'
  BY <1>4 DEF Stop
<1>5. ASSUME NEW s \in Servers, Load(s) PROVE Recorded' /\ QuotaOnRecord'
  BY <1>5 DEF Load
<1>6. UNCHANGED vars => UNCHANGED quotas
  BY DEF vars, quotas
<1>7. ASSUME NEW u \in Uploads, Request(u) \/ Processing(u) \/ Expire(u) \/ \E s \in Servers : Create(s, u)
      PROVE UNCHANGED quotas
  BY <1>7 DEF Request, Processing, Create, Admit, Refuse, Receive, Cleanup, Advance, Conclude, GiveUp, Release, Expire
<1>8. ASSUME NEW s \in Servers, NEW u \in Uploads,
             RecoverIncomplete(s, u) \/ RecoverMissing(s, u) \/ RecoverPending(s, u) \/ Serve(s)
      PROVE UNCHANGED quotas
  BY <1>8 DEF RecoverIncomplete, RecoverMissing, RecoverPending, Serve
<1>9. ASSUME NEW s \in Servers, Serve(s) PROVE UNCHANGED quotas
  BY <1>9 DEF Serve
<1>10. ASSUME NEW s \in Servers, Crash(s) \/ FailStart(s) PROVE Recorded' /\ QuotaOnRecord'
  BY <1>4, <1>10 DEF Crash, FailStart
<1> QED
  BY <1>1, <1>2, <1>3, <1>5, <1>6, <1>7, <1>8, <1>9, <1>10, QuotaChanges DEF Next, Recovery

----------------------------------------------------------------------------
(* Bytes counted one by one.                                               *)

(* An upload alone counts its size.                                        *)
LEMMA SizeOfOne ==
  ASSUME NEW u \in Uploads
  PROVE  IsFiniteSet(Units({u})) /\ Size({u}) = Bytes[u]
<1>1. Units({u}) = {u} \X (1 .. Bytes[u])
  BY DEF Units
<1>2. Bytes[u] \in Nat \ {0}
  BY AdmissionAssumption
<1>3. IsFiniteSet(1 .. Bytes[u]) /\ Cardinality(1 .. Bytes[u]) = Bytes[u]
  BY <1>2, FS_Interval
<1>4. IsFiniteSet({u}) /\ Cardinality({u}) = 1
  BY FS_Singleton
<1> DEFINE one == {u}
           bytes == 1 .. Bytes[u]
<1>5. /\ IsFiniteSet(one \X bytes)
      /\ Cardinality(one \X bytes) = 1 * Bytes[u]
  <2> HIDE DEF one, bytes
  <2>1. IsFiniteSet(one) /\ IsFiniteSet(bytes) /\ Cardinality(one) = 1 /\ Cardinality(bytes) = Bytes[u]
    BY <1>3, <1>4 DEF one, bytes
  <2>2. IsFiniteSet(one \X bytes) /\ Cardinality(one \X bytes) = Cardinality(one) * Cardinality(bytes)
    BY <2>1, FS_Product
  <2> QED BY <2>1, <2>2
<1>6. Cardinality(Units({u})) = Cardinality({u} \X (1 .. Bytes[u]))
  BY <1>1
<1>7. 1 * Bytes[u] = Bytes[u]
  BY <1>2
<1> QED BY <1>1, <1>5, <1>6, <1>7 DEF Size

LEMMA UnitsFinite ==
  ASSUME NEW U \in SUBSET Uploads PROVE IsFiniteSet(Units(U)) /\ Size(U) \in Nat
<1> DEFINE T == {{u} \X (1 .. Bytes[u]) : u \in Uploads}
           f == [u \in Uploads |-> {u} \X (1 .. Bytes[u])]
<1>1. IsFiniteSet(T)
  <2>1. f \in Surjection(Uploads, T)
    BY DEF Surjection
  <2> QED BY <2>1, FS_Surjection, AdmissionAssumption
<1>2. \A t \in T : IsFiniteSet(t)
  <2> SUFFICES ASSUME NEW u \in Uploads PROVE IsFiniteSet({u} \X (1 .. Bytes[u]))
    OBVIOUS
  <2>1. IsFiniteSet(Units({u})) /\ Units({u}) = {u} \X (1 .. Bytes[u])
    BY SizeOfOne DEF Units
  <2> QED BY <2>1
<1>3. IsFiniteSet(UNION T)
  BY <1>1, <1>2, FS_UNION
<1>4. Units(U) \subseteq UNION T
  BY DEF Units
<1>5. IsFiniteSet(Units(U))
  BY <1>3, <1>4, FS_Subset
<1> QED BY <1>5, FS_CardinalityType DEF Size

(* More uploads never count for less.                                      *)
LEMMA SizeMonotone ==
  ASSUME NEW V \in SUBSET Uploads, NEW U \in SUBSET V PROVE Size(U) <= Size(V)
<1>1. Units(U) \subseteq Units(V)
  BY DEF Units
<1> QED BY <1>1, UnitsFinite, FS_Subset DEF Size

(* One more counts for its size at most.                                   *)
LEMMA SizeWithOne ==
  ASSUME NEW U \in SUBSET Uploads, NEW u \in Uploads
  PROVE  Size(U \cup {u}) <= Size(U) + Bytes[u]
<1>1. Units(U \cup {u}) = Units(U) \cup Units({u})
  BY DEF Units
<1>2. IsFiniteSet(Units(U)) /\ IsFiniteSet(Units({u})) /\ Size(U) \in Nat /\ Size({u}) = Bytes[u]
  BY UnitsFinite, SizeOfOne
<1>3. Size(U \cup {u}) = Size(U) + Size({u}) - Cardinality(Units(U) \cap Units({u}))
  BY <1>1, <1>2, FS_Union DEF Size
<1>4. Cardinality(Units(U) \cap Units({u})) \in Nat
  <2>1. IsFiniteSet(Units(U) \cap Units({u}))
    BY <1>2, FS_Subset
  <2> QED BY <2>1, FS_CardinalityType
<1>5. Bytes[u] \in Nat
  BY AdmissionAssumption
<1> QED BY <1>2, <1>3, <1>4, <1>5

LEMMA SizeOfNone == Size({}) = 0
<1>1. Units({}) = {}
  BY DEF Units
<1> QED BY <1>1, FS_EmptySet DEF Size

(* Working(w) depends on these.                                            *)
LEMMA WorkingFrame ==
  ASSUME NEW w \in Uploads, Working(w), task'[w] = task[w], home'[w] = home[w], phase' = phase,
         row'[w] = row[w], w \in file => w \in file', lapsed \subseteq lapsed'
  PROVE  Working(w)'
BY DEF Working

(* Each step of a goroutine leaves its upload as the next one expects it;  *)
(* what another process's startup does to it is a lapse.                   *)
LEMMA WorkingStep ==
  ASSUME IInv, TypeOK', Steady, [Next]_vars, NEW w \in Uploads PROVE Working(w)'
<1>0. Working(w) /\ Tracked /\ TypeOK
  BY DEF Steady, IInv
<1>t. /\ row \in [Uploads -> Statuses] /\ task \in [Uploads -> Tasks]
      /\ home \in [Uploads -> Servers \cup {None}] /\ phase \in [Servers -> {"down", "starting", "up"}]
      /\ todo \in [Servers -> SUBSET (Uploads \X BOOLEAN)] /\ resume \in [Servers -> SUBSET Uploads]
      /\ None \notin Servers
  BY <1>0, AdmissionAssumption DEF TypeOK
<1> USE DEF At, Goto, ledger, work, servers, quotas
<1>1. ASSUME NEW s \in Servers, NEW u \in Uploads, Create(s, u) PROVE Working(w)'
  <2>1. CASE w = u
    BY <1>0, <1>1, <1>t, <2>1 DEF Create, Working, Tracked, Early, Pending
  <2>2. CASE w # u
    <3>1. task'[w] = task[w] /\ home'[w] = home[w] /\ row'[w] = row[w]
      BY <1>1, <1>t, <2>2 DEF Create
    <3> QED BY <1>0, <1>1, <3>1, WorkingFrame DEF Create
  <2> QED BY <2>1, <2>2
<1>2. ASSUME NEW u \in Uploads, task[u] # "none", phase[home[u]] = "up",
             \A v \in Uploads \ {u} : task'[v] = task[v] /\ row'[v] = row[v] /\ (v \in file => v \in file'),
             UNCHANGED <<home, phase>>, lapsed \subseteq lapsed',
             /\ task'[u] = "receive" => u \in file'
             /\ u \notin lapsed' =>
                  /\ task'[u] \in Early => row'[u] = "quarantined"
                  /\ task'[u] = "process" => u \in file' /\ row'[u] \in Pending
      PROVE  Working(w)'
  <2>1. CASE w = u
    BY <1>0, <1>2, <2>1 DEF Working
  <2>2. CASE w # u
    BY <1>0, <1>2, <2>2, WorkingFrame
  <2> QED BY <2>1, <2>2
<1>3. ASSUME NEW u \in Uploads, Admit(u) PROVE Working(w)'
  <2>1. Working(u)
    BY DEF Steady
  <2>2. /\ row' = row /\ file' = file \cup {u} /\ task' = [task EXCEPT ![u] = "receive"]
        /\ lapsed \subseteq lapsed' /\ UNCHANGED <<home, phase>> /\ task[u] = "reserve" /\ phase[home[u]] = "up"
    BY <1>3 DEF Admit, Reserved
  <2>3. u \notin lapsed' => row'[u] = "quarantined"
    BY <2>1, <2>2 DEF Working, Early
  <2> QED BY <1>2, <1>t, <2>2, <2>3
<1>4. ASSUME NEW u \in Uploads, Refuse(u) PROVE Working(w)'
  <2>1. /\ row' \in {row, [row EXCEPT ![u] = "deleted"]} /\ file' = file /\ task' = [task EXCEPT ![u] = "none"]
        /\ lapsed \subseteq lapsed' /\ UNCHANGED <<home, phase>> /\ task[u] = "reserve" /\ phase[home[u]] = "up"
    BY <1>4 DEF Refuse, Reserved
  <2> QED BY <1>2, <1>t, <2>1 DEF Early
<1>5. ASSUME NEW u \in Uploads, Receive(u) PROVE Working(w)'
  <2>1. Working(u)
    BY DEF Steady
  <2>2. /\ row' \in {row, [row EXCEPT ![u] = "quarantined"]} /\ UNCHANGED <<file, lapsed, home, phase>>
        /\ task[u] = "receive" /\ phase[home[u]] = "up"
        /\ \/ task' = [task EXCEPT ![u] = "cleanup"]
           \/ task' = [task EXCEPT ![u] = "process"] /\ row' = [row EXCEPT ![u] = "quarantined"]
    BY <1>5 DEF Receive, Write
  <2>3. u \in file /\ (u \notin lapsed => row[u] = "quarantined")
    BY <2>1, <2>2 DEF Working, Early
  <2> QED BY <1>2, <1>t, <2>2, <2>3 DEF Pending
<1>6. ASSUME NEW u \in Uploads, Cleanup(u) \/ Release(u) PROVE Working(w)'
  <2>1. /\ row' \in {row, [row EXCEPT ![u] = "deleted"]} /\ file' = file \ {u} /\ task' = [task EXCEPT ![u] = "none"]
        /\ UNCHANGED <<home, phase, lapsed>> /\ task[u] # "none" /\ phase[home[u]] = "up"
    BY <1>6 DEF Cleanup, Release
  <2> QED BY <1>2, <1>t, <2>1 DEF Early
<1>7. ASSUME NEW u \in Uploads, Advance(u) PROVE Working(w)'
  <2>1. Working(u)
    BY DEF Steady
  <2>2. /\ row' = [row EXCEPT ![u] = "processing"] /\ UNCHANGED <<file, task, home, phase, lapsed>>
        /\ task[u] = "process" /\ phase[home[u]] = "up"
    BY <1>7 DEF Advance, Write
  <2>3. u \notin lapsed => u \in file
    BY <2>1, <2>2 DEF Working
  <2> QED BY <1>2, <1>t, <2>2, <2>3 DEF Pending, Early
<1>8. ASSUME NEW u \in Uploads, Conclude(u) \/ GiveUp(u) PROVE Working(w)'
  <2>1. /\ \A v \in Uploads \ {u} : row'[v] = row[v]
        /\ task' = [task EXCEPT ![u] = "release"] /\ UNCHANGED <<file, home, phase, lapsed>>
        /\ task[u] = "process" /\ phase[home[u]] = "up"
    BY <1>8, <1>t DEF Conclude, GiveUp, Write
  <2> QED BY <1>2, <1>t, <2>1 DEF Early
<1>9. ASSUME UNCHANGED <<row, work, phase, lapsed>> PROVE Working(w)'
  BY <1>0, <1>9, WorkingFrame
<1>10. ASSUME NEW s \in Servers, Stop(s), UNCHANGED <<row, home, file, lapsed>> PROVE Working(w)'
  BY <1>0, <1>10, <1>t DEF Stop, Working, Early
<1>11. ASSUME NEW s \in Servers, Load(s) PROVE Working(w)'
  BY <1>0, <1>11, <1>t DEF Load, Working
<1>12. ASSUME NEW s \in Servers, NEW u \in Uploads, phase[s] = "starting",
              \A v \in Uploads \ {u} : row'[v] = row[v] /\ (v \in file => v \in file'),
              UNCHANGED <<home, task, phase>>, Reaped(s, u), home[u] # s => file' = file
       PROVE  Working(w)'
  <2>1. CASE w # u
    BY <1>0, <1>12, <2>1, WorkingFrame DEF Reaped
  <2>2. CASE w = u /\ home[u] # s
    BY <1>0, <1>12, <2>2 DEF Working, Reaped
  <2>3. CASE w = u /\ home[u] = s
    <3>1. task[u] = "none"
      BY <1>0, <1>12, <2>3 DEF Working
    <3> QED BY <1>0, <1>12, <2>3, <3>1 DEF Working, Early
  <2> QED BY <2>1, <2>2, <2>3
<1>13. ASSUME NEW s \in Servers, NEW u \in Uploads, RecoverIncomplete(s, u) \/ RecoverMissing(s, u)
       PROVE Working(w)'
  <2>1. /\ phase[s] = "starting" /\ UNCHANGED <<home, task, phase>> /\ Reaped(s, u)
        /\ home[u] # s => file' = file
        /\ \A v \in Uploads \ {u} : row'[v] = row[v] /\ (v \in file => v \in file')
    BY <1>13, <1>t DEF RecoverIncomplete, RecoverMissing, Taken, Write
  <2> QED BY <1>12, <2>1
<1>14. ASSUME NEW s \in Servers, Serve(s) PROVE Working(w)'
  <2>1. /\ task'[w] = IF w \in resume[s] THEN "process" ELSE task[w]
        /\ phase' = [phase EXCEPT ![s] = "up"] /\ UNCHANGED <<row, home, file, lapsed>>
    BY <1>14 DEF Serve
  <2>2. w \in resume[s] => home[w] = s /\ w \in file /\ (w \in lapsed \/ row[w] \in Pending)
    BY DEF Steady, Recovering
  <2> QED BY <1>0, <1>t, <2>1, <2>2 DEF Working, Early
<1>15. ASSUME NEW s \in Servers, NEW u \in Uploads, RecoverPending(s, u) PROVE Working(w)'
  BY <1>9, <1>15 DEF RecoverPending
<1>16. ASSUME NEW s \in Servers, NEW o \in Owners, NEW q \in Overrides \cup {NoOverride},
              CommitQuota(s, o, q) \/ ApplyQuota(s, o, q)
       PROVE  Working(w)'
  BY <1>9, <1>16 DEF CommitQuota, ApplyQuota
<1>17. ASSUME NEW s \in Servers, Crash(s) \/ FailStart(s) PROVE Working(w)'
  BY <1>10, <1>17 DEF Crash, FailStart
<1>18. ASSUME NEW u \in Uploads, Expire(u) PROVE Working(w)'
  BY <1>9, <1>18 DEF Expire
<1>19. CASE UNCHANGED vars
  BY <1>9, <1>19 DEF vars
<1> QED
  BY <1>1, <1>3, <1>4, <1>5, <1>6, <1>7, <1>8, <1>11, <1>13, <1>14, <1>15, <1>16, <1>17, <1>18, <1>19,
     QuotaChanges
  DEF Next, Request, Processing, Recovery

(* Recovering(s) depends on these; the row of an upload that has not       *)
(* lapsed may change while another process than its own starts.            *)
LEMMA RecoveringFrame ==
  ASSUME TypeOK, NEW s \in Servers, Recovering(s), phase'[s] = phase[s],
         todo'[s] = todo[s], resume'[s] = resume[s], lapsed \subseteq lapsed',
         \A u \in Uploads : row[u] # "absent" => home'[u] = home[u] /\ row'[u] # "absent",
         phase[s] = "starting" =>
           \A u \in Uploads : home[u] = s =>
             /\ u \in file => u \in file'
             /\ u \in lapsed' \/ row'[u] = row[u],
         \A u \in resume[s] : row[u] # "absent"
  PROVE  Recovering(s)'
<1>1. /\ todo[s] \subseteq Uploads \X BOOLEAN /\ resume[s] \subseteq Uploads
      /\ \A p \in todo[s] : p[1] \in Uploads
  BY DEF TypeOK
<1>2. phase'[s] # "starting" => todo'[s] = {} /\ resume'[s] = {}
  BY DEF Recovering
<1>3. \A p, q \in todo'[s] : p[1] = q[1] => p = q
  BY DEF Recovering
<1>4. ASSUME NEW p \in todo[s]
      PROVE  /\ row'[p[1]] # "absent"
             /\ home'[p[1]] = s => p[1] \in lapsed' \/ row'[p[1]] \in Pending
  <2>1. phase[s] = "starting" /\ p[1] \in Uploads /\ row[p[1]] # "absent"
        /\ (home[p[1]] = s => p[1] \in lapsed \/ row[p[1]] \in Pending)
    BY <1>1, <1>4 DEF Recovering
  <2> QED BY <2>1
<1>5. ASSUME NEW u \in resume[s]
      PROVE  /\ home'[u] = s /\ u \in file' /\ (u \in lapsed' \/ row'[u] \in Pending)
             /\ \A p \in todo[s] : p[1] # u
  <2>1. phase[s] = "starting" /\ u \in Uploads /\ home[u] = s /\ u \in file
        /\ (u \in lapsed \/ row[u] \in Pending) /\ \A p \in todo[s] : p[1] # u
    BY <1>1, <1>5 DEF Recovering
  <2> QED BY <1>5, <2>1
<1> QED BY <1>2, <1>3, <1>4, <1>5 DEF Recovering

(* A startup's lists stay true to the rows: only it works on its own       *)
(* uploads until it serves.                                                *)
LEMMA RecoveringStep ==
  ASSUME IInv, TypeOK', Steady, [Next]_vars, NEW s \in Servers PROVE Recovering(s)'
<1>0. Recovering(s) /\ Tracked /\ TypeOK
  BY DEF Steady, IInv
<1>t. /\ row \in [Uploads -> Statuses] /\ task \in [Uploads -> Tasks]
      /\ home \in [Uploads -> Servers \cup {None}] /\ phase \in [Servers -> {"down", "starting", "up"}]
      /\ todo \in [Servers -> SUBSET (Uploads \X BOOLEAN)] /\ resume \in [Servers -> SUBSET Uploads]
  BY <1>0 DEF TypeOK
<1>r. \A u \in resume[s] : u \in Uploads /\ row[u] # "absent"
  BY <1>0, <1>t DEF Recovering, Tracked
<1> USE DEF At, Goto, ledger, work, servers, quotas
<1>1. ASSUME NEW z \in Servers, NEW u \in Uploads, Create(z, u) PROVE Recovering(s)'
  <2>1. /\ row[u] = "absent" /\ phase[z] = "up" /\ UNCHANGED <<phase, todo, resume, file, lapsed>>
        /\ \A v \in Uploads \ {u} : home'[v] = home[v] /\ row'[v] = row[v]
    BY <1>1, <1>t DEF Create
  <2>2. \A p \in todo[s] : p[1] \in Uploads \ {u}
    BY <1>0, <1>t, <2>1 DEF Recovering
  <2>3. \A v \in resume[s] : v \in Uploads \ {u}
    BY <1>r, <2>1
  <2> QED BY <1>0, <2>1, <2>2, <2>3 DEF Recovering
(* A goroutine runs only while its process is up.                          *)
<1>2. ASSUME NEW u \in Uploads, phase[home[u]] = "up", row[u] # "absent" => row'[u] # "absent",
             \A v \in Uploads \ {u} : row'[v] = row[v] /\ (v \in file => v \in file'),
             UNCHANGED <<home, phase, todo, resume>>, lapsed \subseteq lapsed'
      PROVE  Recovering(s)'
  <2>1. phase[s] = "starting" => home[u] # s
    BY <1>2
  <2>2. \A v \in Uploads : row[v] # "absent" => row'[v] # "absent"
    BY <1>2
  <2> QED BY <1>0, <1>2, <1>r, <2>1, <2>2, RecoveringFrame
<1>3. ASSUME NEW u \in Uploads, Request(u) PROVE Recovering(s)'
  <2>1. /\ phase[home[u]] = "up" /\ UNCHANGED <<home, phase, todo, resume>> /\ lapsed \subseteq lapsed'
        /\ \E t \in {"quarantined", "deleted"} : row' \in {row, [row EXCEPT ![u] = t]}
        /\ \A v \in Uploads \ {u} : v \in file => v \in file'
    BY <1>3 DEF Request, Admit, Refuse, Receive, Cleanup, Reserved, Write
  <2>2. (row[u] # "absent" => row'[u] # "absent") /\ \A v \in Uploads \ {u} : row'[v] = row[v]
    BY <1>t, <2>1
  <2> QED BY <1>2, <2>1, <2>2
<1>4. ASSUME NEW u \in Uploads, Processing(u) PROVE Recovering(s)'
  <2>1. /\ phase[home[u]] = "up" /\ UNCHANGED <<home, phase, todo, resume, lapsed>>
        /\ \E t \in {"processing", "stored", "ended"} : row' \in {row, [row EXCEPT ![u] = t]}
        /\ \A v \in Uploads \ {u} : v \in file => v \in file'
    BY <1>4 DEF Processing, Advance, Conclude, GiveUp, Release, Write
  <2>2. (row[u] # "absent" => row'[u] # "absent") /\ \A v \in Uploads \ {u} : row'[v] = row[v]
    BY <1>t, <2>1
  <2> QED BY <1>2, <2>1, <2>2
<1>5. ASSUME UNCHANGED <<row, home, file, phase, todo, resume, lapsed>> PROVE Recovering(s)'
  BY <1>0, <1>5 DEF Recovering
<1>6. ASSUME NEW z \in Servers, Stop(z), UNCHANGED <<row, home, file, lapsed>> PROVE Recovering(s)'
  BY <1>0, <1>6, <1>t DEF Stop, Recovering
<1>7. ASSUME NEW z \in Servers, Load(z) PROVE Recovering(s)'
  <2>1. CASE z # s
    <3>1. phase'[s] = phase[s] /\ todo'[s] = todo[s] /\ UNCHANGED <<row, home, file, resume, lapsed>>
      BY <1>7, <1>t, <2>1 DEF Load
    <3> QED BY <1>0, <3>1 DEF Recovering
  <2>2. CASE z = s
    <3>1. /\ phase'[s] = "starting" /\ resume'[s] = {} /\ UNCHANGED <<row, home, lapsed>>
          /\ todo'[s] = {<<u, u \in sized>> : u \in {v \in Uploads : row[v] \in Pending}}
      BY <1>0, <1>7, <1>t, <2>2 DEF Load, Recovering
    <3>2. \A p \in todo'[s] : row[p[1]] \in Pending /\ p = <<p[1], p[1] \in sized>>
      BY <3>1
    <3> QED BY <3>1, <3>2 DEF Recovering, Pending
  <2> QED BY <2>1, <2>2
(* The upload a startup looks at leaves its list.                          *)
<1>8. ASSUME NEW z \in Servers, NEW u \in Uploads, NEW w \in BOOLEAN, Taken(z, u, w), Reaped(z, u),
             \A v \in Uploads \ {u} : row'[v] = row[v] /\ (v \in file => v \in file'),
             row'[u] # "absent", UNCHANGED <<home, phase, resume>>, home[u] # z => file' = file
      PROVE  Recovering(s)'
  <2>1. CASE z # s
    <3>1. todo'[s] = todo[s] /\ lapsed \subseteq lapsed'
      BY <1>8, <1>t, <2>1 DEF Taken, Reaped
    <3>2. home[u] = s => u \in lapsed' /\ file' = file
      BY <1>8, <2>1 DEF Reaped
    <3>3. \A v \in Uploads : row[v] # "absent" => row'[v] # "absent"
      BY <1>8
    <3> QED BY <1>0, <1>8, <1>r, <3>1, <3>2, <3>3, RecoveringFrame
  <2>2. CASE z = s
    <3>1. /\ todo'[s] = todo[s] \ {<<u, w>>} /\ <<u, w>> \in todo[s] /\ phase[s] = "starting"
          /\ lapsed \subseteq lapsed' /\ todo[s] \subseteq Uploads \X BOOLEAN
      BY <1>8, <1>t, <2>2 DEF Taken, Reaped
    <3>2. \A p \in todo'[s] : p \in todo[s] /\ p[1] \in Uploads \ {u}
      BY <1>0, <3>1 DEF Recovering
    <3>3. \A v \in resume[s] : v \in Uploads \ {u}
      BY <1>0, <1>r, <3>1 DEF Recovering
    <3> QED BY <1>0, <1>8, <2>2, <3>1, <3>2, <3>3 DEF Recovering
  <2> QED BY <2>1, <2>2
<1>9. ASSUME NEW z \in Servers, NEW u \in Uploads, RecoverIncomplete(z, u) \/ RecoverMissing(z, u)
      PROVE  Recovering(s)'
  <2>1. \E w \in BOOLEAN : Taken(z, u, w)
    BY <1>9 DEF RecoverIncomplete, RecoverMissing
  <2>2. /\ Reaped(z, u) /\ UNCHANGED <<home, phase, resume>> /\ (home[u] # z => file' = file)
        /\ row' = [row EXCEPT ![u] = "ended"]
        /\ \A v \in Uploads \ {u} : v \in file => v \in file'
    BY <1>9 DEF RecoverIncomplete, RecoverMissing, Write
  <2>3. row'[u] # "absent" /\ \A v \in Uploads \ {u} : row'[v] = row[v]
    BY <1>t, <2>2
  <2> QED BY <1>8, <2>1, <2>2, <2>3
<1>10. ASSUME NEW z \in Servers, NEW u \in Uploads, RecoverPending(z, u) PROVE Recovering(s)'
  <2>1. /\ UNCHANGED <<row, home, file, phase, lapsed>> /\ home[u] = z /\ u \in file /\ phase[z] = "starting"
        /\ <<u, TRUE>> \in todo[z] /\ todo' = [todo EXCEPT ![z] = @ \ {<<u, TRUE>>}]
        /\ resume' = [resume EXCEPT ![z] = @ \cup {u}]
    BY <1>10 DEF RecoverPending, Taken
  <2>2. CASE z # s
    BY <1>0, <1>t, <2>1, <2>2 DEF Recovering
  <2>3. CASE z = s
    <3>1. todo'[s] = todo[s] \ {<<u, TRUE>>} /\ resume'[s] = resume[s] \cup {u}
      BY <1>t, <2>1, <2>3
    <3>2. u \in lapsed \/ row[u] \in Pending
      BY <1>0, <2>1, <2>3 DEF Recovering
    <3>3. \A p \in todo'[s] : p[1] # u
      BY <1>0, <2>1, <2>3, <3>1 DEF Recovering
    <3> QED BY <1>0, <2>1, <2>3, <3>1, <3>2, <3>3 DEF Recovering
  <2> QED BY <2>2, <2>3
<1>11. ASSUME NEW z \in Servers, Serve(z) PROVE Recovering(s)'
  <2>1. /\ UNCHANGED <<row, home, file, todo, lapsed>> /\ todo[z] = {}
        /\ phase' = [phase EXCEPT ![z] = "up"] /\ resume' = [resume EXCEPT ![z] = {}]
    BY <1>11 DEF Serve
  <2> QED BY <1>0, <1>t, <2>1 DEF Recovering
<1>12. ASSUME NEW z \in Servers, NEW o \in Owners, NEW q \in Overrides \cup {NoOverride},
              CommitQuota(z, o, q) \/ ApplyQuota(z, o, q)
       PROVE  Recovering(s)'
  BY <1>5, <1>12 DEF CommitQuota, ApplyQuota
<1>13. ASSUME NEW z \in Servers, Crash(z) \/ FailStart(z) PROVE Recovering(s)'
  BY <1>6, <1>13 DEF Crash, FailStart
<1>14. ASSUME NEW u \in Uploads, Expire(u) PROVE Recovering(s)'
  BY <1>5, <1>14 DEF Expire
<1>15. CASE UNCHANGED vars
  BY <1>5, <1>15 DEF vars
<1> QED
  BY <1>1, <1>3, <1>4, <1>7, <1>9, <1>10, <1>11, <1>12, <1>13, <1>14, <1>15, QuotaChanges
  DEF Next, Recovery

----------------------------------------------------------------------------
(* The bounds.                                                             *)

(* What counts of one upload depends on these.                             *)
LEMMA CountsFrame ==
  ASSUME NEW w \in Uploads, w \in Counts', row'[w] = row[w], w \in file' => w \in file, lapsed \subseteq lapsed'
  PROVE  w \in Counts
BY DEF Counts, Holds

(* Nothing but an admission makes an upload count: what processes write    *)
(* later, in whatever order, is about uploads that count already or have   *)
(* lapsed.                                                                 *)
LEMMA CountsShrink ==
  ASSUME IInv, TypeOK', Steady, [Next]_vars, \A u \in Uploads : ~Admit(u)
  PROVE  Counts' \subseteq Counts
<1> SUFFICES ASSUME NEW w \in Uploads, w \in Counts' PROVE w \in Counts
  BY DEF Counts
<1>0. Working(w) /\ Tracked /\ TypeOK
  BY DEF Steady, IInv
<1>t. row \in [Uploads -> Statuses]
  BY <1>0 DEF TypeOK
<1> USE DEF At, Goto, ledger, work, servers, quotas
<1>1. ASSUME NEW s \in Servers, NEW u \in Uploads, Create(s, u) PROVE w \in Counts
  <2>1. /\ row' = [row EXCEPT ![u] = "quarantined"] /\ row[u] = "absent" /\ UNCHANGED <<file, lapsed>>
    BY <1>1 DEF Create
  <2>2. CASE w = u
    BY <1>0, <1>t, <2>1, <2>2 DEF Counts, Holds, Tracked
  <2>3. CASE w # u
    BY <1>t, <2>1, <2>3, CountsFrame
  <2> QED BY <2>2, <2>3
<1>2. ASSUME NEW u \in Uploads, Refuse(u) PROVE w \in Counts
  <2>1. /\ row' \in {row, [row EXCEPT ![u] = "deleted"]} /\ UNCHANGED file /\ lapsed \subseteq lapsed'
        /\ task[u] = "reserve"
    BY <1>2 DEF Refuse, Reserved
  <2>2. CASE w = u
    BY <1>0, <1>t, <2>1, <2>2 DEF Counts, Holds, Tracked, Early
  <2>3. CASE w # u
    BY <1>t, <2>1, <2>3, CountsFrame
  <2> QED BY <2>2, <2>3
<1>3. ASSUME NEW u \in Uploads, Receive(u) PROVE w \in Counts
  <2>1. /\ row' \in {row, [row EXCEPT ![u] = "quarantined"]} /\ UNCHANGED <<file, lapsed>>
        /\ task[u] = "receive"
    BY <1>3 DEF Receive, Write
  <2>2. CASE w = u
    BY <1>0, <1>t, <2>1, <2>2 DEF Counts, Holds, Working, Early
  <2>3. CASE w # u
    BY <1>t, <2>1, <2>3, CountsFrame
  <2> QED BY <2>2, <2>3
<1>4. ASSUME NEW u \in Uploads, Cleanup(u) PROVE w \in Counts
  <2>1. /\ row' \in {row, [row EXCEPT ![u] = "deleted"]} /\ file' = file \ {u} /\ UNCHANGED lapsed
        /\ task[u] = "cleanup"
    BY <1>4 DEF Cleanup
  <2>2. CASE w = u
    BY <1>0, <1>t, <2>1, <2>2 DEF Counts, Holds, Tracked, Early
  <2>3. CASE w # u
    BY <1>t, <2>1, <2>3, CountsFrame
  <2> QED BY <2>2, <2>3
<1>5. ASSUME NEW u \in Uploads, Processing(u) PROVE w \in Counts
  <2>1. /\ \A v \in Uploads : v # u => row'[v] = row[v]
        /\ file' \subseteq file /\ UNCHANGED lapsed
        /\ task[u] = "process" \/ (task[u] = "release" /\ row' = row)
    BY <1>5, <1>t DEF Processing, Advance, Conclude, GiveUp, Release, Write
  <2>2. CASE w = u /\ task[u] = "process"
    BY <1>0, <2>1, <2>2 DEF Counts, Holds, Working, Pending
  <2>3. CASE w # u \/ row' = row
    BY <2>1, <2>3, CountsFrame
  <2> QED BY <2>1, <2>2, <2>3
<1>6. ASSUME NEW s \in Servers, NEW u \in Uploads, RecoverIncomplete(s, u) \/ RecoverMissing(s, u)
      PROVE  w \in Counts
  <2>1. /\ row' = [row EXCEPT ![u] = "ended"] /\ file' \subseteq file /\ lapsed \subseteq lapsed'
    BY <1>6 DEF RecoverIncomplete, RecoverMissing, Write, Reaped
  <2>2. CASE w = u
    BY <1>t, <2>1, <2>2 DEF Counts, Holds
  <2>3. CASE w # u
    BY <1>t, <2>1, <2>3, CountsFrame
  <2> QED BY <2>2, <2>3
<1>7. ASSUME UNCHANGED <<row, file, lapsed>> PROVE w \in Counts
  BY <1>7, CountsFrame
<1>8. ASSUME NEW s \in Servers, Load(s) \/ Serve(s) \/ Crash(s) \/ FailStart(s) \/ \E u \in Uploads : RecoverPending(s, u)
      PROVE  w \in Counts
  BY <1>7, <1>8 DEF Load, Serve, Crash, FailStart, RecoverPending
<1>9. ASSUME NEW s \in Servers, NEW o \in Owners, NEW q \in Overrides \cup {NoOverride},
             CommitQuota(s, o, q) \/ ApplyQuota(s, o, q)
      PROVE  w \in Counts
  BY <1>7, <1>9 DEF CommitQuota, ApplyQuota
<1>10. ASSUME NEW u \in Uploads, Expire(u) PROVE w \in Counts
  BY <1>7, <1>10 DEF Expire
<1>11. CASE UNCHANGED vars
  BY <1>7, <1>11 DEF vars
<1> QED
  BY <1>1, <1>2, <1>3, <1>4, <1>5, <1>6, <1>8, <1>9, <1>10, <1>11, QuotaChanges DEF Next, Request, Recovery

(* The query of an admission sees everything that counts, and what it      *)
(* drops counts no longer unless the row goes on charging for it.          *)
LEMMA CountsAdmit ==
  ASSUME IInv, NEW u \in Uploads, Admit(u)
  PROVE  /\ Counts' \subseteq Counts \cup {u}
         /\ Counts' \subseteq {v \in Uploads : ChargedAmong(v, Live)} \cup {u}
         /\ Fits(u)
<1>1. /\ Fits(u) /\ row' = row /\ sized' = sized /\ file' = file \cup {u}
      /\ lapsed' = lapsed \cup ((reserved \cap expired) \ sized)
  BY DEF Admit, Reserved
<1>2. Tracked /\ ChargedThroughout /\ row \in [Uploads -> Statuses]
  BY DEF IInv, TypeOK
<1>3. ASSUME NEW v \in Uploads \ {u}, v \in Counts' PROVE v \in Counts /\ ChargedAmong(v, Live)
  <2>1. v \in Counts /\ v \notin (reserved \cap expired) \ sized /\ Holds(v)
    BY <1>1, <1>3 DEF Counts, Holds
  <2>2. v \in reserved \/ (v \in sized /\ row[v] \in Pending \cup {"stored"})
    BY <1>2, <2>1 DEF ChargedThroughout, Counts, Charged, ChargedAmong
  <2>3. row[v] \in Pending \cup {"stored"}
    BY <1>2, <2>1 DEF Holds, Tracked, Statuses
  <2> QED BY <2>1, <2>2, <2>3 DEF ChargedAmong, Live
<1>4. Counts' \subseteq Uploads
  BY DEF Counts
<1> QED BY <1>1, <1>3, <1>4

(* What an admission leaves in any group of uploads fits what it compared. *)
LEMMA AdmittedSize ==
  ASSUME IInv, NEW u \in Uploads, Admit(u), NEW U \in SUBSET Uploads
  PROVE  Size(Counts' \cap U) <= Charges(Live, U) + Bytes[u]
<1> DEFINE C == {v \in U : ChargedAmong(v, Live)}
<1>1. Counts' \cap U \in SUBSET (C \cup {u}) /\ C \cup {u} \in SUBSET Uploads
  BY CountsAdmit
<1> HIDE DEF C
<1>2. Size(Counts' \cap U) <= Size(C \cup {u})
  BY <1>1, SizeMonotone
<1>3. Size(C \cup {u}) <= Size(C) + Bytes[u]
  BY <1>1, SizeWithOne
<1>4. Size(Counts' \cap U) \in Nat /\ Size(C \cup {u}) \in Nat /\ Size(C) \in Nat /\ Bytes[u] \in Nat
  BY <1>1, UnitsFinite, AdmissionAssumption
<1>5. Charges(Live, U) = Size(C)
  BY DEF Charges, C
<1> QED BY <1>2, <1>3, <1>4, <1>5

LEMMA HeldCounts ==
  ASSUME NEW U \in SUBSET Uploads
  PROVE  Held(U) = Size(Counts \cap U) /\ Held(U)' = Size(Counts' \cap U)
<1>1. {u \in U : Holds(u)} \ lapsed = Counts \cap U
  BY DEF Counts
<1>2. ({u \in U : Holds(u)} \ lapsed)' = Counts' \cap U
  BY DEF Counts
<1> QED BY <1>1, <1>2 DEF Held, Size, Units

(* The record of quotas is written by the commit of a change and by        *)
(* nothing else, and what is on record stays there.                        *)
LEMMA GrantedStep ==
  ASSUME TypeOK, [Next]_vars
  PROVE  \/ UNCHANGED granted
         \/ \E s \in Servers, o \in Owners, q \in Overrides \cup {NoOverride} : CommitQuota(s, o, q)
<1>1. ASSUME NEW s \in Servers, NEW o \in Owners, NEW q \in Overrides \cup {NoOverride}, ApplyQuota(s, o, q)
      PROVE  UNCHANGED granted
  BY <1>1 DEF ApplyQuota
<1>2. ASSUME NEW u \in Uploads, Request(u) \/ Processing(u) \/ Expire(u) \/ \E s \in Servers : Create(s, u)
      PROVE  UNCHANGED granted
  BY <1>2 DEF Request, Processing, Create, Admit, Refuse, Receive, Cleanup, Advance, Conclude, GiveUp,
     Release, Expire, quotas
<1>3. ASSUME NEW s \in Servers, Crash(s) \/ Recovery(s) PROVE UNCHANGED granted
  BY <1>3 DEF Crash, Recovery, Load, FailStart, Serve, RecoverIncomplete, RecoverMissing, RecoverPending, quotas
<1>4. UNCHANGED vars => UNCHANGED granted
  BY DEF vars, quotas
<1> QED BY <1>1, <1>2, <1>3, <1>4, QuotaChanges DEF Next

LEMMA GrantedGrows ==
  ASSUME TypeOK, [Next]_vars, NEW o \in Owners PROVE granted[o] \subseteq granted'[o]
<1>1. ASSUME NEW s \in Servers, NEW z \in Owners, NEW q \in Overrides \cup {NoOverride}, CommitQuota(s, z, q)
      PROVE  granted[o] \subseteq granted'[o]
  BY <1>1 DEF CommitQuota, TypeOK
<1> QED BY <1>1, GrantedStep

LEMMA QuotaType ==
  ASSUME NEW q \in Overrides \cup {NoOverride} PROVE Quota(q) \in Nat
BY AdmissionAssumption DEF Quota, NoOverride

(* So the group of its owner fits the quota the process remembered, and    *)
(* all uploads the pool.                                                   *)
LEMMA AdmittedFits ==
  ASSUME IInv, Steady, QuotaOnRecord, NEW u \in Uploads, Admit(u)
  PROVE  /\ Size(Counts') <= Usable
         /\ \E q \in granted[OwnerOf[u]] : Size(Counts' \cap OfOwner(OwnerOf[u])) <= Quota(q)
<1> DEFINE p == OwnerOf[u]
           q == cached[home[u]][p]
<1>0. TypeOK /\ Usable \in Nat /\ p \in Owners /\ Bytes[u] \in Nat
  BY AdmissionAssumption DEF IInv
<1>1. home[u] \in Servers
  BY DEF Admit, At, Steady, Working
<1>2. q \in granted[p] /\ Quota(q) \in Nat
  BY <1>0, <1>1, QuotaType DEF QuotaOnRecord, TypeOK
<1>3. ASSUME NEW U \in SUBSET Uploads, NEW n \in Nat, Charges(Live, U) + Bytes[u] <= n
      PROVE  Size(Counts' \cap U) <= n
  <2>1. Size(Counts' \cap U) <= Charges(Live, U) + Bytes[u]
    BY AdmittedSize
  <2>2. {v \in U : ChargedAmong(v, Live)} \in SUBSET Uploads /\ Counts' \cap U \in SUBSET Uploads
    OBVIOUS
  <2>3. Charges(Live, U) \in Nat /\ Size(Counts' \cap U) \in Nat
    BY <2>2, UnitsFinite DEF Charges
  <2> QED BY <1>0, <1>3, <2>1, <2>3
<1>4. Charges(Live, OfOwner(p)) + Bytes[u] <= Quota(q) /\ Charges(Live, Uploads) + Bytes[u] <= Usable
  BY CountsAdmit DEF Fits
<1>5. Counts' = Counts' \cap Uploads /\ OfOwner(p) \in SUBSET Uploads
  BY DEF Counts, OfOwner
<1> HIDE DEF p, q
<1>6. Size(Counts') <= Usable
  BY <1>0, <1>3, <1>4, <1>5
<1>7. Size(Counts' \cap OfOwner(p)) <= Quota(q)
  BY <1>2, <1>3, <1>4, <1>5
<1> QED BY <1>2, <1>6, <1>7 DEF p

LEMMA WithinStep ==
  ASSUME IInv, TypeOK', Steady, QuotaOnRecord, WithinQuota, WithinCapacity, [Next]_vars
  PROVE  WithinQuota' /\ WithinCapacity'
<1>0. TypeOK /\ Usable \in Nat /\ OwnerOf \in [Uploads -> Owners]
  BY AdmissionAssumption DEF IInv
<1>a. Counts \subseteq Uploads /\ Counts' \subseteq Uploads
  BY DEF Counts
(* A group that gained nothing stays within its bound.                     *)
<1>1. ASSUME NEW U \in SUBSET Uploads, Counts' \cap U \subseteq Counts, NEW n \in Nat, Held(U) <= n
      PROVE  Held(U)' <= n
  <2>1. Counts' \cap U \in SUBSET (Counts \cap U) /\ Counts \cap U \in SUBSET Uploads
        /\ Counts' \cap U \in SUBSET Uploads
    BY <1>1
  <2>2. Size(Counts' \cap U) <= Size(Counts \cap U)
    BY <2>1, SizeMonotone
  <2>3. Size(Counts' \cap U) \in Nat /\ Size(Counts \cap U) \in Nat
    BY <2>1, UnitsFinite
  <2> QED BY <1>1, <2>2, <2>3, HeldCounts
<1>2. ASSUME NEW o \in Owners, Counts' \cap OfOwner(o) \subseteq Counts
      PROVE  \E q \in granted'[o] : Held(OfOwner(o))' <= Quota(q)
  <2>1. PICK q \in granted[o] : Held(OfOwner(o)) <= Quota(q)
    BY DEF WithinQuota
  <2>2. Quota(q) \in Nat
    BY <1>0, QuotaType DEF TypeOK
  <2>3. OfOwner(o) \in SUBSET Uploads
    BY DEF OfOwner
  <2>4. Held(OfOwner(o))' <= Quota(q)
    BY <1>1, <1>2, <2>1, <2>2, <2>3
  <2> QED BY <1>0, <2>1, <2>4, GrantedGrows
<1>3. CASE \A u \in Uploads : ~Admit(u)
  <2>1. Counts' \subseteq Counts
    BY <1>3, CountsShrink
  <2>2. WithinQuota'
    BY <1>2, <2>1 DEF WithinQuota
  <2>3. Held(Uploads)' <= Usable
    BY <1>0, <1>1, <2>1 DEF WithinCapacity
  <2> QED BY <2>2, <2>3 DEF WithinCapacity
<1>4. ASSUME NEW u \in Uploads, Admit(u) PROVE WithinQuota' /\ WithinCapacity'
  <2> DEFINE p == OwnerOf[u]
  <2>1. Counts' \subseteq Counts \cup {u} /\ p \in Owners
    BY <1>0, <1>4, CountsAdmit
  <2>2. WithinCapacity'
    <3>1. Counts' = Counts' \cap Uploads
      BY <1>a
    <3> QED BY <1>4, <3>1, AdmittedFits, HeldCounts DEF WithinCapacity
  <2>3. ASSUME NEW o \in Owners, o # p PROVE \E q \in granted'[o] : Held(OfOwner(o))' <= Quota(q)
    <3>1. u \notin OfOwner(o)
      BY <2>3 DEF OfOwner
    <3> QED BY <1>2, <2>1, <3>1
  <2>4. \E q \in granted'[p] : Held(OfOwner(p))' <= Quota(q)
    <3>1. PICK q \in granted[p] : Size(Counts' \cap OfOwner(p)) <= Quota(q)
      BY <1>4, AdmittedFits
    <3>2. OfOwner(p) \in SUBSET Uploads
      BY DEF OfOwner
    <3>3. q \in granted'[p]
      BY <1>0, <2>1, GrantedGrows
    <3> HIDE DEF p
    <3> QED BY <3>1, <3>2, <3>3, HeldCounts
  <2> QED BY <2>2, <2>3, <2>4 DEF WithinQuota
<1> QED BY <1>3, <1>4

----------------------------------------------------------------------------
(* The refinement of CapacityPromise: an admission takes room for its      *)
(* upload, the commit of a quota offers it, everything else leaves.        *)

Limits == [o \in Owners |-> {Quota(q) : q \in granted[o]}]

LEMMA PromiseInit == Init => Promise!Init
<1> SUFFICES ASSUME Init PROVE Counts = {} /\ Limits \in [Owners -> SUBSET Nat]
  BY DEF Promise!Init, Counts, Limits
<1>1. Counts = {}
  BY DEF Init, Counts, Holds
<1>2. \A o \in Owners : granted[o] = {NoOverride}
  BY DEF Init
<1>3. Quota(NoOverride) \in Nat
  BY QuotaType
<1> QED BY <1>1, <1>2, <1>3 DEF Limits

LEMMA PromiseTake ==
  ASSUME IInv, Steady, QuotaOnRecord, NEW u \in Uploads, Admit(u)
  PROVE  Promise!Take(u)
<1> DEFINE p == OwnerOf[u]
<1>1. p \in Owners
  BY AdmissionAssumption
<1>2. Counts' \subseteq Counts \cup {u}
  BY CountsAdmit
<1>3. Size(Counts') <= Usable
  BY AdmittedFits
<1>4. PICK q \in granted[p] : Size(Counts' \cap OfOwner(p)) <= Quota(q)
  BY AdmittedFits
<1>5. Counts' \cap OfOwner(p) = {v \in Counts' : OwnerOf[v] = OwnerOf[u]}
  BY DEF OfOwner, Counts
<1>6. Quota(q) \in Limits[p]
  BY <1>1 DEF Limits
<1>7. Limits' = Limits
  BY DEF Admit, quotas, Limits
<1> QED BY <1>2, <1>3, <1>4, <1>5, <1>6, <1>7 DEF Promise!Take, Counts, Limits, Size, Units

LEMMA PromiseOffer ==
  ASSUME TypeOK, NEW s \in Servers, NEW o \in Owners, NEW q \in Overrides \cup {NoOverride},
         CommitQuota(s, o, q)
  PROVE  Promise!Offer(o)
<1>1. granted' = [granted EXCEPT ![o] = @ \cup {q}] /\ UNCHANGED <<row, file, lapsed>>
  BY DEF CommitQuota, ledger, work
<1>2. Counts' = Counts
  BY <1>1 DEF Counts, Holds
<1>3. \A p \in Owners : Limits'[p] = IF p = o THEN Limits[p] \cup {Quota(q)} ELSE Limits[p]
  BY <1>1 DEF Limits, TypeOK
<1>4. Limits' = [Limits EXCEPT ![o] = @ \cup {Quota(q)}]
  BY <1>3 DEF Limits
<1>5. Quota(q) \in Limits'[o]
  BY <1>3
<1> QED BY <1>2, <1>4, <1>5 DEF Promise!Offer, Counts, Limits

LEMMA PromiseStep ==
  ASSUME IInv, TypeOK', Steady, QuotaOnRecord, [Next]_vars
  PROVE  Promise!Next
<1>0. TypeOK
  BY DEF IInv
<1>1. CASE \E u \in Uploads : Admit(u)
  BY <1>1, PromiseTake DEF Promise!Next
<1>2. CASE \E s \in Servers, o \in Owners, q \in Overrides \cup {NoOverride} : CommitQuota(s, o, q)
  BY <1>0, <1>2, PromiseOffer DEF Promise!Next
<1>3. CASE UNCHANGED granted /\ \A u \in Uploads : ~Admit(u)
  <2>1. Counts' \subseteq Counts
    BY <1>3, CountsShrink
  <2>2. Limits' = Limits
    BY <1>3 DEF Limits
  <2>3. Promise!Leave
    BY <2>1, <2>2 DEF Promise!Leave, Counts, Limits
  <2> QED BY <2>3 DEF Promise!Next
<1> QED BY <1>0, <1>1, <1>2, <1>3, GrantedStep

----------------------------------------------------------------------------
(* At first nothing counts.                                                *)
LEMMA InitWithin == Init => Steady /\ WithinQuota /\ WithinCapacity
<1> SUFFICES ASSUME Init PROVE Steady /\ WithinQuota /\ WithinCapacity
  OBVIOUS
<1>1. Steady
  BY DEF Init, Steady, Working, Recovering, Early
<1>2. Counts = {}
  BY DEF Init, Counts, Holds
<1>3. ASSUME NEW U \in SUBSET Uploads PROVE Held(U) = 0
  BY <1>2, HeldCounts, SizeOfNone
<1>4. Held(Uploads) = 0 /\ \A o \in Owners : Held(OfOwner(o)) = 0
  BY <1>3 DEF OfOwner
<1>5. Quota(NoOverride) \in Nat /\ \A o \in Owners : NoOverride \in granted[o]
  BY QuotaType DEF Init
<1>6. WithinQuota
  BY <1>4, <1>5 DEF WithinQuota
<1>7. WithinCapacity
  BY <1>4, AdmissionAssumption DEF WithinCapacity
<1> QED BY <1>1, <1>6, <1>7

LEMMA Invariance ==
  Spec => [](IInv /\ Recorded /\ QuotaOnRecord /\ Steady /\ WithinQuota /\ WithinCapacity)
<1> DEFINE Inv == IInv /\ Recorded /\ QuotaOnRecord /\ Steady /\ WithinQuota /\ WithinCapacity
<1>1. Init => Inv
  BY InitIInv, InitWithin
<1>2. Inv /\ [Next]_vars => Inv'
  <2> SUFFICES ASSUME Inv, [Next]_vars PROVE Inv'
    OBVIOUS
  <2>1. TypeOK'
    BY TypeStep DEF IInv
  <2>2. IInv'
    BY <2>1, ChargeStep DEF IInv
  <2>3. Recorded' /\ QuotaOnRecord'
    BY QuotaStep DEF IInv
  <2>4. Steady'
    BY <2>1, WorkingStep, RecoveringStep DEF IInv, Steady
  <2>5. WithinQuota' /\ WithinCapacity'
    BY <2>1, WithinStep
  <2> QED BY <2>2, <2>3, <2>4, <2>5
<1> QED BY <1>1, <1>2, PTL DEF Spec

(* Every variable keeps its shape in every behaviour of the processes.     *)
THEOREM TypeCorrect == Spec => []TypeOK
<1>1. IInv => TypeOK
  BY DEF IInv
<1> QED BY <1>1, Invariance, PTL

(* However many processes admit, fail and restart, an upload that takes    *)
(* room is charged for it, but for the two lapses the model names.         *)
THEOREM NoGapInTheCharge == Spec => []ChargedThroughout
<1>1. IInv => ChargedThroughout
  BY DEF IInv
<1> QED BY <1>1, Invariance, PTL

(* A process never admits by a quota that no committed change, or the      *)
(* default, put on record.                                                 *)
THEOREM MemoryFollowsTheRecord == Spec => []QuotaOnRecord
BY Invariance, PTL

(* However many processes admit for an owner at once, each by the quota it *)
(* remembers, the owner's charged uploads fit a quota that was on record   *)
(* (ReserveCapacity compares and inserts under its advisory locks).        *)
THEOREM OwnersWithinQuota == Spec => []WithinQuota
BY Invariance, PTL

(* The charged uploads of all owners fit the pool less its reserve, for    *)
(* any number of processes, owners and uploads (ReserveCapacity).          *)
THEOREM PoolWithinCapacity == Spec => []WithinCapacity
BY Invariance, PTL

(* Whatever processes admit, crash and restart, and whatever commits fail  *)
(* or lose their reply, together they keep what CapacityPromise says of    *)
(* one ledger: nothing but an admission makes an upload hold room, and     *)
(* each is compared with all that holds room then.                         *)
THEOREM Refinement == Spec => PromiseKept
<1> DEFINE Inv == IInv /\ Recorded /\ QuotaOnRecord /\ Steady /\ WithinQuota /\ WithinCapacity
<1>1. Inv /\ Inv' /\ [Next]_vars => Promise!Next
  BY PromiseStep DEF IInv
<1>2. Promise!Next => [Promise!Next]_<<{u \in Uploads : Holds(u)} \ lapsed, Limits>>
  OBVIOUS
<1> QED BY <1>1, <1>2, PromiseInit, Invariance, PTL DEF Spec, PromiseKept, Promise!Spec, Limits
=============================================================================
