------------------------ MODULE FileLifecycleProofs ------------------------
(***************************************************************************)
(* Proofs about FileLifecycle, for any files, recipients, keys, workers,   *)
(* grace period and horizon: type correctness, an inductive invariant that *)
(* carries every safety invariant the runs check, and the action           *)
(* properties.                                                             *)
(***************************************************************************)
EXTENDS FileLifecycle, TLAPS

----------------------------------------------------------------------------
(* What one purge attempt may do to the keys, grants and records, whether  *)
(* it succeeds, is refused, fails, or commits and loses the reply.         *)
LEMMA PurgeEffects ==
  ASSUME NEW f \in Files, NEW k \in PurgeKeys,
         PurgeSucceeds(f, k) \/ PurgeFails(f, k)
  PROVE  \/ /\ Purgeable(f) /\ DestroyKeys(f, k)
            /\ \/ cleanup' = cleanup \cup {v \in catalog[f] : dek[v] = "live"}
               \/ cleanup' = cleanup
         \/ KeepKeys /\ cleanup' = cleanup
  BY DEF PurgeSucceeds, PurgeFails

(* A purge attempt keeps the types of what it changes.                     *)
LEMMA PurgeTyped ==
  ASSUME TypeOK, NEW f \in Files, NEW k \in PurgeKeys,
         PurgeSucceeds(f, k) \/ PurgeFails(f, k)
  PROVE  /\ dek' \in [Versions -> {"absent", "live", "destroyed"}]
         /\ cleanup' \subseteq Versions /\ purged' \subseteq Files
         /\ grants' \subseteq Files \X Recipients
         /\ ops' \in [PurgeOps -> {"absent", "completed", "failed"}]
         /\ deletions' \subseteq PurgeOps
<1> USE DEF TypeOK
<1>1. CASE Purgeable(f) /\ DestroyKeys(f, k)
  <2>1. <<f, k>> \in PurgeOps
    BY DEF PurgeOps
  <2>2. cleanup' \subseteq Versions
    BY PurgeEffects DEF KeepKeys
  <2> QED BY <1>1, <2>1, <2>2 DEF DestroyKeys
<1>2. CASE KeepKeys /\ cleanup' = cleanup
  BY <1>2 DEF KeepKeys, purgeVars
<1> QED BY <1>1, <1>2, PurgeEffects

(* The state of every variable has its type, in any behaviour of the       *)
(* transactions and requests.                                              *)
THEOREM Typing == Spec => []TypeOK
<1> USE LifecycleAssumption DEF TypeOK, Instants, Null
<1>1. Init => TypeOK
  BY DEF Init, Versions, Restores, PurgeOps
<1>2. TypeOK /\ [Next]_vars => TypeOK'
  <2> SUFFICES ASSUME TypeOK, [Next]_vars PROVE TypeOK'
    OBVIOUS
  <2> USE DEF fileVars, versionVars, grantVars, purgeVars, workerVars
  <2>1. ASSUME NEW f \in Files, FileStep(f) PROVE TypeOK'
    <3>1. CASE MoveToTrash(f)
      BY <3>1 DEF MoveToTrash
    <3>2. CASE RestoreFromTrash(f)
      BY <3>2 DEF RestoreFromTrash
    <3>3. CASE SetRetention(f)
      BY <3>3 DEF SetRetention
    <3>4. CASE SetLegalHold(f)
      BY <3>4 DEF SetLegalHold
    <3>5. ASSUME NEW k \in OwnerKeys, OwnerPurges(f, k) PROVE TypeOK'
      BY <3>5, PurgeTyped DEF OwnerPurges, PurgeKeys
    <3>6. ASSUME NEW r \in Recipients, CreateGrantReads(f, r) PROVE TypeOK'
      BY <3>6 DEF CreateGrantReads
    <3> QED BY <2>1, <3>1, <3>2, <3>3, <3>4, <3>5, <3>6 DEF FileStep
  <2>2. ASSUME NEW g, CreateGrantCommits(g) \/ CreateGrantFails(g) \/ RevokeGrant(g)
        PROVE  TypeOK'
    BY <2>2 DEF CreateGrantCommits, CreateGrantFails, RevokeGrant
  <2>3. ASSUME NEW o \in Restores, RestoreStep(o) PROVE TypeOK'
    <3>1. o \in Versions /\ o[1] \in Files
      BY DEF Restores, Versions
    <3>2. CASE RestoreOpens(o)
      BY <3>2 DEF RestoreOpens
    <3>3. CASE RestoreProtects(o)
      BY <3>1, <3>3 DEF RestoreProtects
    <3>4. CASE RestoreCommits(o)
      BY <3>1, <3>4 DEF RestoreCommits
    <3>5. CASE RestoreEnds(o)
      BY <3>5 DEF RestoreEnds
    <3> QED BY <2>3, <3>2, <3>3, <3>4, <3>5 DEF RestoreStep
  <2>4. ASSUME NEW v, CleanupObject(v) PROVE TypeOK'
    BY <2>4 DEF CleanupObject
  <2>5. ASSUME NEW w \in Workers, WorkerStep(w) PROVE TypeOK'
    <3>1. CASE WorkerLists(w)
      BY <3>1 DEF WorkerLists, Due, Trashed
    <3>2. ASSUME NEW f \in Files, WorkerPurges(w, f) PROVE TypeOK'
      <4>1. PICK i \in batch[w] : i[1] = f /\ NextItem(w, i) /\ PurgeSucceeds(f, i[2])
        BY <3>2 DEF WorkerPurges
      <4>2. i[2] \in PurgeKeys
        BY <4>1 DEF PurgeKeys
      <4> QED BY <3>2, <4>1, <4>2, PurgeTyped DEF WorkerPurges, NextItem
    <3>3. ASSUME NEW f \in Files, WorkerFails(w, f) PROVE TypeOK'
      <4>1. PICK i \in batch[w] :
              /\ i[1] = f /\ NextItem(w, i) /\ PurgeFails(f, i[2])
              /\ failing' = [failing EXCEPT ![w] = {i}]
        BY <3>3 DEF WorkerFails
      <4>2. i[2] \in PurgeKeys /\ i \in Files \X Instants
        BY <4>1 DEF PurgeKeys
      <4> QED BY <3>3, <4>1, <4>2, PurgeTyped DEF WorkerFails, NextItem
    <3>4. CASE RecordDeletionFailure(w)
      BY <3>4 DEF RecordDeletionFailure
    <3>5. CASE FailureUnrecorded(w)
      BY <3>5 DEF FailureUnrecorded
    <3> QED BY <2>5, <3>1, <3>2, <3>3, <3>4, <3>5 DEF WorkerStep
  <2>6. CASE Tick
    BY <2>6 DEF Tick
  <2>7. CASE Crash
    BY <2>7 DEF Crash, Restores
  <2>8. CASE UNCHANGED vars
    BY <2>8 DEF vars
  <2> QED BY <2>1, <2>2, <2>3, <2>4, <2>5, <2>6, <2>7, <2>8 DEF Next
<1> QED BY <1>1, <1>2, PTL DEF Spec

----------------------------------------------------------------------------
(* A purge attempt, whoever makes it.                                      *)
PurgeStep(f, k) ==
  /\ \/ /\ Purgeable(f) /\ DestroyKeys(f, k)
        /\ \/ cleanup' = cleanup \cup {v \in catalog[f] : dek[v] = "live"}
           \/ cleanup' = cleanup
     \/ KeepKeys /\ cleanup' = cleanup
  /\ UNCHANGED <<now, purgeAfter, retention, held, granting, catalog, blobs, restoring>>

(* Listing, and recording or not recording a failure: of the state outside *)
(* the worker only an operation changes, and it becomes "failed".          *)
Bookkeeping ==
  /\ UNCHANGED <<now, fileVars, versionVars, grantVars, deletions, restoring>>
  /\ \A o \in PurgeOps : ops'[o] \in {ops[o], "failed"}

(* Every step is of one of these kinds: the owner's and the workers' purge *)
(* attempts need be looked at once.                                        *)
LEMMA StepKinds ==
  ASSUME TypeOK, [Next]_vars
  PROVE  \/ \E f \in Files : \/ MoveToTrash(f) \/ RestoreFromTrash(f)
                             \/ SetRetention(f) \/ SetLegalHold(f)
         \/ \E f \in Files, r \in Recipients : CreateGrantReads(f, r)
         \/ \E g \in granting : CreateGrantCommits(g) \/ CreateGrantFails(g)
         \/ \E g \in grants : RevokeGrant(g)
         \/ \E o \in Restores : RestoreStep(o)
         \/ \E f \in Files, k \in PurgeKeys : PurgeStep(f, k)
         \/ \E v \in cleanup : CleanupObject(v)
         \/ Bookkeeping \/ Tick \/ Crash
<1> USE DEF fileVars, versionVars, grantVars, purgeVars, workerVars
<1>1. ASSUME NEW f \in Files, NEW k \in OwnerKeys, OwnerPurges(f, k)
      PROVE  k \in PurgeKeys /\ PurgeStep(f, k)
  <2>1. k \in PurgeKeys
    BY DEF PurgeKeys
  <2> QED BY <1>1, <2>1, PurgeEffects DEF OwnerPurges, PurgeStep
<1>2. ASSUME NEW w \in Workers, NEW f \in Files, WorkerPurges(w, f) \/ WorkerFails(w, f)
      PROVE  \E k \in PurgeKeys : PurgeStep(f, k)
  <2>1. PICK i \in batch[w] : PurgeSucceeds(f, i[2]) \/ PurgeFails(f, i[2])
    BY <1>2 DEF WorkerPurges, WorkerFails
  <2>2. i[2] \in PurgeKeys
    BY <2>1 DEF PurgeKeys, TypeOK
  <2> QED BY <1>2, <2>1, <2>2, PurgeEffects DEF WorkerPurges, WorkerFails, PurgeStep
<1>3. ASSUME NEW w \in Workers, WorkerLists(w) \/ FailureUnrecorded(w)
      PROVE  Bookkeeping
  BY <1>3 DEF WorkerLists, FailureUnrecorded, Bookkeeping
<1>4. ASSUME NEW w \in Workers, RecordDeletionFailure(w)
      PROVE  Bookkeeping
  BY <1>4 DEF RecordDeletionFailure, Bookkeeping, TypeOK
<1>5. CASE UNCHANGED vars
  BY <1>5 DEF vars, Bookkeeping
<1> QED BY <1>1, <1>2, <1>3, <1>4, <1>5 DEF Next, FileStep, WorkerStep

----------------------------------------------------------------------------
(* The inductive invariant: what each safety invariant needs to be kept.   *)

OwnVersions == \A f \in Files : \A v \in catalog[f] : v[1] = f

(* A key that is gone went with the purge of its own, catalogued file; a   *)
(* restore about to commit has its key.                                    *)
KeyHistory ==
  /\ \A v \in Versions : dek[v] = "destroyed" => v[1] \in purged /\ v \in catalog[v[1]]
  /\ \A o \in Restores : restoring[o] = "protected" => dek[o] # "absent"

KeyInv == KeysGoWithTheFile /\ OwnVersions /\ KeyHistory

(* A grant statement in flight saw its file active in this unit of time,   *)
(* so the file's grace period has not run out.                             *)
SharingInv ==
  /\ PurgedIsSealed
  /\ \A g \in granting :
       g[1] \notin purged /\ (purgeAfter[g[1]] = Null \/ now < purgeAfter[g[1]])

(* Objects are removed only once their key is gone.                        *)
ObjectInv ==
  /\ \A v \in cleanup : dek[v] = "destroyed"
  /\ ~LostReplies => \A v \in Versions : dek[v] = "live" => v \in blobs

IInv == TypeOK /\ KeyInv /\ SharingInv /\ OneDeletionEvent /\ ObjectInv

----------------------------------------------------------------------------
(* The catalog and the keys, step by step.                                 *)
LEMMA KeysStep ==
  ASSUME TypeOK, KeyInv, [Next]_vars
  PROVE  KeyInv'
<1> USE DEF KeyInv, KeysGoWithTheFile, OwnVersions, KeyHistory
<1> USE DEF fileVars, versionVars
<1>1. ASSUME UNCHANGED <<catalog, dek, purged, restoring>> PROVE KeyInv'
  BY <1>1
<1>2. ASSUME NEW f \in Files,
             MoveToTrash(f) \/ RestoreFromTrash(f) \/ SetRetention(f) \/ SetLegalHold(f)
      PROVE  KeyInv'
  BY <1>1, <1>2 DEF MoveToTrash, RestoreFromTrash, SetRetention, SetLegalHold
<1>3. ASSUME NEW f, NEW r, CreateGrantReads(f, r) PROVE KeyInv'
  BY <1>1, <1>3 DEF CreateGrantReads
<1>4. ASSUME NEW g, CreateGrantCommits(g) \/ CreateGrantFails(g) \/ RevokeGrant(g)
      PROVE  KeyInv'
  BY <1>1, <1>4 DEF CreateGrantCommits, CreateGrantFails, RevokeGrant
<1>5. ASSUME NEW o \in Restores, RestoreStep(o) PROVE KeyInv'
  <2> USE DEF TypeOK
  <2>1. o \in Versions /\ o[1] \in Files
    BY DEF Restores, Versions
  <2>2. CASE RestoreOpens(o) \/ RestoreEnds(o)
    BY <2>2 DEF RestoreOpens, RestoreEnds
  <2>3. CASE RestoreProtects(o)
    <3>1. CASE UNCHANGED dek /\ dek[o] # "absent"
      BY <3>1, <2>3 DEF RestoreProtects
    <3>2. CASE dek[o] = "absent" /\ dek' = [dek EXCEPT ![o] = "live"]
      <4>1. \A f \in Files : o \notin catalog[f]
        BY <3>2
      <4>2. UNCHANGED <<catalog, purged>>
        BY <2>3 DEF RestoreProtects
      <4>3. \A p \in Restores : restoring'[p] = "protected" => p = o \/ restoring[p] = "protected"
        BY <2>3 DEF RestoreProtects
      <4>4. Restores \subseteq Versions
        BY DEF Restores, Versions
      <4> QED BY <3>2, <2>1, <4>1, <4>2, <4>3, <4>4
    <3> QED BY <2>3, <3>1, <3>2 DEF RestoreProtects
  <2>4. CASE RestoreCommits(o)
    <3>1. o \in catalog[o[1]] \/ (o[1] \notin purged /\ dek[o] = "live")
      BY <2>1, <2>4 DEF RestoreCommits, Active
    <3> QED BY <2>1, <2>4, <3>1 DEF RestoreCommits
  <2> QED BY <1>5, <2>2, <2>3, <2>4 DEF RestoreStep
<1>6. ASSUME NEW f \in Files, NEW k \in PurgeKeys, PurgeStep(f, k) PROVE KeyInv'
  <2>1. CASE KeepKeys
    BY <1>1, <1>6, <2>1 DEF KeepKeys, PurgeStep
  <2>2. CASE DestroyKeys(f, k)
    <3>1. \A g \in Files : catalog[g] \subseteq Versions
      BY DEF TypeOK
    <3>2. Restores \subseteq Versions
      BY DEF Restores, Versions
    <3> QED BY <1>6, <2>2, <3>1, <3>2 DEF DestroyKeys, PurgeStep
  <2> QED BY <1>6, <2>1, <2>2 DEF PurgeStep
<1>7. ASSUME NEW v, CleanupObject(v) PROVE KeyInv'
  BY <1>1, <1>7 DEF CleanupObject
<1>8. CASE Bookkeeping
  BY <1>1, <1>8 DEF Bookkeeping
<1>9. CASE Tick
  BY <1>1, <1>9 DEF Tick
<1>10. CASE Crash
  BY <1>10 DEF Crash
<1> QED BY StepKinds, <1>2, <1>3, <1>4, <1>5, <1>6, <1>7, <1>8, <1>9, <1>10

(* Grants, step by step: the clock does not run past a statement in flight.*)
LEMMA SharingStep ==
  ASSUME TypeOK, SharingInv, [Next]_vars
  PROVE  SharingInv'
<1> USE DEF SharingInv, PurgedIsSealed, Trashed
<1> USE LifecycleAssumption DEF TypeOK, Instants, Null, fileVars, versionVars, grantVars
<1>1. ASSUME UNCHANGED <<now, purgeAfter, purged, grantVars>> PROVE SharingInv'
  BY <1>1
<1>2. ASSUME NEW f \in Files, MoveToTrash(f) PROVE SharingInv'
  BY <1>2 DEF MoveToTrash
<1>3. ASSUME NEW f \in Files, RestoreFromTrash(f) PROVE SharingInv'
  BY <1>3 DEF RestoreFromTrash
<1>4. ASSUME NEW f \in Files, SetRetention(f) \/ SetLegalHold(f) PROVE SharingInv'
  BY <1>1, <1>4 DEF SetRetention, SetLegalHold
<1>5. ASSUME NEW f \in Files, NEW r \in Recipients, CreateGrantReads(f, r)
      PROVE  SharingInv'
  BY <1>5 DEF CreateGrantReads, Active
<1>6. ASSUME NEW g \in granting, CreateGrantCommits(g) \/ CreateGrantFails(g)
      PROVE  SharingInv'
  BY <1>6 DEF CreateGrantCommits, CreateGrantFails
<1>7. ASSUME NEW g, RevokeGrant(g) PROVE SharingInv'
  BY <1>7 DEF RevokeGrant
<1>8. ASSUME NEW o, RestoreStep(o) PROVE SharingInv'
  BY <1>1, <1>8
  DEF RestoreStep, RestoreOpens, RestoreProtects, RestoreCommits, RestoreEnds
<1>9. ASSUME NEW f \in Files, NEW k, PurgeStep(f, k) PROVE SharingInv'
  <2>1. CASE KeepKeys
    BY <1>1, <1>9, <2>1 DEF KeepKeys, PurgeStep
  <2>2. CASE Purgeable(f) /\ DestroyKeys(f, k)
    <3>1. \A g \in granting : g[1] # f
      BY <2>2 DEF Purgeable
    <3> QED BY <1>9, <2>2, <3>1 DEF DestroyKeys, PurgeStep, Purgeable
  <2> QED BY <1>9, <2>1, <2>2 DEF PurgeStep
<1>10. ASSUME NEW v, CleanupObject(v) PROVE SharingInv'
  BY <1>1, <1>10 DEF CleanupObject
<1>11. CASE Bookkeeping
  BY <1>1, <1>11 DEF Bookkeeping
<1>12. CASE Tick
  BY <1>12 DEF Tick, Quiet
<1>13. CASE Crash
  BY <1>13 DEF Crash
<1> QED
  BY StepKinds, <1>2, <1>3, <1>4, <1>5, <1>6, <1>7, <1>8, <1>9, <1>10, <1>11,
     <1>12, <1>13

(* Operations and deletion events, step by step.                           *)
LEMMA DeletionStep ==
  ASSUME TypeOK, OneDeletionEvent, [Next]_vars
  PROVE  OneDeletionEvent'
<1> USE DEF OneDeletionEvent, TypeOK
<1> USE DEF fileVars, purgeVars
<1>1. ASSUME UNCHANGED <<purged, ops, deletions>> PROVE OneDeletionEvent'
  BY <1>1
<1>2. ASSUME NEW f \in Files,
             MoveToTrash(f) \/ RestoreFromTrash(f) \/ SetRetention(f) \/ SetLegalHold(f)
      PROVE  OneDeletionEvent'
  BY <1>1, <1>2 DEF MoveToTrash, RestoreFromTrash, SetRetention, SetLegalHold
<1>3. ASSUME NEW f, NEW r, CreateGrantReads(f, r) PROVE OneDeletionEvent'
  BY <1>1, <1>3 DEF CreateGrantReads
<1>4. ASSUME NEW g, CreateGrantCommits(g) \/ CreateGrantFails(g) \/ RevokeGrant(g)
      PROVE  OneDeletionEvent'
  BY <1>1, <1>4 DEF CreateGrantCommits, CreateGrantFails, RevokeGrant
<1>5. ASSUME NEW o, RestoreStep(o) PROVE OneDeletionEvent'
  <2>1. UNCHANGED <<purged, ops, deletions>>
    BY <1>5 DEF RestoreStep, RestoreOpens, RestoreProtects, RestoreCommits, RestoreEnds
  <2> QED BY <1>1, <2>1
<1>6. ASSUME NEW f \in Files, NEW k \in PurgeKeys, PurgeStep(f, k) PROVE OneDeletionEvent'
  <2>1. CASE KeepKeys
    BY <1>1, <2>1 DEF KeepKeys
  <2>2. CASE Purgeable(f) /\ DestroyKeys(f, k)
    <3>1. f \notin purged /\ \A d \in deletions : d[1] # f
      BY <2>2 DEF Purgeable, PurgeOps
    <3>2. <<f, k>> \in PurgeOps
      BY DEF PurgeOps
    <3>3. purged' = purged \cup {f} /\ deletions' = deletions \cup {<<f, k>>}
      BY <2>2 DEF DestroyKeys
    <3>4. ASSUME NEW g \in Files
          PROVE  g \in purged' <=> \E j \in PurgeKeys : <<g, j>> \in deletions'
      <4>1. CASE g = f
        BY <3>3, <4>1
      <4>2. CASE g # f
        BY <3>3, <4>2
      <4> QED BY <4>1, <4>2
    <3>5. \A d, e \in deletions' : d[1] = e[1] => d = e
      BY <3>1, <3>3
    <3>6. \A o \in PurgeOps' : ops'[o] = "completed" => o \in deletions'
      BY <2>2, <3>2 DEF DestroyKeys
    <3> QED BY <3>4, <3>5, <3>6
  <2> QED BY <1>6, <2>1, <2>2 DEF PurgeStep
<1>7. ASSUME NEW v, CleanupObject(v) PROVE OneDeletionEvent'
  BY <1>1, <1>7 DEF CleanupObject
<1>8. CASE Bookkeeping
  BY <1>8 DEF Bookkeeping
<1>9. CASE Tick
  BY <1>1, <1>9 DEF Tick
<1>10. CASE Crash
  BY <1>1, <1>10 DEF Crash
<1> QED BY StepKinds, <1>2, <1>3, <1>4, <1>5, <1>6, <1>7, <1>8, <1>9, <1>10

(* Ciphertext objects, step by step: the order in which the code creates   *)
(* and removes objects and keys.                                           *)
LEMMA ObjectStep ==
  ASSUME TypeOK, KeyInv, ObjectInv, [Next]_vars
  PROVE  ObjectInv'
<1> USE DEF ObjectInv, TypeOK, fileVars, versionVars
<1>1. ASSUME UNCHANGED <<dek, blobs, cleanup>> PROVE ObjectInv'
  BY <1>1
<1>2. ASSUME NEW f \in Files,
             MoveToTrash(f) \/ RestoreFromTrash(f) \/ SetRetention(f) \/ SetLegalHold(f)
      PROVE  ObjectInv'
  BY <1>1, <1>2 DEF MoveToTrash, RestoreFromTrash, SetRetention, SetLegalHold
<1>3. ASSUME NEW f, NEW r, CreateGrantReads(f, r) PROVE ObjectInv'
  BY <1>1, <1>3 DEF CreateGrantReads
<1>4. ASSUME NEW g, CreateGrantCommits(g) \/ CreateGrantFails(g) \/ RevokeGrant(g)
      PROVE  ObjectInv'
  BY <1>1, <1>4 DEF CreateGrantCommits, CreateGrantFails, RevokeGrant
<1>5. ASSUME NEW o \in Restores, RestoreStep(o) PROVE ObjectInv'
  <2>1. CASE RestoreOpens(o) \/ RestoreCommits(o) \/ RestoreEnds(o)
    BY <1>1, <2>1 DEF RestoreOpens, RestoreCommits, RestoreEnds
  <2>2. CASE RestoreProtects(o)
    BY <2>2 DEF RestoreProtects
  <2> QED BY <1>5, <2>1, <2>2 DEF RestoreStep
<1>6. ASSUME NEW f \in Files, NEW k, PurgeStep(f, k) PROVE ObjectInv'
  <2>1. CASE KeepKeys /\ cleanup' = cleanup
    BY <1>1, <1>6, <2>1 DEF KeepKeys, PurgeStep
  <2>2. CASE DestroyKeys(f, k)
    BY <1>6, <2>2 DEF DestroyKeys, PurgeStep
  <2> QED BY <1>6, <2>1, <2>2 DEF PurgeStep
<1>7. ASSUME NEW v \in cleanup, CleanupObject(v) PROVE ObjectInv'
  BY <1>7 DEF CleanupObject
<1>8. CASE Bookkeeping
  BY <1>1, <1>8 DEF Bookkeeping
<1>9. CASE Tick
  BY <1>1, <1>9 DEF Tick
<1>10. CASE Crash
  BY <1>10 DEF Crash
<1> QED BY StepKinds, <1>2, <1>3, <1>4, <1>5, <1>6, <1>7, <1>8, <1>9, <1>10

(* The inductive invariant holds throughout.                               *)
THEOREM Invariance == Spec => []IInv
<1>1. TypeOK /\ Init => IInv
  <2> SUFFICES ASSUME TypeOK, Init PROVE IInv
    OBVIOUS
  <2>1. KeyInv
    BY LifecycleAssumption
    DEF Init, KeyInv, KeysGoWithTheFile, OwnVersions, KeyHistory, Versions, Restores
  <2>2. SharingInv
    BY DEF Init, SharingInv, PurgedIsSealed
  <2>3. OneDeletionEvent
    BY DEF Init, OneDeletionEvent
  <2>4. ObjectInv
    BY DEF Init, ObjectInv, Versions
  <2> QED BY <2>1, <2>2, <2>3, <2>4 DEF IInv
<1>2. TypeOK /\ TypeOK' /\ IInv /\ [Next]_vars => IInv'
  BY KeysStep, SharingStep, DeletionStep, ObjectStep DEF IInv
<1> QED BY <1>1, <1>2, Typing, PTL DEF Spec

(* Deletion is all or nothing over the catalog.                            *)
THEOREM AllOrNothing == Spec => []KeysGoWithTheFile
<1>1. IInv => KeysGoWithTheFile
  BY DEF IInv, KeyInv
<1> QED BY <1>1, Invariance, PTL

(* A purged file is shared with nobody, although a grant can slip in after *)
(* the move to Trash.                                                      *)
THEOREM Sealed == Spec => []PurgedIsSealed
<1>1. IInv => PurgedIsSealed
  BY DEF IInv, SharingInv
<1> QED BY <1>1, Invariance, PTL

(* One deletion event per purged file, and every completed operation has   *)
(* its event.                                                              *)
THEOREM Evidence == Spec => []OneDeletionEvent
<1>1. IInv => OneDeletionEvent
  BY DEF IInv
<1> QED BY <1>1, Invariance, PTL

(* As long as no commit's reply is lost, every file not yet purged can be  *)
(* opened in each of its versions.                                         *)
THEOREM Openable == ASSUME ~LostReplies PROVE Spec => []CatalogReadable
<1>1. IInv => CatalogReadable
  BY DEF IInv, TypeOK, KeyInv, KeysGoWithTheFile, ObjectInv, CatalogReadable
<1> QED BY <1>1, Invariance, PTL

----------------------------------------------------------------------------
(* Action properties.                                                      *)

(* Keys are destroyed only with every gate open at that instant, whatever  *)
(* the worker read when it listed the file.                                *)
THEOREM GatesTheorem == Spec => GatesHold
<1> DEFINE Gate == \A f \in purged' \ purged :
                     /\ purgeAfter[f] # Null /\ purgeAfter[f] <= now
                     /\ f \notin held /\ retention[f] <= now
<1>1. TypeOK /\ [Next]_vars => [Gate]_vars
  <2> SUFFICES ASSUME TypeOK, [Next]_vars PROVE Gate
    OBVIOUS
  <2>1. CASE purged' = purged
    BY <2>1
  <2>2. ASSUME NEW f \in Files, NEW k \in PurgeKeys, PurgeStep(f, k) PROVE Gate
    <3>1. CASE purged' = purged
      BY <3>1
    <3>2. CASE Purgeable(f) /\ DestroyKeys(f, k)
      <4>1. now \in Int /\ retention[f] \in Int
        BY LifecycleAssumption DEF TypeOK, Null
      <4> QED BY <3>2, <4>1 DEF Purgeable, DestroyKeys, Trashed, Blocked
    <3> QED BY <2>2, <3>1, <3>2 DEF PurgeStep, KeepKeys
  <2> QED
    BY StepKinds, <2>1, <2>2
    DEF MoveToTrash, RestoreFromTrash, SetRetention, SetLegalHold, CreateGrantReads,
        CreateGrantCommits, CreateGrantFails, RevokeGrant, RestoreStep, RestoreOpens,
        RestoreProtects, RestoreCommits, RestoreEnds, CleanupObject, Bookkeeping,
        Tick, Crash, fileVars
<1> QED BY <1>1, Typing, PTL DEF Spec, GatesHold

(* A running retention is not shortened and keeps the file out of Trash    *)
(* and its keys alive.                                                     *)
THEOREM RetentionTheorem == Spec => RetentionHonoured
<1> DEFINE Kept == \A f \in Files : now < retention[f] =>
                     /\ retention'[f] >= retention[f]
                     /\ f \in purged' => f \in purged
                     /\ purgeAfter'[f] # Null => purgeAfter[f] # Null
<1>1. TypeOK /\ [Next]_vars => [Kept]_vars
  <2> SUFFICES ASSUME TypeOK, [Next]_vars PROVE Kept
    OBVIOUS
  <2>0. now \in Int /\ \A f \in Files : retention[f] \in Int
    BY LifecycleAssumption DEF TypeOK, Null
  <2> USE DEF fileVars
  <2>1. CASE UNCHANGED <<retention, purged, purgeAfter>>
    BY <2>0, <2>1
  <2>2. ASSUME NEW f \in Files, MoveToTrash(f) \/ RestoreFromTrash(f) PROVE Kept
    BY <2>0, <2>2 DEF MoveToTrash, RestoreFromTrash, Blocked, TypeOK
  <2>3. ASSUME NEW f \in Files, SetRetention(f) \/ SetLegalHold(f) PROVE Kept
    BY <2>0, <2>3 DEF SetRetention, SetLegalHold, TypeOK
  <2>4. ASSUME NEW f \in Files, NEW k \in PurgeKeys, PurgeStep(f, k) PROVE Kept
    <3>1. CASE purged' = purged
      BY <2>0, <2>4, <3>1 DEF PurgeStep
    <3>2. CASE Purgeable(f) /\ DestroyKeys(f, k)
      BY <2>0, <2>4, <3>2 DEF Purgeable, DestroyKeys, Blocked, PurgeStep
    <3> QED BY <2>4, <3>1, <3>2 DEF PurgeStep, KeepKeys
  <2> QED
    BY StepKinds, <2>1, <2>2, <2>3, <2>4
    DEF CreateGrantReads, CreateGrantCommits, CreateGrantFails, RevokeGrant,
        RestoreStep, RestoreOpens, RestoreProtects, RestoreCommits, RestoreEnds,
        CleanupObject, Bookkeeping, Tick, Crash
<1> QED BY <1>1, Typing, PTL DEF Spec, RetentionHonoured

(* A purged file stays as the purge left it.                               *)
THEOREM TerminalTheorem == Spec => PurgedIsTerminal
<1> DEFINE Final == \A f \in purged :
                      /\ f \in purged' /\ catalog'[f] = catalog[f]
                      /\ \A v \in catalog[f] : dek'[v] = "destroyed"
                      /\ purgeAfter'[f] = purgeAfter[f] /\ retention'[f] = retention[f]
                      /\ f \in held' <=> f \in held
<1>1. IInv /\ IInv' /\ [Next]_vars => [Final]_vars
  <2> SUFFICES ASSUME IInv, IInv', [Next]_vars PROVE Final
    OBVIOUS
  <2> USE DEF fileVars, versionVars
  <2>1. TypeOK /\ \A f \in Files, v \in Versions :
                    f \in purged /\ v \in catalog[f] => dek[v] = "destroyed"
    BY DEF IInv, KeyInv, KeysGoWithTheFile
  <2>2. KeysGoWithTheFile' /\ purged \subseteq Files
    BY DEF IInv, KeyInv, TypeOK
  <2>3. ASSUME \A f \in purged : /\ f \in purged' /\ catalog'[f] = catalog[f]
                                 /\ purgeAfter'[f] = purgeAfter[f]
                                 /\ retention'[f] = retention[f]
                                 /\ f \in held' <=> f \in held
        PROVE  Final
    BY <2>2, <2>3 DEF KeysGoWithTheFile
  <2>4. CASE UNCHANGED <<purged, catalog, purgeAfter, retention, held>>
    BY <2>3, <2>4
  <2>5. ASSUME NEW f \in Files, MoveToTrash(f) \/ RestoreFromTrash(f) PROVE Final
    BY <2>1, <2>2, <2>3, <2>5 DEF MoveToTrash, RestoreFromTrash, TypeOK
  <2>6. ASSUME NEW f \in Files, SetRetention(f) \/ SetLegalHold(f) PROVE Final
    BY <2>1, <2>2, <2>3, <2>6 DEF SetRetention, SetLegalHold, TypeOK
  <2>7. ASSUME NEW o \in Restores, RestoreCommits(o) PROVE Final
    <3>1. o[1] \in Files
      BY DEF Restores
    <3>2. o[1] \in purged => catalog'[o[1]] = catalog[o[1]]
      BY <2>1, <2>7, <3>1 DEF RestoreCommits, Active, TypeOK
    <3> QED BY <2>1, <2>2, <2>3, <2>7, <3>1, <3>2 DEF RestoreCommits, TypeOK
  <2>8. ASSUME NEW o, RestoreOpens(o) \/ RestoreProtects(o) \/ RestoreEnds(o)
        PROVE  Final
    BY <2>4, <2>8 DEF RestoreOpens, RestoreProtects, RestoreEnds
  <2>9. ASSUME NEW f \in Files, NEW k \in PurgeKeys, PurgeStep(f, k) PROVE Final
    BY <2>3, <2>9 DEF PurgeStep, DestroyKeys, KeepKeys
  <2> QED
    BY StepKinds, <2>1, <2>4, <2>5, <2>6, <2>7, <2>8, <2>9
    DEF CreateGrantReads, CreateGrantCommits, CreateGrantFails, RevokeGrant,
        RestoreStep, CleanupObject, Bookkeeping, Tick, Crash
<1> QED BY <1>1, Invariance, PTL DEF Spec, PurgedIsTerminal

----------------------------------------------------------------------------
(* The promise to the owner, step by step.                                 *)

(* A step that leaves phases and readable keys alone can only have changed *)
(* which files a policy guards.                                            *)
LEMMA GuardStep ==
  ASSUME UNCHANGED <<purgeAfter, purged, catalog, dek>>
  PROVE  Promise!Next
BY DEF Promise!Next, Promise!Guard, Phase, Trashed, Readable

(* A purge attempt is the abstract purge of the file, or changes nothing.  *)
LEMMA PurgeRefines ==
  ASSUME IInv, NEW f \in Files, NEW k \in PurgeKeys, PurgeStep(f, k)
  PROVE  Promise!Next
<1>1. CASE KeepKeys
  BY <1>1, GuardStep DEF KeepKeys, PurgeStep
<1>2. CASE Purgeable(f) /\ DestroyKeys(f, k)
  <2> DEFINE phase == [g \in Files |-> Phase(g)]
             readable == [g \in Files |-> Readable(g)]
  <2>1. UNCHANGED <<now, purgeAfter, retention, held, catalog>>
    BY DEF PurgeStep
  <2>2. ~Blocked(f) /\ UNCHANGED {g \in Files : Blocked(g)}
    BY <1>2, <2>1 DEF Purgeable, Blocked
  <2>3. phase[f] = "trash" /\ phase' = [phase EXCEPT ![f] = "purged"]
    BY <1>2, <2>1 DEF Purgeable, DestroyKeys, Phase, Trashed
  <2>4. readable' = [readable EXCEPT ![f] = {}]
    <3>1. ASSUME NEW g \in Files PROVE readable'[g] = IF g = f THEN {} ELSE readable[g]
      <4>1. \A v \in catalog[g] : v[1] = g /\ v \in Versions
        BY DEF IInv, KeyInv, OwnVersions, TypeOK
      <4> QED BY <1>2, <2>1, <4>1 DEF DestroyKeys, Readable, IInv, KeyInv, OwnVersions
    <3> QED BY <3>1
  <2>5. Promise!Purge(f)
    BY <2>2, <2>3, <2>4 DEF Promise!Purge, Promise!Move
  <2> QED BY <2>5 DEF Promise!Next
<1> QED BY <1>1, <1>2 DEF PurgeStep

(* A step of a restore adds a readable version to an active file, or shows *)
(* nothing to the owner.                                                   *)
LEMMA RestoreRefines ==
  ASSUME IInv, NEW o \in Restores, RestoreStep(o)
  PROVE  Promise!Next \/ UNCHANGED Promise!vars
<1> DEFINE phase == [g \in Files |-> Phase(g)]
           readable == [g \in Files |-> Readable(g)]
<1>1. o \in Versions /\ o[1] \in Files
  BY DEF Restores, Versions
<1>2. TypeOK /\ KeysGoWithTheFile /\ KeyHistory
  BY DEF IInv, KeyInv
<1>3. CASE RestoreOpens(o) \/ RestoreEnds(o)
  BY <1>3, GuardStep DEF RestoreOpens, RestoreEnds, versionVars, fileVars
<1>4. CASE RestoreProtects(o)
  <2>1. UNCHANGED <<now, purgeAfter, retention, held, purged, catalog>>
    BY <1>4 DEF RestoreProtects, fileVars
  <2>2. ASSUME NEW g \in Files PROVE Readable(g)' = Readable(g)
    <3>1. CASE dek' = dek
      BY <2>1, <3>1 DEF Readable
    <3>2. CASE dek[o] = "absent" /\ dek' = [dek EXCEPT ![o] = "live"]
      <4>1. o \notin catalog[g] /\ catalog[g] \subseteq Versions
        BY <1>2, <3>2 DEF KeysGoWithTheFile, TypeOK
      <4> QED BY <2>1, <3>2, <4>1, <1>2 DEF Readable, TypeOK
    <3> QED BY <1>4, <3>1, <3>2 DEF RestoreProtects
  <2>3. readable' = readable
    BY <2>2
  <2>4. phase' = phase /\ {g \in Files : Blocked(g)}' = {g \in Files : Blocked(g)}
    BY <2>1 DEF Phase, Trashed, Blocked
  <2> QED BY <2>3, <2>4 DEF Promise!vars
<1>5. CASE RestoreCommits(o)
  <2>1. UNCHANGED <<now, purgeAfter, retention, held, purged, dek>>
    BY <1>5 DEF RestoreCommits, fileVars
  <2>2. CASE o \in catalog[o[1]]
    <3>1. catalog' = catalog
      BY <1>1, <1>2, <1>5, <2>2 DEF RestoreCommits, TypeOK
    <3> QED BY <2>1, <3>1, GuardStep
  <2>3. CASE Active(o[1])
    <3>1. dek[o] = "live"
      BY <1>1, <1>2, <1>5, <2>3 DEF RestoreCommits, KeyHistory, TypeOK, Active
    <3>2. ASSUME NEW g \in Files
          PROVE  readable'[g] = IF g = o[1] THEN readable[g] \cup {o} ELSE readable[g]
      BY <1>1, <1>2, <1>5, <2>1, <3>1 DEF RestoreCommits, Readable, TypeOK
    <3>3. readable' = [readable EXCEPT ![o[1]] = @ \cup {o}]
      BY <1>1, <3>2
    <3>4. phase[o[1]] = "active"
      BY <1>1, <2>3 DEF Active, Phase, Trashed
    <3>5. phase' = phase /\ {g \in Files : Blocked(g)}' = {g \in Files : Blocked(g)}
      BY <2>1 DEF Phase, Trashed, Blocked
    <3>6. Promise!AddVersion(o[1])
      BY <1>1, <3>3, <3>4, <3>5 DEF Promise!AddVersion
    <3> QED BY <1>1, <3>6 DEF Promise!Next
  <2> QED BY <1>5, <2>2, <2>3 DEF RestoreCommits
<1> QED BY <1>3, <1>4, <1>5 DEF RestoreStep

(* The transactions, requests and workers implement DeletionPromise.       *)
THEOREM Refinement == Spec => PromiseKept
<1>1. Init => Promise!Init
  <2> SUFFICES ASSUME Init PROVE Promise!Init
    OBVIOUS
  <2>1. [f \in Files |-> Phase(f)] = [f \in Files |-> "active"]
    BY DEF Init, Phase, Trashed
  <2>2. [f \in Files |-> Readable(f)] \in [Files -> SUBSET Versions]
    BY DEF Init, Readable, Versions
  <2>3. {f \in Files : Blocked(f)} = {}
    BY DEF Init, Blocked, Null
  <2> QED BY <2>1, <2>2, <2>3 DEF Promise!Init
<1>2. IInv /\ [Next]_vars => [Promise!Next]_(Promise!vars)
  <2> SUFFICES ASSUME IInv, [Next]_vars PROVE Promise!Next \/ UNCHANGED Promise!vars
    OBVIOUS
  <2> USE DEF fileVars, versionVars
  <2>0. TypeOK
    BY DEF IInv
  <2>1. ASSUME NEW f \in Files, MoveToTrash(f) PROVE Promise!Next
    <3>1. UNCHANGED <<now, retention, held, purged, catalog, dek>>
      BY <2>1 DEF MoveToTrash
    <3>2. Phase(f) = "active" /\ ~Blocked(f)
      BY <2>1 DEF MoveToTrash, Phase
    <3>3. now + Grace # Null
      BY <2>0, LifecycleAssumption DEF TypeOK, Null
    <3>4. \A g \in Files : Phase(g)' = IF g = f THEN "trash" ELSE Phase(g)
      BY <2>0, <2>1, <3>1, <3>3 DEF MoveToTrash, Phase, Trashed, TypeOK
    <3>5. [g \in Files |-> Phase(g)]'
            = [[g \in Files |-> Phase(g)] EXCEPT ![f] = "trash"]
      BY <3>4
    <3>6. /\ [g \in Files |-> Readable(g)]' = [g \in Files |-> Readable(g)]
          /\ {g \in Files : Blocked(g)}' = {g \in Files : Blocked(g)}
      BY <3>1 DEF Readable, Blocked
    <3>7. Promise!Trash(f)
      BY <3>2, <3>5, <3>6 DEF Promise!Trash, Promise!Move
    <3> QED BY <3>7 DEF Promise!Next
  <2>2. ASSUME NEW f \in Files, RestoreFromTrash(f) PROVE Promise!Next
    <3>1. UNCHANGED <<now, retention, held, purged, catalog, dek>>
      BY <2>2 DEF RestoreFromTrash
    <3>2. /\ Phase(f) = "trash"
          /\ [g \in Files |-> Phase(g)]'
               = [[g \in Files |-> Phase(g)] EXCEPT ![f] = "active"]
      BY <2>0, <2>2 DEF RestoreFromTrash, Phase, Trashed, TypeOK
    <3>3. /\ [g \in Files |-> Readable(g)]' = [g \in Files |-> Readable(g)]
          /\ {g \in Files : Blocked(g)}' = {g \in Files : Blocked(g)}
      BY <3>1 DEF Readable, Blocked
    <3>4. Promise!Recover(f)
      BY <3>2, <3>3 DEF Promise!Recover, Promise!Move
    <3> QED BY <3>4 DEF Promise!Next
  <2>3. CASE UNCHANGED <<purgeAfter, purged, catalog, dek>>
    BY <2>3, GuardStep
  <2> QED
    BY StepKinds, <2>0, <2>1, <2>2, <2>3, PurgeRefines, RestoreRefines
    DEF SetRetention, SetLegalHold, CreateGrantReads, CreateGrantCommits,
        CreateGrantFails, RevokeGrant, CleanupObject, Bookkeeping, Tick, Crash
<1> QED BY <1>1, <1>2, Invariance, PTL DEF Spec, PromiseKept, Promise!Spec
=============================================================================
