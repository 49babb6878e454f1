-------------------------- MODULE KeyCustodyProofs -------------------------
(***************************************************************************)
(* Theorems about KeyCustody for every number of versions, keys, batches   *)
(* and readers.  The invariant: what is being made is under the configured *)
(* version (Making); what is live is under a version that is not approved  *)
(* for retirement (Keyed); batches hold snapshots of live rows (Batched);  *)
(* until the purge every catalogued version is live and has its object,    *)
(* afterwards none is (Catalogued); requests hold what was so when they    *)
(* read it (Requested).                                                    *)
(***************************************************************************)
EXTENDS KeyCustody, FiniteSetTheorems, TLAPS

Making ==
  \A v \in Versions :
    /\ making[v] # "none" => sealed[v] # 0 /\ v \notin catalog /\ v \in blobs
    /\ making[v] = "sealed" => sealed[v] = key /\ row[v] = NoRow
    /\ making[v] = "inserted" => Live(v)
    /\ sealed[v] = 0 => row[v] = NoRow /\ v \notin catalog

Keyed ==
  /\ key \in ring /\ \A k \in approved : k < key
  /\ \A v \in Versions :
       Live(v) => row[v].dek = row[v].named /\ row[v].named \in ring \ approved

Batched == \A b \in Batches : \A i \in batch[b].items : i.got.dek # 0

Catalogued ==
  /\ phase \in {"active", "trash"} => current \in catalog
  /\ phase # "purged" => \A v \in catalog : Live(v) /\ v \in blobs
  /\ phase = "purged" => \A v \in catalog : ~Live(v)
  /\ permission = "download" => current \in shared

Good == {"fetched", "read", "opened", "served", "failed"}

RequestedBy(r) ==
  /\ req[r].late => req[r].step = "begun" /\ phase = "purged"
  /\ req[r].step # "idle" => req[r].route \in Routes
  /\ req[r].route = "upload" => Upload \in catalog
  /\ req[r].step \in Good =>
       /\ req[r].v \in catalog /\ req[r].got.dek # 0 /\ req[r].got.dek = req[r].got.named
       /\ req[r].route = "recipient" => req[r].v \in shared

Requested == \A r \in Readers : RequestedBy(r)

IInv == TypeOK /\ Making /\ Keyed /\ Batched /\ Catalogued /\ Requested /\ OpenFailsForCause

----------------------------------------------------------------------------
(* The types, in three parts.                                              *)
StateType ==
  /\ key \in Keys /\ ring \subseteq Keys /\ approved \subseteq Keys
  /\ down \in BOOLEAN /\ outages \in Nat
  /\ sealed \in [Versions -> 0 .. MaxKey] /\ row \in [Versions -> Wrapper]
  /\ blobs \subseteq Versions /\ making \in [Versions -> {"none", "sealed", "inserted"}]
  /\ catalog \subseteq Versions /\ current \in 0 .. Copies
  /\ phase \in {"none", "active", "trash", "purged"}
  /\ permission \in {"none", "read", "download"} /\ shared \subseteq 0 .. Copies

Item == [v : Versions, got : Wrapper]
BatchType == batch \in [Batches -> [stage : {"none", "unwrap", "commit"}, items : SUBSET Item]]
RequestType == req \in [Readers -> Request]


LEMMA WrapperTypes ==
  /\ \A k \in 0 .. MaxKey : Wrapped(k) \in Wrapper
  /\ \A w \in Wrapper : Destroy(w) \in Wrapper
  /\ Keys \subseteq 0 .. MaxKey
BY CustodyAssumption DEF Wrapped, Wrapper, Destroy, Keys


(* Types, one action after the other.                                      *)
LEMMA StateTypeStep == StateType /\ BatchType /\ [Next]_vars => StateType'
<1> SUFFICES ASSUME StateType, BatchType, [Next]_vars PROVE StateType'
  OBVIOUS
<1> USE CustodyAssumption DEF provider, versions, file, vars, StateType
<1>1. ASSUME NEW v \in Versions, Seal(v) PROVE StateType'
  BY <1>1 DEF Seal, Keys
<1>2. ASSUME NEW v \in Versions, InsertRow(v) PROVE StateType'
  <2>1. Wrapped(sealed[v]) \in Wrapper
    BY WrapperTypes
  <2> QED BY <1>2, <2>1 DEF InsertRow
<1>3. ASSUME NEW v \in Versions, Catalogue(v) PROVE StateType'
  <2>1. v \in 0 .. Copies
    BY DEF Versions
  <2> QED BY <1>3, <2>1 DEF Catalogue
<1>4. ASSUME NEW v \in Versions, RemoveBlob(v) PROVE StateType'
  BY <1>4 DEF RemoveBlob, Destroyed, TypeOK
<1>5. ASSUME MoveToTrash PROVE StateType'
  BY <1>5 DEF MoveToTrash, SetPhase
<1>6. ASSUME RestoreFromTrash PROVE StateType'
  BY <1>6 DEF RestoreFromTrash, SetPhase
<1>7. ASSUME Purge PROVE StateType'
  <2>1. row' \in [Versions -> Wrapper]
    BY <1>7, WrapperTypes DEF Purge
  <2> QED BY <1>7, <2>1 DEF Purge, SetPhase
<1>8. ASSUME NEW p \in {"none", "read", "download"}, SetPermission(p) PROVE StateType'
  BY <1>8 DEF SetPermission
<1>9. ASSUME Rotate PROVE StateType'
  BY <1>9 DEF Rotate, NoBatch, NoReq, Keys
<1>10. ASSUME Approve PROVE StateType'
  BY <1>10 DEF Approve, Pending
<1>11. ASSUME StartOutage \/ EndOutage PROVE StateType'
  <2>1. down' \in BOOLEAN
    BY <1>11 DEF StartOutage, EndOutage
  <2>2. outages' \in Nat
    BY <1>11 DEF StartOutage, EndOutage
  <2>3. UNCHANGED <<key, ring, approved, versions, file>>
    BY <1>11 DEF StartOutage, EndOutage
  <2> QED BY <2>1, <2>2, <2>3
<1>12. ASSUME NEW k \in Keys, Retire(k) PROVE StateType'
  BY <1>12 DEF Retire
<1>13. ASSUME NEW b \in Batches, ListCandidates(b) PROVE StateType'
  BY <1>13 DEF ListCandidates, Listed, Candidates, Pending
<1>14. ASSUME NEW b \in Batches, UnwrapItem(b) PROVE StateType'
  BY <1>14 DEF UnwrapItem, Oldest, Rest, NoBatch
<1>15. ASSUME NEW b \in Batches, CommitItem(b) PROVE StateType'
  <2>1. PICK i \in batch[b].items : row' = row \/ Rewrap(i.v, i.got)
    BY <1>15 DEF CommitItem, Oldest
  <2>2. i.v \in Versions
    BY DEF BatchType, Item
  <2>3. Wrapped(key) \in Wrapper
    BY WrapperTypes
  <2>4. row' \in [Versions -> Wrapper]
    BY <2>1, <2>2, <2>3 DEF Rewrap
  <2> QED BY <1>15, <2>4 DEF CommitItem
<1>16. ASSUME NEW b \in Batches, FailItem(b) PROVE StateType'
  <2>1. PICK i \in batch[b].items : row' = row \/ Rewrap(i.v, i.got)
    BY <1>16 DEF FailItem, Oldest
  <2>2. i.v \in Versions
    BY DEF BatchType, Item
  <2>3. Wrapped(key) \in Wrapper
    BY WrapperTypes
  <2>4. row' \in [Versions -> Wrapper]
    BY <2>1, <2>2, <2>3 DEF Rewrap
  <2> QED BY <1>16, <2>4 DEF FailItem
<1>17. ASSUME NEW r \in Readers, NEW route \in Routes, Begin(r, route) PROVE StateType'
  BY <1>17 DEF Begin, NoReq
<1>18. ASSUME NEW r \in Readers, Fetch(r) PROVE StateType'
  BY <1>18 DEF Fetch, NoReq, Found
<1>19. ASSUME NEW r \in Readers, ReadBlob(r) PROVE StateType'
  BY <1>19 DEF ReadBlob
<1>20. ASSUME NEW r \in Readers, UnwrapAndOpen(r) PROVE StateType'
  BY <1>20 DEF UnwrapAndOpen
<1>21. ASSUME NEW r \in Readers, Respond(r) PROVE StateType'
  BY <1>21 DEF Respond, NoReq
<1>22. ASSUME NEW r \in Readers, End(r) PROVE StateType'
  BY <1>22 DEF End, NoReq
<1>23. CASE UNCHANGED vars
  BY <1>23 DEF vars
<1> QED BY <1>1, <1>2, <1>3, <1>4, <1>5, <1>6, <1>7, <1>8, <1>9, <1>10, 
         <1>11, <1>12, <1>13, <1>14, <1>15, <1>16, <1>17, <1>18, <1>19, 
         <1>20, <1>21, <1>22, <1>23
     DEF Next, RewrapDEKs, Serving, DownloadUserFile, DownloadUpload, RunRecoveryDrill,
         CreateFileGrant, RevokeFileGrant, Routes

LEMMA BatchTypeStep == StateType /\ BatchType /\ [Next]_vars => BatchType'
<1> SUFFICES ASSUME StateType, BatchType, [Next]_vars PROVE BatchType'
  OBVIOUS
<1> USE CustodyAssumption DEF provider, versions, file, vars, BatchType
<1>1. ASSUME NEW v \in Versions, Seal(v) PROVE BatchType'
  BY <1>1 DEF Seal
<1>2. ASSUME NEW v \in Versions, InsertRow(v) PROVE BatchType'
  BY <1>2 DEF InsertRow, Wrapped
<1>3. ASSUME NEW v \in Versions, Catalogue(v) PROVE BatchType'
  BY <1>3 DEF Catalogue
<1>4. ASSUME NEW v \in Versions, RemoveBlob(v) PROVE BatchType'
  BY <1>4 DEF RemoveBlob, Destroyed, TypeOK
<1>5. ASSUME MoveToTrash PROVE BatchType'
  BY <1>5 DEF MoveToTrash, SetPhase
<1>6. ASSUME RestoreFromTrash PROVE BatchType'
  BY <1>6 DEF RestoreFromTrash, SetPhase
<1>7. ASSUME Purge PROVE BatchType'
  BY <1>7 DEF Purge, SetPhase, Destroy
<1>8. ASSUME NEW p \in {"none", "read", "download"}, SetPermission(p) PROVE BatchType'
  BY <1>8 DEF SetPermission
<1>9. ASSUME Rotate PROVE BatchType'
  BY <1>9 DEF Rotate, NoBatch, NoReq
<1>10. ASSUME Approve PROVE BatchType'
  BY <1>10 DEF Approve, Pending
<1>11. ASSUME StartOutage \/ EndOutage PROVE BatchType'
  BY <1>11 DEF StartOutage, EndOutage
<1>12. ASSUME NEW k \in Keys, Retire(k) PROVE BatchType'
  BY <1>12 DEF Retire
<1>13. ASSUME NEW b \in Batches, ListCandidates(b) PROVE BatchType'
  <2>1. {[v |-> v, got |-> row[v]] : v \in Listed} \subseteq Item
    <3>1. Listed \subseteq Versions
      BY DEF Listed, Candidates
    <3>2. \A v \in Versions : [v |-> v, got |-> row[v]] \in Item
      BY DEF StateType, Item
    <3> QED BY <3>1, <3>2
  <2> QED BY <1>13, <2>1 DEF ListCandidates
<1>14. ASSUME NEW b \in Batches, UnwrapItem(b) PROVE BatchType'
  BY <1>14 DEF UnwrapItem, Oldest, Rest, NoBatch
<1>15. ASSUME NEW b \in Batches, CommitItem(b) PROVE BatchType'
  BY <1>15 DEF CommitItem, Rewrap, Replaces, Oldest, Rest, NoBatch, Wrapped
<1>16. ASSUME NEW b \in Batches, FailItem(b) PROVE BatchType'
  BY <1>16 DEF FailItem, Rewrap, Replaces, Oldest, Rest, NoBatch, Wrapped
<1>17. ASSUME NEW r \in Readers, NEW route \in Routes, Begin(r, route) PROVE BatchType'
  BY <1>17 DEF Begin, NoReq
<1>18. ASSUME NEW r \in Readers, Fetch(r) PROVE BatchType'
  BY <1>18 DEF Fetch, NoReq, Found
<1>19. ASSUME NEW r \in Readers, ReadBlob(r) PROVE BatchType'
  BY <1>19 DEF ReadBlob
<1>20. ASSUME NEW r \in Readers, UnwrapAndOpen(r) PROVE BatchType'
  BY <1>20 DEF UnwrapAndOpen
<1>21. ASSUME NEW r \in Readers, Respond(r) PROVE BatchType'
  BY <1>21 DEF Respond, NoReq
<1>22. ASSUME NEW r \in Readers, End(r) PROVE BatchType'
  BY <1>22 DEF End, NoReq
<1>23. CASE UNCHANGED vars
  BY <1>23 DEF vars
<1> QED BY <1>1, <1>2, <1>3, <1>4, <1>5, <1>6, <1>7, <1>8, <1>9, <1>10, 
         <1>11, <1>12, <1>13, <1>14, <1>15, <1>16, <1>17, <1>18, <1>19, 
         <1>20, <1>21, <1>22, <1>23
     DEF Next, RewrapDEKs, Serving, DownloadUserFile, DownloadUpload, RunRecoveryDrill,
         CreateFileGrant, RevokeFileGrant, Routes

LEMMA RequestTypes ==
  /\ NoReq \in Request
  /\ \A q \in Request : \A s \in {"idle", "begun", "fetched", "read", "opened", "served", "failed"} :
       [q EXCEPT !.step = s] \in Request
  /\ \A q \in Request : \A e \in BOOLEAN : [q EXCEPT !.excused = e] \in Request
  /\ \A q \in Request : \A e \in BOOLEAN : [q EXCEPT !.late = e] \in Request
  /\ \A route \in Routes : [NoReq EXCEPT !.step = "begun", !.route = route] \in Request
<1>1. NoReq \in Request
  BY CustodyAssumption, WrapperTypes DEF NoReq, NoRow, Request
<1>2. \A q \in Request : \A s \in {"idle", "begun", "fetched", "read", "opened", "served", "failed"} :
        [q EXCEPT !.step = s] \in Request
  BY DEF Request
<1>3. \A q \in Request : \A e \in BOOLEAN :
        [q EXCEPT !.excused = e] \in Request /\ [q EXCEPT !.late = e] \in Request
  BY DEF Request
<1>4. \A q \in Request : \A route \in Routes :
        [q EXCEPT !.step = "begun", !.route = route] \in Request
  BY DEF Request
<1> QED BY <1>1, <1>2, <1>3, <1>4


LEMMA RequestTypeStep == StateType /\ Catalogued /\ Requested /\ RequestType /\ [Next]_vars => RequestType'
<1> SUFFICES ASSUME StateType, Catalogued, Requested, RequestType, [Next]_vars PROVE RequestType'
  OBVIOUS
<1> USE CustodyAssumption DEF provider, versions, file, vars, RequestType
<1>1. ASSUME NEW v \in Versions, Seal(v) PROVE RequestType'
  BY <1>1 DEF Seal
<1>2. ASSUME NEW v \in Versions, InsertRow(v) PROVE RequestType'
  BY <1>2 DEF InsertRow, Wrapped
<1>3. ASSUME NEW v \in Versions, Catalogue(v) PROVE RequestType'
  BY <1>3 DEF Catalogue
<1>4. ASSUME NEW v \in Versions, RemoveBlob(v) PROVE RequestType'
  BY <1>4 DEF RemoveBlob, Destroyed, TypeOK
<1>5. ASSUME MoveToTrash PROVE RequestType'
  BY <1>5 DEF MoveToTrash, SetPhase
<1>6. ASSUME RestoreFromTrash PROVE RequestType'
  BY <1>6 DEF RestoreFromTrash, SetPhase
<1>7. ASSUME Purge PROVE RequestType'
  BY <1>7 DEF Purge, SetPhase, Destroy
<1>8. ASSUME NEW p \in {"none", "read", "download"}, SetPermission(p) PROVE RequestType'
  BY <1>8 DEF SetPermission
<1>9. ASSUME Rotate PROVE RequestType'
  <2>1. NoReq \in Request
    BY RequestTypes
  <2> QED BY <1>9, <2>1 DEF Rotate
<1>10. ASSUME Approve PROVE RequestType'
  BY <1>10 DEF Approve, Pending
<1>11. ASSUME StartOutage \/ EndOutage PROVE RequestType'
  BY <1>11 DEF StartOutage, EndOutage
<1>12. ASSUME NEW k \in Keys, Retire(k) PROVE RequestType'
  BY <1>12 DEF Retire
<1>13. ASSUME NEW b \in Batches, ListCandidates(b) PROVE RequestType'
  BY <1>13 DEF ListCandidates, Listed, Candidates, Pending
<1>14. ASSUME NEW b \in Batches, UnwrapItem(b) PROVE RequestType'
  BY <1>14 DEF UnwrapItem, Oldest, Rest, NoBatch
<1>15. ASSUME NEW b \in Batches, CommitItem(b) PROVE RequestType'
  BY <1>15 DEF CommitItem, Rewrap, Replaces, Oldest, Rest, NoBatch, Wrapped
<1>16. ASSUME NEW b \in Batches, FailItem(b) PROVE RequestType'
  BY <1>16 DEF FailItem, Rewrap, Replaces, Oldest, Rest, NoBatch, Wrapped
<1>17. ASSUME NEW r \in Readers, NEW route \in Routes, Begin(r, route) PROVE RequestType'
  <2> DEFINE q == [NoReq EXCEPT !.step = "begun", !.route = route]
  <2>1. q \in Request
    BY RequestTypes
  <2>2. [q EXCEPT !.late = (phase = "purged")] \in Request
    <3>1. (phase = "purged") \in BOOLEAN
      OBVIOUS
    <3> QED BY <2>1, <3>1, RequestTypes
  <2> QED BY <1>17, <2>2 DEF Begin
<1>18. ASSUME NEW r \in Readers, Fetch(r) PROVE RequestType'
  <2> DEFINE v == IF req[r].route = "upload" THEN Upload ELSE current
         q == [req[r] EXCEPT !.step = "fetched", !.v = v, !.got = row[v]]
  <2>1. CASE Found(req[r].route)
    <3>1. req[r].route \in Routes
      BY <1>18 DEF Requested, RequestedBy, Fetch, At
    <3>2. v \in Versions
      <4>1. CASE req[r].route = "upload"
        BY <4>1 DEF Upload, Versions
      <4>2. CASE req[r].route # "upload"
        BY <2>1, <3>1, <4>2 DEF Found, StateType, Catalogued, Routes
      <4> QED BY <4>1, <4>2
    <3>3. v \in 0 .. Copies /\ row[v] \in Wrapper
      BY <3>2 DEF StateType, Versions
    <3>4. q \in Request
      BY <3>3 DEF Request
    <3> QED BY <1>18, <2>1, <3>4 DEF Fetch
  <2>2. CASE ~Found(req[r].route)
    BY <1>18, <2>2, RequestTypes DEF Fetch
  <2> QED BY <2>1, <2>2
<1>19. ASSUME NEW r \in Readers, ReadBlob(r) PROVE RequestType'
  <2> DEFINE s == IF req[r].v \in blobs THEN "read" ELSE "failed"
  <2>1. [req[r] EXCEPT !.step = s] \in Request
    BY RequestTypes
  <2> QED BY <1>19, <2>1 DEF ReadBlob
<1>20. ASSUME NEW r \in Readers, UnwrapAndOpen(r) PROVE RequestType'
  <2> DEFINE s == IF Unwraps(req[r].got) THEN "opened" ELSE "failed"
  <2>1. [req[r] EXCEPT !.step = s] \in Request
    BY RequestTypes
  <2>2. [[req[r] EXCEPT !.step = s] EXCEPT !.excused = down] \in Request
    BY <2>1, RequestTypes DEF StateType
  <2> QED BY <1>20, <2>2 DEF UnwrapAndOpen
<1>21. ASSUME NEW r \in Readers, Respond(r) PROVE RequestType'
  <2>1. [req[r] EXCEPT !.step = "served"] \in Request /\ NoReq \in Request
    BY RequestTypes
  <2> QED BY <1>21, <2>1 DEF Respond
<1>22. ASSUME NEW r \in Readers, End(r) PROVE RequestType'
  BY <1>22, RequestTypes DEF End
<1>23. CASE UNCHANGED vars
  BY <1>23 DEF vars
<1> QED BY <1>1, <1>2, <1>3, <1>4, <1>5, <1>6, <1>7, <1>8, <1>9, <1>10, 
         <1>11, <1>12, <1>13, <1>14, <1>15, <1>16, <1>17, <1>18, <1>19, 
         <1>20, <1>21, <1>22, <1>23
     DEF Next, RewrapDEKs, Serving, DownloadUserFile, DownloadUpload, RunRecoveryDrill,
         CreateFileGrant, RevokeFileGrant, Routes

LEMMA Typed == TypeOK <=> StateType /\ BatchType /\ RequestType
BY DEF TypeOK, StateType, BatchType, RequestType, Item

LEMMA TypeStep == TypeOK /\ Catalogued /\ Requested /\ [Next]_vars => TypeOK'
<1>1. (StateType /\ BatchType /\ RequestType)' => TypeOK'
  BY DEF TypeOK, StateType, BatchType, RequestType, Item
<1> QED BY <1>1, Typed, StateTypeStep, BatchTypeStep, RequestTypeStep

LEMMA InitIInv == Init => IInv
<1> SUFFICES ASSUME Init PROVE IInv
  OBVIOUS
<1> USE CustodyAssumption DEF Init, NoRow, Wrapped, NoBatch
<1>1. StateType
  <2>1. 1 \in Keys /\ 0 \in 0 .. MaxKey /\ 0 \in 0 .. Copies
    BY DEF Keys
  <2>2. NoRow \in Wrapper
    BY <2>1, WrapperTypes
  <2> QED BY <2>1, <2>2 DEF StateType
<1>2. BatchType /\ RequestType
  BY RequestTypes DEF BatchType, RequestType
<1>3. TypeOK
  BY <1>1, <1>2, Typed
<1>4. Making /\ Keyed /\ Batched /\ Catalogued
  BY DEF Making, Keyed, Batched, Catalogued, Live, Keys
<1>5. Requested /\ OpenFailsForCause
  BY DEF Requested, RequestedBy, OpenFailsForCause, Good, At, NoReq
<1> QED BY <1>3, <1>4, <1>5 DEF IInv

(* What a batch does to the rows: a live one is wrapped anew, or nothing.  *)
LEMMA ItemEffects ==
  ASSUME TypeOK, Batched, NEW b \in Batches, CommitItem(b) \/ FailItem(b)
  PROVE  /\ \A v \in Versions : row'[v] = row[v] \/ (Live(v) /\ row'[v] = Wrapped(key))
         /\ \A v \in Versions : Live(v)' <=> Live(v)
         /\ UNCHANGED <<provider, sealed, blobs, making, file, req>>
<1>1. PICK i \in batch[b].items : row' = row \/ Rewrap(i.v, i.got)
  BY DEF CommitItem, FailItem, Oldest
<1>2. i.v \in Versions /\ i.got.dek # 0
  BY DEF TypeOK, Batched
<1>3. row \in [Versions -> Wrapper]
  BY DEF TypeOK
<1>4. ASSUME NEW v \in Versions PROVE row'[v] = row[v] \/ (Live(v) /\ row'[v] = Wrapped(key))
  BY <1>1, <1>2, <1>3 DEF Rewrap, Replaces, Live
<1>5. Wrapped(key).dek # 0
  BY DEF Wrapped, TypeOK, Keys
<1>6. ASSUME NEW v \in Versions PROVE Live(v)' <=> Live(v)
  BY <1>4, <1>5 DEF Live
<1> QED BY <1>4, <1>6 DEF CommitItem, FailItem

LEMMA MakingStep == TypeOK /\ Making /\ Batched /\ Catalogued /\ [Next]_vars => Making'
<1> SUFFICES ASSUME TypeOK, Making, Batched, Catalogued, [Next]_vars PROVE Making'
  OBVIOUS
<1> USE CustodyAssumption DEF provider, versions, file, vars, Making, Live, NoRow, Wrapped, Versions, Upload
<1>1. ASSUME NEW v \in Versions, Seal(v) PROVE Making'
  BY <1>1 DEF Seal, TypeOK, Keys
<1>2. ASSUME NEW v \in Versions, InsertRow(v) PROVE Making'
  BY <1>2 DEF InsertRow, Wrapped, TypeOK, Keys
<1>3. ASSUME NEW v \in Versions, Catalogue(v) PROVE Making'
  BY <1>3 DEF Catalogue, TypeOK
<1>4. ASSUME NEW v \in Versions, RemoveBlob(v) PROVE Making'
  BY <1>4 DEF RemoveBlob, Destroyed, TypeOK
<1>5. ASSUME MoveToTrash PROVE Making'
  BY <1>5 DEF MoveToTrash, SetPhase
<1>6. ASSUME RestoreFromTrash PROVE Making'
  BY <1>6 DEF RestoreFromTrash, SetPhase
<1>7. ASSUME Purge PROVE Making'
  BY <1>7 DEF Purge, SetPhase, Destroy, TypeOK, Wrapper
<1>8. ASSUME NEW p \in {"none", "read", "download"}, SetPermission(p) PROVE Making'
  BY <1>8 DEF SetPermission
<1>9. ASSUME Rotate PROVE Making'
  BY <1>9 DEF Rotate, NoBatch, NoReq
<1>10. ASSUME Approve PROVE Making'
  BY <1>10 DEF Approve, Pending
<1>11. ASSUME StartOutage \/ EndOutage PROVE Making'
  BY <1>11 DEF StartOutage, EndOutage
<1>12. ASSUME NEW k \in Keys, Retire(k) PROVE Making'
  BY <1>12 DEF Retire
<1>13. ASSUME NEW b \in Batches, ListCandidates(b) PROVE Making'
  BY <1>13 DEF ListCandidates, Listed, Candidates, Pending
<1>14. ASSUME NEW b \in Batches, UnwrapItem(b) PROVE Making'
  BY <1>14 DEF UnwrapItem, Oldest, Rest, NoBatch
<1>15. ASSUME NEW b \in Batches, CommitItem(b) PROVE Making'
  <2>1. /\ \A v \in Versions : row'[v] = row[v] \/ (Live(v) /\ row'[v] = Wrapped(key))
        /\ UNCHANGED <<provider, sealed, blobs, making, file, req>>
    BY <1>15, ItemEffects
  <2>2. key # 0
    BY DEF TypeOK, Keys
  <2> QED BY <2>1, <2>2 DEF Wrapped, TypeOK
<1>16. ASSUME NEW b \in Batches, FailItem(b) PROVE Making'
  <2>1. /\ \A v \in Versions : row'[v] = row[v] \/ (Live(v) /\ row'[v] = Wrapped(key))
        /\ UNCHANGED <<provider, sealed, blobs, making, file, req>>
    BY <1>16, ItemEffects
  <2>2. key # 0
    BY DEF TypeOK, Keys
  <2> QED BY <2>1, <2>2 DEF Wrapped, TypeOK
<1>17. ASSUME NEW r \in Readers, NEW route \in Routes, Begin(r, route) PROVE Making'
  BY <1>17 DEF Begin, NoReq
<1>18. ASSUME NEW r \in Readers, Fetch(r) PROVE Making'
  BY <1>18 DEF Fetch, NoReq, Found
<1>19. ASSUME NEW r \in Readers, ReadBlob(r) PROVE Making'
  BY <1>19 DEF ReadBlob
<1>20. ASSUME NEW r \in Readers, UnwrapAndOpen(r) PROVE Making'
  BY <1>20 DEF UnwrapAndOpen
<1>21. ASSUME NEW r \in Readers, Respond(r) PROVE Making'
  BY <1>21 DEF Respond, NoReq
<1>22. ASSUME NEW r \in Readers, End(r) PROVE Making'
  BY <1>22 DEF End, NoReq
<1>23. CASE UNCHANGED vars
  BY <1>23 DEF vars
<1> QED BY <1>1, <1>2, <1>3, <1>4, <1>5, <1>6, <1>7, <1>8, <1>9, <1>10, 
         <1>11, <1>12, <1>13, <1>14, <1>15, <1>16, <1>17, <1>18, <1>19, 
         <1>20, <1>21, <1>22, <1>23
     DEF Next, RewrapDEKs, Serving, DownloadUserFile, DownloadUpload, RunRecoveryDrill,
         CreateFileGrant, RevokeFileGrant, Routes

LEMMA KeyedStep == TypeOK /\ Making /\ Keyed /\ Batched /\ [Next]_vars => Keyed'
<1> SUFFICES ASSUME TypeOK, Making, Keyed, Batched, [Next]_vars PROVE Keyed'
  OBVIOUS
<1> USE CustodyAssumption DEF provider, versions, file, vars, Keyed, Live, Versions
<1>1. ASSUME NEW v \in Versions, Seal(v) PROVE Keyed'
  BY <1>1 DEF Seal
<1>2. ASSUME NEW v \in Versions, InsertRow(v) PROVE Keyed'
  BY <1>2 DEF InsertRow, Wrapped, TypeOK, Keys, Making
<1>3. ASSUME NEW v \in Versions, Catalogue(v) PROVE Keyed'
  BY <1>3 DEF Catalogue
<1>4. ASSUME NEW v \in Versions, RemoveBlob(v) PROVE Keyed'
  BY <1>4 DEF RemoveBlob, Destroyed, TypeOK
<1>5. ASSUME MoveToTrash PROVE Keyed'
  BY <1>5 DEF MoveToTrash, SetPhase
<1>6. ASSUME RestoreFromTrash PROVE Keyed'
  BY <1>6 DEF RestoreFromTrash, SetPhase
<1>7. ASSUME Purge PROVE Keyed'
  BY <1>7 DEF Purge, SetPhase, Destroy, TypeOK, Wrapper
<1>8. ASSUME NEW p \in {"none", "read", "download"}, SetPermission(p) PROVE Keyed'
  BY <1>8 DEF SetPermission
<1>9. ASSUME Rotate PROVE Keyed'
  BY <1>9 DEF Rotate, NoBatch, NoReq, TypeOK, Keys
<1>10. ASSUME Approve PROVE Keyed'
  BY <1>10 DEF Approve, Pending, TypeOK, Keys, Live
<1>11. ASSUME StartOutage \/ EndOutage PROVE Keyed'
  BY <1>11 DEF StartOutage, EndOutage
<1>12. ASSUME NEW k \in Keys, Retire(k) PROVE Keyed'
  BY <1>12 DEF Retire, TypeOK, Keys
<1>13. ASSUME NEW b \in Batches, ListCandidates(b) PROVE Keyed'
  BY <1>13 DEF ListCandidates, Listed, Candidates, Pending
<1>14. ASSUME NEW b \in Batches, UnwrapItem(b) PROVE Keyed'
  BY <1>14 DEF UnwrapItem, Oldest, Rest, NoBatch
<1>15. ASSUME NEW b \in Batches, CommitItem(b) PROVE Keyed'
  <2>1. /\ \A v \in Versions : row'[v] = row[v] \/ (Live(v) /\ row'[v] = Wrapped(key))
        /\ UNCHANGED <<provider, sealed, blobs, making, file, req>>
    BY <1>15, ItemEffects
  <2>2. key \notin approved
    BY DEF TypeOK, Keys
  <2>3. Wrapped(key).dek = key /\ Wrapped(key).named = key
    BY DEF Wrapped
  <2> QED BY <2>1, <2>2, <2>3
<1>16. ASSUME NEW b \in Batches, FailItem(b) PROVE Keyed'
  <2>1. /\ \A v \in Versions : row'[v] = row[v] \/ (Live(v) /\ row'[v] = Wrapped(key))
        /\ UNCHANGED <<provider, sealed, blobs, making, file, req>>
    BY <1>16, ItemEffects
  <2>2. key \notin approved
    BY DEF TypeOK, Keys
  <2>3. Wrapped(key).dek = key /\ Wrapped(key).named = key
    BY DEF Wrapped
  <2> QED BY <2>1, <2>2, <2>3
<1>17. ASSUME NEW r \in Readers, NEW route \in Routes, Begin(r, route) PROVE Keyed'
  BY <1>17 DEF Begin, NoReq
<1>18. ASSUME NEW r \in Readers, Fetch(r) PROVE Keyed'
  BY <1>18 DEF Fetch, NoReq, Found
<1>19. ASSUME NEW r \in Readers, ReadBlob(r) PROVE Keyed'
  BY <1>19 DEF ReadBlob
<1>20. ASSUME NEW r \in Readers, UnwrapAndOpen(r) PROVE Keyed'
  BY <1>20 DEF UnwrapAndOpen
<1>21. ASSUME NEW r \in Readers, Respond(r) PROVE Keyed'
  BY <1>21 DEF Respond, NoReq
<1>22. ASSUME NEW r \in Readers, End(r) PROVE Keyed'
  BY <1>22 DEF End, NoReq
<1>23. CASE UNCHANGED vars
  BY <1>23 DEF vars
<1> QED BY <1>1, <1>2, <1>3, <1>4, <1>5, <1>6, <1>7, <1>8, <1>9, <1>10, 
         <1>11, <1>12, <1>13, <1>14, <1>15, <1>16, <1>17, <1>18, <1>19, 
         <1>20, <1>21, <1>22, <1>23
     DEF Next, RewrapDEKs, Serving, DownloadUserFile, DownloadUpload, RunRecoveryDrill,
         CreateFileGrant, RevokeFileGrant, Routes

LEMMA BatchedStep == TypeOK /\ Batched /\ [Next]_vars => Batched'
<1> SUFFICES ASSUME TypeOK, Batched, [Next]_vars PROVE Batched'
  OBVIOUS
<1> USE CustodyAssumption DEF provider, versions, file, vars, Batched, TypeOK
<1>1. ASSUME NEW v \in Versions, Seal(v) PROVE Batched'
  BY <1>1 DEF Seal
<1>2. ASSUME NEW v \in Versions, InsertRow(v) PROVE Batched'
  BY <1>2 DEF InsertRow, Wrapped
<1>3. ASSUME NEW v \in Versions, Catalogue(v) PROVE Batched'
  BY <1>3 DEF Catalogue
<1>4. ASSUME NEW v \in Versions, RemoveBlob(v) PROVE Batched'
  BY <1>4 DEF RemoveBlob, Destroyed, TypeOK
<1>5. ASSUME MoveToTrash PROVE Batched'
  BY <1>5 DEF MoveToTrash, SetPhase
<1>6. ASSUME RestoreFromTrash PROVE Batched'
  BY <1>6 DEF RestoreFromTrash, SetPhase
<1>7. ASSUME Purge PROVE Batched'
  BY <1>7 DEF Purge, SetPhase, Destroy
<1>8. ASSUME NEW p \in {"none", "read", "download"}, SetPermission(p) PROVE Batched'
  BY <1>8 DEF SetPermission
<1>9. ASSUME Rotate PROVE Batched'
  BY <1>9 DEF Rotate, NoBatch, NoReq
<1>10. ASSUME Approve PROVE Batched'
  BY <1>10 DEF Approve, Pending
<1>11. ASSUME StartOutage \/ EndOutage PROVE Batched'
  BY <1>11 DEF StartOutage, EndOutage
<1>12. ASSUME NEW k \in Keys, Retire(k) PROVE Batched'
  BY <1>12 DEF Retire
<1>13. ASSUME NEW b \in Batches, ListCandidates(b) PROVE Batched'
  <2>1. \A v \in Listed : row[v].dek # 0
    BY DEF Listed, Candidates, Pending, Live
  <2> QED BY <1>13, <2>1 DEF ListCandidates
<1>14. ASSUME NEW b \in Batches, UnwrapItem(b) PROVE Batched'
  BY <1>14 DEF UnwrapItem, Oldest, Rest, NoBatch
<1>15. ASSUME NEW b \in Batches, CommitItem(b) PROVE Batched'
  BY <1>15 DEF CommitItem, Rewrap, Replaces, Oldest, Rest, NoBatch, Wrapped
<1>16. ASSUME NEW b \in Batches, FailItem(b) PROVE Batched'
  BY <1>16 DEF FailItem, Rewrap, Replaces, Oldest, Rest, NoBatch, Wrapped
<1>17. ASSUME NEW r \in Readers, NEW route \in Routes, Begin(r, route) PROVE Batched'
  BY <1>17 DEF Begin, NoReq
<1>18. ASSUME NEW r \in Readers, Fetch(r) PROVE Batched'
  BY <1>18 DEF Fetch, NoReq, Found
<1>19. ASSUME NEW r \in Readers, ReadBlob(r) PROVE Batched'
  BY <1>19 DEF ReadBlob
<1>20. ASSUME NEW r \in Readers, UnwrapAndOpen(r) PROVE Batched'
  BY <1>20 DEF UnwrapAndOpen
<1>21. ASSUME NEW r \in Readers, Respond(r) PROVE Batched'
  BY <1>21 DEF Respond, NoReq
<1>22. ASSUME NEW r \in Readers, End(r) PROVE Batched'
  BY <1>22 DEF End, NoReq
<1>23. CASE UNCHANGED vars
  BY <1>23 DEF vars
<1> QED BY <1>1, <1>2, <1>3, <1>4, <1>5, <1>6, <1>7, <1>8, <1>9, <1>10, 
         <1>11, <1>12, <1>13, <1>14, <1>15, <1>16, <1>17, <1>18, <1>19, 
         <1>20, <1>21, <1>22, <1>23
     DEF Next, RewrapDEKs, Serving, DownloadUserFile, DownloadUpload, RunRecoveryDrill,
         CreateFileGrant, RevokeFileGrant, Routes

LEMMA CataloguedStep == TypeOK /\ Making /\ Batched /\ Catalogued /\ [Next]_vars => Catalogued'
<1> SUFFICES ASSUME TypeOK, Making, Batched, Catalogued, [Next]_vars PROVE Catalogued'
  OBVIOUS
<1> USE CustodyAssumption DEF provider, versions, file, vars, Catalogued, Live
<1>1. ASSUME NEW v \in Versions, Seal(v) PROVE Catalogued'
  BY <1>1 DEF Seal, Making
<1>2. ASSUME NEW v \in Versions, InsertRow(v) PROVE Catalogued'
  BY <1>2 DEF InsertRow, Wrapped, TypeOK, Keys, Making
<1>3. ASSUME NEW v \in Versions, Catalogue(v) PROVE Catalogued'
  BY <1>3 DEF Catalogue, Making, TypeOK
<1>4. ASSUME NEW v \in Versions, RemoveBlob(v) PROVE Catalogued'
  BY <1>4 DEF RemoveBlob, Destroyed, TypeOK
<1>5. ASSUME MoveToTrash PROVE Catalogued'
  BY <1>5 DEF MoveToTrash, SetPhase
<1>6. ASSUME RestoreFromTrash PROVE Catalogued'
  BY <1>6 DEF RestoreFromTrash, SetPhase
<1>7. ASSUME Purge PROVE Catalogued'
  BY <1>7 DEF Purge, SetPhase, Destroy, TypeOK, Wrapper
<1>8. ASSUME NEW p \in {"none", "read", "download"}, SetPermission(p) PROVE Catalogued'
  BY <1>8 DEF SetPermission
<1>9. ASSUME Rotate PROVE Catalogued'
  BY <1>9 DEF Rotate, NoBatch, NoReq
<1>10. ASSUME Approve PROVE Catalogued'
  BY <1>10 DEF Approve, Pending
<1>11. ASSUME StartOutage \/ EndOutage PROVE Catalogued'
  BY <1>11 DEF StartOutage, EndOutage
<1>12. ASSUME NEW k \in Keys, Retire(k) PROVE Catalogued'
  BY <1>12 DEF Retire
<1>13. ASSUME NEW b \in Batches, ListCandidates(b) PROVE Catalogued'
  BY <1>13 DEF ListCandidates, Listed, Candidates, Pending
<1>14. ASSUME NEW b \in Batches, UnwrapItem(b) PROVE Catalogued'
  BY <1>14 DEF UnwrapItem, Oldest, Rest, NoBatch
<1>15. ASSUME NEW b \in Batches, CommitItem(b) PROVE Catalogued'
  <2> HIDE DEF Catalogued, Live
  <2>1. /\ \A v \in Versions : Live(v)' <=> Live(v)
        /\ UNCHANGED <<blobs, file>>
    BY <1>15, ItemEffects
  <2>2. catalog \subseteq Versions
    BY DEF TypeOK
  <2>3. \A v \in catalog : Live(v)' <=> Live(v)
    BY <2>1, <2>2
  <2> QED BY <2>1, <2>3 DEF Catalogued
<1>16. ASSUME NEW b \in Batches, FailItem(b) PROVE Catalogued'
  <2> HIDE DEF Catalogued, Live
  <2>1. /\ \A v \in Versions : Live(v)' <=> Live(v)
        /\ UNCHANGED <<blobs, file>>
    BY <1>16, ItemEffects
  <2>2. catalog \subseteq Versions
    BY DEF TypeOK
  <2>3. \A v \in catalog : Live(v)' <=> Live(v)
    BY <2>1, <2>2
  <2> QED BY <2>1, <2>3 DEF Catalogued
<1>17. ASSUME NEW r \in Readers, NEW route \in Routes, Begin(r, route) PROVE Catalogued'
  BY <1>17 DEF Begin, NoReq
<1>18. ASSUME NEW r \in Readers, Fetch(r) PROVE Catalogued'
  BY <1>18 DEF Fetch, NoReq, Found
<1>19. ASSUME NEW r \in Readers, ReadBlob(r) PROVE Catalogued'
  BY <1>19 DEF ReadBlob
<1>20. ASSUME NEW r \in Readers, UnwrapAndOpen(r) PROVE Catalogued'
  BY <1>20 DEF UnwrapAndOpen
<1>21. ASSUME NEW r \in Readers, Respond(r) PROVE Catalogued'
  BY <1>21 DEF Respond, NoReq
<1>22. ASSUME NEW r \in Readers, End(r) PROVE Catalogued'
  BY <1>22 DEF End, NoReq
<1>23. CASE UNCHANGED vars
  BY <1>23 DEF vars
<1> QED BY <1>1, <1>2, <1>3, <1>4, <1>5, <1>6, <1>7, <1>8, <1>9, <1>10, 
         <1>11, <1>12, <1>13, <1>14, <1>15, <1>16, <1>17, <1>18, <1>19, 
         <1>20, <1>21, <1>22, <1>23
     DEF Next, RewrapDEKs, Serving, DownloadUserFile, DownloadUpload, RunRecoveryDrill,
         CreateFileGrant, RevokeFileGrant, Routes

LEMMA RequestedStep == TypeOK /\ Keyed /\ Batched /\ Catalogued /\ Requested /\ [Next]_vars => Requested'
<1> SUFFICES ASSUME TypeOK, Keyed, Batched, Catalogued, Requested, [Next]_vars PROVE Requested'
  OBVIOUS
<1> USE CustodyAssumption DEF provider, versions, file, vars, Requested, RequestedBy, Good
<1>1. ASSUME NEW v \in Versions, Seal(v) PROVE Requested'
  BY <1>1 DEF Seal
<1>2. ASSUME NEW v \in Versions, InsertRow(v) PROVE Requested'
  BY <1>2 DEF InsertRow, Wrapped
<1>3. ASSUME NEW v \in Versions, Catalogue(v) PROVE Requested'
  BY <1>3 DEF Catalogue, TypeOK
<1>4. ASSUME NEW v \in Versions, RemoveBlob(v) PROVE Requested'
  BY <1>4 DEF RemoveBlob, Destroyed, TypeOK
<1>5. ASSUME MoveToTrash PROVE Requested'
  BY <1>5 DEF MoveToTrash, SetPhase
<1>6. ASSUME RestoreFromTrash PROVE Requested'
  BY <1>6 DEF RestoreFromTrash, SetPhase
<1>7. ASSUME Purge PROVE Requested'
  BY <1>7 DEF Purge, SetPhase, Destroy
<1>8. ASSUME NEW p \in {"none", "read", "download"}, SetPermission(p) PROVE Requested'
  BY <1>8 DEF SetPermission
<1>9. ASSUME Rotate PROVE Requested'
  BY <1>9 DEF Rotate, NoBatch, NoReq
<1>10. ASSUME Approve PROVE Requested'
  BY <1>10 DEF Approve, Pending
<1>11. ASSUME StartOutage \/ EndOutage PROVE Requested'
  BY <1>11 DEF StartOutage, EndOutage
<1>12. ASSUME NEW k \in Keys, Retire(k) PROVE Requested'
  BY <1>12 DEF Retire
<1>13. ASSUME NEW b \in Batches, ListCandidates(b) PROVE Requested'
  BY <1>13 DEF ListCandidates, Listed, Candidates, Pending
<1>14. ASSUME NEW b \in Batches, UnwrapItem(b) PROVE Requested'
  BY <1>14 DEF UnwrapItem, Oldest, Rest, NoBatch
<1>15. ASSUME NEW b \in Batches, CommitItem(b) PROVE Requested'
  <2>1. /\ \A v \in Versions : row'[v] = row[v] \/ (Live(v) /\ row'[v] = Wrapped(key))
        /\ UNCHANGED <<provider, sealed, blobs, making, file, req>>
    BY <1>15, ItemEffects
  <2> QED BY <2>1 DEF Catalogued
<1>16. ASSUME NEW b \in Batches, FailItem(b) PROVE Requested'
  <2>1. /\ \A v \in Versions : row'[v] = row[v] \/ (Live(v) /\ row'[v] = Wrapped(key))
        /\ UNCHANGED <<provider, sealed, blobs, making, file, req>>
    BY <1>16, ItemEffects
  <2> QED BY <2>1 DEF Catalogued
<1>17. ASSUME NEW r \in Readers, NEW route \in Routes, Begin(r, route) PROVE Requested'
  <2>1. route = "upload" => Upload \in catalog
    BY <1>17 DEF Begin, Authorized
  <2>2. req'[r].step = "begun" /\ req'[r].route = route /\ req'[r].late = (phase = "purged")
    BY <1>17 DEF Begin, NoReq, TypeOK
  <2>3. \A s \in Readers : s # r => req'[s] = req[s]
    BY <1>17 DEF Begin, TypeOK
  <2>4. UNCHANGED <<catalog, phase, shared>>
    BY <1>17 DEF Begin
  <2> HIDE DEF Requested
  <2>5. RequestedBy(r)'
    BY <2>1, <2>2, <2>4
  <2>6. ASSUME NEW s \in Readers, s # r PROVE RequestedBy(s)'
    <3>1. RequestedBy(s)
      BY DEF Requested
    <3> QED BY <2>3, <2>4, <2>6, <3>1
  <2> QED BY <2>5, <2>6 DEF Requested
<1>18. ASSUME NEW r \in Readers, Fetch(r) PROVE Requested'
  <2> DEFINE v == IF req[r].route = "upload" THEN Upload ELSE current
  <2>1. CASE Found(req[r].route)
    <3>1. req[r].route \in Routes /\ (req[r].route = "upload" => Upload \in catalog)
      BY <1>18 DEF Fetch, At
    <3>2. phase # "purged" /\ v \in catalog
      BY <2>1, <3>1 DEF Found, Catalogued, Live, Routes, TypeOK
    <3>3. row[v].dek # 0 /\ row[v].dek = row[v].named
      BY <3>2 DEF Catalogued, Keyed, Live, TypeOK
    <3>4. req[r].route = "recipient" => v \in shared
      BY <2>1 DEF Found, Catalogued
    <3> QED BY <1>18, <2>1, <3>1, <3>2, <3>3, <3>4 DEF Fetch, TypeOK, Request, At
  <2>2. CASE ~Found(req[r].route)
    BY <1>18, <2>2 DEF Fetch, NoReq, TypeOK, Request
  <2> QED BY <2>1, <2>2
<1>19. ASSUME NEW r \in Readers, ReadBlob(r) PROVE Requested'
  BY <1>19 DEF ReadBlob, TypeOK, At, Request
<1>20. ASSUME NEW r \in Readers, UnwrapAndOpen(r) PROVE Requested'
  BY <1>20 DEF UnwrapAndOpen, TypeOK, At, Request
<1>21. ASSUME NEW r \in Readers, Respond(r) PROVE Requested'
  BY <1>21 DEF Respond, NoReq, TypeOK, At, Request
<1>22. ASSUME NEW r \in Readers, End(r) PROVE Requested'
  BY <1>22 DEF End, NoReq, TypeOK, Request
<1>23. CASE UNCHANGED vars
  BY <1>23 DEF vars
<1> QED BY <1>1, <1>2, <1>3, <1>4, <1>5, <1>6, <1>7, <1>8, <1>9, <1>10, 
         <1>11, <1>12, <1>13, <1>14, <1>15, <1>16, <1>17, <1>18, <1>19, 
         <1>20, <1>21, <1>22, <1>23
     DEF Next, RewrapDEKs, Serving, DownloadUserFile, DownloadUpload, RunRecoveryDrill,
         CreateFileGrant, RevokeFileGrant, Routes

LEMMA FailedStep == TypeOK /\ Making /\ Keyed /\ Batched /\ Catalogued /\ Requested /\ OpenFailsForCause /\ [Next]_vars => OpenFailsForCause'
<1> SUFFICES ASSUME TypeOK, Making, Keyed, Batched, Catalogued, Requested, OpenFailsForCause, [Next]_vars PROVE OpenFailsForCause'
  OBVIOUS
<1> USE CustodyAssumption DEF provider, versions, file, vars, OpenFailsForCause, At
<1>1. ASSUME NEW v \in Versions, Seal(v) PROVE OpenFailsForCause'
  BY <1>1 DEF Seal
<1>2. ASSUME NEW v \in Versions, InsertRow(v) PROVE OpenFailsForCause'
  BY <1>2 DEF InsertRow, TypeOK, Making, Requested, RequestedBy, Good
<1>3. ASSUME NEW v \in Versions, Catalogue(v) PROVE OpenFailsForCause'
  BY <1>3 DEF Catalogue
<1>4. ASSUME NEW v \in Versions, RemoveBlob(v) PROVE OpenFailsForCause'
  BY <1>4 DEF RemoveBlob, Destroyed, TypeOK
<1>5. ASSUME MoveToTrash PROVE OpenFailsForCause'
  BY <1>5 DEF MoveToTrash, SetPhase
<1>6. ASSUME RestoreFromTrash PROVE OpenFailsForCause'
  BY <1>6 DEF RestoreFromTrash, SetPhase
<1>7. ASSUME Purge PROVE OpenFailsForCause'
  BY <1>7 DEF Purge, SetPhase, Destroy
<1>8. ASSUME NEW p \in {"none", "read", "download"}, SetPermission(p) PROVE OpenFailsForCause'
  BY <1>8 DEF SetPermission
<1>9. ASSUME Rotate PROVE OpenFailsForCause'
  BY <1>9 DEF Rotate, NoBatch, NoReq, TypeOK
<1>10. ASSUME Approve PROVE OpenFailsForCause'
  BY <1>10 DEF Approve, Pending
<1>11. ASSUME StartOutage \/ EndOutage PROVE OpenFailsForCause'
  BY <1>11 DEF StartOutage, EndOutage
<1>12. ASSUME NEW k \in Keys, Retire(k) PROVE OpenFailsForCause'
  BY <1>12 DEF Retire, TypeOK
<1>13. ASSUME NEW b \in Batches, ListCandidates(b) PROVE OpenFailsForCause'
  BY <1>13 DEF ListCandidates, Listed, Candidates, Pending
<1>14. ASSUME NEW b \in Batches, UnwrapItem(b) PROVE OpenFailsForCause'
  BY <1>14 DEF UnwrapItem, Oldest, Rest, NoBatch
<1>15. ASSUME NEW b \in Batches, CommitItem(b) PROVE OpenFailsForCause'
  <2>1. /\ \A v \in Versions : row'[v] = row[v] \/ (Live(v) /\ row'[v] = Wrapped(key))
        /\ UNCHANGED <<provider, sealed, blobs, making, file, req>>
    BY <1>15, ItemEffects
  <2>2. key \in ring /\ Wrapped(key).named = key
    BY DEF Keyed, Wrapped
  <2>3. ASSUME NEW r \in Readers, req[r].step = "failed", req[r].got.named \notin ring,
               row[req[r].v] # req[r].got
        PROVE row'[req[r].v] # req[r].got
    <3>1. req[r].v \in Versions
      BY <2>3 DEF Requested, RequestedBy, Good, TypeOK
    <3> QED BY <2>1, <2>2, <2>3, <3>1
  <2> QED BY <2>1, <2>3
<1>16. ASSUME NEW b \in Batches, FailItem(b) PROVE OpenFailsForCause'
  <2>1. /\ \A v \in Versions : row'[v] = row[v] \/ (Live(v) /\ row'[v] = Wrapped(key))
        /\ UNCHANGED <<provider, sealed, blobs, making, file, req>>
    BY <1>16, ItemEffects
  <2>2. key \in ring /\ Wrapped(key).named = key
    BY DEF Keyed, Wrapped
  <2>3. ASSUME NEW r \in Readers, req[r].step = "failed", req[r].got.named \notin ring,
               row[req[r].v] # req[r].got
        PROVE row'[req[r].v] # req[r].got
    <3>1. req[r].v \in Versions
      BY <2>3 DEF Requested, RequestedBy, Good, TypeOK
    <3> QED BY <2>1, <2>2, <2>3, <3>1
  <2> QED BY <2>1, <2>3
<1>17. ASSUME NEW r \in Readers, NEW route \in Routes, Begin(r, route) PROVE OpenFailsForCause'
  BY <1>17 DEF Begin, NoReq, TypeOK, Request
<1>18. ASSUME NEW r \in Readers, Fetch(r) PROVE OpenFailsForCause'
  <2>1. req[r] \in Request
    BY DEF TypeOK
  <2>2. req'[r].step # "failed"
    <3> DEFINE v == IF req[r].route = "upload" THEN Upload ELSE current
               fetched == [req[r] EXCEPT !.step = "fetched", !.v = v, !.got = row[v]]
    <3>1. req'[r] \in {NoReq, fetched}
      BY <1>18 DEF Fetch, TypeOK
    <3>2. fetched.step = "fetched"
      BY <2>1 DEF Request
    <3>3. NoReq.step = "idle"
      BY DEF NoReq
    <3> HIDE DEF fetched
    <3> QED BY <3>1, <3>2, <3>3
  <2>3. /\ \A s \in Readers : s # r => req'[s] = req[s]
        /\ UNCHANGED <<phase, ring, row>>
    BY <1>18 DEF Fetch, TypeOK
  <2> QED BY <2>2, <2>3
<1>19. ASSUME NEW r \in Readers, ReadBlob(r) PROVE OpenFailsForCause'
  <2>1. req[r].v \in catalog
    BY <1>19 DEF ReadBlob, At, Requested, RequestedBy, Good
  <2>2. req'[r].step = "failed" => req[r].v \notin blobs
    BY <1>19 DEF ReadBlob, TypeOK, Request
  <2>3. /\ \A s \in Readers : s # r => req'[s] = req[s]
        /\ UNCHANGED <<phase, ring, row>>
    BY <1>19 DEF ReadBlob, TypeOK
  <2>4. req'[r].step = "failed" => phase = "purged"
    BY <2>1, <2>2 DEF Catalogued
  <2> QED BY <2>3, <2>4
<1>20. ASSUME NEW r \in Readers, UnwrapAndOpen(r) PROVE OpenFailsForCause'
  <2>1. /\ req[r].v \in catalog /\ req[r].got.dek # 0 /\ req[r].got.dek = req[r].got.named
        /\ catalog \subseteq Versions
    BY <1>20 DEF UnwrapAndOpen, At, Requested, RequestedBy, Good, TypeOK
  <2>2. /\ req'[r].step \in {"opened", "failed"} /\ (req'[r].step = "failed" => ~Unwraps(req[r].got))
        /\ req'[r].v = req[r].v /\ req'[r].got = req[r].got /\ req'[r].excused = down
    BY <1>20 DEF UnwrapAndOpen, TypeOK, Request
  <2>3. /\ \A s \in Readers : s # r => req'[s] = req[s]
        /\ UNCHANGED <<phase, ring, row>>
    BY <1>20 DEF UnwrapAndOpen, TypeOK
  <2>4. ~Unwraps(req[r].got) /\ ~down => req[r].got.named \notin ring
    BY <2>1 DEF Unwraps
  <2>5. phase # "purged" => row[req[r].v].named \in ring
    BY <2>1 DEF Catalogued, Keyed
  <2> QED BY <2>2, <2>3, <2>4, <2>5
<1>21. ASSUME NEW r \in Readers, Respond(r) PROVE OpenFailsForCause'
  BY <1>21 DEF Respond, NoReq, TypeOK, Request
<1>22. ASSUME NEW r \in Readers, End(r) PROVE OpenFailsForCause'
  BY <1>22 DEF End, NoReq, TypeOK, Request
<1>23. CASE UNCHANGED vars
  BY <1>23 DEF vars
<1> QED BY <1>1, <1>2, <1>3, <1>4, <1>5, <1>6, <1>7, <1>8, <1>9, <1>10, 
         <1>11, <1>12, <1>13, <1>14, <1>15, <1>16, <1>17, <1>18, <1>19, 
         <1>20, <1>21, <1>22, <1>23
     DEF Next, RewrapDEKs, Serving, DownloadUserFile, DownloadUpload, RunRecoveryDrill,
         CreateFileGrant, RevokeFileGrant, Routes

----------------------------------------------------------------------------
LEMMA Invariance == Spec => []IInv
<1>1. IInv /\ [Next]_vars => IInv'
  BY TypeStep, MakingStep, KeyedStep, BatchedStep, CataloguedStep, RequestedStep, FailedStep DEF IInv
<1> QED BY InitIInv, <1>1, PTL DEF Spec

(* Every variable keeps its type.                                          *)
THEOREM TypeCorrect == Spec => []TypeOK
<1>1. IInv => TypeOK
  BY DEF IInv
<1> QED BY Invariance, <1>1, PTL

(* The data key of every live version opens, through any rotations,        *)
(* batches, aborted commits and retirements (CommitDEKRewrap,              *)
(* KeyRotationPosture).                                                    *)
THEOREM NoVersionLocked == Spec => []LiveVersionsUnwrap
<1>1. IInv => LiveVersionsUnwrap
  BY DEF IInv, Keyed, LiveVersionsUnwrap
<1> QED BY Invariance, <1>1, PTL

(* A download or drill fails for one of three reasons only (openMetadata). *)
THEOREM NoSpuriousFailure == Spec => []OpenFailsForCause
<1>1. IInv => OpenFailsForCause
  BY DEF IInv
<1> QED BY Invariance, <1>1, PTL

(* After the purge no route serves the content to a request that begins    *)
(* (purge, FindByUpload, CurrentMetadataForDrill).                         *)
THEOREM PurgeEndsReading == Spec => []PurgedIsUnreadable
<1>1. IInv => PurgedIsUnreadable
  BY DEF IInv, Requested, RequestedBy, PurgedIsUnreadable, At
<1> QED BY Invariance, <1>1, PTL

(* Recipients are served what was current under a grant to download        *)
(* (AuthorizedCurrentMetadata).                                            *)
THEOREM GrantCoversContent == Spec => []ContentNeedsDownload
<1>1. IInv => ContentNeedsDownload
  BY DEF IInv, Requested, RequestedBy, Good, ContentNeedsDownload, At
<1> QED BY Invariance, <1>1, PTL

(* A destroyed key stays destroyed: a batch that holds a snapshot from     *)
(* before the purge finds another wrapped_dek (CommitDEKRewrap).           *)
THEOREM DestructionIsFinal == Spec => DestroyedStaysDestroyed
<1>1. IInv /\ [Next]_vars => \A v \in Versions : Destroyed(v) => Destroyed(v)'
  <2> SUFFICES ASSUME IInv, [Next]_vars, NEW v \in Versions, Destroyed(v) PROVE Destroyed(v)'
    OBVIOUS
  <2> USE CustodyAssumption DEF provider, versions, file, vars, Destroyed, Live, IInv, NoRow
  <2>1. ASSUME NEW w \in Versions, Seal(w) PROVE Destroyed(v)'
    BY <2>1 DEF Seal
  <2>2. ASSUME NEW w \in Versions, InsertRow(w) PROVE Destroyed(v)'
    BY <2>2 DEF InsertRow, Making, TypeOK
  <2>3. ASSUME NEW w \in Versions, Catalogue(w) PROVE Destroyed(v)'
    BY <2>3 DEF Catalogue
  <2>4. ASSUME NEW w \in Versions, RemoveBlob(w) PROVE Destroyed(v)'
    BY <2>4 DEF RemoveBlob, Destroyed, TypeOK
  <2>5. ASSUME MoveToTrash PROVE Destroyed(v)'
    BY <2>5 DEF MoveToTrash, SetPhase
  <2>6. ASSUME RestoreFromTrash PROVE Destroyed(v)'
    BY <2>6 DEF RestoreFromTrash, SetPhase
  <2>7. ASSUME Purge PROVE Destroyed(v)'
    BY <2>7 DEF Purge, SetPhase, Destroy, TypeOK, Wrapper
  <2>8. ASSUME NEW p \in {"none", "read", "download"}, SetPermission(p) PROVE Destroyed(v)'
    BY <2>8 DEF SetPermission
  <2>9. ASSUME Rotate PROVE Destroyed(v)'
    BY <2>9 DEF Rotate, NoBatch, NoReq
  <2>10. ASSUME Approve PROVE Destroyed(v)'
    BY <2>10 DEF Approve, Pending
  <2>11. ASSUME StartOutage \/ EndOutage PROVE Destroyed(v)'
    BY <2>11 DEF StartOutage, EndOutage
  <2>12. ASSUME NEW k \in Keys, Retire(k) PROVE Destroyed(v)'
    BY <2>12 DEF Retire
  <2>13. ASSUME NEW b \in Batches, ListCandidates(b) PROVE Destroyed(v)'
    BY <2>13 DEF ListCandidates, Listed, Candidates, Pending
  <2>14. ASSUME NEW b \in Batches, UnwrapItem(b) PROVE Destroyed(v)'
    BY <2>14 DEF UnwrapItem, Oldest, Rest, NoBatch
  <2>15. ASSUME NEW b \in Batches, CommitItem(b) PROVE Destroyed(v)'
    BY <2>15, ItemEffects
  <2>16. ASSUME NEW b \in Batches, FailItem(b) PROVE Destroyed(v)'
    BY <2>16, ItemEffects
  <2>17. ASSUME NEW r \in Readers, NEW route \in Routes, Begin(r, route) PROVE Destroyed(v)'
    BY <2>17 DEF Begin, NoReq
  <2>18. ASSUME NEW r \in Readers, Fetch(r) PROVE Destroyed(v)'
    BY <2>18 DEF Fetch, NoReq, Found
  <2>19. ASSUME NEW r \in Readers, ReadBlob(r) PROVE Destroyed(v)'
    BY <2>19 DEF ReadBlob
  <2>20. ASSUME NEW r \in Readers, UnwrapAndOpen(r) PROVE Destroyed(v)'
    BY <2>20 DEF UnwrapAndOpen
  <2>21. ASSUME NEW r \in Readers, Respond(r) PROVE Destroyed(v)'
    BY <2>21 DEF Respond, NoReq
  <2>22. ASSUME NEW r \in Readers, End(r) PROVE Destroyed(v)'
    BY <2>22 DEF End, NoReq
  <2>23. CASE UNCHANGED vars
    BY <2>23
  <2> QED BY <2>1, <2>2, <2>3, <2>4, <2>5, <2>6, <2>7, <2>8, <2>9, <2>10, 
             <2>11, <2>12, <2>13, <2>14, <2>15, <2>16, <2>17, <2>18, <2>19, 
             <2>20, <2>21, <2>22, <2>23
         DEF Next, RewrapDEKs, Serving, DownloadUserFile, DownloadUpload, RunRecoveryDrill,
         CreateFileGrant, RevokeFileGrant, Routes
<1> QED BY Invariance, <1>1, PTL DEF Spec, DestroyedStaysDestroyed
----------------------------------------------------------------------------
(* The safety half of RotationFinishes: versions leave the list for good,  *)
(* and nothing at its head stops the batches.                              *)

(* The rows change by an insert, by the purge and by a batch.              *)
LEMMA RowEffects ==
  ASSUME IInv, [Next]_vars
  PROVE  \/ UNCHANGED <<row, key>> \/ key' # key
         \/ \E v \in Versions : InsertRow(v)
         \/ Purge
         \/ \E b \in Batches : CommitItem(b) \/ FailItem(b)
<1> USE DEF provider, versions, file, vars
<1>1. ASSUME NEW v \in Versions, Seal(v) \/ Catalogue(v) \/ RemoveBlob(v)
      PROVE  UNCHANGED <<row, key>>
  BY <1>1 DEF Seal, Catalogue, RemoveBlob
<1>2. ASSUME MoveToTrash \/ RestoreFromTrash PROVE UNCHANGED <<row, key>>
  BY <1>2 DEF MoveToTrash, RestoreFromTrash, SetPhase
<1>3. ASSUME CreateFileGrant \/ RevokeFileGrant PROVE UNCHANGED <<row, key>>
  BY <1>3 DEF CreateFileGrant, RevokeFileGrant, SetPermission
<1>4. ASSUME Rotate PROVE key' # key
  BY <1>4 DEF Rotate, IInv, TypeOK, Keys
<1>5. ASSUME Approve \/ StartOutage \/ EndOutage PROVE UNCHANGED <<row, key>>
  BY <1>5 DEF Approve, StartOutage, EndOutage
<1>6. ASSUME NEW k \in Keys, Retire(k) PROVE UNCHANGED <<row, key>>
  BY <1>6 DEF Retire
<1>7. ASSUME NEW b \in Batches, ListCandidates(b) \/ UnwrapItem(b) PROVE UNCHANGED <<row, key>>
  BY <1>7 DEF ListCandidates, UnwrapItem
<1>8. ASSUME NEW r \in Readers, NEW routes, Serving(r, routes) PROVE UNCHANGED <<row, key>>
  BY <1>8 DEF Serving, Begin, Fetch, ReadBlob, UnwrapAndOpen, Respond, End
<1>9. CASE UNCHANGED vars
  BY <1>9
<1> QED
  BY <1>1, <1>2, <1>3, <1>4, <1>5, <1>6, <1>7, <1>8, <1>9
  DEF Next, RewrapDEKs, DownloadUserFile, DownloadUpload, RunRecoveryDrill

(* A version that is under the configured key, or destroyed, is out of the *)
(* list until the next rotation: what a restore inserts after a rotation   *)
(* was sealed after it too (Making).                                       *)
THEOREM PendingFalls == Spec => OnlyRotationMakesPending
<1>1. ASSUME IInv, [Next]_vars, key' = key, NEW v \in Versions, Pending(v)' PROVE Pending(v)
  <2> USE CustodyAssumption DEF IInv, Pending, Live
  <2>1. ASSUME UNCHANGED <<row, key>> PROVE Pending(v)
    BY <1>1, <2>1
  <2>2. ASSUME NEW w \in Versions, InsertRow(w) PROVE Pending(v)
    <3>1. sealed[w] = key
      BY <1>1, <2>2 DEF InsertRow, Making
    <3>2. row'[v] = row[v] \/ row'[v] = Wrapped(key)
      BY <1>1, <2>2, <3>1 DEF InsertRow, TypeOK
    <3>3. Wrapped(key).named = key
      BY DEF Wrapped
    <3> QED BY <1>1, <3>2, <3>3
  <2>3. ASSUME Purge PROVE Pending(v)
    <3>1. row'[v] = row[v] \/ row'[v] = Destroy(row[v])
      BY <2>3 DEF Purge
    <3>2. row[v] \in Wrapper
      BY <1>1 DEF TypeOK
    <3>3. Destroy(row[v]).dek = 0
      BY <3>2 DEF Destroy, Wrapper
    <3> QED BY <1>1, <3>1, <3>3
  <2>4. ASSUME NEW b \in Batches, CommitItem(b) \/ FailItem(b) PROVE Pending(v)
    <3>1. row'[v] = row[v] \/ row'[v] = Wrapped(key)
      BY <1>1, <2>4, ItemEffects
    <3>2. Wrapped(key).named = key
      BY DEF Wrapped
    <3> QED BY <1>1, <3>1, <3>2
  <2> QED BY <1>1, <2>1, <2>2, <2>3, <2>4, RowEffects
<1>2. IInv /\ [Next]_vars => (key' = key => \A v \in Versions : Pending(v)' => Pending(v))
  BY <1>1
<1> QED BY Invariance, <1>2, PTL DEF Spec, OnlyRotationMakesPending

(* The oldest entry has nothing before it, so any limit takes it.          *)
LEMMA OldestListed ==
  ASSUME NEW v \in Candidates, \A w \in Candidates : v <= w PROVE v \in Listed
<1>1. v \in Nat /\ Candidates \subseteq Nat
  BY DEF Candidates, Versions
<1>2. {w \in Candidates : w < v} = {}
  <2>1. ASSUME NEW w \in Candidates, w < v PROVE FALSE
    <3>1. w \in Nat /\ v <= w
      BY <1>1
    <3> QED BY <1>1, <2>1, <3>1
  <2> QED BY <2>1
<1>3. Cardinality({w \in Candidates : w < v}) = 0
  BY <1>2, FS_EmptySet
<1>4. 0 < Limit
  BY CustodyAssumption
<1> QED BY <1>3, <1>4 DEF Listed

(* The candidates that the ordered list can stall on, those that cannot be *)
(* unwrapped, do not occur, because live rows tell the truth (Keyed).      *)
THEOREM ListNeverStalls == Spec => []NothingHoldsUpTheList
<1>1. ASSUME IInv, NEW b \in Batches, NEW i \in batch[b].items, ~down, row[i.v] = i.got
      PROVE  Unwraps(i.got)
  <2>1. i.v \in Versions /\ i.got.dek # 0
    BY <1>1 DEF IInv, TypeOK, Batched
  <2>2. i.got.dek = i.got.named /\ i.got.named \in ring
    BY <1>1, <2>1 DEF IInv, Keyed, Live
  <2> QED BY <1>1, <2>2 DEF Unwraps
<1>2. IInv => NothingHoldsUpTheList
  BY <1>1, OldestListed DEF NothingHoldsUpTheList
<1> QED BY Invariance, <1>2, PTL
=============================================================================
