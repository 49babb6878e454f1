----------------------------- MODULE KeyCustody -----------------------------
(***************************************************************************)
(* Custody of the data keys (internal/protectedstore): every version has a *)
(* DEK wrapped under a KEK version the row names.  Downloads, recovery     *)
(* drills, rewrap batches, cryptographic deletion and the retirement of    *)
(* old KEK versions (docs/kms-operations.md) interleave freely.            *)
(*                                                                         *)
(* One file and the versions it gains; version 1 is its upload, the others *)
(* are restores.  One server process at a time: the wrapping version is    *)
(* configuration, changed by a restart.  A row holds the KEK version its   *)
(* wrapped_dek is really under (dek) beside the one it names (named): the  *)
(* ciphertext opens if they agree and the provider still unwraps.          *)
(* Abstracted: AES-GCM and digests, beyond that; the provider's protocol,  *)
(* beyond its failing; gates and retries of deletion (FileLifecycle); the  *)
(* lost reply of an insert (Ingest).                                       *)
(***************************************************************************)
EXTENDS Naturals, FiniteSets

CONSTANTS
  Copies,     \* bound: versions ever protected
  MaxKey,     \* bound: KEK versions ever configured
  MaxOutages, \* bound: outages of the key provider
  Limit,      \* candidates a batch takes at most
  Batches,    \* rewrap requests under way together
  Readers     \* downloads and drills under way together

ASSUME CustodyAssumption ==
  /\ Copies \in Nat \ {0} /\ MaxKey \in Nat \ {0}
  /\ MaxOutages \in Nat /\ Limit \in Nat \ {0}

Versions == 1 .. Copies    \* in the order of created_at
Upload   == 1
Keys     == 1 .. MaxKey

Wrapped(k) == [dek |-> k, named |-> k]
NoRow      == Wrapped(0)
Destroy(w) == [w EXCEPT !.dek = 0]   \* wrapped_dek becomes NULL, the name stays

VARIABLES
  key,        \* the configured wrapping version
  ring,       \* versions the provider unwraps
  approved,   \* versions approved for retirement on a posture of zero pending
  down,       \* the provider does not answer
  outages,
  sealed,     \* kek_version of a version's envelope (0: not made)
  row,        \* securestore_protected_versions
  blobs,      \* ciphertext objects
  making,     \* where the request that makes a version stands
  catalog,    \* securestore_file_versions
  current,    \* securestore_files.current_version_id (0: no file yet)
  phase,      \* none, active, trash, purged
  permission, \* the recipient's unrevoked, unexpired grant
  shared,     \* history: versions that were current under a download grant
  batch,      \* RewrapDEKs: its stage and the candidates left
  req         \* a download or drill

provider == <<key, ring, approved, down, outages>>
versions == <<sealed, row, blobs, making>>
file     == <<catalog, current, phase, permission, shared>>
vars     == <<provider, versions, file, batch, req>>

Live(v) == row[v].dek # 0
Destroyed(v) == row[v] # NoRow /\ ~Live(v)
Pending(v) == Live(v) /\ row[v].named # key     \* KeyRotationPosture

NoBatch == [stage |-> "none", items |-> {}]
NoReq == [step |-> "idle", route |-> "none", v |-> 0, got |-> NoRow,
          late |-> FALSE, excused |-> FALSE]

Init ==
  /\ key = 1 /\ ring = {1} /\ approved = {} /\ down = FALSE /\ outages = 0
  /\ sealed = [v \in Versions |-> 0] /\ row = [v \in Versions |-> NoRow]
  /\ blobs = {} /\ making = [v \in Versions |-> "none"]
  /\ catalog = {} /\ current = 0 /\ phase = "none"
  /\ permission = "none" /\ shared = {}
  /\ batch = [b \in Batches |-> NoBatch]
  /\ req = [r \in Readers |-> NoReq]

----------------------------------------------------------------------------
(* Versions: Service.Protect for the upload, and for restores.             *)

(* A fresh DEK is wrapped under the configured version, which the envelope *)
(* authenticates for good; the ciphertext is renamed into place.           *)
Seal(v) ==
  /\ sealed[v] = 0 /\ ~down
  /\ v # Upload => sealed[v - 1] # 0 /\ phase = "active"
  /\ sealed' = [sealed EXCEPT ![v] = key]
  /\ blobs' = blobs \cup {v}
  /\ making' = [making EXCEPT ![v] = "sealed"]
  /\ UNCHANGED <<provider, row, file, batch, req>>

(* The row, or an error that removes the ciphertext.                       *)
InsertRow(v) ==
  /\ making[v] = "sealed"
  /\ \/ /\ row' = [row EXCEPT ![v] = Wrapped(sealed[v])]
        /\ making' = [making EXCEPT ![v] = "inserted"]
        /\ UNCHANGED blobs
     \/ /\ blobs' = blobs \ {v}
        /\ making' = [making EXCEPT ![v] = "none"]
        /\ UNCHANGED row
  /\ UNCHANGED <<provider, sealed, file, batch, req>>

(* RegisterInitial, or commitRestore, for which the file must be active;   *)
(* otherwise the version stays without a catalog entry.                    *)
Catalogue(v) ==
  /\ making[v] = "inserted"
  /\ making' = [making EXCEPT ![v] = "none"]
  /\ \/ UNCHANGED <<catalog, current, phase, shared>>
     \/ /\ phase = IF v = Upload THEN "none" ELSE "active"
        /\ catalog' = catalog \cup {v} /\ current' = v /\ phase' = "active"
        /\ shared' = IF permission = "download" THEN shared \cup {v} ELSE shared
  /\ UNCHANGED <<provider, sealed, row, blobs, permission, batch, req>>

----------------------------------------------------------------------------
(* The file's life, as far as custody depends on it.                       *)

SetPhase(from, to) ==
  /\ phase = from /\ phase' = to
  /\ UNCHANGED <<provider, sealed, blobs, making, catalog, current, shared, batch, req>>

MoveToTrash == SetPhase("active", "trash") /\ permission' = "none" /\ UNCHANGED row

RestoreFromTrash == SetPhase("trash", "active") /\ UNCHANGED <<permission, row>>

PurgeCurrent ==      \* fault: only the current version's key is destroyed
  /\ SetPhase("trash", "purged") /\ permission' = "none"
  /\ row' = [row EXCEPT ![current] = Destroy(@)]

(* The wrapped DEKs of all catalogued versions, in one transaction.        *)
Purge ==
  /\ SetPhase("trash", "purged") /\ permission' = "none"
  /\ row' = [v \in Versions |-> IF v \in catalog THEN Destroy(row[v]) ELSE row[v]]

(* The ciphertext of a destroyed version goes after the commit.            *)
RemoveBlob(v) ==
  /\ Destroyed(v) /\ v \in blobs
  /\ blobs' = blobs \ {v}
  /\ UNCHANGED <<provider, sealed, row, making, file, batch, req>>

SetPermission(p) ==
  /\ p # permission /\ (p = "none" \/ phase = "active")
  /\ permission' = p
  /\ shared' = IF p = "download" THEN shared \cup {current} ELSE shared
  /\ UNCHANGED <<provider, versions, catalog, current, phase, batch, req>>

(* A grant to the recipient, or another in place of it.                    *)
CreateFileGrant == \E p \in {"read", "download"} : SetPermission(p)

(* The owner revokes it, or it expires.                                    *)
RevokeFileGrant == SetPermission("none")

----------------------------------------------------------------------------
(* Key operations: the operator and the provider.                          *)

(* A new version, deployed with a restart that ends what was under way.    *)
Rotate ==
  /\ key < MaxKey
  /\ key' = key + 1 /\ ring' = ring \cup {key + 1}
  /\ making' = [v \in Versions |-> "none"]
  /\ batch' = [b \in Batches |-> NoBatch]
  /\ req' = [r \in Readers |-> NoReq]
  /\ UNCHANGED <<approved, down, outages, sealed, row, blobs, file>>

ApproveCatalogued == \* fault: posture leaves out versions without catalog entry
  /\ \A v \in catalog : ~Pending(v)
  /\ approved' = approved \cup {k \in ring : k < key}
  /\ UNCHANGED <<key, ring, down, outages, versions, file, batch, req>>

(* The posture reports no version pending: the older ones may go.          *)
Approve ==
  /\ \A v \in Versions : ~Pending(v)
  /\ approved' = approved \cup {k \in ring : k < key}
  /\ UNCHANGED <<key, ring, down, outages, versions, file, batch, req>>

Retire(k) ==
  /\ k \in approved \cap ring
  /\ ring' = ring \ {k}
  /\ UNCHANGED <<key, approved, down, outages, versions, file, batch, req>>

StartOutage ==
  /\ ~down /\ outages < MaxOutages
  /\ down' = TRUE /\ outages' = outages + 1
  /\ UNCHANGED <<key, ring, approved, versions, file, batch, req>>

EndOutage ==
  /\ down /\ down' = FALSE
  /\ UNCHANGED <<key, ring, approved, outages, versions, file, batch, req>>

(* Unwrap: exact key version, provider reachable.                          *)
Unwraps(w) == ~down /\ w.dek = w.named /\ w.named \in ring

----------------------------------------------------------------------------
(* RewrapDEKs: a bounded batch of snapshots, one after the other.          *)

CandidatesOfAll ==   \* fault: what is already current is listed too
  {v \in Versions : Live(v)}

Candidates == {v \in Versions : Pending(v)}

Listed == {v \in Candidates : Cardinality({w \in Candidates : w < v}) < Limit}

ListCandidates(b) ==
  /\ batch[b].stage = "none" /\ Listed # {}
  /\ batch' = [batch EXCEPT ![b] =
                 [stage |-> "unwrap", items |-> {[v |-> v, got |-> row[v]] : v \in Listed}]]
  /\ UNCHANGED <<provider, versions, file, req>>

Oldest(b) == {i \in batch[b].items : \A j \in batch[b].items : i.v <= j.v}

(* The batch without the item.                                             *)
Rest(b, i) ==
  IF batch[b].items = {i} THEN NoBatch
  ELSE [stage |-> "unwrap", items |-> batch[b].items \ {i}]

(* An item whose DEK cannot be unwrapped counts as failed; the batch goes  *)
(* on.                                                                     *)
UnwrapItem(b) ==
  /\ batch[b].stage = "unwrap"
  /\ \E i \in Oldest(b) :
       batch' = [batch EXCEPT ![b] =
                   IF Unwraps(i.got) THEN [@ EXCEPT !.stage = "commit"] ELSE Rest(b, i)]
  /\ UNCHANGED <<provider, versions, file, req>>

ReplacesAny(v, got) == row[v].named = got.named \* fault: wrapped_dek not compared

(* CommitDEKRewrap replaces the row it listed, wrapper and name, or none.  *)
Replaces(v, got) == row[v] = got

RenameOnly(v, got) ==  \* fault: the row is given the name alone
  row' = IF Replaces(v, got) THEN [row EXCEPT ![v].named = key] ELSE row

Rewrap(v, got) ==
  row' = IF Replaces(v, got) THEN [row EXCEPT ![v] = Wrapped(key)] ELSE row

CommitItem(b) ==
  /\ batch[b].stage = "commit"
  /\ \E i \in Oldest(b) :
       /\ Rewrap(i.v, i.got)
       /\ batch' = [batch EXCEPT ![b] = Rest(b, i)]
  /\ UNCHANGED <<provider, sealed, blobs, making, file, req>>

(* The wrap, or the commit, fails for the batch: the first counts as a     *)
(* failed item, the second ends the request, committed or not.             *)
FailItem(b) ==
  /\ batch[b].stage = "commit"
  /\ \E i \in Oldest(b) :
       \/ down /\ batch' = [batch EXCEPT ![b] = Rest(b, i)] /\ UNCHANGED row
       \/ /\ batch' = [batch EXCEPT ![b] = NoBatch]
          /\ UNCHANGED row \/ Rewrap(i.v, i.got)
  /\ UNCHANGED <<provider, sealed, blobs, making, file, req>>

----------------------------------------------------------------------------
(* Downloads and recovery drills.                                          *)

At(r, s) == req[r].step = s

(* The handler's first look: AuthorizedDetails with the read capability,   *)
(* ingest.Get of a stored upload, or nothing for a drill.                  *)
Authorized(route) ==
  CASE route = "owner"     -> phase = "active"
    [] route = "recipient" -> phase = "active" /\ permission # "none"
    [] route = "upload"    -> Upload \in catalog
    [] route = "drill"     -> TRUE

Begin(r, route) ==
  /\ At(r, "idle") /\ Authorized(route)
  /\ req' = [req EXCEPT ![r] = [NoReq EXCEPT !.step = "begun", !.route = route,
                                             !.late = (phase = "purged")]]
  /\ UNCHANGED <<provider, versions, file, batch>>

FoundForReaders(route) ==  \* fault: the read capability opens the content
  CASE route = "owner"     -> phase = "active"
    [] route = "recipient" -> phase = "active" /\ permission # "none"
    [] route = "upload"    -> Live(Upload)
    [] route = "drill"     -> phase \in {"active", "trash"} /\ Live(current)

(* The metadata query of each route: AuthorizedCurrentMetadata, which asks *)
(* for the download capability, FindByUpload with validateMetadata, which  *)
(* asks nothing of the file, CurrentMetadataForDrill.                      *)
Found(route) ==
  CASE route = "owner"     -> phase = "active"
    [] route = "recipient" -> phase = "active" /\ permission = "download"
    [] route = "upload"    -> Live(Upload)
    [] route = "drill"     -> phase \in {"active", "trash"} /\ Live(current)

Fetch(r) ==
  /\ At(r, "begun")
  /\ LET route == req[r].route
         v == IF route = "upload" THEN Upload ELSE current
     IN req' = [req EXCEPT ![r] =
                  IF Found(route)
                  THEN [@ EXCEPT !.step = "fetched", !.v = v, !.got = row[v]]
                  ELSE NoReq]
  /\ UNCHANGED <<provider, versions, file, batch>>

ReadBlob(r) ==
  /\ At(r, "fetched")
  /\ req' = [req EXCEPT ![r].step = IF req[r].v \in blobs THEN "read" ELSE "failed"]
  /\ UNCHANGED <<provider, versions, file, batch>>

UnwrapAndOpen(r) ==
  /\ At(r, "read")
  /\ req' = [req EXCEPT ![r].step = IF Unwraps(req[r].got) THEN "opened" ELSE "failed",
                        ![r].excused = down]
  /\ UNCHANGED <<provider, versions, file, batch>>

(* The audit append, or the drill's record, comes first; without it        *)
(* nothing is released.                                                    *)
Respond(r) ==
  /\ At(r, "opened")
  /\ req' \in {[req EXCEPT ![r].step = "served"], [req EXCEPT ![r] = NoReq]}
  /\ UNCHANGED <<provider, versions, file, batch>>

End(r) ==
  /\ req[r].step \in {"served", "failed"}
  /\ req' = [req EXCEPT ![r] = NoReq]
  /\ UNCHANGED <<provider, versions, file, batch>>

Routes == {"owner", "recipient", "upload", "drill"}

Serving(r, routes) ==
  \/ \E route \in routes : Begin(r, route)
  \/ /\ req[r].route \in routes
     /\ Fetch(r) \/ ReadBlob(r) \/ UnwrapAndOpen(r) \/ Respond(r) \/ End(r)

(* The three handlers that reach content, and the one of the batches.      *)
DownloadUserFile(r) == Serving(r, {"owner", "recipient"})
DownloadUpload(r)   == Serving(r, {"upload"})
RunRecoveryDrill(r) == Serving(r, {"drill"})

RewrapDEKs(b) == ListCandidates(b) \/ UnwrapItem(b) \/ CommitItem(b) \/ FailItem(b)

Next ==
  \/ \E v \in Versions : Seal(v) \/ InsertRow(v) \/ Catalogue(v) \/ RemoveBlob(v)
  \/ MoveToTrash \/ RestoreFromTrash \/ Purge
  \/ CreateFileGrant \/ RevokeFileGrant
  \/ Rotate \/ Approve \/ StartOutage \/ EndOutage
  \/ \E k \in Keys : Retire(k)
  \/ \E b \in Batches : RewrapDEKs(b)
  \/ \E r \in Readers : DownloadUserFile(r) \/ DownloadUpload(r) \/ RunRecoveryDrill(r)

Spec == Init /\ [][Next]_vars

(* Outages end; the administrator keeps asking for batches, as the         *)
(* rotation procedure prescribes; a commit that is tried again and again   *)
(* gets through.                                                           *)
Fairness ==
  /\ WF_vars(EndOutage)
  /\ \A b \in Batches :
       /\ WF_vars(ListCandidates(b)) /\ WF_vars(UnwrapItem(b)) /\ SF_vars(CommitItem(b))

FairSpec == Spec /\ Fairness

----------------------------------------------------------------------------
(* Properties.                                                             *)

Wrapper == [dek : 0 .. MaxKey, named : 0 .. MaxKey]

Request == [step : {"idle", "begun", "fetched", "read", "opened", "served", "failed"},
            route : Routes \cup {"none"}, v : 0 .. Copies, got : Wrapper,
            late : BOOLEAN, excused : BOOLEAN]

TypeOK ==
  /\ key \in Keys /\ ring \subseteq Keys /\ approved \subseteq Keys
  /\ down \in BOOLEAN /\ outages \in Nat
  /\ sealed \in [Versions -> 0 .. MaxKey] /\ row \in [Versions -> Wrapper]
  /\ blobs \subseteq Versions /\ making \in [Versions -> {"none", "sealed", "inserted"}]
  /\ catalog \subseteq Versions /\ current \in 0 .. Copies
  /\ phase \in {"none", "active", "trash", "purged"}
  /\ permission \in {"none", "read", "download"} /\ shared \subseteq 0 .. Copies
  /\ batch \in [Batches -> [stage : {"none", "unwrap", "commit"},
                            items : SUBSET [v : Versions, got : Wrapper]]]
  /\ req \in [Readers -> Request]

(* Whatever rotations, batches, aborted commits and retirements have been, *)
(* the data key of every live version opens: its row names the KEK version *)
(* it is wrapped under, and that version was not retired (CommitDEKRewrap, *)
(* KeyRotationPosture).                                                    *)
LiveVersionsUnwrap ==
  \A v \in Versions : Live(v) => row[v].dek = row[v].named /\ row[v].named \in ring

(* A batch that listed a version before its file was purged does not bring *)
(* the destroyed key back (CommitDEKRewrap against purge).                 *)
DestroyedStaysDestroyed ==
  [][\A v \in Versions : Destroyed(v) => Destroyed(v)']_vars

(* A download or drill of metadata that was good when it was read fails    *)
(* for a reason: the file was purged meanwhile, the provider was down, or  *)
(* the version it names was retired after the row had moved on.            *)
OpenFailsForCause ==
  \A r \in Readers : At(r, "failed") =>
    \/ phase = "purged"
    \/ req[r].excused
    \/ req[r].got.named \notin ring /\ row[req[r].v] # req[r].got

(* After the purge no request that begins gets the content, by any route,  *)
(* although Open asks nothing of the file's life (purge, FindByUpload).    *)
PurgedIsUnreadable == \A r \in Readers : ~(At(r, "served") /\ req[r].late)

(* A recipient is served a version only if it was current under a grant    *)
(* to download: not by a grant to read, and no version that came after the *)
(* grant was revoked or lowered, whatever the handler's first look let     *)
(* pass (downloadUserFile, AuthorizedCurrentMetadata).                     *)
ContentNeedsDownload ==
  \A r \in Readers : At(r, "served") /\ req[r].route = "recipient" => req[r].v \in shared

(* Only a rotation makes a version pending.  Nothing else sends one back   *)
(* to the list: no restore under way across the rotation, no batch of      *)
(* older snapshots, no purge (Protect, CommitDEKRewrap).                   *)
OnlyRotationMakesPending ==
  [][key' = key => \A v \in Versions : Pending(v)' => Pending(v)]_vars

(* Nothing holds up the ordered list of the batches: the oldest pending    *)
(* version is listed, whatever the limit, and a candidate whose row is as  *)
(* it was listed unwraps while the provider answers                        *)
(* (ListDEKRewrapCandidates, RewrapDEKs).                                  *)
NothingHoldsUpTheList ==
  /\ \A v \in Candidates : (\A w \in Candidates : v <= w) => v \in Listed
  /\ \A b \in Batches : \A i \in batch[b].items :
       ~down /\ row[i.v] = i.got => Unwraps(i.got)

(* Once the wrapping version changes, batches of any size reach every      *)
(* version, past failing items, aborted requests and outages.              *)
RotationFinishes == \A v \in Versions : Pending(v) ~> ~Pending(v)
=============================================================================
