--------------------------- MODULE FileLifecycle ---------------------------
(***************************************************************************)
(* The life of a catalogued file in SecureStore: Trash and its grace       *)
(* period, retention and legal hold, access grants, verified restore of    *)
(* an old version, and cryptographic deletion, whether asked for by the    *)
(* owner or by the scheduled worker (internal/protectedstore, PostgreSQL   *)
(* repository).                                                            *)
(*                                                                         *)
(* Every action below is one database transaction, or one step of a        *)
(* request between two of them; requests, the scheduled worker and an      *)
(* administrator's run of it interleave freely.  The requester is always   *)
(* the owner of the file, so owner_id is left out of every WHERE clause.   *)
(* A unit of time stands for days: no request outlives one (Tick).         *)
(***************************************************************************)
EXTENDS Integers, FiniteSets

CONSTANTS
  Files,        \* catalogued files
  Recipients,   \* users a file may be shared with
  OwnerKeys,    \* idempotency keys of the owner's purge requests
  RestoreKeys,  \* idempotency keys (with their source version) of restores
  Workers,      \* runs of ProcessDuePurges that may be under way together
  Scheduler,    \* the one of them that the server's ticker starts
  Grace,        \* DefaultDeletionGracePeriod, in units of time
  MaxTime,      \* bound: the clock stops here
  Limit,        \* files a run of the worker takes at most (25 in the code)
  LostReplies   \* may a commit's reply be lost, so that it reads as an error

Initial == "initial"   \* the version RegisterInitial catalogued
Null    == -1          \* SQL NULL of a timestamp column

ASSUME LifecycleAssumption ==
  /\ IsFiniteSet(Files)
  /\ Initial \notin RestoreKeys
  /\ Scheduler \in Workers
  /\ Grace \in Nat \ {0} /\ MaxTime \in Nat /\ Limit \in Nat \ {0}
  /\ LostReplies \in BOOLEAN

Instants  == 0 .. (MaxTime + Grace)
Restores  == Files \X RestoreKeys                 \* restore operation ids
Versions  == Files \X (RestoreKeys \cup {Initial})
PurgeKeys == OwnerKeys \cup Instants              \* "scheduled-<purge_after>"
PurgeOps  == Files \X PurgeKeys                   \* deletion operation ids

VARIABLES
  now,         \* the service's clock
  purgeAfter,  \* securestore_files.purge_after; NULL iff deleted_at is
  retention,   \* securestore_files.retention_until
  held,        \* files with legal_hold
  purged,      \* files with purged_at
  grants,      \* <<file, recipient>> of the grants not revoked
  granting,    \* createGrant statements that saw the file, not committed yet
  catalog,     \* securestore_file_versions of each file
  dek,         \* securestore_protected_versions: no row, wrapped_dek, or NULL
  blobs,       \* ciphertext objects on disk
  cleanup,     \* objects whose removal a committed purge still owes
  restoring,   \* where the request of each restore operation stands
  ops,         \* securestore_deletion_operations.status
  deletions,   \* outbox: committed FILE_CRYPTOGRAPHICALLY_DELETED successes
  batch,       \* <<file, purge_after>> a worker listed and has yet to purge
  failing      \* the item whose purge just failed, its failure not recorded

fileVars    == <<purgeAfter, retention, held, purged>>
versionVars == <<catalog, dek, blobs, cleanup>>
grantVars   == <<grants, granting>>
purgeVars   == <<ops, deletions>>
workerVars  == <<batch, failing>>
vars == <<now, fileVars, versionVars, grantVars, purgeVars, workerVars, restoring>>

----------------------------------------------------------------------------
(* Conditions the WHERE clauses share.                                     *)

Trashed(f) == purgeAfter[f] # Null
Active(f)  == ~Trashed(f) /\ f \notin purged
Blocked(f) == f \in held \/ retention[f] > now

(* Faults a change of the code could bring: each names the definition it   *)
(* stands in for, and breaks a property (PROJECT.json, "mutants").         *)
PurgeableAgain(f) ==    \* purge does not ask for purged_at IS NULL
  Trashed(f) /\ ~Blocked(f) /\ purgeAfter[f] <= now

PurgeableAsListed(f) == \* purge trusts the worker's listing
  Trashed(f) /\ f \notin purged

(* The three gates of purge, in the transaction that destroys the keys.    *)
Purgeable(f) ==
  /\ Trashed(f) /\ f \notin purged
  /\ ~Blocked(f)
  /\ purgeAfter[f] <= now

DueAfterGrace ==        \* purge_after < now() for <=
  {f \in Files : Trashed(f) /\ f \notin purged /\ purgeAfter[f] < now
                    /\ f \notin held /\ retention[f] <= now}

(* What EligibleForPurge selects.                                          *)
Due == {f \in Files : Trashed(f) /\ f \notin purged /\ purgeAfter[f] <= now
                        /\ f \notin held /\ retention[f] <= now}

Init ==
  /\ now = 0
  /\ purgeAfter = [f \in Files |-> Null] /\ retention = [f \in Files |-> Null]
  /\ held = {} /\ purged = {}
  /\ grants = {} /\ granting = {}
  /\ catalog = [f \in Files |-> {<<f, Initial>>}]
  /\ dek = [v \in Versions |-> IF v[2] = Initial THEN "live" ELSE "absent"]
  /\ blobs = Files \X {Initial} /\ cleanup = {}
  /\ restoring = [o \in Restores |-> "idle"]
  /\ ops = [o \in PurgeOps |-> "absent"] /\ deletions = {}
  /\ batch = [w \in Workers |-> {}] /\ failing = [w \in Workers |-> {}]

----------------------------------------------------------------------------
(* Owner: Trash and back.                                                  *)

MoveToTrashAtWill(f) == \* no check of hold and retention
  /\ f \notin purged /\ ~Trashed(f)
  /\ purgeAfter' = [purgeAfter EXCEPT ![f] = now + Grace]
  /\ grants' = {g \in grants : g[1] # f}
  /\ UNCHANGED <<now, retention, held, purged, granting, versionVars, purgeVars,
                 workerVars, restoring>>

(* A second call finds deleted_at set and changes nothing.                 *)
MoveToTrash(f) ==
  /\ f \notin purged /\ ~Blocked(f)
  /\ ~Trashed(f)
  /\ purgeAfter' = [purgeAfter EXCEPT ![f] = now + Grace]
  /\ grants' = {g \in grants : g[1] # f}
  /\ UNCHANGED <<now, retention, held, purged, granting, versionVars, purgeVars,
                 workerVars, restoring>>

RestoreFromTrash(f) ==
  /\ Trashed(f) /\ f \notin purged
  /\ purgeAfter' = [purgeAfter EXCEPT ![f] = Null]
  /\ UNCHANGED <<now, retention, held, purged, grantVars, versionVars, purgeVars,
                 workerVars, restoring>>

(* Administrator: retention only ever moves forward; the handler refuses a *)
(* past date.                                                              *)
SetRetention(f) ==
  /\ f \notin purged
  /\ \E until \in now .. MaxTime :
       /\ until >= retention[f]
       /\ retention' = [retention EXCEPT ![f] = until]
  /\ UNCHANGED <<now, purgeAfter, held, purged, grantVars, versionVars, purgeVars,
                 workerVars, restoring>>

SetLegalHold(f) ==
  /\ f \notin purged
  /\ \/ held' = held \cup {f}
     \/ held' = held \ {f}
  /\ UNCHANGED <<now, purgeAfter, retention, purged, grantVars, versionVars,
                 purgeVars, workerVars, restoring>>

----------------------------------------------------------------------------
(* Grants.  createGrant takes no lock on the file: its INSERT ... SELECT   *)
(* reads the file row as of the statement's start, then waits in the       *)
(* foreign-key check for a transaction that holds the row FOR UPDATE, and  *)
(* inserts although that transaction moved the file to Trash.  A grant     *)
(* that is already active is updated in place.                             *)

CreateGrantReads(f, r) ==
  /\ Active(f)
  /\ granting' = granting \cup {<<f, r>>}
  /\ UNCHANGED <<now, fileVars, grants, versionVars, purgeVars, workerVars, restoring>>

CreateGrantCommits(g) ==
  /\ g \in granting
  /\ grants' = grants \cup {g}
  /\ granting' = granting \ {g}
  /\ UNCHANGED <<now, fileVars, versionVars, purgeVars, workerVars, restoring>>

CreateGrantFails(g) ==
  /\ g \in granting
  /\ granting' = granting \ {g}
  /\ UNCHANGED <<now, fileVars, grants, versionVars, purgeVars, workerVars, restoring>>

(* revokeGrant asks nothing of the file.                                   *)
RevokeGrant(g) ==
  /\ g \in grants
  /\ grants' = grants \ {g}
  /\ UNCHANGED <<now, fileVars, granting, versionVars, purgeVars, workerVars, restoring>>

----------------------------------------------------------------------------
(* Verified restore of a version, RestoreAudited: find and open the        *)
(* source, protect a new copy of it, commit it to the catalog.  A request  *)
(* may die between any two of these; the client repeats it with its key.   *)

RestoreOpens(o) ==
  /\ restoring[o] = "idle"
  /\ Active(o[1])                            \* FindVersion
  /\ \E source \in catalog[o[1]] :           \* openMetadata
       dek[source] = "live" /\ source \in blobs
  /\ restoring' = [restoring EXCEPT ![o] = "opened"]
  /\ UNCHANGED <<now, fileVars, versionVars, grantVars, purgeVars, workerVars>>

RestoreDropsObject(o) == \* the object is removed although its row stands
  /\ restoring[o] = "opened" /\ dek[o] = "absent"
  /\ restoring' = [restoring EXCEPT ![o] = "protected"]
  /\ dek' = [dek EXCEPT ![o] = "live"]
  /\ UNCHANGED <<now, fileVars, catalog, blobs, cleanup, grantVars, purgeVars, workerVars>>

(* Protect renames the ciphertext into place, then inserts the row.  An    *)
(* operation that has a row already is answered with it.  A failed insert  *)
(* removes the object, also when only the reply to the insert was lost.    *)
RestoreProtects(o) ==
  /\ restoring[o] = "opened"
  /\ \/ /\ dek[o] # "absent"
        /\ restoring' = [restoring EXCEPT ![o] = "protected"]
        /\ UNCHANGED <<dek, blobs>>
     \/ /\ dek[o] = "absent"
        /\ restoring' = [restoring EXCEPT ![o] = "protected"]
        /\ dek' = [dek EXCEPT ![o] = "live"]
        /\ blobs' = blobs \cup {o}
     \/ /\ dek[o] = "absent" /\ LostReplies
        /\ restoring' = [restoring EXCEPT ![o] = "idle"]
        /\ dek' = [dek EXCEPT ![o] = "live"]
        /\ UNCHANGED blobs
  /\ UNCHANGED <<now, fileVars, catalog, cleanup, grantVars, purgeVars, workerVars>>

(* commitRestore answers an operation the catalog holds with that entry,   *)
(* before it looks at the file; otherwise the file must still be active.   *)
RestoreCommits(o) ==
  /\ restoring[o] = "protected"
  /\ o \in catalog[o[1]] \/ Active(o[1])
  /\ catalog' = [catalog EXCEPT ![o[1]] = @ \cup {o}]
  /\ restoring' = [restoring EXCEPT ![o] = "idle"]
  /\ UNCHANGED <<now, fileVars, dek, blobs, cleanup, grantVars, purgeVars, workerVars>>

(* Refused, cancelled or failed: the request ends where it stands.         *)
RestoreEnds(o) ==
  /\ restoring[o] # "idle"
  /\ restoring' = [restoring EXCEPT ![o] = "idle"]
  /\ UNCHANGED <<now, fileVars, versionVars, grantVars, purgeVars, workerVars>>

----------------------------------------------------------------------------
(* Cryptographic deletion.  purge is one serializable transaction.         *)

DestroyFirstKey(f, k) == \* the first version's key only
  /\ dek' = [dek EXCEPT ![<<f, Initial>>] = "destroyed"]
  /\ grants' = {g \in grants : g[1] # f}
  /\ purged' = purged \cup {f}
  /\ ops' = [ops EXCEPT ![<<f, k>>] = "completed"]
  /\ deletions' = deletions \cup {<<f, k>>}

DestroySharing(f, k) ==  \* grants are left to the move to Trash
  /\ dek' = [v \in Versions |-> IF v \in catalog[f] THEN "destroyed" ELSE dek[v]]
  /\ purged' = purged \cup {f}
  /\ ops' = [ops EXCEPT ![<<f, k>>] = "completed"]
  /\ deletions' = deletions \cup {<<f, k>>}
  /\ UNCHANGED grants

(* The keys of every catalogued version of f go, with the grants; the      *)
(* tombstone, the operation and the audit intent commit with them.         *)
DestroyKeys(f, k) ==
  /\ dek' = [v \in Versions |-> IF v \in catalog[f] THEN "destroyed" ELSE dek[v]]
  /\ grants' = {g \in grants : g[1] # f}
  /\ purged' = purged \cup {f}
  /\ ops' = [ops EXCEPT ![<<f, k>>] = "completed"]
  /\ deletions' = deletions \cup {<<f, k>>}

KeepKeys == UNCHANGED <<dek, grants, purged, purgeVars>>

(* purge returns no error: it destroyed the keys, or its operation is      *)
(* "completed", or its operation is "failed", in which case the lookup's   *)
(* nil error is returned as the result of the purge.  Only the first owes  *)
(* the removal of the objects whose key was still there.                   *)
PurgeSucceeds(f, k) ==
  \/ /\ ops[<<f, k>>] = "absent" /\ Purgeable(f)
     /\ DestroyKeys(f, k)
     /\ cleanup' = cleanup \cup {v \in catalog[f] : dek[v] = "live"}
  \/ /\ ops[<<f, k>>] \in {"completed", "failed"}
     /\ KeepKeys /\ UNCHANGED cleanup

(* purge returns an error: a gate refuses, the transaction fails           *)
(* (connection, serialization conflict), or its commit's reply is lost.    *)
PurgeFails(f, k) ==
  /\ \/ KeepKeys
     \/ LostReplies /\ ops[<<f, k>>] = "absent" /\ Purgeable(f) /\ DestroyKeys(f, k)
  /\ UNCHANGED cleanup

OwnerPurges(f, k) ==
  /\ ops[<<f, k>>] = "absent"
  /\ PurgeSucceeds(f, k) \/ PurgeFails(f, k)
  /\ UNCHANGED <<now, purgeAfter, retention, held, granting, catalog, blobs,
                 workerVars, restoring>>

(* PurgeAudited removes the objects one by one and ignores a failure.      *)
CleanupObject(v) ==
  /\ v \in cleanup
  /\ cleanup' = cleanup \ {v}
  /\ blobs' \in {blobs, blobs \ {v}}
  /\ UNCHANGED <<now, fileVars, catalog, dek, grantVars, purgeVars, workerVars, restoring>>

----------------------------------------------------------------------------
(* ProcessDuePurges: list the due files, purge each under an operation id  *)
(* made of the file and its purge_after, record the failure of those that  *)
(* fail.  The ticker starts a run each minute, an administrator at will.   *)

(* Ordered by purge_after, at most Limit of them.                          *)
WorkerLists(w) ==
  /\ batch[w] = {} /\ failing[w] = {}
  /\ \E listed \in SUBSET Due :
       /\ listed # {}
       /\ listed # Due => Cardinality(listed) = Limit
       /\ Cardinality(listed) <= Limit
       /\ \A f \in listed, g \in Due \ listed : purgeAfter[f] <= purgeAfter[g]
       /\ batch' = [batch EXCEPT ![w] = {<<f, purgeAfter[f]>> : f \in listed}]
  /\ UNCHANGED <<now, fileVars, versionVars, grantVars, purgeVars, failing, restoring>>

(* Take an item off the list, in the list's order.                         *)
NextItem(w, i) ==
  /\ failing[w] = {}
  /\ i \in batch[w] /\ \A j \in batch[w] : i[2] <= j[2]
  /\ batch' = [batch EXCEPT ![w] = @ \ {i}]

WorkerPurges(w, f) ==
  /\ \E i \in batch[w] : i[1] = f /\ NextItem(w, i) /\ PurgeSucceeds(f, i[2])
  /\ UNCHANGED <<now, purgeAfter, retention, held, granting, catalog, blobs,
                 failing, restoring>>

WorkerFails(w, f) ==
  /\ \E i \in batch[w] :
       /\ i[1] = f /\ NextItem(w, i) /\ PurgeFails(f, i[2])
       /\ failing' = [failing EXCEPT ![w] = {i}]
  /\ UNCHANGED <<now, purgeAfter, retention, held, granting, catalog, blobs, restoring>>

(* RecordDeletionFailureAudited overwrites whatever the operation said.    *)
RecordDeletionFailure(w) ==
  /\ \E i \in failing[w] : ops' = [ops EXCEPT ![i] = "failed"]
  /\ failing' = [failing EXCEPT ![w] = {}]
  /\ UNCHANGED <<now, fileVars, versionVars, grantVars, deletions, batch, restoring>>

(* Its own error is ignored.                                               *)
FailureUnrecorded(w) ==
  /\ failing[w] # {}
  /\ failing' = [failing EXCEPT ![w] = {}]
  /\ UNCHANGED <<now, fileVars, versionVars, grantVars, purgeVars, batch, restoring>>

----------------------------------------------------------------------------
(* The server stops: every request and run under way is gone, and with it  *)
(* the object removals it owed.                                            *)
Crash ==
  /\ granting' = {} /\ cleanup' = {}
  /\ restoring' = [o \in Restores |-> "idle"]
  /\ batch' = [w \in Workers |-> {}] /\ failing' = [w \in Workers |-> {}]
  /\ UNCHANGED <<now, fileVars, grants, catalog, dek, blobs, purgeVars>>

Quiet == granting = {} /\ \A o \in Restores : restoring[o] = "idle"

Tick ==
  /\ now < MaxTime /\ Quiet
  /\ now' = now + 1
  /\ UNCHANGED <<fileVars, versionVars, grantVars, purgeVars, workerVars, restoring>>

WorkerStep(w) ==
  \/ WorkerLists(w)
  \/ \E f \in Files : WorkerPurges(w, f) \/ WorkerFails(w, f)
  \/ RecordDeletionFailure(w) \/ FailureUnrecorded(w)

FileStep(f) ==
  \/ MoveToTrash(f) \/ RestoreFromTrash(f) \/ SetRetention(f) \/ SetLegalHold(f)
  \/ \E k \in OwnerKeys : OwnerPurges(f, k)
  \/ \E r \in Recipients : CreateGrantReads(f, r)

RestoreStep(o) ==
  RestoreOpens(o) \/ RestoreProtects(o) \/ RestoreCommits(o) \/ RestoreEnds(o)

Next ==
  \/ \E f \in Files : FileStep(f)
  \/ \E g \in granting : CreateGrantCommits(g) \/ CreateGrantFails(g)
  \/ \E g \in grants : RevokeGrant(g)
  \/ \E o \in Restores : RestoreStep(o)
  \/ \E v \in cleanup : CleanupObject(v)
  \/ \E w \in Workers : WorkerStep(w)
  \/ Tick
  \/ Crash

Spec == Init /\ [][Next]_vars

(* The ticker runs the worker every minute for as long as the server is    *)
(* up, and a transaction that keeps being tried is not refused by the      *)
(* database for ever.  Users, administrators and the clock owe nothing.    *)
Fairness ==
  /\ WF_vars(WorkerStep(Scheduler))
  /\ \A f \in Files : SF_vars(WorkerPurges(Scheduler, f))

FairSpec == Spec /\ Fairness

----------------------------------------------------------------------------
(* Safety.                                                                 *)

TypeOK ==
  /\ now \in 0 .. MaxTime
  /\ purgeAfter \in [Files -> Instants \cup {Null}]
  /\ retention \in [Files -> (0 .. MaxTime) \cup {Null}]
  /\ held \subseteq Files /\ purged \subseteq Files
  /\ grants \subseteq Files \X Recipients /\ granting \subseteq Files \X Recipients
  /\ catalog \in [Files -> SUBSET Versions]
  /\ dek \in [Versions -> {"absent", "live", "destroyed"}]
  /\ blobs \subseteq Versions /\ cleanup \subseteq Versions
  /\ restoring \in [Restores -> {"idle", "opened", "protected"}]
  /\ ops \in [PurgeOps -> {"absent", "completed", "failed"}]
  /\ deletions \subseteq PurgeOps
  /\ batch \in [Workers -> SUBSET (Files \X Instants)]
  /\ failing \in [Workers -> SUBSET (Files \X Instants)]

(* Cryptographic deletion is all or nothing: the purge of a file destroys  *)
(* the key of every version its catalog holds, and nothing else ever does, *)
(* whatever restore, worker or owner request was under way (purge,         *)
(* commitRestore).                                                         *)
KeysGoWithTheFile ==
  \A f \in Files : \A v \in catalog[f] :
    dek[v] = IF f \in purged THEN "destroyed" ELSE "live"

(* A purged file is in Trash for good and shared with nobody, even if a    *)
(* grant slipped in after the move to Trash (purge revokes again).         *)
PurgedIsSealed ==
  \A f \in purged : Trashed(f) /\ \A g \in grants : g[1] # f

(* One success event per purged file and none for another, however many    *)
(* owner keys, worker runs, retries and lost replies met on it (the intent *)
(* is enqueued in the purge's own transaction); and an operation reads     *)
(* "completed" only if it is the one that destroyed the keys               *)
(* (deletion_operations against the outbox).                               *)
OneDeletionEvent ==
  /\ \A f \in Files : f \in purged <=> \E k \in PurgeKeys : <<f, k>> \in deletions
  /\ \A d, e \in deletions : d[1] = e[1] => d = e
  /\ \A o \in PurgeOps : ops[o] = "completed" => o \in deletions

(* A file outside permanent deletion can be opened: each catalogued version *)
(* still has its ciphertext (docs/file-lifecycle.md: no failure path makes *)
(* a file "restored" without all required artifacts).                      *)
CatalogReadable ==
  \A f \in Files \ purged : catalog[f] \subseteq blobs

(* At the instant keys are destroyed every gate stands open, whatever the  *)
(* worker saw when it listed the file.                                     *)
GatesHold ==
  [][\A f \in purged' \ purged :
       /\ purgeAfter[f] # Null /\ purgeAfter[f] <= now
       /\ f \notin held /\ retention[f] <= now]_vars

(* While a retention runs it is not shortened, the file neither enters     *)
(* Trash nor loses its keys (docs/recovery.md).                            *)
RetentionHonoured ==
  [][\A f \in Files : now < retention[f] =>
       /\ retention'[f] >= retention[f]
       /\ f \in purged' => f \in purged
       /\ purgeAfter'[f] # Null => purgeAfter[f] # Null]_vars

(* Nothing brings a purged file back or touches its record: it stays       *)
(* purged with the same versions, their keys gone (docs/file-lifecycle.md: *)
(* no state follows "purged").                                             *)
PurgedIsTerminal ==
  [][\A f \in purged :
       /\ f \in purged' /\ catalog'[f] = catalog[f]
       /\ \A v \in catalog[f] : dek'[v] = "destroyed"
       /\ purgeAfter'[f] = purgeAfter[f] /\ retention'[f] = retention[f]
       /\ f \in held' <=> f \in held]_vars

----------------------------------------------------------------------------
(* Liveness, under FairSpec.                                               *)

DueNow(f) ==
  /\ purgeAfter[f] # Null /\ purgeAfter[f] <= now /\ f \notin purged
  /\ f \notin held /\ retention[f] <= now

(* The worker deals with every due file: it is purged, or no longer due,   *)
(* or its scheduled operation is on record as failed (ProcessDuePurges).   *)
DueFileSettles ==
  \A f \in Files :
    DueNow(f) ~> \/ ~DueNow(f)
                 \/ ops[<<f, purgeAfter[f]>>] = "failed"

----------------------------------------------------------------------------
(* The code implements the promise made to the owner.                      *)

Phase(f) ==
  IF f \in purged THEN "purged" ELSE IF Trashed(f) THEN "trash" ELSE "active"

Readable(f) == {v \in catalog[f] : dek[v] = "live"}

Promise == INSTANCE DeletionPromise WITH
  Keys     <- Versions,
  phase    <- [f \in Files |-> Phase(f)],
  readable <- [f \in Files |-> Readable(f)],
  guarded  <- {f \in Files : Blocked(f)}

(* Every behaviour of the transactions, requests and workers above is one  *)
(* the promise allows.                                                     *)
PromiseKept == Promise!Spec

----------------------------------------------------------------------------
(* What the documents and comments claim and the code does not do.         *)

(* docs/file-lifecycle.md:63, a failed attempt remains eligible for retry: *)
(* a file that no gate protects does not stay due for ever.                *)
FailedDeletionIsRetried == \A f \in Files : ~<>[]DueNow(f)
=============================================================================
