------------------------------- MODULE Ingest -------------------------------
(***************************************************************************)
(* Upload ingestion (internal/ingest, Manager over the PostgreSQL          *)
(* repository): reception into quarantine, inspection, protection and      *)
(* cataloguing, with failing transactions, crashes and the recovery that   *)
(* NewManager performs at startup.                                         *)
(*                                                                         *)
(* An upload is named by its owner and idempotency key.  Each has one      *)
(* goroutine at most (the request that receives it, then inspect and       *)
(* protect); task says where it stands.  seen is what readers of the       *)
(* manager's memory are shown, row what PostgreSQL holds.  A transaction   *)
(* commits, fails, or (LostReplies) commits and is taken for failed.       *)
(* Abstracted: contents and sizes, beyond whether size_bytes was committed *)
(* and whether the quarantine object is whole; removing a file succeeds;   *)
(* reservations do not expire here.                                        *)
(***************************************************************************)
EXTENDS Naturals, FiniteSets

CONSTANTS
  Uploads,
  MaxCrashes,  \* bound: the server stops at most so often
  LostReplies  \* may a commit's reply be lost

ASSUME IngestAssumption == MaxCrashes \in Nat /\ LostReplies \in BOOLEAN

Pending  == {"quarantined", "inspecting", "accepted", "encrypting"}
Terminal == {"stored", "rejected", "failed"}
Statuses == Pending \cup Terminal

(* Where the goroutine of an upload stands.                                *)
Receiving == {"reserve", "stream", "receive", "finalize", "cleanup", "discard"}
Opening   == {"scan", "encrypt", "protect", "insert"}   \* needs the plaintext
Tasks     == {"none", "inspect", "catalog", "publish", "store",
              "fail", "remove", "release"} \cup Receiving \cup Opening

VARIABLES
  row,       \* securestore_uploads.status, or "none"
  sized,     \* rows whose size_bytes was committed
  reserved,  \* securestore_capacity_reservations
  file,      \* quarantine object: none, partial or whole
  seen,      \* Manager.uploads: status, or "none"
  task,      \* the upload's goroutine
  passed,    \* history: uploads the scanner accepted
  version,   \* protected version rows
  blobs,     \* their ciphertext objects
  stray,     \* ciphertext renamed into place, its row not inserted
  catalog,   \* catalogued files (RegisterInitial)
  todo,      \* rows NewManager has yet to look at; the server serves when {}
  crashes

records == <<row, sized, reserved>>
store   == <<passed, version, blobs, stray, catalog>>
server  == <<todo, crashes>>
vars    == <<records, file, seen, task, store, server>>

Init ==
  /\ row = [u \in Uploads |-> "none"] /\ sized = {} /\ reserved = {}
  /\ file = [u \in Uploads |-> "none"]
  /\ seen = [u \in Uploads |-> "none"] /\ task = [u \in Uploads |-> "none"]
  /\ passed = {} /\ version = {} /\ blobs = {} /\ stray = {} /\ catalog = {}
  /\ todo = {} /\ crashes = 0

Ready == todo = {}
At(u, t) == Ready /\ task[u] = t
Goto(u, t) == task' = [task EXCEPT ![u] = t]

(* How a transaction ends for its caller.                                  *)
Replies == {"ok", "failed"} \cup (IF LostReplies THEN {"lost"} ELSE {})
Committed(reply) == reply # "failed"

(* persistLifecycle: the status and its audit intent, in one transaction.  *)
Persist(u, s, reply, then, otherwise) ==
  /\ row' = IF Committed(reply) THEN [row EXCEPT ![u] = s] ELSE row
  /\ Goto(u, IF reply = "ok" THEN then ELSE otherwise)

----------------------------------------------------------------------------
(* Reception: Manager.create.                                              *)

(* The key is unknown to memory.  A row left from an earlier request is    *)
(* adopted as it is; nothing resumes its processing.                       *)
CreateRow(u) ==
  /\ At(u, "none") /\ seen[u] = "none"
  /\ \/ /\ row[u] = "none"
        /\ \E reply \in Replies : Persist(u, "quarantined", reply, "reserve", "none")
        /\ UNCHANGED seen
     \/ /\ row[u] # "none"
        /\ seen' = [seen EXCEPT ![u] = row[u]]
        /\ UNCHANGED <<row, task>>
  /\ UNCHANGED <<sized, reserved, file, store, server>>

(* Delete cascades to the reservation.                                     *)
DeleteRow(u) ==
  row' = [row EXCEPT ![u] = "none"] /\ sized' = sized \ {u} /\ reserved' = reserved \ {u}

(* ReserveCapacity; refused, its row is deleted and that error ignored.    *)
Reserve(u) ==
  /\ At(u, "reserve")
  /\ \/ /\ reserved' = reserved \cup {u} /\ UNCHANGED <<row, sized>>
        /\ seen' = [seen EXCEPT ![u] = "quarantined"]
        /\ Goto(u, "stream")
     \/ /\ \/ DeleteRow(u)
           \/ UNCHANGED records
           \/ LostReplies /\ reserved' = reserved \cup {u} /\ UNCHANGED <<row, sized>>
        /\ UNCHANGED seen
        /\ Goto(u, "none")
  /\ UNCHANGED <<file, store, server>>

Stream(u) ==
  /\ At(u, "stream")
  /\ \/ file' = [file EXCEPT ![u] = "partial"] /\ Goto(u, "receive")
     \/ UNCHANGED file /\ Goto(u, "cleanup")
  /\ UNCHANGED <<records, seen, store, server>>

(* The body arrives whole, or too short, too long, cut off or cancelled.   *)
Receive(u) ==
  /\ At(u, "receive")
  /\ \/ file' = [file EXCEPT ![u] = "whole"] /\ Goto(u, "finalize")
     \/ UNCHANGED file /\ Goto(u, "cleanup")
  /\ UNCHANGED <<records, seen, store, server>>

FinalizeReleasing(u) == \* fault: the reservation ends with the reception
  /\ At(u, "finalize")
  /\ \E reply \in Replies :
       /\ Persist(u, "quarantined", reply, "inspect", "cleanup")
       /\ sized' = IF Committed(reply) THEN sized \cup {u} ELSE sized
       /\ reserved' = IF reply = "ok" THEN reserved \ {u} ELSE reserved
  /\ UNCHANGED <<file, seen, store, server>>

Finalize(u) ==
  /\ At(u, "finalize")
  /\ \E reply \in Replies :
       /\ Persist(u, "quarantined", reply, "inspect", "cleanup")
       /\ sized' = IF Committed(reply) THEN sized \cup {u} ELSE sized
  /\ UNCHANGED <<reserved, file, seen, store, server>>

(* create's cleanup: the file, then the reservation and the row, whose     *)
(* errors are ignored, then memory.                                        *)
CleanupFile(u) ==
  /\ At(u, "cleanup")
  /\ file' = [file EXCEPT ![u] = "none"]
  /\ Goto(u, "discard")
  /\ UNCHANGED <<records, seen, store, server>>

CleanupRecords(u) ==
  /\ At(u, "discard")
  /\ \/ DeleteRow(u)
     \/ UNCHANGED <<row, sized>> /\ reserved' \in {reserved, reserved \ {u}}
  /\ seen' = [seen EXCEPT ![u] = "none"]
  /\ Goto(u, "none")
  /\ UNCHANGED <<file, store, server>>

----------------------------------------------------------------------------
(* Manager.inspect.                                                        *)

BeginUnrecorded(u) == \* fault: the start of an inspection is not persisted
  /\ At(u, "inspect")
  /\ seen' = [seen EXCEPT ![u] = "inspecting"]
  /\ Goto(u, "scan")
  /\ UNCHANGED <<records, file, store, server>>

BeginInspection(u) ==
  /\ At(u, "inspect")
  /\ seen' = [seen EXCEPT ![u] = "inspecting"]
  /\ \E reply \in Replies : Persist(u, "inspecting", reply, "scan", "fail")
  /\ UNCHANGED <<sized, reserved, file, store, server>>

(* The scanner accepts, rejects, or gives no answer in time; its verdict   *)
(* is committed before memory shows it.                                    *)
ConcludeInspection(u) ==
  /\ At(u, "scan")
  /\ \E verdict \in {"accepted", "rejected", "failed"}, reply \in Replies :
       /\ passed' = IF verdict = "accepted" THEN passed \cup {u} ELSE passed
       /\ Persist(u, verdict, reply, IF verdict = "accepted" THEN "encrypt" ELSE "remove",
                  "fail")
       /\ seen' = IF reply = "ok" THEN [seen EXCEPT ![u] = verdict] ELSE seen
  /\ UNCHANGED <<sized, reserved, file, version, blobs, stray, catalog, server>>

----------------------------------------------------------------------------
(* Manager.protect.                                                        *)

BeginProtection(u) ==
  /\ At(u, "encrypt")
  /\ seen' = [seen EXCEPT ![u] = "encrypting"]
  /\ \E reply \in Replies : Persist(u, "encrypting", reply, "protect", "fail")
  /\ UNCHANGED <<sized, reserved, file, store, server>>

(* Protect: an upload that has a version row is answered with it; else the *)
(* ciphertext is renamed into place.                                       *)
Protect(u) ==
  /\ At(u, "protect")
  /\ \/ /\ file[u] # "none" /\ u \in version
        /\ Goto(u, "catalog") /\ UNCHANGED stray
     \/ /\ file[u] = "whole" /\ u \notin version
        /\ stray' = stray \cup {u} /\ Goto(u, "insert")
     \/ Goto(u, "fail") /\ UNCHANGED stray
  /\ UNCHANGED <<records, file, seen, passed, version, blobs, catalog, server>>

(* Its row is inserted; an error removes the ciphertext, also when only    *)
(* the reply was lost.                                                     *)
InsertVersion(u) ==
  /\ At(u, "insert")
  /\ \E reply \in Replies :
       /\ version' = IF Committed(reply) THEN version \cup {u} ELSE version
       /\ blobs' = IF reply = "ok" THEN blobs \cup {u} ELSE blobs
       /\ Goto(u, IF reply = "ok" THEN "catalog" ELSE "fail")
  /\ stray' = stray \ {u}
  /\ UNCHANGED <<records, file, seen, passed, catalog, server>>

Catalog(u) ==
  /\ At(u, "catalog")
  /\ \E reply \in Replies :
       /\ catalog' = IF Committed(reply) THEN catalog \cup {u} ELSE catalog
       /\ Goto(u, IF reply = "ok" THEN "publish" ELSE "fail")
  /\ UNCHANGED <<records, file, seen, passed, version, blobs, stray, server>>

(* Memory shows "stored" first, then the row is updated.                   *)
PublishStored(u) ==
  /\ At(u, "publish")
  /\ seen' = [seen EXCEPT ![u] = "stored"]
  /\ Goto(u, "store")
  /\ UNCHANGED <<records, file, store, server>>

CommitStored(u) ==
  /\ At(u, "store")
  /\ \E reply \in Replies : Persist(u, "stored", reply, "remove", "fail")
  /\ UNCHANGED <<sized, reserved, file, seen, store, server>>

GiveUpKeeping(u) ==    \* fault: a failure keeps the plaintext for a retry
  /\ At(u, "fail")
  /\ seen' = [seen EXCEPT ![u] = "failed"]
  /\ row' \in {row, [row EXCEPT ![u] = "failed"]}
  /\ Goto(u, "release")
  /\ UNCHANGED <<sized, reserved, file, store, server>>

(* failProtection and failPersistence: memory shows the failure, and the   *)
(* row is updated if it can be.                                            *)
GiveUp(u) ==
  /\ At(u, "fail")
  /\ seen' = [seen EXCEPT ![u] = "failed"]
  /\ row' \in {row, [row EXCEPT ![u] = "failed"]}
  /\ Goto(u, "remove")
  /\ UNCHANGED <<sized, reserved, file, store, server>>

(* Every outcome ends with the removal of the plaintext and the release of *)
(* the reservation, whose error is ignored.                                *)
RemovePlaintext(u) ==
  /\ At(u, "remove")
  /\ file' = [file EXCEPT ![u] = "none"]
  /\ Goto(u, "release")
  /\ UNCHANGED <<records, seen, store, server>>

ReleaseCapacity(u) ==
  /\ At(u, "release")
  /\ reserved' \in {reserved, reserved \ {u}}
  /\ Goto(u, "none")
  /\ UNCHANGED <<row, sized, file, seen, store, server>>

----------------------------------------------------------------------------
(* The server stops, and starts again: NewManager looks at every row       *)
(* before anything else runs.  A failing transaction ends the startup, as  *)
(* a stop does.                                                            *)

Crash ==
  /\ crashes < MaxCrashes /\ crashes' = crashes + 1
  /\ seen' = [u \in Uploads |-> "none"] /\ task' = [u \in Uploads |-> "none"]
  /\ todo' = {u \in Uploads : row[u] # "none"}
  /\ UNCHANGED <<records, file, store>>

RecoverRow(u, s, then) ==
  /\ row' = [row EXCEPT ![u] = s] /\ seen' = [seen EXCEPT ![u] = s]
  /\ Goto(u, then)

IncompleteByFile(u) == \* fault: the object is looked at, not size_bytes
  row[u] = "quarantined" /\ file[u] = "none"

Incomplete(u) == row[u] = "quarantined" /\ u \notin sized

Missing(u) == row[u] \in Pending /\ ~Incomplete(u) /\ file[u] = "none"

ResumeInspected(u) ==  \* fault: an inspection that began counts as passed
  IF row[u] = "quarantined" THEN "inspect"
  ELSE IF row[u] \in Pending THEN "encrypt" ELSE "none"

ResumeInspection(u) == \* fault: interrupted protection is not resumed
  IF row[u] \in {"quarantined", "inspecting"} THEN "inspect" ELSE "none"

(* Where the goroutine of a recovered upload starts.                       *)
Resume(u) ==
  IF row[u] \in {"quarantined", "inspecting"} THEN "inspect"
  ELSE IF row[u] \in {"accepted", "encrypting"} THEN "encrypt" ELSE "none"

Recover(u) ==
  /\ u \in todo /\ todo' = todo \ {u}
  /\ \/ Incomplete(u) /\ RecoverRow(u, "failed", "remove")
     \/ Missing(u) /\ RecoverRow(u, "failed", "none")
     \/ ~Incomplete(u) /\ ~Missing(u) /\ RecoverRow(u, row[u], Resume(u))
  /\ UNCHANGED <<sized, reserved, file, store, crashes>>

Reception(u) ==
  Reserve(u) \/ Stream(u) \/ Receive(u) \/ Finalize(u) \/ CleanupFile(u) \/ CleanupRecords(u)

Processing(u) ==
  \/ BeginInspection(u) \/ ConcludeInspection(u)
  \/ BeginProtection(u) \/ Protect(u) \/ InsertVersion(u) \/ Catalog(u)
  \/ PublishStored(u) \/ CommitStored(u) \/ GiveUp(u)
  \/ RemovePlaintext(u) \/ ReleaseCapacity(u)

Next ==
  \/ \E u \in Uploads : CreateRow(u) \/ Reception(u) \/ Processing(u) \/ Recover(u)
  \/ Crash

Spec == Init /\ [][Next]_vars

(* A started server gets through its rows and its goroutines run on; it    *)
(* owes clients nothing (they may stop sending).                           *)
Fairness == \A u \in Uploads : WF_vars(Processing(u)) /\ WF_vars(Recover(u))
FairSpec == Spec /\ Fairness

----------------------------------------------------------------------------
(* Safety.                                                                 *)

TypeOK ==
  /\ row \in [Uploads -> Statuses \cup {"none"}]
  /\ seen \in [Uploads -> Statuses \cup {"none"}]
  /\ file \in [Uploads -> {"none", "partial", "whole"}]
  /\ task \in [Uploads -> Tasks]
  /\ sized \subseteq Uploads /\ reserved \subseteq Uploads /\ passed \subseteq Uploads
  /\ version \subseteq Uploads /\ blobs \subseteq Uploads /\ stray \subseteq Uploads
  /\ catalog \subseteq Uploads /\ todo \subseteq Uploads
  /\ crashes \in 0 .. MaxCrashes

(* What is recorded as stored, or found in the catalog, was accepted by    *)
(* the scanner, through any number of restarts; a stored upload has its    *)
(* version, ciphertext and catalog entry (protect, NewManager).            *)
StoredIsComplete ==
  /\ version \cup catalog \subseteq passed
  /\ catalog \subseteq version
  /\ \A u \in Uploads : row[u] = "stored" => u \in catalog \cap blobs

(* Only a body received whole, whose size is on record, reaches the        *)
(* scanner or the cipher, whatever a crash left in quarantine              *)
(* (docs/capacity-reservations.md:22).                                     *)
PartialNeverInspected ==
  \A u \in Uploads : task[u] \in {"inspect"} \cup Opening =>
    file[u] = "whole" /\ u \in sized

(* Quarantined plaintext, also what a crash left, stays charged to its     *)
(* owner: the reservation outlives it (the order in which create, inspect, *)
(* protect and NewManager remove and release).                             *)
PlaintextCharged ==
  \A u \in Uploads : file[u] # "none" => u \in reserved

(* Quarantine keeps plaintext that no goroutine and no later startup will  *)
(* remove.                                                                 *)
LeftBehind(u) ==
  Ready /\ task[u] = "none" /\ row[u] \in Terminal \cup {"none"} /\ file[u] # "none"

(* A server that has not crashed leaves no plaintext behind, whatever      *)
(* transactions fail (inspect, failProtection, failPersistence, create's   *)
(* cleanup; docs/architecture.md:90).                                      *)
PlaintextRemoved == crashes = 0 => \A u \in Uploads : ~LeftBehind(u)

(* Whatever crashes and whatever replies are lost, no content the scanner  *)
(* did not accept becomes a version, a catalog entry or a stored upload,   *)
(* and what is rejected on record became none (inspect, protect,           *)
(* NewManager).                                                            *)
NothingUnvetted ==
  \A u \in Uploads :
    /\ u \in version \cup catalog \/ row[u] = "stored" => u \in passed
    /\ row[u] = "rejected" => u \notin version \cup catalog

(* No upload received in full waits for nobody: it has a goroutine, or a   *)
(* startup is about to look at it, or memory shows its failure.            *)
NoneForgotten ==
  \A u \in Uploads :
    u \in sized /\ row[u] \in Pending =>
      task[u] # "none" \/ u \in todo \/ seen[u] = "failed"

(* The durable record of every upload follows the lifecycle.               *)
States == INSTANCE UploadStates WITH state <- row
RecordFollowsLifecycle == States!Spec

(* An outcome on record is final, and so is the content it speaks of.      *)
OutcomeIsFinal ==
  [][\A u \in Uploads : row[u] \in Terminal =>
       /\ row'[u] = row[u]
       /\ u \in catalog' <=> u \in catalog]_vars

(* A commit whose reply was lost is taken for failed, and the failure is   *)
(* written over the outcome (failProtection, failPersistence).             *)
Overwrite ==
  /\ LostReplies
  /\ \E u \in Uploads : row[u] \in {"stored", "rejected"} /\ row' = [row EXCEPT ![u] = "failed"]

(* Lost replies make the record depart from the lifecycle in that alone.   *)
OnlyFailureOverwrites == [][States!Next \/ Overwrite]_row

----------------------------------------------------------------------------
(* Liveness, under FairSpec.                                               *)

(* An upload received in full reaches an outcome on record, or memory      *)
(* shows its failure, through restarts (inspect, protect, NewManager).     *)
ReceivedSettles ==
  \A u \in Uploads :
    (u \in sized /\ row[u] \in Pending) ~>
      (row[u] \in Terminal \cup {"none"} \/ seen[u] = "failed")
=============================================================================
