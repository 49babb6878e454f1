----------------------------- MODULE Admission ------------------------------
(***************************************************************************)
(* Capacity admission and owner quotas (internal/ingest over PostgreSQL):  *)
(* several API processes admit uploads against one ledger of rows and      *)
(* reservations, each with its own memory of the owners' quotas.           *)
(*                                                                         *)
(* An upload is one attempt, named by its upload id; idempotency keys and  *)
(* the stages of inspection and protection are module Ingest's.  task says *)
(* where the goroutine of an upload stands on the server that received it; *)
(* "reserve" is inside Manager.mu of that server.  A reservation may lapse *)
(* at any time once made: the order in which deadlines pass depends on     *)
(* each process's clock.  Assumed: every process has a quarantine          *)
(* directory of its own.  Bytes are those declared: a body of another      *)
(* length is refused.                                                      *)
(***************************************************************************)
EXTENDS Naturals, FiniteSets

CONSTANTS
  Servers, Owners, Uploads,
  OwnerOf,      \* whose an upload is
  Bytes,        \* its declared size
  DefaultQuota, \* Config.DefaultOwnerQuotaBytes
  Overrides,    \* the quotas an administrator may choose
  Usable,       \* StorageCapacityBytes - StorageReserveBytes
  MaxUploads,   \* bound: uploads ever begun
  MaxCrashes,   \* bound: processes stop at most so often
  MaxChanges,   \* bound: quota changes committed
  None          \* no server yet

NoOverride == 0

ASSUME AdmissionAssumption ==
  /\ IsFiniteSet(Uploads)   \* their ids are of fixed length
  /\ OwnerOf \in [Uploads -> Owners]
  /\ Bytes \in [Uploads -> Nat \ {0}]
  /\ DefaultQuota \in Nat \ {0}
  /\ Overrides \subseteq Nat \ {0}
  /\ None \notin Servers
  /\ Usable \in Nat /\ MaxUploads \in Nat /\ MaxCrashes \in Nat /\ MaxChanges \in Nat

Pending  == {"quarantined", "processing"}
Statuses == Pending \cup {"absent", "stored", "ended", "deleted"}
Tasks    == {"none", "reserve", "receive", "cleanup", "process", "release"}

VARIABLES
  row,      \* securestore_uploads.status; "ended" is rejected or failed
  sized,    \* rows whose size_bytes is committed (it is 0 before)
  reserved, \* securestore_capacity_reservations
  expired,  \* those past expires_at
  quota,    \* securestore_owner_quotas
  home,     \* the server that received an upload, or None
  task,     \* its goroutine there
  file,     \* uploads whose quarantine object exists
  phase,    \* a server: down, starting (in NewManager) or up
  todo,     \* starting: <<upload, was it sized>> of LoadAll, not yet looked at
  resume,   \* starting: the uploads to resume
  cached,   \* Manager.ownerQuotas
  unsaved,  \* <<owner, quota>> committed, memory not yet updated
  crashes, changes,
  granted,  \* history: overrides ever recorded
  lapsed    \* history: uploads that lost their charge while in progress

ledger  == <<row, sized, reserved, expired>>
work    == <<home, task, file>>
servers == <<phase, todo, resume, crashes>>
quotas  == <<quota, cached, unsaved, changes, granted>>
vars    == <<ledger, work, servers, quotas, lapsed>>

Init ==
  /\ row = [u \in Uploads |-> "absent"]
  /\ sized = {} /\ reserved = {} /\ expired = {}
  /\ quota = [o \in Owners |-> NoOverride]
  /\ home = [u \in Uploads |-> None]
  /\ task = [u \in Uploads |-> "none"] /\ file = {}
  /\ phase = [s \in Servers |-> "up"]
  /\ todo = [s \in Servers |-> {}] /\ resume = [s \in Servers |-> {}]
  /\ cached = [s \in Servers |-> [o \in Owners |-> NoOverride]]
  /\ unsaved = [s \in Servers |-> {}]
  /\ crashes = 0 /\ changes = 0
  /\ granted = [o \in Owners |-> {NoOverride}]
  /\ lapsed = {}

At(u, t) == task[u] = t /\ phase[home[u]] = "up"
Goto(u, t) == task' = [task EXCEPT ![u] = t]

(* Manager.mu of a server is held across the whole admission.              *)
Locked(s) == \E u \in Uploads : home[u] = s /\ task[u] = "reserve"

----------------------------------------------------------------------------
(* The ledger, as the queries of ReserveCapacity see it.                   *)

Quota(override) == IF override = NoOverride THEN DefaultQuota ELSE override

ChargedAtRest(u, reservations) == \* fault: files in progress are not summed
  u \in reservations \/ (u \in sized /\ row[u] = "stored")

(* A reservation stands for its upload whatever the row says; without one, *)
(* a row counts its size_bytes until it is rejected or failed.             *)
ChargedAmong(u, reservations) ==
  u \in reservations \/ (u \in sized /\ row[u] \in Pending \cup {"stored"})

Charged(u) == ChargedAmong(u, reserved)

(* The bytes of the uploads U, counted one by one.                         *)
Units(U) == UNION {{u} \X (1 .. Bytes[u]) : u \in U}
Size(U)  == Cardinality(Units(U))

Charges(reservations, U) == Size({u \in U : ChargedAmong(u, reservations)})

OfOwner(o) == {u \in Uploads : OwnerOf[u] = o}

----------------------------------------------------------------------------
(* Manager.create.                                                         *)

(* The row comes first, so that its reservation can refer to it.  If only  *)
(* the reply is lost, the request ends and the row stays.                  *)
Create(s, u) ==
  /\ phase[s] = "up" /\ row[u] = "absent" /\ ~Locked(s)
  /\ Cardinality({v \in Uploads : row[v] # "absent"}) < MaxUploads
  /\ home' = [home EXCEPT ![u] = s]
  /\ row' = [row EXCEPT ![u] = "quarantined"]
  /\ task' \in {task, [task EXCEPT ![u] = "reserve"]}
  /\ UNCHANGED <<sized, reserved, expired, file, servers, quotas, lapsed>>

(* The transaction drops what has expired, then compares.                  *)
Live == reserved \ expired

FitsUnreserved(u) ==   \* fault: reservations are not counted
  LET o == OwnerOf[u] IN
  /\ Charges({}, OfOwner(o)) + Bytes[u] <= Quota(cached[home[u]][o])
  /\ Charges({}, Uploads) + Bytes[u] <= Usable

FitsOwnerOnly(u) ==    \* fault: the pool is compared for the owner alone
  LET o == OwnerOf[u] IN
  /\ Charges(Live, OfOwner(o)) + Bytes[u] <= Quota(cached[home[u]][o])
  /\ Charges(Live, OfOwner(o)) + Bytes[u] <= Usable

Fits(u) ==
  LET o == OwnerOf[u] IN
  /\ Charges(Live, OfOwner(o)) + Bytes[u] <= Quota(cached[home[u]][o])
  /\ Charges(Live, Uploads) + Bytes[u] <= Usable

(* The commit of ReserveCapacity.  What is dropped while its upload is     *)
(* still being received has nothing else to be charged by.                 *)
Reserved(u) ==
  /\ Fits(u)
  /\ reserved' = Live \cup {u} /\ expired' = {}
  /\ lapsed' = lapsed \cup ((reserved \cap expired) \ sized)

Admit(u) ==
  /\ At(u, "reserve")
  /\ Reserved(u)
  /\ file' = file \cup {u}
  /\ Goto(u, "receive")
  /\ UNCHANGED <<row, sized, home, servers, quotas>>

(* Refused, failed, or committed without a reply: the row is deleted, and  *)
(* that error is ignored.                                                  *)
Refuse(u) ==
  /\ At(u, "reserve")
  /\ \/ UNCHANGED <<row, reserved, expired, lapsed>>
     \/ /\ row' = [row EXCEPT ![u] = "deleted"]
        /\ UNCHANGED <<reserved, expired, lapsed>>
     \/ Reserved(u) /\ UNCHANGED row
     \/ /\ Fits(u) /\ row' = [row EXCEPT ![u] = "deleted"]
        /\ reserved' = Live /\ expired' = {}
        /\ lapsed' = lapsed \cup ((reserved \cap expired) \ sized)
  /\ Goto(u, "none")
  /\ UNCHANGED <<sized, home, file, servers, quotas>>

(* An update writes status and size by id, whatever the row holds.         *)
Write(u, s) == row' = [row EXCEPT ![u] = s] /\ sized' = sized \cup {u}

(* The body arrives whole and the row is given its size, or the body is    *)
(* too short, too long or cut off, or the update fails.  The reservation   *)
(* is not released here: it stands for the upload until its outcome.       *)
Receive(u) ==
  /\ At(u, "receive")
  /\ \/ Write(u, "quarantined") /\ Goto(u, "process")
     \/ Write(u, "quarantined") /\ Goto(u, "cleanup")
     \/ UNCHANGED <<row, sized>> /\ Goto(u, "cleanup")
  /\ UNCHANGED <<reserved, expired, home, file, servers, quotas, lapsed>>

Drop(u) == reserved' = reserved \ {u} /\ expired' = expired \ {u}

(* ReleaseCapacity, its error ignored.                                     *)
TryDrop(u) == Drop(u) \/ UNCHANGED <<reserved, expired>>

(* The errors of the release and of the deletion, which cascades to the    *)
(* reservation, are ignored.                                               *)
Cleanup(u) ==
  /\ At(u, "cleanup")
  /\ \/ /\ row' = [row EXCEPT ![u] = "deleted"] /\ sized' = sized \ {u}
        /\ Drop(u)
     \/ UNCHANGED <<row, sized>> /\ TryDrop(u)
  /\ file' = file \ {u}
  /\ Goto(u, "none")
  /\ UNCHANGED <<home, servers, quotas, lapsed>>

----------------------------------------------------------------------------
(* Manager.inspect and protect.                                            *)

Advance(u) ==
  /\ At(u, "process")
  /\ Write(u, "processing")
  /\ UNCHANGED <<reserved, expired, work, servers, quotas, lapsed>>

Conclude(u) ==
  /\ At(u, "process")
  /\ \E outcome \in {"stored", "ended"} : Write(u, outcome)
  /\ Goto(u, "release")
  /\ UNCHANGED <<reserved, expired, home, file, servers, quotas, lapsed>>

(* A transition that failed, or lost its reply; recording the failure may  *)
(* fail too.                                                               *)
GiveUp(u) ==
  /\ At(u, "process")
  /\ \/ \E s \in {"processing", "stored", "ended"} : Write(u, s)
     \/ UNCHANGED <<row, sized>>
  /\ Goto(u, "release")
  /\ UNCHANGED <<reserved, expired, home, file, servers, quotas, lapsed>>

(* The quarantine object is removed and the reservation released.          *)
Release(u) ==
  /\ At(u, "release")
  /\ TryDrop(u)
  /\ file' = file \ {u}
  /\ Goto(u, "none")
  /\ UNCHANGED <<row, sized, home, servers, quotas, lapsed>>

(* expires_at passes.                                                      *)
Expire(u) ==
  /\ u \in reserved \ expired
  /\ expired' = expired \cup {u}
  /\ UNCHANGED <<row, sized, reserved, work, servers, quotas, lapsed>>

----------------------------------------------------------------------------
(* Quota changes: the database first, then memory under Manager.mu.        *)

CommitQuotaUnchecked(s, o, q) == \* fault: memory follows also if nothing was committed
  /\ phase[s] = "up" /\ changes < MaxChanges
  /\ quota' \in {quota, [quota EXCEPT ![o] = q]}
  /\ granted' = [granted EXCEPT ![o] = @ \cup {quota'[o]}]
  /\ unsaved' = [unsaved EXCEPT ![s] = @ \cup {<<o, q>>}]
  /\ changes' = changes + 1
  /\ UNCHANGED <<ledger, work, servers, cached, lapsed>>

CommitQuota(s, o, q) ==
  /\ phase[s] = "up" /\ changes < MaxChanges
  /\ quota' = [quota EXCEPT ![o] = q]
  /\ granted' = [granted EXCEPT ![o] = @ \cup {q}]
  /\ unsaved' \in {unsaved, [unsaved EXCEPT ![s] = @ \cup {<<o, q>>}]}
  /\ changes' = changes + 1
  /\ UNCHANGED <<ledger, work, servers, cached, lapsed>>

ApplyQuota(s, o, q) ==
  /\ phase[s] = "up" /\ <<o, q>> \in unsaved[s] /\ ~Locked(s)
  /\ cached' = [cached EXCEPT ![s][o] = q]
  /\ unsaved' = [unsaved EXCEPT ![s] = @ \ {<<o, q>>}]
  /\ UNCHANGED <<ledger, work, servers, quota, changes, granted, lapsed>>

----------------------------------------------------------------------------
(* A process stops; NewManager brings it back.                             *)

Stop(s) ==
  /\ phase' = [phase EXCEPT ![s] = "down"]
  /\ todo' = [todo EXCEPT ![s] = {}] /\ resume' = [resume EXCEPT ![s] = {}]
  /\ cached' = [cached EXCEPT ![s] = [o \in Owners |-> NoOverride]]
  /\ unsaved' = [unsaved EXCEPT ![s] = {}]
  /\ task' = [u \in Uploads |-> IF home[u] = s THEN "none" ELSE task[u]]

Crash(s) ==
  /\ phase[s] # "down" /\ crashes < MaxCrashes /\ crashes' = crashes + 1
  /\ Stop(s)
  /\ UNCHANGED <<ledger, home, file, quota, changes, granted, lapsed>>

(* LoadAll and LoadQuotas.                                                 *)
Load(s) ==
  /\ phase[s] = "down"
  /\ phase' = [phase EXCEPT ![s] = "starting"]
  /\ todo' = [todo EXCEPT ![s] = {<<u, u \in sized>> : u \in {v \in Uploads : row[v] \in Pending}}]
  /\ cached' = [cached EXCEPT ![s] = quota]
  /\ UNCHANGED <<ledger, work, resume, crashes, quota, unsaved, changes, granted, lapsed>>

Taken(s, u, w) ==
  /\ phase[s] = "starting" /\ <<u, w>> \in todo[s] /\ row[u] # "deleted"
  /\ todo' = [todo EXCEPT ![s] = @ \ {<<u, w>>}]

(* The other process's upload loses its status, whatever it has reached.   *)
Reaped(s, u) == lapsed' = IF home[u] = s THEN lapsed ELSE lapsed \cup {u}

(* Loaded without a size: its reception was cut off.  The row as it was    *)
(* loaded is written back, size 0 included.                                *)
RecoverIncomplete(s, u) ==
  /\ Taken(s, u, FALSE)
  /\ row' = [row EXCEPT ![u] = "ended"] /\ sized' = sized \ {u}
  /\ TryDrop(u)
  /\ file' = IF home[u] = s THEN file \ {u} ELSE file
  /\ Reaped(s, u)
  /\ UNCHANGED <<home, task, phase, resume, crashes, quotas>>

(* Its quarantine object is not in this process's directory.               *)
RecoverMissing(s, u) ==
  /\ Taken(s, u, TRUE)
  /\ home[u] # s \/ u \notin file
  /\ Write(u, "ended")
  /\ Reaped(s, u)
  /\ UNCHANGED <<reserved, expired, work, phase, resume, crashes, quotas>>

RecoverPending(s, u) ==
  /\ Taken(s, u, TRUE)
  /\ home[u] = s /\ u \in file
  /\ resume' = [resume EXCEPT ![s] = @ \cup {u}]
  /\ UNCHANGED <<ledger, work, phase, crashes, quotas, lapsed>>

(* A failing update, or one that finds no row, ends the startup.           *)
FailStart(s) ==
  /\ phase[s] = "starting" /\ todo[s] # {}
  /\ Stop(s)
  /\ UNCHANGED <<ledger, home, file, crashes, quota, changes, granted, lapsed>>

Serve(s) ==
  /\ phase[s] = "starting" /\ todo[s] = {}
  /\ phase' = [phase EXCEPT ![s] = "up"]
  /\ task' = [u \in Uploads |-> IF u \in resume[s] THEN "process" ELSE task[u]]
  /\ resume' = [resume EXCEPT ![s] = {}]
  /\ UNCHANGED <<ledger, home, file, todo, crashes, quotas, lapsed>>

(* createUpload: what a request does once its row is made.                 *)
Request(u) == Admit(u) \/ Refuse(u) \/ Receive(u) \/ Cleanup(u)

Processing(u) == Advance(u) \/ Conclude(u) \/ GiveUp(u) \/ Release(u)

UpdateOwnerQuota(s, o) == \E q \in Overrides : CommitQuota(s, o, q) \/ ApplyQuota(s, o, q)

(* The default is not copied: the override goes.                           *)
ResetOwnerQuota(s, o) == CommitQuota(s, o, NoOverride) \/ ApplyQuota(s, o, NoOverride)

Recovery(s) ==
  \/ \E u \in Uploads : RecoverIncomplete(s, u) \/ RecoverMissing(s, u) \/ RecoverPending(s, u)
  \/ Load(s) \/ FailStart(s) \/ Serve(s)

Next ==
  \/ \E u \in Uploads : Request(u) \/ Processing(u) \/ Expire(u)
  \/ \E s \in Servers : Crash(s) \/ Recovery(s) \/ \E u \in Uploads : Create(s, u)
  \/ \E s \in Servers, o \in Owners : UpdateOwnerQuota(s, o) \/ ResetOwnerQuota(s, o)

Spec == Init /\ [][Next]_vars

----------------------------------------------------------------------------
(* Safety.                                                                 *)

TypeOK ==
  /\ row \in [Uploads -> Statuses]
  /\ sized \subseteq Uploads /\ reserved \subseteq Uploads /\ expired \subseteq Uploads
  /\ quota \in [Owners -> Overrides \cup {NoOverride}]
  /\ home \in [Uploads -> Servers \cup {None}]
  /\ task \in [Uploads -> Tasks] /\ file \subseteq Uploads
  /\ phase \in [Servers -> {"down", "starting", "up"}]
  /\ todo \in [Servers -> SUBSET (Uploads \X BOOLEAN)]
  /\ resume \in [Servers -> SUBSET Uploads]
  /\ cached \in [Servers -> [Owners -> Overrides \cup {NoOverride}]]
  /\ unsaved \in [Servers -> SUBSET (Owners \X (Overrides \cup {NoOverride}))]
  /\ crashes \in Nat /\ changes \in Nat
  /\ granted \in [Owners -> SUBSET (Overrides \cup {NoOverride})]
  /\ lapsed \subseteq Uploads

(* An upload that takes room: stored, or in quarantine with its outcome    *)
(* still open.                                                             *)
Holds(u) == row[u] = "stored" \/ (u \in file /\ row[u] # "ended")

(* From admission to its outcome, through stages, failures and restarts,   *)
(* an upload that takes room is charged: by its reservation while its row  *)
(* has no size (create), then by the row.  The two known lapses are named: *)
(* a reservation that expires during reception, and another process's      *)
(* startup.                                                                *)
ChargedThroughout == \A u \in Uploads : Holds(u) => Charged(u) \/ u \in lapsed

Held(U) == Size({u \in U : Holds(u)} \ lapsed)

(* Concurrent admissions on several processes, with quotas each remembers  *)
(* on its own, never let an owner hold more than some quota that was on    *)
(* record (ReserveCapacity under its advisory locks).                      *)
WithinQuota ==
  \A o \in Owners : \E q \in granted[o] : Held(OfOwner(o)) <= Quota(q)

(* Nor the owners together more than the pool less its reserve.            *)
WithinCapacity == Held(Uploads) <= Usable

(* A process admits by a quota that was on record: no change whose         *)
(* transaction failed reaches its memory (SetOwnerQuotaAudited,            *)
(* ResetOwnerQuotaAudited, LoadQuotas).                                    *)
QuotaOnRecord == \A s \in Servers, o \in Owners : cached[s][o] \in granted[o]

(* Several processes over one database admit as one ledger would, that     *)
(* takes uploads one at a time (ReserveCapacity under its advisory locks). *)
Promise == INSTANCE CapacityPromise WITH
  held    <- {u \in Uploads : Holds(u)} \ lapsed,
  offered <- [o \in Owners |-> {Quota(q) : q \in granted[o]}]

PromiseKept == Promise!Spec
=============================================================================
