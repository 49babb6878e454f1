---------------------------- MODULE IngestProofs ----------------------------
(***************************************************************************)
(* Theorems about Ingest, for any set of uploads, any number of crashes    *)
(* and, where nothing else is said, with or without lost commit replies.   *)
(*                                                                         *)
(* The invariant has seven parts: what reception leaves behind (Received), *)
(* who pays for it (Charged), how far an upload has come on its merits     *)
(* (Earned), what the row says while a goroutine stands at a given point   *)
(* (Recorded) and over a version that exists (Admitted), that until the    *)
(* server first stops only a goroutine keeps plaintext (Attended), and,    *)
(* without lost replies, that no upload waits for nobody (Pursued).        *)
(***************************************************************************)
EXTENDS Ingest, TLAPS

(* A size on record means a body received whole, until it is removed.      *)
Received(u) ==
  /\ u \in sized => row[u] # "none" /\ file[u] # "partial"
  /\ row[u] \in {"inspecting", "accepted", "encrypting"} => u \in sized
  /\ task[u] \in {"reserve", "stream", "receive"} => u \notin sized
  /\ task[u] = "finalize" => file[u] = "whole"
  /\ task[u] \in {"inspect"} \cup Opening => file[u] = "whole" /\ u \in sized

(* A reservation precedes the quarantine object and is released after it.  *)
Charged(u) ==
  /\ file[u] # "none" => u \in reserved
  /\ task[u] \in {"stream", "receive"} => u \in reserved
  /\ task[u] \in {"reserve", "stream", "receive"} => row[u] # "none"
  /\ task[u] \in {"reserve", "discard", "release"} \/ row[u] = "none" => file[u] = "none"

(* Nothing is claimed before it was done: verdict, version, catalog entry. *)
Earned(u) ==
  /\ row[u] \in {"accepted", "encrypting", "stored"} => u \in passed
  /\ task[u] \in {"encrypt", "protect", "insert", "catalog"} => u \in passed
  /\ u \in version => u \in passed
  /\ task[u] = "catalog" \/ u \in catalog => u \in version
  /\ task[u] \in {"publish", "store"} \/ row[u] = "stored" => u \in catalog
  /\ ~LostReplies /\ u \in version => u \in blobs

(* What the row can say while the goroutine stands at t.                   *)
Expected(t) ==
  CASE t \in Receiving -> {"quarantined"}
    [] t = "inspect"   -> {"quarantined", "inspecting"}
    [] t = "scan"      -> {"inspecting"}
    [] t = "encrypt"   -> {"accepted", "encrypting"}
    [] t \in {"protect", "insert", "catalog", "publish", "store"} -> {"encrypting"}
    [] t = "fail"      -> IF LostReplies THEN Statuses ELSE Pending
    [] OTHER           -> Statuses \cup {"none"}

Recorded(u) == row[u] \in Expected(task[u])

(* A version is made of accepted content only, and its upload is never     *)
(* taken for another one.                                                  *)
Admitted(u) == u \in version => row[u] \in {"encrypting", "stored", "failed"}

(* A body received in full is worked on or will be looked at by the        *)
(* startup under way, until it has an outcome or readers were told of its  *)
(* failure.                                                                *)
Waits(u)   == u \in sized /\ row[u] \in Pending
Pursued(u) ==
  /\ task[u] \in Receiving => u \notin sized
  /\ task[u] \in {"remove", "release"} => row[u] \in Terminal \/ seen[u] = "failed"
  /\ Waits(u) /\ task[u] = "none" => u \in todo \/ seen[u] = "failed"

(* Whose plaintext is in quarantine has a goroutine that will remove it.   *)
Attended ==
  crashes = 0 => todo = {} /\ \A u \in Uploads : task[u] = "none" => file[u] = "none"

IInv ==
  /\ TypeOK
  /\ \A u \in Uploads : Received(u) /\ Charged(u) /\ Earned(u) /\ Recorded(u) /\ Admitted(u)
  /\ Attended
  /\ ~LostReplies => \A u \in Uploads : Pursued(u)
----------------------------------------------------------------------------
(* Types.                                                                  *)

LEMMA TypeStep == ASSUME TypeOK, [Next]_vars PROVE TypeOK'
<1> USE IngestAssumption DEF TypeOK, vars, records, store, server, At, Ready, Goto,
        Tasks, Receiving, Opening, Statuses, Pending, Terminal
<1>1. ASSUME NEW u \in Uploads, CreateRow(u) PROVE TypeOK'
  BY <1>1 DEF CreateRow, Persist
<1>2. ASSUME NEW u \in Uploads, Reception(u) PROVE TypeOK'
  BY <1>2 DEF Reception, Reserve, Stream, Receive, Finalize, CleanupFile, CleanupRecords,
              DeleteRow, Persist
<1>3. ASSUME NEW u \in Uploads, Processing(u) PROVE TypeOK'
  <2>1. CASE BeginInspection(u) \/ BeginProtection(u) \/ PublishStored(u) \/ CommitStored(u)
    BY <2>1 DEF BeginInspection, BeginProtection, PublishStored, CommitStored, Persist
  <2>2. CASE ConcludeInspection(u)
    BY <2>2 DEF ConcludeInspection, Persist
  <2>3. CASE Protect(u) \/ InsertVersion(u) \/ Catalog(u)
    BY <2>3 DEF Protect, InsertVersion, Catalog
  <2>4. CASE GiveUp(u) \/ RemovePlaintext(u) \/ ReleaseCapacity(u)
    BY <2>4 DEF GiveUp, RemovePlaintext, ReleaseCapacity
  <2> QED BY <1>3, <2>1, <2>2, <2>3, <2>4 DEF Processing
<1>4. ASSUME NEW u \in Uploads, Recover(u) PROVE TypeOK'
  BY <1>4 DEF Recover, RecoverRow, Resume
<1>5. ASSUME Crash PROVE TypeOK'
  BY <1>5 DEF Crash
<1>6. ASSUME UNCHANGED vars PROVE TypeOK'
  BY <1>6
<1> QED BY <1>1, <1>2, <1>3, <1>4, <1>5, <1>6 DEF Next

(* Every variable keeps its type (the columns and maps of ingest).         *)
THEOREM Typing == Spec => []TypeOK
<1>1. Init => TypeOK
  BY IngestAssumption DEF Init, TypeOK, Statuses, Tasks
<1>2. TypeOK /\ [Next]_vars => TypeOK'
  BY TypeStep
<1> QED BY <1>1, <1>2, PTL DEF Spec

----------------------------------------------------------------------------
(* Reception: what reaches the scanner is whole.                           *)

LEMMA ReceivedStep ==
  ASSUME TypeOK, \A u \in Uploads : Received(u), [Next]_vars
  PROVE  \A u \in Uploads : Received(u)'
<1> USE DEF TypeOK, Received, vars, records, store, server, At, Ready, Goto, Receiving, Opening
<1> SUFFICES ASSUME NEW w \in Uploads PROVE Received(w)'
  OBVIOUS
<1>1. ASSUME NEW u \in Uploads, CreateRow(u) PROVE Received(w)'
  BY <1>1 DEF CreateRow, Persist
<1>2. ASSUME NEW u \in Uploads, Reception(u) PROVE Received(w)'
  <2>1. CASE Reserve(u) \/ Stream(u) \/ Receive(u)
    BY <2>1 DEF Reserve, Stream, Receive, DeleteRow
  <2>2. CASE Finalize(u)
    BY <2>2 DEF Finalize, Persist, Replies, Committed
  <2>3. CASE CleanupFile(u) \/ CleanupRecords(u)
    BY <2>3 DEF CleanupFile, CleanupRecords, DeleteRow
  <2> QED BY <1>2, <2>1, <2>2, <2>3 DEF Reception
<1>3. ASSUME NEW u \in Uploads, Processing(u) PROVE Received(w)'
  <2>1. CASE BeginInspection(u) \/ BeginProtection(u) \/ PublishStored(u) \/ CommitStored(u)
    BY <2>1 DEF BeginInspection, BeginProtection, PublishStored, CommitStored, Persist
  <2>2. CASE ConcludeInspection(u)
    BY <2>2 DEF ConcludeInspection, Persist
  <2>3. CASE Protect(u) \/ InsertVersion(u) \/ Catalog(u)
    BY <2>3 DEF Protect, InsertVersion, Catalog
  <2>4. CASE GiveUp(u) \/ RemovePlaintext(u) \/ ReleaseCapacity(u)
    BY <2>4 DEF GiveUp, RemovePlaintext, ReleaseCapacity
  <2> QED BY <1>3, <2>1, <2>2, <2>3, <2>4 DEF Processing
<1>4. ASSUME NEW u \in Uploads, Recover(u) PROVE Received(w)'
  BY <1>4 DEF Recover, RecoverRow, Resume, Incomplete, Missing, Pending, Statuses, Terminal
<1>5. ASSUME Crash PROVE Received(w)'
  BY <1>5 DEF Crash
<1>6. ASSUME UNCHANGED vars PROVE Received(w)'
  BY <1>6
<1> QED BY <1>1, <1>2, <1>3, <1>4, <1>5, <1>6 DEF Next

----------------------------------------------------------------------------
(* Accounting: what is in quarantine is paid for.                          *)

LEMMA ChargedStep ==
  ASSUME TypeOK, \A u \in Uploads : Charged(u), [Next]_vars
  PROVE  \A u \in Uploads : Charged(u)'
<1> USE DEF TypeOK, Charged, vars, records, store, server, At, Ready, Goto
<1> SUFFICES ASSUME NEW w \in Uploads PROVE Charged(w)'
  OBVIOUS
<1>1. ASSUME NEW u \in Uploads, CreateRow(u) PROVE Charged(w)'
  BY <1>1 DEF CreateRow, Persist, Replies, Committed
<1>2. ASSUME NEW u \in Uploads, Reception(u) PROVE Charged(w)'
  <2>1. CASE Reserve(u) \/ Stream(u) \/ Receive(u)
    BY <2>1 DEF Reserve, Stream, Receive, DeleteRow
  <2>2. CASE Finalize(u)
    BY <2>2 DEF Finalize, Persist, Replies, Committed
  <2>3. CASE CleanupFile(u) \/ CleanupRecords(u)
    BY <2>3 DEF CleanupFile, CleanupRecords, DeleteRow
  <2> QED BY <1>2, <2>1, <2>2, <2>3 DEF Reception
<1>3. ASSUME NEW u \in Uploads, Processing(u) PROVE Charged(w)'
  <2>1. CASE BeginInspection(u) \/ BeginProtection(u) \/ PublishStored(u) \/ CommitStored(u)
    BY <2>1 DEF BeginInspection, BeginProtection, PublishStored, CommitStored, Persist
  <2>2. CASE ConcludeInspection(u)
    BY <2>2 DEF ConcludeInspection, Persist
  <2>3. CASE Protect(u) \/ InsertVersion(u) \/ Catalog(u)
    BY <2>3 DEF Protect, InsertVersion, Catalog
  <2>4. CASE GiveUp(u) \/ RemovePlaintext(u) \/ ReleaseCapacity(u)
    BY <2>4 DEF GiveUp, RemovePlaintext, ReleaseCapacity
  <2> QED BY <1>3, <2>1, <2>2, <2>3, <2>4 DEF Processing
<1>4. ASSUME NEW u \in Uploads, Recover(u) PROVE Charged(w)'
  BY <1>4 DEF Recover, RecoverRow, Resume, Incomplete, Missing
<1>5. ASSUME Crash PROVE Charged(w)'
  BY <1>5 DEF Crash
<1>6. ASSUME UNCHANGED vars PROVE Charged(w)'
  BY <1>6
<1> QED BY <1>1, <1>2, <1>3, <1>4, <1>5, <1>6 DEF Next

----------------------------------------------------------------------------
(* Merit: nothing is claimed that was not done.                            *)

LEMMA EarnedStep ==
  ASSUME TypeOK, \A u \in Uploads : Earned(u), [Next]_vars
  PROVE  \A u \in Uploads : Earned(u)'
<1> USE DEF TypeOK, Earned, vars, records, store, server, At, Ready, Goto
<1> SUFFICES ASSUME NEW w \in Uploads PROVE Earned(w)'
  OBVIOUS
<1>1. ASSUME NEW u \in Uploads, CreateRow(u) PROVE Earned(w)'
  BY <1>1 DEF CreateRow, Persist
<1>2. ASSUME NEW u \in Uploads, Reception(u) PROVE Earned(w)'
  <2>1. CASE Reserve(u) \/ Stream(u) \/ Receive(u)
    BY <2>1 DEF Reserve, Stream, Receive, DeleteRow
  <2>2. CASE Finalize(u)
    BY <2>2 DEF Finalize, Persist
  <2>3. CASE CleanupFile(u) \/ CleanupRecords(u)
    BY <2>3 DEF CleanupFile, CleanupRecords, DeleteRow
  <2> QED BY <1>2, <2>1, <2>2, <2>3 DEF Reception
<1>3. ASSUME NEW u \in Uploads, Processing(u) PROVE Earned(w)'
  <2>1. CASE BeginInspection(u) \/ BeginProtection(u) \/ PublishStored(u) \/ CommitStored(u)
    BY <2>1 DEF BeginInspection, BeginProtection, PublishStored, CommitStored, Persist
  <2>2. CASE ConcludeInspection(u)
    BY <2>2 DEF ConcludeInspection, Persist
  <2>3. CASE Protect(u)
    BY <2>3 DEF Protect
  <2>4. CASE InsertVersion(u)
    BY <2>4 DEF InsertVersion, Replies, Committed
  <2>5. CASE Catalog(u)
    BY <2>5 DEF Catalog, Replies, Committed
  <2>6. CASE GiveUp(u) \/ RemovePlaintext(u) \/ ReleaseCapacity(u)
    BY <2>6 DEF GiveUp, RemovePlaintext, ReleaseCapacity
  <2> QED BY <1>3, <2>1, <2>2, <2>3, <2>4, <2>5, <2>6 DEF Processing
<1>4. ASSUME NEW u \in Uploads, Recover(u) PROVE Earned(w)'
  BY <1>4 DEF Recover, RecoverRow, Resume
<1>5. ASSUME Crash PROVE Earned(w)'
  BY <1>5 DEF Crash
<1>6. ASSUME UNCHANGED vars PROVE Earned(w)'
  BY <1>6
<1> QED BY <1>1, <1>2, <1>3, <1>4, <1>5, <1>6 DEF Next

----------------------------------------------------------------------------
(* The record: each transition finds the state it expects; only a failure  *)
(* after a commit whose reply was lost may meet an outcome.                *)

LEMMA RecordedStep ==
  ASSUME TypeOK, \A u \in Uploads : Recorded(u), [Next]_vars
  PROVE  \A u \in Uploads : Recorded(u)'
<1> USE DEF TypeOK, Recorded, Expected, Receiving, Pending, Statuses, Terminal,
        vars, records, store, server, At, Ready, Goto
<1> SUFFICES ASSUME NEW w \in Uploads PROVE Recorded(w)'
  OBVIOUS
<1>1. ASSUME NEW u \in Uploads, CreateRow(u) PROVE Recorded(w)'
  BY <1>1 DEF CreateRow, Persist, Replies, Committed
<1>2. ASSUME NEW u \in Uploads, Reception(u) PROVE Recorded(w)'
  <2>1. CASE Reserve(u) \/ Stream(u) \/ Receive(u)
    BY <2>1 DEF Reserve, Stream, Receive, DeleteRow
  <2>2. CASE Finalize(u)
    BY <2>2 DEF Finalize, Persist, Replies, Committed
  <2>3. CASE CleanupFile(u) \/ CleanupRecords(u)
    BY <2>3 DEF CleanupFile, CleanupRecords, DeleteRow
  <2> QED BY <1>2, <2>1, <2>2, <2>3 DEF Reception
<1>3. ASSUME NEW u \in Uploads, Processing(u) PROVE Recorded(w)'
  <2>1. CASE BeginInspection(u) \/ BeginProtection(u)
    BY <2>1 DEF BeginInspection, BeginProtection, Persist, Replies, Committed
  <2>2. CASE PublishStored(u) \/ CommitStored(u)
    BY <2>2 DEF PublishStored, CommitStored, Persist, Replies, Committed
  <2>3. CASE ConcludeInspection(u)
    BY <2>3 DEF ConcludeInspection, Persist, Replies, Committed
  <2>4. CASE Protect(u) \/ InsertVersion(u) \/ Catalog(u)
    BY <2>4 DEF Protect, InsertVersion, Catalog
  <2>5. CASE GiveUp(u) \/ RemovePlaintext(u) \/ ReleaseCapacity(u)
    BY <2>5 DEF GiveUp, RemovePlaintext, ReleaseCapacity
  <2> QED BY <1>3, <2>1, <2>2, <2>3, <2>4, <2>5 DEF Processing
<1>4. ASSUME NEW u \in Uploads, Recover(u) PROVE Recorded(w)'
  BY <1>4 DEF Recover, RecoverRow, Resume, Incomplete, Missing
<1>5. ASSUME Crash PROVE Recorded(w)'
  BY <1>5 DEF Crash
<1>6. ASSUME UNCHANGED vars PROVE Recorded(w)'
  BY <1>6
<1> QED BY <1>1, <1>2, <1>3, <1>4, <1>5, <1>6 DEF Next

----------------------------------------------------------------------------
(* Versions: nothing reaches a row that has one but its storing or its     *)
(* failure.                                                                *)

LEMMA AdmittedStep ==
  ASSUME TypeOK, \A u \in Uploads : Recorded(u) /\ Admitted(u), [Next]_vars
  PROVE  \A u \in Uploads : Admitted(u)'
<1> USE DEF TypeOK, Admitted, vars, records, store, server, At, Ready, Goto
<1>0. \A u \in Uploads :
        /\ task[u] \in Receiving => row[u] = "quarantined"
        /\ task[u] = "inspect" => row[u] \in {"quarantined", "inspecting"}
        /\ task[u] = "scan" => row[u] = "inspecting"
        /\ task[u] = "encrypt" => row[u] \in {"accepted", "encrypting"}
        /\ task[u] \in {"protect", "insert", "store"} => row[u] = "encrypting"
  BY DEF Recorded, Expected, Receiving
<1> SUFFICES ASSUME NEW w \in Uploads PROVE Admitted(w)'
  OBVIOUS
<1>1. ASSUME NEW u \in Uploads, CreateRow(u) PROVE Admitted(w)'
  BY <1>1 DEF CreateRow, Persist
<1>2. ASSUME NEW u \in Uploads, Reception(u) PROVE Admitted(w)'
  <2>1. CASE Reserve(u) \/ Stream(u) \/ Receive(u)
    BY <1>0, <2>1 DEF Reserve, Stream, Receive, DeleteRow, Receiving
  <2>2. CASE Finalize(u)
    BY <1>0, <2>2 DEF Finalize, Persist, Receiving
  <2>3. CASE CleanupFile(u) \/ CleanupRecords(u)
    BY <1>0, <2>3 DEF CleanupFile, CleanupRecords, DeleteRow, Receiving
  <2> QED BY <1>2, <2>1, <2>2, <2>3 DEF Reception
<1>3. ASSUME NEW u \in Uploads, Processing(u) PROVE Admitted(w)'
  <2>1. CASE BeginInspection(u) \/ BeginProtection(u)
    BY <1>0, <2>1 DEF BeginInspection, BeginProtection, Persist
  <2>2. CASE PublishStored(u) \/ CommitStored(u)
    BY <2>2 DEF PublishStored, CommitStored, Persist
  <2>3. CASE ConcludeInspection(u)
    BY <1>0, <2>3 DEF ConcludeInspection, Persist
  <2>4. CASE Protect(u) \/ InsertVersion(u) \/ Catalog(u)
    BY <1>0, <2>4 DEF Protect, InsertVersion, Catalog
  <2>5. CASE GiveUp(u) \/ RemovePlaintext(u) \/ ReleaseCapacity(u)
    BY <2>5 DEF GiveUp, RemovePlaintext, ReleaseCapacity
  <2> QED BY <1>3, <2>1, <2>2, <2>3, <2>4, <2>5 DEF Processing
<1>4. ASSUME NEW u \in Uploads, Recover(u) PROVE Admitted(w)'
  BY <1>4 DEF Recover, RecoverRow
<1>5. ASSUME Crash PROVE Admitted(w)'
  BY <1>5 DEF Crash
<1>6. ASSUME UNCHANGED vars PROVE Admitted(w)'
  BY <1>6
<1> QED BY <1>1, <1>2, <1>3, <1>4, <1>5, <1>6 DEF Next

----------------------------------------------------------------------------
(* Pursuit: no goroutine ends, and no startup does, with an upload waiting *)
(* unannounced.                                                            *)

LEMMA PursuedStep ==
  ASSUME TypeOK, ~LostReplies, \A u \in Uploads : Received(u) /\ Pursued(u), [Next]_vars
  PROVE  \A u \in Uploads : Pursued(u)'
<1> USE DEF TypeOK, Pursued, Waits, vars, records, store, server, At, Ready, Goto, Receiving,
        Pending, Terminal
<1>0. \A u \in Uploads : u \in sized => row[u] # "none"
  BY DEF Received
<1> SUFFICES ASSUME NEW w \in Uploads PROVE Pursued(w)'
  OBVIOUS
<1>1. ASSUME NEW u \in Uploads, CreateRow(u) PROVE Pursued(w)'
  BY <1>0, <1>1 DEF CreateRow, Persist, Replies, Committed
<1>2. ASSUME NEW u \in Uploads, Reception(u) PROVE Pursued(w)'
  <2>1. CASE Reserve(u) \/ Stream(u) \/ Receive(u)
    BY <2>1 DEF Reserve, Stream, Receive, DeleteRow
  <2>2. CASE Finalize(u)
    BY <2>2 DEF Finalize, Persist, Replies, Committed
  <2>3. CASE CleanupFile(u) \/ CleanupRecords(u)
    BY <2>3 DEF CleanupFile, CleanupRecords, DeleteRow
  <2> QED BY <1>2, <2>1, <2>2, <2>3 DEF Reception
<1>3. ASSUME NEW u \in Uploads, Processing(u) PROVE Pursued(w)'
  <2>1. CASE BeginInspection(u) \/ BeginProtection(u)
    BY <2>1 DEF BeginInspection, BeginProtection, Persist, Replies, Committed
  <2>2. CASE PublishStored(u) \/ CommitStored(u)
    BY <2>2 DEF PublishStored, CommitStored, Persist, Replies, Committed
  <2>3. CASE ConcludeInspection(u)
    BY <2>3 DEF ConcludeInspection, Persist, Replies, Committed
  <2>4. CASE Protect(u) \/ InsertVersion(u) \/ Catalog(u)
    BY <2>4 DEF Protect, InsertVersion, Catalog
  <2>5. CASE GiveUp(u) \/ RemovePlaintext(u) \/ ReleaseCapacity(u)
    BY <2>5 DEF GiveUp, RemovePlaintext, ReleaseCapacity
  <2> QED BY <1>3, <2>1, <2>2, <2>3, <2>4, <2>5 DEF Processing
<1>4. ASSUME NEW u \in Uploads, Recover(u) PROVE Pursued(w)'
  <2>1. task'[u] = "none" => row'[u] \in Terminal \cup {"none"}
    BY <1>4 DEF Recover, RecoverRow, Resume, Incomplete, Missing, Statuses
  <2>2. task'[u] = "remove" => row'[u] \in Terminal
    BY <1>4 DEF Recover, RecoverRow, Resume
  <2>3. task'[u] \notin Receiving \cup {"release"}
    BY <1>4 DEF Recover, RecoverRow, Resume
  <2>4. /\ UNCHANGED sized
        /\ \A v \in Uploads \ {u} : /\ row'[v] = row[v] /\ seen'[v] = seen[v] /\ task'[v] = task[v]
                                    /\ v \in todo => v \in todo'
    BY <1>4 DEF Recover, RecoverRow
  <2>5. CASE w = u
    BY <2>1, <2>2, <2>3, <2>5
  <2>6. CASE w # u
    BY <2>4, <2>6
  <2> QED BY <2>5, <2>6
<1>5. ASSUME Crash PROVE Pursued(w)'
  BY <1>5 DEF Crash
<1>6. ASSUME UNCHANGED vars PROVE Pursued(w)'
  BY <1>6
<1> QED BY <1>1, <1>2, <1>3, <1>4, <1>5, <1>6 DEF Next

----------------------------------------------------------------------------
(* Removal: a goroutine ends only where its upload has no plaintext.       *)

LEMMA AttendedStep ==
  ASSUME TypeOK, \A u \in Uploads : Charged(u), Attended, [Next]_vars
  PROVE  Attended'
<1> USE DEF TypeOK, Charged, vars, records, store, server, At, Ready, Goto
<1> SUFFICES ASSUME crashes' = 0
             PROVE  todo' = {} /\ \A w \in Uploads : task'[w] = "none" => file'[w] = "none"
  BY DEF Attended
<1>0. ~Crash
  BY DEF Crash
<1>1. crashes = 0 /\ todo = {} /\ \A w \in Uploads : task[w] = "none" => file[w] = "none"
  <2>1. crashes' = crashes
    BY <1>0 DEF Next, CreateRow, Reception, Reserve, Stream, Receive, Finalize, CleanupFile,
       CleanupRecords, Processing, BeginInspection, ConcludeInspection, BeginProtection,
       Protect, InsertVersion, Catalog, PublishStored, CommitStored, GiveUp,
       RemovePlaintext, ReleaseCapacity, Recover
  <2> QED BY <2>1 DEF Attended
<1>2. ASSUME NEW u \in Uploads, Recover(u) PROVE FALSE
  BY <1>1, <1>2 DEF Recover
<1> SUFFICES ASSUME NEW w \in Uploads, task'[w] = "none" PROVE todo' = {} /\ file'[w] = "none"
  <2>1. todo' = {}
    BY <1>0, <1>1, <1>2 DEF Next, CreateRow, Reception, Reserve, Stream, Receive, Finalize,
       CleanupFile, CleanupRecords, Processing, BeginInspection, ConcludeInspection,
       BeginProtection, Protect, InsertVersion, Catalog, PublishStored, CommitStored, GiveUp,
       RemovePlaintext, ReleaseCapacity
  <2> QED BY <2>1
<1>3. ASSUME NEW u \in Uploads, CreateRow(u) PROVE todo' = {} /\ file'[w] = "none"
  BY <1>1, <1>3 DEF CreateRow, Persist
<1>4. ASSUME NEW u \in Uploads, Reception(u) PROVE todo' = {} /\ file'[w] = "none"
  <2>1. CASE Reserve(u) \/ Stream(u) \/ Receive(u)
    BY <1>1, <2>1 DEF Reserve, Stream, Receive
  <2>2. CASE Finalize(u)
    BY <1>1, <2>2 DEF Finalize, Persist
  <2>3. CASE CleanupFile(u) \/ CleanupRecords(u)
    BY <1>1, <2>3 DEF CleanupFile, CleanupRecords
  <2> QED BY <1>4, <2>1, <2>2, <2>3 DEF Reception
<1>5. ASSUME NEW u \in Uploads, Processing(u) PROVE todo' = {} /\ file'[w] = "none"
  <2>1. CASE BeginInspection(u) \/ BeginProtection(u) \/ PublishStored(u) \/ CommitStored(u)
    BY <1>1, <2>1 DEF BeginInspection, BeginProtection, PublishStored, CommitStored, Persist
  <2>2. CASE ConcludeInspection(u)
    BY <1>1, <2>2 DEF ConcludeInspection, Persist
  <2>3. CASE Protect(u) \/ InsertVersion(u) \/ Catalog(u)
    BY <1>1, <2>3 DEF Protect, InsertVersion, Catalog
  <2>4. CASE GiveUp(u) \/ RemovePlaintext(u) \/ ReleaseCapacity(u)
    BY <1>1, <2>4 DEF GiveUp, RemovePlaintext, ReleaseCapacity
  <2> QED BY <1>5, <2>1, <2>2, <2>3, <2>4 DEF Processing
<1>6. CASE UNCHANGED vars
  BY <1>1, <1>6
<1> QED BY <1>0, <1>2, <1>3, <1>4, <1>5, <1>6 DEF Next

----------------------------------------------------------------------------
(* The inductive invariant, and the properties it implies.                 *)

(* All parts hold together in every reachable state.                       *)
THEOREM Invariance == Spec => []IInv
<1>1. Init => IInv
  <2> SUFFICES ASSUME Init PROVE IInv
    OBVIOUS
  <2>1. TypeOK
    BY IngestAssumption DEF Init, TypeOK, Statuses, Tasks
  <2>2. ASSUME NEW u \in Uploads PROVE Received(u) /\ Charged(u) /\ Earned(u) /\ Recorded(u)
    BY DEF Init, Received, Charged, Earned, Recorded, Expected, Receiving, Opening
  <2>4. ASSUME NEW u \in Uploads PROVE Admitted(u) /\ Pursued(u)
    BY DEF Init, Admitted, Pursued, Waits, Receiving
  <2>3. Attended
    BY DEF Init, Attended
  <2> QED BY <2>1, <2>2, <2>3, <2>4 DEF IInv
<1>2. IInv /\ [Next]_vars => IInv'
  <2> SUFFICES ASSUME IInv, [Next]_vars PROVE IInv'
    OBVIOUS
  <2>1. TypeOK'
    BY TypeStep DEF IInv
  <2>2. \A u \in Uploads : Received(u)'
    BY ReceivedStep DEF IInv
  <2>3. \A u \in Uploads : Charged(u)'
    BY ChargedStep DEF IInv
  <2>4. \A u \in Uploads : Earned(u)'
    BY EarnedStep DEF IInv
  <2>5. \A u \in Uploads : Recorded(u)'
    BY RecordedStep DEF IInv
  <2>6. \A u \in Uploads : Admitted(u)'
    BY AdmittedStep DEF IInv
  <2>7. Attended'
    BY AttendedStep DEF IInv
  <2>8. ~LostReplies => \A u \in Uploads : Pursued(u)'
    BY PursuedStep DEF IInv
  <2> QED BY <2>1, <2>2, <2>3, <2>4, <2>5, <2>6, <2>7, <2>8 DEF IInv
<1> QED BY <1>1, <1>2, PTL DEF Spec

(* No partial body reaches the scanner or the cipher (create, NewManager). *)
THEOREM OnlyWholeBodies == Spec => []PartialNeverInspected
<1>1. IInv => PartialNeverInspected
  BY DEF IInv, Received, PartialNeverInspected
<1> QED BY <1>1, Invariance, PTL

(* Plaintext in quarantine is charged to its owner until it is removed,    *)
(* over failures, lost replies and crashes.                                *)
THEOREM Accounting == Spec => []PlaintextCharged
<1>1. IInv => PlaintextCharged
  BY DEF IInv, Charged, PlaintextCharged
<1> QED BY <1>1, Invariance, PTL

(* Until the server first stops, whatever transactions fail and whatever   *)
(* replies are lost, no upload is left with plaintext in quarantine and    *)
(* nothing under way to remove it (create's cleanup, inspect,              *)
(* failProtection, failPersistence).                                       *)
THEOREM PlaintextIsRemoved == Spec => []PlaintextRemoved
<1>1. IInv => PlaintextRemoved
  BY DEF IInv, Attended, PlaintextRemoved, LeftBehind
<1> QED BY <1>1, Invariance, PTL

(* Without lost replies a stored upload was accepted and has everything    *)
(* (inspect, protect, NewManager).                                         *)
THEOREM Complete ==
  ASSUME ~LostReplies PROVE Spec => []StoredIsComplete
<1>1. IInv => StoredIsComplete
  BY DEF IInv, TypeOK, Earned, StoredIsComplete
<1> QED BY <1>1, Invariance, PTL

(* Over any crashes and lost replies, what has a version, a catalog entry  *)
(* or the outcome "stored" was accepted by the scanner, and what it        *)
(* rejected has neither version nor entry (inspect, protect, NewManager).  *)
THEOREM Vetted == Spec => []NothingUnvetted
<1>1. IInv => NothingUnvetted
  BY DEF IInv, Earned, Admitted, NothingUnvetted
<1> QED BY <1>1, Invariance, PTL

(* Without lost replies no upload received in full waits for nobody: over  *)
(* failing transactions, crashes and restarts it has a goroutine, or the   *)
(* startup will look at it, or readers were told of its failure.           *)
THEOREM Pursuit ==
  ASSUME ~LostReplies PROVE Spec => []NoneForgotten
<1>1. IInv => NoneForgotten
  BY DEF IInv, Pursued, Waits, NoneForgotten
<1> QED BY <1>1, Invariance, PTL

----------------------------------------------------------------------------
(* The refinement of UploadStates, and the finality of outcomes.           *)

(* An upload changes one row at most, along one edge of the lifecycle, or  *)
(* fails with its outcome on record.                                       *)
LEMMA RowStep ==
  ASSUME IInv, [Next]_vars
  PROVE  UNCHANGED row \/ States!Next \/ Overwrite
<1> USE DEF IInv, TypeOK, Recorded, Expected, Receiving, Pending, Statuses, Terminal,
        vars, records, store, server, At, Ready, Goto,
        States!Next, States!Becomes, States!Receive, States!Discard, States!Inspect,
        States!Accept, States!Reject, States!Encrypt, States!Store, States!Fail
<1>1. ASSUME NEW u \in Uploads, CreateRow(u) PROVE UNCHANGED row \/ States!Receive(u)
  BY <1>1 DEF CreateRow, Persist, Replies, Committed
<1>2. ASSUME NEW u \in Uploads, Reception(u) PROVE UNCHANGED row \/ States!Discard(u)
  <2>1. CASE Reserve(u) \/ Stream(u) \/ Receive(u)
    BY <2>1 DEF Reserve, Stream, Receive, DeleteRow
  <2>2. CASE Finalize(u)
    BY <2>2 DEF Finalize, Persist
  <2>3. CASE CleanupFile(u) \/ CleanupRecords(u)
    BY <2>3 DEF CleanupFile, CleanupRecords, DeleteRow
  <2> QED BY <1>2, <2>1, <2>2, <2>3 DEF Reception
<1>3. ASSUME NEW u \in Uploads, Processing(u) PROVE UNCHANGED row \/ States!Next \/ Overwrite
  <2>1. CASE BeginInspection(u)
    <3>1. UNCHANGED row \/ States!Inspect(u)
      BY <2>1 DEF BeginInspection, Persist
    <3> QED BY <3>1
  <2>2. CASE BeginProtection(u)
    <3>1. UNCHANGED row \/ States!Encrypt(u)
      BY <2>2 DEF BeginProtection, Persist
    <3> QED BY <3>1
  <2>3. CASE PublishStored(u) \/ CommitStored(u)
    <3>1. UNCHANGED row \/ States!Store(u)
      BY <2>3 DEF PublishStored, CommitStored, Persist
    <3> QED BY <3>1
  <2>4. CASE ConcludeInspection(u)
    <3>1. UNCHANGED row \/ States!Accept(u) \/ States!Reject(u) \/ States!Fail(u)
      BY <2>4 DEF ConcludeInspection, Persist
    <3> QED BY <3>1
  <2>5. CASE Protect(u) \/ InsertVersion(u) \/ Catalog(u) \/ RemovePlaintext(u) \/ ReleaseCapacity(u)
    BY <2>5 DEF Protect, InsertVersion, Catalog, RemovePlaintext, ReleaseCapacity
  <2>6. CASE GiveUp(u)
    <3>1. row' = row \/ row' = [row EXCEPT ![u] = "failed"]
      BY <2>6 DEF GiveUp
    <3>2. row[u] \in IF LostReplies THEN Statuses ELSE Pending
      BY <2>6 DEF GiveUp
    <3>3. CASE row[u] \in Pending
      BY <3>1, <3>3
    <3>4. CASE row[u] = "failed"
      BY <3>1, <3>4
    <3>5. CASE row[u] \in {"stored", "rejected"}
      BY <3>1, <3>2, <3>5 DEF Overwrite
    <3> QED BY <3>2, <3>3, <3>4, <3>5
  <2> QED BY <1>3, <2>1, <2>2, <2>3, <2>4, <2>5, <2>6 DEF Processing
<1>4. ASSUME NEW u \in Uploads, Recover(u) PROVE UNCHANGED row \/ States!Fail(u)
  BY <1>4 DEF Recover, RecoverRow, Resume, Incomplete, Missing
<1>5. Crash \/ UNCHANGED vars => UNCHANGED row
  BY DEF Crash
<1> QED BY <1>1, <1>2, <1>3, <1>4, <1>5 DEF Next

(* Without lost replies the durable record follows UploadStates, through   *)
(* failing transactions, crashes and restarts.                             *)
THEOREM Lifecycle ==
  ASSUME ~LostReplies PROVE Spec => RecordFollowsLifecycle
<1>1. Init => States!Init
  BY DEF Init, States!Init
<1>2. IInv /\ [Next]_vars => [States!Next]_row
  BY RowStep DEF Overwrite
<1> QED BY <1>1, <1>2, Invariance, PTL DEF Spec, RecordFollowsLifecycle, States!Spec

(* Lost replies cost the record one thing: an outcome that was committed   *)
(* may be overwritten with "failed" (failProtection, failPersistence).     *)
(* Every other change follows the lifecycle.                               *)
THEOREM Overwriting == Spec => OnlyFailureOverwrites
<1>1. IInv /\ [Next]_vars => [States!Next \/ Overwrite]_row
  BY RowStep
<1> QED BY <1>1, Invariance, PTL DEF Spec, OnlyFailureOverwrites

(* Without lost replies an outcome on record stays, and so does whether    *)
(* its content is catalogued (create, inspect, protect, NewManager).       *)
THEOREM Finality ==
  ASSUME ~LostReplies PROVE Spec => OutcomeIsFinal
<1> DEFINE Final == \A u \in Uploads : row[u] \in Terminal =>
                      /\ row'[u] = row[u]
                      /\ u \in catalog' <=> u \in catalog
<1>1. IInv /\ [Next]_vars => Final
  <2> SUFFICES ASSUME IInv, [Next]_vars, NEW u \in Uploads, row[u] \in Terminal
               PROVE  row'[u] = row[u] /\ (u \in catalog' <=> u \in catalog)
    OBVIOUS
  <2>1. row'[u] = row[u]
    BY RowStep DEF Overwrite, IInv, TypeOK, Terminal, Statuses, Pending, States!Next, States!Becomes,
       States!Receive, States!Discard, States!Inspect, States!Accept, States!Reject,
       States!Encrypt, States!Store, States!Fail
  <2>2. UNCHANGED catalog \/ \E w \in Uploads : Catalog(w)
    BY DEF Next, vars, store, CreateRow, Reception, Reserve, Stream, Receive, Finalize,
       CleanupFile, CleanupRecords, Processing, BeginInspection, ConcludeInspection,
       BeginProtection, Protect, InsertVersion, PublishStored, CommitStored, GiveUp,
       RemovePlaintext, ReleaseCapacity, Recover, Crash
  <2>3. ASSUME NEW w \in Uploads, Catalog(w) PROVE w # u /\ catalog' \in {catalog, catalog \cup {w}}
    BY <2>3 DEF Catalog, At, IInv, Recorded, Expected, Terminal, Receiving
  <2> QED BY <2>1, <2>2, <2>3
<1>2. Final => [Final]_vars
  OBVIOUS
<1> QED BY <1>1, <1>2, Invariance, PTL DEF Spec, OutcomeIsFinal

----------------------------------------------------------------------------
(* Why work ends: a goroutine only moves on, a startup only counts down.   *)

(* The steps a goroutine may still have before it, at most.                *)
Remaining(t) ==
  CASE t = "inspect" -> 11 [] t = "scan"    -> 10 [] t = "encrypt" -> 9
    [] t = "protect" -> 8  [] t = "insert"  -> 7  [] t = "catalog" -> 6
    [] t = "publish" -> 5  [] t = "store"   -> 4  [] t = "fail"    -> 3
    [] t = "remove"  -> 2  [] t = "release" -> 1  [] OTHER -> 0

(* Every step of inspection and protection leaves fewer to come, so the    *)
(* goroutine of an upload ends in 11 steps whatever fails, with no retry   *)
(* inside it; every row startup looks at is one row less (inspect,         *)
(* protect, NewManager).                                                   *)
WorkEnds ==
  [][\A u \in Uploads :
       /\ Processing(u) => Remaining(task'[u]) < Remaining(task[u])
       /\ Recover(u) => todo' \subseteq todo /\ u \in todo \ todo']_vars

(* With NoneForgotten, the argument that every received upload settles as  *)
(* long as goroutines run and crashes end.                                 *)
THEOREM Progress == Spec => WorkEnds
<1> DEFINE Step(u) == /\ Processing(u) => Remaining(task'[u]) < Remaining(task[u])
                      /\ Recover(u) => todo' \subseteq todo /\ u \in todo \ todo'
<1>1. TypeOK => \A u \in Uploads : Step(u)
  <2> SUFFICES ASSUME TypeOK, NEW u \in Uploads PROVE Step(u)
    OBVIOUS
  <2>1. ASSUME Processing(u) PROVE Remaining(task'[u]) < Remaining(task[u])
    <3> USE DEF TypeOK, At, Goto
    <3>1. CASE BeginInspection(u)
      <4>1. task[u] = "inspect" /\ task'[u] \in {"scan", "fail"}
        BY <3>1 DEF BeginInspection, Persist
      <4> QED BY <4>1 DEF Remaining
    <3>2. CASE ConcludeInspection(u)
      <4>1. task[u] = "scan" /\ task'[u] \in {"encrypt", "remove", "fail"}
        BY <3>2 DEF ConcludeInspection, Persist
      <4> QED BY <4>1 DEF Remaining
    <3>3. CASE BeginProtection(u)
      <4>1. task[u] = "encrypt" /\ task'[u] \in {"protect", "fail"}
        BY <3>3 DEF BeginProtection, Persist
      <4> QED BY <4>1 DEF Remaining
    <3>4. CASE Protect(u)
      <4>1. task[u] = "protect" /\ task'[u] \in {"catalog", "insert", "fail"}
        BY <3>4 DEF Protect
      <4> QED BY <4>1 DEF Remaining
    <3>5. CASE InsertVersion(u)
      <4>1. task[u] = "insert" /\ task'[u] \in {"catalog", "fail"}
        BY <3>5 DEF InsertVersion
      <4> QED BY <4>1 DEF Remaining
    <3>6. CASE Catalog(u)
      <4>1. task[u] = "catalog" /\ task'[u] \in {"publish", "fail"}
        BY <3>6 DEF Catalog
      <4> QED BY <4>1 DEF Remaining
    <3>7. CASE PublishStored(u)
      <4>1. task[u] = "publish" /\ task'[u] = "store"
        BY <3>7 DEF PublishStored
      <4> QED BY <4>1 DEF Remaining
    <3>8. CASE CommitStored(u)
      <4>1. task[u] = "store" /\ task'[u] \in {"remove", "fail"}
        BY <3>8 DEF CommitStored, Persist
      <4> QED BY <4>1 DEF Remaining
    <3>9. CASE GiveUp(u) \/ RemovePlaintext(u) \/ ReleaseCapacity(u)
      <4>1. \/ task[u] = "fail" /\ task'[u] = "remove"
            \/ task[u] = "remove" /\ task'[u] = "release"
            \/ task[u] = "release" /\ task'[u] = "none"
        BY <3>9 DEF GiveUp, RemovePlaintext, ReleaseCapacity
      <4> QED BY <4>1 DEF Remaining
    <3> QED BY <2>1, <3>1, <3>2, <3>3, <3>4, <3>5, <3>6, <3>7, <3>8, <3>9 DEF Processing
  <2>2. Recover(u) => todo' \subseteq todo /\ u \in todo \ todo'
    BY DEF Recover
  <2> QED BY <2>1, <2>2
<1>2. (\A u \in Uploads : Step(u)) => [\A u \in Uploads : Step(u)]_vars
  OBVIOUS
<1> QED BY <1>1, <1>2, Typing, PTL DEF WorkEnds

=============================================================================
