--------------------------- MODULE OrphanJournal ---------------------------
(***************************************************************************)
(* Orphan reconciliation: administrators' requests (api/server.go) and the *)
(* recovery worker (cmd/server/main.go) remove stored objects that no      *)
(* metadata refers to.  A removal is authorised in a journal row, with its *)
(* audit intent, before the file system is touched, and closed in the same *)
(* journal afterwards; in between the server may stop.                     *)
(*                                                                         *)
(* Meanwhile uploads and protections create, attach and drop the objects.  *)
(* An object's name is random and its content is not rewritten, so a       *)
(* preview token names the object: there is one journal row per object.    *)
(* What an object is tracked by differs: for quarantine the manager's      *)
(* memory, for the protected zone the rows whose key is not destroyed.     *)
(***************************************************************************)
EXTENDS Naturals, FiniteSets, Sequences

CONSTANTS
  Quarantine,  \* objects of the quarantine zone
  Protected,   \* objects of the protected zone
  Requests,    \* administrators' requests
  Worker,      \* the recovery worker of main
  Limit,       \* operations the worker takes at a time (25 in the code)
  None,        \* no object
  MaxCrashes   \* bound: the server stops at most so often

Objects == Quarantine \cup Protected
Actors  == Requests \cup {Worker}
Closed  == {"completed", "failed"}

ASSUME OrphanAssumption ==
  /\ Quarantine \cap Protected = {} /\ Worker \notin Requests /\ None \notin Objects
  /\ Limit \in Nat \ {0} /\ MaxCrashes \in Nat

VARIABLES
  file,      \* unborn, young, old (past the safety window) or gone
  row,       \* objects with an upload's row, or a version's that has its key
  known,     \* quarantine objects the manager has in memory
  writing,   \* objects whose reception or protection is under way
  journal,   \* status of an object's operation, or none
  queue,     \* authorised objects by authorized_at
  evidence,  \* the outcomes of its ORPHAN_DELETION_COMPLETED intents
  approved,  \* how many ORPHAN_DELETION_AUTHORIZED intents it has
  step,      \* where a request or the worker stands
  item,      \* the object it is about
  todo,      \* tracked objects it has read; then what it has yet to reconcile
  outcome,   \* what Resume returned to it
  removed,   \* objects a reconciliation has removed
  late,      \* objects that were past the window before their row came
  crashes

storage == <<file, row, known, writing, late>>
records == <<journal, queue, evidence, approved>>
actors  == <<step, item, todo, outcome>>
vars    == <<storage, records, actors, removed, crashes>>

Present(o) == file[o] \in {"young", "old"}
Tracked(o) == IF o \in Quarantine THEN o \in known ELSE o \in row

Init ==
  /\ file = [o \in Objects |-> "unborn"] /\ row = {} /\ known = {}
  /\ writing = {} /\ late = {}
  /\ journal = [o \in Objects |-> "none"] /\ queue = <<>>
  /\ evidence = [o \in Objects |-> <<>>] /\ approved = [o \in Objects |-> 0]
  /\ step = [a \in Actors |-> "idle"] /\ item = [a \in Actors |-> None]
  /\ todo = [a \in Actors |-> {}] /\ outcome = [a \in Actors |-> "none"]
  /\ removed = {} /\ crashes = 0

Goto(a, s) == step' = [step EXCEPT ![a] = s]
Gone(o)    == file' = [file EXCEPT ![o] = "gone"]

----------------------------------------------------------------------------
(* The objects' own life.  An upload's object is registered under the      *)
(* manager's lock before its file exists.                                  *)
Receive(o) ==
  /\ o \in Quarantine /\ file[o] = "unborn"
  /\ file' = [file EXCEPT ![o] = "young"]
  /\ row' = row \cup {o} /\ known' = known \cup {o} /\ writing' = writing \cup {o}
  /\ UNCHANGED <<late, records, actors, removed, crashes>>

(* A reception that fails: each of the two removals may fail, unnoticed.   *)
CleanUp(o) ==
  /\ o \in Quarantine \cap writing
  /\ Gone(o) \/ UNCHANGED file
  /\ row' \in {row, row \ {o}}
  /\ known' = known \ {o} /\ writing' = writing \ {o}
  /\ UNCHANGED <<late, records, actors, removed, crashes>>

(* A retry of the request adopts the row that was left behind.             *)
Adopt(o) ==
  /\ o \in (Quarantine \cap row) \ known
  /\ known' = known \cup {o}
  /\ UNCHANGED <<file, row, writing, late, records, actors, removed, crashes>>

(* A reception that succeeds: the upload goes on to an outcome, or the     *)
(* recovery gives it up; the plaintext is removed and the row stays.       *)
Settle(o) ==
  /\ o \in Quarantine \cap known /\ Present(o)
  /\ Gone(o) /\ writing' = writing \ {o}
  /\ UNCHANGED <<row, known, late, records, actors, removed, crashes>>

(* Protect renames the ciphertext into place ...                           *)
Rename(o) ==
  /\ o \in Protected /\ file[o] = "unborn"
  /\ file' = [file EXCEPT ![o] = "young"] /\ writing' = writing \cup {o}
  /\ UNCHANGED <<row, known, late, records, actors, removed, crashes>>

(* ... and then inserts the version's row; if that fails, it removes the   *)
(* object again.                                                           *)
Insert(o) ==
  /\ o \in Protected \cap writing
  /\ writing' = writing \ {o}
  /\ \/ row' = row \cup {o} /\ UNCHANGED file
     \/ UNCHANGED row /\ (Gone(o) \/ UNCHANGED file)
  /\ UNCHANGED <<known, late, records, actors, removed, crashes>>

(* A purge destroys the key; its removal of the object may fail.           *)
Purge(o) ==
  /\ o \in Protected \cap row
  /\ row' = row \ {o}
  /\ Gone(o) \/ UNCHANGED file
  /\ UNCHANGED <<known, writing, late, records, actors, removed, crashes>>

(* An hour goes by since the object was last written.  No listing takes    *)
(* that long.                                                              *)
Ages(o) ==
  /\ file[o] = "young" /\ \A a \in Requests : step[a] # "listing"
  /\ file' = [file EXCEPT ![o] = "old"]
  /\ late' = late \cup ({o} \cap writing \cap Protected)
  /\ UNCHANGED <<row, known, writing, records, actors, removed, crashes>>

----------------------------------------------------------------------------
(* A request lists the candidates anew: what is tracked, then the files.   *)
ReadTracked(a) ==
  /\ a \in Requests /\ step[a] = "idle"
  /\ Goto(a, "listing")
  /\ todo' = [todo EXCEPT ![a] = {o \in Objects : Tracked(o)}]
  /\ UNCHANGED <<item, outcome, storage, records, removed, crashes>>

EligibleTooEarly(a) == {o \in Objects \ todo[a] : Present(o)} \* fault: no safety window
Eligible(a) == {o \in Objects \ todo[a] : file[o] = "old"}

ReadDirectory(a) ==
  /\ step[a] = "listing"
  /\ \E chosen \in SUBSET Eligible(a) :
       /\ todo' = [todo EXCEPT ![a] = chosen]
       /\ Goto(a, IF chosen = {} THEN "idle" ELSE "working")
  /\ UNCHANGED <<item, outcome, storage, records, removed, crashes>>

(* The next object of the selection; the last one ends the request.        *)
Leave(a, rest) ==
  /\ todo' = [todo EXCEPT ![a] = rest]
  /\ Goto(a, IF rest = {} THEN "idle" ELSE "working")
  /\ item' = [item EXCEPT ![a] = None] /\ outcome' = [outcome EXCEPT ![a] = "none"]
Skip(a, o) == Leave(a, todo[a] \ {o})
GiveUp(a)  == Leave(a, {})

TakeUp(a, o) ==
  /\ Goto(a, "resuming") /\ item' = [item EXCEPT ![a] = o]
  /\ UNCHANGED <<todo, outcome>>

Authorized(o) ==
  IF journal[o] = "none"
  THEN /\ journal' = [journal EXCEPT ![o] = "authorized"]
       /\ queue' = Append(queue, o)
       /\ approved' = [approved EXCEPT ![o] = @ + 1]
       /\ UNCHANGED evidence
  ELSE UNCHANGED records

(* The authorisation commits; an operation that is closed is only counted. *)
Authorize(a, o) ==
  /\ a \in Requests /\ step[a] = "working" /\ o \in todo[a]
  /\ Authorized(o)
  /\ IF journal[o] \in Closed
     THEN Skip(a, o)
     ELSE TakeUp(a, o)
  /\ UNCHANGED <<storage, removed, crashes>>

(* It fails, or it commits and its reply or the delivery of its intent     *)
(* fails: the request ends.                                                *)
AuthorizeIgnored(a, o) == \* fault: the request goes on when the authorisation failed
  /\ a \in Requests /\ step[a] = "working" /\ o \in todo[a]
  /\ TakeUp(a, o)
  /\ UNCHANGED <<storage, records, removed, crashes>>
AuthorizeFails(a, o) ==
  /\ a \in Requests /\ step[a] = "working" /\ o \in todo[a]
  /\ Authorized(o) \/ UNCHANGED records
  /\ GiveUp(a)
  /\ UNCHANGED <<storage, removed, crashes>>

----------------------------------------------------------------------------
(* The worker takes the operations that are still open, oldest first.      *)
Open  == {i \in 1..Len(queue) : journal[queue[i]] = "authorized"}
Batch == {queue[i] : i \in {i \in Open : Cardinality({j \in Open : j < i}) < Limit}}
Pending ==
  /\ step[Worker] = "idle" /\ Open # {}
  /\ todo' = [todo EXCEPT ![Worker] = Batch]
  /\ Goto(Worker, "working")
  /\ UNCHANGED <<item, outcome, storage, records, removed, crashes>>

NextPending(o) ==
  /\ step[Worker] = "working" /\ o \in todo[Worker]
  /\ TakeUp(Worker, o)
  /\ UNCHANGED <<storage, records, removed, crashes>>

----------------------------------------------------------------------------
(* Resume: revalidate the journaled object, remove it, report.             *)
Returns(a, result) ==
  /\ Goto(a, "closing") /\ outcome' = [outcome EXCEPT ![a] = result]
  /\ UNCHANGED <<item, todo>>
Continues(a, s) == Goto(a, s) /\ UNCHANGED <<item, todo, outcome>>

(* An I/O or repository error leaves the operation authorised.             *)
Defer(a) == Skip(a, item[a])

(* Quarantine: tracked-state check and removal under the manager's lock.   *)
ResumeQuarantine(a) ==
  LET o == item[a] IN
  /\ step[a] = "resuming" /\ o \in Quarantine
  /\ IF Tracked(o) THEN Returns(a, "failed") /\ UNCHANGED <<file, removed>>
     ELSE /\ Returns(a, "completed")
          /\ IF Present(o) THEN Gone(o) /\ removed' = removed \cup {o}
             ELSE UNCHANGED <<file, removed>>
  /\ UNCHANGED <<row, known, writing, late, records, crashes>>

(* Protected zone: a query, then Lstat, then the removal.                  *)
CheckTracked(a) ==
  LET o == item[a] IN
  /\ step[a] = "resuming" /\ o \in Protected
  /\ IF Tracked(o) THEN Returns(a, "failed")
     ELSE Continues(a, "checked")
  /\ UNCHANGED <<storage, records, removed, crashes>>

AbsentIsAnError(a) == \* fault: an object that is gone already defers the operation
  /\ step[a] = "checked"
  /\ IF Present(item[a]) THEN Continues(a, "found")
     ELSE Defer(a)
  /\ UNCHANGED <<storage, records, removed, crashes>>
Lstat(a) ==
  /\ step[a] = "checked"
  /\ IF Present(item[a]) THEN Continues(a, "found")
     ELSE Returns(a, "completed")
  /\ UNCHANGED <<storage, records, removed, crashes>>

Remove(a) ==
  LET o == item[a] IN
  /\ step[a] = "found"
  /\ IF Present(o)
     THEN Returns(a, "completed") /\ Gone(o) /\ removed' = removed \cup {o}
     ELSE Defer(a) /\ UNCHANGED <<file, removed>>
  /\ UNCHANGED <<row, known, writing, late, records, crashes>>

FailureCompletes(a) == \* fault: a failed removal is reported as done
  /\ step[a] \in {"resuming", "checked", "found"}
  /\ Returns(a, "completed")
  /\ UNCHANGED <<storage, records, removed, crashes>>
ResumeFails(a) ==
  /\ step[a] \in {"resuming", "checked", "found"}
  /\ Defer(a)
  /\ UNCHANGED <<storage, records, removed, crashes>>

----------------------------------------------------------------------------
(* The operation is closed with its evidence, once.                        *)
Completes(o, result) ==
  IF journal[o] = "authorized"
  THEN /\ journal' = [journal EXCEPT ![o] = result]
       /\ evidence' = [evidence EXCEPT ![o] = Append(@, result)]
       /\ UNCHANGED <<queue, approved>>
  ELSE UNCHANGED records

Complete(a) ==
  /\ step[a] = "closing"
  /\ Completes(item[a], outcome[a])
  /\ Skip(a, item[a])
  /\ UNCHANGED <<storage, removed, crashes>>

(* The transaction fails, or commits and its reply or the delivery of the  *)
(* intent fails: a request ends, the worker goes on.                       *)
CompleteFails(a) ==
  /\ step[a] = "closing"
  /\ Completes(item[a], outcome[a]) \/ UNCHANGED records
  /\ IF a = Worker THEN Skip(a, item[a]) ELSE GiveUp(a)
  /\ UNCHANGED <<storage, removed, crashes>>

(* The server stops; at the next start NewManager loads the uploads.       *)
LoadAll == known' = row \cap Quarantine

Crash ==
  /\ crashes < MaxCrashes
  /\ crashes' = crashes + 1
  /\ LoadAll /\ writing' = {}
  /\ step' = [a \in Actors |-> "idle"] /\ todo' = [a \in Actors |-> {}]
  /\ item' = [a \in Actors |-> None] /\ outcome' = [a \in Actors |-> "none"]
  /\ UNCHANGED <<file, row, late, records, removed>>

----------------------------------------------------------------------------
Resume(a) == ResumeQuarantine(a) \/ CheckTracked(a) \/ Lstat(a) \/ Remove(a)
Work(a)   == Resume(a) \/ ResumeFails(a) \/ Complete(a) \/ CompleteFails(a)

Next ==
  \/ \E o \in Objects :
       \/ Receive(o) \/ CleanUp(o) \/ Adopt(o) \/ Settle(o)
       \/ Rename(o) \/ Insert(o) \/ Purge(o) \/ Ages(o)
       \/ NextPending(o)
       \/ \E a \in Requests : Authorize(a, o) \/ AuthorizeFails(a, o)
  \/ \E a \in Requests : ReadTracked(a) \/ ReadDirectory(a)
  \/ Pending
  \/ \E a \in Actors : Work(a)
  \/ Crash

Spec == Init /\ [][Next]_vars

(* The worker runs every minute and goes through its batch; what it tries  *)
(* again and again is not refused for ever.                                *)
WorkerStep == Pending \/ (\E o \in Objects : NextPending(o)) \/ Work(Worker)
Fairness ==
  /\ WF_vars(WorkerStep)
  /\ SF_vars(ResumeQuarantine(Worker) \/ CheckTracked(Worker))
  /\ SF_vars(Lstat(Worker)) /\ SF_vars(Remove(Worker)) /\ SF_vars(Complete(Worker))

FairSpec == Spec /\ Fairness

----------------------------------------------------------------------------
TypeOK ==
  /\ file \in [Objects -> {"unborn", "young", "old", "gone"}]
  /\ row \subseteq Objects /\ known \subseteq Quarantine
  /\ writing \subseteq Objects /\ late \subseteq Protected
  /\ journal \in [Objects -> {"none", "authorized"} \cup Closed]
  /\ queue \in Seq(Objects)
  /\ evidence \in [Objects -> Seq(Closed)] /\ approved \in [Objects -> Nat]
  /\ step \in [Actors -> {"idle", "listing", "working", "resuming",
                          "checked", "found", "closing"}]
  /\ item \in [Actors -> Objects \cup {None}] /\ todo \in [Actors -> SUBSET Objects]
  /\ outcome \in [Actors -> Closed \cup {"none"}]
  /\ removed \subseteq Objects /\ crashes \in 0..MaxCrashes

(* Ciphertext removed as an orphan is not what a version with a live key   *)
(* refers to, then or later: the listing's safety window covers the time   *)
(* between rename and insert (orphanReconciliationMinimumAge), unless an   *)
(* insert took longer than the window.                                     *)
NoVersionLosesItsObject ==
  \A o \in Protected \cap removed : o \in row => o \in late

(* Nothing is removed without exactly one authorisation on record: the     *)
(* journal row commits with its intent before Resume touches the file      *)
(* (AuthorizeOrphanReconciliation), whoever repeats the request.           *)
AuthorizedFirst ==
  /\ \A o \in removed : journal[o] # "none"
  /\ \A o \in Objects : approved[o] = IF journal[o] = "none" THEN 0 ELSE 1

EvidenceMatchesJournal ==
  \A o \in Objects :
    evidence[o] = IF journal[o] \in Closed THEN <<journal[o]>> ELSE <<>>

OutcomeIsTrue ==
  \A o \in Objects :
    /\ journal[o] = "completed" => file[o] = "gone"
    /\ journal[o] = "failed" /\ o \in removed => o \in row \cup late

(* However often requests and the worker close an operation, it has one    *)
(* piece of evidence, and that says what the row says: "completed" of      *)
(* objects that are gone, "failed" (the object was retained) of a removed  *)
(* one only if an upload's row or a late insert still referred to it       *)
(* (CompleteOrphanReconciliation, Resume).                                 *)
EvidenceIsTrue == EvidenceMatchesJournal /\ OutcomeIsTrue

(* An operation is authorised, then closed, and that is all that is ever   *)
(* written of it: it is not reopened, and its evidence appears as it       *)
(* closes and is never written over (the status that both transactions ask *)
(* for in their WHERE).                                                    *)
JournalMovesForward ==
  [][\A o \in Objects :
       /\ journal'[o] # journal[o] =>
            \/ journal[o] = "none" /\ journal'[o] = "authorized"
            \/ journal[o] = "authorized" /\ journal'[o] \in Closed
       /\ evidence'[o] # evidence[o] => journal[o] = "authorized" /\ journal'[o] \in Closed]_vars

(* The worker can find what is open: every operation is in its order once, *)
(* and the oldest open one is in any batch, whatever younger ones there    *)
(* are (Pending's ORDER BY authorized_at and LIMIT).                       *)
OpenIsFound ==
  /\ \A o \in Objects : journal[o] # "none" => \E i \in 1..Len(queue) : queue[i] = o
  /\ \A i, j \in 1..Len(queue) : queue[i] = queue[j] => i = j
  /\ \A i \in Open : (\A j \in Open : i <= j) => queue[i] \in Batch

(* What an administrator authorised is closed in the end: the worker takes *)
(* it up again after every failure and restart (main.go:366).              *)
AuthorizedIsClosed ==
  \A o \in Objects : journal[o] = "authorized" ~> journal[o] \in Closed

=============================================================================
