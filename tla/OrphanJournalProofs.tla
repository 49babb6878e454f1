------------------------ MODULE OrphanJournalProofs ------------------------
(***************************************************************************)
(* Theorems about OrphanJournal, for any objects and requests, any limit   *)
(* and number of crashes.                                                  *)
(*                                                                         *)
(* The invariant has three parts, inductive one after the other: Ledger    *)
(* (what an actor works on is authorised, and each row has its evidence),  *)
(* Window (an authorised object is no one's any more, and becomes          *)
(* someone's again only by a retry, a restart or a late insert) and        *)
(* Truth (what the evidence says of the object).                           *)
(***************************************************************************)
EXTENDS OrphanJournal, FiniteSetTheorems, TLAPS

Held ==
  \A a \in Actors :
       /\ step[a] \in {"resuming", "checked", "found", "closing"} => item[a] \in Objects
       /\ step[a] \in {"checked", "found"} => item[a] \in Protected
       /\ step[a] = "closing" => outcome[a] \in Closed
       /\ step[a] = "listing" => a \in Requests

Typed == TypeOK /\ Held

Ledger ==
  /\ AuthorizedFirst /\ EvidenceMatchesJournal
  /\ \A a \in Actors :
       step[a] \in {"resuming", "checked", "found", "closing"} => journal[item[a]] # "none"
  /\ \A o \in todo[Worker] : journal[o] # "none"
  /\ \A i \in 1..Len(queue) : journal[queue[i]] # "none"

(* No reception is under way any more, and whoever protects or protected   *)
(* the object did so past the window.                                      *)
Orphaned(o) ==
  /\ file[o] \in {"old", "gone"}
  /\ o \in Quarantine => o \notin writing
  /\ o \in Protected /\ o \in row \cup writing => o \in late

Says(o, result) ==
  /\ result = "completed" => file[o] = "gone"
  /\ result = "failed" => o \in row \cup late

Truth ==
  /\ \A o \in Objects : journal[o] \in Closed => Says(o, journal[o])
  /\ \A a \in Actors : step[a] = "closing" => Says(item[a], outcome[a])

----------------------------------------------------------------------------
(* Types.                                                                  *)

LEMMA Sorts ==
  /\ Quarantine \subseteq Objects /\ Protected \subseteq Objects
  /\ \A o \in Objects : o \in Quarantine \/ o \in Protected
  /\ Requests \subseteq Actors /\ Worker \in Actors /\ Worker \notin Requests
  /\ None \notin Objects /\ MaxCrashes \in Nat
BY OrphanAssumption DEF Objects, Actors

(* What the two transactions do to the four columns of the records.        *)
LEMMA Authorizes ==
  ASSUME TypeOK, NEW o \in Objects, Authorized(o) \/ UNCHANGED records
  PROVE  /\ journal' \in [Objects -> {"none", "authorized"} \cup Closed]
         /\ queue' \in Seq(Objects) /\ evidence' = evidence
         /\ approved' \in [Objects -> Nat]
<1> USE DEF TypeOK, Closed, records
<1>1. CASE journal[o] = "none" /\ Authorized(o)
  <2>1. queue' = Append(queue, o)
    BY <1>1 DEF Authorized
  <2>2. /\ journal' = [journal EXCEPT ![o] = "authorized"]
        /\ approved' = [approved EXCEPT ![o] = approved[o] + 1]
        /\ evidence' = evidence
    BY <1>1 DEF Authorized
  <2> QED BY <2>1, <2>2
<1>2. CASE UNCHANGED records
  BY <1>2
<1> QED BY <1>1, <1>2 DEF Authorized

LEMMA Closes ==
  ASSUME TypeOK, NEW o \in Objects, NEW result \in Closed,
         Completes(o, result) \/ UNCHANGED records
  PROVE  /\ journal' \in [Objects -> {"none", "authorized"} \cup Closed]
         /\ queue' = queue /\ evidence' \in [Objects -> Seq(Closed)]
         /\ approved' = approved
<1> USE DEF TypeOK, records
<1>1. CASE journal[o] = "authorized" /\ Completes(o, result)
  <2>1. evidence' = [evidence EXCEPT ![o] = Append(evidence[o], result)]
    BY <1>1 DEF Completes
  <2>2. Append(evidence[o], result) \in Seq(Closed)
    OBVIOUS
  <2>3. journal' = [journal EXCEPT ![o] = result] /\ queue' = queue /\ approved' = approved
    BY <1>1 DEF Completes
  <2> QED BY <2>1, <2>2, <2>3 DEF Closed
<1>2. CASE UNCHANGED records
  BY <1>2
<1> QED BY <1>1, <1>2 DEF Completes

LEMMA BatchType == ASSUME TypeOK PROVE Batch \subseteq Objects
<1>1. \A i \in Open : queue[i] \in Objects
  BY DEF TypeOK, Open
<1> QED BY <1>1 DEF Batch

(* How an actor's own variables can move.                                  *)
Moves(a) ==
  \/ \E o \in Objects : TakeUp(a, o)
  \/ \E result \in Closed : Returns(a, result)
  \/ \E s \in {"checked", "found"} : Continues(a, s)
  \/ \E rest \in SUBSET Objects : Leave(a, rest)

LEMMA ActorTypes ==
  ASSUME TypeOK, NEW a \in Actors, Moves(a)
  PROVE  /\ step' \in [Actors -> {"idle", "listing", "working", "resuming",
                                  "checked", "found", "closing"}]
         /\ item' \in [Actors -> Objects \cup {None}]
         /\ todo' \in [Actors -> SUBSET Objects]
         /\ outcome' \in [Actors -> Closed \cup {"none"}]
<1> USE DEF TypeOK, Goto
<1>1. ASSUME NEW o \in Objects, TakeUp(a, o)
      PROVE  /\ step' = [step EXCEPT ![a] = "resuming"] /\ item' = [item EXCEPT ![a] = o]
             /\ todo' = todo /\ outcome' = outcome
  BY <1>1 DEF TakeUp
<1>2. ASSUME NEW result \in Closed, Returns(a, result)
      PROVE  /\ step' = [step EXCEPT ![a] = "closing"] /\ item' = item /\ todo' = todo
             /\ outcome' = [outcome EXCEPT ![a] = result]
  BY <1>2 DEF Returns
<1>3. ASSUME NEW s \in {"checked", "found"}, Continues(a, s)
      PROVE  /\ step' = [step EXCEPT ![a] = s] /\ item' = item /\ todo' = todo
             /\ outcome' = outcome
  BY <1>3 DEF Continues
<1>4. ASSUME NEW rest \in SUBSET Objects, Leave(a, rest)
      PROVE  /\ step' = [step EXCEPT ![a] = IF rest = {} THEN "idle" ELSE "working"]
             /\ item' = [item EXCEPT ![a] = None]
             /\ todo' = [todo EXCEPT ![a] = rest]
             /\ outcome' = [outcome EXCEPT ![a] = "none"]
  BY <1>4 DEF Leave
<1> DEFINE Typing ==
      /\ step' \in [Actors -> {"idle", "listing", "working", "resuming", "checked", "found", "closing"}]
      /\ item' \in [Actors -> Objects \cup {None}]
      /\ todo' \in [Actors -> SUBSET Objects]
      /\ outcome' \in [Actors -> Closed \cup {"none"}]
<1>5. ASSUME NEW o \in Objects, TakeUp(a, o) PROVE Typing
  BY <1>1, <1>5
<1>6. ASSUME NEW result \in Closed, Returns(a, result) PROVE Typing
  BY <1>2, <1>6
<1>7. ASSUME NEW s \in {"checked", "found"}, Continues(a, s) PROVE Typing
  BY <1>3, <1>7
<1>8. ASSUME NEW rest \in SUBSET Objects, Leave(a, rest) PROVE Typing
  BY <1>4, <1>8
<1> QED BY <1>5, <1>6, <1>7, <1>8 DEF Moves

(* The kinds of step the proofs distinguish: the objects' own life,        *)
(* listings, the transactions that authorise and close, Resume, a crash.   *)
Life(o) == Receive(o) \/ CleanUp(o) \/ Adopt(o) \/ Settle(o)
           \/ Rename(o) \/ Insert(o) \/ Purge(o) \/ Ages(o)
Lists(a) == a \in Requests /\ (ReadTracked(a) \/ ReadDirectory(a))
Opens(a, o) == a \in Requests /\ (Authorize(a, o) \/ AuthorizeFails(a, o))
Takes == Pending \/ \E o \in Objects : NextPending(o)
Shuts(a) == Complete(a) \/ CompleteFails(a)

LEMMA Kinds ==
  ASSUME [Next]_vars
  PROVE  \/ \E o \in Objects : Life(o)
         \/ \E a \in Requests : Lists(a)
         \/ \E a \in Requests, o \in Objects : Opens(a, o)
         \/ Takes
         \/ \E a \in Actors : Resume(a) \/ ResumeFails(a)
         \/ \E a \in Actors : Shuts(a)
         \/ Crash
         \/ UNCHANGED vars
BY DEF Next, Life, Lists, Opens, Takes, Shuts, Work

(* Resume and its errors: the object may go, the records stay.  A result   *)
(* "completed" is returned of an object that is not there (any more),      *)
(* "failed" of one that is tracked.                                        *)
LEMMA ResumeEffects ==
  ASSUME Typed, NEW a \in Actors, Resume(a) \/ ResumeFails(a)
  PROVE  /\ step[a] \in {"resuming", "checked", "found"} /\ item[a] \in Objects
         /\ UNCHANGED <<row, known, writing, late, records, crashes>>
         /\ \/ UNCHANGED <<file, removed>>
            \/ /\ Present(item[a]) /\ file' = [file EXCEPT ![item[a]] = "gone"]
               /\ removed' = removed \cup {item[a]}
         /\ \/ Returns(a, "failed") /\ Tracked(item[a])
            \/ Returns(a, "completed") /\ ~Present(item[a])'
            \/ \E s \in {"checked", "found"} : Continues(a, s) /\ item[a] \in Protected
            \/ Skip(a, item[a])
<1> USE DEF Typed, Held, records
<1>1. step[a] \in {"resuming", "checked", "found"} /\ item[a] \in Objects
  BY DEF Resume, ResumeFails, ResumeQuarantine, CheckTracked, Lstat, Remove
<1>2. CASE ResumeQuarantine(a)
  BY <1>1, <1>2 DEF ResumeQuarantine, Gone, Present, Returns, TypeOK
<1>3. CASE CheckTracked(a)
  BY <1>1, <1>3 DEF CheckTracked, storage
<1>4. CASE Lstat(a)
  BY <1>1, <1>4 DEF Lstat, Returns, storage, Present
<1>5. CASE Remove(a)
  BY <1>1, <1>5 DEF Remove, Gone, Present, Returns, TypeOK, Defer
<1>6. CASE ResumeFails(a)
  BY <1>1, <1>6 DEF ResumeFails, Defer, storage
<1> QED BY <1>1, <1>2, <1>3, <1>4, <1>5, <1>6 DEF Resume

LEMMA ResumeMoves ==
  ASSUME Typed, NEW a \in Actors, Resume(a) \/ ResumeFails(a)
  PROVE  \/ \E result \in Closed : Returns(a, result)
         \/ \E s \in {"checked", "found"} : Continues(a, s)
         \/ \E rest \in SUBSET todo[a] : Leave(a, rest)
<1>1. todo[a] \ {item[a]} \in SUBSET todo[a]
  OBVIOUS
<1> QED BY <1>1, ResumeEffects DEF Skip, Closed

LEMMA OpensEffects ==
  ASSUME Typed, NEW a \in Requests, NEW o \in Objects, Opens(a, o)
  PROVE  /\ UNCHANGED <<storage, removed, crashes>>
         /\ step[a] = "working" /\ o \in todo[a]
         /\ \/ Authorized(o) /\ TakeUp(a, o)
            \/ (Authorized(o) \/ UNCHANGED records) /\ \E rest \in SUBSET todo[a] : Leave(a, rest)
<1>1. todo[a] \ {o} \in SUBSET todo[a] /\ {} \in SUBSET todo[a]
  OBVIOUS
<1> QED BY <1>1 DEF Opens, Authorize, AuthorizeFails, Skip, GiveUp

LEMMA ShutsEffects ==
  ASSUME Typed, NEW a \in Actors, Shuts(a)
  PROVE  /\ step[a] = "closing" /\ item[a] \in Objects /\ outcome[a] \in Closed
         /\ UNCHANGED <<storage, removed, crashes>>
         /\ Completes(item[a], outcome[a]) \/ UNCHANGED records
         /\ \E rest \in SUBSET todo[a] : Leave(a, rest)
<1>1. todo[a] \ {item[a]} \in SUBSET todo[a] /\ {} \in SUBSET todo[a]
  OBVIOUS
<1> QED BY <1>1 DEF Shuts, Complete, CompleteFails, Skip, GiveUp, Typed, Held

(* Whoever leaves an object only shortens its own list.                    *)
LEMMA LeaveMoves ==
  ASSUME Typed, NEW a \in Actors, NEW rest \in SUBSET todo[a], Leave(a, rest)
  PROVE  Moves(a) /\ todo'[a] \subseteq todo[a]
<1>1. rest \in SUBSET Objects /\ todo'[a] = rest
  BY DEF Leave, Typed, TypeOK
<1> QED BY <1>1 DEF Moves

LEMMA TakesEffects ==
  ASSUME Typed, Takes
  PROVE  /\ UNCHANGED <<storage, records, removed, crashes>>
         /\ \/ /\ step' = [step EXCEPT ![Worker] = "working"] /\ UNCHANGED <<item, outcome>>
               /\ todo' = [todo EXCEPT ![Worker] = Batch]
            \/ \E o \in todo[Worker] : step[Worker] = "working" /\ TakeUp(Worker, o)
BY DEF Takes, Pending, NextPending, Goto

LEMMA TypeStep == ASSUME Typed, [Next]_vars PROVE TypeOK'
<1> USE Sorts DEF Typed
<1>1. ASSUME NEW o \in Objects, Life(o) PROVE TypeOK'
  <2> USE DEF TypeOK, Closed, records, actors, Gone
  <2>1. CASE Receive(o)
    BY <2>1 DEF Receive
  <2>2. CASE CleanUp(o)
    BY <2>2 DEF CleanUp
  <2>3. CASE Adopt(o)
    BY <2>3 DEF Adopt
  <2>4. CASE Settle(o)
    BY <2>4 DEF Settle
  <2>5. CASE Rename(o)
    BY <2>5 DEF Rename
  <2>6. CASE Insert(o)
    BY <2>6 DEF Insert
  <2>7. CASE Purge(o)
    BY <2>7 DEF Purge
  <2>8. CASE Ages(o)
    <3>1. late' \subseteq Protected
      BY <2>8 DEF Ages
    <3> QED BY <2>8, <3>1 DEF Ages
  <2> QED BY <1>1, <2>1, <2>2, <2>3, <2>4, <2>5, <2>6, <2>7, <2>8 DEF Life
<1>2. ASSUME NEW a \in Requests, Lists(a) PROVE TypeOK'
  <2> USE DEF TypeOK, Goto, storage, records
  <2>1. CASE ReadTracked(a)
    BY <2>1 DEF ReadTracked
  <2>2. CASE ReadDirectory(a)
    <3>1. Eligible(a) \subseteq Objects
      BY DEF Eligible
    <3> QED BY <2>2, <3>1 DEF ReadDirectory
  <2> QED BY <1>2, <2>1, <2>2 DEF Lists
<1>3. ASSUME NEW a \in Requests, NEW o \in Objects, Opens(a, o) PROVE TypeOK'
  <2>1. a \in Actors /\ todo[a] \subseteq Objects
    BY DEF TypeOK
  <2>2. Moves(a)
    BY <1>3, <2>1, OpensEffects DEF Moves
  <2>3. Authorized(o) \/ UNCHANGED records
    BY <1>3, OpensEffects
  <2> QED BY <1>3, <2>1, <2>2, <2>3, OpensEffects, ActorTypes, Authorizes DEF TypeOK, storage
<1>4. ASSUME Takes PROVE TypeOK'
  <2>1. CASE \E o \in todo[Worker] : TakeUp(Worker, o)
    <3>1. Moves(Worker)
      BY <2>1 DEF Moves, TypeOK
    <3> QED BY <1>4, <3>1, TakesEffects, ActorTypes DEF TypeOK, storage, records
  <2>2. CASE /\ step' = [step EXCEPT ![Worker] = "working"] /\ UNCHANGED <<item, outcome>>
             /\ todo' = [todo EXCEPT ![Worker] = Batch]
    BY <1>4, <2>2, TakesEffects, BatchType DEF TypeOK, storage, records
  <2> QED BY <1>4, <2>1, <2>2, TakesEffects
<1>5. ASSUME NEW a \in Actors, Resume(a) \/ ResumeFails(a) PROVE TypeOK'
  <2>1. todo[a] \ {item[a]} \in SUBSET Objects
    BY DEF TypeOK
  <2>2. Moves(a)
    BY <1>5, <2>1, ResumeEffects DEF Moves, Skip, Closed
  <2>3. file' \in [Objects -> {"unborn", "young", "old", "gone"}] /\ removed' \subseteq Objects
    <3>1. item[a] \in Objects
      BY <1>5, ResumeEffects
    <3>2. \/ UNCHANGED <<file, removed>>
          \/ file' = [file EXCEPT ![item[a]] = "gone"] /\ removed' = removed \cup {item[a]}
      BY <1>5, ResumeEffects
    <3> QED BY <3>1, <3>2 DEF TypeOK
  <2> QED BY <1>5, <2>2, <2>3, ResumeEffects, ActorTypes DEF TypeOK, records
<1>6. ASSUME NEW a \in Actors, Shuts(a) PROVE TypeOK'
  <2>1. item[a] \in Objects /\ outcome[a] \in Closed /\ todo[a] \subseteq Objects
    BY <1>6, ShutsEffects DEF TypeOK
  <2>2. Moves(a)
    BY <1>6, <2>1, ShutsEffects DEF Moves
  <2> QED BY <1>6, <2>1, <2>2, ShutsEffects, ActorTypes, Closes DEF TypeOK, storage
<1>7. ASSUME Crash PROVE TypeOK'
  BY <1>7 DEF Crash, LoadAll, TypeOK, Closed, records
<1>8. ASSUME UNCHANGED vars PROVE TypeOK'
  BY <1>8 DEF TypeOK, vars, storage, records, actors
<1> QED BY <1>1, <1>2, <1>3, <1>4, <1>5, <1>6, <1>7, <1>8, Kinds

(* Where an actor stands afterwards, by the way its variables moved.        *)
LEMMA HeldStep == ASSUME Typed, [Next]_vars PROVE Held'
<1> USE Sorts DEF Typed, Held
<1>1. ASSUME UNCHANGED <<step, item, outcome>> PROVE Held'
  BY <1>1
<1>2. ASSUME NEW a \in Actors, NEW o \in Objects, TakeUp(a, o) PROVE Held'
  BY <1>2 DEF TakeUp, Goto, TypeOK
<1>3. ASSUME NEW a \in Actors, NEW rest, Leave(a, rest) PROVE Held'
  BY <1>3 DEF Leave, Goto, TypeOK
<1>4. ASSUME NEW o \in Objects, Life(o) PROVE Held'
  BY <1>1, <1>4 DEF Life, Receive, CleanUp, Adopt, Settle, Rename, Insert, Purge, Ages, actors
<1>5. ASSUME NEW a \in Requests, Lists(a) PROVE Held'
  BY <1>5 DEF Lists, ReadTracked, ReadDirectory, Goto, TypeOK
<1>6. ASSUME NEW a \in Requests, NEW o \in Objects, Opens(a, o) PROVE Held'
  BY <1>2, <1>3, <1>6, OpensEffects
<1>7. ASSUME Takes PROVE Held'
  <2>1. CASE \E o \in todo[Worker] : TakeUp(Worker, o)
    BY <1>2, <2>1 DEF TypeOK
  <2>2. CASE step' = [step EXCEPT ![Worker] = "working"] /\ UNCHANGED <<item, outcome>>
    BY <2>2 DEF TypeOK
  <2> QED BY <1>7, <2>1, <2>2, TakesEffects
<1>8. ASSUME NEW a \in Actors, Resume(a) \/ ResumeFails(a) PROVE Held'
  <2>1. step[a] \in {"resuming", "checked", "found"} /\ item[a] \in Objects
    BY <1>8, ResumeEffects
  <2>2. ASSUME NEW result \in Closed, Returns(a, result) PROVE Held'
    BY <2>1, <2>2 DEF Returns, Goto, TypeOK
  <2>3. ASSUME NEW s \in {"checked", "found"}, Continues(a, s), item[a] \in Protected PROVE Held'
    BY <2>1, <2>3 DEF Continues, Goto, TypeOK
  <2> QED BY <1>3, <1>8, <2>2, <2>3, ResumeEffects DEF Skip, Closed
<1>9. ASSUME NEW a \in Actors, Shuts(a) PROVE Held'
  BY <1>3, <1>9, ShutsEffects
<1>10. ASSUME Crash PROVE Held'
  BY <1>10 DEF Crash
<1>11. ASSUME UNCHANGED vars PROVE Held'
  BY <1>1, <1>11 DEF vars, actors
<1> QED BY <1>4, <1>5, <1>6, <1>7, <1>8, <1>9, <1>10, <1>11, Kinds

LEMMA TypeInit == ASSUME Init PROVE Typed
<1> USE DEF Init
<1>1. evidence \in [Objects -> Seq(Closed)] /\ queue \in Seq(Objects)
  OBVIOUS
<1> QED BY <1>1, Sorts DEF Typed, TypeOK, Held, Closed

(* The types of the state, under every behaviour.                          *)
THEOREM Typing == Spec => []TypeOK
<1>1. Typed /\ [Next]_vars => Typed'
  BY TypeStep, HeldStep DEF Typed
<1>2. Typed => TypeOK
  BY DEF Typed
<1> QED BY TypeInit, <1>1, <1>2, PTL DEF Spec

----------------------------------------------------------------------------
(* The ledger.                                                             *)

(* Only the two transactions change the records, and they keep them        *)
(* consistent.                                                             *)
Books ==
  /\ \A o \in Objects : approved[o] = IF journal[o] = "none" THEN 0 ELSE 1
  /\ EvidenceMatchesJournal
  /\ \A i \in 1..Len(queue) : journal[queue[i]] # "none"

Grows == \A o \in Objects : journal[o] # "none" => journal'[o] # "none"

LEMMA AuthorizedBooks ==
  ASSUME Typed, Books, NEW o \in Objects, Authorized(o)
  PROVE  Books' /\ Grows /\ journal'[o] # "none"
<1> USE DEF Typed, TypeOK
<1>1. CASE journal[o] = "none"
  <2>1. /\ journal' = [journal EXCEPT ![o] = "authorized"] /\ evidence' = evidence
        /\ approved' = [approved EXCEPT ![o] = approved[o] + 1]
    BY <1>1 DEF Authorized
  <2>2. queue' = Append(queue, o)
    BY <1>1 DEF Authorized
  <2>3. EvidenceMatchesJournal'
    BY <1>1, <2>1 DEF Books, EvidenceMatchesJournal, Closed
  <2>4. \A i \in 1..Len(queue') : journal'[queue'[i]] # "none"
    BY <2>1, <2>2 DEF Books
  <2>5. (\A x \in Objects : approved[x] = IF journal[x] = "none" THEN 0 ELSE 1)'
    BY <1>1, <2>1 DEF Books
  <2> QED BY <2>1, <2>3, <2>4, <2>5 DEF Books, Grows
<1>2. CASE journal[o] # "none"
  BY <1>2 DEF Authorized, records, Books, EvidenceMatchesJournal, Grows
<1> QED BY <1>1, <1>2

LEMMA ClosedBooks ==
  ASSUME Typed, Books, NEW o \in Objects, NEW result \in Closed, Completes(o, result)
  PROVE  Books' /\ Grows
<1> USE DEF Typed, TypeOK
<1>1. CASE journal[o] = "authorized"
  <2>1. /\ journal' = [journal EXCEPT ![o] = result] /\ queue' = queue /\ approved' = approved
        /\ evidence' = [evidence EXCEPT ![o] = Append(evidence[o], result)]
    BY <1>1 DEF Completes
  <2>2. evidence[o] = <<>>
    BY <1>1 DEF Books, EvidenceMatchesJournal, Closed
  <2>3. evidence'[o] = <<result>>
    BY <2>1, <2>2
  <2>4. EvidenceMatchesJournal'
    <3> SUFFICES ASSUME NEW x \in Objects
                 PROVE evidence'[x] = IF journal'[x] \in Closed THEN <<journal'[x]>> ELSE <<>>
      BY DEF EvidenceMatchesJournal
    <3>1. CASE x = o
      BY <2>1, <2>3, <3>1
    <3>2. CASE x # o
      BY <2>1, <3>2 DEF Books, EvidenceMatchesJournal
    <3> QED BY <3>1, <3>2
  <2>5. result # "none"
    BY DEF Closed
  <2>6. (\A x \in Objects : approved[x] = IF journal[x] = "none" THEN 0 ELSE 1)'
    BY <1>1, <2>1, <2>5 DEF Books
  <2>7. \A i \in 1..Len(queue') : journal'[queue'[i]] # "none"
    BY <2>1, <2>5 DEF Books
  <2> QED BY <2>1, <2>4, <2>5, <2>6, <2>7 DEF Books, Grows
<1>2. CASE journal[o] # "authorized"
  BY <1>2 DEF Completes, records, Books, EvidenceMatchesJournal, Grows
<1> QED BY <1>1, <1>2

(* What an actor works on is authorised.                                   *)
Mandated ==
  /\ removed \subseteq {o \in Objects : journal[o] # "none"}
  /\ \A a \in Actors :
       step[a] \in {"resuming", "checked", "found", "closing"} => journal[item[a]] # "none"
  /\ \A o \in todo[Worker] : journal[o] # "none"

LEMMA LedgerParts == ASSUME TypeOK PROVE Ledger <=> Books /\ Mandated
BY DEF TypeOK, Ledger, Books, Mandated, AuthorizedFirst

LEMMA MandatedByMove ==
  ASSUME Typed, Mandated, Grows, UNCHANGED removed, NEW a \in Actors,
         \/ \E o \in Objects : journal'[o] # "none" /\ TakeUp(a, o)
         \/ \E rest \in SUBSET todo[a] : Leave(a, rest)
  PROVE  Mandated'
<1> USE Sorts DEF Typed, TypeOK, Held, Goto
<1>1. CASE \E o \in Objects : journal'[o] # "none" /\ TakeUp(a, o)
  BY <1>1 DEF TakeUp, Mandated, Grows
<1>2. CASE \E rest \in SUBSET todo[a] : Leave(a, rest)
  BY <1>2 DEF Leave, Mandated, Grows
<1> QED BY <1>1, <1>2

LEMMA LedgerStep == ASSUME Typed, Ledger, [Next]_vars PROVE Ledger' /\ Grows
<1>0. Books /\ Mandated /\ TypeOK'
  BY LedgerParts, TypeStep DEF Typed
<1> SUFFICES Books' /\ Mandated' /\ Grows
  BY <1>0 DEF TypeOK, Ledger, Books, Mandated, AuthorizedFirst
<1>1. ASSUME UNCHANGED records PROVE Books' /\ Grows
  BY <1>0, <1>1 DEF records, Books, EvidenceMatchesJournal, Grows
<1>2. ASSUME NEW o \in Objects, Life(o) PROVE Books' /\ Mandated' /\ Grows
  <2>1. UNCHANGED <<records, actors, removed>>
    BY <1>2 DEF Life, Receive, CleanUp, Adopt, Settle, Rename, Insert, Purge, Ages
  <2> QED BY <1>0, <1>1, <2>1 DEF Mandated, actors, records
<1>3. ASSUME NEW a \in Requests, Lists(a) PROVE Books' /\ Mandated' /\ Grows
  <2>1. UNCHANGED <<records, removed, item>>
    BY <1>3 DEF Lists, ReadTracked, ReadDirectory
  <2>2. /\ \A b \in Actors : b # a => step'[b] = step[b] /\ todo'[b] = todo[b]
        /\ step'[a] \notin {"resuming", "checked", "found", "closing"}
    BY <1>3, Sorts DEF Lists, ReadTracked, ReadDirectory, Goto, Typed, TypeOK
  <2> QED BY <1>0, <1>1, <2>1, <2>2, Sorts DEF Mandated, records
<1>4. ASSUME NEW a \in Requests, NEW o \in Objects, Opens(a, o)
      PROVE Books' /\ Mandated' /\ Grows
  <2>1. a \in Actors /\ UNCHANGED removed
    BY <1>4, OpensEffects, Sorts
  <2>2. CASE Authorized(o)
    BY <1>0, <1>4, <2>1, <2>2, AuthorizedBooks, OpensEffects, MandatedByMove
  <2>3. CASE UNCHANGED records /\ \E rest \in SUBSET todo[a] : Leave(a, rest)
    BY <1>0, <1>1, <2>1, <2>3, MandatedByMove
  <2> QED BY <1>4, <2>2, <2>3, OpensEffects
<1>5. ASSUME Takes PROVE Books' /\ Mandated' /\ Grows
  <2>1. Books' /\ Grows /\ UNCHANGED <<journal, removed>>
    BY <1>1, <1>5, TakesEffects DEF records
  <2>2. CASE \E o \in todo[Worker] : TakeUp(Worker, o)
    <3>1. \A o \in todo[Worker] : o \in Objects /\ journal'[o] # "none"
      BY <1>0, <2>1, Sorts DEF Mandated, Typed, TypeOK
    <3> QED BY <1>0, <2>1, <2>2, <3>1, Sorts, MandatedByMove
  <2>3. CASE /\ step' = [step EXCEPT ![Worker] = "working"] /\ UNCHANGED <<item, outcome>>
             /\ todo' = [todo EXCEPT ![Worker] = Batch]
    <3>1. \A o \in Batch : journal[o] # "none"
      BY DEF Batch, Open
    <3> QED BY <1>0, <2>1, <2>3, <3>1, Sorts DEF Mandated, Typed, TypeOK
  <2> QED BY <1>5, <2>2, <2>3, TakesEffects
<1>6. ASSUME NEW a \in Actors, Resume(a) \/ ResumeFails(a) PROVE Books' /\ Mandated' /\ Grows
  <2>1. UNCHANGED records
    BY <1>6 DEF Resume, ResumeFails, ResumeQuarantine, CheckTracked, Lstat, Remove
  <2>2. step[a] \in {"resuming", "checked", "found"} /\ item[a] \in Objects
        /\ journal[item[a]] # "none"
    BY <1>0, <1>6, ResumeEffects DEF Mandated
  <2>3. removed' \subseteq {o \in Objects : journal'[o] # "none"}
    BY <1>0, <1>6, <2>1, <2>2, ResumeEffects DEF Mandated, records
  <2>4. \/ UNCHANGED <<item, todo>> /\ \A b \in Actors : b # a => step'[b] = step[b]
        \/ Leave(a, todo[a] \ {item[a]})
    BY <1>6, ResumeEffects DEF Returns, Continues, Skip, Goto, Typed, TypeOK
  <2>5. CASE UNCHANGED <<item, todo>> /\ \A b \in Actors : b # a => step'[b] = step[b]
    <3>1. journal' = journal
      BY <2>1 DEF records
    <3>2. \A b \in Actors : step'[b] \in {"resuming", "checked", "found", "closing"}
                            => journal'[item'[b]] # "none"
      BY <1>0, <2>2, <2>5, <3>1 DEF Mandated
    <3>3. \A o \in todo'[Worker] : journal'[o] # "none"
      BY <1>0, <2>5, <3>1 DEF Mandated
    <3> QED BY <1>1, <2>1, <2>3, <3>2, <3>3 DEF Mandated
  <2>6. CASE Leave(a, todo[a] \ {item[a]})
    <3>1. journal' = journal
      BY <2>1 DEF records
    <3>2. \A b \in Actors : step'[b] \in {"resuming", "checked", "found", "closing"}
                            => journal'[item'[b]] # "none"
      BY <1>0, <2>6, <3>1 DEF Mandated, Leave, Goto, Typed, TypeOK
    <3>3. \A o \in todo'[Worker] : journal'[o] # "none"
      BY <1>0, <2>6, <3>1, Sorts DEF Mandated, Leave, Typed, TypeOK
    <3> QED BY <1>1, <2>1, <2>3, <3>2, <3>3 DEF Mandated
  <2> QED BY <1>1, <2>1, <2>4, <2>5, <2>6
<1>7. ASSUME NEW a \in Actors, Shuts(a) PROVE Books' /\ Mandated' /\ Grows
  BY <1>0, <1>1, <1>7, ShutsEffects, ClosedBooks, MandatedByMove
<1>8. ASSUME Crash PROVE Books' /\ Mandated' /\ Grows
  <2>1. UNCHANGED <<records, removed>>
    BY <1>8 DEF Crash
  <2> QED BY <1>0, <1>1, <1>8, <2>1, Sorts DEF Crash, Mandated, records
<1>9. ASSUME UNCHANGED vars PROVE Books' /\ Mandated' /\ Grows
  BY <1>0, <1>1, <1>9 DEF vars, actors, records, Mandated
<1> QED BY <1>2, <1>3, <1>4, <1>5, <1>6, <1>7, <1>8, <1>9, Kinds

LEMMA LedgerInit == ASSUME Init PROVE Ledger
BY Sorts DEF Init, Ledger, AuthorizedFirst, EvidenceMatchesJournal, Closed

LEMMA LedgerAlways == Spec => [](Typed /\ Ledger)
<1>1. Typed /\ Ledger /\ [Next]_vars => (Typed /\ Ledger)'
  BY TypeStep, HeldStep, LedgerStep DEF Typed
<1> QED BY TypeInit, LedgerInit, <1>1, PTL DEF Spec

(* Two transactions write the journal.                                     *)
LEMMA RecordsStep ==
  ASSUME Typed, [Next]_vars
  PROVE  \/ UNCHANGED records
         \/ \E o \in Objects : Authorized(o)
         \/ \E o \in Objects, result \in Closed : Completes(o, result)
<1>1. ASSUME NEW o \in Objects, Life(o) PROVE UNCHANGED records
  BY <1>1 DEF Life, Receive, CleanUp, Adopt, Settle, Rename, Insert, Purge, Ages
<1>2. ASSUME NEW a \in Requests, Lists(a) PROVE UNCHANGED records
  BY <1>2 DEF Lists, ReadTracked, ReadDirectory
<1>3. ASSUME NEW a \in Requests, NEW o \in Objects, Opens(a, o)
      PROVE  UNCHANGED records \/ Authorized(o)
  BY <1>3, OpensEffects
<1>4. ASSUME NEW a \in Actors, Shuts(a)
      PROVE  UNCHANGED records \/ \E o \in Objects, result \in Closed : Completes(o, result)
  BY <1>4, ShutsEffects
<1>5. ASSUME NEW a \in Actors, Resume(a) \/ ResumeFails(a) PROVE UNCHANGED records
  BY <1>5 DEF Resume, ResumeFails, ResumeQuarantine, CheckTracked, Lstat, Remove
<1>6. Takes => UNCHANGED records
  BY DEF Takes, Pending, NextPending
<1>7. Crash \/ UNCHANGED vars => UNCHANGED records
  BY DEF Crash, vars
<1> QED BY <1>1, <1>2, <1>3, <1>4, <1>5, <1>6, <1>7, Kinds

(* Over any requests, runs of the worker, failures and crashes, a closed   *)
(* operation stays closed as it is and its evidence is not written again.  *)
THEOREM Forward == Spec => JournalMovesForward
<1> DEFINE Fwd(o) ==
      /\ journal'[o] # journal[o] =>
           \/ journal[o] = "none" /\ journal'[o] = "authorized"
           \/ journal[o] = "authorized" /\ journal'[o] \in Closed
      /\ evidence'[o] # evidence[o] => journal[o] = "authorized" /\ journal'[o] \in Closed
<1>1. Typed /\ Ledger /\ [Next]_vars => \A o \in Objects : Fwd(o)
  <2> SUFFICES ASSUME Typed, [Next]_vars, NEW x \in Objects PROVE Fwd(x)
    OBVIOUS
  <2> USE DEF Typed, TypeOK
  <2>1. ASSUME NEW o \in Objects, Authorized(o) PROVE Fwd(x)
    BY <2>1 DEF Authorized, records
  <2>2. ASSUME NEW o \in Objects, NEW result \in Closed, Completes(o, result) PROVE Fwd(x)
    BY <2>2 DEF Completes, records
  <2>3. CASE UNCHANGED records
    BY <2>3 DEF records
  <2> QED BY <2>1, <2>2, <2>3, RecordsStep
<1>2. (\A o \in Objects : Fwd(o)) => [\A o \in Objects : Fwd(o)]_vars
  OBVIOUS
<1> QED BY <1>1, <1>2, LedgerAlways, PTL DEF Spec, JournalMovesForward

(* Every operation is in the worker's order once.                          *)
Ordered ==
  /\ \A o \in Objects : journal[o] # "none" => \E i \in 1..Len(queue) : queue[i] = o
  /\ \A i, j \in 1..Len(queue) : queue[i] = queue[j] => i = j

LEMMA OrderedStep == ASSUME Typed, Books, Ordered, [Next]_vars PROVE Ordered'
<1> USE DEF Typed, TypeOK
<1>1. ASSUME NEW o \in Objects, Authorized(o), journal[o] = "none" PROVE Ordered'
  <2>1. journal' = [journal EXCEPT ![o] = "authorized"] /\ queue' = Append(queue, o)
    BY <1>1 DEF Authorized
  <2>2. /\ Len(queue') = Len(queue) + 1 /\ queue'[Len(queue) + 1] = o
        /\ \A i \in 1..Len(queue) : queue'[i] = queue[i] /\ queue[i] \in Objects
    BY <2>1
  <2>3. \A i \in 1..Len(queue) : queue[i] # o
    BY <1>1 DEF Books
  <2>4. Len(queue) \in Nat
    OBVIOUS
  <2>5. ASSUME NEW x \in Objects, journal'[x] # "none" PROVE \E i \in 1..Len(queue') : queue'[i] = x
    <3>1. CASE x = o
      <4>1. Len(queue) + 1 \in 1..Len(queue')
        BY <2>2, <2>4
      <4> QED BY <2>2, <3>1, <4>1
    <3>2. CASE x # o
      <4>1. PICK i \in 1..Len(queue) : queue[i] = x
        BY <2>1, <2>5, <3>2 DEF Ordered
      <4>2. i \in 1..Len(queue')
        BY <2>2, <2>4
      <4> QED BY <2>2, <4>1, <4>2
    <3> QED BY <3>1, <3>2
  <2>6. ASSUME NEW i \in 1..Len(queue'), NEW j \in 1..Len(queue'), queue'[i] = queue'[j] PROVE i = j
    <3>1. /\ i = Len(queue) + 1 \/ i \in 1..Len(queue)
          /\ j = Len(queue) + 1 \/ j \in 1..Len(queue)
      BY <2>2, <2>4
    <3>2. CASE i \in 1..Len(queue) /\ j \in 1..Len(queue)
      <4>1. queue[i] = queue[j]
        BY <2>2, <2>6, <3>2
      <4> QED BY <3>2, <4>1 DEF Ordered
    <3>3. CASE i = Len(queue) + 1 /\ j \in 1..Len(queue)
      BY <2>2, <2>3, <2>6, <3>3
    <3>4. CASE j = Len(queue) + 1 /\ i \in 1..Len(queue)
      BY <2>2, <2>3, <2>6, <3>4
    <3> QED BY <3>1, <3>2, <3>3, <3>4
  <2> QED BY <2>5, <2>6 DEF Ordered
<1>2. ASSUME NEW o \in Objects, NEW result \in Closed, Completes(o, result) PROVE Ordered'
  <2>1. queue' = queue /\ \A x \in Objects : journal'[x] # "none" => journal[x] # "none"
    BY <1>2 DEF Completes, records
  <2> QED BY <2>1 DEF Ordered
<1>3. ASSUME UNCHANGED records PROVE Ordered'
  BY <1>3 DEF records, Ordered
<1>4. ASSUME NEW o \in Objects, Authorized(o), journal[o] # "none" PROVE Ordered'
  BY <1>3, <1>4 DEF Authorized
<1> QED BY <1>1, <1>2, <1>3, <1>4, RecordsStep

(* The oldest open operation has none before it to fill the batch.         *)
LEMMA OldestInBatch ==
  ASSUME NEW i \in Open, \A j \in Open : i <= j PROVE queue[i] \in Batch
<1>1. {j \in Open : j < i} = {}
  BY DEF Open
<1>2. Cardinality({j \in Open : j < i}) = 0
  BY <1>1, FS_EmptySet
<1>3. 0 < Limit
  BY OrphanAssumption
<1> QED BY <1>2, <1>3 DEF Batch

(* What is open stays where the worker looks, and the oldest is in its     *)
(* next batch: with fairness, why nothing authorised is left open.         *)
THEOREM Found == Spec => []OpenIsFound
<1>1. Init => Ordered
  BY Sorts DEF Init, Ordered
<1>2. Typed /\ Ledger /\ Ordered /\ [Next]_vars => Ordered'
  BY OrderedStep, LedgerParts DEF Typed
<1>3. Ordered => OpenIsFound
  BY OldestInBatch DEF Ordered, OpenIsFound
<1> QED BY <1>1, <1>2, <1>3, LedgerAlways, PTL DEF Spec

(* No object is removed without one authorisation that committed before.   *)
THEOREM Authorization == Spec => []AuthorizedFirst
<1>1. Ledger => AuthorizedFirst
  BY DEF Ledger
<1> QED BY LedgerAlways, <1>1, PTL

----------------------------------------------------------------------------
(* The window.                                                             *)

(* What becomes of the objects, whoever moves.                             *)
Attached ==
  /\ known \subseteq row /\ writing \cap Quarantine \subseteq known
  /\ \A o \in row \cup writing : file[o] # "unborn"
  /\ \A o \in Protected \cap writing : file[o] = "old" => o \in late

LEMMA StorageSteps ==
  ASSUME Typed, [Next]_vars
  PROVE  \/ \E o \in Objects : Life(o)
         \/ /\ UNCHANGED <<row, known, writing, late>>
            /\ \A o \in Objects : file'[o] = file[o] \/ (Present(o) /\ file'[o] = "gone")
         \/ /\ UNCHANGED <<file, row, late>>
            /\ known' = row \cap Quarantine /\ writing' = {}
<1>1. ASSUME NEW a \in Actors, Resume(a) \/ ResumeFails(a)
      PROVE  /\ UNCHANGED <<row, known, writing, late>>
             /\ \A o \in Objects : file'[o] = file[o] \/ (Present(o) /\ file'[o] = "gone")
  <2>1. \/ UNCHANGED <<file, removed>>
        \/ Present(item[a]) /\ file' = [file EXCEPT ![item[a]] = "gone"]
    BY <1>1, ResumeEffects
  <2>2. item[a] \in Objects /\ UNCHANGED <<row, known, writing, late>>
    BY <1>1, ResumeEffects
  <2> QED BY <2>1, <2>2 DEF Typed, TypeOK
<1>2. ASSUME NEW a \in Requests, Lists(a) PROVE UNCHANGED storage
  BY <1>2 DEF Lists, ReadTracked, ReadDirectory
<1>3. ASSUME NEW a \in Requests, NEW o \in Objects, Opens(a, o) PROVE UNCHANGED storage
  BY <1>3, OpensEffects
<1>4. ASSUME NEW a \in Actors, Shuts(a) PROVE UNCHANGED storage
  BY <1>4, ShutsEffects
<1> QED BY <1>1, <1>2, <1>3, <1>4, Kinds, TakesEffects DEF Crash, LoadAll, vars, storage

LEMMA AttachedStep == ASSUME Typed, Attached, [Next]_vars PROVE Attached'
<1> USE Sorts DEF Attached, Typed, TypeOK
<1>1. ASSUME NEW o \in Objects, Life(o) PROVE Attached'
  <2>1. CASE Receive(o)
    BY <1>1, <2>1, OrphanAssumption DEF Receive
  <2>2. CASE CleanUp(o)
    BY <2>2 DEF CleanUp, Gone
  <2>3. CASE Adopt(o)
    BY <2>3 DEF Adopt
  <2>4. CASE Settle(o)
    BY <2>4 DEF Settle, Gone
  <2>5. CASE Rename(o)
    BY <2>5, OrphanAssumption DEF Rename
  <2>6. CASE Insert(o)
    BY <2>6 DEF Insert, Gone
  <2>7. CASE Purge(o)
    BY <2>7, OrphanAssumption DEF Purge, Gone
  <2>8. CASE Ages(o)
    BY <2>8 DEF Ages
  <2> QED BY <1>1, <2>1, <2>2, <2>3, <2>4, <2>5, <2>6, <2>7, <2>8 DEF Life
<1>2. CASE /\ UNCHANGED <<row, known, writing, late>>
           /\ \A o \in Objects : file'[o] = file[o] \/ (Present(o) /\ file'[o] = "gone")
  BY <1>2
<1>3. CASE /\ UNCHANGED <<file, row, late>>
           /\ known' = row \cap Quarantine /\ writing' = {}
  BY <1>3
<1> QED BY <1>1, <1>2, <1>3, StorageSteps

LEMMA OrphanedStays ==
  ASSUME Typed, Attached, [Next]_vars, NEW o \in Objects, Orphaned(o)
  PROVE  /\ Orphaned(o)'
         /\ file[o] = "gone" => file'[o] = "gone"
         /\ o \in row \cup late => o \in row' \cup late'
<1> USE DEF Orphaned, Typed, TypeOK, Attached
<1>1. ASSUME NEW x \in Objects, Life(x)
      PROVE  /\ Orphaned(o)'
             /\ file[o] = "gone" => file'[o] = "gone"
             /\ o \in row \cup late => o \in row' \cup late'
  <2>1. CASE Receive(x) \/ Rename(x)
    BY <2>1 DEF Receive, Rename
  <2>2. CASE CleanUp(x)
    BY <2>2, OrphanAssumption DEF CleanUp, Gone
  <2>3. CASE Adopt(x) \/ Settle(x)
    BY <2>3 DEF Adopt, Settle, Gone
  <2>4. CASE Insert(x)
    BY <2>4, OrphanAssumption DEF Insert, Gone
  <2>5. CASE Purge(x)
    BY <2>5, OrphanAssumption DEF Purge, Gone
  <2>6. CASE Ages(x)
    BY <2>6 DEF Ages
  <2> QED BY <1>1, <2>1, <2>2, <2>3, <2>4, <2>5, <2>6 DEF Life
<1> QED BY <1>1, StorageSteps DEF Present

LEMMA AgesNot ==
  ASSUME Typed, [Next]_vars, NEW a \in Requests, step[a] = "listing", NEW o \in Objects,
         file'[o] = "old"
  PROVE  file[o] = "old"
<1>1. ASSUME NEW x \in Objects, Life(x) PROVE file[o] = "old"
  BY <1>1 DEF Life, Receive, CleanUp, Adopt, Settle, Rename, Insert, Purge, Ages, Gone, Typed, TypeOK
<1> QED BY <1>1, StorageSteps

(* A request's selection.                                                  *)
Chosen(a) ==
  /\ step[a] # "listing" => \A o \in todo[a] : Orphaned(o)
  /\ step[a] = "listing" => \A o \in Objects \ todo[a] : file[o] = "old" => Orphaned(o)

LEMMA ChosenStep ==
  ASSUME Typed, Attached, [Next]_vars, NEW a \in Requests, Chosen(a)
  PROVE  Chosen(a)'
<1> USE Sorts DEF Typed, TypeOK
<1>0. \A o \in Objects : Orphaned(o) => Orphaned(o)'
  BY OrphanedStays
<1>1. ASSUME step'[a] = step[a], todo'[a] = todo[a] PROVE Chosen(a)'
  BY <1>0, <1>1, AgesNot DEF Chosen
<1>2. ASSUME step[a] # "listing", todo'[a] \subseteq todo[a], step'[a] # "listing" PROVE Chosen(a)'
  BY <1>0, <1>2 DEF Chosen
<1>3. ASSUME ReadTracked(a) PROVE Chosen(a)'
  <2>1. UNCHANGED storage /\ todo'[a] = {o \in Objects : Tracked(o)} /\ step'[a] = "listing"
    BY <1>3 DEF ReadTracked, Goto
  <2>2. \A o \in Objects \ todo'[a] : file[o] = "old" => Orphaned(o)
    BY <2>1, OrphanAssumption DEF Tracked, Orphaned, Attached
  <2> QED BY <1>0, <2>1, <2>2 DEF Chosen, storage
<1>4. ASSUME ReadDirectory(a) PROVE Chosen(a)'
  <2>1. UNCHANGED storage /\ step[a] = "listing" /\ step'[a] # "listing"
        /\ todo'[a] \subseteq Eligible(a)
    BY <1>4 DEF ReadDirectory, Goto
  <2>2. \A o \in todo'[a] : Orphaned(o) /\ o \in Objects
    BY <2>1 DEF Chosen, Eligible
  <2> QED BY <1>0, <2>1, <2>2 DEF Chosen
<1>5. ASSUME NEW b \in Requests, Lists(b) PROVE Chosen(a)'
  <2>1. CASE b = a
    BY <1>3, <1>4, <1>5, <2>1 DEF Lists
  <2>2. CASE b # a
    BY <1>1, <1>5, <2>2 DEF Lists, ReadTracked, ReadDirectory, Goto
  <2> QED BY <2>1, <2>2
<1>6. ASSUME NEW b \in Actors, step[b] # "listing", Moves(b), todo'[b] \subseteq todo[b]
      PROVE  Chosen(a)'
  <2>1. step'[b] # "listing" /\ \A c \in Actors : c # b => step'[c] = step[c] /\ todo'[c] = todo[c]
    BY <1>6 DEF Moves, TakeUp, Returns, Continues, Leave, Goto
  <2> QED BY <1>1, <1>2, <1>6, <2>1
<1>7. ASSUME NEW o \in Objects, Life(o) PROVE Chosen(a)'
  BY <1>1, <1>7 DEF Life, Receive, CleanUp, Adopt, Settle, Rename, Insert, Purge, Ages, actors
<1>8. ASSUME NEW b \in Requests, NEW o \in Objects, Opens(b, o) PROVE Chosen(a)'
  <2>1. step[b] = "working" /\ todo[b] \subseteq Objects
    BY <1>8, OpensEffects
  <2>2. b \in Actors
    BY DEF Actors
  <2>3. ASSUME TakeUp(b, o) PROVE Moves(b) /\ todo'[b] \subseteq todo[b]
    BY <2>3 DEF Moves, TakeUp
  <2>4. Moves(b) /\ todo'[b] \subseteq todo[b]
    BY <1>8, <2>2, <2>3, OpensEffects, LeaveMoves
  <2> QED BY <1>6, <2>1, <2>2, <2>4
<1>9. ASSUME Takes PROVE Chosen(a)'
  BY <1>1, <1>9, TakesEffects DEF TakeUp, Goto
<1>10. ASSUME NEW b \in Actors, Resume(b) \/ ResumeFails(b) PROVE Chosen(a)'
  <2>1. step[b] # "listing" /\ todo[b] \subseteq Objects
    BY <1>10, ResumeEffects
  <2>2. Moves(b)
    BY <1>10, <2>1, ResumeMoves DEF Moves
  <2>3. todo'[b] \subseteq todo[b]
    BY <1>10, ResumeMoves DEF Returns, Continues, Leave
  <2> QED BY <1>6, <2>1, <2>2, <2>3
<1>11. ASSUME NEW b \in Actors, Shuts(b) PROVE Chosen(a)'
  <2>1. step[b] = "closing" /\ todo[b] \subseteq Objects
    BY <1>11, ShutsEffects
  <2>2. Moves(b) /\ todo'[b] \subseteq todo[b]
    BY <1>11, ShutsEffects, LeaveMoves
  <2> QED BY <1>6, <2>1, <2>2
<1>12. ASSUME Crash PROVE Chosen(a)'
  BY <1>12 DEF Crash, Chosen
<1>13. ASSUME UNCHANGED vars PROVE Chosen(a)'
  BY <1>1, <1>13 DEF vars, actors
<1> QED BY <1>5, <1>7, <1>8, <1>9, <1>10, <1>11, <1>12, <1>13, Kinds

Window ==
  /\ Attached
  /\ \A o \in Objects : journal[o] # "none" => Orphaned(o)
  /\ \A a \in Requests : Chosen(a)

(* Only what a request has chosen gets authorised.                         *)
LEMMA WindowStep == ASSUME Typed, Ledger, Window, [Next]_vars PROVE Window'
<1> USE DEF Window
<1>1. Attached' /\ \A a \in Requests : Chosen(a)'
  BY AttachedStep, ChosenStep
<1>2. ASSUME NEW o \in Objects, journal'[o] # "none", journal[o] = "none" PROVE Orphaned(o)
  <2>1. ASSUME NEW x \in Objects, Completes(x, "completed") \/ Completes(x, "failed")
        PROVE  FALSE
    BY <1>2, <2>1 DEF Completes, records, Typed, TypeOK
  <2>2. ASSUME UNCHANGED records PROVE FALSE
    BY <1>2, <2>2 DEF records
  <2>3. ASSUME NEW a \in Requests, NEW x \in Objects, Opens(a, x) PROVE Orphaned(o)
    <3>1. step[a] = "working" /\ x \in todo[a] /\ Authorized(x)
      BY <2>2, <2>3, OpensEffects
    <3>2. x = o
      BY <1>2, <3>1 DEF Authorized, records, Typed, TypeOK
    <3> QED BY <3>1, <3>2 DEF Chosen
  <2>4. ASSUME NEW a \in Actors, Shuts(a) PROVE FALSE
    BY <2>1, <2>2, <2>4, ShutsEffects DEF Closed
  <2>5. ASSUME NEW x \in Objects, Life(x) PROVE FALSE
    BY <2>2, <2>5 DEF Life, Receive, CleanUp, Adopt, Settle, Rename, Insert, Purge, Ages
  <2>6. ASSUME NEW a \in Requests, Lists(a) PROVE FALSE
    BY <2>2, <2>6 DEF Lists, ReadTracked, ReadDirectory
  <2>7. ASSUME NEW a \in Actors, Resume(a) \/ ResumeFails(a) PROVE FALSE
    BY <2>2, <2>7 DEF Resume, ResumeFails, ResumeQuarantine, CheckTracked, Lstat, Remove
  <2>8. ASSUME Takes \/ Crash \/ UNCHANGED vars PROVE FALSE
    BY <2>2, <2>8, TakesEffects DEF Crash, vars
  <2> QED BY <2>3, <2>4, <2>5, <2>6, <2>7, <2>8, Kinds
<1>3. \A o \in Objects : journal'[o] # "none" => Orphaned(o)'
  BY <1>2, OrphanedStays
<1> QED BY <1>1, <1>3

LEMMA WindowInit == ASSUME Init PROVE Window
BY Sorts DEF Init, Window, Attached, Chosen, Objects

----------------------------------------------------------------------------
(* What the evidence says.                                                 *)

LEMMA SaysStays ==
  ASSUME Typed, Window, [Next]_vars, NEW o \in Objects, journal[o] # "none",
         NEW result, Says(o, result)
  PROVE  Says(o, result)'
BY OrphanedStays DEF Window, Says

(* An operation is closed by an actor that says how.                       *)
LEMMA JournalSteps ==
  ASSUME Typed, [Next]_vars, NEW o \in Objects, journal'[o] \in Closed
  PROVE  \/ journal'[o] = journal[o]
         \/ \E a \in Actors : step[a] = "closing" /\ item[a] = o /\ journal'[o] = outcome[a]
<1>1. ASSUME UNCHANGED records PROVE journal'[o] = journal[o]
  BY <1>1 DEF records
<1>2. ASSUME NEW a \in Requests, NEW x \in Objects, Opens(a, x) PROVE journal'[o] = journal[o]
  <2>1. Authorized(x) \/ UNCHANGED records
    BY <1>2, OpensEffects
  <2>2. CASE journal[x] = "none" /\ journal' = [journal EXCEPT ![x] = "authorized"]
    BY <2>2 DEF Closed, Typed, TypeOK
  <2> QED BY <1>1, <2>1, <2>2 DEF Authorized
<1>3. ASSUME NEW a \in Actors, Shuts(a)
      PROVE  \/ journal'[o] = journal[o]
             \/ step[a] = "closing" /\ item[a] = o /\ journal'[o] = outcome[a]
  <2>1. step[a] = "closing" /\ (Completes(item[a], outcome[a]) \/ UNCHANGED records)
    BY <1>3, ShutsEffects
  <2> QED BY <1>1, <2>1 DEF Completes, Typed, TypeOK
<1>4. ASSUME NEW x \in Objects, Life(x) PROVE UNCHANGED records
  BY <1>4 DEF Life, Receive, CleanUp, Adopt, Settle, Rename, Insert, Purge, Ages
<1>5. ASSUME NEW a \in Requests, Lists(a) PROVE UNCHANGED records
  BY <1>5 DEF Lists, ReadTracked, ReadDirectory
<1>6. ASSUME NEW a \in Actors, Resume(a) \/ ResumeFails(a) PROVE UNCHANGED records
  BY <1>6 DEF Resume, ResumeFails, ResumeQuarantine, CheckTracked, Lstat, Remove
<1>7. ASSUME Takes \/ Crash \/ UNCHANGED vars PROVE UNCHANGED records
  BY <1>7, TakesEffects DEF Crash, vars
<1> QED BY <1>1, <1>2, <1>3, <1>4, <1>5, <1>6, <1>7, Kinds

(* An actor comes to close an operation when Resume returns.               *)
LEMMA ClosingSteps ==
  ASSUME Typed, [Next]_vars, NEW a \in Actors, step'[a] = "closing"
  PROVE  \/ step[a] = "closing" /\ item'[a] = item[a] /\ outcome'[a] = outcome[a]
         \/ Resume(a) \/ ResumeFails(a)
<1> USE Sorts DEF Typed, TypeOK
<1> DEFINE Same == step[a] = "closing" /\ item'[a] = item[a] /\ outcome'[a] = outcome[a]
<1>1. ASSUME UNCHANGED actors PROVE Same
  BY <1>1 DEF actors
<1>2. ASSUME NEW b \in Actors, NEW rest, Leave(b, rest) PROVE Same
  BY <1>2 DEF Leave, Goto
<1>3. ASSUME NEW b \in Actors, NEW o, TakeUp(b, o) PROVE Same
  BY <1>3 DEF TakeUp, Goto
<1>4. ASSUME NEW o \in Objects, Life(o) PROVE Same
  BY <1>1, <1>4 DEF Life, Receive, CleanUp, Adopt, Settle, Rename, Insert, Purge, Ages
<1>5. ASSUME NEW b \in Requests, Lists(b) PROVE Same
  BY <1>5 DEF Lists, ReadTracked, ReadDirectory, Goto
<1>6. ASSUME NEW b \in Requests, NEW o \in Objects, Opens(b, o) PROVE Same
  BY <1>2, <1>3, <1>6, OpensEffects
<1>7. ASSUME Takes PROVE Same
  <2>1. CASE step' = [step EXCEPT ![Worker] = "working"] /\ UNCHANGED <<item, outcome>>
    BY <2>1
  <2>2. CASE \E o \in todo[Worker] : TakeUp(Worker, o)
    BY <1>3, <2>2
  <2> QED BY <1>7, <2>1, <2>2, TakesEffects
<1>8. ASSUME NEW b \in Actors, b # a, Resume(b) \/ ResumeFails(b) PROVE Same
  <2>1. CASE \E result \in Closed : Returns(b, result)
    BY <1>8, <2>1 DEF Returns, Goto
  <2>2. CASE \E s \in {"checked", "found"} : Continues(b, s)
    BY <1>8, <2>2 DEF Continues, Goto
  <2> QED BY <1>2, <1>8, <2>1, <2>2, ResumeMoves
<1>9. ASSUME NEW b \in Actors, Shuts(b) PROVE Same
  BY <1>2, <1>9, ShutsEffects
<1>10. ASSUME Crash PROVE Same
  BY <1>10 DEF Crash
<1>11. ASSUME UNCHANGED vars PROVE Same
  BY <1>1, <1>11 DEF vars
<1> QED BY <1>4, <1>5, <1>6, <1>7, <1>8, <1>9, <1>10, <1>11, Kinds

LEMMA TruthStep == ASSUME Typed, Ledger, Window, Truth, [Next]_vars PROVE Truth'
<1>1. ASSUME NEW o \in Objects, journal'[o] \in Closed PROVE Says(o, journal[o])'
  <2>1. journal[o] # "none" /\ Says(o, journal'[o])
    BY <1>1, JournalSteps DEF Truth, Ledger, Closed
  <2>2. Says(o, journal'[o]) => /\ journal'[o] = "completed" => file'[o] = "gone"
                                /\ journal'[o] = "failed" => o \in row' \cup late'
    BY <2>1, OrphanedStays DEF Window, Says
  <2> QED BY <2>1, <2>2 DEF Says
<1>2. ASSUME NEW a \in Actors, step'[a] = "closing" PROVE Says(item[a], outcome[a])'
  <2>1. CASE step[a] = "closing" /\ item'[a] = item[a] /\ outcome'[a] = outcome[a]
    <3>1. item[a] \in Objects /\ journal[item[a]] # "none" /\ Says(item[a], outcome[a])
      BY <2>1 DEF Truth, Ledger, Typed, Held
    <3> QED BY <2>1, <3>1, OrphanedStays DEF Window, Says
  <2>2. CASE Resume(a) \/ ResumeFails(a)
    <3>1. item[a] \in Objects /\ journal[item[a]] # "none"
      BY <2>2, ResumeEffects DEF Ledger
    <3>2. file'[item[a]] \in {"old", "gone"}
      BY <3>1, OrphanedStays DEF Window, Orphaned
    <3>3. CASE Returns(a, "failed") /\ Tracked(item[a])
      <4>1. item[a] \in row /\ row' = row
        BY <2>2, <3>3, ResumeEffects DEF Tracked, Window, Attached
      <4>2. item'[a] = item[a] /\ outcome'[a] = "failed"
        BY <3>3 DEF Returns, Typed, TypeOK
      <4> QED BY <4>1, <4>2 DEF Says
    <3>4. CASE Returns(a, "completed") /\ ~Present(item[a])'
      <4>1. item'[a] = item[a] /\ outcome'[a] = "completed"
        BY <3>4 DEF Returns, Typed, TypeOK
      <4>2. file'[item[a]] = "gone"
        BY <3>2, <3>4, <4>1 DEF Present
      <4> QED BY <4>1, <4>2 DEF Says
    <3>5. CASE \E s \in {"checked", "found"} : Continues(a, s)
      BY <1>2, <3>5 DEF Continues, Goto, Typed, TypeOK
    <3>6. CASE Skip(a, item[a])
      BY <1>2, <3>6 DEF Skip, Leave, Goto, Typed, TypeOK
    <3> QED BY <2>2, <3>3, <3>4, <3>5, <3>6, ResumeEffects
  <2> QED BY <1>2, <2>1, <2>2, ClosingSteps
<1> QED BY <1>1, <1>2 DEF Truth

LEMMA TruthInit == ASSUME Init PROVE Truth
BY DEF Init, Truth, Closed

(* The inductive invariant.                                                *)
IInv == Typed /\ Ledger /\ Window /\ Truth

LEMMA Inductive == Spec => []IInv
<1>1. Init => IInv
  BY TypeInit, LedgerInit, WindowInit, TruthInit DEF IInv
<1>2. IInv /\ [Next]_vars => IInv'
  BY TypeStep, HeldStep, LedgerStep, WindowStep, TruthStep DEF IInv, Typed
<1> QED BY <1>1, <1>2, PTL DEF Spec

(* Reconciliation takes no ciphertext from a version: an insert finds its  *)
(* object in place unless it took longer than the safety window.           *)
THEOREM VersionsKept == Spec => []NoVersionLosesItsObject
<1>1. IInv => NoVersionLosesItsObject
  BY DEF IInv, Ledger, AuthorizedFirst, Window, Orphaned, NoVersionLosesItsObject, Typed, TypeOK
<1> QED BY Inductive, <1>1, PTL

(* Each operation has one piece of evidence, once it is closed, that says  *)
(* what the journal says, and what it says of the object is so.            *)
THEOREM EvidenceHolds == Spec => []EvidenceIsTrue
<1>1. IInv => EvidenceMatchesJournal
  BY DEF IInv, Ledger
<1>2. IInv => OutcomeIsTrue
  BY DEF IInv, Truth, Says, Closed, OutcomeIsTrue
<1> QED BY Inductive, <1>1, <1>2, PTL DEF EvidenceIsTrue

=============================================================================
