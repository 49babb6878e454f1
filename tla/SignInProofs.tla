---------------------------- MODULE SignInProofs ----------------------------
(***************************************************************************)
(* Theorems about SignIn for every number of users, requests, tokens and   *)
(* challenges.  The requests carry the argument: what each of them holds   *)
(* has been taken from the rows, where nobody finds it a second time.      *)
(***************************************************************************)
EXTENDS SignIn, TLAPS

(* What a request refers to exists.                                        *)
Posed(r) ==
  LET q == requests[r] IN
  /\ q.step # "idle" => q.user # None
  /\ q.step \in {"recheck", "factor", "confirm"} => q.challenge # None
  /\ q.step \in {"read", "password", "code"} => q.challenge = None
  /\ q.challenge # None => challenges[q.challenge] # None /\ challenges[q.challenge].consumed
  /\ q.step = "factor" => challenges[q.challenge].enrolling \/ mfa[q.user] # None
  /\ q.step = "advance" =>
       /\ mfa[q.user] # None
       /\ q.challenge # None => ~challenges[q.challenge].enrolling
  /\ q.step \in {"read", "audit"} => q.token # None
  /\ q.goal = "proof" => q.token # None

Typed == TypeOK /\ \A r \in Requests : Posed(r)

(* How far a request has come on its merits.                               *)
Beyond == {"configure", "enroll", "challenge", "recheck", "factor", "confirm",
           "advance", "clear", "issue", "code"}
Fits(q) == account[q.user].verified /\ roleAllowedForAudience(q.user, q.audience)
Factored(q) == q.counter >= 0 \/ q.code # None

Earned(r) ==
  LET q == requests[r] IN
  /\ q.step = "read" => q.goal = "proof"
  /\ q.step \in {"read", "password", "code", "recheck", "factor"} => q.counter = -1 /\ q.code = None
  /\ q.step = "password" =>
       /\ q.admits => Fits(q)
       /\ q.goal = "session" /\ q.audience = "privileged" => ~RequirePrivilegedMFA
  /\ q.step \in Beyond => Fits(q)
  /\ q.step \in {"recheck", "factor"} => q.at >= 1
  /\ q.step \in {"confirm", "advance"} => q.counter >= 0
  /\ q.step \in {"clear", "issue"} /\ q.audience = "privileged" /\ RequirePrivilegedMFA
       => Factored(q)

(* What a step-up proof is being made for.                                 *)
StepsUp(r) ==
  LET q == requests[r] IN
  q.goal = "proof" =>
    /\ q.step \in {"read", "password", "code", "advance", "clear", "issue"}
    /\ q.step \in {"advance", "clear", "issue"} => q.counter >= 0
    /\ q.audience = "privileged" /\ Role(q.user) = "admin"
    /\ basis[q.token] # None
    /\ sessions[q.token] # None =>
         sessions[q.token].user = q.user /\ sessions[q.token].audience = "privileged"

(* The rows that sign-in relies on.                                        *)
Changes == \A u \in Users : change[u] # None => (change[u].row.verified <=> account[u].verified)
Made    == \A c \in Challenges : challenges[c] # None => account[challenges[c].user].verified
Drawn   == \A t \in Tokens : sessions[t] # None \/ proofs[t] # None => basis[t] # None
Kept    == Changes /\ Made /\ Drawn

Merited ==
  /\ Kept
  /\ \A r \in Requests : Earned(r) /\ StepsUp(r)
  /\ ProofBound /\ SessionEarned

(* What a request has spent and not yet turned into a token.               *)
Ticket(r) ==
  LET q     == requests[r]
      spent == q.step \in {"clear", "issue"}
      open  == q.step \notin {"idle", "audit"}
  IN  [user      |-> q.user,
       counter   |-> IF spent THEN q.counter ELSE -1,
       code      |-> IF open THEN q.code ELSE None,
       challenge |-> IF open THEN q.challenge ELSE None]

Spent(b) ==
  /\ b.counter >= 0 => mfa[b.user] # None /\ b.counter <= mfa[b.user].last
  /\ b.code # None => mfa[b.user] # None /\ b.code \notin codes[b.user]
  /\ b.challenge # None => challenges[b.challenge] # None /\ challenges[b.challenge].consumed

Enrolled(b) ==
  b.challenge # None => (challenges[b.challenge].enrolling =>
    mfa[b.user] # None /\ mfa[b.user].secret = b.challenge)

Accepted(r) == requests[r].step \in {"clear", "issue"}

Claims ==
  /\ \A u \in Users : codes[u] # {} => mfa[u] # None
  /\ \A t \in Tokens : basis[t] # None => Spent(basis[t]) /\ Enrolled(basis[t])
  /\ \A r \in Requests : Spent(Ticket(r)) /\ (Accepted(r) => Enrolled(Ticket(r)))
  /\ \A t \in Tokens, r \in Requests : basis[t] # None => Apart(basis[t], Ticket(r))
  /\ \A r, s \in Requests : r # s => Apart(Ticket(r), Ticket(s))
  /\ FactorSpentOnce

(* A doomed session that still exists waits for its deletion, unless the   *)
(* account stays suspended.                                                *)
Doomed ==
  \A t \in doomed :
    /\ basis[t] # None
    /\ sessions[t] # None =>
         LET u == sessions[t].user IN
         /\ account[u].status = "suspended"
         /\ change[u] # None => \/ change[u].row.status = "suspended"
                                \/ change[u].ends /\ t \in change[u].present

----------------------------------------------------------------------------
(* The rows only grow: a second factor keeps its secret and its counter    *)
(* does not fall, a challenge stays and stays consumed.                    *)
Grows ==
  /\ \A u \in Users : mfa[u] # None =>
       mfa'[u] # None /\ mfa'[u].secret = mfa[u].secret /\ mfa'[u].last >= mfa[u].last
  /\ \A c \in Challenges : challenges[c] # None =>
       /\ challenges'[c] # None /\ challenges'[c].enrolling = challenges[c].enrolling
       /\ challenges'[c].user = challenges[c].user
       /\ challenges[c].consumed => challenges'[c].consumed

(* The types of what the actions write.                                    *)
LEMMA CountedType ==
  ASSUME NEW a \in Account, NEW at \in Nat PROVE Counted(a, at) \in Account
<1>1. Window \in Nat /\ LockDuration \in Nat
  BY SignInAssumption
<1>2. \A n \in Nat, b \in Nat, e \in Nat :
        [a EXCEPT !.attempts = n, !.started = b, !.until = e] \in Account
  BY DEF Account, Time
<1>3. a.attempts + 1 \in Nat /\ a.started \in Nat /\ a.until \in Nat /\ at + LockDuration \in Nat
  BY <1>1 DEF Account, Time
<1> QED BY <1>2, <1>3 DEF Counted

LEMMA UpdatedType ==
  ASSUME NEW a \in Account, NEW s \in Status PROVE Updated(a, s) \in Account
<1>1. Cleared(a) \in Account
  BY DEF Cleared, Account, Time
<1> QED BY <1>1 DEF Updated, Account

LEMMA BeginType ==
  ASSUME TypeOK, NEW u \in Users, NEW row \in Account, NEW ends \in BOOLEAN, Begin(u, row, ends)
  PROVE  change' \in [Users -> Change \cup {None}]
<1>1. [row |-> row, present |-> SessionsOf(u), ends |-> ends] \in Change
  BY DEF Change, SessionsOf
<1> QED BY <1>1 DEF Begin, TypeOK

LEMMA FailureType ==
  ASSUME TypeOK, NEW u \in Users, NEW at \in Nat, RecordAuthenticationFailure(u, at)
  PROVE  change' \in [Users -> Change \cup {None}]
<1>1. Counted(account[u], at) \in Account
  BY CountedType DEF TypeOK
<1>2. (Counted(account[u], at).until > at) \in BOOLEAN
  OBVIOUS
<1> QED BY <1>1, <1>2, BeginType DEF RecordAuthenticationFailure

LEMMA DeleteType ==
  ASSUME TypeOK, NEW T, DeleteSessions(T)
  PROVE  sessions' \in [Tokens -> Session \cup {None}] /\ proofs' \in [Tokens -> Proof \cup {None}]
BY DEF DeleteSessions, TypeOK

LEMMA IdleType == Idle \in Request
BY DEF Idle, Request, Step, Goal, Audience, Time

(* The request with which a step-up begins.                                *)
LEMMA StepUpType ==
  ASSUME NEW u \in Users, NEW t \in Tokens
  PROVE  [Idle EXCEPT !.step = "read", !.goal = "proof", !.audience = "privileged",
                      !.user = u, !.token = t] \in Request
<1>1. "read" \in Step /\ "proof" \in Goal /\ "privileged" \in Audience
  BY DEF Step, Goal, Audience
<1>2. [Idle EXCEPT !.step = "read"] \in Request
  BY <1>1, IdleType DEF Request
<1>3. \A q \in Request : [q EXCEPT !.goal = "proof"] \in Request
  BY <1>1 DEF Request
<1>4. \A q \in Request : [q EXCEPT !.audience = "privileged"] \in Request
  BY <1>1 DEF Request
<1>5. \A q \in Request : [q EXCEPT !.user = u, !.token = t] \in Request
  BY DEF Request
<1> QED BY <1>2, <1>3, <1>4, <1>5

LEMMA SetMoves ==
  ASSUME TypeOK, NEW r \in Requests, NEW q \in Request, Set(r, q)
  PROVE  /\ requests' \in [Requests -> Request]
         /\ requests'[r] = q
         /\ \A s \in Requests : s # r => requests'[s] = requests[s]
BY DEF Set, TypeOK

(* All but the step of a request.                                          *)
Same(p, q) ==
  /\ p.goal = q.goal /\ p.user = q.user /\ p.audience = q.audience
  /\ p.admits = q.admits /\ p.token = q.token /\ p.challenge = q.challenge
  /\ p.at = q.at /\ p.counter = q.counter /\ p.code = q.code

LEMMA GotoMoves ==
  ASSUME TypeOK, NEW r \in Requests, NEW s \in Step, Goto(r, s)
  PROVE  /\ requests' \in [Requests -> Request]
         /\ Same(requests'[r], requests[r]) /\ requests'[r].step = s
         /\ \A t \in Requests : t # r => requests'[t] = requests[t]
<1>1. [requests[r] EXCEPT !.step = s] \in Request
  BY DEF TypeOK, Request
<1>2. requests'[r] = [requests[r] EXCEPT !.step = s]
  BY <1>1, SetMoves DEF Goto
<1>3. Same(requests'[r], requests[r]) /\ requests'[r].step = s
  BY <1>2 DEF Same, TypeOK, Request
<1> QED BY <1>1, <1>3, SetMoves DEF Goto

LEMMA RowsGrow == Typed /\ [Next]_vars => Grows
<1> SUFFICES ASSUME Typed, [Next]_vars PROVE Grows
  OBVIOUS
<1> DEFINE Alike == mfa' = mfa /\ challenges' = challenges
<1>0. Alike => Grows
  BY DEF Grows, Typed, TypeOK, MFA
<1>1. ASSUME NEW r \in Requests, NEW c \in Challenges, CreateMFAChallenge(r, c) PROVE Grows
  BY <1>1 DEF CreateMFAChallenge, Grows, Typed, TypeOK, MFA
<1>2. ASSUME NEW r \in Requests, NEW c \in Challenges, ConsumeMFAChallenge(r, c) PROVE Grows
  <2>1. challenges[c] \in Challenge
    BY <1>2 DEF ConsumeMFAChallenge, Typed, TypeOK
  <2>2. challenges' = [challenges EXCEPT ![c].consumed = TRUE] /\ mfa' = mfa
    BY <1>2 DEF ConsumeMFAChallenge
  <2>3. challenges'[c] = [challenges[c] EXCEPT !.consumed = TRUE]
    BY <2>2 DEF Typed, TypeOK
  <2>4. challenges'[c] \in Challenge /\ challenges'[c].user = challenges[c].user
        /\ challenges'[c].enrolling = challenges[c].enrolling /\ challenges'[c].consumed
    BY <2>1, <2>3 DEF Challenge
  <2>5. \A d \in Challenges : d # c => challenges'[d] = challenges[d]
    BY <2>2 DEF Typed, TypeOK
  <2>6. \A u \in Users : mfa[u] # None => mfa[u].last >= mfa[u].last
    BY DEF Typed, TypeOK, MFA
  <2>7. challenges'[c] # None
    BY <2>4, NoneAssumption
  <2>8. \A d \in Challenges : challenges[d] # None =>
       /\ challenges'[d] # None /\ challenges'[d].enrolling = challenges[d].enrolling
       /\ challenges'[d].user = challenges[d].user
       /\ challenges[d].consumed => challenges'[d].consumed
    BY <2>4, <2>5, <2>7
  <2> QED BY <2>2, <2>6, <2>8 DEF Grows
<1>3. ASSUME NEW r \in Requests, ConfirmMFA(r) PROVE Grows
  BY <1>3 DEF ConfirmMFA, Grows, Typed, TypeOK, MFA
<1>4. ASSUME NEW r \in Requests, AdvanceMFACounter(r) PROVE Grows
  <2>1. requests[r].user \in Users /\ mfa[requests[r].user] \in MFA /\ requests[r].counter \in Int
    BY <1>4 DEF AdvanceMFACounter, Typed, TypeOK, Posed, Request, At
  <2>2. mfa' = [mfa EXCEPT ![requests[r].user].last = requests[r].counter]
        /\ mfa[requests[r].user].last < requests[r].counter /\ challenges' = challenges
    BY <1>4 DEF AdvanceMFACounter
  <2>3. mfa'[requests[r].user] = [mfa[requests[r].user] EXCEPT !.last = requests[r].counter]
    BY <2>1, <2>2 DEF Typed, TypeOK
  <2>4. /\ mfa'[requests[r].user] \in MFA
        /\ mfa'[requests[r].user].secret = mfa[requests[r].user].secret
        /\ mfa'[requests[r].user].last >= mfa[requests[r].user].last
    BY <2>1, <2>2, <2>3 DEF MFA
  <2>5. \A u \in Users : u # requests[r].user => mfa'[u] = mfa[u]
    BY <2>2 DEF Typed, TypeOK
  <2> QED BY <2>1, <2>2, <2>4, <2>5, NoneAssumption DEF Grows, Typed, TypeOK, MFA
<1>5. ASSUME NEW r \in Requests, Password(r) PROVE Grows
  <2> SUFFICES ASSUME ~\E c \in Challenges : CreateMFAChallenge(r, c) PROVE Alike
    BY <1>0, <1>1
  <2> QED BY <1>5 DEF Password, SignIn, Read, WrongPassword, RightPassword, ReadMFAConfiguration, rows
<1>6. ASSUME NEW r \in Requests, SecondFactor(r) PROVE Grows
  <2> SUFFICES ASSUME ~ConfirmMFA(r), ~AdvanceMFACounter(r),
                      ~\E c \in Challenges : ConsumeMFAChallenge(r, c)
               PROVE  Alike
    BY <1>0, <1>2, <1>3, <1>4
  <2> QED BY <1>6 DEF SecondFactor, Recheck, ValidTOTP, WrongCode, ConsumeMFARecoveryCode, ReplayedCode, rows
<1>7. ASSUME NEW r \in Requests, Issue(r) PROVE Alike
  BY <1>7 DEF Issue, ClearAuthenticationFailures, Withdraw, Finish, CreateSession, CreateStepUpProof, rows
<1>8. ASSUME NEW r \in Requests, Administer(r) PROVE Alike
  BY <1>8 DEF Administer, StepUp, Manage, ReadAgain, Read, StepUpCode, UpdateUserStatus, RevokeUserSessions, rows
<1>9. ASSUME NEW t \in Tokens, Logout(t) PROVE Alike
  BY <1>9 DEF Logout
<1>10. ASSUME NEW u \in Users, Commit(u) \/ Rollback(u) \/ VerifyEmail(u) PROVE Alike
  BY <1>10 DEF Commit, Rollback, VerifyEmail, rows
<1>11. CASE Tick \/ UNCHANGED vars
  BY <1>0, <1>11 DEF Tick, vars, rows
<1> HIDE DEF Alike
<1> QED BY <1>0, <1>5, <1>6, <1>7, <1>8, <1>9, <1>10, <1>11 DEF Next

----------------------------------------------------------------------------
(* Types, together with what the requests refer to.                        *)
LEMMA PosedKept ==
  ASSUME Typed, Grows, NEW s \in Requests, requests'[s] = requests[s]
  PROVE  Posed(s)'
<1>1. /\ requests[s].step # "idle" => requests[s].user \in Users
      /\ requests[s].challenge # None => requests[s].challenge \in Challenges
  BY DEF Typed, TypeOK, Posed, Request
<1> QED BY <1>1 DEF Typed, Posed, Grows

LEMMA Rests == Typed /\ Grows /\ requests' = requests => \A s \in Requests : Posed(s)'
BY PosedKept

LEMMA Moves ==
  ASSUME Typed, Grows, NEW r \in Requests, NEW q \in Request, Set(r, q), Posed(r)'
  PROVE  requests' \in [Requests -> Request] /\ \A s \in Requests : Posed(s)'
BY SetMoves, PosedKept DEF Typed

LEMMA Steps ==
  ASSUME Typed, Grows, NEW r \in Requests, NEW s \in Step, Goto(r, s), Posed(r)'
  PROVE  requests' \in [Requests -> Request] /\ \A t \in Requests : Posed(t)'
BY GotoMoves, PosedKept DEF Typed

LEMMA Ends ==
  ASSUME Typed, Grows, NEW r \in Requests, Set(r, Idle)
  PROVE  requests' \in [Requests -> Request] /\ \A s \in Requests : Posed(s)'
<1>1. requests'[r] = Idle
  BY IdleType, SetMoves DEF Typed
<1>2. Posed(r)'
  BY <1>1 DEF Posed, Idle
<1> QED BY <1>2, IdleType, Moves

LEMMA PasswordTyped ==
  ASSUME Typed, Grows, NEW r \in Requests, Password(r) PROVE Typed'
<1> USE DEF Typed
<1>0. requests[r] \in Request
  BY DEF TypeOK
<1>1. ASSUME NEW q \in Request, q.user \in Users, Read(r, q), q.challenge = None, q.goal = "proof" => q.token # None
      PROVE Typed'
  <2> DEFINE p == [q EXCEPT !.step = "password", !.admits = account[q.user].verified /\ roleAllowedForAudience(q.user, q.audience)]
  <2>1. p \in Request
    BY DEF Request, Step, roleAllowedForAudience
  <2>2. Set(r, p) /\ UNCHANGED <<rows, change, now, basis, doomed>>
    BY <1>1 DEF Read
  <2>3. requests'[r] = p
    BY <2>1, <2>2, SetMoves
  <2>4. Posed(r)'
    BY <1>1, <2>3, NoneAssumption DEF Posed, Request
  <2>5. requests' \in [Requests -> Request] /\ \A s \in Requests : Posed(s)'
    BY <2>1, <2>2, <2>4, Moves
  <2> QED BY <2>2, <2>5 DEF TypeOK, rows
<1>2. ASSUME NEW u \in Users, NEW a \in Audience, SignIn(r, u, a) PROVE Typed'
  <2> DEFINE q == [Idle EXCEPT !.user = u, !.audience = a,
                     !.goal = IF a = "privileged" /\ RequirePrivilegedMFA THEN "challenge" ELSE "session"]
  <2>1. q \in Request /\ q.user \in Users /\ q.challenge = None /\ q.goal # "proof"
    BY IdleType DEF Request, Goal, Idle
  <2>2. Read(r, q)
    BY <1>2 DEF SignIn
  <2> HIDE DEF q
  <2> QED BY <1>1, <2>1, <2>2
<1>3. CASE WrongPassword(r)
  <2>1. Set(r, Idle) /\ requests[r].user \in Users
    BY <1>3, <1>0 DEF WrongPassword, Posed, At, Request
  <2>2. now \in Nat
    BY DEF TypeOK
  <2>3. change' \in [Users -> Change \cup {None}]
    BY <1>3, <2>1, <2>2, FailureType DEF WrongPassword
  <2> QED BY <1>3, <2>1, <2>3, Ends DEF WrongPassword, TypeOK, rows
<1>4. CASE RightPassword(r)
  <2>1. AfterPassword(requests[r].goal) \in {"clear", "configure", "code"}
    BY <1>0 DEF AfterPassword, Request, Goal
  <2>2. AfterPassword(requests[r].goal) \in Step
    BY <2>1 DEF Step
  <2>3. Goto(r, AfterPassword(requests[r].goal))
    BY <1>4 DEF RightPassword
  <2>4. Posed(r)'
    BY <1>0, <1>4, <2>1, <2>2, <2>3, GotoMoves DEF Posed, Same, RightPassword, At, Request, rows
  <2> QED BY <1>4, <2>2, <2>3, <2>4, Steps DEF RightPassword, TypeOK, rows
<1>5. CASE ReadMFAConfiguration(r)
  <2> DEFINE s == IF mfa[requests[r].user] = None THEN "enroll" ELSE "challenge"
  <2>1. s \in Step /\ s \in {"enroll", "challenge"}
    BY DEF Step
  <2>2. Goto(r, s)
    BY <1>5 DEF ReadMFAConfiguration
  <2> HIDE DEF s
  <2>3. Posed(r)'
    BY <1>0, <1>5, <2>1, <2>2, GotoMoves DEF Posed, Same, ReadMFAConfiguration, At, Request, rows
  <2> QED BY <1>5, <2>1, <2>2, <2>3, Steps DEF ReadMFAConfiguration, TypeOK, rows
<1>6. ASSUME NEW c \in Challenges, CreateMFAChallenge(r, c) PROVE Typed'
  <2>1. [user |-> requests[r].user, enrolling |-> At(r, "enroll"),
         expires |-> now + ChallengeTTL, consumed |-> FALSE] \in Challenge
    BY <1>0, <1>6, SignInAssumption DEF CreateMFAChallenge, Posed, Challenge, Request, TypeOK, Time, At
  <2> QED BY <1>6, <2>1, Ends DEF CreateMFAChallenge, TypeOK
<1> QED BY <1>2, <1>3, <1>4, <1>5, <1>6 DEF Password, Audience

LEMMA SecondFactorTyped ==
  ASSUME Typed, Grows, NEW r \in Requests, SecondFactor(r) PROVE Typed'
<1> USE DEF Typed
<1> DEFINE q == requests[r]
<1>0. q \in Request /\ Posed(r) /\ Idle \in Request
  BY IdleType DEF TypeOK
<1> HIDE DEF q
<1>1. ASSUME NEW c \in Challenges, ConsumeMFAChallenge(r, c) PROVE Typed'
  <2> DEFINE u == challenges[c].user
             p == [Idle EXCEPT !.step = "recheck", !.user = u, !.audience = "privileged",
                               !.challenge = c, !.at = now]
  <2>1. challenges[c] \in Challenge /\ u \in Users
    BY <1>1 DEF ConsumeMFAChallenge, TypeOK, Challenge
  <2>2. challenges' = [challenges EXCEPT ![c].consumed = TRUE]
    BY <1>1 DEF ConsumeMFAChallenge
  <2>3. [challenges[c] EXCEPT !.consumed = TRUE] \in Challenge
    BY <2>1 DEF Challenge
  <2>4. challenges' \in [Challenges -> Challenge \cup {None}]
    BY <2>2, <2>3 DEF TypeOK
  <2>5. challenges'[c] # None /\ challenges'[c].consumed
    BY <2>1, <2>2, <2>3, NoneAssumption DEF TypeOK, Challenge
  <2>6. p \in Request
    BY <1>0, <2>1 DEF Request, Step, Audience, Idle, TypeOK, Time
  <2>7. Set(r, p) \/ Set(r, Idle)
    BY <1>1 DEF ConsumeMFAChallenge
  <2>8. ASSUME Set(r, p) PROVE requests' \in [Requests -> Request] /\ \A s \in Requests : Posed(s)'
    <3>1. requests'[r] = p
      BY <2>6, <2>8, SetMoves
    <3>2. p.step = "recheck" /\ p.user = u /\ p.challenge = c /\ p.goal = "session"
      BY DEF Idle
    <3> HIDE DEF p, u
    <3>3. Posed(r)'
      BY <2>1, <2>5, <3>1, <3>2, NoneAssumption DEF Posed
    <3> QED BY <2>6, <2>8, <3>3, Moves
  <2> QED BY <1>1, <2>4, <2>7, <2>8, Ends DEF ConsumeMFAChallenge, TypeOK
<1>2. CASE Recheck(r)
  <2>1. Goto(r, "factor") /\ "factor" \in Step
    BY <1>2 DEF Recheck, Step
  <2>2. Posed(r)'
    BY <1>0, <1>2, <2>1, GotoMoves DEF Posed, Same, Recheck, At, rows
  <2> QED BY <1>2, <2>1, <2>2, Steps DEF Recheck, TypeOK, rows
<1>3. CASE ValidTOTP(r)
  <2> DEFINE s == IF challenges[q.challenge].enrolling THEN "confirm" ELSE "advance"
  <2>1. PICK k \in ValidCounters(q.at) : Set(r, [q EXCEPT !.counter = k, !.step = s])
    BY <1>3 DEF ValidTOTP, q
  <2>2. k \in Int /\ s \in Step
    BY <1>0 DEF ValidCounters, Request, Time, Step
  <2>3. [q EXCEPT !.counter = k, !.step = s] \in Request
    BY <1>0, <2>2 DEF Request
  <2>4. requests'[r] = [q EXCEPT !.counter = k, !.step = s]
    BY <2>1, <2>3, SetMoves
  <2>5. requests'[r].step = s /\ requests'[r].user = q.user /\ requests'[r].goal = q.goal
        /\ requests'[r].token = q.token /\ requests'[r].challenge = q.challenge
    BY <1>0, <2>4 DEF Request
  <2>6. q.step = "factor" /\ mfa' = mfa /\ challenges' = challenges
    BY <1>3 DEF ValidTOTP, At, rows, q
  <2>7. Posed(r)'
    BY <1>0, <2>5, <2>6 DEF Posed, q
  <2> QED BY <1>3, <2>1, <2>3, <2>7, Moves DEF ValidTOTP, TypeOK, rows
<1>4. CASE WrongCode(r)
  <2>1. q.user \in Users /\ q.at \in Nat
    BY <1>0, <1>4 DEF WrongCode, Posed, At, Request, Time, q
  <2>2. change' \in [Users -> Change \cup {None}]
    BY <1>4, <2>1, FailureType DEF WrongCode, q
  <2> QED BY <1>4, <2>2, Ends DEF WrongCode, TypeOK, rows
<1>5. ASSUME NEW x \in Codes, ConsumeMFARecoveryCode(r, x) PROVE Typed'
  <2>1. [q EXCEPT !.code = x, !.step = "clear"] \in Request
    BY <1>0 DEF Request, Step
  <2>2. Set(r, [q EXCEPT !.code = x, !.step = "clear"]) /\ mfa' = mfa /\ challenges' = challenges /\ q.step = "factor"
    BY <1>5 DEF ConsumeMFARecoveryCode, At, q
  <2>3. requests'[r] = [q EXCEPT !.code = x, !.step = "clear"]
    BY <2>1, <2>2, SetMoves
  <2>4. requests'[r].step = "clear" /\ requests'[r].user = q.user /\ requests'[r].goal = q.goal
        /\ requests'[r].token = q.token /\ requests'[r].challenge = q.challenge
    BY <1>0, <2>3 DEF Request
  <2>5. Posed(r)'
    BY <1>0, <2>2, <2>4 DEF Posed, q
  <2>6. codes' \in [Users -> SUBSET Codes]
    BY <1>5 DEF ConsumeMFARecoveryCode, TypeOK
  <2> QED BY <1>5, <2>1, <2>2, <2>5, <2>6, Moves DEF ConsumeMFARecoveryCode, TypeOK
<1>6. CASE ConfirmMFA(r)
  <2>1. Goto(r, "clear") /\ "clear" \in Step
    BY <1>6 DEF ConfirmMFA, Step
  <2>2. [secret |-> q.challenge, last |-> q.counter] \in MFA
    BY <1>0, <1>6 DEF ConfirmMFA, At, Posed, Request, MFA, q
  <2>3. mfa' \in [Users -> MFA \cup {None}] /\ codes' \in [Users -> SUBSET Codes]
    BY <1>6, <2>2 DEF ConfirmMFA, TypeOK, q
  <2>4. Posed(r)'
    BY <1>0, <1>6, <2>1, GotoMoves DEF Posed, Same, ConfirmMFA, At
  <2> QED BY <1>6, <2>1, <2>3, <2>4, Steps DEF ConfirmMFA, TypeOK
<1>7. CASE AdvanceMFACounter(r)
  <2>1. Goto(r, "clear") /\ "clear" \in Step
    BY <1>7 DEF AdvanceMFACounter, Step
  <2>2. q.user \in Users /\ mfa[q.user] \in MFA /\ q.counter \in Int
    BY <1>0, <1>7 DEF AdvanceMFACounter, At, Posed, Request, TypeOK, q
  <2>3. [mfa[q.user] EXCEPT !.last = q.counter] \in MFA
    BY <2>2 DEF MFA
  <2>4. mfa' \in [Users -> MFA \cup {None}]
    BY <1>7, <2>3 DEF AdvanceMFACounter, TypeOK, q
  <2>5. Posed(r)'
    BY <1>0, <1>7, <2>1, GotoMoves DEF Posed, Same, AdvanceMFACounter, At
  <2> QED BY <1>7, <2>1, <2>4, <2>5, Steps DEF AdvanceMFACounter, TypeOK
<1>8. CASE ReplayedCode(r)
  <2>1. q.user \in Users /\ q.at \in Nat
    BY <1>0, <1>8 DEF ReplayedCode, Posed, At, Request, Time, q
  <2>2. change' \in [Users -> Change \cup {None}]
    BY <1>8, <2>1, FailureType DEF ReplayedCode, q
  <2> QED BY <1>8, <2>2, Ends DEF ReplayedCode, TypeOK, rows
<1> QED BY <1>1, <1>2, <1>3, <1>4, <1>5, <1>6, <1>7, <1>8 DEF SecondFactor

LEMMA IssueTyped ==
  ASSUME Typed, Grows, NEW r \in Requests, Issue(r) PROVE Typed'
<1> USE DEF Typed
<1> DEFINE q == requests[r]
<1>0. q \in Request /\ Posed(r) /\ Idle \in Request
  BY IdleType DEF TypeOK
<1> HIDE DEF q
<1>1. CASE ClearAuthenticationFailures(r)
  <2>1. Goto(r, "issue") /\ "issue" \in Step
    BY <1>1 DEF ClearAuthenticationFailures, Step
  <2>2. \A a \in Account : Cleared(a) \in Account
    BY DEF Cleared, Account, Time
  <2>3. account' \in [Users -> Account]
    BY <1>1, <2>2 DEF ClearAuthenticationFailures, TypeOK
  <2>4. Posed(r)'
    BY <1>0, <1>1, <2>1, GotoMoves DEF Posed, Same, ClearAuthenticationFailures, At, q
  <2> QED BY <1>1, <2>1, <2>3, <2>4, Steps DEF ClearAuthenticationFailures, TypeOK
<1>2. CASE Withdraw(r)
  BY <1>2, DeleteType, Ends DEF Withdraw, TypeOK
<1>3. CASE Finish(r)
  BY <1>3, Ends DEF Finish, TypeOK, rows
<1>4. ASSUME NEW t \in Tokens, Draw(q, t), q.step = "issue" PROVE basis' \in [Tokens -> Basis \cup {None}]
  <2>1. [user |-> q.user, counter |-> q.counter, code |-> q.code, challenge |-> q.challenge] \in Basis
    BY <1>0, <1>4 DEF Basis, Request, Posed, q
  <2> QED BY <1>4, <2>1 DEF Draw, TypeOK
<1>5. ASSUME NEW t \in Tokens, CreateSession(r, t) PROVE Typed'
  <2>1. q.step = "issue" /\ Draw(q, t) /\ Set(r, [q EXCEPT !.step = "audit", !.token = t])
        /\ challenges' = challenges /\ mfa' = mfa /\ q.goal = "session"
    BY <1>5 DEF CreateSession, At, q
  <2>2. [user |-> q.user, audience |-> q.audience, expires |-> now + SessionTTL] \in Session
    BY <1>0, <2>1, SignInAssumption DEF Session, Request, Posed, TypeOK, Time, q
  <2>3. sessions' \in [Tokens -> Session \cup {None}]
    BY <1>5, <2>2 DEF CreateSession, TypeOK, q
  <2>4. [q EXCEPT !.step = "audit", !.token = t] \in Request
    BY <1>0 DEF Request, Step
  <2>5. requests'[r] = [q EXCEPT !.step = "audit", !.token = t]
    BY <2>1, <2>4, SetMoves
  <2>6. requests'[r].step = "audit" /\ requests'[r].user = q.user /\ requests'[r].goal = q.goal
        /\ requests'[r].token = t /\ requests'[r].challenge = q.challenge
    BY <1>0, <2>5 DEF Request
  <2>7. Posed(r)'
    BY <1>0, <2>1, <2>6, NoneAssumption DEF Posed, q
  <2> QED BY <1>4, <1>5, <2>1, <2>3, <2>4, <2>7, Moves DEF CreateSession, TypeOK
<1>6. ASSUME NEW p \in Tokens, CreateStepUpProof(r, p) PROVE Typed'
  <2>1. q.step = "issue" /\ Draw(q, p) /\ q.goal = "proof"
    BY <1>6 DEF CreateStepUpProof, At, q
  <2>2. [session |-> q.token, user |-> q.user, expires |-> q.at + StepUpTTL] \in Proof
    BY <1>0, <2>1, SignInAssumption DEF Proof, Request, Posed, Time, q
  <2>3. proofs' \in [Tokens -> Proof \cup {None}]
    BY <1>6, <2>2 DEF CreateStepUpProof, TypeOK, q
  <2> QED BY <1>4, <1>6, <2>1, <2>3, Ends DEF CreateStepUpProof, TypeOK
<1> QED BY <1>1, <1>2, <1>3, <1>5, <1>6 DEF Issue

LEMMA AdministerTyped ==
  ASSUME Typed, Grows, NEW r \in Requests, Administer(r) PROVE Typed'
<1> USE DEF Typed
<1> DEFINE q == requests[r]
<1>0. q \in Request /\ Posed(r) /\ Idle \in Request
  BY IdleType DEF TypeOK
<1> HIDE DEF q
<1>1. ASSUME NEW t \in Tokens, Usable(t) PROVE sessions[t].user \in Users
  BY <1>1 DEF Usable, TypeOK, Session
<1>2. ASSUME NEW t \in Tokens, StepUp(r, t) PROVE Typed'
  <2> DEFINE p == [Idle EXCEPT !.step = "read", !.goal = "proof", !.audience = "privileged",
                               !.user = sessions[t].user, !.token = t]
  <2>1. p \in Request
    BY <1>1, <1>2, StepUpType DEF StepUp
  <2>2. Set(r, p) /\ UNCHANGED <<rows, change, now, basis, doomed>>
    BY <1>2 DEF StepUp
  <2>3. requests'[r] = p
    BY <2>1, <2>2, SetMoves
  <2>4. p.step = "read" /\ p.user = sessions[t].user /\ p.token = t /\ p.challenge = None
    BY DEF Idle
  <2> HIDE DEF p
  <2>5. Posed(r)'
    BY <1>1, <1>2, <2>3, <2>4, NoneAssumption DEF Posed, StepUp
  <2> QED BY <2>1, <2>2, <2>5, Moves DEF TypeOK, rows
<1>3. ASSUME NEW t \in Tokens, Manage(r, t) PROVE Typed'
  <2> DEFINE p == [Idle EXCEPT !.step = "manage", !.user = sessions[t].user]
  <2>1. p \in Request
    BY <1>0, <1>1, <1>3 DEF Manage, Request, Step, Idle
  <2>2. Set(r, p) /\ UNCHANGED <<rows, change, now, basis, doomed>>
    BY <1>3 DEF Manage
  <2>3. requests'[r] = p
    BY <2>1, <2>2, SetMoves
  <2>4. p.step = "manage" /\ p.user = sessions[t].user /\ p.challenge = None /\ p.goal = "session"
    BY DEF Idle
  <2> HIDE DEF p
  <2>5. Posed(r)'
    BY <1>1, <1>3, <2>3, <2>4, NoneAssumption DEF Posed, Manage
  <2> QED BY <2>1, <2>2, <2>5, Moves DEF TypeOK, rows
<1>4. CASE ReadAgain(r)
  <2> DEFINE admits == account[q.user].verified /\ roleAllowedForAudience(q.user, q.audience)
             p == [q EXCEPT !.step = "password", !.admits = admits]
  <2>0. admits \in BOOLEAN
    BY DEF roleAllowedForAudience
  <2> HIDE DEF admits
  <2>1. p \in Request
    BY <1>0, <2>0 DEF Request, Step
  <2>2. Set(r, p) /\ UNCHANGED <<rows, change, now, basis, doomed>> /\ q.step = "read"
    BY <1>4 DEF ReadAgain, Read, At, q, admits
  <2>3. requests'[r] = p
    BY <2>1, <2>2, SetMoves
  <2>4. p.step = "password" /\ p.user = q.user /\ p.challenge = q.challenge /\ p.goal = q.goal /\ p.token = q.token
    BY <1>0 DEF Request
  <2> HIDE DEF p
  <2>5. Posed(r)'
    BY <1>0, <2>2, <2>3, <2>4 DEF Posed, rows, q
  <2> QED BY <2>1, <2>2, <2>5, Moves DEF TypeOK, rows
<1>5. CASE StepUpCode(r)
  <2>1. q.step = "code" /\ UNCHANGED <<rows, now, basis, doomed>> /\ mfa[q.user] # None
    BY <1>5 DEF StepUpCode, At, q
  <2>2. CASE \E k \in ValidCounters(now) : Set(r, [q EXCEPT !.step = "advance", !.at = now, !.counter = k]) /\ change' = change
    <3>1. PICK k \in ValidCounters(now) : Set(r, [q EXCEPT !.step = "advance", !.at = now, !.counter = k])
      BY <2>2
    <3> DEFINE p == [q EXCEPT !.step = "advance", !.at = now, !.counter = k]
    <3>a. k \in Int /\ now \in Time
      BY <3>1 DEF ValidCounters, TypeOK, Time
    <3>b. "advance" \in Step
      BY DEF Step
    <3>2. p \in Request
      BY <1>0, <3>a, <3>b DEF Request
    <3>3. requests'[r] = p
      BY <3>1, <3>2, SetMoves
    <3>4. p.step = "advance" /\ p.user = q.user /\ p.challenge = q.challenge /\ p.goal = q.goal /\ p.token = q.token
      BY <1>0 DEF Request
    <3> HIDE DEF p
    <3>5. Posed(r)'
      BY <1>0, <2>1, <3>3, <3>4 DEF Posed, rows, q
    <3>6. Set(r, p)
      BY <3>1 DEF p
    <3> QED BY <2>1, <2>2, <3>2, <3>5, <3>6, Moves DEF TypeOK, rows
  <2>3. CASE RecordAuthenticationFailure(q.user, now) /\ Set(r, Idle)
    <3>1. change' \in [Users -> Change \cup {None}]
      BY <1>0, <2>1, <2>3, FailureType DEF Posed, Request, TypeOK, q
    <3> QED BY <2>1, <2>3, <3>1, Ends DEF TypeOK, rows
  <2> QED BY <1>5, <2>2, <2>3 DEF StepUpCode, q
<1>6. ASSUME NEW u \in Users, NEW s \in Status, UpdateUserStatus(r, u, s) PROVE Typed'
  <2>1. Updated(account[u], s) \in Account
    BY UpdatedType DEF TypeOK
  <2>2. change' \in [Users -> Change \cup {None}]
    BY <1>6, <2>1, BeginType DEF UpdateUserStatus
  <2> QED BY <1>6, <2>2, Ends DEF UpdateUserStatus, TypeOK, rows
<1>7. ASSUME NEW u \in Users, RevokeUserSessions(r, u) PROVE Typed'
  BY <1>7, DeleteType, Ends DEF RevokeUserSessions, TypeOK
<1> QED BY <1>2, <1>3, <1>4, <1>5, <1>6, <1>7 DEF Administer, Status

LEMMA CommitTyped ==
  ASSUME Typed, Grows, NEW u \in Users, Commit(u) PROVE Typed'
<1>1. change[u] \in Change
  BY DEF Commit, RowFree, Typed, TypeOK
<1>2. change[u].row \in Account
  BY <1>1 DEF Change
<1>3. account' \in [Users -> Account]
  BY <1>2 DEF Commit, Typed, TypeOK
<1>4. change' \in [Users -> Change \cup {None}] /\ doomed' \subseteq Tokens
  BY DEF Commit, Typed, TypeOK, SessionsOf
<1>5. sessions' \in [Tokens -> Session \cup {None}] /\ proofs' \in [Tokens -> Proof \cup {None}]
  BY DeleteType DEF Commit, Typed
<1> QED BY <1>3, <1>4, <1>5, Rests DEF Commit, Typed, TypeOK

LEMMA TypedStep == Typed /\ [Next]_vars => Typed'
<1> SUFFICES ASSUME Typed, [Next]_vars PROVE Typed'
  OBVIOUS
<1>0. Grows
  BY RowsGrow
<1>1. ASSUME NEW r \in Requests, Password(r) \/ SecondFactor(r) \/ Issue(r) \/ Administer(r)
      PROVE Typed'
  BY <1>0, <1>1, PasswordTyped, SecondFactorTyped, IssueTyped, AdministerTyped
<1>2. ASSUME NEW t \in Tokens, Logout(t) PROVE Typed'
  BY <1>0, <1>2, DeleteType, Rests DEF Logout, Typed, TypeOK
<1>3. ASSUME NEW u \in Users, Rollback(u) PROVE Typed'
  BY <1>0, <1>3, Rests DEF Rollback, Typed, TypeOK, rows
<1>4. ASSUME NEW u \in Users, VerifyEmail(u) PROVE Typed'
  <2>1. \A a \in Account : [a EXCEPT !.verified = TRUE] \in Account
    BY DEF Account
  <2>2. account' \in [Users -> Account]
    BY <1>4, <2>1 DEF VerifyEmail, Typed, TypeOK
  <2> QED BY <1>0, <1>4, <2>2, Rests DEF VerifyEmail, Typed, TypeOK
<1>5. CASE Tick
  BY <1>0, <1>5, Rests DEF Tick, Typed, TypeOK, rows
<1>6. CASE UNCHANGED vars
  BY <1>0, <1>6, Rests DEF vars, Typed, TypeOK, rows
<1> QED BY <1>0, <1>1, <1>2, <1>3, <1>4, <1>5, <1>6, CommitTyped DEF Next

LEMMA TypedInit == Init => Typed
<1> SUFFICES ASSUME Init PROVE Typed
  OBVIOUS
<1>1. \A u \in Users : NewAccount(u) \in Account
  BY DEF NewAccount, Account, Status, Time
<1>2. \A r \in Requests : Posed(r)
  BY DEF Init, Posed, Idle
<1>3. account \in [Users -> Account] /\ requests \in [Requests -> Request]
  BY <1>1, IdleType DEF Init
<1> QED BY <1>2, <1>3 DEF Init, Typed, TypeOK

(* Every variable of SignIn keeps its type.                                *)
THEOREM SpecTypeOK == Spec => []TypeOK
<1>1. Spec => []Typed
  BY TypedInit, TypedStep, PTL DEF Spec
<1>2. Typed => TypeOK
  BY DEF Typed
<1> QED BY <1>1, <1>2, PTL

----------------------------------------------------------------------------
(* Accounts stay verified, tokens keep their basis, and a session is not   *)
(* written over.                                                           *)
Lasts ==
  /\ \A u \in Users : account[u].verified => account'[u].verified
  /\ \A t \in Tokens : basis[t] # None => basis'[t] = basis[t]
  /\ \A t \in Tokens : sessions'[t] # None => sessions'[t] = sessions[t] \/ basis[t] = None

LEMMA SessionsDeleted ==
  ASSUME Typed, NEW T, DeleteSessions(T)
  PROVE  \A t \in Tokens : sessions'[t] # None => sessions'[t] = sessions[t] /\ t \notin T
BY DEF DeleteSessions

LEMMA Lasting == Typed /\ Kept /\ [Next]_vars => Lasts
<1> SUFFICES ASSUME Typed, Kept, [Next]_vars PROVE Lasts
  OBVIOUS
<1> DEFINE Alike == account' = account /\ basis' = basis /\ sessions' = sessions
<1>0. Alike => Lasts
  BY DEF Lasts
<1>1. ASSUME NEW r \in Requests, Password(r) \/ SecondFactor(r) PROVE Alike
  BY <1>1 DEF Password, SignIn, Read, WrongPassword, RightPassword, ReadMFAConfiguration, CreateMFAChallenge,
              SecondFactor, ConsumeMFAChallenge, Recheck, ValidTOTP, WrongCode, ConsumeMFARecoveryCode,
              ConfirmMFA, AdvanceMFACounter, ReplayedCode, rows
<1>2. ASSUME NEW r \in Requests, ClearAuthenticationFailures(r) PROVE Lasts
  <2>1. \A a \in Account : Cleared(a).verified = a.verified
    BY DEF Cleared, Account
  <2> QED BY <1>2, <2>1 DEF ClearAuthenticationFailures, Lasts, Typed, TypeOK
<1>3. ASSUME NEW r \in Requests, Withdraw(r) PROVE Lasts
  BY <1>3, SessionsDeleted DEF Withdraw, Lasts
<1>4. ASSUME NEW r \in Requests, NEW t \in Tokens, CreateSession(r, t) PROVE Lasts
  BY <1>4 DEF CreateSession, Draw, Lasts, Typed, TypeOK
<1>5. ASSUME NEW r \in Requests, NEW t \in Tokens, CreateStepUpProof(r, t) PROVE Lasts
  BY <1>5 DEF CreateStepUpProof, Draw, Lasts, Typed, TypeOK
<1>6. ASSUME NEW r \in Requests, Issue(r) PROVE Lasts
  BY <1>0, <1>2, <1>3, <1>4, <1>5, <1>6 DEF Issue, Finish, rows
<1>7. ASSUME NEW r \in Requests, NEW u \in Users, RevokeUserSessions(r, u) PROVE Lasts
  BY <1>7, SessionsDeleted DEF RevokeUserSessions, Lasts
<1>8. ASSUME NEW r \in Requests, Administer(r) PROVE Lasts
  <2> SUFFICES ASSUME ~\E u \in Users : RevokeUserSessions(r, u) PROVE Alike
    BY <1>0, <1>7
  <2> QED BY <1>8 DEF Administer, StepUp, Manage, ReadAgain, Read, StepUpCode, UpdateUserStatus, rows
<1>9. ASSUME NEW t \in Tokens, Logout(t) PROVE Lasts
  BY <1>9, SessionsDeleted DEF Logout, Lasts
<1>10. ASSUME NEW u \in Users, Commit(u) PROVE Lasts
  <2>1. change[u] # None /\ account' = [account EXCEPT ![u] = change[u].row] /\ basis' = basis
    BY <1>10 DEF Commit, RowFree
  <2>2. account[u].verified => account'[u].verified
    BY <2>1 DEF Kept, Changes, Typed, TypeOK
  <2>3. \A v \in Users : account[v].verified => account'[v].verified
    BY <2>1, <2>2 DEF Typed, TypeOK
  <2> QED BY <1>10, <2>1, <2>3, SessionsDeleted DEF Commit, Lasts
<1>11. ASSUME NEW u \in Users, Rollback(u) \/ VerifyEmail(u) PROVE Lasts
  BY <1>11 DEF Rollback, VerifyEmail, Lasts, Typed, TypeOK, rows
<1>12. CASE Tick \/ UNCHANGED vars
  BY <1>0, <1>12 DEF Tick, vars, rows
<1> HIDE DEF Alike
<1> QED BY <1>0, <1>1, <1>6, <1>8, <1>9, <1>10, <1>11, <1>12 DEF Next

(* The transactions leave verified alone, challenges are made for verified *)
(* accounts, and every row of a token has its basis.                       *)
LEMMA BeginKeeps ==
  ASSUME Typed, Kept, NEW u \in Users, NEW row \in Account, NEW ends, Begin(u, row, ends),
         row.verified = account[u].verified, account' = account
  PROVE  \A v \in Users : change'[v] # None => (change'[v].row.verified <=> account'[v].verified)
<1>1. change'[u].row = row
  BY DEF Begin, Typed, TypeOK
<1>2. \A v \in Users : v # u => change'[v] = change[v]
  BY DEF Begin, Typed, TypeOK
<1> QED BY <1>1, <1>2 DEF Kept, Changes

LEMMA FailureKeeps ==
  ASSUME Typed, Kept, NEW u \in Users, NEW at \in Nat, RecordAuthenticationFailure(u, at), account' = account
  PROVE  \A v \in Users : change'[v] # None => (change'[v].row.verified <=> account'[v].verified)
<1>1. account[u] \in Account /\ Counted(account[u], at) \in Account
  BY CountedType DEF Typed, TypeOK
<1>2. Counted(account[u], at).verified = account[u].verified
  BY <1>1 DEF Counted, Account
<1> QED BY <1>1, <1>2, BeginKeeps DEF RecordAuthenticationFailure

LEMMA ChangesStep == Typed /\ Merited /\ [Next]_vars => Changes'
<1> SUFFICES ASSUME Typed, Merited, [Next]_vars PROVE Changes'
  OBVIOUS
<1>0. Kept /\ Changes
  BY DEF Merited, Kept, Changes
<1>a. UNCHANGED <<change, account>> => Changes'
  BY <1>0 DEF Changes
<1>b. ASSUME NEW u \in Users, NEW at \in Nat, RecordAuthenticationFailure(u, at), account' = account PROVE Changes'
  BY <1>0, <1>b, FailureKeeps DEF Changes
<1>c. \A r \in Requests : requests[r].step # "idle" => requests[r].user \in Users /\ requests[r].at \in Nat
  BY DEF Typed, TypeOK, Posed, Request, Time
<1>d. now \in Nat
  BY DEF Typed, TypeOK
<1>1. ASSUME NEW r \in Requests, Password(r) PROVE Changes'
  <2>1. CASE WrongPassword(r)
    BY <1>b, <1>c, <1>d, <2>1 DEF WrongPassword, At, rows
  <2> QED BY <1>a, <1>1, <2>1 DEF Password, SignIn, Read, RightPassword, ReadMFAConfiguration, CreateMFAChallenge, rows
<1>2. ASSUME NEW r \in Requests, SecondFactor(r) PROVE Changes'
  <2>1. CASE WrongCode(r) \/ ReplayedCode(r)
    BY <1>b, <1>c, <2>1 DEF WrongCode, ReplayedCode, At, rows
  <2> QED BY <1>a, <1>2, <2>1 DEF SecondFactor, ConsumeMFAChallenge, Recheck, ValidTOTP, ConsumeMFARecoveryCode,
                                  ConfirmMFA, AdvanceMFACounter, rows
<1>3. ASSUME NEW r \in Requests, Issue(r) PROVE Changes'
  <2>1. CASE ClearAuthenticationFailures(r)
    <3>1. change[requests[r].user] = None /\ change' = change
      BY <2>1 DEF ClearAuthenticationFailures, RowFree
    <3>2. \A u \in Users : u # requests[r].user => account'[u] = account[u]
      BY <2>1 DEF ClearAuthenticationFailures, Typed, TypeOK
    <3> QED BY <1>0, <3>1, <3>2 DEF Changes
  <2> QED BY <1>a, <1>3, <2>1 DEF Issue, Withdraw, Finish, CreateSession, CreateStepUpProof, rows
<1>4. ASSUME NEW r \in Requests, Administer(r) PROVE Changes'
  <2>1. CASE StepUpCode(r)
    <3>1. requests[r].step # "idle" /\ account' = account
      BY <2>1 DEF StepUpCode, At, rows
    <3>2. change' = change \/ RecordAuthenticationFailure(requests[r].user, now)
      BY <2>1 DEF StepUpCode
    <3> QED BY <1>a, <1>b, <1>c, <1>d, <3>1, <3>2
  <2>2. ASSUME NEW u \in Users, NEW s \in Status, UpdateUserStatus(r, u, s) PROVE Changes'
    <3>1. account[u] \in Account /\ Updated(account[u], s) \in Account
      BY UpdatedType DEF Typed, TypeOK
    <3>2. Cleared(account[u]) \in Account /\ Cleared(account[u]).verified = account[u].verified
      BY <3>1 DEF Cleared, Account, Time
    <3>3. Updated(account[u], s).verified = account[u].verified
      BY <3>1, <3>2 DEF Updated, Account
    <3> QED BY <1>0, <2>2, <3>1, <3>3, BeginKeeps DEF UpdateUserStatus, rows, Changes
  <2> QED BY <1>a, <1>4, <2>1, <2>2 DEF Administer, StepUp, Manage, ReadAgain, Read, RevokeUserSessions, Status, rows
<1>5. ASSUME NEW u \in Users, Commit(u) \/ Rollback(u) \/ VerifyEmail(u) PROVE Changes'
  <2>1. change'[u] = None
    BY <1>5 DEF Commit, Rollback, VerifyEmail, RowFree, Typed, TypeOK
  <2>2. \A v \in Users : v # u => change'[v] = change[v] /\ account'[v] = account[v]
    BY <1>5 DEF Commit, Rollback, VerifyEmail, Typed, TypeOK, rows
  <2> QED BY <1>0, <2>1, <2>2 DEF Changes
<1>6. CASE (\E t \in Tokens : Logout(t)) \/ Tick \/ UNCHANGED vars
  BY <1>a, <1>6 DEF Logout, Tick, vars, rows
<1> QED BY <1>1, <1>2, <1>3, <1>4, <1>5, <1>6 DEF Next

LEMMA MadeStep == Typed /\ Merited /\ [Next]_vars => Made'
<1> SUFFICES ASSUME Typed, Merited, [Next]_vars PROVE Made'
  OBVIOUS
<1>0. Made /\ Lasts
  BY Lasting DEF Merited, Kept, Made
<1>a. \A c \in Challenges : challenges[c] # None => challenges[c].user \in Users
  BY DEF Typed, TypeOK, Challenge
<1>b. challenges' = challenges => Made'
  BY <1>0, <1>a DEF Made, Lasts
<1>1. ASSUME NEW r \in Requests, NEW c \in Challenges, CreateMFAChallenge(r, c) PROVE Made'
  <2>1. account' = account /\ challenges'[c].user = requests[r].user /\ account[requests[r].user].verified
    BY <1>1 DEF CreateMFAChallenge, Typed, TypeOK, Merited, Earned, Beyond, Fits
  <2>2. \A d \in Challenges : d # c => challenges'[d] = challenges[d]
    BY <1>1 DEF CreateMFAChallenge, Typed, TypeOK
  <2> QED BY <1>0, <2>1, <2>2 DEF Made
<1>2. ASSUME NEW r \in Requests, NEW c \in Challenges, ConsumeMFAChallenge(r, c) PROVE Made'
  <2>1. challenges' = [challenges EXCEPT ![c].consumed = TRUE] /\ account' = account /\ challenges[c] \in Challenge
        /\ challenges[c] # None
    BY <1>2 DEF ConsumeMFAChallenge, Typed, TypeOK
  <2>2. challenges'[c] = [challenges[c] EXCEPT !.consumed = TRUE]
    BY <2>1 DEF Typed, TypeOK
  <2>3. challenges'[c].user = challenges[c].user
    BY <2>1, <2>2 DEF Challenge
  <2>4. \A d \in Challenges : d # c => challenges'[d] = challenges[d]
    BY <2>1 DEF Typed, TypeOK
  <2> QED BY <1>0, <2>1, <2>3, <2>4 DEF Made
<1>3. ASSUME NEW r \in Requests, Password(r) PROVE Made'
  BY <1>b, <1>1, <1>3 DEF Password, SignIn, Read, WrongPassword, RightPassword, ReadMFAConfiguration, rows
<1>4. ASSUME NEW r \in Requests, SecondFactor(r) PROVE Made'
  BY <1>b, <1>2, <1>4 DEF SecondFactor, Recheck, ValidTOTP, WrongCode, ConsumeMFARecoveryCode, ConfirmMFA,
     AdvanceMFACounter, ReplayedCode, rows
<1>5. ASSUME NEW r \in Requests, Issue(r) PROVE Made'
  BY <1>b, <1>5 DEF Issue, ClearAuthenticationFailures, Withdraw, Finish, CreateSession, CreateStepUpProof, rows
<1>6. ASSUME NEW r \in Requests, Administer(r) PROVE Made'
  BY <1>b, <1>6 DEF Administer, StepUp, Manage, ReadAgain, Read, StepUpCode, UpdateUserStatus,
     RevokeUserSessions, rows
<1>7. CASE \/ \E t \in Tokens : Logout(t)
           \/ \E u \in Users : Commit(u) \/ Rollback(u) \/ VerifyEmail(u)
           \/ Tick \/ UNCHANGED vars
  BY <1>b, <1>0, <1>a, <1>7 DEF Logout, Commit, Rollback, VerifyEmail, Tick, rows, vars
<1> QED BY <1>3, <1>4, <1>5, <1>6, <1>7 DEF Next

LEMMA DrawnStep == Typed /\ Merited /\ [Next]_vars => Drawn'
<1> SUFFICES ASSUME Typed, Merited, [Next]_vars PROVE Drawn'
  OBVIOUS
<1>0. Drawn /\ Lasts
  BY Lasting DEF Merited, Kept
<1>a. UNCHANGED <<sessions, proofs>> => Drawn'
  BY <1>0 DEF Drawn, Lasts
<1>b. ASSUME NEW T, DeleteSessions(T) PROVE Drawn'
  <2>1. \A t \in Tokens : /\ sessions'[t] # None => sessions'[t] = sessions[t]
                          /\ proofs'[t] # None => proofs'[t] = proofs[t]
    BY <1>b DEF DeleteSessions
  <2>2. ASSUME NEW t \in Tokens, sessions'[t] # None \/ proofs'[t] # None PROVE basis'[t] # None
    <3>1. sessions[t] # None \/ proofs[t] # None
      BY <2>1, <2>2
    <3> QED BY <1>0, <3>1 DEF Drawn, Lasts
  <2> QED BY <2>2 DEF Drawn
<1>1. ASSUME NEW r \in Requests, NEW t \in Tokens, CreateSession(r, t) \/ CreateStepUpProof(r, t) PROVE Drawn'
  <2>1. basis'[t] = [user |-> requests[r].user, counter |-> requests[r].counter,
                     code |-> requests[r].code, challenge |-> requests[r].challenge]
    BY <1>1 DEF CreateSession, CreateStepUpProof, Draw, Typed, TypeOK
  <2>3. basis'[t] # None
    <3>1. requests[r].user \in Users /\ requests[r] \in Request
      BY <1>1 DEF CreateSession, CreateStepUpProof, Typed, TypeOK, Posed, Request, At
    <3>2. basis'[t] \in Basis
      BY <2>1, <3>1 DEF Basis, Request
    <3> QED BY <3>2, NoneAssumption
  <2>4. \A v \in Tokens : v # t => sessions'[v] = sessions[v] /\ proofs'[v] = proofs[v]
    BY <1>1 DEF CreateSession, CreateStepUpProof, Typed, TypeOK
  <2> QED BY <1>0, <2>3, <2>4 DEF Drawn, Lasts
<1>2. ASSUME NEW r \in Requests, Issue(r) PROVE Drawn'
  BY <1>a, <1>b, <1>1, <1>2 DEF Issue, ClearAuthenticationFailures, Withdraw, Finish, rows
<1>3. ASSUME NEW r \in Requests, Password(r) \/ SecondFactor(r) PROVE UNCHANGED <<sessions, proofs>>
  BY <1>3 DEF Password, SignIn, Read, WrongPassword, RightPassword, ReadMFAConfiguration, CreateMFAChallenge,
              SecondFactor, ConsumeMFAChallenge, Recheck, ValidTOTP, WrongCode, ConsumeMFARecoveryCode,
              ConfirmMFA, AdvanceMFACounter, ReplayedCode, rows
<1>4. ASSUME NEW r \in Requests, Administer(r) PROVE Drawn'
  BY <1>a, <1>b, <1>4 DEF Administer, StepUp, Manage, ReadAgain, Read, StepUpCode, UpdateUserStatus,
                          RevokeUserSessions, rows
<1>5. ASSUME NEW t \in Tokens, Logout(t) PROVE Drawn'
  BY <1>b, <1>5 DEF Logout
<1>6. ASSUME NEW u \in Users, Commit(u) PROVE Drawn'
  BY <1>b, <1>6 DEF Commit
<1> QED BY <1>a, <1>2, <1>3, <1>4, <1>5, <1>6 DEF Next, Rollback, VerifyEmail, Tick, rows, vars

----------------------------------------------------------------------------
(* A step is one request's at most.                                        *)
LEMMA OthersStay ==
  ASSUME Typed, NEW r \in Requests, Password(r) \/ SecondFactor(r) \/ Issue(r) \/ Administer(r)
  PROVE  \A s \in Requests : s # r => requests'[s] = requests[s]
<1>0. requests \in [Requests -> Request]
  BY DEF Typed, TypeOK
<1> SUFFICES ASSUME NEW s \in Requests, s # r PROVE requests'[s] = requests[s]
  OBVIOUS
<1>1. CASE Password(r)
  BY <1>0, <1>1 DEF Password, SignIn, Read, WrongPassword, RightPassword, ReadMFAConfiguration,
                    CreateMFAChallenge, Goto, Set
<1>2. CASE SecondFactor(r)
  <2>1. CASE \E c \in Challenges : ConsumeMFAChallenge(r, c)
    BY <1>0, <2>1 DEF ConsumeMFAChallenge, Set
  <2>2. CASE ValidTOTP(r) \/ \E x \in Codes : ConsumeMFARecoveryCode(r, x)
    BY <1>0, <2>2 DEF ValidTOTP, ConsumeMFARecoveryCode, Set
  <2> QED BY <1>0, <1>2, <2>1, <2>2 DEF SecondFactor, Recheck, WrongCode, ConfirmMFA, AdvanceMFACounter, ReplayedCode,
                                        Goto, Set
<1>3. CASE Issue(r)
  BY <1>0, <1>3 DEF Issue, ClearAuthenticationFailures, Withdraw, Finish, CreateSession, CreateStepUpProof, Goto, Set
<1>4. CASE Administer(r)
  <2>1. CASE ReadAgain(r) \/ StepUpCode(r)
    BY <1>0, <2>1 DEF ReadAgain, Read, StepUpCode, Set
  <2> QED BY <1>0, <1>4, <2>1 DEF Administer, StepUp, Manage, UpdateUserStatus, RevokeUserSessions, Set
<1> QED BY <1>1, <1>2, <1>3, <1>4

LEMMA EarnedKept ==
  ASSUME Typed, Lasts, NEW s \in Requests, requests'[s] = requests[s], Earned(s), StepsUp(s)
  PROVE  Earned(s)' /\ StepsUp(s)'
<1>1. requests[s].step \in Beyond \/ requests[s].step = "password" => requests[s].user \in Users
  BY DEF Typed, TypeOK, Posed, Request, Beyond
<1>2. Fits(requests[s]) /\ requests[s].user \in Users => Fits(requests[s])'
  BY DEF Fits, Lasts
<1>3. Earned(s)'
  BY <1>1, <1>2 DEF Earned, Factored
<1>4. requests[s].goal = "proof" => requests[s].token \in Tokens
  BY DEF Typed, TypeOK, Posed, Request
<1>5. StepsUp(s)'
  BY <1>4 DEF StepsUp, Lasts
<1> QED BY <1>3, <1>5

(* What a request gains by its own step.                                   *)
LEMMA GotoEarns ==
  ASSUME Typed, Lasts, NEW r \in Requests, Earned(r), StepsUp(r),
         NEW s \in {"configure", "enroll", "challenge", "factor", "clear", "issue", "code"}, Goto(r, s),
         requests[r].user \in Users, Fits(requests[r]),
         s = "factor" => requests[r].at >= 1,
         s \in {"code", "factor"} => requests[r].counter = -1 /\ requests[r].code = None,
         s \in {"clear", "issue"} /\ requests[r].audience = "privileged" /\ RequirePrivilegedMFA
           => Factored(requests[r]),
         requests[r].goal = "proof" =>
           s \in {"code", "clear", "issue"} /\ (s # "code" => requests[r].counter >= 0)
  PROVE  Earned(r)' /\ StepsUp(r)'
<1>0. s \in Step
  BY DEF Step
<1>1. Same(requests'[r], requests[r]) /\ requests'[r].step = s
  BY <1>0, GotoMoves DEF Typed
<1>2. Fits(requests[r])'
  BY <1>1 DEF Same, Fits, Lasts
<1>3. Earned(r)'
  BY <1>1, <1>2 DEF Same, Earned, Factored
<1>4. requests[r].goal = "proof" => requests[r].token \in Tokens
  BY DEF Typed, TypeOK, Posed, Request
<1>5. StepsUp(r)'
  BY <1>1, <1>4 DEF Same, StepsUp, Lasts
<1> QED BY <1>3, <1>5

LEMMA EndEarns ==
  ASSUME Typed, NEW r \in Requests, Set(r, Idle) PROVE Earned(r)' /\ StepsUp(r)'
<1>1. requests'[r] = Idle
  BY IdleType, SetMoves DEF Typed
<1>2. requests'[r].step = "idle" /\ requests'[r].goal = "session"
  BY <1>1 DEF Idle
<1> QED BY <1>2 DEF Earned, StepsUp, Beyond

LEMMA PasswordEarns ==
  ASSUME Typed, Merited, Lasts, NEW r \in Requests, Password(r) PROVE Earned(r)' /\ StepsUp(r)'
<1> DEFINE q == requests[r]
<1>0. q \in Request /\ Posed(r) /\ Earned(r) /\ StepsUp(r) /\ Idle \in Request
  BY IdleType DEF Typed, TypeOK, Merited
<1>a. q.step # "idle" => q.user \in Users
  BY <1>0 DEF Posed, Request
<1> HIDE DEF q
<1>1. ASSUME NEW u \in Users, NEW a \in Audience, SignIn(r, u, a) PROVE Earned(r)' /\ StepsUp(r)'
  <2> DEFINE goal   == IF a = "privileged" /\ RequirePrivilegedMFA THEN "challenge" ELSE "session"
             admits == account[u].verified /\ roleAllowedForAudience(u, a)
             p == [Idle EXCEPT !.user = u, !.audience = a, !.goal = goal, !.step = "password", !.admits = admits]
  <2>0. goal \in Goal /\ admits \in BOOLEAN
    BY DEF Goal, roleAllowedForAudience
  <2>1. account' = account
    BY <1>1 DEF SignIn, Read, rows
  <2>2. Set(r, p)
    BY <1>1 DEF SignIn, Read, Idle
  <2>3. goal # "proof" /\ (goal = "session" /\ a = "privileged" => ~RequirePrivilegedMFA)
    OBVIOUS
  <2>4. admits => account[u].verified /\ roleAllowedForAudience(u, a)
    OBVIOUS
  <2> HIDE DEF goal, admits
  <2>5. p \in Request
    BY <1>0, <2>0 DEF Request, Step
  <2>6. requests'[r] = p
    BY <2>2, <2>5, SetMoves DEF Typed
  <2>7. p.step = "password" /\ p.user = u /\ p.audience = a /\ p.goal = goal /\ (p.admits <=> admits)
        /\ p.counter = -1 /\ p.code = None
    BY DEF Idle
  <2> HIDE DEF p
  <2>8. Earned(r)'
    BY <2>1, <2>3, <2>4, <2>6, <2>7 DEF Earned, Beyond, Fits
  <2>9. StepsUp(r)'
    BY <2>3, <2>6, <2>7 DEF StepsUp
  <2> QED BY <2>8, <2>9
<1>2. CASE WrongPassword(r)
  BY <1>2, EndEarns DEF WrongPassword
<1>3. CASE RightPassword(r)
  <2>1. q.step = "password" /\ q.admits /\ Goto(r, AfterPassword(q.goal)) /\ q.goal \in Goal
    BY <1>0, <1>3 DEF RightPassword, At, Request, q
  <2>2. Fits(q) /\ q.counter = -1 /\ q.code = None
    BY <1>0, <2>1 DEF Earned, q
  <2>3. q.goal = "session" /\ q.audience = "privileged" => ~RequirePrivilegedMFA
    BY <1>0, <2>1 DEF Earned, q
  <2>4. CASE q.goal = "session"
    BY <1>0, <1>a, <2>1, <2>2, <2>3, <2>4, GotoEarns DEF AfterPassword, q
  <2>5. CASE q.goal = "challenge"
    BY <1>0, <1>a, <2>1, <2>2, <2>5, GotoEarns DEF AfterPassword, q
  <2>6. CASE q.goal = "proof"
    BY <1>0, <1>a, <2>1, <2>2, <2>6, GotoEarns DEF AfterPassword, q
  <2> QED BY <2>1, <2>4, <2>5, <2>6 DEF Goal
<1>4. CASE ReadMFAConfiguration(r)
  <2> DEFINE s == IF mfa[q.user] = None THEN "enroll" ELSE "challenge"
  <2>1. q.step = "configure" /\ Goto(r, s)
    BY <1>4 DEF ReadMFAConfiguration, At, q
  <2>2. s \in {"enroll", "challenge"}
    OBVIOUS
  <2>3. Fits(q) /\ q.goal # "proof"
    BY <1>0, <2>1 DEF Earned, StepsUp, Beyond, q
  <2> HIDE DEF s
  <2> QED BY <1>0, <1>a, <2>1, <2>2, <2>3, GotoEarns DEF q
<1>5. ASSUME NEW c \in Challenges, CreateMFAChallenge(r, c) PROVE Earned(r)' /\ StepsUp(r)'
  BY <1>5, EndEarns DEF CreateMFAChallenge
<1> QED BY <1>1, <1>2, <1>3, <1>4, <1>5 DEF Password, Audience

LEMMA SecondFactorEarns ==
  ASSUME Typed, Merited, Lasts, NEW r \in Requests, SecondFactor(r) PROVE Earned(r)' /\ StepsUp(r)'
<1> DEFINE q == requests[r]
<1>0. q \in Request /\ Posed(r) /\ Earned(r) /\ StepsUp(r) /\ Idle \in Request
  BY IdleType DEF Typed, TypeOK, Merited
<1>a. q.step # "idle" => q.user \in Users
  BY <1>0 DEF Posed, Request
<1> HIDE DEF q
<1>1. ASSUME NEW c \in Challenges, ConsumeMFAChallenge(r, c) PROVE Earned(r)' /\ StepsUp(r)'
  <2> DEFINE u == challenges[c].user
             p == [Idle EXCEPT !.step = "recheck", !.user = u, !.audience = "privileged",
                               !.challenge = c, !.at = now]
  <2>1. challenges[c] \in Challenge /\ u \in Users /\ account[u].verified /\ now \in Nat /\ now >= 1
    BY <1>1 DEF ConsumeMFAChallenge, Typed, TypeOK, Challenge, Merited, Kept, Made
  <2>2. p \in Request
    BY <1>0, <2>1 DEF Request, Step, Audience, Idle, Time
  <2>3. account' = account /\ (Set(r, Idle) \/ (Set(r, p) /\ Role(u) # "user"))
    BY <1>1 DEF ConsumeMFAChallenge
  <2>4. p.step = "recheck" /\ p.user = u /\ p.audience = "privileged" /\ p.goal = "session" /\ p.at = now
        /\ p.counter = -1 /\ p.code = None
    BY DEF Idle
  <2>5. ASSUME Set(r, p), Role(u) # "user" PROVE Earned(r)' /\ StepsUp(r)'
    <3>1. requests'[r] = p
      BY <2>2, <2>5, SetMoves DEF Typed
    <3> HIDE DEF p, u
    <3>2. Earned(r)'
      BY <2>1, <2>3, <2>4, <2>5, <3>1 DEF Earned, Beyond, Fits, roleAllowedForAudience
    <3>3. StepsUp(r)'
      BY <2>4, <3>1 DEF StepsUp
    <3> QED BY <3>2, <3>3
  <2> QED BY <2>3, <2>5, EndEarns
<1>2. CASE Recheck(r)
  <2>1. Goto(r, "factor") /\ q.step = "recheck"
    BY <1>2 DEF Recheck, At, q
  <2>2. Fits(q) /\ q.at >= 1 /\ q.goal # "proof" /\ q.counter = -1 /\ q.code = None
    BY <1>0, <2>1 DEF Earned, StepsUp, Beyond, q
  <2> QED BY <1>0, <1>a, <2>1, <2>2, GotoEarns DEF q
<1>3. CASE ValidTOTP(r)
  <2> DEFINE s == IF challenges[q.challenge].enrolling THEN "confirm" ELSE "advance"
  <2>1. PICK k \in ValidCounters(q.at) : Set(r, [q EXCEPT !.counter = k, !.step = s])
    BY <1>3 DEF ValidTOTP, q
  <2>2. q.step = "factor" /\ account' = account
    BY <1>3 DEF ValidTOTP, At, rows, q
  <2>3. Fits(q) /\ q.at >= 1 /\ q.goal # "proof" /\ q.at \in Nat
    BY <1>0, <2>2 DEF Earned, StepsUp, Beyond, Request, Time, q
  <2>4. k \in Int /\ k >= 0 /\ s \in Step /\ s \in {"confirm", "advance"}
    BY <2>1, <2>3 DEF ValidCounters, Step
  <2> HIDE DEF s
  <2>5. [q EXCEPT !.counter = k, !.step = s] \in Request
    BY <1>0, <2>4 DEF Request
  <2>6. requests'[r] = [q EXCEPT !.counter = k, !.step = s]
    BY <2>1, <2>5, SetMoves DEF Typed
  <2>7. requests'[r].step = s /\ requests'[r].user = q.user /\ requests'[r].goal = q.goal
        /\ requests'[r].audience = q.audience /\ requests'[r].counter = k
    BY <1>0, <2>6 DEF Request
  <2>8. Earned(r)'
    BY <2>2, <2>3, <2>4, <2>7 DEF Earned, Fits
  <2>9. StepsUp(r)'
    BY <2>3, <2>7 DEF StepsUp
  <2> QED BY <2>8, <2>9
<1>4. CASE WrongCode(r) \/ ReplayedCode(r)
  BY <1>4, EndEarns DEF WrongCode, ReplayedCode
<1>5. ASSUME NEW x \in Codes, ConsumeMFARecoveryCode(r, x) PROVE Earned(r)' /\ StepsUp(r)'
  <2>1. [q EXCEPT !.code = x, !.step = "clear"] \in Request
    BY <1>0 DEF Request, Step
  <2>2. Set(r, [q EXCEPT !.code = x, !.step = "clear"]) /\ q.step = "factor" /\ account' = account
    BY <1>5 DEF ConsumeMFARecoveryCode, At, q
  <2>3. requests'[r] = [q EXCEPT !.code = x, !.step = "clear"]
    BY <2>1, <2>2, SetMoves DEF Typed
  <2>4. requests'[r].step = "clear" /\ requests'[r].user = q.user /\ requests'[r].goal = q.goal
        /\ requests'[r].audience = q.audience /\ requests'[r].code = x
    BY <1>0, <2>3 DEF Request
  <2>5. Fits(q) /\ q.goal # "proof"
    BY <1>0, <2>2 DEF Earned, StepsUp, Beyond, q
  <2>6. Earned(r)'
    BY <2>2, <2>4, <2>5, NoneAssumption DEF Earned, Fits, Factored
  <2>7. StepsUp(r)'
    BY <2>4, <2>5 DEF StepsUp
  <2> QED BY <2>6, <2>7
<1>6. CASE ConfirmMFA(r) \/ AdvanceMFACounter(r)
  <2>1. Goto(r, "clear") /\ q.step \in {"confirm", "advance"}
    BY <1>6 DEF ConfirmMFA, AdvanceMFACounter, At, q
  <2>2. Fits(q) /\ q.counter >= 0
    BY <1>0, <2>1 DEF Earned, Beyond, q
  <2> QED BY <1>0, <1>a, <2>1, <2>2, GotoEarns DEF Factored, q
<1> QED BY <1>1, <1>2, <1>3, <1>4, <1>5, <1>6 DEF SecondFactor

LEMMA IssueEarns ==
  ASSUME Typed, Merited, Lasts, NEW r \in Requests, Issue(r) PROVE Earned(r)' /\ StepsUp(r)'
<1> DEFINE q == requests[r]
<1>0. q \in Request /\ Posed(r) /\ Earned(r) /\ StepsUp(r)
  BY DEF Typed, TypeOK, Merited
<1>a. q.step # "idle" => q.user \in Users
  BY <1>0 DEF Posed, Request
<1> HIDE DEF q
<1>1. CASE ClearAuthenticationFailures(r)
  <2>1. Goto(r, "issue") /\ q.step = "clear"
    BY <1>1 DEF ClearAuthenticationFailures, At, q
  <2>2. Fits(q) /\ (q.audience = "privileged" /\ RequirePrivilegedMFA => Factored(q))
        /\ (q.goal = "proof" => q.counter >= 0)
    BY <1>0, <2>1 DEF Earned, StepsUp, Beyond, q
  <2> QED BY <1>0, <1>a, <2>1, <2>2, GotoEarns DEF q
<1>2. CASE Withdraw(r) \/ Finish(r) \/ \E t \in Tokens : CreateStepUpProof(r, t)
  BY <1>2, EndEarns DEF Withdraw, Finish, CreateStepUpProof
<1>3. ASSUME NEW t \in Tokens, CreateSession(r, t) PROVE Earned(r)' /\ StepsUp(r)'
  <2>1. [q EXCEPT !.step = "audit", !.token = t] \in Request
    BY <1>0 DEF Request, Step
  <2>2. Set(r, [q EXCEPT !.step = "audit", !.token = t]) /\ q.goal = "session"
    BY <1>3 DEF CreateSession, q
  <2>3. requests'[r] = [q EXCEPT !.step = "audit", !.token = t]
    BY <2>1, <2>2, SetMoves DEF Typed
  <2>4. requests'[r].step = "audit" /\ requests'[r].goal = "session"
    BY <1>0, <2>2, <2>3 DEF Request
  <2> QED BY <2>4 DEF Earned, StepsUp, Beyond
<1> QED BY <1>1, <1>2, <1>3 DEF Issue

LEMMA AdministerEarns ==
  ASSUME Typed, Merited, Lasts, NEW r \in Requests, Administer(r) PROVE Earned(r)' /\ StepsUp(r)'
<1> DEFINE q == requests[r]
<1>0. q \in Request /\ Posed(r) /\ Earned(r) /\ StepsUp(r) /\ Idle \in Request
  BY IdleType DEF Typed, TypeOK, Merited
<1>a. q.step # "idle" => q.user \in Users
  BY <1>0 DEF Posed, Request
<1> HIDE DEF q
<1>1. ASSUME NEW t \in Tokens, Usable(t) PROVE sessions[t].user \in Users
  BY <1>1 DEF Usable, Typed, TypeOK, Session
<1>2. ASSUME NEW t \in Tokens, StepUp(r, t) PROVE Earned(r)' /\ StepsUp(r)'
  <2> DEFINE p == [Idle EXCEPT !.step = "read", !.goal = "proof", !.audience = "privileged",
                               !.user = sessions[t].user, !.token = t]
  <2>1. p \in Request
    BY <1>1, <1>2, StepUpType DEF StepUp
  <2>2. Set(r, p) /\ UNCHANGED <<sessions, basis>>
    BY <1>2 DEF StepUp, rows
  <2>3. requests'[r] = p
    BY <2>1, <2>2, SetMoves DEF Typed
  <2>4. p.step = "read" /\ p.user = sessions[t].user /\ p.token = t /\ p.goal = "proof"
        /\ p.audience = "privileged" /\ p.counter = -1 /\ p.code = None
    BY DEF Idle
  <2> HIDE DEF p
  <2>5. sessions[t].audience = "privileged" /\ Role(sessions[t].user) = "admin" /\ basis[t] # None
    BY <1>2 DEF StepUp, Usable, Merited, Kept, Drawn
  <2>6. Earned(r)'
    BY <2>3, <2>4 DEF Earned, Beyond
  <2>7. StepsUp(r)'
    BY <2>2, <2>3, <2>4, <2>5 DEF StepsUp
  <2> QED BY <2>6, <2>7
<1>3. ASSUME NEW t \in Tokens, Manage(r, t) PROVE Earned(r)' /\ StepsUp(r)'
  <2> DEFINE p == [Idle EXCEPT !.step = "manage", !.user = sessions[t].user]
  <2>1. p \in Request
    BY <1>0, <1>1, <1>3 DEF Manage, Request, Step, Idle
  <2>2. requests'[r] = p
    BY <1>3, <2>1, SetMoves DEF Manage, Typed
  <2>3. p.step = "manage" /\ p.goal = "session"
    BY DEF Idle
  <2> HIDE DEF p
  <2> QED BY <2>2, <2>3 DEF Earned, StepsUp, Beyond
<1>4. CASE ReadAgain(r)
  <2> DEFINE admits == account[q.user].verified /\ roleAllowedForAudience(q.user, q.audience)
             p == [q EXCEPT !.step = "password", !.admits = admits]
  <2>0. admits \in BOOLEAN /\ (admits => Fits(q))
    BY DEF roleAllowedForAudience, Fits
  <2>1. Set(r, p) /\ UNCHANGED <<account, sessions, basis>> /\ q.step = "read"
    BY <1>4 DEF ReadAgain, Read, At, rows, q
  <2> HIDE DEF admits
  <2>2. p \in Request
    BY <1>0, <2>0 DEF Request, Step
  <2>3. requests'[r] = p
    BY <2>1, <2>2, SetMoves DEF Typed
  <2>4. p.step = "password" /\ p.user = q.user /\ p.goal = q.goal /\ p.token = q.token
        /\ p.audience = q.audience /\ (p.admits <=> admits) /\ p.counter = q.counter /\ p.code = q.code
    BY <1>0 DEF Request
  <2>5. q.goal = "proof" /\ q.counter = -1 /\ q.code = None
    BY <1>0, <2>1 DEF Earned, q
  <2> HIDE DEF p
  <2>6. Earned(r)'
    BY <2>0, <2>1, <2>3, <2>4, <2>5 DEF Earned, Fits, Beyond
  <2>7. StepsUp(r)'
    BY <1>0, <2>1, <2>3, <2>4, <2>5 DEF StepsUp, q
  <2> QED BY <2>6, <2>7
<1>5. CASE StepUpCode(r)
  <2>1. q.step = "code" /\ UNCHANGED <<account, sessions, basis>>
    BY <1>5 DEF StepUpCode, At, rows, q
  <2>2. ASSUME NEW k \in ValidCounters(now), Set(r, [q EXCEPT !.step = "advance", !.at = now, !.counter = k])
        PROVE  Earned(r)' /\ StepsUp(r)'
    <3> DEFINE p == [q EXCEPT !.step = "advance", !.at = now, !.counter = k]
    <3>1. k \in Int /\ k >= 0 /\ now \in Time /\ "advance" \in Step
      BY <2>2 DEF ValidCounters, Typed, TypeOK, Time, Step
    <3>2. p \in Request
      BY <1>0, <3>1 DEF Request
    <3>3. requests'[r] = p
      BY <2>2, <3>2, SetMoves DEF Typed
    <3>4. p.step = "advance" /\ p.user = q.user /\ p.goal = q.goal /\ p.token = q.token
          /\ p.audience = q.audience /\ p.counter = k
      BY <1>0 DEF Request
    <3> HIDE DEF p
    <3>5. Fits(q)
      BY <1>0, <2>1 DEF Earned, Beyond, q
    <3>6. Earned(r)'
      BY <2>1, <3>1, <3>3, <3>4, <3>5 DEF Earned, Fits
    <3>7. StepsUp(r)'
      BY <1>0, <2>1, <3>1, <3>3, <3>4 DEF StepsUp, q
    <3> QED BY <3>6, <3>7
  <2> QED BY <1>5, <2>2, EndEarns DEF StepUpCode, q
<1>6. CASE \E u \in Users : RevokeUserSessions(r, u) \/ \E s \in Status : UpdateUserStatus(r, u, s)
  BY <1>6, EndEarns DEF RevokeUserSessions, UpdateUserStatus
<1> QED BY <1>2, <1>3, <1>4, <1>5, <1>6 DEF Administer, Status

LEMMA EarnedStep == Typed /\ Merited /\ [Next]_vars => \A r \in Requests : Earned(r)' /\ StepsUp(r)'
<1> SUFFICES ASSUME Typed, Merited, [Next]_vars, NEW s \in Requests PROVE Earned(s)' /\ StepsUp(s)'
  OBVIOUS
<1>0. Lasts /\ Earned(s) /\ StepsUp(s)
  BY Lasting DEF Merited
<1>1. ASSUME NEW r \in Requests, Password(r) \/ SecondFactor(r) \/ Issue(r) \/ Administer(r)
      PROVE  Earned(s)' /\ StepsUp(s)'
  <2>1. CASE s = r
    BY <1>0, <1>1, <2>1, PasswordEarns, SecondFactorEarns, IssueEarns, AdministerEarns
  <2>2. CASE s # r
    BY <1>0, <1>1, <2>2, OthersStay, EarnedKept
  <2> QED BY <2>1, <2>2
<1>2. requests' = requests => Earned(s)' /\ StepsUp(s)'
  BY <1>0, EarnedKept
<1> QED BY <1>1, <1>2 DEF Next, Logout, Commit, Rollback, VerifyEmail, Tick, vars

(* How a step treats the rows of tokens: it leaves them alone, deletes     *)
(* sessions with their proofs, or adds one row.                            *)
LEMMA TokenSteps ==
  ASSUME Typed, [Next]_vars
  PROVE  \/ UNCHANGED <<sessions, proofs>>
         \/ \E T \in SUBSET Tokens : DeleteSessions(T)
         \/ \E r \in Requests, t \in Tokens : CreateSession(r, t) \/ CreateStepUpProof(r, t)
<1> DEFINE Treated == \/ UNCHANGED <<sessions, proofs>>
                    \/ \E T \in SUBSET Tokens : DeleteSessions(T)
                    \/ \E r \in Requests, t \in Tokens : CreateSession(r, t) \/ CreateStepUpProof(r, t)
<1> SUFFICES Treated
  OBVIOUS
<1>1. ASSUME NEW r \in Requests, Password(r) \/ SecondFactor(r) PROVE UNCHANGED <<sessions, proofs>>
  BY <1>1 DEF Password, SignIn, Read, WrongPassword, RightPassword, ReadMFAConfiguration, CreateMFAChallenge,
              SecondFactor, ConsumeMFAChallenge, Recheck, ValidTOTP, WrongCode, ConsumeMFARecoveryCode,
              ConfirmMFA, AdvanceMFACounter, ReplayedCode, rows
<1>2. ASSUME NEW r \in Requests, Issue(r) PROVE Treated
  <2>1. CASE Withdraw(r)
    <3>1. requests[r].token \in Tokens /\ DeleteSessions({requests[r].token})
      BY <2>1 DEF Withdraw, Typed, TypeOK, Posed, Request, At
    <3>2. {requests[r].token} \in SUBSET Tokens
      BY <3>1
    <3> QED BY <3>1, <3>2
  <2> QED BY <1>2, <2>1 DEF Issue, ClearAuthenticationFailures, Finish, rows
<1>3. ASSUME NEW r \in Requests, Administer(r) PROVE Treated
  <2>1. ASSUME NEW u \in Users, RevokeUserSessions(r, u) PROVE Treated
    <3>1. SessionsOf(u) \in SUBSET Tokens
      BY DEF SessionsOf
    <3> QED BY <2>1, <3>1 DEF RevokeUserSessions
  <2> QED BY <1>3, <2>1 DEF Administer, StepUp, Manage, ReadAgain, Read, StepUpCode, UpdateUserStatus, rows
<1>4. ASSUME NEW t \in Tokens, Logout(t) PROVE Treated
  <2>1. {t} \in SUBSET Tokens
    OBVIOUS
  <2> QED BY <1>4, <2>1 DEF Logout
<1>5. ASSUME NEW u \in Users, Commit(u) PROVE Treated
  <2> DEFINE T == IF change[u].ends THEN change[u].present ELSE {}
  <2>1. T \in SUBSET Tokens
    BY <1>5 DEF Commit, RowFree, Typed, TypeOK, Change
  <2>2. DeleteSessions(T)
    BY <1>5 DEF Commit
  <2> HIDE DEF T
  <2> QED BY <2>1, <2>2
<1>6. CASE (\E u \in Users : Rollback(u) \/ VerifyEmail(u)) \/ Tick \/ UNCHANGED vars
  BY <1>6 DEF Rollback, VerifyEmail, Tick, rows, vars
<1> HIDE DEF Treated
<1> QED BY <1>1, <1>2, <1>3, <1>4, <1>5, <1>6 DEF Next, Treated

LEMMA ProofBoundStep == Typed /\ Merited /\ [Next]_vars => ProofBound'
<1> SUFFICES ASSUME Typed, Merited, [Next]_vars PROVE ProofBound'
  OBVIOUS
<1>0. ProofBound /\ Lasts /\ Drawn
  BY Lasting DEF Merited, Kept
<1>a. \A p \in Tokens : proofs[p] # None => proofs[p].session \in Tokens /\ basis'[p] = basis[p]
  BY <1>0 DEF Drawn, Lasts, Typed, TypeOK, Proof
<1>1. CASE UNCHANGED <<sessions, proofs>>
  BY <1>0, <1>a, <1>1 DEF ProofBound
<1>2. ASSUME NEW T \in SUBSET Tokens, DeleteSessions(T) PROVE ProofBound'
  <2>1. \A p \in Tokens : proofs'[p] # None =>
          proofs'[p] = proofs[p] /\ proofs[p] # None /\ proofs[p].session \notin T
    BY <1>2 DEF DeleteSessions
  <2>2. \A t \in Tokens : t \notin T => sessions'[t] = sessions[t]
    BY <1>2 DEF DeleteSessions
  <2> QED BY <1>0, <1>a, <2>1, <2>2 DEF ProofBound
<1>3. ASSUME NEW r \in Requests, NEW t \in Tokens, CreateSession(r, t) PROVE ProofBound'
  <2>1. proofs' = proofs /\ basis[t] = None
    BY <1>3 DEF CreateSession, Draw
  <2>2. \A v \in Tokens : v # t => sessions'[v] = sessions[v]
    BY <1>3 DEF CreateSession, Typed, TypeOK
  <2>3. \A p \in Tokens : proofs[p] # None => proofs[p].session # t
    BY <1>0, <2>1 DEF ProofBound, Drawn
  <2> QED BY <1>0, <1>a, <2>1, <2>2, <2>3 DEF ProofBound
<1>4. ASSUME NEW r \in Requests, NEW t \in Tokens, CreateStepUpProof(r, t) PROVE ProofBound'
  <2> DEFINE q == requests[r]
  <2>1. q.step = "issue" /\ q.goal = "proof" /\ sessions[q.token] # None /\ sessions' = sessions
    BY <1>4 DEF CreateStepUpProof, At
  <2>2. proofs'[t] = [session |-> q.token, user |-> q.user, expires |-> q.at + StepUpTTL]
    BY <1>4 DEF CreateStepUpProof, Typed, TypeOK
  <2>3. basis'[t].counter = q.counter
    BY <1>4 DEF CreateStepUpProof, Draw, Typed, TypeOK
  <2>4. \A p \in Tokens : p # t => proofs'[p] = proofs[p]
    BY <1>4 DEF CreateStepUpProof, Typed, TypeOK
  <2>5. StepsUp(r)
    BY DEF Merited
  <2>6. /\ sessions[q.token].user = q.user /\ sessions[q.token].audience = "privileged"
        /\ Role(q.user) = "admin" /\ q.counter >= 0
    BY <2>1, <2>5 DEF StepsUp
  <2> HIDE DEF q
  <2> QED BY <1>0, <1>a, <2>1, <2>2, <2>3, <2>4, <2>6 DEF ProofBound
<1> QED BY <1>1, <1>2, <1>3, <1>4, TokenSteps

LEMMA SessionEarnedStep == Typed /\ Merited /\ [Next]_vars => SessionEarned'
<1> SUFFICES ASSUME Typed, Merited, [Next]_vars PROVE SessionEarned'
  OBVIOUS
<1>0. SessionEarned /\ Lasts /\ Drawn
  BY Lasting DEF Merited, Kept
<1>1. ASSUME NEW t \in Tokens, sessions'[t] # None, sessions'[t] = sessions[t] PROVE
      /\ roleAllowedForAudience(sessions'[t].user, sessions'[t].audience)
      /\ account'[sessions'[t].user].verified
      /\ sessions'[t].audience = "privileged" /\ RequirePrivilegedMFA
           => basis'[t].counter >= 0 \/ basis'[t].code # None
  <2>1. sessions[t].user \in Users /\ basis'[t] = basis[t]
    BY <1>0, <1>1 DEF Drawn, Lasts, Typed, TypeOK, Session
  <2> QED BY <1>0, <1>1, <2>1 DEF SessionEarned, Lasts
<1>2. (\A t \in Tokens : sessions'[t] # None => sessions'[t] = sessions[t]) => SessionEarned'
  BY <1>1 DEF SessionEarned, roleAllowedForAudience, Role
<1>3. ASSUME NEW r \in Requests, NEW t \in Tokens, CreateSession(r, t) PROVE SessionEarned'
  <2> DEFINE q == requests[r]
  <2>1. q.step = "issue" /\ account' = account
    BY <1>3 DEF CreateSession, At
  <2>2. sessions'[t].user = q.user /\ sessions'[t].audience = q.audience
        /\ basis'[t].counter = q.counter /\ basis'[t].code = q.code
    BY <1>3 DEF CreateSession, Draw, Typed, TypeOK
  <2>3. Earned(r)
    BY DEF Merited
  <2>4. Fits(q) /\ (q.audience = "privileged" /\ RequirePrivilegedMFA => q.counter >= 0 \/ q.code # None)
    BY <2>1, <2>3 DEF Earned, Beyond, Factored
  <2>5. \A v \in Tokens : v # t => sessions'[v] = sessions[v]
    BY <1>3 DEF CreateSession, Typed, TypeOK
  <2> HIDE DEF q
  <2> QED BY <1>1, <2>1, <2>2, <2>4, <2>5 DEF SessionEarned, Fits, roleAllowedForAudience, Role
<1>4. ASSUME NEW r \in Requests, NEW t \in Tokens, CreateStepUpProof(r, t) PROVE SessionEarned'
  BY <1>2, <1>4 DEF CreateStepUpProof
<1> QED BY <1>2, <1>3, <1>4, TokenSteps, SessionsDeleted

LEMMA MeritedStep == Typed /\ Merited /\ [Next]_vars => Merited'
BY ChangesStep, MadeStep, DrawnStep, EarnedStep, ProofBoundStep, SessionEarnedStep DEF Merited, Kept

LEMMA MeritedInit == Init => Merited
BY DEF Init, Merited, Kept, Changes, Made, Drawn, Earned, StepsUp, ProofBound, SessionEarned, Idle, Beyond

LEMMA SpecMerited == Spec => [](Typed /\ Merited)
BY TypedInit, TypedStep, MeritedInit, MeritedStep, PTL DEF Spec

(* A step-up proof exists while its session does, belongs to the same      *)
(* administrator and rests on a TOTP code, whatever deletes sessions while *)
(* it is being made.                                                       *)
THEOREM SpecProofBound == Spec => []ProofBound
<1>1. Merited => ProofBound
  BY DEF Merited
<1> QED BY <1>1, SpecMerited, PTL

(* Every session fits the role of a verified account; where MFA is         *)
(* required, a privileged one rests on a second factor.                    *)
THEOREM SpecSessionEarned == Spec => []SessionEarned
<1>1. Merited => SessionEarned
  BY DEF Merited
<1> QED BY <1>1, SpecMerited, PTL

----------------------------------------------------------------------------
(* A suspended account stays suspended until an activation commits, and    *)
(* that one has the doomed sessions among those it deletes.                *)
Waits(t) ==
  LET u == sessions[t].user IN
  /\ account[u].status = "suspended"
  /\ change[u] # None => \/ change[u].row.status = "suspended"
                         \/ change[u].ends /\ t \in change[u].present

(* Outside Commit the transactions under way and the status change little. *)
LEMMA WaitsKept ==
  ASSUME Typed, Lasts, NEW t \in Tokens, sessions[t] # None, sessions'[t] = sessions[t], Waits(t),
         \A u \in Users : account'[u].status = account[u].status,
         \A u \in Users : \/ change'[u] = change[u] \/ change'[u] = None
                          \/ change'[u] # None /\ change'[u].row.status = account[u].status
                          \/ change'[u] # None /\ change'[u].ends /\ change'[u].present = SessionsOf(u)
  PROVE  Waits(t)'
<1> DEFINE u == sessions[t].user
<1>1. u \in Users /\ t \in SessionsOf(u) /\ account'[u].status = "suspended"
  BY DEF Typed, TypeOK, Session, SessionsOf, Waits
<1>2. change'[u] # None => \/ change'[u].row.status = "suspended"
                           \/ change'[u].ends /\ t \in change'[u].present
  BY <1>1 DEF Waits
<1> QED BY <1>1, <1>2 DEF Waits

LEMMA BeginsAs ==
  ASSUME Typed, NEW u \in Users, NEW row \in Account, NEW ends \in BOOLEAN, Begin(u, row, ends)
  PROVE  /\ change'[u] # None /\ change'[u].row = row /\ change'[u].ends = ends
         /\ change'[u].present = SessionsOf(u)
         /\ \A v \in Users : v # u => change'[v] = change[v]
<1>1. change'[u] = [row |-> row, present |-> SessionsOf(u), ends |-> ends]
  BY DEF Begin, Typed, TypeOK
<1>2. \A v \in Users : v # u => change'[v] = change[v]
  BY DEF Begin, Typed, TypeOK
<1>3. [row |-> row, present |-> SessionsOf(u), ends |-> ends] \in Change
  BY DEF Change, SessionsOf
<1>4. change'[u] # None
  BY <1>1, <1>3, NoneAssumption
<1> QED BY <1>1, <1>2, <1>4

(* What becomes of the transactions when none commits.                     *)
Moderate ==
  /\ doomed' = doomed
  /\ \A u \in Users : account'[u].status = account[u].status
  /\ \A u \in Users : \/ change'[u] = change[u] \/ change'[u] = None
                      \/ change'[u] # None /\ change'[u].row.status = account[u].status
                      \/ change'[u] # None /\ change'[u].ends /\ change'[u].present = SessionsOf(u)

LEMMA FailureModerate ==
  ASSUME Typed, NEW u \in Users, NEW at \in Nat, RecordAuthenticationFailure(u, at),
         UNCHANGED <<account, doomed>>
  PROVE  Moderate
<1>1. account[u] \in Account /\ Counted(account[u], at) \in Account
  BY CountedType DEF Typed, TypeOK
<1>2. Counted(account[u], at).status = account[u].status
  BY <1>1 DEF Counted, Account
<1>3. (Counted(account[u], at).until > at) \in BOOLEAN
  OBVIOUS
<1>4. /\ change'[u] # None /\ change'[u].row = Counted(account[u], at)
      /\ \A v \in Users : v # u => change'[v] = change[v]
  <2>1. Begin(u, Counted(account[u], at), Counted(account[u], at).until > at)
    BY DEF RecordAuthenticationFailure
  <2> DEFINE new == Counted(account[u], at)
             ends == new.until > at
  <2>2. Begin(u, new, ends) /\ new \in Account /\ ends \in BOOLEAN
    BY <1>1, <1>3, <2>1
  <2> HIDE DEF new, ends
  <2>3. /\ change'[u] # None /\ change'[u].row = new
        /\ \A v \in Users : v # u => change'[v] = change[v]
    BY <2>2, BeginsAs
  <2> QED BY <2>3 DEF new
<1>5. ASSUME NEW v \in Users
      PROVE  change'[v] = change[v] \/ (change'[v] # None /\ change'[v].row.status = account[v].status)
  BY <1>2, <1>4
<1> QED BY <1>5 DEF Moderate

LEMMA RequestsModerate ==
  ASSUME Typed, NEW r \in Requests, Password(r) \/ SecondFactor(r) \/ Issue(r) \/ Administer(r)
  PROVE  Moderate
<1>a. UNCHANGED <<account, change, doomed>> => Moderate
  BY DEF Moderate
<1>b. requests[r].step # "idle" => requests[r].user \in Users /\ requests[r].at \in Nat
  BY DEF Typed, TypeOK, Posed, Request, Time
<1>c. now \in Nat
  BY DEF Typed, TypeOK
<1>1. CASE Password(r)
  <2>1. CASE WrongPassword(r)
    BY <1>b, <1>c, <2>1, FailureModerate DEF WrongPassword, At, rows
  <2> QED BY <1>a, <1>1, <2>1 DEF Password, SignIn, Read, RightPassword, ReadMFAConfiguration, CreateMFAChallenge, rows
<1>2. CASE SecondFactor(r)
  <2>1. CASE WrongCode(r) \/ ReplayedCode(r)
    BY <1>b, <2>1, FailureModerate DEF WrongCode, ReplayedCode, At, rows
  <2> QED BY <1>a, <1>2, <2>1 DEF SecondFactor, ConsumeMFAChallenge, Recheck, ValidTOTP, ConsumeMFARecoveryCode,
                                  ConfirmMFA, AdvanceMFACounter, rows
<1>3. CASE Issue(r)
  <2>1. CASE ClearAuthenticationFailures(r)
    <3>1. \A a \in Account : Cleared(a).status = a.status
      BY DEF Cleared, Account
    <3> QED BY <2>1, <3>1 DEF ClearAuthenticationFailures, Moderate, Typed, TypeOK
  <2> QED BY <1>a, <1>3, <2>1 DEF Issue, Withdraw, Finish, CreateSession, CreateStepUpProof, rows
<1>4. CASE Administer(r)
  <2>1. CASE StepUpCode(r)
    <3>1. requests[r].step # "idle" /\ account' = account /\ doomed' = doomed
      BY <2>1 DEF StepUpCode, At, rows
    <3>2. change' = change \/ RecordAuthenticationFailure(requests[r].user, now)
      BY <2>1 DEF StepUpCode
    <3> QED BY <1>a, <1>b, <1>c, <3>1, <3>2, FailureModerate
  <2>2. ASSUME NEW u \in Users, NEW s \in Status, UpdateUserStatus(r, u, s) PROVE Moderate
    <3>1. Updated(account[u], s) \in Account /\ Begin(u, Updated(account[u], s), TRUE)
      BY <2>2, UpdatedType DEF UpdateUserStatus, Typed, TypeOK
    <3>2. change'[u] # None /\ change'[u].ends /\ change'[u].present = SessionsOf(u)
          /\ \A v \in Users : v # u => change'[v] = change[v]
      BY <3>1, BeginsAs
    <3> QED BY <2>2, <3>2 DEF Moderate, UpdateUserStatus, rows
  <2> QED BY <1>a, <1>4, <2>1, <2>2 DEF Administer, StepUp, Manage, ReadAgain, Read, RevokeUserSessions, Status, rows
<1> QED BY <1>1, <1>2, <1>3, <1>4

LEMMA DoomedStep == Typed /\ Merited /\ Doomed /\ [Next]_vars => Doomed'
<1> SUFFICES ASSUME Typed, Merited, Doomed, [Next]_vars PROVE Doomed'
  OBVIOUS
<1>0. Lasts /\ doomed \subseteq Tokens
  BY Lasting DEF Merited, Typed, TypeOK
<1>1. \A t \in doomed : basis[t] # None /\ (sessions[t] # None => Waits(t))
  BY DEF Doomed, Waits
<1>2. \A t \in doomed : basis'[t] # None /\ (sessions'[t] # None => sessions'[t] = sessions[t])
  BY <1>0, <1>1 DEF Lasts
<1>3. Moderate => Doomed'
  <2> SUFFICES ASSUME Moderate, NEW t \in doomed, sessions'[t] # None PROVE Waits(t)'
    BY <1>2 DEF Moderate, Doomed, Waits
  <2> QED BY <1>0, <1>1, <1>2, WaitsKept DEF Moderate
<1>4. ASSUME NEW u \in Users, Commit(u) PROVE Doomed'
  <2>1. change[u] # None /\ change'[u] = None /\ account'[u] = change[u].row
    BY <1>4 DEF Commit, RowFree, Typed, TypeOK
  <2>2. \A v \in Users : v # u => change'[v] = change[v] /\ account'[v] = account[v]
    BY <1>4 DEF Commit, Typed, TypeOK
  <2>3. doomed' = IF change[u].row.status = "suspended" THEN doomed \cup SessionsOf(u) ELSE doomed
    BY <1>4 DEF Commit
  <2>4. \A t \in Tokens : sessions'[t] # None =>
          sessions'[t] = sessions[t] /\ (change[u].ends => t \notin change[u].present)
    BY <1>4, SessionsDeleted DEF Commit
  <2>5. ASSUME NEW t \in doomed' PROVE basis'[t] # None /\ (sessions'[t] # None => Waits(t)')
    <3>1. t \in Tokens /\ basis'[t] # None
      BY <1>0, <1>2, <2>3, <2>5 DEF SessionsOf, Merited, Kept, Drawn, Lasts
    <3> SUFFICES ASSUME sessions'[t] # None PROVE Waits(t)'
      BY <3>1
    <3>2. sessions'[t] = sessions[t] /\ sessions[t] # None /\ sessions[t].user \in Users
      BY <2>4, <3>1 DEF Typed, TypeOK, Session
    <3>3. CASE sessions[t].user = u
      <4>1. change[u].row.status = "suspended"
        BY <1>1, <2>1, <2>3, <2>4, <2>5, <3>1, <3>2, <3>3 DEF Waits
      <4> QED BY <2>1, <3>2, <3>3, <4>1 DEF Waits
    <3>4. CASE sessions[t].user # u
      <4>1. t \in doomed
        BY <2>3, <2>5, <3>4 DEF SessionsOf
      <4> QED BY <1>1, <2>2, <3>2, <3>4, <4>1 DEF Waits
    <3> QED BY <3>3, <3>4
  <2> QED BY <2>5 DEF Doomed, Waits
<1>5. ASSUME NEW r \in Requests, Password(r) \/ SecondFactor(r) \/ Issue(r) \/ Administer(r) PROVE Doomed'
  BY <1>3, <1>5, RequestsModerate
<1>6. ASSUME NEW u \in Users, Rollback(u) \/ VerifyEmail(u) PROVE Moderate
  BY <1>6 DEF Rollback, VerifyEmail, Moderate, Typed, TypeOK, Account, rows
<1>7. CASE (\E t \in Tokens : Logout(t)) \/ Tick \/ UNCHANGED vars
  BY <1>3, <1>7 DEF Logout, Tick, Moderate, rows, vars
<1> QED BY <1>3, <1>4, <1>5, <1>6, <1>7 DEF Next

(* A session that was there when a suspension took effect is never usable  *)
(* again, whoever activates the account later.                             *)
THEOREM SpecSuspensionEndsSessions == Spec => []SuspensionEndsSessions
<1>1. Init => Doomed
  BY DEF Init, Doomed
<1>2. Spec => []Doomed
  BY <1>1, SpecMerited, DoomedStep, PTL DEF Spec
<1>3. Typed /\ Doomed => SuspensionEndsSessions
  BY DEF Typed, TypeOK, Doomed, SuspensionEndsSessions, Usable
<1> QED BY <1>2, <1>3, SpecMerited, PTL

----------------------------------------------------------------------------
(* What is spent stays spent, and nobody gets it again.                    *)
LEMMA TicketType ==
  ASSUME Typed, NEW r \in Requests
  PROVE  /\ Ticket(r).counter \in Int /\ Ticket(r).user = requests[r].user
         /\ Ticket(r).counter >= 0 \/ Ticket(r).code # None \/ Ticket(r).challenge # None => Ticket(r).user \in Users
         /\ Ticket(r).challenge \in Challenges \cup {None}
BY DEF Ticket, Typed, TypeOK, Posed, Request

LEMMA BasisType ==
  ASSUME Typed, NEW t \in Tokens, basis[t] # None
  PROVE  basis[t].counter \in Int /\ basis[t].user \in Users /\ basis[t].challenge \in Challenges \cup {None}
BY DEF Typed, TypeOK, Basis

LEMMA TicketKept ==
  ASSUME NEW s \in Requests, requests'[s] = requests[s] PROVE Ticket(s)' = Ticket(s)
BY DEF Ticket

LEMMA BasisSpent ==
  ASSUME Typed, Typed', Claims, Grows, \A u \in Users : mfa[u] # None => codes'[u] \subseteq codes[u],
         NEW t \in Tokens, basis[t] # None, basis'[t] = basis[t]
  PROVE  Spent(basis[t])' /\ Enrolled(basis[t])'
<1>1. Spent(basis[t]) /\ Enrolled(basis[t])
  BY DEF Claims
<1>2. \A u \in Users : mfa[u] # None => mfa[u].last \in Int /\ mfa'[u].last \in Int
  BY DEF Typed, TypeOK, MFA, Grows
<1>3. Spent(basis[t])'
  BY <1>1, <1>2, BasisType DEF Spent, Grows
<1>4. Enrolled(basis[t])'
  BY <1>1, BasisType DEF Spent, Enrolled, Grows
<1> QED BY <1>3, <1>4

LEMMA TicketSpent ==
  ASSUME Typed, Typed', Claims, Grows, \A u \in Users : mfa[u] # None => codes'[u] \subseteq codes[u],
         NEW s \in Requests, Ticket(s)' = Ticket(s)
  PROVE  Spent(Ticket(s))' /\ (Accepted(s) => Enrolled(Ticket(s))')
<1>1. Spent(Ticket(s)) /\ (Accepted(s) => Enrolled(Ticket(s)))
  BY DEF Claims
<1>2. \A u \in Users : mfa[u] # None => mfa[u].last \in Int /\ mfa'[u].last \in Int
  BY DEF Typed, TypeOK, MFA, Grows
<1>3. Spent(Ticket(s))'
  BY <1>1, <1>2, TicketType DEF Spent, Grows
<1>4. Accepted(s) => Enrolled(Ticket(s))'
  BY <1>1, TicketType DEF Spent, Enrolled, Grows
<1> QED BY <1>3, <1>4

(* Claims after a step that changes one ticket and no basis.               *)
LEMMA ClaimsByTicket ==
  ASSUME Typed, Typed', Claims, Grows, basis' = basis,
         \A u \in Users : mfa[u] # None => codes'[u] \subseteq codes[u],
         \A u \in Users : codes'[u] # {} => mfa'[u] # None,
         NEW r \in Requests, \A s \in Requests : s # r => requests'[s] = requests[s],
         Spent(Ticket(r))', (Accepted(r) => Enrolled(Ticket(r)))',
         \A t \in Tokens : basis[t] # None => Apart(basis[t], Ticket(r)'),
         \A s \in Requests : s # r => Apart(Ticket(s), Ticket(r)')
  PROVE  Claims'
<1>1. ASSUME NEW t \in Tokens, basis'[t] # None PROVE Spent(basis[t])' /\ Enrolled(basis[t])'
  BY <1>1, BasisSpent
<1>2. \A s \in Requests : s # r => Ticket(s)' = Ticket(s) /\ (Accepted(s)' <=> Accepted(s))
  BY TicketKept DEF Accepted
<1>3. ASSUME NEW s \in Requests PROVE Spent(Ticket(s))' /\ (Accepted(s) => Enrolled(Ticket(s)))'
  BY <1>2, TicketSpent
<1>4. ASSUME NEW t \in Tokens, NEW s \in Requests, basis'[t] # None PROVE Apart(basis[t], Ticket(s))'
  <2>1. CASE s = r
    BY <1>4, <2>1 DEF Apart
  <2>2. CASE s # r
    BY <1>2, <1>4, <2>2 DEF Claims, Apart
  <2> QED BY <2>1, <2>2
<1>5. ASSUME NEW s \in Requests, NEW v \in Requests, s # v PROVE Apart(Ticket(s), Ticket(v))'
  <2>1. CASE s = r
    <3>1. Apart(Ticket(v), Ticket(r)') /\ Ticket(v)' = Ticket(v)
      BY <1>2, <1>5, <2>1
    <3> QED BY <2>1, <3>1 DEF Apart
  <2>2. CASE v = r
    <3>1. Apart(Ticket(s), Ticket(r)') /\ Ticket(s)' = Ticket(s)
      BY <1>2, <1>5, <2>2
    <3> QED BY <2>2, <3>1 DEF Apart
  <2>3. CASE s # r /\ v # r
    <3>1. Ticket(s)' = Ticket(s) /\ Ticket(v)' = Ticket(v) /\ Apart(Ticket(s), Ticket(v))
      BY <1>2, <1>5, <2>3 DEF Claims
    <3> QED BY <3>1 DEF Apart
  <2> QED BY <2>1, <2>2, <2>3
<1>6. FactorSpentOnce'
  BY DEF Claims, FactorSpentOnce, Apart
<1> QED BY <1>1, <1>3, <1>4, <1>5, <1>6 DEF Claims

Free(b) == b.counter = -1 /\ b.code = None /\ b.challenge = None

LEMMA ClaimsByNothing ==
  ASSUME Typed, Typed', Claims, Grows, UNCHANGED <<mfa, codes, basis>>,
         NEW r \in Requests, \A s \in Requests : s # r => requests'[s] = requests[s],
         Free(Ticket(r)') \/ (Ticket(r)' = Ticket(r) /\ (Accepted(r)' => Accepted(r)))
  PROVE  Claims'
<1>1. CASE Free(Ticket(r)')
  <2>1. Spent(Ticket(r))' /\ Enrolled(Ticket(r))'
    BY <1>1 DEF Free, Spent, Enrolled
  <2>2. \A t \in Tokens : Apart(basis[t], Ticket(r)')
    BY <1>1 DEF Free, Apart
  <2>3. \A s \in Requests : Apart(Ticket(s), Ticket(r)')
    BY <1>1 DEF Free, Apart
  <2> QED BY <2>1, <2>2, <2>3, ClaimsByTicket DEF Claims
<1>2. CASE Ticket(r)' = Ticket(r) /\ (Accepted(r)' => Accepted(r))
  <2>1. Spent(Ticket(r))' /\ (Accepted(r) => Enrolled(Ticket(r)))'
    BY <1>2, TicketSpent
  <2>2. \A t \in Tokens : basis[t] # None => Apart(basis[t], Ticket(r)')
    BY <1>2 DEF Claims
  <2>3. \A s \in Requests : s # r => Apart(Ticket(s), Ticket(r)')
    BY <1>2 DEF Claims
  <2> QED BY <2>1, <2>2, <2>3, ClaimsByTicket DEF Claims
<1> QED BY <1>1, <1>2

LEMMA TicketFields ==
  ASSUME NEW r \in Requests
  PROVE  /\ Ticket(r).user = requests[r].user
         /\ Ticket(r).counter = IF Accepted(r) THEN requests[r].counter ELSE -1
         /\ Ticket(r).code = IF requests[r].step \notin {"idle", "audit"} THEN requests[r].code ELSE None
         /\ Ticket(r).challenge = IF requests[r].step \notin {"idle", "audit"} THEN requests[r].challenge ELSE None
BY DEF Ticket, Accepted

LEMMA NextFields ==
  ASSUME NEW r \in Requests
  PROVE  /\ Ticket(r)'.user = requests'[r].user
         /\ Ticket(r)'.counter = IF Accepted(r)' THEN requests'[r].counter ELSE -1
         /\ Ticket(r)'.code = IF requests'[r].step \notin {"idle", "audit"} THEN requests'[r].code ELSE None
         /\ Ticket(r)'.challenge = IF requests'[r].step \notin {"idle", "audit"} THEN requests'[r].challenge ELSE None
BY DEF Ticket, Accepted

LEMMA EndFrees ==
  ASSUME Typed, NEW r \in Requests, Set(r, Idle) PROVE Free(Ticket(r)')
<1>1. requests'[r] = Idle
  BY IdleType, SetMoves DEF Typed
<1>2. requests'[r].step = "idle"
  BY <1>1 DEF Idle
<1> QED BY <1>2, NextFields DEF Free, Accepted

(* A request that moves on with what it has.                               *)
LEMMA GotoKeeps ==
  ASSUME Typed, NEW r \in Requests, NEW s \in Step, Goto(r, s),
         requests[r].step \notin {"idle", "audit"}, s \notin {"idle", "audit"},
         s \in {"clear", "issue"} <=> Accepted(r)
  PROVE  Ticket(r)' = Ticket(r) /\ (Accepted(r)' => Accepted(r))
<1>1. Same(requests'[r], requests[r]) /\ requests'[r].step = s
  BY GotoMoves DEF Typed
<1> QED BY <1>1 DEF Same, Ticket, Accepted

LEMMA PasswordClaims ==
  ASSUME Typed, Typed', Merited, Claims, Grows, NEW r \in Requests, Password(r) PROVE Claims'
<1> DEFINE q == requests[r]
<1>0. q \in Request /\ Posed(r) /\ Earned(r) /\ Idle \in Request
  BY IdleType DEF Typed, TypeOK, Merited
<1>a. UNCHANGED <<mfa, codes, basis>>
  BY DEF Password, SignIn, Read, WrongPassword, RightPassword, ReadMFAConfiguration, CreateMFAChallenge, rows
<1>b. \A s \in Requests : s # r => requests'[s] = requests[s]
  BY OthersStay
<1> SUFFICES Free(Ticket(r)') \/ (Ticket(r)' = Ticket(r) /\ (Accepted(r)' => Accepted(r)))
  BY <1>a, <1>b, ClaimsByNothing
<1> HIDE DEF q
<1>1. ASSUME NEW u \in Users, NEW a \in Audience, SignIn(r, u, a) PROVE Free(Ticket(r)')
  <2>1. requests'[r].step = "password" /\ requests'[r].counter = -1 /\ requests'[r].code = None
        /\ requests'[r].challenge = None
    BY <1>1 DEF SignIn, Read, Set, Idle, Typed, TypeOK
  <2> QED BY <2>1, NextFields DEF Free, Accepted
<1>2. CASE WrongPassword(r) \/ \E c \in Challenges : CreateMFAChallenge(r, c)
  BY <1>2, EndFrees DEF WrongPassword, CreateMFAChallenge
<1>3. CASE RightPassword(r)
  <2>1. q.step = "password" /\ Goto(r, AfterPassword(q.goal)) /\ AfterPassword(q.goal) \in Step
    BY <1>0, <1>3 DEF RightPassword, At, Request, Goal, AfterPassword, Step, q
  <2>2. q.counter = -1 /\ q.code = None /\ q.challenge = None
    BY <1>0, <2>1 DEF Earned, Posed, q
  <2>3. Same(requests'[r], q)
    BY <2>1, GotoMoves DEF Typed, q
  <2> QED BY <2>2, <2>3, NextFields DEF Free, Same
<1>4. CASE ReadMFAConfiguration(r)
  <2> DEFINE s == IF mfa[q.user] = None THEN "enroll" ELSE "challenge"
  <2>1. q.step = "configure" /\ Goto(r, s)
    BY <1>4 DEF ReadMFAConfiguration, At, q
  <2>2. s \in {"enroll", "challenge"} /\ s \in Step
    BY DEF Step
  <2> HIDE DEF s
  <2> QED BY <2>1, <2>2, GotoKeeps DEF Accepted, q
<1> QED BY <1>1, <1>2, <1>3, <1>4 DEF Password, Audience

(* The challenge of a request is its own: nobody else's is consumed by it. *)
LEMMA ConsumeClaims ==
  ASSUME Typed, Typed', Merited, Claims, Grows, NEW r \in Requests, NEW c \in Challenges, ConsumeMFAChallenge(r, c),
         UNCHANGED <<mfa, codes, basis>>, \A s \in Requests : s # r => requests'[s] = requests[s]
  PROVE  Claims'
<1> DEFINE u == challenges[c].user
           p == [Idle EXCEPT !.step = "recheck", !.user = u, !.audience = "privileged",
                             !.challenge = c, !.at = now]
<1>1. challenges[c] \in Challenge /\ u \in Users /\ ~challenges[c].consumed /\ challenges[c] # None
  BY DEF ConsumeMFAChallenge, Consumable, Typed, TypeOK, Challenge
<1>2. CASE Set(r, Idle)
  BY <1>2, EndFrees, ClaimsByNothing
<1>3. CASE Set(r, p)
  <2>1. p \in Request
    BY <1>1, IdleType DEF Request, Step, Audience, Idle, Typed, TypeOK, Time
  <2>2. requests'[r] = p
    BY <1>3, <2>1, SetMoves DEF Typed
  <2>3. p.step = "recheck" /\ p.code = None /\ p.challenge = c
    BY DEF Idle
  <2> HIDE DEF p, u
  <2>4. Ticket(r)'.counter = -1 /\ Ticket(r)'.code = None /\ Ticket(r)'.challenge = c /\ ~Accepted(r)'
    BY <2>2, <2>3, NextFields DEF Accepted
  <2>5. challenges'[c] # None /\ challenges'[c].consumed
    <3>1. requests'[r].challenge = c /\ c # None /\ Posed(r)'
      BY <2>2, <2>3, NoneAssumption DEF Typed
    <3> QED BY <3>1 DEF Posed
  <2>6. Spent(Ticket(r))'
    BY <2>4, <2>5 DEF Spent
  <2>7. \A t \in Tokens : basis[t] # None => Apart(basis[t], Ticket(r)')
    <3>1. \A t \in Tokens : basis[t] # None /\ basis[t].challenge # None => challenges[basis[t].challenge].consumed
      BY DEF Claims, Spent
    <3> QED BY <1>1, <2>4, <3>1 DEF Apart
  <2>8. \A s \in Requests : Apart(Ticket(s), Ticket(r)')
    <3>1. \A s \in Requests : Ticket(s).challenge # None => challenges[Ticket(s).challenge].consumed
      BY DEF Claims, Spent
    <3> QED BY <1>1, <2>4, <3>1 DEF Apart
  <2> QED BY <2>4, <2>6, <2>7, <2>8, ClaimsByTicket DEF Claims
<1> QED BY <1>2, <1>3 DEF ConsumeMFAChallenge

LEMMA RecoveryClaims ==
  ASSUME Typed, Typed', Merited, Claims, Grows, NEW r \in Requests, NEW x \in Codes, ConsumeMFARecoveryCode(r, x),
         \A s \in Requests : s # r => requests'[s] = requests[s]
  PROVE  Claims'
<1> DEFINE q == requests[r]
<1>0. q \in Request /\ Posed(r) /\ Earned(r)
  BY DEF Typed, TypeOK, Merited
<1> HIDE DEF q
<1>1. Set(r, [q EXCEPT !.code = x, !.step = "clear"]) /\ q.step = "factor" /\ ~challenges[q.challenge].enrolling
      /\ UNCHANGED <<mfa, basis, challenges>> /\ codes' = [codes EXCEPT ![q.user] = @ \ {x}] /\ x \in codes[q.user]
  BY DEF ConsumeMFARecoveryCode, At, q
<1>2. [q EXCEPT !.code = x, !.step = "clear"] \in Request /\ q.user \in Users
  BY <1>0, <1>1 DEF Request, Step, Posed, q
<1>3. requests'[r] = [q EXCEPT !.code = x, !.step = "clear"]
  BY <1>1, <1>2, SetMoves DEF Typed
<1>4. requests'[r].step = "clear" /\ requests'[r].user = q.user /\ requests'[r].counter = q.counter
      /\ requests'[r].code = x /\ requests'[r].challenge = q.challenge
  BY <1>0, <1>3 DEF Request
<1>5. Ticket(r)'.user = q.user /\ Ticket(r)'.counter = -1 /\ Ticket(r)'.code = x /\ Ticket(r)'.challenge = q.challenge
  BY <1>0, <1>1, <1>4, NextFields DEF Earned, Accepted, q
<1>6. Ticket(r).user = q.user /\ Ticket(r).challenge = q.challenge
  BY <1>1, TicketFields DEF q
<1>7. codes'[q.user] = codes[q.user] \ {x} /\ \A u \in Users : u # q.user => codes'[u] = codes[u]
  BY <1>1, <1>2 DEF Typed, TypeOK
<1>8. mfa[q.user] # None
  BY <1>1, <1>2 DEF Claims
<1>9. Spent(Ticket(r))' /\ Enrolled(Ticket(r))'
  <2>1. Spent(Ticket(r))
    BY DEF Claims
  <2>2. Ticket(r).challenge # None => challenges[Ticket(r).challenge] # None /\ challenges[Ticket(r).challenge].consumed
    BY <2>1 DEF Spent
  <2> QED BY <1>1, <1>5, <1>6, <1>7, <1>8, <2>2 DEF Spent, Enrolled
<1>10. \A t \in Tokens : basis[t] # None => Apart(basis[t], Ticket(r)')
  <2>1. \A t \in Tokens : basis[t] # None => Apart(basis[t], Ticket(r)) /\ Spent(basis[t])
    BY DEF Claims
  <2> QED BY <1>1, <1>5, <1>6, <2>1 DEF Apart, Spent
<1>11. \A s \in Requests : s # r => Apart(Ticket(s), Ticket(r)')
  <2>1. \A s \in Requests : s # r => Apart(Ticket(s), Ticket(r)) /\ Spent(Ticket(s))
    BY DEF Claims
  <2> QED BY <1>1, <1>5, <1>6, <2>1 DEF Apart, Spent
<1>12. \A u \in Users : (mfa[u] # None => codes'[u] \subseteq codes[u]) /\ (codes'[u] # {} => mfa'[u] # None)
  BY <1>1, <1>7, <1>8 DEF Claims
<1> QED BY <1>1, <1>9, <1>10, <1>11, <1>12, ClaimsByTicket

(* The first enrolment finds nothing spent, and leaves its own time step   *)
(* as the last one used.                                                   *)
LEMMA ConfirmClaims ==
  ASSUME Typed, Typed', Merited, Claims, Grows, NEW r \in Requests, ConfirmMFA(r),
         \A s \in Requests : s # r => requests'[s] = requests[s]
  PROVE  Claims'
<1> DEFINE q == requests[r]
<1>0. q \in Request /\ Posed(r) /\ Earned(r)
  BY DEF Typed, TypeOK, Merited
<1> HIDE DEF q
<1>1. q.step = "confirm" /\ mfa[q.user] = None /\ Goto(r, "clear") /\ UNCHANGED <<basis, challenges>>
      /\ mfa' = [mfa EXCEPT ![q.user] = [secret |-> q.challenge, last |-> q.counter]]
      /\ codes' = [codes EXCEPT ![q.user] = Codes]
  BY DEF ConfirmMFA, At, q
<1>2. q.user \in Users /\ q.counter >= 0 /\ q.counter \in Int /\ q.challenge \in Challenges /\ q.challenge # None
  BY <1>0, <1>1 DEF Request, Posed, Earned, q
<1>3. Same(requests'[r], q) /\ requests'[r].step = "clear"
  BY <1>1, GotoMoves DEF Typed, Step, q
<1>4. Spent(Ticket(r)) /\ Ticket(r).code = q.code /\ Ticket(r).user = q.user /\ Ticket(r).challenge = q.challenge
  BY <1>1, TicketFields DEF Claims, q
<1>5. q.code = None
  BY <1>1, <1>4 DEF Spent
<1>6. Ticket(r)'.user = q.user /\ Ticket(r)'.counter = q.counter /\ Ticket(r)'.code = None
      /\ Ticket(r)'.challenge = q.challenge
  BY <1>3, <1>5, NextFields DEF Same, Accepted
<1>7. mfa'[q.user] = [secret |-> q.challenge, last |-> q.counter]
      /\ \A u \in Users : u # q.user => mfa'[u] = mfa[u] /\ codes'[u] = codes[u]
  BY <1>1, <1>2 DEF Typed, TypeOK
<1>8. mfa'[q.user] # None
  <2>1. [secret |-> q.challenge, last |-> q.counter] \in MFA
    BY <1>2 DEF MFA
  <2> QED BY <1>7, <2>1, NoneAssumption
<1>9. Spent(Ticket(r))' /\ Enrolled(Ticket(r))'
  BY <1>1, <1>2, <1>4, <1>6, <1>7, <1>8 DEF Spent, Enrolled
<1>10. \A t \in Tokens : basis[t] # None => Apart(basis[t], Ticket(r)')
  <2>1. \A t \in Tokens : basis[t] # None => Apart(basis[t], Ticket(r)) /\ Spent(basis[t])
    BY DEF Claims
  <2> QED BY <1>1, <1>4, <1>6, <2>1 DEF Apart, Spent
<1>11. \A s \in Requests : s # r => Apart(Ticket(s), Ticket(r)')
  <2>1. \A s \in Requests : s # r => Apart(Ticket(s), Ticket(r)) /\ Spent(Ticket(s))
    BY DEF Claims
  <2> QED BY <1>1, <1>4, <1>6, <2>1 DEF Apart, Spent
<1>12. \A u \in Users : (mfa[u] # None => codes'[u] \subseteq codes[u]) /\ (codes'[u] # {} => mfa'[u] # None)
  BY <1>1, <1>7, <1>8 DEF Claims
<1> QED BY <1>1, <1>9, <1>10, <1>11, <1>12, ClaimsByTicket

(* The time step accepted is later than every one accepted before.         *)
LEMMA AdvanceClaims ==
  ASSUME Typed, Typed', Merited, Claims, Grows, NEW r \in Requests, AdvanceMFACounter(r),
         \A s \in Requests : s # r => requests'[s] = requests[s]
  PROVE  Claims'
<1> DEFINE q == requests[r]
<1>0. q \in Request /\ Posed(r) /\ Earned(r)
  BY DEF Typed, TypeOK, Merited
<1> HIDE DEF q
<1>1. q.step = "advance" /\ mfa[q.user].last < q.counter /\ Goto(r, "clear") /\ UNCHANGED <<basis, challenges, codes>>
      /\ mfa' = [mfa EXCEPT ![q.user].last = q.counter]
  BY DEF AdvanceMFACounter, At, q
<1>2. q.user \in Users /\ q.counter >= 0 /\ q.counter \in Int /\ mfa[q.user] # None /\ mfa[q.user] \in MFA
      /\ (q.challenge # None => ~challenges[q.challenge].enrolling)
  <2>1. q.user \in Users /\ mfa[q.user] # None /\ (q.challenge # None => ~challenges[q.challenge].enrolling)
    BY <1>0, <1>1 DEF Posed, Request, q
  <2>2. q.counter >= 0 /\ q.counter \in Int
    BY <1>0, <1>1 DEF Earned, Request, q
  <2>3. mfa[q.user] \in MFA
    BY <2>1 DEF Typed, TypeOK
  <2> QED BY <2>1, <2>2, <2>3
<1>3. Same(requests'[r], q) /\ requests'[r].step = "clear"
  BY <1>1, GotoMoves DEF Typed, Step, q
<1>4. Spent(Ticket(r)) /\ Ticket(r).code = q.code /\ Ticket(r).user = q.user /\ Ticket(r).challenge = q.challenge
  BY <1>1, TicketFields DEF Claims, q
<1>5. Ticket(r)'.user = q.user /\ Ticket(r)'.counter = q.counter /\ Ticket(r)'.code = q.code
      /\ Ticket(r)'.challenge = q.challenge
  BY <1>3, NextFields DEF Same, Accepted
<1>6. mfa'[q.user].last = q.counter
  BY <1>1, <1>2 DEF Typed, TypeOK, MFA
<1>7. \A u \in Users : mfa[u] # None => mfa'[u] # None
  BY DEF Grows
<1>8. Spent(Ticket(r))' /\ Enrolled(Ticket(r))'
  BY <1>1, <1>2, <1>4, <1>5, <1>6, <1>7 DEF Spent, Enrolled
<1>9. mfa[q.user].last \in Int
  BY <1>2 DEF MFA
<1>10. \A t \in Tokens : basis[t] # None => Apart(basis[t], Ticket(r)')
  <2>1. \A t \in Tokens : basis[t] # None => Apart(basis[t], Ticket(r)) /\ Spent(basis[t]) /\ basis[t].counter \in Int
    BY BasisType DEF Claims
  <2> QED BY <1>1, <1>2, <1>4, <1>5, <1>9, <2>1 DEF Apart, Spent
<1>11. \A s \in Requests : s # r => Apart(Ticket(s), Ticket(r)')
  <2>1. \A s \in Requests : s # r => Apart(Ticket(s), Ticket(r)) /\ Spent(Ticket(s)) /\ Ticket(s).counter \in Int
    BY TicketType DEF Claims
  <2> QED BY <1>1, <1>2, <1>4, <1>5, <1>9, <2>1 DEF Apart, Spent
<1>12. \A u \in Users : (mfa[u] # None => codes'[u] \subseteq codes[u]) /\ (codes'[u] # {} => mfa'[u] # None)
  BY <1>1, <1>7 DEF Claims
<1> QED BY <1>1, <1>8, <1>10, <1>11, <1>12, ClaimsByTicket

LEMMA SecondFactorClaims ==
  ASSUME Typed, Typed', Merited, Claims, Grows, NEW r \in Requests, SecondFactor(r) PROVE Claims'
<1> DEFINE q == requests[r]
<1>0. q \in Request /\ Earned(r)
  BY DEF Typed, TypeOK, Merited
<1>a. \A s \in Requests : s # r => requests'[s] = requests[s]
  BY OthersStay
<1> HIDE DEF q
<1>1. ASSUME NEW c \in Challenges, ConsumeMFAChallenge(r, c) PROVE Claims'
  BY <1>a, <1>1, ConsumeClaims DEF ConsumeMFAChallenge
<1>2. ASSUME NEW x \in Codes, ConsumeMFARecoveryCode(r, x) PROVE Claims'
  BY <1>a, <1>2, RecoveryClaims
<1>3. CASE ConfirmMFA(r)
  BY <1>a, <1>3, ConfirmClaims
<1>4. CASE AdvanceMFACounter(r)
  BY <1>a, <1>4, AdvanceClaims
<1>5. CASE WrongCode(r) \/ ReplayedCode(r)
  BY <1>a, <1>5, EndFrees, ClaimsByNothing DEF WrongCode, ReplayedCode, rows
<1>6. CASE Recheck(r)
  <2>1. Goto(r, "factor") /\ requests[r].step = "recheck" /\ UNCHANGED <<mfa, codes, basis>> /\ "factor" \in Step
    BY <1>6 DEF Recheck, At, rows, Step
  <2>2. Ticket(r)' = Ticket(r) /\ (Accepted(r)' => Accepted(r))
    BY <2>1, GotoKeeps DEF Accepted
  <2> QED BY <1>a, <2>1, <2>2, ClaimsByNothing
<1>7. CASE ValidTOTP(r)
  <2> DEFINE s == IF challenges[q.challenge].enrolling THEN "confirm" ELSE "advance"
  <2>1. PICK k \in ValidCounters(q.at) : Set(r, [q EXCEPT !.counter = k, !.step = s])
    BY <1>7 DEF ValidTOTP, q
  <2>2. q.step = "factor" /\ UNCHANGED <<mfa, codes, basis>>
    BY <1>7 DEF ValidTOTP, At, rows, q
  <2>3. s \in {"confirm", "advance"}
    OBVIOUS
  <2> HIDE DEF s
  <2>4. requests'[r] = [q EXCEPT !.counter = k, !.step = s]
    BY <2>1 DEF Set, Typed, TypeOK
  <2>5. requests'[r].step = s /\ requests'[r].user = q.user /\ requests'[r].code = q.code
        /\ requests'[r].challenge = q.challenge
    BY <1>0, <2>4 DEF Request
  <2>6. Ticket(r)' = Ticket(r) /\ ~Accepted(r)'
    BY <2>2, <2>3, <2>5 DEF Ticket, Accepted, q
  <2> QED BY <1>a, <2>2, <2>6, ClaimsByNothing
<1> QED BY <1>1, <1>2, <1>3, <1>4, <1>5, <1>6, <1>7 DEF SecondFactor

(* A token takes over what its request had spent.                          *)
LEMMA TokenClaims ==
  ASSUME Typed, Typed', Claims, Grows, UNCHANGED <<mfa, codes, challenges>>, NEW r \in Requests, NEW t \in Tokens,
         requests[r].step = "issue", Draw(requests[r], t), Free(Ticket(r)'),
         \A s \in Requests : s # r => requests'[s] = requests[s]
  PROVE  Claims'
<1>1. /\ basis[t] = None
      /\ basis'[t].user = Ticket(r).user /\ basis'[t].counter = Ticket(r).counter
      /\ basis'[t].code = Ticket(r).code /\ basis'[t].challenge = Ticket(r).challenge
      /\ \A v \in Tokens : v # t => basis'[v] = basis[v]
  BY TicketFields DEF Draw, Typed, TypeOK, Accepted
<1>2. \A s \in Requests : s # r => Ticket(s)' = Ticket(s) /\ (Accepted(s)' <=> Accepted(s))
  BY TicketKept DEF Accepted
<1>3. Spent(Ticket(r)) /\ Enrolled(Ticket(r))
  BY DEF Claims, Accepted
<1>4. Spent(basis[t])' /\ Enrolled(basis[t])'
  BY <1>1, <1>3 DEF Spent, Enrolled
<1>5. ASSUME NEW v \in Tokens, basis'[v] # None PROVE Spent(basis[v])' /\ Enrolled(basis[v])'
  BY <1>1, <1>4, <1>5, BasisSpent
<1>6. ASSUME NEW s \in Requests PROVE Spent(Ticket(s))' /\ (Accepted(s) => Enrolled(Ticket(s)))'
  <2>1. CASE s = r
    BY <2>1 DEF Free, Spent, Enrolled
  <2>2. CASE s # r
    BY <1>2, <2>2, TicketSpent
  <2> QED BY <2>1, <2>2
<1>7. ASSUME NEW v \in Tokens, NEW s \in Requests, basis'[v] # None PROVE Apart(basis[v], Ticket(s))'
  <2>1. CASE s = r
    BY <2>1 DEF Free, Apart
  <2>2. CASE s # r /\ v = t
    <3>1. Apart(Ticket(r), Ticket(s)) /\ Ticket(s)' = Ticket(s)
      BY <1>2, <2>2 DEF Claims
    <3> QED BY <1>1, <2>2, <3>1 DEF Apart
  <2>3. CASE s # r /\ v # t
    <3>1. Apart(basis[v], Ticket(s)) /\ Ticket(s)' = Ticket(s) /\ basis'[v] = basis[v]
      BY <1>1, <1>2, <1>7, <2>3 DEF Claims
    <3> QED BY <3>1 DEF Apart
  <2> QED BY <2>1, <2>2, <2>3
<1>8. ASSUME NEW s \in Requests, NEW v \in Requests, s # v PROVE Apart(Ticket(s), Ticket(v))'
  <2>1. CASE s = r \/ v = r
    BY <2>1 DEF Free, Apart
  <2>2. CASE s # r /\ v # r
    <3>1. Ticket(s)' = Ticket(s) /\ Ticket(v)' = Ticket(v) /\ Apart(Ticket(s), Ticket(v))
      BY <1>2, <1>8, <2>2 DEF Claims
    <3> QED BY <3>1 DEF Apart
  <2> QED BY <2>1, <2>2
<1>9. ASSUME NEW v \in Tokens, v # t, basis'[v] # None PROVE Apart(basis[v], basis[t])' /\ Apart(basis[t], basis[v])'
  <2>1. Apart(basis[v], Ticket(r)) /\ basis'[v] = basis[v]
    BY <1>1, <1>9 DEF Claims
  <2> QED BY <1>1, <2>1 DEF Apart
<1>10. FactorSpentOnce'
  <2> SUFFICES ASSUME NEW v \in Tokens, NEW w \in Tokens, v # w, basis'[v] # None, basis'[w] # None
               PROVE  Apart(basis[v], basis[w])'
    BY DEF FactorSpentOnce
  <2>1. CASE v = t \/ w = t
    BY <1>9, <2>1
  <2>2. CASE v # t /\ w # t
    <3>1. basis'[v] = basis[v] /\ basis'[w] = basis[w] /\ Apart(basis[v], basis[w])
      BY <1>1, <2>2 DEF Claims, FactorSpentOnce
    <3> QED BY <3>1 DEF Apart
  <2> QED BY <2>1, <2>2
<1> QED BY <1>5, <1>6, <1>7, <1>8, <1>10 DEF Claims

LEMMA IssueClaims ==
  ASSUME Typed, Typed', Merited, Claims, Grows, NEW r \in Requests, Issue(r) PROVE Claims'
<1>a. \A s \in Requests : s # r => requests'[s] = requests[s]
  BY OthersStay
<1>1. CASE ClearAuthenticationFailures(r)
  <2>1. Goto(r, "issue") /\ requests[r].step = "clear" /\ UNCHANGED <<mfa, codes, basis>> /\ "issue" \in Step
    BY <1>1 DEF ClearAuthenticationFailures, At, Step
  <2>2. Ticket(r)' = Ticket(r) /\ (Accepted(r)' => Accepted(r))
    BY <2>1, GotoKeeps DEF Accepted
  <2> QED BY <1>a, <2>1, <2>2, ClaimsByNothing
<1>2. CASE Withdraw(r) \/ Finish(r)
  BY <1>a, <1>2, EndFrees, ClaimsByNothing DEF Withdraw, Finish, rows
<1>3. ASSUME NEW t \in Tokens, CreateSession(r, t) PROVE Claims'
  <2>1. requests[r].step = "issue" /\ Draw(requests[r], t) /\ UNCHANGED <<mfa, codes, challenges>>
    BY <1>3 DEF CreateSession, At
  <2>2. requests'[r].step = "audit"
    BY <1>3 DEF CreateSession, Set, Typed, TypeOK, Request
  <2>3. Free(Ticket(r)')
    BY <2>2, NextFields DEF Free, Accepted
  <2> QED BY <1>a, <2>1, <2>3, TokenClaims
<1>4. ASSUME NEW t \in Tokens, CreateStepUpProof(r, t) PROVE Claims'
  BY <1>a, <1>4, EndFrees, TokenClaims DEF CreateStepUpProof, At
<1> QED BY <1>1, <1>2, <1>3, <1>4 DEF Issue

LEMMA AdministerClaims ==
  ASSUME Typed, Typed', Merited, Claims, Grows, NEW r \in Requests, Administer(r) PROVE Claims'
<1> DEFINE q == requests[r]
<1>0. q \in Request /\ Earned(r) /\ Posed(r)
  BY DEF Typed, TypeOK, Merited
<1>a. UNCHANGED <<mfa, codes, basis>>
  BY DEF Administer, StepUp, Manage, ReadAgain, Read, StepUpCode, UpdateUserStatus, RevokeUserSessions, rows
<1>b. \A s \in Requests : s # r => requests'[s] = requests[s]
  BY OthersStay
<1> SUFFICES Free(Ticket(r)')
  BY <1>a, <1>b, ClaimsByNothing
<1> HIDE DEF q
<1>1. ASSUME NEW t \in Tokens, StepUp(r, t) \/ Manage(r, t) PROVE Free(Ticket(r)')
  <2>1. requests'[r].step \in {"read", "manage"} /\ requests'[r].counter = -1 /\ requests'[r].code = None
        /\ requests'[r].challenge = None
    <3>1. CASE StepUp(r, t)
      BY <3>1 DEF StepUp, Set, Idle, Typed, TypeOK
    <3>2. CASE Manage(r, t)
      BY <3>2 DEF Manage, Set, Idle, Typed, TypeOK
    <3> QED BY <1>1, <3>1, <3>2
  <2> QED BY <2>1, NextFields DEF Free, Accepted
<1>2. CASE ReadAgain(r)
  <2>1. q.step = "read" /\ requests'[r].step = "password" /\ requests'[r].counter = q.counter
        /\ requests'[r].code = q.code /\ requests'[r].challenge = q.challenge
    BY <1>0, <1>2 DEF ReadAgain, Read, At, Set, Typed, TypeOK, Request, q
  <2>2. q.code = None /\ q.challenge = None
    BY <1>0, <2>1 DEF Earned, Posed, q
  <2> QED BY <2>1, <2>2, NextFields DEF Free, Accepted
<1>3. CASE StepUpCode(r)
  <2>1. q.step = "code"
    BY <1>3 DEF StepUpCode, At, q
  <2>2. q.code = None /\ q.challenge = None
    BY <1>0, <2>1 DEF Earned, Posed, q
  <2>3. ASSUME NEW k \in ValidCounters(now), Set(r, [q EXCEPT !.step = "advance", !.at = now, !.counter = k])
        PROVE  Free(Ticket(r)')
    <3>1. requests'[r] = [q EXCEPT !.step = "advance", !.at = now, !.counter = k]
      BY <2>3 DEF Set, Typed, TypeOK
    <3>2. requests'[r].step = "advance" /\ requests'[r].code = q.code /\ requests'[r].challenge = q.challenge
      BY <1>0, <3>1 DEF Request
    <3> QED BY <2>2, <3>2, NextFields DEF Free, Accepted
  <2> QED BY <1>3, <2>3, EndFrees DEF StepUpCode, q
<1>4. CASE \E u \in Users : RevokeUserSessions(r, u) \/ \E s \in Status : UpdateUserStatus(r, u, s)
  BY <1>4, EndFrees DEF RevokeUserSessions, UpdateUserStatus
<1> QED BY <1>1, <1>2, <1>3, <1>4 DEF Administer, Status

LEMMA ClaimsStep == Typed /\ Merited /\ Claims /\ [Next]_vars => Claims'
<1> SUFFICES ASSUME Typed, Merited, Claims, [Next]_vars PROVE Claims'
  OBVIOUS
<1>0. Grows /\ Typed'
  BY RowsGrow, TypedStep
<1>1. ASSUME NEW r \in Requests, Password(r) \/ SecondFactor(r) \/ Issue(r) \/ Administer(r) PROVE Claims'
  BY <1>0, <1>1, PasswordClaims, SecondFactorClaims, IssueClaims, AdministerClaims
<1>2. CASE UNCHANGED <<mfa, codes, challenges, requests, basis>>
  <2>1. \A r \in Requests : Ticket(r)' = Ticket(r) /\ (Accepted(r)' <=> Accepted(r))
    BY <1>2 DEF Ticket, Accepted
  <2>2. \A t \in Tokens : basis[t] # None => Spent(basis[t])' /\ Enrolled(basis[t])'
    BY <1>2 DEF Claims, Spent, Enrolled
  <2>3. ASSUME NEW r \in Requests PROVE Spent(Ticket(r))' /\ (Accepted(r)' => Enrolled(Ticket(r))')
    <3>1. Spent(Ticket(r)) /\ (Accepted(r) => Enrolled(Ticket(r)))
      BY DEF Claims
    <3> QED BY <1>2, <2>1, <3>1 DEF Spent, Enrolled
  <2>4. FactorSpentOnce'
    BY <1>2 DEF Claims, FactorSpentOnce
  <2>5. (\A t \in Tokens, r \in Requests : basis[t] # None => Apart(basis[t], Ticket(r)))'
    BY <1>2, <2>1 DEF Claims
  <2>6. (\A r, s \in Requests : r # s => Apart(Ticket(r), Ticket(s)))'
    BY <2>1 DEF Claims
  <2> QED BY <1>2, <2>2, <2>3, <2>4, <2>5, <2>6 DEF Claims
<1>3. CASE \/ \E t \in Tokens : Logout(t)
           \/ \E u \in Users : Commit(u) \/ Rollback(u) \/ VerifyEmail(u)
           \/ Tick \/ UNCHANGED vars
  BY <1>2, <1>3 DEF Logout, Commit, Rollback, VerifyEmail, Tick, rows, vars
<1> QED BY <1>1, <1>3 DEF Next

LEMMA ClaimsInit == Init => Claims
<1> SUFFICES ASSUME Init PROVE Claims
  OBVIOUS
<1>1. \A r \in Requests : Free(Ticket(r)) /\ ~Accepted(r)
  BY DEF Init, Idle, Free, Ticket, Accepted
<1>2. \A t \in Tokens : basis[t] = None
  BY DEF Init
<1>3. \A u \in Users : codes[u] = {}
  BY DEF Init
<1> QED BY <1>1, <1>2, <1>3 DEF Claims, Free, Spent, Apart, FactorSpentOnce

LEMMA SpecClaims == Spec => []Claims
BY SpecMerited, ClaimsInit, ClaimsStep, PTL DEF Spec

(* No two tokens of an account ever rest on one TOTP step or recovery      *)
(* code, nor any two on one challenge, however requests interleave.        *)
THEOREM SpecFactorSpentOnce == Spec => []FactorSpentOnce
<1>1. Claims => FactorSpentOnce
  BY DEF Claims
<1> QED BY <1>1, SpecClaims, PTL

(* Of the enrolments of an account only the one whose secret is stored     *)
(* opened a session.                                                       *)
THEOREM SpecEnrolmentWins == Spec => []EnrolmentWins
<1>1. Claims => EnrolmentWins
  BY DEF Claims, Enrolled, EnrolmentWins
<1> QED BY <1>1, SpecClaims, PTL

----------------------------------------------------------------------------
(* What a step may never do to the rows of tokens and second factors.      *)

(* A token is drawn once, so nothing is inserted under it a second time.   *)
THEOREM SpecTokensEndForGood == Spec => TokensEndForGood
<1>1. ASSUME Typed, Merited, [Next]_vars, NEW t \in Tokens, basis[t] # None
      PROVE  sessions'[t] \in {sessions[t], None} /\ proofs'[t] \in {proofs[t], None}
  <2>1. ASSUME NEW T \in SUBSET Tokens, DeleteSessions(T)
        PROVE  sessions'[t] \in {sessions[t], None} /\ proofs'[t] \in {proofs[t], None}
    BY <2>1 DEF DeleteSessions
  <2>2. ASSUME NEW r \in Requests, NEW v \in Tokens, CreateSession(r, v)
        PROVE  sessions'[t] = sessions[t] /\ proofs'[t] = proofs[t]
    BY <1>1, <2>2 DEF CreateSession, Draw, Typed, TypeOK
  <2>3. ASSUME NEW r \in Requests, NEW v \in Tokens, CreateStepUpProof(r, v)
        PROVE  sessions'[t] = sessions[t] /\ proofs'[t] = proofs[t]
    BY <1>1, <2>3 DEF CreateStepUpProof, Draw, Typed, TypeOK
  <2> QED BY <1>1, <2>1, <2>2, <2>3, TokenSteps
<1>2. Typed /\ Merited /\ [Next]_vars =>
        \A t \in Tokens : basis[t] # None => /\ sessions'[t] \in {sessions[t], None}
                                             /\ proofs'[t] \in {proofs[t], None}
  BY <1>1
<1> QED BY <1>2, SpecMerited, PTL DEF Spec, TokensEndForGood

(* Recovery codes are handed out with the enrolment, and then only used.   *)
LEMMA CodesShrink ==
  ASSUME Typed, [Next]_vars, NEW u \in Users, mfa[u] # None
  PROVE  codes'[u] \subseteq codes[u]
<1>1. ASSUME NEW r \in Requests, NEW x \in Codes, ConsumeMFARecoveryCode(r, x)
      PROVE  codes'[u] \subseteq codes[u]
  BY <1>1 DEF ConsumeMFARecoveryCode, Typed, TypeOK
<1>2. ASSUME NEW r \in Requests, ConfirmMFA(r) PROVE codes'[u] = codes[u]
  BY <1>2 DEF ConfirmMFA, Typed, TypeOK
<1>3. ASSUME NEW r \in Requests, Password(r) PROVE codes' = codes
  BY <1>3 DEF Password, SignIn, Read, WrongPassword, RightPassword, ReadMFAConfiguration,
     CreateMFAChallenge, rows
<1>4. ASSUME NEW r \in Requests, SecondFactor(r), ~ConfirmMFA(r),
             ~\E x \in Codes : ConsumeMFARecoveryCode(r, x)
      PROVE  codes' = codes
  BY <1>4 DEF SecondFactor, ConsumeMFAChallenge, Recheck, ValidTOTP, WrongCode,
     AdvanceMFACounter, ReplayedCode, rows
<1>5. ASSUME NEW r \in Requests, Issue(r) \/ Administer(r) PROVE codes' = codes
  BY <1>5 DEF Issue, ClearAuthenticationFailures, Withdraw, Finish, CreateSession, CreateStepUpProof,
     Administer, StepUp, Manage, ReadAgain, Read, StepUpCode, UpdateUserStatus, RevokeUserSessions, rows
<1>6. ASSUME (\E t \in Tokens : Logout(t)) \/ (\E v \in Users : Commit(v) \/ Rollback(v) \/ VerifyEmail(v))
             \/ Tick \/ UNCHANGED vars
      PROVE  codes' = codes
  BY <1>6 DEF Logout, Commit, Rollback, VerifyEmail, Tick, rows, vars
<1> QED BY <1>1, <1>2, <1>3, <1>4, <1>5, <1>6 DEF Next

(* No sign-in under way, enrolment or step-up weakens a second factor that *)
(* is in place.                                                            *)
THEOREM SpecFactorStands == Spec => FactorStands
<1> DEFINE Factors ==
      \A u \in Users : mfa[u] # None =>
        /\ mfa'[u] # None /\ mfa'[u].secret = mfa[u].secret
        /\ mfa'[u].last >= mfa[u].last /\ codes'[u] \subseteq codes[u]
    Challenged ==
      \A c \in Challenges : challenges[c] # None =>
        /\ challenges'[c] # None /\ challenges'[c].user = challenges[c].user
        /\ challenges[c].consumed => challenges'[c].consumed
<1>1. Typed /\ [Next]_vars => Factors /\ Challenged
  BY RowsGrow, CodesShrink DEF Grows
<1> QED BY <1>1, SpecMerited, PTL DEF Spec, FactorStands

=============================================================================
