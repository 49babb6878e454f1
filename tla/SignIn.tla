------------------------------- MODULE SignIn -------------------------------
(***************************************************************************)
(* Signing in (internal/authn): passwords, lockout, the second factor of   *)
(* privileged accounts, sessions, step-up proofs, and the administrator    *)
(* who suspends an account or revokes its sessions meanwhile.              *)
(*                                                                         *)
(* A request is a handler under way: it reads, computes (bcrypt takes a    *)
(* while) and writes in separate statements, each of them an action.       *)
(* Finish ends it after any of them: refused without effect, a statement   *)
(* that failed, a reply lost after the commit, the process gone.           *)
(*                                                                         *)
(* A code is abstracted to what it is valid for: the time step it belongs  *)
(* to (TOTP), or its name (recovery code).  A secret is named by the       *)
(* challenge that carried it.  The time unit is the 30 s step of TOTP; 0   *)
(* stands for NULL.                                                        *)
(***************************************************************************)
EXTENDS Integers, FiniteSets

CONSTANTS
  Users, Admins, Auditors,  \* accounts, and those whose role is not user
  Requests,                 \* handlers under way at a time
  Tokens,                   \* random tokens of sessions and step-up proofs
  Challenges,               \* random tokens of MFA challenges
  Codes,                    \* recovery codes of an account (ten in the code)
  Threshold, Window, LockDuration, SessionTTL, ChallengeTTL, StepUpTTL,
  RequirePrivilegedMFA, RequireAdminStepUp,
  None,
  MaxTime                   \* bound on the clock

Time      == Nat
Status    == {"active", "suspended"}
Audience  == {"user", "privileged"}
Goal      == {"session", "challenge", "proof"}
Step      == {"idle", "password", "configure", "enroll", "challenge", "recheck", "factor", "confirm",
              "advance", "clear", "issue", "audit", "read", "code", "manage"}
Account   == [status : Status, verified : BOOLEAN, attempts : Nat, started : Time, until : Time]
MFA       == [secret : Challenges, last : Int]
Challenge == [user : Users, enrolling : BOOLEAN, expires : Time, consumed : BOOLEAN]
Session   == [user : Users, audience : Audience, expires : Time]
Proof     == [session : Tokens, user : Users, expires : Time]
Change    == [row : Account, present : SUBSET Tokens, ends : BOOLEAN]
Basis     == [user : Users, counter : Int, code : Codes \cup {None}, challenge : Challenges \cup {None}]
Request   == [step : Step, goal : Goal, user : Users \cup {None}, audience : Audience,
              admits : BOOLEAN, token : Tokens \cup {None}, challenge : Challenges \cup {None},
              at : Time, counter : Int, code : Codes \cup {None}]

ASSUME SignInAssumption ==
  /\ Admins \subseteq Users /\ Auditors \subseteq Users /\ Admins \cap Auditors = {}
  /\ {Threshold, Window, LockDuration, SessionTTL, ChallengeTTL, StepUpTTL} \subseteq Nat \ {0}
  /\ {RequirePrivilegedMFA, RequireAdminStepUp} \subseteq BOOLEAN
  /\ MaxTime \in Nat

ASSUME NoneAssumption ==
  /\ None \notin Tokens /\ None \notin Challenges /\ None \notin Codes /\ None \notin Users
  /\ None \notin MFA /\ None \notin Challenge /\ None \notin Session /\ None \notin Proof
  /\ None \notin Change /\ None \notin Basis

VARIABLES
  account,     \* rows of securestore_users
  mfa,         \* rows of securestore_user_mfa, or None
  codes,       \* unused recovery codes of an account
  challenges,  \* rows of securestore_mfa_challenges, or None
  sessions,    \* rows of securestore_sessions, or None
  proofs,      \* rows of securestore_step_up_proofs, or None
  change,      \* the transaction on an account's row under way: what it writes,
               \* the sessions its DELETE can see, and whether it deletes them
  requests,
  now,
  basis,       \* what a token was issued on, None while it is not drawn
  doomed       \* sessions that existed when their user's row was committed suspended

rows == <<account, mfa, codes, challenges, sessions, proofs>>
vars == <<rows, change, requests, now, basis, doomed>>

Role(u) == IF u \in Admins THEN "admin" ELSE IF u \in Auditors THEN "auditor" ELSE "user"
roleAllowedForAudience(u, audience) ==
  audience = IF Role(u) = "user" THEN "user" ELSE "privileged"

Idle == [step |-> "idle", goal |-> "session", user |-> None, audience |-> "user",
         admits |-> FALSE, token |-> None, challenge |-> None,
         at |-> 0, counter |-> -1, code |-> None]

(* Privileged accounts come verified from their invitation.                *)
NewAccount(u) ==
  [status |-> "active", verified |-> Role(u) # "user",
   attempts |-> 0, started |-> 0, until |-> 0]

Init ==
  /\ account = [u \in Users |-> NewAccount(u)]
  /\ mfa = [u \in Users |-> None] /\ codes = [u \in Users |-> {}]
  /\ challenges = [c \in Challenges |-> None]
  /\ sessions = [t \in Tokens |-> None] /\ proofs = [t \in Tokens |-> None]
  /\ change = [u \in Users |-> None]
  /\ requests = [r \in Requests |-> Idle]
  /\ now = 1 /\ basis = [t \in Tokens |-> None] /\ doomed = {}

----------------------------------------------------------------------------
(* Queries.                                                                *)
Locked(u)    == account[u].until > now
Open(u)      == account[u].status = "active" /\ ~Locked(u)
SessionsOf(u) == {t \in Tokens : sessions[t] # None /\ sessions[t].user = u}
Usable(t) ==
  /\ sessions[t] # None /\ sessions[t].expires > now
  /\ account[sessions[t].user].verified /\ account[sessions[t].user].status = "active"
StepUpProofValid(p, t) ==
  /\ proofs[p] # None /\ sessions[t] # None
  /\ proofs[p].session = t /\ proofs[p].user = sessions[t].user
  /\ proofs[p].expires > now /\ sessions[t].expires > now
RowFree(u) == change[u] = None

(* Statements.                                                             *)
(* Mutant: no cascade to the proofs.                                       *)
DeleteSessionsAlone(T) ==
  /\ sessions' = [t \in Tokens |-> IF t \in T THEN None ELSE sessions[t]]
  /\ UNCHANGED proofs

DeleteSessions(T) ==
  /\ sessions' = [t \in Tokens |-> IF t \in T THEN None ELSE sessions[t]]
  /\ proofs' = [p \in Tokens |-> IF proofs[p] # None /\ proofs[p].session \in T
                                 THEN None ELSE proofs[p]]

Counted(a, at) ==
  LET renewed == a.started = 0 \/ a.started <= at - Window
      n       == IF renewed THEN 1 ELSE a.attempts + 1
  IN  [a EXCEPT !.attempts = n,
                !.started  = IF renewed THEN at ELSE a.started,
                !.until    = IF n >= Threshold THEN at + LockDuration ELSE a.until]

(* A transaction on the account's row: what it deletes are the sessions it *)
(* finds; one that is opened before its commit is not among them.          *)
Begin(u, row, ends) ==
  /\ RowFree(u)
  /\ change' = [change EXCEPT ![u] = [row |-> row, present |-> SessionsOf(u), ends |-> ends]]

RecordAuthenticationFailure(u, at) ==
  Begin(u, Counted(account[u], at), Counted(account[u], at).until > at)

Commit(u) ==
  /\ ~RowFree(u)
  /\ account' = [account EXCEPT ![u] = change[u].row]
  /\ DeleteSessions(IF change[u].ends THEN change[u].present ELSE {})
  /\ change' = [change EXCEPT ![u] = None]
  /\ doomed' = IF change[u].row.status = "suspended" THEN doomed \cup SessionsOf(u) ELSE doomed
  /\ UNCHANGED <<mfa, codes, challenges, requests, now, basis>>

Rollback(u) ==
  /\ ~RowFree(u) /\ change' = [change EXCEPT ![u] = None]
  /\ UNCHANGED <<rows, requests, now, basis, doomed>>

Cleared(a) == [a EXCEPT !.attempts = 0, !.started = 0, !.until = 0]

Set(r, q)  == requests' = [requests EXCEPT ![r] = q]
At(r, s)   == requests[r].step = s
Goto(r, s) == Set(r, [requests[r] EXCEPT !.step = s])

----------------------------------------------------------------------------
(* verifyCredentials: the account's row is read, the password compared.    *)
(* On a row that is suspended or locked nothing comes of either outcome.   *)
(* Mutant: the verification of the address is not checked.                 *)
ReadUnverified(r, q) ==
  /\ Open(q.user)
  /\ Set(r, [q EXCEPT !.step = "password",
                      !.admits = roleAllowedForAudience(q.user, q.audience)])
  /\ UNCHANGED <<rows, change, now, basis, doomed>>

Read(r, q) ==
  /\ Open(q.user)
  /\ Set(r, [q EXCEPT !.step = "password",
                      !.admits = /\ account[q.user].verified
                                 /\ roleAllowedForAudience(q.user, q.audience)])
  /\ UNCHANGED <<rows, change, now, basis, doomed>>

SignIn(r, u, audience) ==
  /\ At(r, "idle")
  /\ Read(r, [Idle EXCEPT !.user = u, !.audience = audience,
                !.goal = IF audience = "privileged" /\ RequirePrivilegedMFA
                         THEN "challenge" ELSE "session"])

WrongPassword(r) ==
  /\ At(r, "password") /\ RecordAuthenticationFailure(requests[r].user, now)
  /\ Set(r, Idle)
  /\ UNCHANGED <<rows, now, basis, doomed>>

AfterPassword(goal) ==
  CASE goal = "session" -> "clear" [] goal = "challenge" -> "configure" [] goal = "proof" -> "code"

RightPassword(r) ==
  /\ At(r, "password") /\ requests[r].admits
  /\ Goto(r, AfterPassword(requests[r].goal))
  /\ UNCHANGED <<rows, change, now, basis, doomed>>

(* BeginPrivilegedLogin: an account without a second factor gets a secret  *)
(* to enrol with its challenge.                                            *)
ReadMFAConfiguration(r) ==
  /\ At(r, "configure")
  /\ Goto(r, IF mfa[requests[r].user] = None THEN "enroll" ELSE "challenge")
  /\ UNCHANGED <<rows, change, now, basis, doomed>>

CreateMFAChallenge(r, c) ==
  /\ requests[r].step \in {"enroll", "challenge"} /\ challenges[c] = None
  /\ challenges' = [challenges EXCEPT ![c] =
       [user |-> requests[r].user, enrolling |-> At(r, "enroll"),
        expires |-> now + ChallengeTTL, consumed |-> FALSE]]
  /\ Set(r, Idle)
  /\ UNCHANGED <<account, mfa, codes, sessions, proofs, change, now, basis, doomed>>

----------------------------------------------------------------------------
(* CompletePrivilegedLogin.                                                *)
Consumable(c) == ~challenges[c].consumed /\ challenges[c].expires > now

ConsumeMFAChallenge(r, c) ==
  /\ At(r, "idle") /\ RequirePrivilegedMFA
  /\ challenges[c] # None /\ Consumable(c)
  /\ challenges' = [challenges EXCEPT ![c].consumed = TRUE]
  /\ LET u == challenges[c].user IN
     IF account[u].status = "active" /\ Role(u) # "user"
     THEN Set(r, [Idle EXCEPT !.step = "recheck", !.user = u, !.audience = "privileged",
                              !.challenge = c, !.at = now])
     ELSE Set(r, Idle)
  /\ UNCHANGED <<account, mfa, codes, sessions, proofs, change, now, basis, doomed>>

(* The row is read again, then the configuration; a lock that expired since*)
(* the request began still refuses it.                                     *)
Recheck(r) ==
  LET u == requests[r].user IN
  /\ At(r, "recheck") /\ account[u].status = "active" /\ account[u].until <= requests[r].at
  /\ challenges[requests[r].challenge].enrolling \/ mfa[u] # None
  /\ Goto(r, "factor")
  /\ UNCHANGED <<rows, change, now, basis, doomed>>

(* validateTOTP: the codes of this step and of its neighbours are valid.   *)
ValidCounters(at) == {at - 1, at, at + 1}

ValidTOTP(r) ==
  LET q == requests[r] IN
  /\ At(r, "factor")
  /\ \E k \in ValidCounters(q.at) :
       Set(r, [q EXCEPT !.counter = k,
                 !.step = IF challenges[q.challenge].enrolling THEN "confirm" ELSE "advance"])
  /\ UNCHANGED <<rows, change, now, basis, doomed>>

ConsumeMFARecoveryCode(r, x) ==
  LET q == requests[r] IN
  /\ At(r, "factor") /\ ~challenges[q.challenge].enrolling
  /\ x \in codes[q.user]
  /\ codes' = [codes EXCEPT ![q.user] = @ \ {x}]
  /\ Set(r, [q EXCEPT !.code = x, !.step = "clear"])
  /\ UNCHANGED <<account, mfa, challenges, sessions, proofs, change, now, basis, doomed>>

WrongCode(r) ==
  /\ At(r, "factor") /\ RecordAuthenticationFailure(requests[r].user, requests[r].at)
  /\ Set(r, Idle)
  /\ UNCHANGED <<rows, now, basis, doomed>>

(* Mutant: the outcome of the insert is not looked at.                     *)
ConfirmUnchecked(r) ==
  LET q == requests[r] IN
  /\ At(r, "confirm")
  /\ IF mfa[q.user] = None
     THEN /\ mfa' = [mfa EXCEPT ![q.user] = [secret |-> q.challenge, last |-> q.counter]]
          /\ codes' = [codes EXCEPT ![q.user] = Codes]
     ELSE UNCHANGED <<mfa, codes>>
  /\ Goto(r, "clear")
  /\ UNCHANGED <<account, challenges, sessions, proofs, change, now, basis, doomed>>

(* The first enrolment confirmed stands; another one is refused.           *)
ConfirmMFA(r) ==
  LET q == requests[r] IN
  /\ At(r, "confirm") /\ mfa[q.user] = None
  /\ mfa' = [mfa EXCEPT ![q.user] = [secret |-> q.challenge, last |-> q.counter]]
  /\ codes' = [codes EXCEPT ![q.user] = Codes]
  /\ Goto(r, "clear")
  /\ UNCHANGED <<account, challenges, sessions, proofs, change, now, basis, doomed>>

(* Mutant: the time step last used is accepted again.                      *)
AdvanceInclusive(r) ==
  LET q == requests[r] IN
  /\ At(r, "advance") /\ mfa[q.user].last <= q.counter
  /\ mfa' = [mfa EXCEPT ![q.user].last = q.counter]
  /\ Goto(r, "clear")
  /\ UNCHANGED <<account, codes, challenges, sessions, proofs, change, now, basis, doomed>>

(* A code of a time step that was used, or of an earlier one, is refused.  *)
AdvanceMFACounter(r) ==
  LET q == requests[r] IN
  /\ At(r, "advance") /\ mfa[q.user].last < q.counter
  /\ mfa' = [mfa EXCEPT ![q.user].last = q.counter]
  /\ Goto(r, "clear")
  /\ UNCHANGED <<account, codes, challenges, sessions, proofs, change, now, basis, doomed>>

ReplayedCode(r) ==
  LET q == requests[r] IN
  /\ At(r, "advance") /\ mfa[q.user].last >= q.counter
  /\ RecordAuthenticationFailure(q.user, q.at)
  /\ Set(r, Idle)
  /\ UNCHANGED <<rows, now, basis, doomed>>

----------------------------------------------------------------------------
(* What an accepted request ends with.                                     *)
ClearAuthenticationFailures(r) ==
  LET u == requests[r].user IN
  /\ At(r, "clear") /\ RowFree(u)
  /\ account' = [account EXCEPT ![u] = Cleared(@)]
  /\ Goto(r, "issue")
  /\ UNCHANGED <<mfa, codes, challenges, sessions, proofs, change, now, basis, doomed>>

Draw(q, t) ==
  /\ basis[t] = None
  /\ basis' = [basis EXCEPT ![t] = [user |-> q.user, counter |-> q.counter,
                                    code |-> q.code, challenge |-> q.challenge]]

CreateSession(r, t) ==
  LET q == requests[r] IN
  /\ At(r, "issue") /\ q.goal = "session" /\ Draw(q, t)
  /\ sessions' = [sessions EXCEPT ![t] =
       [user |-> q.user, audience |-> q.audience, expires |-> now + SessionTTL]]
  /\ Set(r, [q EXCEPT !.step = "audit", !.token = t])
  /\ UNCHANGED <<account, mfa, codes, challenges, proofs, change, now, doomed>>

(* The audit event could not be appended: the session is withdrawn.        *)
Withdraw(r) ==
  /\ At(r, "audit") /\ DeleteSessions({requests[r].token})
  /\ Set(r, Idle)
  /\ UNCHANGED <<account, mfa, codes, challenges, change, now, basis, doomed>>

Logout(t) ==
  /\ Usable(t) /\ DeleteSessions({t})
  /\ UNCHANGED <<account, mfa, codes, challenges, change, requests, now, basis, doomed>>

Finish(r) ==
  /\ ~At(r, "idle") /\ Set(r, Idle)
  /\ UNCHANGED <<rows, change, now, basis, doomed>>

----------------------------------------------------------------------------
(* CreateStepUpProof: password and TOTP once more, for one session.        *)
StepUp(r, t) ==
  /\ At(r, "idle") /\ Usable(t)
  /\ sessions[t].audience = "privileged" /\ Role(sessions[t].user) = "admin"
  /\ Set(r, [Idle EXCEPT !.step = "read", !.goal = "proof", !.audience = "privileged",
                         !.user = sessions[t].user, !.token = t])
  /\ UNCHANGED <<rows, change, now, basis, doomed>>

ReadAgain(r) == At(r, "read") /\ Read(r, requests[r])

StepUpCode(r) ==
  LET q == requests[r] IN
  /\ At(r, "code") /\ mfa[q.user] # None
  /\ \/ /\ \E k \in ValidCounters(now) :
             Set(r, [q EXCEPT !.step = "advance", !.at = now, !.counter = k])
        /\ UNCHANGED change
     \/ /\ RecordAuthenticationFailure(q.user, now)
        /\ Set(r, Idle)
  /\ UNCHANGED <<rows, now, basis, doomed>>

(* The proof refers to its session's row: it fails once that is deleted,   *)
(* and waits for a transaction that is deleting it.                        *)
CreateStepUpProof(r, p) ==
  LET q == requests[r] IN
  /\ At(r, "issue") /\ q.goal = "proof" /\ Draw(q, p)
  /\ sessions[q.token] # None
  /\ \A u \in Users : change[u] # None => ~(change[u].ends /\ q.token \in change[u].present)
  /\ proofs' = [proofs EXCEPT ![p] =
       [session |-> q.token, user |-> q.user, expires |-> q.at + StepUpTTL]]
  /\ Set(r, Idle)
  /\ UNCHANGED <<account, mfa, codes, challenges, sessions, change, now, doomed>>

----------------------------------------------------------------------------
(* Administration: requireAdminMutation, then a transaction.               *)
Manage(r, t) ==
  /\ At(r, "idle") /\ Usable(t)
  /\ sessions[t].audience = "privileged" /\ Role(sessions[t].user) = "admin"
  /\ RequireAdminStepUp => \E p \in Tokens : StepUpProofValid(p, t)
  /\ Set(r, [Idle EXCEPT !.step = "manage", !.user = sessions[t].user])
  /\ UNCHANGED <<rows, change, now, basis, doomed>>

Updated(a, status) ==
  [(IF status = "active" THEN Cleared(a) ELSE a) EXCEPT !.status = status]

(* Mutant: only a suspension deletes the sessions.                         *)
UpdateDeletesOnSuspension(r, u, status) ==
  /\ At(r, "manage") /\ u # requests[r].user
  /\ Begin(u, Updated(account[u], status), status = "suspended")
  /\ Set(r, Idle)
  /\ UNCHANGED <<rows, now, basis, doomed>>

UpdateUserStatus(r, u, status) ==
  /\ At(r, "manage") /\ u # requests[r].user
  /\ Begin(u, Updated(account[u], status), TRUE)
  /\ Set(r, Idle)
  /\ UNCHANGED <<rows, now, basis, doomed>>

RevokeUserSessions(r, u) ==
  /\ At(r, "manage") /\ u # requests[r].user
  /\ DeleteSessions(SessionsOf(u))
  /\ Set(r, Idle)
  /\ UNCHANGED <<account, mfa, codes, challenges, change, now, basis, doomed>>

(* ConsumeVerificationToken, seen from here.                               *)
VerifyEmail(u) ==
  /\ ~account[u].verified /\ RowFree(u)
  /\ account' = [account EXCEPT ![u].verified = TRUE]
  /\ UNCHANGED <<mfa, codes, challenges, sessions, proofs, change, requests, now, basis, doomed>>

Tick ==
  /\ now < MaxTime /\ now' = now + 1
  /\ UNCHANGED <<rows, change, requests, basis, doomed>>

----------------------------------------------------------------------------
Password(r) ==
  \/ \E u \in Users, a \in {"user", "privileged"} : SignIn(r, u, a)
  \/ WrongPassword(r) \/ RightPassword(r)
  \/ ReadMFAConfiguration(r) \/ \E c \in Challenges : CreateMFAChallenge(r, c)

SecondFactor(r) ==
  \/ \E c \in Challenges : ConsumeMFAChallenge(r, c)
  \/ Recheck(r) \/ ValidTOTP(r) \/ WrongCode(r)
  \/ \E x \in Codes : ConsumeMFARecoveryCode(r, x)
  \/ ConfirmMFA(r) \/ AdvanceMFACounter(r) \/ ReplayedCode(r)

Issue(r) ==
  \/ ClearAuthenticationFailures(r) \/ Withdraw(r) \/ Finish(r)
  \/ \E t \in Tokens : CreateSession(r, t) \/ CreateStepUpProof(r, t)

Administer(r) ==
  \/ \E t \in Tokens : StepUp(r, t) \/ Manage(r, t)
  \/ ReadAgain(r) \/ StepUpCode(r)
  \/ \E u \in Users : \/ \E s \in {"active", "suspended"} : UpdateUserStatus(r, u, s)
                      \/ RevokeUserSessions(r, u)

Next ==
  \/ \E r \in Requests : Password(r) \/ SecondFactor(r) \/ Issue(r) \/ Administer(r)
  \/ \E t \in Tokens : Logout(t)
  \/ \E u \in Users : Commit(u) \/ Rollback(u) \/ VerifyEmail(u)
  \/ Tick

Spec == Init /\ [][Next]_vars
----------------------------------------------------------------------------
TypeOK ==
  /\ account \in [Users -> Account] /\ mfa \in [Users -> MFA \cup {None}]
  /\ codes \in [Users -> SUBSET Codes] /\ challenges \in [Challenges -> Challenge \cup {None}]
  /\ sessions \in [Tokens -> Session \cup {None}] /\ proofs \in [Tokens -> Proof \cup {None}]
  /\ change \in [Users -> Change \cup {None}] /\ requests \in [Requests -> Request]
  /\ now \in Nat \ {0} /\ basis \in [Tokens -> Basis \cup {None}] /\ doomed \subseteq Tokens

(* Everything that opens a session once is spent: no two tokens, be they   *)
(* sessions or step-up proofs, ever rested on the same TOTP step or        *)
(* recovery code of an account, nor two sessions on the same challenge,    *)
(* however the requests that presented it interleave (AdvanceMFACounter,   *)
(* ConfirmMFA, ConsumeMFARecoveryCode, ConsumeMFAChallenge).               *)
Apart(b, d) ==
  /\ b.user = d.user => /\ b.counter >= 0 => b.counter # d.counter
                        /\ b.code # None => b.code # d.code
  /\ b.challenge # None => b.challenge # d.challenge

FactorSpentOnce ==
  \A t, v \in Tokens : t # v /\ basis[t] # None /\ basis[v] # None => Apart(basis[t], basis[v])

(* Of several enrolments under way only the one whose secret was stored    *)
(* opens a session (ConfirmMFA and its ON CONFLICT DO NOTHING).            *)
EnrolmentWins ==
  \A t \in Tokens :
    LET b == basis[t] IN
    b # None => (b.challenge # None => (challenges[b.challenge].enrolling =>
      mfa[b.user] # None /\ mfa[b.user].secret = b.challenge))

(* A session that existed when a suspension took effect is not usable ever *)
(* again, also after the account is reactivated, and whatever sign-in was  *)
(* under way (updateUserStatusAndDeleteSessions, SessionByHash).           *)
SuspensionEndsSessions == \A t \in doomed : ~Usable(t)

(* A step-up proof exists while its session does, for the same             *)
(* administrator, and rests on a TOTP code, never on a recovery code       *)
(* (CreateStepUpProof, the cascade of securestore_step_up_proofs).         *)
ProofBound ==
  \A p \in Tokens :
    LET q == proofs[p] IN
    q # None => /\ sessions[q.session] # None
                /\ sessions[q.session].user = q.user /\ sessions[q.session].audience = "privileged"
                /\ Role(q.user) = "admin" /\ basis[p].counter >= 0

(* A session's audience fits its user's role; where MFA is required, a     *)
(* privileged session rests on a second factor; its user is verified       *)
(* (verifyCredentials, BeginPrivilegedLogin, CompletePrivilegedLogin).     *)
SessionEarned ==
  \A t \in Tokens :
    LET s == sessions[t] IN
    s # None =>
      /\ roleAllowedForAudience(s.user, s.audience) /\ account[s.user].verified
      /\ s.audience = "privileged" /\ RequirePrivilegedMFA
           => basis[t].counter >= 0 \/ basis[t].code # None

(* A session or a step-up proof that was deleted never comes back, and one *)
(* that exists is not prolonged, handed to another account or raised to    *)
(* another audience: also when its deletion races the request that issues  *)
(* it (CreateSession, Withdraw, CreateStepUpProof, DeleteSessions).        *)
TokensEndForGood ==
  [][\A t \in Tokens : basis[t] # None => /\ sessions'[t] \in {sessions[t], None}
                                          /\ proofs'[t] \in {proofs[t], None}]_vars

(* A second factor, once enrolled, keeps its secret; what it has accepted, *)
(* it has accepted for good: its counter does not fall, no recovery code   *)
(* and no challenge becomes usable again (ConfirmMFA, AdvanceMFACounter,   *)
(* ConsumeMFARecoveryCode, ConsumeMFAChallenge).                           *)
FactorStands ==
  [][/\ \A u \in Users : mfa[u] # None =>
          /\ mfa'[u] # None /\ mfa'[u].secret = mfa[u].secret
          /\ mfa'[u].last >= mfa[u].last /\ codes'[u] \subseteq codes[u]
     /\ \A c \in Challenges : challenges[c] # None =>
          /\ challenges'[c] # None /\ challenges'[c].user = challenges[c].user
          /\ challenges[c].consumed => challenges'[c].consumed]_vars
=============================================================================
