------------------------------ MODULE Accounts ------------------------------
(***************************************************************************)
(* How accounts come about (internal/authn): a public registration and the *)
(* verification of its address by a mailed link, which can be sent again;  *)
(* an administrator's invitation and its activation for privileged roles.  *)
(* Who may invite is SignIn's Manage; here it is any request.              *)
(*                                                                         *)
(* Resending and verifying lock the same two rows in opposite order: the   *)
(* link's and the account's.  PostgreSQL then fails one of them, which is  *)
(* Finish here, like every other failed statement, lost mail or stopped    *)
(* process: it ends the request and releases what it holds.                *)
(***************************************************************************)
EXTENDS Naturals

CONSTANTS
  Emails,          \* addresses: an account is named by its own
  Founders,        \* accounts that were privileged before any invitation
  Requests, Links, Invitations,
  VerificationTTL, MinResend,
  None,
  MaxTime          \* bound on the clock

Privileged == {"admin", "auditor"}
LinkState  == {"undrawn", "live", "consumed", "deleted"}
Account    == [role : Privileged \cup {"user"}, verified : BOOLEAN, sent : Nat]
Link       == [state : LinkState, email : Emails \cup {None}, expires : Nat]
Invitation == [state : {"undrawn", "pending", "accepted"}, email : Emails \cup {None},
               role : Privileged, expires : Nat]
Step       == {"idle", "replace", "locked", "claimed", "invite", "deliver"}
Request    == [step : Step, email : Emails \cup {None}, role : Privileged,
               link : Links \cup Invitations \cup {None}, at : Nat]

ASSUME AccountsAssumption ==
  /\ Founders \subseteq Emails
  /\ Links \cap Invitations = {}
  /\ None \notin Emails \cup Links \cup Invitations /\ None \notin Account
  /\ VerificationTTL \in Nat /\ MinResend \in Nat \ {0} /\ MaxTime \in Nat

VARIABLES
  user,        \* rows of securestore_users by address, or None
  link,        \* rows of securestore_email_verification_tokens
  invitation,  \* rows of securestore_privileged_invitations
  mailbox,     \* links that reached their address
  requests,
  now

vars == <<user, link, invitation, mailbox, requests, now>>

Idle == [step |-> "idle", email |-> None, role |-> "admin", link |-> None, at |-> 0]

Init ==
  /\ user = [e \in Emails |-> IF e \in Founders
                              THEN [role |-> "admin", verified |-> TRUE, sent |-> 0] ELSE None]
  /\ link = [l \in Links |-> [state |-> "undrawn", email |-> None, expires |-> 0]]
  /\ invitation = [i \in Invitations |->
       [state |-> "undrawn", email |-> None, role |-> "admin", expires |-> 0]]
  /\ mailbox = {} /\ requests = [r \in Requests |-> Idle] /\ now = 1

Set(r, q) == requests' = [requests EXCEPT ![r] = q]
At(r, s)  == requests[r].step = s

Live(e) == {l \in Links : link[l].state = "live" /\ link[l].email = e}
UserLocked(e)  == \E r \in Requests : At(r, "locked") /\ requests[r].email = e
LinkLocked(l)  == \E r \in Requests : At(r, "claimed") /\ requests[r].link = l
NewLink(e, at) == [state |-> "live", email |-> e, expires |-> at + VerificationTTL]

----------------------------------------------------------------------------
(* Registration; a duplicate address changes nothing.                      *)
Register(r, e, l) ==
  /\ At(r, "idle") /\ user[e] = None /\ link[l].state = "undrawn"
  /\ user' = [user EXCEPT ![e] = [role |-> "user", verified |-> FALSE, sent |-> now]]
  /\ link' = [link EXCEPT ![l] = NewLink(e, now)]
  /\ Set(r, [Idle EXCEPT !.step = "deliver", !.email = e, !.link = l])
  /\ UNCHANGED <<invitation, mailbox, now>>

Deliver(r) ==
  /\ At(r, "deliver") /\ mailbox' = mailbox \cup {requests[r].link}
  /\ Set(r, Idle)
  /\ UNCHANGED <<user, link, invitation, now>>

Finish(r) ==
  /\ ~At(r, "idle") /\ Set(r, Idle)
  /\ UNCHANGED <<user, link, invitation, mailbox, now>>

(* Resending: the account is read, then read again under its lock.         *)
ResendVerification(r, e) ==
  /\ At(r, "idle") /\ user[e] # None /\ ~user[e].verified
  /\ Set(r, [Idle EXCEPT !.step = "replace", !.email = e, !.at = now])
  /\ UNCHANGED <<user, link, invitation, mailbox, now>>

Replaceable(u, at) == ~u.verified /\ at >= u.sent + MinResend

(* Mutant: the conditions are not looked at again under the lock.          *)
LockOnly(r) ==
  LET q == requests[r] IN
  /\ At(r, "replace") /\ ~UserLocked(q.email)
  /\ Set(r, [q EXCEPT !.step = "locked"])
  /\ UNCHANGED <<user, link, invitation, mailbox, now>>

LockUser(r) ==
  LET q == requests[r] IN
  /\ At(r, "replace") /\ ~UserLocked(q.email) /\ Replaceable(user[q.email], q.at)
  /\ Set(r, [q EXCEPT !.step = "locked"])
  /\ UNCHANGED <<user, link, invitation, mailbox, now>>

(* The deletion waits for whoever has claimed one of the links; what the   *)
(* transaction then writes is seen by others at its commit.                *)
ReplaceVerificationToken(r, l) ==
  LET q == requests[r] IN
  /\ At(r, "locked") /\ link[l].state = "undrawn"
  /\ \A k \in Live(q.email) : ~LinkLocked(k)
  /\ link' = [k \in Links |-> IF k = l THEN NewLink(q.email, q.at)
                              ELSE IF k \in Live(q.email) THEN [link[k] EXCEPT !.state = "deleted"]
                              ELSE link[k]]
  /\ user' = [user EXCEPT ![q.email].sent = q.at]
  /\ Set(r, [Idle EXCEPT !.step = "deliver", !.email = q.email, !.link = l])
  /\ UNCHANGED <<invitation, mailbox, now>>

(* ConsumeVerificationToken: one statement, which locks the link's row,    *)
(* then the account's.  An account verified already would stay as it is.   *)
ClaimLink(r, l) ==
  /\ At(r, "idle") /\ l \in mailbox
  /\ link[l].state = "live" /\ link[l].expires > now /\ ~LinkLocked(l)
  /\ Set(r, [Idle EXCEPT !.step = "claimed", !.email = link[l].email, !.link = l])
  /\ UNCHANGED <<user, link, invitation, mailbox, now>>

(* Mutant: the link's row alone is updated.                                *)
ConsumeOnly(r) ==
  LET q == requests[r] IN
  /\ At(r, "claimed") /\ ~UserLocked(q.email)
  /\ link' = [link EXCEPT ![q.link].state = "consumed"]
  /\ Set(r, Idle)
  /\ UNCHANGED <<user, invitation, mailbox, now>>

ConsumeVerificationToken(r) ==
  LET q == requests[r] IN
  /\ At(r, "claimed") /\ ~UserLocked(q.email)
  /\ link' = [link EXCEPT ![q.link].state = "consumed"]
  /\ user' = [user EXCEPT ![q.email].verified = TRUE]
  /\ Set(r, Idle)
  /\ UNCHANGED <<invitation, mailbox, now>>

----------------------------------------------------------------------------
(* Invitations.  The index allows one per address that is not accepted.    *)
InvitePrivilegedAccount(r, e, role) ==
  /\ At(r, "idle") /\ user[e] = None
  /\ Set(r, [Idle EXCEPT !.step = "invite", !.email = e, !.role = role, !.at = now])
  /\ UNCHANGED <<user, link, invitation, mailbox, now>>

CreatePrivilegedInvitation(r, i) ==
  LET q == requests[r] IN
  /\ At(r, "invite") /\ invitation[i].state = "undrawn"
  /\ \A j \in Invitations : ~(invitation[j].state = "pending" /\ invitation[j].email = q.email)
  /\ invitation' = [invitation EXCEPT ![i] =
       [state |-> "pending", email |-> q.email, role |-> q.role, expires |-> q.at + VerificationTTL]]
  /\ Set(r, [Idle EXCEPT !.step = "deliver", !.email = q.email, !.link = i])
  /\ UNCHANGED <<user, link, mailbox, now>>

(* Mutant: the invitation is accepted, its account refused.                *)
AcceptSeparately(i) ==
  LET v == invitation[i] IN
  /\ i \in mailbox /\ v.state = "pending" /\ v.expires > now
  /\ invitation' = [invitation EXCEPT ![i].state = "accepted"]
  /\ user' = IF user[v.email] = None
             THEN [user EXCEPT ![v.email] = [role |-> v.role, verified |-> TRUE, sent |-> 0]] ELSE user
  /\ UNCHANGED <<link, mailbox, requests, now>>

(* One transaction: where the address has an account by now, none of it.   *)
AcceptPrivilegedInvitation(i) ==
  LET v == invitation[i] IN
  /\ i \in mailbox /\ v.state = "pending" /\ v.expires > now /\ user[v.email] = None
  /\ invitation' = [invitation EXCEPT ![i].state = "accepted"]
  /\ user' = [user EXCEPT ![v.email] = [role |-> v.role, verified |-> TRUE, sent |-> 0]]
  /\ UNCHANGED <<link, mailbox, requests, now>>

Tick == now < MaxTime /\ now' = now + 1 /\ UNCHANGED <<user, link, invitation, mailbox, requests>>

(* The handlers, each with all its steps; the links they send are Deliver. *)
RegisterAccount(r) == \E e \in Emails, l \in Links : Register(r, e, l)

Resend(r) ==
  \/ \E e \in Emails : ResendVerification(r, e)
  \/ LockUser(r)
  \/ \E l \in Links : ReplaceVerificationToken(r, l)

VerifyEmail(r) == (\E l \in Links : ClaimLink(r, l)) \/ ConsumeVerificationToken(r)

Invite(r) ==
  \/ \E e \in Emails, role \in Privileged : InvitePrivilegedAccount(r, e, role)
  \/ \E i \in Invitations : CreatePrivilegedInvitation(r, i)

ActivatePrivilegedAccount == \E i \in Invitations : AcceptPrivilegedInvitation(i)

Next ==
  \/ \E r \in Requests : \/ RegisterAccount(r) \/ Resend(r) \/ VerifyEmail(r) \/ Invite(r)
                         \/ Deliver(r) \/ Finish(r)
  \/ ActivatePrivilegedAccount
  \/ Tick

Spec == Init /\ [][Next]_vars

----------------------------------------------------------------------------
TypeOK ==
  /\ user \in [Emails -> Account \cup {None}] /\ link \in [Links -> Link]
  /\ invitation \in [Invitations -> Invitation] /\ mailbox \subseteq Links \cup Invitations
  /\ requests \in [Requests -> Request] /\ now \in Nat

(* An account has one live link at most, links sent again replacing the    *)
(* ones before also when several are requested at once, and a verified one *)
(* has none: none survives, and none is sent to an account that was        *)
(* verified while its resend was under way (ReplaceVerificationToken,      *)
(* ConsumeVerificationToken).                                              *)
OneLiveLink ==
  \A e \in Emails : /\ \A k, l \in Live(e) : k = l
                   /\ user[e] # None /\ user[e].verified => Live(e) = {}

(* A consumed link and the verification of its account come together, and  *)
(* a standard account is verified by exactly one link (the CTE of          *)
(* ConsumeVerificationToken).                                              *)
Consumed(e) == {l \in Links : link[l].state = "consumed" /\ link[l].email = e}

VerifiedByOneLink ==
  \A e \in Emails :
    /\ \A k, l \in Consumed(e) : k = l
    /\ Consumed(e) # {} <=> user[e] # None /\ user[e].role = "user" /\ user[e].verified

(* An accepted invitation has its account, with its role; a privileged     *)
(* account has exactly one accepted invitation (AcceptPrivilegedInvitation)*)
(* so that no registration becomes privileged by a race with it.           *)
Accepted(e) == {i \in Invitations : invitation[i].state = "accepted" /\ invitation[i].email = e}

AccountsAsInvited ==
  \A e \in Emails :
    /\ \A i, j \in Accepted(e) : i = j
    /\ \A i \in Accepted(e) : user[e] # None /\ user[e].role = invitation[i].role
    /\ user[e] # None /\ user[e].role \in Privileged => Accepted(e) # {} \/ e \in Founders

(* Links for one account are issued at least MinResend apart, whatever the *)
(* requests for them read before they had its lock.                        *)
ResendSpaced ==
  [][\A e \in Emails : user[e] # None => /\ user'[e] # None
                                         /\ \/ user'[e].sent = user[e].sent
                                            \/ user'[e].sent >= user[e].sent + MinResend]_vars
=============================================================================
