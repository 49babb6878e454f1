--------------------------- MODULE AccountsProofs ---------------------------
(***************************************************************************)
(* Theorems about Accounts for every number of requests, addresses, links  *)
(* and invitations.  Every account has one link at most that is live or    *)
(* was consumed, and which of the two says whether it is verified: Drawn   *)
(* is that, and what is held by the requests (Held) keeps it.              *)
(***************************************************************************)
EXTENDS Accounts, TLAPS

Spent(l) == link[l].state \in {"live", "consumed"}

Drawn ==
  /\ \A l \in Links : Spent(l) =>
       /\ link[l].email \in Emails /\ user[link[l].email] # None
       /\ user[link[l].email].role = "user"
       /\ user[link[l].email].verified <=> link[l].state = "consumed"
  /\ \A k, l \in Links : Spent(k) /\ Spent(l) /\ link[k].email = link[l].email => k = l
  /\ \A e \in Emails : user[e] # None /\ user[e].role = "user" /\ user[e].verified
       => \E l \in Links : link[l].state = "consumed" /\ link[l].email = e
  /\ \A e \in Emails : user[e] # None /\ ~user[e].verified => user[e].role = "user"

Invited ==
  /\ \A i \in Invitations : invitation[i].state # "undrawn" => invitation[i].email \in Emails
  /\ \A i \in Invitations : invitation[i].state = "accepted" =>
       user[invitation[i].email] # None /\ user[invitation[i].email].role = invitation[i].role
  /\ \A i, j \in Invitations :
       invitation[i].state = "accepted" /\ invitation[j].state = "accepted"
         /\ invitation[i].email = invitation[j].email => i = j
  /\ \A e \in Emails : user[e] # None /\ user[e].role \in Privileged =>
       e \in Founders \/ \E i \in Invitations : invitation[i].state = "accepted" /\ invitation[i].email = e

HoldsUser(r) ==
  LET e == requests[r].email IN
  /\ e \in Emails /\ user[e] # None /\ ~user[e].verified
  /\ requests[r].at >= user[e].sent + MinResend

Held ==
  /\ \A r \in Requests : At(r, "replace") => requests[r].email \in Emails /\ user[requests[r].email] # None
  /\ \A r \in Requests : At(r, "locked") => HoldsUser(r)
  /\ \A r, q \in Requests : At(r, "locked") /\ At(q, "locked") /\ requests[r].email = requests[q].email => r = q
  /\ \A r \in Requests : At(r, "claimed") =>
       /\ requests[r].link \in Links /\ link[requests[r].link].state = "live"
       /\ link[requests[r].link].email = requests[r].email
  /\ \A r, q \in Requests : At(r, "claimed") /\ At(q, "claimed") /\ requests[r].link = requests[q].link => r = q
  /\ \A r \in Requests : At(r, "invite") => requests[r].email \in Emails
  /\ \A r \in Requests : At(r, "deliver") => requests[r].link \in Links \cup Invitations

IInv == TypeOK /\ Drawn /\ Invited /\ Held

----------------------------------------------------------------------------
(* The initial state: no link, no invitation, the founders' accounts.      *)
LEMMA InitIInv == Init => IInv
<1> SUFFICES ASSUME Init PROVE IInv
  OBVIOUS
<1> DEFINE founder == [role |-> "admin", verified |-> TRUE, sent |-> 0]
<1>1. /\ \A e \in Emails : user[e] = IF e \in Founders THEN founder ELSE None
      /\ \A l \in Links : link[l].state = "undrawn"
      /\ \A i \in Invitations : invitation[i].state = "undrawn"
      /\ \A r \in Requests : requests[r].step = "idle"
  BY DEF Init, Idle
<1>2. founder \in Account /\ Idle \in Request
  BY DEF Account, Privileged, Request, Idle, Step
<1>3. user \in [Emails -> Account \cup {None}]
  <2> HIDE DEF founder
  <2>1. user = [e \in Emails |-> IF e \in Founders THEN founder ELSE None]
    BY DEF Init, founder
  <2> QED BY <2>1, <1>2
<1>4. TypeOK
  BY <1>2, <1>3 DEF Init, TypeOK, Link, Invitation, LinkState, Privileged
<1>5. Drawn /\ Invited
  <2>1. founder.role = "admin" /\ founder.verified
    OBVIOUS
  <2>2. \A e \in Emails : user[e] # None => e \in Founders /\ user[e].role = "admin" /\ user[e].verified
    BY <1>1, <2>1
  <2> QED BY <1>1, <2>2 DEF Drawn, Invited, Spent
<1>6. Held
  BY <1>1 DEF Held, At
<1> QED BY <1>4, <1>5, <1>6 DEF IInv

(* Types, one action after the other.                                      *)
LEMMA TypeStep == TypeOK /\ Held /\ Invited /\ Drawn /\ [Next]_vars => TypeOK'
<1> SUFFICES ASSUME TypeOK, Held, Invited, Drawn, [Next]_vars PROVE TypeOK'
  OBVIOUS
<1> USE AccountsAssumption DEF TypeOK, Set, At
<1>a. Idle \in Request
  BY DEF Request, Idle, Step, Privileged
<1>b. \A e \in Emails, at \in Nat : NewLink(e, at) \in Link
  BY DEF NewLink, Link, LinkState
<1>c. \A r \in Requests : requests[r] \in Request
  OBVIOUS
<1>1. ASSUME NEW r \in Requests, NEW e \in Emails, NEW l \in Links, Register(r, e, l) PROVE TypeOK'
  <2>1. [role |-> "user", verified |-> FALSE, sent |-> now] \in Account
    BY DEF Account
  <2>2. [Idle EXCEPT !.step = "deliver", !.email = e, !.link = l] \in Request
    BY DEF Request, Idle, Step, Privileged
  <2> QED BY <1>1, <1>b, <2>1, <2>2 DEF Register
<1>2. ASSUME NEW r \in Requests, Deliver(r) PROVE TypeOK'
  BY <1>a, <1>2 DEF Deliver, Held
<1>3. ASSUME NEW r \in Requests, Finish(r) PROVE TypeOK'
  BY <1>a, <1>3 DEF Finish
<1>4. ASSUME NEW r \in Requests, NEW e \in Emails, ResendVerification(r, e) PROVE TypeOK'
  BY <1>4 DEF ResendVerification, Idle, Request, Step, Privileged
<1>5. ASSUME NEW r \in Requests, LockUser(r) PROVE TypeOK'
  BY <1>5 DEF LockUser, Request, Step
<1>6. ASSUME NEW r \in Requests, NEW l \in Links, ReplaceVerificationToken(r, l) PROVE TypeOK'
  <2>1. requests[r].email \in Emails /\ requests[r].at \in Nat /\ user[requests[r].email] \in Account
    BY <1>6 DEF ReplaceVerificationToken, Held, HoldsUser, Request
  <2>2. \A k \in Links : [link[k] EXCEPT !.state = "deleted"] \in Link
    BY DEF Link, LinkState
  <2>3. link' \in [Links -> Link]
    BY <1>6, <1>b, <2>1, <2>2 DEF ReplaceVerificationToken
  <2>4. [Idle EXCEPT !.step = "deliver", !.email = requests[r].email, !.link = l] \in Request
    BY <2>1 DEF Request, Idle, Step, Privileged
  <2>5. [user[requests[r].email] EXCEPT !.sent = requests[r].at] \in Account
    BY <2>1 DEF Account
  <2> QED BY <1>6, <2>1, <2>3, <2>4, <2>5 DEF ReplaceVerificationToken
<1>7. ASSUME NEW r \in Requests, NEW l \in Links, ClaimLink(r, l) PROVE TypeOK'
  <2>1. [Idle EXCEPT !.step = "claimed", !.email = link[l].email, !.link = l] \in Request
    BY DEF Request, Idle, Step, Privileged, Link
  <2> QED BY <1>7, <2>1 DEF ClaimLink
<1>8. ASSUME NEW r \in Requests, ConsumeVerificationToken(r) PROVE TypeOK'
  <2>1. requests[r].link \in Links /\ requests[r].email \in Emails /\ user[requests[r].email] \in Account
    BY <1>8 DEF ConsumeVerificationToken, Held, Drawn, Spent
  <2>2. [user[requests[r].email] EXCEPT !.verified = TRUE] \in Account
    BY <2>1 DEF Account
  <2>3. [link[requests[r].link] EXCEPT !.state = "consumed"] \in Link
    BY <2>1 DEF Link, LinkState
  <2> QED BY <1>8, <1>a, <2>1, <2>2, <2>3 DEF ConsumeVerificationToken
<1>9. ASSUME NEW r \in Requests, NEW e \in Emails, NEW role \in Privileged, InvitePrivilegedAccount(r, e, role)
      PROVE TypeOK'
  BY <1>9 DEF InvitePrivilegedAccount, Idle, Request, Step
<1>10. ASSUME NEW r \in Requests, NEW i \in Invitations, CreatePrivilegedInvitation(r, i) PROVE TypeOK'
  <2>1. [state |-> "pending", email |-> requests[r].email, role |-> requests[r].role,
         expires |-> requests[r].at + VerificationTTL] \in Invitation
    BY <1>c DEF Invitation, Request
  <2>2. [Idle EXCEPT !.step = "deliver", !.email = requests[r].email, !.link = i] \in Request
    BY <1>c DEF Request, Idle, Step, Privileged
  <2> QED BY <1>10, <2>1, <2>2 DEF CreatePrivilegedInvitation
<1>11. ASSUME NEW i \in Invitations, AcceptPrivilegedInvitation(i) PROVE TypeOK'
  <2>1. /\ [role |-> invitation[i].role, verified |-> TRUE, sent |-> 0] \in Account
        /\ [invitation[i] EXCEPT !.state = "accepted"] \in Invitation
    BY DEF Account, Invitation, Privileged
  <2> QED BY <1>11, <2>1 DEF AcceptPrivilegedInvitation
<1>12. CASE Tick \/ UNCHANGED vars
  BY <1>12 DEF Tick, vars
<1> QED BY <1>1, <1>2, <1>3, <1>4, <1>5, <1>6, <1>7, <1>8, <1>9, <1>10, <1>11, <1>12 DEF Next, RegisterAccount, Resend, VerifyEmail, Invite, ActivatePrivilegedAccount

(* An account's one spent link, through the actions that write either.     *)
LEMMA DrawnStep == TypeOK /\ Drawn /\ Held /\ Invited /\ [Next]_vars => Drawn'
<1> SUFFICES ASSUME TypeOK, Drawn, Held, Invited, [Next]_vars PROVE Drawn'
  OBVIOUS
<1> USE AccountsAssumption
<1>a. None \notin Account /\ \A e \in Emails : user[e] # None => user[e] \in Account
  BY DEF TypeOK
<1>1. ASSUME NEW r \in Requests, NEW e \in Emails, NEW l \in Links, Register(r, e, l) PROVE Drawn'
  <2> DEFINE new == [role |-> "user", verified |-> FALSE, sent |-> now]
  <2>1. /\ user[e] = None /\ user'[e] = new /\ \A f \in Emails \ {e} : user'[f] = user[f]
        /\ link'[l].state = "live" /\ link'[l].email = e
        /\ \A k \in Links \ {l} : link'[k] = link[k]
    BY <1>1 DEF Register, NewLink, TypeOK
  <2>2. new # None /\ new.role = "user" /\ new.verified = FALSE
    <3>1. new \in Account
      BY DEF TypeOK, Account
    <3> QED BY <1>a, <3>1
  <2>3. \A k \in Links \ {l} : link'[k].state \in {"live", "consumed"} => link'[k].email # e
    BY <2>1 DEF Drawn, Spent
  <2> HIDE DEF new
  <2>4. Drawn!1'
    BY <2>1, <2>2, <2>3 DEF Drawn, Spent
  <2>5. Drawn!2'
    BY <2>1, <2>2, <2>3 DEF Drawn, Spent
  <2>6. Drawn!3'
    <3> SUFFICES ASSUME NEW f \in Emails, user'[f] # None, user'[f].role = "user", user'[f].verified
                 PROVE  \E k \in Links : link'[k].state = "consumed" /\ link'[k].email = f
      OBVIOUS
    <3>1. f # e
      BY <2>1, <2>2
    <3>2. PICK k \in Links : link[k].state = "consumed" /\ link[k].email = f
      BY <2>1, <3>1 DEF Drawn
    <3>3. k # l
      BY <1>1, <3>2 DEF Register
    <3> QED BY <2>1, <3>2, <3>3
  <2>7. Drawn!4'
    BY <2>1, <2>2 DEF Drawn
  <2> QED BY <2>4, <2>5, <2>6, <2>7 DEF Drawn
<1>2. ASSUME NEW r \in Requests, NEW l \in Links, ReplaceVerificationToken(r, l) PROVE Drawn'
  <2> DEFINE e == requests[r].email
  <2>1. e \in Emails /\ user[e] # None /\ ~user[e].verified /\ user[e].role = "user"
    BY <1>2 DEF ReplaceVerificationToken, Held, HoldsUser, Drawn
  <2>2. /\ user'[e].role = "user" /\ ~user'[e].verified /\ user'[e] # None
        /\ \A f \in Emails \ {e} : user'[f] = user[f]
    <3>1. user'[e] = [user[e] EXCEPT !.sent = requests[r].at]
      BY <1>2, <2>1 DEF ReplaceVerificationToken, TypeOK
    <3>2. user[e] \in Account /\ user[e] = [role |-> user[e].role, verified |-> user[e].verified, sent |-> user[e].sent]
      BY <2>1, <1>a DEF Account
    <3>3. user'[e] \in Account
      BY <3>1, <3>2, <1>2 DEF Account, TypeOK, Request
    <3> QED BY <1>2, <1>a, <2>1, <3>1, <3>2, <3>3 DEF ReplaceVerificationToken, TypeOK
  <2>3. /\ link'[l].state = "live" /\ link'[l].email = e
        /\ \A k \in Links \ {l} : \/ link'[k] = link[k] /\ ~(link[k].state = "live" /\ link[k].email = e)
                                  \/ link'[k].state = "deleted"
    <3>1. \A k \in Links : (link[k].state = "live" /\ link[k].email = e) <=> k \in Live(e)
      BY DEF Live
    <3>2. \A k \in Links \ {l} : link'[k] = IF k \in Live(e) THEN [link[k] EXCEPT !.state = "deleted"] ELSE link[k]
      BY <1>2 DEF ReplaceVerificationToken
    <3>3. \A k \in Links : [link[k] EXCEPT !.state = "deleted"].state = "deleted"
      BY DEF TypeOK, Link
    <3> QED BY <1>2, <3>1, <3>2, <3>3 DEF ReplaceVerificationToken, NewLink
  <2>4. \A k \in Links : link[k].state = "consumed" => link[k].email # e
    BY <2>1 DEF Drawn, Spent
  <2> HIDE DEF e
  <2>5. Drawn!1'
    BY <2>1, <2>2, <2>3, <2>4 DEF Drawn, Spent
  <2>6. Drawn!2'
    BY <2>1, <2>2, <2>3, <2>4 DEF Drawn, Spent
  <2>7. Drawn!3'
    <3> SUFFICES ASSUME NEW f \in Emails, user'[f] # None, user'[f].role = "user", user'[f].verified
                 PROVE  \E k \in Links : link'[k].state = "consumed" /\ link'[k].email = f
      OBVIOUS
    <3>1. f # e
      BY <2>2
    <3>2. PICK k \in Links : link[k].state = "consumed" /\ link[k].email = f
      BY <2>2, <3>1 DEF Drawn
    <3>3. k # l /\ k \notin Live(e)
      BY <1>2, <3>2 DEF ReplaceVerificationToken, Live
    <3>4. link'[k] = link[k]
      BY <1>2, <3>3 DEF ReplaceVerificationToken, e
    <3> QED BY <3>2, <3>4
  <2>8. Drawn!4'
    BY <2>1, <2>2 DEF Drawn
  <2> QED BY <2>5, <2>6, <2>7, <2>8 DEF Drawn
<1>3. ASSUME NEW r \in Requests, ConsumeVerificationToken(r) PROVE Drawn'
  <2> DEFINE e == requests[r].email
             l == requests[r].link
  <2>1. /\ l \in Links /\ link[l].state = "live" /\ link[l].email = e
        /\ e \in Emails /\ user[e] # None /\ user[e].role = "user" /\ user[e] \in Account
    BY <1>3, <1>a DEF ConsumeVerificationToken, Held, Drawn, Spent
  <2>2. /\ user'[e].role = "user" /\ user'[e].verified /\ user'[e] # None
        /\ \A f \in Emails \ {e} : user'[f] = user[f]
    <3>1. user'[e] = [user[e] EXCEPT !.verified = TRUE]
      BY <1>3, <2>1 DEF ConsumeVerificationToken, TypeOK
    <3>2. [user[e] EXCEPT !.verified = TRUE] \in Account
      BY <2>1 DEF Account
    <3> QED BY <1>3, <1>a, <2>1, <3>1, <3>2 DEF ConsumeVerificationToken, TypeOK, Account
  <2>3. /\ link'[l].state = "consumed" /\ link'[l].email = e
        /\ \A k \in Links \ {l} : link'[k] = link[k]
    BY <1>3, <2>1 DEF ConsumeVerificationToken, TypeOK, Link
  <2> HIDE DEF e, l
  <2>4. Drawn!1'
    BY <2>1, <2>2, <2>3 DEF Drawn, Spent
  <2>5. Drawn!2'
    BY <2>1, <2>2, <2>3 DEF Drawn, Spent
  <2>6. Drawn!3'
    <3> SUFFICES ASSUME NEW f \in Emails \ {e}, user'[f] # None, user'[f].role = "user", user'[f].verified
                 PROVE  \E k \in Links : link'[k].state = "consumed" /\ link'[k].email = f
      BY <2>1, <2>3
    <3>1. PICK k \in Links : link[k].state = "consumed" /\ link[k].email = f
      BY <2>2 DEF Drawn
    <3> QED BY <2>1, <2>3, <3>1
  <2>7. Drawn!4'
    BY <2>2 DEF Drawn
  <2> QED BY <2>4, <2>5, <2>6, <2>7 DEF Drawn
<1>4. ASSUME NEW i \in Invitations, AcceptPrivilegedInvitation(i) PROVE Drawn'
  <2> DEFINE e == invitation[i].email
             new == [role |-> invitation[i].role, verified |-> TRUE, sent |-> 0]
  <2>1. e \in Emails /\ user[e] = None /\ invitation[i].role \in Privileged
    BY <1>4 DEF AcceptPrivilegedInvitation, Invited, TypeOK, Invitation
  <2>2. new.role \in Privileged /\ new.verified /\ new # None
    <3>1. new \in Account
      BY <2>1 DEF Account
    <3> QED BY <1>a, <2>1, <3>1
  <2>3. user'[e] = new /\ (\A f \in Emails \ {e} : user'[f] = user[f]) /\ link' = link
    BY <1>4, <2>1 DEF AcceptPrivilegedInvitation, TypeOK
  <2> HIDE DEF e, new
  <2> QED BY <2>1, <2>2, <2>3 DEF Drawn, Spent, Privileged
<1>5. CASE UNCHANGED <<user, link>>
  BY <1>5 DEF Drawn, Spent
<1> QED
  BY <1>1, <1>2, <1>3, <1>4, <1>5
  DEF Next, RegisterAccount, Resend, VerifyEmail, Invite, ActivatePrivilegedAccount,
      Deliver, Finish, LockUser, ResendVerification, InvitePrivilegedAccount, ClaimLink,
      CreatePrivilegedInvitation, Tick, vars
(* What no step takes from an account.                                     *)
LEMMA UserKept ==
  TypeOK /\ Drawn /\ Held /\ Invited /\ [Next]_vars =>
    \A e \in Emails : user[e] # None =>
      /\ user'[e] # None /\ user'[e].role = user[e].role
      /\ user'[e].sent = user[e].sent \/ user'[e].sent >= user[e].sent + MinResend
<1> SUFFICES ASSUME TypeOK, Drawn, Held, Invited, [Next]_vars, NEW e \in Emails, user[e] # None
             PROVE  /\ user'[e] # None /\ user'[e].role = user[e].role
                    /\ user'[e].sent = user[e].sent \/ user'[e].sent >= user[e].sent + MinResend
  OBVIOUS
<1> USE AccountsAssumption
<1>a. user[e] \in Account
  BY DEF TypeOK
<1>1. ASSUME NEW r \in Requests, NEW f \in Emails, NEW l \in Links, Register(r, f, l) PROVE user'[e] = user[e]
  BY <1>1 DEF Register, TypeOK
<1>2. ASSUME NEW r \in Requests, NEW l \in Links, ReplaceVerificationToken(r, l), requests[r].email = e
      PROVE  user'[e].sent >= user[e].sent + MinResend /\ user'[e] # None /\ user'[e].role = user[e].role
  <2>1. user'[e] = [user[e] EXCEPT !.sent = requests[r].at] /\ requests[r].at \in Nat
    BY <1>2 DEF ReplaceVerificationToken, TypeOK, Request
  <2>2. [user[e] EXCEPT !.sent = requests[r].at] \in Account
    BY <1>a, <2>1 DEF Account
  <2>3. requests[r].at >= user[e].sent + MinResend
    BY <1>2 DEF ReplaceVerificationToken, Held, HoldsUser
  <2> QED BY <1>a, <2>1, <2>2, <2>3 DEF Account
<1>3. ASSUME NEW r \in Requests, NEW l \in Links, ReplaceVerificationToken(r, l), requests[r].email # e
      PROVE  user'[e] = user[e]
  BY <1>3 DEF ReplaceVerificationToken, TypeOK
<1>4. ASSUME NEW r \in Requests, ConsumeVerificationToken(r)
      PROVE  user'[e].sent = user[e].sent /\ user'[e] # None /\ user'[e].role = user[e].role
  <2>1. user'[e] = user[e] \/ user'[e] = [user[e] EXCEPT !.verified = TRUE]
    BY <1>4 DEF ConsumeVerificationToken, TypeOK
  <2>2. [user[e] EXCEPT !.verified = TRUE] \in Account
    BY <1>a DEF Account
  <2> QED BY <1>a, <2>1, <2>2 DEF Account
<1>5. ASSUME NEW i \in Invitations, AcceptPrivilegedInvitation(i) PROVE user'[e] = user[e]
  BY <1>5 DEF AcceptPrivilegedInvitation, TypeOK
<1>6. CASE UNCHANGED user
  BY <1>6
<1> QED
  BY <1>1, <1>2, <1>3, <1>4, <1>5, <1>6
  DEF Next, RegisterAccount, Resend, VerifyEmail, Invite, ActivatePrivilegedAccount,
      Deliver, Finish, LockUser, ResendVerification, InvitePrivilegedAccount, ClaimLink,
      CreatePrivilegedInvitation, Tick, vars

(* Accounts and invitations: only an acceptance makes a privileged account.*)
LEMMA InvitedStep == TypeOK /\ Drawn /\ Held /\ Invited /\ [Next]_vars => Invited'
<1> SUFFICES ASSUME TypeOK, Drawn, Held, Invited, [Next]_vars PROVE Invited'
  OBVIOUS
<1> USE AccountsAssumption
<1>a. \A e \in Emails : user[e] # None => user'[e] # None /\ user'[e].role = user[e].role
  BY UserKept
<1>1. ASSUME NEW i \in Invitations, AcceptPrivilegedInvitation(i) PROVE Invited'
  <2> DEFINE e == invitation[i].email
  <2>1. e \in Emails /\ user[e] = None /\ invitation[i].state = "pending"
    BY <1>1 DEF AcceptPrivilegedInvitation, Invited
  <2>2. user'[e] = [role |-> invitation[i].role, verified |-> TRUE, sent |-> 0]
    BY <1>1, <2>1 DEF AcceptPrivilegedInvitation, TypeOK
  <2>3. user'[e] \in Account /\ user'[e].role = invitation[i].role
    BY <2>2 DEF Account, TypeOK, Invitation
  <2>4. /\ \A j \in Invitations : /\ invitation'[j].email = invitation[j].email
                                  /\ invitation'[j].role = invitation[j].role
        /\ invitation'[i].state = "accepted"
        /\ \A j \in Invitations \ {i} : invitation'[j] = invitation[j]
    BY <1>1 DEF AcceptPrivilegedInvitation, TypeOK, Invitation
  <2>5. \A f \in Emails \ {e} : user'[f] = user[f]
    BY <1>1 DEF AcceptPrivilegedInvitation, TypeOK
  <2>6. user'[e] # None
    BY <2>3
  <2> HIDE DEF e
  <2>7. invitation[i].email = e
    BY DEF e
  <2> QED BY <2>1, <2>3, <2>4, <2>5, <2>6, <2>7 DEF Invited
<1>2. ASSUME NEW r \in Requests, NEW i \in Invitations, CreatePrivilegedInvitation(r, i) PROVE Invited'
  <2>1. requests[r].email \in Emails /\ invitation[i].state = "undrawn"
    BY <1>2 DEF CreatePrivilegedInvitation, Held
  <2>2. /\ invitation'[i].state = "pending" /\ invitation'[i].email = requests[r].email
        /\ \A j \in Invitations \ {i} : invitation'[j] = invitation[j]
        /\ user' = user
    BY <1>2 DEF CreatePrivilegedInvitation, TypeOK
  <2> QED BY <2>1, <2>2 DEF Invited
<1>3. ASSUME UNCHANGED invitation, \A e \in Emails : user[e] = None /\ user'[e] # None => user'[e].role = "user"
      PROVE  Invited'
  <2>1. \A e \in Emails : user'[e] # None /\ user'[e].role \in Privileged =>
          user[e] # None /\ user[e].role \in Privileged
    BY <1>a, <1>3 DEF Privileged
  <2> QED BY <1>a, <1>3, <2>1 DEF Invited
<1>4. ASSUME NEW r \in Requests, NEW f \in Emails, NEW l \in Links, Register(r, f, l) PROVE Invited'
  <2>1. \A e \in Emails : user'[e] = IF e = f THEN [role |-> "user", verified |-> FALSE, sent |-> now] ELSE user[e]
    BY <1>4 DEF Register, TypeOK
  <2>2. [role |-> "user", verified |-> FALSE, sent |-> now].role = "user"
    OBVIOUS
  <2>3. \A e \in Emails : user[e] = None /\ user'[e] # None => user'[e].role = "user"
    BY <2>1, <2>2
  <2> QED BY <1>3, <1>4, <2>3 DEF Register
<1>5. ASSUME NEW r \in Requests, (\E l \in Links : ReplaceVerificationToken(r, l)) \/ ConsumeVerificationToken(r)
      PROVE  Invited'
  <2>1. requests[r].email \in Emails /\ user[requests[r].email] # None
    <3>1. CASE At(r, "locked")
      BY <3>1 DEF Held, HoldsUser
    <3>2. CASE At(r, "claimed")
      BY <3>2 DEF Held, Drawn, Spent
    <3> QED BY <1>5, <3>1, <3>2 DEF ReplaceVerificationToken, ConsumeVerificationToken
  <2>2. \A e \in Emails : user[e] = None => user'[e] = None
    BY <1>5, <2>1 DEF ReplaceVerificationToken, ConsumeVerificationToken, TypeOK
  <2> QED BY <1>3, <1>5, <2>2 DEF ReplaceVerificationToken, ConsumeVerificationToken
<1>6. CASE UNCHANGED <<user, invitation>>
  BY <1>6 DEF Invited
<1> QED
  BY <1>1, <1>2, <1>4, <1>5, <1>6
  DEF Next, RegisterAccount, Resend, VerifyEmail, Invite, ActivatePrivilegedAccount,
      Deliver, Finish, LockUser, ResendVerification, InvitePrivilegedAccount, ClaimLink, Tick, vars
(* What the requests hold stays true while they hold it: a step of another *)
(* request changes neither an account that is locked nor a link claimed.   *)
LEMMA HeldStep == TypeOK /\ Drawn /\ Held /\ Invited /\ [Next]_vars => Held'
<1> SUFFICES ASSUME TypeOK, Drawn, Held, Invited, [Next]_vars PROVE Held'
  OBVIOUS
<1> USE AccountsAssumption
<1>a. \A e \in Emails : user[e] # None => user'[e] # None
  BY UserKept
(* The rows held by q are those they were.                                 *)
<1> DEFINE Same(q) ==
             /\ requests'[q] = requests[q]
             /\ At(q, "locked") => user'[requests[q].email] = user[requests[q].email]
             /\ At(q, "claimed") => link'[requests[q].link] = link[requests[q].link]
<1>b. ASSUME NEW r \in Requests, \A q \in Requests \ {r} : Same(q),
             requests'[r].step \in {"idle", "deliver", "invite", "replace"},
             requests'[r].step = "deliver" => requests'[r].link \in Links \cup Invitations,
             requests'[r].step = "invite" => requests'[r].email \in Emails,
             requests'[r].step = "replace" => requests'[r].email \in Emails /\ user'[requests'[r].email] # None
      PROVE  Held'
  <2>1. ~At(r, "locked")' /\ ~At(r, "claimed")'
    BY <1>b DEF At
  <2>2. Held!1' /\ Held!6' /\ Held!7'
    BY <1>a, <1>b DEF Held, At
  <2>3. Held!2'
    BY <1>b, <2>1 DEF Held, HoldsUser, At
  <2>4. Held!3' /\ Held!4' /\ Held!5'
    BY <1>b, <2>1 DEF Held, At
  <2> QED BY <2>2, <2>3, <2>4 DEF Held
<1>c. ASSUME NEW r \in Requests, requests' = [requests EXCEPT ![r] = requests'[r]], UNCHANGED <<user, link>>
      PROVE  \A q \in Requests \ {r} : Same(q)
  BY <1>c DEF TypeOK
<1>1. ASSUME NEW r \in Requests, NEW e \in Emails, NEW l \in Links, Register(r, e, l) PROVE Held'
  <2>1. \A q \in Requests \ {r} : Same(q)
    BY <1>1 DEF Register, Set, TypeOK, Held, HoldsUser, At
  <2>2. requests'[r].step = "deliver" /\ requests'[r].link = l
    BY <1>1 DEF Register, Set, Idle, TypeOK
  <2> QED BY <1>b, <2>1, <2>2
<1>2. ASSUME NEW r \in Requests, Deliver(r) \/ Finish(r) PROVE Held'
  <2>1. requests' = [requests EXCEPT ![r] = Idle] /\ UNCHANGED <<user, link>>
    BY <1>2 DEF Deliver, Finish, Set
  <2>2. requests'[r].step = "idle"
    BY <2>1 DEF TypeOK, Idle
  <2> QED BY <1>b, <1>c, <2>1, <2>2 DEF TypeOK
<1>3. ASSUME NEW r \in Requests, NEW e \in Emails, ResendVerification(r, e) PROVE Held'
  <2>1. requests' = [requests EXCEPT ![r] = requests'[r]] /\ UNCHANGED <<user, link>>
    BY <1>3 DEF ResendVerification, Set, TypeOK
  <2>2. requests'[r].step = "replace" /\ requests'[r].email = e /\ user'[e] # None
    BY <1>3 DEF ResendVerification, Set, Idle, TypeOK
  <2> QED BY <1>b, <1>c, <2>1, <2>2
<1>4. ASSUME NEW r \in Requests, LockUser(r) PROVE Held'
  <2>1. /\ requests'[r] = [requests[r] EXCEPT !.step = "locked"]
        /\ \A q \in Requests \ {r} : requests'[q] = requests[q]
        /\ At(r, "replace") /\ UNCHANGED <<user, link>>
    BY <1>4 DEF LockUser, Set, TypeOK
  <2>2. requests'[r].step = "locked" /\ requests'[r].email = requests[r].email /\ requests'[r].at = requests[r].at
    BY <2>1 DEF TypeOK, Request
  <2>3. \A q \in Requests : At(q, "locked") => requests[q].email # requests[r].email
    BY <1>4 DEF LockUser, UserLocked
  <2>4. HoldsUser(r)'
    BY <1>4, <2>1, <2>2 DEF LockUser, Replaceable, Held, HoldsUser
  <2>5. Held!2'
    BY <2>1, <2>4 DEF Held, HoldsUser, At
  <2>6. Held!3'
    <3>1. \A p, q \in Requests \ {r} : At(p, "locked")' /\ At(q, "locked")'
            /\ requests'[p].email = requests'[q].email => p = q
      BY <2>1 DEF Held, At
    <3>2. \A q \in Requests \ {r} : At(q, "locked")' => requests'[q].email # requests'[r].email
      BY <2>1, <2>2, <2>3 DEF At
    <3> QED BY <3>1, <3>2
  <2>7. \A q \in Requests : At(q, "replace")' \/ At(q, "claimed")' \/ At(q, "invite")' \/ At(q, "deliver")'
                             => q # r
    BY <2>2 DEF At
  <2>8. Held!1' /\ Held!4'
    BY <2>1, <2>7 DEF Held, At
  <2>9. Held!5' /\ Held!6' /\ Held!7'
    BY <2>1, <2>7 DEF Held, At
  <2> QED BY <2>5, <2>6, <2>8, <2>9 DEF Held
<1>5. ASSUME NEW r \in Requests, NEW l \in Links, ReplaceVerificationToken(r, l) PROVE Held'
  <2>1. At(r, "locked") /\ requests[r].email \in Emails
    BY <1>5 DEF ReplaceVerificationToken, Held, HoldsUser
  <2>2. ASSUME NEW q \in Requests \ {r} PROVE Same(q)
    <3>1. requests'[q] = requests[q]
      BY <1>5 DEF ReplaceVerificationToken, Set, TypeOK
    <3>2. ASSUME At(q, "locked") PROVE user'[requests[q].email] = user[requests[q].email]
      <4>1. requests[q].email # requests[r].email /\ requests[q].email \in Emails
        BY <2>1, <3>2 DEF Held, HoldsUser
      <4> QED BY <1>5, <4>1 DEF ReplaceVerificationToken, TypeOK
    <3>3. ASSUME At(q, "claimed") PROVE link'[requests[q].link] = link[requests[q].link]
      <4>1. requests[q].link \in Links /\ link[requests[q].link].state = "live" /\ LinkLocked(requests[q].link)
        BY <3>3 DEF Held, LinkLocked
      <4>2. requests[q].link # l /\ requests[q].link \notin Live(requests[r].email)
        BY <1>5, <4>1 DEF ReplaceVerificationToken
      <4> QED BY <1>5, <4>1, <4>2 DEF ReplaceVerificationToken
    <3> QED BY <3>1, <3>2, <3>3
  <2>3. requests'[r].step = "deliver" /\ requests'[r].link = l
    BY <1>5 DEF ReplaceVerificationToken, Set, Idle, TypeOK
  <2> QED BY <1>b, <2>2, <2>3
<1>6. ASSUME NEW r \in Requests, NEW l \in Links, ClaimLink(r, l) PROVE Held'
  <2>1. /\ requests'[r].step = "claimed" /\ requests'[r].link = l /\ requests'[r].email = link[l].email
        /\ \A q \in Requests \ {r} : requests'[q] = requests[q]
        /\ link[l].state = "live" /\ UNCHANGED <<user, link>>
    BY <1>6 DEF ClaimLink, Set, Idle, TypeOK
  <2>2. \A q \in Requests : At(q, "claimed") => requests[q].link # l
    BY <1>6 DEF ClaimLink, LinkLocked
  <2>3. Held!4' /\ Held!5'
    BY <2>1, <2>2 DEF Held, At
  <2>4. Held!2'
    BY <2>1 DEF Held, HoldsUser, At
  <2>5. Held!1' /\ Held!3' /\ Held!6' /\ Held!7'
    BY <2>1 DEF Held, At
  <2> QED BY <2>3, <2>4, <2>5 DEF Held
<1>7. ASSUME NEW r \in Requests, ConsumeVerificationToken(r) PROVE Held'
  <2> DEFINE e == requests[r].email
             l == requests[r].link
  <2>1. /\ At(r, "claimed") /\ l \in Links /\ link[l].state = "live" /\ link[l].email = e /\ e \in Emails
    BY <1>7 DEF ConsumeVerificationToken, Held, Drawn, Spent
  <2>2. ASSUME NEW q \in Requests \ {r} PROVE Same(q)
    <3>1. requests'[q] = requests[q]
      BY <1>7 DEF ConsumeVerificationToken, Set, TypeOK
    <3>2. ASSUME At(q, "locked") PROVE user'[requests[q].email] = user[requests[q].email]
      <4>1. requests[q].email # e /\ requests[q].email \in Emails
        BY <1>7, <3>2 DEF ConsumeVerificationToken, UserLocked, Held, HoldsUser
      <4> QED BY <1>7, <4>1 DEF ConsumeVerificationToken, TypeOK
    <3>3. ASSUME At(q, "claimed") PROVE link'[requests[q].link] = link[requests[q].link]
      <4>1. requests[q].link \in Links /\ requests[q].link # l
        BY <2>1, <3>3 DEF Held
      <4> QED BY <1>7, <4>1 DEF ConsumeVerificationToken, TypeOK
    <3> QED BY <3>1, <3>2, <3>3
  <2>3. requests'[r].step = "idle"
    BY <1>7 DEF ConsumeVerificationToken, Set, Idle, TypeOK
  <2> QED BY <1>b, <2>2, <2>3
<1>8. ASSUME NEW r \in Requests, NEW e \in Emails, NEW role \in Privileged, InvitePrivilegedAccount(r, e, role)
      PROVE Held'
  <2>1. requests' = [requests EXCEPT ![r] = requests'[r]] /\ UNCHANGED <<user, link>>
    BY <1>8 DEF InvitePrivilegedAccount, Set, TypeOK
  <2>2. requests'[r].step = "invite" /\ requests'[r].email = e
    BY <1>8 DEF InvitePrivilegedAccount, Set, Idle, TypeOK
  <2> QED BY <1>b, <1>c, <2>1, <2>2
<1>9. ASSUME NEW r \in Requests, NEW i \in Invitations, CreatePrivilegedInvitation(r, i) PROVE Held'
  <2>1. requests' = [requests EXCEPT ![r] = requests'[r]] /\ UNCHANGED <<user, link>>
    BY <1>9 DEF CreatePrivilegedInvitation, Set, TypeOK
  <2>2. requests'[r].step = "deliver" /\ requests'[r].link = i
    BY <1>9 DEF CreatePrivilegedInvitation, Set, Idle, TypeOK
  <2> QED BY <1>b, <1>c, <2>1, <2>2
<1>10. ASSUME NEW i \in Invitations, AcceptPrivilegedInvitation(i) PROVE Held'
  <2>1. UNCHANGED <<link, requests>> /\ \A f \in Emails : user[f] # None => user'[f] = user[f]
    BY <1>10 DEF AcceptPrivilegedInvitation, TypeOK
  <2>2. Held!1' /\ Held!3' /\ Held!4' /\ Held!5' /\ Held!6' /\ Held!7'
    BY <1>a, <2>1 DEF Held, At
  <2>3. Held!2'
    BY <2>1 DEF Held, HoldsUser, At
  <2> QED BY <2>2, <2>3 DEF Held
<1>11. CASE UNCHANGED <<user, link, requests>>
  BY <1>11 DEF Held, HoldsUser, At
<1> QED
  BY <1>1, <1>2, <1>3, <1>4, <1>5, <1>6, <1>7, <1>8, <1>9, <1>10, <1>11 DEF Next, RegisterAccount, Resend, VerifyEmail, Invite, ActivatePrivilegedAccount,
      Tick, vars

----------------------------------------------------------------------------
(* The invariant, and with it the types of every state.                    *)
THEOREM SpecIInv == Spec => []IInv
<1>1. IInv /\ [Next]_vars => IInv'
  BY TypeStep, DrawnStep, InvitedStep, HeldStep DEF IInv
<1> QED BY InitIInv, <1>1, PTL DEF Spec

(* Every reachable state has the types TypeOK gives.                       *)
THEOREM SpecTypeOK == Spec => []TypeOK
<1>1. IInv => TypeOK
  BY DEF IInv
<1> QED BY SpecIInv, <1>1, PTL

(* However many resends are requested at once, an account has one live     *)
(* link; none outlives the verification of its account or is issued after  *)
(* it (ReplaceVerificationToken, ConsumeVerificationToken).                *)
THEOREM SpecOneLiveLink == Spec => []OneLiveLink
<1>1. IInv => OneLiveLink
  BY DEF IInv, Drawn, Spent, OneLiveLink, Live
<1> QED BY SpecIInv, <1>1, PTL

(* A standard account is verified exactly when one link of its own was     *)
(* consumed, and by one only (ConsumeVerificationToken).                   *)
THEOREM SpecVerifiedByOneLink == Spec => []VerifiedByOneLink
<1>1. IInv => VerifiedByOneLink
  <2> SUFFICES ASSUME IInv, NEW e \in Emails
               PROVE  /\ \A k, l \in Consumed(e) : k = l
                      /\ Consumed(e) # {} <=> user[e] # None /\ user[e].role = "user" /\ user[e].verified
    BY DEF VerifiedByOneLink
  <2>1. \A k, l \in Consumed(e) : k = l
    BY DEF IInv, Drawn, Spent, Consumed
  <2>2. ASSUME NEW l \in Consumed(e) PROVE user[e] # None /\ user[e].role = "user" /\ user[e].verified
    <3>1. l \in Links /\ link[l].state = "consumed" /\ link[l].email = e
      BY DEF Consumed
    <3>2. Spent(l)
      BY <3>1 DEF Spent
    <3> QED BY <3>1, <3>2 DEF IInv, Drawn
  <2>3. user[e] # None /\ user[e].role = "user" /\ user[e].verified => Consumed(e) # {}
    BY DEF IInv, Drawn, Consumed
  <2> QED BY <2>1, <2>2, <2>3
<1> QED BY SpecIInv, <1>1, PTL

(* Privileged accounts and accepted invitations are one to one, but for the*)
(* founders (AcceptPrivilegedInvitation).                                  *)
THEOREM SpecAccountsAsInvited == Spec => []AccountsAsInvited
<1>1. IInv => AccountsAsInvited
  <2> SUFFICES ASSUME IInv, NEW e \in Emails
               PROVE  /\ \A i, j \in Accepted(e) : i = j
                      /\ \A i \in Accepted(e) : user[e] # None /\ user[e].role = invitation[i].role
                      /\ user[e] # None /\ user[e].role \in Privileged => Accepted(e) # {} \/ e \in Founders
    BY DEF AccountsAsInvited
  <2>1. \A i \in Accepted(e) :
          i \in Invitations /\ invitation[i].state = "accepted" /\ invitation[i].email = e
    BY DEF Accepted
  <2>2. \A i, j \in Accepted(e) : i = j
    BY <2>1 DEF IInv, Invited
  <2>3. \A i \in Accepted(e) : user[e] # None /\ user[e].role = invitation[i].role
    BY <2>1 DEF IInv, Invited
  <2>4. user[e] # None /\ user[e].role \in Privileged => Accepted(e) # {} \/ e \in Founders
    BY DEF IInv, Invited, Accepted
  <2> QED BY <2>2, <2>3, <2>4
<1> QED BY SpecIInv, <1>1, PTL

(* The links of one account are issued MinResend apart, and an account     *)
(* never disappears (ReplaceVerificationToken).                            *)
THEOREM SpecResendSpaced == Spec => ResendSpaced
<1>1. IInv /\ [Next]_vars =>
        [\A e \in Emails : user[e] # None => /\ user'[e] # None
                                             /\ \/ user'[e].sent = user[e].sent
                                                \/ user'[e].sent >= user[e].sent + MinResend]_vars
  BY UserKept DEF IInv
<1> QED BY SpecIInv, <1>1, PTL DEF Spec, ResendSpaced
=============================================================================
