------------------------------ MODULE Accounts ------------------------------
(***************************************************************************)
(* Accounts, the links emailed to them and their refresh tokens             *)
(* (auth/service.py, users/service.py).                                    *)
(*                                                                         *)
(* A request is one transaction at READ COMMITTED: it reads and decides (its *)
(* action); if it sweeps links or refresh tokens it flushes its UPDATEs and *)
(* starts those statements (Sweep: it now owns the user row and knows which *)
(* rows it will sweep); it commits.  A row a request holds makes the others *)
(* wait; a sweep looks again at each row it waited for, and never sees a row *)
(* inserted after it started.                                              *)
(*                                                                         *)
(* The administrator's own rights are in Organisation.                     *)
(***************************************************************************)
EXTENDS Integers, Sequences, FiniteSets

CONSTANTS
    User,           \* one email address each
    Request,        \* handler runs that may overlap
    Password, NoPassword, FirstPassword,
    Operation,      \* the operations an instance explores
    MaxLinks,       \* bound on emailed links
    MaxTokens       \* bound on refresh tokens

ASSUME AccountsAssumption ==
    /\ NoPassword \notin Password /\ FirstPassword \in Password
    /\ IsFiniteSet(Request)
    /\ MaxLinks \in Nat /\ MaxTokens \in Nat

VARIABLES
    account,        \* users, by email; Absent until inserted
    links,          \* user_tokens in the order of insertion
    tokens,         \* refresh_tokens in the order of insertion
    flight,         \* what each request is doing
    met             \* sign-outs that overlapped another request of the account

token_rows == <<links, tokens>>
vars == <<account, token_rows, flight, met>>

TokenPurpose == {"EMAIL_VERIFICATION", "PASSWORD_RESET", "INVITATION"}

Absent == [kind |-> "absent"]
Idle == [op |-> "idle"]

\* The purpose of the link an operation consumes, and of the one it issues.
Consumes == [verify_email |-> "EMAIL_VERIFICATION", reset_password |-> "PASSWORD_RESET",
             accept_invitation |-> "INVITATION"]
Issues == [resend_verification |-> "EMAIL_VERIFICATION", forgot_password |-> "PASSWORD_RESET",
           resend_invitation |-> "INVITATION"]

Consuming == DOMAIN Consumes
Issuing == DOMAIN Issues
SigningIn == {"login", "refresh"}

\* Mutant of Revoking: a reset leaves the sessions alone.
RevokingButReset == {"logout", "change_password", "deactivate", "replay"}

\* The operations that call revoke_all.
Revoking == {"logout", "change_password", "reset_password", "deactivate", "replay"}

Sweeping == Issuing \cup {"deactivate", "revoke_invitation"}

Flight(r) == flight[r].op # "idle"
Of(r) == flight[r].user

\* The rows a request keeps locked: its link (SELECT FOR UPDATE), its refresh
\* token (the UPDATE of refresh), and the user once it has written it.
LinkHeld(i) == \E r \in Request : Flight(r) /\ flight[r].op \in Consuming /\ flight[r].row = i
TokenHeld(t) == \E r \in Request : Flight(r) /\ flight[r].op = "refresh" /\ flight[r].row = t

Row == [kind : {"user"}, password : Password \cup {NoPassword}, verified : BOOLEAN,
        active : BOOLEAN, customer : BOOLEAN]

\* A link points at an account that was there, and the link a request holds has
\* the purpose its operation asks for.
TypeOK ==
    /\ account \in [User -> Row \cup {Absent}]
    /\ Len(links) <= MaxLinks
    /\ Len(tokens) <= MaxTokens
    /\ \A i \in DOMAIN links :
          /\ links[i].purpose \in TokenPurpose
          /\ links[i].state \in {"unused", "used", "deleted"}
          /\ account[links[i].user] # Absent
    /\ \A t \in DOMAIN tokens :
          /\ tokens[t].state \in {"live", "revoked"}
          /\ tokens[t].parent \in 0..(t - 1)
    /\ \A r \in Request :
          flight[r] # Idle =>
              /\ flight[r].stage \in {"sweep", "commit"}
              /\ flight[r].op \in Consuming =>
                    links[flight[r].row].purpose = Consumes[flight[r].op]

-----------------------------------------------------------------------------
(* Steps every request has.                                                 *)

\* Requests in flight count against the bounds.
RoomForLink ==
    Len(links) + Cardinality({r \in Request : flight[r].op \in Issuing}) < MaxLinks

RoomForToken ==
    Len(tokens) + Cardinality({r \in Request : flight[r].op \in SigningIn}) < MaxTokens

\* row: the link or refresh token the request is about, 0 for none.
Begin(r, op, u, row, password) ==
    /\ op \in Operation \cup {"replay"}
    /\ ~ Flight(r)
    /\ flight' = [flight EXCEPT ![r] =
                    [op |-> op, user |-> u, row |-> row, password |-> password,
                     was_active |-> account[u].active,
                     stage |-> IF op \in Sweeping \cup Revoking THEN "sweep" ELSE "commit",
                     links |-> {}, tokens |-> {}]]
    /\ LET others == {q \in Request \ {r} : Flight(q) /\ Of(q) = u}
       IN met' = met \cup {q \in others : flight[q].op \in Revoking}
                     \cup (IF others # {} /\ op \in Revoking THEN {r} ELSE {})
    /\ UNCHANGED <<account, token_rows>>

\* The fields an operation assigns.
Assigned(f) ==
    CASE f.op = "verify_email" -> [verified |-> TRUE, active |-> TRUE]
      [] f.op = "accept_invitation" ->
            [password |-> f.password, verified |-> TRUE, active |-> TRUE]
      [] f.op \in {"reset_password", "change_password"} -> [password |-> f.password]
      [] f.op = "activate" -> [active |-> TRUE]
      [] f.op = "deactivate" -> [active |-> FALSE]
      [] OTHER -> [x \in {} |-> TRUE]

\* A flush writes the fields that differ from what was loaded.  Hashes and
\* times always do.
Written(f) ==
    {x \in DOMAIN Assigned(f) : x # "active" \/ f.was_active # Assigned(f).active}

\* login writes last_login_at.
WritesUser(f) == f.op = "login" \/ Written(f) # {}

\* The others write the user and commit in one step.
UserHeld(u, r) ==
    \E q \in Request \ {r} :
        /\ Flight(q) /\ Of(q) = u /\ flight[q].op \in Sweeping \cup Revoking
        /\ flight[q].stage = "commit" /\ WritesUser(flight[q])

Unused(i) == links[i].state = "unused"

\* Which links the DELETE of an operation names.
Names(f, i) ==
    /\ links[i].user = f.user
    /\ CASE f.op \in Issuing -> links[i].purpose = Issues[f.op]
         [] f.op = "revoke_invitation" -> links[i].purpose = "INVITATION"
         [] OTHER -> TRUE

Sweep(r) ==
    LET f == flight[r] IN
    /\ Flight(r) /\ f.stage = "sweep"
    /\ WritesUser(f) => ~ UserHeld(f.user, r)
    /\ flight' = [flight EXCEPT
         ![r].stage = "commit",
         ![r].links = IF f.op \in Sweeping
                      THEN {i \in DOMAIN links : Names(f, i) /\ Unused(i)} ELSE {},
         ![r].tokens = IF f.op \in Revoking
                       THEN {t \in DOMAIN tokens :
                               tokens[t].user = f.user /\ tokens[t].state # "revoked"}
                       ELSE {}]
    /\ UNCHANGED <<account, token_rows, met>>

\* Rows another request still holds make the statement wait.
Clear(f) ==
    /\ \A i \in f.links : ~ LinkHeld(i)
    /\ \A t \in f.tokens : ~ TokenHeld(t)

RowAfter(f, row) ==
    [x \in DOMAIN row |-> IF x \in Written(f) THEN Assigned(f)[x] ELSE row[x]]

Link(u, purpose) == [user |-> u, purpose |-> purpose, state |-> "unused"]

LinksAfter(f) ==
    LET swept == [i \in DOMAIN links |->
                    IF f.op \in Consuming /\ i = f.row THEN [links[i] EXCEPT !.state = "used"]
                    ELSE IF i \in f.links /\ Unused(i) THEN [links[i] EXCEPT !.state = "deleted"]
                    ELSE links[i]]
    IN IF f.op \in Issuing THEN Append(swept, Link(f.user, Issues[f.op])) ELSE swept

\* login always issues a pair, refresh to an account that was active.
IssuesPair(f) == f.op = "login" \/ (f.op = "refresh" /\ f.was_active)

TokensAfter(f) ==
    LET swept == [t \in DOMAIN tokens |->
                    IF t \in f.tokens \/ (f.op = "refresh" /\ t = f.row)
                    THEN [tokens[t] EXCEPT !.state = "revoked"] ELSE tokens[t]]
        parent == IF f.op = "refresh" THEN f.row ELSE 0
    IN IF IssuesPair(f)
       THEN Append(swept, [user |-> f.user, state |-> "live", parent |-> parent])
       ELSE swept

Commit(r) ==
    LET f == flight[r] IN
    /\ Flight(r) /\ f.stage = "commit" /\ Clear(f)
    /\ WritesUser(f) => ~ UserHeld(f.user, r)
    /\ account' = [account EXCEPT ![f.user] = RowAfter(f, @)]
    /\ links' = LinksAfter(f)
    /\ tokens' = TokensAfter(f)
    /\ flight' = [flight EXCEPT ![r] = Idle]
    /\ met' = met \ {r}

\* A crash, a lost connection or the victim of a deadlock: nothing is written.
Abort(r) ==
    /\ Flight(r)
    /\ flight' = [flight EXCEPT ![r] = Idle]
    /\ met' = met \ {r}
    /\ UNCHANGED <<account, token_rows>>

-----------------------------------------------------------------------------
(* Accounts come to exist.                                                  *)

RegisteredRow(p) ==
    [kind |-> "user", password |-> p, verified |-> FALSE, active |-> FALSE, customer |-> TRUE]

InvitedRow ==
    [kind |-> "user", password |-> NoPassword, verified |-> FALSE, active |-> FALSE,
     customer |-> FALSE]

\* insert_user: the unique index refuses the second account of an address.
InsertUser(u, row, purpose) ==
    /\ account[u] = Absent /\ RoomForLink
    /\ account' = [account EXCEPT ![u] = row]
    /\ links' = Append(links, Link(u, purpose))
    /\ UNCHANGED <<tokens, flight, met>>

Register(u) == InsertUser(u, RegisteredRow(FirstPassword), "EMAIL_VERIFICATION")

Invite(u) == InsertUser(u, InvitedRow, "INVITATION")

-----------------------------------------------------------------------------
(* Links.                                                                   *)

\* Mutant of Usable: any link will do.
UsableForAll(i, purpose) == Unused(i)

\* consume_token.  An email that was lost or a link that expired is a link
\* nobody follows.
Usable(i, purpose) == links[i].purpose = purpose /\ Unused(i)

\* Mutant of Consume: no FOR UPDATE.
ConsumeUnlocked(r, op, i, p) ==
    Usable(i, Consumes[op]) /\ Begin(r, op, links[i].user, i, p)

Consume(r, op, i, p) ==
    Usable(i, Consumes[op]) /\ ~ LinkHeld(i) /\ Begin(r, op, links[i].user, i, p)

VerifyEmail(r, i) == Consume(r, "verify_email", i, NoPassword)

ResetPassword(r, i, p) == Consume(r, "reset_password", i, p)

AcceptInvitation(r, i, p) == Consume(r, "accept_invitation", i, p)

Ask(r, op, u) ==
    account[u] # Absent /\ RoomForLink /\ Begin(r, op, u, 0, NoPassword)

ResendVerification(r, u) ==
    Ask(r, "resend_verification", u) /\ ~ account[u].verified

\* An invited account has no password to forget.
ForgotPassword(r, u) ==
    Ask(r, "forgot_password", u) /\ account[u].password # NoPassword

PendingInvitee(u) == account[u] # Absent /\ account[u].password = NoPassword

ResendInvitation(r, u) == Ask(r, "resend_invitation", u) /\ PendingInvitee(u)

RevokeInvitation(r, u) ==
    PendingInvitee(u) /\ Begin(r, "revoke_invitation", u, 0, NoPassword)

-----------------------------------------------------------------------------
(* Sessions.                                                                *)

\* Mutant of Authenticated: an email nobody confirmed will do.
AuthenticatedUnverified(u, p) ==
    account[u] # Absent /\ account[u].password = p /\ account[u].active

Authenticated(u, p) ==
    account[u] # Absent /\ account[u].password = p /\ account[u].verified /\ account[u].active

Login(r, u, p) ==
    Authenticated(u, p) /\ RoomForToken /\ Begin(r, "login", u, 0, NoPassword)

\* Its guards read the same row, and the membership too.
CustomerLogin(r, u, p) == Login(r, u, p) /\ account[u].customer

\* Mutant of Rotates: the token is looked up before it is revoked.
RotatesUnlocked(t) == tokens[t].state = "live"

\* Mutant of Rotates: the UPDATE does not ask for revoked_at IS NULL.
RotatesAgain(t) == ~ TokenHeld(t)

\* The conditional UPDATE of refresh takes the row.
Rotates(t) == tokens[t].state = "live" /\ ~ TokenHeld(t)

Refresh(r, t) ==
    Rotates(t) /\ RoomForToken
    /\ Begin(r, "refresh", tokens[t].user, t, NoPassword)

\* A token that was rotated away or revoked comes back: its whole family goes.
Replay(r, t) ==
    tokens[t].state = "revoked" /\ Begin(r, "replay", tokens[t].user, 0, NoPassword)

\* get_current_user: the access token names an account, loaded anew each time.
SignedIn(u) ==
    account[u] # Absent /\ account[u].active /\ \E t \in DOMAIN tokens : tokens[t].user = u

Logout(r, u) == SignedIn(u) /\ Begin(r, "logout", u, 0, NoPassword)

ChangePassword(r, u, current, new) ==
    SignedIn(u) /\ account[u].password = current /\ Begin(r, "change_password", u, 0, new)

-----------------------------------------------------------------------------
(* update_by_admin.                                                         *)

Deactivate(r, u) == account[u] # Absent /\ Begin(r, "deactivate", u, 0, NoPassword)

Activate(r, u) == account[u] # Absent /\ Begin(r, "activate", u, 0, NoPassword)

-----------------------------------------------------------------------------

Init ==
    /\ account = [u \in User |-> Absent]
    /\ links = <<>> /\ tokens = <<>>
    /\ flight = [r \in Request |-> Idle]
    /\ met = {}

Links(r) ==
    \/ \E i \in DOMAIN links : VerifyEmail(r, i)
    \/ \E i \in DOMAIN links, p \in Password : ResetPassword(r, i, p)
    \/ \E i \in DOMAIN links, p \in Password : AcceptInvitation(r, i, p)
    \/ \E u \in User : ResendVerification(r, u)
    \/ \E u \in User : ForgotPassword(r, u)
    \/ \E u \in User : ResendInvitation(r, u)
    \/ \E u \in User : RevokeInvitation(r, u)

Sessions(r) ==
    \/ \E u \in User, p \in Password : Login(r, u, p)
    \/ \E u \in User, p \in Password : CustomerLogin(r, u, p)
    \/ \E t \in DOMAIN tokens : Refresh(r, t)
    \/ \E t \in DOMAIN tokens : Replay(r, t)
    \/ \E u \in User : Logout(r, u)
    \/ \E u \in User, current, new \in Password : ChangePassword(r, u, current, new)

Next ==
    \/ \E r \in Request :
          \/ Links(r)
          \/ Sessions(r)
          \/ \E u \in User : Deactivate(r, u)
          \/ \E u \in User : Activate(r, u)
          \/ Sweep(r)
          \/ Commit(r)
          \/ Abort(r)
    \/ \E u \in User : Register(u)
    \/ \E u \in User : Invite(u)

Spec == Init /\ [][Next]_vars

-----------------------------------------------------------------------------
(* Properties.                                                              *)

\* refresh: "two concurrent refreshes of one token cannot both win it".
OneSuccessor ==
    \A t, s \in DOMAIN tokens :
        tokens[t].parent = tokens[s].parent /\ tokens[t].parent # 0 => t = s

\* Whatever links were resent, expired, revoked and used, a session belongs to
\* someone who has confirmed the address and has a password.
SessionsAreEarned ==
    \A t \in DOMAIN tokens :
        LET row == account[tokens[t].user] IN
        row # Absent /\ row.verified /\ row.password # NoPassword

Spent(u, purpose) ==
    \E i \in DOMAIN links :
        /\ links[i].user = u /\ links[i].purpose = purpose
        /\ links[i].state = "unused" /\ links'[i].state = "used"

Finished(op, u) ==
    \E r \in Request : flight[r].op = op /\ flight[r].user = u /\ flight'[r] = Idle

PaidFor(u) ==
    LET old == account[u]
        new == account'[u]
    IN old # Absent /\ new # old =>
         /\ new.verified # old.verified =>
               Spent(u, "EMAIL_VERIFICATION") \/ Spent(u, "INVITATION")
         /\ new.password # old.password =>
               IF old.password = NoPassword THEN Spent(u, "INVITATION")
               ELSE \/ Spent(u, "PASSWORD_RESET") \/ Spent(u, "INVITATION")
                    \/ Finished("change_password", u)
         /\ new.active # old.active =>
               \/ Spent(u, "EMAIL_VERIFICATION") \/ Spent(u, "INVITATION")
               \/ Finished("activate", u) \/ Finished("deactivate", u)

\* consume_token: a step that confirms an address, replaces a password or lets
\* an account in either uses up a link sent for that purpose, or is the owner's
\* change of password or the administrator's switch.
LinkPaysForChange == [][\A u \in User : PaidFor(u)]_vars

\* logout "ends all devices", reset_password ends the sessions of "whoever held
\* the old password", a deactivation "ends the 7-day refresh window too" and
\* takes "every outstanding emailed link" back: so they do whenever no other
\* request of the account overlapped.  A session issued meanwhile survives.
QuietSignOutIsTotal ==
    [][\A r \in Request :
         LET f == flight[r] IN
         /\ f.op \in {"logout", "change_password", "reset_password", "deactivate", "replay"}
         /\ r \notin met /\ Commit(r)
         => /\ \A t \in DOMAIN tokens' : tokens'[t].user = f.user => tokens'[t].state = "revoked"
            /\ f.op = "deactivate" =>
                  \A i \in DOMAIN links' :
                      links'[i].user = f.user => links'[i].state \in {"used", "deleted"}]_vars

\* A device is the token of a login and those refreshed from it.
Device == 1..MaxTokens

Ancestor[t \in Device] ==
    IF t \notin DOMAIN tokens \/ tokens[t].parent = 0 THEN t ELSE Ancestor[tokens[t].parent]

Seen == {Ancestor[t] : t \in DOMAIN tokens}

HasSession == {Ancestor[t] : t \in {s \in DOMAIN tokens : tokens[s].state = "live"}}

\* Rotation never signs a device out, and what was revoked, replayed or expired
\* never comes back to life.
Abstract == INSTANCE Devices WITH signed_in <- HasSession, ended <- Seen \ HasSession

DevicesEndForGood == Abstract!Spec

-----------------------------------------------------------------------------
(* The code's own words, where two requests at once break them.             *)

\* issue_token: "only the link in the most recent email works"
\* (auth/service.py:62): no two links of one account and purpose can be used.
OnlyLatestLinkWorks ==
    \A i, j \in DOMAIN links :
        /\ links[i].user = links[j].user /\ links[i].purpose = links[j].purpose
        /\ Unused(i) /\ Unused(j)
        => i = j

\* "logout ends all devices" (auth/service.py:250): no refreshed token of the
\* account outlives it.  A device that signs in meanwhile may.
LogoutEndsAllDevices ==
    [][\A r \in Request :
         flight[r].op = "logout" /\ Commit(r) =>
            \A t \in DOMAIN tokens' :
                tokens'[t].user = flight[r].user /\ tokens'[t].parent # 0
                => tokens'[t].state = "revoked"]_vars
=============================================================================
