------------------------------ MODULE Accounts ------------------------------
(***************************************************************************)
(* Who may use the API: accounts, the mailed tokens that confirm an        *)
(* address or reset a password, and the refresh tokens of sessions.        *)
(*                                                                         *)
(* A handler is a request of its own, as in JobEscrow.  Here most handlers *)
(* write in several statements without a transaction: each is a step.      *)
(* Users are employers, workers and admins.  Employers and workers         *)
(* register; an admin is created, verified, by the super admin.            *)
(***************************************************************************)
EXTENDS Integers, FiniteSets

CONSTANTS
  Users,        \* rows of table users that may ever be created
  Emails,       \* addresses
  Tokens,       \* rows of table email_verifications, numbered as they are created
  Sessions,     \* rows of table refresh_tokens that may ever be created
  Requests,     \* handlers the server may be executing
  None,         \* no address, no row
  Staff,        \* the users that are admins
  Managed,      \* users whom admins suspend, activate, delete or unverify
  MaxInFlight   \* bound: handlers between their first read and their last write

ASSUME AccountsAssumption ==
  /\ Tokens \subseteq Nat
  /\ None \notin Users \cup Emails \cup Sessions
  /\ Staff \subseteq Users
  /\ Managed \subseteq Users \ Staff
  /\ MaxInFlight \in Nat \ {0}

\* A server runs finitely many handlers at a time.
ASSUME AccountsFiniteness == IsFiniteSet(Requests)

VARIABLES
  accounts,   \* table users
  tokens,     \* table email_verifications, and whether the link was mailed
  sessions,   \* table refresh_tokens, and the login each row goes back to (so to a user)
  inflight    \* what each handler holds in its local variables

vars == <<accounts, tokens, sessions, inflight>>

Purposes == {"REGISTER", "CHANGE_EMAIL", "RESET_PASSWORD"}
VerificationStatus == {"UNVERIFIED", "EMAIL_VERIFIED", "FULL_VERIFIED"}

\* deleteUser replaces the address by one that nobody has: None.
AccountRow == [status : {"unborn", "live", "deleted"}, email : Emails \cup {None},
               verified : VerificationStatus, suspended : BOOLEAN]
TokenRow == [status : {"unborn", "created", "mailed", "expired", "revoked", "used"},
             user : Users \cup {None}, email : Emails \cup {None}, purpose : Purposes]
SessionRow == [status : {"unborn", "live", "expired", "rotated", "ended"},
               login : Sessions \cup {None}]

NoAccount == [status |-> "unborn", email |-> None, verified |-> "UNVERIFIED", suspended |-> FALSE]
NoToken   == [status |-> "unborn", user |-> None, email |-> None, purpose |-> "REGISTER"]
NoSession == [status |-> "unborn", login |-> None]

Idle == [op |-> "idle"]

\* A handler in flight: its next step, its parameters and what it has read.
Request ==
  {Idle}
  \cup [op : {"register", "createAdmin"}, email : Emails]
  \cup [op : {"updateAdmin"}, user : Staff, email : Emails]
  \cup [op : {"findChange"}, user : Users]
  \cup [op : {"revoke", "createToken"}, user : Users, email : Emails \cup {None},
        purpose : Purposes]
  \cup [op : {"mail", "verify", "reset"}, token : Tokens]
  \cup [op : {"rotate"}, session : Sessions]
  \cup [op : {"createSession"}, login : Sessions \cup {None}]

\* Shape of the tables and of the handlers' locals.
AccountsTypeOK ==
  /\ accounts \in [Users -> AccountRow]
  /\ tokens \in [Tokens -> TokenRow]
  /\ sessions \in [Sessions -> SessionRow]
  /\ inflight \in [Requests -> Request]

Init ==
  /\ accounts = [u \in Users |-> NoAccount]
  /\ tokens = [t \in Tokens |-> NoToken]
  /\ sessions = [s \in Sessions |-> NoSession]
  /\ inflight = [r \in Requests |-> Idle]

-----------------------------------------------------------------------------
Exists(u) == accounts[u].status # "unborn"

Load == Cardinality({r \in Requests : inflight[r] # Idle})

\* A handler's first read, and a later step of it that reads only.
Begin(r, q) ==
  /\ inflight[r] = Idle
  /\ Load < MaxInFlight
  /\ inflight' = [inflight EXCEPT ![r] = q]
  /\ UNCHANGED <<accounts, tokens, sessions>>

Proceed(r, q) == inflight' = [inflight EXCEPT ![r] = q]

\* A failed guard or constraint, mail that is not sent, a lost connection, a crash:
\* what earlier steps wrote stays.
Abort(r) ==
  /\ inflight[r] # Idle
  /\ Proceed(r, Idle)
  /\ UNCHANGED <<accounts, tokens, sessions>>

-----------------------------------------------------------------------------
(***************************************************************************)
(* Mailed tokens: revoke the earlier ones, create the new one, mail it.    *)
(***************************************************************************)
Send(u, e, p) == [op |-> "revoke", user |-> u, email |-> e, purpose |-> p]

\* Slip: only links that have expired are revoked.
RevocableIfExpired(t, u, p) ==
  tokens[t].user = u /\ tokens[t].purpose = p /\ tokens[t].status = "expired"

Revocable(t, u, p) ==
  tokens[t].user = u /\ tokens[t].purpose = p /\ tokens[t].status \in {"created", "mailed", "expired"}

Revoke(r) ==
  /\ inflight[r].op = "revoke"
  /\ tokens' = [t \in Tokens |-> IF Revocable(t, inflight[r].user, inflight[r].purpose)
                                 THEN [tokens[t] EXCEPT !.status = "revoked"] ELSE tokens[t]]
  /\ Proceed(r, [inflight[r] EXCEPT !.op = "createToken"])
  /\ UNCHANGED <<accounts, sessions>>

CreateToken(r) ==
  /\ inflight[r].op = "createToken"
  /\ \E t \in Tokens :
       /\ tokens[t].status = "unborn"
       /\ \A v \in Tokens : v < t => tokens[v].status # "unborn"
       /\ tokens' = [tokens EXCEPT ![t] =
            [status |-> "created", user |-> inflight[r].user, email |-> inflight[r].email,
             purpose |-> inflight[r].purpose]]
       /\ Proceed(r, [op |-> "mail", token |-> t])
  /\ UNCHANGED <<accounts, sessions>>

\* Only the mailbox learns the token; the table has its hash.  Mail that is not
\* accepted raises an error (Abort).
SendEmail(t) ==
  tokens' = IF tokens[t].status = "created" /\ tokens[t].email # None
            THEN [tokens EXCEPT ![t].status = "mailed"] ELSE tokens

Mail(r) ==
  /\ inflight[r].op = "mail"
  /\ SendEmail(inflight[r].token)
  /\ Proceed(r, Idle)
  /\ UNCHANGED <<accounts, sessions>>

\* 24 hours pass.
ExpireToken(t) ==
  /\ tokens[t].status = "mailed"
  /\ tokens' = [tokens EXCEPT ![t].status = "expired"]
  /\ UNCHANGED <<accounts, sessions, inflight>>

-----------------------------------------------------------------------------
(***************************************************************************)
(* Who asks for a mail.                                                    *)
(***************************************************************************)
Claimed(e) == \E u \in Users : accounts[u].email = e

RegisterRead(r, e) == ~ Claimed(e) /\ Begin(r, [op |-> "register", email |-> e])

\* users.email is UNIQUE.
Unique(u, e) == \A v \in Users \ {u} : accounts[v].email # e

\* User and wallet are one transaction; the first mail follows.
RegisterCommit(r) ==
  /\ inflight[r].op = "register"
  /\ \E u \in Users \ Staff :
       /\ accounts[u].status = "unborn"
       /\ Unique(u, inflight[r].email)
       /\ accounts' = [accounts EXCEPT ![u] =
                         [NoAccount EXCEPT !.status = "live", !.email = inflight[r].email]]
       /\ Proceed(r, Send(u, inflight[r].email, "REGISTER"))
  /\ UNCHANGED <<tokens, sessions>>

\* Answers the same when there is no such user, or a suspended or deleted one.
ForgotPassword(r, u) ==
  /\ accounts[u].status = "live" /\ ~ accounts[u].suspended
  /\ Begin(r, Send(u, accounts[u].email, "RESET_PASSWORD"))

\* The routes of these two are for employers and workers.
RequestChangeEmail(r, u, e) ==
  /\ Exists(u) /\ u \notin Staff
  /\ ~ Claimed(e)
  /\ Begin(r, Send(u, e, "CHANGE_EMAIL"))

Resend(r, u, p) ==
  /\ Exists(u) /\ u \notin Staff
  /\ p = "REGISTER" => accounts[u].verified = "UNVERIFIED"
  /\ Begin(r, IF p = "CHANGE_EMAIL" THEN [op |-> "findChange", user |-> u]
                                    ELSE Send(u, accounts[u].email, p))

\* The address of the latest change that is still pending.
ResendFindChange(r) ==
  /\ inflight[r].op = "findChange"
  /\ \E t \in Tokens :
       /\ Revocable(t, inflight[r].user, "CHANGE_EMAIL")
       /\ \A v \in Tokens : v > t => ~ Revocable(v, inflight[r].user, "CHANGE_EMAIL")
       /\ Proceed(r, Send(inflight[r].user, tokens[t].email, "CHANGE_EMAIL"))
  /\ UNCHANGED <<accounts, tokens, sessions>>

-----------------------------------------------------------------------------
(***************************************************************************)
(* Who uses a token.  Reading it, and the transaction that uses it, are    *)
(* separate; the transaction does not look at it again.                    *)
(***************************************************************************)
Usable(t) == tokens[t].status = "mailed"

UseToken(t) == tokens' = [tokens EXCEPT ![t].status = "used"]

\* Slip: a link that was revoked is not refused.
VerifyReadRevoked(r, t) ==
  /\ tokens[t].status \in {"mailed", "revoked"}
  /\ Begin(r, [op |-> "verify", token |-> t])

\* verifyEmail does not ask for a purpose: a link to reset a password is used up by it.
VerifyRead(r, t) == Usable(t) /\ Begin(r, [op |-> "verify", token |-> t])

\* Slip: every link confirms the account.
ConfirmAlways(t) ==
  accounts' = [accounts EXCEPT ![tokens[t].user].verified = "EMAIL_VERIFIED"]

Confirm(t) ==
  LET row == tokens[t] IN
  \/ /\ row.purpose = "REGISTER"
     /\ accounts' = [accounts EXCEPT ![row.user].verified = "EMAIL_VERIFIED"]
  \/ /\ row.purpose = "CHANGE_EMAIL"
     /\ Unique(row.user, row.email)
     /\ accounts' = [accounts EXCEPT ![row.user].verified = "EMAIL_VERIFIED",
                                     ![row.user].email = row.email]
  \/ /\ row.purpose = "RESET_PASSWORD"
     /\ UNCHANGED accounts

VerifyCommit(r) ==
  /\ inflight[r].op = "verify"
  /\ UseToken(inflight[r].token)
  /\ Confirm(inflight[r].token)
  /\ Proceed(r, Idle)
  /\ UNCHANGED sessions

ResetRead(r, t) ==
  /\ Usable(t)
  /\ tokens[t].purpose = "RESET_PASSWORD"
  /\ Begin(r, [op |-> "reset", token |-> t])

\* The password itself is not modelled.
ResetCommit(r) ==
  /\ inflight[r].op = "reset"
  /\ UseToken(inflight[r].token)
  /\ Proceed(r, Idle)
  /\ UNCHANGED <<accounts, sessions>>

-----------------------------------------------------------------------------
(***************************************************************************)
(* Sessions.                                                               *)
(***************************************************************************)

\* Address and password are right; whether the account is suspended is not asked.
LoginRead(r, u) ==
  /\ Exists(u) /\ accounts[u].email # None
  /\ Begin(r, [op |-> "createSession", login |-> None])

CreateSession(r) ==
  /\ inflight[r].op = "createSession"
  /\ \E s \in Sessions :
       /\ sessions[s].status = "unborn"
       /\ sessions' = [sessions EXCEPT ![s] =
            [status |-> "live",
             login |-> IF inflight[r].login = None THEN s ELSE inflight[r].login]]
  /\ Proceed(r, Idle)
  /\ UNCHANGED <<accounts, tokens>>

RefreshRead(r, s) ==
  /\ sessions[s].status = "live"
  /\ Begin(r, [op |-> "rotate", session |-> s])

InTable(s) == sessions[s].status \in {"live", "expired"}

Successor(s) == [op |-> "createSession", login |-> sessions[s].login]

\* Slips: a row that is gone already counts as deleted; the row is not deleted.
DeleteManyForRotation(r) ==
  /\ inflight[r].op = "rotate"
  /\ sessions' = [sessions EXCEPT ![inflight[r].session].status = "rotated"]
  /\ Proceed(r, Successor(inflight[r].session))
  /\ UNCHANGED <<accounts, tokens>>

KeepForRotation(r) ==
  /\ inflight[r].op = "rotate"
  /\ Proceed(r, Successor(inflight[r].session))
  /\ UNCHANGED <<accounts, tokens, sessions>>

\* `delete' throws when the row is not there.
RotateDelete(r) ==
  /\ inflight[r].op = "rotate"
  /\ InTable(inflight[r].session)
  /\ sessions' = [sessions EXCEPT ![inflight[r].session].status = "rotated"]
  /\ Proceed(r, Successor(inflight[r].session))
  /\ UNCHANGED <<accounts, tokens>>

\* One deleteMany; a row that is gone already is left alone.
Logout(s) ==
  /\ Load < MaxInFlight
  /\ InTable(s)
  /\ sessions' = [sessions EXCEPT ![s].status = "ended"]
  /\ UNCHANGED <<accounts, tokens, inflight>>

\* Seven days pass.
ExpireSession(s) ==
  /\ sessions[s].status = "live"
  /\ sessions' = [sessions EXCEPT ![s].status = "expired"]
  /\ UNCHANGED <<accounts, tokens, inflight>>

-----------------------------------------------------------------------------
(***************************************************************************)
(* Admins.  What they read never changes (existence, role, wallet): one    *)
(* step each.  The wallets they write with it are in JobEscrow.            *)
(***************************************************************************)
Manage(u, row) ==
  /\ Load < MaxInFlight
  /\ Exists(u)
  /\ accounts' = [accounts EXCEPT ![u] = row]
  /\ UNCHANGED <<tokens, sessions, inflight>>

\* What the validation lets through.
Requestable == {"UNVERIFIED", "PENDING", "VERIFIED", "REJECTED"}

\* Slip: the column takes whatever was validated.
UpdateVerificationUnchecked(u) ==
  \E v \in Requestable : Manage(u, [accounts[u] EXCEPT !.verified = v])

\* The column's type has only one of these values; the others raise an error.
UpdateVerification(u) ==
  \E v \in Requestable \cap VerificationStatus : Manage(u, [accounts[u] EXCEPT !.verified = v])

SuspendAccount(u)  == Manage(u, [accounts[u] EXCEPT !.suspended = TRUE])
ActivateAccount(u) == Manage(u, [accounts[u] EXCEPT !.suspended = FALSE])
DeleteUser(u)      == Manage(u, [accounts[u] EXCEPT !.status = "deleted", !.email = None])

-----------------------------------------------------------------------------
(***************************************************************************)
(* Accounts of admins.  Nobody confirms their addresses.                   *)
(***************************************************************************)
CreateAdminRead(r, e) == ~ Claimed(e) /\ Begin(r, [op |-> "createAdmin", email |-> e])

\* The role is created verified.
CreateAdminCommit(r) ==
  /\ inflight[r].op = "createAdmin"
  /\ \E u \in Staff :
       /\ accounts[u].status = "unborn"
       /\ Unique(u, inflight[r].email)
       /\ accounts' = [accounts EXCEPT ![u] =
            [NoAccount EXCEPT !.status = "live", !.email = inflight[r].email,
                              !.verified = "EMAIL_VERIFIED"]]
  /\ Proceed(r, Idle)
  /\ UNCHANGED <<tokens, sessions>>

\* Slip: the search forgets is_deleted.
UpdateAdminReadDeleted(r, u, e) ==
  /\ Exists(u)
  /\ e = accounts[u].email \/ ~ Claimed(e)
  /\ Begin(r, [op |-> "updateAdmin", user |-> u, email |-> e])

UpdateAdminRead(r, u, e) ==
  /\ accounts[u].status = "live"
  /\ e = accounts[u].email \/ ~ Claimed(e)
  /\ Begin(r, [op |-> "updateAdmin", user |-> u, email |-> e])

\* By id alone: also when the admin has been deleted since.
UpdateAdminCommit(r) ==
  /\ inflight[r].op = "updateAdmin"
  /\ Unique(inflight[r].user, inflight[r].email)
  /\ accounts' = [accounts EXCEPT ![inflight[r].user].email = inflight[r].email]
  /\ Proceed(r, Idle)
  /\ UNCHANGED <<tokens, sessions>>

\* Whether the admin was deleted before is not asked.
DeleteAdmin(u) == Manage(u, [accounts[u] EXCEPT !.status = "deleted", !.email = None])

-----------------------------------------------------------------------------
TokenStep(r) ==
  \/ \E e \in Emails : RegisterRead(r, e)
  \/ RegisterCommit(r)
  \/ Revoke(r)
  \/ CreateToken(r)
  \/ Mail(r)
  \/ \E u \in Users : ForgotPassword(r, u)
  \/ \E u \in Users, e \in Emails : RequestChangeEmail(r, u, e)
  \/ \E u \in Users, p \in Purposes : Resend(r, u, p)
  \/ ResendFindChange(r)
  \/ \E t \in Tokens : VerifyRead(r, t)
  \/ VerifyCommit(r)
  \/ \E t \in Tokens : ResetRead(r, t)
  \/ ResetCommit(r)

SessionStep(r) ==
  \/ \E u \in Users : LoginRead(r, u)
  \/ CreateSession(r)
  \/ \E s \in Sessions : RefreshRead(r, s)
  \/ RotateDelete(r)

AdminStep(u) ==
  \/ UpdateVerification(u)
  \/ SuspendAccount(u)
  \/ ActivateAccount(u)
  \/ DeleteUser(u)

StaffStep(r) ==
  \/ \E e \in Emails : CreateAdminRead(r, e)
  \/ CreateAdminCommit(r)
  \/ \E u \in Staff, e \in Emails : UpdateAdminRead(r, u, e)
  \/ UpdateAdminCommit(r)

Next ==
  \/ \E r \in Requests : TokenStep(r) \/ SessionStep(r) \/ StaffStep(r) \/ Abort(r)
  \/ \E t \in Tokens : ExpireToken(t)
  \/ \E s \in Sessions : Logout(s) \/ ExpireSession(s)
  \/ \E u \in Managed : AdminStep(u)
  \/ \E u \in Staff : DeleteAdmin(u)

Spec == Init /\ [][Next]_vars

-----------------------------------------------------------------------------
(***************************************************************************)
(* What holds however the handlers interleave.                             *)
(***************************************************************************)

\* A refresh token is rotated at most once: each login has at most one session,
\* whoever refreshes twice at the same time.  (Only `delete', which throws when the
\* row is gone, ensures it; refresh reads, deletes and creates in three calls.)
OneSessionPerLogin ==
  \A s, v \in Sessions :
    InTable(s) /\ InTable(v) /\ sessions[s].login = sessions[v].login => s = v

\* A verified employer's or worker's present address was confirmed from its mailbox, by a link
\* made for that, whatever mails, changes of address and admins did in between.
\* (verifyEmail; a stale link for an earlier address must not confirm a later one.)
VerifiedMeansConfirmed ==
  \A u \in Users \ Staff :
    accounts[u].status = "live" /\ accounts[u].verified = "EMAIL_VERIFIED" =>
      \E t \in Tokens :
        /\ tokens[t].status = "used" /\ tokens[t].user = u
        /\ tokens[t].email = accounts[u].email
        /\ tokens[t].purpose \in {"REGISTER", "CHANGE_EMAIL"}

-----------------------------------------------------------------------------
(***************************************************************************)
(* What holds when handlers run one after the other (MaxInFlight = 1).     *)
(***************************************************************************)

\* A user has at most one working link for each purpose.
\* ("Revoke previous unverified tokens for same user and purpose".)
OneLinkPerPurpose ==
  \A t, v \in Tokens :
    /\ Usable(t) /\ Usable(v)
    /\ tokens[t].user = tokens[v].user /\ tokens[t].purpose = tokens[v].purpose
    => t = v

\* Only the latest link of its kind works: a new one makes the earlier ones useless,
\* used, expired or not, whatever else the user asks for.
\* (The filters of verifyEmail and verifyAndResetPassword, and what revoke leaves.)
OnlyTheLatestLinkWorks ==
  [][\A t, v \in Tokens :
       /\ tokens'[t].status = "used" /\ tokens[t].status # "used"
       /\ tokens[v].user = tokens[t].user /\ tokens[v].purpose = tokens[t].purpose
       => v <= t]_vars

\* A deleted account has given its address away for good: whoever has one again confirmed it
\* by a link for that, so a deleted admin has none.
\* (What deleteUser and deleteAdmin erase; "Verify admin exists" in updateAdmin.)
DeletedStayNameless ==
  \A u \in Users : accounts[u].status = "deleted" /\ accounts[u].email # None =>
    \E t \in Tokens :
      /\ tokens[t].status = "used" /\ tokens[t].user = u
      /\ tokens[t].email = accounts[u].email /\ tokens[t].purpose = "CHANGE_EMAIL"

\* Somebody who logged out stays logged out: no session of that login is left.
\* (logout deletes the row; refresh must not bring it back.)
LoggedOutStaysOut ==
  \A s, v \in Sessions :
    sessions[s].status = "ended" /\ InTable(v) => sessions[s].login # sessions[v].login
=============================================================================
