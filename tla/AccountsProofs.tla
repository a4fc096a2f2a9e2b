--------------------------- MODULE AccountsProofs ---------------------------
(***************************************************************************)
(* Proofs, for any number of users, addresses, links, sessions and         *)
(* handlers, of what Accounts states about every interleaving.             *)
(***************************************************************************)
EXTENDS Accounts, FiniteSetTheorems, TLAPS

\* Handler r is about to give login l its next session.
Succeeds(r, l) == inflight[r].op = "createSession" /\ inflight[r].login = l

\* A login has begun by the time a session or a handler goes back to it.
LoginsBegun ==
  /\ \A s \in Sessions : InTable(s) =>
       sessions[s].login \in Sessions /\ sessions[sessions[s].login].status # "unborn"
  /\ \A r \in Requests, l \in Sessions : Succeeds(r, l) => sessions[l].status # "unborn"

\* A login lives on in one place: a row, or one handler between its delete and its create.
OneHeir ==
  /\ OneSessionPerLogin
  /\ \A r \in Requests, s \in Sessions : InTable(s) => ~ Succeeds(r, sessions[s].login)
  /\ \A r, q \in Requests, l \in Sessions : Succeeds(r, l) /\ Succeeds(q, l) => r = q

Sends(q, u) == q.op \in {"revoke", "createToken"} /\ q.user = u

\* Nobody writes to a user who has not registered.
UnbornAreAlone ==
  \A u \in Users : accounts[u].status = "unborn" =>
    /\ \A t \in Tokens : tokens[t].user # u
    /\ \A r \in Requests :
         ~ Sends(inflight[r], u) /\ ~ (inflight[r].op = "findChange" /\ inflight[r].user = u)

ChangedTo(u, e) ==
  \E t \in Tokens : /\ tokens[t].status = "used" /\ tokens[t].user = u
                    /\ tokens[t].email = e /\ tokens[t].purpose = "CHANGE_EMAIL"

RegisteredAs(u, e) ==
  /\ \A t \in Tokens :
       tokens[t].user = u /\ tokens[t].purpose = "REGISTER" => tokens[t].email = e
  /\ \A r \in Requests :
       Sends(inflight[r], u) /\ inflight[r].purpose = "REGISTER" => inflight[r].email = e

Origin(u) == ChangedTo(u, accounts[u].email) \/ RegisteredAs(u, accounts[u].email)

\* An employer's or worker's address was confirmed by a change, or is the one of every first mail: a
\* link of a first mail is then for the address in use, or for one already confirmed.
AddressesHaveOrigin == \A u \in Users \ Staff : accounts[u].status = "live" => Origin(u)

IInv ==
  /\ AccountsTypeOK
  /\ LoginsBegun
  /\ OneHeir
  /\ UnbornAreAlone
  /\ AddressesHaveOrigin
  /\ VerifiedMeansConfirmed

-----------------------------------------------------------------------------
\* The fields a request record has, by the step it waits for.
LEMMA RequestFields ==
  ASSUME NEW q \in Request
  PROVE  /\ q.op \in {"register", "createAdmin", "updateAdmin"} => q.email \in Emails
         /\ q.op = "updateAdmin" => q.user \in Staff
         /\ q.op \in {"revoke", "createToken", "findChange"} => q.user \in Users
         /\ q.op \in {"revoke", "createToken"} =>
              q.email \in Emails \cup {None} /\ q.purpose \in Purposes
         /\ q.op \in {"mail", "verify", "reset"} => q.token \in Tokens
         /\ q.op = "rotate" => q.session \in Sessions
         /\ q.op = "createSession" => q.login \in Sessions \cup {None}
BY DEF Request, Idle

\* What a handler may hold after any of its steps but the delete of a refresh: no
\* login, an account that exists, and for a first mail the address in use (unless
\* the address was changed).
Harmless(q) ==
  /\ q \in Request
  /\ q.op = "createSession" => q.login = None
  /\ q.op \in {"revoke", "createToken", "findChange"} => Exists(q.user)
  /\ q.op \in {"revoke", "createToken"} /\ q.purpose = "REGISTER" =>
       ~ RegisteredAs(q.user, accounts[q.user].email) \/ q.email = accounts[q.user].email

HandlersQuiet ==
  /\ inflight' \in [Requests -> Request]
  /\ \A r \in Requests : inflight'[r] = inflight[r] \/ Harmless(inflight'[r])

\* No row of a mailed token is lost or rewritten, apart from its status.
TokensStay ==
  \A t \in Tokens :
    /\ tokens'[t].user = tokens[t].user
    /\ tokens'[t].email = tokens[t].email
    /\ tokens'[t].purpose = tokens[t].purpose
    /\ tokens[t].status = "used" => tokens'[t].status = "used"

\* A handler that has ended holds nothing.
LEMMA IdleHarmless == Harmless(Idle)
BY DEF Harmless, Request, Idle

\* One handler goes on to something harmless.
LEMMA OneHandlerMoves ==
  ASSUME AccountsTypeOK, NEW r \in Requests, NEW q, Harmless(q), Proceed(r, q)
  PROVE  HandlersQuiet
BY DEF AccountsTypeOK, Proceed, HandlersQuiet, Harmless

\* A step of nobody in flight.
LEMMA NoHandlerMoves ==
  ASSUME AccountsTypeOK, UNCHANGED inflight
  PROVE  HandlersQuiet
BY DEF AccountsTypeOK, HandlersQuiet

\* Steps that leave sessions alone.
LEMMA LoginsKept ==
  ASSUME AccountsTypeOK, LoginsBegun, OneHeir, HandlersQuiet, UNCHANGED sessions
  PROVE  LoginsBegun' /\ OneHeir'
<1>1. \A r \in Requests, l \in Sessions : Succeeds(r, l)' => Succeeds(r, l)
  BY AccountsAssumption DEF HandlersQuiet, Harmless, Succeeds
<1>2. \A s \in Sessions : InTable(s)' <=> InTable(s)
  BY DEF InTable
<1>3. LoginsBegun'
  BY <1>1, <1>2 DEF LoginsBegun
<1>4. OneSessionPerLogin'
  BY <1>2 DEF OneHeir, OneSessionPerLogin
<1>5. \A r \in Requests, s \in Sessions : InTable(s)' => ~ Succeeds(r, sessions[s].login)'
  BY <1>1, <1>2 DEF OneHeir, LoginsBegun
<1>6. \A r, q \in Requests, l \in Sessions : Succeeds(r, l)' /\ Succeeds(q, l)' => r = q
  BY <1>1 DEF OneHeir
<1>. QED  BY <1>3, <1>4, <1>5, <1>6 DEF OneHeir

\* Steps that create no account and no link.
LEMMA OriginsKept ==
  ASSUME IInv, HandlersQuiet, TokensStay,
         \A u \in Users :
           /\ accounts'[u].status = "unborn" => accounts[u].status = "unborn"
           /\ u \notin Staff /\ accounts'[u].status = "live" =>
                /\ accounts[u].status = "live"
                /\ accounts'[u].email = accounts[u].email \/ ChangedTo(u, accounts[u].email)'
  PROVE  UnbornAreAlone' /\ AddressesHaveOrigin'
<1>1. UnbornAreAlone'
  <2>. SUFFICES ASSUME NEW u \in Users, accounts'[u].status = "unborn"
                PROVE  /\ \A t \in Tokens : tokens'[t].user # u
                       /\ \A r \in Requests :
                            /\ ~ Sends(inflight'[r], u)
                            /\ ~ (inflight'[r].op = "findChange" /\ inflight'[r].user = u)
    BY DEF UnbornAreAlone, Sends
  <2>1. accounts[u].status = "unborn"
    OBVIOUS
  <2>. QED  BY <2>1 DEF IInv, UnbornAreAlone, TokensStay, HandlersQuiet, Harmless, Exists, Sends
<1>2. ASSUME NEW u \in Users \ Staff, accounts'[u].status = "live" PROVE Origin(u)'
  <2>1. CASE ChangedTo(u, accounts[u].email)'
    BY <2>1 DEF Origin
  <2>2. CASE accounts'[u].email = accounts[u].email /\ ChangedTo(u, accounts[u].email)
    BY <2>2 DEF Origin, ChangedTo, TokensStay
  <2>3. CASE accounts'[u].email = accounts[u].email /\ RegisteredAs(u, accounts[u].email)
    <3>1. \A t \in Tokens : tokens'[t].user = u /\ tokens'[t].purpose = "REGISTER" =>
            tokens'[t].email = accounts'[u].email
      BY <2>3 DEF RegisteredAs, TokensStay
    <3>2. \A r \in Requests : Sends(inflight'[r], u) /\ inflight'[r].purpose = "REGISTER" =>
            inflight'[r].email = accounts'[u].email
      <4>. SUFFICES ASSUME NEW r \in Requests, Sends(inflight'[r], u),
                           inflight'[r].purpose = "REGISTER"
                    PROVE  inflight'[r].email = accounts'[u].email
        OBVIOUS
      <4>1. CASE inflight'[r] = inflight[r]
        BY <2>3, <4>1 DEF RegisteredAs, Sends
      <4>2. CASE Harmless(inflight'[r])
        BY <2>3, <4>2 DEF Harmless, Sends
      <4>. QED  BY <4>1, <4>2 DEF HandlersQuiet
    <3>. QED  BY <3>1, <3>2 DEF Origin, RegisteredAs, Sends
  <2>4. accounts[u].status = "live" /\ Origin(u)
    BY <1>2 DEF IInv, AddressesHaveOrigin
  <2>. QED  BY <1>2, <2>1, <2>2, <2>3, <2>4 DEF Origin
<1>. QED  BY <1>1, <1>2 DEF AddressesHaveOrigin

\* Steps that verify nobody and move no verified account to another address.
LEMMA ConfirmedKept ==
  ASSUME VerifiedMeansConfirmed,
         \A t \in Tokens : tokens[t].status = "used" =>
           /\ tokens'[t].user = tokens[t].user /\ tokens'[t].email = tokens[t].email
           /\ tokens'[t].purpose = tokens[t].purpose /\ tokens'[t].status = "used",
         NEW u \in Users \ Staff,
         accounts'[u].status = "live" /\ accounts'[u].verified = "EMAIL_VERIFIED" =>
           /\ accounts[u].status = "live" /\ accounts[u].verified = "EMAIL_VERIFIED"
           /\ accounts'[u].email = accounts[u].email
  PROVE  accounts'[u].status = "live" /\ accounts'[u].verified = "EMAIL_VERIFIED" =>
           \E t \in Tokens :
             /\ tokens'[t].status = "used" /\ tokens'[t].user = u
             /\ tokens'[t].email = accounts'[u].email
             /\ tokens'[t].purpose \in {"REGISTER", "CHANGE_EMAIL"}
BY DEF VerifiedMeansConfirmed

\* Steps that write no account: readers, and those that only move links or sessions.
LEMMA AccountsUntouched ==
  ASSUME IInv, HandlersQuiet, TokensStay, tokens' \in [Tokens -> TokenRow],
         sessions' \in [Sessions -> SessionRow], UNCHANGED accounts, LoginsBegun', OneHeir'
  PROVE  IInv'
<1>1. AccountsTypeOK'
  BY DEF IInv, AccountsTypeOK, HandlersQuiet
<1>2. UnbornAreAlone' /\ AddressesHaveOrigin'
  BY OriginsKept
<1>3. VerifiedMeansConfirmed'
  BY ConfirmedKept DEF IInv, TokensStay, VerifiedMeansConfirmed
<1>. QED  BY <1>1, <1>2, <1>3 DEF IInv

\* Steps that write no table.
LEMMA ReadersKeepIInv ==
  ASSUME IInv, HandlersQuiet, UNCHANGED <<accounts, tokens, sessions>>
  PROVE  IInv'
<1>1. TokensStay /\ LoginsBegun' /\ OneHeir'
  BY LoginsKept DEF IInv, TokensStay
<1>. QED  BY <1>1, AccountsUntouched DEF IInv, AccountsTypeOK

-----------------------------------------------------------------------------
\* Handlers that only read, and those that stop.
LEMMA Readers ==
  ASSUME IInv, NEW r \in Requests,
         \/ \E e \in Emails : RegisterRead(r, e)
         \/ \E u \in Users : ForgotPassword(r, u)
         \/ \E u \in Users, e \in Emails : RequestChangeEmail(r, u, e)
         \/ \E u \in Users, p \in Purposes : Resend(r, u, p)
         \/ ResendFindChange(r)
         \/ \E t \in Tokens : VerifyRead(r, t)
         \/ \E t \in Tokens : ResetRead(r, t)
         \/ \E u \in Users : LoginRead(r, u)
         \/ \E s \in Sessions : RefreshRead(r, s)
         \/ \E e \in Emails : CreateAdminRead(r, e)
         \/ \E u \in Staff, e \in Emails : UpdateAdminRead(r, u, e)
         \/ Abort(r)
  PROVE  IInv'
<1>1. ASSUME NEW q, Harmless(q), Proceed(r, q), UNCHANGED <<accounts, tokens, sessions>>
      PROVE  IInv'
  BY <1>1, OneHandlerMoves, ReadersKeepIInv DEF IInv
<1>2. ASSUME NEW e \in Emails, RegisterRead(r, e)  PROVE IInv'
  <2>1. Harmless([op |-> "register", email |-> e])
    BY DEF Harmless, Request
  <2>. QED  BY <1>2, <2>1, <1>1 DEF RegisterRead, Begin, Proceed
<1>3. ASSUME NEW u \in Users, ForgotPassword(r, u)  PROVE IInv'
  <2>1. Harmless(Send(u, accounts[u].email, "RESET_PASSWORD"))
    BY <1>3 DEF ForgotPassword, Harmless, Send, Request, Purposes, Exists,
                IInv, AccountsTypeOK, AccountRow
  <2>. QED  BY <1>3, <2>1, <1>1 DEF ForgotPassword, Begin, Proceed
<1>4. ASSUME NEW u \in Users, NEW e \in Emails, RequestChangeEmail(r, u, e)  PROVE IInv'
  <2>1. Harmless(Send(u, e, "CHANGE_EMAIL"))
    BY <1>4 DEF RequestChangeEmail, Harmless, Send, Request, Purposes
  <2>. QED  BY <1>4, <2>1, <1>1 DEF RequestChangeEmail, Begin, Proceed
<1>5. ASSUME NEW u \in Users, NEW p \in Purposes, Resend(r, u, p)  PROVE IInv'
  <2>1. Harmless([op |-> "findChange", user |-> u])
    BY <1>5 DEF Resend, Harmless, Request
  <2>2. Harmless(Send(u, accounts[u].email, p))
    BY <1>5 DEF Resend, Harmless, Send, Request, IInv, AccountsTypeOK, AccountRow
  <2>. QED  BY <1>5, <2>1, <2>2, <1>1 DEF Resend, Begin, Proceed
<1>6. CASE ResendFindChange(r)
  <2>1. PICK t \in Tokens : Proceed(r, Send(inflight[r].user, tokens[t].email, "CHANGE_EMAIL"))
    BY <1>6 DEF ResendFindChange
  <2>2. inflight[r].op = "findChange" /\ inflight[r].user \in Users
    BY <1>6, RequestFields DEF ResendFindChange, IInv, AccountsTypeOK
  <2>3. Harmless(Send(inflight[r].user, tokens[t].email, "CHANGE_EMAIL"))
    BY <2>2 DEF Harmless, Send, Request, Purposes, Exists, IInv, UnbornAreAlone,
                AccountsTypeOK, TokenRow
  <2>. QED  BY <1>6, <2>1, <2>3, <1>1 DEF ResendFindChange
<1>7. ASSUME NEW t \in Tokens, VerifyRead(r, t)  PROVE IInv'
  <2>1. Harmless([op |-> "verify", token |-> t])
    BY DEF Harmless, Request
  <2>. QED  BY <1>7, <2>1, <1>1 DEF VerifyRead, Begin, Proceed
<1>8. ASSUME NEW t \in Tokens, ResetRead(r, t)  PROVE IInv'
  <2>1. Harmless([op |-> "reset", token |-> t])
    BY DEF Harmless, Request
  <2>. QED  BY <1>8, <2>1, <1>1 DEF ResetRead, Begin, Proceed
<1>9. ASSUME NEW u \in Users, LoginRead(r, u)  PROVE IInv'
  <2>1. Harmless([op |-> "createSession", login |-> None])
    BY DEF Harmless, Request
  <2>. QED  BY <1>9, <2>1, <1>1 DEF LoginRead, Begin, Proceed
<1>10. ASSUME NEW s \in Sessions, RefreshRead(r, s)  PROVE IInv'
  <2>1. Harmless([op |-> "rotate", session |-> s])
    BY DEF Harmless, Request
  <2>. QED  BY <1>10, <2>1, <1>1 DEF RefreshRead, Begin, Proceed
<1>11. CASE Abort(r)
  BY <1>11, IdleHarmless, <1>1 DEF Abort
<1>12. ASSUME NEW e \in Emails, CreateAdminRead(r, e)  PROVE IInv'
  <2>1. Harmless([op |-> "createAdmin", email |-> e])
    BY DEF Harmless, Request
  <2>. QED  BY <1>12, <2>1, <1>1 DEF CreateAdminRead, Begin, Proceed
<1>13. ASSUME NEW u \in Staff, NEW e \in Emails, UpdateAdminRead(r, u, e)  PROVE IInv'
  <2>1. Harmless([op |-> "updateAdmin", user |-> u, email |-> e])
    BY AccountsAssumption DEF Harmless, Request
  <2>. QED  BY <1>13, <2>1, <1>1 DEF UpdateAdminRead, Begin, Proceed
<1>. QED  BY <1>2, <1>3, <1>4, <1>5, <1>6, <1>7, <1>8, <1>9, <1>10, <1>11, <1>12, <1>13

-----------------------------------------------------------------------------
\* A login's session is created, by a login or by a refresh that deleted its row.
LEMMA CreateSessionStep ==
  ASSUME IInv, NEW r \in Requests, CreateSession(r)
  PROVE  IInv'
<1>1. /\ inflight[r].op = "createSession" /\ inflight[r].login \in Sessions \cup {None}
      /\ inflight' = [inflight EXCEPT ![r] = Idle]
      /\ UNCHANGED <<accounts, tokens>>
  BY RequestFields DEF CreateSession, Proceed, IInv, AccountsTypeOK
<1>. DEFINE l(s) == IF inflight[r].login = None THEN s ELSE inflight[r].login
<1>2. PICK n \in Sessions :
        /\ sessions[n].status = "unborn"
        /\ sessions' = [sessions EXCEPT ![n] = [status |-> "live", login |-> l(n)]]
  BY DEF CreateSession
<1>3. l(n) \in Sessions
  BY <1>1, <1>2
<1>4. \A s \in Sessions : sessions'[s] = IF s = n THEN [status |-> "live", login |-> l(n)]
                                                  ELSE sessions[s]
  BY <1>2 DEF IInv, AccountsTypeOK
<1>5. sessions' \in [Sessions -> SessionRow]
  BY <1>2, <1>3 DEF IInv, AccountsTypeOK, SessionRow
<1>6. HandlersQuiet /\ TokensStay /\ tokens' \in [Tokens -> TokenRow]
  BY <1>1, OneHandlerMoves, IdleHarmless DEF IInv, AccountsTypeOK, Proceed, TokensStay
<1>7. \A q \in Requests, k \in Sessions : Succeeds(q, k)' => q # r /\ Succeeds(q, k)
  BY <1>1 DEF Succeeds, Idle, IInv, AccountsTypeOK
<1>8. ~ InTable(n) /\ \A s \in Sessions : InTable(s)' <=> s = n \/ InTable(s)
  BY <1>2, <1>4 DEF InTable
<1>9. LoginsBegun'
  <2>1. sessions'[l(n)].status # "unborn"
    BY <1>1, <1>3, <1>4 DEF IInv, LoginsBegun, Succeeds
  <2>. HIDE DEF l
  <2>2. \A s \in Sessions : sessions[s].status # "unborn" => sessions'[s].status # "unborn"
    BY <1>4
  <2>. QED  BY <1>3, <1>4, <1>7, <1>8, <2>1, <2>2 DEF IInv, LoginsBegun
\* Nobody else holds the login the new row goes back to.
<1>10. /\ \A s \in Sessions : InTable(s) => sessions[s].login # l(n)
       /\ \A q \in Requests \ {r} : ~ Succeeds(q, l(n))
  <2>1. CASE inflight[r].login = None
    BY <1>2, <2>1 DEF IInv, LoginsBegun
  <2>2. CASE inflight[r].login \in Sessions
    <3>1. Succeeds(r, l(n))
      BY <1>1, <2>2, AccountsAssumption DEF Succeeds
    <3>. QED  BY <1>3, <3>1 DEF IInv, OneHeir
  <2>. QED  BY <1>1, <2>1, <2>2
<1>11. OneHeir'
  <2>. HIDE DEF l
  <2>1. OneSessionPerLogin'
    BY <1>4, <1>8, <1>10 DEF IInv, OneHeir, OneSessionPerLogin
  <2>2. \A q \in Requests, s \in Sessions : InTable(s)' => ~ Succeeds(q, sessions[s].login)'
    <3>. SUFFICES ASSUME NEW q \in Requests, NEW s \in Sessions, InTable(s)',
                         Succeeds(q, sessions[s].login)'
                  PROVE  FALSE
      OBVIOUS
    <3>1. sessions'[s].login \in Sessions
      BY <1>9 DEF LoginsBegun
    <3>2. q # r /\ Succeeds(q, sessions'[s].login)
      BY <1>7, <3>1 DEF Succeeds
    <3>. QED  BY <1>4, <1>8, <1>10, <3>2 DEF IInv, OneHeir
  <2>3. \A q, p \in Requests, k \in Sessions : Succeeds(q, k)' /\ Succeeds(p, k)' => q = p
    BY <1>7 DEF IInv, OneHeir
  <2>. QED  BY <2>1, <2>2, <2>3 DEF OneHeir
<1>. QED  BY <1>1, <1>5, <1>6, <1>9, <1>11, AccountsUntouched

\* A refresh takes its row away and goes on with its login.
LEMMA RotateDeleteStep ==
  ASSUME IInv, NEW r \in Requests, RotateDelete(r)
  PROVE  IInv'
<1>. DEFINE n == inflight[r].session
            k == sessions[n].login
<1>1. /\ n \in Sessions /\ InTable(n)
      /\ sessions' = [sessions EXCEPT ![n].status = "rotated"]
      /\ inflight' = [inflight EXCEPT ![r] = Successor(n)]
      /\ UNCHANGED <<accounts, tokens>>
  BY RequestFields DEF RotateDelete, Proceed, IInv, AccountsTypeOK
<1>2. k \in Sessions /\ sessions[k].status # "unborn"
  BY <1>1 DEF IInv, LoginsBegun
<1>. HIDE DEF n
<1>3. \A s \in Sessions : /\ sessions'[s].login = sessions[s].login
                          /\ sessions'[s].status = IF s = n THEN "rotated" ELSE sessions[s].status
  BY <1>1 DEF IInv, AccountsTypeOK, SessionRow
<1>4. sessions' \in [Sessions -> SessionRow]
  BY <1>1 DEF IInv, AccountsTypeOK, SessionRow
<1>5. \A s \in Sessions : InTable(s)' <=> s # n /\ InTable(s)
  BY <1>3 DEF InTable
<1>6. \A q \in Requests : inflight'[q] = IF q = r THEN Successor(n) ELSE inflight[q]
  BY <1>1 DEF IInv, AccountsTypeOK
<1>7. \A q \in Requests, l \in Sessions :
        Succeeds(q, l)' <=> (q = r /\ l = k) \/ (q # r /\ Succeeds(q, l))
  BY <1>6 DEF Succeeds, Successor
<1>8. LoginsBegun'
  BY <1>2, <1>3, <1>5, <1>7 DEF IInv, LoginsBegun
<1>9. OneHeir'
  <2>1. OneSessionPerLogin'
    BY <1>3, <1>5 DEF IInv, OneHeir, OneSessionPerLogin
  <2>2. ASSUME NEW q \in Requests, NEW s \in Sessions, InTable(s)',
               Succeeds(q, sessions[s].login)'
        PROVE  FALSE
    <3>1. s # n /\ InTable(s) /\ sessions[s].login \in Sessions
      BY <1>5, <2>2 DEF IInv, LoginsBegun
    <3>2. Succeeds(q, sessions[s].login)'  <=> inflight'[q].op = "createSession" /\ inflight'[q].login = sessions[s].login
      BY <1>3 DEF Succeeds
    <3>3. (q = r /\ sessions[s].login = k) \/ (q # r /\ Succeeds(q, sessions[s].login))
      BY <1>7, <2>2, <3>1, <3>2 DEF Succeeds
    <3>. QED  BY <1>1, <3>1, <3>3 DEF IInv, OneHeir, OneSessionPerLogin
  <2>3. \A q, p \in Requests, l \in Sessions : Succeeds(q, l)' /\ Succeeds(p, l)' => q = p
    BY <1>1, <1>7 DEF IInv, OneHeir
  <2>. QED  BY <2>1, <2>2, <2>3 DEF OneHeir
<1>10. UnbornAreAlone' /\ AddressesHaveOrigin'
  <2>1. \A q \in Requests, u \in Users : Sends(inflight'[q], u) => inflight'[q] = inflight[q]
    BY <1>6 DEF Sends, Successor
  <2>2. \A q \in Requests : inflight'[q].op = "findChange" => inflight'[q] = inflight[q]
    BY <1>6 DEF Successor
  <2>3. UnbornAreAlone'
    BY <1>1, <2>1, <2>2 DEF IInv, UnbornAreAlone, Sends
  <2>4. ASSUME NEW u \in Users \ Staff, accounts[u].status = "live" PROVE Origin(u)'
    BY <1>1, <2>1, <2>4 DEF IInv, AddressesHaveOrigin, Origin, ChangedTo, RegisteredAs, Sends
  <2>. QED  BY <1>1, <2>3, <2>4 DEF AddressesHaveOrigin
<1>11. AccountsTypeOK'
  <2>1. Successor(n) \in Request
    BY <1>2 DEF Successor, Request
  <2>. QED  BY <1>1, <1>4, <2>1 DEF IInv, AccountsTypeOK
<1>12. VerifiedMeansConfirmed'
  BY <1>1 DEF IInv, VerifiedMeansConfirmed
<1>. QED  BY <1>8, <1>9, <1>10, <1>11, <1>12 DEF IInv

\* Logging out and expiring take rows away or leave them in the table.
LEMMA SessionEndsStep ==
  ASSUME IInv, NEW n \in Sessions, Logout(n) \/ ExpireSession(n)
  PROVE  IInv'
<1>1. /\ \A s \in Sessions : /\ sessions'[s].login = sessions[s].login
                             /\ InTable(s)' => InTable(s)
                             /\ sessions[s].status # "unborn" => sessions'[s].status # "unborn"
      /\ sessions' \in [Sessions -> SessionRow]
  BY DEF Logout, ExpireSession, InTable, IInv, AccountsTypeOK, SessionRow
<1>2. UNCHANGED <<accounts, tokens, inflight>>
  BY DEF Logout, ExpireSession
<1>3. LoginsBegun'
  BY <1>1, <1>2 DEF IInv, LoginsBegun, Succeeds
<1>4. OneHeir'
  BY <1>1, <1>2 DEF IInv, OneHeir, OneSessionPerLogin, Succeeds
<1>5. HandlersQuiet /\ TokensStay /\ tokens' \in [Tokens -> TokenRow]
  BY <1>2, NoHandlerMoves DEF IInv, AccountsTypeOK, TokensStay
<1>. QED  BY <1>1, <1>2, <1>3, <1>4, <1>5, AccountsUntouched

-----------------------------------------------------------------------------
\* Writes to the links that leave accounts alone, apart from new rows.
LEMMA LinksStep ==
  ASSUME IInv,
         \/ \E r \in Requests : Revoke(r) \/ Mail(r) \/ ResetCommit(r)
         \/ \E t \in Tokens : ExpireToken(t)
  PROVE  IInv'
<1>1. ASSUME HandlersQuiet, TokensStay, tokens' \in [Tokens -> TokenRow],
             UNCHANGED <<accounts, sessions>>
      PROVE  IInv'
  BY <1>1, LoginsKept, AccountsUntouched DEF IInv, AccountsTypeOK
<1>2. ASSUME NEW r \in Requests, Revoke(r)  PROVE IInv'
  <2>. DEFINE q == [inflight[r] EXCEPT !.op = "createToken"]
  <2>1. inflight[r] \in Request /\ inflight[r].op = "revoke"
    BY <1>2 DEF Revoke, IInv, AccountsTypeOK
  <2>2. /\ q \in Request /\ q.op = "createToken" /\ q.user = inflight[r].user
        /\ q.email = inflight[r].email /\ q.purpose = inflight[r].purpose
    BY <2>1 DEF Request, Idle
  <2>3. inflight[r].user \in Users /\ Exists(inflight[r].user)
    BY <2>1, RequestFields DEF IInv, UnbornAreAlone, Sends, Exists
  <2>. HIDE DEF q
  <2>4. Harmless(q)
    BY <2>1, <2>2, <2>3 DEF Harmless, RegisteredAs, Sends
  <2>5. TokensStay /\ tokens' \in [Tokens -> TokenRow]
    BY <1>2 DEF Revoke, Revocable, TokensStay, IInv, AccountsTypeOK, TokenRow
  <2>6. Proceed(r, q) /\ UNCHANGED <<accounts, sessions>>
    BY <1>2 DEF Revoke, q
  <2>. QED  BY <1>1, <2>4, <2>5, <2>6, OneHandlerMoves DEF IInv
<1>3. ASSUME NEW r \in Requests, Mail(r)  PROVE IInv'
  <2>1. TokensStay /\ tokens' \in [Tokens -> TokenRow]
    BY <1>3 DEF Mail, SendEmail, TokensStay, IInv, AccountsTypeOK, TokenRow
  <2>. QED  BY <1>1, <1>3, <2>1, IdleHarmless, OneHandlerMoves DEF Mail, IInv
<1>4. ASSUME NEW r \in Requests, ResetCommit(r)  PROVE IInv'
  <2>1. TokensStay /\ tokens' \in [Tokens -> TokenRow]
    BY <1>4 DEF ResetCommit, UseToken, TokensStay, IInv, AccountsTypeOK, TokenRow
  <2>. QED  BY <1>1, <1>4, <2>1, IdleHarmless, OneHandlerMoves DEF ResetCommit, IInv
<1>5. ASSUME NEW t \in Tokens, ExpireToken(t)  PROVE IInv'
  <2>1. TokensStay /\ tokens' \in [Tokens -> TokenRow]
    BY <1>5 DEF ExpireToken, TokensStay, IInv, AccountsTypeOK, TokenRow
  <2>. QED  BY <1>1, <1>5, <2>1, NoHandlerMoves DEF ExpireToken, IInv
<1>. QED  BY <1>2, <1>3, <1>4, <1>5

\* A new link is for an account that exists, and for a first mail its own address.
LEMMA CreateTokenStep ==
  ASSUME IInv, NEW r \in Requests, CreateToken(r)
  PROVE  IInv'
<1>. DEFINE q == inflight[r]
<1>1. /\ q.op = "createToken" /\ q.user \in Users /\ q.email \in Emails \cup {None}
      /\ q.purpose \in Purposes
  BY RequestFields DEF CreateToken, IInv, AccountsTypeOK
<1>. DEFINE row == [status |-> "created", user |-> q.user, email |-> q.email,
                    purpose |-> q.purpose]
<1>2. PICK n \in Tokens :
        /\ tokens[n].status = "unborn"
        /\ tokens' = [tokens EXCEPT ![n] = row]
        /\ Proceed(r, [op |-> "mail", token |-> n])
  BY DEF CreateToken
<1>3. UNCHANGED <<accounts, sessions>>
  BY DEF CreateToken
<1>4. row \in TokenRow
  BY <1>1 DEF TokenRow
<1>. HIDE DEF q
<1>5. \A t \in Tokens : tokens'[t] = IF t = n THEN row ELSE tokens[t]
  BY <1>2 DEF IInv, AccountsTypeOK
<1>6. Harmless([op |-> "mail", token |-> n])
  BY <1>2 DEF Harmless, Request
<1>7. HandlersQuiet
  BY <1>2, <1>6, OneHandlerMoves DEF IInv
<1>8. AccountsTypeOK'
  BY <1>2, <1>3, <1>4, <1>7 DEF IInv, AccountsTypeOK, HandlersQuiet
<1>9. LoginsBegun' /\ OneHeir'
  BY <1>3, <1>7, LoginsKept DEF IInv
<1>10. VerifiedMeansConfirmed'
  BY <1>2, <1>3, <1>5, ConfirmedKept DEF IInv, VerifiedMeansConfirmed
<1>11. \A p \in Requests : \/ inflight'[p] = inflight[p]
                           \/ inflight'[p].op = "mail"
  BY <1>2 DEF Proceed, IInv, AccountsTypeOK
<1>12. UnbornAreAlone'
  <2>1. accounts[q.user].status # "unborn"
    BY <1>1 DEF IInv, UnbornAreAlone, Sends, q
  <2>. QED  BY <1>3, <1>5, <1>11, <2>1 DEF IInv, UnbornAreAlone, Sends
<1>13. ASSUME NEW u \in Users \ Staff, accounts[u].status = "live"  PROVE Origin(u)'
  <2>1. CASE ChangedTo(u, accounts[u].email)
    <3>1. PICK t \in Tokens : /\ tokens[t].status = "used" /\ tokens[t].user = u
                              /\ tokens[t].email = accounts[u].email
                              /\ tokens[t].purpose = "CHANGE_EMAIL"
      BY <2>1 DEF ChangedTo
    <3>2. tokens'[t] = tokens[t]
      BY <1>2, <1>5, <3>1
    <3>. QED  BY <1>3, <3>1, <3>2 DEF Origin, ChangedTo
  <2>2. CASE RegisteredAs(u, accounts[u].email)
    <3>1. row.user = u /\ row.purpose = "REGISTER" => row.email = accounts[u].email
      BY <1>1, <2>2 DEF RegisteredAs, Sends, q
    <3>. HIDE DEF row
    <3>2. RegisteredAs(u, accounts[u].email)'
      BY <1>3, <1>5, <1>11, <2>2, <3>1 DEF RegisteredAs, Sends
    <3>. QED  BY <3>2 DEF Origin
  <2>. QED  BY <1>13, <2>1, <2>2 DEF IInv, AddressesHaveOrigin, Origin
<1>14. AddressesHaveOrigin'
  BY <1>3, <1>13 DEF IInv, AddressesHaveOrigin
<1>. QED  BY <1>8, <1>9, <1>10, <1>12, <1>14 DEF IInv

\* A user registers: nobody has written to it before.
LEMMA RegisterCommitStep ==
  ASSUME IInv, NEW r \in Requests, RegisterCommit(r)
  PROVE  IInv'
<1>. DEFINE e == inflight[r].email
<1>1. inflight[r].op = "register" /\ e \in Emails
  BY RequestFields DEF RegisterCommit, IInv, AccountsTypeOK
<1>. DEFINE row == [NoAccount EXCEPT !.status = "live", !.email = e]
<1>2. PICK n \in Users \ Staff :
        /\ accounts[n].status = "unborn" /\ Unique(n, e)
        /\ accounts' = [accounts EXCEPT ![n] = row]
        /\ Proceed(r, Send(n, e, "REGISTER"))
  BY DEF RegisterCommit
<1>3. UNCHANGED <<tokens, sessions>>
  BY DEF RegisterCommit
<1>. HIDE DEF e
<1>4. row \in AccountRow /\ row.status = "live" /\ row.email = e /\ row.verified = "UNVERIFIED"
  BY <1>1 DEF AccountRow, NoAccount, VerificationStatus
<1>. HIDE DEF row
<1>5. \A u \in Users : accounts'[u] = IF u = n THEN row ELSE accounts[u]
  BY <1>2 DEF IInv, AccountsTypeOK
<1>. DEFINE q == Send(n, e, "REGISTER")
<1>6. /\ q \in Request /\ q.op = "revoke" /\ q.user = n /\ q.email = e
  BY <1>1 DEF Send, Request, Purposes
<1>7. \A p \in Requests : inflight'[p] = IF p = r THEN q ELSE inflight[p]
  BY <1>2 DEF Proceed, IInv, AccountsTypeOK
<1>. HIDE DEF q
<1>8. AccountsTypeOK'
  BY <1>2, <1>3, <1>4, <1>6 DEF IInv, AccountsTypeOK, Proceed, q
<1>9. LoginsBegun' /\ OneHeir'
  <2>1. \A p \in Requests, l \in Sessions : Succeeds(p, l)' => Succeeds(p, l)
    BY <1>6, <1>7 DEF Succeeds
  <2>2. LoginsBegun'
    BY <1>3, <2>1 DEF IInv, LoginsBegun, InTable
  <2>3. \A p \in Requests, s \in Sessions : InTable(s)' => ~ Succeeds(p, sessions[s].login)'
    BY <1>3, <2>1 DEF IInv, LoginsBegun, OneHeir, InTable
  <2>4. OneSessionPerLogin'
    BY <1>3 DEF IInv, OneHeir, OneSessionPerLogin, InTable
  <2>. QED  BY <2>1, <2>2, <2>3, <2>4 DEF IInv, OneHeir
<1>10. UnbornAreAlone'
  BY <1>3, <1>4, <1>5, <1>6, <1>7 DEF IInv, UnbornAreAlone, Sends
<1>11. ASSUME NEW u \in Users \ Staff, accounts'[u].status = "live"  PROVE Origin(u)'
  <2>1. CASE u = n
    <3>1. \A t \in Tokens : tokens'[t].user # n
      BY <1>2, <1>3 DEF IInv, UnbornAreAlone
    <3>2. \A p \in Requests : Sends(inflight'[p], n) => inflight'[p].email = accounts'[n].email
      BY <1>2, <1>4, <1>5, <1>6, <1>7 DEF IInv, UnbornAreAlone, Sends
    <3>. QED  BY <2>1, <3>1, <3>2 DEF Origin, RegisteredAs, Sends
  <2>2. CASE u # n
    <3>1. accounts'[u] = accounts[u] /\ Origin(u)
      BY <1>5, <1>11, <2>2 DEF IInv, AddressesHaveOrigin
    <3>2. \A p \in Requests : Sends(inflight'[p], u) => inflight'[p] = inflight[p]
      BY <1>6, <1>7, <2>2 DEF Sends
    <3>. QED  BY <1>3, <3>1, <3>2 DEF Origin, ChangedTo, RegisteredAs, Sends
  <2>. QED  BY <2>1, <2>2
<1>12. VerifiedMeansConfirmed'
  BY <1>3, <1>4, <1>5, ConfirmedKept DEF IInv, VerifiedMeansConfirmed
<1>. QED  BY <1>8, <1>9, <1>10, <1>11, <1>12 DEF IInv, AddressesHaveOrigin

\* A link is used and the account confirmed.
LEMMA VerifyCommitStep ==
  ASSUME IInv, NEW r \in Requests, VerifyCommit(r)
  PROVE  IInv'
<1>1. PICK n \in Tokens :
      /\ n = inflight[r].token
      /\ Proceed(r, Idle) /\ UNCHANGED sessions
      /\ tokens' = [tokens EXCEPT ![n].status = "used"]
      /\ Confirm(n)
  BY RequestFields DEF VerifyCommit, UseToken, IInv, AccountsTypeOK
<1>2. HandlersQuiet
  BY <1>1, IdleHarmless, OneHandlerMoves DEF IInv
<1>. PICK w : w = tokens[n].user
  OBVIOUS
<1>3. TokensStay /\ tokens' \in [Tokens -> TokenRow] /\ tokens'[n].status = "used"
  BY <1>1 DEF TokensStay, IInv, AccountsTypeOK, TokenRow
<1>4. \A u \in Users \ {w} : accounts'[u] = accounts[u]
  BY <1>1 DEF Confirm, IInv, AccountsTypeOK
<1>5. w \in Users =>
        /\ accounts'[w].status = accounts[w].status
        /\ accounts'[w].suspended = accounts[w].suspended
        /\ \/ /\ tokens[n].purpose = "REGISTER"
              /\ accounts'[w].email = accounts[w].email
              /\ accounts'[w].verified = "EMAIL_VERIFIED"
           \/ /\ tokens[n].purpose = "CHANGE_EMAIL"
              /\ accounts'[w].email = tokens[n].email
              /\ accounts'[w].verified = "EMAIL_VERIFIED"
           \/ accounts'[w] = accounts[w]
  BY <1>1 DEF Confirm, IInv, AccountsTypeOK, AccountRow
<1>6. accounts' \in [Users -> AccountRow]
  BY <1>1 DEF Confirm, IInv, AccountsTypeOK, AccountRow, TokenRow, VerificationStatus
<1>7. AccountsTypeOK'
  BY <1>1, <1>2, <1>3, <1>6 DEF IInv, AccountsTypeOK, HandlersQuiet
<1>8. LoginsBegun' /\ OneHeir'
  BY <1>1, <1>2, LoginsKept DEF IInv
<1>9. w \in Users /\ accounts'[w].email # accounts[w].email =>
        ChangedTo(w, accounts[w].email)'
  BY <1>1, <1>3, <1>5 DEF ChangedTo, TokensStay
<1>10. UnbornAreAlone' /\ AddressesHaveOrigin'
  <2>1. ASSUME NEW u \in Users
        PROVE  /\ accounts'[u].status = "unborn" => accounts[u].status = "unborn"
               /\ accounts'[u].status = "live" =>
                    /\ accounts[u].status = "live"
                    /\ \/ accounts'[u].email = accounts[u].email
                       \/ ChangedTo(u, accounts[u].email)'
    <3>1. CASE u = w
      BY <1>5, <1>9, <3>1
    <3>2. CASE u # w
      BY <1>4, <3>2
    <3>. QED  BY <3>1, <3>2
  <2>. QED  BY <1>2, <1>3, <2>1, OriginsKept
<1>11. VerifiedMeansConfirmed'
  <2>. SUFFICES ASSUME NEW u \in Users \ Staff, accounts'[u].status = "live",
                       accounts'[u].verified = "EMAIL_VERIFIED"
                PROVE  \E t \in Tokens :
                         /\ tokens'[t].status = "used" /\ tokens'[t].user = u
                         /\ tokens'[t].email = accounts'[u].email
                         /\ tokens'[t].purpose \in {"REGISTER", "CHANGE_EMAIL"}
    BY DEF VerifiedMeansConfirmed
  <2>1. CASE u # w \/ accounts'[w] = accounts[w]
    <3>1. accounts'[u] = accounts[u]
      BY <1>4, <2>1
    <3>. QED  BY <1>3, <3>1 DEF IInv, VerifiedMeansConfirmed, TokensStay
  <2>2. CASE u = w /\ tokens[n].purpose = "CHANGE_EMAIL" /\ accounts'[w].email = tokens[n].email
    BY <1>1, <1>3, <2>2 DEF TokensStay
  \* A link of a first mail: for the address in use, or a change confirmed this one.
  <2>3. CASE u = w /\ tokens[n].purpose = "REGISTER" /\ accounts'[w].email = accounts[w].email
    <3>1. CASE ChangedTo(u, accounts[u].email)
      BY <1>3, <2>3, <3>1 DEF ChangedTo, TokensStay
    <3>2. CASE RegisteredAs(u, accounts[u].email)
      <4>1. tokens[n].user = u
        BY <2>3
      <4>2. tokens[n].email = accounts[u].email
        BY <1>1, <2>3, <3>2, <4>1 DEF RegisteredAs
      <4>. QED  BY <1>1, <1>3, <2>3, <4>1, <4>2 DEF TokensStay
    <3>3. accounts[u].status = "live"
      BY <1>5, <2>3
    <3>. QED  BY <3>1, <3>2, <3>3 DEF IInv, AddressesHaveOrigin, Origin
  <2>. QED  BY <1>5, <2>1, <2>2, <2>3
<1>. QED  BY <1>7, <1>8, <1>10, <1>11 DEF IInv

\* What an admin does verifies nobody and gives nobody an address.
LEMMA AdminKeepsIInv ==
  ASSUME IInv, NEW n \in Users, AdminStep(n) \/ DeleteAdmin(n)
  PROVE  IInv'
<1>1. UNCHANGED <<tokens, sessions, inflight>> /\ Exists(n)
  BY DEF AdminStep, UpdateVerification, SuspendAccount, ActivateAccount, DeleteUser, DeleteAdmin, Manage
<1>2. \A u \in Users :
        /\ accounts'[u].status \in {accounts[u].status, "deleted"}
        /\ accounts'[u].status # "deleted" =>
             /\ accounts'[u].email = accounts[u].email
             /\ accounts'[u].verified \in {accounts[u].verified, "UNVERIFIED"}
        /\ accounts'[u].email \in {accounts[u].email, None}
  <2>1. ASSUME NEW row, Manage(n, row)
        PROVE  \A u \in Users : accounts'[u] = IF u = n THEN row ELSE accounts[u]
    BY <2>1 DEF Manage, IInv, AccountsTypeOK
  <2>2. accounts[n] \in AccountRow
    BY DEF IInv, AccountsTypeOK
  <2>3. CASE UpdateVerification(n)
    BY <2>1, <2>2, <2>3 DEF UpdateVerification, Requestable, VerificationStatus, AccountRow
  <2>4. CASE SuspendAccount(n)
    BY <2>1, <2>2, <2>4 DEF SuspendAccount, AccountRow
  <2>5. CASE ActivateAccount(n)
    BY <2>1, <2>2, <2>5 DEF ActivateAccount, AccountRow
  <2>6. CASE DeleteUser(n) \/ DeleteAdmin(n)
    <3>. DEFINE gone == [accounts[n] EXCEPT !.status = "deleted", !.email = None]
    <3>1. gone.status = "deleted" /\ gone.email = None
      BY <2>2 DEF AccountRow
    <3>2. \A u \in Users : accounts'[u] = IF u = n THEN gone ELSE accounts[u]
      BY <2>1, <2>6 DEF DeleteUser, DeleteAdmin
    <3>. HIDE DEF gone
    <3>. QED  BY <3>1, <3>2
  <2>. QED  BY <2>3, <2>4, <2>5, <2>6 DEF AdminStep
<1>3. accounts' \in [Users -> AccountRow]
  <2>1. ASSUME NEW row \in AccountRow, Manage(n, row)  PROVE accounts' \in [Users -> AccountRow]
    BY <2>1 DEF Manage, IInv, AccountsTypeOK
  <2>2. accounts[n] \in AccountRow
    BY DEF IInv, AccountsTypeOK
  <2>3. /\ \A v \in VerificationStatus : [accounts[n] EXCEPT !.verified = v] \in AccountRow
        /\ \A b \in BOOLEAN : [accounts[n] EXCEPT !.suspended = b] \in AccountRow
        /\ [accounts[n] EXCEPT !.status = "deleted", !.email = None] \in AccountRow
    BY <2>2 DEF AccountRow
  <2>. QED  BY <2>1, <2>3 DEF AdminStep, UpdateVerification, SuspendAccount, ActivateAccount, DeleteUser, DeleteAdmin
<1>4. HandlersQuiet /\ TokensStay
  BY <1>1, NoHandlerMoves DEF IInv, TokensStay
<1>5. AccountsTypeOK'
  BY <1>1, <1>3 DEF IInv, AccountsTypeOK
<1>6. LoginsBegun' /\ OneHeir'
  BY <1>1, <1>4, LoginsKept DEF IInv
<1>7. \A u \in Users : accounts'[u].status # "deleted" => accounts'[u].status = accounts[u].status
  BY <1>2
<1>8. UnbornAreAlone' /\ AddressesHaveOrigin'
  BY <1>2, <1>4, <1>7, OriginsKept
<1>9. VerifiedMeansConfirmed'
  BY <1>1, <1>2, <1>7, ConfirmedKept DEF IInv, VerifiedMeansConfirmed
<1>. QED  BY <1>5, <1>6, <1>8, <1>9 DEF IInv

\* Creating an admin, and giving one another address, touch nobody else.
LEMMA StaffKeepsIInv ==
  ASSUME IInv, NEW r \in Requests, CreateAdminCommit(r) \/ UpdateAdminCommit(r)
  PROVE  IInv'
<1>1. UNCHANGED <<tokens, sessions>> /\ Proceed(r, Idle)
  BY DEF CreateAdminCommit, UpdateAdminCommit
<1>2. PICK n \in Users, row \in AccountRow :
        /\ accounts' = [accounts EXCEPT ![n] = row]
        /\ row.status # "unborn" \/ accounts[n].status = "unborn"
        /\ n \in Staff
  <2>1. CASE CreateAdminCommit(r)
    <3>. DEFINE new == [NoAccount EXCEPT !.status = "live", !.email = inflight[r].email,
                                         !.verified = "EMAIL_VERIFIED"]
    <3>1. inflight[r].email \in Emails
      BY <2>1, RequestFields DEF CreateAdminCommit, IInv, AccountsTypeOK
    <3>2. new \in AccountRow /\ new.email = inflight[r].email /\ new.status = "live"
      BY <3>1 DEF AccountRow, NoAccount, VerificationStatus
    <3>. QED  BY <2>1, <3>2, AccountsAssumption DEF CreateAdminCommit
  <2>2. CASE UpdateAdminCommit(r)
    <3>. DEFINE u == inflight[r].user
                new == [accounts[u] EXCEPT !.email = inflight[r].email]
    <3>1. inflight[r].email \in Emails /\ u \in Users /\ u \in Staff
      BY <2>2, RequestFields, AccountsAssumption DEF UpdateAdminCommit, IInv, AccountsTypeOK
    <3>2. accounts[u] \in AccountRow
      BY <3>1 DEF IInv, AccountsTypeOK
    <3>3. new \in AccountRow /\ new.email = inflight[r].email /\ new.status = accounts[u].status
      BY <3>1, <3>2 DEF AccountRow
    <3>4. accounts' = [accounts EXCEPT ![u] = new]
      BY <2>2 DEF UpdateAdminCommit
    <3>. HIDE DEF new
    <3>. QED  BY <3>1, <3>3, <3>4
  <2>. QED  BY <2>1, <2>2
<1>3. \A u \in Users : accounts'[u] = IF u = n THEN row ELSE accounts[u]
  BY <1>2 DEF IInv, AccountsTypeOK
<1>4. HandlersQuiet /\ TokensStay
  BY <1>1, OneHandlerMoves, IdleHarmless DEF IInv, TokensStay
<1>5. AccountsTypeOK'
  BY <1>1, <1>2, <1>4 DEF IInv, AccountsTypeOK, HandlersQuiet
<1>6. LoginsBegun' /\ OneHeir'
  BY <1>1, <1>4, LoginsKept DEF IInv
<1>7. UnbornAreAlone' /\ AddressesHaveOrigin'
  BY <1>2, <1>3, <1>4, OriginsKept
<1>8. VerifiedMeansConfirmed'
  BY <1>1, <1>2, <1>3, ConfirmedKept DEF IInv, VerifiedMeansConfirmed
<1>. QED  BY <1>5, <1>6, <1>7, <1>8 DEF IInv

-----------------------------------------------------------------------------
\* Nothing is stored.
LEMMA InitIInv == Init => IInv
<1>. SUFFICES ASSUME Init PROVE IInv
  OBVIOUS
<1>1. AccountsTypeOK
  BY DEF Init, AccountsTypeOK, AccountRow, TokenRow, SessionRow, NoAccount, NoToken, NoSession,
         Request, Purposes, VerificationStatus
<1>2. \A s \in Sessions : ~ InTable(s)
  BY DEF Init, InTable, NoSession
<1>3. \A r \in Requests : inflight[r].op = "idle"
  BY DEF Init, Idle
<1>4. \A u \in Users : accounts[u] = NoAccount
  BY DEF Init
<1>5. \A t \in Tokens : tokens[t].user = None
  BY DEF Init, NoToken
<1>6. LoginsBegun /\ OneHeir
  BY <1>2, <1>3 DEF LoginsBegun, OneHeir, OneSessionPerLogin, Succeeds
<1>7. UnbornAreAlone
  BY <1>3, <1>5, AccountsAssumption DEF UnbornAreAlone, Sends
<1>8. AddressesHaveOrigin /\ VerifiedMeansConfirmed
  BY <1>4 DEF AddressesHaveOrigin, VerifiedMeansConfirmed, NoAccount
<1>. QED  BY <1>1, <1>6, <1>7, <1>8 DEF IInv

\* IInv is inductive.
LEMMA NextIInv == IInv /\ [Next]_vars => IInv'
<1>. SUFFICES ASSUME IInv, [Next]_vars PROVE IInv'
  OBVIOUS
<1>1. CASE UNCHANGED vars
  BY <1>1, NoHandlerMoves, ReadersKeepIInv DEF vars, IInv
<1>2. ASSUME NEW r \in Requests, TokenStep(r)  PROVE IInv'
  BY <1>2, Readers, LinksStep, CreateTokenStep, RegisterCommitStep, VerifyCommitStep
     DEF TokenStep
<1>3. ASSUME NEW r \in Requests, SessionStep(r)  PROVE IInv'
  BY <1>3, Readers, CreateSessionStep, RotateDeleteStep DEF SessionStep
<1>4. ASSUME NEW r \in Requests, Abort(r)  PROVE IInv'
  BY <1>4, Readers
<1>5. ASSUME NEW t \in Tokens, ExpireToken(t)  PROVE IInv'
  BY <1>5, LinksStep
<1>6. ASSUME NEW s \in Sessions, Logout(s) \/ ExpireSession(s)  PROVE IInv'
  BY <1>6, SessionEndsStep
<1>7. ASSUME NEW u \in Managed, AdminStep(u)  PROVE IInv'
  BY <1>7, AdminKeepsIInv, AccountsAssumption
<1>8. ASSUME NEW r \in Requests, StaffStep(r)  PROVE IInv'
  BY <1>8, Readers, StaffKeepsIInv DEF StaffStep
<1>9. ASSUME NEW u \in Staff, DeleteAdmin(u)  PROVE IInv'
  BY <1>9, AdminKeepsIInv, AccountsAssumption
<1>. QED  BY <1>1, <1>2, <1>3, <1>4, <1>5, <1>6, <1>7, <1>8, <1>9 DEF Next

\* The inductive invariant of accounts, links and sessions.
THEOREM Invariant == Spec => []IInv
BY InitIInv, NextIInv, PTL DEF Spec

\* The tables and the handlers' locals keep their shape.
THEOREM AccountsTypeCorrect == Spec => []AccountsTypeOK
<1>1. IInv => AccountsTypeOK
  BY DEF IInv
<1>. QED  BY <1>1, Invariant, PTL

\* Refreshing, however often at once, leaves each login at most one session.
THEOREM LoginsHaveOneSession == Spec => []OneSessionPerLogin
<1>1. IInv => OneSessionPerLogin
  BY DEF IInv, OneHeir
<1>. QED  BY <1>1, Invariant, PTL

\* A verified account's present address was confirmed from its mailbox.
THEOREM VerifiedAreConfirmed == Spec => []VerifiedMeansConfirmed
<1>1. IInv => VerifiedMeansConfirmed
  BY DEF IInv
<1>. QED  BY <1>1, Invariant, PTL

-----------------------------------------------------------------------------
(***************************************************************************)
(* What holds when handlers run one after the other: each then writes what *)
(* follows from what it read, and the newest link of its kind is the only  *)
(* one that is not used or revoked.                                        *)
(***************************************************************************)
OneAtATime == MaxInFlight = 1

Quiet == \A r \in Requests : inflight[r] = Idle

OnlyRequest(r) == \A s \in Requests \ {r} : inflight[s] = Idle

Pending(t) == tokens[t].status \in {"created", "mailed", "expired"}

\* What a handler has read, or brought about, and relies on in its next step.
Current(q) ==
  /\ q.op = "createToken" => \A t \in Tokens : ~ Revocable(t, q.user, q.purpose)
  /\ q.op \in {"verify", "reset"} => tokens[q.token].status \in {"mailed", "expired"}
  /\ q.op = "createSession" =>
       \A s \in Sessions : sessions[s].status = "ended" => sessions[s].login # q.login
  /\ q.op = "updateAdmin" => accounts[q.user].status = "live"

Turn == Quiet \/ \E r \in Requests : OnlyRequest(r) /\ Current(inflight[r])

\* Links are numbered as they are created; a session goes back to one that was created.
RowsInOrder ==
  /\ \A t \in Tokens : tokens[t].status = "unborn" => tokens[t].user = None
  /\ \A t, v \in Tokens : v < t /\ tokens[t].status # "unborn" => tokens[v].status # "unborn"
  /\ \A s \in Sessions : sessions[s].status # "unborn" =>
       sessions[s].login \in Sessions /\ sessions[sessions[s].login].status # "unborn"

\* A link that is neither used nor revoked is the newest of its user and purpose.
LatestIsPending ==
  \A t, v \in Tokens :
    Pending(t) /\ tokens[v].user = tokens[t].user /\ tokens[v].purpose = tokens[t].purpose
    => v <= t

SInv ==
  /\ IInv /\ Turn /\ RowsInOrder /\ LatestIsPending
  /\ LoggedOutStaysOut /\ DeletedStayNameless

-----------------------------------------------------------------------------
\* A handler, a logout or an admin begins only when nobody is in flight.
LEMMA StartsAlone ==
  ASSUME OneAtATime, Load < MaxInFlight
  PROVE  Quiet
<1>. DEFINE S == {r \in Requests : inflight[r] # Idle}
<1>1. IsFiniteSet(S)
  BY AccountsFiniteness, FS_Subset
<1>2. Cardinality(S) \in Nat /\ Cardinality(S) < 1
  BY <1>1, FS_CardinalityType DEF Load, OneAtATime
<1>3. S = {}
  BY <1>1, <1>2, FS_EmptySet
<1>. QED  BY <1>3 DEF Quiet

\* Whoever is in flight is alone, and what it relies on holds.
LEMMA InFlightIsAlone ==
  ASSUME Turn, NEW r \in Requests, inflight[r] # Idle
  PROVE  OnlyRequest(r) /\ Current(inflight[r])
BY DEF Turn, Quiet, OnlyRequest

\* A handler that ends leaves nobody in flight.
LEMMA EndsQuiet ==
  ASSUME IInv, Turn, NEW r \in Requests, inflight[r] # Idle, Proceed(r, Idle)
  PROVE  Turn'
<1>1. Quiet'
  BY InFlightIsAlone DEF IInv, AccountsTypeOK, Proceed, OnlyRequest, Quiet
<1>. QED  BY <1>1 DEF Turn

\* A handler that goes on to q is alone; q relies on the tables as they are then.
LEMMA GoesOnInTurn ==
  ASSUME IInv, NEW r \in Requests, OnlyRequest(r), NEW q, Proceed(r, q), Current(inflight[r])'
  PROVE  Turn'
<1>1. OnlyRequest(r)'
  BY DEF IInv, AccountsTypeOK, Proceed, OnlyRequest
<1>. QED  BY <1>1 DEF Turn

\* A first read: the handler starts alone.
LEMMA StartsInTurn ==
  ASSUME OneAtATime, IInv, NEW r \in Requests, NEW q, Begin(r, q), Current(q)
  PROVE  Turn'
<1>1. inflight'[r] = q /\ UNCHANGED <<accounts, tokens, sessions>>
  BY DEF Begin, IInv, AccountsTypeOK
<1>2. OnlyRequest(r)
  BY StartsAlone DEF Begin, Quiet, OnlyRequest
<1>3. Current(inflight[r])'
  BY <1>1 DEF Current, Revocable
<1>. QED  BY <1>2, <1>3, GoesOnInTurn DEF Begin, Proceed

\* The reads of the handlers that mail, use links, log in and refresh.
LEMMA ReadersInTurn ==
  ASSUME OneAtATime, IInv, RowsInOrder, NEW r \in Requests,
         \/ \E e \in Emails : RegisterRead(r, e)
         \/ \E u \in Users : ForgotPassword(r, u)
         \/ \E u \in Users, e \in Emails : RequestChangeEmail(r, u, e)
         \/ \E u \in Users, p \in Purposes : Resend(r, u, p)
         \/ \E t \in Tokens : VerifyRead(r, t)
         \/ \E t \in Tokens : ResetRead(r, t)
         \/ \E u \in Users : LoginRead(r, u)
         \/ \E s \in Sessions : RefreshRead(r, s)
         \/ \E e \in Emails : CreateAdminRead(r, e)
         \/ \E u \in Staff, e \in Emails : UpdateAdminRead(r, u, e)
  PROVE  Turn'
<1>1. ASSUME NEW q, Begin(r, q), Current(q)  PROVE Turn'
  BY <1>1, StartsInTurn
<1>2. ASSUME NEW e \in Emails, RegisterRead(r, e)  PROVE Turn'
  BY <1>1, <1>2 DEF RegisterRead, Current
<1>3. ASSUME NEW u \in Users, ForgotPassword(r, u)  PROVE Turn'
  BY <1>1, <1>3 DEF ForgotPassword, Send, Current
<1>4. ASSUME NEW u \in Users, NEW e \in Emails, RequestChangeEmail(r, u, e)  PROVE Turn'
  BY <1>1, <1>4 DEF RequestChangeEmail, Send, Current
<1>5. ASSUME NEW u \in Users, NEW p \in Purposes, Resend(r, u, p)  PROVE Turn'
  <2>1. Current([op |-> "findChange", user |-> u]) /\ Current(Send(u, accounts[u].email, p))
    BY DEF Send, Current
  <2>. QED  BY <1>1, <1>5, <2>1 DEF Resend
<1>6. ASSUME NEW t \in Tokens, VerifyRead(r, t) \/ ResetRead(r, t)  PROVE Turn'
  BY <1>1, <1>6 DEF VerifyRead, ResetRead, Usable, Current
<1>7. ASSUME NEW u \in Users, LoginRead(r, u)  PROVE Turn'
  <2>1. Current([op |-> "createSession", login |-> None])
    BY AccountsAssumption DEF RowsInOrder, Current
  <2>. QED  BY <1>1, <1>7, <2>1 DEF LoginRead
<1>8. ASSUME NEW s \in Sessions, RefreshRead(r, s)  PROVE Turn'
  BY <1>1, <1>8 DEF RefreshRead, Current
<1>9. ASSUME NEW e \in Emails, CreateAdminRead(r, e)  PROVE Turn'
  BY <1>1, <1>9 DEF CreateAdminRead, Current
<1>10. ASSUME NEW u \in Staff, NEW e \in Emails, UpdateAdminRead(r, u, e)  PROVE Turn'
  BY <1>1, <1>10 DEF UpdateAdminRead, Current
<1>. QED  BY <1>2, <1>3, <1>4, <1>5, <1>6, <1>7, <1>8, <1>9, <1>10

\* The steps by which a handler goes on: its links are revoked before the new one is
\* created, its session's row is gone before the next one is.
LEMMA GoingOnInTurn ==
  ASSUME IInv, Turn, LoggedOutStaysOut, NEW r \in Requests,
         \/ ResendFindChange(r) \/ RegisterCommit(r) \/ Revoke(r) \/ CreateToken(r)
         \/ RotateDelete(r)
  PROVE  Turn'
<1>1. inflight[r] # Idle /\ inflight[r] \in Request
  BY DEF ResendFindChange, RegisterCommit, Revoke, CreateToken, RotateDelete, Idle,
         IInv, AccountsTypeOK
<1>2. OnlyRequest(r)
  BY <1>1, InFlightIsAlone
<1>3. ASSUME NEW q, Proceed(r, q), q.op \notin {"createToken", "verify", "reset", "createSession",
                                             "updateAdmin"}
      PROVE  Turn'
  <2>1. inflight'[r] = q
    BY <1>3 DEF Proceed, IInv, AccountsTypeOK
  <2>2. Current(inflight[r])'
    BY <1>3, <2>1 DEF Current
  <2>. QED  BY <1>2, <1>3, <2>2, GoesOnInTurn
<1>4. CASE ResendFindChange(r)
  BY <1>3, <1>4 DEF ResendFindChange, Send
<1>5. CASE RegisterCommit(r)
  BY <1>3, <1>5 DEF RegisterCommit, Send
<1>6. CASE CreateToken(r)
  BY <1>3, <1>6 DEF CreateToken
<1>7. CASE Revoke(r)
  <2>. DEFINE q == [inflight[r] EXCEPT !.op = "createToken"]
  <2>1. /\ q.op = "createToken" /\ q.user = inflight[r].user /\ q.purpose = inflight[r].purpose
    BY <1>1, <1>7 DEF Revoke, Request, Idle
  <2>2. inflight'[r] = q /\ Proceed(r, q)
    BY <1>7 DEF Revoke, Proceed, IInv, AccountsTypeOK
  <2>. HIDE DEF q
  <2>3. PICK u, p : u = inflight[r].user /\ p = inflight[r].purpose
    OBVIOUS
  <2>4. ASSUME NEW t \in Tokens  PROVE ~ Revocable(t, u, p)'
    <3>1. tokens'[t] = IF Revocable(t, u, p) THEN [tokens[t] EXCEPT !.status = "revoked"]
                                             ELSE tokens[t]
      BY <1>7, <2>3 DEF Revoke
    <3>2. tokens[t] \in TokenRow
      BY DEF IInv, AccountsTypeOK
    <3>. QED  BY <3>1, <3>2 DEF Revocable, TokenRow
  <2>5. Current(inflight[r])'
    BY <2>1, <2>2, <2>3, <2>4 DEF Current
  <2>. QED  BY <1>2, <2>2, <2>5, GoesOnInTurn
<1>8. CASE RotateDelete(r)
  <2>1. PICK n \in Sessions : n = inflight[r].session
    BY <1>1, <1>8, RequestFields DEF RotateDelete
  <2>2. /\ InTable(n) /\ sessions' = [sessions EXCEPT ![n].status = "rotated"]
        /\ Proceed(r, Successor(n))
    BY <1>8, <2>1 DEF RotateDelete
  <2>3. \A s \in Sessions : /\ sessions'[s].login = sessions[s].login
                            /\ sessions'[s].status = "ended" => sessions[s].status = "ended"
    BY <2>2 DEF IInv, AccountsTypeOK, SessionRow
  <2>4. inflight'[r].op = "createSession" /\ inflight'[r].login = sessions[n].login
    BY <2>2 DEF Proceed, Successor, IInv, AccountsTypeOK
  <2>5. \A s \in Sessions : sessions'[s].status = "ended" => sessions'[s].login # inflight'[r].login
    BY <2>2, <2>3, <2>4 DEF LoggedOutStaysOut
  <2>6. Current(inflight[r])'
    BY <2>4, <2>5 DEF Current
  <2>. QED  BY <1>2, <2>2, <2>6, GoesOnInTurn
<1>. QED  BY <1>4, <1>5, <1>6, <1>7, <1>8

\* Links and sessions expire while a handler is in flight: what it relies on still holds.
LEMMA ExpiryInTurn ==
  ASSUME IInv, Turn,
         (\E t \in Tokens : ExpireToken(t)) \/ (\E s \in Sessions : ExpireSession(s))
  PROVE  Turn'
<1>1. UNCHANGED <<accounts, inflight>>
  BY DEF ExpireToken, ExpireSession
<1>2. \A t \in Tokens :
        /\ tokens'[t].user = tokens[t].user /\ tokens'[t].purpose = tokens[t].purpose
        /\ \/ tokens'[t].status = tokens[t].status
           \/ tokens[t].status = "mailed" /\ tokens'[t].status = "expired"
  <2>1. tokens \in [Tokens -> TokenRow]
    BY DEF IInv, AccountsTypeOK
  <2>2. CASE UNCHANGED tokens
    BY <2>2
  <2>3. CASE \E n \in Tokens : ExpireToken(n)
    BY <2>1, <2>3 DEF ExpireToken, TokenRow
  <2>. QED  BY <2>2, <2>3 DEF ExpireSession
<1>3. \A s \in Sessions : /\ sessions'[s].login = sessions[s].login
                          /\ sessions'[s].status = "ended" => sessions[s].status = "ended"
  <2>1. sessions \in [Sessions -> SessionRow]
    BY DEF IInv, AccountsTypeOK
  <2>2. CASE UNCHANGED sessions
    BY <2>2
  <2>3. CASE \E n \in Sessions : ExpireSession(n)
    BY <2>1, <2>3 DEF ExpireSession, SessionRow
  <2>. QED  BY <2>2, <2>3 DEF ExpireToken
<1>4. ASSUME NEW r \in Requests, Current(inflight[r])  PROVE Current(inflight[r])'
  <2>1. PICK q \in Request : q = inflight[r]
    BY DEF IInv, AccountsTypeOK
  <2>2. q.op = "createToken" => \A t \in Tokens : ~ Revocable(t, q.user, q.purpose)'
    BY <1>2, <1>4, <2>1 DEF Current, Revocable
  <2>3. q.op \in {"verify", "reset"} => tokens'[q.token].status \in {"mailed", "expired"}
    BY <1>2, <1>4, <2>1, RequestFields DEF Current
  <2>4. q.op = "createSession" =>
          \A s \in Sessions : sessions'[s].status = "ended" => sessions'[s].login # q.login
    BY <1>3, <1>4, <2>1 DEF Current
  <2>5. q.op = "updateAdmin" => accounts'[q.user].status = "live"
    BY <1>1, <1>4, <2>1 DEF Current
  <2>. QED  BY <1>1, <2>1, <2>2, <2>3, <2>4, <2>5 DEF Current, Revocable
<1>. QED  BY <1>1, <1>4 DEF Turn, Quiet, OnlyRequest

\* Handlers go on one after the other, whatever expires meanwhile.
LEMMA StepInTurn ==
  ASSUME OneAtATime, IInv, Turn, RowsInOrder, LoggedOutStaysOut, [Next]_vars
  PROVE  Turn'
<1>1. CASE UNCHANGED vars
  <2>1. ASSUME NEW r \in Requests, Current(inflight[r])  PROVE Current(inflight[r])'
    BY <1>1, <2>1 DEF vars, Current, Revocable
  <2>. QED  BY <1>1, <2>1 DEF vars, Turn, Quiet, OnlyRequest
<1>2. ASSUME NEW r \in Requests, inflight[r] # Idle, Proceed(r, Idle)  PROVE Turn'
  BY <1>2, EndsQuiet
<1>3. ASSUME NEW r \in Requests,
             \/ Mail(r) \/ VerifyCommit(r) \/ ResetCommit(r) \/ CreateSession(r)
             \/ CreateAdminCommit(r) \/ UpdateAdminCommit(r) \/ Abort(r)
      PROVE  Turn'
  BY <1>2, <1>3 DEF Mail, VerifyCommit, ResetCommit, CreateSession, CreateAdminCommit,
                    UpdateAdminCommit, Abort, Idle
<1>4. ASSUME Load < MaxInFlight, UNCHANGED inflight  PROVE Turn'
  BY <1>4, StartsAlone DEF Turn, Quiet
<1>5. ASSUME NEW u \in Users, AdminStep(u) \/ DeleteAdmin(u)  PROVE Turn'
  BY <1>4, <1>5 DEF AdminStep, UpdateVerification, SuspendAccount, ActivateAccount, DeleteUser,
                    DeleteAdmin, Manage
<1>6. ASSUME NEW s \in Sessions, Logout(s)  PROVE Turn'
  BY <1>4, <1>6 DEF Logout
<1>7. ASSUME NEW r \in Requests, TokenStep(r)  PROVE Turn'
  BY <1>3, <1>7, ReadersInTurn, GoingOnInTurn DEF TokenStep
<1>8. ASSUME NEW r \in Requests, SessionStep(r)  PROVE Turn'
  BY <1>3, <1>8, ReadersInTurn, GoingOnInTurn DEF SessionStep
<1>9. ASSUME NEW r \in Requests, StaffStep(r)  PROVE Turn'
  BY <1>3, <1>9, ReadersInTurn DEF StaffStep
<1>. QED  BY <1>1, <1>3, <1>5, <1>6, <1>7, <1>8, <1>9, ExpiryInTurn, AccountsAssumption DEF Next

-----------------------------------------------------------------------------
\* No link is renamed, comes back, or is used unless it was pending.
LinksFade ==
  \A t \in Tokens :
    /\ tokens'[t].user = tokens[t].user /\ tokens'[t].purpose = tokens[t].purpose
    /\ tokens'[t].status = "unborn" <=> tokens[t].status = "unborn"
    /\ Pending(t)' => Pending(t)
    /\ tokens'[t].status = "used" /\ tokens[t].status # "used" => Pending(t)

\* Every step but the creation of a link lets links fade.
LEMMA StepFadesLinks ==
  ASSUME IInv, Turn, [Next]_vars
  PROVE  LinksFade \/ \E r \in Requests : CreateToken(r)
<1>0. tokens \in [Tokens -> TokenRow]
  BY DEF IInv, AccountsTypeOK
<1>1. ASSUME UNCHANGED tokens  PROVE LinksFade
  BY <1>1 DEF LinksFade, Pending
<1>2. ASSUME NEW r \in Requests, Revoke(r)  PROVE LinksFade
  BY <1>0, <1>2 DEF Revoke, Revocable, LinksFade, Pending, TokenRow
<1>3. ASSUME NEW r \in Requests, Mail(r)  PROVE LinksFade
  BY <1>0, <1>3 DEF Mail, SendEmail, LinksFade, Pending, TokenRow
<1>4. ASSUME NEW r \in Requests, VerifyCommit(r) \/ ResetCommit(r)  PROVE LinksFade
  <2>1. inflight[r] \in Request /\ inflight[r].op \in {"verify", "reset"}
    BY <1>4 DEF VerifyCommit, ResetCommit, IInv, AccountsTypeOK
  <2>2. PICK n \in Tokens : n = inflight[r].token
    BY <2>1, RequestFields
  <2>3. tokens[n].status \in {"mailed", "expired"}
    BY <2>1, <2>2, InFlightIsAlone DEF Current, Idle
  <2>4. tokens' = [tokens EXCEPT ![n].status = "used"]
    BY <1>4, <2>2 DEF VerifyCommit, ResetCommit, UseToken
  <2>. QED  BY <1>0, <2>3, <2>4 DEF LinksFade, Pending, TokenRow
<1>5. ASSUME NEW t \in Tokens, ExpireToken(t)  PROVE LinksFade
  BY <1>0, <1>5 DEF ExpireToken, LinksFade, Pending, TokenRow
<1>6. \/ UNCHANGED tokens
      \/ \E r \in Requests : Revoke(r) \/ CreateToken(r) \/ Mail(r) \/ VerifyCommit(r) \/ ResetCommit(r)
      \/ \E t \in Tokens : ExpireToken(t)
  BY DEF Next, vars, TokenStep, SessionStep, StaffStep, AdminStep, Begin, RegisterRead,
         RegisterCommit, ForgotPassword, RequestChangeEmail, Resend, ResendFindChange, VerifyRead,
         ResetRead, LoginRead, CreateSession, RefreshRead, RotateDelete, Logout, ExpireSession,
         Manage, UpdateVerification, SuspendAccount, ActivateAccount, DeleteUser, DeleteAdmin,
         CreateAdminRead, CreateAdminCommit, UpdateAdminRead, UpdateAdminCommit, Abort
<1>. QED  BY <1>1, <1>2, <1>3, <1>4, <1>5, <1>6

LinksInOrder ==
  /\ \A t \in Tokens : tokens[t].status = "unborn" => tokens[t].user = None
  /\ \A t, v \in Tokens : v < t /\ tokens[t].status # "unborn" => tokens[v].status # "unborn"

\* The newest link of its kind is created when no other is pending.
LEMMA StepKeepsLinks ==
  ASSUME IInv, Turn, LinksInOrder, LatestIsPending, [Next]_vars
  PROVE  LinksInOrder' /\ LatestIsPending'
<1>1. CASE LinksFade
  BY <1>1 DEF LinksFade, LinksInOrder, LatestIsPending
<1>2. ASSUME NEW r \in Requests, CreateToken(r)  PROVE LinksInOrder' /\ LatestIsPending'
  <2>1. PICK q \in Request : q = inflight[r]
    BY DEF IInv, AccountsTypeOK
  <2>2. q.op = "createToken" /\ q.user \in Users /\ q # Idle
    BY <1>2, <2>1, RequestFields DEF CreateToken, Idle
  <2>3. \A t \in Tokens : ~ Revocable(t, q.user, q.purpose)
    BY <2>1, <2>2, InFlightIsAlone DEF Current
  <2>4. PICK n \in Tokens :
          /\ tokens[n].status = "unborn"
          /\ \A v \in Tokens : v < n => tokens[v].status # "unborn"
          /\ tokens' = [tokens EXCEPT ![n] = [status |-> "created", user |-> q.user,
                                              email |-> q.email, purpose |-> q.purpose]]
    BY <1>2, <2>1 DEF CreateToken
  <2>5. /\ tokens'[n].status = "created" /\ tokens'[n].user = q.user
        /\ tokens'[n].purpose = q.purpose
        /\ \A t \in Tokens : t # n => tokens'[t] = tokens[t]
    BY <2>4 DEF IInv, AccountsTypeOK
  <2>6. q.user # None
    BY <2>2, AccountsAssumption
  <2>7. ASSUME NEW v \in Tokens, v # n, tokens[v].status # "unborn"  PROVE v < n
    <3>1. ~ (n < v)
      BY <2>4, <2>7 DEF LinksInOrder
    <3>2. v \in Int /\ n \in Int
      BY AccountsAssumption
    <3>. QED  BY <2>7, <3>1, <3>2
  <2>8. LinksInOrder'
    BY <2>4, <2>5, <2>6 DEF LinksInOrder
  <2>9. ASSUME NEW t \in Tokens, NEW v \in Tokens, Pending(t)', tokens'[v].user = tokens'[t].user,
               tokens'[v].purpose = tokens'[t].purpose
        PROVE  v <= t
    <3>0. v \in Int /\ t \in Int /\ n \in Int
      BY AccountsAssumption
    <3>1. CASE t = n /\ v = n
      BY <3>0, <3>1
    <3>2. CASE t = n /\ v # n
      <4>1. tokens[v].user = q.user
        BY <2>5, <2>9, <3>2
      <4>2. tokens[v].status # "unborn"
        BY <2>6, <4>1 DEF LinksInOrder
      <4>. QED  BY <2>7, <3>0, <3>2, <4>2
    <3>3. CASE t # n /\ v = n
      <4>1. Revocable(t, q.user, q.purpose)
        BY <2>5, <2>9, <3>3 DEF Pending, Revocable
      <4>. QED  BY <2>3, <4>1
    <3>4. CASE t # n /\ v # n
      BY <2>5, <2>9, <3>4 DEF Pending, LatestIsPending
    <3>. QED  BY <3>1, <3>2, <3>3, <3>4
  <2>. QED  BY <2>8, <2>9 DEF LatestIsPending
<1>. QED  BY <1>1, <1>2, StepFadesLinks

-----------------------------------------------------------------------------
SessionsBegun ==
  \A s \in Sessions : sessions[s].status # "unborn" =>
    sessions[s].login \in Sessions /\ sessions[sessions[s].login].status # "unborn"

\* No session changes its login, is created, comes back or is ended.
SessionsFade ==
  \A s \in Sessions :
    /\ sessions'[s].login = sessions[s].login
    /\ sessions'[s].status = "unborn" <=> sessions[s].status = "unborn"
    /\ InTable(s)' => InTable(s)
    /\ sessions'[s].status = "ended" => sessions[s].status = "ended"

\* A session is ended when nobody is about to continue its login, and one is created
\* only for a login that was not ended.
LEMMA StepKeepsLogins ==
  ASSUME OneAtATime, IInv, Turn, SessionsBegun, LoggedOutStaysOut, [Next]_vars
  PROVE  SessionsBegun' /\ LoggedOutStaysOut'
<1>0. sessions \in [Sessions -> SessionRow]
  BY DEF IInv, AccountsTypeOK
<1>1. ASSUME SessionsFade  PROVE SessionsBegun' /\ LoggedOutStaysOut'
  BY <1>1 DEF SessionsFade, SessionsBegun, LoggedOutStaysOut
<1>2. ASSUME UNCHANGED sessions  PROVE SessionsFade
  BY <1>2 DEF SessionsFade, InTable
<1>3. ASSUME NEW r \in Requests, RotateDelete(r)  PROVE SessionsFade
  <2>1. PICK n \in Sessions : n = inflight[r].session
    BY <1>3, RequestFields DEF RotateDelete, IInv, AccountsTypeOK
  <2>. QED  BY <1>0, <1>3, <2>1 DEF RotateDelete, SessionsFade, InTable, SessionRow
<1>4. ASSUME NEW s \in Sessions, ExpireSession(s)  PROVE SessionsFade
  BY <1>0, <1>4 DEF ExpireSession, SessionsFade, InTable, SessionRow
<1>5. ASSUME NEW n \in Sessions, Logout(n)  PROVE SessionsBegun' /\ LoggedOutStaysOut'
  <2>1. /\ InTable(n) /\ sessions'[n].status = "ended" /\ sessions'[n].login = sessions[n].login
        /\ \A s \in Sessions : s # n => sessions'[s] = sessions[s]
    BY <1>0, <1>5 DEF Logout, SessionRow
  <2>2. SessionsBegun'
    BY <2>1 DEF SessionsBegun, InTable
  <2>3. \A v \in Sessions : InTable(v)' => InTable(v) /\ v # n
    BY <2>1 DEF InTable
  <2>4. \A v \in Sessions : InTable(v)' => sessions[n].login # sessions[v].login
    BY <2>1, <2>3 DEF IInv, OneHeir, OneSessionPerLogin
  <2>5. LoggedOutStaysOut'
    BY <2>1, <2>3, <2>4 DEF LoggedOutStaysOut
  <2>. QED  BY <2>2, <2>5
<1>6. ASSUME NEW r \in Requests, CreateSession(r)  PROVE SessionsBegun' /\ LoggedOutStaysOut'
  <2>1. PICK q \in Request : q = inflight[r]
    BY DEF IInv, AccountsTypeOK
  <2>2. q.op = "createSession" /\ q.login \in Sessions \cup {None}
    BY <1>6, <2>1, RequestFields DEF CreateSession
  <2>3. \A s \in Sessions : sessions[s].status = "ended" => sessions[s].login # q.login
    BY <2>1, <2>2, InFlightIsAlone DEF Current, Idle
  <2>4. PICK n \in Sessions, l \in Sessions :
          /\ l = IF q.login = None THEN n ELSE q.login
          /\ sessions[n].status = "unborn"
          /\ sessions' = [sessions EXCEPT ![n] = [status |-> "live", login |-> l]]
    BY <1>6, <2>1, <2>2 DEF CreateSession
  <2>5. /\ sessions'[n].status = "live" /\ sessions'[n].login = l
        /\ \A s \in Sessions : s # n => sessions'[s] = sessions[s]
    BY <1>0, <2>4
  <2>6. l = n \/ sessions[l].status # "unborn"
    BY <2>1, <2>2, <2>4 DEF IInv, LoginsBegun, Succeeds
  <2>7. SessionsBegun'
    BY <2>4, <2>5, <2>6 DEF SessionsBegun
  <2>8. ASSUME NEW s \in Sessions, sessions[s].status = "ended"  PROVE sessions[s].login # l
    <3>1. CASE q.login = None
      BY <2>4, <2>8, <3>1 DEF SessionsBegun
    <3>2. CASE q.login # None
      BY <2>3, <2>4, <2>8, <3>2
    <3>. QED  BY <3>1, <3>2
  <2>9. LoggedOutStaysOut'
    BY <2>4, <2>5, <2>8 DEF LoggedOutStaysOut, InTable
  <2>. QED  BY <2>7, <2>9
<1>7. \/ UNCHANGED sessions
      \/ \E r \in Requests : RotateDelete(r) \/ CreateSession(r)
      \/ \E s \in Sessions : Logout(s) \/ ExpireSession(s)
  BY DEF Next, vars, TokenStep, SessionStep, StaffStep, AdminStep, Begin, RegisterRead,
         RegisterCommit, ForgotPassword, RequestChangeEmail, Resend, ResendFindChange, VerifyRead,
         ResetRead, LoginRead, RefreshRead, Revoke, CreateToken, Mail, VerifyCommit, ResetCommit,
         Manage, UpdateVerification, SuspendAccount, ActivateAccount, DeleteUser, DeleteAdmin,
         CreateAdminRead, CreateAdminCommit, UpdateAdminRead, UpdateAdminCommit, Abort, ExpireToken
<1>. QED  BY <1>1, <1>2, <1>3, <1>4, <1>5, <1>6, <1>7

-----------------------------------------------------------------------------
\* A link that was used stays used, and for what it was made.
LEMMA UsedStay ==
  ASSUME IInv, [Next]_vars
  PROVE  \A t \in Tokens : tokens[t].status = "used" => tokens'[t] = tokens[t]
<1>0. tokens \in [Tokens -> TokenRow]
  BY DEF IInv, AccountsTypeOK
<1>1. ASSUME NEW r \in Requests, Revoke(r)
      PROVE  \A t \in Tokens : tokens[t].status = "used" => tokens'[t] = tokens[t]
  BY <1>0, <1>1 DEF Revoke, Revocable
<1>2. ASSUME NEW r \in Requests, CreateToken(r)
      PROVE  \A t \in Tokens : tokens[t].status = "used" => tokens'[t] = tokens[t]
  BY <1>0, <1>2 DEF CreateToken
<1>3. ASSUME NEW r \in Requests, Mail(r)
      PROVE  \A t \in Tokens : tokens[t].status = "used" => tokens'[t] = tokens[t]
  BY <1>0, <1>3 DEF Mail, SendEmail
<1>4. ASSUME NEW r \in Requests, VerifyCommit(r) \/ ResetCommit(r)
      PROVE  \A t \in Tokens : tokens[t].status = "used" => tokens'[t] = tokens[t]
  BY <1>0, <1>4 DEF VerifyCommit, ResetCommit, UseToken, TokenRow
<1>5. ASSUME NEW n \in Tokens, ExpireToken(n)
      PROVE  \A t \in Tokens : tokens[t].status = "used" => tokens'[t] = tokens[t]
  BY <1>0, <1>5 DEF ExpireToken
<1>6. \/ UNCHANGED tokens
      \/ \E r \in Requests : Revoke(r) \/ CreateToken(r) \/ Mail(r) \/ VerifyCommit(r) \/ ResetCommit(r)
      \/ \E t \in Tokens : ExpireToken(t)
  BY DEF Next, vars, TokenStep, SessionStep, StaffStep, AdminStep, Begin, RegisterRead,
         RegisterCommit, ForgotPassword, RequestChangeEmail, Resend, ResendFindChange, VerifyRead,
         ResetRead, LoginRead, CreateSession, RefreshRead, RotateDelete, Logout, ExpireSession,
         Manage, UpdateVerification, SuspendAccount, ActivateAccount, DeleteUser, DeleteAdmin,
         CreateAdminRead, CreateAdminCommit, UpdateAdminRead, UpdateAdminCommit, Abort
<1>. QED  BY <1>1, <1>2, <1>3, <1>4, <1>5, <1>6

\* A row that is, or becomes, deleted has no address, the one it had, or one just confirmed.
DeletedKeepNames ==
  \A u \in Users : accounts'[u].status = "deleted" =>
    \/ accounts'[u].email = None
    \/ accounts[u].status = "deleted" /\ accounts'[u].email = accounts[u].email
    \/ ChangedTo(u, accounts[u].email)'

\* updateAdmin writes to an admin who has not been deleted; every other handler that gives
\* an address to a deleted row has its link.
LEMMA StepKeepsNameless ==
  ASSUME IInv, Turn, DeletedStayNameless, [Next]_vars
  PROVE  DeletedStayNameless'
<1>0. accounts \in [Users -> AccountRow] /\ tokens \in [Tokens -> TokenRow]
  BY DEF IInv, AccountsTypeOK
<1>1. ASSUME DeletedKeepNames  PROVE DeletedStayNameless'
  BY <1>1, UsedStay DEF DeletedKeepNames, DeletedStayNameless, ChangedTo
<1>2. ASSUME UNCHANGED accounts  PROVE DeletedKeepNames
  BY <1>2 DEF DeletedKeepNames
<1>3. ASSUME NEW r \in Requests, RegisterCommit(r)  PROVE DeletedKeepNames
  BY <1>0, <1>3 DEF RegisterCommit, DeletedKeepNames, NoAccount
<1>4. ASSUME NEW r \in Requests, VerifyCommit(r)  PROVE DeletedKeepNames
  <2>1. PICK n \in Tokens :
          tokens' = [tokens EXCEPT ![n].status = "used"] /\ Confirm(n)
    BY <1>4, RequestFields DEF VerifyCommit, UseToken, IInv, AccountsTypeOK
  <2>2. /\ tokens'[n].status = "used" /\ tokens'[n].user = tokens[n].user
        /\ tokens'[n].email = tokens[n].email /\ tokens'[n].purpose = tokens[n].purpose
    BY <1>0, <2>1 DEF TokenRow
  <2>3. ASSUME NEW u \in Users
        PROVE  /\ accounts'[u].status = accounts[u].status
               /\ \/ accounts'[u].email = accounts[u].email
                  \/ /\ tokens[n].purpose = "CHANGE_EMAIL" /\ tokens[n].user = u
                     /\ accounts'[u].email = tokens[n].email
    BY <1>0, <2>1 DEF Confirm, AccountRow
  <2>. QED  BY <2>2, <2>3 DEF DeletedKeepNames, ChangedTo
<1>5. ASSUME NEW n \in Users, AdminStep(n) \/ DeleteAdmin(n)  PROVE DeletedKeepNames
  <2>1. ASSUME NEW row, Manage(n, row)
        PROVE  \A u \in Users : accounts'[u] = IF u = n THEN row ELSE accounts[u]
    BY <1>0, <2>1 DEF Manage
  <2>2. accounts[n] \in AccountRow
    BY <1>0
  <2>3. CASE UpdateVerification(n)
    BY <2>1, <2>2, <2>3 DEF UpdateVerification, AccountRow, DeletedKeepNames
  <2>4. CASE SuspendAccount(n)
    BY <2>1, <2>2, <2>4 DEF SuspendAccount, AccountRow, DeletedKeepNames
  <2>5. CASE ActivateAccount(n)
    BY <2>1, <2>2, <2>5 DEF ActivateAccount, AccountRow, DeletedKeepNames
  <2>6. CASE DeleteUser(n) \/ DeleteAdmin(n)
    <3>. DEFINE gone == [accounts[n] EXCEPT !.status = "deleted", !.email = None]
    <3>1. gone.email = None
      BY <2>2 DEF AccountRow
    <3>2. \A u \in Users : accounts'[u] = IF u = n THEN gone ELSE accounts[u]
      BY <2>1, <2>6 DEF DeleteUser, DeleteAdmin
    <3>. HIDE DEF gone
    <3>. QED  BY <3>1, <3>2 DEF DeletedKeepNames
  <2>. QED  BY <1>5, <2>3, <2>4, <2>5, <2>6 DEF AdminStep
<1>6. ASSUME NEW r \in Requests, CreateAdminCommit(r)  PROVE DeletedKeepNames
  BY <1>0, <1>6 DEF CreateAdminCommit, DeletedKeepNames, NoAccount
<1>7. ASSUME NEW r \in Requests, UpdateAdminCommit(r)  PROVE DeletedKeepNames
  <2>1. PICK q \in Request : q = inflight[r]
    BY DEF IInv, AccountsTypeOK
  <2>2. q.op = "updateAdmin" /\ q # Idle /\ q.user \in Users
    BY <1>7, <2>1, RequestFields, AccountsAssumption DEF UpdateAdminCommit, Idle
  <2>3. accounts[q.user].status = "live"
    BY <2>1, <2>2, InFlightIsAlone DEF Current
  <2>4. accounts' = [accounts EXCEPT ![q.user].email = q.email]
    BY <1>7, <2>1 DEF UpdateAdminCommit
  <2>5. accounts'[q.user].status = "live" /\ \A u \in Users \ {q.user} : accounts'[u] = accounts[u]
    BY <1>0, <2>2, <2>3, <2>4 DEF AccountRow
  <2>. QED  BY <2>5 DEF DeletedKeepNames
<1>8. \/ UNCHANGED accounts
      \/ \E r \in Requests : \/ RegisterCommit(r) \/ VerifyCommit(r) \/ CreateAdminCommit(r)
                            \/ UpdateAdminCommit(r)
      \/ \E u \in Users : AdminStep(u) \/ DeleteAdmin(u)
  BY AccountsAssumption
     DEF Next, vars, TokenStep, SessionStep, StaffStep, Begin, RegisterRead, ForgotPassword,
         RequestChangeEmail, Resend, ResendFindChange, Revoke, CreateToken, Mail, VerifyRead,
         ResetRead, ResetCommit, LoginRead, CreateSession, RefreshRead, RotateDelete, Logout,
         ExpireSession, ExpireToken, CreateAdminRead, UpdateAdminRead, Abort
<1>. QED  BY <1>1, <1>2, <1>3, <1>4, <1>5, <1>6, <1>7, <1>8

-----------------------------------------------------------------------------
\* SInv holds when nothing is stored.
LEMMA InitSInv == Init => SInv
<1>. SUFFICES ASSUME Init  PROVE SInv
  OBVIOUS
<1>1. Turn
  BY DEF Init, Turn, Quiet
<1>2. RowsInOrder /\ LatestIsPending /\ LoggedOutStaysOut
  BY DEF Init, NoToken, NoSession, RowsInOrder, LatestIsPending, Pending, LoggedOutStaysOut
<1>3. DeletedStayNameless
  BY DEF Init, NoAccount, DeletedStayNameless
<1>. QED  BY <1>1, <1>2, <1>3, InitIInv DEF SInv

\* SInv is inductive.
LEMMA NextSInv ==
  ASSUME OneAtATime, SInv, [Next]_vars
  PROVE  SInv'
<1>1. IInv' /\ Turn'
  BY NextIInv, StepInTurn DEF SInv
<1>2. LinksInOrder' /\ LatestIsPending'
  BY StepKeepsLinks DEF SInv, RowsInOrder, LinksInOrder
<1>3. SessionsBegun' /\ LoggedOutStaysOut'
  BY StepKeepsLogins DEF SInv, RowsInOrder, SessionsBegun
<1>4. DeletedStayNameless'
  BY StepKeepsNameless DEF SInv
<1>. QED  BY <1>1, <1>2, <1>3, <1>4 DEF SInv, RowsInOrder, LinksInOrder, SessionsBegun

\* One after the other, handlers keep SInv.
THEOREM SerialInvariant ==
  ASSUME OneAtATime
  PROVE  Spec => []SInv
<1>1. Init => SInv
  BY InitSInv
<1>2. SInv /\ [Next]_vars => SInv'
  BY NextSInv
<1>. QED  BY <1>1, <1>2, PTL DEF Spec

\* Of a user's links for one purpose one works: asking for another revokes the earlier.
THEOREM OneLinkWorks ==
  ASSUME OneAtATime
  PROVE  Spec => []OneLinkPerPurpose
<1>1. SInv => OneLinkPerPurpose
  <2>. SUFFICES ASSUME SInv, NEW t \in Tokens, NEW v \in Tokens, Usable(t), Usable(v),
                       tokens[t].user = tokens[v].user, tokens[t].purpose = tokens[v].purpose
                PROVE  t = v
    BY DEF OneLinkPerPurpose
  <2>1. v <= t /\ t <= v
    BY DEF SInv, LatestIsPending, Pending, Usable
  <2>2. v \in Int /\ t \in Int
    BY AccountsAssumption
  <2>. QED  BY <2>1, <2>2
<1>. QED  BY <1>1, SerialInvariant, PTL

\* The link that is used is the newest of its kind, whatever expired before.
THEOREM OnlyTheLatestIsUsed ==
  ASSUME OneAtATime
  PROVE  Spec => OnlyTheLatestLinkWorks
<1>. DEFINE A == \A t, v \in Tokens :
                   /\ tokens'[t].status = "used" /\ tokens[t].status # "used"
                   /\ tokens[v].user = tokens[t].user /\ tokens[v].purpose = tokens[t].purpose
                   => v <= t
<1>1. SInv /\ [Next]_vars => A
  <2>. SUFFICES ASSUME SInv, [Next]_vars, NEW t \in Tokens, NEW v \in Tokens,
                       tokens'[t].status = "used", tokens[t].status # "used",
                       tokens[v].user = tokens[t].user, tokens[v].purpose = tokens[t].purpose
                PROVE  v <= t
    OBVIOUS
  <2>1. Pending(t)
    <3>1. CASE LinksFade
      BY <3>1 DEF LinksFade
    <3>2. ASSUME NEW r \in Requests, CreateToken(r)  PROVE Pending(t)
      BY <3>2 DEF CreateToken, SInv, IInv, AccountsTypeOK
    <3>. QED  BY <3>1, <3>2, StepFadesLinks DEF SInv
  <2>. QED  BY <2>1 DEF SInv, LatestIsPending
<1>. HIDE DEF A
<1>2. Spec => [][A]_vars
  BY <1>1, SerialInvariant, PTL DEF Spec
<1>. QED  BY <1>2 DEF A, OnlyTheLatestLinkWorks

\* A refresh does not bring back the login of somebody who logged out.
THEOREM LogoutLasts ==
  ASSUME OneAtATime
  PROVE  Spec => []LoggedOutStaysOut
BY SerialInvariant, PTL DEF SInv

\* A deleted account has no address but one its owner confirmed by a link: whoever updates
\* an admin looks for one who has not been deleted.
THEOREM DeletedAreNameless ==
  ASSUME OneAtATime
  PROVE  Spec => []DeletedStayNameless
BY SerialInvariant, PTL DEF SInv
=============================================================================
