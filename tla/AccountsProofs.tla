---------------------------- MODULE AccountsProofs ----------------------------
(***************************************************************************)
(* The tables of accounts keep their constraints, and requests are let in  *)
(* rightly and as whom they should, for every number of requests, users,   *)
(* credentials, addresses and linked accounts.                             *)
(***************************************************************************)
EXTENDS Accounts, FiniteSetTheorems, TLAPS

-------------------------------------------------------------------------------
(* The types.                                                              *)

LEMMA Names ==
  /\ None \notin Users /\ None \notin Creds
  /\ AnEmail \in Emails /\ AnAccount \in External
  /\ Requests \subseteq Users /\ Requests \subseteq Creds
  /\ Requests \cap FirstCreds = {} /\ Requests \cap FirstUsers = {}
BY AccountsAssumption DEF Users, Creds, AnEmail, AnAccount

LEMMA EmptyRows ==
  /\ NoUser \in UserRow /\ NoRequest \in Request /\ NoContext \in Context
  /\ NoRehash \in [user : Users \cup {None}, copy : UserRow]
  /\ Nothing \in [open : SUBSET Creds, csrf : Creds \cup {None}, owners : SUBSET Users]
  /\ \A c \in Creds : NoCred(c) \in CredRow
<1>1. NoUser \in UserRow BY Names DEF NoUser, UserRow, States, Hashes, Roles
<1>2. NoRequest \in Request BY Names DEF NoRequest, Request
<1>3. NoContext \in Context
  <2>1. TokenRetryLimit \in Nat \ {0} BY Zenon, AccountsAssumption
  <2>2. 0 \in Tries BY <2>1 DEF Tries
  <2>3. QED BY <2>2 DEF NoContext, Context
<1>4. \A c \in Creds : NoCred(c) \in CredRow BY DEF NoCred, CredRow, States
<1>5. QED BY <1>1, <1>2, <1>3, <1>4 DEF NoRehash, Nothing

LEMMA InitTyped == Init => TypeOK
<1>1. SUFFICES ASSUME Init PROVE TypeOK OBVIOUS
<1>2. PICK us \in [FirstUsers -> FirstUserRows], cs \in [FirstCreds -> FirstCredRows] :
        /\ users = [u \in Users |-> IF u \in FirstUsers THEN us[u] ELSE NoUser]
        /\ creds = [c \in Creds |-> IF c \in FirstCreds
                                    THEN [NoCred(c) EXCEPT !.state = cs[c].state,
                                            !.kind = cs[c].kind, !.user = cs[c].user,
                                            !.prefix = cs[c].prefix, !.fresh = TRUE]
                                    ELSE NoCred(c)]
  BY <1>1 DEF Init
<1>3. users \in [Users -> UserRow]
  <2>1. FirstUserRows \subseteq UserRow
    <3>1. [NoUser EXCEPT !.state = "deleted"] \in UserRow
      BY EmptyRows DEF UserRow, States
    <3>2. QED BY <3>1, AccountsAssumption DEF FirstUserRows, UserRow, States, Hashes, Roles
  <2>2. QED BY <1>2, <2>1, EmptyRows
<1>4. creds \in [Creds -> CredRow]
  <2>1. ASSUME NEW c \in Creds PROVE creds[c] \in CredRow
    <3>1. CASE c \in FirstCreds
      <4>1. cs[c] \in FirstCredRows BY <1>2, <3>1
      <4>2. /\ cs[c].state \in States /\ cs[c].kind \in {"token", "session"}
            /\ cs[c].user \in Users /\ cs[c].prefix \in Prefixes
        BY <4>1 DEF FirstCredRows, States, Users
      <4>3. creds[c] = [NoCred(c) EXCEPT !.state = cs[c].state,
                          !.kind = cs[c].kind, !.user = cs[c].user,
                          !.prefix = cs[c].prefix, !.fresh = TRUE]
        BY <1>2, <3>1
      <4>4. QED BY <4>2, <4>3, EmptyRows DEF CredRow
    <3>2. CASE c \notin FirstCreds BY <1>2, <3>2, EmptyRows
    <3>3. QED BY <3>1, <3>2
  <2>2. QED BY <1>2, <2>1
<1>5. links \in [External -> Users \cup {None}] BY <1>1 DEF Init, Users
<1>6. QED BY <1>1, <1>3, <1>4, <1>5, EmptyRows DEF Init, TypeOK

\* What a request carries is well formed, and what it shows has been given out.
LEMMA BodyTyped ==
  ASSUME TypeOK, NEW k \in Kinds, NEW body \in Bodies(k)
  PROVE  /\ body \in Request /\ body.kind = k
         /\ body.bearer \in Given("token") \cup {None}
         /\ body.cookie \in Given("session") \cup {None}
         /\ body.csrf \in HandedOut \cup {None}
         /\ k \in {"newtoken", "deluser"} => body.user \in AllUsers(users)
         /\ k = "revoke" => body.bearer # None
         /\ k = "logout" => body.cookie # None
<1>1. /\ Given("token") \subseteq Creds /\ Given("session") \subseteq Creds
      /\ HandedOut \subseteq Creds /\ AllUsers(users) \subseteq Users
  BY DEF Given, HandedOut, AllUsers, TypeOK, CredRow
<1>2. k \in AllKinds BY AccountsAssumption
<1>3. /\ body.kind = k
      /\ body.bearer \in OrNone(Given("token")) /\ body.cookie \in OrNone(Given("session"))
      /\ body.csrf \in OrNone(HandedOut) /\ body.unsafe \in BOOLEAN /\ body.form \in BOOLEAN
  BY DEF Bodies, OrNone
<1>4. /\ body.user \in OrNone(AllUsers(users)) /\ body.email \in Emails
      /\ body.good \in BOOLEAN /\ body.account \in External /\ body.owner \in BOOLEAN
  BY Names DEF Bodies, OrNone
<1>5. /\ k \in {"newtoken", "deluser"} => body.user \in AllUsers(users)
      /\ k = "revoke" => body.bearer \in Given("token")
      /\ k = "logout" => body.cookie \in Given("session")
  BY DEF Bodies
<1>6. body = [kind |-> body.kind, bearer |-> body.bearer, cookie |-> body.cookie,
              csrf |-> body.csrf, unsafe |-> body.unsafe, form |-> body.form,
              user |-> body.user, email |-> body.email, good |-> body.good, account |-> body.account,
              owner |-> body.owner]
  BY DEF Bodies
<1>7. body \in Request BY <1>1, <1>2, <1>3, <1>4, <1>6 DEF Request, OrNone
<1>8. QED BY <1>1, <1>3, <1>5, <1>7, Names DEF OrNone

Pcs     == Statements \cup Answers \cup {"idle"}
Seens   == [open : SUBSET Creds, csrf : Creds \cup {None}, owners : SUBSET Users]
Rehashs == [user : Users \cup {None}, copy : UserRow]

LEMMA StepsAreNamed ==
  {"readtoken", "tokenuser", "readsession", "sessionuser", "gate", "writecsrf",
   "deletesession", "verify", "insertcred", "readlink", "linkuser", "readmail", "insertlink",
   "insertuser", "readuser", "countusers", "countowners", "deleteuser", "deletetoken",
   "in", "ok", "refused", "idle"} \subseteq Pcs
BY DEF Pcs, Statements, Answers

LEMMA GotoTyped ==
  ASSUME TypeOK, NEW r \in Requests, NEW l \in Pcs, Goto(r, l)
  PROVE  pc' \in [Requests -> Pcs]
BY DEF TypeOK, Goto, Pcs

LEMMA DoneTyped ==
  ASSUME TypeOK, NEW r \in Requests, Done(r)
  PROVE  /\ pc' \in [Requests -> Pcs] /\ req' \in [Requests -> Request]
         /\ ctx' \in [Requests -> Context] /\ seen' \in [Requests -> Seens]
BY GotoTyped, StepsAreNamed, EmptyRows DEF Done, Forget, TypeOK, Seens

LEMMA RefuseTyped ==
  ASSUME TypeOK, NEW r \in Requests, Refuse(r)
  PROVE  TypeOK'
<1>1. pc' \in [Requests -> Pcs] BY GotoTyped, StepsAreNamed DEF Refuse
<1>2. QED BY <1>1, EmptyRows DEF Refuse, Forget, TypeOK, Pcs

LEMMA PassOnTyped ==
  ASSUME TypeOK, NEW r \in Requests, PassOn(r)
  PROVE  TypeOK'
<1>1. pc' \in [Requests -> Pcs]
  BY GotoTyped, StepsAreNamed DEF PassOn, AfterToken, AfterSession
<1>2. QED BY <1>1, EmptyRows DEF PassOn, TypeOK, Pcs

\* What the steps make of a context.
LEMMA ContextTyped ==
  ASSUME NEW x \in Context
  PROVE  /\ \A u \in Users \cup {None} : [x EXCEPT !.user = u] \in Context
         /\ \A c \in Creds : [x EXCEPT !.cred = c] \in Context
         /\ \A c, d \in Creds : [x EXCEPT !.cred = c, !.csrf = d] \in Context
         /\ \A u \in Users, source \in {"bearer", "session"} :
              [x EXCEPT !.user = u, !.source = source] \in Context
         /\ \A n \in Tries : [x EXCEPT !.tries = n] \in Context
<1>1. \A u \in Users \cup {None} : [x EXCEPT !.user = u] \in Context BY DEF Context
<1>2. \A c \in Creds : [x EXCEPT !.cred = c] \in Context BY DEF Context
<1>3. \A c, d \in Creds : [x EXCEPT !.cred = c, !.csrf = d] \in Context BY DEF Context
<1>4. \A u \in Users, source \in {"bearer", "session"} :
        [x EXCEPT !.user = u, !.source = source] \in Context
  BY DEF Context
<1>5. \A n \in Tries : [x EXCEPT !.tries = n] \in Context BY DEF Context
<1>6. QED BY <1>1, <1>2, <1>3, <1>4, <1>5

LEMMA WithUserTyped ==
  ASSUME TypeOK, NEW r \in Requests, NEW u \in Users \cup {None}, NEW l \in Pcs,
         WithUser(r, u, l)
  PROVE  TypeOK'
<1>1. pc' \in [Requests -> Pcs] BY GotoTyped DEF WithUser
<1>2. [ctx[r] EXCEPT !.user = u] \in Context BY ContextTyped DEF TypeOK
<1>3. ctx' \in [Requests -> Context] BY <1>2 DEF WithUser, TypeOK
<1>4. QED BY <1>1, <1>3 DEF WithUser, TypeOK, Pcs

LEMMA ReceiveTyped ==
  ASSUME TypeOK, NEW r \in Requests, NEW k \in Kinds, NEW body \in Bodies(k), Receive(r, body)
  PROVE  TypeOK'
<1>1. /\ body \in Request /\ body.kind = k /\ body.cookie \in Creds \cup {None}
      /\ Open \subseteq Creds
  BY BodyTyped DEF Given, Open, TypeOK
<1>2. pc' \in [Requests -> Pcs]
  BY GotoTyped, StepsAreNamed DEF Receive, Entry, AfterToken
<1>3. [seen[r] EXCEPT !.open = Open,
                      !.csrf = IF body.cookie = None THEN None ELSE creds[body.cookie].csrf]
        \in Seens
  BY <1>1 DEF TypeOK, Seens, CredRow
<1>4. seen' \in [Requests -> Seens] BY <1>3 DEF Receive, TypeOK, Seens
<1>5. req' \in [Requests -> Request] BY <1>1 DEF Receive, TypeOK
<1>6. QED BY <1>2, <1>4, <1>5 DEF Receive, TypeOK, Pcs, Seens

\* What the statements make of a row.
LEMMA RowsTyped ==
  /\ \A row \in CredRow : [row EXCEPT !.state = "deleted"] \in CredRow
  /\ \A row \in CredRow : [row EXCEPT !.fresh = FALSE] \in CredRow
  /\ \A row \in CredRow, c \in Creds : [row EXCEPT !.csrf = c] \in CredRow
  /\ \A row \in UserRow : [row EXCEPT !.state = "deleted"] \in UserRow
  /\ \A row \in UserRow : [row EXCEPT !.hash = "argon2id"] \in UserRow
BY DEF CredRow, UserRow, States, Hashes

LEMMA ChainTyped ==
  ASSUME TypeOK, NEW r \in Requests, Chain(r)
  PROVE  TypeOK'
<1>1. CASE NoToken(r) \/ NoSession(r) \/ NoCredUser(r)
  BY <1>1, PassOnTyped DEF NoToken, NoSession, NoCredUser
<1>2. CASE KeepOut(r) \/ CsrfGone(r) BY <1>2, RefuseTyped DEF KeepOut, CsrfGone
<1>3. CASE ReadToken(r)
  <2>1. PICK c \in Creds : ctx' = [ctx EXCEPT ![r].cred = c]
    BY <1>3 DEF ReadToken, TokenFound, ByPrefix, TypeOK
  <2>2. [ctx[r] EXCEPT !.cred = c] \in Context BY ContextTyped DEF TypeOK
  <2>3. pc' \in [Requests -> Pcs] BY <1>3, GotoTyped, StepsAreNamed DEF ReadToken
  <2>4. QED BY <1>3, <2>1, <2>2, <2>3 DEF ReadToken, TypeOK, Pcs
<1>4. CASE ReadSession(r)
  <2>1. PICK c \in Creds : ctx' = [ctx EXCEPT ![r].cred = c, ![r].csrf = creds[c].csrf]
    BY <1>4 DEF ReadSession, SessionFound, ByPrefix, TypeOK
  <2>2. [ctx[r] EXCEPT !.cred = c, !.csrf = creds[c].csrf] \in Context
    <3>1. ctx[r] \in Context /\ creds[c].csrf \in Creds BY DEF TypeOK, CredRow
    <3>2. QED BY <3>1, ContextTyped
  <2>3. pc' \in [Requests -> Pcs] BY <1>4, GotoTyped, StepsAreNamed DEF ReadSession
  <2>4. ctx' \in [Requests -> Context] BY <2>1, <2>2 DEF TypeOK
  <2>5. QED BY <1>4, <2>3, <2>4 DEF ReadSession, TypeOK, Pcs
<1>5. ASSUME NEW source \in {"bearer", "session"}, NEW u \in Users,
             ctx' = [ctx EXCEPT ![r].user = u, ![r].source = source]
      PROVE  ctx' \in [Requests -> Context]
  <2>1. [ctx[r] EXCEPT !.user = u, !.source = source] \in Context
    BY ContextTyped DEF TypeOK
  <2>2. QED BY <1>5, <2>1 DEF TypeOK
<1>6. CASE TokenUser(r)
  <2>1. creds[ctx[r].cred].user \in Users
    BY <1>6 DEF TokenUser, HasUser, AllUsers, TypeOK
  <2>2. ctx' \in [Requests -> Context] BY <1>5, <1>6, <2>1 DEF TokenUser
  <2>3. pc' \in [Requests -> Pcs] BY <1>6, GotoTyped, StepsAreNamed DEF TokenUser
  <2>4. QED BY <1>6, <2>2, <2>3 DEF TokenUser, TypeOK, Pcs
<1>7. CASE SessionUser(r)
  <2>1. creds[ctx[r].cred].user \in Users
    BY <1>7 DEF SessionUser, HasUser, AllUsers, TypeOK
  <2>2. ctx' \in [Requests -> Context] BY <1>5, <1>7, <2>1 DEF SessionUser
  <2>3. pc' \in [Requests -> Pcs] BY <1>7, GotoTyped, StepsAreNamed DEF SessionUser
  <2>4. QED BY <1>7, <2>2, <2>3 DEF SessionUser, TypeOK, Pcs
<1>8. CASE Enter(r)
  <2>1. pc' \in [Requests -> Pcs] BY <1>8, GotoTyped, StepsAreNamed DEF Enter
  <2>2. QED BY <1>8, <2>1 DEF Enter, TypeOK, Pcs
<1>9. CASE WriteCsrf(r)
  <2>1. creds' \in [Creds -> CredRow]
    BY <1>9, RowsTyped, Names DEF WriteCsrf, UpdateCSRF, TypeOK
  <2>2. QED BY <1>9, <2>1, DoneTyped DEF WriteCsrf, TypeOK, Pcs, Seens
<1>10. CASE DeleteSession(r)
  <2>1. creds' \in [Creds -> CredRow]
    BY <1>10, RowsTyped DEF DeleteSession, DeleteCred, Deleted, TypeOK
  <2>2. pc' \in [Requests -> Pcs]
    BY <1>10, GotoTyped, StepsAreNamed DEF DeleteSession, AfterSession
  <2>3. QED BY <1>10, <2>1, <2>2, EmptyRows DEF DeleteSession, TypeOK, Pcs
<1>11. QED BY <1>1, <1>2, <1>3, <1>4, <1>6, <1>7, <1>8, <1>9, <1>10 DEF Chain

LEMMA IssueTyped ==
  ASSUME TypeOK, NEW r \in Requests, Issue(r)
  PROVE  TypeOK'
<1>1. CASE VerifyRefused(r) \/ IssueRefused(r)
  BY <1>1, RefuseTyped DEF VerifyRefused, IssueRefused
<1>2. CASE Verify(r)
  <2>1. PICK u \in Users :
          /\ ctx' = [ctx EXCEPT ![r].user = u]
          /\ rehash' = IF NeedsRehash(users[u].hash)
                       THEN [rehash EXCEPT ![r] = [user |-> u, copy |-> users[u]]]
                       ELSE rehash
    BY <1>2 DEF Verify, Verified, UsersByEmail, AllUsers, TypeOK
  <2>2. [ctx[r] EXCEPT !.user = u] \in Context BY ContextTyped DEF TypeOK
  <2>3. [user |-> u, copy |-> users[u]] \in Rehashs BY DEF TypeOK, Rehashs
  <2>4. ctx' \in [Requests -> Context] /\ rehash' \in [Requests -> Rehashs]
    BY <2>1, <2>2, <2>3 DEF TypeOK, Rehashs
  <2>5. pc' \in [Requests -> Pcs] BY <1>2, GotoTyped, StepsAreNamed DEF Verify
  <2>6. QED BY <1>2, <2>4, <2>5 DEF Verify, TypeOK, Pcs, Rehashs
<1>3. ASSUME NEW p \in Prefixes, InsertCredential(r, p) PROVE TypeOK'
  <2>1. CredKind(r) \in {"token", "session"} /\ UserOf(r) \in Users \cup {None}
    BY DEF CredKind, UserOf, TypeOK, Context
  <2>2. creds' \in [Creds -> CredRow]
    BY <1>3, <2>1, Names DEF InsertCredential, InsertCred, TypeOK, CredRow, States
  <2>3. QED BY <1>3, <2>2, DoneTyped DEF InsertCredential, TypeOK, Pcs, Seens
<1>4. ASSUME NEW p \in Prefixes, PrefixTaken(r, p) PROVE TypeOK'
  <2>1. CASE MayRetry(r)
    <3>1. TokenRetryLimit \in Nat \ {0} BY Zenon, AccountsAssumption
    <3>2. ctx[r].tries \in Tries BY DEF TypeOK, Context
    <3>3. ctx[r].tries + 1 \in Tries BY <2>1, <3>1, <3>2 DEF MayRetry, Tries
    <3>4. [ctx[r] EXCEPT !.tries = @ + 1] \in Context
      BY <3>3, ContextTyped DEF TypeOK
    <3>5. QED BY <1>4, <2>1, <3>4 DEF PrefixTaken, TypeOK
  <2>2. CASE ~MayRetry(r) BY <1>4, <2>2, RefuseTyped DEF PrefixTaken
  <2>3. QED BY <2>1, <2>2
<1>5. QED BY <1>1, <1>2, <1>3, <1>4 DEF Issue

LEMMA CallbackTyped ==
  ASSUME TypeOK, NEW r \in Requests, Callback(r)
  PROVE  TypeOK'
<1>1. /\ req[r].account \in External /\ req[r].email \in Emails
      /\ UserOf(r) \in Users \cup {None} /\ None \in Users \cup {None}
  BY DEF TypeOK, Request, UserOf, Context
<1>2. CASE LinkUserGone(r) \/ EmailTaken(r) \/ LinkRefused(r)
  BY <1>2, RefuseTyped DEF LinkUserGone, EmailTaken, LinkRefused
<1>3. CASE ReadLink(r)
  <2>1. links[req[r].account] \in Users \cup {None} BY <1>1 DEF TypeOK
  <2>2. QED BY <1>1, <1>3, <2>1, WithUserTyped, StepsAreNamed DEF ReadLink
<1>4. CASE LinkUser(r) BY <1>1, <1>4, WithUserTyped, StepsAreNamed DEF LinkUser
<1>5. CASE ReadMail(r)
  <2>1. UsersByEmail(users, req[r].email) \subseteq Users
    BY DEF UsersByEmail, AllUsers, TypeOK
  <2>2. QED BY <1>1, <1>5, <2>1, WithUserTyped, StepsAreNamed DEF ReadMail
<1>6. CASE InsertNewUser(r)
  <2>1. NewRole(r) \in Roles BY DEF NewRole, Roles
  <2>2. users' \in [Users -> UserRow]
    BY <1>1, <1>6, <2>1, Names DEF InsertNewUser, InsertUser, TypeOK, UserRow, States, Hashes
  <2>3. CASE Kind(r) = "oauth"
    <3>1. pc' \in [Requests -> Pcs] BY <1>6, <2>3, GotoTyped, StepsAreNamed DEF InsertNewUser
    <3>2. [ctx[r] EXCEPT !.user = r] \in Context BY Names, ContextTyped DEF TypeOK
    <3>3. ctx' \in [Requests -> Context] BY <1>6, <2>3, <3>2 DEF InsertNewUser, TypeOK
    <3>4. QED BY <1>6, <2>2, <2>3, <3>1, <3>3 DEF InsertNewUser, TypeOK, Pcs
  <2>4. CASE Kind(r) # "oauth"
    BY <1>6, <2>2, <2>4, DoneTyped DEF InsertNewUser, TypeOK, Pcs, Seens
  <2>5. QED BY <2>3, <2>4
<1>7. CASE CreateOAuthAccount(r)
  <2>1. pc' \in [Requests -> Pcs] BY <1>7, GotoTyped, StepsAreNamed DEF CreateOAuthAccount
  <2>2. links' \in [External -> Users \cup {None}]
    BY <1>1, <1>7 DEF CreateOAuthAccount, InsertLink, TypeOK
  <2>3. QED BY <1>7, <2>1, <2>2 DEF CreateOAuthAccount, TypeOK, Pcs
<1>8. QED BY <1>2, <1>3, <1>4, <1>5, <1>6, <1>7 DEF Callback

LEMMA CommandTyped ==
  ASSUME TypeOK, NEW r \in Requests, Command(r)
  PROVE  TypeOK'
<1>1. CASE LastOwner(r) \/ UserGone(r) \/ TokenGone(r)
  BY <1>1, RefuseTyped DEF LastOwner, UserGone, TokenGone
<1>2. CASE CountUsers(r)
  BY <1>2, RefuseTyped, WithUserTyped, StepsAreNamed DEF CountUsers
<1>3. CASE ReadUser(r)
  <2>1. req[r].user \in Users \cup {None} BY DEF TypeOK, Request
  <2>2. QED BY <1>3, <2>1, RefuseTyped, WithUserTyped, StepsAreNamed DEF ReadUser
<1>4. CASE CountOwners(r)
  <2>1. pc' \in [Requests -> Pcs] BY <1>4, GotoTyped, StepsAreNamed DEF CountOwners
  <2>2. [seen[r] EXCEPT !.owners = Owners(users)] \in Seens
    BY DEF TypeOK, Seens, Owners, AllUsers
  <2>3. seen' \in [Requests -> Seens] BY <1>4, <2>2 DEF CountOwners, TypeOK, Seens
  <2>4. QED BY <1>4, <2>1, <2>3 DEF CountOwners, TypeOK, Pcs, Seens
<1>5. CASE DeleteUserRow(r)
  <2>1. users' \in [Users -> UserRow]
    BY <1>5, RowsTyped DEF DeleteUserRow, DeleteUser, Deleted, TypeOK
  <2>2. creds' \in [Creds -> CredRow]
    <3>1. \A row \in CredRow :
            [row EXCEPT !.state = IF @ = "stored" THEN "deleted" ELSE @] \in CredRow
      BY DEF CredRow, States
    <3>2. QED BY <1>5, <3>1 DEF DeleteUserRow, CascadeCreds, TypeOK
  <2>3. links' \in [External -> Users \cup {None}]
    BY <1>5 DEF DeleteUserRow, CascadeLinks, TypeOK
  <2>4. QED BY <1>5, <2>1, <2>2, <2>3, DoneTyped DEF DeleteUserRow, TypeOK, Pcs, Seens
<1>6. CASE RevokeToken(r)
  <2>1. creds' \in [Creds -> CredRow]
    BY <1>6, RowsTyped DEF RevokeToken, DeleteCred, Deleted, TypeOK
  <2>2. QED BY <1>6, <2>1, DoneTyped DEF RevokeToken, TypeOK, Pcs, Seens
<1>7. QED BY <1>1, <1>2, <1>3, <1>4, <1>5, <1>6 DEF Command

LEMMA NextTyped == TypeOK /\ [Next]_vars => TypeOK'
<1>1. SUFFICES ASSUME TypeOK, [Next]_vars PROVE TypeOK' OBVIOUS
<1>2. ASSUME NEW r \in Requests, SqlFails(r) PROVE TypeOK'
  BY <1>1, <1>2, RefuseTyped, PassOnTyped DEF SqlFails
<1>3. ASSUME NEW r \in Requests, Rehash(r) PROVE TypeOK'
  <2>1. rehash[r].copy \in UserRow BY <1>1 DEF TypeOK
  <2>2. users' \in [Users -> UserRow]
    BY <1>1, <1>3, <2>1, RowsTyped DEF Rehash, UpdateUser, TypeOK
  <2>3. QED BY <1>1, <1>3, <2>2, EmptyRows DEF Rehash, TypeOK
<1>4. ASSUME NEW c \in Creds, Expire(c) PROVE TypeOK'
  <2>1. creds' \in [Creds -> CredRow] BY <1>1, <1>4, RowsTyped DEF Expire, TypeOK
  <2>2. QED BY <1>1, <1>4, <2>1 DEF Expire, TypeOK
<1>5. CASE UNCHANGED vars BY <1>1, <1>5 DEF vars, TypeOK
<1>6. QED BY <1>1, <1>2, <1>3, <1>4, <1>5, ReceiveTyped, ChainTyped, IssueTyped,
             CallbackTyped, CommandTyped
          DEF Next

-------------------------------------------------------------------------------
(* The invariant.                                                          *)

Issued(c)   == creds[c].state # "unused"
Existed(u)  == users[u].state # "unused"
InFlight(r) == pc[r] \notin {"idle", "ok", "refused"}
Shows(r)    == {req[r].bearer, req[r].cookie} \cap Creds

\* A request inserts the rows that have its name, in its last steps; the value
\* of X-Csrf-Token that a request draws becomes one when the request is done.
RowsByName ==
  /\ \A r \in Requests : Issued(r) => pc[r] = "ok"
  /\ \A r \in Requests : Existed(r) => pc[r] \in {"insertlink", "insertcred", "ok", "refused"}
  /\ \A c \in Creds : creds[c].csrf = c
                      \/ (creds[c].csrf \in Requests /\ pc[creds[c].csrf] = "ok")

\* What a request has at hand in each of its steps.
AtHand(r) ==
  /\ pc[r] \in {"verify", "readuser"} => Kind(r) # "oauth"
  /\ pc[r] = "readuser" => req[r].user \in Users
  /\ pc[r] = "deletetoken" => req[r].bearer \in Creds
  /\ pc[r] \in {"tokenuser", "sessionuser", "deletesession", "writecsrf"} => ctx[r].cred \in Creds
  /\ pc[r] \in {"linkuser", "insertlink", "insertcred", "countowners", "deleteuser"} =>
       ctx[r].user \in Users
  /\ pc[r] = "idle" => ctx[r].user = None
  /\ ctx[r].user # None => Existed(ctx[r].user)

\* Of what a request shows, nothing has come to life since it came in, and the
\* value of its header had been handed out by then.
OldNews(r) ==
  InFlight(r) =>
    /\ \A c \in Shows(r) : Issued(c) /\ (c \in Open => c \in seen[r].open)
    /\ req[r].csrf \in {None} \cup FirstCreds \cup {q \in Requests : pc[q] = "ok"}
    /\ pc[r] \in {"readtoken", "tokenuser", "readsession"} /\ req[r].cookie \in Creds
         /\ creds[req[r].cookie].csrf = req[r].csrf => seen[r].csrf = req[r].csrf

\* The session as the request has read it.
ReadCsrf(r) == ctx[r].csrf = req[r].csrf => seen[r].csrf = req[r].csrf

Vouched(r) ==
  /\ pc[r] \in {"tokenuser", "sessionuser"} => ctx[r].cred \in Shows(r) \cap seen[r].open
  /\ pc[r] = "sessionuser" => ReadCsrf(r)
  /\ pc[r] = "in" \/ (pc[r] = "gate" /\ ctx[r].user # None) =>
       /\ ctx[r].cred \in Shows(r) \cap seen[r].open
       /\ ctx[r].user = creds[ctx[r].cred].user
       /\ ctx[r].source = "session" => ReadCsrf(r)
  /\ pc[r] = "in" /\ req[r].unsafe /\ ~CsrfSkipped(r) /\ ctx[r].source = "session" =>
       req[r].csrf = ctx[r].csrf

\* A sign-in is of the user that the account is linked to, while there is one.
SignsIn(r) ==
  Kind(r) = "oauth" =>
    /\ pc[r] \in {"linkuser", "insertcred"} /\ Stored(users, ctx[r].user) =>
         links[req[r].account] = ctx[r].user
    /\ Stored(creds, r) => links[req[r].account] = creds[r].user

\* The copy of a goroutine agrees with the user in all but the hash.
CopyAgrees(r) ==
  LET u == rehash[r].user
      copy == rehash[r].copy
  IN
  rehash[r] # NoRehash =>
    /\ u \in Users /\ Existed(u) /\ copy.state = "stored" /\ copy.hash = "bcrypt"
    /\ Stored(users, u) => /\ users[u].email = copy.email /\ users[u].role = copy.role
                           /\ users[u].hash \in {"bcrypt", "argon2id"}

\* A deletion has counted several owners, or deletes none.
OwnersCounted(r) ==
  seen[r].owners # {} => pc[r] = "deleteuser" /\ Cardinality(seen[r].owners) > 1

Own(r) == AtHand(r) /\ OldNews(r) /\ Vouched(r) /\ SignsIn(r) /\ OwnersCounted(r)

IInv ==
  /\ TypeOK /\ ConstraintsHold /\ RowsByName
  /\ \A r \in Requests : Own(r) /\ CopyAgrees(r)

\* The tables and w, the request that takes a step, if one does.
UserMoves(w) ==
  \A u \in Users :
    /\ users[u].state = "deleted" => users'[u] = users[u]
    /\ Stored(users, u) =>
         /\ users'[u].state \in {"stored", "deleted"}
         /\ users'[u].email = users[u].email /\ users'[u].role = users[u].role
         /\ users'[u].hash # users[u].hash =>
              users[u].hash = "bcrypt" /\ users'[u].hash = "argon2id"
    /\ ~Existed(u) => users'[u] = users[u]
                      \/ (u = w /\ pc[w] = "insertuser" /\ pc'[w] \in {"insertlink", "ok"})

CredMoves(w) ==
  \A c \in Creds :
    /\ Issued(c) =>
         /\ creds'[c].state \in {"stored", "deleted"}
         /\ Stored(creds', c) => Stored(creds, c)
         /\ creds'[c].user = creds[c].user
         /\ creds'[c].fresh => creds[c].fresh
         /\ creds'[c].csrf = creds[c].csrf
            \/ (creds'[c].csrf = w /\ w \in Requests /\ pc[w] # "ok" /\ pc'[w] = "ok")
    /\ ~Issued(c) => creds'[c] = creds[c]
                     \/ (c = w /\ pc[w] = "insertcred" /\ pc'[w] = "ok" /\ creds'[c].csrf = c)

LinkMoves ==
  \A a \in External :
    links'[a] # links[a] => links[a] = None \/ ~Stored(users', links[a])

Moves(w) == UserMoves(w) /\ CredMoves(w) /\ LinkMoves

\* Everybody else stays where they are, and the late steps are the last ones.
Late == {"insertlink", "insertcred", "ok", "refused"}
PcMoves(w) ==
  /\ \A q \in Requests : q # w => pc'[q] = pc[q]
  /\ w \in Requests => /\ pc[w] = "ok" => pc'[w] = "ok"
                       /\ pc[w] \in Late => pc'[w] \in Late

LEMMA UsersStill == ASSUME TypeOK, NEW w, users' = users PROVE UserMoves(w)
BY DEF UserMoves, Stored

LEMMA CredsStill == ASSUME TypeOK, NEW w, creds' = creds PROVE CredMoves(w)
BY DEF CredMoves, Issued, TypeOK, CredRow, States

LEMMA LinksStill == ASSUME links' = links PROVE LinkMoves
BY DEF LinkMoves

\* Rows that are only taken away or change otherwise keep the constraints.
LEMMA FewerCreds ==
  ASSUME TypeOK, TypeOK', ConstraintsHold, UNCHANGED <<users, links>>,
         \A c \in Creds : Stored(creds', c) =>
           /\ Stored(creds, c)
           /\ creds'[c].kind = creds[c].kind /\ creds'[c].prefix = creds[c].prefix
           /\ creds'[c].user = creds[c].user
  PROVE  ConstraintsHold'
<1>1. \A kind, p : ByPrefix(creds', kind, p) \subseteq ByPrefix(creds, kind, p)
  BY DEF ByPrefix, TypeOK
<1>2. \A c \in Creds : Stored(creds', c) => c \in ByPrefix(creds', creds'[c].kind, creds'[c].prefix)
  BY DEF ByPrefix, TypeOK
<1>3. CredConstraints' BY <1>1, <1>2 DEF ConstraintsHold, CredConstraints
<1>4. UserConstraints' /\ LinkConstraints'
  BY DEF ConstraintsHold, UserConstraints, LinkConstraints
<1>5. QED BY <1>3, <1>4 DEF ConstraintsHold

LEMMA StillConstrained ==
  ASSUME ConstraintsHold, UNCHANGED <<users, creds, links>>
  PROVE  ConstraintsHold'
BY DEF ConstraintsHold, UserConstraints, CredConstraints, LinkConstraints

-------------------------------------------------------------------------------
(* The statements that change a table.                                     *)

LEMMA WriteCsrfMoves ==
  ASSUME IInv, TypeOK', NEW r \in Requests, WriteCsrf(r)
  PROVE  Moves(r) /\ ConstraintsHold'
<1>1. /\ TypeOK /\ ConstraintsHold /\ UNCHANGED <<users, links>>
      /\ pc[r] = "writecsrf" /\ pc'[r] = "ok"
      /\ Stored(creds, ctx[r].cred) /\ ctx[r].cred \in Creds
      /\ creds' = [creds EXCEPT ![ctx[r].cred].csrf = r]
  BY DEF IInv, WriteCsrf, UpdateCSRF, Done, Goto, TypeOK, Own, AtHand
<1>2. \A c \in Creds :
        /\ creds'[c].state = creds[c].state /\ creds'[c].user = creds[c].user
        /\ creds'[c].kind = creds[c].kind /\ creds'[c].prefix = creds[c].prefix
        /\ creds'[c].fresh = creds[c].fresh
        /\ c # ctx[r].cred => creds'[c] = creds[c]
        /\ c = ctx[r].cred => creds'[c].csrf = r
  BY <1>1 DEF TypeOK, CredRow
<1>3. CredMoves(r)
  BY <1>1, <1>2 DEF CredMoves, Issued, Stored, TypeOK, CredRow, States
<1>4. QED BY <1>1, <1>2, <1>3, UsersStill, LinksStill, FewerCreds DEF Moves, Stored

\* A row that is there is marked as deleted.
LEMMA DeletedMoves ==
  ASSUME TypeOK, TypeOK', ConstraintsHold, NEW w, NEW d \in Creds, Stored(creds, d),
         creds' = DeleteCred(creds, d), UNCHANGED <<users, links>>
  PROVE  Moves(w) /\ ConstraintsHold'
<1>1. \A c \in Creds :
        /\ c = d => creds'[c] = [creds[c] EXCEPT !.state = "deleted"]
        /\ c # d => creds'[c] = creds[c]
  BY DEF DeleteCred, Deleted, TypeOK
<1>2. \A row \in CredRow :
        LET del == [row EXCEPT !.state = "deleted"] IN
        /\ del.state = "deleted" /\ del.user = row.user /\ del.fresh = row.fresh
        /\ del.csrf = row.csrf
  BY DEF CredRow
<1>3. CredMoves(w) BY <1>1, <1>2 DEF CredMoves, Issued, Stored, TypeOK, CredRow, States
<1>4. ConstraintsHold' BY <1>1, <1>2, FewerCreds DEF Stored, TypeOK
<1>5. QED BY <1>3, <1>4, UsersStill, LinksStill DEF Moves

LEMMA DeleteSessionMoves ==
  ASSUME IInv, TypeOK', NEW r \in Requests, DeleteSession(r)
  PROVE  Moves(r) /\ ConstraintsHold'
<1>1. /\ TypeOK /\ ConstraintsHold /\ UNCHANGED <<users, links>> /\ ctx[r].cred \in Creds
      /\ creds' = IF Stored(creds, ctx[r].cred) THEN DeleteCred(creds, ctx[r].cred) ELSE creds
  BY DEF IInv, DeleteSession, Own, AtHand
<1>2. QED BY <1>1, DeletedMoves, UsersStill, CredsStill, LinksStill, StillConstrained DEF Moves

LEMMA RevokeTokenMoves ==
  ASSUME IInv, TypeOK', NEW r \in Requests, RevokeToken(r)
  PROVE  Moves(r) /\ ConstraintsHold'
<1>1. /\ TypeOK /\ ConstraintsHold /\ UNCHANGED <<users, links>> /\ req[r].bearer \in Creds
      /\ Stored(creds, req[r].bearer) /\ creds' = DeleteCred(creds, req[r].bearer)
  BY DEF IInv, RevokeToken, Own, AtHand
<1>2. QED BY <1>1, DeletedMoves

LEMMA ExpireMoves ==
  ASSUME IInv, TypeOK', NEW d \in Creds, Expire(d), NEW w
  PROVE  Moves(w) /\ ConstraintsHold'
<1>1. /\ TypeOK /\ ConstraintsHold /\ UNCHANGED <<users, links>>
      /\ creds' = [creds EXCEPT ![d].fresh = FALSE]
  BY DEF IInv, Expire
<1>2. \A c \in Creds :
        /\ creds'[c].state = creds[c].state /\ creds'[c].user = creds[c].user
        /\ creds'[c].kind = creds[c].kind /\ creds'[c].prefix = creds[c].prefix
        /\ creds'[c].csrf = creds[c].csrf
        /\ c # d => creds'[c] = creds[c]
        /\ c = d => creds'[c].fresh = FALSE
  BY <1>1 DEF TypeOK, CredRow
<1>3. Stored(creds, d) BY DEF Expire, Open
<1>4. CredMoves(w)
  BY <1>2, <1>3 DEF CredMoves, Issued, Stored, TypeOK, CredRow, States
<1>5. ConstraintsHold' BY <1>1, <1>2, FewerCreds DEF Stored
<1>6. QED BY <1>1, <1>4, <1>5, UsersStill, LinksStill DEF Moves

LEMMA InsertCredentialMoves ==
  ASSUME IInv, TypeOK', NEW r \in Requests, NEW p \in Prefixes, InsertCredential(r, p)
  PROVE  Moves(r) /\ ConstraintsHold'
<1>1. /\ TypeOK /\ ConstraintsHold /\ UNCHANGED <<users, links>>
      /\ pc[r] = "insertcred" /\ pc'[r] = "ok"
      /\ ByPrefix(creds, CredKind(r), p) = {}
      /\ Stored(users, ctx[r].user) /\ ctx[r].user \in Users /\ r \in Creds
      /\ creds' = [creds EXCEPT ![r] =
                     [state |-> "stored", kind |-> CredKind(r), user |-> ctx[r].user,
                      prefix |-> p, csrf |-> r, fresh |-> TRUE]]
      /\ ~Issued(r)
  BY Names DEF IInv, InsertCredential, InsertCred, Done, Goto, TypeOK, Own, AtHand, UserOf,
               RowsByName
<1>2. /\ \A c \in Creds : c # r => creds'[c] = creds[c]
      /\ Stored(creds', r) /\ creds'[r].kind = CredKind(r) /\ creds'[r].prefix = p
      /\ creds'[r].csrf = r /\ creds'[r].user = ctx[r].user
  BY <1>1 DEF TypeOK, Stored
<1>3. CredMoves(r)
  BY <1>1, <1>2 DEF CredMoves, Issued, Stored, TypeOK, CredRow, States
<1>4. ASSUME NEW c \in Creds, Stored(creds', c)
      PROVE  /\ ByPrefix(creds', creds'[c].kind, creds'[c].prefix) = {c}
             /\ creds'[c].user \in AllUsers(users')
  <2>1. CASE c = r
    <3>1. ByPrefix(creds', CredKind(r), p) = {r}
      BY <1>1, <1>2 DEF ByPrefix, TypeOK, Stored
    <3>2. QED BY <1>1, <1>2, <2>1, <3>1 DEF AllUsers, TypeOK, Stored
  <2>2. CASE c # r
    <3>1. creds'[c] = creds[c] /\ Stored(creds, c) BY <1>2, <1>4, <2>2 DEF Stored
    <3>2. ByPrefix(creds, creds[c].kind, creds[c].prefix) = {c} /\ creds[c].user \in AllUsers(users)
      BY <1>1, <3>1 DEF ConstraintsHold, CredConstraints
    <3>3. ~(creds[c].kind = CredKind(r) /\ creds[c].prefix = p) BY <1>1, <3>2
    <3>4. ByPrefix(creds', creds[c].kind, creds[c].prefix) = {c}
      <4>1. DOMAIN creds' = Creds /\ DOMAIN creds = Creds BY <1>1 DEF TypeOK
      <4>2. ASSUME NEW d \in Creds
            PROVE  d \in ByPrefix(creds', creds[c].kind, creds[c].prefix)
                     <=> d \in ByPrefix(creds, creds[c].kind, creds[c].prefix)
        <5>1. CASE d = r BY <1>1, <1>2, <3>3, <4>1, <5>1 DEF ByPrefix, Stored, Issued
        <5>2. CASE d # r BY <1>2, <4>1, <5>2 DEF ByPrefix, Stored
        <5>3. QED BY <5>1, <5>2
      <4>3. ByPrefix(creds', creds[c].kind, creds[c].prefix) \subseteq Creds
        BY <4>1 DEF ByPrefix
      <4>4. QED BY <3>2, <4>2, <4>3
    <3>5. QED BY <1>1, <3>1, <3>2, <3>4
  <2>3. QED BY <2>1, <2>2
<1>5. ConstraintsHold'
  BY <1>1, <1>4 DEF ConstraintsHold, CredConstraints, UserConstraints, LinkConstraints
<1>6. QED BY <1>1, <1>3, <1>5, UsersStill, LinksStill DEF Moves

LEMMA InsertNewUserMoves ==
  ASSUME IInv, TypeOK', NEW r \in Requests, InsertNewUser(r)
  PROVE  Moves(r) /\ ConstraintsHold'
<1>1. /\ TypeOK /\ ConstraintsHold /\ UNCHANGED <<creds, links>>
      /\ pc[r] = "insertuser" /\ pc'[r] \in {"insertlink", "ok"}
      /\ EmailFree(users, req[r].email) /\ ~Existed(r) /\ r \in Users
  BY Names DEF IInv, InsertNewUser, Done, Goto, TypeOK, RowsByName
<1>2. /\ \A u \in Users : u # r => users'[u] = users[u]
      /\ users'[r].email = req[r].email /\ Stored(users', r)
  BY <1>1 DEF InsertNewUser, InsertUser, TypeOK, Stored
<1>3. UserMoves(r) BY <1>1, <1>2 DEF UserMoves, Stored, Existed
<1>4. AllUsers(users') = AllUsers(users) \cup {r}
  BY <1>1, <1>2 DEF AllUsers, Stored, TypeOK
<1>5. \A u \in AllUsers(users) : users[u].email # req[r].email /\ u # r
  BY <1>1 DEF EmailFree, UsersByEmail, AllUsers, Stored, Existed
<1>6. \A u \in AllUsers(users) : users'[u] = users[u]
  BY <1>1, <1>2, <1>5 DEF AllUsers, TypeOK
<1>7. UserConstraints' BY <1>1, <1>2, <1>4, <1>5, <1>6 DEF ConstraintsHold, UserConstraints
<1>8. CredConstraints' /\ LinkConstraints'
  <2>1. CredConstraints' BY <1>1, <1>4 DEF ConstraintsHold, CredConstraints
  <2>2. LinkConstraints' BY <1>1, <1>4 DEF ConstraintsHold, LinkConstraints
  <2>3. QED BY <2>1, <2>2
<1>9. QED BY <1>1, <1>3, <1>7, <1>8, CredsStill, LinksStill DEF Moves, ConstraintsHold

LEMMA CreateOAuthAccountMoves ==
  ASSUME IInv, TypeOK', NEW r \in Requests, CreateOAuthAccount(r)
  PROVE  Moves(r) /\ ConstraintsHold'
<1>1. /\ TypeOK /\ ConstraintsHold /\ UNCHANGED <<users, creds>>
      /\ links[req[r].account] = None /\ Stored(users, ctx[r].user) /\ ctx[r].user \in Users
      /\ links' = [links EXCEPT ![req[r].account] = ctx[r].user]
  BY DEF IInv, CreateOAuthAccount, LinkAllowed, Linked, InsertLink, UserOf, Own, AtHand
<1>2. LinkMoves BY <1>1 DEF LinkMoves, TypeOK
<1>3. LinkConstraints' BY <1>1 DEF ConstraintsHold, LinkConstraints, AllUsers, TypeOK
<1>4. QED BY <1>1, <1>2, <1>3, UsersStill, CredsStill
          DEF Moves, ConstraintsHold, UserConstraints, CredConstraints

LEMMA DeleteUserMoves ==
  ASSUME IInv, TypeOK', NEW r \in Requests, DeleteUserRow(r)
  PROVE  Moves(r) /\ ConstraintsHold'
<1> DEFINE d == ctx[r].user
<1>1. /\ TypeOK /\ ConstraintsHold /\ d \in Users /\ Stored(users, d)
      /\ users' = [users EXCEPT ![d].state = "deleted"]
      /\ creds' = CascadeCreds(creds, d) /\ links' = CascadeLinks(links, d, None)
  BY DEF IInv, DeleteUserRow, DeleteUser, Deleted, UserOf, Own, AtHand
<1>2. /\ \A u \in Users : u # d => users'[u] = users[u]
      /\ users'[d].state = "deleted" /\ users'[d].email = users[d].email
      /\ users'[d].role = users[d].role /\ users'[d].hash = users[d].hash
  BY <1>1 DEF TypeOK, UserRow
<1>3. UserMoves(r) BY <1>1, <1>2 DEF UserMoves, Stored, Existed
<1>4. AllUsers(users') = AllUsers(users) \ {d} BY <1>1, <1>2 DEF AllUsers, Stored, TypeOK
<1>5. ASSUME NEW c \in Creds
      PROVE  /\ creds'[c].user = creds[c].user /\ creds'[c].kind = creds[c].kind
             /\ creds'[c].prefix = creds[c].prefix /\ creds'[c].fresh = creds[c].fresh
             /\ creds'[c].csrf = creds[c].csrf
             /\ Stored(creds', c) => Stored(creds, c) /\ creds[c].user # d
             /\ Issued(c) => creds'[c].state \in {"stored", "deleted"}
             /\ ~Issued(c) => creds'[c] = creds[c]
  <2>1. creds[c] \in CredRow BY <1>1 DEF TypeOK
  <2>2. creds'[c] = IF creds[c].user = d
                    THEN [creds[c] EXCEPT !.state = IF @ = "stored" THEN "deleted" ELSE @]
                    ELSE creds[c]
    BY <1>1 DEF CascadeCreds, TypeOK
  <2>3. QED BY <2>1, <2>2 DEF CredRow, Stored, Issued, States
<1>6. CredMoves(r) BY <1>5 DEF CredMoves, Issued
<1>7. \A a \in External : links'[a] = IF links[a] = d THEN None ELSE links[a]
  BY <1>1 DEF CascadeLinks, TypeOK
<1>8. LinkMoves BY <1>2, <1>7 DEF LinkMoves, Stored
<1>9. UserConstraints'
  BY <1>1, <1>2, <1>4 DEF ConstraintsHold, UserConstraints, AllUsers, TypeOK
<1>10. CredConstraints'
  <2>1. ASSUME NEW c \in Creds, Stored(creds', c)
        PROVE  /\ ByPrefix(creds', creds'[c].kind, creds'[c].prefix) = {c}
               /\ creds'[c].user \in AllUsers(users')
    <3>1. /\ ByPrefix(creds, creds[c].kind, creds[c].prefix) = {c}
          /\ creds[c].user \in AllUsers(users)
      BY <1>1, <1>5, <2>1 DEF ConstraintsHold, CredConstraints
    <3>2. ByPrefix(creds', creds'[c].kind, creds'[c].prefix)
            \subseteq ByPrefix(creds, creds[c].kind, creds[c].prefix)
      BY <1>1, <1>5 DEF ByPrefix, TypeOK
    <3>3. c \in ByPrefix(creds', creds'[c].kind, creds'[c].prefix)
      BY <2>1 DEF ByPrefix, TypeOK
    <3>4. QED BY <1>4, <1>5, <2>1, <3>1, <3>2, <3>3
  <2>2. QED BY <2>1 DEF CredConstraints
<1>11. LinkConstraints'
  BY <1>1, <1>4, <1>7 DEF ConstraintsHold, LinkConstraints
<1>12. QED BY <1>3, <1>6, <1>8, <1>9, <1>10, <1>11 DEF Moves, ConstraintsHold

LEMMA RehashMoves ==
  ASSUME IInv, TypeOK', NEW r \in Requests, Rehash(r), NEW w
  PROVE  Moves(w) /\ ConstraintsHold'
<1> DEFINE u == rehash[r].user
           copy == rehash[r].copy
<1>1. /\ TypeOK /\ ConstraintsHold /\ UNCHANGED <<creds, links>>
      /\ users' = IF Stored(users, u)
                  THEN [users EXCEPT ![u] = [copy EXCEPT !.hash = "argon2id"]] ELSE users
      /\ rehash[r] # NoRehash /\ CopyAgrees(r) /\ copy \in UserRow
  BY DEF IInv, Rehash, UpdateUser, TypeOK
<1>2. CASE Stored(users, u)
  <2>1. /\ u \in Users /\ copy.state = "stored" /\ users[u].email = copy.email
        /\ users[u].role = copy.role /\ users[u].hash \in {"bcrypt", "argon2id"}
    BY <1>1, <1>2 DEF CopyAgrees
  <2>2. users'[u] = [copy EXCEPT !.hash = "argon2id"] /\ \A v \in Users : v # u => users'[v] = users[v]
    BY <1>1, <1>2, <2>1 DEF TypeOK
  <2>3. /\ users'[u].email = users[u].email /\ users'[u].role = users[u].role
        /\ users'[u].state = "stored" /\ users'[u].hash = "argon2id"
    BY <1>1, <2>1, <2>2 DEF UserRow
  <2>4. UserMoves(w) BY <1>2, <2>1, <2>2, <2>3 DEF UserMoves, Stored, Existed
  <2>5. AllUsers(users') = AllUsers(users)
    BY <1>1, <1>2, <2>1, <2>2, <2>3 DEF AllUsers, Stored, TypeOK
  <2>6. \A v \in AllUsers(users) : users'[v].email = users[v].email
    BY <1>1, <2>2, <2>3 DEF AllUsers, TypeOK
  <2>7. ConstraintsHold'
    BY <1>1, <2>5, <2>6 DEF ConstraintsHold, UserConstraints, CredConstraints, LinkConstraints
  <2>8. QED BY <1>1, <2>4, <2>7, CredsStill, LinksStill DEF Moves
<1>3. CASE ~Stored(users, u)
  BY <1>1, <1>3, UsersStill, CredsStill, LinksStill, StillConstrained DEF Moves
<1>4. QED BY <1>2, <1>3

-------------------------------------------------------------------------------
(* Requests that others' steps leave where they are.                       *)

Local(q) == <<pc[q], req[q], ctx[q], seen[q]>>

\* What existed stays, and what is stored afterwards was stored before, or new.
LEMMA StillThere ==
  ASSUME TypeOK, NEW w, Moves(w)
  PROVE  /\ \A u \in Users : Existed(u) => Existed(u)' /\ (Stored(users', u) => Stored(users, u))
         /\ \A c \in Creds : Issued(c) => Issued(c)' /\ (Stored(creds', c) => Stored(creds, c))
BY DEF Moves, UserMoves, CredMoves, Existed, Issued, Stored, TypeOK, UserRow, States

LEMMA RowsKept ==
  ASSUME IInv, NEW w \in Requests \cup {None}, Moves(w), PcMoves(w)
  PROVE  RowsByName'
<1>1. TypeOK /\ RowsByName BY DEF IInv
<1>2. \A q \in Requests : pc[q] = "ok" => pc'[q] = "ok" BY DEF PcMoves
<1>3. ASSUME NEW q \in Requests, Issued(q)' PROVE pc'[q] = "ok"
  BY <1>1, <1>2, <1>3, Names DEF RowsByName, Issued, Moves, CredMoves
<1>4. ASSUME NEW q \in Requests, Existed(q)' PROVE pc'[q] \in Late
  BY <1>1, <1>4, Names DEF RowsByName, Existed, Moves, UserMoves, PcMoves, Late
<1>5. ASSUME NEW c \in Creds
      PROVE  creds'[c].csrf = c \/ (creds'[c].csrf \in Requests /\ pc'[creds'[c].csrf] = "ok")
  BY <1>1, <1>2, Names DEF RowsByName, Moves, CredMoves
<1>6. QED BY <1>3, <1>4, <1>5 DEF RowsByName, Late

\* Nothing that a request shows comes to life.
LEMMA OldNewsKept ==
  ASSUME TypeOK, TypeOK', NEW w \in Requests \cup {None}, Moves(w), PcMoves(w),
         NEW q \in Requests, OldNews(q), InFlight(q),
         req'[q] = req[q], seen'[q].open = seen[q].open, seen'[q].csrf = seen[q].csrf,
         pc'[q] \in {"readtoken", "tokenuser", "readsession"} =>
           pc[q] \in {"readtoken", "tokenuser", "readsession"}
  PROVE  OldNews(q)'
<1>1. /\ \A c \in Shows(q) : Issued(c) /\ (c \in Open => c \in seen[q].open)
      /\ req[q].csrf \in {None} \cup FirstCreds \cup {x \in Requests : pc[x] = "ok"}
      /\ pc[q] \in {"readtoken", "tokenuser", "readsession"} /\ req[q].cookie \in Creds
           /\ creds[req[q].cookie].csrf = req[q].csrf => seen[q].csrf = req[q].csrf
  BY DEF OldNews
<1>2. Shows(q)' = Shows(q) /\ Shows(q) \subseteq Creds BY DEF Shows
<1>3. \A c \in Shows(q) : Issued(c)' /\ (c \in Open' => c \in Open)
  BY <1>1, <1>2, StillThere DEF Open, Moves, CredMoves
<1>4. req[q].csrf \in {None} \cup FirstCreds \cup {x \in Requests : pc'[x] = "ok"}
  BY <1>1 DEF PcMoves
<1>5. ASSUME req[q].cookie \in Creds, creds'[req[q].cookie].csrf = req[q].csrf
      PROVE  creds[req[q].cookie].csrf = req[q].csrf
  <2>1. Issued(req[q].cookie) BY <1>1, <1>5 DEF Shows
  <2>2. ~(req[q].csrf = w /\ w \in Requests /\ pc[w] # "ok") BY <1>1, Names, AccountsAssumption
  <2>3. QED BY <1>5, <2>1, <2>2 DEF Moves, CredMoves
<1>6. QED BY <1>1, <1>2, <1>3, <1>4, <1>5 DEF OldNews

LEMMA OthersKept ==
  ASSUME IInv, ConstraintsHold', TypeOK', NEW w \in Requests \cup {None}, Moves(w), PcMoves(w),
         NEW q \in Requests, q # w, Local(q)' = Local(q)
  PROVE  Own(q)'
<1>1. /\ TypeOK /\ Own(q) /\ RowsByName
      /\ pc'[q] = pc[q] /\ req'[q] = req[q] /\ ctx'[q] = ctx[q] /\ seen'[q] = seen[q]
  BY DEF IInv, Local
<1>2. /\ ctx[q].user \in Users \cup {None} /\ req[q].account \in External
      /\ creds \in [Creds -> CredRow] /\ q \in Creds
  BY <1>1, Names DEF TypeOK, Context, Request
<1>3. AtHand(q)'
  BY <1>1, <1>2, StillThere DEF Own, AtHand, Kind, Existed
<1>4. OldNews(q)'
  <2>1. CASE InFlight(q) BY <1>1, <2>1, OldNewsKept DEF Own
  <2>2. CASE ~InFlight(q) BY <1>1, <2>2 DEF OldNews, InFlight
  <2>3. QED BY <2>1, <2>2
<1>5. Vouched(q)'
  <2>1. \A c \in Shows(q) : InFlight(q) => creds'[c].user = creds[c].user
    BY <1>1 DEF Own, OldNews, Shows, Moves, CredMoves
  <2>2. pc[q] \in {"gate", "in"} => InFlight(q) BY DEF InFlight
  <2>3. QED BY <1>1, <2>1, <2>2 DEF Own, Vouched, ReadCsrf, Shows, CsrfSkipped, Kind
<1>6. SignsIn(q)'
  <2>1. SUFFICES ASSUME Kind(q) = "oauth"
                 PROVE  /\ pc[q] \in {"linkuser", "insertcred"} /\ Stored(users', ctx[q].user) =>
                             links'[req[q].account] = ctx[q].user
                        /\ Stored(creds', q) => links'[req[q].account] = creds'[q].user
    BY <1>1 DEF SignsIn, Kind
  <2>2. ASSUME NEW u \in Users, links[req[q].account] = u, Stored(users', u)
        PROVE  links'[req[q].account] = u
    BY <1>2, <2>2, Names DEF Moves, LinkMoves
  <2>3. ASSUME pc[q] \in {"linkuser", "insertcred"}, Stored(users', ctx[q].user)
        PROVE  links'[req[q].account] = ctx[q].user
    <3>1. ctx[q].user \in Users /\ Existed(ctx[q].user)
      BY <1>1, <2>3, Names DEF Own, AtHand
    <3>2. links[req[q].account] = ctx[q].user
      BY <1>1, <2>1, <2>3, <3>1, StillThere DEF Own, SignsIn
    <3>3. QED BY <2>2, <2>3, <3>1, <3>2
  <2>4. ASSUME Stored(creds', q) PROVE links'[req[q].account] = creds'[q].user
    <3>1. Stored(creds, q) /\ creds'[q].user = creds[q].user
      BY <1>2, <2>4 DEF Moves, CredMoves, Stored, Issued
    <3>2. creds'[q].user \in Users /\ Stored(users', creds'[q].user)
      BY <1>2, <2>4 DEF ConstraintsHold, CredConstraints, AllUsers, TypeOK
    <3>3. links[req[q].account] = creds[q].user
      BY <1>1, <2>1, <3>1 DEF Own, SignsIn
    <3>4. QED BY <2>2, <3>1, <3>2, <3>3
  <2>5. QED BY <2>3, <2>4
<1>7. OwnersCounted(q)' BY <1>1 DEF Own, OwnersCounted
<1>8. QED BY <1>3, <1>4, <1>5, <1>6, <1>7 DEF Own

LEMMA CopyKept ==
  ASSUME TypeOK, NEW w \in Requests \cup {None}, Moves(w), NEW q \in Requests, CopyAgrees(q),
         rehash'[q] = rehash[q]
  PROVE  CopyAgrees(q)'
<1>1. SUFFICES ASSUME rehash[q] # NoRehash PROVE CopyAgrees(q)' BY DEF CopyAgrees
<1> DEFINE u == rehash[q].user
           copy == rehash[q].copy
<1>2. /\ u \in Users /\ Existed(u) /\ copy.state = "stored" /\ copy.hash = "bcrypt"
      /\ Stored(users, u) => /\ users[u].email = copy.email /\ users[u].role = copy.role
                             /\ users[u].hash \in {"bcrypt", "argon2id"}
  BY <1>1 DEF CopyAgrees
<1>3. Existed(u)' /\ (Stored(users', u) => Stored(users, u)) BY <1>2, StillThere
<1>4. QED BY <1>2, <1>3 DEF CopyAgrees, Moves, UserMoves

\* A step is told by what it does to the tables and to the request that takes it.
LEMMA Assembled ==
  ASSUME IInv, TypeOK', ConstraintsHold', NEW w \in Requests \cup {None}, Moves(w), PcMoves(w),
         \A q \in Requests : q # w => Local(q)' = Local(q),
         w \in Requests => Own(w)',
         \A q \in Requests : CopyAgrees(q)'
  PROVE  IInv'
<1>1. RowsByName' BY RowsKept
<1>2. \A q \in Requests : q # w => Own(q)' BY OthersKept
<1>3. QED BY <1>1, <1>2 DEF IInv

\* Most steps leave the copies alone.
LEMMA AssembledPlain ==
  ASSUME IInv, TypeOK', ConstraintsHold', NEW w \in Requests \cup {None}, Moves(w), PcMoves(w),
         \A q \in Requests : q # w => Local(q)' = Local(q),
         w \in Requests => Own(w)',
         rehash' = rehash
  PROVE  IInv'
<1>1. TypeOK /\ \A q \in Requests : CopyAgrees(q) BY DEF IInv
<1>2. \A q \in Requests : CopyAgrees(q)' BY <1>1, CopyKept
<1>3. QED BY <1>2, Assembled

\* And most leave the tables alone.
LEMMA AssembledStill ==
  ASSUME IInv, TypeOK', UNCHANGED <<users, creds, links, rehash>>,
         NEW w \in Requests \cup {None}, PcMoves(w),
         \A q \in Requests : q # w => Local(q)' = Local(q),
         w \in Requests => Own(w)'
  PROVE  IInv'
<1>1. TypeOK /\ ConstraintsHold BY DEF IInv
<1>2. Moves(w) BY <1>1, UsersStill, CredsStill, LinksStill DEF Moves
<1>3. ConstraintsHold' BY <1>1, StillConstrained
<1>4. QED BY <1>2, <1>3, AssembledPlain

-------------------------------------------------------------------------------
(* The steps of a request.                                                 *)

\* Nobody but r goes anywhere.
LEMMA Going ==
  ASSUME TypeOK, NEW r \in Requests, NEW l, Goto(r, l)
  PROVE  pc'[r] = l /\ \A q \in Requests : q # r => pc'[q] = pc[q]
BY DEF Goto, TypeOK

LEMMA Blank == NoContext.user = None /\ NoRequest.kind = "none" /\ Nothing.owners = {}
<1>1. NoContext.user = None BY DEF NoContext
<1>2. NoRequest.kind = "none" BY DEF NoRequest
<1>3. Nothing.owners = {} BY DEF Nothing
<1>4. QED BY <1>1, <1>2, <1>3

LEMMA RefuseKeeps ==
  ASSUME IInv, TypeOK', NEW r \in Requests, Refuse(r), pc[r] # "ok"
  PROVE  IInv'
<1>1. TypeOK /\ UNCHANGED <<users, creds, links, rehash>> BY DEF IInv, Refuse
<1>2. /\ pc'[r] = "refused" /\ req'[r] = NoRequest /\ ctx'[r] = NoContext
      /\ seen'[r] = Nothing
      /\ \A q \in Requests : q # r => Local(q)' = Local(q)
  BY <1>1, Going DEF Refuse, Forget, Local, TypeOK
<1>3. PcMoves(r) BY <1>1, Going DEF PcMoves, Late, Refuse
<1>4. /\ req'[r].kind = "none" /\ ctx'[r].user = None /\ seen'[r].owners = {}
  BY <1>2, Blank
<1>5. AtHand(r)' BY <1>2, <1>4 DEF AtHand
<1>6. OldNews(r)' BY <1>2 DEF OldNews, InFlight
<1>7. Vouched(r)' BY <1>2 DEF Vouched
<1>8. SignsIn(r)' BY <1>4 DEF SignsIn, Kind
<1>9. OwnersCounted(r)' BY <1>4 DEF OwnersCounted
<1>10. Own(r)' BY <1>5, <1>6, <1>7, <1>8, <1>9 DEF Own
<1>11. QED BY <1>1, <1>2, <1>3, <1>10, AssembledStill

LEMMA PassOnKeeps ==
  ASSUME IInv, TypeOK', NEW r \in Requests, PassOn(r),
         pc[r] \in {"readtoken", "tokenuser", "readsession", "sessionuser", "deletesession"}
  PROVE  IInv'
<1>1. TypeOK /\ Own(r) /\ UNCHANGED <<users, creds, links, req, rehash, seen>>
  BY DEF IInv, PassOn
<1>2. /\ ctx'[r] = NoContext
      /\ \A q \in Requests : q # r => Local(q)' = Local(q)
      /\ pc'[r] = IF pc[r] \in {"readtoken", "tokenuser"} THEN AfterToken(req[r])
                  ELSE AfterSession(Kind(r))
  BY <1>1, Going DEF PassOn, Local, TypeOK
<1>3. PcMoves(r) BY <1>1, <1>2 DEF PcMoves, Late, Local
<1>4. /\ pc'[r] \in {"readsession", "gate", "ok", "verify"}
      /\ pc'[r] = "verify" => Kind(r) = "login"
      /\ pc'[r] = "readsession" => pc[r] \in {"readtoken", "tokenuser"}
  BY <1>2 DEF AfterToken, AfterSession
<1>5. AtHand(r)'
  <2>1. ctx'[r].user = None BY <1>2, Blank
  <2>2. pc'[r] = "verify" => Kind(r)' # "oauth" BY <1>1, <1>4 DEF Kind
  <2>3. QED BY <1>4, <2>1, <2>2 DEF AtHand
<1>6. OldNews(r)'
  <2>1. SUFFICES ASSUME pc'[r] # "ok" PROVE OldNews(r)' BY DEF OldNews, InFlight
  <2>2. InFlight(r) BY DEF InFlight
  <2>3. Moves(r) BY <1>1, UsersStill, CredsStill, LinksStill DEF Moves
  <2>4. QED BY <1>1, <1>3, <1>4, <2>2, <2>3, OldNewsKept DEF Own
<1>7. Vouched(r)'
  <2>1. ctx'[r].user = None BY <1>2, Blank
  <2>2. QED BY <1>4, <2>1 DEF Vouched
<1>8. SignsIn(r)' BY <1>1, <1>4 DEF Own, SignsIn, Kind
<1>9. OwnersCounted(r)' BY <1>1 DEF Own, OwnersCounted
<1>10. Own(r)' BY <1>5, <1>6, <1>7, <1>8, <1>9 DEF Own
<1>11. QED BY <1>1, <1>2, <1>3, <1>10, AssembledStill

\* A step that takes a user from a table, or none, and keeps everything else.
LEMMA WithUserKeeps ==
  ASSUME IInv, TypeOK', NEW r \in Requests, NEW u \in Users \cup {None},
         NEW l \in {"linkuser", "readmail", "insertcred", "insertlink", "insertuser",
                    "countowners", "deleteuser"},
         WithUser(r, u, l), InFlight(r),
         pc[r] \notin {"deleteuser"} \cup Late,
         l \in {"linkuser", "insertcred", "insertlink", "countowners", "deleteuser"} => u # None,
         u # None => Existed(u),
         Kind(r) = "oauth" /\ l \in {"linkuser", "insertcred"} /\ Stored(users, u) =>
           links[req[r].account] = u
  PROVE  IInv'
<1>1. TypeOK /\ Own(r) /\ UNCHANGED <<users, creds, links, req, rehash, seen>>
  BY DEF IInv, WithUser
<1>2. /\ ctx'[r] = [ctx[r] EXCEPT !.user = u] /\ pc'[r] = l
      /\ \A q \in Requests : q # r => Local(q)' = Local(q)
  BY <1>1, Going DEF WithUser, Local, TypeOK
<1>3. ctx'[r].user = u BY <1>1, <1>2 DEF TypeOK, Context
<1>4. PcMoves(r) BY <1>1, <1>2 DEF PcMoves, Late, Local
<1>5. AtHand(r)' BY <1>1, <1>2, <1>3 DEF AtHand, Kind, Existed
<1>6. OldNews(r)'
  BY <1>1, <1>2, <1>4 DEF Own, OldNews, Shows, Issued, Open, PcMoves
<1>7. Vouched(r)' BY <1>2 DEF Vouched
<1>8. SignsIn(r)' BY <1>1, <1>2, <1>3 DEF Own, SignsIn, Kind
<1>9. OwnersCounted(r)' BY <1>1 DEF Own, OwnersCounted
<1>10. Own(r)' BY <1>5, <1>6, <1>7, <1>8, <1>9 DEF Own
<1>11. QED BY <1>1, <1>2, <1>4, <1>10, AssembledStill

\* The last step of a request, whichever table it changes.
LEMMA DoneKeeps ==
  ASSUME IInv, TypeOK', ConstraintsHold', NEW r \in Requests, Moves(r), Done(r),
         pc[r] # "ok", UNCHANGED rehash,
         Kind(r) = "oauth" /\ Stored(creds', r) => links'[req[r].account] = creds'[r].user
  PROVE  IInv'
<1>1. TypeOK BY DEF IInv
<1>2. /\ pc'[r] = "ok" /\ ctx'[r] = NoContext /\ seen'[r] = Nothing /\ req' = req
      /\ \A q \in Requests : q # r => Local(q)' = Local(q)
  BY <1>1, Going DEF Done, Forget, Local, TypeOK
<1>3. PcMoves(r) BY <1>1, <1>2 DEF PcMoves, Late, Local
<1>4. ctx'[r].user = None /\ seen'[r].owners = {} BY <1>2, Blank
<1>5. AtHand(r)' BY <1>2, <1>4 DEF AtHand
<1>6. OldNews(r)' BY <1>2 DEF OldNews, InFlight
<1>7. Vouched(r)' BY <1>2 DEF Vouched
<1>8. SignsIn(r)' BY <1>2 DEF SignsIn, Kind
<1>9. OwnersCounted(r)' BY <1>4 DEF OwnersCounted
<1>10. Own(r)' BY <1>5, <1>6, <1>7, <1>8, <1>9 DEF Own
<1>11. QED BY <1>2, <1>3, <1>10, AssembledPlain

LEMMA ReceiveKeeps ==
  ASSUME IInv, TypeOK', NEW r \in Requests, NEW k \in Kinds, NEW body \in Bodies(k),
         Receive(r, body)
  PROVE  IInv'
<1>1. /\ TypeOK /\ Own(r) /\ RowsByName /\ pc[r] = "idle"
      /\ UNCHANGED <<users, creds, links, ctx, rehash>>
  BY DEF IInv, Receive, IsNew
<1>2. /\ body.kind = k /\ body.bearer \in Given("token") \cup {None}
      /\ body.cookie \in Given("session") \cup {None} /\ body.csrf \in HandedOut \cup {None}
      /\ k \in {"newtoken", "deluser"} => body.user \in AllUsers(users)
      /\ k = "revoke" => body.bearer # None
      /\ k = "logout" => body.cookie # None
      /\ k \in AllKinds
  BY <1>1, BodyTyped, AccountsAssumption
<1>3. /\ req'[r] = body /\ pc'[r] = Entry(body)
      /\ seen'[r].open = Open /\ seen'[r].owners = seen[r].owners
      /\ seen'[r].csrf = (IF body.cookie = None THEN None ELSE creds[body.cookie].csrf)
      /\ \A q \in Requests : q # r => Local(q)' = Local(q)
  BY <1>1, Going DEF Receive, Local, TypeOK, Seens
<1>4. Entry(body) \in {"readtoken", "readsession", "gate", "verify", "readlink", "deletetoken",
                       "countusers", "readuser"}
      /\ (Entry(body) = "verify" => k \in {"login", "logout"})
      /\ (Entry(body) = "deletetoken" => k = "revoke")
      /\ (Entry(body) = "readuser" => k \in {"newtoken", "deluser"})
  BY <1>2 DEF Entry, AfterToken, AllKinds
<1>5. PcMoves(r) BY <1>1, <1>3 DEF PcMoves, Late, Local
<1>6. AtHand(r)'
  <2>1. Given("token") \subseteq Creds /\ AllUsers(users) \subseteq Users
    BY <1>1 DEF Given, AllUsers, TypeOK
  <2>2. QED BY <1>1, <1>2, <1>3, <1>4, <2>1 DEF Own, AtHand, Kind
<1>7. OldNews(r)'
  <2>1. \A c \in {body.bearer, body.cookie} \cap Creds : Issued(c)
    BY <1>2, Names DEF Given, Issued
  <2>2. body.csrf \in {None} \cup FirstCreds \cup {q \in Requests : pc[q] = "ok"}
    <3>1. \A c \in Given("session") : c \in Creds /\ Issued(c)
      BY <1>1 DEF Given, Issued, TypeOK
    <3>2. \A c \in Given("session") :
            c \in FirstCreds \cup {q \in Requests : pc[q] = "ok"}
      BY <1>1, <3>1 DEF RowsByName, Creds
    <3>3. \A c \in Given("session") :
            creds[c].csrf \in FirstCreds \cup {q \in Requests : pc[q] = "ok"}
      BY <1>1, <3>1, <3>2 DEF RowsByName
    <3>4. QED BY <1>2, <3>2, <3>3 DEF HandedOut
  <2>3. body.csrf \in {None} \cup FirstCreds \cup {q \in Requests : pc'[q] = "ok"}
    BY <1>1, <2>2, <1>5 DEF PcMoves
  <2>4. body.cookie \in Creds /\ creds[body.cookie].csrf = body.csrf => seen'[r].csrf = body.csrf
    BY <1>3, Names
  <2>5. QED BY <1>1, <1>3, <2>1, <2>3, <2>4 DEF OldNews, Shows, Issued, Open
<1>8. Vouched(r)' BY <1>1, <1>3, <1>4 DEF Own, AtHand, Vouched
<1>9. SignsIn(r)' BY <1>1, <1>3, <1>4 DEF SignsIn, RowsByName, Issued, Stored
<1>10. OwnersCounted(r)' BY <1>1, <1>3 DEF Own, OwnersCounted
<1>11. Own(r)' BY <1>6, <1>7, <1>8, <1>9, <1>10 DEF Own
<1>12. QED BY <1>1, <1>3, <1>5, <1>11, AssembledStill


\* A step that leaves the tables alone, on a request that is under way.
LEMMA StepKeeps ==
  ASSUME IInv, TypeOK', NEW r \in Requests, InFlight(r), pc[r] # "deleteuser",
         UNCHANGED <<users, creds, links, req, rehash, seen>>,
         \A q \in Requests : q # r => pc'[q] = pc[q] /\ ctx'[q] = ctx[q],
         pc[r] \in Late => pc'[r] \in Late,
         pc'[r] \in {"readtoken", "tokenuser", "readsession"} =>
           pc[r] \in {"readtoken", "tokenuser", "readsession"},
         AtHand(r)', Vouched(r)', SignsIn(r)'
  PROVE  IInv'
<1>1. TypeOK /\ Own(r) BY DEF IInv
<1>2. PcMoves(r) BY DEF PcMoves, InFlight
<1>3. Moves(r) BY <1>1, UsersStill, CredsStill, LinksStill DEF Moves
<1>4. OldNews(r)' BY <1>1, <1>2, <1>3, OldNewsKept DEF Own
<1>5. OwnersCounted(r)' BY <1>1 DEF Own, OwnersCounted
<1>6. Own(r)' BY <1>4, <1>5 DEF Own
<1>7. \A q \in Requests : q # r => Local(q)' = Local(q) BY DEF Local
<1>8. QED BY <1>2, <1>6, <1>7, AssembledStill

\* A credential that opens is one that the request shows, and was valid then.
LEMMA Opened ==
  ASSUME IInv, NEW r \in Requests, InFlight(r), NEW c,
         \/ pc[r] = "readtoken" /\ c \in TokenFound(r)
         \/ pc[r] = "readsession" /\ c \in SessionFound(r)
  PROVE  /\ c \in Creds /\ c \in Shows(r) \cap seen[r].open
         /\ pc[r] = "readsession" => c = req[r].cookie
<1>1. TypeOK /\ OldNews(r) BY DEF IInv, Own
<1>2. c \in Creds /\ Stored(creds, c) /\ creds[c].fresh /\ c \in {req[r].bearer, req[r].cookie}
      /\ (pc[r] = "readsession" => c = req[r].cookie)
  BY <1>1 DEF TokenFound, SessionFound, ByPrefix, TokenOpens, SessionOpens, TypeOK, Stored
<1>3. c \in Open /\ c \in Shows(r) BY <1>2 DEF Open, Shows
<1>4. QED BY <1>1, <1>2, <1>3 DEF OldNews

LEMMA ReadCredKeeps ==
  ASSUME IInv, TypeOK', NEW r \in Requests, ReadToken(r) \/ ReadSession(r)
  PROVE  IInv'
<1>1. TypeOK /\ Own(r) BY DEF IInv
<1>2. InFlight(r) BY DEF ReadToken, ReadSession, InFlight
<1>3. ctx[r] \in Context BY <1>1 DEF TypeOK
<1>4. CASE ReadToken(r)
  <2>1. PICK c \in TokenFound(r) : ctx' = [ctx EXCEPT ![r].cred = c] BY <1>4 DEF ReadToken
  <2>2. /\ pc[r] = "readtoken" /\ pc'[r] = "tokenuser"
        /\ UNCHANGED <<users, creds, links, req, rehash, seen>>
        /\ \A q \in Requests : q # r => pc'[q] = pc[q]
    BY <1>1, <1>4, Going DEF ReadToken
  <2>3. ctx'[r].cred = c /\ ctx'[r].user = ctx[r].user
        /\ \A q \in Requests : q # r => ctx'[q] = ctx[q]
    BY <1>1, <1>3, <2>1 DEF TypeOK, Context
  <2>4. c \in Creds /\ c \in Shows(r) \cap seen[r].open BY <1>2, <2>2, Opened
  <2>5. AtHand(r)' BY <1>1, <2>2, <2>3, <2>4 DEF Own, AtHand, Existed
  <2>6. Vouched(r)' BY <2>2, <2>3, <2>4 DEF Vouched, Shows
  <2>7. SignsIn(r)' BY <1>1, <2>2 DEF Own, SignsIn, Kind, Stored
  <2>8. QED BY <1>2, <2>2, <2>3, <2>5, <2>6, <2>7, StepKeeps DEF Late
<1>5. CASE ReadSession(r)
  <2>1. PICK c \in SessionFound(r) :
          ctx' = [ctx EXCEPT ![r].cred = c, ![r].csrf = creds[c].csrf]
    BY <1>5 DEF ReadSession
  <2>2. /\ pc[r] = "readsession" /\ pc'[r] = "sessionuser"
        /\ UNCHANGED <<users, creds, links, req, rehash, seen>>
        /\ \A q \in Requests : q # r => pc'[q] = pc[q]
    BY <1>1, <1>5, Going DEF ReadSession
  <2>3. ctx'[r].cred = c /\ ctx'[r].user = ctx[r].user /\ ctx'[r].csrf = creds[c].csrf
        /\ \A q \in Requests : q # r => ctx'[q] = ctx[q]
    BY <1>1, <1>3, <2>1 DEF TypeOK, Context
  <2>4. c \in Creds /\ c \in Shows(r) \cap seen[r].open /\ c = req[r].cookie
    BY <1>2, <2>2, Opened
  <2>5. AtHand(r)' BY <1>1, <2>2, <2>3, <2>4 DEF Own, AtHand, Existed
  <2>6. creds[c].csrf = req[r].csrf => seen[r].csrf = req[r].csrf
    BY <1>1, <1>2, <2>2, <2>4 DEF Own, OldNews
  <2>7. ReadCsrf(r)' BY <2>2, <2>3, <2>6 DEF ReadCsrf
  <2>8. Vouched(r)' BY <2>2, <2>3, <2>4, <2>7 DEF Vouched, Shows
  <2>9. SignsIn(r)' BY <1>1, <2>2 DEF Own, SignsIn, Kind, Stored
  <2>10. QED BY <1>2, <2>2, <2>3, <2>5, <2>8, <2>9, StepKeeps DEF Late
<1>6. QED BY <1>4, <1>5

LEMMA CredUserKeeps ==
  ASSUME IInv, TypeOK', NEW r \in Requests, TokenUser(r) \/ SessionUser(r)
  PROVE  IInv'
<1>1. TypeOK /\ Own(r) BY DEF IInv
<1>2. /\ pc[r] \in {"tokenuser", "sessionuser"} /\ pc'[r] \in {"gate", "deletesession"}
      /\ pc[r] = "tokenuser" => pc'[r] = "gate"
      /\ UNCHANGED <<users, creds, links, req, rehash, seen>>
      /\ \A q \in Requests : q # r => pc'[q] = pc[q]
      /\ HasUser(r)
  BY <1>1, Going DEF TokenUser, SessionUser
<1>3. PICK source \in {"bearer", "session"} :
        /\ ctx' = [ctx EXCEPT ![r].user = creds[ctx[r].cred].user, ![r].source = source]
        /\ source = "session" => pc[r] = "sessionuser"
  BY DEF TokenUser, SessionUser
<1>4. InFlight(r) BY <1>2 DEF InFlight
<1>5. ctx[r] \in Context BY <1>1 DEF TypeOK
<1>6. /\ ctx'[r].cred = ctx[r].cred /\ ctx'[r].user = creds[ctx[r].cred].user
      /\ ctx'[r].csrf = ctx[r].csrf /\ ctx'[r].source = source
      /\ \A q \in Requests : q # r => ctx'[q] = ctx[q]
  BY <1>1, <1>3, <1>5 DEF TypeOK, Context
<1>7. ctx[r].cred \in Creds /\ ctx[r].cred \in Shows(r) \cap seen[r].open
      /\ (pc[r] = "sessionuser" => ReadCsrf(r))
  BY <1>1, <1>2 DEF Own, AtHand, Vouched
<1>8. Existed(creds[ctx[r].cred].user) BY <1>2 DEF HasUser, AllUsers, Stored, Existed
<1>9. AtHand(r)' BY <1>2, <1>6, <1>7, <1>8 DEF AtHand, Existed
<1>10. Vouched(r)'
  BY <1>2, <1>3, <1>6, <1>7 DEF Vouched, Shows, ReadCsrf
<1>11. SignsIn(r)' BY <1>1, <1>2 DEF Own, SignsIn, Kind, Stored
<1>12. QED BY <1>2, <1>4, <1>6, <1>9, <1>10, <1>11, StepKeeps DEF Late

LEMMA EnterKeeps ==
  ASSUME IInv, TypeOK', NEW r \in Requests, Enter(r)
  PROVE  IInv'
<1>1. TypeOK /\ Own(r) BY DEF IInv
<1>2. /\ pc[r] = "gate" /\ pc'[r] = IF Kind(r) = "csrf" THEN "writecsrf" ELSE "in"
      /\ UNCHANGED <<users, creds, links, req, ctx, rehash, seen>>
      /\ \A q \in Requests : q # r => pc'[q] = pc[q]
      /\ ctx[r].user # None /\ CsrfOk(r)
  BY <1>1, Going DEF Enter, UserOf
<1>3. /\ ctx[r].cred \in Shows(r) \cap seen[r].open /\ ctx[r].user = creds[ctx[r].cred].user
      /\ ctx[r].source = "session" => ReadCsrf(r)
  BY <1>1, <1>2 DEF Own, Vouched
<1>4. ctx[r].cred \in Creds BY <1>3 DEF Shows
<1>5. AtHand(r)' BY <1>1, <1>2, <1>4 DEF Own, AtHand, Existed
<1>6. Vouched(r)' BY <1>2, <1>3 DEF Vouched, Shows, ReadCsrf, CsrfOk, CsrfSkipped, Kind
<1>7. SignsIn(r)' BY <1>1, <1>2 DEF Own, SignsIn, Kind, Stored
<1>8. InFlight(r) BY <1>2 DEF InFlight
<1>9. QED BY <1>2, <1>5, <1>6, <1>7, <1>8, StepKeeps DEF Late

LEMMA DeleteSessionKeeps ==
  ASSUME IInv, TypeOK', NEW r \in Requests, DeleteSession(r)
  PROVE  IInv'
<1>1. TypeOK /\ Own(r) /\ UNCHANGED <<users, links, req, rehash, seen>>
      /\ pc[r] = "deletesession"
  BY DEF IInv, DeleteSession
<1>2. /\ ctx'[r] = NoContext /\ pc'[r] = AfterSession(Kind(r))
      /\ \A q \in Requests : q # r => Local(q)' = Local(q)
  BY <1>1, Going DEF DeleteSession, Local, TypeOK
<1>3. pc'[r] \in {"ok", "verify", "gate"} /\ (pc'[r] = "verify" => Kind(r) = "login")
  BY <1>2 DEF AfterSession
<1>4. Moves(r) /\ ConstraintsHold' BY DeleteSessionMoves
<1>5. PcMoves(r) BY <1>1, <1>2 DEF PcMoves, Late, Local
<1>6. ctx'[r].user = None BY <1>2, Blank
<1>7. AtHand(r)' BY <1>1, <1>3, <1>6 DEF AtHand, Kind
<1>8. OldNews(r)'
  <2>1. InFlight(r) BY <1>1 DEF InFlight
  <2>2. QED BY <1>1, <1>3, <1>4, <1>5, <2>1, OldNewsKept DEF Own
<1>9. Vouched(r)' BY <1>3, <1>6 DEF Vouched
<1>10. SignsIn(r)'
  <2>1. r \in Creds /\ ~Issued(r) BY <1>1, Names DEF IInv, RowsByName
  <2>2. ~Stored(creds', r)
    BY <1>1, <1>4, <2>1 DEF Moves, CredMoves, Issued, Stored
  <2>3. QED BY <1>3, <2>2 DEF SignsIn
<1>11. OwnersCounted(r)' BY <1>1 DEF Own, OwnersCounted
<1>12. Own(r)' BY <1>7, <1>8, <1>9, <1>10, <1>11 DEF Own
<1>13. QED BY <1>1, <1>2, <1>4, <1>5, <1>12, AssembledPlain

LEMMA ChainKeeps ==
  ASSUME IInv, TypeOK', NEW r \in Requests, Chain(r)
  PROVE  IInv'
<1>1. TypeOK /\ Own(r) BY DEF IInv
<1>2. CASE NoToken(r) \/ NoSession(r) \/ NoCredUser(r)
  BY <1>2, PassOnKeeps DEF NoToken, NoSession, NoCredUser
<1>3. CASE KeepOut(r) \/ CsrfGone(r) BY <1>3, RefuseKeeps DEF KeepOut, CsrfGone
<1>4. CASE WriteCsrf(r)
  <2>1. Moves(r) /\ ConstraintsHold' BY <1>4, WriteCsrfMoves
  <2>2. r \in Creds /\ ~Issued(r) /\ pc[r] = "writecsrf"
    BY <1>4, Names DEF WriteCsrf, IInv, RowsByName
  <2>3. ~Stored(creds', r) BY <2>1, <2>2 DEF Moves, CredMoves, Issued, Stored
  <2>4. QED BY <1>4, <2>1, <2>2, <2>3, DoneKeeps DEF WriteCsrf
<1>5. QED BY <1>2, <1>3, <1>4, ReadCredKeeps, CredUserKeeps, EnterKeeps, DeleteSessionKeeps
          DEF Chain

LEMMA VerifyKeeps ==
  ASSUME IInv, TypeOK', NEW r \in Requests, Verify(r)
  PROVE  IInv'
<1>1. TypeOK /\ ConstraintsHold /\ Own(r) /\ \A q \in Requests : CopyAgrees(q) BY DEF IInv
<1>2. PICK u \in Verified(r) :
        /\ ctx' = [ctx EXCEPT ![r].user = u]
        /\ rehash' = IF NeedsRehash(users[u].hash)
                     THEN [rehash EXCEPT ![r] = [user |-> u, copy |-> users[u]]]
                     ELSE rehash
  BY DEF Verify
<1>3. /\ pc[r] = "verify" /\ pc'[r] = "insertcred" /\ UNCHANGED <<users, creds, links, req, seen>>
      /\ \A q \in Requests : q # r => pc'[q] = pc[q]
  BY <1>1, Going DEF Verify
<1>4. u \in Users /\ Stored(users, u) /\ users[u].hash # ""
  BY <1>1 DEF Verified, UsersByEmail, AllUsers, TypeOK
<1>5. ctx[r] \in Context BY <1>1 DEF TypeOK
<1>6. ctx'[r].user = u /\ \A q \in Requests : q # r => ctx'[q] = ctx[q]
  BY <1>1, <1>2, <1>5 DEF TypeOK, Context
<1>7. Kind(r) # "oauth" BY <1>1, <1>3 DEF Own, AtHand
<1>8. Moves(r) /\ ConstraintsHold'
  BY <1>1, <1>3, UsersStill, CredsStill, LinksStill, StillConstrained DEF Moves
<1>9. PcMoves(r) BY <1>3 DEF PcMoves, Late
<1>10. InFlight(r) BY <1>3 DEF InFlight
<1>11. AtHand(r)' BY <1>3, <1>4, <1>6 DEF AtHand, Existed, Stored
<1>12. OldNews(r)' BY <1>1, <1>3, <1>8, <1>9, <1>10, OldNewsKept DEF Own
<1>13. Vouched(r)' BY <1>3 DEF Vouched
<1>14. SignsIn(r)' BY <1>3, <1>7 DEF SignsIn, Kind
<1>15. OwnersCounted(r)' BY <1>1, <1>3 DEF Own, OwnersCounted
<1>16. Own(r)' BY <1>11, <1>12, <1>13, <1>14, <1>15 DEF Own
<1>17. ASSUME NEW q \in Requests PROVE CopyAgrees(q)'
  <2>1. CASE q = r /\ NeedsRehash(users[u].hash)
    <3>1. rehash'[q] = [user |-> u, copy |-> users[u]] BY <1>1, <1>2, <2>1 DEF TypeOK
    <3>2. rehash'[q].user = u /\ rehash'[q].copy = users[u] BY <3>1
    <3>3. users[u].hash = "bcrypt"
      BY <1>1, <1>4, <2>1 DEF NeedsRehash, TypeOK, UserRow, Hashes
    <3>4. QED BY <1>3, <1>4, <3>2, <3>3 DEF CopyAgrees, Existed, Stored
  <2>2. CASE ~(q = r /\ NeedsRehash(users[u].hash))
    <3>1. rehash'[q] = rehash[q] BY <1>1, <1>2, <2>2 DEF TypeOK
    <3>2. QED BY <1>1, <1>8, <3>1, CopyKept
  <2>3. QED BY <2>1, <2>2
<1>18. \A q \in Requests : q # r => Local(q)' = Local(q) BY <1>3, <1>6 DEF Local
<1>19. QED BY <1>8, <1>9, <1>16, <1>17, <1>18, Assembled

LEMMA IssueKeeps ==
  ASSUME IInv, TypeOK', NEW r \in Requests, Issue(r)
  PROVE  IInv'
<1>1. TypeOK /\ Own(r) BY DEF IInv
<1>2. CASE VerifyRefused(r) \/ IssueRefused(r)
  BY <1>2, RefuseKeeps DEF VerifyRefused, IssueRefused
<1>3. ASSUME NEW p \in Prefixes, InsertCredential(r, p) PROVE IInv'
  <2>1. Moves(r) /\ ConstraintsHold' BY <1>3, InsertCredentialMoves
  <2>2. /\ pc[r] = "insertcred" /\ Stored(users, ctx[r].user) /\ links' = links
        /\ UNCHANGED rehash /\ Done(r)
        /\ creds' = InsertCred(creds, r, CredKind(r), ctx[r].user, p)
    BY <1>3 DEF InsertCredential, UserOf
  <2>3. creds'[r].user = ctx[r].user BY <1>1, <2>2, Names DEF InsertCred, TypeOK
  <2>4. Kind(r) = "oauth" => links[req[r].account] = ctx[r].user
    BY <1>1, <2>2 DEF Own, SignsIn
  <2>5. QED BY <2>1, <2>2, <2>3, <2>4, DoneKeeps
<1>4. ASSUME NEW p \in Prefixes, PrefixTaken(r, p) PROVE IInv'
  <2>1. CASE MayRetry(r)
    <3>1. /\ pc[r] = "insertcred" /\ ctx' = [ctx EXCEPT ![r].tries = @ + 1]
          /\ UNCHANGED <<users, creds, links, pc, req, rehash, seen>>
      BY <1>4, <2>1 DEF PrefixTaken
    <3>2. ctx[r] \in Context BY <1>1 DEF TypeOK
    <3>3. ctx'[r].user = ctx[r].user /\ \A q \in Requests : q # r => ctx'[q] = ctx[q]
      BY <1>1, <3>1, <3>2 DEF TypeOK, Context
    <3>4. AtHand(r)' BY <1>1, <3>1, <3>3 DEF Own, AtHand, Existed
    <3>5. Vouched(r)' BY <3>1 DEF Vouched
    <3>6. SignsIn(r)' BY <1>1, <3>1, <3>3 DEF Own, SignsIn, Kind
    <3>7. InFlight(r) BY <3>1 DEF InFlight
    <3>8. QED BY <3>1, <3>3, <3>4, <3>5, <3>6, <3>7, StepKeeps
  <2>2. CASE ~MayRetry(r) BY <1>4, <2>2, RefuseKeeps DEF PrefixTaken
  <2>3. QED BY <2>1, <2>2
<1>5. QED BY <1>2, <1>3, <1>4, VerifyKeeps DEF Issue

LEMMA InsertNewUserKeeps ==
  ASSUME IInv, TypeOK', NEW r \in Requests, InsertNewUser(r)
  PROVE  IInv'
<1>1. TypeOK /\ Own(r) /\ pc[r] = "insertuser" /\ UNCHANGED <<creds, links, rehash>>
  BY DEF IInv, InsertNewUser
<1>2. Moves(r) /\ ConstraintsHold' BY InsertNewUserMoves
<1>3. CASE Kind(r) = "oauth"
  <2>1. /\ ctx' = [ctx EXCEPT ![r].user = r] /\ pc'[r] = "insertlink" /\ UNCHANGED <<req, seen>>
        /\ \A q \in Requests : q # r => pc'[q] = pc[q]
    BY <1>1, <1>3, Going DEF InsertNewUser
  <2>2. ctx[r] \in Context BY <1>1 DEF TypeOK
  <2>3. ctx'[r].user = r /\ \A q \in Requests : q # r => ctx'[q] = ctx[q]
    BY <1>1, <2>1, <2>2 DEF TypeOK, Context
  <2>4. Existed(r)' /\ r \in Users
    BY <1>1, Names DEF InsertNewUser, InsertUser, Existed, TypeOK
  <2>5. PcMoves(r) BY <1>1, <2>1 DEF PcMoves, Late
  <2>6. InFlight(r) BY <1>1 DEF InFlight
  <2>7. AtHand(r)' BY <2>1, <2>3, <2>4 DEF AtHand
  <2>8. OldNews(r)' BY <1>1, <1>2, <2>1, <2>5, <2>6, OldNewsKept DEF Own
  <2>9. Vouched(r)' BY <2>1 DEF Vouched
  <2>10. SignsIn(r)' BY <1>1, <2>1 DEF Own, SignsIn, Kind
  <2>11. OwnersCounted(r)' BY <1>1, <2>1 DEF Own, OwnersCounted
  <2>12. Own(r)' BY <2>7, <2>8, <2>9, <2>10, <2>11 DEF Own
  <2>13. \A q \in Requests : q # r => Local(q)' = Local(q) BY <2>1, <2>3 DEF Local
  <2>14. QED BY <1>1, <1>2, <2>5, <2>12, <2>13, AssembledPlain
<1>4. CASE Kind(r) # "oauth" BY <1>1, <1>2, <1>4, DoneKeeps DEF InsertNewUser
<1>5. QED BY <1>3, <1>4

LEMMA CreateOAuthAccountKeeps ==
  ASSUME IInv, TypeOK', NEW r \in Requests, CreateOAuthAccount(r)
  PROVE  IInv'
<1>1. /\ TypeOK /\ Own(r) /\ RowsByName /\ pc[r] = "insertlink"
      /\ UNCHANGED <<users, creds, req, ctx, rehash, seen>>
  BY DEF IInv, CreateOAuthAccount
<1>2. Moves(r) /\ ConstraintsHold' BY CreateOAuthAccountMoves
<1>3. /\ pc'[r] = "insertcred" /\ \A q \in Requests : q # r => pc'[q] = pc[q]
      /\ links' = [links EXCEPT ![req[r].account] = ctx[r].user]
  BY <1>1, Going DEF CreateOAuthAccount, InsertLink, UserOf
<1>4. links'[req[r].account] = ctx[r].user BY <1>1, <1>3 DEF TypeOK, Request
<1>5. PcMoves(r) BY <1>1, <1>3 DEF PcMoves, Late
<1>6. InFlight(r) BY <1>1 DEF InFlight
<1>7. AtHand(r)' BY <1>1, <1>3 DEF Own, AtHand, Existed
<1>8. OldNews(r)' BY <1>1, <1>2, <1>3, <1>5, <1>6, OldNewsKept DEF Own
<1>9. Vouched(r)' BY <1>3 DEF Vouched
<1>10. SignsIn(r)'
  <2>1. ~Stored(creds, r) BY <1>1, Names DEF RowsByName, Issued, Stored
  <2>2. QED BY <1>1, <1>3, <1>4, <2>1 DEF SignsIn
<1>11. OwnersCounted(r)' BY <1>1, <1>3 DEF Own, OwnersCounted
<1>12. Own(r)' BY <1>7, <1>8, <1>9, <1>10, <1>11 DEF Own
<1>13. \A q \in Requests : q # r => Local(q)' = Local(q) BY <1>1, <1>3 DEF Local
<1>14. QED BY <1>1, <1>2, <1>5, <1>12, <1>13, AssembledPlain

LEMMA CallbackKeeps ==
  ASSUME IInv, TypeOK', NEW r \in Requests, Callback(r)
  PROVE  IInv'
<1>1. /\ TypeOK /\ ConstraintsHold /\ Own(r)
      /\ req[r].account \in External /\ req[r].email \in Emails
      /\ ctx[r].user \in Users \cup {None}
  BY DEF IInv, TypeOK, Request, Context
<1>2. CASE LinkUserGone(r) \/ EmailTaken(r) \/ LinkRefused(r)
  BY <1>2, RefuseKeeps DEF LinkUserGone, EmailTaken, LinkRefused
<1>3. CASE ReadLink(r)
  <2>1. pc[r] = "readlink" /\ InFlight(r) BY <1>3 DEF ReadLink, InFlight
  <2>2. CASE Linked(links, req[r].account, None)
    <3>1. links[req[r].account] \in Users /\ Existed(links[req[r].account])
      BY <1>1, <2>2 DEF Linked, ConstraintsHold, LinkConstraints, AllUsers, Existed, Stored, TypeOK
    <3>2. WithUser(r, links[req[r].account], "linkuser") BY <1>3, <2>2 DEF ReadLink
    <3>3. QED BY <2>1, <3>1, <3>2, Names, WithUserKeeps DEF Late
  <2>3. CASE ~Linked(links, req[r].account, None)
    <3>1. WithUser(r, None, "readmail") BY <1>3, <2>3 DEF ReadLink
    <3>2. QED BY <2>1, <3>1, WithUserKeeps DEF Late
  <2>4. QED BY <2>2, <2>3
<1>4. CASE LinkUser(r)
  <2>1. /\ pc[r] = "linkuser" /\ InFlight(r) /\ Stored(users, ctx[r].user)
        /\ WithUser(r, ctx[r].user, "insertcred")
    BY <1>4 DEF LinkUser, InFlight, UserOf
  <2>2. ctx[r].user \in Users /\ Existed(ctx[r].user) BY <1>1, <2>1, Names DEF Own, AtHand
  <2>3. Kind(r) = "oauth" => links[req[r].account] = ctx[r].user
    BY <1>1, <2>1 DEF Own, SignsIn
  <2>4. QED BY <2>1, <2>2, <2>3, Names, WithUserKeeps DEF Late
<1>5. CASE ReadMail(r)
  <2>1. pc[r] = "readmail" /\ InFlight(r) BY <1>5 DEF ReadMail, InFlight
  <2>2. ASSUME NEW u \in UsersByEmail(users, req[r].email), WithUser(r, u, "insertlink")
        PROVE  IInv'
    <3>1. u \in Users /\ Existed(u)
      BY <1>1 DEF UsersByEmail, AllUsers, Existed, Stored, TypeOK
    <3>2. QED BY <2>1, <2>2, <3>1, Names, WithUserKeeps DEF Late
  <2>3. CASE WithUser(r, None, "insertuser") BY <2>1, <2>3, WithUserKeeps DEF Late
  <2>4. QED BY <1>5, <2>2, <2>3 DEF ReadMail
<1>6. QED BY <1>2, <1>3, <1>4, <1>5, InsertNewUserKeeps, CreateOAuthAccountKeeps DEF Callback

LEMMA CountOwnersKeeps ==
  ASSUME IInv, TypeOK', NEW r \in Requests, CountOwners(r)
  PROVE  IInv'
<1>1. /\ TypeOK /\ ConstraintsHold /\ Own(r) /\ pc[r] = "countowners"
      /\ UNCHANGED <<users, creds, links, req, ctx, rehash>>
  BY DEF IInv, CountOwners
<1>2. /\ pc'[r] = "deleteuser" /\ \A q \in Requests : q # r => pc'[q] = pc[q]
      /\ seen' = [seen EXCEPT ![r].owners = Owners(users)]
      /\ Cardinality(Owners(users)) > 1
  BY <1>1, Going DEF CountOwners, MayDeleteOwner
<1>3. /\ seen'[r].owners = Owners(users) /\ seen'[r].open = seen[r].open
      /\ seen'[r].csrf = seen[r].csrf
      /\ \A q \in Requests : q # r => seen'[q] = seen[q]
  BY <1>1, <1>2 DEF TypeOK
<1>4. Moves(r) /\ ConstraintsHold'
  BY <1>1, UsersStill, CredsStill, LinksStill, StillConstrained DEF Moves
<1>5. PcMoves(r) BY <1>1, <1>2 DEF PcMoves, Late
<1>6. InFlight(r) BY <1>1 DEF InFlight
<1>7. AtHand(r)' BY <1>1, <1>2 DEF Own, AtHand, Existed
<1>8. OldNews(r)' BY <1>1, <1>2, <1>3, <1>4, <1>5, <1>6, OldNewsKept DEF Own
<1>9. Vouched(r)' BY <1>2 DEF Vouched
<1>10. SignsIn(r)' BY <1>1, <1>2 DEF Own, SignsIn, Kind
<1>11. OwnersCounted(r)' BY <1>2, <1>3 DEF OwnersCounted
<1>12. Own(r)' BY <1>7, <1>8, <1>9, <1>10, <1>11 DEF Own
<1>13. \A q \in Requests : q # r => Local(q)' = Local(q) BY <1>1, <1>2, <1>3 DEF Local
<1>14. QED BY <1>1, <1>4, <1>5, <1>12, <1>13, AssembledPlain

LEMMA CommandKeeps ==
  ASSUME IInv, TypeOK', NEW r \in Requests, Command(r)
  PROVE  IInv'
<1>1. TypeOK /\ ConstraintsHold /\ RowsByName /\ Own(r) BY DEF IInv
<1>2. CASE LastOwner(r) \/ UserGone(r) \/ TokenGone(r)
  BY <1>2, RefuseKeeps DEF LastOwner, UserGone, TokenGone
<1>3. CASE CountUsers(r)
  <2>1. pc[r] = "countusers" /\ InFlight(r) BY <1>3 DEF CountUsers, InFlight
  <2>2. WithUser(r, None, "insertuser") \/ Refuse(r) BY <1>3 DEF CountUsers
  <2>3. QED BY <2>1, <2>2, RefuseKeeps, WithUserKeeps DEF Late
<1>4. CASE ReadUser(r)
  <2>1. pc[r] = "readuser" /\ InFlight(r) BY <1>4 DEF ReadUser, InFlight
  <2>2. Kind(r) # "oauth" /\ req[r].user \in Users BY <1>1, <2>1 DEF Own, AtHand
  <2>3. CASE Stored(users, req[r].user)
    <3>1. PICK l \in {"insertcred", "countowners", "deleteuser"} : WithUser(r, req[r].user, l)
      BY <1>4, <2>3 DEF ReadUser
    <3>2. Existed(req[r].user) BY <2>3 DEF Existed, Stored
    <3>3. QED BY <2>1, <2>2, <3>1, <3>2, Names, WithUserKeeps DEF Late
  <2>4. CASE ~Stored(users, req[r].user) BY <1>4, <2>1, <2>4, RefuseKeeps DEF ReadUser
  <2>5. QED BY <2>3, <2>4
<1>5. ASSUME Moves(r), pc[r] # "ok" PROVE ~Stored(creds', r) \/ pc[r] = "insertcred"
  <2>1. r \in Creds /\ ~Issued(r) BY <1>1, <1>5, Names DEF RowsByName
  <2>2. QED BY <1>5, <2>1 DEF Moves, CredMoves, Issued, Stored
<1>6. CASE DeleteUserRow(r)
  <2>1. Moves(r) /\ ConstraintsHold' BY <1>6, DeleteUserMoves
  <2>2. pc[r] = "deleteuser" /\ Done(r) /\ UNCHANGED rehash BY <1>6 DEF DeleteUserRow
  <2>3. QED BY <1>5, <2>1, <2>2, DoneKeeps
<1>7. CASE RevokeToken(r)
  <2>1. Moves(r) /\ ConstraintsHold' BY <1>7, RevokeTokenMoves
  <2>2. pc[r] = "deletetoken" /\ Done(r) /\ UNCHANGED rehash BY <1>7 DEF RevokeToken
  <2>3. QED BY <1>5, <2>1, <2>2, DoneKeeps
<1>8. QED BY <1>2, <1>3, <1>4, <1>6, <1>7, CountOwnersKeeps DEF Command

LEMMA SqlFailsKeeps ==
  ASSUME IInv, TypeOK', NEW r \in Requests, SqlFails(r)
  PROVE  IInv'
<1>1. pc[r] # "ok" BY DEF SqlFails, Statements
<1>2. QED BY <1>1, PassOnKeeps, RefuseKeeps DEF SqlFails

\* The steps that no request takes.
LEMMA BackgroundKeeps ==
  ASSUME IInv, TypeOK',
         \/ \E r \in Requests : Rehash(r)
         \/ \E c \in Creds : Expire(c)
         \/ UNCHANGED vars
  PROVE  IInv'
<1>1. TypeOK /\ \A q \in Requests : CopyAgrees(q) BY DEF IInv
<1>2. None \notin Requests /\ None \in Requests \cup {None} BY AccountsAssumption
<1>3. UNCHANGED <<pc, req, ctx, seen>> BY DEF Rehash, Expire, vars
<1>4. PcMoves(None) /\ \A q \in Requests : q # None => Local(q)' = Local(q)
  BY <1>2, <1>3 DEF PcMoves, Local
<1>5. ASSUME NEW r \in Requests, Rehash(r) PROVE IInv'
  <2>1. Moves(None) /\ ConstraintsHold' BY <1>5, RehashMoves
  <2>2. ASSUME NEW q \in Requests PROVE CopyAgrees(q)'
    <3>1. CASE q = r
      <4>1. rehash'[q] = NoRehash BY <1>1, <1>5, <3>1 DEF Rehash, TypeOK
      <4>2. QED BY <4>1 DEF CopyAgrees
    <3>2. CASE q # r
      <4>1. rehash'[q] = rehash[q] BY <1>1, <1>5, <3>2 DEF Rehash, TypeOK
      <4>2. QED BY <1>1, <1>2, <2>1, <4>1, CopyKept
    <3>3. QED BY <3>1, <3>2
  <2>3. QED BY <1>2, <1>4, <2>1, <2>2, Assembled
<1>6. ASSUME NEW c \in Creds, Expire(c) PROVE IInv'
  <2>1. Moves(None) /\ ConstraintsHold' BY <1>6, ExpireMoves
  <2>2. rehash' = rehash BY <1>6 DEF Expire
  <2>3. QED BY <1>2, <1>4, <2>1, <2>2, AssembledPlain
<1>7. CASE UNCHANGED vars
  <2>1. UNCHANGED <<users, creds, links, rehash>> BY <1>7 DEF vars
  <2>2. QED BY <1>2, <1>4, <2>1, AssembledStill
<1>8. QED BY <1>5, <1>6, <1>7

-------------------------------------------------------------------------------
(* The theorems.                                                           *)

LEMMA InitHolds == Init => IInv
<1>1. SUFFICES ASSUME Init PROVE IInv OBVIOUS
<1>2. TypeOK BY <1>1, InitTyped
<1>3. /\ pc = [r \in Requests |-> "idle"] /\ req = [r \in Requests |-> NoRequest]
      /\ ctx = [r \in Requests |-> NoContext] /\ rehash = [r \in Requests |-> NoRehash]
      /\ seen = [r \in Requests |-> Nothing] /\ ConstraintsHold
  BY <1>1 DEF Init, ConstraintsHold
<1>4. PICK us \in [FirstUsers -> FirstUserRows], cs \in [FirstCreds -> FirstCredRows] :
        /\ users = [u \in Users |-> IF u \in FirstUsers THEN us[u] ELSE NoUser]
        /\ creds = [c \in Creds |-> IF c \in FirstCreds
                                    THEN [NoCred(c) EXCEPT !.state = cs[c].state,
                                            !.kind = cs[c].kind, !.user = cs[c].user,
                                            !.prefix = cs[c].prefix, !.fresh = TRUE]
                                    ELSE NoCred(c)]
  BY <1>1 DEF Init
<1>5. ASSUME NEW r \in Requests PROVE ~Issued(r) /\ ~Existed(r)
  <2>1. r \in Users /\ r \in Creds /\ r \notin FirstUsers /\ r \notin FirstCreds BY Names
  <2>2. users[r] = NoUser BY <1>4, <2>1
  <2>3. creds[r] = NoCred(r) BY <1>4, <2>1
  <2>4. NoUser.state = "unused" BY DEF NoUser
  <2>5. NoCred(r).state = "unused" BY DEF NoCred
  <2>6. QED BY <2>2, <2>3, <2>4, <2>5 DEF Issued, Existed
<1>6. ASSUME NEW c \in Creds PROVE creds[c].csrf = c
  <2>1. CASE c \in FirstCreds
    <3>1. creds[c] = [NoCred(c) EXCEPT !.state = cs[c].state,
                        !.kind = cs[c].kind, !.user = cs[c].user,
                        !.prefix = cs[c].prefix, !.fresh = TRUE]
      BY <1>4, <2>1
    <3>2. QED BY <3>1 DEF NoCred
  <2>2. CASE c \notin FirstCreds
    <3>1. creds[c] = NoCred(c) BY <1>4, <2>2
    <3>2. QED BY <3>1 DEF NoCred
  <2>3. QED BY <2>1, <2>2
<1>7. RowsByName BY <1>5, <1>6 DEF RowsByName
<1>8. ASSUME NEW r \in Requests PROVE Own(r) /\ CopyAgrees(r)
  <2>1. /\ pc[r] = "idle" /\ ctx[r].user = None /\ req[r].kind = "none" /\ seen[r].owners = {}
        /\ rehash[r] = NoRehash
    BY <1>3, Blank
  <2>2. AtHand(r) /\ OldNews(r) /\ Vouched(r) BY <2>1 DEF AtHand, OldNews, Vouched, InFlight
  <2>3. SignsIn(r) /\ OwnersCounted(r) /\ CopyAgrees(r)
    BY <2>1 DEF SignsIn, OwnersCounted, CopyAgrees, Kind
  <2>4. QED BY <2>2, <2>3 DEF Own
<1>9. QED BY <1>2, <1>3, <1>7, <1>8 DEF IInv

LEMMA NextHolds == IInv /\ [Next]_vars => IInv'
<1>1. SUFFICES ASSUME IInv, [Next]_vars PROVE IInv' OBVIOUS
<1>2. TypeOK' BY <1>1, NextTyped DEF IInv
<1>3. ASSUME NEW r \in Requests, NEW k \in Kinds, NEW body \in Bodies(k), Receive(r, body)
      PROVE  IInv'
  BY <1>1, <1>2, <1>3, ReceiveKeeps
<1>4. ASSUME NEW r \in Requests, Chain(r) \/ Issue(r) \/ Callback(r) \/ Command(r) \/ SqlFails(r)
      PROVE  IInv'
  BY <1>1, <1>2, <1>4, ChainKeeps, IssueKeeps, CallbackKeeps, CommandKeeps, SqlFailsKeeps
<1>5. CASE \/ \E r \in Requests : Rehash(r)
           \/ \E c \in Creds : Expire(c)
           \/ UNCHANGED vars
  BY <1>1, <1>2, <1>5, BackgroundKeeps
<1>6. QED BY <1>1, <1>3, <1>4, <1>5 DEF Next

LEMMA Invariant == Spec => []IInv
<1>1. Init => IInv BY InitHolds
<1>2. IInv /\ [Next]_vars => IInv' BY NextHolds
<1>3. QED BY <1>1, <1>2, PTL DEF Spec

\* Whatever the requests, the commands and the goroutines do, and whichever of
\* their statements fail: one user per address, one credential per prefix, and
\* no credential or link without its user (the schemas of users, tokens,
\* sessions and oauth_accounts).
THEOREM TablesKeepTheirConstraints == Spec => []AccountsInv
<1>1. IInv => AccountsInv BY DEF IInv, AccountsInv
<1>2. QED BY <1>1, Invariant, PTL

\* Whoever the middleware chain lets in has shown a credential that was live when
\* the request arrived, acts as its user, and, unless its path is exempt as the
\* forms under /ui/ are, has sent the CSRF token that the session had at the
\* arrival.
THEOREM ChainLetsInRightly == Spec => []LetInRightly
<1>1. IInv => LetInRightly
  <2>1. SUFFICES ASSUME IInv, NEW r \in Requests, pc[r] = "in"
                 PROVE  /\ ctx[r].cred \in {req[r].bearer, req[r].cookie} \cap seen[r].open
                        /\ ctx[r].user = creds[ctx[r].cred].user
                        /\ req[r].unsafe /\ ~CsrfSkipped(r) /\ ctx[r].source = "session" =>
                             req[r].csrf = seen[r].csrf
    BY DEF LetInRightly
  <2>2. QED BY <2>1 DEF IInv, Own, Vouched, ReadCsrf, Shows
<1>2. QED BY <1>1, Invariant, PTL

\* HandleCallback signs nobody in but the user the account is linked to, however
\* many first logins of the account run at once.
THEOREM CallbackSignsInAsLinked == Spec => []SignedInAsLinked
<1>1. IInv => SignedInAsLinked BY DEF IInv, Own, SignsIn, SignedInAsLinked
<1>2. QED BY <1>1, Invariant, PTL

\* Only four steps write users or links.
LEMMA WhoWrites ==
  ASSUME [Next]_vars
  PROVE  \/ UNCHANGED <<users, links>>
         \/ \E r \in Requests : \/ InsertNewUser(r) \/ CreateOAuthAccount(r)
                                \/ DeleteUserRow(r) \/ Rehash(r)
<1>1. ASSUME NEW r \in Requests, Chain(r) PROVE UNCHANGED <<users, links>>
  BY <1>1 DEF Chain, ReadToken, NoToken, TokenUser, NoCredUser, ReadSession, NoSession,
              SessionUser, Enter, KeepOut, WriteCsrf, CsrfGone, DeleteSession, PassOn, Refuse
<1>2. ASSUME NEW r \in Requests, Issue(r) PROVE UNCHANGED <<users, links>>
  BY <1>2 DEF Issue, Verify, VerifyRefused, IssueRefused, InsertCredential, PrefixTaken, Refuse
<1>3. ASSUME NEW r \in Requests, Callback(r)
      PROVE  UNCHANGED <<users, links>> \/ InsertNewUser(r) \/ CreateOAuthAccount(r)
  BY <1>3 DEF Callback, ReadLink, LinkUser, LinkUserGone, ReadMail, EmailTaken, LinkRefused,
              WithUser, Refuse
<1>4. ASSUME NEW r \in Requests, Command(r)
      PROVE  UNCHANGED <<users, links>> \/ DeleteUserRow(r)
  BY <1>4 DEF Command, CountUsers, ReadUser, CountOwners, LastOwner, UserGone, RevokeToken,
              TokenGone, WithUser, Refuse
<1>5. ASSUME NEW r \in Requests, SqlFails(r) PROVE UNCHANGED <<users, links>>
  BY <1>5 DEF SqlFails, PassOn, Refuse
<1>6. QED BY <1>1, <1>2, <1>3, <1>4, <1>5 DEF Next, Receive, Expire, vars

\* A rehash in the background touches nothing but the hash and revives nobody,
\* and a linked account never comes to lead to another user while its own is there.
THEOREM IdentitiesStay == Spec => UsersKeepIdentity
<1> DEFINE Kept ==
      /\ \A u \in Users :
          /\ users[u].state = "deleted" => users'[u] = users[u]
          /\ Stored(users, u) =>
               /\ users'[u].email = users[u].email /\ users'[u].role = users[u].role
               /\ users'[u].hash # users[u].hash =>
                    users[u].hash = "bcrypt" /\ users'[u].hash = "argon2id"
      /\ \A a \in External :
          links'[a] # links[a] => links[a] = None \/ ~Stored(users', links[a])
<1>1. IInv /\ IInv' /\ [Next]_vars => [Kept]_vars
  <2>1. SUFFICES ASSUME IInv, IInv', [Next]_vars PROVE Kept OBVIOUS
  <2>2. TypeOK' BY <2>1 DEF IInv
  <2>3. ASSUME NEW w, UserMoves(w), LinkMoves PROVE Kept
    BY <2>3 DEF UserMoves, LinkMoves
  <2>4. ASSUME NEW r \in Requests,
               InsertNewUser(r) \/ CreateOAuthAccount(r) \/ DeleteUserRow(r) \/ Rehash(r)
        PROVE  Moves(r)
    BY <2>1, <2>2, <2>4, InsertNewUserMoves, CreateOAuthAccountMoves, DeleteUserMoves, RehashMoves
  <2>5. CASE UNCHANGED <<users, links>> BY <2>5
  <2>6. QED BY <2>1, <2>3, <2>4, <2>5, WhoWrites DEF Moves
<1>2. QED BY <1>1, Invariant, PTL DEF Spec, UsersKeepIdentity

LEMMA WhoDeletes ==
  ASSUME TypeOK, [Next]_vars, NEW r \in Requests, pc[r] = "deleteuser", pc'[r] = "ok"
  PROVE  DeleteUserRow(r)
<1>1. ASSUME NEW q \in Requests, NEW l, Goto(q, l), q # r \/ l # "ok" PROVE FALSE
  BY <1>1, Going
<1>2. ASSUME NEW q \in Requests, Refuse(q) PROVE FALSE BY <1>1, <1>2 DEF Refuse
<1>3. ASSUME NEW q \in Requests, PassOn(q), pc[q] # "deleteuser" PROVE FALSE
  BY <1>1, <1>3 DEF PassOn
<1>4. ASSUME NEW q \in Requests, Done(q), pc[q] # "deleteuser" PROVE FALSE
  BY <1>1, <1>4 DEF Done
<1>5. ASSUME NEW q \in Requests, Chain(q) PROVE FALSE
  <2>1. CASE NoToken(q) \/ NoSession(q) \/ NoCredUser(q)
    BY <1>3, <2>1 DEF NoToken, NoSession, NoCredUser
  <2>2. CASE KeepOut(q) \/ CsrfGone(q) BY <1>2, <2>2 DEF KeepOut, CsrfGone
  <2>3. CASE WriteCsrf(q) BY <1>4, <2>3 DEF WriteCsrf
  <2>4. CASE ReadToken(q) \/ TokenUser(q) \/ ReadSession(q) \/ SessionUser(q) \/ Enter(q)
    BY <1>1, <2>4 DEF ReadToken, TokenUser, ReadSession, SessionUser, Enter
  <2>5. CASE DeleteSession(q) BY <1>1, <2>5 DEF DeleteSession
  <2>6. QED BY <1>5, <2>1, <2>2, <2>3, <2>4, <2>5 DEF Chain
<1>6. ASSUME NEW q \in Requests, Issue(q) PROVE FALSE
  <2>1. CASE VerifyRefused(q) \/ IssueRefused(q) BY <1>2, <2>1 DEF VerifyRefused, IssueRefused
  <2>2. CASE Verify(q) BY <1>1, <2>2 DEF Verify
  <2>3. ASSUME NEW p \in Prefixes, InsertCredential(q, p) PROVE FALSE
    BY <1>4, <2>3 DEF InsertCredential
  <2>4. ASSUME NEW p \in Prefixes, PrefixTaken(q, p) PROVE FALSE
    BY <1>2, <2>4 DEF PrefixTaken
  <2>5. QED BY <1>6, <2>1, <2>2, <2>3, <2>4 DEF Issue
<1>7. ASSUME NEW q \in Requests, NEW u, NEW l \in Statements, WithUser(q, u, l) PROVE FALSE
  BY <1>1, <1>7 DEF WithUser, Statements
<1>8. ASSUME NEW q \in Requests, Callback(q) PROVE FALSE
  <2>1. CASE LinkUserGone(q) \/ EmailTaken(q) \/ LinkRefused(q)
    BY <1>2, <2>1 DEF LinkUserGone, EmailTaken, LinkRefused
  <2>2. CASE ReadLink(q) \/ LinkUser(q) \/ ReadMail(q)
    BY <1>7, <2>2 DEF ReadLink, LinkUser, ReadMail, Statements
  <2>3. CASE InsertNewUser(q) BY <1>1, <1>4, <2>3 DEF InsertNewUser
  <2>4. CASE CreateOAuthAccount(q) BY <1>1, <2>4 DEF CreateOAuthAccount
  <2>5. QED BY <1>8, <2>1, <2>2, <2>3, <2>4 DEF Callback
<1>9. ASSUME NEW q \in Requests, Command(q) PROVE DeleteUserRow(r)
  <2>1. CASE LastOwner(q) \/ UserGone(q) \/ TokenGone(q)
    BY <1>2, <2>1 DEF LastOwner, UserGone, TokenGone
  <2>2. CASE CountUsers(q) \/ ReadUser(q)
    BY <1>2, <1>7, <2>2 DEF CountUsers, ReadUser, Statements
  <2>3. CASE CountOwners(q) BY <1>1, <2>3 DEF CountOwners
  <2>4. CASE RevokeToken(q) BY <1>4, <2>4 DEF RevokeToken
  <2>5. CASE DeleteUserRow(q) BY <1>1, <2>5 DEF DeleteUserRow, Done
  <2>6. QED BY <1>9, <2>1, <2>2, <2>3, <2>4, <2>5 DEF Command
<1>10. ASSUME NEW q \in Requests, SqlFails(q) PROVE FALSE
  BY <1>2, <1>3, <1>10 DEF SqlFails
<1>11. ASSUME NEW q \in Requests, NEW k \in Kinds, NEW body \in Bodies(k), Receive(q, body)
       PROVE  FALSE
  BY <1>1, <1>11 DEF Receive, IsNew
<1>12. QED BY <1>5, <1>6, <1>8, <1>9, <1>10, <1>11 DEF Next, Rehash, Expire, vars

\* "user delete" checks that another owner is left: it holds as long as nobody
\* else has changed the owners between its count and its DELETE.
THEOREM AnOwnerIsLeft == Spec => RacelessDeleteKeepsOwner
<1>1. IInv /\ [Next]_vars =>
        [\A r \in Requests :
           /\ pc[r] = "deleteuser" /\ pc'[r] = "ok"
           /\ Owners(users) # {} /\ Owners(users) = seen[r].owners
           => Owners(users') # {}]_vars
  <2>1. SUFFICES ASSUME IInv, [Next]_vars, NEW r \in Requests,
                        pc[r] = "deleteuser", pc'[r] = "ok",
                        Owners(users) # {}, Owners(users) = seen[r].owners
                 PROVE  Owners(users') # {}
    OBVIOUS
  <2>2. TypeOK /\ Own(r) BY <2>1 DEF IInv
  <2>3. Cardinality(Owners(users)) > 1 BY <2>1, <2>2 DEF Own, OwnersCounted
  <2>4. users' = [users EXCEPT ![ctx[r].user].state = "deleted"]
    BY <2>1, <2>2, WhoDeletes DEF DeleteUserRow, DeleteUser, Deleted, UserOf
  <2>5. PICK u \in Owners(users) : u # ctx[r].user
    <3>1. Cardinality({ctx[r].user}) = 1 BY FS_Singleton, Zenon
    <3>2. ASSUME Owners(users) = {ctx[r].user} PROVE FALSE
      <4>1. Cardinality(Owners(users)) = 1 BY <3>1, <3>2, Zenon
      <4>2. QED BY <2>3, <4>1
    <3>3. QED BY <2>1, <3>2
  <2>6. u \in Owners(users') BY <2>2, <2>4, <2>5 DEF Owners, AllUsers, Stored, TypeOK
  <2>7. QED BY <2>6
<1>2. QED BY <1>1, Invariant, PTL DEF Spec, RacelessDeleteKeepsOwner

===============================================================================
