------------------------------- MODULE Accounts -------------------------------
(***************************************************************************)
(* Who is let in, and as whom: the login by password and by OAuth, the     *)
(* sessions and tokens that AuthService issues, the middleware chain that  *)
(* checks them on every request, and the commands "user" and "token".      *)
(*                                                                         *)
(* A request takes one SQL statement per step, so requests interleave      *)
(* between any two of their statements, and so do the goroutines that      *)
(* rehash passwords.                                                       *)
(***************************************************************************)
EXTENDS AccountTables

CONSTANTS
  Requests,     \* requests and commands
  FirstUsers,   \* users that exist, or existed, before all requests
  FirstCreds,   \* tokens and sessions issued before all requests
  Emails,       \* mail addresses
  External,     \* accounts at the OAuth provider
  Prefixes,     \* the prefixes drawn for tokens and sessions
  Kinds,        \* the kinds of request that come in
  FirstHashes,  \* the password hashes that are found
  FirstRoles,   \* and the roles
  TokenRetryLimit,
  SqlMayFail,   \* can an SQL statement fail?
  None          \* no user, no credential

AllKinds == {"call", "csrf", "login", "logout", "oauth",
             "newtoken", "revoke", "newuser", "deluser"}

ASSUME AccountsAssumption ==
  /\ Kinds \subseteq AllKinds
  /\ FirstHashes \subseteq {"bcrypt", "argon2id", ""}
  /\ FirstRoles \subseteq {"owner", "author"}
  /\ TokenRetryLimit \in Nat \ {0}
  /\ SqlMayFail \in BOOLEAN
  /\ Requests \cap (FirstUsers \cup FirstCreds) = {}
  /\ None \notin Requests \cup FirstUsers \cup FirstCreds
  /\ Emails # {} /\ Prefixes # {} /\ External # {}

VARIABLES
  users,   \* users[u]: row of users; a user created by a request has its name
  creds,   \* creds[c]: row of tokens or sessions; likewise
  links,   \* links[a]: the user that external account a is linked to, or None
  pc,      \* pc[r]: the statement request r executes next, or its answer
  req,     \* req[r]: what request r asks for
  ctx,     \* ctx[r]: the local variables and the context of request r
  rehash,  \* rehash[r]: the copy of a user the goroutine of login r will write
  \* History, which no action of the code reads:
  seen     \* seen[r]: what was valid when request r came in

vars == <<users, creds, links, pc, req, ctx, rehash, seen>>

Users  == FirstUsers \cup Requests
Creds  == FirstCreds \cup Requests
Hashes == {"bcrypt", "argon2id", ""}
Roles  == {"owner", "author"}   \* editor and viewer differ from author in nothing here
States == {"unused", "stored", "deleted"}

UserRow == [state : States, email : Emails, hash : Hashes, role : Roles]
CredRow == [state : States, kind : {"token", "session"}, user : Users \cup {None},
            prefix : Prefixes \cup {None}, csrf : Creds, fresh : BOOLEAN]
Request == [kind : AllKinds \cup {"none"}, bearer : Creds \cup {None},
            cookie : Creds \cup {None}, csrf : Creds \cup {None}, unsafe : BOOLEAN,
            form : BOOLEAN, user : Users \cup {None}, email : Emails, good : BOOLEAN,
            account : External, owner : BOOLEAN]
Tries   == 0..(TokenRetryLimit - 1)
Context == [user : Users \cup {None}, cred : Creds \cup {None},
            source : {"", "bearer", "session"}, csrf : Creds \cup {None},
            tries : Tries]

Statements == {"readtoken", "tokenuser", "readsession", "sessionuser", "gate",
               "writecsrf", "deletesession", "verify", "insertcred", "readlink",
               "linkuser", "readmail", "insertlink", "insertuser", "readuser",
               "countusers", "countowners", "deleteuser", "deletetoken"}
Answers    == {"in", "ok", "refused"}

TypeOK ==
  /\ users \in [Users -> UserRow]
  /\ creds \in [Creds -> CredRow]
  /\ links \in [External -> Users \cup {None}]
  /\ pc \in [Requests -> Statements \cup Answers \cup {"idle"}]
  /\ req \in [Requests -> Request]
  /\ ctx \in [Requests -> Context]
  /\ rehash \in [Requests -> [user : Users \cup {None}, copy : UserRow]]
  /\ seen \in [Requests -> [open : SUBSET Creds, csrf : Creds \cup {None}, owners : SUBSET Users]]

AnEmail   == CHOOSE e \in Emails : TRUE
AnAccount == CHOOSE a \in External : TRUE
NoUser    == [state |-> "unused", email |-> AnEmail, hash |-> "", role |-> "author"]
NoCred(c) == [state |-> "unused", kind |-> "session", user |-> None,
              prefix |-> None, csrf |-> c, fresh |-> FALSE]
NoRequest == [kind |-> "none", bearer |-> None, cookie |-> None, csrf |-> None,
              unsafe |-> FALSE, form |-> FALSE, user |-> None, email |-> AnEmail, good |-> FALSE,
              account |-> AnAccount, owner |-> FALSE]
NoContext == [user |-> None, cred |-> None, source |-> "", csrf |-> None, tries |-> 0]
NoRehash  == [user |-> None, copy |-> NoUser]
Nothing   == [open |-> {}, csrf |-> None, owners |-> {}]

\* The rows are consistent: the constraints of the tables have been enforced.
UserConstraints ==
  \A u, v \in AllUsers(users) : users[u].email = users[v].email => u = v
CredConstraints ==
  /\ \A c \in Creds : Stored(creds, c) =>
       ByPrefix(creds, creds[c].kind, creds[c].prefix) = {c}
  /\ \A c \in Creds : Stored(creds, c) => creds[c].user \in AllUsers(users)
LinkConstraints ==
  \A a \in External : links[a] # None => links[a] \in AllUsers(users)

FirstUserRows ==
  [state : {"stored"}, email : Emails, hash : FirstHashes, role : FirstRoles]
    \cup {[NoUser EXCEPT !.state = "deleted"]}
FirstCredRows ==
  [state : {"stored", "deleted"}, kind : {"token", "session"}, user : FirstUsers,
   prefix : Prefixes, fresh : {TRUE}]

Init ==
  /\ \E us \in [FirstUsers -> FirstUserRows], cs \in [FirstCreds -> FirstCredRows] :
       /\ users = [u \in Users |-> IF u \in FirstUsers THEN us[u] ELSE NoUser]
       /\ creds = [c \in Creds |-> IF c \in FirstCreds
                                   THEN [NoCred(c) EXCEPT !.state = cs[c].state,
                                           !.kind = cs[c].kind, !.user = cs[c].user,
                                           !.prefix = cs[c].prefix, !.fresh = TRUE]
                                   ELSE NoCred(c)]
  /\ links \in [External -> FirstUsers \cup {None}]
  /\ UserConstraints /\ CredConstraints /\ LinkConstraints
  /\ pc = [r \in Requests |-> "idle"]
  /\ req = [r \in Requests |-> NoRequest]
  /\ ctx = [r \in Requests |-> NoContext]
  /\ rehash = [r \in Requests |-> NoRehash]
  /\ seen = [r \in Requests |-> Nothing]

-------------------------------------------------------------------------------
(* Requests and what they carry.                                           *)

Kind(r)        == req[r].kind
Goto(r, l)     == pc' = [pc EXCEPT ![r] = l]
\* An answer ends the request, and what the request remembered is gone; what it
\* asked for is kept if it was done.
Forget(r)      == ctx' = [ctx EXCEPT ![r] = NoContext] /\ seen' = [seen EXCEPT ![r] = Nothing]
Done(r)        == Goto(r, "ok") /\ Forget(r) /\ UNCHANGED req
Refuse(r)      == /\ Goto(r, "refused") /\ Forget(r)
                  /\ req' = [req EXCEPT ![r] = NoRequest]
                  /\ UNCHANGED <<users, creds, links, rehash>>
UserOf(r)      == ctx[r].user
Serves(r)      == Kind(r) \in {"call", "csrf"}
IsNew(r)       == pc[r] = "idle"

\* A client presents what it was once given, live or not.
Given(kind) == {c \in Creds : creds[c].state # "unused" /\ creds[c].kind = kind}
OrNone(S)   == S \cup {None}
\* The values of X-Csrf-Token that were ever handed out.
HandedOut   == Given("session") \cup {creds[c].csrf : c \in Given("session")}

\* What a request of kind k carries.  A call has a token, a cookie or both; its
\* method and the header matter only beside a cookie, and a form of the web pages
\* (a call under /ui/ that changes something) sends no header.
Bodies(k) ==
  {b \in [kind    : {k},
          bearer  : CASE k \in {"call", "csrf"}    -> OrNone(Given("token"))
                      [] k = "revoke"              -> Given("token")
                      [] OTHER                     -> {None},
          cookie  : CASE k \in {"call", "login"}   -> OrNone(Given("session"))
                      [] k \in {"csrf", "logout"}  -> Given("session")
                      [] OTHER                     -> {None},
          csrf    : IF k = "call" THEN OrNone(HandedOut) ELSE {None},
          unsafe  : IF k = "call" THEN BOOLEAN ELSE {k = "csrf"},
          form    : IF k = "call" THEN BOOLEAN ELSE {FALSE},
          user    : IF k \in {"newtoken", "deluser"} THEN AllUsers(users) ELSE {None},
          email   : IF k \in {"login", "oauth", "newuser"} THEN Emails ELSE {AnEmail},
          good    : IF k = "login" THEN BOOLEAN ELSE {FALSE},
          account : IF k = "oauth" THEN External ELSE {AnAccount},
          owner   : IF k = "newuser" THEN BOOLEAN ELSE {FALSE}] :
     k = "call" => /\ b.bearer # None \/ b.cookie # None
                   /\ b.cookie = None => ~b.unsafe
                   /\ ~b.unsafe => b.csrf = None /\ ~b.form
                   /\ b.form => b.csrf = None}

\* The chain of serve.go: bearer, session, CSRF, require-auth; login and logout
\* look at the cookie themselves.
AfterToken(body)   == IF body.cookie # None THEN "readsession" ELSE "gate"
AfterSession(kind) == CASE kind = "logout" -> "ok"
                        [] kind = "login"  -> "verify"
                        [] OTHER           -> "gate"
Entry(body) ==
  CASE body.kind \in {"call", "csrf"} ->
         IF body.bearer # None THEN "readtoken" ELSE AfterToken(body)
    [] body.kind \in {"login", "logout"} ->
         IF body.cookie # None THEN "readsession" ELSE "verify"
    [] body.kind = "oauth"   -> "readlink"
    [] body.kind = "revoke"  -> "deletetoken"
    [] body.kind = "newuser" -> "countusers"
    [] OTHER                 -> "readuser"

Open == {c \in Creds : Stored(creds, c) /\ creds[c].fresh}

Receive(r, body) ==
  /\ IsNew(r)
  /\ req' = [req EXCEPT ![r] = body]
  /\ Goto(r, Entry(body))
  /\ seen' = [seen EXCEPT ![r].open = Open,
                          ![r].csrf = IF body.cookie = None THEN None
                                      ELSE creds[body.cookie].csrf]
  /\ UNCHANGED <<users, creds, links, ctx, rehash>>

-------------------------------------------------------------------------------
(* The middleware chain.  Whatever is wrong with a credential, the request *)
(* goes on without it, and RequireAuth has the last word.                  *)

\* The row that the prefix finds is the one the secret belongs to, and has not
\* expired.  A secret is drawn once, so it is named after its credential.
\* Fault: the secret is not compared.
AnySecret(c, raw)    == creds[c].fresh
TokenOpens(c, raw)   == c = raw /\ creds[c].fresh
SessionOpens(c, raw) == c = raw /\ creds[c].fresh

TokenFound(r) ==
  {c \in ByPrefix(creds, "token", creds[req[r].bearer].prefix) : TokenOpens(c, req[r].bearer)}
SessionFound(r) ==
  {c \in ByPrefix(creds, "session", creds[req[r].cookie].prefix) :
     SessionOpens(c, req[r].cookie)}

\* No such credential, no such user, or a failed statement: pass without it.
PassOn(r) ==
  /\ ctx' = [ctx EXCEPT ![r] = NoContext]
  /\ Goto(r, IF pc[r] \in {"readtoken", "tokenuser"} THEN AfterToken(req[r])
             ELSE AfterSession(Kind(r)))
  /\ UNCHANGED <<users, creds, links, req, rehash, seen>>

ReadToken(r) ==
  /\ pc[r] = "readtoken"
  /\ \E c \in TokenFound(r) : ctx' = [ctx EXCEPT ![r].cred = c]
  /\ Goto(r, "tokenuser")
  /\ UNCHANGED <<users, creds, links, req, rehash, seen>>

NoToken(r) == pc[r] = "readtoken" /\ TokenFound(r) = {} /\ PassOn(r)

\* ValidateSession hands out the row as it has read it, with the CSRF token.
ReadSession(r) ==
  /\ pc[r] = "readsession"
  /\ \E c \in SessionFound(r) :
       ctx' = [ctx EXCEPT ![r].cred = c, ![r].csrf = creds[c].csrf]
  /\ Goto(r, "sessionuser")
  /\ UNCHANGED <<users, creds, links, req, rehash, seen>>

NoSession(r) == pc[r] = "readsession" /\ SessionFound(r) = {} /\ PassOn(r)

HasUser(r) == creds[ctx[r].cred].user \in AllUsers(users)

\* A bearer token that is valid wins: SessionMiddleware does not look.
TokenUser(r) ==
  /\ pc[r] = "tokenuser"
  /\ HasUser(r)
  /\ ctx' = [ctx EXCEPT ![r].user = creds[ctx[r].cred].user, ![r].source = "bearer"]
  /\ Goto(r, "gate")
  /\ UNCHANGED <<users, creds, links, req, rehash, seen>>

SessionUser(r) ==
  /\ pc[r] = "sessionuser"
  /\ HasUser(r)
  /\ ctx' = [ctx EXCEPT ![r].user = creds[ctx[r].cred].user, ![r].source = "session"]
  /\ Goto(r, IF Serves(r) THEN "gate" ELSE "deletesession")
  /\ UNCHANGED <<users, creds, links, req, rehash, seen>>

NoCredUser(r) == pc[r] \in {"tokenuser", "sessionuser"} /\ ~HasUser(r) /\ PassOn(r)

\* /api/auth/csrf and everything under /ui/: csrfSkipPaths and csrfSkipPrefixes.
CsrfSkipped(r) == Kind(r) = "csrf" \/ req[r].form

\* CSRFMiddleware compares the header with the token of the session as read.
CsrfOk(r) ==
  \/ ~req[r].unsafe
  \/ CsrfSkipped(r)
  \/ ctx[r].source # "session"
  \/ req[r].csrf = ctx[r].csrf

Enter(r) ==
  /\ pc[r] = "gate"
  /\ UserOf(r) # None
  /\ CsrfOk(r)
  /\ Kind(r) = "csrf" => ctx[r].source = "session"
  /\ Goto(r, IF Kind(r) = "csrf" THEN "writecsrf" ELSE "in")
  /\ UNCHANGED <<users, creds, links, req, ctx, rehash, seen>>

KeepOut(r) ==
  /\ pc[r] = "gate"
  /\ \/ UserOf(r) = None
     \/ ~CsrfOk(r)
     \/ Kind(r) = "csrf" /\ ctx[r].source # "session"
  /\ Refuse(r)

\* RefreshCSRF; a session that is gone is an error.
WriteCsrf(r) ==
  LET c == ctx[r].cred IN
  /\ pc[r] = "writecsrf"
  /\ Stored(creds, c)
  /\ creds' = UpdateCSRF(creds, c, r)
  /\ Done(r)
  /\ UNCHANGED <<users, links, rehash>>

CsrfGone(r) == pc[r] = "writecsrf" /\ ~Stored(creds, ctx[r].cred) /\ Refuse(r)

\* Logout; a session that is gone already is none of its errors.
DeleteSession(r) ==
  /\ pc[r] = "deletesession"
  /\ creds' = IF Stored(creds, ctx[r].cred) THEN DeleteCred(creds, ctx[r].cred) ELSE creds
  /\ ctx' = [ctx EXCEPT ![r] = NoContext]
  /\ Goto(r, AfterSession(Kind(r)))
  /\ UNCHANGED <<users, links, req, rehash, seen>>

-------------------------------------------------------------------------------
(* AuthService: passwords, and the credentials it issues.                  *)

\* A user with that address and a password hash, and the right password.
Verified(r) ==
  {u \in UsersByEmail(users, req[r].email) : req[r].good /\ users[u].hash # ""}

NeedsRehash(hash) == hash # "argon2id"

Verify(r) ==
  /\ pc[r] = "verify"
  /\ \E u \in Verified(r) :
       /\ ctx' = [ctx EXCEPT ![r].user = u]
       /\ rehash' = IF NeedsRehash(users[u].hash)
                    THEN [rehash EXCEPT ![r] = [user |-> u, copy |-> users[u]]]
                    ELSE rehash
  /\ Goto(r, "insertcred")
  /\ UNCHANGED <<users, creds, links, req, seen>>

VerifyRefused(r) == pc[r] = "verify" /\ Verified(r) = {} /\ Refuse(r)

\* The goroutine writes the whole user as the login read it; it may also be
\* lost with its process, or its statement fail, and nobody asks.
Rehash(r) ==
  /\ rehash[r] # NoRehash
  /\ users' = UpdateUser(users, rehash[r].user, [rehash[r].copy EXCEPT !.hash = "argon2id"])
  /\ rehash' = [rehash EXCEPT ![r] = NoRehash]
  /\ UNCHANGED <<creds, links, pc, req, ctx, seen>>

CredKind(r) == IF Kind(r) = "newtoken" THEN "token" ELSE "session"

\* IssueToken and issueSessionForUserAt: a prefix that is taken is drawn again.
InsertCredential(r, p) ==
  /\ pc[r] = "insertcred"
  /\ ByPrefix(creds, CredKind(r), p) = {}
  /\ Stored(users, UserOf(r))
  /\ creds' = InsertCred(creds, r, CredKind(r), UserOf(r), p)
  /\ Done(r)
  /\ UNCHANGED <<users, links, rehash>>

MayRetry(r) == ctx[r].tries + 1 < TokenRetryLimit

PrefixTaken(r, p) ==
  /\ pc[r] = "insertcred"
  /\ ByPrefix(creds, CredKind(r), p) # {}
  /\ IF MayRetry(r)
     THEN /\ ctx' = [ctx EXCEPT ![r].tries = @ + 1]
          /\ UNCHANGED <<users, creds, links, pc, req, rehash, seen>>
     ELSE Refuse(r)

\* The user has been deleted meanwhile: the foreign key refuses the row.
IssueRefused(r) == pc[r] = "insertcred" /\ ~Stored(users, UserOf(r)) /\ Refuse(r)

-------------------------------------------------------------------------------
(* OAuthService.HandleCallback, after the provider has named the account.  *)

WithUser(r, u, l) ==
  /\ ctx' = [ctx EXCEPT ![r].user = u]
  /\ Goto(r, l)
  /\ UNCHANGED <<users, creds, links, req, rehash, seen>>

\* A linked account signs in; one that is not is looked up by its address.
ReadLink(r) ==
  /\ pc[r] = "readlink"
  /\ IF Linked(links, req[r].account, None)
     THEN WithUser(r, links[req[r].account], "linkuser")
     ELSE WithUser(r, None, "readmail")

LinkUser(r)     == pc[r] = "linkuser" /\ Stored(users, UserOf(r)) /\ WithUser(r, UserOf(r), "insertcred")
LinkUserGone(r) == pc[r] = "linkuser" /\ ~Stored(users, UserOf(r)) /\ Refuse(r)

ReadMail(r) ==
  /\ pc[r] = "readmail"
  /\ \/ \E u \in UsersByEmail(users, req[r].email) : WithUser(r, u, "insertlink")
     \/ EmailFree(users, req[r].email) /\ WithUser(r, None, "insertuser")

NewRole(r) == IF req[r].owner THEN "owner" ELSE "author"

\* users.Create, for HandleCallback and for CreateUser.
InsertNewUser(r) ==
  /\ pc[r] = "insertuser"
  /\ EmailFree(users, req[r].email)
  /\ users' = InsertUser(users, r, req[r].email,
                         IF Kind(r) = "oauth" THEN "" ELSE "argon2id", NewRole(r))
  /\ IF Kind(r) = "oauth"
     THEN /\ ctx' = [ctx EXCEPT ![r].user = r]
          /\ Goto(r, "insertlink")
          /\ UNCHANGED <<req, seen>>
     ELSE Done(r)
  /\ UNCHANGED <<creds, links, rehash>>

EmailTaken(r) == pc[r] = "insertuser" /\ ~EmailFree(users, req[r].email) /\ Refuse(r)

LinkAllowed(r) == ~Linked(links, req[r].account, None) /\ Stored(users, UserOf(r))

CreateOAuthAccount(r) ==
  /\ pc[r] = "insertlink"
  /\ LinkAllowed(r)
  /\ links' = InsertLink(links, req[r].account, UserOf(r))
  /\ Goto(r, "insertcred")
  /\ UNCHANGED <<users, creds, req, ctx, rehash, seen>>

LinkRefused(r) == pc[r] = "insertlink" /\ ~LinkAllowed(r) /\ Refuse(r)

-------------------------------------------------------------------------------
(* The commands "user" and "token".                                        *)

\* --first-owner wants no user yet, any other command wants one.
CountAllows(r) == req[r].owner <=> AllUsers(users) = {}

CountUsers(r) ==
  /\ pc[r] = "countusers"
  /\ IF CountAllows(r) THEN WithUser(r, None, "insertuser") ELSE Refuse(r)

ReadUser(r) ==
  LET u == req[r].user IN
  /\ pc[r] = "readuser"
  /\ IF ~Stored(users, u) THEN Refuse(r)
     ELSE WithUser(r, u, IF Kind(r) = "newtoken" THEN "insertcred"
                         ELSE IF users[u].role = "owner" THEN "countowners" ELSE "deleteuser")

\* Fault: one owner is enough.
OneOwnerWillDo == Cardinality(Owners(users)) > 0
\* The last owner is not deleted.
MayDeleteOwner == Cardinality(Owners(users)) > 1

CountOwners(r) ==
  /\ pc[r] = "countowners"
  /\ MayDeleteOwner
  /\ seen' = [seen EXCEPT ![r].owners = Owners(users)]
  /\ Goto(r, "deleteuser")
  /\ UNCHANGED <<users, creds, links, req, ctx, rehash>>

LastOwner(r) == pc[r] = "countowners" /\ ~MayDeleteOwner /\ Refuse(r)

DeleteUserRow(r) ==
  LET u == UserOf(r) IN
  /\ pc[r] = "deleteuser"
  /\ Stored(users, u)
  /\ users' = DeleteUser(users, u)
  /\ creds' = CascadeCreds(creds, u)
  /\ links' = CascadeLinks(links, u, None)
  /\ Done(r)
  /\ UNCHANGED rehash

UserGone(r) == pc[r] = "deleteuser" /\ ~Stored(users, UserOf(r)) /\ Refuse(r)

RevokeToken(r) ==
  LET c == req[r].bearer IN
  /\ pc[r] = "deletetoken"
  /\ Stored(creds, c)
  /\ creds' = DeleteCred(creds, c)
  /\ Done(r)
  /\ UNCHANGED <<users, links, rehash>>

TokenGone(r) == pc[r] = "deletetoken" /\ ~Stored(creds, req[r].bearer) /\ Refuse(r)

-------------------------------------------------------------------------------
\* A statement fails: the middleware passes on, Logout's error is ignored by its
\* callers, everything else is answered with an error.
SqlFails(r) ==
  /\ SqlMayFail
  /\ pc[r] \in Statements \ {"gate"}
  /\ IF pc[r] \in {"readtoken", "tokenuser", "readsession", "sessionuser", "deletesession"}
     THEN PassOn(r) ELSE Refuse(r)

\* Time passes, and a session or a token with a term is past it.
Expire(c) ==
  /\ c \in Open
  /\ creds' = [creds EXCEPT ![c].fresh = FALSE]
  /\ UNCHANGED <<users, links, pc, req, ctx, rehash, seen>>

Chain(r) ==
  \/ ReadToken(r)   \/ NoToken(r)   \/ TokenUser(r) \/ NoCredUser(r)
  \/ ReadSession(r) \/ NoSession(r) \/ SessionUser(r)
  \/ Enter(r) \/ KeepOut(r) \/ WriteCsrf(r) \/ CsrfGone(r) \/ DeleteSession(r)

Issue(r) ==
  \/ Verify(r) \/ VerifyRefused(r) \/ IssueRefused(r)
  \/ \E p \in Prefixes : InsertCredential(r, p) \/ PrefixTaken(r, p)

Callback(r) ==
  \/ ReadLink(r) \/ LinkUser(r) \/ LinkUserGone(r) \/ ReadMail(r)
  \/ InsertNewUser(r) \/ EmailTaken(r) \/ CreateOAuthAccount(r) \/ LinkRefused(r)

Command(r) ==
  \/ CountUsers(r) \/ ReadUser(r) \/ CountOwners(r) \/ LastOwner(r)
  \/ DeleteUserRow(r) \/ UserGone(r) \/ RevokeToken(r) \/ TokenGone(r)

Next ==
  \/ \E r \in Requests :
       \/ \E k \in Kinds : \E body \in Bodies(k) : Receive(r, body)
       \/ Chain(r) \/ Issue(r) \/ Callback(r) \/ Command(r)
       \/ SqlFails(r) \/ Rehash(r)
  \/ \E c \in Creds : Expire(c)

Spec == Init /\ [][Next]_vars

-------------------------------------------------------------------------------
(* Properties.                                                             *)

\* What the tables promise whatever the requests do: one user per address, one
\* credential per prefix, no credential or link without its user.  The login by
\* prefix and the sign-in of a linked account lean on it, and deleting a user
\* must leave nothing behind.
ConstraintsHold == UserConstraints /\ CredConstraints /\ LinkConstraints

\* The types and the constraints together, which each other need.
AccountsInv == TypeOK /\ ConstraintsHold

\* A request that is let in has shown a credential that was live and unexpired
\* when the request arrived - not one that was revoked, logged out or deleted
\* with its user before, not one whose prefix was drawn again for somebody
\* else - acts as the user it was issued to, and if it changes something by a
\* session has sent the CSRF token that session had, not a replaced one.  The
\* forms of the web pages are exempt from the last: a session is let in there
\* without a token, and only SameSite=Lax of its cookie keeps others out.
LetInRightly ==
  \A r \in Requests : pc[r] = "in" =>
    LET c == ctx[r].cred IN
    /\ c \in {req[r].bearer, req[r].cookie} \cap seen[r].open
    /\ ctx[r].user = creds[c].user
    /\ req[r].unsafe /\ ~CsrfSkipped(r) /\ ctx[r].source = "session" =>
         req[r].csrf = seen[r].csrf

\* A session issued by an OAuth callback belongs to the user the account is
\* linked to, even when several first logins of the account run at once and
\* the user is deleted under them.
SignedInAsLinked ==
  \A r \in Requests : Kind(r) = "oauth" /\ Stored(creds, r) =>
    links[req[r].account] = creds[r].user

\* The background rehash changes nothing but the hash, and only from bcrypt to
\* argon2id; a user deleted meanwhile stays deleted.  A linked account keeps
\* leading to the same user until that user is deleted.
UsersKeepIdentity ==
  [][/\ \A u \in Users :
          /\ users[u].state = "deleted" => users'[u] = users[u]
          /\ Stored(users, u) =>
               /\ users'[u].email = users[u].email /\ users'[u].role = users[u].role
               /\ users'[u].hash # users[u].hash =>
                    users[u].hash = "bcrypt" /\ users'[u].hash = "argon2id"
     /\ \A a \in External :
          links'[a] # links[a] => links[a] = None \/ ~Stored(users', links[a])]_vars

\* A deletion never takes the last owner, if no other command has changed the
\* owners since it counted them.
RacelessDeleteKeepsOwner ==
  [][\A r \in Requests :
       /\ pc[r] = "deleteuser" /\ pc'[r] = "ok"
       /\ Owners(users) # {} /\ Owners(users) = seen[r].owners
       => Owners(users') # {}]_vars

===============================================================================
