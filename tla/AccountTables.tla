---------------------------- MODULE AccountTables ----------------------------
(***************************************************************************)
(* The tables of accounts: users, the credentials issued to them (personal *)
(* access tokens and sessions, which differ in their table only) and the   *)
(* links from accounts at an OAuth provider.  One operator is one SQL      *)
(* statement, from a table to the table after it.  A row keeps its state,  *)
(* so that the id of a deleted row is told from one never used.            *)
(***************************************************************************)
EXTENDS Naturals, FiniteSets

Stored(t, i)  == t[i].state = "stored"
Deleted(t, i) == [t EXCEPT ![i].state = "deleted"]

-------------------------------------------------------------------------------
(* users: UNIQUE (tenant_id, email); the model has one tenant.             *)

AllUsers(t)           == {u \in DOMAIN t : Stored(t, u)}
UsersByEmail(t, mail) == {u \in AllUsers(t) : t[u].email = mail}
Owners(t)             == {u \in AllUsers(t) : t[u].role = "owner"}
EmailFree(t, mail)    == UsersByEmail(t, mail) = {}

InsertUser(t, u, mail, hash, role) ==
  [t EXCEPT ![u] = [state |-> "stored", email |-> mail, hash |-> hash, role |-> role]]

\* Fault: the statement inserts a row that is not there.
UpsertUser(t, u, copy) == [t EXCEPT ![u] = copy]
\* UPDATE users SET email, password_hash, role WHERE id: all of the copy.
UpdateUser(t, u, copy) == IF Stored(t, u) THEN [t EXCEPT ![u] = copy] ELSE t

DeleteUser(t, u) == Deleted(t, u)

-------------------------------------------------------------------------------
(* tokens and sessions: UNIQUE (prefix) in each of the two tables, and     *)
(* FOREIGN KEY (user_id) REFERENCES users ON DELETE CASCADE.               *)

ByPrefix(t, kind, p) ==
  {c \in DOMAIN t : Stored(t, c) /\ t[c].kind = kind /\ t[c].prefix = p}

InsertCred(t, c, kind, u, p) ==
  [t EXCEPT ![c] = [state |-> "stored", kind |-> kind, user |-> u, prefix |-> p,
                    csrf |-> c, fresh |-> TRUE]]

DeleteCred(t, c)      == Deleted(t, c)
UpdateCSRF(t, c, new) == [t EXCEPT ![c].csrf = new]

\* Fault: the foreign keys are not enforced.
NoCascade(t, u) == t
CascadeCreds(t, u) ==
  [c \in DOMAIN t |->
     IF t[c].user = u THEN [t[c] EXCEPT !.state = IF @ = "stored" THEN "deleted" ELSE @]
                      ELSE t[c]]

-------------------------------------------------------------------------------
(* oauth_accounts: UNIQUE (provider, external_id), here one provider; the  *)
(* same foreign key.  An account that is not linked maps to nobody.        *)

\* Fault: the constraint on the pair is missing.
NeverLinked(t, a, nobody)     == FALSE
Linked(t, a, nobody)          == t[a] # nobody
InsertLink(t, a, u)           == [t EXCEPT ![a] = u]
CascadeLinks(t, u, nobody)    == [a \in DOMAIN t |-> IF t[a] = u THEN nobody ELSE t[a]]
===============================================================================
