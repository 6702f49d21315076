---------------------------- MODULE StorageContract ----------------------------
(***************************************************************************)
(* What repotest/contract.go promises of every storage of posts, as one    *)
(* step per call: the table before and after it, and the answer.  Where    *)
(* the suite leaves the answer open the storages differ, and the constants *)
(* say how.                                                                *)
(***************************************************************************)
EXTENDS Naturals, FiniteSets

CONSTANTS
  Database,      \* ids are unique and revisions are compared (OptimisticLock)
  SilentDelete,  \* a delete that finds no post is not an error
  Place          \* Place[t]: where the slugs of tenant t are unique

VARIABLES table,   \* the stored posts
          call,    \* the last call: its operation, post, posts and tenant
          answer   \* what it answered

SamePost(p, q) == p.id = q.id
SameName(p, q) == Place[p.tenant] = Place[q.tenant] /\ p.slug = q.slug

\* A post that keeps p from being stored.
InTheWay(p, q) == SameName(p, q) \/ (Database /\ SamePost(p, q))
Refused        == IF Database THEN "error" ELSE "exists"

\* CreateGet_RoundTrip, GetBySlug_TenantScope: a post that is created can be
\* read; a slug names one post in a place and may be used again in another.
Create ==
  LET p == call'.post IN
  /\ call'.op = "create"
  /\ IF \E q \in table : InTheWay(p, q) THEN answer' = Refused /\ table' = table
     ELSE answer' = "ok" /\ table' = table \cup {p}

\* Update_Success, Update_RevisionConflict, Update_NotFound.  The suite has no
\* update of another tenant's id: a database answers that it conflicts, where
\* REQ-5.4 of the storage parity asks for "not found"; files go by the name alone.
Update ==
  LET p       == call'.post
      known   == {q \in table : SamePost(p, q)}
      named   == {q \in table : SameName(p, q)}
      current == {q \in known : q.tenant = p.tenant /\ q.revision = p.revision - 1}
      aimed   == IF Database THEN current ELSE named
  IN
  /\ call'.op = "update"
  /\ answer' = IF aimed = {} THEN IF Database /\ known # {} THEN "conflict" ELSE "notfound"
               ELSE IF Database /\ \E q \in named : ~SamePost(p, q) THEN "error" ELSE "ok"
  /\ IF answer' = "ok"
     THEN \E q \in aimed, new \in table' :
            /\ SamePost(new, p) /\ new.tenant = p.tenant /\ new.slug = p.slug
            /\ new.revision = p.revision
            /\ table' = (table \ {q}) \cup {new}
     ELSE table' = table

\* Delete_TenantIsolation: nothing but one post with this id in this tenant goes,
\* and it goes exactly if the answer says so.  The suite takes both answers to
\* a delete that finds nothing (REQ-1.10 and REQ-2.2 ask for "not found").  Where
\* tenants share a place, another's file with the id may be met first.
Delete ==
  LET own    == {q \in table : q.id = call'.post.id /\ q.tenant = call'.tenant}
      beside == {q \in table : q.id = call'.post.id /\ q.tenant # call'.tenant
                                 /\ Place[q.tenant] = Place[call'.tenant]}
  IN
  /\ call'.op = "delete"
  /\ \/ /\ own # {}
        /\ answer' = "ok"
        /\ \E q \in own : table' = table \ {q}
     \/ /\ own = {} \/ (~Database /\ beside # {})
        /\ answer' = IF SilentDelete THEN "ok" ELSE "notfound"
        /\ table' = table

\* ImportPosts_Count: all of the posts are there, or the answer says otherwise;
\* nothing else comes, and nothing goes but what has the id of an imported post.
Import ==
  /\ call'.op = "import"
  /\ answer' \in {"ok", Refused}
  /\ answer' = "ok" => \A p \in call'.posts : \E q \in table' : SamePost(p, q)
  /\ answer' # "ok" /\ Database => table' = table
  /\ table' \ table \subseteq call'.posts
  /\ \A q \in table \ table' : Database /\ \E p \in call'.posts : SamePost(p, q)

\* The call went to another storage.
Elsewhere == call'.op = "elsewhere" /\ table' = table

Init == table = {}
Next == Create \/ Update \/ Delete \/ Import \/ Elsewhere
Spec == Init /\ [][Next]_<<table, call, answer>>

===============================================================================
