------------------------------ MODULE PostStorages ------------------------------
(***************************************************************************)
(* The three storages of posts side by side: files under git, SQLite and   *)
(* PostgreSQL.  Every call of a user goes to all of them, so that their    *)
(* tables and answers can be compared; "jtpost migrate" copies one of them *)
(* into another while calls go on.                                         *)
(*                                                                         *)
(* One call at a time: what overlapping requests do is in PostEditing and  *)
(* PostFiles.                                                              *)
(***************************************************************************)
EXTENDS PostQueries, FiniteSetsExt

CONSTANTS
  Ids, Tenants, Slugs,
  Dir,          \* Dir[t]: the directory of tenant t, which others may share
  Faces,        \* the rest of a post: status, tags, title, text, due, sched
  Written,      \* those of them that users write, the others are read from a storage
  PlanDays,     \* numbers of days that a plan is asked for
  Home,         \* the tenant that "migrate" works for
  MaxCalls,     \* bound: calls of users
  MaxRevision   \* bound: revisions that a caller may ask for

ASSUME StoragesAssumption ==
  /\ Home \in Tenants /\ Ids # {} /\ Slugs # {} /\ Written # {}
  /\ Written \subseteq Faces
  /\ PlanDays \subseteq 1..365
  /\ MaxCalls \in Nat /\ MaxRevision \in Nat \ {0}

Backends == {"git", "sqlite", "postgres"}

\* A date is missing or one moment; what is read from a storage may be handed to
\* another one.
ASSUME FacesAssumption ==
  \A f \in Faces :
    /\ \A d \in {f.due, f.sched} :
         d = {} \/ (d = {Only(d)} /\ At(d) \in Int /\ Only(d).zone \in Int)
    /\ \A b \in Backends : FaceRead(b, f) \in Faces

Sql      == {"sqlite", "postgres"}

VARIABLES
  rows,    \* rows[b]: the posts that storage b holds, as they were handed to it
  call,    \* the last call
  target,  \* the storages it went to
  answer,  \* answer[b]: what storage b answered to the last call it got
  calls,   \* how many calls there have been
  mig,     \* the running migration
  \* History, which no action of the code reads:
  used,    \* the ids that have been given to a post
  lawful   \* every call so far was one that PostService makes

vars == <<rows, call, target, answer, calls, mig, used, lawful>>

\* Posts are created one after the other, half a second apart.
Post    == [id : Ids, tenant : Tenants, slug : Slugs, revision : 1..MaxRevision,
            face : Faces, created : 0..MaxCalls]
None    == "none"
NoPost  == [id |-> None, tenant |-> Home, slug |-> None, revision |-> 1,
            face |-> CHOOSE f \in Written : TRUE, created |-> 0]
Asking  == [id : Ids \cup {None}, tenant : Tenants, slug : Slugs \cup {None},
            revision : 1..MaxRevision, face : Faces, created : 0..MaxCalls]
Call    == [op : {"none", "create", "update", "delete", "import"}, post : Asking,
            posts : SUBSET Post, tenant : Tenants]
Answers == {"ok", "exists", "error", "conflict", "notfound"}
Idle    == [pc |-> "idle", from |-> "git", to |-> "git", overwrite |-> FALSE,
            found |-> {}, raced |-> FALSE]

TypeOK ==
  /\ rows \in [Backends -> SUBSET Post]
  /\ call \in Call
  /\ target \subseteq Backends
  /\ answer \in [Backends -> Answers]
  /\ calls \in 0..MaxCalls
  /\ mig \in [pc : {"idle", "count", "load", "done", "refused"}, from : Backends,
              to : Backends, overwrite : BOOLEAN, found : SUBSET Post, raced : BOOLEAN]
  /\ used \subseteq Ids
  /\ lawful \in BOOLEAN

Init ==
  /\ rows = [b \in Backends |-> {}]
  /\ call = [op |-> "none", post |-> NoPost, posts |-> {}, tenant |-> Home]
  /\ target = {}
  /\ answer = [b \in Backends |-> "ok"]
  /\ calls = 0
  /\ mig = Idle
  /\ used = {}
  /\ lawful = TRUE

-------------------------------------------------------------------------------
(* What the storages do.                                                   *)

\* A file is named after the slug, in a directory that is named after the first 8
\* digits of the tenant's id; a table has UNIQUE (tenant_id, slug).
SameSlug(b, p, q) ==
  p.slug = q.slug /\ IF b = "git" THEN Dir[p.tenant] = Dir[q.tenant] ELSE p.tenant = q.tenant

\* A table has a primary key, too.
Taken(b, T, p) == \E q \in T : SameSlug(b, p, q) \/ (b \in Sql /\ q.id = p.id)

CreateIn(b, T, p)     == IF Taken(b, T, p) THEN T ELSE T \cup {p}
CreateAnswer(b, T, p) == IF ~Taken(b, T, p) THEN "ok"
                         ELSE IF b \in Sql THEN "error" ELSE "exists"

\* Fault: the WHERE clause asks for the id and the revision, not for the tenant.
AnyTenant(b, T, p) ==
  IF b \in Sql THEN {q \in T : q.id = p.id /\ q.revision = p.revision - 1}
  ELSE {q \in T : SameSlug(b, p, q)}

\* The row an update hits: by id, tenant and revision in a table; by the name of
\* the file, whoever's post it is.
Hit(b, T, p) ==
  IF b \in Sql
  THEN {q \in T : q.id = p.id /\ q.tenant = p.tenant /\ q.revision = p.revision - 1}
  ELSE {q \in T : SameSlug(b, p, q)}

\* An update of a table leaves created_at alone; PostService hands the files the
\* created_at they have.
Replaced(b, q, p) == [p EXCEPT !.created = q.created]

\* The UPDATE would give two posts of a tenant the same slug.
Clashes(b, T, p) ==
  b \in Sql /\ Hit(b, T, p) # {} /\ \E q \in T \ Hit(b, T, p) : SameSlug(b, p, q)

UpdateIn(b, T, p) ==
  IF Clashes(b, T, p) THEN T
  ELSE (T \ Hit(b, T, p)) \cup {Replaced(b, q, p) : q \in Hit(b, T, p)}

\* No row was hit: PostExistsByID asks for the id in all tenants.
UpdateAnswer(b, T, p) ==
  IF Clashes(b, T, p) THEN "error"
  ELSE IF Hit(b, T, p) # {} THEN "ok"
  ELSE IF b \in Sql /\ \E q \in T : q.id = p.id THEN "conflict" ELSE "notfound"

\* What a delete comes upon: the row with this id in this tenant, or the files of
\* the directory that carry the id.
Holders(b, T, t, i) ==
  {q \in T : q.id = i /\ IF b = "git" THEN Dir[q.tenant] = Dir[t] ELSE q.tenant = t}

\* Fault: a row is deleted by its id alone.
DeletesById(b, T, t, i) ==
  LET held == {q \in T : q.id = i /\ (b = "git" => q.tenant = t)}
  IN {[rows |-> T \ held, answer |-> IF held # {} \/ b = "sqlite" THEN "ok" ELSE "notfound"]}

\* The scan of a directory stops at the first file with the id, and gives up if
\* that is another tenant's.  SQLite does not look at how many rows it deleted.
DeleteIn(b, T, t, i) ==
  LET held    == Holders(b, T, t, i)
      Gone(q) == IF q.tenant = t THEN [rows |-> T \ {q}, answer |-> "ok"]
                 ELSE [rows |-> T, answer |-> "notfound"]
  IN IF held = {} THEN {[rows |-> T, answer |-> IF b = "sqlite" THEN "ok" ELSE "notfound"]}
     ELSE {Gone(q) : q \in held}

\* INSERT ... ON CONFLICT (id) DO UPDATE: the row with this id is replaced,
\* whichever tenant it was in; a slug that is taken by another id is an error.
Upsert(p, acc) ==
  IF \E q \in acc.rows : q.id # p.id /\ SameSlug("sqlite", p, q) THEN [acc EXCEPT !.ok = FALSE]
  ELSE [acc EXCEPT !.rows = {q \in acc.rows : q.id # p.id} \cup {p}]

Upserted(T, ps) == FoldSet(Upsert, [rows |-> T, ok |-> TRUE], ps)

\* Fault: the import does not run in a transaction.
NoRollback(T, ps) == Upserted(T, ps).rows

Imported(T, ps) == IF Upserted(T, ps).ok THEN Upserted(T, ps).rows ELSE T

\* ImportPosts: one transaction in a database; under git one Create after the
\* other, until one fails.
ImportIn(b, T, ps) ==
  IF b \in Sql THEN {Imported(T, ps)}
  ELSE IF \A p \in ps : ~Taken(b, T, p) THEN {T \cup ps}
  ELSE {T \cup done : done \in SUBSET {p \in ps : ~Taken(b, T, p)}}
ImportAnswer(b, T, ps) ==
  IF b \in Sql THEN IF Upserted(T, ps).ok THEN "ok" ELSE "error"
  ELSE IF \A p \in ps : ~Taken(b, T, p) THEN "ok" ELSE "exists"

-------------------------------------------------------------------------------
(* Calls of users, each to all three storages.                             *)

Called(op, p, ps, t) == call' = [op |-> op, post |-> p, posts |-> ps, tenant |-> t]

Counted ==
  /\ calls < MaxCalls
  /\ calls' = calls + 1
  /\ target' = Backends
  /\ mig' = [mig EXCEPT !.raced = mig.pc \in {"count", "load"}]

\* In the files another tenant's post has the name, in the same directory.
Elbowed(p) == \E q \in rows["git"] : SameSlug("git", p, q) /\ q.tenant # p.tenant

\* Create of a post with any id and slug; PostService takes a new id.
Create(p) ==
  /\ Counted
  /\ Called("create", p, {}, p.tenant)
  /\ rows' = [b \in Backends |-> CreateIn(b, rows[b], p)]
  /\ answer' = [b \in Backends |-> CreateAnswer(b, rows[b], p)]
  /\ used' = used \cup {p.id}
  /\ lawful' = (lawful /\ p.id \notin used /\ ~Elbowed(p))

\* Update of a post that the caller has read at some time, in its own tenant;
\* PostService has read it just now.
Update(p) ==
  /\ Counted
  /\ Called("update", p, {}, p.tenant)
  /\ rows' = [b \in Backends |-> UpdateIn(b, rows[b], p)]
  /\ answer' = [b \in Backends |-> UpdateAnswer(b, rows[b], p)]
  /\ lawful' = (lawful /\ \A b \in Backends :
                  \E q \in rows[b] : /\ q.id = p.id /\ q.tenant = p.tenant /\ q.slug = p.slug
                                     /\ q.revision = p.revision - 1)
  /\ UNCHANGED used

Delete(t, i) ==
  /\ Counted
  /\ Called("delete", [NoPost EXCEPT !.id = i], {}, t)
  /\ \E D \in [Backends -> UNION {DeleteIn(b, rows[b], t, i) : b \in Backends}] :
       /\ \A b \in Backends : D[b] \in DeleteIn(b, rows[b], t, i)
       /\ rows' = [b \in Backends |-> D[b].rows]
       /\ answer' = [b \in Backends |-> D[b].answer]
  /\ UNCHANGED <<used, lawful>>

-------------------------------------------------------------------------------
(* jtpost migrate --from --to [--overwrite].                               *)

Quiet(m) ==
  /\ mig' = m
  /\ UNCHANGED <<rows, call, target, answer, calls, used, lawful>>

\* List of the source.
MigrateList(from, to, overwrite) ==
  LET found == {AsRead(from, p) : p \in {q \in rows[from] : q.tenant = Home}} IN
  /\ mig.pc = "idle"
  /\ from # to
  /\ Quiet([pc |-> IF found = {} THEN "done" ELSE "count", from |-> from, to |-> to,
            overwrite |-> overwrite, found |-> found, raced |-> FALSE])

\* Fault: an old target is overwritten without being asked to.
AlwaysOverwrites == TRUE

MayLoad == rows[mig.to] = {} \/ mig.overwrite

\* Count of the target, in all tenants and directories.
MigrateCount ==
  /\ mig.pc = "count"
  /\ Quiet([mig EXCEPT !.pc = IF MayLoad THEN "load" ELSE "refused", !.raced = FALSE])

\* ImportPosts of the target.
MigrateLoad ==
  /\ mig.pc = "load"
  /\ Called("import", NoPost, mig.found, Home)
  /\ target' = {mig.to}
  /\ \E T \in ImportIn(mig.to, rows[mig.to], mig.found) :
       rows' = [rows EXCEPT ![mig.to] = T]
  /\ answer' = [answer EXCEPT ![mig.to] = ImportAnswer(mig.to, rows[mig.to], mig.found)]
  /\ mig' = [mig EXCEPT !.pc = IF answer'[mig.to] = "ok" THEN "done" ELSE "refused"]
  /\ lawful' = FALSE
  /\ UNCHANGED <<calls, used>>

-------------------------------------------------------------------------------
\* The posts a caller may hand to a storage: new ones, and copies of stored ones.
NewPosts == [id : Ids, tenant : Tenants, slug : Slugs, revision : {1}, face : Written,
             created : {calls}]
Copies   == {[id |-> q.id, tenant |-> q.tenant, slug |-> q.slug, revision |-> r, face |-> f,
              created |-> q.created] : q \in UNION {rows[b] : b \in Backends},
                                       f \in Written, r \in 2..MaxRevision}
Ghosts   == [id : Ids, tenant : Tenants, slug : Slugs, revision : {2} \cap 1..MaxRevision,
             face : {NoPost.face}, created : {0}]

Next ==
  \/ \E p \in NewPosts : Create(p)
  \/ \E p \in Copies \cup Ghosts : Update(p)
  \/ \E t \in Tenants, i \in Ids : Delete(t, i)
  \/ \E from \in Backends, to \in Backends, o \in BOOLEAN : MigrateList(from, to, o)
  \/ MigrateCount
  \/ MigrateLoad

Spec == Init /\ [][Next]_vars

-------------------------------------------------------------------------------
(* Properties.                                                             *)

\* Whatever is created, updated and imported, a database never holds two posts
\* with one id or with one slug in a tenant, and a directory never two files with
\* one name; two files may carry the same id.
KeysHold ==
  \A b \in Backends : \A p, q \in rows[b] :
    p # q => ~SameSlug(b, p, q) /\ (b \in Sql => p.id # q.id)

\* For the calls PostService makes, one at a time, the three storages were handed
\* the same posts and hold them: which one is configured cannot be told from what
\* is stored, but for the seconds and zones of its times (AsRead).  No call may be
\* a create that meets the file of a tenant with the same directory.
BackendsAgree ==
  lawful => \A b, c \in Backends : rows[b] = rows[c]

\* What is stored in each storage is well formed, and the same in all of them.
StoragesInv == TypeOK /\ KeysHold /\ BackendsAgree

Heard(b) == [call EXCEPT !.op = IF b \in target THEN @ ELSE "elsewhere"]

Git      == INSTANCE StorageContract WITH Database <- FALSE, SilentDelete <- FALSE,
              Place <- Dir,
              table <- rows["git"], answer <- answer["git"], call <- Heard("git")
Sqlite   == INSTANCE StorageContract WITH Database <- TRUE, SilentDelete <- TRUE,
              Place <- [t \in Tenants |-> t],
              table <- rows["sqlite"], answer <- answer["sqlite"], call <- Heard("sqlite")
Postgres == INSTANCE StorageContract WITH Database <- TRUE, SilentDelete <- FALSE,
              Place <- [t \in Tenants |-> t],
              table <- rows["postgres"], answer <- answer["postgres"], call <- Heard("postgres")

\* Each storage keeps the contract that the test suite of repotest states, with the
\* answers in which it differs from the others written down, call by call and
\* whatever was called before.
StoragesKeepContract == Git!Spec /\ Sqlite!Spec /\ Postgres!Spec

\* What takes a post from its tenant in somebody else's call: in the files an
\* update of a post with the same name, if the two tenants share a directory; in a
\* database the import of a post with the same id.
TakenBy(b, q, c) ==
  IF b = "git" THEN c.op = "update" /\ SameSlug("git", q, c.post)
  ELSE c.op = "import" /\ \E p \in c.posts : p.id = q.id

\* Whatever copy of a post a caller has in hand, a call or an import for one tenant
\* adds nothing to another tenant and takes nothing from it, but for these two ways.
TenantsStayApart ==
  [][\A b \in Backends : \A q \in (rows[b] \ rows'[b]) \cup (rows'[b] \ rows[b]) :
       q.tenant # call'.tenant => q \in rows[b] /\ TakenBy(b, q, call')]_vars

\* A migration that was not told to overwrite loses no post of its target,
\* unless somebody used the target between its count and its import.
MigrationLosesNothing ==
  [][mig.pc = "load" /\ mig'.pc # "load" /\ ~mig.overwrite /\ ~mig.raced =>
       rows[mig.to] \subseteq rows'[mig.to]]_vars

\* Lists are looked at while no migration runs: its first two steps change no row.
Asked == lawful /\ mig.pc = "idle"

\* The words and the tags that a list is asked for: one tag at most, because two
\* are joined by OR in the files and PostgreSQL and by AND in SQLite; a word of
\* a title that no text and no slug contains, because SQLite looks in texts and
\* the others in slugs.
Filters ==
  LET faces == {p.face : p \in rows["git"]}
      words == (UNION {f.title : f \in faces})
                 \ ((UNION {f.text : f \in faces}) \cup {p.slug : p \in rows["git"]})
  IN [tenant : Tenants, statuses : SUBSET {f.status : f \in faces},
      tags : {{}} \cup {{t} : t \in UNION {f.tags : f \in faces}},
      words : {{}} \cup {{w} : w \in words}]

\* Any two posts differ in the key, in SQLite too, where only seconds count.
KeyTells(key) ==
  \A p, q \in rows["git"] :
    IF key = "created_at" THEN p # q => ToSecond(p.created) # ToSecond(q.created)
    ELSE p.face.due # {}
           /\ (p # q => ToSecond(At(p.face.due)) # ToSecond(At(q.face.due)))

\* For the calls PostService makes, a list with such a filter has the same posts in
\* the three storages; and where their creations or deadlines lie in different
\* seconds, in the same order.
ListsAgree ==
  Asked =>
    \A f \in Filters : \A b, c \in Backends :
      /\ Found(b, rows[b], f) = Found(c, rows[c], f)
      /\ \A desc \in BOOLEAN, key \in {"created_at", "deadline"} :
           KeyTells(key) => List(b, rows[b], f, key, desc) = List(c, rows[c], f, key, desc)

\* Lists of the posts a storage gives back, in any order; by the 0-1 principle two
\* different posts show what three would.
Shuffles(b) ==
  IF Asked THEN UNION {[1..n -> {AsRead(b, p) : p \in rows[b]}] : n \in 0..3} ELSE {}

Sorted(s, Leq(_, _)) == \A i \in 1..(Len(s) - 1) : Leq(s[i], s[i + 1])
Occurs(s, x) == Cardinality({i \in DOMAIN s : s[i] = x})
Permuted(s, t) == Len(s) = Len(t) /\ \A i \in DOMAIN s : Occurs(s, s[i]) = Occurs(t, s[i])

\* GET /api/posts?sort= by status or deadline returns the same posts in that
\* order, up or down, although equal posts are swapped at every pass.
ApiListsInOrder ==
  \A s \in UNION {Shuffles(b) : b \in Backends}, field \in {"status", "deadline"},
     desc \in BOOLEAN :
    LET t == ApiSorted(s, field, desc) IN
    /\ Permuted(s, t)
    /\ Sorted(t, LAMBDA p, q : IF desc THEN ~Less(p, q, field) ELSE ~Less(q, p, field))

\* All dates are given in one zone.
OneZone(s) ==
  \A i, j \in DOMAIN s : \A m \in PlanDate(s[i]), n \in PlanDate(s[j]) : m.zone = n.zone

\* The API, the command line and the web page show the same plan of up to a year
\* with either database; and from files, whose dates keep the zone they were
\* written in, if that is one and the same.
PlansAgree ==
  \A b \in Backends : \A s \in Shuffles(b), days \in PlanDays :
    b \in Sql \/ OneZone(s) =>
      ApiPlan(s, days) = CliPlan(s, days) /\ CliPlan(s, days) = WebPlan(s, days)

\* What a user is shown depends neither on the storage nor on the front end.
ReadsAgree == ListsAgree /\ PlansAgree

\* While a post that can be worked on is overdue, "jtpost next" recommends an
\* overdue one ("Посты с просроченным дедлайном (наивысший приоритет)",
\* docs/cli.md:466), as long as nothing is a thousand hours late: what is overdue
\* longer counts as due later.  Five hundred hours are enough if a post without a
\* deadline has missed its date: it then counts as just as urgent, or more.
OverdueFirst ==
  \A s \in UNION {Shuffles(b) : b \in Backends} :
    LET Overdue(p) == p.face.due # {} /\ At(p.face.due) < 0
        Missed(p)  == p.face.due = {} /\ p.face.sched # {} /\ At(p.face.sched) < 0
        c     == ByPriority(s)
        limit == IF \E i \in DOMAIN c : Missed(c[i]) THEN 500 * Hour ELSE 1000 * Hour
    IN (\E i \in DOMAIN c : Overdue(c[i]))
         /\ (\A i \in DOMAIN c : Overdue(c[i]) => -At(c[i].face.due) < limit)
         => Overdue(c[1])

===============================================================================
