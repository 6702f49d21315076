---------------------------- MODULE StoragesProofs ----------------------------
(***************************************************************************)
(* A call for one tenant leaves the others alone, a migration that was not *)
(* told to overwrite loses no post, the three storages hold the same       *)
(* posts, each of them keeps StorageContract, and what is read from them   *)
(* is sorted and the same everywhere, for every number of posts, tenants   *)
(* and calls.                                                              *)
(***************************************************************************)
EXTENDS PostStorages, FiniteSetTheorems, TLAPS

\* There is one table per storage, and mig is a record.
Shaped ==
  /\ rows = [b \in Backends |-> rows[b]]
  /\ mig = [pc |-> mig.pc, from |-> mig.from, to |-> mig.to, overwrite |-> mig.overwrite,
            found |-> mig.found, raced |-> mig.raced]
  /\ mig.to \in Backends
  /\ calls \in Nat

\* The target was empty when its posts were counted, and still is.
Counted0 == mig.pc = "load" /\ ~mig.overwrite /\ ~mig.raced => rows[mig.to] = {}

MigInv == Shaped /\ Counted0

LEMMA InitHolds == Init => MigInv
BY StoragesAssumption DEF Init, Idle, MigInv, Shaped, Counted0, Backends

\* A call of a user is seen by the migration that is between its steps.
LEMMA CallKeeps ==
  ASSUME MigInv, Counted, rows' = [b \in Backends |-> rows'[b]]
  PROVE  MigInv'
<1>1. /\ mig' = [mig EXCEPT !.raced = mig.pc \in {"count", "load"}]
      /\ calls' = calls + 1
  BY DEF Counted
<1>2. /\ mig'.pc = mig.pc /\ mig'.to = mig.to /\ mig'.overwrite = mig.overwrite
      /\ mig'.raced = (mig.pc \in {"count", "load"})
      /\ mig' = [pc |-> mig'.pc, from |-> mig'.from, to |-> mig'.to,
                 overwrite |-> mig'.overwrite, found |-> mig'.found, raced |-> mig'.raced]
  BY <1>1 DEF MigInv, Shaped
<1>3. Shaped' BY <1>1, <1>2 DEF MigInv, Shaped
<1>4. Counted0' BY <1>2 DEF Counted0
<1>5. QED BY <1>3, <1>4 DEF MigInv

LEMMA NextKeeps == MigInv /\ [Next]_vars => MigInv'
<1>1. SUFFICES ASSUME MigInv, [Next]_vars PROVE MigInv' OBVIOUS
<1>2. ASSUME NEW p, Create(p) PROVE MigInv'
  BY <1>1, <1>2, CallKeeps DEF Create
<1>3. ASSUME NEW p, Update(p) PROVE MigInv'
  BY <1>1, <1>3, CallKeeps DEF Update
<1>4. ASSUME NEW t, NEW i, Delete(t, i) PROVE MigInv'
  <2>1. rows' = [b \in Backends |-> rows'[b]] BY <1>4 DEF Delete
  <2>2. QED BY <1>1, <1>4, <2>1, CallKeeps DEF Delete
<1>5. ASSUME NEW from \in Backends, NEW to \in Backends, NEW o \in BOOLEAN,
             MigrateList(from, to, o)
      PROVE  MigInv'
  <2>1. /\ UNCHANGED <<rows, calls>> /\ mig'.pc # "load" /\ mig'.to = to
        /\ mig' = [pc |-> mig'.pc, from |-> mig'.from, to |-> mig'.to,
                   overwrite |-> mig'.overwrite, found |-> mig'.found, raced |-> mig'.raced]
    BY <1>5 DEF MigrateList, Quiet
  <2>2. QED BY <1>1, <2>1 DEF MigInv, Shaped, Counted0
<1>6. CASE MigrateCount
  <2>1. /\ UNCHANGED <<rows, calls>>
        /\ mig' = [mig EXCEPT !.pc = IF MayLoad THEN "load" ELSE "refused", !.raced = FALSE]
    BY <1>6 DEF MigrateCount, Quiet
  <2>2. /\ mig'.pc = (IF MayLoad THEN "load" ELSE "refused")
        /\ mig'.to = mig.to /\ mig'.overwrite = mig.overwrite
        /\ mig' = [pc |-> mig'.pc, from |-> mig'.from, to |-> mig'.to,
                   overwrite |-> mig'.overwrite, found |-> mig'.found, raced |-> mig'.raced]
    BY <1>1, <2>1 DEF MigInv, Shaped
  <2>3. QED BY <1>1, <2>1, <2>2 DEF MigInv, Shaped, Counted0, MayLoad
<1>7. CASE MigrateLoad
  <2>1. rows' = [b \in Backends |-> rows'[b]] BY <1>1, <1>7 DEF MigrateLoad, MigInv, Shaped
  <2>2. /\ mig' = [mig EXCEPT !.pc = IF answer'[mig.to] = "ok" THEN "done" ELSE "refused"]
        /\ calls' = calls
    BY <1>7 DEF MigrateLoad
  <2>3. /\ mig'.pc # "load" /\ mig'.to = mig.to
        /\ mig' = [pc |-> mig'.pc, from |-> mig'.from, to |-> mig'.to,
                   overwrite |-> mig'.overwrite, found |-> mig'.found, raced |-> mig'.raced]
    BY <1>1, <2>2 DEF MigInv, Shaped
  <2>4. QED BY <1>1, <2>1, <2>2, <2>3 DEF MigInv, Shaped, Counted0
<1>8. CASE UNCHANGED vars BY <1>1, <1>8 DEF vars, MigInv, Shaped, Counted0
<1>9. QED BY <1>1, <1>2, <1>3, <1>4, <1>5, <1>6, <1>7, <1>8 DEF Next

LEMMA Invariant == Spec => []MigInv
<1>1. QED BY InitHolds, NextKeeps, PTL DEF Spec

-------------------------------------------------------------------------------
(* The theorems.                                                           *)

\* The import of a migration goes to a target that was empty, or may be overwritten.
LEMMA LoadLosesNothing ==
  ASSUME MigInv, [Next]_vars,
         mig.pc = "load", mig'.pc # "load", ~mig.overwrite, ~mig.raced
  PROVE  rows[mig.to] \subseteq rows'[mig.to]
BY DEF MigInv, Counted0

\* A migration not told to overwrite loses nothing of its target, unless the
\* target was used meanwhile.
THEOREM MigrationIsSafe == Spec => MigrationLosesNothing
<1>1. MigInv /\ [Next]_vars =>
        [mig.pc = "load" /\ mig'.pc # "load" /\ ~mig.overwrite /\ ~mig.raced =>
           rows[mig.to] \subseteq rows'[mig.to]]_vars
  BY LoadLosesNothing
<1>2. QED BY <1>1, Invariant, PTL DEF Spec, MigrationLosesNothing

-------------------------------------------------------------------------------
(* What the import of a set of posts makes of a table: a fold, of which    *)
(* something is shown by induction over the finite sets.                   *)

\* Of some subsets of a finite set one contains no other.
LEMMA SmallestSubset ==
  ASSUME NEW S, IsFiniteSet(S), NEW Bad, Bad \subseteq SUBSET S, Bad # {}
  PROVE  \E s \in Bad : \A u \in Bad : u \subseteq s => u = s
<1>1. IsWellFoundedOn(StrictSubsetOrdering(S), FiniteSubsetsOf(S))
  BY FS_StrictSubsetOrderingWellFounded
<1>2. Bad \subseteq FiniteSubsetsOf(S)
  BY FS_FiniteSubsetsOfFinite
<1>3. \E s \in Bad : \A u \in Bad : ~(<<u, s>> \in StrictSubsetOrdering(S))
  BY <1>1, <1>2, WFMin, Zenon
<1>4. QED BY <1>3 DEF StrictSubsetOrdering

\* A family that holds every subset of a finite set whose smaller subsets it holds
\* holds them all.
LEMMA SubsetInduction ==
  ASSUME NEW S, IsFiniteSet(S), NEW F,
         \A s \in SUBSET S : (\A u \in SUBSET s : u # s => u \in F) => s \in F
  PROVE  SUBSET S \subseteq F
<1>1. SUFFICES ASSUME ~(SUBSET S \subseteq F) PROVE FALSE OBVIOUS
<1> DEFINE Bad == {s \in SUBSET S : s \notin F}
<1>2. Bad \subseteq SUBSET S /\ Bad # {} BY <1>1
<1>3. PICK s \in Bad : \A u \in Bad : u \subseteq s => u = s
  <2> HIDE DEF Bad
  <2> QED BY <1>2, SmallestSubset
<1>4. \A u \in SUBSET s : u # s => u \in F
  BY <1>3
<1>5. QED BY <1>3, <1>4

\* The post that is imported last, and the fold as a function of the posts imported.
LastOf(s)        == CHOOSE x \in s : TRUE
Import0(T)       == [rows |-> T, ok |-> TRUE]
IsImport(T, g, s) ==
  g = [u \in SUBSET s |-> IF u = {} THEN Import0(T) ELSE Upsert(LastOf(u), g[u \ {LastOf(u)}])]

LEMMA UpsertedIsAFold ==
  ASSUME NEW T, NEW ps
  PROVE  Upserted(T, ps) = (CHOOSE g : IsImport(T, g, ps))[ps]
BY DEF Upserted, FoldSet, MapThenFoldSet, IsImport, LastOf, Import0

LEMMA LastIsIn == ASSUME NEW s, s # {} PROVE LastOf(s) \in s
BY DEF LastOf

\* Two such functions agree where both are defined.
Agree(g, h, s) == \A u \in SUBSET s : g[u] = h[u]

LEMMA ImportsAgree ==
  ASSUME NEW T, NEW b, NEW a \in SUBSET b, IsFiniteSet(a), NEW g, NEW h,
         IsImport(T, g, a), IsImport(T, h, b)
  PROVE  Agree(g, h, a)
<1> DEFINE F == {u \in SUBSET a : g[u] = h[u]}
<1>1. ASSUME NEW s \in SUBSET a, \A u \in SUBSET s : u # s => u \in F
      PROVE  s \in F
  <2>1. s \in SUBSET b OBVIOUS
  <2>2. CASE s = {}
    BY <2>1, <2>2, <1>1 DEF IsImport
  <2>3. CASE s # {}
    <3> DEFINE u == s \ {LastOf(s)}
    <3>1. u \in SUBSET s /\ u # s BY <2>3, LastIsIn
    <3>2. g[u] = h[u] BY <3>1, <1>1
    <3>3. g[s] = Upsert(LastOf(s), g[u]) BY <2>3 DEF IsImport
    <3>4. h[s] = Upsert(LastOf(s), h[u]) BY <2>1, <2>3 DEF IsImport
    <3> QED BY <3>2, <3>3, <3>4
  <2> QED BY <2>2, <2>3
<1> HIDE DEF F
<1>2. SUBSET a \subseteq F BY <1>1, SubsetInduction
<1>3. QED BY <1>2 DEF F, Agree

LEMMA ImportExists ==
  ASSUME NEW T, NEW S, IsFiniteSet(S)
  PROVE  \E g : IsImport(T, g, S)
<1> DEFINE F == {s \in SUBSET S : \E g : IsImport(T, g, s)}
<1>1. ASSUME NEW s \in SUBSET S, \A u \in SUBSET s : u # s => u \in F
      PROVE  s \in F
  <2> DEFINE Fun(u) == CHOOSE g : IsImport(T, g, u)
             h == [u \in SUBSET s |-> IF u = {} THEN Import0(T)
                     ELSE Upsert(LastOf(u), Fun(u \ {LastOf(u)})[u \ {LastOf(u)}])]
  <2>1. \A u \in SUBSET s : u # s => IsImport(T, Fun(u), u)
    BY <1>1
  <2>2. ASSUME NEW u \in SUBSET s, u # s
        PROVE  h[u] = Fun(u)[u]
    <3>1. CASE u = {}
      <4>1. h[u] = Import0(T) BY <3>1
      <4>2. IsImport(T, Fun(u), u) BY <2>1, <2>2
      <4> HIDE DEF Fun, h
      <4>3. Fun(u)[u] = Import0(T) BY <4>2, <3>1 DEF IsImport
      <4> QED BY <4>1, <4>3
    <3>2. CASE u # {}
      <4> DEFINE v == u \ {LastOf(u)}
      <4>1. v \in SUBSET u /\ v # u BY <3>2, LastIsIn
      <4>2. v \in SUBSET s /\ v # s BY <4>1, <2>2
      <4>3. IsImport(T, Fun(u), u) /\ IsImport(T, Fun(v), v) BY <2>1, <2>2, <4>2
      <4>4. IsFiniteSet(v) BY <4>2, FS_Subset
      <4>5. \A w \in SUBSET v : Fun(v)[w] = Fun(u)[w]
        <5> HIDE DEF Fun, v
        <5>1. Agree(Fun(v), Fun(u), v) BY <4>1, <4>3, <4>4, ImportsAgree
        <5> QED BY <5>1 DEF Agree
      <4>6. Fun(v)[v] = Fun(u)[v] BY <4>5
      <4>7. h[u] = Upsert(LastOf(u), Fun(v)[v]) BY <3>2
      <4>8. Fun(u)[u] = Upsert(LastOf(u), Fun(u)[v])
        <5> HIDE DEF Fun
        <5> QED BY <3>2, <4>3 DEF IsImport
      <4> QED BY <4>6, <4>7, <4>8
    <3> QED BY <3>1, <3>2
  <2>3. ASSUME NEW u \in SUBSET s, u # {}
        PROVE  h[u] = Upsert(LastOf(u), h[u \ {LastOf(u)}])
    <3> DEFINE v == u \ {LastOf(u)}
    <3>1. v \in SUBSET s /\ v # s BY <2>3, LastIsIn
    <3>2. h[v] = Fun(v)[v] BY <3>1, <2>2
    <3>3. h[u] = Upsert(LastOf(u), Fun(v)[v]) BY <2>3
    <3> QED BY <3>2, <3>3
  <2>4. h = [u \in SUBSET s |-> IF u = {} THEN Import0(T) ELSE Upsert(LastOf(u), h[u \ {LastOf(u)}])]
    <3>1. \A u \in SUBSET s : h[u] = IF u = {} THEN Import0(T) ELSE Upsert(LastOf(u), h[u \ {LastOf(u)}])
      <4>1. {} \in SUBSET s => h[{}] = Import0(T) OBVIOUS
      <4> HIDE DEF h
      <4> QED BY <2>3, <4>1
    <3>2. h = [u \in SUBSET s |-> h[u]] OBVIOUS
    <3> HIDE DEF h
    <3> QED BY <3>1, <3>2
  <2>5. IsImport(T, h, s)
    <3> HIDE DEF h
    <3> QED BY <2>4 DEF IsImport
  <2> HIDE DEF h
  <2> QED BY <2>5
<1> HIDE DEF F
<1>2. SUBSET S \subseteq F BY <1>1, SubsetInduction
<1>3. QED BY <1>2 DEF F

\* What holds of no import and stays true with each post imported holds of the whole.
LEMMA ImportInduction ==
  ASSUME NEW T, NEW S, IsFiniteSet(S), NEW G, <<{}, Import0(T)>> \in G,
         \A s \in SUBSET S : \A p \in s : \A acc :
           <<s \ {p}, acc>> \in G => <<s, Upsert(p, acc)>> \in G
  PROVE  <<S, Upserted(T, S)>> \in G
<1> DEFINE g == CHOOSE f : IsImport(T, f, S)
<1>1. IsImport(T, g, S) BY ImportExists
<1>2. Upserted(T, S) = g[S] BY UpsertedIsAFold
<1> HIDE DEF g
<1> DEFINE F == {s \in SUBSET S : <<s, g[s]>> \in G}
<1>3. ASSUME NEW s \in SUBSET S, \A u \in SUBSET s : u # s => u \in F
      PROVE  s \in F
  <2>1. CASE s = {}
    <3>1. g[s] = Import0(T) BY <1>1, <2>1 DEF IsImport
    <3> QED BY <3>1, <2>1
  <2>2. CASE s # {}
    <3>1. g[s] = Upsert(LastOf(s), g[s \ {LastOf(s)}]) BY <1>1, <2>2 DEF IsImport
    <3>2. LastOf(s) \in s BY <2>2, LastIsIn
    <3>3. s \ {LastOf(s)} \in F BY <3>2, <1>3
    <3> QED BY <3>1, <3>2, <3>3
  <2> QED BY <2>1, <2>2
<1>4. SUBSET S \subseteq F
  <2> HIDE DEF F
  <2> QED BY <1>3, SubsetInduction
<1>5. QED BY <1>2, <1>4

-------------------------------------------------------------------------------
(* What the calls make of a table with sound keys.                         *)

\* The keys of one storage.
Keyed(b, T) ==
  \A p, q \in T : p # q => ~SameSlug(b, p, q) /\ (b \in Sql => p.id # q.id)

Sound(b, T) == T \subseteq Post /\ IsFiniteSet(T) /\ Keyed(b, T)

LEMMA SmallerIsSound ==
  ASSUME NEW b \in Backends, NEW T, Sound(b, T), NEW U, U \subseteq T
  PROVE  Sound(b, U)
<1>1. IsFiniteSet(U) BY FS_Subset DEF Sound
<1> QED BY <1>1 DEF Sound, Keyed

LEMMA CreateIsSound ==
  ASSUME NEW b \in Backends, NEW T, Sound(b, T), NEW p \in Post
  PROVE  Sound(b, CreateIn(b, T, p))
<1>1. IsFiniteSet(T \cup {p}) BY FS_AddElement DEF Sound
<1>2. CASE Taken(b, T, p) BY <1>2 DEF CreateIn
<1>3. CASE ~Taken(b, T, p)
  <2>1. CreateIn(b, T, p) = T \cup {p} BY <1>3 DEF CreateIn
  <2>2. \A q \in T : /\ ~SameSlug(b, p, q) /\ ~SameSlug(b, q, p)
                     /\ b \in Sql => q.id # p.id
    BY <1>3 DEF Taken, SameSlug
  <2> QED BY <1>1, <2>1, <2>2 DEF Sound, Keyed
<1> QED BY <1>2, <1>3

\* An update replaces one row, or none.
LEMMA UpdateHitsOne ==
  ASSUME NEW b \in Backends, NEW T, Sound(b, T), NEW p \in Post
  PROVE  \/ Clashes(b, T, p) /\ UpdateIn(b, T, p) = T /\ UpdateAnswer(b, T, p) = "error"
         \/ Hit(b, T, p) = {} /\ UpdateIn(b, T, p) = T /\ UpdateAnswer(b, T, p) # "ok"
         \/ /\ ~Clashes(b, T, p) /\ UpdateAnswer(b, T, p) = "ok"
            /\ \E q \in T : /\ Hit(b, T, p) = {q}
                            /\ UpdateIn(b, T, p) = (T \ {q}) \cup {Replaced(b, q, p)}
<1>1. CASE Clashes(b, T, p) BY <1>1 DEF UpdateIn, UpdateAnswer
<1>2. CASE ~Clashes(b, T, p) /\ Hit(b, T, p) = {}
  BY <1>2 DEF UpdateIn, UpdateAnswer
<1>3. CASE ~Clashes(b, T, p) /\ Hit(b, T, p) # {}
  <2>1. PICK q \in T : q \in Hit(b, T, p) BY <1>3 DEF Hit
  <2>2. \A u \in Hit(b, T, p) : u = q
    BY <2>1 DEF Hit, Sound, Keyed, SameSlug
  <2>3. Hit(b, T, p) = {q} BY <2>1, <2>2
  <2>4. UpdateIn(b, T, p) = (T \ {q}) \cup {Replaced(b, q, p)}
    BY <1>3, <2>3 DEF UpdateIn
  <2>5. UpdateAnswer(b, T, p) = "ok" BY <1>3 DEF UpdateAnswer
  <2> QED BY <1>3, <2>3, <2>4, <2>5
<1> QED BY <1>1, <1>2, <1>3

\* The row an update leaves is the caller's, with the created_at it had.
LEMMA ReplacedIsIt ==
  ASSUME NEW b, NEW q \in Post, NEW p \in Post
  PROVE  /\ Replaced(b, q, p) \in Post
         /\ Replaced(b, q, p).id = p.id /\ Replaced(b, q, p).tenant = p.tenant
         /\ Replaced(b, q, p).slug = p.slug /\ Replaced(b, q, p).revision = p.revision
BY DEF Replaced, Post

LEMMA UpdateIsSound ==
  ASSUME NEW b \in Backends, NEW T, Sound(b, T), NEW p \in Post
  PROVE  Sound(b, UpdateIn(b, T, p))
<1>1. CASE UpdateIn(b, T, p) = T BY <1>1
<1>2. ASSUME NEW q \in T, Hit(b, T, p) = {q}, ~Clashes(b, T, p),
             UpdateIn(b, T, p) = (T \ {q}) \cup {Replaced(b, q, p)}
      PROVE  Sound(b, UpdateIn(b, T, p))
  <2> DEFINE r == Replaced(b, q, p)
  <2>1. /\ r \in Post /\ r.id = p.id /\ r.tenant = p.tenant /\ r.slug = p.slug
    BY ReplacedIsIt DEF Sound
  <2>2. Sound(b, T \ {q}) BY SmallerIsSound
  <2>3. IsFiniteSet((T \ {q}) \cup {r}) BY <2>2, FS_AddElement DEF Sound
  <2>4. ASSUME NEW u \in T \ {q}
        PROVE  ~SameSlug(b, r, u) /\ ~SameSlug(b, u, r) /\ (b \in Sql => u.id # r.id)
    <3>1. ~SameSlug(b, p, u) /\ ~SameSlug(b, u, p)
      BY <1>2 DEF Clashes, Hit, SameSlug
    <3>2. b \in Sql => u.id # q.id /\ q.id = p.id
      BY <1>2 DEF Hit, Sound, Keyed
    <3> HIDE DEF r
    <3> QED BY <2>1, <3>1, <3>2 DEF SameSlug
  <2> HIDE DEF r
  <2>5. (T \ {q}) \cup {r} \subseteq Post BY <2>1, <2>2 DEF Sound
  <2>6. Keyed(b, (T \ {q}) \cup {r}) BY <2>2, <2>4 DEF Sound, Keyed
  <2> QED BY <1>2, <2>3, <2>5, <2>6 DEF Sound, r
<1> QED BY <1>1, <1>2, UpdateHitsOne

LEMMA DeleteIsSound ==
  ASSUME NEW b \in Backends, NEW T, Sound(b, T), NEW t, NEW i, NEW D \in DeleteIn(b, T, t, i)
  PROVE  Sound(b, D.rows) /\ D.answer \in Answers
<1>1. D.rows \subseteq T /\ D.answer \in {"ok", "notfound"} BY DEF DeleteIn
<1> QED BY <1>1, SmallerIsSound DEF Answers

LEMMA UpsertIsSound ==
  ASSUME NEW b \in Sql, NEW T, Sound(b, T), NEW p \in Post,
         \A q \in T : q.id # p.id => ~SameSlug("sqlite", p, q)
  PROVE  Sound(b, {q \in T : q.id # p.id} \cup {p})
<1> DEFINE U == {q \in T : q.id # p.id}
<1>1. Sound(b, U) BY SmallerIsSound DEF Sql, Backends
<1>2. IsFiniteSet(U \cup {p}) BY <1>1, FS_AddElement DEF Sound
<1>3. U \cup {p} \subseteq Post BY <1>1 DEF Sound
<1>4. \A q \in U : q.id # p.id /\ ~SameSlug(b, p, q) /\ ~SameSlug(b, q, p)
  BY DEF SameSlug, Sql
<1> HIDE DEF U
<1>5. Keyed(b, U \cup {p}) BY <1>1, <1>4 DEF Sound, Keyed
<1>6. Sound(b, U \cup {p}) BY <1>2, <1>3, <1>5 DEF Sound
<1> QED BY <1>6 DEF U

\* After an import into a database its keys are sound, and unless it failed all
\* of the posts are there; nothing else has come, and nothing has gone but what
\* had the id of an imported post.
Arrived(ps, T)  == \A p \in ps : \E q \in T : q.id = p.id
Only0(ps, T, U) == U \subseteq T \cup ps /\ \A q \in T \ U : \E p \in ps : p.id = q.id

LEMMA UpsertedIsSound ==
  ASSUME NEW b \in Sql, NEW T, Sound(b, T), NEW ps, ps \subseteq Post, IsFiniteSet(ps)
  PROVE  /\ Sound(b, Upserted(T, ps).rows)
         /\ Upserted(T, ps).ok \in BOOLEAN
         /\ Upserted(T, ps).ok => Arrived(ps, Upserted(T, ps).rows)
         /\ Only0(ps, T, Upserted(T, ps).rows)
<1> DEFINE Acc == [rows : SUBSET Post, ok : BOOLEAN]
           G   == {x \in (SUBSET ps) \X Acc : /\ Sound(b, x[2].rows)
                                              /\ x[2].ok => Arrived(x[1], x[2].rows)
                                              /\ Only0(x[1], T, x[2].rows)}
<1>1. <<{}, Import0(T)>> \in G BY DEF Import0, Sound, Arrived, Only0
<1>2. ASSUME NEW s \in SUBSET ps, NEW p \in s, NEW acc, <<s \ {p}, acc>> \in G
      PROVE  <<s, Upsert(p, acc)>> \in G
  <2>1. /\ acc \in Acc /\ Sound(b, acc.rows) /\ (acc.ok => Arrived(s \ {p}, acc.rows))
        /\ Only0(s \ {p}, T, acc.rows)
    BY <1>2
  <2>2. CASE \E q \in acc.rows : q.id # p.id /\ SameSlug("sqlite", p, q)
    <3>1. Upsert(p, acc) = [acc EXCEPT !.ok = FALSE] BY <2>2 DEF Upsert
    <3>2. Upsert(p, acc) \in Acc /\ Upsert(p, acc).rows = acc.rows /\ ~Upsert(p, acc).ok
      BY <3>1, <2>1
    <3>3. Only0(s, T, acc.rows) BY <2>1 DEF Only0
    <3> QED BY <2>1, <3>2, <3>3
  <2>3. CASE ~\E q \in acc.rows : q.id # p.id /\ SameSlug("sqlite", p, q)
    <3> DEFINE U == {q \in acc.rows : q.id # p.id} \cup {p}
    <3>1. Upsert(p, acc) = [acc EXCEPT !.rows = U] BY <2>3 DEF Upsert
    <3>2. Sound(b, U) BY <2>1, <2>3, UpsertIsSound
    <3>3. U \subseteq Post BY <3>2 DEF Sound
    <3>4. acc.ok => Arrived(s, U) BY <2>1 DEF Arrived
    <3>6. Only0(s, T, U) BY <2>1 DEF Only0
    <3> HIDE DEF U
    <3>5. /\ Upsert(p, acc) \in Acc /\ Upsert(p, acc).rows = U
          /\ Upsert(p, acc).ok = acc.ok
      BY <3>1, <3>3, <2>1
    <3> QED BY <3>2, <3>4, <3>5, <3>6
  <2> QED BY <2>2, <2>3
<1> HIDE DEF G
<1>3. <<ps, Upserted(T, ps)>> \in G BY <1>1, <1>2, ImportInduction
<1> QED BY <1>3 DEF G

LEMMA ImportIsSound ==
  ASSUME NEW b \in Backends, NEW T, Sound(b, T), NEW ps, Sound("git", ps),
         NEW D \in ImportIn(b, T, ps)
  PROVE  /\ Sound(b, D)
         /\ Only0(ps, T, D) /\ (b \notin Sql => T \subseteq D)
<1>1. CASE b \in Sql
  BY <1>1, UpsertedIsSound DEF ImportIn, Imported, Sound, Only0
<1>2. CASE b \notin Sql
  <2>1. PICK done \in SUBSET {p \in ps : ~Taken(b, T, p)} : D = T \cup done
    BY <1>2 DEF ImportIn
  <2>2. IsFiniteSet(done) BY FS_Subset DEF Sound
  <2>3. IsFiniteSet(T \cup done) BY <2>2, FS_Union DEF Sound
  <2>4. \A p \in done : p \in ps /\ \A q \in T : ~SameSlug(b, p, q) /\ ~SameSlug(b, q, p)
    BY DEF Taken, SameSlug
  <2>5. b = "git" BY <1>2 DEF Backends, Sql
  <2>6. Keyed(b, T \cup done) BY <1>2, <2>4, <2>5 DEF Keyed, Sound
  <2>7. T \cup done \subseteq Post /\ Only0(ps, T, T \cup done) BY <2>4 DEF Sound, Only0
  <2> QED BY <2>1, <2>3, <2>6, <2>7 DEF Sound
<1> QED BY <1>1, <1>2

-------------------------------------------------------------------------------
(* What PostService does not see: a call it makes does the same everywhere. *)

LEMMA SameCreate ==
  ASSUME NEW b \in Backends, NEW T, NEW p, \A q \in T : q.id # p.id,
         \A q \in T : SameSlug("git", p, q) => q.tenant = p.tenant
  PROVE  CreateIn(b, T, p) = CreateIn("git", T, p)
<1>1. \A q \in T : SameSlug(b, p, q) <=> SameSlug("git", p, q) BY DEF SameSlug
<1>2. "git" \notin Sql BY DEF Sql
<1> QED BY <1>1, <1>2 DEF CreateIn, Taken

LEMMA SameUpdate ==
  ASSUME NEW b \in Backends, NEW T, \A c \in Backends : Sound(c, T), NEW p \in Post,
         NEW q \in T, q.id = p.id, q.tenant = p.tenant, q.slug = p.slug,
         q.revision = p.revision - 1
  PROVE  UpdateIn(b, T, p) = (T \ {q}) \cup {[p EXCEPT !.created = q.created]}
<1>0. Keyed(b, T) BY DEF Sound
<1>1. Hit(b, T, p) = {q}
  <2>1. q \in Hit(b, T, p) BY DEF Hit, SameSlug
  <2>2. \A u \in Hit(b, T, p) : u = q
    BY <1>0 DEF Hit, Keyed, SameSlug
  <2> QED BY <2>1, <2>2 DEF Hit
<1>2. ~Clashes(b, T, p) BY <1>0, <1>1 DEF Clashes, Keyed, SameSlug
<1> QED BY <1>1, <1>2 DEF UpdateIn, Replaced

Own(T, t, i) == {q \in T : q.id = i /\ q.tenant = t}

LEMMA SameDelete ==
  ASSUME NEW b \in Backends, NEW T, Sound("sqlite", T), NEW t, NEW i,
         NEW D \in DeleteIn(b, T, t, i)
  PROVE  D.rows = T \ Own(T, t, i)
<1>1. \A q, u \in T : q.id = i /\ u.id = i => q = u BY DEF Sound, Keyed, Sql
<1>2. CASE Holders(b, T, t, i) = {}
  <2>1. Own(T, t, i) = {} BY <1>2 DEF Holders, Own
  <2> QED BY <1>2, <2>1 DEF DeleteIn
<1>3. CASE Holders(b, T, t, i) # {}
  <2>1. PICK q \in Holders(b, T, t, i) :
          D = IF q.tenant = t THEN [rows |-> T \ {q}, answer |-> "ok"]
              ELSE [rows |-> T, answer |-> "notfound"]
    BY <1>3 DEF DeleteIn
  <2>2. q \in T /\ q.id = i BY DEF Holders
  <2>3. Own(T, t, i) = IF q.tenant = t THEN {q} ELSE {} BY <1>1, <2>2 DEF Own
  <2> QED BY <2>1, <2>3
<1> QED BY <1>2, <1>3

-------------------------------------------------------------------------------
(* The invariant.                                                          *)

IdsUsed == \A b \in Backends : \A p \in rows[b] : p.id \in used

StoredWell ==
  /\ TypeOK
  /\ \A b \in Backends : Sound(b, rows[b])
  /\ Sound("git", mig.found)
  /\ \A p \in mig.found : p.tenant = Home
  /\ BackendsAgree
  /\ lawful => IdsUsed

LEMMA StoredInit == Init => StoredWell
<1> SUFFICES ASSUME Init PROVE StoredWell OBVIOUS
<1>1. NoPost \in Asking BY StoragesAssumption DEF NoPost, Asking
<1>2. IsFiniteSet({}) BY FS_EmptySet
<1>3. \A b \in Backends : Sound(b, {}) BY <1>2 DEF Sound, Keyed
<1>4. call \in Call BY <1>1, StoragesAssumption DEF Init, Call
<1>5. TypeOK
  BY <1>4, StoragesAssumption DEF Init, TypeOK, Backends, Answers, Idle
<1>6. \A b \in Backends : rows[b] = {} BY DEF Init
<1>7. BackendsAgree /\ IdsUsed BY <1>6 DEF BackendsAgree, IdsUsed
<1>8. mig.found = {} BY DEF Init, Idle
<1>9. Sound("git", mig.found) BY <1>3, <1>8 DEF Backends
<1> QED BY <1>3, <1>5, <1>6, <1>7, <1>8, <1>9 DEF StoredWell

\* What a call of a user does to the rest of the state.
LEMMA CallTyped ==
  ASSUME StoredWell, Counted, NEW op \in {"create", "update", "delete"}, NEW p \in Asking,
         NEW t \in Tenants, Called(op, p, {}, t), lawful' \in BOOLEAN, used' \subseteq Ids,
         rows' = [b \in Backends |-> rows'[b]], answer' = [b \in Backends |-> answer'[b]],
         \A b \in Backends : Sound(b, rows'[b]) /\ answer'[b] \in Answers,
         BackendsAgree', lawful' => IdsUsed'
  PROVE  StoredWell'
<1>1. call' \in Call BY DEF Called, Call
<1>2. calls' \in 0..MaxCalls BY StoragesAssumption DEF Counted, StoredWell, TypeOK
<1> DEFINE meets == mig.pc \in {"count", "load"}
<1>3. mig' = [mig EXCEPT !.raced = meets] /\ meets \in BOOLEAN BY DEF Counted
<1> HIDE DEF meets
<1>4. /\ mig' \in [pc : {"idle", "count", "load", "done", "refused"}, from : Backends,
                   to : Backends, overwrite : BOOLEAN, found : SUBSET Post, raced : BOOLEAN]
      /\ mig'.found = mig.found
  BY <1>3 DEF StoredWell, TypeOK
<1>5. rows' \in [Backends -> SUBSET Post] BY DEF Sound
<1>6. answer' \in [Backends -> Answers] OBVIOUS
<1>7. TypeOK' BY <1>1, <1>2, <1>4, <1>5, <1>6 DEF TypeOK, Counted
<1> QED BY <1>4, <1>7 DEF StoredWell

LEMMA StoredCreate ==
  ASSUME StoredWell, NEW p \in NewPosts, Create(p)
  PROVE  StoredWell'
<1>1. p \in Post /\ p.id \in Ids /\ p.tenant \in Tenants
  BY StoragesAssumption DEF NewPosts, Post, StoredWell, TypeOK
<1>0. p \in Asking BY <1>1 DEF Post, Asking
<1>2. \A b \in Backends : /\ rows'[b] = CreateIn(b, rows[b], p)
                          /\ answer'[b] \in Answers
  BY DEF Create, CreateAnswer, Answers
<1>3. \A b \in Backends : Sound(b, rows'[b])
  BY <1>1, <1>2, CreateIsSound DEF StoredWell
<1>4. ASSUME lawful' PROVE (\A b \in Backends : rows'[b] = rows'["git"]) /\ IdsUsed'
  <2>1. lawful /\ p.id \notin used /\ ~Elbowed(p) BY <1>4 DEF Create
  <2>2. \A b \in Backends : rows[b] = rows["git"] /\ \A q \in rows[b] : q.id # p.id
    BY <2>1 DEF StoredWell, BackendsAgree, IdsUsed, Backends
  <2>3. \A b \in Backends : rows'[b] = CreateIn("git", rows["git"], p)
    BY <1>2, <2>1, <2>2, SameCreate DEF Elbowed
  <2>4. \A b \in Backends : rows'[b] \subseteq rows[b] \cup {p} BY <1>2 DEF CreateIn
  <2>5. IdsUsed' BY <2>1, <2>4 DEF IdsUsed, StoredWell, Create
  <2> QED BY <2>3, <2>5 DEF Backends
<1>5. BackendsAgree' BY <1>4 DEF BackendsAgree
<1>6. /\ Counted /\ Called("create", p, {}, p.tenant)
      /\ rows' = [b \in Backends |-> rows'[b]] /\ answer' = [b \in Backends |-> answer'[b]]
      /\ lawful' \in BOOLEAN /\ used' \subseteq Ids
  BY <1>1 DEF Create, StoredWell, TypeOK
<1> QED BY <1>0, <1>1, <1>2, <1>3, <1>4, <1>5, <1>6, CallTyped

\* A caller updates a copy of a post, or one that is stored nowhere.
LEMMA UpdatesArePosts ==
  ASSUME StoredWell, NEW p \in Copies \cup Ghosts
  PROVE  p \in Post /\ p \in Asking /\ p.tenant \in Tenants
<1>1. \A q \in UNION {rows[b] : b \in Backends} : q \in Post BY DEF StoredWell, Sound
<1>2. CASE p \in Ghosts
  <2>1. NoPost.face \in Faces BY StoragesAssumption DEF NoPost
  <2> QED BY <1>2, <2>1, StoragesAssumption DEF Ghosts, Post, Asking
<1>3. CASE p \in Copies
  <2>1. PICK q \in UNION {rows[b] : b \in Backends}, f \in Written, r \in 2..MaxRevision :
          p = [id |-> q.id, tenant |-> q.tenant, slug |-> q.slug, revision |-> r,
               face |-> f, created |-> q.created]
    BY <1>3 DEF Copies
  <2>2. p \in Post BY <1>1, <2>1, StoragesAssumption DEF Post
  <2> QED BY <2>2 DEF Post, Asking
<1> QED BY <1>2, <1>3

LEMMA StoredUpdate ==
  ASSUME StoredWell, NEW p \in Copies \cup Ghosts, Update(p)
  PROVE  StoredWell'
<1>1. p \in Post /\ p \in Asking /\ p.tenant \in Tenants BY UpdatesArePosts
<1>2. \A b \in Backends : /\ rows'[b] = UpdateIn(b, rows[b], p)
                          /\ answer'[b] \in Answers
  BY DEF Update, UpdateAnswer, Answers
<1>3. \A b \in Backends : Sound(b, rows'[b])
  BY <1>1, <1>2, UpdateIsSound DEF StoredWell
<1>4. ASSUME lawful' PROVE (\A b \in Backends : rows'[b] = rows'["git"]) /\ IdsUsed'
  <2>1. lawful /\ UNCHANGED used BY <1>4 DEF Update
  <2>2. \A b \in Backends : rows[b] = rows["sqlite"]
    BY <2>1 DEF StoredWell, BackendsAgree, Backends
  <2>3. PICK q \in rows["sqlite"] : /\ q.id = p.id /\ q.tenant = p.tenant /\ q.slug = p.slug
                                    /\ q.revision = p.revision - 1
    BY <1>4 DEF Update, Backends
  <2>4. \A b \in Backends : Sound(b, rows["sqlite"]) BY <2>2 DEF StoredWell
  <2>5. \A b \in Backends :
          rows'[b] = (rows["sqlite"] \ {q}) \cup {[p EXCEPT !.created = q.created]}
    BY <1>1, <1>2, <2>2, <2>3, <2>4, SameUpdate
  <2>6. [p EXCEPT !.created = q.created].id = q.id BY <1>1, <2>3 DEF Post
  <2>7. IdsUsed' BY <2>1, <2>5, <2>6 DEF IdsUsed, StoredWell, Backends
  <2> QED BY <2>5, <2>7 DEF Backends
<1>5. BackendsAgree' BY <1>4 DEF BackendsAgree
<1>6. /\ Counted /\ Called("update", p, {}, p.tenant)
      /\ rows' = [b \in Backends |-> rows'[b]] /\ answer' = [b \in Backends |-> answer'[b]]
      /\ lawful' \in BOOLEAN /\ used' \subseteq Ids
  BY <1>1 DEF Update, StoredWell, TypeOK
<1> QED BY <1>1, <1>2, <1>3, <1>4, <1>5, <1>6, CallTyped

LEMMA StoredDelete ==
  ASSUME StoredWell, NEW t \in Tenants, NEW i \in Ids, Delete(t, i)
  PROVE  StoredWell'
<1>0. NoPost \in Asking BY StoragesAssumption DEF NoPost, Asking
<1>1. [NoPost EXCEPT !.id = i] \in Asking BY <1>0 DEF Asking
<1>2. PICK D : /\ \A b \in Backends : D[b] \in DeleteIn(b, rows[b], t, i)
               /\ rows' = [b \in Backends |-> D[b].rows]
               /\ answer' = [b \in Backends |-> D[b].answer]
  BY DEF Delete
<1>3. \A b \in Backends : Sound(b, rows'[b]) /\ answer'[b] \in Answers
  BY <1>2, DeleteIsSound DEF StoredWell
<1>4. ASSUME lawful' PROVE (\A b \in Backends : rows'[b] = rows'["git"]) /\ IdsUsed'
  <2>1. lawful /\ UNCHANGED used BY <1>4 DEF Delete
  <2>2. \A b \in Backends : rows[b] = rows["sqlite"]
    BY <2>1 DEF StoredWell, BackendsAgree, Backends
  <2>3. Sound("sqlite", rows["sqlite"]) BY DEF StoredWell, Backends
  <2>4. \A b \in Backends : rows'[b] = rows["sqlite"] \ Own(rows["sqlite"], t, i)
    BY <1>2, <2>2, <2>3, SameDelete
  <2>5. IdsUsed' BY <2>1, <2>4 DEF IdsUsed, StoredWell, Backends
  <2> QED BY <2>4, <2>5 DEF Backends
<1>5. BackendsAgree' BY <1>4 DEF BackendsAgree
<1>6. /\ Counted /\ Called("delete", [NoPost EXCEPT !.id = i], {}, t)
      /\ rows' = [b \in Backends |-> rows'[b]] /\ answer' = [b \in Backends |-> answer'[b]]
      /\ lawful' \in BOOLEAN /\ used' \subseteq Ids
  BY DEF Delete, StoredWell, TypeOK
<1> QED BY <1>1, <1>2, <1>3, <1>4, <1>5, <1>6, CallTyped

\* What "migrate" finds: the posts of one tenant, as its source gives them back.
LEMMA ReadIsPost ==
  ASSUME NEW b \in Backends, NEW p \in Post
  PROVE  AsRead(b, p) \in Post
<1>1. FaceRead(b, p.face) \in Faces BY FacesAssumption DEF Post
<1>2. p.created \in 0..MaxCalls BY DEF Post
<1>3. ToSecond(p.created) \in 0..MaxCalls BY <1>2, StoragesAssumption DEF ToSecond, Second
<1> QED BY <1>1, <1>2, <1>3 DEF AsRead, Post

LEMMA FoundIsSound ==
  ASSUME StoredWell, NEW from \in Backends,
         NEW found, found = {AsRead(from, p) : p \in {q \in rows[from] : q.tenant = Home}}
  PROVE  Sound("git", found) /\ \A p \in found : p.tenant = Home
<1> DEFINE S == {q \in rows[from] : q.tenant = Home}
<1>1. Sound(from, S) BY SmallerIsSound DEF StoredWell
<1>2. \A p \in S : /\ AsRead(from, p) \in Post
                  /\ AsRead(from, p).tenant = Home /\ AsRead(from, p).slug = p.slug
  <2>1. \A p \in S : AsRead(from, p) \in Post BY <1>1, ReadIsPost DEF Sound
  <2>2. \A p \in S : AsRead(from, p).tenant = p.tenant /\ AsRead(from, p).slug = p.slug
    BY DEF AsRead
  <2> QED BY <2>1, <2>2
<1>3. found = {AsRead(from, p) : p \in S} OBVIOUS
<1>4. IsFiniteSet(found)
  <2> DEFINE f == [p \in S |-> AsRead(from, p)]
  <2>1. f \in Surjection(S, found) BY <1>3 DEF Surjection
  <2> HIDE DEF f, S
  <2> QED BY <1>1, <2>1, FS_Surjection DEF Sound
<1>5. \A p, q \in S : p # q => p.slug # q.slug
  BY <1>1 DEF Sound, Keyed, SameSlug
<1> HIDE DEF S
<1>6. \A u, v \in found : u # v => u.slug # v.slug BY <1>2, <1>3, <1>5
<1>7. Keyed("git", found) BY <1>6 DEF Keyed, SameSlug, Sql
<1> QED BY <1>2, <1>3, <1>4, <1>7 DEF Sound

LEMMA StoredMigration ==
  ASSUME StoredWell,
         \/ \E from \in Backends, to \in Backends, o \in BOOLEAN : MigrateList(from, to, o)
         \/ MigrateCount
  PROVE  StoredWell'
<1>1. UNCHANGED <<rows, call, target, answer, calls, used, lawful>>
  BY DEF MigrateList, MigrateCount, Quiet
<1> DEFINE Migration == [pc : {"idle", "count", "load", "done", "refused"}, from : Backends,
                         to : Backends, overwrite : BOOLEAN, found : SUBSET Post, raced : BOOLEAN]
<1>2. mig' \in Migration /\ Sound("git", mig'.found) /\ \A p \in mig'.found : p.tenant = Home
  <2>1. ASSUME NEW from \in Backends, NEW to \in Backends, NEW o \in BOOLEAN,
               MigrateList(from, to, o)
        PROVE  /\ mig' \in Migration /\ Sound("git", mig'.found)
               /\ \A p \in mig'.found : p.tenant = Home
    <3> DEFINE found == {AsRead(from, p) : p \in {q \in rows[from] : q.tenant = Home}}
    <3>1. Sound("git", found) /\ \A p \in found : p.tenant = Home BY FoundIsSound
    <3>3. found \subseteq Post BY <3>1 DEF Sound
    <3>4. mig' = [pc |-> IF found = {} THEN "done" ELSE "count", from |-> from, to |-> to,
                  overwrite |-> o, found |-> found, raced |-> FALSE]
      BY <2>1 DEF MigrateList, Quiet
    <3> HIDE DEF found
    <3> QED BY <3>1, <3>3, <3>4
  <2>2. ASSUME MigrateCount
        PROVE  /\ mig' \in Migration /\ Sound("git", mig'.found)
               /\ \A p \in mig'.found : p.tenant = Home
    <3>1. mig' = [mig EXCEPT !.pc = IF MayLoad THEN "load" ELSE "refused", !.raced = FALSE]
      BY <2>2 DEF MigrateCount, Quiet
    <3>2. mig \in Migration BY DEF StoredWell, TypeOK
    <3> HIDE DEF MayLoad
    <3>3. mig' \in Migration /\ mig'.found = mig.found BY <3>1, <3>2
    <3> QED BY <3>3 DEF StoredWell
  <2> QED BY <2>1, <2>2
<1> QED BY <1>1, <1>2 DEF StoredWell, TypeOK, BackendsAgree, IdsUsed

LEMMA StoredLoad ==
  ASSUME StoredWell, MigrateLoad
  PROVE  StoredWell'
<1>1. /\ mig \in [pc : {"idle", "count", "load", "done", "refused"}, from : Backends,
                  to : Backends, overwrite : BOOLEAN, found : SUBSET Post, raced : BOOLEAN]
      /\ rows \in [Backends -> SUBSET Post] /\ answer \in [Backends -> Answers]
      /\ calls \in 0..MaxCalls /\ used \subseteq Ids /\ mig.to \in Backends
  BY DEF StoredWell, TypeOK
<1>2. PICK T \in ImportIn(mig.to, rows[mig.to], mig.found) :
        rows' = [rows EXCEPT ![mig.to] = T]
  BY DEF MigrateLoad
<1>3. Sound(mig.to, T) BY <1>1, <1>2, ImportIsSound DEF StoredWell
<1>4. \A b \in Backends : Sound(b, rows'[b]) BY <1>1, <1>2, <1>3 DEF StoredWell
<1>5. rows' \in [Backends -> SUBSET Post] BY <1>1, <1>2, <1>3 DEF Sound
<1>6. NoPost \in Asking BY StoragesAssumption DEF NoPost, Asking
<1>7. call' \in Call BY <1>1, <1>6, StoragesAssumption DEF MigrateLoad, Called, Call
<1>8. answer' \in [Backends -> Answers]
  BY <1>1 DEF MigrateLoad, ImportAnswer, Answers
<1>9. /\ mig' \in [pc : {"idle", "count", "load", "done", "refused"}, from : Backends,
                   to : Backends, overwrite : BOOLEAN, found : SUBSET Post, raced : BOOLEAN]
      /\ mig'.found = mig.found
  BY <1>1 DEF MigrateLoad
<1>10. /\ target' \subseteq Backends /\ calls' \in 0..MaxCalls /\ used' \subseteq Ids
       /\ lawful' = FALSE
  BY <1>1 DEF MigrateLoad
<1> QED BY <1>4, <1>5, <1>7, <1>8, <1>9, <1>10 DEF StoredWell, TypeOK, BackendsAgree

LEMMA StoredNext == StoredWell /\ [Next]_vars => StoredWell'
<1>1. ASSUME StoredWell, UNCHANGED vars PROVE StoredWell'
  BY <1>1 DEF vars, StoredWell, TypeOK, BackendsAgree, IdsUsed
<1>2. ASSUME StoredWell, Next PROVE StoredWell'
  BY <1>2, StoredCreate, StoredUpdate, StoredDelete, StoredMigration, StoredLoad DEF Next
<1> QED BY <1>1, <1>2

LEMMA StoredAlways == Spec => []StoredWell
BY StoredInit, StoredNext, PTL DEF Spec

\* Keys hold whatever is called, and a caller like PostService cannot tell the
\* three storages apart by what they store.
THEOREM StoragesHoldTheSame == Spec => []StoragesInv
<1>1. StoredWell => StoragesInv
  BY DEF StoredWell, StoragesInv, KeysHold, Sound, Keyed
<1> QED BY <1>1, StoredAlways, PTL

\* A call or an import for one tenant adds nothing to the others, and takes a post
\* from them only as TakenBy says.
LEMMA StepStaysInTenant ==
  ASSUME StoredWell, [Next]_vars, NEW b \in Backends,
         NEW q \in (rows[b] \ rows'[b]) \cup (rows'[b] \ rows[b]), q.tenant # call'.tenant
  PROVE  q \in rows[b] /\ TakenBy(b, q, call')
<1>1. ASSUME NEW p, Create(p) PROVE FALSE
  <2>1. rows'[b] = CreateIn(b, rows[b], p) /\ call'.tenant = p.tenant
    BY <1>1 DEF Create, Called
  <2> QED BY <2>1 DEF CreateIn
<1>2. ASSUME NEW p \in Copies \cup Ghosts, Update(p) PROVE q \in rows[b] /\ TakenBy(b, q, call')
  <2>1. /\ rows'[b] = UpdateIn(b, rows[b], p)
        /\ call'.tenant = p.tenant /\ call'.op = "update" /\ call'.post = p
    BY <1>2 DEF Update, Called
  <2>2. p \in Post BY UpdatesArePosts
  <2>3. Sound(b, rows[b]) BY DEF StoredWell
  <2>4. PICK u \in rows[b] : /\ Hit(b, rows[b], p) = {u}
                             /\ rows'[b] = (rows[b] \ {u}) \cup {Replaced(b, u, p)}
    BY <2>1, <2>2, <2>3, UpdateHitsOne
  <2>5. Replaced(b, u, p).tenant = p.tenant BY <2>2, <2>3, ReplacedIsIt DEF Sound
  <2>6. q = u BY <2>1, <2>4, <2>5
  <2>7. CASE b \in Sql BY <2>1, <2>4, <2>6, <2>7 DEF Hit
  <2>8. CASE b = "git" BY <2>1, <2>4, <2>6, <2>8 DEF Hit, Sql, TakenBy, SameSlug
  <2> QED BY <2>7, <2>8 DEF Backends, Sql
<1>3. ASSUME NEW t \in Tenants, NEW i \in Ids, Delete(t, i) PROVE FALSE
  <2>1. PICK D : D \in DeleteIn(b, rows[b], t, i) /\ rows'[b] = D.rows
    BY <1>3 DEF Delete
  <2>2. call'.tenant = t BY <1>3 DEF Delete, Called
  <2>3. rows'[b] \subseteq rows[b] /\ \A u \in rows[b] \ rows'[b] : u.tenant = t
    BY <2>1 DEF DeleteIn, Holders
  <2> QED BY <2>2, <2>3
<1>4. ASSUME MigrateLoad PROVE q \in rows[b] /\ TakenBy(b, q, call')
  <2>1. /\ call'.tenant = Home /\ call'.op = "import" /\ call'.posts = mig.found
        /\ rows \in [Backends -> SUBSET Post] /\ mig.to \in Backends
    BY <1>4 DEF MigrateLoad, Called, StoredWell, TypeOK
  <2>2. PICK T \in ImportIn(mig.to, rows[mig.to], mig.found) : rows' = [rows EXCEPT ![mig.to] = T]
    BY <1>4 DEF MigrateLoad
  <2>3. b = mig.to /\ rows'[b] = T BY <2>1, <2>2
  <2>4. Sound(b, rows[b]) /\ Sound("git", mig.found) BY DEF StoredWell
  <2>5. Only0(mig.found, rows[b], T) /\ (b \notin Sql => rows[b] \subseteq T)
    BY <2>2, <2>3, <2>4, ImportIsSound
  <2>6. q \in rows[b] \ T BY <2>1, <2>3, <2>5 DEF Only0, StoredWell
  <2>7. b # "git" BY <2>5, <2>6 DEF Sql
  <2> QED BY <2>1, <2>5, <2>6, <2>7 DEF TakenBy, Only0
<1>5. \/ \E p \in NewPosts : Create(p)
      \/ \E p \in Copies \cup Ghosts : Update(p)
      \/ \E t \in Tenants, i \in Ids : Delete(t, i)
      \/ MigrateLoad
  <2>1. rows' # rows OBVIOUS
  <2>2. ~MigrateCount /\ ~UNCHANGED vars BY <2>1 DEF MigrateCount, Quiet, vars
  <2>3. \A from, to \in Backends, o \in BOOLEAN : ~MigrateList(from, to, o)
    BY <2>1 DEF MigrateList, Quiet
  <2> QED BY <2>2, <2>3 DEF Next
<1> QED BY <1>1, <1>2, <1>3, <1>4, <1>5

\* What is called or migrated for one tenant leaves the posts of the others as they
\* are, but for the two ways that TakenBy names.
THEOREM TenantsApart == Spec => TenantsStayApart
<1>1. StoredWell /\ [Next]_vars =>
        [\A b \in Backends : \A q \in (rows[b] \ rows'[b]) \cup (rows'[b] \ rows[b]) :
           q.tenant # call'.tenant => q \in rows[b] /\ TakenBy(b, q, call')]_vars
  BY StepStaysInTenant
<1>2. QED BY <1>1, StoredAlways, PTL DEF Spec, TenantsStayApart

-------------------------------------------------------------------------------
(* Each storage keeps the contract.                                        *)

LEMMA HeardByAll ==
  ASSUME NEW b \in Backends, Counted, NEW op, NEW p, NEW t, Called(op, p, {}, t)
  PROVE  Heard(b)'.op = op /\ Heard(b)'.post = p /\ Heard(b)'.tenant = t
BY DEF Counted, Called, Heard

\* The tenants' places in a database are their own.
Apart == [t \in Tenants |-> t]

LEMMA Places0 ==
  ASSUME NEW p, NEW q, p.tenant \in Tenants, q.tenant \in Tenants
  PROVE  /\ SameSlug("git", p, q) <=> Dir[p.tenant] = Dir[q.tenant] /\ p.slug = q.slug
         /\ \A b \in Sql : SameSlug(b, p, q) <=> Apart[p.tenant] = Apart[q.tenant] /\ p.slug = q.slug
BY DEF SameSlug, Sql, Apart

LEMMA CreateKeepsContract ==
  ASSUME StoredWell, NEW p \in NewPosts, Create(p)
  PROVE  Git!Create /\ Sqlite!Create /\ Postgres!Create
<1>1. \A b \in Backends : /\ rows'[b] = CreateIn(b, rows[b], p)
                          /\ answer'[b] = CreateAnswer(b, rows[b], p)
                          /\ Heard(b)'.op = "create" /\ Heard(b)'.post = p
  BY HeardByAll DEF Create
<1>2. \A b \in Backends : \A q \in rows[b] : q.tenant \in Tenants
  BY DEF StoredWell, Sound, Post
<1>3. p.tenant \in Tenants BY DEF NewPosts
<1>4. Git!Create
  <2>1. Taken("git", rows["git"], p) <=> \E q \in rows["git"] : Git!InTheWay(p, q)
    BY <1>2, <1>3, Places0 DEF Taken, Git!InTheWay, Git!SameName, Backends, Sql
  <2> QED BY <1>1, <2>1 DEF Git!Create, Git!Refused, CreateIn, CreateAnswer, Backends, Sql
<1>5. Sqlite!Create
  <2>1. Taken("sqlite", rows["sqlite"], p) <=> \E q \in rows["sqlite"] : Sqlite!InTheWay(p, q)
    BY <1>2, <1>3, Places0
    DEF Taken, Sqlite!InTheWay, Sqlite!SameName, Sqlite!SamePost, Apart, Backends, Sql
  <2> QED BY <1>1, <2>1 DEF Sqlite!Create, Sqlite!Refused, CreateIn, CreateAnswer, Backends, Sql
<1>6. Postgres!Create
  <2>1. Taken("postgres", rows["postgres"], p)
          <=> \E q \in rows["postgres"] : Postgres!InTheWay(p, q)
    BY <1>2, <1>3, Places0
    DEF Taken, Postgres!InTheWay, Postgres!SameName, Postgres!SamePost, Apart, Backends, Sql
  <2> QED BY <1>1, <2>1
      DEF Postgres!Create, Postgres!Refused, CreateIn, CreateAnswer, Backends, Sql
<1> QED BY <1>4, <1>5, <1>6

\* The clauses of the contract on updates, of one storage.
Aimed(b, T, p) ==
  IF b \in Sql
  THEN {q \in {u \in T : p.id = u.id} : q.tenant = p.tenant /\ q.revision = p.revision - 1}
  ELSE {q \in T : SameSlug(b, p, q)}

UpdateFits(b, T, p, a, U) ==
  /\ a = IF Aimed(b, T, p) = {}
         THEN IF b \in Sql /\ {q \in T : p.id = q.id} # {} THEN "conflict" ELSE "notfound"
         ELSE IF b \in Sql /\ \E q \in T : SameSlug(b, p, q) /\ p.id # q.id THEN "error" ELSE "ok"
  /\ IF a = "ok"
     THEN \E q \in Aimed(b, T, p), new \in U :
            /\ new.id = p.id /\ new.tenant = p.tenant /\ new.slug = p.slug
            /\ new.revision = p.revision
            /\ U = (T \ {q}) \cup {new}
     ELSE U = T

LEMMA UpdateClauses ==
  ASSUME NEW b \in Backends, NEW T, Sound(b, T), NEW p \in Post
  PROVE  UpdateFits(b, T, p, UpdateAnswer(b, T, p), UpdateIn(b, T, p))
<1> DEFINE a == UpdateAnswer(b, T, p)
           U == UpdateIn(b, T, p)
<1>1. Aimed(b, T, p) = Hit(b, T, p) BY DEF Aimed, Hit, SameSlug
<1>2. CASE Hit(b, T, p) = {}
  <2>1. a = IF b \in Sql /\ {q \in T : p.id = q.id} # {} THEN "conflict" ELSE "notfound"
    BY <1>2 DEF UpdateAnswer, Clashes
  <2>2. U = T /\ a # "ok" BY <1>2, <2>1 DEF UpdateIn, Clashes
  <2> HIDE DEF a, U
  <2>3. UpdateFits(b, T, p, a, U) BY <1>1, <1>2, <2>1, <2>2 DEF UpdateFits
  <2> QED BY <2>3 DEF a, U
<1>3. ASSUME NEW q \in T, Hit(b, T, p) = {q}
      PROVE  UpdateFits(b, T, p, a, U)
  <2>1. Clashes(b, T, p) <=> b \in Sql /\ \E u \in T : SameSlug(b, p, u) /\ p.id # u.id
    <3>1. CASE b \in Sql
      <4>1. q.id = p.id BY <1>3, <3>1 DEF Hit
      <4>2. \A u \in T : u.id = q.id => u = q BY <3>1 DEF Sound, Keyed
      <4>3. \A u \in T : u # q <=> p.id # u.id BY <4>1, <4>2
      <4> QED BY <1>3, <3>1, <4>3 DEF Clashes
    <3>2. CASE b \notin Sql BY <3>2 DEF Clashes
    <3> QED BY <3>1, <3>2
  <2>2. CASE Clashes(b, T, p)
    <3>1. a = "error" /\ U = T BY <2>2 DEF UpdateIn, UpdateAnswer
    <3> HIDE DEF a, U
    <3> QED BY <1>1, <1>3, <2>1, <2>2, <3>1 DEF UpdateFits
  <2>3. CASE ~Clashes(b, T, p)
    <3> DEFINE new == Replaced(b, q, p)
    <3>1. a = "ok" /\ U = (T \ {q}) \cup {new} BY <1>3, <2>3 DEF UpdateIn, UpdateAnswer
    <3>2. /\ new.id = p.id /\ new.tenant = p.tenant /\ new.slug = p.slug
          /\ new.revision = p.revision
      BY ReplacedIsIt DEF Sound
    <3> HIDE DEF a, U, new
    <3>3. new \in U BY <3>1
    <3>4. \E v \in Aimed(b, T, p), n \in U :
            /\ n.id = p.id /\ n.tenant = p.tenant /\ n.slug = p.slug
            /\ n.revision = p.revision
            /\ U = (T \ {v}) \cup {n}
      BY <1>1, <1>3, <3>1, <3>2, <3>3
    <3> QED BY <1>1, <1>3, <2>1, <2>3, <3>1, <3>4 DEF UpdateFits
  <2> QED BY <2>2, <2>3
<1>4. Hit(b, T, p) = {} \/ \E q \in T : Hit(b, T, p) = {q}
  <2>1. \A u, v \in Hit(b, T, p) : u = v BY DEF Hit, Sound, Keyed, SameSlug
  <2>2. Hit(b, T, p) \subseteq T BY DEF Hit
  <2> QED BY <2>1, <2>2
<1> QED BY <1>2, <1>3, <1>4

LEMMA UpdateKeepsContract ==
  ASSUME StoredWell, NEW p \in Post, Update(p)
  PROVE  Git!Update /\ Sqlite!Update /\ Postgres!Update
<1>1. \A b \in Backends : Heard(b)'.op = "update" /\ Heard(b)'.post = p
  BY HeardByAll DEF Update
<1>2. \A b \in Backends : UpdateFits(b, rows[b], p, answer'[b], rows'[b])
  <2>1. \A b \in Backends : /\ rows'[b] = UpdateIn(b, rows[b], p)
                            /\ answer'[b] = UpdateAnswer(b, rows[b], p)
    BY DEF Update
  <2> QED BY <2>1, UpdateClauses DEF StoredWell
<1>3. p.tenant \in Tenants /\ \A b \in Backends : \A q \in rows[b] : q.tenant \in Tenants
  BY DEF StoredWell, Sound, Post
<1>4. Git!Update
  <2>1. \A q \in rows["git"] : Git!SameName(p, q) <=> SameSlug("git", p, q)
    BY <1>3, Places0 DEF Git!SameName, Backends
  <2>2. {q \in rows["git"] : Git!SameName(p, q)} = Aimed("git", rows["git"], p)
    BY <2>1 DEF Aimed, Sql
  <2>3. "git" \in Backends /\ "git" \notin Sql BY DEF Backends, Sql
  <2> QED BY <1>1, <1>2, <2>2, <2>3 DEF Git!Update, Git!SamePost, UpdateFits
<1>5. Sqlite!Update
  <2>1. \A q \in rows["sqlite"] : Sqlite!SameName(p, q) <=> SameSlug("sqlite", p, q)
    BY <1>3, Places0 DEF Sqlite!SameName, Apart, Backends, Sql
  <2>2. "sqlite" \in Backends /\ "sqlite" \in Sql BY DEF Backends, Sql
  <2> QED BY <1>1, <1>2, <2>1, <2>2 DEF Sqlite!Update, Sqlite!SamePost, UpdateFits, Aimed
<1>6. Postgres!Update
  <2>1. \A q \in rows["postgres"] : Postgres!SameName(p, q) <=> SameSlug("postgres", p, q)
    BY <1>3, Places0 DEF Postgres!SameName, Apart, Backends, Sql
  <2>2. "postgres" \in Backends /\ "postgres" \in Sql BY DEF Backends, Sql
  <2> QED BY <1>1, <1>2, <2>1, <2>2 DEF Postgres!Update, Postgres!SamePost, UpdateFits, Aimed
<1> QED BY <1>4, <1>5, <1>6

\* What is deleted, or not, in one storage.
Own0(T, t, i)       == {q \in T : q.id = i /\ q.tenant = t}
Beside(b, T, t, i)  == {q \in T : q.id = i /\ q.tenant # t /\ b = "git" /\ Dir[q.tenant] = Dir[t]}

DeleteFits(b, T, t, i, a, U) ==
  \/ Own0(T, t, i) # {} /\ a = "ok" /\ \E q \in Own0(T, t, i) : U = T \ {q}
  \/ /\ Own0(T, t, i) = {} \/ Beside(b, T, t, i) # {}
     /\ a = IF b = "sqlite" THEN "ok" ELSE "notfound"
     /\ U = T

LEMMA DeleteClauses ==
  ASSUME NEW b \in Backends, NEW T, NEW t, NEW i, NEW D \in DeleteIn(b, T, t, i)
  PROVE  DeleteFits(b, T, t, i, D.answer, D.rows)
<1>1. CASE Holders(b, T, t, i) = {}
  <2>1. Own0(T, t, i) = {} BY <1>1 DEF Holders, Own0
  <2>2. D = [rows |-> T, answer |-> IF b = "sqlite" THEN "ok" ELSE "notfound"]
    BY <1>1 DEF DeleteIn
  <2> QED BY <2>1, <2>2 DEF DeleteFits
<1>2. CASE Holders(b, T, t, i) # {}
  <2>1. PICK q \in Holders(b, T, t, i) :
          D = IF q.tenant = t THEN [rows |-> T \ {q}, answer |-> "ok"]
              ELSE [rows |-> T, answer |-> "notfound"]
    BY <1>2 DEF DeleteIn
  <2>2. CASE q.tenant = t
    <3>1. q \in Own0(T, t, i) BY <2>2 DEF Holders, Own0
    <3> QED BY <2>1, <2>2, <3>1 DEF DeleteFits
  <2>3. CASE q.tenant # t
    <3>1. q \in Beside(b, T, t, i) /\ b # "sqlite" BY <2>3 DEF Holders, Beside
    <3> QED BY <2>1, <2>3, <3>1 DEF DeleteFits
  <2> QED BY <2>2, <2>3
<1> QED BY <1>1, <1>2

LEMMA DeleteKeepsContract ==
  ASSUME StoredWell, NEW t \in Tenants, NEW i \in Ids, Delete(t, i)
  PROVE  Git!Delete /\ Sqlite!Delete /\ Postgres!Delete
<1>1. \A b \in Backends : /\ Heard(b)'.op = "delete" /\ Heard(b)'.tenant = t
                          /\ Heard(b)'.post = [NoPost EXCEPT !.id = i]
  BY HeardByAll DEF Delete
<1>2. [NoPost EXCEPT !.id = i].id = i BY DEF NoPost
<1>3. \A b \in Backends : Heard(b)'.post.id = i BY <1>1, <1>2
<1>4. \A b \in Backends : DeleteFits(b, rows[b], t, i, answer'[b], rows'[b])
  <2>1. PICK D : /\ \A b \in Backends : D[b] \in DeleteIn(b, rows[b], t, i)
                 /\ rows' = [b \in Backends |-> D[b].rows]
                 /\ answer' = [b \in Backends |-> D[b].answer]
    BY DEF Delete
  <2>2. \A b \in Backends : rows'[b] = D[b].rows /\ answer'[b] = D[b].answer BY <2>1
  <2> QED BY <2>1, <2>2, DeleteClauses
<1>5. Git!Delete
  <2>1. "git" \in Backends BY DEF Backends
  <2> QED BY <1>1, <1>3, <1>4, <2>1 DEF Git!Delete, DeleteFits, Own0, Beside
<1>6. Sqlite!Delete
  <2>1. "sqlite" \in Backends BY DEF Backends
  <2> QED BY <1>1, <1>3, <1>4, <2>1 DEF Sqlite!Delete, DeleteFits, Own0, Beside
<1>7. Postgres!Delete
  <2>1. "postgres" \in Backends BY DEF Backends
  <2> QED BY <1>1, <1>3, <1>4, <2>1 DEF Postgres!Delete, DeleteFits, Own0, Beside
<1> QED BY <1>5, <1>6, <1>7

\* The storage that is migrated into hears of the import, the others do not.
LEMMA LoadKeepsContract ==
  ASSUME StoredWell, MigrateLoad
  PROVE  /\ Git!Import \/ Git!Elsewhere
         /\ Sqlite!Import \/ Sqlite!Elsewhere
         /\ Postgres!Import \/ Postgres!Elsewhere
<1>1. /\ mig.to \in Backends /\ rows \in [Backends -> SUBSET Post]
      /\ answer \in [Backends -> Answers]
  BY DEF StoredWell, TypeOK
<1>a. PICK to \in Backends : to = mig.to BY <1>1
<1>b. PICK ps : ps = mig.found OBVIOUS
<1>3. PICK T \in ImportIn(to, rows[to], ps) : rows' = [rows EXCEPT ![to] = T]
  BY <1>a, <1>b DEF MigrateLoad
<1>4. /\ rows'[to] = T /\ answer'[to] = ImportAnswer(to, rows[to], ps)
      /\ Heard(to)'.op = "import" /\ Heard(to)'.posts = ps
  BY <1>1, <1>a, <1>b, <1>3 DEF MigrateLoad, Called, Heard
<1>5. \A b \in Backends : b # to => Heard(b)'.op = "elsewhere" /\ rows'[b] = rows[b]
  BY <1>1, <1>a, <1>b, <1>3 DEF MigrateLoad, Called, Heard
<1>6. Sound(to, rows[to]) /\ Sound("git", ps) /\ ps \subseteq Post /\ IsFiniteSet(ps)
  BY <1>a, <1>b DEF StoredWell, Sound
<1>7. answer'[to] = "ok" => Arrived(ps, rows'[to])
  <2>1. CASE to \in Sql
    BY <1>3, <1>4, <1>6, <2>1, UpsertedIsSound DEF ImportIn, Imported, ImportAnswer
  <2>2. CASE to \notin Sql
    BY <1>3, <1>4, <2>2 DEF ImportIn, ImportAnswer, Arrived
  <2> QED BY <2>1, <2>2
<1>8. answer'[to] # "ok" /\ to \in Sql => rows'[to] = rows[to]
  BY <1>3, <1>4 DEF ImportIn, Imported, ImportAnswer
<1>c. Only0(ps, rows[to], rows'[to]) /\ (to \notin Sql => rows[to] \subseteq rows'[to])
  BY <1>3, <1>4, <1>6, ImportIsSound
<1>d. /\ rows'[to] \ rows[to] \subseteq ps
      /\ \A q \in rows[to] \ rows'[to] : to \in Sql /\ \E p \in ps : p.id = q.id
      /\ answer'[to] \in {"ok", IF to \in Sql THEN "error" ELSE "exists"}
  BY <1>4, <1>c DEF Only0, ImportAnswer
<1>9. Git!Import \/ Git!Elsewhere
  <2>1. CASE to = "git"
    BY <2>1, <1>4, <1>7, <1>d DEF Git!Import, Git!SamePost, Git!Refused, Arrived, Sql
  <2>2. CASE to # "git" BY <2>2, <1>5 DEF Git!Elsewhere, Backends
  <2> QED BY <2>1, <2>2
<1>10. Sqlite!Import \/ Sqlite!Elsewhere
  <2>1. CASE to = "sqlite"
    BY <2>1, <1>4, <1>7, <1>8, <1>d
    DEF Sqlite!Import, Sqlite!SamePost, Sqlite!Refused, Arrived, Sql
  <2>2. CASE to # "sqlite" BY <2>2, <1>5 DEF Sqlite!Elsewhere, Backends
  <2> QED BY <2>1, <2>2
<1>11. Postgres!Import \/ Postgres!Elsewhere
  <2>1. CASE to = "postgres"
    BY <2>1, <1>4, <1>7, <1>8, <1>d
    DEF Postgres!Import, Postgres!SamePost, Postgres!Refused, Arrived, Sql
  <2>2. CASE to # "postgres" BY <2>2, <1>5 DEF Postgres!Elsewhere, Backends
  <2> QED BY <2>1, <2>2
<1> QED BY <1>9, <1>10, <1>11

\* What no storage notices.
Unheard == \A b \in Backends : UNCHANGED <<rows[b], Heard(b), answer[b]>>

LEMMA StepKeepsContract ==
  ASSUME StoredWell, [Next]_vars
  PROVE  Unheard \/ (Git!Next /\ Sqlite!Next /\ Postgres!Next)
<1>1. ASSUME NEW p \in NewPosts, Create(p) PROVE Git!Next /\ Sqlite!Next /\ Postgres!Next
  BY <1>1, CreateKeepsContract DEF Git!Next, Sqlite!Next, Postgres!Next
<1>2. ASSUME NEW p \in Copies \cup Ghosts, Update(p)
      PROVE  Git!Next /\ Sqlite!Next /\ Postgres!Next
  BY <1>2, UpdatesArePosts, UpdateKeepsContract DEF Git!Next, Sqlite!Next, Postgres!Next
<1>3. ASSUME NEW t \in Tenants, NEW i \in Ids, Delete(t, i)
      PROVE  Git!Next /\ Sqlite!Next /\ Postgres!Next
  BY <1>3, DeleteKeepsContract DEF Git!Next, Sqlite!Next, Postgres!Next
<1>4. ASSUME MigrateLoad PROVE Git!Next /\ Sqlite!Next /\ Postgres!Next
  BY <1>4, LoadKeepsContract DEF Git!Next, Sqlite!Next, Postgres!Next
<1>5. ASSUME \/ MigrateCount
             \/ \E from \in Backends, to \in Backends, o \in BOOLEAN : MigrateList(from, to, o)
      PROVE  Unheard
  BY <1>5 DEF MigrateCount, MigrateList, Quiet, Unheard, Heard
<1>6. ASSUME UNCHANGED vars PROVE Unheard
  BY <1>6 DEF vars, Unheard, Heard
<1> QED BY <1>1, <1>2, <1>3, <1>4, <1>5, <1>6 DEF Next

\* The files under git and the two databases implement the contract that the
\* test suite of the repositories states.
THEOREM StoragesImplementContract == Spec => StoragesKeepContract
<1>1. Init => Git!Init /\ Sqlite!Init /\ Postgres!Init
  BY DEF Init, Git!Init, Sqlite!Init, Postgres!Init, Backends
<1>2. StoredWell /\ [Next]_vars =>
        /\ [Git!Next]_<<rows["git"], Heard("git"), answer["git"]>>
        /\ [Sqlite!Next]_<<rows["sqlite"], Heard("sqlite"), answer["sqlite"]>>
        /\ [Postgres!Next]_<<rows["postgres"], Heard("postgres"), answer["postgres"]>>
  BY StepKeepsContract DEF Unheard, Backends
<1> QED BY <1>1, <1>2, StoredAlways, PTL
     DEF Spec, StoragesKeepContract, Git!Spec, Sqlite!Spec, Postgres!Spec

-------------------------------------------------------------------------------
(* The sorts by hand: a pass and a sort are loops, and so are folds.       *)

\* What holds of 0, and of each number up to n if of the one before, holds of all.
LEMMA CountInduction ==
  ASSUME NEW n \in Nat, NEW G, 0 \in G, \A k \in 1..n : k - 1 \in G => k \in G
  PROVE  \A k \in 0..n : k \in G
<1> DEFINE Bad == (0..n) \ G
           R   == OpToRel(<, Nat)
<1>1. IsWellFoundedOn(R, Nat) BY NatLessThanWellFounded, Zenon
<1>2. \A i, j \in Nat : i < j => <<i, j>> \in R BY DEF OpToRel
<1>3. Bad \subseteq Nat OBVIOUS
<1> HIDE DEF R
<1>4. SUFFICES ASSUME Bad # {} PROVE FALSE OBVIOUS
<1>5. PICK k \in Bad : \A i \in Bad : <<i, k>> \notin R
  <2> HIDE DEF Bad
  <2>1. \E x \in Bad : \A y \in Bad : ~(<<y, x>> \in R)
    BY <1>1, <1>3, <1>4, WFMin, Zenon
  <2> QED BY <2>1
<1>6. k \in 1..n /\ k - 1 \in 0..n /\ k - 1 \in Nat /\ k \in Nat /\ k - 1 < k OBVIOUS
<1>7. k - 1 \notin Bad BY <1>2, <1>5, <1>6
<1> QED BY <1>6, <1>7

\* The orders that lists are sorted by, and what their sorts ask of two neighbours p, q
\* before they leave them as they are.
Orders == [by : {"priority", "status", "deadline", "date"}, desc : BOOLEAN]
Elem(order) == IF order.by = "date" THEN Int ELSE Post

Kept(order, p, q) ==
  IF order.by = "priority" THEN Priority(p) <= Priority(q)
  ELSE IF order.by = "date" THEN p <= q
  ELSE IF order.desc THEN ~Less(p, q, order.by) ELSE Less(p, q, order.by)

\* The passes of the three sorts, each with its own comparison.
DatePass(t, m) == Pass(t, m, LAMBDA x, y : x <= y)
NextPass(t, m) == Pass(t, m, LAMBDA p, q : Priority(p) <= Priority(q))
ApiPass(by, desc, t, m) ==
  Pass(t, m, LAMBDA p, q : IF desc THEN ~Less(p, q, by) ELSE Less(p, q, by))

OnePass(order, t, m) ==
  IF order.by = "priority" THEN NextPass(t, m)
  ELSE IF order.by = "date" THEN DatePass(t, m) ELSE ApiPass(order.by, order.desc, t, m)

Exchanged(order, t, j) == IF Kept(order, t[j], t[j + 1]) THEN t ELSE Swapped(t, j, j + 1)

Selected(out, p) == IF Candidate(p) THEN Append(out, p) ELSE out

\* The rounds of the plans: a post is planned or not, a date placed before a later
\* one, a place filled, a day added to the page.
Chosen(days, out, p) == IF InPlan(p, days) THEN Append(out, p) ELSE out
Displaced(i, t, j)   == IF t[j] < t[i] THEN Swapped(t, i, j) ELSE t
WithDay(o, out, day) == out \o Group(o.d, o.z, day)

\* One round of each of the loops: over neighbours, over passes, over posts, and
\* those of the plans.
Turn(loop, order, out, x) ==
  CASE loop = "pass"   -> Exchanged(order, out, x)
    [] loop = "sort"   -> OnePass(order, out, x)
    [] loop = "select" -> Selected(out, x)
    [] loop = "plan"   -> Chosen(order, out, x)
    [] loop = "place"  -> Displaced(order, out, x)
    [] loop = "fill"   -> Placed(out, x)
    [] loop = "page"   -> WithDay(order, out, x)

\* g is what a loop over the sequence s makes of each set of its places.
LoopAt(loop, order, start, s, g, u) ==
  IF u = {} THEN start ELSE Turn(loop, order, g[u \ {Max(u)}], s[Max(u)])
IsLoop(loop, order, start, s, g, S) ==
  g = [u \in SUBSET S |-> LoopAt(loop, order, start, s, g, u)]

LEMMA LargestOf ==
  ASSUME NEW n \in Nat
  PROVE  \A s \in SUBSET (1..n) : n \in s => Max(s) = n
<1> TAKE s \in SUBSET (1..n)
<1> HAVE n \in s
<1> DEFINE m == Max(s)
<1>1. \A x \in s : x \in Int /\ x <= n OBVIOUS
<1>2. m \in s /\ \A y \in s : m >= y BY <1>1 DEF Max
<1> HIDE DEF m
<1>3. m = n BY <1>1, <1>2
<1> QED BY <1>3 DEF m

\* There is such a function: that of n places makes that of n + 1.
LEMMA LoopExists ==
  ASSUME NEW loop, NEW order, NEW start, NEW s, NEW n \in Nat
  PROVE  \E g : IsLoop(loop, order, start, s, g, 1..n)
<1> DEFINE G == {k \in 0..n : \E g : IsLoop(loop, order, start, s, g, 1..k)}
<1>1. 0 \in G
  <2> DEFINE g == [u \in SUBSET (1..0) |-> start]
  <2>1. SUBSET (1..0) = {{}} OBVIOUS
  <2>2. IsLoop(loop, order, start, s, g, 1..0) BY <2>1 DEF IsLoop, LoopAt
  <2> QED BY <2>2
<1>2. ASSUME NEW k \in 1..n, k - 1 \in G PROVE k \in G
  <2>1. PICK h : IsLoop(loop, order, start, s, h, 1..(k - 1)) BY <1>2
  <2> DEFINE g == [u \in SUBSET (1..k) |->
                     IF k \in u THEN Turn(loop, order, h[u \ {k}], s[k]) ELSE h[u]]
  <2>2. ASSUME NEW u \in SUBSET (1..k)
        PROVE  g[u] = IF u = {} THEN start ELSE Turn(loop, order, g[u \ {Max(u)}], s[Max(u)])
    <3>1. CASE k \in u
      <4>1. Max(u) = k BY <3>1, LargestOf
      <4>2. u \ {k} \in SUBSET (1..k) /\ k \notin u \ {k} OBVIOUS
      <4>3. g[u \ {k}] = h[u \ {k}] BY <4>2
      <4>4. g[u] = Turn(loop, order, h[u \ {k}], s[k]) BY <3>1
      <4> HIDE DEF g
      <4> QED BY <3>1, <4>1, <4>3, <4>4
    <3>2. CASE k \notin u
      <4>1. u \in SUBSET (1..(k - 1)) BY <3>2
      <4>2. k \notin u \ {Max(u)} /\ u \ {Max(u)} \in SUBSET (1..k) BY <3>2
      <4>3. g[u] = h[u] /\ g[u \ {Max(u)}] = h[u \ {Max(u)}] BY <3>2, <4>2
      <4>4. h[u] = IF u = {} THEN start ELSE Turn(loop, order, h[u \ {Max(u)}], s[Max(u)])
        BY <2>1, <4>1 DEF IsLoop, LoopAt
      <4> HIDE DEF g
      <4> QED BY <4>3, <4>4
    <3> QED BY <3>1, <3>2
  <2>3. g = [u \in SUBSET (1..k) |-> g[u]] OBVIOUS
  <2> HIDE DEF g
  <2>4. IsLoop(loop, order, start, s, g, 1..k) BY <2>2, <2>3 DEF IsLoop, LoopAt
  <2> QED BY <2>4
<1>3. n \in 0..n OBVIOUS
<1> HIDE DEF G
<1>4. n \in G BY <1>1, <1>2, <1>3, CountInduction
<1> QED BY <1>4 DEF G

\* r is what a loop makes of the first n entries of s, round by round.
Rounds(loop, order, start, s, n, r) ==
  \E f : /\ f[0] = start
         /\ \A k \in 1..n : f[k] = Turn(loop, order, f[k - 1], s[k])
         /\ f[n] = r

LEMMA LoopInRounds ==
  ASSUME NEW loop, NEW order, NEW start, NEW s, NEW n \in Nat, NEW g,
         IsLoop(loop, order, start, s, g, 1..n)
  PROVE  Rounds(loop, order, start, s, n, g[1..n])
<1> DEFINE f == [k \in 0..n |-> g[1..k]]
<1>1. f[0] = start
  <2>1. 1..0 = {} /\ 1..0 \in SUBSET (1..n) OBVIOUS
  <2>2. g[1..0] = start BY <2>1 DEF IsLoop, LoopAt
  <2> QED BY <2>2
<1>2. ASSUME NEW k \in 1..n PROVE f[k] = Turn(loop, order, f[k - 1], s[k])
  <2>1. k \in Nat /\ k >= 1 /\ k <= n OBVIOUS
  <2>2. k \in 1..k /\ 1..k \in SUBSET (1..k) /\ 1..k \in SUBSET (1..n) BY <2>1
  <2>3. Max(1..k) = k BY <2>1, <2>2, LargestOf
  <2>4. (1..k) \ {k} = 1..(k - 1) BY <2>1
  <2>5. g[1..k] = Turn(loop, order, g[1..(k - 1)], s[k]) BY <2>2, <2>3, <2>4 DEF IsLoop, LoopAt
  <2>6. k \in 0..n /\ k - 1 \in 0..n BY <2>1
  <2> QED BY <2>5, <2>6
<1>3. f[n] = g[1..n] OBVIOUS
<1> HIDE DEF f
<1> QED BY <1>1, <1>2, <1>3 DEF Rounds

LEMMA Turns ==
  ASSUME NEW order, NEW out, NEW x
  PROVE  /\ Turn("pass", order, out, x) = Exchanged(order, out, x)
         /\ Turn("sort", order, out, x) = OnePass(order, out, x)
         /\ Turn("select", order, out, x) = Selected(out, x)
<1>1. Turn("pass", order, out, x) = Exchanged(order, out, x) BY DEF Turn
<1>2. Turn("sort", order, out, x) = OnePass(order, out, x) BY DEF Turn
<1>3. Turn("select", order, out, x) = Selected(out, x) BY DEF Turn
<1> QED BY <1>1, <1>2, <1>3

LEMMA OtherTurns ==
  ASSUME NEW order, NEW out, NEW x
  PROVE  /\ Turn("plan", order, out, x) = Chosen(order, out, x)
         /\ Turn("place", order, out, x) = Displaced(order, out, x)
         /\ Turn("fill", order, out, x) = Placed(out, x)
         /\ Turn("page", order, out, x) = WithDay(order, out, x)
<1>1. Turn("plan", order, out, x) = Chosen(order, out, x) BY DEF Turn
<1>2. Turn("place", order, out, x) = Displaced(order, out, x) BY DEF Turn
<1>3. Turn("fill", order, out, x) = Placed(out, x) BY DEF Turn
<1>4. Turn("page", order, out, x) = WithDay(order, out, x) BY DEF Turn
<1> QED BY <1>1, <1>2, <1>3, <1>4

\* The same of each loop as its fold says it.
Places(m) == [j \in 1..m |-> j]

NextPassAt(t, m, g, u) ==
  IF u = {} THEN t
  ELSE IF Priority(g[u \ {Max(u)}][Places(m)[Max(u)]])
            <= Priority(g[u \ {Max(u)}][Places(m)[Max(u)] + 1])
       THEN g[u \ {Max(u)}]
       ELSE Swapped(g[u \ {Max(u)}], Places(m)[Max(u)], Places(m)[Max(u)] + 1)
IsNextPass(t, m, g) == g = [u \in SUBSET DOMAIN Places(m) |-> NextPassAt(t, m, g, u)]

DatePassAt(t, m, g, u) ==
  IF u = {} THEN t
  ELSE IF g[u \ {Max(u)}][Places(m)[Max(u)]] <= g[u \ {Max(u)}][Places(m)[Max(u)] + 1]
       THEN g[u \ {Max(u)}]
       ELSE Swapped(g[u \ {Max(u)}], Places(m)[Max(u)], Places(m)[Max(u)] + 1)
IsDatePass(t, m, g) == g = [u \in SUBSET DOMAIN Places(m) |-> DatePassAt(t, m, g, u)]

ApiPassAt(by, desc, t, m, g, u) ==
  IF u = {} THEN t
  ELSE IF (IF desc THEN ~Less(g[u \ {Max(u)}][Places(m)[Max(u)]],
                              g[u \ {Max(u)}][Places(m)[Max(u)] + 1], by)
           ELSE Less(g[u \ {Max(u)}][Places(m)[Max(u)]],
                     g[u \ {Max(u)}][Places(m)[Max(u)] + 1], by))
       THEN g[u \ {Max(u)}]
       ELSE Swapped(g[u \ {Max(u)}], Places(m)[Max(u)], Places(m)[Max(u)] + 1)
IsApiPass(by, desc, t, m, g) == g = [u \in SUBSET DOMAIN Places(m) |-> ApiPassAt(by, desc, t, m, g, u)]

LEMMA PassesAreFolds ==
  ASSUME NEW t, NEW m, NEW by, NEW desc
  PROVE  /\ NextPass(t, m) = (CHOOSE g : IsNextPass(t, m, g))[DOMAIN Places(m)]
         /\ DatePass(t, m) = (CHOOSE g : IsDatePass(t, m, g))[DOMAIN Places(m)]
         /\ ApiPass(by, desc, t, m) = (CHOOSE g : IsApiPass(by, desc, t, m, g))[DOMAIN Places(m)]
<1>1. NextPass(t, m) = (CHOOSE g : IsNextPass(t, m, g))[DOMAIN Places(m)]
  BY DEF NextPass, Pass, FoldLeft, MapThenFoldSet, IsNextPass, NextPassAt, Places
<1>2. ApiPass(by, desc, t, m) = (CHOOSE g : IsApiPass(by, desc, t, m, g))[DOMAIN Places(m)]
  BY DEF ApiPass, Pass, FoldLeft, MapThenFoldSet, IsApiPass, ApiPassAt, Places
<1>3. DatePass(t, m) = (CHOOSE g : IsDatePass(t, m, g))[DOMAIN Places(m)]
  BY DEF DatePass, Pass, FoldLeft, MapThenFoldSet, IsDatePass, DatePassAt, Places
<1> QED BY <1>1, <1>2, <1>3

LEMMA PassInRounds ==
  ASSUME NEW order \in Orders, NEW t, NEW m \in Nat
  PROVE  Rounds("pass", order, t, Places(m), m, OnePass(order, t, m))
<1>1. DOMAIN Places(m) = 1..m BY DEF Places
<1>2. PICK g : IsLoop("pass", order, t, Places(m), g, 1..m) /\ OnePass(order, t, m) = g[1..m]
  <2>1. \E g : IsLoop("pass", order, t, Places(m), g, 1..m) BY LoopExists
  <2>2. CASE order.by = "priority"
    <3>0. \A g, u : LoopAt("pass", order, t, Places(m), g, u) = NextPassAt(t, m, g, u)
      BY <2>2, Turns DEF LoopAt, NextPassAt, Exchanged, Kept
    <3>1. \A g : IsLoop("pass", order, t, Places(m), g, 1..m) <=> IsNextPass(t, m, g)
      BY <1>1, <3>0 DEF IsLoop, IsNextPass
    <3> DEFINE g == CHOOSE h : IsNextPass(t, m, h)
    <3>2. IsNextPass(t, m, g) BY <2>1, <3>1
    <3>3. OnePass(order, t, m) = g[1..m] BY <1>1, <2>2, PassesAreFolds DEF OnePass
    <3> HIDE DEF g
    <3> QED BY <3>1, <3>2, <3>3
  <2>3. CASE order.by \notin {"priority", "date"}
    <3> DEFINE by == order.by
               desc == order.desc
    <3>0. \A g, u : LoopAt("pass", order, t, Places(m), g, u) = ApiPassAt(by, desc, t, m, g, u)
      BY <2>3, Turns DEF LoopAt, ApiPassAt, Exchanged, Kept
    <3>1. \A g : IsLoop("pass", order, t, Places(m), g, 1..m) <=> IsApiPass(by, desc, t, m, g)
      BY <1>1, <3>0 DEF IsLoop, IsApiPass
    <3> DEFINE g == CHOOSE h : IsApiPass(by, desc, t, m, h)
    <3>2. IsApiPass(by, desc, t, m, g) BY <2>1, <3>1
    <3>3. OnePass(order, t, m) = g[1..m] BY <1>1, <2>3, PassesAreFolds, ZenonT(40) DEF OnePass
    <3> HIDE DEF g
    <3> QED BY <3>1, <3>2, <3>3
  <2>4. CASE order.by = "date"
    <3>0. \A g, u : LoopAt("pass", order, t, Places(m), g, u) = DatePassAt(t, m, g, u)
      BY <2>4, Turns DEF LoopAt, DatePassAt, Exchanged, Kept
    <3>1. \A g : IsLoop("pass", order, t, Places(m), g, 1..m) <=> IsDatePass(t, m, g)
      BY <1>1, <3>0 DEF IsLoop, IsDatePass
    <3> DEFINE g == CHOOSE h : IsDatePass(t, m, h)
    <3>2. IsDatePass(t, m, g) BY <2>1, <3>1
    <3>3. OnePass(order, t, m) = g[1..m] BY <1>1, <2>4, PassesAreFolds DEF OnePass
    <3> HIDE DEF g
    <3> QED BY <3>1, <3>2, <3>3
  <2> QED BY <2>2, <2>3, <2>4
<1> QED BY <1>2, LoopInRounds

\* The sorts: as many passes as ms has entries.
DateSort(s, ms) == Passes(s, ms, LAMBDA x, y : x <= y)
NextSort(s, ms) == Passes(s, ms, LAMBDA p, q : Priority(p) <= Priority(q))
ApiSort(by, desc, s, ms) ==
  Passes(s, ms, LAMBDA p, q : IF desc THEN ~Less(p, q, by) ELSE Less(p, q, by))

Sort(order, s, ms) ==
  IF order.by = "priority" THEN NextSort(s, ms)
  ELSE IF order.by = "date" THEN DateSort(s, ms) ELSE ApiSort(order.by, order.desc, s, ms)

NextSortAt(s, ms, g, u) ==
  IF u = {} THEN s ELSE NextPass(g[u \ {Max(u)}], ms[Max(u)])
IsNextSort(s, ms, g) == g = [u \in SUBSET DOMAIN ms |-> NextSortAt(s, ms, g, u)]

DateSortAt(s, ms, g, u) ==
  IF u = {} THEN s ELSE DatePass(g[u \ {Max(u)}], ms[Max(u)])
IsDateSort(s, ms, g) == g = [u \in SUBSET DOMAIN ms |-> DateSortAt(s, ms, g, u)]

ApiSortAt(by, desc, s, ms, g, u) ==
  IF u = {} THEN s ELSE ApiPass(by, desc, g[u \ {Max(u)}], ms[Max(u)])
IsApiSort(by, desc, s, ms, g) == g = [u \in SUBSET DOMAIN ms |-> ApiSortAt(by, desc, s, ms, g, u)]

LEMMA SortsAreFolds ==
  ASSUME NEW s, NEW ms, NEW by, NEW desc
  PROVE  /\ NextSort(s, ms) = (CHOOSE g : IsNextSort(s, ms, g))[DOMAIN ms]
         /\ DateSort(s, ms) = (CHOOSE g : IsDateSort(s, ms, g))[DOMAIN ms]
         /\ ApiSort(by, desc, s, ms) = (CHOOSE g : IsApiSort(by, desc, s, ms, g))[DOMAIN ms]
<1>1. NextSort(s, ms) = (CHOOSE g : IsNextSort(s, ms, g))[DOMAIN ms]
  BY DEF NextSort, Passes, Pass, FoldLeft, MapThenFoldSet, IsNextSort, NextSortAt, NextPass
<1>2. ApiSort(by, desc, s, ms) = (CHOOSE g : IsApiSort(by, desc, s, ms, g))[DOMAIN ms]
  BY DEF ApiSort, Passes, Pass, FoldLeft, MapThenFoldSet, IsApiSort, ApiSortAt, ApiPass
<1>3. DateSort(s, ms) = (CHOOSE g : IsDateSort(s, ms, g))[DOMAIN ms]
  BY DEF DateSort, Passes, Pass, FoldLeft, MapThenFoldSet, IsDateSort, DateSortAt, DatePass
<1> QED BY <1>1, <1>2, <1>3

LEMMA SortInRounds ==
  ASSUME NEW order \in Orders, NEW s, NEW ms, NEW n \in Nat, DOMAIN ms = 1..n
  PROVE  Rounds("sort", order, s, ms, n, Sort(order, s, ms))
<1>1. PICK g : IsLoop("sort", order, s, ms, g, 1..n) /\ Sort(order, s, ms) = g[1..n]
  <2>1. \E g : IsLoop("sort", order, s, ms, g, 1..n) BY LoopExists
  <2>2. CASE order.by = "priority"
    <3>0. \A g, u : LoopAt("sort", order, s, ms, g, u) = NextSortAt(s, ms, g, u)
      BY <2>2, Turns DEF LoopAt, NextSortAt, OnePass
    <3>1. \A g : IsLoop("sort", order, s, ms, g, 1..n) <=> IsNextSort(s, ms, g)
      BY <3>0 DEF IsLoop, IsNextSort
    <3> DEFINE g == CHOOSE h : IsNextSort(s, ms, h)
    <3>2. IsNextSort(s, ms, g) BY <2>1, <3>1
    <3>3. Sort(order, s, ms) = g[1..n] BY <2>2, SortsAreFolds DEF Sort
    <3> HIDE DEF g
    <3> QED BY <3>1, <3>2, <3>3
  <2>3. CASE order.by \notin {"priority", "date"}
    <3> DEFINE by == order.by
               desc == order.desc
    <3>0. \A g, u : LoopAt("sort", order, s, ms, g, u) = ApiSortAt(by, desc, s, ms, g, u)
      BY <2>3, Turns DEF LoopAt, ApiSortAt, OnePass
    <3>1. \A g : IsLoop("sort", order, s, ms, g, 1..n) <=> IsApiSort(by, desc, s, ms, g)
      BY <3>0 DEF IsLoop, IsApiSort
    <3> DEFINE g == CHOOSE h : IsApiSort(by, desc, s, ms, h)
    <3>2. IsApiSort(by, desc, s, ms, g) BY <2>1, <3>1
    <3>3. Sort(order, s, ms) = g[1..n] BY <2>3, SortsAreFolds, ZenonT(40) DEF Sort
    <3> HIDE DEF g
    <3> QED BY <3>1, <3>2, <3>3
  <2>4. CASE order.by = "date"
    <3>0. \A g, u : LoopAt("sort", order, s, ms, g, u) = DateSortAt(s, ms, g, u)
      BY <2>4, Turns DEF LoopAt, DateSortAt, OnePass
    <3>1. \A g : IsLoop("sort", order, s, ms, g, 1..n) <=> IsDateSort(s, ms, g)
      BY <3>0 DEF IsLoop, IsDateSort
    <3> DEFINE g == CHOOSE h : IsDateSort(s, ms, h)
    <3>2. IsDateSort(s, ms, g) BY <2>1, <3>1
    <3>3. Sort(order, s, ms) = g[1..n] BY <2>4, SortsAreFolds DEF Sort
    <3> HIDE DEF g
    <3> QED BY <3>1, <3>2, <3>3
  <2> QED BY <2>2, <2>3, <2>4
<1> QED BY <1>1, LoopInRounds

SelectAt(s, g, u) ==
  IF u = {} THEN <<>> ELSE Selected(g[u \ {Max(u)}], s[Max(u)])
IsSelect(s, g) == g = [u \in SUBSET DOMAIN s |-> SelectAt(s, g, u)]

LEMMA SelectInRounds ==
  ASSUME NEW s, NEW n \in Nat, DOMAIN s = 1..n, NEW order
  PROVE  Rounds("select", order, <<>>, s, n, Candidates(s))
<1>1. PICK h : IsLoop("select", order, <<>>, s, h, 1..n) BY LoopExists
<1>0. \A g, u : LoopAt("select", order, <<>>, s, g, u) = SelectAt(s, g, u)
  BY Turns DEF LoopAt, SelectAt
<1>2. \A g : IsLoop("select", order, <<>>, s, g, 1..n) <=> IsSelect(s, g)
  BY <1>0 DEF IsLoop, IsSelect
<1> DEFINE g == CHOOSE f : IsSelect(s, f)
<1>3. IsSelect(s, g) BY <1>1, <1>2
<1>4. Candidates(s) = g[1..n]
  BY DEF Candidates, FoldLeft, MapThenFoldSet, IsSelect, SelectAt, Selected
<1> HIDE DEF g
<1>5. IsLoop("select", order, <<>>, s, g, 1..n) BY <1>2, <1>3
<1> QED BY <1>4, <1>5, LoopInRounds

\* p does not come after q.
Leq(order, p, q) ==
  IF order.by = "priority" THEN Priority(p) <= Priority(q)
  ELSE IF order.by = "date" THEN p <= q
  ELSE IF order.desc THEN ~Less(p, q, order.by) ELSE ~Less(q, p, order.by)

LEMMA DatesTyped ==
  ASSUME NEW p \in Post
  PROVE  \A d \in {p.face.due, p.face.sched} :
           d # {} => d = {Only(d)} /\ At(d) \in Int /\ Only(d).zone \in Int
<1>1. p.face \in Faces BY DEF Post
<1> QED BY <1>1, FacesAssumption

LEMMA HoursTyped == ASSUME NEW t \in Int PROVE Hours(t) \in Int
BY DEF Hours, Hour, Second

LEMMA PriorityTyped == ASSUME NEW p \in Post PROVE Priority(p) \in Int
<1>1. p.face.due # {} => /\ At(p.face.due) \in Int /\ Hours(At(p.face.due)) \in Int
                         /\ Hours(-At(p.face.due)) \in Int
  BY DatesTyped, HoursTyped
<1>2. p.face.sched # {} => /\ At(p.face.sched) \in Int /\ Hours(At(p.face.sched)) \in Int
                           /\ Hours(-At(p.face.sched)) \in Int
  BY DatesTyped, HoursTyped
<1> QED BY <1>1, <1>2 DEF Priority

LEMMA RankTyped == ASSUME NEW st PROVE StatusRank(st) \in Nat
BY DEF StatusRank

\* Posts in each of the orders: neighbours are left as they are only if they are in
\* order, and exchanged only if they are in order then.
LEMMA OrderFacts ==
  ASSUME NEW order \in Orders, NEW p \in Elem(order), NEW q \in Elem(order),
         NEW r \in Elem(order)
  PROVE  /\ Kept(order, p, q) => Leq(order, p, q)
         /\ ~Kept(order, p, q) => Leq(order, q, p)
         /\ Leq(order, p, q) /\ Leq(order, q, r) => Leq(order, p, r)
<1>0. order.by # "date" => p \in Post /\ q \in Post /\ r \in Post BY DEF Elem
<1>1. CASE order.by = "priority"
  <2>1. Priority(p) \in Int /\ Priority(q) \in Int /\ Priority(r) \in Int BY <1>0, <1>1, PriorityTyped
  <2> QED BY <1>1, <2>1 DEF Kept, Leq
<1>2. CASE order.by = "status"
  <2> DEFINE rank(x) == StatusRank(x.face.status)
  <2>1. rank(p) \in Nat /\ rank(q) \in Nat /\ rank(r) \in Nat BY RankTyped
  <2>2. \A x, y : Less(x, y, "status") <=> rank(x) < rank(y) BY DEF Less
  <2> HIDE DEF rank
  <2> QED BY <1>2, <2>1, <2>2 DEF Kept, Leq
<1>3. CASE order.by = "deadline"
  <2> DEFINE day(x)  == At(x.face.due)
             none(x) == x.face.due = {}
  <2>1. \A x \in Post : ~none(x) => day(x) \in Int BY DatesTyped
  <2>2. \A x, y : Less(x, y, "deadline") <=> ~none(x) /\ (none(y) \/ day(x) < day(y))
    BY DEF Less
  <2> HIDE DEF day, none
  <2> QED BY <1>0, <1>3, <2>1, <2>2 DEF Kept, Leq
<1>4. CASE order.by = "date" BY <1>4 DEF Elem, Kept, Leq
<1> QED BY <1>1, <1>2, <1>3, <1>4 DEF Orders

\* Lists of n members of E, and those in which nothing after place d comes before what
\* is before it.
Lists(E, n) == [1..n -> E]
Settled(order, t, d) ==
  \A i, j \in DOMAIN t : i < j /\ j > d => Leq(order, t[i], t[j])
\* No post before place j comes after the one there.
Led(order, t, j) == \A i \in DOMAIN t : i < j => Leq(order, t[i], t[j])

LEMMA SwappedIs ==
  ASSUME NEW E, NEW n \in Nat, NEW t \in Lists(E, n), NEW i \in 1..n, NEW j \in 1..n, i # j
  PROVE  LET v == Swapped(t, i, j) IN
         /\ v \in Lists(E, n) /\ v[i] = t[j] /\ v[j] = t[i]
         /\ \A k \in 1..n : k \notin {i, j} => v[k] = t[k]
<1>1. DOMAIN t = 1..n /\ t[i] \in E /\ t[j] \in E BY DEF Lists
<1> DEFINE v == [k \in 1..n |-> IF k = j THEN t[i] ELSE IF k = i THEN t[j] ELSE t[k]]
<1>2. Swapped(t, i, j) = v BY <1>1 DEF Swapped, Lists
<1>3. /\ v \in Lists(E, n) /\ v[i] = t[j] /\ v[j] = t[i]
      /\ \A k \in 1..n : k \notin {i, j} => v[k] = t[k]
  BY <1>1 DEF Lists
<1> QED BY <1>2, <1>3

\* An exchange leaves settled what is, and takes the lead one place further.
LEMMA ExchangeSettles ==
  ASSUME NEW order \in Orders, NEW n \in Nat, NEW t \in Lists(Elem(order), n), NEW j \in 1..(n - 1), NEW d \in Nat
  PROVE  LET v == Exchanged(order, t, j) IN
         /\ v \in Lists(Elem(order), n)
         /\ Settled(order, t, d) => Settled(order, v, d)
         /\ Led(order, t, j) => Led(order, v, j + 1)
<1> DEFINE v == Exchanged(order, t, j)
<1>1. /\ j \in 1..n /\ j + 1 \in 1..n /\ j \in Nat /\ DOMAIN t = 1..n
      /\ \A i \in 1..n : t[i] \in Elem(order)
  BY DEF Lists
<1>2. CASE Kept(order, t[j], t[j + 1])
  <2>1. v = t BY <1>2 DEF Exchanged
  <2>2. Leq(order, t[j], t[j + 1]) BY <1>1, <1>2, OrderFacts
  <2>3. ASSUME Led(order, t, j), NEW i \in 1..n, i < j + 1 PROVE Leq(order, t[i], t[j + 1])
    <3>1. i = j \/ Leq(order, t[i], t[j]) BY <1>1, <2>3 DEF Led
    <3> QED BY <1>1, <2>2, <3>1, OrderFacts
  <2> HIDE DEF v
  <2>4. v \in Lists(Elem(order), n) /\ (Settled(order, t, d) => Settled(order, v, d)) BY <2>1
  <2>5. Led(order, t, j) => Led(order, v, j + 1) BY <1>1, <2>1, <2>3 DEF Led
  <2> QED BY <2>4, <2>5 DEF v
<1>3. CASE ~Kept(order, t[j], t[j + 1])
  <2>1. v = Swapped(t, j, j + 1) BY <1>3 DEF Exchanged
  <2> HIDE DEF v
  <2>2. /\ v \in Lists(Elem(order), n) /\ v[j] = t[j + 1] /\ v[j + 1] = t[j] /\ DOMAIN v = 1..n
        /\ \A i \in 1..n : i \notin {j, j + 1} => v[i] = t[i]
    <3>1. j # j + 1 /\ j \in 1..n /\ j + 1 \in 1..n BY <1>1
    <3>2. /\ v \in Lists(Elem(order), n) /\ v[j] = t[j + 1] /\ v[j + 1] = t[j]
          /\ \A i \in 1..n : i \notin {j, j + 1} => v[i] = t[i]
      BY <2>1, <3>1, SwappedIs
    <3> QED BY <3>2 DEF Lists
  <2>3. Leq(order, t[j + 1], t[j]) BY <1>1, <1>3, OrderFacts
  <2>4. ASSUME Settled(order, t, d), NEW i \in 1..n, NEW k \in 1..n, i < k, k > d
        PROVE  Leq(order, v[i], v[k])
    <3>1. CASE k = j + 1
      <4>1. CASE i = j BY <2>2, <2>3, <3>1, <4>1
      <4>2. CASE i < j
        <5>1. Leq(order, t[i], t[j + 1]) BY <1>1, <2>4, <3>1 DEF Settled
        <5>2. v[i] = t[i] /\ v[k] = t[j] BY <1>1, <2>2, <3>1, <4>2
        <5> QED BY <1>1, <2>3, <5>1, <5>2, OrderFacts
      <4> QED BY <1>1, <2>4, <3>1, <4>1, <4>2
    <3>2. CASE k = j
      <4>1. Leq(order, t[i], t[j + 1]) BY <1>1, <2>4, <3>2 DEF Settled
      <4>2. v[i] = t[i] /\ v[k] = t[j + 1] BY <1>1, <2>2, <2>4, <3>2
      <4> QED BY <4>1, <4>2
    <3>3. CASE k \notin {j, j + 1}
      <4>1. v[k] = t[k] BY <2>2, <3>3
      <4>2. CASE i = j
        <5>1. j + 1 < k BY <1>1, <2>4, <3>3, <4>2
        <5>2. Leq(order, t[j + 1], t[k]) BY <1>1, <2>4, <5>1 DEF Settled
        <5> QED BY <2>2, <4>1, <4>2, <5>2
      <4>3. CASE i = j + 1
        <5>1. Leq(order, t[j], t[k]) BY <1>1, <2>4, <4>3 DEF Settled
        <5> QED BY <2>2, <4>1, <4>3, <5>1
      <4>4. CASE i \notin {j, j + 1} BY <1>1, <2>2, <2>4, <4>1, <4>4 DEF Settled
      <4> QED BY <4>2, <4>3, <4>4
    <3> QED BY <3>1, <3>2, <3>3
  <2>5. ASSUME Led(order, t, j), NEW i \in 1..n, i < j + 1 PROVE Leq(order, v[i], v[j + 1])
    <3>1. CASE i = j BY <2>2, <2>3, <3>1
    <3>2. CASE i < j
      <4>1. Leq(order, t[i], t[j]) BY <1>1, <2>5, <3>2 DEF Led
      <4>2. v[i] = t[i] BY <1>1, <2>2, <3>2
      <4> QED BY <2>2, <4>1, <4>2
    <3> QED BY <1>1, <2>5, <3>1, <3>2
  <2>6. Settled(order, t, d) => Settled(order, v, d) BY <2>2, <2>4 DEF Settled
  <2>7. Led(order, t, j) => Led(order, v, j + 1) BY <2>2, <2>5 DEF Led
  <2> QED BY <2>2, <2>6, <2>7 DEF v
<1> QED BY <1>2, <1>3

\* A pass settles one place more.
LEMMA PassSettles ==
  ASSUME NEW order \in Orders, NEW n \in Nat, NEW t \in Lists(Elem(order), n), NEW d \in 1..n,
         NEW m \in (d - 1)..(n - 1), Settled(order, t, d)
  PROVE  /\ OnePass(order, t, m) \in Lists(Elem(order), n)
         /\ Settled(order, OnePass(order, t, m), d - 1)
<1>1. m \in Nat /\ d \in Nat /\ d - 1 \in Nat /\ d - 1 <= m /\ m <= n - 1 OBVIOUS
<1>2. PICK f : /\ f[0] = t
               /\ \A k \in 1..m : f[k] = Turn("pass", order, f[k - 1], Places(m)[k])
               /\ f[m] = OnePass(order, t, m)
  BY <1>1, PassInRounds DEF Rounds
<1>3. ASSUME NEW k \in 1..m PROVE f[k] = Exchanged(order, f[k - 1], k)
  BY <1>2, Turns DEF Places
<1> DEFINE Good(u, k) == /\ u \in Lists(Elem(order), n) /\ Settled(order, u, d) /\ Led(order, u, k + 1)
                         /\ k >= d - 1 => Settled(order, u, d - 1)
           G == {k \in 0..m : Good(f[k], k)}
<1>4. ASSUME NEW k \in 0..m, NEW u \in Lists(Elem(order), n), Settled(order, u, d), Led(order, u, k + 1),
             k >= d => Settled(order, u, d - 1)
      PROVE  Good(u, k)
  <2>1. CASE k = d - 1
    <3>1. ASSUME NEW i \in 1..n, NEW j \in 1..n, i < j, j > d - 1 PROVE Leq(order, u[i], u[j])
      <4>1. DOMAIN u = 1..n BY DEF Lists
      <4>2. CASE j > d BY <1>4, <3>1, <4>1, <4>2 DEF Settled
      <4>3. CASE j = d BY <1>1, <1>4, <2>1, <3>1, <4>1, <4>3 DEF Led
      <4> QED BY <1>1, <3>1, <4>2, <4>3
    <3>2. Settled(order, u, d - 1) BY <3>1 DEF Settled, Lists
    <3> QED BY <1>4, <3>2
  <2>2. CASE k # d - 1 BY <1>1, <1>4, <2>2
  <2> QED BY <2>1, <2>2
<1>5. 0 \in G
  <2>1. Led(order, t, 1) BY DEF Led, Lists
  <2>2. ~(0 >= d) /\ 0 \in 0..m BY <1>1
  <2> HIDE DEF Good
  <2>3. Good(t, 0) BY <1>4, <2>1, <2>2
  <2> QED BY <1>2, <2>2, <2>3
<1>6. ASSUME NEW k \in 1..m, k - 1 \in G PROVE k \in G
  <2> DEFINE u == f[k - 1]
             v == Exchanged(order, u, k)
  <2>1. Good(u, k - 1) BY <1>6
  <2>2. k \in 1..(n - 1) /\ k \in 0..m /\ k - 1 + 1 = k BY <1>1
  <2> HIDE DEF u
  <2>3. v \in Lists(Elem(order), n) /\ Settled(order, v, d) /\ Led(order, v, k + 1)
    BY <1>1, <2>1, <2>2, ExchangeSettles
  <2>4. k >= d => Settled(order, v, d - 1)
    <3>1. ASSUME k >= d PROVE Settled(order, u, d - 1) BY <1>1, <2>1, <3>1
    <3> QED BY <1>1, <2>1, <2>2, <3>1, ExchangeSettles
  <2> HIDE DEF v, Good
  <2>5. Good(v, k) BY <1>4, <2>2, <2>3, <2>4
  <2>6. f[k] = v BY <1>3 DEF u, v
  <2> QED BY <2>2, <2>5, <2>6
<1>7. m \in 0..m BY <1>1
<1> HIDE DEF G
<1>8. m \in G BY <1>1, <1>5, <1>6, <1>7, CountInduction
<1> QED BY <1>1, <1>2, <1>8 DEF G

\* The passes settle the list, if each reaches what is not settled yet.
LEMMA SortSorts ==
  ASSUME NEW order \in Orders, NEW n \in Nat, NEW s \in Lists(Elem(order), n), NEW ms,
         NEW m \in Nat, n - 1 <= m, m <= n,
         DOMAIN ms = 1..m, \A k \in 1..m : ms[k] \in (n - k)..(n - 1)
  PROVE  /\ Sort(order, s, ms) \in Lists(Elem(order), n)
         /\ Settled(order, Sort(order, s, ms), 1)
<1>1. PICK f : /\ f[0] = s
               /\ \A k \in 1..m : f[k] = Turn("sort", order, f[k - 1], ms[k])
               /\ f[m] = Sort(order, s, ms)
  <2>1. Rounds("sort", order, s, ms, m, Sort(order, s, ms)) BY SortInRounds
  <2> QED BY <2>1 DEF Rounds
<1>2. ASSUME NEW k \in 1..m PROVE f[k] = OnePass(order, f[k - 1], ms[k])
  BY <1>1, Turns
<1> DEFINE G == {k \in 0..m : f[k] \in Lists(Elem(order), n) /\ Settled(order, f[k], n - k)}
<1>3. 0 \in G
  <2>1. Settled(order, s, n - 0) BY DEF Settled, Lists
  <2> QED BY <1>1, <2>1
<1>4. ASSUME NEW k \in 1..m, k - 1 \in G PROVE k \in G
  <2> DEFINE u == f[k - 1]
             d == n - (k - 1)
  <2>1. u \in Lists(Elem(order), n) /\ Settled(order, u, d) BY <1>4
  <2>2. d \in 1..n /\ ms[k] \in (d - 1)..(n - 1) /\ d - 1 = n - k /\ k \in 0..m OBVIOUS
  <2> HIDE DEF u, d
  <2>3. /\ OnePass(order, u, ms[k]) \in Lists(Elem(order), n)
        /\ Settled(order, OnePass(order, u, ms[k]), d - 1)
    BY <2>1, <2>2, PassSettles
  <2>4. f[k] = OnePass(order, u, ms[k]) BY <1>2 DEF u
  <2> QED BY <2>2, <2>3, <2>4
<1>5. m \in 0..m OBVIOUS
<1> HIDE DEF G
<1>6. m \in G BY <1>3, <1>4, <1>5, CountInduction
<1>7. f[m] \in Lists(Elem(order), n) /\ Settled(order, f[m], n - m) BY <1>6 DEF G
<1>8. Settled(order, f[m], 1)
  <2>1. n - m <= 1 OBVIOUS
  <2>2. \A j \in DOMAIN f[m] : j \in Int BY <1>7 DEF Lists
  <2> QED BY <1>7, <2>1, <2>2 DEF Settled
<1> QED BY <1>1, <1>7, <1>8

\* How often a post is in a list does not change with its order.
Shuffled(E, n, s, t) == t \in Lists(E, n) /\ \A x : Occurs(t, x) = Occurs(s, x)

LEMMA SwapShuffles ==
  ASSUME NEW E, NEW n \in Nat, NEW t \in Lists(E, n), NEW j \in 1..n, NEW l \in 1..n, j # l
  PROVE  Shuffled(E, n, t, Swapped(t, j, l))
<1> DEFINE v == Swapped(t, j, l)
<1>1. /\ v \in Lists(E, n) /\ v[j] = t[l] /\ v[l] = t[j]
      /\ \A i \in 1..n : i \notin {j, l} => v[i] = t[i]
  BY SwappedIs
<1>2. j \in 1..n /\ l \in 1..n /\ j # l /\ DOMAIN t = 1..n BY DEF Lists
<1> HIDE DEF v
<1>3. ASSUME NEW x PROVE Occurs(v, x) = Occurs(t, x)
  <2> DEFINE S == {i \in DOMAIN t : t[i] = x}
             R == {i \in DOMAIN v : v[i] = x}
             other == [i \in S |-> IF i = j THEN l ELSE IF i = l THEN j ELSE i]
  <2>0. DOMAIN v = 1..n BY <1>1 DEF Lists
  <2>1. IsFiniteSet(S)
    <3>1. IsFiniteSet(1..n) BY FS_Interval
    <3> QED BY <1>2, <3>1, FS_Subset
  <2>2. other \in Bijection(S, R)
    <3>1. \A i \in S : other[i] \in R BY <1>1, <1>2, <2>0
    <3>2. \A i, k \in S : other[i] = other[k] => i = k BY <1>2
    <3>3. \A k \in R : \E i \in S : other[i] = k
      <4> TAKE k \in R
      <4> DEFINE i == IF k = j THEN l ELSE IF k = l THEN j ELSE k
      <4>1. i \in S BY <1>1, <1>2, <2>0
      <4>2. other[i] = k BY <1>2, <4>1
      <4> QED BY <4>1, <4>2
    <3>4. other \in [S -> R]
      <4> HIDE DEF R
      <4> QED BY <3>1
    <3> HIDE DEF other, S, R
    <3> QED BY <3>1, <3>2, <3>3, <3>4 DEF Bijection, Injection, Surjection, IsInjective
  <2>3. ExistsBijection(S, R)
    <3> HIDE DEF other, S, R
    <3> QED BY <2>2 DEF ExistsBijection
  <2>4. Cardinality(R) = Cardinality(S)
    <3> HIDE DEF other, S, R
    <3> QED BY <2>1, <2>3, FS_Bijection
  <2> QED BY <2>4 DEF Occurs
<1> QED BY <1>1, <1>3 DEF Shuffled, v

LEMMA PassShuffles ==
  ASSUME NEW order \in Orders, NEW n \in Nat, NEW t \in Lists(Elem(order), n), NEW m \in Nat, m < n \/ m = 0
  PROVE  Shuffled(Elem(order), n, t, OnePass(order, t, m))
<1>1. PICK f : /\ f[0] = t
               /\ \A k \in 1..m : f[k] = Turn("pass", order, f[k - 1], Places(m)[k])
               /\ f[m] = OnePass(order, t, m)
  BY PassInRounds DEF Rounds
<1>2. ASSUME NEW k \in 1..m PROVE f[k] = Exchanged(order, f[k - 1], k)
  BY <1>1, Turns DEF Places
<1> DEFINE G == {k \in 0..m : Shuffled(Elem(order), n, t, f[k])}
<1>3. 0 \in G BY <1>1 DEF Shuffled
<1>4. ASSUME NEW k \in 1..m, k - 1 \in G PROVE k \in G
  <2> DEFINE u == f[k - 1]
  <2>1. Shuffled(Elem(order), n, t, u) /\ k \in 0..m /\ k \in 1..(n - 1) BY <1>4
  <2> HIDE DEF u
  <2>2. u \in Lists(Elem(order), n) BY <2>1 DEF Shuffled
  <2>3. Shuffled(Elem(order), n, u, Swapped(u, k, k + 1))
    <3>1. k \in 1..n /\ k + 1 \in 1..n /\ k # k + 1 BY <2>1
    <3> QED BY <2>2, <3>1, SwapShuffles
  <2>4. Shuffled(Elem(order), n, t, Exchanged(order, u, k)) BY <2>1, <2>3 DEF Shuffled, Exchanged
  <2>5. f[k] = Exchanged(order, u, k) BY <1>2 DEF u
  <2> QED BY <2>1, <2>4, <2>5
<1>5. m \in 0..m OBVIOUS
<1> HIDE DEF G
<1>6. m \in G BY <1>3, <1>4, <1>5, CountInduction
<1> QED BY <1>1, <1>6 DEF G

LEMMA SortShuffles ==
  ASSUME NEW order \in Orders, NEW n \in Nat, NEW s \in Lists(Elem(order), n), NEW ms,
         NEW m \in Nat, DOMAIN ms = 1..m, \A k \in 1..m : ms[k] \in Nat /\ ms[k] < n
  PROVE  Shuffled(Elem(order), n, s, Sort(order, s, ms))
<1>1. PICK f : /\ f[0] = s
               /\ \A k \in 1..m : f[k] = Turn("sort", order, f[k - 1], ms[k])
               /\ f[m] = Sort(order, s, ms)
  <2>1. Rounds("sort", order, s, ms, m, Sort(order, s, ms)) BY SortInRounds
  <2> QED BY <2>1 DEF Rounds
<1>2. ASSUME NEW k \in 1..m PROVE f[k] = OnePass(order, f[k - 1], ms[k])
  BY <1>1, Turns
<1> DEFINE G == {k \in 0..m : Shuffled(Elem(order), n, s, f[k])}
<1>3. 0 \in G BY <1>1 DEF Shuffled
<1>4. ASSUME NEW k \in 1..m, k - 1 \in G PROVE k \in G
  <2> DEFINE u == f[k - 1]
  <2>1. Shuffled(Elem(order), n, s, u) /\ k \in 0..m BY <1>4
  <2> HIDE DEF u
  <2>2. u \in Lists(Elem(order), n) BY <2>1 DEF Shuffled
  <2>3. Shuffled(Elem(order), n, u, OnePass(order, u, ms[k])) BY <2>2, PassShuffles
  <2>4. f[k] = OnePass(order, u, ms[k]) BY <1>2 DEF u
  <2> QED BY <2>1, <2>3, <2>4 DEF Shuffled
<1>5. m \in 0..m OBVIOUS
<1> HIDE DEF G
<1>6. m \in G BY <1>3, <1>4, <1>5, CountInduction
<1> QED BY <1>1, <1>6 DEF G

\* The lists are sequences of their lengths.
LEMMA ListsAreSequences ==
  ASSUME NEW E, NEW n \in Nat, NEW t \in Lists(E, n)
  PROVE  t \in Seq(E) /\ Len(t) = n /\ DOMAIN t = 1..n
BY DEF Lists

LEMMA SequencesAreLists ==
  ASSUME NEW E, NEW t \in Seq(E)
  PROVE  Len(t) \in Nat /\ t \in Lists(E, Len(t))
BY DEF Lists

LEMMA CandidatesTyped ==
  ASSUME NEW n \in Nat, NEW s \in Lists(Post, n)
  PROVE  Candidates(s) \in Seq(Post)
<1>1. DOMAIN s = 1..n BY DEF Lists
<1> DEFINE o == [by |-> "priority", desc |-> FALSE]
<1>2. PICK f : /\ f[0] = <<>>
               /\ \A k \in 1..n : f[k] = Turn("select", o, f[k - 1], s[k])
               /\ f[n] = Candidates(s)
  <2>1. Rounds("select", o, <<>>, s, n, Candidates(s)) BY <1>1, SelectInRounds
  <2> HIDE DEF o
  <2> QED BY <2>1 DEF Rounds
<1>3. ASSUME NEW k \in 1..n PROVE f[k] = Selected(f[k - 1], s[k]) /\ s[k] \in Post
  BY <1>2, Turns DEF Lists
<1> DEFINE G == {k \in 0..n : f[k] \in Seq(Post)}
<1>4. 0 \in G
  <2>1. <<>> \in Seq(Post) /\ 0 \in 0..n OBVIOUS
  <2>2. f[0] \in Seq(Post)
    <3> HIDE DEF G, o
    <3> QED BY <1>2, <2>1
  <2> QED BY <2>1, <2>2
<1>5. ASSUME NEW k \in 1..n, k - 1 \in G PROVE k \in G
  <2>1. f[k - 1] \in Seq(Post) BY <1>5
  <2>2. Selected(f[k - 1], s[k]) \in Seq(Post) BY <1>3, <2>1 DEF Selected
  <2> QED BY <1>3, <2>2
<1>6. n \in 0..n OBVIOUS
<1> HIDE DEF G
<1>7. n \in G BY <1>4, <1>5, <1>6, CountInduction
<1> QED BY <1>2, <1>7 DEF G

\* What both sorts end with: the same posts, none before one that it comes after.
LEMMA ApiSortedIs ==
  ASSUME NEW n \in Nat, NEW s \in Lists(Post, n), NEW field \in {"status", "deadline"},
         NEW desc \in BOOLEAN
  PROVE  LET order == [by |-> field, desc |-> desc] IN
         /\ Shuffled(Post, n, s, ApiSorted(s, field, desc))
         /\ Settled(order, ApiSorted(s, field, desc), 1)
<1> DEFINE order == [by |-> field, desc |-> desc]
           ms    == [k \in 1..(n - 1) |-> n - 1]
           m     == IF n = 0 THEN 0 ELSE n - 1
<1>1. /\ order \in Orders /\ order.by = field /\ order.desc = desc
      /\ order.by \notin {"priority", "date"} /\ Elem(order) = Post
  BY DEF Orders, Elem
<1>2. /\ m \in Nat /\ n - 1 <= m /\ m <= n /\ DOMAIN ms = 1..m
      /\ \A k \in 1..m : /\ ms[k] \in (n - k)..(n - 1)
                         /\ ms[k] \in Nat /\ ms[k] < n
  OBVIOUS
<1>3. Len(s) = n BY ListsAreSequences
<1>4. ApiSorted(s, field, desc) = ApiSort(field, desc, s, ms)
  BY <1>3 DEF ApiSorted, ApiSort, Passes, Pass, FoldLeft, MapThenFoldSet
<1>5. ApiSorted(s, field, desc) = Sort(order, s, ms) BY <1>1, <1>4 DEF Sort
<1> HIDE DEF order, ms, m
<1>6. Shuffled(Post, n, s, Sort(order, s, ms)) BY <1>1, <1>2, SortShuffles
<1>7. Settled(order, Sort(order, s, ms), 1) BY <1>1, <1>2, SortSorts
<1> QED BY <1>5, <1>6, <1>7 DEF order

LEMMA ByPriorityIs ==
  ASSUME NEW n \in Nat, NEW s \in Lists(Post, n)
  PROVE  LET order == [by |-> "priority", desc |-> FALSE]
             t     == ByPriority(s)
         IN /\ Len(t) \in Nat /\ t \in Lists(Post, Len(t))
            /\ Settled(order, t, 1)
<1> DEFINE order == [by |-> "priority", desc |-> FALSE]
           c     == Candidates(s)
           l     == Len(c)
           ms    == [k \in 1..(l - 1) |-> l - k]
           m     == IF l = 0 THEN 0 ELSE l - 1
<1>1. order \in Orders /\ order.by = "priority" /\ Elem(order) = Post BY DEF Orders, Elem
<1>2. l \in Nat /\ c \in Lists(Post, l)
  <2>1. c \in Seq(Post) BY CandidatesTyped
  <2> HIDE DEF c
  <2> QED BY <2>1, SequencesAreLists
<1>3. /\ m \in Nat /\ l - 1 <= m /\ m <= l /\ DOMAIN ms = 1..m
      /\ \A k \in 1..m : ms[k] \in (l - k)..(l - 1)
  <2> HIDE DEF l
  <2> QED BY <1>2
<1>4. ByPriority(s) = NextSort(c, ms)
  BY DEF ByPriority, NextSort, Passes, Pass, FoldLeft, MapThenFoldSet
<1>5. ByPriority(s) = Sort(order, c, ms) BY <1>1, <1>4 DEF Sort
<1> HIDE DEF order, ms, m, l, c
<1>6. Sort(order, c, ms) \in Lists(Post, l) /\ Settled(order, Sort(order, c, ms), 1)
  BY <1>1, <1>2, <1>3, SortSorts
<1>7. Len(Sort(order, c, ms)) = l BY <1>2, <1>6, ListsAreSequences
<1> QED BY <1>2, <1>5, <1>6, <1>7 DEF order

\* The lists that are looked at.
LEMMA ShufflesAreLists ==
  ASSUME StoredWell, NEW b \in Backends, NEW s \in Shuffles(b)
  PROVE  \E n \in Nat : s \in Lists(Post, n)
<1>1. \A p \in rows[b] : AsRead(b, p) \in Post BY ReadIsPost DEF StoredWell, Sound
<1>2. PICK n \in 0..3 : s \in [1..n -> {AsRead(b, p) : p \in rows[b]}] BY DEF Shuffles
<1>3. {AsRead(b, p) : p \in rows[b]} \subseteq Post BY <1>1
<1> QED BY <1>2, <1>3 DEF Lists

LEMMA ListedInOrder ==
  ASSUME StoredWell
  PROVE  ApiListsInOrder
<1> SUFFICES ASSUME NEW b \in Backends, NEW s \in Shuffles(b), NEW field \in {"status", "deadline"},
                    NEW desc \in BOOLEAN
             PROVE  /\ Permuted(s, ApiSorted(s, field, desc))
                    /\ Sorted(ApiSorted(s, field, desc),
                              LAMBDA p, q : IF desc THEN ~Less(p, q, field) ELSE ~Less(q, p, field))
  BY DEF ApiListsInOrder
<1>1. PICK n \in Nat : s \in Lists(Post, n) BY ShufflesAreLists
<1> DEFINE t     == ApiSorted(s, field, desc)
           order == [by |-> field, desc |-> desc]
<1>2. Shuffled(Post, n, s, t) /\ Settled(order, t, 1) BY <1>1, ApiSortedIs
<1> HIDE DEF t
<1>3. t \in Lists(Post, n) BY <1>2 DEF Shuffled
<1>4. Len(s) = n /\ Len(t) = n /\ DOMAIN t = 1..n BY <1>1, <1>3, ListsAreSequences
<1>5. Permuted(s, t) BY <1>2, <1>4 DEF Permuted, Shuffled
<1>6. ASSUME NEW i \in 1..(n - 1)
      PROVE  IF desc THEN ~Less(t[i], t[i + 1], field) ELSE ~Less(t[i + 1], t[i], field)
  <2>1. i \in DOMAIN t /\ i + 1 \in DOMAIN t /\ i < i + 1 /\ i + 1 > 1 BY <1>4
  <2>2. Leq(order, t[i], t[i + 1]) BY <1>2, <2>1 DEF Settled
  <2>3. order.by = field /\ order.desc = desc /\ field # "priority" OBVIOUS
  <2> HIDE DEF order
  <2> QED BY <2>2, <2>3 DEF Leq
<1>7. Sorted(t, LAMBDA p, q : IF desc THEN ~Less(p, q, field) ELSE ~Less(q, p, field))
  BY <1>4, <1>6 DEF Sorted
<1> QED BY <1>5, <1>7 DEF t

\* For any number of posts, deadlines and statuses, and although equal posts are
\* swapped at every pass, GET /api/posts?sort= returns the same posts in order
\* (handlers of httpapi/server.go).
THEOREM ApiSortsInOrder == Spec => []ApiListsInOrder
<1>1. Spec => []StoredWell BY StoredAlways
<1>2. StoredWell => ApiListsInOrder BY ListedInOrder
<1> QED BY <1>1, <1>2, PTL

\* How urgent a post is that is overdue, and one that is not.
LEMMA Urgencies ==
  ASSUME NEW p \in Post
  PROVE  /\ \A full \in {500, 1000} : (p.face.due # {} /\ At(p.face.due) < 0
                                /\ -At(p.face.due) < full * Hour) => Priority(p) <= full - 1001
         /\ (p.face.due # {} /\ ~(At(p.face.due) < 0)) => Priority(p) >= 0
         /\ p.face.due = {} => Priority(p) >= 0
              \/ (p.face.sched # {} /\ At(p.face.sched) < 0 /\ Priority(p) >= -500)
<1>0. /\ p.face.due # {} => At(p.face.due) \in Int
      /\ p.face.sched # {} => At(p.face.sched) \in Int
  BY DatesTyped
<1>1. ASSUME NEW full \in {500, 1000}, NEW t \in Int, t < full * Hour PROVE Hours(t) <= full - 1
  <2>1. Hour = 7200 BY DEF Hour, Second
  <2>2. CASE full = 500
    <3>1. t < 3600000 BY <1>1, <2>1, <2>2
    <3>2. t \div 7200 <= 499 BY <3>1
    <3> QED BY <2>1, <2>2, <3>2 DEF Hours
  <2>3. CASE full = 1000
    <3>1. t < 7200000 BY <1>1, <2>1, <2>3
    <3>2. t \div 7200 <= 999 BY <3>1
    <3> QED BY <2>1, <2>3, <3>2 DEF Hours
  <2> QED BY <2>2, <2>3
<1>2. ASSUME NEW t \in Int, t >= 0 PROVE Hours(t) >= 0 /\ Hours(t) \in Int
  <2>1. Hour = 7200 BY DEF Hour, Second
  <2>2. t \div 7200 >= 0 /\ t \div 7200 \in Int BY <1>2
  <2> QED BY <2>1, <2>2 DEF Hours
<1>3. ASSUME NEW full \in {500, 1000}, p.face.due # {}, At(p.face.due) < 0,
             -At(p.face.due) < full * Hour
      PROVE  Priority(p) <= full - 1001
  <2>1. -At(p.face.due) \in Int BY <1>0, <1>3
  <2>2. Hours(-At(p.face.due)) <= full - 1 /\ Hours(-At(p.face.due)) \in Int
    BY <1>1, <1>3, <2>1, HoursTyped
  <2>3. Priority(p) = -1000 + Hours(-At(p.face.due)) BY <1>3 DEF Priority
  <2> QED BY <2>2, <2>3
<1>4. ASSUME p.face.due # {}, ~(At(p.face.due) < 0) PROVE Priority(p) >= 0
  <2>1. Priority(p) = Hours(At(p.face.due)) BY <1>4 DEF Priority
  <2> QED BY <1>0, <1>2, <1>4, <2>1
<1>5. ASSUME p.face.due = {}, p.face.sched # {}
      PROVE  Priority(p) >= 0 \/ (At(p.face.sched) < 0 /\ Priority(p) >= -500)
  <2>1. At(p.face.sched) \in Int /\ -At(p.face.sched) \in Int BY <1>0, <1>5
  <2>2. CASE At(p.face.sched) < 0
    <3>1. Hours(-At(p.face.sched)) >= 0 /\ Hours(-At(p.face.sched)) \in Int
      BY <1>2, <2>1, <2>2
    <3>2. Priority(p) = -500 + Hours(-At(p.face.sched)) BY <1>5, <2>2 DEF Priority
    <3> QED BY <2>2, <3>1, <3>2
  <2>3. CASE ~(At(p.face.sched) < 0)
    <3>1. Hours(At(p.face.sched)) >= 0 /\ Hours(At(p.face.sched)) \in Int
      BY <1>2, <2>1, <2>3
    <3>2. Priority(p) = 10000 + Hours(At(p.face.sched)) BY <1>5, <2>3 DEF Priority
    <3> QED BY <3>1, <3>2
  <2> QED BY <2>2, <2>3
<1>6. ASSUME p.face.due = {}, p.face.sched = {} PROVE Priority(p) >= 0
  BY <1>6 DEF Priority
<1> QED BY <1>3, <1>4, <1>5, <1>6

LEMMA OverdueLeads ==
  ASSUME StoredWell
  PROVE  OverdueFirst
<1> DEFINE Overdue(p) == p.face.due # {} /\ At(p.face.due) < 0
           Missed(p)  == p.face.due = {} /\ p.face.sched # {} /\ At(p.face.sched) < 0
<1>1. ASSUME NEW b \in Backends, NEW s \in Shuffles(b), NEW c, c = ByPriority(s), NEW limit,
             limit = IF \E i \in DOMAIN c : Missed(c[i]) THEN 500 * Hour ELSE 1000 * Hour,
             \E i \in DOMAIN c : Overdue(c[i]),
             \A i \in DOMAIN c : Overdue(c[i]) => -At(c[i].face.due) < limit
      PROVE  Overdue(c[1])
  <2> DEFINE order == [by |-> "priority", desc |-> FALSE]
  <2>1. /\ Len(c) \in Nat /\ c \in Lists(Post, Len(c))
        /\ Settled(order, c, 1)
    BY <1>1, ShufflesAreLists, ByPriorityIs
  <2>2. DOMAIN c = 1..Len(c) /\ \A i \in DOMAIN c : c[i] \in Post BY <2>1 DEF Lists
  <2>3. PICK i \in DOMAIN c : Overdue(c[i]) BY <1>1
  <2>4. 1 \in DOMAIN c /\ i >= 1 /\ i \in Int BY <2>1, <2>2
  <2>5. Priority(c[1]) <= Priority(c[i])
    <3>1. CASE i = 1 BY <2>2, <2>4, <3>1, PriorityTyped
    <3>2. CASE i > 1
      <4>1. Leq(order, c[1], c[i]) BY <2>1, <2>4, <3>2 DEF Settled
      <4> QED BY <4>1 DEF Leq
    <3> QED BY <2>4, <3>1, <3>2
  <2>6. \A full \in {500, 1000} : limit = full * Hour => Priority(c[i]) <= full - 1001
    <3>1. c[i] \in Post /\ Overdue(c[i]) /\ -At(c[i].face.due) < limit BY <1>1, <2>2, <2>3
    <3> QED BY <3>1, Urgencies
  <2>9. Priority(c[1]) \in Int /\ Priority(c[i]) \in Int /\ c[1] \in Post
    BY <2>2, <2>3, <2>4, PriorityTyped
  <2>10. ASSUME ~Overdue(c[1]) PROVE FALSE
    <3>1. CASE Missed(c[1])
      <4>1. limit = 500 * Hour BY <1>1, <2>4, <3>1
      <4>2. Priority(c[1]) >= -500 BY <2>9, <3>1, Urgencies
      <4>3. Priority(c[i]) <= 500 - 1001 BY <2>6, <4>1
      <4> HIDE DEF Overdue, Missed, order
      <4> QED BY <2>5, <2>9, <4>2, <4>3
    <3>2. CASE ~Missed(c[1])
      <4>1. limit = 500 * Hour \/ limit = 1000 * Hour BY <1>1
      <4>2. Priority(c[1]) >= 0 BY <2>9, <2>10, <3>2, Urgencies
      <4>3. Priority(c[i]) <= 500 - 1001 \/ Priority(c[i]) <= 1000 - 1001 BY <2>6, <4>1
      <4> HIDE DEF Overdue, Missed, order
      <4> QED BY <2>5, <2>9, <4>2, <4>3
    <3> QED BY <3>1, <3>2
  <2> QED BY <2>10
<1> HIDE DEF Overdue, Missed
<1> QED BY <1>1, SMTT(20) DEF OverdueFirst, Overdue, Missed

\* For any posts and dates, in full hours as the code counts them, "jtpost next"
\* recommends an overdue post while there is one, up to the thousand hours after which
\* postPriority counts it as due later, and the five hundred if a post without
\* a deadline has missed its date (core/service.go:284-312).
THEOREM OverdueComesFirst == Spec => []OverdueFirst
<1>1. Spec => []StoredWell BY StoredAlways
<1>2. StoredWell => OverdueFirst BY OverdueLeads
<1> QED BY <1>1, <1>2, PTL

-------------------------------------------------------------------------------
(* The lists of the three storages.                                        *)

\* The orders of a list: the members of S one after the other, as it asks for them.
Arranged(b, S, key, desc) ==
  {s \in SetToSeqs(S) :
     \A i \in 1..(Len(s) - 1) :
       ~IF desc THEN Sooner(b, s[i], s[i + 1], key) ELSE Sooner(b, s[i + 1], s[i], key)}

LEMMA ListIsArranged ==
  ASSUME NEW b, NEW T, NEW f, NEW key, NEW desc
  PROVE  List(b, T, f, key, desc) = Only(Arranged(b, Found(b, T, f), key, desc))
BY DEF List, Ordered, Arranged

\* The members of a listed set, place by place.
LEMMA SequenceOf ==
  ASSUME NEW S, IsFiniteSet(S), NEW s \in SetToSeqs(S)
  PROVE  /\ Cardinality(S) \in Nat /\ s \in Lists(S, Cardinality(S))
         /\ \A i, j \in 1..Cardinality(S) : i # j => s[i] # s[j]
<1>1. Cardinality(S) \in Nat BY FS_CardinalityType
<1> QED BY <1>1 DEF SetToSeqs, Lists

\* A tag or a word that is asked for is looked up alike.
LEMMA SameMatches ==
  ASSUME StoredWell, NEW f \in Filters, NEW p \in rows["git"], NEW b \in Backends,
         NEW c \in Backends
  PROVE  Matches(b, p, f) <=> Matches(c, p, f)
<1> DEFINE faces == {q.face : q \in rows["git"]}
           words == (UNION {g.title : g \in faces})
                      \ ((UNION {g.text : g \in faces}) \cup {q.slug : q \in rows["git"]})
<1>1. /\ f.tags = {} \/ \E t : f.tags = {t}
      /\ f.words = {} \/ \E w \in words : f.words = {w}
  BY DEF Filters
<1>2. TagsFit(b, p, f.tags) <=> TagsFit(c, p, f.tags) BY <1>1 DEF TagsFit
<1>3. f.words # {} => (f.words \cap Searched(b, p) # {} <=> f.words \cap Searched(c, p) # {})
  <2>1. ASSUME NEW w \in words, f.words = {w}, NEW d
        PROVE  f.words \cap Searched(d, p) # {} <=> w \in p.face.title
    <3>1. p.face \in faces OBVIOUS
    <3>2. w \notin p.face.text /\ w # p.slug BY <2>1, <3>1
    <3> QED BY <2>1, <3>2 DEF Searched
  <2> QED BY <1>1, <2>1
<1> QED BY <1>2, <1>3 DEF Matches

\* What is left of a date when it is read.
LEMMA DueRead ==
  ASSUME NEW b \in Backends, NEW p \in Post, p.face.due # {}
  PROVE  /\ AsRead(b, p).face.due # {} /\ At(p.face.due) \in Int
         /\ At(AsRead(b, p).face.due) = IF b = "sqlite" THEN ToSecond(At(p.face.due))
                                        ELSE At(p.face.due)
<1> DEFINE d == p.face.due
           m == Only(d)
<1>1. d = {m} /\ At(d) \in Int /\ At(d) = m.at BY DatesTyped DEF At
<1> HIDE DEF m, d
<1>2. CASE b = "git" BY <1>1, <1>2 DEF AsRead, FaceRead, d
<1>3. CASE b # "git"
  <2>1. AsRead(b, p).face.due = DateRead(b, d) BY <1>3 DEF AsRead, FaceRead, d
  <2>2. PICK r : DateRead(b, d) = {r} /\ r.at = IF b = "sqlite" THEN ToSecond(m.at) ELSE m.at
    <3>1. CASE b = "sqlite"
      <4>1. DateRead(b, d) = {[at |-> ToSecond(m.at), zone |-> 0]} BY <1>1, <3>1 DEF DateRead
      <4>2. [at |-> ToSecond(m.at), zone |-> 0].at = ToSecond(m.at) OBVIOUS
      <4> QED BY <3>1, <4>1, <4>2, Zenon
    <3>2. CASE b # "sqlite"
      <4>1. DateRead(b, d) = {[at |-> m.at, zone |-> Here]} BY <1>1, <3>2 DEF DateRead
      <4>2. [at |-> m.at, zone |-> Here].at = m.at OBVIOUS
      <4> QED BY <3>2, <4>1, <4>2, Zenon
    <3> QED BY <3>1, <3>2
  <2>3. Only({r}) = r BY DEF Only
  <2> QED BY <1>1, <2>1, <2>2, <2>3 DEF At, d
<1> QED BY <1>2, <1>3

\* Times in different seconds are compared alike whether or not their seconds are
\* compared alone.
LEMMA SecondsTell ==
  ASSUME NEW x \in Int, NEW y \in Int, x = y \/ ToSecond(x) # ToSecond(y)
  PROVE  ToSecond(x) < ToSecond(y) <=> x < y
BY DEF ToSecond, Second

LEMMA SameSooner ==
  ASSUME StoredWell, NEW key \in {"created_at", "deadline"}, KeyTells(key),
         NEW p \in rows["git"], NEW q \in rows["git"], NEW b \in Backends, NEW c \in Backends
  PROVE  Sooner(b, p, q, key) <=> Sooner(c, p, q, key)
<1>0. p \in Post /\ q \in Post BY DEF StoredWell, Sound, Backends
<1>1. CASE key = "created_at"
  <2>1. p.created \in Int /\ q.created \in Int BY <1>0 DEF Post
  <2>2. p.created = q.created \/ ToSecond(p.created) # ToSecond(q.created)
    BY <1>1 DEF KeyTells
  <2>3. ToSecond(p.created) < ToSecond(q.created) <=> p.created < q.created
    BY <2>1, <2>2, SecondsTell
  <2>4. \A d \in Backends : Sooner(d, p, q, key) <=> p.created < q.created
    BY <1>1, <2>3 DEF Sooner, Before, AsRead
  <2> QED BY <2>4
<1>2. CASE key = "deadline"
  <2>1. p.face.due # {} /\ q.face.due # {} BY <1>2 DEF KeyTells
  <2>2. At(p.face.due) = At(q.face.due)
          \/ ToSecond(At(p.face.due)) # ToSecond(At(q.face.due))
    BY <1>2 DEF KeyTells
  <2>3. At(p.face.due) \in Int /\ At(q.face.due) \in Int BY <1>0, <2>1, DueRead
  <2>4. ToSecond(At(p.face.due)) < ToSecond(At(q.face.due)) <=> At(p.face.due) < At(q.face.due)
    BY <2>2, <2>3, SecondsTell
  <2>5. ASSUME NEW d \in Backends
        PROVE  Sooner(d, p, q, key) <=> At(p.face.due) < At(q.face.due)
    <3>1. /\ AsRead(d, p).face.due # {} /\ AsRead(d, q).face.due # {}
          /\ At(AsRead(d, p).face.due) = IF d = "sqlite" THEN ToSecond(At(p.face.due))
                                         ELSE At(p.face.due)
          /\ At(AsRead(d, q).face.due) = IF d = "sqlite" THEN ToSecond(At(q.face.due))
                                         ELSE At(q.face.due)
      BY <1>0, <2>1, DueRead
    <3>2. Sooner(d, p, q, key) <=> At(AsRead(d, p).face.due) < At(AsRead(d, q).face.due)
      BY <1>2, <3>1 DEF Sooner, Before
    <3> QED BY <2>4, <3>1, <3>2
  <2> QED BY <2>5
<1> QED BY <1>1, <1>2

LEMMA SameOrder ==
  ASSUME StoredWell, NEW key \in {"created_at", "deadline"}, KeyTells(key),
         NEW S, S \subseteq rows["git"], NEW b \in Backends, NEW c \in Backends, NEW desc
  PROVE  Arranged(b, S, key, desc) = Arranged(c, S, key, desc)
<1>0. IsFiniteSet(S)
  <2>1. IsFiniteSet(rows["git"]) BY DEF StoredWell, Sound, Backends
  <2> QED BY <2>1, FS_Subset
<1>1. \A p, q \in S : Sooner(b, p, q, key) <=> Sooner(c, p, q, key) BY SameSooner
<1>2. ASSUME NEW s \in SetToSeqs(S), NEW i \in 1..(Len(s) - 1)
      PROVE  s[i] \in S /\ s[i + 1] \in S
  <2>1. Len(s) = Cardinality(S) /\ Cardinality(S) \in Nat /\ s \in Lists(S, Cardinality(S))
    BY <1>0, SequenceOf, ListsAreSequences
  <2>2. i \in 1..Cardinality(S) /\ i + 1 \in 1..Cardinality(S) BY <2>1
  <2> QED BY <2>1, <2>2 DEF Lists
<1> QED BY <1>1, <1>2 DEF Arranged

LEMMA ListedAlike ==
  ASSUME StoredWell
  PROVE  ListsAgree
<1> SUFFICES ASSUME Asked, NEW f \in Filters, NEW b \in Backends, NEW c \in Backends
             PROVE  /\ Found(b, rows[b], f) = Found(c, rows[c], f)
                    /\ \A desc \in BOOLEAN, key \in {"created_at", "deadline"} :
                         KeyTells(key) => List(b, rows[b], f, key, desc)
                                            = List(c, rows[c], f, key, desc)
  BY DEF ListsAgree
<1>1. "git" \in Backends BY DEF Backends
<1>2. rows[b] = rows["git"] /\ rows[c] = rows["git"]
  BY <1>1 DEF Asked, StoredWell, BackendsAgree
<1>3. Found(b, rows[b], f) = Found(c, rows[c], f) BY <1>2, SameMatches DEF Found
<1>4. ASSUME NEW desc \in BOOLEAN, NEW key \in {"created_at", "deadline"}, KeyTells(key)
      PROVE  List(b, rows[b], f, key, desc) = List(c, rows[c], f, key, desc)
  <2>1. Found(b, rows[b], f) \subseteq rows["git"] BY <1>2 DEF Found
  <2>2. Arranged(b, Found(b, rows[b], f), key, desc) = Arranged(c, Found(b, rows[b], f), key, desc)
    BY <1>4, <2>1, SameOrder
  <2> QED BY <1>3, <2>2, ListIsArranged
<1> QED BY <1>3, <1>4

-------------------------------------------------------------------------------
(* The three plans: each tells the dates of the planned posts in ascending *)
(* order, and only one list does.                                          *)

\* A list of dates in ascending order, and one that tells the dates of d so.
Ascending(t) == \A i, j \in DOMAIN t : i < j => t[i] <= t[j]
Tells(t, d) ==
  /\ \E n \in Nat : t \in Lists(Int, n)
  /\ Ascending(t)
  /\ \A x : Occurs(t, x) = Occurs(d, x)

LEMMA NeighboursAscend ==
  ASSUME NEW n \in Nat, NEW t \in Lists(Int, n), \A i \in 1..(n - 1) : t[i] <= t[i + 1]
  PROVE  Ascending(t)
<1>1. DOMAIN t = 1..n /\ \A i \in 1..n : t[i] \in Int BY DEF Lists
<1> DEFINE G == {k \in 0..n : \A i, j \in 1..k : i < j => t[i] <= t[j]}
<1>2. 0 \in G OBVIOUS
<1>3. ASSUME NEW k \in 1..n, k - 1 \in G PROVE k \in G
  <2>1. ASSUME NEW i \in 1..k, NEW j \in 1..k, i < j PROVE t[i] <= t[j]
    <3>1. CASE j < k BY <1>3, <2>1, <3>1
    <3>2. CASE j = k /\ i = k - 1
      <4>1. i \in 1..(n - 1) /\ j = i + 1 BY <2>1, <3>2
      <4> QED BY <4>1
    <3>3. CASE j = k /\ i < k - 1
      <4>1. t[i] <= t[k - 1] BY <1>3, <2>1, <3>3
      <4>2. k - 1 \in 1..(n - 1) /\ k - 1 + 1 = k BY <2>1, <3>3
      <4>3. t[k - 1] <= t[k] BY <4>2
      <4>4. i \in 1..n /\ k - 1 \in 1..n BY <2>1, <4>2
      <4> QED BY <1>1, <3>3, <4>1, <4>3, <4>4
    <3> QED BY <2>1, <3>1, <3>2, <3>3
  <2> QED BY <2>1
<1>4. n \in 0..n OBVIOUS
<1> HIDE DEF G
<1>5. n \in G BY <1>2, <1>3, <1>4, CountInduction
<1> QED BY <1>1, <1>5 DEF G, Ascending

\* Of two lists with the same dates that agree up to a place, the ascending one has
\* no later date there.
LEMMA NextPlace ==
  ASSUME NEW n \in Nat, NEW t \in Lists(Int, n), NEW m \in Nat, NEW u \in Lists(Int, m),
         Ascending(u), \A x : Occurs(u, x) = Occurs(t, x),
         NEW k \in 1..n, k - 1 <= m, \A i \in 1..(k - 1) : t[i] = u[i]
  PROVE  k <= m /\ u[k] <= t[k]
<1> SUFFICES ASSUME ~(k <= m /\ u[k] <= t[k]) PROVE FALSE OBVIOUS
<1> DEFINE a == t[k]
           T == {i \in DOMAIN t : t[i] = a}
           U == {i \in DOMAIN u : u[i] = a}
<1>1. /\ DOMAIN t = 1..n /\ \A i \in 1..n : t[i] \in Int
      /\ DOMAIN u = 1..m /\ \A i \in 1..m : u[i] \in Int
  BY DEF Lists
<1>2. IsFiniteSet(T) /\ k \in T
  <2>1. IsFiniteSet(1..n) BY FS_Interval
  <2>2. T \in SUBSET (1..n) BY <1>1
  <2>3. k \in T BY <1>1
  <2> HIDE DEF T
  <2> QED BY <2>1, <2>2, <2>3, FS_Subset
<1>3. U \subseteq T \ {k}
  <2>1. ASSUME NEW i \in 1..m, u[i] = a PROVE i < k
    <3>1. CASE k <= m
      <4>1. a < u[k] /\ k \in 1..m BY <1>1, <3>1
      <4>2. k < i => u[k] <= u[i] BY <1>1, <4>1 DEF Ascending
      <4> QED BY <1>1, <2>1, <4>1, <4>2
    <3>2. CASE k > m BY <2>1, <3>2
    <3> QED BY <3>1, <3>2
  <2> QED BY <1>1, <2>1
<1>4. Cardinality(U) = Cardinality(T) BY DEF Occurs
<1> HIDE DEF T, U
<1>5. /\ IsFiniteSet(T \ {k}) /\ Cardinality(T \ {k}) = Cardinality(T) - 1
      /\ Cardinality(T) \in Nat
  BY <1>2, FS_RemoveElement, FS_CardinalityType
<1>6. Cardinality(U) <= Cardinality(T \ {k}) BY <1>3, <1>5, FS_Subset
<1> QED BY <1>4, <1>5, <1>6

LEMMA ToldAlike ==
  ASSUME NEW d, NEW t, NEW u, Tells(t, d), Tells(u, d)
  PROVE  t = u
<1>1. PICK n \in Nat : t \in Lists(Int, n) BY DEF Tells
<1>2. PICK m \in Nat : u \in Lists(Int, m) BY DEF Tells
<1>3. Ascending(t) /\ Ascending(u) BY DEF Tells
<1>4. \A x : Occurs(u, x) = Occurs(t, x) BY DEF Tells
<1> DEFINE G == {k \in 0..n : k <= m /\ \A i \in 1..k : t[i] = u[i]}
<1>5. 0 \in G BY <1>2
<1>6. ASSUME NEW k \in 1..n, k - 1 \in G PROVE k \in G
  <2>1. k - 1 <= m /\ \A i \in 1..(k - 1) : t[i] = u[i] BY <1>6
  <2>2. k <= m /\ u[k] <= t[k] BY <1>1, <1>2, <1>3, <1>4, <2>1, NextPlace
  <2>3. k \in 1..m /\ k - 1 <= n BY <1>2, <2>2
  <2>4. t[k] <= u[k]
    <3>1. \A x : Occurs(t, x) = Occurs(u, x) BY <1>4
    <3>2. \A i \in 1..(k - 1) : u[i] = t[i] BY <2>1
    <3> QED BY <1>1, <1>2, <1>3, <2>3, <3>1, <3>2, NextPlace
  <2>5. t[k] = u[k] BY <1>1, <1>2, <2>2, <2>3, <2>4 DEF Lists
  <2>6. \A i \in 1..k : i \in 1..(k - 1) \/ i = k OBVIOUS
  <2> QED BY <2>1, <2>2, <2>5, <2>6
<1>7. n \in 0..n BY <1>1
<1>8. n \in G
  <2> HIDE DEF G
  <2> QED BY <1>1, <1>5, <1>6, <1>7, CountInduction
<1>9. m <= n
  <2>1. ASSUME m > n PROVE FALSE
    <3>1. n + 1 \in 1..m /\ n + 1 - 1 <= n BY <1>1, <1>2, <2>1
    <3>2. \A i \in 1..(n + 1 - 1) : u[i] = t[i] BY <1>8
    <3>3. \A x : Occurs(t, x) = Occurs(u, x) BY <1>4
    <3>4. n + 1 <= n BY <1>1, <1>2, <1>3, <3>1, <3>2, <3>3, NextPlace
    <3> QED BY <1>1, <3>4
  <2> QED BY <1>1, <1>2, <2>1
<1>10. n = m /\ \A i \in 1..n : t[i] = u[i] BY <1>1, <1>2, <1>8, <1>9
<1> QED BY <1>1, <1>2, <1>10 DEF Lists

\* The posts that have a date for the plan, in zone c.
Dated(c) == {p \in Post : PlanDate(p) # {} /\ Only(PlanDate(p)).zone = c}
AllIn(s, c) == \A i \in DOMAIN s : \A m \in PlanDate(s[i]) : m.zone = c

LEMMA PlanDateTyped ==
  ASSUME NEW p \in Post, PlanDate(p) # {}
  PROVE  /\ PlanDate(p) = {Only(PlanDate(p))}
         /\ At(PlanDate(p)) \in Int /\ Only(PlanDate(p)).zone \in Int
BY DatesTyped DEF PlanDate

\* What a database gives back is all in one zone.
LEMMA OneZoneIs ==
  ASSUME StoredWell, NEW b \in Backends, NEW s \in Shuffles(b), b \in Sql \/ OneZone(s)
  PROVE  \E c \in Int : AllIn(s, c)
<1>1. PICK n \in Nat : s \in Lists(Post, n) BY ShufflesAreLists
<1>2. DOMAIN s = 1..n /\ \A i \in 1..n : s[i] \in Post BY <1>1 DEF Lists
<1>3. CASE b \in Sql
  <2>1. PICK k : s \in [1..k -> {AsRead(b, p) : p \in rows[b]}] BY DEF Shuffles
  <2> DEFINE c == IF b = "sqlite" THEN 0 ELSE Here
  <2>2. ASSUME NEW i \in DOMAIN s, NEW m \in PlanDate(s[i]) PROVE m.zone = c
    <3>1. PICK p \in rows[b] : s[i] = AsRead(b, p) BY <2>1
    <3>2. /\ AsRead(b, p).face.due = DateRead(b, p.face.due)
          /\ AsRead(b, p).face.sched = DateRead(b, p.face.sched)
      BY <1>3 DEF AsRead, FaceRead, Sql
    <3>3. m \in DateRead(b, p.face.due) \/ m \in DateRead(b, p.face.sched)
      BY <2>2, <3>1, <3>2 DEF PlanDate
    <3> QED BY <3>3 DEF DateRead
  <2>3. c \in Int BY ZoneAssumption
  <2> HIDE DEF c
  <2> QED BY <2>2, <2>3 DEF AllIn
<1>4. CASE OneZone(s)
  <2>1. CASE \A i \in DOMAIN s : PlanDate(s[i]) = {}
    <3>1. 0 \in Int /\ AllIn(s, 0) BY <2>1 DEF AllIn
    <3> QED BY <3>1
  <2>2. CASE \E i \in DOMAIN s : PlanDate(s[i]) # {}
    <3>1. PICK i \in DOMAIN s : PlanDate(s[i]) # {} BY <2>2
    <3> DEFINE m == Only(PlanDate(s[i]))
    <3>2. m \in PlanDate(s[i]) /\ m.zone \in Int BY <1>2, <3>1, PlanDateTyped
    <3> HIDE DEF m
    <3>3. AllIn(s, m.zone) BY <1>4, <3>1, <3>2 DEF AllIn, OneZone
    <3> QED BY <3>2, <3>3
  <2> QED BY <2>1, <2>2
<1> QED BY <1>3, <1>4

PlannedAt(s, days, g, u) ==
  IF u = {} THEN <<>>
  ELSE IF InPlan(s[Max(u)], days) THEN Append(g[u \ {Max(u)}], s[Max(u)]) ELSE g[u \ {Max(u)}]
IsPlanned(s, days, g) == g = [u \in SUBSET DOMAIN s |-> PlannedAt(s, days, g, u)]

LEMMA PlannedInRounds ==
  ASSUME NEW s, NEW n \in Nat, DOMAIN s = 1..n, NEW days
  PROVE  Rounds("plan", days, <<>>, s, n, Planned(s, days))
<1>1. PICK h : IsLoop("plan", days, <<>>, s, h, 1..n) BY LoopExists
<1>0. \A g, u : LoopAt("plan", days, <<>>, s, g, u) = PlannedAt(s, days, g, u)
  <2>1. \A out, x : Turn("plan", days, out, x) = Chosen(days, out, x) BY OtherTurns
  <2> QED BY <2>1 DEF LoopAt, PlannedAt, Chosen
<1>2. \A g : IsLoop("plan", days, <<>>, s, g, 1..n) <=> IsPlanned(s, days, g)
  BY <1>0 DEF IsLoop, IsPlanned
<1> DEFINE g == CHOOSE f : IsPlanned(s, days, f)
<1>3. IsPlanned(s, days, g) BY <1>1, <1>2
<1>4. Planned(s, days) = g[1..n]
  BY DEF Planned, FoldLeft, MapThenFoldSet, IsPlanned, PlannedAt
<1> HIDE DEF g
<1>5. IsLoop("plan", days, <<>>, s, g, 1..n) BY <1>2, <1>3
<1> QED BY <1>4, <1>5, LoopInRounds

LEMMA DatesAreTyped ==
  ASSUME NEW n \in Nat, NEW s \in Lists(Post, n), NEW c \in Int, AllIn(s, c), NEW days
  PROVE  LET q == Planned(s, days)
             d == Dates(q)
         IN /\ Len(d) \in Nat /\ d \in Lists(Int, Len(d))
            /\ Zones(q) = [i \in 1..Len(d) |-> c]
<1>1. DOMAIN s = 1..n BY DEF Lists
<1>2. PICK f : /\ f[0] = <<>>
               /\ \A k \in 1..n : f[k] = Turn("plan", days, f[k - 1], s[k])
               /\ f[n] = Planned(s, days)
  <2>1. Rounds("plan", days, <<>>, s, n, Planned(s, days)) BY <1>1, PlannedInRounds
  <2> QED BY <2>1 DEF Rounds
<1>3. ASSUME NEW k \in 1..n PROVE f[k] = Chosen(days, f[k - 1], s[k]) /\ s[k] \in Post
  BY <1>2, OtherTurns DEF Lists
<1> DEFINE G == {k \in 0..n : f[k] \in Seq(Dated(c))}
<1>4. 0 \in G
  <2>1. <<>> \in Seq(Dated(c)) /\ 0 \in 0..n OBVIOUS
  <2>2. f[0] \in Seq(Dated(c))
    <3> HIDE DEF G
    <3> QED BY <1>2, <2>1
  <2> QED BY <2>1, <2>2
<1>5. ASSUME NEW k \in 1..n, k - 1 \in G PROVE k \in G
  <2>1. f[k - 1] \in Seq(Dated(c)) BY <1>5
  <2>2. InPlan(s[k], days) => s[k] \in Dated(c)
    <3>1. SUFFICES ASSUME PlanDate(s[k]) # {} PROVE s[k] \in Dated(c) BY DEF InPlan
    <3>2. s[k] \in Post /\ k \in DOMAIN s BY <1>1, <1>3
    <3>3. Only(PlanDate(s[k])) \in PlanDate(s[k]) BY <3>1, <3>2, PlanDateTyped
    <3> QED BY <3>1, <3>2, <3>3 DEF AllIn, Dated
  <2>3. Chosen(days, f[k - 1], s[k]) \in Seq(Dated(c)) BY <2>1, <2>2 DEF Chosen
  <2> QED BY <1>3, <2>3
<1>6. n \in 0..n OBVIOUS
<1> HIDE DEF G
<1>7. n \in G BY <1>4, <1>5, <1>6, CountInduction
<1> DEFINE p == Planned(s, days)
<1>8. p \in Seq(Dated(c)) BY <1>2, <1>7 DEF G
<1> HIDE DEF p
<1>9. Len(p) \in Nat /\ DOMAIN p = 1..Len(p) /\ \A i \in DOMAIN p : p[i] \in Dated(c) BY <1>8
<1>10. \A q \in Dated(c) : At(PlanDate(q)) \in Int /\ Only(PlanDate(q)).zone = c
  BY PlanDateTyped DEF Dated
<1>11. Dates(p) \in Lists(Int, Len(p)) BY <1>9, <1>10 DEF Dates, Lists
<1>12. Len(Dates(p)) = Len(p) BY <1>9, <1>11, ListsAreSequences
<1>13. Zones(p) = [i \in 1..Len(p) |-> c] BY <1>9, <1>10 DEF Zones
<1> QED BY <1>9, <1>11, <1>12, <1>13 DEF p

\* The sort of the API by date, and what it tells.
LEMMA ApiPlanTells ==
  ASSUME NEW s, NEW days \in 1..365, NEW n \in Nat, Dates(Planned(s, days)) \in Lists(Int, n)
  PROVE  Tells(ApiPlan(s, days), Dates(Planned(s, days)))
<1> DEFINE order == [by |-> "date", desc |-> FALSE]
           d     == Dates(Planned(s, days))
           ms    == [k \in 1..n |-> n - 1]
<1>1. order \in Orders /\ order.by = "date" /\ Elem(order) = Int BY DEF Orders, Elem
<1>2. /\ n - 1 <= n /\ n <= n /\ DOMAIN ms = 1..n
      /\ \A k \in 1..n : /\ ms[k] \in (n - k)..(n - 1)
                         /\ ms[k] \in Nat /\ ms[k] < n
  OBVIOUS
<1>3. Len(d) = n
  <2> HIDE DEF d
  <2> QED BY ListsAreSequences DEF d
<1>0. ApiDays(days) = days BY DEF ApiDays
<1>4. ApiPlan(s, days) = DateSort(d, ms)
  BY <1>0, <1>3 DEF ApiPlan, DateSort, Passes, Pass, FoldLeft, MapThenFoldSet
<1>5. ApiPlan(s, days) = Sort(order, d, ms) BY <1>1, <1>4 DEF Sort
<1>6. d \in Lists(Int, n) OBVIOUS
<1> HIDE DEF order, ms, d
<1> DEFINE t == Sort(order, d, ms)
<1>7. Shuffled(Int, n, d, t) BY <1>1, <1>2, <1>6, SortShuffles
<1>8. Settled(order, t, 1) BY <1>1, <1>2, <1>6, SortSorts
<1> HIDE DEF t
<1>9. t \in Lists(Int, n) /\ \A x : Occurs(t, x) = Occurs(d, x) BY <1>7 DEF Shuffled
<1>10. Ascending(t)
  <2>1. \A i, j \in DOMAIN t : i < j => j > 1 BY <1>9 DEF Lists
  <2>2. \A i, j \in DOMAIN t : i < j => Leq(order, t[i], t[j]) BY <1>8, <2>1 DEF Settled
  <2> QED BY <1>1, <2>2 DEF Ascending, Leq
<1> QED BY <1>5, <1>9, <1>10 DEF Tells, t, d

\* jtpost plan: what has been placed before i is not later than what follows, and in
\* the first round at i no date up to place i + k is earlier than the one at i.
Foremost(t, i) == \A a, b \in DOMAIN t : a <= i /\ a < b => t[a] <= t[b]
Least(t, i, k) == \A j \in DOMAIN t : i < j /\ j <= i + k => t[i] <= t[j]

LaterPlaces(n, i) == [k \in 1..(n - i) |-> i + k]

PlacedAt(t, i, g, u) ==
  IF u = {} THEN t
  ELSE IF g[u \ {Max(u)}][LaterPlaces(Len(t), i)[Max(u)]] < g[u \ {Max(u)}][i]
       THEN Swapped(g[u \ {Max(u)}], i, LaterPlaces(Len(t), i)[Max(u)])
       ELSE g[u \ {Max(u)}]
IsPlaced(t, i, g) ==
  g = [u \in SUBSET DOMAIN LaterPlaces(Len(t), i) |-> PlacedAt(t, i, g, u)]

LEMMA PlacedInRounds ==
  ASSUME NEW n \in Nat, NEW t, Len(t) = n, NEW i \in 1..n
  PROVE  Rounds("place", i, t, LaterPlaces(n, i), n - i, Placed(t, i))
<1>1. n - i \in Nat /\ DOMAIN LaterPlaces(n, i) = 1..(n - i) BY DEF LaterPlaces
<1> DEFINE m == n - i
           s == LaterPlaces(n, i)
<1>2. PICK h : IsLoop("place", i, t, s, h, 1..m)
  <2> HIDE DEF m, s
  <2>1. m \in Nat BY <1>1 DEF m
  <2> QED BY <2>1, LoopExists
<1>3. \A g, u : LoopAt("place", i, t, s, g, u) = PlacedAt(t, i, g, u)
  <2>1. \A out, x : Turn("place", i, out, x) = Displaced(i, out, x) BY OtherTurns
  <2> QED BY <2>1 DEF LoopAt, PlacedAt, Displaced
<1>4. \A g : IsLoop("place", i, t, s, g, 1..m) <=> IsPlaced(t, i, g)
  BY <1>1, <1>3 DEF IsLoop, IsPlaced
<1> DEFINE g == CHOOSE f : IsPlaced(t, i, f)
<1>5. IsPlaced(t, i, g) BY <1>2, <1>4
<1>6. Placed(t, i) = g[1..m]
  BY <1>1 DEF Placed, FoldLeft, MapThenFoldSet, IsPlaced, PlacedAt, LaterPlaces
<1>7. m \in Nat BY <1>1
<1> HIDE DEF g, m, s
<1>8. IsLoop("place", i, t, s, g, 1..m) BY <1>4, <1>5
<1>9. Rounds("place", i, t, s, m, g[1..m]) BY <1>7, <1>8, LoopInRounds
<1> QED BY <1>6, <1>9 DEF m, s

\* An exchange of place i with a later one.
LEMMA DisplacedKeeps ==
  ASSUME NEW n \in Nat, NEW t \in Lists(Int, n), NEW i \in 1..n, NEW k \in 1..(n - i),
         Foremost(t, i - 1), Least(t, i, k - 1)
  PROVE  LET v == Displaced(i, t, i + k) IN
         Shuffled(Int, n, t, v) /\ Foremost(v, i - 1) /\ Least(v, i, k)
<1> DEFINE j == i + k
           v == Displaced(i, t, j)
<1>1. /\ i \in 1..n /\ j \in 1..n /\ i < j /\ i # j /\ DOMAIN t = 1..n
      /\ \A a \in 1..n : t[a] \in Int
  BY DEF Lists
<1>2. \A b \in 1..n : i < b /\ b <= i + k /\ b # j => t[i] <= t[b]
  <2>1. \A b \in 1..n : b <= i + k /\ b # i + k => b <= i + (k - 1) OBVIOUS
  <2> QED BY <1>1, <2>1 DEF Least
<1>3. \A a, b \in 1..n : a <= i - 1 /\ a < b => t[a] <= t[b] BY <1>1 DEF Foremost
<1>4. CASE ~(t[j] < t[i])
  <2>1. v = t BY <1>4 DEF Displaced
  <2>2. Least(t, i, k)
    <3> HIDE DEF j
    <3>1. t[i] <= t[j] BY <1>1, <1>4
    <3> QED BY <1>1, <1>2, <3>1 DEF Least
  <2>3. Shuffled(Int, n, t, t) BY DEF Shuffled
  <2> HIDE DEF v
  <2> QED BY <2>1, <2>2, <2>3 DEF v
<1>5. CASE t[j] < t[i]
  <2>1. v = Swapped(t, i, j) BY <1>5 DEF Displaced
  <2> HIDE DEF v
  <2>2. /\ v \in Lists(Int, n) /\ v[i] = t[j] /\ v[j] = t[i] /\ DOMAIN v = 1..n
        /\ \A a \in 1..n : a \notin {i, j} => v[a] = t[a]
    <3> HIDE DEF j
    <3>1. /\ v \in Lists(Int, n) /\ v[i] = t[j] /\ v[j] = t[i]
          /\ \A a \in 1..n : a \notin {i, j} => v[a] = t[a]
      BY <1>1, <2>1, SwappedIs
    <3> QED BY <3>1 DEF Lists
  <2>3. Shuffled(Int, n, t, v)
    <3> HIDE DEF j
    <3> QED BY <1>1, <2>1, SwapShuffles
  <2>4. ASSUME NEW a \in 1..n, NEW b \in 1..n, a <= i - 1, a < b PROVE v[a] <= v[b]
    <3>1. v[a] = t[a] BY <1>1, <2>2, <2>4
    <3>2. t[a] <= t[i] /\ t[a] <= t[j] /\ t[a] <= t[b]
      <4>1. a < i /\ a < j BY <1>1, <2>4
      <4> QED BY <1>1, <1>3, <2>4, <4>1
    <3> QED BY <2>2, <3>1, <3>2
  <2>5. ASSUME NEW b \in 1..n, i < b, b <= i + k PROVE v[i] <= v[b]
    <3>1. CASE b = j BY <1>1, <1>5, <2>2, <3>1
    <3>2. CASE b # j
      <4>1. t[i] <= t[b] /\ v[b] = t[b] BY <1>1, <1>2, <2>2, <2>5, <3>2
      <4> QED BY <1>1, <1>5, <2>2, <4>1
    <3> QED BY <3>1, <3>2
  <2>6. Foremost(v, i - 1) BY <2>2, <2>4 DEF Foremost
  <2>7. Least(v, i, k) BY <2>2, <2>5 DEF Least
  <2> QED BY <2>3, <2>6, <2>7 DEF v
<1> QED BY <1>4, <1>5

\* The rounds at i fill place i.
LEMMA PlacedFills ==
  ASSUME NEW n \in Nat, NEW t \in Lists(Int, n), NEW i \in 1..n, Foremost(t, i - 1)
  PROVE  Shuffled(Int, n, t, Placed(t, i)) /\ Foremost(Placed(t, i), i)
<1> DEFINE m == n - i
<1>1. m \in Nat /\ i \in Nat OBVIOUS
<1>2. PICK f : /\ f[0] = t
               /\ \A k \in 1..m : f[k] = Turn("place", i, f[k - 1], LaterPlaces(n, i)[k])
               /\ f[m] = Placed(t, i)
  <2>1. Len(t) = n BY ListsAreSequences
  <2>2. Rounds("place", i, t, LaterPlaces(n, i), m, Placed(t, i)) BY <2>1, PlacedInRounds
  <2> HIDE DEF m
  <2> QED BY <2>2 DEF Rounds
<1>3. ASSUME NEW k \in 1..m PROVE f[k] = Displaced(i, f[k - 1], i + k)
  BY <1>2, OtherTurns DEF LaterPlaces
<1> DEFINE G == {k \in 0..m : Shuffled(Int, n, t, f[k]) /\ Foremost(f[k], i - 1) /\ Least(f[k], i, k)}
<1>4. 0 \in G
  <2>1. Shuffled(Int, n, t, t) BY DEF Shuffled
  <2>2. Least(t, i, 0) BY DEF Least, Lists
  <2>3. 0 \in 0..m BY <1>1
  <2> QED BY <1>2, <2>1, <2>2, <2>3
<1>5. ASSUME NEW k \in 1..m, k - 1 \in G PROVE k \in G
  <2> DEFINE u == f[k - 1]
  <2>1. Shuffled(Int, n, t, u) /\ Foremost(u, i - 1) /\ Least(u, i, k - 1) BY <1>5
  <2>2. u \in Lists(Int, n) BY <2>1 DEF Shuffled
  <2>3. f[k] = Displaced(i, u, i + k) /\ k \in 0..m BY <1>3
  <2> HIDE DEF u
  <2>4. /\ Shuffled(Int, n, u, f[k]) /\ Foremost(f[k], i - 1) /\ Least(f[k], i, k)
    BY <2>1, <2>2, <2>3, DisplacedKeeps
  <2>5. Shuffled(Int, n, t, f[k]) BY <2>1, <2>4 DEF Shuffled
  <2> QED BY <2>3, <2>4, <2>5
<1>6. m \in 0..m BY <1>1
<1> DEFINE v == f[m]
<1>7. m \in G
  <2> HIDE DEF G, m
  <2> QED BY <1>1, <1>4, <1>5, <1>6, CountInduction
<1>8. Shuffled(Int, n, t, v) /\ Foremost(v, i - 1) /\ Least(v, i, n - i) BY <1>7
<1>9. Placed(t, i) = v BY <1>2
<1> HIDE DEF v, m, G
<1>10. DOMAIN v = 1..n BY <1>8 DEF Shuffled, Lists
<1>11. Foremost(v, i)
  <2>1. ASSUME NEW a \in 1..n, NEW b \in 1..n, a <= i, a < b PROVE v[a] <= v[b]
    <3>1. CASE a <= i - 1 BY <1>8, <1>10, <2>1, <3>1 DEF Foremost
    <3>2. CASE a = i BY <1>8, <1>10, <2>1, <3>2 DEF Least
    <3> QED BY <2>1, <3>1, <3>2
  <2> QED BY <1>10, <2>1 DEF Foremost
<1> QED BY <1>8, <1>9, <1>11

FilledAt(d, g, u) ==
  IF u = {} THEN d ELSE Placed(g[u \ {Max(u)}], Places(Len(d) - 1)[Max(u)])
IsFilled(d, g) == g = [u \in SUBSET DOMAIN Places(Len(d) - 1) |-> FilledAt(d, g, u)]
Filled(d)      == FoldLeft(Placed, d, [i \in 1..(Len(d) - 1) |-> i])

LEMMA FilledInRounds ==
  ASSUME NEW d, NEW m \in Nat, 1..(Len(d) - 1) = 1..m
  PROVE  Rounds("fill", 0, d, Places(m), m, Filled(d))
<1>1. Places(Len(d) - 1) = Places(m) /\ DOMAIN Places(m) = 1..m BY DEF Places
<1>2. PICK h : IsLoop("fill", 0, d, Places(m), h, 1..m) BY LoopExists
<1>3. \A g, u : LoopAt("fill", 0, d, Places(m), g, u) = FilledAt(d, g, u)
  <2>1. \A out, x : Turn("fill", 0, out, x) = Placed(out, x) BY OtherTurns
  <2> QED BY <1>1, <2>1 DEF LoopAt, FilledAt
<1>4. \A g : IsLoop("fill", 0, d, Places(m), g, 1..m) <=> IsFilled(d, g)
  BY <1>1, <1>3 DEF IsLoop, IsFilled
<1> DEFINE g == CHOOSE f : IsFilled(d, f)
<1>5. IsFilled(d, g) BY <1>2, <1>4
<1>6. Filled(d) = g[DOMAIN Places(Len(d) - 1)]
  BY DEF Filled, FoldLeft, MapThenFoldSet, IsFilled, FilledAt, Places
<1> HIDE DEF g
<1>7. IsLoop("fill", 0, d, Places(m), g, 1..m) BY <1>4, <1>5
<1>8. Filled(d) = g[1..m] BY <1>1, <1>6
<1> QED BY <1>7, <1>8, LoopInRounds

LEMMA CliPlanTells ==
  ASSUME NEW s, NEW days, NEW n \in Nat, Dates(Planned(s, days)) \in Lists(Int, n)
  PROVE  Tells(CliPlan(s, days), Dates(Planned(s, days)))
<1> DEFINE d == Dates(Planned(s, days))
           m == IF n = 0 THEN 0 ELSE n - 1
<1>1. CliPlan(s, days) = Filled(d) BY DEF CliPlan, Filled
<1>2. d \in Lists(Int, n) OBVIOUS
<1> HIDE DEF d
<1>3. Len(d) = n BY <1>2, ListsAreSequences
<1>4. m \in Nat /\ 1..(n - 1) = 1..m /\ \A k \in 1..m : k \in 1..n OBVIOUS
<1>5. n = 0 \/ m = n - 1 OBVIOUS
<1> HIDE DEF m
<1>6. PICK f : /\ f[0] = d
               /\ \A k \in 1..m : f[k] = Turn("fill", 0, f[k - 1], Places(m)[k])
               /\ f[m] = Filled(d)
  <2>1. Rounds("fill", 0, d, Places(m), m, Filled(d)) BY <1>3, <1>4, FilledInRounds
  <2> QED BY <2>1 DEF Rounds
<1>7. ASSUME NEW k \in 1..m PROVE f[k] = Placed(f[k - 1], k)
  BY <1>6, OtherTurns DEF Places
<1> DEFINE G == {k \in 0..m : Shuffled(Int, n, d, f[k]) /\ Foremost(f[k], k)}
<1>8. 0 \in G
  <2>1. Shuffled(Int, n, d, d) BY <1>2 DEF Shuffled
  <2>2. Foremost(d, 0) BY <1>2 DEF Foremost, Lists
  <2> QED BY <1>4, <1>6, <2>1, <2>2
<1>9. ASSUME NEW k \in 1..m, k - 1 \in G PROVE k \in G
  <2> DEFINE u == f[k - 1]
  <2>1. Shuffled(Int, n, d, u) /\ Foremost(u, k - 1) BY <1>9
  <2>2. u \in Lists(Int, n) BY <2>1 DEF Shuffled
  <2>3. f[k] = Placed(u, k) /\ k \in 0..m /\ k \in 1..n BY <1>4, <1>7
  <2> HIDE DEF u
  <2>4. Shuffled(Int, n, u, f[k]) /\ Foremost(f[k], k) BY <2>1, <2>2, <2>3, PlacedFills
  <2>5. Shuffled(Int, n, d, f[k]) BY <2>1, <2>4 DEF Shuffled
  <2> QED BY <2>3, <2>4, <2>5
<1>10. m \in 0..m BY <1>4
<1> HIDE DEF G
<1>11. m \in G BY <1>4, <1>8, <1>9, <1>10, CountInduction
<1> DEFINE t == f[m]
<1>12. Shuffled(Int, n, d, t) /\ Foremost(t, m) BY <1>11 DEF G
<1> HIDE DEF t
<1>13. t \in Lists(Int, n) /\ DOMAIN t = 1..n /\ \A x : Occurs(t, x) = Occurs(d, x)
  BY <1>12 DEF Shuffled, Lists
<1>14. Ascending(t) BY <1>4, <1>5, <1>12, <1>13 DEF Foremost, Ascending
<1> QED BY <1>1, <1>6, <1>13, <1>14 DEF Tells, t, d

\* The page of the plan.  The members of S in the order of a number each has.
InKeyOrder(S, key) ==
  {s \in SetToSeqs(S) : \A i \in 1..(Len(s) - 1) : ~(key[s[i + 1]] < key[s[i]])}

LEMMA LastExists ==
  ASSUME NEW S, IsFiniteSet(S), NEW key, \A x \in S : key[x] \in Int
  PROVE  \A s \in SUBSET S : s # {} => \E x \in s : \A y \in s : key[y] <= key[x]
<1> DEFINE F == {s \in SUBSET S : s # {} => \E x \in s : \A y \in s : key[y] <= key[x]}
<1>1. ASSUME NEW s \in SUBSET S, \A u \in SUBSET s : u # s => u \in F
      PROVE  s \in F
  <2>1. SUFFICES ASSUME s # {} PROVE \E x \in s : \A y \in s : key[y] <= key[x] OBVIOUS
  <2>2. PICK z \in s : TRUE BY <2>1
  <2> DEFINE u == s \ {z}
  <2>3. u \in F BY <1>1
  <2>4. CASE u = {} BY <2>4
  <2>5. CASE u # {}
    <3>1. PICK x \in u : \A y \in u : key[y] <= key[x] BY <2>3, <2>5
    <3>2. key[x] \in Int /\ key[z] \in Int /\ \A y \in s : key[y] \in Int OBVIOUS
    <3>3. CASE key[z] <= key[x] BY <3>1, <3>3
    <3>4. CASE key[x] < key[z] BY <3>1, <3>2, <3>4
    <3> QED BY <3>2, <3>3, <3>4
  <2> QED BY <2>4, <2>5
<1> HIDE DEF F
<1>2. SUBSET S \subseteq F BY <1>1, SubsetInduction
<1> QED BY <1>2 DEF F

LEMMA KeyOrderExists ==
  ASSUME NEW S, IsFiniteSet(S), NEW key, \A x \in S : key[x] \in Int
  PROVE  InKeyOrder(S, key) # {}
<1> DEFINE F == {s \in SUBSET S : InKeyOrder(s, key) # {}}
<1>1. ASSUME NEW s \in SUBSET S, \A u \in SUBSET s : u # s => u \in F
      PROVE  s \in F
  <2>1. CASE s = {}
    <3>1. Cardinality({}) = 0 BY FS_EmptySet
    <3>2. <<>> \in SetToSeqs({}) BY <3>1 DEF SetToSeqs
    <3>3. <<>> \in InKeyOrder({}, key) BY <3>2 DEF InKeyOrder
    <3> QED BY <2>1, <3>3
  <2>2. CASE s # {}
    <3>1. PICK x \in s : \A y \in s : key[y] <= key[x] BY <2>2, LastExists
    <3> DEFINE u == s \ {x}
               n == Cardinality(s)
    <3>2. IsFiniteSet(s) BY FS_Subset
    <3>3. IsFiniteSet(u) /\ n \in Nat /\ Cardinality(u) = n - 1 /\ Cardinality(u) \in Nat
      BY <3>2, FS_RemoveElement, FS_CardinalityType
    <3>4. PICK e : e \in InKeyOrder(u, key) BY <1>1
    <3> HIDE DEF n
    <3>5. /\ e \in Lists(u, n - 1) /\ \A i, j \in 1..(n - 1) : i # j => e[i] # e[j]
          /\ \A i \in 1..(n - 2) : ~(key[e[i + 1]] < key[e[i]])
      <4>1. e \in SetToSeqs(u) BY <3>4 DEF InKeyOrder
      <4>2. e \in Lists(u, n - 1) /\ \A i, j \in 1..(n - 1) : i # j => e[i] # e[j]
        BY <3>3, <4>1, SequenceOf
      <4>3. Len(e) = n - 1 BY <3>3, <4>2, ListsAreSequences
      <4>4. Len(e) - 1 = n - 2 BY <3>3, <4>3
      <4> QED BY <3>4, <4>2, <4>4 DEF InKeyOrder
    <3> DEFINE v == [i \in 1..n |-> IF i = n THEN x ELSE e[i]]
    <3>6. v \in [1..n -> s] /\ \A i, j \in 1..n : i # j => v[i] # v[j]
      <4>1. \A i \in 1..n : i = n \/ i \in 1..(n - 1) BY <3>3
      <4>2. \A i \in 1..(n - 1) : e[i] \in u BY <3>5 DEF Lists
      <4> QED BY <3>5, <4>1, <4>2
    <3>7. ASSUME NEW i \in 1..(n - 1) PROVE ~(key[v[i + 1]] < key[v[i]])
      <4>1. i \in 1..n /\ i + 1 \in 1..n /\ i # n /\ v[i] = e[i] /\ e[i] \in u
        BY <3>3, <3>5 DEF Lists
      <4>2. CASE i + 1 = n
        <5>1. v[i + 1] = x BY <4>1, <4>2
        <5> HIDE DEF v
        <5> QED BY <3>1, <4>1, <5>1
      <4>3. CASE i + 1 # n
        <5>1. i \in 1..(n - 2) /\ v[i + 1] = e[i + 1] BY <3>3, <4>1, <4>3
        <5> HIDE DEF v
        <5> QED BY <3>5, <4>1, <5>1
      <4> QED BY <4>2, <4>3
    <3>8. Len(v) = n BY <3>3
    <3> HIDE DEF v
    <3>9. v \in SetToSeqs(s) BY <3>6 DEF SetToSeqs, n
    <3>10. v \in InKeyOrder(s, key) BY <3>7, <3>8, <3>9 DEF InKeyOrder
    <3> QED BY <3>10
  <2> QED BY <2>1, <2>2
<1>2. S \in SUBSET S OBVIOUS
<1> HIDE DEF F
<1>3. SUBSET S \subseteq F BY <1>1, SubsetInduction
<1> QED BY <1>2, <1>3 DEF F

LEMMA KeyOrderIs ==
  ASSUME NEW S, IsFiniteSet(S), NEW key, \A x \in S : key[x] \in Int
  PROVE  LET s == Only(InKeyOrder(S, key))
             m == Cardinality(S)
         IN /\ m \in Nat /\ s \in Lists(S, m)
            /\ \A i, j \in 1..m : i # j => s[i] # s[j]
            /\ \A x \in S : \E i \in 1..m : s[i] = x
            /\ \A i, j \in 1..m : i < j => key[s[i]] <= key[s[j]]
<1> DEFINE s == Only(InKeyOrder(S, key))
           m == Cardinality(S)
<1>1. s \in InKeyOrder(S, key) BY KeyOrderExists DEF Only
<1> HIDE DEF s
<1>2. m \in Nat /\ s \in Lists(S, m) /\ \A i, j \in 1..m : i # j => s[i] # s[j]
  <2>1. s \in SetToSeqs(S) BY <1>1 DEF InKeyOrder
  <2> QED BY <2>1, SequenceOf
<1>3. Len(s) = m BY <1>2, ListsAreSequences
<1>4. \A x \in S : \E i \in 1..m : s[i] = x
  <2> HIDE DEF m
  <2>1. s \in Injection(1..m, S) BY <1>2 DEF Lists, Injection, IsInjective
  <2>2. IsFiniteSet(1..m) /\ Cardinality(1..m) = m BY <1>2, FS_Interval
  <2>3. Cardinality(S) = m BY DEF m
  <2>4. s \in Surjection(1..m, S) BY <2>1, <2>2, <2>3, FS_Injection
  <2> QED BY <2>4 DEF Surjection
<1>5. \A i, j \in 1..m : i < j => key[s[i]] <= key[s[j]]
  <2> HIDE DEF m
  <2> DEFINE t == [i \in 1..m |-> key[s[i]]]
  <2>1. \A i \in 1..m : s[i] \in S BY <1>2 DEF Lists
  <2>2. t \in Lists(Int, m) /\ DOMAIN t = 1..m BY <2>1 DEF Lists
  <2>3. ASSUME NEW i \in 1..(m - 1) PROVE t[i] <= t[i + 1]
    <3>1. i \in 1..m /\ i + 1 \in 1..m BY <1>2
    <3>2. ~(key[s[i + 1]] < key[s[i]]) BY <1>1, <1>3 DEF InKeyOrder
    <3>3. key[s[i]] \in Int /\ key[s[i + 1]] \in Int BY <2>1, <3>1
    <3> QED BY <3>1, <3>2, <3>3
  <2>4. Ascending(t)
    <3> HIDE DEF t
    <3> QED BY <1>2, <2>2, <2>3, NeighboursAscend
  <2> QED BY <2>2, <2>4 DEF Ascending
<1> QED BY <1>2, <1>4, <1>5 DEF s

\* The day of a date in zone c.
DayIn(c, x) == (x + c) \div Day

LEMMA DayTyped == \A c, x \in Int : DayIn(c, x) \in Int
<1>1. Day = 172800 BY DEF Day, Hour, Second
<1> QED BY <1>1 DEF DayIn

LEMMA LaterDay == \A c, x, y \in Int : DayIn(c, x) < DayIn(c, y) => x <= y
<1>1. Day = 172800 BY DEF Day, Hour, Second
<1>2. \A v, w \in Int : v \div 172800 < w \div 172800 => v <= w OBVIOUS
<1> SUFFICES ASSUME NEW c \in Int, NEW x \in Int, NEW y \in Int,
                    DayIn(c, x) < DayIn(c, y)
             PROVE  x <= y
  OBVIOUS
<1>3. x + c <= y + c BY <1>1, <1>2 DEF DayIn
<1> QED BY <1>3

\* The zones of n dates, all the same.
AllZones(n, c) == [i \in 1..n |-> c]

\* The group of a day: its dates, in order.
LEMMA PlacesOfDay ==
  ASSUME NEW n \in Nat, NEW d \in Lists(Int, n), NEW c \in Int, NEW day
  PROVE  DayPlaces(d, AllZones(n, c), day) = {i \in 1..n : DayIn(c, d[i]) = day}
BY DEF DayPlaces, DayOf, DayIn, AllZones, Lists

LEMMA GroupIs ==
  ASSUME NEW n \in Nat, NEW d \in Lists(Int, n), NEW c \in Int, NEW day
  PROVE  LET g == Group(d, AllZones(n, c), day) IN
         /\ \E m \in Nat : g \in Lists(Int, m)
         /\ Ascending(g)
         /\ \A k \in DOMAIN g : DayIn(c, g[k]) = day
         /\ \A x : Occurs(g, x) = IF DayIn(c, x) = day THEN Occurs(d, x) ELSE 0
<1> DEFINE S == DayPlaces(d, AllZones(n, c), day)
           s == Only(InKeyOrder(S, d))
           m == Cardinality(S)
           g == Group(d, AllZones(n, c), day)
<1>1. DOMAIN d = 1..n /\ \A i \in 1..n : d[i] \in Int BY DEF Lists
<1>0. S = {i \in 1..n : DayIn(c, d[i]) = day} BY PlacesOfDay
<1>3. g = [k \in DOMAIN s |-> d[s[k]]] BY DEF Group, Ordered, InKeyOrder
<1> HIDE DEF S
<1>2. S \in SUBSET (1..n) /\ \A i \in S : DayIn(c, d[i]) = day BY <1>0
<1>4. IsFiniteSet(S)
  <2>1. IsFiniteSet(1..n) BY FS_Interval
  <2> HIDE DEF S
  <2> QED BY <1>2, <2>1, FS_Subset
<1>5. \A i \in S : d[i] \in Int BY <1>1, <1>2
<1> HIDE DEF g
<1>6. /\ m \in Nat /\ s \in Lists(S, m)
      /\ \A i, j \in 1..m : i # j => s[i] # s[j]
      /\ \A x \in S : \E i \in 1..m : s[i] = x
      /\ \A i, j \in 1..m : i < j => d[s[i]] <= d[s[j]]
  BY <1>4, <1>5, KeyOrderIs
<1> HIDE DEF s, m
<1>7. DOMAIN s = 1..m /\ \A k \in 1..m : s[k] \in S BY <1>6 DEF Lists
<1>8. /\ g \in Lists(Int, m) /\ DOMAIN g = 1..m /\ \A k \in 1..m : g[k] = d[s[k]]
  BY <1>3, <1>5, <1>7 DEF Lists
<1>9. Ascending(g) BY <1>6, <1>8 DEF Ascending
<1>10. \A k \in DOMAIN g : DayIn(c, g[k]) = day BY <1>2, <1>7, <1>8, ZenonT(40)
<1>11. ASSUME NEW x PROVE Occurs(g, x) = IF DayIn(c, x) = day THEN Occurs(d, x) ELSE 0
  <2> DEFINE K == {k \in DOMAIN g : g[k] = x}
             I == {i \in DOMAIN d : d[i] = x}
             f == [k \in K |-> s[k]]
  <2>1. CASE DayIn(c, x) # day
    <3>1. K = {} BY <1>10, <2>1
    <3> QED BY <2>1, <3>1, FS_EmptySet DEF Occurs
  <2>2. CASE DayIn(c, x) = day
    <3>1. \A k \in K : f[k] \in I BY <1>1, <1>2, <1>7, <1>8
    <3>2. \A k, l \in K : f[k] = f[l] => k = l BY <1>6, <1>8
    <3>3. \A i \in I : \E k \in K : f[k] = i
      <4> TAKE i \in I
      <4>1. i \in S BY <1>0, <1>1, <2>2
      <4>2. PICK k \in 1..m : s[k] = i BY <1>6, <4>1
      <4>3. k \in K BY <1>8, <4>2
      <4> QED BY <4>2, <4>3
    <3>4. IsFiniteSet(K)
      <4>1. IsFiniteSet(1..m) BY <1>6, FS_Interval
      <4>2. K \in SUBSET (1..m) BY <1>8
      <4> HIDE DEF K
      <4> QED BY <4>1, <4>2, FS_Subset
    <3>5. f \in [K -> I]
      <4> HIDE DEF I
      <4> QED BY <3>1
    <3>6. ExistsBijection(K, I)
      <4> HIDE DEF f, K, I
      <4>1. f \in Bijection(K, I)
        BY <3>2, <3>3, <3>5 DEF Bijection, Injection, Surjection, IsInjective
      <4> QED BY <4>1 DEF ExistsBijection
    <3>7. Cardinality(I) = Cardinality(K)
      <4> HIDE DEF f, K, I
      <4> QED BY <3>4, <3>6, FS_Bijection
    <3> QED BY <2>2, <3>7 DEF Occurs
  <2> QED BY <2>1, <2>2
<1> QED BY <1>6, <1>8, <1>9, <1>10, <1>11 DEF g

\* One list of dates after another.
LEMMA OneAfterAnother ==
  ASSUME NEW a \in Nat, NEW u \in Lists(Int, a), NEW b \in Nat, NEW v \in Lists(Int, b),
         Ascending(u), Ascending(v), \A i \in 1..a, j \in 1..b : u[i] <= v[j]
  PROVE  /\ u \o v \in Lists(Int, a + b)
         /\ Ascending(u \o v)
         /\ \A i \in 1..(a + b) : \/ i \in 1..a /\ (u \o v)[i] = u[i]
                                  \/ i - a \in 1..b /\ (u \o v)[i] = v[i - a]
         /\ \A x : Occurs(u \o v, x) = Occurs(u, x) + Occurs(v, x)
<1> DEFINE w == u \o v
<1>1. Len(u) = a /\ Len(v) = b /\ u \in Seq(Int) /\ v \in Seq(Int)
      /\ DOMAIN u = 1..a /\ DOMAIN v = 1..b
  BY ListsAreSequences
<1>2. /\ w \in Seq(Int) /\ Len(w) = a + b
      /\ \A i \in 1..(a + b) : w[i] = IF i <= a THEN u[i] ELSE v[i - a]
  BY <1>1
<1> HIDE DEF w
<1>3. w \in Lists(Int, a + b) /\ DOMAIN w = 1..(a + b) BY <1>2 DEF Lists
<1>4. \A i \in 1..(a + b) : \/ i \in 1..a /\ w[i] = u[i]
                            \/ i - a \in 1..b /\ i > a /\ w[i] = v[i - a]
  BY <1>2
<1>5. ASSUME NEW i \in 1..(a + b), NEW j \in 1..(a + b), i < j PROVE w[i] <= w[j]
  <2>1. CASE j <= a
    <3>1. i \in 1..a /\ j \in 1..a BY <1>5, <2>1
    <3>2. w[i] = u[i] /\ w[j] = u[j] BY <1>2, <1>5, <2>1
    <3> QED BY <1>1, <1>5, <3>1, <3>2 DEF Ascending
  <2>2. CASE i > a
    <3>1. i - a \in 1..b /\ j - a \in 1..b /\ i - a < j - a BY <1>5, <2>2
    <3>2. w[i] = v[i - a] /\ w[j] = v[j - a] BY <1>2, <1>5, <2>2
    <3> QED BY <1>1, <3>1, <3>2 DEF Ascending
  <2>3. CASE i <= a /\ j > a
    <3>1. i \in 1..a /\ j - a \in 1..b BY <2>3
    <3>2. w[i] = u[i] /\ w[j] = v[j - a] BY <1>2, <2>3
    <3> QED BY <3>1, <3>2
  <2> QED BY <2>1, <2>2, <2>3
<1>6. Ascending(w) BY <1>3, <1>5 DEF Ascending
<1>7. ASSUME NEW x PROVE Occurs(w, x) = Occurs(u, x) + Occurs(v, x)
  <2> DEFINE A == {i \in DOMAIN u : u[i] = x}
             B == {i \in DOMAIN v : v[i] = x}
             C == {i \in DOMAIN w : w[i] = x}
             D == {i \in (a + 1)..(a + b) : w[i] = x}
             f == [i \in B |-> a + i]
  <2>1. IsFiniteSet(A) /\ IsFiniteSet(B)
    <3>1. IsFiniteSet(1..a) /\ IsFiniteSet(1..b) BY FS_Interval
    <3>2. A \in SUBSET (1..a) /\ B \in SUBSET (1..b) BY <1>1
    <3> HIDE DEF A, B
    <3> QED BY <3>1, <3>2, FS_Subset
  <2>2. \A i \in B : f[i] \in D
    <3> TAKE i \in B
    <3>1. i \in 1..b /\ v[i] = x BY <1>1
    <3>2. PICK k \in (a + 1)..(a + b) : k = a + i BY <3>1
    <3>3. k \in 1..(a + b) /\ ~(k <= a) /\ k - a = i BY <3>1, <3>2
    <3>4. w[k] = v[k - a] BY <1>2, <3>3
    <3>5. w[k] = x BY <3>1, <3>3, <3>4
    <3> QED BY <3>2, <3>5
  <2>3. \A i, j \in B : f[i] = f[j] => i = j BY <1>1
  <2>4. \A k \in D : \E i \in B : f[i] = k
    <3> TAKE k \in D
    <3>1. k - a \in 1..b /\ k \in 1..(a + b) /\ ~(k <= a) /\ a + (k - a) = k OBVIOUS
    <3>2. v[k - a] = x BY <1>2, <3>1
    <3>3. k - a \in B BY <1>1, <3>1, <3>2
    <3> QED BY <3>1, <3>3
  <2>5. f \in [B -> D]
    <3> HIDE DEF D
    <3> QED BY <2>2
  <2>6. C = A \cup D /\ A \cap D = {}
    <3>1. \A i : i \in 1..(a + b) <=> i \in 1..a \/ i \in (a + 1)..(a + b) OBVIOUS
    <3>2. \A i \in 1..a : i \notin (a + 1)..(a + b) /\ w[i] = u[i] BY <1>2
    <3> QED BY <1>1, <1>3, <3>1, <3>2
  <2>7. IsFiniteSet(D) /\ Cardinality(D) = Cardinality(B)
    <3> HIDE DEF f, B, D
    <3>1. f \in Bijection(B, D)
      BY <2>3, <2>4, <2>5 DEF Bijection, Injection, Surjection, IsInjective
    <3>2. ExistsBijection(B, D) BY <3>1 DEF ExistsBijection
    <3> QED BY <2>1, <3>2, FS_Bijection
  <2>8. Cardinality(C) = Cardinality(A) + Cardinality(D)
    <3> HIDE DEF A, C, D
    <3>1. Cardinality(A) \in Nat /\ Cardinality(D) \in Nat BY <2>1, <2>7, FS_CardinalityType
    <3>2. Cardinality(A \cap D) = 0 BY <2>6, FS_EmptySet
    <3>3. Cardinality(A \cup D) = Cardinality(A) + Cardinality(D) - Cardinality(A \cap D)
      BY <2>1, <2>7, FS_Union
    <3> QED BY <2>6, <3>1, <3>2, <3>3
  <2> QED BY <2>7, <2>8 DEF Occurs
<1> QED BY <1>3, <1>4, <1>6, <1>7 DEF w

\* The days that have a date, and the page of dates d in zones z.
DaysOf(d, z)   == {DayOf(d, z, i) : i \in DOMAIN d}
DayOrder(d, z) == Ordered(DaysOf(d, z), LAMBDA x, y : Midnight(d, z, x) < Midnight(d, z, y))
Page(d, z)     == FoldLeft(LAMBDA out, day : out \o Group(d, z, day), <<>>, DayOrder(d, z))

PageAt(d, z, g, u) ==
  IF u = {} THEN <<>> ELSE g[u \ {Max(u)}] \o Group(d, z, DayOrder(d, z)[Max(u)])
IsPage(d, z, g) == g = [u \in SUBSET DOMAIN DayOrder(d, z) |-> PageAt(d, z, g, u)]

LEMMA PageInRounds ==
  ASSUME NEW d, NEW z, NEW m \in Nat, DOMAIN DayOrder(d, z) = 1..m
  PROVE  Rounds("page", [d |-> d, z |-> z], <<>>, DayOrder(d, z), m, Page(d, z))
<1> DEFINE o == [d |-> d, z |-> z]
<1>0. o.d = d /\ o.z = z OBVIOUS
<1> HIDE DEF o
<1>1. PICK h : IsLoop("page", o, <<>>, DayOrder(d, z), h, 1..m) BY LoopExists
<1>2. \A g, u : LoopAt("page", o, <<>>, DayOrder(d, z), g, u) = PageAt(d, z, g, u)
  <2>1. \A out, x : Turn("page", o, out, x) = WithDay(o, out, x) BY OtherTurns
  <2> QED BY <1>0, <2>1 DEF LoopAt, PageAt, WithDay
<1>3. \A g : IsLoop("page", o, <<>>, DayOrder(d, z), g, 1..m) <=> IsPage(d, z, g)
  BY <1>2 DEF IsLoop, IsPage
<1> DEFINE g == CHOOSE f : IsPage(d, z, f)
<1>4. IsPage(d, z, g) BY <1>1, <1>3
<1>5. Page(d, z) = g[DOMAIN DayOrder(d, z)]
  BY DEF Page, FoldLeft, MapThenFoldSet, IsPage, PageAt
<1> HIDE DEF g
<1>6. IsLoop("page", o, <<>>, DayOrder(d, z), g, 1..m) BY <1>3, <1>4
<1>7. Rounds("page", o, <<>>, DayOrder(d, z), m, Page(d, z)) BY <1>5, <1>6, LoopInRounds
<1> QED BY <1>7 DEF o

LEMMA MidnightIs ==
  ASSUME NEW n \in Nat, NEW d \in Lists(Int, n), NEW c \in Int, NEW i \in 1..n
  PROVE  LET x == DayIn(c, d[i]) IN Midnight(d, AllZones(n, c), x) = Day * x - c
<1> DEFINE x     == DayIn(c, d[i])
           group == DayPlaces(d, AllZones(n, c), x)
           first == CHOOSE j \in group : \A k \in group : j <= k
           key   == [j \in 1..n |-> -j]
<1>1. group = {j \in 1..n : DayIn(c, d[j]) = x} BY PlacesOfDay
<1>2. Midnight(d, AllZones(n, c), x) = Day * x - AllZones(n, c)[first] BY DEF Midnight
<1> HIDE DEF group
<1>3. group \in SUBSET (1..n) /\ group # {} BY <1>1
<1>4. PICK j \in group : \A k \in group : key[k] <= key[j]
  <2>1. IsFiniteSet(1..n) /\ \A k \in 1..n : key[k] \in Int BY FS_Interval
  <2> HIDE DEF key
  <2> QED BY <1>3, <2>1, LastExists
<1>5. \A k \in group : j <= k
  <2>1. \A k \in group : k \in Int /\ key[k] = -k BY <1>3
  <2> HIDE DEF key
  <2>2. \A k \in group : -k <= -j BY <1>4, <2>1
  <2> QED BY <2>1, <2>2
<1>6. first \in 1..n BY <1>3, <1>5
<1> HIDE DEF first
<1>7. AllZones(n, c)[first] = c BY <1>6 DEF AllZones
<1> QED BY <1>2, <1>7

LEMMA DaysAscend ==
  ASSUME NEW n \in Nat, NEW d \in Lists(Int, n), NEW c \in Int
  PROVE  LET order == DayOrder(d, AllZones(n, c)) IN
         \E m \in Nat : /\ DOMAIN order = 1..m
                        /\ \A l \in 1..m : order[l] \in Int
                        /\ \A k, l \in 1..m : k < l => order[k] < order[l]
                        /\ \A i \in DOMAIN d : \E l \in 1..m : order[l] = DayIn(c, d[i])
<1> DEFINE z   == AllZones(n, c)
           S   == DaysOf(d, z)
           key == [x \in S |-> Midnight(d, z, x)]
           s   == Only(InKeyOrder(S, key))
           m   == Cardinality(S)
<1>1. DOMAIN d = 1..n /\ \A i \in 1..n : d[i] \in Int BY DEF Lists
<1>2. S = {DayIn(c, d[i]) : i \in 1..n}
  BY <1>1 DEF DaysOf, DayOf, DayIn, AllZones
<1>12. DayOrder(d, z)
         = Only({t \in SetToSeqs(S) :
                   \A i \in 1..(Len(t) - 1) : ~(Midnight(d, z, t[i + 1]) < Midnight(d, z, t[i]))})
  BY DEF DayOrder, Ordered
<1> HIDE DEF S, z
<1>3. IsFiniteSet(S)
  <2> DEFINE f == [i \in 1..n |-> DayIn(c, d[i])]
  <2>1. f \in Surjection(1..n, S) BY <1>2 DEF Surjection
  <2>2. IsFiniteSet(1..n) BY FS_Interval
  <2> HIDE DEF f
  <2> QED BY <2>1, <2>2, FS_Surjection
<1>4. \A i \in DOMAIN d : DayIn(c, d[i]) \in S BY <1>1, <1>2
<1>13. S \subseteq Int BY <1>1, <1>2, DayTyped
<1>14. \A x \in S : Midnight(d, z, x) = Day * x - c BY <1>2, MidnightIs DEF z
<1>5. \A x \in S : key[x] = 172800 * x - c /\ key[x] \in Int
  <2>1. Day = 172800 BY DEF Day, Hour, Second
  <2>2. \A x \in S : key[x] = 172800 * x - c BY <1>14, <2>1
  <2> HIDE DEF key
  <2> QED BY <1>13, <2>2
<1>6. DayOrder(d, z) = s
  <2>1. ASSUME NEW t \in SetToSeqs(S), NEW i \in 1..(Len(t) - 1)
        PROVE  /\ key[t[i]] = Midnight(d, z, t[i])
               /\ key[t[i + 1]] = Midnight(d, z, t[i + 1])
    <3>1. Cardinality(S) \in Nat /\ t \in Lists(S, Cardinality(S)) BY <1>3, SequenceOf
    <3>2. Len(t) = Cardinality(S) BY <3>1, ListsAreSequences
    <3>3. i \in 1..Cardinality(S) /\ i + 1 \in 1..Cardinality(S) BY <3>1, <3>2
    <3>4. t[i] \in S /\ t[i + 1] \in S BY <3>1, <3>3 DEF Lists
    <3> QED BY <3>4
  <2> HIDE DEF key
  <2>2. InKeyOrder(S, key)
          = {t \in SetToSeqs(S) :
               \A i \in 1..(Len(t) - 1) : ~(Midnight(d, z, t[i + 1]) < Midnight(d, z, t[i]))}
    BY <2>1 DEF InKeyOrder
  <2> QED BY <1>12, <2>2
<1>7. /\ m \in Nat /\ s \in Lists(S, m)
      /\ \A i, j \in 1..m : i # j => s[i] # s[j]
      /\ \A x \in S : \E i \in 1..m : s[i] = x
      /\ \A i, j \in 1..m : i < j => key[s[i]] <= key[s[j]]
  <2> HIDE DEF key
  <2> QED BY <1>3, <1>5, KeyOrderIs
<1> HIDE DEF s, m, key
<1>8. DOMAIN s = 1..m /\ \A i \in 1..m : s[i] \in S BY <1>7 DEF Lists
<1>9. \A i, j \in 1..m : i < j => s[i] < s[j]
  <2> TAKE i, j \in 1..m
  <2> HAVE i < j
  <2>1. i # j BY <1>7
  <2>2. s[i] \in Int /\ s[j] \in Int BY <1>8, <1>13
  <2>3. PICK v \in Int : v = s[i] BY <2>2
  <2>4. PICK w \in Int : w = s[j] BY <2>2
  <2>5. 172800 * v - c <= 172800 * w - c BY <1>5, <1>7, <1>8, <2>3, <2>4
  <2>6. v <= w BY <2>5
  <2>7. v # w BY <1>7, <2>1, <2>3, <2>4
  <2> QED BY <2>3, <2>4, <2>6, <2>7
<1>10. \A l \in 1..m : s[l] \in Int BY <1>8, <1>13
<1>11. \A i \in DOMAIN d : \E l \in 1..m : s[l] = DayIn(c, d[i]) BY <1>4, <1>7
<1> QED BY <1>6, <1>7, <1>8, <1>9, <1>10, <1>11 DEF z

LEMMA PageTells ==
  ASSUME NEW n \in Nat, NEW d \in Lists(Int, n), NEW c \in Int
  PROVE  Tells(Page(d, AllZones(n, c)), d)
<1> DEFINE z    == AllZones(n, c)
           o    == [d |-> d, z |-> z]
           days == DayOrder(d, z)
<1>1. PICK m \in Nat : /\ DOMAIN days = 1..m
                       /\ \A l \in 1..m : days[l] \in Int
                       /\ \A k, l \in 1..m : k < l => days[k] < days[l]
                       /\ \A i \in DOMAIN d : \E l \in 1..m : days[l] = DayIn(c, d[i])
  BY DaysAscend
<1>2. PICK f : /\ f[0] = <<>>
               /\ \A k \in 1..m : f[k] = Turn("page", o, f[k - 1], days[k])
               /\ f[m] = Page(d, z)
  <2>1. Rounds("page", o, <<>>, days, m, Page(d, z)) BY <1>1, PageInRounds
  <2> HIDE DEF days
  <2> QED BY <2>1 DEF Rounds
<1>0. o.d = d /\ o.z = z OBVIOUS
<1> HIDE DEF days, o, z
<1>3. ASSUME NEW k \in 1..m PROVE f[k] = f[k - 1] \o Group(d, z, days[k])
  <2>1. Turn("page", o, f[k - 1], days[k]) = WithDay(o, f[k - 1], days[k]) BY OtherTurns
  <2> QED BY <1>0, <1>2, <2>1 DEF WithDay
<1> DEFINE Shown(k, x) == \E l \in 1..k : days[l] = DayIn(c, x)
           Good(t, k) == /\ \E a \in Nat : t \in Lists(Int, a)
                         /\ Ascending(t)
                         /\ \A i \in DOMAIN t : Shown(k, t[i])
                         /\ \A x : Occurs(t, x) = IF Shown(k, x) THEN Occurs(d, x) ELSE 0
           G == {k \in 0..m : Good(f[k], k)}
<1>4. 0 \in G
  <2>1. <<>> \in Lists(Int, 0) /\ DOMAIN <<>> = {} BY DEF Lists
  <2>2. Ascending(<<>>) BY <2>1 DEF Ascending
  <2>3. ASSUME NEW x PROVE Occurs(<<>>, x) = 0
    <3>1. {i \in DOMAIN <<>> : <<>>[i] = x} = {} BY <2>1
    <3> QED BY <3>1, FS_EmptySet DEF Occurs
  <2>4. \A x : ~Shown(0, x) OBVIOUS
  <2>5. 0 \in 0..m /\ 0 \in Nat OBVIOUS
  <2> HIDE DEF Shown
  <2>6. Good(<<>>, 0) BY <2>1, <2>2, <2>3, <2>4, <2>5
  <2> HIDE DEF Good
  <2> QED BY <1>2, <2>5, <2>6
<1>5. ASSUME NEW k \in 1..m, k - 1 \in G PROVE k \in G
  <2> DEFINE u == f[k - 1]
             v == Group(d, z, days[k])
             w == u \o v
  <2>1. Good(u, k - 1) /\ k \in 0..m BY <1>5
  <2>2. /\ \E b \in Nat : v \in Lists(Int, b)
        /\ Ascending(v)
        /\ \A i \in DOMAIN v : DayIn(c, v[i]) = days[k]
        /\ \A x : Occurs(v, x) = IF DayIn(c, x) = days[k] THEN Occurs(d, x) ELSE 0
    BY GroupIs DEF z
  <2> HIDE DEF u, v
  <2>3. PICK a \in Nat : u \in Lists(Int, a) BY <2>1
  <2>4. PICK b \in Nat : v \in Lists(Int, b) BY <2>2
  <2>5. DOMAIN u = 1..a /\ DOMAIN v = 1..b BY <2>3, <2>4 DEF Lists
  <2>6. ASSUME NEW i \in 1..a, NEW j \in 1..b PROVE u[i] <= v[j]
    <3>1. PICK l \in 1..(k - 1) : days[l] = DayIn(c, u[i]) BY <2>1, <2>5
    <3>2. DayIn(c, v[j]) = days[k] BY <2>2, <2>5
    <3>3. l \in 1..m /\ k \in 1..m /\ l < k OBVIOUS
    <3>4. DayIn(c, u[i]) < DayIn(c, v[j]) BY <1>1, <3>1, <3>2, <3>3
    <3>5. u[i] \in Int /\ v[j] \in Int BY <2>3, <2>4 DEF Lists
    <3> QED BY <3>4, <3>5, LaterDay
  <2>7. /\ w \in Lists(Int, a + b)
        /\ Ascending(w)
        /\ \A i \in 1..(a + b) : \/ i \in 1..a /\ w[i] = u[i]
                                 \/ i - a \in 1..b /\ w[i] = v[i - a]
        /\ \A x : Occurs(w, x) = Occurs(u, x) + Occurs(v, x)
    <3>1. Ascending(u) /\ Ascending(v) BY <2>1, <2>2
    <3>2. \A i \in 1..a, j \in 1..b : u[i] <= v[j] BY <2>6
    <3> QED BY <2>3, <2>4, <3>1, <3>2, OneAfterAnother
  <2>8. \A x : Shown(k, x) <=> Shown(k - 1, x) \/ DayIn(c, x) = days[k]
    <3>1. \A l : l \in 1..k <=> l \in 1..(k - 1) \/ l = k OBVIOUS
    <3> QED BY <3>1
  <2>9. \A x : ~(Shown(k - 1, x) /\ DayIn(c, x) = days[k])
    <3>1. \A l \in 1..(k - 1) : l \in 1..m /\ k \in 1..m /\ l < k OBVIOUS
    <3>2. \A l \in 1..(k - 1) : days[l] < days[k] /\ days[l] \in Int /\ days[k] \in Int
      BY <1>1, <3>1
    <3>3. \A l \in 1..(k - 1) : days[l] # days[k] BY <3>2
    <3> QED BY <3>3
  <2> HIDE DEF w, Shown
  <2>10. \A i \in 1..(a + b) : Shown(k, w[i])
    <3> TAKE i \in 1..(a + b)
    <3>1. CASE i \in 1..a /\ w[i] = u[i] BY <2>1, <2>5, <2>8, <3>1
    <3>2. CASE i - a \in 1..b /\ w[i] = v[i - a] BY <2>2, <2>5, <2>8, <3>2
    <3> QED BY <2>7, <3>1, <3>2
  <2>11. ASSUME NEW x PROVE Occurs(w, x) = IF Shown(k, x) THEN Occurs(d, x) ELSE 0
    <3>1. Occurs(w, x) = Occurs(u, x) + Occurs(v, x) BY <2>7
    <3>2. Occurs(u, x) = IF Shown(k - 1, x) THEN Occurs(d, x) ELSE 0 BY <2>1
    <3>3. Occurs(v, x) = IF DayIn(c, x) = days[k] THEN Occurs(d, x) ELSE 0 BY <2>2
    <3>4. Occurs(d, x) \in Nat
      <4> DEFINE I == {i \in DOMAIN d : d[i] = x}
      <4>1. I \in SUBSET (1..n) /\ IsFiniteSet(1..n) BY FS_Interval DEF Lists
      <4> HIDE DEF I
      <4>2. Cardinality(I) \in Nat BY <4>1, FS_Subset, FS_CardinalityType
      <4> QED BY <4>2 DEF I, Occurs
    <3> QED BY <2>8, <2>9, <3>1, <3>2, <3>3, <3>4
  <2>12. a + b \in Nat /\ DOMAIN w = 1..(a + b) BY <2>7 DEF Lists
  <2>13. Good(w, k) BY <2>7, <2>10, <2>11, <2>12
  <2>14. f[k] = w BY <1>3 DEF u, v, w
  <2> HIDE DEF Good
  <2> QED BY <2>1, <2>13, <2>14
<1>6. m \in 0..m BY <1>1
<1>7. m \in G
  <2> HIDE DEF G
  <2> QED BY <1>1, <1>4, <1>5, <1>6, CountInduction
<1>8. Good(Page(d, z), m) BY <1>2, <1>7
<1>9. ASSUME NEW x PROVE Shown(m, x) \/ Occurs(d, x) = 0
  <2>1. SUFFICES ASSUME ~Shown(m, x) PROVE Occurs(d, x) = 0 OBVIOUS
  <2>2. {i \in DOMAIN d : d[i] = x} = {} BY <1>1, <2>1
  <2> QED BY <2>2, FS_EmptySet DEF Occurs
<1> HIDE DEF Shown
<1> QED BY <1>8, <1>9 DEF Tells, z

LEMMA PlannedAlike ==
  ASSUME StoredWell
  PROVE  PlansAgree
<1> SUFFICES ASSUME NEW b \in Backends, NEW s \in Shuffles(b), NEW days \in PlanDays,
                    b \in Sql \/ OneZone(s)
             PROVE  ApiPlan(s, days) = CliPlan(s, days) /\ CliPlan(s, days) = WebPlan(s, days)
  BY DEF PlansAgree
<1> DEFINE q == Planned(s, days)
           d == Dates(q)
<1>1. days \in 1..365 /\ WebDays(days) = days BY StoragesAssumption DEF WebDays
<1>2. PICK n \in Nat : s \in Lists(Post, n) BY ShufflesAreLists
<1>3. PICK c \in Int : AllIn(s, c) BY OneZoneIs
<1>4. Len(d) \in Nat /\ d \in Lists(Int, Len(d)) /\ Zones(q) = AllZones(Len(d), c)
  BY <1>2, <1>3, DatesAreTyped DEF AllZones
<1>5. WebPlan(s, days) = Page(d, AllZones(Len(d), c))
  <2> DEFINE p == Planned(s, WebDays(days))
  <2>1. WebPlan(s, days) = Page(Dates(p), Zones(p)) BY DEF WebPlan, Page, DayOrder, DaysOf
  <2>2. p = q BY <1>1
  <2> HIDE DEF p, q
  <2> QED BY <1>4, <2>1, <2>2
<1>6. Tells(ApiPlan(s, days), d) BY <1>1, <1>4, ApiPlanTells
<1>7. Tells(CliPlan(s, days), d) BY <1>4, CliPlanTells
<1> HIDE DEF d, q
<1>8. Tells(WebPlan(s, days), d) BY <1>4, <1>5, PageTells
<1> QED BY <1>6, <1>7, <1>8, ToldAlike

\* For any posts, however many, and the calls PostService makes, a list has the same
\* posts in the three storages, and the same order where their times differ by
\* seconds; and the API, the command line and the page, which sort by three algorithms
\* of their own, show the same plan of up to a year if all its dates are in one zone,
\* as they are when read from a database (httpapi/server.go:591-663,
\* cli/plan.go:62-113, webui/plan.go:21-95).
THEOREM ShownAlike == Spec => []ReadsAgree
<1>1. Spec => []StoredWell BY StoredAlways
<1>2. StoredWell => ReadsAgree BY ListedAlike, PlannedAlike DEF ReadsAgree
<1> QED BY <1>1, <1>2, PTL

===============================================================================
