------------------------------ MODULE PostQueries ------------------------------
(***************************************************************************)
(* What is read from the storages of posts: lists with a filter and an     *)
(* order, the sorting of GET /api/posts, the recommendation of "jtpost     *)
(* next" and the plan, which the API, the command line and the web pages   *)
(* each compute on their own.                                              *)
(*                                                                         *)
(* A post p has a face: its status, tags, words of the title and of the    *)
(* text, and its dates: p.face.due and p.face.sched are empty or hold one  *)
(* moment m, m.at half seconds from now, given in a time zone m.zone half  *)
(* seconds ahead of UTC.  Now is midnight in UTC, and a zone keeps its     *)
(* distance to UTC.  Words and tags are lower-case and none contains       *)
(* another.                                                                *)
(***************************************************************************)
EXTENDS Integers, Sequences, SequencesExt

CONSTANT Here   \* the zone of the process

ASSUME ZoneAssumption == Here \in Int

Only(d) == CHOOSE m \in d : TRUE
At(d)   == Only(d).at

Second == 2
Hour   == 3600 * Second
Day    == 24 * Hour

-------------------------------------------------------------------------------
(* What a storage makes of times: SQLite keeps the second in UTC,          *)
(* PostgreSQL the moment, which is read in the zone of the process, a file *)
(* what is written.                                                        *)

ToSecond(t) == Second * (t \div Second)

DateRead(b, d) ==
  IF b = "sqlite" THEN {[at |-> ToSecond(m.at), zone |-> 0] : m \in d}
  ELSE {[at |-> m.at, zone |-> Here] : m \in d}

FaceRead(b, f) ==
  IF b = "git" THEN f
  ELSE [status |-> f.status, tags |-> f.tags, title |-> f.title, text |-> f.text,
        due |-> DateRead(b, f.due), sched |-> DateRead(b, f.sched)]

\* A post that was handed to storage b, as b gives it back.
AsRead(b, p) ==
  [id |-> p.id, tenant |-> p.tenant, slug |-> p.slug, revision |-> p.revision,
   face |-> FaceRead(b, p.face),
   created |-> IF b = "sqlite" THEN ToSecond(p.created) ELSE p.created]

-------------------------------------------------------------------------------
(* List(filter) of the three storages.                                     *)

\* Fault: SQLite does not look at the tags.
AnyTag(b, p, tags) == tags = {} \/ b = "sqlite" \/ tags \cap p.face.tags # {}

\* LIKE for every tag in SQLite; one of them is enough elsewhere.
TagsFit(b, p, tags) ==
  tags = {} \/ IF b = "sqlite" THEN tags \subseteq p.face.tags ELSE tags \cap p.face.tags # {}

\* SQLite looks a word up in the title and the text, the others in the title and
\* the slug.
Searched(b, p) == p.face.title \cup (IF b = "sqlite" THEN p.face.text ELSE {p.slug})

Matches(b, p, f) ==
  /\ p.tenant = f.tenant
  /\ f.statuses = {} \/ p.face.status \in f.statuses
  /\ TagsFit(b, p, f.tags)
  /\ f.words = {} \/ f.words \cap Searched(b, p) # {}

\* Of two posts as read, p comes before q in ORDER BY key; where posts without a date go: SQLite puts
\* NULL first, PostgreSQL and the files put it last.
Before(b, p, q, key) ==
  IF key = "created_at" THEN p.created < q.created
  ELSE IF p.face.due = {} \/ q.face.due = {}
  THEN IF b = "sqlite" THEN p.face.due = {} /\ q.face.due # {}
       ELSE q.face.due = {} /\ p.face.due # {}
  ELSE At(p.face.due) < At(q.face.due)

\* The members of S one after the other, none sooner than the one before it.
Ordered(S, Precedes(_, _)) ==
  Only({s \in SetToSeqs(S) : \A i \in 1..(Len(s) - 1) : ~Precedes(s[i + 1], s[i])})

\* The posts of table T that a filter asks storage b for.
Found(b, T, f) == {p \in T : Matches(b, p, f)}

Sooner(b, p, q, key) == Before(b, AsRead(b, p), AsRead(b, q), key)

\* They are given by their rows.  Posts that the key does not tell apart come in
\* the order of their names from the files, in any order from a database.
List(b, T, f, key, desc) ==
  Ordered(Found(b, T, f),
          LAMBDA p, q : IF desc THEN Sooner(b, q, p, key) ELSE Sooner(b, p, q, key))

-------------------------------------------------------------------------------
(* Sorting by hand.                                                        *)

Swapped(s, i, j) == [s EXCEPT ![i] = s[j], ![j] = s[i]]

\* One pass over the first m pairs of neighbours, swapping those for which
\* InOrder does not hold.
Pass(s, m, InOrder(_, _)) ==
  FoldLeft(LAMBDA t, j : IF InOrder(t[j], t[j + 1]) THEN t ELSE Swapped(t, j, j + 1),
           s, [j \in 1..m |-> j])

\* As many passes as ms has entries.
Passes(s, ms, InOrder(_, _)) == FoldLeft(LAMBDA t, m : Pass(t, m, InOrder), s, ms)

\* An unknown status, "archived" and "failed" among them, counts as 0.
StatusRank(st) ==
  CASE st = "draft" -> 1 [] st = "ready" -> 2 [] st = "scheduled" -> 3 [] st = "published" -> 4
    [] OTHER -> 0

\* sortFunc of GET /api/posts?sort=field; posts without a deadline come last.
Less(p, q, field) ==
  CASE field = "status"   -> StatusRank(p.face.status) < StatusRank(q.face.status)
    [] field = "deadline" -> p.face.due # {} /\ (q.face.due = {}
                               \/ At(p.face.due) < At(q.face.due))
    [] OTHER              -> TRUE

\* Fault: one pass less.
OnePassLess(s, field, desc) ==
  LET n == Len(s) IN
  Passes(s, [k \in 1..(n - 2) |-> n - 1],
         LAMBDA p, q : IF desc THEN ~Less(p, q, field) ELSE Less(p, q, field))

\* Equals are swapped on the way up, and by an unknown field everything is on
\* the way down.
ApiSorted(s, field, desc) ==
  LET n == Len(s) IN
  Passes(s, [k \in 1..(n - 1) |-> n - 1],
         LAMBDA p, q : IF desc THEN ~Less(p, q, field) ELSE Less(p, q, field))

-------------------------------------------------------------------------------
(* GetNextPost.                                                            *)

\* int(d.Hours()) of a duration that is not negative: the full hours.
Hours(t) == t \div Hour

\* Fault: only the date of publication counts.
PriorityBySchedule(p) ==
  LET f == p.face IN
  IF f.sched # {}
  THEN IF At(f.sched) < 0 THEN -500 + Hours(-At(f.sched)) ELSE 10000 + Hours(At(f.sched))
  ELSE CASE f.status = "ready" -> 20000 [] f.status = "draft" -> 30000
         [] f.status = "idea" -> 40000 [] OTHER -> 50000

\* postPriority, less is sooner: an overdue post is the less urgent the longer it
\* is overdue.
Priority(p) ==
  LET f == p.face IN
  IF f.due # {}
  THEN IF At(f.due) < 0 THEN -1000 + Hours(-At(f.due)) ELSE Hours(At(f.due))
  ELSE IF f.sched # {}
  THEN IF At(f.sched) < 0 THEN -500 + Hours(-At(f.sched)) ELSE 10000 + Hours(At(f.sched))
  ELSE CASE f.status = "ready" -> 20000 [] f.status = "draft" -> 30000
         [] f.status = "idea" -> 40000 [] OTHER -> 50000

Candidate(p) == p.face.status \notin {"published", "scheduled", "archived", "failed"}

Candidates(s) == FoldLeft(LAMBDA out, p : IF Candidate(p) THEN Append(out, p) ELSE out, <<>>, s)

\* sortPostsByPriority of the candidates; GetNextPost takes the first.
ByPriority(s) ==
  LET c == Candidates(s)
      n == Len(c)
  IN Passes(c, [k \in 1..(n - 1) |-> n - k], LAMBDA p, q : Priority(p) <= Priority(q))

-------------------------------------------------------------------------------
(* The plan of the next days.                                              *)

\* The date a post is planned for.
PlanDate(p) == IF p.face.sched # {} THEN p.face.sched ELSE p.face.due

\* Archived and failed posts are planned too, and so are dates long past.
InPlan(p, days) ==
  /\ p.face.status # "published"
  /\ PlanDate(p) # {} /\ At(PlanDate(p)) <= Day * days

Planned(s, days) ==
  FoldLeft(LAMBDA out, p : IF InPlan(p, days) THEN Append(out, p) ELSE out, <<>>, s)

Dates(s) == [i \in DOMAIN s |-> At(PlanDate(s[i]))]
Zones(s) == [i \in DOMAIN s |-> Only(PlanDate(s[i])).zone]

\* GET /api/plan: n passes over all neighbours; the command line takes any number
\* of days.
ApiDays(days) == IF days > 0 THEN days ELSE 30

ApiPlan(s, days) ==
  LET d == Dates(Planned(s, ApiDays(days))) IN
  Passes(d, [k \in 1..Len(d) |-> Len(d) - 1], LAMBDA x, y : x <= y)

\* jtpost plan: every place is exchanged with what belongs before it.
Placed(t, i) ==
  FoldLeft(LAMBDA u, j : IF u[j] < u[i] THEN Swapped(u, i, j) ELSE u,
           t, [k \in 1..(Len(t) - i) |-> i + k])

CliPlan(s, days) ==
  LET d == Dates(Planned(s, days)) IN FoldLeft(Placed, d, [i \in 1..(Len(d) - 1) |-> i])

\* The page of the plan: a group for each calendar day, a date being on the day
\* of its own zone, and in it by time.
DayOf(d, z, i) == (d[i] + z[i]) \div Day

DayPlaces(d, z, day) == {i \in DOMAIN d : DayOf(d, z, i) = day}

Group(d, z, day) ==
  LET places == Ordered(DayPlaces(d, z, day), LAMBDA i, j : d[i] < d[j])
  IN [k \in DOMAIN places |-> d[places[k]]]

\* The groups are ordered by the beginning of their day, in the zone of the first
\* post that was put there.
Midnight(d, z, day) ==
  LET group == DayPlaces(d, z, day)
      first == CHOOSE i \in group : \A j \in group : i <= j
  IN Day * day - z[first]

WebDays(days) == IF days \in 1..365 THEN days ELSE 30

WebPlan(s, days) ==
  LET q == Planned(s, WebDays(days))
      d == Dates(q)
      z == Zones(q)
  IN FoldLeft(LAMBDA out, day : out \o Group(d, z, day), <<>>,
              Ordered({DayOf(d, z, i) : i \in DOMAIN d},
                      LAMBDA x, y : Midnight(d, z, x) < Midnight(d, z, y)))

===============================================================================
