--------------------------- MODULE PostEditingProofs ---------------------------
(***************************************************************************)
(* Theorems about PostEditing for every value of its constants.            *)
(***************************************************************************)
EXTENDS PostEditing, TLAPS

-------------------------------------------------------------------------------
(* Rows and bodies of requests.                                            *)

\* A row with one field replaced is a row, and its other fields stay.
LEMMA NextTyped ==
  ASSUME NEW q \in PostRow
  PROVE  /\ NextRevision(q) \in PostRow
         /\ NextRevision(q).revision = q.revision + 1
         /\ \A f \in Fields : NextRevision(q)[f] = q[f]
  BY DEF PostRow, NextRevision, Fields

LEMMA RebasedTyped ==
  ASSUME NEW q \in PostRow, NEW x \in PostRow
  PROVE  /\ Rebased(q, x) \in PostRow
         /\ Rebased(q, x).revision = x.revision
         /\ \A f \in Fields : Rebased(q, x)[f] = q[f]
  BY DEF PostRow, Rebased, Fields

LEMMA StatusTyped ==
  ASSUME NEW q \in PostRow, NEW s \in Statuses
  PROVE  /\ WithStatus(q, s) \in PostRow
         /\ WithStatus(q, s).revision = q.revision
         /\ WithStatus(q, s).status = s
         /\ \A f \in Fields \ {"status"} : WithStatus(q, s)[f] = q[f]
  BY DEF PostRow, WithStatus, Fields

\* A body sets a field to a value of that field or leaves it alone.
LEMMA BodiesTyped ==
  ASSUME NEW k \in AllKinds, NEW r \in Requests, NEW c \in Bodies(k, r)
  PROVE  c \in Change
<1>1. NoChange \in Change
  BY DEF NoChange, Change, Fields
<1> QED
  BY <1>1, EditingAssumption
  DEF Bodies, AllKinds, Change, Values, Statuses

\* What a handler sets are the fields the body mentions, and never the revision.
LEMMA ApplyTyped ==
  ASSUME NEW fields \in SUBSET Fields, NEW c \in Change, NEW q \in PostRow
  PROVE  /\ Apply(fields, c, q) \in PostRow
         /\ Apply(fields, c, q).revision = q.revision
         /\ \A f \in Fields : c[f] = Keep => Apply(fields, c, q)[f] = q[f]
<1> DEFINE a(f) == IF f \in fields /\ c[f] # Keep THEN c[f] ELSE q[f]
<1>1. Apply(fields, c, q) =
        [status |-> a("status"), revision |-> q.revision, title |-> a("title"),
         tags |-> a("tags"), content |-> a("content"), url |-> a("url")]
  BY DEF Apply, PostRow, Fields
<1>2. /\ a("status") \in Statuses \cup {"absent"}
      /\ a("title") \in Values /\ a("tags") \in Values
      /\ a("content") \in Values /\ a("url") \in Values
  BY DEF PostRow, Change
<1>3. Apply(fields, c, q) \in PostRow
  BY <1>1, <1>2 DEF PostRow
<1>4. \A f \in Fields : c[f] = Keep => Apply(fields, c, q)[f] = q[f]
  BY DEF Apply, PostRow, Fields
<1> QED
  BY <1>1, <1>3, <1>4

LEMMA FieldsTyped ==
  ASSUME NEW k
  PROVE  EarlyFields(k) \in SUBSET Fields /\ LateFields(k) \in SUBSET Fields
         /\ SentFields(k) \in SUBSET Fields
         /\ EarlyFields(k) \cup LateFields(k) \in SUBSET Fields
  BY DEF EarlyFields, LateFields, SentFields, Fields

-------------------------------------------------------------------------------
(* Type correctness.                                                       *)

\* A stored post is a row, and so is what the table holds after a statement.
LEMMA TableTyped ==
  ASSUME NEW t \in [Posts -> PostRow], NEW p \in Posts
  PROVE  /\ \A q \in PostRow : UpdateRow(t, p, q) \in [Posts -> PostRow]
         /\ DeleteRow(t, p) \in [Posts -> PostRow]
  BY DEF UpdateRow, DeleteRow, PostRow

LEMMA UnusedTyped == Unused \in PostRow
  BY DEF Unused, PostRow, Values

LEMMA InitTyped == Init => TypeOK
<1> SUFFICES ASSUME Init PROVE TypeOK
  OBVIOUS
<1>1. posts \in [Posts -> PostRow]
  BY EditingAssumption, UnusedTyped DEF Init, PostRow, Values
<1>2. NoChange \in Change
  BY DEF NoChange, Change, Fields
<1>3. req \in [Requests -> Request]
  BY <1>2 DEF Init, Request
<1> QED
  BY <1>1, <1>3, UnusedTyped DEF Init, TypeOK

\* The form of every step: one request moves on, and what it wrote is typed.
LEMMA MoveTyped ==
  ASSUME TypeOK, NEW r \in Requests, NEW l \in Busy \cup Answers, Goto(r, l),
         posts' \in [Posts -> PostRow],
         UNCHANGED req \/ \E x \in Request : req' = [req EXCEPT ![r] = x],
         UNCHANGED copy \/ \E q \in PostRow : Hold(r, q),
         UNCHANGED base \/ \E q \in PostRow : BasedOn(r, q)
  PROVE  TypeOK'
  BY DEF TypeOK, Goto, Hold, BasedOn

LEMMA RefuseTyped ==
  ASSUME TypeOK, NEW r \in Requests, Refuse(r)
  PROVE  TypeOK'
<1>1. PICK l \in Answers : Goto(r, l)
  BY DEF Refuse, Answers
<1> QED
  BY <1>1, MoveTyped DEF Refuse, TypeOK

LEMMA StepTyped == TypeOK /\ [Next]_vars => TypeOK'
<1> SUFFICES ASSUME TypeOK, [Next]_vars PROVE TypeOK'
  OBVIOUS
<1>1. ASSUME NEW r \in Requests, NEW k \in Kinds, NEW p \in Posts,
             NEW c \in Bodies(k, r), Receive(r, k, p, c)
      PROVE  TypeOK'
  <2>1. k \in AllKinds /\ c \in Change
    BY BodiesTyped, EditingAssumption
  <2>2. Entry(k) \in Busy
    BY DEF Entry, Busy
  <2>3. [kind |-> k, post |-> p, change |-> c] \in Request
    BY <2>1 DEF Request
  <2> QED
    BY <1>1, <2>2, <2>3, MoveTyped DEF Receive, TypeOK
<1>a. ASSUME NEW r \in Requests
      PROVE  /\ Post(r) \in Posts /\ Asks(r) \in Change
             /\ Stored(r) \in PostRow /\ copy[r] \in PostRow
  BY DEF TypeOK, Request, Post, Asks, Stored
<1>2. ASSUME NEW r \in Requests, Load(r) PROVE TypeOK'
  <2>1. AfterLoad(r) \in Busy
    BY DEF AfterLoad, Busy
  <2>2. PICK fields \in SUBSET Fields : Hold(r, Apply(fields, Asks(r), Stored(r)))
    BY <1>2, FieldsTyped DEF Load
  <2>3. Apply(fields, Asks(r), Stored(r)) \in PostRow
    BY <1>a, ApplyTyped
  <2> QED
    BY <1>2, <1>a, <2>1, <2>2, <2>3, MoveTyped DEF Load, TypeOK
<1>3. ASSUME NEW r \in Requests, Insert(r) PROVE TypeOK'
  <2> DEFINE first == [Unused EXCEPT !.status = "idea", !.revision = 1]
             row   == Apply({"title", "tags"}, Asks(r), first)
             full  == Apply({"content"}, Asks(r), row)
  <2>1. first \in PostRow
    BY UnusedTyped DEF PostRow, Unused, Statuses
  <2>2. row \in PostRow
    BY <2>1, <1>a, ApplyTyped DEF Fields
  <2>3. full \in PostRow
    BY <2>2, <1>a, ApplyTyped DEF Fields
  <2>4. /\ posts' = UpdateRow(posts, Post(r), row)
        /\ Hold(r, full) /\ BasedOn(r, row) /\ UNCHANGED req
        /\ \E l \in Busy \cup Answers : Goto(r, l)
    BY <1>3 DEF Insert, Busy, Answers
  <2> QED
    BY <1>a, <2>2, <2>3, <2>4, TableTyped, MoveTyped DEF TypeOK
<1>4. ASSUME NEW r \in Requests, Send(r) PROVE TypeOK'
  <2>1. Apply(SentFields(Kind(r)), Asks(r), copy[r]) \in PostRow
    BY <1>a, ApplyTyped, FieldsTyped
  <2>2. \E l \in Busy : Goto(r, l)
    BY <1>4 DEF Send, Busy
  <2> QED
    BY <1>4, <2>1, <2>2, MoveTyped DEF Send, TypeOK
<1>5. ASSUME NEW r \in Requests, Delete(r) PROVE TypeOK'
  BY <1>5, <1>a, TableTyped, MoveTyped DEF Delete, Answers, TypeOK
<1>6. ASSUME NEW r \in Requests, ReadStatus(r) PROVE TypeOK'
  <2>1. Asks(r).status \in Statuses
    BY <1>6 DEF ReadStatus, MayTransit, IsTransitionAllowed, AllowedTransitions, Statuses
  <2>2. WithStatus(Stored(r), Asks(r).status) \in PostRow
    BY <1>a, <2>1, StatusTyped
  <2> QED
    BY <1>6, <1>a, <2>2, MoveTyped DEF ReadStatus, Busy, TypeOK
<1>7. ASSUME NEW r \in Requests, Commit(r) PROVE TypeOK'
  <2> DEFINE new == NextRevision(copy[r])
  <2>1. new \in PostRow
    BY <1>a, NextTyped
  <2>2. Apply(LateFields(Kind(r)), Asks(r), new) \in PostRow
    BY <1>a, <2>1, ApplyTyped, FieldsTyped
  <2>3. \E l \in Busy \cup Answers : Goto(r, l)
    BY <1>7 DEF Commit, Busy, Answers
  <2>4. posts' \in [Posts -> PostRow]
    BY <1>7, <1>a, <2>1, TableTyped DEF Commit, TypeOK
  <2> QED
    BY <1>7, <2>1, <2>2, <2>3, <2>4, MoveTyped DEF Commit
<1>8. ASSUME NEW r \in Requests, Reread(r) PROVE TypeOK'
  <2>1. Rebased(copy[r], Stored(r)) \in PostRow
    BY <1>a, RebasedTyped
  <2> QED
    BY <1>8, <2>1, MoveTyped DEF Reread, Busy, TypeOK
<1>9. ASSUME NEW r \in Requests, Update(r) PROVE TypeOK'
  <2>1. NextRevision(copy[r]) \in PostRow
    BY <1>a, NextTyped
  <2> QED
    BY <1>9, <1>a, <2>1, TableTyped, MoveTyped DEF Update, Answers, TypeOK
<1>10. ASSUME NEW r \in Requests, Refuse(r) PROVE TypeOK'
  BY <1>10, RefuseTyped
<1>11. CASE UNCHANGED vars
  BY <1>11 DEF vars, TypeOK
<1> QED
  BY <1>1, <1>2, <1>3, <1>4, <1>5, <1>6, <1>7, <1>8, <1>9, <1>10, <1>11
  DEF Next, Step, Fail, LoadRefused, InsertRefused, StatusRefused, RereadRefused, Conflict

\* The rows, the requests and their copies keep their types.
THEOREM EditingTyped == Spec => []TypeOK
  BY InitTyped, StepTyped, PTL DEF Spec

-------------------------------------------------------------------------------
(* The inductive invariant.                                                *)

\* Only request r moves in this step.
OthersStay(r) ==
  \A q \in Requests \ {r} : /\ pc'[q] = pc[q] /\ req'[q] = req[q]
                            /\ copy'[q] = copy[q] /\ base'[q] = base[q]

\* A row stays, gets a greater revision or is deleted.
RowsGrow ==
  \A p \in Posts : \/ posts'[p] = posts[p]
                   \/ posts'[p].revision > posts[p].revision
                   \/ ~Exists(posts', p) /\ posts'[p].revision = posts[p].revision

\* Only the request that creates a post uses an unused id.
UnusedStay(r) ==
  \A p \in Posts : posts[p] = Unused =>
    posts'[p] = Unused \/ (pc[r] = "insert" /\ p = Post(r))

\* A copy stays as faithful as it is while other requests move.
LEMMA OthersFaithful ==
  ASSUME TypeOK, TypeOK', CopiesAreFaithful, NEW r \in Requests,
         OthersStay(r), RowsGrow, NEW q \in Requests \ {r}, Editing(q)
  PROVE  BaseKnown(q)' /\ CopyFaithful(q)'
<1>1. Post(q)' = Post(q) /\ Kind(q)' = Kind(q) /\ Asks(q)' = Asks(q)
  BY DEF OthersStay, Post, Kind, Asks
<1>2. BaseKnown(q) /\ CopyFaithful(q)
  BY DEF CopiesAreFaithful
<1>3. CopyFaithful(q)'
  BY <1>1, <1>2 DEF OthersStay, CopyFaithful, Named
<1>4. Post(q) \in Posts /\ base[q].revision \in Nat /\ Stored(q).revision \in Nat
  BY DEF TypeOK, Request, PostRow, Post, Stored
<1>5. posts'[Post(q)].revision \in Nat /\ base'[q] = base[q]
  BY <1>4 DEF TypeOK, PostRow, OthersStay
<1>6. BaseKnown(q)'
  BY <1>1, <1>2, <1>4, <1>5 DEF BaseKnown, RowsGrow, Stored, Exists
<1> QED
  BY <1>3, <1>6

\* What is left to show of a step of request r after it has come in.
LEMMA Preserved ==
  ASSUME TypeOK, TypeOK', CopiesAreFaithful, NEW r \in Requests,
         OthersStay(r), UNCHANGED req, pc'[r] # "insert", RowsGrow, UnusedStay(r),
         Editing(r)' => BaseKnown(r)' /\ CopyFaithful(r)'
  PROVE  CopiesAreFaithful'
<1>1. \A p \in Posts : Exists(posts, p)' => posts'[p].revision > 0
  <2> SUFFICES ASSUME NEW p \in Posts, Exists(posts, p)' PROVE posts'[p].revision > 0
    OBVIOUS
  <2>1. posts[p].revision \in Nat /\ posts'[p].revision \in Nat
    BY DEF TypeOK, PostRow
  <2> QED
    BY <2>1 DEF CopiesAreFaithful, RowsGrow, Exists
<1>2. ASSUME NEW q \in Requests PROVE CreatesAlone(q)'
  <2>1. CreatesAlone(q) /\ CreatesAlone(r) /\ Post(q) \in Posts
    BY DEF CopiesAreFaithful, TypeOK, Request, Post
  <2>2. ASSUME pc'[q] = "insert" PROVE Kind(q)' = "create" /\ Stored(q)' = Unused
    <3>1. q # r /\ pc[q] = "insert"
      BY <2>2 DEF OthersStay
    <3>2. pc[r] = "insert" => Post(r) # Post(q)
      BY <2>1, <3>1 DEF CreatesAlone
    <3> QED
      BY <2>1, <3>1, <3>2 DEF CreatesAlone, UnusedStay, Stored, Post, Kind
  <2> QED
    BY <2>1, <2>2 DEF CreatesAlone, Kind, Post
<1>3. ASSUME NEW q \in Requests, Editing(q)' PROVE BaseKnown(q)' /\ CopyFaithful(q)'
  <2>1. CASE q = r
    BY <1>3, <2>1
  <2>2. CASE q # r
    BY <1>3, <2>2, OthersFaithful DEF OthersStay, Editing
  <2> QED
    BY <2>1, <2>2
<1> QED
  BY <1>1, <1>2, <1>3 DEF CopiesAreFaithful

\* A request that stores its copy over the revision it was made from replaces
\* one row, and the revision of that row grows by one.
LEMMA StoreGrows ==
  ASSUME TypeOK, NEW r \in Requests,
         RevisionMatches(posts, Post(r), NextRevision(copy[r])),
         posts' = UpdateRow(posts, Post(r), NextRevision(copy[r]))
  PROVE  /\ Exists(posts, Post(r)) /\ Stored(r).revision = copy[r].revision
         /\ posts'[Post(r)] = NextRevision(copy[r])
         /\ \A p \in Posts \ {Post(r)} : posts'[p] = posts[p]
         /\ RowsGrow /\ UnusedStay(r)
<1>1. /\ Post(r) \in Posts /\ copy[r] \in PostRow /\ Stored(r) \in PostRow
      /\ posts \in [Posts -> PostRow]
  BY DEF TypeOK, Request, Post, Stored
<1>2. /\ NextRevision(copy[r]).revision = copy[r].revision + 1
      /\ copy[r].revision \in Nat /\ Stored(r).revision \in Nat
  BY <1>1, NextTyped DEF PostRow
<1>3. Exists(posts, Post(r)) /\ Stored(r).revision = copy[r].revision
  BY <1>2 DEF RevisionMatches, Stored
<1>4. /\ posts'[Post(r)] = NextRevision(copy[r])
      /\ \A p \in Posts \ {Post(r)} : posts'[p] = posts[p]
  BY <1>1 DEF UpdateRow
<1>5. RowsGrow
  BY <1>2, <1>3, <1>4 DEF RowsGrow, Stored
<1>6. UnusedStay(r)
  BY <1>3, <1>4 DEF UnusedStay, Exists, Unused
<1> QED
  BY <1>3, <1>4, <1>5, <1>6

\* A request that writes nothing leaves every row as it is.
LEMMA IdleGrows ==
  ASSUME NEW r \in Requests, UNCHANGED posts PROVE RowsGrow /\ UnusedStay(r)
  BY DEF RowsGrow, UnusedStay

LEMMA RefuseFaithful ==
  ASSUME TypeOK, TypeOK', CopiesAreFaithful, NEW r \in Requests, Refuse(r)
  PROVE  CopiesAreFaithful'
<1>1. pc'[r] \in Answers /\ OthersStay(r) /\ UNCHANGED <<posts, req>>
  BY DEF Refuse, Goto, OthersStay, TypeOK, Answers
<1>2. ~Editing(r)'
  BY <1>1 DEF Editing, Answers
<1> QED
  BY <1>1, <1>2, IdleGrows, Preserved DEF Answers

LEMMA StepFaithful == TypeOK /\ TypeOK' /\ CopiesAreFaithful /\ [Next]_vars => CopiesAreFaithful'
<1> SUFFICES ASSUME TypeOK, TypeOK', CopiesAreFaithful, [Next]_vars
             PROVE  CopiesAreFaithful'
  OBVIOUS
<1>a. ASSUME NEW r \in Requests
      PROVE  /\ Post(r) \in Posts /\ Asks(r) \in Change
             /\ Stored(r) \in PostRow /\ copy[r] \in PostRow /\ base[r] \in PostRow
             /\ Named(r) = {f \in Fields : Asks(r)[f] # Keep}
             /\ CreatesAlone(r)
             /\ Editing(r) => BaseKnown(r) /\ CopyFaithful(r)
  BY DEF TypeOK, Request, Post, Asks, Stored, Named, CopiesAreFaithful
<1>1. ASSUME NEW r \in Requests, NEW k \in Kinds, NEW p \in Posts,
             NEW c \in Bodies(k, r), Receive(r, k, p, c)
      PROVE  CopiesAreFaithful'
  <2>1. /\ pc' = [pc EXCEPT ![r] = Entry(k)] /\ pc[r] = "idle"
        /\ UNCHANGED <<posts, copy, base>>
        /\ req' = [req EXCEPT ![r] = [kind |-> k, post |-> p, change |-> c]]
        /\ OthersStay(r)
    BY <1>1 DEF Receive, Goto, OthersStay, TypeOK
  <2>2. /\ Kind(r)' = k /\ Post(r)' = p
        /\ pc'[r] = Entry(k)
        /\ \A q \in Requests \ {r} : Kind(q)' = Kind(q) /\ Post(q)' = Post(q)
    BY <2>1 DEF OthersStay, Kind, Post, TypeOK
  <2>3. ASSUME Entry(k) = "insert" PROVE k = "create"
    BY <2>3, EditingAssumption DEF Entry, AllKinds
  <2>4. k = "create" => /\ posts[p] = Unused
                        /\ \A q \in Requests : Kind(q) = "create" => Post(q) # p
    BY <1>1 DEF Receive
  <2>5. ASSUME NEW q \in Requests PROVE CreatesAlone(q)'
    <3>1. pc'[q] = "insert" => Kind(q)' = "create" /\ Stored(q)' = Unused
      <4>1. CASE q = r
        BY <4>1, <2>1, <2>2, <2>3, <2>4 DEF Stored
      <4>2. CASE q # r
        BY <4>2, <1>a, <2>1, <2>2 DEF Stored, CreatesAlone, OthersStay
      <4> QED
        BY <4>1, <4>2
    <3>2. ASSUME NEW x \in Requests, Kind(q)' = "create", Kind(x)' = "create",
                 Post(x)' = Post(q)'
          PROVE  x = q
      BY <3>2, <1>a, <2>2, <2>4 DEF CreatesAlone
    <3> QED
      BY <3>1, <3>2 DEF CreatesAlone
  <2>6. Entry(k) \notin {"send", "commit", "reread", "update"}
    BY DEF Entry
  <2>7. ASSUME NEW q \in Requests, Editing(q)' PROVE BaseKnown(q)' /\ CopyFaithful(q)'
    <3>1. q # r
      BY <2>2, <2>6, <2>7 DEF Editing
    <3>2. Editing(q)
      BY <2>1, <2>7, <3>1 DEF Editing, OthersStay
    <3> QED
      BY <2>1, <3>1, <3>2, IdleGrows, OthersFaithful
  <2> QED
    BY <2>1, <2>5, <2>7 DEF CopiesAreFaithful, Exists
<1>2. ASSUME NEW r \in Requests, Load(r) PROVE CopiesAreFaithful'
  <2>1. PICK fields \in SUBSET Fields : Hold(r, Apply(fields, Asks(r), Stored(r)))
    BY <1>2, FieldsTyped DEF Load
  <2>2. /\ pc' = [pc EXCEPT ![r] = AfterLoad(r)]
        /\ base' = [base EXCEPT ![r] = Stored(r)]
        /\ copy' = [copy EXCEPT ![r] = Apply(fields, Asks(r), Stored(r))]
        /\ UNCHANGED <<posts, req>> /\ Exists(posts, Post(r))
    BY <1>2, <2>1 DEF Load, Acceptable, Goto, Hold, BasedOn
  <2>3. /\ OthersStay(r) /\ pc'[r] = AfterLoad(r) /\ base'[r] = Stored(r)
        /\ copy'[r] = Apply(fields, Asks(r), Stored(r))
    BY <2>2 DEF TypeOK, OthersStay
  <2>4. /\ Post(r)' = Post(r) /\ Kind(r)' = Kind(r) /\ Asks(r)' = Asks(r)
        /\ Stored(r)' = Stored(r) /\ Named(r)' = Named(r)
    BY <2>2 DEF Post, Kind, Asks, Stored, Named
  <2>5. /\ AfterLoad(r) \in {"send", "readstatus", "reread"}
        /\ AfterLoad(r) = "send" => Kind(r) \in {"publish", "clipublish"}
    BY DEF AfterLoad
  <2>6. Stored(r).revision \in Nat /\ 0 < Stored(r).revision
    BY <1>a, <2>2 DEF CopiesAreFaithful, Stored, PostRow
  <2>7. BaseKnown(r)'
    BY <2>3, <2>4, <2>6 DEF BaseKnown
  <2>8. /\ copy'[r].revision = base'[r].revision
        /\ \A f \in Fields \ Named(r) : copy'[r][f] = base'[r][f]
    BY <1>a, <2>3, ApplyTyped
  <2>9. CopyFaithful(r)'
    BY <2>3, <2>4, <2>5, <2>8 DEF CopyFaithful
  <2> QED
    BY <2>2, <2>3, <2>5, <2>7, <2>9, IdleGrows, Preserved
<1>3. ASSUME NEW r \in Requests, Insert(r) PROVE CopiesAreFaithful'
  <2> DEFINE first == [Unused EXCEPT !.status = "idea", !.revision = 1]
             row   == Apply({"title", "tags"}, Asks(r), first)
             full  == Apply({"content"}, Asks(r), row)
  <2>1. first \in PostRow /\ first.revision = 1
    BY UnusedTyped DEF PostRow, Unused, Statuses
  <2> HIDE DEF first
  <2>2. row \in PostRow /\ row.revision = 1
    <3>1. {"title", "tags"} \in SUBSET Fields
      BY DEF Fields
    <3>2. row.revision = first.revision /\ row \in PostRow
      BY <2>1, <3>1, <1>a, ApplyTyped
    <3> QED
      BY <2>1, <3>2
  <2>3. /\ full.revision = 1 /\ \A f \in Fields \ Named(r) : full[f] = row[f]
    BY <2>2, <1>a, ApplyTyped DEF Fields
  <2>4. /\ pc[r] = "insert" /\ posts' = UpdateRow(posts, Post(r), row)
        /\ copy' = [copy EXCEPT ![r] = full] /\ base' = [base EXCEPT ![r] = row]
        /\ pc' = [pc EXCEPT ![r] = IF Asks(r).content = Keep THEN "ok" ELSE "reread"]
        /\ UNCHANGED req
    BY <1>3 DEF Insert, Goto, Hold, BasedOn, first
  <2> HIDE DEF row, full
  <2>5. /\ OthersStay(r) /\ pc'[r] \in {"ok", "reread"}
        /\ base'[r] = row /\ copy'[r] = full
        /\ posts'[Post(r)] = row /\ \A p \in Posts \ {Post(r)} : posts'[p] = posts[p]
    BY <1>a, <2>4 DEF TypeOK, OthersStay, UpdateRow
  <2>6. Stored(r) = Unused
    BY <1>a, <2>4 DEF CreatesAlone
  <2>7. RowsGrow
    BY <2>2, <2>5, <2>6 DEF RowsGrow, Stored, Unused
  <2>8. UnusedStay(r)
    BY <2>4, <2>5 DEF UnusedStay
  <2>9. /\ Post(r)' = Post(r) /\ Kind(r)' = Kind(r) /\ Named(r)' = Named(r)
        /\ Stored(r)' = row
    BY <2>4, <2>5 DEF Post, Kind, Asks, Stored, Named
  <2>10. BaseKnown(r)'
    BY <2>2, <2>5, <2>9 DEF BaseKnown
  <2>11. CopyFaithful(r)'
    BY <2>3, <2>5, <2>9 DEF CopyFaithful
  <2> QED
    BY <2>4, <2>5, <2>7, <2>8, <2>10, <2>11, Preserved
<1>4. ASSUME NEW r \in Requests, Send(r) PROVE CopiesAreFaithful'
  <2> DEFINE sent == Apply(SentFields(Kind(r)), Asks(r), copy[r])
  <2>1. /\ pc[r] = "send" /\ UNCHANGED <<posts, req, base>>
        /\ copy' = [copy EXCEPT ![r] = sent]
        /\ pc' = [pc EXCEPT ![r] = IF Kind(r) = "publish" THEN "commit" ELSE "reread"]
    BY <1>4 DEF Send, Goto, Hold
  <2>2. /\ sent.revision = copy[r].revision
        /\ \A f \in Fields \ Named(r) : sent[f] = copy[r][f]
    BY <1>a, ApplyTyped, FieldsTyped
  <2> HIDE DEF sent
  <2>3. /\ OthersStay(r) /\ copy'[r] = sent
        /\ pc'[r] = IF Kind(r) = "publish" THEN "commit" ELSE "reread"
    BY <2>1 DEF TypeOK, OthersStay
  <2>4. BaseKnown(r) /\ CopyFaithful(r)
    BY <1>a, <2>1 DEF Editing
  <2>5. BaseKnown(r)'
    BY <2>1, <2>4 DEF BaseKnown, Stored, Post
  <2>6. Kind(r)' = Kind(r) /\ Named(r)' = Named(r) /\ base' = base
    BY <2>1 DEF Kind, Named, Asks
  <2>7. CopyFaithful(r)'
    BY <2>1, <2>2, <2>3, <2>4, <2>6 DEF CopyFaithful
  <2> QED
    BY <2>1, <2>3, <2>5, <2>7, IdleGrows, Preserved
<1>5. ASSUME NEW r \in Requests, Delete(r) PROVE CopiesAreFaithful'
  <2>1. /\ posts' = DeleteRow(posts, Post(r)) /\ UNCHANGED <<req, copy, base>>
        /\ OthersStay(r) /\ pc'[r] = "ok"
    BY <1>5 DEF Delete, Goto, TypeOK, OthersStay
  <2>2. /\ posts'[Post(r)].status = "absent"
        /\ posts'[Post(r)].revision = Stored(r).revision
        /\ Stored(r) = Unused => posts'[Post(r)] = Unused
        /\ \A p \in Posts \ {Post(r)} : posts'[p] = posts[p]
    BY <1>a, <2>1 DEF DeleteRow, Stored, TypeOK, PostRow, Unused
  <2>3. RowsGrow /\ UnusedStay(r)
    BY <2>2 DEF RowsGrow, UnusedStay, Exists, Stored
  <2> QED
    BY <2>1, <2>3, Preserved DEF Editing
<1>6. ASSUME NEW r \in Requests, ReadStatus(r) PROVE CopiesAreFaithful'
  <2> DEFINE moved == WithStatus(Stored(r), Asks(r).status)
  <2>1. /\ UNCHANGED <<posts, req>> /\ Exists(posts, Post(r))
        /\ IsTransitionAllowed(Stored(r).status, Asks(r).status)
        /\ copy' = [copy EXCEPT ![r] = moved] /\ base' = [base EXCEPT ![r] = Stored(r)]
        /\ pc' = [pc EXCEPT ![r] = "commit"]
    BY <1>6 DEF ReadStatus, MayTransit, Goto, Hold, BasedOn
  <2>2. Asks(r).status \in Statuses
    BY <2>1 DEF IsTransitionAllowed, AllowedTransitions, Statuses
  <2>3. "status" \in Named(r)
    BY <1>a, <2>2, EditingAssumption DEF Fields
  <2>4. /\ moved.revision = Stored(r).revision /\ moved.status = Asks(r).status
        /\ \A f \in Fields \ Named(r) : moved[f] = Stored(r)[f]
    BY <1>a, <2>2, <2>3, StatusTyped
  <2> HIDE DEF moved
  <2>5. /\ OthersStay(r) /\ pc'[r] = "commit" /\ copy'[r] = moved /\ base'[r] = Stored(r)
    BY <2>1 DEF TypeOK, OthersStay
  <2>6. /\ Post(r)' = Post(r) /\ Kind(r)' = Kind(r) /\ Stored(r)' = Stored(r)
        /\ Named(r)' = Named(r)
    BY <2>1 DEF Post, Kind, Asks, Stored, Named
  <2>7. Stored(r).revision \in Nat /\ 0 < Stored(r).revision
    BY <1>a, <2>1 DEF CopiesAreFaithful, Stored, PostRow
  <2>8. BaseKnown(r)'
    BY <2>5, <2>6, <2>7 DEF BaseKnown
  <2>9. CopyFaithful(r)'
    BY <2>1, <2>4, <2>5, <2>6 DEF CopyFaithful
  <2> QED
    BY <2>1, <2>5, <2>8, <2>9, IdleGrows, Preserved
<1>7. ASSUME NEW r \in Requests, Commit(r) PROVE CopiesAreFaithful'
  <2> DEFINE new  == NextRevision(copy[r])
             next == Apply(LateFields(Kind(r)), Asks(r), new)
  <2>1. /\ pc[r] = "commit" /\ RevisionMatches(posts, Post(r), new)
        /\ posts' = UpdateRow(posts, Post(r), new) /\ UNCHANGED req
        /\ copy' = [copy EXCEPT ![r] = next] /\ base' = [base EXCEPT ![r] = new]
        /\ pc' = [pc EXCEPT ![r] = IF Kind(r) \in {"patch", "save"} THEN "reread" ELSE "ok"]
    BY <1>7 DEF Commit, Goto, Hold, BasedOn
  <2>2. posts'[Post(r)] = new /\ RowsGrow /\ UnusedStay(r)
    BY <2>1, StoreGrows
  <2>3. new \in PostRow /\ new.revision = copy[r].revision + 1 /\ copy[r].revision \in Nat
    BY <1>a, NextTyped DEF PostRow
  <2>4. \A f \in Fields \ Named(r) : next[f] = new[f]
    BY <1>a, <2>3, ApplyTyped, FieldsTyped
  <2> HIDE DEF new, next
  <2>5. /\ OthersStay(r) /\ copy'[r] = next /\ base'[r] = new
        /\ pc'[r] = IF Kind(r) \in {"patch", "save"} THEN "reread" ELSE "ok"
    BY <2>1 DEF TypeOK, OthersStay
  <2>6. Stored(r)' = new /\ Named(r)' = Named(r)
    BY <2>1, <2>2 DEF Stored, Post, Named, Asks
  <2>7. BaseKnown(r)'
    BY <2>3, <2>5, <2>6 DEF BaseKnown
  <2>8. CopyFaithful(r)'
    BY <2>4, <2>5, <2>6 DEF CopyFaithful
  <2> QED
    BY <2>1, <2>2, <2>5, <2>7, <2>8, Preserved
<1>8. ASSUME NEW r \in Requests, Reread(r) PROVE CopiesAreFaithful'
  <2>1. /\ pc[r] = "reread" /\ UNCHANGED <<posts, req, base>>
        /\ copy' = [copy EXCEPT ![r] = Rebased(copy[r], Stored(r))]
        /\ OthersStay(r) /\ pc'[r] = "update"
    BY <1>8 DEF Reread, Goto, Hold, TypeOK, OthersStay
  <2>2. copy'[r] = Rebased(copy[r], Stored(r))
    BY <2>1 DEF TypeOK
  <2>3. BaseKnown(r) /\ CopyFaithful(r)
    BY <1>a, <2>1 DEF Editing
  <2>4. BaseKnown(r)'
    BY <2>1, <2>3 DEF BaseKnown, Stored, Post
  <2>5. \A f \in Fields : copy'[r][f] = copy[r][f]
    BY <1>a, <2>2, RebasedTyped
  <2>6. CopyFaithful(r)'
    BY <2>1, <2>3, <2>5 DEF CopyFaithful, Named, Asks
  <2> QED
    BY <2>1, <2>4, <2>6, IdleGrows, Preserved
<1>9. ASSUME NEW r \in Requests, Update(r) PROVE CopiesAreFaithful'
  <2>1. OthersStay(r) /\ pc'[r] = "ok" /\ UNCHANGED req
    BY <1>9 DEF Update, Goto, TypeOK, OthersStay
  <2>2. RowsGrow /\ UnusedStay(r)
    BY <1>9, StoreGrows DEF Update
  <2> QED
    BY <2>1, <2>2, Preserved DEF Editing
<1>10. ASSUME NEW r \in Requests, Refuse(r) PROVE CopiesAreFaithful'
  BY <1>10, RefuseFaithful
<1>11. CASE UNCHANGED vars
  BY <1>11 DEF vars, CopiesAreFaithful, CreatesAlone, Editing, BaseKnown, CopyFaithful,
               Exists, Stored, Post, Kind, Asks, Named
<1> QED
  BY <1>1, <1>2, <1>3, <1>4, <1>5, <1>6, <1>7, <1>8, <1>9, <1>10, <1>11
  DEF Next, Step, Fail, LoadRefused, InsertRefused, StatusRefused, RereadRefused, Conflict

LEMMA InitFaithful == Init => CopiesAreFaithful
<1> SUFFICES ASSUME Init PROVE CopiesAreFaithful
  OBVIOUS
<1>1. \A p \in Posts : Exists(posts, p) => posts[p].revision > 0
  BY DEF Init, Exists, Unused
<1>2. \A r \in Requests : CreatesAlone(r) /\ ~Editing(r)
  BY DEF Init, CreatesAlone, Editing, Kind
<1> QED
  BY <1>1, <1>2 DEF CopiesAreFaithful

\* A copy in memory differs from the row it was made from only in the fields
\* its request names, and the stored row is still that row while the revision
\* is the same, whatever other requests do in between.
THEOREM EditingFaithful == Spec => [](TypeOK /\ CopiesAreFaithful)
<1>1. Init => TypeOK /\ CopiesAreFaithful
  BY InitTyped, InitFaithful
<1>2. TypeOK /\ CopiesAreFaithful /\ [Next]_vars => (TypeOK /\ CopiesAreFaithful)'
  BY StepTyped, StepFaithful
<1> QED
  BY <1>1, <1>2, PTL DEF Spec

-------------------------------------------------------------------------------
(* What follows for the steps that write.                                  *)

\* Only these steps change a row.
LEMMA Writers ==
  ASSUME TypeOK, [Next]_vars
  PROVE  \/ UNCHANGED posts
         \/ \E r \in Requests : Insert(r) \/ Delete(r) \/ Commit(r) \/ Update(r)
  BY DEF Next, Step, Receive, Fail, Refuse, Load, LoadRefused, InsertRefused, Send,
         ReadStatus, StatusRefused, Conflict, Reread, RereadRefused, vars

\* A request whose control moves in a step is the one that takes the step.
LEMMA Mover ==
  ASSUME TypeOK, [Next]_vars, NEW r \in Requests, Writes(r)
  PROVE  Commit(r) \/ Update(r)
<1>1. PICK q \in Requests : Insert(q) \/ Delete(q) \/ Commit(q) \/ Update(q)
  BY Writers DEF Writes
<1>2. \A x \in Requests \ {q} : pc'[x] = pc[x]
  BY <1>1 DEF Insert, Delete, Commit, Update, Goto, TypeOK
<1>3. q = r
  BY <1>2 DEF Writes
<1> QED
  BY <1>1, <1>3 DEF Writes, Insert, Delete

\* Commit and Update put the copy over the row it has the revision of.
LEMMA WritesCopy ==
  ASSUME TypeOK, CopiesAreFaithful, [Next]_vars, NEW r \in Requests, Writes(r)
  PROVE  /\ Exists(posts, Post(r)) /\ Stored(r).revision = copy[r].revision
         /\ posts'[Post(r)].revision = Stored(r).revision + 1
         /\ \A f \in Fields : posts'[Post(r)][f] = copy[r][f]
         /\ BaseKnown(r) /\ CopyFaithful(r)
<1>1. Editing(r) /\ copy[r] \in PostRow
  BY DEF Writes, Editing, TypeOK
<1>2. /\ RevisionMatches(posts, Post(r), NextRevision(copy[r]))
      /\ posts' = UpdateRow(posts, Post(r), NextRevision(copy[r]))
  BY Mover DEF Commit, Update
<1>3. /\ Exists(posts, Post(r)) /\ Stored(r).revision = copy[r].revision
      /\ posts'[Post(r)] = NextRevision(copy[r])
  BY <1>2, StoreGrows
<1> QED
  BY <1>1, <1>3, NextTyped DEF CopiesAreFaithful

\* UpdateStatus and PublishPost lose nothing that another request has stored.
THEOREM CommitsLoseNothing == Spec => CommitLosesNothing
<1>1. ASSUME TypeOK, CopiesAreFaithful, [Next]_vars, NEW r \in Requests,
             pc[r] = "commit", Writes(r)
      PROVE  Untouched(r)
  <2>1. base[r] = Stored(r)
    BY <1>1, WritesCopy DEF BaseKnown, CopyFaithful
  <2> QED
    BY <1>1, <2>1, WritesCopy DEF CopyFaithful, Untouched
<1>2. TypeOK /\ CopiesAreFaithful /\ [Next]_vars =>
        [\A r \in Requests : pc[r] = "commit" /\ Writes(r) => Untouched(r)]_vars
  BY <1>1
<1> QED
  BY <1>2, EditingFaithful, PTL DEF Spec, CommitLosesNothing

\* UpdateStatus moves the status that is stored, not one read long ago, along
\* the table of transitions.
THEOREM StatusesFollowTable == Spec => StatusFollowsTable
<1>1. ASSUME TypeOK, CopiesAreFaithful, [Next]_vars, NEW r \in Requests,
             pc[r] = "commit", Writes(r), Kind(r) # "publish"
      PROVE  IsTransitionAllowed(Stored(r).status, posts'[Post(r)].status)
  <2>1. base[r] = Stored(r)
    BY <1>1, WritesCopy DEF BaseKnown, CopyFaithful
  <2>2. posts'[Post(r)].status = copy[r].status
    BY <1>1, WritesCopy DEF Fields
  <2> QED
    BY <1>1, <2>1, <2>2, WritesCopy DEF CopyFaithful
<1>2. TypeOK /\ CopiesAreFaithful /\ [Next]_vars =>
        [\A r \in Requests : pc[r] = "commit" /\ Writes(r) /\ Kind(r) # "publish" =>
           IsTransitionAllowed(Stored(r).status, posts'[Post(r)].status)]_vars
  BY <1>1
<1> QED
  BY <1>2, EditingFaithful, PTL DEF Spec, StatusFollowsTable

\* UpdatePost loses nothing when no other request has written since the copy
\* was made.
THEOREM RacelessUpdatesLoseNothing == Spec => RacelessUpdateLosesNothing
<1>1. ASSUME TypeOK, CopiesAreFaithful, [Next]_vars, NEW r \in Requests,
             pc[r] = "update", Writes(r), Stored(r).revision = base[r].revision
      PROVE  Untouched(r)
  <2>1. base[r] = Stored(r)
    BY <1>1, WritesCopy DEF BaseKnown
  <2> QED
    BY <1>1, <2>1, WritesCopy DEF CopyFaithful, Untouched
<1>2. TypeOK /\ CopiesAreFaithful /\ [Next]_vars =>
        [\A r \in Requests :
           pc[r] = "update" /\ Writes(r) /\ Stored(r).revision = base[r].revision =>
             Untouched(r)]_vars
  BY <1>1
<1> QED
  BY <1>2, EditingFaithful, PTL DEF Spec, RacelessUpdateLosesNothing

\* Every write advances the revision by one, and a deleted post stays deleted.
LEMMA WriteCounts ==
  ASSUME TypeOK, CopiesAreFaithful, [Next]_vars, NEW p \in Posts, posts'[p] # posts[p]
  PROVE  /\ posts'[p] = DeleteRow(posts, p)[p] \/ posts'[p].revision = posts[p].revision + 1
         /\ Exists(posts, p) \/ posts[p].revision = 0
<1>1. PICK r \in Requests : Insert(r) \/ Delete(r) \/ Commit(r) \/ Update(r)
  BY Writers
<1>2. Post(r) \in Posts /\ posts \in [Posts -> PostRow]
  BY DEF TypeOK, Request, Post
<1>3. CASE Insert(r)
  <2>1. Stored(r) = Unused /\ Asks(r) \in Change
    BY <1>3 DEF Insert, CopiesAreFaithful, CreatesAlone, TypeOK, Request, Asks
  <2> DEFINE first == [Unused EXCEPT !.status = "idea", !.revision = 1]
  <2>2. posts' = UpdateRow(posts, Post(r), Apply({"title", "tags"}, Asks(r), first))
    BY <1>3 DEF Insert
  <2>3. first \in PostRow /\ first.revision = 1
    BY UnusedTyped DEF PostRow, Unused, Statuses
  <2> HIDE DEF first
  <2>4. {"title", "tags"} \in SUBSET Fields
    BY DEF Fields
  <2>5. Apply({"title", "tags"}, Asks(r), first).revision = 1
    BY <2>1, <2>3, <2>4, ApplyTyped
  <2>6. p = Post(r) /\ posts'[p] = Apply({"title", "tags"}, Asks(r), first)
    BY <1>2, <2>2 DEF UpdateRow
  <2> QED
    BY <2>1, <2>5, <2>6 DEF Stored, Unused
<1>4. CASE Delete(r)
  <2>1. p = Post(r) /\ posts'[p] = DeleteRow(posts, p)[p]
    BY <1>2, <1>4 DEF Delete, DeleteRow
  <2>2. Exists(posts, p)
    BY <1>2, <2>1 DEF DeleteRow, Exists, PostRow
  <2> QED
    BY <2>1, <2>2
<1>5. CASE Commit(r) \/ Update(r)
  <2>1. /\ RevisionMatches(posts, Post(r), NextRevision(copy[r]))
        /\ posts' = UpdateRow(posts, Post(r), NextRevision(copy[r]))
    BY <1>5 DEF Commit, Update
  <2>2. /\ Exists(posts, Post(r)) /\ Stored(r).revision = copy[r].revision
        /\ posts'[Post(r)] = NextRevision(copy[r]) /\ p = Post(r)
    BY <2>1, StoreGrows
  <2>3. copy[r] \in PostRow
    BY DEF TypeOK
  <2> QED
    BY <2>2, <2>3, NextTyped DEF Stored
<1> QED
  BY <1>1, <1>3, <1>4, <1>5

\* No two states of a post have the same revision number.
THEOREM RevisionsCountUpdates == Spec => RevisionCountsUpdates
<1>1. TypeOK /\ CopiesAreFaithful /\ [Next]_vars =>
        [\A p \in Posts : posts'[p] # posts[p] =>
           \/ posts'[p] = DeleteRow(posts, p)[p]
           \/ posts'[p].revision = posts[p].revision + 1]_vars
  BY WriteCounts
<1> QED
  BY <1>1, EditingFaithful, PTL DEF Spec, RevisionCountsUpdates

\* No request that loaded a post before its deletion brings it back.
THEOREM DeletedPostsStayDeleted == Spec => DeletedStaysDeleted
<1>1. ASSUME TypeOK, CopiesAreFaithful, [Next]_vars, NEW p \in Posts,
             ~Exists(posts, p), posts[p].revision > 0
      PROVE  posts'[p] = posts[p]
  BY <1>1, WriteCounts
<1>2. TypeOK /\ CopiesAreFaithful /\ [Next]_vars =>
        [\A p \in Posts :
           ~Exists(posts, p) /\ posts[p].revision > 0 => posts'[p] = posts[p]]_vars
  BY <1>1
<1> QED
  BY <1>2, EditingFaithful, PTL DEF Spec, DeletedStaysDeleted

-------------------------------------------------------------------------------
(* What a request was asked for ends up in the table.                      *)

\* What the bodies of each kind mention.
LEMMA BodiesMention ==
  ASSUME NEW k \in AllKinds, NEW r \in Requests, NEW c \in Bodies(k, r)
  PROVE  /\ k = "patch" => c["url"] = Keep
         /\ k = "save" => /\ c["url"] = Keep /\ c["title"] # Keep /\ c["tags"] # Keep
                          /\ c["content"] # Keep /\ c["status"] # Keep
         /\ k = "setstatus" => /\ c["title"] = Keep /\ c["tags"] = Keep
                               /\ c["content"] = Keep /\ c["url"] = Keep
                               /\ c["status"] # Keep
         /\ k = "publish" => /\ c["title"] = Keep /\ c["tags"] = Keep
                             /\ c["content"] = Keep /\ c["url"] # Keep
                             /\ c["status"] # Keep
         /\ k = "clipublish" => /\ c["title"] = Keep /\ c["tags"] = Keep
                                /\ c["content"] = Keep /\ c["status"] = Keep
         /\ k = "delete" => \A f \in Fields : c[f] = Keep
BY EditingAssumption DEF Bodies, AllKinds, NoChange, Statuses

\* What a handler sets has the value asked for, and the rest is left alone.
LEMMA ApplySets ==
  ASSUME NEW fields, NEW c \in Change, NEW q \in PostRow, NEW f \in Fields
  PROVE  /\ f \in fields /\ c[f] # Keep => Apply(fields, c, q)[f] = c[f]
         /\ f \notin fields => Apply(fields, c, q)[f] = q[f]
BY DEF Apply, PostRow, Fields

\* The copy has all that its request asks for, but for what it drops.
Carries(r) == \A f \in Named(r) \ Dropped(r) : copy[r][f] = Asks(r)[f]

\* How far each kind of request has come.
Asked(r) ==
  /\ pc[r] # "idle" => Kind(r) \in AllKinds /\ Asks(r) \in Bodies(Kind(r), r)
  /\ pc[r] = "load" => Kind(r) \in {"patch", "save", "publish", "clipublish"}
  /\ pc[r] = "insert" => Kind(r) = "create"
  /\ pc[r] = "delete" => Kind(r) = "delete"
  /\ pc[r] = "send" => Kind(r) \in {"publish", "clipublish"}
  /\ pc[r] = "readstatus" => /\ Kind(r) \in {"setstatus", "patch", "save"}
                             /\ Asks(r)["status"] # Keep
  /\ pc[r] = "commit" => /\ Kind(r) \in {"publish", "setstatus", "patch", "save"}
                         /\ Asks(r)["status"] # Keep
                         /\ copy[r]["status"] = Asks(r)["status"]
                         /\ Kind(r) = "publish" => copy[r]["url"] = Asks(r)["url"]
  /\ pc[r] \in {"reread", "update"} =>
       /\ Kind(r) \in {"create", "patch", "save", "clipublish"}
       /\ Kind(r) # "create" => Carries(r)

\* A request stays where it is while another one moves.
LEMMA AskedStays ==
  ASSUME NEW r, NEW q \in Requests \ {r}, OthersStay(r), Asked(q)
  PROVE  Asked(q)'
<1>1. /\ pc'[q] = pc[q] /\ copy'[q] = copy[q]
      /\ Kind(q)' = Kind(q) /\ Asks(q)' = Asks(q)
      /\ Named(q)' = Named(q) /\ Dropped(q)' = Dropped(q)
  BY DEF OthersStay, Kind, Asks, Named, Dropped
<1> QED
  BY <1>1 DEF Asked, Carries

\* What a load leaves to be set.
LEMMA LoadCarries ==
  ASSUME TypeOK, NEW r \in Requests, Asked(r), Load(r), AfterLoad(r) = "reread"
  PROVE  /\ Kind(r) \in {"patch", "save"}
         /\ \A f \in Named(r) \ Dropped(r) :
              Apply(EarlyFields(Kind(r)) \cup LateFields(Kind(r)), Asks(r), Stored(r))[f]
                = Asks(r)[f]
<1>1. Asks(r) \in Change /\ Stored(r) \in PostRow
  BY DEF TypeOK, Request, Asks, Stored, Post
<1>2. /\ Kind(r) \in {"patch", "save"} /\ ~ChangesStatus(r)
      /\ Asks(r) \in Bodies(Kind(r), r) /\ Kind(r) \in AllKinds
  BY DEF Asked, Load, AfterLoad
<1>3. ASSUME NEW f \in Named(r) \ Dropped(r)
      PROVE  Apply(EarlyFields(Kind(r)) \cup LateFields(Kind(r)), Asks(r), Stored(r))[f]
               = Asks(r)[f]
  <2> DEFINE set == EarlyFields(Kind(r)) \cup LateFields(Kind(r))
  <2>1. f \in Fields /\ Asks(r)[f] # Keep
    BY DEF Named
  <2>2. f \in set => Apply(set, Asks(r), Stored(r))[f] = Asks(r)[f]
    BY <1>1, <2>1, ApplySets
  <2>3. f \notin set => Apply(set, Asks(r), Stored(r))[f] = Stored(r)[f]
    BY <1>1, <2>1, ApplySets
  <2>4. f \in {"title", "content", "tags"} => f \in set
    BY <1>2 DEF EarlyFields, LateFields
  <2>5. f # "url"
    BY <1>2, <2>1, BodiesMention
  <2>6. f = "status" => Stored(r)[f] = Asks(r)[f]
    BY <1>2, <2>1 DEF ChangesStatus
  <2>7. f \in {"title", "content", "tags", "status"}
    BY <2>1, <2>5 DEF Fields
  <2>8. Apply(set, Asks(r), Stored(r))[f] = Asks(r)[f]
    <3> HIDE DEF set
    <3> QED
      BY <2>2, <2>3, <2>4, <2>6, <2>7
  <2> QED
    BY <2>8
<1> QED
  BY <1>2, <1>3

\* What is left to be set after the status has been committed.
LEMMA CommitCarries ==
  ASSUME TypeOK, NEW r \in Requests, Asked(r), pc[r] = "commit",
         Kind(r) \in {"patch", "save"},
         NEW f \in Named(r) \ Dropped(r)
  PROVE  Apply(LateFields(Kind(r)), Asks(r), NextRevision(copy[r]))[f] = Asks(r)[f]
<1> DEFINE set == LateFields(Kind(r))
           new == NextRevision(copy[r])
<1>1. Asks(r) \in Change /\ copy[r] \in PostRow
  BY DEF TypeOK, Request, Asks
<1>2. new \in PostRow /\ \A g \in Fields : new[g] = copy[r][g]
  BY <1>1, NextTyped
<1>3. /\ Asks(r) \in Bodies(Kind(r), r) /\ Kind(r) \in AllKinds
      /\ Asks(r)["status"] # Keep /\ copy[r]["status"] = Asks(r)["status"]
  BY DEF Asked
<1>4. f \in Fields /\ Asks(r)[f] # Keep /\ f \notin Dropped(r)
  BY DEF Named
<1>5. f # "url"
  BY <1>3, <1>4, BodiesMention
<1>6. Dropped(r) = EarlyFields(Kind(r)) \ LateFields(Kind(r))
  BY <1>1, <1>3 DEF Dropped, Change
<1>7. f \in set \/ f = "status"
  BY <1>4, <1>5, <1>6 DEF EarlyFields, LateFields, Fields
<1>8. CASE f \in set
  BY <1>1, <1>2, <1>4, <1>8, ApplySets
<1>9. CASE f = "status"
  <2>1. f \notin set
    BY <1>9 DEF LateFields
  <2>2. Apply(set, Asks(r), new)[f] = new[f]
    BY <2>1, <1>1, <1>2, <1>4, ApplySets
  <2>3. new[f] = copy[r][f]
    BY <1>2, <1>4
  <2> QED
    BY <2>2, <2>3, <1>3, <1>9
<1> QED
  BY <1>7, <1>8, <1>9

\* A request goes on to another statement, with the same body.
LEMMA AskedMoves ==
  ASSUME NEW r \in Requests, Asked(r), pc[r] # "idle", UNCHANGED req,
         NEW l, pc'[r] = l,
         l \in {"load", "insert", "delete"} => FALSE,
         l = "send" => Kind(r) \in {"publish", "clipublish"},
         l = "readstatus" => Kind(r) \in {"setstatus", "patch", "save"}
                             /\ Asks(r)["status"] # Keep,
         l = "commit" => /\ Kind(r) \in {"publish", "setstatus", "patch", "save"}
                         /\ Asks(r)["status"] # Keep
                         /\ copy'[r]["status"] = Asks(r)["status"]
                         /\ Kind(r) = "publish" => copy'[r]["url"] = Asks(r)["url"],
         l \in {"reread", "update"} =>
           /\ Kind(r) \in {"create", "patch", "save", "clipublish"}
           /\ Kind(r) # "create" =>
                \A f \in Named(r) \ Dropped(r) : copy'[r][f] = Asks(r)[f]
  PROVE  Asked(r)'
<1>1. /\ Kind(r)' = Kind(r) /\ Asks(r)' = Asks(r)
      /\ Named(r)' = Named(r) /\ Dropped(r)' = Dropped(r)
  BY DEF Kind, Asks, Named, Dropped
<1> QED
  BY <1>1 DEF Asked, Carries

LEMMA RefuseAsked ==
  ASSUME TypeOK, NEW r \in Requests, Asked(r), pc[r] # "idle", Refuse(r)
  PROVE  Asked(r)'
<1>1. pc'[r] \in {"ok", "refused"} /\ UNCHANGED req
  BY DEF Refuse, Goto, TypeOK
<1> QED
  BY <1>1, AskedMoves

\* Only the request that takes a step moves.
LEMMA StepAlone ==
  ASSUME TypeOK, NEW r \in Requests, Step(r)
  PROVE  OthersStay(r)
<1>1. pc \in [Requests -> Busy \cup Answers \cup {"idle"}]
      /\ req \in [Requests -> Request]
      /\ copy \in [Requests -> PostRow] /\ base \in [Requests -> PostRow]
  BY DEF TypeOK
<1>2. ASSUME Refuse(r) PROVE OthersStay(r)
  BY <1>1, <1>2 DEF Refuse, Goto, OthersStay
<1>3. CASE Fail(r) \/ LoadRefused(r) \/ InsertRefused(r) \/ StatusRefused(r)
           \/ Conflict(r) \/ RereadRefused(r)
  BY <1>2, <1>3 DEF Fail, LoadRefused, InsertRefused, StatusRefused, Conflict, RereadRefused
<1>4. CASE \E k \in Kinds, p \in Posts : \E c \in Bodies(k, r) : Receive(r, k, p, c)
  BY <1>1, <1>4 DEF Receive, Goto, OthersStay
<1>5. CASE Load(r) \/ Insert(r) \/ Send(r)
  BY <1>1, <1>5 DEF Load, Insert, Send, Goto, Hold, BasedOn, OthersStay
<1>6. CASE Delete(r) \/ Update(r)
  BY <1>1, <1>6 DEF Delete, Update, Goto, Hold, BasedOn, OthersStay
<1>7. CASE ReadStatus(r) \/ Commit(r) \/ Reread(r)
  BY <1>1, <1>7 DEF ReadStatus, Commit, Reread, Goto, Hold, BasedOn, OthersStay
<1> QED
  BY <1>3, <1>4, <1>5, <1>6, <1>7 DEF Step

LEMMA StepAsked ==
  ASSUME TypeOK, TypeOK', NEW r \in Requests, Asked(r), Step(r)
  PROVE  Asked(r)'
<1>1. /\ pc \in [Requests -> Busy \cup Answers \cup {"idle"}]
      /\ req \in [Requests -> Request] /\ copy \in [Requests -> PostRow]
      /\ Asks(r) \in Change /\ Stored(r) \in PostRow /\ copy[r] \in PostRow
      /\ \A f \in Named(r) : f \in Fields /\ Asks(r)[f] # Keep
      /\ pc[r] # "idle" => Kind(r) \in AllKinds /\ Asks(r) \in Bodies(Kind(r), r)
  BY DEF TypeOK, Request, Asks, Stored, Post, Named, Asked
<1>2. CASE Fail(r) \/ LoadRefused(r) \/ InsertRefused(r) \/ StatusRefused(r)
           \/ Conflict(r) \/ RereadRefused(r)
  <2>1. Refuse(r) /\ pc[r] # "idle"
    BY <1>2 DEF Fail, Busy, LoadRefused, InsertRefused, StatusRefused, Conflict,
                RereadRefused
  <2> QED
    BY <2>1, RefuseAsked
<1>3. ASSUME NEW k \in Kinds, NEW p \in Posts, NEW c \in Bodies(k, r), Receive(r, k, p, c)
      PROVE  Asked(r)'
  <2>1. k \in AllKinds /\ pc'[r] = Entry(k) /\ Kind(r)' = k /\ Asks(r)' = c
    BY <1>1, <1>3, EditingAssumption DEF Receive, Goto, Kind, Asks
  <2>2. c["status"] # Keep \/ k # "setstatus"
    BY <2>1, BodiesMention
  <2> QED
    BY <2>1, <2>2 DEF Asked, Entry, AllKinds
<1>4. CASE Load(r)
  <2>1. /\ pc'[r] = AfterLoad(r) /\ UNCHANGED req /\ pc[r] = "load"
        /\ Kind(r) \in {"patch", "save", "publish", "clipublish"}
    BY <1>1, <1>4 DEF Load, Goto, Asked
  <2>2. CASE AfterLoad(r) = "send"
    BY <2>1, <2>2, AskedMoves DEF AfterLoad
  <2>3. CASE AfterLoad(r) = "readstatus"
    <3>1. Kind(r) \in {"patch", "save"} /\ Asks(r).status # Keep
      BY <2>1, <2>3 DEF AfterLoad, ChangesStatus
    <3> QED
      BY <2>1, <2>3, <3>1, AskedMoves
  <2>4. CASE AfterLoad(r) = "reread"
    <3>1. copy'[r] = Apply(EarlyFields(Kind(r)) \cup LateFields(Kind(r)), Asks(r), Stored(r))
      BY <1>1, <1>4, <2>4 DEF Load, Hold
    <3>2. \A f \in Named(r) \ Dropped(r) : copy'[r][f] = Asks(r)[f]
      BY <3>1, <1>4, <2>4, LoadCarries
    <3>3. Kind(r) \in {"patch", "save"}
      BY <1>4, <2>4, LoadCarries
    <3> QED
      BY <3>2, <3>3, <2>1, <2>4, AskedMoves
  <2> QED
    BY <2>2, <2>3, <2>4 DEF AfterLoad
<1>5. CASE Insert(r)
  <2>1. /\ pc'[r] \in {"ok", "reread"} /\ UNCHANGED req /\ pc[r] = "insert"
        /\ Kind(r) = "create"
    BY <1>1, <1>5 DEF Insert, Goto, Asked
  <2> QED
    BY <2>1, AskedMoves
<1>6. CASE Send(r)
  <2>1. /\ pc'[r] = IF Kind(r) = "publish" THEN "commit" ELSE "reread"
        /\ UNCHANGED req /\ pc[r] = "send" /\ Kind(r) \in {"publish", "clipublish"}
        /\ copy'[r] = Apply(SentFields(Kind(r)), Asks(r), copy[r])
    BY <1>1, <1>6 DEF Send, Goto, Hold, Asked
  <2>2. CASE Kind(r) = "publish"
    <3>1. Asks(r)["status"] # Keep /\ Asks(r)["url"] # Keep
      BY <2>1, <2>2, <1>1, BodiesMention
    <3>2. "status" \in Fields /\ "url" \in Fields /\ SentFields(Kind(r)) = {"url", "status"}
      BY <2>2 DEF Fields, SentFields
    <3>3. copy'[r]["status"] = Asks(r)["status"] /\ copy'[r]["url"] = Asks(r)["url"]
      BY <2>1, <3>1, <3>2, <1>1, ApplySets
    <3> QED
      BY <2>1, <2>2, <3>1, <3>3, AskedMoves
  <2>3. CASE Kind(r) = "clipublish"
    <3>1. \A f \in Named(r) : f = "url"
      BY <2>1, <2>3, <1>1, BodiesMention DEF Fields
    <3>2. SentFields(Kind(r)) = {"url"}
      BY <2>3 DEF SentFields
    <3>3. \A f \in Named(r) \ Dropped(r) : copy'[r][f] = Asks(r)[f]
      BY <2>1, <3>1, <3>2, <1>1, ApplySets
    <3> QED
      BY <2>1, <2>3, <3>3, AskedMoves
  <2> QED
    BY <2>1, <2>2, <2>3
<1>7. CASE Delete(r) \/ Update(r)
  <2>1. pc'[r] = "ok" /\ UNCHANGED req /\ pc[r] # "idle"
    BY <1>1, <1>7 DEF Delete, Update, Goto
  <2> QED
    BY <2>1, AskedMoves
<1>8. CASE ReadStatus(r)
  <2>1. /\ pc'[r] = "commit" /\ UNCHANGED req /\ pc[r] = "readstatus"
        /\ copy'[r] = WithStatus(Stored(r), Asks(r).status)
        /\ Kind(r) \in {"setstatus", "patch", "save"} /\ Asks(r)["status"] # Keep
    BY <1>1, <1>8 DEF ReadStatus, Goto, Hold, Asked
  <2>2. Asks(r).status \in Statuses
    BY <2>1, <1>1 DEF Change
  <2>3. copy'[r]["status"] = Asks(r)["status"]
    BY <2>1, <2>2, <1>1, StatusTyped
  <2> QED
    BY <2>1, <2>3, AskedMoves
<1>9. CASE Commit(r)
  <2>1. /\ pc'[r] = IF Kind(r) \in {"patch", "save"} THEN "reread" ELSE "ok"
        /\ UNCHANGED req /\ pc[r] = "commit"
        /\ copy'[r] = Apply(LateFields(Kind(r)), Asks(r), NextRevision(copy[r]))
    BY <1>1, <1>9 DEF Commit, Goto, Hold
  <2>2. CASE Kind(r) \in {"patch", "save"}
    <3>1. \A f \in Named(r) \ Dropped(r) : copy'[r][f] = Asks(r)[f]
      BY <2>1, <2>2, CommitCarries
    <3> QED
      BY <2>1, <2>2, <3>1, AskedMoves
  <2>3. CASE Kind(r) \notin {"patch", "save"}
    BY <2>1, <2>3, AskedMoves
  <2> QED
    BY <2>2, <2>3
<1>10. CASE Reread(r)
  <2>1. /\ pc'[r] = "update" /\ UNCHANGED req /\ pc[r] = "reread"
        /\ copy'[r] = Rebased(copy[r], Stored(r))
        /\ Kind(r) \in {"create", "patch", "save", "clipublish"}
        /\ Kind(r) # "create" => Carries(r)
    BY <1>1, <1>10 DEF Reread, Goto, Hold, Asked
  <2>2. \A f \in Fields : copy'[r][f] = copy[r][f]
    BY <2>1, <1>1, RebasedTyped
  <2>3. Kind(r) # "create" => \A f \in Named(r) \ Dropped(r) : copy'[r][f] = Asks(r)[f]
    BY <2>1, <2>2, <1>1 DEF Carries
  <2> QED
    BY <2>1, <2>3, AskedMoves
<1> QED
  BY <1>2, <1>3, <1>4, <1>5, <1>6, <1>7, <1>8, <1>9, <1>10 DEF Step

\* A request that is answered with success has stored what it was asked for.
LEMMA StepAcked ==
  ASSUME TypeOK, CopiesAreFaithful, NEW r \in Requests, Asked(r), Step(r),
         pc[r] \in Busy, pc'[r] = "ok", Kind(r) # "create",
         NEW f \in Named(r) \ Dropped(r)
  PROVE  posts'[Post(r)][f] = Asks(r)[f]
<1>1. /\ pc \in [Requests -> Busy \cup Answers \cup {"idle"}]
      /\ copy[r] \in PostRow /\ f \in Fields /\ Asks(r)[f] # Keep
      /\ Kind(r) \in AllKinds /\ Asks(r) \in Bodies(Kind(r), r)
  BY DEF TypeOK, Named, Asked, Busy
<1>2. ~Refuse(r)
  <2>1. ASSUME Refuse(r) PROVE FALSE
    BY <2>1, <1>1 DEF Refuse, Goto
  <2> QED
    BY <2>1
<1>3. Delete(r) \/ Commit(r) \/ Update(r)
  <2>1. ~(\E k \in Kinds, p \in Posts : \E c \in Bodies(k, r) : Receive(r, k, p, c))
    BY DEF Receive, Busy
  <2>2. ~Insert(r)
    BY DEF Insert, Asked
  <2>3. ~Load(r) /\ ~Send(r) /\ ~ReadStatus(r) /\ ~Reread(r)
    BY <1>1 DEF Load, AfterLoad, Send, ReadStatus, Reread, Goto
  <2> QED
    BY <1>2, <2>1, <2>2, <2>3
    DEF Step, Fail, LoadRefused, InsertRefused, StatusRefused, Conflict, RereadRefused
<1>4. ~Delete(r)
  BY <1>1, BodiesMention DEF Delete, Asked
<1>5. /\ RevisionMatches(posts, Post(r), NextRevision(copy[r]))
      /\ posts' = UpdateRow(posts, Post(r), NextRevision(copy[r]))
  BY <1>3, <1>4 DEF Commit, Update
<1>6. posts'[Post(r)][f] = copy[r][f]
  BY <1>1, <1>5, StoreGrows, NextTyped
<1>7. CASE Update(r)
  BY <1>6, <1>7 DEF Update, Asked, Carries
<1>8. CASE Commit(r)
  <2>1. Kind(r) \in {"publish", "setstatus"} /\ pc[r] = "commit"
    BY <1>1, <1>8 DEF Commit, Goto, Asked
  <2>2. /\ copy[r]["status"] = Asks(r)["status"]
        /\ Kind(r) = "publish" => copy[r]["url"] = Asks(r)["url"]
    BY <2>1 DEF Asked
  <2>3. f = "status" \/ (f = "url" /\ Kind(r) = "publish")
    BY <2>1, <1>1, BodiesMention DEF Fields
  <2> QED
    BY <1>6, <2>2, <2>3
<1> QED
  BY <1>3, <1>4, <1>7, <1>8

\* Success means stored: whatever the requests do to each other, an answer of
\* success says that everything asked for (and not dropped) is in the table.
THEOREM AcksAreStored == Spec => AckedIsStored
<1> DEFINE AllAsked == \A r \in Requests : Asked(r)
<1>1. Init => AllAsked
  BY DEF Init, Asked
<1>2. TypeOK /\ TypeOK' /\ AllAsked /\ [Next]_vars => AllAsked'
  <2> SUFFICES ASSUME TypeOK, TypeOK', AllAsked, [Next]_vars, NEW q \in Requests
               PROVE  Asked(q)'
    OBVIOUS
  <2>1. CASE UNCHANGED vars
    BY <2>1 DEF vars, Asked, Carries, Kind, Asks, Named, Dropped
  <2>2. ASSUME NEW r \in Requests, Step(r)
        PROVE  Asked(q)'
    <3>1. CASE q = r
      BY <2>2, <3>1, StepAsked
    <3>2. CASE q # r
      BY <2>2, <3>2, StepAlone, AskedStays
    <3> QED
      BY <3>1, <3>2
  <2> QED
    BY <2>1, <2>2 DEF Next
<1>3. TypeOK /\ CopiesAreFaithful /\ AllAsked /\ [Next]_vars =>
        [\A r \in Requests : pc[r] \in Busy /\ pc'[r] = "ok" /\ Kind(r) # "create" =>
           \A f \in Named(r) \ Dropped(r) : posts'[Post(r)][f] = Asks(r)[f]]_vars
  <2> SUFFICES ASSUME TypeOK, CopiesAreFaithful, AllAsked, Next, NEW r \in Requests,
                      pc[r] \in Busy, pc'[r] = "ok", Kind(r) # "create",
                      NEW f \in Named(r) \ Dropped(r)
               PROVE  posts'[Post(r)][f] = Asks(r)[f]
    OBVIOUS
  <2>1. PICK q \in Requests : Step(q)
    BY DEF Next
  <2>2. q = r
    BY <2>1, StepAlone DEF OthersStay, Busy
  <2> QED
    BY <2>1, <2>2, StepAcked
<1> QED
  BY <1>1, <1>2, <1>3, EditingFaithful, PTL DEF Spec, AckedIsStored

===============================================================================
