----------------------------- MODULE ClientsProofs -----------------------------
(***************************************************************************)
(* Two clients of the server, the dashboard that reloads itself and the    *)
(* commands of "jtpost --remote", for every number of handlers, tabs,      *)
(* commands and posts, every size of the buffers and every number of       *)
(* faults: LiveDashboard forgets no event that matters, and what a command *)
(* of RemoteCommands says is true.                                         *)
(***************************************************************************)
EXTENDS LiveDashboard, RemoteCommands, FiniteSetTheorems, TLAPS

(* The dashboard.                                                          *)

\* The handlers that have made their change.
Begun == {h \in Handlers : handler[h] # "idle"}

\* Every change is that of one handler, or a silent one; what is announced or
\* shown has been made, and what a tab is about to show is not older than what
\* it shows.
CountInv ==
  /\ made = Cardinality(Begun) + silent
  /\ told <= made
  /\ \A t \in Tabs :
       /\ page[t] <= made /\ fetch[t].read <= made
       /\ fetch[t].state = "read" => page[t] <= fetch[t].read

DashIInv == DashTypeOK /\ CountInv /\ NothingForgotten

-------------------------------------------------------------------------------
\* What has begun is finite, and no more than there is.
LEMMA BegunFinite == IsFiniteSet(Begun) /\ Cardinality(Begun) \in 0..Cardinality(Handlers)
<1>1. Begun \in SUBSET Handlers BY DEF Begun
<1>2. IsFiniteSet(Begun) /\ Cardinality(Begun) <= Cardinality(Handlers)
  BY <1>1, FS_Subset, LiveDashboardAssumption
<1>3. Cardinality(Begun) \in Nat /\ Cardinality(Handlers) \in Nat
  BY <1>2, FS_CardinalityType, LiveDashboardAssumption
<1>4. QED BY <1>2, <1>3

\* So the changes stay in range.
LEMMA InRange ==
  ASSUME CountInv, silent \in 0..MaxSilent
  PROVE  made \in Changes
BY BegunFinite, FS_CardinalityType, LiveDashboardAssumption DEF CountInv, Changes

LEMMA DashInitHolds == DashInit => DashIInv
<1>1. SUFFICES ASSUME DashInit PROVE DashIInv OBVIOUS
<1>2. Begun = {} BY <1>1 DEF DashInit, Begun
<1>3. Cardinality(Begun) = 0 BY <1>2, FS_EmptySet
<1>4. CountInv BY <1>1, <1>3 DEF DashInit, CountInv, NoFetch
<1>5. 0 \in Changes BY <1>1, <1>4, InRange, LiveDashboardAssumption DEF DashInit
<1>6. DashTypeOK BY <1>1, <1>5, LiveDashboardAssumption DEF DashInit, DashTypeOK, Fetches, NoFetch
<1>7. NothingForgotten BY <1>1 DEF DashInit, NothingForgotten, Behind
<1>8. QED BY <1>4, <1>6, <1>7 DEF DashIInv

-------------------------------------------------------------------------------
(* The counts.                                                             *)

\* The changes of a handler and the silent ones are counted as they are made.
LEMMA CountHolds == DashIInv /\ [DashNext]_dashVars => CountInv' /\ silent' \in 0..MaxSilent
<1>1. SUFFICES ASSUME DashIInv, [DashNext]_dashVars PROVE CountInv' /\ silent' \in 0..MaxSilent OBVIOUS
<1>2. DashTypeOK /\ CountInv BY <1>1 DEF DashIInv
<1>3. made \in Nat /\ told \in Nat /\ silent \in 0..MaxSilent /\ Cardinality(Begun) \in Nat
  <2>1. Cardinality(Begun) \in Nat BY BegunFinite, FS_CardinalityType
  <2>2. QED BY <1>2, <2>1, BegunFinite, FS_CardinalityType, LiveDashboardAssumption
              DEF DashTypeOK, CountInv, Changes
<1>4. \A t \in Tabs : page[t] \in Nat /\ fetch[t].read \in Nat
  <2>1. Changes \subseteq Nat BY FS_CardinalityType, LiveDashboardAssumption DEF Changes
  <2>2. \A t \in Tabs : page[t] \in Changes /\ fetch[t].read \in Changes
    BY <1>2 DEF DashTypeOK, Fetches
  <2>3. QED BY <2>1, <2>2
<1>5. ASSUME NEW h \in Handlers, Change(h) PROVE CountInv' /\ silent' \in 0..MaxSilent
  <2>1. Begun' = Begun \cup {h} /\ h \notin Begun
    BY <1>2, <1>5 DEF Change, Begun, DashTypeOK
  <2>2. Cardinality(Begun)' = Cardinality(Begun) + 1
    BY <2>1, BegunFinite, FS_AddElement
  <2>3. QED BY <1>2, <1>3, <1>4, <1>5, <2>2 DEF Change, CountInv, DashTypeOK
<1>6. ASSUME SilentChange PROVE CountInv' /\ silent' \in 0..MaxSilent
  <2>1. Begun' = Begun BY <1>6 DEF SilentChange, Begun
  <2>2. QED BY <1>2, <1>3, <1>4, <1>6, <2>1, LiveDashboardAssumption
              DEF SilentChange, CountInv, DashTypeOK
<1>7. ASSUME NEW h \in Handlers, Publish(h) PROVE CountInv' /\ silent' \in 0..MaxSilent
  <2>1. Begun' = Begun BY <1>2, <1>7 DEF Publish, Begun, DashTypeOK
  <2>2. QED BY <1>2, <1>3, <1>7, <2>1 DEF Publish, CountInv
<1>8. ASSUME NEW t \in Tabs, Tab(t) PROVE CountInv' /\ silent' \in 0..MaxSilent
  <2>1. handler' = handler /\ made' = made /\ told' = told /\ silent' = silent
    BY <1>8 DEF Tab, Connect, Subscribe, SendEvent, Break, Reconnect, Ask, ListPosts, Show, FetchFails
  <2>2. Begun' = Begun BY <2>1 DEF Begun
  <2>3. \A u \in Tabs : /\ page'[u] <= made /\ fetch'[u].read <= made
                        /\ fetch'[u].state = "read" => page'[u] <= fetch'[u].read
    <3>1. CASE page' = page /\ fetch' = fetch BY <1>2, <3>1 DEF CountInv
    <3>2. CASE Ask(t) \/ ListPosts(t) \/ Show(t) \/ FetchFails(t)
      BY <1>2, <1>3, <1>4, <3>2
         DEF Ask, ListPosts, Show, FetchFails, NoFetch, CountInv, DashTypeOK, Fetches
    <3>3. QED BY <1>8, <3>1, <3>2 DEF Tab, Connect, Subscribe, SendEvent, Break, Reconnect
  <2>4. QED BY <1>2, <1>3, <2>1, <2>2, <2>3 DEF CountInv
<1>9. CASE UNCHANGED dashVars BY <1>2, <1>3, <1>9 DEF dashVars, CountInv, Begun
<1>10. QED BY <1>1, <1>5, <1>6, <1>7, <1>8, <1>9 DEF DashNext

-------------------------------------------------------------------------------
(* The types.                                                              *)

LEMMA DashTypeHolds == DashIInv /\ [DashNext]_dashVars => DashTypeOK'
<1>1. SUFFICES ASSUME DashIInv, [DashNext]_dashVars PROVE DashTypeOK' OBVIOUS
<1>2. DashTypeOK /\ CountInv BY <1>1 DEF DashIInv
<1>3. made' \in Changes /\ silent' \in 0..MaxSilent
  <2>1. CountInv' /\ silent' \in 0..MaxSilent BY <1>1, CountHolds
  <2>2. Cardinality(Begun)' \in 0..Cardinality(Handlers)
    <3>1. Begun' \in SUBSET Handlers BY DEF Begun
    <3>2. IsFiniteSet(Begun') /\ Cardinality(Begun') <= Cardinality(Handlers)
      BY <3>1, FS_Subset, LiveDashboardAssumption
    <3>3. QED BY <3>2, FS_CardinalityType, LiveDashboardAssumption
  <2>3. Cardinality(Handlers) \in Nat BY FS_CardinalityType, LiveDashboardAssumption
  <2>4. QED BY <2>1, <2>2, <2>3, LiveDashboardAssumption DEF CountInv, Changes
<1>4. ASSUME NEW h \in Handlers, Change(h) \/ Publish(h) PROVE DashTypeOK'
  <2>1. buffer' \in [Tabs -> 0..BufSize]
    BY <1>2, <1>4, LiveDashboardAssumption DEF Change, Publish, HasRoom, DashTypeOK
  <2>2. handler' \in [Handlers -> {"idle", "publish", "done"}]
    BY <1>2, <1>4 DEF Change, Publish, DashTypeOK
  <2>3. told' \in Changes BY <1>2, <1>3, <1>4 DEF Change, Publish, DashTypeOK
  <2>4. QED BY <1>2, <1>3, <1>4, <2>1, <2>2, <2>3 DEF Change, Publish, DashTypeOK
<1>5. ASSUME SilentChange PROVE DashTypeOK'
  BY <1>2, <1>3, <1>5 DEF SilentChange, DashTypeOK
<1>6. ASSUME NEW t \in Tabs, Connect(t) \/ Subscribe(t) \/ SendEvent(t) \/ Break(t) \/ Reconnect(t)
      PROVE  DashTypeOK'
  <2>1. buffer' \in [Tabs -> 0..BufSize]
    BY <1>2, <1>6, LiveDashboardAssumption
       DEF Connect, Subscribe, SendEvent, Break, Reconnect, DashTypeOK
  <2>2. QED BY <1>2, <1>3, <1>6, <2>1, ZenonT(40)
              DEF Connect, CanFlush, Subscribe, SendEvent, Break, Reconnect, DashTypeOK
<1>7. ASSUME NEW t \in Tabs, Ask(t) \/ ListPosts(t) \/ Show(t) \/ FetchFails(t)
      PROVE  DashTypeOK'
  <2>1. 0 \in Changes BY FS_CardinalityType, LiveDashboardAssumption DEF Changes
  <2>2. fetch' \in [Tabs -> Fetches]
    BY <1>2, <1>7, <2>1 DEF Ask, ListPosts, Show, FetchFails, DashTypeOK, Fetches, NoFetch
  <2>3. page' \in [Tabs -> Changes]
    BY <1>2, <1>7 DEF Ask, ListPosts, Show, FetchFails, DashTypeOK, Fetches
  <2>4. QED BY <1>2, <1>3, <1>7, <2>2, <2>3, ZenonT(40) DEF Ask, ListPosts, Show, FetchFails, DashTypeOK
<1>8. CASE UNCHANGED dashVars BY <1>2, <1>8 DEF dashVars, DashTypeOK
<1>9. QED BY <1>1, <1>4, <1>5, <1>6, <1>7, <1>8 DEF DashNext, Tab

-------------------------------------------------------------------------------
(* Nothing is forgotten.                                                   *)

\* A full buffer holds an event, so after a publication every open tab has one.
LEMMA PublishTells ==
  ASSUME DashTypeOK, NEW h \in Handlers, Publish(h), NEW t \in Tabs, stream'[t] = "open"
  PROVE  buffer'[t] > 0
BY LiveDashboardAssumption DEF Publish, HasRoom, DashTypeOK

LEMMA StepForgetsNothing == DashIInv /\ [DashNext]_dashVars => NothingForgotten'
<1>1. SUFFICES ASSUME DashIInv, [DashNext]_dashVars, NEW t \in Tabs, Behind(t)' PROVE OnItsWay(t)'
  BY DEF NothingForgotten
<1>2. DashTypeOK /\ CountInv /\ (Behind(t) => OnItsWay(t)) BY <1>1 DEF DashIInv, NothingForgotten
<1>3. /\ Changes \subseteq Nat /\ made \in Nat /\ told \in Nat
      /\ page[t] \in Nat /\ base[t] \in Nat /\ fetch[t].read \in Nat /\ buffer[t] \in Nat
  <2>1. Changes \subseteq Nat BY FS_CardinalityType, LiveDashboardAssumption DEF Changes
  <2>2. /\ made \in Changes /\ told \in Changes
        /\ page[t] \in Changes /\ base[t] \in Changes /\ fetch[t].read \in Changes
    BY <1>2 DEF DashTypeOK, Fetches
  <2>3. buffer[t] \in Nat BY <1>2, LiveDashboardAssumption DEF DashTypeOK
  <2>4. QED BY <2>1, <2>2, <2>3
<1>4. ASSUME NEW h \in Handlers, Change(h) PROVE OnItsWay(t)'
  <2>1. handler'[h] = "publish" BY <1>2, <1>4 DEF Change, DashTypeOK
  <2>2. QED BY <2>1 DEF OnItsWay
<1>5. ASSUME NEW h \in Handlers, Publish(h) PROVE OnItsWay(t)'
  BY <1>1, <1>2, <1>5, PublishTells DEF Behind, OnItsWay
<1>6. CASE SilentChange
  BY <1>1, <1>2, <1>6 DEF SilentChange, Behind, OnItsWay
<1>7. ASSUME NEW u \in Tabs, u # t, Tab(u) PROVE OnItsWay(t)'
  <2>1. /\ handler' = handler /\ told' = told /\ stream'[t] = stream[t]
        /\ buffer'[t] = buffer[t] /\ wants'[t] = wants[t] /\ fetch'[t] = fetch[t]
        /\ page'[t] = page[t] /\ base'[t] = base[t]
    BY <1>2, <1>7 DEF Tab, Connect, Subscribe, SendEvent, Break, Reconnect, Ask, ListPosts, Show,
                      FetchFails, DashTypeOK
  <2>2. QED BY <1>1, <1>2, <2>1 DEF Behind, OnItsWay
<1>8. CASE Tab(t)
  <2>1. handler' = handler /\ told' = told
    BY <1>8 DEF Tab, Connect, Subscribe, SendEvent, Break, Reconnect, Ask, ListPosts, Show, FetchFails
  <2>2. CASE Connect(t) \/ Break(t) \/ Reconnect(t)
    BY <1>1, <1>2, <2>2 DEF Connect, Break, Reconnect, Behind, DashTypeOK
  <2>3. CASE Subscribe(t)
    BY <1>1, <1>2, <1>3, <2>3 DEF Subscribe, Behind, CountInv, DashTypeOK
  <2>4. CASE SendEvent(t)
    BY <1>2, <2>4 DEF SendEvent, OnItsWay, DashTypeOK
  <2>5. CASE Ask(t)
    BY <1>2, <2>5 DEF Ask, OnItsWay, DashTypeOK
  <2>6. CASE ListPosts(t)
    BY <1>2, <1>3, <2>6 DEF ListPosts, OnItsWay, CountInv, DashTypeOK
  <2>7. CASE Show(t)
    <3>1. /\ page'[t] = fetch[t].read /\ page[t] <= fetch[t].read
          /\ stream' = stream /\ base' = base /\ buffer' = buffer /\ wants' = wants
          /\ fetch[t].state = "read"
      BY <1>2, <2>7 DEF Show, CountInv, DashTypeOK
    <3>2. Behind(t) BY <1>1, <1>3, <2>1, <3>1 DEF Behind
    <3>3. QED BY <1>1, <1>2, <1>3, <2>1, <3>1, <3>2 DEF Behind, OnItsWay
  <2>8. CASE FetchFails(t)
    BY <1>1, <1>2, <1>3, <2>8 DEF FetchFails, Behind, CountInv, DashTypeOK
  <2>9. QED BY <1>8, <2>2, <2>3, <2>4, <2>5, <2>6, <2>7, <2>8 DEF Tab
<1>9. CASE UNCHANGED dashVars BY <1>1, <1>2, <1>9 DEF dashVars, Behind, OnItsWay
<1>10. QED BY <1>1, <1>4, <1>5, <1>6, <1>7, <1>8, <1>9 DEF DashNext

\* Whatever events are dropped, streams broken and fetches lost, a tab that
\* listens and has not seen an announced change has something on its way that
\* will show it (DashboardInv).
THEOREM NothingIsForgotten == DashSpec => []DashboardInv
<1>1. DashIInv /\ [DashNext]_dashVars => DashIInv'
  BY CountHolds, DashTypeHolds, StepForgetsNothing DEF DashIInv
<1>2. DashIInv => DashboardInv BY DEF DashIInv, DashboardInv
<1>3. QED BY <1>1, <1>2, DashInitHolds, PTL DEF DashSpec

-------------------------------------------------------------------------------
(* The commands.                                                           *)

\* What a command with this answer will say.
Output(c) == IF Decodes(Kind(c), reply[c]) THEN Says(Kind(c), reply[c].code) ELSE "call failed"

\* What command c may say without lying.
Truthful(c, output) ==
  /\ output = "done" => Accomplished(c)
  /\ output \in Refusals => did[c] = {} \/ (Kind(c) = "publish" /\ seen[c].absent)
  /\ output = "notfound" /\ Kind(c) # "next" => seen[c].absent \/ seen[c].fault

ByIdKinds == {"show", "edit", "delete", "publish"}

\* What a command has done, and for which kind, wherever it is.
Asked(c) ==
  IF pc[c] = "idle" THEN cmd[c] = NoCmd
  ELSE /\ Kind(c) \in AllKinds
       /\ Kind(c) \in ByIdKinds => Post(c) \in Posts
       /\ Kind(c) = "new" => cmd[c].fields \subseteq {"text"}

Placed(c) ==
  /\ pc[c] # "ended" => says[c] = ""
  /\ pc[c] \in {"idle", "sent", "create", "read", "status", "move", "remove", "publish", "send",
                "query"} => did[c] = {}
  /\ pc[c] = "create" => Kind(c) = "new"
  /\ pc[c] = "read" => Kind(c) \in {"show", "edit"}
  /\ pc[c] \in {"status", "move"} => Kind(c) = "edit" /\ cmd[c].target # "absent"
  /\ pc[c] \in {"reread", "write"} =>
       \/ Kind(c) = "new" /\ did[c] = {"created"}
       \/ Kind(c) = "edit" /\ (did[c] = {"moved"} \/ (did[c] = {} /\ cmd[c].target = "absent"))
  /\ pc[c] = "remove" => Kind(c) = "delete"
  /\ pc[c] \in {"publish", "send", "mark"} => Kind(c) = "publish"
  /\ pc[c] = "mark" => did[c] = {"sent"}
  /\ pc[c] = "query" => Kind(c) \in {"list", "stats", "plan"}

\* A command whose post is not there any more knows of it, and one that stores
\* the content of its new post finds what it left, or it has been changed.
Informed(c) ==
  /\ pc[c] \in Steps \cup {"sent"} /\ Kind(c) \in ByIdKinds /\ ~Exists(posts, Post(c))
       => seen[c].absent
  /\ Kind(c) = "new" /\ ~seen[c].changed =>
       /\ pc[c] = "reread" => Exists(posts, c)
       /\ pc[c] = "write" => RevisionMatches(posts, c, copy[c])

Answered(c) ==
  /\ pc[c] = "answered" => Truthful(c, Output(c))
  /\ pc[c] = "ended" => Truthful(c, says[c])

\* The revision of the row that a publication has read, while it goes on.
ReadAt(c) == IF pc[c] = "send" THEN copy[c].revision ELSE copy[c].revision - 1

\* A row has the fields that command c is given, but for a title next to a status.
Carries(c, row) ==
  /\ "text" \in cmd[c].fields => row.text = c
  /\ "tags" \in cmd[c].fields => row.tags = c
  /\ "title" \in cmd[c].fields /\ cmd[c].target = "absent" => row.title = c

\* A copy is of a post that is there, and one that is to be stored has the new
\* fields; one that is to be published was read from a row that was not published,
\* and if the row still has that revision it is the same.
CopyInv(c) ==
  /\ pc[c] \in {"move", "reread", "write", "send", "mark"} => copy[c].status # "absent"
  /\ pc[c] \in {"reread", "write"} => Carries(c, copy[c])
  /\ pc[c] = "mark" => copy[c].status = "published"
  /\ pc[c] \in {"send", "mark"} =>
       /\ ReadAt(c) <= posts[Post(c)].revision
       /\ Exists(posts, Post(c)) /\ posts[Post(c)].revision = ReadAt(c)
            => posts[Post(c)].status # "published"

\* A post that commands make has an id that nobody knows before it is there.
Unborn(p)   == p \in Commands /\ "created" \notin did[p]
UnbornInv == \A c \in Commands : Kind(c) \in ByIdKinds => ~Unborn(Post(c))

\* Nobody edits post p; command c is publishing it, or has.
NoEdit(p)        == \A e \in Commands : ~(Kind(e) = "edit" /\ Post(e) = p)
HasPublished(c, p) == Kind(c) = "publish" /\ Post(c) = p /\ "published" \in did[c]
Publishes(c, p)    == HasPublished(c, p) \/ (pc[c] \in {"send", "mark"} /\ Post(c) = p)

\* A post that nobody edits is published once, and stays published: until its
\* own content is stored it has none, and cannot be published.
PublishedOnce(p) ==
  /\ \A c \in Commands : HasPublished(c, p) => posts[p].status \in {"published", "absent"}
  /\ \A c, d \in Commands : HasPublished(c, p) /\ HasPublished(d, p) => c = d
  /\ p \in Commands /\ Kind(p) = "new" /\ pc[p] \in {"reread", "write"} =>
       posts[p].text = Nobody /\ \A c \in Commands : ~Publishes(c, p)
PublishedInv == \A p \in Posts : NoEdit(p) => PublishedOnce(p)

Kept(c) == Asked(c) /\ Placed(c) /\ Informed(c) /\ Answered(c) /\ CopyInv(c)

CommandInv == TypeOK /\ (\A c \in Commands : Kept(c)) /\ UnbornInv /\ PublishedInv

-------------------------------------------------------------------------------
\* What the steps of a command do to the others: nothing but to touch what they
\* have seen, and the rows.
Same(d) ==
  /\ pc'[d] = pc[d] /\ cmd'[d] = cmd[d] /\ copy'[d] = copy[d]
  /\ reply'[d] = reply[d] /\ says'[d] = says[d] /\ did'[d] = did[d]

Learns(d) ==
  /\ seen[d].absent => seen'[d].absent
  /\ seen[d].changed => seen'[d].changed
  /\ seen[d].fault => seen'[d].fault

\* How a step of c changes row p: it is written or removed, and whoever is busy
\* with it learns of it, or it is the new post of c.
WritesRow(c, p) ==
  /\ Exists(posts, p)
  /\ posts'[p].status # "absent" /\ posts'[p].revision = posts[p].revision + 1
  /\ \A d \in Commands \ {c} : Running(d) /\ d = p => seen'[d].changed

RemovesRow(c, p) ==
  /\ posts'[p].revision = posts[p].revision /\ posts'[p].status = "absent"
  /\ \A d \in Commands \ {c} :
       /\ Running(d) /\ Post(d) = p => seen'[d].absent
       /\ Running(d) /\ d = p => seen'[d].changed

CreatesRow(c, p) == p = c /\ Unborn(c) /\ ~Unborn(c)'

RowStep(c, p) ==
  \/ posts'[p] = posts[p]
  \/ WritesRow(c, p) \/ RemovesRow(c, p) \/ CreatesRow(c, p)

StepOf(c) ==
  /\ \A d \in Commands \ {c} : Same(d) /\ Learns(d)
  /\ \A p \in Posts : RowStep(c, p)

LEMMA Constants ==
  /\ "absent" \notin Statuses /\ "idea" \in Statuses /\ "published" \in Statuses
  /\ Nobody \notin Posts /\ Commands \subseteq Posts /\ Commands \cap FirstPosts = {}
  /\ ASlug \in Slugs /\ NoRow \in Row
BY RemoteAssumption DEF Statuses, Posts, ASlug, NoRow, Row, Writers

-------------------------------------------------------------------------------
(* Whoever does not step.                                                  *)

LEMMA OthersKept ==
  ASSUME CommandInv, NEW c \in Commands, StepOf(c), NEW d \in Commands \ {c}
  PROVE  Kept(d)'
<1>1. TypeOK /\ Kept(d) /\ UnbornInv BY DEF CommandInv
<1>2. Same(d) /\ Learns(d) BY DEF StepOf
<1>3. Asked(d)' /\ Placed(d)'
  BY <1>1, <1>2 DEF Kept, Asked, Placed, Same, Kind, Post
<1>4. Answered(d)'
  <2>1. Output(d)' = Output(d) BY <1>2 DEF Output, Same, Kind
  <2>2. ASSUME NEW out, Truthful(d, out) PROVE Truthful(d, out)'
    BY <1>2, <2>2 DEF Truthful, Accomplished, AskedOf, Dropped, Same, Learns, Kind
  <2>3. QED BY <1>1, <1>2, <2>1, <2>2 DEF Kept, Answered, Same
<1>5. ASSUME Kind(d) \in ByIdKinds, pc[d] \in Steps \cup {"sent"}
      PROVE  Post(d) \in Posts /\ RowStep(c, Post(d)) /\ ~CreatesRow(c, Post(d))
  <2>1. Post(d) \in Posts BY <1>1, <1>5 DEF Kept, Asked, Steps
  <2>2. ~Unborn(Post(d)) BY <1>1, <1>5 DEF UnbornInv
  <2>3. QED BY <2>1, <2>2 DEF StepOf, CreatesRow
<1>6. Informed(d)'
  <2>1. ASSUME (pc[d] \in Steps \cup {"sent"})', (Kind(d) \in ByIdKinds)', ~Exists(posts, Post(d))'
        PROVE  seen'[d].absent
    <3>1. pc[d] \in Steps \cup {"sent"} /\ Kind(d) \in ByIdKinds /\ Post(d)' = Post(d)
      BY <1>2, <2>1 DEF Same, Kind, Post
    <3>2. Running(d) BY <3>1 DEF Running, Steps
    <3>3. Exists(posts, Post(d)) => RemovesRow(c, Post(d))
      BY <1>5, <2>1, <3>1 DEF RowStep, WritesRow, Exists
    <3>4. CASE Exists(posts, Post(d)) BY <3>2, <3>3, <3>4 DEF RemovesRow
    <3>5. CASE ~Exists(posts, Post(d)) BY <1>1, <1>2, <3>1, <3>5 DEF Kept, Informed, Learns
    <3>6. QED BY <3>4, <3>5
  <2>2. ASSUME Kind(d)' = "new", ~seen'[d].changed, (pc[d] \in {"reread", "write"})'
        PROVE  posts'[d] = posts[d] /\ ~seen[d].changed /\ Kind(d) = "new" /\ Running(d)
    <3>1. Kind(d) = "new" /\ Running(d) /\ ~seen[d].changed
      BY <1>2, <2>2 DEF Same, Learns, Kind, Running
    <3>2. d \in Posts BY Constants
    <3>3. RowStep(c, d) BY <3>2 DEF StepOf
    <3>4. QED BY <2>2, <3>1, <3>3 DEF RowStep, WritesRow, RemovesRow, CreatesRow
  <2>3. QED BY <1>1, <1>2, <2>1, <2>2 DEF Kept, Informed, Same, RevisionMatches, Exists
<1>7. CopyInv(d)'
  <2>1. ASSUME (pc[d] \in {"send", "mark"})'
        PROVE  /\ ReadAt(d)' <= posts'[Post(d)'].revision
               /\ Exists(posts, Post(d))' /\ posts'[Post(d)'].revision = ReadAt(d)'
                    => posts'[Post(d)'].status # "published"
    <3>1. pc[d] \in {"send", "mark"} /\ Post(d)' = Post(d) /\ ReadAt(d)' = ReadAt(d)
      BY <1>2, <2>1 DEF Same, Post, ReadAt
    <3>2. Kind(d) \in ByIdKinds BY <1>1, <3>1 DEF Kept, Placed, ByIdKinds
    <3>3. /\ Post(d) \in Posts /\ RowStep(c, Post(d)) /\ ~CreatesRow(c, Post(d))
      BY <1>5, <3>1, <3>2 DEF Steps
    <3>4. posts[Post(d)].revision \in Nat /\ ReadAt(d) \in Int
      <4>1. copy[d].revision \in Nat BY <1>1 DEF TypeOK, Row
      <4>2. posts[Post(d)].revision \in Nat BY <1>1, <3>3 DEF TypeOK, Row
      <4>3. QED BY <4>1, <4>2 DEF ReadAt
    <3>5. /\ ReadAt(d) <= posts[Post(d)].revision
          /\ Exists(posts, Post(d)) /\ posts[Post(d)].revision = ReadAt(d)
               => posts[Post(d)].status # "published"
      BY <1>1, <3>1 DEF Kept, CopyInv
    <3>6. QED BY <3>1, <3>3, <3>4, <3>5 DEF RowStep, WritesRow, RemovesRow, Exists
  <2>2. QED BY <1>1, <1>2, <2>1 DEF Kept, CopyInv, Carries, Same
<1>8. QED BY <1>3, <1>4, <1>6, <1>7 DEF Kept

-------------------------------------------------------------------------------
(* Answers.                                                                *)

\* What the truth of an answer rests on: a refusal has done nothing, except that
\* a publication may find its post removed; a success has done what was asked.
Excuse(c, code) ==
  \/ code \in {429, 500}
  \/ code \in {400, 401} /\ did'[c] = {}
  \/ /\ code = 404
     /\ did'[c] = {} \/ (Kind(c) = "publish" /\ seen'[c].absent)
     /\ Kind(c) = "next" \/ seen'[c].absent \/ seen'[c].fault
  \/ code \in {200, 201, 204} /\ Accomplished(c)'

\* What the commands make of the codes.
HeardAs(code, out) ==
  /\ out \in Outputs
  /\ code \in {429, 500} => out = "server error"
  /\ code \in {400, 401} => out \notin {"done", "notfound"}
  /\ code = 404 => out \in {"notfound", "server error"}
  /\ code \in {200, 201, 204} => out \in {"done", "server error"}

LEMMA CodesAreHeard ==
  ASSUME NEW k \in AllKinds, NEW code \in Codes \cup {0}
  PROVE  HeardAs(code, Says(k, code))
<1>1. CASE k = "list" BY <1>1 DEF HeardAs, Codes, Outputs, Says, SaysList
<1>9. CASE k = "stats" BY <1>9 DEF HeardAs, Codes, Outputs, Says, SaysStats, SaysList
<1>10. CASE k = "plan" BY <1>10 DEF HeardAs, Codes, Outputs, Says, SaysPlan, SaysList
<1>2. CASE k = "new" BY <1>2 DEF HeardAs, Codes, Outputs, Says, SaysNew
<1>3. CASE k = "show" BY <1>3 DEF HeardAs, Codes, Outputs, Says, SaysShow
<1>4. CASE k = "edit" BY <1>4 DEF HeardAs, Codes, Outputs, Says, SaysEdit
<1>5. CASE k = "delete" BY <1>5 DEF HeardAs, Codes, Outputs, Says, SaysDelete
<1>6. CASE k = "publish" BY <1>6 DEF HeardAs, Codes, Outputs, Says, SaysPublish
<1>7. CASE k = "next" BY <1>7 DEF HeardAs, Codes, Outputs, Says, SaysNext
<1>8. QED BY <1>1, <1>2, <1>3, <1>4, <1>5, <1>6, <1>7, <1>9, <1>10 DEF AllKinds

LEMMA AnswerIsTrue ==
  ASSUME TypeOK, NEW c \in Commands, NEW code \in Codes, NEW body, Kind(c) \in AllKinds, cmd' = cmd,
         Answer(c, code, body), Excuse(c, code)
  PROVE  Truthful(c, Output(c))'
<1>1. reply'[c].code = code BY DEF Answer, TypeOK
<1>2. Kind(c)' = Kind(c) BY DEF Kind
<1>3. Output(c)' = Says(Kind(c), code) \/ Output(c)' = "call failed"
  BY <1>1, <1>2 DEF Output
<1>4. CASE Output(c)' = "call failed" BY <1>4 DEF Truthful, Refusals
<1>5. CASE Output(c)' = Says(Kind(c), code)
  <2> DEFINE out == Output(c)'
  <2> HIDE DEF out
  <2>0. HeardAs(code, out)
    <3> DEFINE k == Kind(c)
    <3>1. k \in AllKinds /\ code \in Codes \cup {0} OBVIOUS
    <3>2. out = Says(k, code) BY <1>5 DEF out
    <3> HIDE DEF k
    <3>3. HeardAs(code, Says(k, code)) BY <3>1, CodesAreHeard, Zenon
    <3>4. QED BY <3>2, <3>3
  <2>6. SUFFICES /\ out = "done" => Accomplished(c)'
                 /\ out \in Refusals => did'[c] = {} \/ (Kind(c) = "publish" /\ seen'[c].absent)
                 /\ out = "notfound" /\ Kind(c) # "next" => seen'[c].absent \/ seen'[c].fault
    BY <1>2 DEF Truthful, out
  <2>1. CASE code \in {429, 500} BY <2>0, <2>1, ZenonT(40) DEF HeardAs, Refusals
  <2>2. CASE code \in {400, 401} /\ did'[c] = {}
    BY <2>0, <2>2 DEF HeardAs, Refusals
  <2>3. CASE /\ code = 404
             /\ did'[c] = {} \/ (Kind(c) = "publish" /\ seen'[c].absent)
             /\ Kind(c) = "next" \/ seen'[c].absent \/ seen'[c].fault
    <3>1. out # "done" BY <2>0, <2>3, ZenonT(40) DEF HeardAs
    <3>2. QED BY <2>3, <3>1
  <2>4. CASE code \in {200, 201, 204} /\ Accomplished(c)'
    BY <2>0, <2>4, ZenonT(40) DEF HeardAs, Refusals
  <2>5. QED BY <2>1, <2>2, <2>3, <2>4 DEF Excuse
<1>6. QED BY <1>3, <1>4, <1>5

\* A command that has just been answered truthfully is kept.
LEMMA AnsweredIsKept ==
  ASSUME TypeOK, NEW c \in Commands, Kept(c), pc[c] \in Steps \cup {"sent"},
         NEW code \in Codes, NEW body, Answer(c, code, body), cmd' = cmd, says' = says, Excuse(c, code)
  PROVE  Kept(c)'
<1>1. pc'[c] = "answered" BY DEF Answer, TypeOK, Goto
<1>2. Kind(c) \in AllKinds BY DEF Kept, Asked, Steps
<1>3. Truthful(c, Output(c))' BY <1>2, AnswerIsTrue
<1>4. says[c] = "" BY DEF Kept, Placed, Steps
<1>5. Asked(c)' BY <1>1 DEF Kept, Asked, Kind, Post, Steps
<1>6. Placed(c)' BY <1>1, <1>4 DEF Placed
<1>7. Informed(c)' BY <1>1 DEF Informed, Steps
<1>8. Answered(c)' BY <1>1, <1>3 DEF Answered
<1>9. CopyInv(c)' BY <1>1 DEF CopyInv, Carries
<1>10. QED BY <1>5, <1>6, <1>7, <1>8, <1>9 DEF Kept

\* An answer leaves the types as they are.
LEMMA AnswerTyped ==
  ASSUME TypeOK, NEW c \in Commands, NEW code \in Codes, NEW body \in Bodies,
         Answer(c, code, body)
  PROVE  /\ reply' \in [Commands -> [code : Codes \cup {0}, body : Bodies]]
         /\ copy' \in [Commands -> Row]
         /\ pc' \in [Commands -> {"idle", "sent", "answered", "ended"} \cup Steps]
<1>1. reply' \in [Commands -> [code : Codes \cup {0}, body : Bodies]] BY DEF Answer, TypeOK
<1>2. copy' \in [Commands -> Row] BY Constants DEF Answer, TypeOK
<1>3. pc' \in [Commands -> {"idle", "sent", "answered", "ended"} \cup Steps]
  BY DEF Answer, TypeOK, Goto
<1>4. QED BY <1>1, <1>2, <1>3

\* A fault is counted, and seen by the command it hits.
Fault(c) ==
  /\ faults < MaxFaults /\ faults' = faults + 1
  /\ seen' = [seen EXCEPT ![c].fault = TRUE]

LEMMA FaultTyped ==
  ASSUME TypeOK, NEW c \in Commands, Fault(c) \/ UNCHANGED <<faults, seen>>
  PROVE  /\ faults' \in 0..MaxFaults
         /\ seen' \in [Commands -> [absent : BOOLEAN, changed : BOOLEAN, fault : BOOLEAN]]
         /\ \A d \in Commands \ {c} : seen'[d] = seen[d]
         /\ seen'[c].absent = seen[c].absent /\ seen'[c].changed = seen[c].changed
         /\ Fault(c) => seen'[c].fault
<1>1. faults' \in 0..MaxFaults 
  <2>1. faults \in 0..MaxFaults /\ MaxFaults \in Nat BY RemoteAssumption DEF TypeOK
  <2>2. faults' = faults \/ (faults < MaxFaults /\ faults' = faults + 1) BY DEF Fault
  <2>3. QED BY <2>1, <2>2
<1>2. CASE UNCHANGED <<faults, seen>> /\ ~Fault(c) BY <1>1, <1>2 DEF TypeOK
<1>3. CASE Fault(c)
  <2>1. seen \in [Commands -> [absent : BOOLEAN, changed : BOOLEAN, fault : BOOLEAN]]
    BY DEF TypeOK
  <2>2. seen' = [seen EXCEPT ![c] = [seen[c] EXCEPT !.fault = TRUE]] BY <1>3 DEF Fault
  <2>3. QED BY <1>1, <2>1, <2>2
<1>4. QED BY <1>2, <1>3

\* The handler has nothing more to do than to answer.
AnswersOnly(c, code, body) ==
  /\ Answer(c, code, body)
  /\ UNCHANGED <<posts, storage, token, cmd, says, did>>
  /\ Fault(c) \/ UNCHANGED <<faults, seen>>

\* PublishedInv is about commands that publish or make a post, and the rows.
LEMMA PublishedKept ==
  ASSUME CommandInv, NEW c \in Commands, NEW p \in Posts, NoEdit(p)' => NoEdit(p),
         posts'[p].status \in {posts[p].status, "absent"}, posts'[p].text = posts[p].text,
         \A d \in Commands \ {c} : Same(d),
         HasPublished(c, p)' => HasPublished(c, p),
         pc'[c] \in {"reread", "write"} /\ Kind(c)' = "new"
           => pc[c] \in {"reread", "write"} /\ Kind(c) = "new",
         Publishes(c, p)' => Publishes(c, p)
  PROVE  NoEdit(p)' => PublishedOnce(p)'
<1>1. SUFFICES ASSUME NoEdit(p)'
      PROVE  PublishedOnce(p)'
  OBVIOUS
<1>2. PublishedOnce(p) BY <1>1 DEF CommandInv, PublishedInv
<1>3. ASSUME NEW d \in Commands
      PROVE  /\ HasPublished(d, p)' => HasPublished(d, p)
             /\ Publishes(d, p)' => Publishes(d, p)
             /\ pc'[d] \in {"reread", "write"} /\ Kind(d)' = "new"
                  => pc[d] \in {"reread", "write"} /\ Kind(d) = "new"
  <2>1. CASE d = c BY <2>1
  <2>2. CASE d # c BY <2>2 DEF Same, HasPublished, Publishes, Kind, Post
  <2>3. QED BY <2>1, <2>2
<1>4. QED BY <1>2, <1>3 DEF PublishedOnce

\* Who knows a post knows it from then on.
LEMMA UnbornKept ==
  ASSUME UnbornInv, NEW c \in Commands, \A d \in Commands \ {c} : Same(d),
         did[c] \subseteq did'[c], (Kind(c) \in ByIdKinds)' => ~Unborn(Post(c)')
  PROVE  UnbornInv'
<1>1. SUFFICES ASSUME NEW d \in Commands, (Kind(d) \in ByIdKinds)' PROVE ~Unborn(Post(d))'
  BY DEF UnbornInv
<1>2. ASSUME NEW p, ~Unborn(p) PROVE ~Unborn(p)'
  BY <1>2 DEF Unborn, Same
<1>3. ~Unborn(Post(d)') BY <1>1 DEF UnbornInv, Same, Kind, Post
<1>4. QED BY <1>2, <1>3 DEF Unborn

-------------------------------------------------------------------------------
(* Steps that only answer.                                                 *)

Refuses(c) ==
  \/ TooMany(c) \/ Unauthorized(c) \/ NoRoute(c) \/ BadId(c)
  \/ CreateRefused(c) \/ (ReadPost(c) /\ Kind(c) = "show") \/ ReadMissing(c)
  \/ StatusRefused(c) \/ MoveRefused(c) \/ WriteRefused(c) \/ RemoveMissing(c)
  \/ PublishRefused(c) \/ SendFails(c) \/ MarkRefused(c) \/ Query(c) \/ StatementFails(c)

\* Where a command is when its handler answers.
LEMMA RefusesWhere ==
  ASSUME NEW c \in Commands, Refuses(c)
  PROVE  pc[c] \in Steps \cup {"sent"}
BY DEF Refuses, TooMany, Unauthorized, NoRoute, BadId, CreateRefused, ReadPost, ReadMissing,
       StatusRefused, MoveRefused, WriteRefused, RemoveMissing, PublishRefused, SendFails,
       MarkRefused, Query, StatementFails, Steps

LEMMA RepliesOnly ==
  ASSUME NEW c \in Commands, NEW code, NEW body, Replies(c, code, body)
  PROVE  AnswersOnly(c, code, body) /\ did' = did /\ seen' = seen /\ cmd' = cmd
BY DEF Replies, AnswersOnly

\* Every answer has its excuse, or its success.
LEMMA RefusesRightly ==
  ASSUME CommandInv, NEW c \in Commands, Refuses(c)
  PROVE  \E code \in Codes, body \in Bodies : AnswersOnly(c, code, body) /\ Excuse(c, code)
<1>1. TypeOK /\ Asked(c) /\ Placed(c) /\ Informed(c) BY DEF CommandInv, Kept
<1>2. SUFFICES \E code \in Codes, body \in Bodies :
                 AnswersOnly(c, code, body) /\ cmd' = cmd /\ did' = did /\ Excuse(c, code)
  OBVIOUS
<1>3. ASSUME NEW code \in Codes, NEW body \in Bodies, Replies(c, code, body), Excuse(c, code)
      PROVE  \E x \in Codes, b \in Bodies :
               AnswersOnly(c, x, b) /\ cmd' = cmd /\ did' = did /\ Excuse(c, x)
  BY <1>3, RepliesOnly
<1>4. {200, 201, 204, 400, 401, 404, 429, 500} \subseteq Codes BY DEF Codes
<1>5. {"post", "posts", "stats", "plan", "json", "text", "empty"} \subseteq Bodies BY DEF Bodies
<1>6. ASSUME NEW code \in {200, 201, 204, 400, 401, 404, 429, 500}, NEW body \in Bodies,
             Fault(c), Answer(c, code, body),
             UNCHANGED <<posts, storage, token, cmd, says, did>>, Excuse(c, code)
      PROVE  \E x \in Codes, b \in Bodies :
               AnswersOnly(c, x, b) /\ cmd' = cmd /\ did' = did /\ Excuse(c, x)
  BY <1>4, <1>6 DEF AnswersOnly
<1>7. CASE TooMany(c)
  BY <1>5, <1>6, <1>7 DEF TooMany, Fault, Excuse
<1>8. CASE Unauthorized(c)
  <2>1. Replies(c, 401, "json") /\ did[c] = {} BY <1>1, <1>8 DEF Unauthorized, Placed
  <2>2. Excuse(c, 401) BY <2>1, RepliesOnly DEF Excuse
  <2>3. QED BY <1>3, <1>4, <1>5, <2>1, <2>2
<1>9. CASE NoRoute(c)
  <2>1. Replies(c, 404, "text") /\ did[c] = {} BY <1>1, <1>9 DEF NoRoute, Placed
  <2>2. Path(c) = "next" /\ Kind(c) \in AllKinds
    BY <1>1, <1>9 DEF NoRoute, Routed, Asked
  <2>3. Kind(c) = "next"
    BY <2>2 DEF AllKinds, Path, Request, ListRequest, NewRequest, ShowRequest, EditRequest,
                DeleteRequest, PublishRequest, StatsRequest, PlanRequest, NextRequest
  <2>4. Excuse(c, 404) BY <2>1, <2>3, RepliesOnly DEF Excuse
  <2>5. QED BY <1>3, <1>4, <1>5, <2>1, <2>4
<1>10. CASE BadId(c) \/ CreateRefused(c) \/ StatusRefused(c) \/ MoveRefused(c)
  <2>1. Replies(c, 400, "text") /\ did[c] = {}
    BY <1>1, <1>10
       DEF BadId, BadIdCode, CreateRefused, StatusRefused, MoveRefused, Placed
  <2>2. Excuse(c, 400) BY <2>1, RepliesOnly DEF Excuse
  <2>3. QED BY <1>3, <1>4, <1>5, <2>1, <2>2
<1>11. CASE ReadPost(c) /\ Kind(c) = "show"
  <2>1. Replies(c, 200, "post") BY <1>11 DEF ReadPost
  <2>2. Accomplished(c)' BY <1>11, <2>1, RepliesOnly DEF Accomplished, AskedOf, Dropped, Kind
  <2>3. Excuse(c, 200) BY <2>2 DEF Excuse
  <2>4. QED BY <1>3, <1>4, <1>5, <2>1, <2>3
<1>12. ASSUME Replies(c, 404, "text"), pc[c] \in {"read", "publish", "mark"}, ~Found(c)
       PROVE  Excuse(c, 404)
  <2>1. Kind(c) \in ByIdKinds /\ pc[c] \in Steps /\ Target(c) = Post(c)
    BY <1>1, <1>12 DEF Placed, ByIdKinds, Steps, Target
  <2>2. seen[c].absent BY <1>1, <1>12, <2>1 DEF Informed, Found
  <2>3. seen' = seen /\ did' = did BY <1>12, RepliesOnly
  <2>4. did[c] = {} \/ Kind(c) = "publish" BY <1>1, <1>12 DEF Placed
  <2>5. QED BY <2>2, <2>3, <2>4 DEF Excuse
<1>13. CASE ReadMissing(c)
  BY <1>3, <1>4, <1>5, <1>12, <1>13 DEF ReadMissing
<1>14. CASE WriteRefused(c)
  <2>1. CASE Kind(c) = "new"
    <3>1. Replies(c, 201, "post") BY <1>14, <2>1 DEF WriteRefused, WriteError
    <3>2. seen[c].changed
      BY <1>1, <1>14, <2>1 DEF WriteRefused, Informed, Target, Found
    <3>3. "created" \in did[c] BY <1>1, <1>14, <2>1 DEF WriteRefused, Placed
    <3>4. Accomplished(c)'
      BY <2>1, <3>1, <3>2, <3>3, RepliesOnly DEF Accomplished, AskedOf, Dropped, Kind
    <3>5. Excuse(c, 201) BY <3>4 DEF Excuse
    <3>6. QED BY <1>3, <1>4, <1>5, <3>1, <3>5
  <2>2. CASE Kind(c) # "new"
    <3>1. Replies(c, 500, "text") BY <1>14, <2>2 DEF WriteRefused, WriteError
    <3>2. Excuse(c, 500) BY DEF Excuse
    <3>3. QED BY <1>3, <1>4, <1>5, <3>1, <3>2
  <2>3. QED BY <2>1, <2>2
<1>15. CASE RemoveMissing(c)
  <2>1. CASE Replies(c, 500, "text")
    <3>1. Excuse(c, 500) BY DEF Excuse
    <3>2. QED BY <1>3, <1>4, <1>5, <2>1, <3>1
  <2>2. CASE Replies(c, 204, "empty")
    <3>1. Kind(c) = "delete" /\ pc[c] = "remove" /\ ~Exists(posts, Post(c))
      BY <1>1, <1>15 DEF RemoveMissing, Placed, Found, Target
    <3>2. seen[c].absent BY <1>1, <3>1 DEF Informed, ByIdKinds, Steps
    <3>3. Accomplished(c)' BY <2>2, <3>1, <3>2, RepliesOnly DEF Accomplished, AskedOf, Dropped, Kind
    <3>4. Excuse(c, 204) BY <3>3 DEF Excuse
    <3>5. QED BY <1>3, <1>4, <1>5, <2>2, <3>4
  <2>3. QED BY <1>15, <2>1, <2>2 DEF RemoveMissing
<1>16. CASE PublishRefused(c)
  <2>1. CASE ~Found(c)
    BY <1>3, <1>4, <1>5, <1>12, <1>16, <2>1 DEF PublishRefused
  <2>2. CASE Found(c)
    <3>1. Replies(c, 400, "text") /\ did[c] = {}
      BY <1>1, <1>16, <2>2 DEF PublishRefused, Placed
    <3>2. Excuse(c, 400) BY <3>1, RepliesOnly DEF Excuse
    <3>3. QED BY <1>3, <1>4, <1>5, <3>1, <3>2
  <2>3. QED BY <2>1, <2>2
<1>17. CASE SendFails(c)
  BY <1>5, <1>6, <1>17 DEF SendFails, Fault, Excuse
<1>18. CASE MarkRefused(c)
  <2>1. CASE ~Found(c)
    BY <1>3, <1>4, <1>5, <1>12, <1>18, <2>1 DEF MarkRefused, MarkCode
  <2>2. CASE Found(c)
    <3>1. Replies(c, 500, "text") BY <1>18, <2>2 DEF MarkRefused, MarkCode
    <3>2. Excuse(c, 500) BY DEF Excuse
    <3>3. QED BY <1>3, <1>4, <1>5, <3>1, <3>2
  <2>3. QED BY <2>1, <2>2
<1>19. CASE Query(c)
  <2>1. Kind(c) \in {"list", "stats", "plan"} BY <1>1, <1>19 DEF Query, Placed
  <2>2. PICK body \in Bodies : Replies(c, 200, body)
    BY <1>5, <1>19, <2>1 DEF Query
  <2>3. Accomplished(c)' BY <2>1, <2>2, RepliesOnly DEF Accomplished, AskedOf, Dropped, Kind
  <2>4. Excuse(c, 200) BY <2>3 DEF Excuse
  <2>5. QED BY <1>3, <1>4, <2>2, <2>4
<1>20. CASE StatementFails(c)
  <2>1. Fault(c) /\ UNCHANGED <<posts, storage, token, cmd, says, did>>
    BY <1>20 DEF StatementFails, Fault
  <2>2. seen'[c].fault BY <1>1, <2>1, FaultTyped
  <2>3. CASE Kind(c) = "new" /\ pc[c] \in {"reread", "write"}
    <3>1. Answer(c, 201, "post") BY <1>20, <2>3 DEF StatementFails
    <3>2. "created" \in did[c] BY <1>1, <2>3 DEF Placed
    <3>3. Accomplished(c)' BY <2>1, <2>2, <2>3, <3>2 DEF Accomplished, AskedOf, Dropped, Kind
    <3>4. Excuse(c, 201) BY <3>3 DEF Excuse
    <3>5. QED BY <1>5, <1>6, <2>1, <3>1, <3>4
  <2>4. CASE ~(Kind(c) = "new" /\ pc[c] \in {"reread", "write"})
    <3>1. Answer(c, FailedCode(c), "text") BY <1>20, <2>4 DEF StatementFails
    <3>2. CASE pc[c] \in {"create", "status", "move"}
      <4>1. FailedCode(c) = 400 /\ did[c] = {} BY <1>1, <3>2, ZenonT(40) DEF FailedCode, Placed
      <4>2. Excuse(c, 400) BY <2>1, <4>1 DEF Excuse
      <4>3. QED BY <1>5, <1>6, <2>1, <3>1, <4>1, <4>2
    <3>3. CASE pc[c] = "read"
      <4>1. FailedCode(c) = 404 /\ did[c] = {} BY <1>1, <3>3 DEF FailedCode, Placed
      <4>2. Excuse(c, 404) BY <2>1, <2>2, <4>1 DEF Excuse
      <4>3. QED BY <1>5, <1>6, <2>1, <3>1, <4>1, <4>2
    <3>4. CASE pc[c] \notin {"create", "status", "move", "read"}
      <4>1. FailedCode(c) = 500 BY <3>4 DEF FailedCode
      <4>2. Excuse(c, 500) BY DEF Excuse
      <4>3. QED BY <1>5, <1>6, <2>1, <3>1, <4>1, <4>2
    <3>5. QED BY <3>2, <3>3, <3>4
  <2>5. QED BY <2>3, <2>4
<1>21. QED BY <1>7, <1>8, <1>9, <1>10, <1>11, <1>13, <1>14, <1>15, <1>16, <1>17, <1>18,
              <1>19, <1>20 DEF Refuses

LEMMA RefusesKeeps ==
  ASSUME CommandInv, NEW c \in Commands, Refuses(c)
  PROVE  CommandInv'
<1>1. PICK code \in Codes, body \in Bodies : AnswersOnly(c, code, body) /\ Excuse(c, code)
  BY RefusesRightly
<1>2. TypeOK /\ Kept(c) /\ UnbornInv BY DEF CommandInv
<1>3. /\ Answer(c, code, body) /\ UNCHANGED <<posts, storage, token, cmd, says, did>>
      /\ Fault(c) \/ UNCHANGED <<faults, seen>>
  BY <1>1 DEF AnswersOnly
<1>4. pc'[c] = "answered" /\ \A d \in Commands \ {c} : Same(d)
  BY <1>2, <1>3 DEF Answer, Goto, Same, TypeOK
<1>5. TypeOK' BY <1>2, <1>3, AnswerTyped, FaultTyped DEF TypeOK
<1>6. StepOf(c)
  <2>1. \A d \in Commands \ {c} : Learns(d) BY <1>2, <1>3, FaultTyped DEF Learns
  <2>2. QED BY <1>3, <1>4, <2>1 DEF StepOf, RowStep
<1>7. Kept(c)' BY <1>1, <1>2, <1>3, RefusesWhere, AnsweredIsKept
<1>8. \A d \in Commands : Kept(d)' BY <1>6, <1>7, OthersKept
<1>9. UnbornInv' BY <1>2, <1>3, <1>4, UnbornKept DEF UnbornInv, Kind, Post
<1>10. PublishedInv'
  <2>1. \A p : (NoEdit(p)' => NoEdit(p)) /\ (HasPublished(c, p)' => HasPublished(c, p))
               /\ (Publishes(c, p)' => Publishes(c, p))
    BY <1>3, <1>4 DEF NoEdit, HasPublished, Publishes, Kind, Post
  <2>2. \A p \in Posts : NoEdit(p)' => PublishedOnce(p)'
    BY <1>3, <1>4, <2>1, PublishedKept
  <2>3. QED BY <2>2 DEF PublishedInv
<1>11. QED BY <1>5, <1>8, <1>9, <1>10 DEF CommandInv

-------------------------------------------------------------------------------
(* Steps that leave the rows alone and do not answer.                      *)

\* What is left to show of such a step.
LEMMA QuietKeeps ==
  ASSUME CommandInv, NEW c \in Commands, TypeOK', Kept(c)', posts' = posts, cmd' = cmd,
         \A d \in Commands \ {c} : Same(d) /\ Learns(d),
         did[c] \subseteq did'[c], "published" \in did'[c] => "published" \in did[c],
         pc'[c] \in {"reread", "write"} /\ Kind(c) = "new" => pc[c] \in {"reread", "write"},
         pc'[c] \in {"send", "mark"} => pc[c] \in {"send", "mark"}
  PROVE  CommandInv'
<1>1. StepOf(c) BY DEF StepOf, RowStep
<1>2. \A d \in Commands : Kept(d)' BY <1>1, OthersKept
<1>3. UnbornInv' BY UnbornKept DEF CommandInv, UnbornInv, Kind, Post
<1>4. PublishedInv'
  <2>1. \A p : (NoEdit(p)' => NoEdit(p)) /\ (HasPublished(c, p)' => HasPublished(c, p))
               /\ (Publishes(c, p)' => Publishes(c, p))
    BY DEF NoEdit, HasPublished, Publishes, Kind, Post
  <2>2. Kind(c)' = Kind(c) BY DEF Kind
  <2>3. \A p \in Posts : NoEdit(p)' => PublishedOnce(p)'
    BY <2>1, <2>2, PublishedKept
  <2>4. QED BY <2>3 DEF PublishedInv
<1>5. QED BY <1>2, <1>3, <1>4 DEF CommandInv

LEMMA DispatchKeeps ==
  ASSUME CommandInv, NEW c \in Commands, Dispatch(c)
  PROVE  CommandInv'
<1>1. TypeOK /\ Asked(c) /\ Placed(c) /\ Informed(c) BY DEF CommandInv, Kept
<1>2. /\ pc[c] = "sent" /\ pc'[c] = FirstStep(c)
      /\ UNCHANGED <<posts, storage, token, cmd, copy, reply, says, faults, did, seen>>
      /\ \A d \in Commands \ {c} : Same(d) /\ Learns(d)
  BY <1>1 DEF Dispatch, Goto, TypeOK, Same, Learns
<1>3. Kind(c) \in AllKinds \ {"next"}
  <2>1. Kind(c) \in AllKinds /\ Path(c) # "next"
    BY <1>1, <1>2 DEF Asked, Dispatch, Routed
  <2>2. QED BY <2>1 DEF Path, Request, NextRequest, AllKinds
<1>4. /\ FirstStep(c) \in {"create", "read", "remove", "publish", "query"}
      /\ FirstStep(c) = "create" => Kind(c) = "new"
      /\ FirstStep(c) = "read" => Kind(c) \in {"show", "edit"}
      /\ FirstStep(c) = "remove" => Kind(c) = "delete"
      /\ FirstStep(c) = "publish" => Kind(c) = "publish"
      /\ FirstStep(c) = "query" => Kind(c) \in {"list", "stats", "plan"}
  BY <1>3 DEF FirstStep, AllKinds
<1>5. TypeOK' BY <1>1, <1>2, <1>4 DEF TypeOK, Dispatch, Goto, Steps
<1>6. Kept(c)'
  <2>1. Kind(c)' = Kind(c) /\ Post(c)' = Post(c) BY <1>2 DEF Kind, Post
  <2>2. Asked(c)' BY <1>1, <1>2, <1>4, <2>1 DEF Asked
  <2>3. Placed(c)' BY <1>1, <1>2, <1>4, <2>1 DEF Placed
  <2>4. Informed(c)' BY <1>1, <1>2, <1>4, <2>1 DEF Informed, Exists
  <2>5. Answered(c)' /\ CopyInv(c)' BY <1>2, <1>4 DEF Answered, CopyInv
  <2>6. QED BY <2>2, <2>3, <2>4, <2>5 DEF Kept
<1>7. QED BY <1>2, <1>4, <1>5, <1>6, QuietKeeps

\* The copy that a command reads is of a row that is there.
LEMMA ReadTyped ==
  ASSUME TypeOK, NEW p \in Posts
  PROVE  posts[p] \in Row
BY DEF TypeOK

\* What becomes of a copy.
LEMMA NextRevisionIs ==
  ASSUME NEW r \in Row
  PROVE  /\ NextRevision(r) \in Row
         /\ NextRevision(r).status = r.status /\ NextRevision(r).text = r.text
         /\ NextRevision(r).title = r.title /\ NextRevision(r).tags = r.tags
         /\ NextRevision(r).revision = r.revision + 1
BY DEF NextRevision, Row

LEMMA WithStatusIs ==
  ASSUME NEW r \in Row, NEW s \in Statuses
  PROVE  /\ WithStatus(r, s) \in Row
         /\ WithStatus(r, s).status = s
         /\ WithStatus(r, s).revision = r.revision
BY DEF WithStatus, Row

LEMMA RebasedIs ==
  ASSUME NEW r \in Row, NEW q \in Row
  PROVE  /\ Rebased(r, q) \in Row
         /\ Rebased(r, q).status = r.status /\ Rebased(r, q).text = r.text
         /\ Rebased(r, q).title = r.title /\ Rebased(r, q).tags = r.tags
         /\ Rebased(r, q).revision = q.revision
BY DEF Rebased, Row

LEMMA WithFieldsIs ==
  ASSUME NEW r \in Row, NEW c \in Commands
  PROVE  /\ WithFields(c, r) \in Row /\ WithFields(c, r).status = r.status
         /\ WithFields(c, r).title = r.title
         /\ "text" \in cmd[c].fields => WithFields(c, r).text = c
         /\ "tags" \in cmd[c].fields => WithFields(c, r).tags = c
<1>1. c \in Writers BY DEF Writers, Posts
<1>2. /\ WithTags(c, r) \in Row /\ WithTags(c, r).status = r.status
      /\ WithTags(c, r).title = r.title
      /\ "tags" \in cmd[c].fields => WithTags(c, r).tags = c
  BY <1>1 DEF WithTags, Row
<1>3. ASSUME NEW q \in Row
      PROVE  /\ WithText(c, q) \in Row /\ WithText(c, q).status = q.status
             /\ WithText(c, q).title = q.title /\ WithText(c, q).tags = q.tags
             /\ "text" \in cmd[c].fields => WithText(c, q).text = c
  BY <1>1 DEF WithText, Row
<1>4. QED BY <1>2, <1>3 DEF WithFields

LEMMA WithTitleIs ==
  ASSUME NEW r \in Row, NEW c \in Commands
  PROVE  /\ WithTitle(c, r) \in Row /\ WithTitle(c, r).status = r.status
         /\ "title" \in cmd[c].fields => WithTitle(c, r).title = c
<1>1. c \in Writers BY DEF Writers, Posts
<1>2. QED BY <1>1 DEF WithTitle, Row

\* A command goes from one step to the next with a new copy.
Advances(c, to, row) ==
  /\ pc' = [pc EXCEPT ![c] = to]
  /\ copy' = [copy EXCEPT ![c] = row]
  /\ UNCHANGED <<posts, storage, token, cmd, reply, says, faults, seen>>

LEMMA AdvanceIsQuiet ==
  ASSUME TypeOK, NEW c \in Commands, NEW to \in Steps, NEW row \in Row, Advances(c, to, row),
         did' \in [Commands -> SUBSET Effects],
         \A d \in Commands \ {c} : did'[d] = did[d]
  PROVE  /\ TypeOK' /\ pc'[c] = to /\ copy'[c] = row
         /\ Kind(c)' = Kind(c) /\ Post(c)' = Post(c)
         /\ \A d \in Commands \ {c} : Same(d) /\ Learns(d)
<1>1. copy' \in [Commands -> Row] BY DEF Advances, TypeOK
<1>2. pc' \in [Commands -> {"idle", "sent", "answered", "ended"} \cup Steps]
  BY DEF Advances, TypeOK
<1>3. TypeOK' BY <1>1, <1>2 DEF Advances, TypeOK
<1>4. pc'[c] = to /\ copy'[c] = row BY DEF Advances, TypeOK
<1>5. \A d \in Commands \ {c} : Same(d) /\ Learns(d) BY DEF Advances, TypeOK, Same, Learns
<1>6. QED BY <1>3, <1>4, <1>5 DEF Advances, Kind, Post

LEMMA ReadPostKeeps ==
  ASSUME CommandInv, NEW c \in Commands, ReadPost(c), Kind(c) # "show"
  PROVE  CommandInv'
<1>1. TypeOK /\ Asked(c) /\ Placed(c) /\ Informed(c) BY DEF CommandInv, Kept
<1>2. pc[c] = "read" /\ Kind(c) = "edit" /\ did[c] = {} /\ Exists(posts, Post(c))
      /\ Post(c) \in Posts /\ Target(c) = Post(c)
  BY <1>1 DEF ReadPost, Placed, Asked, Found, Target, ByIdKinds
<1>3. posts[Post(c)] \in Row BY <1>1, <1>2, ReadTyped
<1>4. PICK to, row : /\ Advances(c, to, row) /\ did' = did
                     /\ row \in Row /\ row.status # "absent"
                     /\ \/ to = "status" /\ cmd[c].target # "absent"
                        \/ to = "reread" /\ cmd[c].target = "absent" /\ Carries(c, row)
  <2>1. CASE cmd[c].target # "absent"
    <3>1. Advances(c, "status", posts[Post(c)]) /\ did' = did
      BY <1>2, <2>1 DEF ReadPost, Goto, Read, Keep, Advances
    <3>2. QED BY <1>2, <1>3, <2>1, <3>1 DEF Exists
  <2>2. CASE cmd[c].target = "absent"
    <3>1. Advances(c, "reread", WithFields(c, WithTitle(c, posts[Post(c)]))) /\ did' = did
      BY <1>2, <2>2 DEF ReadPost, Goto, Read, Keep, Advances
    <3>2. DEFINE row == WithFields(c, WithTitle(c, posts[Post(c)]))
    <3>3. row \in Row /\ row.status = posts[Post(c)].status /\ Carries(c, row)
      BY <1>3, WithTitleIs, WithFieldsIs DEF Carries
    <3>4. QED BY <1>2, <2>2, <3>1, <3>3 DEF Exists
  <2>3. QED BY <2>1, <2>2
<1>5. to \in Steps BY <1>4 DEF Steps
<1>6. /\ TypeOK' /\ pc'[c] = to /\ copy'[c] = row
      /\ Kind(c)' = Kind(c) /\ Post(c)' = Post(c)
      /\ \A d \in Commands \ {c} : Same(d) /\ Learns(d)
  <2>1. did' \in [Commands -> SUBSET Effects]
    BY <1>1, <1>4 DEF TypeOK
  <2>2. \A d \in Commands \ {c} : did'[d] = did[d] BY <1>4
  <2>3. QED BY <1>1, <1>4, <1>5, <2>1, <2>2, AdvanceIsQuiet
<1>7. /\ UNCHANGED <<posts, storage, token, cmd, reply, says, faults, seen>>
  BY <1>4 DEF Advances
<1>8. Kept(c)'
  <2>1. Asked(c)' BY <1>1, <1>2, <1>4, <1>6 DEF Asked
  <2>2. Placed(c)' BY <1>1, <1>2, <1>4, <1>6, <1>7 DEF Placed
  <2>3. Informed(c)' BY <1>2, <1>4, <1>6, <1>7 DEF Informed, Exists
  <2>4. Answered(c)' BY <1>4, <1>6 DEF Answered
  <2>5. CopyInv(c)'
    <3>1. pc'[c] \in {"status", "reread"} /\ copy'[c].status # "absent" BY <1>4, <1>6
    <3>2. pc'[c] = "reread" => Carries(c, copy[c])' BY <1>4, <1>6, <1>7 DEF Carries
    <3>3. QED BY <3>1, <3>2 DEF CopyInv
  <2>6. QED BY <2>1, <2>2, <2>3, <2>4, <2>5 DEF Kept
<1>9. QED BY <1>2, <1>4, <1>6, <1>7, <1>8, QuietKeeps

LEMMA ReadStatusKeeps ==
  ASSUME CommandInv, NEW c \in Commands, ReadStatus(c)
  PROVE  CommandInv'
<1>1. TypeOK /\ Asked(c) /\ Placed(c) /\ Informed(c) BY DEF CommandInv, Kept
<1>2. pc[c] = "status" /\ Kind(c) = "edit" /\ did[c] = {} /\ Exists(posts, Post(c))
      /\ cmd[c].target # "absent" /\ Post(c) \in Posts /\ Target(c) = Post(c)
  BY <1>1 DEF ReadStatus, Placed, Asked, Found, Target, ByIdKinds
<1>3. DEFINE row == WithStatus(NextRevision(posts[Post(c)]), cmd[c].target)
<1>4. row \in Row /\ row.status # "absent"
  <2>1. posts[Post(c)] \in Row BY <1>1, <1>2, ReadTyped
  <2>2. cmd[c].target \in Statuses
    <3>1. cmd[c].target \in Targets \cup {"absent"} BY <1>1 DEF TypeOK, Cmd
    <3>2. QED BY <1>2, <3>1, RemoteAssumption
  <2>3. NextRevision(posts[Post(c)]) \in Row BY <2>1, NextRevisionIs
  <2>4. row \in Row /\ row.status = cmd[c].target BY <2>2, <2>3, WithStatusIs
  <2>5. QED BY <1>2, <2>4
<1>5. Advances(c, "move", row) /\ did' = did
  BY DEF ReadStatus, Goto, Keep, Advances
<1> HIDE DEF row
<1>6. /\ TypeOK' /\ pc'[c] = "move" /\ copy'[c] = row
      /\ Kind(c)' = Kind(c) /\ Post(c)' = Post(c)
      /\ \A d \in Commands \ {c} : Same(d) /\ Learns(d)
  <2>1. did' \in [Commands -> SUBSET Effects]
    BY <1>1, <1>5 DEF TypeOK
  <2>2. \A d \in Commands \ {c} : did'[d] = did[d] BY <1>5
  <2>3. "move" \in Steps BY DEF Steps
  <2>4. QED BY <1>1, <1>4, <1>5, <2>1, <2>2, <2>3, AdvanceIsQuiet
<1>7. /\ UNCHANGED <<posts, storage, token, cmd, reply, says, faults, seen>>
  BY <1>5 DEF Advances
<1>8. Kept(c)'
  <2>1. Asked(c)' BY <1>1, <1>2, <1>6 DEF Asked
  <2>2. Placed(c)' BY <1>1, <1>2, <1>5, <1>6, <1>7 DEF Placed
  <2>3. Informed(c)' BY <1>2, <1>6, <1>7 DEF Informed, Exists
  <2>4. Answered(c)' BY <1>6 DEF Answered
  <2>5. CopyInv(c)' BY <1>4, <1>6 DEF CopyInv, Carries
  <2>6. QED BY <2>1, <2>2, <2>3, <2>4, <2>5 DEF Kept
<1>9. QED BY <1>2, <1>5, <1>6, <1>7, <1>8, QuietKeeps

LEMMA RereadKeeps ==
  ASSUME CommandInv, NEW c \in Commands, Reread(c)
  PROVE  CommandInv'
<1>1. TypeOK /\ Asked(c) /\ Placed(c) /\ Informed(c) /\ CopyInv(c) BY DEF CommandInv, Kept
<1>2. /\ pc[c] = "reread" /\ Kind(c) \in {"new", "edit"} /\ Exists(posts, Target(c))
      /\ Target(c) \in Posts
      /\ Kind(c) = "new" => Target(c) = c
      /\ Kind(c) = "edit" => Target(c) = Post(c)
  BY <1>1, Constants DEF Reread, Placed, Asked, Found, Target, ByIdKinds
<1>3. DEFINE row == NextRevision(Rebased(copy[c], posts[Target(c)]))
<1>4. /\ row \in Row /\ row.status # "absent"
      /\ row.revision - 1 = posts[Target(c)].revision
      /\ row.text = copy[c].text /\ row.title = copy[c].title /\ row.tags = copy[c].tags
  <2>1. posts[Target(c)] \in Row BY <1>1, <1>2, ReadTyped
  <2>2. copy[c] \in Row /\ copy[c].status # "absent" BY <1>1, <1>2 DEF CopyInv, TypeOK
  <2>3. /\ Rebased(copy[c], posts[Target(c)]) \in Row
        /\ Rebased(copy[c], posts[Target(c)]).status # "absent"
        /\ Rebased(copy[c], posts[Target(c)]).revision = posts[Target(c)].revision
        /\ Rebased(copy[c], posts[Target(c)]).text = copy[c].text
        /\ Rebased(copy[c], posts[Target(c)]).title = copy[c].title
        /\ Rebased(copy[c], posts[Target(c)]).tags = copy[c].tags
    BY <2>1, <2>2, RebasedIs
  <2>4. posts[Target(c)].revision \in Nat BY <2>1 DEF Row
  <2>5. QED BY <2>3, <2>4, NextRevisionIs
<1>5. Advances(c, "write", row) /\ did' = did
  BY DEF Reread, Goto, Keep, Advances
<1> HIDE DEF row
<1>6. /\ TypeOK' /\ pc'[c] = "write" /\ copy'[c] = row
      /\ Kind(c)' = Kind(c) /\ Post(c)' = Post(c)
      /\ \A d \in Commands \ {c} : Same(d) /\ Learns(d)
  <2>1. did' \in [Commands -> SUBSET Effects]
    BY <1>1, <1>5 DEF TypeOK
  <2>2. \A d \in Commands \ {c} : did'[d] = did[d] BY <1>5
  <2>3. "write" \in Steps BY DEF Steps
  <2>4. QED BY <1>1, <1>4, <1>5, <2>1, <2>2, <2>3, AdvanceIsQuiet
<1>7. /\ UNCHANGED <<posts, storage, token, cmd, reply, says, faults, seen>>
  BY <1>5 DEF Advances
<1>8. Kept(c)'
  <2>1. Asked(c)' BY <1>1, <1>2, <1>6, <1>7 DEF Asked
  <2>2. Placed(c)' BY <1>1, <1>2, <1>5, <1>6, <1>7 DEF Placed
  <2>3. Informed(c)'
    BY <1>1, <1>2, <1>4, <1>6, <1>7 DEF Informed, Exists, RevisionMatches, ByIdKinds, Steps
  <2>4. Answered(c)' BY <1>6 DEF Answered
  <2>5. CopyInv(c)' BY <1>1, <1>2, <1>4, <1>6, <1>7 DEF CopyInv, Carries
  <2>6. QED BY <2>1, <2>2, <2>3, <2>4, <2>5 DEF Kept
<1>9. QED BY <1>2, <1>5, <1>6, <1>7, <1>8, QuietKeeps

LEMMA SendKeeps ==
  ASSUME CommandInv, NEW c \in Commands, Send(c)
  PROVE  CommandInv'
<1>1. TypeOK /\ Asked(c) /\ Placed(c) /\ Informed(c) /\ CopyInv(c) BY DEF CommandInv, Kept
<1>2. pc[c] = "send" /\ Kind(c) = "publish" /\ did[c] = {} /\ Post(c) \in Posts
  BY <1>1 DEF Send, Placed, Asked, ByIdKinds
<1>3. DEFINE row == WithStatus(NextRevision(copy[c]), "published")
<1>4. row \in Row /\ row.status = "published" /\ row.revision - 1 = copy[c].revision
  <2>1. copy[c] \in Row BY <1>1 DEF TypeOK
  <2>2. copy[c].revision \in Nat BY <2>1 DEF Row
  <2>3. /\ NextRevision(copy[c]) \in Row
        /\ NextRevision(copy[c]).revision = copy[c].revision + 1
    BY <2>1, NextRevisionIs
  <2>4. /\ row \in Row /\ row.status = "published"
        /\ row.revision = NextRevision(copy[c]).revision
    BY <2>3, Constants, WithStatusIs
  <2>5. QED BY <2>2, <2>3, <2>4
<1>5. Advances(c, "mark", row) /\ did' = [did EXCEPT ![c] = @ \cup {"sent"}]
  BY DEF Send, Goto, Advances
<1> HIDE DEF row
<1>10. did'[c] = {"sent"} BY <1>1, <1>2, <1>5 DEF TypeOK
<1>6. /\ TypeOK' /\ pc'[c] = "mark" /\ copy'[c] = row
      /\ Kind(c)' = Kind(c) /\ Post(c)' = Post(c)
      /\ \A d \in Commands \ {c} : Same(d) /\ Learns(d)
  <2>1. did' \in [Commands -> SUBSET Effects]
    BY <1>1, <1>5 DEF TypeOK, Effects
  <2>2. \A d \in Commands \ {c} : did'[d] = did[d] BY <1>1, <1>5 DEF TypeOK
  <2>3. "mark" \in Steps BY DEF Steps
  <2>4. QED BY <1>1, <1>4, <1>5, <2>1, <2>2, <2>3, AdvanceIsQuiet
<1>7. /\ UNCHANGED <<posts, storage, token, cmd, reply, says, faults, seen>>
  BY <1>5 DEF Advances
<1>8. Kept(c)'
  <2>1. Asked(c)' BY <1>1, <1>2, <1>6 DEF Asked
  <2>2. Placed(c)' BY <1>1, <1>2, <1>6, <1>7, <1>10 DEF Placed
  <2>3. Informed(c)'
    BY <1>1, <1>2, <1>6, <1>7 DEF Informed, Exists, Steps
  <2>4. Answered(c)' BY <1>6 DEF Answered
  <2>5. CopyInv(c)'
    <3>1. ReadAt(c)' = ReadAt(c) BY <1>2, <1>4, <1>6 DEF ReadAt
    <3>2. QED BY <1>1, <1>2, <1>4, <1>6, <1>7, <3>1 DEF CopyInv, Carries, Exists
  <2>6. QED BY <2>1, <2>2, <2>3, <2>4, <2>5 DEF Kept
<1>9. QED BY <1>2, <1>6, <1>7, <1>8, <1>10, QuietKeeps

LEMMA ReadToPublishKeeps ==
  ASSUME CommandInv, NEW c \in Commands, ReadToPublish(c)
  PROVE  CommandInv'
<1>1. TypeOK /\ Asked(c) /\ Placed(c) /\ Informed(c) /\ UnbornInv /\ PublishedInv
  BY DEF CommandInv, Kept
<1>2. /\ pc[c] = "publish" /\ Kind(c) = "publish" /\ did[c] = {} /\ Post(c) \in Posts
      /\ Exists(posts, Post(c)) /\ Target(c) = Post(c)
      /\ posts[Post(c)].status # "published" /\ posts[Post(c)].text # Nobody
  BY <1>1 DEF ReadToPublish, Publishable, Placed, Asked, Found, Target, ByIdKinds
<1>3. posts[Post(c)] \in Row /\ posts[Post(c)].revision \in Nat
  BY <1>1, <1>2, ReadTyped DEF Row
<1>4. Advances(c, "send", posts[Post(c)]) /\ did' = did
  BY <1>2 DEF ReadToPublish, Goto, Read, Keep, Advances
<1>5. /\ TypeOK' /\ pc'[c] = "send" /\ copy'[c] = posts[Post(c)]
      /\ Kind(c)' = Kind(c) /\ Post(c)' = Post(c)
      /\ \A d \in Commands \ {c} : Same(d) /\ Learns(d)
  <2>1. did' \in [Commands -> SUBSET Effects]
    BY <1>1, <1>4 DEF TypeOK
  <2>2. \A d \in Commands \ {c} : did'[d] = did[d] BY <1>4
  <2>3. "send" \in Steps BY DEF Steps
  <2>4. QED BY <1>1, <1>3, <1>4, <2>1, <2>2, <2>3, AdvanceIsQuiet
<1>6. UNCHANGED <<posts, storage, token, cmd, reply, says, faults, seen>>
  BY <1>4 DEF Advances
<1>7. Kept(c)'
  <2>1. Asked(c)' BY <1>1, <1>2, <1>5 DEF Asked
  <2>2. Placed(c)' BY <1>1, <1>2, <1>4, <1>5, <1>6 DEF Placed
  <2>3. Informed(c)' BY <1>1, <1>2, <1>5, <1>6 DEF Informed, Exists, Steps
  <2>4. Answered(c)' BY <1>5 DEF Answered
  <2>5. CopyInv(c)' BY <1>2, <1>3, <1>5, <1>6 DEF CopyInv, ReadAt, Exists
  <2>6. QED BY <2>1, <2>2, <2>3, <2>4, <2>5 DEF Kept
<1>8. \A d \in Commands : Kept(d)'
  BY <1>5, <1>6, <1>7, OthersKept DEF StepOf, RowStep
<1>9. UnbornInv' BY <1>1, <1>2, <1>4, <1>5, <1>6, UnbornKept DEF UnbornInv, Kind, Post
<1>10. PublishedInv'
  <2>1. SUFFICES ASSUME NEW p \in Posts, NoEdit(p)' PROVE PublishedOnce(p)'
    BY DEF PublishedInv
  <2>2. NoEdit(p) BY <1>6, <2>1 DEF NoEdit, Kind, Post
  <2>3. \A d \in Commands : HasPublished(d, p)' <=> HasPublished(d, p)
    BY <1>4, <1>6 DEF HasPublished, Kind, Post
  <2>4. ASSUME p \in Commands, Kind(p)' = "new", pc'[p] \in {"reread", "write"}
        PROVE  posts'[p].text = Nobody /\ \A d \in Commands : ~Publishes(d, p)'
    <3>1. p # c BY <1>5, <2>4
    <3>2. Kind(p) = "new" /\ pc[p] \in {"reread", "write"}
      BY <1>5, <2>4, <3>1 DEF Same, Kind
    <3>3. posts[p].text = Nobody /\ \A d \in Commands : ~Publishes(d, p)
      BY <1>1, <2>2, <2>4, <3>2 DEF PublishedInv, PublishedOnce
    <3>4. Post(c) # p BY <1>2, <3>3
    <3>5. ASSUME NEW d \in Commands PROVE Publishes(d, p)' => Publishes(d, p)
      <4>1. CASE d = c BY <1>5, <2>3, <3>4, <4>1 DEF Publishes
      <4>2. CASE d # c BY <1>5, <2>3, <4>2 DEF Publishes, Same, Post
      <4>3. QED BY <4>1, <4>2
    <3>6. QED BY <1>6, <3>3, <3>5
  <2>5. QED BY <1>1, <1>6, <2>2, <2>3, <2>4 DEF PublishedInv, PublishedOnce
<1>11. QED BY <1>5, <1>8, <1>9, <1>10 DEF CommandInv

\* Hearing the answer, or never hearing it.
LEMMA EndKeeps ==
  ASSUME CommandInv, NEW c \in Commands, Hear(c) \/ Lose(c)
  PROVE  CommandInv'
<1>1. TypeOK /\ Asked(c) /\ Answered(c) BY DEF CommandInv, Kept
<1>2. PICK output : End(c, output) /\ (output = "call failed" \/ (Hear(c) /\ output = Output(c)))
  BY DEF Hear, Lose, Output
<1>3. Fault(c) \/ UNCHANGED <<faults, seen>> BY DEF Hear, Lose, Fault
<1>4. /\ UNCHANGED <<posts, storage, token, cmd, copy, did>>
      /\ says' = [says EXCEPT ![c] = output]
      /\ reply' = [reply EXCEPT ![c] = NoReply]
      /\ pc' = [pc EXCEPT ![c] = "ended"]
  BY <1>2 DEF End, Goto
<1>5. pc[c] \in {"sent", "answered"} BY DEF Hear, Lose
<1>6. output \in Outputs
  <2>1. CASE output = "call failed" BY <2>1 DEF Outputs
  <2>2. CASE Hear(c) /\ output = Output(c) /\ output # "call failed"
    <3>1. output = Says(Kind(c), reply[c].code) /\ Kind(c) \in AllKinds
      BY <1>1, <1>5, <2>2 DEF Output, Asked
    <3>2. reply[c].code \in Codes \cup {0} BY <1>1 DEF TypeOK
    <3>3. Says(Kind(c), reply[c].code) \in Outputs BY <3>1, <3>2, CodesAreHeard DEF HeardAs
    <3>4. QED BY <3>1, <3>3
  <2>3. QED BY <1>2, <2>1, <2>2
<1>7. TypeOK'
  <2>1. NoReply \in [code : Codes \cup {0}, body : Bodies] BY DEF NoReply, Bodies
  <2>2. says' \in [Commands -> Outputs \cup {""}] BY <1>1, <1>4, <1>6 DEF TypeOK
  <2>3. reply' \in [Commands -> [code : Codes \cup {0}, body : Bodies]]
    BY <1>1, <1>4, <2>1 DEF TypeOK
  <2>4. pc' \in [Commands -> {"idle", "sent", "answered", "ended"} \cup Steps]
    BY <1>1, <1>4 DEF TypeOK
  <2>5. QED BY <1>1, <1>3, <1>4, <2>2, <2>3, <2>4, FaultTyped DEF TypeOK
<1>8. /\ pc'[c] = "ended" /\ says'[c] = output
      /\ \A d \in Commands \ {c} : Same(d) /\ Learns(d)
  <2>1. pc'[c] = "ended" /\ says'[c] = output BY <1>1, <1>4 DEF TypeOK
  <2>2. \A d \in Commands \ {c} : Same(d) BY <1>1, <1>4 DEF Same, TypeOK
  <2>3. \A d \in Commands \ {c} : Learns(d) BY <1>1, <1>3, FaultTyped DEF Learns
  <2>4. QED BY <2>1, <2>2, <2>3
<1>9. Kept(c)'
  <2>1. Asked(c)' BY <1>1, <1>4, <1>5, <1>8 DEF Asked, Kind, Post
  <2>2. Placed(c)' BY <1>8 DEF Placed
  <2>3. Informed(c)' BY <1>8 DEF Informed, Steps
  <2>4. Answered(c)'
    <3>1. CASE output = "call failed" BY <1>8, <3>1 DEF Answered, Truthful, Refusals
    <3>2. CASE Hear(c) /\ output = Output(c)
      <4>1. Truthful(c, output) /\ UNCHANGED <<faults, seen>>
        BY <1>1, <3>2 DEF Hear, Answered
      <4>2. Truthful(c, output)' BY <1>4, <4>1 DEF Truthful, Accomplished, AskedOf, Dropped, Kind
      <4>3. QED BY <1>8, <4>2 DEF Answered
    <3>3. QED BY <1>2, <3>1, <3>2
  <2>5. CopyInv(c)' BY <1>8 DEF CopyInv, Carries
  <2>6. QED BY <2>1, <2>2, <2>3, <2>4, <2>5 DEF Kept
<1>10. QED BY <1>4, <1>7, <1>8, <1>9, QuietKeeps

-------------------------------------------------------------------------------
(* The start of a command.                                                 *)

\* Who asks for a post by its id knows it.
LEMMA AsksKnown ==
  ASSUME TypeOK, NEW k \in Kinds, NEW ask \in Asks(k), NEW b \in Bases
  PROVE  /\ At(ask, k, b) \in Cmd
         /\ At(ask, k, b).kind = k /\ At(ask, k, b).post = ask.post /\ k \in AllKinds
         /\ k = "new" => At(ask, k, b).fields \subseteq {"text"}
         /\ k \in ByIdKinds => ask.post \in Posts /\ ask.post # Nobody /\ ~Unborn(ask.post)
<1>1. k \in AllKinds BY RemoteAssumption
<1>2. NoCmd \in Cmd BY Constants DEF NoCmd, Cmd, Writers
<1>3. ASSUME NEW p \in Known PROVE p \in Posts /\ p # Nobody /\ ~Unborn(p) /\ p \in Writers
  BY <1>3, Constants DEF Known, Posts, Unborn, Writers
<1>4. /\ ask \in Cmd /\ (k \in ByIdKinds => ask.post \in Known)
      /\ k = "new" => ask.fields \subseteq {"text"}
  <2>1. CASE k = "new"
    <3>1. ask \in NewAsks BY <2>1 DEF Asks
    <3>2. PICK s \in Slugs, f \in {{}, {"text"}} : ask = AskNew(s, f) BY <3>1 DEF NewAsks
    <3>3. ask \in Cmd /\ ask.fields = f BY <1>2, <3>2 DEF AskNew, Cmd, Fields
    <3>4. QED BY <2>1, <3>2, <3>3 DEF ByIdKinds
  <2>2. CASE k = "edit"
    <3>1. ask \in EditAsks BY <2>2 DEF Asks
    <3>2. PICK p \in Known, f \in Edits, s \in Targets \cup {"absent"} : ask = AskEdit(p, f, s)
      BY <3>1 DEF EditAsks
    <3>3. f \in SUBSET Fields BY RemoteAssumption
    <3>4. ask \in Cmd /\ ask.post = p BY <1>2, <1>3, <3>2, <3>3 DEF AskEdit, Cmd
    <3>5. QED BY <2>2, <3>4
  <2>3. CASE k \in {"show", "delete", "publish"}
    <3>1. ask \in ByIdAsks BY <2>3 DEF Asks
    <3>2. QED BY <1>3, <3>1, Constants DEF ByIdAsks, NoCmd, Cmd
  <2>4. CASE k \notin {"new", "edit", "show", "delete", "publish"}
    <3>1. ask = NoCmd BY <2>4 DEF Asks
    <3>2. QED BY <1>2, <2>4, <3>1 DEF ByIdKinds
  <2>5. QED BY <2>1, <2>2, <2>3, <2>4
<1>5. At(ask, k, b) \in Cmd BY <1>1, <1>4 DEF At, Cmd
<1>6. /\ At(ask, k, b).kind = k /\ At(ask, k, b).post = ask.post
      /\ At(ask, k, b).fields = ask.fields
  BY <1>4 DEF At, Cmd
<1>7. QED BY <1>1, <1>3, <1>4, <1>5, <1>6

LEMMA StartKeeps ==
  ASSUME CommandInv, NEW c \in Commands, NEW k \in Kinds, NEW b \in Bases, NEW ask \in Asks(k),
         Start(c, k, ask, b)
  PROVE  CommandInv'
<1>1. TypeOK /\ Asked(c) /\ Placed(c) /\ UnbornInv BY DEF CommandInv, Kept
<1>2. DEFINE new  == At(ask, k, b)
             gone == ask.post # Nobody /\ ~Exists(posts, ask.post)
<1>3. /\ new \in Cmd
      /\ new.kind = k /\ new.post = ask.post /\ k \in AllKinds
      /\ k = "new" => new.fields \subseteq {"text"}
      /\ k \in ByIdKinds => ask.post \in Posts /\ ask.post # Nobody /\ ~Unborn(ask.post)
  BY <1>1, AsksKnown
<1>4. gone \in BOOLEAN OBVIOUS
<1>5. k \in ByIdKinds /\ ~Exists(posts, ask.post) => gone BY <1>3
<1>6. /\ pc[c] = "idle" /\ cmd[c] = NoCmd /\ did[c] = {} /\ says[c] = ""
      /\ pc' = [pc EXCEPT ![c] = "sent"] /\ cmd' = [cmd EXCEPT ![c] = new]
      /\ seen' = [seen EXCEPT ![c] = [seen[c] EXCEPT !.absent = gone]]
      /\ UNCHANGED <<posts, storage, token, copy, reply, says, faults, did>>
  BY <1>1 DEF Start, Goto, Asked, Placed
<1> HIDE DEF new, gone
<1>7. /\ pc'[c] = "sent" /\ cmd'[c] = new /\ (gone => seen'[c].absent)
      /\ \A d \in Commands \ {c} : Same(d) /\ Learns(d)
      /\ seen' \in [Commands -> [absent : BOOLEAN, changed : BOOLEAN, fault : BOOLEAN]]
  <2>1. seen \in [Commands -> [absent : BOOLEAN, changed : BOOLEAN, fault : BOOLEAN]]
    BY <1>1 DEF TypeOK
  <2>2. /\ seen' \in [Commands -> [absent : BOOLEAN, changed : BOOLEAN, fault : BOOLEAN]]
        /\ seen'[c].absent = gone
    BY <1>4, <1>6, <2>1
  <2>3. pc'[c] = "sent" /\ cmd'[c] = new BY <1>1, <1>6 DEF TypeOK
  <2>4. \A d \in Commands \ {c} : Same(d) BY <1>1, <1>6 DEF TypeOK, Same
  <2>5. \A d \in Commands \ {c} : Learns(d) BY <1>6, <2>1 DEF Learns
  <2>6. QED BY <2>2, <2>3, <2>4, <2>5
<1>8. TypeOK'
  <2>1. cmd' \in [Commands -> Cmd]
    BY <1>1, <1>3, <1>6 DEF TypeOK
  <2>2. pc' \in [Commands -> {"idle", "sent", "answered", "ended"} \cup Steps]
    BY <1>1, <1>6 DEF TypeOK
  <2>3. QED BY <1>1, <1>6, <1>7, <2>1, <2>2 DEF TypeOK
<1>9. Kind(c)' = k /\ Post(c)' = ask.post BY <1>3, <1>7 DEF Kind, Post
<1>10. Kept(c)'
  <2>1. Asked(c)' BY <1>3, <1>7, <1>9 DEF Asked
  <2>2. Placed(c)' BY <1>6, <1>7 DEF Placed
  <2>3. Informed(c)' BY <1>5, <1>6, <1>7, <1>9 DEF Informed, Exists
  <2>4. Answered(c)' /\ CopyInv(c)' BY <1>7 DEF Answered, CopyInv
  <2>5. QED BY <2>1, <2>2, <2>3, <2>4 DEF Kept
<1>11. \A d \in Commands : Kept(d)'
  <2>1. StepOf(c) BY <1>6, <1>7 DEF StepOf, RowStep
  <2>2. QED BY <1>10, <2>1, OthersKept
<1>12. UnbornInv'
  <2>1. (Kind(c) \in ByIdKinds)' => ~Unborn(Post(c)') BY <1>3, <1>9
  <2>2. did[c] \subseteq did'[c] BY <1>6
  <2>3. UnbornInv /\ \A d \in Commands \ {c} : Same(d) BY <1>1, <1>7
  <2>4. QED BY <2>1, <2>2, <2>3, UnbornKept
<1>13. PublishedInv'
  <2>5. NoCmd.kind = "none" BY DEF NoCmd
  <2>1. Kind(c) = "none" BY <1>6, <2>5 DEF Kind
  <2>2. ASSUME NEW p \in Posts PROVE NoEdit(p)' => NoEdit(p)
    BY <1>7, <2>1 DEF NoEdit, Same, Kind, Post
  <2>3. ASSUME NEW p \in Posts PROVE ~HasPublished(c, p)' /\ ~Publishes(c, p)'
    BY <1>6, <1>7 DEF HasPublished, Publishes
  <2>4. \A p \in Posts : NoEdit(p)' => PublishedOnce(p)'
    BY <1>6, <1>7, <2>2, <2>3, PublishedKept
  <2>6. QED BY <2>4 DEF PublishedInv
<1>14. QED BY <1>8, <1>11, <1>12, <1>13 DEF CommandInv

-------------------------------------------------------------------------------
(* Writing rows.                                                           *)

\* Whoever is busy with a post that is changed or removed learns of it.
LEMMA TouchTeaches ==
  ASSUME TypeOK, NEW c \in Commands, NEW p, NEW gone \in BOOLEAN, Touch(c, p, gone)
  PROVE  /\ seen' \in [Commands -> [absent : BOOLEAN, changed : BOOLEAN, fault : BOOLEAN]]
         /\ seen'[c] = seen[c]
         /\ \A d \in Commands \ {c} :
              /\ Learns(d)
              /\ Running(d) /\ (Post(d) = p \/ d = p) =>
                   seen'[d].changed /\ (gone => seen'[d].absent)
<1>1. seen \in [Commands -> [absent : BOOLEAN, changed : BOOLEAN, fault : BOOLEAN]]
  BY DEF TypeOK
<1>2. ASSUME NEW d \in Commands
      PROVE  /\ seen'[d] \in [absent : BOOLEAN, changed : BOOLEAN, fault : BOOLEAN]
             /\ d = c => seen'[d] = seen[d]
             /\ Learns(d)
             /\ d # c /\ Running(d) /\ (Post(d) = p \/ d = p) =>
                  seen'[d].changed /\ (gone => seen'[d].absent)
  <2>1. seen[d] \in [absent : BOOLEAN, changed : BOOLEAN, fault : BOOLEAN] BY <1>1
  <2>2. CASE d # c /\ Running(d) /\ (Post(d) = p \/ d = p)
    <3>1. seen'[d] = [seen[d] EXCEPT !.changed = TRUE, !.absent = @ \/ gone]
      BY <2>2 DEF Touch
    <3>2. DEFINE flag == seen[d].absent \/ gone
    <3>3. flag \in BOOLEAN OBVIOUS
    <3>4. (seen[d].absent => flag) /\ (gone => flag) OBVIOUS
    <3>5. seen'[d] = [seen[d] EXCEPT !.changed = TRUE, !.absent = flag] BY <3>1
    <3> HIDE DEF flag
    <3>6. /\ seen'[d] \in [absent : BOOLEAN, changed : BOOLEAN, fault : BOOLEAN]
          /\ seen'[d].absent = flag /\ seen'[d].changed = TRUE
          /\ seen'[d].fault = seen[d].fault
      BY <2>1, <3>3, <3>5
    <3>7. QED BY <2>2, <3>4, <3>6 DEF Learns
  <2>3. CASE ~(d # c /\ Running(d) /\ (Post(d) = p \/ d = p))
    <3>1. seen'[d] = seen[d] BY <2>3 DEF Touch
    <3>2. QED BY <2>1, <2>3, <3>1 DEF Learns
  <2>4. QED BY <2>2, <2>3
<1>3. seen' \in [Commands -> [absent : BOOLEAN, changed : BOOLEAN, fault : BOOLEAN]]
  <2>1. seen' = [d \in Commands |-> seen'[d]] BY DEF Touch
  <2>2. QED BY <1>2, <2>1
<1>4. QED BY <1>2, <1>3

\* A row is replaced by a copy that is one revision further.
LEMMA PutSteps ==
  ASSUME TypeOK, NEW c \in Commands, NEW p \in Posts, NEW row \in Row, row.status # "absent",
         NEW effects \in SUBSET Effects,
         RevisionMatches(posts, p, row), Put(c, p, row, effects), cmd' = cmd,
         \A d \in Commands \ {c} : /\ pc'[d] = pc[d] /\ copy'[d] = copy[d]
                                   /\ reply'[d] = reply[d] /\ says'[d] = says[d]
  PROVE  /\ posts' \in [Posts -> Row] /\ posts'[p] = row
         /\ \A q \in Posts \ {p} : posts'[q] = posts[q]
         /\ did' \in [Commands -> SUBSET Effects]
         /\ did'[c] = did[c] \cup effects
         /\ seen' \in [Commands -> [absent : BOOLEAN, changed : BOOLEAN, fault : BOOLEAN]]
         /\ seen'[c] = seen[c]
         /\ StepOf(c)
<1>1. posts' \in [Posts -> Row] /\ posts'[p] = row /\ \A q \in Posts \ {p} : posts'[q] = posts[q]
  BY DEF TypeOK, Put, UpdateRow
<1>2. /\ did' \in [Commands -> SUBSET Effects]
      /\ did'[c] = did[c] \cup effects
      /\ \A d \in Commands \ {c} : did'[d] = did[d]
  BY DEF TypeOK, Put
<1>3. /\ seen' \in [Commands -> [absent : BOOLEAN, changed : BOOLEAN, fault : BOOLEAN]]
      /\ seen'[c] = seen[c]
      /\ \A d \in Commands \ {c} : /\ Learns(d)
                                   /\ Running(d) /\ d = p => seen'[d].changed
  BY TouchTeaches, ZenonT(40) DEF Put
<1>4. \A d \in Commands \ {c} : Same(d) BY <1>2 DEF Same
<1>5. Exists(posts, p) /\ row.revision = posts[p].revision + 1
  <2>1. posts[p].revision \in Nat /\ row.revision \in Nat BY DEF TypeOK, Row
  <2>2. QED BY <2>1 DEF RevisionMatches
<1>6. WritesRow(c, p) BY <1>1, <1>3, <1>5 DEF WritesRow
<1>7. \A q \in Posts : RowStep(c, q) BY <1>1, <1>6 DEF RowStep
<1>8. QED BY <1>1, <1>2, <1>3, <1>4, <1>7 DEF StepOf

LEMMA MoveKeeps ==
  ASSUME CommandInv, NEW c \in Commands, Move(c)
  PROVE  CommandInv'
<1>1. TypeOK /\ Asked(c) /\ Placed(c) /\ Informed(c) /\ CopyInv(c) /\ UnbornInv
  BY DEF CommandInv, Kept
<1>2. /\ pc[c] = "move" /\ Kind(c) = "edit" /\ did[c] = {} /\ Post(c) \in Posts
      /\ copy[c] \in Row /\ copy[c].status # "absent" /\ cmd[c].target # "absent"
      /\ RevisionMatches(posts, Post(c), copy[c])
  BY <1>1 DEF Move, Placed, Asked, ByIdKinds, CopyInv, TypeOK
<1>3. /\ WithFields(c, copy[c]) \in Row /\ WithFields(c, copy[c]).status = copy[c].status
      /\ Carries(c, WithFields(c, copy[c]))
  BY <1>2, WithFieldsIs DEF Carries
<1>4. /\ Put(c, Post(c), copy[c], {"moved"})
      /\ copy' = [copy EXCEPT ![c] = WithFields(c, copy[c])]
      /\ pc' = [pc EXCEPT ![c] = "reread"]
      /\ UNCHANGED <<storage, token, cmd, reply, says, faults>>
  BY DEF Move, Goto
<1>5. /\ pc'[c] = "reread" /\ copy'[c] = WithFields(c, copy[c])
      /\ \A d \in Commands \ {c} : /\ pc'[d] = pc[d] /\ copy'[d] = copy[d]
                                   /\ reply'[d] = reply[d] /\ says'[d] = says[d]
      /\ pc' \in [Commands -> {"idle", "sent", "answered", "ended"} \cup Steps]
      /\ copy' \in [Commands -> Row]
  BY <1>1, <1>3, <1>4 DEF TypeOK, Steps
<1>6. /\ posts' \in [Posts -> Row] /\ posts'[Post(c)] = copy[c]
      /\ \A q \in Posts \ {Post(c)} : posts'[q] = posts[q]
      /\ did' \in [Commands -> SUBSET Effects]
      /\ did'[c] = did[c] \cup {"moved"}
      /\ seen' \in [Commands -> [absent : BOOLEAN, changed : BOOLEAN, fault : BOOLEAN]]
      /\ StepOf(c)
  <2>1. cmd' = cmd /\ {"moved"} \in SUBSET Effects BY <1>4 DEF Effects
  <2>2. QED BY <1>1, <1>2, <1>4, <1>5, <2>1, PutSteps
<1>7. TypeOK' BY <1>1, <1>4, <1>5, <1>6 DEF TypeOK
<1>8. Kind(c)' = Kind(c) /\ Post(c)' = Post(c) BY <1>4 DEF Kind, Post
<1>9. Kept(c)'
  <2>1. Asked(c)' BY <1>1, <1>2, <1>5, <1>8 DEF Asked
  <2>2. Placed(c)' BY <1>1, <1>2, <1>4, <1>5, <1>6, <1>8 DEF Placed
  <2>3. Informed(c)' BY <1>2, <1>5, <1>6, <1>8 DEF Informed, Exists
  <2>4. Answered(c)' BY <1>5 DEF Answered
  <2>5. CopyInv(c)' BY <1>2, <1>3, <1>4, <1>5 DEF CopyInv, Carries
  <2>6. QED BY <2>1, <2>2, <2>3, <2>4, <2>5 DEF Kept
<1>10. \A d \in Commands : Kept(d)' BY <1>6, <1>9, OthersKept
<1>11. UnbornInv'
  <2>1. (Kind(c) \in ByIdKinds)' => ~Unborn(Post(c)') BY <1>1, <1>8 DEF UnbornInv
  <2>2. did[c] \subseteq did'[c] /\ \A d \in Commands \ {c} : Same(d) BY <1>6 DEF StepOf
  <2>3. QED BY <1>1, <2>1, <2>2, UnbornKept
<1>12. PublishedInv'
  <2>1. ASSUME NEW p \in Posts PROVE NoEdit(p)' => PublishedOnce(p)'
    <3>1. CASE p = Post(c) BY <1>2, <1>8, <3>1 DEF NoEdit
    <3>2. CASE p # Post(c)
      <4>1. posts'[p] = posts[p] BY <1>6, <3>2
      <4>2. NoEdit(p)' => NoEdit(p) BY <1>4 DEF NoEdit, Kind, Post
      <4>3. ~HasPublished(c, p)' /\ ~Publishes(c, p)' /\ Kind(c)' # "new"
        BY <1>2, <1>5, <1>8 DEF HasPublished, Publishes, Kind, Post
      <4>4. \A d \in Commands \ {c} : Same(d) BY <1>6 DEF StepOf
      <4>5. QED BY <4>1, <4>2, <4>3, <4>4, PublishedKept
    <3>3. QED BY <3>1, <3>2
  <2>2. QED BY <2>1 DEF PublishedInv
<1>13. QED BY <1>7, <1>10, <1>11, <1>12 DEF CommandInv

\* An answer is one command's own affair.
LEMMA AnswerMoves ==
  ASSUME TypeOK, NEW c \in Commands, NEW code, NEW body, Answer(c, code, body)
  PROVE  /\ pc'[c] = "answered"
         /\ \A d \in Commands \ {c} : pc'[d] = pc[d] /\ copy'[d] = copy[d] /\ reply'[d] = reply[d]
BY DEF Answer, Goto, TypeOK

LEMMA CopyTyped ==
  ASSUME TypeOK, NEW c \in Commands
  PROVE  copy[c] \in Row
BY DEF TypeOK

\* What the last statement of a handler leaves to show: it has written a row and
\* answered that all is done.
LastWrite(c, p, effects) ==
  /\ p \in Posts /\ effects \in SUBSET Effects
  /\ pc[c] \in Steps /\ copy[c].status # "absent"
  /\ RevisionMatches(posts, p, copy[c]) /\ Put(c, p, copy[c], effects)
  /\ Answer(c, 200, "post") \/ Answer(c, 201, "post")
  /\ UNCHANGED <<storage, token, cmd, says, faults>>
  /\ did'[c] = did[c] \cup effects => Accomplished(c)'
  /\ p # Post(c) => Kind(c) \notin ByIdKinds

Written(c, p, effects) ==
  /\ TypeOK' /\ (\A d \in Commands : Kept(d)') /\ UnbornInv'
  /\ posts'[p] = copy[c] /\ \A q \in Posts \ {p} : posts'[q] = posts[q]
  /\ \A d \in Commands \ {c} : Same(d)
  /\ pc'[c] = "answered" /\ did'[c] = did[c] \cup effects
  /\ Kind(c)' = Kind(c) /\ Post(c)' = Post(c)

LEMMA LastWriteKeeps ==
  ASSUME CommandInv, NEW c \in Commands, NEW p, NEW effects, LastWrite(c, p, effects)
  PROVE  Written(c, p, effects)
<1>a. /\ p \in Posts /\ effects \in SUBSET Effects
      /\ pc[c] \in Steps /\ copy[c].status # "absent"
      /\ RevisionMatches(posts, p, copy[c]) /\ Put(c, p, copy[c], effects)
      /\ UNCHANGED <<storage, token, cmd, says, faults>>
      /\ did'[c] = did[c] \cup effects => Accomplished(c)'
      /\ p # Post(c) => Kind(c) \notin ByIdKinds
  BY DEF LastWrite
<1>b. PICK code \in {200, 201} : Answer(c, code, "post") BY DEF LastWrite
<1>1. TypeOK /\ Kept(c) /\ UnbornInv BY DEF CommandInv
<1>2. code \in Codes /\ "post" \in Bodies BY <1>b DEF Codes, Bodies
<1>3. /\ reply' \in [Commands -> [code : Codes \cup {0}, body : Bodies]]
      /\ copy' \in [Commands -> Row]
      /\ pc' \in [Commands -> {"idle", "sent", "answered", "ended"} \cup Steps]
  BY <1>a, <1>b, <1>1, <1>2, AnswerTyped
<1>4. /\ pc'[c] = "answered"
      /\ \A d \in Commands \ {c} : /\ pc'[d] = pc[d] /\ copy'[d] = copy[d]
                                   /\ reply'[d] = reply[d] /\ says'[d] = says[d]
  BY <1>a, <1>b, <1>1, AnswerMoves
<1>5. copy[c] \in Row BY <1>a, <1>b, <1>1, CopyTyped
<1>6. /\ posts' \in [Posts -> Row] /\ posts'[p] = copy[c]
      /\ \A q \in Posts \ {p} : posts'[q] = posts[q]
      /\ did' \in [Commands -> SUBSET Effects]
      /\ did'[c] = did[c] \cup effects
      /\ seen' \in [Commands -> [absent : BOOLEAN, changed : BOOLEAN, fault : BOOLEAN]]
      /\ StepOf(c)
  <2>1. effects \in SUBSET Effects BY <1>a
  <2>2. cmd' = cmd BY <1>a
  <2>3. QED BY <1>a, <1>b, <1>1, <1>4, <1>5, <2>1, <2>2, PutSteps
<1>7. TypeOK' BY <1>a, <1>b, <1>1, <1>3, <1>6 DEF TypeOK
<1>8. Kind(c)' = Kind(c) /\ Post(c)' = Post(c) BY <1>a, <1>b DEF Kind, Post
<1>9. Kept(c)'
  <2>1. Excuse(c, code) BY <1>a, <1>b, <1>6 DEF Excuse
  <2>2. cmd' = cmd /\ says' = says BY <1>a
  <2>3. QED BY <1>a, <1>b, <1>1, <1>2, <2>1, <2>2, AnsweredIsKept
<1>10. \A d \in Commands : Kept(d)' BY <1>a, <1>b, <1>6, <1>9, OthersKept
<1>11. UnbornInv'
  <2>1. (Kind(c) \in ByIdKinds)' => ~Unborn(Post(c)') BY <1>a, <1>b, <1>1, <1>8 DEF UnbornInv
  <2>2. did[c] \subseteq did'[c] /\ \A d \in Commands \ {c} : Same(d) BY <1>a, <1>b, <1>6 DEF StepOf
  <2>3. QED BY <1>a, <1>b, <1>1, <2>1, <2>2, UnbornKept
<1>12. QED BY <1>a, <1>b, <1>4, <1>6, <1>7, <1>8, <1>10, <1>11 DEF StepOf, Written

LEMMA WriteKeeps ==
  ASSUME CommandInv, NEW c \in Commands, Write(c)
  PROVE  CommandInv'
<1>1. TypeOK /\ Asked(c) /\ Placed(c) /\ CopyInv(c) /\ PublishedInv BY DEF CommandInv, Kept
<1>2. /\ pc[c] = "write" /\ pc[c] \in Steps /\ copy[c].status # "absent"
      /\ \/ Kind(c) = "new" /\ did[c] = {"created"} /\ Target(c) = c
         \/ Kind(c) = "edit" /\ (did[c] = {"moved"} \/ (did[c] = {} /\ cmd[c].target = "absent"))
            /\ Target(c) = Post(c)
      /\ Target(c) \in Posts
  BY <1>1, Constants DEF Write, Placed, Asked, CopyInv, Steps, Target, ByIdKinds
<1>3. PICK code \in {200, 201} : Answer(c, code, "post") BY DEF Write
<1>10. Mine(c, copy[c]) \in SUBSET Effects /\ "published" \notin Mine(c, copy[c])
  BY DEF Mine, Effects
<1>4. /\ Put(c, Target(c), copy[c], Mine(c, copy[c])) /\ RevisionMatches(posts, Target(c), copy[c])
      /\ UNCHANGED <<storage, token, cmd, says, faults>>
  BY DEF Write
<1>5. did'[c] = did[c] \cup Mine(c, copy[c]) => Accomplished(c)'
  <2>1. Carries(c, copy[c]) BY <1>1, <1>2 DEF CopyInv
  <2>2. cmd[c].fields \subseteq Fields /\ (Kind(c) = "new" => cmd[c].fields \subseteq {"text"})
    BY <1>1, <1>2 DEF TypeOK, Cmd, Asked
  <2>3. ASSUME NEW f \in cmd[c].fields \ Dropped(c) PROVE f \in Mine(c, copy[c])
    BY <2>1, <2>2, <2>3 DEF Carries, Dropped, Mine, Fields
  <2>4. "stored" \in Mine(c, copy[c]) BY DEF Mine
  <2>5. CASE Kind(c) = "new"
    BY <1>2, <1>4, <2>3, <2>5 DEF Accomplished, AskedOf, Dropped, Kind
  <2>6. CASE Kind(c) = "edit"
    BY <1>2, <1>4, <2>3, <2>4, <2>6 DEF Accomplished, AskedOf, Dropped, Kind
  <2>7. QED BY <1>2, <2>5, <2>6
<1>6. Target(c) # Post(c) => Kind(c) \notin ByIdKinds BY <1>2 DEF ByIdKinds
<1>7. /\ TypeOK' /\ (\A d \in Commands : Kept(d)') /\ UnbornInv'
      /\ posts'[Target(c)] = copy[c]
      /\ \A q \in Posts \ {Target(c)} : posts'[q] = posts[q]
      /\ \A d \in Commands \ {c} : Same(d)
      /\ pc'[c] = "answered" /\ did'[c] = did[c] \cup Mine(c, copy[c])
      /\ Kind(c)' = Kind(c) /\ Post(c)' = Post(c)
  <2>1. LastWrite(c, Target(c), Mine(c, copy[c]))
    BY <1>2, <1>3, <1>4, <1>5, <1>6, <1>10 DEF LastWrite
  <2>2. Written(c, Target(c), Mine(c, copy[c])) BY <2>1, LastWriteKeeps
  <2>3. QED BY <2>2 DEF Written
<1>8. ASSUME NEW p \in Posts, NoEdit(p)' PROVE PublishedOnce(p)'
  <2>1. NoEdit(p) BY <1>4, <1>8 DEF NoEdit, Kind, Post
  <2>2. ~HasPublished(c, p)' /\ ~Publishes(c, p)'
    BY <1>2, <1>7 DEF HasPublished, Publishes, Kind
  <2>3. CASE p # Target(c)
    <3>1. posts'[p].status \in {posts[p].status, "absent"} /\ posts'[p].text = posts[p].text
      BY <1>7, <2>3
    <3>2. ~(pc'[c] \in {"reread", "write"}) BY <1>7
    <3>3. QED BY <1>7, <1>8, <2>1, <2>2, <3>1, <3>2, PublishedKept
  <2>4. CASE p = Target(c)
    <3>1. Kind(c) = "new" /\ p = c BY <1>2, <2>1, <2>4 DEF NoEdit
    <3>2. \A d \in Commands : ~Publishes(d, p)
      BY <1>1, <1>2, <2>1, <3>1 DEF PublishedInv, PublishedOnce
    <3>3. \A d \in Commands : ~HasPublished(d, p)'
      BY <1>7, <2>2, <3>2 DEF Publishes, HasPublished, Same, Kind, Post
    <3>4. QED BY <1>7, <3>1, <3>3 DEF PublishedOnce
  <2>5. QED BY <2>3, <2>4
<1>9. QED BY <1>7, <1>8 DEF CommandInv, PublishedInv

LEMMA MarkKeeps ==
  ASSUME CommandInv, NEW c \in Commands, Mark(c)
  PROVE  CommandInv'
<1>1. TypeOK /\ Asked(c) /\ Placed(c) /\ CopyInv(c) /\ PublishedInv BY DEF CommandInv, Kept
<1>2. /\ pc[c] = "mark" /\ pc[c] \in Steps /\ copy[c].status = "published"
      /\ Kind(c) = "publish" /\ did[c] = {"sent"} /\ Post(c) \in Posts
  BY <1>1 DEF Mark, Placed, Asked, CopyInv, Steps, ByIdKinds
<1>3. /\ Put(c, Post(c), copy[c], {"published"}) /\ RevisionMatches(posts, Post(c), copy[c])
      /\ Answer(c, 200, "post") /\ UNCHANGED <<storage, token, cmd, says, faults>>
  BY DEF Mark, MarkMatches
<1>4. did'[c] = did[c] \cup {"published"} => Accomplished(c)'
  BY <1>2, <1>3 DEF Accomplished, AskedOf, Dropped, Kind
<1>5. /\ TypeOK' /\ (\A d \in Commands : Kept(d)') /\ UnbornInv'
      /\ posts'[Post(c)] = copy[c]
      /\ \A q \in Posts \ {Post(c)} : posts'[q] = posts[q]
      /\ \A d \in Commands \ {c} : Same(d)
      /\ pc'[c] = "answered" /\ did'[c] = did[c] \cup {"published"}
      /\ Kind(c)' = Kind(c) /\ Post(c)' = Post(c)
  <2>1. {"published"} \in SUBSET Effects BY DEF Effects
  <2>2. LastWrite(c, Post(c), {"published"})
    BY <1>2, <1>3, <1>4, <2>1 DEF LastWrite
  <2>3. Written(c, Post(c), {"published"}) BY <2>2, LastWriteKeeps
  <2>4. QED BY <2>3 DEF Written
<1>6. Exists(posts, Post(c)) /\ posts[Post(c)].status # "published"
  <2>1. ReadAt(c) = copy[c].revision - 1 BY <1>2 DEF ReadAt
  <2>2. QED BY <1>1, <1>2, <1>3, <2>1 DEF RevisionMatches, CopyInv
<1>7. ASSUME NEW p \in Posts, NoEdit(p)' PROVE PublishedOnce(p)'
  <2>1. NoEdit(p) BY <1>3, <1>7 DEF NoEdit, Kind, Post
  <2>2. CASE p # Post(c)
    <3>1. posts'[p].status \in {posts[p].status, "absent"} /\ posts'[p].text = posts[p].text
      BY <1>5, <2>2
    <3>2. ~HasPublished(c, p)' /\ ~Publishes(c, p)' /\ ~(pc'[c] \in {"reread", "write"})
      BY <1>5, <2>2 DEF HasPublished, Publishes
    <3>3. QED BY <1>5, <1>7, <2>1, <3>1, <3>2, PublishedKept
  <2>3. CASE p = Post(c)
    <3>1. \A d \in Commands : ~HasPublished(d, p)
      BY <1>1, <1>6, <2>1, <2>3 DEF PublishedInv, PublishedOnce, Exists
    <3>2. \A d \in Commands : HasPublished(d, p)' => d = c
      BY <1>5, <3>1 DEF HasPublished, Same, Kind, Post
    <3>3. posts'[p].status = "published" BY <1>2, <1>5, <2>3
    <3>4. Publishes(c, p) BY <1>2, <2>3 DEF Publishes
    <3>5. ~(p \in Commands /\ Kind(p) = "new" /\ pc[p] \in {"reread", "write"})
      BY <1>1, <2>1, <3>4 DEF PublishedInv, PublishedOnce
    <3>6. ~(p \in Commands /\ Kind(p)' = "new" /\ pc'[p] \in {"reread", "write"})
      BY <1>5, <3>5 DEF Same, Kind
    <3>7. QED BY <3>2, <3>3, <3>6 DEF PublishedOnce
  <2>4. QED BY <2>2, <2>3
<1>8. QED BY <1>5, <1>7 DEF CommandInv, PublishedInv

\* A post is made, and its row was nobody's.
LEMMA CreateKeeps ==
  ASSUME CommandInv, NEW c \in Commands, Create(c)
  PROVE  CommandInv'
<1>1. TypeOK /\ Kept(c) /\ Asked(c) /\ Placed(c) /\ UnbornInv BY DEF CommandInv, Kept
<1>2. pc[c] = "create" /\ Kind(c) = "new" /\ did[c] = {} /\ c \in Posts /\ pc[c] \in Steps
  BY <1>1, Constants DEF Create, Placed, Steps
<1>3. Unborn(c) BY <1>2 DEF Unborn
<1>4. cmd[c].slug \in Slugs /\ c \in Writers BY <1>1, <1>2 DEF TypeOK, Cmd, Writers
<1>5. /\ NewRow(c) \in Row /\ NewRow(c).status = "idea" /\ NewRow(c).text = Nobody
      /\ [NewRow(c) EXCEPT !.text = c] \in Row /\ [NewRow(c) EXCEPT !.text = c].status = "idea"
  <2>1. NoRow \in Row /\ NoRow.text = Nobody /\ "idea" \in Statuses BY Constants DEF NoRow
  <2>2. NewRow(c) \in Row /\ NewRow(c).status = "idea" /\ NewRow(c).text = Nobody
    <3> HIDE DEF NoRow
    <3>1. /\ [NoRow EXCEPT !.status = "idea", !.slug = cmd[c].slug, !.title = c, !.tags = c]
               \in Row
          /\ [NoRow EXCEPT !.status = "idea", !.slug = cmd[c].slug, !.title = c,
                          !.tags = c].status = "idea"
          /\ [NoRow EXCEPT !.status = "idea", !.slug = cmd[c].slug, !.title = c,
                          !.tags = c].text = Nobody
      BY <1>4, <2>1 DEF Row
    <3>2. QED BY <3>1 DEF NewRow
  <2>3. c \in Writers BY DEF Writers, Posts
  <2>4. /\ [NewRow(c) EXCEPT !.text = c] \in Row
        /\ [NewRow(c) EXCEPT !.text = c].status = "idea"
    BY <2>2, <2>3 DEF Row
  <2>5. QED BY <2>2, <2>4
<1>6. /\ posts' = UpdateRow(posts, c, NewRow(c)) /\ did' = [did EXCEPT ![c] = @ \cup {"created"}]
      /\ Touch(c, c, FALSE) /\ UNCHANGED <<storage, token, cmd, says, faults>>
  BY DEF Create, Put
<1>7. /\ posts' \in [Posts -> Row] /\ posts'[c] = NewRow(c)
      /\ \A q \in Posts \ {c} : posts'[q] = posts[q]
      /\ did' \in [Commands -> SUBSET Effects]
      /\ did'[c] = {"created"} /\ \A d \in Commands \ {c} : did'[d] = did[d]
  <2>1. posts' \in [Posts -> Row] /\ posts'[c] = NewRow(c)
        /\ \A q \in Posts \ {c} : posts'[q] = posts[q]
    BY <1>1, <1>2, <1>5, <1>6 DEF TypeOK, UpdateRow
  <2>2. /\ did' \in [Commands -> SUBSET Effects]
        /\ did'[c] = {"created"} /\ \A d \in Commands \ {c} : did'[d] = did[d]
    BY <1>1, <1>2, <1>6 DEF TypeOK, Effects
  <2>3. QED BY <2>1, <2>2
<1>8. /\ seen' \in [Commands -> [absent : BOOLEAN, changed : BOOLEAN, fault : BOOLEAN]]
      /\ seen'[c] = seen[c] /\ \A d \in Commands \ {c} : Learns(d)
  BY <1>1, <1>6, TouchTeaches
<1>9. \/ /\ Answer(c, 201, "post") /\ "text" \notin cmd[c].fields
      \/ /\ copy' = [copy EXCEPT ![c] = [NewRow(c) EXCEPT !.text = c]]
         /\ pc' = [pc EXCEPT ![c] = "reread"] /\ reply' = reply
  BY DEF Create, Goto
<1>10. /\ reply' \in [Commands -> [code : Codes \cup {0}, body : Bodies]]
       /\ copy' \in [Commands -> Row]
       /\ pc' \in [Commands -> {"idle", "sent", "answered", "ended"} \cup Steps]
       /\ \A d \in Commands \ {c} : pc'[d] = pc[d] /\ copy'[d] = copy[d] /\ reply'[d] = reply[d]
       /\ pc'[c] \in {"answered", "reread"}
  <2>1. CASE Answer(c, 201, "post")
    <3>1. 201 \in Codes /\ "post" \in Bodies BY DEF Codes, Bodies
    <3>2. QED BY <1>1, <2>1, <3>1, AnswerTyped, AnswerMoves
  <2>2. CASE /\ copy' = [copy EXCEPT ![c] = [NewRow(c) EXCEPT !.text = c]]
             /\ pc' = [pc EXCEPT ![c] = "reread"] /\ reply' = reply
    BY <1>1, <1>5, <2>2 DEF TypeOK, Steps
  <2>3. QED BY <1>9, <2>1, <2>2
<1>11. TypeOK' BY <1>1, <1>6, <1>7, <1>8, <1>10 DEF TypeOK
<1>12. Kind(c)' = Kind(c) /\ Post(c)' = Post(c) BY <1>6 DEF Kind, Post
<1>13. \A d \in Commands \ {c} : Same(d) BY <1>6, <1>7, <1>10 DEF Same
<1>14. Kept(c)'
  <2>1. CASE Answer(c, 201, "post") /\ "text" \notin cmd[c].fields
    <3>1. Accomplished(c)'
      <4>1. cmd[c].fields = {} BY <1>1, <1>2, <2>1 DEF Asked
      <4>2. QED BY <1>2, <1>6, <1>7, <4>1 DEF Accomplished, AskedOf, Dropped, Kind
    <3>2. Excuse(c, 201) BY <3>1 DEF Excuse
    <3>3. cmd' = cmd /\ says' = says /\ 201 \in Codes BY <1>6 DEF Codes
    <3>4. QED BY <1>1, <1>2, <2>1, <3>2, <3>3, AnsweredIsKept
  <2>2. CASE /\ copy' = [copy EXCEPT ![c] = [NewRow(c) EXCEPT !.text = c]]
             /\ pc' = [pc EXCEPT ![c] = "reread"]
    <3>1. pc'[c] = "reread" /\ copy'[c] = [NewRow(c) EXCEPT !.text = c]
      BY <1>1, <2>2 DEF TypeOK
    <3>2. Asked(c)' BY <1>1, <1>2, <1>6, <1>12, <3>1 DEF Asked
    <3>3. Placed(c)' BY <1>1, <1>2, <1>6, <1>7, <1>12, <3>1 DEF Placed
    <3>4. Informed(c)' BY <1>2, <1>5, <1>7, <1>12, <3>1 DEF Informed, Exists, ByIdKinds
    <3>5. Answered(c)' BY <3>1 DEF Answered
    <3>6. CopyInv(c)'
      <4>1. cmd[c].fields \subseteq {"text"} BY <1>1, <1>2 DEF Asked
      <4>2. copy'[c].text = c BY <1>5, <3>1 DEF Row
      <4>3. Carries(c, copy[c])' BY <1>6, <4>1, <4>2 DEF Carries
      <4>4. QED BY <1>5, <3>1, <4>3 DEF CopyInv
    <3>7. QED BY <3>2, <3>3, <3>4, <3>5, <3>6 DEF Kept
  <2>3. QED BY <1>9, <2>1, <2>2
<1>15. \A d \in Commands : Kept(d)'
  <2>1. CreatesRow(c, c) BY <1>3, <1>7 DEF CreatesRow, Unborn
  <2>2. \A q \in Posts : RowStep(c, q) BY <1>7, <2>1 DEF RowStep
  <2>3. StepOf(c) BY <1>8, <1>13, <2>2 DEF StepOf
  <2>4. QED BY <1>14, <2>3, OthersKept
<1>16. UnbornInv'
  <2>1. (Kind(c) \in ByIdKinds)' => ~Unborn(Post(c)') BY <1>2, <1>12 DEF ByIdKinds
  <2>2. did[c] \subseteq did'[c] BY <1>2
  <2>3. QED BY <1>1, <1>13, <2>1, <2>2, UnbornKept
<1>17. ASSUME NEW p \in Posts, NoEdit(p)' PROVE PublishedOnce(p)'
  <2>1. NoEdit(p) BY <1>6, <1>17 DEF NoEdit, Kind, Post
  <2>2. ~HasPublished(c, p)' /\ ~Publishes(c, p)'
    BY <1>2, <1>10, <1>12 DEF HasPublished, Publishes
  <2>3. CASE p # c
    <3>1. PublishedOnce(p) BY <2>1 DEF CommandInv, PublishedInv
    <3>2. \A d \in Commands : /\ HasPublished(d, p)' => HasPublished(d, p)
                              /\ Publishes(d, p)' => Publishes(d, p)
      BY <1>13, <2>2 DEF HasPublished, Publishes, Same, Kind, Post
    <3>3. p \in Commands => Kind(p)' = Kind(p) /\ pc'[p] = pc[p]
      BY <1>13, <2>3 DEF Same, Kind
    <3>4. posts'[p] = posts[p] BY <1>7, <2>3
    <3>5. QED BY <3>1, <3>2, <3>3, <3>4 DEF PublishedOnce
  <2>4. CASE p = c
    <3>1. ASSUME NEW d \in Commands PROVE ~HasPublished(d, c)' /\ ~Publishes(d, c)'
      <4>1. CASE d = c BY <2>2, <2>4, <4>1
      <4>2. CASE d # c
        <5>1. ~(Kind(d) = "publish" /\ Post(d) = c)
          BY <1>1, <1>3 DEF UnbornInv, ByIdKinds
        <5>2. pc[d] \in {"send", "mark"} => Kind(d) = "publish"
          BY DEF CommandInv, Kept, Placed
        <5>3. QED BY <1>13, <4>2, <5>1, <5>2 DEF HasPublished, Publishes, Same, Kind, Post
      <4>3. QED BY <4>1, <4>2
    <3>2. QED BY <1>5, <1>7, <2>4, <3>1 DEF PublishedOnce
  <2>5. QED BY <2>3, <2>4
<1>18. QED BY <1>11, <1>15, <1>16, <1>17 DEF CommandInv, PublishedInv

LEMMA RemoveKeeps ==
  ASSUME CommandInv, NEW c \in Commands, Remove(c)
  PROVE  CommandInv'
<1>1. TypeOK /\ Kept(c) /\ Asked(c) /\ Placed(c) /\ UnbornInv BY DEF CommandInv, Kept
<1>2. pc[c] = "remove" /\ Kind(c) = "delete" /\ did[c] = {} /\ Post(c) \in Posts /\ pc[c] \in Steps
  BY <1>1 DEF Remove, Placed, Asked, ByIdKinds, Steps
<1>3. /\ posts' = DeleteRow(posts, Post(c)) /\ did' = [did EXCEPT ![c] = @ \cup {"removed"}]
      /\ Touch(c, Post(c), TRUE) /\ Answer(c, 204, "empty")
      /\ UNCHANGED <<storage, token, cmd, says, faults>>
  BY DEF Remove
<1>4. /\ posts' \in [Posts -> Row] /\ \A q \in Posts \ {Post(c)} : posts'[q] = posts[q]
      /\ posts'[Post(c)].status = "absent" /\ posts'[Post(c)].text = posts[Post(c)].text
      /\ posts'[Post(c)].revision = posts[Post(c)].revision
  <2>1. posts[Post(c)] \in Row BY <1>1, <1>2, ReadTyped
  <2>2. posts' = [posts EXCEPT ![Post(c)] = [posts[Post(c)] EXCEPT !.status = "absent"]]
    BY <1>3 DEF DeleteRow
  <2>3. DEFINE row == [posts[Post(c)] EXCEPT !.status = "absent"]
  <2>4. /\ row \in Row /\ row.status = "absent" /\ row.text = posts[Post(c)].text
        /\ row.revision = posts[Post(c)].revision
    BY <2>1 DEF Row
  <2> HIDE DEF row
  <2>5. posts \in [Posts -> Row] /\ posts' = [posts EXCEPT ![Post(c)] = row]
    BY <1>1, <2>2 DEF TypeOK, row
  <2>6. QED BY <1>2, <2>4, <2>5
<1>5. /\ did' \in [Commands -> SUBSET Effects]
      /\ did'[c] = {"removed"} /\ \A d \in Commands \ {c} : did'[d] = did[d]
  BY <1>1, <1>2, <1>3 DEF TypeOK, Effects
<1>6. /\ seen' \in [Commands -> [absent : BOOLEAN, changed : BOOLEAN, fault : BOOLEAN]]
      /\ \A d \in Commands \ {c} :
           /\ Learns(d)
           /\ Running(d) /\ (Post(d) = Post(c) \/ d = Post(c)) =>
                seen'[d].changed /\ seen'[d].absent
  <2>1. Touch(c, Post(c), TRUE) /\ TRUE \in BOOLEAN BY <1>3
  <2>2. /\ seen' \in [Commands -> [absent : BOOLEAN, changed : BOOLEAN, fault : BOOLEAN]]
        /\ \A d \in Commands \ {c} :
             /\ Learns(d)
             /\ Running(d) /\ (Post(d) = Post(c) \/ d = Post(c)) =>
                  seen'[d].changed /\ (TRUE => seen'[d].absent)
    BY <1>1, <2>1, TouchTeaches, ZenonT(40)
  <2>3. QED BY <2>2
<1>7. 204 \in Codes /\ "empty" \in Bodies BY DEF Codes, Bodies
<1>8. /\ reply' \in [Commands -> [code : Codes \cup {0}, body : Bodies]]
      /\ copy' \in [Commands -> Row]
      /\ pc' \in [Commands -> {"idle", "sent", "answered", "ended"} \cup Steps]
      /\ pc'[c] = "answered"
      /\ \A d \in Commands \ {c} : pc'[d] = pc[d] /\ copy'[d] = copy[d] /\ reply'[d] = reply[d]
  BY <1>1, <1>3, <1>7, AnswerTyped, AnswerMoves
<1>9. TypeOK' BY <1>1, <1>3, <1>4, <1>5, <1>6, <1>8 DEF TypeOK
<1>10. Kind(c)' = Kind(c) /\ Post(c)' = Post(c) BY <1>3 DEF Kind, Post
<1>11. \A d \in Commands \ {c} : Same(d) BY <1>3, <1>5, <1>8 DEF Same
<1>12. Kept(c)'
  <2>1. Accomplished(c)' BY <1>2, <1>5, <1>10 DEF Accomplished, AskedOf, Dropped
  <2>2. Excuse(c, 204) BY <2>1 DEF Excuse
  <2>3. cmd' = cmd /\ says' = says /\ Answer(c, 204, "empty") BY <1>3
  <2>4. QED BY <1>1, <1>2, <1>7, <2>2, <2>3, AnsweredIsKept
<1>13. \A d \in Commands : Kept(d)'
  <2>1. RemovesRow(c, Post(c)) BY <1>4, <1>6 DEF RemovesRow, Exists
  <2>2. \A q \in Posts : RowStep(c, q) BY <1>4, <2>1 DEF RowStep
  <2>3. StepOf(c) BY <1>6, <1>11, <2>2 DEF StepOf
  <2>4. QED BY <1>12, <2>3, OthersKept
<1>14. UnbornInv'
  <2>1. (Kind(c) \in ByIdKinds)' => ~Unborn(Post(c)') BY <1>1, <1>10 DEF UnbornInv
  <2>2. did[c] \subseteq did'[c] BY <1>2
  <2>3. QED BY <1>1, <1>11, <2>1, <2>2, UnbornKept
<1>15. ASSUME NEW p \in Posts, NoEdit(p)' PROVE PublishedOnce(p)'
  <2>1. NoEdit(p) BY <1>3, <1>15 DEF NoEdit, Kind, Post
  <2>2. ~HasPublished(c, p)' /\ ~Publishes(c, p)' /\ ~(pc'[c] \in {"reread", "write"})
    BY <1>2, <1>8, <1>10 DEF HasPublished, Publishes
  <2>3. posts'[p].status \in {posts[p].status, "absent"} /\ posts'[p].text = posts[p].text
    BY <1>4
  <2>4. QED BY <1>11, <1>15, <2>1, <2>2, <2>3, PublishedKept
<1>16. QED BY <1>9, <1>13, <1>14, <1>15 DEF CommandInv, PublishedInv

-------------------------------------------------------------------------------
(* The theorems.                                                           *)

LEMMA CommandsInit == Init => CommandInv
<1>1. SUFFICES ASSUME Init PROVE CommandInv OBVIOUS
<1>2. TypeOK
  <2>1. posts \in [Posts -> Row]
    <3>1. PICK slug \in [FirstPosts -> Slugs], st \in [FirstPosts -> {"draft", "ready"}] :
            posts = [p \in Posts |->
              IF p \in FirstPosts
              THEN [status |-> st[p], revision |-> 1, text |-> p, title |-> p, tags |-> p,
                    slug |-> slug[p]] ELSE NoRow]
      BY <1>1, Zenon DEF Init
    <3>2. ASSUME NEW p \in Posts PROVE posts[p] \in Row
      <4>1. CASE p \in FirstPosts
        <5>1. posts[p] = [status |-> st[p], revision |-> 1, text |-> p, title |-> p, tags |-> p,
                        slug |-> slug[p]]
          BY <3>1, <4>1
        <5>2. st[p] \in Statuses /\ slug[p] \in Slugs /\ p \in Writers
          BY <4>1 DEF Statuses, Writers
        <5>3. QED BY <5>1, <5>2 DEF Row
      <4>2. CASE p \notin FirstPosts BY <3>1, <4>2, Constants
      <4>3. QED BY <4>1, <4>2
    <3>3. QED BY <3>1, <3>2
  <2>2. NoCmd \in Cmd
    BY Constants DEF NoCmd, Cmd, Writers
  <2>3. NoReply \in [code : Codes \cup {0}, body : Bodies] BY DEF NoReply, Bodies
  <2>4. Unseen \in [absent : BOOLEAN, changed : BOOLEAN, fault : BOOLEAN] BY DEF Unseen
  <2>7. storage \in {"sqlite", "postgres"} /\ token \in BOOLEAN /\ faults \in 0..MaxFaults
    <3>1. storage \in {"sqlite", "postgres"} /\ token = TRUE /\ faults = 0
      BY <1>1, Zenon DEF Init
    <3>2. token \in BOOLEAN BY <3>1, Zenon
    <3>3. faults \in 0..MaxFaults BY <3>1, RemoteAssumption
    <3>4. QED BY <3>1, <3>2, <3>3, Zenon
  <2>5. /\ pc = [c \in Commands |-> "idle"] /\ cmd = [c \in Commands |-> NoCmd]
        /\ copy = [c \in Commands |-> NoRow] /\ reply = [c \in Commands |-> NoReply]
        /\ says = [c \in Commands |-> ""] /\ did = [c \in Commands |-> {}]
        /\ seen = [c \in Commands |-> Unseen]
    BY <1>1 DEF Init
  <2>6. QED BY <2>1, <2>2, <2>3, <2>4, <2>5, <2>7, Constants DEF TypeOK
<1>3. /\ \A c \in Commands : pc[c] = "idle" /\ cmd[c] = NoCmd /\ says[c] = "" /\ did[c] = {}
      /\ NoCmd.kind = "none"
  BY <1>1 DEF Init, NoCmd
<1>4. ASSUME NEW c \in Commands PROVE Kept(c)
  BY <1>3 DEF Kept, Asked, Placed, Informed, Answered, CopyInv, Steps
<1>5. UnbornInv BY <1>3 DEF UnbornInv, Kind, ByIdKinds
<1>6. PublishedInv BY <1>3 DEF PublishedInv, PublishedOnce, HasPublished, Kind
<1>7. QED BY <1>2, <1>4, <1>5, <1>6 DEF CommandInv

LEMMA CommandsNext == CommandInv /\ [Next]_vars => CommandInv'
<1>1. SUFFICES ASSUME CommandInv, [Next]_vars PROVE CommandInv' OBVIOUS
<1>2. ASSUME UNCHANGED <<posts, storage, pc, cmd, copy, reply, says, faults, did, seen>>,
             token' \in BOOLEAN
      PROVE  CommandInv'
  <2>1. TypeOK' BY <1>1, <1>2 DEF CommandInv, TypeOK
  <2>2. ASSUME NEW c \in Commands PROVE Kept(c)'
    <3>1. Kept(c) /\ Kind(c)' = Kind(c) /\ Post(c)' = Post(c)
      BY <1>1, <1>2 DEF CommandInv, Kind, Post
    <3>2. Asked(c)' /\ Placed(c)' BY <1>2, <3>1 DEF Kept, Asked, Placed
    <3>3. Informed(c)' BY <1>2, <3>1 DEF Kept, Informed, Exists, RevisionMatches
    <3>4. Answered(c)'
      <4>1. Output(c)' = Output(c) BY <1>2, <3>1 DEF Output
      <4>2. ASSUME NEW out, Truthful(c, out) PROVE Truthful(c, out)'
        BY <1>2, <3>1, <4>2 DEF Truthful, Accomplished, AskedOf, Dropped
      <4>3. QED BY <1>2, <3>1, <4>1, <4>2 DEF Kept, Answered
    <3>5. CopyInv(c)' BY <1>2, <3>1 DEF Kept, CopyInv, Carries, ReadAt, Exists
    <3>6. QED BY <3>2, <3>3, <3>4, <3>5 DEF Kept
  <2>3. UnbornInv' BY <1>1, <1>2 DEF CommandInv, UnbornInv, Unborn, Kind, Post
  <2>4. PublishedInv'
    BY <1>1, <1>2 DEF CommandInv, PublishedInv, PublishedOnce, NoEdit, HasPublished, Publishes,
                      Kind, Post
  <2>5. QED BY <2>1, <2>2, <2>3, <2>4 DEF CommandInv
<1>3. CASE UNCHANGED vars
  BY <1>1, <1>2, <1>3 DEF vars, CommandInv, TypeOK
<1>4. CASE Revoke BY <1>2, <1>4 DEF Revoke
<1>5. ASSUME NEW c \in Commands,
             \/ \E k \in Kinds, b \in Bases : \E ask \in Asks(k) : Start(c, k, ask, b)
             \/ Serve(c) \/ Hear(c) \/ Lose(c)
      PROVE  CommandInv'
  <2>1. CASE \E k \in Kinds, b \in Bases : \E ask \in Asks(k) : Start(c, k, ask, b)
    BY <1>1, <2>1, StartKeeps
  <2>2. CASE Hear(c) \/ Lose(c) BY <1>1, <2>2, EndKeeps
  <2>3. CASE Refuses(c) BY <1>1, <2>3, RefusesKeeps
  <2>4. CASE Dispatch(c) \/ (ReadPost(c) /\ Kind(c) # "show") \/ ReadStatus(c) \/ Reread(c)
             \/ ReadToPublish(c) \/ Send(c)
    BY <1>1, <2>4, DispatchKeeps, ReadPostKeeps, ReadStatusKeeps, RereadKeeps,
       ReadToPublishKeeps, SendKeeps
  <2>5. CASE Create(c) \/ Move(c) \/ Write(c) \/ Remove(c) \/ Mark(c)
    BY <1>1, <2>5, CreateKeeps, MoveKeeps, WriteKeeps, RemoveKeeps, MarkKeeps
  <2>6. QED BY <1>5, <2>1, <2>2, <2>3, <2>4, <2>5 DEF Serve, Refuses
<1>6. QED BY <1>1, <1>3, <1>4, <1>5 DEF Next

\* What a command says is what its answer entitles it to.
LEMMA CommandsSpeak ==
  ASSUME CommandInv, NEW c \in Commands, says[c] # ""
  PROVE  pc[c] = "ended" /\ Truthful(c, says[c])
BY DEF CommandInv, Kept, Placed, Answered

\* Whatever happens between the request and the answer, a command that says it is
\* done has done all it was asked for (DoneIsTrue).
THEOREM DoneIsDone == Spec => []DoneIsTrue
<1>1. CommandInv => DoneIsTrue
  <2>1. ASSUME CommandInv, NEW c \in Commands, says[c] = "done" PROVE Accomplished(c)
    BY <2>1, CommandsSpeak DEF Truthful
  <2>2. QED BY <2>1 DEF DoneIsTrue, CommandInv
<1>2. QED BY <1>1, CommandsInit, CommandsNext, PTL DEF Spec

\* A command that says it was refused has left no trace, and one that says there is
\* no such post is right at some moment (RefusedIsTrue).
THEOREM RefusedIsRefused == Spec => []RefusedIsTrue
<1>1. CommandInv => RefusedIsTrue
  BY CommandsSpeak DEF RefusedIsTrue, Truthful, Refusals
<1>2. QED BY <1>1, CommandsInit, CommandsNext, PTL DEF Spec

\* Of any number of publications of a post that nobody edits one says it is done
\* (OneSaysPublished).
THEOREM OnePublicationIsDone == Spec => []OneSaysPublished
<1>1. ASSUME CommandInv PROVE OneSaysPublished
  <2>1. SUFFICES ASSUME NEW c \in Commands, NEW d \in Commands, c # d,
                        says[c] = "done", says[d] = "done",
                        Kind(c) = "publish", Kind(d) = "publish",
                        Post(c) = Post(d), NoEdit(Post(c))
                 PROVE  FALSE
    BY DEF OneSaysPublished, NoEdit
  <2>2. pc[c] = "ended" /\ Accomplished(c) /\ Accomplished(d)
    BY <1>1, <2>1, CommandsSpeak DEF Truthful
  <2>3. "published" \in did[c] /\ "published" \in did[d]
    BY <2>1, <2>2 DEF Accomplished, AskedOf, Dropped
  <2>4. Post(c) \in Posts
    BY <1>1, <2>1, <2>2 DEF CommandInv, Kept, Asked, ByIdKinds
  <2>5. PublishedOnce(Post(c)) BY <1>1, <2>1, <2>4 DEF CommandInv, PublishedInv
  <2>6. QED BY <2>1, <2>3, <2>5 DEF PublishedOnce, HasPublished
<1>2. QED BY <1>1, CommandsInit, CommandsNext, PTL DEF Spec

===============================================================================
