------------------------------ MODULE PostEditing ------------------------------
(***************************************************************************)
(* What requests do to stored posts: the REST handlers that create, patch, *)
(* publish and delete a post, the save form of the web UI and the commands *)
(* "status" and "publish", down to PostService and the SQL repositories.   *)
(*                                                                         *)
(* Every request works on a copy of the row it has read; a request takes   *)
(* one SQL statement or one network call per step, so requests of several  *)
(* users interleave between any two of their statements.                   *)
(***************************************************************************)
EXTENDS PostTable

CONSTANTS
  Requests,       \* requests, of any kind and by any user
  Posts,          \* ids of posts
  Kinds,          \* the kinds of request that come in
  Targets,        \* the statuses they ask for
  FirstStatuses,  \* the statuses of the posts they find
  SqlMayFail,     \* can an SQL statement fail?
  Keep,           \* the value of a field a request does not mention
  Original,       \* the value a field has before any request
  Blank           \* the empty text

AllKinds == {"create", "patch", "save", "setstatus", "publish", "clipublish", "delete"}

ASSUME EditingAssumption ==
  /\ Kinds \subseteq AllKinds
  /\ Targets \subseteq Statuses
  /\ FirstStatuses \subseteq Statuses
  /\ SqlMayFail \in BOOLEAN
  /\ Keep \notin Requests \cup {Original, Blank} \cup Statuses
  /\ Original # Blank
  /\ {Original, Blank} \cap Requests = {}

VARIABLES
  posts,  \* posts[p]: the row of post p
  pc,     \* pc[r]: the statement request r executes next, or its answer
  req,    \* req[r]: what request r asks for
  copy,   \* copy[r]: the post as request r holds it in memory
  \* History, which no action of the code reads:
  base    \* base[r]: the row request r made its copy from

vars == <<posts, pc, req, copy, base>>

\* A field is named after the request that wrote it: two requests never write
\* the same text, and nothing depends on what the text is.  The url is the link
\* to the message that a request sent to Telegram.
Values  == Requests \cup {Original, Blank}
Fields  == {"title", "tags", "content", "url", "status"}
PostRow == [status : Statuses \cup {"absent"}, revision : Nat,
            title : Values, tags : Values, content : Values, url : Values]
Unused  == [status |-> "absent", revision |-> 0,
            title |-> Blank, tags |-> Blank, content |-> Blank, url |-> Blank]

Change   == [title : Values \cup {Keep}, tags : Values \cup {Keep},
             content : Values \cup {Keep}, url : Values \cup {Keep},
             status : Statuses \cup {Keep}]
NoChange == [f \in Fields |-> Keep]
Request  == [kind : AllKinds \cup {"none"}, post : Posts, change : Change]

Busy    == {"load", "insert", "delete", "readstatus", "send", "commit", "reread",
            "update"}
Answers == {"ok", "refused"}

TypeOK ==
  /\ posts \in [Posts -> PostRow]
  /\ pc \in [Requests -> Busy \cup Answers \cup {"idle"}]
  /\ req \in [Requests -> Request]
  /\ copy \in [Requests -> PostRow]
  /\ base \in [Requests -> PostRow]

Init ==
  /\ posts \in [Posts -> {Unused} \cup
       [status : FirstStatuses, revision : {1}, title : {Original},
        tags : {Original}, content : {Original}, url : {Blank}]]
  /\ pc = [r \in Requests |-> "idle"]
  /\ \E p \in Posts :
       req = [r \in Requests |-> [kind |-> "none", post |-> p, change |-> NoChange]]
  /\ copy = [r \in Requests |-> Unused]
  /\ base = [r \in Requests |-> Unused]

-------------------------------------------------------------------------------
(* Requests and what they ask for.                                         *)

\* The body of a request of kind k.  PATCH sets the fields it names; the form
\* always carries all of its fields; publishing sets the link and, through the
\* API, the status.
Bodies(k, r) ==
  CASE k = "create" ->
         [title : {Blank, r}, tags : {Keep, r}, content : {Keep, r},
          url : {Keep}, status : {Keep}]
    [] k = "patch" ->
         [title : {Keep, Blank, r}, tags : {Keep, r}, content : {Keep, r},
          url : {Keep}, status : Targets \cup {Keep}]
    [] k = "save" ->
         [title : {Blank, r}, tags : {r}, content : {Blank, r},
          url : {Keep}, status : Targets]
    [] k = "setstatus" ->
         [title : {Keep}, tags : {Keep}, content : {Keep}, url : {Keep},
          status : Targets]
    [] k = "publish" ->
         [title : {Keep}, tags : {Keep}, content : {Keep}, url : {r},
          status : {"published"}]
    [] k = "clipublish" ->
         [title : {Keep}, tags : {Keep}, content : {Keep}, url : {r},
          status : {Keep}]
    [] k = "delete" -> {NoChange}

\* What the handler sets before and after it changes the status.
EarlyFields(k) == IF k = "patch" THEN {"title"}
                  ELSE IF k = "save" THEN {"title", "content", "tags"} ELSE {}
LateFields(k)  == IF k = "patch" THEN {"tags", "content"}
                  ELSE IF k = "save" THEN {"title", "content"} ELSE {}
\* Fault: publishing does not set the status.
LinkOnly(k)    == {"url"}
SentFields(k)  == IF k = "publish" THEN {"url", "status"} ELSE {"url"}

Apply(fields, c, post) ==
  [f \in DOMAIN post |-> IF f \in fields /\ c[f] # Keep THEN c[f] ELSE post[f]]

Kind(r)   == req[r].kind
Post(r)   == req[r].post
Asks(r)   == req[r].change
Stored(r) == posts[Post(r)]

\* The fields a request is meant to change.
Named(r) == {f \in Fields : Asks(r)[f] # Keep}

Goto(r, l)         == pc' = [pc EXCEPT ![r] = l]
Hold(r, post)      == copy' = [copy EXCEPT ![r] = post]
BasedOn(r, post)   == base' = [base EXCEPT ![r] = post]
Entry(k) == CASE k = "create"    -> "insert"
              [] k = "delete"    -> "delete"
              [] k = "setstatus" -> "readstatus"
              [] OTHER           -> "load"

\* A request comes in.  A created post gets an id of its own.
Receive(r, k, p, c) ==
  /\ pc[r] = "idle"
  /\ k = "create" => /\ posts[p] = Unused
                     /\ \A q \in Requests : Kind(q) = "create" => Post(q) # p
  /\ req' = [req EXCEPT ![r] = [kind |-> k, post |-> p, change |-> c]]
  /\ Goto(r, Entry(k))
  /\ UNCHANGED <<posts, copy, base>>

\* A handler that only logs the error of its last update answers as if there
\* had been none.
Refuse(r) ==
  /\ Goto(r, IF Kind(r) = "create" /\ pc[r] # "insert" THEN "ok" ELSE "refused")
  /\ UNCHANGED <<posts, req, copy, base>>

\* A statement fails, or Telegram refuses the message.  A request whose process
\* dies takes no further step, which Spec allows anywhere.
Fail(r) ==
  /\ pc[r] \in Busy
  /\ pc[r] = "send" \/ SqlMayFail
  /\ Refuse(r)

-------------------------------------------------------------------------------
(* The handlers' own steps.                                                *)

\* What the handler checks on the post it has loaded.
Acceptable(r) ==
  /\ Exists(posts, Post(r))
  /\ Kind(r) = "save" => Asks(r).title # Blank
  /\ Kind(r) = "publish" => Stored(r).status # "published" /\ Stored(r).content # Blank
  /\ Kind(r) = "clipublish" => Stored(r).status \in {"ready", "scheduled"}

ChangesStatus(r) ==
  /\ Asks(r).status # Keep
  /\ Kind(r) = "save" => Asks(r).status # Stored(r).status

AfterLoad(r) ==
  IF Kind(r) \in {"publish", "clipublish"} THEN "send"
  ELSE IF ChangesStatus(r)                 THEN "readstatus" ELSE "reread"

Load(r) ==
  LET early == EarlyFields(Kind(r))
      late  == IF AfterLoad(r) = "reread" THEN LateFields(Kind(r)) ELSE {}
  IN
  /\ pc[r] = "load"
  /\ Acceptable(r)
  /\ Hold(r, Apply(early \cup late, Asks(r), Stored(r)))
  /\ BasedOn(r, Stored(r))
  /\ Goto(r, AfterLoad(r))
  /\ UNCHANGED <<posts, req>>

LoadRefused(r) ==
  /\ pc[r] = "load"
  /\ ~Acceptable(r)
  /\ Refuse(r)

\* createPost inserts a bare post and adds the content with an update.
Insert(r) ==
  LET row == Apply({"title", "tags"}, Asks(r),
                   [Unused EXCEPT !.status = "idea", !.revision = 1])
  IN
  /\ pc[r] = "insert"
  /\ Asks(r).title # Blank
  /\ posts' = UpdateRow(posts, Post(r), row)
  /\ Hold(r, Apply({"content"}, Asks(r), row))
  /\ BasedOn(r, row)
  /\ Goto(r, IF Asks(r).content = Keep THEN "ok" ELSE "reread")
  /\ UNCHANGED req

InsertRefused(r) ==
  /\ pc[r] = "insert"
  /\ Asks(r).title = Blank
  /\ Refuse(r)

\* Telegram accepts the message; PublishPost commits at once, the command
\* "publish" goes through UpdatePost.
Send(r) ==
  /\ pc[r] = "send"
  /\ Hold(r, Apply(SentFields(Kind(r)), Asks(r), copy[r]))
  /\ Goto(r, IF Kind(r) = "publish" THEN "commit" ELSE "reread")
  /\ UNCHANGED <<posts, req, base>>

\* Deleting a post that is not there succeeds as well.
Delete(r) ==
  /\ pc[r] = "delete"
  /\ posts' = DeleteRow(posts, Post(r))
  /\ Goto(r, "ok")
  /\ UNCHANGED <<req, copy, base>>

-------------------------------------------------------------------------------
(* PostService: UpdateStatus with its commit, and UpdatePost.              *)

MayTransit(r) ==
  /\ Exists(posts, Post(r))
  /\ IsTransitionAllowed(Stored(r).status, Asks(r).status)

\* UpdateStatus works on a fresh copy, not on the one the handler has changed.
ReadStatus(r) ==
  /\ pc[r] = "readstatus"
  /\ MayTransit(r)
  /\ Hold(r, WithStatus(Stored(r), Asks(r).status))
  /\ BasedOn(r, Stored(r))
  /\ Goto(r, "commit")
  /\ UNCHANGED <<posts, req>>

StatusRefused(r) ==
  /\ pc[r] = "readstatus"
  /\ ~MayTransit(r)
  /\ Refuse(r)

\* updateInternal: the row may not have changed since the copy was read.  A
\* handler with more to set goes on with the post it gets back.
Commit(r) ==
  LET new == NextRevision(copy[r]) IN
  /\ pc[r] = "commit"
  /\ RevisionMatches(posts, Post(r), new)
  /\ posts' = UpdateRow(posts, Post(r), new)
  /\ Hold(r, Apply(LateFields(Kind(r)), Asks(r), new))
  /\ BasedOn(r, new)
  /\ Goto(r, IF Kind(r) \in {"patch", "save"} THEN "reread" ELSE "ok")
  /\ UNCHANGED req

\* UpdatePost reads the row again, but only to take the revision from it.
Reread(r) ==
  /\ pc[r] = "reread"
  /\ copy[r].title # Blank
  /\ Exists(posts, Post(r))
  /\ Hold(r, Rebased(copy[r], Stored(r)))
  /\ Goto(r, "update")
  /\ UNCHANGED <<posts, req, base>>

RereadRefused(r) ==
  /\ pc[r] = "reread"
  /\ copy[r].title = Blank \/ ~Exists(posts, Post(r))
  /\ Refuse(r)

Update(r) ==
  LET new == NextRevision(copy[r]) IN
  /\ pc[r] = "update"
  /\ RevisionMatches(posts, Post(r), new)
  /\ posts' = UpdateRow(posts, Post(r), new)
  /\ Goto(r, "ok")
  /\ UNCHANGED <<req, copy, base>>

\* ErrConflict or ErrNotFound.
Conflict(r) ==
  /\ pc[r] \in {"commit", "update"}
  /\ ~RevisionMatches(posts, Post(r), NextRevision(copy[r]))
  /\ Refuse(r)

-------------------------------------------------------------------------------
Step(r) ==
  \/ \E k \in Kinds, p \in Posts : \E c \in Bodies(k, r) : Receive(r, k, p, c)
  \/ Fail(r)
  \/ Load(r)       \/ LoadRefused(r)
  \/ Insert(r)     \/ InsertRefused(r)
  \/ Send(r)       \/ Delete(r)
  \/ ReadStatus(r) \/ StatusRefused(r)
  \/ Commit(r)     \/ Conflict(r)
  \/ Reread(r)     \/ RereadRefused(r)
  \/ Update(r)

Next == \E r \in Requests : Step(r)

Spec == Init /\ [][Next]_vars

-------------------------------------------------------------------------------
(* The invariant behind the properties: what a copy in memory still has to *)
(* do with the row it was made from.                                       *)

\* Request r holds a copy that it is going to store.
Editing(r) == pc[r] \in {"send", "commit", "reread", "update"}

\* The row has moved on from the one the copy was made from, or it is still
\* that row; an equal revision tells the two cases apart.
BaseKnown(r) ==
  /\ 0 < base[r].revision /\ base[r].revision <= Stored(r).revision
  /\ Exists(posts, Post(r)) /\ base[r].revision = Stored(r).revision =>
       base[r] = Stored(r)

CopyFaithful(r) ==
  /\ \A f \in Fields \ Named(r) : copy[r][f] = base[r][f]
  /\ pc[r] \in {"send", "commit"} => copy[r].revision = base[r].revision
  /\ pc[r] = "send" => Kind(r) \in {"publish", "clipublish"}
  /\ pc[r] = "commit" /\ Kind(r) # "publish" =>
       IsTransitionAllowed(base[r].status, copy[r].status)

\* Nobody else knows the id of a post that is being created.
CreatesAlone(r) ==
  /\ pc[r] = "insert" => Kind(r) = "create" /\ Stored(r) = Unused
  /\ \A q \in Requests : Kind(r) = "create" /\ Kind(q) = "create" /\ Post(q) = Post(r)
                          => q = r

\* A copy differs from the row it was made from in the fields its request
\* names, and that row is the stored one as long as the revision is the same.
CopiesAreFaithful ==
  /\ \A p \in Posts : Exists(posts, p) => posts[p].revision > 0
  /\ \A r \in Requests : CreatesAlone(r)
  /\ \A r \in Requests : Editing(r) => BaseKnown(r) /\ CopyFaithful(r)

-------------------------------------------------------------------------------
(* Properties.                                                             *)

\* Request r replaces the stored row in this step.
Writes(r) == pc[r] \in {"commit", "update"} /\ pc'[r] # pc[r] /\ posts' # posts

Untouched(r) == \A f \in Fields \ Named(r) : posts'[Post(r)][f] = Stored(r)[f]

\* Every update advances the revision by exactly one, so a revision number
\* never names two different states of a post, however requests interleave
\* (foundation-domain-config, property 3).
RevisionCountsUpdates ==
  [][\A p \in Posts : posts'[p] # posts[p] =>
       \/ posts'[p] = DeleteRow(posts, p)[p]
       \/ posts'[p].revision = posts[p].revision + 1]_vars

\* A deleted post is never brought back by a request that had loaded it
\* before, whatever it does to its copy.
DeletedStaysDeleted ==
  [][\A p \in Posts :
       ~Exists(posts, p) /\ posts[p].revision > 0 => posts'[p] = posts[p]]_vars

\* What goes through updateInternal - UpdateStatus and PublishPost - loses
\* nothing that somebody else stored meanwhile: the link and the status are
\* all it changes, even when minutes pass in Telegram before the update.
CommitLosesNothing ==
  [][\A r \in Requests : pc[r] = "commit" /\ Writes(r) => Untouched(r)]_vars

\* UpdateStatus moves the stored status along the table of transitions, and
\* not the status somebody saw some time ago.
StatusFollowsTable ==
  [][\A r \in Requests : pc[r] = "commit" /\ Writes(r) /\ Kind(r) # "publish" =>
       IsTransitionAllowed(Stored(r).status, posts'[Post(r)].status)]_vars

\* UpdatePost loses nothing if nobody has written the post since the request
\* took its copy: fields the request does not name keep what is stored.
RacelessUpdateLosesNothing ==
  [][\A r \in Requests :
       pc[r] = "update" /\ Writes(r) /\ Stored(r).revision = base[r].revision =>
         Untouched(r)]_vars

\* What a request that names a status drops: a PATCH its title, the edit page its
\* tags, because both go on with the copy that UpdateStatus returns.
Dropped(r) ==
  IF Asks(r).status = Keep THEN {} ELSE EarlyFields(Kind(r)) \ LateFields(Kind(r))

\* A request that is answered with success has stored all that it asked for, but
\* for what it drops; a create stores the text in a second write, whose error is
\* only logged.
AckedIsStored ==
  [][\A r \in Requests : pc[r] \in Busy /\ pc'[r] = "ok" /\ Kind(r) # "create" =>
       \A f \in Named(r) \ Dropped(r) : posts'[Post(r)][f] = Asks(r)[f]]_vars

\* No update loses silently what another request has stored.
UpdateLosesNothing ==
  [][\A r \in Requests : Writes(r) => Untouched(r)]_vars

===============================================================================
