---------------------------- MODULE RemoteCommands ----------------------------
(***************************************************************************)
(* The commands of "jtpost --remote": the request that the generated API   *)
(* client builds, the routes and handlers of the REST API, the answer, the *)
(* types the client decodes it into, and what the command then says.       *)
(*                                                                         *)
(* A handler takes one statement of the storage per step, so the handlers  *)
(* of several commands interleave.  Requests and answers may get lost: the *)
(* client has no time limit and does not try again, but the user may.      *)
(***************************************************************************)
EXTENDS PostTable, FiniteSets

CONSTANTS
  Commands,   \* commands that users run
  Kinds,      \* and their kinds
  FirstPosts, \* posts that are there from the start
  Slugs,
  Bases,      \* what the URL after --remote ends in: "api" or "v1"
  Targets,    \* statuses that edit --status asks for
  Edits,      \* sets of other fields that edit is given together
  Nobody,     \* the writer of an empty text
  MaxFaults   \* bound: lost messages and failed statements

AllKinds == {"list", "new", "show", "edit", "delete", "publish", "stats", "plan", "next"}

\* --content, --title, --tag with tags and --tag with none.
Fields == {"text", "title", "tags", "untagged"}

ASSUME RemoteAssumption ==
  /\ Kinds \subseteq AllKinds
  /\ Bases \subseteq {"api", "v1"}
  /\ Targets \subseteq Statuses
  /\ Edits \subseteq SUBSET Fields
  /\ Commands \cap FirstPosts = {}
  /\ Nobody \notin Commands \cup FirstPosts
  /\ MaxFaults \in Nat
  /\ Slugs # {} /\ Bases # {}

VARIABLES
  posts,    \* posts[p]: the row of post p; a new post has the name of its command
  storage,  \* which database the server uses
  token,    \* is the token of the commands valid?
  pc,       \* pc[c]: where command c is
  cmd,      \* cmd[c]: what command c asks for
  copy,     \* copy[c]: the post its handler has read
  reply,    \* reply[c]: the answer of the server
  says,     \* says[c]: what command c has told the user
  faults,   \* how many faults have happened
  \* History, which no action of the code reads:
  did,      \* did[c]: what command c has done to the storage and the channel
  seen      \* seen[c]: what has happened since command c was started

vars == <<posts, storage, token, pc, cmd, copy, reply, says, faults, did, seen>>

Posts   == FirstPosts \cup Commands
Writers == Posts \cup {Nobody}
Row     == [status : Statuses \cup {"absent"}, revision : Nat \ {0}, text : Writers,
            title : Writers, tags : Writers, slug : Slugs]
Cmd     == [kind : AllKinds \cup {"none"}, post : Writers, slug : Slugs,
            fields : SUBSET Fields, target : Targets \cup {"absent"}, base : Bases \cup {"api"}]
Steps   == {"create", "read", "status", "move", "reread", "write", "remove", "publish",
            "send", "mark", "query"}
Bodies  == {"post", "posts", "stats", "plan", "json", "text", "empty"}
Codes   == {200, 201, 204, 400, 401, 404, 429, 500}
Effects == {"created", "moved", "stored", "text", "title", "tags", "removed", "sent", "published"}
Outputs == {"done", "unauthorized", "forbidden", "notfound", "rejected", "conflict",
            "server error", "call failed"}

ASlug    == CHOOSE s \in Slugs : TRUE
NoRow    == [status |-> "absent", revision |-> 1, text |-> Nobody,
             title |-> Nobody, tags |-> Nobody, slug |-> ASlug]
NoCmd    == [kind |-> "none", post |-> Nobody, slug |-> ASlug, fields |-> {},
             target |-> "absent", base |-> "api"]
NoReply  == [code |-> 0, body |-> "empty"]
Unseen   == [absent |-> FALSE, changed |-> FALSE, fault |-> FALSE]

TypeOK ==
  /\ posts \in [Posts -> Row]
  /\ storage \in {"sqlite", "postgres"}
  /\ token \in BOOLEAN
  /\ pc \in [Commands -> {"idle", "sent", "answered", "ended"} \cup Steps]
  /\ cmd \in [Commands -> Cmd]
  /\ copy \in [Commands -> Row]
  /\ reply \in [Commands -> [code : Codes \cup {0}, body : Bodies]]
  /\ says \in [Commands -> Outputs \cup {""}]
  /\ faults \in 0..MaxFaults
  /\ did \in [Commands -> SUBSET Effects]
  /\ seen \in [Commands -> [absent : BOOLEAN, changed : BOOLEAN, fault : BOOLEAN]]

Init ==
  /\ \E slug \in [FirstPosts -> Slugs], st \in [FirstPosts -> {"draft", "ready"}] :
       /\ \A p, q \in FirstPosts : slug[p] = slug[q] => p = q
       /\ posts = [p \in Posts |->
            IF p \in FirstPosts
            THEN [status |-> st[p], revision |-> 1, text |-> p, title |-> p, tags |-> p,
                  slug |-> slug[p]]
            ELSE NoRow]
  /\ storage \in {"sqlite", "postgres"}
  /\ token = TRUE
  /\ pc = [c \in Commands |-> "idle"]
  /\ cmd = [c \in Commands |-> NoCmd]
  /\ copy = [c \in Commands |-> NoRow]
  /\ reply = [c \in Commands |-> NoReply]
  /\ says = [c \in Commands |-> ""]
  /\ faults = 0
  /\ did = [c \in Commands |-> {}]
  /\ seen = [c \in Commands |-> Unseen]

-------------------------------------------------------------------------------
(* The client: the requests it builds, and the types of the answers.       *)

ListRequest    == [method |-> "GET",    path |-> "posts"]
NewRequest     == [method |-> "POST",   path |-> "posts"]
ShowRequest    == [method |-> "GET",    path |-> "post"]
EditRequest    == [method |-> "PATCH",  path |-> "post"]
DeleteRequest  == [method |-> "DELETE", path |-> "post"]
PublishRequest == [method |-> "POST",   path |-> "publish"]
StatsRequest   == [method |-> "GET",    path |-> "stats"]
PlanRequest    == [method |-> "GET",    path |-> "plan"]
NextRequest    == [method |-> "GET",    path |-> "next"]

Request(kind) ==
  CASE kind = "list"    -> ListRequest    [] kind = "new"   -> NewRequest
    [] kind = "show"    -> ShowRequest    [] kind = "edit"  -> EditRequest
    [] kind = "delete"  -> DeleteRequest  [] kind = "stats" -> StatsRequest
    [] kind = "publish" -> PublishRequest [] kind = "plan"  -> PlanRequest
    [] kind = "next"    -> NextRequest

\* The type that a JSON answer with a certain code is decoded into; an answer
\* with another code, or that is not JSON, is not decoded.  "counts" is a map
\* from strings to integers.
ListTypes    == {<<200, "posts">>, <<401, "json">>, <<500, "json">>}
NewTypes     == {<<201, "post">>, <<400, "json">>, <<401, "json">>, <<403, "json">>}
ShowTypes    == {<<200, "post">>, <<401, "json">>, <<403, "json">>, <<404, "json">>}
EditTypes    == {<<200, "post">>, <<400, "json">>, <<401, "json">>, <<403, "json">>,
                 <<404, "json">>}
DeleteTypes  == {<<401, "json">>, <<404, "json">>}
PublishTypes == {<<200, "post">>, <<400, "json">>, <<401, "json">>, <<404, "json">>}
StatsTypes   == {<<200, "counts">>, <<401, "json">>}
PlanTypes    == {<<200, "plan">>, <<401, "json">>}
NextTypes    == {<<200, "post">>, <<401, "json">>, <<404, "json">>}

Types(kind) ==
  CASE kind = "list"    -> ListTypes    [] kind = "new"   -> NewTypes
    [] kind = "show"    -> ShowTypes    [] kind = "edit"  -> EditTypes
    [] kind = "delete"  -> DeleteTypes  [] kind = "stats" -> StatsTypes
    [] kind = "publish" -> PublishTypes [] kind = "plan"  -> PlanTypes
    [] kind = "next"    -> NextTypes

IsJson(body) == body \notin {"text", "empty"}
Decodes(kind, r) ==
  IsJson(r.body) => \A t \in Types(kind) : t[1] = r.code => t[2] = r.body

-------------------------------------------------------------------------------
(* What the commands make of the code of an answer.                        *)

SaysNew(code) ==
  CASE code \in {200, 201} -> "done" [] code = 400 -> "rejected" [] code = 401 -> "unauthorized"
    [] code = 403 -> "forbidden" [] OTHER -> "server error"
SaysEdit(code) ==
  CASE code = 200 -> "done" [] code = 400 -> "rejected" [] code = 401 -> "unauthorized"
    [] code = 403 -> "forbidden" [] code = 404 -> "notfound" [] code = 409 -> "conflict"
    [] OTHER -> "server error"
SaysDelete(code) ==
  CASE code \in {200, 204} -> "done" [] code = 401 -> "unauthorized" [] code = 403 -> "forbidden"
    [] code = 404 -> "notfound" [] OTHER -> "server error"
SaysPublish(code) ==
  CASE code = 200 -> "done" [] code = 400 -> "rejected" [] code = 401 -> "unauthorized"
    [] code = 403 -> "forbidden" [] code = 404 -> "notfound" [] code = 409 -> "conflict"
    [] OTHER -> "server error"
SaysShow(code) ==
  CASE code = 200 -> "done" [] code = 401 -> "unauthorized" [] code = 404 -> "notfound"
    [] OTHER -> "server error"
SaysList(code) ==
  CASE code = 200 -> "done" [] code = 401 -> "unauthorized" [] OTHER -> "server error"
SaysStats(code) == SaysList(code)
SaysPlan(code)  == SaysList(code)
\* "next" has no post to show when it hears 404.
SaysNext(code) ==
  CASE code = 200 -> "done" [] code = 401 -> "unauthorized" [] code = 404 -> "notfound"
    [] OTHER -> "server error"

Says(kind, code) ==
  CASE kind = "new"     -> SaysNew(code)     [] kind = "edit" -> SaysEdit(code)
    [] kind = "delete"  -> SaysDelete(code)  [] kind = "show" -> SaysShow(code)
    [] kind = "publish" -> SaysPublish(code) [] kind = "next" -> SaysNext(code)
    [] kind = "stats"   -> SaysStats(code)   [] kind = "plan" -> SaysPlan(code)
    [] kind = "list"    -> SaysList(code)

-------------------------------------------------------------------------------
(* Starting a command, and hearing the answer.                             *)

Kind(c)    == cmd[c].kind
Post(c)    == cmd[c].post
Goto(c, l) == pc' = [pc EXCEPT ![c] = l]
Running(c) == pc[c] \notin {"idle", "ended"}

\* The id of a post that was there once, from a list or from the answer of "new".
Known == FirstPosts \cup {p \in Commands : "created" \in did[p]}

AskNew(slug, fields)          == [NoCmd EXCEPT !.slug = slug, !.fields = fields]
AskEdit(post, fields, target) == [NoCmd EXCEPT !.post = post, !.fields = fields, !.target = target]

NewAsks  == {AskNew(s, f) : s \in Slugs, f \in {{}, {"text"}}}
ByIdAsks == {[NoCmd EXCEPT !.post = p] : p \in Known}
\* An edit of nothing is refused before anything is sent.
EditAsks == {AskEdit(p, f, s) : p \in Known, f \in Edits, s \in Targets \cup {"absent"}} \ ByIdAsks

Asks(k) ==
  CASE k = "new" -> NewAsks
    [] k = "edit" -> EditAsks
    [] k \in {"show", "delete", "publish"} -> ByIdAsks
    [] OTHER -> {NoCmd}

At(ask, k, b) == [ask EXCEPT !.kind = k, !.base = b]

\* A command that is given the base URL b; one without URL or token is refused
\* before anything is sent.
Start(c, k, ask, b) ==
  /\ pc[c] = "idle"
  /\ Goto(c, "sent")
  /\ cmd' = [cmd EXCEPT ![c] = At(ask, k, b)]
  /\ seen' = [seen EXCEPT ![c].absent = ask.post # Nobody /\ ~Exists(posts, ask.post)]
  /\ UNCHANGED <<posts, storage, token, copy, reply, says, faults, did>>

End(c, output) ==
  /\ says' = [says EXCEPT ![c] = output]
  /\ reply' = [reply EXCEPT ![c] = NoReply]
  /\ Goto(c, "ended")
  /\ UNCHANGED <<posts, storage, token, cmd, copy, did>>

\* The whole body is read and decoded; an answer that does not fit its type is
\* an error like a connection that breaks.
Hear(c) ==
  /\ pc[c] = "answered"
  /\ End(c, IF Decodes(Kind(c), reply[c]) THEN Says(Kind(c), reply[c].code) ELSE "call failed")
  /\ UNCHANGED <<faults, seen>>

\* The request does not arrive, or the answer does not: the server cut it off,
\* after its fifteen seconds or in a restart, or the network did.
Lose(c) ==
  /\ pc[c] \in {"sent", "answered"}
  /\ faults < MaxFaults
  /\ faults' = faults + 1
  /\ seen' = [seen EXCEPT ![c].fault = TRUE]
  /\ End(c, "call failed")

-------------------------------------------------------------------------------
(* The server: middleware and routes.                                      *)

Answer(c, code, body) ==
  /\ reply' = [reply EXCEPT ![c] = [code |-> code, body |-> body]]
  /\ copy' = [copy EXCEPT ![c] = NoRow]
  /\ Goto(c, "answered")

Replies(c, code, body) ==
  Answer(c, code, body) /\ UNCHANGED <<posts, storage, token, cmd, says, faults, did, seen>>

TooMany(c) ==
  /\ pc[c] = "sent"
  /\ faults < MaxFaults
  /\ faults' = faults + 1
  /\ seen' = [seen EXCEPT ![c].fault = TRUE]
  /\ Answer(c, 429, "json")
  /\ UNCHANGED <<posts, storage, token, cmd, says, did>>

Unauthorized(c) == pc[c] = "sent" /\ ~token /\ Replies(c, 401, "json")

\* The handlers are registered under /api and /api/v1, all but "next".  What is
\* no route goes to handleIndex.
Routed(path) == path # "next"

\* handlePostByID cuts off "/api/posts/" only, and what is left of a path under
\* /api/v1 is no id.
HasId(ending) == ending = "api"

FirstStep(c) ==
  CASE Kind(c) = "new"     -> "create" [] Kind(c) = "show"   -> "read"
    [] Kind(c) = "edit"    -> "read"   [] Kind(c) = "delete" -> "remove"
    [] Kind(c) = "publish" -> "publish"
    [] OTHER               -> "query"

Path(c) == Request(Kind(c)).path
ById(c) == Path(c) \in {"post", "publish"}

NoRoute(c) == pc[c] = "sent" /\ token /\ ~Routed(Path(c)) /\ Replies(c, 404, "text")

BadIdCode == 400

BadId(c) ==
  /\ pc[c] = "sent" /\ token
  /\ ById(c) /\ ~HasId(cmd[c].base)
  /\ Replies(c, BadIdCode, "text")

Dispatch(c) ==
  /\ pc[c] = "sent" /\ token
  /\ Routed(Path(c)) /\ (ById(c) => HasId(cmd[c].base))
  /\ Goto(c, FirstStep(c))
  /\ UNCHANGED <<posts, storage, token, cmd, copy, reply, says, faults, did, seen>>

-------------------------------------------------------------------------------
(* The handlers, statement by statement.                                   *)

\* Whoever is busy with post p learns that it has been changed, or removed.
Touch(c, p, gone) ==
  seen' = [d \in Commands |->
             IF d # c /\ Running(d) /\ (Post(d) = p \/ d = p)
             THEN [seen[d] EXCEPT !.changed = TRUE, !.absent = @ \/ gone] ELSE seen[d]]

Put(c, p, row, effects) ==
  /\ posts' = UpdateRow(posts, p, row)
  /\ did' = [did EXCEPT ![c] = @ \cup effects]
  /\ Touch(c, p, FALSE)

Target(c)  == IF Kind(c) = "new" THEN c ELSE Post(c)
Found(c)   == Exists(posts, Target(c))
Read(c)    == copy' = [copy EXCEPT ![c] = posts[Target(c)]]
Keep       == UNCHANGED <<posts, storage, token, cmd, reply, says, faults, did, seen>>

SlugTaken(c) == \E p \in Posts : Exists(posts, p) /\ posts[p].slug = cmd[c].slug

\* createPost: CreatePost, and if there is a content UpdatePost after it.
NewRow(c) == [NoRow EXCEPT !.status = "idea", !.slug = cmd[c].slug,
                              !.title = c, !.tags = c]

Create(c) ==
  /\ pc[c] = "create"
  /\ ~SlugTaken(c)
  /\ Put(c, c, NewRow(c), {"created"})
  /\ IF "text" \in cmd[c].fields
     THEN /\ copy' = [copy EXCEPT ![c] = [NewRow(c) EXCEPT !.text = c]]
          /\ Goto(c, "reread")
          /\ UNCHANGED reply
     ELSE Answer(c, 201, "post")
  /\ UNCHANGED <<storage, token, cmd, says, faults>>

CreateRefused(c) == pc[c] = "create" /\ SlugTaken(c) /\ Replies(c, 400, "text")

\* The fields of a PATCH go into what GetByID or UpdateStatus has answered.  The
\* client sends cleared tags as null, which says nothing to the handler.
WithText(c, row)  == IF "text" \in cmd[c].fields THEN [row EXCEPT !.text = c] ELSE row
WithTags(c, row)  == IF "tags" \in cmd[c].fields THEN [row EXCEPT !.tags = c] ELSE row
WithTitle(c, row) == IF "title" \in cmd[c].fields THEN [row EXCEPT !.title = c] ELSE row
WithFields(c, row) == WithText(c, WithTags(c, row))

\* GetByID of show and edit.
ReadPost(c) ==
  /\ pc[c] = "read"
  /\ Found(c)
  /\ IF Kind(c) = "show" THEN Replies(c, 200, "post")
     ELSE IF cmd[c].target # "absent"
     THEN Goto(c, "status") /\ Read(c) /\ Keep
     ELSE /\ copy' = [copy EXCEPT ![c] = WithFields(c, WithTitle(c, posts[Post(c)]))]
          /\ Goto(c, "reread") /\ Keep

ReadMissing(c) == pc[c] = "read" /\ ~Found(c) /\ Replies(c, 404, "text")

\* UpdateStatus, the reading half ...
ReadStatus(c) ==
  /\ pc[c] = "status"
  /\ Found(c)
  /\ IsTransitionAllowed(posts[Post(c)].status, cmd[c].target)
  /\ copy' = [copy EXCEPT ![c] = WithStatus(NextRevision(posts[Post(c)]), cmd[c].target)]
  /\ Goto(c, "move") /\ Keep

StatusRefused(c) ==
  /\ pc[c] = "status"
  /\ ~Found(c) \/ ~IsTransitionAllowed(posts[Post(c)].status, cmd[c].target)
  /\ Replies(c, 400, "text")

\* ... and the writing half.  The handler goes on with what UpdateStatus has
\* written; the copy with the new title is dropped.
Move(c) ==
  /\ pc[c] = "move"
  /\ RevisionMatches(posts, Post(c), copy[c])
  /\ Put(c, Post(c), copy[c], {"moved"})
  /\ copy' = [copy EXCEPT ![c] = WithFields(c, copy[c])]
  /\ Goto(c, "reread")
  /\ UNCHANGED <<storage, token, cmd, reply, says, faults>>

MoveRefused(c) ==
  pc[c] = "move" /\ ~RevisionMatches(posts, Post(c), copy[c]) /\ Replies(c, 400, "text")

\* UpdatePost of edit, and of new: its GetByID gives the revision, its Update
\* writes the whole copy.
Reread(c) ==
  /\ pc[c] = "reread"
  /\ Found(c)
  /\ copy' = [copy EXCEPT ![c] = NextRevision(Rebased(@, posts[Target(c)]))]
  /\ Goto(c, "write") /\ Keep

\* The fields of command c in the row it writes.
Mine(c, row) == {"stored"} \cup (IF row.text = c THEN {"text"} ELSE {})
                \cup (IF row.title = c THEN {"title"} ELSE {})
                \cup (IF row.tags = c THEN {"tags"} ELSE {})

Write(c) ==
  /\ pc[c] = "write"
  /\ RevisionMatches(posts, Target(c), copy[c])
  /\ Put(c, Target(c), copy[c], Mine(c, copy[c]))
  /\ Answer(c, IF Kind(c) = "new" THEN 201 ELSE 200, "post")
  /\ UNCHANGED <<storage, token, cmd, says, faults>>

\* Fault: edit logs the error and goes on, as new does.
OnlyLogged(c)  == Replies(c, IF Kind(c) = "new" THEN 201 ELSE 200, "post")
\* The new post is answered as if it had its content.
WriteError(c)  == IF Kind(c) = "new" THEN Replies(c, 201, "post") ELSE Replies(c, 500, "text")

WriteRefused(c) ==
  /\ \/ pc[c] = "reread" /\ ~Found(c)
     \/ pc[c] = "write" /\ ~RevisionMatches(posts, Target(c), copy[c])
  /\ WriteError(c)

\* deletePost: SQLite does not mind a post that is not there.
Remove(c) ==
  /\ pc[c] = "remove"
  /\ Found(c)
  /\ posts' = DeleteRow(posts, Post(c))
  /\ did' = [did EXCEPT ![c] = @ \cup {"removed"}]
  /\ Touch(c, Post(c), TRUE)
  /\ Answer(c, 204, "empty")
  /\ UNCHANGED <<storage, token, cmd, says, faults>>

RemoveMissing(c) ==
  /\ pc[c] = "remove"
  /\ ~Found(c)
  /\ IF storage = "sqlite" THEN Replies(c, 204, "empty") ELSE Replies(c, 500, "text")

\* PublishPost: read, send, store.
Publishable(row) == row.status # "published" /\ row.text # Nobody

ReadToPublish(c) ==
  /\ pc[c] = "publish"
  /\ Found(c)
  /\ Publishable(posts[Post(c)])
  /\ Read(c) /\ Goto(c, "send") /\ Keep

PublishRefused(c) ==
  /\ pc[c] = "publish"
  /\ IF Found(c) THEN ~Publishable(posts[Post(c)]) /\ Replies(c, 400, "text")
                 ELSE Replies(c, 404, "text")

Send(c) ==
  /\ pc[c] = "send"
  /\ did' = [did EXCEPT ![c] = @ \cup {"sent"}]
  /\ copy' = [copy EXCEPT ![c] = WithStatus(NextRevision(@), "published")]
  /\ Goto(c, "mark")
  /\ UNCHANGED <<posts, storage, token, cmd, reply, says, faults, seen>>

SendFails(c) ==
  /\ pc[c] = "send"
  /\ faults < MaxFaults
  /\ faults' = faults + 1
  /\ seen' = [seen EXCEPT ![c].fault = TRUE]
  /\ Answer(c, 500, "text")
  /\ UNCHANGED <<posts, storage, token, cmd, says, did>>

\* Faults: the row is written whatever its revision; a conflict is a refusal.
MarkAnyRevision(c) == AnyRevisionMatches(posts, Post(c), copy[c])
MarkMatches(c)     == RevisionMatches(posts, Post(c), copy[c])
ConflictIs400(c)   == IF Found(c) THEN 400 ELSE 404
MarkCode(c)        == IF Found(c) THEN 500 ELSE 404

Mark(c) ==
  /\ pc[c] = "mark"
  /\ MarkMatches(c)
  /\ Put(c, Post(c), copy[c], {"published"})
  /\ Answer(c, 200, "post")
  /\ UNCHANGED <<storage, token, cmd, says, faults>>

MarkRefused(c) == pc[c] = "mark" /\ ~MarkMatches(c) /\ Replies(c, MarkCode(c), "text")

\* listPosts, handleStats and handlePlan.
Query(c) ==
  /\ pc[c] = "query"
  /\ Replies(c, 200, CASE Kind(c) = "list" -> "posts" [] OTHER -> Kind(c))

\* A statement fails, because of the database or because the client has gone and
\* its context with it.  GetByID of show and edit calls that "not found".
FailedCode(c) ==
  CASE pc[c] \in {"create", "status", "move"} -> 400
    [] pc[c] = "read"                         -> 404
    [] OTHER                                  -> 500

StatementFails(c) ==
  /\ pc[c] \in Steps \ {"send"}
  /\ faults < MaxFaults
  /\ faults' = faults + 1
  /\ seen' = [seen EXCEPT ![c].fault = TRUE]
  /\ IF Kind(c) = "new" /\ pc[c] \in {"reread", "write"} THEN Answer(c, 201, "post")
     ELSE Answer(c, FailedCode(c), "text")
  /\ UNCHANGED <<posts, storage, token, cmd, says, did>>

-------------------------------------------------------------------------------
Revoke ==
  /\ token
  /\ token' = FALSE
  /\ UNCHANGED <<posts, storage, pc, cmd, copy, reply, says, faults, did, seen>>

Serve(c) ==
  \/ TooMany(c) \/ Unauthorized(c) \/ NoRoute(c) \/ BadId(c) \/ Dispatch(c)
  \/ Create(c) \/ CreateRefused(c)
  \/ ReadPost(c) \/ ReadMissing(c) \/ ReadStatus(c) \/ StatusRefused(c)
  \/ Move(c) \/ MoveRefused(c) \/ Reread(c) \/ Write(c) \/ WriteRefused(c)
  \/ Remove(c) \/ RemoveMissing(c)
  \/ ReadToPublish(c) \/ PublishRefused(c) \/ Send(c) \/ SendFails(c)
  \/ Mark(c) \/ MarkRefused(c)
  \/ Query(c) \/ StatementFails(c)

Next ==
  \/ \E c \in Commands :
       \/ \E k \in Kinds, b \in Bases : \E ask \in Asks(k) : Start(c, k, ask, b)
       \/ Serve(c) \/ Hear(c) \/ Lose(c)
  \/ Revoke

Spec == Init /\ [][Next]_vars

-------------------------------------------------------------------------------
(* Properties.                                                             *)

Refusals == {"unauthorized", "forbidden", "notfound", "rejected", "conflict"}

\* What command c set out to do.  The content of a new post is stored in a
\* statement of its own whose error nobody hears of.
AskedOf(c) ==
  CASE Kind(c) = "new"     -> {"created"} \cup
         (IF seen[c].fault \/ seen[c].changed THEN {} ELSE cmd[c].fields)
    [] Kind(c) = "edit"    -> {"stored"} \cup cmd[c].fields
         \cup (IF cmd[c].target = "absent" THEN {} ELSE {"moved"})
    [] Kind(c) = "delete"  -> IF seen[c].absent THEN {} ELSE {"removed"}
    [] Kind(c) = "publish" -> {"sent", "published"}
    [] OTHER               -> {}

\* What edit never does though it says it is done: the title is dropped next to
\* a status, and tags cannot be cleared.
Dropped(c) == {"untagged"} \cup (IF cmd[c].target # "absent" THEN {"title"} ELSE {})

Accomplished(c) == AskedOf(c) \ Dropped(c) \subseteq did[c]

\* A command that says it is done has done all it was asked for, whatever other
\* commands, lost messages and failed statements came between - all but the
\* title of an edit with a status and the clearing of tags, which are lost and
\* reported as done.
DoneIsTrue == TypeOK /\ \A c \in Commands : says[c] = "done" => Accomplished(c)

\* A command that says it was refused has changed nothing and sent nothing - but
\* a publication whose post was removed while it was being sent - and "post not
\* found" is said of a post only if it was not there at some moment since the
\* command was started, unless a statement failed.
RefusedIsTrue ==
  \A c \in Commands :
    /\ says[c] \in Refusals => did[c] = {} \/ (Kind(c) = "publish" /\ seen[c].absent)
    /\ says[c] = "notfound" /\ Kind(c) # "next" => seen[c].absent \/ seen[c].fault

\* However often "publish" is run again, by several users at once or after an
\* answer was lost, one run at most says that it has published the post, as long
\* as nobody edits it.
OneSaysPublished ==
  \A c, d \in Commands :
    /\ c # d /\ says[c] = "done" /\ says[d] = "done"
    /\ Kind(c) = "publish" /\ Kind(d) = "publish"
    => Post(c) # Post(d) \/ \E e \in Commands : Kind(e) = "edit" /\ Post(e) = Post(c)

===============================================================================
