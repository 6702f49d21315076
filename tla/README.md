# Verification of jtpost

jtpost keeps blog posts through an editorial life (idea, draft, ready,
scheduled, published, failed, archived) in SQLite, PostgreSQL or files under
git, serves them over a REST API and a web UI to users who log in by password,
token or OAuth, and publishes them to a Telegram channel, either directly or
through a queue that background workers drain. This
directory holds TLA+ models of that program, the TLC configurations that check
them on small instances, and TLAPS proofs of the results that hold for every
size. Paths are relative to the repository, `src/` being its root.

## 1. The system

| Component | State it keeps | Operations | Where |
|---|---|---|---|
| Outbox worker | the entry and the post it holds in memory | poll, sweep, claim, load, publish, store, mark | `internal/core/worker.go`, `internal/cli/worker.go` |
| Outbox table | one row per entry: status, attempts, next attempt, last change | enqueue, claim, three marks, sweep | `internal/adapters/{sqlite,postgres}/outbox.go` |
| Outbox API and CLI | none | enqueue, list, manual retry | `internal/adapters/httpapi/outbox_handlers.go`, `internal/cli/outbox.go` |
| PostService and the life of a post | none | create, update, change status, archive, publish, delete, next | `internal/core/service.go`, `core.go` |
| SQL repositories | the posts table, with a revision per row | read in a tenant, list, revision-checked update, import | `internal/adapters/{sqlite,postgres}/repository.go` |
| File repository, git decorator | Markdown files, commits | the same, without revisions | `internal/adapters/fsrepo`, `gitrepo` |
| REST API | none | posts, queue, publish, stats, plan | `internal/adapters/httpapi/server.go` |
| Web UI | none | edit, revert, plan, upload, events | `internal/adapters/webui` |
| Telegram publisher | none | send text, photo, album; retry on 429 | `internal/adapters/telegram` |
| Event bus | subscribers and their buffers | publish, subscribe, cancel | `internal/core/eventbus.go`, `webui/events.go` |
| Authentication | users, tokens, sessions | login, issue, validate, revoke, rehash | `internal/core/auth_service.go` |
| OAuth login | links between users and accounts | authorize, callback | `internal/core/oauth_service.go` |
| HTTP middleware | token buckets | rate limit, bearer, session, CSRF, require-auth | `internal/adapters/httpapi/middleware.go`, `ratelimit.go` |
| Configuration, storage factory | none | validate, open | `internal/adapters/config`, `storage` |

How they meet. `jtpost serve` and any number of `jtpost worker run` processes
share one database. The API and the CLI insert entries into the outbox; a worker
claims an entry with one UPDATE, reads the post, calls Telegram for anything up
to minutes, writes the post back under the revision it read, and marks the
entry. Meanwhile an editor may save, move or delete the same post, an operator
may force a retry of the same entry, the sweep of another worker may declare the
first one dead, and any of the processes may crash or lose its connection. No
two of these steps are in one transaction: the only protections are the status
column of the entry, its age, and the revision of the post.

What is hard: the queue under crashes, slow workers and retries; posts with
several editors; one publication in detail (timeouts, the two messages of a long
post); credentials that are used, revoked and rehashed at the same time; first
logins and last owners; token buckets that are forgotten; dashboards whose
events are dropped; files and commits that nobody locks; three storages that
should not be told apart; commands whose answers get lost. `PROJECT.json` lists
each hazard at its line.

What makes each component correct: an accepted entry is settled, never done
without a message, never given up early, tried as often as it says; a post moves
only along the allowed transitions and no save disappears unnoticed; a session
or token that was revoked opens nothing, and a login leads to the user the
account is linked to; a bucket never grants more than its rate and refuses
nobody without a reason; an open dashboard does not stay behind; the history of
git keeps up with the directory; the storages keep one contract and answer
alike; what a remote command says is what happened.

## 2. What is modelled

### The publication queue

`Lifecycle` is `allowedTransitions` of `core.go`. `PostTable` and `OutboxTable`
are the SQL statements as operators from a table to the table after the
statement. `OutboxWorker` composes them with the workers and everything around
them. `Delivery` is the abstract promise: an entry is queued until it is settled,
it is done only if a message went out, and only a failed one is queued again.

| State of `OutboxWorker` | In the code |
|---|---|
| `outbox[e]` | row of `outbox_entries`; `delay` is `next_attempt_at` minus now, `age` is now minus `updated_at` |
| `posts[p]` | row of `posts`: status, revision, and the revision the stored Telegram link belongs to |
| `pc[w]`, `job[w]` | where a worker is between two statements of `Run`/`processOne`, and its local variables |
| `retrying` | retry requests between their read and their write |
| `drafts[p]` | the copy an editor's request loaded |
| `calls`, `delivered`, `lost`, `unread`, `sentRevs` | history, read by the properties only |

One action is one SQL statement or one network call with everything the code
does before the next: `Claim`, `LoadPost`/`LoadFails`, `MarkGone`,
`PublishOk`/`PublishError`, `StorePost`/`StoreFails`, `MarkDone`,
`ScheduleRetry`, `GiveUp`, `LoadFailed`, `StoreFailed` are `processOne` and
`markRetryOrFail`; `Start`, `DrainEnds`, `PollTick`, `SweepTick` are the loop of
`Run`. A statement may fail (`Fault`), with the effect the code gives it: a failed
mark is logged and forgotten, a failed read counts as a deleted post, a failed
store counts as a failed attempt (and ends the drain if its retry cannot be marked
either: the place `unstored`). `Crash` is a crash or a cancelled context, after
which no statement of that worker succeeds. `Enqueue`, `RetryCheck`/`RetryWrite`,
`EditLoad`/`EditStore`, `ChangeStatus` and `DeletePost` are the handlers beside the
worker. `Tick` is the passage of time.

Time. The bound `MaxHold` is the longest time from a claim to its mark. In the
code it is the time one `Publish` may take: two messages, each three requests of
at most 60 s with two pauses of at most 30 s, 480 s in all, below the stuck
threshold of 600 s. The runs and theorems that need it assume
`MaxHold < StuckThreshold`; `OutboxUsers` drops the assumption. The threshold must be
longer, and not just as long, because of the texts in which SQLite keeps times:
RFC3339Nano drops the trailing zeros of the fraction, so within one second the order of
the texts is not that of the times (`sqlite/outbox.go:71`). Where the model compares
two equal seconds, the claim and the sweep may decide either way: a drain may end
although an entry is just due (`Overdue`), and a sweep may or may not take an entry
that has just reached the threshold (`MayBeStuck`, `SeenStuck`).

Tenant. `TenantInCtx` says whether the context of `Worker.Run` carries a
tenant. TRUE is the environment the worker is written and tested for; FALSE is
what `internal/cli/worker.go` passes, and the run `OutboxNoTenant` shows what
follows.

Left out of the queue: the texts of errors and messages, the tenant column, and
the events of the bus (the worker process is started without one).

### Posts under several editors

`PostEditing` is what requests do to stored posts: the REST handlers for POST,
PATCH, DELETE and publish, the save form of the web UI, and the commands `status`
and `publish`, down to `PostService` and `PostTable`. A request reads a row, works
on its copy and writes it back; the module takes one SQL statement or one call
to Telegram per step.

| State of `PostEditing` | In the code |
|---|---|
| `posts[p]` | row of `posts`; a text field holds the request that wrote it |
| `pc[r]` | the statement a request executes next, or its answer |
| `req[r]` | kind of request and the fields of its body; `Keep` is a field it leaves out |
| `copy[r]` | the `*Post` the handler works on |
| `base[r]` | history: the row the copy was made from |

| Actions | In the code |
|---|---|
| `Receive` | a request arrives with one of the bodies its kind can have |
| `Load`, `LoadRefused` | `GetByID` in the handler, its checks, the fields it sets at once |
| `Insert`, `InsertRefused` | `CreatePost`; a body with content goes on to `UpdatePost` |
| `ReadStatus`, `StatusRefused`, `Commit` | `UpdateStatus`: a read, the table of transitions, `updateInternal` |
| `Reread`, `RereadRefused`, `Update` | `UpdatePost`: a second read that lends its revision, the update |
| `Send`, then `Commit` or `Reread` | `PublishPost`, and the command `publish`, which uses `UpdatePost` |
| `Conflict`, `Fail` | no row has the revision; a statement or Telegram fails |
| `Delete` | `DeletePost`, idempotent |

The order in which a handler sets its fields is kept, because it decides what
is stored: `EarlyFields` go on the copy before `UpdateStatus`, which returns a
fresh one, and `LateFields` after. `SentFields` are the fields of a body that the
answer promises and the last statement really writes. Left out: slugs, deadlines
and the other fields that are treated like tags; tenants (one tenant, more in
`PostStorages`); the audit log and bus events, which follow the answer (events
are in `LiveDashboard`); the first look of the web UI at a post it is about to
delete; the revert of the web UI, which exists only with the git repository and
is in `PostFiles`.

### One publication

`TelegramPublisher` opens up what is one step in the other modules: a call of
`Publisher.Publish`. `MediaSources` is its choice of photos as operators.
`Publication` is the promise to the caller: success only when the whole post is
in the channel, an answer within `MaxHold`; an error may mean anything.

| State of `TelegramPublisher` | In the code |
|---|---|
| `pc[c]`, `part[c]`, `attempt[c]` | where a call is in `Publish` (photos or text, then the text that did not fit) and in the loop of `doAPIRequest` |
| `left[c]` | what is left of the client's timeout or of the pause after 429 |
| `cancelled` | contexts that are done |
| `link[c]` | the message `TelegramURL` will name |
| `status[m]` | what Telegram made of a request: it may accept one whose caller has long given up |

`Send`, `Pause`, `WakeUp`, `TimeOut`, `RequestFails`, `NotSent` and `PauseCancelled`
are the paths through `doAPIRequest`; `PrimaryOut` and `FollowUpOut` those of
`Publish` after it; `Telegram(m)` is the service (external), of which one thing
is assumed: a request answered with 429 was not accepted. Left out: the
conversion of Markdown, the encoding of requests, `GetMe`.

### Accounts

`AccountTables` is the SQL statements on `users`, `sessions`, `tokens` and
`oauth_accounts`, with their constraints and cascades; `Accounts` is everything
that executes them, one statement per step.

| State of `Accounts` | In the code |
|---|---|
| `users[u]`, `links[a]` | rows of `users` and `oauth_accounts` |
| `creds[c]` | rows of `tokens` and `sessions`; `fresh` is "not expired", `csrf` names the token of the session |
| `pc[r]`, `ctx[r]` | the statement a request executes next, its context and local variables |
| `req[r]` | what it shows (bearer, cookie, CSRF token, password, provider account) and asks for |
| `rehash[r]` | the whole user that the goroutine of a login will write |
| `seen[r]` | history: the credentials that were live when the request came in, the owners it counted |

| Actions | In the code |
|---|---|
| `ReadToken` ... `SessionUser`, `Enter`, `KeepOut` | the chain of `middleware.go`: bearer, session, CSRF, require-auth |
| `WriteCsrf`, `DeleteSession` | `RefreshCSRF`, logout |
| `Verify`, `Rehash` | `VerifyPassword` and its goroutine |
| `InsertCredential`, `PrefixTaken` | `IssueToken`, `IssueSession` with their retries on a taken prefix |
| `ReadLink` ... `CreateOAuthAccount` | `OAuthService.HandleCallback` |
| `CountUsers`, `CountOwners`, `DeleteUserRow`, `RevokeToken` | the commands `user` and `token` |
| `SqlFails`, `Expire` | any statement fails; time passes |

The secret of a credential is its name, so a request either shows the right one
or another; cryptography, the exchange with the provider and the signed state
cookie are outside the model (the callback starts with an account the provider
has vouched for). The times of last use are left out, nothing decides on them.

### Token buckets

`RateLimiter` is `RateLimitMiddleware` with the bucket of `golang.org/x/time/rate`
(external) counted in ticks: `buckets[k]` is its level, the time of the last
change and the last reservation; `Get`, `Reserve`, `LetIn`, `Refuse`, `Cancel` and
`CancelLate` are the steps of a request, between which others come and time passes;
`Gc` is the collector. `Delay()` and `Cancel()` (`ratelimit.go:175`, `:177`) each read
the clock: a reservation that falls due in between is answered 429 and gives nothing
back (`CancelLate`). `spent`, `blurred` and `told` are history: `spent[k][t]` counts the
tokens of k used up for moment t or a later one, by requests let in and by late
cancellations. The key of a request is its address: the chain of `serve` calls the
limiter before a user is known (the comment at `internal/cli/serve.go:145` hopes
otherwise). A tick is a millisecond at least, since the code rounds up by adding
0.999 s.

A bucket that is forgotten before it is full again is made anew as a full one, and its
source gets more than the rate. The defaults exclude that (a full bucket in one minute,
ten minutes of idle time); `requests_per_minute: 1` with `burst: 20` does not, and no
check of the configuration demands it. The model allows it: `Gc` then forgets what is
owed (`Owes`), and `RateHolds` speaks of the spans of time in which that does not
happen. `PatientForgetsNothing` proves that it never does if
`IdleTTL + 1 >= Burst * Interval + MaxPause`. Assumed is only that no request sleeps in
the middleware longer than `IdleTTL`.

### The dashboard

`LiveDashboard` composes the handlers of the web UI that change a post and then
publish, the bus with its bounded buffers, the stream of `events.go` and the tab
with htmx. A buffer is the number of its events, because the tab treats all alike;
the table is the number of changes to it. `Bare` are the tabs whose stream is
served as the tests serve it. The others get 500: the writer that
`LoggingMiddleware` passes on (`httpapi/middleware.go:31`) has no `Flush`, which
`events.go:27` requires, and `serve` wraps everything into it. For them nothing is
promised, and with `Bare = {}` no tab ever opens a stream, although `ROADMAP.md:284`
counts live reload as done.

### Files under git

`PostFiles` is `FileSystemPostRepository` and `GitDecorator` under concurrent
requests. `file`, `index` and `head` are the working tree, the staged and the last
committed version of each file, `past` the versions of all commits. `os.WriteFile`
is two steps, `truncate` and `write`, between which others see an empty file;
only `commit` is under the mutex. `orphan` remembers that a fault (or a file from
before git) has left a change without a commit. A status is kept apart from the
text, since a revert is to change the one and not the other. Requests that found
the post come with the id they found, so they may meet another post under the
same slug. Push, the wording of messages and moves of a slug are left out.

### Three storages

`StorageContract` is what the shared test suite `repotest/contract.go` promises, one
step per call, with the answers it leaves open written down: `Place` is what slugs are
unique in, `Database` and `SilentDelete` say how the storages differ. `PostStorages`
makes every call to the three storages in parallel and compares; `PostQueries` is their
listing with its filters, and the sorting, planning and prioritising that API, command
line and web page do by hand. `rows[b]` are the posts as they were handed to storage b,
`AsRead` what it gives back of them: SQLite keeps seconds in UTC
(`sqlite/repository.go:429`), PostgreSQL the moment, read in the zone of the process
(`Here`), a file the date as it was written. `Heard(b)` is the last call as storage b
has heard it, `mig` a running `jtpost migrate` (list, count, load, with calls of others
between). `lawful` says that all calls so far were such as `PostService` makes (ids are
new, revisions follow), and that no create met the file of another tenant. Calls of this
module do not overlap.

Under git a tenant has the directory `Dir[t]`, named after the first eight digits of its
id (`core/post.go:197`). Ids are UUIDv7, so tenants made within about a minute share one
(`init` compares the digits with those of the author only, `cli/init.go:60`). Slugs are
then unique among all of them, an update of one tenant writes over the file of the other
that has the name (`fsrepo/repository.go:186` compares no tenant), and a delete may stop
at the other's file with the id. `TenantsStayApart` says that this, and the import of an
id into a database that another tenant has it in, are the only ways to lose a post to
somebody else.

Where the storages differ by intention of the code, the properties say so: files take
any revision, two files may have the same id, an import is atomic in SQL only. Where
lists differ, the property names the region in which they do not: tags are joined by OR
in two storages and by AND in SQLite; the search looks in the text in SQLite and in the
slug elsewhere; posts without the date that is sorted by come first in SQLite; times
within one second are not told apart there; the order without a sort differs; and SQLite
ignores an offset without a limit. The model compares words and tags for equality:
SQLite uses LIKE, which also finds a tag within another and ignores the case of ASCII
letters, so the faces have words of lower case of which none contains another.

Moments are counted in half seconds, so that two may fall into one second and a part of
an hour is left over where `postPriority` cuts hours to whole ones. The page of the plan
groups by the calendar day of each date in its own zone (`webui/plan.go:78`) and sorts
the groups by the midnight of their first post, while API and command line sort the
moments. The three therefore agree where all dates are in one zone, as a database gives
them back; from files, dates of different zones may come in another order on the page.
The numbers of days are 1 to 365, since the page takes any other as 30
(`webui/plan.go:23`), the API those below 1 only, and the command line none.

### Remote commands

`RemoteCommands` is the nine commands with `--remote`: `Request` is what the
generated client sends, `Types` what it decodes, `Says` what the command makes
of the code; between them the routes (`NoRoute`, `BadId`, `Dispatch`) and the
handlers statement by statement over `PostTable`. `Lose` is a lost request or
answer: the client has no timeout and no retry, the server cuts answers off after
15 s. `did` and `seen` are history. `Bases` are the two prefixes under which the
routes are registered.

## 3. What the runs check

### The queue

These runs use `MCOutboxWorker`. Bounds: one unit of time as back-off and longest
hold, two as stuck threshold, so that every order of "due", "perhaps stuck", "stuck"
and "still working" occurs (a threshold of 0 makes the slow worker of `OutboxUsers`);
`EntryMaxAttempts = 2`, so that there is a first, a last and a retried
attempt; `MaxFaults = 1`, one fault at every point; `MaxOverdue = 1`, which
is enough to tell an overdue entry from one just due.

| Run | Question | Result |
|---|---|---|
| `OutboxCrash` | two workers, two entries of one post, one fault anywhere; does every accepted entry end? | claims are exclusive, the attempts column lacks exactly the lost calls, the queue refines `Delivery` with its liveness |
| `OutboxUsers` | two workers slower than the threshold, so that two share an entry, against an editor and a manual retry | only a revision that was sent is declared published, nothing is done unsent or given up untried, and what is done and let go is not sent again |
| `OutboxNoTenant` | `jtpost worker run` as it is wired | violated: entries of existing posts are failed untried |

`OutboxUsers` stops a behaviour at four calls of one entry (`FewCalls`): a slow
worker writes its old number of attempts over a newer one, so calls are
unbounded there and the attempts column means nothing. Deadlock is never
switched off: time can always pass. With a manual retry an entry that was done
is published again when the retry read it before (`CHANGELOG.md:15` promises 409), and so is one
that a second worker still holds. `OutboxUsers` contains these behaviours;
`DoneForGood` says that there are no others. `OutboxCrash` makes no manual retry,
since one resets an entry in flight and with it what `ExclusiveClaim` and
`AttemptsAreCounted` speak of.

`AttemptsAreCounted` is exact on purpose: the claim does not count the attempt, so one
whose outcome never reaches the row (a crash, a failed mark) is never counted, and the
sweep hands the entry out again with all its attempts. `CHANGELOG.md:51` describes the
opposite ("attempts are kept - the attempt has been counted").

Fairness (`OutboxCrash`). Weak fairness of each worker: a goroutine with a
statement to execute executes it, and the operator starts a worker that is
down. Strong fairness of `SweepTick`: the `select` of `Run` picks at random
among the tickers that are ready, so it cannot pass one over for ever. Strong
fairness of `Tick`: time passes. Users are not fair. Faults are finite in
number, which is the assumption that at some point the database works.

### Posts

These runs use `MCPostEditing`: one post, since no request touches two, found in
one of two statuses or not there yet. Two requests show every order of two reads
and two writes. Any statement may fail. `CHECK_DEADLOCK FALSE`: requests end.

| Run | Question | Result |
|---|---|---|
| `EditRace` | two requests of any kind | the deleted stay deleted, copies are faithful, `updateInternal` loses nothing, what `UpdatePost` alone wrote over nobody is exact, an answered request is stored |
| `EditLostUpdate` | do two PATCHes keep each other's changes? | violated: `UpdatePost` compares the revision with the one it has just read |

`AckedIsStored` is about the fields in `SentFields`. It would be false of more:
PATCH drops the title when it also changes the status (`server.go:508`; `docs/api.md:191`
shows both in one body), the form of the web UI drops the tags (`webui/post.go:274`),
a creation answers 201 for a post whose content was not stored (`server.go:359`),
and the command `publish` stores the link and leaves the status, so that a
scheduled post stays scheduled (`cli/publish.go:104`) and the hourly job of
`README.md:222` sends it again.

### Publication

`TelegramCall` runs one call of `Publish` (calls share nothing but the channel)
with up to two repetitions, a timeout of two units and pauses of one, so that
a request can be answered before, at and after its timeout. The posts are all
sequences of up to three pictures, one of each kind, for an album of two, and
all kinds of text with up to one picture. It checks that a call never puts a message
out twice, although requests are repeated and accepted late; that the link is
that of the photos; which photos go out; that `Publication` is implemented; and
that every call ends. Fairness: weak, of the process (it sends, its timers fire)
and of time; Telegram need never answer.

### Accounts, buckets, dashboard

`AccountsRace` (`MCAccounts`) has two requests of any of nine kinds, two users and
one credential found in every consistent state, two prefixes, two tries at a
prefix and failing statements. Two requests suffice for every race of the
hazards: each is between one reader and one writer, and the goroutine of a login
is a third process. First hashes and roles are restricted to those that make a
rehash and an owner. It stops (`CHECK_DEADLOCK FALSE`).

`RateLimit` (`MCRateLimiter`) has one source, since buckets share nothing, two
requests at a time, a bucket of two tokens, one token in two ticks, three ticks in
a second (so that rounding matters) and seven ticks. The idle time of two is shorter
than a full bucket takes, so that some buckets are forgotten too early, and a request
may pause for two ticks anywhere (one would never cancel too late).

`DashboardReload` has three changes announced and one silent, two tabs and a
buffer of one, so that events are dropped, two are merged and a fetch overlaps
both. Fairness: weak, of handlers that have begun, of the goroutine of each
stream, and of what a tab has begun; nobody has to change anything. The silent
changes (API, commands, worker) are made without an event and are promised to no tab.

| Run | Result |
|---|---|
| `AccountsRace` | the constraints of the tables hold; who is let in showed a live credential, acts as its owner and, with a session, has sent its CSRF token except under `/ui/` and `/api/auth/oauth/`; an OAuth session is that of the linked user; the rehash revives and reverts nothing; the last owner stays if no other command interferes |
| `RateLimit` | no span of time sees more than the rate, in spite of cancelled reservations and forgotten buckets; a lone client is refused only for cause, late cancellations counted; Retry-After is enough unless the cancellation came too late at less than a request a second |
| `DashboardReload` | a dropped event leaves no open tab behind |

The last owner is not safe without the condition of `RacelessDeleteKeepsOwner`:
two deletions that count before either deletes take both (`cli/user.go`).

### Files, storages, remote commands

`PostFiles` has one slug (no request touches two files), three requests of five
kinds, one status to move to and one fault (a failed write or commit, or a
restart), with HEAD attached or not. `GitKeepsUp` holds for racing requests, the
two others speak of requests that had their file to themselves: with others the
last writer wins, a delete or an update can bring back what was removed, and a
commit may contain another request's text.

`Storages` makes three calls of users and any migrations with two ids (symmetric), two
slugs and three tenants, of whom two share a directory. The posts have one of two faces:
a draft five hours overdue in UTC, and a ready post with a deadline and a later date off
the full second and fourteen hours to the east, where its day is another one. Lists are compared
for every filter over these, and sorted by hand for all lists of up to three of
them; plans are those of one day and of thirty. With three calls a post is created,
changed or deleted, and met by another under its id, its slug or its file name
(694042 states).

`RemoteCalls` runs two commands of nine kinds against one post, with one fault
(lost message, failed statement, failed publication, 429), the token revoked at any
moment, both prefixes and both databases.

| Run | Result |
|---|---|
| `PostFiles` | the history keeps up; an acknowledged request that raced with nobody is committed and exact |
| `Storages` | each storage refines `StorageContract`; tenants mix by a shared file name and by an imported id only; for lawful calls all hold and list the same; plans of one zone agree; the API sorts, `next` puts what is overdue first, a migration without `--overwrite` loses nothing |
| `RemoteCalls` | "done" and "refused" are true; one `publish` of a post says it is done |

What these runs show by their conditions: `OverdueFirst` excludes posts a
thousand hours overdue, which `postPriority` counts as due in the future
(`service.go:299`; `docs/cli.md:466` gives them the highest priority), and those
five hundred hours overdue if another post, without a deadline, has missed its date
(`service.go:305`): hours are cut to whole ones, so at five hundred the two may be equal
and the order of the list decides.
`BackendsAgree` excludes the create that finds its file name taken by a tenant with the
same directory, which answers "exists" there and succeeds in a database.
`MigrationLosesNothing` excludes use of the target between its count and its
load. `RefusedIsTrue` excludes a publication whose post is removed meanwhile: it
has been sent, and the answer is 404. `BadId`: under `/api/v1`
(`CHANGELOG.md:129`) no route with an id works, `handlePostByID` cuts off
`/api/posts/` only; `next --remote` has no route, `stats --remote` gets an answer
its type does not decode, and the 409 the client knows is never sent. `DoneIsTrue`
names what `edit --remote` loses and yet reports as done (`Dropped`): the title next to
a status (`server.go:496-508`), and the clearing of tags, since an empty list is sent as
null (`cli/edit_remote.go:35`) and ignored. The comment above it
(`cli/edit_remote.go:14`) and `CHANGELOG.md:94` say that an empty list replaces the
tags and that exactly the given fields are changed.

What the contract states and the requirements do not. A delete of an id that the tenant
does not have answers "ok" in SQLite, and `not found` elsewhere; REQ-1.10 and REQ-2.2 of
`.spec/features/storage-parity-postgres/requirements.md` (lines 57 and 65) ask both
databases for `not found`. An update of an id that only another tenant has answers
"conflict" in both databases, because the existence of the id is asked for in all tenants
(`sqlite/repository.go:325`, `postgres/repository.go:388`); REQ-5.4 (line 111) asks for
`not found`.

## 4. What is proved

`OutboxWorkerProofs` holds for every number of workers, entries and posts,
every back-off schedule and every bound, slow workers and manual retries
included:

| Theorem | Property |
|---|---|
| `TypeCorrect` | `TypeOK` |
| `FailedWasTried` | `NeverFailsEarly` |
| `DoneWasDelivered` | `DoneWasSent` |
| `DoneIsFinal` | `DoneForGood` |
| `PublishedIsWhatWasSent` | `PublishesWhatIsStored` |

Neither of the two safety results is inductive: that an entry is failed late
enough depends on the number of attempts a worker remembers from its claim, so
`SettleInv` says of every row and of every place a worker can be what the calls
and the messages already are ("backed"); `SentInv` says that what a worker is about to
store was sent. `DoneIsFinal` needs the types only: of an entry that nobody holds and
no retry has checked, only a claim or a check could start something, and both look at
the status. Each action is first
reduced to its effect (the lemmas `...Does`, `...Sets`), and the invariants are
proved of the effects.

The second half of the module adds the results that need `Calm`, that is
`MaxHold < StuckThreshold /\ MaxManualRetries = 0`: `ClaimsAreExclusive`
(`ExclusiveClaim`), `AttemptsCountCalls` (`AttemptsAreCounted`), `CallsAreBounded`
(`CallsBounded`) and `QueueKeepsPromise` (`KeepsPromise`, the refinement). The
invariant `ClaimInv` ties a held entry to status `in_flight` and its age to the
time it has been held, so the sweep cannot reach it; `CountInv` ties the attempts
column, the worker's copy of it and the calls. Both conditions of `Calm` are
needed: a retry resets an entry in flight as well, so with one a second worker
claims what the first still holds, and it reopens what is done if it read the
entry before.

`PostEditingProofs` holds for every number of requests and posts:

| Theorem | Property |
|---|---|
| `EditingTyped` | `TypeOK` |
| `EditingFaithful` | `CopiesAreFaithful` |
| `CommitsLoseNothing` | `CommitLosesNothing` |
| `StatusesFollowTable` | `StatusFollowsTable` |
| `RacelessUpdatesLoseNothing` | `RacelessUpdateLosesNothing` |
| `RevisionsCountUpdates` | `RevisionCountsUpdates` |
| `DeletedPostsStayDeleted` | `DeletedStaysDeleted` |
| `AcksAreStored` | `AckedIsStored` |

`CopiesAreFaithful` is the inductive invariant, and is checked by TLC too: a
copy differs from its base only in the fields its request names, the base is
still the stored row whenever the revisions are equal, and a copy on its way to
`updateInternal` has the revision of its base. So a revision that still matches
at the update means that nobody wrote in between, which is what `UpdatePost`
gives up by reading the revision anew. That nobody else knows the id of a post
being created is part of it, or a creation could overwrite. `AcksAreStored` needs
`Asked` as well: by the place a request has reached, each field its answer promises
is in its copy, or is set by a statement still ahead.

`TelegramProofs` holds for every number of calls and retries, every timeout and
every post:

| Theorem | Property |
|---|---|
| `PublisherTyped` | `TypeOK` |
| `SendsOncePerCall` | `OncePerCall` |
| `LinksArePrimary` | `LinkIsPrimary` |
| `PublisherKeepsPromise` | `KeepsPromise`, the refinement of `Publication` |
| `PhotosGoInOrder` | `PhotosAreTheFirst` |

The types depend on the retry limit, so all of them rest on `SendInv`: every
request other than the current one and the one the link names was never sent or
was answered with 429. `TimeInv` adds to the time a call has taken the time it can
still take, and bounds the sum by `LongestCall`; the lemma
`CallsEndBeforeTheSweep` gives 480 seconds for the constants of the adapter, which
is what the assumption `MaxHold < StuckThreshold` of the queue stands on. The
photos are what two loops leave of the pictures, each a fold over the places of a
sequence. The lemma `LoopInRounds` turns such a fold into its rounds (that the
function the fold is made of exists is an induction of its own, `LoopExists`), and
`PrefixInduction` shows of all prefixes that the first loop keeps the order of first
occurrence (`Extracted`), and that the second holds the first usable ones up to a
full album, with those it leaves out after them (`Resolved`).

`AccountsProofs` holds for every number of requests, users, credentials, addresses
and linked accounts, every retry limit, and with or without failing statements:

| Theorem | Property |
|---|---|
| `TablesKeepTheirConstraints` | `AccountsInv` |
| `ChainLetsInRightly` | `LetInRightly` |
| `CallbackSignsInAsLinked` | `SignedInAsLinked` |
| `IdentitiesStay` | `UsersKeepIdentity` |
| `AnOwnerIsLeft` | `RacelessDeleteKeepsOwner` |

The invariant `IInv` says for every place a request can be what it has at hand
(`AtHand`), that nothing it shows has come to life since it arrived (`OldNews`),
what the chain already vouches for (`Vouched`), which link a sign-in rests on
(`SignsIn`), and that the copy a rehash will write differs from its user in the
hash only (`CopyAgrees`). Since requests interfere through the tables only, a step
is reduced to how it moves rows (`Moves`: rows are inserted once, then changed in
few ways, then deleted for good), one lemma (`OthersKept`) shows that every
other request survives such a move, and what is left is the request that steps.

`RateLimiterProofs` holds for every number of requests and sources, every size and
rate of a bucket, every idle time and every second of at most 1000 ticks:

| Theorem | Property |
|---|---|
| `RateIsHeld` | `RateHolds` |
| `RefusalsHaveAReason` | `RefusedForAReason` |
| `ComingBackSucceeds` | `RetryAfterIsEnough` |
| `PatientForgetsNothing` | (with a long idle time no bucket that owes is forgotten) |

A bucket forgets what was spent and remembers a level only, so `RateInv`
relates the level to the reservations that stand, spent or waiting (`Live`). `Sound`
says that they are covered by a full bucket and what has come back since, that
none is for a later moment than the bucket knows, that those in the future are
`Interval` apart, and that a bucket in debt remembers the last of them. `Spans` is
the rate itself over reservations instead of what was spent. `InStep` keeps the
distances between requests that can still cancel whole tokens, because a cancellation
gives back a token or nothing. `FreshInv` says the same of a source without a bucket,
which is where a forgotten bucket and a new one meet; `Present` keeps the bucket of a
request that is inside, and `Waited` that a refused one was told to wait long enough. For the two other theorems,
`Tight` says that a lone client's bucket is no lower than what was let in accounts
for, and `ToldInv` that nothing has lowered it since Retry-After was computed.

`ClientsProofs` holds for every number of handlers, tabs, commands, posts and
faults, and every size of a buffer:

| Theorem | Property |
|---|---|
| `NothingIsForgotten` | `DashboardInv` |
| `DoneIsDone` | `DoneIsTrue` |
| `RefusedIsRefused` | `RefusedIsTrue` |
| `OnePublicationIsDone` | `OneSaysPublished` |

It covers two modules, `LiveDashboard` and `RemoteCommands`, which is why the
definitions of the first have names of their own (`DashInit`, `DashNext`). `DashboardInv`
needs `CountInv`: changes are numbered by the handlers that have begun, and what a
tab or a fetch has seen never runs ahead of the table.

For the commands, `CommandInv` says of each what it has done by the place it has
reached (`Placed`), that one whose post has gone has been told so (`Informed`), and
that what it will say is true already when the answer leaves (`Answered`).
`OnePublicationIsDone` rests on the copies: a row still at the revision a
publication has read was not published then (`CopyInv`), so the second of two
publications finds another revision; and on `PublishedInv`, in which a new post has no
content, and is not published, before its own command has stored it, since that
store would otherwise undo the publication. Each step is reduced to how it moves
a row (`RowStep`), and the others only feel it through their rows and what they
have seen of them (`Learns`).

`PostFilesProofs` and `StoragesProofs`, likewise for every size:

| Theorem | Property |
|---|---|
| `HistoryKeepsUp` | `FilesInv` |
| `AcknowledgedIsCommitted` | `RacelessAckIsCommitted` |
| `WritesNothingElse` | `RacelessWriteIsExact` |
| `MigrationIsSafe` | `MigrationLosesNothing` |
| `TenantsApart` | `TenantsStayApart` |
| `StoragesHoldTheSame` | `StoragesInv` |
| `StoragesImplementContract` | `StoragesKeepContract`, three refinements of `StorageContract` |
| `ApiSortsInOrder` | `ApiListsInOrder` |
| `OverdueComesFirst` | `OverdueFirst` |
| `ShownAlike` | `ReadsAgree` |

`FilesInv` needs `TreeInv`, which says of the index what it says of the file, and
speaks of a file that is gone but still staged or committed, and where each request
stands (`Placed`); `Alone` adds what a request that has met nobody still finds in its
file. In `StoragesProofs`, `MigInv` says that a target that was empty when it was
counted still is, unless it was used. `StoredWell` adds that the tables are finite and
their keys sound (`Keyed`: slugs, and ids where SQL checks them), that the storages
agree, and that as long as all calls were lawful an id in a table has been given out.
An update or a delete then meets one row or none (`UpdateHitsOne`), which is what the
contract promises of it. `TenantsApart` needs no more than where a step can put and take
rows (`StepStaysInTenant`). An import folds a set of posts into a table, one by one in
an arbitrary order: `ImportInduction`, an induction over the finite sets, shows that
it keeps the keys sound, loses no post and brings every one.

The sorts are folds within folds over lists of any length. `LoopInRounds` turns a
fold into its rounds; `PassSettles` shows that a pass settles one place more
(`Settled`: no post after a place comes before an earlier one), by way of the post
that leads so far (`Led`), and `SwapShuffles` that an exchange keeps the posts. Of a
comparison they only use `OrderFacts`: what it leaves alone is in order, what it
exchanges is in order then, and that order is transitive. So the sort of the API is
right, although up it exchanges equal posts at every pass. For the plan the three
algorithms need not be compared with each other: each `Tells` the dates of the planned
posts in ascending order, and by `ToldAlike` only one list does. `PlacedFills` is the
round of the command line, `GroupIs` and `OneAfterAnother` are a day of the page and
its place after the days before. `OneZoneIs` gives the one zone of a database or of the
property's condition, in which `DaysAscend`: the order of the midnights is that of the days.
For lists, `DueRead` and `SecondsTell` show that cutting times to seconds keeps the order of
those in different seconds.

The assumptions on constants are those of the modules: that sets one of whose
members the code always has are not empty, that sizes are numbers, and the two
about time that are discussed above. `Calm` is the only one a theorem adds.

Only model-checked:

- `CatchesUp`, and the liveness in `KeepsPromiseEventually` of worker and publisher:
  the provers have no rule for fairness and `ENABLED`.

Proved and not run on their own: `TypeOK` of the worker, the requests and the publisher,
`CallsBounded`, `KeepsPromise`, `StatusFollowsTable` and `RevisionCountsUpdates`;
of these the runs check `KeepsPromiseEventually`, which implies `KeepsPromise`, and
`AttemptsAreCounted`, which implies `CallsBounded`.

## 5. Not modelled

- The audit log: an INSERT after the answer is decided, nothing reads it back but
  its own listing. `AuthorizeOperation` (`core/scope.go`) is called by no handler.
- `jtpost import`, `doctor`, `init`, `docs`, `new` and `edit` with an editor: one
  process, one pass over files or a prompt. (`edit` looks for a file whose name
  contains the id, `cli/edit.go`, although files are named after slugs.)
- Markdown to HTML, the calendar, the diff of versions, uploads, templ output and
  the logger: conversions and layout.
- Configuration: merging of file, environment and flags; only its results occur,
  as constants.
- The provider's side of OAuth, password cryptography, TLS, the push of git.
- `Archive`, `MarkFailed` and `AppendPublishAttempt` of `PostService`: nothing calls
  them.

Disagreements of docs and code that are not worth a run: `docs/architecture.md:154`
and `docs/cli.md:217` describe other transitions than `allowedTransitions`;
`isValidStatus` of `cli/status.go` knows neither `archived` nor `failed`.

What would come next: the audit log as a part of the handlers, and `import`.
