----------------------------- MODULE OutboxWorker -----------------------------
(***************************************************************************)
(* The publication queue of jtpost: the workers of internal/core/worker.go *)
(* over the outbox table, with everything that runs beside them - the HTTP *)
(* handlers that enqueue a post and force a retry, editors who rewrite or  *)
(* delete the post meanwhile, Telegram answering or not, crashes, failing  *)
(* SQL statements and the passage of time.                                 *)
(*                                                                         *)
(* A worker takes one SQL statement or one network call per step, so every *)
(* interleaving of two workers, of a worker and a handler, and of a crash  *)
(* between two statements is a behaviour of the model.                     *)
(***************************************************************************)
EXTENDS OutboxTable, PostTable, Sequences

CONSTANTS
  Workers,          \* worker processes sharing the database
  NoEntry,          \* the entry of a worker that holds none
  EntryMaxAttempts, \* MaxAttempts that EnqueueForPublish writes in the entry
  BackoffSchedule,  \* WorkerConfig.BackoffSchedule, in units of time
  TenantInCtx,      \* does the context given to Worker.Run carry the tenant?
  MaxHold,          \* longest time between a claim and the mark that ends it
  MaxFaults,        \* bound: crashes, cancellations and failed SQL statements
  MaxManualRetries, \* bound: POST /api/outbox/{id}/retry requests
  MaxUserOps        \* bound: edits, status changes and deletions

ASSUME OutboxAssumption ==
  /\ NoPost \notin Posts
  /\ NoEntry \notin Entries
  /\ StuckThreshold \in Nat
  /\ MaxOverdue \in Nat
  /\ EntryMaxAttempts \in Nat \ {0}
  /\ BackoffSchedule \in Seq(Nat)
  /\ TenantInCtx \in BOOLEAN
  /\ MaxHold \in Nat
  /\ MaxFaults \in Nat
  /\ MaxManualRetries \in Nat
  /\ MaxUserOps \in Nat

VARIABLES
  outbox,   \* outbox[e]: the row of entry e
  posts,    \* posts[p]: the row of post p
  pc,       \* pc[w]: the statement worker w executes next
  job,      \* job[w]: what worker w keeps in memory about its entry
  retrying, \* entries whose retry request has passed the 409 check
  drafts,   \* drafts[p]: the copy of post p an editor loaded; "absent" if none
  budget,   \* what is left of the three bounds
  \* History, which no action of the code reads:
  calls,    \* calls[e]: how often Publisher.Publish was called for e
  delivered,  \* entries of which Telegram accepted a message
  lost,     \* lost[e]: calls whose outcome never reached the table
  unread,   \* entries whose post the worker could not load
  sentRevs  \* <<p, r>>: the content of revision r of post p was sent

workerVars == <<pc, job>>
userVars   == <<retrying, drafts>>
history    == <<calls, delivered, lost, unread, sentRevs>>
vars == <<outbox, posts, pc, job, retrying, drafts, budget,
          calls, delivered, lost, unread, sentRevs>>

\* url is the revision whose content the stored Telegram link points to; 0 when
\* the link is empty.
PostRow   == [status : Statuses \cup {"absent"}, revision : Nat, url : Nat]
NoPostRow == [status |-> "absent", revision |-> 0, url |-> 0]

\* What processOne keeps between its statements: the claimed entry, the number
\* of attempts it had when it was claimed, the post as loaded, and the time the
\* entry has been held.
Job     == [entry : Entries \cup {NoEntry}, tries : Nat, copy : PostRow, hold : Nat]
JobFor(e, tries)  == [entry |-> e, tries |-> tries, copy |-> NoPostRow, hold |-> 0]
NoJob             == JobFor(NoEntry, 0)
WithCopy(j, post) == [j EXCEPT !.copy = post]
Sent(post)        == [post EXCEPT !.url = post.revision]
HeldLonger(j)     == [j EXCEPT !.hold = @ + 1]

\* After the call of Publish, its outcome not yet in the row; an attempt that is
\* "unstored" was published and failed at the store.
Answered  == {"store", "markdone", "settle", "unstored"}
Holding   == {"load", "gone", "publish"} \cup Answered
FailSteps == {"failload", "failwrite"}
Locations == {"down", "idle", "drain"} \cup Holding \cup FailSteps

TablesTyped ==
  /\ outbox \in [Entries -> Row]
  /\ posts \in [Posts -> PostRow]
  /\ \A e \in Entries : outbox[e].status # "absent" => outbox[e].post \in Posts

WorkersTyped ==
  /\ pc \in [Workers -> Locations]
  /\ job \in [Workers -> Job]
  /\ \A w \in Workers :
       pc[w] \in Holding \cup FailSteps =>
         job[w].entry \in Entries /\ outbox[job[w].entry].status # "absent"

OthersTyped ==
  /\ retrying \subseteq Entries
  /\ \A e \in retrying : outbox[e].status # "absent"
  /\ drafts \in [Posts -> PostRow]
  /\ budget \in [faults : Nat, retries : Nat, ops : Nat]
  /\ calls \in [Entries -> Nat]
  /\ delivered \subseteq Entries
  /\ lost \in [Entries -> Nat]
  /\ unread \subseteq Entries
  /\ sentRevs \subseteq Posts \X Nat

TypeOK == TablesTyped /\ WorkersTyped /\ OthersTyped

\* Nothing is queued; posts are ready, as after an import or an editing session.
Init ==
  /\ outbox = [e \in Entries |-> AbsentRow]
  /\ posts = [p \in Posts |-> [status |-> "ready", revision |-> 1, url |-> 0]]
  /\ pc = [w \in Workers |-> "down"]
  /\ job = [w \in Workers |-> NoJob]
  /\ retrying = {}
  /\ drafts = [p \in Posts |-> NoPostRow]
  /\ budget = [faults |-> MaxFaults, retries |-> MaxManualRetries, ops |-> MaxUserOps]
  /\ calls = [e \in Entries |-> 0]
  /\ delivered = {}
  /\ lost = [e \in Entries |-> 0]
  /\ unread = {}
  /\ sentRevs = {}

Goto(w, l)    == pc' = [pc EXCEPT ![w] = l]
Release(w, l) == Goto(w, l) /\ job' = [job EXCEPT ![w] = NoJob]
Fault         == budget.faults > 0 /\ budget' = [budget EXCEPT !.faults = @ - 1]
PostOf(e)     == outbox[e].post

\* Delay before the next attempt, given the attempts already made.
ComputeBackoff(attempts) ==
  LET idx == IF attempts > 1 THEN attempts - 1 ELSE 0
  IN  IF BackoffSchedule = <<>> THEN 1
      ELSE IF idx >= Len(BackoffSchedule) THEN BackoffSchedule[Len(BackoffSchedule)]
      ELSE BackoffSchedule[idx + 1]

-------------------------------------------------------------------------------
(* The worker's loop: Run.                                                 *)

\* A sweep that fails is only logged.
Sweep ==
  \/ \E S \in SeenStuck(outbox) : outbox' = SweepStuckOutbox(outbox, S) /\ UNCHANGED budget
  \/ Fault /\ UNCHANGED outbox

\* Run sweeps before its first drain.
Start(w) ==
  /\ pc[w] = "down"
  /\ Goto(w, "drain")
  /\ Sweep
  /\ UNCHANGED <<posts, job, userVars, history>>

\* processOne found no due entry, or its claim failed: the drain loop ends.  An
\* entry that comes due in this very second may be found or not.
DrainEnds(w) ==
  /\ pc[w] = "drain"
  /\ Goto(w, "idle")
  /\ \/ Overdue(outbox) = {} /\ UNCHANGED budget
     \/ Fault
  /\ UNCHANGED <<outbox, posts, job, userVars, history>>

PollTick(w) ==
  /\ pc[w] = "idle"
  /\ Goto(w, "drain")
  /\ UNCHANGED <<outbox, posts, job, userVars, budget, history>>

SweepTick(w) ==
  /\ pc[w] = "idle"
  /\ Goto(w, "drain")
  /\ Sweep
  /\ UNCHANGED <<posts, job, userVars, history>>

-------------------------------------------------------------------------------
(* One entry: processOne.                                                  *)

Claim(w) ==
  /\ pc[w] = "drain"
  /\ \E e \in EarliestDue(outbox) :
       /\ outbox' = ClaimNextOutbox(outbox, e)
       /\ job' = [job EXCEPT ![w] = JobFor(e, outbox[e].attempts)]
  /\ Goto(w, "load")
  /\ UNCHANGED <<posts, userVars, budget, history>>

\* posts.GetByID needs the tenant in the context and a row of that tenant.
Readable(p) == TenantInCtx /\ Exists(posts, p)

LoadPost(w) ==
  LET p == PostOf(job[w].entry) IN
  /\ pc[w] = "load"
  /\ Readable(p)
  /\ job' = [job EXCEPT ![w] = WithCopy(@, posts[p])]
  /\ Goto(w, "publish")
  /\ UNCHANGED <<outbox, posts, userVars, budget, history>>

\* Any error of GetByID - no tenant, no row, a failed query - is taken for a
\* deleted post.
LoadFails(w) ==
  LET e == job[w].entry IN
  /\ pc[w] = "load"
  /\ \/ ~Readable(PostOf(e)) /\ UNCHANGED budget
     \/ Fault
  /\ unread' = unread \cup {e}
  /\ Goto(w, "gone")
  /\ UNCHANGED <<outbox, posts, job, userVars, calls, delivered, lost, sentRevs>>

\* Fault: the entry of a missing post is marked done, so as not to be retried.
MarkGoneDone(w) ==
  /\ pc[w] = "gone"
  /\ \/ outbox' = MarkOutboxDone(outbox, job[w].entry) /\ UNCHANGED budget
     \/ Fault /\ UNCHANGED outbox
  /\ Release(w, "drain")
  /\ UNCHANGED <<posts, userVars, history>>

\* The entry is failed for good, without a retry; the error of the statement
\* is dropped.
MarkGone(w) ==
  /\ pc[w] = "gone"
  /\ \/ outbox' = MarkOutboxFailed(outbox, job[w].entry) /\ UNCHANGED budget
     \/ Fault /\ UNCHANGED outbox
  /\ Release(w, "drain")
  /\ UNCHANGED <<posts, userVars, history>>

\* Publisher.Publish returns the post with the link to the message.
PublishOk(w) ==
  LET e == job[w].entry  r == job[w].copy.revision IN
  /\ pc[w] = "publish"
  /\ calls' = [calls EXCEPT ![e] = @ + 1]
  /\ delivered' = delivered \cup {e}
  /\ sentRevs' = sentRevs \cup {<<PostOf(e), r>>}
  /\ job' = [job EXCEPT ![w] = WithCopy(@, Sent(@.copy))]
  /\ Goto(w, "store")
  /\ UNCHANGED <<outbox, posts, userVars, budget, lost, unread>>

\* Publish returns an error: nothing was sent, or the message was accepted but
\* its answer was lost or the follow-up message failed.
PublishError(w) ==
  LET e == job[w].entry IN
  /\ pc[w] = "publish"
  /\ calls' = [calls EXCEPT ![e] = @ + 1]
  /\ \/ UNCHANGED <<delivered, sentRevs>>
     \/ /\ delivered' = delivered \cup {e}
        /\ sentRevs' = sentRevs \cup {<<PostOf(e), job[w].copy.revision>>}
  /\ Goto(w, "settle")
  /\ UNCHANGED <<outbox, posts, job, userVars, budget, lost, unread>>

\* The worker stores the published post over the revision it sent.
StorePost(w) ==
  LET p   == PostOf(job[w].entry)
      new == NextRevision(WithStatus(job[w].copy, "published"))
  IN
  /\ pc[w] = "store"
  /\ RevisionMatches(posts, p, new)
  /\ posts' = UpdateRow(posts, p, new)
  /\ Goto(w, "markdone")
  /\ UNCHANGED <<outbox, job, userVars, budget, history>>

\* ErrConflict, ErrNotFound or a failed statement: the attempt counts as failed
\* although the message is out.
StoreFails(w) ==
  LET new == NextRevision(job[w].copy) IN
  /\ pc[w] = "store"
  /\ \/ ~RevisionMatches(posts, PostOf(job[w].entry), new) /\ UNCHANGED budget
     \/ Fault
  /\ Goto(w, "unstored")
  /\ UNCHANGED <<outbox, posts, job, userVars, history>>

\* A mark that fails leaves the row as it is; the worker logs and moves on.
MarkLost(w) ==
  /\ Fault
  /\ lost' = [lost EXCEPT ![job[w].entry] = @ + 1]
  /\ UNCHANGED outbox

MarkDone(w) ==
  /\ pc[w] = "markdone"
  /\ \/ /\ outbox' = MarkOutboxDone(outbox, job[w].entry)
        /\ UNCHANGED <<budget, lost>>
     \/ MarkLost(w)
  /\ Release(w, "drain")
  /\ UNCHANGED <<posts, userVars, calls, delivered, unread, sentRevs>>

-------------------------------------------------------------------------------
(* markRetryOrFail: the number of attempts comes from the claimed copy.    *)

\* Faults: the limit is off by one in either direction.
LastTryEarly(w) == job[w].tries + 2 >= EntryMaxAttempts
LastTryLate(w)  == job[w].tries + 1 > EntryMaxAttempts

LastTry(w) == job[w].tries + 1 >= EntryMaxAttempts

\* A mark that fails after a failed store makes processOne report an empty queue,
\* which ends the drain.
ScheduleRetry(w) ==
  LET attempts == job[w].tries + 1 IN
  /\ pc[w] \in {"settle", "unstored"}
  /\ ~LastTry(w)
  /\ \/ /\ outbox' = MarkOutboxRetry(outbox, job[w].entry, attempts,
                                     ComputeBackoff(attempts))
        /\ Release(w, "drain")
        /\ UNCHANGED <<budget, lost>>
     \/ /\ MarkLost(w)
        /\ Release(w, IF pc[w] = "unstored" THEN "idle" ELSE "drain")
  /\ UNCHANGED <<posts, userVars, calls, delivered, unread, sentRevs>>

GiveUp(w) ==
  /\ pc[w] \in {"settle", "unstored"}
  /\ LastTry(w)
  /\ \/ /\ outbox' = MarkOutboxFailed(outbox, job[w].entry)
        /\ UNCHANGED <<budget, lost>>
     \/ MarkLost(w)
  /\ Goto(w, "failload")
  /\ UNCHANGED <<posts, job, userVars, calls, delivered, unread, sentRevs>>

\* The post is loaded again to be marked failed; an error is not reported.
LoadFailed(w) ==
  LET p == PostOf(job[w].entry) IN
  /\ pc[w] = "failload"
  /\ \/ /\ Readable(p)
        /\ job' = [job EXCEPT ![w] = WithCopy(@, posts[p])]
        /\ Goto(w, "failwrite")
        /\ UNCHANGED budget
     \/ /\ ~Readable(p)
        /\ Release(w, "drain")
        /\ UNCHANGED budget
     \/ Fault /\ Release(w, "drain")
  /\ UNCHANGED <<outbox, posts, userVars, history>>

StoreFailed(w) ==
  LET p   == PostOf(job[w].entry)
      new == NextRevision(WithStatus(job[w].copy, "failed"))
  IN
  /\ pc[w] = "failwrite"
  /\ \/ /\ RevisionMatches(posts, p, new)
        /\ posts' = UpdateRow(posts, p, new)
        /\ UNCHANGED budget
     \/ ~RevisionMatches(posts, p, new) /\ UNCHANGED <<posts, budget>>
     \/ Fault /\ UNCHANGED posts
  /\ Release(w, "drain")
  /\ UNCHANGED <<outbox, userVars, history>>

-------------------------------------------------------------------------------
(* What happens around the workers.                                        *)

\* The process dies, or its context is cancelled: from then on every statement
\* of the worker fails, so nothing more reaches the tables.
Crash(w) ==
  /\ pc[w] # "down"
  /\ Fault
  /\ lost' = IF pc[w] \in Answered
             THEN [lost EXCEPT ![job[w].entry] = @ + 1] ELSE lost
  /\ Release(w, "down")
  /\ UNCHANGED <<outbox, posts, userVars, calls, delivered, unread, sentRevs>>

\* One unit of time; no worker holds an entry for more than MaxHold.
Tick ==
  /\ \A w \in Workers : pc[w] \in Holding => job[w].hold < MaxHold
  /\ outbox' = [e \in Entries |-> OlderRow(outbox[e])]
  /\ job' = [w \in Workers |-> IF pc[w] \in Holding
                               THEN HeldLonger(job[w]) ELSE job[w]]
  /\ UNCHANGED <<posts, pc, userVars, budget, history>>

\* POST /api/posts/{id}/queue and jtpost outbox enqueue: no check of the status
\* of the post or of other entries for it.
Enqueue(e, p) ==
  /\ outbox[e].status = "absent"
  /\ Exists(posts, p)
  /\ outbox' = CreateOutbox(outbox, e, p)
  /\ UNCHANGED <<posts, workerVars, userVars, budget, history>>

\* Fault: a done entry passes the check, too.
RetryUnchecked(e) ==
  /\ outbox[e].status # "absent"
  /\ e \notin retrying
  /\ budget.retries > 0
  /\ budget' = [budget EXCEPT !.retries = @ - 1]
  /\ retrying' = retrying \cup {e}
  /\ UNCHANGED <<outbox, posts, workerVars, drafts, history>>

\* POST /api/outbox/{id}/retry reads the entry and answers 409 if it is done...
RetryCheck(e) ==
  /\ outbox[e].status \notin {"absent", "done"}
  /\ e \notin retrying
  /\ budget.retries > 0
  /\ budget' = [budget EXCEPT !.retries = @ - 1]
  /\ retrying' = retrying \cup {e}
  /\ UNCHANGED <<outbox, posts, workerVars, drafts, history>>

\* ...and then resets it, whatever it has become.
RetryWrite(e) ==
  /\ e \in retrying
  /\ outbox' = MarkOutboxRetry(outbox, e, 0, 0)
  /\ retrying' = retrying \ {e}
  /\ UNCHANGED <<posts, workerVars, drafts, budget, history>>

UserOp == budget.ops > 0 /\ budget' = [budget EXCEPT !.ops = @ - 1]

\* A PATCH of title, tags or content: the handler loads the post...
EditLoad(p) ==
  /\ UserOp
  /\ Exists(posts, p) /\ ~Exists(drafts, p)
  /\ drafts' = [drafts EXCEPT ![p] = posts[p]]
  /\ UNCHANGED <<outbox, posts, workerVars, retrying, history>>

\* ...and UpdatePost writes the loaded copy over whatever revision is stored.
EditStore(p) ==
  /\ Exists(drafts, p)
  /\ IF Exists(posts, p)
     THEN posts' = UpdateRow(posts, p, NextRevision(Rebased(drafts[p], posts[p])))
     ELSE UNCHANGED posts
  /\ drafts' = [drafts EXCEPT ![p] = NoPostRow]
  /\ UNCHANGED <<outbox, workerVars, retrying, budget, history>>

\* UpdateStatus reads, checks the transition and writes under the revision, so
\* it takes effect at once or not at all.
ChangeStatus(p) ==
  /\ UserOp
  /\ \E s \in Statuses :
       /\ IsTransitionAllowed(posts[p].status, s)
       /\ posts' = UpdateRow(posts, p, NextRevision(WithStatus(posts[p], s)))
  /\ UNCHANGED <<outbox, workerVars, userVars, history>>

\* The entries of a deleted post stay in the outbox.
DeletePost(p) ==
  /\ UserOp
  /\ Exists(posts, p)
  /\ posts' = DeleteRow(posts, p)
  /\ UNCHANGED <<outbox, workerVars, userVars, history>>

-------------------------------------------------------------------------------
ProcessStep(w) ==
  \/ Claim(w) \/ LoadPost(w) \/ LoadFails(w) \/ MarkGone(w)
  \/ PublishOk(w) \/ PublishError(w) \/ StorePost(w) \/ StoreFails(w)
  \/ MarkDone(w) \/ ScheduleRetry(w) \/ GiveUp(w)
  \/ LoadFailed(w) \/ StoreFailed(w)

LoopStep(w) == Start(w) \/ DrainEnds(w) \/ PollTick(w) \/ SweepTick(w)

UserStep ==
  \/ \E e \in Entries : RetryCheck(e) \/ RetryWrite(e)
  \/ \E e \in Entries, p \in Posts : Enqueue(e, p)
  \/ \E p \in Posts : EditLoad(p) \/ EditStore(p) \/ ChangeStatus(p) \/ DeletePost(p)

Next ==
  \/ \E w \in Workers : ProcessStep(w) \/ LoopStep(w) \/ Crash(w)
  \/ Tick
  \/ UserStep

Spec == Init /\ [][Next]_vars

\* A worker never stops between two statements; the operator restarts it when
\* it is down; time passes; and the select of Run, which picks at random among
\* the tickers that are ready, does not pass the sweep ticker over for ever.
Fairness ==
  /\ \A w \in Workers : WF_vars(ProcessStep(w) \/ LoopStep(w))
                     /\ SF_vars(SweepTick(w))
  /\ SF_vars(Tick)

FairSpec == Spec /\ Fairness


-------------------------------------------------------------------------------
(* Properties.                                                             *)

Holds(w, e) == pc[w] \in Holding /\ job[w].entry = e

\* No two workers work on the same entry at the same time.  The table records
\* no owner: what keeps a second worker away is the status in_flight and a
\* sweep that waits longer than any worker holds an entry, by a second at least
\* (within one second the sweep may be early).
ExclusiveClaim ==
  \A e \in Entries : \A v, w \in Workers : Holds(v, e) /\ Holds(w, e) => v = w

\* An entry is failed for good only after all its attempts were made, or when
\* the worker could not load its post.
NeverFailsEarly ==
  \A e \in Entries : outbox[e].status = "failed" =>
    e \in unread \/ calls[e] >= EntryMaxAttempts

\* An entry reported done has put at least one message into the channel, however
\* many workers, sweeps and restarts touched it on the way.
DoneWasSent ==
  \A e \in Entries : outbox[e].status = "done" => e \in delivered

\* An entry that is done, while no worker holds it and no retry request is between
\* its check and its reset, stays done and is not sent again: nothing but an
\* overlapping claim or the window of the retry handler can publish it once more.
Finished(e) ==
  outbox[e].status = "done" /\ e \notin retrying /\ ~\E w \in Workers : Holds(w, e)

StaysFinished ==
  \A e \in Entries : Finished(e) => Finished(e)' /\ calls'[e] = calls[e]

DoneForGood == [][StaysFinished]_vars

\* A worker that marks a post published replaces exactly the revision it sent:
\* no edit made while the message was under way is declared published.
StoresWhatWasSent ==
  \A w \in Workers : pc[w] = "store" /\ pc'[w] = "markdone" =>
    LET p == PostOf(job[w].entry) IN
    /\ <<p, posts[p].revision>> \in sentRevs
    /\ posts'[p].url = posts[p].revision

PublishesWhatIsStored == [][StoresWhatWasSent]_vars

\* The channel sees an entry at most once per attempt the limit allows, plus
\* once for every attempt whose outcome was lost before it reached the table.
CallsBounded ==
  \A e \in Entries : calls[e] <= EntryMaxAttempts + lost[e]

\* The attempts column is short of the calls by exactly the lost ones and the last
\* one: neither the claim nor the sweep counts an attempt, so one whose outcome
\* never reached the row is never counted, and such attempts do not use up the
\* limit.  A call that is being settled or that settled the entry is not counted
\* either; an entry may also be failed untried.
Settling(e) == \E w \in Workers : Holds(w, e) /\ pc[w] \in Answered

Uncounted(e) == calls[e] - outbox[e].attempts

AttemptsAreCounted ==
  \A e \in Entries :
    /\ outbox[e].attempts < EntryMaxAttempts
    /\ Uncounted(e) \in {lost[e], lost[e] + 1}
    /\ Settling(e) \/ outbox[e].status = "done" => Uncounted(e) = lost[e] + 1
    /\ ~Settling(e) /\ outbox[e].status \notin {"done", "failed"} => Uncounted(e) = lost[e]

\* The queue as its clients see it implements the promise of Delivery.
Phase(e) ==
  CASE outbox[e].status = "absent"                   -> "none"
    [] outbox[e].status \in {"pending", "in_flight"} -> "queued"
    [] OTHER                                         -> outbox[e].status

Promise == INSTANCE Delivery WITH
             phase <- [e \in Entries |-> Phase(e)]

\* Safety half: a settled entry is never reopened by a late worker or a sweep,
\* and none is settled as done without a message.
KeepsPromise == Promise!Spec

\* The error path of the worker that fails an entry untried is meant for posts
\* that were deleted (the comment in processOne).
UntriedMeansDeleted ==
  \A e \in Entries : outbox[e].status = "failed" /\ calls[e] = 0 =>
    ~Exists(posts, PostOf(e))

\* With a fair worker every accepted entry ends up done or failed, through
\* crashes, failing statements and sweeps.
KeepsPromiseEventually == Promise!FairSpec

===============================================================================
