-------------------------- MODULE OutboxWorkerProofs --------------------------
(***************************************************************************)
(* Theorems about OutboxWorker for every value of its constants.           *)
(***************************************************************************)
EXTENDS OutboxWorker, TLAPS

-------------------------------------------------------------------------------
(* The statements of the outbox table.                                     *)

\* Row e of table u is row e of table t, with the same post and the given
\* status, attempts, delay and age; the other rows are untouched.
SetsRow(t, u, e, status, attempts, delay, age) ==
  /\ u \in [Entries -> Row]
  /\ u[e].status = status /\ u[e].post = t[e].post
  /\ u[e].attempts = attempts /\ u[e].delay = delay /\ u[e].age = age
  /\ \A f \in Entries \ {e} : u[f] = t[f]

\* What each statement does to the row it selects and leaves alone.  The claim
\* and the marks never touch the post of a row, and of the attempts only
\* MarkRetry makes something new.
LEMMA ClaimSets ==
  ASSUME NEW t \in [Entries -> Row], NEW e \in Entries
  PROVE  SetsRow(t, ClaimNextOutbox(t, e), e, "in_flight", t[e].attempts, t[e].delay, 0)
  BY DEF ClaimNextOutbox, SetsRow, Row, OutboxStatuses

LEMMA DoneSets ==
  ASSUME NEW t \in [Entries -> Row], NEW e \in Entries
  PROVE  SetsRow(t, MarkOutboxDone(t, e), e, "done", t[e].attempts, t[e].delay, 0)
  BY DEF MarkOutboxDone, SetsRow, Row, OutboxStatuses

LEMMA FailedSets ==
  ASSUME NEW t \in [Entries -> Row], NEW e \in Entries
  PROVE  SetsRow(t, MarkOutboxFailed(t, e), e, "failed", t[e].attempts, t[e].delay, 0)
  BY DEF MarkOutboxFailed, SetsRow, Row, OutboxStatuses

LEMMA RetrySets ==
  ASSUME NEW t \in [Entries -> Row], NEW e \in Entries, NEW n \in Nat, NEW d \in Int
  PROVE  SetsRow(t, MarkOutboxRetry(t, e, n, d), e, "pending", n, d, 0)
  BY DEF MarkOutboxRetry, SetsRow, Row, OutboxStatuses

LEMMA CreateSets ==
  ASSUME NEW t \in [Entries -> Row], NEW e \in Entries, NEW p \in Posts
  PROVE  /\ CreateOutbox(t, e, p) \in [Entries -> Row]
         /\ CreateOutbox(t, e, p)[e].status = "pending"
         /\ CreateOutbox(t, e, p)[e].post = p
         /\ CreateOutbox(t, e, p)[e].attempts = 0
         /\ \A f \in Entries \ {e} : CreateOutbox(t, e, p)[f] = t[f]
  BY DEF CreateOutbox, Row, OutboxStatuses

\* A sweep, or one that failed.
Sweeps == outbox' = outbox \/ \E S \in SeenStuck(outbox) : outbox' = SweepStuckOutbox(outbox, S)

\* The sweep returns rows that may be stuck to pending and changes nothing else.
LEMMA SweepSets ==
  ASSUME outbox \in [Entries -> Row], Sweeps
  PROVE  /\ outbox' \in [Entries -> Row]
         /\ \A e \in Entries :
              \/ outbox'[e] = outbox[e]
              \/ /\ MayBeStuck(outbox[e])
                 /\ outbox'[e].status = "pending"
                 /\ outbox'[e].post = outbox[e].post
                 /\ outbox'[e].attempts = outbox[e].attempts
<1>1. CASE outbox' = outbox
  BY <1>1
<1>2. ASSUME NEW S \in SeenStuck(outbox), outbox' = SweepStuckOutbox(outbox, S)
      PROVE  /\ outbox' \in [Entries -> Row]
             /\ \A e \in Entries :
                  \/ outbox'[e] = outbox[e]
                  \/ /\ MayBeStuck(outbox[e])
                     /\ outbox'[e].status = "pending"
                     /\ outbox'[e].post = outbox[e].post
                     /\ outbox'[e].attempts = outbox[e].attempts
  <2>1. \A e \in S : e \in Entries /\ MayBeStuck(outbox[e])
    BY <1>2 DEF SeenStuck
  <2>2. /\ outbox' \in [Entries -> Row]
        /\ \A e \in Entries : e \notin S => outbox'[e] = outbox[e]
        /\ \A e \in S : /\ outbox'[e].status = "pending" /\ outbox'[e].post = outbox[e].post
                         /\ outbox'[e].attempts = outbox[e].attempts
    BY <1>2, <2>1 DEF SweepStuckOutbox, Row, OutboxStatuses
  <2> QED
    BY <2>1, <2>2
<1> QED
  BY <1>1, <1>2 DEF Sweeps

\* Time changes neither the status nor the post nor the attempts of a row.
LEMMA OlderRowTyped ==
  ASSUME NEW row \in Row
  PROVE  /\ OlderRow(row) \in Row
         /\ OlderRow(row).status = row.status
         /\ OlderRow(row).post = row.post
         /\ OlderRow(row).attempts = row.attempts
         /\ row.status = "in_flight" /\ row.age <= StuckThreshold =>
              OlderRow(row).age = row.age + 1
<1> DEFINE delay == IF row.status \in {"pending", "in_flight"} /\ row.delay > -MaxOverdue
                    THEN row.delay - 1 ELSE row.delay
           age   == IF row.status = "in_flight" /\ row.age <= StuckThreshold
                    THEN row.age + 1 ELSE row.age
<1>1. delay \in Int /\ age \in Nat
  BY OutboxAssumption DEF Row
<1>2. OlderRow(row) = [row EXCEPT !.delay = delay, !.age = age]
  BY DEF OlderRow
<1> HIDE DEF delay
<1>3. OlderRow(row) = [status |-> row.status, post |-> row.post,
                       attempts |-> row.attempts, delay |-> delay, age |-> age]
  BY <1>2 DEF Row
<1> QED
  BY <1>1, <1>3 DEF Row

\* The delay before a retry is a natural number for every schedule.
LEMMA BackoffTyped ==
  ASSUME NEW n \in Nat PROVE ComputeBackoff(n) \in Nat
  BY OutboxAssumption DEF ComputeBackoff

-------------------------------------------------------------------------------
(* Rows of posts and the memory of a worker.                               *)

\* Each copy of a post changes the one field it is named after.
LEMMA PostTyped ==
  ASSUME NEW q \in PostRow
  PROVE  /\ q.status \in Statuses \cup {"absent"} /\ q.revision \in Nat /\ q.url \in Nat
         /\ \A s \in Statuses \cup {"absent"} :
              /\ WithStatus(q, s) \in PostRow /\ WithStatus(q, s).status = s
              /\ WithStatus(q, s).revision = q.revision /\ WithStatus(q, s).url = q.url
         /\ \A r \in PostRow :
              /\ Rebased(q, r) \in PostRow /\ Rebased(q, r).status = q.status
              /\ Rebased(q, r).revision = r.revision /\ Rebased(q, r).url = q.url
         /\ Sent(q) \in PostRow /\ Sent(q).status = q.status
         /\ Sent(q).revision = q.revision /\ Sent(q).url = q.revision
         /\ NextRevision(q) \in PostRow /\ NextRevision(q).status = q.status
         /\ NextRevision(q).revision = q.revision + 1 /\ NextRevision(q).url = q.url
  BY DEF PostRow, NextRevision, WithStatus, Sent, Rebased

\* The same for what a worker remembers.
LEMMA JobTyped ==
  /\ NoJob \in Job
  /\ \A e \in Entries, n \in Nat :
       /\ JobFor(e, n) \in Job
       /\ JobFor(e, n).entry = e /\ JobFor(e, n).tries = n
       /\ JobFor(e, n).hold = 0 /\ JobFor(e, n).copy = NoPostRow
  /\ \A j \in Job :
       /\ j.entry \in Entries \cup {NoEntry} /\ j.tries \in Nat
       /\ j.copy \in PostRow /\ j.hold \in Nat
       /\ \A c \in PostRow :
            /\ WithCopy(j, c) \in Job /\ WithCopy(j, c).entry = j.entry
            /\ WithCopy(j, c).tries = j.tries /\ WithCopy(j, c).hold = j.hold
            /\ WithCopy(j, c).copy = c
       /\ HeldLonger(j) \in Job /\ HeldLonger(j).entry = j.entry
       /\ HeldLonger(j).tries = j.tries /\ HeldLonger(j).copy = j.copy
       /\ HeldLonger(j).hold = j.hold + 1
  BY DEF Job, PostRow, NoJob, NoPostRow, JobFor, WithCopy, HeldLonger

\* The fields of a row of the outbox.
LEMMA RowTyped ==
  ASSUME NEW row \in Row
  PROVE  /\ row.post \in Posts \cup {NoPost} /\ row.attempts \in Nat
         /\ row.delay \in Int /\ row.age \in Nat
  BY DEF Row

-------------------------------------------------------------------------------
(* Type correctness.                                                       *)

LEMMA InitTyped == Init => TypeOK
  BY OutboxAssumption
     DEF Init, TypeOK, TablesTyped, WorkersTyped, OthersTyped, Row, AbsentRow,
         OutboxStatuses, PostRow, NoPostRow, Statuses, Job, NoJob, JobFor, Locations,
         Holding, Answered, FailSteps

\* No step but an INSERT gives a row its post, and no step removes a row.
RowsKept ==
  \A e \in Entries : outbox[e].status # "absent" =>
    outbox'[e].status # "absent" /\ outbox'[e].post = outbox[e].post

\* One worker moves on, with what it remembers, while the rows are kept.
LEMMA WorkerMoves ==
  ASSUME WorkersTyped, RowsKept,
         NEW w \in Workers, NEW l \in Locations, NEW j \in Job,
         pc' = [pc EXCEPT ![w] = l], job' = [job EXCEPT ![w] = j],
         l \in Holding \cup FailSteps =>
           j.entry \in Entries /\ outbox'[j.entry].status # "absent"
  PROVE  WorkersTyped'
  BY DEF WorkersTyped, RowsKept

\* The tables after a step that sets one row of the outbox.
LEMMA RowSetTyped ==
  ASSUME TablesTyped, NEW e \in Entries, outbox[e].status # "absent",
         NEW s \in OutboxStatuses, NEW n, NEW d, NEW a,
         SetsRow(outbox, outbox', e, s, n, d, a), posts' = posts
  PROVE  TablesTyped' /\ RowsKept
  BY DEF TablesTyped, RowsKept, SetsRow, OutboxStatuses

\* The tables after a sweep.
LEMMA SweepTyped ==
  ASSUME TablesTyped, Sweeps, posts' = posts
  PROVE  TablesTyped' /\ RowsKept
  BY SweepSets DEF TablesTyped, RowsKept, MayBeStuck

LEMMA NextTyped == TypeOK /\ [Next]_vars => TypeOK'
<1> SUFFICES ASSUME TypeOK, [Next]_vars PROVE TypeOK'
  OBVIOUS
<1> USE DEF TypeOK
<1>1. ASSUME NEW w \in Workers, Claim(w) PROVE TypeOK'
  <2>1. PICK e \in EarliestDue(outbox) :
          /\ outbox' = ClaimNextOutbox(outbox, e)
          /\ job' = [job EXCEPT ![w] = JobFor(e, outbox[e].attempts)]
    BY <1>1 DEF Claim
  <2>2. e \in Entries /\ outbox[e].status = "pending" /\ outbox[e].attempts \in Nat
    BY RowTyped DEF EarliestDue, Due, TablesTyped
  <2>3. SetsRow(outbox, outbox', e, "in_flight", outbox[e].attempts, outbox[e].delay, 0)
    BY <2>1, <2>2, ClaimSets DEF TablesTyped
  <2>4. TablesTyped' /\ RowsKept
    BY <1>1, <2>2, <2>3, RowSetTyped DEF Claim, OutboxStatuses
  <2>5. WorkersTyped'
    <3> DEFINE j == JobFor(e, outbox[e].attempts)
    <3>1. j \in Job /\ j.entry = e
      BY <2>2, JobTyped
    <3> HIDE DEF j
    <3> QED
      BY <1>1, <2>1, <2>2, <2>4, <3>1, WorkerMoves
         DEF Claim, Goto, Locations, Holding, Answered, RowsKept, j
  <2> QED
    BY <1>1, <2>4, <2>5 DEF Claim, OthersTyped, RowsKept, userVars, history
<1>2. ASSUME NEW w \in Workers, LoadPost(w) PROVE TypeOK'
  <2> DEFINE j == WithCopy(job[w], posts[PostOf(job[w].entry)])
  <2>1. j \in Job /\ j.entry = job[w].entry /\ job' = [job EXCEPT ![w] = j]
    BY <1>2, JobTyped DEF LoadPost, WorkersTyped, TablesTyped, Holding, Answered, PostOf
  <2> HIDE DEF j
  <2>2. WorkersTyped'
    BY <1>2, <2>1, WorkerMoves, ZenonT(60)
       DEF LoadPost, Goto, WorkersTyped, RowsKept, Locations, Holding, Answered
  <2> QED
    BY <1>2, <2>2 DEF LoadPost, TablesTyped, OthersTyped, userVars, history
<1>3. ASSUME NEW w \in Workers, LoadFails(w) PROVE TypeOK'
  <2>1. WorkersTyped'
    BY <1>3 DEF LoadFails, Goto, WorkersTyped, Locations, Holding, Answered
  <2> QED
    BY <1>3, <2>1
       DEF LoadFails, TablesTyped, WorkersTyped, OthersTyped, Holding, Answered, Fault, userVars
<1>4. ASSUME NEW w \in Workers, MarkGone(w) PROVE TypeOK'
  <2> DEFINE e == job[w].entry
  <2>1. e \in Entries /\ outbox[e].status # "absent"
    BY <1>4 DEF MarkGone, WorkersTyped, Holding, Answered
  <2>2. TablesTyped' /\ RowsKept
    <3>1. CASE outbox' = outbox
      BY <1>4, <3>1 DEF MarkGone, TablesTyped, RowsKept
    <3>2. CASE outbox' = MarkOutboxFailed(outbox, e)
      BY <1>4, <2>1, <3>2, FailedSets, RowSetTyped DEF MarkGone, TablesTyped, OutboxStatuses
    <3> QED
      BY <1>4, <3>1, <3>2 DEF MarkGone
  <2>3. WorkersTyped'
    BY <1>4, <2>1, <2>2, WorkerMoves, JobTyped
       DEF MarkGone, Release, Goto, WorkersTyped, Locations, Holding, Answered, FailSteps, RowsKept
  <2> QED
    BY <1>4, <2>1, <2>2, <2>3 DEF MarkGone, OthersTyped, RowsKept, Fault, userVars, history
<1>5. ASSUME NEW w \in Workers, PublishOk(w) PROVE TypeOK'
  <2>1. job[w].entry \in Entries /\ PostOf(job[w].entry) \in Posts /\ job[w].copy \in PostRow
    BY <1>5, JobTyped DEF PublishOk, WorkersTyped, TablesTyped, Holding, Answered, PostOf
  <2>2. WorkersTyped'
    BY <1>5, <2>1, PostTyped, WorkerMoves, JobTyped
       DEF PublishOk, Goto, WorkersTyped, RowsKept, Locations, Holding, Answered
  <2>3. OthersTyped'
    BY <1>5, <2>1, PostTyped DEF PublishOk, OthersTyped, userVars
  <2> QED
    BY <1>5, <2>2, <2>3 DEF PublishOk, TablesTyped
<1>6. ASSUME NEW w \in Workers, PublishError(w) PROVE TypeOK'
  <2>1. job[w].entry \in Entries /\ PostOf(job[w].entry) \in Posts /\ job[w].copy \in PostRow
    BY <1>6, JobTyped DEF PublishError, WorkersTyped, TablesTyped, Holding, Answered, PostOf
  <2>2. WorkersTyped'
    BY <1>6 DEF PublishError, Goto, WorkersTyped, Locations, Holding, Answered
  <2>3. OthersTyped'
    BY <1>6, <2>1, PostTyped DEF PublishError, OthersTyped, userVars
  <2> QED
    BY <1>6, <2>2, <2>3 DEF PublishError, TablesTyped
<1>7. ASSUME NEW w \in Workers, StorePost(w) PROVE TypeOK'
  <2>1. PostOf(job[w].entry) \in Posts /\ job[w].copy \in PostRow
    BY <1>7, JobTyped DEF StorePost, WorkersTyped, TablesTyped, Holding, Answered, PostOf
  <2>2. TablesTyped'
    BY <1>7, <2>1, PostTyped DEF StorePost, TablesTyped, UpdateRow, Statuses
  <2>3. WorkersTyped'
    BY <1>7 DEF StorePost, Goto, WorkersTyped, Locations, Holding, Answered
  <2> QED
    BY <1>7, <2>2, <2>3 DEF StorePost, OthersTyped, userVars, history
<1>8. ASSUME NEW w \in Workers, StoreFails(w) PROVE TypeOK'
  <2>1. WorkersTyped'
    BY <1>8 DEF StoreFails, Goto, WorkersTyped, Locations, Holding, Answered
  <2> QED
    BY <1>8, <2>1 DEF StoreFails, TablesTyped, OthersTyped, Fault, userVars, history
<1>9. ASSUME NEW w \in Workers, MarkDone(w) PROVE TypeOK'
  <2> DEFINE e == job[w].entry
  <2>1. e \in Entries /\ outbox[e].status # "absent"
    BY <1>9 DEF MarkDone, WorkersTyped, Holding, Answered
  <2>2. TablesTyped' /\ RowsKept
    <3>1. CASE outbox' = outbox
      BY <1>9, <3>1 DEF MarkDone, TablesTyped, RowsKept
    <3>2. CASE outbox' = MarkOutboxDone(outbox, e)
      BY <1>9, <2>1, <3>2, DoneSets, RowSetTyped DEF MarkDone, TablesTyped, OutboxStatuses
    <3> QED
      BY <1>9, <3>1, <3>2 DEF MarkDone, MarkLost
  <2>3. WorkersTyped'
    BY <1>9, <2>1, <2>2, WorkerMoves, JobTyped
       DEF MarkDone, Release, Goto, WorkersTyped, Locations, Holding, Answered, FailSteps, RowsKept
  <2> QED
    BY <1>9, <2>1, <2>2, <2>3
       DEF MarkDone, OthersTyped, RowsKept, Fault, userVars, history, MarkLost
<1>10. ASSUME NEW w \in Workers, ScheduleRetry(w) PROVE TypeOK'
  <2> DEFINE e == job[w].entry
  <2>1. e \in Entries /\ outbox[e].status # "absent"
    BY <1>10 DEF ScheduleRetry, WorkersTyped, Holding, Answered
  <2>2. TablesTyped' /\ RowsKept
    <3>1. CASE outbox' = outbox
      BY <1>10, <3>1 DEF ScheduleRetry, TablesTyped, RowsKept
    <3>2. CASE outbox' = MarkOutboxRetry(outbox, e, job[w].tries + 1,
                                         ComputeBackoff(job[w].tries + 1))
      <4> DEFINE n == job[w].tries + 1
                 d == ComputeBackoff(job[w].tries + 1)
      <4>1. n \in Nat /\ d \in Nat
        BY BackoffTyped, JobTyped DEF WorkersTyped
      <4>2. posts' = posts /\ outbox' = MarkOutboxRetry(outbox, e, n, d)
        BY <1>10, <3>2 DEF ScheduleRetry
      <4> HIDE DEF n, d, e
      <4>3. SetsRow(outbox, outbox', e, "pending", n, d, 0)
        BY <2>1, <4>1, <4>2, RetrySets DEF TablesTyped
      <4> QED
        BY <2>1, <4>2, <4>3, RowSetTyped DEF OutboxStatuses
    <3> QED
      BY <1>10, <3>1, <3>2 DEF ScheduleRetry, MarkLost
  <2>3. WorkersTyped'
    BY <1>10, <2>1, <2>2, WorkerMoves, JobTyped
       DEF ScheduleRetry, Release, Goto, WorkersTyped, Locations, Holding, Answered, FailSteps, RowsKept
  <2> QED
    BY <1>10, <2>1, <2>2, <2>3
       DEF ScheduleRetry, OthersTyped, RowsKept, Fault, userVars, history, MarkLost
<1>11. ASSUME NEW w \in Workers, GiveUp(w) PROVE TypeOK'
  <2> DEFINE e == job[w].entry
  <2>1. e \in Entries /\ outbox[e].status # "absent"
    BY <1>11 DEF GiveUp, WorkersTyped, Holding, Answered
  <2>2. TablesTyped' /\ RowsKept
    <3>1. CASE outbox' = outbox
      BY <1>11, <3>1 DEF GiveUp, TablesTyped, RowsKept
    <3>2. CASE outbox' = MarkOutboxFailed(outbox, e)
      BY <1>11, <2>1, <3>2, FailedSets, RowSetTyped DEF GiveUp, TablesTyped, OutboxStatuses
    <3> QED
      BY <1>11, <3>1, <3>2 DEF GiveUp, MarkLost
  <2>3. WorkersTyped'
    BY <1>11, <2>1, <2>2, WorkerMoves, JobTyped
       DEF GiveUp, Goto, WorkersTyped, Locations, Holding, Answered, FailSteps, RowsKept
  <2> QED
    BY <1>11, <2>1, <2>2, <2>3
       DEF GiveUp, OthersTyped, RowsKept, Fault, userVars, history, MarkLost
<1>12. ASSUME NEW w \in Workers, LoadFailed(w) PROVE TypeOK'
  <2>1. job[w].entry \in Entries /\ PostOf(job[w].entry) \in Posts
    BY <1>12 DEF LoadFailed, WorkersTyped, TablesTyped, FailSteps, PostOf
  <2>2. WorkersTyped'
    <3>1. CASE Goto(w, "failwrite")
      <4> DEFINE j == WithCopy(job[w], posts[PostOf(job[w].entry)])
      <4>1. job' = [job EXCEPT ![w] = j]
        BY <1>12, <3>1 DEF LoadFailed, Release, Goto, WorkersTyped
      <4>2. j \in Job /\ j.entry = job[w].entry
        BY <2>1, JobTyped DEF WorkersTyped, TablesTyped
      <4> HIDE DEF j
      <4> QED
        BY <1>12, <2>1, <3>1, <4>1, <4>2, WorkerMoves
           DEF LoadFailed, Goto, WorkersTyped, RowsKept, Locations, FailSteps
    <3>2. CASE Release(w, "drain")
      BY <1>12, <3>2, WorkerMoves, JobTyped
         DEF LoadFailed, Release, Goto, WorkersTyped, RowsKept, Locations, Holding, Answered, FailSteps
    <3> QED
      BY <1>12, <3>1, <3>2 DEF LoadFailed
  <2> QED
    BY <1>12, <2>2 DEF LoadFailed, TablesTyped, OthersTyped, Fault, userVars, history
<1>13. ASSUME NEW w \in Workers, StoreFailed(w) PROVE TypeOK'
  <2>1. PostOf(job[w].entry) \in Posts /\ job[w].copy \in PostRow
    BY <1>13, JobTyped DEF StoreFailed, WorkersTyped, TablesTyped, FailSteps, PostOf
  <2>2. TablesTyped'
    BY <1>13, <2>1, PostTyped DEF StoreFailed, TablesTyped, UpdateRow, Statuses
  <2>3. WorkersTyped'
    BY <1>13, WorkerMoves, JobTyped
       DEF StoreFailed, Release, Goto, WorkersTyped, RowsKept, Locations, Holding, Answered, FailSteps
  <2> QED
    BY <1>13, <2>2, <2>3 DEF StoreFailed, OthersTyped, Fault, userVars, history
<1>14. ASSUME NEW w \in Workers, Start(w) PROVE TypeOK'
  <2>1. TablesTyped' /\ RowsKept
    BY <1>14, SweepTyped DEF Start, Sweep, Sweeps
  <2>2. WorkersTyped'
    BY <1>14, <2>1 DEF Start, Goto, WorkersTyped, RowsKept, Locations, Holding, Answered, FailSteps
  <2> QED
    BY <1>14, <2>1, <2>2 DEF Start, Sweep, OthersTyped, RowsKept, Fault, userVars, history
<1>15. ASSUME NEW w \in Workers, SweepTick(w) PROVE TypeOK'
  <2>1. TablesTyped' /\ RowsKept
    BY <1>15, SweepTyped DEF SweepTick, Sweep, Sweeps
  <2>2. WorkersTyped'
    BY <1>15, <2>1
       DEF SweepTick, Goto, WorkersTyped, RowsKept, Locations, Holding, Answered, FailSteps
  <2> QED
    BY <1>15, <2>1, <2>2 DEF SweepTick, Sweep, OthersTyped, RowsKept, Fault, userVars, history
<1>16. ASSUME NEW w \in Workers, DrainEnds(w) PROVE TypeOK'
  <2>1. WorkersTyped'
    BY <1>16 DEF DrainEnds, Goto, WorkersTyped, Locations, Holding, Answered, FailSteps
  <2> QED
    BY <1>16, <2>1 DEF DrainEnds, TablesTyped, OthersTyped, Fault, userVars, history
<1>17. ASSUME NEW w \in Workers, PollTick(w) PROVE TypeOK'
  <2>1. WorkersTyped'
    BY <1>17 DEF PollTick, Goto, WorkersTyped, Locations, Holding, Answered, FailSteps
  <2> QED
    BY <1>17, <2>1 DEF PollTick, TablesTyped, OthersTyped, Fault, userVars, history
<1>18. ASSUME NEW w \in Workers, Crash(w) PROVE TypeOK'
  <2>1. WorkersTyped'
    BY <1>18, WorkerMoves, JobTyped
       DEF Crash, Release, Goto, WorkersTyped, RowsKept, Locations, Holding, Answered, FailSteps
  <2>2. lost' \in [Entries -> Nat]
    BY <1>18 DEF Crash, WorkersTyped, OthersTyped, Holding, Answered
  <2> QED
    BY <1>18, <2>1, <2>2 DEF Crash, TablesTyped, OthersTyped, Fault, userVars
<1>19. ASSUME Tick PROVE TypeOK'
  <2>1. TablesTyped' /\ RowsKept
    BY <1>19, OlderRowTyped DEF Tick, TablesTyped, RowsKept
  <2>2. job' \in [Workers -> Job] /\ \A w \in Workers : job'[w].entry = job[w].entry
    BY <1>19, JobTyped DEF Tick, WorkersTyped
  <2>3. WorkersTyped'
    BY <1>19, <2>1, <2>2 DEF Tick, WorkersTyped, RowsKept
  <2> QED
    BY <1>19, <2>1, <2>3 DEF Tick, OthersTyped, RowsKept, userVars, history
<1>20. ASSUME NEW e \in Entries, NEW p \in Posts, Enqueue(e, p) PROVE TypeOK'
  <2>1. /\ outbox' \in [Entries -> Row]
        /\ outbox'[e].status = "pending" /\ outbox'[e].post = p
        /\ \A f \in Entries \ {e} : outbox'[f] = outbox[f]
    <3>1. outbox' = CreateOutbox(outbox, e, p) /\ outbox \in [Entries -> Row]
      BY <1>20 DEF Enqueue, TablesTyped
    <3> QED
      BY <3>1, CreateSets
  <2>2. TablesTyped' /\ RowsKept
    BY <1>20, <2>1 DEF Enqueue, TablesTyped, RowsKept
  <2>3. WorkersTyped'
    BY <1>20, <2>2 DEF Enqueue, WorkersTyped, RowsKept, workerVars
  <2> QED
    BY <1>20, <2>2, <2>3 DEF Enqueue, OthersTyped, RowsKept, userVars, history
<1>21. ASSUME NEW e \in Entries, RetryCheck(e) PROVE TypeOK'
  BY <1>21 DEF RetryCheck, TablesTyped, WorkersTyped, OthersTyped, workerVars, history
<1>22. ASSUME NEW e \in Entries, RetryWrite(e) PROVE TypeOK'
  <2>1. TablesTyped' /\ RowsKept
    BY <1>22, RetrySets, RowSetTyped
       DEF RetryWrite, TablesTyped, OthersTyped, OutboxStatuses
  <2>2. WorkersTyped'
    BY <1>22, <2>1 DEF RetryWrite, WorkersTyped, RowsKept, workerVars
  <2> QED
    BY <1>22, <2>1, <2>2 DEF RetryWrite, OthersTyped, RowsKept, history
<1>23. ASSUME NEW p \in Posts, EditLoad(p) PROVE TypeOK'
  BY <1>23
     DEF EditLoad, TablesTyped, WorkersTyped, OthersTyped, UserOp, workerVars, history
<1>24. ASSUME NEW p \in Posts, EditStore(p) PROVE TypeOK'
  <2>1. NoPostRow \in PostRow
    BY DEF NoPostRow, PostRow
  <2>2. drafts[p] \in PostRow /\ posts[p] \in PostRow
    BY DEF TablesTyped, OthersTyped
  <2>3. NextRevision(Rebased(drafts[p], posts[p])) \in PostRow
    BY <2>2, PostTyped
  <2>4. TablesTyped'
    BY <1>24, <2>3 DEF EditStore, TablesTyped, UpdateRow
  <2> QED
    BY <1>24, <2>1, <2>4 DEF EditStore, WorkersTyped, OthersTyped, workerVars, history
<1>25. ASSUME NEW p \in Posts, ChangeStatus(p) PROVE TypeOK'
  <2>1. TablesTyped'
    BY <1>25, PostTyped DEF ChangeStatus, TablesTyped, UpdateRow
  <2> QED
    BY <1>25, <2>1
       DEF ChangeStatus, WorkersTyped, OthersTyped, UserOp, workerVars, userVars, history
<1>26. ASSUME NEW p \in Posts, DeletePost(p) PROVE TypeOK'
  <2>1. TablesTyped'
    BY <1>26, PostTyped DEF DeletePost, DeleteRow, TablesTyped, WithStatus
  <2> QED
    BY <1>26, <2>1
       DEF DeletePost, WorkersTyped, OthersTyped, UserOp, workerVars, userVars, history
<1>27. ASSUME UNCHANGED vars PROVE TypeOK'
  BY <1>27 DEF vars, TablesTyped, WorkersTyped, OthersTyped
<1> QED
  BY <1>1, <1>2, <1>3, <1>4, <1>5, <1>6, <1>7, <1>8, <1>9, <1>10, <1>11, <1>12, <1>13,
     <1>14, <1>15, <1>16, <1>17, <1>18, <1>19, <1>20, <1>21, <1>22, <1>23, <1>24, <1>25,
     <1>26, <1>27
     DEF Next, ProcessStep, LoopStep, UserStep

\* Every variable keeps its type, the post of a queued entry is one that was
\* enqueued, and a worker always works on an entry that is in the table.
THEOREM TypeCorrect == Spec => []TypeOK
<1>1. Init => TypeOK
  BY InitTyped
<1>2. TypeOK /\ [Next]_vars => TypeOK'
  BY NextTyped
<1> QED
  BY <1>1, <1>2, PTL DEF Spec

-------------------------------------------------------------------------------
(* What each step does, field by field: the facts the invariants rest on.  *)

\* Worker w goes from one statement to another; the other workers stay.
Moves(w, from, to) ==
  /\ pc[w] = from /\ pc'[w] = to
  /\ \A v \in Workers \ {w} : pc'[v] = pc[v] /\ job'[v] = job[v]

\* A mark: one row is set, or the statement failed and the table is as it was.
Marks(e, s, n, d) ==
  \/ outbox' = outbox
  \/ SetsRow(outbox, outbox', e, s, n, d, 0)

LEMMA ClaimDoes ==
  ASSUME TypeOK, NEW w \in Workers, Claim(w)
  PROVE  /\ Moves(w, "drain", "load")
         /\ \E e \in Entries :
              /\ outbox[e].status = "pending"
              /\ SetsRow(outbox, outbox', e, "in_flight", outbox[e].attempts,
                         outbox[e].delay, 0)
              /\ job'[w] = JobFor(e, outbox[e].attempts)
         /\ UNCHANGED <<posts, userVars, budget, history>>
<1>1. PICK e \in EarliestDue(outbox) :
        /\ outbox' = ClaimNextOutbox(outbox, e)
        /\ job' = [job EXCEPT ![w] = JobFor(e, outbox[e].attempts)]
  BY DEF Claim
<1>2. e \in Entries /\ outbox[e].status = "pending"
  BY DEF EarliestDue, Due
<1>3. SetsRow(outbox, outbox', e, "in_flight", outbox[e].attempts, outbox[e].delay, 0)
  BY <1>1, <1>2, ClaimSets DEF TypeOK, TablesTyped
<1>4. Moves(w, "drain", "load") /\ job'[w] = JobFor(e, outbox[e].attempts)
  BY <1>1 DEF Moves, Claim, Goto, TypeOK, WorkersTyped
<1> QED
  BY <1>2, <1>3, <1>4 DEF Claim

LEMMA LoadPostDoes ==
  ASSUME TypeOK, NEW w \in Workers, LoadPost(w)
  PROVE  /\ Moves(w, "load", "publish")
         /\ job'[w] = WithCopy(job[w], posts[PostOf(job[w].entry)])
         /\ UNCHANGED <<outbox, posts, userVars, budget, history>>
  BY DEF LoadPost, Moves, Goto, TypeOK, WorkersTyped

LEMMA PublishOkDoes ==
  ASSUME TypeOK, NEW w \in Workers, PublishOk(w)
  PROVE  LET e == job[w].entry IN
         /\ Moves(w, "publish", "store")
         /\ job'[w] = WithCopy(job[w], Sent(job[w].copy))
         /\ calls'[e] = calls[e] + 1 /\ delivered' = delivered \cup {e}
         /\ \A f \in Entries \ {e} : calls'[f] = calls[f]
         /\ sentRevs' = sentRevs \cup {<<PostOf(e), job[w].copy.revision>>}
         /\ UNCHANGED <<outbox, posts, userVars, budget, lost, unread>>
<1>1. job[w].entry \in Entries
  BY DEF PublishOk, TypeOK, WorkersTyped, Holding, Answered
<1> QED
  BY <1>1 DEF PublishOk, Moves, Goto, TypeOK, WorkersTyped, OthersTyped

LEMMA PublishErrorDoes ==
  ASSUME TypeOK, NEW w \in Workers, PublishError(w)
  PROVE  LET e == job[w].entry IN
         /\ Moves(w, "publish", "settle")
         /\ job' = job
         /\ calls'[e] = calls[e] + 1 /\ delivered' \in {delivered, delivered \cup {e}}
         /\ \A f \in Entries \ {e} : calls'[f] = calls[f]
         /\ sentRevs \subseteq sentRevs'
         /\ UNCHANGED <<outbox, posts, userVars, budget, lost, unread>>
<1>1. job[w].entry \in Entries
  BY DEF PublishError, TypeOK, WorkersTyped, Holding, Answered
<1> QED
  BY <1>1 DEF PublishError, Moves, Goto, TypeOK, WorkersTyped, OthersTyped

LEMMA MarkGoneDoes ==
  ASSUME TypeOK, NEW w \in Workers, MarkGone(w)
  PROVE  LET e == job[w].entry IN
         /\ Moves(w, "gone", "drain")
         /\ Marks(e, "failed", outbox[e].attempts, outbox[e].delay)
         /\ job'[w] = NoJob
         /\ UNCHANGED <<posts, userVars, history>>
<1> DEFINE e == job[w].entry
<1>1. e \in Entries /\ outbox \in [Entries -> Row]
  BY DEF MarkGone, TypeOK, TablesTyped, WorkersTyped, Holding, Answered
<1>2. Marks(e, "failed", outbox[e].attempts, outbox[e].delay)
  BY <1>1, FailedSets DEF MarkGone, Marks
<1> QED
  BY <1>2 DEF MarkGone, Release, Moves, Goto, TypeOK, WorkersTyped

LEMMA MarkDoneDoes ==
  ASSUME TypeOK, NEW w \in Workers, MarkDone(w)
  PROVE  LET e == job[w].entry IN
         /\ Moves(w, "markdone", "drain")
         /\ Marks(e, "done", outbox[e].attempts, outbox[e].delay)
         /\ job'[w] = NoJob
         /\ UNCHANGED <<posts, userVars, calls, delivered, unread, sentRevs>>
<1> DEFINE e == job[w].entry
<1>1. e \in Entries /\ outbox \in [Entries -> Row]
  BY DEF MarkDone, TypeOK, TablesTyped, WorkersTyped, Holding, Answered
<1>2. Marks(e, "done", outbox[e].attempts, outbox[e].delay)
  BY <1>1, DoneSets DEF MarkDone, Marks, MarkLost
<1> QED
  BY <1>2 DEF MarkDone, Release, Moves, Goto, TypeOK, WorkersTyped, MarkLost

LEMMA ScheduleRetryDoes ==
  ASSUME TypeOK, NEW w \in Workers, ScheduleRetry(w)
  PROVE  LET e == job[w].entry IN
         /\ \E from \in {"settle", "unstored"}, to \in {"drain", "idle"} : Moves(w, from, to)
         /\ Marks(e, "pending", job[w].tries + 1, ComputeBackoff(job[w].tries + 1))
         /\ job'[w] = NoJob
         /\ UNCHANGED <<posts, userVars, calls, delivered, unread, sentRevs>>
<1> DEFINE e == job[w].entry
<1>1. e \in Entries /\ outbox \in [Entries -> Row]
  BY DEF ScheduleRetry, TypeOK, TablesTyped, WorkersTyped, Holding, Answered
<1>2. Marks(e, "pending", job[w].tries + 1, ComputeBackoff(job[w].tries + 1))
  BY <1>1, RetrySets, BackoffTyped, JobTyped
     DEF ScheduleRetry, Marks, MarkLost, TypeOK, WorkersTyped
<1> QED
  BY <1>2 DEF ScheduleRetry, Release, Moves, Goto, TypeOK, WorkersTyped, MarkLost

LEMMA GiveUpDoes ==
  ASSUME TypeOK, NEW w \in Workers, GiveUp(w)
  PROVE  LET e == job[w].entry IN
         /\ \E from \in {"settle", "unstored"} : Moves(w, from, "failload")
         /\ Marks(e, "failed", outbox[e].attempts, outbox[e].delay)
         /\ job' = job
         /\ UNCHANGED <<posts, userVars, calls, delivered, unread, sentRevs>>
<1> DEFINE e == job[w].entry
<1>1. e \in Entries /\ outbox \in [Entries -> Row]
  BY DEF GiveUp, TypeOK, TablesTyped, WorkersTyped, Holding, Answered
<1>2. Marks(e, "failed", outbox[e].attempts, outbox[e].delay)
  BY <1>1, FailedSets DEF GiveUp, Marks, MarkLost
<1> QED
  BY <1>2 DEF GiveUp, Moves, Goto, TypeOK, WorkersTyped, MarkLost

LEMMA LoadFailedDoes ==
  ASSUME TypeOK, NEW w \in Workers, LoadFailed(w)
  PROVE  /\ \/ /\ Moves(w, "failload", "failwrite")
               /\ job'[w] = WithCopy(job[w], posts[PostOf(job[w].entry)])
            \/ Moves(w, "failload", "drain") /\ job'[w] = NoJob
         /\ UNCHANGED <<outbox, posts, userVars, history>>
  BY DEF LoadFailed, Release, Moves, Goto, TypeOK, WorkersTyped

LEMMA StartDoes ==
  ASSUME TypeOK, NEW w \in Workers, Start(w)
  PROVE  /\ Moves(w, "down", "drain") /\ job' = job
         /\ Sweeps
         /\ UNCHANGED <<posts, userVars, history>>
  BY DEF Start, Sweep, Sweeps, Moves, Goto, TypeOK, WorkersTyped

LEMMA SweepTickDoes ==
  ASSUME TypeOK, NEW w \in Workers, SweepTick(w)
  PROVE  /\ Moves(w, "idle", "drain") /\ job' = job
         /\ Sweeps
         /\ UNCHANGED <<posts, userVars, history>>
  BY DEF SweepTick, Sweep, Sweeps, Moves, Goto, TypeOK, WorkersTyped

LEMMA CrashDoes ==
  ASSUME TypeOK, NEW w \in Workers, Crash(w)
  PROVE  /\ Moves(w, pc[w], "down") /\ job'[w] = NoJob
         /\ UNCHANGED <<outbox, posts, userVars, calls, delivered, unread, sentRevs>>
  BY DEF Crash, Release, Moves, Goto, TypeOK, WorkersTyped

\* Time passes for the rows and for what the workers hold; nothing else moves.
LEMMA TickDoes ==
  ASSUME TypeOK, Tick
  PROVE  /\ outbox' \in [Entries -> Row]
         /\ \A e \in Entries : outbox'[e] = OlderRow(outbox[e])
         /\ \A w \in Workers :
              /\ job'[w] = IF pc[w] \in Holding THEN HeldLonger(job[w]) ELSE job[w]
              /\ pc[w] \in Holding => job[w].hold < MaxHold
              /\ job'[w].entry = job[w].entry /\ job'[w].tries = job[w].tries
              /\ job'[w].copy = job[w].copy
         /\ UNCHANGED <<posts, pc, userVars, budget, history>>
<1>1. \A e \in Entries : outbox[e] \in Row
  BY DEF TypeOK, TablesTyped
<1>2. /\ outbox' \in [Entries -> Row]
      /\ \A e \in Entries : outbox'[e] = OlderRow(outbox[e])
  BY <1>1, OlderRowTyped DEF Tick
<1> QED
  BY <1>2, JobTyped DEF Tick, TypeOK, WorkersTyped

LEMMA EnqueueDoes ==
  ASSUME TypeOK, NEW e \in Entries, NEW p \in Posts, Enqueue(e, p)
  PROVE  /\ outbox[e].status = "absent"
         /\ outbox'[e].status = "pending" /\ outbox'[e].attempts = 0
         /\ \A f \in Entries \ {e} : outbox'[f] = outbox[f]
         /\ UNCHANGED <<posts, workerVars, userVars, budget, history>>
<1>1. outbox' = CreateOutbox(outbox, e, p) /\ outbox \in [Entries -> Row]
  BY DEF Enqueue, TypeOK, TablesTyped
<1> QED
  BY <1>1, CreateSets DEF Enqueue

LEMMA RetryWriteDoes ==
  ASSUME TypeOK, NEW e \in Entries, RetryWrite(e)
  PROVE  /\ e \in retrying
         /\ SetsRow(outbox, outbox', e, "pending", 0, 0, 0)
         /\ UNCHANGED <<posts, workerVars, drafts, budget, history>>
  BY RetrySets DEF RetryWrite, TypeOK, TablesTyped

-------------------------------------------------------------------------------
(* What a settled entry proves, in every environment: with any number of   *)
(* workers, stale or not, crashes, failing statements and manual retries.  *)

\* A row counts no more attempts than calls were made, and a settled row had
\* its calls and its message.
RowBacked(e) ==
  /\ outbox[e].attempts <= calls[e]
  /\ outbox[e].status = "failed" => e \in unread \/ calls[e] >= EntryMaxAttempts
  /\ outbox[e].status = "done" => e \in delivered

\* What worker w must have done to be where it is; when it settles an attempt
\* its own count is behind by the call it has just made.
WorkerBacked(w) ==
  LET e == job[w].entry IN
  /\ pc[w] \in Holding => job[w].tries <= calls[e]
  /\ pc[w] \in Answered => job[w].tries + 1 <= calls[e]
  /\ pc[w] = "gone" => e \in unread
  /\ pc[w] \in {"store", "unstored", "markdone"} => e \in delivered

SettleInv ==
  /\ \A e \in Entries : RowBacked(e)
  /\ \A w \in Workers : WorkerBacked(w)

\* Calls, messages and unread posts are never taken back.
HistoryGrows ==
  /\ \A e \in Entries : calls[e] <= calls'[e]
  /\ delivered \subseteq delivered'
  /\ unread \subseteq unread'

\* A row that is as it was, or whose status and attempts are, stays backed.
LEMMA SameRowBacked ==
  ASSUME TypeOK, TypeOK', HistoryGrows, NEW e \in Entries, RowBacked(e),
         outbox'[e].status = outbox[e].status, outbox'[e].attempts = outbox[e].attempts
  PROVE  RowBacked(e)'
<1>1. outbox[e].attempts \in Nat
  BY RowTyped DEF TypeOK, TablesTyped
<1> QED
  BY <1>1, OutboxAssumption, SMTT(20) DEF RowBacked, HistoryGrows, TypeOK, OthersTyped

\* So does a worker that stays where it is.
LEMMA SameWorkerBacked ==
  ASSUME TypeOK, TypeOK', HistoryGrows, NEW w \in Workers, WorkerBacked(w),
         pc'[w] = pc[w], job'[w].entry = job[w].entry, job'[w].tries = job[w].tries
  PROVE  WorkerBacked(w)'
<1>1. job[w].tries \in Nat
  BY JobTyped DEF TypeOK, WorkersTyped
<1>2. CASE pc[w] \in Holding
  <2>1. job[w].entry \in Entries
    BY <1>2 DEF TypeOK, WorkersTyped
  <2> QED
    BY <1>1, <2>1 DEF WorkerBacked, HistoryGrows, TypeOK, OthersTyped
<1>3. CASE pc[w] \notin Holding
  BY <1>3 DEF WorkerBacked, Holding, Answered
<1> QED
  BY <1>2, <1>3

\* And the table as a whole, after a sweep.
LEMMA SweepBacked ==
  ASSUME TypeOK, TypeOK', SettleInv, HistoryGrows,
         Sweeps
  PROVE  \A e \in Entries : RowBacked(e)'
<1> SUFFICES ASSUME NEW e \in Entries PROVE RowBacked(e)'
  OBVIOUS
<1>1. RowBacked(e) /\ outbox[e].attempts \in Nat /\ outbox \in [Entries -> Row]
  BY RowTyped DEF SettleInv, TypeOK, TablesTyped
<1>2. CASE outbox'[e] = outbox[e]
  BY <1>1, <1>2, SameRowBacked
<1>3. CASE outbox'[e].status = "pending" /\ outbox'[e].attempts = outbox[e].attempts
  BY <1>1, <1>3 DEF RowBacked, HistoryGrows, TypeOK, OthersTyped
<1> QED
  BY <1>1, <1>2, <1>3, SweepSets

\* When one worker moves and the table stays, its own new place is what is left
\* to justify.
LEMMA MoveBacked ==
  ASSUME TypeOK, TypeOK', SettleInv, HistoryGrows,
         NEW w \in Workers, NEW from, NEW to, Moves(w, from, to), WorkerBacked(w)'
  PROVE  \A v \in Workers : WorkerBacked(v)'
  BY SameWorkerBacked DEF Moves, SettleInv

LEMMA SameTableBacked ==
  ASSUME TypeOK, TypeOK', SettleInv, HistoryGrows, outbox' = outbox
  PROVE  \A e \in Entries : RowBacked(e)'
  BY SameRowBacked DEF SettleInv

LEMMA NoHistory ==
  ASSUME TypeOK, UNCHANGED <<calls, delivered, unread>>
  PROVE  HistoryGrows
  BY DEF HistoryGrows, TypeOK, OthersTyped

\* One row is set by a mark that is backed; the others stay.
LEMMA MarkBacked ==
  ASSUME TypeOK, TypeOK', SettleInv, HistoryGrows,
         NEW e \in Entries, NEW s, NEW n, NEW d, Marks(e, s, n, d),
         n <= calls'[e],
         s = "failed" => e \in unread' \/ calls'[e] >= EntryMaxAttempts,
         s = "done" => e \in delivered'
  PROVE  \A f \in Entries : RowBacked(f)'
<1>1. CASE outbox' = outbox
  BY <1>1, SameTableBacked
<1>2. CASE SetsRow(outbox, outbox', e, s, n, d, 0)
  <2>1. RowBacked(e)'
    BY <1>2 DEF SetsRow, RowBacked
  <2>2. \A f \in Entries \ {e} : RowBacked(f)'
    BY <1>2, SameRowBacked DEF SetsRow, SettleInv
  <2> QED
    BY <2>1, <2>2
<1> QED
  BY <1>1, <1>2 DEF Marks

LEMMA SettleStep == TypeOK /\ TypeOK' /\ SettleInv /\ [Next]_vars => SettleInv'
<1> SUFFICES ASSUME TypeOK, TypeOK', SettleInv, [Next]_vars PROVE SettleInv'
  OBVIOUS
<1>a. /\ \A e \in Entries : calls[e] \in Nat /\ outbox[e].attempts \in Nat
      /\ \A w \in Workers : job[w].tries \in Nat
  BY JobTyped, RowTyped DEF TypeOK, TablesTyped, WorkersTyped, OthersTyped
<1>b. \A w \in Workers : pc[w] \in Holding \cup FailSteps => job[w].entry \in Entries
  BY DEF TypeOK, WorkersTyped
<1>c. \A w \in Workers : WorkerBacked(w)
  BY DEF SettleInv
<1>1. ASSUME NEW w \in Workers, Claim(w) PROVE SettleInv'
  <2>1. PICK e \in Entries :
          /\ outbox[e].status = "pending"
          /\ SetsRow(outbox, outbox', e, "in_flight", outbox[e].attempts, outbox[e].delay, 0)
          /\ job'[w] = JobFor(e, outbox[e].attempts)
    BY <1>1, ClaimDoes
  <2>2. Moves(w, "drain", "load") /\ HistoryGrows /\ calls' = calls
    BY <1>1, ClaimDoes, NoHistory DEF history
  <2>3. outbox[e].attempts <= calls[e]
    BY DEF SettleInv, RowBacked
  <2>4. WorkerBacked(w)'
    BY <1>a, <2>1, <2>2, <2>3, JobTyped DEF WorkerBacked, Moves, Answered
  <2> QED
    BY <2>1, <2>2, <2>3, <2>4, MoveBacked, MarkBacked DEF SettleInv, Marks
<1>2. ASSUME NEW w \in Workers, LoadPost(w) PROVE SettleInv'
  <2>1. Moves(w, "load", "publish") /\ HistoryGrows /\ outbox' = outbox /\ calls' = calls
    BY <1>2, LoadPostDoes, NoHistory DEF history
  <2>2. job'[w].entry = job[w].entry /\ job'[w].tries = job[w].tries
    <3>1. job[w] \in Job /\ posts[PostOf(job[w].entry)] \in PostRow
      BY <1>2 DEF LoadPost, TypeOK, TablesTyped, WorkersTyped, Holding, Answered, PostOf
    <3> QED
      BY <1>2, <3>1, LoadPostDoes, JobTyped
  <2>3. WorkerBacked(w)'
    BY <1>c, <2>1, <2>2 DEF WorkerBacked, Moves, Holding, Answered
  <2> QED
    BY <2>1, <2>3, MoveBacked, SameTableBacked DEF SettleInv
<1>3. ASSUME NEW w \in Workers, LoadFails(w) PROVE SettleInv'
  <2>1. Moves(w, "load", "gone") /\ HistoryGrows /\ outbox' = outbox /\ job' = job
    BY <1>3 DEF LoadFails, Moves, Goto, HistoryGrows, TypeOK, WorkersTyped, OthersTyped
  <2>2. WorkerBacked(w)'
    BY <1>3, <1>c, <2>1 DEF LoadFails, WorkerBacked, Moves, Holding, Answered
  <2> QED
    BY <2>1, <2>2, MoveBacked, SameTableBacked DEF SettleInv
<1>4. ASSUME NEW w \in Workers, MarkGone(w) PROVE SettleInv'
  <2> DEFINE e == job[w].entry
  <2>1. /\ Moves(w, "gone", "drain") /\ HistoryGrows /\ calls' = calls /\ unread' = unread
        /\ Marks(e, "failed", outbox[e].attempts, outbox[e].delay)
    BY <1>4, MarkGoneDoes, NoHistory DEF history
  <2>2. e \in Entries /\ e \in unread /\ outbox[e].attempts <= calls[e]
    BY <1>b, <1>c, <2>1 DEF Moves, WorkerBacked, SettleInv, RowBacked, Holding, Answered
  <2>3. WorkerBacked(w)'
    BY <2>1 DEF WorkerBacked, Moves, Holding, Answered
  <2> QED
    BY <2>1, <2>2, <2>3, MoveBacked, MarkBacked DEF SettleInv
<1>5. ASSUME NEW w \in Workers, PublishOk(w) PROVE SettleInv'
  <2> DEFINE e == job[w].entry
  <2>1. /\ Moves(w, "publish", "store") /\ outbox' = outbox /\ unread' = unread
        /\ calls'[e] = calls[e] + 1 /\ delivered' = delivered \cup {e}
        /\ \A f \in Entries \ {e} : calls'[f] = calls[f]
    BY <1>5, PublishOkDoes
  <2>2. e \in Entries /\ HistoryGrows
    BY <1>a, <1>b, <2>1 DEF Moves, HistoryGrows, Holding, Answered
  <2>3. job'[w].entry = e /\ job'[w].tries = job[w].tries
    <3>1. job[w] \in Job /\ Sent(job[w].copy) \in PostRow
      BY JobTyped, PostTyped DEF TypeOK, WorkersTyped
    <3> QED
      BY <1>5, <3>1, PublishOkDoes, JobTyped
  <2>4. WorkerBacked(w)'
    BY <1>a, <1>c, <2>1, <2>2, <2>3 DEF WorkerBacked, Moves, Holding, Answered
  <2> QED
    BY <2>1, <2>2, <2>4, MoveBacked, SameTableBacked DEF SettleInv
<1>6. ASSUME NEW w \in Workers, PublishError(w) PROVE SettleInv'
  <2> DEFINE e == job[w].entry
  <2>1. /\ Moves(w, "publish", "settle") /\ outbox' = outbox /\ unread' = unread /\ job' = job
        /\ calls'[e] = calls[e] + 1 /\ delivered' \in {delivered, delivered \cup {e}}
        /\ \A f \in Entries \ {e} : calls'[f] = calls[f]
    BY <1>6, PublishErrorDoes
  <2>2. e \in Entries /\ HistoryGrows
    BY <1>a, <1>b, <2>1 DEF Moves, HistoryGrows, Holding, Answered
  <2>3. WorkerBacked(w)'
    BY <1>a, <1>c, <2>1, <2>2 DEF WorkerBacked, Moves, Holding, Answered
  <2> QED
    BY <2>1, <2>2, <2>3, MoveBacked, SameTableBacked DEF SettleInv
<1>7. ASSUME NEW w \in Workers, StorePost(w) PROVE SettleInv'
  <2>1. Moves(w, "store", "markdone") /\ HistoryGrows /\ outbox' = outbox
        /\ job' = job /\ UNCHANGED <<calls, delivered, unread>>
    BY <1>7, NoHistory DEF StorePost, Moves, Goto, TypeOK, WorkersTyped, history
  <2>2. WorkerBacked(w)'
    BY <1>c, <2>1 DEF WorkerBacked, Moves, Holding, Answered
  <2> QED
    BY <2>1, <2>2, MoveBacked, SameTableBacked DEF SettleInv
<1>8. ASSUME NEW w \in Workers, StoreFails(w) PROVE SettleInv'
  <2>1. Moves(w, "store", "unstored") /\ HistoryGrows /\ outbox' = outbox
        /\ job' = job /\ UNCHANGED <<calls, delivered, unread>>
    BY <1>8, NoHistory DEF StoreFails, Moves, Goto, TypeOK, WorkersTyped, history
  <2>2. WorkerBacked(w)'
    BY <1>c, <2>1 DEF WorkerBacked, Moves, Holding, Answered
  <2> QED
    BY <2>1, <2>2, MoveBacked, SameTableBacked DEF SettleInv
<1>9. ASSUME NEW w \in Workers, MarkDone(w) PROVE SettleInv'
  <2> DEFINE e == job[w].entry
  <2>1. /\ Moves(w, "markdone", "drain") /\ HistoryGrows /\ UNCHANGED <<calls, delivered>>
        /\ Marks(e, "done", outbox[e].attempts, outbox[e].delay)
    BY <1>9, MarkDoneDoes, NoHistory
  <2>2. e \in Entries /\ e \in delivered /\ outbox[e].attempts <= calls[e]
    BY <1>b, <1>c, <2>1 DEF Moves, WorkerBacked, SettleInv, RowBacked, Holding, Answered
  <2>3. WorkerBacked(w)'
    BY <2>1 DEF WorkerBacked, Moves, Holding, Answered
  <2> QED
    BY <2>1, <2>2, <2>3, MoveBacked, MarkBacked DEF SettleInv
<1>10. ASSUME NEW w \in Workers, ScheduleRetry(w) PROVE SettleInv'
  <2> DEFINE e == job[w].entry
             n == job[w].tries + 1
  <2>1. /\ \E from \in {"settle", "unstored"}, to \in {"drain", "idle"} : Moves(w, from, to)
        /\ HistoryGrows /\ UNCHANGED <<calls, delivered>>
        /\ Marks(e, "pending", n, ComputeBackoff(n))
    BY <1>10, ScheduleRetryDoes, NoHistory
  <2>2. e \in Entries /\ n <= calls[e]
    BY <1>b, <1>c, <2>1 DEF Moves, WorkerBacked, Holding, Answered
  <2>3. WorkerBacked(w)'
    BY <2>1 DEF WorkerBacked, Moves, Holding, Answered
  <2> QED
    BY <2>1, <2>2, <2>3, MoveBacked, MarkBacked DEF SettleInv
<1>11. ASSUME NEW w \in Workers, GiveUp(w) PROVE SettleInv'
  <2> DEFINE e == job[w].entry
  <2>1. /\ \E from \in {"settle", "unstored"} : Moves(w, from, "failload")
        /\ HistoryGrows /\ UNCHANGED <<calls, delivered>>
        /\ Marks(e, "failed", outbox[e].attempts, outbox[e].delay)
    BY <1>11, GiveUpDoes, NoHistory
  <2>2. job[w].tries + 1 >= EntryMaxAttempts
    BY <1>11 DEF GiveUp, LastTry
  <2>3. e \in Entries /\ calls[e] >= EntryMaxAttempts /\ outbox[e].attempts <= calls[e]
    BY <1>a, <1>b, <1>c, <2>1, <2>2, OutboxAssumption
       DEF Moves, WorkerBacked, SettleInv, RowBacked, Holding, Answered
  <2>4. WorkerBacked(w)'
    BY <2>1 DEF WorkerBacked, Moves, Holding, Answered
  <2> QED
    BY <2>1, <2>3, <2>4, MoveBacked, MarkBacked DEF SettleInv
<1>12. ASSUME NEW w \in Workers, LoadFailed(w) PROVE SettleInv'
  <2>1. /\ Moves(w, "failload", "failwrite") \/ Moves(w, "failload", "drain")
        /\ HistoryGrows /\ outbox' = outbox
    BY <1>12, LoadFailedDoes, NoHistory DEF history
  <2>2. WorkerBacked(w)'
    BY <2>1 DEF WorkerBacked, Moves, Holding, Answered
  <2> QED
    BY <2>1, <2>2, MoveBacked, SameTableBacked DEF SettleInv
<1>13. ASSUME NEW w \in Workers,
              StoreFailed(w) \/ DrainEnds(w) \/ PollTick(w) \/ Crash(w)
       PROVE  SettleInv'
  <2>1. /\ \E from, to \in Locations : Moves(w, from, to)
        /\ pc'[w] \in {"drain", "idle", "down"}
        /\ HistoryGrows /\ outbox' = outbox
    BY <1>13, NoHistory, CrashDoes
       DEF StoreFailed, DrainEnds, PollTick, Moves, Release, Goto, Locations, FailSteps,
           TypeOK, WorkersTyped, history
  <2>2. WorkerBacked(w)'
    BY <2>1 DEF WorkerBacked, Holding, Answered
  <2> QED
    BY <2>1, <2>2, MoveBacked, SameTableBacked DEF SettleInv
<1>14. ASSUME NEW w \in Workers, Start(w) \/ SweepTick(w) PROVE SettleInv'
  <2>1. /\ Moves(w, "down", "drain") \/ Moves(w, "idle", "drain")
        /\ HistoryGrows /\ Sweeps
    BY <1>14, StartDoes, SweepTickDoes, NoHistory DEF history
  <2>2. WorkerBacked(w)'
    BY <2>1 DEF WorkerBacked, Moves, Holding, Answered
  <2> QED
    BY <2>1, <2>2, MoveBacked, SweepBacked DEF SettleInv
<1>15. ASSUME Tick PROVE SettleInv'
  <2>1. HistoryGrows /\ pc' = pc
    BY <1>15, TickDoes, NoHistory DEF history
  <2>2. \A e \in Entries : RowBacked(e)'
    <3>1. \A e \in Entries : /\ outbox'[e].status = outbox[e].status
                             /\ outbox'[e].attempts = outbox[e].attempts
      BY <1>15, TickDoes, OlderRowTyped DEF TypeOK, TablesTyped
    <3> QED
      BY <2>1, <3>1, SameRowBacked DEF SettleInv
  <2>3. \A w \in Workers : WorkerBacked(w)'
    BY <1>15, <2>1, TickDoes, SameWorkerBacked DEF SettleInv
  <2> QED
    BY <2>2, <2>3 DEF SettleInv
<1>16. ASSUME NEW e \in Entries, NEW p \in Posts, Enqueue(e, p) PROVE SettleInv'
  <2>1. /\ HistoryGrows /\ UNCHANGED workerVars
        /\ outbox'[e].status = "pending" /\ outbox'[e].attempts = 0
        /\ \A f \in Entries \ {e} : outbox'[f] = outbox[f]
    BY <1>16, EnqueueDoes, NoHistory DEF history
  <2>2. RowBacked(e)'
    BY <2>1 DEF RowBacked, TypeOK, OthersTyped
  <2>3. \A f \in Entries : RowBacked(f)'
    BY <2>1, <2>2, SameRowBacked DEF SettleInv
  <2> QED
    BY <2>1, <2>3, SameWorkerBacked DEF SettleInv, workerVars
<1>17. ASSUME NEW e \in Entries, RetryWrite(e) PROVE SettleInv'
  <2>1. /\ HistoryGrows /\ UNCHANGED workerVars /\ calls' = calls
        /\ Marks(e, "pending", 0, 0)
    BY <1>17, RetryWriteDoes, NoHistory DEF Marks, history
  <2>2. \A f \in Entries : RowBacked(f)'
    BY <1>a, <2>1, MarkBacked
  <2> QED
    BY <2>1, <2>2, SameWorkerBacked DEF SettleInv, workerVars
<1>18. ASSUME \/ \E e \in Entries : RetryCheck(e)
              \/ \E p \in Posts : EditLoad(p) \/ EditStore(p) \/ ChangeStatus(p) \/ DeletePost(p)
              \/ UNCHANGED vars
       PROVE  SettleInv'
  <2>1. HistoryGrows /\ outbox' = outbox /\ UNCHANGED workerVars
    BY <1>18, NoHistory
       DEF RetryCheck, EditLoad, EditStore, ChangeStatus, DeletePost, workerVars, history, vars
  <2> QED
    BY <2>1, SameTableBacked, SameWorkerBacked DEF SettleInv, workerVars
<1> QED
  BY <1>1, <1>2, <1>3, <1>4, <1>5, <1>6, <1>7, <1>8, <1>9, <1>10, <1>11, <1>12, <1>13,
     <1>14, <1>15, <1>16, <1>17, <1>18
     DEF Next, ProcessStep, LoopStep, UserStep

LEMMA SettleHolds == Spec => [](TypeOK /\ SettleInv)
<1>1. Init => TypeOK /\ SettleInv
  <2> SUFFICES ASSUME Init PROVE SettleInv
    BY InitTyped
  <2> QED
    BY DEF Init, SettleInv, RowBacked, WorkerBacked, AbsentRow, Holding, Answered
<1>2. TypeOK /\ SettleInv /\ [Next]_vars => (TypeOK /\ SettleInv)'
  BY NextTyped, SettleStep
<1> QED
  BY <1>1, <1>2, PTL DEF Spec

\* An entry that is failed for good was tried as often as its limit allows, or
\* its post could not be read - however slow the workers, and with any number
\* of crashes, failing statements and manual retries.
THEOREM FailedWasTried == Spec => []NeverFailsEarly
<1>1. SettleInv => NeverFailsEarly
  BY DEF SettleInv, RowBacked, NeverFailsEarly
<1> QED
  BY <1>1, SettleHolds, PTL

\* An entry that is done put at least one message into the channel.
THEOREM DoneWasDelivered == Spec => []DoneWasSent
<1>1. SettleInv => DoneWasSent
  BY DEF SettleInv, RowBacked, DoneWasSent
<1> QED
  BY <1>1, SettleHolds, PTL

-------------------------------------------------------------------------------
(* What is done stays done.                                                *)

\* A finished entry stays so when a worker moves that does not hold it afterwards.
LEMMA StaysFree ==
  ASSUME TypeOK, NEW e \in Entries, Finished(e),
         NEW w \in Workers, NEW from, NEW to, Moves(w, from, to), ~Holds(w, e)',
         outbox'[e].status = outbox[e].status, retrying' \subseteq retrying
  PROVE  Finished(e)'
  BY DEF Finished, Holds, Moves

\* An entry that is done can be published again only through a claim that overlaps
\* with the one that finished it or through a retry request whose check came first:
\* with neither under way it is done for good, however slow the workers.
THEOREM DoneIsFinal == Spec => DoneForGood
<1>1. TypeOK /\ [Next]_vars => [StaysFinished]_vars
  <2> SUFFICES ASSUME TypeOK, Next, NEW e \in Entries, Finished(e)
               PROVE  Finished(e)' /\ calls'[e] = calls[e]
    BY DEF StaysFinished
  <2>a. outbox[e].status = "done" /\ e \notin retrying /\ \A w \in Workers : ~Holds(w, e)
    BY DEF Finished
  <2>b. \A w \in Workers : pc[w] \in Holding => job[w].entry \in Entries \ {e}
    BY <2>a DEF Holds, TypeOK, WorkersTyped
  <2>1. ASSUME NEW w \in Workers, Claim(w)
        PROVE  Finished(e)' /\ calls'[e] = calls[e]
    <3>1. PICK f \in Entries :
            /\ outbox[f].status = "pending"
            /\ SetsRow(outbox, outbox', f, "in_flight", outbox[f].attempts, outbox[f].delay, 0)
            /\ job'[w] = JobFor(f, outbox[f].attempts)
      BY <2>1, ClaimDoes
    <3>2. Moves(w, "drain", "load") /\ UNCHANGED <<retrying, calls>>
      BY <2>1, ClaimDoes DEF userVars, history
    <3>3. job'[w].entry = f /\ f # e
      BY <2>a, <3>1, JobTyped, RowTyped DEF TypeOK, TablesTyped
    <3>4. ~Holds(w, e)'
      BY <3>3 DEF Holds
    <3>5. outbox'[e].status = outbox[e].status
      BY <3>1, <3>3 DEF SetsRow
    <3> QED
      BY <3>2, <3>4, <3>5, StaysFree
  <2>2. ASSUME NEW w \in Workers, PublishOk(w) \/ PublishError(w)
        PROVE  Finished(e)' /\ calls'[e] = calls[e]
    <3>1. /\ \E from, to : Moves(w, from, to)
          /\ job'[w].entry = job[w].entry /\ outbox' = outbox /\ retrying' = retrying
      <4>1. job[w] \in Job /\ Sent(job[w].copy) \in PostRow
        BY JobTyped, PostTyped DEF TypeOK, WorkersTyped
      <4> QED
        BY <2>2, <4>1, PublishOkDoes, PublishErrorDoes, JobTyped DEF userVars
    <3>2. pc[w] \in Holding
      BY <2>2 DEF PublishOk, PublishError, Holding
    <3>3. ~Holds(w, e)' /\ calls'[e] = calls[e]
      BY <2>2, <2>b, <3>1, <3>2, PublishOkDoes, PublishErrorDoes DEF Holds
    <3> QED
      BY <3>1, <3>3, StaysFree
  <2>3. ASSUME NEW w \in Workers,
               MarkGone(w) \/ MarkDone(w) \/ ScheduleRetry(w) \/ GiveUp(w)
        PROVE  Finished(e)' /\ calls'[e] = calls[e]
    <3>1. /\ \E from \in Holding, to \in {"drain", "idle", "failload"} : Moves(w, from, to)
          /\ \E s, n, d : Marks(job[w].entry, s, n, d)
          /\ UNCHANGED <<retrying, calls>>
      BY <2>3, MarkGoneDoes, MarkDoneDoes, ScheduleRetryDoes, GiveUpDoes
         DEF Holding, Answered, userVars, history
    <3>2. pc[w] \in Holding /\ ~Holds(w, e)'
      BY <3>1 DEF Holds, Moves, Holding, Answered
    <3>3. outbox'[e].status = outbox[e].status
      BY <2>b, <3>1, <3>2 DEF Marks, SetsRow
    <3> QED
      BY <3>1, <3>2, <3>3, StaysFree
  <2>4. ASSUME NEW w \in Workers, Start(w) \/ SweepTick(w)
        PROVE  Finished(e)' /\ calls'[e] = calls[e]
    <3>1. /\ \E from : Moves(w, from, "drain")
          /\ Sweeps /\ UNCHANGED <<retrying, calls>>
      BY <2>4, StartDoes, SweepTickDoes DEF userVars, history
    <3>2. outbox'[e] = outbox[e]
      BY <2>a, <3>1, SweepSets DEF MayBeStuck, TypeOK, TablesTyped
    <3>3. ~Holds(w, e)'
      BY <3>1 DEF Holds, Moves, Holding, Answered
    <3> QED
      BY <3>1, <3>2, <3>3, StaysFree
  <2>5. ASSUME NEW w \in Workers,
               \/ LoadPost(w) \/ LoadFails(w) \/ StorePost(w) \/ StoreFails(w)
               \/ LoadFailed(w) \/ StoreFailed(w) \/ DrainEnds(w) \/ PollTick(w) \/ Crash(w)
        PROVE  Finished(e)' /\ calls'[e] = calls[e]
    <3>1. /\ \E from, to : Moves(w, from, to)
          /\ UNCHANGED <<outbox, retrying, calls>>
      BY <2>5, LoadPostDoes, LoadFailedDoes, CrashDoes
         DEF LoadFails, StorePost, StoreFails, StoreFailed, DrainEnds, PollTick, Release, Goto,
             Moves, TypeOK, WorkersTyped, userVars, history
    <3>2. pc'[w] \in Holding => pc[w] \in Holding /\ job'[w].entry = job[w].entry
      <4>1. CASE LoadPost(w)
        <5>1. job[w] \in Job /\ posts[PostOf(job[w].entry)] \in PostRow
          BY <4>1 DEF LoadPost, TypeOK, TablesTyped, WorkersTyped, Holding, Answered, PostOf
        <5> QED
          BY <4>1, <5>1, LoadPostDoes, JobTyped DEF Moves, Holding
      <4>2. CASE LoadFails(w) \/ StorePost(w) \/ StoreFails(w)
        BY <4>2 DEF LoadFails, StorePost, StoreFails, Holding, Answered
      <4>3. CASE LoadFailed(w) \/ StoreFailed(w) \/ DrainEnds(w) \/ PollTick(w) \/ Crash(w)
        BY <4>3, LoadFailedDoes, CrashDoes
           DEF StoreFailed, DrainEnds, PollTick, Release, Goto, Moves, Holding, Answered, TypeOK,
               WorkersTyped
      <4> QED
        BY <2>5, <4>1, <4>2, <4>3
    <3>3. ~Holds(w, e)'
      BY <2>b, <3>2 DEF Holds
    <3> QED
      BY <3>1, <3>3, StaysFree
  <2>6. CASE Tick
    <3>1. /\ outbox'[e].status = outbox[e].status
          /\ UNCHANGED <<pc, retrying, calls>>
          /\ \A w \in Workers : job'[w].entry = job[w].entry
      BY <2>6, TickDoes, OlderRowTyped DEF TypeOK, TablesTyped, userVars, history
    <3> QED
      BY <3>1 DEF Finished, Holds
  <2>7. CASE UserStep
    <3>1. /\ outbox'[e] = outbox[e] /\ e \notin retrying' /\ UNCHANGED <<pc, job, calls>>
      <4>1. ASSUME NEW f \in Entries, NEW p \in Posts, Enqueue(f, p)
            PROVE  outbox'[e] = outbox[e] /\ e \notin retrying' /\ UNCHANGED <<pc, job, calls>>
        BY <2>a, <4>1, EnqueueDoes DEF workerVars, userVars, history
      <4>2. ASSUME NEW f \in Entries, RetryWrite(f)
            PROVE  outbox'[e] = outbox[e] /\ e \notin retrying' /\ UNCHANGED <<pc, job, calls>>
        BY <2>a, <4>2, RetryWriteDoes DEF RetryWrite, SetsRow, workerVars, history
      <4>3. ASSUME NEW f \in Entries, RetryCheck(f)
            PROVE  outbox'[e] = outbox[e] /\ e \notin retrying' /\ UNCHANGED <<pc, job, calls>>
        BY <2>a, <4>3 DEF RetryCheck, workerVars, history
      <4>4. ASSUME NEW p \in Posts,
                   EditLoad(p) \/ EditStore(p) \/ ChangeStatus(p) \/ DeletePost(p)
            PROVE  outbox'[e] = outbox[e] /\ e \notin retrying' /\ UNCHANGED <<pc, job, calls>>
        BY <2>a, <4>4
           DEF EditLoad, EditStore, ChangeStatus, DeletePost, workerVars, userVars, history
      <4> QED
        BY <2>7, <4>1, <4>2, <4>3, <4>4 DEF UserStep
    <3> QED
      BY <2>a, <3>1 DEF Finished, Holds
  <2> QED
    BY <2>1, <2>2, <2>3, <2>4, <2>5, <2>6, <2>7 DEF Next, ProcessStep, LoopStep
<1>2. Spec => []TypeOK
  BY TypeCorrect
<1> QED
  BY <1>1, <1>2, PTL DEF Spec, DoneForGood

-------------------------------------------------------------------------------
(* What a worker is about to store.                                        *)

\* A worker about to store holds the copy it sent, with the link to that message.
SentCopy(w) ==
  pc[w] = "store" =>
    /\ job[w].copy.url = job[w].copy.revision
    /\ <<PostOf(job[w].entry), job[w].copy.revision>> \in sentRevs

SentInv == \A w \in Workers : SentCopy(w)

\* No step gives a row another post.
LEMMA NextKeepsRows == TypeOK /\ TypeOK' /\ [Next]_vars => RowsKept
<1> SUFFICES ASSUME TypeOK, TypeOK', [Next]_vars PROVE RowsKept
  OBVIOUS
<1>1. CASE outbox' = outbox
  BY <1>1 DEF RowsKept
<1>2. ASSUME NEW e \in Entries, NEW s \in OutboxStatuses, NEW n, NEW d,
             SetsRow(outbox, outbox', e, s, n, d, 0)
      PROVE  RowsKept
  BY <1>2 DEF SetsRow, RowsKept, OutboxStatuses
<1>3. ASSUME NEW w \in Workers, Claim(w) PROVE RowsKept
  BY <1>2, <1>3, ClaimDoes DEF OutboxStatuses
<1>4. ASSUME NEW w \in Workers,
             MarkGone(w) \/ MarkDone(w) \/ ScheduleRetry(w) \/ GiveUp(w)
      PROVE  RowsKept
  <2>1. job[w].entry \in Entries
    BY <1>4 DEF MarkGone, MarkDone, ScheduleRetry, GiveUp, TypeOK, WorkersTyped, Holding, Answered
  <2> QED
    BY <1>1, <1>2, <1>4, <2>1, MarkGoneDoes, MarkDoneDoes, ScheduleRetryDoes, GiveUpDoes
       DEF Marks, OutboxStatuses
<1>5. CASE Sweeps /\ posts' = posts
  BY <1>5, SweepTyped DEF TypeOK
<1>6. ASSUME NEW w \in Workers, Start(w) \/ SweepTick(w) PROVE RowsKept
  BY <1>1, <1>5, <1>6, StartDoes, SweepTickDoes
<1>7. CASE Tick
  BY <1>7, TickDoes, OlderRowTyped DEF RowsKept, TypeOK, TablesTyped
<1>8. ASSUME NEW e \in Entries, NEW p \in Posts, Enqueue(e, p) PROVE RowsKept
  BY <1>8, EnqueueDoes DEF RowsKept
<1>9. ASSUME NEW e \in Entries, RetryWrite(e) PROVE RowsKept
  BY <1>2, <1>9, RetryWriteDoes DEF OutboxStatuses
<1>10. ASSUME NEW w \in Workers,
              \/ LoadPost(w) \/ LoadFails(w) \/ PublishOk(w) \/ PublishError(w)
              \/ StorePost(w) \/ StoreFails(w) \/ LoadFailed(w) \/ StoreFailed(w)
              \/ DrainEnds(w) \/ PollTick(w) \/ Crash(w)
       PROVE  RowsKept
  BY <1>1, <1>10
     DEF LoadPost, LoadFails, PublishOk, PublishError, StorePost, StoreFails, LoadFailed,
         StoreFailed, DrainEnds, PollTick, Crash
<1>11. CASE \/ \E e \in Entries : RetryCheck(e)
            \/ \E p \in Posts : EditLoad(p) \/ EditStore(p) \/ ChangeStatus(p) \/ DeletePost(p)
            \/ UNCHANGED vars
  BY <1>1, <1>11 DEF RetryCheck, EditLoad, EditStore, ChangeStatus, DeletePost, vars
<1> QED
  BY <1>3, <1>4, <1>6, <1>7, <1>8, <1>9, <1>10, <1>11
     DEF Next, ProcessStep, LoopStep, UserStep

\* Only PublishOk brings a worker to the store; a worker that stands there keeps
\* its copy.
LEMMA ReachesStore ==
  ASSUME TypeOK, [Next]_vars, NEW w \in Workers, pc'[w] = "store"
  PROVE  \/ PublishOk(w)
         \/ /\ pc[w] = "store" /\ job'[w].entry = job[w].entry
            /\ job'[w].copy = job[w].copy
<1>1. ASSUME NEW v \in Workers, NEW from, NEW to, Moves(v, from, to), to # "store"
      PROVE  /\ pc[w] = "store" /\ job'[w].entry = job[w].entry
             /\ job'[w].copy = job[w].copy
  BY <1>1 DEF Moves
<1>2. ASSUME NEW v \in Workers, PublishOk(v)
      PROVE  v = w \/ (pc[w] = "store" /\ job'[w] = job[w])
  BY <1>2, PublishOkDoes DEF Moves
<1>3. ASSUME NEW v \in Workers,
             \/ LoadFails(v) \/ StorePost(v) \/ StoreFails(v) \/ StoreFailed(v)
             \/ DrainEnds(v) \/ PollTick(v)
      PROVE  \E from, to : Moves(v, from, to) /\ to # "store"
  BY <1>3
     DEF LoadFails, StorePost, StoreFails, StoreFailed, DrainEnds, PollTick, Release, Goto, Moves,
         TypeOK, WorkersTyped
<1>4. ASSUME NEW v \in Workers, ProcessStep(v) \/ LoopStep(v) \/ Crash(v)
      PROVE  PublishOk(v) \/ \E from, to : Moves(v, from, to) /\ to # "store"
  BY <1>3, <1>4, ClaimDoes, LoadPostDoes, PublishErrorDoes, MarkGoneDoes, MarkDoneDoes,
     ScheduleRetryDoes, GiveUpDoes, LoadFailedDoes, StartDoes, SweepTickDoes, CrashDoes
     DEF ProcessStep, LoopStep
<1>5. CASE Tick
  BY <1>5, TickDoes
<1>6. CASE UserStep \/ UNCHANGED vars
  BY <1>6
     DEF UserStep, Enqueue, RetryCheck, RetryWrite, EditLoad, EditStore, ChangeStatus, DeletePost,
         workerVars, vars
<1> QED
  BY <1>1, <1>2, <1>4, <1>5, <1>6 DEF Next

\* What was sent is never forgotten.
LEMMA SentGrows == TypeOK /\ [Next]_vars => sentRevs \subseteq sentRevs'
  BY PublishErrorDoes
     DEF Next, ProcessStep, LoopStep, UserStep, Claim, LoadPost, LoadFails, MarkGone, PublishOk,
         StorePost, StoreFails, MarkDone, ScheduleRetry, GiveUp, LoadFailed, StoreFailed, Start,
         DrainEnds, PollTick, SweepTick, Crash, Tick, Enqueue, RetryCheck, RetryWrite, EditLoad,
         EditStore, ChangeStatus, DeletePost, history, vars

LEMMA SentStep == TypeOK /\ TypeOK' /\ SentInv /\ [Next]_vars => SentInv'
<1> SUFFICES ASSUME TypeOK, TypeOK', SentInv, [Next]_vars, NEW w \in Workers, pc'[w] = "store"
             PROVE  /\ job'[w].copy.url = job'[w].copy.revision
                    /\ <<PostOf(job[w].entry)', job'[w].copy.revision>> \in sentRevs'
  BY DEF SentInv, SentCopy
<1>1. CASE PublishOk(w)
  <2>1. job[w] \in Job /\ job[w].copy \in PostRow /\ Sent(job[w].copy) \in PostRow
    BY JobTyped, PostTyped DEF TypeOK, WorkersTyped
  <2>2. /\ job'[w].entry = job[w].entry
        /\ job'[w].copy.url = job[w].copy.revision
        /\ job'[w].copy.revision = job[w].copy.revision
    BY <1>1, <2>1, PublishOkDoes, JobTyped, PostTyped
  <2>3. outbox' = outbox /\ <<PostOf(job[w].entry), job[w].copy.revision>> \in sentRevs'
    BY <1>1, PublishOkDoes
  <2> QED
    BY <2>2, <2>3 DEF PostOf
<1>2. CASE /\ pc[w] = "store" /\ job'[w].entry = job[w].entry
           /\ job'[w].copy = job[w].copy
  <2>1. /\ job[w].copy.url = job[w].copy.revision
        /\ <<PostOf(job[w].entry), job[w].copy.revision>> \in sentRevs
    BY <1>2 DEF SentInv, SentCopy
  <2>2. outbox'[job[w].entry].post = outbox[job[w].entry].post
    BY <1>2, NextKeepsRows DEF RowsKept, TypeOK, WorkersTyped, Holding, Answered
  <2> QED
    BY <1>2, <2>1, <2>2, SentGrows DEF PostOf
<1> QED
  BY <1>1, <1>2, ReachesStore

LEMMA SentHolds == Spec => [](TypeOK /\ SentInv)
<1>1. Init => TypeOK /\ SentInv
  <2> SUFFICES ASSUME Init PROVE SentInv
    BY InitTyped
  <2> QED
    BY DEF Init, SentInv, SentCopy
<1>2. TypeOK /\ SentInv /\ [Next]_vars => (TypeOK /\ SentInv)'
  BY NextTyped, SentStep
<1> QED
  BY <1>1, <1>2, PTL DEF Spec

\* A worker declares published only the revision it sent.
THEOREM PublishedIsWhatWasSent == Spec => PublishesWhatIsStored
<1>1. TypeOK /\ SentInv /\ [Next]_vars => [StoresWhatWasSent]_vars
  <2> SUFFICES ASSUME TypeOK, SentInv, Next, NEW w \in Workers,
                      pc[w] = "store", pc'[w] = "markdone"
               PROVE  LET p == PostOf(job[w].entry) IN
                      /\ <<p, posts[p].revision>> \in sentRevs
                      /\ posts'[p].url = posts[p].revision
    BY DEF StoresWhatWasSent
  <2>1. StorePost(w)
    BY ZenonT(60)
       DEF Next, ProcessStep, LoopStep, UserStep, Claim, LoadPost, LoadFails, MarkGone, PublishOk,
           PublishError, StorePost, StoreFails, MarkDone, ScheduleRetry, GiveUp, LoadFailed,
           StoreFailed, Start, DrainEnds, PollTick, SweepTick, Crash, Tick, Enqueue, RetryCheck,
           RetryWrite, EditLoad, EditStore, ChangeStatus, DeletePost, Release, Goto, workerVars,
           TypeOK, WorkersTyped
  <2> DEFINE p == PostOf(job[w].entry)
             c == job[w].copy
             post == NextRevision(WithStatus(c, "published"))
  <2>2. c \in PostRow /\ p \in Posts /\ posts[p] \in PostRow
    BY JobTyped DEF TypeOK, WorkersTyped, TablesTyped, Holding, Answered, PostOf
  <2>3. post.url = c.url /\ post.revision = c.revision + 1
    BY <2>2, PostTyped DEF Statuses
  <2>4. posts[p].revision = post.revision - 1 /\ posts'[p] = post
    BY <2>1, <2>2 DEF StorePost, RevisionMatches, UpdateRow, TypeOK, TablesTyped
  <2>5. c.revision \in Nat /\ posts[p].revision \in Nat
    BY <2>2, PostTyped
  <2>6. c.url = c.revision /\ <<p, c.revision>> \in sentRevs
    BY DEF SentInv, SentCopy
  <2> HIDE DEF post, c, p
  <2> QED
    BY <2>3, <2>4, <2>5, <2>6 DEF p
<1> QED
  BY <1>1, SentHolds, PTL DEF Spec, PublishesWhatIsStored

-------------------------------------------------------------------------------
(***************************************************************************)
(* Calm weather: every worker finishes an entry before the sweep would     *)
(* take it for stuck, and nobody forces a retry.  Then no entry is worked  *)
(* on twice at a time, the channel sees it a bounded number of times, and  *)
(* the queue implements Delivery.                                          *)
(***************************************************************************)

Calm == MaxHold < StuckThreshold /\ MaxManualRetries = 0

-------------------------------------------------------------------------------
(* The claim.                                                              *)

\* What a worker holds is in flight, for as long as the worker has held it, and
\* with the attempts it read.
HeldRow(w) ==
  LET e == job[w].entry IN
  pc[w] \in Holding =>
    /\ outbox[e].status = "in_flight"
    /\ outbox[e].age = job[w].hold /\ job[w].hold <= MaxHold
    /\ outbox[e].attempts = job[w].tries

ClaimInv ==
  /\ budget.retries = 0 /\ retrying = {}
  /\ \A w \in Workers : HeldRow(w)
  /\ ExclusiveClaim

\* A worker whose row is as it was.
LEMMA SameHeld ==
  ASSUME NEW w \in Workers, HeldRow(w), pc'[w] = pc[w], job'[w] = job[w],
         pc[w] \in Holding => outbox'[job[w].entry] = outbox[job[w].entry]
  PROVE  HeldRow(w)'
  BY DEF HeldRow

\* A worker moves on with the entry it holds, and the table stays.
LEMMA KeepsClaim ==
  ASSUME TypeOK, ClaimInv, NEW w \in Workers, NEW from, NEW to, Moves(w, from, to),
         outbox' = outbox, UNCHANGED retrying, budget'.retries = budget.retries,
         \/ to \notin Holding
         \/ /\ from \in Holding
            /\ job'[w].entry = job[w].entry /\ job'[w].tries = job[w].tries
            /\ job'[w].hold = job[w].hold
  PROVE  ClaimInv'
<1>1. \A v \in Workers : HeldRow(v)'
  BY SameHeld DEF ClaimInv, HeldRow, Moves
<1>2. \A v \in Workers, e \in Entries : Holds(v, e)' => Holds(v, e)
  BY DEF Holds, Moves
<1> QED
  BY <1>1, <1>2 DEF ClaimInv, ExclusiveClaim

\* A worker lets go of its entry; its row may change, no other does.
LEMMA DropsClaim ==
  ASSUME TypeOK, ClaimInv, NEW w \in Workers, NEW from, NEW to, Moves(w, from, to),
         from \in Holding, to \notin Holding,
         NEW s, NEW n, NEW d, Marks(job[w].entry, s, n, d),
         UNCHANGED retrying, budget'.retries = budget.retries
  PROVE  ClaimInv'
<1>1. Holds(w, job[w].entry) /\ job[w].entry \in Entries
  BY DEF Holds, Moves, TypeOK, WorkersTyped
<1>2. \A f \in Entries \ {job[w].entry} : outbox'[f] = outbox[f]
  BY DEF Marks, SetsRow
<1>3. \A v \in Workers \ {w} : pc[v] \in Holding => job[v].entry # job[w].entry
  BY <1>1 DEF ClaimInv, ExclusiveClaim, Holds
<1>4. \A v \in Workers \ {w} : HeldRow(v)'
  BY <1>2, <1>3, SameHeld DEF ClaimInv, Moves, TypeOK, WorkersTyped
<1>5. HeldRow(w)'
  BY DEF HeldRow, Moves
<1>6. \A v \in Workers, e \in Entries : Holds(v, e)' => Holds(v, e)
  BY DEF Holds, Moves
<1> QED
  BY <1>4, <1>5, <1>6 DEF ClaimInv, ExclusiveClaim

\* No sweep takes an entry away from a worker that holds it.
LEMMA SweepSparesHeld ==
  ASSUME Calm, TypeOK, ClaimInv, NEW w \in Workers, pc[w] \in Holding,
         Sweeps
  PROVE  outbox'[job[w].entry] = outbox[job[w].entry]
<1>1. job[w].entry \in Entries /\ outbox \in [Entries -> Row] /\ job[w].hold \in Nat
  BY JobTyped DEF TypeOK, WorkersTyped, TablesTyped
<1>2. ~MayBeStuck(outbox[job[w].entry])
  BY <1>1, OutboxAssumption DEF Calm, ClaimInv, HeldRow, MayBeStuck
<1> QED
  BY <1>1, <1>2, SweepSets

LEMMA ClaimStep == Calm /\ TypeOK /\ TypeOK' /\ ClaimInv /\ [Next]_vars => ClaimInv'
<1> SUFFICES ASSUME Calm, TypeOK, TypeOK', ClaimInv, [Next]_vars PROVE ClaimInv'
  OBVIOUS
<1>a. \A w \in Workers : job[w] \in Job
  BY DEF TypeOK, WorkersTyped
<1>b. \A w \in Workers : pc[w] \in Holding \cup FailSteps =>
        job[w].entry \in Entries /\ PostOf(job[w].entry) \in Posts
  BY DEF TypeOK, WorkersTyped, TablesTyped, PostOf
<1>c. budget.retries = 0 /\ budget \in [faults : Nat, retries : Nat, ops : Nat]
  BY DEF ClaimInv, TypeOK, OthersTyped
<1>1. ASSUME NEW w \in Workers, Claim(w) PROVE ClaimInv'
  <2>1. PICK e \in Entries :
          /\ outbox[e].status = "pending"
          /\ SetsRow(outbox, outbox', e, "in_flight", outbox[e].attempts, outbox[e].delay, 0)
          /\ job'[w] = JobFor(e, outbox[e].attempts)
    BY <1>1, ClaimDoes
  <2>2. Moves(w, "drain", "load") /\ UNCHANGED <<budget, retrying>>
    BY <1>1, ClaimDoes DEF userVars
  <2>3. job'[w].entry = e /\ job'[w].tries = outbox[e].attempts /\ job'[w].hold = 0
    BY <2>1, JobTyped, RowTyped DEF TypeOK, TablesTyped
  <2>4. HeldRow(w)'
    BY <2>1, <2>3, OutboxAssumption DEF HeldRow, SetsRow
  <2>5. \A v \in Workers \ {w} : pc[v] \in Holding => job[v].entry # e
    BY <2>1 DEF ClaimInv, HeldRow
  <2>6. \A v \in Workers \ {w} : HeldRow(v)'
    BY <1>b, <2>1, <2>2, <2>5, SameHeld DEF ClaimInv, Moves, SetsRow
  <2>7. \A v \in Workers, f \in Entries : Holds(v, f)' =>
          (v = w /\ f = e) \/ (v # w /\ f # e /\ Holds(v, f))
    BY <2>2, <2>3, <2>5 DEF Holds, Moves
  <2> QED
    BY <2>2, <2>4, <2>6, <2>7 DEF ClaimInv, ExclusiveClaim
<1>2. ASSUME NEW w \in Workers, LoadPost(w) PROVE ClaimInv'
  <2>1. /\ Moves(w, "load", "publish") /\ UNCHANGED <<outbox, retrying, budget>>
        /\ job'[w] = WithCopy(job[w], posts[PostOf(job[w].entry)])
    BY <1>2, LoadPostDoes DEF userVars
  <2>2. posts[PostOf(job[w].entry)] \in PostRow
    BY <1>b, <2>1 DEF Moves, Holding, Answered, TypeOK, TablesTyped
  <2>3. /\ job'[w].entry = job[w].entry /\ job'[w].tries = job[w].tries
        /\ job'[w].hold = job[w].hold
    BY <1>a, <2>1, <2>2, JobTyped
  <2> QED
    BY <2>1, <2>3, KeepsClaim DEF Holding, Answered
<1>3. ASSUME NEW w \in Workers, PublishOk(w) PROVE ClaimInv'
  <2>1. /\ Moves(w, "publish", "store") /\ UNCHANGED <<outbox, retrying, budget>>
        /\ job'[w] = WithCopy(job[w], Sent(job[w].copy))
    BY <1>3, PublishOkDoes DEF userVars
  <2>2. Sent(job[w].copy) \in PostRow
    BY <1>a, JobTyped, PostTyped
  <2>3. /\ job'[w].entry = job[w].entry /\ job'[w].tries = job[w].tries
        /\ job'[w].hold = job[w].hold
    BY <1>a, <2>1, <2>2, JobTyped
  <2> QED
    BY <2>1, <2>3, KeepsClaim DEF Holding, Answered
<1>4. ASSUME NEW w \in Workers,
             LoadFails(w) \/ PublishError(w) \/ StorePost(w) \/ StoreFails(w)
      PROVE  ClaimInv'
  <2>1. \E from, to \in Holding : Moves(w, from, to)
    BY <1>4, PublishErrorDoes
       DEF LoadFails, StorePost, StoreFails, Moves, Goto, Holding, Answered, TypeOK, WorkersTyped
  <2>2. UNCHANGED <<outbox, job, retrying>> /\ budget'.retries = budget.retries
    BY <1>4, <1>c, PublishErrorDoes
       DEF LoadFails, StorePost, StoreFails, Fault, userVars, history
  <2> QED
    BY <2>1, <2>2, KeepsClaim
<1>5. ASSUME NEW w \in Workers, MarkGone(w) \/ MarkDone(w) \/ ScheduleRetry(w) \/ GiveUp(w)
      PROVE  ClaimInv'
  <2>1. \E from \in Holding : \E to, s, n, d :
          Moves(w, from, to) /\ to \notin Holding /\ Marks(job[w].entry, s, n, d)
    BY <1>5, MarkGoneDoes, MarkDoneDoes, ScheduleRetryDoes, GiveUpDoes DEF Holding, Answered
  <2>2. UNCHANGED retrying /\ budget'.retries = budget.retries
    BY <1>5, <1>c
       DEF MarkGone, MarkDone, ScheduleRetry, GiveUp, MarkLost, Fault, userVars
  <2> QED
    BY <2>1, <2>2, DropsClaim
<1>6. ASSUME NEW w \in Workers,
             LoadFailed(w) \/ StoreFailed(w) \/ DrainEnds(w) \/ PollTick(w) \/ Crash(w)
      PROVE  ClaimInv'
  <2>1. \E from, to : Moves(w, from, to) /\ to \notin Holding
    BY <1>6, LoadFailedDoes, CrashDoes
       DEF StoreFailed, DrainEnds, PollTick, Moves, Release, Goto, Holding, Answered, TypeOK, WorkersTyped
  <2>2. UNCHANGED <<outbox, retrying>> /\ budget'.retries = budget.retries
    BY <1>6, <1>c
       DEF LoadFailed, StoreFailed, DrainEnds, PollTick, Crash, Fault, userVars
  <2> QED
    BY <2>1, <2>2, KeepsClaim
<1>7. ASSUME NEW w \in Workers, Start(w) \/ SweepTick(w) PROVE ClaimInv'
  <2>1. /\ \A v \in Workers : pc'[v] \in Holding => pc[v] = pc'[v]
        /\ job' = job /\ retrying' = retrying
        /\ Sweeps
    BY <1>7, StartDoes, SweepTickDoes DEF Moves, Holding, Answered, userVars
  <2>2. budget'.retries = budget.retries
    BY <1>7, <1>c DEF Start, SweepTick, Sweep, Fault
  <2>3. \A v \in Workers : HeldRow(v)'
    BY <2>1, SweepSparesHeld DEF ClaimInv, HeldRow
  <2>4. \A v \in Workers, e \in Entries : Holds(v, e)' => Holds(v, e)
    BY <2>1 DEF Holds
  <2> QED
    BY <2>1, <2>2, <2>3, <2>4 DEF ClaimInv, ExclusiveClaim
<1>8. ASSUME Tick PROVE ClaimInv'
  <2>1. ASSUME NEW w \in Workers, pc[w] \in Holding PROVE HeldRow(w)'
    <3> DEFINE e == job[w].entry
    <3>1. /\ outbox'[e] = OlderRow(outbox[e]) /\ outbox[e] \in Row
          /\ job'[w] = HeldLonger(job[w]) /\ job[w].hold < MaxHold
          /\ job'[w].entry = e /\ job'[w].tries = job[w].tries
      BY <1>8, <1>b, <2>1, TickDoes DEF TypeOK, TablesTyped
    <3>2. outbox[e].status = "in_flight" /\ outbox[e].age = job[w].hold
          /\ outbox[e].attempts = job[w].tries
      BY <2>1 DEF ClaimInv, HeldRow
    <3>3. job'[w].hold = job[w].hold + 1 /\ job[w].hold \in Nat
      BY <1>a, <3>1, JobTyped
    <3>4. job[w].hold <= StuckThreshold /\ job[w].hold + 1 <= MaxHold
      BY <3>1, <3>3, OutboxAssumption DEF Calm
    <3> QED
      BY <3>1, <3>2, <3>3, <3>4, OlderRowTyped DEF HeldRow
  <2>2. /\ UNCHANGED <<pc, retrying, budget>>
        /\ \A w \in Workers : job'[w].entry = job[w].entry
    BY <1>8, TickDoes DEF userVars
  <2>3. \A w \in Workers : HeldRow(w)'
    BY <2>1, <2>2 DEF HeldRow
  <2>4. \A v \in Workers, e \in Entries : Holds(v, e)' <=> Holds(v, e)
    BY <2>2 DEF Holds
  <2> QED
    BY <2>2, <2>3, <2>4 DEF ClaimInv, ExclusiveClaim
<1>9. ASSUME NEW e \in Entries, NEW p \in Posts, Enqueue(e, p) PROVE ClaimInv'
  <2>1. /\ outbox[e].status = "absent"
        /\ \A f \in Entries \ {e} : outbox'[f] = outbox[f]
        /\ UNCHANGED <<pc, job, retrying, budget>>
    BY <1>9, EnqueueDoes DEF workerVars, userVars
  <2>2. \A w \in Workers : pc[w] \in Holding => job[w].entry \in Entries \ {e}
    BY <1>b, <2>1 DEF ClaimInv, HeldRow
  <2>3. \A w \in Workers : HeldRow(w)'
    BY <2>1, <2>2, SameHeld DEF ClaimInv
  <2> QED
    BY <2>1, <2>3 DEF ClaimInv, ExclusiveClaim, Holds
<1>10. ASSUME NEW e \in Entries, RetryCheck(e) \/ RetryWrite(e) PROVE ClaimInv'
  BY <1>10, <1>c DEF RetryCheck, RetryWrite, ClaimInv
<1>11. CASE \/ \E p \in Posts : EditLoad(p) \/ EditStore(p) \/ ChangeStatus(p) \/ DeletePost(p)
            \/ UNCHANGED vars
  <2>1. UNCHANGED <<outbox, pc, job, retrying>> /\ budget'.retries = budget.retries
    BY <1>11, <1>c
       DEF EditLoad, EditStore, ChangeStatus, DeletePost, UserOp, workerVars, userVars, vars
  <2>2. \A w \in Workers : HeldRow(w)'
    BY <2>1, SameHeld DEF ClaimInv
  <2> QED
    BY <2>1, <2>2 DEF ClaimInv, ExclusiveClaim, Holds
<1> QED
  BY <1>1, <1>2, <1>3, <1>4, <1>5, <1>6, <1>7, <1>8, <1>9, <1>10, <1>11
     DEF Next, ProcessStep, LoopStep, UserStep

LEMMA ClaimsHold == ASSUME Calm PROVE Spec => [](TypeOK /\ ClaimInv)
<1>1. Init => TypeOK /\ ClaimInv
  <2> SUFFICES ASSUME Init PROVE ClaimInv
    BY InitTyped
  <2> QED
    BY DEF Init, Calm, ClaimInv, HeldRow, ExclusiveClaim, Holds, Holding, Answered
<1>2. TypeOK /\ ClaimInv /\ [Next]_vars => (TypeOK /\ ClaimInv)'
  BY NextTyped, ClaimStep
<1> QED
  BY <1>1, <1>2, PTL DEF Spec

\* No two workers work on the same entry at the same time, with any number of
\* workers, entries and crashes.
THEOREM ClaimsAreExclusive == ASSUME Calm PROVE Spec => []ExclusiveClaim
<1>1. ClaimInv => ExclusiveClaim
  BY DEF ClaimInv
<1> QED
  BY <1>1, ClaimsHold, PTL

-------------------------------------------------------------------------------
(* The count of calls.                                                     *)

\* AttemptsAreCounted for one entry, and no attempts where there is no row.
Counted(e) ==
  /\ outbox[e].attempts < EntryMaxAttempts
  /\ outbox[e].status = "absent" => outbox[e].attempts = 0
  /\ Uncounted(e) \in {lost[e], lost[e] + 1}
  /\ Settling(e) \/ outbox[e].status = "done" => Uncounted(e) = lost[e] + 1
  /\ ~Settling(e) /\ outbox[e].status \notin {"done", "failed"} => Uncounted(e) = lost[e]

CountInv == \A e \in Entries : Counted(e)

\* An entry nothing happens to, but that it may be claimed or swept.
LEMMA SameCounted ==
  ASSUME NEW e \in Entries, Counted(e), calls'[e] = calls[e], lost'[e] = lost[e],
         outbox'[e].attempts = outbox[e].attempts,
         \/ outbox'[e].status = outbox[e].status
         \/ /\ outbox[e].status \in {"pending", "in_flight"}
            /\ outbox'[e].status \in {"pending", "in_flight"},
         Settling(e)' <=> Settling(e)
  PROVE  Counted(e)'
  BY DEF Counted, Uncounted

\* Whether an entry is being settled depends on who holds it.
LEMMA OthersSettling ==
  ASSUME TypeOK, NEW w \in Workers, NEW from, NEW to, Moves(w, from, to),
         NEW f \in Entries, ~Holds(w, f), ~Holds(w, f)'
  PROVE  Settling(f)' <=> Settling(f)
  BY DEF Settling, Holds, Moves

\* A worker moves within one attempt, or outside of any.
LEMMA KeepsCount ==
  ASSUME TypeOK, CountInv, NEW w \in Workers, NEW from, NEW to, Moves(w, from, to),
         from \in Answered <=> to \in Answered,
         from \in Answered => job'[w].entry = job[w].entry,
         UNCHANGED <<outbox, calls, lost>>
  PROVE  CountInv'
<1> SUFFICES ASSUME NEW e \in Entries PROVE Counted(e)'
  BY DEF CountInv
<1>1. Settling(e)' <=> Settling(e)
  BY DEF Settling, Holds, Moves, Holding
<1> QED
  BY <1>1, SameCounted DEF CountInv

LEMMA CountStep ==
  Calm /\ TypeOK /\ TypeOK' /\ ClaimInv /\ CountInv /\ [Next]_vars => CountInv'
<1> SUFFICES ASSUME Calm, TypeOK, TypeOK', ClaimInv, CountInv, [Next]_vars PROVE CountInv'
  OBVIOUS
<1>a. /\ \A e \in Entries : /\ calls[e] \in Nat /\ lost[e] \in Nat
                            /\ outbox[e].attempts \in Nat
      /\ \A w \in Workers : job[w] \in Job /\ job[w].tries \in Nat
  BY RowTyped, JobTyped DEF TypeOK, TablesTyped, WorkersTyped, OthersTyped
<1>b. \A w \in Workers : pc[w] \in Holding =>
        /\ job[w].entry \in Entries /\ PostOf(job[w].entry) \in Posts
        /\ outbox[job[w].entry].status = "in_flight"
        /\ outbox[job[w].entry].attempts = job[w].tries
        /\ \A v \in Workers \ {w} : ~Holds(v, job[w].entry)
  BY DEF ClaimInv, HeldRow, ExclusiveClaim, Holds, TypeOK, WorkersTyped, TablesTyped, PostOf
<1>c. \A e \in Entries : Counted(e)
  BY DEF CountInv
<1>1. ASSUME NEW w \in Workers, Claim(w) PROVE CountInv'
  <2>1. PICK e \in Entries :
          /\ outbox[e].status = "pending"
          /\ SetsRow(outbox, outbox', e, "in_flight", outbox[e].attempts, outbox[e].delay, 0)
    BY <1>1, ClaimDoes
  <2>2. Moves(w, "drain", "load") /\ UNCHANGED <<calls, lost>>
    BY <1>1, ClaimDoes DEF history
  <2>3. \A f \in Entries : Settling(f)' <=> Settling(f)
    BY <2>2 DEF Settling, Holds, Moves, Holding, Answered
  <2>4. \A f \in Entries :
          /\ outbox'[f].attempts = outbox[f].attempts
          /\ \/ outbox'[f].status = outbox[f].status
             \/ outbox[f].status = "pending" /\ outbox'[f].status = "in_flight"
    BY <2>1 DEF SetsRow
  <2> QED
    BY <1>c, <2>2, <2>3, <2>4, SameCounted DEF CountInv
<1>2. ASSUME NEW w \in Workers, LoadPost(w) PROVE CountInv'
  BY <1>2, LoadPostDoes, KeepsCount DEF Answered, history
<1>3. ASSUME NEW w \in Workers, LoadFails(w) \/ StorePost(w) \/ StoreFails(w) PROVE CountInv'
  <2>1. \E from, to \in Holding :
          /\ Moves(w, from, to)
          /\ from \in Answered <=> to \in Answered
    BY <1>3 DEF LoadFails, StorePost, StoreFails, Moves, Goto, Holding, Answered, TypeOK, WorkersTyped
  <2>2. UNCHANGED <<outbox, job, calls, lost>>
    BY <1>3 DEF LoadFails, StorePost, StoreFails, history
  <2> QED
    BY <2>1, <2>2, KeepsCount
<1>4. ASSUME NEW w \in Workers, PublishOk(w) \/ PublishError(w) PROVE CountInv'
  <2>e. PICK e \in Entries : e = job[w].entry
    BY <1>4, <1>b DEF PublishOk, PublishError, Holding, Answered
  <2>1. /\ \E to \in {"store", "settle"} : Moves(w, "publish", to)
        /\ UNCHANGED <<outbox, lost>> /\ job'[w].entry = e
        /\ calls'[e] = calls[e] + 1
        /\ \A f \in Entries \ {e} : calls'[f] = calls[f]
    <3>1. Sent(job[w].copy) \in PostRow
      BY <1>a, JobTyped, PostTyped
    <3> QED
      BY <1>4, <1>a, <2>e, <3>1, PublishOkDoes, PublishErrorDoes, JobTyped
  <2>2. outbox[e].status = "in_flight" /\ Holds(w, e)
        /\ \A v \in Workers \ {w} : ~Holds(v, e)
    BY <1>b, <2>e, <2>1 DEF Moves, Holding, Answered, Holds
  <2>3. ~Settling(e) /\ Settling(e)'
    BY <2>1, <2>2 DEF Settling, Holds, Moves, Holding, Answered
  <2>4. Counted(e)'
    <3>1. Uncounted(e) = lost[e] /\ outbox[e].attempts < EntryMaxAttempts
      BY <1>c, <2>2, <2>3 DEF Counted
    <3>2. Uncounted(e)' = lost'[e] + 1
      BY <1>a, <2>1, <3>1 DEF Uncounted
    <3> QED
      BY <2>1, <2>2, <2>3, <3>1, <3>2 DEF Counted
  <2>5. ASSUME NEW f \in Entries \ {e} PROVE Counted(f)'
    <3>1. ~Holds(w, f) /\ ~Holds(w, f)'
      BY <2>e, <2>1, <2>5 DEF Holds
    <3> QED
      BY <1>c, <2>1, <2>5, <3>1, SameCounted, OthersSettling
  <2> QED
    BY <2>4, <2>5 DEF CountInv
<1>5. ASSUME NEW w \in Workers,
             MarkGone(w) \/ MarkDone(w) \/ ScheduleRetry(w) \/ GiveUp(w)
      PROVE  CountInv'
  <2>e. PICK e \in Entries, n \in Nat : e = job[w].entry /\ n = job[w].tries + 1
    BY <1>5, <1>a, <1>b DEF MarkGone, MarkDone, ScheduleRetry, GiveUp, Holding, Answered
  <2>1. /\ \E from \in Holding, to \in {"drain", "idle", "failload"} : Moves(w, from, to)
        /\ UNCHANGED calls
    BY <1>5, MarkGoneDoes, MarkDoneDoes, ScheduleRetryDoes, GiveUpDoes DEF Holding, Answered, history
  <2>2. outbox[e].status = "in_flight" /\ outbox[e].attempts = job[w].tries
        /\ Holds(w, e) /\ \A v \in Workers \ {w} : ~Holds(v, e)
    BY <1>b, <2>e, <2>1 DEF Moves, Holds
  <2>3. \A f \in Entries \ {e} : outbox'[f] = outbox[f] /\ lost'[f] = lost[f]
    <3>1. \A f \in Entries \ {e} : outbox'[f] = outbox[f]
      BY <1>5, <2>e, MarkGoneDoes, MarkDoneDoes, ScheduleRetryDoes, GiveUpDoes
         DEF Marks, SetsRow
    <3>2. \A f \in Entries \ {e} : lost'[f] = lost[f]
      BY <1>5, <2>e
         DEF MarkGone, MarkDone, ScheduleRetry, GiveUp, MarkLost, TypeOK, OthersTyped, history
    <3> QED
      BY <3>1, <3>2
  <2>4. Counted(e)'
    <3>a. ~Settling(e)'
      BY <2>1, <2>2 DEF Settling, Holds, Moves, Holding, Answered
    <3>b. /\ outbox[e].attempts < EntryMaxAttempts
          /\ pc[w] \in Answered => Uncounted(e) = lost[e] + 1
          /\ pc[w] = "gone" => Uncounted(e) = lost[e]
      BY <1>c, <2>2 DEF Counted, Settling, Holds, Answered
    <3>1. CASE MarkGone(w)
      <4>1. /\ pc[w] = "gone" /\ UNCHANGED lost /\ outbox'[e].attempts = outbox[e].attempts
            /\ outbox'[e].status \in {"in_flight", "failed"}
        BY <2>2, <2>e, <3>1, MarkGoneDoes DEF MarkGone, Marks, SetsRow, history
      <4> QED
        BY <1>a, <2>1, <3>a, <3>b, <4>1 DEF Counted, Uncounted
    <3>2. CASE outbox' = outbox /\ lost'[e] = lost[e] + 1 /\ pc[w] \in Answered
      BY <1>a, <2>1, <2>2, <3>2, <3>a, <3>b DEF Counted, Uncounted
    <3>3. CASE MarkDone(w) /\ lost' = lost /\ outbox' = MarkOutboxDone(outbox, e)
      <4>1. outbox'[e].status = "done" /\ outbox'[e].attempts = outbox[e].attempts
        BY <2>2, <3>3, DoneSets DEF SetsRow, TypeOK, TablesTyped
      <4>2. pc[w] \in Answered
        BY <3>3 DEF MarkDone, Answered
      <4> QED
        BY <1>a, <2>1, <3>3, <3>a, <3>b, <4>1, <4>2 DEF Counted, Uncounted
    <3>4. CASE GiveUp(w) /\ lost' = lost /\ outbox' = MarkOutboxFailed(outbox, e)
      <4>1. outbox'[e].status = "failed" /\ outbox'[e].attempts = outbox[e].attempts
        BY <2>2, <3>4, FailedSets DEF SetsRow, TypeOK, TablesTyped
      <4>2. pc[w] \in Answered
        BY <3>4 DEF GiveUp, Answered
      <4> QED
        BY <1>a, <2>1, <3>4, <3>a, <3>b, <4>1, <4>2 DEF Counted, Uncounted
    <3>5. CASE /\ ScheduleRetry(w) /\ lost' = lost
               /\ outbox' = MarkOutboxRetry(outbox, e, n, ComputeBackoff(n))
      <4>1. outbox'[e].attempts = n /\ outbox'[e].status = "pending" /\ n < EntryMaxAttempts
        <5>1. ComputeBackoff(n) \in Int /\ outbox \in [Entries -> Row]
          BY BackoffTyped DEF TypeOK, TablesTyped
        <5>2. outbox'[e].attempts = n /\ outbox'[e].status = "pending"
          BY <3>5, <5>1, RetrySets DEF SetsRow
        <5>3. ~LastTry(w)
          BY <3>5 DEF ScheduleRetry
        <5> QED
          BY <2>e, <5>2, <5>3, OutboxAssumption DEF LastTry
      <4>2. pc[w] \in Answered
        BY <3>5 DEF ScheduleRetry, Answered
      <4> QED
        BY <1>a, <2>1, <2>2, <2>e, <3>5, <3>a, <3>b, <4>1, <4>2 DEF Counted, Uncounted
    <3>c. MarkDone(w) \/ ScheduleRetry(w) \/ GiveUp(w) => pc[w] \in Answered
      BY DEF MarkDone, ScheduleRetry, GiveUp, Answered
    <3> QED
      BY <1>5, <2>2, <2>e, <3>1, <3>2, <3>3, <3>4, <3>5, <3>c
         DEF MarkDone, ScheduleRetry, GiveUp, MarkLost, TypeOK, OthersTyped
  <2>5. ASSUME NEW f \in Entries \ {e} PROVE Counted(f)'
    <3>1. ~Holds(w, f) /\ ~Holds(w, f)'
      BY <2>e, <2>1, <2>5 DEF Holds, Moves, Holding, Answered
    <3> QED
      BY <1>c, <2>1, <2>3, <2>5, <3>1, SameCounted, OthersSettling
  <2> QED
    BY <2>4, <2>5 DEF CountInv
<1>6. ASSUME NEW w \in Workers, Crash(w) PROVE CountInv'
  <2>1. Moves(w, pc[w], "down") /\ UNCHANGED <<outbox, calls>>
    BY <1>6, CrashDoes
  <2>2. CASE pc[w] \in Answered
    <3>e. PICK e \in Entries : e = job[w].entry
      BY <1>b, <2>2 DEF Holding, Answered
    <3>1. lost'[e] = lost[e] + 1 /\ \A f \in Entries \ {e} : lost'[f] = lost[f]
      BY <1>6, <2>2, <3>e DEF Crash, TypeOK, OthersTyped
    <3>2. /\ Holds(w, e) /\ Settling(e) /\ outbox[e].status = "in_flight"
          /\ \A v \in Workers \ {w} : ~Holds(v, e)
      BY <1>b, <2>2, <3>e DEF Settling, Holds, Holding
    <3>3. outbox[e].attempts < EntryMaxAttempts /\ Uncounted(e) = lost[e] + 1
      BY <1>c, <3>2 DEF Counted
    <3>4. ~Settling(e)'
      BY <2>1, <3>2 DEF Settling, Holds, Moves, Holding, Answered
    <3>5. Counted(e)'
      BY <1>a, <2>1, <3>1, <3>2, <3>3, <3>4 DEF Counted, Uncounted
    <3>6. ASSUME NEW f \in Entries \ {e} PROVE Counted(f)'
      <4>1. ~Holds(w, f) /\ ~Holds(w, f)'
        BY <2>1, <3>e, <3>6 DEF Holds, Moves, Holding, Answered
      <4> QED
        BY <1>c, <2>1, <3>1, <3>6, <4>1, SameCounted, OthersSettling
    <3> QED
      BY <3>5, <3>6 DEF CountInv
  <2>3. CASE pc[w] \notin Answered
    BY <1>6, <2>1, <2>3, KeepsCount DEF Crash, Answered
  <2> QED
    BY <2>2, <2>3
<1>7. ASSUME NEW w \in Workers, LoadFailed(w) \/ StoreFailed(w) \/ DrainEnds(w) \/ PollTick(w)
      PROVE  CountInv'
  <2>1. \E from, to : Moves(w, from, to) /\ from \notin Answered /\ to \notin Answered
    BY <1>7, LoadFailedDoes
       DEF StoreFailed, DrainEnds, PollTick, Moves, Release, Goto, Holding, Answered, TypeOK, WorkersTyped
  <2>2. UNCHANGED <<outbox, calls, lost>>
    BY <1>7 DEF LoadFailed, StoreFailed, DrainEnds, PollTick, history
  <2> QED
    BY <2>1, <2>2, KeepsCount DEF Holding, Answered
<1>8. ASSUME NEW w \in Workers, Start(w) \/ SweepTick(w) PROVE CountInv'
  <2>1. /\ \A v \in Workers : pc[v] \in Holding \/ pc'[v] \in Holding => pc'[v] = pc[v]
        /\ job' = job /\ UNCHANGED <<calls, lost>>
        /\ Sweeps
    BY <1>8, StartDoes, SweepTickDoes DEF Moves, Holding, Answered, history
  <2>2. ASSUME NEW e \in Entries PROVE Counted(e)'
    <3>1. outbox[e] \in Row /\ outbox \in [Entries -> Row]
      BY DEF TypeOK, TablesTyped
    <3>2. /\ outbox'[e].attempts = outbox[e].attempts
          /\ \/ outbox'[e].status = outbox[e].status
             \/ outbox[e].status = "in_flight" /\ outbox'[e].status = "pending"
      BY <2>1, <3>1, SweepSets DEF MayBeStuck
    <3>3. Settling(e)' <=> Settling(e)
      BY <2>1 DEF Settling, Holds
    <3> QED
      BY <1>c, <2>1, <3>2, <3>3, SameCounted
  <2> QED
    BY <2>2 DEF CountInv
<1>9. ASSUME Tick PROVE CountInv'
  <2>1. ASSUME NEW e \in Entries PROVE Counted(e)'
    <3>1. /\ outbox'[e].attempts = outbox[e].attempts /\ outbox'[e].status = outbox[e].status
          /\ UNCHANGED <<calls, lost, pc>>
          /\ \A w \in Workers : job'[w].entry = job[w].entry
      BY <1>9, TickDoes, OlderRowTyped DEF TypeOK, TablesTyped, history
    <3>2. Settling(e)' <=> Settling(e)
      BY <3>1 DEF Settling, Holds
    <3> QED
      BY <1>c, <3>1, <3>2, SameCounted
  <2> QED
    BY <2>1 DEF CountInv
<1>10. ASSUME NEW e \in Entries, NEW p \in Posts, Enqueue(e, p) PROVE CountInv'
  <2>1. /\ outbox[e].status = "absent" /\ outbox'[e].status = "pending"
        /\ outbox'[e].attempts = 0
        /\ \A f \in Entries \ {e} : outbox'[f] = outbox[f]
        /\ UNCHANGED <<pc, job, calls, lost>>
    BY <1>10, EnqueueDoes DEF workerVars, history
  <2>2. ~Settling(e) /\ ~Settling(e)'
    BY <1>b, <2>1 DEF Settling, Holds
  <2>3. Counted(e)'
    <3>1. outbox[e].attempts = 0 /\ Uncounted(e) = lost[e]
      BY <1>c, <2>1, <2>2 DEF Counted
    <3> QED
      BY <1>a, <2>1, <2>2, <3>1, OutboxAssumption DEF Counted, Uncounted
  <2>4. ASSUME NEW f \in Entries \ {e} PROVE Counted(f)'
    <3>1. Settling(f)' <=> Settling(f)
      BY <2>1 DEF Settling, Holds
    <3> QED
      BY <1>c, <2>1, <2>4, <3>1, SameCounted
  <2> QED
    BY <2>3, <2>4 DEF CountInv
<1>11. CASE \/ \E e \in Entries : RetryCheck(e) \/ RetryWrite(e)
            \/ \E p \in Posts : EditLoad(p) \/ EditStore(p) \/ ChangeStatus(p) \/ DeletePost(p)
            \/ UNCHANGED vars
  <2>1. UNCHANGED <<outbox, pc, job, calls, lost>>
    BY <1>11
       DEF ClaimInv, RetryCheck, RetryWrite, EditLoad, EditStore, ChangeStatus, DeletePost,
           workerVars, history, vars
  <2>2. \A e \in Entries : Settling(e)' <=> Settling(e)
    BY <2>1 DEF Settling, Holds
  <2> QED
    BY <1>c, <2>1, <2>2, SameCounted DEF CountInv
<1> QED
  BY <1>1, <1>2, <1>3, <1>4, <1>5, <1>6, <1>7, <1>8, <1>9, <1>10, <1>11
     DEF Next, ProcessStep, LoopStep, UserStep

LEMMA CountsHold == ASSUME Calm PROVE Spec => [](TypeOK /\ ClaimInv /\ CountInv)
<1>1. Init => CountInv
  <2> SUFFICES ASSUME Init, NEW e \in Entries PROVE Counted(e)
    BY DEF CountInv
  <2>1. outbox[e] = AbsentRow /\ calls[e] = 0 /\ lost[e] = 0
    BY DEF Init
  <2>2. ~Settling(e)
    BY DEF Init, Settling, Holds, Holding, Answered
  <2> QED
    BY <2>1, <2>2, OutboxAssumption DEF Counted, Uncounted, AbsentRow
<1>2. Calm /\ TypeOK /\ TypeOK' /\ ClaimInv /\ CountInv /\ [Next]_vars => CountInv'
  BY CountStep
<1> QED
  BY <1>1, <1>2, ClaimsHold, PTL DEF Spec

\* The attempts column is short of the calls by exactly the lost ones and the one
\* that is being settled or settled the entry.
THEOREM AttemptsCountCalls == ASSUME Calm PROVE Spec => []AttemptsAreCounted
<1>1. CountInv => AttemptsAreCounted
  BY DEF CountInv, Counted, AttemptsAreCounted
<1> QED
  BY <1>1, CountsHold, PTL

\* The channel sees an entry at most once per attempt its limit allows, plus
\* once for every attempt whose outcome was lost.
THEOREM CallsAreBounded == ASSUME Calm PROVE Spec => []CallsBounded
<1>1. TypeOK /\ CountInv => CallsBounded
  <2> SUFFICES ASSUME TypeOK, CountInv, NEW e \in Entries
               PROVE  calls[e] <= EntryMaxAttempts + lost[e]
    BY DEF CallsBounded
  <2>1. Counted(e) /\ calls[e] \in Nat /\ lost[e] \in Nat /\ outbox[e].attempts \in Nat
    BY RowTyped DEF CountInv, TypeOK, TablesTyped, OthersTyped
  <2> QED
    BY <2>1, OutboxAssumption, SMTT(40) DEF Counted, Uncounted
<1> QED
  BY <1>1, CountsHold, PTL

-------------------------------------------------------------------------------
(* The promise of Delivery.                                                *)

\* The phases of Delivery, as the queue has them.
PhaseMap == [e \in Entries |-> Phase(e)]

\* One entry moves from one phase to another, and no message goes out.
LEMMA PhaseMoves ==
  ASSUME NEW e \in Entries, NEW from, NEW to, Phase(e) = from, Phase(e)' = to,
         \A f \in Entries \ {e} : Phase(f)' = Phase(f), delivered' = delivered
  PROVE  Promise!Move(e, from, to)
<1>1. PhaseMap' = [PhaseMap EXCEPT ![e] = to] /\ PhaseMap[e] = from
  BY DEF PhaseMap
<1> QED
  BY <1>1 DEF Promise!Move, PhaseMap

\* A step in which no entry changes its phase and no message goes out stutters.
LEMMA PhaseStays ==
  ASSUME \A e \in Entries : Phase(e)' = Phase(e), delivered' = delivered
  PROVE  UNCHANGED Promise!vars
  BY DEF Promise!vars

\* The phase depends on the status alone.
LEMMA PhaseOfStatus ==
  ASSUME NEW e \in Entries, outbox[e].status \in OutboxStatuses \cup {"absent"}
  PROVE  /\ outbox[e].status = "absent" => Phase(e) = "none"
         /\ outbox[e].status \in {"pending", "in_flight"} => Phase(e) = "queued"
         /\ outbox[e].status = "done" => Phase(e) = "done"
         /\ outbox[e].status = "failed" => Phase(e) = "failed"
  BY DEF Phase, OutboxStatuses

\* It stays when the status stays, or moves between pending and in_flight.
LEMMA SamePhase ==
  ASSUME NEW e \in Entries,
         \/ outbox'[e].status = outbox[e].status
         \/ /\ outbox[e].status \in {"pending", "in_flight"}
            /\ outbox'[e].status \in {"pending", "in_flight"}
  PROVE  Phase(e)' = Phase(e)
  BY DEF Phase

\* A message for a queued entry.
LEMMA PhaseSend ==
  ASSUME NEW e \in Entries, Phase(e) = "queued", outbox' = outbox,
         delivered' = delivered \cup {e}
  PROVE  Promise!Send(e)
<1>1. PhaseMap' = PhaseMap
  BY DEF PhaseMap, Phase
<1> QED
  BY <1>1 DEF Promise!Send, PhaseMap

\* A mark that settles or requeues a held entry, seen by the clients.
LEMMA MarkMoves ==
  ASSUME TypeOK, NEW e \in Entries, NEW s \in {"pending", "done", "failed"}, NEW n, NEW d,
         outbox[e].status = "in_flight", Marks(e, s, n, d), delivered' = delivered
  PROVE  \/ UNCHANGED Promise!vars
         \/ s # "pending" /\ Promise!Move(e, "queued", s)
<1>1. CASE outbox' = outbox
  <2>1. \A f \in Entries : Phase(f)' = Phase(f)
    BY <1>1, SamePhase
  <2> QED
    BY <2>1, PhaseStays
<1>2. CASE SetsRow(outbox, outbox', e, s, n, d, 0)
  <2>1. \A f \in Entries \ {e} : Phase(f)' = Phase(f)
    BY <1>2, SamePhase DEF SetsRow
  <2>2. CASE s = "pending"
    <3>1. Phase(e)' = Phase(e)
      BY <1>2, <2>2, SamePhase DEF SetsRow
    <3> QED
      BY <2>1, <3>1, PhaseStays
  <2>3. CASE s # "pending"
    <3>1. Phase(e) = "queued" /\ Phase(e)' = s
      BY <1>2, <2>3 DEF Phase, SetsRow
    <3> QED
      BY <2>1, <2>3, <3>1, PhaseMoves
  <2> QED
    BY <2>2, <2>3
<1> QED
  BY <1>1, <1>2 DEF Marks

LEMMA PromiseStep ==
  Calm /\ TypeOK /\ TypeOK' /\ ClaimInv /\ SettleInv /\ [Next]_vars
    => [Promise!Next]_(Promise!vars)
<1> SUFFICES ASSUME Calm, TypeOK, TypeOK', ClaimInv, SettleInv, [Next]_vars
             PROVE  Promise!Next \/ UNCHANGED Promise!vars
  OBVIOUS
<1>a. \A w \in Workers : pc[w] \in Holding =>
        job[w].entry \in Entries /\ outbox[job[w].entry].status = "in_flight"
  BY DEF ClaimInv, HeldRow, TypeOK, WorkersTyped
<1>b. ASSUME UNCHANGED <<outbox, delivered>> PROVE UNCHANGED Promise!vars
  BY <1>b, SamePhase, PhaseStays
<1>1. ASSUME NEW w \in Workers, Claim(w) PROVE UNCHANGED Promise!vars
  <2>1. /\ \A f \in Entries : \/ outbox'[f] = outbox[f]
                              \/ outbox[f].status = "pending" /\ outbox'[f].status = "in_flight"
        /\ delivered' = delivered
    BY <1>1, ClaimDoes DEF SetsRow, history
  <2> QED
    BY <2>1, SamePhase, PhaseStays
<1>2. ASSUME NEW w \in Workers, MarkGone(w) \/ GiveUp(w)
      PROVE  Promise!Next \/ UNCHANGED Promise!vars
  <2>e. PICK e \in Entries : e = job[w].entry /\ outbox[e].status = "in_flight"
    BY <1>2, <1>a DEF MarkGone, GiveUp, Holding, Answered
  <2>1. Marks(e, "failed", outbox[e].attempts, outbox[e].delay) /\ delivered' = delivered
    BY <1>2, <2>e, MarkGoneDoes, GiveUpDoes DEF history
  <2>2. UNCHANGED Promise!vars \/ Promise!GiveUp(e)
    BY <2>e, <2>1, MarkMoves DEF Promise!GiveUp
  <2> QED
    BY <2>2 DEF Promise!Next, Promise!Settle
<1>3. ASSUME NEW w \in Workers, MarkDone(w) PROVE Promise!Next \/ UNCHANGED Promise!vars
  <2>e. PICK e \in Entries : e = job[w].entry /\ outbox[e].status = "in_flight"
    BY <1>3, <1>a DEF MarkDone, Holding, Answered
  <2>1. Marks(e, "done", outbox[e].attempts, outbox[e].delay) /\ delivered' = delivered
    BY <1>3, <2>e, MarkDoneDoes
  <2>2. e \in delivered
    BY <1>3, <2>e DEF MarkDone, SettleInv, WorkerBacked
  <2>3. UNCHANGED Promise!vars \/ Promise!Complete(e)
    BY <2>e, <2>1, <2>2, MarkMoves DEF Promise!Complete
  <2> QED
    BY <2>3 DEF Promise!Next, Promise!Settle
<1>4. ASSUME NEW w \in Workers, ScheduleRetry(w) PROVE UNCHANGED Promise!vars
  <2>e. PICK e \in Entries, n \in Nat :
          e = job[w].entry /\ outbox[e].status = "in_flight" /\ n = job[w].tries + 1
    BY <1>4, <1>a, JobTyped DEF ScheduleRetry, Holding, Answered, TypeOK, WorkersTyped
  <2>1. Marks(e, "pending", n, ComputeBackoff(n)) /\ delivered' = delivered
    BY <1>4, <2>e, ScheduleRetryDoes
  <2> QED
    BY <2>e, <2>1, MarkMoves
<1>5. ASSUME NEW w \in Workers, PublishOk(w) \/ PublishError(w)
      PROVE  Promise!Next \/ UNCHANGED Promise!vars
  <2>e. PICK e \in Entries : e = job[w].entry /\ outbox[e].status = "in_flight"
    BY <1>5, <1>a DEF PublishOk, PublishError, Holding, Answered
  <2>1. outbox' = outbox /\ delivered' \in {delivered, delivered \cup {e}}
    BY <1>5, <2>e, PublishOkDoes, PublishErrorDoes
  <2>2. Phase(e) = "queued"
    BY <2>e DEF Phase
  <2>3. CASE delivered' = delivered
    BY <1>b, <2>1, <2>3
  <2>4. CASE delivered' = delivered \cup {e}
    BY <2>1, <2>2, <2>4, PhaseSend DEF Promise!Next
  <2> QED
    BY <2>1, <2>3, <2>4
<1>6. ASSUME NEW w \in Workers, Start(w) \/ SweepTick(w) PROVE UNCHANGED Promise!vars
  <2>1. Sweeps /\ delivered' = delivered
    BY <1>6, StartDoes, SweepTickDoes DEF history
  <2>2. \A f \in Entries : \/ outbox'[f] = outbox[f]
                           \/ outbox[f].status = "in_flight" /\ outbox'[f].status = "pending"
    BY <2>1, SweepSets DEF MayBeStuck, TypeOK, TablesTyped
  <2> QED
    BY <2>1, <2>2, SamePhase, PhaseStays
<1>7. CASE Tick
  <2>1. \A f \in Entries : outbox'[f].status = outbox[f].status
    BY <1>7, TickDoes, OlderRowTyped DEF TypeOK, TablesTyped
  <2>2. delivered' = delivered
    BY <1>7, TickDoes DEF history
  <2> QED
    BY <2>1, <2>2, SamePhase, PhaseStays
<1>8. ASSUME NEW e \in Entries, NEW p \in Posts, Enqueue(e, p) PROVE Promise!Accept(e)
  <2>1. /\ Phase(e) = "none" /\ Phase(e)' = "queued" /\ delivered' = delivered
        /\ \A f \in Entries \ {e} : Phase(f)' = Phase(f)
    BY <1>8, EnqueueDoes, SamePhase DEF Phase, history
  <2> QED
    BY <2>1, PhaseMoves DEF Promise!Accept
<1>9. ASSUME NEW w \in Workers,
             \/ LoadPost(w) \/ LoadFails(w) \/ StorePost(w) \/ StoreFails(w) \/ LoadFailed(w)
             \/ StoreFailed(w) \/ DrainEnds(w) \/ PollTick(w) \/ Crash(w)
      PROVE  UNCHANGED Promise!vars
  BY <1>b, <1>9
     DEF LoadPost, LoadFails, StorePost, StoreFails, LoadFailed, StoreFailed, DrainEnds, PollTick,
         Crash, history
<1>10. CASE \/ \E e \in Entries : RetryCheck(e) \/ RetryWrite(e)
            \/ \E p \in Posts : EditLoad(p) \/ EditStore(p) \/ ChangeStatus(p) \/ DeletePost(p)
            \/ UNCHANGED vars
  BY <1>b, <1>10
     DEF ClaimInv, RetryCheck, RetryWrite, EditLoad, EditStore, ChangeStatus, DeletePost, history,
         vars
<1> QED
  BY <1>1, <1>2, <1>3, <1>4, <1>5, <1>6, <1>7, <1>8, <1>9, <1>10
     DEF Next, ProcessStep, LoopStep, UserStep, Promise!Next

\* The queue implements Delivery: no late worker and no sweep reopens a settled
\* entry, none is settled twice, and none is reported done without a message.
THEOREM QueueKeepsPromise == ASSUME Calm PROVE Spec => KeepsPromise
<1>1. Init => Promise!Init
  <2> SUFFICES ASSUME Init PROVE Promise!Init
    OBVIOUS
  <2>1. \A e \in Entries : Phase(e) = "none"
    <3> SUFFICES ASSUME NEW e \in Entries PROVE Phase(e) = "none"
      OBVIOUS
    <3>1. outbox[e].status = "absent"
      BY DEF Init, AbsentRow
    <3> QED
      BY <3>1, PhaseOfStatus
  <2> QED
    BY <2>1 DEF Init, Promise!Init
<1>2. Calm /\ TypeOK /\ TypeOK' /\ ClaimInv /\ SettleInv /\ [Next]_vars
        => [Promise!Next]_(Promise!vars)
  BY PromiseStep
<1> QED
  BY <1>1, <1>2, ClaimsHold, SettleHolds, PTL DEF Spec, KeepsPromise, Promise!Spec

===============================================================================
