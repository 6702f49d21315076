----------------------------- MODULE OutboxTable -----------------------------
(***************************************************************************)
(* The outbox_entries table and the SQL statements that change it, as      *)
(* operators from a table to the table after the statement.  The SQLite    *)
(* and PostgreSQL adapters run the same statements (the PostgreSQL claim   *)
(* adds FOR UPDATE SKIP LOCKED, which keeps it atomic).                    *)
(*                                                                         *)
(* Timestamps are kept relative to the clock, so that the model needs no   *)
(* absolute time:                                                          *)
(*   delay  next_attempt_at minus now; at most 0 when the entry is due;    *)
(*   age    now minus updated_at, kept only while the entry is in_flight:  *)
(*          the sweep is the only statement that compares updated_at, and  *)
(*          it compares it on in_flight rows.                              *)
(* Both are differences of whole seconds (or of a coarser unit).  SQLite   *)
(* compares the times as RFC3339Nano texts, which drop the trailing zeros  *)
(* of the fraction: within one second the order of the texts is not that   *)
(* of the times, so a comparison of two equal numbers may go either way.   *)
(***************************************************************************)
EXTENDS Integers

CONSTANTS
  Entries,         \* ids of outbox entries
  Posts,           \* ids of posts
  NoPost,          \* the post of an id no entry has been inserted under
  StuckThreshold,  \* WorkerConfig.StuckThreshold, in units of time
  MaxOverdue       \* bound: how far behind the clock a delay is followed

OutboxStatuses == {"pending", "in_flight", "done", "failed"}

\* A row of the table; status "absent" is an id not inserted yet.
Row == [status : OutboxStatuses \cup {"absent"}, post : Posts \cup {NoPost},
        attempts : Nat, delay : Int, age : Nat]

AbsentRow == [status |-> "absent", post |-> NoPost, attempts |-> 0,
              delay |-> 0, age |-> 0]

\* INSERT of EnqueueForPublish: pending, no attempts, due at once.
CreateOutbox(t, e, p) ==
  [t EXCEPT ![e] = [status |-> "pending", post |-> p, attempts |-> 0,
                    delay |-> 0, age |-> 0]]

Due(t) == {e \in Entries : t[e].status = "pending" /\ t[e].delay <= 0}

\* Surely due: next_attempt_at lies in an earlier second than the clock.
Overdue(t) == {e \in Due(t) : t[e].delay < 0}

\* ORDER BY next_attempt_at ASC LIMIT 1: any of the earliest due entries.
EarliestDue(t) == {e \in Due(t) : \A f \in Due(t) : t[e].delay <= t[f].delay}

\* The claim touches status and updated_at; attempts stays as it was.
ClaimNextOutbox(t, e) ==
  [t EXCEPT ![e] = [@ EXCEPT !.status = "in_flight", !.age = 0]]

\* The three marks select the row by id alone, whatever its status.
MarkOutboxDone(t, e) ==
  [t EXCEPT ![e] = [@ EXCEPT !.status = "done", !.age = 0]]

MarkOutboxRetry(t, e, attempts, delay) ==
  [t EXCEPT ![e] = [@ EXCEPT !.status = "pending", !.attempts = attempts,
                             !.delay = delay, !.age = 0]]

MarkOutboxFailed(t, e) ==
  [t EXCEPT ![e] = [@ EXCEPT !.status = "failed", !.age = 0]]

\* Faults: the limit is compared with <=, or the wrong status is selected.
StuckEarly(row)       == row.status = "in_flight" /\ row.age + 1 >= StuckThreshold
StuckWhenPending(row) == row.status = "pending" /\ row.age > StuckThreshold

\* WHERE status = 'in_flight' AND updated_at < now - threshold: a row last touched
\* in an earlier second than the limit is taken, one touched in that very second
\* may be.
Stuck(row)      == row.status = "in_flight" /\ row.age > StuckThreshold
MayBeStuck(row) == row.status = "in_flight" /\ row.age >= StuckThreshold

\* The sets of entries a sweep may take.
SeenStuck(t) ==
  {S \in SUBSET {e \in Entries : MayBeStuck(t[e])} :
     {e \in Entries : Stuck(t[e])} \subseteq S}

SweepStuckOutbox(t, S) ==
  [e \in Entries |-> IF e \in S
                     THEN [t[e] EXCEPT !.status = "pending", !.age = 0]
                     ELSE t[e]]

\* One unit of time passes.  A delay is followed down to -MaxOverdue and an
\* age up to the first value that is surely stuck.
OlderRow(row) ==
  [row EXCEPT
     !.delay = IF row.status \in {"pending", "in_flight"} /\ @ > -MaxOverdue
               THEN @ - 1 ELSE @,
     !.age   = IF row.status = "in_flight" /\ @ <= StuckThreshold
               THEN @ + 1 ELSE @]

===============================================================================
