------------------------------ MODULE RateLimiter ------------------------------
(***************************************************************************)
(* RateLimitMiddleware: one token bucket per source, refused requests that *)
(* cancel their reservation, and the collector that forgets idle buckets.  *)
(*                                                                         *)
(* Time is counted in ticks.  One token comes back in Interval ticks, so a *)
(* level is counted in ticks too: a token is Interval of them, a duration  *)
(* and the tokens it earns are the same number.                            *)
(***************************************************************************)
EXTENDS Integers, FiniteSets

CONSTANTS
  Requests,      \* requests at a time
  Users,         \* users
  Origins,       \* what a request says about where it comes from
  TrustProxy,    \* TrustProxyHeader
  Burst,         \* tokens in a full bucket
  Interval,      \* ticks for one token
  Second,        \* ticks in a second
  IdleTTL,       \* ticks until an idle bucket may be forgotten
  MaxPause,      \* bound: ticks a request spends inside the middleware
  MaxTime,       \* bound: ticks
  MaxDebt,       \* bound: tokens reserved ahead
  None

ASSUME RateLimiterAssumption ==
  /\ Burst \in Nat \ {0} /\ Interval \in Nat \ {0} /\ Second \in Nat \ {0}
  \* A tick is a millisecond at least: Retry-After rounds up what is not less.
  /\ Second <= 1000
  /\ MaxPause \in Nat /\ MaxTime \in Nat /\ MaxDebt \in Nat
  /\ IsFiniteSet(Requests)
  \* No request sleeps in the middleware until its bucket is forgotten.
  /\ IdleTTL \in Nat /\ MaxPause <= IdleTTL
  /\ TrustProxy \in BOOLEAN
  \* The server always fills in where the connection comes from.
  /\ Origins # {}
  /\ \A o \in Origins : DOMAIN o = {"forwarded", "real", "remote"} /\ o.remote # None

VARIABLES
  now,      \* the clock
  buckets,  \* buckets[k]: the bucket of key k; its key is in DOMAIN buckets
  pc,       \* pc[r]: idle, reserve, decide or cancel
  who,      \* who[r]: user and origin of request r
  due,      \* due[r]: the moment request r may go, by its reservation
  wait,     \* wait[r]: how long request r was told it had to wait, when it is refused
  since,    \* since[r]: when request r entered
  \* History, which no action of the code reads:
  spent,    \* spent[k][t]: tokens of k that were used up for moment t or a later one: by
            \* requests let in, and by refused ones that came too late to cancel
  blurred,  \* keys of which two reservations overlapped
  told      \* told[k]: when the last refused client of k was told to come back, and
            \* whether it cancelled too late

vars == <<now, buckets, pc, who, due, wait, since, spent, blurred, told>>

Full  == Burst * Interval
Times == 0..MaxTime
\* The last moment a reservation may be for.
Horizon == MaxTime + (MaxDebt + 1) * Interval

-------------------------------------------------------------------------------
(* The source of a request.                                                *)

ClientIP(origin) ==
  CASE TrustProxy /\ origin.forwarded # None -> origin.forwarded
    [] TrustProxy /\ origin.forwarded = None /\ origin.real # None -> origin.real
    [] OTHER -> origin.remote

\* The chain of "serve" calls the limiter before the middleware that puts the
\* user into the context.
UserInContext(r) == None

Key(r) == IF UserInContext(r) # None THEN <<"u", UserInContext(r)>>
                                     ELSE <<"ip", ClientIP(who[r].origin)>>

Keys == {<<"u", u>> : u \in Users} \cup
        {<<"ip", a>> : a \in {o[f] : o \in Origins, f \in {"forwarded", "real", "remote"}} \ {None}}

NoBucket == [level |-> 0, last |-> 0, event |-> 0, hit |-> 0, used |-> FALSE]
Bucket   == [level : -((MaxDebt + 1) * Interval)..Full, last : Times,
             event : 0..Horizon, hit : Times, used : BOOLEAN]

TypeOK ==
  /\ now \in Times
  /\ buckets \in [Keys -> Bucket]
  /\ pc \in [Requests -> {"idle", "reserve", "decide", "cancel"}]
  /\ who \in [Requests -> [user : Users \cup {None}, origin : Origins]]
  /\ due \in [Requests -> 0..Horizon]
  /\ wait \in [Requests -> 0..Horizon]
  /\ since \in [Requests -> Times]
  /\ spent \in [Keys -> [0..(MaxTime + 1) -> Nat]]
  /\ blurred \subseteq Keys
  /\ told \in [Keys -> [at : Nat \cup {-1}, late : BOOLEAN]]

Nobody  == [user |-> None, origin |-> CHOOSE o \in Origins : TRUE]
NotTold == [at |-> -1, late |-> FALSE]
Unspent == [t \in 0..(MaxTime + 1) |-> 0]

Init ==
  /\ now = 0
  /\ buckets = [k \in Keys |-> NoBucket]
  /\ pc = [r \in Requests |-> "idle"]
  /\ who = [r \in Requests |-> Nobody]
  /\ due = [r \in Requests |-> 0]
  /\ wait = [r \in Requests |-> 0]
  /\ since = [r \in Requests |-> 0]
  /\ spent = [k \in Keys |-> Unspent]
  /\ blurred = {}
  /\ told = [k \in Keys |-> NotTold]

-------------------------------------------------------------------------------
(* The bucket of golang.org/x/time/rate.                                   *)

Capped(level)      == IF level > Full THEN Full ELSE level
Level(b)           == Capped(b.level + (now - b.last))
\* Reserve takes a token that may not be there yet, and says when it will be.
DueAt(b)           == now + (IF Level(b) < Interval THEN Interval - Level(b) ELSE 0)
Reserved(b)        == [b EXCEPT !.level = Level(b) - Interval, !.last = now, !.event = DueAt(b)]
\* Cancel, before it is due, gives the token back, less what was reserved later.
Refund(b, d)       == Interval - (b.event - d)
\* Fault: nothing comes back.
NoRefund(b, d)     == b
Cancelled(b, d) ==
  IF Refund(b, d) <= 0 THEN b
  ELSE [b EXCEPT !.level = Capped(Level(b) + Refund(b, d)), !.last = now,
                 !.event = IF @ = d /\ d - Interval >= now THEN d - Interval ELSE @]

-------------------------------------------------------------------------------
(* The middleware.                                                         *)

\* Request r has a reservation.
Holds(r)   == pc[r] \in {"decide", "cancel"}
Holding(k) == {r \in Requests : Holds(r) /\ Key(r) = k}

\* The bucket of a key is found or made, under the lock.
Get(r, user, origin) ==
  /\ pc[r] = "idle"
  /\ who' = [who EXCEPT ![r] = [user |-> user, origin |-> origin]]
  /\ LET k == Key(r)' IN
     buckets' = [buckets EXCEPT ![k] =
                   IF @.used THEN [@ EXCEPT !.hit = now]
                   ELSE [level |-> Full, last |-> now, event |-> now, hit |-> now, used |-> TRUE]]
  /\ pc' = [pc EXCEPT ![r] = "reserve"]
  /\ since' = [since EXCEPT ![r] = now]
  /\ UNCHANGED <<now, due, wait, spent, blurred, told>>

Reserve(r) ==
  LET k == Key(r) IN
  /\ pc[r] = "reserve"
  /\ Level(buckets[k]) >= -(MaxDebt * Interval)
  /\ due' = [due EXCEPT ![r] = DueAt(buckets[k])]
  /\ buckets' = [buckets EXCEPT ![k] = Reserved(@)]
  /\ blurred' = IF Holding(k) # {} THEN blurred \cup {k} ELSE blurred
  /\ told' = [told EXCEPT ![k] = NotTold]
  /\ pc' = [pc EXCEPT ![r] = "decide"]
  /\ UNCHANGED <<now, who, wait, since, spent>>

Over(r) ==
  /\ pc' = [pc EXCEPT ![r] = "idle"]
  /\ who' = [who EXCEPT ![r] = Nobody]
  /\ due' = [due EXCEPT ![r] = 0]
  /\ wait' = [wait EXCEPT ![r] = 0]
  /\ since' = [since EXCEPT ![r] = 0]

\* The token that request r has reserved is used up.
Spend(r) ==
  spent' = [spent EXCEPT ![Key(r)] =
              [t \in 0..(MaxTime + 1) |-> IF t <= due[r] THEN @[t] + 1 ELSE @[t]]]

\* Delay() reads the clock: what was due in the future may be due now ...
LetIn(r) ==
  /\ pc[r] = "decide"
  /\ due[r] <= now
  /\ Spend(r)
  /\ Over(r)
  /\ UNCHANGED <<now, buckets, blurred, told>>

\* ... or not yet, and the answer will be 429.
Refuse(r) ==
  /\ pc[r] = "decide"
  /\ due[r] > now
  /\ wait' = [wait EXCEPT ![r] = due[r] - now]
  /\ pc' = [pc EXCEPT ![r] = "cancel"]
  /\ UNCHANGED <<now, buckets, who, due, since, spent, blurred, told>>

\* Fault: the seconds are rounded down.
SecondsDown(delay) == (delay \div Second) * Second
\* Retry-After: whole seconds, and one at least.
RetryAfter(delay)  == Second * (IF delay <= Second THEN 1 ELSE (delay + Second - 1) \div Second)

\* What the client of request r is told, if no reservation was made after its own.
Tell(r, late) ==
  told' = [told EXCEPT ![Key(r)] =
             IF buckets[Key(r)].event = due[r]
             THEN [at |-> now + RetryAfter(wait[r]), late |-> late] ELSE NotTold]

\* Cancel() reads the clock again, and gives the token back ...
Cancel(r) ==
  /\ pc[r] = "cancel"
  /\ due[r] >= now
  /\ buckets' = [buckets EXCEPT ![Key(r)] = Cancelled(@, due[r])]
  /\ Tell(r, FALSE)
  /\ Over(r)
  /\ UNCHANGED <<now, spent, blurred>>

\* ... unless the reservation has fallen due meanwhile.
CancelLate(r) ==
  /\ pc[r] = "cancel"
  /\ due[r] < now
  /\ Spend(r)
  /\ Tell(r, TRUE)
  /\ Over(r)
  /\ UNCHANGED <<now, buckets, blurred>>

\* The collector; its ticker fires now and then.

\* Fault: a bucket is idle as soon as the clock has moved.
IdleAtOnce(b) == b.hit < now
Idle(b)       == b.hit < now - IdleTTL

\* What was spent of k has not come back yet.
Owes(k) == \E s \in 0..now : spent[k][s] * Interval > now - s

\* The configuration may let a bucket be forgotten before it is full again; what
\* was spent by then is forgotten with it.
Gc ==
  /\ \E k \in Keys : buckets[k].used /\ Idle(buckets[k])
  /\ buckets' = [k \in Keys |-> IF Idle(buckets[k]) THEN NoBucket ELSE buckets[k]]
  /\ blurred' = {k \in blurred : ~Idle(buckets[k])}
  /\ told' = [k \in Keys |-> IF Idle(buckets[k]) THEN NotTold ELSE told[k]]
  /\ spent' = [k \in Keys |-> IF Idle(buckets[k]) /\ Owes(k) THEN Unspent ELSE spent[k]]
  /\ UNCHANGED <<now, pc, who, due, wait, since>>

Tick ==
  /\ now < MaxTime
  /\ \A r \in Requests : pc[r] # "idle" => now - since[r] < MaxPause
  /\ now' = now + 1
  /\ UNCHANGED <<buckets, pc, who, due, wait, since, spent, blurred, told>>

Next ==
  \/ \E r \in Requests :
       \/ \E u \in Users \cup {None}, o \in Origins : Get(r, u, o)
       \/ Reserve(r) \/ LetIn(r) \/ Refuse(r) \/ Cancel(r) \/ CancelLate(r)
  \/ Gc
  \/ Tick

Spec == Init /\ [][Next]_vars

-------------------------------------------------------------------------------
(* Properties.                                                             *)

\* Tokens of k used up for the moments s to t.
SpentIn(k, s, t) == spent[k][s] - spent[k][t + 1]

\* In no span of time in which no bucket of a source was forgotten before what was
\* spent had come back are more requests of it let in, and tokens lost to late
\* cancellations, than a full bucket and the tokens that came back meanwhile -
\* whatever reservations were made and cancelled in between, and although idle
\* buckets are forgotten and made anew.
NeverMoreThanTheRate ==
  \A k \in Keys : \A s \in 0..now : \A t \in s..now :
    SpentIn(k, s, t) * Interval <= Full + (t - s)

\* No bucket is filled beyond its size, whatever is given back to it, and no
\* source gets more than the rate.
RateHolds == TypeOK /\ NeverMoreThanTheRate

\* A source whose requests come one at a time pays for those let in, and for a
\* refused one only if its reservation fell due before it could be cancelled: a
\* request is refused only if letting it in would break the rate, the tokens lost
\* in that way counted as spent.
RefusedForAReason ==
  \A r \in Requests :
    pc[r] = "decide" /\ Key(r) \notin blurred /\ due[r] > now =>
      \E s \in 0..now : (SpentIn(Key(r), s, now) + 1) * Interval > Full + (now - s)

\* A refused client that comes back when Retry-After says finds a token, unless
\* another request of its source came after its own.  One whose cancellation came
\* too late has lost its token and finds what a second brings back: at less than
\* one request a second that is not enough.
RetryAfterIsEnough ==
  \A k \in Keys :
    buckets[k].used /\ told[k].at # -1 /\ now >= told[k].at =>
      Level(buckets[k]) >= (IF told[k].late /\ Second < Interval THEN Second ELSE Interval)

===============================================================================
