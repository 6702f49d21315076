--------------------------- MODULE RateLimiterProofs --------------------------
(***************************************************************************)
(* Theorems about RateLimiter: no source gets more than its rate, whatever *)
(* is reserved, cancelled in time or too late, forgotten and made anew; a  *)
(* lone request is refused only for a reason; Retry-After is long enough;  *)
(* and a patient collector forgets nothing that is owed.                   *)
(***************************************************************************)
EXTENDS RateLimiter, FiniteSetTheorems, TLAPS

-------------------------------------------------------------------------------
(* Numbers.                                                                *)

\* The ticks n tokens take to come back.
Cost(n) == n * Interval

\* The cost of tokens, one by one.
LEMMA CostFacts ==
  /\ Interval \in Nat /\ Interval > 0
  /\ Full \in Nat /\ Full >= Interval
  /\ Cost(0) = 0
  /\ \A n \in Nat : Cost(n) \in Nat /\ Cost(n + 1) = Cost(n) + Interval
<1>1. Interval \in Nat /\ Interval > 0 /\ Burst \in Nat /\ Burst > 0
  BY RateLimiterAssumption
<1>2. \A n \in Nat : Cost(n) \in Nat /\ Cost(n + 1) = Cost(n) + Interval
  BY <1>1 DEF Cost
<1>3. PICK m \in Nat : Burst = m + 1
  BY <1>1, Burst - 1 \in Nat
<1>4. Full = m * Interval + Interval /\ m * Interval \in Nat
  BY <1>1, <1>3 DEF Full
<1> QED
  BY <1>1, <1>2, <1>4 DEF Cost

\* Fewer tokens cost less.
LEMMA CostOrder ==
  ASSUME NEW m \in Nat, NEW n \in Nat, m <= n
  PROVE  Cost(m) <= Cost(n)
<1>1. PICK d \in Nat : n = m + d
  BY n - m \in Nat
<1>2. n * Interval = m * Interval + d * Interval /\ d * Interval \in Nat
  BY <1>1, RateLimiterAssumption
<1> QED
  BY <1>2, CostFacts DEF Cost

\* One token at least costs Interval.
LEMMA CostOfOne ==
  ASSUME NEW n \in Nat, n > 0
  PROVE  Cost(n) >= Interval /\ n - 1 \in Nat /\ Cost(n - 1) = Cost(n) - Interval
BY CostFacts, n - 1 \in Nat, (n - 1) + 1 = n

\* Retry-After is never shorter than the delay, nor than a second.
LEMMA RetryAfterCovers ==
  ASSUME NEW delay \in Nat
  PROVE  /\ RetryAfter(delay) \in Nat
         /\ RetryAfter(delay) >= delay /\ RetryAfter(delay) >= Second
<1>1. Second \in Nat /\ Second > 0
  BY RateLimiterAssumption
<1> DEFINE q == (delay + Second - 1) \div Second
<1>2. q \in Nat /\ Second * q \in Nat
  BY <1>1
<1>3. Second * q + Second > delay + Second - 1
  BY <1>1
<1>4. delay > Second => Second * q >= Second
  <2>1. delay > Second => q # 0
    <3>1. q = 0 => Second * q = 0
      BY <1>1
    <3> HIDE DEF q
    <3> QED
      BY <1>1, <1>2, <1>3, <3>1
  <2>2. q # 0 => \E p \in Nat : q = p + 1
    <3> HIDE DEF q
    <3>1. q # 0 => q - 1 \in Nat /\ q = (q - 1) + 1
      BY <1>2
    <3> QED
      BY <3>1
  <2>3. \A p \in Nat : Second * (p + 1) >= Second
    BY <1>1
  <2> QED
    BY <2>1, <2>2, <2>3
<1> QED
  BY <1>1, <1>2, <1>3, <1>4 DEF RetryAfter

-------------------------------------------------------------------------------
(* One bucket.                                                             *)

AnyBucket == [level : Int, last : Nat, event : Nat, hit : Nat, used : BOOLEAN]

\* The moment at which the level of the bucket is zero, if nothing happens.
Zero(b) == b.last - b.level

\* What the bucket says about the reservations that stand; live[s] of them are
\* for moment s or a later one.
\*   Covered: what is reserved has been paid for out of a full bucket;
\*   NoneLater: nothing is reserved beyond the moment the bucket tells;
\*   Queued: what is due in the future is Interval apart;
\*   LastOfDebt: a bucket in debt remembers the last of them.
Covered(b, live) ==
  \A s \in Nat : s <= b.last \/ s <= Zero(b) => Cost(live[s]) <= Full + Zero(b) - s
NoneLater(b, live) ==
  \A s \in Nat : s > b.last /\ s > Zero(b) => live[s] = 0
Queued(b, live, time) ==
  \A s \in Nat : s > time /\ s <= Zero(b) => Cost(live[s]) <= Interval + Zero(b) - s
LastOfDebt(b) ==
  b.level < 0 => b.event = Zero(b)

Sound(b, live, time) ==
  /\ Covered(b, live)
  /\ NoneLater(b, live)
  /\ Queued(b, live, time)
  /\ LastOfDebt(b)

\* One more reservation for moment d, and one less.
More(live, d) == [s \in Nat |-> IF s <= d THEN live[s] + 1 ELSE live[s]]
Less(live, d) == [s \in Nat |-> IF s <= d THEN live[s] - 1 ELSE live[s]]

LEMMA MoreCost ==
  ASSUME NEW live \in [Nat -> Nat], NEW d \in Nat, NEW s \in Nat
  PROVE  /\ live[s] \in Nat /\ Cost(live[s]) \in Nat
         /\ More(live, d)[s] \in Nat /\ Cost(More(live, d)[s]) \in Nat
         /\ s > d => More(live, d)[s] = live[s]
         /\ s <= d => Cost(More(live, d)[s]) = Cost(live[s]) + Interval
<1>1. live[s] \in Nat
  OBVIOUS
<1>2. More(live, d)[s] = IF s <= d THEN live[s] + 1 ELSE live[s]
  BY DEF More
<1>3. (s <= d /\ ~(s > d)) \/ (~(s <= d) /\ s > d)
  OBVIOUS
<1> QED
  BY <1>1, <1>2, <1>3, CostFacts

LEMMA LessCost ==
  ASSUME NEW live \in [Nat -> Nat], NEW d \in Nat, \A s \in Nat : s <= d => live[s] > 0,
         NEW s \in Nat
  PROVE  /\ live[s] \in Nat /\ Less(live, d)[s] \in Nat /\ Cost(live[s]) \in Nat
         /\ Cost(Less(live, d)[s]) \in Nat
         /\ s > d => Less(live, d)[s] = live[s]
         /\ s <= d => /\ Less(live, d)[s] = live[s] - 1
                      /\ Cost(Less(live, d)[s]) = Cost(live[s]) - Interval
<1>1. live[s] \in Nat /\ Cost(live[s]) \in Nat
  BY CostFacts
<1>2. Less(live, d)[s] = IF s <= d THEN live[s] - 1 ELSE live[s]
  BY DEF Less
<1>3. (s <= d /\ ~(s > d)) \/ (~(s <= d) /\ s > d)
  OBVIOUS
<1>4. s <= d => live[s] > 0
  OBVIOUS
<1> QED
  BY <1>1, <1>2, <1>3, <1>4, CostOfOne, CostFacts

\* The bucket after a reservation, field by field.
LEMMA ReservedFields ==
  ASSUME NEW b \in AnyBucket
  PROVE  /\ Reserved(b).level = Level(b) - Interval
         /\ Reserved(b).last = now
         /\ Reserved(b).event = DueAt(b)
         /\ Reserved(b).hit = b.hit
         /\ Reserved(b).used = b.used
BY DEF Reserved, AnyBucket

\* The level at this moment: what was there and what came back, or a full bucket.
LEMMA LevelNow ==
  ASSUME NEW b \in AnyBucket, now \in Nat, b.last <= now, b.level <= Full
  PROVE  /\ Level(b) \in Int /\ Level(b) <= Full /\ Level(b) >= b.level
         /\ \/ Level(b) = now - Zero(b)
            \/ Level(b) = Full /\ Zero(b) + Full < now
BY CostFacts DEF Level, Capped, Zero, AnyBucket

\* A reservation is for this moment, or for the moment the bucket will be empty.
LEMMA ReservedZero ==
  ASSUME NEW b \in AnyBucket, now \in Nat, b.last <= now, b.level <= Full
  PROVE  /\ DueAt(b) \in Nat /\ DueAt(b) >= now
         /\ Zero(Reserved(b)) = now - Level(b) + Interval
         /\ Zero(Reserved(b)) \in Int
         /\ DueAt(b) = IF Zero(Reserved(b)) > now THEN Zero(Reserved(b)) ELSE now
<1>1. Zero(Reserved(b)) = now - (Level(b) - Interval)
  BY ReservedFields DEF Zero
<1> QED
  BY <1>1, LevelNow, CostFacts DEF DueAt

\* It costs one token more, or the first token of a bucket that has been full.
LEMMA ReservedLater ==
  ASSUME NEW b \in AnyBucket, now \in Nat, b.last <= now, b.level <= Full
  PROVE  \/ Zero(Reserved(b)) = Zero(b) + Interval /\ now <= Zero(b) + Full
         \/ Zero(Reserved(b)) = now - Full + Interval /\ Zero(b) + Full < now
<1>1. Zero(b) \in Int /\ Full \in Nat /\ Interval \in Nat
  BY CostFacts DEF Zero, AnyBucket
<1> QED
  BY <1>1, ReservedZero, LevelNow

\* After a reservation the bucket is as sound as it was, and no span that ends at
\* the new reservation, or later, holds more than the rate allows.
LEMMA ReserveSound ==
  ASSUME NEW b \in AnyBucket, now \in Nat, b.last <= now, b.level <= Full,
         NEW live \in [Nat -> Nat], Sound(b, live, now)
  PROVE  /\ Sound(Reserved(b), More(live, DueAt(b)), now)
         /\ \A s \in Nat : s <= DueAt(b) =>
              Cost(More(live, DueAt(b))[s]) <= Full + DueAt(b) - s
<1> DEFINE z == Zero(b)
           y == Zero(Reserved(b))
           d == DueAt(b)
           more == More(live, d)
<1>1. /\ b.last \in Nat /\ z \in Int /\ y \in Int /\ d \in Nat /\ d >= now
      /\ d = IF y > now THEN y ELSE now
  BY ReservedZero DEF Zero, AnyBucket
<1>2. /\ Interval \in Nat /\ Interval > 0 /\ Full \in Nat /\ Full >= Interval
  BY CostFacts
<1>3. \/ y = z + Interval /\ now <= z + Full
      \/ y = now - Full + Interval /\ z + Full < now
  BY ReservedLater
<1>4. \A s \in Nat : /\ live[s] \in Nat /\ Cost(live[s]) \in Nat
                     /\ s > d => more[s] = live[s]
                     /\ s <= d => Cost(more[s]) = Cost(live[s]) + Interval
  BY <1>1, MoreCost
<1>5. Reserved(b).last = now /\ Reserved(b).event = d
      /\ Reserved(b).level = now - y /\ Reserved(b).level \in Int
  BY <1>1, ReservedFields, ReservedZero, LevelNow, <1>2
<1>6. \A s \in Nat : s <= d => Cost(more[s]) <= Full + y - s
  <2> SUFFICES ASSUME NEW s \in Nat, s <= d
               PROVE  Cost(live[s]) + Interval <= Full + y - s
    BY <1>4
  <2>1. CASE s <= b.last \/ s <= z
    <3>1. Cost(live[s]) <= Full + z - s
      BY <2>1 DEF Sound, Covered
    <3> QED
      BY <3>1, <1>1, <1>2, <1>3, <1>4
  <2>2. CASE s > b.last /\ s > z
    <3>1. Cost(live[s]) = 0
      BY <2>2, CostFacts DEF Sound, NoneLater
    <3> QED
      BY <3>1, <2>2, <1>1, <1>2, <1>3
  <2> QED
    BY <2>1, <2>2, <1>1
<1>7. Covered(Reserved(b), more)
  BY <1>1, <1>5, <1>6 DEF Covered
<1>8. NoneLater(Reserved(b), more)
  <2> SUFFICES ASSUME NEW s \in Nat, s > now, s > y
               PROVE  more[s] = 0
    BY <1>5 DEF NoneLater
  <2>1. s > d /\ s > b.last /\ s > z
    BY <1>1, <1>2, <1>3
  <2> QED
    BY <2>1, <1>4 DEF Sound, NoneLater
<1>9. Queued(Reserved(b), more, now)
  <2> SUFFICES ASSUME NEW s \in Nat, s > now, s <= y
               PROVE  Cost(more[s]) <= Interval + y - s
    BY DEF Queued
  <2>1. s <= d /\ Cost(more[s]) = Cost(live[s]) + Interval /\ y = z + Interval
    BY <1>1, <1>2, <1>3, <1>4
  <2>2. CASE s <= z
    <3>1. Cost(live[s]) <= Interval + z - s
      BY <2>2 DEF Sound, Queued
    <3> QED
      BY <3>1, <2>1, <1>1, <1>2, <1>4
  <2>3. CASE s > z
    <3>1. s > b.last
      BY <1>1
    <3>2. Cost(live[s]) = 0
      BY <2>3, <3>1, CostFacts DEF Sound, NoneLater
    <3> QED
      BY <3>2, <2>1, <2>3, <1>1, <1>2
  <2> QED
    BY <2>2, <2>3, <1>1
<1>10. LastOfDebt(Reserved(b))
  BY <1>1, <1>5 DEF LastOfDebt
<1>11. \A s \in Nat : s <= d => Cost(more[s]) <= Full + d - s
  <2> SUFFICES ASSUME NEW s \in Nat, s <= d
               PROVE  Cost(more[s]) <= Full + d - s
    OBVIOUS
  <2>1. Cost(more[s]) <= Full + y - s /\ Cost(more[s]) \in Nat
    BY <1>6, <1>4, <1>2
  <2> QED
    BY <2>1, <1>1, <1>2
<1> QED
  BY <1>7, <1>8, <1>9, <1>10, <1>11 DEF Sound

\* The token of the last reservation comes back whole; one reserved before another
\* is lost.
LEMMA CancelledFields ==
  ASSUME NEW b \in AnyBucket, now \in Nat, b.last <= now, b.level <= Full,
         NEW d \in Nat, d >= now, b.event = d, Zero(b) = d
  PROVE  /\ Cancelled(b, d) \in AnyBucket
         /\ Cancelled(b, d).level = now - d + Interval
         /\ Cancelled(b, d).last = now
         /\ Cancelled(b, d).event = IF d - Interval >= now THEN d - Interval ELSE d
         /\ Cancelled(b, d).hit = b.hit
         /\ Cancelled(b, d).used = b.used
         /\ Zero(Cancelled(b, d)) = d - Interval
<1>1. Interval \in Nat /\ Interval > 0 /\ Full \in Nat /\ Full >= Interval
  BY CostFacts
<1>2. Level(b) = now - d
  BY LevelNow, <1>1
<1>3. Refund(b, d) = Interval /\ ~(Refund(b, d) <= 0)
  BY <1>1 DEF Refund
<1>4. Capped(Level(b) + Refund(b, d)) = now - d + Interval
  BY <1>1, <1>2, <1>3 DEF Capped
<1> DEFINE ev == IF d - Interval >= now THEN d - Interval ELSE d
           c == [b EXCEPT !.level = now - d + Interval, !.last = now, !.event = ev]
<1>5. ev \in Nat /\ now - d + Interval \in Int
  BY <1>1
<1>6. /\ c \in AnyBucket /\ c.level = now - d + Interval /\ c.last = now
      /\ c.event = ev /\ c.hit = b.hit /\ c.used = b.used
  BY <1>5 DEF AnyBucket
<1>7. Cancelled(b, d) = c
  <2>1. Cancelled(b, d) =
          [b EXCEPT !.level = Capped(Level(b) + Refund(b, d)), !.last = now,
                    !.event = IF @ = d /\ d - Interval >= now THEN d - Interval ELSE @]
    BY <1>3 DEF Cancelled
  <2>2. (IF b.event = d /\ d - Interval >= now THEN d - Interval ELSE b.event) = ev
    OBVIOUS
  <2> QED
    BY <2>1, <2>2, <1>4
<1>8. Zero(c) = d - Interval
  BY <1>6, <1>1 DEF Zero
<1> QED
  BY <1>6, <1>7, <1>8

LEMMA CancelledNothing ==
  ASSUME NEW b, NEW d \in Nat, NEW j \in Nat, b.event = d + Cost(j), j > 0
  PROVE  Cancelled(b, d) = b
<1>1. Cost(j) \in Nat /\ Cost(j) >= Interval /\ Interval \in Nat
  BY CostFacts, CostOfOne
<1> QED
  BY <1>1 DEF Cancelled, Refund

\* What is reserved for the future is known to the bucket, which is in debt.
LEMMA FutureIsDebt ==
  ASSUME NEW b \in AnyBucket, now \in Nat, b.last <= now,
         NEW live \in [Nat -> Nat], Sound(b, live, now),
         NEW d \in Nat, d > now, live[d] > 0
  PROVE  Zero(b) >= d /\ b.level < 0 /\ b.event = Zero(b)
<1>1. b.last \in Nat /\ b.level \in Int /\ Zero(b) = b.last - b.level
  BY DEF AnyBucket, Zero
<1>2. live[d] # 0
  OBVIOUS
<1>3. d <= Zero(b)
  BY <1>1, <1>2 DEF Sound, NoneLater
<1> QED
  BY <1>1, <1>3 DEF Sound, LastOfDebt

\* The last reservation is the only one for its moment.
LEMMA LastIsAlone ==
  ASSUME NEW b \in AnyBucket, now \in Nat, b.last <= now,
         NEW live \in [Nat -> Nat], Sound(b, live, now),
         NEW d \in Nat, d > now, live[d] > 0, b.event = d
  PROVE  /\ Zero(b) = d
         /\ \A s \in Nat : s > now /\ s > d - Interval /\ s <= d => live[s] <= 1
<1>1. Zero(b) = d
  BY FutureIsDebt
<1>2. ASSUME NEW s \in Nat, s > now, s > d - Interval, s <= d, live[s] > 1
      PROVE  FALSE
  <2>1. live[s] \in Nat /\ Interval \in Nat
    BY CostFacts
  <2>2. Cost(live[s]) <= Interval + d - s
    BY <1>1, <1>2 DEF Sound, Queued
  <2>3. Cost(2) = Interval + Interval /\ Cost(2) <= Cost(live[s])
    BY <1>2, <2>1, CostFacts, CostOrder, 0 + 1 = 1, 1 + 1 = 2
  <2>4. Cost(live[s]) \in Nat
    BY <2>1, CostFacts
  <2> QED
    BY <1>2, <2>1, <2>2, <2>3, <2>4
<1> QED
  BY <1>1, <1>2

\* After a cancelled reservation the bucket is as sound as it was.
LEMMA CancelSound ==
  ASSUME NEW b \in AnyBucket, now \in Nat, b.last <= now, b.level <= Full,
         NEW live \in [Nat -> Nat], Sound(b, live, now),
         NEW d \in Nat, d >= now, \A s \in Nat : s <= d => live[s] > 0,
         NEW j \in Nat, b.event = d + Cost(j), b.event = Zero(b)
  PROVE  Sound(Cancelled(b, d), Less(live, d), now)
<1> DEFINE z == Zero(b)
           less == Less(live, d)
           c == Cancelled(b, d)
<1>1. /\ b.last \in Nat /\ z \in Int /\ live[d] > 0
      /\ Interval \in Nat /\ Interval > 0 /\ Full \in Nat /\ Full >= Interval
  BY CostFacts DEF Zero, AnyBucket
<1>2. b.event = z
  OBVIOUS
<1>3. \A s \in Nat : /\ live[s] \in Nat /\ less[s] \in Nat /\ Cost(live[s]) \in Nat
                     /\ Cost(less[s]) \in Nat
                     /\ s > d => less[s] = live[s]
                     /\ s <= d => /\ less[s] = live[s] - 1
                                  /\ Cost(less[s]) = Cost(live[s]) - Interval
  BY LessCost
<1>4. CASE j > 0
  <2>1. c = b
    BY <1>4, CancelledNothing
  <2>2. \A s \in Nat : Cost(less[s]) <= Cost(live[s]) /\ (live[s] = 0 => less[s] = 0)
    BY <1>1, <1>3
  <2>3. Covered(b, less)
    <3> SUFFICES ASSUME NEW s \in Nat, s <= b.last \/ s <= z
                 PROVE  Cost(less[s]) <= Full + z - s
      BY DEF Covered
    <3>1. Cost(live[s]) <= Full + z - s
      BY DEF Sound, Covered
    <3> QED
      BY <3>1, <2>2, <1>1, <1>3
  <2>4. NoneLater(b, less)
    BY <2>2 DEF Sound, NoneLater
  <2>5. Queued(b, less, now)
    <3> SUFFICES ASSUME NEW s \in Nat, s > now, s <= z
                 PROVE  Cost(less[s]) <= Interval + z - s
      BY DEF Queued
    <3>1. Cost(live[s]) <= Interval + z - s
      BY DEF Sound, Queued
    <3> QED
      BY <3>1, <2>2, <1>1, <1>3
  <2> QED
    BY <2>1, <2>3, <2>4, <2>5 DEF Sound
<1>5. CASE j = 0
  <2>1. b.event = d /\ z = d
    BY <1>2, <1>5, CostFacts
  <2>2. /\ c.level = now - d + Interval /\ c.last = now
        /\ c.event = IF d - Interval >= now THEN d - Interval ELSE d
        /\ Zero(c) = d - Interval
    BY <2>1, CancelledFields
  <2>3. Covered(c, less)
    <3> SUFFICES ASSUME NEW s \in Nat, s <= now \/ s <= d - Interval
                 PROVE  Cost(less[s]) <= Full + (d - Interval) - s
      BY <2>2 DEF Covered
    <3>1. s <= d
      BY <1>1
    <3>2. Cost(live[s]) <= Full + d - s
      BY <3>1, <2>1 DEF Sound, Covered
    <3> QED
      BY <3>1, <3>2, <1>1, <1>3
  <2>4. NoneLater(c, less)
    <3> SUFFICES ASSUME NEW s \in Nat, s > now, s > d - Interval
                 PROVE  less[s] = 0
      BY <2>2 DEF NoneLater
    <3>1. CASE s <= d
      <4>0. d > now
        BY <3>1
      <4>1. live[s] <= 1 /\ live[s] > 0
        BY <3>1, <4>0, <1>1, <2>1, LastIsAlone
      <4> QED
        BY <4>1, <3>1, <1>3
    <3>2. CASE s > d
      <4>1. s > b.last /\ s > z
        BY <3>2, <2>1, <1>1
      <4>2. live[s] = 0
        BY <4>1 DEF Sound, NoneLater
      <4> QED
        BY <4>2, <3>2, <1>3
    <3> QED
      BY <3>1, <3>2
  <2>5. Queued(c, less, now)
    <3> SUFFICES ASSUME NEW s \in Nat, s > now, s <= d - Interval
                 PROVE  Cost(less[s]) <= Interval + (d - Interval) - s
      BY <2>2 DEF Queued
    <3>1. s <= d
      BY <1>1
    <3>2. Cost(live[s]) <= Interval + d - s
      BY <3>1, <2>1 DEF Sound, Queued
    <3> QED
      BY <3>1, <3>2, <1>1, <1>3
  <2>6. LastOfDebt(c)
    <3> SUFFICES ASSUME now - d + Interval < 0
                 PROVE  c.event = d - Interval
      BY <2>2 DEF LastOfDebt
    <3> QED
      BY <2>2, <1>1
  <2> QED
    BY <2>3, <2>4, <2>5, <2>6 DEF Sound
<1> QED
  BY <1>4, <1>5

-------------------------------------------------------------------------------
(* The reservations that stand.                                            *)

\* Requests with key k that wait for moment s or a later one.
Booked(k, s) == {r \in Requests : Holds(r) /\ Key(r) = k /\ due[r] >= s}
\* Tokens of k used up for moment s or a later one.
Passed(k, s) == IF s <= MaxTime + 1 THEN spent[k][s] ELSE 0
\* Both: nobody is counted twice, and a refused request no more.
Live(k) == [s \in Nat |-> Passed(k, s) + Cardinality(Booked(k, s))]

\* A request belongs to a source the limiter knows.
LEMMA KeyTyped ==
  ASSUME TypeOK, NEW r \in Requests
  PROVE  Key(r) \in Keys
<1>1. who[r].origin \in Origins
  BY DEF TypeOK
<1>2. ClientIP(who[r].origin) \in
        {o[f] : o \in Origins, f \in {"forwarded", "real", "remote"}} \ {None}
  BY <1>1, RateLimiterAssumption DEF ClientIP
<1> QED
  BY <1>2 DEF Key, Keys, UserInContext

\* A bucket is what the lemmas about one bucket are about.
LEMMA BucketTyped ==
  ASSUME TypeOK, NEW k \in Keys
  PROVE  buckets[k] \in AnyBucket /\ buckets[k].level <= Full
<1>1. buckets[k] \in Bucket
  BY DEF TypeOK
<1>2. MaxDebt \in Nat /\ MaxTime \in Nat /\ Interval \in Nat /\ Full \in Nat
  BY CostFacts, RateLimiterAssumption
<1>3. (MaxDebt + 1) * Interval \in Nat
  BY <1>2
<1> QED
  BY <1>1, <1>2, <1>3 DEF Bucket, AnyBucket, Times, Horizon

LEMMA DueTyped ==
  ASSUME TypeOK
  PROVE  /\ now \in Nat /\ now <= MaxTime /\ MaxTime \in Nat /\ MaxPause \in Nat
         /\ \A r \in Requests : due[r] \in Nat /\ wait[r] \in Nat /\ since[r] \in Nat
<1>1. MaxDebt \in Nat /\ MaxTime \in Nat /\ Interval \in Nat /\ MaxPause \in Nat
  BY RateLimiterAssumption
<1>2. (MaxDebt + 1) * Interval \in Nat
  BY <1>1
<1> QED
  BY <1>1, <1>2 DEF TypeOK, Times, Horizon

LEMMA BookedFinite ==
  ASSUME NEW k, NEW s
  PROVE  IsFiniteSet(Booked(k, s)) /\ Cardinality(Booked(k, s)) \in Nat
<1>1. IsFiniteSet(Booked(k, s))
  BY RateLimiterAssumption, FS_Subset, Booked(k, s) \subseteq Requests DEF Booked
<1> QED
  BY <1>1, FS_CardinalityType

LEMMA LiveTyped ==
  ASSUME TypeOK, NEW k \in Keys
  PROVE  /\ Live(k) \in [Nat -> Nat]
         /\ \A s \in Nat : /\ Passed(k, s) \in Nat
                           /\ Live(k)[s] = Passed(k, s) + Cardinality(Booked(k, s))
<1>1. MaxTime \in Nat /\ spent[k] \in [0..(MaxTime + 1) -> Nat]
  BY RateLimiterAssumption DEF TypeOK
<1>2. \A s \in Nat : Passed(k, s) \in Nat
  BY <1>1 DEF Passed
<1> QED
  BY <1>2, BookedFinite DEF Live

\* Of a request that stays where it is the key and the reservation stay too.
Stays(q) == pc'[q] = pc[q] /\ who'[q] = who[q] /\ due'[q] = due[q]

LEMMA SameKey ==
  ASSUME NEW q, who'[q] = who[q]
  PROVE  Key(q)' = Key(q)
BY DEF Key, ClientIP, UserInContext

\* The holders of a source do not change when only others move.
LEMMA SameBooked ==
  ASSUME NEW k, NEW r,
         \A q \in Requests \ {r} : Stays(q),
         ~(Holds(r) /\ Key(r) = k), ~(Holds(r)' /\ Key(r)' = k)
  PROVE  /\ Holding(k)' = Holding(k)
         /\ \A q \in Holding(k) : due'[q] = due[q] /\ pc'[q] = pc[q]
         /\ \A s \in Nat : Booked(k, s)' = Booked(k, s)
<1>1. \A q \in Requests \ {r} :
        /\ pc'[q] = pc[q] /\ Key(q)' = Key(q) /\ due'[q] = due[q]
        /\ Holds(q)' <=> Holds(q)
  BY SameKey DEF Stays, Holds
<1>2. /\ Holding(k)' = Holding(k)
      /\ \A q \in Holding(k) : due'[q] = due[q] /\ pc'[q] = pc[q]
  BY <1>1 DEF Holding
<1>3. ASSUME NEW s \in Nat
      PROVE  Booked(k, s)' = Booked(k, s)
  BY <1>1 DEF Booked
<1> QED
  BY <1>2, <1>3

\* A request joins those that wait, and leaves them.
LEMMA JoinBooked ==
  ASSUME NEW r \in Requests, NEW k, Key(r) = k, \A q \in Requests \ {r} : Stays(q),
         ~Holds(r), Holds(r)', who'[r] = who[r]
  PROVE  /\ Holding(k)' = Holding(k) \cup {r}
         /\ \A q \in Holding(k) : due'[q] = due[q] /\ pc'[q] = pc[q]
         /\ \A s \in Nat :
              /\ r \notin Booked(k, s)
              /\ Booked(k, s)' =
                   IF s <= due'[r] THEN Booked(k, s) \cup {r} ELSE Booked(k, s)
<1>1. \A q \in Requests : Key(q)' = Key(q)
  BY SameKey DEF Stays
<1>2. \A q \in Requests \ {r} :
        pc'[q] = pc[q] /\ due'[q] = due[q] /\ (Holds(q)' <=> Holds(q))
  BY DEF Stays, Holds
<1>3. {q \in Requests : Holds(q)' /\ Key(q)' = k} = Holding(k) \cup {r}
  BY <1>1, <1>2 DEF Holding
<1>4. {q \in Requests : Holds(q)' /\ Key(q)' = k} = Holding(k)'
  BY DEF Holding
<1>5. \A q \in Holding(k) : due'[q] = due[q] /\ pc'[q] = pc[q]
  BY <1>2 DEF Holding
<1>6. ASSUME NEW s \in Nat
      PROVE  /\ r \notin Booked(k, s)
             /\ Booked(k, s)' = IF s <= due'[r] THEN Booked(k, s) \cup {r} ELSE Booked(k, s)
  <2>1. r \notin Booked(k, s)
    BY DEF Booked
  <2>2. Booked(k, s)' =
          {q \in Requests : Holds(q)' /\ Key(q)' = k /\ due'[q] >= s}
    BY DEF Booked
  <2>3. (due'[r] >= s) <=> (s <= due'[r])
    OBVIOUS
  <2>4. \A q \in Requests :
          (Holds(q)' /\ Key(q)' = k /\ due'[q] >= s) <=>
            (q \in Booked(k, s) \/ (q = r /\ s <= due'[r]))
    BY <1>1, <1>2, <2>1, <2>3 DEF Booked
  <2>5. Booked(k, s) \subseteq Requests
    BY DEF Booked
  <2> QED
    BY <2>1, <2>2, <2>4, <2>5
<1> QED
  BY <1>1, <1>3, <1>4, <1>5, <1>6

LEMMA LeaveBooked ==
  ASSUME NEW r \in Requests, NEW k, Key(r) = k, \A q \in Requests \ {r} : Stays(q),
         Holds(r), ~Holds(r)'
  PROVE  /\ Holding(k)' = Holding(k) \ {r} /\ r \in Holding(k)
         /\ \A q \in Holding(k) \ {r} : due'[q] = due[q] /\ pc'[q] = pc[q]
         /\ \A s \in Nat :
              /\ r \in Booked(k, s) <=> due[r] >= s
              /\ Booked(k, s)' = Booked(k, s) \ {r}
<1>1. \A q \in Requests \ {r} :
        /\ pc'[q] = pc[q] /\ due'[q] = due[q] /\ Key(q)' = Key(q)
        /\ Holds(q)' <=> Holds(q)
  BY SameKey DEF Stays, Holds
<1>2. {q \in Requests : Holds(q)' /\ Key(q)' = k} = Holding(k) \ {r}
  BY <1>1 DEF Holding
<1>3. {q \in Requests : Holds(q)' /\ Key(q)' = k} = Holding(k)'
  BY DEF Holding
<1>4. /\ r \in Holding(k)
      /\ \A q \in Holding(k) \ {r} : due'[q] = due[q] /\ pc'[q] = pc[q]
  BY <1>1 DEF Holding
<1>5. ASSUME NEW s \in Nat
      PROVE  /\ r \in Booked(k, s) <=> due[r] >= s
             /\ Booked(k, s)' = Booked(k, s) \ {r}
  <2>1. r \in Booked(k, s) <=> due[r] >= s
    BY DEF Booked
  <2>2. Booked(k, s)' = {q \in Requests : Holds(q)' /\ Key(q)' = k /\ due'[q] >= s}
    BY DEF Booked
  <2>3. \A q \in Requests :
          (Holds(q)' /\ Key(q)' = k /\ due'[q] >= s) <=>
            (q \in Booked(k, s) /\ q # r)
    BY <1>1 DEF Booked
  <2>4. Booked(k, s) \subseteq Requests
    BY DEF Booked
  <2> QED
    BY <2>1, <2>2, <2>3, <2>4
<1> QED
  BY <1>2, <1>3, <1>4, <1>5

\* What stands, after each kind of step.
LEMMA LiveSame ==
  ASSUME NEW k, spent'[k] = spent[k], \A s \in Nat : Booked(k, s)' = Booked(k, s)
  PROVE  Live(k)' = Live(k) /\ \A s \in Nat : Passed(k, s)' = Passed(k, s)
<1>1. \A s \in Nat : Passed(k, s)' = Passed(k, s)
  BY DEF Passed
<1>2. Live(k)' = [s \in Nat |-> Passed(k, s)' + Cardinality(Booked(k, s)')]
  BY DEF Live
<1> QED
  BY <1>1, <1>2 DEF Live

LEMMA LiveMore ==
  ASSUME NEW r \in Requests, NEW k, Key(r) = k, \A q \in Requests \ {r} : Stays(q),
         ~Holds(r), Holds(r)', who'[r] = who[r], spent'[k] = spent[k],
         TypeOK, k \in Keys
  PROVE  Live(k)' = More(Live(k), due'[r])
<1>1. \A s \in Nat : Passed(k, s)' = Passed(k, s)
  BY DEF Passed
<1>2. Live(k)' = [s \in Nat |-> Passed(k, s)' + Cardinality(Booked(k, s)')]
  BY DEF Live
<1>3. ASSUME NEW s \in Nat
      PROVE  Passed(k, s)' + Cardinality(Booked(k, s)') =
               IF s <= due'[r] THEN Live(k)[s] + 1 ELSE Live(k)[s]
  <2>1. Live(k)[s] = Passed(k, s) + Cardinality(Booked(k, s)) /\ Passed(k, s) \in Nat
    BY LiveTyped
  <2>2. IsFiniteSet(Booked(k, s)) /\ Cardinality(Booked(k, s)) \in Nat
    BY BookedFinite
  <2>3. CASE s <= due'[r]
    <3>1. Booked(k, s)' = Booked(k, s) \cup {r} /\ r \notin Booked(k, s)
      BY <2>3, JoinBooked
    <3>2. Cardinality(Booked(k, s) \cup {r}) = Cardinality(Booked(k, s)) + 1
      BY <3>1, <2>2, FS_AddElement
    <3> QED
      BY <1>1, <2>1, <2>2, <2>3, <3>1, <3>2
  <2>4. CASE ~(s <= due'[r])
    <3>1. Booked(k, s)' = Booked(k, s)
      BY <2>4, JoinBooked
    <3> QED
      BY <1>1, <2>1, <2>4, <3>1
  <2> QED
    BY <2>3, <2>4
<1> QED
  BY <1>2, <1>3 DEF More

LEMMA LiveLess ==
  ASSUME NEW r \in Requests, NEW k, Key(r) = k, \A q \in Requests \ {r} : Stays(q),
         Holds(r), ~Holds(r)', spent'[k] = spent[k],
         TypeOK, k \in Keys
  PROVE  /\ Live(k)' = Less(Live(k), due[r])
         /\ \A s \in Nat : s <= due[r] => Live(k)[s] > 0
         /\ \A s \in Nat : Passed(k, s)' = Passed(k, s)
<1>1. \A s \in Nat : Passed(k, s)' = Passed(k, s)
  BY DEF Passed
<1>2. Live(k)' = [s \in Nat |-> Passed(k, s)' + Cardinality(Booked(k, s)')]
  BY DEF Live
<1>3. ASSUME NEW s \in Nat
      PROVE  /\ Passed(k, s)' + Cardinality(Booked(k, s)') =
                  IF s <= due[r] THEN Live(k)[s] - 1 ELSE Live(k)[s]
             /\ s <= due[r] => Live(k)[s] > 0
  <2>1. Live(k)[s] = Passed(k, s) + Cardinality(Booked(k, s)) /\ Passed(k, s) \in Nat
    BY LiveTyped
  <2>2. IsFiniteSet(Booked(k, s)) /\ Cardinality(Booked(k, s)) \in Nat
    BY BookedFinite
  <2>3. Booked(k, s)' = Booked(k, s) \ {r} /\ (r \in Booked(k, s) <=> due[r] >= s)
    BY LeaveBooked
  <2>4. due[r] \in Nat
    BY DueTyped
  <2>5. CASE s <= due[r]
    <3>1. r \in Booked(k, s)
      BY <2>3, <2>4, <2>5
    <3>2. Cardinality(Booked(k, s) \ {r}) = Cardinality(Booked(k, s)) - 1
      BY <3>1, <2>2, FS_RemoveElement
    <3>3. Cardinality(Booked(k, s)) # 0
      BY <3>1, <2>2, FS_EmptySet
    <3> QED
      BY <1>1, <2>1, <2>2, <2>3, <2>5, <3>2, <3>3
  <2>6. CASE ~(s <= due[r])
    <3>1. r \notin Booked(k, s)
      BY <2>3, <2>4, <2>6
    <3>2. Booked(k, s) \ {r} = Booked(k, s)
      BY <3>1
    <3> QED
      BY <1>1, <2>1, <2>3, <2>6, <3>2
  <2> QED
    BY <2>5, <2>6
<1> QED
  BY <1>1, <1>2, <1>3 DEF Less

\* A token that is used up is counted once more as passed and once less as booked.
LEMMA LivePassed ==
  ASSUME NEW r \in Requests, NEW k, Key(r) = k, \A q \in Requests \ {r} : Stays(q),
         Holds(r), ~Holds(r)',
         spent'[k] = [t \in 0..(MaxTime + 1) |->
                          IF t <= due[r] THEN spent[k][t] + 1 ELSE spent[k][t]],
         TypeOK, k \in Keys, due[r] <= now
  PROVE  /\ Live(k)' = Live(k)
         /\ \A s \in Nat : s > due[r] => Passed(k, s)' = Passed(k, s)
<1>1. due[r] \in Nat /\ due[r] <= MaxTime /\ MaxTime \in Nat
  BY DueTyped
<1>2. \A s \in Nat : Passed(k, s)' = IF s <= due[r] THEN Passed(k, s) + 1 ELSE Passed(k, s)
  BY <1>1 DEF Passed
<1>3. Live(k)' = [s \in Nat |-> Passed(k, s)' + Cardinality(Booked(k, s)')]
  BY DEF Live
<1>4. ASSUME NEW s \in Nat
      PROVE  Passed(k, s)' + Cardinality(Booked(k, s)') = Live(k)[s]
  <2>1. Live(k)[s] = Passed(k, s) + Cardinality(Booked(k, s)) /\ Passed(k, s) \in Nat
    BY LiveTyped
  <2>2. IsFiniteSet(Booked(k, s)) /\ Cardinality(Booked(k, s)) \in Nat
    BY BookedFinite
  <2>3. Booked(k, s)' = Booked(k, s) \ {r} /\ (r \in Booked(k, s) <=> due[r] >= s)
    BY LeaveBooked
  <2>4. CASE s <= due[r]
    <3>1. r \in Booked(k, s)
      BY <2>3, <2>4, <1>1
    <3>2. Cardinality(Booked(k, s) \ {r}) = Cardinality(Booked(k, s)) - 1
      BY <3>1, <2>2, FS_RemoveElement
    <3> QED
      BY <1>2, <2>1, <2>2, <2>3, <2>4, <3>2
  <2>5. CASE ~(s <= due[r])
    <3>1. r \notin Booked(k, s)
      BY <2>3, <2>5, <1>1
    <3>2. Booked(k, s) \ {r} = Booked(k, s)
      BY <3>1
    <3> QED
      BY <1>2, <2>1, <2>3, <2>5, <3>2
  <2> QED
    BY <2>4, <2>5
<1>5. Live(k) = [s \in Nat |-> Live(k)[s]]
  BY LiveTyped
<1>6. \A s \in Nat : s > due[r] => ~(s <= due[r])
  BY <1>1
<1> QED
  BY <1>2, <1>3, <1>4, <1>5, <1>6

-------------------------------------------------------------------------------
(* The invariant.                                                          *)

Clocked(k) == buckets[k].last <= now /\ buckets[k].hit <= now

\* Nothing is used up ahead of time.
NotYet(k) == \A s \in Nat : s > now => Passed(k, s) = 0

\* The token of r will come back if r cancels now.
Waits(r) == due[r] > now \/ (pc[r] = "cancel" /\ due[r] >= now)

\* A wait is a whole number of tokens before the moment the bucket remembers, so
\* that either the whole token comes back or nothing does; no two wait for the same
\* moment.
InStep(k) ==
  /\ \A r \in Holding(k) : Waits(r) =>
       /\ buckets[k].event = Zero(buckets[k])
       /\ \E j \in Nat : buckets[k].event = due[r] + Cost(j)
  /\ \A q, r \in Holding(k) : Waits(q) /\ Waits(r) /\ due[q] = due[r] => q = r

UsedInv(k) ==
  buckets[k].used =>
    /\ Sound(buckets[k], Live(k), now)
    /\ InStep(k)
    /\ \A s \in Nat : s > buckets[k].hit + MaxPause => Passed(k, s) = 0

\* Whoever has no bucket is owed a full one.
FreshInv(k) ==
  ~buckets[k].used =>
    \A s \in Nat : /\ s > now => Live(k)[s] = 0
                   /\ s <= now => Cost(Live(k)[s]) <= now - s

\* In no span of time are more reservations than the rate allows.
Spans(k) ==
  \A s, t \in Nat : s <= t => Cost(Live(k)[s]) <= Cost(Live(k)[t + 1]) + Full + (t - s)

\* A lone request holds the last reservation, and the bucket is exactly as far
\* ahead as what was used up, counted from some moment, has taken.
Tight(k) ==
  \E s \in Nat : s <= buckets[k].last /\ Cost(Live(k)[s]) >= Full + Zero(buckets[k]) - s

Alone(k) ==
  buckets[k].used /\ k \notin blurred =>
    /\ \A q, r \in Holding(k) : q = r
    /\ \A r \in Holding(k) : Waits(r) => due[r] = buckets[k].event
    /\ Tight(k)

\* What the bucket holds when a refused client comes back as it was told.
Enough(late) == IF late /\ Second < Interval THEN Second ELSE Interval

ToldInv(k) ==
  told[k].at # -1 =>
    /\ buckets[k].used
    /\ told[k].at >= buckets[k].last
    /\ told[k].at >= Zero(buckets[k]) + Enough(told[k].late)

KeyInv(k) ==
  /\ Clocked(k) /\ NotYet(k) /\ UsedInv(k) /\ FreshInv(k)
  /\ Spans(k) /\ Alone(k) /\ ToldInv(k)

\* The bucket of a request is there as long as the request.
Present(r) ==
  pc[r] # "idle" =>
    /\ buckets[Key(r)].used
    /\ since[r] <= buckets[Key(r)].hit /\ since[r] <= now /\ now - since[r] <= MaxPause

\* A refused request was told to wait as long as it takes.
Waited(r) == pc[r] = "cancel" => wait[r] + now >= due[r]

RateInv ==
  /\ TypeOK
  /\ \A k \in Keys : KeyInv(k)
  /\ \A r \in Requests : Present(r) /\ Waited(r)

\* No wait gets longer.
LEMMA WaitedStays ==
  ASSUME RateInv, now' \in Nat, now <= now',
         NEW q \in Requests,
         pc'[q] = "cancel" => pc[q] = "cancel" /\ wait'[q] = wait[q] /\ due'[q] = due[q]
  PROVE  Waited(q)'
<1>1. now \in Nat /\ due[q] \in Nat /\ wait[q] \in Nat /\ Waited(q)
  BY DueTyped DEF RateInv
<1> QED
  BY <1>1 DEF Waited

\* What nobody touches stays as it is; to be seen again does no harm.
LEMMA KeyStays ==
  ASSUME TypeOK, NEW k \in Keys, KeyInv(k), now' = now,
         /\ buckets'[k].level = buckets[k].level /\ buckets'[k].last = buckets[k].last
         /\ buckets'[k].event = buckets[k].event /\ buckets'[k].used = buckets[k].used
         /\ buckets'[k].hit = buckets[k].hit \/ buckets'[k].hit = now,
         spent'[k] = spent[k], told'[k] = told[k],
         (k \in blurred)' <=> k \in blurred,
         Holding(k)' = Holding(k),
         \A q \in Holding(k) : due'[q] = due[q] /\ (pc'[q] = pc[q] \/ due[q] > now),
         \A s \in Nat : Booked(k, s)' = Booked(k, s)
  PROVE  KeyInv(k)'
<1>0. \A q \in Holding(k) : Waits(q)' <=> Waits(q)
  BY DEF Waits
<1>1. Live(k)' = Live(k) /\ \A s \in Nat : Passed(k, s)' = Passed(k, s)
  BY LiveSame
<1>2. Zero(buckets[k])' = Zero(buckets[k])
  BY DEF Zero
<1>3. Clocked(k)' /\ NotYet(k)'
  BY <1>1, DueTyped DEF KeyInv, Clocked, NotYet
<1>4. UsedInv(k)'
  <2> SUFFICES ASSUME buckets[k].used
               PROVE  /\ Sound(buckets[k], Live(k), now)'
                      /\ InStep(k)'
                      /\ \A s \in Nat : s > buckets'[k].hit + MaxPause => Passed(k, s) = 0
    BY <1>1 DEF UsedInv
  <2>1. InStep(k)'
    BY <1>0, <1>2 DEF InStep, KeyInv, UsedInv
  <2>2. Sound(buckets[k], Live(k), now)'
    BY <1>1, <1>2 DEF KeyInv, UsedInv, Sound, Covered, NoneLater, Queued, LastOfDebt
  <2>3. ASSUME NEW s \in Nat, s > buckets'[k].hit + MaxPause
        PROVE  Passed(k, s) = 0
    <3>1. buckets[k].hit <= now /\ buckets[k].hit \in Nat /\ MaxPause \in Nat /\ now \in Nat
      BY BucketTyped, DueTyped DEF KeyInv, Clocked, AnyBucket
    <3>2. s > buckets[k].hit + MaxPause
      BY <2>3, <3>1
    <3> QED
      BY <3>2 DEF KeyInv, UsedInv
  <2> QED
    BY <2>1, <2>2, <2>3
<1>5. FreshInv(k)' /\ Spans(k)'
  BY <1>1 DEF KeyInv, FreshInv, Spans
<1>6. ToldInv(k)'
  BY <1>2 DEF KeyInv, ToldInv
<1>7. Alone(k)'
  <2>1. Tight(k) => Tight(k)'
    BY <1>1, <1>2 DEF Tight
  <2> QED
    BY <2>1, <1>0 DEF KeyInv, Alone
<1> QED
  BY <1>3, <1>4, <1>5, <1>6, <1>7 DEF KeyInv

\* How far ahead reservations go.
LEMMA DebtFacts ==
  /\ MaxTime \in Nat /\ MaxDebt * Interval \in Nat
  /\ (MaxDebt + 1) * Interval = MaxDebt * Interval + Interval
  /\ Horizon = MaxTime + (MaxDebt * Interval + Interval)
  /\ Horizon \in Nat /\ Horizon >= MaxTime
<1>1. MaxTime \in Nat /\ MaxDebt \in Nat /\ Interval \in Nat
  BY RateLimiterAssumption
<1>2. MaxDebt * Interval \in Nat /\ (MaxDebt + 1) * Interval = MaxDebt * Interval + Interval
  BY <1>1
<1> QED
  BY <1>1, <1>2 DEF Horizon

LEMMA LevelTyped ==
  ASSUME NEW n \in Int, n <= Full, n + MaxDebt * Interval + Interval >= 0
  PROVE  n \in -((MaxDebt + 1) * Interval)..Full
<1> DEFINE x == MaxDebt * Interval
           y == (MaxDebt + 1) * Interval
<1>1. x \in Nat /\ y = x + Interval /\ Interval \in Nat /\ Full \in Nat
  BY DebtFacts, CostFacts
<1>2. n + x + Interval >= 0
  OBVIOUS
<1> HIDE DEF x, y
<1>3. n \in -y..Full
  BY <1>1, <1>2
<1> QED
  BY <1>3 DEF y

LEMMA InitHolds ==
  ASSUME Init
  PROVE  RateInv
<1>1. /\ Interval \in Nat /\ Full \in Nat /\ Full >= Interval /\ Cost(0) = 0
      /\ MaxTime \in Nat /\ MaxDebt \in Nat
  BY CostFacts, RateLimiterAssumption
<1>2. (MaxDebt + 1) * Interval \in Nat
  BY <1>1
<1>3. Nobody \in [user : Users \cup {None}, origin : Origins]
  BY RateLimiterAssumption DEF Nobody
<1>4. NoBucket \in Bucket
  BY <1>1, <1>2 DEF NoBucket, Bucket, Times, Horizon
<1>5. TypeOK
  <2>1. now \in Times /\ 0 \in Times /\ 0 \in 0..Horizon /\ \A t \in 0..(MaxTime + 1) : 0 \in Nat
    BY <1>1, DebtFacts DEF Init, Times
  <2> QED
    BY <2>1, <1>3, <1>4 DEF Init, TypeOK, NotTold, Unspent
<1>6. ASSUME NEW k \in Keys
      PROVE  KeyInv(k)
  <2>1. buckets[k] = NoBucket /\ told[k] = NotTold /\ now = 0
    BY DEF Init
  <2>2. \A s \in Nat : Passed(k, s) = 0
    BY <1>1 DEF Init, Passed, Unspent
  <2>3. \A s \in Nat : Booked(k, s) = {}
    BY DEF Init, Booked, Holds
  <2>4. \A s \in Nat : Live(k)[s] = 0
    BY <2>2, <2>3, FS_EmptySet DEF Live
  <2>5. Clocked(k) /\ NotYet(k) /\ UsedInv(k) /\ Alone(k) /\ ToldInv(k)
    BY <2>1, <2>2 DEF NoBucket, NotTold, Clocked, NotYet, UsedInv, Alone, ToldInv
  <2>6. FreshInv(k)
    BY <2>1, <2>4, <1>1 DEF FreshInv
  <2>7. Spans(k)
    BY <2>4, <1>1 DEF Spans
  <2> QED
    BY <2>5, <2>6, <2>7 DEF KeyInv
<1>7. \A r \in Requests : Present(r) /\ Waited(r)
  BY DEF Init, Present, Waited
<1> QED
  BY <1>5, <1>6, <1>7 DEF RateInv

-------------------------------------------------------------------------------
(* A request comes in.                                                     *)

\* A bucket that is full at this moment.
FullNow == [level |-> Full, last |-> now, event |-> now, hit |-> now, used |-> TRUE]

\* Whoever is owed a full bucket may have one.
LEMMA FreshBucket ==
  ASSUME RateInv, NEW k \in Keys, ~buckets[k].used, buckets'[k] = FullNow, now' = now,
         spent'[k] = spent[k], told'[k] = told[k],
         Holding(k)' = Holding(k), \A q \in Holding(k) : due'[q] = due[q],
         \A s \in Nat : Booked(k, s)' = Booked(k, s)
  PROVE  KeyInv(k)'
<1>1. Live(k)' = Live(k) /\ \A s \in Nat : Passed(k, s)' = Passed(k, s)
  BY LiveSame
<1>2. /\ now \in Nat /\ Full \in Nat /\ Interval \in Nat /\ MaxPause \in Nat
      /\ KeyInv(k) /\ TypeOK
  BY DueTyped, CostFacts DEF RateInv
<1>3. /\ buckets'[k].level = Full /\ buckets'[k].last = now /\ buckets'[k].event = now
      /\ buckets'[k].hit = now /\ buckets'[k].used = TRUE
  BY DEF FullNow
<1>4. Zero(buckets[k])' = now - Full
  BY <1>3 DEF Zero
<1>5. \A s \in Nat : /\ s > now => Live(k)[s] = 0
                     /\ s <= now => Cost(Live(k)[s]) <= now - s
                     /\ Live(k)[s] \in Nat /\ Cost(Live(k)[s]) \in Nat
  BY <1>2, LiveTyped, CostFacts DEF KeyInv, FreshInv
<1>6. Holding(k) = {}
  BY DEF RateInv, Present, Holding, Holds
<1>7. Clocked(k)' /\ NotYet(k)'
  BY <1>1, <1>2, <1>3 DEF KeyInv, Clocked, NotYet
<1>8. Sound(buckets[k], Live(k), now)'
  <2>1. Covered(buckets[k], Live(k))'
    <3> SUFFICES ASSUME NEW s \in Nat, s <= now \/ s <= now - Full
                 PROVE  Cost(Live(k)[s]) <= Full + (now - Full) - s
      BY <1>1, <1>3, <1>4 DEF Covered
    <3> QED
      BY <1>2, <1>5
  <2>2. NoneLater(buckets[k], Live(k))'
    BY <1>1, <1>3, <1>5 DEF NoneLater
  <2>3. Queued(buckets[k], Live(k), now)'
    <3> SUFFICES ASSUME NEW s \in Nat, s > now, s <= now - Full
                 PROVE  FALSE
      BY <1>4 DEF Queued
    <3> QED
      BY <1>2
  <2>4. LastOfDebt(buckets[k])'
    BY <1>2, <1>3 DEF LastOfDebt
  <2> QED
    BY <2>1, <2>2, <2>3, <2>4 DEF Sound
<1>9. UsedInv(k)'
  <2>1. InStep(k)'
    BY <1>6 DEF InStep
  <2>2. \A s \in Nat : s > buckets'[k].hit + MaxPause => Passed(k, s)' = 0
    BY <1>1, <1>2, <1>3 DEF KeyInv, NotYet
  <2> QED
    BY <1>8, <2>1, <2>2 DEF UsedInv
<1>10. FreshInv(k)' /\ Spans(k)' /\ ToldInv(k)'
  <2>1. Spans(k)'
    BY <1>1, <1>2 DEF KeyInv, Spans
  <2>2. told[k].at = -1
    BY <1>2 DEF KeyInv, ToldInv
  <2> QED
    BY <1>3, <2>1, <2>2 DEF FreshInv, ToldInv
<1>11. Alone(k)'
  <2>1. Cost(Live(k)[now]) >= Full + (now - Full) - now /\ now <= now
    BY <1>2, <1>5
  <2>2. Tight(k)'
    BY <1>1, <1>2, <1>3, <1>4, <2>1 DEF Tight
  <2> QED
    BY <1>6, <2>2 DEF Alone
<1> QED
  BY <1>7, <1>9, <1>10, <1>11 DEF KeyInv

\* To be seen changes when a bucket was seen.
LEMMA HitFields ==
  ASSUME NEW b \in Bucket, now \in Times
  PROVE  /\ [b EXCEPT !.hit = now] \in Bucket
         /\ [b EXCEPT !.hit = now].level = b.level
         /\ [b EXCEPT !.hit = now].last = b.last
         /\ [b EXCEPT !.hit = now].event = b.event
         /\ [b EXCEPT !.hit = now].used = b.used
         /\ [b EXCEPT !.hit = now].hit = now
BY DEF Bucket

LEMMA FullNowTyped ==
  ASSUME TypeOK
  PROVE  FullNow \in Bucket
<1>1. Full \in Nat /\ now \in Nat /\ now <= MaxTime /\ MaxTime \in Nat
  BY CostFacts, DueTyped
<1>2. Full \in -((MaxDebt + 1) * Interval)..Full
  BY <1>1, DebtFacts, CostFacts, LevelTyped
<1>3. now \in 0..Horizon /\ now \in Times
  BY <1>1, DebtFacts DEF Times
<1> QED
  BY <1>2, <1>3 DEF FullNow, Bucket

\* A request finds its bucket, or gets a full one.
LEMMA GetHolds ==
  ASSUME RateInv, NEW r \in Requests, NEW u \in Users \cup {None}, NEW o \in Origins,
         Get(r, u, o)
  PROVE  RateInv'
<1>1. TypeOK /\ now \in Nat /\ now \in Times
  BY DueTyped DEF RateInv, TypeOK
<1>2. /\ pc[r] = "idle" /\ pc' = [pc EXCEPT ![r] = "reserve"]
      /\ who' = [who EXCEPT ![r] = [user |-> u, origin |-> o]]
      /\ since' = [since EXCEPT ![r] = now]
      /\ UNCHANGED <<now, due, wait, spent, blurred, told>>
  BY DEF Get
<1>3. /\ pc'[r] = "reserve" /\ since'[r] = now /\ who'[r].origin = o
      /\ \A q \in Requests \ {r} : Stays(q) /\ since'[q] = since[q]
  BY <1>1, <1>2 DEF Stays, TypeOK
<1>4. Key(r)' \in Keys
  <2>1. ClientIP(o) \in
          {p[f] : p \in Origins, f \in {"forwarded", "real", "remote"}} \ {None}
    BY RateLimiterAssumption DEF ClientIP
  <2>2. Key(r)' = <<"ip", ClientIP(o)>>
    BY <1>3 DEF Key, UserInContext, ClientIP
  <2> QED
    BY <2>1, <2>2 DEF Keys
<1>5. PICK k \in Keys : k = Key(r)'
  BY <1>4
<1>6. buckets' = [buckets EXCEPT ![k] = IF buckets[k].used
                                        THEN [buckets[k] EXCEPT !.hit = now] ELSE FullNow]
  BY <1>5 DEF Get, FullNow
<1>7. buckets[k] \in Bucket /\ FullNow \in Bucket
  BY <1>1, FullNowTyped DEF TypeOK
<1>8. [buckets[k] EXCEPT !.hit = now] \in Bucket
  BY <1>1, <1>7, HitFields
<1>9. TypeOK'
  BY <1>1, <1>2, <1>6, <1>7, <1>8 DEF TypeOK
<1>10. \A c \in Keys : /\ Holding(c)' = Holding(c)
                       /\ \A q \in Holding(c) : due'[q] = due[q] /\ pc'[q] = pc[q]
                       /\ \A s \in Nat : Booked(c, s)' = Booked(c, s)
  <2>1. ~Holds(r) /\ ~Holds(r)'
    BY <1>2, <1>3 DEF Holds
  <2> QED
    BY <1>3, <2>1, SameBooked
<1>11. /\ \A c \in Keys \ {k} : buckets'[c] = buckets[c]
       /\ buckets'[k] = IF buckets[k].used THEN [buckets[k] EXCEPT !.hit = now] ELSE FullNow
  BY <1>1, <1>6 DEF TypeOK
<1>12. \A c \in Keys : KeyInv(c)'
  <2>1. ASSUME NEW c \in Keys \ {k}
        PROVE  KeyInv(c)'
    BY <1>1, <1>2, <1>10, <1>11, KeyStays DEF RateInv
  <2>2. CASE ~buckets[k].used
    BY <2>1, <2>2, <1>2, <1>10, <1>11, FreshBucket
  <2>3. CASE buckets[k].used
    <3>0. buckets'[k] = [buckets[k] EXCEPT !.hit = now]
      BY <1>11, <2>3
    <3>1. /\ buckets'[k].level = buckets[k].level /\ buckets'[k].last = buckets[k].last
          /\ buckets'[k].event = buckets[k].event /\ buckets'[k].used = buckets[k].used
          /\ buckets'[k].hit = now
      BY <1>1, <1>7, <3>0, HitFields, Zenon
    <3>2. KeyInv(k)'
      BY <3>1, <1>1, <1>2, <1>10, KeyStays DEF RateInv
    <3> QED
      BY <2>1, <3>2
  <2> QED
    BY <2>2, <2>3
<1>13. ASSUME NEW q \in Requests
       PROVE  Present(q)'
  <2>1. buckets'[k].used /\ buckets'[k].hit = now
    BY <1>1, <1>7, <1>11, HitFields DEF FullNow
  <2>2. CASE q = r
    BY <1>1, <1>2, <1>3, <1>5, <2>1, <2>2, DueTyped DEF Present
  <2>3. CASE q # r
    <3>1. /\ pc'[q] = pc[q] /\ Key(q)' = Key(q) /\ since'[q] = since[q] /\ Key(q) \in Keys
      BY <1>1, <1>3, <2>3, SameKey, KeyTyped DEF Stays
    <3>2. Present(q)
      BY DEF RateInv
    <3>3. CASE Key(q) = k
      BY <3>1, <3>2, <3>3, <2>1, <1>2 DEF Present
    <3>4. CASE Key(q) # k
      BY <3>1, <3>2, <3>4, <1>2, <1>11 DEF Present
    <3> QED
      BY <3>3, <3>4
  <2> QED
    BY <2>2, <2>3
<1>14. \A q \in Requests : Waited(q)'
  <2>1. \A q \in Requests : pc'[q] = "cancel" => pc[q] = "cancel"
    BY <1>1, <1>2 DEF TypeOK
  <2> QED
    BY <2>1, <1>1, <1>2, WaitedStays
<1> QED
  BY <1>9, <1>12, <1>13, <1>14 DEF RateInv

-------------------------------------------------------------------------------
(* A request reserves.                                                     *)

\* A request that waits for moment s or a later one is counted there.
LEMMA HolderCounts ==
  ASSUME TypeOK, NEW k \in Keys, NEW q \in Holding(k), NEW s \in Nat, s <= due[q]
  PROVE  Live(k)[s] > 0
<1>1. due[q] \in Nat
  BY DueTyped DEF Holding
<1>2. q \in Booked(k, s)
  BY <1>1 DEF Holding, Booked
<1>3. Cardinality(Booked(k, s)) # 0 /\ Cardinality(Booked(k, s)) \in Nat
  BY <1>2, BookedFinite, FS_EmptySet
<1> QED
  BY <1>3, LiveTyped

LEMMA ReservedTyped ==
  ASSUME TypeOK, NEW k \in Keys, buckets[k].last <= now,
         Level(buckets[k]) >= -(MaxDebt * Interval)
  PROVE  Reserved(buckets[k]) \in Bucket /\ DueAt(buckets[k]) \in 0..Horizon
<1> DEFINE b == buckets[k]
           x == MaxDebt * Interval
<1>1. /\ b \in AnyBucket /\ b.level <= Full /\ b \in Bucket
      /\ now \in Nat /\ now <= MaxTime
  BY BucketTyped, DueTyped DEF TypeOK
<1>2. /\ Level(b) \in Int /\ Level(b) <= Full
      /\ DueAt(b) \in Nat /\ DueAt(b) >= now
  BY <1>1, LevelNow, ReservedZero
<1>3. x \in Nat /\ Horizon = MaxTime + (x + Interval) /\ MaxTime \in Nat /\ Horizon \in Nat
      /\ Interval \in Nat /\ Full \in Nat /\ Interval > 0
  BY DebtFacts, CostFacts
<1>4. Level(b) >= -x
  OBVIOUS
<1>5. Level(b) + x >= 0
  <2> HIDE DEF b, x
  <2> QED
    BY <1>2, <1>3, <1>4
<1>6. DueAt(b) <= Horizon
  <2>1. DueAt(b) = now + (IF Level(b) < Interval THEN Interval - Level(b) ELSE 0)
    BY DEF DueAt
  <2> HIDE DEF b, x
  <2> QED
    BY <2>1, <1>1, <1>2, <1>3, <1>5
<1>7. Level(b) - Interval \in -((MaxDebt + 1) * Interval)..Full
  <2>1. Level(b) - Interval \in Int /\ Level(b) - Interval <= Full
    BY <1>2, <1>3
  <2>2. (Level(b) - Interval) + x + Interval >= 0
    BY <1>2, <1>3, <1>5
  <2> QED
    BY <2>1, <2>2, LevelTyped
<1>8. Reserved(b) = [b EXCEPT !.level = Level(b) - Interval, !.last = now, !.event = DueAt(b)]
  BY DEF Reserved
<1>9. DueAt(b) \in 0..Horizon /\ now \in Times
  BY <1>1, <1>2, <1>3, <1>6 DEF Times
<1>10. Reserved(b) \in Bucket
  <2> DEFINE l == Level(b) - Interval
             e == DueAt(b)
  <2>1. l \in -((MaxDebt + 1) * Interval)..Full /\ e \in 0..Horizon
    BY <1>7, <1>9
  <2> HIDE DEF l, e
  <2>2. [b EXCEPT !.level = l, !.last = now, !.event = e] \in Bucket
    BY <2>1, <1>1, <1>9 DEF Bucket
  <2> QED
    BY <2>2, <1>8 DEF l, e
<1> QED
  BY <1>9, <1>10

\* What a reservation does to the source it is for.
LEMMA KeyReserve ==
  ASSUME RateInv, NEW r \in Requests, NEW k \in Keys, Key(r) = k,
         pc[r] = "reserve", pc'[r] = "decide", who'[r] = who[r],
         \A q \in Requests \ {r} : Stays(q),
         due'[r] = DueAt(buckets[k]), buckets'[k] = Reserved(buckets[k]),
         spent'[k] = spent[k], told'[k] = NotTold, now' = now,
         (k \in blurred)' <=> (Holding(k) # {} \/ k \in blurred)
  PROVE  KeyInv(k)'
<1> DEFINE b == buckets[k]
           d == DueAt(b)
           z == Zero(b)
           y == Zero(Reserved(b))
           live == Live(k)
           more == More(live, d)
<1>1. TypeOK /\ KeyInv(k) /\ b.used
  BY DEF RateInv, Present
<1>2. /\ b \in AnyBucket /\ b.level <= Full /\ b.last <= now /\ b.last \in Nat
      /\ now \in Nat /\ live \in [Nat -> Nat] /\ Sound(b, live, now)
      /\ z \in Int /\ MaxPause \in Nat
  BY <1>1, BucketTyped, DueTyped, LiveTyped
  DEF KeyInv, Clocked, UsedInv, AnyBucket, Zero
<1>3. /\ d \in Nat /\ d >= now /\ y \in Int /\ d = IF y > now THEN y ELSE now
      /\ \/ y = z + Interval /\ now <= z + Full
         \/ y = now - Full + Interval /\ z + Full < now
  BY <1>2, ReservedZero, ReservedLater
<1>4. Interval \in Nat /\ Interval > 0 /\ Full \in Nat /\ Full >= Interval /\ Cost(0) = 0
  BY CostFacts
<1>0. ~Holds(r) /\ Holds(r)'
  BY DEF Holds
<1>5. Live(k)' = more /\ \A s \in Nat : Passed(k, s)' = Passed(k, s)
  <2>1. Live(k)' = More(live, due'[r])
    BY <1>0, <1>1, LiveMore
  <2> QED
    BY <2>1 DEF Passed
<1>6. /\ buckets'[k].last = now /\ buckets'[k].event = d
      /\ buckets'[k].hit = b.hit /\ buckets'[k].used
  BY <1>1, <1>2, ReservedFields
<1>7. Zero(buckets[k])' = y
  BY DEF Zero
<1>8. /\ Holding(k)' = Holding(k) \cup {r} /\ r \notin Holding(k)
      /\ \A q \in Holding(k) : due'[q] = due[q] /\ pc'[q] = pc[q]
  BY <1>0, JoinBooked DEF Holding
<1>9. \A s \in Nat : /\ live[s] \in Nat /\ Cost(live[s]) \in Nat
                     /\ more[s] \in Nat /\ Cost(more[s]) \in Nat
                     /\ s > d => more[s] = live[s]
                     /\ s <= d => Cost(more[s]) = Cost(live[s]) + Interval
  BY <1>2, <1>3, MoreCost
<1>10. /\ Sound(Reserved(b), more, now)
       /\ \A s \in Nat : s <= d => Cost(more[s]) <= Full + d - s
  BY <1>2, ReserveSound
<1>11. Clocked(k)' /\ NotYet(k)'
  BY <1>1, <1>2, <1>5, <1>6 DEF KeyInv, Clocked, NotYet
<1>12. UsedInv(k)'
  <2>1. Sound(buckets[k], Live(k), now)'
    BY <1>5, <1>10 DEF Sound, Covered, NoneLater, Queued, LastOfDebt, Zero
  <2>2. InStep(k)'
    <3>1. Waits(r)' <=> d > now
      BY DEF Waits
    <3>2. \A q \in Holding(k) : Waits(q)' <=> Waits(q)
      BY <1>8 DEF Waits
    <3>3. d > now => d = y
      BY <1>2, <1>3
    <3>4. ASSUME NEW q \in Holding(k), Waits(q)
          PROVE  /\ d = y /\ due[q] # d
                 /\ \E j \in Nat : d = due[q] + Cost(j)
      <4>1. due[q] \in Nat /\ due[q] >= now
        BY <3>4, <1>1, DueTyped DEF Holding, Waits
      <4>2. PICK j \in Nat : z = due[q] + Cost(j)
        BY <3>4, <1>1 DEF KeyInv, UsedInv, InStep
      <4>3. Cost(j + 1) = Cost(j) + Interval /\ Cost(j) \in Nat /\ j + 1 \in Nat
        BY CostFacts
      <4>4. z >= due[q]
        BY <4>1, <4>2, <4>3
      <4>5. d = z + Interval /\ d = y
        BY <4>1, <4>4, <1>2, <1>3, <1>4
      <4>6. d = due[q] + Cost(j + 1) /\ due[q] # d
        BY <4>1, <4>2, <4>3, <4>4, <4>5, <1>2, <1>4
      <4> QED
        BY <4>3, <4>5, <4>6
    <3>5. d = d + Cost(0) /\ 0 \in Nat
      BY <1>3, <1>4
    <3>6. /\ Zero(buckets[k])' = y /\ buckets'[k].event = d
          /\ Holding(k)' = Holding(k) \cup {r}
      BY <1>6, <1>7, <1>8
    <3>7. ASSUME NEW q \in Holding(k)', Waits(q)'
          PROVE  /\ d = y
                 /\ \E j \in Nat : d = due'[q] + Cost(j)
      <4>1. CASE q = r
        BY <4>1, <3>1, <3>3, <3>5, <3>7
      <4>2. CASE q # r
        BY <4>2, <3>2, <3>4, <3>6, <3>7, <1>8
      <4> QED
        BY <4>1, <4>2
    <3>8. ASSUME NEW p \in Holding(k)', NEW q \in Holding(k)', Waits(p)', Waits(q)',
                 due'[p] = due'[q]
          PROVE  p = q
      <4>1. CASE p = r /\ q # r
        BY <4>1, <3>2, <3>4, <3>6, <3>8, <1>8
      <4>2. CASE q = r /\ p # r
        BY <4>2, <3>2, <3>4, <3>6, <3>8, <1>8
      <4>3. CASE p # r /\ q # r
        <5>1. p \in Holding(k) /\ q \in Holding(k) /\ Waits(p) /\ Waits(q) /\ due[p] = due[q]
          BY <4>3, <3>2, <3>6, <3>8, <1>8
        <5> QED
          BY <5>1, <1>1 DEF KeyInv, UsedInv, InStep
      <4> QED
        BY <4>1, <4>2, <4>3
    <3> QED
      BY <3>6, <3>7, <3>8 DEF InStep
  <2>3. \A s \in Nat : s > buckets'[k].hit + MaxPause => Passed(k, s)' = 0
    BY <1>1, <1>5, <1>6 DEF KeyInv, UsedInv
  <2> QED
    BY <2>1, <2>2, <2>3 DEF UsedInv
<1>13. FreshInv(k)' /\ ToldInv(k)'
  BY <1>6 DEF FreshInv, ToldInv, NotTold
<1>14. Spans(k)'
  <2> SUFFICES ASSUME NEW s \in Nat, NEW t \in Nat, s <= t
               PROVE  Cost(more[s]) <= Cost(more[t + 1]) + Full + (t - s)
    BY <1>5 DEF Spans
  <2>0. t + 1 \in Nat
    OBVIOUS
  <2>1. /\ Cost(live[s]) <= Cost(live[t + 1]) + Full + (t - s)
        /\ Cost(live[s]) \in Nat /\ Cost(live[t + 1]) \in Nat
        /\ Cost(more[s]) \in Nat /\ Cost(more[t + 1]) \in Nat
    <3>1. Cost(live[s]) <= Cost(live[t + 1]) + Full + (t - s)
      BY <1>1 DEF KeyInv, Spans
    <3> QED
      BY <3>1, <2>0, <1>9
  <2>2. CASE s > d
    <3>1. t + 1 > d
      BY <2>2, <1>3
    <3> QED
      BY <2>0, <2>1, <2>2, <3>1, <1>9
  <2>3. CASE s <= d /\ t + 1 <= d
    BY <2>0, <2>1, <2>3, <1>4, <1>9
  <2>4. CASE s <= d /\ d <= t
    <3>1. Cost(more[s]) <= Full + d - s
      BY <2>4, <1>10
    <3> QED
      BY <2>1, <2>4, <3>1, <1>3, <1>4
  <2> QED
    BY <2>2, <2>3, <2>4, <1>3
<1>15. Alone(k)'
  <2> SUFFICES ASSUME Holding(k) = {}, k \notin blurred
               PROVE  /\ \A p, q \in Holding(k)' : p = q
                      /\ \A q \in Holding(k)' : due'[q] = d
                      /\ Tight(k)'
    BY <1>6 DEF Alone
  <2>1. Holding(k)' = {r}
    BY <1>8
  <2>2. \E s \in Nat : s <= now /\ Cost(more[s]) >= Full + y - s
    <3>1. CASE y = z + Interval
      <4>1. PICK s \in Nat : s <= b.last /\ Cost(live[s]) >= Full + z - s
        BY <1>1 DEF KeyInv, Alone, Tight
      <4>2. s <= now /\ s <= d /\ Cost(live[s]) \in Nat
        BY <4>1, <1>2, <1>3, <1>9
      <4>3. Cost(more[s]) >= Full + y - s
        BY <4>1, <4>2, <3>1, <1>2, <1>4, <1>9
      <4> QED
        BY <4>2, <4>3
    <3>2. CASE y = now - Full + Interval
      <4>1. Cost(more[now]) = Cost(live[now]) + Interval /\ Cost(live[now]) \in Nat
        BY <1>2, <1>3, <1>9
      <4>2. Cost(more[now]) >= Full + y - now
        BY <4>1, <3>2, <1>2, <1>4
      <4> QED
        BY <4>2, <1>2
    <3> QED
      BY <3>1, <3>2, <1>3
  <2>3. Tight(k)'
    BY <2>2, <1>5, <1>6, <1>7 DEF Tight
  <2> QED
    BY <2>1, <2>3
<1> QED
  BY <1>11, <1>12, <1>13, <1>14, <1>15 DEF KeyInv

\* The other sources do not notice.
LEMMA OtherKeys ==
  ASSUME RateInv, NEW r \in Requests, NEW k \in Keys, Key(r) = k,
         \A q \in Requests \ {r} : Stays(q), who'[r] = who[r] \/ ~Holds(r)',
         NEW c \in Keys, c # k,
         buckets'[c] = buckets[c], spent'[c] = spent[c], told'[c] = told[c], now' = now,
         (c \in blurred)' <=> c \in blurred
  PROVE  KeyInv(c)'
<1>1. ~(Holds(r)' /\ Key(r)' = c) /\ ~(Holds(r) /\ Key(r) = c)
  BY SameKey
<1>2. /\ Holding(c)' = Holding(c)
      /\ \A q \in Holding(c) : due'[q] = due[q] /\ pc'[q] = pc[q]
      /\ \A s \in Nat : Booked(c, s)' = Booked(c, s)
  BY <1>1, SameBooked
<1> QED
  BY <1>2, KeyStays DEF RateInv

LEMMA ReserveHolds ==
  ASSUME RateInv, NEW r \in Requests, Reserve(r)
  PROVE  RateInv'
<1>1. PICK k \in Keys : k = Key(r)
  BY KeyTyped DEF RateInv
<1>2. /\ TypeOK /\ now \in Nat /\ KeyInv(k) /\ buckets[k].last <= now
  BY DueTyped DEF RateInv, KeyInv, Clocked
<1>3. /\ pc[r] = "reserve" /\ pc' = [pc EXCEPT ![r] = "decide"]
      /\ Level(buckets[k]) >= -(MaxDebt * Interval)
      /\ due' = [due EXCEPT ![r] = DueAt(buckets[k])]
      /\ buckets' = [buckets EXCEPT ![k] = Reserved(buckets[k])]
      /\ blurred' = IF Holding(k) # {} THEN blurred \cup {k} ELSE blurred
      /\ told' = [told EXCEPT ![k] = NotTold]
      /\ UNCHANGED <<now, who, wait, since, spent>>
  BY <1>1 DEF Reserve
<1>4. Reserved(buckets[k]) \in Bucket /\ DueAt(buckets[k]) \in 0..Horizon
  BY <1>2, <1>3, ReservedTyped
<1>5. TypeOK'
  <2>1. blurred' \subseteq Keys
    BY <1>2, <1>3 DEF TypeOK
  <2>2. NotTold \in [at : Nat \cup {-1}, late : BOOLEAN]
    BY DEF NotTold
  <2>3. told' \in [Keys -> [at : Nat \cup {-1}, late : BOOLEAN]]
    BY <2>2, <1>2, <1>3 DEF TypeOK
  <2> QED
    BY <1>2, <1>3, <1>4, <2>1, <2>3 DEF TypeOK
<1>6. /\ pc'[r] = "decide" /\ who'[r] = who[r] /\ due'[r] = DueAt(buckets[k])
      /\ \A q \in Requests \ {r} : Stays(q)
  BY <1>2, <1>3 DEF TypeOK, Stays
<1>7. /\ buckets'[k] = Reserved(buckets[k]) /\ told'[k] = NotTold
      /\ \A c \in Keys \ {k} : buckets'[c] = buckets[c] /\ told'[c] = told[c]
  BY <1>2, <1>3 DEF TypeOK
<1>8. ASSUME NEW c \in Keys
      PROVE  KeyInv(c)'
  <2>1. CASE c = k
    <3>1. (k \in blurred)' <=> (Holding(k) # {} \/ k \in blurred)
      BY <1>3
    <3> QED
      BY <2>1, <3>1, <1>1, <1>3, <1>6, <1>7, KeyReserve
  <2>2. CASE c # k
    <3>1. (c \in blurred)' <=> c \in blurred
      BY <2>2, <1>3
    <3> QED
      BY <2>2, <3>1, <1>1, <1>3, <1>6, <1>7, OtherKeys
  <2> QED
    BY <2>1, <2>2
<1>9. ASSUME NEW q \in Requests
      PROVE  Present(q)'
  <2>1. /\ Key(q)' = Key(q) /\ Key(q) \in Keys /\ since'[q] = since[q]
        /\ pc'[q] # "idle" => pc[q] # "idle"
    <3>1. pc'[q] # "idle" => pc[q] # "idle"
      BY <1>2, <1>3 DEF TypeOK
    <3> QED
      BY <3>1, <1>2, <1>3, SameKey, KeyTyped
  <2>2. buckets'[Key(q)].used = buckets[Key(q)].used /\ buckets'[Key(q)].hit = buckets[Key(q)].hit
    <3>1. CASE Key(q) = k
      BY <3>1, <1>2, <1>7, BucketTyped, ReservedFields
    <3>2. CASE Key(q) # k
      BY <3>2, <2>1, <1>7
    <3> QED
      BY <3>1, <3>2
  <2>3. Present(q)
    BY DEF RateInv
  <2> QED
    BY <2>1, <2>2, <2>3, <1>3 DEF Present
<1>10. \A q \in Requests : Waited(q)'
  <2>1. \A q \in Requests : pc'[q] = "cancel" => pc[q] = "cancel" /\ due'[q] = due[q]
    BY <1>2, <1>3 DEF TypeOK
  <2> QED
    BY <2>1, <1>2, <1>3, WaitedStays
<1> QED
  BY <1>5, <1>8, <1>9, <1>10 DEF RateInv

-------------------------------------------------------------------------------
(* A request is over.                                                      *)

LEMMA OverMoves ==
  ASSUME TypeOK, NEW r \in Requests, Over(r)
  PROVE  /\ pc'[r] = "idle"
         /\ \A q \in Requests \ {r} : Stays(q) /\ since'[q] = since[q]
         /\ \A q \in Requests \ {r} : pc'[q] = pc[q] /\ wait'[q] = wait[q]
         /\ pc' \in [Requests -> {"idle", "reserve", "decide", "cancel"}]
         /\ who' \in [Requests -> [user : Users \cup {None}, origin : Origins]]
         /\ due' \in [Requests -> 0..Horizon]
         /\ wait' \in [Requests -> 0..Horizon]
         /\ since' \in [Requests -> Times]
<1>1. 0 \in 0..Horizon /\ 0 \in Times
  BY DebtFacts DEF Times
<1>2. Nobody \in [user : Users \cup {None}, origin : Origins]
  BY RateLimiterAssumption DEF Nobody
<1> QED
  BY <1>1, <1>2 DEF Over, TypeOK, Stays

\* The buckets of the others are there as they were.
LEMMA OverPresent ==
  ASSUME RateInv, NEW r \in Requests, Over(r), now' = now,
         \A c \in Keys : buckets'[c].used = buckets[c].used /\ buckets'[c].hit = buckets[c].hit,
         NEW q \in Requests
  PROVE  Present(q)' /\ Waited(q)'
<1>1. TypeOK /\ Present(q) /\ now \in Nat
  BY DueTyped DEF RateInv
<1>4. Waited(q)'
  <2>1. pc'[q] = "cancel" => pc[q] = "cancel" /\ wait'[q] = wait[q] /\ due'[q] = due[q]
    BY <1>1, OverMoves DEF Stays
  <2> QED
    BY <2>1, <1>1, WaitedStays
<1>2. CASE q = r
  BY <1>1, <1>2, <1>4, OverMoves DEF Present
<1>3. CASE q # r
  <2>1. /\ pc'[q] = pc[q] /\ since'[q] = since[q] /\ Key(q)' = Key(q) /\ Key(q) \in Keys
    BY <1>1, <1>3, OverMoves, SameKey, KeyTyped DEF Stays
  <2> QED
    BY <2>1, <1>1, <1>4 DEF Present
<1> QED
  BY <1>2, <1>3

\* The token of a request is used up.
KeySpends(r) ==
  [t \in 0..(MaxTime + 1) |-> IF t <= due[r] THEN spent[Key(r)][t] + 1 ELSE spent[Key(r)][t]]

LEMMA KeyPays ==
  ASSUME RateInv, NEW r \in Requests, NEW k \in Keys, Key(r) = k,
         Holds(r), pc'[r] = "idle", \A q \in Requests \ {r} : Stays(q),
         due[r] <= now, now' = now, buckets' = buckets, blurred' = blurred,
         ToldInv(k)', spent'[k] = KeySpends(r)
  PROVE  KeyInv(k)'
<1> DEFINE b == buckets[k]
<1>0. ~Holds(r)' /\ pc[r] # "idle"
  BY DEF Holds
<1>1. /\ TypeOK /\ KeyInv(k) /\ b.used /\ b \in AnyBucket /\ due[r] \in Nat
      /\ now \in Nat /\ MaxPause \in Nat
  BY <1>0, BucketTyped, DueTyped DEF RateInv, Present
<1>2. Live(k)' = Live(k) /\ \A s \in Nat : s > due[r] => Passed(k, s)' = Passed(k, s)
  BY <1>0, <1>1, LivePassed DEF KeySpends
<1>3. /\ Holding(k)' = Holding(k) \ {r}
      /\ \A q \in Holding(k) \ {r} : due'[q] = due[q] /\ (Waits(q)' <=> Waits(q))
  BY <1>0, LeaveBooked DEF Waits
<1>4. now <= b.hit + MaxPause /\ b.hit \in Nat
  <2>1. since[r] <= b.hit /\ now - since[r] <= MaxPause /\ since[r] \in Nat /\ b.hit \in Nat
    BY <1>0, <1>1, DueTyped DEF RateInv, Present, AnyBucket
  <2> QED
    BY <2>1, <1>1
<1>5. Clocked(k)' /\ NotYet(k)'
  <2>1. \A s \in Nat : s > now => s > due[r]
    BY <1>1
  <2> QED
    BY <2>1, <1>1, <1>2 DEF KeyInv, Clocked, NotYet
<1>6. UsedInv(k)'
  <2>1. Sound(buckets[k], Live(k), now)'
    BY <1>1, <1>2 DEF KeyInv, UsedInv, Sound, Covered, NoneLater, Queued, LastOfDebt, Zero
  <2>2. InStep(k)'
    BY <1>1, <1>3 DEF KeyInv, UsedInv, InStep, Zero
  <2>3. ASSUME NEW s \in Nat, s > b.hit + MaxPause
        PROVE  Passed(k, s)' = 0
    <3>1. s > due[r]
      BY <1>1, <1>4, <2>3
    <3> QED
      BY <2>3, <3>1, <1>1, <1>2 DEF KeyInv, UsedInv
  <2> QED
    BY <2>1, <2>2, <2>3 DEF UsedInv
<1>7. FreshInv(k)' /\ Spans(k)'
  BY <1>1, <1>2 DEF KeyInv, FreshInv, Spans
<1>8. Alone(k)'
  <2>1. Tight(k) => Tight(k)'
    BY <1>2 DEF Tight, Zero
  <2> QED
    BY <2>1, <1>1, <1>3 DEF KeyInv, Alone
<1> QED
  BY <1>5, <1>6, <1>7, <1>8 DEF KeyInv

\* What is used up is counted for one source.
LEMMA SpendFields ==
  ASSUME TypeOK, NEW r \in Requests, NEW k \in Keys, k = Key(r), Spend(r)
  PROVE  /\ spent' \in [Keys -> [0..(MaxTime + 1) -> Nat]]
         /\ spent'[k] = KeySpends(r) /\ \A c \in Keys \ {k} : spent'[c] = spent[c]
<1> DEFINE g == KeySpends(r)
<1>1. spent' = [spent EXCEPT ![k] = g]
  BY DEF Spend, KeySpends
<1>2. spent \in [Keys -> [0..(MaxTime + 1) -> Nat]]
  BY DEF TypeOK
<1>3. g \in [0..(MaxTime + 1) -> Nat]
  <2>1. \A t \in 0..(MaxTime + 1) : spent[k][t] \in Nat
    BY <1>2
  <2>2. \A t \in 0..(MaxTime + 1) :
          (IF t <= due[r] THEN spent[k][t] + 1 ELSE spent[k][t]) \in Nat
    BY <2>1
  <2> QED
    BY <2>2 DEF KeySpends
<1> HIDE DEF g
<1>4. /\ spent' \in [Keys -> [0..(MaxTime + 1) -> Nat]]
      /\ spent'[k] = g /\ \A c \in Keys \ {k} : spent'[c] = spent[c]
  BY <1>1, <1>2, <1>3
<1> QED
  BY <1>4 DEF g

LEMMA LetInHolds ==
  ASSUME RateInv, NEW r \in Requests, LetIn(r)
  PROVE  RateInv'
<1>1. PICK k \in Keys : k = Key(r)
  BY KeyTyped DEF RateInv
<1>2. /\ TypeOK /\ Over(r) /\ Holds(r) /\ due[r] <= now /\ Spend(r)
      /\ UNCHANGED <<now, buckets, blurred, told>>
  BY DEF RateInv, LetIn, Holds
<1>3. /\ spent' \in [Keys -> [0..(MaxTime + 1) -> Nat]]
      /\ spent'[k] = KeySpends(r) /\ \A c \in Keys \ {k} : spent'[c] = spent[c]
  BY <1>1, <1>2, SpendFields
<1>4. TypeOK'
  BY <1>2, <1>3, OverMoves DEF TypeOK
<1>5. /\ pc'[r] = "idle" /\ ~Holds(r)' /\ \A q \in Requests \ {r} : Stays(q)
  BY <1>2, OverMoves DEF Holds
<1>6. ToldInv(k)'
  BY <1>2 DEF RateInv, KeyInv, ToldInv, Zero
<1>7. ASSUME NEW c \in Keys
      PROVE  KeyInv(c)'
  <2>1. CASE c = k
    BY <2>1, <1>1, <1>2, <1>3, <1>5, <1>6, KeyPays
  <2>2. CASE c # k
    BY <2>2, <1>1, <1>2, <1>3, <1>5, OtherKeys
  <2> QED
    BY <2>1, <2>2
<1>8. \A q \in Requests : Present(q)' /\ Waited(q)'
  BY <1>2, OverPresent
<1> QED
  BY <1>4, <1>7, <1>8 DEF RateInv

-------------------------------------------------------------------------------
(* A request is refused.                                                   *)

\* It keeps what it has reserved until it cancels.
LEMMA RefuseHolds ==
  ASSUME RateInv, NEW r \in Requests, Refuse(r)
  PROVE  RateInv'
<1>1. /\ TypeOK /\ pc[r] = "decide" /\ due[r] > now
      /\ wait' = [wait EXCEPT ![r] = due[r] - now]
      /\ pc' = [pc EXCEPT ![r] = "cancel"]
      /\ UNCHANGED <<now, buckets, who, due, since, spent, blurred, told>>
      /\ now \in Nat /\ due[r] \in Nat /\ due[r] \in 0..Horizon
  BY DueTyped DEF RateInv, Refuse, TypeOK
<1>2. due[r] - now \in 0..Horizon
  BY <1>1, DebtFacts
<1>3. TypeOK'
  BY <1>1, <1>2 DEF TypeOK
<1>4. /\ pc'[r] = "cancel" /\ wait'[r] = due[r] - now
      /\ \A q \in Requests \ {r} : pc'[q] = pc[q] /\ wait'[q] = wait[q]
  BY <1>1 DEF TypeOK
<1>5. \A q \in Requests : Key(q)' = Key(q) /\ (Holds(q)' <=> Holds(q))
  BY <1>1, <1>4, SameKey DEF Holds
<1>6. ASSUME NEW k \in Keys
      PROVE  KeyInv(k)'
  <2>1. /\ Holding(k)' = Holding(k)
        /\ \A s \in Nat : Booked(k, s)' = Booked(k, s)
    BY <1>1, <1>5 DEF Holding, Booked
  <2>2. \A q \in Holding(k) : due'[q] = due[q] /\ (pc'[q] = pc[q] \/ due[q] > now)
    BY <1>1, <1>4 DEF Holding
  <2> QED
    BY <1>1, <2>1, <2>2, KeyStays DEF RateInv
<1>7. ASSUME NEW q \in Requests
      PROVE  Present(q)' /\ Waited(q)'
  <2>1. Present(q)'
    BY <1>1, <1>4, <1>5 DEF RateInv, Present
  <2>2. CASE q = r
    <3>1. wait'[r] + now' >= due'[r]
      BY <1>1, <1>4
    <3> QED
      BY <2>1, <2>2, <3>1 DEF Waited
  <2>3. CASE q # r
    BY <2>1, <2>3, <1>1, <1>4, WaitedStays
  <2> QED
    BY <2>2, <2>3
<1> QED
  BY <1>3, <1>6, <1>7 DEF RateInv

LEMMA IntoBucket ==
  ASSUME NEW c \in AnyBucket, NEW L, NEW T, NEW H,
         c.level \in L, c.last \in T, c.event \in H, c.hit \in T
  PROVE  c \in [level : L, last : T, event : H, hit : T, used : BOOLEAN]
BY DEF AnyBucket

\* What a cancelled reservation leaves is a bucket of the same kind.
LEMMA CancelledTyped ==
  ASSUME TypeOK, NEW k \in Keys, buckets[k].last <= now, NEW d \in 0..Horizon, d >= now,
         buckets[k].event = d, Zero(buckets[k]) = d
  PROVE  Cancelled(buckets[k], d) \in Bucket
<1> DEFINE b == buckets[k]
           c == Cancelled(b, d)
           x == MaxDebt * Interval
<1>1. b \in Bucket /\ b \in AnyBucket /\ b.level <= Full /\ now \in Nat /\ now <= MaxTime
  BY BucketTyped, DueTyped DEF TypeOK
<1>2. d \in Nat /\ d <= Horizon /\ Horizon \in Nat /\ MaxTime \in Nat /\ x \in Nat
      /\ Interval \in Nat /\ Interval > 0 /\ Full \in Nat /\ Full >= Interval
  BY DebtFacts, CostFacts
<1>3. /\ c \in AnyBucket /\ c.level = now - d + Interval /\ c.last = now
      /\ c.event = IF d - Interval >= now THEN d - Interval ELSE d
      /\ c.hit = b.hit /\ c.used = b.used
  BY <1>1, <1>2, CancelledFields
<1>4. now - d >= b.level
  <2>1. Level(b) >= b.level /\ Level(b) = now - d
    BY <1>1, <1>2, LevelNow
  <2> QED
    BY <2>1
<1>5. b.level + x + Interval >= 0 /\ b.level \in Int
  <2>1. b.level \in -((MaxDebt + 1) * Interval)..Full
    BY <1>1 DEF Bucket
  <2>2. (MaxDebt + 1) * Interval = x + Interval
    BY DebtFacts
  <2> DEFINE y == (MaxDebt + 1) * Interval
  <2>3. b.level \in -y..Full /\ y = x + Interval
    BY <2>1, <2>2
  <2> HIDE DEF b, x, y
  <2> QED
    BY <2>3, <1>2
<1>6. c.level \in -((MaxDebt + 1) * Interval)..Full
  <2>1. c.level \in Int /\ c.level <= Full
    BY <1>1, <1>2, <1>3
  <2>2. c.level + x + Interval >= 0
    BY <1>1, <1>2, <1>3, <1>4, <1>5
  <2> QED
    BY <2>1, <2>2, LevelTyped
<1>7. c.last \in Times /\ c.event \in 0..Horizon
  BY <1>1, <1>2, <1>3 DEF Times
<1>8. c.hit \in Times /\ c.used \in BOOLEAN
  BY <1>1, <1>3 DEF Bucket
<1>9. c \in AnyBucket
  BY <1>3
<1> HIDE DEF c
<1>10. c \in [level : -((MaxDebt + 1) * Interval)..Full, last : Times,
              event : 0..Horizon, hit : Times, used : BOOLEAN]
  BY <1>6, <1>7, <1>8, <1>9, IntoBucket, Zenon
<1>11. c \in Bucket
  BY <1>10 DEF Bucket
<1> QED
  BY <1>11 DEF c

\* What a cancelled reservation does to its source.
LEMMA KeyCancel ==
  ASSUME RateInv, NEW r \in Requests, NEW k \in Keys, Key(r) = k,
         pc[r] = "cancel", pc'[r] = "idle", \A q \in Requests \ {r} : Stays(q),
         due[r] >= now, now' = now, blurred' = blurred, spent'[k] = spent[k],
         buckets'[k] = Cancelled(buckets[k], due[r]),
         told'[k] = IF buckets[k].event = due[r]
                    THEN [at |-> now + RetryAfter(wait[r]), late |-> FALSE] ELSE NotTold
  PROVE  /\ KeyInv(k)'
         /\ Cancelled(buckets[k], due[r]) \in Bucket
         /\ buckets'[k].used = buckets[k].used /\ buckets'[k].hit = buckets[k].hit
<1> DEFINE b == buckets[k]
           d == due[r]
           c == Cancelled(b, d)
           live == Live(k)
           less == Less(live, d)
<1>1. /\ TypeOK /\ KeyInv(k) /\ b.used /\ d \in Nat /\ now \in Nat /\ MaxPause \in Nat
      /\ b \in AnyBucket /\ b \in Bucket /\ b.level <= Full /\ b.last <= now /\ b.hit <= now
      /\ d \in 0..Horizon
  BY BucketTyped, DueTyped DEF RateInv, Present, KeyInv, Clocked, TypeOK
<1>2. live \in [Nat -> Nat] /\ Sound(b, live, now)
  BY <1>1, LiveTyped DEF KeyInv, UsedInv
<1>3. Interval \in Nat /\ Interval > 0 /\ Full \in Nat /\ Full >= Interval /\ Cost(0) = 0
  BY CostFacts
<1>0. Holds(r) /\ ~Holds(r)'
  BY DEF Holds
<1>4. r \in Holding(k) /\ Waits(r)
  BY <1>0 DEF Holding, Waits
<1>5. PICK j \in Nat : b.event = d + Cost(j)
  BY <1>1, <1>4 DEF KeyInv, UsedInv, InStep
<1>6. /\ Live(k)' = less /\ \A s \in Nat : s <= d => live[s] > 0
      /\ \A s \in Nat : Passed(k, s)' = Passed(k, s)
  BY <1>0, <1>1, LiveLess
<1>7. /\ Holding(k)' = Holding(k) \ {r}
      /\ \A q \in Holding(k) \ {r} : due'[q] = due[q] /\ (Waits(q)' <=> Waits(q))
  BY <1>0, LeaveBooked DEF Waits
<1>8. b.event = Zero(b) /\ Zero(b) \in Int
  BY <1>1, <1>4 DEF KeyInv, UsedInv, InStep, Zero, AnyBucket
<1>9. \A s \in Nat : /\ live[s] \in Nat /\ less[s] \in Nat /\ Cost(live[s]) \in Nat
                     /\ Cost(less[s]) \in Nat
                     /\ s > d => less[s] = live[s]
                     /\ s <= d => /\ less[s] = live[s] - 1
                                  /\ Cost(less[s]) = Cost(live[s]) - Interval
  BY <1>1, <1>2, <1>6, LessCost
<1>10. Sound(c, less, now)
  BY <1>1, <1>2, <1>5, <1>6, <1>8, CancelSound
<1>11. j > 0 => c = b /\ b.event # d
  <2>1. j > 0 => Cost(j) >= Interval /\ Cost(j) \in Nat
    BY CostOfOne, CostFacts
  <2> QED
    BY <2>1, <1>1, <1>3, <1>5, CancelledNothing
<1>12. j = 0 =>
         /\ b.event = d /\ Zero(b) = d
         /\ c \in Bucket /\ c.last = now
         /\ c.event = IF d - Interval >= now THEN d - Interval ELSE d
         /\ c.hit = b.hit /\ c.used = b.used /\ Zero(c) = d - Interval
  <2> SUFFICES ASSUME j = 0
               PROVE  /\ b.event = d /\ Zero(b) = d
                      /\ c \in Bucket /\ c.last = now
                      /\ c.event = IF d - Interval >= now THEN d - Interval ELSE d
                      /\ c.hit = b.hit /\ c.used = b.used /\ Zero(c) = d - Interval
    OBVIOUS
  <2>1. b.event = d /\ Zero(b) = d
    BY <1>1, <1>3, <1>5, <1>8
  <2>2. c \in Bucket
    BY <2>1, <1>1, CancelledTyped
  <2> QED
    BY <2>1, <2>2, <1>1, CancelledFields
<1>13. j = 0 \/ j > 0
  OBVIOUS
<1>14. /\ c \in Bucket /\ c.hit = b.hit /\ c.used = b.used /\ c.last <= now
       /\ buckets'[k] = c
  <2>1. CASE j > 0
    BY <2>1, <1>1, <1>11
  <2>2. CASE j = 0
    <3>1. c \in Bucket /\ c.hit = b.hit /\ c.used = b.used /\ c.last = now
      BY <2>2, <1>12
    <3>2. now <= now
      BY <1>1
    <3>3. buckets'[k] = c
      OBVIOUS
    <3> HIDE DEF b, c
    <3> QED
      BY <3>1, <3>2, <3>3
  <2> QED
    BY <2>1, <2>2, <1>13
<1>15. Clocked(k)' /\ NotYet(k)'
  BY <1>1, <1>6, <1>14 DEF KeyInv, Clocked, NotYet
<1>16. InStep(k)'
  <2>1. ASSUME NEW q \in Holding(k) \ {r}, Waits(q)
        PROVE  c.event = Zero(c) /\ \E i \in Nat : c.event = due[q] + Cost(i)
    <3>1. PICK i \in Nat : b.event = due[q] + Cost(i)
      BY <2>1, <1>1 DEF KeyInv, UsedInv, InStep
    <3>2. due[q] \in Nat /\ due[q] >= now
      BY <2>1, <1>1, DueTyped DEF Holding, Waits
    <3>3. CASE j > 0
      BY <3>1, <3>3, <1>8, <1>11
    <3>4. CASE j = 0
      <4>1. due[q] # d
        BY <2>1, <1>1, <1>4 DEF KeyInv, UsedInv, InStep
      <4>2. i > 0
        BY <4>1, <3>1, <3>2, <3>4, <1>1, <1>3, <1>12
      <4>3. Cost(i) \in Nat /\ Cost(i - 1) = Cost(i) - Interval /\ Cost(i) >= Interval
            /\ i - 1 \in Nat /\ Cost(i - 1) \in Nat
        BY <4>2, CostOfOne, CostFacts
      <4>4. d = due[q] + Cost(i)
        BY <3>1, <3>4, <1>12
      <4>5. c.event = d - Interval /\ Zero(c) = d - Interval
        BY <4>3, <4>4, <3>2, <3>4, <1>1, <1>3, <1>12
      <4>6. c.event = due[q] + Cost(i - 1)
        BY <4>3, <4>4, <4>5, <3>2, <1>1, <1>3
      <4> QED
        BY <4>3, <4>5, <4>6
    <3> QED
      BY <3>3, <3>4, <1>13
  <2>2. \A p, q \in Holding(k) \ {r} : Waits(p) /\ Waits(q) /\ due[p] = due[q] => p = q
    BY <1>1 DEF KeyInv, UsedInv, InStep
  <2>3. buckets'[k].event = c.event /\ Zero(buckets[k])' = Zero(c)
    BY <1>14 DEF Zero
  <2> HIDE DEF c
  <2> QED
    BY <2>1, <2>2, <2>3, <1>7 DEF InStep
<1>17. UsedInv(k)'
  <2>1. Sound(buckets[k], Live(k), now)'
    BY <1>6, <1>10, <1>14 DEF Sound, Covered, NoneLater, Queued, LastOfDebt, Zero
  <2>2. \A s \in Nat : s > buckets'[k].hit + MaxPause => Passed(k, s)' = 0
    BY <1>1, <1>6, <1>14 DEF KeyInv, UsedInv
  <2> QED
    BY <2>1, <2>2, <1>16 DEF UsedInv
<1>18. FreshInv(k)'
  BY <1>1, <1>14 DEF FreshInv
<1>19. Spans(k)'
  <2> SUFFICES ASSUME NEW s \in Nat, NEW t \in Nat, s <= t
               PROVE  Cost(less[s]) <= Cost(less[t + 1]) + Full + (t - s)
    BY <1>6 DEF Spans
  <2>1. t + 1 \in Nat
    OBVIOUS
  <2>2. Cost(live[s]) <= Cost(live[t + 1]) + Full + (t - s)
    BY <1>1 DEF KeyInv, Spans
  <2>3. CASE s > d
    <3>1. t + 1 > d
      BY <2>3, <1>1
    <3> QED
      BY <2>1, <2>2, <2>3, <3>1, <1>9
  <2>4. CASE s <= d /\ t + 1 <= d
    BY <2>1, <2>2, <2>4, <1>3, <1>9
  <2>5. CASE s <= d /\ t + 1 > d
    BY <2>1, <2>2, <2>5, <1>3, <1>9
  <2> QED
    BY <2>3, <2>4, <2>5, <1>1
<1>20. Alone(k)'
  <2> SUFFICES ASSUME k \notin blurred
               PROVE  Holding(k)' = {} /\ Tight(k)'
    BY DEF Alone
  <2>1. Holding(k) = {r} /\ d = b.event /\ Tight(k)
    BY <1>1, <1>4 DEF KeyInv, Alone
  <2>2. j = 0
    BY <2>1, <1>11, <1>13
  <2>3. PICK s \in Nat : s <= b.last /\ Cost(live[s]) >= Full + d - s
    BY <2>1, <2>2, <1>12 DEF Tight
  <2>4. s <= now /\ s <= d
    <3>1. b.last \in Nat
      BY <1>1 DEF AnyBucket
    <3> QED
      BY <3>1, <2>3, <1>1
  <2>5. Cost(less[s]) >= Full + (d - Interval) - s
    BY <2>3, <2>4, <1>1, <1>3, <1>9
  <2>6. Tight(k)'
    BY <2>2, <2>4, <2>5, <1>6, <1>12, <1>14 DEF Tight
  <2> QED
    BY <2>1, <2>6, <1>7
<1>21. ToldInv(k)'
  <2>1. CASE b.event # d
    BY <2>1 DEF ToldInv, NotTold
  <2>2. CASE b.event = d
    <3>1. j = 0
      BY <2>2, <1>11, <1>13
    <3>2. wait[r] \in Nat /\ wait[r] + now >= d
      BY <1>1, DueTyped DEF RateInv, Waited
    <3>3. RetryAfter(wait[r]) \in Nat /\ RetryAfter(wait[r]) >= wait[r]
      BY <3>2, RetryAfterCovers
    <3>4. told'[k].at = now + RetryAfter(wait[r]) /\ told'[k].late = FALSE
      BY <2>2
    <3>5. told'[k].at >= d /\ told'[k].at >= now
      BY <3>2, <3>3, <3>4, <1>1
    <3>6. buckets'[k].used /\ buckets'[k].last = now /\ Zero(buckets[k])' + Interval = d
      <4>1. c.last = now /\ Zero(c) = d - Interval
        BY <3>1, <1>12
      <4>2. c.used
        BY <1>1, <1>14
      <4>3. (d - Interval) + Interval = d
        BY <1>1, <1>3
      <4>4. buckets'[k] = c /\ Zero(buckets[k])' = Zero(c)
        BY <1>14 DEF Zero
      <4> HIDE DEF b, c, d
      <4> QED
        BY <4>1, <4>2, <4>3, <4>4
    <3> QED
      BY <3>4, <3>5, <3>6 DEF ToldInv, Enough
  <2> QED
    BY <2>1, <2>2
<1> QED
  BY <1>14, <1>15, <1>17, <1>18, <1>19, <1>20, <1>21 DEF KeyInv

\* What the client is told.
LEMMA TellFields ==
  ASSUME TypeOK, NEW r \in Requests, NEW k \in Keys, k = Key(r), NEW late \in BOOLEAN,
         Tell(r, late)
  PROVE  /\ told' \in [Keys -> [at : Nat \cup {-1}, late : BOOLEAN]]
         /\ told'[k] = IF buckets[k].event = due[r]
                       THEN [at |-> now + RetryAfter(wait[r]), late |-> late] ELSE NotTold
         /\ \A c \in Keys \ {k} : told'[c] = told[c]
<1> DEFINE w == IF buckets[k].event = due[r]
                THEN [at |-> now + RetryAfter(wait[r]), late |-> late] ELSE NotTold
<1>1. told' = [told EXCEPT ![k] = w]
  BY DEF Tell
<1>2. told \in [Keys -> [at : Nat \cup {-1}, late : BOOLEAN]]
  BY DEF TypeOK
<1>3. w \in [at : Nat \cup {-1}, late : BOOLEAN]
  <2>1. now \in Nat /\ wait[r] \in Nat
    BY DueTyped
  <2>2. RetryAfter(wait[r]) \in Nat
    BY <2>1, RetryAfterCovers
  <2>3. now + RetryAfter(wait[r]) \in Nat
    BY <2>1, <2>2
  <2> QED
    BY <2>3 DEF NotTold
<1> HIDE DEF w
<1>4. /\ told' \in [Keys -> [at : Nat \cup {-1}, late : BOOLEAN]] /\ told'[k] = w
      /\ \A c \in Keys \ {k} : told'[c] = told[c]
  BY <1>1, <1>2, <1>3
<1> QED
  BY <1>4 DEF w

LEMMA CancelHolds ==
  ASSUME RateInv, NEW r \in Requests, Cancel(r)
  PROVE  RateInv'
<1>1. PICK k \in Keys : k = Key(r)
  BY KeyTyped DEF RateInv
<1> DEFINE c == Cancelled(buckets[k], due[r])
<1>2. /\ TypeOK /\ Over(r) /\ pc[r] = "cancel" /\ due[r] >= now
      /\ buckets' = [buckets EXCEPT ![k] = c] /\ Tell(r, FALSE)
      /\ UNCHANGED <<now, spent, blurred>>
  BY <1>1 DEF RateInv, Cancel
<1>3. /\ pc'[r] = "idle" /\ ~Holds(r)' /\ \A q \in Requests \ {r} : Stays(q)
  BY <1>2, OverMoves DEF Holds
<1>4. buckets \in [Keys -> Bucket]
  BY <1>2 DEF TypeOK
<1>5. buckets'[k] = c /\ \A q \in Keys \ {k} : buckets'[q] = buckets[q]
  <2> HIDE DEF c
  <2> QED
    BY <1>2, <1>4
<1>6. /\ told' \in [Keys -> [at : Nat \cup {-1}, late : BOOLEAN]]
      /\ told'[k] = IF buckets[k].event = due[r]
                    THEN [at |-> now + RetryAfter(wait[r]), late |-> FALSE] ELSE NotTold
      /\ \A q \in Keys \ {k} : told'[q] = told[q]
  BY <1>1, <1>2, TellFields
<1>7. /\ KeyInv(k)' /\ c \in Bucket
      /\ buckets'[k].used = buckets[k].used /\ buckets'[k].hit = buckets[k].hit
  BY <1>1, <1>2, <1>3, <1>5, <1>6, KeyCancel
<1>8. TypeOK'
  <2>1. buckets' \in [Keys -> Bucket]
    <3> HIDE DEF c
    <3> QED
      BY <1>2, <1>4, <1>7
  <2> QED
    BY <2>1, <1>2, <1>6, OverMoves DEF TypeOK
<1>9. ASSUME NEW q \in Keys
      PROVE  KeyInv(q)'
  <2>1. CASE q = k
    BY <2>1, <1>7
  <2>2. CASE q # k
    BY <2>2, <1>1, <1>2, <1>3, <1>5, <1>6, OtherKeys
  <2> QED
    BY <2>1, <2>2
<1>10. \A q \in Requests : Present(q)' /\ Waited(q)'
  <2>1. \A q \in Keys : buckets'[q].used = buckets[q].used /\ buckets'[q].hit = buckets[q].hit
    BY <1>5, <1>7
  <2> QED
    BY <2>1, <1>2, OverPresent
<1> QED
  BY <1>8, <1>9, <1>10 DEF RateInv

\* Whoever cancels too late has spent its token, and is told to wait a second at
\* least.
LEMMA CancelLateHolds ==
  ASSUME RateInv, NEW r \in Requests, CancelLate(r)
  PROVE  RateInv'
<1>1. PICK k \in Keys : k = Key(r)
  BY KeyTyped DEF RateInv
<1>2. /\ TypeOK /\ Over(r) /\ Holds(r) /\ pc[r] # "idle" /\ due[r] < now
      /\ Spend(r) /\ Tell(r, TRUE) /\ UNCHANGED <<now, buckets, blurred>>
      /\ now \in Nat /\ due[r] \in Nat /\ wait[r] \in Nat
  BY DueTyped DEF RateInv, CancelLate, Holds
<1>3. /\ spent' \in [Keys -> [0..(MaxTime + 1) -> Nat]]
      /\ spent'[k] = KeySpends(r) /\ \A c \in Keys \ {k} : spent'[c] = spent[c]
  BY <1>1, <1>2, SpendFields
<1>4. /\ told' \in [Keys -> [at : Nat \cup {-1}, late : BOOLEAN]]
      /\ told'[k] = IF buckets[k].event = due[r]
                    THEN [at |-> now + RetryAfter(wait[r]), late |-> TRUE] ELSE NotTold
      /\ \A q \in Keys \ {k} : told'[q] = told[q]
  BY <1>1, <1>2, TellFields
<1>5. TypeOK'
  BY <1>2, <1>3, <1>4, OverMoves DEF TypeOK
<1>6. /\ pc'[r] = "idle" /\ ~Holds(r)' /\ \A q \in Requests \ {r} : Stays(q)
  BY <1>2, OverMoves DEF Holds
<1>7. ToldInv(k)'
  <2>1. CASE buckets[k].event # due[r]
    BY <2>1, <1>4 DEF ToldInv, NotTold
  <2>2. CASE buckets[k].event = due[r]
    <3>1. told'[k].at = now + RetryAfter(wait[r]) /\ told'[k].late = TRUE
      BY <2>2, <1>4
    <3>2. RetryAfter(wait[r]) \in Nat /\ RetryAfter(wait[r]) >= Second
      BY <1>2, RetryAfterCovers
    <3>3. /\ buckets[k].used /\ buckets[k] \in AnyBucket /\ buckets[k].last <= now
          /\ LastOfDebt(buckets[k])
      BY <1>1, <1>2, BucketTyped
      DEF RateInv, Present, KeyInv, Clocked, UsedInv, Sound
    <3>4. Zero(buckets[k]) <= now /\ Zero(buckets[k]) \in Int
      <4>1. CASE buckets[k].level < 0
        BY <4>1, <2>2, <3>3, <1>2 DEF LastOfDebt, Zero, AnyBucket
      <4>2. CASE buckets[k].level >= 0
        BY <4>2, <3>3, <1>2 DEF Zero, AnyBucket
      <4> QED
        BY <4>1, <4>2, <3>3 DEF AnyBucket
    <3>5. Second \in Nat /\ Enough(TRUE) <= Second /\ Enough(TRUE) \in Nat
      BY RateLimiterAssumption DEF Enough
    <3>6. /\ told'[k].at >= buckets[k].last
          /\ told'[k].at >= Zero(buckets[k]) + Enough(TRUE)
      <4>1. buckets[k].last \in Nat
        BY <3>3 DEF AnyBucket
      <4> DEFINE w == RetryAfter(wait[r])
                 e == Enough(TRUE)
                 z == Zero(buckets[k])
                 l == buckets[k].last
      <4>2. w \in Nat /\ w >= Second /\ e <= Second /\ e \in Nat /\ Second \in Nat
            /\ z <= now /\ z \in Int /\ l <= now /\ l \in Nat /\ told'[k].at = now + w
        BY <3>1, <3>2, <3>3, <3>4, <3>5, <4>1
      <4> HIDE DEF w, e, z, l
      <4>3. told'[k].at >= l /\ told'[k].at >= z + e
        BY <4>2, <1>2
      <4> QED
        BY <4>3 DEF l, z, e
    <3>7. buckets'[k] = buckets[k] /\ Zero(buckets[k])' = Zero(buckets[k])
          /\ Enough(told[k].late)' = Enough(TRUE)
      BY <3>1, <1>2 DEF Zero, Enough
    <3> QED
      BY <3>3, <3>6, <3>7 DEF ToldInv
  <2> QED
    BY <2>1, <2>2
<1>8. ASSUME NEW c \in Keys
      PROVE  KeyInv(c)'
  <2>1. CASE c = k
    BY <2>1, <1>1, <1>2, <1>3, <1>6, <1>7, KeyPays
  <2>2. CASE c # k
    BY <2>2, <1>1, <1>2, <1>3, <1>4, <1>6, OtherKeys
  <2> QED
    BY <2>1, <2>2
<1>9. \A q \in Requests : Present(q)' /\ Waited(q)'
  BY <1>2, OverPresent
<1> QED
  BY <1>5, <1>8, <1>9 DEF RateInv

-------------------------------------------------------------------------------
(* The collector and the clock.                                            *)

\* Whoever is inside was seen too lately for its bucket to be forgotten.
LEMMA IdleIsEmpty ==
  ASSUME RateInv, NEW k \in Keys, Idle(buckets[k])
  PROVE  /\ \A r \in Requests : pc[r] # "idle" => Key(r) # k
         /\ Holding(k) = {} /\ \A s \in Nat : Booked(k, s) = {}
         /\ \A s \in Nat : /\ Live(k)[s] = Passed(k, s) /\ Passed(k, s) \in Nat
                           /\ Cost(Live(k)[s]) \in Nat
<1>1. /\ TypeOK /\ now \in Nat /\ MaxPause \in Nat
      /\ buckets[k].hit \in Nat /\ IdleTTL \in Nat /\ MaxPause <= IdleTTL
  BY BucketTyped, DueTyped, RateLimiterAssumption DEF RateInv, AnyBucket
<1>2. now > buckets[k].hit + IdleTTL
  BY <1>1 DEF Idle
<1>3. ASSUME NEW r \in Requests, pc[r] # "idle", Key(r) = k
      PROVE  FALSE
  <2>1. since[r] <= buckets[k].hit /\ now - since[r] <= MaxPause /\ since[r] \in Nat
    BY <1>1, <1>3, DueTyped DEF RateInv, Present
  <2> QED
    BY <2>1, <1>1, <1>2
<1>4. Holding(k) = {} /\ \A s \in Nat : Booked(k, s) = {}
  BY <1>3 DEF Holding, Booked, Holds
<1>5. ASSUME NEW s \in Nat
      PROVE  /\ Live(k)[s] = Passed(k, s) /\ Passed(k, s) \in Nat
             /\ Cost(Live(k)[s]) \in Nat
  <2>1. Live(k)[s] = Passed(k, s) + Cardinality(Booked(k, s)) /\ Passed(k, s) \in Nat
    BY <1>1, LiveTyped
  <2>2. Booked(k, s) = {}
    BY <1>4
  <2>3. Cardinality(Booked(k, s)) = 0
    BY <2>2, FS_EmptySet, Zenon
  <2> QED
    BY <2>1, <2>3, CostFacts
<1> QED
  BY <1>3, <1>4, <1>5

\* If a source owes nothing, what was spent of it has come back.
LEMMA OwesNothing ==
  ASSUME RateInv, NEW k \in Keys, ~Owes(k)
  PROVE  \A s \in Nat : /\ s > now => Passed(k, s) = 0
                        /\ s <= now => Cost(Passed(k, s)) <= now - s
<1>1. now \in Nat /\ now <= MaxTime /\ MaxTime \in Nat /\ TypeOK
  BY DueTyped DEF RateInv
<1>2. \A s \in Nat : s > now => Passed(k, s) = 0
  BY DEF RateInv, KeyInv, NotYet
<1>3. ASSUME NEW s \in Nat, s <= now
      PROVE  Cost(Passed(k, s)) <= now - s
  <2>1. s \in 0..now /\ Passed(k, s) = spent[k][s]
    BY <1>1, <1>3 DEF Passed
  <2>2. ~(spent[k][s] * Interval > now - s)
    BY <2>1 DEF Owes
  <2>3. Passed(k, s) \in Nat /\ Cost(Passed(k, s)) \in Nat
    BY <1>1, LiveTyped, CostFacts
  <2> QED
    BY <2>1, <2>2, <2>3, <1>1, <1>3 DEF Cost
<1> QED
  BY <1>2, <1>3

\* A bucket is forgotten, and what is still owed with it.
LEMMA KeyForgotten ==
  ASSUME RateInv, NEW k \in Keys, Idle(buckets[k]), now' = now,
         buckets'[k] = NoBucket, told'[k] = NotTold,
         spent'[k] = IF Owes(k) THEN Unspent ELSE spent[k],
         UNCHANGED <<pc, who, due>>
  PROVE  KeyInv(k)'
<1>1. /\ TypeOK /\ KeyInv(k) /\ now \in Nat /\ Full \in Nat /\ Cost(0) = 0
      /\ MaxTime \in Nat
  BY DueTyped, CostFacts DEF RateInv
<1>2. Holding(k)' = {} /\ \A s \in Nat : Booked(k, s)' = {}
  <2>1. \A r \in Requests : Key(r)' = Key(r) /\ (Holds(r)' <=> Holds(r))
    BY SameKey DEF Holds
  <2>2. Holding(k)' = Holding(k) /\ \A s \in Nat : Booked(k, s)' = Booked(k, s)
    BY <2>1 DEF Booked, Holding
  <2> QED
    BY <2>2, IdleIsEmpty
<1>3. \A s \in Nat : Live(k)'[s] = Passed(k, s)'
  <2>1. Cardinality({}) = 0
    BY FS_EmptySet
  <2>2. Live(k)' = [s \in Nat |-> Passed(k, s)' + Cardinality(Booked(k, s)')]
    BY DEF Live
  <2>3. \A s \in Nat : Live(k)'[s] = Passed(k, s)' + 0
    BY <2>1, <2>2, <1>2
  <2>4. \A s \in Nat : Passed(k, s)' \in Nat
    <3>1. Passed(k, 0) \in Nat /\ \A s \in Nat : Passed(k, s) \in Nat
      BY <1>1, LiveTyped
    <3>2. CASE Owes(k)
      BY <3>2, <1>1 DEF Passed, Unspent
    <3>3. CASE ~Owes(k)
      BY <3>1, <3>3 DEF Passed
    <3> QED
      BY <3>2, <3>3
  <2> QED
    BY <2>3, <2>4
<1>4. \A s \in Nat : /\ s > now => Passed(k, s)' = 0
                     /\ s <= now => Cost(Passed(k, s)') <= now - s
  <2>1. CASE Owes(k)
    <3>1. \A s \in Nat : Passed(k, s)' = 0
      BY <2>1, <1>1 DEF Passed, Unspent
    <3> QED
      BY <3>1, <1>1
  <2>2. CASE ~Owes(k)
    <3>1. \A s \in Nat : Passed(k, s)' = Passed(k, s)
      BY <2>2 DEF Passed
    <3> QED
      BY <3>1, <2>2, OwesNothing
  <2> QED
    BY <2>1, <2>2
<1>5. ~buckets'[k].used /\ buckets'[k].last = 0 /\ buckets'[k].hit = 0
  BY DEF NoBucket
<1>6. Clocked(k)' /\ NotYet(k)' /\ UsedInv(k)' /\ Alone(k)' /\ ToldInv(k)'
  BY <1>1, <1>4, <1>5 DEF Clocked, NotYet, UsedInv, Alone, ToldInv, NotTold
<1>7. FreshInv(k)'
  BY <1>1, <1>3, <1>4 DEF FreshInv
<1>8. Spans(k)'
  <2>1. CASE Owes(k)
    <3>1. \A s \in Nat : Live(k)'[s] = 0
      BY <2>1, <1>1, <1>3 DEF Passed, Unspent
    <3> QED
      BY <3>1, <1>1 DEF Spans
  <2>2. CASE ~Owes(k)
    <3>0. \A s \in Nat : Passed(k, s)' = Passed(k, s)
      BY <2>2 DEF Passed
    <3>1. \A s \in Nat : Live(k)'[s] = Live(k)[s]
      BY <3>0, <1>3, IdleIsEmpty
    <3> SUFFICES ASSUME NEW s \in Nat, NEW t \in Nat, s <= t
                 PROVE  Cost(Live(k)'[s]) <= Cost(Live(k)'[t + 1]) + Full + (t - s)
      BY DEF Spans
    <3>2. Cost(Live(k)[s]) <= Cost(Live(k)[t + 1]) + Full + (t - s)
      BY <1>1 DEF KeyInv, Spans
    <3>3. Live(k)'[s] = Live(k)[s] /\ Live(k)'[t + 1] = Live(k)[t + 1]
      BY <3>1, t + 1 \in Nat
    <3> QED
      BY <3>2, <3>3
  <2> QED
    BY <2>1, <2>2
<1> QED
  BY <1>6, <1>7, <1>8 DEF KeyInv

LEMMA GcHolds ==
  ASSUME RateInv, Gc
  PROVE  RateInv'
<1>1. TypeOK /\ UNCHANGED <<now, pc, who, due, wait, since>> /\ now \in Nat
  BY DueTyped DEF RateInv, Gc
<1>2. \A k \in Keys :
        /\ buckets'[k] = IF Idle(buckets[k]) THEN NoBucket ELSE buckets[k]
        /\ told'[k] = IF Idle(buckets[k]) THEN NotTold ELSE told[k]
        /\ spent'[k] = IF Idle(buckets[k]) /\ Owes(k) THEN Unspent ELSE spent[k]
        /\ ~Idle(buckets[k]) => ((k \in blurred)' <=> k \in blurred)
  BY DEF Gc
<1>3. TypeOK'
  <2>1. NoBucket \in Bucket
    <3>1. 0 \in -((MaxDebt + 1) * Interval)..Full
      BY LevelTyped, CostFacts, DebtFacts
    <3>2. 0 \in Times /\ 0 \in 0..Horizon
      BY DebtFacts DEF Times
    <3> QED
      BY <3>1, <3>2 DEF NoBucket, Bucket
  <2>2. NotTold \in [at : Nat \cup {-1}, late : BOOLEAN] /\ Unspent \in [0..(MaxTime + 1) -> Nat]
    BY DEF NotTold, Unspent
  <2>3. /\ buckets' \in [Keys -> Bucket]
        /\ told' \in [Keys -> [at : Nat \cup {-1}, late : BOOLEAN]]
        /\ spent' \in [Keys -> [0..(MaxTime + 1) -> Nat]]
        /\ blurred' \subseteq Keys
    BY <1>1, <2>1, <2>2 DEF Gc, TypeOK
  <2> QED
    BY <1>1, <2>3 DEF TypeOK
<1>4. ASSUME NEW k \in Keys
      PROVE  KeyInv(k)'
  <2>1. CASE Idle(buckets[k])
    BY <2>1, <1>1, <1>2, KeyForgotten
  <2>2. CASE ~Idle(buckets[k])
    <3>1. \A r \in Requests : Key(r)' = Key(r) /\ (Holds(r)' <=> Holds(r))
      BY <1>1, SameKey DEF Holds
    <3>2. Holding(k)' = Holding(k) /\ \A s \in Nat : Booked(k, s)' = Booked(k, s)
      BY <1>1, <3>1 DEF Holding, Booked
    <3>3. /\ buckets'[k] = buckets[k] /\ told'[k] = told[k] /\ spent'[k] = spent[k]
          /\ (k \in blurred)' <=> k \in blurred
      BY <1>2, <2>2
    <3> QED
      BY <1>1, <3>2, <3>3, KeyStays DEF RateInv
  <2> QED
    BY <2>1, <2>2
<1>5. ASSUME NEW r \in Requests
      PROVE  Present(r)'
  <2>1. Key(r)' = Key(r) /\ Key(r) \in Keys /\ Present(r)
    BY <1>1, SameKey, KeyTyped DEF RateInv
  <2>2. pc[r] # "idle" => ~Idle(buckets[Key(r)])
    BY <2>1, IdleIsEmpty
  <2>3. pc[r] # "idle" => buckets'[Key(r)] = buckets[Key(r)]
    BY <2>1, <2>2, <1>2
  <2> QED
    BY <2>1, <2>3, <1>1 DEF Present
<1>6. \A r \in Requests : Waited(r)'
  BY <1>1, WaitedStays
<1> QED
  BY <1>3, <1>4, <1>5, <1>6 DEF RateInv

LEMMA TickHolds ==
  ASSUME RateInv, Tick
  PROVE  RateInv'
<1>1. /\ TypeOK /\ now' = now + 1 /\ now < MaxTime
      /\ UNCHANGED <<buckets, pc, who, due, wait, since, spent, blurred, told>>
      /\ \A r \in Requests : pc[r] # "idle" => now - since[r] < MaxPause
      /\ now \in Nat /\ MaxTime \in Nat /\ MaxPause \in Nat
  BY DueTyped DEF RateInv, Tick
<1>2. TypeOK'
  <2>1. now' \in Times
    BY <1>1 DEF Times
  <2> QED
    BY <1>1, <2>1 DEF TypeOK
<1>3. ASSUME NEW k \in Keys
      PROVE  KeyInv(k)'
  <2>1. KeyInv(k) /\ buckets[k] \in AnyBucket
    BY <1>1, BucketTyped DEF RateInv
  <2>2. \A r \in Requests : Key(r)' = Key(r) /\ (Holds(r)' <=> Holds(r))
    BY <1>1, SameKey DEF Holds
  <2>3. Holding(k)' = Holding(k) /\ \A s \in Nat : Booked(k, s)' = Booked(k, s)
    BY <1>1, <2>2 DEF Holding, Booked
  <2>0. \A r \in Holding(k) : Waits(r)' => Waits(r)
    <3>1. \A r \in Holding(k) : due[r] \in Nat
      BY <1>1, DueTyped DEF Holding
    <3> QED
      BY <3>1, <1>1 DEF Waits
  <2>4. Live(k)' = Live(k) /\ \A s \in Nat : Passed(k, s)' = Passed(k, s)
    BY <1>1, <2>3, LiveSame
  <2>5. \A s \in Nat : s > now + 1 => s > now
    BY <1>1
  <2>6. Clocked(k)' /\ NotYet(k)'
    <3>1. \A n \in Nat : n <= now => n <= now + 1
      BY <1>1
    <3> QED
      BY <3>1, <2>1, <2>4, <2>5, <1>1 DEF KeyInv, Clocked, NotYet, AnyBucket
  <2>7. UsedInv(k)'
    <3>1. Sound(buckets[k], Live(k), now) => Sound(buckets[k], Live(k), now)'
      BY <1>1, <2>4, <2>5 DEF Sound, Covered, NoneLater, Queued, LastOfDebt, Zero
    <3>2. InStep(k) => InStep(k)'
      BY <1>1, <2>0, <2>3 DEF InStep, Zero
    <3> QED
      BY <3>1, <3>2, <1>1, <2>1, <2>4 DEF KeyInv, UsedInv
  <2>8. FreshInv(k)'
    <3> SUFFICES ASSUME ~buckets[k].used, NEW s \in Nat
                 PROVE  /\ s > now + 1 => Live(k)[s] = 0
                        /\ s <= now + 1 => Cost(Live(k)[s]) <= now + 1 - s
      BY <1>1, <2>4 DEF FreshInv
    <3>1. /\ s > now => Live(k)[s] = 0
          /\ s <= now => Cost(Live(k)[s]) <= now - s
      BY <2>1 DEF KeyInv, FreshInv
    <3>2. Live(k)[s] \in Nat /\ Cost(Live(k)[s]) \in Nat /\ Cost(0) = 0
      BY <1>1, LiveTyped, CostFacts
    <3>3. CASE s <= now
      BY <3>1, <3>2, <3>3, <1>1
    <3>4. CASE s > now
      BY <3>1, <3>2, <3>4, <1>1
    <3> QED
      BY <3>3, <3>4, <1>1
  <2>9. Spans(k)' /\ ToldInv(k)'
    BY <1>1, <2>1, <2>4 DEF KeyInv, Spans, ToldInv, Zero
  <2>10. Alone(k)'
    <3>1. Tight(k) => Tight(k)'
      BY <1>1, <2>4 DEF Tight, Zero
    <3> QED
      BY <3>1, <1>1, <2>0, <2>1, <2>3 DEF KeyInv, Alone
  <2> QED
    BY <2>6, <2>7, <2>8, <2>9, <2>10 DEF KeyInv
<1>4. ASSUME NEW r \in Requests
      PROVE  Present(r)'
  <2>1. Key(r)' = Key(r) /\ since[r] \in Nat /\ Present(r)
    BY <1>1, SameKey, DueTyped DEF RateInv
  <2>2. now - since[r] < MaxPause => now + 1 - since[r] <= MaxPause
    BY <2>1, <1>1
  <2>3. since[r] <= now => since[r] <= now + 1
    BY <2>1, <1>1
  <2> QED
    BY <2>1, <2>2, <2>3, <1>1 DEF Present
<1>5. \A r \in Requests : Waited(r)'
  BY <1>1, WaitedStays
<1> QED
  BY <1>2, <1>3, <1>4, <1>5 DEF RateInv

-------------------------------------------------------------------------------
(* The theorems.                                                           *)

THEOREM RateInvariant == Spec => []RateInv
<1>1. Init => RateInv
  BY InitHolds
<1>2. RateInv /\ [Next]_vars => RateInv'
  <2> SUFFICES ASSUME RateInv, [Next]_vars
               PROVE  RateInv'
    OBVIOUS
  <2>1. CASE UNCHANGED vars
    <3>1. TypeOK' /\ \A r \in Requests : Present(r)' /\ Waited(r)'
      BY <2>1, SameKey DEF RateInv, TypeOK, vars, Present, Waited
    <3>2. ASSUME NEW k \in Keys
          PROVE  KeyInv(k)'
      <4>1. \A r \in Requests : Key(r)' = Key(r) /\ (Holds(r)' <=> Holds(r))
        BY <2>1, SameKey DEF vars, Holds
      <4>2. Holding(k)' = Holding(k) /\ \A s \in Nat : Booked(k, s)' = Booked(k, s)
        BY <2>1, <4>1 DEF Holding, Booked, vars
      <4> QED
        BY <2>1, <4>2, KeyStays DEF RateInv, vars
    <3> QED
      BY <3>1, <3>2 DEF RateInv
  <2>2. CASE Next
    BY <2>2, GetHolds, ReserveHolds, LetInHolds, RefuseHolds, CancelHolds,
       CancelLateHolds, GcHolds, TickHolds DEF Next
  <2> QED
    BY <2>1, <2>2
<1> QED
  BY <1>1, <1>2, PTL DEF Spec

\* In no span of time in which no bucket of a source was forgotten too early are more
\* requests of it let in, and tokens lost, than a full bucket and the tokens that came
\* back meanwhile.
THEOREM RateIsHeld == Spec => []RateHolds
<1>1. RateInv => RateHolds
  <2> SUFFICES ASSUME RateInv, NEW k \in Keys, NEW s \in 0..now, NEW t \in s..now
               PROVE  SpentIn(k, s, t) * Interval <= Full + (t - s)
    BY DEF RateHolds, NeverMoreThanTheRate, RateInv
  <2>1. /\ TypeOK /\ KeyInv(k) /\ now \in Nat /\ now <= MaxTime /\ MaxTime \in Nat
        /\ s \in Nat /\ t \in Nat /\ s <= t /\ t <= now /\ t + 1 \in Nat
    BY DueTyped DEF RateInv
  <2> DEFINE later == t + 1
             m == spent[k][s]
             n == spent[k][later]
             i == Cardinality(Booked(k, s))
             j == Cardinality(Booked(k, later))
  <2>2. Passed(k, s) = m /\ Passed(k, later) = n
    BY <2>1 DEF Passed
  <2>3. m \in Nat /\ n \in Nat /\ Live(k)[s] = m + i /\ Live(k)[later] = n + j
    BY <2>1, <2>2, LiveTyped
  <2>4. i \in Nat /\ j \in Nat /\ j <= i
    <3>1. Booked(k, later) \subseteq Booked(k, s)
      BY <2>1, DueTyped DEF Booked
    <3> QED
      BY <3>1, BookedFinite, FS_Subset
  <2>5. Cost(m + i) <= Cost(n + j) + Full + (t - s)
    BY <2>1, <2>3 DEF KeyInv, Spans
  <2>6. Interval \in Nat /\ Full \in Nat
    BY CostFacts
  <2>7. SpentIn(k, s, t) = m - n
    BY DEF SpentIn
  <2> HIDE DEF m, n, i, j, later
  <2>8. (m - n) * Interval <= (m + i) * Interval - (n + j) * Interval
    <3>1. PICK e \in Nat : i = j + e
      BY <2>4, i - j \in Nat
    <3>2. (m + i) * Interval - (n + j) * Interval = (m - n) * Interval + e * Interval
      BY <2>3, <2>4, <2>6, <3>1
    <3>3. e * Interval \in Nat /\ (m - n) * Interval \in Int
      BY <2>3, <2>6
    <3> QED
      BY <3>2, <3>3
  <2>9. (m + i) * Interval \in Int /\ (n + j) * Interval \in Int /\ (m - n) * Interval \in Int
    BY <2>3, <2>4, <2>6
  <2> QED
    BY <2>1, <2>5, <2>6, <2>7, <2>8, <2>9 DEF Cost
<1> QED
  BY <1>1, RateInvariant, PTL

\* A source whose requests come one at a time is refused only if letting the
\* request in would break the rate, with what late cancellations have cost.
THEOREM RefusalsHaveAReason == Spec => []RefusedForAReason
<1>1. RateInv => RefusedForAReason
  <2> SUFFICES ASSUME RateInv, NEW r \in Requests, pc[r] = "decide",
                      Key(r) \notin blurred, due[r] > now
               PROVE  \E s \in 0..now :
                        (SpentIn(Key(r), s, now) + 1) * Interval > Full + (now - s)
    BY DEF RefusedForAReason
  <2>1. PICK k \in Keys : k = Key(r)
    BY KeyTyped DEF RateInv
  <2>2. /\ TypeOK /\ KeyInv(k) /\ buckets[k].used /\ buckets[k] \in AnyBucket
        /\ now \in Nat /\ now <= MaxTime /\ MaxTime \in Nat /\ due[r] \in Nat
        /\ buckets[k].last <= now /\ r \in Holding(k)
    BY <2>1, DueTyped, BucketTyped DEF RateInv, Present, KeyInv, Clocked, Holding, Holds
  <2>3. /\ \A q \in Holding(k) : q = r
        /\ due[r] = buckets[k].event /\ Tight(k)
    BY <2>1, <2>2 DEF KeyInv, Alone, Waits
  <2>4. Zero(buckets[k]) >= due[r] /\ Zero(buckets[k]) \in Int
    <3>1. Live(k)[due[r]] > 0
      BY <2>2, HolderCounts
    <3> QED
      BY <2>2, <3>1, LiveTyped, FutureIsDebt DEF KeyInv, UsedInv, Zero, AnyBucket
  <2>5. PICK s \in Nat : /\ s <= buckets[k].last
                         /\ Cost(Live(k)[s]) >= Full + Zero(buckets[k]) - s
    BY <2>3 DEF Tight
  <2>6. s <= now /\ s <= due[r] /\ s \in 0..now
    BY <2>2, <2>5 DEF AnyBucket
  <2>7. Booked(k, s) = {r}
    BY <2>2, <2>3, <2>6 DEF Booked, Holding
  <2>8. Cardinality(Booked(k, s)) = 1
    BY <2>7, FS_Singleton, Zenon
  <2> DEFINE m == spent[k][s]
             later == now + 1
  <2>9. m \in Nat /\ Live(k)[s] = m + 1
    BY <2>2, <2>6, <2>8, LiveTyped DEF Passed
  <2>10. spent[k][later] = 0
    <3>1. later \in Nat /\ later > now /\ later <= MaxTime + 1
      BY <2>2
    <3> QED
      BY <3>1, <2>2 DEF KeyInv, NotYet, Passed
  <2>11. SpentIn(k, s, now) + 1 = m + 1
    BY <2>9, <2>10 DEF SpentIn
  <2>12. (m + 1) * Interval >= Full + Zero(buckets[k]) - s /\ (m + 1) * Interval \in Nat
    <3>1. Cost(m + 1) >= Full + Zero(buckets[k]) - s /\ m + 1 \in Nat
      BY <2>5, <2>9
    <3>2. Cost(m + 1) \in Nat
      BY <3>1, CostFacts
    <3> HIDE DEF m
    <3> QED
      BY <3>1, <3>2 DEF Cost
  <2> HIDE DEF m
  <2>13. (m + 1) * Interval > Full + (now - s)
    BY <2>12, <2>2, <2>4, CostFacts
  <2> QED
    BY <2>1, <2>6, <2>11, <2>13
<1> QED
  BY <1>1, RateInvariant, PTL

\* A refused client that comes back when it was told to finds a token, or what one
\* second brings if its cancellation came too late.
THEOREM ComingBackSucceeds == Spec => []RetryAfterIsEnough
<1>1. RateInv => RetryAfterIsEnough
  <2> SUFFICES ASSUME RateInv, NEW k \in Keys, buckets[k].used, told[k].at # -1,
                      now >= told[k].at
               PROVE  Level(buckets[k]) >= Enough(told[k].late)
    BY DEF RetryAfterIsEnough, Enough
  <2>1. /\ buckets[k] \in AnyBucket /\ buckets[k].level <= Full /\ buckets[k].last <= now
        /\ now \in Nat /\ told[k].at \in Nat
        /\ told[k].at >= Zero(buckets[k]) + Enough(told[k].late)
    BY DueTyped, BucketTyped DEF RateInv, KeyInv, Clocked, ToldInv, TypeOK
  <2>2. Zero(buckets[k]) \in Int
    BY <2>1 DEF Zero, AnyBucket
  <2>3. Level(buckets[k]) = now - Zero(buckets[k]) \/ Level(buckets[k]) = Full
    BY <2>1, LevelNow
  <2>4. Enough(told[k].late) \in Nat /\ Enough(told[k].late) <= Interval
    BY RateLimiterAssumption DEF Enough
  <2> QED
    BY <2>1, <2>2, <2>3, <2>4, CostFacts
<1> QED
  BY <1>1, RateInvariant, PTL

\* A collector that waits until a bucket must be full again forgets no bucket that
\* still owes: then the rate holds over any span of time.
PatientCollector == IdleTTL + 1 >= Full + MaxPause
NothingForgotten == \A k \in Keys : Idle(buckets[k]) => ~Owes(k)

THEOREM PatientForgetsNothing == Spec => [](PatientCollector => NothingForgotten)
<1>1. RateInv => (PatientCollector => NothingForgotten)
  <2> SUFFICES ASSUME RateInv, PatientCollector, NEW k \in Keys, Idle(buckets[k]),
                      NEW s \in 0..now
               PROVE  spent[k][s] * Interval <= now - s
    <3>1. ASSUME RateInv, NEW k \in Keys, NEW s \in 0..now,
                 spent[k][s] * Interval <= now - s
          PROVE  ~(spent[k][s] * Interval > now - s)
      <4>1. spent[k][s] \in Nat /\ now \in Nat /\ s \in Nat /\ Interval \in Nat
        <5>1. s \in 0..(MaxTime + 1) /\ now \in Nat /\ s \in Nat
          BY <3>1, DueTyped DEF RateInv
        <5> QED
          BY <5>1, <3>1, CostFacts DEF RateInv, TypeOK
      <4>2. spent[k][s] * Interval \in Nat
        BY <4>1
      <4> QED
        BY <3>1, <4>1, <4>2
    <3> QED
      BY <3>1 DEF NothingForgotten, Owes
  <2> DEFINE b == buckets[k]
             t == b.hit + MaxPause
  <2>1. /\ TypeOK /\ KeyInv(k) /\ now \in Nat /\ now <= MaxTime /\ MaxTime \in Nat
        /\ MaxPause \in Nat /\ b \in AnyBucket /\ b.hit \in Nat /\ s \in Nat /\ s <= now
        /\ IdleTTL \in Nat /\ Full \in Nat /\ Cost(0) = 0
    BY BucketTyped, DueTyped, CostFacts, RateLimiterAssumption DEF RateInv, AnyBucket
  <2>2. /\ Live(k)[s] = spent[k][s] /\ Cost(Live(k)[s]) = spent[k][s] * Interval
        /\ Cost(Live(k)[s]) \in Nat
    <3>1. Passed(k, s) = spent[k][s]
      BY <2>1 DEF Passed
    <3> QED
      BY <3>1, <2>1, IdleIsEmpty DEF Cost
  <2>3. now > b.hit + IdleTTL
    BY <2>1 DEF Idle
  <2>4. CASE ~b.used
    BY <2>1, <2>2, <2>4 DEF KeyInv, FreshInv
  <2>5. CASE b.used
    <3>1. t \in Nat /\ t + 1 \in Nat /\ t + Full <= now /\ t <= now /\ t + 1 > t
      BY <2>1, <2>3 DEF PatientCollector
    <3>2. \A u \in Nat : u > t => Live(k)[u] = 0
      BY <2>5, <2>1, IdleIsEmpty DEF KeyInv, UsedInv
    <3>3. CASE s <= t
      <4>1. Cost(Live(k)[s]) <= Cost(Live(k)[t + 1]) + Full + (t - s)
        BY <3>3, <3>1, <2>1 DEF KeyInv, Spans
      <4>2. Cost(Live(k)[t + 1]) = 0
        BY <3>1, <3>2, <2>1
      <4> HIDE DEF t
      <4> QED
        BY <4>1, <4>2, <3>1, <2>1, <2>2
    <3>4. CASE s > t
      BY <3>2, <3>4, <2>1, <2>2
    <3> QED
      BY <3>3, <3>4, <3>1, <2>1
  <2> QED
    BY <2>4, <2>5
<1> QED
  BY <1>1, RateInvariant, PTL

===============================================================================
