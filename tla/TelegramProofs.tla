----------------------------- MODULE TelegramProofs -----------------------------
(***************************************************************************)
(* TelegramPublisher never repeats a message within a call, returns the    *)
(* link of the right one, sends the first usable pictures of a post, and   *)
(* implements Publication, for every number of calls and retries, every    *)
(* timeout and every post.                                                 *)
(***************************************************************************)
EXTENDS TelegramPublisher, Integers, WellFoundedInduction, TLAPS

-------------------------------------------------------------------------------
(* The invariants.                                                         *)

\* A request that Telegram may accept, or has not provably refused to count.
Live(m) == status[m] \notin {"unsent", "limited"}

\* What was sent was sent by the attempts up to the current one.
SentSoFar(m) ==
  LET c == m.call IN
  status[m] # "unsent" =>
    \/ m.part = "primary" /\ part[c] = "followup"
    \/ /\ m.part = part[c] /\ m.attempt <= attempt[c]
       /\ m.attempt = attempt[c] => pc[c] \notin {"idle", "request"}

\* The current request and the one the link points to are the only ones that
\* may be in the channel: all others were answered with 429 or never sent.
OnlyLive(m) == Live(m) => m = Current(m.call) \/ m = link[m.call]

LinkSet(c) ==
  /\ link[c] # NoMessage =>
       /\ link[c].call = c /\ link[c].part = "primary"
       /\ status[link[c]] = "accepted"
       /\ part[c] = "primary" => pc[c] = "ok" /\ link[c] = Current(c)
  /\ part[c] = "followup" => link[c] # NoMessage /\ HasFollowUp(c)
  /\ pc[c] = "ok" =>
       /\ link[c] # NoMessage
       /\ part[c] = "primary" => ~HasFollowUp(c)
       /\ part[c] = "followup" => status[Current(c)] = "accepted"

Placed(c) ==
  /\ pc[c] = "idle" => part[c] = "primary" /\ attempt[c] = 0
  /\ pc[c] = "pause" => status[Current(c)] = "limited" /\ attempt[c] < MaxRetries

SendInv ==
  /\ TypeOK
  /\ \A m \in Message : SentSoFar(m) /\ OnlyLive(m)
  /\ \A c \in Calls : LinkSet(c) /\ Placed(c)

\* The time a call may still take: for its current message, and for a second.
Rounds(n) == n * (Timeout + MaxRetryAfter)

MessageRest(c) ==
  CASE pc[c] = "idle"    -> PerMessage
    [] pc[c] = "request" -> Rounds(MaxRetries - attempt[c]) + Timeout
    [] pc[c] = "waiting" -> Rounds(MaxRetries - attempt[c]) + left[c]
    [] pc[c] = "pause"   -> Rounds(MaxRetries - attempt[c] - 1) + Timeout + left[c]
    [] OTHER             -> 0

SecondRest(c) ==
  IF part[c] = "primary" /\ pc[c] \in Running \cup {"idle"} THEN PerMessage ELSE 0

TimeInv == \A c \in Calls : spent[c] + MessageRest(c) + SecondRest(c) <= LongestCall

-------------------------------------------------------------------------------
(* Types.                                                                  *)

LEMMA CurrentTyped ==
  ASSUME TypeOK, NEW c \in Calls
  PROVE  /\ Current(c) \in Message
         /\ Current(c).call = c /\ Current(c).part = part[c]
         /\ Current(c).attempt = attempt[c]
  BY DEF TypeOK, Current, Message

LEMMA TypeInit == Init => TypeOK
  BY PublisherAssumption DEF Init, TypeOK, Running, Statuses, Parts, Tries

LEMMA StepTyped ==
  ASSUME TypeOK, NEW c \in Calls, Placed(c), Step(c)
  PROVE  TypeOK'
<1> USE PublisherAssumption DEF TypeOK, Running, Statuses, Parts, Tries, Goto
<1>1. CASE Begin(c)
  BY <1>1 DEF Begin
<1>2. CASE Send(c)
  BY <1>2, CurrentTyped DEF Send
<1>3. CASE PrimaryOut(c)
  BY <1>3, CurrentTyped DEF PrimaryOut
<1>4. CASE FollowUpOut(c)
  BY <1>4 DEF FollowUpOut
<1>5. CASE NotSent(c) \/ RequestFails(c) \/ TimeOut(c) \/ PauseCancelled(c)
  BY <1>5 DEF NotSent, RequestFails, TimeOut, PauseCancelled, GiveUp
<1>6. CASE Pause(c)
  BY <1>6 DEF Pause
<1>7. CASE WakeUp(c)
  BY <1>7 DEF WakeUp, Placed
<1>8. CASE Cancel(c)
  BY <1>8 DEF Cancel, clientVars
<1> QED
  BY <1>1, <1>2, <1>3, <1>4, <1>5, <1>6, <1>7, <1>8 DEF Step

LEMMA TelegramTyped ==
  ASSUME TypeOK, NEW m \in Message, Telegram(m)
  PROVE  TypeOK'
  BY DEF Telegram, TypeOK, Statuses, clientVars

LEMMA TickTyped ==
  ASSUME TypeOK, Tick
  PROVE  TypeOK'
<1>1. left' \in [Calls -> Nat] /\ spent' \in [Calls -> Nat]
  BY DEF Tick, TypeOK, Waits
<1> QED
  BY <1>1 DEF Tick, TypeOK

-------------------------------------------------------------------------------
(* What is sent and linked.                                                *)

LEMMA SendInit == Init => SendInv
<1> SUFFICES ASSUME Init PROVE SendInv
  OBVIOUS
<1>1. TypeOK
  BY TypeInit
<1>2. ASSUME NEW m \in Message PROVE SentSoFar(m) /\ OnlyLive(m)
  BY DEF Init, SentSoFar, OnlyLive, Live
<1>3. ASSUME NEW c \in Calls PROVE LinkSet(c) /\ Placed(c)
  BY DEF Init, LinkSet, Placed
<1> QED
  BY <1>1, <1>2, <1>3 DEF SendInv

\* A step of call c leaves the requests and the state of the others alone.
LEMMA StepIsLocal ==
  ASSUME TypeOK, NEW c \in Calls, Step(c)
  PROVE  /\ post' = post
         /\ \A d \in Calls \ {c} :
              /\ pc'[d] = pc[d] /\ part'[d] = part[d] /\ attempt'[d] = attempt[d]
              /\ left'[d] = left[d] /\ link'[d] = link[d]
         /\ \A m \in Message : status'[m] # status[m] =>
              m = Current(c) /\ Send(c)
         /\ spent' = spent
<1> USE DEF TypeOK, Goto
<1>1. CASE Begin(c)
  BY <1>1 DEF Begin
<1>2. CASE Send(c)
  BY <1>2 DEF Send
<1>3. CASE PrimaryOut(c)
  BY <1>3 DEF PrimaryOut
<1>4. CASE FollowUpOut(c)
  BY <1>4 DEF FollowUpOut
<1>5. CASE NotSent(c) \/ RequestFails(c) \/ TimeOut(c) \/ PauseCancelled(c)
  BY <1>5 DEF NotSent, RequestFails, TimeOut, PauseCancelled, GiveUp
<1>6. CASE Pause(c)
  BY <1>6 DEF Pause
<1>7. CASE WakeUp(c)
  BY <1>7 DEF WakeUp
<1>8. CASE Cancel(c)
  BY <1>8 DEF Cancel, clientVars
<1> QED
  BY <1>1, <1>2, <1>3, <1>4, <1>5, <1>6, <1>7, <1>8 DEF Step

LEMMA OtherCallsKeep ==
  ASSUME SendInv, NEW c \in Calls, Step(c), NEW d \in Calls \ {c}
  PROVE  /\ LinkSet(d)' /\ Placed(d)'
         /\ \A m \in Message : m.call = d => SentSoFar(m)' /\ OnlyLive(m)'
<1>1. /\ pc'[d] = pc[d] /\ part'[d] = part[d] /\ attempt'[d] = attempt[d]
      /\ link'[d] = link[d] /\ post' = post
  BY StepIsLocal DEF SendInv
<1>2. \A m \in Message : m.call = d => status'[m] = status[m]
  BY StepIsLocal, CurrentTyped DEF SendInv
<1>3. Current(d)' = Current(d) /\ HasFollowUp(d)' = HasFollowUp(d)
  BY <1>1 DEF Current, HasFollowUp, HasPhotos
<1>4. /\ Current(d) \in Message /\ Current(d).call = d
      /\ link[d] \in Message \cup {NoMessage}
  BY CurrentTyped DEF SendInv, TypeOK
<1>5. LinkSet(d)' /\ Placed(d)'
  BY <1>1, <1>2, <1>3, <1>4 DEF SendInv, LinkSet, Placed
<1>6. ASSUME NEW m \in Message, m.call = d PROVE SentSoFar(m)' /\ OnlyLive(m)'
  BY <1>1, <1>2, <1>3, <1>6 DEF SendInv, SentSoFar, OnlyLive, Live
<1> QED
  BY <1>5, <1>6

\* The call that takes the step.
LEMMA OwnCallKeeps ==
  ASSUME SendInv, NEW c \in Calls, Step(c)
  PROVE  /\ LinkSet(c)' /\ Placed(c)'
         /\ \A m \in Message : m.call = c => SentSoFar(m)' /\ OnlyLive(m)'
<1>a. /\ TypeOK /\ LinkSet(c) /\ Placed(c)
      /\ \A m \in Message : SentSoFar(m) /\ OnlyLive(m)
      /\ Current(c) \in Message /\ Current(c).call = c
      /\ Current(c).part = part[c] /\ Current(c).attempt = attempt[c]
  BY CurrentTyped DEF SendInv
<1>b. HasFollowUp(c)' = HasFollowUp(c)
  BY <1>a, StepIsLocal DEF HasFollowUp, HasPhotos
<1> USE DEF TypeOK, Goto
<1>1. CASE Begin(c) \/ NotSent(c) \/ RequestFails(c) \/ TimeOut(c) \/ PauseCancelled(c)
           \/ Cancel(c)
  <2>1. /\ UNCHANGED <<part, attempt, link, status>>
        /\ \/ pc'[c] = pc[c]
           \/ pc[c] = "idle" /\ pc'[c] = "request"
           \/ pc[c] # "ok" /\ pc'[c] = "error"
    <3>1. CASE Begin(c)
      BY <1>a, <3>1 DEF Begin
    <3>2. CASE Cancel(c)
      BY <1>a, <3>2 DEF Cancel, clientVars
    <3>3. CASE NotSent(c) \/ RequestFails(c) \/ TimeOut(c) \/ PauseCancelled(c)
      BY <1>a, <3>3 DEF NotSent, RequestFails, TimeOut, PauseCancelled, GiveUp
    <3> QED
      BY <1>1, <3>1, <3>2, <3>3
  <2>2. Current(c)' = Current(c)
    BY <2>1 DEF Current
  <2>3. LinkSet(c)' /\ Placed(c)'
    BY <1>a, <1>b, <2>1, <2>2 DEF LinkSet, Placed
  <2>4. ASSUME NEW m \in Message, m.call = c PROVE SentSoFar(m)' /\ OnlyLive(m)'
    BY <1>a, <2>1, <2>2, <2>4 DEF SentSoFar, OnlyLive, Live
  <2> QED
    BY <2>3, <2>4
<1>2. CASE Send(c)
  <2>1. /\ UNCHANGED <<part, attempt, link>> /\ Current(c)' = Current(c)
        /\ pc[c] = "request" /\ pc'[c] = "waiting"
        /\ \A m \in Message \ {Current(c)} : status'[m] = status[m]
        /\ status'[Current(c)] = "flying"
    BY <1>2, <1>a DEF Send, Current
  <2>2. link[c] # NoMessage => link[c] \in Message /\ link[c] # Current(c)
    BY <1>a, <2>1 DEF LinkSet, Parts
  <2>3. LinkSet(c)' /\ Placed(c)'
    BY <1>a, <1>b, <2>1, <2>2 DEF LinkSet, Placed
  <2>4. ASSUME NEW m \in Message, m.call = c PROVE SentSoFar(m)' /\ OnlyLive(m)'
    <3>1. CASE m = Current(c)
      <4>1. attempt[c] <= attempt[c]
        BY <1>a, PublisherAssumption DEF Tries
      <4> QED
        BY <1>a, <2>1, <2>4, <3>1, <4>1 DEF SentSoFar, OnlyLive
    <3>2. CASE m # Current(c)
      BY <1>a, <2>1, <2>4, <3>2 DEF SentSoFar, OnlyLive, Live
    <3> QED
      BY <3>1, <3>2
  <2> QED
    BY <2>3, <2>4
<1>3. CASE PrimaryOut(c)
  <2>1. /\ UNCHANGED status /\ link'[c] = Current(c)
        /\ pc[c] = "waiting" /\ part[c] = "primary" /\ link[c] = NoMessage
        /\ status[Current(c)] = "accepted"
    BY <1>3, <1>a DEF PrimaryOut, LinkSet
  <2>2. \/ /\ HasFollowUp(c) /\ pc'[c] = "request"
           /\ part'[c] = "followup" /\ attempt'[c] = 0
        \/ ~HasFollowUp(c) /\ pc'[c] = "ok" /\ UNCHANGED <<part, attempt>>
    BY <1>3, <1>a DEF PrimaryOut
  <2>3. NoMessage \notin Message
    BY PublisherAssumption
  <2>4. LinkSet(c)' /\ Placed(c)'
    <3>1. CASE HasFollowUp(c)
      BY <1>a, <1>b, <2>1, <2>2, <2>3, <3>1 DEF LinkSet, Placed
    <3>2. CASE ~HasFollowUp(c)
      <4>1. Current(c)' = Current(c)
        BY <2>2, <3>2 DEF Current
      <4> QED
        BY <1>a, <1>b, <2>1, <2>2, <2>3, <3>2, <4>1 DEF LinkSet, Placed
    <3> QED
      BY <3>1, <3>2
  <2>5. ASSUME NEW m \in Message, m.call = c PROVE SentSoFar(m)' /\ OnlyLive(m)'
    <3>1. SentSoFar(m) /\ OnlyLive(m) /\ m.part \in Parts /\ m.attempt \in Tries
      BY <1>a DEF Message
    <3>2. Live(m) => m = Current(c)
      BY <2>1, <2>3, <2>5, <3>1 DEF OnlyLive
    <3>3. OnlyLive(m)'
      BY <2>1, <2>5, <3>2 DEF OnlyLive, Live
    <3>4. SentSoFar(m)'
      BY <1>a, <2>1, <2>2, <2>5, <3>1 DEF SentSoFar
    <3> QED
      BY <3>3, <3>4
  <2> QED
    BY <2>4, <2>5
<1>4. CASE FollowUpOut(c)
  <2>1. /\ UNCHANGED <<part, attempt, link, status>> /\ Current(c)' = Current(c)
        /\ pc[c] = "waiting" /\ pc'[c] = "ok" /\ part[c] = "followup"
        /\ status[Current(c)] = "accepted"
    BY <1>4, <1>a DEF FollowUpOut, Current
  <2>2. LinkSet(c)' /\ Placed(c)'
    BY <1>a, <1>b, <2>1 DEF LinkSet, Placed
  <2>3. ASSUME NEW m \in Message, m.call = c PROVE SentSoFar(m)' /\ OnlyLive(m)'
    BY <1>a, <2>1, <2>3 DEF SentSoFar, OnlyLive, Live
  <2> QED
    BY <2>2, <2>3
<1>5. CASE Pause(c)
  <2>1. /\ UNCHANGED <<part, attempt, link, status>> /\ Current(c)' = Current(c)
        /\ pc[c] = "waiting" /\ pc'[c] = "pause"
        /\ status[Current(c)] = "limited" /\ attempt[c] < MaxRetries
    BY <1>5, <1>a DEF Pause, MayRetry, Current
  <2>2. LinkSet(c)' /\ Placed(c)'
    BY <1>a, <1>b, <2>1 DEF LinkSet, Placed
  <2>3. ASSUME NEW m \in Message, m.call = c PROVE SentSoFar(m)' /\ OnlyLive(m)'
    BY <1>a, <2>1, <2>3 DEF SentSoFar, OnlyLive, Live
  <2> QED
    BY <2>2, <2>3
<1>6. CASE WakeUp(c)
  <2>1. /\ UNCHANGED <<part, link, status>>
        /\ pc[c] = "pause" /\ pc'[c] = "request" /\ attempt'[c] = attempt[c] + 1
        /\ status[Current(c)] = "limited"
    BY <1>6, <1>a DEF WakeUp, Placed
  <2>2. LinkSet(c)' /\ Placed(c)'
    BY <1>a, <1>b, <2>1 DEF LinkSet, Placed
  <2>3. ASSUME NEW m \in Message, m.call = c PROVE SentSoFar(m)' /\ OnlyLive(m)'
    <3>1. SentSoFar(m) /\ OnlyLive(m) /\ m.attempt \in Tries /\ attempt[c] \in Tries
      BY <1>a DEF Message
    <3>2. OnlyLive(m)'
      BY <2>1, <2>3, <3>1 DEF OnlyLive, Live
    <3>3. SentSoFar(m)'
      BY <2>1, <2>3, <3>1, PublisherAssumption DEF SentSoFar, Tries
    <3> QED
      BY <3>2, <3>3
  <2> QED
    BY <2>2, <2>3
<1> QED
  BY <1>1, <1>2, <1>3, <1>4, <1>5, <1>6 DEF Step

LEMMA TelegramKeeps ==
  ASSUME SendInv, NEW n \in Message, Telegram(n)
  PROVE  SendInv'
<1>1. /\ UNCHANGED <<pc, post, part, attempt, link>>
      /\ status[n] = "flying"
      /\ status'[n] \in {"accepted", "limited", "refused"}
      /\ \A m \in Message \ {n} : status'[m] = status[m]
  BY DEF Telegram, SendInv, TypeOK, clientVars
<1>2. \A c \in Calls : Current(c)' = Current(c) /\ HasFollowUp(c)' = HasFollowUp(c)
  BY <1>1 DEF Current, HasFollowUp, HasPhotos
<1>3. ASSUME NEW m \in Message PROVE SentSoFar(m)' /\ OnlyLive(m)'
  <2>1. SentSoFar(m) /\ OnlyLive(m) /\ m.call \in Calls
    BY DEF SendInv, Message
  <2> QED
    BY <1>1, <1>2, <2>1 DEF SentSoFar, OnlyLive, Live
<1>4. ASSUME NEW c \in Calls PROVE LinkSet(c)' /\ Placed(c)'
  <2>1. LinkSet(c) /\ Placed(c) /\ Current(c) \in Message
        /\ link[c] \in Message \cup {NoMessage}
    BY CurrentTyped DEF SendInv, TypeOK
  <2> QED
    BY <1>1, <1>2, <2>1 DEF LinkSet, Placed
<1> QED
  BY <1>3, <1>4, TelegramTyped DEF SendInv

LEMMA TickKeeps ==
  ASSUME SendInv, UNCHANGED <<pc, post, part, attempt, cancelled, link, status>>, TypeOK'
  PROVE  SendInv'
<1>1. \A c \in Calls : Current(c)' = Current(c) /\ HasFollowUp(c)' = HasFollowUp(c)
  BY DEF Current, HasFollowUp, HasPhotos
<1>2. ASSUME NEW m \in Message PROVE SentSoFar(m)' /\ OnlyLive(m)'
  <2>1. SentSoFar(m) /\ OnlyLive(m) /\ m.call \in Calls
    BY DEF SendInv, Message
  <2> QED
    BY <1>1, <2>1 DEF SentSoFar, OnlyLive, Live
<1>3. ASSUME NEW c \in Calls PROVE LinkSet(c)' /\ Placed(c)'
  BY <1>1 DEF SendInv, LinkSet, Placed
<1> QED
  BY <1>2, <1>3 DEF SendInv

LEMMA SendStep == SendInv /\ [Next]_vars => SendInv'
<1> SUFFICES ASSUME SendInv, [Next]_vars PROVE SendInv'
  OBVIOUS
<1>1. ASSUME NEW c \in Calls, Step(c) PROVE SendInv'
  <2>1. TypeOK'
    BY <1>1, StepTyped DEF SendInv
  <2>2. ASSUME NEW d \in Calls
        PROVE  /\ LinkSet(d)' /\ Placed(d)'
               /\ \A m \in Message : m.call = d => SentSoFar(m)' /\ OnlyLive(m)'
    BY <1>1, OtherCallsKeep, OwnCallKeeps
  <2>3. \A m \in Message : m.call \in Calls
    BY DEF Message
  <2> QED
    BY <2>1, <2>2, <2>3 DEF SendInv
<1>2. ASSUME NEW m \in Message, Telegram(m) PROVE SendInv'
  BY <1>2, TelegramKeeps
<1>3. CASE Tick
  BY <1>3, TickKeeps, TickTyped DEF Tick, SendInv
<1>4. CASE UNCHANGED vars
  BY <1>4, TickKeeps DEF vars, SendInv, TypeOK
<1> QED
  BY <1>1, <1>2, <1>3, <1>4 DEF Next

LEMMA SendHolds == Spec => []SendInv
  BY SendInit, SendStep, PTL DEF Spec

\* The variables have their types; no attempt exceeds the limit.
THEOREM PublisherTyped == Spec => []TypeOK
<1>1. SendInv => TypeOK
  BY DEF SendInv
<1> QED
  BY <1>1, SendHolds, PTL

\* What the invariant says of the messages of one call that are in the channel.
LEMMA WhatIsAccepted ==
  ASSUME SendInv, NEW c \in Calls, NEW p \in Parts, NEW n \in Accepted(c, p)
  PROVE  LET m == [call |-> c, part |-> p, attempt |-> n] IN
         /\ m \in Message /\ status[m] = "accepted"
         /\ p = part[c] => m = Current(c)
         /\ p # part[c] => p = "primary" /\ part[c] = "followup" /\ m = link[c]
<1> DEFINE m == [call |-> c, part |-> p, attempt |-> n]
<1>1. /\ m \in Message /\ m.call = c /\ m.part = p /\ m.attempt = n
      /\ status[m] = "accepted"
  BY DEF Accepted, Message
<1>2. /\ SentSoFar(m) /\ OnlyLive(m) /\ LinkSet(c) /\ TypeOK
      /\ Current(c).part = part[c] /\ part[c] \in Parts
  BY <1>1, CurrentTyped DEF SendInv, TypeOK
<1>3. m = Current(c) \/ m = link[c]
  BY <1>1, <1>2 DEF OnlyLive, Live
<1>4. p # part[c] => p = "primary" /\ part[c] = "followup"
  BY <1>1, <1>2 DEF SentSoFar
<1>5. p # part[c] => m = link[c]
  BY <1>1, <1>2, <1>3
<1>6. p = part[c] => m = Current(c)
  <2> SUFFICES ASSUME p = part[c], m = link[c] PROVE m = Current(c)
    BY <1>3
  <2>1. link[c] # NoMessage
    BY <1>1, PublisherAssumption
  <2>2. part[c] = "primary"
    BY <1>1, <1>2, <2>1 DEF LinkSet
  <2> QED
    BY <1>2, <2>1, <2>2 DEF LinkSet
<1> QED
  BY <1>1, <1>4, <1>5, <1>6

\* Telegram accepts a message at most once per call (OncePerCall).
THEOREM SendsOncePerCall == Spec => []OncePerCall
<1>1. SendInv => OncePerCall
  <2> SUFFICES ASSUME SendInv, NEW c \in Calls, NEW p \in Parts,
                      NEW n \in Accepted(c, p), NEW k \in Accepted(c, p)
               PROVE  n = k
    BY DEF OncePerCall
  <2> DEFINE m(i) == [call |-> c, part |-> p, attempt |-> i]
  <2>1. m(n) = m(k)
    BY WhatIsAccepted
  <2>2. m(n).attempt = n /\ m(k).attempt = k
    OBVIOUS
  <2> QED
    BY <2>1, <2>2
<1> QED
  BY <1>1, SendHolds, PTL

\* The message a set link points to.
LEMMA LinkedAccepted ==
  ASSUME SendInv, NEW c \in Calls, link[c] # NoMessage
  PROVE  link[c].attempt \in Accepted(c, "primary")
<1>1. /\ link[c] \in Message /\ link[c].call = c /\ link[c].part = "primary"
      /\ status[link[c]] = "accepted"
  BY DEF SendInv, TypeOK, LinkSet
<1>2. link[c].attempt \in Tries
  BY <1>1 DEF Message
<1>3. link[c] = [call |-> c, part |-> "primary", attempt |-> link[c].attempt]
  BY <1>1 DEF Message
<1> QED
  BY <1>1, <1>2, <1>3 DEF Accepted

\* Links and follow-up messages belong to the primary message of their call
\* (LinkIsPrimary).
THEOREM LinksArePrimary == Spec => []LinkIsPrimary
<1>1. SendInv => LinkIsPrimary
  <2> SUFFICES ASSUME SendInv, NEW c \in Calls
               PROVE /\ Accepted(c, "followup") # {} => Accepted(c, "primary") # {}
                     /\ link[c] # NoMessage =>
                          /\ link[c].call = c /\ link[c].part = "primary"
                          /\ status[link[c]] = "accepted"
                     /\ pc[c] = "ok" => link[c] # NoMessage
    BY DEF LinkIsPrimary
  <2>1. LinkSet(c)
    BY DEF SendInv
  <2>2. ASSUME NEW n \in Accepted(c, "followup") PROVE Accepted(c, "primary") # {}
    <3>1. part[c] = "followup"
      BY WhatIsAccepted DEF Parts
    <3>2. link[c] # NoMessage
      BY <2>1, <3>1 DEF LinkSet
    <3> QED
      BY <3>2, LinkedAccepted
  <2> QED
    BY <2>1, <2>2 DEF LinkSet
<1> QED
  BY <1>1, SendHolds, PTL

-------------------------------------------------------------------------------
(* Time.                                                                   *)

LEMMA RoundsStep ==
  ASSUME NEW n \in Nat
  PROVE  /\ Rounds(n) \in Nat
         /\ Rounds(n + 1) = Rounds(n) + Timeout + MaxRetryAfter
  BY PublisherAssumption DEF Rounds

LEMMA TimeInit == Init => TimeInv
<1> SUFFICES ASSUME Init, NEW c \in Calls
             PROVE  spent[c] + MessageRest(c) + SecondRest(c) <= LongestCall
  BY DEF TimeInv
<1>1. pc[c] = "idle" /\ spent[c] = 0 /\ part[c] = "primary"
  BY DEF Init
<1>2. PerMessage \in Nat
  BY PublisherAssumption DEF PerMessage
<1> QED
  BY <1>1, <1>2 DEF MessageRest, SecondRest, LongestCall

LEMMA StepKeepsTime ==
  ASSUME SendInv, TimeInv, NEW c \in Calls, Step(c)
  PROVE  TimeInv'
<1>1. ASSUME NEW d \in Calls \ {c}
      PROVE  (spent[d] + MessageRest(d) + SecondRest(d) <= LongestCall)'
  <2>1. /\ pc'[d] = pc[d] /\ part'[d] = part[d] /\ attempt'[d] = attempt[d]
        /\ left'[d] = left[d] /\ spent' = spent
    BY StepIsLocal DEF SendInv
  <2> QED
    BY <2>1 DEF TimeInv, MessageRest, SecondRest, LongestCall, PerMessage
<1>2. (spent[c] + MessageRest(c) + SecondRest(c) <= LongestCall)'
  <2>a. /\ TypeOK /\ Placed(c) /\ LinkSet(c)
        /\ spent[c] + MessageRest(c) + SecondRest(c) <= LongestCall
    BY DEF SendInv, TimeInv
  <2>b. /\ attempt[c] \in Nat /\ MaxRetries - attempt[c] \in Nat
        /\ left[c] \in Nat /\ spent[c] \in Nat /\ spent' = spent
        /\ PerMessage \in Nat /\ LongestCall \in Nat
        /\ PerMessage = Rounds(MaxRetries) + Timeout
        /\ MaxRetries \in Nat /\ Timeout \in Nat /\ MaxRetryAfter \in Nat
    BY <2>a, StepIsLocal, PublisherAssumption
       DEF TypeOK, Tries, PerMessage, LongestCall, Rounds
  <2>c. Rounds(MaxRetries) \in Nat /\ Rounds(MaxRetries - attempt[c]) \in Nat
    BY <2>b, RoundsStep
  <2> USE DEF TypeOK, Goto, MessageRest, SecondRest, Running
  <2>1. CASE Begin(c)
    <3>1. /\ pc[c] = "idle" /\ pc'[c] \in {"request", "error"}
          /\ UNCHANGED <<part, attempt>> /\ part[c] = "primary" /\ attempt[c] = 0
      BY <2>1, <2>a DEF Begin, Placed
    <3> QED
      BY <2>a, <2>b, <2>c, <3>1
  <2>2. CASE Send(c)
    <3>1. /\ pc[c] = "request" /\ pc'[c] = "waiting" /\ left'[c] = Timeout
          /\ UNCHANGED <<part, attempt>>
      BY <2>2, <2>a DEF Send
    <3> QED
      BY <2>a, <2>b, <2>c, <3>1
  <2>3. CASE PrimaryOut(c)
    <3>1. pc[c] = "waiting" /\ part[c] = "primary"
      BY <2>3 DEF PrimaryOut
    <3>2. \/ pc'[c] = "ok"
          \/ pc'[c] = "request" /\ part'[c] = "followup" /\ attempt'[c] = 0
      BY <2>3, <2>a DEF PrimaryOut
    <3> QED
      BY <2>a, <2>b, <2>c, <3>1, <3>2
  <2>4. CASE FollowUpOut(c) \/ NotSent(c) \/ RequestFails(c) \/ TimeOut(c)
             \/ PauseCancelled(c)
    <3>1. pc'[c] \in {"ok", "error"} /\ pc[c] \in Running
      BY <2>4, <2>a
         DEF FollowUpOut, NotSent, RequestFails, TimeOut, PauseCancelled, GiveUp
    <3>2. MessageRest(c) >= 0 /\ SecondRest(c) >= 0
      <4>1. pc[c] = "pause" => Rounds(MaxRetries - attempt[c] - 1) \in Nat
        BY <2>a, <2>b, RoundsStep DEF Placed
      <4> QED
        BY <2>b, <2>c, <3>1, <4>1
    <3>3. MessageRest(c) \in Int /\ SecondRest(c) \in Int
      <4>1. pc[c] = "pause" => Rounds(MaxRetries - attempt[c] - 1) \in Nat
        BY <2>a, <2>b, RoundsStep DEF Placed
      <4> QED
        BY <2>b, <2>c, <3>1, <4>1
    <3>4. MessageRest(c)' = 0 /\ SecondRest(c)' = 0
      BY <3>1
    <3> HIDE DEF MessageRest, SecondRest
    <3> QED
      BY <2>a, <2>b, <3>2, <3>3, <3>4 DEF LongestCall, PerMessage
  <2>5. CASE Pause(c)
    <3>1. /\ pc[c] = "waiting" /\ pc'[c] = "pause" /\ UNCHANGED <<part, attempt>>
          /\ left'[c] \in 1..MaxRetryAfter /\ attempt[c] < MaxRetries
      BY <2>5, <2>a DEF Pause, MayRetry
    <3>2. /\ Rounds(MaxRetries - attempt[c] - 1) \in Nat
          /\ Rounds(MaxRetries - attempt[c])
               = Rounds(MaxRetries - attempt[c] - 1) + Timeout + MaxRetryAfter
      <4>1. MaxRetries - attempt[c] - 1 \in Nat
        BY <2>b, <3>1
      <4>2. (MaxRetries - attempt[c] - 1) + 1 = MaxRetries - attempt[c]
        BY <2>b
      <4> QED
        BY <4>1, <4>2, RoundsStep
    <3> QED
      BY <2>a, <2>b, <2>c, <3>1, <3>2
  <2>6. CASE WakeUp(c)
    <3>1. /\ pc[c] = "pause" /\ pc'[c] = "request" /\ left[c] = 0
          /\ UNCHANGED part /\ attempt'[c] = attempt[c] + 1 /\ attempt[c] < MaxRetries
      BY <2>6, <2>a DEF WakeUp, Placed
    <3>2. /\ MaxRetries - attempt'[c] = MaxRetries - attempt[c] - 1
          /\ Rounds(MaxRetries - attempt[c] - 1) \in Nat
      BY <2>b, <3>1, RoundsStep
    <3> QED
      BY <2>a, <2>b, <2>c, <3>1, <3>2
  <2>7. CASE Cancel(c)
    BY <2>7, <2>a, <2>b DEF Cancel, clientVars
  <2> QED
    BY <2>1, <2>2, <2>3, <2>4, <2>5, <2>6, <2>7 DEF Step
<1> QED
  BY <1>1, <1>2 DEF TimeInv

LEMMA TickKeepsTime ==
  ASSUME SendInv, TimeInv, Tick
  PROVE  TimeInv'
<1> SUFFICES ASSUME NEW c \in Calls
             PROVE  (spent[c] + MessageRest(c) + SecondRest(c) <= LongestCall)'
  BY DEF TimeInv
<1>1. /\ spent[c] + MessageRest(c) + SecondRest(c) <= LongestCall
      /\ left[c] \in Nat /\ spent[c] \in Nat /\ UNCHANGED <<pc, part, attempt>>
      /\ pc[c] # "request" /\ TypeOK /\ Placed(c)
  BY DEF TimeInv, SendInv, TypeOK, Tick
<1>2. SecondRest(c)' = SecondRest(c) /\ SecondRest(c) \in Int /\ PerMessage \in Int
  BY <1>1, PublisherAssumption DEF SecondRest, PerMessage
<1>3. CASE Waits(c)
  <2>1. left'[c] = left[c] - 1 /\ spent'[c] = spent[c] + 1
    BY <1>3 DEF Tick
  <2>2. /\ pc[c] = "waiting" => Rounds(MaxRetries - attempt[c]) \in Nat
        /\ pc[c] = "pause" => Rounds(MaxRetries - attempt[c] - 1) \in Nat
    BY <1>1, RoundsStep, PublisherAssumption DEF TypeOK, Tries, Placed
  <2>3. MessageRest(c)' = MessageRest(c) - 1 /\ MessageRest(c) \in Int
    BY <1>1, <1>3, <2>1, <2>2, PublisherAssumption DEF MessageRest, Waits, Rounds
  <2> QED
    BY <1>1, <1>2, <2>1, <2>3, PublisherAssumption DEF LongestCall
<1>4. CASE ~Waits(c)
  <2>1. spent'[c] = spent[c]
    BY <1>4 DEF Tick
  <2>2. MessageRest(c)' = MessageRest(c)
    BY <1>1, <1>4 DEF MessageRest, Waits
  <2> QED
    BY <1>1, <1>2, <2>1, <2>2 DEF LongestCall, PerMessage
<1> QED
  BY <1>3, <1>4

LEMMA TimeStep == SendInv /\ TimeInv /\ [Next]_vars => TimeInv'
<1> SUFFICES ASSUME SendInv, TimeInv, [Next]_vars PROVE TimeInv'
  OBVIOUS
<1>1. ASSUME UNCHANGED <<pc, part, attempt, left, spent>> PROVE TimeInv'
  BY <1>1 DEF TimeInv, MessageRest, SecondRest, LongestCall, PerMessage
<1>2. ASSUME NEW m \in Message, Telegram(m) PROVE TimeInv'
  BY <1>1, <1>2 DEF Telegram, clientVars
<1>3. CASE UNCHANGED vars
  BY <1>1, <1>3 DEF vars
<1> QED
  BY <1>2, <1>3, StepKeepsTime, TickKeepsTime DEF Next

LEMMA TimeHolds == Spec => []TimeInv
  BY TimeInit, TimeStep, SendHolds, PTL DEF Spec

\* While a call waits it has time left, so its bound is not reached.
LEMMA WaitingIsInTime ==
  ASSUME SendInv, TimeInv, NEW c \in Calls, Waits(c), left[c] > 0
  PROVE  spent[c] < LongestCall
<1>1. /\ spent[c] + MessageRest(c) + SecondRest(c) <= LongestCall
      /\ left[c] \in Nat /\ spent[c] \in Nat /\ TypeOK /\ Placed(c)
  BY DEF TimeInv, SendInv, TypeOK
<1>2. SecondRest(c) \in Nat /\ LongestCall \in Int
  BY PublisherAssumption DEF SecondRest, PerMessage, LongestCall
<1>3. /\ pc[c] = "waiting" => Rounds(MaxRetries - attempt[c]) \in Nat
      /\ pc[c] = "pause" => Rounds(MaxRetries - attempt[c] - 1) \in Nat
  BY <1>1, RoundsStep, PublisherAssumption DEF TypeOK, Tries, Placed
<1>4. MessageRest(c) \in Nat /\ MessageRest(c) >= left[c]
  BY <1>1, <1>3, PublisherAssumption DEF MessageRest, Waits
<1> QED
  BY <1>1, <1>2, <1>4

-------------------------------------------------------------------------------
(* The promise.                                                            *)

ResultMap   == [c \in Calls |-> Result(c)]
CompleteSet == {c \in Calls : Complete(c)}

\* Complete depends on the accepted messages only.
LEMMA CompleteStable ==
  ASSUME SendInv, UNCHANGED <<post, status>>
  PROVE  CompleteSet' = CompleteSet
  BY DEF CompleteSet, Complete, Accepted, HasFollowUp, HasPhotos

\* A step of one call that leaves Telegram alone answers it at most.
LEMMA CallAnswers ==
  ASSUME SendInv, NEW c \in Calls, Step(c), UNCHANGED status,
         NEW to, Result(c)' = to
  PROVE  Promise!Answer(c, Result(c), to)
<1>1. /\ UNCHANGED <<post, spent>>
      /\ \A d \in Calls \ {c} : pc'[d] = pc[d]
  BY StepIsLocal DEF SendInv
<1>2. \A d \in Calls \ {c} : Result(d)' = Result(d)
  BY <1>1 DEF Result
<1>3. ResultMap' = [ResultMap EXCEPT ![c] = to] /\ ResultMap[c] = Result(c)
  BY <1>2 DEF ResultMap
<1> QED
  BY <1>1, <1>3, CompleteStable DEF Promise!Answer, ResultMap, CompleteSet

LEMMA StepKeepsPromise ==
  ASSUME SendInv, NEW c \in Calls, Step(c)
  PROVE  Promise!Next \/ UNCHANGED Promise!vars
<1>a. /\ TypeOK /\ LinkSet(c) /\ Placed(c) /\ Current(c) \in Message
      /\ Current(c).call = c /\ Current(c).part = part[c]
      /\ Current(c).attempt = attempt[c]
  BY CurrentTyped DEF SendInv
<1>b. ASSUME Promise!Answer(c, Result(c), Result(c)') PROVE Result(c)' = Result(c) =>
        UNCHANGED Promise!vars
  <2>1. ASSUME Result(c)' = Result(c)
        PROVE  [ResultMap EXCEPT ![c] = Result(c)] = ResultMap
    BY DEF ResultMap
  <2> QED
    BY <1>b, <2>1 DEF Promise!Answer, Promise!vars, ResultMap, CompleteSet
<1> USE DEF TypeOK, Goto
<1>1. CASE Begin(c)
  <2>1. /\ UNCHANGED status /\ Result(c) = "none"
        /\ Result(c)' = "open" \/ Result(c)' = "error"
    BY <1>1, <1>a DEF Begin, Result, Running
  <2>2. Promise!Begin(c)
    BY <1>1, <2>1, CallAnswers DEF Step, Promise!Begin
  <2> QED
    BY <2>2 DEF Promise!Next
<1>2. CASE Send(c)
  <2>1. /\ Result(c)' = Result(c) /\ UNCHANGED <<post, spent>>
        /\ \A d \in Calls : Result(d)' = Result(d)
    BY <1>2, <1>a DEF Send, Result, Running
  <2>2. status[Current(c)] # "accepted" /\ status'[Current(c)] # "accepted"
    <3>1. SentSoFar(Current(c)) /\ pc[c] = "request"
      BY <1>2, <1>a DEF SendInv, Send
    <3>2. part[c] \in Parts
      BY <1>a
    <3>3. status[Current(c)] = "unsent"
      BY <1>a, <3>1, <3>2 DEF SentSoFar, Parts
    <3> QED
      BY <1>2, <1>a, <3>3 DEF Send
  <2>3. \A m \in Message : (status'[m] = "accepted") <=> (status[m] = "accepted")
    BY <1>2, <1>a, <2>2 DEF Send
  <2>4. \A d \in Calls, p \in Parts : Accepted(d, p)' = Accepted(d, p)
    BY <2>3 DEF Accepted, Message
  <2>5. CompleteSet' = CompleteSet
    BY <2>1, <2>4 DEF CompleteSet, Complete, HasFollowUp, HasPhotos, Parts
  <2> QED
    BY <2>1, <2>5 DEF Promise!vars, ResultMap, CompleteSet
<1>3. CASE PrimaryOut(c)
  <2>1. /\ UNCHANGED status /\ Result(c) = "open"
        /\ \/ Result(c)' = "open"
           \/ Result(c)' = "ok" /\ ~HasFollowUp(c)
    BY <1>3, <1>a DEF PrimaryOut, Result, Running
  <2>2. Accepted(c, "primary") # {}
    <3>1. /\ part[c] = "primary" /\ status[Current(c)] = "accepted"
          /\ attempt[c] \in Tries
      BY <1>3, <1>a DEF PrimaryOut
    <3> QED
      BY <3>1 DEF Accepted, Current
  <2>3. Promise!Answer(c, Result(c), Result(c)')
    BY <1>3, <2>1, CallAnswers DEF Step
  <2>4. CASE Result(c)' = "open"
    BY <1>b, <2>1, <2>3, <2>4
  <2>5. CASE Result(c)' = "ok" /\ ~HasFollowUp(c)
    <3>1. Promise!Succeed(c)
      BY <2>1, <2>2, <2>3, <2>5 DEF Promise!Succeed, Complete, CompleteSet
    <3> QED
      BY <3>1 DEF Promise!Next
  <2> QED
    BY <2>1, <2>4, <2>5
<1>4. CASE FollowUpOut(c)
  <2>1. /\ UNCHANGED status /\ Result(c) = "open" /\ Result(c)' = "ok"
        /\ part[c] = "followup" /\ status[Current(c)] = "accepted"
        /\ attempt[c] \in Tries
    BY <1>4, <1>a DEF FollowUpOut, Result, Running
  <2>2. Accepted(c, "followup") # {}
    BY <2>1 DEF Accepted, Current
  <2>3. Accepted(c, "primary") # {}
    BY <1>a, <2>1, LinkedAccepted DEF LinkSet
  <2>4. Promise!Answer(c, "open", "ok")
    BY <1>4, <2>1, CallAnswers DEF Step
  <2>5. Promise!Succeed(c)
    BY <2>2, <2>3, <2>4 DEF Promise!Succeed, Complete, CompleteSet
  <2> QED
    BY <2>5 DEF Promise!Next
<1>5. CASE NotSent(c) \/ RequestFails(c) \/ TimeOut(c) \/ PauseCancelled(c)
  <2>1. UNCHANGED status /\ Result(c) = "open" /\ Result(c)' = "error"
    BY <1>5, <1>a
       DEF NotSent, RequestFails, TimeOut, PauseCancelled, GiveUp, Result, Running
  <2>2. Promise!Fail(c)
    BY <1>5, <2>1, CallAnswers DEF Step, Promise!Fail
  <2> QED
    BY <2>2 DEF Promise!Next
<1>6. CASE Pause(c) \/ WakeUp(c) \/ Cancel(c)
  <2>1. UNCHANGED status /\ Result(c)' = Result(c)
    BY <1>6, <1>a DEF Pause, WakeUp, Cancel, clientVars, Result, Running
  <2> QED
    BY <1>6, <1>b, <2>1, CallAnswers DEF Step
<1> QED
  BY <1>1, <1>2, <1>3, <1>4, <1>5, <1>6 DEF Step

LEMMA TelegramKeepsPromise ==
  ASSUME SendInv, NEW n \in Message, Telegram(n)
  PROVE  Promise!Next \/ UNCHANGED Promise!vars
<1> DEFINE c == n.call
<1>1. /\ UNCHANGED <<pc, post, part, attempt, link, spent>>
      /\ status[n] = "flying"
      /\ \A m \in Message \ {n} : status'[m] = status[m]
  BY DEF Telegram, SendInv, TypeOK, clientVars
<1>2. c \in Calls /\ ResultMap' = ResultMap
  BY <1>1 DEF Message, ResultMap, Result
<1>3. \A d \in Calls \ {c}, p \in Parts : Accepted(d, p)' = Accepted(d, p)
  BY <1>1 DEF Accepted, Message
<1>4. \A d \in Calls \ {c} : Complete(d)' = Complete(d)
  BY <1>1, <1>3 DEF Complete, HasFollowUp, HasPhotos, Parts
<1>5. \A p \in Parts : Accepted(c, p) \subseteq Accepted(c, p)'
  BY <1>1, <1>2 DEF Accepted, Message
<1>6. Complete(c) => Complete(c)'
  BY <1>1, <1>5 DEF Complete, HasFollowUp, HasPhotos, Parts
<1>7. CASE Complete(c)' = Complete(c)
  <2>1. CompleteSet' = CompleteSet
    BY <1>2, <1>4, <1>7 DEF CompleteSet
  <2> QED
    BY <1>1, <1>2, <2>1 DEF Promise!vars, ResultMap, CompleteSet
<1>8. CASE ~Complete(c) /\ Complete(c)'
  <2>1. CompleteSet' = CompleteSet \cup {c}
    BY <1>2, <1>4, <1>8 DEF CompleteSet
  <2>2. Result(c) \in {"open", "error"}
    <3>1. /\ LinkSet(c) /\ Placed(c) /\ SentSoFar(n) /\ TypeOK
          /\ n.part \in Parts /\ n.attempt \in Tries
      BY <1>2 DEF SendInv, Message
    <3>2. pc[c] # "idle"
      BY <1>1, <3>1, PublisherAssumption DEF SentSoFar, Placed, Tries
    <3>3. pc[c] # "ok"
      <4> SUFFICES ASSUME pc[c] = "ok" PROVE FALSE
        OBVIOUS
      <4>1. Accepted(c, "primary") # {}
        BY <1>2, <3>1, LinkedAccepted DEF LinkSet
      <4>2. HasFollowUp(c) => part[c] = "followup"
        BY <1>2, <3>1 DEF LinkSet, TypeOK, Parts
      <4>3. part[c] = "followup" => Accepted(c, "followup") # {}
        BY <1>2, <3>1 DEF LinkSet, Accepted, Current, TypeOK
      <4> QED
        BY <1>8, <4>1, <4>2, <4>3 DEF Complete
    <3> QED
      BY <1>2, <3>1, <3>2, <3>3 DEF Result, TypeOK
  <2>3. Promise!Arrive(c)
    BY <1>1, <1>2, <2>1, <2>2 DEF Promise!Arrive, ResultMap, CompleteSet
  <2> QED
    BY <1>2, <2>3 DEF Promise!Next
<1> QED
  BY <1>6, <1>7, <1>8 DEF Complete

LEMMA TickKeepsPromise ==
  ASSUME SendInv, TimeInv, Tick
  PROVE  Promise!Tick
<1>1. UNCHANGED <<pc, post, status>>
  BY DEF Tick
<1>2. \A c \in Calls : (Result(c) = "open") <=> Waits(c)
  BY DEF Tick, Result, Running, Waits, SendInv, TypeOK
<1>3. ASSUME NEW c \in Calls, Result(c) = "open" PROVE spent[c] < LongestCall
  BY <1>2, <1>3, WaitingIsInTime DEF Tick
<1>4. spent' = [c \in Calls |-> IF Result(c) = "open" THEN spent[c] + 1 ELSE spent[c]]
  BY <1>2 DEF Tick
<1>5. ResultMap' = ResultMap /\ CompleteSet' = CompleteSet
  BY <1>1, CompleteStable DEF ResultMap, Result
<1>6. \A c \in Calls : ResultMap[c] = Result(c)
  BY DEF ResultMap
<1> QED
  BY <1>3, <1>4, <1>5, <1>6 DEF Promise!Tick, ResultMap, CompleteSet

\* The adapter implements Publication: success means that the whole post is in
\* the channel, and no call outlasts LongestCall (KeepsPromise).
THEOREM PublisherKeepsPromise == Spec => KeepsPromise
<1>1. Init => Promise!Init
  <2> SUFFICES ASSUME Init PROVE Promise!Init
    OBVIOUS
  <2>1. \A c \in Calls, p \in Parts : Accepted(c, p) = {}
    BY DEF Init, Accepted, Message
  <2>2. CompleteSet = {}
    BY <2>1 DEF CompleteSet, Complete, Parts
  <2>3. ResultMap = [c \in Calls |-> "none"]
    <3>1. \A c \in Calls : pc[c] = "idle"
      BY DEF Init
    <3>2. \A c \in Calls : Result(c) = "none"
      BY <3>1 DEF Result, Running
    <3> QED
      BY <3>2 DEF ResultMap
  <2>4. spent = [c \in Calls |-> 0]
    BY DEF Init
  <2> QED
    BY <2>2, <2>3, <2>4 DEF Promise!Init, ResultMap, CompleteSet
<1>2. SendInv /\ TimeInv /\ [Next]_vars => [Promise!Next]_(Promise!vars)
  <2> SUFFICES ASSUME SendInv, TimeInv, [Next]_vars
               PROVE  Promise!Next \/ UNCHANGED Promise!vars
    OBVIOUS
  <2>1. CASE UNCHANGED vars
    <3>1. ResultMap' = ResultMap /\ CompleteSet' = CompleteSet /\ spent' = spent
      BY <2>1, CompleteStable DEF vars, ResultMap, Result
    <3> QED
      BY <3>1 DEF Promise!vars, ResultMap, CompleteSet
  <2>2. CASE Tick
    BY <2>2, TickKeepsPromise DEF Promise!Next
  <2> QED
    BY <2>1, <2>2, StepKeepsPromise, TelegramKeepsPromise DEF Next
<1> QED
  BY <1>1, <1>2, SendHolds, TimeHolds, PTL DEF Spec, KeepsPromise, Promise!Spec

\* With the constants of the adapter a call takes at most 480 seconds, less
\* than the ten minutes after which the sweep takes a worker for dead.
LEMMA CallsEndBeforeTheSweep ==
  ASSUME Timeout = 60, MaxRetryAfter = 30, MaxRetries = 2
  PROVE  LongestCall = 480 /\ LongestCall < 600
  BY DEF LongestCall, PerMessage

-------------------------------------------------------------------------------
(* The pictures.  Each of the two loops of MediaSources is a fold over the *)
(* places of a sequence; what it makes of the prefixes follows by          *)
(* induction over their lengths.                                           *)

\* What holds of 0, and of each number up to n if of the one before, holds of all.
LEMMA PrefixInduction ==
  ASSUME NEW n \in Nat, NEW G, 0 \in G, \A k \in 1..n : k - 1 \in G => k \in G
  PROVE  \A k \in 0..n : k \in G
<1> DEFINE Bad == (0..n) \ G
           R   == OpToRel(<, Nat)
<1>1. IsWellFoundedOn(R, Nat) BY NatLessThanWellFounded, Zenon
<1>2. \A i, j \in Nat : i < j => <<i, j>> \in R BY DEF OpToRel
<1>3. Bad \subseteq Nat OBVIOUS
<1> HIDE DEF R
<1>4. SUFFICES ASSUME Bad # {} PROVE FALSE OBVIOUS
<1>5. PICK k \in Bad : \A i \in Bad : <<i, k>> \notin R
  <2> HIDE DEF Bad
  <2>1. \E x \in Bad : \A y \in Bad : ~(<<y, x>> \in R)
    BY <1>1, <1>3, <1>4, WFMin, Zenon
  <2> QED BY <2>1
<1>6. k \in 1..n /\ k - 1 \in 0..n /\ k - 1 \in Nat /\ k \in Nat /\ k - 1 < k OBVIOUS
<1>7. k - 1 \notin Bad BY <1>2, <1>5, <1>6
<1> QED BY <1>6, <1>7

\* One round of each of the two loops.
Round(loop, out, u) ==
  IF loop = "extract" THEN IF Contains(out, u) THEN out ELSE Append(out, u)
  ELSE IF Len(out) >= GroupMax \/ ResolveOne(u) = "none" THEN out ELSE Append(out, u)

\* g is what a loop makes of each set of places of urls, the last place last.
IsLoop(loop, urls, g, S) ==
  g = [s \in SUBSET S |->
         IF s = {} THEN <<>> ELSE Round(loop, g[s \ {Max(s)}], urls[Max(s)])]

\* The same of one of the loops, as its fold says it.
IsExtract(urls, g) ==
  g = [s \in SUBSET DOMAIN urls |->
         IF s = {} THEN <<>>
         ELSE IF Contains(g[s \ {Max(s)}], urls[Max(s)]) THEN g[s \ {Max(s)}]
              ELSE Append(g[s \ {Max(s)}], urls[Max(s)])]

IsResolve(urls, g) ==
  g = [s \in SUBSET DOMAIN urls |->
         IF s = {} THEN <<>>
         ELSE IF Len(g[s \ {Max(s)}]) >= GroupMax \/ ResolveOne(urls[Max(s)]) = "none"
              THEN g[s \ {Max(s)}]
              ELSE Append(g[s \ {Max(s)}], urls[Max(s)])]

LEMMA LoopsAreFolds ==
  ASSUME NEW urls
  PROVE  /\ ExtractImages(urls) = (CHOOSE g : IsExtract(urls, g))[DOMAIN urls]
         /\ ResolvePhotoSources(urls) = (CHOOSE g : IsResolve(urls, g))[DOMAIN urls]
<1>1. ExtractImages(urls) = (CHOOSE g : IsExtract(urls, g))[DOMAIN urls]
  BY DEF ExtractImages, FoldLeft, MapThenFoldSet, IsExtract
<1>2. ResolvePhotoSources(urls) = (CHOOSE g : IsResolve(urls, g))[DOMAIN urls]
  BY DEF ResolvePhotoSources, FoldLeft, MapThenFoldSet, IsResolve
<1> QED BY <1>1, <1>2

LEMMA LoopsAreLoops ==
  ASSUME NEW urls, NEW g
  PROVE  /\ IsLoop("extract", urls, g, DOMAIN urls) <=> IsExtract(urls, g)
         /\ IsLoop("resolve", urls, g, DOMAIN urls) <=> IsResolve(urls, g)
BY DEF IsLoop, IsExtract, IsResolve, Round

LEMMA LargestOf ==
  ASSUME NEW n \in Nat
  PROVE  \A s \in SUBSET (1..n) : n \in s => Max(s) = n
<1> TAKE s \in SUBSET (1..n)
<1> HAVE n \in s
<1> DEFINE m == Max(s)
<1>1. \A x \in s : x \in Int /\ x <= n OBVIOUS
<1>2. m \in s /\ \A y \in s : m >= y BY <1>1 DEF Max
<1> HIDE DEF m
<1>3. m = n BY <1>1, <1>2
<1> QED BY <1>3 DEF m

\* There is such a function: that of n places makes that of n + 1.
LEMMA LoopExists ==
  ASSUME NEW loop, NEW urls, NEW n \in Nat
  PROVE  \E g : IsLoop(loop, urls, g, 1..n)
<1> DEFINE G == {k \in 0..n : \E g : IsLoop(loop, urls, g, 1..k)}
<1>1. 0 \in G
  <2> DEFINE g == [s \in SUBSET (1..0) |-> <<>>]
  <2>1. SUBSET (1..0) = {{}} OBVIOUS
  <2>2. IsLoop(loop, urls, g, 1..0) BY <2>1 DEF IsLoop
  <2> QED BY <2>2
<1>2. ASSUME NEW k \in 1..n, k - 1 \in G PROVE k \in G
  <2>1. PICK h : IsLoop(loop, urls, h, 1..(k - 1)) BY <1>2
  <2> DEFINE g == [s \in SUBSET (1..k) |->
                     IF k \in s THEN Round(loop, h[s \ {k}], urls[k]) ELSE h[s]]
  <2>2. ASSUME NEW s \in SUBSET (1..k)
        PROVE  g[s] = IF s = {} THEN <<>> ELSE Round(loop, g[s \ {Max(s)}], urls[Max(s)])
    <3>1. CASE k \in s
      <4>1. Max(s) = k BY <3>1, LargestOf
      <4>2. s \ {k} \in SUBSET (1..k) /\ k \notin s \ {k} OBVIOUS
      <4>3. g[s \ {k}] = h[s \ {k}] BY <4>2
      <4>4. g[s] = Round(loop, h[s \ {k}], urls[k]) BY <3>1
      <4> HIDE DEF g
      <4> QED BY <3>1, <4>1, <4>3, <4>4
    <3>2. CASE k \notin s
      <4>1. s \in SUBSET (1..(k - 1)) BY <3>2
      <4>2. k \notin s \ {Max(s)} /\ s \ {Max(s)} \in SUBSET (1..k) BY <3>2
      <4>3. g[s] = h[s] /\ g[s \ {Max(s)}] = h[s \ {Max(s)}] BY <3>2, <4>2
      <4>4. h[s] = IF s = {} THEN <<>> ELSE Round(loop, h[s \ {Max(s)}], urls[Max(s)])
        BY <2>1, <4>1 DEF IsLoop
      <4> HIDE DEF g
      <4> QED BY <4>3, <4>4
    <3> QED BY <3>1, <3>2
  <2>3. g = [s \in SUBSET (1..k) |-> g[s]] OBVIOUS
  <2> HIDE DEF g
  <2>4. IsLoop(loop, urls, g, 1..k) BY <2>2, <2>3 DEF IsLoop
  <2> QED BY <2>4
<1>3. n \in 0..n OBVIOUS
<1> HIDE DEF G
<1>4. n \in G BY <1>1, <1>2, <1>3, PrefixInduction
<1> QED BY <1>4 DEF G

Loop(loop, urls) == IF loop = "extract" THEN ExtractImages(urls) ELSE ResolvePhotoSources(urls)

\* What a loop makes of the prefixes of urls, round by round.
LEMMA LoopInRounds ==
  ASSUME NEW loop \in {"extract", "resolve"}, NEW urls \in Seq(Images)
  PROVE  \E f : /\ f[0] = <<>>
                /\ \A k \in 1..Len(urls) : f[k] = Round(loop, f[k - 1], urls[k])
                /\ f[Len(urls)] = Loop(loop, urls)
<1> DEFINE n == Len(urls)
<1>1. n \in Nat /\ DOMAIN urls = 1..n OBVIOUS
<1>2. PICK g : IsLoop(loop, urls, g, 1..n) /\ Loop(loop, urls) = g[1..n]
  <2>1. \E g : IsLoop(loop, urls, g, DOMAIN urls) BY <1>1, LoopExists
  <2>2. CASE loop = "extract"
    <3> DEFINE g == CHOOSE h : IsExtract(urls, h)
    <3>1. IsExtract(urls, g) BY <2>1, <2>2, LoopsAreLoops
    <3>2. Loop(loop, urls) = g[DOMAIN urls] BY <2>2, LoopsAreFolds DEF Loop
    <3> HIDE DEF g
    <3>3. IsLoop(loop, urls, g, DOMAIN urls) BY <2>2, <3>1, LoopsAreLoops
    <3> QED BY <1>1, <3>2, <3>3
  <2>3. CASE loop = "resolve"
    <3> DEFINE g == CHOOSE h : IsResolve(urls, h)
    <3>1. IsResolve(urls, g) BY <2>1, <2>3, LoopsAreLoops
    <3>2. Loop(loop, urls) = g[DOMAIN urls] BY <2>3, LoopsAreFolds DEF Loop
    <3> HIDE DEF g
    <3>3. IsLoop(loop, urls, g, DOMAIN urls) BY <2>3, <3>1, LoopsAreLoops
    <3> QED BY <1>1, <3>2, <3>3
  <2> QED BY <2>2, <2>3
<1> DEFINE f == [k \in 0..n |-> g[1..k]]
<1>3. f[0] = <<>>
  <2>1. 1..0 = {} /\ 1..0 \in SUBSET (1..n) OBVIOUS
  <2>2. g[1..0] = <<>> BY <1>2, <2>1 DEF IsLoop
  <2> QED BY <1>1, <2>2
<1>4. ASSUME NEW k \in 1..n PROVE f[k] = Round(loop, f[k - 1], urls[k])
  <2>1. k \in Nat /\ k >= 1 /\ k <= n BY <1>1
  <2>2. k \in 1..k /\ 1..k \in SUBSET (1..k) /\ 1..k \in SUBSET (1..n) BY <1>1, <2>1
  <2>5. Max(1..k) = k BY <2>1, <2>2, LargestOf
  <2>6. (1..k) \ {k} = 1..(k - 1) BY <2>1
  <2>3. g[1..k] = Round(loop, g[1..(k - 1)], urls[k]) BY <1>2, <2>2, <2>5, <2>6 DEF IsLoop
  <2>4. k \in 0..n /\ k - 1 \in 0..n BY <1>1
  <2> QED BY <2>3, <2>4
<1>5. f[n] = Loop(loop, urls) BY <1>1, <1>2
<1> HIDE DEF f
<1> QED BY <1>3, <1>4, <1>5

\* The place of the first occurrence of a picture.
LEMMA FirstAtIs ==
  ASSUME NEW urls \in Seq(Images), NEW i \in DOMAIN urls
  PROVE  /\ FirstAt(urls, urls[i]) \in DOMAIN urls
         /\ FirstAt(urls, urls[i]) <= i
         /\ urls[FirstAt(urls, urls[i])] = urls[i]
<1> DEFINE I == {j \in 1..Len(urls) : urls[j] = urls[i]}
           m == Min(I)
<1>1. i \in I /\ I \subseteq Nat /\ DOMAIN urls = 1..Len(urls) OBVIOUS
<1>2. FirstAt(urls, urls[i]) = m BY <1>1 DEF FirstAt, SelectInSeq
<1>3. m \in I /\ \A j \in I : m <= j
  <2> HIDE DEF I
  <2>1. PICK k \in I : \A j \in I : k <= j
    <3> DEFINE G == {k \in 0..i : \A j \in I : j > k}
    <3> SUFFICES ASSUME \A k \in I : \E j \in I : ~(k <= j) PROVE FALSE OBVIOUS
    <3>1. ASSUME NEW k \in 1..i, k - 1 \in G PROVE k \in G
      <4>1. \A j \in I : j >= k BY <1>1, <3>1
      <4>2. k \notin I BY <1>1, <4>1
      <4> QED BY <1>1, <4>1, <4>2
    <3>2. 0 \in G BY <1>1 DEF I
    <3> HIDE DEF G
    <3>3. i \in Nat BY <1>1
    <3>4. \A k \in 0..i : k \in G BY <3>1, <3>2, <3>3, PrefixInduction
    <3>5. i \in 0..i BY <3>3
    <3>6. i \in G BY <3>4, <3>5
    <3> QED BY <1>1, <3>6 DEF G
  <2> QED BY <2>1 DEF Min
<1> HIDE DEF m
<1> QED BY <1>1, <1>2, <1>3

\* A picture that did not occur before.
LEMMA FirstOfNew ==
  ASSUME NEW urls \in Seq(Images), NEW k \in DOMAIN urls,
         \A i \in 1..(k - 1) : urls[i] # urls[k]
  PROVE  FirstAt(urls, urls[k]) = k
<1>1. FirstAt(urls, urls[k]) \in 1..Len(urls) /\ FirstAt(urls, urls[k]) <= k
      /\ urls[FirstAt(urls, urls[k])] = urls[k]
  BY FirstAtIs
<1> QED BY <1>1

\* The pictures in out, in the order in which urls names them first.
InOrder(out, urls) ==
  \A i, j \in DOMAIN out : i < j => FirstAt(urls, out[i]) < FirstAt(urls, out[j])

Named(urls, k) == {urls[i] : i \in 1..k}

\* The first k addresses of urls without their repetitions.
Extracted(out, urls, k) ==
  out \in Seq(Images) /\ ToSet(out) = Named(urls, k) /\ InOrder(out, urls)

LEMMA AppendIs ==
  ASSUME NEW out \in Seq(Images), NEW u \in Images
  PROVE  LET new == Append(out, u) IN
         /\ new \in Seq(Images) /\ Len(new) = Len(out) + 1
         /\ ToSet(new) = ToSet(out) \cup {u}
         /\ new[Len(out) + 1] = u /\ \A i \in 1..Len(out) : new[i] = out[i]
<1> DEFINE new == Append(out, u)
<1>1. /\ new \in Seq(Images) /\ Len(new) = Len(out) + 1 /\ Len(out) \in Nat
      /\ new[Len(out) + 1] = u /\ \A i \in 1..Len(out) : new[i] = out[i]
  OBVIOUS
<1>2. DOMAIN out = 1..Len(out) /\ DOMAIN new = 1..(Len(out) + 1) BY <1>1
<1> HIDE DEF new
<1>3. ToSet(new) = ToSet(out) \cup {u}
  <2>1. 1..(Len(out) + 1) = 1..Len(out) \cup {Len(out) + 1} BY <1>1
  <2> QED BY <1>1, <1>2, <2>1 DEF ToSet
<1> QED BY <1>1, <1>3 DEF new

\* A picture that urls names first at place k goes after those before it.
LEMMA AppendInOrder ==
  ASSUME NEW urls \in Seq(Images), NEW out \in Seq(Images), InOrder(out, urls),
         NEW u \in Images, \A v \in ToSet(out) : FirstAt(urls, v) < FirstAt(urls, u)
  PROVE  InOrder(Append(out, u), urls)
<1> DEFINE new == Append(out, u)
<1>1. /\ Len(new) = Len(out) + 1 /\ Len(out) \in Nat
      /\ new[Len(out) + 1] = u /\ \A i \in 1..Len(out) : new[i] = out[i]
      /\ DOMAIN new = 1..(Len(out) + 1) /\ DOMAIN out = 1..Len(out)
  OBVIOUS
<1> HIDE DEF new
<1>2. ASSUME NEW i \in DOMAIN new, NEW j \in DOMAIN new, i < j
      PROVE  FirstAt(urls, new[i]) < FirstAt(urls, new[j])
  <2>1. i \in DOMAIN out BY <1>1, <1>2
  <2>2. CASE j \in DOMAIN out BY <1>1, <1>2, <2>1, <2>2 DEF InOrder
  <2>3. CASE j = Len(out) + 1 BY <1>1, <2>1, <2>3 DEF ToSet
  <2> QED BY <1>1, <2>2, <2>3
<1>3. InOrder(new, urls) BY <1>2 DEF InOrder
<1> QED BY <1>3 DEF new

LEMMA ExtractedRound ==
  ASSUME NEW urls \in Seq(Images), NEW k \in DOMAIN urls, NEW out, Extracted(out, urls, k - 1)
  PROVE  Extracted(Round("extract", out, urls[k]), urls, k)
<1> DEFINE u == urls[k]
<1>1. k \in 1..Len(urls) /\ Len(urls) \in Nat /\ u \in Images OBVIOUS
<1>2. 1..k = 1..(k - 1) \cup {k} /\ k \in Nat BY <1>1
<1>3. Named(urls, k) = Named(urls, k - 1) \cup {u} BY <1>2 DEF Named
<1>4. out \in Seq(Images) /\ ToSet(out) = Named(urls, k - 1) /\ InOrder(out, urls)
  BY DEF Extracted
<1>5. CASE Contains(out, u)
  <2>1. u \in ToSet(out) BY <1>4, <1>5 DEF Contains, ToSet
  <2>2. Round("extract", out, u) = out BY <1>5 DEF Round
  <2> QED BY <1>3, <1>4, <2>1, <2>2 DEF Extracted
<1>6. CASE ~Contains(out, u)
  <2>1. u \notin Named(urls, k - 1) BY <1>4, <1>6 DEF Contains, ToSet
  <2>2. FirstAt(urls, u) = k
    <3>1. \A i \in 1..(k - 1) : urls[i] # urls[k] BY <2>1 DEF Named
    <3> QED BY <3>1, FirstOfNew
  <2>3. ASSUME NEW v \in ToSet(out) PROVE FirstAt(urls, v) < FirstAt(urls, u)
    <3>1. PICK i \in 1..(k - 1) : v = urls[i] BY <1>4 DEF Named
    <3>2. i \in DOMAIN urls /\ i < k /\ i \in Nat BY <1>1, <1>2
    <3>3. FirstAt(urls, v) \in DOMAIN urls /\ FirstAt(urls, v) <= i BY <3>1, <3>2, FirstAtIs
    <3> QED BY <1>2, <2>2, <3>2, <3>3
  <2>4. Round("extract", out, u) = Append(out, u) BY <1>6 DEF Round
  <2>5. Append(out, u) \in Seq(Images) /\ ToSet(Append(out, u)) = ToSet(out) \cup {u}
    BY <1>1, <1>4, AppendIs
  <2>6. InOrder(Append(out, u), urls) BY <1>1, <1>4, <2>3, AppendInOrder
  <2> QED BY <1>3, <1>4, <2>4, <2>5, <2>6 DEF Extracted
<1> QED BY <1>5, <1>6

\* The first loop drops the repetitions and keeps the order.
LEMMA ExtractKeepsOrder ==
  ASSUME NEW urls \in Seq(Images)
  PROVE  Extracted(ExtractImages(urls), urls, Len(urls))
<1>1. PICK f : /\ f[0] = <<>>
               /\ \A k \in 1..Len(urls) : f[k] = Round("extract", f[k - 1], urls[k])
               /\ f[Len(urls)] = Loop("extract", urls)
  BY LoopInRounds
<1> DEFINE n == Len(urls)
           G == {k \in 0..n : Extracted(f[k], urls, k)}
<1>2. n \in Nat /\ DOMAIN urls = 1..n OBVIOUS
<1>3. 0 \in G
  <2>1. /\ <<>> \in Seq(Images) /\ ToSet(<<>>) = {} /\ Named(urls, 0) = {}
        /\ InOrder(<<>>, urls)
    BY DEF ToSet, Named, InOrder
  <2>2. Extracted(f[0], urls, 0) BY <1>1, <2>1 DEF Extracted
  <2> QED BY <1>2, <2>2
<1>4. ASSUME NEW k \in 1..n, k - 1 \in G PROVE k \in G
  BY <1>1, <1>2, <1>4, ExtractedRound
<1>5. n \in 0..n BY <1>2
<1> HIDE DEF G
<1>6. n \in G BY <1>2, <1>3, <1>4, <1>5, PrefixInduction
<1> QED BY <1>1, <1>6 DEF G, Loop

Usable(S) == {u \in S : ResolveOne(u) # "none"}

\* The photos found among the first k pictures: the usable ones, up to a full album,
\* and those that are left out come after them.
Resolved(out, urls, pics, k) ==
  /\ out \in Seq(Images) /\ InOrder(out, urls) /\ Len(out) <= GroupMax
  /\ ToSet(out) \subseteq Usable(Named(pics, k))
  /\ Len(out) = GroupMax \/ ToSet(out) = Usable(Named(pics, k))
  /\ \A u \in Usable(Named(pics, k)) \ ToSet(out) :
       \A v \in ToSet(out) : FirstAt(urls, v) < FirstAt(urls, u)

LEMMA ResolvedRound ==
  ASSUME NEW urls \in Seq(Images), NEW pics \in Seq(Images), InOrder(pics, urls),
         ToSet(pics) \subseteq ToSet(urls),
         NEW k \in DOMAIN pics, NEW out, Resolved(out, urls, pics, k - 1)
  PROVE  Resolved(Round("resolve", out, pics[k]), urls, pics, k)
<1> DEFINE u == pics[k]
           new == Round("resolve", out, u)
<1>1. k \in 1..Len(pics) /\ Len(pics) \in Nat /\ u \in Images /\ GroupMax \in Nat
      /\ DOMAIN pics = 1..Len(pics)
  BY MediaAssumption
<1>2. 1..k = 1..(k - 1) \cup {k} /\ k \in Nat BY <1>1
<1>3. Named(pics, k) = Named(pics, k - 1) \cup {u} BY <1>2 DEF Named
<1>4. /\ out \in Seq(Images) /\ InOrder(out, urls) /\ Len(out) <= GroupMax
      /\ ToSet(out) \subseteq Usable(Named(pics, k - 1))
      /\ Len(out) = GroupMax \/ ToSet(out) = Usable(Named(pics, k - 1))
      /\ \A w \in Usable(Named(pics, k - 1)) \ ToSet(out) :
           \A v \in ToSet(out) : FirstAt(urls, v) < FirstAt(urls, w)
      /\ Len(out) \in Nat
  BY DEF Resolved
<1>5. ASSUME NEW v \in Named(pics, k - 1) PROVE FirstAt(urls, v) < FirstAt(urls, u)
  <2>1. PICK i \in 1..(k - 1) : v = pics[i] BY DEF Named
  <2>2. i \in DOMAIN pics /\ i < k BY <1>1, <1>2
  <2> QED BY <2>1, <2>2 DEF InOrder
<1>6. ASSUME NEW v \in ToSet(out) PROVE FirstAt(urls, v) < FirstAt(urls, u)
  BY <1>4, <1>5 DEF Usable
<1>7. CASE ResolveOne(u) = "none"
  <2>1. new = out BY <1>7 DEF Round
  <2>2. Usable(Named(pics, k)) = Usable(Named(pics, k - 1)) BY <1>3, <1>7 DEF Usable
  <2> HIDE DEF new
  <2>9. Resolved(new, urls, pics, k)
    BY <1>4, <2>1, <2>2 DEF Resolved
  <2> QED BY <2>9 DEF new
<1>8. CASE ResolveOne(u) # "none" /\ Len(out) >= GroupMax
  <2>1. new = out BY <1>8 DEF Round
  <2>2. Usable(Named(pics, k)) = Usable(Named(pics, k - 1)) \cup {u} BY <1>3, <1>8 DEF Usable
  <2>3. Len(out) = GroupMax BY <1>1, <1>4, <1>8
  <2> HIDE DEF new
  <2>9. Resolved(new, urls, pics, k)
    BY <1>4, <1>6, <2>1, <2>2, <2>3 DEF Resolved
  <2> QED BY <2>9 DEF new
<1>9. CASE ResolveOne(u) # "none" /\ ~(Len(out) >= GroupMax)
  <2>1. new = Append(out, u) BY <1>9 DEF Round
  <2>2. Usable(Named(pics, k)) = Usable(Named(pics, k - 1)) \cup {u} BY <1>3, <1>9 DEF Usable
  <2>3. ToSet(out) = Usable(Named(pics, k - 1)) BY <1>1, <1>4, <1>9
  <2> HIDE DEF new
  <2>4. new \in Seq(Images) /\ Len(new) = Len(out) + 1 /\ ToSet(new) = ToSet(out) \cup {u}
    BY <1>1, <1>4, <2>1, AppendIs
  <2>5. InOrder(new, urls) BY <1>1, <1>4, <1>6, <2>1, AppendInOrder
  <2>6. Len(new) <= GroupMax BY <1>1, <1>4, <1>9, <2>4
  <2>9. Resolved(new, urls, pics, k)
    BY <2>2, <2>3, <2>4, <2>5, <2>6 DEF Resolved
  <2> QED BY <2>9 DEF new
<1> QED BY <1>7, <1>8, <1>9

\* The second loop takes the usable ones while there is room.
LEMMA ResolveTakesFirst ==
  ASSUME NEW urls \in Seq(Images), NEW pics \in Seq(Images), InOrder(pics, urls),
         ToSet(pics) \subseteq ToSet(urls)
  PROVE  Resolved(ResolvePhotoSources(pics), urls, pics, Len(pics))
<1>1. PICK f : /\ f[0] = <<>>
               /\ \A k \in 1..Len(pics) : f[k] = Round("resolve", f[k - 1], pics[k])
               /\ f[Len(pics)] = Loop("resolve", pics)
  BY LoopInRounds
<1> DEFINE n == Len(pics)
           G == {k \in 0..n : Resolved(f[k], urls, pics, k)}
<1>2. n \in Nat /\ DOMAIN pics = 1..n OBVIOUS
<1>3. 0 \in G
  <2>1. /\ <<>> \in Seq(Images) /\ ToSet(<<>>) = {} /\ Named(pics, 0) = {}
        /\ InOrder(<<>>, urls) /\ Len(<<>>) = 0
    BY DEF ToSet, Named, InOrder
  <2>2. GroupMax \in Nat BY MediaAssumption
  <2>3. Resolved(f[0], urls, pics, 0) BY <1>1, <2>1, <2>2 DEF Resolved, Usable
  <2> QED BY <1>2, <2>3
<1>4. ASSUME NEW k \in 1..n, k - 1 \in G PROVE k \in G
  <2>1. Resolved(f[k - 1], urls, pics, k - 1) BY <1>4
  <2>2. k \in DOMAIN pics /\ k \in 0..n BY <1>2
  <2>3. Resolved(Round("resolve", f[k - 1], pics[k]), urls, pics, k)
    BY <2>1, <2>2, ResolvedRound
  <2> QED BY <1>1, <2>2, <2>3
<1>5. n \in 0..n BY <1>2
<1> HIDE DEF G
<1>6. n \in G BY <1>2, <1>3, <1>4, <1>5, PrefixInduction
<1> QED BY <1>1, <1>6 DEF G, Loop

LEMMA PhotosAreFirst ==
  ASSUME NEW urls \in Seq(Images)
  PROVE  AreFirstPhotos(Photos(urls), urls)
<1> DEFINE pics == ExtractImages(urls)
           out  == ResolvePhotoSources(pics)
<1>1. Photos(urls) = out BY DEF Photos
<1>2. pics \in Seq(Images) /\ ToSet(pics) = Named(urls, Len(urls)) /\ InOrder(pics, urls)
  BY ExtractKeepsOrder DEF Extracted
<1> HIDE DEF pics
<1>3. Named(urls, Len(urls)) = ToSet(urls) /\ Named(pics, Len(pics)) = ToSet(pics)
  BY <1>2 DEF Named, ToSet
<1>4. Resolved(out, urls, pics, Len(pics)) BY <1>2, <1>3, ResolveTakesFirst
<1> HIDE DEF out
<1> DEFINE usable == {u \in ToSet(urls) : ResolveOne(u) # "none"}
<1>5. Usable(Named(pics, Len(pics))) = usable BY <1>2, <1>3 DEF Usable
<1>6. /\ out \in Seq(Images) /\ InOrder(out, urls) /\ ToSet(out) \subseteq usable
      /\ Len(out) = GroupMax \/ ToSet(out) = usable
      /\ \A u \in usable \ ToSet(out) :
           \A v \in ToSet(out) : FirstAt(urls, v) < FirstAt(urls, u)
  <2> HIDE DEF usable
  <2> QED BY <1>4, <1>5 DEF Resolved
<1> HIDE DEF usable
<1>7. ASSUME NEW i \in DOMAIN out, NEW u \in usable \ {out[j] : j \in 1..i}
      PROVE  FirstAt(urls, out[i]) < FirstAt(urls, u)
  <2>1. out[i] \in ToSet(out) BY DEF ToSet
  <2>2. CASE u \notin ToSet(out) BY <1>6, <2>1, <2>2
  <2>3. CASE u \in ToSet(out)
    <3>1. PICK j \in DOMAIN out : u = out[j] BY <2>3 DEF ToSet
    <3>2. DOMAIN out = 1..Len(out) /\ Len(out) \in Nat BY <1>6
    <3>3. j \notin 1..i BY <3>1
    <3>4. i < j BY <3>2, <3>3
    <3> QED BY <1>6, <3>1, <3>4 DEF InOrder
  <2> QED BY <2>2, <2>3
<1>8. AreFirstPhotos(out, urls) BY <1>6, <1>7 DEF AreFirstPhotos, usable
<1> QED BY <1>1, <1>8

\* Whatever the pictures of a post, the photos of its message are the first usable ones.
THEOREM PhotosGoInOrder == Spec => []PhotosAreTheFirst
<1>1. TypeOK => PhotosAreTheFirst
  <2> SUFFICES ASSUME TypeOK, NEW c \in Calls
               PROVE  AreFirstPhotos(Photos(post[c].images), post[c].images)
    BY DEF PhotosAreTheFirst
  <2>1. post[c] \in Draft BY PublisherAssumption DEF TypeOK
  <2>2. post[c].images \in Seq(Images) BY <2>1 DEF Draft
  <2> QED BY <2>2, PhotosAreFirst
<1> QED BY <1>1, PublisherTyped, PTL

===============================================================================
