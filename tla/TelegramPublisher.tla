--------------------------- MODULE TelegramPublisher ---------------------------
(***************************************************************************)
(* Publisher.Publish of the Telegram adapter: the request or the two       *)
(* requests of one publication, their repetition after the answer 429,     *)
(* timeouts, cancellation, and Telegram, which may answer late or never.   *)
(*                                                                         *)
(* Time passes only while a call waits; what the process does between two  *)
(* waits takes none.                                                       *)
(***************************************************************************)
EXTENDS MediaSources

CONSTANTS
  Calls,          \* calls of Publish, one after the other or at once
  Drafts,         \* the posts they publish
  Timeout,        \* http.Client.Timeout, 60 s
  MaxRetryAfter,  \* telegramMaxRetryAfter, 30 s
  MaxRetries,     \* telegramMaxRetries, 2
  NoMessage       \* the link of a post that has none

Parts  == {"primary", "followup"}
Tries  == 0..MaxRetries

\* A post: its pictures, its text without them, and whether title and text
\* together are too long for a caption.
Draft == [images : Seq(Images), text : {"none", "blank", "words"}, overlong : BOOLEAN]

\* One request of one call.
Message == [call : Calls, part : Parts, attempt : Tries]

ASSUME PublisherAssumption ==
  /\ Drafts \subseteq Draft /\ Drafts # {}
  /\ Timeout \in Nat \ {0}
  /\ MaxRetryAfter \in Nat
  /\ MaxRetries \in Nat
  /\ NoMessage \notin Message

VARIABLES
  pc,         \* pc[c]: where call c is in Publish and doAPIRequest
  post,       \* post[c]: the post
  part,       \* part[c]: which message it is sending
  attempt,    \* attempt[c]: the loop variable of doAPIRequest
  left,       \* left[c]: time left of the request or the pause
  cancelled,  \* calls whose context is done
  link,       \* link[c]: the message External.TelegramURL will point to
  status,     \* status[m]: what became of request m
  \* History, which no action of the code reads:
  spent       \* spent[c]: how long call c has taken

clientVars == <<pc, post, part, attempt, left, link>>
vars == <<pc, post, part, attempt, left, cancelled, link, status, spent>>

Running  == {"request", "waiting", "pause"}
Statuses == {"unsent", "flying", "accepted", "limited", "refused"}

TypeOK ==
  /\ pc \in [Calls -> Running \cup {"idle", "ok", "error"}]
  /\ post \in [Calls -> Drafts]
  /\ part \in [Calls -> Parts]
  /\ attempt \in [Calls -> Tries]
  /\ left \in [Calls -> Nat]
  /\ cancelled \subseteq Calls
  /\ link \in [Calls -> Message \cup {NoMessage}]
  /\ status \in [Message -> Statuses]
  /\ spent \in [Calls -> Nat]

Init ==
  /\ pc = [c \in Calls |-> "idle"]
  /\ post \in [Calls -> Drafts]
  /\ part = [c \in Calls |-> "primary"]
  /\ attempt = [c \in Calls |-> 0]
  /\ left = [c \in Calls |-> 0]
  /\ cancelled = {}
  /\ link = [c \in Calls |-> NoMessage]
  /\ status = [m \in Message |-> "unsent"]
  /\ spent = [c \in Calls |-> 0]

-------------------------------------------------------------------------------
(* Publish.                                                                *)

HasPhotos(c)  == Photos(post[c].images) # <<>>
HasContent(c) == post[c].images # <<>> \/ post[c].text # "none"

\* The text that does not fit under the photos follows in a message of its own.
HasFollowUp(c) == post[c].overlong /\ post[c].text = "words" /\ HasPhotos(c)

\* An uploaded file is opened once per message, before its first request.
OpensFile(c) ==
  /\ part[c] = "primary" /\ attempt[c] = 0
  /\ \E i \in DOMAIN Photos(post[c].images) :
       ResolveOne(Photos(post[c].images)[i]) = "file"

Current(c) == [call |-> c, part |-> part[c], attempt |-> attempt[c]]

Goto(c, l) == pc' = [pc EXCEPT ![c] = l]

\* A post without content is refused at once.
Begin(c) ==
  /\ pc[c] = "idle"
  /\ Goto(c, IF HasContent(c) THEN "request" ELSE "error")
  /\ UNCHANGED <<post, part, attempt, left, cancelled, link, status, spent>>

\* The photos are out: on to the follow-up message, if there is one.
PrimaryOut(c) ==
  /\ pc[c] = "waiting" /\ part[c] = "primary"
  /\ status[Current(c)] = "accepted"
  /\ link' = [link EXCEPT ![c] = Current(c)]
  /\ IF HasFollowUp(c)
     THEN /\ Goto(c, "request")
          /\ part' = [part EXCEPT ![c] = "followup"]
          /\ attempt' = [attempt EXCEPT ![c] = 0]
     ELSE Goto(c, "ok") /\ UNCHANGED <<part, attempt>>
  /\ UNCHANGED <<post, left, cancelled, status, spent>>

\* Fault: the link is that of the last message.
FollowUpLinked(c) ==
  /\ pc[c] = "waiting" /\ part[c] = "followup"
  /\ status[Current(c)] = "accepted"
  /\ Goto(c, "ok")
  /\ link' = [link EXCEPT ![c] = Current(c)]
  /\ UNCHANGED <<post, part, attempt, left, cancelled, status, spent>>

FollowUpOut(c) ==
  /\ pc[c] = "waiting" /\ part[c] = "followup"
  /\ status[Current(c)] = "accepted"
  /\ Goto(c, "ok")
  /\ UNCHANGED <<post, part, attempt, left, cancelled, link, status, spent>>

\* Any error ends the call; a primary message that is out stays out.
GiveUp(c) ==
  /\ Goto(c, "error")
  /\ UNCHANGED <<post, part, attempt, left, cancelled, link, status, spent>>

-------------------------------------------------------------------------------
(* doAPIRequest.                                                           *)

Send(c) ==
  /\ pc[c] = "request" /\ c \notin cancelled
  /\ Goto(c, "waiting")
  /\ left' = [left EXCEPT ![c] = Timeout]
  /\ status' = [status EXCEPT ![Current(c)] = "flying"]
  /\ UNCHANGED <<post, part, attempt, cancelled, link, spent>>

\* The context is done, or a file that was there is gone.
NotSent(c) ==
  /\ pc[c] = "request"
  /\ c \in cancelled \/ OpensFile(c)
  /\ GiveUp(c)

\* Telegram refuses, the connection breaks, the answer cannot be read, a limit
\* leaves no further attempt or asks for too long a pause.
RequestFails(c) ==
  /\ pc[c] = "waiting"
  /\ GiveUp(c)

\* Fault: the client waits for ever.
TimeOutNever(c) == pc[c] = "waiting" /\ left[c] = 0 /\ UNCHANGED vars

TimeOut(c) ==
  /\ pc[c] = "waiting" /\ left[c] = 0
  /\ GiveUp(c)

\* Fault: whatever has not been answered is worth another attempt.
MayRetryLost(c) == status[Current(c)] # "accepted" /\ attempt[c] < MaxRetries

MayRetry(c) == status[Current(c)] = "limited" /\ attempt[c] < MaxRetries

Pause(c) ==
  /\ pc[c] = "waiting"
  /\ MayRetry(c)
  /\ Goto(c, "pause")
  /\ \E wait \in 1..MaxRetryAfter : left' = [left EXCEPT ![c] = wait]
  /\ UNCHANGED <<post, part, attempt, cancelled, link, status, spent>>

WakeUp(c) ==
  /\ pc[c] = "pause" /\ left[c] = 0
  /\ Goto(c, "request")
  /\ attempt' = [attempt EXCEPT ![c] = @ + 1]
  /\ UNCHANGED <<post, part, left, cancelled, link, status, spent>>

PauseCancelled(c) ==
  /\ pc[c] = "pause" /\ c \in cancelled
  /\ GiveUp(c)

-------------------------------------------------------------------------------
(* The rest of the world.                                                  *)

\* The worker stops, or the client of a handler goes away.
Cancel(c) ==
  /\ pc[c] \in Running /\ c \notin cancelled
  /\ cancelled' = cancelled \cup {c}
  /\ UNCHANGED <<clientVars, status, spent>>

\* Telegram gets to a request, whether or not anybody still waits for it.
Telegram(m) ==
  /\ status[m] = "flying"
  /\ \E s \in {"accepted", "limited", "refused"} : status' = [status EXCEPT ![m] = s]
  /\ UNCHANGED <<clientVars, cancelled, spent>>

Waits(c) == pc[c] \in {"waiting", "pause"}

Tick ==
  /\ \A c \in Calls : pc[c] # "request" /\ (Waits(c) => left[c] > 0)
  /\ left'  = [c \in Calls |-> IF Waits(c) THEN left[c] - 1 ELSE left[c]]
  /\ spent' = [c \in Calls |-> IF Waits(c) THEN spent[c] + 1 ELSE spent[c]]
  /\ UNCHANGED <<pc, post, part, attempt, cancelled, link, status>>

Step(c) ==
  \/ Begin(c)
  \/ Send(c)         \/ NotSent(c)
  \/ PrimaryOut(c)   \/ FollowUpOut(c)
  \/ RequestFails(c) \/ TimeOut(c)
  \/ Pause(c)        \/ WakeUp(c)      \/ PauseCancelled(c)
  \/ Cancel(c)

Next ==
  \/ \E c \in Calls : Step(c)
  \/ \E m \in Message : Telegram(m)
  \/ Tick

Spec == Init /\ [][Next]_vars

\* The process runs and its timers fire; Telegram owes it nothing.
Fairness ==
  /\ \A c \in Calls : WF_vars(Send(c) \/ NotSent(c) \/ TimeOut(c) \/ WakeUp(c))
  /\ WF_vars(Tick)

FairSpec == Spec /\ Fairness

-------------------------------------------------------------------------------
(* Properties.                                                             *)

Accepted(c, p) == {n \in Tries : status[[call |-> c, part |-> p, attempt |-> n]] = "accepted"}

\* One call never puts the same message into the channel twice, although it
\* repeats requests and a request may be accepted after its call has given up.
OncePerCall ==
  \A c \in Calls, p \in Parts : \A n, k \in Accepted(c, p) : n = k

\* A follow-up is in the channel only below the photos it belongs to, and the
\* link a successful call returns is that of the photos, or of the only message.
LinkIsPrimary ==
  \A c \in Calls :
    /\ Accepted(c, "followup") # {} => Accepted(c, "primary") # {}
    /\ link[c] # NoMessage =>
         /\ link[c].call = c /\ link[c].part = "primary"
         /\ status[link[c]] = "accepted"
    /\ pc[c] = "ok" => link[c] # NoMessage

\* A message carries the first pictures of the post that can be shown, each
\* once and in their order, and a picture nobody can get at costs no other.
PhotosAreTheFirst ==
  \A c \in Calls : AreFirstPhotos(Photos(post[c].images), post[c].images)

\* The longest time one message, and one call, can take.
PerMessage  == MaxRetries * (Timeout + MaxRetryAfter) + Timeout
LongestCall == 2 * PerMessage

Result(c) == CASE pc[c] = "idle"    -> "none"
               [] pc[c] \in Running -> "open"
               [] OTHER             -> pc[c]

Complete(c) ==
  /\ Accepted(c, "primary") # {}
  /\ HasFollowUp(c) => Accepted(c, "followup") # {}

\* The adapter keeps the promise of Publisher: success means that all of the
\* post is in the channel, and no call takes longer than LongestCall, however
\* late or often Telegram answers.
Promise == INSTANCE Publication WITH
             MaxHold  <- LongestCall,
             result   <- [c \in Calls |-> Result(c)],
             complete <- {c \in Calls : Complete(c)},
             held     <- spent

KeepsPromise == Promise!Spec

\* Every call is answered, even if Telegram never is heard of again.
KeepsPromiseEventually == Promise!FairSpec

===============================================================================
