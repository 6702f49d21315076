----------------------------- MODULE LiveDashboard -----------------------------
(***************************************************************************)
(* The dashboard that reloads itself: handlers of the web UI that change a *)
(* post and then publish an event, the bus that gives every subscriber a   *)
(* bounded buffer, the stream of server-sent events, and the browser tab   *)
(* that fetches the table again on every event.                            *)
(*                                                                         *)
(* To the tab all events are one: a buffer is the number of events in it,  *)
(* and the table of posts is the number of changes made to it.             *)
(***************************************************************************)
EXTENDS Naturals, FiniteSets

CONSTANTS
  Handlers,     \* requests of the web UI that change a post
  Tabs,         \* browser tabs that show the dashboard
  BufSize,      \* events a subscriber's buffer holds
  Bare,         \* tabs whose stream is served outside LoggingMiddleware
  MaxSilent     \* bound: changes that no event announces

ASSUME LiveDashboardAssumption ==
  /\ IsFiniteSet(Handlers)
  /\ BufSize \in Nat \ {0}
  /\ MaxSilent \in Nat
  /\ Bare \subseteq Tabs

VARIABLES
  made,     \* changes made so far
  handler,  \* handler[h]: the next step of handler h
  silent,   \* changes made by the API, the commands and the worker
  stream,   \* stream[t]: the state of tab t's stream
  buffer,   \* buffer[t]: events waiting for tab t
  wants,    \* wants[t]: an event came that no fetch has answered yet
  fetch,    \* fetch[t]: the fetch of tab t that is under way
  page,     \* page[t]: the changes that tab t shows
  \* History, which no action of the code reads:
  told,     \* changes after which a handler has published or is about to
  base      \* base[t]: changes that tab t was promised nothing of

dashVars == <<made, handler, silent, stream, buffer, wants, fetch, page, told, base>>

Changes == 0..(Cardinality(Handlers) + MaxSilent)
NoFetch == [state |-> "none", read |-> 0]
Fetches == [state : {"none", "asked", "read"}, read : Changes]

DashTypeOK ==
  /\ made \in Changes
  /\ handler \in [Handlers -> {"idle", "publish", "done"}]
  /\ silent \in 0..MaxSilent
  /\ stream \in [Tabs -> {"closed", "connected", "open", "refused"}]
  /\ buffer \in [Tabs -> 0..BufSize]
  /\ wants \in [Tabs -> BOOLEAN]
  /\ fetch \in [Tabs -> Fetches]
  /\ page \in [Tabs -> Changes]
  /\ told \in Changes
  /\ base \in [Tabs -> Changes]

DashInit ==
  /\ made = 0
  /\ handler = [h \in Handlers |-> "idle"]
  /\ silent = 0
  /\ stream = [t \in Tabs |-> "closed"]
  /\ buffer = [t \in Tabs |-> 0]
  /\ wants = [t \in Tabs |-> FALSE]
  /\ fetch = [t \in Tabs |-> NoFetch]
  /\ page = [t \in Tabs |-> 0]
  /\ told = 0
  /\ base = [t \in Tabs |-> 0]

-------------------------------------------------------------------------------
(* Changes.                                                                *)

\* The handlers createPost, deletePost, editPost and revert change the post, and
\* write the audit log, before they publish.
Change(h) ==
  /\ handler[h] = "idle"
  /\ made' = made + 1
  /\ told' = made + 1
  /\ handler' = [handler EXCEPT ![h] = "publish"]
  /\ UNCHANGED <<silent, stream, buffer, wants, fetch, page, base>>

\* The REST API, the commands and the worker of "serve" publish nothing.
SilentChange ==
  /\ silent < MaxSilent
  /\ silent' = silent + 1
  /\ made' = made + 1
  /\ UNCHANGED <<handler, stream, buffer, wants, fetch, page, told, base>>

\* Fault: an event is dropped too early.
DropsEarly(n) == n + 1 < BufSize
HasRoom(n)    == n < BufSize

\* Publish: no subscriber makes it wait; a full buffer drops the event.
Publish(h) ==
  /\ handler[h] = "publish"
  /\ buffer' = [t \in Tabs |-> IF stream[t] = "open" /\ HasRoom(buffer[t])
                               THEN buffer[t] + 1 ELSE buffer[t]]
  /\ handler' = [handler EXCEPT ![h] = "done"]
  /\ UNCHANGED <<made, silent, stream, wants, fetch, page, told, base>>

-------------------------------------------------------------------------------
(* The stream.                                                             *)

\* The writer that LoggingMiddleware passes on has no Flush, so handleEvents
\* answers 500.  "serve" wraps every request into it; the tests call the handler
\* itself.
CanFlush(t) == t \in Bare

Connect(t) ==
  /\ stream[t] = "closed"
  /\ stream' = [stream EXCEPT ![t] = IF CanFlush(t) THEN "connected" ELSE "refused"]
  /\ UNCHANGED <<made, handler, silent, buffer, wants, fetch, page, told, base>>

\* The client is told that it is connected before the bus knows of it.
Subscribe(t) ==
  /\ stream[t] = "connected"
  /\ stream' = [stream EXCEPT ![t] = "open"]
  /\ buffer' = [buffer EXCEPT ![t] = 0]
  /\ base' = [base EXCEPT ![t] = made]
  /\ UNCHANGED <<made, handler, silent, wants, fetch, page, told>>

SendEvent(t) ==
  /\ stream[t] = "open"
  /\ buffer[t] > 0
  /\ buffer' = [buffer EXCEPT ![t] = @ - 1]
  /\ wants' = [wants EXCEPT ![t] = TRUE]
  /\ UNCHANGED <<made, handler, silent, stream, fetch, page, told, base>>

\* The client goes, or a write fails; the handler unsubscribes.
Break(t) ==
  /\ stream[t] \in {"connected", "open"}
  /\ stream' = [stream EXCEPT ![t] = "refused"]
  /\ buffer' = [buffer EXCEPT ![t] = 0]
  /\ UNCHANGED <<made, handler, silent, wants, fetch, page, told, base>>

\* sse.js connects again after five seconds.
Reconnect(t) ==
  /\ stream[t] = "refused"
  /\ stream' = [stream EXCEPT ![t] = "closed"]
  /\ UNCHANGED <<made, handler, silent, buffer, wants, fetch, page, told, base>>

-------------------------------------------------------------------------------
(* The tab: htmx has one fetch under way and remembers one more to make.   *)

Ask(t) ==
  /\ wants[t]
  /\ fetch[t] = NoFetch
  /\ wants' = [wants EXCEPT ![t] = FALSE]
  /\ fetch' = [fetch EXCEPT ![t] = [NoFetch EXCEPT !.state = "asked"]]
  /\ UNCHANGED <<made, handler, silent, stream, buffer, page, told, base>>

\* handlePostsPartial lists the posts.
ListPosts(t) ==
  /\ fetch[t].state = "asked"
  /\ fetch' = [fetch EXCEPT ![t] = [state |-> "read", read |-> made]]
  /\ UNCHANGED <<made, handler, silent, stream, buffer, wants, page, told, base>>

Show(t) ==
  /\ fetch[t].state = "read"
  /\ page' = [page EXCEPT ![t] = fetch[t].read]
  /\ fetch' = [fetch EXCEPT ![t] = NoFetch]
  /\ UNCHANGED <<made, handler, silent, stream, buffer, wants, told, base>>

\* An answer with an error leaves the page as it is, and nothing asks again.
FetchFails(t) ==
  /\ fetch[t].state = "asked"
  /\ fetch' = [fetch EXCEPT ![t] = NoFetch]
  /\ base' = [base EXCEPT ![t] = made]
  /\ UNCHANGED <<made, handler, silent, stream, buffer, wants, page, told>>

Tab(t) ==
  \/ Connect(t) \/ Subscribe(t) \/ SendEvent(t) \/ Break(t) \/ Reconnect(t)
  \/ Ask(t) \/ ListPosts(t) \/ Show(t) \/ FetchFails(t)

DashNext ==
  \/ \E h \in Handlers : Change(h) \/ Publish(h)
  \/ SilentChange
  \/ \E t \in Tabs : Tab(t)

\* The handlers that have begun go on, the goroutine of a stream is scheduled,
\* and a tab goes on with what it has begun.
Fairness ==
  /\ \A h \in Handlers : WF_dashVars(Publish(h))
  /\ \A t \in Tabs : /\ WF_dashVars(Connect(t) \/ Subscribe(t) \/ Reconnect(t))
                     /\ WF_dashVars(SendEvent(t))
                     /\ WF_dashVars(Ask(t) \/ ListPosts(t) \/ Show(t))

DashSpec == DashInit /\ [][DashNext]_dashVars /\ Fairness

-------------------------------------------------------------------------------
(* Properties.                                                             *)

\* The last announced change is not on the page, and was made while tab t listened.
Behind(t) == stream[t] = "open" /\ told > page[t] /\ told > base[t]

\* What will show it: an event on its way, or a fetch that will read it or has.
OnItsWay(t) ==
  \/ \E h \in Handlers : handler[h] = "publish"
  \/ buffer[t] > 0
  \/ wants[t]
  \/ fetch[t].state = "asked"
  \/ fetch[t].state = "read" /\ fetch[t].read >= told

\* A dropped event costs nothing: a tab that listens and is behind has something
\* on its way that will show it the change - the buffer that was full, if nothing
\* else.  It would not be so if a handler published before its change is stored.
NothingForgotten == \A t \in Tabs : Behind(t) => OnItsWay(t)

\* With buffers that hold what they can hold and no more.
DashboardInv == DashTypeOK /\ NothingForgotten

\* So a tab whose stream stays open shows every announced change in the end.
CatchesUp ==
  \A t \in Tabs : \A v \in Changes :
    (Behind(t) /\ told = v) ~> (page[t] >= v \/ stream[t] # "open" \/ base[t] >= v)

===============================================================================
