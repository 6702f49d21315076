------------------------------ MODULE Publication ------------------------------
(***************************************************************************)
(* What one call of Publisher.Publish promises to its caller, the worker   *)
(* or a handler: it answers success only when all of the post is in the    *)
(* channel, an error may mean anything, and it takes at most MaxHold.      *)
(***************************************************************************)
EXTENDS Naturals

CONSTANTS
  Calls,    \* calls of Publish
  MaxHold   \* the longest time a call may take

VARIABLES
  result,    \* result[c]: "none", "open", "ok" or "error"
  complete,  \* calls whose post is in the channel as a whole
  held       \* held[c]: how long call c has taken

vars == <<result, complete, held>>

Init ==
  /\ result = [c \in Calls |-> "none"]
  /\ complete = {}
  /\ held = [c \in Calls |-> 0]

Answer(c, from, to) ==
  /\ result[c] = from
  /\ result' = [result EXCEPT ![c] = to]
  /\ UNCHANGED <<complete, held>>

Begin(c)   == Answer(c, "none", "open") \/ Answer(c, "none", "error")
Succeed(c) == c \in complete /\ Answer(c, "open", "ok")
Fail(c)    == Answer(c, "open", "error")

\* The last part comes in, after the call has failed perhaps.
Arrive(c) ==
  /\ result[c] \in {"open", "error"}
  /\ complete' = complete \cup {c}
  /\ UNCHANGED <<result, held>>

Tick ==
  /\ \A c \in Calls : result[c] = "open" => held[c] < MaxHold
  /\ held' = [c \in Calls |-> IF result[c] = "open" THEN held[c] + 1 ELSE held[c]]
  /\ UNCHANGED <<result, complete>>

Next ==
  \/ \E c \in Calls : Begin(c) \/ Succeed(c) \/ Fail(c) \/ Arrive(c)
  \/ Tick

Spec == Init /\ [][Next]_vars

\* With fairness every call is answered.
FairSpec == Spec /\ \A c \in Calls : WF_vars(Succeed(c) \/ Fail(c))

===============================================================================
