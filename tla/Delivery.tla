------------------------------- MODULE Delivery -------------------------------
(***************************************************************************)
(* What the publication queue promises for an accepted entry, without      *)
(* workers, attempts or time: it stays queued until it is settled, it is   *)
(* reported done only once a message went out, and only an entry that was  *)
(* given up can be queued again.  Delivery is at least once: Send may      *)
(* happen any number of times while the entry is queued.                   *)
(***************************************************************************)
CONSTANTS Entries

VARIABLES
  phase,     \* phase[e]: "none", "queued", "done" or "failed"
  delivered  \* entries of which a message was sent

vars == <<phase, delivered>>

TypeOK ==
  /\ phase \in [Entries -> {"none", "queued", "done", "failed"}]
  /\ delivered \subseteq Entries

Init ==
  /\ phase = [e \in Entries |-> "none"]
  /\ delivered = {}

Move(e, from, to) ==
  /\ phase[e] = from
  /\ phase' = [phase EXCEPT ![e] = to]
  /\ UNCHANGED delivered

Accept(e)   == Move(e, "none", "queued")
Complete(e) == e \in delivered /\ Move(e, "queued", "done")
GiveUp(e)   == Move(e, "queued", "failed")
Requeue(e)  == Move(e, "failed", "queued")

Send(e) ==
  /\ phase[e] = "queued"
  /\ delivered' = delivered \cup {e}
  /\ UNCHANGED phase

Settle(e) == Complete(e) \/ GiveUp(e)

Next == \E e \in Entries : Accept(e) \/ Send(e) \/ Settle(e) \/ Requeue(e)

Spec == Init /\ [][Next]_vars

\* With fairness the promise includes that every queued entry is settled.
FairSpec == Spec /\ \A e \in Entries : WF_vars(Settle(e))

===============================================================================
