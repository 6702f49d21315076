------------------------------ MODULE Lifecycle ------------------------------
(***************************************************************************)
(* The editorial life of a post: its statuses and the table of transitions *)
(* that internal/core/core.go allows.                                      *)
(***************************************************************************)

Statuses == {"idea", "draft", "ready", "scheduled", "published", "failed",
             "archived"}

\* allowedTransitions of core.go as a set of pairs; "archived" has no successor.
AllowedTransitions ==
  { <<"idea", "draft">>,
    <<"draft", "ready">>,
    <<"ready", "scheduled">>,     <<"ready", "published">>,
    <<"scheduled", "published">>, <<"scheduled", "ready">>,
    <<"scheduled", "failed">>,
    <<"failed", "ready">>,        <<"failed", "archived">>,
    <<"published", "archived">> }

IsTransitionAllowed(from, to) == <<from, to>> \in AllowedTransitions

===============================================================================
