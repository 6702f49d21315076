---------------------------- MODULE MCRateLimiter -----------------------------
(* Small instances of RateLimiter for TLC.                                   *)
EXTENDS RateLimiter, TLC

CONSTANT a1

\* One client that names itself in no header.
OneOrigin == {[forwarded |-> None, real |-> None, remote |-> a1]}

Symmetry == Permutations(Requests)

===============================================================================
