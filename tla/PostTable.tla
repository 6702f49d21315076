------------------------------ MODULE PostTable ------------------------------
(***************************************************************************)
(* The posts table of the SQL adapters: reads by id within a tenant and    *)
(* the revision-checked UPDATE.  A row is a record with at least the       *)
(* fields status and revision; the modules that use the table choose the   *)
(* other fields.  A deleted post is a row with status "absent".            *)
(***************************************************************************)
EXTENDS Integers, Lifecycle

Exists(t, p) == t[p].status # "absent"

\* Faults: the UPDATE has no revision in its WHERE clause, or is an upsert.
AnyRevisionMatches(t, p, post) == Exists(t, p)
UpsertMatches(t, p, post)      == t[p].revision = post.revision - 1

\* UPDATE posts SET ... WHERE id = ? AND revision = post.Revision - 1: the row
\* is replaced as a whole, or the statement touches no row and the caller gets
\* ErrConflict (the post is there) or ErrNotFound (it is not).
RevisionMatches(t, p, post) == Exists(t, p) /\ t[p].revision = post.revision - 1
UpdateRow(t, p, post)       == [t EXCEPT ![p] = post]

WithStatus(post, s) == [post EXCEPT !.status = s]

\* A caller's copy put on top of the revision that is stored now.
Rebased(copy, post) == [copy EXCEPT !.revision = post.revision]

\* The copy a caller hands to Update: its own changes, one revision further.
NextRevision(post) == [post EXCEPT !.revision = @ + 1]

DeleteRow(t, p) == [t EXCEPT ![p] = [@ EXCEPT !.status = "absent"]]

===============================================================================
