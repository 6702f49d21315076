--------------------------- MODULE MCRemoteCommands ---------------------------
(* Small instances of RemoteCommands for TLC.                                *)
EXTENDS RemoteCommands, TLC

\* An edit of everything, of the status alone, and one that clears the tags.
MCEdits == {{"text", "title", "tags"}, {}, {"title", "untagged"}}

Symmetry == Permutations(Commands)

===============================================================================
