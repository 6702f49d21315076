------------------------------- MODULE PostFiles -------------------------------
(***************************************************************************)
(* Posts kept as Markdown files under git: FileSystemPostRepository, the   *)
(* GitDecorator around it, and the requests of PostService and of the      *)
(* history page that go through both.                                      *)
(*                                                                         *)
(* Requests share the directory without a lock; only the commit after a    *)
(* change holds the decorator's mutex.  os.WriteFile first truncates the   *)
(* file and then writes it, so others may see it empty.  There is no       *)
(* revision check in this storage.                                         *)
(***************************************************************************)
EXTENDS Naturals, Lifecycle

CONSTANTS
  Requests,   \* requests, of any kind and by any user
  Slugs,      \* slugs of posts; a slug is a file name
  Targets,    \* the statuses that requests ask for
  Original,   \* creator and text of the posts that are there from the start
  Nobody,     \* no id
  Mixed,      \* a text put together from two writes
  MaxFaults   \* bound: failed writes, failed commits and restarts

ASSUME FilesAssumption ==
  /\ Slugs # {}
  /\ Targets \subseteq Statuses
  /\ {Original, Nobody, Mixed} \cap Requests = {}
  /\ Original # Nobody /\ Original # Mixed /\ Nobody # Mixed
  /\ MaxFaults \in Nat

VARIABLES
  file,      \* file[s]: the file of slug s in the working tree
  index,     \* index[s]: what is staged for it
  head,      \* head[s]: what the last commit has for it
  past,      \* past[s]: the versions of the file in all commits
  detached,  \* HEAD was detached when the process started
  pc,        \* pc[r]: the step request r takes next, or its answer
  req,       \* req[r]: what request r asks for
  copy,      \* copy[r]: the post as request r holds it in memory
  faults,    \* how many faults have happened
  \* History, which no action of the code reads:
  seen,      \* seen[r]: the file request r found when it came in, or overwrote
  raced,     \* raced[r]: another request changed the file of r since it came in
  orphan     \* orphan[s]: a change of the file was left without a commit

gitvars  == <<index, head, past>>
history  == <<seen, raced, orphan>>
vars     == <<file, gitvars, detached, pc, req, copy, faults, history>>

\* A post is known by the request that created it: no two have the same id.  A
\* file that is there but empty does not parse.
Ids     == Requests \cup {Original}
Texts   == Ids \cup {Mixed}
NoFile  == [form |-> "none", id |-> Nobody, text |-> Nobody, status |-> "idea"]
Torn    == [NoFile EXCEPT !.form = "torn"]
Whole(id, text, status) == [form |-> "whole", id |-> id, text |-> text, status |-> status]
File    == {NoFile, Torn} \cup [form : {"whole"}, id : Ids, text : Texts, status : Statuses]

Kinds   == {"create", "update", "setstatus", "revert", "delete"}
Request == [kind : Kinds \cup {"none"}, slug : Slugs, id : Ids \cup {Nobody},
            target : Statuses, version : File]
Busy    == {"stat", "load", "snapshot", "reread", "truncate", "write", "describe",
            "scan", "remove", "commit"}

TypeOK ==
  /\ file \in [Slugs -> File] /\ index \in [Slugs -> File] /\ head \in [Slugs -> File]
  /\ past \in [Slugs -> SUBSET File]
  /\ detached \in BOOLEAN
  /\ pc \in [Requests -> Busy \cup {"idle", "ok", "refused", "lost"}]
  /\ req \in [Requests -> Request]
  /\ copy \in [Requests -> File]
  /\ faults \in 0..MaxFaults
  /\ seen \in [Requests -> File]
  /\ raced \in [Requests -> BOOLEAN]
  /\ orphan \in [Slugs -> BOOLEAN]

NoRequest == [kind |-> "none", slug |-> CHOOSE s \in Slugs : TRUE, id |-> Nobody,
              target |-> "idea", version |-> NoFile]

\* A post may be there, under git or not: git may have been enabled later.
Init ==
  /\ file \in [Slugs -> {NoFile, Whole(Original, Original, "draft")}]
  /\ \E tracked \in SUBSET Slugs :
       /\ head = [s \in Slugs |-> IF s \in tracked THEN file[s] ELSE NoFile]
       /\ orphan = [s \in Slugs |-> s \notin tracked /\ file[s] # NoFile]
  /\ index = head
  /\ past = [s \in Slugs |-> {head[s]} \ {NoFile}]
  /\ detached \in BOOLEAN
  /\ pc = [r \in Requests |-> "idle"]
  /\ req = [r \in Requests |-> NoRequest]
  /\ copy = [r \in Requests |-> NoFile]
  /\ faults = 0
  /\ seen = [r \in Requests |-> NoFile]
  /\ raced = [r \in Requests |-> FALSE]

-------------------------------------------------------------------------------
Kind(r)   == req[r].kind
Slug(r)   == req[r].slug
Here(r)   == file[Slug(r)]
Active(r) == pc[r] \in Busy
Goto(r, l) == pc' = [pc EXCEPT ![r] = l]

\* GetByID and Delete look for the id in every file that parses.
Finds(r) == Here(r).form = "whole" /\ Here(r).id = req[r].id

\* The working tree changes: whoever else is busy with that file has raced.
PutFile(r, f) ==
  /\ file' = [file EXCEPT ![Slug(r)] = f]
  /\ raced' = [q \in Requests |-> raced[q] \/ (q # r /\ Active(q) /\ Slug(q) = Slug(r))]

Entry(k) == CASE k = "create" -> "stat" [] k = "delete" -> "describe" [] OTHER -> "load"

\* A request comes in for a post that its user has seen: the first one of the
\* slug, or the one that is there now.
Receive(r, k, s, id, target, version) ==
  /\ pc[r] = "idle"
  /\ req' = [req EXCEPT ![r] = [kind |-> k, slug |-> s, id |-> id, target |-> target,
                                version |-> version]]
  /\ Goto(r, Entry(k))
  /\ seen' = [seen EXCEPT ![r] = file[s]]
  /\ UNCHANGED <<file, gitvars, detached, copy, faults, raced, orphan>>

ReceiveAny(r) ==
  \/ \E s \in Slugs : Receive(r, "create", s, r, "idea", NoFile)
  \/ \E s \in Slugs : \E id \in {Original, file[s].id} \ {Nobody} :
       \/ \E k \in {"update", "delete"} : Receive(r, k, s, id, "idea", NoFile)
       \/ \E t \in Targets : Receive(r, "setstatus", s, id, t, NoFile)
       \/ \E v \in past[s] : Receive(r, "revert", s, id, "idea", v)

Answer(r, a) == Goto(r, a)
Refuse(r) ==
  /\ Answer(r, "refused")
  /\ UNCHANGED <<file, gitvars, detached, req, copy, faults, history>>

-------------------------------------------------------------------------------
(* PostService and the history page.                                       *)

\* CreatePost: Create of the repository refuses a slug that is taken.
StatForCreate(r) ==
  /\ pc[r] = "stat" /\ Kind(r) = "create"
  /\ Here(r).form = "none"
  /\ copy' = [copy EXCEPT ![r] = Whole(r, r, "idea")]
  /\ Goto(r, "truncate")
  /\ UNCHANGED <<file, gitvars, detached, req, faults, history>>

Taken(r) ==
  /\ pc[r] = "stat" /\ Kind(r) = "create"
  /\ Here(r).form # "none"
  /\ Refuse(r)

\* GetByID of the handler; UpdateStatus checks the transition on what it reads.
Load(r) ==
  /\ pc[r] = "load"
  /\ Finds(r)
  /\ Kind(r) = "setstatus" => IsTransitionAllowed(Here(r).status, req[r].target)
  /\ copy' = [copy EXCEPT ![r] =
       CASE Kind(r) = "setstatus" -> [Here(r) EXCEPT !.status = req[r].target]
         [] Kind(r) = "update"    -> [Here(r) EXCEPT !.text = r]
         [] OTHER                 -> Here(r)]
  /\ Goto(r, CASE Kind(r) = "setstatus" -> "stat"
               [] Kind(r) = "revert"    -> "snapshot"
               [] OTHER                 -> "reread")
  /\ UNCHANGED <<file, gitvars, detached, req, faults, history>>

LoadRefused(r) ==
  /\ pc[r] = "load"
  /\ ~Finds(r) \/ (Kind(r) = "setstatus"
                    /\ ~IsTransitionAllowed(Here(r).status, req[r].target))
  /\ Refuse(r)

\* Fault: the revert takes the whole old version, its status with it.
WholeVersion(post, version) == version

\* The revert takes title, text and tags of the old version and nothing else.
TextOf(post, version) == [post EXCEPT !.text = version.text]

\* handlePostRevert reads the version from git and parses it.
Snapshot(r) ==
  /\ pc[r] = "snapshot"
  /\ req[r].version.form = "whole"
  /\ copy' = [copy EXCEPT ![r] = TextOf(@, req[r].version)]
  /\ Goto(r, "reread")
  /\ UNCHANGED <<file, gitvars, detached, req, faults, history>>

SnapshotRefused(r) ==
  /\ pc[r] = "snapshot"
  /\ req[r].version.form # "whole"
  /\ Refuse(r)

\* UpdatePost reads the post again, but keeps only its revision.
Reread(r) ==
  /\ pc[r] = "reread"
  /\ Finds(r)
  /\ Goto(r, "stat")
  /\ UNCHANGED <<file, gitvars, detached, req, copy, faults, history>>

RereadRefused(r) ==
  /\ pc[r] = "reread"
  /\ ~Finds(r)
  /\ Refuse(r)

-------------------------------------------------------------------------------
(* FileSystemPostRepository.                                               *)

\* Update only asks whether the file is there, whoever's it is.
StatForUpdate(r) ==
  /\ pc[r] = "stat" /\ Kind(r) # "create"
  /\ Here(r).form # "none"
  /\ Goto(r, "truncate")
  /\ UNCHANGED <<file, gitvars, detached, req, copy, faults, history>>

Gone(r) ==
  /\ pc[r] = "stat" /\ Kind(r) # "create"
  /\ Here(r).form = "none"
  /\ Refuse(r)

\* os.WriteFile opens the file with O_CREATE and O_TRUNC ...
Truncate(r) ==
  /\ pc[r] = "truncate"
  /\ PutFile(r, Torn)
  /\ seen' = [seen EXCEPT ![r] = IF raced[r] THEN @ ELSE Here(r)]
  /\ Goto(r, "write")
  /\ UNCHANGED <<gitvars, detached, req, copy, faults, orphan>>

\* ... and writes at offset 0; a longer text written there meanwhile sticks out.
Write(r) ==
  /\ pc[r] = "write"
  /\ \/ PutFile(r, copy[r])
     \/ /\ Here(r).form = "whole"
        /\ PutFile(r, [copy[r] EXCEPT !.text = Mixed])
  /\ Goto(r, "commit")
  /\ UNCHANGED <<gitvars, detached, req, copy, faults, seen, orphan>>

\* The disk is full: the error goes to the caller and nothing is committed.
WriteFails(r) ==
  /\ pc[r] = "write"
  /\ faults < MaxFaults
  /\ faults' = faults + 1
  /\ orphan' = [orphan EXCEPT ![Slug(r)] = TRUE]
  /\ Answer(r, "refused")
  /\ UNCHANGED <<file, gitvars, detached, req, copy, seen, raced>>

\* Delete of the decorator first reads the post, for the commit ...
Describe(r) ==
  /\ pc[r] = "describe"
  /\ copy' = [copy EXCEPT ![r] = IF Finds(r) THEN Here(r) ELSE NoFile]
  /\ Goto(r, "scan")
  /\ UNCHANGED <<file, gitvars, detached, req, faults, history>>

\* ... then the repository looks for it once more ...
Scan(r) ==
  /\ pc[r] = "scan"
  /\ Finds(r)
  /\ Goto(r, "remove")
  /\ UNCHANGED <<file, gitvars, detached, req, copy, faults, history>>

ScanRefused(r) ==
  /\ pc[r] = "scan"
  /\ ~Finds(r)
  /\ Refuse(r)

\* ... and removes the file by its name.
Remove(r) ==
  /\ pc[r] = "remove"
  /\ Here(r).form # "none"
  /\ PutFile(r, NoFile)
  /\ Goto(r, "commit")
  /\ UNCHANGED <<gitvars, detached, req, copy, faults, seen, orphan>>

RemoveRefused(r) ==
  /\ pc[r] = "remove"
  /\ Here(r).form = "none"
  /\ Refuse(r)

-------------------------------------------------------------------------------
(* afterMutate and commitChanges, under the mutex.                         *)

\* wt.Remove fails for a path that is not in the index, such as that of the
\* stub the decorator deletes when it could not read the post; then all is staged.
StagesAll(r) == Kind(r) = "delete" /\ (copy[r] = NoFile \/ index[Slug(r)] = NoFile)

\* wt.Add fails for a path that is neither in the tree nor in the index.
AddFails(r) == Kind(r) # "delete" /\ Here(r) = NoFile /\ index[Slug(r)] = NoFile

\* wt.Remove deletes the file as well, even one that has come back meanwhile.
Unlinks(r) == Kind(r) = "delete" /\ ~StagesAll(r)

\* Fault: the text in memory is staged, not the file.
StagedCopy(r, tree) == [index EXCEPT ![Slug(r)] = copy[r]]

Staged(r, tree) ==
  IF StagesAll(r) THEN tree ELSE [index EXCEPT ![Slug(r)] = tree[Slug(r)]]

Commit(r) ==
  LET tree == IF Unlinks(r) THEN [file EXCEPT ![Slug(r)] = NoFile] ELSE file
      new  == Staged(r, tree)
  IN
  /\ pc[r] = "commit" /\ ~detached /\ ~AddFails(r)
  /\ IF Unlinks(r) THEN PutFile(r, NoFile) ELSE UNCHANGED <<file, raced>>
  /\ index' = new
  /\ head' = new
  /\ past' = [s \in Slugs |-> past[s] \cup ({new[s]} \ {NoFile})]
  /\ orphan' = [s \in Slugs |-> orphan[s] /\ new[s] # tree[s]]
  /\ Answer(r, "ok")
  /\ UNCHANGED <<detached, req, copy, faults, seen>>

\* The commit does not come about - HEAD is detached, there is nothing to add,
\* or git fails, before or after the change is staged; the request does not
\* hear of it.
CommitSkipped(r) ==
  /\ pc[r] = "commit"
  /\ \/ detached \/ AddFails(r)
     \/ faults < MaxFaults
  /\ faults' = IF detached \/ AddFails(r) THEN faults ELSE faults + 1
  /\ orphan' = [orphan EXCEPT ![Slug(r)] = @ \/ ~AddFails(r) \/ detached]
  /\ Answer(r, "ok")
  /\ UNCHANGED <<file, gitvars, detached, req, copy, seen, raced>>

CommitFailsStaged(r) ==
  LET tree == IF Unlinks(r) THEN [file EXCEPT ![Slug(r)] = NoFile] ELSE file IN
  /\ pc[r] = "commit" /\ ~detached /\ ~AddFails(r)
  /\ faults < MaxFaults
  /\ faults' = faults + 1
  /\ IF Unlinks(r) THEN PutFile(r, NoFile) ELSE UNCHANGED <<file, raced>>
  /\ index' = Staged(r, tree)
  /\ orphan' = [orphan EXCEPT ![Slug(r)] = TRUE]
  /\ Answer(r, "ok")
  /\ UNCHANGED <<head, past, detached, req, copy, seen>>

\* The process dies and starts again: the files are what they are.
Restart ==
  /\ faults < MaxFaults
  /\ \E r \in Requests : Active(r)
  /\ faults' = faults + 1
  /\ pc' = [r \in Requests |-> IF Active(r) THEN "lost" ELSE pc[r]]
  /\ orphan' = [s \in Slugs |-> orphan[s] \/
                  \E r \in Requests : pc[r] \in {"write", "commit"} /\ Slug(r) = s]
  /\ UNCHANGED <<file, gitvars, detached, req, copy, seen, raced>>

-------------------------------------------------------------------------------
Step(r) ==
  \/ ReceiveAny(r)
  \/ StatForCreate(r) \/ Taken(r) \/ StatForUpdate(r) \/ Gone(r)
  \/ Load(r)     \/ LoadRefused(r)
  \/ Snapshot(r) \/ SnapshotRefused(r)
  \/ Reread(r)   \/ RereadRefused(r)
  \/ Truncate(r) \/ Write(r) \/ WriteFails(r)
  \/ Describe(r) \/ Scan(r) \/ ScanRefused(r) \/ Remove(r) \/ RemoveRefused(r)
  \/ Commit(r)   \/ CommitSkipped(r) \/ CommitFailsStaged(r)

Next == Restart \/ \E r \in Requests : Step(r)

Spec == Init /\ [][Next]_vars

-------------------------------------------------------------------------------
(* Properties.                                                             *)

\* Request r has changed the file of slug s and has not committed yet.
Pending(r, s) == pc[r] \in {"write", "commit"} /\ Slug(r) = s

\* A file differs from the last commit only while a request that changed it is
\* still going to commit, or after a fault has kept some change from being
\* committed: with several requests on one file, one of them may commit what
\* another has written, but nothing stays behind.
GitKeepsUp ==
  \A s \in Slugs :
    head[s] # file[s] => orphan[s] \/ \E r \in Requests : Pending(r, s)

\* And every file that parses, staged or committed ones too, is a whole post.
FilesInv == TypeOK /\ GitKeepsUp

\* Request r is answered with success in this step, and nobody else has touched
\* its file since it came in.
Succeeds(r) == Active(r) /\ pc'[r] = "ok" /\ ~raced[r]

\* A request that had its file to itself and was told "ok" has put its post
\* into the history, or taken it out of the last commit, unless HEAD is
\* detached or git failed.
RacelessAckIsCommitted ==
  [][\A r \in Requests : Succeeds(r) /\ faults' = faults /\ ~detached =>
       IF Kind(r) = "delete" THEN head'[Slug(r)] = NoFile
       ELSE copy[r] \in past'[Slug(r)] /\ head'[Slug(r)] = copy[r]]_vars

\* A request that had the file to itself leaves everything as it found it that
\* it does not name: a revert and an edit keep the status, whatever was
\* committed in between; a change of status keeps the text; the id stays.
RacelessWriteIsExact ==
  [][\A r \in Requests : Succeeds(r) /\ Kind(r) \in {"update", "revert", "setstatus"} =>
       /\ file'[Slug(r)].id = seen[r].id
       /\ Kind(r) # "setstatus" => file'[Slug(r)].status = seen[r].status
       /\ Kind(r) = "setstatus" => file'[Slug(r)].text = seen[r].text]_vars

===============================================================================
