---------------------------- MODULE PostFilesProofs ----------------------------
(***************************************************************************)
(* The history of git keeps up with the files, and a request that had its  *)
(* file to itself stores and commits exactly what it says, for every       *)
(* number of requests, slugs and faults.                                   *)
(***************************************************************************)
EXTENDS PostFiles, TLAPS

-------------------------------------------------------------------------------
(* The invariants.                                                         *)

Writes == {"update", "setstatus", "revert"}

\* Request r has removed its file and is about to commit that.
Deleting(r, s) == pc[r] = "commit" /\ Kind(r) = "delete" /\ Slug(r) = s

\* What is staged keeps up as what is committed does; and a file that is gone is
\* missed by a request that deletes it, no other.
TreeInv ==
  /\ GitKeepsUp
  /\ \A s \in Slugs :
       index[s] # file[s] => orphan[s] \/ \E r \in Requests : Pending(r, s)
  /\ \A s \in Slugs :
       file[s] = NoFile /\ (head[s] # NoFile \/ index[s] # NoFile) =>
         orphan[s] \/ \E r \in Requests : Deleting(r, s)

\* The copy of r has everything of post f that r does not name.
Exact(r, f) ==
  /\ copy[r].id = f.id
  /\ Kind(r) # "setstatus" => copy[r].status = f.status
  /\ Kind(r) = "setstatus" => copy[r].text = f.text

Holds(r) == pc[r] \in {"snapshot", "reread", "truncate", "write"}
            \/ (pc[r] = "stat" /\ Kind(r) # "create")
            \/ (pc[r] = "commit" /\ Kind(r) # "delete")

Placed(r) ==
  /\ pc[r] \in {"describe", "scan", "remove"} => Kind(r) = "delete"
  /\ pc[r] = "snapshot" => Kind(r) = "revert"
  /\ pc[r] \in {"load", "reread"} => Kind(r) \in Writes
  /\ pc[r] \in {"stat", "truncate", "write"} => Kind(r) \in Writes \cup {"create"}
  /\ Holds(r) => copy[r].form = "whole"

\* As long as nobody else touches the file of r, it is what r has left there, and
\* the copy of r was made from it.
Alone(r) ==
  ~raced[r] =>
    /\ pc[r] \in {"snapshot", "reread", "stat", "truncate"} /\ Kind(r) \in Writes =>
         Exact(r, Here(r))
    /\ pc[r] = "write" => Here(r) = Torn
    /\ pc[r] \in {"write", "commit"} /\ Kind(r) \in Writes => Exact(r, seen[r])
    /\ pc[r] = "commit" => Here(r) = IF Kind(r) = "delete" THEN NoFile ELSE copy[r]

IInv == TypeOK /\ TreeInv /\ \A r \in Requests : Placed(r) /\ Alone(r)

-------------------------------------------------------------------------------
(* Files.                                                                  *)

WholeFiles == [form : {"whole"}, id : Ids, text : Texts, status : Statuses]

LEMMA FileKinds ==
  /\ NoFile \in File /\ Torn \in File /\ WholeFiles \subseteq File
  /\ NoFile # Torn /\ NoFile \notin WholeFiles
  /\ \A f \in File : f.form = "whole" => f \in WholeFiles
  /\ \A f \in File : f.form = "none" <=> f = NoFile
BY DEF File, WholeFiles, NoFile, Torn

LEMMA WholeIsFile ==
  ASSUME NEW id \in Ids, NEW text \in Texts, NEW status \in Statuses
  PROVE  Whole(id, text, status) \in WholeFiles
BY DEF Whole, WholeFiles

\* What the requests make of a whole post is a whole post, with the same id.
LEMMA Remade ==
  ASSUME NEW f \in WholeFiles, NEW text \in Texts, NEW status \in Statuses
  PROVE  /\ [f EXCEPT !.text = text] \in WholeFiles
         /\ [f EXCEPT !.text = text].id = f.id
         /\ [f EXCEPT !.text = text].status = f.status
         /\ [f EXCEPT !.status = status] \in WholeFiles
         /\ [f EXCEPT !.status = status].id = f.id
         /\ [f EXCEPT !.status = status].text = f.text
BY DEF WholeFiles

-------------------------------------------------------------------------------
(* The types.                                                              *)

LEMMA InitTyped == Init => TypeOK
<1>1. SUFFICES ASSUME Init PROVE TypeOK OBVIOUS
<1>2. Whole(Original, Original, "draft") \in File
  BY WholeIsFile, FileKinds DEF Ids, Texts, Statuses
<1>3. file \in [Slugs -> File] BY <1>1, <1>2, FileKinds DEF Init
<1>4. head \in [Slugs -> File] /\ index \in [Slugs -> File]
  <2>1. PICK tracked \in SUBSET Slugs :
          /\ head = [s \in Slugs |-> IF s \in tracked THEN file[s] ELSE NoFile]
          /\ orphan = [s \in Slugs |-> s \notin tracked /\ file[s] # NoFile]
    BY <1>1 DEF Init
  <2>2. head \in [Slugs -> File] BY <1>3, <2>1, FileKinds
  <2>3. QED BY <1>1, <2>2 DEF Init
<1>5. past \in [Slugs -> SUBSET File] BY <1>1, <1>4 DEF Init
<1>6. orphan \in [Slugs -> BOOLEAN]
  <2>1. PICK tracked \in SUBSET Slugs :
          orphan = [s \in Slugs |-> s \notin tracked /\ file[s] # NoFile]
    BY <1>1 DEF Init
  <2>2. QED BY <2>1
<1>7. req \in [Requests -> Request]
  BY <1>1, FilesAssumption, FileKinds DEF Init, NoRequest, Request, Statuses
<1>8. QED BY <1>1, <1>3, <1>4, <1>5, <1>6, <1>7, FileKinds, FilesAssumption DEF Init, TypeOK

\* A request that changes its file with f leaves the files typed.
LEMMA PutTyped ==
  ASSUME TypeOK, NEW r \in Requests, NEW f \in File, PutFile(r, f)
  PROVE  file' \in [Slugs -> File] /\ raced' \in [Requests -> BOOLEAN]
BY DEF TypeOK, PutFile, Request, Slug, Active

LEMMA ReceiveTyped ==
  ASSUME TypeOK, NEW r \in Requests, ReceiveAny(r)
  PROVE  TypeOK'
<1>1. PICK k \in Kinds, s \in Slugs, id \in Ids \cup {Nobody}, t \in Statuses, v \in File :
        Receive(r, k, s, id, t, v)
  <2>1. ASSUME NEW s \in Slugs PROVE file[s].id \in Ids \cup {Nobody}
    BY FileKinds DEF TypeOK, File, NoFile, Torn
  <2>2. r \in Ids /\ Original \in Ids /\ "idea" \in Statuses /\ Targets \subseteq Statuses
    BY FilesAssumption DEF Ids, Statuses
  <2>3. \A s \in Slugs : past[s] \subseteq File BY DEF TypeOK
  <2>4. {"create", "update", "setstatus", "revert", "delete"} \subseteq Kinds BY DEF Kinds
  <2>5. CASE \E s \in Slugs : Receive(r, "create", s, r, "idea", NoFile)
    BY <2>2, <2>4, <2>5, FileKinds
  <2>6. CASE \E s \in Slugs : \E id \in {Original, file[s].id} \ {Nobody} :
               \E k \in {"update", "delete"} : Receive(r, k, s, id, "idea", NoFile)
    BY <2>1, <2>2, <2>4, <2>6, FileKinds
  <2>7. CASE \E s \in Slugs : \E id \in {Original, file[s].id} \ {Nobody} :
               \E t \in Targets : Receive(r, "setstatus", s, id, t, NoFile)
    BY <2>1, <2>2, <2>4, <2>7, FileKinds
  <2>8. CASE \E s \in Slugs : \E id \in {Original, file[s].id} \ {Nobody} :
               \E v \in past[s] : Receive(r, "revert", s, id, "idea", v)
    BY <2>1, <2>2, <2>3, <2>4, <2>8
  <2>9. QED BY <2>5, <2>6, <2>7, <2>8 DEF ReceiveAny
<1>2. req' \in [Requests -> Request] BY <1>1 DEF Receive, TypeOK, Request
<1>3. pc' \in [Requests -> Busy \cup {"idle", "ok", "refused", "lost"}]
  BY <1>1 DEF Receive, Goto, Entry, TypeOK, Busy
<1>4. QED BY <1>1, <1>2, <1>3 DEF Receive, TypeOK, gitvars

\* The steps that read and decide.
LEMMA ServiceTyped ==
  ASSUME TypeOK, NEW r \in Requests, Placed(r),
         StatForCreate(r) \/ Taken(r) \/ StatForUpdate(r) \/ Gone(r) \/ Load(r) \/ LoadRefused(r)
           \/ Snapshot(r) \/ SnapshotRefused(r) \/ Reread(r) \/ RereadRefused(r)
           \/ Describe(r) \/ Scan(r) \/ ScanRefused(r) \/ RemoveRefused(r)
  PROVE  TypeOK'
<1>1. /\ r \in Ids /\ r \in Texts /\ "idea" \in Statuses
      /\ req[r].target \in Statuses /\ req[r].version \in File /\ Here(r) \in File
  BY DEF TypeOK, Ids, Texts, Statuses, Request, Here, Slug
<1>2. copy' \in [Requests -> File]
  <2>1. CASE StatForCreate(r)
    BY <1>1, <2>1, WholeIsFile, FileKinds DEF StatForCreate, TypeOK
  <2>2. CASE Load(r)
    <3>1. Here(r) \in WholeFiles BY <1>1, <2>2, FileKinds DEF Load, Finds
    <3>2. copy' = [copy EXCEPT ![r] = copy'[r]] /\ copy'[r] \in File
      <4>1. copy' = [copy EXCEPT ![r] =
              CASE Kind(r) = "setstatus" -> [Here(r) EXCEPT !.status = req[r].target]
                [] Kind(r) = "update"    -> [Here(r) EXCEPT !.text = r]
                [] OTHER                 -> Here(r)]
        BY <2>2 DEF Load
      <4>2. /\ [Here(r) EXCEPT !.status = req[r].target] \in File
            /\ [Here(r) EXCEPT !.text = r] \in File
        BY <1>1, <3>1, Remade, FileKinds
      <4>3. QED BY <1>1, <4>1, <4>2 DEF TypeOK
    <3>3. QED BY <3>2 DEF TypeOK
  <2>3. CASE Snapshot(r)
    <3>1. copy[r] \in WholeFiles
      BY <2>3, FileKinds DEF Snapshot, Placed, Holds, TypeOK
    <3>2. req[r].version.text \in Texts
      BY <1>1, <2>3, FileKinds DEF Snapshot, WholeFiles
    <3>3. TextOf(copy[r], req[r].version) \in File
      <4>1. "idea" \in Statuses BY <1>1
      <4>2. QED BY <3>1, <3>2, <4>1, Remade, FileKinds DEF TextOf
    <3>4. QED BY <2>3, <3>3 DEF Snapshot, TypeOK
  <2>4. CASE Describe(r) BY <1>1, <2>4, FileKinds DEF Describe, TypeOK
  <2>5. CASE copy' = copy BY <2>5 DEF TypeOK
  <2>6. QED BY <2>1, <2>2, <2>3, <2>4, <2>5
            DEF Taken, StatForUpdate, Gone, LoadRefused, SnapshotRefused, Reread,
                RereadRefused, Scan, ScanRefused, RemoveRefused, Refuse
<1>3. pc' \in [Requests -> Busy \cup {"idle", "ok", "refused", "lost"}]
  BY DEF StatForCreate, Taken, StatForUpdate, Gone, Load, LoadRefused, Snapshot,
         SnapshotRefused, Reread, RereadRefused, Describe, Scan, ScanRefused, RemoveRefused,
         Refuse, Answer, Goto, TypeOK, Busy
<1>4. UNCHANGED <<file, gitvars, detached, req, faults, history>>
  BY DEF StatForCreate, Taken, StatForUpdate, Gone, Load, LoadRefused, Snapshot,
         SnapshotRefused, Reread, RereadRefused, Describe, Scan, ScanRefused, RemoveRefused,
         Refuse
<1>5. QED BY <1>2, <1>3, <1>4 DEF TypeOK, gitvars, history

\* The steps that change files.
LEMMA WritingTyped ==
  ASSUME TypeOK, NEW r \in Requests, Placed(r),
         Truncate(r) \/ Write(r) \/ WriteFails(r) \/ Remove(r)
  PROVE  TypeOK'
<1>1. Slug(r) \in Slugs /\ Here(r) \in File BY DEF TypeOK, Slug, Request, Here
<1>2. pc' \in [Requests -> Busy \cup {"idle", "ok", "refused", "lost"}]
  BY DEF Truncate, Write, WriteFails, Remove, Answer, Goto, TypeOK, Busy
<1>3. CASE Truncate(r)
  <2>1. file' \in [Slugs -> File] /\ raced' \in [Requests -> BOOLEAN]
    BY <1>3, PutTyped, FileKinds DEF Truncate
  <2>2. seen' \in [Requests -> File] BY <1>1, <1>3 DEF Truncate, TypeOK
  <2>3. QED BY <1>2, <1>3, <2>1, <2>2 DEF Truncate, TypeOK, gitvars
<1>4. CASE Write(r)
  <2>1. copy[r] \in WholeFiles BY <1>4, FileKinds DEF Write, Placed, Holds, TypeOK
  <2>2. "idea" \in Statuses /\ Mixed \in Texts BY DEF Statuses, Texts
  <2>3. [copy[r] EXCEPT !.text = Mixed] \in File BY <2>1, <2>2, Remade, FileKinds
  <2>4. file' \in [Slugs -> File] /\ raced' \in [Requests -> BOOLEAN]
    BY <1>4, <2>1, <2>3, PutTyped, FileKinds DEF Write
  <2>5. QED BY <1>2, <1>4, <2>4 DEF Write, TypeOK, gitvars
<1>5. CASE WriteFails(r)
  <2>1. faults' \in 0..MaxFaults BY <1>5, FilesAssumption DEF WriteFails, TypeOK
  <2>2. QED BY <1>2, <1>5, <2>1 DEF WriteFails, TypeOK, gitvars
<1>6. CASE Remove(r)
  <2>1. file' \in [Slugs -> File] /\ raced' \in [Requests -> BOOLEAN]
    BY <1>6, PutTyped, FileKinds DEF Remove
  <2>2. QED BY <1>2, <1>6, <2>1 DEF Remove, TypeOK, gitvars
<1>7. QED BY <1>3, <1>4, <1>5, <1>6

\* The tree that a commit of r looks at, once the file is gone that it unlinks.
Tree(r) == IF Unlinks(r) THEN [file EXCEPT ![Slug(r)] = NoFile] ELSE file

\* Unlinked or not, the working tree is that tree afterwards, and it is typed.
LEMMA TreeTyped ==
  ASSUME TypeOK, NEW r \in Requests,
         IF Unlinks(r) THEN PutFile(r, NoFile) ELSE UNCHANGED <<file, raced>>
  PROVE  /\ file' = Tree(r) /\ file' \in [Slugs -> File] /\ raced' \in [Requests -> BOOLEAN]
         /\ Staged(r, Tree(r)) \in [Slugs -> File]
<1>1. file' = Tree(r) BY DEF Tree, PutFile
<1>2. file' \in [Slugs -> File] /\ raced' \in [Requests -> BOOLEAN]
  BY PutTyped, FileKinds DEF TypeOK
<1>3. Slug(r) \in Slugs BY DEF TypeOK, Slug, Request
<1>4. Staged(r, Tree(r)) \in [Slugs -> File] BY <1>1, <1>2, <1>3 DEF Staged, TypeOK
<1>5. QED BY <1>1, <1>2, <1>4

LEMMA CommitTyped ==
  ASSUME TypeOK, NEW r \in Requests, Commit(r) \/ CommitSkipped(r) \/ CommitFailsStaged(r)
  PROVE  TypeOK'
<1>1. pc' \in [Requests -> Busy \cup {"idle", "ok", "refused", "lost"}]
  BY DEF Commit, CommitSkipped, CommitFailsStaged, Answer, Goto, TypeOK, Busy
<1>2. faults' \in 0..MaxFaults
  BY FilesAssumption DEF Commit, CommitSkipped, CommitFailsStaged, TypeOK
<1>3. CASE Commit(r)
  <2>1. /\ file' \in [Slugs -> File] /\ raced' \in [Requests -> BOOLEAN]
        /\ Staged(r, Tree(r)) \in [Slugs -> File]
    BY <1>3, TreeTyped DEF Commit
  <2>2. /\ index' = Staged(r, Tree(r)) /\ head' = Staged(r, Tree(r))
        /\ past' = [s \in Slugs |-> past[s] \cup ({Staged(r, Tree(r))[s]} \ {NoFile})]
        /\ orphan' \in [Slugs -> BOOLEAN]
    BY <1>3 DEF Commit, Tree, TypeOK
  <2>3. past' \in [Slugs -> SUBSET File] BY <2>1, <2>2 DEF TypeOK
  <2>4. QED BY <1>1, <1>2, <1>3, <2>1, <2>2, <2>3 DEF Commit, TypeOK
<1>4. CASE CommitSkipped(r)
  <2>1. orphan' \in [Slugs -> BOOLEAN] BY <1>4 DEF CommitSkipped, AddFails, TypeOK
  <2>2. QED BY <1>1, <1>2, <1>4, <2>1 DEF CommitSkipped, TypeOK, gitvars
<1>5. CASE CommitFailsStaged(r)
  <2>1. /\ file' \in [Slugs -> File] /\ raced' \in [Requests -> BOOLEAN]
        /\ index' \in [Slugs -> File]
    BY <1>5, TreeTyped DEF CommitFailsStaged, Tree
  <2>2. orphan' \in [Slugs -> BOOLEAN] BY <1>5 DEF CommitFailsStaged, TypeOK
  <2>3. QED BY <1>1, <1>2, <1>5, <2>1, <2>2 DEF CommitFailsStaged, TypeOK
<1>6. QED BY <1>3, <1>4, <1>5

LEMMA TypeHolds ==
  ASSUME TypeOK, \A r \in Requests : Placed(r), [Next]_vars
  PROVE  TypeOK'
<1>1. CASE Restart
  <2>1. pc' \in [Requests -> Busy \cup {"idle", "ok", "refused", "lost"}]
    BY <1>1 DEF Restart, TypeOK
  <2>2. faults' \in 0..MaxFaults BY <1>1, FilesAssumption DEF Restart, TypeOK
  <2>3. orphan' \in [Slugs -> BOOLEAN] BY <1>1 DEF Restart, TypeOK
  <2>4. QED BY <1>1, <2>1, <2>2, <2>3 DEF Restart, TypeOK, gitvars
<1>2. ASSUME NEW r \in Requests, Step(r) PROVE TypeOK'
  BY <1>2, ReceiveTyped, ServiceTyped, WritingTyped, CommitTyped DEF Step
<1>3. CASE UNCHANGED vars BY <1>3 DEF vars, gitvars, history, TypeOK
<1>4. QED BY <1>1, <1>2, <1>3 DEF Next

-------------------------------------------------------------------------------
(* Requests that have their file to themselves.                            *)

Local(q) == <<pc[q], req[q], copy[q], seen[q]>>

\* A step of r leaves q where it is, and the file of q too, or q has raced.
LEMMA OthersKept ==
  ASSUME TypeOK, NEW r \in Requests, Step(r), NEW q \in Requests, q # r
  PROVE  /\ Local(q)' = Local(q)
         /\ raced[q] => raced'[q]
         /\ Here(q)' = Here(q) \/ raced'[q] \/ ~Active(q)
<1>1. CASE ReceiveAny(r)
  BY <1>1 DEF ReceiveAny, Receive, Local, Goto, Here, Slug, TypeOK
<1>2. CASE UNCHANGED <<file, raced>> /\ ~ReceiveAny(r)
  <2>1. pc'[q] = pc[q] /\ req' = req
    BY <1>2 DEF Step, StatForCreate, Taken, StatForUpdate, Gone, Load, LoadRefused, Snapshot,
           SnapshotRefused, Reread, RereadRefused, Describe, Scan, ScanRefused, RemoveRefused,
           Truncate, Write, WriteFails, Remove, Commit, CommitSkipped, CommitFailsStaged,
           Refuse, Answer, Goto, TypeOK
  <2>2. copy'[q] = copy[q]
    BY <1>2 DEF Step, StatForCreate, Taken, StatForUpdate, Gone, Load, LoadRefused, Snapshot,
           SnapshotRefused, Reread, RereadRefused, Describe, Scan, ScanRefused, RemoveRefused,
           Truncate, Write, WriteFails, Remove, Commit, CommitSkipped, CommitFailsStaged,
           Refuse, TypeOK
  <2>3. seen'[q] = seen[q]
    BY <1>2 DEF Step, StatForCreate, Taken, StatForUpdate, Gone, Load, LoadRefused, Snapshot,
           SnapshotRefused, Reread, RereadRefused, Describe, Scan, ScanRefused, RemoveRefused,
           Truncate, Write, WriteFails, Remove, Commit, CommitSkipped, CommitFailsStaged,
           Refuse, history, TypeOK
  <2>4. QED BY <1>2, <2>1, <2>2, <2>3 DEF Local, Here, Slug
<1>3. ASSUME NEW f, PutFile(r, f), ~ReceiveAny(r),
             Truncate(r) \/ Write(r) \/ Remove(r) \/ Commit(r) \/ CommitFailsStaged(r)
      PROVE  /\ Local(q)' = Local(q)
             /\ raced[q] => raced'[q]
             /\ Here(q)' = Here(q) \/ raced'[q] \/ ~Active(q)
  <2>1. Local(q)' = Local(q) /\ req' = req
    BY <1>3 DEF Truncate, Write, Remove, Commit, CommitFailsStaged, Answer, Goto, Local, TypeOK
  <2>2. raced'[q] = (raced[q] \/ (Active(q) /\ Slug(q) = Slug(r))) BY <1>3 DEF PutFile
  <2>3. Slug(q) # Slug(r) => Here(q)' = Here(q)
    BY <1>3, <2>1 DEF PutFile, Here, Slug, TypeOK, Request
  <2>4. QED BY <2>1, <2>2, <2>3
<1>4. QED BY <1>1, <1>2, <1>3
          DEF Step, StatForCreate, Taken, StatForUpdate, Gone, Load, LoadRefused, Snapshot,
              SnapshotRefused, Reread, RereadRefused, Describe, Scan, ScanRefused,
              RemoveRefused, Truncate, Write, WriteFails, Remove, Commit, CommitSkipped,
              CommitFailsStaged, Refuse, history

LEMMA OthersAlone ==
  ASSUME TypeOK, NEW r \in Requests, Step(r), NEW q \in Requests, q # r, Placed(q), Alone(q)
  PROVE  Placed(q)' /\ Alone(q)'
<1>1. /\ Local(q)' = Local(q)
      /\ raced[q] => raced'[q]
      /\ Here(q)' = Here(q) \/ raced'[q] \/ ~Active(q)
  BY OthersKept
<1>2. Placed(q)' BY <1>1 DEF Local, Placed, Holds, Kind
<1>3. Alone(q)' BY <1>1 DEF Local, Alone, Exact, Kind, Active, Busy
<1>4. QED BY <1>2, <1>3

LEMMA ServiceAlone ==
  ASSUME TypeOK, NEW r \in Requests, Placed(r), Alone(r),
         StatForCreate(r) \/ Taken(r) \/ StatForUpdate(r) \/ Gone(r) \/ Load(r) \/ LoadRefused(r)
           \/ Snapshot(r) \/ SnapshotRefused(r) \/ Reread(r) \/ RereadRefused(r)
           \/ Describe(r) \/ Scan(r) \/ ScanRefused(r) \/ RemoveRefused(r)
  PROVE  Placed(r)' /\ Alone(r)'
<1>1. /\ Here(r) \in File /\ req[r].target \in Statuses /\ req[r].version \in File
      /\ r \in Texts
  BY DEF TypeOK, Request, Here, Slug, Texts, Ids
<1>2. CASE Load(r)
  <2>1. Here(r) \in WholeFiles BY <1>1, <1>2, FileKinds DEF Load, Finds
  <2>2. pc[r] = "load" /\ Kind(r) \in Writes /\ UNCHANGED <<req, file, raced, seen>>
    BY <1>2 DEF Load, Placed, history
  <2>3. copy'[r] = CASE Kind(r) = "setstatus" -> [Here(r) EXCEPT !.status = req[r].target]
                     [] Kind(r) = "update"    -> [Here(r) EXCEPT !.text = r]
                     [] OTHER                 -> Here(r)
    BY <1>2 DEF Load, TypeOK
  <2>4. /\ Kind(r)' = Kind(r) /\ Here(r)' = Here(r)
        /\ pc'[r] = CASE Kind(r) = "setstatus" -> "stat"
                      [] Kind(r) = "revert"    -> "snapshot"
                      [] OTHER                 -> "reread"
    BY <1>2, <2>2 DEF Load, Goto, Kind, Here, Slug, TypeOK
  <2>5. copy'[r] \in WholeFiles /\ Exact(r, Here(r))'
    <3>1. CASE Kind(r) = "setstatus"
      <4>1. copy'[r] = [Here(r) EXCEPT !.status = req[r].target] BY <2>3, <3>1
      <4>2. LET new == [Here(r) EXCEPT !.status = req[r].target] IN
            new \in WholeFiles /\ new.id = Here(r).id /\ new.text = Here(r).text
        BY <1>1, <2>1, Remade
      <4>3. QED BY <2>4, <3>1, <4>1, <4>2 DEF Exact
    <3>2. CASE Kind(r) = "update"
      <4>1. "idea" \in Statuses BY DEF Statuses
      <4>2. copy'[r] = [Here(r) EXCEPT !.text = r] BY <2>3, <3>2
      <4>3. copy'[r] \in WholeFiles /\ copy'[r].id = Here(r).id /\ copy'[r].status = Here(r).status
        BY <1>1, <2>1, <4>1, <4>2, Remade, ZenonT(40)
      <4>4. QED BY <2>4, <3>2, <4>3 DEF Exact
    <3>3. CASE Kind(r) = "revert" BY <2>1, <2>3, <2>4, <3>3 DEF Exact
    <3>4. QED BY <2>2, <3>1, <3>2, <3>3 DEF Writes
  <2>6. QED BY <2>2, <2>4, <2>5 DEF Placed, Holds, Alone, Writes, WholeFiles
<1>3. CASE Snapshot(r)
  <2>1. copy[r] \in WholeFiles BY <1>3, FileKinds DEF Snapshot, Placed, Holds, TypeOK
  <2>2. req[r].version.text \in Texts BY <1>1, <1>3, FileKinds DEF Snapshot, WholeFiles
  <2>3. /\ pc[r] = "snapshot" /\ pc'[r] = "reread" /\ UNCHANGED <<req, file, raced, seen>>
        /\ copy'[r] = TextOf(copy[r], req[r].version)
        /\ Kind(r)' = Kind(r) /\ Here(r)' = Here(r) /\ Kind(r) = "revert"
    BY <1>3 DEF Snapshot, Goto, Kind, Here, Slug, TypeOK, history, Placed
  <2>4. copy'[r] \in WholeFiles /\ copy'[r].id = copy[r].id /\ copy'[r].status = copy[r].status
    <3>1. "idea" \in Statuses BY DEF Statuses
    <3>2. QED BY <2>1, <2>2, <2>3, <3>1, Remade, ZenonT(40) DEF TextOf
  <2>5. ~raced[r] => Exact(r, Here(r))' BY <2>3, <2>4 DEF Alone, Exact, Writes
  <2>6. QED BY <2>3, <2>4, <2>5 DEF Placed, Holds, Alone, Writes, WholeFiles
<1>4. CASE StatForCreate(r)
  <2>1. Whole(r, r, "idea").form = "whole" BY DEF Whole
  <2>2. QED BY <1>4, <2>1
            DEF StatForCreate, Goto, Kind, TypeOK, history, Placed, Holds, Alone, Writes
<1>5. CASE Taken(r) \/ Gone(r) \/ LoadRefused(r) \/ SnapshotRefused(r) \/ RereadRefused(r)
             \/ ScanRefused(r) \/ RemoveRefused(r)
  <2>1. pc'[r] = "refused"
    BY <1>5 DEF Taken, Gone, LoadRefused, SnapshotRefused, RereadRefused, ScanRefused,
                RemoveRefused, Refuse, Answer, Goto, TypeOK
  <2>2. QED BY <2>1 DEF Placed, Holds, Alone
<1>6. CASE StatForUpdate(r) \/ Reread(r)
  BY <1>6 DEF StatForUpdate, Reread, Goto, Kind, Here, Slug, TypeOK, history, Placed, Holds,
              Alone, Exact, Writes
<1>7. CASE Describe(r) \/ Scan(r)
  BY <1>7 DEF Describe, Scan, Goto, Kind, TypeOK, history, Placed, Holds, Alone, Writes
<1>8. QED BY <1>2, <1>3, <1>4, <1>5, <1>6, <1>7

LEMMA ReceiveAlone ==
  ASSUME TypeOK, NEW r \in Requests, ReceiveAny(r)
  PROVE  Placed(r)' /\ Alone(r)'
<1>1. PICK k, s, id, t, v : k \in Kinds /\ Receive(r, k, s, id, t, v)
  BY DEF ReceiveAny, Kinds
<1>2. k \in Kinds /\ pc'[r] = Entry(k) /\ Kind(r)' = k BY <1>1 DEF Receive, Goto, Kind, TypeOK
<1>3. QED BY <1>2 DEF Entry, Kinds, Placed, Holds, Alone, Writes

\* After each step of the writing r finds in its file what it has left there.
LEMMA WritingAlone ==
  ASSUME TypeOK, NEW r \in Requests, Placed(r), Alone(r),
         Truncate(r) \/ Write(r) \/ WriteFails(r) \/ Remove(r)
  PROVE  Placed(r)' /\ Alone(r)'
<1>1. Slug(r) \in Slugs BY DEF TypeOK, Slug, Request
<1>2. \A f : PutFile(r, f) /\ req' = req => Here(r)' = f /\ (raced'[r] <=> raced[r])
  BY <1>1 DEF PutFile, Here, Slug, TypeOK
<1>3. CASE Truncate(r)
  <2>1. Here(r)' = Torn /\ (raced'[r] <=> raced[r]) BY <1>2, <1>3 DEF Truncate
  <2>2. QED BY <1>3, <2>1 DEF Truncate, Goto, Kind, TypeOK, Placed, Holds, Alone, Exact, Writes
<1>4. CASE Write(r)
  <2>1. pc[r] = "write" /\ pc'[r] = "commit" /\ UNCHANGED <<req, copy, seen>>
    BY <1>4 DEF Write, Goto, TypeOK
  <2>2. ~raced[r] => Here(r).form # "whole" BY <2>1 DEF Alone, Torn, NoFile
  <2>3. (raced'[r] <=> raced[r]) /\ (~raced[r] => Here(r)' = copy[r])
    BY <1>2, <1>4, <2>1, <2>2 DEF Write
  <2>4. Kind(r) # "delete" /\ Kind(r)' = Kind(r) BY <2>1 DEF Placed, Writes, Kind
  <2>5. QED BY <2>1, <2>3, <2>4 DEF Placed, Holds, Alone, Exact, Writes
<1>5. CASE WriteFails(r)
  BY <1>5 DEF WriteFails, Answer, Goto, TypeOK, Placed, Holds, Alone
<1>6. CASE Remove(r)
  <2>1. Here(r)' = NoFile /\ (raced'[r] <=> raced[r]) BY <1>2, <1>6 DEF Remove
  <2>2. Kind(r) = "delete" /\ Kind(r)' = Kind(r) /\ pc'[r] = "commit"
    BY <1>6 DEF Remove, Placed, Goto, Kind, TypeOK
  <2>3. QED BY <2>1, <2>2 DEF Placed, Holds, Alone, Writes
<1>7. QED BY <1>3, <1>4, <1>5, <1>6

LEMMA StepAlone ==
  ASSUME TypeOK, \A r \in Requests : Placed(r) /\ Alone(r), [Next]_vars
  PROVE  \A r \in Requests : Placed(r)' /\ Alone(r)'
<1>1. CASE Restart
  BY <1>1 DEF Restart, Active, Busy, Kind, Here, Slug, TypeOK, Placed, Holds, Alone, Exact
<1>2. ASSUME NEW r \in Requests, Step(r) PROVE \A q \in Requests : Placed(q)' /\ Alone(q)'
  <2>1. Placed(r)' /\ Alone(r)'
    <3>1. CASE Commit(r) \/ CommitSkipped(r) \/ CommitFailsStaged(r)
      <4>1. pc'[r] = "ok"
        BY <3>1 DEF Commit, CommitSkipped, CommitFailsStaged, Answer, Goto, TypeOK
      <4>2. QED BY <4>1 DEF Placed, Holds, Alone
    <3>2. QED BY <1>2, <3>1, ReceiveAlone, ServiceAlone, WritingAlone DEF Step
  <2>2. QED BY <1>2, <2>1, OthersAlone
<1>3. CASE UNCHANGED vars
  BY <1>3 DEF vars, history, Kind, Here, Slug, Placed, Holds, Alone, Exact
<1>4. QED BY <1>1, <1>2, <1>3 DEF Next

-------------------------------------------------------------------------------
(* The tree, the index and the last commit.                                *)

\* What v, the index or the last commit, says of s is accounted for.
Kept(v, s) ==
  /\ v[s] # file[s] => orphan[s] \/ \E r \in Requests : Pending(r, s)
  /\ file[s] = NoFile /\ v[s] # NoFile => orphan[s] \/ \E r \in Requests : Deleting(r, s)

LEMMA TreeByKept == TreeInv <=> \A s \in Slugs : Kept(head, s) /\ Kept(index, s)
BY DEF TreeInv, GitKeepsUp, Kept

\* A step of r that does not answer it and changes no file keeps the account.
LEMMA QuietKept ==
  ASSUME TypeOK, TreeInv, NEW r \in Requests, UNCHANGED <<file, index, head, orphan>>,
         ~Active(r) \/ pc[r] \notin {"write", "commit"},
         \A q \in Requests : q # r => pc'[q] = pc[q] /\ req'[q] = req[q]
  PROVE  TreeInv'
<1>1. \A s \in Slugs, q \in Requests : (Pending(q, s) => Pending(q, s)')
                                       /\ (Deleting(q, s) => Deleting(q, s)')
  BY DEF Pending, Deleting, Slug, Kind, Active, Busy
<1>2. QED BY <1>1 DEF TreeInv, GitKeepsUp

\* A step of r that puts f into its file, which it is to commit.
LEMMA PutKept ==
  ASSUME TypeOK, TreeInv, NEW r \in Requests, NEW f, PutFile(r, f),
         UNCHANGED <<index, head, orphan, req>>,
         pc'[r] \in {"write", "commit"},
         f = NoFile => pc'[r] = "commit" /\ Kind(r) = "delete",
         pc[r] = "commit" => pc'[r] = "commit",
         \A q \in Requests : q # r => pc'[q] = pc[q]
  PROVE  TreeInv'
<1>1. \A s \in Slugs, q \in Requests : (Pending(q, s) => Pending(q, s)')
                                       /\ (Deleting(q, s) => Deleting(q, s)')
  BY DEF Pending, Deleting, Slug, Kind
<1>2. \A s \in Slugs : s = Slug(r) => Pending(r, s)' /\ (f = NoFile => Deleting(r, s)')
  BY DEF Pending, Deleting, Slug, Kind
<1>3. file'[Slug(r)] = f /\ \A s \in Slugs : s # Slug(r) => file'[s] = file[s]
  BY DEF PutFile, TypeOK, Slug, Request
<1>4. SUFFICES ASSUME NEW s \in Slugs PROVE Kept(head, s)' /\ Kept(index, s)'
  BY TreeByKept DEF TreeInv, GitKeepsUp, Kept
<1>5. Kept(index, s) /\ Kept(head, s) BY DEF TreeInv, GitKeepsUp, Kept
<1>6. CASE s = Slug(r) BY <1>2, <1>3, <1>6 DEF Kept
<1>7. CASE s # Slug(r) BY <1>1, <1>3, <1>5, <1>7 DEF Kept
<1>8. QED BY <1>6, <1>7

LEMMA CommitKept ==
  ASSUME TypeOK, TreeInv, NEW r \in Requests, Placed(r), Commit(r)
  PROVE  TreeInv'
<1>1. file' = Tree(r) /\ Staged(r, Tree(r)) \in [Slugs -> File] BY TreeTyped DEF Commit
<1>2. /\ head' = Staged(r, Tree(r)) /\ index' = Staged(r, Tree(r))
      /\ orphan' = [s \in Slugs |-> orphan[s] /\ Staged(r, Tree(r))[s] # Tree(r)[s]]
      /\ req' = req /\ \A q \in Requests : q # r => pc'[q] = pc[q]
  BY DEF Commit, Tree, Answer, Goto, TypeOK
<1>3. SUFFICES ASSUME NEW s \in Slugs PROVE Kept(head, s)' /\ Kept(index, s)'
  BY TreeByKept DEF TreeInv, GitKeepsUp, Kept
<1>4. CASE StagesAll(r) \/ s = Slug(r)
  <2>1. Staged(r, Tree(r))[s] = Tree(r)[s]
    BY <1>4 DEF Staged, TypeOK
  <2>2. QED BY <1>1, <1>2, <2>1 DEF Kept
<1>5. CASE ~StagesAll(r) /\ s # Slug(r)
  <2>1. Staged(r, Tree(r))[s] = index[s] /\ Tree(r)[s] = file[s]
    BY <1>5 DEF Staged, Tree, TypeOK
  <2>2. /\ \A q \in Requests : Pending(q, s) => Pending(q, s)'
        /\ \A q \in Requests : Deleting(q, s) => Deleting(q, s)'
    BY <1>2, <1>5 DEF Pending, Deleting, Slug, Kind
  <2>3. Kept(index, s) BY DEF TreeInv, Kept
  <2>4. QED BY <1>1, <1>2, <2>1, <2>2, <2>3 DEF Kept
<1>6. QED BY <1>4, <1>5

LEMMA FailedStagedKept ==
  ASSUME TypeOK, TreeInv, NEW r \in Requests, CommitFailsStaged(r)
  PROVE  TreeInv'
<1>1. file' = Tree(r) /\ Staged(r, Tree(r)) \in [Slugs -> File]
  BY TreeTyped DEF CommitFailsStaged
<1>2. /\ index' = Staged(r, Tree(r)) /\ head' = head /\ req' = req
      /\ orphan' = [orphan EXCEPT ![Slug(r)] = TRUE]
      /\ \A q \in Requests : q # r => pc'[q] = pc[q]
  BY DEF CommitFailsStaged, Tree, Answer, Goto, TypeOK
<1>3. Slug(r) \in Slugs BY DEF TypeOK, Slug, Request
<1>4. SUFFICES ASSUME NEW s \in Slugs PROVE Kept(head, s)' /\ Kept(index, s)'
  BY TreeByKept DEF TreeInv, GitKeepsUp, Kept
<1>5. CASE s = Slug(r) BY <1>2, <1>5 DEF Kept, TypeOK
<1>6. CASE s # Slug(r)
  <2>1. Tree(r)[s] = file[s] /\ Staged(r, Tree(r))[s] \in {file[s], index[s]}
    BY <1>6 DEF Staged, Tree, TypeOK
  <2>2. /\ \A q \in Requests : Pending(q, s) => Pending(q, s)'
        /\ \A q \in Requests : Deleting(q, s) => Deleting(q, s)'
    BY <1>2, <1>6 DEF Pending, Deleting, Slug, Kind
  <2>3. Kept(index, s) /\ Kept(head, s) BY DEF TreeInv, GitKeepsUp, Kept
  <2>4. orphan'[s] = orphan[s] BY <1>2, <1>6 DEF TypeOK
  <2>5. QED BY <1>1, <1>2, <2>1, <2>2, <2>3, <2>4 DEF Kept
<1>7. QED BY <1>5, <1>6

\* There is nothing to add only if the file is gone, and the request that
\* deletes it is another one.
LEMMA SkippedKept ==
  ASSUME TypeOK, TreeInv, NEW r \in Requests, CommitSkipped(r)
  PROVE  TreeInv'
<1>1. /\ UNCHANGED <<file, head, index, req>>
      /\ orphan' = [orphan EXCEPT ![Slug(r)] = @ \/ ~AddFails(r) \/ detached]
      /\ \A q \in Requests : q # r => pc'[q] = pc[q]
  BY DEF CommitSkipped, gitvars, Answer, Goto, TypeOK
<1>2. Slug(r) \in Slugs BY DEF TypeOK, Slug, Request
<1>3. SUFFICES ASSUME NEW s \in Slugs PROVE Kept(head, s)' /\ Kept(index, s)'
  BY TreeByKept DEF TreeInv, GitKeepsUp, Kept
<1>4. Kept(index, s) /\ Kept(head, s) BY DEF TreeInv, GitKeepsUp, Kept
<1>5. CASE s # Slug(r)
  BY <1>1, <1>4, <1>5 DEF Kept, Pending, Deleting, Slug, Kind, TypeOK
<1>6. CASE s = Slug(r) /\ AddFails(r) /\ ~detached
  <2>1. file[s] = NoFile /\ index[s] = NoFile /\ Kind(r) # "delete"
    BY <1>6 DEF AddFails, Here
  <2>2. \A q \in Requests : Deleting(q, s) => Deleting(q, s)' /\ Pending(q, s)'
    BY <1>1, <2>1 DEF Deleting, Pending, Slug, Kind
  <2>3. orphan[s] => orphan'[s] BY <1>1, <1>2, <1>6 DEF TypeOK
  <2>4. QED BY <1>1, <1>4, <2>1, <2>2, <2>3 DEF Kept
<1>7. CASE s = Slug(r) /\ (~AddFails(r) \/ detached)
  <2>1. orphan'[s] BY <1>1, <1>2, <1>7 DEF TypeOK
  <2>2. QED BY <2>1 DEF Kept
<1>8. QED BY <1>5, <1>6, <1>7

LEMMA FailedWriteKept ==
  ASSUME TypeOK, TreeInv, NEW r \in Requests, WriteFails(r)
  PROVE  TreeInv'
<1>1. /\ UNCHANGED <<file, head, index, req>>
      /\ orphan' = [orphan EXCEPT ![Slug(r)] = TRUE]
      /\ \A q \in Requests : q # r => pc'[q] = pc[q]
  BY DEF WriteFails, gitvars, Answer, Goto, TypeOK
<1>2. SUFFICES ASSUME NEW s \in Slugs PROVE Kept(head, s)' /\ Kept(index, s)'
  BY TreeByKept DEF TreeInv, GitKeepsUp, Kept
<1>3. Kept(index, s) /\ Kept(head, s) BY DEF TreeInv, GitKeepsUp, Kept
<1>4. CASE s = Slug(r) BY <1>1, <1>4 DEF Kept, TypeOK
<1>5. CASE s # Slug(r)
  BY <1>1, <1>3, <1>5 DEF Kept, Pending, Deleting, Slug, Kind, TypeOK
<1>6. QED BY <1>4, <1>5

\* Who truncates or writes is to commit, and who removes is to commit that.
LEMMA WritingKept ==
  ASSUME TypeOK, TreeInv, NEW r \in Requests, Placed(r), Truncate(r) \/ Write(r) \/ Remove(r)
  PROVE  TreeInv'
<1>1. /\ UNCHANGED <<index, head, orphan, req>>
      /\ pc[r] # "commit"
      /\ \A q \in Requests : q # r => pc'[q] = pc[q]
  BY DEF Truncate, Write, Remove, gitvars, Goto, TypeOK
<1>2. CASE Truncate(r)
  BY <1>1, <1>2, PutKept, FileKinds DEF Truncate, Goto, TypeOK
<1>3. CASE Write(r)
  <2>1. copy[r] \in WholeFiles BY <1>3, FileKinds DEF Write, Placed, Holds, TypeOK
  <2>2. [copy[r] EXCEPT !.text = Mixed] \in WholeFiles
    <3>1. Mixed \in Texts /\ "idea" \in Statuses BY DEF Texts, Statuses
    <3>2. QED BY <2>1, <3>1, Remade
  <2>3. PICK f \in WholeFiles : PutFile(r, f) BY <1>3, <2>1, <2>2 DEF Write
  <2>4. f # NoFile BY FileKinds
  <2>5. pc'[r] = "commit" BY <1>3 DEF Write, Goto, TypeOK
  <2>6. QED BY <1>1, <2>3, <2>4, <2>5, PutKept
<1>4. CASE Remove(r)
  <2>1. Kind(r) = "delete" /\ pc'[r] = "commit" /\ PutFile(r, NoFile)
    BY <1>4 DEF Remove, Placed, Goto, TypeOK
  <2>2. QED BY <1>1, <2>1, PutKept
<1>5. QED BY <1>2, <1>3, <1>4

\* A restart orphans what was about to be committed.
LEMMA RestartKept ==
  ASSUME TypeOK, TreeInv, Restart
  PROVE  TreeInv'
<1>1. /\ UNCHANGED <<file, head, index>>
      /\ orphan' = [s \in Slugs |-> orphan[s] \/
                     \E r \in Requests : pc[r] \in {"write", "commit"} /\ Slug(r) = s]
  BY DEF Restart, gitvars
<1>2. SUFFICES ASSUME NEW s \in Slugs PROVE Kept(head, s)' /\ Kept(index, s)'
  BY TreeByKept DEF TreeInv, GitKeepsUp, Kept
<1>3. Kept(index, s) /\ Kept(head, s) BY DEF TreeInv, GitKeepsUp, Kept
<1>4. orphan[s] \/ (\E r \in Requests : Pending(r, s) \/ Deleting(r, s)) => orphan'[s]
  BY <1>1 DEF Pending, Deleting
<1>5. QED BY <1>1, <1>3, <1>4 DEF Kept

LEMMA TreeKept ==
  ASSUME TypeOK, TreeInv, \A r \in Requests : Placed(r), [Next]_vars
  PROVE  TreeInv'
<1>1. ASSUME NEW r \in Requests, Step(r) PROVE TreeInv'
  <2>1. CASE ReceiveAny(r)
    <3>1. /\ UNCHANGED <<file, index, head, orphan>> /\ pc[r] = "idle"
          /\ \A q \in Requests : q # r => pc'[q] = pc[q] /\ req'[q] = req[q]
      BY <2>1 DEF ReceiveAny, Receive, gitvars, Goto, TypeOK
    <3>2. QED BY <3>1, QuietKept
  <2>2. CASE StatForCreate(r) \/ Taken(r) \/ StatForUpdate(r) \/ Gone(r) \/ Load(r)
               \/ LoadRefused(r) \/ Snapshot(r) \/ SnapshotRefused(r) \/ Reread(r)
               \/ RereadRefused(r) \/ Describe(r) \/ Scan(r) \/ ScanRefused(r)
               \/ RemoveRefused(r)
    <3>1. /\ UNCHANGED <<file, index, head, orphan, req>> /\ pc[r] \notin {"write", "commit"}
      BY <2>2 DEF StatForCreate, Taken, StatForUpdate, Gone, Load, LoadRefused, Snapshot,
             SnapshotRefused, Reread, RereadRefused, Describe, Scan, ScanRefused,
             RemoveRefused, Refuse, gitvars, history
    <3>2. \A q \in Requests : q # r => pc'[q] = pc[q] /\ req'[q] = req[q]
      BY <2>2, <3>1 DEF StatForCreate, Taken, StatForUpdate, Gone, Load, LoadRefused, Snapshot,
             SnapshotRefused, Reread, RereadRefused, Describe, Scan, ScanRefused,
             RemoveRefused, Refuse, Answer, Goto, TypeOK
    <3>3. QED BY <3>1, <3>2, QuietKept
  <2>3. CASE Truncate(r) \/ Write(r) \/ Remove(r) BY <2>3, WritingKept
  <2>4. CASE WriteFails(r) BY <2>4, FailedWriteKept
  <2>5. CASE Commit(r) \/ CommitSkipped(r) \/ CommitFailsStaged(r)
    BY <2>5, CommitKept, SkippedKept, FailedStagedKept
  <2>6. QED BY <1>1, <2>1, <2>2, <2>3, <2>4, <2>5 DEF Step
<1>2. CASE Restart BY <1>2, RestartKept
<1>3. CASE UNCHANGED vars
  BY <1>3 DEF vars, gitvars, history, TreeInv, GitKeepsUp, Pending, Deleting, Slug, Kind
<1>4. QED BY <1>1, <1>2, <1>3 DEF Next

-------------------------------------------------------------------------------
(* The theorems.                                                           *)

LEMMA InitHolds == Init => IInv
<1>1. SUFFICES ASSUME Init PROVE IInv OBVIOUS
<1>2. TypeOK BY <1>1, InitTyped
<1>3. TreeInv
  <2>1. PICK tracked \in SUBSET Slugs :
          /\ head = [s \in Slugs |-> IF s \in tracked THEN file[s] ELSE NoFile]
          /\ orphan = [s \in Slugs |-> s \notin tracked /\ file[s] # NoFile]
    BY <1>1 DEF Init
  <2>2. index = head BY <1>1 DEF Init
  <2>3. QED BY <2>1, <2>2 DEF TreeInv, GitKeepsUp
<1>4. \A r \in Requests : Placed(r) /\ Alone(r) BY <1>1 DEF Init, Placed, Holds, Alone
<1>5. QED BY <1>2, <1>3, <1>4 DEF IInv

LEMMA NextKeeps == IInv /\ [Next]_vars => IInv'
BY TypeHolds, TreeKept, StepAlone DEF IInv

LEMMA Invariant == Spec => []IInv
<1>1. QED BY InitHolds, NextKeeps, PTL DEF Spec

\* What differs from the last commit is still going to be committed, or was
\* orphaned by a fault: no change is left behind by requests that meet on a file.
THEOREM HistoryKeepsUp == Spec => []FilesInv
<1>1. IInv => FilesInv BY DEF IInv, TreeInv, FilesInv
<1>2. QED BY <1>1, Invariant, PTL

\* The steps that answer "ok" are those of the commit, and r itself takes them.
LEMMA WhoSucceeds ==
  ASSUME TypeOK, [Next]_vars, NEW r \in Requests, Succeeds(r)
  PROVE  /\ Commit(r) \/ CommitSkipped(r) \/ CommitFailsStaged(r)
         /\ pc[r] = "commit"
<1>1. Active(r) /\ pc'[r] = "ok" /\ pc[r] # "ok" BY DEF Succeeds, Active, Busy
<1>2. PICK q \in Requests : Step(q)
  BY <1>1 DEF Next, Restart, vars, TypeOK
<1>3. q = r BY <1>1, <1>2, OthersKept DEF Local
<1>4. CASE ReceiveAny(r) BY <1>1, <1>4 DEF ReceiveAny, Receive, Active, Busy
<1>5. CASE Commit(r) \/ CommitSkipped(r) \/ CommitFailsStaged(r)
  BY <1>5 DEF Commit, CommitSkipped, CommitFailsStaged
<1>6. QED BY <1>1, <1>2, <1>3, <1>4, <1>5
          DEF Step, StatForCreate, Taken, StatForUpdate, Gone, Load, LoadRefused, Snapshot,
              SnapshotRefused, Reread, RereadRefused, Describe, Scan, ScanRefused,
              RemoveRefused, Truncate, Write, WriteFails, Remove, Refuse, Answer, Goto, TypeOK

LEMMA AckIsCommitted ==
  ASSUME IInv, [Next]_vars, NEW r \in Requests,
         Succeeds(r), faults' = faults, ~detached
  PROVE  IF Kind(r) = "delete" THEN head'[Slug(r)] = NoFile
         ELSE copy[r] \in past'[Slug(r)] /\ head'[Slug(r)] = copy[r]
<1>1. /\ TypeOK /\ Placed(r) /\ Alone(r) /\ ~raced[r]
      /\ Commit(r) \/ CommitSkipped(r) \/ CommitFailsStaged(r)
      /\ pc[r] = "commit" /\ faults \in Nat /\ Slug(r) \in Slugs
  BY WhoSucceeds, FilesAssumption DEF IInv, Succeeds, TypeOK, Slug, Request
<1>2. Here(r) = IF Kind(r) = "delete" THEN NoFile ELSE copy[r] BY <1>1 DEF Alone
<1>3. Kind(r) # "delete" => copy[r] # NoFile
  BY <1>1 DEF Placed, Holds, NoFile
<1>4. Commit(r)
  <2>1. faults + 1 # faults BY <1>1
  <2>2. ~AddFails(r) BY <1>2, <1>3 DEF AddFails
  <2>3. QED BY <1>1, <2>1, <2>2 DEF CommitSkipped, CommitFailsStaged
<1>5. Staged(r, Tree(r))[Slug(r)] = Tree(r)[Slug(r)]
  BY <1>1 DEF Staged, TypeOK
<1>6. Tree(r)[Slug(r)] = Here(r)
  BY <1>1, <1>2 DEF Tree, Unlinks, Here, TypeOK
<1>7. /\ head' = Staged(r, Tree(r))
      /\ past' = [s \in Slugs |-> past[s] \cup ({Staged(r, Tree(r))[s]} \ {NoFile})]
  BY <1>4 DEF Commit, Tree
<1>8. QED BY <1>1, <1>2, <1>3, <1>5, <1>6, <1>7

\* Who had the file to itself and was told "ok" is in the history.
THEOREM AcknowledgedIsCommitted == Spec => RacelessAckIsCommitted
<1>1. IInv /\ [Next]_vars =>
        [\A r \in Requests : Succeeds(r) /\ faults' = faults /\ ~detached =>
           IF Kind(r) = "delete" THEN head'[Slug(r)] = NoFile
           ELSE copy[r] \in past'[Slug(r)] /\ head'[Slug(r)] = copy[r]]_vars
  BY AckIsCommitted
<1>2. QED BY <1>1, Invariant, PTL DEF Spec, RacelessAckIsCommitted

LEMMA WriteIsExact ==
  ASSUME IInv, [Next]_vars, NEW r \in Requests,
         Succeeds(r), Kind(r) \in {"update", "revert", "setstatus"}
  PROVE  /\ file'[Slug(r)].id = seen[r].id
         /\ Kind(r) # "setstatus" => file'[Slug(r)].status = seen[r].status
         /\ Kind(r) = "setstatus" => file'[Slug(r)].text = seen[r].text
<1>1. /\ Alone(r) /\ ~raced[r] /\ pc[r] = "commit" /\ Kind(r) # "delete"
      /\ Commit(r) \/ CommitSkipped(r) \/ CommitFailsStaged(r)
  BY WhoSucceeds DEF IInv, Succeeds
<1>2. Exact(r, seen[r]) /\ Here(r) = copy[r] BY <1>1 DEF Alone, Writes
<1>3. file' = file BY <1>1 DEF Commit, CommitSkipped, CommitFailsStaged, Unlinks
<1>4. QED BY <1>2, <1>3 DEF Exact, Here

\* Who had the file to itself leaves there what it did not name as it found it.
THEOREM WritesNothingElse == Spec => RacelessWriteIsExact
<1>1. IInv /\ [Next]_vars =>
        [\A r \in Requests : Succeeds(r) /\ Kind(r) \in {"update", "revert", "setstatus"} =>
           /\ file'[Slug(r)].id = seen[r].id
           /\ Kind(r) # "setstatus" => file'[Slug(r)].status = seen[r].status
           /\ Kind(r) = "setstatus" => file'[Slug(r)].text = seen[r].text]_vars
  BY WriteIsExact
<1>2. QED BY <1>1, Invariant, PTL DEF Spec, RacelessWriteIsExact

===============================================================================
