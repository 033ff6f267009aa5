-------------------------- MODULE DirectoryRename --------------------------
(***************************************************************************)
(* The rename of a media folder whose files lie on several members         *)
(* (services/media_directories.py): the Master checks its catalog, moves   *)
(* the folder on one member after the other, rewrites the catalog in one   *)
(* transaction, and moves back what it moved when anything fails.  No      *)
(* journal says that a rename is under way.                                *)
(*                                                                         *)
(*   1. The folder has one of `FolderNames`; a file lies at its Home       *)
(*      under one of them, and its row at the Master and at its Follower   *)
(*      say which.                                                         *)
(*      Files of one folder have several Homes when it has subfolders.     *)
(*   2. A rename holds the Master's fence from the preflight to its end;   *)
(*      a reservation, a mark for deletion and a publication on the        *)
(*      Master's own disk are made inside it, so they wait (MediaFence).   *)
(*      Nothing else waits: a Follower's upload is published, released or  *)
(*      removed by transactions of its own.                                *)
(*   3. A request to a Follower that the Master gave up on may still be    *)
(*      executed.                                                          *)
(*                                                                         *)
(* S3 objects are left out: no key of theirs depends on the folder.        *)
(***************************************************************************)
EXTENDS RenState, Sequences, SequencesExt

CONSTANTS
    Files,             \* the files of the folder
    MaxRenames,        \* bound: renames begun
    MaxFaults          \* bound: lost answers, crashes, failed moves back

Homes(xs) == {Home[x] : x \in xs}
Followers == Homes(Files) \ {Local}
Members == Followers \cup {Local}

NoRename == [phase |-> "idle", from |-> "", to |-> "", owners |-> {}, todo |-> {},
             moved |-> <<>>, waits |-> "none"]
NoRequest == [to |-> "", from |-> "", member |-> "none", awaited |-> FALSE]

\* A folder with files, and files that are to be uploaded to it.
Init ==
    /\ \E stored \in SUBSET Files \ {{}}, n \in FolderNames :
         /\ entry = [x \in Files |-> [state |-> IF x \in stored THEN "active" ELSE "new",
                                      name |-> IF x \in stored THEN n ELSE "none"]]
         /\ disk = [x \in Files |-> entry[x].name]
         /\ native = [x \in Files |-> IF Home[x] = Local THEN "none" ELSE entry[x].name]
         /\ dirs = [m \in Members |-> {entry[x].name : x \in {y \in stored : Home[y] = m}}]
    /\ rename = NoRename
    /\ requests = {}
    /\ serving = [m \in Followers |-> NoRequest]
    /\ astray = {} /\ renames = 0 /\ troubles = 0

Under(state, n) == {x \in Files : entry[x].state = state /\ entry[x].name = n}
Fault == troubles < MaxFaults /\ troubles' = troubles + 1

-----------------------------------------------------------------------------
(* Uploads and deletions                                                   *)

Becomes(x, state) == entry' = [entry EXCEPT ![x].state = state]

\* The row is written under the shared fence.
Reserve(x, n) ==
    /\ Idle /\ entry[x].state = "new"
    /\ entry' = [entry EXCEPT ![x] = [state |-> "reserved", name |-> n]]
    /\ UNCHANGED <<native, disk, dirs, rename, requests, serving, astray, renames, troubles>>

Lands(x) ==
    /\ entry[x].state = "reserved" /\ disk[x] = "none"
    /\ disk' = [disk EXCEPT ![x] = entry[x].name]
    /\ dirs' = [dirs EXCEPT ![Home[x]] = @ \cup {entry[x].name}]

\* A Follower stores the bytes and registers them.
StorageUpload(x) ==
    /\ Home[x] # Local /\ Lands(x)
    /\ native' = [native EXCEPT ![x] = entry[x].name]
    /\ UNCHANGED <<entry, rename, requests, serving, astray, renames, troubles>>

\* The transfer or the proof was answered, and the Master publishes what it was
\* told, outside the fence.
FinalizeUpload(x) ==
    /\ Home[x] # Local /\ entry[x].state = "reserved" /\ native[x] # "none"
    /\ Becomes(x, "active")
    /\ UNCHANGED <<native, disk, dirs, rename, requests, serving, astray, renames, troubles>>

\* On its own disk, inside the exclusive fence.
ReceiveMasterLocal(x) ==
    /\ Idle /\ Home[x] = Local /\ Lands(x)
    /\ Becomes(x, "active")
    /\ UNCHANGED <<native, rename, requests, serving, astray, renames, troubles>>

\* A Follower reconciles inside its own fence, and refuses an upload whose session
\* it knows under another path; then it removes what lies at the path, and its row.
Reconciles(x) ==
    /\ Home[x] # Local => serving[Home[x]] = NoRequest /\ native[x] \in {"none", entry[x].name}
    /\ disk' = [disk EXCEPT ![x] = IF @ = entry[x].name THEN "none" ELSE @]
    /\ native' = [native EXCEPT ![x] = "none"]

CleanupUpload(x) ==
    /\ entry[x].state = "reserved" /\ Becomes(x, "gone")
    /\ Reconciles(x)
    /\ UNCHANGED <<dirs, rename, requests, serving, astray, renames, troubles>>

MarkPendingDelete(x) ==
    /\ Idle /\ entry[x].state = "active" /\ Becomes(x, "pending_delete")
    /\ UNCHANGED <<native, disk, dirs, rename, requests, serving, astray, renames, troubles>>

\* By a request or by the background loop, which does not hold the Master's fence.
RetryPendingMedia(x) ==
    /\ entry[x].state = "pending_delete" /\ Becomes(x, "gone")
    /\ Reconciles(x)
    /\ UNCHANGED <<dirs, rename, requests, serving, astray, renames, troubles>>

-----------------------------------------------------------------------------
(* The Master's handler                                                    *)

Abandon == rename' = NoRename

\* The fences of migration are clear, and the members of the folder's files
\* are read from the catalog; an absent or an offline one refuses the rename.
ReadOwners(from, to) ==
    /\ Idle /\ renames < MaxRenames /\ from # to
    /\ Under("active", from) # {}
    /\ LET owners == Homes(Under("active", from)) IN
         rename' = [NoRename EXCEPT !.phase = "check", !.from = from, !.to = to,
                                    !.owners = owners, !.todo = owners]
    /\ renames' = renames + 1
    /\ UNCHANGED <<entry, native, disk, dirs, requests, serving, astray, troubles>>

\* Mutant: a pending upload does not hold the rename up.
ClearIgnoresUploads(from, to) ==
    /\ Under("pending_delete", from) = {}
    /\ Under("active", to) = {} /\ Under("pending_delete", to) = {}

\* The rest of the preflight, in a transaction of its own.
Clear(from, to) ==
    /\ Under("pending_delete", from) = {}
    /\ Under("active", to) = {} /\ Under("pending_delete", to) = {}
    /\ Under("reserved", from) = {} /\ Under("reserved", to) = {}

Preflight ==
    /\ rename.phase = "check"
    /\ IF Clear(rename.from, rename.to) THEN rename' = [rename EXCEPT !.phase = "move"]
       ELSE Abandon
    /\ UNCHANGED <<entry, native, disk, dirs, requests, serving, astray, renames, troubles>>

\* _rename_physical_directory
Movable(m, from, to) == from \in dirs[m] /\ to \notin dirs[m]

Moves(m, from, to) ==
    /\ dirs' = [dirs EXCEPT ![m] = (@ \ {from}) \cup {to}]
    /\ disk' = [x \in Files |-> IF Home[x] = m /\ disk[x] = from THEN to ELSE disk[x]]

Unasked == rename.waits = "none"

\* A member's move succeeded: it is noted, or struck off when it was a move back.
Succeeded(m) ==
    rename' = IF rename.phase = "undo"
              THEN [rename EXCEPT !.moved = Front(@), !.waits = "none"]
              ELSE [rename EXCEPT !.moved = Append(@, m), !.todo = @ \ {m}, !.waits = "none"]

\* It did not: the others are moved back, or the moving back goes on without it.
Failed(m) ==
    IF rename.phase = "undo"
    THEN /\ rename' = [rename EXCEPT !.moved = Front(@), !.waits = "none"]
         /\ astray' = astray \cup {m}
    ELSE /\ rename' = [rename EXCEPT !.phase = "undo", !.waits = "none"]
         /\ UNCHANGED astray

\* The next member of the loop over the owners, or of the one that moves back.
IsNext(m) ==
    /\ Unasked
    /\ \/ rename.phase = "move" /\ m \in rename.todo
       \/ rename.phase = "undo" /\ rename.moved # <<>> /\ m = Last(rename.moved)

From == IF rename.phase = "undo" THEN rename.to ELSE rename.from
To == IF rename.phase = "undo" THEN rename.from ELSE rename.to

MoveLocal ==
    /\ IsNext(Local)
    /\ IF Movable(Local, From, To)
       THEN Moves(Local, From, To) /\ Succeeded(Local) /\ UNCHANGED astray
       ELSE Failed(Local) /\ UNCHANGED <<dirs, disk>>
    /\ UNCHANGED <<entry, native, requests, serving, renames, troubles>>

\* _remote_rename
RemoteRename(m) ==
    /\ m # Local /\ IsNext(m)
    /\ rename' = [rename EXCEPT !.waits = m]
    /\ requests' = requests \cup {[to |-> To, from |-> From, member |-> m, awaited |-> TRUE]}
    /\ UNCHANGED <<entry, native, disk, dirs, serving, astray, renames, troubles>>

\* The relationship is not active or the Follower is offline.
RemoteUnavailable(m) ==
    /\ m # Local /\ IsNext(m) /\ Failed(m)
    /\ IF rename.phase = "undo" THEN Fault ELSE UNCHANGED troubles
    /\ UNCHANGED <<entry, native, disk, dirs, requests, serving, renames>>

Listed(n) == Under("active", n) \cup Under("pending_delete", n)

RewriteMasterCatalog ==
    entry' = [x \in Files |-> IF x \in Listed(rename.from)
                            THEN [entry[x] EXCEPT !.name = rename.to] ELSE entry[x]]

\* Every row of the folder is rewritten, its member's directory moved or not.
Unmoved == Homes(Listed(rename.from)) \ rename.owners

AllMoved == rename.phase = "move" /\ rename.todo = {} /\ Unasked

Commit ==
    /\ AllMoved
    /\ RewriteMasterCatalog /\ Abandon
    /\ astray' = astray \cup Unmoved
    /\ UNCHANGED <<native, disk, dirs, requests, serving, renames, troubles>>

CommitFails ==
    /\ AllMoved
    /\ rename' = [rename EXCEPT !.phase = "undo"]
    /\ UNCHANGED <<entry, native, disk, dirs, requests, serving, astray, renames, troubles>>

\* The transaction is committed, but the Master's connection broke before it knew.
CommitUnknown ==
    /\ AllMoved /\ Fault
    /\ RewriteMasterCatalog
    /\ rename' = [rename EXCEPT !.phase = "undo"]
    /\ astray' = astray \cup rename.owners \cup Unmoved
    /\ UNCHANGED <<native, disk, dirs, requests, serving, renames>>

\* Everything that could be moved back has been; the administrator sees the error.
UndoEnds ==
    /\ rename.phase = "undo" /\ rename.moved = <<>> /\ Unasked
    /\ Abandon
    /\ UNCHANGED <<entry, native, disk, dirs, requests, serving, astray, renames, troubles>>

-----------------------------------------------------------------------------
(* The Follower's handler (rename_follower_directory)                      *)

\* The answer reaches the Master that still waits for it.
Answers(q, outcome) ==
    IF ~q.awaited THEN UNCHANGED <<rename, astray>>
    ELSE IF outcome = "renamed" THEN Succeeded(q.member) /\ UNCHANGED astray
    ELSE Failed(q.member)

Registered(m, n) == \E x \in Files : Home[x] = m /\ native[x] = n

FollowerMoves(q) ==
    /\ q \in requests /\ serving[q.member] = NoRequest
    /\ ~Registered(q.member, q.to) /\ Movable(q.member, q.from, q.to)
    /\ Moves(q.member, q.from, q.to)
    /\ requests' = requests \ {q}
    /\ serving' = [serving EXCEPT ![q.member] = q]
    /\ UNCHANGED <<entry, native, rename, astray, renames, troubles>>

\* The target is taken, the directory is not there, or the node is not ready.
FollowerRefuses(q) ==
    /\ q \in requests /\ serving[q.member] = NoRequest
    /\ requests' = requests \ {q}
    /\ Answers(q, "refused")
    /\ IF q.awaited /\ rename.phase = "undo" THEN Fault ELSE UNCHANGED troubles
    /\ UNCHANGED <<entry, native, disk, dirs, serving, renames>>

Ends(m) == serving[m] # NoRequest /\ serving' = [serving EXCEPT ![m] = NoRequest]

FollowerCommits(m) ==
    /\ Ends(m)
    /\ LET q == serving[m] IN
         /\ native' = [x \in Files |-> IF Home[x] = m /\ native[x] = q.from THEN q.to
                                       ELSE native[x]]
         /\ Answers(q, "renamed")
    /\ UNCHANGED <<entry, disk, dirs, requests, renames, troubles>>

\* The transaction fails and the directory is moved back.
FollowerFails(m) ==
    /\ Ends(m)
    /\ LET q == serving[m] IN
         /\ IF Movable(m, q.to, q.from) THEN Moves(m, q.to, q.from)
            ELSE UNCHANGED <<disk, dirs>>
         /\ Answers(q, "failed")
         /\ IF q.awaited /\ rename.phase = "undo" THEN Fault ELSE UNCHANGED troubles
    /\ UNCHANGED <<entry, native, requests, renames>>

-----------------------------------------------------------------------------
(* Faults                                                                  *)

\* Nobody waits for this member's answer any more.
Forget(m) ==
    /\ requests' = {[q EXCEPT !.awaited = @ /\ q.member # m] : q \in requests}
    /\ serving' = [f \in Followers |-> IF f = m THEN [serving[f] EXCEPT !.awaited = FALSE]
                                       ELSE serving[f]]

GaveUp(m) ==
    rename' = IF rename.phase = "undo"
              THEN [rename EXCEPT !.moved = Front(@), !.waits = "none"]
              ELSE [rename EXCEPT !.phase = "undo", !.waits = "none"]

\* No answer within ten seconds, or it is lost: the Follower may have moved, or
\* may yet move, and is not asked to move back.
TimesOut ==
    /\ ~Unasked /\ Fault
    /\ LET m == rename.waits IN
         Forget(m) /\ GaveUp(m) /\ astray' = astray \cup {m}
    /\ UNCHANGED <<entry, native, disk, dirs, renames>>

\* The handler is gone with its process, and nothing takes it up again.
MasterCrash ==
    /\ ~Idle /\ Fault
    /\ Forget(rename.waits) /\ Abandon
    /\ astray' = astray \cup ToSet(rename.moved) \cup ({rename.waits} \cap Members)
    /\ UNCHANGED <<entry, native, disk, dirs, renames>>

\* The process dies between the move and the commit of its rows.
FollowerCrash(m) ==
    /\ serving[m] # NoRequest /\ Fault
    /\ serving' = [serving EXCEPT ![m] = NoRequest]
    /\ IF serving[m].awaited THEN GaveUp(m) ELSE UNCHANGED rename
    /\ astray' = astray \cup {m}
    /\ UNCHANGED <<entry, native, disk, dirs, requests, renames>>

Next ==
    \/ \E x \in Files :
         \/ \E n \in FolderNames : Reserve(x, n)
         \/ StorageUpload(x) \/ FinalizeUpload(x) \/ ReceiveMasterLocal(x) \/ CleanupUpload(x)
         \/ MarkPendingDelete(x) \/ RetryPendingMedia(x)
    \/ \E from, to \in FolderNames : ReadOwners(from, to)
    \/ Preflight \/ MoveLocal \/ Commit \/ CommitFails \/ CommitUnknown \/ UndoEnds
    \/ \E m \in Followers : RemoteRename(m) \/ RemoteUnavailable(m) \/ FollowerCommits(m)
                            \/ FollowerFails(m) \/ FollowerCrash(m)
    \/ \E q \in requests : FollowerMoves(q) \/ FollowerRefuses(q)
    \/ TimesOut \/ MasterCrash

Spec == Init /\ [][Next]_renvars

-----------------------------------------------------------------------------
(* Properties                                                              *)

\* "Cross-member folder rename owns the exclusive fence from preflight through
\* commit/rollback" and "a Master coordinates all storage members containing that
\* logical folder" (ARCHITECTURE.md): where nothing is lost and nothing dies, the
\* catalog never says of a file that it lies where it does not.
EveryMemberMoves == Idle => \A x \in Files : Stored(x) => InPlace(x)
=============================================================================
