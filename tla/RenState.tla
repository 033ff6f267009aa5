------------------------------- MODULE RenState -------------------------------
(***************************************************************************)
(* What the Master, its Followers and their disks say of one media folder, *)
(* and what must be true of it when no rename of it is under way.          *)
(* DirectoryRename says how it changes.                                    *)
(***************************************************************************)
EXTENDS Naturals, FiniteSets

CONSTANTS
    FolderNames,   \* the names the folder is given
    Home,          \* the member that stores a file
    Local          \* the Master itself

ASSUME RenConstants ==
    /\ "none" \notin FolderNames
    /\ Local # "none" /\ \A x \in DOMAIN Home : Home[x] # "none"

VARIABLES
    entry,     \* at the Master: a file's upload session or catalog row
    native,    \* the name in the Follower's media_objects, "none" without a row
    disk,      \* the name of the directory that holds the file, or "none"
    dirs,      \* the directories of each member
    rename,    \* the handler at the Master
    requests,  \* requests the Followers have not begun
    serving,   \* at each Follower: the request whose directory it has moved
    astray,    \* members that a rename may have left under another name than the catalog's
    renames, troubles

renvars == <<entry, native, disk, dirs, rename, requests, serving, astray, renames, troubles>>

Idle == rename.phase = "idle"

Stored(x) == entry[x].state \in {"active", "pending_delete"}
InPlace(x) ==
    /\ disk[x] = entry[x].name
    /\ Home[x] # Local => native[x] = entry[x].name

-----------------------------------------------------------------------------
\* Whichever step is refused or fails, a rename that has ended is whole: on every
\* member the directory and both rows of each stored file bear one name, and what
\* was deleted or released left no bytes behind.  Only the members a rename gave
\* up on, or never knew of, may differ, and their trouble stays theirs.
Whole ==
    Idle => \A x \in DOMAIN entry : Home[x] \notin astray =>
              /\ Stored(x) => InPlace(x)
              /\ entry[x].state = "gone" => disk[x] = "none"

\* While directories are moved no upload is open under either name, so no file
\* arrives behind the move or is published under a name its directory has lost.
NoUploadBehind ==
    rename.phase \in {"move", "undo"} =>
        \A x \in DOMAIN entry :
            entry[x].state = "reserved" => entry[x].name \notin {rename.from, rename.to}

\* The two together: a rename that has ended, well or badly, is whole.
RenameSound == Whole /\ NoUploadBehind

=============================================================================
