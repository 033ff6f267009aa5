----------------------------- MODULE LocalState ------------------------------
(* What the database, the Master's disk and its process remember of the        *)
(* uploads to its own disk that want one media path, and what must be true of  *)
(* it.  LocalPublication says how it changes.                                  *)
EXTENDS Naturals

CONSTANTS
  Uploads,       \* upload identities; each is drawn once
  NoUpload

ASSUME NoUploadIsNone == NoUpload \notin Uploads

VARIABLES
  session,     \* upload_sessions.state; "gone" once fail_upload removed the row
  catalog,     \* global_media_objects.state, and its media_objects row with it
  target,      \* whose bytes are at the path
  part,        \* staged .part files
  journal,     \* complete publication journals
  torn,        \* journals created but not written yet
  op,          \* the operation that holds the lease of each upload
  fence,       \* the publication that holds the fence exclusively
  deleting,    \* what each deleter has read and done
  required,    \* MEDIA_ROOT is in _RECOVERY_REQUIRED_ROOTS
  up,          \* start-up recovery is over and requests are served
  crew,        \* the deleters of this run, fixed
  faults

database == <<session, catalog>>
files == <<target, part, journal, torn>>
memory == <<op, fence, deleting, required, up, crew>>
localvars == <<database, files, memory, faults>>

-----------------------------------------------------------------------------
(* What recover_master_local takes for a committed publication, and for one    *)
(* that can be rolled back.                                                    *)
Committed(u) == session[u] = "complete" /\ catalog[u] = "active" /\ target = u

(* Mutant: a publication that never reached its link is not recognised.        *)
UncommittedLinked(u) == catalog[u] = "none" /\ target = u

Uncommitted(u) == catalog[u] = "none" /\ target \in {u, NoUpload}

-----------------------------------------------------------------------------
(* Bytes that no committed row owns are under a journal that recovery will     *)
(* find, unless the process that put them there is still about to undo or      *)
(* commit them.                                                                *)
UncommittedJournaled ==
  \A u \in Uploads : target = u /\ catalog[u] = "none" => u \in journal

(* While a journal is pending nothing else happens to the path: start-up finds *)
(* exactly the publication that was interrupted, and can always decide it.     *)
RecoveryDecides ==
  \A u \in journal :
    \/ Committed(u)
    \/ Uncommitted(u) /\ session[u] \in {"reserved", "gone"}

(* Recovery can tell a committed publication from an abandoned one, and finds  *)
(* every abandoned one.                                                        *)
LocalSound == UncommittedJournaled /\ RecoveryDecides

(* The promise of StorageContract, this time on the Master's own disk.         *)
Stage(u) ==
  CASE session[u] = "new" -> "new"
    [] session[u] = "reserved" -> "reserved"
    [] session[u] = "gone" -> "released"
    [] session[u] = "complete" /\ catalog[u] = "active" -> "published"
    [] session[u] = "complete" /\ catalog[u] = "pending_delete" -> "deleting"
    [] session[u] = "complete" /\ catalog[u] \notin {"active", "pending_delete"} -> "gone"

Contract == INSTANCE StorageContract WITH
  stage <- [u \in Uploads |-> Stage(u)],
  held <- {u \in Uploads : target = u}

(* The Master's own disk keeps the storage contract.                           *)
LocalImplementsContract == Contract!Spec
=============================================================================
