-------------------------- MODULE LocalPublication --------------------------
(* Uploads to the Master's own disk that want one media path one after the     *)
(* other (_receive_master_local in app/api/v1/admin_cluster_integrity.py), the *)
(* journal that makes a publication recoverable                                *)
(* (app/services/media_publication_recovery.py), the clean-up of reservations  *)
(* and the deletion of published files (app/api/v1/admin_delete_integrity.py). *)
(*                                                                             *)
(* A kernel lease per upload admits one operation at a time: op is its phase.  *)
(* The fence is media_mutation_lock (MediaFence): a publication holds it       *)
(* exclusively, requests hold it shared, the background deletion loop does not *)
(* take it.  Crashes are deaths of the process; fsync is left out with them.   *)
EXTENDS LocalState

CONSTANTS
  Size,          \* expected_bytes of each upload
  Deleters,      \* tasks that run retry_pending_media
  Crews,         \* which of them take part: by request, or as the background
                 \*   loop, which takes no fence
  MaxFaults      \* bound on crashes, lost acknowledgements and failing steps

NoDelete == [upload |-> NoUpload, step |-> "idle"]

Init ==
  /\ session = [u \in Uploads |-> "new"]
  /\ catalog = [u \in Uploads |-> "none"]
  /\ target = NoUpload
  /\ part = {} /\ journal = {} /\ torn = {}
  /\ op = [u \in Uploads |-> "idle"]
  /\ fence = NoUpload
  /\ deleting = [d \in Deleters |-> NoDelete]
  /\ required = FALSE /\ up = TRUE /\ faults = 0
  /\ crew \in Crews

Fault == faults < MaxFaults /\ faults' = faults + 1
NoFault == UNCHANGED faults

Pending == journal \cup torn

(* ensure_media_mutations_ready, inside a section of the fence.                *)
Ready == up /\ ~required /\ Pending = {}
SharedOpen == up /\ fence = NoUpload

(* Mutant: a publication does not wait for the shared sections.                *)
ExclusiveOverShared == SharedOpen

ExclusiveOpen == SharedOpen /\ \A d \in crew.request : deleting[d] = NoDelete

Step(u, step) == op' = [op EXCEPT ![u] = step]
Owned == \E v \in Uploads :
  \/ session[v] = "reserved"
  \/ catalog[v] \in {"active", "pending_delete"}

-----------------------------------------------------------------------------
(* create_upload_session, under the shared fence.                              *)
Reserve(u) ==
  /\ SharedOpen /\ Ready
  /\ session[u] = "new" /\ ~Owned
  /\ session' = [session EXCEPT ![u] = "reserved"]
  /\ UNCHANGED <<catalog, files, memory>> /\ NoFault

(* upload_session_bytes opens the staging file, unless the path or the file    *)
(* exists already: then it goes straight to its clean-up.                      *)
Receive(u) ==
  /\ up /\ op[u] = "idle" /\ session[u] = "reserved"
  /\ IF target = NoUpload /\ u \notin part
       THEN part' = part \cup {u} /\ Step(u, "receive")
       ELSE part' = (IF target = NoUpload THEN part \ {u} ELSE part) /\ Step(u, "clean")
  /\ UNCHANGED <<database, target, journal, torn, fence, deleting, required, up, crew>> /\ NoFault

(* The stream breaks or the content is refused; or, once in the fence,         *)
(* mutations are not ready or the path is taken.                               *)
ReceiveFails(u) ==
  /\ op[u] = "receive"
  /\ \/ Fault
     \/ /\ ExclusiveOpen /\ ~(Ready /\ target = NoUpload)
        /\ NoFault
  /\ part' = part \ {u}
  /\ Step(u, "clean")
  /\ UNCHANGED <<database, target, journal, torn, fence, deleting, required, up, crew>>

EnterFence(u) ==
  /\ op[u] = "receive" /\ ExclusiveOpen /\ Ready /\ target = NoUpload
  /\ fence' = u
  /\ Step(u, "fenced")
  /\ UNCHANGED <<database, files, deleting, required, up, crew>> /\ NoFault

(* publication.create: the file appears, then its content.                     *)
CreateJournal(u) ==
  /\ op[u] = "fenced"
  /\ torn' = torn \cup {u}
  /\ Step(u, "writing")
  /\ UNCHANGED <<database, target, part, journal, fence, deleting, required, up, crew>> /\ NoFault

WriteJournal(u) ==
  /\ op[u] = "writing"
  /\ torn' = torn \ {u} /\ journal' = journal \cup {u}
  /\ Step(u, "journaled")
  /\ UNCHANGED <<database, target, part, fence, deleting, required, up, crew>> /\ NoFault

(* os.link never replaces an inode.                                            *)
Link(u) ==
  /\ op[u] = "journaled"
  /\ IF target = NoUpload
       THEN target' = u /\ Step(u, "linked")
       ELSE UNCHANGED target /\ Step(u, "abort")
  /\ UNCHANGED <<database, part, journal, torn, fence, deleting, required, up, crew>> /\ NoFault

Registered(u) ==
  /\ session' = [session EXCEPT ![u] = "complete"]
  /\ catalog' = [catalog EXCEPT ![u] = "active"]

FinalizeUpload(u) ==
  /\ op[u] = "linked"
  /\ Registered(u)
  /\ Step(u, "committed")
  /\ UNCHANGED <<files, fence, deleting, required, up, crew>> /\ NoFault

(* Mutant: the published file is not undone.                                   *)
PublishFailsKeeps(u) ==
  /\ op[u] \in {"fenced", "writing", "journaled", "linked"} /\ Fault
  /\ Step(u, "abort")
  /\ UNCHANGED <<database, files, fence, deleting, required, up, crew>>

(* Any step up to the commit fails before its effect, the commit by rolling    *)
(* back: what was published and journaled is undone.                           *)
PublishFails(u) ==
  /\ op[u] \in {"fenced", "writing", "journaled", "linked"} /\ Fault
  /\ Step(u, IF op[u] = "linked" THEN "undo" ELSE "abort")
  /\ UNCHANGED <<database, files, fence, deleting, required, up, crew>>

(* The end of every publication: the fence is left and the finally clause      *)
(* removes the staging file.                                                   *)
LeaveFence(u) ==
  /\ fence' = NoUpload
  /\ part' = part \ {u}

(* PublicationCommitUnknown.                                                   *)
CommitUnknown(u) ==
  /\ op[u] = "linked" /\ Fault
  /\ Registered(u) \/ UNCHANGED database
  /\ required' = TRUE
  /\ LeaveFence(u) /\ Step(u, "clean")
  /\ UNCHANGED <<target, journal, torn, deleting, up, crew>>

Unstage(u) ==
  /\ op[u] = "committed"
  /\ part' = part \ {u}
  /\ Step(u, "unstaged")
  /\ UNCHANGED <<database, target, journal, torn, fence, deleting, required, up, crew>> /\ NoFault

FinishJournal(u) ==
  /\ op[u] = "unstaged"
  /\ journal' = journal \ {u}
  /\ LeaveFence(u) /\ Step(u, "idle")
  /\ UNCHANGED <<database, target, torn, deleting, required, up, crew>> /\ NoFault

Undo(u) ==
  /\ op[u] = "undo" /\ target # NoUpload
  /\ target' = NoUpload
  /\ Step(u, "abort")
  /\ UNCHANGED <<database, part, journal, torn, fence, deleting, required, up, crew>> /\ NoFault

Abort(u) ==
  /\ op[u] = "abort"
  /\ journal' = journal \ {u}
  /\ LeaveFence(u) /\ Step(u, "clean")
  /\ UNCHANGED <<database, target, torn, deleting, required, up, crew>> /\ NoFault

(* A step after the commit, or of the undoing, fails: recovery is required.    *)
FinishFails(u) ==
  /\ op[u] \in {"committed", "unstaged", "undo", "abort"}
  /\ IF op[u] = "undo" /\ target = NoUpload THEN NoFault ELSE Fault
  /\ required' = TRUE
  /\ LeaveFence(u) /\ Step(u, "clean")
  /\ UNCHANGED <<database, target, journal, torn, deleting, up, crew>>

-----------------------------------------------------------------------------
(* cancel_upload_session and the sweep for expired reservations.               *)
StartCleanup(u) ==
  /\ up /\ op[u] = "idle" /\ session[u] = "reserved"
  /\ Step(u, "cancel") \/ Step(u, "sweep")
  /\ UNCHANGED <<database, files, fence, deleting, required, up, crew>> /\ NoFault

(* The MasterLocal branch of _cleanup_upload_session_unlocked.                 *)
Deferred(u) ==
  \/ Pending # {}
  \/ session[u] # "reserved"
  \/ op[u] = "clean" /\ target # NoUpload

CleanupDeferred(u) ==
  /\ op[u] \in {"clean", "cancel", "sweep"} /\ Deferred(u)
  /\ Step(u, "idle")
  /\ UNCHANGED <<database, files, fence, deleting, required, up, crew>> /\ NoFault

(* An expired reservation whose bytes are complete is published; otherwise     *)
(* the bytes go and the reservation after them.                                *)
Cleanup(u) ==
  /\ op[u] \in {"clean", "cancel", "sweep"} /\ ~Deferred(u)
  /\ IF op[u] = "sweep" /\ target # NoUpload /\ Size[target] = Size[u]
       THEN Registered(u) /\ Step(u, "idle") /\ UNCHANGED <<target, part>>
       ELSE /\ target' = NoUpload
            /\ part' = part \ {u}
            /\ Step(u, "release")
            /\ UNCHANGED database
  /\ UNCHANGED <<journal, torn, fence, deleting, required, up, crew>> /\ NoFault

FailUpload(u) ==
  /\ op[u] = "release"
  /\ session' = [session EXCEPT ![u] = "gone"]
  /\ Step(u, "idle")
  /\ UNCHANGED <<catalog, files, fence, deleting, required, up, crew>> /\ NoFault

CleanupFails(u) ==
  /\ op[u] \in {"cancel", "sweep", "clean", "release"} /\ Fault
  /\ Step(u, "idle")
  /\ UNCHANGED <<database, files, fence, deleting, required, up, crew>>

-----------------------------------------------------------------------------

(* Mutant: a delete does not wait for recovery.                                *)
MarkPendingDeleteUnready(u) ==
  /\ SharedOpen /\ catalog[u] = "active"
  /\ catalog' = [catalog EXCEPT ![u] = "pending_delete"]
  /\ UNCHANGED <<session, files, memory>> /\ NoFault

(* mark_pending_delete and, by a request or by the loop, retry_pending_media:  *)
(* the row is read, the path unlinked, the rows removed.                       *)
MarkPendingDelete(u) ==
  /\ SharedOpen /\ Ready /\ catalog[u] = "active"
  /\ catalog' = [catalog EXCEPT ![u] = "pending_delete"]
  /\ UNCHANGED <<session, files, memory>> /\ NoFault

ReadPending(d, u) ==
  /\ up /\ deleting[d] = NoDelete /\ catalog[u] = "pending_delete"
  /\ d \in crew.loop \/ (d \in crew.request /\ SharedOpen /\ Ready)
  /\ deleting' = [deleting EXCEPT ![d] = [upload |-> u, step |-> "read"]]
  /\ UNCHANGED <<database, files, op, fence, required, up, crew>> /\ NoFault

(* Mutant: a missing file fails the deletion.                                  *)
UnlinkPathPresent(d) ==
  /\ deleting[d].step = "read" /\ target # NoUpload
  /\ target' = NoUpload
  /\ deleting' = [deleting EXCEPT ![d].step = "unlinked"]
  /\ UNCHANGED <<database, part, journal, torn, op, fence, required, up, crew>> /\ NoFault

UnlinkPath(d) ==
  /\ deleting[d].step = "read"
  /\ target' = NoUpload
  /\ deleting' = [deleting EXCEPT ![d].step = "unlinked"]
  /\ UNCHANGED <<database, part, journal, torn, op, fence, required, up, crew>> /\ NoFault

SettleDelete(d) ==
  /\ deleting[d].step = "unlinked"
  /\ catalog' = [catalog EXCEPT ![deleting[d].upload] = "deleted"]
  /\ deleting' = [deleting EXCEPT ![d] = NoDelete]
  /\ UNCHANGED <<session, files, op, fence, required, up, crew>> /\ NoFault

DeleteFails(d) ==
  /\ deleting[d] # NoDelete /\ Fault
  /\ deleting' = [deleting EXCEPT ![d] = NoDelete]
  /\ UNCHANGED <<database, files, op, fence, required, up, crew>>

-----------------------------------------------------------------------------
Stop ==
  /\ op' = [u \in Uploads |-> "idle"]
  /\ fence' = NoUpload
  /\ deleting' = [d \in Deleters |-> NoDelete]
  /\ required' = FALSE
  /\ up' = FALSE
  /\ UNCHANGED <<database, files, crew>>

Crash == Fault /\ Stop

(* "Restart the Web service" is what ensure_media_mutations_ready asks for.    *)
OperatorRestart ==
  /\ SharedOpen /\ ~Ready
  /\ Stop /\ NoFault

(* recover_master_local at start-up, one effect at a time; a journal that      *)
(* proves neither outcome, or cannot be read, stops the start-up.              *)
Recovering(u) == ~up /\ u \in journal

DiscardStaged(u) ==
  /\ Recovering(u) /\ u \in part
  /\ Committed(u) \/ Uncommitted(u)
  /\ part' = part \ {u}
  /\ UNCHANGED <<database, target, journal, torn, memory>> /\ NoFault

RollBack(u) ==
  /\ Recovering(u) /\ Uncommitted(u) /\ u \notin part /\ session[u] = "reserved"
  /\ IF target = u
       THEN target' = NoUpload /\ UNCHANGED session
       ELSE session' = [session EXCEPT ![u] = "gone"] /\ UNCHANGED target
  /\ UNCHANGED <<catalog, part, journal, torn, memory>> /\ NoFault

RecoveryDone(u) ==
  /\ Recovering(u) /\ u \notin part
  /\ \/ Committed(u)
     \/ Uncommitted(u) /\ session[u] = "gone" /\ target = NoUpload
  /\ journal' = journal \ {u}
  /\ UNCHANGED <<database, target, part, torn, memory>> /\ NoFault

Boot ==
  /\ ~up /\ Pending = {}
  /\ up' = TRUE
  /\ UNCHANGED <<database, files, op, fence, deleting, required, crew>> /\ NoFault

-----------------------------------------------------------------------------
Publication(u) ==
  \/ EnterFence(u) \/ CreateJournal(u) \/ WriteJournal(u) \/ Link(u)
  \/ FinalizeUpload(u) \/ Unstage(u) \/ FinishJournal(u) \/ Undo(u) \/ Abort(u)

Failure(u) ==
  \/ ReceiveFails(u) \/ PublishFails(u) \/ CommitUnknown(u) \/ FinishFails(u)
  \/ CleanupFails(u)

Recovery(u) == DiscardStaged(u) \/ RollBack(u) \/ RecoveryDone(u)

Next ==
  \/ \E u \in Uploads :
       \/ Reserve(u) \/ Receive(u) \/ Publication(u) \/ Failure(u)
       \/ StartCleanup(u) \/ CleanupDeferred(u) \/ Cleanup(u) \/ FailUpload(u)
       \/ MarkPendingDelete(u) \/ Recovery(u)
       \/ \E d \in Deleters : ReadPending(d, u)
  \/ \E d \in Deleters : UnlinkPath(d) \/ SettleDelete(d) \/ DeleteFails(d)
  \/ Crash \/ OperatorRestart \/ Boot

Spec == Init /\ [][Next]_localvars

(* What goes on by itself: operations under way, the sweep, the deletion loop, *)
(* start-up recovery, and the operator's restart when recovery is required.    *)
Fairness ==
  /\ \A u \in Uploads :
       /\ WF_localvars(Publication(u))
       /\ WF_localvars(ReceiveFails(u)) /\ WF_localvars(FinishFails(u))
       /\ WF_localvars(CleanupDeferred(u) \/ Cleanup(u) \/ FailUpload(u))
       /\ WF_localvars(StartCleanup(u)) /\ WF_localvars(Recovery(u))
       /\ \A d \in Deleters : WF_localvars(d \in crew.loop /\ ReadPending(d, u))
  /\ \A d \in Deleters : /\ WF_localvars(UnlinkPath(d))
                         /\ WF_localvars(SettleDelete(d))
  /\ WF_localvars(OperatorRestart) /\ WF_localvars(Boot)

(* A client could take the lease before every sweep: clients stop asking.      *)
ClientsStop == \A u \in Uploads : <>[][~Receive(u)]_localvars

FairSpec == Spec /\ Fairness /\ ClientsStop

-----------------------------------------------------------------------------
(* A file the catalog serves is on disk: no failure of its publication, lost   *)
(* acknowledgement, crash, recovery or deletion of an earlier file at the same *)
(* path removes it.                                                            *)
PublishedStored == \A u \in Uploads : catalog[u] = "active" => target = u

(* "Refresh, process death and expired credentials cannot strand a unique path *)
(* forever" (ARCHITECTURE.md): a reservation is published or released.         *)
ReservationResolves ==
  \A u \in Uploads : session[u] = "reserved" ~> session[u] \in {"complete", "gone"}

(* The same, and the service comes back, when no crash tore a journal.         *)
RecoversUntorn ==
  \/ []<>(torn # {})
  \/ ReservationResolves /\ (~up ~> up)

(* The loop carries out what a request or a crash left to delete. *)
DeletionConverges ==
  crew.loop # {} =>
    \A u \in Uploads : catalog[u] = "pending_delete" ~> (catalog[u] = "deleted" \/ torn # {})
=============================================================================
