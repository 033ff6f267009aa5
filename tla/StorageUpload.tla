--------------------------- MODULE StorageUpload ----------------------------
(* One Master and one Follower storage member: reservation, transfer,          *)
(* publication, cancellation, expiry and deletion of uploaded objects          *)
(* (app/api/v1/admin_cluster_integrity.py and admin_delete_integrity.py on the *)
(* Master, app/api/internal_storage_integrity.py on the Follower).             *)
(*                                                                             *)
(* On each node one kernel lease per upload (upload_claims.claim) admits one   *)
(* operation at a time and vanishes with the process, so an operation is the   *)
(* phase of its upload: mop on the Master, fop on the Follower.  Deletion on   *)
(* the Master takes no lease and is a task of its own.                         *)
(*                                                                             *)
(* Age only selects candidates for the expiry sweeps, so time is not modelled: *)
(* a sweep may pick any reservation.  Encryption, the content check, folder    *)
(* fences of a migration and the Master's counters (MemberQuota) are left out. *)
EXTENDS UploadState

CONSTANTS MaxFaults   \* bound on crashes, lost replies and failing steps

VARIABLES
  net,         \* requests on their way to the Follower
  faults

vars == <<masterDb, masterOps, disk, followerDb, fop, net, faults>>

Waiting == {"relay", "stat", "clean", "sweep"}
Idle == [step |-> "idle", expired |-> FALSE, failed |-> FALSE,
         owner |-> NoUpload, for |-> "nobody"]
NoDelete == [upload |-> NoUpload, step |-> "idle"]

Init ==
  /\ transport \in Transports
  /\ session = [u \in Uploads |-> "new"]
  /\ catalog = [u \in Uploads |-> "none"]
  /\ path = [u \in Uploads |-> NoPath]
  /\ mop = [u \in Uploads |-> "idle"]
  /\ reply = [u \in Uploads |-> "none"]
  /\ deleting = [d \in Deleters |-> NoDelete]
  /\ row = [u \in Uploads |-> "none"]
  /\ target = [p \in Paths |-> NoUpload]
  /\ indexed = {} /\ part = {} /\ durable = {}
  /\ fUsed = 0 /\ fReserved = 0
  /\ fop = [u \in Uploads |-> Idle]
  /\ net = {} /\ faults = 0

Fault == faults < MaxFaults /\ faults' = faults + 1
NoFault == UNCHANGED faults

Callers == {"master", "nobody"} \cup Deleters
Set(f, x, v) == [f EXCEPT ![x] = v]
Request(u, kind, for) == [upload |-> u, kind |-> kind, for |-> for]

(* The callers in `whom` stop waiting for the uploads `us`: what they sent is   *)
(* dropped or becomes nobody's, and a handler already running goes on unheard. *)
Abandon(us, whom) ==
  LET given_up == {r \in net : r.upload \in us /\ r.for \in whom}
      late == {Request(r.upload, r.kind, "nobody") : r \in given_up}
  IN  /\ net' = (net \ given_up) \cup (IF LateRequests THEN late ELSE {})
      /\ fop' = [u \in Uploads |->
                  IF u \in us /\ fop[u].for \in whom
                    THEN [fop[u] EXCEPT !.for = "nobody"] ELSE fop[u]]

-----------------------------------------------------------------------------
(* MASTER                                                                      *)

(* create_upload_session and _reserve_upload: the path has no catalog row and  *)
(* no other session holds its locator.                                         *)
Reserve(u, p) ==
  /\ session[u] = "new"
  /\ \A v \in Uploads : path[v] = p =>
       session[v] # "reserved" /\ catalog[v] \notin {"active", "pending_delete"}
  /\ session' = Set(session, u, "reserved")
  /\ path' = Set(path, u, p)
  /\ UNCHANGED <<transport, catalog, masterOps, disk, followerDb, fop, net, faults>>

Call(u, kind) ==
  /\ mop' = Set(mop, u, kind)
  /\ reply' = Set(reply, u, "none")
  /\ net' = net \cup {Request(u, kind, "master")}

Settle(u, op) ==
  /\ mop' = Set(mop, u, op)
  /\ reply' = Set(reply, u, "none")

(* upload_session_bytes for a remote member: the Master streams the body on,   *)
(* of a Direct session too.                                                    *)
StartRelay(u) ==
  /\ mop[u] = "idle" /\ session[u] = "reserved"
  /\ Call(u, "relay")
  /\ UNCHANGED <<masterDb, deleting, disk, followerDb, fop, faults>>

(* finalize_direct_upload: the browser says that its transfer is over.         *)
StartFinalize(u) ==
  /\ transport = "Direct" /\ mop[u] = "idle" /\ session[u] \in {"reserved", "complete"}
  /\ Call(u, "stat")
  /\ UNCHANGED <<masterDb, deleting, disk, followerDb, fop, faults>>

(* cancel_upload_session.                                                      *)
CancelUpload(u) ==
  /\ mop[u] = "idle" /\ session[u] = "reserved"
  /\ Call(u, "clean")
  /\ UNCHANGED <<masterDb, deleting, disk, followerDb, fop, faults>>

(* _cleanup_expired_uploads, and reconcile_upload_path for a path's old owner. *)
SweepExpired(u) ==
  /\ mop[u] = "idle" /\ session[u] = "reserved"
  /\ Call(u, "sweep")
  /\ UNCHANGED <<masterDb, deleting, disk, followerDb, fop, faults>>

(* Mutant: the clean-up does not read the session again.                       *)
CleanRegardless(u) == Call(u, "clean")

(* A relay or finalize that failed runs _cleanup_upload_session_unlocked under *)
(* the lease it holds: a session that is complete needs nothing.               *)
CleanAfterFailure(u) ==
  IF session[u] = "reserved" THEN Call(u, "clean") ELSE Settle(u, "idle") /\ UNCHANGED net

TransferAnswered(u) ==
  /\ mop[u] \in {"relay", "stat"} /\ reply[u] # "none"
  /\ IF reply[u] = "complete"
       THEN Settle(u, "proved") /\ UNCHANGED net
       ELSE CleanAfterFailure(u)
  /\ UNCHANGED <<masterDb, deleting, disk, followerDb, fop, faults>>

(* Mutant: a reconciliation that was refused or timed out releases.            *)
CleanupTrustsSilence(u) ==
  /\ mop[u] \in {"clean", "sweep"} /\ reply[u] # "none"
  /\ Settle(u, IF reply[u] = "complete" THEN "recovered" ELSE "cleared")
  /\ UNCHANGED <<masterDb, deleting, disk, followerDb, fop, net, faults>>

(* Mutant: a sweep does not publish what the Follower recovered.               *)
CleanupOnlyClears(u) ==
  /\ mop[u] \in {"clean", "sweep"} /\ reply[u] # "none"
  /\ Settle(u, IF reply[u] = "cleared" THEN "cleared" ELSE "idle")
  /\ UNCHANGED <<masterDb, deleting, disk, followerDb, fop, net, faults>>

(* The tail of _cleanup_upload_session_unlocked.                               *)
CleanupAnswered(u) ==
  /\ mop[u] \in {"clean", "sweep"} /\ reply[u] # "none"
  /\ Settle(u, CASE reply[u] = "cleared" -> "cleared"
                 [] reply[u] = "complete" /\ mop[u] = "sweep" -> "recovered"
                 [] OTHER -> "idle")
  /\ UNCHANGED <<masterDb, deleting, disk, followerDb, fop, net, faults>>

(* finalize_upload with allow_expired; a complete session whose object exists  *)
(* is answered again.                                                          *)
Finalized(u) ==
  IF session[u] = "reserved"
    THEN session' = Set(session, u, "complete") /\ catalog' = Set(catalog, u, "active")
    ELSE UNCHANGED <<session, catalog>>

FinalizeUpload(u) ==
  /\ mop[u] \in {"proved", "recovered"}
  /\ Finalized(u)
  /\ Settle(u, "idle")
  /\ UNCHANGED <<transport, path, deleting, disk, followerDb, fop, net, faults>>

(* The transaction fails, or commits and its acknowledgement is lost: the      *)
(* route cleans up from what the database then says, the sweep only reports.   *)
FinalizeRollsBack(u) ==
  /\ mop[u] \in {"proved", "recovered"} /\ Fault
  /\ IF mop[u] = "proved"
       THEN CleanAfterFailure(u)
       ELSE Settle(u, "idle") /\ UNCHANGED net
  /\ UNCHANGED <<masterDb, deleting, disk, followerDb, fop>>

FinalizeCommitUnknown(u) ==
  /\ mop[u] \in {"proved", "recovered"} /\ Fault
  /\ Finalized(u)
  /\ Settle(u, "idle")
  /\ UNCHANGED <<transport, path, deleting, disk, followerDb, fop, net>>

(* fail_upload, after the Follower proved that nothing is left.                *)
FailUpload(u) ==
  /\ mop[u] = "cleared"
  /\ session' = IF session[u] = "reserved" THEN Set(session, u, "gone") ELSE session
  /\ Settle(u, "idle")
  /\ UNCHANGED <<transport, catalog, path, deleting, disk, followerDb, fop, net, faults>>

(* The transport raises before an answer arrives.                              *)
CallTimesOut(u) ==
  /\ mop[u] \in Waiting /\ reply[u] = "none" /\ Fault
  /\ Abandon({u}, {"master"})
  /\ reply' = Set(reply, u, "refused")
  /\ UNCHANGED <<masterDb, mop, deleting, disk, followerDb>>

(* mark_pending_delete, then retry_pending_media by the request or by the      *)
(* background loop.                                                            *)
MarkPendingDelete(u) ==
  /\ catalog[u] = "active"
  /\ catalog' = Set(catalog, u, "pending_delete")
  /\ UNCHANGED <<transport, session, path, masterOps, disk, followerDb, fop, net, faults>>

RetryPendingMedia(d, u) ==
  /\ deleting[d] = NoDelete /\ catalog[u] = "pending_delete"
  /\ deleting' = Set(deleting, d, [upload |-> u, step |-> "call"])
  /\ net' = net \cup {Request(u, "delete", d)}
  /\ UNCHANGED <<masterDb, mop, reply, disk, followerDb, fop, faults>>

DeleteTimesOut(d) ==
  /\ deleting[d].step = "call" /\ Fault
  /\ Abandon(Uploads, {d})
  /\ deleting' = Set(deleting, d, NoDelete)
  /\ UNCHANGED <<masterDb, mop, reply, disk, followerDb>>

SettleDelete(d) ==
  /\ deleting[d].step = "settle"
  /\ catalog' = Set(catalog, deleting[d].upload, "deleted")
  /\ deleting' = Set(deleting, d, NoDelete)
  /\ UNCHANGED <<transport, session, path, mop, reply, disk, followerDb, fop, net, faults>>

MasterCrash ==
  /\ Fault
  /\ mop' = [u \in Uploads |-> "idle"]
  /\ reply' = [u \in Uploads |-> "none"]
  /\ deleting' = [d \in Deleters |-> NoDelete]
  /\ Abandon(Uploads, Callers \ {"nobody"})
  /\ UNCHANGED <<masterDb, disk, followerDb>>

-----------------------------------------------------------------------------
(* FOLLOWER                                                                    *)

Owners(u) == {v \in indexed : path[v] = path[u]}
Owner(u) == IF Owners(u) = {} THEN NoUpload ELSE CHOOSE v \in Owners(u) : TRUE

(* The handler of u ends and answers whoever waits for it.                     *)
Answer(u, for, answer) ==
  /\ reply' = IF for = "master" THEN Set(reply, u, answer) ELSE reply
  /\ deleting' = IF for \in Deleters
                   THEN Set(deleting, for, IF answer = "cleared"
                                             THEN [upload |-> u, step |-> "settle"]
                                             ELSE NoDelete)
                   ELSE deleting

End(u, answer) ==
  /\ fop' = Set(fop, u, Idle)
  /\ Answer(u, fop[u].for, IF fop[u].failed THEN "refused" ELSE answer)

Enter(u, step, expired, for) ==
  fop' = Set(fop, u, [Idle EXCEPT !.step = step, !.expired = expired, !.for = for])

GoOn(u, step) == fop' = [fop EXCEPT ![u].step = step]

(* _reserve: a new identity on a free path within the allocation.              *)
CanReserve(u) ==
  /\ row[u] = "none" /\ Here(u) = NoUpload /\ Owners(u) = {}
  /\ \A v \in Rows({"reserved"}) : path[v] # path[u]
  /\ Allocated - fUsed - fReserved >= Size[u]

ReserveRow(u) ==
  /\ row' = Set(row, u, "reserved")
  /\ fReserved' = fReserved + Size[u]
  /\ part' = part \cup {u}
  /\ UNCHANGED <<indexed, fUsed, target, durable>>

(* storage_upload entered by the browser, which may use its token again.       *)
BrowserPut(u) ==
  /\ transport = "Direct" /\ session[u] # "new" /\ fop[u] = Idle
  /\ CanReserve(u) /\ ReserveRow(u)
  /\ Enter(u, "write", FALSE, "nobody")
  /\ UNCHANGED <<masterDb, masterOps, net, faults>>

(* A request finds the lease taken, or _reserve refuses it.                    *)
Refuse(r) ==
  /\ r \in net
  /\ \/ fop[r.upload] # Idle
     \/ /\ r.kind = "relay" /\ row[r.upload] # "complete"
        /\ ~CanReserve(r.upload)
  /\ net' = net \ {r}
  /\ Answer(r.upload, r.for, "refused")
  /\ UNCHANGED <<masterDb, mop, disk, followerDb, fop, faults>>

RelayedPut(r) ==
  /\ r \in net /\ r.kind = "relay" /\ fop[r.upload] = Idle
  /\ CanReserve(r.upload) /\ ReserveRow(r.upload)
  /\ Enter(r.upload, "write", FALSE, r.for)
  /\ net' = net \ {r}
  /\ UNCHANGED <<masterDb, masterOps, faults>>

(* storage_stat, and storage_upload of an object that is complete.             *)
Prove(r) ==
  /\ r \in net /\ fop[r.upload] = Idle
  /\ \/ r.kind = "stat"
     \/ r.kind = "relay" /\ row[r.upload] = "complete"
  /\ Enter(r.upload, "prove", FALSE, r.for)
  /\ net' = net \ {r}
  /\ UNCHANGED <<masterDb, masterOps, disk, followerDb, faults>>

(* storage_reconcile and storage_delete.                                       *)
Reconcile(r) ==
  /\ r \in net /\ r.kind \in {"clean", "sweep", "delete"} /\ fop[r.upload] = Idle
  /\ Enter(r.upload, "look", r.kind = "sweep", r.for)
  /\ net' = net \ {r}
  /\ UNCHANGED <<masterDb, masterOps, disk, followerDb, faults>>

(* cleanup_expired_storage.                                                    *)
SweepStorage(u) ==
  /\ row[u] = "reserved" /\ fop[u] = Idle
  /\ Enter(u, "look", TRUE, "nobody")
  /\ UNCHANGED <<masterDb, masterOps, disk, followerDb, net, faults>>

(* The body is on disk: os.replace, sync_hierarchy, _complete, the answer.     *)
PutRename(u) ==
  /\ fop[u].step = "write"
  /\ target' = Set(target, path[u], u)
  /\ part' = part \ {u}
  /\ GoOn(u, "renamed")
  /\ UNCHANGED <<masterDb, masterOps, durable, followerDb, net, faults>>

PutSync(u) ==
  /\ fop[u].step = "renamed"
  /\ durable' = durable \cup {u}
  /\ GoOn(u, "synced")
  /\ UNCHANGED <<masterDb, masterOps, target, part, followerDb, net, faults>>

CanComplete(u) == row[u] = "reserved" /\ Owners(u) = {}

CompleteRow(u) ==
  /\ row' = Set(row, u, "complete")
  /\ indexed' = indexed \cup {u}
  /\ fReserved' = fReserved - Size[u]
  /\ fUsed' = fUsed + Size[u]

PutComplete(u) ==
  /\ fop[u].step = "synced" /\ CanComplete(u) /\ CompleteRow(u)
  /\ GoOn(u, "completed")
  /\ UNCHANGED <<masterDb, masterOps, disk, net, faults>>

PutDone(u) ==
  /\ fop[u].step = "completed" /\ End(u, "complete")
  /\ UNCHANGED <<masterDb, mop, disk, followerDb, net, faults>>

(* Disconnect, short or invalid body, I/O or database error, cancellation, at  *)
(* any point up to the answer: the handler reconciles before it re-raises.     *)
PutFails(u) ==
  /\ fop[u].step \in {"write", "renamed", "synced", "completed"} /\ Fault
  /\ fop' = [fop EXCEPT ![u].step = "look", ![u].failed = TRUE]
  /\ UNCHANGED <<masterDb, masterOps, disk, followerDb, net>>

(* _proof: the file stands for u if it has u's size and no other owner; a      *)
(* reserved row is completed once file and directories are synced.             *)
Proven(u) ==
  /\ row[u] # "cancelled"
  /\ Owners(u) \subseteq {u}
  /\ Here(u) # NoUpload /\ Size[Here(u)] = Size[u]
  /\ (row[u] = "none") => u \in indexed
  /\ (row[u] = "reserved") => u \notin indexed

ProveEnds(u) ==
  /\ fop[u].step = "prove" /\ Proven(u)
  /\ IF row[u] = "reserved"
       THEN CompleteRow(u) /\ durable' = durable \cup {u}
       ELSE UNCHANGED <<followerDb, durable>>
  /\ End(u, "complete")
  /\ UNCHANGED <<masterDb, mop, target, part, net, faults>>

(* Without a proof a stat is refused; an expiry sweep goes on to clear.        *)
ProveFails(u) ==
  /\ fop[u].step = "prove" /\ ~Proven(u)
  /\ IF fop[u].expired
       THEN /\ fop' = [fop EXCEPT ![u].step = "look", ![u].expired = FALSE]
            /\ UNCHANGED <<reply, deleting>>
       ELSE End(u, "refused")
  /\ UNCHANGED <<masterDb, mop, disk, followerDb, net, faults>>

(* _reconcile_checked.  The owner is read in a transaction of its own; the     *)
(* disk is examined and cleared without an await in between; the rows follow.  *)
Look(u) ==
  /\ fop[u].step = "look"
  /\ fop' = IF fop[u].expired /\ row[u] \in {"reserved", "complete"} /\ Here(u) # NoUpload
              THEN [fop EXCEPT ![u].step = "prove"]
              ELSE [fop EXCEPT ![u].step = "check", ![u].owner = Owner(u)]
  /\ UNCHANGED <<masterDb, masterOps, disk, followerDb, net, faults>>

(* Mutant: the owner of the path is not looked at.                             *)
MayClearAnyone(u) == TRUE

(* Mutant: a missing file is an error.                                         *)
MayClearOnlyBytes(u) == fop[u].owner \in {u, NoUpload} /\ Here(u) = u

MayClear(u) ==
  /\ fop[u].owner \in {u, NoUpload}
  /\ (Here(u) # NoUpload) => (fop[u].owner = u \/ row[u] \in {"reserved", "complete"})

Clear(u) ==
  /\ fop[u].step = "check" /\ MayClear(u)
  /\ target' = Set(target, path[u], NoUpload)
  /\ part' = part \ {u}
  /\ durable' = durable \ {Here(u)}
  /\ GoOn(u, "cleared")
  /\ UNCHANGED <<masterDb, masterOps, followerDb, net, faults>>

ClearRefused(u) ==
  /\ fop[u].step = "check" /\ ~MayClear(u)
  /\ End(u, "refused")
  /\ UNCHANGED <<masterDb, mop, disk, followerDb, net, faults>>

AtLeastZero(n) == IF n > 0 THEN n ELSE 0

(* Mutant: nothing is given back.                                              *)
RefundNothing(u, states) == 0

Refund(u, states) == IF row[u] \in states THEN Size[u] ELSE 0

ClearCommit(u) ==
  /\ fop[u].step = "cleared"
  /\ row' = Set(row, u, "cancelled")
  /\ indexed' = indexed \ {u}
  /\ fReserved' = AtLeastZero(fReserved - Refund(u, {"reserved"}))
  /\ fUsed' = AtLeastZero(fUsed -
       Refund(u, IF fop[u].owner = u THEN {"complete", "none"} ELSE {"complete"}))
  /\ End(u, "cleared")
  /\ UNCHANGED <<masterDb, mop, disk, net, faults>>

(* A proof or a reconciliation raises: the lease is released as things stand.  *)
HandlerFails(u) ==
  /\ fop[u].step \in {"prove", "look", "check", "cleared"} /\ Fault
  /\ End(u, "refused")
  /\ UNCHANGED <<masterDb, mop, disk, followerDb, net>>

(* Power loss or restart: leases and handlers vanish, and a rename that was not *)
(* synced may be undone, which leaves the bytes under their staging name.      *)
FollowerCrash ==
  /\ Fault
  /\ \E undone \in SUBSET {u \in Uploads \ durable : path[u] # NoPath /\ Here(u) = u} :
       /\ target' = [p \in Paths |-> IF target[p] \in undone THEN NoUpload ELSE target[p]]
       /\ part' = part \cup undone
  /\ fop' = [u \in Uploads |-> Idle]
  /\ reply' = [u \in Uploads |-> IF fop[u].for = "master" THEN "refused" ELSE reply[u]]
  /\ deleting' = [d \in Deleters |->
       IF \E u \in Uploads : fop[u].for = d THEN NoDelete ELSE deleting[d]]
  /\ UNCHANGED <<masterDb, mop, durable, followerDb, net>>

-----------------------------------------------------------------------------
MasterStep(u) ==
  \/ \E p \in Paths : Reserve(u, p)
  \/ StartRelay(u) \/ StartFinalize(u) \/ CancelUpload(u) \/ SweepExpired(u)
  \/ TransferAnswered(u) \/ CleanupAnswered(u) \/ CallTimesOut(u)
  \/ FinalizeUpload(u) \/ FinalizeRollsBack(u) \/ FinalizeCommitUnknown(u) \/ FailUpload(u)
  \/ MarkPendingDelete(u)

DeleterStep(d) ==
  \/ \E u \in Uploads : RetryPendingMedia(d, u)
  \/ DeleteTimesOut(d) \/ SettleDelete(d)

HandlerStep(u) ==
  \/ PutRename(u) \/ PutSync(u) \/ PutComplete(u) \/ PutDone(u)
  \/ ProveEnds(u) \/ ProveFails(u)
  \/ Look(u) \/ Clear(u) \/ ClearRefused(u) \/ ClearCommit(u)

Receive(r) == Refuse(r) \/ RelayedPut(r) \/ Prove(r) \/ Reconcile(r)

Next ==
  \/ \E u \in Uploads : \/ MasterStep(u) \/ BrowserPut(u) \/ SweepStorage(u)
                        \/ HandlerStep(u) \/ PutFails(u) \/ HandlerFails(u)
  \/ \E d \in Deleters : DeleterStep(d)
  \/ \E r \in net : Receive(r)
  \/ MasterCrash \/ FollowerCrash

Spec == Init /\ [][Next]_vars

(* What the programs do by themselves: every operation under way goes on, a    *)
(* request is received, and the background loops (runtime.py) keep retrying    *)
(* expired reservations and pending deletions.  Nobody has to transfer, to     *)
(* finalize or to cancel, and nothing has to fail.                             *)
MasterGoesOn(u) ==
  \/ TransferAnswered(u) \/ CleanupAnswered(u) \/ FinalizeUpload(u) \/ FailUpload(u)
Requests == [upload : Uploads, kind : Waiting \cup {"delete"}, for : Callers]

Fairness ==
  /\ \A u \in Uploads : /\ WF_vars(MasterGoesOn(u))
                        /\ WF_vars(HandlerStep(u))
                        /\ WF_vars(SweepExpired(u))
                        /\ \A d \in Deleters : WF_vars(RetryPendingMedia(d, u))
  /\ \A d \in Deleters : WF_vars(SettleDelete(d))
  /\ \A r \in Requests : WF_vars(Receive(r))

(* The retries poll a lease that a client could take each time by asking for   *)
(* the same upload for ever: clients stop asking.                              *)
ClientsStop ==
  \A u \in Uploads : <>[][~(StartRelay(u) \/ StartFinalize(u) \/ CancelUpload(u))]_vars

FairSpec == Spec /\ Fairness /\ ClientsStop

-----------------------------------------------------------------------------
(* Every reservation is eventually published or released, and every deletion   *)
(* is eventually carried out, once the failures stop.                          *)
ReservationResolves ==
  \A u \in Uploads : session[u] = "reserved" ~> session[u] \in {"complete", "gone"}

DeletionConverges ==
  \A u \in Uploads : catalog[u] = "pending_delete" ~> catalog[u] = "deleted"
=============================================================================
