------------------------- MODULE StorageUpload_proof -------------------------
(* Proofs about StorageUpload for every set of uploads, paths and deleters and *)
(* every number of faults.                                                     *)
EXTENDS StorageUpload, FiniteSetTheorems, TLAPS

-----------------------------------------------------------------------------
(* The inductive invariant.                                                    *)

Handlers ==
  [step : {"idle", "write", "renamed", "synced", "completed", "prove", "look", "check", "cleared"},
   expired : BOOLEAN, failed : BOOLEAN, owner : Uploads \cup {NoUpload}, for : Callers]

MasterTypes ==
  /\ session \in [Uploads -> {"new", "reserved", "complete", "gone"}]
  /\ catalog \in [Uploads -> {"none", "active", "pending_delete", "deleted"}]
  /\ path \in [Uploads -> Paths \cup {NoPath}]
  /\ mop \in [Uploads -> Waiting \cup {"idle", "proved", "recovered", "cleared"}]
  /\ reply \in [Uploads -> {"none", "complete", "cleared", "refused"}]
  /\ deleting \in [Deleters -> [upload : Uploads \cup {NoUpload}, step : {"idle", "call", "settle"}]]
  /\ net \subseteq Requests

FollowerTypes ==
  /\ row \in [Uploads -> {"none", "reserved", "complete", "cancelled"}]
  /\ target \in [Paths -> Uploads \cup {NoUpload}]
  /\ indexed \subseteq Uploads /\ part \subseteq Uploads /\ durable \subseteq Uploads
  /\ fop \in [Uploads -> Handlers]

\* What a reservation has become on the two nodes.
RowsFit ==
  \A u \in Uploads :
    /\ session[u] = "new" <=> path[u] = NoPath
    /\ session[u] = "new" => row[u] = "none"
    /\ session[u] = "gone" \/ catalog[u] = "deleted" => row[u] = "cancelled"
    /\ session[u] = "complete" => row[u] \in {"complete", "cancelled"}
    /\ session[u] = "complete" <=> catalog[u] # "none"

\* A path has one live reservation at a time, and only its bytes.
Live(u) == row[u] \in {"reserved", "complete"}

PathsOwned ==
  /\ \A u, v \in Uploads : Live(u) /\ Live(v) /\ path[u] = path[v] => u = v
  /\ \A p \in Paths : target[p] # NoUpload => path[target[p]] = p /\ Live(target[p])

\* Bytes at a path are not staged as well, and were synced before they were complete.
BytesFit ==
  /\ indexed = Rows({"complete"})
  /\ \A u \in Uploads : AtPath(u) =>
       u \notin part /\ (row[u] = "complete" => u \in durable)

Stored(u) == AtPath(u) /\ u \in durable /\ u \in indexed /\ row[u] = "complete"

\* What a handler of the Follower has reached.
HandlersFit ==
  \A u \in Uploads :
    /\ fop[u].step # "idle" => session[u] # "new"
    /\ fop[u].step \in {"write", "renamed", "synced"} => row[u] = "reserved"
    /\ fop[u].step \in {"renamed", "synced"} => AtPath(u)
    /\ fop[u].step = "synced" => u \in durable
    /\ fop[u].step = "completed" => Stored(u)
    /\ fop[u].step \in {"check", "cleared"} /\ fop[u].owner = u => u \in indexed
    /\ fop[u].step = "cleared" => u \notin part /\ ~AtPath(u)

\* A call of the Master's and the handler that serves it.
Deleted(u) == catalog[u] \in {"pending_delete", "deleted"}

RequestFits(r) ==
  /\ session[r.upload] # "new"
  /\ r.for = "master" =>
       mop[r.upload] = r.kind /\ reply[r.upload] = "none" /\ fop[r.upload].for # "master"
  /\ r.for \in Deleters => Deleted(r.upload)
  /\ r.for # "nobody"
  /\ r.kind = "delete" => r.for \in Deleters

CallFits(u) ==
  /\ mop[u] # "idle" => session[u] # "new"
  /\ mop[u] \in {"relay", "clean", "sweep", "recovered", "cleared"} => session[u] = "reserved"
  /\ reply[u] = "cleared" \/ mop[u] = "cleared" => row[u] = "cancelled"
  /\ reply[u] # "none" => mop[u] \in Waiting
  /\ fop[u].for = "master" => mop[u] \in Waiting /\ reply[u] = "none"
  /\ fop[u].for \in Deleters => Deleted(u)

DeletionFits(d) ==
  deleting[d].step = "settle" =>
    /\ deleting[d].upload \in Uploads
    /\ Deleted(deleting[d].upload) /\ row[deleting[d].upload] = "cancelled"

CallsFit ==
  /\ \A r \in net : RequestFits(r)
  /\ \A u \in Uploads : CallFits(u)
  /\ \A d \in Deleters : DeletionFits(d)

\* The Master serves the object, or was told that it is stored.
Committed(u) ==
  \/ catalog[u] = "active"
  \/ session[u] = "reserved" /\ (mop[u] \in {"proved", "recovered"} \/ reply[u] = "complete")

CommittedStored ==
  \A u \in Uploads : Committed(u) =>
    /\ Stored(u)
    /\ fop[u].step = "idle" \/ (fop[u].step = "prove" /\ ~fop[u].expired)

SUInv ==
  /\ MasterTypes /\ FollowerTypes /\ RowsFit /\ PathsOwned /\ BytesFit /\ HandlersFit /\ CallsFit
  /\ CommittedStored /\ FollowerSound

-----------------------------------------------------------------------------
(* What the operators that several actions share do.                           *)

LEMMA Abandons ==
  ASSUME MasterTypes, FollowerTypes, LateRequests = FALSE, NEW us \in SUBSET Uploads,
         NEW whom \in SUBSET Callers, Abandon(us, whom)
  PROVE  /\ net' \subseteq net
         /\ \A r \in net' : ~(r.upload \in us /\ r.for \in whom)
         /\ fop' \in [Uploads -> Handlers]
         /\ \A u \in Uploads :
              /\ fop'[u].step = fop[u].step /\ fop'[u].expired = fop[u].expired
              /\ fop'[u].failed = fop[u].failed /\ fop'[u].owner = fop[u].owner
<1>1. net' = {r \in net : ~(r.upload \in us /\ r.for \in whom)}
  BY DEF Abandon
<1>2. fop' = [u \in Uploads |-> IF u \in us /\ fop[u].for \in whom
                                  THEN [fop[u] EXCEPT !.for = "nobody"] ELSE fop[u]]
  BY DEF Abandon
<1>3. "nobody" \in Callers  BY DEF Callers
<1>4. fop \in [Uploads -> Handlers]  BY DEF FollowerTypes
<1> HIDE DEF Callers
<1>5. \A u \in Uploads : fop'[u] \in Handlers  BY <1>2, <1>3, <1>4 DEF Handlers
<1> QED  BY <1>1, <1>2, <1>3, <1>4, <1>5 DEF Handlers

LEMMA Answers ==
  ASSUME MasterTypes, NEW u \in Uploads, NEW for \in Callers,
         NEW a \in {"complete", "cleared", "refused"}, Answer(u, for, a)
  PROVE  /\ reply' \in [Uploads -> {"none", "complete", "cleared", "refused"}]
         /\ deleting' \in [Deleters -> [upload : Uploads \cup {NoUpload},
                                        step : {"idle", "call", "settle"}]]
         /\ \A v \in Uploads : reply'[v] = IF for = "master" /\ v = u THEN a ELSE reply[v]
         /\ \A d \in Deleters : deleting'[d].step = "settle" =>
              deleting'[d] = deleting[d] \/ (deleting'[d].upload = u /\ d = for /\ a = "cleared")
<1>1. reply' = IF for = "master" THEN [reply EXCEPT ![u] = a] ELSE reply
  BY DEF Answer, Set
<1> DEFINE settle == IF a = "cleared" THEN [upload |-> u, step |-> "settle"] ELSE NoDelete
<1>2. deleting' = IF for \in Deleters THEN [deleting EXCEPT ![for] = settle] ELSE deleting
  BY DEF Answer, Set
<1>3. settle \in [upload : Uploads \cup {NoUpload}, step : {"idle", "call", "settle"}]
      /\ (settle.step = "settle" => settle.upload = u /\ a = "cleared")
  BY DEF NoDelete
<1> HIDE DEF settle
<1> QED  BY <1>1, <1>2, <1>3 DEF MasterTypes

\* The end of a handler: its caller hears of it.
LEMMA Ended ==
  ASSUME MasterTypes, FollowerTypes, NEW u \in Uploads,
         NEW a \in {"complete", "cleared", "refused"}, End(u, a)
  PROVE  /\ fop' = [fop EXCEPT ![u] = Idle]
         /\ \E b \in {a, "refused"} : Answer(u, fop[u].for, b)
         /\ fop[u].for \in Callers /\ fop' \in [Uploads -> Handlers]
<1>1. fop \in [Uploads -> Handlers]  BY DEF FollowerTypes
<1>2. Idle \in Handlers  BY DEF Idle, Handlers, Callers
<1>3. fop[u].for \in Callers  BY <1>1 DEF Handlers
<1>4. fop' = [fop EXCEPT ![u] = Idle]  BY DEF End, Set
<1>5. Answer(u, fop[u].for, IF fop[u].failed THEN "refused" ELSE a)  BY DEF End
<1> QED  BY <1>1, <1>2, <1>3, <1>4, <1>5

-----------------------------------------------------------------------------
(* How the parts of the state change in a step.                                *)

\* A handler of the Follower changes its rows or its disk.
FilesStep(u) ==
  \/ /\ fop[u] = Idle /\ session[u] # "new" /\ CanReserve(u) /\ ReserveRow(u)
     /\ fop'[u].step = "write"
  \/ PutRename(u)
  \/ PutSync(u)
  \/ /\ fop[u].step = "synced" /\ CanComplete(u) /\ fop'[u].step = "completed"
     /\ CompleteRow(u) /\ UNCHANGED disk
  \/ /\ fop[u].step = "prove" /\ Proven(u) /\ row[u] = "reserved" /\ fop'[u].step = "idle"
     /\ CompleteRow(u) /\ durable' = durable \cup {u} /\ UNCHANGED <<target, part>>
  \/ Clear(u)
  \/ ClearCommit(u)

\* A task of the Master changes its rows.
CatalogStep ==
  \/ \E u \in Uploads, p \in Paths : Reserve(u, p)
  \/ \E u \in Uploads : /\ session[u] = "reserved" /\ mop[u] \in {"proved", "recovered"}
                        /\ session' = [session EXCEPT ![u] = "complete"]
                        /\ catalog' = [catalog EXCEPT ![u] = "active"]
                        /\ path' = path /\ mop' = [mop EXCEPT ![u] = "idle"]
                        /\ reply' = [reply EXCEPT ![u] = "none"] /\ deleting' = deleting
  \/ \E u \in Uploads : /\ session[u] = "reserved" /\ mop[u] = "cleared"
                        /\ session' = [session EXCEPT ![u] = "gone"]
                        /\ catalog' = catalog
                        /\ path' = path /\ mop' = [mop EXCEPT ![u] = "idle"]
                        /\ reply' = [reply EXCEPT ![u] = "none"] /\ deleting' = deleting
  \/ \E u \in Uploads : MarkPendingDelete(u)
  \/ \E d \in Deleters : SettleDelete(d)

Quiet == UNCHANGED <<session, catalog, path, disk, followerDb>>
MasterMoves == CatalogStep /\ UNCHANGED <<disk, followerDb, fop, net>>
FollowerMoves ==
  /\ UNCHANGED <<session, catalog, path>>
  /\ FollowerCrash \/ \E u \in Uploads : FilesStep(u)

LEMMA StepKinds ==
  ASSUME MasterTypes, FollowerTypes, CallsFit, [Next]_vars
  PROVE  Quiet \/ MasterMoves \/ FollowerMoves
<1>f. fop \in [Uploads -> Handlers]  BY DEF FollowerTypes
<1>1. CASE \E u \in Uploads :
              \/ StartRelay(u) \/ StartFinalize(u) \/ CancelUpload(u) \/ SweepExpired(u)
              \/ TransferAnswered(u) \/ CleanupAnswered(u) \/ CallTimesOut(u) \/ FinalizeRollsBack(u)
  BY <1>1 DEF StartRelay, StartFinalize, CancelUpload, SweepExpired, TransferAnswered,
     CleanupAnswered, CallTimesOut, FinalizeRollsBack, Quiet, masterDb
<1>2. CASE \E d \in Deleters : (\E u \in Uploads : RetryPendingMedia(d, u)) \/ DeleteTimesOut(d)
  BY <1>2 DEF RetryPendingMedia, DeleteTimesOut, Quiet, masterDb
<1>3. CASE \E u \in Uploads :
              \/ SweepStorage(u) \/ PutDone(u) \/ PutFails(u) \/ ProveFails(u) \/ Look(u)
              \/ ClearRefused(u) \/ HandlerFails(u)
  BY <1>3 DEF SweepStorage, PutDone, PutFails, ProveFails, Look, ClearRefused, HandlerFails, Quiet,
     masterDb
<1>4. CASE MasterCrash \/ UNCHANGED vars
  BY <1>4 DEF MasterCrash, vars, Quiet, masterDb
<1>5. CASE \E r \in net : Refuse(r) \/ Prove(r) \/ Reconcile(r)
  BY <1>5 DEF Refuse, Prove, Reconcile, Quiet, masterDb
<1>6. ASSUME NEW u \in Uploads, NEW p \in Paths, Reserve(u, p) PROVE MasterMoves
  BY <1>6 DEF Reserve, MasterMoves, CatalogStep
<1>7. ASSUME NEW u \in Uploads,
             FinalizeUpload(u) \/ FinalizeCommitUnknown(u) \/ FailUpload(u) \/ MarkPendingDelete(u)
      PROVE  Quiet \/ MasterMoves
  BY <1>7 DEF FinalizeUpload, FinalizeCommitUnknown, FailUpload, MarkPendingDelete, Finalized, Settle,
     Set, MasterMoves, CatalogStep, Quiet, masterDb, masterOps
<1>8. ASSUME NEW d \in Deleters, SettleDelete(d) PROVE MasterMoves
  BY <1>8 DEF SettleDelete, MasterMoves, CatalogStep
<1>9. ASSUME NEW u \in Uploads, BrowserPut(u) PROVE FollowerMoves
  <2>1. fop' = [fop EXCEPT ![u] = [Idle EXCEPT !.step = "write", !.expired = FALSE, !.for = "nobody"]]
    BY <1>9 DEF BrowserPut, Enter, Set
  <2>2. fop'[u].step = "write"  BY <1>f, <2>1 DEF Idle
  <2> QED  BY <1>9, <2>2 DEF BrowserPut, FollowerMoves, FilesStep, masterDb
<1>10. ASSUME NEW r \in net, RelayedPut(r) PROVE FollowerMoves
  <2>1. r.upload \in Uploads /\ session[r.upload] # "new"  BY DEF MasterTypes, Requests, CallsFit, RequestFits
  <2>2. fop' = [fop EXCEPT ![r.upload] = [Idle EXCEPT !.step = "write", !.expired = FALSE, !.for = r.for]]
    BY <1>10 DEF RelayedPut, Enter, Set
  <2>3. fop'[r.upload].step = "write"  BY <1>f, <2>1, <2>2 DEF Idle
  <2> QED  BY <1>10, <2>1, <2>3 DEF RelayedPut, FollowerMoves, FilesStep, masterDb
<1>11. ASSUME NEW u \in Uploads, PutRename(u) \/ PutSync(u) \/ Clear(u) \/ ClearCommit(u)
       PROVE  FollowerMoves
  BY <1>11 DEF PutRename, PutSync, Clear, ClearCommit, FollowerMoves, FilesStep, masterDb
<1>12. ASSUME NEW u \in Uploads, PutComplete(u) PROVE FollowerMoves
  <2>1. fop'[u].step = "completed"  BY <1>12, <1>f DEF PutComplete, GoOn, Handlers
  <2> QED  BY <1>12, <2>1 DEF PutComplete, FollowerMoves, FilesStep, masterDb
<1>13. ASSUME NEW u \in Uploads, ProveEnds(u) PROVE Quiet \/ FollowerMoves
  <2>1. fop'[u].step = "idle"  BY <1>13, <1>f DEF ProveEnds, End, Set, Idle
  <2> QED  BY <1>13, <2>1 DEF ProveEnds, FollowerMoves, FilesStep, masterDb, Quiet, disk
<1>14. CASE FollowerCrash
  BY <1>14 DEF FollowerCrash, FollowerMoves, masterDb
<1> QED
  BY <1>1, <1>2, <1>3, <1>4, <1>5, <1>6, <1>7, <1>8, <1>9, <1>10, <1>11, <1>12, <1>13, <1>14
  DEF Next, MasterStep, DeleterStep, HandlerStep, Receive

-----------------------------------------------------------------------------
(* Types.                                                                      *)

\* A call of the Master's to the Follower.
LEMMA CallTyped ==
  ASSUME MasterTypes, NEW u \in Uploads, NEW kind \in Waiting,
         Call(u, kind) \/ (Settle(u, "idle") /\ UNCHANGED net)
  PROVE  /\ mop' \in [Uploads -> Waiting \cup {"idle", "proved", "recovered", "cleared"}]
         /\ reply' \in [Uploads -> {"none", "complete", "cleared", "refused"}]
         /\ net' \subseteq Requests
<1>1. "master" \in Callers  BY DEF Callers
<1> HIDE DEF Callers, Waiting
<1>2. CASE Call(u, kind)
  <2>1. Request(u, kind, "master") \in Requests  BY <1>1 DEF Request, Requests
  <2> QED  BY <1>2, <2>1 DEF Call, Set, MasterTypes
<1>3. CASE Settle(u, "idle") /\ UNCHANGED net
  BY <1>3 DEF Settle, Set, MasterTypes
<1> QED  BY <1>2, <1>3

LEMMA MasterTyped ==
  ASSUME MasterTypes, FollowerTypes, LateRequests = FALSE, [Next]_vars
  PROVE  MasterTypes'
<1>k. Waiting = {"relay", "stat", "clean", "sweep"}  BY DEF Waiting
<1>a. {"master"} \subseteq Callers /\ Callers \ {"nobody"} \subseteq Callers
      /\ \A d \in Deleters : {d} \subseteq Callers
  BY DEF Callers
<1>1. ASSUME NEW u \in Uploads, StartRelay(u) \/ StartFinalize(u) \/ CancelUpload(u) \/ SweepExpired(u)
      PROVE  MasterTypes'
  BY <1>1, <1>k, CallTyped DEF StartRelay, StartFinalize, CancelUpload, SweepExpired, MasterTypes, masterDb
<1>2. ASSUME NEW u \in Uploads, TransferAnswered(u) PROVE MasterTypes'
  <2>1. CASE reply[u] = "complete"
    BY <1>2, <2>1 DEF TransferAnswered, Settle, Set, MasterTypes, masterDb
  <2>2. CASE reply[u] # "complete"
    BY <1>2, <2>2, <1>k, CallTyped DEF TransferAnswered, CleanAfterFailure, MasterTypes, masterDb
  <2> QED  BY <2>1, <2>2
<1>3. ASSUME NEW u \in Uploads, CleanupAnswered(u) PROVE MasterTypes'
  <2>1. PICK op \in {"cleared", "recovered", "idle"} : Settle(u, op)
    <3>1. CASE reply[u] = "cleared"  BY <1>3, <3>1 DEF CleanupAnswered
    <3>2. CASE reply[u] = "complete" /\ mop[u] = "sweep"  BY <1>3, <3>2 DEF CleanupAnswered
    <3>3. CASE reply[u] # "cleared" /\ ~(reply[u] = "complete" /\ mop[u] = "sweep")
      BY <1>3, <3>3 DEF CleanupAnswered
    <3> QED  BY <3>1, <3>2, <3>3
  <2> QED  BY <1>3, <2>1 DEF CleanupAnswered, Settle, Set, MasterTypes, masterDb
<1>4. ASSUME NEW u \in Uploads, CallTimesOut(u) PROVE MasterTypes'
  <2>1. net' \subseteq net  BY <1>4, <1>a, Abandons DEF CallTimesOut
  <2> QED  BY <1>4, <2>1 DEF CallTimesOut, Set, MasterTypes, masterDb
<1>5. ASSUME NEW u \in Uploads, FinalizeRollsBack(u) PROVE MasterTypes'
  BY <1>5, <1>k, CallTyped DEF FinalizeRollsBack, CleanAfterFailure, MasterTypes, masterDb
<1>6. ASSUME NEW u \in Uploads, NEW p \in Paths, Reserve(u, p) PROVE MasterTypes'
  BY <1>6 DEF Reserve, Set, MasterTypes, masterOps
<1>7. ASSUME NEW u \in Uploads,
             FinalizeUpload(u) \/ FinalizeCommitUnknown(u) \/ FailUpload(u) \/ MarkPendingDelete(u)
      PROVE  MasterTypes'
  BY <1>7 DEF FinalizeUpload, FinalizeCommitUnknown, FailUpload, MarkPendingDelete, Finalized, Settle,
     Set, MasterTypes, masterDb, masterOps
<1>8. ASSUME NEW d \in Deleters, SettleDelete(d) \/ DeleteTimesOut(d) PROVE MasterTypes'
  <2>1. ASSUME DeleteTimesOut(d) PROVE net' \subseteq net
    <3>1. Abandon(Uploads, {d}) /\ {d} \in SUBSET Callers  BY <1>a, <2>1 DEF DeleteTimesOut
    <3> QED  BY <3>1, Abandons
  <2>2. NoDelete \in [upload : Uploads \cup {NoUpload}, step : {"idle", "call", "settle"}]
    BY DEF NoDelete
  <2>3. CASE DeleteTimesOut(d)
    BY <2>1, <2>2, <2>3 DEF DeleteTimesOut, Set, MasterTypes, masterDb
  <2>4. CASE SettleDelete(d)
    BY <2>2, <2>4 DEF SettleDelete, Set, MasterTypes
  <2> QED  BY <1>8, <2>3, <2>4
<1>9. ASSUME NEW d \in Deleters, NEW u \in Uploads, RetryPendingMedia(d, u) PROVE MasterTypes'
  <2>1. Request(u, "delete", d) \in Requests  BY DEF Request, Requests, Callers
  <2> QED  BY <1>9, <2>1 DEF RetryPendingMedia, Set, MasterTypes, masterDb
<1>10. CASE MasterCrash
  <2>1. net' \subseteq net  BY <1>10, <1>a, Abandons DEF MasterCrash
  <2> QED  BY <1>10, <2>1 DEF MasterCrash, NoDelete, MasterTypes, masterDb
<1>11. CASE UNCHANGED vars
  BY <1>11 DEF vars, masterDb, masterOps, MasterTypes
<1>12. ASSUME NEW r \in net, Refuse(r) PROVE MasterTypes'
  <2>1. r.upload \in Uploads /\ r.for \in Callers  BY DEF MasterTypes, Requests
  <2> QED  BY <1>12, <2>1, Answers DEF Refuse, MasterTypes, masterDb
<1>13. ASSUME NEW r \in net, RelayedPut(r) \/ Prove(r) \/ Reconcile(r) PROVE MasterTypes'
  BY <1>13 DEF RelayedPut, Prove, Reconcile, MasterTypes, masterDb, masterOps
<1>14. ASSUME NEW u \in Uploads,
              \/ BrowserPut(u) \/ SweepStorage(u) \/ PutRename(u) \/ PutSync(u) \/ PutComplete(u)
              \/ PutFails(u) \/ Look(u) \/ Clear(u)
       PROVE  MasterTypes'
  BY <1>14 DEF BrowserPut, SweepStorage, PutRename, PutSync, PutComplete, PutFails, Look, Clear,
     MasterTypes, masterDb, masterOps
<1>15. ASSUME NEW u \in Uploads,
              \/ PutDone(u) \/ ProveEnds(u) \/ ProveFails(u) \/ ClearRefused(u) \/ ClearCommit(u)
              \/ HandlerFails(u)
       PROVE  MasterTypes'
  <2>1. ASSUME NEW a \in {"complete", "cleared", "refused"}, End(u, a), UNCHANGED <<masterDb, mop, net>>
        PROVE  MasterTypes'
    BY <2>1, Ended, Answers DEF MasterTypes, masterDb
  <2>2. CASE ProveFails(u) /\ UNCHANGED <<reply, deleting>>
    BY <2>2 DEF ProveFails, MasterTypes, masterDb
  <2> QED
    BY <1>15, <2>1, <2>2 DEF PutDone, ProveEnds, ProveFails, ClearRefused, ClearCommit, HandlerFails
<1>16. CASE FollowerCrash
  <2>1. reply' \in [Uploads -> {"none", "complete", "cleared", "refused"}]
    BY <1>16 DEF FollowerCrash, MasterTypes
  <2>2. deleting' \in [Deleters -> [upload : Uploads \cup {NoUpload}, step : {"idle", "call", "settle"}]]
    BY <1>16 DEF FollowerCrash, MasterTypes, NoDelete
  <2> QED  BY <1>16, <2>1, <2>2 DEF FollowerCrash, MasterTypes, masterDb
<1> QED
  BY <1>1, <1>2, <1>3, <1>4, <1>5, <1>6, <1>7, <1>8, <1>9, <1>10, <1>11, <1>12, <1>13, <1>14, <1>15, <1>16
  DEF Next, MasterStep, DeleterStep, HandlerStep, Receive

LEMMA FollowerTyped ==
  ASSUME MasterTypes, FollowerTypes, RowsFit, CallsFit, HandlersFit, LateRequests = FALSE, [Next]_vars
  PROVE  FollowerTypes'
<1>f. fop \in [Uploads -> Handlers]  BY DEF FollowerTypes
<1>k. Deleters \subseteq Callers /\ {"master", "nobody"} \subseteq Callers  BY DEF Callers
<1>1. fop' \in [Uploads -> Handlers]
  <2>1. ASSUME NEW u \in Uploads, NEW s \in {"write", "prove", "look"}, NEW e \in BOOLEAN,
               NEW c \in Callers, Enter(u, s, e, c)
        PROVE  fop' \in [Uploads -> Handlers]
    <3>1. [Idle EXCEPT !.step = s, !.expired = e, !.for = c] \in Handlers  BY DEF Idle, Handlers
    <3> QED  BY <1>f, <2>1, <3>1 DEF Enter, Set
  <2>2. ASSUME NEW r \in net, Refuse(r) \/ RelayedPut(r) \/ Prove(r) \/ Reconcile(r)
        PROVE  fop' \in [Uploads -> Handlers]
    <3>1. r.upload \in Uploads /\ r.for \in Callers  BY DEF MasterTypes, Requests
    <3> QED  BY <1>f, <2>1, <2>2, <3>1 DEF Refuse, RelayedPut, Prove, Reconcile
  <2>3. ASSUME NEW u \in Uploads, BrowserPut(u) \/ SweepStorage(u) PROVE fop' \in [Uploads -> Handlers]
    BY <1>k, <2>1, <2>3 DEF BrowserPut, SweepStorage
  <2>4. ASSUME NEW u \in Uploads, PutRename(u) \/ PutSync(u) \/ PutComplete(u) \/ PutFails(u) \/ Clear(u)
        PROVE  fop' \in [Uploads -> Handlers]
    BY <1>f, <2>4 DEF PutRename, PutSync, PutComplete, PutFails, Clear, GoOn, Handlers
  <2>5. ASSUME NEW u \in Uploads, Look(u) PROVE fop' \in [Uploads -> Handlers]
    <3>1. Owner(u) \in Uploads \cup {NoUpload}
      <4>1. Owners(u) \subseteq Uploads  BY DEF Owners, FollowerTypes
      <4> QED  BY <4>1 DEF Owner
    <3>2. /\ [fop[u] EXCEPT !.step = "prove"] \in Handlers
          /\ \A o \in Uploads \cup {NoUpload} :
               [fop[u] EXCEPT !.step = "check", !.owner = o] \in Handlers
      BY <1>f DEF Handlers
    <3>3. \/ fop' = [fop EXCEPT ![u] = [fop[u] EXCEPT !.step = "prove"]]
          \/ fop' = [fop EXCEPT ![u] = [fop[u] EXCEPT !.step = "check", !.owner = Owner(u)]]
      BY <1>f, <2>5 DEF Look, Handlers
    <3> QED  BY <1>f, <3>1, <3>2, <3>3
  <2>6. ASSUME NEW u \in Uploads,
              \/ PutDone(u) \/ ProveEnds(u) \/ ProveFails(u) \/ ClearRefused(u) \/ ClearCommit(u)
              \/ HandlerFails(u)
        PROVE  fop' \in [Uploads -> Handlers]
    <3>1. ASSUME ProveFails(u), fop' = [fop EXCEPT ![u].step = "look", ![u].expired = FALSE]
          PROVE  fop' \in [Uploads -> Handlers]
      BY <1>f, <3>1 DEF Handlers
    <3> QED
      BY <2>6, <3>1, Ended
      DEF PutDone, ProveEnds, ProveFails, ClearRefused, ClearCommit, HandlerFails
  <2>7. CASE MasterCrash \/ (\E u \in Uploads : CallTimesOut(u)) \/ \E d \in Deleters : DeleteTimesOut(d)
    <3>1. {"master"} \subseteq Callers /\ Callers \ {"nobody"} \subseteq Callers
          /\ \A d \in Deleters : {d} \subseteq Callers
      BY <1>k
    <3> QED  BY <2>7, <3>1, Abandons DEF MasterCrash, CallTimesOut, DeleteTimesOut
  <2>8. CASE FollowerCrash
    <3>1. Idle \in Handlers  BY <1>k DEF Idle, Handlers
    <3> QED  BY <2>8, <3>1 DEF FollowerCrash
  <2>9. ASSUME fop' = fop PROVE fop' \in [Uploads -> Handlers]  BY <1>f, <2>9
  <2>10. CASE \E u \in Uploads :
              \/ StartRelay(u) \/ StartFinalize(u) \/ CancelUpload(u) \/ SweepExpired(u)
              \/ TransferAnswered(u) \/ CleanupAnswered(u) \/ FinalizeRollsBack(u)
              \/ FinalizeUpload(u) \/ FinalizeCommitUnknown(u) \/ FailUpload(u) \/ MarkPendingDelete(u)
              \/ \E p \in Paths : Reserve(u, p)
    BY <2>9, <2>10 DEF StartRelay, StartFinalize, CancelUpload, SweepExpired, TransferAnswered,
     CleanupAnswered, FinalizeRollsBack, FinalizeUpload, FinalizeCommitUnknown, FailUpload,
     MarkPendingDelete, Reserve
  <2>11. CASE UNCHANGED vars \/ \E d \in Deleters : SettleDelete(d) \/ \E u \in Uploads : RetryPendingMedia(d, u)
    BY <2>9, <2>11 DEF vars, SettleDelete, RetryPendingMedia
  <2> QED
    BY <2>2, <2>3, <2>4, <2>5, <2>6, <2>7, <2>8, <2>10, <2>11
    DEF Next, MasterStep, DeleterStep, HandlerStep, Receive
<1>2. CASE Quiet \/ MasterMoves
  BY <1>1, <1>2 DEF Quiet, MasterMoves, disk, followerDb, FollowerTypes
<1>3. CASE FollowerCrash
  <2>1. target' \in [Paths -> Uploads \cup {NoUpload}] /\ part' \subseteq Uploads
    BY <1>3 DEF FollowerCrash, FollowerTypes
  <2> QED  BY <1>1, <1>3, <2>1 DEF FollowerCrash, followerDb, FollowerTypes
<1>4. ASSUME NEW u \in Uploads, FilesStep(u) PROVE FollowerTypes'
  <2>1. fop[u].step # "idle" => path[u] \in Paths  BY DEF HandlersFit, RowsFit, MasterTypes
  <2> QED
    BY <1>1, <1>4, <2>1 DEF FilesStep, ReserveRow, PutRename, PutSync, CompleteRow, Clear, ClearCommit,
       Set, disk, followerDb, FollowerTypes
<1> QED  BY <1>2, <1>3, <1>4, StepKinds DEF FollowerMoves

-----------------------------------------------------------------------------
(* The rows of the two nodes.                                                  *)

LEMMA RowsNext ==
  ASSUME SUInv, MasterTypes', FollowerTypes', [Next]_vars
  PROVE  RowsFit'
<1>i. MasterTypes /\ FollowerTypes /\ RowsFit /\ HandlersFit /\ CallsFit /\ CommittedStored
  BY DEF SUInv
<1>1. CASE Quiet
  BY <1>1, <1>i DEF Quiet, followerDb, RowsFit
<1>2. CASE MasterMoves
  <2>r. row' = row  BY <1>2 DEF MasterMoves, followerDb
  <2>1. ASSUME NEW u \in Uploads, NEW p \in Paths, Reserve(u, p) PROVE RowsFit'
    BY <2>r, <2>1, <1>i, Distinct DEF Reserve, Set, RowsFit, MasterTypes
  <2>2. ASSUME NEW u \in Uploads, session[u] = "reserved", mop[u] \in {"proved", "recovered"},
               session' = [session EXCEPT ![u] = "complete"],
               catalog' = [catalog EXCEPT ![u] = "active"], path' = path
        PROVE RowsFit'
    <3>1. row[u] = "complete"  BY <1>i, <2>2 DEF CommittedStored, Committed, Stored
    <3> QED  BY <2>r, <2>2, <3>1, <1>i DEF RowsFit, MasterTypes
  <2>3. ASSUME NEW u \in Uploads, session[u] = "reserved", mop[u] = "cleared",
               session' = [session EXCEPT ![u] = "gone"], catalog' = catalog, path' = path
        PROVE RowsFit'
    <3>1. row[u] = "cancelled"  BY <1>i, <2>3 DEF CallsFit, CallFits
    <3> QED  BY <2>r, <2>3, <3>1, <1>i DEF RowsFit, MasterTypes
  <2>4. ASSUME NEW u \in Uploads, MarkPendingDelete(u) PROVE RowsFit'
    BY <2>r, <2>4, <1>i DEF MarkPendingDelete, Set, RowsFit, MasterTypes
  <2>5. ASSUME NEW d \in Deleters, SettleDelete(d) PROVE RowsFit'
    <3>1. deleting[d].upload \in Uploads /\ row[deleting[d].upload] = "cancelled"
          /\ catalog[deleting[d].upload] # "none"
      BY <1>i, <2>5 DEF SettleDelete, CallsFit, DeletionFits, Deleted
    <3> QED  BY <2>r, <2>5, <3>1, <1>i DEF SettleDelete, Set, RowsFit, MasterTypes
  <2> QED  BY <1>2, <2>1, <2>2, <2>3, <2>4, <2>5 DEF MasterMoves, CatalogStep
<1>3. CASE FollowerMoves
  <2>1. session' = session /\ catalog' = catalog /\ path' = path  BY <1>3 DEF FollowerMoves
  <2>2. CASE FollowerCrash
    BY <2>1, <2>2, <1>i DEF FollowerCrash, followerDb, RowsFit
  <2>3. ASSUME NEW u \in Uploads, FilesStep(u) PROVE RowsFit'
    <3>1. CASE row' = row  BY <2>1, <3>1, <1>i DEF RowsFit
    <3>2. CASE row' = [row EXCEPT ![u] = "reserved"] /\ row[u] = "none" /\ session[u] # "new"
      BY <2>1, <3>2, <1>i DEF RowsFit, FollowerTypes
    <3>3. CASE row' = [row EXCEPT ![u] = "complete"] /\ row[u] = "reserved"
      BY <2>1, <3>3, <1>i DEF RowsFit, FollowerTypes
    <3>4. CASE row' = [row EXCEPT ![u] = "cancelled"] /\ session[u] # "new"
      BY <2>1, <3>4, <1>i DEF RowsFit, FollowerTypes
    <3> QED
      BY <2>3, <3>1, <3>2, <3>3, <3>4, <1>i DEF FilesStep, CanReserve, ReserveRow, PutRename, PutSync,
         CanComplete, CompleteRow, Clear, ClearCommit, followerDb, Set, HandlersFit
  <2> QED  BY <1>3, <2>2, <2>3 DEF FollowerMoves
<1> QED  BY <1>1, <1>2, <1>3, <1>i, StepKinds

\* The path of an upload that a handler works on.
LEMMA PathHeld ==
  ASSUME MasterTypes, FollowerTypes, RowsFit, HandlersFit, NEW u \in Uploads,
         fop[u].step # "idle" \/ session[u] # "new" \/ Live(u)
  PROVE  path[u] \in Paths
BY DEF RowsFit, HandlersFit, Live, MasterTypes

LEMMA AtPathIff ==
  ASSUME MasterTypes, FollowerTypes, RowsFit, HandlersFit, NEW u \in Uploads
  PROVE  /\ AtPath(u) <=> path[u] \in Paths /\ target[path[u]] = u
         /\ AtPath(u)' <=> path'[u] # NoPath /\ target'[path'[u]] = u
BY Distinct DEF AtPath, Here, MasterTypes

\* The bytes a clean-up may take away, or a proof may find, are the upload's own.
LEMMA OwnBytes ==
  ASSUME MasterTypes, FollowerTypes, RowsFit, HandlersFit, PathsOwned, BytesFit, NEW u \in Uploads,
         path[u] \in Paths, Live(u) \/ (fop[u].step = "check" /\ MayClear(u))
  PROVE  Here(u) \in {u, NoUpload}
<1>1. CASE Live(u)
  BY <1>1 DEF PathsOwned, Here, FollowerTypes
<1>2. CASE fop[u].step = "check" /\ MayClear(u) /\ ~Live(u)
  <2>1. fop[u].owner = u => Live(u)
    BY <1>2 DEF HandlersFit, BytesFit, Rows, Live
  <2> QED  BY <1>2, <2>1 DEF MayClear, Live
<1> QED  BY <1>1, <1>2

LEMMA PathsNext ==
  ASSUME SUInv, MasterTypes', FollowerTypes', [Next]_vars
  PROVE  PathsOwned'
<1>i. MasterTypes /\ FollowerTypes /\ RowsFit /\ PathsOwned /\ BytesFit /\ HandlersFit /\ CallsFit
  BY DEF SUInv
<1>1. CASE Quiet
  BY <1>1, <1>i DEF Quiet, disk, followerDb, PathsOwned, Live
<1>2. CASE MasterMoves
  <2>1. row' = row /\ target' = target  BY <1>2 DEF MasterMoves, disk, followerDb
  <2>2. CASE path' = path
    BY <2>1, <2>2, <1>i DEF PathsOwned, Live
  <2>3. ASSUME NEW u \in Uploads, NEW p \in Paths, Reserve(u, p) PROVE PathsOwned'
    <3>1. ~Live(u) /\ path' = [path EXCEPT ![u] = p]
      BY <2>3, <1>i DEF Reserve, Set, RowsFit, Live
    <3> QED  BY <2>1, <3>1, <1>i DEF PathsOwned, Live, MasterTypes, FollowerTypes
  <2> QED  BY <1>2, <2>2, <2>3 DEF MasterMoves, CatalogStep, MarkPendingDelete, SettleDelete
<1>3. CASE FollowerMoves
  <2>p. path' = path  BY <1>3 DEF FollowerMoves
  <2>1. CASE FollowerCrash
    <3>1. \A p \in Paths : target'[p] \in {target[p], NoUpload}
      BY <2>1, <1>i DEF FollowerCrash, FollowerTypes
    <3> QED  BY <2>1, <2>p, <3>1, <1>i DEF FollowerCrash, followerDb, PathsOwned, Live
  <2>2. ASSUME NEW u \in Uploads, FilesStep(u) PROVE PathsOwned'
    <3>1. path[u] \in Paths
      BY <2>2, <1>i, PathHeld DEF FilesStep, PutRename, PutSync, Clear, ClearCommit
    <3>2. CASE row' = row /\ target' = target
      BY <2>p, <3>2, <1>i DEF PathsOwned, Live
    <3>3. CASE ReserveRow(u) /\ CanReserve(u)
      <4>1. \A v \in Uploads : Live(v) => path[v] # path[u]
        BY <3>3, <1>i DEF CanReserve, Owners, BytesFit, Rows, Live
      <4>2. row' = [row EXCEPT ![u] = "reserved"] /\ target' = target
        BY <3>3 DEF ReserveRow, Set
      <4> QED  BY <2>p, <4>1, <4>2, <1>i DEF PathsOwned, Live, FollowerTypes
    <3>4. CASE PutRename(u)
      <4>1. row' = row /\ target' = [target EXCEPT ![path[u]] = u] /\ Live(u)
        BY <3>4, <1>i DEF PutRename, Set, followerDb, HandlersFit, Live
      <4> QED  BY <2>p, <3>1, <4>1, <1>i DEF PathsOwned, Live, FollowerTypes
    <3>5. CASE row[u] = "reserved" /\ CompleteRow(u) /\ target' = target
      <4>1. row' = [row EXCEPT ![u] = "complete"]  BY <3>5 DEF CompleteRow, Set
      <4> QED  BY <2>p, <3>5, <4>1, <1>i DEF PathsOwned, Live, FollowerTypes
    <3>6. CASE Clear(u)
      <4>1. row' = row /\ target' = [target EXCEPT ![path[u]] = NoUpload]
        BY <3>6 DEF Clear, Set, followerDb
      <4> QED  BY <2>p, <3>1, <4>1, <1>i DEF PathsOwned, Live, FollowerTypes
    <3>7. CASE ClearCommit(u)
      <4>1. row' = [row EXCEPT ![u] = "cancelled"] /\ target' = target
        BY <3>7 DEF ClearCommit, Set, disk
      <4>2. \A p \in Paths : target[p] # u
        <5>1. ~AtPath(u)  BY <3>7, <1>i DEF ClearCommit, HandlersFit
        <5>2. ASSUME NEW p \in Paths, target[p] = u PROVE path[u] = p
          BY <5>2, <1>i, Distinct DEF PathsOwned
        <5> QED  BY <5>1, <5>2, <3>1, <1>i, AtPathIff
      <4> QED  BY <2>p, <4>1, <4>2, <1>i DEF PathsOwned, Live, FollowerTypes
    <3> QED
      BY <2>2, <3>2, <3>3, <3>4, <3>5, <3>6, <3>7 DEF FilesStep, PutSync, CanComplete, disk, followerDb
  <2> QED  BY <1>3, <2>1, <2>2 DEF FollowerMoves
<1> QED  BY <1>1, <1>2, <1>3, <1>i, StepKinds

\* A new path holds no bytes of the upload that reserves it.
LEMMA NewPathEmpty ==
  ASSUME MasterTypes, FollowerTypes, RowsFit, PathsOwned, NEW u \in Uploads, NEW p \in Paths,
         Reserve(u, p)
  PROVE  target[p] # u
BY Distinct DEF Reserve, RowsFit, PathsOwned, Live

LEMMA BytesNext ==
  ASSUME SUInv, MasterTypes', FollowerTypes', [Next]_vars
  PROVE  BytesFit'
<1>i. MasterTypes /\ FollowerTypes /\ RowsFit /\ PathsOwned /\ BytesFit /\ HandlersFit /\ CallsFit
  BY DEF SUInv
<1>1. CASE Quiet
  BY <1>1, <1>i DEF Quiet, disk, followerDb, BytesFit, Rows, AtPath, Here
<1>2. CASE MasterMoves
  <2>1. row' = row /\ target' = target /\ part' = part /\ durable' = durable /\ indexed' = indexed
    BY <1>2 DEF MasterMoves, disk, followerDb
  <2>2. CASE path' = path
    BY <2>1, <2>2, <1>i DEF BytesFit, Rows, AtPath, Here
  <2>3. ASSUME NEW u \in Uploads, NEW p \in Paths, Reserve(u, p) PROVE BytesFit'
    <3>1. path' = [path EXCEPT ![u] = p] /\ target[p] # u
      BY <2>3, <1>i, NewPathEmpty DEF Reserve, Set
    <3>2. \A v \in Uploads : AtPath(v)' => AtPath(v)
      BY <2>1, <3>1, <1>i DEF AtPath, Here, MasterTypes
    <3> QED  BY <2>1, <3>2, <1>i DEF BytesFit, Rows
  <2> QED  BY <1>2, <2>2, <2>3 DEF MasterMoves, CatalogStep, MarkPendingDelete, SettleDelete
<1>3. CASE FollowerMoves
  <2>p. path' = path  BY <1>3 DEF FollowerMoves
  <2>1. CASE FollowerCrash
    <3>1. PICK undone \in SUBSET {u \in Uploads \ durable : path[u] # NoPath /\ Here(u) = u} :
            /\ target' = [p \in Paths |-> IF target[p] \in undone THEN NoUpload ELSE target[p]]
            /\ part' = part \cup undone
      BY <2>1 DEF FollowerCrash
    <3>2. row' = row /\ durable' = durable /\ indexed' = indexed  BY <2>1 DEF FollowerCrash, followerDb
    <3>3. ASSUME NEW u \in Uploads, AtPath(u)' PROVE AtPath(u) /\ u \notin undone
      <4>1. path[u] \in Paths /\ target'[path[u]] = u
        BY <2>p, <3>3, <1>i DEF AtPath, Here, MasterTypes
      <4> QED  BY <3>1, <4>1, <1>i, Distinct, AtPathIff
    <3> QED  BY <3>1, <3>2, <3>3, <1>i DEF BytesFit, Rows
  <2>2. ASSUME NEW u \in Uploads, FilesStep(u) PROVE BytesFit'
    <3>1. path[u] \in Paths
      BY <2>2, <1>i, PathHeld DEF FilesStep, PutRename, PutSync, Clear, ClearCommit
    <3>a. \A v \in Uploads : /\ AtPath(v) <=> path[v] \in Paths /\ target[path[v]] = v
                             /\ AtPath(v)' <=> path[v] \in Paths /\ target'[path[v]] = v
      BY <2>p, <1>i, AtPathIff, Distinct DEF MasterTypes
    <3>2. CASE CanReserve(u) /\ ReserveRow(u)
      <4>1. /\ row' = [row EXCEPT ![u] = "reserved"] /\ row[u] = "none" /\ target' = target
            /\ part' = part \cup {u} /\ durable' = durable /\ indexed' = indexed /\ ~AtPath(u)
        BY <3>2, Distinct DEF CanReserve, ReserveRow, Set, AtPath
      <4> QED  BY <3>a, <4>1, <1>i DEF BytesFit, Rows, FollowerTypes
    <3>3. CASE PutRename(u)
      <4>1. /\ row' = row /\ target' = [target EXCEPT ![path[u]] = u] /\ row[u] = "reserved"
            /\ part' = part \ {u} /\ durable' = durable /\ indexed' = indexed
        BY <3>3, <1>i DEF PutRename, Set, followerDb, HandlersFit
      <4> QED  BY <3>1, <3>a, <4>1, <1>i DEF BytesFit, Rows, FollowerTypes
    <3>4. CASE PutSync(u)
      <4>1. /\ row' = row /\ target' = target
            /\ part' = part /\ durable' = durable \cup {u} /\ indexed' = indexed
        BY <3>4 DEF PutSync, followerDb
      <4> QED  BY <3>a, <4>1, <1>i DEF BytesFit, Rows
    <3>5. CASE /\ row[u] = "reserved" /\ CompleteRow(u) /\ target' = target /\ part' = part
               /\ u \in durable' /\ durable \subseteq durable'
      <4>1. row' = [row EXCEPT ![u] = "complete"] /\ indexed' = indexed \cup {u}
        BY <3>5 DEF CompleteRow, Set
      <4> QED  BY <3>5, <3>a, <4>1, <1>i DEF BytesFit, Rows, FollowerTypes
    <3>6. CASE Clear(u)
      <4>1. /\ row' = row /\ target' = [target EXCEPT ![path[u]] = NoUpload]
            /\ part' = part \ {u} /\ durable' = durable \ {Here(u)} /\ indexed' = indexed
        BY <3>6 DEF Clear, Set, followerDb
      <4>2. Here(u) \in {u, NoUpload}  BY <3>1, <3>6, <1>i, OwnBytes DEF Clear
      <4> QED  BY <3>1, <3>a, <4>1, <4>2, <1>i, Distinct DEF BytesFit, Rows, FollowerTypes
    <3>7. CASE ClearCommit(u)
      <4>1. /\ row' = [row EXCEPT ![u] = "cancelled"] /\ target' = target
            /\ part' = part /\ durable' = durable /\ indexed' = indexed \ {u}
        BY <3>7 DEF ClearCommit, Set, disk
      <4> QED  BY <3>a, <4>1, <1>i DEF BytesFit, Rows, FollowerTypes
    <3>8. fop[u].step = "synced" => row[u] = "reserved" /\ u \in durable
      BY <1>i DEF HandlersFit
    <3> QED
      BY <2>2, <3>2, <3>3, <3>4, <3>5, <3>6, <3>7, <3>8 DEF FilesStep, disk
  <2> QED  BY <1>3, <2>1, <2>2 DEF FollowerMoves
<1> QED  BY <1>1, <1>2, <1>3, <1>i, StepKinds

\* Steps that are not of its own handler leave an upload at the Follower alone.
LEMMA OthersLeave ==
  ASSUME SUInv, MasterTypes', FollowerTypes', [Next]_vars, NEW u \in Uploads,
         session[u] # "new", ~FollowerCrash, ~FilesStep(u)
  PROVE  /\ row'[u] = row[u] /\ session'[u] # "new" /\ path'[u] = path[u]
         /\ u \in durable <=> u \in durable'
         /\ u \in indexed <=> u \in indexed'
         /\ u \in part <=> u \in part'
         /\ AtPath(u)' <=> AtPath(u)
<1>i. MasterTypes /\ FollowerTypes /\ RowsFit /\ PathsOwned /\ BytesFit /\ HandlersFit /\ CallsFit
  BY DEF SUInv
<1>1. CASE Quiet
  BY <1>1 DEF Quiet, disk, followerDb, AtPath, Here
<1>2. CASE MasterMoves
  <2>1. row' = row /\ target' = target /\ part' = part /\ durable' = durable /\ indexed' = indexed
    BY <1>2 DEF MasterMoves, disk, followerDb
  <2>2. session'[u] # "new" /\ path'[u] = path[u]
    BY <1>2, <1>i DEF MasterMoves, CatalogStep, Reserve, MarkPendingDelete, SettleDelete, Set, MasterTypes
  <2> QED  BY <2>1, <2>2 DEF AtPath, Here
<1>3. CASE FollowerMoves
  <2>p. path' = path /\ session' = session  BY <1>3 DEF FollowerMoves
  <2>2. PICK v \in Uploads : FilesStep(v)  BY <1>3 DEF FollowerMoves
  <2>4. v # u  BY <2>2
  <2>5. path[u] \in Paths /\ path[v] \in Paths
    BY <2>2, <1>i, PathHeld DEF FilesStep, PutRename, PutSync, Clear, ClearCommit
  <2>a. /\ AtPath(u) <=> target[path[u]] = u
        /\ AtPath(u)' <=> target'[path[u]] = u
    BY <2>p, <2>5, <1>i, AtPathIff, Distinct DEF MasterTypes
  <2>l. AtPath(u) => Live(u)  BY <2>5, <2>a, <1>i, Distinct DEF PathsOwned
  <2>6. CASE PutRename(v)
    <3>1. /\ row' = row /\ target' = [target EXCEPT ![path[v]] = v] /\ Live(v)
          /\ part' = part \ {v} /\ durable' = durable /\ indexed' = indexed
      BY <2>6, <1>i DEF PutRename, Set, followerDb, HandlersFit, Live
    <3>2. AtPath(u)' <=> AtPath(u)
      BY <2>a, <2>l, <2>4, <2>5, <3>1, <1>i DEF PathsOwned, FollowerTypes
    <3> QED  BY <2>p, <2>4, <3>1, <3>2
  <2>7. CASE Clear(v)
    <3>1. /\ row' = row /\ target' = [target EXCEPT ![path[v]] = NoUpload]
          /\ part' = part \ {v} /\ durable' = durable \ {Here(v)} /\ indexed' = indexed
      BY <2>7 DEF Clear, Set, followerDb
    <3>2. Here(v) \in {v, NoUpload}  BY <2>5, <2>7, <1>i, OwnBytes DEF Clear
    <3>3. AtPath(u)' <=> AtPath(u)
      BY <2>a, <2>4, <2>5, <3>1, <3>2, <1>i, Distinct DEF Here, FollowerTypes
    <3> QED  BY <2>p, <2>4, <3>1, <3>2, <3>3, Distinct
  <2>8. CASE target' = target
    <3>1. row'[u] = row[u] /\ (u \in durable <=> u \in durable') /\ (u \in indexed <=> u \in indexed')
          /\ (u \in part <=> u \in part')
      BY <2>2, <2>4, <2>6, <2>7, <2>8, <1>i DEF FilesStep, ReserveRow, PutSync, CompleteRow, ClearCommit, Set,
         disk, followerDb, FollowerTypes
    <3> QED  BY <2>p, <2>a, <2>8, <3>1
  <2> QED
    BY <2>2, <2>6, <2>7, <2>8 DEF FilesStep, ReserveRow, PutSync, CompleteRow, ClearCommit, disk
<1> QED  BY <1>1, <1>2, <1>3, <1>i, StepKinds

\* While a handler rests at its step, its upload is left alone.
LEMMA HandlerUndisturbed ==
  ASSUME SUInv, MasterTypes', FollowerTypes', [Next]_vars, NEW u \in Uploads,
         fop'[u].step = fop[u].step, fop[u].step # "idle"
  PROVE  /\ row'[u] = row[u] /\ session[u] # "new" /\ session'[u] # "new"
         /\ u \in durable <=> u \in durable'
         /\ u \in indexed <=> u \in indexed'
         /\ u \in part <=> u \in part'
         /\ AtPath(u)' <=> AtPath(u)
<1>f. fop \in [Uploads -> Handlers]  BY DEF SUInv, FollowerTypes
<1>1. session[u] # "new"  BY DEF SUInv, HandlersFit
<1>2. ~FollowerCrash
  <2>1. FollowerCrash => fop'[u] = Idle  BY DEF FollowerCrash
  <2> QED  BY <2>1 DEF Idle
<1>3. ~FilesStep(u)
  <2>1. ~(PutRename(u) \/ PutSync(u) \/ Clear(u))
    BY <1>f DEF PutRename, PutSync, Clear, GoOn, Handlers
  <2>2. ~ClearCommit(u)  BY <1>f DEF ClearCommit, End, Set, Idle
  <2> QED  BY <2>1, <2>2 DEF FilesStep, Idle
<1> QED  BY <1>1, <1>2, <1>3, OthersLeave

\* What the steps of the Follower's handler for an upload do with its step.
HandlerMoves(u) ==
  \/ fop'[u].step = "idle"
  \/ /\ fop'[u].step = fop[u].step /\ fop'[u].owner = fop[u].owner
     /\ fop'[u].expired = fop[u].expired
  \/ /\ fop[u] = Idle /\ session[u] # "new"
     /\ fop'[u].step = "write" /\ CanReserve(u) /\ ReserveRow(u)
  \/ fop[u] = Idle /\ session[u] # "new" /\ fop'[u].step = "prove" /\ ~fop'[u].expired
  \/ /\ fop[u] = Idle /\ session[u] # "new" /\ fop'[u].step = "look"
     /\ \/ row[u] = "reserved"
        \/ \E r \in net : r.upload = u /\ r.kind \in {"clean", "sweep", "delete"}
  \/ PutRename(u) /\ fop'[u].step = "renamed"
  \/ PutSync(u) /\ fop'[u].step = "synced"
  \/ PutComplete(u) /\ fop'[u].step = "completed"
  \/ fop[u].step \in {"write", "renamed", "synced", "completed"} /\ fop'[u].step = "look"
  \/ fop[u].step = "prove" /\ fop[u].expired /\ fop'[u].step = "look"
  \/ fop[u].step = "look" /\ fop'[u].step = "prove"
  \/ /\ fop[u].step = "look" /\ fop'[u].step = "check" /\ fop'[u].owner = Owner(u)
     /\ UNCHANGED <<disk, followerDb, path, session>>
  \/ Clear(u) /\ fop'[u].step = "cleared" /\ fop'[u].owner = fop[u].owner

LEMMA HandlerSteps ==
  ASSUME MasterTypes, FollowerTypes, RowsFit, CallsFit, LateRequests = FALSE, [Next]_vars,
         NEW u \in Uploads
  PROVE  HandlerMoves(u)
<1>f. fop \in [Uploads -> Handlers]  BY DEF FollowerTypes
<1> DEFINE Rests == /\ fop'[u].step = fop[u].step /\ fop'[u].owner = fop[u].owner
                    /\ fop'[u].expired = fop[u].expired
<1>1. ASSUME NEW v \in Uploads, v # u, fop'[u] = fop[u] PROVE Rests
  BY <1>1
<1>2. ASSUME NEW v \in Uploads, NEW s, NEW e, NEW c, Enter(v, s, e, c)
      PROVE  IF v = u THEN fop'[u].step = s /\ fop'[u].expired = e ELSE Rests
  BY <1>f, <1>2 DEF Enter, Set, Idle
<1>3. ASSUME NEW v \in Uploads, NEW s, GoOn(v, s)
      PROVE  IF v = u THEN fop'[u].step = s /\ fop'[u].owner = fop[u].owner ELSE Rests
  BY <1>f, <1>3 DEF GoOn, Handlers
<1>4. ASSUME NEW v \in Uploads, NEW a, End(v, a) PROVE fop'[u].step = "idle" \/ Rests
  BY <1>f, <1>4 DEF End, Set, Idle
<1>5. ASSUME NEW r \in net, Refuse(r) \/ RelayedPut(r) \/ Prove(r) \/ Reconcile(r) PROVE HandlerMoves(u)
  <2>1. r.upload \in Uploads /\ session[r.upload] # "new"  BY DEF MasterTypes, Requests, CallsFit, RequestFits
  <2>2. CASE Refuse(r)  BY <2>2 DEF Refuse, HandlerMoves
  <2>3. CASE RelayedPut(r)  BY <2>1, <2>3, <1>2 DEF RelayedPut, HandlerMoves
  <2>4. CASE Prove(r)  BY <2>1, <2>4, <1>2 DEF Prove, HandlerMoves
  <2>5. CASE Reconcile(r)  BY <2>1, <2>5, <1>2 DEF Reconcile, HandlerMoves
  <2> QED  BY <1>5, <2>2, <2>3, <2>4, <2>5
<1>6. ASSUME NEW v \in Uploads, BrowserPut(v) PROVE HandlerMoves(u)
  BY <1>6, <1>2 DEF BrowserPut, HandlerMoves
<1>7. ASSUME NEW v \in Uploads, SweepStorage(v) PROVE HandlerMoves(u)
  <2>1. session[v] # "new"  BY <1>7 DEF SweepStorage, RowsFit
  <2> QED  BY <2>1, <1>7, <1>2 DEF SweepStorage, HandlerMoves
<1>8. ASSUME NEW v \in Uploads, PutRename(v) \/ PutSync(v) \/ PutComplete(v) \/ Clear(v)
      PROVE  HandlerMoves(u)
  BY <1>8, <1>3 DEF PutRename, PutSync, PutComplete, Clear, HandlerMoves
<1>9. ASSUME NEW v \in Uploads, PutFails(v) PROVE HandlerMoves(u)
  BY <1>9, <1>f DEF PutFails, HandlerMoves, Handlers
<1>10. ASSUME NEW v \in Uploads, Look(v) PROVE HandlerMoves(u)
  BY <1>10, <1>f DEF Look, HandlerMoves, Handlers, masterDb
<1>11. ASSUME NEW v \in Uploads, ProveFails(v) PROVE HandlerMoves(u)
  BY <1>11, <1>f, <1>4 DEF ProveFails, HandlerMoves, Handlers
<1>12. ASSUME NEW v \in Uploads,
              PutDone(v) \/ ProveEnds(v) \/ ClearRefused(v) \/ ClearCommit(v) \/ HandlerFails(v)
       PROVE  HandlerMoves(u)
  BY <1>12, <1>4 DEF PutDone, ProveEnds, ClearRefused, ClearCommit, HandlerFails, HandlerMoves
<1>13. CASE MasterCrash \/ (\E v \in Uploads : CallTimesOut(v)) \/ \E d \in Deleters : DeleteTimesOut(d)
  <2>1. {"master"} \subseteq Callers /\ Callers \ {"nobody"} \subseteq Callers
        /\ \A d \in Deleters : {d} \subseteq Callers
    BY DEF Callers
  <2> QED  BY <1>13, <2>1, Abandons DEF MasterCrash, CallTimesOut, DeleteTimesOut, HandlerMoves
<1>14. CASE FollowerCrash
  BY <1>14 DEF FollowerCrash, Idle, HandlerMoves
<1>15. CASE \E v \in Uploads :
              \/ StartRelay(v) \/ StartFinalize(v) \/ CancelUpload(v) \/ SweepExpired(v)
              \/ TransferAnswered(v) \/ CleanupAnswered(v) \/ FinalizeRollsBack(v)
              \/ FinalizeUpload(v) \/ FinalizeCommitUnknown(v) \/ FailUpload(v) \/ MarkPendingDelete(v)
              \/ \E p \in Paths : Reserve(v, p)
  BY <1>15 DEF StartRelay, StartFinalize, CancelUpload, SweepExpired, TransferAnswered,
     CleanupAnswered, FinalizeRollsBack, FinalizeUpload, FinalizeCommitUnknown, FailUpload,
     MarkPendingDelete, Reserve, HandlerMoves
<1>16. CASE UNCHANGED vars \/ \E d \in Deleters : SettleDelete(d) \/ \E v \in Uploads : RetryPendingMedia(d, v)
  BY <1>16 DEF vars, SettleDelete, RetryPendingMedia, HandlerMoves
<1> QED
  BY <1>5, <1>6, <1>7, <1>8, <1>9, <1>10, <1>11, <1>12, <1>13, <1>14, <1>15, <1>16
  DEF Next, MasterStep, DeleterStep, HandlerStep, Receive

LEMMA HandlersNext ==
  ASSUME SUInv, LateRequests = FALSE, MasterTypes', FollowerTypes', [Next]_vars
  PROVE  HandlersFit'
<1>i. MasterTypes /\ FollowerTypes /\ RowsFit /\ PathsOwned /\ BytesFit /\ HandlersFit /\ CallsFit
  BY DEF SUInv
<1>b. PathsOwned' /\ BytesFit' /\ RowsFit'  BY PathsNext, BytesNext, RowsNext
<1> DEFINE Fit(u) ==
    /\ fop[u].step # "idle" => session[u] # "new"
    /\ fop[u].step \in {"write", "renamed", "synced"} => row[u] = "reserved"
    /\ fop[u].step \in {"renamed", "synced"} => AtPath(u)
    /\ fop[u].step = "synced" => u \in durable
    /\ fop[u].step = "completed" => Stored(u)
    /\ fop[u].step \in {"check", "cleared"} /\ fop[u].owner = u => u \in indexed
    /\ fop[u].step = "cleared" => u \notin part /\ ~AtPath(u)
<1> SUFFICES ASSUME NEW u \in Uploads PROVE Fit(u)'  BY DEF HandlersFit
<1>h. Fit(u)  BY <1>i DEF HandlersFit
<1>n. session[u] # "new" => session'[u] # "new"
  BY <1>i, StepKinds DEF Quiet, MasterMoves, FollowerMoves, CatalogStep, Reserve, MarkPendingDelete,
     SettleDelete, Set, MasterTypes
<1>1. CASE fop'[u].step = "idle"  BY <1>1
<1>2. CASE /\ fop'[u].step = fop[u].step /\ fop'[u].owner = fop[u].owner
           /\ fop[u].step # "idle"
  BY <1>2, <1>h, HandlerUndisturbed DEF Stored
<1>3. CASE /\ fop[u] = Idle /\ session[u] # "new"
           /\ fop'[u].step = "write" /\ CanReserve(u) /\ ReserveRow(u)
  BY <1>3, <1>n, <1>i DEF ReserveRow, Set, FollowerTypes
<1>4. CASE session[u] # "new" /\ fop'[u].step \in {"prove", "look"}
  BY <1>4, <1>n
<1>5. CASE PutRename(u) /\ fop'[u].step = "renamed"
  <2>1. row'[u] = "reserved" /\ path' = path /\ session[u] # "new"
    BY <1>5, <1>h DEF PutRename, followerDb, masterDb
  <2>2. path[u] \in Paths  BY <2>1, <1>i, PathHeld
  <2>3. target' = [target EXCEPT ![path[u]] = u]  BY <1>5 DEF PutRename, Set
  <2>4. AtPath(u)'  BY <2>1, <2>2, <2>3, <1>i, Distinct DEF AtPath, Here, FollowerTypes
  <2> QED  BY <1>5, <1>n, <2>1, <2>4
<1>6. CASE PutSync(u) /\ fop'[u].step = "synced"
  <2>1. /\ row' = row /\ path' = path /\ session[u] # "new" /\ target' = target
        /\ durable' = durable \cup {u}
    BY <1>6, <1>h DEF PutSync, followerDb, masterDb
  <2> QED  BY <1>6, <1>h, <1>n, <2>1 DEF PutSync, AtPath, Here
<1>7. CASE PutComplete(u) /\ fop'[u].step = "completed"
  <2>1. /\ row' = [row EXCEPT ![u] = "complete"] /\ path' = path /\ session[u] # "new" /\ target' = target
        /\ durable' = durable /\ indexed' = indexed \cup {u}
    BY <1>7, <1>h DEF PutComplete, CompleteRow, Set, disk, masterDb
  <2> QED  BY <1>7, <1>h, <1>i, <1>n, <2>1 DEF PutComplete, AtPath, Here, Stored, FollowerTypes
<1>8. CASE fop[u].step # "idle" /\ fop'[u].step \in {"look", "prove"}
  BY <1>8, <1>h, <1>n
<1>9. CASE /\ fop[u].step = "look" /\ fop'[u].step = "check" /\ fop'[u].owner = Owner(u)
           /\ UNCHANGED <<disk, followerDb, path, session>>
  <2>1. Owner(u) = u => u \in indexed
    BY <1>i, Distinct DEF Owner, Owners, FollowerTypes
  <2> QED  BY <1>9, <1>h, <1>n, <2>1 DEF followerDb
<1>10. CASE Clear(u) /\ fop'[u].step = "cleared" /\ fop'[u].owner = fop[u].owner
  <2>1. /\ path' = path /\ session[u] # "new" /\ indexed' = indexed /\ part' = part \ {u}
        /\ target' = [target EXCEPT ![path[u]] = NoUpload]
    BY <1>10, <1>h DEF Clear, Set, followerDb, masterDb
  <2>2. path[u] \in Paths  BY <2>1, <1>i, PathHeld
  <2>3. ~AtPath(u)'  BY <2>1, <2>2, <1>i, Distinct DEF AtPath, Here, FollowerTypes
  <2>4. fop[u].owner = u => u \in indexed  BY <1>10, <1>h DEF Clear
  <2> QED  BY <1>10, <1>n, <2>1, <2>3, <2>4
<1> HIDE DEF Fit
<1>11. HandlerMoves(u)  BY <1>i, HandlerSteps
<1> QED
  BY <1>1, <1>2, <1>3, <1>4, <1>5, <1>6, <1>7, <1>8, <1>9, <1>10, <1>11 DEF HandlerMoves

-----------------------------------------------------------------------------
(* The calls.                                                                  *)

\* What is not taken back, and which task of the Master ends a reservation.
LEMMA Lasting ==
  ASSUME MasterTypes, FollowerTypes, RowsFit, HandlersFit, CallsFit, [Next]_vars, NEW u \in Uploads
  PROVE  /\ session[u] # "new" => session'[u] # "new"
         /\ Deleted(u) => Deleted(u)'
         /\ row[u] = "cancelled" => row'[u] = "cancelled"
         /\ session[u] = "reserved" /\ session'[u] # "reserved" =>
              mop[u] \in {"proved", "recovered", "cleared"} /\ mop'[u] = "idle" /\ reply'[u] = "none"
<1>1. CASE Quiet
  BY <1>1 DEF Quiet, followerDb, Deleted
<1>2. CASE MasterMoves
  <2>1. row' = row  BY <1>2 DEF MasterMoves, followerDb
  <2>2. /\ session[u] # "new" => session'[u] # "new"
        /\ Deleted(u) => Deleted(u)'
        /\ session[u] = "reserved" /\ session'[u] # "reserved" =>
              mop[u] \in {"proved", "recovered", "cleared"} /\ mop'[u] = "idle" /\ reply'[u] = "none"
    BY <1>2 DEF MasterMoves, CatalogStep, Reserve, MarkPendingDelete, SettleDelete, Set, Deleted,
       MasterTypes, RowsFit
  <2> QED  BY <2>1, <2>2
<1>3. CASE FollowerMoves
  <2>1. session' = session /\ catalog' = catalog  BY <1>3 DEF FollowerMoves
  <2>2. CASE FollowerCrash  BY <2>1, <2>2 DEF FollowerCrash, followerDb, Deleted
  <2>3. ASSUME NEW v \in Uploads, FilesStep(v), row[u] = "cancelled" PROVE row'[u] = "cancelled"
    BY <2>3 DEF FilesStep, CanReserve, ReserveRow, PutRename, PutSync, CanComplete, CompleteRow, Clear,
       ClearCommit, followerDb, Set, FollowerTypes
  <2> QED  BY <1>3, <2>1, <2>2, <2>3 DEF FollowerMoves, Deleted
<1> QED  BY <1>1, <1>2, <1>3, StepKinds

\* Requests that were under way stay consistent with an upload nothing touched.
LEMMA StillFits ==
  ASSUME MasterTypes, FollowerTypes, RowsFit, HandlersFit, CallsFit, [Next]_vars, NEW u \in Uploads,
         mop'[u] = mop[u], reply'[u] = reply[u],
         fop'[u].for \in {fop[u].for, "nobody"}
  PROVE  CallFits(u)' /\ \A r \in net : r.upload = u => RequestFits(r)'
<1>1. CallFits(u) /\ \A r \in net : r.upload = u => RequestFits(r)  BY DEF CallsFit
<1>2. \A d \in Deleters : d # "nobody"  BY DeletersNamed
<1>3. "idle" \notin Waiting  BY DEF Waiting
<1> QED  BY <1>1, <1>2, <1>3, Lasting DEF CallFits, RequestFits

\* Nobody answers a call of the Master's that is not under way.
NoCall(u) == fop[u].for # "master" /\ \A r \in net : r.upload = u => r.for # "master"

LEMMA NoCallUnder ==
  ASSUME MasterTypes, CallsFit, NEW u \in Uploads, mop[u] \notin Waiting \/ reply[u] # "none"
  PROVE  NoCall(u)
<1>1. ASSUME NEW r \in net, r.upload = u, r.for = "master" PROVE FALSE
  BY <1>1, DeletersNamed DEF CallsFit, RequestFits, MasterTypes, Requests
<1> QED  BY <1>1 DEF NoCall, CallsFit, CallFits

\* The Master calls the Follower for an upload, or has done with a call.
LEMMA CallKeeps ==
  ASSUME MasterTypes, FollowerTypes, RowsFit, HandlersFit, CallsFit, [Next]_vars, NEW u \in Uploads,
         NoCall(u), NEW kind \in Waiting, Call(u, kind), session[u] # "new",
         kind # "stat" => session[u] = "reserved",
         UNCHANGED <<fop, deleting>>
  PROVE  CallsFit'
<1>k. Waiting = {"relay", "stat", "clean", "sweep"}  BY DEF Waiting
<1> DEFINE q == Request(u, kind, "master")
<1>1. /\ mop' = [mop EXCEPT ![u] = kind] /\ reply' = [reply EXCEPT ![u] = "none"]
      /\ net' = net \cup {q}
  BY DEF Call, Set
<1>2. q.upload = u /\ q.kind = kind /\ q.for = "master"  BY DEF Request
<1> HIDE DEF q
<1>3. session'[u] # "new" /\ (kind # "stat" => session'[u] = "reserved")
  BY <1>1, <1>k, Lasting DEF MasterTypes
<1>4. CallFits(u)'
  BY <1>1, <1>3, <1>k, Lasting DEF NoCall, CallFits, CallsFit, MasterTypes
<1>5. ASSUME NEW v \in Uploads PROVE CallFits(v)'
  BY <1>1, <1>4, StillFits DEF MasterTypes
<1>6. ASSUME NEW r \in net' PROVE RequestFits(r)'
  <2>1. CASE r = q
    BY <1>1, <1>2, <1>3, <1>k, <2>1, DeletersNamed DEF RequestFits, NoCall, MasterTypes
  <2>2. CASE r \in net /\ r.upload # u
    BY <1>1, <2>2, StillFits DEF MasterTypes, Requests
  <2>3. CASE r \in net /\ r.upload = u
    BY <2>3, Lasting DEF CallsFit, RequestFits, NoCall
  <2> QED  BY <1>1, <1>6, <2>1, <2>2, <2>3
<1>7. \A d \in Deleters : DeletionFits(d)'
  BY Lasting DEF CallsFit, DeletionFits
<1> QED  BY <1>5, <1>6, <1>7 DEF CallsFit

LEMMA SettleKeeps ==
  ASSUME MasterTypes, FollowerTypes, RowsFit, HandlersFit, CallsFit, [Next]_vars, NEW u \in Uploads,
         NoCall(u), NEW op \in {"idle", "proved", "recovered", "cleared"}, Settle(u, op),
         op # "idle" => session'[u] # "new",
         op \in {"recovered", "cleared"} => session'[u] = "reserved",
         op = "cleared" => row[u] = "cancelled",
         UNCHANGED <<fop, deleting, net>>
  PROVE  CallsFit'
<1>1. mop' = [mop EXCEPT ![u] = op] /\ reply' = [reply EXCEPT ![u] = "none"]
  BY DEF Settle, Set
<1>4. CallFits(u)'
  BY <1>1, Lasting DEF NoCall, CallFits, CallsFit, MasterTypes
<1>5. ASSUME NEW v \in Uploads PROVE CallFits(v)'
  BY <1>1, <1>4, StillFits DEF MasterTypes
<1>6. ASSUME NEW r \in net' PROVE RequestFits(r)'
  <2>2. CASE r.upload # u
    BY <1>1, <1>6, <2>2, StillFits DEF MasterTypes, Requests
  <2>3. CASE r.upload = u
    BY <1>6, <2>3, Lasting DEF CallsFit, RequestFits, NoCall
  <2> QED  BY <2>2, <2>3
<1>7. \A d \in Deleters : DeletionFits(d)'
  BY Lasting DEF CallsFit, DeletionFits
<1> QED  BY <1>5, <1>6, <1>7 DEF CallsFit

\* The Follower takes a request on, or a handler that nobody waits for begins.
LEMMA EnterKeeps ==
  ASSUME MasterTypes, FollowerTypes, RowsFit, HandlersFit, CallsFit, [Next]_vars, NEW u \in Uploads,
         NEW s, NEW e, NEW c, Enter(u, s, e, c),
         \/ c = "nobody" /\ net' = net
         \/ \E r \in net : r.upload = u /\ r.for = c /\ net' = net \ {r},
         UNCHANGED <<mop, reply, deleting>>
  PROVE  CallsFit'
<1>f. fop \in [Uploads -> Handlers]  BY DEF FollowerTypes
<1>1. fop'[u].for = c /\ \A v \in Uploads : v # u => fop'[v] = fop[v]
  BY <1>f DEF Enter, Set, Idle
<1>2. net' \subseteq net  OBVIOUS
<1>3. CallFits(u)'
  BY <1>1, Lasting, DeletersNamed DEF CallsFit, CallFits, RequestFits, MasterTypes, Requests
<1>4. ASSUME NEW v \in Uploads PROVE CallFits(v)'
  BY <1>1, <1>3, StillFits
<1>5. ASSUME NEW q \in net' PROVE RequestFits(q)'
  <2>1. CASE q.upload # u  BY <1>1, <1>2, <1>5, <2>1, StillFits DEF MasterTypes, Requests
  <2>2. CASE q.upload = u
    <3>1. ~(q.for = "master" /\ c = "master")
      BY <1>2, <1>5, <2>2 DEF CallsFit, RequestFits, MasterTypes, Requests
    <3>2. RequestFits(q)  BY <1>2, <1>5 DEF CallsFit
    <3> QED  BY <1>1, <2>2, <3>1, <3>2, Lasting DEF RequestFits
  <2> QED  BY <2>1, <2>2
<1>6. \A d \in Deleters : DeletionFits(d)'
  BY Lasting DEF CallsFit, DeletionFits
<1> QED  BY <1>4, <1>5, <1>6 DEF CallsFit

\* A handler answers its caller: what it says of the upload is true.
LEMMA AnswerKeeps ==
  ASSUME MasterTypes, FollowerTypes, RowsFit, HandlersFit, CallsFit, [Next]_vars, NEW u \in Uploads,
         NEW c \in Callers, NEW a \in {"complete", "cleared", "refused"}, Answer(u, c, a),
         a = "cleared" => row'[u] = "cancelled",
         \/ c = fop[u].for /\ fop'[u].for = "nobody" /\ net' = net
         \/ \E r \in net : r.upload = u /\ r.for = c /\ net' = net \ {r} /\ fop' = fop,
         \A v \in Uploads : v # u => fop'[v].for = fop[v].for,
         UNCHANGED mop
  PROVE  CallsFit'
<1>1. /\ \A v \in Uploads : reply'[v] = IF c = "master" /\ v = u THEN a ELSE reply[v]
      /\ \A d \in Deleters : deleting'[d].step = "settle" =>
              deleting'[d] = deleting[d] \/ (deleting'[d].upload = u /\ d = c /\ a = "cleared")
  BY Answers
<1>2. net' \subseteq net  OBVIOUS
<1>k. "nobody" \notin Deleters /\ "master" \notin Deleters  BY DeletersNamed
<1>3. /\ c = "master" => mop[u] \in Waiting /\ reply[u] = "none"
      /\ c \in Deleters => Deleted(u)
      /\ c = "master" => fop'[u].for # "master"
      /\ \A q \in net' : q.upload = u /\ q.for = "master" => c # "master"
  BY <1>k DEF CallsFit, CallFits, RequestFits, MasterTypes, Requests
<1>4. CallFits(u)'
  <2>1. CASE c # "master"
    BY <1>1, <1>k, <2>1, StillFits
  <2>2. CASE c = "master"
    BY <1>1, <1>3, <1>k, <2>2, Lasting DEF CallsFit, CallFits, MasterTypes
  <2> QED  BY <2>1, <2>2
<1>5. ASSUME NEW v \in Uploads PROVE CallFits(v)'
  BY <1>1, <1>4, StillFits
<1>6. ASSUME NEW q \in net' PROVE RequestFits(q)'
  <2>1. CASE q.upload # u  BY <1>1, <1>2, <1>6, <2>1, StillFits DEF MasterTypes, Requests
  <2>2. CASE q.upload = u
    <3>1. RequestFits(q)  BY <1>2, <1>6 DEF CallsFit
    <3> QED  BY <1>1, <1>3, <1>6, <2>2, <3>1, Lasting DEF RequestFits
  <2> QED  BY <2>1, <2>2
<1>7. \A d \in Deleters : DeletionFits(d)'
  BY <1>1, <1>3, Lasting DEF CallsFit, DeletionFits
<1> QED  BY <1>5, <1>6, <1>7 DEF CallsFit

\* Callers give up.
LEMMA AbandonKeeps ==
  ASSUME MasterTypes, FollowerTypes, RowsFit, HandlersFit, CallsFit, LateRequests = FALSE, [Next]_vars,
         NEW us \in SUBSET Uploads, NEW whom \in SUBSET Callers, Abandon(us, whom),
         \A u \in Uploads : \/ mop'[u] = mop[u] /\ reply'[u] = reply[u]
                           \/ /\ u \in us /\ "master" \in whom
                              /\ \/ mop'[u] = "idle" /\ reply'[u] = "none"
                                 \/ mop'[u] = mop[u] /\ mop[u] \in Waiting /\ reply'[u] = "refused",
         \A d \in Deleters : deleting'[d] = deleting[d] \/ deleting'[d].step = "idle"
  PROVE  CallsFit'
<1>k. "nobody" \notin Deleters /\ "master" \notin Deleters  BY DeletersNamed
<1>a. net' \subseteq net  BY Abandons
<1>b. \A r \in net' : ~(r.upload \in us /\ r.for \in whom)  BY Abandons
<1>c. fop' = [u \in Uploads |-> IF u \in us /\ fop[u].for \in whom
                                  THEN [fop[u] EXCEPT !.for = "nobody"] ELSE fop[u]]
  BY DEF Abandon
<1>d. \A u \in Uploads :
        /\ u \in us /\ fop[u].for \in whom => fop'[u].for = "nobody"
        /\ ~(u \in us /\ fop[u].for \in whom) => fop'[u].for = fop[u].for
  BY <1>c DEF FollowerTypes, Handlers
<1>1. /\ net' \subseteq net
      /\ \A r \in net' : ~(r.upload \in us /\ r.for \in whom)
      /\ \A u \in Uploads :
           /\ u \in us /\ fop[u].for \in whom => fop'[u].for = "nobody"
           /\ ~(u \in us /\ fop[u].for \in whom) => fop'[u].for = fop[u].for
  BY <1>a, <1>b, <1>d
<1>2. ASSUME NEW u \in Uploads PROVE CallFits(u)'
  <2>1. CASE mop'[u] = mop[u] /\ reply'[u] = reply[u]
    BY <1>1, <2>1, StillFits
  <2>2. CASE u \in us /\ "master" \in whom /\ mop'[u] = "idle" /\ reply'[u] = "none"
    BY <1>1, <1>k, <2>2, Lasting DEF CallsFit, CallFits
  <2>3. CASE u \in us /\ "master" \in whom /\ mop'[u] = mop[u] /\ mop[u] \in Waiting /\ reply'[u] = "refused"
    BY <1>1, <1>k, <2>3, Lasting DEF CallsFit, CallFits, Waiting
  <2> QED  BY <2>1, <2>2, <2>3
<1>3. ASSUME NEW r \in net' PROVE RequestFits(r)'
  <2>1. r \in net /\ r.upload \in Uploads /\ RequestFits(r)  BY <1>1, <1>3 DEF CallsFit, MasterTypes, Requests
  <2> QED  BY <1>1, <1>3, <1>k, <2>1, Lasting DEF RequestFits
<1>4. \A d \in Deleters : DeletionFits(d)'
  BY Lasting DEF CallsFit, DeletionFits
<1> QED  BY <1>2, <1>3, <1>4 DEF CallsFit

LEMMA CallsNext ==
  ASSUME SUInv, LateRequests = FALSE, MasterTypes', FollowerTypes', [Next]_vars
  PROVE  CallsFit'
<1>i. MasterTypes /\ FollowerTypes /\ RowsFit /\ PathsOwned /\ BytesFit /\ HandlersFit /\ CallsFit
  BY DEF SUInv
<1>f. fop \in [Uploads -> Handlers]  BY <1>i DEF FollowerTypes
<1>k. Waiting = {"relay", "stat", "clean", "sweep"}  BY DEF Waiting
<1>1. ASSUME NEW u \in Uploads, StartRelay(u) \/ StartFinalize(u) \/ CancelUpload(u) \/ SweepExpired(u)
      PROVE  CallsFit'
  <2>1. NoCall(u)
    BY <1>1, <1>i, <1>k, NoCallUnder DEF StartRelay, StartFinalize, CancelUpload, SweepExpired
  <2> QED
    BY <1>1, <1>i, <1>k, <2>1, CallKeeps DEF StartRelay, StartFinalize, CancelUpload, SweepExpired,
       masterDb
<1>c. ASSUME NEW u \in Uploads, NoCall(u), CleanAfterFailure(u), UNCHANGED <<masterDb, fop, deleting>>
      PROVE  CallsFit'
  <2>1. CASE session[u] = "reserved"
    BY <1>c, <1>i, <1>k, <2>1, CallKeeps DEF CleanAfterFailure
  <2>2. CASE session[u] # "reserved"
    BY <1>c, <1>i, <2>2, SettleKeeps DEF CleanAfterFailure
  <2> QED  BY <2>1, <2>2
<1>2. ASSUME NEW u \in Uploads, TransferAnswered(u) PROVE CallsFit'
  <2>1. NoCall(u)  BY <1>2, <1>i, NoCallUnder DEF TransferAnswered
  <2>2. CASE reply[u] = "complete"
    <3>1. session[u] # "new"  BY <1>2, <1>i, <1>k DEF TransferAnswered, CallsFit, CallFits
    <3> QED  BY <1>2, <1>i, <2>1, <2>2, <3>1, SettleKeeps DEF TransferAnswered, masterDb
  <2>3. CASE reply[u] # "complete"
    BY <1>2, <1>c, <2>1, <2>3 DEF TransferAnswered
  <2> QED  BY <2>2, <2>3
<1>3. ASSUME NEW u \in Uploads, CleanupAnswered(u) PROVE CallsFit'
  <2>1. NoCall(u)  BY <1>3, <1>i, NoCallUnder DEF CleanupAnswered
  <2>2. PICK op \in {"cleared", "recovered", "idle"} : Settle(u, op) /\ (op = "cleared" => reply[u] = "cleared")
    <3>1. CASE reply[u] = "cleared"  BY <1>3, <3>1 DEF CleanupAnswered
    <3>2. CASE reply[u] = "complete" /\ mop[u] = "sweep"  BY <1>3, <3>2 DEF CleanupAnswered
    <3>3. CASE reply[u] # "cleared" /\ ~(reply[u] = "complete" /\ mop[u] = "sweep")
      BY <1>3, <3>3 DEF CleanupAnswered
    <3> QED  BY <3>1, <3>2, <3>3
  <2>3. session[u] = "reserved" /\ (op = "cleared" => row[u] = "cancelled")
    BY <1>3, <1>i, <2>2 DEF CleanupAnswered, CallsFit, CallFits
  <2>4. session' = session /\ UNCHANGED <<fop, deleting, net>>
    BY <1>3 DEF CleanupAnswered, masterDb
  <2> QED  BY <1>i, <2>1, <2>2, <2>3, <2>4, SettleKeeps
<1>4. ASSUME NEW u \in Uploads,
             FinalizeUpload(u) \/ FinalizeCommitUnknown(u) \/ FailUpload(u)
      PROVE  CallsFit'
  <2>1. NoCall(u)
    BY <1>4, <1>i, <1>k, NoCallUnder DEF FinalizeUpload, FinalizeCommitUnknown, FailUpload
  <2> QED
    BY <1>4, <1>i, <2>1, SettleKeeps DEF FinalizeUpload, FinalizeCommitUnknown, FailUpload
<1>5. ASSUME NEW u \in Uploads, FinalizeRollsBack(u) PROVE CallsFit'
  <2>1. NoCall(u)  BY <1>5, <1>i, <1>k, NoCallUnder DEF FinalizeRollsBack
  <2>2. CASE mop[u] = "proved"  BY <1>5, <1>c, <2>1, <2>2 DEF FinalizeRollsBack
  <2>3. CASE mop[u] # "proved"  BY <1>5, <1>i, <2>1, <2>3, SettleKeeps DEF FinalizeRollsBack
  <2> QED  BY <2>2, <2>3
<1>6. ASSUME NEW u \in Uploads, CallTimesOut(u) PROVE CallsFit'
  <2>1. Abandon({u}, {"master"}) /\ {"master"} \in SUBSET Callers /\ {u} \in SUBSET Uploads
    BY <1>6 DEF CallTimesOut, Callers
  <2>2. \A v \in Uploads : \/ mop'[v] = mop[v] /\ reply'[v] = reply[v]
                           \/ v = u /\ mop'[v] = mop[v] /\ mop[v] \in Waiting /\ reply'[v] = "refused"
    BY <1>6, <1>i DEF CallTimesOut, Set, MasterTypes
  <2> QED  BY <1>6, <1>i, <2>1, <2>2, AbandonKeeps DEF CallTimesOut
<1>7. ASSUME NEW d \in Deleters, DeleteTimesOut(d) PROVE CallsFit'
  <2>1. Abandon(Uploads, {d}) /\ {d} \in SUBSET Callers /\ mop' = mop /\ reply' = reply
    BY <1>7 DEF DeleteTimesOut, Callers
  <2>2. \A e \in Deleters : deleting'[e] = deleting[e] \/ deleting'[e].step = "idle"
    BY <1>7, <1>i DEF DeleteTimesOut, Set, NoDelete, MasterTypes
  <2> QED  BY <1>i, <2>1, <2>2, AbandonKeeps
<1>8. CASE MasterCrash
  <2>1. Abandon(Uploads, Callers \ {"nobody"}) /\ Callers \ {"nobody"} \in SUBSET Callers
        /\ "master" \in Callers \ {"nobody"}
    BY <1>8 DEF MasterCrash, Callers
  <2>2. /\ \A u \in Uploads : mop'[u] = "idle" /\ reply'[u] = "none"
        /\ \A d \in Deleters : deleting'[d].step = "idle"
    BY <1>8 DEF MasterCrash, NoDelete
  <2> QED  BY <1>i, <2>1, <2>2, AbandonKeeps
<1>9. ASSUME mop' = mop, reply' = reply, \A u \in Uploads : fop'[u].for = fop[u].for,
             \A d \in Deleters : deleting'[d] = deleting[d] \/ deleting'[d].step # "settle",
             \A r \in net' : r \in net \/ RequestFits(r)'
      PROVE  CallsFit'
  <2>1. \A u \in Uploads : CallFits(u)'  BY <1>9, <1>i, StillFits
  <2>2. \A r \in net' : RequestFits(r)'  BY <1>9, <1>i, StillFits DEF MasterTypes, Requests
  <2>3. \A d \in Deleters : DeletionFits(d)'
    BY <1>9, <1>i, Lasting DEF CallsFit, DeletionFits
  <2> QED  BY <2>1, <2>2, <2>3 DEF CallsFit
<1>10. CASE \/ \E u \in Uploads : MarkPendingDelete(u) \/ \E p \in Paths : Reserve(u, p)
            \/ UNCHANGED vars
  BY <1>9, <1>10 DEF MarkPendingDelete, Reserve, vars, masterOps
<1>11. ASSUME NEW d \in Deleters, SettleDelete(d) PROVE CallsFit'
  <2>1. \A e \in Deleters : deleting'[e] = deleting[e] \/ deleting'[e].step # "settle"
    BY <1>11, <1>i DEF SettleDelete, Set, NoDelete, MasterTypes
  <2> QED  BY <1>9, <1>11, <2>1 DEF SettleDelete
<1>12. ASSUME NEW d \in Deleters, NEW u \in Uploads, RetryPendingMedia(d, u) PROVE CallsFit'
  <2>1. \A e \in Deleters : deleting'[e] = deleting[e] \/ deleting'[e].step # "settle"
    BY <1>12, <1>i DEF RetryPendingMedia, Set, MasterTypes
  <2>2. RequestFits(Request(u, "delete", d))'
    BY <1>12, <1>i, DeletersNamed DEF RetryPendingMedia, Request, RequestFits, RowsFit, Deleted, masterDb
  <2> QED  BY <1>9, <1>12, <2>1, <2>2 DEF RetryPendingMedia
<1>13. ASSUME NEW r \in net, Refuse(r) PROVE CallsFit'
  <2>1. r.upload \in Uploads /\ r.for \in Callers  BY <1>i DEF MasterTypes, Requests
  <2> QED  BY <1>13, <1>i, <2>1, AnswerKeeps DEF Refuse
<1>14. ASSUME NEW r \in net, RelayedPut(r) \/ Prove(r) \/ Reconcile(r) PROVE CallsFit'
  <2>1. r.upload \in Uploads  BY <1>i DEF MasterTypes, Requests
  <2> QED  BY <1>14, <1>i, <2>1, EnterKeeps DEF RelayedPut, Prove, Reconcile, masterOps
<1>15. ASSUME NEW u \in Uploads, BrowserPut(u) \/ SweepStorage(u) PROVE CallsFit'
  BY <1>15, <1>i, EnterKeeps DEF BrowserPut, SweepStorage, masterOps
<1>16. ASSUME NEW u \in Uploads,
              \/ PutRename(u) \/ PutSync(u) \/ PutComplete(u) \/ PutFails(u) \/ Look(u) \/ Clear(u)
              \/ ProveFails(u) /\ UNCHANGED <<reply, deleting>>
                 /\ fop' = [fop EXCEPT ![u].step = "look", ![u].expired = FALSE]
       PROVE  CallsFit'
  <2>1. \A v \in Uploads : fop'[v].for = fop[v].for
    BY <1>16, <1>f DEF PutRename, PutSync, PutComplete, PutFails, Look, Clear, GoOn, Handlers
  <2> QED
    BY <1>9, <1>16, <2>1 DEF PutRename, PutSync, PutComplete, PutFails, Look, Clear, ProveFails, masterOps
<1>17. ASSUME NEW u \in Uploads, NEW a \in {"complete", "cleared", "refused"}, End(u, a),
              a = "cleared" => row'[u] = "cancelled", UNCHANGED <<mop, net>>
       PROVE  CallsFit'
  <2>1. fop'[u].for = "nobody" /\ \A v \in Uploads : v # u => fop'[v] = fop[v]
    BY <1>f, <1>17 DEF End, Set, Idle
  <2>2. PICK b \in {a, "refused"} : Answer(u, fop[u].for, b)  BY <1>17, <1>i, Ended
  <2>3. fop[u].for \in Callers  BY <1>f DEF Handlers
  <2>4. b \in {"complete", "cleared", "refused"}  OBVIOUS
  <2> QED  BY <1>17, <1>i, <2>1, <2>2, <2>3, <2>4, AnswerKeeps
<1>18. ASSUME NEW u \in Uploads,
              PutDone(u) \/ ProveEnds(u) \/ ProveFails(u) \/ ClearRefused(u) \/ HandlerFails(u)
       PROVE  CallsFit'
  BY <1>16, <1>17, <1>18 DEF PutDone, ProveEnds, ProveFails, ClearRefused, HandlerFails
<1>19. ASSUME NEW u \in Uploads, ClearCommit(u) PROVE CallsFit'
  <2>1. row'[u] = "cancelled"  BY <1>19, <1>i DEF ClearCommit, Set, FollowerTypes
  <2> QED  BY <1>17, <1>19, <2>1 DEF ClearCommit
<1>20. CASE FollowerCrash
  <2>1. /\ \A u \in Uploads : fop'[u].for = "nobody"
        /\ mop' = mop /\ net' = net
        /\ \A u \in Uploads : reply'[u] = IF fop[u].for = "master" THEN "refused" ELSE reply[u]
        /\ \A d \in Deleters : deleting'[d] = deleting[d] \/ deleting'[d].step = "idle"
    BY <1>20, <1>i DEF FollowerCrash, NoDelete, Idle, MasterTypes
  <2>2. ASSUME NEW u \in Uploads
        PROVE  CallFits(u)' /\ \A r \in net : r.upload = u => RequestFits(r)'
    <3>1. CASE fop[u].for # "master"  BY <1>i, <2>1, <3>1, StillFits
    <3>2. CASE fop[u].for = "master"
      BY <1>i, <1>k, <2>1, <3>2, Lasting, DeletersNamed DEF CallsFit, CallFits, RequestFits
    <3> QED  BY <3>1, <3>2
  <2>3. \A d \in Deleters : DeletionFits(d)'
    BY <1>i, <2>1, Lasting DEF CallsFit, DeletionFits
  <2> QED  BY <1>i, <2>1, <2>2, <2>3 DEF CallsFit, MasterTypes, Requests
<1> QED
  BY <1>1, <1>2, <1>3, <1>4, <1>5, <1>6, <1>7, <1>8, <1>10, <1>11, <1>12, <1>13, <1>14, <1>15,
     <1>16, <1>18, <1>19, <1>20
  DEF Next, MasterStep, DeleterStep, HandlerStep, Receive

-----------------------------------------------------------------------------
(* What the Master is told to be stored is, and stays so.                      *)

\* Only the end of a transfer or of a proof tells the Master that it is stored.
ToldMoves(u) ==
  /\ reply'[u] = "complete" => reply[u] = "complete" \/ PutDone(u) \/ ProveEnds(u)
  /\ mop'[u] \in {"proved", "recovered"} =>
       mop[u] \in {"proved", "recovered"} \/ reply[u] = "complete"

LEMMA ToldSteps ==
  ASSUME MasterTypes, FollowerTypes, [Next]_vars, NEW u \in Uploads
  PROVE  ToldMoves(u)
<1> USE DEF ToldMoves
<1>f. fop \in [Uploads -> Handlers]  BY DEF FollowerTypes
<1>k. Waiting = {"relay", "stat", "clean", "sweep"}  BY DEF Waiting
<1>a. ASSUME NEW v \in Uploads, NEW kind \in Waiting, Call(v, kind) PROVE ToldMoves(u)
  BY <1>a, <1>k DEF Call, Set, MasterTypes
<1>b. ASSUME NEW v \in Uploads, NEW op, Settle(v, op),
             op \in {"proved", "recovered"} => reply[v] = "complete"
      PROVE  ToldMoves(u)
  BY <1>b DEF Settle, Set, MasterTypes
<1>c. ASSUME NEW v \in Uploads, NEW c \in Callers, NEW a \in {"cleared", "refused"}, Answer(v, c, a),
             mop' = mop
      PROVE  ToldMoves(u)
  <2>1. a \in {"complete", "cleared", "refused"}  OBVIOUS
  <2> QED  BY <1>c, <2>1, Answers
<1>d. ASSUME NEW v \in Uploads, NEW a \in {"cleared", "refused"}, End(v, a), mop' = mop PROVE ToldMoves(u)
  <2>1. a \in {"complete", "cleared", "refused"}  OBVIOUS
  <2>2. PICK b \in {a, "refused"} : Answer(v, fop[v].for, b)  BY <1>d, <2>1, Ended
  <2>3. fop[v].for \in Callers /\ b \in {"cleared", "refused"}  BY <1>f DEF Handlers
  <2> QED  BY <1>c, <1>d, <2>2, <2>3
<1>e. ASSUME NEW v \in Uploads, v # u, End(v, "complete"), mop' = mop PROVE ToldMoves(u)
  <2>2. PICK b \in {"complete", "refused"} : Answer(v, fop[v].for, b)  BY <1>e, Ended
  <2>3. fop[v].for \in Callers  BY <1>f DEF Handlers
  <2>4. reply'[u] = reply[u]  BY <1>e, <2>2, <2>3, Answers
  <2> QED  BY <1>e, <2>4
<1>1. ASSUME NEW v \in Uploads, StartRelay(v) \/ StartFinalize(v) \/ CancelUpload(v) \/ SweepExpired(v)
      PROVE  ToldMoves(u)
  BY <1>1, <1>a, <1>k DEF StartRelay, StartFinalize, CancelUpload, SweepExpired
<1>2. ASSUME NEW v \in Uploads, TransferAnswered(v) PROVE ToldMoves(u)
  BY <1>2, <1>a, <1>b, <1>k DEF TransferAnswered, CleanAfterFailure
<1>3. ASSUME NEW v \in Uploads, CleanupAnswered(v) PROVE ToldMoves(u)
  <2>1. PICK op \in {"cleared", "recovered", "idle"} :
          Settle(v, op) /\ (op = "recovered" => reply[v] = "complete")
    <3>1. CASE reply[v] = "cleared"  BY <1>3, <3>1 DEF CleanupAnswered
    <3>2. CASE reply[v] = "complete" /\ mop[v] = "sweep"  BY <1>3, <3>2 DEF CleanupAnswered
    <3>3. CASE reply[v] # "cleared" /\ ~(reply[v] = "complete" /\ mop[v] = "sweep")
      BY <1>3, <3>3 DEF CleanupAnswered
    <3> QED  BY <3>1, <3>2, <3>3
  <2> QED  BY <1>b, <2>1
<1>4. ASSUME NEW v \in Uploads, FinalizeUpload(v) \/ FinalizeCommitUnknown(v) \/ FailUpload(v) PROVE ToldMoves(u)
  BY <1>4, <1>b DEF FinalizeUpload, FinalizeCommitUnknown, FailUpload
<1>5. ASSUME NEW v \in Uploads, FinalizeRollsBack(v) PROVE ToldMoves(u)
  BY <1>5, <1>a, <1>b, <1>k DEF FinalizeRollsBack, CleanAfterFailure
<1>6. ASSUME NEW v \in Uploads, CallTimesOut(v) PROVE ToldMoves(u)
  BY <1>6 DEF CallTimesOut, Set, MasterTypes
<1>7. CASE MasterCrash \/ FollowerCrash
  BY <1>7 DEF MasterCrash, FollowerCrash
<1>8. ASSUME NEW v \in Uploads, ProveFails(v) \/ ClearRefused(v) \/ ClearCommit(v) \/ HandlerFails(v)
      PROVE  ToldMoves(u)
  BY <1>8, <1>d DEF ProveFails, ClearRefused, ClearCommit, HandlerFails
<1>9. ASSUME NEW v \in Uploads, PutDone(v) \/ ProveEnds(v) PROVE ToldMoves(u)
  <2>1. CASE v = u
    <3>1. mop' = mop  BY <1>9 DEF PutDone, ProveEnds
    <3> QED  BY <1>9, <2>1, <3>1
  <2>2. CASE v # u  BY <1>9, <2>2, <1>e DEF PutDone, ProveEnds
  <2> QED  BY <2>1, <2>2
<1>10. ASSUME NEW r \in net, Refuse(r) PROVE ToldMoves(u)
  <2>1. r.upload \in Uploads /\ r.for \in Callers  BY DEF MasterTypes, Requests
  <2> QED  BY <1>10, <1>c, <2>1 DEF Refuse
<1>11. CASE mop' = mop /\ reply' = reply  BY <1>11
<1>12. ASSUME NEW v \in Uploads,
              \/ PutRename(v) \/ PutSync(v) \/ PutComplete(v) \/ PutFails(v) \/ Look(v) \/ Clear(v)
              \/ BrowserPut(v) \/ SweepStorage(v) \/ MarkPendingDelete(v) \/ \E p \in Paths : Reserve(v, p)
       PROVE  ToldMoves(u)
  BY <1>11, <1>12 DEF PutRename, PutSync, PutComplete, PutFails, Look, Clear, BrowserPut, SweepStorage,
     MarkPendingDelete, Reserve, masterOps
<1>13. ASSUME NEW r \in net, RelayedPut(r) \/ Prove(r) \/ Reconcile(r) PROVE ToldMoves(u)
  BY <1>11, <1>13 DEF RelayedPut, Prove, Reconcile, masterOps
<1>14. CASE \/ UNCHANGED vars
            \/ \E d \in Deleters : \/ SettleDelete(d) \/ DeleteTimesOut(d)
                                   \/ \E v \in Uploads : RetryPendingMedia(d, v)
  BY <1>11, <1>14 DEF vars, masterOps, SettleDelete, DeleteTimesOut, RetryPendingMedia
<1> HIDE DEF ToldMoves
<1> QED
  BY <1>1, <1>2, <1>3, <1>4, <1>5, <1>6, <1>7, <1>8, <1>9, <1>10, <1>12, <1>13, <1>14
  DEF Next, MasterStep, DeleterStep, HandlerStep, Receive

\* Nothing that is on its way asks to remove it.
LEMMA CommittedCalm ==
  ASSUME MasterTypes, RowsFit, CallsFit, NEW u \in Uploads, Committed(u), NEW r \in net, r.upload = u
  PROVE  session[u] # "new" /\ r.kind \notin {"clean", "sweep", "delete"}
<1>1. session[u] # "new" /\ ~Deleted(u)
  BY DEF Committed, RowsFit, Deleted, MasterTypes
<1>2. RequestFits(r) /\ CallFits(u) /\ r.for \in Callers  BY DEF CallsFit, MasterTypes, Requests
<1>3. r.for = "master" /\ r.kind # "delete"
  BY <1>1, <1>2, DeletersNamed DEF RequestFits, Callers
<1>4. mop[u] \in {"clean", "sweep"} => session[u] = "reserved" /\ catalog[u] = "none"
  BY <1>2 DEF CallFits, RowsFit, MasterTypes
<1>5. mop[u] = r.kind /\ reply[u] = "none"  BY <1>2, <1>3 DEF RequestFits
<1> QED  BY <1>1, <1>3, <1>4, <1>5 DEF Committed

\* What is stored stays stored, and nothing starts to remove it.
LEMMA CommittedKept ==
  ASSUME SUInv, LateRequests = FALSE, MasterTypes', FollowerTypes', [Next]_vars, NEW u \in Uploads,
         Committed(u)
  PROVE  /\ Stored(u)'
         /\ fop'[u].step = "idle" \/ (fop'[u].step = "prove" /\ ~fop'[u].expired)
<1>i. MasterTypes /\ FollowerTypes /\ RowsFit /\ PathsOwned /\ BytesFit /\ HandlersFit /\ CallsFit
      /\ CommittedStored
  BY DEF SUInv
<1>s. session[u] # "new"  BY <1>i DEF Committed, RowsFit, MasterTypes
<1>1. /\ AtPath(u) /\ u \in durable /\ u \in indexed /\ row[u] = "complete"
      /\ fop[u].step = "idle" \/ (fop[u].step = "prove" /\ ~fop[u].expired)
  BY <1>i DEF CommittedStored, Stored
<1>2. fop'[u].step = "idle" \/ (fop'[u].step = "prove" /\ ~fop'[u].expired)
  <2>1. ~(PutRename(u) \/ PutSync(u) \/ PutComplete(u) \/ Clear(u) \/ CanReserve(u))
    BY <1>1 DEF PutRename, PutSync, PutComplete, Clear, CanReserve
  <2>2. ~\E r \in net : r.upload = u /\ r.kind \in {"clean", "sweep", "delete"}
    BY <1>i, CommittedCalm
  <2>3. HandlerMoves(u)  BY <1>i, HandlerSteps
  <2> QED  BY <1>1, <2>1, <2>2, <2>3 DEF HandlerMoves
<1>3. CASE FollowerCrash
  <2>1. PICK undone \in SUBSET {v \in Uploads \ durable : path[v] # NoPath /\ Here(v) = v} :
          target' = [p \in Paths |-> IF target[p] \in undone THEN NoUpload ELSE target[p]]
    BY <1>3 DEF FollowerCrash
  <2>2. row' = row /\ durable' = durable /\ indexed' = indexed /\ path' = path
    BY <1>3 DEF FollowerCrash, followerDb, masterDb
  <2>3. path[u] \in Paths /\ target[path[u]] = u  BY <1>1, <1>i, AtPathIff
  <2>4. target'[path[u]] = u  BY <1>1, <2>1, <2>3
  <2>5. AtPath(u)'  BY <2>2, <2>3, <2>4, Distinct DEF AtPath, Here
  <2> QED  BY <1>1, <1>2, <2>2, <2>5 DEF Stored
<1>4. CASE ~FollowerCrash
  <2>1. ~FilesStep(u)
    BY <1>1 DEF FilesStep, CanReserve, PutRename, PutSync, Clear, ClearCommit
  <2> QED  BY <1>1, <1>2, <1>4, <1>s, <2>1, OthersLeave DEF Stored
<1> QED  BY <1>3, <1>4

\* Only what is stored is committed, and it stays stored.
LEMMA CommittedNext ==
  ASSUME SUInv, LateRequests = FALSE, MasterTypes', FollowerTypes', [Next]_vars
  PROVE  CommittedStored'
<1>i. MasterTypes /\ FollowerTypes /\ RowsFit /\ PathsOwned /\ BytesFit /\ HandlersFit /\ CallsFit
  BY DEF SUInv
<1>f. fop \in [Uploads -> Handlers]  BY <1>i DEF FollowerTypes
<1> SUFFICES ASSUME NEW u \in Uploads, Committed(u)'
             PROVE  /\ Stored(u)'
                    /\ fop'[u].step = "idle" \/ (fop'[u].step = "prove" /\ ~fop'[u].expired)
  BY DEF CommittedStored
<1>1. CASE Committed(u)  BY <1>1, CommittedKept
<1>2. CASE PutDone(u)
  <2>1. Stored(u)  BY <1>2, <1>i DEF PutDone, HandlersFit
  <2>2. UNCHANGED <<target, durable, indexed, row, path>>
    BY <1>2 DEF PutDone, disk, followerDb, masterDb
  <2>3. fop'[u].step = "idle"  BY <1>2, <1>f DEF PutDone, End, Set, Idle
  <2> QED  BY <2>1, <2>2, <2>3 DEF Stored, AtPath, Here
<1>3. CASE ProveEnds(u)
  <2>1. path[u] \in Paths  BY <1>3, <1>i, PathHeld DEF ProveEnds
  <2>2. Live(u)  BY <1>3, <1>i DEF ProveEnds, Proven, Live, BytesFit, Rows, FollowerTypes
  <2>3. Here(u) = u  BY <1>3, <1>i, <2>1, <2>2, OwnBytes DEF ProveEnds, Proven
  <2>4. UNCHANGED <<target, path>>  BY <1>3 DEF ProveEnds, masterDb
  <2>5. fop'[u].step = "idle"  BY <1>3, <1>f DEF ProveEnds, End, Set, Idle
  <2>6. AtPath(u) /\ AtPath(u)'  BY <2>1, <2>3, <2>4, Distinct DEF AtPath, Here
  <2>7. CASE row[u] = "reserved"
    <3>1. row'[u] = "complete" /\ u \in indexed' /\ u \in durable'
      BY <1>3, <1>i, <2>7 DEF ProveEnds, CompleteRow, Set, FollowerTypes
    <3> QED  BY <2>5, <2>6, <3>1 DEF Stored
  <2>8. CASE row[u] = "complete"
    <3>1. UNCHANGED <<row, indexed, durable>>  BY <1>3, <2>8 DEF ProveEnds, followerDb
    <3> QED  BY <1>i, <2>5, <2>6, <2>8, <3>1 DEF Stored, BytesFit, Rows
  <2> QED  BY <2>2, <2>7, <2>8 DEF Live
<1>4. Committed(u) \/ PutDone(u) \/ ProveEnds(u)
  <2>t. ToldMoves(u)  BY <1>i, ToldSteps
  <2>1. catalog'[u] = "active" => Committed(u)
    BY <1>i, StepKinds DEF Quiet, MasterMoves, FollowerMoves, CatalogStep, Reserve, MarkPendingDelete,
       SettleDelete, Set, MasterTypes, Committed
  <2>2. session'[u] = "reserved" => session[u] \in {"reserved", "new"}
    BY <1>i, StepKinds DEF Quiet, MasterMoves, FollowerMoves, CatalogStep, Reserve, MarkPendingDelete,
       SettleDelete, Set, MasterTypes
  <2>3. session[u] = "new" => mop[u] = "idle" /\ reply[u] = "none"
    BY <1>i DEF CallsFit, CallFits, Waiting
  <2> QED  BY <2>t, <2>1, <2>2, <2>3 DEF Committed, ToldMoves
<1> QED  BY <1>1, <1>2, <1>3, <1>4

-----------------------------------------------------------------------------
(* Sums of sizes.                                                              *)

Slots(us) == UNION {{u} \X (1 .. Size[u]) : u \in us}

\* What Bytes counts is finite.
LEMMA SlotsFinite ==
  ASSUME NEW us \in SUBSET Uploads
  PROVE  IsFiniteSet(Slots(us)) /\ Bytes(us) = Cardinality(Slots(us)) /\ Bytes(us) \in Nat
<1> DEFINE slots == [u \in us |-> {u} \X (1 .. Size[u])]
           all == {{u} \X (1 .. Size[u]) : u \in us}
<1>1. IsFiniteSet(us)  BY UploadsFinite, FS_Subset
<1>2. slots \in Surjection(us, all)  BY DEF Surjection
<1>3. IsFiniteSet(all)
  <2> HIDE DEF slots, all
  <2> QED  BY <1>1, <1>2, FS_Surjection
<1>4. ASSUME NEW S \in all PROVE IsFiniteSet(S)
  <2>1. PICK u \in us : S = {u} \X (1 .. Size[u])  OBVIOUS
  <2>2. IsFiniteSet({u})  BY FS_Singleton
  <2>3. IsFiniteSet(1 .. Size[u])  BY SizePositive, FS_Interval
  <2>4. IsFiniteSet({u} \X (1 .. Size[u]))  BY <2>2, <2>3, FS_Product
  <2> QED  BY <2>1, <2>4
<1>5. IsFiniteSet(UNION all)
  <2> HIDE DEF slots, all
  <2> QED  BY <1>3, <1>4, FS_UNION
<1>6. Bytes(us) = Cardinality(Slots(us)) /\ Slots(us) = UNION all  BY DEF Bytes, Slots
<1> HIDE DEF slots, all
<1> QED  BY <1>5, <1>6, FS_CardinalityType

\* One more upload adds its size.
LEMMA BytesAdd ==
  ASSUME NEW us \in SUBSET Uploads, NEW u \in Uploads, u \notin us
  PROVE  /\ Bytes(us \cup {u}) = Bytes(us) + Size[u]
         /\ Bytes(us) \in Nat /\ Size[u] \in Nat /\ Size[u] > 0
<1> DEFINE own == {u} \X (1 .. Size[u])
<1>1. Slots(us \cup {u}) = Slots(us) \cup own  BY DEF Slots
<1>2. Slots(us) \cap own = {}  BY DEF Slots
<1>3. Size[u] \in Nat /\ Size[u] > 0  BY SizePositive
<1>4. IsFiniteSet(own) /\ Cardinality(own) = Size[u]
  <2>1. IsFiniteSet({u}) /\ Cardinality({u}) = 1  BY FS_Singleton
  <2>2. IsFiniteSet(1 .. Size[u]) /\ Cardinality(1 .. Size[u]) = Size[u]
    <3> DEFINE n == Size[u]
    <3>1. n \in Int /\ 1 \in Int /\ n \in Nat /\ ~(1 > n) /\ n - 1 + 1 = n  BY <1>3
    <3> HIDE DEF n
    <3>2. IsFiniteSet(1 .. n) /\ Cardinality(1 .. n) = IF 1 > n THEN 0 ELSE n - 1 + 1
      BY <3>1, FS_Interval
    <3>3. IsFiniteSet(1 .. n) /\ Cardinality(1 .. n) = n  BY <3>1, <3>2
    <3> QED  BY <3>3 DEF n
  <2>3. IsFiniteSet(own) /\ Cardinality(own) = 1 * Size[u]  BY <2>1, <2>2, FS_Product
  <2> QED  BY <1>3, <2>3
<1> HIDE DEF own
<1>5. IsFiniteSet(Slots(us)) /\ Bytes(us) = Cardinality(Slots(us)) /\ Bytes(us) \in Nat
  BY SlotsFinite
<1>6. us \cup {u} \in SUBSET Uploads  OBVIOUS
<1>7. Bytes(us \cup {u}) = Cardinality(Slots(us) \cup own)  BY <1>1, <1>6, SlotsFinite
<1>8. Cardinality(Slots(us) \cup own) = Cardinality(Slots(us)) + Cardinality(own) - Cardinality({})
  BY <1>2, <1>4, <1>5, FS_Union
<1> QED  BY <1>3, <1>4, <1>5, <1>7, <1>8, FS_EmptySet

\* One upload less takes its size away.
LEMMA BytesRemove ==
  ASSUME NEW us \in SUBSET Uploads, NEW u \in us
  PROVE  /\ Bytes(us) = Bytes(us \ {u}) + Size[u]
         /\ Bytes(us \ {u}) \in Nat /\ Size[u] \in Nat /\ Size[u] > 0
<1>1. us = (us \ {u}) \cup {u} /\ us \ {u} \in SUBSET Uploads /\ u \in Uploads /\ u \notin us \ {u}
  OBVIOUS
<1> QED  BY <1>1, BytesAdd

\* Nothing adds up to nothing.
LEMMA BytesNone ==
  Bytes({}) = 0
<1>1. UNION {{u} \X (1 .. Size[u]) : u \in {}} = {}  OBVIOUS
<1> QED  BY <1>1, FS_EmptySet DEF Bytes

\* Every change of a row changes the counters with it.
LEMMA SoundNext ==
  ASSUME SUInv, MasterTypes', FollowerTypes', [Next]_vars
  PROVE  FollowerSound'
<1>i. MasterTypes /\ FollowerTypes /\ RowsFit /\ PathsOwned /\ BytesFit /\ HandlersFit /\ CallsFit
      /\ FollowerSound
  BY DEF SUInv
<1> DEFINE held == Rows({"reserved"})
<1>0. /\ held \in SUBSET Uploads /\ indexed \in SUBSET Uploads
      /\ \A u \in Uploads : u \in held <=> row[u] = "reserved"
      /\ \A u \in Uploads : u \in indexed <=> row[u] = "complete"
      /\ \A u \in Uploads : u \in held' <=> row'[u] = "reserved"
      /\ held' \in SUBSET Uploads /\ indexed' \in SUBSET Uploads
  BY <1>i DEF Rows, BytesFit, FollowerTypes
<1>s. /\ fReserved = Bytes(held) /\ fUsed = Bytes(indexed) /\ fUsed + fReserved <= Allocated
      /\ part \subseteq held /\ fReserved \in Nat /\ fUsed \in Nat
  BY <1>0, <1>i, SlotsFinite DEF FollowerSound
<1>g. ASSUME fReserved' = Bytes(held'), fUsed' = Bytes(indexed'), fUsed' + fReserved' <= Allocated,
             part' \subseteq held'
      PROVE  FollowerSound'
  BY <1>g DEF FollowerSound
<1> HIDE DEF held
<1>1. ASSUME row' = row, indexed' = indexed, fReserved' = fReserved, fUsed' = fUsed, part' \subseteq part
      PROVE  FollowerSound'
  <2>1. held' = held  BY <1>0, <1>1
  <2> QED  BY <1>1, <1>g, <1>s, <2>1
<1>2. CASE Quiet \/ MasterMoves
  BY <1>1, <1>2 DEF Quiet, MasterMoves, disk, followerDb
<1>3. CASE FollowerCrash
  <2>1. PICK undone \in SUBSET {u \in Uploads \ durable : path[u] # NoPath /\ Here(u) = u} :
          part' = part \cup undone
    BY <1>3 DEF FollowerCrash
  <2>2. row' = row /\ indexed' = indexed /\ fReserved' = fReserved /\ fUsed' = fUsed
    BY <1>3 DEF FollowerCrash, followerDb
  <2>3. held' = held  BY <1>0, <2>2
  <2>4. ASSUME NEW u \in undone PROVE u \in held
    <3>1. u \in Uploads /\ AtPath(u) /\ u \notin durable  BY <2>1 DEF AtPath
    <3>2. path[u] \in Paths /\ target[path[u]] = u  BY <3>1, <1>i, AtPathIff
    <3>3. Live(u)  BY <3>1, <3>2, <1>i, Distinct DEF PathsOwned
    <3> QED  BY <1>0, <1>i, <3>1, <3>3 DEF BytesFit, Live
  <2> QED  BY <1>g, <1>s, <2>1, <2>2, <2>3, <2>4
<1>4. ASSUME NEW u \in Uploads, CanReserve(u), ReserveRow(u) PROVE FollowerSound'
  <2>1. /\ row[u] = "none" /\ row' = [row EXCEPT ![u] = "reserved"]
        /\ fReserved' = fReserved + Size[u] /\ part' = part \cup {u}
        /\ indexed' = indexed /\ fUsed' = fUsed /\ Allocated - fUsed - fReserved >= Size[u]
    BY <1>4 DEF CanReserve, ReserveRow, Set
  <2>2. held' = held \cup {u} /\ u \notin held  BY <1>0, <1>i, <2>1 DEF FollowerTypes
  <2>3. Bytes(held') = Bytes(held) + Size[u] /\ Size[u] \in Nat  BY <1>0, <2>2, BytesAdd
  <2>4. fUsed' + fReserved' <= Allocated  BY <1>s, <2>1, <2>3, AllocatedNat
  <2> QED  BY <1>g, <1>s, <2>1, <2>2, <2>3, <2>4
<1>5. ASSUME NEW u \in Uploads, row[u] = "reserved", u \notin part, CompleteRow(u), part' = part
      PROVE  FollowerSound'
  <2>1. /\ row' = [row EXCEPT ![u] = "complete"] /\ indexed' = indexed \cup {u}
        /\ fReserved' = fReserved - Size[u] /\ fUsed' = fUsed + Size[u]
    BY <1>5 DEF CompleteRow, Set
  <2>2. held' = held \ {u} /\ u \in held /\ u \notin indexed  BY <1>0, <1>5, <1>i, <2>1 DEF FollowerTypes
  <2>3. Bytes(held) = Bytes(held \ {u}) + Size[u] /\ Size[u] \in Nat /\ Bytes(held \ {u}) \in Nat
    BY <1>0, <2>2, BytesRemove
  <2>4. Bytes(indexed \cup {u}) = Bytes(indexed) + Size[u]  BY <1>0, <2>2, BytesAdd
  <2>5. fReserved' = Bytes(held') /\ fUsed' = Bytes(indexed')  BY <1>s, <2>1, <2>2, <2>3, <2>4
  <2>6. fUsed' + fReserved' <= Allocated  BY <1>s, <2>1, <2>3, AllocatedNat
  <2> QED  BY <1>5, <1>g, <1>s, <2>2, <2>5, <2>6
<1>6. ASSUME NEW u \in Uploads, ClearCommit(u) PROVE FollowerSound'
  <2>1. /\ row' = [row EXCEPT ![u] = "cancelled"] /\ indexed' = indexed \ {u} /\ part' = part
        /\ fReserved' = AtLeastZero(fReserved - Refund(u, {"reserved"}))
    BY <1>6 DEF ClearCommit, Set, disk
  <2>2. fUsed' = AtLeastZero(fUsed - Refund(u, IF fop[u].owner = u THEN {"complete", "none"} ELSE {"complete"}))
    BY <1>6 DEF ClearCommit
  <2>3. u \notin part /\ (fop[u].owner = u => row[u] = "complete")
    BY <1>0, <1>6, <1>i DEF ClearCommit, HandlersFit
  <2>4. held' = held \ {u}  BY <1>0, <1>i, <2>1 DEF FollowerTypes
  <2>5. fReserved' = Bytes(held') /\ fReserved' <= fReserved
    <3>1. CASE row[u] = "reserved"
      <4>1. Bytes(held) = Bytes(held \ {u}) + Size[u] /\ Size[u] \in Nat /\ Bytes(held \ {u}) \in Nat
        BY <1>0, <3>1, BytesRemove
      <4>2. fReserved' = AtLeastZero(fReserved - Size[u])  BY <2>1, <3>1 DEF Refund
      <4> QED  BY <1>s, <2>4, <4>1, <4>2 DEF AtLeastZero
    <3>2. CASE row[u] # "reserved"
      <4>1. fReserved' = AtLeastZero(fReserved - 0)  BY <2>1, <3>2 DEF Refund
      <4>2. held' = held  BY <1>0, <2>4, <3>2
      <4> QED  BY <1>s, <4>1, <4>2 DEF AtLeastZero
    <3> QED  BY <3>1, <3>2
  <2>6. fUsed' = Bytes(indexed') /\ fUsed' <= fUsed
    <3>1. CASE row[u] = "complete"
      <4>1. /\ Bytes(indexed) = Bytes(indexed \ {u}) + Size[u] /\ Size[u] \in Nat
            /\ Bytes(indexed \ {u}) \in Nat
        BY <1>0, <3>1, BytesRemove
      <4>2. fUsed' = AtLeastZero(fUsed - Size[u])  BY <2>2, <3>1 DEF Refund
      <4> QED  BY <1>s, <2>1, <4>1, <4>2 DEF AtLeastZero
    <3>2. CASE row[u] # "complete"
      <4>1. fUsed' = AtLeastZero(fUsed - 0)  BY <2>2, <2>3, <3>2 DEF Refund
      <4>2. indexed' = indexed  BY <1>0, <2>1, <3>2
      <4> QED  BY <1>s, <4>1, <4>2 DEF AtLeastZero
    <3> QED  BY <3>1, <3>2
  <2>7. fUsed' \in Nat /\ fReserved' \in Nat  BY <1>0, <2>5, <2>6, SlotsFinite
  <2>8. fUsed' + fReserved' <= Allocated  BY <1>s, <2>5, <2>6, <2>7, AllocatedNat
  <2> QED  BY <1>g, <1>s, <2>1, <2>3, <2>4, <2>5, <2>6, <2>8
<1>7. ASSUME NEW u \in Uploads, FilesStep(u) PROVE FollowerSound'
  <2>1. CASE PutRename(u) \/ PutSync(u) \/ Clear(u)
    BY <1>1, <2>1 DEF PutRename, PutSync, Clear, followerDb
  <2>2. CASE fop[u].step = "synced" /\ CanComplete(u) /\ CompleteRow(u) /\ UNCHANGED disk
    <3>1. row[u] = "reserved" /\ u \notin part  BY <2>2, <1>i DEF CanComplete, HandlersFit, BytesFit
    <3> QED  BY <1>5, <2>2, <3>1 DEF disk
  <2>3. CASE fop[u].step = "prove" /\ Proven(u) /\ row[u] = "reserved" /\ CompleteRow(u) /\ part' = part
    <3>1. path[u] \in Paths /\ Live(u)  BY <2>3, <1>i, PathHeld DEF Live
    <3>2. Here(u) = u  BY <2>3, <1>i, <3>1, OwnBytes DEF Proven
    <3>3. u \notin part  BY <1>i, <3>1, <3>2, Distinct DEF AtPath, BytesFit
    <3> QED  BY <1>5, <2>3, <3>3
  <2> QED  BY <1>4, <1>6, <1>7, <2>1, <2>2, <2>3 DEF FilesStep
<1> QED  BY <1>2, <1>3, <1>7, <1>i, StepKinds DEF FollowerMoves

-----------------------------------------------------------------------------
(* The invariant holds from the start and through every step.                  *)

LEMMA SUInit == Init => SUInv
<1> SUFFICES ASSUME Init PROVE SUInv  OBVIOUS
<1>k. "idle" \notin Waiting /\ "nobody" \in Callers /\ "nobody" \notin Deleters /\ NoUpload \notin Uploads
  BY DeletersNamed, Distinct DEF Waiting, Callers
<1>0. /\ \A u \in Uploads : /\ session[u] = "new" /\ catalog[u] = "none" /\ path[u] = NoPath
                            /\ mop[u] = "idle" /\ reply[u] = "none" /\ row[u] = "none"
                            /\ fop[u].step = "idle" /\ fop[u].for = "nobody" /\ ~AtPath(u)
      /\ \A p \in Paths : target[p] = NoUpload
      /\ \A d \in Deleters : deleting[d].step = "idle"
      /\ indexed = {} /\ part = {} /\ durable = {} /\ net = {} /\ fUsed = 0 /\ fReserved = 0
  BY DEF Init, Idle, NoDelete, AtPath
<1>1. MasterTypes  BY DEF Init, MasterTypes, NoDelete
<1>2. FollowerTypes
  <2>1. Idle \in Handlers  BY <1>k DEF Idle, Handlers
  <2> QED  BY <2>1 DEF Init, FollowerTypes
<1>3. RowsFit  BY <1>0 DEF RowsFit
<1>4. PathsOwned  BY <1>0 DEF PathsOwned, Live
<1>5. BytesFit  BY <1>0 DEF BytesFit, Rows
<1>6. HandlersFit  BY <1>0 DEF HandlersFit
<1>7. CallsFit  BY <1>0, <1>k DEF CallsFit, CallFits, DeletionFits
<1>8. CommittedStored  BY <1>0 DEF CommittedStored, Committed
<1>9. FollowerSound
  <2> DEFINE held == Rows({"reserved"})
  <2>1. held = {}  BY <1>0 DEF Rows
  <2> HIDE DEF held
  <2>2. Bytes(held) = 0 /\ Bytes(indexed) = 0  BY <1>0, <2>1, BytesNone
  <2>3. /\ fReserved = Bytes(held) /\ fUsed = Bytes(indexed) /\ fUsed + fReserved <= Allocated
        /\ part \subseteq held
    BY <1>0, <2>2, AllocatedNat
  <2> QED  BY <2>3 DEF FollowerSound, held
<1> QED  BY <1>1, <1>2, <1>3, <1>4, <1>5, <1>6, <1>7, <1>8, <1>9 DEF SUInv

LEMMA SUNext ==
  ASSUME LateRequests = FALSE
  PROVE  SUInv /\ [Next]_vars => SUInv'
<1> SUFFICES ASSUME SUInv, [Next]_vars PROVE SUInv'  OBVIOUS
<1>1. MasterTypes' /\ FollowerTypes'  BY MasterTyped, FollowerTyped DEF SUInv
<1>2. RowsFit' /\ PathsOwned' /\ BytesFit'  BY <1>1, RowsNext, PathsNext, BytesNext
<1>3. HandlersFit' /\ CallsFit'  BY <1>1, HandlersNext, CallsNext
<1>4. CommittedStored' /\ FollowerSound'  BY <1>1, CommittedNext, SoundNext
<1> QED  BY <1>1, <1>2, <1>3, <1>4 DEF SUInv

\* Where each operation of the Master and each handler of the Follower stands, and
\* what it may then rely on (admin_cluster_integrity.py, admin_delete_integrity.py,
\* internal_storage_integrity.py), for every set of uploads and number of faults,
\* when no request outlives its caller.
THEOREM UploadsInvariant ==
  ASSUME LateRequests = FALSE
  PROVE  Spec => []SUInv
BY SUInit, SUNext, PTL DEF Spec

\* What the catalog serves is at its path, synced, indexed and complete on the
\* Follower: finalize_upload follows a proof, and no reconciliation, expiry sweep,
\* deletion or crash takes the bytes afterwards.
THEOREM PublishedIsStored ==
  ASSUME LateRequests = FALSE
  PROVE  Spec => []PublishedStored
<1>1. SUInv => PublishedStored
  BY DEF SUInv, CommittedStored, Committed, Stored, PublishedStored
<1> QED  BY <1>1, UploadsInvariant, PTL

\* _reserve, _complete and _reconcile_checked keep used and reserved bytes equal to
\* what the rows add up to, within the allocation, and no staging file without a
\* reservation whose clean-up will find it.
THEOREM FollowerBooksExact ==
  ASSUME LateRequests = FALSE
  PROVE  Spec => []FollowerSound
<1>1. SUInv => FollowerSound  BY DEF SUInv
<1> QED  BY <1>1, UploadsInvariant, PTL

\* Bytes come to a path by a rename and go by a clean-up, unless the node crashes.
LEMMA HeldSteps ==
  ASSUME SUInv, MasterTypes', FollowerTypes', [Next]_vars, ~FollowerCrash, NEW u \in Uploads,
         ~(AtPath(u)' <=> AtPath(u))
  PROVE  (PutRename(u) /\ ~AtPath(u) /\ AtPath(u)') \/ (Clear(u) /\ AtPath(u) /\ ~AtPath(u)')
<1>i. MasterTypes /\ FollowerTypes /\ RowsFit /\ PathsOwned /\ BytesFit /\ HandlersFit /\ CallsFit
  BY DEF SUInv
<1>1. CASE session[u] = "new"
  <2>1. path[u] = NoPath /\ ~AtPath(u)  BY <1>1, <1>i DEF RowsFit, AtPath
  <2>2. \E v \in Uploads, p \in Paths : Reserve(v, p) /\ path'[u] # path[u] /\ target' = target
    <3>1. path'[u] # path[u]  BY <2>1, <1>i DEF AtPath
    <3> QED
      BY <3>1, <1>i, StepKinds DEF Quiet, MasterMoves, FollowerMoves, CatalogStep, MarkPendingDelete,
         SettleDelete, disk
  <2>3. PICK v \in Uploads, p \in Paths : Reserve(v, p) /\ path'[u] # path[u] /\ target' = target
    BY <2>2
  <2>4. v = u /\ path'[u] = p  BY <2>3, <1>i DEF Reserve, Set, MasterTypes
  <2>5. target[p] # u  BY <2>3, <2>4, <1>i, NewPathEmpty
  <2> QED  BY <1>1, <2>1, <2>3, <2>4, <2>5 DEF AtPath, Here
<1>2. CASE session[u] # "new"
  <2>1. FilesStep(u)  BY <1>2, OthersLeave
  <2>p. path[u] \in Paths  BY <1>2, <1>i, PathHeld
  <2>2. PutRename(u) \/ Clear(u)
    <3>1. ~(path'[u] = path[u] /\ target' = target)  BY DEF AtPath, Here
    <3>2. ~Quiet  BY <3>1 DEF Quiet, disk
    <3>4. ~MasterMoves
      <4>1. MasterMoves => target' = target /\ path'[u] = path[u]
        BY <1>2, <1>i DEF MasterMoves, CatalogStep, Reserve, MarkPendingDelete, SettleDelete, Set,
           MasterTypes, disk
      <4> QED  BY <3>1, <4>1
    <3>3. path' = path  BY <1>i, <3>2, <3>4, StepKinds DEF FollowerMoves
    <3> QED
      BY <2>1, <3>1, <3>3 DEF FilesStep, ReserveRow, PutSync, CompleteRow, ClearCommit, disk
  <2>3. PutRename(u) => AtPath(u)'
    BY <2>p, <1>i, Distinct DEF PutRename, Set, AtPath, Here, masterDb, FollowerTypes
  <2>4. Clear(u) => ~AtPath(u)'
    BY <2>p, <1>i, Distinct DEF Clear, Set, AtPath, Here, masterDb, FollowerTypes
  <2> QED  BY <2>2, <2>3, <2>4
<1> QED  BY <1>1, <1>2

\* os.replace and unlink only ever meet the bytes of the upload they are for, and
\* synced bytes only go in _reconcile_checked.
THEOREM BytesNotOverwritten ==
  ASSUME LateRequests = FALSE
  PROVE  Spec => NoOverwrite
<1> DEFINE Kept == \A u \in Uploads : AtPath(u) /\ target'[path[u]] # u =>
                     /\ target'[path[u]] = NoUpload
                     /\ fop[u].step = "check" \/ u \notin durable
<1>1. ASSUME SUInv, SUInv', [Next]_vars PROVE Kept
  <2>i. /\ MasterTypes /\ FollowerTypes /\ RowsFit /\ PathsOwned /\ BytesFit /\ HandlersFit /\ CallsFit
        /\ MasterTypes' /\ FollowerTypes'
    BY <1>1 DEF SUInv
  <2> SUFFICES ASSUME NEW u \in Uploads, AtPath(u), target'[path[u]] # u
               PROVE  target'[path[u]] = NoUpload /\ (fop[u].step = "check" \/ u \notin durable)
    OBVIOUS
  <2>p. path[u] \in Paths /\ target[path[u]] = u /\ session[u] # "new" /\ Live(u)
    BY <2>i, AtPathIff, Distinct DEF RowsFit, AtPath, PathsOwned
  <2>1. CASE FollowerCrash
    <3>1. PICK undone \in SUBSET {v \in Uploads \ durable : path[v] # NoPath /\ Here(v) = v} :
            target' = [p \in Paths |-> IF target[p] \in undone THEN NoUpload ELSE target[p]]
      BY <2>1 DEF FollowerCrash
    <3> QED  BY <2>p, <3>1
  <2>2. CASE ~FollowerCrash /\ FilesStep(u)
    <3>1. target' # target => PutRename(u) \/ Clear(u)
      BY <2>2 DEF FilesStep, ReserveRow, PutSync, CompleteRow, ClearCommit, disk
    <3>2. ~PutRename(u)  BY <2>i, <2>p DEF PutRename, Set, FollowerTypes
    <3>3. Clear(u)  BY <2>p, <3>1, <3>2
    <3> QED  BY <2>i, <2>p, <3>3 DEF Clear, Set, FollowerTypes
  <2>3. CASE ~FollowerCrash /\ ~FilesStep(u)
    <3>1. AtPath(u)' /\ path'[u] = path[u]  BY <1>1, <2>i, <2>p, <2>3, OthersLeave
    <3> QED  BY <3>1 DEF AtPath, Here
  <2> QED  BY <2>1, <2>2, <2>3
<1>2. UNCHANGED vars => UNCHANGED target  BY DEF vars, disk
<1> HIDE DEF Kept
<1>3. [][Kept]_vars => NoOverwrite  BY <1>2, PTL DEF Kept, NoOverwrite
<1> QED  BY <1>1, <1>3, UploadsInvariant, PTL DEF Spec

-----------------------------------------------------------------------------
(* The contract.                                                               *)

Stages == [u \in Uploads |-> Stage(u)]
Held == {u \in Uploads : AtPath(u)}

\* The stage of an upload, by its rows.
StagesFit ==
  \A u \in Uploads :
    /\ session[u] = "new" => Stage(u) = "new"
    /\ session[u] = "reserved" => Stage(u) = "reserved"
    /\ session[u] = "gone" => Stage(u) = "released"
    /\ catalog[u] = "active" => Stage(u) = "published"
    /\ catalog[u] = "pending_delete" => Stage(u) = "deleting"
    /\ catalog[u] = "deleted" => Stage(u) = "gone"

LEMMA StageIs == MasterTypes /\ RowsFit => StagesFit
<1> SUFFICES ASSUME MasterTypes, RowsFit, NEW u \in Uploads
             PROVE  /\ session[u] = "new" => Stage(u) = "new"
                    /\ session[u] = "reserved" => Stage(u) = "reserved"
                    /\ session[u] = "gone" => Stage(u) = "released"
                    /\ catalog[u] = "active" => Stage(u) = "published"
                    /\ catalog[u] = "pending_delete" => Stage(u) = "deleting"
                    /\ catalog[u] = "deleted" => Stage(u) = "gone"
  BY DEF StagesFit
<1>1. session[u] \in {"new", "reserved", "complete", "gone"}  BY DEF MasterTypes
<1>2. catalog[u] \in {"none", "active", "pending_delete", "deleted"}  BY DEF MasterTypes
<1>3. session[u] = "complete" <=> catalog[u] # "none"  BY DEF RowsFit
<1>4. CASE session[u] = "new"  BY <1>2, <1>3, <1>4 DEF Stage
<1>5. CASE session[u] = "reserved"  BY <1>2, <1>3, <1>5 DEF Stage
<1>6. CASE session[u] = "gone"  BY <1>2, <1>3, <1>6 DEF Stage
<1>7. CASE session[u] = "complete" /\ catalog[u] = "active"  BY <1>7 DEF Stage
<1>8. CASE session[u] = "complete" /\ catalog[u] = "pending_delete"  BY <1>8 DEF Stage
<1>9. CASE session[u] = "complete" /\ catalog[u] = "deleted"  BY <1>9 DEF Stage
<1> QED  BY <1>1, <1>2, <1>3, <1>4, <1>5, <1>6, <1>7, <1>8, <1>9

LEMMA StageAfter == (MasterTypes /\ RowsFit => StagesFit)'
BY StageIs, PTL

\* A step of the Master moves one stage.
LEMMA MasterMeetsContract ==
  ASSUME SUInv, SUInv', [Next]_vars, MasterMoves
  PROVE  [Contract!Next]_(Contract!vars)
<1>i. /\ MasterTypes /\ FollowerTypes /\ RowsFit /\ PathsOwned /\ BytesFit /\ HandlersFit /\ CallsFit
      /\ CommittedStored /\ MasterTypes' /\ FollowerTypes'
  BY DEF SUInv
<1>s. StagesFit /\ StagesFit'  BY <1>i, StageIs, StageAfter DEF SUInv
<1>h. \A u \in Uploads : AtPath(u)' <=> AtPath(u)
  <2> SUFFICES ASSUME NEW u \in Uploads, ~(AtPath(u)' <=> AtPath(u)) PROVE FALSE  OBVIOUS
  <2>1. ~FollowerCrash
    <3>1. fop' = fop /\ target' = target /\ path' = path => (AtPath(u)' <=> AtPath(u))  BY DEF AtPath, Here
    <3> QED  BY <3>1 DEF MasterMoves, FollowerCrash, disk, masterDb
  <2>2. PutRename(u) \/ Clear(u)  BY <1>i, <2>1, HeldSteps
  <2> QED  BY <1>i, <2>2 DEF PutRename, Clear, GoOn, MasterMoves, Handlers, FollowerTypes
<1>1. Held' = Held  BY <1>h DEF Held
<1>o. \A v \in Uploads : session'[v] = session[v] /\ catalog'[v] = catalog[v] => Stage(v)' = Stage(v)
  BY DEF Stage
<1>m. ASSUME NEW u \in Uploads, NEW s, Stage(u)' = s,
             \A v \in Uploads : v # u => session'[v] = session[v] /\ catalog'[v] = catalog[v]
      PROVE  Stages' = [Stages EXCEPT ![u] = s]
  BY <1>m, <1>o DEF Stages
<1>2. ASSUME NEW u \in Uploads, NEW p \in Paths, Reserve(u, p) PROVE Contract!Reserve(u)
  <2>1. Stage(u) = "new"  BY <1>2, <1>s DEF Reserve, StagesFit
  <2>2. session' = [session EXCEPT ![u] = "reserved"] /\ catalog' = catalog  BY <1>2 DEF Reserve, Set
  <2>3. Stage(u)' = "reserved"  BY <2>2, <1>i, <1>s DEF StagesFit, MasterTypes
  <2>4. Stages' = [Stages EXCEPT ![u] = "reserved"]  BY <1>m, <1>i, <2>2, <2>3 DEF MasterTypes
  <2> QED  BY <1>1, <2>1, <2>4 DEF Contract!Reserve, Contract!Moves, Stages, Held
<1>3. ASSUME NEW u \in Uploads, session[u] = "reserved", mop[u] \in {"proved", "recovered"},
             session' = [session EXCEPT ![u] = "complete"],
             catalog' = [catalog EXCEPT ![u] = "active"]
      PROVE  Contract!Publish(u)
  <2>1. Stage(u) = "reserved"  BY <1>3, <1>s DEF StagesFit
  <2>2. AtPath(u)  BY <1>3, <1>i DEF CommittedStored, Committed, Stored
  <2>3. Stage(u)' = "published"
    <3>1. session'[u] = "complete" /\ catalog'[u] = "active"  BY <1>3, <1>i DEF MasterTypes
    <3> QED  BY <3>1, <1>s DEF StagesFit
  <2>4. Stages' = [Stages EXCEPT ![u] = "published"]  BY <1>3, <1>m, <1>i, <2>3 DEF MasterTypes
  <2> QED  BY <1>1, <2>1, <2>2, <2>4 DEF Contract!Publish, Contract!Moves, Stages, Held
<1>4. ASSUME NEW u \in Uploads, session[u] = "reserved", mop[u] = "cleared",
             session' = [session EXCEPT ![u] = "gone"], catalog' = catalog
      PROVE  Contract!Release(u)
  <2>1. Stage(u) = "reserved"  BY <1>4, <1>s DEF StagesFit
  <2>2. ~Live(u)  BY <1>4, <1>i DEF CallsFit, CallFits, Live
  <2>3. ~AtPath(u)  BY <2>2, <1>i, AtPathIff, Distinct DEF PathsOwned
  <2>4. session'[u] = "gone"  BY <1>4, <1>i DEF MasterTypes
  <2>5. Stage(u)' = "released"  BY <2>4, <1>s DEF StagesFit
  <2>6. Stages' = [Stages EXCEPT ![u] = "released"]  BY <1>4, <1>m, <1>i, <2>5 DEF MasterTypes
  <2> QED  BY <1>1, <2>1, <2>3, <2>6 DEF Contract!Release, Contract!Moves, Stages, Held
<1>5. ASSUME NEW u \in Uploads, MarkPendingDelete(u) PROVE Contract!Delete(u)
  <2>1. catalog' = [catalog EXCEPT ![u] = "pending_delete"] /\ catalog[u] = "active" /\ session' = session
    BY <1>5 DEF MarkPendingDelete, Set
  <2>2. session[u] = "complete"  BY <2>1, <1>i DEF RowsFit
  <2>3. Stage(u) = "published"  BY <2>1, <2>2, <1>s DEF StagesFit
  <2>4. catalog'[u] = "pending_delete" /\ session'[u] = "complete"  BY <2>1, <2>2, <1>i DEF MasterTypes
  <2>5. Stage(u)' = "deleting"  BY <2>4, <1>s DEF StagesFit
  <2>6. Stages' = [Stages EXCEPT ![u] = "deleting"]  BY <1>m, <1>i, <2>1, <2>5 DEF MasterTypes
  <2> QED  BY <1>1, <2>3, <2>6 DEF Contract!Delete, Contract!Moves, Stages, Held
<1>6. ASSUME NEW d \in Deleters, SettleDelete(d)
      PROVE  [Contract!Next]_(Contract!vars)
  <2>1. PICK u \in Uploads : u = deleting[d].upload /\ Deleted(u) /\ row[u] = "cancelled"
    BY <1>6, <1>i DEF SettleDelete, CallsFit, DeletionFits
  <2>2. catalog' = [catalog EXCEPT ![u] = "deleted"] /\ session' = session
    BY <1>6, <2>1 DEF SettleDelete, Set
  <2>3. session[u] = "complete"  BY <2>1, <1>i DEF RowsFit, Deleted
  <2>4. ~AtPath(u)  BY <2>1, <1>i, AtPathIff, Distinct DEF PathsOwned, Live
  <2>5. catalog'[u] = "deleted" /\ session'[u] = "complete"  BY <2>1, <2>2, <2>3, <1>i DEF MasterTypes
  <2>6. Stage(u)' = "gone"  BY <2>5, <1>s DEF StagesFit
  <2>7. Stages' = [Stages EXCEPT ![u] = "gone"]  BY <1>m, <1>i, <2>1, <2>2, <2>6 DEF MasterTypes
  <2>8. CASE catalog[u] = "pending_delete"
    <3>1. Stage(u) = "deleting"  BY <2>3, <2>8, <1>s DEF StagesFit
    <3>2. Contract!Forget(u)
      BY <1>1, <2>1, <2>4, <2>7, <3>1 DEF Contract!Forget, Contract!Moves, Stages, Held
    <3> QED  BY <2>1, <3>2 DEF Contract!Next
  <2>9. CASE catalog[u] = "deleted"
    <3>1. Stage(u) = "gone"  BY <2>3, <2>9, <1>s DEF StagesFit
    <3>2. Stages' = Stages  BY <2>7, <3>1 DEF Stages
    <3> QED  BY <1>1, <3>2 DEF Contract!vars, Stages, Held
  <2> QED  BY <2>1, <2>8, <2>9 DEF Deleted
<1>7. CatalogStep  BY DEF MasterMoves
<1> QED
  BY <1>2, <1>3, <1>4, <1>5, <1>6, <1>7 DEF CatalogStep, Contract!Next

\* A step of the Follower brings or takes bytes.
LEMMA FollowerMeetsContract ==
  ASSUME SUInv, SUInv', LateRequests = FALSE, [Next]_vars, FollowerMoves
  PROVE  [Contract!Next]_(Contract!vars)
<1>i. /\ MasterTypes /\ FollowerTypes /\ RowsFit /\ PathsOwned /\ BytesFit /\ HandlersFit /\ CallsFit
      /\ CommittedStored /\ MasterTypes' /\ FollowerTypes'
  BY DEF SUInv
<1>s. StagesFit  BY <1>i, StageIs
<1>p. session' = session /\ catalog' = catalog /\ path' = path  BY DEF FollowerMoves
<1>1. Stages' = Stages
  <2>1. \A u \in Uploads : Stage(u)' = Stage(u)  BY <1>p DEF Stage
  <2> QED  BY <2>1 DEF Stages
<1>r. ASSUME NEW u \in Uploads, row[u] = "reserved" PROVE Stage(u) = "reserved"
  <2>1. session[u] = "reserved"  BY <1>i, <1>r DEF RowsFit, MasterTypes
  <2> QED  BY <1>s, <2>1 DEF StagesFit
<1>l. ASSUME NEW u \in Uploads, AtPath(u) PROVE Live(u)
  BY <1>i, <1>l, AtPathIff, Distinct DEF PathsOwned
<1>2. CASE FollowerCrash
  <2>1. PICK undone \in SUBSET {u \in Uploads \ durable : path[u] # NoPath /\ Here(u) = u} :
          target' = [q \in Paths |-> IF target[q] \in undone THEN NoUpload ELSE target[q]]
    BY <1>2 DEF FollowerCrash
  <2>2. ASSUME NEW u \in Uploads PROVE AtPath(u)' <=> AtPath(u) /\ u \notin undone
    <3>1. AtPath(u)' <=> path[u] \in Paths /\ target'[path[u]] = u
      BY <1>i, <1>p, AtPathIff, Distinct DEF MasterTypes
    <3>2. AtPath(u) <=> path[u] \in Paths /\ target[path[u]] = u  BY <1>i, AtPathIff
    <3> QED  BY <2>1, <3>1, <3>2, Distinct
  <2>3. Held' = Held \ undone  BY <2>2 DEF Held
  <2>4. ASSUME NEW u \in undone PROVE u \in Held /\ Stage(u) = "reserved"
    <3>1. u \in Uploads /\ AtPath(u) /\ u \notin durable  BY <2>1 DEF AtPath
    <3>2. row[u] = "reserved"  BY <1>i, <1>l, <3>1 DEF Live, BytesFit
    <3> QED  BY <1>r, <3>1, <3>2 DEF Held
  <2>5. Contract!Vanish(undone)
    BY <1>1, <2>1, <2>3, <2>4 DEF Contract!Vanish, Stages, Held
  <2> QED  BY <2>1, <2>5 DEF Contract!Next
<1>3. CASE ~FollowerCrash /\ \A u \in Uploads : AtPath(u)' <=> AtPath(u)
  <2>1. Held' = Held  BY <1>3 DEF Held
  <2> QED  BY <1>1, <2>1 DEF Contract!vars, Stages, Held
<1>4. ASSUME ~FollowerCrash, NEW u \in Uploads, ~(AtPath(u)' <=> AtPath(u))
      PROVE  [Contract!Next]_(Contract!vars)
  <2>1. (PutRename(u) /\ ~AtPath(u) /\ AtPath(u)') \/ (Clear(u) /\ AtPath(u) /\ ~AtPath(u)')
    BY <1>4, <1>i, HeldSteps
  <2>2. ASSUME NEW v \in Uploads, v # u PROVE AtPath(v)' <=> AtPath(v)
    <3>1. ~(PutRename(v) \/ Clear(v))
      BY <2>1, <2>2, <1>i DEF PutRename, Clear, GoOn, FollowerTypes, Handlers
    <3> QED  BY <1>4, <1>i, <3>1, HeldSteps
  <2>3. CASE PutRename(u) /\ AtPath(u)'
    <3>1. Held' = Held \cup {u}  BY <2>2, <2>3 DEF Held
    <3>2. Stage(u) = "reserved"  BY <1>i, <1>r, <2>3 DEF PutRename, HandlersFit
    <3>3. Contract!Arrive(u)  BY <1>1, <3>1, <3>2 DEF Contract!Arrive, Stages, Held
    <3> QED  BY <3>3 DEF Contract!Next
  <2>4. CASE Clear(u) /\ AtPath(u) /\ ~AtPath(u)'
    <3>1. Held' = Held \ {u}  BY <2>2, <2>4 DEF Held
    <3>2. ~Committed(u)  BY <1>i, <2>4 DEF Clear, CommittedStored
    <3>3. catalog[u] # "deleted" /\ session[u] # "gone" /\ session[u] # "new"
      BY <1>i, <1>l, <2>4 DEF RowsFit, Live, AtPath
    <3>4. session[u] = "reserved" \/ catalog[u] = "pending_delete"
      BY <1>i, <3>2, <3>3 DEF Committed, RowsFit, MasterTypes
    <3>5. Stage(u) \in {"reserved", "deleting"}  BY <1>s, <3>4 DEF StagesFit
    <3>6. Contract!Vanish({u})
      BY <1>1, <2>4, <3>1, <3>5 DEF Contract!Vanish, Stages, Held
    <3> QED  BY <3>6 DEF Contract!Next
  <2> QED  BY <2>1, <2>3, <2>4
<1> QED  BY <1>2, <1>3, <1>4

\* Both nodes together keep StorageContract: every step publishes, releases or
\* deletes one object as the contract says, or changes nothing it speaks of.
THEOREM ContractKept ==
  ASSUME LateRequests = FALSE
  PROVE  Spec => ImplementsContract
<1>1. Init => Contract!Init
  <2> SUFFICES ASSUME Init PROVE Contract!Init  OBVIOUS
  <2>1. SUInv  BY SUInit
  <2>2. StagesFit  BY <2>1, StageIs DEF SUInv
  <2>3. \A u \in Uploads : session[u] = "new" /\ ~AtPath(u)  BY DEF Init, AtPath
  <2>4. \A u \in Uploads : Stage(u) = "new"  BY <2>2, <2>3 DEF StagesFit
  <2> QED  BY <2>3, <2>4 DEF Contract!Init
<1>2. ASSUME SUInv, SUInv', [Next]_vars PROVE [Contract!Next]_(Contract!vars)
  <2>1. CASE Quiet
    <3>1. \A u \in Uploads : Stage(u)' = Stage(u)  BY <2>1 DEF Quiet, Stage
    <3>2. \A u \in Uploads : AtPath(u)' <=> AtPath(u)  BY <2>1 DEF Quiet, disk, AtPath, Here
    <3> QED  BY <3>1, <3>2 DEF Contract!vars
  <2>2. Quiet \/ MasterMoves \/ FollowerMoves  BY <1>2, StepKinds DEF SUInv
  <2> QED  BY <1>2, <2>1, <2>2, MasterMeetsContract, FollowerMeetsContract
<1> QED  BY <1>1, <1>2, UploadsInvariant, PTL DEF Spec, ImplementsContract, Contract!Spec

=============================================================================
