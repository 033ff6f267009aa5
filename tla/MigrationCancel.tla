--------------------------- MODULE MigrationCancel ----------------------------
(***************************************************************************)
(* Cancelling a migration, from whatever phase it is in: while a member    *)
(* works, after some units have moved, from a pause or after a failure.    *)
(* Migration is the task until then, CancelPeers what its members do; this *)
(* module is the Master: the control, the ticks of the state "cancelling"  *)
(* and the journals they keep.                                             *)
(*                                                                         *)
(* A query that only asks for an old receipt and the authorised repetition *)
(* after it are one call; so are the query and release of a released       *)
(* Source.  Storing the two witnesses before a settlement is part of the   *)
(* answer that brought the second one.  A cancellation that failed before  *)
(* publication waits for a retry by a person: no fault of this module      *)
(* brings it there.                                                        *)
(***************************************************************************)
EXTENDS CancelPeers

VARIABLES
  cancel,     \* the plan's journal: path, stops of this epoch, the stage of
              \*   the closing in this epoch, the release records kept
  undo        \* Units -> proof epoch and receipts of the taking back

cancelVars == <<cancel, undo>>
allVars == <<vars, cancelPeerVars, cancelVars>>

CancelInit ==
  /\ Init /\ CancelPeersInit
  /\ cancel = [path |-> "", stops |-> [epoch |-> 0, sides |-> {}],
               at |-> [epoch |-> 0, step |-> "begin"], records |-> {}]
  /\ undo = [u \in Units |-> [proof |-> 0, target |-> FALSE, source |-> FALSE, settled |-> {}]]

Withdrawn == {u \in Units : unit[u].state = "cancelled"}

-----------------------------------------------------------------------------
(* Controls and candidates.                                                *)

(* A task that ever asked for publication, or moved a unit, is taken back  *)
(* unit by unit. *)
Path(from) ==
  IF \/ from \in {"committing", "cleanup_pending"}
     \/ \E u \in Units : unit[u].state # "pending"
    THEN "publication" ELSE "prepublication"

Cancel ==
  LET from == IF task.state \in {"paused", "failed"} THEN task.resume ELSE task.state IN
  /\ from \in Pausable /\ Fault
  /\ task' = [state |-> "cancelling", resume |-> "", reason |-> "", error |-> ""]
  /\ cancel' = [cancel EXCEPT !.path = Path(from)]
  /\ Revoke /\ Controls
  /\ UNCHANGED <<cancelPeerVars, undo>>

(* Mutant: the rule of the clean-up, which knows no unit to take back. *)
CancelDueCleaned == Uncleaned = {} \/ \E u \in Uncleaned : unit[u].grace = "over"

(* Only a period of grace keeps a cancellation waiting. *)
CancelDue ==
  \/ Uncommitted # {} \/ Unacknowledged # {} \/ Uncleaned = {}
  \/ \E u \in Uncleaned : unit[u].grace = "over"

(* Retries while traffic stays busy only burn epochs: they are left out. *)
ClaimCancel ==
  /\ task.state = "cancelling" /\ (quiet \/ task.error = "")
  /\ cancel.path = "publication" => CancelDue
  /\ ClaimTask
  /\ UNCHANGED <<cancelPeerVars, cancelVars>>

-----------------------------------------------------------------------------
(* Ticks of the publication path.                                          *)

Cancelling(path) == Tick("cancelling") /\ cancel.path = path

Unchanged(S) == UNCHANGED <<quiet, peerVars, faults, cancelPeerVars, S>>

StoppedNow == IF cancel.stops.epoch = lease.epoch THEN cancel.stops.sides ELSE {}

(* One transaction closes a unit at the Master and refunds its bytes. *)
FinishUnit(u) ==
  IF books.reserved = N - Cardinality(Moved) - Cardinality(Withdrawn)
    THEN /\ unit' = [unit EXCEPT ![u].state = "cancelled"]
         /\ books' = [books EXCEPT !.reserved = @ - 1]
         /\ task' = [task EXCEPT !.error = ""]
         /\ UNCHANGED receipts /\ NoCall /\ Keep
    ELSE Stop("refused")

(* The permission to undo a unit: the Source owns it, its bytes are held.   *)
Authorised(u) == unit[u].state \in {"pending", "publishing"} /\ books.reserved >= 1

(* Mutant: the original is certified before the copy is taken back. *)
TakeBackHastily(u) ==
  IF undo[u].settled = Sides THEN FinishUnit(u)
  ELSE IF undo[u].source
    THEN Call(IF "source" \notin undo[u].settled THEN "source" ELSE "target", "settle", u, 0)
  ELSE IF undo[u].proof # lease.epoch THEN Call("source", "prove", u, 0)
  ELSE Call("source", "retain", u, 0)

TakeBack(u) ==
  IF undo[u].settled = Sides THEN FinishUnit(u)
  ELSE IF undo[u].source
    THEN Call(IF "source" \notin undo[u].settled THEN "source" ELSE "target", "settle", u, 0)
  ELSE IF undo[u].target THEN Call("source", "retain", u, 0)
  ELSE IF undo[u].proof # lease.epoch THEN Call("source", "prove", u, 0)
  ELSE IF Authorised(u) THEN Call("target", "undo", u, 0)
  ELSE Stop("refused")

(* Both members are stopped anew by every runner before units are undone. *)
TakeBackTick ==
  /\ Cancelling("publication") /\ Uncommitted # {}
  /\ IF StoppedNow # Sides
       THEN Call(IF "source" \notin StoppedNow THEN "source" ELSE "target", "stop", 0, 0)
       ELSE IF Unacknowledged # {} THEN AcknowledgeOne
       ELSE TakeBack(First(Uncommitted))
  /\ Unchanged(cancelVars)

Delay == Note /\ Release /\ UNCHANGED <<unit, receipts, books>> /\ NoCall

(* Committed units finish their migration, clean-up and grace included. *)
MovedTick ==
  /\ Cancelling("publication") /\ Uncommitted = {}
  /\ Unacknowledged # {} \/ Uncleaned # {} \/ Moved = Units
  /\ IF Unacknowledged # {} THEN AcknowledgeOne
     ELSE IF Uncleaned = {} THEN FinalizeStep("cancelled")
     ELSE IF quiet THEN CleanupStep
     ELSE Delay
  /\ Unchanged(cancelVars)

At(first) == IF cancel.at.epoch = lease.epoch THEN cancel.at.step ELSE first

(* With the Source's proof in hand the Master compares it with its own      *)
(* catalogue before it authorises the release. *)
CatalogTick ==
  /\ Cancelling("publication") /\ At("query") = "catalog"
  /\ IF books.source = Cardinality(Withdrawn)
       THEN /\ cancel' = [cancel EXCEPT !.at.step = "release"]
            /\ UNCHANGED <<task, runner, lease, unit, receipts, books>> /\ NoCall
       ELSE Stop("refused") /\ UNCHANGED cancel
  /\ Unchanged(undo)

(* Rows of every unit, then the totals, close the task. *)
CloseTask(retained) ==
  /\ task' = [task EXCEPT !.state = "cancelled", !.error = ""]
  /\ books' = [books EXCEPT !.source = retained]
  /\ lease' = NoLease /\ runner' = [runner EXCEPT !.live = FALSE]
  /\ UNCHANGED receipts /\ NoCall

ReleaseTick ==
  /\ Cancelling("publication") /\ Uncommitted = {} /\ Uncleaned = {} /\ Unacknowledged = {} /\ Moved # Units
  /\ At("query") # "catalog"
  /\ IF "source" \notin cancel.records
       THEN IF At("query") = "census" /\ ~quiet THEN Delay ELSE Call("source", At("query"), 0, 0)
     ELSE IF "target" \notin cancel.records THEN Call("target", "close", 0, 0)
     ELSE CloseTask(Cardinality(Withdrawn)) /\ UNCHANGED unit
  /\ Unchanged(cancelVars)

-----------------------------------------------------------------------------
(* Ticks of the prepublication path: stop both, clean the Target object by *)
(* object, release the Source, close the books.                            *)

AbortCalls == [stop_source |-> <<"source", "abort_stop">>, stop_target |-> <<"target", "abort_stop">>,
               stop_waiting |-> <<"target", "abort_stop">>,
               clean_target |-> <<"target", "abort_clean">>, clean_source |-> <<"source", "abort_clean">>]

AbortTick ==
  LET step == At("stop_source") IN
  /\ Cancelling("prepublication") /\ step \in DOMAIN AbortCalls
  /\ Call(AbortCalls[step][1], AbortCalls[step][2], 0, 0)
  /\ Unchanged(cancelVars)

AbortFinish ==
  /\ Cancelling("prepublication") /\ At("stop_source") = "finish"
  /\ IF books.reserved = N
       THEN /\ task' = [task EXCEPT !.state = "cancelled", !.error = ""]
            /\ unit' = [u \in Units |-> [unit[u] EXCEPT !.state = "cancelled"]]
            /\ books' = [books EXCEPT !.reserved = 0]
            /\ Release /\ UNCHANGED receipts /\ NoCall
       ELSE /\ task' = [task EXCEPT !.error = "refused"]
            /\ Release /\ UNCHANGED <<unit, receipts, books>> /\ NoCall
  /\ Unchanged(cancelVars)

-----------------------------------------------------------------------------
(* Answers.                                                                *)

Next2(step) == cancel' = [cancel EXCEPT !.at = [epoch |-> lease.epoch, step |-> step]] /\ UNCHANGED undo
Recorded(s) == cancel' = [cancel EXCEPT !.records = @ \cup {s}] /\ UNCHANGED undo
Learned(u, row) == undo' = [undo EXCEPT ![u] = row] /\ UNCHANGED cancel

StopLearned ==
  /\ cancel' = [cancel EXCEPT !.stops = [epoch |-> lease.epoch, sides |-> StoppedNow \cup {job.to}]]
  /\ UNCHANGED undo

ReleaseLearned ==
  IF answer.phase = "released" THEN Recorded(job.to)
  ELSE IF job.what = "query" THEN Next2("census")
  ELSE UNCHANGED cancelVars

CensusLearned == IF answer.phase = "verified" THEN Next2("catalog") ELSE UNCHANGED cancelVars

AbortLearned ==
  IF job.what = "abort_stop"
    THEN Next2(IF job.to = "target" THEN "clean_target"
               ELSE IF answer.kind = "wait" THEN "stop_waiting" ELSE "stop_target")
    ELSE IF answer.phase = "cleaning" THEN UNCHANGED cancelVars
    ELSE Next2(IF job.to = "target" THEN "clean_source" ELSE "finish")

(* What a successful call writes into the journals. *)
Journal ==
  LET u == job.unit IN
  CASE job.what = "stop" -> StopLearned
    [] job.what = "prove" -> Learned(u, [undo[u] EXCEPT !.proof = job.epoch])
    [] job.what = "undo" -> Learned(u, [undo[u] EXCEPT !.target = answer.phase = "cancelled"])
    [] job.what = "retain" -> Learned(u, [undo[u] EXCEPT !.source = TRUE])
    [] job.what = "settle" -> Learned(u, [undo[u] EXCEPT !.settled = @ \cup {job.to}])
    [] job.what \in {"query", "release", "close"} -> ReleaseLearned
    [] job.what = "census" -> CensusLearned
    [] job.what \in {"abort_stop", "abort_clean"} -> AbortLearned

(* A stop that must wait does not spare the other member its own. *)
Waits ==
  \/ answer.kind = "wait" /\ ~(job.what = "abort_stop" /\ job.to = "source")
  \/ job.what = "abort_stop" /\ job.to = "target" /\ At("") = "stop_waiting"

CancelAnswered ==
  /\ answer # None /\ job.what \notin Moves
  /\ IF ~Fenced
       THEN Release /\ UNCHANGED <<task, cancelVars>>
     ELSE IF answer.kind \notin {"ok", "wait"}
       THEN /\ IF cancel.path = "publication" THEN Fail(answer.kind)
                                              ELSE task' = [task EXCEPT !.error = answer.kind]
            /\ Release /\ UNCHANGED cancelVars
     ELSE IF Waits
       THEN Note /\ Release /\ UNCHANGED cancelVars
     ELSE /\ Journal
          /\ task' = IF cancel.path = "publication" THEN [task EXCEPT !.error = ""] ELSE task
          /\ IF answer.phase = "cleaning" THEN Release ELSE Keep
  /\ job' = None /\ answer' = None
  /\ UNCHANGED <<unit, receipts, books, quiet, peerVars, net, faults, cancelPeerVars>>

(* The proof an undo waits with runs out at the Master, or at the Target. *)
UndoProofExpires ==
  \/ /\ ProofRunsOut("target", "undo") /\ UNCHANGED <<masterVars, undo>>
  \/ /\ Fault
     /\ \E u \in Uncommitted : undo[u].proof # 0 /\ ~undo[u].target
          /\ undo' = [undo EXCEPT ![u].proof = 0]
     /\ UNCHANGED <<masterVars, peerVars, callVars>>

-----------------------------------------------------------------------------
CancelMasterStep ==
  \/ ClaimCancel \/ TakeBackTick \/ MovedTick \/ CatalogTick \/ ReleaseTick
  \/ AbortTick \/ AbortFinish \/ CancelAnswered

CancelNext ==
  \/ Next /\ UNCHANGED <<cancelPeerVars, cancelVars>>
  \/ Cancel
  \/ CancelMasterStep
  \/ CancelPeerStep /\ UNCHANGED cancelVars
  \/ SourceRestarts /\ UNCHANGED cancelVars
  \/ UndoProofExpires /\ UNCHANGED <<cancel, cancelPeerVars>>

CancelSpec == CancelInit /\ [][CancelNext]_allVars

(* What neither spends a fault nor waits for a person goes on: one thread  *)
(* drives the Master, each member serves what it holds, and traffic gets   *)
(* quiet again. *)
MasterGoesOn ==
  \/ MasterStep /\ UNCHANGED <<faults, cancelPeerVars, cancelVars>>
  \/ CancelMasterStep /\ UNCHANGED faults
PeersGoOn ==
  \/ PeerStep /\ UNCHANGED <<masterVars, faults, cancelPeerVars, cancelVars>>
  \/ CancelPeerStep /\ UNCHANGED cancelVars
TrafficEnds == Traffic /\ UNCHANGED <<faults, cancelPeerVars, cancelVars>>

FairCancelSpec ==
  /\ CancelSpec
  /\ WF_allVars(MasterGoesOn) /\ WF_allVars(PeersGoOn) /\ WF_allVars(TrafficEnds)

-----------------------------------------------------------------------------
(* Properties.                                                             *)

(* The order of a unit's way back.  The Source certifies an original only  *)
(* after the Target's copy is gone, it drops its fence only with the       *)
(* original in place, the Target returns the reservation only after that,  *)
(* and the Master lets go last; a unit that moved is never taken back.     *)
UnitsReturnInOrder ==
  \A u \in Units :
    /\ src[u].unit \in {"retained", "settled"} => tgt[u].unit \in Gone /\ tgt[u].file = "none" /\ src[u].file
    /\ tgt[u].unit = "settled" => src[u].unit = "settled"
    /\ unit[u].state = "cancelled" /\ cancel.path = "publication" =>
         src[u].unit = "settled" /\ tgt[u].unit = "settled"
    /\ unit[u].state \in Committed =>
         tgt[u].unit \in {"published", "committed"} /\ tgt[u].file = "public"

(* Members are released in order, over closed units only, and a cancelled  *)
(* task leaves neither a reservation, nor a staged byte, nor a member that *)
(* still believes it takes part.                                           *)
CancelledLeavesNothing ==
  /\ peer["source"].state = "released" => \A u \in Units : src[u].unit \in {"cleaned", "settled"}
  /\ peer["target"].state = "released" => peer["source"].state = "released" /\ native.reserved = 0
  /\ peer["source"].state = "aborted" => peer["target"].state = "aborted"
  /\ peer["target"].state = "aborted" => native.reserved = 0 /\ \A u \in Units : tgt[u].file = "none"
  /\ task.state = "cancelled" =>
       /\ peer["source"].state = peer["target"].state
       /\ peer["source"].state = IF cancel.path = "prepublication" THEN "aborted" ELSE "released"
       /\ books.reserved = 0 /\ native.reserved = 0
       /\ \A u \in Units : (tgt[u].file = "public") <=> (unit[u].state = "cleaned")

(* Every unit is charged once and refunded at most once, on both sides:    *)
(* the Master's counters follow its unit rows, the Target's its own.       *)
BooksAgree ==
  /\ books.target = Cardinality(Moved)
  /\ books.reserved = N - Cardinality(Moved) - Cardinality(Withdrawn)
  /\ books.source = N - Cardinality(Moved)
  /\ native.used = Cardinality({u \in Units : tgt[u].unit = "committed"})
  /\ peer["target"].state # "aborted" => native.reserved = N - Cardinality(TargetReleased)

(* Once asked for, a cancellation ends; a task nobody cancels settles as    *)
(* before.  A failure waits for a person to retry it.                      *)
Settles ==
  <>[](\/ task.state \in {"completed", "cancelled", "failed"}
       \/ task.state = "paused" /\ task.reason = "manual")

(* The promise about the bytes, with the units a cancellation gave up. *)
Promise == INSTANCE Handover WITH
  owner <- [u \in Units |-> IF unit[u].state \in Committed THEN "target" ELSE "source"],
  original <- [u \in Units |-> src[u].file],
  copy <- [u \in Units |-> tgt[u].file = "public"],
  closed <- Withdrawn
ImplementsHandover == Promise!Spec
=============================================================================
