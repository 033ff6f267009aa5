------------------------------ MODULE Migration -----------------------------
(***************************************************************************)
(* A resource migration as its Master drives it: the journal that fences   *)
(* workers by lease, epoch and revision, the scheduler that takes one      *)
(* bounded step per tick, the cutover that moves ownership of a unit in    *)
(* one transaction, and the controls of an administrator.  The task is     *)
(* enrolled already: the module starts in "copying".                       *)
(*                                                                         *)
(* A tick reads the task under its lease, does one thing and, if that is a *)
(* remote call, writes the answer under the same lease.  Whatever the      *)
(* lease was lost to in between discards the answer.                       *)
(***************************************************************************)
EXTENDS MigrationPeers

VARIABLES
  task,       \* the task row: state, what a pause resumes to, reason, error
  runner,     \* the runner row: epoch, and is it unexpired?
  lease,      \* the lease the scheduler holds (epoch 0: none); current: the
              \*   task's revision is the one it carries
  unit,       \* the unit rows and the proofs they keep
  receipts,   \* sides whose final receipt the task row keeps
  books,      \* the Master's counters of this task on both members, in units
  quiet       \* does the traffic monitor allow background work?

masterVars == <<task, runner, lease, unit, receipts, books, quiet>>
vars == <<masterVars, peerVars, callVars, faults>>

Pausable == {"copying", "verifying", "committing", "cleanup_pending"}
Active == Pausable \cup {"cancelling"}
NoLease == [epoch |-> 0, current |-> FALSE]

Init ==
  /\ PeersInit
  /\ task = [state |-> "copying", resume |-> "", reason |-> "", error |-> ""]
  /\ runner = [epoch |-> 1, live |-> FALSE]
  /\ lease = NoLease
  /\ unit = [u \in Units |->
       [state |-> "pending", copied |-> FALSE, target |-> 0, source |-> 0, receipt |-> 0,
        acks |-> {}, live |-> 0, grace |-> "none"]]
  /\ receipts = {}
  /\ books = [source |-> N, reserved |-> N, target |-> 0]
  /\ quiet = TRUE

-----------------------------------------------------------------------------
(* The journal.                                                            *)

(* Mutant: only the epoch is compared. *)
FencedByEpoch == lease.epoch # 0 /\ runner.epoch = lease.epoch

(* What every transaction of a worker compares first. *)
Fenced ==
  /\ lease.epoch # 0 /\ lease.current
  /\ runner.live /\ runner.epoch = lease.epoch
  /\ task.state \in Active

(* Releasing expires this incarnation only. *)
Release ==
  /\ lease' = NoLease
  /\ runner' = IF runner.epoch = lease.epoch THEN [runner EXCEPT !.live = FALSE] ELSE runner

Keep == UNCHANGED <<runner, lease>>

First(S) == CHOOSE u \in S : \A v \in S : u <= v
Uncommitted == {u \in Units : unit[u].state \notin Committed \cup {"cancelled"}}
Moved == {u \in Units : unit[u].state \in Committed}
Unacknowledged == {u \in Units : unit[u].state \in Committed /\ unit[u].acks # Sides}
Uncleaned == {u \in Units : unit[u].state \notin {"cleaned", "cancelled"}}

(* A call nobody waits for any more. *)
Orphaned ==
  \/ \E r \in net : r # job
  \/ \E s \in Sides : ~Idle(s) /\ work[s].req # job

(* The candidate query.  A waiting task is retried after a delay; that an   *)
(* abandoned call outlasts the delay counts as a fault.                    *)
Due ==
  task.state = "cleanup_pending" =>
    \/ Uncleaned = {}
    \/ \E u \in Uncleaned : unit[u].grace = "over"

ClaimTask ==
  /\ lease.epoch = 0 /\ job = None
  /\ task.state \in Active /\ ~runner.live
  /\ \/ task.error = "" /\ UNCHANGED faults
     \/ task.error = "wait" /\ IF Orphaned THEN Fault ELSE UNCHANGED faults
  /\ runner' = [epoch |-> runner.epoch + 1, live |-> TRUE]
  /\ lease' = [epoch |-> runner.epoch + 1, current |-> TRUE]
  /\ UNCHANGED <<task, unit, receipts, books, quiet, peerVars, callVars>>

Claim == task.state \in Pausable /\ Due /\ ClaimTask

LoseLease ==
  /\ lease.epoch # 0 /\ job = None /\ ~Fenced
  /\ Release
  /\ UNCHANGED <<task, unit, receipts, books, quiet, peerVars, callVars, faults>>

(* error_code sorts errors: those in TRANSIENT are noted and retried, any   *)
(* other stops the task until an administrator retries it.                 *)
Note == task' = [task EXCEPT !.error = "wait"]
Fail(error) == task' = [task EXCEPT !.state = "failed", !.resume = task.state, !.error = error]

RunnerExpires ==
  /\ runner.live
  /\ IF lease.epoch = runner.epoch THEN Fault ELSE UNCHANGED faults
  /\ runner' = [runner EXCEPT !.live = FALSE]
  /\ UNCHANGED <<task, lease, unit, receipts, books, quiet, peerVars, callVars>>

MasterCrash ==
  /\ lease.epoch # 0 /\ Fault
  /\ lease' = NoLease
  /\ job' = None /\ answer' = None
  /\ UNCHANGED <<task, runner, unit, receipts, books, quiet, peerVars, net>>

-----------------------------------------------------------------------------
(* Controls.  Each one takes the revision from the running worker and      *)
(* expires its row.                                                        *)

Revoke ==
  /\ lease' = [lease EXCEPT !.current = FALSE]
  /\ runner' = [runner EXCEPT !.live = FALSE]

Controls == UNCHANGED <<unit, receipts, books, quiet, peerVars, callVars>>

Pause ==
  /\ Fault
  /\ \/ /\ task.state = "paused" /\ task.reason = "traffic"
        /\ task' = [task EXCEPT !.reason = "manual"]
     \/ /\ task.state \in Pausable
        /\ task' = [task EXCEPT !.state = "paused", !.resume = task.state, !.reason = "manual"]
  /\ Revoke /\ Controls

Resumed == [task EXCEPT !.state = task.resume, !.resume = "", !.reason = ""]

Resume ==
  /\ task.state = "paused" /\ task' = Resumed
  /\ IF task.reason = "traffic" THEN Fault ELSE UNCHANGED faults
  /\ Revoke /\ Controls

TrafficResume ==
  /\ task.state = "paused" /\ task.reason = "traffic" /\ quiet
  /\ ~runner.live /\ lease.epoch = 0 /\ job = None
  /\ task.error \in {"", "wait"}
  /\ task' = Resumed
  /\ Revoke /\ Controls /\ UNCHANGED faults

Retry ==
  /\ task.state = "failed" /\ Fault
  /\ task' = [task EXCEPT !.state = task.resume, !.resume = "", !.error = ""]
  /\ Revoke /\ Controls

-----------------------------------------------------------------------------
(* One tick of the scheduler.                                              *)

Tick(state) == Fenced /\ job = None /\ task.state = state

Call(to, what, u, receipt) ==
  LET r == Request(to, what, u, lease.epoch, receipt) IN
  /\ job' = r /\ net' = net \cup {r} /\ answer' = None
  /\ UNCHANGED <<task, runner, lease, unit, receipts, books>>

NoCall == UNCHANGED <<net, job, answer>>

(* The checkpoint of a phase; a completed tick clears the noted error. *)
Checkpoint(state) ==
  /\ task' = [task EXCEPT !.state = state, !.error = ""]
  /\ UNCHANGED <<unit, receipts, books>> /\ NoCall

(* A tick whose own precondition does not hold fails the task. *)
Stop(error) ==
  /\ Fail(error) /\ Release
  /\ UNCHANGED <<unit, receipts, books>> /\ NoCall

AcknowledgeOne ==
  LET u == First(Unacknowledged)
      side == IF "target" \notin unit[u].acks THEN "target" ELSE "source" IN
  /\ Unacknowledged # {}
  /\ Call(side, "commit", u, unit[u].receipt)
  /\ UNCHANGED <<quiet, peerVars, faults>>

Acknowledge == Tick("committing") /\ AcknowledgeOne

(* Busy traffic pauses the task, but only after the acknowledgements due. *)
TrafficPause ==
  /\ Fenced /\ job = None /\ ~quiet /\ task.state \in Pausable
  /\ task.state = "committing" => Unacknowledged = {}
  /\ task' = [task EXCEPT !.state = "paused", !.resume = task.state, !.reason = "traffic"]
  /\ lease' = NoLease
  /\ runner' = [runner EXCEPT !.live = FALSE]
  /\ UNCHANGED <<unit, receipts, books, quiet, peerVars, callVars, faults>>

CopyTick ==
  LET u == First(Uncommitted) IN
  /\ Tick("copying") /\ quiet
  /\ IF unit[u].copied THEN Checkpoint("verifying") /\ Keep
                       ELSE Call("target", "copy", u, 0)
  /\ UNCHANGED <<quiet, peerVars, faults>>

VerifyTick ==
  /\ Tick("verifying") /\ quiet
  /\ IF unit[First(Uncommitted)].copied
       THEN Checkpoint("committing") /\ Keep
       ELSE Stop("refused")
  /\ UNCHANGED <<quiet, peerVars, faults>>

Fresh(epoch) == epoch = lease.epoch

CommitTick ==
  LET u == First(Uncommitted) IN
  /\ Tick("committing") /\ quiet /\ Unacknowledged = {}
  /\ \/ /\ Uncommitted = {}
        /\ Checkpoint("cleanup_pending") /\ Release
     \/ /\ Uncommitted # {} /\ ~unit[u].copied
        /\ Checkpoint("copying") /\ Keep
     \/ /\ Uncommitted # {} /\ unit[u].copied
        /\ IF ~Fresh(unit[u].target) THEN Call("target", "publish", u, 0)
           ELSE IF ~Fresh(unit[u].source) THEN Call("source", "verify", u, 0)
           ELSE /\ job' = Request("master", "cutover", u, lease.epoch, 0)
                /\ UNCHANGED <<task, runner, lease, unit, receipts, books, net, answer>>
  /\ UNCHANGED <<quiet, peerVars, faults>>

(* The Master repeats its own totals before every step of the clean-up. *)
Settled == Uncommitted = {} /\ Unacknowledged = {} /\ books.reserved = 0

(* The next unit by the end of its grace period, then by its number. *)
NextUncleaned ==
  LET over == {u \in Uncleaned : unit[u].grace = "over"} IN First(IF over # {} THEN over ELSE Uncleaned)

CleanupStep ==
  LET u == NextUncleaned IN
  /\ Uncleaned # {}
  /\ IF ~Settled THEN Stop("refused")
     ELSE IF unit[u].grace # "over"
       THEN Release /\ UNCHANGED <<task, unit, receipts, books>> /\ NoCall
       ELSE IF ~Fresh(unit[u].live) THEN Call("target", "inspect", u, 0)
                                    ELSE Call("source", "cleanup", u, 0)
  /\ UNCHANGED <<quiet, peerVars, faults>>

CleanupTick == Tick("cleanup_pending") /\ quiet /\ CleanupStep

(* The outcome is "completed", or "cancelled" when nothing was left to cancel. *)
FinalizeStep(outcome) ==
  /\ Uncleaned = {}
  /\ IF ~Settled \/ books.source # 0 THEN Stop("refused")
     ELSE IF "source" \notin receipts THEN Call("source", "finalize", 0, 0)
     ELSE IF "target" \notin receipts THEN Call("target", "finalize", 0, 0)
     ELSE Checkpoint(outcome) /\ Release
  /\ UNCHANGED <<quiet, peerVars, faults>>

FinalizeTick == Tick("cleanup_pending") /\ quiet /\ FinalizeStep("completed")

-----------------------------------------------------------------------------
(* Cutover: waits for the media fence, then one transaction.               *)

CuttingOver == job.kind = "request" /\ job.what = "cutover"

(* The books the transaction repeats before it moves a unit. *)
Accounted == books.reserved = N - Cardinality(Moved) /\ books.source >= books.reserved

Cutover ==
  LET u == job.unit IN
  /\ CuttingOver
  /\ IF ~Fenced
       THEN Release /\ UNCHANGED <<task, unit, books>>
       ELSE IF Accounted /\ Fresh(unit[u].target) /\ Fresh(unit[u].source)
       THEN /\ unit' = [unit EXCEPT ![u].state = "committed", ![u].grace = "running"]
            /\ books' = [source |-> books.source - 1, reserved |-> books.reserved - 1,
                         target |-> books.target + 1]
            /\ task' = [task EXCEPT !.error = ""]
            /\ Keep
       ELSE Fail(IF Accounted THEN "proof_stale" ELSE "refused") /\ Release /\ UNCHANGED <<unit, books>>
  /\ job' = None
  /\ UNCHANGED <<receipts, quiet, peerVars, net, answer, faults>>

(* Time passes: a proof of a unit expires, or its grace period ends. *)
ProofExpires(u) ==
  /\ Fault
  /\ \E proof \in IF unit[u].state = "publishing" THEN {"target", "source"} ELSE {"live"} :
       unit[u][proof] # 0 /\ unit' = [unit EXCEPT ![u][proof] = 0]
  /\ UNCHANGED <<task, runner, lease, receipts, books, quiet, peerVars, callVars>>

GraceEnds(u) ==
  /\ unit[u].grace = "running" /\ \A v \in Units : v < u => unit[v].grace # "running"
  /\ unit' = [unit EXCEPT ![u].grace = "over"]
  /\ UNCHANGED <<task, runner, lease, receipts, books, quiet, peerVars, callVars, faults>>

Traffic ==
  /\ quiet' = ~quiet
  /\ IF quiet THEN Fault ELSE UNCHANGED faults
  /\ UNCHANGED <<task, runner, lease, unit, receipts, books, peerVars, callVars>>

-----------------------------------------------------------------------------
(* Answers.                                                                *)

(* What each successful call writes into the Master's rows. *)
Written(u) ==
  CASE job.what = "copy" -> [u EXCEPT !.copied = TRUE]
    [] job.what = "publish" ->
         [u EXCEPT !.state = "publishing", !.target = IF answer.phase = "published" THEN job.epoch ELSE 0]
    [] job.what = "verify" -> [u EXCEPT !.source = job.epoch, !.receipt = answer.receipt]
    [] job.what = "commit" -> [u EXCEPT !.acks = @ \cup {job.to}]
    [] job.what = "inspect" -> [u EXCEPT !.live = job.epoch]
    [] job.what = "cleanup" ->
         [u EXCEPT !.state = IF answer.phase = "cleaned" THEN "cleaned" ELSE "cleanup_pending"]

(* An acknowledgement counts what its member has committed so far. *)
Consistent ==
  job.what = "commit" => answer.receipt \in 1..Cardinality(Moved)

Moves == {"copy", "publish", "verify", "commit", "inspect", "cleanup", "finalize"}

Answered ==
  /\ answer # None /\ job.what \in Moves
  /\ IF ~Fenced
       THEN Release /\ UNCHANGED <<task, unit, receipts>>
       ELSE IF answer.kind = "wait"
       THEN Note /\ Release /\ UNCHANGED <<unit, receipts>>
       ELSE IF answer.kind # "ok" \/ ~Consistent
       THEN Fail(IF answer.kind = "ok" THEN "refused" ELSE answer.kind) /\ Release
            /\ UNCHANGED <<unit, receipts>>
       ELSE /\ task' = [task EXCEPT !.error = ""]
            /\ IF job.what = "finalize"
                 THEN receipts' = receipts \cup {job.to} /\ UNCHANGED unit
                 ELSE unit' = [unit EXCEPT ![job.unit] = Written(@)] /\ UNCHANGED receipts
            /\ Keep
  /\ job' = None /\ answer' = None
  /\ UNCHANGED <<books, quiet, peerVars, net, faults>>

(* A call whose answer can no longer come times out; one that is merely     *)
(* late may time out as well.                                              *)
Hopeless == job \notin net /\ \A s \in Sides : Idle(s) \/ work[s].req # job

CallTimesOut ==
  /\ job # None /\ ~CuttingOver /\ answer = None
  /\ IF Hopeless THEN UNCHANGED faults ELSE Fault
  /\ IF Fenced THEN Note ELSE UNCHANGED task
  /\ Release
  /\ job' = None
  /\ UNCHANGED <<unit, receipts, books, quiet, peerVars, net, answer>>

-----------------------------------------------------------------------------
MasterStep ==
  \/ Claim \/ LoseLease \/ RunnerExpires \/ TrafficPause \/ TrafficResume
  \/ Acknowledge \/ CopyTick \/ VerifyTick \/ CommitTick \/ CleanupTick \/ FinalizeTick
  \/ Cutover \/ Answered \/ CallTimesOut
  \/ \E u \in Units : GraceEnds(u)

Next ==
  \/ MasterStep
  \/ PeerStep /\ UNCHANGED masterVars
  \/ PeerFault /\ UNCHANGED masterVars
  \/ MasterCrash \/ Pause \/ Resume \/ Retry \/ Traffic
  \/ \E u \in Units : ProofExpires(u)

Spec == Init /\ [][Next]_vars

-----------------------------------------------------------------------------
(* Properties.                                                             *)

(* Once the Master moved a unit, each member either acknowledged it or     *)
(* still holds the very proof that acknowledgement will be compared with:  *)
(* no late, repeated or refreshed call may spoil a receipt the commit      *)
(* record names, or the task could never be settled.                       *)
CommitIsAckable ==
  \A u \in Units : unit[u].state \in Committed =>
    /\ tgt[u].unit \in {"published", "committed"} /\ tgt[u].file = "public"
    /\ src[u].unit \in Committed \cup {"verified"} /\ src[u].receipt = unit[u].receipt

(* Whatever is lost, late, repeated or restarted, no member ever answers a *)
(* call the Master waits for with a protocol refusal: a stale epoch, a     *)
(* unit in another state, a missing file or an unfinished census.          *)
NoRefusal == task.error # "refused"

(* Fences go last: a unit the Master calls cleaned is gone at the Source   *)
(* and in place at the Target, the Source is released when no unit is left, *)
(* the Target after it, and the task completes after both.                 *)
FencesGoLast ==
  /\ \A u \in Units : unit[u].state = "cleaned" =>
       src[u].unit = "cleaned" /\ src[u].entry = "deleted" /\ ~src[u].file /\ tgt[u].file = "public"
  /\ peer["source"].state = "released" => Uncleaned = {}
  /\ peer["target"].state = "released" => peer["source"].state = "released"
  /\ task.state = "completed" => \A s \in Sides : peer[s].state = "released"

(* A paused, failed or completed task stands still on the Master: no       *)
(* answer to an earlier call changes ownership, proofs or books.           *)
StoppedMeansStill ==
  [][task.state \notin Active /\ task'.state = task.state
       => /\ UNCHANGED <<receipts, books>>
          /\ \A u \in Units : \A field \in {"state", "copied", "receipt", "acks"} :
               unit'[u][field] = unit[u][field]]_vars
=============================================================================
