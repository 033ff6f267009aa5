---------------------------- MODULE Migration_proof ----------------------------
(* The steps of the Master keep the invariant of MigrationPeers_proof, and it  *)
(* implies what the runs check.  A step of the Master leaves the members alone; *)
(* what it may do to a request under way is a matter of epochs: a row is only   *)
(* rewritten by the answer to the last request of the current runner, when      *)
(* nothing of that epoch is under way any more.                                 *)
EXTENDS MigrationPeers_proof

-----------------------------------------------------------------------------
(* What the steps of the Master have in common.                                *)

\* Nothing of the current runner is under way.
Nobody == \A r \in Pending : r.epoch # runner.epoch

\* The lease: it stays, it is dropped with the call, the call was answered, or
\* a new runner begins.
EpochMove ==
  /\ lease'.epoch = 0 => ~lease'.current
  /\ \/ /\ runner'.epoch = runner.epoch /\ lease'.epoch = lease.epoch
        /\ lease'.current => lease.current
        /\ UNCHANGED <<job, answer>>
     \/ runner'.epoch = runner.epoch /\ lease'.epoch = 0 /\ job' = None /\ answer' = None
     \/ /\ runner'.epoch = runner.epoch /\ UNCHANGED lease /\ lease.epoch # 0
        /\ Nobody /\ job' = None /\ answer' = None
     \/ /\ runner'.epoch = runner.epoch + 1 /\ lease'.epoch = runner'.epoch
        /\ job' = None /\ answer' = None

\* A unit goes forward only, and its proofs are written under Nobody.
UnitMove(u) ==
  /\ unit[u].state \in Committed => unit'[u].state \in Committed
  /\ unit[u].state \in {"cleaned", "cancelled"} => unit'[u].state = unit[u].state
  /\ unit'[u].state \in Committed /\ unit[u].state \notin Committed => cancel.path = "" /\ cancel'.path = ""
  /\ Nobody \/ /\ unit'[u].copied = unit[u].copied
               /\ unit'[u].target \in {unit[u].target, 0} /\ unit'[u].source \in {unit[u].source, 0}
  /\ job' # None =>
       /\ unit'[u].state = unit[u].state /\ unit'[u].copied = unit[u].copied
       /\ unit'[u].target \in {unit[u].target, 0} /\ unit'[u].source \in {unit[u].source, 0}

MasterMove ==
  /\ UNCHANGED peerVars /\ UNCHANGED net
  /\ EpochMove
  /\ cancel.path # "" => cancel'.path = cancel.path
  /\ \A u \in Units : UnitMove(u)
  /\ job' # None /\ lease'.current => task'.state = task.state

\* So requests, members and answers are as they were.
LEMMA MasterCore ==
  ASSUME MigInv, MasterTypes', MasterMove
  PROVE  PeerTypes' /\ Flow' /\ RequestsFit' /\ JobFits' /\ MemberRows' /\ AnswerFits'
<1> USE DEF MigInv, peerVars
<1>1. Pending' = Pending BY DEF MasterMove, Pending
<1>2. PeerTypes' BY DEF PeerTypes, MasterMove
<1>3. /\ runner.epoch \in Nat \ {0} /\ lease.epoch \in Nat
      /\ runner'.epoch \in Nat \ {0} /\ lease'.epoch \in Nat
      /\ lease.epoch \in {0, runner.epoch} /\ (lease.epoch = 0 => ~lease.current)
  BY DEF MasterTypes, Flow, EpochsFit
<1>4. \A s \in Sides : peer[s].epoch \in Nat BY DEF PeerTypes, Peers
<1>5. \A r \in Pending : r \in Requests /\ r.epoch \in Nat /\ r.what \in Kinds
  BY PendingAreRequests DEF Requests
<1>6. \A r \in Pending : r.epoch <= runner.epoch /\ r.epoch # 0 /\ (r.epoch = lease.epoch => r = job)
  BY DEF Flow, EpochsFit
<1>7. job # None => lease.epoch # 0 /\ job.epoch = lease.epoch BY DEF Flow, EpochsFit
<1>8. job' # None => job' = job /\ lease'.epoch = lease.epoch /\ runner'.epoch = runner.epoch
  BY DEF MasterMove, EpochMove
<1>9. answer' # None => answer' = answer /\ job' = job BY DEF MasterMove, EpochMove
<1>10. runner'.epoch \in {runner.epoch, runner.epoch + 1}
  BY DEF MasterMove, EpochMove
<1>11. Flow'
  <2>1. EpochsFit'
    <3>1. \A s \in Sides : peer'[s].epoch <= runner'.epoch
      <4>1. peer' = peer BY DEF MasterMove
      <4>2. \A s \in Sides : peer[s].epoch <= runner.epoch BY DEF Flow, EpochsFit
      <4> QED BY <1>3, <1>4, <1>10, <4>1, <4>2
    <3>2. \A r \in Pending : r.epoch <= runner'.epoch /\ r.epoch # 0
      BY <1>3, <1>5, <1>6, <1>10
    <3>3. lease'.epoch \in {0, runner'.epoch} /\ (lease'.epoch = 0 => ~lease'.current)
      BY <1>3 DEF MasterMove, EpochMove
    <3>4. ASSUME NEW r \in Pending, r.epoch = lease'.epoch PROVE r = job'
      <4>1. r.epoch \in Nat \ {0} /\ r.epoch <= runner.epoch /\ (r.epoch = lease.epoch => r = job)
        BY <1>5, <1>6
      <4>2. lease'.epoch # 0 /\ lease'.epoch # runner.epoch + 1 BY <1>3, <3>4, <4>1
      <4>3. Nobody => lease'.epoch # runner.epoch BY <3>4 DEF Nobody
      <4> QED BY <1>3, <3>4, <4>1, <4>2, <4>3 DEF MasterMove, EpochMove
    <3> QED BY <1>1, <1>7, <1>8, <3>1, <3>2, <3>3, <3>4 DEF EpochsFit
  <2>2. AnswersLast' BY <1>9 DEF MasterMove, Flow, AnswersLast
  <2>3. BoundFits' BY DEF MasterMove, Flow, BoundFits
  <2>4. WorkFits' BY DEF MasterMove, Flow, WorkFits
  <2> QED BY <2>1, <2>2, <2>3, <2>4 DEF Flow
<1>12. Uncommitted' \subseteq Uncommitted /\ Uncleaned' \subseteq Uncleaned
  BY DEF MasterMove, UnitMove, Uncommitted, Uncleaned, Committed
<1>13. ASSUME NEW r \in Requests, RequestFits(r) PROVE RequestFits(r)'
  <2>1. Shaped(r)' BY <1>13 DEF RequestFits, Shaped
  <2>2. r.what \in {"commit", "cleanup"} \cup UnitCancels => r.unit \in Units
    BY <1>13 DEF RequestFits, Shaped, UnitCancels
  <2>3. r.what \in {"commit", "cleanup"} => unit'[r.unit].state \in Committed
    BY <1>13, <2>2 DEF RequestFits, MasterMove, UnitMove
  <2>4. r.what \in UnitCancels => unit'[r.unit].state \notin Committed
    BY <1>13, <2>2 DEF RequestFits, MasterMove, UnitMove, Cancels
  <2>5. /\ r.what = "cleanup" => Uncommitted' = {}
        /\ r.what \in {"finalize"} \cup Closings => Uncleaned' = {}
    BY <1>12, <1>13 DEF RequestFits
  <2>6. /\ r.what \in Cancels => cancel'.path = "publication"
        /\ r.what \in Aborts => cancel'.path = "prepublication"
    BY <1>13 DEF RequestFits, MasterMove
  <2> QED BY <1>13, <2>1, <2>3, <2>4, <2>5, <2>6 DEF RequestFits, MasterMove
<1>14. ASSUME NEW r \in Requests, Shaped(r), LastRunner(r), r.epoch <= runner.epoch,
              job' # None \/ r \in Pending
       PROVE  LastRunner(r)'
  <2> SUFFICES ASSUME r.epoch = runner'.epoch PROVE LastRunner(r)' BY DEF LastRunner
  <2>1. r.epoch = runner.epoch /\ runner'.epoch = runner.epoch /\ r.epoch # 0
    BY <1>3, <1>10, <1>14 DEF Requests
  <2>2. \A u \in Units : /\ unit'[u].copied = unit[u].copied
                         /\ unit'[u].target \in {unit[u].target, 0}
                         /\ unit'[u].source \in {unit[u].source, 0}
    BY <1>14, <2>1 DEF MasterMove, UnitMove, Nobody
  <2>3. r.what \in Forwards => r.unit \in Units BY <1>14 DEF Shaped, Forwards
  <2> QED BY <1>14, <2>1, <2>2, <2>3 DEF LastRunner, Forwards
<1>15. RequestsFit'
  <2> SUFFICES ASSUME NEW r \in Pending PROVE RequestFits(r)' /\ LastRunner(r)' /\ Overtaken(r)'
    BY <1>1 DEF RequestsFit
  <2>1. RequestFits(r) /\ LastRunner(r) /\ Overtaken(r) BY DEF RequestsFit
  <2>2. Overtaken(r)' BY <1>1, <2>1 DEF Overtaken
  <2> QED BY <1>5, <1>6, <1>13, <1>14, <2>1, <2>2 DEF RequestFits
<1>16. JobFits'
  <2> SUFFICES ASSUME job' # None PROVE JobFits' BY DEF JobFits
  <2>1. job' = job /\ job # None /\ job.epoch = runner.epoch BY <1>3, <1>7, <1>8
  <2>2. job \in Requests => RequestFits(job)' /\ LastRunner(job)' /\ Overtaken(job)'
    <3> SUFFICES ASSUME job \in Requests PROVE RequestFits(job)' /\ LastRunner(job)' /\ Overtaken(job)'
      OBVIOUS
    <3>1. RequestFits(job) /\ LastRunner(job) /\ Overtaken(job) BY <2>1 DEF JobFits
    <3>2. LastRunner(job)' BY <1>3, <1>14, <2>1, <3>1 DEF RequestFits
    <3>3. Overtaken(job)' BY <1>1, <2>1, <3>1 DEF Overtaken
    <3> QED BY <1>13, <2>1, <3>1, <3>2, <3>3
  <2>3. \A u \in Units : unit'[u].state = unit[u].state /\ unit'[u].copied = unit[u].copied
    BY DEF MasterMove, UnitMove
  <2>4. Uncommitted' = Uncommitted /\ Uncleaned' = Uncleaned
    BY <2>3 DEF Uncommitted, Uncleaned
  <2>5. lease'.current => lease.current /\ task'.state = task.state
    BY <2>1 DEF MasterMove, EpochMove
  <2>6. Uncommitted \subseteq Units BY DEF Uncommitted
  <2> QED BY <2>1, <2>2, <2>3, <2>4, <2>5, <2>6 DEF JobFits, Forwards
<1>17. MemberRows'
  <2>1. ASSUME NEW u \in Units PROVE SrcFits(u)' /\ TgtFits(u)'
    BY DEF MemberRows, SrcFits, TgtFits, TgtRowFits, MasterMove, UnitMove
  <2>2. AbortFits' BY DEF MasterMove, MemberRows, AbortFits, Unswept
  <2>3. CleanupWork' BY DEF MasterMove, MemberRows, CleanupWork
  <2>4. Staged' = Staged BY DEF MasterMove, Staged
  <2>5. TargetWork' BY <2>4 DEF MasterMove, MemberRows, TargetWork
  <2> QED BY <2>1, <2>2, <2>3, <2>5 DEF MemberRows
<1>18. AnswerFits' BY <1>9 DEF AnswerFits, Told, TargetProof, SourceProof, MasterMove
<1> QED BY <1>2, <1>11, <1>15, <1>16, <1>17, <1>18

-----------------------------------------------------------------------------
(* Steps that change no row but the task's and the lease's.                    *)

\* What the rows ask of the state of the task, for a row t of it.
TaskIs(t) ==
  /\ t.state = "paused" => t.resume \in Pausable
  /\ t.state = "failed" => t.resume \in Active
  /\ t.state \notin {"paused", "failed"} => t.resume = ""
  /\ {t.state, t.resume} \cap {"copying", "verifying"} # {} => Uncommitted # {}
  /\ cancel.path = "" <=> \/ t.state \in Pausable \cup {"completed"}
                          \/ t.state \in {"paused", "failed"} /\ t.resume \in Pausable
  /\ cancel.path = "prepublication" =>
       IF t.state = "cancelled" THEN Units = Withdrawn ELSE \A u \in Units : unit[u].state = "pending"
  /\ t.state = "completed" => \A s \in Sides : peer[s].state = "released"
  /\ t.state = "cancelled" =>
       /\ Uncommitted = {} /\ Uncleaned = {}
       /\ \A s \in Sides : peer[s].state = IF cancel.path = "prepublication" THEN "aborted" ELSE "released"

\* A pause, a failure, a resumption and a checkpoint fit, whatever else does.
LEMMA TaskStates ==
  ASSUME MigInv, NEW t \in TaskRows,
         \/ t.state = task.state /\ t.resume = task.resume
         \/ task.state \in Pausable /\ t.state = "paused" /\ t.resume = task.state
         \/ task.state \in Active /\ t.state = "failed" /\ t.resume = task.state
         \/ task.state \in {"paused", "failed"} /\ t.state = task.resume /\ t.resume = ""
         \/ /\ task.state \in Pausable /\ t.state \in Pausable /\ t.resume = task.resume
            /\ t.state \in {"copying", "verifying"} => Uncommitted # {}
  PROVE  TaskIs(t)
<1>1. /\ task.state \in Active \cup {"paused", "failed", "completed", "cancelled"}
      /\ t.resume \in Active \cup {""}
  BY DEF MigInv, MasterTypes, TaskRows
<1>2. TaskFits /\ MembersFit BY DEF MigInv
<1>3. CASE t.state = task.state /\ t.resume = task.resume BY <1>2, <1>3 DEF TaskFits, MembersFit, TaskIs
<1>4. CASE task.state \in Pausable /\ t.state = "paused" /\ t.resume = task.state
  BY <1>2, <1>4 DEF TaskFits, TaskIs, Pausable, Active
<1>5. CASE task.state \in Active /\ t.state = "failed" /\ t.resume = task.state
  BY <1>2, <1>5 DEF TaskFits, TaskIs, Pausable, Active
<1>6. CASE task.state \in {"paused", "failed"} /\ t.state = task.resume /\ t.resume = ""
  BY <1>2, <1>6 DEF TaskFits, TaskIs, Pausable, Active
<1>7. CASE /\ task.state \in Pausable /\ t.state \in Pausable /\ t.resume = task.resume
           /\ t.state \in {"copying", "verifying"} => Uncommitted # {}
  <2>1. task.state \notin {"paused", "failed", "cancelled", "completed"} /\ t.state \notin {"paused", "failed", "cancelled", "completed"}
    BY <1>7 DEF Pausable
  <2>2. t.resume = "" BY <1>2, <1>7, <2>1 DEF TaskFits
  <2> QED BY <1>2, <1>7, <2>1, <2>2 DEF TaskFits, TaskIs
<1> QED BY <1>3, <1>4, <1>5, <1>6, <1>7

TaskTypes ==
  /\ task' \in TaskRows
  /\ runner' \in [epoch : Nat \ {0}, live : BOOLEAN]
  /\ lease' \in [epoch : Nat, current : BOOLEAN]

\* Before a new runner begins no unit holds a proof of it.
LEMMA NoFutureProof ==
  ASSUME MigInv, runner'.epoch = runner.epoch + 1
  PROVE  \A u \in Units : runner'.epoch \notin {unit[u].target, unit[u].source}
<1> SUFFICES ASSUME NEW u \in Units PROVE runner'.epoch \notin {unit[u].target, unit[u].source}
  OBVIOUS
<1>1. runner.epoch \in Nat /\ unit[u].target \in Nat /\ unit[u].source \in Nat
  BY DEF MigInv, MasterTypes, UnitRows
<1>2. unit[u].target <= runner.epoch /\ unit[u].source <= runner.epoch BY DEF MigInv, UnitsFit, Proved
<1> QED BY <1>1, <1>2

\* The operator and the runner change the task row alone.
LEMMA TaskMoves ==
  ASSUME MigInv, UNCHANGED peerVars, UNCHANGED <<net, unit, receipts, books, cancel, undo>>,
         EpochMove, TaskTypes, TaskIs(task'),
         job' # None /\ lease'.current => task'.state = task.state
  PROVE  MigInv'
<1> USE DEF MigInv, peerVars
<1>1. /\ Uncommitted' = Uncommitted /\ Uncleaned' = Uncleaned
      /\ Moved' = Moved /\ Withdrawn' = Withdrawn
  BY DEF Uncommitted, Uncleaned, Moved, Withdrawn
<1>2. MasterTypes'
  <2>1. job' \in {job, None} /\ answer' \in {answer, None} BY DEF EpochMove
  <2> QED BY <2>1 DEF MasterTypes, TaskTypes
<1>3. MasterMove BY DEF MasterMove, UnitMove
<1>4. PeerTypes' /\ Flow' /\ RequestsFit' /\ JobFits' /\ MemberRows' /\ AnswerFits'
  BY <1>2, <1>3, MasterCore
<1>5. LateFits'
  <2>1. Pending' = Pending BY DEF Pending
  <2> QED BY <2>1 DEF LateFits, Late
<1>6. runner'.epoch = runner.epoch \/ runner'.epoch = runner.epoch + 1 BY DEF EpochMove
<1>7. UnitsFit'
  <2> SUFFICES ASSUME NEW u \in Units PROVE Taken(u)' /\ Given(u)' /\ Proved(u)' BY DEF UnitsFit
  <2>1. Taken(u) /\ Given(u) /\ Proved(u) BY DEF UnitsFit
  <2>2. Taken(u)' /\ Given(u)' BY <2>1 DEF Taken, Given
  <2>3. CASE runner'.epoch = runner.epoch
    BY <1>1, <2>1, <2>2, <2>3 DEF Proved, TargetProof, SourceProof
  <2>4. CASE runner'.epoch = runner.epoch + 1
    <3>1. unit[u].target # runner'.epoch /\ unit[u].source # runner'.epoch BY <2>4, NoFutureProof
    <3>2. unit[u].target \in Nat /\ unit[u].source \in Nat /\ runner.epoch \in Nat
      BY DEF MasterTypes, UnitRows
    <3>3. unit[u].target <= runner'.epoch /\ unit[u].source <= runner'.epoch
      BY <2>1, <2>4, <3>2 DEF Proved
    <3> QED BY <2>1, <2>2, <3>1, <3>3 DEF Proved
  <2> QED BY <1>6, <2>3, <2>4
<1>8. TaskFits'
  <2>1. cancel.path # "" /\ lease'.current =>
          \A u \in Units : runner'.epoch \notin {unit[u].target, unit[u].source}
    BY <1>6, NoFutureProof DEF EpochMove, TaskFits, Flow, EpochsFit, MasterTypes
  <2> QED BY <1>1, <2>1 DEF TaskFits, TaskIs
<1>9. MembersFit' BY <1>1 DEF MembersFit, TaskIs
<1>10. BooksAgree' BY <1>1 DEF BooksAgree, TargetReleased
<1> QED BY <1>2, <1>4, <1>5, <1>7, <1>8, <1>9, <1>10

-----------------------------------------------------------------------------
(* Calls.                                                                      *)

\* What the state of the task and the rows say of a new call.
CallFits(r) ==
  /\ RequestFits(r) /\ LastRunner(r)
  /\ r.what \in Forwards => r.unit \in Uncommitted /\ cancel.path = ""
  /\ r.what \in {"publish", "verify"} => unit[r.unit].copied
  /\ r.what = "verify" => unit[r.unit].state # "pending"
  /\ r.what = "cleanup" => r.unit \in Uncleaned
  /\ r.what = "copy" => task.state = "copying"
  /\ r.what \in {"publish", "verify"} => task.state = "committing"
  /\ r.what \in Cancels \cup Aborts => task.state = "cancelling"

\* Nothing of a fenced runner that waits for nobody is under way.
LEMMA FencedIsAlone ==
  ASSUME MigInv, Fenced, job = None
  PROVE  Nobody /\ answer = None /\ lease.epoch = runner.epoch /\ runner.epoch \in Nat \ {0}
<1>1. \A r \in Pending : r \in Requests BY PendingAreRequests DEF MigInv
<1>2. \A r \in Pending : r # None BY <1>1 DEF Requests, None
<1> QED BY <1>2 DEF MigInv, Fenced, Flow, EpochsFit, AnswersLast, Nobody, MasterTypes

\* The runner sends one request that fits the ledger it has just read.
LEMMA CallKeeps ==
  ASSUME MigInv, Fenced, job = None, NEW r \in Requests, r.epoch = lease.epoch, CallFits(r),
         job' = r, net' = net \cup {r}, answer' = None,
         UNCHANGED peerVars, UNCHANGED <<task, runner, lease, unit, receipts, books, cancel, undo>>
  PROVE  MigInv'
<1> USE DEF MigInv, peerVars
<1>1. /\ Uncommitted' = Uncommitted /\ Uncleaned' = Uncleaned /\ Moved' = Moved
      /\ Withdrawn' = Withdrawn /\ Unswept' = Unswept /\ Staged' = Staged
  BY DEF Uncommitted, Uncleaned, Moved, Withdrawn, Unswept, Staged
<1>2. Pending' = Pending \cup {r} BY DEF Pending
<1>3. Nobody /\ answer = None /\ lease.epoch = runner.epoch /\ runner.epoch \in Nat \ {0}
  BY FencedIsAlone
<1>4. \A q \in Pending : q \in Requests /\ q.epoch \in Nat /\ q.epoch < r.epoch /\ q # r
  <2> SUFFICES ASSUME NEW q \in Pending PROVE q \in Requests /\ q.epoch \in Nat /\ q.epoch < r.epoch /\ q # r
    OBVIOUS
  <2>1. q \in Requests /\ q.epoch \in Nat BY PendingAreRequests DEF Requests
  <2>2. q.epoch <= runner.epoch /\ q.epoch # runner.epoch BY <1>3 DEF Flow, EpochsFit, Nobody
  <2> QED BY <1>3, <2>1, <2>2
<1>5. r # None /\ r.to \in Sides /\ r.what \in Kinds BY DEF Requests, None
<1>6. PeerTypes' BY DEF PeerTypes
<1>7. MasterTypes' BY DEF MasterTypes
<1>8. Flow'
  <2>1. EpochsFit' BY <1>2, <1>3, <1>4, <1>5 DEF Flow, EpochsFit, Fenced
  <2>2. ASSUME NEW s \in Sides, work[s] # None PROVE work[s].req \notin net'
    BY <1>4, <2>2, WorkIsRequest DEF Flow, AnswersLast
  <2>3. AnswersLast' BY <2>2 DEF Flow, AnswersLast
  <2>4. BoundFits' BY DEF Flow, BoundFits
  <2>5. WorkFits' BY DEF Flow, WorkFits
  <2> QED BY <2>1, <2>3, <2>4, <2>5 DEF Flow
<1>9. ASSUME NEW q \in Requests, RequestFits(q) /\ LastRunner(q) PROVE RequestFits(q)' /\ LastRunner(q)'
  <2>1. Shaped(q)' BY <1>9 DEF RequestFits, Shaped
  <2>2. RequestFits(q)' BY <1>1, <1>9, <2>1 DEF RequestFits
  <2> QED BY <1>9, <2>2 DEF LastRunner
<1>10. ASSUME NEW q \in Pending' PROVE Overtaken(q)'
  <2>1. CASE q = r
    <3>1. r.what \in Cancels => r.what \notin Forwards BY DEF Cancels, UnitCancels, Closings, Forwards
    <3> QED BY <1>2, <1>4, <2>1, <3>1 DEF Overtaken
  <2>2. CASE q \in Pending
    <3>1. RequestFits(q) /\ Overtaken(q) BY <2>2 DEF RequestsFit
    <3>2. q.what \in Cancels => r.what \notin Forwards BY <3>1 DEF RequestFits, CallFits
    <3> QED BY <1>2, <3>1, <3>2 DEF Overtaken
  <2> QED BY <1>2, <1>10, <2>1, <2>2
<1>11. RequestsFit' BY <1>2, <1>4, <1>9, <1>10 DEF RequestsFit, CallFits
<1>12. JobFits'
  <2>1. RequestFits(r)' /\ LastRunner(r)' /\ Overtaken(r)' BY <1>2, <1>9, <1>10 DEF CallFits
  <2>2. r.what # "cutover" BY <1>5 DEF Kinds, Forwards, Cancels, UnitCancels, Closings, Aborts
  <2> QED BY <1>1, <2>1, <2>2 DEF JobFits, CallFits, Forwards
<1>13. LateFits'
  <2> SUFFICES ASSUME NEW q \in Pending', q.what \in Forwards
               PROVE  /\ unit[q.unit].state \in Committed => Late(q)
                      /\ q.to = "target" /\ tgt[q.unit].entry \in Undone =>
                           \/ peer["target"].state \in {"aborting", "aborted"}
                           \/ q.epoch < peer["target"].epoch
    BY DEF LateFits, Late
  <2>1. CASE q \in Pending BY <2>1 DEF LateFits
  <2>2. CASE q = r
    <3>1. r.unit \in Units /\ r.unit \in Uncommitted /\ cancel.path = ""
      BY <2>2 DEF CallFits, Uncommitted
    <3>2. TgtFits(r.unit) BY <3>1 DEF MemberRows
    <3> QED BY <2>2, <3>1, <3>2 DEF Uncommitted, TgtFits, TgtRowFits
  <2> QED BY <1>2, <2>1, <2>2
<1>14. MemberRows'
  <2>1. ASSUME NEW u \in Units PROVE SrcFits(u)' /\ TgtFits(u)'
    BY DEF MemberRows, SrcFits, TgtFits, TgtRowFits
  <2> QED BY <1>1, <2>1 DEF MemberRows, AbortFits, CleanupWork, TargetWork
<1>15. UnitsFit'
  <2> SUFFICES ASSUME NEW u \in Units PROVE Taken(u)' /\ Given(u)' /\ Proved(u)' BY DEF UnitsFit
  <2> QED BY <1>1 DEF UnitsFit, Taken, Given, Proved, TargetProof, SourceProof
<1>16. AnswerFits' BY DEF AnswerFits
<1>17. TaskFits' BY <1>1 DEF TaskFits
<1>18. MembersFit' BY <1>1 DEF MembersFit
<1>19. BooksAgree' BY <1>1 DEF BooksAgree, TargetReleased
<1> QED BY <1>6, <1>7, <1>8, <1>11, <1>12, <1>13, <1>14, <1>15, <1>16, <1>17, <1>18, <1>19

\* The forms a call, a stop and the end of a tick take.
LEMMA Calls ==
  ASSUME MigInv, Fenced, job = None,
         NEW to \in Sides, NEW what \in Kinds, NEW u \in 0..N, NEW receipt \in Nat,
         Call(to, what, u, receipt), CallFits(Request(to, what, u, lease.epoch, receipt)),
         UNCHANGED peerVars, UNCHANGED <<cancel, undo>>
  PROVE  MigInv'
<1> DEFINE r == Request(to, what, u, lease.epoch, receipt)
<1>1. r \in Requests /\ r.epoch = lease.epoch
  BY DEF Request, Requests, MigInv, MasterTypes
<1>2. /\ job' = r /\ net' = net \cup {r} /\ answer' = None
      /\ UNCHANGED <<task, runner, lease, unit, receipts, books>>
  BY DEF Call
<1>3. CallFits(r) OBVIOUS
<1> HIDE DEF r
<1> QED BY <1>1, <1>2, <1>3, CallKeeps

\* A tick that only writes the task row, or lets its lease go.
LEMMA Ends ==
  ASSUME MigInv, Fenced, job = None, NEW t \in TaskRows, task' = t, TaskIs(t), Keep \/ Release \/ UNCHANGED <<runner, lease>>,
         NoCall, UNCHANGED peerVars, UNCHANGED <<unit, receipts, books, cancel, undo>>
  PROVE  MigInv'
<1>1. answer = None /\ lease.epoch = runner.epoch BY FencedIsAlone
<1>2. MasterTypes /\ EpochsFit BY DEF MigInv, Flow
<1>3. EpochMove
  BY <1>1, <1>2 DEF EpochMove, Keep, Release, NoLease, NoCall, EpochsFit, MasterTypes
<1>4. TaskTypes
  <2>1. runner \in [epoch : Nat \ {0}, live : BOOLEAN] /\ lease \in [epoch : Nat, current : BOOLEAN]
    BY <1>2 DEF MasterTypes
  <2>2. runner' = runner \/ runner' = [runner EXCEPT !.live = FALSE] BY DEF Keep, Release
  <2>3. lease' = lease \/ lease' = [epoch |-> 0, current |-> FALSE] BY DEF Keep, Release, NoLease
  <2>4. runner' \in [epoch : Nat \ {0}, live : BOOLEAN] BY <2>1, <2>2
  <2>5. lease' \in [epoch : Nat, current : BOOLEAN]
    <3>1. [epoch |-> 0, current |-> FALSE] \in [epoch : Nat, current : BOOLEAN] OBVIOUS
    <3> QED BY <2>1, <2>3, <3>1
  <2> QED BY <2>4, <2>5 DEF TaskTypes
<1> QED BY <1>3, <1>4, TaskMoves DEF NoCall

\* The runner gives the task up to the operator with an error.
LEMMA Stops ==
  ASSUME MigInv, Fenced, job = None, NEW error \in Errors, Stop(error),
         UNCHANGED peerVars, UNCHANGED <<cancel, undo>>
  PROVE  MigInv'
<1> DEFINE t == [task EXCEPT !.state = "failed", !.resume = task.state, !.error = error]
<1>1. t \in TaskRows /\ t.state = "failed" /\ t.resume = task.state
  BY DEF MigInv, MasterTypes, TaskRows, Fenced, Active
<1>2. task' = t BY DEF Stop, Fail
<1> HIDE DEF t
<1>3. TaskIs(t) BY <1>1, TaskStates DEF Fenced
<1> QED BY <1>1, <1>2, <1>3, Ends DEF Stop

\* A checkpoint that names a state, or only clears the error.
LEMMA Checkpoints ==
  ASSUME MigInv, Fenced, job = None, NEW state \in Pausable, task.state \in Pausable,
         state \in {"copying", "verifying"} => Uncommitted # {},
         Checkpoint(state), Keep \/ Release, UNCHANGED peerVars, UNCHANGED <<cancel, undo>>
  PROVE  MigInv'
<1> DEFINE t == [task EXCEPT !.state = state, !.error = ""]
<1>1. t \in TaskRows /\ t.state = state /\ t.resume = task.resume
  BY DEF MigInv, MasterTypes, TaskRows, Errors, Active
<1>2. task' = t BY DEF Checkpoint
<1> HIDE DEF t
<1>3. TaskIs(t) BY <1>1, TaskStates
<1> QED BY <1>1, <1>2, <1>3, Ends DEF Checkpoint

\* The runner puts the task off and lets its lease go.
LEMMA Delays ==
  ASSUME MigInv, Fenced, job = None, Delay, UNCHANGED peerVars, UNCHANGED <<cancel, undo>>
  PROVE  MigInv'
<1> DEFINE t == [task EXCEPT !.error = "wait"]
<1>1. t \in TaskRows /\ t.state = task.state /\ t.resume = task.resume
  BY DEF MigInv, MasterTypes, TaskRows, Errors, Outcomes
<1>2. task' = t BY DEF Delay, Note
<1> HIDE DEF t
<1>3. TaskIs(t) BY <1>1, TaskStates
<1> QED BY <1>1, <1>2, <1>3, Ends DEF Delay

-----------------------------------------------------------------------------
(* The steps the ticks of a migration and of a cancellation share.             *)

LEMMA Acknowledges ==
  ASSUME MigInv, Fenced, job = None, AcknowledgeOne, UNCHANGED <<cancel, undo>>
  PROVE  MigInv'
<1>1. PICK u : u = First(Unacknowledged) OBVIOUS
<1>2. u \in Units /\ unit[u].state \in Committed
  BY <1>1, FirstIsIn DEF AcknowledgeOne, Unacknowledged
<1>3. u \in 0..N /\ unit[u].receipt \in Nat
  BY <1>2 DEF Units, MigInv, MasterTypes, UnitRows
<1>4. PICK side \in Sides : Call(side, "commit", u, unit[u].receipt)
  BY <1>1 DEF AcknowledgeOne, Sides
<1>5. PICK receipt \in Nat : receipt = unit[u].receipt BY <1>3
<1>6. CallFits(Request(side, "commit", u, lease.epoch, receipt)) /\ "commit" \in Kinds
  BY <1>2
  DEF CallFits, RequestFits, LastRunner, Shaped, Request, Forwards, UnitCancels, Cancels, Closings,
      Aborts, Kinds
<1> QED BY <1>3, <1>4, <1>5, <1>6, Calls DEF AcknowledgeOne

\* The runner asks for the cleanup of the next unit, last sent first.
LEMMA CleansUp ==
  ASSUME MigInv, Fenced, job = None, CleanupStep, UNCHANGED <<cancel, undo>>
  PROVE  MigInv'
<1>1. PICK u : u = NextUncleaned OBVIOUS
<1>2. u \in Uncleaned /\ u \in Units /\ u \in 0..N
  <2> DEFINE over == {v \in Uncleaned : unit[v].grace = "over"}
  <2>1. Uncleaned \subseteq Units /\ over \subseteq Units BY DEF Uncleaned
  <2>2. Uncleaned # {} BY DEF CleanupStep
  <2>3. over # {} => u = First(over) BY <1>1 DEF NextUncleaned
  <2>4. over = {} => u = First(Uncleaned) BY <1>1 DEF NextUncleaned
  <2>5. over # {} => First(over) \in over BY <2>1, FirstIsIn
  <2>6. First(Uncleaned) \in Uncleaned BY <2>1, <2>2, FirstIsIn
  <2>7. over \subseteq Uncleaned OBVIOUS
  <2> HIDE DEF over
  <2>8. u \in Uncleaned BY <2>3, <2>4, <2>5, <2>6, <2>7
  <2> QED BY <2>1, <2>8 DEF Units
<1>3. UNCHANGED peerVars BY DEF CleanupStep
<1>4. CASE Stop("refused") BY <1>3, <1>4, Stops DEF Errors, Outcomes
<1>5. CASE Release /\ UNCHANGED <<task, unit, receipts, books>> /\ NoCall
  <2>1. task \in TaskRows /\ TaskIs(task) BY TaskStates DEF MigInv, MasterTypes
  <2> QED BY <1>3, <1>5, <2>1, Ends
<1>6. CASE Call("target", "inspect", u, 0)
  <2>1. CallFits(Request("target", "inspect", u, lease.epoch, 0)) /\ "inspect" \in Kinds
    BY <1>2
    DEF CallFits, RequestFits, LastRunner, Shaped, Request, Forwards, UnitCancels, Cancels, Closings,
        Aborts, Kinds
  <2> QED BY <1>2, <1>3, <1>6, <2>1, Calls DEF Sides
<1>7. CASE Settled /\ Call("source", "cleanup", u, 0)
  <2>1. unit[u].state \in Committed /\ Uncommitted = {}
    BY <1>2, <1>7 DEF Settled, Uncommitted, Uncleaned, Committed
  <2>2. CallFits(Request("source", "cleanup", u, lease.epoch, 0)) /\ "cleanup" \in Kinds
    BY <1>2, <2>1
    DEF CallFits, RequestFits, LastRunner, Shaped, Request, Forwards, UnitCancels, Cancels, Closings,
        Aborts, Kinds
  <2> QED BY <1>2, <1>3, <1>7, <2>2, Calls DEF Sides
<1> QED BY <1>1, <1>4, <1>5, <1>6, <1>7 DEF CleanupStep

\* The runner closes the task, once no unit has work left.
LEMMA Finalizes ==
  ASSUME MigInv, Fenced, job = None, NEW outcome, FinalizeStep(outcome), UNCHANGED <<cancel, undo>>,
         \/ outcome = "completed" /\ task.state \in Pausable
         \/ outcome = "cancelled" /\ task.state = "cancelling" /\ cancel.path = "publication"
  PROVE  MigInv'
<1>1. Uncleaned = {} /\ UNCHANGED peerVars BY DEF FinalizeStep
<1>2. CASE Stop("refused") BY <1>1, <1>2, Stops DEF Errors, Outcomes
<1>3. CASE Call("source", "finalize", 0, 0)
  <2>1. CallFits(Request("source", "finalize", 0, lease.epoch, 0)) /\ "finalize" \in Kinds
    BY <1>1
    DEF CallFits, RequestFits, LastRunner, Shaped, Request, Forwards, UnitCancels, Cancels, Closings,
        Aborts, Kinds
  <2>2. 0 \in 0..N BY CountsAssumption
  <2> QED BY <1>1, <1>3, <2>1, <2>2, Calls DEF Sides
<1>4. CASE "source" \in receipts /\ Call("target", "finalize", 0, 0)
  <2>1. peer["source"].state = "released" BY <1>4 DEF MigInv, TaskFits
  <2>2. CallFits(Request("target", "finalize", 0, lease.epoch, 0)) /\ "finalize" \in Kinds
    BY <1>1, <2>1
    DEF CallFits, RequestFits, LastRunner, Shaped, Request, Forwards, UnitCancels, Cancels, Closings,
        Aborts, Kinds
  <2>3. 0 \in 0..N BY CountsAssumption
  <2> QED BY <1>1, <1>4, <2>2, <2>3, Calls DEF Sides
<1>5. CASE Settled /\ Sides \subseteq receipts /\ Checkpoint(outcome) /\ Release
  <2> DEFINE t == [task EXCEPT !.state = outcome, !.error = ""]
  <2>1. t \in TaskRows /\ t.state = outcome /\ t.resume = task.resume
    BY DEF MigInv, MasterTypes, TaskRows, Errors
  <2>2. task' = t BY <1>5 DEF Checkpoint
  <2> HIDE DEF t
  <2>3. \A s \in Sides : peer[s].state = "released" BY <1>5 DEF MigInv, TaskFits
  <2>4. Uncommitted = {} BY <1>5 DEF Settled
  <2>5. t.resume = "" BY <2>1 DEF MigInv, TaskFits, Pausable
  <2>6. TaskIs(t)
    BY <1>1, <2>1, <2>3, <2>4, <2>5 DEF TaskIs, MigInv, TaskFits, Pausable, Active
  <2> QED BY <1>1, <1>5, <2>1, <2>2, <2>6, Ends DEF Checkpoint
<1> QED BY <1>2, <1>3, <1>4, <1>5 DEF FinalizeStep, Sides

-----------------------------------------------------------------------------
(* Leases, controls and timeouts.                                              *)

LEMMA Controlled ==
  ASSUME MigInv, NEW t \in TaskRows, task' = t, TaskIs(t),
         runner' \in {runner, [runner EXCEPT !.live = FALSE]},
         \/ UNCHANGED <<lease, job, answer>> /\ (job = None \/ t.state = task.state)
         \/ UNCHANGED <<job, answer>> /\ lease' = [lease EXCEPT !.current = FALSE]
         \/ lease' = NoLease /\ job' = None /\ answer' = None,
         UNCHANGED peerVars, UNCHANGED <<net, unit, receipts, books, cancel, undo>>
  PROVE  MigInv'
<1>1. /\ runner \in [epoch : Nat \ {0}, live : BOOLEAN] /\ lease \in [epoch : Nat, current : BOOLEAN]
      /\ lease.epoch = 0 => ~lease.current
  BY DEF MigInv, MasterTypes, Flow, EpochsFit
<1>2. runner' \in [epoch : Nat \ {0}, live : BOOLEAN] /\ runner'.epoch = runner.epoch BY <1>1
<1>3. /\ NoLease \in [epoch : Nat, current : BOOLEAN] /\ NoLease.epoch = 0 /\ ~NoLease.current
      /\ [lease EXCEPT !.current = FALSE] \in [epoch : Nat, current : BOOLEAN]
      /\ [lease EXCEPT !.current = FALSE].epoch = lease.epoch
      /\ ~[lease EXCEPT !.current = FALSE].current
  BY <1>1 DEF NoLease
<1>4. lease' \in [epoch : Nat, current : BOOLEAN] BY <1>1, <1>3
<1>5. EpochMove BY <1>1, <1>2, <1>3 DEF EpochMove
<1>6. job' # None /\ lease'.current => task'.state = task.state BY <1>3
<1> QED BY <1>2, <1>4, <1>5, <1>6, TaskMoves DEF TaskTypes

\* An idle scheduler awaits no answer either.
LEMMA IdleUnanswered ==
  ASSUME MigInv, job = None
  PROVE  answer = None
BY DEF MigInv, Flow, AnswersLast

\* A runner claims the task: its epoch is above all that were sent before.
LEMMA Claims ==
  ASSUME MigInv, ClaimTask, UNCHANGED <<cancel, undo>>
  PROVE  MigInv'
<1>1. /\ runner' = [epoch |-> runner.epoch + 1, live |-> TRUE]
      /\ lease' = [epoch |-> runner.epoch + 1, current |-> TRUE]
      /\ job' = None /\ answer' = None /\ UNCHANGED peerVars
      /\ UNCHANGED <<task, net, unit, receipts, books>>
  BY IdleUnanswered DEF ClaimTask, callVars
<1>2. runner.epoch \in Nat \ {0} /\ task \in TaskRows BY DEF MigInv, MasterTypes
<1>3. PICK e \in Nat \ {0} : e = runner.epoch + 1 BY <1>2
<1>4. runner' = [epoch |-> e, live |-> TRUE] /\ lease' = [epoch |-> e, current |-> TRUE]
  BY <1>1, <1>3
<1>5. EpochMove BY <1>1, <1>3, <1>4 DEF EpochMove
<1>6. TaskTypes BY <1>1, <1>2, <1>4 DEF TaskTypes
<1>7. TaskIs(task') BY <1>1, <1>2, TaskStates
<1> QED BY <1>1, <1>5, <1>6, <1>7, TaskMoves

\* A lease that is lost, a runner that expires, a crash, traffic and a call without an answer.
LEMMA LeaseSteps ==
  ASSUME MigInv, UNCHANGED <<cancel, undo>>,
         LoseLease \/ RunnerExpires \/ MasterCrash \/ Traffic \/ CallTimesOut
  PROVE  MigInv'
<1>1. task \in TaskRows /\ TaskIs(task) BY TaskStates DEF MigInv, MasterTypes
<1>2. CASE LoseLease
  <2>1. answer = None BY <1>2, IdleUnanswered DEF LoseLease
  <2> QED BY <1>1, <1>2, <2>1, Controlled DEF LoseLease, Release, callVars
<1>3. CASE RunnerExpires BY <1>1, <1>3, Controlled DEF RunnerExpires, callVars
<1>4. CASE MasterCrash BY <1>1, <1>4, Controlled DEF MasterCrash
<1>5. CASE Traffic BY <1>1, <1>5, Controlled DEF Traffic, callVars
<1>6. CASE CallTimesOut
  <2>1. PICK t \in TaskRows : task' = t /\ t.state = task.state /\ t.resume = task.resume
    BY <1>1, <1>6 DEF CallTimesOut, Note, TaskRows, Errors, Outcomes
  <2>2. TaskIs(t) BY <2>1, TaskStates
  <2> QED BY <1>6, <2>1, <2>2, Controlled DEF CallTimesOut, Release
<1> QED BY <1>2, <1>3, <1>4, <1>5, <1>6

\* Pause, resume, retry and the pauses that traffic causes.
LEMMA ControlSteps ==
  ASSUME MigInv, UNCHANGED <<cancel, undo>>,
         Pause \/ Resume \/ TrafficResume \/ Retry \/ TrafficPause
  PROVE  MigInv'
<1>1. task \in TaskRows BY DEF MigInv, MasterTypes
<1>2. CASE Pause
  <2>1. PICK t \in TaskRows :
          /\ task' = t
          /\ \/ t.state = task.state /\ t.resume = task.resume
             \/ task.state \in Pausable /\ t.state = "paused" /\ t.resume = task.state
    BY <1>1, <1>2 DEF Pause, TaskRows, Pausable, Active
  <2>2. TaskIs(t) BY <2>1, TaskStates
  <2> QED BY <1>2, <2>1, <2>2, Controlled DEF Pause, Revoke, Controls, callVars
<1>r. ASSUME task.state \in {"paused", "failed"}, NEW t \in TaskRows, task' = t,
             t.state = task.resume, t.resume = "",
             Revoke, Controls
      PROVE  MigInv'
  <2>1. TaskIs(t) BY <1>r, TaskStates
  <2> QED BY <1>r, <2>1, Controlled DEF Revoke, Controls, callVars
<1>p. task.state = "paused" => task.resume \in Pausable BY DEF MigInv, TaskFits
<1>f. task.state = "failed" => task.resume \in Active BY DEF MigInv, TaskFits
<1>3. CASE Resume
  <2>1. Resumed \in TaskRows /\ Resumed.state = task.resume /\ Resumed.resume = ""
    BY <1>1, <1>3, <1>p DEF Resume, Resumed, TaskRows, Pausable, Active
  <2> QED BY <1>3, <1>r, <2>1 DEF Resume
<1>4. CASE TrafficResume
  <2>1. Resumed \in TaskRows /\ Resumed.state = task.resume /\ Resumed.resume = ""
    BY <1>1, <1>4, <1>p DEF TrafficResume, Resumed, TaskRows, Pausable, Active
  <2> QED BY <1>4, <1>r, <2>1 DEF TrafficResume
<1>5. CASE Retry
  <2> DEFINE t == [task EXCEPT !.state = task.resume, !.resume = "", !.error = ""]
  <2>1. task.resume \in Active /\ task.state = "failed" BY <1>5, <1>f DEF Retry
  <2>2. t \in TaskRows /\ t.state = task.resume /\ t.resume = ""
    BY <1>1, <2>1 DEF TaskRows, Errors
  <2>3. task' = t BY <1>5 DEF Retry
  <2> HIDE DEF t
  <2> QED BY <1>5, <1>r, <2>1, <2>2, <2>3 DEF Retry
<1>6. CASE TrafficPause
  <2> DEFINE t == [task EXCEPT !.state = "paused", !.resume = task.state, !.reason = "traffic"]
  <2>0. task' = t /\ task.state \in Pausable BY <1>6 DEF TrafficPause
  <2>1. t \in TaskRows /\ t.state = "paused" /\ t.resume = task.state
    BY <1>1, <2>0 DEF TaskRows, Active
  <2> HIDE DEF t
  <2>2. TaskIs(t) BY <2>0, <2>1, TaskStates
  <2>3. answer = None BY <1>6, IdleUnanswered DEF TrafficPause
  <2> QED BY <1>6, <2>0, <2>1, <2>2, <2>3, Controlled DEF TrafficPause, callVars
<1> QED BY <1>2, <1>3, <1>4, <1>5, <1>6

-----------------------------------------------------------------------------
(* Ticks.                                                                      *)

\* While a migration is neither cancelled nor to be, no path is chosen.
LEMMA NoPathYet ==
  ASSUME MigInv
  PROVE  /\ task.state \in Pausable => cancel.path = ""
         /\ task.state = "cancelling" => cancel.path # ""
BY DEF MigInv, TaskFits, Pausable

\* The units a tick may choose.
LEMMA OpenUnit ==
  ASSUME MigInv, Uncommitted # {}, NEW u, u = First(Uncommitted)
  PROVE  u \in Uncommitted /\ u \in Units /\ u \in 0..N /\ unit[u] \in UnitRows
         /\ unit[u].state \in {"pending", "publishing"}
<1>1. u \in Uncommitted /\ u \in Units BY FirstIsIn DEF Uncommitted
<1>2. unit[u] \in UnitRows BY <1>1 DEF MigInv, MasterTypes
<1> QED BY <1>1, <1>2 DEF Units, Uncommitted, UnitRows

\* The runner in the copying and verifying states.
LEMMA CopyTicks ==
  ASSUME MigInv, CopyTick \/ VerifyTick, UNCHANGED <<cancel, undo>>
  PROVE  MigInv'
<1>1. /\ Fenced /\ job = None /\ UNCHANGED peerVars /\ task.state \in Pausable
      /\ task.state \in {"copying", "verifying"}
  BY DEF CopyTick, VerifyTick, Tick, Pausable
<1>2. Uncommitted # {} /\ cancel.path = "" BY <1>1, NoPathYet DEF MigInv, TaskFits
<1>3. PICK u : u = First(Uncommitted) OBVIOUS
<1>4. u \in Uncommitted /\ u \in Units /\ u \in 0..N BY <1>2, <1>3, OpenUnit
<1>5. CASE CopyTick /\ unit[u].copied
  BY <1>1, <1>2, <1>3, <1>5, Checkpoints DEF CopyTick, Pausable
<1>6. CASE CopyTick /\ ~unit[u].copied
  <2>1. Call("target", "copy", u, 0) /\ task.state = "copying" BY <1>3, <1>6 DEF CopyTick, Tick
  <2>2. CallFits(Request("target", "copy", u, lease.epoch, 0)) /\ "copy" \in Kinds
    BY <1>2, <1>4, <1>6, <2>1
    DEF CallFits, RequestFits, LastRunner, Shaped, Request, Forwards, UnitCancels, Cancels, Closings,
        Aborts, Kinds
  <2> QED BY <1>1, <1>4, <2>1, <2>2, Calls DEF Sides
<1>7. CASE VerifyTick /\ unit[u].copied
  BY <1>1, <1>3, <1>7, Checkpoints DEF VerifyTick, Pausable
<1>8. CASE VerifyTick /\ ~unit[u].copied
  BY <1>1, <1>3, <1>8, Stops DEF VerifyTick, Errors, Outcomes
<1> QED BY <1>5, <1>6, <1>7, <1>8

\* The Master's own job: the cutover it queues behind the media fence.
LEMMA CutoverQueued ==
  ASSUME MigInv, Fenced, job = None, NEW u \in Uncommitted, task.state = "committing",
         job' = Request("master", "cutover", u, lease.epoch, 0),
         UNCHANGED peerVars, UNCHANGED <<task, runner, lease, unit, receipts, books, net, answer, cancel, undo>>
  PROVE  MigInv'
<1> USE DEF MigInv, peerVars
<1>1. Nobody /\ answer = None /\ lease.epoch = runner.epoch /\ runner.epoch \in Nat \ {0}
  BY FencedIsAlone
<1>2. u \in Units BY DEF Uncommitted
<1>3. /\ job' \in Cutovers /\ job'.what = "cutover" /\ job'.to = "master" /\ job'.unit = u
      /\ job'.epoch = lease.epoch /\ job' # None
  BY <1>1, <1>2 DEF Request, Cutovers, None
<1>4. job' \notin Requests BY <1>3 DEF Requests, Sides
<1>5. /\ Uncommitted' = Uncommitted /\ Uncleaned' = Uncleaned /\ Moved' = Moved
      /\ Withdrawn' = Withdrawn /\ Unswept' = Unswept /\ Staged' = Staged /\ Pending' = Pending
  BY DEF Uncommitted, Uncleaned, Moved, Withdrawn, Unswept, Staged, Pending
<1>6. PeerTypes' BY DEF PeerTypes
<1>7. MasterTypes' BY <1>3 DEF MasterTypes
<1>8. Flow'
  <2>1. EpochsFit' BY <1>1, <1>3, <1>5 DEF Flow, EpochsFit, Nobody, Fenced
  <2>2. AnswersLast' BY <1>1 DEF Flow, AnswersLast
  <2>3. BoundFits' /\ WorkFits' BY DEF Flow, BoundFits, WorkFits
  <2> QED BY <2>1, <2>2, <2>3 DEF Flow
<1>9. RequestsFit'
  <2> SUFFICES ASSUME NEW q \in Pending PROVE RequestFits(q)' /\ LastRunner(q)' /\ Overtaken(q)'
    BY <1>5 DEF RequestsFit
  <2>1. RequestFits(q) /\ LastRunner(q) /\ Overtaken(q) BY DEF RequestsFit
  <2>2. Shaped(q)' BY <2>1 DEF RequestFits, Shaped
  <2>3. RequestFits(q)' BY <1>5, <2>1, <2>2 DEF RequestFits
  <2> QED BY <1>5, <2>1, <2>3 DEF LastRunner, Overtaken
<1>10. JobFits' BY <1>3, <1>4, <1>5 DEF JobFits, Forwards, Cancels, UnitCancels, Closings, Aborts
<1>11. LateFits' BY <1>5 DEF LateFits, Late
<1>12. MemberRows'
  <2>1. ASSUME NEW v \in Units PROVE SrcFits(v)' /\ TgtFits(v)'
    BY DEF MemberRows, SrcFits, TgtFits, TgtRowFits
  <2> QED BY <1>5, <2>1 DEF MemberRows, AbortFits, CleanupWork, TargetWork
<1>13. UnitsFit'
  <2> SUFFICES ASSUME NEW v \in Units PROVE Taken(v)' /\ Given(v)' /\ Proved(v)' BY DEF UnitsFit
  <2> QED BY <1>5 DEF UnitsFit, Taken, Given, Proved, TargetProof, SourceProof
<1>14. AnswerFits' BY <1>1 DEF AnswerFits
<1>15. TaskFits' /\ MembersFit' BY <1>5 DEF TaskFits, MembersFit
<1>16. BooksAgree' BY <1>5 DEF BooksAgree, TargetReleased
<1> QED BY <1>6, <1>7, <1>8, <1>9, <1>10, <1>11, <1>12, <1>13, <1>14, <1>15, <1>16

\* The runner commits the handed over units at the Target.
LEMMA CommitTicks ==
  ASSUME MigInv, CommitTick, UNCHANGED <<cancel, undo>>
  PROVE  MigInv'
<1>1. /\ Fenced /\ job = None /\ UNCHANGED peerVars /\ task.state = "committing"
      /\ task.state \in Pausable
  BY DEF CommitTick, Tick, Pausable
<1>2. cancel.path = "" BY <1>1, NoPathYet
<1>3. PICK u : u = First(Uncommitted) OBVIOUS
<1>4. CASE Uncommitted = {} /\ Checkpoint("cleanup_pending") /\ Release
  BY <1>1, <1>4, Checkpoints DEF Pausable
<1>5. CASE Uncommitted # {} /\ ~unit[u].copied /\ Checkpoint("copying") /\ Keep
  BY <1>1, <1>5, Checkpoints DEF Pausable
<1>6. CASE /\ Uncommitted # {} /\ unit[u].copied /\ ~Fresh(unit[u].target)
           /\ Call("target", "publish", u, 0)
  <2>1. u \in Uncommitted /\ u \in 0..N /\ u \in Units BY <1>3, <1>6, OpenUnit
  <2>2. CallFits(Request("target", "publish", u, lease.epoch, 0)) /\ "publish" \in Kinds
    BY <1>1, <1>2, <1>6, <2>1
    DEF CallFits, RequestFits, LastRunner, Shaped, Request, Forwards, UnitCancels, Cancels, Closings,
        Aborts, Kinds, Fresh, Fenced
  <2> QED BY <1>1, <1>6, <2>1, <2>2, Calls DEF Sides
<1>7. CASE /\ Uncommitted # {} /\ unit[u].copied /\ Fresh(unit[u].target) /\ ~Fresh(unit[u].source)
           /\ Call("source", "verify", u, 0)
  <2>1. u \in Uncommitted /\ u \in 0..N /\ u \in Units BY <1>3, <1>7, OpenUnit
  <2>2. unit[u].state # "pending" BY <1>1, <1>7, <2>1 DEF MigInv, UnitsFit, Proved, Fresh, Fenced
  <2>3. CallFits(Request("source", "verify", u, lease.epoch, 0)) /\ "verify" \in Kinds
    BY <1>1, <1>2, <1>7, <2>1, <2>2
    DEF CallFits, RequestFits, LastRunner, Shaped, Request, Forwards, UnitCancels, Cancels, Closings,
        Aborts, Kinds, Fresh, Fenced
  <2> QED BY <1>1, <1>7, <2>1, <2>3, Calls DEF Sides
<1>8. CASE /\ Uncommitted # {} /\ job' = Request("master", "cutover", u, lease.epoch, 0)
           /\ UNCHANGED <<task, runner, lease, unit, receipts, books, net, answer>>
  BY <1>1, <1>3, <1>8, OpenUnit, CutoverQueued
<1> QED BY <1>3, <1>4, <1>5, <1>6, <1>7, <1>8 DEF CommitTick

\* The runner acknowledges, cleans up and finalizes.
LEMMA MigrationTicks ==
  ASSUME MigInv, UNCHANGED <<cancel, undo>>,
         Acknowledge \/ CleanupTick \/ FinalizeTick
  PROVE  MigInv'
<1>1. Fenced /\ job = None /\ task.state \in Pausable
  BY DEF Acknowledge, CleanupTick, FinalizeTick, Tick, Pausable
<1> QED
  BY <1>1, Acknowledges, CleansUp, Finalizes DEF Acknowledge, CleanupTick, FinalizeTick

\* The calls of a cancellation.
LEMMA CancelCalls ==
  ASSUME MigInv, Cancelling("publication"), NEW to \in Sides, NEW what \in Cancels, NEW u \in 0..N,
         Call(to, what, u, 0), UNCHANGED peerVars, UNCHANGED <<cancel, undo>>,
         what \in {"undo"} => to = "target",
         what \in {"prove", "retain", "query", "census", "release"} => to = "source",
         what = "close" => to = "target" /\ peer["source"].state = "released",
         what \in UnitCancels => u \in Uncommitted,
         what \in {"retain", "settle"} => tgt[u].unit \in Gone,
         what = "settle" => src[u].unit \in {"retained", "settled"},
         what = "settle" /\ to = "target" => src[u].unit = "settled",
         what \in Closings => Uncleaned = {}
  PROVE  MigInv'
<1>1. Fenced /\ job = None /\ task.state = "cancelling" /\ cancel.path = "publication"
  BY DEF Cancelling, Tick
<1>2. \A v \in Units : runner.epoch \notin {unit[v].target, unit[v].source}
  BY <1>1 DEF MigInv, TaskFits, Fenced
<1>3. what \in UnitCancels => u \in Units /\ unit[u].state \notin Committed BY DEF Uncommitted
<1> DEFINE r == Request(to, what, u, lease.epoch, 0)
<1>4. r.to = to /\ r.what = what /\ r.unit = u BY DEF Request
<1>5. /\ what \notin Forwards \cup {"commit", "cleanup", "finalize", "inspect"} \cup Aborts
      /\ what \in Kinds
  BY DEF Cancels, UnitCancels, Closings, Forwards, Aborts, Kinds
<1> HIDE DEF r
<1>6. Shaped(r) BY <1>3, <1>4, <1>5 DEF Shaped, Forwards, UnitCancels
<1>7. RequestFits(r) BY <1>1, <1>3, <1>4, <1>5, <1>6 DEF RequestFits, Forwards, Aborts
<1>8. LastRunner(r) BY <1>2, <1>4, <1>5 DEF LastRunner, Forwards
<1>9. CallFits(r) BY <1>1, <1>4, <1>5, <1>7, <1>8 DEF CallFits, Forwards
<1> QED BY <1>1, <1>5, <1>9, Calls DEF r

\* A cancelled task finishes the migration of the units that were committed before.
LEMMA MovedTicks ==
  ASSUME MigInv, MovedTick
  PROVE  MigInv'
<1>1. /\ Fenced /\ job = None /\ task.state = "cancelling" /\ cancel.path = "publication"
      /\ UNCHANGED peerVars /\ UNCHANGED <<cancel, undo>>
  BY DEF MovedTick, Cancelling, Tick, Unchanged, cancelVars
<1> QED BY <1>1, Acknowledges, Finalizes, CleansUp, Delays DEF MovedTick

\* Where a closing is, in the epoch of the lease.
LEMMA ClosingPlace ==
  ASSUME MigInv, Cancelling("publication")
  PROVE  At("query") \in {"query", "census", "catalog", "release"}
BY DEF MigInv, Cancelling, Tick, Fenced, TaskFits, At

\* A task closes when every unit moved or was given up: what is left at the
\* Source is what was withdrawn.
LEMMA ClosedCounts ==
  ASSUME Uncommitted = {}
  PROVE  /\ Cardinality(Moved) + Cardinality(Withdrawn) = N
         /\ Cardinality(Moved) \in Nat /\ Cardinality(Withdrawn) \in Nat
<1>1. IsFiniteSet(Units) /\ Cardinality(Units) = N
  BY CountsAssumption, FS_Interval DEF Units
<1>2. Moved \subseteq Units /\ Withdrawn = Units \ Moved
  BY DEF Moved, Withdrawn, Uncommitted, Committed
<1>3. IsFiniteSet(Moved) /\ IsFiniteSet(Withdrawn) BY <1>1, <1>2, FS_Subset
<1>4. Cardinality(Withdrawn) = Cardinality(Units) - Cardinality(Units \cap Moved)
  BY <1>1, <1>2, FS_Difference
<1>5. Units \cap Moved = Moved BY <1>2
<1>6. Cardinality(Moved) \in Nat /\ Cardinality(Withdrawn) \in Nat BY <1>3, FS_CardinalityType
<1>7. Cardinality(Withdrawn) = N - Cardinality(Moved) BY <1>1, <1>4, <1>5
<1>8. N \in Nat BY CountsAssumption
<1> QED BY <1>6, <1>7, <1>8

-----------------------------------------------------------------------------
(* What the Master writes into one row of a unit.                              *)

\* Neither the ownership nor the openness of the unit changes.
RowFits(u, row) ==
  /\ row.state \in Committed <=> unit[u].state \in Committed
  /\ row.state = "cancelled" <=> unit[u].state = "cancelled"
  /\ unit[u].state = "cleaned" => row.state = "cleaned"
  /\ row.state # unit[u].state => cancel.path # "prepublication"
  /\ cancel.path # "" => row.target \in {unit[u].target, 0} /\ row.source \in {unit[u].source, 0}

\* The task keeps what it promises while its state and the committed units stay.
LEMMA TaskKept ==
  ASSUME TaskFits, UNCHANGED <<peer, receipts, cancel>>,
         task'.state = task.state, task'.resume = task.resume,
         Uncommitted' = Uncommitted, Withdrawn' = Withdrawn,
         cancel.path = "prepublication" => \A v \in Units : unit'[v].state = unit[v].state,
         cancel.path # "" /\ lease'.current =>
           \A v \in Units : runner'.epoch \notin {unit'[v].target, unit'[v].source}
  PROVE  TaskFits'
BY DEF TaskFits

\* The Master writes the ledger row of one unit.
LEMMA UnitWrites ==
  ASSUME MigInv, NEW u \in Units, NEW row \in UnitRows, unit' = [unit EXCEPT ![u] = row],
         RowFits(u, row), UnitMove(u), Given(u)', Proved(u)',
         UNCHANGED peerVars, UNCHANGED <<net, receipts, books, cancel, undo>>,
         EpochMove, runner'.epoch = runner.epoch, lease'.current => lease.current,
         TaskTypes, task'.state = task.state, task'.resume = task.resume
  PROVE  MigInv'
<1> USE DEF MigInv, peerVars
<1>1. /\ unit' \in [Units -> UnitRows] /\ unit'[u] = row
      /\ \A v \in Units \ {u} : unit'[v] = unit[v]
  BY DEF MasterTypes
<1>2. /\ Uncommitted' = Uncommitted /\ Uncleaned' \subseteq Uncleaned
      /\ Moved' = Moved /\ Withdrawn' = Withdrawn
  BY <1>1 DEF RowFits, Uncommitted, Uncleaned, Moved, Withdrawn, Committed
<1>3. MasterTypes'
  <2>1. job' \in {job, None} /\ answer' \in {answer, None} BY DEF EpochMove
  <2> QED BY <1>1, <2>1 DEF MasterTypes, TaskTypes
<1>4. MasterMove
  <2>1. \A v \in Units \ {u} : UnitMove(v) BY <1>1 DEF UnitMove
  <2> QED BY <2>1 DEF MasterMove
<1>5. PeerTypes' /\ Flow' /\ RequestsFit' /\ JobFits' /\ MemberRows' /\ AnswerFits'
  BY <1>3, <1>4, MasterCore
<1>6. LateFits'
  <2>1. Pending' = Pending BY DEF Pending
  <2>2. \A r \in Pending : r.what \in Forwards => r.unit \in Units
    BY DEF RequestsFit, RequestFits, Shaped, Forwards
  <2>3. \A v \in Units : unit'[v].state \in Committed <=> unit[v].state \in Committed
    BY <1>1 DEF RowFits
  <2> QED BY <2>1, <2>2, <2>3 DEF LateFits, Late
<1>7. UnitsFit'
  <2> SUFFICES ASSUME NEW v \in Units PROVE Taken(v)' /\ Given(v)' /\ Proved(v)' BY DEF UnitsFit
  <2>1. Taken(v) /\ Given(v) /\ Proved(v) BY DEF UnitsFit
  <2>2. unit'[v].state = "cancelled" => unit[v].state = "cancelled" BY <1>1 DEF RowFits
  <2>3. Taken(v)' BY <2>1, <2>2 DEF Taken
  <2>4. v # u => Given(v)' BY <1>1, <2>1 DEF Given
  <2>5. v # u => Proved(v)' BY <1>1, <1>2, <2>1 DEF Proved, TargetProof, SourceProof
  <2> QED BY <2>3, <2>4, <2>5
<1>8. TaskFits'
  <2>1. cancel.path = "prepublication" => unit'[u].state = unit[u].state BY <1>1 DEF RowFits
  <2>2. cancel.path = "prepublication" => \A v \in Units : unit'[v].state = unit[v].state
    BY <1>1, <2>1
  <2>3. cancel.path # "" /\ lease'.current =>
          \A v \in Units : runner.epoch \notin {unit'[v].target, unit'[v].source}
    <3>1. runner.epoch # 0 BY DEF MasterTypes
    <3>2. cancel.path # "" /\ lease.current =>
            \A v \in Units : runner.epoch \notin {unit[v].target, unit[v].source}
      BY DEF TaskFits
    <3>3. cancel.path # "" /\ lease.current => runner.epoch \notin {unit'[u].target, unit'[u].source}
      BY <1>1, <3>1, <3>2 DEF RowFits
    <3> QED BY <1>1, <3>2, <3>3
  <2> QED BY <1>2, <2>2, <2>3, TaskKept
<1>9. MembersFit' BY <1>2 DEF MembersFit
<1>10. BooksAgree' BY <1>2 DEF BooksAgree, TargetReleased
<1> QED BY <1>3, <1>5, <1>6, <1>7, <1>8, <1>9, <1>10

\* The passage of time: a proof expires, a period of grace ends.
LEMMA TimePasses ==
  ASSUME MigInv, NEW u \in Units, ProofExpires(u) \/ GraceEnds(u), UNCHANGED <<cancel, undo>>
  PROVE  MigInv'
<1>1. /\ unit[u] \in UnitRows /\ unit \in [Units -> UnitRows] /\ task \in TaskRows
      /\ runner \in [epoch : Nat \ {0}, live : BOOLEAN] /\ lease \in [epoch : Nat, current : BOOLEAN]
  BY DEF MigInv, MasterTypes
<1>2. UNCHANGED peerVars /\ UNCHANGED <<task, runner, lease, receipts, books, net, job, answer>>
  BY DEF ProofExpires, GraceEnds, callVars
<1>3. EpochMove BY <1>2 DEF EpochMove, MigInv, Flow, EpochsFit
<1>4. TaskTypes BY <1>1, <1>2 DEF TaskTypes
<1>5. Given(u) /\ Proved(u) BY DEF MigInv, UnitsFit
<1>6. runner.epoch \in Nat \ {0} BY <1>1
<1>7. ASSUME NEW row \in UnitRows, unit' = [unit EXCEPT ![u] = row],
             row.state = unit[u].state, row.copied = unit[u].copied, row.receipt = unit[u].receipt,
             row.target \in {unit[u].target, 0}, row.source \in {unit[u].source, 0}
      PROVE  MigInv'
  <2>1. unit'[u] = row BY <1>1, <1>7
  <2>2. RowFits(u, row) BY <1>7 DEF RowFits
  <2>3. UnitMove(u) BY <1>7, <2>1 DEF UnitMove
  <2>4. Given(u)' BY <1>2, <1>5, <1>7, <2>1 DEF Given, peerVars
  <2>5. u \in Uncommitted' => u \in Uncommitted BY <1>7, <2>1 DEF Uncommitted
  <2>6. unit'[u].target <= runner.epoch /\ unit'[u].source <= runner.epoch
    BY <1>5, <1>6, <1>7, <2>1 DEF Proved
  <2>7. Proved(u)'
    BY <1>2, <1>5, <1>6, <1>7, <2>1, <2>5, <2>6 DEF Proved, TargetProof, SourceProof, peerVars
  <2> QED BY <1>2, <1>3, <1>4, <1>7, <2>2, <2>3, <2>4, <2>7, UnitWrites
<1>8. CASE GraceEnds(u)
  <2> DEFINE row == [unit[u] EXCEPT !.grace = "over"]
  <2>1. row \in UnitRows BY <1>1 DEF UnitRows
  <2>2. unit' = [unit EXCEPT ![u] = row] BY <1>1, <1>8 DEF GraceEnds
  <2> QED BY <1>1, <1>7, <2>1, <2>2 DEF UnitRows
<1>9. CASE ProofExpires(u)
  <2>1. PICK proof \in {"target", "source", "live"} : unit' = [unit EXCEPT ![u][proof] = 0]
    BY <1>9 DEF ProofExpires
  <2> DEFINE row == [unit[u] EXCEPT ![proof] = 0]
  <2>2. unit' = [unit EXCEPT ![u] = row] BY <1>1, <2>1
  <2>3. CASE proof = "target"
    <3>1. row \in UnitRows BY <1>1, <2>3 DEF UnitRows
    <3> QED BY <1>1, <1>7, <2>2, <2>3, <3>1 DEF UnitRows
  <2>4. CASE proof = "source"
    <3>1. row \in UnitRows BY <1>1, <2>4 DEF UnitRows
    <3> QED BY <1>1, <1>7, <2>2, <2>4, <3>1 DEF UnitRows
  <2>5. CASE proof = "live"
    <3>1. row \in UnitRows BY <1>1, <2>5 DEF UnitRows
    <3> QED BY <1>1, <1>7, <2>2, <2>5, <3>1 DEF UnitRows
  <2> QED BY <2>1, <2>3, <2>4, <2>5
<1> QED BY <1>8, <1>9

\* The journals of the task: receipts, the cancellation's place and records,
\* what is known of the way back of a unit.
JournalFits ==
  /\ receipts' \subseteq Sides /\ cancel' \in Journals /\ undo' \in [Units -> UndoRows]
  /\ cancel'.path = cancel.path
  /\ \A s \in receipts' \cup cancel'.records : peer[s].state = "released"
  /\ cancel'.at.step \in {"clean_source", "finish"} => peer["target"].state = "aborted"
  /\ cancel'.at.step = "finish" => peer["source"].state = "aborted"
  /\ cancel'.at.epoch # 0 /\ cancel'.path # "prepublication" =>
       cancel'.at.step \in {"census", "catalog", "release"}

\* The Master writes its receipts, the cancellation or the undo cursor.
LEMMA JournalWrites ==
  ASSUME MigInv, UNCHANGED peerVars, UNCHANGED <<net, unit, books>>,
         EpochMove, runner'.epoch = runner.epoch, lease'.current => lease.current,
         TaskTypes, task'.state = task.state, task'.resume = task.resume,
         JournalFits, \A u \in Units : Taken(u)'
  PROVE  MigInv'
<1> USE DEF MigInv, peerVars
<1>1. /\ Uncommitted' = Uncommitted /\ Uncleaned' = Uncleaned
      /\ Moved' = Moved /\ Withdrawn' = Withdrawn
  BY DEF Uncommitted, Uncleaned, Moved, Withdrawn
<1>2. MasterTypes'
  <2>1. job' \in {job, None} /\ answer' \in {answer, None} BY DEF EpochMove
  <2> QED BY <2>1 DEF MasterTypes, TaskTypes, JournalFits
<1>3. MasterMove BY DEF MasterMove, UnitMove, JournalFits
<1>4. PeerTypes' /\ Flow' /\ RequestsFit' /\ JobFits' /\ MemberRows' /\ AnswerFits'
  BY <1>2, <1>3, MasterCore
<1>5. LateFits'
  <2>1. Pending' = Pending BY DEF Pending
  <2> QED BY <2>1 DEF LateFits, Late
<1>6. UnitsFit'
  <2> SUFFICES ASSUME NEW u \in Units PROVE Given(u)' /\ Proved(u)' BY DEF UnitsFit
  <2>1. Given(u) /\ Proved(u) BY DEF UnitsFit
  <2> QED BY <1>1, <2>1 DEF Given, Proved, TargetProof, SourceProof
<1>7. TaskFits' BY <1>1 DEF TaskFits, JournalFits
<1>8. MembersFit' BY <1>1 DEF MembersFit, JournalFits
<1>9. BooksAgree' BY <1>1 DEF BooksAgree, TargetReleased
<1> QED BY <1>2, <1>4, <1>5, <1>6, <1>7, <1>8, <1>9

-----------------------------------------------------------------------------
(* Answers.                                                                    *)

\* After its answer nothing of a call is under way, but a copy that streams.
LEMMA AnsweredAlone ==
  ASSUME MigInv, Fenced, answer # None, answer.kind = "ok" \/ job.what # "copy"
  PROVE  Nobody
<1> SUFFICES ASSUME NEW r \in Pending, r.epoch = runner.epoch PROVE FALSE BY DEF Nobody
<1> USE DEF MigInv
<1>1. r = job BY DEF Fenced, Flow, EpochsFit
<1>2. r \notin net BY <1>1 DEF Flow, AnswersLast
<1>3. PICK s \in Sides : work[s] # None /\ r = work[s].req BY <1>2 DEF Pending
<1>4. s = "source" /\ work[s].step = "stream" /\ answer.kind = "wait"
  BY <1>1, <1>3 DEF Flow, AnswersLast
<1>5. r.what = "copy" BY <1>3, <1>4 DEF Flow, WorkFits
<1> QED BY <1>1, <1>4, <1>5

\* An awaited call that was answered is a request to a member.
LEMMA AnsweredJob ==
  ASSUME MigInv, answer # None
  PROVE  /\ job # None /\ job \in Requests /\ job.to \in Sides /\ job.epoch = lease.epoch
         /\ RequestFits(job) /\ Shaped(job) /\ answer.kind \in Outcomes
<1> USE DEF MigInv
<1>1. job # None /\ job.to \in Sides BY DEF Flow, AnswersLast
<1>2. job \in Requests BY <1>1 DEF MasterTypes, Cutovers, Sides
<1> QED BY <1>1, <1>2 DEF Flow, EpochsFit, JobFits, RequestFits, MasterTypes

\* An answer that ends the tick without a trace but in the task row.
LEMMA AnswerEnds ==
  ASSUME MigInv, answer # None, job' = None, answer' = None, Release,
         UNCHANGED peerVars, UNCHANGED <<net, unit, receipts, books, cancel, undo>>,
         \/ UNCHANGED task
         \/ \E error \in Errors : task' = [task EXCEPT !.error = error]
         \/ Fenced /\ \E error \in Errors : Fail(error)
  PROVE  MigInv'
<1>1. task \in TaskRows BY DEF MigInv, MasterTypes
<1>2. UNCHANGED task \/ (\E error \in Errors : task' = [task EXCEPT !.error = error])
        => task' \in TaskRows /\ task'.state = task.state /\ task'.resume = task.resume
  BY <1>1 DEF TaskRows
<1>3. Fenced /\ (\E error \in Errors : Fail(error))
        => task' \in TaskRows /\ task.state \in Active /\ task'.state = "failed" /\ task'.resume = task.state
  BY <1>1 DEF TaskRows, Fail, Fenced, Active
<1>4. task' \in TaskRows /\ TaskIs(task') BY <1>2, <1>3, TaskStates
<1> QED BY <1>4, Controlled DEF Release

\* A row written by an answer brings only proofs that hold.
RowProved(u, row) ==
  /\ row.state \in Committed =>
       row.receipt = unit[u].receipt /\ (row.state = "cleaned" => src[u].unit = "cleaned")
  /\ unit[u].copied => row.copied
  /\ row.state = "pending" => unit[u].state = "pending"
  /\ \/ row.target \in {unit[u].target, 0}
     \/ /\ row.target = runner.epoch /\ TargetProof(u, runner.epoch)
        /\ row.copied /\ row.state # "pending"
  /\ \/ row.source \in {unit[u].source, 0} /\ row.receipt = unit[u].receipt
     \/ /\ row.source = runner.epoch /\ SourceProof(u, runner.epoch, row.receipt)
        /\ row.copied /\ row.state # "pending"

\* The runner writes what an answer proves into the ledger row of its unit.
LEMMA RowAnswered ==
  ASSUME MigInv, Fenced, answer # None, answer.kind = "ok", job' = None, answer' = None, Keep,
         task' \in TaskRows, task'.state = task.state, task'.resume = task.resume,
         UNCHANGED peerVars, UNCHANGED <<net, receipts, books, cancel, undo>>,
         NEW u \in Units, NEW row \in UnitRows, unit' = [unit EXCEPT ![u] = row],
         RowFits(u, row), RowProved(u, row)
  PROVE  MigInv'
<1>1. /\ unit \in [Units -> UnitRows] /\ unit[u] \in UnitRows /\ task \in TaskRows
      /\ runner \in [epoch : Nat \ {0}, live : BOOLEAN] /\ lease \in [epoch : Nat, current : BOOLEAN]
  BY DEF MigInv, MasterTypes
<1>2. unit'[u] = row BY <1>1
<1>3. Nobody /\ lease.epoch = runner.epoch /\ lease.epoch # 0 BY AnsweredAlone DEF Fenced
<1>4. EpochMove BY <1>3 DEF EpochMove, Keep
<1>5. TaskTypes BY <1>1 DEF TaskTypes, Keep
<1>6. UnitMove(u) BY <1>2, <1>3 DEF UnitMove, RowFits, Committed
<1>7. Given(u) /\ Proved(u) /\ (u \in Uncommitted' <=> u \in Uncommitted)
  BY <1>2 DEF MigInv, UnitsFit, Uncommitted, RowFits
<1>8. Given(u)' BY <1>2, <1>7 DEF Given, RowFits, RowProved, peerVars
<1>9. Proved(u)'
  <2>1. runner' = runner /\ UNCHANGED <<peer, src, tgt>> BY DEF Keep, peerVars
  <2>2. /\ row.target \in Nat /\ row.source \in Nat /\ runner.epoch \in Nat \ {0}
        /\ unit[u].target \in Nat /\ unit[u].source \in Nat
    BY <1>1 DEF UnitRows
  <2>3. /\ row.target <= runner.epoch /\ row.source <= runner.epoch
        /\ (row.target # 0 \/ row.source # 0) => row.copied /\ row.state # "pending"
    <3>1. unit[u].target <= runner.epoch /\ unit[u].source <= runner.epoch BY <1>7 DEF Proved
    <3>2. (unit[u].target # 0 \/ unit[u].source # 0) => unit[u].copied /\ unit[u].state # "pending"
      BY <1>7 DEF Proved
    <3>3. /\ unit[u].copied => row.copied
          /\ row.state = "pending" => unit[u].state = "pending"
      BY DEF RowProved
    <3>4. /\ row.target \in {unit[u].target, 0} \/ (row.target = runner.epoch /\ row.copied /\ row.state # "pending")
          /\ row.source \in {unit[u].source, 0} \/ (row.source = runner.epoch /\ row.copied /\ row.state # "pending")
      BY DEF RowProved
    <3>5. row.target <= runner.epoch BY <2>2, <3>1, <3>4
    <3>6. row.source <= runner.epoch BY <2>2, <3>1, <3>4
    <3>7. row.target # 0 => row.copied /\ row.state # "pending" BY <3>2, <3>3, <3>4
    <3>8. row.source # 0 => row.copied /\ row.state # "pending" BY <3>2, <3>3, <3>4
    <3> QED BY <3>5, <3>6, <3>7, <3>8
  <2>4. u \in Uncommitted /\ row.target = runner.epoch => TargetProof(u, runner.epoch)
    BY <1>7, <2>2 DEF Proved, RowProved
  <2>5. u \in Uncommitted /\ row.source = runner.epoch => SourceProof(u, runner.epoch, row.receipt)
    BY <1>7, <2>2 DEF Proved, RowProved
  <2> QED BY <1>2, <1>7, <2>1, <2>3, <2>4, <2>5 DEF Proved, TargetProof, SourceProof
<1> QED BY <1>4, <1>5, <1>6, <1>8, <1>9, UnitWrites DEF Keep

\* Every successful answer to a call of the migration itself.
LEMMA AnswerWrites ==
  ASSUME MigInv, Answered, Fenced, answer.kind = "ok", Consistent, job.what # "finalize",
         UNCHANGED <<cancel, undo>>
  PROVE  MigInv'
<1> DEFINE u == job.unit
<1>1. /\ answer # None /\ job.what \in Moves /\ unit' = [unit EXCEPT ![u] = Written(@)]
      /\ Keep /\ job' = None /\ answer' = None
      /\ UNCHANGED peerVars /\ UNCHANGED <<net, receipts, books>>
  BY DEF Answered
<1>t. task' \in TaskRows /\ task'.state = task.state /\ task'.resume = task.resume
  <2>1. task' = [task EXCEPT !.error = ""] /\ task \in TaskRows BY DEF Answered, MigInv, MasterTypes
  <2> QED BY <2>1 DEF TaskRows, Errors
<1>2. /\ job \in Requests /\ job.to \in Sides /\ RequestFits(job) /\ Shaped(job)
      /\ job.epoch = runner.epoch /\ job # None
  BY <1>1, AnsweredJob DEF Fenced
<1>3. u \in Units BY <1>1, <1>2 DEF Shaped, Moves
<1>4. unit \in [Units -> UnitRows] /\ unit[u] \in UnitRows BY <1>3 DEF MigInv, MasterTypes
<1>5. Told(job, answer.phase, answer.receipt) BY <1>1 DEF MigInv, AnswerFits
<1>6. JobFits /\ lease.current BY DEF MigInv, Fenced
<1>7. runner.epoch \in Nat \ {0} BY DEF MigInv, MasterTypes
<1>8. ASSUME NEW row \in UnitRows, unit' = [unit EXCEPT ![u] = row], RowFits(u, row), RowProved(u, row)
      PROVE  MigInv'
  BY <1>1, <1>3, <1>8, <1>t, RowAnswered
<1>9. unit' = [unit EXCEPT ![u] = Written(unit[u])] BY <1>1, <1>4
<1>10. CASE job.what = "copy"
  <2> DEFINE row == [unit[u] EXCEPT !.copied = TRUE]
  <2>1. row \in UnitRows BY <1>4 DEF UnitRows
  <2>2. unit' = [unit EXCEPT ![u] = row] BY <1>9, <1>10 DEF Written
  <2>3. RowFits(u, row) BY <1>4 DEF RowFits, UnitRows
  <2>4. Given(u) BY <1>3 DEF MigInv, UnitsFit
  <2>5. RowProved(u, row) BY <1>4, <2>4 DEF RowProved, UnitRows, Given
  <2> HIDE DEF row
  <2> QED BY <1>8, <2>1, <2>2, <2>3, <2>5
<1>11. CASE job.what = "publish"
  <2> DEFINE row == [unit[u] EXCEPT !.state = "publishing",
                                    !.target = IF answer.phase = "published" THEN job.epoch ELSE 0]
  <2>1. row \in UnitRows BY <1>2, <1>4, <1>7 DEF UnitRows
  <2>2. unit' = [unit EXCEPT ![u] = row] BY <1>9, <1>11 DEF Written
  <2>3. u \in Uncommitted /\ unit[u].copied /\ task.state = "committing"
    BY <1>2, <1>6, <1>11 DEF JobFits, Forwards
  <2>4. cancel.path = "" BY <2>3, NoPathYet DEF Pausable
  <2>5. answer.phase = "published" => TargetProof(u, runner.epoch) BY <1>2, <1>5, <1>11 DEF Told
  <2>6. RowFits(u, row) BY <1>4, <2>3, <2>4 DEF RowFits, UnitRows, Uncommitted, Committed
  <2>7. RowProved(u, row) BY <1>2, <1>4, <2>3, <2>5 DEF RowProved, UnitRows, Committed
  <2> HIDE DEF row
  <2> QED BY <1>8, <2>1, <2>2, <2>6, <2>7
<1>12. CASE job.what = "verify"
  <2> DEFINE row == [unit[u] EXCEPT !.source = job.epoch, !.receipt = answer.receipt]
  <2>1. SourceProof(u, runner.epoch, answer.receipt) BY <1>2, <1>5, <1>12 DEF Told
  <2>2. answer.receipt \in Nat BY <1>3, <2>1 DEF SourceProof, MigInv, PeerTypes, SrcRows
  <2>3. row \in UnitRows BY <1>2, <1>4, <1>7, <2>2 DEF UnitRows
  <2>4. unit' = [unit EXCEPT ![u] = row] BY <1>9, <1>12 DEF Written
  <2>5. /\ u \in Uncommitted /\ unit[u].copied /\ task.state = "committing"
        /\ unit[u].state # "pending"
    BY <1>2, <1>6, <1>12 DEF JobFits, Forwards
  <2>6. cancel.path = "" BY <2>5, NoPathYet DEF Pausable
  <2>7. RowFits(u, row) BY <1>4, <2>5, <2>6 DEF RowFits, UnitRows
  <2>8. RowProved(u, row) BY <1>2, <1>4, <2>1, <2>5 DEF RowProved, UnitRows, Uncommitted, Committed
  <2> HIDE DEF row
  <2> QED BY <1>8, <2>3, <2>4, <2>7, <2>8
<1>13. CASE job.what = "commit"
  <2> DEFINE row == [unit[u] EXCEPT !.acks = @ \cup {job.to}]
  <2>1. row \in UnitRows BY <1>2, <1>4 DEF UnitRows
  <2>2. unit' = [unit EXCEPT ![u] = row] BY <1>9, <1>13 DEF Written
  <2>3. RowFits(u, row) BY <1>4 DEF RowFits, UnitRows
  <2>4. Given(u) BY <1>3 DEF MigInv, UnitsFit
  <2>5. RowProved(u, row) BY <1>4, <2>4 DEF RowProved, UnitRows, Given
  <2> HIDE DEF row
  <2> QED BY <1>8, <2>1, <2>2, <2>3, <2>5
<1>14. CASE job.what = "inspect"
  <2> DEFINE row == [unit[u] EXCEPT !.live = job.epoch]
  <2>1. row \in UnitRows BY <1>2, <1>4, <1>7 DEF UnitRows
  <2>2. unit' = [unit EXCEPT ![u] = row] BY <1>9, <1>14 DEF Written
  <2>3. RowFits(u, row) BY <1>4 DEF RowFits, UnitRows
  <2>4. Given(u) BY <1>3 DEF MigInv, UnitsFit
  <2>5. RowProved(u, row) BY <1>4, <2>4 DEF RowProved, UnitRows, Given
  <2> HIDE DEF row
  <2> QED BY <1>8, <2>1, <2>2, <2>3, <2>5
<1>15. CASE job.what = "cleanup"
  <2> DEFINE row == [unit[u] EXCEPT !.state = IF answer.phase = "cleaned" THEN "cleaned" ELSE "cleanup_pending"]
  <2>1. row \in UnitRows BY <1>4 DEF UnitRows, Committed
  <2>2. unit' = [unit EXCEPT ![u] = row] BY <1>9, <1>15 DEF Written
  <2>3. unit[u].state \in Committed /\ u \in Uncleaned
    BY <1>2, <1>6, <1>15 DEF RequestFits, JobFits
  <2>4. cancel.path # "prepublication" BY <1>3, <2>3, MovedIsNotAborted DEF MigInv
  <2>5. RowFits(u, row) BY <1>4, <2>3, <2>4 DEF RowFits, UnitRows, Committed, Uncleaned
  <2>6. answer.phase = "cleaned" => src[u].unit = "cleaned" BY <1>5, <1>15 DEF Told
  <2>7. RowProved(u, row) BY <1>4, <2>3, <2>6 DEF RowProved, UnitRows, Committed
  <2> HIDE DEF row
  <2> QED BY <1>8, <2>1, <2>2, <2>5, <2>7
<1> QED BY <1>1, <1>10, <1>11, <1>12, <1>13, <1>14, <1>15 DEF Moves

\* The final receipts.
LEMMA ReceiptWritten ==
  ASSUME MigInv, Answered, Fenced, answer.kind = "ok", job.what = "finalize",
         UNCHANGED <<cancel, undo>>
  PROVE  MigInv'
<1>1. /\ answer # None /\ receipts' = receipts \cup {job.to} /\ UNCHANGED unit
      /\ Keep /\ job' = None /\ answer' = None
      /\ UNCHANGED peerVars /\ UNCHANGED <<net, books>>
  BY DEF Answered, Consistent
<1>2. task' \in TaskRows /\ task'.state = task.state /\ task'.resume = task.resume
  <2>1. task' = [task EXCEPT !.error = ""] /\ task \in TaskRows
    BY DEF Answered, Consistent, MigInv, MasterTypes
  <2> QED BY <2>1 DEF TaskRows, Errors
<1>3. job.to \in Sides BY <1>1, AnsweredJob
<1>4. peer[job.to].state = "released" BY <1>1 DEF MigInv, AnswerFits, Told
<1>5. JournalFits BY <1>1, <1>3, <1>4 DEF JournalFits, MigInv, MasterTypes, TaskFits
<1>6. Nobody /\ lease.epoch # 0 BY <1>1, AnsweredAlone DEF Fenced
<1>7. EpochMove BY <1>1, <1>6 DEF EpochMove, Keep
<1>8. TaskTypes BY <1>1, <1>2 DEF TaskTypes, Keep, MigInv, MasterTypes
<1>9. \A u \in Units : Taken(u)'
  <2>1. UNCHANGED <<src, tgt, peer>> BY <1>1 DEF peerVars
  <2> QED BY <1>1, <2>1 DEF MigInv, UnitsFit, Taken
<1> QED BY <1>1, <1>2, <1>5, <1>7, <1>8, <1>9, JournalWrites DEF Keep

\* The runner takes up the answer to its call.
LEMMA Answers ==
  ASSUME MigInv, Answered, UNCHANGED <<cancel, undo>>
  PROVE  MigInv'
<1>1. /\ answer # None /\ job' = None /\ answer' = None
      /\ UNCHANGED peerVars /\ UNCHANGED <<net, books>>
  BY DEF Answered
<1>2. answer.kind \in Outcomes BY <1>1, AnsweredJob
<1>3. CASE ~Fenced BY <1>1, <1>3, AnswerEnds DEF Answered
<1>4. CASE Fenced /\ answer.kind = "wait"
  BY <1>1, <1>4, AnswerEnds DEF Answered, Note, Errors, Outcomes
<1>5. CASE Fenced /\ answer.kind # "wait" /\ (answer.kind # "ok" \/ ~Consistent)
  <2>1. \E error \in Errors : Fail(error)
    <3>1. Fail(IF answer.kind = "ok" THEN "refused" ELSE answer.kind) BY <1>5 DEF Answered
    <3>2. answer.kind \in Errors /\ "refused" \in Errors BY <1>2 DEF Errors, Outcomes
    <3> QED BY <3>1, <3>2
  <2> QED BY <1>1, <1>5, <2>1, AnswerEnds DEF Answered
<1>6. CASE Fenced /\ answer.kind = "ok" /\ Consistent
  BY <1>6, AnswerWrites, ReceiptWritten
<1> QED BY <1>3, <1>4, <1>5, <1>6

-----------------------------------------------------------------------------
(* The cutover.                                                                *)

LEMMA CutsOver ==
  ASSUME MigInv, Cutover, Fenced, Accounted, Fresh(unit[job.unit].target), Fresh(unit[job.unit].source),
         UNCHANGED <<cancel, undo>>
  PROVE  MigInv'
<1> USE DEF MigInv, peerVars
<1>1. PICK u : u = job.unit OBVIOUS
<1>2. /\ CuttingOver /\ job' = None /\ Keep
      /\ unit' = [unit EXCEPT ![u].state = "committed", ![u].grace = "running"]
      /\ books' = [source |-> books.source - 1, reserved |-> books.reserved - 1, target |-> books.target + 1]
      /\ UNCHANGED peerVars /\ UNCHANGED <<receipts, net, answer>>
  BY <1>1 DEF Cutover
<1>t. task' \in TaskRows /\ task'.state = task.state /\ task'.resume = task.resume
  <2>1. task' = [task EXCEPT !.error = ""] /\ task \in TaskRows BY DEF Cutover, MasterTypes
  <2> QED BY <2>1 DEF TaskRows, Errors
<1>3. job # None /\ job.what = "cutover" /\ job.to \notin Sides /\ job \notin Requests
  BY <1>2 DEF CuttingOver, None, MasterTypes, Requests, Kinds, Forwards, Cancels, UnitCancels, Closings, Aborts, Cutovers, Sides
<1>4. /\ u \in Uncommitted /\ u \in Units /\ task.state = "committing"
      /\ lease.epoch = runner.epoch /\ lease.epoch # 0 /\ lease.current
  BY <1>1, <1>3 DEF JobFits, Uncommitted, Fenced
<1>5. cancel.path = "" BY <1>4, NoPathYet DEF Pausable
<1>6. answer = None BY <1>3 DEF Flow, AnswersLast
<1>7. Nobody
  BY <1>3, <1>4, PendingAreRequests DEF Nobody, Flow, EpochsFit
<1>8. TargetProof(u, runner.epoch) /\ SourceProof(u, runner.epoch, unit[u].receipt) /\ unit[u].copied
  BY <1>1, <1>4 DEF UnitsFit, Proved, Fresh
<1>9. /\ unit' \in [Units -> UnitRows] /\ unit'[u].state = "committed"
      /\ unit'[u].copied = unit[u].copied /\ unit'[u].receipt = unit[u].receipt
      /\ unit'[u].target = unit[u].target /\ unit'[u].source = unit[u].source
      /\ \A v \in Units \ {u} : unit'[v] = unit[v]
  <2>1. unit \in [Units -> UnitRows] /\ unit[u] \in UnitRows BY <1>4 DEF MasterTypes
  <2> QED BY <1>2, <1>4, <2>1 DEF UnitRows, Committed
<1>10. /\ Uncommitted' = Uncommitted \ {u} /\ Uncleaned' = Uncleaned /\ u \in Uncleaned
       /\ Moved' = Moved \cup {u} /\ u \notin Moved /\ Withdrawn' = Withdrawn
  BY <1>4, <1>9 DEF Uncommitted, Uncleaned, Moved, Withdrawn, Committed
<1>11. EpochMove BY <1>2, <1>4, <1>6, <1>7 DEF EpochMove, Keep
<1>12. MasterTypes'
  <2>1. books \in [source : Int, reserved : Int, target : Int] BY DEF MasterTypes
  <2>2. books' \in [source : Int, reserved : Int, target : Int] BY <1>2, <2>1
  <2> QED BY <1>2, <1>6, <1>9, <1>t, <2>2 DEF MasterTypes, Keep
<1>13. MasterMove
  <2>1. \A v \in Units : UnitMove(v)
    BY <1>2, <1>4, <1>5, <1>7, <1>9 DEF UnitMove, Committed, Uncommitted
  <2> QED BY <1>2, <1>11, <2>1 DEF MasterMove
<1>14. PeerTypes' /\ Flow' /\ RequestsFit' /\ JobFits' /\ MemberRows' /\ AnswerFits'
  BY <1>12, <1>13, MasterCore
<1>15. LateFits'
  <2>1. Pending' = Pending BY <1>2 DEF Pending
  <2> SUFFICES ASSUME NEW r \in Pending, r.what \in Forwards
               PROVE  /\ unit'[r.unit].state \in Committed => Late(r)
                      /\ r.to = "target" /\ tgt[r.unit].entry \in Undone =>
                           \/ peer["target"].state \in {"aborting", "aborted"}
                           \/ r.epoch < peer["target"].epoch
    BY <1>2, <2>1 DEF LateFits, Late
  <2>2. r \in Requests /\ Shaped(r) /\ r.epoch \in Nat
    BY PendingAreRequests DEF RequestsFit, RequestFits, Requests
  <2>3. r.epoch < runner.epoch
    <3>1. r.epoch <= runner.epoch /\ r.epoch # runner.epoch BY <1>7 DEF Flow, EpochsFit, Nobody
    <3>2. runner.epoch \in Nat BY DEF MasterTypes
    <3> QED BY <2>2, <3>1, <3>2
  <2>4. CASE r.unit = u
    <3>1. Late(r)
      BY <1>8, <2>2, <2>3 DEF Late, TargetProof, SourceProof, Shaped, Forwards
    <3> QED BY <3>1 DEF LateFits
  <2>5. CASE r.unit # u
    <3>1. r.unit \in Units BY <2>2 DEF Shaped, Forwards
    <3> QED BY <1>9, <2>5, <3>1 DEF LateFits
  <2> QED BY <2>4, <2>5
<1>16. UnitsFit'
  <2> SUFFICES ASSUME NEW v \in Units PROVE Taken(v)' /\ Given(v)' /\ Proved(v)' BY DEF UnitsFit
  <2>1. Taken(v) /\ Given(v) /\ Proved(v) /\ TgtFits(v) BY DEF UnitsFit, MemberRows
  <2>2. unit'[v].state = "cancelled" => unit[v].state = "cancelled" BY <1>9
  <2>3. Taken(v)' BY <1>2, <2>1, <2>2 DEF Taken
  <2>4. CASE v = u
    <3>1. Given(u)'
      BY <1>2, <1>8, <1>9, <2>1, <2>4 DEF Given, TargetProof, SourceProof, TgtFits, TgtRowFits, Undone, Committed
    <3>2. Proved(u)' BY <1>2, <1>8, <1>9, <1>10, <2>1, <2>4 DEF Proved, Keep
    <3> QED BY <2>3, <2>4, <3>1, <3>2
  <2>5. CASE v # u
    <3>1. unit'[v] = unit[v] /\ (v \in Uncommitted' <=> v \in Uncommitted) BY <1>9, <1>10, <2>5
    <3>2. Given(v)' BY <1>2, <2>1, <3>1 DEF Given
    <3>3. Proved(v)' BY <1>2, <2>1, <3>1 DEF Proved, TargetProof, SourceProof, Keep
    <3> QED BY <2>3, <3>2, <3>3
  <2> QED BY <2>4, <2>5
<1>17. TaskFits'
  <2>1. task.resume = "" BY <1>4 DEF TaskFits
  <2> QED BY <1>2, <1>4, <1>5, <1>t, <2>1 DEF TaskFits, Pausable
<1>18. MembersFit' BY <1>2, <1>4, <1>10, <1>t DEF MembersFit
<1>19. BooksAgree'
  <2>1. IsFiniteSet(Moved) /\ Cardinality(Moved') = Cardinality(Moved) + 1
    <3>1. IsFiniteSet(Units) BY CountsAssumption, FS_Interval DEF Units
    <3>2. Moved \subseteq Units BY DEF Moved
    <3> QED BY <1>10, <3>1, <3>2, FS_Subset, FS_AddElement
  <2>2. Cardinality(Moved) \in Nat /\ Cardinality(Withdrawn) \in Nat
    <3>1. IsFiniteSet(Units) BY CountsAssumption, FS_Interval DEF Units
    <3>2. Withdrawn \subseteq Units BY DEF Withdrawn
    <3> QED BY <2>1, <3>1, <3>2, FS_Subset, FS_CardinalityType
  <2>3. TargetReleased' = TargetReleased /\ native' = native /\ peer' = peer BY <1>2 DEF TargetReleased
  <2>4. PICK m, w \in Nat : m = Cardinality(Moved) /\ w = Cardinality(Withdrawn) BY <2>2
  <2>5. /\ books.target = m /\ books.reserved = N - m - w /\ books.source = N - m
    BY <2>4 DEF BooksAgree
  <2>6. /\ books'.target = books.target + 1 /\ books'.reserved = books.reserved - 1
        /\ books'.source = books.source - 1
    BY <1>2
  <2>7. Cardinality(Moved') = m + 1 /\ Cardinality(Withdrawn') = w BY <1>10, <2>1, <2>4
  <2>8. /\ books'.target = Cardinality(Moved')
        /\ books'.reserved = N - Cardinality(Moved') - Cardinality(Withdrawn')
        /\ books'.source = N - Cardinality(Moved')
    BY <2>4, <2>5, <2>6, <2>7, CountsAssumption
  <2> QED BY <1>2, <2>3, <2>8 DEF BooksAgree
<1> QED BY <1>12, <1>14, <1>15, <1>16, <1>17, <1>18, <1>19

\* The cutover moves the location and the books in one transaction.
LEMMA CutoverKeeps ==
  ASSUME MigInv, Cutover, UNCHANGED <<cancel, undo>>
  PROVE  MigInv'
<1>1. /\ job' = None /\ UNCHANGED peerVars /\ UNCHANGED <<receipts, net, answer>>
  BY DEF Cutover
<1>2. answer = None
  BY DEF Cutover, CuttingOver, MigInv, Flow, AnswersLast, MasterTypes, Requests, Kinds, Forwards, Cancels,
         UnitCancels, Closings, Aborts, Cutovers, None, Sides
<1>3. task \in TaskRows /\ TaskIs(task) BY TaskStates DEF MigInv, MasterTypes
<1>4. CASE ~Fenced BY <1>1, <1>2, <1>3, <1>4, Controlled DEF Cutover, Release
<1>5. CASE Fenced /\ ~(Accounted /\ Fresh(unit[job.unit].target) /\ Fresh(unit[job.unit].source))
  <2>1. \E error \in {"proof_stale", "refused"} : Fail(error) BY <1>5 DEF Cutover
  <2>2. task' \in TaskRows /\ task'.state = "failed" /\ task'.resume = task.state
    BY <1>3, <1>5, <2>1 DEF Fail, TaskRows, Errors, Outcomes, Fenced, Active
  <2>3. TaskIs(task') BY <1>5, <2>2, TaskStates DEF Fenced
  <2>4. Release /\ UNCHANGED <<unit, books>> BY <1>5 DEF Cutover
  <2> QED BY <1>1, <1>2, <2>2, <2>3, <2>4, Controlled DEF Release
<1>6. CASE Fenced /\ Accounted /\ Fresh(unit[job.unit].target) /\ Fresh(unit[job.unit].source)
  BY <1>6, CutsOver
<1> QED BY <1>4, <1>5, <1>6

-----------------------------------------------------------------------------
(* Taking units back.                                                          *)

\* The Master lets go of a unit both members have settled.
LEMMA UnitFinished ==
  ASSUME MigInv, Cancelling("publication"), NEW u \in Uncommitted, undo[u].settled = Sides,
         FinishUnit(u), UNCHANGED peerVars, UNCHANGED <<cancel, undo>>
  PROVE  MigInv'
<1> USE DEF MigInv, peerVars
<1>1. Fenced /\ job = None /\ task.state = "cancelling" /\ cancel.path = "publication"
  BY DEF Cancelling, Tick
<1>2. CASE Stop("refused") BY <1>1, <1>2, Stops DEF Errors, Outcomes
<1>3. CASE /\ books.reserved = N - Cardinality(Moved) - Cardinality(Withdrawn)
           /\ unit' = [unit EXCEPT ![u].state = "cancelled"]
           /\ books' = [books EXCEPT !.reserved = @ - 1]
           /\ task' = [task EXCEPT !.error = ""]
           /\ UNCHANGED receipts /\ NoCall /\ Keep
  <2>1. u \in Units /\ unit \in [Units -> UnitRows] /\ unit[u] \in UnitRows
    BY DEF Uncommitted, MasterTypes
  <2>2. /\ unit' \in [Units -> UnitRows] /\ unit'[u].state = "cancelled"
        /\ unit'[u].copied = unit[u].copied /\ unit'[u].receipt = unit[u].receipt
        /\ unit'[u].target = unit[u].target /\ unit'[u].source = unit[u].source
        /\ \A v \in Units \ {u} : unit'[v] = unit[v]
    BY <1>3, <2>1 DEF UnitRows
  <2>3. task' \in TaskRows /\ task'.state = task.state /\ task'.resume = task.resume
    BY <1>3 DEF MasterTypes, TaskRows, Errors
  <2>4. books \in [source : Int, reserved : Int, target : Int] BY DEF MasterTypes
  <2>5. /\ books' \in [source : Int, reserved : Int, target : Int]
        /\ books'.source = books.source /\ books'.target = books.target
        /\ books'.reserved = books.reserved - 1
    <3>1. PICK n \in Int : n = books.reserved - 1 BY <2>4
    <3>2. books' = [books EXCEPT !.reserved = n] BY <1>3, <2>4, <3>1
    <3> QED BY <2>4, <3>1, <3>2
  <2>6. /\ UNCHANGED <<runner, lease, receipts, net, job, answer>>
    BY <1>3 DEF Keep, NoCall
  <2>7. MasterTypes' BY <2>2, <2>3, <2>5, <2>6 DEF MasterTypes
  <2>8. /\ Uncommitted' = Uncommitted \ {u} /\ Uncleaned' \subseteq Uncleaned /\ u \in Uncleaned
        /\ Moved' = Moved /\ Withdrawn' = Withdrawn \cup {u} /\ u \notin Withdrawn
    BY <2>1, <2>2 DEF Uncommitted, Uncleaned, Moved, Withdrawn, Committed
  <2>9. MasterMove
    <3>1. \A v \in Units : UnitMove(v) BY <1>1, <2>1, <2>2, <2>6 DEF UnitMove, Committed, Uncommitted
    <3>2. EpochMove BY <2>6 DEF EpochMove, Flow, EpochsFit
    <3> QED BY <1>1, <2>6, <3>1, <3>2 DEF MasterMove
  <2>10. PeerTypes' /\ Flow' /\ RequestsFit' /\ JobFits' /\ MemberRows' /\ AnswerFits'
    BY <2>7, <2>9, MasterCore
  <2>11. LateFits'
    <3>1. Pending' = Pending BY <2>6 DEF Pending
    <3>2. \A r \in Pending : r.what \in Forwards => r.unit \in Units
      BY DEF RequestsFit, RequestFits, Shaped, Forwards
    <3>3. \A v \in Units : unit'[v].state \in Committed => unit[v].state \in Committed
      BY <2>2 DEF Committed
    <3> QED BY <3>1, <3>2, <3>3 DEF LateFits, Late
  <2>12. UnitsFit'
    <3> SUFFICES ASSUME NEW v \in Units PROVE Taken(v)' /\ Given(v)' /\ Proved(v)' BY DEF UnitsFit
    <3>1. Taken(v) /\ Given(v) /\ Proved(v) BY DEF UnitsFit
    <3>2. v = u => src[v].unit = "settled" /\ tgt[v].unit = "settled"
      BY <3>1 DEF Taken, Sides
    <3>3. Taken(v)' BY <1>1, <2>2, <3>1, <3>2 DEF Taken
    <3>4. Given(v)' BY <2>2, <3>1 DEF Given, Committed
    <3>5. Proved(v)' BY <2>2, <2>6, <2>8, <3>1 DEF Proved, TargetProof, SourceProof
    <3> QED BY <3>3, <3>4, <3>5
  <2>13. TaskFits'
    <3>1. task.resume = "" BY <1>1 DEF TaskFits
    <3>2. cancel.path # "" /\ lease.current =>
            \A v \in Units : runner.epoch \notin {unit'[v].target, unit'[v].source}
      BY <2>2 DEF TaskFits
    <3> QED BY <1>1, <2>3, <2>6, <3>1, <3>2 DEF TaskFits, Pausable
  <2>14. MembersFit' BY <1>1, <2>3, <2>8 DEF MembersFit
  <2>15. BooksAgree'
    <3>1. IsFiniteSet(Units) BY CountsAssumption, FS_Interval DEF Units
    <3>2. Moved \subseteq Units /\ Withdrawn \subseteq Units BY DEF Moved, Withdrawn
    <3>3. IsFiniteSet(Moved) /\ IsFiniteSet(Withdrawn) BY <3>1, <3>2, FS_Subset
    <3>4. Cardinality(Withdrawn') = Cardinality(Withdrawn) + 1 BY <2>8, <3>3, FS_AddElement
    <3>5. PICK m, w \in Nat : m = Cardinality(Moved) /\ w = Cardinality(Withdrawn)
      BY <3>3, FS_CardinalityType
    <3>6. /\ books'.reserved = N - Cardinality(Moved') - Cardinality(Withdrawn')
          /\ books'.target = Cardinality(Moved') /\ books'.source = N - Cardinality(Moved')
      BY <2>5, <2>8, <3>4, <3>5, CountsAssumption DEF BooksAgree
    <3>7. TargetReleased' = TargetReleased BY DEF TargetReleased
    <3> QED BY <3>6, <3>7 DEF BooksAgree
  <2> QED BY <2>7, <2>10, <2>11, <2>12, <2>13, <2>14, <2>15
<1> QED BY <1>2, <1>3 DEF FinishUnit

\* The runner takes a published unit back from the Target.
LEMMA TakeBackTicks ==
  ASSUME MigInv, TakeBackTick
  PROVE  MigInv'
<1>1. /\ Fenced /\ job = None /\ task.state = "cancelling" /\ cancel.path = "publication"
      /\ UNCHANGED peerVars /\ UNCHANGED <<cancel, undo>> /\ Cancelling("publication")
      /\ Uncommitted # {}
  BY DEF TakeBackTick, Cancelling, Tick, Unchanged, cancelVars
<1>2. PICK u : u = First(Uncommitted) OBVIOUS
<1>3. u \in Uncommitted /\ u \in Units /\ u \in 0..N BY <1>1, <1>2, OpenUnit
<1>4. Taken(u) BY <1>3 DEF MigInv, UnitsFit
<1>5. CASE \E side \in Sides : Call(side, "stop", 0, 0)
  <2>1. 0 \in 0..N BY CountsAssumption
  <2> QED BY <1>1, <1>5, <2>1, CancelCalls DEF Cancels, UnitCancels, Closings
<1>6. CASE AcknowledgeOne BY <1>1, <1>6, Acknowledges
<1>7. CASE undo[u].settled = Sides /\ FinishUnit(u)
  BY <1>1, <1>3, <1>7, UnitFinished
<1>8. CASE undo[u].source /\ "source" \notin undo[u].settled /\ Call("source", "settle", u, 0)
  BY <1>1, <1>3, <1>4, <1>8, CancelCalls DEF Cancels, UnitCancels, Closings, Taken, Sides
<1>9. CASE undo[u].source /\ "source" \in undo[u].settled /\ Call("target", "settle", u, 0)
  BY <1>1, <1>3, <1>4, <1>9, CancelCalls DEF Cancels, UnitCancels, Closings, Taken, Sides
<1>10. CASE undo[u].target /\ Call("source", "retain", u, 0)
  BY <1>1, <1>3, <1>4, <1>10, CancelCalls DEF Cancels, UnitCancels, Closings, Taken, Sides
<1>11. CASE Call("source", "prove", u, 0)
  BY <1>1, <1>3, <1>11, CancelCalls DEF Cancels, UnitCancels, Closings, Sides
<1>12. CASE Call("target", "undo", u, 0)
  BY <1>1, <1>3, <1>12, CancelCalls DEF Cancels, UnitCancels, Closings, Sides
<1>13. CASE Stop("refused") BY <1>1, <1>13, Stops DEF Errors, Outcomes
<1>14. TakeBack(u) => MigInv'
  BY <1>7, <1>8, <1>9, <1>10, <1>11, <1>12, <1>13 DEF TakeBack
<1> QED BY <1>2, <1>5, <1>6, <1>14 DEF TakeBackTick, Sides

\* Rows of every unit, then the totals, close a task that was taken back.
LEMMA Closes ==
  ASSUME MigInv, Cancelling("publication"), Uncommitted = {}, Uncleaned = {},
         Sides \subseteq cancel.records,
         CloseTask(Cardinality(Withdrawn)), UNCHANGED unit, UNCHANGED peerVars, UNCHANGED <<cancel, undo>>
  PROVE  MigInv'
<1> USE DEF MigInv, peerVars
<1>1. Fenced /\ job = None /\ task.state = "cancelling" /\ cancel.path = "publication"
  BY DEF Cancelling, Tick
<1>2. answer = None BY <1>1, IdleUnanswered
<1>3. /\ Uncommitted' = Uncommitted /\ Uncleaned' = Uncleaned
      /\ Moved' = Moved /\ Withdrawn' = Withdrawn
  BY DEF Uncommitted, Uncleaned, Moved, Withdrawn
<1>4. /\ Cardinality(Moved) + Cardinality(Withdrawn) = N
      /\ Cardinality(Moved) \in Nat /\ Cardinality(Withdrawn) \in Nat
  BY ClosedCounts
<1>5. PICK m, w \in Nat : m = Cardinality(Moved) /\ w = Cardinality(Withdrawn) /\ m + w = N BY <1>4
<1>6. books.source = N - m BY <1>5 DEF BooksAgree
<1>7. books.source = w BY <1>5, <1>6, CountsAssumption
<1>8. books' = books
  <2>1. books \in [source : Int, reserved : Int, target : Int] BY DEF MasterTypes
  <2> QED BY <1>5, <1>7, <2>1 DEF CloseTask
<1>9. \A s \in Sides : peer[s].state = "released" BY DEF TaskFits
<1> DEFINE t == [task EXCEPT !.state = "cancelled", !.error = ""]
<1>10. t \in TaskRows /\ t.state = "cancelled" /\ t.resume = task.resume
  BY DEF MasterTypes, TaskRows, Errors
<1>11. task' = t BY DEF CloseTask
<1> HIDE DEF t
<1>12. t.resume = "" BY <1>1, <1>10 DEF TaskFits
<1>13. TaskIs(t) BY <1>1, <1>9, <1>10, <1>12 DEF TaskIs, Pausable
<1> QED BY <1>1, <1>2, <1>8, <1>10, <1>11, <1>13, Controlled DEF CloseTask, NoCall

\* The runner lets the members release a cancelled task.
LEMMA ReleaseTicks ==
  ASSUME MigInv, ReleaseTick
  PROVE  MigInv'
<1>1. /\ Fenced /\ job = None /\ Cancelling("publication") /\ Uncommitted = {} /\ Uncleaned = {}
      /\ UNCHANGED peerVars /\ UNCHANGED <<cancel, undo>> /\ At("query") # "catalog"
  BY DEF ReleaseTick, Cancelling, Tick, Unchanged, cancelVars
<1>2. PICK what : what = At("query") OBVIOUS
<1>3. what \in {"query", "census", "release"} BY <1>1, <1>2, ClosingPlace
<1>4. 0 \in 0..N BY CountsAssumption
<1>5. CASE Delay BY <1>1, <1>5, Delays
<1>6. CASE Call("source", what, 0, 0)
  BY <1>1, <1>3, <1>4, <1>6, CancelCalls DEF Cancels, UnitCancels, Closings, Sides
<1>7. CASE "source" \in cancel.records /\ Call("target", "close", 0, 0)
  <2>1. peer["source"].state = "released" BY <1>7 DEF MigInv, TaskFits
  <2> QED BY <1>1, <1>4, <1>7, <2>1, CancelCalls DEF Cancels, UnitCancels, Closings, Sides
<1>8. CASE Sides \subseteq cancel.records /\ CloseTask(Cardinality(Withdrawn)) /\ UNCHANGED unit
  BY <1>1, <1>8, Closes
<1> QED BY <1>2, <1>5, <1>6, <1>7, <1>8 DEF ReleaseTick, Sides

\* The runner sends the next call of the cancellation before publication.
LEMMA AbortTicks ==
  ASSUME MigInv, AbortTick
  PROVE  MigInv'
<1>1. /\ Fenced /\ job = None /\ task.state = "cancelling" /\ cancel.path = "prepublication"
      /\ UNCHANGED peerVars /\ UNCHANGED <<cancel, undo>>
  BY DEF AbortTick, Cancelling, Tick, Unchanged, cancelVars
<1>2. PICK step \in DOMAIN AbortCalls :
        step = At("stop_source") /\ Call(AbortCalls[step][1], AbortCalls[step][2], 0, 0)
  BY DEF AbortTick
<1>3. step \in {"stop_source", "stop_target", "stop_waiting", "clean_target", "clean_source"}
  BY DEF AbortCalls
<1>4. PICK to \in Sides, what \in Aborts :
        Call(to, what, 0, 0) /\ (what = "abort_clean" /\ to = "source" => step = "clean_source")
  BY <1>2, <1>3 DEF AbortCalls, Sides, Aborts
<1>5. what = "abort_clean" /\ to = "source" => peer["target"].state = "aborted"
  BY <1>2, <1>4 DEF MigInv, TaskFits, At
<1> DEFINE r == Request(to, what, 0, lease.epoch, 0)
<1>6. r.to = to /\ r.what = what BY DEF Request
<1>7. /\ what \notin Forwards \cup {"commit", "cleanup", "finalize", "inspect"} \cup Cancels
      /\ what \in Kinds
  BY DEF Cancels, UnitCancels, Closings, Forwards, Aborts, Kinds
<1> HIDE DEF r
<1>8. RequestFits(r)
  BY <1>1, <1>4, <1>5, <1>6, <1>7 DEF RequestFits, Shaped, Forwards, Cancels, UnitCancels, Closings
<1>9. LastRunner(r) BY <1>6, <1>7 DEF LastRunner, Forwards
<1>10. CallFits(r) BY <1>1, <1>6, <1>7, <1>8, <1>9 DEF CallFits, Forwards
<1>11. 0 \in 0..N BY CountsAssumption
<1> QED BY <1>1, <1>4, <1>7, <1>10, <1>11, Calls DEF r

-----------------------------------------------------------------------------
(* A cancellation before publication closes every unit at once.                *)

LEMMA AbortCloses ==
  ASSUME MigInv, Cancelling("prepublication"), At("stop_source") = "finish",
         task' \in TaskRows, task'.state = "cancelled", task'.resume = task.resume,
         unit' = [u \in Units |-> [unit[u] EXCEPT !.state = "cancelled"]],
         books' = [books EXCEPT !.reserved = 0],
         Release, UNCHANGED receipts, NoCall, UNCHANGED peerVars, UNCHANGED <<cancel, undo>>
  PROVE  MigInv'
<1> USE DEF MigInv, peerVars
<1>1. Fenced /\ job = None /\ task.state = "cancelling" /\ cancel.path = "prepublication"
  BY DEF Cancelling, Tick
<1>2. answer = None /\ UNCHANGED <<net, job, answer>> BY <1>1, IdleUnanswered DEF NoCall
<1>3. \A s \in Sides : peer[s].state = "aborted" BY DEF At, TaskFits, Sides
<1>4. \A u \in Units : unit[u].state = "pending" BY <1>1 DEF TaskFits
<1>5. unit \in [Units -> UnitRows] /\ books \in [source : Int, reserved : Int, target : Int]
  BY DEF MasterTypes
<1>6. /\ unit' \in [Units -> UnitRows]
      /\ \A u \in Units :
           /\ unit'[u].state = "cancelled" /\ unit'[u].copied = unit[u].copied
           /\ unit'[u].target = unit[u].target /\ unit'[u].source = unit[u].source
  BY <1>5 DEF UnitRows
<1>7. /\ books' \in [source : Int, reserved : Int, target : Int] /\ books'.reserved = 0
      /\ books'.source = books.source /\ books'.target = books.target
  BY <1>5
<1>8. /\ runner \in [epoch : Nat \ {0}, live : BOOLEAN]
      /\ runner' \in {runner, [runner EXCEPT !.live = FALSE]} /\ lease' = NoLease
  BY DEF MasterTypes, Release
<1>9. /\ runner' \in [epoch : Nat \ {0}, live : BOOLEAN] /\ runner'.epoch = runner.epoch
      /\ lease' \in [epoch : Nat, current : BOOLEAN] /\ lease'.epoch = 0 /\ ~lease'.current
  BY <1>8 DEF NoLease
<1>10. MasterTypes' BY <1>2, <1>6, <1>7, <1>9 DEF MasterTypes
<1>11. /\ Uncommitted' = {} /\ Uncleaned' = {} /\ Moved' = {} /\ Moved = {} /\ Withdrawn' = Units
  BY <1>4, <1>6 DEF Uncommitted, Uncleaned, Moved, Withdrawn, Committed
<1>12. MasterMove
  <2>1. \A u \in Units : UnitMove(u) BY <1>1, <1>2, <1>4, <1>6 DEF UnitMove, Committed
  <2>2. EpochMove BY <1>1, <1>2, <1>9 DEF EpochMove
  <2> QED BY <1>1, <1>2, <2>1, <2>2 DEF MasterMove
<1>13. PeerTypes' /\ Flow' /\ RequestsFit' /\ JobFits' /\ MemberRows' /\ AnswerFits'
  BY <1>10, <1>12, MasterCore
<1>14. LateFits'
  <2>1. Pending' = Pending BY <1>2 DEF Pending
  <2>2. \A r \in Pending : r.what \in Forwards => r.unit \in Units
    BY DEF RequestsFit, RequestFits, Shaped, Forwards
  <2> QED BY <1>6, <2>1, <2>2 DEF LateFits, Late, Committed
<1>15. UnitsFit'
  <2> SUFFICES ASSUME NEW u \in Units PROVE Taken(u)' /\ Given(u)' /\ Proved(u)' BY DEF UnitsFit
  <2>1. Taken(u) /\ Proved(u) BY DEF UnitsFit
  <2>2. Taken(u)' BY <1>1, <1>3, <2>1 DEF Taken
  <2>3. Given(u)' BY <1>6 DEF Given, Committed
  <2>4. Proved(u)' BY <1>4, <1>6, <1>9, <1>11, <2>1 DEF Proved
  <2> QED BY <2>2, <2>3, <2>4
<1>16. TaskFits'
  <2>1. task.resume = "" BY <1>1 DEF TaskFits
  <2> QED BY <1>1, <1>9, <1>11, <2>1 DEF TaskFits, Pausable
<1>17. MembersFit' BY <1>1, <1>3, <1>11 DEF MembersFit, Sides
<1>18. BooksAgree'
  <2>1. Cardinality(Units) = N /\ Cardinality({}) = 0 /\ N \in Nat
    BY CountsAssumption, FS_Interval, FS_EmptySet DEF Units
  <2>2. TargetReleased' = TargetReleased BY DEF TargetReleased
  <2> QED BY <1>7, <1>11, <2>1, <2>2 DEF BooksAgree
<1> QED BY <1>10, <1>13, <1>14, <1>15, <1>16, <1>17, <1>18

\* The cancellation before publication gives the whole reservation back.
LEMMA AbortFinishes ==
  ASSUME MigInv, AbortFinish
  PROVE  MigInv'
<1>1. /\ Fenced /\ job = None /\ Cancelling("prepublication") /\ At("stop_source") = "finish"
      /\ UNCHANGED peerVars /\ UNCHANGED <<cancel, undo>>
  BY DEF AbortFinish, Cancelling, Tick, Unchanged, cancelVars
<1>2. answer = None BY <1>1, IdleUnanswered
<1>3. task \in TaskRows BY DEF MigInv, MasterTypes
<1>4. CASE books.reserved = N
  <2>1. task' \in TaskRows /\ task'.state = "cancelled" /\ task'.resume = task.resume
    BY <1>3, <1>4 DEF AbortFinish, TaskRows, Errors
  <2> QED BY <1>1, <1>4, <2>1, AbortCloses DEF AbortFinish
<1>5. CASE books.reserved # N
  <2>1. task' \in TaskRows /\ task'.state = task.state /\ task'.resume = task.resume
    BY <1>3, <1>5 DEF AbortFinish, TaskRows, Errors, Outcomes
  <2>2. TaskIs(task') BY <2>1, TaskStates
  <2>3. Release /\ UNCHANGED <<unit, receipts, books>> /\ NoCall BY <1>5 DEF AbortFinish
  <2> QED BY <1>1, <1>2, <2>1, <2>2, <2>3, Controlled DEF Release, NoCall
<1> QED BY <1>4, <1>5

\* The Master compares the Source's proof with its own catalogue.
LEMMA CatalogTicks ==
  ASSUME MigInv, CatalogTick
  PROVE  MigInv'
<1>1. /\ Fenced /\ job = None /\ task.state = "cancelling" /\ cancel.path = "publication"
      /\ At("query") = "catalog" /\ UNCHANGED peerVars /\ UNCHANGED undo
  BY DEF CatalogTick, Cancelling, Tick, Unchanged
<1>2. CASE Stop("refused") /\ UNCHANGED cancel BY <1>1, <1>2, Stops DEF Errors, Outcomes
<1>3. CASE /\ cancel' = [cancel EXCEPT !.at.step = "release"]
           /\ UNCHANGED <<task, runner, lease, unit, receipts, books>> /\ NoCall
  <2>1. /\ cancel \in Journals /\ undo \in [Units -> UndoRows] /\ receipts \subseteq Sides
        /\ task \in TaskRows /\ runner \in [epoch : Nat \ {0}, live : BOOLEAN]
        /\ lease \in [epoch : Nat, current : BOOLEAN]
    BY DEF MigInv, MasterTypes
  <2>2. /\ cancel' \in Journals /\ cancel'.path = cancel.path /\ cancel'.records = cancel.records
        /\ cancel'.at.step = "release"
    BY <1>3, <2>1 DEF Journals, Places
  <2>3. JournalFits BY <1>1, <1>3, <2>1, <2>2 DEF JournalFits, MigInv, TaskFits
  <2>4. EpochMove BY <1>3 DEF EpochMove, NoCall, MigInv, Flow, EpochsFit
  <2>5. TaskTypes BY <1>3, <2>1 DEF TaskTypes
  <2>6. \A u \in Units : Taken(u)' BY <1>1, <1>3, <2>2 DEF MigInv, UnitsFit, Taken, peerVars
  <2> QED BY <1>1, <1>3, <2>3, <2>4, <2>5, <2>6, JournalWrites DEF NoCall
<1> QED BY <1>2, <1>3 DEF CatalogTick

-----------------------------------------------------------------------------
(* An administrator cancels: no unit was taken back before.                    *)

LEMMA CancelKeeps ==
  ASSUME MigInv, Cancel
  PROVE  MigInv'
<1> USE DEF MigInv, peerVars
<1> DEFINE from == IF task.state \in {"paused", "failed"} THEN task.resume ELSE task.state
<1>1. /\ from \in Pausable
      /\ task' = [state |-> "cancelling", resume |-> "", reason |-> "", error |-> ""]
      /\ cancel' = [cancel EXCEPT !.path = Path(from)] /\ undo' = undo
      /\ Revoke /\ UNCHANGED peerVars /\ UNCHANGED <<net, job, answer, unit, receipts, books>>
  BY DEF Cancel, Controls, callVars
<1>2. cancel.path = "" BY <1>1 DEF TaskFits, Pausable
<1>3. Path(from) \in {"publication", "prepublication"} BY DEF Path
<1>4. Path(from) = "prepublication" => \A u \in Units : unit[u].state = "pending" BY DEF Path
<1> HIDE DEF from
<1>5. cancel \in Journals BY DEF MasterTypes
<1>6. /\ cancel' \in Journals /\ cancel'.path \in {"publication", "prepublication"}
      /\ cancel'.path = "prepublication" => \A u \in Units : unit[u].state = "pending"
      /\ cancel'.at = cancel.at /\ cancel'.records = cancel.records
  BY <1>1, <1>3, <1>4, <1>5 DEF Journals
<1>7. runner \in [epoch : Nat \ {0}, live : BOOLEAN] /\ lease \in [epoch : Nat, current : BOOLEAN]
  BY DEF MasterTypes
<1>8. /\ runner' \in [epoch : Nat \ {0}, live : BOOLEAN] /\ lease' \in [epoch : Nat, current : BOOLEAN]
      /\ runner'.epoch = runner.epoch /\ lease'.epoch = lease.epoch /\ ~lease'.current
  BY <1>1, <1>7 DEF Revoke
<1>9. task' \in TaskRows /\ task'.state = "cancelling" /\ task'.resume = ""
  BY <1>1 DEF TaskRows, Active, Errors
<1>10. MasterTypes' BY <1>1, <1>6, <1>8, <1>9 DEF MasterTypes
<1>11. MasterMove
  <2>1. \A u \in Units : UnitMove(u) BY <1>1, <1>2 DEF UnitMove
  <2>2. EpochMove BY <1>1, <1>8 DEF EpochMove
  <2> QED BY <1>1, <1>2, <1>8, <2>1, <2>2 DEF MasterMove
<1>12. PeerTypes' /\ Flow' /\ RequestsFit' /\ JobFits' /\ MemberRows' /\ AnswerFits'
  BY <1>10, <1>11, MasterCore
<1>13. /\ Uncommitted' = Uncommitted /\ Uncleaned' = Uncleaned
       /\ Moved' = Moved /\ Withdrawn' = Withdrawn
  BY <1>1 DEF Uncommitted, Uncleaned, Moved, Withdrawn
<1>14. LateFits'
  <2>1. Pending' = Pending BY <1>1 DEF Pending
  <2> QED BY <1>1, <2>1 DEF LateFits, Late
<1>15. UnitsFit'
  <2> SUFFICES ASSUME NEW u \in Units PROVE Taken(u)' /\ Given(u)' /\ Proved(u)' BY DEF UnitsFit
  <2>1. Taken(u) /\ Given(u) /\ Proved(u) BY DEF UnitsFit
  <2>2. Taken(u)' BY <1>1, <1>2, <2>1 DEF Taken
  <2>3. Given(u)' BY <1>1, <2>1 DEF Given
  <2>4. Proved(u)' BY <1>1, <1>8, <1>13, <2>1 DEF Proved, TargetProof, SourceProof
  <2> QED BY <2>2, <2>3, <2>4
<1>16. TaskFits' BY <1>1, <1>2, <1>6, <1>8, <1>9 DEF TaskFits, Pausable
<1>17. MembersFit' BY <1>1, <1>9, <1>13 DEF MembersFit
<1>18. BooksAgree'
  <2>1. TargetReleased' = TargetReleased BY <1>1 DEF TargetReleased
  <2> QED BY <1>1, <1>13, <2>1 DEF BooksAgree
<1> QED BY <1>10, <1>12, <1>14, <1>15, <1>16, <1>17, <1>18

-----------------------------------------------------------------------------
(* Answers to a cancellation.                                                  *)

\* A journal written by an answer of its runner.
LEMMA JournalAnswered ==
  ASSUME MigInv, Fenced, answer # None, answer.kind = "ok" \/ job.what # "copy",
         job' = None, answer' = None, Keep \/ Release,
         task' \in TaskRows, task'.state = task.state, task'.resume = task.resume,
         UNCHANGED peerVars, UNCHANGED <<net, unit, receipts, books>>,
         JournalFits, \A u \in Units : Taken(u)'
  PROVE  MigInv'
<1>1. Nobody /\ lease.epoch # 0 BY AnsweredAlone DEF Fenced
<1>2. runner \in [epoch : Nat \ {0}, live : BOOLEAN] /\ lease \in [epoch : Nat, current : BOOLEAN]
  BY DEF MigInv, MasterTypes
<1>3. /\ runner' \in [epoch : Nat \ {0}, live : BOOLEAN] /\ lease' \in [epoch : Nat, current : BOOLEAN]
      /\ runner'.epoch = runner.epoch /\ (lease'.current => lease.current)
      /\ lease' = lease \/ (lease'.epoch = 0 /\ ~lease'.current)
  <2>1. CASE Keep BY <1>2, <2>1 DEF Keep
  <2>2. CASE Release
    <3>1. /\ lease' = NoLease /\ runner' \in {runner, [runner EXCEPT !.live = FALSE]}
      BY <2>2 DEF Release
    <3> QED BY <1>2, <3>1 DEF NoLease
  <2> QED BY <2>1, <2>2
<1>4. EpochMove
  <2>1. UNCHANGED lease => (lease'.epoch = 0 => ~lease'.current) BY DEF MigInv, Flow, EpochsFit
  <2> QED BY <1>1, <1>3, <2>1 DEF EpochMove
<1>5. TaskTypes BY <1>3 DEF TaskTypes
<1> QED BY <1>3, <1>4, <1>5, JournalWrites

\* A cancellation's calls and what their answers are about.
LEMMA CancelJob ==
  ASSUME MigInv, answer # None, job.what \notin Moves
  PROVE  /\ job.what \in Cancels \cup Aborts
         /\ job.what \in UnitCancels => job.unit \in Units
         /\ job.what \in Cancels => cancel.path = "publication"
         /\ job.what \in Aborts => cancel.path = "prepublication"
<1>1. job \in Requests /\ RequestFits(job) /\ Shaped(job) BY AnsweredJob
<1>2. job.what \in Kinds BY <1>1 DEF Requests
<1> QED BY <1>1, <1>2 DEF Kinds, Moves, Forwards, RequestFits, Shaped, UnitCancels

\* What such an answer writes is true of the members, and stays so.
LEMMA JournalIsTrue ==
  ASSUME MigInv, Fenced, answer # None, job.what \notin Moves, Journal,
         answer.kind \in {"ok", "wait"}, ~Waits, UNCHANGED peerVars, UNCHANGED <<unit, receipts>>
  PROVE  JournalFits /\ \A u \in Units : Taken(u)'
<1> DEFINE u == job.unit
<1>1. /\ job.what \in Cancels \cup Aborts /\ (job.what \in UnitCancels => u \in Units)
      /\ job.what \in Cancels => cancel.path = "publication"
      /\ job.what \in Aborts => cancel.path = "prepublication"
  BY CancelJob
<1>2. job \in Requests /\ job.to \in Sides /\ job.epoch \in Nat BY AnsweredJob DEF Requests
<1>3. /\ cancel \in Journals /\ undo \in [Units -> UndoRows] /\ receipts \subseteq Sides
      /\ lease \in [epoch : Nat, current : BOOLEAN]
  BY DEF MigInv, MasterTypes
<1>5. \A v \in Units : Taken(v) BY DEF MigInv, UnitsFit
<1>6. peer' = peer /\ src' = src /\ tgt' = tgt BY DEF peerVars
<1>7. answer.kind = "ok" => Told(job, answer.phase, answer.receipt) BY DEF MigInv, AnswerFits
<1>8. answer.kind = "wait" => job.what = "abort_stop" /\ job.to = "source" BY DEF Waits
<1>9. undo' = undo /\ cancel'.path = cancel.path => \A v \in Units : Taken(v)'
  BY <1>5, <1>6 DEF Taken
<1>10. /\ cancel.at.step \in {"clean_source", "finish"} => peer["target"].state = "aborted"
       /\ cancel.at.step = "finish" => peer["source"].state = "aborted"
       /\ cancel.at.epoch # 0 /\ cancel.path # "prepublication" =>
            cancel.at.step \in {"census", "catalog", "release"}
       /\ \A s \in receipts \cup cancel.records : peer[s].state = "released"
  BY DEF MigInv, TaskFits
<1>11. ASSUME UNCHANGED cancelVars PROVE JournalFits /\ \A v \in Units : Taken(v)'
  BY <1>3, <1>9, <1>10, <1>11 DEF cancelVars, JournalFits
<1>12. ASSUME NEW step \in Places, Next2(step),
              step \in {"clean_source", "finish"} => peer["target"].state = "aborted",
              step = "finish" => peer["source"].state = "aborted",
              cancel.path # "prepublication" => step \in {"census", "catalog", "release"}
       PROVE  JournalFits /\ \A v \in Units : Taken(v)'
  <2>1. cancel' = [cancel EXCEPT !.at = [epoch |-> lease.epoch, step |-> step]] /\ undo' = undo
    BY <1>12 DEF Next2
  <2>2. /\ cancel' \in Journals /\ cancel'.path = cancel.path /\ cancel'.records = cancel.records
        /\ cancel'.at.step = step
    BY <1>3, <2>1 DEF Journals
  <2> QED BY <1>3, <1>9, <1>10, <1>12, <2>1, <2>2 DEF JournalFits
<1>13. ASSUME u \in Units, NEW row \in UndoRows, Learned(u, row),
              row.target => tgt[u].unit \in Gone,
              row.source => src[u].unit \in {"retained", "settled"},
              "source" \in row.settled => src[u].unit = "settled",
              "target" \in row.settled => tgt[u].unit = "settled"
       PROVE  JournalFits /\ \A v \in Units : Taken(v)'
  <2>1. undo' = [undo EXCEPT ![u] = row] /\ cancel' = cancel BY <1>13 DEF Learned
  <2>2. undo' \in [Units -> UndoRows] /\ undo'[u] = row /\ \A v \in Units \ {u} : undo'[v] = undo[v]
    BY <1>3, <1>13, <2>1
  <2>3. JournalFits BY <1>3, <1>10, <2>1, <2>2 DEF JournalFits
  <2>4. ASSUME NEW v \in Units PROVE Taken(v)'
    <3>1. CASE v = u BY <1>5, <1>6, <1>13, <2>1, <2>2, <3>1 DEF Taken
    <3>2. CASE v # u
      <4>1. undo'[v] = undo[v] BY <2>2, <3>2
      <4> QED BY <1>5, <1>6, <2>1, <4>1 DEF Taken
    <3> QED BY <3>1, <3>2
  <2> QED BY <2>3, <2>4
<1>14. CASE job.what = "stop"
  <2>1. StopLearned BY <1>14 DEF Journal
  <2>2. StoppedNow \cup {job.to} \subseteq Sides BY <1>2, <1>3 DEF StoppedNow, Journals
  <2>3. /\ cancel' \in Journals /\ cancel'.path = cancel.path /\ cancel'.records = cancel.records
        /\ cancel'.at = cancel.at /\ undo' = undo
    BY <1>3, <2>1, <2>2 DEF StopLearned, Journals
  <2> QED BY <1>3, <1>9, <1>10, <2>3 DEF JournalFits
<1>15. CASE job.what \in UnitCancels
  <2>1. u \in Units /\ undo[u] \in UndoRows /\ Taken(u) /\ answer.kind = "ok"
    BY <1>1, <1>3, <1>5, <1>8, <1>15 DEF UnitCancels
  <2>2. CASE job.what = "prove"
    <3> DEFINE row == [undo[u] EXCEPT !.proof = job.epoch]
    <3>1. Learned(u, row) BY <2>2 DEF Journal
    <3>2. /\ row \in UndoRows /\ row.target = undo[u].target /\ row.source = undo[u].source
          /\ row.settled = undo[u].settled
      BY <1>2, <2>1 DEF UndoRows
    <3> HIDE DEF row
    <3> QED BY <1>13, <2>1, <3>1, <3>2 DEF Taken
  <2>3. CASE job.what = "undo"
    <3> DEFINE row == [undo[u] EXCEPT !.target = answer.phase = "cancelled"]
    <3>1. Learned(u, row) BY <2>3 DEF Journal
    <3>2. /\ row \in UndoRows /\ row.source = undo[u].source /\ row.settled = undo[u].settled
          /\ row.target => answer.phase = "cancelled"
      BY <2>1 DEF UndoRows
    <3>3. answer.phase = "cancelled" => tgt[u].unit \in Gone BY <1>7, <2>1, <2>3 DEF Told
    <3> HIDE DEF row
    <3> QED BY <1>13, <2>1, <3>1, <3>2, <3>3 DEF Taken
  <2>4. CASE job.what = "retain"
    <3> DEFINE row == [undo[u] EXCEPT !.source = TRUE]
    <3>1. Learned(u, row) BY <2>4 DEF Journal
    <3>2. row \in UndoRows /\ row.target = undo[u].target /\ row.settled = undo[u].settled
      BY <2>1 DEF UndoRows
    <3>3. src[u].unit \in {"retained", "settled"} BY <1>7, <2>1, <2>4 DEF Told
    <3> HIDE DEF row
    <3> QED BY <1>13, <2>1, <3>1, <3>2, <3>3 DEF Taken
  <2>5. CASE job.what = "settle"
    <3> DEFINE row == [undo[u] EXCEPT !.settled = @ \cup {job.to}]
    <3>1. Learned(u, row) BY <2>5 DEF Journal
    <3>2. /\ row \in UndoRows /\ row.target = undo[u].target /\ row.source = undo[u].source
          /\ row.settled = undo[u].settled \cup {job.to}
      BY <1>2, <2>1 DEF UndoRows
    <3>3. IF job.to = "target" THEN tgt[u].unit = "settled" ELSE src[u].unit = "settled"
      BY <1>7, <2>1, <2>5 DEF Told
    <3> HIDE DEF row
    <3> QED BY <1>13, <2>1, <3>1, <3>2, <3>3 DEF Taken
  <2> QED BY <1>15, <2>2, <2>3, <2>4, <2>5 DEF UnitCancels
<1>16. CASE job.what \in {"query", "release", "close"}
  <2>1. ReleaseLearned /\ cancel.path = "publication" /\ answer.kind = "ok"
    BY <1>1, <1>8, <1>16 DEF Journal, Cancels, Closings
  <2>2. CASE answer.phase = "released"
    <3>1. peer[job.to].state = "released" BY <1>7, <1>16, <2>1, <2>2 DEF Told
    <3>2. cancel' = [cancel EXCEPT !.records = @ \cup {job.to}] /\ undo' = undo
      BY <2>1, <2>2 DEF ReleaseLearned, Recorded
    <3>3. /\ cancel' \in Journals /\ cancel'.path = cancel.path /\ cancel'.at = cancel.at
          /\ cancel'.records = cancel.records \cup {job.to}
      BY <1>2, <1>3, <3>2 DEF Journals
    <3> QED BY <1>3, <1>9, <1>10, <3>1, <3>2, <3>3 DEF JournalFits
  <2>3. CASE answer.phase # "released" /\ job.what = "query"
    BY <1>12, <2>1, <2>3 DEF ReleaseLearned, Places
  <2>4. CASE answer.phase # "released" /\ job.what # "query"
    BY <1>11, <2>1, <2>4 DEF ReleaseLearned
  <2> QED BY <2>2, <2>3, <2>4
<1>17. CASE job.what = "census"
  <2>1. CensusLearned /\ cancel.path = "publication" BY <1>1, <1>17 DEF Journal, Cancels, Closings
  <2> QED BY <1>11, <1>12, <2>1 DEF CensusLearned, Places
<1>18. CASE job.what \in Aborts
  <2>1. AbortLearned /\ cancel.path = "prepublication" BY <1>1, <1>18 DEF Journal, Aborts
  <2>2. CASE job.what = "abort_stop" BY <1>12, <2>1, <2>2 DEF AbortLearned, Places
  <2>3. CASE job.what = "abort_clean" /\ answer.phase = "cleaning"
    BY <1>11, <2>1, <2>3 DEF AbortLearned
  <2>4. CASE job.what = "abort_clean" /\ answer.phase # "cleaning"
    <3>1. peer[job.to].state = "aborted" BY <1>7, <1>8, <2>4 DEF Told
    <3>2. peer["source"].state = "aborted" => peer["target"].state = "aborted"
      BY DEF MigInv, MemberRows, AbortFits
    <3> QED BY <1>2, <1>12, <2>1, <2>4, <3>1, <3>2 DEF AbortLearned, Places, Sides
  <2> QED BY <1>18, <2>2, <2>3, <2>4 DEF Aborts
<1> QED BY <1>1, <1>14, <1>15, <1>16, <1>17, <1>18 DEF Cancels, Closings

\* The runner takes up the answer to a call of the cancellation.
LEMMA CancelAnswers ==
  ASSUME MigInv, CancelAnswered
  PROVE  MigInv'
<1>1. /\ answer # None /\ job.what \notin Moves /\ job' = None /\ answer' = None
      /\ UNCHANGED peerVars /\ UNCHANGED <<net, unit, receipts, books>>
  BY DEF CancelAnswered
<1>2. answer.kind \in Outcomes /\ job.what # "copy" BY <1>1, AnsweredJob DEF Moves
<1>3. task \in TaskRows BY DEF MigInv, MasterTypes
<1>4. CASE ~Fenced BY <1>1, <1>4, AnswerEnds DEF CancelAnswered, cancelVars
<1>5. CASE Fenced /\ answer.kind \notin {"ok", "wait"}
  <2>1. /\ Release /\ UNCHANGED cancelVars
        /\ Fail(answer.kind) \/ task' = [task EXCEPT !.error = answer.kind]
    BY <1>5 DEF CancelAnswered
  <2>2. answer.kind \in Errors BY <1>2 DEF Errors
  <2> QED BY <1>1, <1>5, <2>1, <2>2, AnswerEnds DEF cancelVars
<1>6. CASE Fenced /\ answer.kind \in {"ok", "wait"} /\ Waits
  <2>1. Note /\ Release /\ UNCHANGED cancelVars BY <1>6 DEF CancelAnswered
  <2>2. "wait" \in Errors BY DEF Errors, Outcomes
  <2> QED BY <1>1, <2>1, <2>2, AnswerEnds DEF cancelVars, Note
<1>7. CASE Fenced /\ answer.kind \in {"ok", "wait"} /\ ~Waits
  <2>1. /\ Journal
        /\ Keep \/ Release
        /\ task' = IF cancel.path = "publication" THEN [task EXCEPT !.error = ""] ELSE task
    BY <1>7 DEF CancelAnswered
  <2>2. task' \in TaskRows /\ task'.state = task.state /\ task'.resume = task.resume
    BY <1>3, <2>1 DEF TaskRows, Errors
  <2>3. JournalFits /\ \A u \in Units : Taken(u)' BY <1>1, <1>7, <2>1, JournalIsTrue
  <2> QED BY <1>1, <1>2, <1>7, <2>1, <2>2, <2>3, JournalAnswered
<1> QED BY <1>4, <1>5, <1>6, <1>7

-----------------------------------------------------------------------------
(* Every step keeps the invariant.                                             *)

\* The proof an undo waits with runs out.
LEMMA UndoExpires ==
  ASSUME MigInv, UndoProofExpires, UNCHANGED cancel
  PROVE  MigInv'
<1>1. CASE ProofRunsOut("target", "undo") /\ UNCHANGED <<masterVars, undo>>
  <2>1. job' = job BY <1>1 DEF ProofRunsOut
  <2> QED BY <1>1, <2>1, MembersKeep DEF MasterRows, masterVars
<1>2. CASE /\ \E u \in Uncommitted : undo' = [undo EXCEPT ![u].proof = 0]
           /\ UNCHANGED <<masterVars, peerVars, callVars>>
  <2>1. /\ cancel \in Journals /\ undo \in [Units -> UndoRows] /\ receipts \subseteq Sides
        /\ task \in TaskRows /\ runner \in [epoch : Nat \ {0}, live : BOOLEAN]
        /\ lease \in [epoch : Nat, current : BOOLEAN]
    BY DEF MigInv, MasterTypes
  <2>2. PICK u \in Units : undo' = [undo EXCEPT ![u].proof = 0] BY <1>2 DEF Uncommitted
  <2>3. /\ undo' \in [Units -> UndoRows]
        /\ \A v \in Units : /\ undo'[v].target = undo[v].target /\ undo'[v].source = undo[v].source
                            /\ undo'[v].settled = undo[v].settled
    BY <2>1, <2>2 DEF UndoRows
  <2>4. JournalFits BY <1>2, <2>1, <2>3 DEF JournalFits, MigInv, TaskFits, masterVars
  <2>5. EpochMove BY <1>2 DEF EpochMove, MigInv, Flow, EpochsFit, masterVars, callVars
  <2>6. TaskTypes BY <1>2, <2>1 DEF TaskTypes, masterVars
  <2>7. \A v \in Units : Taken(v)'
    BY <1>2, <2>3 DEF MigInv, UnitsFit, Taken, peerVars, masterVars
  <2> QED BY <1>2, <2>4, <2>5, <2>6, <2>7, JournalWrites DEF masterVars, callVars
<1> QED BY <1>1, <1>2 DEF UndoProofExpires

\* No member touches the Master's rows or the call it waits for.
LEMMA MembersAskNobody ==
  ASSUME PeerStep \/ PeerFault
  PROVE  job' = job
BY DEF PeerStep, PeerFault, Receive, Finalize, GiveUp, CopyOpen, FetchBegins, FetchEnds, FetchBreaks, StreamEnds,
       Prepare, PublishStep, MoveDirectory, SaveMove, VerifySource, AcknowledgeTarget, AcknowledgeSource,
       InspectTarget, CleanupBegins, CleanupScan, CleanupEnds, UnlinkIntent, Unlink, RecordUnlink, PeerCrash,
       Lose, CleanupProofExpires, ProofRunsOut, callVars

\* Every step of the migration, its cancellation and its faults keeps the invariant.
LEMMA StepKeeps ==
  ASSUME MigInv, [CancelNext]_allVars
  PROVE  MigInv'
<1>1. CASE Next /\ UNCHANGED <<cancelPeerVars, cancelVars>>
  <2>1. UNCHANGED <<cancel, undo>> BY <1>1 DEF cancelVars
  <2>2. CASE MasterStep
    <3>1. CASE Claim BY <2>1, <3>1, Claims DEF Claim
    <3>2. CASE LoseLease \/ RunnerExpires \/ CallTimesOut BY <2>1, <3>2, LeaseSteps
    <3>3. CASE TrafficPause \/ TrafficResume BY <2>1, <3>3, ControlSteps
    <3>4. CASE Acknowledge \/ CleanupTick \/ FinalizeTick BY <2>1, <3>4, MigrationTicks
    <3>5. CASE CopyTick \/ VerifyTick BY <2>1, <3>5, CopyTicks
    <3>6. CASE CommitTick BY <2>1, <3>6, CommitTicks
    <3>7. CASE Cutover BY <2>1, <3>7, CutoverKeeps
    <3>8. CASE Answered BY <2>1, <3>8, Answers
    <3>9. CASE \E u \in Units : GraceEnds(u) BY <2>1, <3>9, TimePasses
    <3> QED BY <2>2, <3>1, <3>2, <3>3, <3>4, <3>5, <3>6, <3>7, <3>8, <3>9 DEF MasterStep
  <2>3. CASE (PeerStep \/ PeerFault) /\ UNCHANGED masterVars
    BY <2>1, <2>3, MembersAskNobody, MembersKeep DEF MasterRows, masterVars
  <2>4. CASE MasterCrash \/ Traffic BY <2>1, <2>4, LeaseSteps
  <2>5. CASE Pause \/ Resume \/ Retry BY <2>1, <2>5, ControlSteps
  <2>6. CASE \E u \in Units : ProofExpires(u) BY <2>1, <2>6, TimePasses
  <2> QED BY <1>1, <2>2, <2>3, <2>4, <2>5, <2>6 DEF Next
<1>2. CASE Cancel BY <1>2, CancelKeeps
<1>3. CASE CancelMasterStep
  <2>1. CASE ClaimCancel BY <2>1, Claims DEF ClaimCancel, cancelVars
  <2>2. CASE TakeBackTick BY <2>2, TakeBackTicks
  <2>3. CASE MovedTick BY <2>3, MovedTicks
  <2>4. CASE CatalogTick BY <2>4, CatalogTicks
  <2>5. CASE ReleaseTick BY <2>5, ReleaseTicks
  <2>6. CASE AbortTick BY <2>6, AbortTicks
  <2>7. CASE AbortFinish BY <2>7, AbortFinishes
  <2>8. CASE CancelAnswered BY <2>8, CancelAnswers
  <2> QED BY <1>3, <2>1, <2>2, <2>3, <2>4, <2>5, <2>6, <2>7, <2>8 DEF CancelMasterStep
<1>4. CASE CancelPeerStep /\ UNCHANGED cancelVars
  <2>1. UNCHANGED <<masterVars, job>>
    BY <1>4 DEF CancelPeerStep, StopMember, AbortStop, AbortRefused, AbortRelease, ProveRetained, UndoReplay,
       UndoIntent, UndoUnlink, UndoRecord, UndoDirectory, UndoFinish, DiscardIntent, DiscardRecord,
       DiscardFinish, Unwinds, UndoAnswers, Retain, SettleSource, SettleTarget, SourceAnswers, SourceRefuses,
       QueryRelease, CensusStarts, CensusRoster, CensusPhysical, Counts, ReleaseSource, ReleaseTarget,
       AbortIntent, AbortUnlink, AbortRecord, AbortDirectory, Rest
  <2> QED BY <1>4, <2>1, MembersKeep DEF MasterRows, masterVars, cancelVars
<1>5. CASE SourceRestarts /\ UNCHANGED cancelVars
  BY <1>5, MembersKeep DEF SourceRestarts, MasterRows, masterVars, callVars, cancelVars
<1>6. CASE UndoProofExpires /\ UNCHANGED <<cancel, cancelPeerVars>> BY <1>6, UndoExpires
<1>7. CASE UNCHANGED allVars
  <2>1. UNCHANGED peerVars /\ UNCHANGED <<net, job, answer, task, runner, lease, unit, receipts, books, cancel, undo>>
    BY <1>7 DEF allVars, vars, masterVars, callVars, cancelVars
  <2>2. task \in TaskRows /\ TaskIs(task) BY TaskStates DEF MigInv, MasterTypes
  <2> QED BY <2>1, <2>2, Controlled
<1> QED BY <1>1, <1>2, <1>3, <1>4, <1>5, <1>6, <1>7 DEF CancelNext

\* The invariant holds of a task that has just been prepared.
LEMMA InitHolds ==
  ASSUME CancelInit
  PROVE  MigInv
<1>1. N \in Nat \ {0} /\ Units # {}
  <2>1. N \in Nat \ {0} BY CountsAssumption
  <2>2. 1 \in Units BY <2>1 DEF Units
  <2> QED BY <2>1, <2>2
<1>2. /\ peer = [s \in Sides |-> [state |-> "prepared", epoch |-> 1, what |-> "probe"]]
      /\ src = [u \in Units |->
           [unit |-> "pending", receipt |-> 0, file |-> TRUE, entry |-> "none", scan |-> "none", missing |-> FALSE]]
      /\ tgt = [u \in Units |-> [unit |-> "pending", entry |-> "none", file |-> "none"]]
      /\ native = [reserved |-> N, used |-> 0] /\ net = {} /\ work = [s \in Sides |-> None]
      /\ job = None /\ answer = None
  BY DEF CancelInit, Init, PeersInit
<1>3. /\ task = [state |-> "copying", resume |-> "", reason |-> "", error |-> ""]
      /\ unit = [u \in Units |->
           [state |-> "pending", copied |-> FALSE, target |-> 0, source |-> 0, receipt |-> 0,
            acks |-> {}, live |-> 0, grace |-> "none"]]
      /\ receipts = {}
  BY DEF CancelInit, Init
<1>r. runner = [epoch |-> 1, live |-> FALSE] /\ lease = [epoch |-> 0, current |-> FALSE]
  BY DEF CancelInit, Init, NoLease
<1>b. books = [source |-> N, reserved |-> N, target |-> 0] BY DEF CancelInit, Init
<1>4. /\ cancel = [path |-> "", stops |-> [epoch |-> 0, sides |-> {}],
                   at |-> [epoch |-> 0, step |-> "begin"], records |-> {}]
      /\ undo = [u \in Units |-> [proof |-> 0, target |-> FALSE, source |-> FALSE, settled |-> {}]]
  BY DEF CancelInit
<1>5. PeerTypes
  <2>1. [state |-> "prepared", epoch |-> 1, what |-> "probe"] \in Peers BY DEF Peers, Purposes
  <2>2. [unit |-> "pending", receipt |-> 0, file |-> TRUE, entry |-> "none", scan |-> "none", missing |-> FALSE]
          \in SrcRows
    BY DEF SrcRows, SrcStates, Copyable
  <2>3. [unit |-> "pending", entry |-> "none", file |-> "none"] \in TgtRows
    BY DEF TgtRows, TgtStates, Copyable
  <2>4. native \in [reserved : Int, used : Int] BY <1>1, <1>2
  <2> QED BY <1>2, <2>1, <2>2, <2>3, <2>4 DEF PeerTypes
<1>6. MasterTypes
  <2>1. task \in TaskRows BY <1>3 DEF TaskRows, Active, Pausable, Errors
  <2>2. runner \in [epoch : Nat \ {0}, live : BOOLEAN] /\ lease \in [epoch : Nat, current : BOOLEAN]
    BY <1>r
  <2>3. [state |-> "pending", copied |-> FALSE, target |-> 0, source |-> 0, receipt |-> 0,
         acks |-> {}, live |-> 0, grace |-> "none"] \in UnitRows
    BY DEF UnitRows
  <2>4. unit \in [Units -> UnitRows] BY <1>3, <2>3
  <2>5. books \in [source : Int, reserved : Int, target : Int] BY <1>1, <1>b
  <2>6. cancel \in Journals BY <1>4 DEF Journals, Places
  <2>7. [proof |-> 0, target |-> FALSE, source |-> FALSE, settled |-> {}] \in UndoRows BY DEF UndoRows
  <2>8. undo \in [Units -> UndoRows] BY <1>4, <2>7
  <2> QED BY <1>2, <1>3, <2>1, <2>2, <2>4, <2>5, <2>6, <2>8 DEF MasterTypes
<1>7. /\ \A s \in Sides : work[s] = None /\ peer[s].state = "prepared" /\ peer[s].epoch = 1
                                         /\ peer[s].what = "probe"
      /\ \A u \in Units : /\ src[u].unit = "pending" /\ src[u].file /\ src[u].entry = "none"
                           /\ src[u].scan = "none"
                           /\ tgt[u].unit = "pending" /\ tgt[u].entry = "none" /\ tgt[u].file = "none"
                           /\ unit[u].state = "pending" /\ unit[u].target = 0 /\ unit[u].source = 0
                           /\ ~undo[u].target /\ ~undo[u].source /\ undo[u].settled = {}
  BY <1>2, <1>3, <1>4
<1>8. Pending = {} /\ \A s \in Sides : work[s] = None BY <1>2, <1>7 DEF Pending
<1>9. Flow
  <2>1. runner.epoch = 1 /\ lease.epoch = 0 /\ ~lease.current BY <1>r
  <2>0. EpochsFit BY <1>2, <1>7, <1>8, <2>1 DEF EpochsFit
  <2>2. AnswersLast BY <1>2, <1>8 DEF AnswersLast, Sides
  <2>3. BoundFits BY <1>7 DEF BoundFits
  <2>4. WorkFits BY <1>8 DEF WorkFits
  <2> QED BY <2>0, <2>2, <2>3, <2>4 DEF Flow
<1>10. RequestsFit /\ JobFits /\ LateFits BY <1>2, <1>8 DEF RequestsFit, JobFits, LateFits
<1>11. /\ Uncommitted = Units /\ Uncleaned = Units /\ Moved = {} /\ Withdrawn = {}
       /\ TargetReleased = {} /\ {u \in Units : tgt[u].unit = "committed"} = {}
  BY <1>7 DEF Uncommitted, Uncleaned, Moved, Withdrawn, Committed, TargetReleased
<1>12. MemberRows
  <2>1. \A u \in Units : SrcFits(u) BY <1>7 DEF SrcFits, Committed
  <2>2. \A u \in Units : TgtFits(u) BY <1>7 DEF TgtFits, TgtRowFits, Gone, Undone
  <2>3. AbortFits BY <1>7 DEF AbortFits, Sides
  <2>4. CleanupWork /\ TargetWork BY <1>8 DEF CleanupWork, TargetWork, Sides
  <2> QED BY <2>1, <2>2, <2>3, <2>4 DEF MemberRows
<1>13. UnitsFit
  <2> SUFFICES ASSUME NEW u \in Units PROVE Taken(u) /\ Given(u) /\ Proved(u) BY DEF UnitsFit
  <2>1. Taken(u) BY <1>7 DEF Taken
  <2>2. Given(u) BY <1>7 DEF Given, Committed
  <2>3. Proved(u) BY <1>r, <1>7 DEF Proved
  <2> QED BY <2>1, <2>2, <2>3
<1>14. AnswerFits BY <1>2 DEF AnswerFits
<1>15. TaskFits BY <1>1, <1>3, <1>r, <1>4, <1>11 DEF TaskFits, Pausable
<1>16. MembersFit BY <1>3, <1>7 DEF MembersFit, Sides
<1>17. BooksAgree
  <2>1. Cardinality({}) = 0 BY FS_EmptySet
  <2>2. /\ books.source = N /\ books.reserved = N /\ books.target = 0
        /\ native.reserved = N /\ native.used = 0
    BY <1>2, <1>b
  <2>3. /\ Cardinality({u \in Units : tgt[u].unit = "committed"}) = 0
        /\ Cardinality(Moved) = 0 /\ Cardinality(Withdrawn) = 0 /\ Cardinality(TargetReleased) = 0
    BY <1>11, <2>1, Zenon
  <2> QED BY <1>1, <2>2, <2>3 DEF BooksAgree
<1> QED BY <1>5, <1>6, <1>9, <1>10, <1>12, <1>13, <1>14, <1>15, <1>16, <1>17 DEF MigInv

-----------------------------------------------------------------------------
(* The theorems.                                                               *)

\* Whatever is lost, late, repeated, restarted, paused or cancelled: what the
\* Master's rows and the requests under way say of the members is true.
THEOREM MigInvariant == CancelSpec => []MigInv
<1>1. CancelInit => MigInv BY InitHolds
<1>2. MigInv /\ [CancelNext]_allVars => MigInv' BY StepKeeps
<1> QED BY <1>1, <1>2, PTL DEF CancelSpec

\* The Master's counters follow its unit rows and the Target's its own: no
\* retry charges a unit twice, no repeated settlement refunds one twice.
THEOREM BooksAlwaysAgree == CancelSpec => []BooksAgree
<1>1. MigInv => BooksAgree BY DEF MigInv
<1> QED BY <1>1, MigInvariant, PTL

\* Once the Master moved a unit, both members have acknowledged it or still
\* hold the very proof the acknowledgement will be compared with.
THEOREM CommitsAreAckable == CancelSpec => []CommitIsAckable
<1>1. MigInv => CommitIsAckable BY DEF MigInv, UnitsFit, Given, CommitIsAckable
<1> QED BY <1>1, MigInvariant, PTL

\* The way back of a unit: copy gone, original certified, Source settled,
\* Target settled, Master's row last; a unit that moved never takes it.
THEOREM UnitsReturn == CancelSpec => []UnitsReturnInOrder
<1>1. MigInv => UnitsReturnInOrder
  <2> SUFFICES ASSUME MigInv, NEW u \in Units
               PROVE  /\ src[u].unit \in {"retained", "settled"} =>
                           tgt[u].unit \in Gone /\ tgt[u].file = "none" /\ src[u].file
                      /\ tgt[u].unit = "settled" => src[u].unit = "settled"
                      /\ unit[u].state = "cancelled" /\ cancel.path = "publication" =>
                           src[u].unit = "settled" /\ tgt[u].unit = "settled"
                      /\ unit[u].state \in Committed =>
                           tgt[u].unit \in {"published", "committed"} /\ tgt[u].file = "public"
    BY DEF UnitsReturnInOrder
  <2>1. Taken(u) /\ Given(u) /\ SrcFits(u) /\ TgtFits(u) BY DEF MigInv, UnitsFit, MemberRows
  <2>2. src[u] \in SrcRows BY DEF MigInv, PeerTypes
  <2> QED BY <2>1, <2>2 DEF Taken, Given, SrcFits, TgtFits, TgtRowFits, SrcRows
<1> QED BY <1>1, MigInvariant, PTL

\* A unit the Master calls cleaned is gone at the Source and in place at the
\* Target; members are released after the last unit, the Source first.
THEOREM FencesGoInOrder == CancelSpec => []FencesGoLast
<1>1. MigInv => FencesGoLast
  <2> SUFFICES ASSUME MigInv PROVE FencesGoLast OBVIOUS
  <2>1. ASSUME NEW u \in Units, unit[u].state = "cleaned"
        PROVE  src[u].unit = "cleaned" /\ src[u].entry = "deleted" /\ ~src[u].file /\ tgt[u].file = "public"
    <3>1. Given(u) /\ SrcFits(u) BY DEF MigInv, UnitsFit, MemberRows
    <3> QED BY <2>1, <3>1 DEF Given, SrcFits, Committed
  <2>2. MembersFit BY DEF MigInv
  <2> QED BY <2>1, <2>2 DEF FencesGoLast, MembersFit
<1> QED BY <1>1, MigInvariant, PTL

\* A cancelled task leaves no reservation, no staged byte, no member that
\* believes it takes part; and members are let go in that order.
THEOREM NothingIsLeft == CancelSpec => []CancelledLeavesNothing
<1>1. MigInv => CancelledLeavesNothing
  <2> SUFFICES ASSUME MigInv PROVE CancelledLeavesNothing OBVIOUS
  <2>1. MembersFit /\ AbortFits /\ TaskFits /\ BooksAgree BY DEF MigInv, MemberRows
  <2>2. \A u \in Units : TgtFits(u) /\ Taken(u) /\ Given(u) BY DEF MigInv, MemberRows, UnitsFit
  <2>3. peer["target"].state = "aborted" => native.reserved = 0 /\ \A u \in Units : tgt[u].file = "none"
    BY <2>1, <2>2 DEF AbortFits, Unswept, TgtFits, TgtRowFits
  <2>4. ASSUME task.state = "cancelled"
        PROVE  /\ \A s \in Sides :
                    peer[s].state = IF cancel.path = "prepublication" THEN "aborted" ELSE "released"
               /\ Uncommitted = {} /\ Uncleaned = {} /\ cancel.path # ""
    BY <2>1, <2>4 DEF MembersFit, TaskFits, Pausable
  <2>5. ASSUME task.state = "cancelled" PROVE books.reserved = 0
    <3>1. PICK m, w \in Nat : m = Cardinality(Moved) /\ w = Cardinality(Withdrawn) /\ m + w = N
      BY <2>4, <2>5, ClosedCounts
    <3> QED BY <2>1, <3>1, CountsAssumption DEF BooksAgree
  <2>6. ASSUME task.state = "cancelled", NEW u \in Units
        PROVE  tgt[u].file = "public" <=> unit[u].state = "cleaned"
    <3>1. unit[u].state \in {"cleaned", "cancelled"} BY <2>4, <2>6 DEF Uncleaned
    <3>2. CASE unit[u].state = "cleaned" BY <2>2, <3>2 DEF Given, Committed
    <3>3. CASE unit[u].state = "cancelled"
      <4>1. CASE tgt[u].unit = "settled" BY <2>2, <3>3, <4>1 DEF TgtFits, TgtRowFits, Gone
      <4>2. CASE peer["target"].state = "aborted" BY <2>3, <3>3, <4>2
      <4> QED BY <2>2, <3>3, <4>1, <4>2 DEF Taken, Sides
    <3> QED BY <3>1, <3>2, <3>3
  <2>7. task.state = "cancelled" => native.reserved = 0 BY <2>1, <2>3, <2>4 DEF MembersFit, Sides
  <2> QED BY <2>1, <2>3, <2>4, <2>5, <2>6, <2>7
          DEF CancelledLeavesNothing, MembersFit, AbortFits, Sides
<1> QED BY <1>1, MigInvariant, PTL

\* A paused, failed, completed or cancelled task stands still on the Master:
\* no answer to an earlier call changes ownership, proofs or books.
THEOREM StopsHold == CancelSpec => StoppedMeansStill
<1> DEFINE Still ==
      task.state \notin Active /\ task'.state = task.state
        => /\ UNCHANGED <<receipts, books>>
           /\ \A u \in Units : \A field \in {"state", "copied", "receipt", "acks"} :
                unit'[u][field] = unit[u][field]
<1>1. MigInv /\ [CancelNext]_allVars => [Still]_vars
  <2> SUFFICES ASSUME MigInv, [CancelNext]_allVars, task.state \notin Active, task'.state = task.state
               PROVE  UNCHANGED <<receipts, books, unit>> \/ Still
    OBVIOUS
  <2>1. ~Fenced BY DEF Fenced
  <2>2. CASE Next /\ UNCHANGED <<cancelPeerVars, cancelVars>>
    <3>1. CASE Claim \/ LoseLease \/ RunnerExpires \/ TrafficPause \/ TrafficResume \/ MasterCrash \/ Pause
               \/ Resume \/ Retry \/ Traffic \/ CallTimesOut
      BY <3>1 DEF Claim, ClaimTask, LoseLease, RunnerExpires, TrafficPause, TrafficResume, MasterCrash, Pause,
                  Resume, Retry, Traffic, CallTimesOut, Controls
    <3>2. CASE Acknowledge \/ CopyTick \/ VerifyTick \/ CommitTick \/ CleanupTick \/ FinalizeTick
      BY <2>1, <3>2 DEF Acknowledge, CopyTick, VerifyTick, CommitTick, CleanupTick, FinalizeTick, Tick
    <3>3. CASE Cutover BY <2>1, <3>3 DEF Cutover
    <3>4. CASE Answered BY <2>1, <3>4 DEF Answered
    <3>5. ASSUME NEW u \in Units, GraceEnds(u) \/ ProofExpires(u) PROVE Still
      <4>1. unit \in [Units -> UnitRows] /\ unit[u] \in UnitRows BY DEF MigInv, MasterTypes
      <4>2. UNCHANGED <<receipts, books>> BY <3>5 DEF GraceEnds, ProofExpires
      <4>3. CASE GraceEnds(u) BY <4>1, <4>2, <4>3 DEF GraceEnds, UnitRows
      <4>4. CASE ProofExpires(u)
        <5>1. PICK proof \in {"target", "source", "live"} : unit' = [unit EXCEPT ![u][proof] = 0]
          BY <4>4 DEF ProofExpires
        <5> QED BY <4>1, <4>2, <5>1 DEF UnitRows
      <4> QED BY <3>5, <4>3, <4>4
    <3>6. CASE (PeerStep \/ PeerFault) /\ UNCHANGED masterVars BY <3>6 DEF masterVars
    <3> QED BY <2>2, <3>1, <3>2, <3>3, <3>4, <3>5, <3>6 DEF Next, MasterStep
  <2>3. CASE Cancel BY <2>3 DEF Cancel, Controls
  <2>4. CASE CancelMasterStep
    <3>1. CASE ClaimCancel BY <3>1 DEF ClaimCancel, ClaimTask
    <3>2. CASE TakeBackTick \/ MovedTick \/ CatalogTick \/ ReleaseTick \/ AbortTick \/ AbortFinish
      BY <2>1, <3>2 DEF TakeBackTick, MovedTick, CatalogTick, ReleaseTick, AbortTick, AbortFinish, Cancelling, Tick
    <3>3. CASE CancelAnswered BY <3>3 DEF CancelAnswered
    <3> QED BY <2>4, <3>1, <3>2, <3>3 DEF CancelMasterStep
  <2>5. CASE CancelPeerStep /\ UNCHANGED cancelVars
    BY <2>5 DEF CancelPeerStep, StopMember, AbortStop, AbortRefused, AbortRelease, ProveRetained, UndoReplay,
       UndoIntent, UndoUnlink, UndoRecord, UndoDirectory, UndoFinish, DiscardIntent, DiscardRecord,
       DiscardFinish, Unwinds, UndoAnswers, Retain, SettleSource, SettleTarget, SourceAnswers, SourceRefuses,
       QueryRelease, CensusStarts, CensusRoster, CensusPhysical, Counts, ReleaseSource, ReleaseTarget,
       AbortIntent, AbortUnlink, AbortRecord, AbortDirectory, Rest, masterVars
  <2>6. CASE SourceRestarts BY <2>6 DEF SourceRestarts, masterVars
  <2>7. CASE UndoProofExpires BY <2>7 DEF UndoProofExpires, masterVars
  <2>8. CASE UNCHANGED allVars BY <2>8 DEF allVars, vars, masterVars
  <2> QED BY <2>2, <2>3, <2>4, <2>5, <2>6, <2>7, <2>8 DEF CancelNext
<1> QED BY <1>1, MigInvariant, PTL DEF CancelSpec, StoppedMeansStill

-----------------------------------------------------------------------------
(* The migration implements the handover.                                      *)

\* The Master's rows say the same of every unit: who owns it, is it given up?
SameOwners ==
  \A u \in Units : /\ unit'[u].state \in Committed <=> unit[u].state \in Committed
                   /\ unit'[u].state = "cancelled" <=> unit[u].state = "cancelled"

\* A step that moves no owner and no file is invisible in Handover.
LEMMA SameStutters ==
  ASSUME SameOwners, UNCHANGED peerVars
  PROVE  UNCHANGED Promise!handoverVars
<1>1. Withdrawn' = Withdrawn BY DEF SameOwners, Withdrawn
<1> QED BY <1>1 DEF SameOwners, Promise!handoverVars, peerVars

\* A step of a member touches the files of one unit, or erases an original.
LEMMA OneRow ==
  ASSUME NEW f, NEW g, NEW u, NEW row, NEW S, f \in [Units -> S], g = [f EXCEPT ![u] = row]
  PROVE  \E v \in Units : \A w \in Units \ {v} : g[w] = f[w]
<1>1. 1 \in Units BY CountsAssumption DEF Units
<1>2. CASE u \in Units BY <1>2
<1>3. CASE u \notin Units BY <1>1, <1>3
<1> QED BY <1>2, <1>3

FilesOfOne ==
  /\ \A u \in Units : src'[u].file = src[u].file
  /\ \E v \in Units : \A w \in Units \ {v} : tgt'[w].file = tgt[w].file

\* A step of a member writes the files of at most one unit.
LEMMA MembersTouchOne ==
  ASSUME PeerTypes,
         PeerStep \/ PeerFault \/ CancelPeerStep \/ SourceRestarts \/ ProofRunsOut("target", "undo")
  PROVE  FilesOfOne \/ Unlink
<1>1. 1 \in Units BY CountsAssumption DEF Units
<1>2. src \in [Units -> SrcRows] /\ tgt \in [Units -> TgtRows] BY DEF PeerTypes
<1>3. ASSUME UNCHANGED src, UNCHANGED tgt PROVE FilesOfOne BY <1>1, <1>3 DEF FilesOfOne
<1>4. ASSUME NEW s \in Sides, NEW r, Bind(s, r) PROVE FilesOfOne
  <2>1. \A u \in Units : src'[u].file = src[u].file /\ tgt'[u].file = tgt[u].file
    BY <1>2, <1>4 DEF Bind, SrcRows, TgtRows
  <2> QED BY <1>1, <2>1 DEF FilesOfOne
<1>5. CASE \E r \in net : Receive(r)
  <2>1. PICK r \in net : Receive(r) BY <1>5
  <2>2. r.to \in Sides BY DEF PeerTypes, Requests
  <2> QED BY <1>3, <1>4, <2>1, <2>2 DEF Receive, peerVars
<1>6. CASE FetchBegins BY <1>3, <1>4, <1>6 DEF FetchBegins, Sides
<1>7. CASE \/ \E s \in Sides : Finalize(s) \/ GiveUp(s)
           \/ FetchBreaks \/ StreamEnds \/ InspectTarget \/ PeerFault
           \/ SourceRestarts \/ ProofRunsOut("target", "undo")
  BY <1>3, <1>7 DEF Finalize, GiveUp, FetchBreaks, StreamEnds, InspectTarget, PeerFault, PeerCrash, Lose,
     CleanupProofExpires, ProofRunsOut, SourceRestarts, peerVars
<1>16. ASSUME NEW x, NEW a, NEW field \in {"unit", "entry"}, src' = [src EXCEPT ![x][field] = a]
       PROVE  \A u \in Units : src'[u].file = src[u].file
  <2> SUFFICES ASSUME NEW u \in Units PROVE src'[u].file = src[u].file OBVIOUS
  <2>1. CASE u # x BY <1>2, <1>16, <2>1
  <2>2. CASE u = x BY <1>2, <1>16, <2>2 DEF SrcRows
  <2> QED BY <2>1, <2>2
<1>8. CASE VerifySource \/ AcknowledgeSource \/ CleanupBegins \/ CleanupScan \/ CleanupEnds \/ UnlinkIntent
           \/ RecordUnlink \/ ProveRetained \/ Retain \/ SettleSource
  <2>1. UNCHANGED tgt
    BY <1>8 DEF VerifySource, AcknowledgeSource, CleanupBegins, CleanupScan, CleanupEnds, UnlinkIntent, RecordUnlink,
       ProveRetained, Retain, SettleSource, SourceAnswers, SourceRefuses
  <2>2. CASE VerifySource \/ ProveRetained
    <3>1. CASE UNCHANGED src BY <1>3, <2>1, <3>1
    <3>2. CASE src' # src
      <4> DEFINE u == work["source"].req.unit
      <4>1. PICK n : src' = [src EXCEPT ![u].unit = "verified", ![u].receipt = n]
        BY <2>2, <3>2 DEF VerifySource, ProveRetained
      <4>2. \A v \in Units : src'[v].file = src[v].file BY <1>2, <4>1 DEF SrcRows
      <4> QED BY <1>1, <2>1, <4>2 DEF FilesOfOne
    <3> QED BY <3>1, <3>2
  <2>3. CASE AcknowledgeSource \/ CleanupBegins \/ CleanupEnds \/ UnlinkIntent
    <3>1. \A u \in Units : src'[u].file = src[u].file
      BY <1>2, <1>16, <2>3 DEF AcknowledgeSource, CleanupBegins, CleanupEnds, UnlinkIntent
    <3> QED BY <1>1, <2>1, <3>1 DEF FilesOfOne
  <2>4. CASE Retain \/ SettleSource
    <3>1. \A u \in Units : src'[u].file = src[u].file
      BY <1>2, <1>16, <2>4 DEF Retain, SettleSource, SourceAnswers, SourceRefuses
    <3> QED BY <1>1, <2>1, <3>1 DEF FilesOfOne
  <2>5. CASE CleanupScan \/ RecordUnlink
    <3>1. \A u \in Units : src'[u].file = src[u].file
      <4>1. CASE UNCHANGED src BY <4>1
      <4>2. CASE src' # src
        <5> DEFINE u == work["source"].req.unit
        <5>1. CASE CleanupScan
          <6> DEFINE a == IF src[u].entry = "deleted" THEN "final" ELSE "ready"
                     b == src[u].entry = "deleting" /\ ~src[u].file
          <6>1. src' = [src EXCEPT ![u].scan = a, ![u].missing = b] BY <4>2, <5>1 DEF CleanupScan
          <6> HIDE DEF a, b, u
          <6> QED BY <1>2, <6>1 DEF SrcRows
        <5>2. CASE RecordUnlink
          <6>1. src' = [src EXCEPT ![u].entry = "deleted", ![u].scan = "none", ![u].missing = FALSE]
            BY <5>2 DEF RecordUnlink
          <6> QED BY <1>2, <6>1 DEF SrcRows
        <5> QED BY <2>5, <5>1, <5>2
      <4> QED BY <4>1, <4>2
    <3> QED BY <1>1, <2>1, <3>1 DEF FilesOfOne
  <2> QED BY <1>8, <2>2, <2>3, <2>4, <2>5
<1>9. ASSUME UNCHANGED src, NEW u, \A w \in Units \ {u} : tgt'[w].file = tgt[w].file PROVE FilesOfOne
  <2>1. CASE u \in Units BY <1>9, <2>1 DEF FilesOfOne
  <2>2. CASE u \notin Units BY <1>1, <1>9, <2>2 DEF FilesOfOne
  <2> QED BY <2>1, <2>2
<1>10. CASE CopyOpen \/ FetchEnds \/ Prepare \/ PublishStep \/ MoveDirectory \/ SaveMove \/ AcknowledgeTarget
  <2>1. UNCHANGED src
    BY <1>10 DEF CopyOpen, FetchEnds, Prepare, PublishStep, MoveDirectory, SaveMove, AcknowledgeTarget
  <2> DEFINE u == work["target"].req.unit
  <2>2. \A w \in Units \ {u} : tgt'[w].file = tgt[w].file
    BY <1>2, <1>10 DEF CopyOpen, FetchEnds, Prepare, PublishStep, MoveDirectory, SaveMove, AcknowledgeTarget
  <2> QED BY <1>9, <2>1, <2>2
<1>11. CASE UndoReplay \/ UndoIntent \/ UndoUnlink \/ UndoRecord \/ UndoDirectory \/ UndoFinish
            \/ DiscardIntent \/ DiscardRecord \/ DiscardFinish \/ SettleTarget
  <2>1. UNCHANGED src
    BY <1>11 DEF UndoReplay, UndoIntent, UndoUnlink, UndoRecord, UndoDirectory, UndoFinish, DiscardIntent,
       DiscardRecord, DiscardFinish, SettleTarget, Unwinds, UndoAnswers
  <2> DEFINE u == work["target"].req.unit
  <2>2. \A w \in Units \ {u} : tgt'[w].file = tgt[w].file
    BY <1>2, <1>11 DEF UndoReplay, UndoIntent, UndoUnlink, UndoRecord, UndoDirectory, UndoFinish, DiscardIntent,
       DiscardRecord, DiscardFinish, SettleTarget, Unwinds, UndoAnswers, Undoing
  <2> QED BY <1>9, <2>1, <2>2
<1>12. CASE AbortIntent \/ AbortUnlink \/ AbortRecord \/ AbortDirectory
  <2>1. UNCHANGED src BY <1>12 DEF AbortIntent, AbortUnlink, AbortRecord, AbortDirectory
  <2>2. \E u \in {First(Staged), First(Unswept)} : \A w \in Units \ {u} : tgt'[w].file = tgt[w].file
    BY <1>2, <1>12 DEF AbortIntent, AbortUnlink, AbortRecord, AbortDirectory
  <2> QED BY <1>9, <2>1, <2>2
<1>13. CASE \/ \E s \in Sides : StopMember(s) \/ AbortStop(s) \/ AbortRefused(s) \/ AbortRelease(s)
            \/ QueryRelease \/ CensusStarts \/ CensusRoster \/ CensusPhysical \/ ReleaseSource \/ ReleaseTarget
  BY <1>3, <1>13 DEF StopMember, AbortStop, AbortRefused, AbortRelease, QueryRelease, CensusStarts, CensusRoster,
     CensusPhysical, Counts, ReleaseSource, ReleaseTarget, SourceRefuses
<1> QED BY <1>5, <1>6, <1>7, <1>8, <1>10, <1>11, <1>12, <1>13 DEF PeerStep, CancelPeerStep

\* Only open units change at the Target: a unit that moved has its copy, one
\* given up has none.
CopiesFit ==
  \A u \in Units :
    /\ unit[u].state \in Committed => tgt[u].file = "public"
    /\ unit[u].state = "cancelled" => tgt[u].file = "none"

\* A committed unit is published at the Target, a cancelled one has nothing there.
LEMMA CopiesFitIts == MigInv => CopiesFit
<1> SUFFICES ASSUME MigInv, NEW u \in Units
             PROVE  /\ unit[u].state \in Committed => tgt[u].file = "public"
                    /\ unit[u].state = "cancelled" => tgt[u].file = "none"
  BY DEF CopiesFit
<1>1. Given(u) /\ Taken(u) /\ TgtFits(u) BY DEF MigInv, MemberRows, UnitsFit
<1>2. CASE tgt[u].unit = "settled" BY <1>1, <1>2 DEF Given, TgtFits, TgtRowFits, Gone
<1>3. CASE peer["target"].state = "aborted"
  <2>1. tgt[u].entry = "removed" BY <1>3 DEF MigInv, MemberRows, AbortFits, Unswept
  <2> QED BY <1>1, <2>1 DEF Given, TgtFits, TgtRowFits
<1> QED BY <1>1, <1>2, <1>3 DEF Given, Taken, Sides

\* The same of the state after a step.
LEMMA CopiesFitAfter == (MigInv => CopiesFit)'
BY CopiesFitIts, PTL

\* A member's step: one copy appears or goes, or one original is erased.
LEMMA MembersImplement ==
  ASSUME MigInv, MigInv', UNCHANGED unit,
         PeerStep \/ PeerFault \/ CancelPeerStep \/ SourceRestarts \/ ProofRunsOut("target", "undo")
  PROVE  [Promise!Next]_(Promise!handoverVars)
<1>1. PeerTypes /\ CopiesFit /\ CopiesFit'
  BY CopiesFitIts, CopiesFitAfter DEF MigInv
<1>2. Withdrawn' = Withdrawn BY DEF Withdrawn
<1>3. CASE FilesOfOne
  <2>1. PICK v \in Units : \A w \in Units \ {v} : tgt'[w].file = tgt[w].file BY <1>3 DEF FilesOfOne
  <2>2. CASE tgt'[v].file = "public" <=> tgt[v].file = "public"
    <3>1. \A u \in Units : src'[u].file = src[u].file BY <1>3 DEF FilesOfOne
    <3>2. \A u \in Units : (tgt'[u].file = "public") = (tgt[u].file = "public") BY <2>1, <2>2
    <3> QED BY <1>2, <3>1, <3>2 DEF Promise!handoverVars
  <2>3. CASE ~(tgt'[v].file = "public" <=> tgt[v].file = "public")
    <3>1. unit[v].state \notin Committed /\ v \notin Withdrawn
      BY <1>1, <2>3 DEF CopiesFit, Withdrawn
    <3>2. \A u \in Units : src'[u].file = src[u].file BY <1>3 DEF FilesOfOne
    <3>3. Promise!Publish(v)
      BY <1>2, <2>1, <2>3, <3>1, <3>2 DEF Promise!Publish, Promise!Open
    <3> QED BY <3>3 DEF Promise!Next
  <2> QED BY <2>2, <2>3
<1>4. CASE Unlink
  <2> DEFINE r == work["source"].req
  <2>1. work["source"] # None /\ r.what = "cleanup" BY <1>4 DEF Unlink, Cleaning, Acts, Serving, Idle
  <2>2. r \in Pending BY <1>1, <2>1, WorkIsRequest DEF Sides
  <2>3. PICK u \in Units : u = r.unit BY <2>1, <2>2 DEF MigInv, RequestsFit, RequestFits, Shaped
  <2>4. unit[u].state \in Committed /\ Uncommitted = {}
    BY <2>1, <2>2, <2>3 DEF MigInv, RequestsFit, RequestFits
  <2>5. \A w \in Units : w \in Withdrawn \/ (unit[w].state \in Committed /\ tgt[w].file = "public")
    BY <1>1, <2>4 DEF CopiesFit, Uncommitted, Withdrawn
  <2>6. src \in [Units -> SrcRows] /\ src[u] \in SrcRows /\ UNCHANGED tgt BY <1>1, <1>4 DEF PeerTypes, Unlink
  <2>7. CASE src' = [src EXCEPT ![u].scan = "none"]
    <3>1. \A w \in Units : src'[w].file = src[w].file BY <2>6, <2>7 DEF SrcRows
    <3> QED BY <1>2, <2>6, <3>1 DEF Promise!handoverVars
  <2>8. CASE src' = [src EXCEPT ![u].file = FALSE]
    <3>1. src'[u].file = FALSE /\ \A w \in Units \ {u} : src'[w].file = src[w].file
      BY <2>6, <2>8 DEF SrcRows
    <3>2. CASE src[u].file = FALSE
      <4>1. \A w \in Units : src'[w].file = src[w].file BY <3>1, <3>2
      <4> QED BY <1>2, <2>6, <4>1 DEF Promise!handoverVars
    <3>3. CASE src[u].file = TRUE
      <4>1. Promise!Erase(u) BY <1>2, <2>4, <2>5, <2>6, <3>1, <3>3 DEF Promise!Erase
      <4> QED BY <4>1 DEF Promise!Next
    <3>4. src[u].file \in BOOLEAN BY <2>6 DEF SrcRows
    <3> QED BY <3>2, <3>3, <3>4
  <2> QED BY <1>4, <2>3, <2>7, <2>8 DEF Unlink
<1> QED BY <1>1, <1>3, <1>4, MembersTouchOne

\* The Master's steps that leave the unit rows alone.
LEMMA RowsAlone ==
  ASSUME \/ Claim \/ LoseLease \/ RunnerExpires \/ TrafficPause \/ TrafficResume \/ MasterCrash \/ Pause
         \/ Resume \/ Retry \/ Traffic \/ CallTimesOut \/ Acknowledge \/ CopyTick \/ VerifyTick \/ CommitTick
         \/ CleanupTick \/ FinalizeTick \/ Cancel \/ ClaimCancel \/ MovedTick \/ CatalogTick \/ ReleaseTick
         \/ AbortTick \/ CancelAnswered
  PROVE  UNCHANGED unit /\ UNCHANGED peerVars
<1>1. CASE Claim \/ LoseLease \/ RunnerExpires \/ TrafficPause \/ TrafficResume \/ MasterCrash \/ Pause
           \/ Resume \/ Retry \/ Traffic \/ CallTimesOut \/ Cancel \/ ClaimCancel
  BY <1>1 DEF Claim, ClaimCancel, ClaimTask, LoseLease, RunnerExpires, TrafficPause, TrafficResume, MasterCrash,
     Pause, Resume, Retry, Traffic, CallTimesOut, Cancel, Controls
<1>2. CASE Acknowledge \/ CopyTick \/ VerifyTick \/ CommitTick
  BY <1>2 DEF Acknowledge, AcknowledgeOne, CopyTick, VerifyTick, CommitTick, Call, Checkpoint, Stop
<1>3. CASE CleanupTick \/ FinalizeTick
  BY <1>3 DEF CleanupTick, CleanupStep, FinalizeTick, FinalizeStep, Call, Checkpoint, Stop
<1>4. CASE MovedTick
  BY <1>4 DEF MovedTick, AcknowledgeOne, CleanupStep, FinalizeStep, Call, Checkpoint, Stop, Delay, Unchanged
<1>5. CASE CatalogTick \/ ReleaseTick \/ AbortTick \/ CancelAnswered
  BY <1>5 DEF CatalogTick, ReleaseTick, AbortTick, CancelAnswered, Call, Stop, Delay, CloseTask, Unchanged
<1> QED BY <1>1, <1>2, <1>3, <1>4, <1>5

\* Answers and clocks rewrite a row without giving the unit away or up.
LEMMA RowsOwned ==
  ASSUME MigInv, Answered \/ \E u \in Units : GraceEnds(u) \/ ProofExpires(u)
  PROVE  SameOwners /\ UNCHANGED peerVars
<1>1. unit \in [Units -> UnitRows] BY DEF MigInv, MasterTypes
<1>2. ASSUME UNCHANGED unit PROVE SameOwners BY <1>2 DEF SameOwners
<1>3. ASSUME NEW u \in Units, GraceEnds(u) \/ ProofExpires(u) PROVE SameOwners /\ UNCHANGED peerVars
  <2>1. CASE GraceEnds(u) BY <1>1, <2>1 DEF GraceEnds, SameOwners, UnitRows
  <2>2. CASE ProofExpires(u)
    <3>1. PICK proof \in {"target", "source", "live"} : unit' = [unit EXCEPT ![u][proof] = 0]
      BY <2>2 DEF ProofExpires
    <3> QED BY <1>1, <2>2, <3>1 DEF ProofExpires, SameOwners, UnitRows
  <2> QED BY <1>3, <2>1, <2>2
<1>4. CASE Answered
  <2>1. UNCHANGED peerVars /\ answer # None /\ job.what \in Moves BY <1>4 DEF Answered
  <2>2. CASE unit' = [unit EXCEPT ![job.unit] = Written(@)] /\ job.what # "finalize"
    <3>1. /\ job.unit \in Units /\ RequestFits(job)
          /\ job.what \in {"copy", "publish", "verify"} => job.unit \in Uncommitted
      BY <2>1, <2>2, AnsweredJob DEF Moves, Shaped, MigInv, JobFits, Forwards
    <3>2. PICK u \in Units : u = job.unit BY <3>1
    <3>3. unit[u] \in UnitRows /\ unit' = [unit EXCEPT ![u] = Written(unit[u])] BY <1>1, <2>2, <3>2
    <3>4. /\ Written(unit[u]).state \in Committed <=> unit[u].state \in Committed
          /\ Written(unit[u]).state = "cancelled" <=> unit[u].state = "cancelled"
      <4>1. CASE job.what \in {"copy", "verify", "commit", "inspect"}
        BY <3>3, <4>1 DEF Written, UnitRows
      <4>2. CASE job.what = "publish"
        BY <3>1, <3>2, <3>3, <4>2 DEF Written, UnitRows, Uncommitted, Committed
      <4>3. CASE job.what = "cleanup"
        BY <3>1, <3>2, <3>3, <4>3 DEF Written, UnitRows, RequestFits, Committed
      <4> QED BY <2>1, <2>2, <4>1, <4>2, <4>3 DEF Moves
    <3>5. unit'[u] = Written(unit[u]) /\ \A v \in Units \ {u} : unit'[v] = unit[v] BY <1>1, <3>3
    <3> QED BY <2>1, <3>4, <3>5 DEF SameOwners
  <2> QED BY <1>2, <1>4, <2>1, <2>2 DEF Answered
<1> QED BY <1>3, <1>4

\* The cutover moves a unit between two complete copies.
LEMMA CutoverSwitches ==
  ASSUME MigInv, Cutover
  PROVE  [Promise!Next]_(Promise!handoverVars)
<1>1. UNCHANGED peerVars BY DEF Cutover
<1>2. CASE UNCHANGED unit BY <1>1, <1>2, SameStutters DEF SameOwners
<1>3. CASE /\ Fenced /\ Fresh(unit[job.unit].target) /\ Fresh(unit[job.unit].source)
           /\ unit' = [unit EXCEPT ![job.unit].state = "committed", ![job.unit].grace = "running"]
  <2>1. job # None /\ job.what = "cutover"
    <3>1. CuttingOver BY DEF Cutover
    <3> QED BY <3>1 DEF CuttingOver, None
  <2>2. PICK u \in Uncommitted : u = job.unit BY <2>1 DEF MigInv, JobFits
  <2>3. u \in Units /\ unit[u].state \notin Committed /\ u \notin Withdrawn /\ unit \in [Units -> UnitRows]
    BY <2>2 DEF Uncommitted, Withdrawn, MigInv, MasterTypes
  <2>4. lease.epoch = runner.epoch BY <1>3 DEF Fenced
  <2>5. TargetProof(u, runner.epoch) /\ SourceProof(u, runner.epoch, unit[u].receipt)
    BY <1>3, <2>2, <2>3, <2>4 DEF MigInv, UnitsFit, Proved, Fresh
  <2>6. SrcFits(u) /\ TgtFits(u) /\ src[u] \in SrcRows BY <2>3 DEF MigInv, MemberRows, PeerTypes
  <2>7. src[u].file /\ tgt[u].file = "public"
    BY <2>5, <2>6 DEF SrcFits, TgtFits, TgtRowFits, TargetProof, SourceProof
  <2>8. /\ unit'[u].state = "committed" /\ \A v \in Units \ {u} : unit'[v] = unit[v]
    BY <1>3, <2>2, <2>3 DEF UnitRows
  <2>9. Withdrawn' = Withdrawn BY <2>3, <2>8 DEF Withdrawn
  <2>10. UNCHANGED <<src, tgt>> BY <1>1 DEF peerVars
  <2>11. Promise!Switch(u)
    BY <2>3, <2>7, <2>8, <2>9, <2>10 DEF Promise!Switch, Promise!Open, Committed
  <2> QED BY <2>3, <2>11 DEF Promise!Next
<1> QED BY <1>2, <1>3 DEF Cutover

\* Taking a unit back gives it up, and so does the end of an early cancellation.
LEMMA TakingBackAbandons ==
  ASSUME MigInv, TakeBackTick
  PROVE  [Promise!Next]_(Promise!handoverVars)
<1>1. UNCHANGED peerVars /\ Uncommitted # {} BY DEF TakeBackTick, Unchanged
<1>2. CASE UNCHANGED unit BY <1>1, <1>2, SameStutters DEF SameOwners
<1>3. PICK u : u = First(Uncommitted) OBVIOUS
<1>4. u \in Units /\ u \in Uncommitted BY <1>1, <1>3, OpenUnit
<1>5. CASE undo[u].settled = Sides /\ unit' = [unit EXCEPT ![u].state = "cancelled"]
  <2>1. unit[u].state \notin Committed /\ u \notin Withdrawn /\ unit \in [Units -> UnitRows]
    BY <1>4 DEF Uncommitted, Withdrawn, MigInv, MasterTypes
  <2>2. src[u].unit = "settled" /\ tgt[u].unit = "settled"
    BY <1>4, <1>5 DEF MigInv, UnitsFit, Taken, Sides
  <2>3. SrcFits(u) /\ TgtFits(u) /\ src[u] \in SrcRows BY <1>4 DEF MigInv, MemberRows, PeerTypes
  <2>4. src[u].file /\ tgt[u].file = "none" BY <2>2, <2>3 DEF SrcFits, TgtFits, TgtRowFits, Gone
  <2>5. unit'[u].state = "cancelled" /\ \A v \in Units \ {u} : unit'[v] = unit[v]
    BY <1>4, <1>5, <2>1 DEF UnitRows
  <2>6. Withdrawn' = Withdrawn \cup {u} BY <1>4, <2>5 DEF Withdrawn
  <2>7. UNCHANGED <<src, tgt>> BY <1>1 DEF peerVars
  <2>8. \A v \in Units : unit'[v].state \in Committed <=> unit[v].state \in Committed
    BY <2>1, <2>5 DEF Committed
  <2>9. Promise!Abandon({u})
    BY <1>4, <2>1, <2>4, <2>6, <2>7, <2>8 DEF Promise!Abandon, Promise!Open
  <2> QED BY <1>4, <2>9 DEF Promise!Next
<1>6. UNCHANGED unit \/ (undo[u].settled = Sides /\ unit' = [unit EXCEPT ![u].state = "cancelled"])
  BY <1>3 DEF TakeBackTick, TakeBack, FinishUnit, AcknowledgeOne, Call, Stop
<1> QED BY <1>2, <1>5, <1>6

\* The end of an abort abandons the handover of every unit.
LEMMA AbortAbandons ==
  ASSUME MigInv, AbortFinish
  PROVE  [Promise!Next]_(Promise!handoverVars)
<1>1. UNCHANGED peerVars BY DEF AbortFinish, Unchanged
<1>2. CASE UNCHANGED unit BY <1>1, <1>2, SameStutters DEF SameOwners
<1>3. CASE unit' = [u \in Units |-> [unit[u] EXCEPT !.state = "cancelled"]]
  <2>1. /\ task.state = "cancelling" /\ cancel.path = "prepublication" /\ At("stop_source") = "finish"
    BY DEF AbortFinish, Cancelling, Tick
  <2>2. peer["target"].state = "aborted" /\ \A u \in Units : unit[u].state = "pending"
    BY <2>1 DEF MigInv, TaskFits, At
  <2>3. unit \in [Units -> UnitRows] BY DEF MigInv, MasterTypes
  <2>4. \A u \in Units : unit'[u].state = "cancelled" BY <1>3, <2>3 DEF UnitRows
  <2>5. ASSUME NEW u \in Units PROVE src[u].file = TRUE /\ tgt[u].file = "none"
    <3>1. SrcFits(u) /\ TgtFits(u) /\ src[u] \in SrcRows BY DEF MigInv, MemberRows, PeerTypes
    <3>2. tgt[u].entry = "removed" BY <2>2 DEF MigInv, MemberRows, AbortFits, Unswept
    <3>3. src[u].file BY <2>2, <3>1 DEF SrcFits, Committed
    <3> QED BY <3>1, <3>2, <3>3 DEF TgtFits, TgtRowFits, SrcRows
  <2>6. Withdrawn = {} /\ Withdrawn' = Units BY <2>2, <2>4 DEF Withdrawn
  <2>7. UNCHANGED <<src, tgt>> BY <1>1 DEF peerVars
  <2>8. Promise!Abandon(Units)
    BY <2>2, <2>4, <2>5, <2>6, <2>7 DEF Promise!Abandon, Promise!Open, Committed
  <2> QED BY <2>8 DEF Promise!Next
<1> QED BY <1>2, <1>3 DEF AbortFinish

\* What happens to the bytes is what the handover promises: one complete copy
\* at the owner always, ownership moves between two of them, no original is
\* erased before every unit has moved or been given up.
THEOREM HandoverImplemented == CancelSpec => ImplementsHandover
<1>1. CancelInit => Promise!Init
  <2> SUFFICES ASSUME CancelInit PROVE Promise!Init OBVIOUS
  <2>1. \A u \in Units : unit[u].state = "pending" /\ src[u].file = TRUE /\ tgt[u].file = "none"
    BY DEF CancelInit, Init, PeersInit
  <2>2. Withdrawn = {} BY <2>1 DEF Withdrawn
  <2> QED BY <2>1, <2>2 DEF Promise!Init, Committed
<1>2. MigInv /\ MigInv' /\ [CancelNext]_allVars => [Promise!Next]_(Promise!handoverVars)
  <2> SUFFICES ASSUME MigInv, MigInv', [CancelNext]_allVars
               PROVE  [Promise!Next]_(Promise!handoverVars)
    OBVIOUS
  <2>1. ASSUME UNCHANGED unit, UNCHANGED peerVars PROVE [Promise!Next]_(Promise!handoverVars)
    BY <2>1, SameStutters DEF SameOwners
  <2>2. CASE Next /\ UNCHANGED <<cancelPeerVars, cancelVars>>
    <3>1. CASE (PeerStep \/ PeerFault) /\ UNCHANGED masterVars BY <3>1, MembersImplement DEF masterVars
    <3>2. CASE Cutover BY <3>2, CutoverSwitches
    <3>3. CASE Answered \/ \E u \in Units : GraceEnds(u) \/ ProofExpires(u)
      BY <3>3, RowsOwned, SameStutters
    <3>4. CASE \/ Claim \/ LoseLease \/ RunnerExpires \/ TrafficPause \/ TrafficResume \/ MasterCrash \/ Pause
               \/ Resume \/ Retry \/ Traffic \/ CallTimesOut \/ Acknowledge \/ CopyTick \/ VerifyTick
               \/ CommitTick \/ CleanupTick \/ FinalizeTick
      BY <2>1, <3>4, RowsAlone
    <3> QED BY <2>2, <3>1, <3>2, <3>3, <3>4 DEF Next, MasterStep
  <2>3. CASE Cancel BY <2>1, <2>3, RowsAlone
  <2>4. CASE CancelMasterStep
    <3>1. CASE ClaimCancel \/ MovedTick \/ CatalogTick \/ ReleaseTick \/ AbortTick \/ CancelAnswered
      BY <2>1, <3>1, RowsAlone
    <3> QED BY <2>4, <3>1, TakingBackAbandons, AbortAbandons DEF CancelMasterStep
  <2>5. CASE CancelPeerStep /\ UNCHANGED cancelVars
    <3>1. UNCHANGED unit
      BY <2>5 DEF CancelPeerStep, StopMember, AbortStop, AbortRefused, AbortRelease, ProveRetained, UndoReplay,
         UndoIntent, UndoUnlink, UndoRecord, UndoDirectory, UndoFinish, DiscardIntent, DiscardRecord,
         DiscardFinish, Unwinds, UndoAnswers, Retain, SettleSource, SettleTarget, SourceAnswers, SourceRefuses,
         QueryRelease, CensusStarts, CensusRoster, CensusPhysical, Counts, ReleaseSource, ReleaseTarget,
         AbortIntent, AbortUnlink, AbortRecord, AbortDirectory, Rest, masterVars
    <3> QED BY <2>5, <3>1, MembersImplement
  <2>6. CASE SourceRestarts BY <2>6, MembersImplement DEF SourceRestarts, masterVars
  <2>7. CASE UndoProofExpires
    <3>1. CASE ProofRunsOut("target", "undo") /\ UNCHANGED <<masterVars, undo>>
      BY <3>1, MembersImplement DEF masterVars
    <3>2. CASE UNCHANGED <<masterVars, peerVars, callVars>>
      <4>1. UNCHANGED unit /\ UNCHANGED peerVars BY <3>2 DEF masterVars
      <4> QED BY <2>1, <4>1
    <3> QED BY <2>7, <3>1, <3>2 DEF UndoProofExpires
  <2>8. CASE UNCHANGED allVars
    <3>1. UNCHANGED unit /\ UNCHANGED peerVars BY <2>8 DEF allVars, vars, masterVars
    <3> QED BY <2>1, <3>1
  <2> QED BY <2>2, <2>3, <2>4, <2>5, <2>6, <2>7, <2>8 DEF CancelNext
<1> QED BY <1>1, <1>2, MigInvariant, PTL DEF CancelSpec, ImplementsHandover, Promise!Spec

-----------------------------------------------------------------------------
(* No refusals: a call is made only when what it meets was reported.           *)

\* Until a cancellation before publication was chosen nothing is aborted.
LEMMA NobodyAborts ==
  ASSUME MigInv, cancel.path # "prepublication"
  PROVE  ~Aborting
<1>1. \A r \in Pending : r.what \notin Aborts BY DEF MigInv, RequestsFit, RequestFits
<1>2. \A s \in Sides : peer[s].state \notin {"aborting", "aborted"} BY DEF MigInv, Flow, BoundFits
<1> QED BY <1>1, <1>2 DEF Aborting

\* Units are given up by a cancellation only.
LEMMA NothingWithdrawn ==
  ASSUME MigInv, cancel.path = ""
  PROVE  Withdrawn = {}
BY DEF MigInv, UnitsFit, Taken, Withdrawn

\* A unit that was not touched yet is open, and acknowledged by nobody.
LEMMA OpenRows ==
  ASSUME MigInv, ReadyInv, NEW u \in Uncommitted
  PROVE  /\ u \in Units /\ u \in Uncleaned /\ unit[u].acks = {} /\ UnitReady(u)
         /\ unit[u] \in UnitRows /\ unit[u].state \in {"pending", "publishing"}
<1>1. u \in Units /\ unit[u].state \notin Committed \cup {"cancelled"} BY DEF Uncommitted
<1>2. unit[u] \in UnitRows /\ UnitReady(u) BY <1>1 DEF MigInv, MasterTypes, ReadyInv, UnitsReady
<1>3. unit[u].acks \subseteq Sides BY <1>2 DEF UnitRows
<1>4. unit[u].acks = {} BY <1>1, <1>2, <1>3 DEF UnitReady
<1> QED BY <1>1, <1>2, <1>4 DEF Uncleaned, UnitRows, Committed

\* What a step of the Master leaves of a unit whose row it does not turn back.
LEMMA UnitStays ==
  ASSUME MigInv, ReadyInv, UNCHANGED peerVars, UNCHANGED halted, NEW u \in Units,
         runner'.epoch \in {runner.epoch, runner.epoch + 1},
         cancel.path = "publication" => cancel'.path = "publication",
         \A r \in Pending' : r \in Pending \/ r.what \notin Forwards \/ cancel.path = "",
         unit'[u].copied = unit[u].copied, unit'[u].state = unit[u].state, unit'[u].acks = unit[u].acks,
         undo[u].target => undo'[u].target, Asked(u)' => Foreseen(u)'
  PROVE  UnitReady(u)'
<1>1. UnitReady(u) BY DEF ReadyInv, UnitsReady
<1>2. UNCHANGED <<peer, src, tgt>> BY DEF peerVars
<1>3. cancel.path = "publication" /\ Turned => Turned'
  <2> SUFFICES ASSUME cancel.path = "publication", Turned, NEW r \in Pending', r.what \in Forwards
               PROVE  r.epoch < runner'.epoch
    BY DEF Turned
  <2>1. r \in Pending /\ r.epoch < runner.epoch BY DEF Turned
  <2>2. r.epoch \in Nat /\ runner.epoch \in Nat BY <2>1, PendingAreRequests DEF MigInv, MasterTypes, Requests
  <2> QED BY <2>1, <2>2
<1>4. tgt[u].unit \in Gone => cancel.path = "publication" BY DEF MigInv, MemberRows, TgtFits, TgtRowFits
<1>5. Begun' <=> Begun BY <1>2 DEF Begun
<1> QED BY <1>1, <1>2, <1>3, <1>4, <1>5 DEF UnitReady

\* What the Master foresees stays foreseen while the units do.
LEMMA ForeseenStays ==
  ASSUME MigInv, ReadyInv, UNCHANGED peerVars, UNCHANGED net, NEW u \in Units,
         \A v \in Units : unit'[v].state = unit[v].state, unit'[u].copied = unit[u].copied,
         cancel.path = "publication" => cancel'.path = "publication",
         "committing" \in {task.state, task.resume} =>
           \/ "committing" \in {task'.state, task'.resume} \/ cancel'.path = "publication"
           \/ Uncommitted = {} \/ ~unit[First(Uncommitted)].copied
  PROVE  Asked(u)' => Foreseen(u)'
<1>1. Pending' = Pending /\ tgt' = tgt BY DEF Pending, peerVars
<1>2. Uncommitted' = Uncommitted BY DEF Uncommitted
<1>3. Asked(u)' => Foreseen(u) BY <1>1 DEF Asked, ReadyInv, UnitsReady, UnitReady
<1>4. ASSUME unit[u].state = "pending" PROVE Uncommitted # {}
  BY <1>4 DEF Uncommitted, Committed
<1> QED BY <1>2, <1>3, <1>4 DEF Foreseen

\* What a call meets stays while the rows of the units do.
LEMMA MeetsStays ==
  ASSUME NEW r, Shaped(r), Meets(r), UNCHANGED peerVars, UNCHANGED halted,
         Aborting' => Aborting \/ r.what \in Aborts,
         \A u \in Units : /\ unit'[u].state = unit[u].state /\ unit'[u].receipt = unit[u].receipt
                          /\ unit'[u].acks = unit[u].acks /\ undo'[u].target = undo[u].target,
         cancel'.at = cancel.at
  PROVE  Meets(r)'
<1>1. /\ Uncommitted' = Uncommitted /\ Uncleaned' = Uncleaned /\ Moved' = Moved
      /\ Unacknowledged' = Unacknowledged
  BY DEF Uncommitted, Uncleaned, Moved, Unacknowledged
<1>2. r.what \in {"commit", "prove", "undo"} => r.unit \in Units BY DEF Shaped
<1>3. \A s \in {"source", r.to} : Halted(s)' <=> Halted(s) BY DEF Halted, peerVars
<1> QED BY <1>1, <1>2, <1>3 DEF Meets

\* A tick that leaves the rows of the units.
LEMMA MasterStays ==
  ASSUME MigInv, ReadyInv, UNCHANGED peerVars, UNCHANGED <<net, halted>>,
         runner'.epoch \in {runner.epoch, runner.epoch + 1},
         UNCHANGED <<job, answer>> \/ (job' = None /\ answer' = None),
         \A u \in Units : /\ unit'[u].state = unit[u].state /\ unit'[u].copied = unit[u].copied
                          /\ unit'[u].receipt = unit[u].receipt /\ unit'[u].acks = unit[u].acks
                          /\ undo'[u].target = undo[u].target,
         cancel'.at = cancel.at, cancel.path = "publication" => cancel'.path = "publication",
         "committing" \in {task.state, task.resume} =>
           \/ "committing" \in {task'.state, task'.resume} \/ cancel'.path = "publication"
           \/ Uncommitted = {} \/ ~unit[First(Uncommitted)].copied,
         TaskReady'
  PROVE  ReadyInv'
<1>1. /\ Pending' = Pending /\ Uncommitted' = Uncommitted /\ Uncleaned' = Uncleaned /\ Moved' = Moved
      /\ Unacknowledged' = Unacknowledged
  BY DEF Pending, peerVars, Uncommitted, Uncleaned, Moved, Unacknowledged
<1>2. ASSUME NEW u \in Units PROVE UnitReady(u)'
  <2>1. Asked(u)' => Foreseen(u)' BY ForeseenStays
  <2>2. \A r \in Pending' : r \in Pending BY <1>1
  <2> QED BY <2>1, <2>2, UnitStays
<1>3. WorkReady' BY DEF ReadyInv, WorkReady, peerVars
<1>4. RequestsReady'
  <2> SUFFICES ASSUME NEW r \in Pending, r.what \in {"retain", "settle"} PROVE undo'[r.unit].target
    BY <1>1 DEF RequestsReady
  <2>1. r.unit \in Units BY DEF MigInv, RequestsFit, RequestFits, Shaped
  <2> QED BY <2>1 DEF ReadyInv, RequestsReady
<1>5. JobReady'
  <2> SUFFICES ASSUME job' # None PROVE JobReady' BY DEF JobReady
  <2>1. job' = job /\ Meets(job) BY DEF ReadyInv, JobReady
  <2>2. Shaped(job)
    <3>1. job \in Requests \/ job.what = "cutover" BY <2>1 DEF MigInv, MasterTypes, Cutovers
    <3> QED BY <2>1, <3>1, JobIsLast DEF Shaped
  <2>3. Aborting' <=> Aborting BY <1>1 DEF Aborting, peerVars
  <2>4. PICK r : r = job OBVIOUS
  <2>5. Meets(r)' BY <2>1, <2>2, <2>3, <2>4, MeetsStays
  <2> QED BY <2>1, <2>4, <2>5 DEF JobReady, Meets
<1>6. AnswerReady'
  <2> SUFFICES ASSUME answer' # None PROVE AnswerReady' BY DEF AnswerReady
  <2>1. answer' = answer /\ job' = job OBVIOUS
  <2>2. PICK r, n : r = job /\ n = answer.receipt OBVIOUS
  <2>3. Heard(r, n)' <=> Heard(r, n) BY <1>1 DEF Heard, Begun, Halted, peerVars
  <2> QED BY <2>1, <2>2, <2>3 DEF ReadyInv, AnswerReady
<1> QED BY <1>2, <1>3, <1>4, <1>5, <1>6 DEF ReadyInv, UnitsReady

\* A step that keeps what the task is at, but for its error.
SameTask ==
  /\ task'.error # "refused"
  /\ \A state \in {"verifying", "committing", "cleanup_pending"} :
       state \in {task'.state, task'.resume} <=> state \in {task.state, task.resume}

\* A step that leaves the rows and stays where the task was.
LEMMA TaskStays ==
  ASSUME MigInv, ReadyInv, UNCHANGED peerVars, UNCHANGED <<net, halted, cancel>>,
         runner'.epoch \in {runner.epoch, runner.epoch + 1},
         UNCHANGED <<job, answer>> \/ (job' = None /\ answer' = None),
         \A u \in Units : /\ unit'[u].state = unit[u].state /\ unit'[u].copied = unit[u].copied
                          /\ unit'[u].receipt = unit[u].receipt /\ unit'[u].acks = unit[u].acks
                          /\ undo'[u].target = undo[u].target,
         SameTask
  PROVE  ReadyInv'
<1>1. /\ Uncommitted' = Uncommitted /\ Unacknowledged' = Unacknowledged
  BY DEF Uncommitted, Unacknowledged
<1>2. Begun' <=> Begun BY DEF Begun, peerVars
<1>3. "verifying" \in {task.state, task.resume} => unit'[First(Uncommitted)].copied
  <2> SUFFICES ASSUME "verifying" \in {task.state, task.resume}
               PROVE  unit'[First(Uncommitted)].copied
    OBVIOUS
  <2>1. unit[First(Uncommitted)].copied BY DEF ReadyInv, TaskReady
  <2>2. Uncommitted # {} BY DEF MigInv, TaskFits
  <2>3. First(Uncommitted) \in Units BY <2>2, FirstIsIn DEF Uncommitted
  <2> QED BY <2>1, <2>3
<1>4. \A s \in Sides : Halted(s)' <=> Halted(s) BY DEF Halted, peerVars
<1>5. TaskReady' BY <1>1, <1>2, <1>3, <1>4 DEF ReadyInv, TaskReady, SameTask, Sides
<1> QED BY <1>5, MasterStays DEF SameTask

\* Leases, controls, faults and the passing of time.
LEMMA LeasesReady ==
  ASSUME MigInv, ReadyInv, UNCHANGED <<halted, cancel, undo>>,
         ClaimTask \/ LoseLease \/ RunnerExpires \/ MasterCrash \/ Traffic \/ CallTimesOut
  PROVE  ReadyInv'
<1>1. /\ UNCHANGED peerVars /\ UNCHANGED <<net, unit>>
      /\ UNCHANGED <<job, answer>> \/ (job' = None /\ answer' = None)
  BY DEF ClaimTask, LoseLease, RunnerExpires, MasterCrash, Traffic, CallTimesOut, callVars
<1>2. runner \in [epoch : Nat \ {0}, live : BOOLEAN] BY DEF MigInv, MasterTypes
<1>3. runner'.epoch \in {runner.epoch, runner.epoch + 1}
  <2>1. \/ runner' = runner \/ runner' = [runner EXCEPT !.live = FALSE]
        \/ runner' = [epoch |-> runner.epoch + 1, live |-> TRUE]
    BY DEF ClaimTask, LoseLease, RunnerExpires, MasterCrash, Traffic, CallTimesOut, Release
  <2> QED BY <1>2, <2>1
<1>4. SameTask
  <2>1. task \in TaskRows /\ task.error # "refused" BY DEF MigInv, MasterTypes, ReadyInv, TaskReady
  <2>2. task' = task \/ task' = [task EXCEPT !.error = "wait"]
    BY DEF ClaimTask, LoseLease, RunnerExpires, MasterCrash, Traffic, CallTimesOut, Note
  <2> QED BY <2>1, <2>2 DEF SameTask, TaskRows
<1> QED BY <1>1, <1>3, <1>4, TaskStays

\* Pause, resume and retry, by an administrator or by traffic.
LEMMA ControlsReady ==
  ASSUME MigInv, ReadyInv, UNCHANGED <<halted, cancel, undo>>,
         Pause \/ Resume \/ TrafficResume \/ Retry \/ TrafficPause
  PROVE  ReadyInv'
<1>1. UNCHANGED peerVars /\ UNCHANGED <<net, unit>> /\ UNCHANGED <<job, answer>>
  BY DEF Pause, Resume, TrafficResume, Retry, TrafficPause, Controls, callVars
<1>2. runner \in [epoch : Nat \ {0}, live : BOOLEAN] BY DEF MigInv, MasterTypes
<1>3. runner'.epoch = runner.epoch
  BY <1>2 DEF Pause, Resume, TrafficResume, Retry, TrafficPause, Revoke
<1>4. SameTask
  <2>1. task \in TaskRows /\ task.error # "refused" BY DEF MigInv, MasterTypes, ReadyInv, TaskReady
  <2>2. task.state \notin {"paused", "failed"} => task.resume = "" BY DEF MigInv, TaskFits
  <2>3. \/ task' = [task EXCEPT !.reason = "manual"]
        \/ task.state \in Pausable /\ \E why \in {"manual", "traffic"} :
             task' = [task EXCEPT !.state = "paused", !.resume = task.state, !.reason = why]
        \/ task.state = "paused" /\ task' = [task EXCEPT !.state = task.resume, !.resume = "", !.reason = ""]
        \/ task.state = "failed" /\ task' = [task EXCEPT !.state = task.resume, !.resume = "", !.error = ""]
    BY DEF Pause, Resume, TrafficResume, Retry, TrafficPause, Resumed
  <2> QED BY <2>1, <2>2, <2>3 DEF SameTask, TaskRows, Pausable
<1> QED BY <1>1, <1>3, <1>4, TaskStays

\* A proof that runs out, and a grace period that ends.
LEMMA TimeReady ==
  ASSUME MigInv, ReadyInv, UNCHANGED <<halted, cancel, undo>>,
         \E u \in Units : GraceEnds(u) \/ ProofExpires(u)
  PROVE  ReadyInv'
<1>1. UNCHANGED peerVars /\ UNCHANGED <<net, job, answer, task, runner>>
  BY DEF GraceEnds, ProofExpires, callVars
<1>2. unit \in [Units -> UnitRows] BY DEF MigInv, MasterTypes
<1>3. PICK u \in Units, proof \in {"target", "source", "live"} :
        unit' = [unit EXCEPT ![u].grace = "over"] \/ unit' = [unit EXCEPT ![u][proof] = 0]
  BY DEF GraceEnds, ProofExpires
<1>4. \A v \in Units : /\ unit'[v].state = unit[v].state /\ unit'[v].copied = unit[v].copied
                       /\ unit'[v].receipt = unit[v].receipt /\ unit'[v].acks = unit[v].acks
  BY <1>2, <1>3 DEF UnitRows
<1>5. SameTask BY <1>1 DEF SameTask, ReadyInv, TaskReady
<1> QED BY <1>1, <1>4, <1>5, TaskStays

\* The runner makes a call that meets what it needs.
LEMMA CallReady ==
  ASSUME MigInv, ReadyInv, job = None, NEW r, Shaped(r), Meets(r),
         job' = r, net' = net \cup {r}, answer' = None,
         UNCHANGED peerVars, UNCHANGED <<halted, task, runner, unit, cancel, undo>>,
         r.what \in Forwards => cancel.path = "",
         r.what \in {"publish", "verify"} => Foreseen(r.unit),
         r.what \in {"retain", "settle"} => undo[r.unit].target
  PROVE  ReadyInv'
<1>1. /\ Pending' = Pending \cup {r} /\ Uncommitted' = Uncommitted /\ Unacknowledged' = Unacknowledged
  BY DEF Pending, peerVars, Uncommitted, Unacknowledged
<1>2. ASSUME NEW u \in Units PROVE UnitReady(u)'
  <2>1. UnitReady(u) BY DEF ReadyInv, UnitsReady
  <2>2. Foreseen(u)' <=> Foreseen(u) BY <1>1 DEF Foreseen
  <2>3. Asked(u)' => Asked(u) \/ (r.what \in {"publish", "verify"} /\ r.unit = u)
    BY <1>1 DEF Asked, peerVars
  <2>4. Asked(u)' => Foreseen(u)' BY <2>1, <2>2, <2>3 DEF UnitReady
  <2>5. \A q \in Pending' : q \in Pending \/ q.what \notin Forwards \/ cancel.path = "" BY <1>1
  <2>6. runner'.epoch = runner.epoch OBVIOUS
  <2> QED BY <2>4, <2>5, <2>6, UnitStays
<1>3. WorkReady' BY DEF ReadyInv, WorkReady, peerVars
<1>4. RequestsReady' BY <1>1 DEF ReadyInv, RequestsReady
<1>5. JobReady'
  <2>1. Aborting' => Aborting \/ r.what \in Aborts BY <1>1 DEF Aborting, peerVars
  <2>2. Meets(r)' BY <2>1, MeetsStays
  <2> QED BY <2>2 DEF JobReady, Meets
<1>6. AnswerReady' BY DEF AnswerReady
<1>7. TaskReady'
  <2>1. Begun' <=> Begun BY DEF Begun, peerVars
  <2>2. \A s \in Sides : Halted(s)' <=> Halted(s) BY DEF Halted, peerVars
  <2> QED BY <1>1, <2>1, <2>2 DEF ReadyInv, TaskReady, Sides
<1> QED BY <1>2, <1>3, <1>4, <1>5, <1>6, <1>7 DEF ReadyInv, UnitsReady

\* The form a call takes.
LEMMA CallsReady ==
  ASSUME MigInv, ReadyInv, job = None, UNCHANGED peerVars, UNCHANGED <<halted, cancel, undo>>,
         NEW to, NEW what, NEW u, NEW receipt, Call(to, what, u, receipt),
         LET r == Request(to, what, u, lease.epoch, receipt) IN
         /\ Shaped(r) /\ Meets(r)
         /\ r.what \in Forwards => cancel.path = ""
         /\ r.what \in {"publish", "verify"} => Foreseen(r.unit)
         /\ r.what \in {"retain", "settle"} => undo[r.unit].target
  PROVE  ReadyInv'
<1> DEFINE r == Request(to, what, u, lease.epoch, receipt)
<1>1. /\ job' = r /\ net' = net \cup {r} /\ answer' = None
      /\ UNCHANGED <<task, runner, lease, unit, receipts, books>>
  BY DEF Call
<1>2. /\ Shaped(r) /\ Meets(r)
      /\ r.what \in Forwards => cancel.path = ""
      /\ r.what \in {"publish", "verify"} => Foreseen(r.unit)
      /\ r.what \in {"retain", "settle"} => undo[r.unit].target
  OBVIOUS
<1> HIDE DEF r
<1> QED BY <1>1, <1>2, CallReady

\* The next acknowledgement is due.
LEMMA AcknowledgesReady ==
  ASSUME MigInv, ReadyInv, Fenced, job = None, cancel.path # "prepublication", AcknowledgeOne,
         UNCHANGED <<halted, cancel, undo>>
  PROVE  ReadyInv'
<1>1. PICK u : u = First(Unacknowledged) OBVIOUS
<1>2. u \in Unacknowledged /\ u \in Units /\ unit[u].state \in Committed /\ unit[u].acks # Sides
  BY <1>1, FirstIsIn DEF AcknowledgeOne, Unacknowledged
<1>3. u \in Uncleaned
  BY <1>2 DEF ReadyInv, UnitsReady, UnitReady, Uncleaned, Committed
<1>4. PICK side \in Sides : Call(side, "commit", u, unit[u].receipt)
  BY <1>1 DEF AcknowledgeOne, Sides
<1>5. ~Aborting BY NobodyAborts
<1>6. /\ Shaped(Request(side, "commit", u, lease.epoch, unit[u].receipt))
      /\ Meets(Request(side, "commit", u, lease.epoch, unit[u].receipt))
  BY <1>2, <1>3, <1>5 DEF Shaped, Meets, Request, Aborts, Closings, Forwards, UnitCancels
<1> QED BY <1>4, <1>6, CallsReady DEF Request, Forwards, AcknowledgeOne

-----------------------------------------------------------------------------
(* The Master's own checks of its books never fail.                            *)

\* With nothing open and nothing to acknowledge no byte is reserved.
LEMMA BooksSettled ==
  ASSUME MigInv, Uncommitted = {}, Unacknowledged = {}
  PROVE  Settled
<1>1. PICK m, w \in Nat : m = Cardinality(Moved) /\ w = Cardinality(Withdrawn) /\ m + w = N
  BY ClosedCounts
<1>2. books.reserved = N - m - w BY <1>1 DEF MigInv, BooksAgree
<1>3. books.reserved = 0 BY <1>1, <1>2, CountsAssumption
<1> QED BY <1>3 DEF Settled

\* A runner that lets its lease go stays the last runner.
LEMMA ReleaseKeepsEpoch ==
  ASSUME MigInv, Release \/ Keep \/ UNCHANGED runner
  PROVE  runner'.epoch = runner.epoch
<1>1. runner \in [epoch : Nat \ {0}, live : BOOLEAN] BY DEF MigInv, MasterTypes
<1> QED BY <1>1 DEF Release, Keep

\* A tick without a call that leaves the rows, and the task where it was.
LEMMA TickEnds ==
  ASSUME MigInv, ReadyInv, UNCHANGED peerVars, UNCHANGED <<net, job, answer, halted, unit, cancel, undo>>,
         Release \/ Keep \/ UNCHANGED runner,
         UNCHANGED task \/ Note \/ task' = [task EXCEPT !.error = ""]
  PROVE  ReadyInv'
<1>1. task \in TaskRows /\ task.error # "refused" BY DEF MigInv, MasterTypes, ReadyInv, TaskReady
<1>2. SameTask BY <1>1 DEF Note, SameTask, TaskRows
<1> QED BY <1>2, ReleaseKeepsEpoch, TaskStays

\* The next unit is inspected and its originals removed.
LEMMA CleansReady ==
  ASSUME MigInv, ReadyInv, Fenced, job = None, cancel.path # "prepublication", Settled, CleanupStep,
         UNCHANGED <<halted, cancel, undo>>
  PROVE  ReadyInv'
<1>1. PICK u : u = NextUncleaned OBVIOUS
<1>2. u \in Uncleaned /\ u \in Units
  <2> DEFINE over == {v \in Uncleaned : unit[v].grace = "over"}
  <2>1. Uncleaned \subseteq Units /\ over \subseteq Units BY DEF Uncleaned
  <2>2. Uncleaned # {} BY DEF CleanupStep
  <2>3. /\ over # {} => u = First(over)
        /\ over = {} => u = First(Uncleaned)
    BY <1>1 DEF NextUncleaned
  <2>4. over # {} => First(over) \in over BY <2>1, FirstIsIn
  <2>5. First(Uncleaned) \in Uncleaned BY <2>1, <2>2, FirstIsIn
  <2>6. over \subseteq Uncleaned OBVIOUS
  <2> HIDE DEF over
  <2> QED BY <2>1, <2>3, <2>4, <2>5, <2>6
<1>3. u \in Moved /\ Unacknowledged = {}
  BY <1>2 DEF Settled, Uncommitted, Uncleaned, Moved, Committed
<1>4. ~Aborting BY NobodyAborts
<1>5. UNCHANGED peerVars BY DEF CleanupStep
<1>6. CASE Release /\ UNCHANGED <<task, unit, receipts, books>> /\ NoCall
  BY <1>5, <1>6, TickEnds DEF NoCall
<1>7. ASSUME NEW to \in Sides, NEW what \in {"inspect", "cleanup"}, Call(to, what, u, 0),
             to = IF what = "inspect" THEN "target" ELSE "source"
      PROVE  ReadyInv'
  <2>1. Shaped(Request(to, what, u, lease.epoch, 0)) /\ Meets(Request(to, what, u, lease.epoch, 0))
    BY <1>2, <1>3, <1>4, <1>7 DEF Shaped, Meets, Request, Aborts, Closings, Forwards, UnitCancels
  <2> QED BY <1>5, <1>7, <2>1, CallsReady DEF Request, Forwards
<1>8. \/ Release /\ UNCHANGED <<task, unit, receipts, books>> /\ NoCall
      \/ Call("target", "inspect", u, 0)
      \/ Call("source", "cleanup", u, 0)
  BY <1>1 DEF CleanupStep
<1> QED BY <1>6, <1>7, <1>8 DEF Sides

\* The members are released and the task ends, when every unit moved.
LEMMA FinalizesReady ==
  ASSUME MigInv, ReadyInv, Fenced, job = None, cancel.path # "prepublication", Settled, Moved = Units,
         NEW outcome \in {"completed", "cancelled"}, FinalizeStep(outcome),
         UNCHANGED <<halted, cancel, undo>>
  PROVE  ReadyInv'
<1>1. Uncleaned = {} /\ UNCHANGED peerVars /\ Unacknowledged = {} BY DEF FinalizeStep, Settled
<1>2. ~Aborting BY NobodyAborts
<1>3. books.source = 0
  <2>1. IsFiniteSet(Units) /\ Cardinality(Units) = N BY CountsAssumption, FS_Interval DEF Units
  <2>2. books.source = N - N BY <2>1 DEF MigInv, BooksAgree
  <2> QED BY <2>2, CountsAssumption
<1>4. ASSUME NEW to \in Sides, Call(to, "finalize", 0, 0) PROVE ReadyInv'
  <2>1. Shaped(Request(to, "finalize", 0, lease.epoch, 0)) /\ Meets(Request(to, "finalize", 0, lease.epoch, 0))
    BY <1>1, <1>2, <1>4 DEF Shaped, Meets, Request, Aborts, Closings, Forwards, UnitCancels
  <2> QED BY <1>1, <1>4, <2>1, CallsReady DEF Request, Forwards
<1>5. CASE Checkpoint(outcome) /\ Release
  <2>1. /\ UNCHANGED <<net, job, answer, unit>> /\ task' = [task EXCEPT !.state = outcome, !.error = ""]
    BY <1>5 DEF Checkpoint, NoCall
  <2>2. task \in TaskRows BY DEF MigInv, MasterTypes
  <2>3. task'.state = outcome /\ task'.resume = task.resume /\ task'.error = "" BY <2>1, <2>2 DEF TaskRows
  <2>4. task.resume = "" BY DEF Fenced, Active, Pausable, MigInv, TaskFits
  <2>5. Uncommitted = {} BY DEF Settled
  <2>6. TaskReady'
    <3>1. Uncommitted' = Uncommitted /\ Unacknowledged' = Unacknowledged
      BY <2>1 DEF Uncommitted, Unacknowledged
    <3>2. Begun' <=> Begun BY <1>1 DEF Begun, peerVars
    <3>3. \A s \in Sides : Halted(s)' <=> Halted(s) BY <1>1 DEF Halted, peerVars
    <3> QED BY <2>3, <2>4, <3>1, <3>2, <3>3 DEF ReadyInv, TaskReady, Sides
  <2> QED BY <1>1, <1>5, <2>1, <2>5, <2>6, ReleaseKeepsEpoch, MasterStays
<1>6. (\E to \in Sides : Call(to, "finalize", 0, 0)) \/ (Checkpoint(outcome) /\ Release)
  BY <1>3 DEF FinalizeStep, Sides
<1> QED BY <1>4, <1>5, <1>6

-----------------------------------------------------------------------------
(* The ticks of a migration.                                                   *)

\* A checkpoint of a migration, whose phase fits what is done.
LEMMA CheckpointReady ==
  ASSUME MigInv, ReadyInv, Fenced, job = None, task.state \in Pausable,
         NEW state \in Pausable, Checkpoint(state), Keep \/ Release, UNCHANGED peerVars, UNCHANGED <<halted, cancel, undo>>,
         state \in {"committing", "cleanup_pending"} => Begun,
         state = "verifying" => unit[First(Uncommitted)].copied,
         state = "cleanup_pending" => Uncommitted = {} /\ Unacknowledged = {},
         task.state = "committing" => state = "committing" \/ Uncommitted = {} \/ ~unit[First(Uncommitted)].copied
  PROVE  ReadyInv'
<1>1. /\ UNCHANGED <<net, job, answer, unit>> /\ task' = [task EXCEPT !.state = state, !.error = ""]
  BY DEF Checkpoint, NoCall
<1>2. task \in TaskRows BY DEF MigInv, MasterTypes
<1>3. task'.state = state /\ task'.resume = task.resume /\ task'.error = "" BY <1>1, <1>2 DEF TaskRows
<1>4. task.resume = "" /\ cancel.path # "publication"
  BY NoPathYet DEF MigInv, TaskFits, Pausable
<1>5. TaskReady'
  <2>1. Uncommitted' = Uncommitted /\ Unacknowledged' = Unacknowledged
    BY <1>1 DEF Uncommitted, Unacknowledged
  <2>2. Begun' <=> Begun BY DEF Begun, peerVars
  <2>3. \A s \in Sides : Halted(s)' <=> Halted(s) BY DEF Halted, peerVars
  <2> QED BY <1>1, <1>3, <1>4, <2>1, <2>2, <2>3 DEF ReadyInv, TaskReady, Sides
<1>6. "committing" \in {task.state, task.resume} =>
        \/ "committing" \in {task'.state, task'.resume} \/ cancel'.path = "publication"
        \/ Uncommitted = {} \/ ~unit[First(Uncommitted)].copied
  BY <1>3, <1>4
<1> QED BY <1>1, <1>5, <1>6, ReleaseKeepsEpoch, MasterStays

\* Copying and verifying.
LEMMA CopyTicksReady ==
  ASSUME MigInv, ReadyInv, CopyTick \/ VerifyTick, UNCHANGED <<halted, cancel, undo>>
  PROVE  ReadyInv'
<1>1. /\ Fenced /\ job = None /\ UNCHANGED peerVars /\ task.state \in Pausable
      /\ task.state \in {"copying", "verifying"}
  BY DEF CopyTick, VerifyTick, Tick, Pausable
<1>2. Uncommitted # {} /\ cancel.path = "" BY <1>1, NoPathYet DEF MigInv, TaskFits
<1>3. PICK u : u = First(Uncommitted) OBVIOUS
<1>4. u \in Uncommitted /\ u \in Units /\ u \in Uncleaned /\ UnitReady(u)
  BY <1>2, <1>3, OpenUnit, OpenRows
<1>5. CASE CopyTick /\ unit[u].copied
  BY <1>1, <1>3, <1>5, CheckpointReady DEF CopyTick, Tick, Pausable
<1>6. CASE CopyTick /\ ~unit[u].copied
  <2>1. Call("target", "copy", u, 0) BY <1>3, <1>6 DEF CopyTick
  <2>2. ~Aborting BY <1>2, NobodyAborts
  <2>3. Shaped(Request("target", "copy", u, lease.epoch, 0)) /\ Meets(Request("target", "copy", u, lease.epoch, 0))
    BY <1>3, <1>4, <2>2 DEF Shaped, Meets, Request, Aborts, Closings, Forwards, UnitCancels
  <2> QED BY <1>1, <1>2, <2>1, <2>3, CallsReady DEF Request
<1>7. CASE VerifyTick
  <2>1. unit[u].copied /\ task.state = "verifying"
    BY <1>3, <1>7 DEF VerifyTick, Tick, ReadyInv, TaskReady
  <2>2. Checkpoint("committing") /\ Keep BY <1>3, <1>7, <2>1 DEF VerifyTick
  <2>3. Begun BY <1>4, <2>1 DEF UnitReady
  <2> QED BY <1>1, <2>1, <2>2, <2>3, CheckpointReady DEF Pausable
<1> QED BY <1>5, <1>6, <1>7

\* The cutover waits for the media fence.
LEMMA QueuedReady ==
  ASSUME MigInv, ReadyInv, Fenced, job = None, cancel.path = "", NEW u \in Uncommitted, u = First(Uncommitted),
         job' = Request("master", "cutover", u, lease.epoch, 0), UNCHANGED peerVars,
         UNCHANGED <<halted, task, runner, lease, unit, receipts, books, net, answer, cancel, undo>>
  PROVE  ReadyInv'
<1>1. /\ Pending' = Pending /\ Uncommitted' = Uncommitted /\ Uncleaned' = Uncleaned
      /\ Unacknowledged' = Unacknowledged /\ answer = None
  BY IdleUnanswered DEF Pending, peerVars, Uncommitted, Uncleaned, Unacknowledged
<1>2. UnitsReady' /\ TaskReady'
  <2>1. Begun' <=> Begun BY DEF Begun, peerVars
  <2>2. \A s \in Sides : Halted(s)' <=> Halted(s) BY DEF Halted, peerVars
  <2>3. TaskReady' BY <1>1, <2>1, <2>2 DEF ReadyInv, TaskReady, Sides
  <2>4. ASSUME NEW v \in Units PROVE UnitReady(v)'
    <3>1. Asked(v)' => Foreseen(v)' BY ForeseenStays
    <3> QED BY <1>1, <3>1, UnitStays
  <2> QED BY <2>3, <2>4 DEF UnitsReady
<1>3. WorkReady' BY DEF ReadyInv, WorkReady, peerVars
<1>4. RequestsReady' BY <1>1 DEF ReadyInv, RequestsReady
<1>5. JobReady'
  <2>1. ~Aborting' BY <1>1, NobodyAborts DEF Aborting, peerVars
  <2>2. u \in Uncleaned BY OpenRows
  <2>3. Meets(Request("master", "cutover", u, lease.epoch, 0))'
    BY <1>1, <2>1, <2>2 DEF Meets, Request, Aborts, Closings, Forwards, UnitCancels
  <2> QED BY <2>3 DEF JobReady, Meets
<1>6. AnswerReady' BY <1>1 DEF AnswerReady
<1> QED BY <1>2, <1>3, <1>4, <1>5, <1>6 DEF ReadyInv

\* Publication, verification and cutover of the next unit.
LEMMA CommitTicksReady ==
  ASSUME MigInv, ReadyInv, CommitTick, UNCHANGED <<halted, cancel, undo>>
  PROVE  ReadyInv'
<1>1. /\ Fenced /\ job = None /\ UNCHANGED peerVars /\ task.state = "committing"
      /\ task.state \in Pausable /\ Unacknowledged = {}
  BY DEF CommitTick, Tick, Pausable
<1>2. cancel.path = "" /\ Begun BY <1>1, NoPathYet DEF ReadyInv, TaskReady
<1>3. PICK u : u = First(Uncommitted) OBVIOUS
<1>4. CASE Uncommitted = {} /\ Checkpoint("cleanup_pending") /\ Release
  BY <1>1, <1>2, <1>4, CheckpointReady DEF Pausable
<1>5. CASE Uncommitted # {} /\ ~unit[u].copied /\ Checkpoint("copying") /\ Keep
  BY <1>1, <1>3, <1>5, CheckpointReady DEF Pausable
<1>6. ASSUME Uncommitted # {}, unit[u].copied, NEW to \in Sides, NEW what \in {"publish", "verify"},
             to = IF what = "publish" THEN "target" ELSE "source", Call(to, what, u, 0)
      PROVE  ReadyInv'
  <2>1. u \in Uncommitted /\ u \in Units /\ u \in Uncleaned BY <1>3, <1>6, OpenUnit, OpenRows
  <2>2. ~Aborting BY <1>2, NobodyAborts
  <2>3. Shaped(Request(to, what, u, lease.epoch, 0)) /\ Meets(Request(to, what, u, lease.epoch, 0))
    BY <1>3, <1>6, <2>1, <2>2 DEF Shaped, Meets, Request, Aborts, Closings, Forwards, UnitCancels
  <2>4. Foreseen(u) BY <1>1, <1>3, <1>6 DEF Foreseen
  <2> QED BY <1>1, <1>2, <1>6, <2>3, <2>4, CallsReady DEF Request
<1>7. CASE /\ Uncommitted # {} /\ job' = Request("master", "cutover", u, lease.epoch, 0)
           /\ UNCHANGED <<task, runner, lease, unit, receipts, books, net, answer>>
  BY <1>1, <1>2, <1>3, <1>7, OpenUnit, QueuedReady
<1>8. \/ Uncommitted = {} /\ Checkpoint("cleanup_pending") /\ Release
      \/ Uncommitted # {} /\ ~unit[u].copied /\ Checkpoint("copying") /\ Keep
      \/ Uncommitted # {} /\ unit[u].copied /\ Call("target", "publish", u, 0)
      \/ Uncommitted # {} /\ unit[u].copied /\ Call("source", "verify", u, 0)
      \/ /\ Uncommitted # {} /\ job' = Request("master", "cutover", u, lease.epoch, 0)
         /\ UNCHANGED <<task, runner, lease, unit, receipts, books, net, answer>>
  BY <1>3 DEF CommitTick
<1> QED BY <1>4, <1>5, <1>6, <1>7, <1>8 DEF Sides

\* Acknowledgement, clean-up and the end.
LEMMA CleanTicksReady ==
  ASSUME MigInv, ReadyInv, Acknowledge \/ CleanupTick \/ FinalizeTick, UNCHANGED <<halted, cancel, undo>>
  PROVE  ReadyInv'
<1>1. Fenced /\ job = None /\ task.state \in Pausable
  BY DEF Acknowledge, CleanupTick, FinalizeTick, Tick, Pausable
<1>2. cancel.path = "" BY <1>1, NoPathYet
<1>3. CASE Acknowledge BY <1>1, <1>2, <1>3, AcknowledgesReady DEF Acknowledge
<1>4. CASE CleanupTick \/ FinalizeTick
  <2>1. task.state = "cleanup_pending" BY <1>4 DEF CleanupTick, FinalizeTick, Tick
  <2>2. Uncommitted = {} /\ Unacknowledged = {} BY <2>1 DEF ReadyInv, TaskReady
  <2>3. Settled BY <2>2, BooksSettled
  <2>4. Moved = Units BY <1>2, <2>2, NothingWithdrawn DEF Moved, Uncommitted, Withdrawn
  <2> QED BY <1>1, <1>2, <1>4, <2>3, <2>4, CleansReady, FinalizesReady DEF CleanupTick, FinalizeTick
<1> QED BY <1>3, <1>4

-----------------------------------------------------------------------------
(* The cutover and the answers to a migration.                                 *)

\* Nobody is waited for any more, and the rows fit.
LEMMA NoCallReady ==
  ASSUME ReadyInv, UNCHANGED peerVars, UNCHANGED <<net, halted>>, job' = None, answer' = None,
         \A r \in Pending : r.what \in {"retain", "settle"} /\ undo[r.unit].target => undo'[r.unit].target,
         UnitsReady', TaskReady'
  PROVE  ReadyInv'
<1>1. Pending' = Pending BY DEF Pending, peerVars
<1>2. WorkReady' BY DEF ReadyInv, WorkReady, peerVars
<1>3. RequestsReady' BY <1>1 DEF ReadyInv, RequestsReady
<1>4. JobReady' /\ AnswerReady' BY DEF JobReady, AnswerReady
<1> QED BY <1>2, <1>3, <1>4 DEF ReadyInv

\* A unit that leaves the open ones, by a step of the state its task is in.
LEMMA CutoverReady ==
  ASSUME MigInv, ReadyInv, Cutover, UNCHANGED <<halted, cancel, undo>>
  PROVE  ReadyInv'
<1>1. PICK u : u = job.unit OBVIOUS
<1>2. /\ CuttingOver /\ job' = None /\ UNCHANGED peerVars /\ UNCHANGED <<receipts, net, answer>>
  BY DEF Cutover
<1>3. job # None /\ job.what = "cutover" /\ job.to \notin Sides
  BY <1>2 DEF CuttingOver, None, MigInv, MasterTypes, Requests, Kinds, Forwards, Cancels, UnitCancels, Closings, Aborts,
     Cutovers, Sides
<1>4. answer = None /\ u \in Uncommitted /\ u = First(Uncommitted)
  BY <1>1, <1>3 DEF MigInv, Flow, AnswersLast, JobFits, ReadyInv, JobReady, Meets
<1>5. CASE ~Fenced
  <2>1. Release /\ UNCHANGED <<task, unit>> BY <1>5 DEF Cutover
  <2>2. SameTask BY <2>1 DEF SameTask, ReadyInv, TaskReady
  <2> QED BY <1>2, <1>4, <2>1, <2>2, ReleaseKeepsEpoch, TaskStays
<1>6. CASE Fenced
  <2>1. /\ task.state = "committing" /\ task.resume = "" /\ cancel.path = ""
        /\ task \in TaskRows /\ task.error # "refused"
    BY <1>3, <1>6, NoPathYet DEF Fenced, MigInv, MasterTypes, JobFits, TaskFits, Pausable, ReadyInv, TaskReady
  <2>2. Accounted
    <3>1. Withdrawn = {} /\ Cardinality({}) = 0 BY <2>1, NothingWithdrawn, FS_EmptySet
    <3>2. Cardinality(Withdrawn) = 0 BY <3>1, Zenon
    <3>3. Moved \subseteq Units /\ IsFiniteSet(Units) BY FS_Interval, CountsAssumption DEF Moved, Units
    <3>4. PICK m \in Nat : m = Cardinality(Moved) BY <3>3, FS_Subset, FS_CardinalityType
    <3>5. books.reserved = N - m - 0 /\ books.source = N - m BY <3>2, <3>4 DEF MigInv, BooksAgree
    <3> QED BY <3>4, <3>5, CountsAssumption DEF Accounted
  <2>3. CASE Fail("proof_stale") /\ Release /\ UNCHANGED unit
    <3>1. task' = [task EXCEPT !.state = "failed", !.resume = task.state, !.error = "proof_stale"]
      BY <2>3 DEF Fail
    <3>2. SameTask BY <2>1, <3>1 DEF SameTask, TaskRows
    <3> QED BY <1>2, <1>4, <2>3, <3>2, ReleaseKeepsEpoch, TaskStays
  <2>4. CASE /\ unit' = [unit EXCEPT ![u].state = "committed", ![u].grace = "running"]
             /\ task' = [task EXCEPT !.error = ""] /\ Keep
    <3>1. u \in Units /\ unit \in [Units -> UnitRows] /\ unit[u].acks = {} /\ Uncommitted # {}
      BY <1>4, OpenRows DEF MigInv, MasterTypes
    <3>2. /\ unit'[u].state = "committed" /\ unit'[u].acks = {} /\ unit'[u].copied = unit[u].copied
          /\ \A v \in Units \ {u} : unit'[v] = unit[v]
      BY <2>4, <3>1 DEF UnitRows
    <3>3. Pending' = Pending /\ (Begun' <=> Begun) /\ Begun
      BY <1>2, <2>1 DEF Pending, Begun, peerVars, ReadyInv, TaskReady
    <3>4. ASSUME NEW v \in Units PROVE UnitReady(v)'
      <4>1. UnitReady(v) BY DEF ReadyInv, UnitsReady
      <4>2. CASE v = u
        <5>1. Asked(u)' <=> Asked(u) BY <1>2, <3>3 DEF Asked, peerVars
        <5>2. Turned' <=> Turned BY <2>4, <3>3 DEF Turned, Keep
        <5> QED BY <1>2, <3>1, <3>2, <3>3, <4>1, <4>2, <5>1, <5>2
          DEF UnitReady, Foreseen, Committed, peerVars
      <4>3. CASE v # u
        <5>1. Asked(v)' => Foreseen(v) BY <1>2, <3>3, <4>1 DEF Asked, UnitReady, peerVars
        <5>2. Foreseen(v) => unit[v].state # "pending" BY <1>4, <2>1, <4>3 DEF Foreseen
        <5>3. Asked(v)' => Foreseen(v)' BY <3>2, <4>3, <5>1, <5>2 DEF Foreseen
        <5> QED BY <1>2, <2>4, <3>2, <3>3, <4>3, <5>3, UnitStays DEF Keep
      <4> QED BY <4>2, <4>3
    <3>5. TaskReady'
      <4>1. task'.state = task.state /\ task'.resume = task.resume /\ task'.error = ""
        BY <2>1, <2>4 DEF TaskRows
      <4>2. \A s \in Sides : Halted(s)' <=> Halted(s) BY <1>2 DEF Halted, peerVars
      <4>3. cancel.at.step \notin {"census", "catalog", "release"} BY <1>4 DEF ReadyInv, TaskReady
      <4> QED BY <2>1, <3>3, <4>1, <4>2, <4>3 DEF ReadyInv, TaskReady, Sides
    <3>6. UnitsReady' BY <3>4 DEF UnitsReady
    <3> QED BY <1>2, <1>4, <3>5, <3>6, NoCallReady
  <2> QED BY <1>1, <1>6, <2>2, <2>3, <2>4 DEF Cutover
<1> QED BY <1>5, <1>6

\* An answer that ends the tick without a trace but in the task row.
LEMMA AnswerEndsReady ==
  ASSUME MigInv, ReadyInv, job' = None, answer' = None, Release,
         UNCHANGED peerVars, UNCHANGED <<net, halted, unit, cancel, undo>>,
         \/ UNCHANGED task
         \/ \E error \in Errors \ {"refused"} :
              task' = [task EXCEPT !.error = error] \/ (Fenced /\ Fail(error))
  PROVE  ReadyInv'
<1>1. task \in TaskRows /\ task.error # "refused" BY DEF MigInv, MasterTypes, ReadyInv, TaskReady
<1>2. Fenced => task.resume = "" BY DEF Fenced, Active, Pausable, MigInv, TaskFits
<1>3. SameTask BY <1>1, <1>2 DEF SameTask, TaskRows, Fail
<1> QED BY <1>3, ReleaseKeepsEpoch, TaskStays

\* What a successful answer writes into the row of its unit.
LEMMA RowReady ==
  ASSUME MigInv, ReadyInv, UNCHANGED peerVars, UNCHANGED <<net, halted, runner, cancel, undo>>,
         job' = None, answer' = None, task' = [task EXCEPT !.error = ""],
         NEW u \in Units, NEW row, unit' = [unit EXCEPT ![u] = row],
         unit[u].copied => row.copied, row.state = "pending" => unit[u].state = "pending",
         row.state \in Committed <=> unit[u].state \in Committed,
         row.state = "cancelled" <=> unit[u].state = "cancelled",
         unit[u].acks \subseteq row.acks, row.acks \subseteq Sides,
         \A s \in row.acks \ unit[u].acks :
            /\ row.state \in Committed
            /\ IF s = "target" THEN tgt[u].unit = "committed" ELSE src[u].unit \in Committed,
         row.copied \/ row.state # "pending" => Begun,
         row.copied => tgt[u].entry \notin Unstarted,
         row.state \in {"cleanup_pending", "cleaned"} => row.acks = Sides
  PROVE  ReadyInv'
<1>1. /\ unit'[u] = row /\ \A v \in Units \ {u} : unit'[v] = unit[v]
  BY DEF MigInv, MasterTypes
<1>2. /\ Pending' = Pending /\ Uncommitted' = Uncommitted /\ (Begun' <=> Begun) /\ (Turned' <=> Turned)
  <2>1. Pending' = Pending BY DEF Pending, peerVars
  <2> QED BY <1>1, <2>1 DEF Uncommitted, Begun, Turned, peerVars
<1>3. task'.state = task.state /\ task'.resume = task.resume /\ task'.error = ""
  BY DEF MigInv, MasterTypes, TaskRows
<1>4. ASSUME NEW v \in Units PROVE UnitReady(v)'
  <2>1. UnitReady(v) BY DEF ReadyInv, UnitsReady
  <2>2. Asked(v)' <=> Asked(v) BY <1>2 DEF Asked, peerVars
  <2>3. Foreseen(v) => Foreseen(v)' BY <1>1, <1>2, <1>3 DEF Foreseen
  <2>4. CASE v = u
    <3>1. UNCHANGED <<src, tgt>> BY DEF peerVars
    <3>2. ASSUME NEW s \in row.acks
          PROVE  /\ row.state \in Committed
                 /\ IF s = "target" THEN tgt[u].unit = "committed" ELSE src[u].unit \in Committed
      BY <2>1, <2>4 DEF UnitReady
    <3>3. src[u].receipt # 0 => row.copied \/ (cancel.path = "publication" /\ Turned) BY <2>1, <2>4 DEF UnitReady
    <3>4. row.copied \/ tgt[u].entry \in {"verified"} \cup Placed \/ row.state # "pending" => Begun
      BY <2>1, <2>4 DEF UnitReady
    <3>5. /\ tgt[u].entry \in Placed => tgt[u].unit \notin Copyable
          /\ src[u].entry = "none" => src[u].file
          /\ src[u].unit \in {"retained", "settled"} => "source" \in halted /\ undo[u].target
          /\ tgt[u].unit \in Gone => Turned
      BY <2>1, <2>4 DEF UnitReady
    <3> QED BY <1>1, <1>2, <2>1, <2>2, <2>3, <2>4, <3>1, <3>2, <3>3, <3>4, <3>5 DEF UnitReady
  <2>5. CASE v # u
    <3>1. unit'[v] = unit[v] BY <1>1, <2>5
    <3>2. \A r \in Pending' : r \in Pending BY <1>2
    <3> QED BY <2>1, <2>2, <2>3, <3>1, <3>2, UnitStays DEF UnitReady
  <2> QED BY <2>4, <2>5
<1>5. TaskReady'
  <2>1. Unacknowledged' \subseteq Unacknowledged
    <3>1. unit[u].acks = Sides => row.acks = Sides OBVIOUS
    <3> QED BY <1>1, <3>1 DEF Unacknowledged
  <2>2. Uncommitted # {} => First(Uncommitted) \in Units BY FirstIsIn DEF Uncommitted
  <2>3. "verifying" \in {task.state, task.resume} => Uncommitted # {} BY DEF MigInv, TaskFits
  <2>4. \A s \in Sides : Halted(s)' <=> Halted(s) BY DEF Halted, peerVars
  <2>5. "verifying" \in {task.state, task.resume} => unit'[First(Uncommitted)].copied
    BY <1>1, <2>2, <2>3 DEF ReadyInv, TaskReady
  <2> QED BY <1>2, <1>3, <2>1, <2>4, <2>5 DEF ReadyInv, TaskReady, Sides
<1> QED BY <1>4, <1>5, NoCallReady DEF UnitsReady

\* What an answer brings, when it is neither a refusal nor lost.
LEMMA HeardOf ==
  ASSUME MigInv, ReadyInv, answer # None
  PROVE  /\ answer.kind \in Outcomes \ {"refused"} /\ Meets(job)
         /\ answer.kind = "ok" => Heard(job, answer.receipt)
BY AnsweredJob DEF ReadyInv, AnswerReady, JobReady

\* The rows the answers to a migration write.
LEMMA WrittenReady ==
  ASSUME MigInv, ReadyInv, Answered, Fenced, answer.kind = "ok", Consistent, job.what # "finalize",
         UNCHANGED <<halted, cancel, undo>>
  PROVE  ReadyInv'
<1>1. PICK r, u, n : r = job /\ u = job.unit /\ n = answer.receipt OBVIOUS
<1>2. /\ answer # None /\ r.what \in Moves /\ job' = None /\ answer' = None
      /\ UNCHANGED peerVars /\ UNCHANGED <<net, runner>> /\ task' = [task EXCEPT !.error = ""]
  BY <1>1 DEF Answered, Keep
<1>3. /\ r # None /\ r \in Requests /\ r.to \in Sides /\ RequestFits(r) /\ Shaped(r)
  BY <1>1, <1>2, AnsweredJob DEF RequestFits
<1>4. Meets(r) /\ Heard(r, n) BY <1>1, <1>2, HeardOf
<1>5. u \in Units BY <1>1, <1>2, <1>3 DEF Shaped, Moves
<1>6. unit \in [Units -> UnitRows] /\ unit[u] \in UnitRows /\ UnitReady(u)
  BY <1>5 DEF MigInv, MasterTypes, ReadyInv, UnitsReady
<1>7. unit' = [unit EXCEPT ![u] = Written(unit[u])] BY <1>1, <1>2, <1>6 DEF Answered
<1>8. ASSUME NEW row, unit' = [unit EXCEPT ![u] = row],
             unit[u].copied => row.copied, row.state = "pending" => unit[u].state = "pending",
             row.state \in Committed <=> unit[u].state \in Committed,
             row.state = "cancelled" <=> unit[u].state = "cancelled",
             unit[u].acks \subseteq row.acks, row.acks \subseteq Sides,
             \A s \in row.acks \ unit[u].acks :
                /\ row.state \in Committed
                /\ IF s = "target" THEN tgt[u].unit = "committed" ELSE src[u].unit \in Committed,
             row.copied \/ row.state # "pending" => Begun,
             row.copied => tgt[u].entry \notin Unstarted,
             row.state \in {"cleanup_pending", "cleaned"} => row.acks = Sides
      PROVE  ReadyInv'
  BY <1>2, <1>5, <1>8, RowReady
<1>9. CASE r.what = "copy"
  <2> DEFINE row == [unit[u] EXCEPT !.copied = TRUE]
  <2>1. unit' = [unit EXCEPT ![u] = row] BY <1>1, <1>7, <1>9 DEF Written
  <2>2. Begun /\ tgt[u].entry \notin Unstarted BY <1>1, <1>4, <1>9 DEF Heard
  <2>3. /\ row.copied /\ row.state = unit[u].state /\ row.acks = unit[u].acks /\ row.acks \subseteq Sides
    BY <1>6 DEF UnitRows
  <2>4. row.state \in {"cleanup_pending", "cleaned"} => row.acks = Sides BY <1>6, <2>3 DEF UnitReady
  <2> HIDE DEF row
  <2> QED BY <1>8, <2>1, <2>2, <2>3, <2>4
<1>10. CASE r.what = "publish"
  <2> DEFINE row == [unit[u] EXCEPT !.state = "publishing",
                                    !.target = IF answer.phase = "published" THEN job.epoch ELSE 0]
  <2>1. unit' = [unit EXCEPT ![u] = row] BY <1>1, <1>7, <1>10 DEF Written
  <2>2. u \in Uncommitted /\ unit[u].copied BY <1>1, <1>3, <1>10 DEF MigInv, JobFits, Forwards
  <2>3. unit[u].state \in {"pending", "publishing"} /\ unit[u].acks = {} BY <2>2, OpenRows
  <2>4. /\ row.copied = unit[u].copied /\ row.state = "publishing" /\ row.acks = unit[u].acks
    BY <1>6 DEF UnitRows
  <2>5. Begun /\ tgt[u].entry \notin Unstarted BY <1>6, <2>2 DEF UnitReady
  <2> HIDE DEF row
  <2> QED BY <1>8, <2>1, <2>2, <2>3, <2>4, <2>5 DEF Committed
<1>11. ASSUME NEW row, unit' = [unit EXCEPT ![u] = row], row.copied = unit[u].copied, row.state = unit[u].state,
              row.acks = unit[u].acks
       PROVE  ReadyInv'
  <2>1. row.acks \subseteq Sides BY <1>6, <1>11 DEF UnitRows
  <2>2. /\ row.copied \/ row.state # "pending" => Begun
        /\ row.copied => tgt[u].entry \notin Unstarted
        /\ row.state \in {"cleanup_pending", "cleaned"} => row.acks = Sides
    BY <1>6, <1>11 DEF UnitReady
  <2> QED BY <1>8, <1>11, <2>1, <2>2
<1>12. CASE r.what = "verify"
  <2> DEFINE row == [unit[u] EXCEPT !.source = job.epoch, !.receipt = answer.receipt]
  <2>1. unit' = [unit EXCEPT ![u] = row] BY <1>1, <1>7, <1>12 DEF Written
  <2>2. row.copied = unit[u].copied /\ row.state = unit[u].state /\ row.acks = unit[u].acks
    BY <1>6 DEF UnitRows
  <2> HIDE DEF row
  <2> QED BY <1>11, <2>1, <2>2
<1>13. CASE r.what = "inspect"
  <2> DEFINE row == [unit[u] EXCEPT !.live = job.epoch]
  <2>1. unit' = [unit EXCEPT ![u] = row] BY <1>1, <1>7, <1>13 DEF Written
  <2>2. row.copied = unit[u].copied /\ row.state = unit[u].state /\ row.acks = unit[u].acks
    BY <1>6 DEF UnitRows
  <2> HIDE DEF row
  <2> QED BY <1>11, <2>1, <2>2
<1>14. CASE r.what = "commit"
  <2> DEFINE row == [unit[u] EXCEPT !.acks = @ \cup {job.to}]
  <2>1. unit' = [unit EXCEPT ![u] = row] BY <1>1, <1>7, <1>14 DEF Written
  <2>2. row.copied = unit[u].copied /\ row.state = unit[u].state /\ row.acks = unit[u].acks \cup {r.to}
    BY <1>1, <1>6 DEF UnitRows
  <2>3. unit[u].state \in Committed BY <1>1, <1>3, <1>14 DEF RequestFits
  <2>4. IF r.to = "target" THEN tgt[u].unit = "committed" ELSE src[u].unit \in Committed
    BY <1>1, <1>4, <1>14 DEF Heard
  <2>5. unit[u].acks \subseteq Sides BY <1>6 DEF UnitRows
  <2>6. /\ row.copied \/ row.state # "pending" => Begun
        /\ row.copied => tgt[u].entry \notin Unstarted
        /\ row.state \in {"cleanup_pending", "cleaned"} => row.acks = Sides
    BY <1>3, <1>6, <2>2 DEF UnitReady
  <2> HIDE DEF row
  <2> QED BY <1>3, <1>8, <2>1, <2>2, <2>3, <2>4, <2>5, <2>6
<1>15. CASE r.what = "cleanup"
  <2> DEFINE row == [unit[u] EXCEPT !.state = IF answer.phase = "cleaned" THEN "cleaned" ELSE "cleanup_pending"]
  <2>1. unit' = [unit EXCEPT ![u] = row] BY <1>1, <1>7, <1>15 DEF Written
  <2>2. row.copied = unit[u].copied /\ row.state \in {"cleanup_pending", "cleaned"} /\ row.acks = unit[u].acks
    BY <1>6 DEF UnitRows
  <2>3. u \in Moved /\ Unacknowledged = {} BY <1>1, <1>4, <1>15 DEF Meets
  <2>4. unit[u].acks = Sides /\ unit[u].state \in Committed BY <2>3 DEF Unacknowledged, Moved
  <2>5. (row.copied \/ row.state # "pending" => Begun) /\ (row.copied => tgt[u].entry \notin Unstarted)
    BY <1>6, <2>2, <2>4 DEF UnitReady, Committed
  <2> HIDE DEF row
  <2> QED BY <1>8, <2>1, <2>2, <2>4, <2>5 DEF Committed
<1> QED BY <1>1, <1>2, <1>9, <1>10, <1>12, <1>13, <1>14, <1>15 DEF Moves

\* The runner takes up the answer to its call.
LEMMA AnsweredReady ==
  ASSUME MigInv, ReadyInv, Answered, UNCHANGED <<halted, cancel, undo>>
  PROVE  ReadyInv'
<1>1. /\ answer # None /\ job' = None /\ answer' = None
      /\ UNCHANGED peerVars /\ UNCHANGED net
  BY DEF Answered
<1>2. answer.kind \in Outcomes \ {"refused"} /\ (answer.kind = "ok" => Heard(job, answer.receipt))
  BY <1>1, HeardOf
<1>3. answer.kind = "ok" => Consistent BY <1>2 DEF Heard, Consistent
<1>4. CASE ~Fenced BY <1>1, <1>4, AnswerEndsReady DEF Answered
<1>5. CASE Fenced /\ answer.kind = "wait"
  <2>1. task' = [task EXCEPT !.error = "wait"] /\ Release /\ UNCHANGED unit BY <1>5 DEF Answered, Note
  <2> QED BY <1>1, <2>1, AnswerEndsReady DEF Errors, Outcomes
<1>6. CASE Fenced /\ answer.kind \notin {"ok", "wait"}
  <2>1. Fail(answer.kind) /\ Release /\ UNCHANGED unit BY <1>6 DEF Answered
  <2>2. answer.kind \in Errors \ {"refused"} BY <1>2 DEF Errors
  <2> QED BY <1>1, <1>6, <2>1, <2>2, AnswerEndsReady
<1>7. CASE Fenced /\ answer.kind = "ok" /\ job.what # "finalize"
  BY <1>3, <1>7, WrittenReady
<1>8. CASE Fenced /\ answer.kind = "ok" /\ job.what = "finalize"
  <2>1. task' = [task EXCEPT !.error = ""] /\ Keep /\ UNCHANGED unit BY <1>3, <1>8 DEF Answered
  <2>2. task \in TaskRows BY DEF MigInv, MasterTypes
  <2>3. SameTask BY <2>1, <2>2 DEF SameTask, TaskRows
  <2> QED BY <1>1, <2>1, <2>3, ReleaseKeepsEpoch, TaskStays
<1> QED BY <1>4, <1>5, <1>6, <1>7, <1>8

-----------------------------------------------------------------------------
(* The ticks of a cancellation.                                                *)

\* Both members were stopped by this runner.
LEMMA StoppedHalts ==
  ASSUME ReadyInv, StoppedNow = Sides
  PROVE  "source" \in halted
BY DEF ReadyInv, TaskReady, StoppedNow, Sides

\* A call about a unit that is taken back.
LEMMA UnitCallReady ==
  ASSUME MigInv, ReadyInv, job = None, cancel.path = "publication", UNCHANGED peerVars,
         UNCHANGED <<halted, cancel, undo>>, NEW u \in Uncommitted, "source" \in halted,
         NEW to \in Sides, NEW what \in UnitCancels, Call(to, what, u, 0),
         to = "target" => what \in {"undo", "settle"}, to = "source" => what # "undo",
         IF what \in {"retain", "settle"} THEN undo[u].target ELSE ~undo[u].target
  PROVE  ReadyInv'
<1>1. u \in Units /\ u \in Uncleaned BY OpenRows
<1>2. ~Aborting BY NobodyAborts
<1>3. Shaped(Request(to, what, u, lease.epoch, 0))
  BY <1>1 DEF Shaped, Request, UnitCancels, Sides
<1>4. Meets(Request(to, what, u, lease.epoch, 0))
  BY <1>1, <1>2 DEF Meets, Request, Aborts, Closings, Forwards, UnitCancels
<1> QED BY <1>3, <1>4, CallsReady DEF Request, Forwards, UnitCancels

\* The unit is closed at the Master when both members have settled it.
LEMMA UnitFinishReady ==
  ASSUME MigInv, ReadyInv, Cancelling("publication"), NEW u \in Uncommitted, FinishUnit(u),
         UNCHANGED peerVars, UNCHANGED <<halted, cancel, undo>>
  PROVE  ReadyInv'
<1>1. /\ Fenced /\ job = None /\ task.state = "cancelling" /\ cancel.path = "publication" /\ task.resume = ""
      /\ answer = None
  BY IdleUnanswered DEF Cancelling, Tick, MigInv, TaskFits
<1>2. /\ unit' = [unit EXCEPT ![u].state = "cancelled"] /\ task' = [task EXCEPT !.error = ""]
      /\ NoCall /\ Keep
  BY DEF FinishUnit, MigInv, BooksAgree
<1>3. u \in Units /\ unit[u].acks = {} /\ UnitReady(u) /\ unit \in [Units -> UnitRows] BY OpenRows DEF MigInv, MasterTypes
<1>4. /\ unit'[u].state = "cancelled" /\ unit'[u].acks = {} /\ unit'[u].copied = unit[u].copied
      /\ \A v \in Units \ {u} : unit'[v] = unit[v]
  BY <1>2, <1>3 DEF UnitRows
<1>5. /\ UNCHANGED <<net, job, answer>> /\ runner' = runner /\ Pending' = Pending
      /\ (Begun' <=> Begun) /\ Begun
  BY <1>1, <1>2 DEF NoCall, Keep, Pending, Begun, peerVars, ReadyInv, TaskReady
<1>6. Uncommitted' \subseteq Uncommitted /\ Unacknowledged' = Unacknowledged
  <2>1. unit[u].state \notin Committed BY DEF Uncommitted
  <2> QED BY <1>3, <1>4, <2>1 DEF Uncommitted, Unacknowledged, Committed
<1>7. ASSUME NEW v \in Units PROVE UnitReady(v)'
  <2>1. UnitReady(v) BY DEF ReadyInv, UnitsReady
  <2>2. Asked(v)' <=> Asked(v) BY <1>5 DEF Asked, peerVars
  <2>3. Asked(v)' => Foreseen(v)' BY <1>1, <1>4, <2>1, <2>2 DEF Foreseen, UnitReady
  <2>4. CASE v = u
    <3>1. Turned' <=> Turned BY <1>5 DEF Turned
    <3> QED BY <1>3, <1>4, <1>5, <2>1, <2>3, <2>4, <3>1 DEF UnitReady, Committed, peerVars
  <2>5. CASE v # u
    <3>1. \A r \in Pending' : r \in Pending BY <1>5
    <3> QED BY <1>4, <1>5, <2>3, <2>5, <3>1, UnitStays
  <2> QED BY <2>4, <2>5
<1>8. TaskReady'
  <2>1. task'.state = task.state /\ task'.resume = task.resume /\ task'.error = ""
    BY <1>2 DEF MigInv, MasterTypes, TaskRows
  <2>2. \A s \in Sides : Halted(s)' <=> Halted(s) BY DEF Halted, peerVars
  <2> QED BY <1>1, <1>5, <1>6, <2>1, <2>2 DEF ReadyInv, TaskReady, Sides
<1>9. job' = None /\ answer' = None BY <1>1, <1>5
<1>10. \A r \in Pending : undo[r.unit].target => undo'[r.unit].target OBVIOUS
<1>11. UnitsReady' BY <1>7 DEF UnitsReady
<1>12. UNCHANGED <<net, halted>> BY <1>5
<1> QED BY <1>8, <1>9, <1>10, <1>11, <1>12, NoCallReady

\* Units are taken back one by one, once both members stopped.
LEMMA TakeBackReady ==
  ASSUME MigInv, ReadyInv, TakeBackTick
  PROVE  ReadyInv'
<1>1. /\ Fenced /\ job = None /\ task.state = "cancelling" /\ cancel.path = "publication"
      /\ UNCHANGED peerVars /\ UNCHANGED <<halted, cancel, undo>> /\ Cancelling("publication")
      /\ Uncommitted # {}
  BY DEF TakeBackTick, Cancelling, Tick, Unchanged, cancelVars, cancelPeerVars
<1>2. PICK u : u = First(Uncommitted) OBVIOUS
<1>3. u \in Uncommitted /\ u \in Units BY <1>1, <1>2, OpenUnit
<1>4. Taken(u) /\ UnitReady(u) /\ unit[u].state \in {"pending", "publishing"}
  BY <1>3, OpenRows DEF MigInv, UnitsFit
<1>5. CASE \E side \in Sides : Call(side, "stop", 0, 0)
  <2>1. PICK side \in Sides : Call(side, "stop", 0, 0) BY <1>5
  <2>2. ~Aborting /\ Uncleaned # {} BY <1>1, <1>3, NobodyAborts, OpenRows
  <2>3. Shaped(Request(side, "stop", 0, lease.epoch, 0)) /\ Meets(Request(side, "stop", 0, lease.epoch, 0))
    BY <2>2 DEF Shaped, Meets, Request, Aborts, Closings, Forwards, UnitCancels
  <2> QED BY <1>1, <2>1, <2>3, CallsReady DEF Request, Forwards
<1>6. CASE AcknowledgeOne BY <1>1, <1>6, AcknowledgesReady
<1>7. CASE StoppedNow = Sides /\ TakeBack(u)
  <2>1. "source" \in halted BY <1>7, StoppedHalts
  <2>2. ASSUME NEW to \in Sides, NEW what \in UnitCancels, Call(to, what, u, 0),
               to = "target" => what \in {"undo", "settle"}, to = "source" => what # "undo",
               IF what \in {"retain", "settle"} THEN undo[u].target ELSE ~undo[u].target
        PROVE  ReadyInv'
    BY <1>1, <1>3, <2>1, <2>2, UnitCallReady
  <2>3. undo[u].source => undo[u].target BY <1>4 DEF Taken, UnitReady
  <2>4. Authorised(u)
    <3>1. u \notin Moved /\ u \notin Withdrawn /\ Moved \cap Withdrawn = {}
      BY <1>3 DEF Uncommitted, Moved, Withdrawn, Committed
    <3>2. IsFiniteSet(Units) /\ Cardinality(Units) = N BY CountsAssumption, FS_Interval DEF Units
    <3>3. Moved \subseteq Units /\ Withdrawn \subseteq Units BY DEF Moved, Withdrawn
    <3>4. IsFiniteSet(Moved) /\ IsFiniteSet(Withdrawn) BY <3>2, <3>3, FS_Subset
    <3>5. /\ IsFiniteSet(Moved \cup Withdrawn)
          /\ Cardinality(Moved \cup Withdrawn)
               = Cardinality(Moved) + Cardinality(Withdrawn) - Cardinality(Moved \cap Withdrawn)
      BY <3>4, FS_Union
    <3>6. Cardinality({}) = 0 BY FS_EmptySet
    <3>7. PICK m, w, b \in Nat : m = Cardinality(Moved) /\ w = Cardinality(Withdrawn)
                                  /\ b = Cardinality(Moved \cup Withdrawn)
      BY <3>4, <3>5, FS_CardinalityType
    <3>8. Cardinality(Moved \cap Withdrawn) = 0 BY <3>1, <3>6
    <3>9. b = m + w BY <3>5, <3>7, <3>8
    <3>10. b < N
      <4>1. (Moved \cup Withdrawn) \subseteq Units /\ Moved \cup Withdrawn # Units BY <1>3, <3>1, <3>3
      <4>2. b <= N /\ b # N BY <3>2, <3>7, <4>1, FS_Subset
      <4> QED BY <3>7, <4>2, CountsAssumption
    <3>11. books.reserved = N - m - w BY <3>7 DEF MigInv, BooksAgree
    <3> QED BY <1>4, <3>7, <3>9, <3>10, <3>11, CountsAssumption DEF Authorised
  <2>5. \/ FinishUnit(u)
        \/ \E side \in Sides : undo[u].source /\ Call(side, "settle", u, 0)
        \/ undo[u].target /\ Call("source", "retain", u, 0)
        \/ ~undo[u].target /\ Call("source", "prove", u, 0)
        \/ ~undo[u].target /\ Call("target", "undo", u, 0)
    BY <1>7, <2>4 DEF TakeBack, Sides
  <2>6. CASE FinishUnit(u)
    <3>1. Cancelling("publication") /\ UNCHANGED peerVars /\ UNCHANGED <<halted, cancel, undo>> BY <1>1
    <3>2. u \in Uncommitted BY <1>3
    <3> QED BY <3>1, <3>2, <2>6, UnitFinishReady
  <2>7. CASE \E side \in Sides : undo[u].source /\ Call(side, "settle", u, 0)
    BY <2>2, <2>3, <2>7 DEF UnitCancels
  <2>8. CASE undo[u].target /\ Call("source", "retain", u, 0)
    BY <2>2, <2>8 DEF UnitCancels, Sides
  <2>9. CASE ~undo[u].target /\ Call("source", "prove", u, 0)
    BY <2>2, <2>9 DEF UnitCancels, Sides
  <2>10. CASE ~undo[u].target /\ Call("target", "undo", u, 0)
    BY <2>2, <2>10 DEF UnitCancels, Sides
  <2> QED BY <2>5, <2>6, <2>7, <2>8, <2>9, <2>10
<1> QED BY <1>2, <1>5, <1>6, <1>7 DEF TakeBackTick, Sides

\* The units that moved finish their migration.
LEMMA MovedReady ==
  ASSUME MigInv, ReadyInv, MovedTick
  PROVE  ReadyInv'
<1>1. /\ Fenced /\ job = None /\ cancel.path = "publication" /\ UNCHANGED peerVars
      /\ UNCHANGED <<halted, cancel, undo>> /\ Uncommitted = {}
      /\ Unacknowledged # {} \/ Uncleaned # {} \/ Moved = Units
  BY DEF MovedTick, Cancelling, Tick, Unchanged, cancelVars, cancelPeerVars
<1>2. CASE AcknowledgeOne BY <1>1, <1>2, AcknowledgesReady
<1>3. CASE Unacknowledged = {} /\ Uncleaned = {} /\ FinalizeStep("cancelled")
  <2>1. Settled /\ Moved = Units BY <1>1, <1>3, BooksSettled
  <2> QED BY <1>1, <1>3, <2>1, FinalizesReady
<1>4. CASE Unacknowledged = {} /\ CleanupStep
  <2>1. Settled BY <1>1, <1>4, BooksSettled
  <2> QED BY <1>1, <1>4, <2>1, CleansReady
<1>5. CASE Delay BY <1>1, <1>5, TickEnds DEF Delay, NoCall
<1> QED BY <1>2, <1>3, <1>4, <1>5 DEF MovedTick

\* What the runner writes into the journals of a cancellation.
LEMMA JournalReady ==
  ASSUME MigInv, ReadyInv, job' = None, answer' = None, UNCHANGED peerVars, UNCHANGED <<net, halted, unit>>,
         runner'.epoch = runner.epoch,
         task'.state = task.state, task'.resume = task.resume, task'.error # "refused",
         \A u \in Units : undo[u].target => undo'[u].target,
         cancel'.path = cancel.path, "source" \in cancel'.stops.sides => "source" \in halted,
         cancel'.at.step \in {"stop_target", "clean_target", "clean_source", "finish"} => Halted("source"),
         cancel'.at.step \in {"clean_target", "clean_source", "finish"} => Halted("target"),
         cancel'.at.step \in {"census", "catalog", "release"} => Uncommitted = {}
  PROVE  ReadyInv'
<1>1. /\ Pending' = Pending /\ Uncommitted' = Uncommitted /\ Unacknowledged' = Unacknowledged
      /\ (Begun' <=> Begun)
  <2>1. Pending' = Pending /\ (Begun' <=> Begun) BY DEF Pending, peerVars, Begun
  <2>2. Uncommitted' = Uncommitted /\ Unacknowledged' = Unacknowledged BY DEF Uncommitted, Unacknowledged
  <2> QED BY <2>1, <2>2
<1>2. UnitsReady'
  <2> SUFFICES ASSUME NEW u \in Units PROVE UnitReady(u)' BY DEF UnitsReady
  <2>1. Asked(u)' => Foreseen(u)' BY ForeseenStays
  <2> QED BY <1>1, <2>1, UnitStays
<1>3. TaskReady'
  <2>1. \A s \in Sides : Halted(s)' <=> Halted(s) BY DEF Halted, peerVars
  <2> QED BY <1>1, <2>1 DEF ReadyInv, TaskReady, Sides
<1>4. ASSUME NEW r \in Pending, r.what \in {"retain", "settle"}, undo[r.unit].target PROVE undo'[r.unit].target
  BY <1>4 DEF MigInv, RequestsFit, RequestFits, Shaped
<1> QED BY <1>2, <1>3, <1>4, NoCallReady

\* The Source's proof is compared with the Master's own catalogue.
LEMMA CatalogReady ==
  ASSUME MigInv, ReadyInv, CatalogTick
  PROVE  ReadyInv'
<1>1. /\ Fenced /\ job = None /\ At("query") = "catalog" /\ UNCHANGED peerVars
      /\ UNCHANGED <<halted, undo>>
  BY DEF CatalogTick, Cancelling, Tick, Unchanged, cancelPeerVars
<1>2. cancel.at.step = "catalog" /\ Uncommitted = {} BY <1>1 DEF At, ReadyInv, TaskReady
<1>3. books.source = Cardinality(Withdrawn)
  <2>1. PICK m, w \in Nat : m = Cardinality(Moved) /\ w = Cardinality(Withdrawn) /\ m + w = N
    BY <1>2, ClosedCounts
  <2>2. books.source = N - m BY <2>1 DEF MigInv, BooksAgree
  <2> QED BY <2>1, <2>2, CountsAssumption
<1>4. /\ cancel' = [cancel EXCEPT !.at.step = "release"]
      /\ UNCHANGED <<task, runner, unit, net, job, answer>>
  BY <1>3 DEF CatalogTick, NoCall
<1>5. cancel'.path = cancel.path /\ cancel'.at.step = "release" /\ cancel'.stops = cancel.stops
  BY <1>4 DEF MigInv, MasterTypes, Journals
<1>6. "source" \in cancel'.stops.sides => "source" \in halted BY <1>5 DEF ReadyInv, TaskReady
<1>7. /\ job' = None /\ answer' = None /\ UNCHANGED <<net, halted, unit>> /\ runner'.epoch = runner.epoch
      /\ UNCHANGED <<task, undo>> /\ task.error # "refused"
  BY <1>1, <1>4, IdleUnanswered DEF ReadyInv, TaskReady
<1> QED BY <1>1, <1>2, <1>5, <1>6, <1>7, JournalReady

\* The members are released when every unit is closed.
LEMMA ReleaseTicksReady ==
  ASSUME MigInv, ReadyInv, ReleaseTick
  PROVE  ReadyInv'
<1>1. /\ Fenced /\ job = None /\ Cancelling("publication") /\ cancel.path = "publication"
      /\ Uncommitted = {} /\ Uncleaned = {} /\ Unacknowledged = {} /\ Moved # Units
      /\ UNCHANGED peerVars /\ UNCHANGED <<halted, cancel, undo>> /\ At("query") # "catalog"
      /\ task.state = "cancelling" /\ task.resume = ""
  BY DEF ReleaseTick, Cancelling, Tick, Unchanged, cancelVars, cancelPeerVars, MigInv, TaskFits
<1>2. PICK place : place = At("query") OBVIOUS
<1>3. place \in {"query", "census", "release"} BY <1>1, <1>2, ClosingPlace
<1>4. ~Aborting BY <1>1, NobodyAborts
<1>5. CASE Delay BY <1>1, <1>5, TickEnds DEF Delay, NoCall
<1>6. ASSUME NEW to \in Sides, NEW what \in Closings, Call(to, what, 0, 0),
             to = IF what = "close" THEN "target" ELSE "source"
      PROVE  ReadyInv'
  <2>1. Shaped(Request(to, what, 0, lease.epoch, 0)) /\ Meets(Request(to, what, 0, lease.epoch, 0))
    BY <1>1, <1>4, <1>6 DEF Shaped, Meets, Request, Aborts, Closings, Forwards, UnitCancels
  <2> QED BY <1>1, <1>6, <2>1, CallsReady DEF Request, Forwards, Closings
<1>7. CASE CloseTask(Cardinality(Withdrawn)) /\ UNCHANGED unit
  <2>1. /\ task' = [task EXCEPT !.state = "cancelled", !.error = ""]
        /\ runner' = [runner EXCEPT !.live = FALSE] /\ UNCHANGED <<net, job, answer>>
    BY <1>7 DEF CloseTask, NoCall
  <2>2. task'.state = "cancelled" /\ task'.resume = "" /\ task'.error = "" /\ runner'.epoch = runner.epoch
    BY <1>1, <2>1 DEF MigInv, MasterTypes, TaskRows
  <2>3. SameTask BY <1>1, <2>2 DEF SameTask
  <2> QED BY <1>1, <1>7, <2>1, <2>2, <2>3, TaskStays
<1>8. Delay \/ Call("source", place, 0, 0) \/ Call("target", "close", 0, 0)
      \/ (CloseTask(Cardinality(Withdrawn)) /\ UNCHANGED unit)
  BY <1>2 DEF ReleaseTick
<1> QED BY <1>3, <1>5, <1>6, <1>7, <1>8 DEF Closings, Sides

\* Before publication nothing but the task is aborted.
LEMMA PendingUnits ==
  ASSUME MigInv, cancel.path = "prepublication", task.state = "cancelling"
  PROVE  /\ \A u \in Units : unit[u].state = "pending"
         /\ Uncleaned # {} /\ Moved = {} /\ Withdrawn = {}
<1>1. \A u \in Units : unit[u].state = "pending" BY DEF MigInv, TaskFits
<1>2. 1 \in Units BY CountsAssumption DEF Units
<1> QED BY <1>1, <1>2 DEF Uncleaned, Moved, Withdrawn, Committed

\* Both members are stopped before either is cleaned.
LEMMA AbortTickReady ==
  ASSUME MigInv, ReadyInv, AbortTick
  PROVE  ReadyInv'
<1>1. /\ Fenced /\ job = None /\ task.state = "cancelling" /\ cancel.path = "prepublication"
      /\ UNCHANGED peerVars /\ UNCHANGED <<halted, cancel, undo>>
  BY DEF AbortTick, Cancelling, Tick, Unchanged, cancelVars, cancelPeerVars
<1>2. PICK step \in DOMAIN AbortCalls :
        step = At("stop_source") /\ Call(AbortCalls[step][1], AbortCalls[step][2], 0, 0)
  BY DEF AbortTick
<1>3. step \in {"stop_source", "stop_target", "stop_waiting", "clean_target", "clean_source"}
  BY DEF AbortCalls
<1>4. PICK to \in Sides, what \in Aborts :
        /\ Call(to, what, 0, 0)
        /\ what = "abort_clean" => step = IF to = "source" THEN "clean_source" ELSE "clean_target"
        /\ what = "abort_stop" /\ to = "target" => step \in {"stop_target", "stop_waiting"}
  BY <1>2, <1>3 DEF AbortCalls, Sides, Aborts
<1>5. step # "stop_source" => cancel.at.epoch = lease.epoch /\ cancel.at.step = step BY <1>2 DEF At
<1>6. what = "abort_clean" => \A s \in {"source", to} : Halted(s)
  BY <1>4, <1>5 DEF ReadyInv, TaskReady, Sides
<1>7. what = "abort_stop" /\ to = "target" =>
        cancel.at.epoch = lease.epoch /\ cancel.at.step \in {"stop_target", "stop_waiting"}
  BY <1>4, <1>5
<1>8. Uncleaned # {} BY <1>1, PendingUnits
<1>9. Shaped(Request(to, what, 0, lease.epoch, 0)) /\ Meets(Request(to, what, 0, lease.epoch, 0))
  BY <1>6, <1>7, <1>8 DEF Shaped, Meets, Request, Aborts, Closings, Forwards, UnitCancels
<1> QED BY <1>1, <1>4, <1>9, CallsReady DEF Request, Forwards, Aborts

\* A cancellation before publication closes every unit at once.
LEMMA AbortFinishReady ==
  ASSUME MigInv, ReadyInv, AbortFinish
  PROVE  ReadyInv'
<1>1. /\ Fenced /\ job = None /\ answer = None /\ task.state = "cancelling" /\ cancel.path = "prepublication"
      /\ UNCHANGED peerVars /\ UNCHANGED <<halted, cancel, undo>> /\ At("stop_source") = "finish"
      /\ task.resume = ""
  BY IdleUnanswered DEF AbortFinish, Cancelling, Tick, Unchanged, cancelVars, cancelPeerVars, MigInv, TaskFits
<1>2. \A u \in Units : unit[u].state = "pending" BY <1>1, PendingUnits
<1>3. books.reserved = N
  <2>1. Moved = {} /\ Withdrawn = {} BY <1>1, PendingUnits
  <2>2. Cardinality({}) = 0 BY FS_EmptySet
  <2>3. Cardinality(Moved) = 0 /\ Cardinality(Withdrawn) = 0 BY <2>1, <2>2, Zenon
  <2>4. books.reserved = N - 0 - 0 BY <2>3 DEF MigInv, BooksAgree
  <2> QED BY <2>4, CountsAssumption
<1>4. /\ task' = [task EXCEPT !.state = "cancelled", !.error = ""]
      /\ unit' = [u \in Units |-> [unit[u] EXCEPT !.state = "cancelled"]]
      /\ Release /\ NoCall
  BY <1>3 DEF AbortFinish
<1>5. /\ UNCHANGED <<net, job, answer>> /\ runner'.epoch = runner.epoch
  BY <1>4, ReleaseKeepsEpoch DEF NoCall
<1>6. \A u \in Units : /\ unit'[u].state = "cancelled" /\ unit'[u].acks = {}
                       /\ unit'[u].copied = unit[u].copied
  <2> SUFFICES ASSUME NEW u \in Units
               PROVE  /\ unit'[u].state = "cancelled" /\ unit'[u].acks = {}
                      /\ unit'[u].copied = unit[u].copied
    OBVIOUS
  <2>1. u \in Uncommitted BY <1>2 DEF Uncommitted, Committed
  <2>2. unit[u] \in UnitRows /\ unit[u].acks = {} BY <2>1, OpenRows
  <2> QED BY <1>4, <2>2 DEF UnitRows
<1>7. Pending' = Pending /\ (Turned' <=> Turned) /\ Begun'
  <2>1. Pending' = Pending BY <1>1, <1>5 DEF Pending, peerVars
  <2>2. \A s \in Sides : peer[s].state = "aborted" BY <1>1 DEF At, MigInv, TaskFits, Sides
  <2> QED BY <1>1, <1>5, <2>1, <2>2 DEF Turned, Begun, peerVars, Sides
<1>8. ASSUME NEW u \in Units PROVE UnitReady(u)'
  <2>1. UnitReady(u) BY DEF ReadyInv, UnitsReady
  <2>2. Asked(u)' <=> Asked(u) BY <1>1, <1>7 DEF Asked, peerVars
  <2>3. Asked(u)' => Foreseen(u)' BY <1>6, <2>1, <2>2 DEF Foreseen, UnitReady
  <2>4. UNCHANGED <<src, tgt>> BY <1>1 DEF peerVars
  <2> QED BY <1>1, <1>6, <1>7, <2>1, <2>3, <2>4 DEF UnitReady
<1>9. TaskReady'
  <2>1. task'.state = "cancelled" /\ task'.resume = "" /\ task'.error = ""
    BY <1>1, <1>4 DEF MigInv, MasterTypes, TaskRows
  <2>2. \A s \in Sides : Halted(s)' <=> Halted(s) BY <1>1 DEF Halted, peerVars
  <2>3. Uncommitted' = {} BY <1>6 DEF Uncommitted
  <2> QED BY <1>1, <1>7, <2>1, <2>2, <2>3 DEF ReadyInv, TaskReady, Sides
<1>10. job' = None /\ answer' = None /\ UNCHANGED <<net, halted>> BY <1>1, <1>5
<1>11. \A r \in Pending : undo[r.unit].target => undo'[r.unit].target BY <1>1
<1>12. UnitsReady' BY <1>8 DEF UnitsReady
<1> QED BY <1>1, <1>9, <1>10, <1>11, <1>12, NoCallReady

\* A cancellation that takes units back starts where both members had begun.
LEMMA CancelReady ==
  ASSUME MigInv, ReadyInv, Cancel
  PROVE  ReadyInv'
<1>1. PICK from : from = IF task.state \in {"paused", "failed"} THEN task.resume ELSE task.state OBVIOUS
<1>2. /\ from \in Pausable /\ cancel' = [cancel EXCEPT !.path = Path(from)]
      /\ task' = [state |-> "cancelling", resume |-> "", reason |-> "", error |-> ""]
      /\ Revoke /\ UNCHANGED peerVars /\ UNCHANGED <<net, job, answer, halted, unit, undo>>
  BY <1>1 DEF Cancel, Controls, callVars, cancelPeerVars
<1>3. cancel.path = "" BY <1>1, <1>2 DEF MigInv, TaskFits, Pausable
<1>4. cancel'.path = Path(from) /\ cancel'.at = cancel.at /\ cancel'.stops = cancel.stops
  BY <1>2 DEF MigInv, MasterTypes, Journals
<1>5. runner'.epoch = runner.epoch BY <1>2 DEF Revoke, MigInv, MasterTypes
<1>6. "committing" \in {task.state, task.resume} => cancel'.path = "publication"
  BY <1>1, <1>4 DEF Path, MigInv, TaskFits
<1>7. cancel'.path = "publication" => Begun
  <2>1. ASSUME NEW u \in Units, unit[u].state # "pending" PROVE Begun
    BY <2>1 DEF ReadyInv, UnitsReady, UnitReady
  <2>2. from \in {"committing", "cleanup_pending"} => Begun BY <1>1 DEF ReadyInv, TaskReady
  <2> QED BY <1>4, <2>1, <2>2 DEF Path
<1>8. TaskReady'
  <2>1. \A s \in Sides : Halted(s)' <=> Halted(s) BY <1>2 DEF Halted, peerVars
  <2>2. Uncommitted' = Uncommitted BY <1>2 DEF Uncommitted
  <2>3. Begun' <=> Begun BY <1>2 DEF Begun, peerVars
  <2> QED BY <1>2, <1>4, <1>7, <2>1, <2>2, <2>3 DEF ReadyInv, TaskReady, Sides
<1> QED BY <1>2, <1>3, <1>4, <1>5, <1>6, <1>8, MasterStays

\* The answers to a cancellation are written where the next call looks for them.
LEMMA JournalWritten ==
  ASSUME MigInv, ReadyInv, Fenced, answer # None, job.what \notin Moves, Journal,
         answer.kind \in {"ok", "wait"}, ~Waits, job' = None, answer' = None, Keep \/ Release,
         UNCHANGED peerVars, UNCHANGED <<net, halted, unit>>,
         task'.state = task.state, task'.resume = task.resume, task'.error # "refused"
  PROVE  ReadyInv'
<1>1. PICK r, u, n : r = job /\ u = job.unit /\ n = answer.receipt OBVIOUS
<1>2. /\ r.what \in Cancels \cup Aborts /\ (r.what \in UnitCancels => u \in Units)
      /\ r \in Requests /\ r.to \in Sides /\ RequestFits(r) /\ r.epoch = lease.epoch
  BY <1>1, CancelJob, AnsweredJob DEF RequestFits
<1>3. cancel \in Journals /\ undo \in [Units -> UndoRows] BY DEF MigInv, MasterTypes
<1>4. Meets(r) /\ (answer.kind = "ok" => Heard(r, n)) BY <1>1, HeardOf
<1>5. answer.kind = "ok" \/ (r.what = "abort_stop" /\ r.to = "source") BY <1>1 DEF Waits
<1>6. /\ "source" \in cancel.stops.sides => "source" \in halted
      /\ cancel.at.step \in {"stop_target", "clean_target", "clean_source", "finish"} => Halted("source")
      /\ cancel.at.step \in {"clean_target", "clean_source", "finish"} => Halted("target")
      /\ cancel.at.step \in {"census", "catalog", "release"} => Uncommitted = {}
  BY DEF ReadyInv, TaskReady
<1>7. runner'.epoch = runner.epoch BY ReleaseKeepsEpoch
<1>8. ASSUME UNCHANGED cancel, \A v \in Units : undo[v].target => undo'[v].target PROVE ReadyInv'
  BY <1>6, <1>7, <1>8, JournalReady
<1>9. ASSUME UNCHANGED undo, cancel'.path = cancel.path, cancel'.at = cancel.at,
             "source" \in cancel'.stops.sides => "source" \in halted
      PROVE  ReadyInv'
  BY <1>6, <1>7, <1>9, JournalReady
<1>10. ASSUME NEW step, Next2(step),
              step \in {"stop_target", "clean_target", "clean_source", "finish"} => Halted("source"),
              step \in {"clean_target", "clean_source", "finish"} => Halted("target"),
              step \in {"census", "catalog", "release"} => Uncommitted = {}
       PROVE  ReadyInv'
  <2>1. cancel' = [cancel EXCEPT !.at = [epoch |-> lease.epoch, step |-> step]] /\ undo' = undo
    BY <1>10 DEF Next2
  <2>2. cancel'.path = cancel.path /\ cancel'.stops = cancel.stops /\ cancel'.at.step = step
    BY <1>3, <2>1 DEF Journals
  <2> QED BY <1>6, <1>7, <1>10, <2>1, <2>2, JournalReady
<1>11. CASE r.what = "stop"
  <2>1. cancel' = [cancel EXCEPT !.stops = [epoch |-> lease.epoch, sides |-> StoppedNow \cup {r.to}]]
        /\ undo' = undo
    BY <1>1, <1>11 DEF Journal, StopLearned
  <2>2. /\ cancel'.path = cancel.path /\ cancel'.at = cancel.at
        /\ cancel'.stops.sides = StoppedNow \cup {r.to}
    BY <1>3, <2>1 DEF Journals
  <2>3. "source" \in StoppedNow => "source" \in halted BY <1>6 DEF StoppedNow
  <2>4. r.to = "source" => "source" \in halted BY <1>4, <1>5, <1>11 DEF Heard
  <2> QED BY <1>9, <2>1, <2>2, <2>3, <2>4
<1>12. CASE r.what \in UnitCancels
  <2>1. u \in Units /\ undo[u] \in UndoRows BY <1>2, <1>3, <1>12
  <2>2. ASSUME NEW row, Learned(u, row), undo[u].target => row.target PROVE ReadyInv'
    <3>1. undo' = [undo EXCEPT ![u] = row] /\ UNCHANGED cancel BY <2>2 DEF Learned
    <3>2. undo'[u] = row /\ \A v \in Units \ {u} : undo'[v] = undo[v] BY <1>3, <2>1, <3>1
    <3> QED BY <1>8, <2>2, <3>1, <3>2
  <2>3. CASE r.what = "prove"
    <3> DEFINE row == [undo[u] EXCEPT !.proof = job.epoch]
    <3>1. Learned(u, row) BY <1>1, <2>3 DEF Journal
    <3>2. row.target = undo[u].target BY <2>1 DEF UndoRows
    <3> HIDE DEF row
    <3> QED BY <2>2, <3>1, <3>2
  <2>4. CASE r.what = "undo"
    <3> DEFINE row == [undo[u] EXCEPT !.target = answer.phase = "cancelled"]
    <3>1. Learned(u, row) BY <1>1, <2>4 DEF Journal
    <3>2. ~undo[u].target BY <1>1, <1>4, <2>4 DEF Meets
    <3> HIDE DEF row
    <3> QED BY <2>2, <3>1, <3>2
  <2>5. CASE r.what = "retain"
    <3> DEFINE row == [undo[u] EXCEPT !.source = TRUE]
    <3>1. Learned(u, row) BY <1>1, <2>5 DEF Journal
    <3>2. row.target = undo[u].target BY <2>1 DEF UndoRows
    <3> HIDE DEF row
    <3> QED BY <2>2, <3>1, <3>2
  <2>6. CASE r.what = "settle"
    <3> DEFINE row == [undo[u] EXCEPT !.settled = @ \cup {job.to}]
    <3>1. Learned(u, row) BY <1>1, <2>6 DEF Journal
    <3>2. row.target = undo[u].target BY <2>1 DEF UndoRows
    <3> HIDE DEF row
    <3> QED BY <2>2, <3>1, <3>2
  <2> QED BY <1>12, <2>3, <2>4, <2>5, <2>6 DEF UnitCancels
<1>13. r.what \in Closings => Uncommitted = {}
  BY <1>2 DEF RequestFits, Uncleaned, Uncommitted, Committed
<1>14. UNCHANGED cancelVars => ReadyInv' BY <1>8 DEF cancelVars
<1>15. CASE r.what \in {"query", "release", "close"}
  <2>1. ReleaseLearned BY <1>1, <1>15 DEF Journal
  <2>2. CASE Recorded(r.to)
    <3>1. cancel' = [cancel EXCEPT !.records = @ \cup {r.to}] /\ undo' = undo BY <2>2 DEF Recorded
    <3>2. cancel'.path = cancel.path /\ cancel'.at = cancel.at /\ cancel'.stops = cancel.stops
      BY <1>3, <3>1 DEF Journals
    <3> QED BY <1>6, <1>9, <3>1, <3>2
  <2>3. CASE Next2("census") BY <1>10, <1>13, <1>15, <2>3 DEF Closings
  <2> QED BY <1>1, <1>14, <2>1, <2>2, <2>3 DEF ReleaseLearned
<1>16. CASE r.what = "census"
  <2>1. Next2("catalog") \/ UNCHANGED cancelVars BY <1>1, <1>16 DEF Journal, CensusLearned
  <2>2. Next2("catalog") => ReadyInv' BY <1>10, <1>13, <1>16 DEF Closings
  <2> QED BY <1>14, <2>1, <2>2
<1>17. CASE r.what = "abort_stop"
  <2>1. AbortLearned BY <1>1, <1>17 DEF Journal
  <2>2. CASE r.to = "target"
    <3>1. answer.kind = "ok" /\ At("") # "stop_waiting" BY <1>1, <1>5, <1>17, <2>2 DEF Waits
    <3>2. cancel.at.epoch = lease.epoch /\ cancel.at.step = "stop_target"
      BY <1>2, <1>4, <1>17, <2>2, <3>1 DEF Meets, At
    <3>3. Halted("source") /\ Halted("target") BY <1>4, <1>6, <1>17, <2>2, <3>1, <3>2 DEF Heard
    <3>4. Next2("clean_target") BY <1>1, <1>17, <2>1, <2>2 DEF AbortLearned
    <3> QED BY <1>10, <3>3, <3>4
  <2>3. CASE r.to = "source"
    <3>1. answer.kind = "ok" => Halted("source") BY <1>4, <1>17, <2>3 DEF Heard
    <3>2. Next2(IF answer.kind = "wait" THEN "stop_waiting" ELSE "stop_target")
      BY <1>1, <1>17, <2>1, <2>3 DEF AbortLearned
    <3> QED BY <1>10, <3>1, <3>2
  <2> QED BY <1>2, <2>2, <2>3 DEF Sides
<1>18. CASE r.what = "abort_clean"
  <2>1. AbortLearned BY <1>1, <1>18 DEF Journal
  <2>2. Halted("source") /\ Halted(r.to) BY <1>4, <1>18 DEF Meets
  <2>3. r.to = "source" => Halted("target") BY <1>2, <1>18 DEF RequestFits, Halted
  <2>4. Halted("target") BY <1>2, <2>2, <2>3 DEF Sides
  <2>5. UNCHANGED cancelVars \/ Next2("clean_source") \/ Next2("finish") BY <1>1, <1>18, <2>1 DEF AbortLearned
  <2> QED BY <1>10, <1>14, <2>2, <2>4, <2>5
<1> QED BY <1>2, <1>11, <1>12, <1>15, <1>16, <1>17, <1>18 DEF Cancels, Closings, Aborts

\* The runner takes up the answer to a call of the cancellation.
LEMMA CancelAnsweredReady ==
  ASSUME MigInv, ReadyInv, CancelAnswered
  PROVE  ReadyInv'
<1>1. /\ answer # None /\ job.what \notin Moves /\ job' = None /\ answer' = None
      /\ UNCHANGED peerVars /\ UNCHANGED <<net, unit, halted>>
  BY DEF CancelAnswered, cancelPeerVars
<1>2. answer.kind \in Outcomes \ {"refused"} BY <1>1, HeardOf
<1>3. task \in TaskRows /\ task.error # "refused" BY DEF MigInv, MasterTypes, ReadyInv, TaskReady
<1>4. CASE ~Fenced BY <1>1, <1>4, AnswerEndsReady DEF CancelAnswered, cancelVars
<1>5. CASE Fenced /\ answer.kind \notin {"ok", "wait"}
  <2>1. /\ Release /\ UNCHANGED cancelVars
        /\ Fail(answer.kind) \/ task' = [task EXCEPT !.error = answer.kind]
    BY <1>5 DEF CancelAnswered
  <2>2. answer.kind \in Errors \ {"refused"} BY <1>2 DEF Errors
  <2> QED BY <1>1, <1>5, <2>1, <2>2, AnswerEndsReady DEF cancelVars
<1>6. CASE Fenced /\ answer.kind \in {"ok", "wait"} /\ Waits
  <2>1. Note /\ Release /\ UNCHANGED cancelVars BY <1>6 DEF CancelAnswered
  <2>2. "wait" \in Errors \ {"refused"} BY DEF Errors, Outcomes
  <2> QED BY <1>1, <2>1, <2>2, AnswerEndsReady DEF cancelVars, Note
<1>7. CASE Fenced /\ answer.kind \in {"ok", "wait"} /\ ~Waits
  <2>1. /\ Journal
        /\ Keep \/ Release
        /\ task' = IF cancel.path = "publication" THEN [task EXCEPT !.error = ""] ELSE task
    BY <1>7 DEF CancelAnswered
  <2>2. task'.state = task.state /\ task'.resume = task.resume /\ task'.error # "refused"
    BY <1>3, <2>1 DEF TaskRows
  <2> QED BY <1>1, <1>7, <2>1, <2>2, JournalWritten
<1> QED BY <1>4, <1>5, <1>6, <1>7

-----------------------------------------------------------------------------
(* Every step keeps what the calls meet.                                       *)

\* The proof an undo waits with runs out.
LEMMA UndoExpiresReady ==
  ASSUME MigInv, ReadyInv, UndoProofExpires, UNCHANGED <<cancel, cancelPeerVars>>
  PROVE  ReadyInv'
<1>1. CASE ProofRunsOut("target", "undo") /\ UNCHANGED <<masterVars, undo>>
  <2>1. job' = job BY <1>1 DEF ProofRunsOut
  <2>2. UNCHANGED MasterRows BY <1>1, <2>1 DEF MasterRows, masterVars
  <2> QED BY <1>1, <2>2, MembersReady
<1>2. CASE /\ \E u \in Uncommitted : undo' = [undo EXCEPT ![u].proof = 0]
           /\ UNCHANGED <<masterVars, peerVars, callVars>>
  <2>1. PICK u \in Units : undo' = [undo EXCEPT ![u].proof = 0] BY <1>2 DEF Uncommitted
  <2>2. undo \in [Units -> UndoRows] BY DEF MigInv, MasterTypes
  <2>3. \A v \in Units : undo'[v].target = undo[v].target BY <2>1, <2>2 DEF UndoRows
  <2>4. UNCHANGED peerVars /\ UNCHANGED <<net, job, answer, halted, cancel, task, runner, unit>>
    BY <1>2 DEF masterVars, callVars, cancelPeerVars
  <2>5. SameTask BY <2>4 DEF SameTask, ReadyInv, TaskReady
  <2> QED BY <2>3, <2>4, <2>5, TaskStays
<1> QED BY <1>1, <1>2 DEF UndoProofExpires

\* Every step of the migration, its cancellation and its faults.
LEMMA StepReady ==
  ASSUME MigInv, ReadyInv, [CancelNext]_allVars
  PROVE  ReadyInv'
<1>1. CASE Next /\ UNCHANGED <<cancelPeerVars, cancelVars>>
  <2>1. UNCHANGED <<halted, cancel, undo>> /\ UNCHANGED cancelPeerVars BY <1>1 DEF cancelVars, cancelPeerVars
  <2>2. CASE MasterStep
    <3>1. CASE Claim \/ LoseLease \/ RunnerExpires \/ CallTimesOut BY <2>1, <3>1, LeasesReady DEF Claim
    <3>2. CASE TrafficPause \/ TrafficResume BY <2>1, <3>2, ControlsReady
    <3>3. CASE Acknowledge \/ CleanupTick \/ FinalizeTick BY <2>1, <3>3, CleanTicksReady
    <3>4. CASE CopyTick \/ VerifyTick BY <2>1, <3>4, CopyTicksReady
    <3>5. CASE CommitTick BY <2>1, <3>5, CommitTicksReady
    <3>6. CASE Cutover BY <2>1, <3>6, CutoverReady
    <3>7. CASE Answered BY <2>1, <3>7, AnsweredReady
    <3>8. CASE \E u \in Units : GraceEnds(u) BY <2>1, <3>8, TimeReady
    <3> QED BY <2>2, <3>1, <3>2, <3>3, <3>4, <3>5, <3>6, <3>7, <3>8 DEF MasterStep
  <2>3. CASE (PeerStep \/ PeerFault) /\ UNCHANGED masterVars
    <3>1. job' = job BY <2>3, MembersAskNobody
    <3>2. UNCHANGED MasterRows BY <2>1, <2>3, <3>1 DEF MasterRows, masterVars
    <3> QED BY <2>1, <2>3, <3>2, MembersReady
  <2>4. CASE MasterCrash \/ Traffic BY <2>1, <2>4, LeasesReady
  <2>5. CASE Pause \/ Resume \/ Retry BY <2>1, <2>5, ControlsReady
  <2>6. CASE \E u \in Units : ProofExpires(u) BY <2>1, <2>6, TimeReady
  <2> QED BY <1>1, <2>2, <2>3, <2>4, <2>5, <2>6 DEF Next
<1>2. CASE Cancel BY <1>2, CancelReady
<1>3. CASE CancelMasterStep
  <2>1. CASE ClaimCancel BY <2>1, LeasesReady DEF ClaimCancel, cancelVars, cancelPeerVars
  <2>2. CASE TakeBackTick BY <2>2, TakeBackReady
  <2>3. CASE MovedTick BY <2>3, MovedReady
  <2>4. CASE CatalogTick BY <2>4, CatalogReady
  <2>5. CASE ReleaseTick BY <2>5, ReleaseTicksReady
  <2>6. CASE AbortTick BY <2>6, AbortTickReady
  <2>7. CASE AbortFinish BY <2>7, AbortFinishReady
  <2>8. CASE CancelAnswered BY <2>8, CancelAnsweredReady
  <2> QED BY <1>3, <2>1, <2>2, <2>3, <2>4, <2>5, <2>6, <2>7, <2>8 DEF CancelMasterStep
<1>4. CASE CancelPeerStep /\ UNCHANGED cancelVars
  <2>1. UNCHANGED <<masterVars, job>>
    BY <1>4 DEF CancelPeerStep, StopMember, AbortStop, AbortRefused, AbortRelease, ProveRetained, UndoReplay,
       UndoIntent, UndoUnlink, UndoRecord, UndoDirectory, UndoFinish, DiscardIntent, DiscardRecord,
       DiscardFinish, Unwinds, UndoAnswers, Retain, SettleSource, SettleTarget, SourceAnswers, SourceRefuses,
       QueryRelease, CensusStarts, CensusRoster, CensusPhysical, Counts, ReleaseSource, ReleaseTarget,
       AbortIntent, AbortUnlink, AbortRecord, AbortDirectory, Rest
  <2>2. UNCHANGED MasterRows BY <1>4, <2>1 DEF MasterRows, masterVars, cancelVars
  <2> QED BY <1>4, <2>2, MembersReady
<1>5. CASE SourceRestarts /\ UNCHANGED cancelVars
  <2>1. UNCHANGED MasterRows BY <1>5 DEF SourceRestarts, MasterRows, masterVars, callVars, cancelVars
  <2> QED BY <1>5, <2>1, MembersReady
<1>6. CASE UndoProofExpires /\ UNCHANGED <<cancel, cancelPeerVars>> BY <1>6, UndoExpiresReady
<1>7. CASE UNCHANGED allVars
  <2>1. UNCHANGED peerVars /\ UNCHANGED <<net, job, answer, halted, cancel, task, runner, unit, undo>>
    BY <1>7 DEF allVars, vars, masterVars, callVars, cancelVars, cancelPeerVars
  <2>2. SameTask BY <2>1 DEF SameTask, ReadyInv, TaskReady
  <2> QED BY <2>1, <2>2, TaskStays
<1> QED BY <1>1, <1>2, <1>3, <1>4, <1>5, <1>6, <1>7 DEF CancelNext

\* A task that has just been prepared has asked for nothing.
LEMMA InitReady ==
  ASSUME CancelInit
  PROVE  ReadyInv
<1>1. /\ \A s \in Sides : work[s] = None
      /\ \A u \in Units : /\ src[u].unit = "pending" /\ src[u].file /\ src[u].entry = "none" /\ src[u].receipt = 0
                          /\ tgt[u].unit = "pending" /\ tgt[u].entry = "none"
                          /\ unit[u].state = "pending" /\ ~unit[u].copied /\ unit[u].acks = {}
      /\ net = {} /\ job = None /\ answer = None
  BY DEF CancelInit, Init, PeersInit
<1>2. /\ task.state = "copying" /\ task.resume = "" /\ task.error = ""
      /\ cancel.path = "" /\ cancel.stops.sides = {} /\ cancel.at.step = "begin"
  BY DEF CancelInit, Init
<1>3. Pending = {} BY <1>1 DEF Pending
<1>4. ASSUME NEW u \in Units PROVE UnitReady(u)
  <2>1. ~Asked(u) BY <1>1, <1>3 DEF Asked, Passed
  <2> QED BY <1>1, <2>1 DEF UnitReady, Placed, Gone, Committed
<1>5. WorkReady BY <1>1 DEF WorkReady, Sides
<1>6. RequestsReady /\ JobReady /\ AnswerReady BY <1>1, <1>3 DEF RequestsReady, JobReady, AnswerReady
<1>7. TaskReady BY <1>2 DEF TaskReady
<1> QED BY <1>4, <1>5, <1>6, <1>7 DEF ReadyInv, UnitsReady

\* Whatever is lost, late, repeated, restarted, paused or cancelled: no call the
\* Master waits for is ever refused, so no task stops at a protocol refusal.
THEOREM NothingRefused == CancelSpec => []NoRefusal
<1>1. CancelInit => ReadyInv BY InitReady
<1>2. MigInv /\ ReadyInv /\ [CancelNext]_allVars => ReadyInv' BY StepReady
<1>3. ReadyInv => NoRefusal BY DEF ReadyInv, TaskReady, NoRefusal
<1> QED BY <1>1, <1>2, <1>3, MigInvariant, PTL DEF CancelSpec
=============================================================================
