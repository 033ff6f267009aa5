------------------------- MODULE MigrationPeers_proof -------------------------
(* Proofs about a migration and its cancellation for every number of units     *)
(* and of faults.  The invariant says what a request under way, or a row       *)
(* written by one, still proves about the other side: it rests on the epochs   *)
(* of the runner, which order the requests, and on facts that never change     *)
(* back (a member released, a copy undone, a unit settled).                    *)
EXTENDS MigrationCancel, FiniteSetTheorems, TLAPS

-----------------------------------------------------------------------------
(* Types.                                                                      *)

Forwards == {"copy", "publish", "verify"}
UnitCancels == {"prove", "undo", "retain", "settle"}
Closings == {"query", "census", "release", "close"}
Aborts == {"abort_stop", "abort_clean"}
Cancels == UnitCancels \cup Closings \cup {"stop"}
Kinds == Forwards \cup {"commit", "inspect", "cleanup", "finalize"} \cup Cancels \cup Aborts

Requests == [kind : {"request"}, to : Sides, what : Kinds, unit : 0..N, epoch : Nat, receipt : Nat]
Cutovers == [kind : {"request"}, to : {"master"}, what : {"cutover"}, unit : Units, epoch : Nat,
             receipt : Nat]

Steps == {"begin", "fetch", "receive", "stream", "moved", "unlink", "record"}
Works == [kind : {"work"}, req : Requests, step : Steps]

Outcomes == {"ok", "wait", "writer_active", "refused", "proof_expired", "census_lost"}
Errors == Outcomes \cup {"", "proof_stale"}

SrcStates == Copyable \cup {"verified", "retained", "settled"} \cup Committed
SrcRows == [unit : SrcStates, receipt : Nat, file : BOOLEAN, entry : {"none", "deleting", "deleted"},
            scan : {"none", "ready", "final"}, missing : BOOLEAN]

Undone == {"aborting", "aborted", "removed", "discarding", "discarded", "dropped"}
TgtStates == Copyable \cup {"assembling", "moving", "registering", "scanning", "published", "committed"}
             \cup Gone
TgtRows == [unit : TgtStates,
            entry : {"none", "receiving", "verified", "publishing", "published"} \cup Undone,
            file : {"none", "part", "public"}]

Purposes == {"probe", "copy", "publish", "verify", "commit", "inspect", "cleanup", "finalize",
             "cancel", "abort"}
Peers == [state : {"prepared", "active", "aborting", "aborted", "released"}, epoch : Nat,
          what : Purposes]

PeerTypes ==
  /\ peer \in [Sides -> Peers]
  /\ src \in [Units -> SrcRows]
  /\ tgt \in [Units -> TgtRows]
  /\ native \in [reserved : Int, used : Int]
  /\ net \subseteq Requests
  /\ work \in [Sides -> Works \cup {None}]

UnitRows == [state : {"pending", "publishing", "cancelled"} \cup Committed, copied : BOOLEAN,
             target : Nat, source : Nat, receipt : Nat, acks : SUBSET Sides, live : Nat,
             grace : {"none", "running", "over"}]

TaskRows == [state : Active \cup {"paused", "failed", "completed", "cancelled"},
             resume : Active \cup {""}, reason : {"", "manual", "traffic"}, error : Errors]

Places == {"begin", "census", "catalog", "release", "stop_target", "stop_waiting", "clean_target",
           "clean_source", "finish"}
Journals == [path : {"", "publication", "prepublication"},
             stops : [epoch : Nat, sides : SUBSET Sides], at : [epoch : Nat, step : Places],
             records : SUBSET Sides]
UndoRows == [proof : Nat, target : BOOLEAN, source : BOOLEAN, settled : SUBSET Sides]

MasterTypes ==
  /\ task \in TaskRows
  /\ runner \in [epoch : Nat \ {0}, live : BOOLEAN]
  /\ lease \in [epoch : Nat, current : BOOLEAN]
  /\ unit \in [Units -> UnitRows]
  /\ receipts \subseteq Sides
  /\ books \in [source : Int, reserved : Int, target : Int]
  /\ job \in Requests \cup Cutovers \cup {None}
  /\ answer # None => answer.kind \in Outcomes
  /\ cancel \in Journals
  /\ undo \in [Units -> UndoRows]

-----------------------------------------------------------------------------
(* Requests.                                                                   *)

\* Sent and not served to the end.
Pending == net \cup {work[s].req : s \in {t \in Sides : work[t] # None}}

Shaped(r) ==
  /\ r.what \in {"copy", "publish", "inspect", "undo"} => r.to = "target" /\ r.unit \in Units
  /\ r.what \in {"verify", "cleanup", "prove", "retain"} => r.to = "source" /\ r.unit \in Units
  /\ r.what \in {"commit", "settle"} => r.unit \in Units
  /\ r.what \in {"query", "census", "release"} => r.to = "source"
  /\ r.what = "close" => r.to = "target"

\* A handler serves the requests of its member, and the Source the copying of
\* the Target's.
WorkFits ==
  \A s \in Sides : work[s] # None =>
    /\ work[s].req.to = s \/ (work[s].req.what = "copy" /\ s = "source")
    /\ work[s].step = "stream" <=> work[s].req.what = "copy" /\ s = "source"
    /\ work[s].step \in {"fetch", "receive"} => work[s].req.what = "copy"
    /\ work[s].step = "moved" => work[s].req.what = "publish"
    /\ work[s].step \in {"unlink", "record"} =>
         work[s].req.what \in {"cleanup", "undo", "abort_clean"}

\* What is under way in the epoch of the lease is the awaited call, until it
\* was answered.
EpochsFit ==
  /\ lease.epoch \in {0, runner.epoch}
  /\ lease.epoch = 0 => ~lease.current
  /\ \A s \in Sides : peer[s].epoch <= runner.epoch
  /\ \A r \in Pending :
       /\ r.epoch <= runner.epoch /\ r.epoch # 0
       /\ r.epoch = lease.epoch => r = job
  /\ job # None => lease.epoch # 0 /\ job.epoch = lease.epoch

\* A request is in one place, a copy in two while it streams; its answer is
\* the last of it.
AnswersLast ==
  /\ \A s \in Sides : work[s] # None => work[s].req \notin net
  /\ work["source"] # None /\ work["target"] # None /\ work["source"].req = work["target"].req =>
       work["target"].step = "receive"
  /\ answer # None =>
       /\ job # None /\ job.to \in Sides /\ job \notin net
       /\ \A s \in Sides : work[s] # None /\ work[s].req = job =>
            s = "source" /\ work[s].step = "stream" /\ answer.kind = "wait"

\* The last states of a member leave only the requests that led there.
BoundFits ==
  \A s \in Sides :
    /\ peer[s].state = "released" /\ work[s] # None => Purpose(work[s].req.what) = "finalize"
    /\ peer[s].state = "aborted" /\ work[s] # None => work[s].req.what \in Aborts
    /\ peer[s].state = "aborting" => peer[s].what = "abort"
    /\ peer[s].state = "prepared" => peer[s].what \notin {"copy", "publish"}
    /\ peer[s].state \in {"aborting", "aborted"} => cancel.path = "prepublication"

\* What made the Master send a request still holds.
RequestFits(r) ==
  /\ Shaped(r)
  /\ r.what \in {"commit", "cleanup"} => unit[r.unit].state \in Committed
  /\ r.what = "cleanup" => Uncommitted = {}
  /\ r.what \in {"finalize"} \cup Closings => Uncleaned = {}
  /\ r.what = "finalize" /\ r.to = "target" => peer["source"].state = "released"
  /\ r.what = "close" => peer["source"].state = "released"
  /\ r.what \in UnitCancels => unit[r.unit].state \notin Committed
  /\ r.what \in {"retain", "settle"} => tgt[r.unit].unit \in Gone
  /\ r.what = "settle" => src[r.unit].unit \in {"retained", "settled"}
  /\ r.what = "settle" /\ r.to = "target" => src[r.unit].unit = "settled"
  /\ r.what \in Cancels => cancel.path = "publication"
  /\ r.what \in Aborts => cancel.path = "prepublication"
  /\ r.what = "abort_clean" /\ r.to = "source" => peer["target"].state = "aborted"

\* What else holds of a request of the last runner.
LastRunner(r) ==
  r.epoch = runner.epoch =>
    /\ r.what = "copy" => ~unit[r.unit].copied
    /\ r.what = "publish" => unit[r.unit].target # runner.epoch
    /\ r.what = "verify" => unit[r.unit].source # runner.epoch
    /\ r.what \in Cancels => \A u \in Units : runner.epoch \notin {unit[u].target, unit[u].source}

\* The requests before a cancellation are older than those of it.
Overtaken(r) ==
  r.what \in Cancels => \A q \in Pending : q.what \in Forwards => q.epoch < r.epoch

RequestsFit == \A r \in Pending : RequestFits(r) /\ LastRunner(r) /\ Overtaken(r)

\* The awaited call belongs to the task's state, unless a control took the
\* revision from the worker.
JobFits ==
  job # None =>
    /\ job \in Requests => RequestFits(job) /\ LastRunner(job) /\ Overtaken(job)
    /\ job.what \in Forwards \cup {"cutover"} => job.unit \in Uncommitted
    /\ job.what \in {"publish", "verify"} => unit[job.unit].copied
    /\ job.what = "verify" => unit[job.unit].state # "pending"
    /\ job.what = "cleanup" => job.unit \in Uncleaned
    /\ lease.current =>
         /\ job.what = "copy" => task.state = "copying"
         /\ job.what \in {"publish", "verify", "cutover"} => task.state = "committing"
         /\ job.what \in Cancels \cup Aborts => task.state = "cancelling"

\* A request that could touch a unit which has moved, or is being taken back,
\* is older than the last request its member bound.
Late(r) ==
  /\ peer[r.to].state \in {"active", "released"} /\ r.epoch < peer[r.to].epoch
  /\ r.what = "copy" => peer["source"].state \in {"active", "released"} /\ r.epoch < peer["source"].epoch

LateFits ==
  \A r \in Pending : r.what \in Forwards =>
    /\ unit[r.unit].state \in Committed => Late(r)
    /\ r.to = "target" /\ tgt[r.unit].entry \in Undone =>
         peer["target"].state \in {"aborting", "aborted"} \/ r.epoch < peer["target"].epoch

-----------------------------------------------------------------------------
(* The units at the members.                                                   *)

SrcFits(u) ==
  /\ ~src[u].file => src[u].unit \in {"cleanup_pending", "cleaned"}
  /\ src[u].entry = "deleted" => ~src[u].file
  /\ src[u].unit \in Committed => unit[u].state \in Committed
  /\ src[u].scan = "final" \/ src[u].unit = "cleaned" => src[u].entry = "deleted"

TgtRowFits(row, u) ==
  /\ row.entry \in {"none", "aborted", "removed", "discarded", "dropped"} => row.file = "none"
  /\ row.unit \in Gone => row.entry \in {"removed", "dropped"} /\ cancel.path = "publication"
  /\ row.unit = "moving" => row.entry \in {"publishing"} \cup Undone
  /\ row.unit = "registering" =>
       row.entry \in {"publishing"} \cup Undone /\ (row.entry = "publishing" => row.file = "public")
  /\ row.unit \in {"scanning", "published", "committed"} =>
       row.entry \in {"published"} \cup Undone /\ (row.entry = "published" => row.file = "public")
  /\ row.unit = "committed" => unit[u].state \in Committed
  /\ row.entry \in Undone => cancel.path # ""
TgtFits(u) == TgtRowFits(tgt[u], u)

\* A member that aborts, or has aborted, holds nothing it published.
AbortFits ==
  /\ peer["target"].state \in {"aborting", "aborted"} => \A u \in Units : tgt[u].unit \in Copyable
  /\ peer["target"].state = "aborted" => native.reserved = 0 /\ Unswept = {}
  /\ peer["source"].state = "aborted" => peer["target"].state = "aborted"

CleanupWork ==
  work["source"] # None /\ work["source"].req.what = "cleanup" =>
    LET u == work["source"].req.unit IN
    /\ work["source"].step \in {"unlink", "record"} => src[u].unit = "cleanup_pending"
    /\ work["source"].step = "record" => ~src[u].file

TargetWork ==
  work["target"] # None =>
    LET u == work["target"].req.unit IN
    /\ work["target"].step \in {"fetch", "receive"} => tgt[u].entry = "receiving"
    /\ work["target"].step = "moved" =>
         tgt[u].unit = "moving" /\ tgt[u].entry = "publishing" /\ tgt[u].file = "public"
    /\ work["target"].req.what = "undo" =>
         /\ work["target"].step \in {"unlink", "record"} =>
              tgt[u].unit \notin Gone \cup {"committed"} /\ tgt[u].entry \in {"aborting", "discarding"}
         /\ work["target"].step = "record" => tgt[u].file = "none"
    /\ work["target"].req.what = "abort_clean" =>
         /\ work["target"].step \in {"unlink", "record"} =>
              Staged # {} /\ tgt[First(Staged)].entry = "aborting"
         /\ work["target"].step = "record" => tgt[First(Staged)].file = "none"

\* The way back of a unit, as the members and the Master's journal know it.
Taken(u) ==
  /\ src[u].unit \in {"retained", "settled"} => tgt[u].unit \in Gone
  /\ tgt[u].unit = "settled" => src[u].unit = "settled"
  /\ undo[u].target => tgt[u].unit \in Gone
  /\ undo[u].source => src[u].unit \in {"retained", "settled"}
  /\ "source" \in undo[u].settled => src[u].unit = "settled"
  /\ "target" \in undo[u].settled => tgt[u].unit = "settled"
  /\ unit[u].state = "cancelled" =>
       \/ cancel.path = "publication" /\ src[u].unit = "settled" /\ tgt[u].unit = "settled"
       \/ cancel.path = "prepublication" /\ \A s \in Sides : peer[s].state = "aborted"

\* A unit that moved.
Given(u) ==
  unit[u].state \in Committed =>
    /\ tgt[u].unit \in {"published", "committed"} /\ tgt[u].file = "public" /\ tgt[u].entry = "published"
    /\ src[u].unit \in Committed \cup {"verified"} /\ src[u].receipt = unit[u].receipt
    /\ unit[u].state = "cleaned" => src[u].unit = "cleaned"

\* What the proofs of this epoch say is still true.
TargetProof(u, epoch) ==
  /\ tgt[u].unit = "published" /\ tgt[u].entry = "published"
  /\ peer["target"].state = "active" /\ peer["target"].epoch = epoch
SourceProof(u, epoch, receipt) ==
  /\ src[u].unit = "verified" /\ src[u].receipt = receipt
  /\ peer["source"].state = "active" /\ peer["source"].epoch = epoch

Proved(u) ==
  /\ unit[u].target <= runner.epoch /\ unit[u].source <= runner.epoch
  /\ unit[u].target # 0 \/ unit[u].source # 0 => unit[u].copied /\ unit[u].state # "pending"
  /\ u \in Uncommitted /\ unit[u].target = runner.epoch => TargetProof(u, runner.epoch)
  /\ u \in Uncommitted /\ unit[u].source = runner.epoch => SourceProof(u, runner.epoch, unit[u].receipt)

\* What a successful answer says of the member that gave it.
Told(r, phase, receipt) ==
  /\ r.what = "publish" /\ phase = "published" => TargetProof(r.unit, r.epoch)
  /\ r.what = "verify" => SourceProof(r.unit, r.epoch, receipt)
  /\ r.what = "cleanup" /\ phase = "cleaned" => src[r.unit].unit = "cleaned"
  /\ r.what = "finalize" => peer[r.to].state = "released"
  /\ r.what = "undo" /\ phase = "cancelled" => tgt[r.unit].unit \in Gone
  /\ r.what = "retain" => src[r.unit].unit \in {"retained", "settled"}
  /\ r.what = "settle" =>
       IF r.to = "target" THEN tgt[r.unit].unit = "settled" ELSE src[r.unit].unit = "settled"
  /\ r.what \in {"query", "release", "close"} /\ phase = "released" => peer[r.to].state = "released"
  /\ r.what = "abort_clean" /\ phase # "cleaning" => peer[r.to].state = "aborted"

AnswerFits == answer # None /\ answer.kind = "ok" => Told(job, answer.phase, answer.receipt)

-----------------------------------------------------------------------------
(* The Master's rows.                                                          *)

TaskFits ==
  /\ task.state = "paused" => task.resume \in Pausable
  /\ task.state = "failed" => task.resume \in Active
  /\ task.state \notin {"paused", "failed"} => task.resume = ""
  /\ {task.state, task.resume} \cap {"copying", "verifying"} # {} => Uncommitted # {}
  /\ cancel.path = "" <=> \/ task.state \in Pausable \cup {"completed"}
                          \/ task.state \in {"paused", "failed"} /\ task.resume \in Pausable
  /\ cancel.path = "prepublication" =>
       IF task.state = "cancelled" THEN Units = Withdrawn
                                   ELSE \A u \in Units : unit[u].state = "pending"
  /\ cancel.path # "" /\ lease.current =>
       \A u \in Units : runner.epoch \notin {unit[u].target, unit[u].source}
  /\ \A s \in receipts \cup cancel.records : peer[s].state = "released"
  /\ cancel.at.step \in {"clean_source", "finish"} => peer["target"].state = "aborted"
  /\ cancel.at.step = "finish" => peer["source"].state = "aborted"
  /\ cancel.at.epoch # 0 /\ cancel.path # "prepublication" =>
       cancel.at.step \in {"census", "catalog", "release"}

MembersFit ==
  /\ peer["source"].state = "released" =>
       Uncleaned = {} /\ \A u \in Units : src[u].unit \in {"cleaned", "settled"}
  /\ peer["target"].state = "released" => peer["source"].state = "released" /\ native.reserved = 0
  /\ task.state = "completed" => \A s \in Sides : peer[s].state = "released"
  /\ task.state = "cancelled" =>
       /\ Uncommitted = {} /\ Uncleaned = {}
       /\ \A s \in Sides : peer[s].state = IF cancel.path = "prepublication" THEN "aborted" ELSE "released"

MemberRows ==
  /\ \A u \in Units : SrcFits(u) /\ TgtFits(u)
  /\ AbortFits /\ CleanupWork /\ TargetWork
UnitsFit == \A u \in Units : Taken(u) /\ Given(u) /\ Proved(u)
Flow == EpochsFit /\ AnswersLast /\ BoundFits /\ WorkFits

MigInv ==
  /\ PeerTypes /\ MasterTypes
  /\ Flow /\ RequestsFit /\ JobFits /\ LateFits
  /\ MemberRows /\ UnitsFit /\ AnswerFits
  /\ TaskFits /\ MembersFit /\ BooksAgree

-----------------------------------------------------------------------------
(* The operators of the model.                                                 *)

\* The first of some units is one of them.
LEMMA FirstIsIn ==
  ASSUME NEW S \in SUBSET Units, S # {}
  PROVE  First(S) \in S
<1>1. S \subseteq Nat BY CountsAssumption DEF Units
<1>2. PICK x \in S : \A y \in S : ~(<<y, x>> \in OpToRel(<, Nat))
  BY <1>1, WFMin, NatLessThanWellFounded, Zenon
<1>3. \A y \in S : ~(y < x) BY <1>1, <1>2, Zenon DEF OpToRel
<1>4. \A y \in S : x <= y BY <1>1, <1>3
<1> QED BY <1>4 DEF First

\* What a member works on is one of the Master's requests, and so is whatever
\* is pending.
LEMMA WorkIsRequest ==
  ASSUME PeerTypes, NEW s \in Sides, work[s] # None
  PROVE  work[s] \in Works /\ work[s].req \in Requests /\ work[s].req \in Pending
<1>1. work[s] \in Works BY DEF PeerTypes
<1> QED BY <1>1 DEF Works, Pending

\* What is still being asked, served or answered is a request.
LEMMA PendingAreRequests ==
  ASSUME PeerTypes
  PROVE  Pending \subseteq Requests
BY WorkIsRequest DEF PeerTypes, Pending

\* A purpose is known; copying, publishing, verifying and acknowledging have
\* their own.
LEMMA PurposeIs ==
  ASSUME NEW what \in Kinds
  PROVE  /\ Purpose(what) \in Purposes
         /\ what \in {"copy", "publish", "verify", "commit", "inspect", "cleanup"} => Purpose(what) = what
         /\ Purpose(what) = "verify" <=> what \in {"verify", "prove"}
         /\ Purpose(what) = "finalize" <=> what \in {"finalize"} \cup Closings
         /\ Purpose(what) = "abort" <=> what \in Aborts
         /\ Purpose(what) = "cancel" <=> what \in {"stop", "undo", "retain", "settle"}
         /\ Purpose(what) \in {"copy", "publish", "commit", "inspect", "cleanup"} => what = Purpose(what)
BY DEF Purpose, Purposes, Kinds, Forwards, Cancels, UnitCancels, Closings, Aborts

\* A live grant of a member that is still open is the one it bound last.
LEMMA AliveIsBound ==
  ASSUME PeerTypes, BoundFits, NEW s \in Sides, work[s] # None, Alive(s, work[s].req)
  PROVE  LET r == work[s].req IN
         /\ r.what \notin {"finalize"} \cup Closings \cup Aborts =>
              /\ peer[s].state \in {"prepared", "active"}
              /\ peer[s].epoch = r.epoch /\ peer[s].what = Purpose(r.what)
         /\ peer[s].state \notin {"released", "aborted"} => 
              peer[s].epoch = r.epoch /\ peer[s].what = Purpose(r.what)
<1> DEFINE r == work[s].req
<1>1. r \in Requests BY WorkIsRequest
<1>2. r.what \in Kinds BY <1>1 DEF Requests
<1>3. peer[s] \in Peers BY DEF PeerTypes
<1>4. peer[s].state \in {"prepared", "active", "aborting", "aborted", "released"} BY <1>3 DEF Peers
<1> QED BY <1>2, <1>4, PurposeIs DEF Alive, BoundFits, Aborts, Closings

\* What was answered is not served any more, but for the copy that streams.
LEMMA NotYetAnswered ==
  ASSUME PeerTypes, MasterTypes, Flow, NEW s \in Sides, work[s] # None, work[s].step # "stream",
         answer # None
  PROVE  /\ work[s].req # job
         /\ work[s].req.epoch # job.epoch
BY WorkIsRequest DEF Flow, AnswersLast, EpochsFit

-----------------------------------------------------------------------------
(* What every step of a member keeps.                                          *)

MasterRows == <<task, runner, lease, unit, receipts, books, cancel, undo, job>>

\* A member's step leaves the Master's rows alone, sends nothing, hears no
\* older runner, and takes nothing back.
PeerMove ==
  /\ UNCHANGED MasterRows
  /\ Pending' \subseteq Pending
  /\ \A s \in Sides :
       /\ peer[s].epoch <= peer'[s].epoch
       /\ peer[s].state \in {"released", "aborted"} => peer'[s].state = peer[s].state
       /\ peer[s].state = "aborting" => peer'[s].state \in {"aborting", "aborted"}
       /\ peer[s].state = "active" =>
            peer'[s].state \in {"active", "released"} \/ cancel.path = "prepublication"
  /\ \A u \in Units :
       /\ tgt[u].unit \in Gone => tgt'[u].unit \in Gone
       /\ tgt[u].unit = "settled" => tgt'[u].unit = "settled"
       /\ src[u].unit \in {"retained", "settled"} => src'[u].unit \in {"retained", "settled"}
       /\ src[u].unit \in {"settled", "cleaned"} => src'[u].unit = src[u].unit
       /\ tgt'[u].entry \in Undone =>
            \/ tgt[u].entry \in Undone
            \/ peer["target"].state = "aborting"
            \/ \A q \in Pending : q.what \in Forwards => q.epoch < peer'["target"].epoch

\* So the requests, the awaited call and the task stay as they were.
LEMMA MoveKeepsRequests ==
  ASSUME PeerTypes, RequestsFit, PeerMove
  PROVE  RequestsFit'
<1> SUFFICES ASSUME NEW r \in Pending' PROVE RequestFits(r)' /\ LastRunner(r)' /\ Overtaken(r)'
  BY DEF RequestsFit
<1>1. r \in Pending /\ RequestFits(r) /\ LastRunner(r) /\ Overtaken(r) BY DEF PeerMove, RequestsFit
<1>2. r \in Requests /\ r.to \in Sides BY <1>1, PendingAreRequests DEF Requests
<1>3. Uncommitted' = Uncommitted /\ Uncleaned' = Uncleaned
  BY DEF PeerMove, MasterRows, Uncommitted, Uncleaned
<1>4. Shaped(r)' BY <1>1 DEF RequestFits, Shaped
<1>5. RequestFits(r)'
  BY <1>1, <1>2, <1>3, <1>4 DEF PeerMove, MasterRows, RequestFits, Shaped, UnitCancels, Cancels, Sides
<1>6. LastRunner(r)' BY <1>1 DEF PeerMove, MasterRows, LastRunner
<1>7. Overtaken(r)' BY <1>1 DEF PeerMove, Overtaken
<1> QED BY <1>5, <1>6, <1>7

\* A step of a member leaves the call the runner waits for as it was.
LEMMA MoveKeepsJob ==
  ASSUME PeerTypes, MasterTypes, JobFits, PeerMove
  PROVE  JobFits'
<1>1. Uncommitted' = Uncommitted /\ Uncleaned' = Uncleaned
  BY DEF PeerMove, MasterRows, Uncommitted, Uncleaned
<1>2. ASSUME job # None, job \in Requests PROVE RequestFits(job)'
  <2>1. RequestFits(job) /\ job.to \in Sides BY <1>2 DEF JobFits, Requests
  <2>2. Shaped(job)' BY <2>1 DEF RequestFits, Shaped, PeerMove, MasterRows
  <2> QED
    BY <1>1, <2>1, <2>2 DEF PeerMove, MasterRows, RequestFits, Shaped, UnitCancels, Cancels, Sides
<1>3. ASSUME job # None, job \in Requests PROVE LastRunner(job)' /\ Overtaken(job)'
  <2>1. LastRunner(job) /\ Overtaken(job) BY <1>3 DEF JobFits
  <2>2. LastRunner(job)' BY <2>1 DEF PeerMove, MasterRows, LastRunner
  <2>3. Overtaken(job)' BY <2>1 DEF PeerMove, MasterRows, Overtaken
  <2> QED BY <2>2, <2>3
<1> QED BY <1>1, <1>2, <1>3 DEF JobFits, PeerMove, MasterRows

\* A step of a member cannot break what the task promises of its members.
LEMMA MoveKeepsTask ==
  ASSUME PeerTypes, MasterTypes, TaskFits, PeerMove
  PROVE  TaskFits'
<1>1. Withdrawn' = Withdrawn /\ Uncommitted' = Uncommitted
  BY DEF PeerMove, MasterRows, Withdrawn, Uncommitted
<1>2. receipts \cup cancel.records \subseteq Sides BY DEF MasterTypes, Journals
<1> QED BY <1>1, <1>2 DEF TaskFits, PeerMove, MasterRows, Sides

\* A unit moves, or has moved, only if the task was not aborted.
LEMMA MovedIsNotAborted ==
  ASSUME MasterTypes, TaskFits, NEW u \in Units, unit[u].state \in Committed
  PROVE  cancel.path # "prepublication"
BY DEF TaskFits, Committed, Withdrawn

\* A step of a member cannot break what a late request may still find.
LEMMA MoveKeepsLate ==
  ASSUME PeerTypes, PeerTypes', MasterTypes, BoundFits, RequestsFit, TaskFits, LateFits, PeerMove
  PROVE  LateFits'
<1> SUFFICES ASSUME NEW r \in Pending', r.what \in Forwards
             PROVE  /\ unit[r.unit].state \in Committed => Late(r)'
                    /\ r.to = "target" /\ tgt'[r.unit].entry \in Undone =>
                         \/ peer'["target"].state \in {"aborting", "aborted"}
                         \/ r.epoch < peer'["target"].epoch
  BY DEF LateFits, PeerMove, MasterRows
<1>1. r \in Pending /\ r \in Requests /\ Shaped(r)
  BY PendingAreRequests DEF PeerMove, RequestsFit, RequestFits
<1>2. r.unit \in Units /\ r.to \in Sides /\ r.epoch \in Nat
  BY <1>1 DEF Shaped, Forwards, Requests
<1>3. \A s \in Sides : peer[s].epoch <= peer'[s].epoch BY DEF PeerMove
<1>4. \A s \in Sides : peer[s].epoch \in Nat /\ peer'[s].epoch \in Nat BY DEF PeerTypes, Peers
<1>5. unit[r.unit].state \in Committed => Late(r)'
  <2> SUFFICES ASSUME unit[r.unit].state \in Committed PROVE Late(r)' OBVIOUS
  <2>1. Late(r) BY <1>1 DEF LateFits
  <2>2. cancel.path # "prepublication" BY <1>2, MovedIsNotAborted
  <2> QED BY <1>2, <1>3, <1>4, <2>1, <2>2 DEF Late, PeerMove, Sides
<1> QED BY <1>1, <1>2, <1>3, <1>4, <1>5 DEF LateFits, PeerMove, Sides

-----------------------------------------------------------------------------
(* Handlers.                                                                   *)

\* A handler that ends leaves nothing of its request but the answer.
LEMMA FinishFlows ==
  ASSUME PeerTypes, MasterTypes, Flow, NEW s \in Sides, work[s] # None, work[s].step # "stream",
         NEW kind \in Outcomes, NEW phase, NEW receipt,
         s = "source" \/ work[s].step # "receive" \/ kind = "wait",
         Finish(s, work[s].req, kind, phase, receipt),
         UNCHANGED <<net, MasterRows>>, 
         \A t \in Sides : peer'[t].epoch <= runner.epoch,
         BoundFits'
  PROVE  /\ Flow' /\ Pending' \subseteq Pending
         /\ work' \in [Sides -> Works \cup {None}] /\ (answer # None => answer.kind \in Outcomes)'
         /\ work'[s] = None /\ \A t \in Sides \ {s} : work'[t] = work[t]
<1> DEFINE r == work[s].req
<1>1. /\ work' \in [Sides -> Works \cup {None}] /\ work'[s] = None
      /\ \A t \in Sides \ {s} : work'[t] = work[t]
  BY DEF Finish, PeerTypes
<1>2. Pending' \subseteq Pending BY <1>1 DEF Pending
<1>3. answer' = IF job = r THEN [kind |-> kind, phase |-> phase, receipt |-> receipt] ELSE answer
  BY DEF Finish, Reply
<1>4. EpochsFit' BY <1>2, <1>3 DEF EpochsFit, Flow, MasterRows
<1>5. WorkFits' BY <1>1 DEF WorkFits, Flow
<1>6. r \in Requests /\ r.to \in Sides BY WorkIsRequest DEF Requests
<1>7. /\ \A t \in Sides : work'[t] # None => work'[t].req \notin net'
      /\ work'["source"] # None /\ work'["target"] # None
         /\ work'["source"].req = work'["target"].req => work'["target"].step = "receive"
  BY <1>1 DEF Flow, AnswersLast, Sides
<1>8. ASSUME answer' # None, job = r
      PROVE  /\ job # None /\ job.to \in Sides /\ job \notin net
             /\ \A t \in Sides : work'[t] # None /\ work'[t].req = job =>
                  t = "source" /\ work'[t].step = "stream" /\ answer'.kind = "wait"
  BY <1>1, <1>3, <1>6, <1>8 DEF Flow, AnswersLast, WorkFits, Requests, None, Sides
<1>9. ASSUME answer' # None, job # r
      PROVE  /\ job # None /\ job.to \in Sides /\ job \notin net
             /\ \A t \in Sides : work'[t] # None /\ work'[t].req = job =>
                  t = "source" /\ work'[t].step = "stream" /\ answer'.kind = "wait"
  BY <1>1, <1>3, <1>9 DEF Flow, AnswersLast
<1>10. AnswersLast' BY <1>7, <1>8, <1>9 DEF AnswersLast, MasterRows
<1>11. (answer # None => answer.kind \in Outcomes)' BY <1>3 DEF MasterTypes
<1> QED BY <1>1, <1>2, <1>4, <1>5, <1>10, <1>11 DEF Flow

\* A handler that goes on, with its own next step.
LEMMA StepFlows ==
  ASSUME PeerTypes, MasterTypes, Flow, NEW s \in Sides, work[s] # None,
         work[s].step \notin {"stream", "receive"},
         NEW step \in Steps, Step(s, step), step # "stream",
         step \in {"fetch", "receive"} => work[s].req.what = "copy",
         step = "moved" => work[s].req.what = "publish",
         step \in {"unlink", "record"} => work[s].req.what \in {"cleanup", "undo", "abort_clean"},
         UNCHANGED <<net, answer, peer, MasterRows>>
  PROVE  /\ Flow' /\ Pending' = Pending
         /\ work' \in [Sides -> Works \cup {None}]
         /\ work'[s] # None /\ work'[s].req = work[s].req /\ work'[s].step = step
         /\ \A t \in Sides \ {s} : work'[t] = work[t]
<1>1. work[s] \in Works BY WorkIsRequest
<1>2. /\ work' \in [Sides -> Works \cup {None}]
      /\ work'[s] # None /\ work'[s].req = work[s].req /\ work'[s].step = step
      /\ \A t \in Sides \ {s} : work'[t] = work[t]
  BY <1>1 DEF Step, PeerTypes, Works, None
<1>3. Pending' = Pending BY <1>2 DEF Pending
<1>4. EpochsFit' /\ BoundFits' BY <1>2, <1>3 DEF EpochsFit, BoundFits, Flow, MasterRows
<1>5. WorkFits' BY <1>2 DEF WorkFits, Flow
<1>6. AnswersLast' BY <1>2 DEF Flow, AnswersLast, Sides, MasterRows
<1> QED BY <1>2, <1>3, <1>4, <1>5, <1>6 DEF Flow

\* An answer the Master has not read stays true: whoever could spoil a proof
\* of this epoch would be served in this epoch.
LEMMA AnswerStays ==
  ASSUME PeerTypes, MasterTypes, Flow, JobFits, AnswerFits, PeerMove, answer' = answer,
         NEW s \in Sides, work[s] # None, work[s].step # "stream",
         Alive(s, work[s].req) \/ UNCHANGED <<peer, src, tgt>>,
         s = "source" => tgt' = tgt /\ peer'["target"] = peer["target"],
         s = "target" => src' = src /\ peer'["source"] = peer["source"]
  PROVE  AnswerFits'
<1> SUFFICES ASSUME answer # None, answer.kind = "ok", job # None
             PROVE  Told(job, answer.phase, answer.receipt)'
  BY DEF AnswerFits, PeerMove, MasterRows, Flow, AnswersLast
<1>1. Told(job, answer.phase, answer.receipt) BY DEF AnswerFits
<1>2. job \in Requests /\ Shaped(job) /\ job.to \in Sides
  BY DEF MasterTypes, Cutovers, Flow, AnswersLast, JobFits, RequestFits, Sides
<1>3. work[s].req.epoch # job.epoch BY NotYetAnswered
<1>4. ASSUME NEW u \in Units, TargetProof(u, job.epoch) PROVE TargetProof(u, job.epoch)'
  BY <1>3, <1>4 DEF TargetProof, Alive, Sides, PeerMove, MasterRows
<1>5. ASSUME NEW u \in Units, SourceProof(u, job.epoch, answer.receipt)
      PROVE  SourceProof(u, job.epoch, answer.receipt)'
  BY <1>3, <1>5 DEF SourceProof, Alive, Sides, PeerMove, MasterRows
<1> QED BY <1>1, <1>2, <1>4, <1>5 DEF Told, Shaped, PeerMove, MasterRows, Sides

\* An answer tells the truth: what it reports is on the member's disk when it is sent.
LEMMA FinishAnswers ==
  ASSUME PeerTypes, MasterTypes, Flow, JobFits, AnswerFits, PeerMove,
         NEW s \in Sides, work[s] # None, work[s].step # "stream",
         NEW r, r = work[s].req, Alive(s, r) \/ UNCHANGED <<peer, src, tgt>>,
         s = "source" => tgt' = tgt /\ peer'["target"] = peer["target"],
         s = "target" => src' = src /\ peer'["source"] = peer["source"],
         NEW kind, NEW phase, NEW receipt, Finish(s, r, kind, phase, receipt),
         kind = "ok" => Told(r, phase, receipt)'
  PROVE  AnswerFits'
<1>1. CASE job = r
  <2>1. answer' = [kind |-> kind, phase |-> phase, receipt |-> receipt] /\ job' = job
    BY <1>1 DEF Finish, Reply, PeerMove, MasterRows
  <2> QED BY <1>1, <2>1 DEF AnswerFits, Told, TargetProof, SourceProof
<1>2. CASE job # r
  BY <1>2, AnswerStays DEF Finish, Reply
<1> QED BY <1>1, <1>2

\* The Master's counters are its own, and the Target's follow its rows.
LEMMA BooksStay ==
  ASSUME BooksAgree, UNCHANGED MasterRows, native' = native,
         peer'["target"].state # "aborted" => peer["target"].state # "aborted",
         \A u \in Units : tgt'[u].unit \in {"committed", "settled"} \/ tgt[u].unit \in {"committed", "settled"}
           => tgt'[u].unit = tgt[u].unit
  PROVE  BooksAgree'
<1>1. TargetReleased' = TargetReleased
      /\ {u \in Units : tgt'[u].unit = "committed"} = {u \in Units : tgt[u].unit = "committed"}
  BY DEF TargetReleased
<1>2. Moved' = Moved /\ Withdrawn' = Withdrawn BY DEF Moved, Withdrawn, MasterRows
<1> QED BY <1>1, <1>2 DEF BooksAgree, MasterRows

\* A member that only answers.
LEMMA Replies ==
  ASSUME MigInv, NEW s \in Sides, work[s] # None, work[s].step # "stream",
         NEW r, r = work[s].req, NEW kind \in Outcomes, NEW phase, NEW receipt, Finish(s, r, kind, phase, receipt),
         s = "source" \/ work[s].step # "receive" \/ kind = "wait",
         kind = "ok" => Told(r, phase, receipt),
         UNCHANGED <<peer, src, tgt, native, net, MasterRows>>
  PROVE  MigInv'
<1> USE DEF MigInv
<1>1. \A t \in Sides : work'[t] = IF t = s THEN None ELSE work[t]
  BY DEF Finish, PeerTypes
<1>2. BoundFits' BY <1>1 DEF Flow, BoundFits, MasterRows
<1>3. \A t \in Sides : peer'[t].epoch <= runner.epoch BY DEF Flow, EpochsFit
<1>4. /\ Flow' /\ Pending' \subseteq Pending
      /\ work' \in [Sides -> Works \cup {None}] /\ (answer # None => answer.kind \in Outcomes)'
  BY <1>2, <1>3, FinishFlows
<1>5. PeerTypes' /\ MasterTypes' BY <1>4 DEF PeerTypes, MasterTypes, MasterRows
<1>6. PeerMove BY <1>4 DEF PeerMove, PeerTypes, Peers
<1>7. RequestsFit' /\ JobFits' /\ TaskFits'
  BY <1>6, MoveKeepsRequests, MoveKeepsJob, MoveKeepsTask
<1>8. LateFits' BY <1>5, <1>6, MoveKeepsLate DEF Flow
<1>9. MemberRows'
  <2>1. \A u \in Units : SrcFits(u)' /\ TgtFits(u)' BY DEF MemberRows, SrcFits, TgtFits, TgtRowFits, MasterRows
  <2>2. AbortFits' BY DEF MemberRows, AbortFits, Unswept
  <2>3. CleanupWork' BY <1>1 DEF MemberRows, CleanupWork, Sides
  <2>4. Staged' = Staged BY DEF Staged
  <2>5. TargetWork' BY <1>1, <2>4 DEF MemberRows, TargetWork, Sides
  <2> QED BY <2>1, <2>2, <2>3, <2>5 DEF MemberRows
<1>10. UnitsFit'
  BY DEF UnitsFit, Taken, Given, Proved, TargetProof, SourceProof, Uncommitted, MasterRows
<1>11. AnswerFits'
  <2>1. kind = "ok" => Told(r, phase, receipt)' BY DEF Told, TargetProof, SourceProof
  <2> QED BY <1>6, <2>1, FinishAnswers
<1>12. MembersFit' BY DEF MembersFit, Uncleaned, Uncommitted, MasterRows
<1>13. BooksAgree' BY BooksStay
<1> QED BY <1>4, <1>5, <1>7, <1>8, <1>9, <1>10, <1>11, <1>12, <1>13

\* A request or a handler that is lost.
LEMMA Vanishes ==
  ASSUME MigInv, net' \subseteq net, work' \in [Sides -> Works \cup {None}],
         \A t \in Sides : work'[t] \in {None, work[t]},
         UNCHANGED <<peer, src, tgt, native, answer, MasterRows>>
  PROVE  MigInv'
<1> USE DEF MigInv
<1>1. Pending' \subseteq Pending BY DEF Pending
<1>2. Flow'
  <2>1. EpochsFit' BY <1>1 DEF Flow, EpochsFit, MasterRows
  <2>2. AnswersLast' BY DEF Flow, AnswersLast, MasterRows, Sides
  <2>3. BoundFits' BY DEF Flow, BoundFits, MasterRows
  <2>4. WorkFits' BY DEF Flow, WorkFits
  <2> QED BY <2>1, <2>2, <2>3, <2>4 DEF Flow
<1>3. PeerTypes' /\ MasterTypes' BY DEF PeerTypes, MasterTypes, MasterRows
<1>4. PeerMove BY <1>1 DEF PeerMove, PeerTypes, Peers
<1>5. RequestsFit' /\ JobFits' /\ TaskFits'
  BY <1>4, MoveKeepsRequests, MoveKeepsJob, MoveKeepsTask
<1>6. LateFits' BY <1>3, <1>4, MoveKeepsLate DEF Flow
<1>7. MemberRows'
  <2>1. \A u \in Units : SrcFits(u)' /\ TgtFits(u)' BY DEF MemberRows, SrcFits, TgtFits, TgtRowFits, MasterRows
  <2>2. AbortFits' BY DEF MemberRows, AbortFits, Unswept
  <2>3. CleanupWork' BY DEF MemberRows, CleanupWork, Sides
  <2>4. Staged' = Staged BY DEF Staged
  <2>5. TargetWork' BY <2>4 DEF MemberRows, TargetWork, Sides
  <2> QED BY <2>1, <2>2, <2>3, <2>5 DEF MemberRows
<1>8. UnitsFit'
  BY DEF UnitsFit, Taken, Given, Proved, TargetProof, SourceProof, Uncommitted, MasterRows
<1>9. AnswerFits' BY DEF AnswerFits, Told, TargetProof, SourceProof, MasterRows
<1>10. MembersFit' BY DEF MembersFit, Uncleaned, Uncommitted, MasterRows
<1>11. BooksAgree' BY BooksStay
<1> QED BY <1>2, <1>3, <1>5, <1>6, <1>7, <1>8, <1>9, <1>10, <1>11

\* What a member answers without touching a row.
LEMMA AnswersOnly ==
  ASSUME MigInv, UNCHANGED MasterRows,
         \/ \E s \in Sides : GiveUp(s) \/ StopMember(s) \/ AbortStop(s) \/ AbortRefused(s)
         \/ FetchBreaks \/ InspectTarget \/ CleanupProofExpires \/ ProofRunsOut("target", "undo")
         \/ UndoReplay \/ QueryRelease \/ CensusStarts \/ CensusRoster \/ CensusPhysical
  PROVE  MigInv'
<1> USE DEF Outcomes, Sides
<1>1. ASSUME NEW s \in Sides, GiveUp(s) PROVE MigInv'
  BY <1>1, Replies DEF GiveUp, Idle
<1>2. ASSUME NEW s \in Sides, StopMember(s) PROVE MigInv'
  BY <1>2, Replies DEF StopMember, Does, Acts, Serving, Idle, Reply2, Rest, Told
<1>3. ASSUME NEW s \in Sides, AbortStop(s) PROVE MigInv'
  BY <1>3, Replies DEF AbortStop, Does, Acts, Serving, Idle, Reply2, Rest, Told
<1>4. ASSUME NEW s \in Sides, AbortRefused(s) PROVE MigInv'
  BY <1>4, Replies DEF AbortRefused, Cleans2, Acts, Serving, Idle, Reply2, Rest
<1>5. CASE FetchBreaks
  BY <1>5, Replies DEF FetchBreaks, Acts, Serving, Idle
<1>6. CASE InspectTarget
  BY <1>6, Replies DEF InspectTarget, Acts, Serving, Idle, Told
<1>7. ASSUME NEW s \in Sides, NEW what \in {"cleanup", "undo"}, ProofRunsOut(s, what) PROVE MigInv'
  BY <1>7, Replies DEF ProofRunsOut, Idle, MigInv, Flow, WorkFits
<1>8. CASE UndoReplay
  BY <1>8, Replies DEF UndoReplay, Undoes, Undoing, Acts, Serving, Idle, Reply2, Rest, Told
<1>9. CASE QueryRelease
  <2>1. work["source"].req.to = "source" BY <1>9 DEF QueryRelease, Does, Acts, Serving, Idle, MigInv, Flow, WorkFits
  <2> QED BY <1>9, <2>1, Replies DEF QueryRelease, Does, Acts, Serving, Idle, Reply2, Rest, Told
<1>10. CASE CensusStarts
  BY <1>10, Replies DEF CensusStarts, Does, Acts, Serving, Idle, Reply2, Rest, Counts, SourceRefuses, Told
<1>11. CASE CensusRoster
  BY <1>11, Replies DEF CensusRoster, Does, Acts, Serving, Idle, Reply2, Rest, Counts, Told
<1>12. CASE CensusPhysical
  BY <1>12, Replies DEF CensusPhysical, Does, Acts, Serving, Idle, Reply2, Rest, Counts, SourceRefuses, Told
<1> QED
  BY <1>1, <1>2, <1>3, <1>4, <1>5, <1>6, <1>7, <1>8, <1>9, <1>10, <1>11, <1>12 DEF CleanupProofExpires

\* A crash of a member, a lost message, a broken stream and a restart of the Source.
LEMMA Losses ==
  ASSUME MigInv, UNCHANGED MasterRows,
         (\E s \in Sides : PeerCrash(s)) \/ (\E r \in net : Lose(r)) \/ StreamEnds \/ SourceRestarts
  PROVE  MigInv'
<1>1. ASSUME NEW s \in Sides, work' = [work EXCEPT ![s] = None], net' = net,
             UNCHANGED <<peer, src, tgt, native, answer>>
      PROVE  MigInv'
  <2>1. work' \in [Sides -> Works \cup {None}] /\ \A t \in Sides : work'[t] \in {None, work[t]}
    BY <1>1 DEF MigInv, PeerTypes
  <2> QED BY <1>1, <2>1, Vanishes
<1>2. ASSUME NEW s \in Sides, PeerCrash(s) PROVE MigInv'
  BY <1>1, <1>2 DEF PeerCrash, callVars
<1>3. ASSUME NEW r \in net, Lose(r) PROVE MigInv'
  <2>1. net' \subseteq net /\ work' \in [Sides -> Works \cup {None}] /\ \A t \in Sides : work'[t] \in {None, work[t]}
    BY <1>3 DEF Lose, peerVars, MigInv, PeerTypes
  <2> QED BY <1>3, <2>1, Vanishes DEF Lose, peerVars
<1>4. CASE StreamEnds
  BY <1>1, <1>4 DEF StreamEnds, callVars, Sides
<1>5. CASE SourceRestarts
  BY <1>1, <1>5 DEF SourceRestarts, callVars, Sides
<1> QED BY <1>2, <1>3, <1>4, <1>5

-----------------------------------------------------------------------------
(* Rows of the Source.                                                         *)

\* What a handler of the Source may do to the row of its unit.
SourceRowKeeps(u) ==
  /\ src' \in [Units -> SrcRows] /\ \A v \in Units \ {u} : src'[v] = src[v]
  /\ SrcFits(u)'
  /\ src[u].unit \in {"retained", "settled", "cleaned"} =>
       src'[u].unit = src[u].unit \/ (src[u].unit = "retained" /\ src'[u].unit = "settled")
  /\ src'[u].unit \in {"retained", "settled"} => tgt[u].unit \in Gone
  /\ unit[u].state \in Committed =>
       src'[u].unit \in Committed \cup {"verified"} /\ src'[u].receipt = src[u].receipt
  /\ unit[u].source # runner.epoch \/ u \notin Uncommitted

\* A handler of the Source that writes one unit.
LEMMA SourceWrites ==
  ASSUME MigInv, NEW r, work["source"] # None, r = work["source"].req, work["source"].step # "stream",
         Alive("source", r), r.what \notin {"finalize"} \cup Closings \cup Aborts,
         NEW u \in Units, u = r.unit,
         UNCHANGED <<peer, tgt, native, net, MasterRows>>,
         Flow', PeerTypes', MasterTypes', Pending' \subseteq Pending,
         CleanupWork', work'["target"] = work["target"],
         SourceRowKeeps(u)
  PROVE  /\ PeerMove /\ RequestsFit' /\ JobFits' /\ LateFits' /\ MemberRows' /\ UnitsFit'
         /\ TaskFits' /\ MembersFit' /\ BooksAgree'
<1> USE DEF MigInv, SourceRowKeeps
<1>2. peer["source"].state \in {"prepared", "active"}
  BY AliveIsBound DEF Flow, Sides
<1>3. PeerMove BY DEF PeerMove, PeerTypes, Peers
<1>4. RequestsFit' /\ JobFits' /\ TaskFits'
  BY <1>3, MoveKeepsRequests, MoveKeepsJob, MoveKeepsTask
<1>5. LateFits' BY <1>3, MoveKeepsLate DEF Flow
<1>6. MemberRows'
  <2>1. \A v \in Units : SrcFits(v)' BY DEF MemberRows, SrcFits, MasterRows
  <2>2. \A v \in Units : TgtFits(v)' BY DEF MemberRows, TgtFits, TgtRowFits, MasterRows
  <2>3. AbortFits' BY DEF MemberRows, AbortFits, Unswept
  <2>4. Staged' = Staged BY DEF Staged
  <2>5. TargetWork' BY <2>4 DEF MemberRows, TargetWork
  <2> QED BY <2>1, <2>2, <2>3, <2>5 DEF MemberRows
<1>7. UnitsFit'
  <2>1. \A v \in Units : Taken(v)' BY DEF UnitsFit, Taken, MasterRows
  <2>2. \A v \in Units : Given(v)' BY DEF UnitsFit, Given, MasterRows
  <2>3. \A v \in Units : Proved(v)'
    BY DEF UnitsFit, Proved, TargetProof, SourceProof, Uncommitted, MasterRows
  <2> QED BY <2>1, <2>2, <2>3 DEF UnitsFit
<1>8. MembersFit' BY <1>2 DEF MembersFit, Uncleaned, Uncommitted, MasterRows
<1>9. BooksAgree' BY BooksStay
<1> QED BY <1>3, <1>4, <1>5, <1>6, <1>7, <1>8, <1>9

\* A handler of the Source that writes the row of one unit and answers.
LEMMA SourceFinishes ==
  ASSUME MigInv, NEW r, work["source"] # None, r = work["source"].req, work["source"].step # "stream",
         Alive("source", r), r.what \notin {"finalize"} \cup Closings \cup Aborts,
         NEW u \in Units, u = r.unit,
         NEW kind \in Outcomes, NEW phase, NEW receipt, Finish("source", r, kind, phase, receipt),
         UNCHANGED <<peer, tgt, native, net, MasterRows>>,
         kind = "ok" => Told(r, phase, receipt)',
         SourceRowKeeps(u)
  PROVE  MigInv'
<1>1. \A t \in Sides : work'[t] = IF t = "source" THEN None ELSE work[t]
  BY DEF Finish, MigInv, PeerTypes
<1>2. BoundFits' BY <1>1 DEF MigInv, Flow, BoundFits, MasterRows
<1>3. \A t \in Sides : peer'[t].epoch <= runner.epoch BY DEF MigInv, Flow, EpochsFit
<1>4. /\ Flow' /\ Pending' \subseteq Pending
      /\ work' \in [Sides -> Works \cup {None}] /\ (answer # None => answer.kind \in Outcomes)'
  BY <1>2, <1>3, FinishFlows DEF MigInv, Sides
<1>5. PeerTypes' /\ MasterTypes' BY <1>4 DEF MigInv, PeerTypes, MasterTypes, MasterRows, SourceRowKeeps
<1>6. CleanupWork' BY <1>1 DEF CleanupWork, Sides
<1>7. /\ PeerMove /\ RequestsFit' /\ JobFits' /\ LateFits' /\ MemberRows' /\ UnitsFit'
      /\ TaskFits' /\ MembersFit' /\ BooksAgree'
  BY <1>1, <1>4, <1>5, <1>6, SourceWrites DEF Sides
<1>8. AnswerFits' BY <1>7, FinishAnswers DEF MigInv, Sides
<1> QED BY <1>4, <1>5, <1>7, <1>8 DEF MigInv

\* A cleanup of the Source that has one more of its steps behind it.
LEMMA SourceGoesOn ==
  ASSUME MigInv, NEW r, work["source"] # None, r = work["source"].req,
         work["source"].step \notin {"stream", "receive"},
         Alive("source", r), r.what = "cleanup",
         NEW u \in Units, u = r.unit,
         src' \in [Units -> SrcRows], \A v \in Units \ {u} : src'[v] = src[v],
         NEW step \in {"unlink", "record"}, Step("source", step),
         UNCHANGED <<peer, tgt, native, answer, net, MasterRows>>,
         SrcFits(u)', src[u].unit = "cleanup_pending", src'[u].unit = "cleanup_pending",
         src'[u].receipt = src[u].receipt, step = "record" => ~src'[u].file
  PROVE  MigInv'
<1>1. /\ Flow' /\ Pending' = Pending /\ work' \in [Sides -> Works \cup {None}]
      /\ work'["source"] # None /\ work'["source"].req = r /\ work'["source"].step = step
      /\ work'["target"] = work["target"]
  BY StepFlows DEF MigInv, Sides, Steps
<1>2. PeerTypes' /\ MasterTypes' BY <1>1 DEF MigInv, PeerTypes, MasterTypes, MasterRows
<1>4. CleanupWork' BY <1>1 DEF CleanupWork
<1>5. unit[u].state \in Committed
  BY WorkIsRequest DEF MigInv, RequestsFit, RequestFits, Sides
<1>6. r.what \notin {"finalize"} \cup Closings \cup Aborts BY DEF Closings, Aborts
<1>7. u \notin Uncommitted BY <1>5 DEF Uncommitted
<1>8. SourceRowKeeps(u) BY <1>7 DEF SourceRowKeeps, Committed
<1>9. /\ PeerMove /\ RequestsFit' /\ JobFits' /\ LateFits' /\ MemberRows' /\ UnitsFit'
      /\ TaskFits' /\ MembersFit' /\ BooksAgree'
  BY <1>1, <1>2, <1>4, <1>6, <1>8, SourceWrites DEF Sides
<1>10. AnswerFits' BY <1>9, AnswerStays DEF MigInv, Sides
<1> QED BY <1>1, <1>2, <1>9, <1>10 DEF MigInv

\* Who is served by the Source, and what the request proves.
LEMMA ServedAtSource ==
  ASSUME MigInv, NEW r, work["source"] # None, r = work["source"].req, Alive("source", r)
  PROVE  /\ r \in Requests /\ r \in Pending /\ RequestFits(r) /\ LastRunner(r) /\ Overtaken(r)
         /\ r.what \in {"verify", "cleanup", "prove", "retain", "commit", "settle"} => r.unit \in Units
         /\ r.what # "copy" => r.to = "source" /\ work["source"].step # "stream"
         /\ r.what = "verify" => unit[r.unit].state \notin Committed
         /\ r.what \in {"verify", "commit", "prove", "retain", "settle"} =>
              unit[r.unit].source # runner.epoch \/ r.unit \notin Uncommitted
<1> USE DEF MigInv
<1>1. r \in Requests /\ r \in Pending /\ RequestFits(r) /\ LastRunner(r) /\ Overtaken(r)
  BY WorkIsRequest DEF RequestsFit, Sides
<1>2. /\ r.what \in {"verify", "cleanup", "prove", "retain", "commit", "settle"} => r.unit \in Units
      /\ r.what # "copy" => r.to = "source" /\ work["source"].step # "stream"
  BY <1>1 DEF RequestFits, Shaped, Flow, WorkFits, Sides
<1>3. r.what \in {"verify", "commit", "prove", "retain", "settle"} =>
        peer["source"].epoch = r.epoch /\ peer["source"].state \in {"prepared", "active"}
  BY AliveIsBound DEF Flow, Sides, Closings, Aborts
<1>4. r.what = "verify" => unit[r.unit].state \notin Committed
  BY <1>1, <1>2, <1>3 DEF LateFits, Late, Forwards, Requests, PeerTypes, Peers, Sides
<1>5. ASSUME r.what \in {"verify", "commit", "prove", "retain", "settle"},
             unit[r.unit].source = runner.epoch, r.unit \in Uncommitted
      PROVE  FALSE
  <2>1. peer["source"].epoch = runner.epoch
    BY <1>2, <1>5 DEF UnitsFit, Proved, SourceProof
  <2>2. r.epoch = runner.epoch BY <1>3, <1>5, <2>1
  <2>3. r.what # "commit" BY <1>1, <1>5 DEF RequestFits, Uncommitted
  <2> QED BY <1>1, <1>2, <1>5, <2>2, <2>3 DEF LastRunner, Cancels, UnitCancels
<1> QED BY <1>1, <1>2, <1>4, <1>5

\* Each handler of the Source.
LEMMA VerifiedRow ==
  ASSUME src \in [Units -> SrcRows], NEW u \in Units,
         src' = [src EXCEPT ![u].unit = "verified", ![u].receipt = @ + 1]
  PROVE  /\ src' \in [Units -> SrcRows] /\ \A v \in Units \ {u} : src'[v] = src[v]
         /\ src'[u].unit = "verified" /\ src'[u].receipt = src[u].receipt + 1
         /\ src'[u].file = src[u].file /\ src'[u].entry = src[u].entry /\ src'[u].scan = src[u].scan
<1>1. src[u] \in SrcRows /\ src[u].receipt \in Nat BY DEF SrcRows
<1>2. src' = [src EXCEPT ![u] = [src[u] EXCEPT !.unit = "verified", !.receipt = @ + 1]]
  OBVIOUS
<1>3. [src[u] EXCEPT !.unit = "verified", !.receipt = @ + 1] \in SrcRows
  BY <1>1 DEF SrcRows, SrcStates
<1> QED BY <1>1, <1>2, <1>3 DEF SrcRows

\* Writing the state of one unit of the Source changes nothing else of any row.
LEMMA StateOfRow ==
  ASSUME src \in [Units -> SrcRows], NEW u \in Units, NEW state \in SrcStates,
         src' = [src EXCEPT ![u].unit = state]
  PROVE  /\ src' \in [Units -> SrcRows] /\ \A v \in Units \ {u} : src'[v] = src[v]
         /\ src'[u].unit = state /\ src'[u].receipt = src[u].receipt
         /\ src'[u].file = src[u].file /\ src'[u].entry = src[u].entry /\ src'[u].scan = src[u].scan
<1>1. src[u] \in SrcRows OBVIOUS
<1>2. src' = [src EXCEPT ![u] = [src[u] EXCEPT !.unit = state]] OBVIOUS
<1>3. [src[u] EXCEPT !.unit = state] \in SrcRows BY <1>1 DEF SrcRows
<1> QED BY <1>1, <1>2, <1>3 DEF SrcRows

\* The two handlers that verify an original.
LEMMA VerifyKeeps ==
  ASSUME MigInv, UNCHANGED MasterRows, UNCHANGED <<peer, tgt, native, net>>,
         NEW r, work["source"] # None, r = work["source"].req, Alive("source", r),
         r.what \in {"verify", "prove"}, NEW u, u = r.unit,
         NEW n, n = src[u].receipt + 1, NEW receipt, r.what = "verify" => receipt = n,
         \/ /\ src[u].unit \in Copyable \cup {"verified"} /\ src[u].file
            /\ r.what = "verify" => peer["source"].state = "active"
            /\ src' = [src EXCEPT ![u].unit = "verified", ![u].receipt = @ + 1]
            /\ Finish("source", r, "ok", "verified", receipt)
         \/ /\ UNCHANGED src
            /\ Finish("source", r, "refused", "unit_unavailable", 0)
  PROVE  MigInv'
<1>2. /\ u \in Units /\ work["source"].step # "stream" /\ unit[u].state \notin Committed
      /\ unit[u].source # runner.epoch \/ u \notin Uncommitted
  BY ServedAtSource DEF RequestFits, UnitCancels
<1>3. src \in [Units -> SrcRows] /\ SrcFits(u) BY <1>2 DEF MigInv, PeerTypes, MemberRows
<1>4. CASE Finish("source", r, "refused", "unit_unavailable", 0) /\ UNCHANGED src
  BY <1>2, <1>4, Replies DEF Sides, Outcomes
<1>5. CASE /\ src[u].unit \in Copyable \cup {"verified"} /\ src[u].file
           /\ r.what = "verify" => peer["source"].state = "active"
           /\ src' = [src EXCEPT ![u].unit = "verified", ![u].receipt = @ + 1]
           /\ Finish("source", r, "ok", "verified", receipt)
  <2>2. /\ src' \in [Units -> SrcRows] /\ \A v \in Units \ {u} : src'[v] = src[v]
        /\ src'[u].unit = "verified" /\ src'[u].receipt = n
        /\ src'[u].file = src[u].file /\ src'[u].entry = src[u].entry /\ src'[u].scan = src[u].scan
    BY <1>2, <1>3, <1>5, VerifiedRow
  <2>3. SrcFits(u)' BY <1>3, <1>5, <2>2 DEF SrcFits, Copyable, Committed
  <2>4. peer["source"].epoch = r.epoch
    BY AliveIsBound DEF MigInv, Flow, Sides, Closings, Aborts
  <2>5. Told(r, "verified", receipt)'
    BY <1>5, <2>2, <2>4 DEF Told, SourceProof
  <2>7. r.what \notin {"finalize"} \cup Closings \cup Aborts /\ "ok" \in Outcomes
    BY DEF Closings, Aborts, Outcomes
  <2>8. SourceRowKeeps(u) BY <1>2, <1>5, <2>2, <2>3 DEF SourceRowKeeps, Copyable
  <2> QED BY <1>2, <1>5, <2>5, <2>7, <2>8, SourceFinishes
<1> QED BY <1>4, <1>5

\* A handler that writes the state of a unit of the Source, and no other.
LEMMA StateKeeps ==
  ASSUME MigInv, UNCHANGED MasterRows, UNCHANGED <<peer, tgt, native, net>>,
         NEW r, work["source"] # None, r = work["source"].req, Alive("source", r),
         r.what \in {"commit", "cleanup", "retain", "settle"}, NEW u, u = r.unit,
         NEW state \in SrcStates, src' = [src EXCEPT ![u].unit = state],
         NEW phase, NEW receipt, Finish("source", r, "ok", phase, receipt),
         state = "cleaned" => src[u].entry = "deleted",
         ~src[u].file => state \in {"cleanup_pending", "cleaned"},
         src[u].unit \in {"retained", "settled", "cleaned"} =>
           state = src[u].unit \/ (src[u].unit = "retained" /\ state = "settled"),
         state \in {"retained", "settled"} => r.what \in {"retain", "settle"},
         r.what \in {"commit", "cleanup"} => state \in Committed,
         r.what = "cleanup" /\ phase = "cleaned" => state = "cleaned",
         r.what = "retain" => state \in {"retained", "settled"},
         r.what = "settle" => state = "settled"
  PROVE  MigInv'
<1>1. /\ u \in Units /\ work["source"].step # "stream" /\ r.to = "source" /\ RequestFits(r)
      /\ unit[u].source # runner.epoch \/ u \notin Uncommitted
  BY ServedAtSource DEF RequestFits, Uncommitted
<1>2. src \in [Units -> SrcRows] /\ SrcFits(u) BY <1>1 DEF MigInv, PeerTypes, MemberRows
<1>3. /\ src' \in [Units -> SrcRows] /\ \A v \in Units \ {u} : src'[v] = src[v]
      /\ src'[u].unit = state /\ src'[u].receipt = src[u].receipt
      /\ src'[u].file = src[u].file /\ src'[u].entry = src[u].entry /\ src'[u].scan = src[u].scan
  BY <1>1, <1>2, StateOfRow
<1>4. SrcFits(u)' BY <1>1, <1>2, <1>3 DEF SrcFits, RequestFits, Committed, MasterRows
<1>5. Told(r, phase, receipt)' BY <1>1, <1>3 DEF Told
<1>6. r.what \notin {"finalize"} \cup Closings \cup Aborts /\ "ok" \in Outcomes
  BY DEF Closings, Aborts, Outcomes
<1>7. state \in {"retained", "settled"} => tgt[u].unit \in Gone BY <1>1 DEF RequestFits
<1>8. unit[u].state \in Committed => state \in Committed
  BY <1>1 DEF RequestFits, UnitCancels
<1>9. SourceRowKeeps(u) BY <1>1, <1>3, <1>4, <1>7, <1>8 DEF SourceRowKeeps
<1> QED BY <1>1, <1>5, <1>6, <1>9, SourceFinishes

\* Each handler of the Source that ends its request.
LEMMA SourceRowActions ==
  ASSUME MigInv, UNCHANGED MasterRows,
         VerifySource \/ ProveRetained \/ AcknowledgeSource \/ Retain \/ SettleSource
         \/ CleanupBegins \/ CleanupEnds
  PROVE  MigInv'
<1>0. PICK r : r = work["source"].req OBVIOUS
<1>t. src \in [Units -> SrcRows] BY DEF MigInv, PeerTypes
<1>u. ASSUME work["source"] # None, Alive("source", r),
             r.what \in {"verify", "cleanup", "prove", "retain", "commit", "settle"}
      PROVE  r.unit \in Units /\ work["source"].step # "stream" /\ src[r.unit] \in SrcRows
             /\ src[r.unit].unit \in SrcStates /\ SrcFits(r.unit)
  BY <1>0, <1>t, <1>u, ServedAtSource DEF SrcRows, MigInv, MemberRows
<1>1. CASE VerifySource
  <2>1. PICK n : n = src[r.unit].receipt + 1 OBVIOUS
  <2> QED BY <1>0, <1>1, <2>1, VerifyKeeps DEF VerifySource, Acts, Serving, Idle
<1>2. CASE ProveRetained
  <2>1. PICK n : n = src[r.unit].receipt + 1 OBVIOUS
  <2> QED BY <1>0, <1>2, <2>1, VerifyKeeps DEF ProveRetained, Does, Acts, Serving, Idle, Reply2, Rest
<1>r. ASSUME work["source"] # None, Alive("source", r), UNCHANGED <<peer, src, tgt, native, net>>,
             r.what \in {"cleanup", "retain", "commit", "settle"},
             NEW kind \in Outcomes \ {"ok"}, NEW phase, Finish("source", r, kind, phase, 0)
      PROVE  MigInv'
  BY <1>0, <1>u, <1>r, Replies DEF Sides
<1>3. CASE AcknowledgeSource
  <2>1. /\ work["source"] # None /\ r.what = "commit" /\ Alive("source", r)
        /\ UNCHANGED <<peer, tgt, native, net>>
    BY <1>0, <1>3 DEF AcknowledgeSource, Acts, Serving, Idle
  <2>2. CASE src[r.unit].unit = "verified" /\ src[r.unit].receipt = r.receipt
             /\ src' = [src EXCEPT ![r.unit].unit = "committed"]
             /\ Finish("source", r, "ok", "acknowledged", Cardinality(NativeCommitted("source")) + 1)
    <3>1. PICK n : n = Cardinality(NativeCommitted("source")) + 1 OBVIOUS
    <3>2. Finish("source", r, "ok", "acknowledged", n) BY <2>2, <3>1
    <3>3. /\ "committed" \in SrcStates \cap Committed /\ src[r.unit].file
          /\ src[r.unit].unit \notin {"retained", "settled", "cleaned"}
      BY <1>u, <2>1, <2>2 DEF SrcStates, Committed, SrcFits
    <3> QED BY <1>0, <2>1, <2>2, <3>2, <3>3, StateKeeps
  <2>3. CASE src[r.unit].unit \in Committed /\ UNCHANGED src
             /\ Finish("source", r, "ok", "acknowledged", Cardinality(NativeCommitted("source")))
    BY <1>0, <1>u, <2>1, <2>3, Replies DEF Sides, Outcomes, Told
  <2>4. CASE UNCHANGED src /\ Finish("source", r, "refused", "native_proof_changed", 0)
    BY <1>r, <2>1, <2>4 DEF Outcomes
  <2> QED BY <1>0, <1>3, <2>2, <2>3, <2>4 DEF AcknowledgeSource
<1>4. CASE Retain
  <2>1. /\ work["source"] # None /\ r.what = "retain" /\ Alive("source", r)
        /\ UNCHANGED <<peer, tgt, native, net>>
    BY <1>0, <1>4 DEF Retain, Does, Acts, Serving, Idle, SourceAnswers, SourceRefuses, Reply2, Rest
  <2>2. CASE src[r.unit].unit \in {"retained", "settled"} /\ SourceAnswers(r.unit, src[r.unit].unit, "retained")
    <3>1. PICK state : state = src[r.unit].unit OBVIOUS
    <3> QED
      BY <1>0, <1>u, <2>1, <2>2, <3>1, StateKeeps
      DEF SourceAnswers, Reply2, SrcStates, Committed, SrcFits
  <2>3. CASE Retainable(r.unit) /\ src[r.unit].file /\ SourceAnswers(r.unit, "retained", "retained")
    BY <1>0, <1>u, <2>1, <2>3, StateKeeps
    DEF SourceAnswers, Reply2, SrcStates, Committed, Retainable, Copyable
  <2>4. CASE SourceRefuses
    BY <1>0, <1>r, <2>1, <2>4 DEF Outcomes, SourceRefuses, Reply2, Rest
  <2> QED BY <1>0, <1>4, <2>2, <2>3, <2>4 DEF Retain
<1>5. CASE SettleSource
  <2>1. /\ work["source"] # None /\ r.what = "settle" /\ Alive("source", r)
        /\ UNCHANGED <<peer, tgt, native, net>>
    BY <1>0, <1>5 DEF SettleSource, Does, Acts, Serving, Idle, SourceAnswers, SourceRefuses, Reply2, Rest
  <2>2. CASE /\ src[r.unit].unit = "settled" \/ (src[r.unit].unit = "retained" /\ src[r.unit].file)
             /\ SourceAnswers(r.unit, "settled", "settled")
    BY <1>0, <1>u, <2>1, <2>2, StateKeeps DEF SourceAnswers, Reply2, SrcStates, Committed, SrcFits
  <2>3. CASE SourceRefuses
    BY <1>0, <1>r, <2>1, <2>3 DEF Outcomes, SourceRefuses, Reply2, Rest
  <2> QED BY <1>0, <1>5, <2>2, <2>3 DEF SettleSource
<1>6. CASE CleanupBegins
  <2>1. /\ work["source"] # None /\ r.what = "cleanup" /\ Alive("source", r)
        /\ UNCHANGED <<peer, tgt, native, net>>
    BY <1>0, <1>6 DEF CleanupBegins, Cleaning, Acts, Serving, Idle
  <2>2. CASE Finish("source", r, "refused", "all_native_commits_required", 0) /\ UNCHANGED src
    BY <1>r, <2>1, <2>2 DEF Outcomes
  <2>3. CASE /\ src[r.unit].unit = "committed" /\ src' = [src EXCEPT ![r.unit].unit = "cleanup_pending"]
             /\ Finish("source", r, "ok", "verifying", 0)
    BY <1>0, <1>u, <2>1, <2>3, StateKeeps DEF SrcStates, Committed, SrcFits
  <2>4. CASE src[r.unit].unit = "cleaned" /\ Finish("source", r, "ok", "cleaned", 0) /\ UNCHANGED src
    BY <1>0, <1>u, <2>1, <2>4, Replies DEF Sides, Outcomes, Told
  <2> QED BY <1>0, <1>6, <2>2, <2>3, <2>4 DEF CleanupBegins, Cleans
<1>7. CASE CleanupEnds
  BY <1>0, <1>7, <1>u, StateKeeps
  DEF CleanupEnds, Cleaning, Cleans, Acts, Serving, Idle, SrcStates, Committed, SrcFits
<1> QED BY <1>1, <1>2, <1>3, <1>4, <1>5, <1>6, <1>7

\* Writing the row of one unit of the Source leaves the other rows.
LEMMA RowWritten ==
  ASSUME src \in [Units -> SrcRows], NEW u \in Units, NEW row \in SrcRows,
         src' = [src EXCEPT ![u] = row]
  PROVE  src' \in [Units -> SrcRows] /\ src'[u] = row /\ \A v \in Units \ {u} : src'[v] = src[v]
OBVIOUS

\* The removal of an original, step by step.
LEMMA RemovalActions ==
  ASSUME MigInv, UNCHANGED MasterRows, CleanupScan \/ UnlinkIntent \/ Unlink \/ RecordUnlink
  PROVE  MigInv'
<1>0. PICK r : r = work["source"].req OBVIOUS
<1> DEFINE u == r.unit
<1>1. /\ work["source"] # None /\ r.what = "cleanup" /\ Alive("source", r)
      /\ work["source"].step \in {"begin", "unlink", "record"}
      /\ UNCHANGED <<peer, tgt, native, net>>
  BY <1>0 DEF CleanupScan, UnlinkIntent, Unlink, RecordUnlink, Cleaning, Acts, Serving, Idle, callVars
<1>2. /\ u \in Units /\ work["source"].step # "stream" /\ RequestFits(r)
  BY <1>0, <1>1, ServedAtSource
<1>3. src \in [Units -> SrcRows] /\ src[u] \in SrcRows /\ SrcFits(u)
  BY <1>2 DEF MigInv, PeerTypes, MemberRows
<1>4. unit[u].state \in Committed /\ u \notin Uncommitted
  BY <1>1, <1>2 DEF RequestFits, Uncommitted
<1>5. r.what \notin {"finalize"} \cup Closings \cup Aborts BY <1>1 DEF Closings, Aborts
<1> HIDE DEF u
<1>6. ASSUME NEW row \in SrcRows, src' = [src EXCEPT ![u] = row], row.unit = "cleanup_pending",
             src[u].unit = "cleanup_pending", row.receipt = src[u].receipt,
             row.entry = "deleted" => ~row.file, row.scan = "final" => row.entry = "deleted"
      PROVE  SourceRowKeeps(u) /\ src'[u] = row /\ SrcFits(u)'
  <2>1. src' \in [Units -> SrcRows] /\ src'[u] = row /\ \A v \in Units \ {u} : src'[v] = src[v]
    BY <1>2, <1>3, <1>6, RowWritten
  <2>2. SrcFits(u)' BY <1>4, <1>6, <2>1 DEF SrcFits, MasterRows
  <2> QED BY <1>4, <1>6, <2>1, <2>2 DEF SourceRowKeeps, Committed
<1>7. ASSUME NEW row \in SrcRows, src' = [src EXCEPT ![u] = row], row.unit = "cleanup_pending",
             src[u].unit = "cleanup_pending", row.receipt = src[u].receipt,
             row.entry = "deleted" => ~row.file, row.scan = "final" => row.entry = "deleted",
             NEW phase, phase # "cleaned", Finish("source", r, "ok", phase, 0)
      PROVE  MigInv'
  <2>1. SourceRowKeeps(u) BY <1>6, <1>7
  <2>2. Told(r, phase, 0)' BY <1>1, <1>7 DEF Told
  <2> QED BY <1>0, <1>1, <1>2, <1>5, <1>7, <2>1, <2>2, SourceFinishes DEF Outcomes, u
<1>8. ASSUME NEW row \in SrcRows, src' = [src EXCEPT ![u] = row], row.unit = "cleanup_pending",
             src[u].unit = "cleanup_pending", row.receipt = src[u].receipt,
             row.entry = "deleted" => ~row.file, row.scan = "final" => row.entry = "deleted",
             NEW step \in {"unlink", "record"}, step = "record" => ~row.file,
             Step("source", step), UNCHANGED answer
      PROVE  MigInv'
  <2>1. SourceRowKeeps(u) /\ src'[u] = row /\ SrcFits(u)' BY <1>6, <1>8
  <2>2. src' \in [Units -> SrcRows] /\ \A v \in Units \ {u} : src'[v] = src[v] BY <2>1 DEF SourceRowKeeps
  <2> QED BY <1>0, <1>1, <1>2, <1>8, <2>1, <2>2, SourceGoesOn DEF u
<1>9. CASE CleanupScan
  <2>1. CASE ~Sound(u)
    <3>1. Finish("source", r, "refused", "missing_without_intent", 0) /\ UNCHANGED src
      BY <1>0, <1>9, <2>1 DEF CleanupScan, Cleans, u
    <3> QED BY <1>0, <1>1, <1>2, <3>1, Replies DEF Outcomes, Sides
  <2>2. CASE Sound(u)
    <3> DEFINE row == [src[u] EXCEPT !.scan = IF src[u].entry = "deleted" THEN "final" ELSE "ready",
                                     !.missing = src[u].entry = "deleting" /\ ~src[u].file]
    <3>1. /\ src[u].unit = "cleanup_pending" /\ src' = [src EXCEPT ![u] = row]
          /\ Finish("source", r, "ok", "ready", 0)
      BY <1>0, <1>3, <1>9, <2>2 DEF CleanupScan, Cleans, u
    <3>2. (src[u].entry = "deleting" /\ ~src[u].file) \in BOOLEAN OBVIOUS
    <3>3. row \in SrcRows /\ row.unit = src[u].unit /\ row.receipt = src[u].receipt
          /\ row.file = src[u].file /\ row.entry = src[u].entry
          /\ row.scan = IF src[u].entry = "deleted" THEN "final" ELSE "ready"
      BY <1>3 DEF SrcRows
    <3> HIDE DEF row
    <3> QED BY <1>3, <1>7, <3>1, <3>3 DEF SrcFits
  <2> QED BY <2>1, <2>2
<1>10. CASE UnlinkIntent
  <2> DEFINE row == [src[u] EXCEPT !.entry = "deleting"]
  <2>1. /\ src[u].unit = "cleanup_pending" /\ src' = [src EXCEPT ![u] = row] /\ src[u].scan = "ready"
        /\ Step("source", "unlink") /\ UNCHANGED answer
    BY <1>0, <1>3, <1>10 DEF UnlinkIntent, callVars, u
  <2>2. row \in SrcRows /\ row.unit = src[u].unit /\ row.receipt = src[u].receipt
        /\ row.entry = "deleting" /\ row.scan = src[u].scan
    BY <1>3 DEF SrcRows
  <2> HIDE DEF row
  <2> QED BY <1>8, <2>1, <2>2
<1>11. CASE Unlink
  <2>0. src[u].unit = "cleanup_pending"
    BY <1>0, <1>1, <1>11 DEF Unlink, Cleaning, Acts, Serving, MigInv, MemberRows, CleanupWork, u
  <2>1. CASE src[u].file \/ src[u].missing
    <3> DEFINE row == [src[u] EXCEPT !.file = FALSE]
    <3>1. src' = [src EXCEPT ![u] = row] /\ Step("source", "record") /\ UNCHANGED answer
      BY <1>0, <1>3, <1>11, <2>1 DEF Unlink, u
    <3>2. row \in SrcRows /\ row.unit = src[u].unit /\ row.receipt = src[u].receipt
          /\ row.entry = src[u].entry /\ row.scan = src[u].scan /\ ~row.file
      BY <1>3 DEF SrcRows
    <3> HIDE DEF row
    <3> QED BY <1>3, <1>8, <2>0, <3>1, <3>2 DEF SrcFits
  <2>2. CASE ~(src[u].file \/ src[u].missing)
    <3> DEFINE row == [src[u] EXCEPT !.scan = "none"]
    <3>1. src' = [src EXCEPT ![u] = row] /\ Finish("source", r, "ok", "verifying", 0)
      BY <1>0, <1>3, <1>11, <2>2 DEF Unlink, Cleans, u
    <3>2. row \in SrcRows /\ row.unit = src[u].unit /\ row.receipt = src[u].receipt
          /\ row.entry = src[u].entry /\ row.scan = "none" /\ row.file = src[u].file
      BY <1>3 DEF SrcRows
    <3> HIDE DEF row
    <3> QED BY <1>3, <1>7, <2>0, <3>1, <3>2 DEF SrcFits
  <2> QED BY <2>1, <2>2
<1>12. CASE RecordUnlink
  <2>0. src[u].unit = "cleanup_pending" /\ ~src[u].file
    BY <1>0, <1>1, <1>12 DEF RecordUnlink, Cleaning, Acts, Serving, MigInv, MemberRows, CleanupWork, u
  <2> DEFINE row == [src[u] EXCEPT !.entry = "deleted", !.scan = "none", !.missing = FALSE]
  <2>1. src' = [src EXCEPT ![u] = row] /\ Finish("source", r, "ok", "cleaning", 0)
    BY <1>0, <1>3, <1>12 DEF RecordUnlink, Cleans, u
  <2>2. row \in SrcRows /\ row.unit = src[u].unit /\ row.receipt = src[u].receipt
        /\ row.entry = "deleted" /\ row.scan = "none" /\ row.file = src[u].file
    BY <1>3 DEF SrcRows
  <2> HIDE DEF row
  <2> QED BY <1>7, <2>0, <2>1, <2>2
<1> QED BY <1>9, <1>10, <1>11, <1>12

-----------------------------------------------------------------------------
(* Rows of the Target.                                                         *)

\* What a handler of the Target may do to the row of a unit.
TargetRowKeeps(u) ==
  /\ tgt' \in [Units -> TgtRows] /\ \A v \in Units \ {u} : tgt'[v] = tgt[v]
  /\ TgtFits(u)'
  /\ tgt[u].unit \in Gone => tgt'[u].unit \in Gone
  /\ tgt[u].unit = "settled" => tgt'[u].unit = "settled"
  /\ tgt'[u].unit = "settled" => src[u].unit = "settled"
  /\ tgt'[u].entry \in Undone =>
       \/ tgt[u].entry \in Undone \/ peer["target"].state = "aborting"
       \/ \A q \in Pending : q.what \in Forwards => q.epoch < peer["target"].epoch
  /\ unit[u].state \in Committed =>
       tgt'[u].unit \in {"published", "committed"} /\ tgt'[u].file = "public" /\ tgt'[u].entry = "published"
  /\ unit[u].target # runner.epoch \/ u \notin Uncommitted
  /\ peer["target"].state = "aborting" => tgt'[u].unit \in Copyable

\* What any write of one row of the Target keeps, whatever the handler does next.
LEMMA TargetWrites ==
  ASSUME MigInv, peer["target"].state \notin {"released", "aborted"},
         NEW u \in Units, TargetRowKeeps(u),
         UNCHANGED <<peer, src, net, MasterRows>>,
         Flow', PeerTypes', MasterTypes', Pending' \subseteq Pending,
         TargetWork', CleanupWork'
  PROVE  /\ PeerMove /\ RequestsFit' /\ JobFits' /\ LateFits' /\ MemberRows' /\ UnitsFit'
         /\ TaskFits' /\ MembersFit'
<1> USE DEF MigInv, TargetRowKeeps
<1>1. PeerMove BY DEF PeerMove, PeerTypes, Peers
<1>2. RequestsFit' /\ JobFits' /\ TaskFits'
  BY <1>1, MoveKeepsRequests, MoveKeepsJob, MoveKeepsTask
<1>3. LateFits' BY <1>1, MoveKeepsLate DEF Flow
<1>4. MemberRows'
  <2>1. \A v \in Units : SrcFits(v)' BY DEF MemberRows, SrcFits, MasterRows
  <2>2. ASSUME NEW v \in Units PROVE TgtFits(v)'
    <3>1. CASE v = u BY <3>1
    <3>2. CASE v # u
      <4>1. tgt'[v] = tgt[v] /\ TgtFits(v) BY <3>2 DEF MemberRows
      <4> QED BY <4>1 DEF TgtFits, TgtRowFits, MasterRows
    <3> QED BY <3>1, <3>2
  <2>3. AbortFits' BY DEF MemberRows, AbortFits
  <2> QED BY <2>1, <2>2, <2>3 DEF MemberRows
<1>5. UnitsFit'
  <2>1. \A v \in Units : Taken(v)' BY DEF UnitsFit, Taken, MasterRows
  <2>2. \A v \in Units : Given(v)' BY DEF UnitsFit, Given, MasterRows
  <2>3. \A v \in Units : Proved(v)'
    BY DEF UnitsFit, Proved, TargetProof, SourceProof, Uncommitted, MasterRows
  <2> QED BY <2>1, <2>2, <2>3 DEF UnitsFit
<1>6. MembersFit' BY DEF MembersFit, Uncleaned, Uncommitted, MasterRows
<1> QED BY <1>1, <1>2, <1>3, <1>4, <1>5, <1>6

\* A handler of the Target that writes the row of one unit and answers.
LEMMA TargetFinishes ==
  ASSUME MigInv, NEW r, work["target"] # None, r = work["target"].req,
         work["target"].step \notin {"stream", "receive"},
         Alive("target", r), peer["target"].state \notin {"released", "aborted"},
         NEW u \in Units, TargetRowKeeps(u),
         NEW kind \in Outcomes, NEW phase, NEW receipt, Finish("target", r, kind, phase, receipt),
         UNCHANGED <<peer, src, net, MasterRows>>, native' \in [reserved : Int, used : Int],
         kind = "ok" => Told(r, phase, receipt)', BooksAgree'
  PROVE  MigInv'
<1>1. \A t \in Sides : work'[t] = IF t = "target" THEN None ELSE work[t]
  BY DEF Finish, MigInv, PeerTypes
<1>2. BoundFits' BY <1>1 DEF MigInv, Flow, BoundFits, MasterRows
<1>3. \A t \in Sides : peer'[t].epoch <= runner.epoch BY DEF MigInv, Flow, EpochsFit
<1>4. /\ Flow' /\ Pending' \subseteq Pending
      /\ work' \in [Sides -> Works \cup {None}] /\ (answer # None => answer.kind \in Outcomes)'
  BY <1>2, <1>3, FinishFlows DEF MigInv, Sides
<1>5. PeerTypes' /\ MasterTypes'
  BY <1>4 DEF MigInv, PeerTypes, MasterTypes, MasterRows, TargetRowKeeps
<1>6. TargetWork' /\ CleanupWork' BY <1>1 DEF MigInv, MemberRows, TargetWork, CleanupWork, Sides
<1>7. /\ PeerMove /\ RequestsFit' /\ JobFits' /\ LateFits' /\ MemberRows' /\ UnitsFit'
      /\ TaskFits' /\ MembersFit'
  BY <1>1, <1>4, <1>5, <1>6, TargetWrites DEF Sides
<1>8. AnswerFits' BY <1>7, FinishAnswers DEF MigInv, Sides
<1> QED BY <1>4, <1>5, <1>7, <1>8 DEF MigInv

\* A handler of the Target that has one more of its steps behind it.
LEMMA TargetGoesOn ==
  ASSUME MigInv, NEW r, work["target"] # None, r = work["target"].req,
         work["target"].step \notin {"stream", "receive"},
         Alive("target", r), peer["target"].state \notin {"released", "aborted"},
         NEW u \in Units, TargetRowKeeps(u),
         NEW step \in Steps \ {"stream"}, Step("target", step),
         step \in {"fetch", "receive"} => r.what = "copy",
         step = "moved" => r.what = "publish",
         step \in {"unlink", "record"} => r.what \in {"cleanup", "undo", "abort_clean"},
         UNCHANGED <<peer, src, native, answer, net, MasterRows>>,
         work'["target"].req = r /\ work'["target"].step = step => TargetWork', BooksAgree'
  PROVE  MigInv'
<1>1. /\ Flow' /\ Pending' = Pending /\ work' \in [Sides -> Works \cup {None}]
      /\ work'["target"] # None /\ work'["target"].req = r /\ work'["target"].step = step
      /\ work'["source"] = work["source"]
  BY StepFlows DEF MigInv, Sides
<1>2. PeerTypes' /\ MasterTypes'
  BY <1>1 DEF MigInv, PeerTypes, MasterTypes, MasterRows, TargetRowKeeps
<1>3. /\ PeerMove /\ RequestsFit' /\ JobFits' /\ LateFits' /\ MemberRows' /\ UnitsFit'
      /\ TaskFits' /\ MembersFit'
  <2>1. CleanupWork' BY <1>1 DEF MigInv, MemberRows, CleanupWork
  <2> QED BY <1>1, <1>2, <2>1, TargetWrites
<1>4. AnswerFits' BY <1>3, AnswerStays DEF MigInv, Sides
<1> QED BY <1>1, <1>2, <1>3, <1>4 DEF MigInv

\* Who is served by the Target, and what the request proves.
LEMMA ServedAtTarget ==
  ASSUME MigInv, NEW r, work["target"] # None, r = work["target"].req, Alive("target", r)
  PROVE  /\ r \in Requests /\ r \in Pending /\ RequestFits(r) /\ LastRunner(r) /\ Overtaken(r)
         /\ r.what \in {"copy", "publish", "inspect", "undo", "commit", "settle"} => r.unit \in Units
         /\ r.to = "target" /\ work["target"].step # "stream"
         /\ r.what \notin {"finalize"} \cup Closings \cup Aborts =>
              /\ peer["target"].state \in {"prepared", "active"} /\ peer["target"].epoch = r.epoch
              /\ peer["target"].what = Purpose(r.what)
         /\ r.what \in {"copy", "publish"} =>
              unit[r.unit].state \notin Committed /\ tgt[r.unit].entry \notin Undone
         /\ r.what \in {"copy", "publish", "commit", "undo", "settle"} =>
              unit[r.unit].target # runner.epoch \/ r.unit \notin Uncommitted
         /\ r.what = "undo" => \A q \in Pending : q.what \in Forwards => q.epoch < peer["target"].epoch
<1> USE DEF MigInv
<1>1. r \in Requests /\ r \in Pending /\ RequestFits(r) /\ LastRunner(r) /\ Overtaken(r)
  BY WorkIsRequest DEF RequestsFit, Sides
<1>2. /\ r.what \in {"copy", "publish", "inspect", "undo", "commit", "settle"} => r.unit \in Units
      /\ r.to = "target" /\ work["target"].step # "stream"
  BY <1>1 DEF RequestFits, Shaped, Flow, WorkFits, Sides
<1>3. r.what \notin {"finalize"} \cup Closings \cup Aborts =>
        /\ peer["target"].state \in {"prepared", "active"} /\ peer["target"].epoch = r.epoch
        /\ peer["target"].what = Purpose(r.what)
  BY AliveIsBound DEF Flow, Sides
<1>4. r.what \in {"copy", "publish"} =>
        unit[r.unit].state \notin Committed /\ tgt[r.unit].entry \notin Undone
  BY <1>1, <1>2, <1>3 DEF LateFits, Late, Forwards, Closings, Aborts, Requests, PeerTypes, Peers, Sides
<1>5. ASSUME r.what \in {"copy", "publish", "commit", "undo", "settle"},
             unit[r.unit].target = runner.epoch, r.unit \in Uncommitted
      PROVE  FALSE
  <2>1. peer["target"].epoch = runner.epoch
    BY <1>2, <1>5 DEF UnitsFit, Proved, TargetProof
  <2>2. r.epoch = runner.epoch BY <1>3, <1>5, <2>1 DEF Closings, Aborts
  <2>3. r.what # "commit" BY <1>1, <1>5 DEF RequestFits, Uncommitted
  <2>4. unit[r.unit].copied
    BY <1>2, <1>5 DEF UnitsFit, Proved, MasterTypes
  <2> QED BY <1>1, <1>2, <1>5, <2>2, <2>3, <2>4 DEF LastRunner, Cancels, UnitCancels
<1>6. r.what = "undo" => \A q \in Pending : q.what \in Forwards => q.epoch < peer["target"].epoch
  BY <1>1, <1>3 DEF Overtaken, Cancels, UnitCancels, Closings, Aborts
<1> QED BY <1>1, <1>2, <1>3, <1>4, <1>5, <1>6

\* The conditions under which the Target may replace the row of one unit.
LEMMA TargetRow ==
  ASSUME MigInv, UNCHANGED MasterRows, NEW u \in Units, NEW row \in TgtRows,
         tgt' = [tgt EXCEPT ![u] = row], TgtRowFits(row, u),
         tgt[u].unit \in Gone => row.unit \in Gone,
         tgt[u].unit = "settled" => row.unit = "settled",
         row.unit = "settled" => src[u].unit = "settled",
         row.entry \in Undone =>
           \/ tgt[u].entry \in Undone \/ peer["target"].state = "aborting"
           \/ \A q \in Pending : q.what \in Forwards => q.epoch < peer["target"].epoch,
         unit[u].state \in Committed =>
           row.unit \in {"published", "committed"} /\ row.file = "public" /\ row.entry = "published",
         unit[u].target # runner.epoch \/ u \notin Uncommitted,
         peer["target"].state = "aborting" => row.unit \in Copyable
  PROVE  TargetRowKeeps(u) /\ tgt'[u] = row
<1>1. tgt' \in [Units -> TgtRows] /\ tgt'[u] = row /\ \A v \in Units \ {u} : tgt'[v] = tgt[v]
  BY DEF MigInv, PeerTypes
<1>2. TgtFits(u)' BY <1>1 DEF TgtFits, TgtRowFits, MasterRows
<1> QED BY <1>1, <1>2 DEF TargetRowKeeps

\* A row that is neither acknowledged nor settled moves no counter.
LEMMA PlainRow ==
  ASSUME MigInv, UNCHANGED <<MasterRows, native, peer>>, NEW u \in Units, TargetRowKeeps(u),
         tgt[u].unit \notin {"committed", "settled"}, tgt'[u].unit \notin {"committed", "settled"}
  PROVE  BooksAgree' /\ native' \in [reserved : Int, used : Int]
<1>1. \A v \in Units : tgt'[v].unit \in {"committed", "settled"} \/ tgt[v].unit \in {"committed", "settled"}
        => tgt'[v].unit = tgt[v].unit
  BY DEF TargetRowKeeps
<1>2. BooksAgree' BY <1>1, BooksStay DEF MigInv
<1> QED BY <1>2 DEF MigInv, PeerTypes

\* Copying.
LEMMA CopyOpens ==
  ASSUME MigInv, UNCHANGED MasterRows, CopyOpen
  PROVE  MigInv'
<1>0. PICK r : r = work["target"].req OBVIOUS
<1> DEFINE u == r.unit
<1>1. /\ work["target"] # None /\ r.what = "copy" /\ Alive("target", r) /\ work["target"].step = "begin"
      /\ UNCHANGED <<peer, src, native, net>>
  BY <1>0 DEF CopyOpen, Acts, Serving, Idle
<1>2. /\ u \in Units /\ unit[u].state \notin Committed /\ tgt[u].entry \notin Undone
      /\ unit[u].target # runner.epoch \/ u \notin Uncommitted
      /\ peer["target"].state \in {"prepared", "active"}
  BY <1>0, <1>1, ServedAtTarget DEF Closings, Aborts
<1>3. tgt[u] \in TgtRows /\ TgtFits(u) BY <1>2 DEF MigInv, PeerTypes, MemberRows
<1> HIDE DEF u
<1>4. CASE /\ tgt[u].entry \in {"none", "receiving"}
           /\ tgt' = [tgt EXCEPT ![u].entry = "receiving", ![u].file = "part"]
           /\ Step("target", "fetch") /\ UNCHANGED answer
  <2> DEFINE row == [tgt[u] EXCEPT !.entry = "receiving", !.file = "part"]
  <2>1. tgt' = [tgt EXCEPT ![u] = row] BY <1>2, <1>4 DEF MigInv, PeerTypes
  <2>2. row \in TgtRows /\ row.unit = tgt[u].unit /\ row.entry = "receiving" /\ row.file = "part"
    BY <1>3 DEF TgtRows
  <2> HIDE DEF row
  <2>3. /\ tgt[u].unit \notin {"moving", "registering", "scanning", "published", "committed"} \cup Gone
        /\ TgtRowFits(row, u)
    BY <1>2, <1>3, <1>4, <2>2 DEF TgtFits, TgtRowFits, Undone
  <2>4. peer["target"].state # "aborting" /\ row.entry \notin Undone BY <1>2, <2>2 DEF Undone
  <2>5. TargetRowKeeps(u) /\ tgt'[u] = row
    BY <1>2, <2>1, <2>2, <2>3, <2>4, TargetRow DEF Gone
  <2>6. BooksAgree' BY <1>1, <1>2, <2>2, <2>3, <2>5, PlainRow DEF Gone
  <2>7. work'["target"].req = r /\ work'["target"].step = "fetch" => TargetWork'
    BY <1>1, <2>2, <2>5 DEF TargetWork, u
  <2> QED BY <1>0, <1>1, <1>2, <1>4, <2>5, <2>6, <2>7, TargetGoesOn DEF Steps
<1>5. CASE UNCHANGED tgt /\ \E kind \in {"ok", "refused"}, phase \in {"verified", "journal_changed"} :
             Finish("target", r, kind, phase, 0)
  <2>1. Told(r, "verified", 0) /\ Told(r, "journal_changed", 0) BY <1>1 DEF Told
  <2> QED BY <1>0, <1>1, <1>5, <2>1, Replies DEF Outcomes, Sides
<1> QED BY <1>0, <1>4, <1>5 DEF CopyOpen, u

\* Publication.
LEMMA Publishes ==
  ASSUME MigInv, UNCHANGED MasterRows, Prepare \/ PublishStep \/ MoveDirectory \/ SaveMove
  PROVE  MigInv'
<1>0. PICK r : r = work["target"].req OBVIOUS
<1> DEFINE u == r.unit
<1>1. /\ work["target"] # None /\ r.what = "publish" /\ Alive("target", r)
      /\ work["target"].step \in {"begin", "moved"}
      /\ UNCHANGED <<peer, src, native, net>>
  BY <1>0 DEF Prepare, PublishStep, MoveDirectory, SaveMove, Acts, Serving, Idle, callVars
<1>2. /\ u \in Units /\ unit[u].state \notin Committed /\ tgt[u].entry \notin Undone
      /\ unit[u].target # runner.epoch \/ u \notin Uncommitted
      /\ peer["target"].state \in {"prepared", "active"} /\ peer["target"].epoch = r.epoch
      /\ peer["target"].what = "publish" /\ r \in Requests
  BY <1>0, <1>1, ServedAtTarget DEF Closings, Aborts, Purpose
<1>3. tgt \in [Units -> TgtRows] /\ tgt[u] \in TgtRows /\ TgtRowFits(tgt[u], u)
  BY <1>2 DEF MigInv, PeerTypes, MemberRows, TgtFits
<1>4. tgt[u].unit # "committed" BY <1>2, <1>3 DEF TgtRowFits
<1> HIDE DEF u
<1>5. ASSUME NEW row \in TgtRows, tgt' = [tgt EXCEPT ![u] = row], TgtRowFits(row, u),
             tgt[u].unit \notin Gone, row.unit \notin Gone \cup {"committed"}, row.entry \notin Undone
      PROVE  TargetRowKeeps(u) /\ tgt'[u] = row /\ BooksAgree' /\ native' \in [reserved : Int, used : Int]
  <2>1. TargetRowKeeps(u) /\ tgt'[u] = row BY <1>2, <1>5, TargetRow DEF Gone
  <2> QED BY <1>1, <1>2, <1>4, <1>5, <2>1, PlainRow DEF Gone
<1>6. ASSUME NEW row \in TgtRows, tgt' = [tgt EXCEPT ![u] = row], TgtRowFits(row, u),
             tgt[u].unit \notin Gone, row.unit \notin Gone \cup {"committed"}, row.entry \notin Undone,
             NEW phase, Finish("target", r, "ok", phase, 0),
             phase = "published" => row.unit = "published" /\ row.entry = "published"
                                    /\ peer["target"].state = "active"
      PROVE  MigInv'
  <2>1. TargetRowKeeps(u) /\ tgt'[u] = row /\ BooksAgree' /\ native' \in [reserved : Int, used : Int]
    BY <1>5, <1>6
  <2>2. Told(r, phase, 0)' BY <1>1, <1>2, <1>6, <2>1 DEF Told, TargetProof, u
  <2> QED BY <1>0, <1>1, <1>2, <1>6, <2>1, <2>2, TargetFinishes DEF Outcomes
<1>7. CASE Prepare
  <2>1. CASE tgt[u].unit \in Copyable /\ tgt[u].entry = "verified"
    <3> DEFINE row == [tgt[u] EXCEPT !.unit = "assembling"]
    <3>1. tgt' = [tgt EXCEPT ![u] = row] /\ Finish("target", r, "ok", "publishing", 0)
      BY <1>0, <1>2, <1>3, <1>7, <2>1 DEF Prepare, u
    <3>2. row \in TgtRows /\ row.unit = "assembling" /\ row.entry = "verified" /\ row.file = tgt[u].file
      BY <1>3, <2>1 DEF TgtRows, TgtStates
    <3> HIDE DEF row
    <3>3. TgtRowFits(row, u) BY <3>2 DEF TgtRowFits, Gone, Undone
    <3> QED BY <1>6, <2>1, <3>1, <3>2, <3>3 DEF Gone, Undone, Copyable
  <2>2. CASE ~(tgt[u].unit \in Copyable /\ tgt[u].entry = "verified")
    <3>1. UNCHANGED tgt /\ Finish("target", r, "refused", "metadata_incomplete", 0)
      BY <1>0, <1>7, <2>2 DEF Prepare, u
    <3> QED BY <1>0, <1>1, <3>1, Replies DEF Outcomes, Sides
  <2> QED BY <2>1, <2>2
<1>8. CASE PublishStep
  <2>1. tgt[u].unit \in {"assembling", "registering", "scanning", "published"}
    BY <1>0, <1>8 DEF PublishStep, NextPhase, u
  <2> DEFINE phase == NextPhase[tgt[u].unit]
             entry == IF tgt[u].unit = "assembling" THEN "publishing"
                      ELSE IF tgt[u].unit = "registering" THEN "published" ELSE tgt[u].entry
             row == [tgt[u] EXCEPT !.unit = phase, !.entry = entry]
             said == IF phase = "published" THEN "published" ELSE "publishing"
  <2>2. /\ phase = IF tgt[u].unit = "assembling" THEN "moving"
                   ELSE IF tgt[u].unit = "scanning" THEN "published" ELSE "scanning"
    BY <2>1 DEF NextPhase
  <2>3. tgt' = [tgt EXCEPT ![u] = row] /\ Finish("target", r, "ok", said, 0)
    BY <1>0, <1>2, <1>3, <1>8 DEF PublishStep, u
  <2>4. row \in TgtRows /\ row.unit = phase /\ row.entry = entry /\ row.file = tgt[u].file
    BY <1>3, <2>2 DEF TgtRows, TgtStates
  <2> HIDE DEF row, phase
  <2>5. TgtRowFits(row, u) /\ entry \notin Undone BY <1>2, <1>3, <2>1, <2>2, <2>4 DEF TgtRowFits, Gone, Undone
  <2>6. said = "published" => row.unit = "published" /\ row.entry = "published"
    BY <1>2, <1>3, <2>1, <2>2, <2>4 DEF TgtRowFits
  <2>7. phase \notin Gone \cup {"committed"} /\ tgt[u].unit \notin Gone BY <2>1, <2>2 DEF Gone
  <2>8. peer["target"].state = "active" BY <1>2 DEF MigInv, Flow, BoundFits, Sides
  <2> HIDE DEF said
  <2> QED BY <1>6, <2>3, <2>4, <2>5, <2>6, <2>7, <2>8
<1>9. CASE MoveDirectory
  <2> DEFINE row == [tgt[u] EXCEPT !.file = "public"]
  <2>1. /\ tgt' = [tgt EXCEPT ![u] = row] /\ Step("target", "moved") /\ UNCHANGED answer
        /\ tgt[u].unit = "moving" /\ work["target"].step = "begin"
    BY <1>0, <1>2, <1>3, <1>9 DEF MoveDirectory, Acts, Serving, callVars, u
  <2>2. row \in TgtRows /\ row.unit = "moving" /\ row.entry = tgt[u].entry /\ row.file = "public"
    BY <1>3, <2>1 DEF TgtRows
  <2>3. row.entry = "publishing" BY <1>2, <1>3, <2>1, <2>2 DEF TgtRowFits
  <2> HIDE DEF row
  <2>4. TgtRowFits(row, u) BY <2>2, <2>3 DEF TgtRowFits, Gone, Undone
  <2>5. TargetRowKeeps(u) /\ tgt'[u] = row /\ BooksAgree'
    BY <1>5, <2>1, <2>2, <2>3, <2>4 DEF Gone, Undone
  <2>6. work'["target"].req = r /\ work'["target"].step = "moved" => TargetWork'
    BY <1>1, <2>2, <2>3, <2>5 DEF TargetWork, u
  <2> QED BY <1>0, <1>1, <1>2, <2>1, <2>5, <2>6, TargetGoesOn DEF Steps
<1>10. CASE SaveMove
  <2> DEFINE row == [tgt[u] EXCEPT !.unit = "registering"]
  <2>1. /\ tgt' = [tgt EXCEPT ![u] = row] /\ Finish("target", r, "ok", "publishing", 0)
        /\ tgt[u].unit = "moving" /\ tgt[u].entry = "publishing" /\ tgt[u].file = "public"
    BY <1>0, <1>2, <1>3, <1>10
    DEF SaveMove, Acts, Serving, Idle, u, MigInv, MemberRows, TargetWork
  <2>2. row \in TgtRows /\ row.unit = "registering" /\ row.entry = "publishing" /\ row.file = "public"
    BY <1>3, <2>1 DEF TgtRows, TgtStates
  <2> HIDE DEF row
  <2>3. TgtRowFits(row, u) BY <2>2 DEF TgtRowFits, Gone, Undone
  <2> QED BY <1>6, <2>1, <2>2, <2>3 DEF Gone, Undone
<1> QED BY <1>7, <1>8, <1>9, <1>10

\* Taking a copy back.
LEMMA UndoMoves ==
  ASSUME MigInv, UNCHANGED MasterRows,
         UndoIntent \/ DiscardIntent \/ UndoUnlink \/ UndoRecord \/ DiscardRecord \/ UndoDirectory
         \/ UndoFinish \/ DiscardFinish
  PROVE  MigInv'
<1>0. PICK r : r = work["target"].req OBVIOUS
<1> DEFINE u == r.unit
<1> USE DEF Undoing
<1>1. /\ work["target"] # None /\ r.what = "undo" /\ Alive("target", r)
      /\ work["target"].step \in {"begin", "unlink", "record"}
      /\ UNCHANGED <<peer, src, native, net>>
  BY <1>0 DEF UndoIntent, DiscardIntent, UndoUnlink, UndoRecord, DiscardRecord, UndoDirectory,
       UndoFinish, DiscardFinish, UndoAnswers, Unwinds, Undoes, Acts, Serving, Idle, Rest
<1>2. /\ u \in Units /\ unit[u].state \notin Committed /\ cancel.path = "publication"
      /\ unit[u].target # runner.epoch \/ u \notin Uncommitted
      /\ peer["target"].state \in {"prepared", "active"}
      /\ \A q \in Pending : q.what \in Forwards => q.epoch < peer["target"].epoch
  BY <1>0, <1>1, ServedAtTarget DEF Closings, Aborts, Cancels, RequestFits, UnitCancels
<1>3. tgt \in [Units -> TgtRows] /\ tgt[u] \in TgtRows /\ TgtRowFits(tgt[u], u)
  BY <1>2 DEF MigInv, PeerTypes, MemberRows, TgtFits
<1>4. tgt[u].unit # "committed" BY <1>2, <1>3 DEF TgtRowFits
<1>5. work["target"].step \in {"unlink", "record"} =>
        /\ tgt[u].unit \notin Gone /\ tgt[u].entry \in {"aborting", "discarding"}
        /\ work["target"].step = "record" => tgt[u].file = "none"
  BY <1>0, <1>1 DEF MigInv, MemberRows, TargetWork
<1> HIDE DEF u
<1>6. ASSUME NEW row \in TgtRows, tgt' = [tgt EXCEPT ![u] = row], tgt[u].unit \notin Gone,
             row.unit \in {tgt[u].unit, "cancelled"}, row.entry \in Undone,
             row.entry \in {"aborted", "removed", "discarded", "dropped"} => row.file = "none",
             row.unit = "cancelled" => row.entry \in {"removed", "dropped"}
      PROVE  TargetRowKeeps(u) /\ tgt'[u] = row /\ BooksAgree' /\ native' \in [reserved : Int, used : Int]
  <2>1. TgtRowFits(row, u) BY <1>2, <1>4, <1>6 DEF TgtRowFits, Gone, Undone
  <2>2. TargetRowKeeps(u) /\ tgt'[u] = row BY <1>2, <1>6, <2>1, TargetRow DEF Gone
  <2> QED BY <1>1, <1>2, <1>4, <1>6, <2>2, PlainRow DEF Gone
<1>7. ASSUME NEW row \in TgtRows, tgt' = [tgt EXCEPT ![u] = row], tgt[u].unit \notin Gone,
             row.unit \in {tgt[u].unit, "cancelled"}, row.entry \in Undone,
             row.entry \in {"aborted", "removed", "discarded", "dropped"} => row.file = "none",
             row.unit = "cancelled" => row.entry \in {"removed", "dropped"},
             NEW phase, Finish("target", r, "ok", phase, 0), phase = "cancelled" => row.unit = "cancelled"
      PROVE  MigInv'
  <2>1. TargetRowKeeps(u) /\ tgt'[u] = row /\ BooksAgree' /\ native' \in [reserved : Int, used : Int]
    BY <1>6, <1>7
  <2>2. Told(r, phase, 0)' BY <1>1, <1>7, <2>1 DEF Told, Gone, u
  <2> QED BY <1>0, <1>1, <1>2, <1>7, <2>1, <2>2, TargetFinishes DEF Outcomes
<1>8. ASSUME NEW row \in TgtRows, tgt' = [tgt EXCEPT ![u] = row], tgt[u].unit \notin Gone,
             row.unit = tgt[u].unit, row.entry \in {"aborting", "discarding"},
             NEW step \in {"unlink", "record"}, Step("target", step), UNCHANGED answer,
             step = "record" => row.file = "none"
      PROVE  MigInv'
  <2>1. TargetRowKeeps(u) /\ tgt'[u] = row /\ BooksAgree'
    BY <1>6, <1>8 DEF Undone, Gone
  <2>2. work'["target"].req = r /\ work'["target"].step = step => TargetWork'
    BY <1>1, <1>4, <1>8, <2>1 DEF TargetWork, u
  <2> QED BY <1>0, <1>1, <1>2, <1>8, <2>1, <2>2, TargetGoesOn DEF Steps
<1>9. ASSUME NEW entries, NEW entry \in {"aborting", "discarding"},
             Unwinds(Undoing, "begin", entries, entry, "unlink")
      PROVE  MigInv'
  <2> DEFINE row == [tgt[u] EXCEPT !.entry = entry]
  <2>1. tgt' = [tgt EXCEPT ![u] = row] /\ Step("target", "unlink") /\ UNCHANGED answer
        /\ tgt[u].unit \notin Gone
    BY <1>0, <1>2, <1>3, <1>9 DEF Unwinds, u
  <2>2. row \in TgtRows /\ row.unit = tgt[u].unit /\ row.entry = entry /\ row.file = tgt[u].file
    BY <1>3 DEF TgtRows, Undone
  <2> HIDE DEF row
  <2> QED BY <1>8, <2>1, <2>2
<1>10. CASE UndoUnlink
  <2> DEFINE row == [tgt[u] EXCEPT !.file = "none"]
  <2>1. tgt' = [tgt EXCEPT ![u] = row] /\ Step("target", "record") /\ UNCHANGED answer
        /\ tgt[u].unit \notin Gone /\ tgt[u].entry \in {"aborting", "discarding"}
    BY <1>0, <1>2, <1>3, <1>5, <1>10 DEF UndoUnlink, Undoes, Acts, Serving, u
  <2>2. row \in TgtRows /\ row.unit = tgt[u].unit /\ row.entry = tgt[u].entry /\ row.file = "none"
    BY <1>3 DEF TgtRows
  <2> HIDE DEF row
  <2> QED BY <1>8, <2>1, <2>2
<1>11. ASSUME NEW entry \in {"aborted", "discarded", "removed", "dropped"}, tgt[u].file = "none",
              tgt[u].unit \notin Gone, NEW phase, phase # "cancelled",
              UndoAnswers(u, [tgt[u] EXCEPT !.entry = entry], phase)
       PROVE  MigInv'
  <2> DEFINE row == [tgt[u] EXCEPT !.entry = entry]
  <2>1. tgt' = [tgt EXCEPT ![u] = row] /\ Finish("target", r, "ok", phase, 0)
    BY <1>0, <1>11 DEF UndoAnswers, Reply2
  <2>2. row \in TgtRows /\ row.unit = tgt[u].unit /\ row.entry = entry /\ row.file = tgt[u].file
    BY <1>3 DEF TgtRows, Undone
  <2> HIDE DEF row
  <2> QED BY <1>7, <1>11, <2>1, <2>2 DEF Undone, Gone
<1>12. CASE UndoRecord \/ DiscardRecord
  BY <1>0, <1>5, <1>11, <1>12 DEF UndoRecord, DiscardRecord, Undoes, Acts, Serving, u
<1>13. CASE UndoDirectory
  <2>1. tgt[u].file = "none" /\ tgt[u].unit \notin Gone /\ tgt[u].entry \in {"aborted", "discarded"}
    BY <1>0, <1>3, <1>13 DEF UndoDirectory, TgtRowFits, u
  <2>2. PICK entry \in {"removed", "dropped"} : UndoAnswers(u, [tgt[u] EXCEPT !.entry = entry], "receipt")
    BY <1>0, <1>3, <1>13 DEF UndoDirectory, TgtRows, u
  <2> QED BY <1>11, <2>1, <2>2
<1>14. CASE UndoFinish \/ DiscardFinish
  <2> DEFINE row == [tgt[u] EXCEPT !.unit = "cancelled"]
  <2>1. /\ tgt' = [tgt EXCEPT ![u] = row] /\ Finish("target", r, "ok", "cancelled", 0)
        /\ tgt[u].unit \notin Gone /\ tgt[u].entry \in {"removed", "dropped"} /\ tgt[u].file = "none"
    BY <1>0, <1>3, <1>14 DEF UndoFinish, DiscardFinish, UndoAnswers, Reply2, TgtRowFits, u
  <2>2. row \in TgtRows /\ row.unit = "cancelled" /\ row.entry = tgt[u].entry /\ row.file = tgt[u].file
    BY <1>3 DEF TgtRows, TgtStates, Gone
  <2> HIDE DEF row
  <2> QED BY <1>7, <2>1, <2>2 DEF Undone
<1> QED
  BY <1>9, <1>10, <1>12, <1>13, <1>14 DEF UndoIntent, DiscardIntent

\* Sets of units are finite, and count one more with one more unit.
LEMMA OneMore ==
  ASSUME NEW S \in SUBSET Units, NEW u \in Units, u \notin S
  PROVE  /\ IsFiniteSet(S) /\ Cardinality(S) \in Nat
         /\ Cardinality(S \cup {u}) = Cardinality(S) + 1
<1>1. IsFiniteSet(Units) BY FS_Interval, CountsAssumption DEF Units
<1>2. IsFiniteSet(S) BY <1>1, FS_Subset
<1> QED BY <1>2, FS_AddElement, FS_CardinalityType

\* The Target acknowledges, or settles, a unit.
LEMMA TargetCounts ==
  ASSUME MigInv, UNCHANGED <<MasterRows, peer>>, NEW u \in Units, TargetRowKeeps(u),
         tgt[u].unit \notin {"committed", "settled"}, tgt'[u].unit \in {"committed", "settled"},
         native'.reserved = native.reserved - 1, native' \in [reserved : Int, used : Int],
         native'.used = IF tgt'[u].unit = "committed" THEN native.used + 1 ELSE native.used
  PROVE  BooksAgree'
<1> DEFINE committed == {v \in Units : tgt[v].unit = "committed"}
<1>1. \A v \in Units \ {u} : tgt'[v] = tgt[v] BY DEF TargetRowKeeps
<1>2. /\ TargetReleased' = TargetReleased \cup {u} /\ u \notin TargetReleased
      /\ TargetReleased \in SUBSET Units
  BY <1>1 DEF TargetReleased
<1>3. Cardinality(TargetReleased') = Cardinality(TargetReleased) + 1 /\ Cardinality(TargetReleased) \in Nat
  BY <1>2, OneMore
<1>4. committed' = (IF tgt'[u].unit = "committed" THEN committed \cup {u} ELSE committed)
      /\ u \notin committed /\ committed \in SUBSET Units
  BY <1>1
<1> HIDE DEF committed
<1>5. native'.used = Cardinality(committed')
  <2>1. native.used = Cardinality(committed) BY DEF MigInv, BooksAgree, committed
  <2>2. Cardinality(committed \cup {u}) = Cardinality(committed) + 1 BY <1>4, OneMore
  <2> QED BY <1>4, <2>1, <2>2
<1>6. peer'["target"].state # "aborted" => native'.reserved = N - Cardinality(TargetReleased')
  BY <1>3, CountsAssumption DEF MigInv, BooksAgree, PeerTypes
<1>7. Moved' = Moved /\ Withdrawn' = Withdrawn BY DEF Moved, Withdrawn, MasterRows
<1> QED BY <1>5, <1>6, <1>7 DEF MigInv, BooksAgree, MasterRows, committed

\* The Target counts a committed unit as used, or refunds a cancelled one, once.
LEMMA TargetAccounts ==
  ASSUME MigInv, UNCHANGED MasterRows, AcknowledgeTarget \/ SettleTarget
  PROVE  MigInv'
<1>0. PICK r : r = work["target"].req OBVIOUS
<1> DEFINE u == r.unit
<1>1. /\ work["target"] # None /\ r.what \in {"commit", "settle"} /\ Alive("target", r)
      /\ work["target"].step = "begin"
      /\ UNCHANGED <<peer, src, net>>
  BY <1>0 DEF AcknowledgeTarget, SettleTarget, Does, Acts, Serving, Idle, Rest
<1>2. /\ u \in Units /\ RequestFits(r) /\ r.to = "target"
      /\ unit[u].target # runner.epoch \/ u \notin Uncommitted
      /\ peer["target"].state \in {"prepared", "active"}
  BY <1>0, <1>1, ServedAtTarget DEF Closings, Aborts
<1>3. /\ tgt \in [Units -> TgtRows] /\ tgt[u] \in TgtRows /\ TgtRowFits(tgt[u], u)
      /\ native \in [reserved : Int, used : Int] /\ Given(u)
  BY <1>2 DEF MigInv, PeerTypes, MemberRows, TgtFits, UnitsFit
<1> HIDE DEF u
<1>4. ASSUME NEW row \in TgtRows, tgt' = [tgt EXCEPT ![u] = row], TargetRowKeeps(u), tgt'[u] = row,
             tgt[u].unit \notin {"committed", "settled"}, row.unit \in {"committed", "settled"},
             native' = [reserved |-> native.reserved - 1,
                        used |-> IF row.unit = "committed" THEN native.used + 1 ELSE native.used],
             NEW phase, NEW n, Finish("target", r, "ok", phase, n),
             r.what = "settle" => row.unit = "settled"
      PROVE  MigInv'
  <2>1. BooksAgree' BY <1>1, <1>2, <1>3, <1>4, TargetCounts
  <2>2. native' \in [reserved : Int, used : Int] BY <1>3, <1>4
  <2>3. Told(r, phase, n)' BY <1>1, <1>2, <1>4 DEF Told, u
  <2> QED BY <1>0, <1>1, <1>2, <1>4, <2>1, <2>2, <2>3, TargetFinishes DEF Outcomes
<1>5. ASSUME NEW kind \in {"ok", "refused"}, NEW phase, NEW n, Finish("target", r, kind, phase, n),
             UNCHANGED <<tgt, native>>, r.what = "settle" /\ kind = "ok" => tgt[u].unit = "settled"
      PROVE  MigInv'
  <2>1. kind = "ok" => Told(r, phase, n) BY <1>1, <1>2, <1>5 DEF Told, u
  <2> QED BY <1>0, <1>1, <1>5, <2>1, Replies DEF Outcomes, Sides
<1>6. CASE AcknowledgeTarget
  <2>1. r.what = "commit" /\ unit[u].state \in Committed /\ u \notin Uncommitted
    BY <1>0, <1>2, <1>6 DEF AcknowledgeTarget, Acts, Serving, RequestFits, Uncommitted, u
  <2>2. CASE /\ tgt[u].unit = "published"
             /\ tgt' = [tgt EXCEPT ![u].unit = "committed"]
             /\ native' = [reserved |-> native.reserved - 1, used |-> native.used + 1]
             /\ Finish("target", r, "ok", "acknowledged", Cardinality(NativeCommitted("target")) + 1)
    <3>1. PICK n : n = Cardinality(NativeCommitted("target")) + 1 OBVIOUS
    <3> DEFINE row == [tgt[u] EXCEPT !.unit = "committed"]
    <3>2. tgt' = [tgt EXCEPT ![u] = row] BY <1>2, <1>3, <2>2
    <3>3. row \in TgtRows /\ row.unit = "committed" /\ row.entry = tgt[u].entry /\ row.file = tgt[u].file
      BY <1>3 DEF TgtRows, TgtStates
    <3> HIDE DEF row
    <3>4. TgtRowFits(row, u) BY <1>3, <2>1, <2>2, <3>3 DEF TgtRowFits, Gone
    <3>5. TargetRowKeeps(u) /\ tgt'[u] = row
      BY <1>1, <1>2, <1>3, <2>1, <2>2, <3>2, <3>3, <3>4, TargetRow DEF Given, Gone
    <3> QED BY <1>4, <2>1, <2>2, <3>1, <3>2, <3>3, <3>5
  <2>3. CASE Finish("target", r, "ok", "acknowledged", Cardinality(NativeCommitted("target")))
             /\ UNCHANGED <<tgt, native>>
    <3>1. PICK n : n = Cardinality(NativeCommitted("target")) OBVIOUS
    <3> QED BY <1>5, <2>1, <2>3, <3>1
  <2>4. CASE Finish("target", r, "refused", "native_proof_missing", 0) /\ UNCHANGED <<tgt, native>>
    BY <1>5, <2>1, <2>4
  <2> QED BY <1>0, <1>6, <2>2, <2>3, <2>4 DEF AcknowledgeTarget, u
<1>7. CASE SettleTarget
  <2>1. /\ r.what = "settle" /\ unit[u].state \notin Committed /\ src[u].unit = "settled"
        /\ tgt[u].unit \in Gone
    BY <1>0, <1>2, <1>7 DEF SettleTarget, Does, Acts, Serving, RequestFits, UnitCancels, u
  <2>2. CASE /\ tgt[u].unit = "cancelled"
             /\ tgt' = [tgt EXCEPT ![u].unit = "settled"]
             /\ native' = [native EXCEPT !.reserved = @ - 1]
             /\ Finish("target", r, "ok", "settled", 0)
    <3> DEFINE row == [tgt[u] EXCEPT !.unit = "settled"]
    <3>2. tgt' = [tgt EXCEPT ![u] = row] BY <1>2, <1>3, <2>2
    <3>3. row \in TgtRows /\ row.unit = "settled" /\ row.entry = tgt[u].entry /\ row.file = tgt[u].file
      BY <1>3 DEF TgtRows, TgtStates, Gone
    <3> HIDE DEF row
    <3>4. TgtRowFits(row, u) BY <1>3, <2>1, <2>2, <3>3 DEF TgtRowFits, Gone
    <3>5. TargetRowKeeps(u) /\ tgt'[u] = row
      BY <1>1, <1>2, <1>3, <2>1, <2>2, <3>2, <3>3, <3>4, TargetRow DEF Gone, TgtRowFits, Undone
    <3>6. native' = [reserved |-> native.reserved - 1, used |-> native.used] BY <1>3, <2>2
    <3> QED BY <1>4, <2>1, <2>2, <3>2, <3>3, <3>5, <3>6
  <2>3. CASE tgt[u].unit = "settled" /\ Finish("target", r, "ok", "settled", 0) /\ UNCHANGED <<tgt, native>>
    BY <1>5, <2>3
  <2>4. CASE Finish("target", r, "refused", "unit_not_cancelled", 0) /\ UNCHANGED <<tgt, native>>
    BY <1>5, <2>4
  <2> QED BY <1>0, <1>7, <2>2, <2>3, <2>4 DEF SettleTarget, Reply2, u
<1> QED BY <1>6, <1>7

-----------------------------------------------------------------------------
(* Binding a grant.                                                            *)

LEMMA BindIs ==
  ASSUME PeerTypes, NEW s \in Sides, NEW r \in Requests, Shaped(r),
         r.to = s \/ (r.what = "copy" /\ s = "source"), Bindable(s, r), Bind(s, r)
  PROVE  /\ peer' \in [Sides -> Peers] /\ src' \in [Units -> SrcRows] /\ tgt' \in [Units -> TgtRows]
         /\ \A t \in Sides \ {s} : peer'[t] = peer[t]
         /\ peer[s].state \in {"released", "aborted"} => UNCHANGED <<peer, src, tgt>>
         /\ peer[s].state \notin {"released", "aborted"} =>
              /\ peer'[s].epoch = r.epoch /\ peer[s].epoch <= r.epoch /\ peer'[s].what = Purpose(r.what)
              /\ peer'[s].state = IF r.what \in {"copy", "publish"} THEN "active"
                                  ELSE IF r.what \in Aborts THEN "aborting" ELSE peer[s].state
         /\ peer[s].state = "released" => Purpose(r.what) = "finalize"
         /\ peer[s].state \in {"aborting", "aborted"} => r.what \in Aborts
         /\ r.what \in Aborts => peer[s].state = "aborted" \/ Private(s)
         /\ \A u \in Units :
              /\ src'[u].receipt = src[u].receipt /\ src'[u].file = src[u].file
              /\ src'[u].entry = src[u].entry /\ src'[u].scan = src[u].scan
              /\ tgt'[u].entry = tgt[u].entry /\ tgt'[u].file = tgt[u].file
              /\ \/ src'[u].unit = src[u].unit
                 \/ /\ src[u].unit \in Copyable \cup {"verified"} /\ src'[u].unit = "copying"
                    /\ s = "source" /\ r.what = "copy" /\ r.unit = u
              /\ \/ tgt'[u].unit = tgt[u].unit
                 \/ /\ tgt[u].unit \in Copyable /\ tgt'[u].unit = "copying"
                    /\ s = "target" /\ r.what = "copy" /\ r.unit = u
<1>1. /\ r.what \in Kinds /\ r.epoch \in Nat
      /\ r.what = "copy" => r.unit \in Units
  BY DEF Requests, Shaped
<1>2. peer[s] \in Peers /\ peer[s].state \in {"prepared", "active", "aborting", "aborted", "released"}
      /\ peer[s].epoch \in Nat
  BY DEF PeerTypes, Peers
<1>3. Purpose(r.what) \in Purposes /\ (Purpose(r.what) = "abort" <=> r.what \in Aborts)
      /\ (r.what = "copy" => Purpose(r.what) = "copy")
  BY <1>1, PurposeIs
<1>4. /\ peer[s].state = "released" => Purpose(r.what) = "finalize"
      /\ peer[s].state \in {"aborting", "aborted"} => r.what \in Aborts
      /\ r.what \in Aborts => peer[s].state = "aborted" \/ Private(s)
      /\ peer[s].state # "aborted" => peer[s].epoch <= r.epoch
  BY <1>1, <1>2, <1>3 DEF Bindable, Bound
<1> DEFINE bound == [epoch |-> r.epoch, what |-> Purpose(r.what),
                     state |-> IF r.what \in {"copy", "publish"} THEN "active"
                               ELSE IF r.what \in Aborts THEN "aborting" ELSE peer[s].state]
<1>5. peer' = [peer EXCEPT ![s] = IF peer[s].state \in {"released", "aborted"} THEN peer[s] ELSE bound]
  BY <1>3 DEF Bind
<1>6. bound \in Peers BY <1>1, <1>2, <1>3 DEF Peers
<1>a. /\ bound.epoch = r.epoch /\ bound.what = Purpose(r.what)
      /\ bound.state = IF r.what \in {"copy", "publish"} THEN "active"
                       ELSE IF r.what \in Aborts THEN "aborting" ELSE peer[s].state
  OBVIOUS
<1> HIDE DEF bound
<1>7. /\ peer' \in [Sides -> Peers] /\ \A t \in Sides \ {s} : peer'[t] = peer[t]
      /\ peer'[s] = IF peer[s].state \in {"released", "aborted"} THEN peer[s] ELSE bound
  BY <1>2, <1>5, <1>6 DEF PeerTypes
<1>b. peer[s].state \notin {"released", "aborted"} =>
        /\ peer'[s].epoch = r.epoch /\ peer[s].epoch <= r.epoch /\ peer'[s].what = Purpose(r.what)
        /\ peer'[s].state = IF r.what \in {"copy", "publish"} THEN "active"
                            ELSE IF r.what \in Aborts THEN "aborting" ELSE peer[s].state
  BY <1>4, <1>7, <1>a
<1>8. peer[s].state \in {"released", "aborted"} => UNCHANGED <<peer, src, tgt>>
  <2> SUFFICES ASSUME peer[s].state \in {"released", "aborted"} PROVE UNCHANGED <<peer, src, tgt>> OBVIOUS
  <2>1. r.what # "copy" BY <1>3, <1>4 DEF Aborts
  <2>2. src' = src /\ tgt' = tgt BY <2>1 DEF Bind
  <2>3. peer' = [peer EXCEPT ![s] = peer[s]] BY <1>5
  <2>4. peer' = peer BY <2>3 DEF PeerTypes
  <2> QED BY <2>2, <2>4
<1>9. CASE r.what = "copy" /\ s = "source"
  <2> DEFINE row == [src[r.unit] EXCEPT !.unit = "copying"]
  <2>1. src' = [src EXCEPT ![r.unit] = row] /\ tgt' = tgt BY <1>9 DEF Bind
  <2>2. src[r.unit] \in SrcRows /\ src[r.unit].unit \in Copyable \cup {"verified"}
    BY <1>1, <1>9 DEF PeerTypes, Bindable
  <2>3. /\ row \in SrcRows /\ row.unit = "copying" /\ row.receipt = src[r.unit].receipt
        /\ row.file = src[r.unit].file /\ row.entry = src[r.unit].entry /\ row.scan = src[r.unit].scan
    BY <2>2 DEF SrcRows, SrcStates, Copyable
  <2> HIDE DEF row
  <2>4. src' \in [Units -> SrcRows] /\ src'[r.unit] = row /\ \A u \in Units \ {r.unit} : src'[u] = src[u]
    BY <1>1, <1>9, <2>1, <2>3, RowWritten DEF PeerTypes
  <2>5. tgt' \in [Units -> TgtRows] BY <2>1 DEF PeerTypes
  <2> QED BY <1>4, <1>7, <1>8, <1>9, <1>b, <2>1, <2>2, <2>3, <2>4, <2>5
<1>10. CASE r.what = "copy" /\ s = "target"
  <2> DEFINE row == [tgt[r.unit] EXCEPT !.unit = "copying"]
  <2>1. tgt' = [tgt EXCEPT ![r.unit] = row] /\ src' = src BY <1>10 DEF Bind
  <2>2. tgt[r.unit] \in TgtRows /\ tgt[r.unit].unit \in Copyable
    BY <1>1, <1>10 DEF PeerTypes, Bindable
  <2>3. row \in TgtRows /\ row.unit = "copying" /\ row.file = tgt[r.unit].file /\ row.entry = tgt[r.unit].entry
    BY <2>2 DEF TgtRows, TgtStates, Copyable
  <2> HIDE DEF row
  <2>4. tgt' \in [Units -> TgtRows] /\ tgt'[r.unit] = row /\ \A u \in Units \ {r.unit} : tgt'[u] = tgt[u]
    BY <1>1, <1>10, <2>1, <2>3 DEF PeerTypes
  <2>5. src' \in [Units -> SrcRows] BY <2>1 DEF PeerTypes
  <2> QED BY <1>4, <1>7, <1>8, <1>10, <1>b, <2>1, <2>2, <2>3, <2>4, <2>5
<1>11. CASE r.what # "copy"
  <2>1. src' = src /\ tgt' = tgt BY <1>11 DEF Bind
  <2> QED BY <1>4, <1>7, <1>8, <1>11, <1>b, <2>1 DEF PeerTypes
<1> QED BY <1>9, <1>10, <1>11 DEF Sides

\* A member takes a request up: its epoch rises and nothing of a unit changes.
LEMMA BindKeeps ==
  ASSUME MigInv, PeerTypes', MasterTypes', NEW s \in Sides, NEW r \in Pending, Bindable(s, r), Bind(s, r),
         r.to = s \/ (r.what = "copy" /\ s = "source"),
         UNCHANGED <<native, MasterRows>>, Flow', Pending' \subseteq Pending, CleanupWork', TargetWork',
         (answer # None /\ answer.kind = "ok")' => answer' = answer /\ r # job
  PROVE  MigInv'
<1> USE DEF MigInv
<1>1. r \in Requests /\ RequestFits(r) /\ Shaped(r) /\ LastRunner(r) /\ r.epoch \in Nat /\ r.epoch <= runner.epoch
  BY PendingAreRequests DEF RequestsFit, RequestFits, Requests, Flow, EpochsFit
<1>0. runner.epoch \in Nat \ {0} BY DEF MasterTypes
<1> DEFINE Rows(u) ==
      /\ src'[u].receipt = src[u].receipt /\ src'[u].file = src[u].file
      /\ src'[u].entry = src[u].entry /\ src'[u].scan = src[u].scan
      /\ tgt'[u].entry = tgt[u].entry /\ tgt'[u].file = tgt[u].file
      /\ \/ src'[u].unit = src[u].unit
         \/ /\ src[u].unit \in Copyable \cup {"verified"} /\ src'[u].unit = "copying"
            /\ s = "source" /\ r.what = "copy" /\ r.unit = u
      /\ \/ tgt'[u].unit = tgt[u].unit
         \/ /\ tgt[u].unit \in Copyable /\ tgt'[u].unit = "copying"
            /\ s = "target" /\ r.what = "copy" /\ r.unit = u
<1>2. /\ \A t \in Sides \ {s} : peer'[t] = peer[t]
      /\ peer[s].state \in {"released", "aborted"} => UNCHANGED <<peer, src, tgt>>
      /\ peer[s].state \notin {"released", "aborted"} =>
           /\ peer'[s].epoch = r.epoch /\ peer[s].epoch <= r.epoch
           /\ peer'[s].state = IF r.what \in {"copy", "publish"} THEN "active"
                               ELSE IF r.what \in Aborts THEN "aborting" ELSE peer[s].state
      /\ peer[s].state \in {"aborting", "aborted"} => r.what \in Aborts
      /\ r.what \in Aborts => peer[s].state = "aborted" \/ Private(s)
      /\ \A u \in Units : Rows(u)
  BY <1>1, BindIs
<1>3. \A t \in Sides : peer[t] \in Peers /\ peer'[t] \in Peers /\ peer[t].epoch \in Nat
  BY DEF PeerTypes, Peers
<1>4. \A u \in Units : src'[u].unit # src[u].unit \/ tgt'[u].unit # tgt[u].unit => unit[u].state \notin Committed
  <2> SUFFICES ASSUME NEW u \in Units, r.what = "copy", r.unit = u, unit[u].state \in Committed,
                      src'[u].unit # src[u].unit \/ tgt'[u].unit # tgt[u].unit
               PROVE  FALSE
    BY <1>2
  <2>1. Late(r) BY DEF LateFits, Forwards
  <2>2. r.to = "target" BY <1>1 DEF Shaped
  <2>3. r.epoch < peer[s].epoch BY <2>1, <2>2 DEF Late, Sides
  <2>4. peer[s].state \notin {"released", "aborted"} BY <1>2
  <2> QED BY <1>1, <1>2, <1>3, <2>3, <2>4
<1>5. PeerMove
  <2> HIDE DEF Rows
  <2>1. \A t \in Sides :
          /\ peer[t].epoch <= peer'[t].epoch
          /\ peer[t].state \in {"released", "aborted"} => peer'[t].state = peer[t].state
          /\ peer[t].state = "aborting" => peer'[t].state \in {"aborting", "aborted"}
          /\ peer[t].state = "active" =>
               peer'[t].state \in {"active", "released"} \/ cancel.path = "prepublication"
    BY <1>1, <1>2, <1>3 DEF RequestFits, Aborts
  <2>2. \A u \in Units :
          /\ tgt[u].unit \in Gone => tgt'[u].unit \in Gone
          /\ tgt[u].unit = "settled" => tgt'[u].unit = "settled"
          /\ src[u].unit \in {"retained", "settled"} => src'[u].unit \in {"retained", "settled"}
          /\ src[u].unit \in {"settled", "cleaned"} => src'[u].unit = src[u].unit
          /\ tgt'[u].entry = tgt[u].entry
    BY <1>2 DEF Rows, Copyable, Gone
  <2> QED BY <2>1, <2>2 DEF PeerMove
<1>6. RequestsFit' /\ JobFits' /\ TaskFits'
  BY <1>5, MoveKeepsRequests, MoveKeepsJob, MoveKeepsTask
<1>7. LateFits' BY <1>5, MoveKeepsLate DEF Flow
<1>8. MemberRows'
  <2>1. \A u \in Units : SrcFits(u)' BY <1>2 DEF MemberRows, SrcFits, Copyable, Committed, MasterRows
  <2>2. ASSUME NEW u \in Units PROVE TgtFits(u)'
    <3>1. TgtRowFits(tgt[u], u) /\ Rows(u) BY <1>2 DEF MemberRows, TgtFits
    <3> QED BY <3>1 DEF TgtFits, TgtRowFits, MasterRows, Copyable, Gone
  <2>3. AbortFits'
    <3>1. Unswept' = Unswept BY <1>2 DEF Unswept
    <3>2. ASSUME peer'["target"].state \in {"aborting", "aborted"} PROVE \A u \in Units : tgt'[u].unit \in Copyable
      <4>1. \A u \in Units : tgt[u].unit \in Copyable
        BY <1>2, <3>2 DEF MemberRows, AbortFits, Private, Sides
      <4> QED BY <1>2, <4>1 DEF Copyable
    <3>3. \A t \in Sides : peer'[t].state = "aborted" <=> peer[t].state = "aborted" BY <1>2
    <3> QED BY <3>1, <3>2, <3>3 DEF MemberRows, AbortFits, Sides
  <2> QED BY <2>1, <2>2, <2>3 DEF MemberRows
<1>9. UnitsFit'
  <2> SUFFICES ASSUME NEW u \in Units PROVE Taken(u)' /\ Given(u)' /\ Proved(u)' BY DEF UnitsFit
  <2>0. Taken(u) /\ Given(u) /\ Proved(u) /\ Rows(u) BY <1>2 DEF UnitsFit
  <2>1. Taken(u)'
    BY <1>5, <2>0 DEF Taken, MasterRows, PeerMove, Copyable, Gone
  <2>2. Given(u)' BY <1>4, <2>0 DEF Given, MasterRows
  <2>3. ASSUME u \in Uncommitted, unit[u].target = runner.epoch PROVE TargetProof(u, runner.epoch)'
    <3>1. TargetProof(u, runner.epoch) BY <2>0, <2>3 DEF Proved
    <3>2. peer'["target"].state = "active" /\ peer'["target"].epoch = runner.epoch
      BY <1>0, <1>1, <1>2, <1>3, <3>1 DEF TargetProof, Private, Copyable, Sides
    <3> QED BY <2>0, <3>1, <3>2 DEF TargetProof, Copyable, MasterRows
  <2>4. ASSUME u \in Uncommitted, unit[u].source = runner.epoch
        PROVE  SourceProof(u, runner.epoch, unit[u].receipt)'
    <3>1. SourceProof(u, runner.epoch, unit[u].receipt) BY <2>0, <2>4 DEF Proved
    <3>2. unit[u].copied /\ unit[u].state # "pending"
      BY <2>0, <2>4 DEF Proved, MasterTypes
    <3>3. cancel.path # "prepublication"
      BY <2>4, <3>2 DEF TaskFits, Uncommitted, Withdrawn
    <3>4. r.what \notin Aborts BY <1>1, <3>3 DEF RequestFits
    <3>5. s = "source" => r.epoch = runner.epoch
      BY <1>0, <1>1, <1>2, <1>3, <3>1 DEF SourceProof
    <3>6. s = "source" /\ r.what = "copy" => r.unit # u BY <1>1, <2>4, <3>2, <3>5 DEF LastRunner
    <3>7. peer'["source"].state = "active" /\ peer'["source"].epoch = runner.epoch
      BY <1>0, <1>1, <1>2, <1>3, <3>1, <3>4 DEF SourceProof, Sides
    <3> QED BY <2>0, <3>1, <3>6, <3>7 DEF SourceProof, MasterRows
  <2>5. Uncommitted' = Uncommitted BY DEF Uncommitted, MasterRows
  <2>6. Proved(u)' BY <2>0, <2>3, <2>4, <2>5 DEF Proved, MasterRows
  <2> QED BY <2>1, <2>2, <2>6
<1>10. AnswerFits'
  <2> SUFFICES ASSUME answer # None, answer.kind = "ok", r # job, answer' = answer
               PROVE  Told(job, answer.phase, answer.receipt)'
    BY DEF AnswerFits, MasterRows
  <2>1. Told(job, answer.phase, answer.receipt) BY DEF AnswerFits
  <2>2. job \in Requests /\ Shaped(job) /\ job.to \in Sides /\ job.epoch = runner.epoch
        /\ lease.epoch = runner.epoch
    BY DEF MasterTypes, Cutovers, Flow, AnswersLast, EpochsFit, JobFits, RequestFits, Sides
  <2>3. r.epoch # runner.epoch BY <2>2 DEF Flow, EpochsFit
  <2>4. peer[s].state = "active" => peer[s].epoch # runner.epoch
    BY <1>0, <1>1, <1>2, <1>3, <2>3
  <2>5. ASSUME NEW u \in Units, TargetProof(u, job.epoch) PROVE TargetProof(u, job.epoch)'
    BY <1>2, <2>2, <2>4, <2>5 DEF TargetProof, Sides, Copyable, MasterRows
  <2>6. ASSUME NEW u \in Units, SourceProof(u, job.epoch, answer.receipt)
        PROVE  SourceProof(u, job.epoch, answer.receipt)'
    BY <1>2, <2>2, <2>4, <2>6 DEF SourceProof, Sides, MasterRows
  <2>7. job' = job BY DEF MasterRows
  <2> QED BY <1>5, <2>1, <2>2, <2>5, <2>6, <2>7 DEF Told, Shaped, PeerMove, Sides
<1>11. MembersFit'
  <2>1. \A t \in Sides : peer'[t].state = peer[t].state
                         \/ {peer[t].state, peer'[t].state} \cap {"released", "aborted"} = {}
    BY <1>2, <1>3 DEF Peers, Aborts
  <2>2. peer["source"].state = "released" => \A u \in Units : src'[u].unit = src[u].unit
    BY <1>2, <1>5 DEF MembersFit, PeerMove
  <2> QED BY <2>1, <2>2 DEF MembersFit, Uncleaned, Uncommitted, MasterRows, Sides
<1>12. BooksAgree'
  <2>1. peer'["target"].state # "aborted" => peer["target"].state # "aborted" BY <1>2 DEF Sides
  <2>2. \A u \in Units : tgt'[u].unit \in {"committed", "settled"} \/ tgt[u].unit \in {"committed", "settled"}
           => tgt'[u].unit = tgt[u].unit
    BY <1>2 DEF Copyable
  <2> QED BY <2>1, <2>2, BooksStay
<1> QED BY <1>6, <1>7, <1>8, <1>9, <1>10, <1>11, <1>12

\* A request that arrives: it is answered at once, or its member takes it up.
LEMMA ReceiveFlows ==
  ASSUME PeerTypes, MasterTypes, Flow, RequestsFit, NEW r \in net, net' = net \ {r}, UNCHANGED MasterRows,
         \/ work' = work /\ \E kind \in Outcomes \ {"ok"}, phase \in {"busy", "waiting_writer", "bind"} : Reply(r, kind, phase, 0)
         \/ /\ work[r.to] = None /\ UNCHANGED answer
            /\ work' = [work EXCEPT ![r.to] = [kind |-> "work", req |-> r, step |-> "begin"]],
         \A t \in Sides : peer'[t].epoch <= runner.epoch,
         BoundFits'
  PROVE  /\ Flow' /\ Pending' \subseteq Pending
         /\ work' \in [Sides -> Works \cup {None}] /\ (answer # None => answer.kind \in Outcomes)'
         /\ (answer # None /\ answer.kind = "ok")' => answer' = answer /\ r # job
<1>1. /\ r \in Requests /\ r \in Pending /\ r.to \in Sides /\ Shaped(r) /\ r # None
      /\ \A t \in Sides : work[t] # None => work[t].req # r
  <2>1. r \in Requests /\ r \in Pending BY DEF PeerTypes, Pending
  <2>2. r.to \in Sides /\ r # None BY <2>1 DEF Requests, None
  <2>3. Shaped(r) BY <2>1 DEF RequestsFit, RequestFits
  <2> QED BY <2>1, <2>2, <2>3 DEF Flow, AnswersLast
<1> DEFINE begun == [kind |-> "work", req |-> r, step |-> "begin"]
<1>2. begun \in Works /\ begun # None /\ begun.req = r /\ begun.step = "begin"
  BY <1>1 DEF Works, Steps, None
<1> HIDE DEF begun
<1>3. CASE work' = work /\ \E kind \in Outcomes \ {"ok"}, phase \in {"busy", "waiting_writer", "bind"} : Reply(r, kind, phase, 0)
  <2>0. PICK kind \in Outcomes \ {"ok"}, phase \in {"busy", "waiting_writer", "bind"} : Reply(r, kind, phase, 0) BY <1>3
  <2>1. Pending' \subseteq Pending BY <1>3 DEF Pending
  <2>2. EpochsFit' BY <2>1 DEF Flow, EpochsFit, MasterRows
  <2>3. answer' = IF job = r THEN [kind |-> kind, phase |-> phase, receipt |-> 0] ELSE answer
    BY <2>0 DEF Reply
  <2>4. AnswersLast' BY <1>1, <1>3, <2>3 DEF Flow, AnswersLast, MasterRows
  <2>5. WorkFits' BY <1>3 DEF Flow, WorkFits
  <2>6. job = r => answer'.kind = kind BY <2>3
  <2> QED BY <1>3, <2>1, <2>2, <2>3, <2>4, <2>5, <2>6 DEF Flow, PeerTypes, MasterTypes, AnswersLast
<1>4. CASE work[r.to] = None /\ UNCHANGED answer /\ work' = [work EXCEPT ![r.to] = begun]
  <2>0. /\ work' \in [Sides -> Works \cup {None}] /\ work'[r.to] = begun
        /\ \A t \in Sides \ {r.to} : work'[t] = work[t]
    BY <1>1, <1>2, <1>4 DEF PeerTypes
  <2>1. Pending' \subseteq Pending BY <1>1, <1>2, <2>0 DEF Pending
  <2>2. EpochsFit' BY <2>1 DEF Flow, EpochsFit, MasterRows
  <2>3. answer # None => job # r BY DEF Flow, AnswersLast
  <2>4. AnswersLast' BY <1>1, <1>2, <1>4, <2>0, <2>3 DEF Flow, AnswersLast, MasterRows, Sides
  <2>5. WorkFits' BY <1>1, <1>2, <2>0 DEF Flow, WorkFits, Shaped
  <2> QED BY <1>4, <2>0, <2>1, <2>2, <2>3, <2>4, <2>5 DEF Flow, MasterTypes
<1> QED BY <1>3, <1>4 DEF begun

\* Nothing of the members changed but what is under way.
LEMMA RowsStay ==
  ASSUME MigInv, UNCHANGED <<peer, src, tgt, native, MasterRows>>,
         Flow', Pending' \subseteq Pending, PeerTypes', MasterTypes', CleanupWork', TargetWork', AnswerFits'
  PROVE  MigInv'
<1> USE DEF MigInv
<1>4. PeerMove BY DEF PeerMove, PeerTypes, Peers
<1>5. RequestsFit' /\ JobFits' /\ TaskFits'
  BY <1>4, MoveKeepsRequests, MoveKeepsJob, MoveKeepsTask
<1>6. LateFits' BY <1>4, MoveKeepsLate DEF Flow
<1>7. MemberRows'
  <2>1. \A u \in Units : SrcFits(u)' /\ TgtFits(u)' BY DEF MemberRows, SrcFits, TgtFits, TgtRowFits, MasterRows
  <2>2. AbortFits' BY DEF MemberRows, AbortFits, Unswept
  <2> QED BY <2>1, <2>2 DEF MemberRows
<1>8. UnitsFit'
  BY DEF UnitsFit, Taken, Given, Proved, TargetProof, SourceProof, Uncommitted, MasterRows
<1>10. MembersFit' BY DEF MembersFit, Uncleaned, Uncommitted, MasterRows
<1>11. BooksAgree' BY BooksStay
<1> QED BY <1>5, <1>6, <1>7, <1>8, <1>10, <1>11

\* Binding keeps what the rows of a member and its grant agree on.
LEMMA BindBounds ==
  ASSUME MigInv, NEW s \in Sides, NEW r \in Pending, Bindable(s, r), Bind(s, r),
         r.to = s \/ (r.what = "copy" /\ s = "source"), UNCHANGED MasterRows,
         \A t \in Sides : \/ work'[t] = work[t] \/ work'[t] = None
                          \/ work'[t] # None /\ work'[t].req = r /\ t = s
                          \/ work[t] # None /\ work'[t] # None /\ work'[t].req = work[t].req
  PROVE  BoundFits' /\ \A t \in Sides : peer'[t].epoch <= runner.epoch
<1>1. r \in Requests /\ RequestFits(r) /\ Shaped(r) /\ r.epoch <= runner.epoch /\ r.what \in Kinds
  BY PendingAreRequests DEF MigInv, RequestsFit, RequestFits, Requests, Flow, EpochsFit
<1>2. /\ \A t \in Sides \ {s} : peer'[t] = peer[t]
      /\ peer[s].state \in {"released", "aborted"} => peer' = peer
      /\ peer[s].state \notin {"released", "aborted"} =>
           /\ peer'[s].epoch = r.epoch /\ peer'[s].what = Purpose(r.what)
           /\ peer'[s].state = IF r.what \in {"copy", "publish"} THEN "active"
                               ELSE IF r.what \in Aborts THEN "aborting" ELSE peer[s].state
      /\ peer[s].state = "released" => Purpose(r.what) = "finalize"
      /\ peer[s].state \in {"aborting", "aborted"} => r.what \in Aborts
  BY <1>1, BindIs DEF MigInv
<1>3. peer[s].state \in {"prepared", "active", "aborting", "aborted", "released"}
  BY DEF MigInv, PeerTypes, Peers
<1>4. \A t \in Sides : peer'[t].epoch <= runner.epoch
  BY <1>1, <1>2 DEF MigInv, Flow, EpochsFit
<1>5. ASSUME NEW t \in Sides
      PROVE  /\ peer'[t].state = "released" /\ work'[t] # None => Purpose(work'[t].req.what) = "finalize"
             /\ peer'[t].state = "aborted" /\ work'[t] # None => work'[t].req.what \in Aborts
  BY <1>2, <1>5 DEF MigInv, Flow, BoundFits
<1>6. ASSUME NEW t \in Sides
      PROVE  /\ peer'[t].state = "aborting" => peer'[t].what = "abort"
             /\ peer'[t].state = "prepared" => peer'[t].what \notin {"copy", "publish"}
             /\ peer'[t].state \in {"aborting", "aborted"} => cancel.path = "prepublication"
  BY <1>1, <1>2, <1>3, <1>6, PurposeIs DEF MigInv, Flow, BoundFits, RequestFits
<1> QED BY <1>4, <1>5, <1>6 DEF BoundFits, MasterRows

\* A request arrives.
LEMMA Receives ==
  ASSUME MigInv, UNCHANGED MasterRows, NEW r \in net, Receive(r)
  PROVE  MigInv'
<1> USE DEF MigInv
<1>1. r \in Pending /\ r \in Requests /\ r.to \in Sides
  BY PendingAreRequests DEF Pending, Requests
<1>2. net' = net \ {r} BY DEF Receive
<1>3. ASSUME UNCHANGED peerVars, NEW kind \in Outcomes \ {"ok"}, NEW phase \in {"busy", "waiting_writer", "bind"}, Reply(r, kind, phase, 0)
      PROVE  MigInv'
  <2>1. BoundFits' /\ \A t \in Sides : peer'[t].epoch <= runner.epoch
    BY <1>3 DEF peerVars, Flow, BoundFits, EpochsFit, MasterRows
  <2>2. /\ Flow' /\ Pending' \subseteq Pending
        /\ work' \in [Sides -> Works \cup {None}] /\ (answer # None => answer.kind \in Outcomes)'
        /\ (answer # None /\ answer.kind = "ok")' => answer' = answer /\ r # job
    BY <1>2, <1>3, <2>1, ReceiveFlows DEF peerVars
  <2>3. PeerTypes' /\ MasterTypes'
    BY <1>2, <1>3, <2>2 DEF PeerTypes, MasterTypes, MasterRows, peerVars
  <2>4. CleanupWork' BY <1>3 DEF peerVars, MemberRows, CleanupWork
  <2>5. Staged' = Staged BY <1>3 DEF peerVars, Staged
  <2>6. TargetWork' BY <1>3, <2>5 DEF peerVars, MemberRows, TargetWork
  <2>7. AnswerFits' BY <1>3, <2>2 DEF peerVars, AnswerFits, Told, TargetProof, SourceProof, MasterRows
  <2> QED BY <1>3, <2>2, <2>3, <2>4, <2>6, <2>7, RowsStay DEF peerVars
<1>4. ASSUME Bindable(r.to, r), Bind(r.to, r), UNCHANGED native,
             \/ work' = work /\ Reply(r, "wait", "waiting_writer", 0)
             \/ /\ work[r.to] = None /\ UNCHANGED answer
                /\ work' = [work EXCEPT ![r.to] = [kind |-> "work", req |-> r, step |-> "begin"]]
      PROVE  MigInv'
  <2> DEFINE begun == [kind |-> "work", req |-> r, step |-> "begin"]
  <2>1. begun # None /\ begun.req = r /\ begun.step = "begin" BY DEF None
  <2> HIDE DEF begun
  <2>2. \A t \in Sides : work'[t] = work[t] \/ (t = r.to /\ work'[t] = begun /\ work[t] = None)
    BY <1>4 DEF PeerTypes, begun
  <2>3. BoundFits' /\ \A t \in Sides : peer'[t].epoch <= runner.epoch
    BY <1>1, <1>4, <2>1, <2>2, BindBounds
  <2>4. "wait" \in Outcomes \ {"ok"} BY DEF Outcomes
  <2>5. /\ Flow' /\ Pending' \subseteq Pending
        /\ work' \in [Sides -> Works \cup {None}] /\ (answer # None => answer.kind \in Outcomes)'
        /\ (answer # None /\ answer.kind = "ok")' => answer' = answer /\ r # job
    BY <1>2, <1>4, <2>3, <2>4, ReceiveFlows
  <2>6. Shaped(r) BY <1>1 DEF RequestsFit, RequestFits
  <2>7. /\ peer' \in [Sides -> Peers] /\ src' \in [Units -> SrcRows] /\ tgt' \in [Units -> TgtRows]
        /\ \A u \in Units :
              /\ src'[u].receipt = src[u].receipt /\ src'[u].file = src[u].file
              /\ src'[u].entry = src[u].entry /\ src'[u].scan = src[u].scan
              /\ tgt'[u].entry = tgt[u].entry /\ tgt'[u].file = tgt[u].file
              /\ src'[u].unit = src[u].unit \/ src[u].unit \in Copyable \cup {"verified"}
              /\ tgt'[u].unit = tgt[u].unit \/ (tgt[u].unit \in Copyable /\ tgt'[u].unit = "copying")
    BY <1>1, <1>4, <2>6, BindIs
  <2>8. PeerTypes' /\ MasterTypes'
    BY <1>2, <1>4, <2>5, <2>7 DEF PeerTypes, MasterTypes, MasterRows
  <2>9. CleanupWork'
    <3>1. CASE work'["source"] = work["source"]
      <4>1. work["source"] # None /\ work["source"].req.what = "cleanup" => work["source"].req.unit \in Units
        BY WorkIsRequest DEF RequestsFit, RequestFits, Shaped, Sides
      <4> QED BY <2>7, <3>1, <4>1 DEF MemberRows, CleanupWork, Copyable
    <3>2. CASE work'["source"] = begun
      BY <2>1, <3>2 DEF CleanupWork
    <3> QED BY <2>2, <3>1, <3>2 DEF Sides
  <2>10. Staged' = Staged BY <2>7 DEF Staged
  <2>11. TargetWork'
    <3>1. CASE work'["target"] = work["target"]
      <4>1. work["target"] # None =>
              /\ work["target"].step \in {"fetch", "receive", "moved"} \/ work["target"].req.what = "undo"
                   => work["target"].req.unit \in Units
              /\ work["target"].req.what = "abort_clean" /\ Staged # {} => First(Staged) \in Units
        BY WorkIsRequest, FirstIsIn DEF RequestsFit, RequestFits, Shaped, Sides, Flow, WorkFits, Staged
      <4> QED BY <2>7, <2>10, <3>1, <4>1 DEF MemberRows, TargetWork, Copyable, Gone, First
    <3>2. CASE work'["target"] = begun
      BY <2>1, <3>2 DEF TargetWork
    <3> QED BY <2>2, <3>1, <3>2 DEF Sides
  <2> QED BY <1>1, <1>4, <2>5, <2>8, <2>9, <2>11, BindKeeps
<1>5. {"wait", "writer_active", "refused"} \subseteq Outcomes \ {"ok"} BY DEF Outcomes
<1>6. CASE /\ ~Idle(r.to) /\ ~BindsFirst(r)
           /\ Reply(r, IF r.what = "commit" THEN "writer_active" ELSE "wait", "busy", 0)
           /\ UNCHANGED peerVars
  BY <1>3, <1>5, <1>6
<1>7. CASE /\ ~Idle(r.to) /\ BindsFirst(r) /\ Bindable(r.to, r)
           /\ Bind(r.to, r)
           /\ Reply(r, "wait", "waiting_writer", 0)
           /\ UNCHANGED <<native, work>>
  BY <1>4, <1>7
<1>8. CASE /\ Idle(r.to) \/ BindsFirst(r)
           /\ ~Bindable(r.to, r)
           /\ Reply(r, "refused", "bind", 0)
           /\ UNCHANGED peerVars
  BY <1>3, <1>5, <1>8
<1>9. CASE /\ Idle(r.to) /\ Bindable(r.to, r)
           /\ Bind(r.to, r)
           /\ work' = [work EXCEPT ![r.to] = [kind |-> "work", req |-> r, step |-> "begin"]]
           /\ UNCHANGED <<native, answer>>
  BY <1>4, <1>9 DEF Idle
<1> QED BY <1>6, <1>7, <1>8, <1>9 DEF Receive

\* The Target asks the Source for the object, and the Source binds the grant.
LEMMA FetchOpens ==
  ASSUME MigInv, UNCHANGED MasterRows, FetchBegins
  PROVE  MigInv'
<1> USE DEF MigInv
<1>0. PICK r : r = work["target"].req OBVIOUS
<1>1. /\ work["target"] # None /\ r.what = "copy" /\ Alive("target", r) /\ work["target"].step = "fetch"
      /\ UNCHANGED <<native, net>>
  BY <1>0 DEF FetchBegins, Acts, Serving, Idle
<1>2. /\ r \in Requests /\ r \in Pending /\ r.unit \in Units /\ Shaped(r)
      /\ work["target"] \in Works
  BY <1>0, <1>1, WorkIsRequest, ServedAtTarget DEF RequestFits, Sides
<1>3. CASE Finish("target", r, "refused", "bind", 0) /\ UNCHANGED <<peer, src, tgt>>
  BY <1>0, <1>1, <1>3, Replies DEF Sides, Outcomes
<1>4. ASSUME Bindable("source", r), Bind("source", r), BoundFits', Flow', Pending' \subseteq Pending,
             work' \in [Sides -> Works \cup {None}], (answer # None => answer.kind \in Outcomes)',
             (answer # None /\ answer.kind = "ok")' => answer' = answer /\ r # job,
             work'["source"] = work["source"] \/ (work'["source"] # None /\ work'["source"].req = r),
             work'["target"] # None => work'["target"].req = r /\ work'["target"].step = "receive"
      PROVE  MigInv'
  <2>1. /\ peer' \in [Sides -> Peers] /\ src' \in [Units -> SrcRows] /\ tgt' \in [Units -> TgtRows]
        /\ \A u \in Units :
              /\ src'[u].file = src[u].file
              /\ src'[u].unit = src[u].unit \/ src[u].unit \in Copyable \cup {"verified"}
              /\ tgt'[u].entry = tgt[u].entry
    BY <1>1, <1>2, <1>4, BindIs DEF Sides
  <2>2. PeerTypes' /\ MasterTypes'
    BY <1>1, <1>4, <2>1 DEF PeerTypes, MasterTypes, MasterRows
  <2>3. CleanupWork'
    <3>1. CASE work'["source"] = work["source"]
      <4>1. work["source"] # None /\ work["source"].req.what = "cleanup" => work["source"].req.unit \in Units
        BY WorkIsRequest DEF RequestsFit, RequestFits, Shaped, Sides
      <4> QED BY <2>1, <3>1, <4>1 DEF MemberRows, CleanupWork, Copyable
    <3>2. CASE work'["source"] # None /\ work'["source"].req = r
      BY <1>1, <3>2 DEF CleanupWork
    <3> QED BY <1>4, <3>1, <3>2
  <2>4. TargetWork' BY <1>0, <1>1, <1>2, <1>4, <2>1 DEF MemberRows, TargetWork
  <2> QED BY <1>1, <1>2, <1>4, <2>2, <2>3, <2>4, BindKeeps DEF Sides
<1>5. CASE /\ Bindable("source", r) /\ Bind("source", r)
           /\ Finish("target", r, "wait", "busy", 0)
  <2>1. work'["target"] = None /\ work'["source"] = work["source"]
    BY <1>5 DEF Finish, PeerTypes, Sides
  <2>2. BoundFits' /\ \A t \in Sides : peer'[t].epoch <= runner.epoch
    BY <1>2, <1>1, <1>5, <2>1, BindBounds DEF Sides
  <2>3. /\ Flow' /\ Pending' \subseteq Pending
        /\ work' \in [Sides -> Works \cup {None}] /\ (answer # None => answer.kind \in Outcomes)'
    BY <1>0, <1>1, <1>5, <2>2, FinishFlows DEF Sides, Outcomes
  <2>4. answer' = IF job = r THEN [kind |-> "wait", phase |-> "busy", receipt |-> 0] ELSE answer
    BY <1>5 DEF Finish, Reply
  <2>5. (answer # None /\ answer.kind = "ok")' => answer' = answer /\ r # job BY <2>4
  <2> QED BY <1>4, <1>5, <2>1, <2>2, <2>3, <2>5
<1>6. CASE /\ Bindable("source", r) /\ Idle("source") /\ Bind("source", r)
           /\ work' = [work EXCEPT !["target"].step = "receive",
                                   !["source"] = [kind |-> "work", req |-> r, step |-> "stream"]]
           /\ UNCHANGED answer
  <2> DEFINE sends == [kind |-> "work", req |-> r, step |-> "stream"]
             takes == [work["target"] EXCEPT !.step = "receive"]
  <2>1. /\ sends \in Works /\ sends # None /\ sends.req = r /\ sends.step = "stream"
        /\ takes \in Works /\ takes # None /\ takes.req = r /\ takes.step = "receive"
    BY <1>0, <1>2 DEF Works, Steps, None
  <2>2. work'["source"] = sends /\ work'["target"] = takes
    BY <1>6 DEF PeerTypes, Sides
  <2>3. work' \in [Sides -> Works \cup {None}] BY <1>6, <2>1, <2>2 DEF PeerTypes, Sides
  <2> HIDE DEF sends, takes
  <2>4. Pending' \subseteq Pending BY <1>1, <1>2, <2>1, <2>2 DEF Pending, Sides
  <2>5. BoundFits' /\ \A t \in Sides : peer'[t].epoch <= runner.epoch
    BY <1>0, <1>1, <1>2, <1>6, <2>1, <2>2, BindBounds DEF Sides
  <2>6. EpochsFit' BY <2>4, <2>5 DEF Flow, EpochsFit, MasterRows
  <2>7. r \notin net /\ (answer # None => r # job)
    BY <1>0, <1>1, NotYetAnswered DEF Flow, AnswersLast, Sides
  <2>8. answer # None => \A s \in Sides : work'[s] # None => work'[s].req # job
    BY <2>1, <2>2, <2>7 DEF Sides
  <2>9. AnswersLast' BY <1>1, <1>6, <2>1, <2>2, <2>7, <2>8 DEF Flow, AnswersLast, MasterRows, Sides
  <2>10. WorkFits' BY <1>1, <1>2, <2>1, <2>2 DEF WorkFits, Sides, Shaped
  <2>11. Flow' BY <2>5, <2>6, <2>9, <2>10 DEF Flow
  <2> QED BY <1>4, <1>6, <2>1, <2>2, <2>3, <2>4, <2>5, <2>7, <2>11 DEF MasterTypes
<1> QED BY <1>0, <1>3, <1>5, <1>6 DEF FetchBegins

\* The last byte arrives: both handlers end.
LEMMA FetchCloses ==
  ASSUME MigInv, UNCHANGED MasterRows, FetchEnds
  PROVE  MigInv'
<1> USE DEF MigInv
<1>0. PICK r : r = work["target"].req OBVIOUS
<1> DEFINE u == r.unit
<1>1. /\ work["target"] # None /\ r.what = "copy" /\ Alive("target", r) /\ work["target"].step = "receive"
      /\ UNCHANGED <<peer, src, native, net>> /\ work' = [s \in Sides |-> None]
      /\ tgt' = [tgt EXCEPT ![u].entry = "verified"] /\ Reply(r, "ok", "verified", 0)
  BY <1>0 DEF FetchEnds, Acts, Serving, Idle
<1>2. /\ u \in Units /\ r \in Requests /\ unit[u].state \notin Committed
      /\ unit[u].target # runner.epoch \/ u \notin Uncommitted
      /\ peer["target"].state \in {"prepared", "active"} /\ tgt[u].entry = "receiving"
  BY <1>0, <1>1, ServedAtTarget DEF Closings, Aborts, MemberRows, TargetWork
<1>3. tgt[u] \in TgtRows /\ TgtRowFits(tgt[u], u) BY <1>2 DEF PeerTypes, MemberRows, TgtFits
<1> HIDE DEF u
<1> DEFINE row == [tgt[u] EXCEPT !.entry = "verified"]
<1>4. tgt' = [tgt EXCEPT ![u] = row] BY <1>1, <1>2 DEF PeerTypes
<1>5. row \in TgtRows /\ row.unit = tgt[u].unit /\ row.entry = "verified" /\ row.file = tgt[u].file
  BY <1>3 DEF TgtRows
<1> HIDE DEF row
<1>6. /\ tgt[u].unit \notin {"moving", "registering", "scanning", "published", "committed"} \cup Gone
      /\ TgtRowFits(row, u) /\ row.entry \notin Undone
  BY <1>2, <1>3, <1>5 DEF TgtRowFits, Undone
<1>7. TargetRowKeeps(u) /\ tgt'[u] = row BY <1>1, <1>2, <1>4, <1>5, <1>6, TargetRow DEF Gone
<1>8. BooksAgree' BY <1>1, <1>2, <1>5, <1>6, <1>7, PlainRow DEF Gone
<1>9. \A s \in Sides : work'[s] = None BY <1>1
<1>10. Pending' \subseteq Pending BY <1>1, <1>9 DEF Pending
<1>11. answer' = IF job = r THEN [kind |-> "ok", phase |-> "verified", receipt |-> 0] ELSE answer
  BY <1>1 DEF Reply
<1>12. Flow'
  <2>1. EpochsFit' BY <1>1, <1>10 DEF Flow, EpochsFit, MasterRows
  <2>2. BoundFits' BY <1>1, <1>9 DEF Flow, BoundFits, MasterRows
  <2>3. WorkFits' BY <1>9 DEF WorkFits
  <2>4. r # None /\ r.to \in Sides /\ r \notin net
    BY <1>0, <1>1, <1>2 DEF Requests, None, Flow, AnswersLast, Sides
  <2>5. AnswersLast' BY <1>1, <1>9, <1>11, <2>4 DEF Flow, AnswersLast, MasterRows, Sides
  <2> QED BY <2>1, <2>2, <2>3, <2>5 DEF Flow
<1>13. PeerTypes'
  <2>1. work' \in [Sides -> Works \cup {None}] BY <1>1
  <2> QED BY <1>1, <1>7, <2>1 DEF PeerTypes, TargetRowKeeps
<1>14. MasterTypes' BY <1>11 DEF MasterTypes, MasterRows, Outcomes
<1>15. TargetWork' /\ CleanupWork' BY <1>9 DEF TargetWork, CleanupWork, Sides
<1>16. /\ PeerMove /\ RequestsFit' /\ JobFits' /\ LateFits' /\ MemberRows' /\ UnitsFit'
       /\ TaskFits' /\ MembersFit'
  BY <1>1, <1>2, <1>7, <1>10, <1>12, <1>13, <1>14, <1>15, TargetWrites
<1>17. AnswerFits'
  <2>1. CASE job = r BY <1>1, <1>11, <2>1 DEF AnswerFits, Told, MasterRows
  <2>2. CASE job # r BY <1>0, <1>1, <1>11, <1>16, <2>2, AnswerStays DEF Sides
  <2> QED BY <2>1, <2>2
<1> QED BY <1>8, <1>12, <1>13, <1>14, <1>16, <1>17

-----------------------------------------------------------------------------
(* The release of a member.                                                    *)

LEMMA Released ==
  ASSUME MigInv, UNCHANGED <<MasterRows, src, tgt, native, net>>, NEW s \in Sides,
         NEW r, work[s] # None, r = work[s].req, Alive(s, r),
         r.what \in {"finalize"} \cup Closings, work[s].step = "begin",
         peer' = [peer EXCEPT ![s].state = "released"], NEW phase, Finish(s, r, "ok", phase, 0),
         s = "source" => \A u \in Units : src[u].unit \in {"cleaned", "settled"},
         s = "target" => native.reserved = 0
  PROVE  MigInv'
<1> USE DEF MigInv
<1>1. /\ r \in Requests /\ r \in Pending /\ RequestFits(r) /\ r.to = s
  BY WorkIsRequest DEF RequestsFit, Flow, WorkFits, Closings
<1>2. peer[s] \in Peers /\ peer[s].state \in {"prepared", "active", "released"}
  <2>1. peer[s] \in Peers /\ peer[s].state \in {"prepared", "active", "aborting", "aborted", "released"}
    BY DEF PeerTypes, Peers
  <2>2. Purpose(r.what) = "finalize" BY <1>1, PurposeIs DEF Requests
  <2>3. r.what \notin Aborts BY DEF Aborts, Closings
  <2> QED BY <2>1, <2>2, <2>3 DEF Alive, Flow, BoundFits
<1>3. /\ peer' \in [Sides -> Peers] /\ peer'[s].state = "released" /\ peer'[s].epoch = peer[s].epoch
      /\ peer'[s].what = peer[s].what /\ \A t \in Sides \ {s} : peer'[t] = peer[t]
  <2> DEFINE row == [peer[s] EXCEPT !.state = "released"]
  <2>1. peer' = [peer EXCEPT ![s] = row] BY <1>2 DEF PeerTypes
  <2>2. row \in Peers /\ row.state = "released" /\ row.epoch = peer[s].epoch /\ row.what = peer[s].what
    BY <1>2 DEF Peers
  <2> HIDE DEF row
  <2> QED BY <2>1, <2>2 DEF PeerTypes
<1>4. \A t \in Sides : work'[t] = IF t = s THEN None ELSE work[t] BY DEF Finish, PeerTypes
<1>5. BoundFits' BY <1>3, <1>4 DEF Flow, BoundFits, MasterRows
<1>6. \A t \in Sides : peer'[t].epoch <= runner.epoch BY <1>3 DEF Flow, EpochsFit
<1>7. /\ Flow' /\ Pending' \subseteq Pending
      /\ work' \in [Sides -> Works \cup {None}] /\ (answer # None => answer.kind \in Outcomes)'
  BY <1>5, <1>6, FinishFlows DEF Outcomes
<1>8. PeerTypes' /\ MasterTypes' BY <1>3, <1>7 DEF PeerTypes, MasterTypes, MasterRows
<1>9. PeerMove
  <2>1. \A t \in Sides : peer[t].epoch <= peer'[t].epoch BY <1>3 DEF PeerTypes, Peers
  <2> QED BY <1>2, <1>3, <1>7, <2>1 DEF PeerMove
<1>10. RequestsFit' /\ JobFits' /\ TaskFits'
  BY <1>9, MoveKeepsRequests, MoveKeepsJob, MoveKeepsTask
<1>11. LateFits' BY <1>8, <1>9, MoveKeepsLate DEF Flow
<1>12. Uncleaned = {} /\ Uncommitted = {}
  BY <1>1 DEF RequestFits, Uncleaned, Uncommitted, Committed
<1>13. MemberRows'
  <2>1. \A u \in Units : SrcFits(u)' /\ TgtFits(u)' BY DEF MemberRows, SrcFits, TgtFits, TgtRowFits, MasterRows
  <2>2. AbortFits' BY <1>2, <1>3 DEF MemberRows, AbortFits, Unswept, Sides
  <2>3. CleanupWork' BY <1>4 DEF MemberRows, CleanupWork, Sides
  <2>4. Staged' = Staged BY DEF Staged
  <2>5. TargetWork' BY <1>4, <2>4 DEF MemberRows, TargetWork, Sides
  <2> QED BY <2>1, <2>2, <2>3, <2>5 DEF MemberRows
<1>14. UnitsFit'
  BY <1>2, <1>3, <1>12 DEF UnitsFit, Taken, Given, Proved, TargetProof, SourceProof, Uncommitted, MasterRows
<1>15. MembersFit'
  BY <1>1, <1>2, <1>3, <1>12 DEF MembersFit, Uncleaned, Uncommitted, MasterRows, Sides, RequestFits, Closings, Shaped
<1>16. Told(r, phase, 0)' BY <1>1, <1>3 DEF Told, Closings
<1>17. AnswerFits' BY <1>3, <1>9, <1>16, FinishAnswers DEF Sides
<1>18. BooksAgree' BY <1>2, <1>3, BooksStay DEF Sides
<1> QED BY <1>7, <1>8, <1>10, <1>11, <1>13, <1>14, <1>15, <1>17, <1>18

\* The members finalize, and give up their fences.
LEMMA Releases ==
  ASSUME MigInv, UNCHANGED MasterRows, (\E s \in Sides : Finalize(s)) \/ ReleaseSource \/ ReleaseTarget
  PROVE  MigInv'
<1> USE DEF MigInv
<1>1. ASSUME NEW s \in Sides, Finalize(s) PROVE MigInv'
  <2>0. PICK r : r = work[s].req OBVIOUS
  <2>1. /\ work[s] # None /\ r.what = "finalize" /\ Alive(s, r) /\ work[s].step = "begin"
        /\ UNCHANGED <<src, tgt, native, net>>
    BY <2>0, <1>1 DEF Finalize, Acts, Serving, Idle
  <2>2. CASE CensusHolds(s) /\ peer' = [peer EXCEPT ![s].state = "released"] /\ Finish(s, r, "ok", "released", 0)
    <3>1. s = "source" => \A u \in Units : src[u].unit \in {"cleaned", "settled"} BY <2>2 DEF CensusHolds
    <3>2. ASSUME s = "target" PROVE native.reserved = 0
      <4>1. TargetReleased = Units BY <2>2, <3>2 DEF CensusHolds, TargetReleased
      <4>2. Cardinality(Units) = N BY FS_Interval, CountsAssumption DEF Units
      <4>3. peer["target"].state # "aborted" BY <2>0, <2>1, <3>2 DEF Flow, BoundFits, Aborts, Sides
      <4> QED BY <4>1, <4>2, <4>3, CountsAssumption DEF BooksAgree
    <3> QED BY <2>0, <2>1, <2>2, <3>1, <3>2, Released
  <2>3. CASE Finish(s, r, "refused", "native_work_incomplete", 0) /\ UNCHANGED peer
    BY <2>0, <2>1, <2>3, Replies DEF Outcomes
  <2> QED BY <1>1, <2>0, <2>2, <2>3 DEF Finalize
<1>2. CASE ReleaseSource
  <2>0. PICK r : r = work["source"].req OBVIOUS
  <2>1. /\ work["source"] # None /\ r.what = "release" /\ Alive("source", r) /\ work["source"].step = "begin"
        /\ UNCHANGED <<src, tgt, native, net>>
    BY <2>0, <1>2 DEF ReleaseSource, Does, Acts, Serving, Idle, Rest
  <2>2. CASE /\ peer["source"].state = "released" \/ SourceClosed
             /\ peer' = [peer EXCEPT !["source"].state = "released"] /\ Finish("source", r, "ok", "released", 0)
    <3>1. \A u \in Units : src[u].unit \in {"cleaned", "settled"} BY <2>2 DEF SourceClosed, MembersFit
    <3> QED BY <2>0, <2>1, <2>2, <3>1, Released DEF Sides, Closings
  <2>3. CASE Finish("source", r, "census_lost", "", 0) /\ UNCHANGED peer
    BY <2>0, <2>1, <2>3, Replies DEF Outcomes, Sides
  <2> QED BY <1>2, <2>0, <2>2, <2>3 DEF ReleaseSource, Reply2
<1>3. CASE ReleaseTarget
  <2>0. PICK r : r = work["target"].req OBVIOUS
  <2>1. /\ work["target"] # None /\ r.what = "close" /\ Alive("target", r) /\ work["target"].step = "begin"
        /\ UNCHANGED <<src, tgt, native, net>>
    BY <2>0, <1>3 DEF ReleaseTarget, Does, Acts, Serving, Idle, Rest
  <2>2. CASE /\ peer["target"].state = "released" \/ TargetClosed
             /\ peer' = [peer EXCEPT !["target"].state = "released"] /\ Finish("target", r, "ok", "released", 0)
    <3>1. native.reserved = 0 BY <2>2 DEF TargetClosed, MembersFit
    <3> QED BY <2>0, <2>1, <2>2, <3>1, Released DEF Sides, Closings
  <2>3. CASE Finish("target", r, "refused", "work_incomplete", 0) /\ UNCHANGED peer
    BY <2>0, <2>1, <2>3, Replies DEF Outcomes, Sides
  <2>4. CASE Finish("target", r, "ok", "prepared", 0) /\ UNCHANGED peer
    BY <2>0, <2>1, <2>4, Replies DEF Outcomes, Sides, Told
  <2> QED BY <1>3, <2>0, <2>2, <2>3, <2>4 DEF ReleaseTarget, Reply2
<1> QED BY <1>1, <1>2, <1>3

\* A member that has cleaned up lets everything go at once.
LEMMA AbortsMember ==
  ASSUME MigInv, UNCHANGED MasterRows, NEW s \in Sides, AbortRelease(s)
  PROVE  MigInv'
<1> USE DEF MigInv
<1>0. PICK r : r = work[s].req OBVIOUS
<1>1. /\ work[s] # None /\ r.what = "abort_clean" /\ Alive(s, r) /\ work[s].step = "begin"
      /\ UNCHANGED <<src, tgt, net>> /\ Finish(s, r, "ok", "aborted", 0)
  BY <1>0 DEF AbortRelease, Acts, Serving, Idle, Rest, Reply2
<1>2. /\ r \in Requests /\ r \in Pending /\ RequestFits(r) /\ r.to = s
  BY <1>0, <1>1, WorkIsRequest DEF RequestsFit, Flow, WorkFits
<1>3. CASE peer[s].state = "aborted" /\ UNCHANGED <<peer, native>>
  BY <1>0, <1>1, <1>2, <1>3, Replies DEF Outcomes, Told
<1>4. CASE /\ peer[s].state = "aborting" /\ (s = "target" => Unswept = {})
           /\ peer' = [peer EXCEPT ![s].state = "aborted"]
           /\ native' = IF s = "target" THEN [native EXCEPT !.reserved = @ - N] ELSE native
  <2>1. peer[s] \in Peers BY DEF PeerTypes
  <2>2. /\ peer' \in [Sides -> Peers] /\ peer'[s].state = "aborted" /\ peer'[s].epoch = peer[s].epoch
        /\ peer'[s].what = peer[s].what /\ \A t \in Sides \ {s} : peer'[t] = peer[t]
    <3> DEFINE row == [peer[s] EXCEPT !.state = "aborted"]
    <3>1. peer' = [peer EXCEPT ![s] = row] BY <1>4, <2>1 DEF PeerTypes
    <3>2. row \in Peers /\ row.state = "aborted" /\ row.epoch = peer[s].epoch /\ row.what = peer[s].what
      BY <2>1 DEF Peers
    <3> HIDE DEF row
    <3> QED BY <3>1, <3>2 DEF PeerTypes
  <2>3. ASSUME s = "target" PROVE \A u \in Units : tgt[u].unit \in Copyable
    BY <1>4, <2>3 DEF MemberRows, AbortFits
  <2>4. ASSUME s = "target" PROVE native.reserved = N
    <3>1. TargetReleased = {} BY <2>3, <2>4 DEF TargetReleased, Copyable
    <3>2. Cardinality(TargetReleased) = 0 BY <3>1, FS_EmptySet
    <3> QED BY <1>4, <2>4, <3>2, CountsAssumption DEF BooksAgree
  <2>5. /\ native' \in [reserved : Int, used : Int] /\ native'.used = native.used
        /\ IF s = "target" THEN native'.reserved = 0 ELSE native' = native
    BY <1>4, <2>4, CountsAssumption DEF PeerTypes
  <2>6. \A t \in Sides : work'[t] = IF t = s THEN None ELSE work[t] BY <1>1 DEF Finish, PeerTypes
  <2>7. BoundFits' BY <1>4, <2>2, <2>6 DEF Flow, BoundFits, MasterRows
  <2>8. \A t \in Sides : peer'[t].epoch <= runner.epoch BY <2>2 DEF Flow, EpochsFit
  <2>9. /\ Flow' /\ Pending' \subseteq Pending
        /\ work' \in [Sides -> Works \cup {None}] /\ (answer # None => answer.kind \in Outcomes)'
    BY <1>0, <1>1, <2>7, <2>8, FinishFlows DEF Outcomes
  <2>10. PeerTypes' /\ MasterTypes'
    BY <1>1, <2>2, <2>5, <2>9 DEF PeerTypes, MasterTypes, MasterRows
  <2>11. PeerMove
    <3>1. \A t \in Sides : peer[t].epoch <= peer'[t].epoch BY <2>2 DEF PeerTypes, Peers
    <3> QED BY <1>1, <1>4, <2>2, <2>9, <3>1 DEF PeerMove
  <2>12. RequestsFit' /\ JobFits' /\ TaskFits'
    BY <2>11, MoveKeepsRequests, MoveKeepsJob, MoveKeepsTask
  <2>13. LateFits' BY <2>10, <2>11, MoveKeepsLate DEF Flow
  <2>14. MemberRows'
    <3>1. \A u \in Units : SrcFits(u)' /\ TgtFits(u)'
      BY <1>1 DEF MemberRows, SrcFits, TgtFits, TgtRowFits, MasterRows
    <3>2. Unswept' = Unswept BY <1>1 DEF Unswept
    <3>3. AbortFits'
      BY <1>1, <1>2, <1>4, <2>2, <2>3, <2>5, <3>2 DEF MemberRows, AbortFits, Sides, RequestFits
    <3>4. CleanupWork' BY <1>1, <2>6 DEF MemberRows, CleanupWork, Sides
    <3>5. Staged' = Staged BY <1>1 DEF Staged
    <3>6. TargetWork' BY <1>1, <2>6, <3>5 DEF MemberRows, TargetWork, Sides
    <3> QED BY <3>1, <3>3, <3>4, <3>6 DEF MemberRows
  <2>15. UnitsFit'
    BY <1>1, <1>4, <2>2
    DEF UnitsFit, Taken, Given, Proved, TargetProof, SourceProof, Uncommitted, MasterRows
  <2>16. MembersFit'
    BY <1>1, <1>4, <2>2, <2>5 DEF MembersFit, Uncleaned, Uncommitted, MasterRows, Sides
  <2>17. Told(r, "aborted", 0)' BY <1>1, <1>2, <2>2 DEF Told
  <2>18. AnswerFits' BY <1>0, <1>1, <2>2, <2>11, <2>17, FinishAnswers DEF Sides
  <2>19. BooksAgree'
    <3>1. TargetReleased' = TargetReleased /\ Moved' = Moved /\ Withdrawn' = Withdrawn
      BY <1>1 DEF TargetReleased, Moved, Withdrawn, MasterRows
    <3> QED BY <1>1, <1>4, <2>2, <2>5, <3>1 DEF BooksAgree, MasterRows, Sides
  <2> QED BY <2>9, <2>10, <2>12, <2>13, <2>14, <2>15, <2>16, <2>18, <2>19
<1> QED BY <1>3, <1>4 DEF AbortRelease, Cleans2

\* The private copies go one by one, and their directories after them.
LEMMA AbortMoves ==
  ASSUME MigInv, UNCHANGED MasterRows, AbortIntent \/ AbortUnlink \/ AbortRecord \/ AbortDirectory
  PROVE  MigInv'
<1> USE DEF MigInv
<1>0. PICK r : r = work["target"].req OBVIOUS
<1>1. /\ work["target"] # None /\ r.what = "abort_clean" /\ Alive("target", r)
      /\ work["target"].step \in {"begin", "unlink", "record"} /\ peer["target"].state = "aborting"
      /\ UNCHANGED <<peer, src, native, net>>
  BY <1>0 DEF AbortIntent, AbortUnlink, AbortRecord, AbortDirectory, Cleans2, Acts, Serving, Idle, Rest
<1>2. r.to = "target" /\ cancel.path = "prepublication" /\ tgt \in [Units -> TgtRows]
      /\ \A u \in Units : tgt[u].unit \in Copyable
  BY <1>0, <1>1, ServedAtTarget DEF Flow, BoundFits, MemberRows, AbortFits, Sides, PeerTypes
<1>3. ASSUME NEW u \in Units, NEW row \in TgtRows, tgt' = [tgt EXCEPT ![u] = row],
             row.unit = tgt[u].unit, row.entry \in Undone,
             row.entry \in {"aborted", "removed", "discarded", "dropped"} => row.file = "none"
      PROVE  TargetRowKeeps(u) /\ tgt'[u] = row /\ BooksAgree' /\ native' \in [reserved : Int, used : Int]
  <2>1. unit[u].state \notin Committed BY <1>2, MovedIsNotAborted
  <2>2. unit[u].target # runner.epoch \/ u \notin Uncommitted
    BY <1>1 DEF UnitsFit, Proved, TargetProof
  <2>3. tgt[u].unit \in Copyable BY <1>2
  <2>4. TgtRowFits(row, u) BY <1>2, <1>3, <2>3 DEF TgtRowFits, Copyable, Gone, Undone
  <2>5. TargetRowKeeps(u) /\ tgt'[u] = row
    BY <1>1, <1>3, <2>1, <2>2, <2>3, <2>4, TargetRow DEF Copyable, Gone
  <2> QED BY <1>1, <1>3, <2>3, <2>5, PlainRow DEF Copyable
<1>4. ASSUME NEW u \in Units, NEW row \in TgtRows, tgt' = [tgt EXCEPT ![u] = row],
             row.unit = tgt[u].unit, row.entry \in Undone,
             row.entry \in {"aborted", "removed", "discarded", "dropped"} => row.file = "none",
             Finish("target", r, "ok", "cleaning", 0)
      PROVE  MigInv'
  <2>1. TargetRowKeeps(u) /\ tgt'[u] = row /\ BooksAgree' /\ native' \in [reserved : Int, used : Int]
    BY <1>3, <1>4
  <2>2. Told(r, "cleaning", 0)' BY <1>1 DEF Told
  <2> QED BY <1>0, <1>1, <1>4, <2>1, <2>2, TargetFinishes DEF Outcomes
<1>5. ASSUME NEW u \in Units, u = First(Staged), Staged # {}, NEW row \in TgtRows, tgt' = [tgt EXCEPT ![u] = row],
             row.unit = tgt[u].unit, row.entry = "aborting",
             NEW step \in {"unlink", "record"}, Step("target", step), UNCHANGED answer,
             step = "record" => row.file = "none"
      PROVE  MigInv'
  <2>1. TargetRowKeeps(u) /\ tgt'[u] = row /\ BooksAgree' BY <1>3, <1>5 DEF Undone
  <2>2. u \in Staged BY <1>5, FirstIsIn DEF Staged
  <2>3. Staged' = Staged BY <1>2, <1>5, <2>1, <2>2 DEF Staged, TargetRowKeeps
  <2>4. First(Staged') = u BY <1>5, <2>3
  <2>5. work'["target"].req = r /\ work'["target"].step = step => TargetWork'
    BY <1>1, <1>5, <2>1, <2>2, <2>3, <2>4 DEF TargetWork, First
  <2> QED BY <1>0, <1>1, <1>5, <2>1, <2>5, TargetGoesOn DEF Steps
<1>6. CASE AbortIntent
  <2>0. Staged # {} BY <1>6 DEF AbortIntent
  <2>1. PICK u \in Units : u = First(Staged) BY <2>0, FirstIsIn DEF Staged
  <2> DEFINE row == [tgt[u] EXCEPT !.entry = "aborting"]
  <2>2. tgt' = [tgt EXCEPT ![u] = row] /\ Step("target", "unlink") /\ UNCHANGED answer
    BY <1>2, <1>6, <2>1 DEF AbortIntent
  <2>3. row \in TgtRows /\ row.unit = tgt[u].unit /\ row.entry = "aborting"
    BY <1>2 DEF TgtRows, Undone
  <2> HIDE DEF row
  <2> QED BY <1>5, <2>0, <2>1, <2>2, <2>3
<1>7. CASE AbortUnlink
  <2>0. Staged # {} /\ tgt[First(Staged)].entry = "aborting"
    BY <1>0, <1>1, <1>7 DEF AbortUnlink, Cleans2, Acts, Serving, MemberRows, TargetWork
  <2>1. PICK u \in Units : u = First(Staged) BY <2>0, FirstIsIn DEF Staged
  <2> DEFINE row == [tgt[u] EXCEPT !.file = "none"]
  <2>2. tgt' = [tgt EXCEPT ![u] = row] /\ Step("target", "record") /\ UNCHANGED answer
    BY <1>2, <1>7, <2>1 DEF AbortUnlink
  <2>3. row \in TgtRows /\ row.unit = tgt[u].unit /\ row.entry = "aborting" /\ row.file = "none"
    BY <1>2, <2>0, <2>1 DEF TgtRows
  <2> HIDE DEF row
  <2> QED BY <1>5, <2>0, <2>1, <2>2, <2>3
<1>8. CASE AbortRecord
  <2>0. Staged # {} /\ tgt[First(Staged)].entry = "aborting" /\ tgt[First(Staged)].file = "none"
    BY <1>0, <1>1, <1>8 DEF AbortRecord, Cleans2, Acts, Serving, MemberRows, TargetWork
  <2>1. PICK u \in Units : u = First(Staged) BY <2>0, FirstIsIn DEF Staged
  <2> DEFINE row == [tgt[u] EXCEPT !.entry = "aborted"]
  <2>2. tgt' = [tgt EXCEPT ![u] = row] /\ Finish("target", r, "ok", "cleaning", 0)
    BY <1>0, <1>2, <1>8, <2>1 DEF AbortRecord, Reply2
  <2>3. row \in TgtRows /\ row.unit = tgt[u].unit /\ row.entry = "aborted" /\ row.file = "none"
    BY <1>2, <2>0, <2>1 DEF TgtRows, Undone
  <2> HIDE DEF row
  <2> QED BY <1>4, <2>2, <2>3 DEF Undone
<1>9. CASE AbortDirectory
  <2>0. Unswept # {} /\ Staged = {} BY <1>9 DEF AbortDirectory
  <2>1. PICK u \in Units : u = First(Unswept) BY <2>0, FirstIsIn DEF Unswept
  <2> DEFINE row == [tgt[u] EXCEPT !.entry = "removed"]
  <2>2. tgt' = [tgt EXCEPT ![u] = row] /\ Finish("target", r, "ok", "cleaning", 0)
    BY <1>0, <1>2, <1>9, <2>1 DEF AbortDirectory, Reply2
  <2>3. tgt[u].file = "none" BY <2>0 DEF Staged, MemberRows, TgtFits, TgtRowFits
  <2>4. row \in TgtRows /\ row.unit = tgt[u].unit /\ row.entry = "removed" /\ row.file = "none"
    BY <1>2, <2>3 DEF TgtRows, Undone
  <2> HIDE DEF row
  <2> QED BY <1>4, <2>2, <2>4 DEF Undone
<1> QED BY <1>6, <1>7, <1>8, <1>9

-----------------------------------------------------------------------------
\* Every step of a member, and every fault of one, keeps the invariant.
LEMMA MembersKeep ==
  ASSUME MigInv, UNCHANGED MasterRows,
         PeerStep \/ PeerFault \/ CancelPeerStep \/ SourceRestarts \/ ProofRunsOut("target", "undo")
  PROVE  MigInv'
<1>1. CASE PeerStep
  BY <1>1, Receives, Releases, AnswersOnly, Losses, CopyOpens, FetchOpens, FetchCloses, Publishes,
     SourceRowActions, RemovalActions, TargetAccounts
  DEF PeerStep
<1>2. CASE PeerFault BY <1>2, AnswersOnly, Losses DEF PeerFault
<1>3. CASE CancelPeerStep
  BY <1>3, AnswersOnly, Releases, SourceRowActions, UndoMoves, TargetAccounts, AbortsMember, AbortMoves
  DEF CancelPeerStep
<1> QED BY <1>1, <1>2, <1>3, AnswersOnly, Losses

-----------------------------------------------------------------------------
(* No refusals: what the members must have done already when a call arrives.   *)

\* Both members have started to copy.
Begun == \A s \in Sides : peer[s].state # "prepared"

\* An abort has been sent, or has had its effect.
Aborting ==
  \/ \E r \in Pending : r.what \in Aborts
  \/ \E s \in Sides : peer[s].state \in {"aborting", "aborted"}

\* No request of the last runner goes on with the task.
Turned == \A r \in Pending : r.what \in Forwards => r.epoch < runner.epoch

Unstarted == {"none", "receiving"}
Placed == {"publishing", "published"}
Passed == {"assembling", "moving", "registering", "scanning", "published", "committed"}

\* The publication of a unit was asked for.
Asked(u) ==
  \/ \E r \in Pending : r.what \in {"publish", "verify"} /\ r.unit = u
  \/ tgt[u].unit \in Passed

\* Only then can the unit be anything but untouched for the Master.
Foreseen(u) ==
  /\ unit[u].copied
  /\ \/ unit[u].state # "pending"
     \/ cancel.path = "publication"
     \/ u = First(Uncommitted) /\ "committing" \in {task.state, task.resume}

Halted(s) == s \in halted \/ peer[s].state = "aborted"

\* What a member has done of a unit, whatever the Master has heard.
UnitReady(u) ==
  /\ Asked(u) => Foreseen(u)
  /\ unit[u].copied \/ tgt[u].entry \in {"verified"} \cup Placed \/ unit[u].state # "pending" => Begun
  /\ unit[u].copied => tgt[u].entry \notin Unstarted
  /\ tgt[u].entry \in Placed => tgt[u].unit \notin Copyable
  /\ \A s \in unit[u].acks :
       /\ unit[u].state \in Committed
       /\ IF s = "target" THEN tgt[u].unit = "committed" ELSE src[u].unit \in Committed
  /\ unit[u].state \in {"cleanup_pending", "cleaned"} => unit[u].acks = Sides
  /\ src[u].entry = "none" => src[u].file
  /\ src[u].unit \in {"retained", "settled"} => "source" \in halted /\ undo[u].target
  /\ src[u].receipt # 0 => unit[u].copied \/ (cancel.path = "publication" /\ Turned)
  /\ tgt[u].unit \in Gone => Turned

UnitsReady == \A u \in Units : UnitReady(u)

WorkReady ==
  work["source"] # None /\ work["source"].req.what = "cleanup" /\ work["source"].step \in {"unlink", "record"} =>
    src[work["source"].req.unit].entry # "none"

RequestsReady ==
  \A r \in Pending : r.what \in {"retain", "settle"} => undo[r.unit].target

\* A call is made because all it needs has been reported.
Meets(r) ==
  /\ r.what \notin Aborts => ~Aborting
  /\ r.what \notin {"finalize"} \cup Closings => Uncleaned # {}
  /\ r.what \in Forwards \cup {"cutover"} => r.unit = First(Uncommitted)
  /\ r.what = "commit" => r.receipt = unit[r.unit].receipt
  /\ r.what \in {"inspect", "cleanup", "finalize"} \cup Closings => Unacknowledged = {}
  /\ r.what \in {"inspect", "cleanup"} => r.unit \in Moved
  /\ r.what = "finalize" => Moved = Units
  /\ r.what \in Closings => Moved # Units
  /\ r.what \in {"prove", "undo"} => ~undo[r.unit].target
  /\ r.what \in UnitCancels => "source" \in halted
  /\ r.what = "abort_clean" => \A s \in {"source", r.to} : Halted(s)
  /\ r.what = "abort_stop" /\ r.to = "target" =>
       cancel.at.epoch = r.epoch /\ cancel.at.step \in {"stop_target", "stop_waiting"}
JobReady == job # None => Meets(job)

\* What a successful answer says besides.
Heard(r, receipt) ==
  /\ r.what = "copy" => Begun /\ tgt[r.unit].entry \notin Unstarted
  /\ r.what = "commit" =>
       /\ receipt \in 1..Cardinality(Moved)
       /\ IF r.to = "target" THEN tgt[r.unit].unit = "committed" ELSE src[r.unit].unit \in Committed
  /\ r.what = "stop" /\ r.to = "source" => "source" \in halted
  /\ r.what = "abort_stop" => Halted(r.to)

AnswerReady ==
  answer # None =>
    /\ answer.kind # "refused"
    /\ answer.kind = "ok" => Heard(job, answer.receipt)

TaskReady ==
  /\ task.error # "refused"
  /\ {task.state, task.resume} \cap {"committing", "cleanup_pending"} # {} \/ cancel.path = "publication" => Begun
  /\ "verifying" \in {task.state, task.resume} => unit[First(Uncommitted)].copied
  /\ "cleanup_pending" \in {task.state, task.resume} => Uncommitted = {} /\ Unacknowledged = {}
  /\ "source" \in cancel.stops.sides => "source" \in halted
  /\ cancel.at.step \in {"stop_target", "clean_target", "clean_source", "finish"} => Halted("source")
  /\ cancel.at.step \in {"clean_target", "clean_source", "finish"} => Halted("target")
  /\ cancel.at.step \in {"census", "catalog", "release"} => Uncommitted = {}

ReadyInv == UnitsReady /\ WorkReady /\ RequestsReady /\ JobReady /\ AnswerReady /\ TaskReady

-----------------------------------------------------------------------------
(* What the awaited call meets.                                                *)

\* The awaited request is of the last runner, and no member has heard a later one.
LEMMA JobIsLast ==
  ASSUME MigInv, job # None, job \in Requests
  PROVE  /\ job.what \in Kinds /\ job.to \in Sides /\ job.epoch \in Nat
         /\ RequestFits(job) /\ Shaped(job) /\ LastRunner(job)
         /\ job.epoch = runner.epoch /\ runner.epoch \in Nat
         /\ \A s \in Sides :
              /\ peer[s].epoch \in Nat /\ peer[s].epoch <= job.epoch
              /\ peer[s].state \in {"prepared", "active", "aborting", "aborted", "released"}
<1>1. RequestFits(job) /\ LastRunner(job) BY DEF MigInv, JobFits
<1>2. job.what \in Kinds /\ job.to \in Sides /\ job.epoch \in Nat BY DEF Requests
<1>3. job.epoch = runner.epoch BY DEF MigInv, Flow, EpochsFit
<1>4. runner.epoch \in Nat BY DEF MigInv, MasterTypes
<1>5. \A s \in Sides : peer[s] \in Peers BY DEF MigInv, PeerTypes
<1>6. \A s \in Sides : peer[s].epoch <= runner.epoch BY DEF MigInv, Flow, EpochsFit
<1> QED BY <1>1, <1>2, <1>3, <1>4, <1>5, <1>6 DEF RequestFits, Peers

\* A member is in the state the awaited call expects.
LEMMA JobMembers ==
  ASSUME MigInv, ReadyInv, job # None, job \in Requests, NEW s \in Sides
  PROVE  /\ job.what \notin Aborts => peer[s].state \notin {"aborting", "aborted"}
         /\ job.what \notin {"finalize"} \cup Closings => peer[s].state # "released"
         /\ job.what \in {"finalize"} \cup Cancels => peer[s].state # "prepared"
<1>1. job.what \notin Aborts => peer[s].state \notin {"aborting", "aborted"}
  BY DEF ReadyInv, JobReady, Meets, Aborting
<1>2. job.what \notin {"finalize"} \cup Closings => peer[s].state # "released"
  BY DEF ReadyInv, JobReady, Meets, MigInv, MembersFit, Sides
<1>3. CASE job.what = "finalize"
  <2>1. 1 \in Units BY CountsAssumption DEF Units
  <2>2. unit[1].state \in Committed BY <1>3, <2>1 DEF ReadyInv, JobReady, Meets, Moved
  <2>3. Begun BY <2>1, <2>2 DEF ReadyInv, UnitsReady, UnitReady, Committed
  <2> QED BY <1>1, <1>2, <2>3 DEF Begun
<1>4. CASE job.what \in Cancels
  <2>1. cancel.path = "publication" BY <1>4, JobIsLast DEF RequestFits
  <2>2. Begun BY <2>1 DEF ReadyInv, TaskReady
  <2> QED BY <1>1, <1>2, <2>2 DEF Begun
<1> QED BY <1>1, <1>2, <1>3, <1>4

\* The unit of a call that goes on with the task is open at both members.
LEMMA JobUnits ==
  ASSUME MigInv, ReadyInv, job # None, job \in Pending, job.what \in Forwards
  PROVE  LET u == job.unit IN
         /\ u \in Units /\ u \in Uncommitted
         /\ tgt[u].unit \notin Gone \cup {"committed"}
         /\ src[u].unit \in Copyable \cup {"verified"} /\ src[u].file
         /\ job.what = "copy" =>
              ~unit[u].copied /\ tgt[u].unit \in Copyable /\ tgt[u].entry \notin Placed /\ src[u].receipt = 0
         /\ job.what # "copy" => unit[u].copied /\ Begun /\ tgt[u].entry \notin Unstarted
<1> DEFINE u == job.unit
<1>1. job \in Requests BY PendingAreRequests DEF MigInv
<1>2. u \in Units /\ u \in Uncommitted /\ unit[u].state \notin Committed
  <2>1. u \in Units BY <1>1, JobIsLast DEF Shaped, Forwards
  <2> QED BY <2>1 DEF MigInv, JobFits, Uncommitted
<1>3. ~Turned BY <1>1, JobIsLast DEF Turned
<1>4. src[u] \in SrcRows /\ tgt[u] \in TgtRows /\ SrcFits(u) /\ TgtFits(u) /\ Taken(u)
  BY <1>2 DEF MigInv, PeerTypes, MemberRows, UnitsFit
<1>5. UnitReady(u) BY <1>2 DEF ReadyInv, UnitsReady
<1> HIDE DEF u
<1>6. tgt[u].unit \notin Gone \cup {"committed"}
  BY <1>2, <1>3, <1>4, <1>5 DEF UnitReady, TgtFits, TgtRowFits
<1>7. src[u].unit \in Copyable \cup {"verified"}
  BY <1>2, <1>4, <1>6 DEF SrcRows, SrcStates, SrcFits, Taken
<1>8. src[u].file
  <2>1. src[u].file \in BOOLEAN BY <1>4 DEF SrcRows
  <2> QED BY <1>4, <1>7, <2>1 DEF SrcFits, Copyable
<1>9. ASSUME job.what = "copy"
      PROVE  ~unit[u].copied /\ tgt[u].unit \in Copyable /\ tgt[u].entry \notin Placed /\ src[u].receipt = 0
  <2>1. ~unit[u].copied BY <1>1, <1>9, JobIsLast DEF LastRunner, u
  <2>2. tgt[u].unit \notin Passed BY <1>5, <2>1 DEF UnitReady, Asked, Foreseen
  <2>3. tgt[u].unit \in Copyable BY <1>4, <1>6, <2>2 DEF TgtRows, TgtStates, Passed
  <2> QED BY <1>3, <1>5, <2>1, <2>3 DEF UnitReady
<1>10. ASSUME job.what # "copy"
       PROVE  unit[u].copied /\ Begun /\ tgt[u].entry \notin Unstarted
  <2>1. Asked(u) BY <1>10 DEF Asked, Forwards, u
  <2> QED BY <1>5, <2>1 DEF UnitReady, Foreseen
<1> QED BY <1>2, <1>6, <1>7, <1>8, <1>9, <1>10 DEF u

\* A task that is aborted published nothing.
LEMMA AbortedIsPrivate ==
  ASSUME MigInv, ReadyInv, cancel.path = "prepublication", Uncleaned # {}, NEW s \in Sides
  PROVE  Private(s)
<1>1. task.state # "cancelled" /\ \A u \in Units : unit[u].state = "pending"
  BY DEF MigInv, TaskFits, Uncleaned, Withdrawn
<1>2. "committing" \notin {task.state, task.resume}
  BY DEF MigInv, TaskFits, Pausable
<1> SUFFICES ASSUME NEW u \in Units
             PROVE  /\ src[u].unit \in Copyable \cup {"verified"}
                    /\ tgt[u].unit \in Copyable /\ tgt[u].entry \notin {"publishing", "published"}
  BY DEF Private
<1>3. src[u] \in SrcRows /\ tgt[u] \in TgtRows /\ SrcFits(u) /\ TgtFits(u) /\ Taken(u)
  BY DEF MigInv, PeerTypes, MemberRows, UnitsFit
<1>4. UnitReady(u) BY DEF ReadyInv, UnitsReady
<1>5. ~Foreseen(u) BY <1>1, <1>2 DEF Foreseen
<1>6. tgt[u].unit \notin Passed \cup Gone
  BY <1>3, <1>4, <1>5 DEF UnitReady, Asked, TgtFits, TgtRowFits
<1>7. tgt[u].unit \in Copyable BY <1>3, <1>6 DEF TgtRows, TgtStates, Passed
<1>8. src[u].unit \in Copyable \cup {"verified"}
  BY <1>1, <1>3, <1>6 DEF SrcRows, SrcStates, SrcFits, Taken, Committed
<1> QED BY <1>4, <1>7, <1>8 DEF UnitReady, Placed

\* A member that hears the awaited call can bind it.
LEMMA JobBinds ==
  ASSUME MigInv, ReadyInv, job # None, job \in Pending, NEW s \in Sides,
         job.to = s \/ (job.what = "copy" /\ s = "source")
  PROVE  Bindable(s, job)
<1>1. job \in Requests BY PendingAreRequests DEF MigInv
<1>2. /\ job.what \in Kinds /\ RequestFits(job)
      /\ peer[s].epoch \in Nat /\ job.epoch \in Nat /\ peer[s].epoch <= job.epoch
      /\ peer[s].state \in {"prepared", "active", "aborting", "aborted", "released"}
  BY <1>1, JobIsLast
<1>3. /\ Purpose(job.what) = "finalize" <=> job.what \in {"finalize"} \cup Closings
      /\ Purpose(job.what) = "abort" <=> job.what \in Aborts
  BY <1>2, PurposeIs
<1>4. /\ job.what \notin Aborts => peer[s].state \notin {"aborting", "aborted"}
      /\ job.what \notin {"finalize"} \cup Closings => peer[s].state # "released"
      /\ job.what \in {"finalize"} \cup Cancels => peer[s].state # "prepared"
  BY <1>1, JobMembers
<1>5. peer[s].state \in Bound(job)
  BY <1>2, <1>3, <1>4 DEF Bound, Aborts, Closings, Cancels
<1>6. job.what \in Aborts => Private(s)
  <2>1. job.what \in Aborts => cancel.path = "prepublication" /\ Uncleaned # {}
    BY <1>2 DEF RequestFits, ReadyInv, JobReady, Meets, Aborts, Closings
  <2> QED BY <2>1, AbortedIsPrivate
<1>7. job.what = "copy" => IF s = "source"
                             THEN src[job.unit].unit \in Copyable \cup {"verified"} /\ src[job.unit].receipt = 0
                             ELSE tgt[job.unit].unit \in Copyable
  BY JobUnits DEF Forwards
<1> QED BY <1>2, <1>3, <1>5, <1>6, <1>7 DEF Bindable

-----------------------------------------------------------------------------
(* What a step of a member leaves of all that.                                 *)

\* What a handler did to a unit, and on whose request.
TargetMove(u) ==
  /\ tgt'[u].unit \in Passed =>
       tgt[u].unit \in Passed \/ \E r \in Pending : r.what = "publish" /\ r.unit = u
  /\ tgt'[u].unit \in Gone => tgt[u].unit \in Gone \/ \E r \in Pending : r.what = "undo"
  /\ tgt[u].unit = "committed" => tgt'[u].unit = "committed"
  /\ tgt'[u].entry \in Unstarted => tgt[u].entry \in Unstarted
  /\ tgt'[u].entry \in Placed => tgt'[u].unit \notin Copyable
  /\ tgt'[u].entry \in {"verified"} \cup Placed =>
       tgt[u].entry \in {"verified"} \cup Placed \/ tgt[u].unit \in Passed \/ Begun
SourceMove(u) ==
  /\ src[u].unit \in Committed => src'[u].unit \in Committed
  /\ src'[u].unit \in {"retained", "settled"} =>
       \/ src[u].unit \in {"retained", "settled"}
       \/ "source" \in halted /\ \E r \in Pending : r.what = "retain" /\ r.unit = u
  /\ src'[u].entry = "none" => src[u].entry = "none" /\ src'[u].file = src[u].file
  /\ src'[u].receipt # src[u].receipt => \E r \in Pending : r.unit = u /\ r.what \in {"verify", "prove"}

\* It sends nothing, forgets no stop, and turns no member back.
ReadyMove ==
  /\ UNCHANGED MasterRows
  /\ Pending' \subseteq Pending /\ halted \subseteq halted'
  /\ \A s \in Sides :
       /\ peer[s].state # "prepared" => peer'[s].state # "prepared"
       /\ peer[s].state = "aborted" => peer'[s].state = "aborted"
       /\ peer'[s].state \in {"aborting", "aborted"} => Aborting
  /\ \A u \in Units : SourceMove(u) /\ TargetMove(u)

\* A request to take units back is younger than all that go on with the task.
LEMMA TurnedBy ==
  ASSUME MigInv, NEW r \in Pending, r.what \in Cancels
  PROVE  Turned /\ cancel.path = "publication"
<1>1. RequestFits(r) /\ Overtaken(r) /\ r.epoch <= runner.epoch BY DEF MigInv, RequestsFit, Flow, EpochsFit
<1>2. \A q \in Pending : q.epoch \in Nat BY PendingAreRequests DEF MigInv, Requests
<1>3. runner.epoch \in Nat BY DEF MigInv, MasterTypes
<1> QED BY <1>1, <1>2, <1>3 DEF Turned, Overtaken, RequestFits

\* What a step of a member leaves, but for its own work and the answer.
LEMMA MoveReady ==
  ASSUME MigInv, ReadyInv, ReadyMove
  PROVE  UnitsReady' /\ RequestsReady' /\ JobReady' /\ TaskReady'
<1>1. /\ Uncommitted' = Uncommitted /\ Uncleaned' = Uncleaned /\ Moved' = Moved
      /\ Unacknowledged' = Unacknowledged /\ First(Uncommitted') = First(Uncommitted)
  BY DEF ReadyMove, MasterRows, Uncommitted, Uncleaned, Moved, Unacknowledged
<1>2. Begun => Begun' BY DEF ReadyMove, Begun
<1>3. ~Aborting => ~Aborting' BY DEF ReadyMove, Aborting
<1>4. Turned => Turned' BY DEF ReadyMove, MasterRows, Turned
<1>5. \A s \in Sides : Halted(s) => Halted(s)' BY DEF ReadyMove, Halted
<1>6. ASSUME NEW u \in Units PROVE UnitReady(u)'
  <2>1. UnitReady(u) BY DEF ReadyInv, UnitsReady
  <2>2. UNCHANGED <<unit, undo, cancel, task>> BY DEF ReadyMove, MasterRows
  <2>3. SourceMove(u) /\ TargetMove(u) BY DEF ReadyMove
  <2>4. Foreseen(u)' <=> Foreseen(u) BY <1>1, <2>2 DEF Foreseen
  <2>5. Asked(u)' => Asked(u) BY <2>3 DEF TargetMove, ReadyMove, Asked
  <2>6. Asked(u)' => Foreseen(u)' BY <2>1, <2>4, <2>5 DEF UnitReady
  <2>7. (unit[u].copied \/ tgt[u].entry \in {"verified"} \cup Placed \/ unit[u].state # "pending")' => Begun'
    <3>1. tgt[u].unit \in Passed => Begun BY <2>1 DEF UnitReady, Asked, Foreseen
    <3> QED BY <1>2, <2>1, <2>2, <2>3, <3>1 DEF UnitReady, TargetMove
  <2>8. (unit[u].copied => tgt[u].entry \notin Unstarted)' BY <2>1, <2>2, <2>3 DEF UnitReady, TargetMove
  <2>9. (tgt[u].entry \in Placed => tgt[u].unit \notin Copyable)' BY <2>3 DEF TargetMove
  <2>10. ASSUME NEW s \in unit'[u].acks
         PROVE  /\ unit'[u].state \in Committed
                /\ IF s = "target" THEN tgt'[u].unit = "committed" ELSE src'[u].unit \in Committed
    BY <2>1, <2>2, <2>3 DEF UnitReady, TargetMove, SourceMove
  <2>11. (unit[u].state \in {"cleanup_pending", "cleaned"} => unit[u].acks = Sides)' BY <2>1, <2>2 DEF UnitReady
  <2>12. (src[u].entry = "none" => src[u].file)' BY <2>1, <2>3 DEF UnitReady, SourceMove
  <2>13. (src[u].unit \in {"retained", "settled"} => "source" \in halted /\ undo[u].target)'
    <3>1. \A r \in Pending : r.what = "retain" /\ r.unit = u => undo[u].target BY DEF ReadyInv, RequestsReady
    <3> QED BY <2>1, <2>2, <2>3, <3>1 DEF UnitReady, SourceMove, ReadyMove
  <2>14. (src[u].receipt # 0 => unit[u].copied \/ (cancel.path = "publication" /\ Turned))'
    <3>1. \A r \in Pending : r.unit = u /\ r.what = "verify" => unit[u].copied
      BY <2>1 DEF UnitReady, Asked, Foreseen
    <3>2. \A r \in Pending : r.what = "prove" => cancel.path = "publication" /\ Turned
      BY TurnedBy DEF Cancels, UnitCancels
    <3> QED BY <1>4, <2>1, <2>2, <2>3, <3>1, <3>2 DEF UnitReady, SourceMove
  <2>15. (tgt[u].unit \in Gone => Turned)'
    <3>1. \A r \in Pending : r.what = "undo" => Turned BY TurnedBy DEF Cancels, UnitCancels
    <3> QED BY <1>4, <2>1, <2>3, <3>1 DEF UnitReady, TargetMove
  <2> QED BY <2>6, <2>7, <2>8, <2>9, <2>10, <2>11, <2>12, <2>13, <2>14, <2>15 DEF UnitReady
<1>7. RequestsReady' BY DEF ReadyInv, RequestsReady, ReadyMove, MasterRows
<1>8. JobReady'
  <2>1. UNCHANGED <<job, unit, undo, cancel>> BY DEF ReadyMove, MasterRows
  <2>2. job # None => (job.what = "abort_clean" => \A s \in {"source", job.to} : Halted(s)')
    <3>1. job # None /\ job.what = "abort_clean" => job.to \in Sides
      BY DEF MigInv, MasterTypes, Requests, Cutovers
    <3> QED BY <1>5, <3>1 DEF ReadyInv, JobReady, Meets, Sides
  <2>3. "source" \in halted => "source" \in halted' BY DEF ReadyMove
  <2> QED BY <1>1, <1>3, <2>1, <2>2, <2>3 DEF ReadyInv, JobReady, Meets
<1>9. TaskReady'
  <2>1. UNCHANGED <<task, unit, cancel>> BY DEF ReadyMove, MasterRows
  <2>2. "source" \in halted => "source" \in halted' BY DEF ReadyMove
  <2> QED BY <1>1, <1>2, <1>5, <2>1, <2>2 DEF ReadyInv, TaskReady, Sides
<1> QED BY <1>6, <1>7, <1>8, <1>9 DEF UnitsReady


\* What had been heard is still so, and an answer the Master has not read is as good as before.
LEMMA AnswerReadyStays ==
  ASSUME MigInv, ReadyInv, ReadyMove, answer' = answer
  PROVE  AnswerReady'
<1> SUFFICES ASSUME answer # None, answer.kind = "ok" PROVE Heard(job, answer.receipt)'
  BY DEF ReadyInv, AnswerReady
<1>1. job' = job /\ unit' = unit BY DEF ReadyMove, MasterRows
<1>2. job \in Requests /\ Shaped(job) /\ job.to \in Sides
  BY DEF MigInv, MasterTypes, Cutovers, Flow, AnswersLast, JobFits, RequestFits, Sides
<1>3. Heard(job, answer.receipt) BY DEF ReadyInv, AnswerReady
<1>4. Begun => Begun' BY DEF ReadyMove, Begun
<1>5. Halted(job.to) => Halted(job.to)' BY <1>1, <1>2 DEF ReadyMove, Halted
<1>6. Moved' = Moved BY <1>1 DEF Moved
<1>7. job.what \in {"copy", "commit"} => SourceMove(job.unit) /\ TargetMove(job.unit)
  BY <1>2 DEF Shaped, ReadyMove
<1>8. "source" \in halted => "source" \in halted' BY DEF ReadyMove
<1> QED BY <1>1, <1>3, <1>4, <1>5, <1>6, <1>7, <1>8 DEF Heard, SourceMove, TargetMove

\* An answer the Master waits for is no refusal, and reports what was done.
LEMMA ReplyReady ==
  ASSUME MigInv, ReadyInv, ReadyMove, NEW r, NEW kind, NEW phase, NEW receipt, Reply(r, kind, phase, receipt),
         r = job => kind # "refused" /\ (kind = "ok" => Heard(r, receipt)')
  PROVE  AnswerReady'
<1>1. job' = job BY DEF ReadyMove, MasterRows
<1>2. CASE r = job
  <2>1. answer' = [kind |-> kind, phase |-> phase, receipt |-> receipt] BY <1>2 DEF Reply
  <2> QED BY <1>1, <1>2, <2>1 DEF AnswerReady, Heard
<1>3. CASE r # job BY <1>3, AnswerReadyStays DEF Reply
<1> QED BY <1>2, <1>3

\* A handler that only ends, or goes on, keeps what its removal had recorded.
LEMMA WorkReadyStays ==
  ASSUME MigInv, ReadyInv, ReadyMove,
         \/ work'["source"] \in {None, work["source"]}
         \/ work'["source"].step \notin {"unlink", "record"}
         \/ work'["source"].req.what # "cleanup"
  PROVE  WorkReady'
<1> SUFFICES ASSUME work'["source"] = work["source"], work["source"] # None,
                    work["source"].req.what = "cleanup", work["source"].step \in {"unlink", "record"}
             PROVE  src'[work["source"].req.unit].entry # "none"
  BY DEF WorkReady
<1>1. work["source"].req.unit \in Units
  BY WorkIsRequest DEF MigInv, RequestsFit, RequestFits, Shaped, Sides
<1>2. src[work["source"].req.unit].entry # "none" BY DEF ReadyInv, WorkReady
<1> QED BY <1>1, <1>2 DEF ReadyMove, SourceMove

\* The whole, for a handler that answers and ends.
LEMMA FinishReady ==
  ASSUME MigInv, ReadyInv, ReadyMove, NEW s \in Sides, NEW r, NEW kind, NEW phase, NEW receipt,
         Finish(s, r, kind, phase, receipt),
         r = job => kind # "refused" /\ (kind = "ok" => Heard(r, receipt)')
  PROVE  ReadyInv'
<1>1. AnswerReady' BY ReplyReady DEF Finish
<1>2. work'["source"] \in {None, work["source"]} BY DEF Finish, MigInv, PeerTypes, Sides
<1>3. WorkReady' BY <1>2, WorkReadyStays
<1> QED BY <1>1, <1>3, MoveReady DEF ReadyInv

\* A handler that ends leaves no request behind.
LEMMA FinishTakes ==
  ASSUME PeerTypes, NEW s \in Sides, NEW r, NEW kind, NEW phase, NEW receipt,
         Finish(s, r, kind, phase, receipt), net' = net
  PROVE  Pending' \subseteq Pending
<1>1. \A t \in Sides : work'[t] \in {None, work[t]} BY DEF Finish, PeerTypes
<1> QED BY <1>1 DEF Pending

\* A handler that takes its next step serves the same request.
LEMMA StepTakes ==
  ASSUME PeerTypes, NEW s \in Sides, work[s] # None, NEW step, Step(s, step), net' = net
  PROVE  /\ Pending' \subseteq Pending
         /\ work'[s].req = work[s].req /\ work'[s].step = step
         /\ \A t \in Sides \ {s} : work'[t] = work[t]
<1>1. work[s] \in Works BY WorkIsRequest
<1>2. /\ work'[s].req = work[s].req /\ work'[s].step = step
      /\ \A t \in Sides \ {s} : work'[t] = work[t]
  BY <1>1 DEF Step, PeerTypes, Works
<1> QED BY <1>2 DEF Pending

\* A member whose rows stay as they are.
LEMMA StillMove ==
  ASSUME MigInv, ReadyInv, UNCHANGED <<peer, src, tgt, MasterRows>>, halted \subseteq halted', Pending' \subseteq Pending
  PROVE  ReadyMove
<1>1. \A u \in Units : UnitReady(u) BY DEF ReadyInv, UnitsReady
<1>2. \A u \in Units : SourceMove(u) BY DEF SourceMove
<1>3. \A u \in Units : TargetMove(u) BY <1>1 DEF TargetMove, UnitReady
<1>4. \A s \in Sides : peer'[s].state \in {"aborting", "aborted"} => Aborting BY DEF Aborting
<1> QED BY <1>2, <1>3, <1>4 DEF ReadyMove

\* A handler that writes the row of one unit of the Source.
LEMMA SourceRowMove ==
  ASSUME MigInv, ReadyInv, UNCHANGED <<peer, tgt, MasterRows>>, halted \subseteq halted', Pending' \subseteq Pending,
         NEW u, \A v \in Units \ {u} : src'[v] = src[v], u \in Units => SourceMove(u)
  PROVE  ReadyMove
<1>1. \A v \in Units : UnitReady(v) BY DEF ReadyInv, UnitsReady
<1>2. \A v \in Units : SourceMove(v) BY DEF SourceMove
<1>3. \A v \in Units : TargetMove(v) BY <1>1 DEF TargetMove, UnitReady
<1>4. \A s \in Sides : peer'[s].state \in {"aborting", "aborted"} => Aborting BY DEF Aborting
<1> QED BY <1>2, <1>3, <1>4 DEF ReadyMove

\* A handler that writes the row of one unit of the Target.
LEMMA TargetRowMove ==
  ASSUME MigInv, ReadyInv, UNCHANGED <<peer, src, MasterRows>>, halted \subseteq halted', Pending' \subseteq Pending,
         NEW u, \A v \in Units \ {u} : tgt'[v] = tgt[v], u \in Units => TargetMove(u)
  PROVE  ReadyMove
<1>1. \A v \in Units : UnitReady(v) BY DEF ReadyInv, UnitsReady
<1>2. \A v \in Units : SourceMove(v) BY DEF SourceMove
<1>3. \A v \in Units : TargetMove(v) BY <1>1 DEF TargetMove, UnitReady
<1>4. \A s \in Sides : peer'[s].state \in {"aborting", "aborted"} => Aborting BY DEF Aborting
<1> QED BY <1>2, <1>3, <1>4 DEF ReadyMove

-----------------------------------------------------------------------------
(* The handlers that write no row, and the losses.                             *)

\* When the last calls are made every unit is closed at both members.
LEMMA JobClosing ==
  ASSUME MigInv, ReadyInv, job # None, job \in Requests, job.what \in Closings
  PROVE  SourceClosed /\ TargetClosed
<1>1. Uncleaned = {} /\ cancel.path = "publication" /\ Moved # Units
  BY JobIsLast DEF RequestFits, Cancels, ReadyInv, JobReady, Meets
<1>2. ASSUME NEW u \in Units
      PROVE  \/ unit[u].state = "cleaned" /\ src[u].unit = "cleaned" /\ ~src[u].file
                /\ tgt[u].unit = "committed" /\ tgt[u].file = "public"
             \/ unit[u].state = "cancelled" /\ src[u].unit = "settled" /\ src[u].file /\ "source" \in halted
                /\ tgt[u].unit = "settled" /\ tgt[u].file = "none"
  <2>1. /\ src[u] \in SrcRows /\ SrcFits(u) /\ TgtFits(u) /\ Taken(u) /\ Given(u) /\ UnitReady(u)
    BY DEF MigInv, PeerTypes, MemberRows, UnitsFit, ReadyInv, UnitsReady
  <2>2. unit[u].state \in {"cleaned", "cancelled"} BY <1>1 DEF Uncleaned
  <2>3. src[u].file \in BOOLEAN BY <2>1 DEF SrcRows
  <2>4. CASE unit[u].state = "cleaned"
    BY <2>1, <2>3, <2>4 DEF SrcFits, Given, UnitReady, Sides, Committed
  <2>5. CASE unit[u].state = "cancelled"
    BY <1>1, <2>1, <2>3, <2>5 DEF SrcFits, Taken, TgtFits, TgtRowFits, UnitReady, Gone
  <2> QED BY <2>2, <2>4, <2>5
<1>3. SourceClosed
  <2>1. PICK u \in Units : unit[u].state \notin Committed BY <1>1 DEF Moved
  <2>2. "source" \in halted BY <1>2, <2>1 DEF Committed
  <2> QED BY <1>2, <2>2 DEF SourceClosed
<1>4. native.reserved = 0
  <2>1. TargetReleased = Units BY <1>2 DEF TargetReleased
  <2>2. peer["target"].state # "aborted" BY JobMembers DEF Closings, Aborts, Sides
  <2>3. Cardinality(Units) = N BY FS_Interval, CountsAssumption DEF Units
  <2>4. native.reserved = N - N BY <2>1, <2>2, <2>3 DEF MigInv, BooksAgree
  <2> QED BY <2>4, CountsAssumption
<1> QED BY <1>2, <1>3, <1>4 DEF TargetClosed

\* Handlers that only answer refuse nothing the Master waits for.
LEMMA AnswersReady ==
  ASSUME MigInv, ReadyInv, UNCHANGED MasterRows, UNCHANGED halted,
         \/ \E s \in Sides : GiveUp(s) \/ AbortRefused(s)
         \/ FetchBreaks \/ InspectTarget \/ ProofRunsOut("source", "cleanup") \/ ProofRunsOut("target", "undo")
         \/ UndoReplay \/ QueryRelease \/ CensusStarts \/ CensusRoster \/ CensusPhysical
  PROVE  ReadyInv'
<1> USE DEF Sides
<1>1. ASSUME NEW s \in Sides, NEW r, NEW kind, NEW phase, Finish(s, r, kind, phase, 0),
             UNCHANGED <<peer, src, tgt, net>>, r = job => kind # "refused",
             kind = "ok" => r.what \notin {"copy", "commit", "stop", "abort_stop"}
      PROVE  ReadyInv'
  <2>1. Pending' \subseteq Pending BY <1>1, FinishTakes DEF MigInv
  <2>2. ReadyMove BY <1>1, <2>1, StillMove
  <2>3. kind = "ok" => Heard(r, 0)' BY <1>1 DEF Heard
  <2> QED BY <1>1, <2>2, <2>3, FinishReady
<1>2. ASSUME NEW s \in Sides, GiveUp(s) PROVE ReadyInv'
  BY <1>1, <1>2 DEF GiveUp
<1>3. ASSUME NEW s \in Sides, AbortRefused(s) PROVE ReadyInv'
  <2>1. /\ work[s] # None /\ work[s].req.what = "abort_clean" /\ peer[s].state = "aborting" /\ s \notin halted
        /\ Finish(s, work[s].req, "refused", "stop_required", 0)
    BY <1>3 DEF AbortRefused, Cleans2, Acts, Serving, Idle, Reply2
  <2>2. work[s].req.to = s BY <2>1 DEF MigInv, Flow, WorkFits
  <2>3. job # None /\ job = work[s].req => FALSE
    BY <2>1, <2>2 DEF ReadyInv, JobReady, Meets, Halted
  <2>4. work[s].req # job
    BY <2>1, <2>3, WorkIsRequest DEF MigInv, Requests, None
  <2> QED BY <1>1, <1>3, <2>1, <2>4 DEF AbortRefused, Rest
<1>4. CASE FetchBreaks
  BY <1>1, <1>4 DEF FetchBreaks
<1>5. CASE InspectTarget
  <2> DEFINE r == work["target"].req
  <2>1. work["target"] # None /\ r.what = "inspect" /\ Alive("target", r)
    BY <1>5 DEF InspectTarget, Acts, Serving, Idle
  <2>2. r \in Requests /\ r # None BY <2>1, WorkIsRequest DEF MigInv, Requests, None
  <2>3. ASSUME r = job PROVE tgt[r.unit].unit = "committed" /\ tgt[r.unit].file = "public"
    <3>1. r.unit \in Moved /\ Unacknowledged = {} BY <2>1, <2>2, <2>3 DEF ReadyInv, JobReady, Meets
    <3>2. r.unit \in Units /\ unit[r.unit].state \in Committed /\ unit[r.unit].acks = Sides
      BY <3>1 DEF Moved, Unacknowledged
    <3>3. UnitReady(r.unit) /\ Given(r.unit) BY <3>2 DEF ReadyInv, UnitsReady, MigInv, UnitsFit
    <3>4. "target" \in unit[r.unit].acks BY <3>2
    <3> QED BY <3>2, <3>3, <3>4 DEF UnitReady, Given
  <2>4. PICK kind \in {"ok", "refused"} : Finish("target", r, kind, "verified", 0) /\ (r = job => kind = "ok")
    BY <1>5, <2>3 DEF InspectTarget
  <2> QED BY <1>1, <1>5, <2>1, <2>4 DEF InspectTarget
<1>6. ASSUME NEW s \in Sides, NEW what, ProofRunsOut(s, what) PROVE ReadyInv'
  BY <1>1, <1>6 DEF ProofRunsOut
<1>7. CASE UndoReplay
  <2> DEFINE r == work["target"].req
  <2>1. work["target"] # None /\ r.what = "undo" /\ Alive("target", r)
    BY <1>7 DEF UndoReplay, Undoes, Acts, Serving, Idle
  <2>2. r.unit \in Units /\ unit[r.unit].state \notin Committed
    BY <2>1, ServedAtTarget DEF RequestFits, UnitCancels
  <2>3. tgt[r.unit].unit # "committed" BY <2>2 DEF MigInv, MemberRows, TgtFits, TgtRowFits
  <2>4. Finish("target", r, "ok", "cancelled", 0) BY <1>7, <2>3 DEF UndoReplay, Undoing, Reply2
  <2> QED BY <1>1, <1>7, <2>1, <2>4 DEF UndoReplay, Rest
<1>8. CASE QueryRelease
  <2> DEFINE r == work["source"].req
  <2>1. r.what = "query" BY <1>8 DEF QueryRelease, Does, Acts, Serving
  <2>2. PICK phase : Finish("source", r, "ok", phase, 0) BY <1>8 DEF QueryRelease, Reply2
  <2> QED BY <1>1, <1>8, <2>1, <2>2 DEF QueryRelease, Rest
<1>9. CASE CensusStarts \/ CensusRoster \/ CensusPhysical
  <2> DEFINE r == work["source"].req
  <2>1. work["source"] # None /\ r.what = "census"
    BY <1>9 DEF CensusStarts, CensusRoster, CensusPhysical, Does, Acts, Serving, Idle
  <2>2. r \in Requests /\ r # None BY <2>1, WorkIsRequest DEF MigInv, Requests, None
  <2>3. r = job => SourceClosed BY <2>1, <2>2, JobClosing DEF Closings
  <2>4. PICK kind \in {"ok", "refused"} : \E phase : Finish("source", r, kind, phase, 0) /\ (r = job => kind = "ok")
    BY <1>9, <2>3 DEF CensusStarts, CensusRoster, CensusPhysical, Counts, SourceRefuses, Reply2
  <2>5. UNCHANGED <<peer, src, tgt, net>>
    BY <1>9 DEF CensusStarts, CensusRoster, CensusPhysical, Counts, SourceRefuses, Rest
  <2> QED BY <1>1, <2>1, <2>4, <2>5
<1> QED BY <1>2, <1>3, <1>4, <1>5, <1>6, <1>7, <1>8, <1>9

\* A stop is recorded before it is answered.
LEMMA StopsReady ==
  ASSUME MigInv, ReadyInv, UNCHANGED MasterRows, NEW s \in Sides, StopMember(s) \/ AbortStop(s)
  PROVE  ReadyInv'
<1>0. PICK r : r = work[s].req OBVIOUS
<1>1. /\ work[s] # None /\ r.what \in {"stop", "abort_stop"} /\ UNCHANGED <<peer, src, tgt, net>>
      /\ halted \subseteq halted'
  BY <1>0 DEF StopMember, AbortStop, Does, Acts, Serving, Idle, Rest
<1>2. r.to = s BY <1>0, <1>1 DEF MigInv, Flow, WorkFits
<1>3. r \in Requests /\ r # None BY <1>0, <1>1, WorkIsRequest DEF MigInv, Requests, None
<1>4. ASSUME NEW kind, NEW phase, Finish(s, r, kind, phase, 0), r = job => kind # "refused",
             kind = "ok" /\ r.what = "stop" /\ s = "source" => "source" \in halted',
             kind = "ok" /\ r.what = "abort_stop" => s \in halted' \/ peer[s].state = "aborted"
      PROVE  ReadyInv'
  <2>1. Pending' \subseteq Pending BY <1>1, <1>4, FinishTakes DEF MigInv
  <2>2. ReadyMove BY <1>1, <2>1, StillMove
  <2>3. kind = "ok" => Heard(r, 0)' BY <1>1, <1>2, <1>4 DEF Heard, Halted
  <2> QED BY <1>4, <2>2, <2>3, FinishReady
<1>5. CASE StopMember(s)
  <2>1. r.what = "stop" BY <1>0, <1>5 DEF StopMember, Does, Acts, Serving
  <2>2. r = job /\ s = "source" => peer[s].state = "active"
    <3>1. ASSUME r = job PROVE peer[s].state \notin {"aborting", "aborted", "released", "prepared"}
      BY <1>3, <2>1, <3>1, JobMembers DEF Aborts, Closings, Cancels
    <3>2. peer[s].state \in {"prepared", "active", "aborting", "aborted", "released"}
      BY DEF MigInv, PeerTypes, Peers
    <3> QED BY <3>1, <3>2
  <2>3. CASE s = "source" /\ peer[s].state # "active"
    <3>1. Finish(s, r, "refused", "source_unavailable", 0) BY <1>0, <1>5, <2>3 DEF StopMember, Reply2
    <3> QED BY <1>4, <2>2, <2>3, <3>1
  <2>4. CASE ~(s = "source" /\ peer[s].state # "active")
    <3>1. Finish(s, r, "ok", "stopped", 0) /\ (s = "source" => "source" \in halted')
      BY <1>0, <1>5, <2>4 DEF StopMember, Reply2
    <3> QED BY <1>4, <2>1, <3>1
  <2> QED BY <2>3, <2>4
<1>6. CASE AbortStop(s)
  <2>1. r.what = "abort_stop" BY <1>0, <1>6 DEF AbortStop, Does, Acts, Serving
  <2>2. PICK phase : Finish(s, r, "ok", phase, 0) /\ (s \in halted' \/ peer[s].state = "aborted")
    BY <1>0, <1>6 DEF AbortStop, Reply2
  <2> QED BY <1>4, <2>1, <2>2
<1> QED BY <1>5, <1>6

\* Crashes, lost requests and broken streams answer nothing.
LEMMA LossesReady ==
  ASSUME MigInv, ReadyInv, UNCHANGED MasterRows, UNCHANGED halted,
         (\E s \in Sides : PeerCrash(s)) \/ (\E r \in net : Lose(r)) \/ StreamEnds \/ SourceRestarts
  PROVE  ReadyInv'
<1> USE DEF Sides
<1>1. /\ UNCHANGED <<peer, src, tgt, answer>> /\ net' \subseteq net
      /\ \A t \in Sides : work'[t] \in {None, work[t]}
  BY DEF PeerCrash, Lose, StreamEnds, SourceRestarts, peerVars, callVars, MigInv, PeerTypes
<1>2. Pending' \subseteq Pending BY <1>1 DEF Pending
<1>3. ReadyMove BY <1>1, <1>2, StillMove
<1>4. WorkReady' BY <1>1, <1>3, WorkReadyStays
<1>5. AnswerReady' BY <1>1, <1>3, AnswerReadyStays
<1> QED BY <1>3, <1>4, <1>5, MoveReady DEF ReadyInv

-----------------------------------------------------------------------------
(* The handlers of the Source that write a row.                                *)

\* A handler of the Source that writes the row of its unit and answers.
LEMMA SourceEnds ==
  ASSUME MigInv, ReadyInv, UNCHANGED <<peer, tgt, net, halted, MasterRows>>,
         NEW u, \A v \in Units \ {u} : src'[v] = src[v], u \in Units => SourceMove(u),
         NEW r, NEW kind, NEW phase, NEW receipt, Finish("source", r, kind, phase, receipt),
         r = job => kind # "refused" /\ (kind = "ok" => Heard(r, receipt)')
  PROVE  ReadyInv'
<1>1. Pending' \subseteq Pending BY FinishTakes DEF MigInv, Sides
<1>2. ReadyMove BY <1>1, SourceRowMove
<1> QED BY <1>2, FinishReady DEF Sides

\* What an acknowledgement counts is among the units that moved.
LEMMA CountsMoved ==
  ASSUME NEW S \in SUBSET Moved, NEW u \in S
  PROVE  Cardinality(S) \in 1..Cardinality(Moved)
<1>1. IsFiniteSet(Units) BY FS_Interval, CountsAssumption DEF Units
<1>2. Moved \subseteq Units BY DEF Moved
<1>3. IsFiniteSet(Moved) BY <1>1, <1>2, FS_Subset
<1>4. IsFiniteSet(S) /\ Cardinality(S) <= Cardinality(Moved) BY <1>3, FS_Subset
<1>5. Cardinality(S) # 0 BY <1>4, FS_EmptySet
<1>6. Cardinality(S) \in Nat /\ Cardinality(Moved) \in Nat BY <1>3, <1>4, FS_CardinalityType
<1> QED BY <1>4, <1>5, <1>6

\* What the Source serves, and which call it is.
LEMMA SourceServes ==
  ASSUME MigInv, ReadyInv, NEW r, work["source"] # None, r = work["source"].req, Alive("source", r),
         r.what \in {"verify", "cleanup", "prove", "retain", "commit", "settle"}
  PROVE  LET u == r.unit IN
         /\ u \in Units /\ r \in Pending /\ r \in Requests /\ r # None /\ RequestFits(r) /\ r.to = "source"
         /\ src \in [Units -> SrcRows] /\ src[u] \in SrcRows /\ src[u].unit \in SrcStates
         /\ SrcFits(u) /\ TgtFits(u) /\ Taken(u) /\ Given(u) /\ UnitReady(u)
<1>1. r \in Pending /\ r \in Requests /\ RequestFits(r) /\ r.to = "source" /\ r.unit \in Units
  BY ServedAtSource
<1>2. r # None BY <1>1 DEF Requests, None
<1>3. src \in [Units -> SrcRows] BY DEF MigInv, PeerTypes
<1>4. src[r.unit] \in SrcRows /\ src[r.unit].unit \in SrcStates BY <1>1, <1>3 DEF SrcRows
<1>5. SrcFits(r.unit) /\ TgtFits(r.unit) /\ Taken(r.unit) /\ Given(r.unit) /\ UnitReady(r.unit)
  BY <1>1 DEF MigInv, MemberRows, UnitsFit, ReadyInv, UnitsReady
<1> QED BY <1>1, <1>2, <1>3, <1>4, <1>5

\* The Source verifies what it is asked to verify.
LEMMA VerifyReady ==
  ASSUME MigInv, ReadyInv, UNCHANGED MasterRows, UNCHANGED halted, VerifySource \/ ProveRetained
  PROVE  ReadyInv'
<1>0. PICK r : r = work["source"].req OBVIOUS
<1>1. /\ work["source"] # None /\ r.what \in {"verify", "prove"} /\ Alive("source", r)
      /\ UNCHANGED <<peer, tgt, net>>
  BY <1>0 DEF VerifySource, ProveRetained, Does, Acts, Serving, Idle, Rest
<1>2. PICK u : u = r.unit OBVIOUS
<1>3. /\ u \in Units /\ r \in Pending /\ r \in Requests /\ r # None /\ RequestFits(r)
      /\ src \in [Units -> SrcRows] /\ src[u].unit \in SrcStates
      /\ SrcFits(u) /\ UnitReady(u) /\ src[u].file \in BOOLEAN
  BY <1>0, <1>1, <1>2, SourceServes DEF SrcRows
<1> DEFINE held == src[u].unit \in Copyable \cup {"verified"} /\ src[u].file
<1>4. r = job /\ r.what = "verify" => peer["source"].state = "active" /\ held
  <2> SUFFICES ASSUME r = job, r.what = "verify" PROVE peer["source"].state = "active" /\ held OBVIOUS
  <2>1. held /\ Begun BY <1>2, <1>3, JobUnits DEF Forwards
  <2>2. peer["source"].state \notin {"aborting", "aborted", "released", "prepared"}
    BY <1>3, <2>1, JobMembers DEF Aborts, Closings, Begun, Sides
  <2>3. peer["source"].state \in {"prepared", "active", "aborting", "aborted", "released"}
    BY DEF MigInv, PeerTypes, Peers, Sides
  <2> QED BY <2>1, <2>2, <2>3
<1>5. r = job /\ r.what = "prove" => held
  <2> SUFFICES ASSUME r = job, r.what = "prove" PROVE held OBVIOUS
  <2>1. unit[u].state \notin Committed BY <1>2, <1>3 DEF RequestFits, UnitCancels
  <2>2. ~undo[u].target BY <1>2, <1>3 DEF ReadyInv, JobReady, Meets
  <2>3. src[u].unit \notin Committed \cup {"retained", "settled"}
    BY <1>3, <2>1, <2>2 DEF SrcFits, UnitReady
  <2> QED BY <1>3, <2>3 DEF SrcStates, SrcFits, Committed
<1>6. ASSUME held, src' = [src EXCEPT ![u].unit = "verified", ![u].receipt = @ + 1],
             NEW n, Finish("source", r, "ok", "verified", n)
      PROVE  ReadyInv'
  <2>1. /\ \A v \in Units \ {u} : src'[v] = src[v]
        /\ src'[u].unit = "verified" /\ src'[u].file = src[u].file /\ src'[u].entry = src[u].entry
    BY <1>3, <1>6, VerifiedRow
  <2>2. SourceMove(u) BY <1>1, <1>2, <1>3, <1>6, <2>1 DEF SourceMove, Committed, Copyable
  <2>3. Heard(r, n)' BY <1>1 DEF Heard
  <2> QED BY <1>1, <1>6, <2>1, <2>2, <2>3, SourceEnds
<1>7. ASSUME UNCHANGED src, r # job, NEW phase, Finish("source", r, "refused", phase, 0)
      PROVE  ReadyInv'
  <2>1. SourceMove(u) BY <1>7 DEF SourceMove
  <2> QED BY <1>1, <1>7, <2>1, SourceEnds
<1>8. CASE VerifySource
  <2>0. r.what = "verify" BY <1>0, <1>8 DEF VerifySource, Acts, Serving
  <2>1. CASE peer["source"].state = "active" /\ held
    <3>1. PICK n : n = src[u].receipt + 1 OBVIOUS
    <3> QED BY <1>0, <1>2, <1>6, <1>8, <2>1, <3>1 DEF VerifySource
  <2>2. CASE ~(peer["source"].state = "active" /\ held)
    BY <1>0, <1>2, <1>4, <1>7, <1>8, <2>0, <2>2 DEF VerifySource
  <2> QED BY <2>1, <2>2
<1>9. CASE ProveRetained
  <2>0. r.what = "prove" BY <1>0, <1>9 DEF ProveRetained, Does, Acts, Serving
  <2>1. CASE held BY <1>0, <1>2, <1>6, <1>9, <2>1 DEF ProveRetained, Reply2
  <2>2. CASE ~held BY <1>0, <1>2, <1>5, <1>7, <1>9, <2>0, <2>2 DEF ProveRetained, Reply2
  <2> QED BY <2>1, <2>2
<1> QED BY <1>8, <1>9

\* The Source acknowledges a unit that moved: it still holds the receipt of the cutover.
LEMMA SourceAckReady ==
  ASSUME MigInv, ReadyInv, UNCHANGED MasterRows, UNCHANGED halted, AcknowledgeSource
  PROVE  ReadyInv'
<1>0. PICK r : r = work["source"].req OBVIOUS
<1>1. /\ work["source"] # None /\ r.what = "commit" /\ Alive("source", r)
      /\ UNCHANGED <<peer, tgt, net>>
  BY <1>0 DEF AcknowledgeSource, Acts, Serving, Idle
<1>2. PICK u : u = r.unit OBVIOUS
<1>3. /\ u \in Units /\ r \in Pending /\ r \in Requests /\ r # None /\ RequestFits(r) /\ r.to = "source"
      /\ src \in [Units -> SrcRows] /\ src[u].unit \in SrcStates /\ SrcFits(u) /\ Given(u)
  BY <1>0, <1>1, <1>2, SourceServes
<1>4. unit[u].state \in Committed /\ u \in Moved BY <1>1, <1>2, <1>3 DEF RequestFits, Moved
<1> DEFINE S == NativeCommitted("source")
<1>5. S \in SUBSET Moved
  BY DEF NativeCommitted, Moved, MigInv, MemberRows, SrcFits
<1>6. Moved' = Moved BY DEF Moved, MasterRows
<1>7. CASE src[u].unit = "verified" /\ src[u].receipt = r.receipt
  <2>1. src' = [src EXCEPT ![u].unit = "committed"] BY <1>0, <1>2, <1>7 DEF AcknowledgeSource, Committed
  <2>2. PICK n : n = Cardinality(S) + 1 OBVIOUS
  <2>3. Finish("source", r, "ok", "acknowledged", n)
    BY <1>0, <1>2, <1>7, <2>2 DEF AcknowledgeSource, Committed
  <2>4. /\ \A v \in Units \ {u} : src'[v] = src[v]
        /\ src'[u].unit = "committed" /\ src'[u].receipt = src[u].receipt
        /\ src'[u].file = src[u].file /\ src'[u].entry = src[u].entry
    BY <1>3, <2>1, StateOfRow DEF SrcStates, Committed
  <2>5. SourceMove(u) BY <2>4 DEF SourceMove, Committed
  <2>6. n \in 1..Cardinality(Moved)
    <3>1. u \notin S BY <1>7 DEF NativeCommitted, Committed
    <3>2. S \in SUBSET Units BY DEF NativeCommitted
    <3>3. Cardinality(S \cup {u}) = n BY <1>3, <2>2, <3>1, <3>2, OneMore
    <3>4. S \cup {u} \in SUBSET Moved BY <1>4, <1>5
    <3> QED BY <3>3, <3>4, CountsMoved
  <2>7. Heard(r, n)' BY <1>1, <1>2, <1>3, <1>6, <2>4, <2>6 DEF Heard, Committed
  <2> QED BY <1>1, <2>3, <2>4, <2>5, <2>7, SourceEnds
<1>8. CASE src[u].unit \in Committed /\ src[u].receipt = r.receipt
  <2>1. PICK n : n = Cardinality(S) OBVIOUS
  <2>2. Finish("source", r, "ok", "acknowledged", n) /\ src' = src
    BY <1>0, <1>2, <1>8, <2>1 DEF AcknowledgeSource, Committed
  <2>3. SourceMove(u) BY <2>2 DEF SourceMove
  <2>4. n \in 1..Cardinality(Moved)
    <3>1. u \in S BY <1>3, <1>8 DEF NativeCommitted
    <3> QED BY <1>5, <2>1, <3>1, CountsMoved
  <2>5. Heard(r, n)' BY <1>1, <1>2, <1>3, <1>6, <1>8, <2>2, <2>4 DEF Heard
  <2> QED BY <1>1, <2>2, <2>3, <2>5, SourceEnds
<1>9. CASE src[u].receipt # r.receipt \/ src[u].unit \notin Committed \cup {"verified"}
  <2>1. Finish("source", r, "refused", "native_proof_changed", 0) /\ src' = src
    BY <1>0, <1>2, <1>9 DEF AcknowledgeSource
  <2>2. SourceMove(u) BY <2>1 DEF SourceMove
  <2>3. r # job
    <3>1. job = r => r.receipt = unit[u].receipt BY <1>1, <1>2, <1>3 DEF ReadyInv, JobReady, Meets
    <3> QED BY <1>3, <1>4, <1>9, <3>1 DEF Given
  <2> QED BY <1>1, <2>1, <2>2, <2>3, SourceEnds
<1> QED BY <1>7, <1>8, <1>9

\* Once stopped, the Source retains and settles what it is asked to.
LEMMA RetainReady ==
  ASSUME MigInv, ReadyInv, UNCHANGED MasterRows, UNCHANGED halted, Retain \/ SettleSource
  PROVE  ReadyInv'
<1>0. PICK r : r = work["source"].req OBVIOUS
<1>1. /\ work["source"] # None /\ r.what \in {"retain", "settle"} /\ Alive("source", r)
      /\ UNCHANGED <<peer, tgt, net>>
  BY <1>0 DEF Retain, SettleSource, Does, Acts, Serving, Idle, SourceAnswers, SourceRefuses, Rest
<1>2. PICK u : u = r.unit OBVIOUS
<1>3. /\ u \in Units /\ r \in Pending /\ r \in Requests /\ r # None /\ RequestFits(r)
      /\ src \in [Units -> SrcRows] /\ src[u].unit \in SrcStates /\ SrcFits(u) /\ src[u].file \in BOOLEAN
  BY <1>0, <1>1, <1>2, SourceServes DEF SrcRows
<1>4. unit[u].state \notin Committed BY <1>1, <1>2, <1>3 DEF RequestFits, UnitCancels
<1>5. src[u].unit \in Copyable \cup {"verified", "retained", "settled"} /\ src[u].file
  BY <1>3, <1>4 DEF SrcFits, SrcStates, Committed
<1>6. ASSUME NEW state \in {"retained", "settled"}, src' = [src EXCEPT ![u].unit = state],
             \/ src[u].unit \in {"retained", "settled"}
             \/ "source" \in halted /\ r.what = "retain",
             NEW phase, Finish("source", r, "ok", phase, 0)
      PROVE  ReadyInv'
  <2>1. /\ \A v \in Units \ {u} : src'[v] = src[v]
        /\ src'[u].unit = state /\ src'[u].receipt = src[u].receipt
        /\ src'[u].file = src[u].file /\ src'[u].entry = src[u].entry
    BY <1>3, <1>6, StateOfRow DEF SrcStates
  <2>2. SourceMove(u) BY <1>2, <1>3, <1>5, <1>6, <2>1 DEF SourceMove, Committed, Copyable
  <2>3. Heard(r, 0)' BY <1>1 DEF Heard
  <2> QED BY <1>1, <1>6, <2>1, <2>2, <2>3, SourceEnds
<1>7. ASSUME r # job, SourceRefuses PROVE ReadyInv'
  <2>1. src' = src /\ Finish("source", r, "refused", "unit_unavailable", 0)
    BY <1>0, <1>7 DEF SourceRefuses, Reply2
  <2>2. SourceMove(u) BY <2>1 DEF SourceMove
  <2> QED BY <1>1, <1>7, <2>1, <2>2, SourceEnds
<1>8. CASE Retain
  <2>0. r.what = "retain" BY <1>0, <1>8 DEF Retain, Does, Acts, Serving
  <2>1. CASE src[u].unit \in {"retained", "settled"}
    <3>1. PICK state : state = src[u].unit OBVIOUS
    <3> QED BY <1>0, <1>2, <1>6, <1>8, <2>1, <3>1 DEF Retain, SourceAnswers, Reply2
  <2>2. CASE src[u].unit \notin {"retained", "settled"} /\ Retainable(u)
    BY <1>0, <1>2, <1>5, <1>6, <1>8, <2>0, <2>2 DEF Retain, SourceAnswers, Reply2, Retainable
  <2>3. CASE src[u].unit \notin {"retained", "settled"} /\ ~Retainable(u)
    <3>1. SourceRefuses BY <1>0, <1>2, <1>8, <2>3 DEF Retain
    <3>2. r # job
      <4> SUFFICES ASSUME r = job PROVE FALSE OBVIOUS
      <4>1. "source" \in halted BY <1>3, <2>0 DEF ReadyInv, JobReady, Meets, UnitCancels
      <4>2. peer["source"].state \notin {"aborting", "aborted", "released", "prepared"}
        BY <1>3, <2>0, JobMembers DEF Aborts, Closings, Cancels, UnitCancels, Sides
      <4>3. peer["source"].state \in {"prepared", "active", "aborting", "aborted", "released"}
        BY DEF MigInv, PeerTypes, Peers, Sides
      <4> QED BY <1>5, <2>3, <4>1, <4>2, <4>3 DEF Retainable
    <3> QED BY <1>7, <3>1, <3>2
  <2> QED BY <2>1, <2>2, <2>3
<1>9. CASE SettleSource
  <2>0. r.what = "settle" BY <1>0, <1>9 DEF SettleSource, Does, Acts, Serving
  <2>1. src[u].unit \in {"retained", "settled"} BY <1>2, <1>3, <2>0 DEF RequestFits
  <2> QED BY <1>0, <1>2, <1>5, <1>6, <1>9, <2>1 DEF SettleSource, SourceAnswers, Reply2
<1> QED BY <1>8, <1>9

\* When the Master asks for a removal, every unit is closed at the Source.
LEMMA JobCleans ==
  ASSUME MigInv, ReadyInv, job # None, job \in Requests, job.what = "cleanup"
  PROVE  AllClosed
<1>1. Uncommitted = {} /\ Unacknowledged = {} /\ ~Aborting
  BY JobIsLast DEF RequestFits, ReadyInv, JobReady, Meets, Aborts
<1> SUFFICES ASSUME NEW u \in Units PROVE src[u].unit \in Committed \cup {"settled"} BY DEF AllClosed
<1>2. UnitReady(u) /\ Taken(u) BY DEF ReadyInv, UnitsReady, MigInv, UnitsFit
<1>3. CASE unit[u].state \in Committed
  <2>1. unit[u].acks = Sides BY <1>1, <1>3 DEF Unacknowledged
  <2>2. "source" \in unit[u].acks BY <2>1 DEF Sides
  <2> QED BY <1>2, <2>2 DEF UnitReady
<1>4. CASE unit[u].state = "cancelled"
  <2>1. peer["source"].state # "aborted" BY <1>1 DEF Aborting, Sides
  <2> QED BY <1>2, <1>4, <2>1 DEF Taken, Sides
<1> QED BY <1>1, <1>3, <1>4 DEF Uncommitted

\* The removal of an original finds each unit as its journal says.
LEMMA CleanupReady ==
  ASSUME MigInv, ReadyInv, UNCHANGED MasterRows, UNCHANGED halted,
         CleanupBegins \/ CleanupEnds \/ CleanupScan \/ UnlinkIntent \/ Unlink \/ RecordUnlink
  PROVE  ReadyInv'
<1>0. PICK r : r = work["source"].req OBVIOUS
<1>1. /\ work["source"] # None /\ r.what = "cleanup" /\ Alive("source", r)
      /\ UNCHANGED <<peer, tgt, net>>
  BY <1>0 DEF CleanupBegins, CleanupEnds, CleanupScan, UnlinkIntent, Unlink, RecordUnlink, Cleaning, Acts, Serving,
     Idle, callVars
<1>2. PICK u : u = r.unit OBVIOUS
<1>3. /\ u \in Units /\ r \in Pending /\ r \in Requests /\ r # None
      /\ src \in [Units -> SrcRows] /\ src[u] \in SrcRows /\ SrcFits(u) /\ UnitReady(u)
  BY <1>0, <1>1, <1>2, SourceServes
<1>4. ASSUME NEW row \in SrcRows, src' = [src EXCEPT ![u] = row],
             src[u].unit \in Committed => row.unit \in Committed,
             row.unit \in {"retained", "settled"} => row.unit = src[u].unit,
             row.receipt = src[u].receipt,
             row.entry = "none" => src[u].entry = "none" /\ row.file = src[u].file
      PROVE  /\ SourceMove(u) /\ src'[u] = row /\ \A v \in Units \ {u} : src'[v] = src[v]
  BY <1>3, <1>4 DEF SourceMove
<1>5. ASSUME \A v \in Units \ {u} : src'[v] = src[v], SourceMove(u),
             NEW kind, NEW phase, Finish("source", r, kind, phase, 0), r = job => kind # "refused"
      PROVE  ReadyInv'
  <2>1. Heard(r, 0)' BY <1>1 DEF Heard
  <2> QED BY <1>1, <1>5, <2>1, SourceEnds
<1>6. ASSUME NEW step, Step("source", step), answer' = answer,
             \A v \in Units \ {u} : src'[v] = src[v], SourceMove(u), src'[u].entry # "none"
      PROVE  ReadyInv'
  <2>1. Pending' \subseteq Pending /\ work'["source"].req = r
    BY <1>0, <1>1, <1>6, StepTakes DEF MigInv, Sides
  <2>2. ReadyMove BY <1>1, <1>6, <2>1, SourceRowMove
  <2>3. AnswerReady' BY <1>6, <2>2, AnswerReadyStays
  <2>4. WorkReady' BY <1>2, <1>6, <2>1 DEF WorkReady
  <2> QED BY <2>2, <2>3, <2>4, MoveReady DEF ReadyInv
<1>7. r = job => AllClosed BY <1>1, <1>3, JobCleans
<1>8. CASE CleanupBegins
  <2>1. CASE ~AllClosed
    <3>1. src' = src /\ Finish("source", r, "refused", "all_native_commits_required", 0)
      BY <1>0, <1>8, <2>1 DEF CleanupBegins, Cleans
    <3>2. SourceMove(u) BY <3>1 DEF SourceMove
    <3> QED BY <1>5, <1>7, <2>1, <3>1, <3>2
  <2>2. CASE AllClosed /\ src[u].unit = "committed"
    <3> DEFINE row == [src[u] EXCEPT !.unit = "cleanup_pending"]
    <3>1. src' = [src EXCEPT ![u] = row] /\ Finish("source", r, "ok", "verifying", 0)
      BY <1>0, <1>2, <1>3, <1>8, <2>2 DEF CleanupBegins, Cleans
    <3>2. /\ row \in SrcRows /\ row.unit = "cleanup_pending" /\ row.receipt = src[u].receipt
          /\ row.entry = src[u].entry /\ row.file = src[u].file
      BY <1>3 DEF SrcRows, SrcStates, Committed
    <3> HIDE DEF row
    <3>3. SourceMove(u) /\ \A v \in Units \ {u} : src'[v] = src[v] BY <1>4, <3>1, <3>2 DEF Committed
    <3> QED BY <1>5, <3>1, <3>3
  <2>3. CASE AllClosed /\ src[u].unit = "cleaned"
    <3>1. src' = src /\ Finish("source", r, "ok", "cleaned", 0)
      BY <1>0, <1>2, <1>8, <2>3 DEF CleanupBegins, Cleans
    <3>2. SourceMove(u) BY <3>1 DEF SourceMove
    <3> QED BY <1>5, <3>1, <3>2
  <2> QED BY <1>0, <1>2, <1>8, <2>1, <2>2, <2>3 DEF CleanupBegins
<1>9. CASE CleanupEnds
  <2> DEFINE row == [src[u] EXCEPT !.unit = "cleaned"]
  <2>1. src' = [src EXCEPT ![u] = row] /\ Finish("source", r, "ok", "cleaned", 0)
    BY <1>0, <1>2, <1>3, <1>9 DEF CleanupEnds, Cleans
  <2>2. /\ row \in SrcRows /\ row.unit = "cleaned" /\ row.receipt = src[u].receipt
        /\ row.entry = src[u].entry /\ row.file = src[u].file
    BY <1>3 DEF SrcRows, SrcStates, Committed
  <2> HIDE DEF row
  <2>3. SourceMove(u) /\ \A v \in Units \ {u} : src'[v] = src[v] BY <1>4, <2>1, <2>2 DEF Committed
  <2> QED BY <1>5, <2>1, <2>3
<1>10. CASE CleanupScan
  <2>1. Sound(u) BY <1>3 DEF Sound, SrcFits, UnitReady, SrcRows
  <2> DEFINE row == [src[u] EXCEPT !.scan = IF src[u].entry = "deleted" THEN "final" ELSE "ready",
                                   !.missing = src[u].entry = "deleting" /\ ~src[u].file]
  <2>2. src' = [src EXCEPT ![u] = row] /\ Finish("source", r, "ok", "ready", 0)
    BY <1>0, <1>2, <1>3, <1>10, <2>1 DEF CleanupScan, Cleans
  <2>3. (src[u].entry = "deleting" /\ ~src[u].file) \in BOOLEAN OBVIOUS
  <2>4. /\ row \in SrcRows /\ row.unit = src[u].unit /\ row.receipt = src[u].receipt
        /\ row.entry = src[u].entry /\ row.file = src[u].file
    BY <1>3, <2>3 DEF SrcRows
  <2> HIDE DEF row
  <2>5. SourceMove(u) /\ \A v \in Units \ {u} : src'[v] = src[v] BY <1>4, <2>2, <2>4
  <2> QED BY <1>5, <2>2, <2>5
<1>11. CASE UnlinkIntent
  <2> DEFINE row == [src[u] EXCEPT !.entry = "deleting"]
  <2>1. src' = [src EXCEPT ![u] = row] /\ Step("source", "unlink") /\ answer' = answer
    BY <1>0, <1>2, <1>3, <1>11 DEF UnlinkIntent, callVars
  <2>2. row \in SrcRows /\ row.unit = src[u].unit /\ row.receipt = src[u].receipt /\ row.entry = "deleting"
    BY <1>3 DEF SrcRows
  <2> HIDE DEF row
  <2>3. SourceMove(u) /\ src'[u] = row /\ \A v \in Units \ {u} : src'[v] = src[v] BY <1>4, <2>1, <2>2
  <2> QED BY <1>6, <2>1, <2>2, <2>3
<1>12. CASE Unlink
  <2>0. src[u].entry # "none" BY <1>0, <1>1, <1>2, <1>12 DEF Unlink, Cleaning, Acts, Serving, ReadyInv, WorkReady
  <2>1. CASE src[u].file \/ src[u].missing
    <3> DEFINE row == [src[u] EXCEPT !.file = FALSE]
    <3>1. src' = [src EXCEPT ![u] = row] /\ Step("source", "record") /\ answer' = answer
      BY <1>0, <1>2, <1>3, <1>12, <2>1 DEF Unlink
    <3>2. row \in SrcRows /\ row.unit = src[u].unit /\ row.receipt = src[u].receipt /\ row.entry = src[u].entry
      BY <1>3 DEF SrcRows
    <3> HIDE DEF row
    <3>3. SourceMove(u) /\ src'[u] = row /\ \A v \in Units \ {u} : src'[v] = src[v] BY <1>4, <2>0, <3>1, <3>2
    <3> QED BY <1>6, <2>0, <3>1, <3>2, <3>3
  <2>2. CASE ~(src[u].file \/ src[u].missing)
    <3> DEFINE row == [src[u] EXCEPT !.scan = "none"]
    <3>1. src' = [src EXCEPT ![u] = row] /\ Finish("source", r, "ok", "verifying", 0)
      BY <1>0, <1>2, <1>3, <1>12, <2>2 DEF Unlink, Cleans
    <3>2. row \in SrcRows /\ row.unit = src[u].unit /\ row.receipt = src[u].receipt /\ row.entry = src[u].entry
      BY <1>3 DEF SrcRows
    <3> HIDE DEF row
    <3>3. SourceMove(u) /\ \A v \in Units \ {u} : src'[v] = src[v] BY <1>4, <2>0, <3>1, <3>2
    <3> QED BY <1>5, <3>1, <3>3
  <2> QED BY <2>1, <2>2
<1>13. CASE RecordUnlink
  <2> DEFINE row == [src[u] EXCEPT !.entry = "deleted", !.scan = "none", !.missing = FALSE]
  <2>1. src' = [src EXCEPT ![u] = row] /\ Finish("source", r, "ok", "cleaning", 0)
    BY <1>0, <1>2, <1>3, <1>13 DEF RecordUnlink, Cleans
  <2>2. row \in SrcRows /\ row.unit = src[u].unit /\ row.receipt = src[u].receipt /\ row.entry = "deleted"
    BY <1>3 DEF SrcRows
  <2> HIDE DEF row
  <2>3. SourceMove(u) /\ \A v \in Units \ {u} : src'[v] = src[v] BY <1>4, <2>1, <2>2
  <2> QED BY <1>5, <2>1, <2>3
<1> QED BY <1>8, <1>9, <1>10, <1>11, <1>12, <1>13

-----------------------------------------------------------------------------
(* The handlers of the Target that write a row.                                *)

\* A handler of the Target that writes the row of its unit and answers.
LEMMA TargetEnds ==
  ASSUME MigInv, ReadyInv, UNCHANGED <<peer, src, net, halted, MasterRows>>,
         NEW u, \A v \in Units \ {u} : tgt'[v] = tgt[v], u \in Units => TargetMove(u),
         NEW r, NEW kind, NEW phase, NEW receipt, Finish("target", r, kind, phase, receipt),
         r = job => kind # "refused" /\ (kind = "ok" => Heard(r, receipt)')
  PROVE  ReadyInv'
<1>1. Pending' \subseteq Pending BY FinishTakes DEF MigInv, Sides
<1>2. ReadyMove BY <1>1, TargetRowMove
<1> QED BY <1>2, FinishReady DEF Sides

\* A handler of the Target that writes the row of its unit and takes its next step.
LEMMA TargetGoesReady ==
  ASSUME MigInv, ReadyInv, UNCHANGED <<peer, src, net, answer, halted, MasterRows>>,
         NEW u, \A v \in Units \ {u} : tgt'[v] = tgt[v], u \in Units => TargetMove(u),
         work["target"] # None, NEW step, Step("target", step)
  PROVE  ReadyInv'
<1>1. Pending' \subseteq Pending /\ work'["source"] = work["source"]
  BY StepTakes DEF MigInv, Sides
<1>2. ReadyMove BY <1>1, TargetRowMove
<1>3. AnswerReady' BY <1>2, AnswerReadyStays
<1>4. WorkReady' BY <1>1, <1>2, WorkReadyStays
<1> QED BY <1>2, <1>3, <1>4, MoveReady DEF ReadyInv

\* What the Target serves, and which call it is.
LEMMA TargetServes ==
  ASSUME MigInv, ReadyInv, NEW r, work["target"] # None, r = work["target"].req, Alive("target", r),
         r.what \in {"copy", "publish", "undo", "commit", "settle"}
  PROVE  LET u == r.unit IN
         /\ u \in Units /\ r \in Pending /\ r \in Requests /\ r # None /\ RequestFits(r) /\ r.to = "target"
         /\ tgt \in [Units -> TgtRows] /\ tgt[u] \in TgtRows /\ tgt[u].unit \in TgtStates
         /\ TgtFits(u) /\ Taken(u) /\ Given(u) /\ UnitReady(u)
         /\ r.what \in {"copy", "publish"} => tgt[u].entry \notin Undone
         /\ r.what = "undo" => tgt[u].unit # "committed"
<1>1. r \in Pending /\ r \in Requests /\ RequestFits(r) /\ r.to = "target" /\ r.unit \in Units
      /\ (r.what \in {"copy", "publish"} => tgt[r.unit].entry \notin Undone)
  BY ServedAtTarget
<1>2. r # None BY <1>1 DEF Requests, None
<1>3. tgt \in [Units -> TgtRows] BY DEF MigInv, PeerTypes
<1>4. tgt[r.unit] \in TgtRows /\ tgt[r.unit].unit \in TgtStates BY <1>1, <1>3 DEF TgtRows
<1>5. TgtFits(r.unit) /\ Taken(r.unit) /\ Given(r.unit) /\ UnitReady(r.unit)
  BY <1>1 DEF MigInv, MemberRows, UnitsFit, ReadyInv, UnitsReady
<1>6. r.what = "undo" => tgt[r.unit].unit # "committed"
  BY <1>1, <1>5 DEF RequestFits, UnitCancels, TgtFits, TgtRowFits
<1> QED BY <1>1, <1>2, <1>3, <1>4, <1>5, <1>6

\* Copying opens a unit that is empty, half received or complete.
LEMMA CopyReady ==
  ASSUME MigInv, ReadyInv, UNCHANGED MasterRows, UNCHANGED halted, CopyOpen
  PROVE  ReadyInv'
<1>0. PICK r : r = work["target"].req OBVIOUS
<1>1. /\ work["target"] # None /\ r.what = "copy" /\ Alive("target", r) /\ UNCHANGED <<peer, src, net>>
  BY <1>0 DEF CopyOpen, Acts, Serving, Idle
<1>2. PICK u : u = r.unit OBVIOUS
<1>3. /\ u \in Units /\ r \in Pending /\ r # None /\ tgt \in [Units -> TgtRows] /\ tgt[u] \in TgtRows /\ UnitReady(u)
      /\ tgt[u].entry \notin Undone
  BY <1>0, <1>1, <1>2, TargetServes
<1>4. CASE tgt[u].entry \in {"none", "receiving"}
  <2> DEFINE row == [tgt[u] EXCEPT !.entry = "receiving", !.file = "part"]
  <2>1. tgt' = [tgt EXCEPT ![u] = row] /\ Step("target", "fetch") /\ answer' = answer
    BY <1>0, <1>2, <1>3, <1>4 DEF CopyOpen
  <2>2. row.entry = "receiving" /\ row.unit = tgt[u].unit BY <1>3 DEF TgtRows
  <2> HIDE DEF row
  <2>3. tgt'[u] = row /\ \A v \in Units \ {u} : tgt'[v] = tgt[v] BY <1>3, <2>1
  <2>4. TargetMove(u) BY <1>4, <2>2, <2>3 DEF TargetMove, Unstarted, Placed, Passed
  <2> QED BY <1>1, <2>1, <2>3, <2>4, TargetGoesReady
<1>5. CASE tgt[u].entry = "verified"
  <2>1. tgt' = tgt /\ Finish("target", r, "ok", "verified", 0) BY <1>0, <1>2, <1>5 DEF CopyOpen
  <2>2. TargetMove(u) BY <1>3, <2>1 DEF TargetMove, UnitReady
  <2>3. Begun BY <1>3, <1>5 DEF UnitReady
  <2>4. Begun' BY <1>1, <2>3 DEF Begun
  <2>5. Heard(r, 0)' BY <1>1, <1>2, <1>5, <2>1, <2>4 DEF Heard, Unstarted
  <2> QED BY <1>1, <2>1, <2>2, <2>5, TargetEnds
<1>6. CASE tgt[u].entry \notin {"none", "receiving", "verified"}
  <2>1. tgt' = tgt /\ Finish("target", r, "refused", "journal_changed", 0) BY <1>0, <1>2, <1>6 DEF CopyOpen
  <2>2. TargetMove(u) BY <1>3, <2>1 DEF TargetMove, UnitReady
  <2>3. tgt[u].entry \in Placed BY <1>3, <1>6 DEF TgtRows, Placed
  <2>4. r # job BY <1>1, <1>2, <1>3, <2>3, JobUnits DEF Forwards
  <2> QED BY <1>1, <2>1, <2>2, <2>4, TargetEnds
<1> QED BY <1>4, <1>5, <1>6

\* A copy that arrives is complete, and both members had begun.
LEMMA FetchReady ==
  ASSUME MigInv, ReadyInv, UNCHANGED MasterRows, UNCHANGED halted, FetchEnds
  PROVE  ReadyInv'
<1>0. PICK r : r = work["target"].req OBVIOUS
<1>1. /\ work["target"] # None /\ r.what = "copy" /\ Alive("target", r) /\ UNCHANGED <<peer, src, net>>
      /\ work["source"] # None /\ work["source"].req = r /\ Alive("source", r)
      /\ work' = [s \in Sides |-> None] /\ Reply(r, "ok", "verified", 0)
  BY <1>0 DEF FetchEnds, Acts, Serving, Streaming, Idle
<1>2. PICK u : u = r.unit OBVIOUS
<1>3. u \in Units /\ tgt \in [Units -> TgtRows] /\ tgt[u] \in TgtRows
  BY <1>0, <1>1, <1>2, TargetServes
<1>4. Begun
  <2>1. \A s \in Sides : peer[s].what = "copy"
    BY <1>0, <1>1, AliveIsBound, PurposeIs DEF MigInv, Flow, Sides, Closings, Aborts, Kinds, Forwards
  <2> QED BY <2>1 DEF Begun, MigInv, Flow, BoundFits
<1> DEFINE row == [tgt[u] EXCEPT !.entry = "verified"]
<1>5. tgt' = [tgt EXCEPT ![u] = row] BY <1>0, <1>2, <1>3 DEF FetchEnds
<1>6. row.entry = "verified" /\ row.unit = tgt[u].unit BY <1>3 DEF TgtRows
<1> HIDE DEF row
<1>7. tgt'[u] = row /\ \A v \in Units \ {u} : tgt'[v] = tgt[v] BY <1>3, <1>5
<1>8. TargetMove(u) BY <1>4, <1>6, <1>7 DEF TargetMove, Unstarted, Placed, Passed
<1>9. Pending' \subseteq Pending /\ work'["source"] = None BY <1>1 DEF Pending, Sides
<1>10. ReadyMove BY <1>1, <1>7, <1>8, <1>9, TargetRowMove
<1>11. Begun' BY <1>1, <1>4 DEF Begun
<1>12. Heard(r, 0)' BY <1>1, <1>2, <1>6, <1>7, <1>11 DEF Heard, Unstarted
<1>13. AnswerReady' BY <1>1, <1>10, <1>12, ReplyReady
<1>14. WorkReady' BY <1>9, <1>10, WorkReadyStays
<1> QED BY <1>10, <1>13, <1>14, MoveReady DEF ReadyInv

\* Publication goes on from a complete copy, in its order.
LEMMA PublishReady ==
  ASSUME MigInv, ReadyInv, UNCHANGED MasterRows, UNCHANGED halted,
         Prepare \/ PublishStep \/ MoveDirectory \/ SaveMove
  PROVE  ReadyInv'
<1>0. PICK r : r = work["target"].req OBVIOUS
<1>1. /\ work["target"] # None /\ r.what = "publish" /\ Alive("target", r) /\ UNCHANGED <<peer, src, net>>
  BY <1>0 DEF Prepare, PublishStep, MoveDirectory, SaveMove, Acts, Serving, Idle, callVars
<1>2. PICK u : u = r.unit OBVIOUS
<1>3. /\ u \in Units /\ r \in Pending /\ r # None /\ tgt \in [Units -> TgtRows] /\ tgt[u] \in TgtRows /\ UnitReady(u)
      /\ tgt[u].entry \notin Undone
  BY <1>0, <1>1, <1>2, TargetServes
<1>4. ASSUME NEW row, tgt' = [tgt EXCEPT ![u] = row], row.unit \in Passed \ {"committed"},
             tgt[u].unit # "committed",
             \/ row.entry = tgt[u].entry
             \/ row.entry \in Placed /\ tgt[u].unit \in Passed
      PROVE  /\ TargetMove(u) /\ \A v \in Units \ {u} : tgt'[v] = tgt[v]
  BY <1>1, <1>2, <1>3, <1>4 DEF TargetMove, Passed, Gone, Placed, Unstarted, Copyable
<1>5. ASSUME \A v \in Units \ {u} : tgt'[v] = tgt[v], TargetMove(u),
             NEW phase, Finish("target", r, "ok", phase, 0)
      PROVE  ReadyInv'
  <2>1. Heard(r, 0)' BY <1>1 DEF Heard
  <2> QED BY <1>1, <1>5, <2>1, TargetEnds
<1>6. CASE Prepare
  <2>1. CASE tgt[u].unit \in Copyable /\ tgt[u].entry = "verified"
    <3> DEFINE row == [tgt[u] EXCEPT !.unit = "assembling"]
    <3>1. tgt' = [tgt EXCEPT ![u] = row] /\ Finish("target", r, "ok", "publishing", 0)
      BY <1>0, <1>2, <1>3, <1>6, <2>1 DEF Prepare
    <3>2. row.unit = "assembling" /\ row.entry = tgt[u].entry BY <1>3 DEF TgtRows
    <3> HIDE DEF row
    <3> QED BY <1>4, <1>5, <2>1, <3>1, <3>2 DEF Passed, Copyable
  <2>2. CASE ~(tgt[u].unit \in Copyable /\ tgt[u].entry = "verified")
    <3>1. tgt' = tgt /\ Finish("target", r, "refused", "metadata_incomplete", 0)
      BY <1>0, <1>2, <1>6, <2>2 DEF Prepare
    <3>2. TargetMove(u) BY <1>3, <3>1 DEF TargetMove, UnitReady
    <3>3. r # job
      <4> SUFFICES ASSUME r = job PROVE FALSE OBVIOUS
      <4>1. tgt[u].unit \in Copyable \cup {"committed"} BY <1>0, <1>2, <1>6 DEF Prepare
      <4>2. tgt[u].unit # "committed" /\ tgt[u].entry \notin Unstarted
        BY <1>1, <1>2, <1>3, JobUnits DEF Forwards
      <4>3. tgt[u].entry \notin Placed BY <1>3, <4>1, <4>2 DEF UnitReady
      <4> QED BY <1>3, <2>2, <4>1, <4>2, <4>3 DEF TgtRows, Unstarted, Placed
    <3> QED BY <1>1, <3>1, <3>2, <3>3, TargetEnds
  <2> QED BY <2>1, <2>2
<1>7. CASE PublishStep
  <2> DEFINE phase == NextPhase[tgt[u].unit]
             entry == IF tgt[u].unit = "assembling" THEN "publishing"
                      ELSE IF tgt[u].unit = "registering" THEN "published" ELSE tgt[u].entry
             row == [tgt[u] EXCEPT !.unit = phase, !.entry = entry]
  <2>1. tgt[u].unit \in {"assembling", "registering", "scanning", "published"}
    BY <1>0, <1>2, <1>7 DEF PublishStep, NextPhase
  <2>2. phase \in {"moving", "scanning", "published"} BY <2>1 DEF NextPhase
  <2>3. tgt' = [tgt EXCEPT ![u] = row] BY <1>0, <1>2, <1>3, <1>7 DEF PublishStep
  <2>4. PICK said : Finish("target", r, "ok", said, 0) BY <1>0, <1>7 DEF PublishStep
  <2>5. row.unit = phase /\ row.entry = entry BY <1>3 DEF TgtRows
  <2>6. entry = tgt[u].entry \/ entry \in Placed BY DEF Placed
  <2> HIDE DEF row, phase, entry
  <2> QED BY <1>4, <1>5, <2>1, <2>2, <2>3, <2>4, <2>5, <2>6 DEF Passed
<1>8. CASE MoveDirectory
  <2> DEFINE row == [tgt[u] EXCEPT !.file = "public"]
  <2>1. tgt' = [tgt EXCEPT ![u] = row] /\ Step("target", "moved") /\ answer' = answer /\ tgt[u].unit = "moving"
    BY <1>0, <1>2, <1>3, <1>8 DEF MoveDirectory, callVars
  <2>2. row.unit = tgt[u].unit /\ row.entry = tgt[u].entry BY <1>3 DEF TgtRows
  <2> HIDE DEF row
  <2>3. TargetMove(u) /\ \A v \in Units \ {u} : tgt'[v] = tgt[v] BY <1>4, <2>1, <2>2 DEF Passed
  <2> QED BY <1>1, <2>1, <2>3, TargetGoesReady
<1>9. CASE SaveMove
  <2> DEFINE row == [tgt[u] EXCEPT !.unit = "registering"]
  <2>1. tgt' = [tgt EXCEPT ![u] = row] /\ Finish("target", r, "ok", "publishing", 0)
    BY <1>0, <1>2, <1>3, <1>9 DEF SaveMove
  <2>2. row.unit = "registering" /\ row.entry = tgt[u].entry BY <1>3 DEF TgtRows
  <2>3. tgt[u].unit = "moving"
    BY <1>0, <1>1, <1>2, <1>9 DEF SaveMove, Acts, Serving, MigInv, MemberRows, TargetWork
  <2> HIDE DEF row
  <2> QED BY <1>4, <1>5, <2>1, <2>2, <2>3 DEF Passed
<1> QED BY <1>6, <1>7, <1>8, <1>9

\* The Target acknowledges a unit that moved, and settles one that was taken back.
LEMMA TargetAccountsReady ==
  ASSUME MigInv, ReadyInv, UNCHANGED MasterRows, UNCHANGED halted, AcknowledgeTarget \/ SettleTarget
  PROVE  ReadyInv'
<1>0. PICK r : r = work["target"].req OBVIOUS
<1>1. /\ work["target"] # None /\ r.what \in {"commit", "settle"} /\ Alive("target", r)
      /\ UNCHANGED <<peer, src, net>>
  BY <1>0 DEF AcknowledgeTarget, SettleTarget, Does, Acts, Serving, Idle, Rest
<1>2. PICK u : u = r.unit OBVIOUS
<1>3. /\ u \in Units /\ r \in Pending /\ r \in Requests /\ r # None /\ RequestFits(r) /\ r.to = "target"
      /\ tgt \in [Units -> TgtRows] /\ tgt[u] \in TgtRows /\ TgtFits(u) /\ Given(u) /\ UnitReady(u)
  BY <1>0, <1>1, <1>2, TargetServes
<1>4. ASSUME NEW state, tgt' = [tgt EXCEPT ![u].unit = state],
             \/ state = "committed" /\ tgt[u].unit = "published"
             \/ state = "settled" /\ tgt[u].unit \in Gone
      PROVE  /\ TargetMove(u) /\ tgt'[u].unit = state /\ \A v \in Units \ {u} : tgt'[v] = tgt[v]
  <2> DEFINE row == [tgt[u] EXCEPT !.unit = state]
  <2>1. tgt' = [tgt EXCEPT ![u] = row] BY <1>3, <1>4
  <2>2. row.unit = state /\ row.entry = tgt[u].entry BY <1>3 DEF TgtRows
  <2> HIDE DEF row
  <2>3. tgt'[u] = row /\ \A v \in Units \ {u} : tgt'[v] = tgt[v] BY <1>3, <2>1
  <2> QED BY <1>3, <1>4, <2>2, <2>3 DEF TargetMove, Passed, Gone, Copyable, UnitReady
<1>5. ASSUME tgt' = tgt PROVE TargetMove(u) BY <1>3, <1>5 DEF TargetMove, UnitReady
<1>6. CASE AcknowledgeTarget
  <2>1. r.what = "commit" BY <1>0, <1>6 DEF AcknowledgeTarget, Acts, Serving
  <2>2. unit[u].state \in Committed /\ u \in Moved BY <1>2, <1>3, <2>1 DEF RequestFits, Moved
  <2>3. tgt[u].unit \in {"published", "committed"} BY <1>3, <2>2 DEF Given
  <2> DEFINE S == NativeCommitted("target")
  <2>4. S \in SUBSET Moved
    BY DEF NativeCommitted, Moved, MigInv, MemberRows, TgtFits, TgtRowFits
  <2>5. Moved' = Moved BY DEF Moved, MasterRows
  <2>6. CASE tgt[u].unit = "published"
    <3>1. tgt' = [tgt EXCEPT ![u].unit = "committed"] BY <1>0, <1>2, <1>6, <2>6 DEF AcknowledgeTarget
    <3>2. PICK n : n = Cardinality(S) + 1 OBVIOUS
    <3>3. Finish("target", r, "ok", "acknowledged", n) BY <1>0, <1>2, <1>6, <2>6, <3>2 DEF AcknowledgeTarget
    <3>4. TargetMove(u) /\ tgt'[u].unit = "committed" /\ \A v \in Units \ {u} : tgt'[v] = tgt[v]
      BY <1>4, <2>6, <3>1
    <3>5. n \in 1..Cardinality(Moved)
      <4>1. u \notin S BY <2>6 DEF NativeCommitted
      <4>2. S \in SUBSET Units BY DEF NativeCommitted
      <4>3. Cardinality(S \cup {u}) = n BY <1>3, <3>2, <4>1, <4>2, OneMore
      <4>4. S \cup {u} \in SUBSET Moved BY <2>2, <2>4
      <4> QED BY <4>3, <4>4, CountsMoved
    <3>6. Heard(r, n)' BY <1>2, <1>3, <2>1, <2>5, <3>4, <3>5 DEF Heard
    <3> QED BY <1>1, <3>3, <3>4, <3>6, TargetEnds
  <2>7. CASE tgt[u].unit = "committed"
    <3>1. PICK n : n = Cardinality(S) OBVIOUS
    <3>2. Finish("target", r, "ok", "acknowledged", n) /\ tgt' = tgt
      BY <1>0, <1>2, <1>6, <2>7, <3>1 DEF AcknowledgeTarget
    <3>3. n \in 1..Cardinality(Moved)
      <4>1. u \in S BY <1>3, <2>7 DEF NativeCommitted
      <4> QED BY <2>4, <3>1, <4>1, CountsMoved
    <3>4. Heard(r, n)' BY <1>2, <1>3, <2>1, <2>5, <2>7, <3>2, <3>3 DEF Heard
    <3> QED BY <1>1, <1>5, <3>2, <3>4, TargetEnds
  <2> QED BY <2>3, <2>6, <2>7
<1>7. CASE SettleTarget
  <2>1. r.what = "settle" BY <1>0, <1>7 DEF SettleTarget, Does, Acts, Serving
  <2>2. tgt[u].unit \in Gone /\ tgt[u].file = "none"
    BY <1>2, <1>3, <2>1 DEF RequestFits, TgtFits, TgtRowFits
  <2>3. Heard(r, 0)' BY <2>1 DEF Heard
  <2>4. CASE tgt[u].unit = "settled"
    <3>1. tgt' = tgt /\ Finish("target", r, "ok", "settled", 0)
      BY <1>0, <1>2, <1>7, <2>4 DEF SettleTarget, Reply2
    <3> QED BY <1>1, <1>5, <2>3, <3>1, TargetEnds
  <2>5. CASE tgt[u].unit = "cancelled" /\ native.reserved = N - Cardinality(TargetReleased)
    <3>1. tgt' = [tgt EXCEPT ![u].unit = "settled"] /\ Finish("target", r, "ok", "settled", 0)
      BY <1>0, <1>2, <1>7, <2>2, <2>5 DEF SettleTarget, Reply2
    <3>2. TargetMove(u) /\ \A v \in Units \ {u} : tgt'[v] = tgt[v] BY <1>4, <2>2, <3>1
    <3> QED BY <1>1, <2>3, <3>1, <3>2, TargetEnds
  <2>6. CASE tgt[u].unit # "settled" /\ native.reserved # N - Cardinality(TargetReleased)
    <3>1. tgt' = tgt /\ Finish("target", r, "refused", "unit_not_cancelled", 0)
      BY <1>0, <1>2, <1>7, <2>6 DEF SettleTarget, Reply2
    <3>2. r # job
      <4>1. peer["target"].state = "aborted" BY <2>6 DEF MigInv, BooksAgree
      <4> QED BY <1>3, <2>1, <4>1, JobMembers DEF Aborts, Sides
    <3> QED BY <1>1, <1>5, <3>1, <3>2, TargetEnds
  <2> QED BY <2>2, <2>4, <2>5, <2>6 DEF Gone
<1> QED BY <1>6, <1>7

\* A unit is taken back from what it is, and is gone only at the end of an undo.
LEMMA UndoReady ==
  ASSUME MigInv, ReadyInv, UNCHANGED MasterRows, UNCHANGED halted,
         UndoIntent \/ DiscardIntent \/ UndoUnlink \/ UndoRecord \/ DiscardRecord \/ UndoDirectory
         \/ UndoFinish \/ DiscardFinish
  PROVE  ReadyInv'
<1>0. PICK r : r = work["target"].req OBVIOUS
<1>1. /\ work["target"] # None /\ r.what = "undo" /\ Alive("target", r)
      /\ UNCHANGED <<peer, src, net>>
  BY <1>0 DEF UndoIntent, DiscardIntent, UndoUnlink, UndoRecord, DiscardRecord, UndoDirectory,
       UndoFinish, DiscardFinish, UndoAnswers, Unwinds, Undoes, Acts, Serving, Idle, Rest
<1>2. PICK u : u = r.unit OBVIOUS
<1>3. /\ u \in Units /\ r \in Pending /\ tgt \in [Units -> TgtRows] /\ tgt[u] \in TgtRows
      /\ tgt[u].unit # "committed" /\ UnitReady(u)
  BY <1>0, <1>1, <1>2, TargetServes
<1>4. Undoing = u BY <1>0, <1>2 DEF Undoing
<1>5. ASSUME NEW row, tgt' = [tgt EXCEPT ![u] = row], row.unit \in {tgt[u].unit, "cancelled"},
             row.entry \in Undone \cup {tgt[u].entry}, row.unit = tgt[u].unit \/ row.entry \in Undone
      PROVE  TargetMove(u) /\ \A v \in Units \ {u} : tgt'[v] = tgt[v]
  <2>1. tgt'[u] = row /\ \A v \in Units \ {u} : tgt'[v] = tgt[v] BY <1>3, <1>5
  <2> QED BY <1>1, <1>3, <1>5, <2>1
    DEF TargetMove, Passed, Gone, Copyable, Unstarted, Placed, Undone, UnitReady
<1>6. ASSUME NEW entries, NEW entry \in Undone, Unwinds(u, "begin", entries, entry, "unlink")
      PROVE  ReadyInv'
  <2> DEFINE row == [tgt[u] EXCEPT !.entry = entry]
  <2>1. tgt' = [tgt EXCEPT ![u] = row] /\ Step("target", "unlink") /\ answer' = answer
    BY <1>3, <1>6 DEF Unwinds
  <2>2. row.unit = tgt[u].unit /\ row.entry = entry BY <1>3 DEF TgtRows
  <2> HIDE DEF row
  <2>3. TargetMove(u) /\ \A v \in Units \ {u} : tgt'[v] = tgt[v] BY <1>5, <2>1, <2>2
  <2> QED BY <1>1, <2>1, <2>3, TargetGoesReady
<1>7. ASSUME NEW row, NEW phase, UndoAnswers(u, row, phase), row.unit \in {tgt[u].unit, "cancelled"},
             row.entry \in Undone \cup {tgt[u].entry}, row.unit = tgt[u].unit \/ row.entry \in Undone
      PROVE  ReadyInv'
  <2>1. tgt' = [tgt EXCEPT ![u] = row] /\ Finish("target", r, "ok", phase, 0)
    BY <1>0, <1>7 DEF UndoAnswers, Reply2
  <2>2. TargetMove(u) /\ \A v \in Units \ {u} : tgt'[v] = tgt[v] BY <1>5, <1>7, <2>1
  <2>3. Heard(r, 0)' BY <1>1 DEF Heard
  <2> QED BY <1>1, <2>1, <2>2, <2>3, TargetEnds
<1>8. CASE UndoIntent \/ DiscardIntent BY <1>4, <1>6, <1>8 DEF UndoIntent, DiscardIntent, Undone
<1>9. CASE UndoUnlink
  <2> DEFINE row == [tgt[u] EXCEPT !.file = "none"]
  <2>1. tgt' = [tgt EXCEPT ![u] = row] /\ Step("target", "record") /\ answer' = answer
    BY <1>3, <1>4, <1>9 DEF UndoUnlink
  <2>2. row.unit = tgt[u].unit /\ row.entry = tgt[u].entry BY <1>3 DEF TgtRows
  <2> HIDE DEF row
  <2>3. TargetMove(u) /\ \A v \in Units \ {u} : tgt'[v] = tgt[v] BY <1>5, <2>1, <2>2
  <2> QED BY <1>1, <2>1, <2>3, TargetGoesReady
<1>10. ASSUME NEW entry \in Undone, NEW phase, UndoAnswers(u, [tgt[u] EXCEPT !.entry = entry], phase)
       PROVE  ReadyInv'
  <2> DEFINE row == [tgt[u] EXCEPT !.entry = entry]
  <2>1. row.unit = tgt[u].unit /\ row.entry = entry BY <1>3 DEF TgtRows
  <2>2. UndoAnswers(u, row, phase) BY <1>10
  <2> HIDE DEF row
  <2> QED BY <1>7, <2>1, <2>2
<1>11. CASE UndoRecord \/ DiscardRecord
  BY <1>4, <1>10, <1>11 DEF UndoRecord, DiscardRecord, Undone
<1>12. CASE UndoDirectory
  <2>1. PICK entry \in {"removed", "dropped"} : UndoAnswers(u, [tgt[u] EXCEPT !.entry = entry], "receipt")
    BY <1>3, <1>4, <1>12 DEF UndoDirectory, TgtRows
  <2> QED BY <1>10, <2>1 DEF Undone
<1>13. CASE UndoFinish \/ DiscardFinish
  <2> DEFINE row == [tgt[u] EXCEPT !.unit = "cancelled"]
  <2>1. UndoAnswers(u, row, "cancelled") /\ tgt[u].entry \in {"removed", "dropped"}
    BY <1>4, <1>13 DEF UndoFinish, DiscardFinish
  <2>2. row.unit = "cancelled" /\ row.entry = tgt[u].entry BY <1>3 DEF TgtRows
  <2> HIDE DEF row
  <2> QED BY <1>7, <2>1, <2>2 DEF Undone
<1> QED BY <1>8, <1>9, <1>11, <1>12, <1>13

\* The private copies of an aborted task are touched by nobody else.
LEMMA AbortMovesReady ==
  ASSUME MigInv, ReadyInv, UNCHANGED MasterRows, UNCHANGED halted,
         AbortIntent \/ AbortUnlink \/ AbortRecord \/ AbortDirectory
  PROVE  ReadyInv'
<1>0. PICK r : r = work["target"].req OBVIOUS
<1>1. /\ work["target"] # None /\ r.what = "abort_clean" /\ UNCHANGED <<peer, src, net>>
      /\ r # None /\ r.to \in Sides /\ peer["target"].state = "aborting"
  BY <1>0, WorkIsRequest DEF AbortIntent, AbortUnlink, AbortRecord, AbortDirectory, Cleans2, Acts, Serving, Idle, Rest,
       MigInv, Sides, Requests, None
<1>2. tgt \in [Units -> TgtRows] /\ \A u \in Units : tgt[u].unit \in Copyable
  BY <1>1 DEF MigInv, PeerTypes, MemberRows, AbortFits
<1>3. ASSUME NEW u \in Units, NEW row, tgt' = [tgt EXCEPT ![u] = row], row.unit = tgt[u].unit, row.entry \in Undone
      PROVE  TargetMove(u) /\ \A v \in Units \ {u} : tgt'[v] = tgt[v]
  <2>1. tgt'[u] = row /\ \A v \in Units \ {u} : tgt'[v] = tgt[v] BY <1>2, <1>3
  <2> QED BY <1>2, <1>3, <2>1 DEF TargetMove, Passed, Gone, Copyable, Unstarted, Placed, Undone
<1>4. Heard(r, 0)' BY <1>1 DEF Heard
<1>5. ASSUME NEW u \in Units, NEW row, tgt' = [tgt EXCEPT ![u] = row], row.unit = tgt[u].unit, row.entry \in Undone,
             \/ \E step : Step("target", step) /\ answer' = answer
             \/ \E phase : Finish("target", r, "ok", phase, 0)
      PROVE  ReadyInv'
  <2>1. TargetMove(u) /\ \A v \in Units \ {u} : tgt'[v] = tgt[v] BY <1>3, <1>5
  <2>2. ASSUME NEW step, Step("target", step), answer' = answer PROVE ReadyInv'
    BY <1>1, <2>1, <2>2, TargetGoesReady
  <2>3. ASSUME NEW phase, Finish("target", r, "ok", phase, 0) PROVE ReadyInv'
    BY <1>1, <1>4, <2>1, <2>3, TargetEnds
  <2> QED BY <1>5, <2>2, <2>3
<1>6. ASSUME NEW u \in Units, NEW entry \in Undone, tgt' = [tgt EXCEPT ![u].entry = entry],
             \/ \E step : Step("target", step) /\ answer' = answer
             \/ \E phase : Finish("target", r, "ok", phase, 0)
      PROVE  ReadyInv'
  <2> DEFINE row == [tgt[u] EXCEPT !.entry = entry]
  <2>1. tgt' = [tgt EXCEPT ![u] = row] BY <1>2, <1>6
  <2>2. row.unit = tgt[u].unit /\ row.entry = entry BY <1>2 DEF TgtRows
  <2> HIDE DEF row
  <2> QED BY <1>5, <1>6, <2>1, <2>2
<1>7. CASE AbortIntent
  <2>1. PICK u \in Units : u = First(Staged) BY <1>7, FirstIsIn DEF AbortIntent, Staged
  <2>2. tgt' = [tgt EXCEPT ![u].entry = "aborting"] /\ Step("target", "unlink") /\ answer' = answer
    BY <1>7, <2>1 DEF AbortIntent
  <2> QED BY <1>6, <2>2 DEF Undone
<1>8. CASE AbortUnlink
  <2>0. Staged # {} /\ tgt[First(Staged)].entry = "aborting"
    BY <1>0, <1>1, <1>8 DEF AbortUnlink, Cleans2, Acts, Serving, MigInv, MemberRows, TargetWork
  <2>1. PICK u \in Units : u = First(Staged) BY <2>0, FirstIsIn DEF Staged
  <2> DEFINE row == [tgt[u] EXCEPT !.file = "none"]
  <2>2. tgt' = [tgt EXCEPT ![u] = row] /\ Step("target", "record") /\ answer' = answer
    BY <1>2, <1>8, <2>1 DEF AbortUnlink
  <2>3. row.unit = tgt[u].unit /\ row.entry = "aborting" BY <1>2, <2>0, <2>1 DEF TgtRows
  <2> HIDE DEF row
  <2> QED BY <1>5, <2>2, <2>3 DEF Undone
<1>9. CASE AbortRecord
  <2>0. Staged # {}
    BY <1>0, <1>1, <1>9 DEF AbortRecord, Cleans2, Acts, Serving, MigInv, MemberRows, TargetWork
  <2>1. PICK u \in Units : u = First(Staged) BY <2>0, FirstIsIn DEF Staged
  <2>2. tgt' = [tgt EXCEPT ![u].entry = "aborted"] /\ Finish("target", r, "ok", "cleaning", 0)
    BY <1>0, <1>9, <2>1 DEF AbortRecord, Reply2
  <2> QED BY <1>6, <2>2 DEF Undone
<1>10. CASE AbortDirectory
  <2>1. PICK u \in Units : u = First(Unswept) BY <1>10, FirstIsIn DEF AbortDirectory, Unswept
  <2>2. tgt' = [tgt EXCEPT ![u].entry = "removed"] /\ Finish("target", r, "ok", "cleaning", 0)
    BY <1>0, <1>10, <2>1 DEF AbortDirectory, Reply2
  <2> QED BY <1>6, <2>2 DEF Undone
<1> QED BY <1>7, <1>8, <1>9, <1>10

-----------------------------------------------------------------------------
(* The members' own states: what binds them, releases them, or ends them.      *)

\* A member that binds a pending request goes on, or is turned back by one that may.
LEMMA BindMove ==
  ASSUME MigInv, ReadyInv, UNCHANGED MasterRows, UNCHANGED halted, NEW s \in Sides, NEW r \in Pending,
         r.to = s \/ (r.what = "copy" /\ s = "source"), Bindable(s, r), Bind(s, r), Pending' \subseteq Pending
  PROVE  ReadyMove
<1>1. r \in Requests BY PendingAreRequests DEF MigInv
<1>2. Shaped(r) BY DEF MigInv, RequestsFit, RequestFits
<1>3. /\ \A t \in Sides \ {s} : peer'[t] = peer[t]
      /\ peer[s].state \in {"released", "aborted"} => peer'[s] = peer[s]
      /\ peer[s].state \notin {"released", "aborted"} =>
           peer'[s].state = IF r.what \in {"copy", "publish"} THEN "active"
                            ELSE IF r.what \in Aborts THEN "aborting" ELSE peer[s].state
      /\ \A u \in Units :
           /\ src'[u].receipt = src[u].receipt /\ src'[u].file = src[u].file /\ src'[u].entry = src[u].entry
           /\ tgt'[u].entry = tgt[u].entry
           /\ src'[u].unit = src[u].unit \/ (src[u].unit \in Copyable \cup {"verified"} /\ src'[u].unit = "copying")
           /\ tgt'[u].unit = tgt[u].unit \/ (tgt[u].unit \in Copyable /\ tgt'[u].unit = "copying")
  BY <1>1, <1>2, BindIs DEF MigInv
<1>4. \A t \in Sides :
        /\ peer[t].state # "prepared" => peer'[t].state # "prepared"
        /\ peer[t].state = "aborted" => peer'[t].state = "aborted"
        /\ peer'[t].state \in {"aborting", "aborted"} => Aborting
  <2>1. \A t \in Sides : peer[t].state \in {"aborting", "aborted"} => Aborting BY DEF Aborting
  <2>2. r.what \in Aborts => Aborting BY DEF Aborting
  <2>3. CASE peer[s].state \in {"released", "aborted"} BY <1>3, <2>1, <2>3
  <2>4. CASE peer[s].state \notin {"released", "aborted"} /\ r.what \in Aborts
    BY <1>3, <2>1, <2>2, <2>4 DEF Aborts
  <2>5. CASE peer[s].state \notin {"released", "aborted"} /\ r.what \notin Aborts
    BY <1>3, <2>1, <2>5
  <2> QED BY <2>3, <2>4, <2>5
<1>5. ASSUME NEW u \in Units PROVE SourceMove(u) /\ TargetMove(u)
  <2>1. UnitReady(u) BY DEF ReadyInv, UnitsReady
  <2> QED BY <1>3, <2>1 DEF SourceMove, TargetMove, Committed, Copyable, Passed, Gone, UnitReady
<1> QED BY <1>4, <1>5 DEF ReadyMove

\* A request arrives: the awaited one is bound, or must wait for another.
LEMMA ReceiveReady ==
  ASSUME MigInv, ReadyInv, UNCHANGED MasterRows, UNCHANGED halted, NEW r \in net, Receive(r)
  PROVE  ReadyInv'
<1> DEFINE s == r.to
<1>1. r \in Pending BY DEF Pending
<1>2. r \in Requests /\ r # None /\ s \in Sides BY <1>1, PendingAreRequests DEF MigInv, Requests, None
<1>3. net' = net \ {r} BY DEF Receive
<1> HIDE DEF s
<1>4. ASSUME UNCHANGED <<peer, src, tgt, work>>, NEW kind, NEW phase, Reply(r, kind, phase, 0), kind # "ok",
             r = job => kind # "refused"
      PROVE  ReadyInv'
  <2>1. Pending' \subseteq Pending BY <1>3, <1>4 DEF Pending
  <2>2. ReadyMove BY <1>4, <2>1, StillMove
  <2>3. AnswerReady' BY <1>4, <2>2, ReplyReady
  <2>4. WorkReady' BY <1>4, <2>2, WorkReadyStays
  <2> QED BY <2>2, <2>3, <2>4, MoveReady DEF ReadyInv
<1>5. CASE UNCHANGED peerVars /\ \E kind \in {"wait", "writer_active"} : Reply(r, kind, "busy", 0)
  BY <1>4, <1>5 DEF peerVars
<1>6. CASE ~Bindable(s, r) /\ UNCHANGED peerVars /\ Reply(r, "refused", "bind", 0)
  <2>1. r # job BY <1>1, <1>2, <1>6, JobBinds DEF s
  <2> QED BY <1>4, <1>6, <2>1 DEF peerVars
<1>7. CASE Bindable(s, r) /\ Bind(s, r) /\ UNCHANGED work /\ Reply(r, "wait", "waiting_writer", 0)
  <2>1. Pending' \subseteq Pending BY <1>3, <1>7 DEF Pending
  <2>2. ReadyMove BY <1>1, <1>2, <1>7, <2>1, BindMove DEF s
  <2>3. AnswerReady' BY <1>7, <2>2, ReplyReady
  <2>4. WorkReady' BY <1>7, <2>2, WorkReadyStays
  <2> QED BY <2>2, <2>3, <2>4, MoveReady DEF ReadyInv
<1>8. CASE /\ Bindable(s, r) /\ Bind(s, r) /\ answer' = answer
           /\ work' = [work EXCEPT ![s] = [kind |-> "work", req |-> r, step |-> "begin"]]
  <2>0. /\ work'[s].req = r /\ work'[s].step = "begin" /\ \A t \in Sides \ {s} : work'[t] = work[t]
    BY <1>2, <1>8 DEF MigInv, PeerTypes
  <2>1. Pending' \subseteq Pending BY <1>1, <1>3, <2>0 DEF Pending
  <2>2. ReadyMove BY <1>1, <1>2, <1>8, <2>1, BindMove DEF s
  <2>3. AnswerReady' BY <1>8, <2>2, AnswerReadyStays
  <2>4. WorkReady' BY <2>0, <2>2, WorkReadyStays DEF Sides
  <2> QED BY <2>2, <2>3, <2>4, MoveReady DEF ReadyInv
<1> QED BY <1>5, <1>6, <1>7, <1>8 DEF Receive, s

\* The forwarded copy is bound by the Source as well, if the Master still waits for it.
LEMMA FetchOpensReady ==
  ASSUME MigInv, ReadyInv, UNCHANGED MasterRows, UNCHANGED halted, FetchBegins
  PROVE  ReadyInv'
<1>0. PICK r : r = work["target"].req OBVIOUS
<1>1. /\ work["target"] # None /\ r.what = "copy" /\ UNCHANGED net
  BY <1>0 DEF FetchBegins, Acts, Serving, Idle
<1>2. r \in Requests /\ r \in Pending /\ r # None
  BY <1>0, <1>1, WorkIsRequest DEF MigInv, Sides, Requests, None
<1>3. ASSUME NEW kind, NEW phase, Finish("target", r, kind, phase, 0), ReadyMove, kind # "ok",
             r = job => kind # "refused"
      PROVE  ReadyInv'
  BY <1>3, FinishReady DEF Sides
<1>4. CASE ~Bindable("source", r) /\ Finish("target", r, "refused", "bind", 0) /\ UNCHANGED <<peer, src, tgt>>
  <2>1. Pending' \subseteq Pending BY <1>1, <1>4, FinishTakes DEF MigInv, Sides
  <2>2. ReadyMove BY <1>4, <2>1, StillMove
  <2>3. r # job BY <1>1, <1>2, <1>4, JobBinds DEF Sides
  <2> QED BY <1>3, <1>4, <2>2, <2>3
<1>5. CASE Bindable("source", r) /\ Bind("source", r) /\ Finish("target", r, "wait", "busy", 0)
  <2>1. Pending' \subseteq Pending BY <1>1, <1>5, FinishTakes DEF MigInv, Sides
  <2>2. ReadyMove BY <1>1, <1>2, <1>5, <2>1, BindMove DEF Sides
  <2> QED BY <1>3, <1>5, <2>2
<1>6. CASE /\ Bindable("source", r) /\ Bind("source", r) /\ answer' = answer
           /\ work' = [work EXCEPT !["target"].step = "receive",
                                   !["source"] = [kind |-> "work", req |-> r, step |-> "stream"]]
  <2>0. work'["source"].step = "stream" /\ work'["source"].req = r /\ work'["target"].req = r
    <3>1. work["target"] \in Works BY <1>1, WorkIsRequest DEF MigInv, Sides
    <3> QED BY <1>0, <1>6, <3>1 DEF MigInv, PeerTypes, Works, Sides
  <2>1. Pending' \subseteq Pending BY <1>1, <1>2, <2>0 DEF Pending, Sides
  <2>2. ReadyMove BY <1>1, <1>2, <1>6, <2>1, BindMove DEF Sides
  <2>3. AnswerReady' BY <1>6, <2>2, AnswerReadyStays
  <2>4. WorkReady' BY <2>0, <2>2, WorkReadyStays
  <2> QED BY <2>2, <2>3, <2>4, MoveReady DEF ReadyInv
<1> QED BY <1>0, <1>4, <1>5, <1>6 DEF FetchBegins

\* A member that ends its part, released or aborted, and answers.
LEMMA MemberEnds ==
  ASSUME MigInv, ReadyInv, UNCHANGED <<src, tgt, net, halted, MasterRows>>, NEW s \in Sides, NEW state,
         \/ peer' = peer
         \/ /\ peer' = [peer EXCEPT ![s].state = state]
            /\ \/ state = "released" /\ peer[s].state # "aborted"
               \/ state = "aborted" /\ peer[s].state \in {"aborting", "aborted"},
         NEW r, NEW kind, NEW phase, Finish(s, r, kind, phase, 0),
         r = job => kind # "refused", r.what \notin {"copy", "commit", "stop", "abort_stop"}
  PROVE  ReadyInv'
<1>1. Pending' \subseteq Pending BY FinishTakes DEF MigInv
<1>2. Heard(r, 0)' BY DEF Heard
<1>3. CASE peer' = peer
  <2>1. ReadyMove BY <1>1, <1>3, StillMove
  <2> QED BY <1>2, <2>1, FinishReady
<1>4. CASE /\ peer' = [peer EXCEPT ![s].state = state]
           /\ \/ state = "released" /\ peer[s].state # "aborted"
              \/ state = "aborted" /\ peer[s].state \in {"aborting", "aborted"}
  <2> DEFINE row == [peer[s] EXCEPT !.state = state]
  <2>0. peer \in [Sides -> Peers] /\ peer[s] \in Peers BY DEF MigInv, PeerTypes
  <2>1. peer' = [peer EXCEPT ![s] = row] BY <1>4, <2>0
  <2>2. row.state = state BY <2>0 DEF Peers
  <2> HIDE DEF row
  <2>3. peer'[s].state = state /\ \A t \in Sides \ {s} : peer'[t] = peer[t] BY <2>0, <2>1, <2>2
  <2>4. \A t \in Sides :
          /\ peer[t].state # "prepared" => peer'[t].state # "prepared"
          /\ peer[t].state = "aborted" => peer'[t].state = "aborted"
          /\ peer'[t].state \in {"aborting", "aborted"} => Aborting
    BY <1>4, <2>3 DEF Aborting
  <2>5. ASSUME NEW u \in Units PROVE SourceMove(u) /\ TargetMove(u)
    BY DEF SourceMove, TargetMove, ReadyInv, UnitsReady, UnitReady
  <2>6. ReadyMove BY <1>1, <2>4, <2>5 DEF ReadyMove
  <2> QED BY <1>2, <2>6, FinishReady
<1> QED BY <1>3, <1>4

\* A member asked to finalize finds all its units done.
LEMMA JobCensus ==
  ASSUME MigInv, ReadyInv, job # None, job \in Requests, job.what = "finalize", NEW s \in Sides
  PROVE  CensusHolds(s)
<1>1. Uncleaned = {} /\ Moved = Units /\ Unacknowledged = {}
  BY JobIsLast DEF RequestFits, ReadyInv, JobReady, Meets
<1>2. ASSUME NEW u \in Units
      PROVE  src[u].unit = "cleaned" /\ ~src[u].file /\ tgt[u].unit = "committed" /\ tgt[u].file = "public"
  <2>1. SrcFits(u) /\ Given(u) /\ UnitReady(u)
    BY DEF MigInv, MemberRows, UnitsFit, ReadyInv, UnitsReady
  <2>2. unit[u].state = "cleaned" BY <1>1 DEF Uncleaned, Moved, Committed
  <2> QED BY <2>1, <2>2 DEF SrcFits, Given, UnitReady, Committed, Sides
<1> QED BY <1>2 DEF CensusHolds, Sides

\* The members are released, and none that should be is refused.
LEMMA ReleasesReady ==
  ASSUME MigInv, ReadyInv, UNCHANGED MasterRows, UNCHANGED halted,
         (\E s \in Sides : Finalize(s) \/ AbortRelease(s)) \/ ReleaseSource \/ ReleaseTarget
  PROVE  ReadyInv'
<1>1. ASSUME NEW s \in Sides, work[s] # None, work[s].req.what \in {"finalize", "release", "close"}
      PROVE  peer[s].state # "aborted" /\ work[s].req \in Requests /\ work[s].req # None
  BY <1>1, WorkIsRequest DEF MigInv, Flow, BoundFits, Aborts, Requests, None
<1>2. ASSUME NEW s \in Sides, Finalize(s) PROVE ReadyInv'
  <2>0. PICK r : r = work[s].req OBVIOUS
  <2>1. /\ work[s] # None /\ r.what = "finalize" /\ UNCHANGED <<src, tgt, net>>
    BY <1>2, <2>0 DEF Finalize, Acts, Serving, Idle
  <2>2. peer[s].state # "aborted" /\ r \in Requests /\ r # None BY <1>1, <2>0, <2>1
  <2>3. CASE peer' = [peer EXCEPT ![s].state = "released"] /\ Finish(s, r, "ok", "released", 0)
    BY <2>1, <2>2, <2>3, MemberEnds
  <2>4. CASE ~CensusHolds(s) /\ peer' = peer /\ Finish(s, r, "refused", "native_work_incomplete", 0)
    <3>1. r # job BY <2>1, <2>2, <2>4, JobCensus
    <3> QED BY <2>1, <2>4, <3>1, MemberEnds
  <2> QED BY <1>2, <2>0, <2>3, <2>4 DEF Finalize
<1>3. ASSUME NEW s \in Sides, AbortRelease(s) PROVE ReadyInv'
  <2>0. PICK r : r = work[s].req OBVIOUS
  <2>1. r.what = "abort_clean" /\ UNCHANGED <<src, tgt, net>> /\ Finish(s, r, "ok", "aborted", 0)
    BY <1>3, <2>0 DEF AbortRelease, Acts, Serving, Idle, Reply2, Rest
  <2>2. \/ peer' = peer
        \/ peer' = [peer EXCEPT ![s].state = "aborted"] /\ peer[s].state = "aborting"
    BY <1>3 DEF AbortRelease, Cleans2
  <2> QED BY <2>1, <2>2, MemberEnds
<1>4. CASE ReleaseSource
  <2>0. PICK r : r = work["source"].req OBVIOUS
  <2>1. /\ work["source"] # None /\ r.what = "release" /\ UNCHANGED <<src, tgt, net>>
    BY <1>4, <2>0 DEF ReleaseSource, Does, Acts, Serving, Idle, Rest
  <2>2. peer["source"].state # "aborted" BY <1>1, <2>0, <2>1 DEF Sides
  <2>3. CASE peer' = [peer EXCEPT !["source"].state = "released"] /\ Finish("source", r, "ok", "released", 0)
    BY <2>1, <2>2, <2>3, MemberEnds DEF Sides
  <2>4. CASE peer' = peer /\ Finish("source", r, "census_lost", "", 0)
    BY <2>1, <2>4, MemberEnds DEF Sides
  <2> QED BY <1>4, <2>0, <2>3, <2>4 DEF ReleaseSource, Reply2
<1>5. CASE ReleaseTarget
  <2>0. PICK r : r = work["target"].req OBVIOUS
  <2>1. /\ work["target"] # None /\ r.what = "close" /\ UNCHANGED <<src, tgt, net>>
    BY <1>5, <2>0 DEF ReleaseTarget, Does, Acts, Serving, Idle, Rest
  <2>2. peer["target"].state # "aborted" /\ r \in Requests /\ r # None BY <1>1, <2>0, <2>1 DEF Sides
  <2>3. CASE peer' = [peer EXCEPT !["target"].state = "released"] /\ Finish("target", r, "ok", "released", 0)
    BY <2>1, <2>2, <2>3, MemberEnds DEF Sides
  <2>4. CASE peer' = peer /\ Finish("target", r, "ok", "prepared", 0)
    BY <2>1, <2>4, MemberEnds DEF Sides
  <2>5. CASE ~TargetClosed /\ peer' = peer /\ Finish("target", r, "refused", "work_incomplete", 0)
    <3>1. r # job BY <2>1, <2>2, <2>5, JobClosing DEF Closings
    <3> QED BY <2>1, <2>5, <3>1, MemberEnds DEF Sides
  <2> QED BY <1>5, <2>0, <2>3, <2>4, <2>5 DEF ReleaseTarget, Reply2
<1> QED BY <1>2, <1>3, <1>4, <1>5

-----------------------------------------------------------------------------
\* Every step of a member, and every fault of one, keeps what the calls need.
LEMMA MembersReady ==
  ASSUME MigInv, ReadyInv, UNCHANGED MasterRows,
         \/ (PeerStep \/ PeerFault \/ ProofRunsOut("target", "undo")) /\ UNCHANGED cancelPeerVars
         \/ CancelPeerStep \/ SourceRestarts
  PROVE  ReadyInv'
<1>1. CASE PeerStep /\ UNCHANGED cancelPeerVars
  <2>1. UNCHANGED halted BY <1>1 DEF cancelPeerVars
  <2> QED
    BY <1>1, <2>1, ReceiveReady, ReleasesReady, AnswersReady, LossesReady, CopyReady, FetchOpensReady, FetchReady,
       PublishReady, VerifyReady, TargetAccountsReady, SourceAckReady, CleanupReady
    DEF PeerStep
<1>2. CASE (PeerFault \/ ProofRunsOut("target", "undo")) /\ UNCHANGED cancelPeerVars
  <2>1. UNCHANGED halted BY <1>2 DEF cancelPeerVars
  <2> QED BY <1>2, <2>1, AnswersReady, LossesReady DEF PeerFault, CleanupProofExpires
<1>3. CASE CancelPeerStep
  <2>1. ASSUME NEW s \in Sides, StopMember(s) \/ AbortStop(s) PROVE ReadyInv' BY <2>1, StopsReady
  <2>2. CASE \E s \in Sides : AbortRefused(s)
    <3>1. UNCHANGED halted BY <2>2 DEF AbortRefused, cancelPeerVars
    <3> QED BY <2>2, <3>1, AnswersReady
  <2>3. CASE (\E s \in Sides : AbortRelease(s)) \/ ReleaseSource \/ ReleaseTarget
    <3>1. UNCHANGED halted BY <2>3 DEF AbortRelease, ReleaseSource, ReleaseTarget, cancelPeerVars
    <3> QED BY <2>3, <3>1, ReleasesReady
  <2>4. CASE UndoReplay \/ QueryRelease \/ CensusStarts \/ CensusRoster \/ CensusPhysical
    <3>1. UNCHANGED halted
      BY <2>4 DEF UndoReplay, QueryRelease, CensusStarts, CensusRoster, CensusPhysical, Counts, SourceRefuses,
           cancelPeerVars
    <3> QED BY <2>4, <3>1, AnswersReady
  <2>5. CASE UndoIntent \/ DiscardIntent \/ UndoUnlink \/ UndoRecord \/ DiscardRecord \/ UndoDirectory
             \/ UndoFinish \/ DiscardFinish
    <3>1. UNCHANGED halted
      BY <2>5 DEF UndoIntent, DiscardIntent, UndoUnlink, UndoRecord, DiscardRecord, UndoDirectory, UndoFinish,
           DiscardFinish, Unwinds, UndoAnswers, cancelPeerVars
    <3> QED BY <2>5, <3>1, UndoReady
  <2>6. CASE Retain \/ SettleSource \/ ProveRetained \/ SettleTarget
    <3>1. UNCHANGED halted
      BY <2>6 DEF Retain, SettleSource, ProveRetained, SettleTarget, SourceAnswers, SourceRefuses, cancelPeerVars
    <3> QED BY <2>6, <3>1, RetainReady, VerifyReady, TargetAccountsReady
  <2>7. CASE AbortIntent \/ AbortUnlink \/ AbortRecord \/ AbortDirectory
    <3>1. UNCHANGED halted BY <2>7 DEF AbortIntent, AbortUnlink, AbortRecord, AbortDirectory, cancelPeerVars
    <3> QED BY <2>7, <3>1, AbortMovesReady
  <2> QED BY <1>3, <2>1, <2>2, <2>3, <2>4, <2>5, <2>6, <2>7 DEF CancelPeerStep
<1>4. CASE SourceRestarts
  <2>1. UNCHANGED halted BY <1>4 DEF SourceRestarts
  <2> QED BY <1>4, <2>1, LossesReady
<1> QED BY <1>1, <1>2, <1>3, <1>4
=============================================================================
