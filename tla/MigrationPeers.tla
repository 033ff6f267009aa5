--------------------------- MODULE MigrationPeers ---------------------------
(***************************************************************************)
(* The two storage members of a resource migration: the Source that owns   *)
(* the originals and the Target that receives the copies, and the signed   *)
(* requests the Master sends them.  Migration adds the Master.             *)
(*                                                                         *)
(* Every request carries a grant: the epoch of the Master's runner and a   *)
(* purpose.  A member binds the grant into its own row before it acts and  *)
(* compares it again before each write, so a request that arrives after a  *)
(* newer runner was heard is refused.  A member serves one request at a    *)
(* time (source_lock, target_lock) and refuses the others as busy.         *)
(*                                                                         *)
(* A unit is one immediate parent directory; its roster is abstracted to   *)
(* one object, so a page of a scan and the whole scan are the same step.   *)
(***************************************************************************)
EXTENDS Naturals, FiniteSets

CONSTANTS
  N,          \* number of units, numbered in the order of their unit_id
  MaxFaults   \* bound on crashes, losses, delays and interventions

ASSUME CountsAssumption == N \in Nat \ {0} /\ MaxFaults \in Nat

VARIABLES
  peer,       \* each member's reservation row: state, bound epoch and purpose
  src,        \* the Source's unit rows, intents and original files
  tgt,        \* the Target's unit rows, staging journal and copied files
  native,     \* the Target's own counters of this task, in units
  net,        \* requests sent and not yet received
  work,       \* the request whose handler holds the member's lock
  job,        \* what the Master's scheduler is waiting for
  answer,     \* what the awaited call returned
  faults      \* how many faults have happened

peerVars == <<peer, src, tgt, native, work>>
callVars == <<net, job, answer>>

Units == 1..N
Sides == {"source", "target"}
Copyable == {"pending", "copying"}
Committed == {"committed", "cleanup_pending", "cleaned"}

None == [kind |-> "none"]
Request(to, what, u, epoch, receipt) ==
  [kind |-> "request", to |-> to, what |-> what, unit |-> u, epoch |-> epoch, receipt |-> receipt]

PeersInit ==
  /\ peer = [s \in Sides |-> [state |-> "prepared", epoch |-> 1, what |-> "probe"]]
  /\ src = [u \in Units |->
       [unit |-> "pending", receipt |-> 0, file |-> TRUE, entry |-> "none", scan |-> "none", missing |-> FALSE]]
  /\ tgt = [u \in Units |-> [unit |-> "pending", entry |-> "none", file |-> "none"]]
  /\ native = [reserved |-> N, used |-> 0]
  /\ net = {}
  /\ work = [s \in Sides |-> None]
  /\ job = None
  /\ answer = None
  /\ faults = 0

Fault == faults < MaxFaults /\ faults' = faults + 1

-----------------------------------------------------------------------------
(* Locks, grants and replies.                                              *)

Idle(s) == work[s] = None
Serving(s, what, step) ==
  ~Idle(s) /\ work[s].req.what = what /\ work[s].step = step

(* The purpose a grant names.  The cancellation's requests share three. *)
Purpose(what) ==
  CASE what \in {"stop", "undo", "retain", "settle"} -> "cancel"
    [] what \in {"finalize", "query", "census", "release", "close"} -> "finalize"
    [] what \in {"abort_stop", "abort_clean"} -> "abort"
    [] what = "prove" -> "verify"
    [] OTHER -> what

(* Requests that take the grant away from a running handler before they    *)
(* look at its lock.                                                       *)
BindsFirst(r) == Purpose(r.what) \in {"cancel", "abort"}

Bound(r) == CASE Purpose(r.what) = "finalize" -> {"active", "released"}
              [] Purpose(r.what) = "abort" -> {"prepared", "active", "aborting", "aborted"}
              [] OTHER -> {"prepared", "active"}

(* Nothing of the task was published on this member. *)
Private(s) ==
  \A u \in Units : IF s = "source" THEN src[u].unit \in Copyable \cup {"verified"}
                   ELSE /\ tgt[u].unit \in Copyable
                        /\ tgt[u].entry \notin {"publishing", "published"}

(* Mutant: a request of an older runner is served. *)
BindableLate(s, r) ==
  /\ peer[s].state \in Bound(r)
  /\ Purpose(r.what) = "abort" => peer[s].state = "aborted" \/ Private(s)
  /\ r.what = "copy" => IF s = "source"
                          THEN src[r.unit].unit \in Copyable \cup {"verified"} /\ src[r.unit].receipt = 0
                          ELSE tgt[r.unit].unit \in Copyable

(* What _bind demands of a request.  Copying also demands an open unit, and *)
(* of the Source that the unit was not verified for publication yet.       *)
Bindable(s, r) ==
  /\ peer[s].state \in Bound(r)
  /\ r.epoch >= peer[s].epoch \/ peer[s].state = "aborted"
  /\ Purpose(r.what) = "abort" => peer[s].state = "aborted" \/ Private(s)
  /\ r.what = "copy" => IF s = "source"
                          THEN src[r.unit].unit \in Copyable \cup {"verified"} /\ src[r.unit].receipt = 0
                          ELSE tgt[r.unit].unit \in Copyable

Bind(s, r) ==
  /\ peer' = [peer EXCEPT ![s] =
       IF @.state \in {"released", "aborted"} THEN @
       ELSE [epoch |-> r.epoch, what |-> Purpose(r.what),
             state |-> IF r.what \in {"copy", "publish"} THEN "active"
                       ELSE IF Purpose(r.what) = "abort" THEN "aborting" ELSE @.state]]
  /\ src' = IF r.what = "copy" /\ s = "source" THEN [src EXCEPT ![r.unit].unit = "copying"] ELSE src
  /\ tgt' = IF r.what = "copy" /\ s = "target" THEN [tgt EXCEPT ![r.unit].unit = "copying"] ELSE tgt

(* Is the grant still the one the member bound last? *)
Alive(s, r) ==
  \/ peer[s].state \in {"released", "aborted"}
  \/ peer[s].epoch = r.epoch /\ peer[s].what = Purpose(r.what)

(* A reply reaches the Master only if it still waits for this very call. *)
Reply(r, kind, phase, receipt) ==
  answer' = IF job = r THEN [kind |-> kind, phase |-> phase, receipt |-> receipt] ELSE answer

Finish(s, r, kind, phase, receipt) ==
  /\ work' = [work EXCEPT ![s] = None]
  /\ Reply(r, kind, phase, receipt)

Step(s, step) == work' = [work EXCEPT ![s].step = step]

(* A handler acts at its next step only under a live grant. *)
Acts(s, what, step) ==
  Serving(s, what, step) /\ Alive(s, work[s].req)

-----------------------------------------------------------------------------
(* Arrival of a request.                                                   *)

Receive(r) ==
  LET s == r.to IN
  /\ r \in net
  /\ net' = net \ {r}
  /\ \/ /\ ~Idle(s) /\ ~BindsFirst(r)
        /\ Reply(r, IF r.what = "commit" THEN "writer_active" ELSE "wait", "busy", 0)
        /\ UNCHANGED peerVars
     \/ /\ ~Idle(s) /\ BindsFirst(r) /\ Bindable(s, r)
        /\ Bind(s, r)
        /\ Reply(r, "wait", "waiting_writer", 0)
        /\ UNCHANGED <<native, work>>
     \/ /\ Idle(s) \/ BindsFirst(r)
        /\ ~Bindable(s, r)
        /\ Reply(r, "refused", "bind", 0)
        /\ UNCHANGED peerVars
     \/ /\ Idle(s) /\ Bindable(s, r)
        /\ Bind(s, r)
        /\ work' = [work EXCEPT ![s] = [kind |-> "work", req |-> r, step |-> "begin"]]
        /\ UNCHANGED <<native, answer>>
  /\ UNCHANGED <<job, faults>>

(* A handler ends between two steps: its grant is no longer the one bound   *)
(* last, or traffic, readers or its window do not let it go on.            *)
GiveUp(s) ==
  /\ ~Idle(s) /\ work[s].step # "stream"
  /\ IF Alive(s, work[s].req) THEN Fault ELSE UNCHANGED faults
  /\ Finish(s, work[s].req, "wait", "window_expired", 0)
  /\ UNCHANGED <<peer, src, tgt, native, net, job>>

(* A member's process dies: its rows and files stay, its handler is gone. *)
PeerCrash(s) ==
  /\ ~Idle(s) /\ Fault
  /\ work' = [work EXCEPT ![s] = None]
  /\ UNCHANGED <<peer, src, tgt, native, callVars>>

(* A request is lost on its way. *)
Lose(r) ==
  /\ r \in net /\ Fault
  /\ net' = net \ {r}
  /\ UNCHANGED <<peerVars, job, answer>>

-----------------------------------------------------------------------------
(* Copying: the Target pulls the object from the Source.                   *)

CopyOpen ==
  LET r == work["target"].req  u == r.unit IN
  /\ Acts("target", "copy", "begin")
  /\ \/ /\ tgt[u].entry \in {"none", "receiving"}
        /\ tgt' = [tgt EXCEPT ![u].entry = "receiving", ![u].file = "part"]
        /\ Step("target", "fetch")
        /\ UNCHANGED answer
     \/ /\ tgt[u].entry = "verified"
        /\ Finish("target", r, "ok", "verified", 0)
        /\ UNCHANGED tgt
     \/ /\ tgt[u].entry \notin {"none", "receiving", "verified"}
        /\ Finish("target", r, "refused", "journal_changed", 0)
        /\ UNCHANGED tgt
  /\ UNCHANGED <<peer, src, native, net, job, faults>>

(* The Source binds the forwarded grant before it looks at its lock. *)
FetchBegins ==
  LET r == work["target"].req IN
  /\ Acts("target", "copy", "fetch")
  /\ \/ /\ ~Bindable("source", r)
        /\ Finish("target", r, "refused", "bind", 0)
        /\ UNCHANGED <<peer, src, tgt>>
     \/ /\ Bindable("source", r) /\ ~Idle("source")
        /\ Bind("source", r)
        /\ Finish("target", r, "wait", "busy", 0)
     \/ /\ Bindable("source", r) /\ Idle("source")
        /\ Bind("source", r)
        /\ work' = [work EXCEPT !["target"].step = "receive",
                                !["source"] = [kind |-> "work", req |-> r, step |-> "stream"]]
        /\ UNCHANGED answer
  /\ UNCHANGED <<native, net, job, faults>>

Streaming == Serving("source", "copy", "stream") /\ work["source"].req = work["target"].req

FetchEnds ==
  LET r == work["target"].req IN
  /\ Acts("target", "copy", "receive") /\ Streaming /\ Alive("source", r)
  /\ work' = [s \in Sides |-> None]
  /\ tgt' = [tgt EXCEPT ![r.unit].entry = "verified"]
  /\ Reply(r, "ok", "verified", 0)
  /\ UNCHANGED <<peer, src, native, net, job, faults>>

(* Either end of the stream notices that the other one is gone. *)
FetchBreaks ==
  /\ Acts("target", "copy", "receive") /\ ~(Streaming /\ Alive("source", work["target"].req))
  /\ Finish("target", work["target"].req, "wait", "direct_unavailable", 0)
  /\ UNCHANGED <<peer, src, tgt, native, net, job, faults>>

StreamEnds ==
  /\ Serving("source", "copy", "stream")
  /\ ~(Serving("target", "copy", "receive") /\ Streaming)
  /\ work' = [work EXCEPT !["source"] = None]
  /\ UNCHANGED <<peer, src, tgt, native, callVars, faults>>

-----------------------------------------------------------------------------
(* Publication on the Target, one bounded step per request.                *)

(* Mutant: the directory is registered without being moved. *)
NextPhaseUnmoved == [assembling |-> "registering", registering |-> "scanning", scanning |-> "published",
                     published |-> "scanning"]

(* Preparing the private directory, linking every object into it and        *)
(* scanning it are one phase; a repeated proof scans the public one again. *)
NextPhase == [assembling |-> "moving", registering |-> "scanning", scanning |-> "published",
              published |-> "scanning"]

(* Publication starts from a complete verified roster. *)
Prepare ==
  LET r == work["target"].req  u == r.unit IN
  /\ Acts("target", "publish", "begin") /\ tgt[u].unit \in Copyable \cup {"committed"}
  /\ IF tgt[u].unit \in Copyable /\ tgt[u].entry = "verified"
       THEN tgt' = [tgt EXCEPT ![u].unit = "assembling"] /\ Finish("target", r, "ok", "publishing", 0)
       ELSE Finish("target", r, "refused", "metadata_incomplete", 0) /\ UNCHANGED tgt
  /\ UNCHANGED <<peer, src, native, net, job, faults>>

PublishStep ==
  LET r == work["target"].req  u == r.unit  phase == NextPhase[tgt[u].unit] IN
  /\ Acts("target", "publish", "begin") /\ tgt[u].unit \in DOMAIN NextPhase
  /\ tgt' = [tgt EXCEPT ![u].unit = phase,
                        ![u].entry = IF tgt[u].unit = "assembling" THEN "publishing"
                                     ELSE IF tgt[u].unit = "registering" THEN "published" ELSE @]
  /\ Finish("target", r, "ok", IF phase = "published" THEN "published" ELSE "publishing", 0)
  /\ UNCHANGED <<peer, src, native, net, job, faults>>

(* The rename and the row that records it; a repetition finds it done. *)
MoveDirectory ==
  LET u == work["target"].req.unit IN
  /\ Acts("target", "publish", "begin") /\ tgt[u].unit = "moving"
  /\ tgt' = [tgt EXCEPT ![u].file = "public"]
  /\ Step("target", "moved")
  /\ UNCHANGED <<peer, src, native, callVars, faults>>

SaveMove ==
  LET r == work["target"].req IN
  /\ Acts("target", "publish", "moved")
  /\ tgt' = [tgt EXCEPT ![r.unit].unit = "registering"]
  /\ Finish("target", r, "ok", "publishing", 0)
  /\ UNCHANGED <<peer, src, native, net, job, faults>>

-----------------------------------------------------------------------------
(* Verification of the Source, acknowledgement, inspection of the Target.  *)

(* Every verification writes a new receipt: it holds the time it was made. *)
VerifySource ==
  LET r == work["source"].req  u == r.unit
      ready == /\ peer["source"].state = "active"
               /\ src[u].unit \in Copyable \cup {"verified"} /\ src[u].file IN
  /\ Acts("source", "verify", "begin")
  /\ IF ready
       THEN /\ src' = [src EXCEPT ![u].unit = "verified", ![u].receipt = @ + 1]
            /\ Finish("source", r, "ok", "verified", src[u].receipt + 1)
       ELSE Finish("source", r, "refused", "unit_unavailable", 0) /\ UNCHANGED src
  /\ UNCHANGED <<peer, tgt, native, net, job, faults>>

NativeCommitted(s) ==
  IF s = "source" THEN {u \in Units : src[u].unit \in Committed}
                  ELSE {u \in Units : tgt[u].unit = "committed"}

AcknowledgeTarget ==
  LET r == work["target"].req  u == r.unit IN
  /\ Acts("target", "commit", "begin")
  /\ \/ /\ tgt[u].unit = "published" /\ native.reserved >= 1
        /\ tgt' = [tgt EXCEPT ![u].unit = "committed"]
        /\ native' = [reserved |-> native.reserved - 1, used |-> native.used + 1]
        /\ Finish("target", r, "ok", "acknowledged", Cardinality(NativeCommitted("target")) + 1)
     \/ /\ tgt[u].unit = "committed"
        /\ Finish("target", r, "ok", "acknowledged", Cardinality(NativeCommitted("target")))
        /\ UNCHANGED <<tgt, native>>
     \/ /\ tgt[u].unit \notin {"published", "committed"}
        /\ Finish("target", r, "refused", "native_proof_missing", 0)
        /\ UNCHANGED <<tgt, native>>
  /\ UNCHANGED <<peer, src, net, job, faults>>

AcknowledgeSource ==
  LET r == work["source"].req  u == r.unit
      proven == src[u].unit = "verified" /\ src[u].receipt = r.receipt IN
  /\ Acts("source", "commit", "begin")
  /\ \/ /\ proven
        /\ src' = [src EXCEPT ![u].unit = "committed"]
        /\ Finish("source", r, "ok", "acknowledged", Cardinality(NativeCommitted("source")) + 1)
     \/ /\ src[u].unit \in Committed /\ src[u].receipt = r.receipt
        /\ Finish("source", r, "ok", "acknowledged", Cardinality(NativeCommitted("source")))
        /\ UNCHANGED src
     \/ /\ ~proven /\ ~(src[u].unit \in Committed /\ src[u].receipt = r.receipt)
        /\ Finish("source", r, "refused", "native_proof_changed", 0)
        /\ UNCHANGED src
  /\ UNCHANGED <<peer, tgt, native, net, job, faults>>

InspectTarget ==
  LET r == work["target"].req
      intact == tgt[r.unit].unit = "committed" /\ tgt[r.unit].file = "public" IN
  /\ Acts("target", "inspect", "begin")
  /\ Finish("target", r, IF intact THEN "ok" ELSE "refused", "verified", 0)
  /\ UNCHANGED <<peer, src, tgt, native, net, job, faults>>

-----------------------------------------------------------------------------
(* Removal of the originals on the Source.                                 *)

Cleaning(step) == Acts("source", "cleanup", step)
Cleans(u, kind, phase) == Finish("source", work["source"].req, kind, phase, 0)

(* The other member's proof a request carries expires while it is served.  *)
(* Readers that come back under a Target's undo (where GiveUp would have it *)
(* wait) are answered the same way: with a code that is not retried.       *)
ProofRunsOut(s, what) ==
  /\ ~Idle(s) /\ work[s].req.what = what /\ Fault
  /\ Finish(s, work[s].req, "proof_expired", "", 0)
  /\ UNCHANGED <<peer, src, tgt, native, net, job>>

CleanupProofExpires == ProofRunsOut("source", "cleanup")

(* No unit waits for its owner: all are committed, or cancelled and settled. *)
AllClosed == \A u \in Units : src[u].unit \in Committed \cup {"settled"}

CleanupBegins ==
  LET u == work["source"].req.unit IN
  /\ Cleaning("begin")
  /\ \/ /\ ~AllClosed
        /\ Cleans(u, "refused", "all_native_commits_required")
        /\ UNCHANGED src
     \/ /\ AllClosed /\ src[u].unit = "committed"
        /\ src' = [src EXCEPT ![u].unit = "cleanup_pending"]
        /\ Cleans(u, "ok", "verifying")
     \/ /\ AllClosed /\ src[u].unit = "cleaned"
        /\ Cleans(u, "ok", "cleaned")
        /\ UNCHANGED src
  /\ UNCHANGED <<peer, tgt, native, net, job, faults>>

(* An original may be missing only under an intent that was not completed. *)
Sound(u) ==
  CASE src[u].entry = "none" -> src[u].file
    [] src[u].entry = "deleting" -> TRUE
    [] src[u].entry = "deleted" -> ~src[u].file

(* The scan compares each original with its intent. *)
CleanupScan ==
  LET u == work["source"].req.unit IN
  /\ Cleaning("begin") /\ AllClosed
  /\ src[u].unit = "cleanup_pending" /\ src[u].scan = "none"
  /\ IF Sound(u)
       THEN /\ src' = [src EXCEPT
                 ![u].scan = IF src[u].entry = "deleted" THEN "final" ELSE "ready",
                 ![u].missing = src[u].entry = "deleting" /\ ~src[u].file]
            /\ Cleans(u, "ok", "ready")
       ELSE Cleans(u, "refused", "missing_without_intent") /\ UNCHANGED src
  /\ UNCHANGED <<peer, tgt, native, net, job, faults>>

(* Mutant: any complete scan ends the cleaning, not only an empty one. *)
CleanupEndsEarly ==
  LET u == work["source"].req.unit IN
  /\ Cleaning("begin") /\ AllClosed
  /\ src[u].unit = "cleanup_pending" /\ src[u].scan # "none"
  /\ src' = [src EXCEPT ![u].unit = "cleaned"]
  /\ Cleans(u, "ok", "cleaned")
  /\ UNCHANGED <<peer, tgt, native, net, job, faults>>

CleanupEnds ==
  LET u == work["source"].req.unit IN
  /\ Cleaning("begin") /\ AllClosed
  /\ src[u].unit = "cleanup_pending" /\ src[u].scan = "final"
  /\ src' = [src EXCEPT ![u].unit = "cleaned"]
  /\ Cleans(u, "ok", "cleaned")
  /\ UNCHANGED <<peer, tgt, native, net, job, faults>>

(* The intent is durable before the file goes. *)
UnlinkIntent ==
  LET u == work["source"].req.unit IN
  /\ Cleaning("begin") /\ AllClosed
  /\ src[u].unit = "cleanup_pending" /\ src[u].scan = "ready"
  /\ src' = [src EXCEPT ![u].entry = "deleting"]
  /\ Step("source", "unlink")
  /\ UNCHANGED <<peer, tgt, native, callVars, faults>>

(* A directory that no longer matches the scan asks for another scan. *)
Unlink ==
  LET u == work["source"].req.unit IN
  /\ Cleaning("unlink")
  /\ IF src[u].file \/ src[u].missing
       THEN /\ src' = [src EXCEPT ![u].file = FALSE]
            /\ Step("source", "record")
            /\ UNCHANGED answer
       ELSE /\ src' = [src EXCEPT ![u].scan = "none"]
            /\ Cleans(u, "ok", "verifying")
  /\ UNCHANGED <<peer, tgt, native, net, job, faults>>

RecordUnlink ==
  LET u == work["source"].req.unit IN
  /\ Cleaning("record")
  /\ src' = [src EXCEPT ![u].entry = "deleted", ![u].scan = "none", ![u].missing = FALSE]
  /\ Cleans(u, "ok", "cleaning")
  /\ UNCHANGED <<peer, tgt, native, net, job, faults>>

-----------------------------------------------------------------------------
(* Release of a member's fences, after its own census.                     *)

CensusHolds(s) ==
  IF s = "source" THEN \A u \in Units : src[u].unit = "cleaned" /\ ~src[u].file
                  ELSE \A u \in Units : tgt[u].unit = "committed" /\ tgt[u].file = "public"

Finalize(s) ==
  LET r == work[s].req IN
  /\ Acts(s, "finalize", "begin")
  /\ \/ /\ CensusHolds(s)
        /\ peer' = [peer EXCEPT ![s].state = "released"]
        /\ Finish(s, r, "ok", "released", 0)
     \/ /\ ~CensusHolds(s)
        /\ Finish(s, r, "refused", "native_work_incomplete", 0)
        /\ UNCHANGED peer
  /\ UNCHANGED <<src, tgt, native, net, job, faults>>

PeerStep ==
  \/ \E r \in net : Receive(r)
  \/ \E s \in Sides : Finalize(s) \/ GiveUp(s)
  \/ CopyOpen \/ FetchBegins \/ FetchEnds \/ FetchBreaks \/ StreamEnds
  \/ Prepare \/ PublishStep \/ MoveDirectory \/ SaveMove
  \/ VerifySource \/ AcknowledgeTarget \/ AcknowledgeSource \/ InspectTarget
  \/ CleanupBegins \/ CleanupScan \/ CleanupEnds
  \/ UnlinkIntent \/ Unlink \/ RecordUnlink

PeerFault ==
  \/ \E s \in Sides : PeerCrash(s)
  \/ \E r \in net : Lose(r)
  \/ CleanupProofExpires
=============================================================================
