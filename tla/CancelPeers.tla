----------------------------- MODULE CancelPeers ------------------------------
(***************************************************************************)
(* What a cancellation asks of the two members of a migration.             *)
(*                                                                         *)
(* A task none of whose units was published is aborted member by member:   *)
(* stop, remove the private copies, release everything at once.            *)
(* Any other is taken back unit by unit.  Each member is stopped, the      *)
(* Target undoes its copy of a unit under a live proof that the Source     *)
(* still has the original, the Source certifies the original retained,     *)
(* both settle the unit, and when every unit is closed the Source counts   *)
(* what it kept and is released, and the Target after it.                  *)
(***************************************************************************)
EXTENDS Migration

VARIABLES
  halted,     \* members that recorded their stop
  scan,       \* the Source's census, in memory: its epoch (0: none) and phase
  closing     \* has the Target prepared its release?

cancelPeerVars == <<halted, scan, closing>>

NoScan == [epoch |-> 0, phase |-> ""]
CancelPeersInit == halted = {} /\ scan = NoScan /\ closing = FALSE

Gone == {"cancelled", "settled"}

Does(s, what) == Acts(s, what, "begin")
Reply2(s, kind, phase) == Finish(s, work[s].req, kind, phase, 0)

(* A request leaves the Master and its own counters alone. *)
Rest == UNCHANGED <<masterVars, net, job, faults>>

-----------------------------------------------------------------------------
(* Stopping.                                                               *)

(* A stop closes the scans of the task.  The Source records it. *)
StopMember(s) ==
  /\ Does(s, "stop")
  /\ IF s = "source" /\ peer[s].state # "active"
       THEN Reply2(s, "refused", "source_unavailable") /\ UNCHANGED <<halted, scan>>
       ELSE /\ halted' = halted \cup ({"source"} \cap {s})
            /\ scan' = IF s = "source" THEN NoScan ELSE scan
            /\ Reply2(s, "ok", "stopped")
  /\ UNCHANGED <<peer, src, tgt, native, closing>> /\ Rest

-----------------------------------------------------------------------------
(* The Target takes a unit back, one bounded step per request.             *)

Undoing == work["target"].req.unit
Undoes(step) == Acts("target", "undo", step)

(* The Source's proof for a cancellation is its ordinary verification. *)
ProveRetained ==
  LET r == work["source"].req  u == r.unit IN
  /\ Does("source", "prove")
  /\ IF src[u].unit \in Copyable \cup {"verified"} /\ src[u].file
       THEN /\ src' = [src EXCEPT ![u].unit = "verified", ![u].receipt = @ + 1]
            /\ Reply2("source", "ok", "verified")
       ELSE Reply2("source", "refused", "unit_unavailable") /\ UNCHANGED src
  /\ UNCHANGED <<peer, tgt, native, cancelPeerVars>> /\ Rest

(* A commit is final, a finished undo is repeated from its receipt. *)
UndoReplay ==
  LET u == Undoing IN
  /\ Undoes("begin") /\ tgt[u].unit \in Gone \cup {"committed"}
  /\ Reply2("target", IF tgt[u].unit = "committed" THEN "refused" ELSE "ok", "cancelled")
  /\ UNCHANGED <<peer, src, tgt, native, cancelPeerVars>> /\ Rest

(* Entries by the way they are taken back: a complete copy, published or   *)
(* not, is unlinked as the publication left it, a partial or unborn one as *)
(* private material. *)
Whole == {"verified", "publishing", "published", "aborting"}
Partial == {"none", "receiving", "discarding"}

Unwinds(u, step, entries, entry, next) ==
  /\ Undoes(step) /\ tgt[u].unit \notin Gone \cup {"committed"} /\ tgt[u].entry \in entries
  /\ tgt' = [tgt EXCEPT ![u].entry = entry]
  /\ Step("target", next)
  /\ UNCHANGED <<peer, src, native, answer, cancelPeerVars>> /\ Rest

(* Mutant: a published copy is recorded as removed without being unlinked. *)
UndoIntentOnly == Unwinds(Undoing, "begin", Whole, "aborting", "record")

(* The intent is durable before the copy goes. *)
UndoIntent == Unwinds(Undoing, "begin", Whole, "aborting", "unlink")

(* An object never begun gets a row that says absent. *)
DiscardIntent == Unwinds(Undoing, "begin", Partial, "discarding", "unlink")

(* A repetition finds the copy gone, wherever the publication had put it. *)
UndoUnlink ==
  /\ Undoes("unlink")
  /\ tgt' = [tgt EXCEPT ![Undoing].file = "none"]
  /\ Step("target", "record")
  /\ UNCHANGED <<peer, src, native, answer, cancelPeerVars>> /\ Rest

UndoAnswers(u, row, phase) ==
  /\ tgt' = [tgt EXCEPT ![u] = row]
  /\ Reply2("target", "ok", phase)
  /\ UNCHANGED <<peer, src, native, cancelPeerVars>> /\ Rest

UndoRecord ==
  LET u == Undoing IN
  Undoes("record") /\ tgt[u].entry = "aborting" /\ UndoAnswers(u, [tgt[u] EXCEPT !.entry = "aborted"], "objects")

DiscardRecord ==
  LET u == Undoing IN
  /\ Undoes("record") /\ tgt[u].entry = "discarding"
  /\ UndoAnswers(u, [tgt[u] EXCEPT !.entry = "discarded"], "objects")

(* The empty directory of the unit goes once no object is left in it. *)
UndoDirectory ==
  LET u == Undoing IN
  /\ Undoes("begin") /\ tgt[u].unit \notin Gone /\ tgt[u].entry \in {"aborted", "discarded"}
  /\ UndoAnswers(u, [tgt[u] EXCEPT !.entry = IF @ = "aborted" THEN "removed" ELSE "dropped"], "receipt")

(* The receipt is signed over a roster of rows and a directory that is gone. *)
UndoFinish ==
  LET u == Undoing IN
  /\ Undoes("begin") /\ tgt[u].unit \notin Gone /\ tgt[u].entry = "removed"
  /\ UndoAnswers(u, [tgt[u] EXCEPT !.unit = "cancelled"], "cancelled")

DiscardFinish ==
  LET u == Undoing IN
  /\ Undoes("begin") /\ tgt[u].unit \notin Gone /\ tgt[u].entry = "dropped"
  /\ UndoAnswers(u, [tgt[u] EXCEPT !.unit = "cancelled"], "cancelled")

-----------------------------------------------------------------------------
(* The Source retains the original, and both members settle the unit.      *)

Retainable(u) ==
  /\ peer["source"].state = "active" /\ "source" \in halted
  /\ src[u].unit \in Copyable \cup {"verified"}

SourceAnswers(u, state, phase) ==
  /\ src' = [src EXCEPT ![u].unit = state]
  /\ Reply2("source", "ok", phase)
  /\ UNCHANGED <<peer, tgt, native, cancelPeerVars>> /\ Rest

SourceRefuses ==
  /\ Reply2("source", "refused", "unit_unavailable")
  /\ UNCHANGED <<peer, src, tgt, native, cancelPeerVars>> /\ Rest

(* Retaining verifies the original once more before it signs. *)
Retain ==
  LET u == work["source"].req.unit IN
  /\ Does("source", "retain")
  /\ IF src[u].unit \in {"retained", "settled"} THEN SourceAnswers(u, src[u].unit, "retained")
     ELSE IF Retainable(u) /\ src[u].file THEN SourceAnswers(u, "retained", "retained")
     ELSE SourceRefuses

(* Settling verifies it again and drops the fence of its parent. *)
SettleSource ==
  LET u == work["source"].req.unit IN
  /\ Does("source", "settle")
  /\ IF src[u].unit = "settled" \/ (src[u].unit = "retained" /\ src[u].file)
       THEN SourceAnswers(u, "settled", "settled") ELSE SourceRefuses

(* Units the Target's reservation no longer stands for. *)
TargetReleased == {u \in Units : tgt[u].unit \in {"committed", "settled"}}

(* Mutant: a repeated settlement refunds again. *)
SettleTargetAgain ==
  LET u == work["target"].req.unit IN
  /\ Does("target", "settle")
  /\ tgt' = [tgt EXCEPT ![u].unit = "settled"]
  /\ native' = [native EXCEPT !.reserved = @ - 1]
  /\ Reply2("target", "ok", "settled")
  /\ UNCHANGED <<peer, src, cancelPeerVars>> /\ Rest

(* The refund of the Target's reservation, once. *)
SettleTarget ==
  LET u == work["target"].req.unit IN
  /\ Does("target", "settle")
  /\ \/ /\ tgt[u].unit = "settled"
        /\ Reply2("target", "ok", "settled")
        /\ UNCHANGED <<tgt, native>>
     \/ /\ tgt[u].unit = "cancelled" /\ tgt[u].file = "none"
        /\ native.reserved = N - Cardinality(TargetReleased)
        /\ tgt' = [tgt EXCEPT ![u].unit = "settled"]
        /\ native' = [native EXCEPT !.reserved = @ - 1]
        /\ Reply2("target", "ok", "settled")
     \/ /\ tgt[u].unit # "settled"
        /\ ~(tgt[u].unit = "cancelled" /\ tgt[u].file = "none"
             /\ native.reserved = N - Cardinality(TargetReleased))
        /\ Reply2("target", "refused", "unit_not_cancelled")
        /\ UNCHANGED <<tgt, native>>
  /\ UNCHANGED <<peer, src, cancelPeerVars>> /\ Rest

-----------------------------------------------------------------------------
(* Release of the members when every unit is cleaned or settled.           *)

SourceClosed ==
  /\ "source" \in halted
  /\ \A u \in Units : src[u].unit = IF src[u].file THEN "settled" ELSE "cleaned"

QueryRelease ==
  /\ Does("source", "query")
  /\ Reply2("source", "ok", IF peer["source"].state = "released" THEN "released" ELSE "pending")
  /\ UNCHANGED <<peer, src, tgt, native, cancelPeerVars>> /\ Rest

Counts(phase) ==
  /\ scan' = [epoch |-> work["source"].req.epoch, phase |-> phase]
  /\ Reply2("source", "ok", phase)
  /\ UNCHANGED <<peer, src, tgt, native, halted, closing>> /\ Rest

(* A census of what the Source kept starts anew with every runner. *)
CensusStarts ==
  /\ Does("source", "census") /\ scan.epoch # work["source"].req.epoch
  /\ IF SourceClosed THEN Counts("roster") ELSE SourceRefuses

CensusRoster ==
  /\ Does("source", "census") /\ scan = [epoch |-> work["source"].req.epoch, phase |-> "roster"]
  /\ Counts("physical")

(* The files on disk are exactly those of the roster, and the proof signed. *)
CensusPhysical ==
  /\ Does("source", "census") /\ scan = [epoch |-> work["source"].req.epoch, phase |-> "physical"]
  /\ IF SourceClosed THEN Counts("verified") ELSE SourceRefuses

(* The release needs the very census that is still in memory. *)
ReleaseSource ==
  LET r == work["source"].req
      known == peer["source"].state = "released" IN
  /\ Does("source", "release")
  /\ IF known \/ (scan = [epoch |-> r.epoch, phase |-> "verified"] /\ SourceClosed)
       THEN /\ peer' = [peer EXCEPT !["source"].state = "released"]
            /\ scan' = IF known THEN scan ELSE NoScan
            /\ Reply2("source", "ok", "released")
       ELSE Reply2("source", "census_lost", "") /\ UNCHANGED <<peer, scan>>
  /\ UNCHANGED <<src, tgt, native, halted, closing>> /\ Rest

TargetClosed ==
  /\ native.reserved = 0
  /\ \A u \in Units :
       <<tgt[u].unit, tgt[u].file>> \in {<<"committed", "public">>, <<"settled", "none">>}

(* The Target checks every unit, prepares, and is released. *)
ReleaseTarget ==
  LET known == peer["target"].state = "released" IN
  /\ Does("target", "close")
  /\ \/ /\ ~known /\ ~TargetClosed
        /\ Reply2("target", "refused", "work_incomplete") /\ UNCHANGED <<peer, closing>>
     \/ /\ ~known /\ TargetClosed /\ ~closing
        /\ closing' = TRUE /\ Reply2("target", "ok", "prepared") /\ UNCHANGED peer
     \/ /\ known \/ (TargetClosed /\ closing)
        /\ peer' = [peer EXCEPT !["target"].state = "released"]
        /\ Reply2("target", "ok", "released") /\ UNCHANGED closing
  /\ UNCHANGED <<src, tgt, native, halted, scan>> /\ Rest

(* The Source's process restarts and with it goes the census. *)
SourceRestarts ==
  /\ scan # NoScan /\ Fault
  /\ scan' = NoScan
  /\ work' = [work EXCEPT !["source"] = None]
  /\ UNCHANGED <<masterVars, peer, src, tgt, native, callVars, halted, closing>>

-----------------------------------------------------------------------------
(* Aborting a task that published nothing.                                 *)

AbortStop(s) ==
  /\ Does(s, "abort_stop")
  /\ halted' = IF peer[s].state = "aborted" THEN halted ELSE halted \cup {s}
  /\ Reply2(s, "ok", IF peer[s].state = "aborted" THEN "aborted" ELSE "stopped")
  /\ UNCHANGED <<peer, src, tgt, native, scan, closing>> /\ Rest

Cleans2(s, step) == Acts(s, "abort_clean", step) /\ peer[s].state = "aborting"

(* Private copies the Target's journal still names. *)
Staged == {u \in Units : tgt[u].entry \notin {"none", "aborted", "removed"}}
Unswept == {u \in Units : tgt[u].entry # "removed"}

AbortRefused(s) ==
  /\ Cleans2(s, "begin") /\ s \notin halted
  /\ Reply2(s, "refused", "stop_required")
  /\ UNCHANGED <<peer, src, tgt, native, cancelPeerVars>> /\ Rest

AbortIntent ==
  /\ Cleans2("target", "begin") /\ "target" \in halted /\ Staged # {}
  /\ tgt' = [tgt EXCEPT ![First(Staged)].entry = "aborting"]
  /\ Step("target", "unlink")
  /\ UNCHANGED <<peer, src, native, answer, cancelPeerVars>> /\ Rest

AbortUnlink ==
  /\ Cleans2("target", "unlink")
  /\ tgt' = [tgt EXCEPT ![First(Staged)].file = "none"]
  /\ Step("target", "record")
  /\ UNCHANGED <<peer, src, native, answer, cancelPeerVars>> /\ Rest

AbortRecord ==
  /\ Cleans2("target", "record")
  /\ tgt' = [tgt EXCEPT ![First(Staged)].entry = "aborted"]
  /\ Reply2("target", "ok", "cleaning")
  /\ UNCHANGED <<peer, src, native, cancelPeerVars>> /\ Rest

(* Directories go one by one, and only empty ones. *)
AbortDirectory ==
  /\ Cleans2("target", "begin") /\ "target" \in halted /\ Staged = {} /\ Unswept # {}
  /\ tgt' = [tgt EXCEPT ![First(Unswept)].entry = "removed"]
  /\ Reply2("target", "ok", "cleaning")
  /\ UNCHANGED <<peer, src, native, cancelPeerVars>> /\ Rest

(* Mutant: the release does not wait for the private copies. *)
AbortReleaseEarly(s) ==
  /\ Acts(s, "abort_clean", "begin")
  /\ peer' = [peer EXCEPT ![s].state = "aborted"]
  /\ native' = IF s = "target" /\ peer[s].state # "aborted" THEN [native EXCEPT !.reserved = @ - N] ELSE native
  /\ Reply2(s, "ok", "aborted")
  /\ UNCHANGED <<src, tgt, cancelPeerVars>> /\ Rest

(* The reservation, the fences and the unit rows go in one transaction. *)
AbortRelease(s) ==
  /\ Acts(s, "abort_clean", "begin")
  /\ \/ /\ peer[s].state = "aborted"
        /\ UNCHANGED <<peer, native>>
     \/ /\ Cleans2(s, "begin") /\ s \in halted /\ (s = "target" => Unswept = {})
        /\ peer' = [peer EXCEPT ![s].state = "aborted"]
        /\ native' = IF s = "target" THEN [native EXCEPT !.reserved = @ - N] ELSE native
  /\ Reply2(s, "ok", "aborted")
  /\ UNCHANGED <<src, tgt, cancelPeerVars>> /\ Rest

-----------------------------------------------------------------------------
CancelPeerStep ==
  \/ \E s \in Sides : StopMember(s) \/ AbortStop(s) \/ AbortRefused(s) \/ AbortRelease(s)
  \/ ProveRetained \/ UndoReplay \/ UndoIntent \/ UndoUnlink \/ UndoRecord \/ UndoDirectory \/ UndoFinish
  \/ DiscardIntent \/ DiscardRecord \/ DiscardFinish
  \/ Retain \/ SettleSource \/ SettleTarget
  \/ QueryRelease \/ CensusStarts \/ CensusRoster \/ CensusPhysical \/ ReleaseSource \/ ReleaseTarget
  \/ AbortIntent \/ AbortUnlink \/ AbortRecord \/ AbortDirectory
=============================================================================
