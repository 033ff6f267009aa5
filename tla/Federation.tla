----------------------------- MODULE Federation -----------------------------
(***************************************************************************)
(* The relationship of a Master and one Follower, from pairing to          *)
(* retirement: app/services/federation/ (state.py, runtime.py,             *)
(* transport.py), app/api/internal_nodes.py, app/api/v1/admin_nodes.py and *)
(* the node_retirement_*.py modules with app/api/internal_retirement.py.   *)
(*                                                                         *)
(*   1. Two workers of the Master call the Follower: the control loop, and *)
(*      an administrator's request.  Each waits for one answer at a time;  *)
(*      the request it gave up on may still reach the Follower.            *)
(*   2. Each node keeps its own row of the relationship and, once begun,   *)
(*      its own retirement journal (`ret`).                                *)
(*   3. The Follower keeps its identity until it is reset; every import of *)
(*      a pairing package makes a relationship with a fresh identifier.    *)
(*                                                                         *)
(* One file stands for what the Master places at the Follower.             *)
(***************************************************************************)
EXTENDS Naturals

CONSTANTS
    MaxPairs,    \* bound: packages issued, imports made
    MaxModes,    \* bound: changes of the transport
    MaxLost      \* bound: answers lost

VARIABLES
    mrow,        \* the Master's relationship
    frow,        \* the Follower's relationship
    packages,    \* pairing packages the Follower has issued
    workers,     \* the request each worker of the Master waits for, or its next step
    wire,        \* requests on their way to the Follower
    stock,       \* the file, its upload and its catalog row
    modes,       \* changes of the transport so far
    losses       \* answers lost so far

fedvars == <<mrow, frow, packages, workers, wire, stock, modes, losses>>

Workers == {"loop", "admin"}
Packages == 1 .. MaxPairs
Transports == {"Relay", "Direct"}

\* late: created more than PAIR_SECONDS ago.
NoRow == [id |-> 0, state |-> "none", acked |-> FALSE, late |-> FALSE,
          mode |-> "Relay", ret |-> "none"]

Nothing == [at |-> "idle", id |-> 0]

Init ==
    /\ mrow = NoRow
    /\ frow = [id |-> 0, state |-> "none", mode |-> "Relay", ret |-> "none", role |-> "Follower"]
    /\ packages = [p \in Packages |-> "none"]
    /\ workers = [w \in Workers |-> Nothing]
    /\ wire = {}
    /\ stock = [row |-> FALSE, upload |-> FALSE, token |-> FALSE, put |-> "none", file |-> FALSE]
    /\ modes = 0
    /\ losses = 0

-----------------------------------------------------------------------------
(* What the steps below are written with.                                  *)

Idle(w) == workers[w] = Nothing

At(w, step) == workers[w].at = step

Proceeds(w, step) == workers' = [workers EXCEPT ![w].at = step]

Ends(w) == workers' = [workers EXCEPT ![w] = Nothing]

\* A worker sends a request under the Master's row and waits for its answer.
Sends(w, kind, row, package) ==
    /\ wire' = wire \cup {[by |-> w, kind |-> kind, id |-> row.id, mode |-> row.mode,
                           package |-> package]}
    /\ workers' = [workers EXCEPT ![w] = [at |-> kind, id |-> row.id]]

\* Nothing of the member is left in the Master's ledger.
MasterClear == ~stock.row /\ ~stock.upload

\* Nothing is stored at the Follower, nothing is being received.
FollowerClear == ~stock.file /\ stock.put # "writing"

-----------------------------------------------------------------------------
(* The Follower's own steps.                                               *)

CreatePair(p) ==
    /\ packages[p] = "none" /\ frow.role = "Follower" /\ frow.ret = "none"
    /\ frow.state \in {"none", "revoked"}
    /\ packages' = [packages EXCEPT ![p] = "issued"]
    /\ UNCHANGED <<mrow, frow, workers, wire, stock, modes, losses>>

PackageExpires(p) ==
    /\ packages[p] = "issued"
    /\ packages' = [packages EXCEPT ![p] = "expired"]
    /\ UNCHANGED <<mrow, frow, workers, wire, stock, modes, losses>>

\* reset: the node begins again under another identity; the credentials stay
\* for the notification of the Master.
FollowerResets ==
    /\ frow.role = "Follower" /\ frow.state # "none"
    /\ frow.ret # "retiring" /\ FollowerClear
    /\ frow' = [frow EXCEPT !.role = "Standalone", !.state = "revoked"]
    /\ packages' = [p \in Packages |-> IF packages[p] = "none" THEN "none" ELSE "expired"]
    /\ UNCHANGED <<mrow, workers, wire, stock, modes, losses>>

\* The Master acknowledges it for a pairing that was never activated.
FollowerNotifies ==
    /\ frow.role = "Standalone" /\ frow.ret = "none"
    /\ mrow.id = frow.id /\ mrow.state \in {"pending", "revoked"} /\ ~mrow.acked
    /\ mrow' = [mrow EXCEPT !.state = "revoked", !.acked = TRUE]
    /\ UNCHANGED <<frow, packages, workers, wire, stock, modes, losses>>

-----------------------------------------------------------------------------
(* Calls: the answer the Follower gives to a request, and what it changes. *)

Known(r) == frow.id = r.id

\* consume: the package decides once, whatever was checked before.
Consumes(r) ==
    /\ frow.role = "Follower" /\ frow.ret = "none" /\ frow.state \in {"none", "revoked"}
    /\ packages[r.package] = "issued"

\* Mutant: activate does not look at the state of the relationship.
ConfirmsAny(r) == Known(r) /\ frow.ret = "none"

Confirms(r) == Known(r) /\ frow.ret = "none" /\ frow.state \in {"pending", "active"}

\* Only an unactivated pairing is revoked by a message; see Complete for others.
Revokes(r) == Known(r) /\ frow.ret = "none" /\ frow.state \in {"pending", "revoked"}

Heartbeats(r) == Known(r) /\ frow.ret = "none" /\ frow.state = "active"

\* Authentication.check of a retirement control: the whole binding must match.
Bound(r) == Known(r) /\ frow.mode = r.mode /\ frow.state \in {"active", "retiring", "revoked"}

\* The exclusive request lease: no internal request is being served.
Exclusive == stock.put = "none"

Checks(r) == Bound(r) /\ frow.ret = "none" /\ frow.state = "active" /\ Exclusive /\ FollowerClear

Begins(r) ==
    \/ Bound(r) /\ frow.ret = "retiring"
    \/ Bound(r) /\ frow.ret = "none" /\ frow.state = "active" /\ FollowerClear

Completes(r) ==
    \/ Bound(r) /\ frow.ret = "completed"
    \/ Bound(r) /\ frow.ret = "retiring" /\ Exclusive /\ FollowerClear

Accepted(r) ==
    CASE r.kind = "pair" -> Consumes(r)
      [] r.kind = "confirm" -> Confirms(r)
      [] r.kind = "revoke" -> Revokes(r)
      [] r.kind = "heartbeat" -> Heartbeats(r)
      [] r.kind = "check" -> Checks(r)
      [] r.kind = "status" -> Bound(r) /\ (frow.ret # "none" \/ frow.state = "active")
      [] r.kind = "begin" -> Begins(r)
      [] r.kind = "complete" -> Completes(r)

\* The Follower's row after an accepted request.
After(r) ==
    CASE r.kind = "pair" -> [frow EXCEPT !.id = r.id, !.state = "pending", !.mode = "Relay"]
      [] r.kind = "confirm" -> [frow EXCEPT !.state = "active"]
      [] r.kind = "revoke" -> [frow EXCEPT !.state = "revoked"]
      [] r.kind = "heartbeat" -> [frow EXCEPT !.mode = r.mode]
      [] r.kind \in {"check", "status"} -> frow
      [] r.kind = "begin" -> [frow EXCEPT !.state = "retiring", !.ret = "retiring"]
      [] r.kind = "complete" -> [frow EXCEPT !.state = "revoked", !.ret = "completed"]

\* What the waiting worker does next.
AnswerStep(r) ==
    CASE r.kind = "pair" -> "sendConfirm"
      [] r.kind = "confirm" -> "activate"
      [] r.kind = "revoke" -> "ack"
      [] r.kind = "check" -> "beginMaster"
      [] r.kind = "status" -> IF frow.ret = "none" THEN "sendBegin"
                              ELSE IF frow.ret = "completed" THEN "finish" ELSE "sendComplete"
      [] r.kind = "begin" -> "sendComplete"
      [] r.kind = "complete" -> "finish"

Awaited(r) == workers[r.by] = [at |-> r.kind, id |-> r.id]

Handle(r) ==
    /\ r \in wire
    /\ wire' = wire \ {r}
    /\ frow' = IF Accepted(r) THEN After(r) ELSE frow
    /\ packages' = IF r.kind = "pair" /\ Accepted(r)
                   THEN [packages EXCEPT ![r.package] = "consumed"] ELSE packages
    /\ IF ~Awaited(r) THEN UNCHANGED workers
       ELSE IF ~Accepted(r) \/ r.kind = "heartbeat" THEN Ends(r.by)
       ELSE Proceeds(r.by, AnswerStep(r))
    /\ UNCHANGED <<mrow, stock, modes, losses>>

\* The worker gives up; the request is lost, or late.
Lost(w) ==
    /\ losses < MaxLost /\ losses' = losses + 1
    /\ \E r \in wire : r.by = w /\ Awaited(r) /\ wire' \in {wire, wire \ {r}}
    /\ Ends(w)
    /\ UNCHANGED <<mrow, frow, packages, stock, modes>>

-----------------------------------------------------------------------------
(* Pairing and revocation at the Master.                                   *)

\* import_pair after its checks: prepare writes the pending row first.
ImportPair(p) ==
    /\ Idle("admin") /\ packages[p] \in {"issued", "consumed"} /\ frow.role = "Follower"
    /\ mrow.id < MaxPairs /\ mrow.ret = "none"
    /\ mrow.state = "none" \/ (mrow.state = "revoked" /\ mrow.acked)
    /\ mrow' = [NoRow EXCEPT !.id = mrow.id + 1, !.state = "pending"]
    /\ Sends("admin", "pair", mrow', p)
    /\ UNCHANGED <<frow, packages, stock, modes, losses>>

SendConfirm ==
    /\ At("admin", "sendConfirm")
    /\ Sends("admin", "confirm", mrow, 1)
    /\ UNCHANGED <<mrow, frow, packages, stock, modes, losses>>

Activate(w) ==
    /\ At(w, "activate")
    /\ mrow' = IF mrow.id = workers[w].id /\ mrow.state = "pending"
             THEN [mrow EXCEPT !.state = "active"] ELSE mrow
    /\ Ends(w)
    /\ UNCHANGED <<frow, packages, wire, stock, modes, losses>>

Late ==
    /\ mrow.state = "pending" /\ ~mrow.late
    /\ mrow' = [mrow EXCEPT !.late = TRUE]
    /\ UNCHANGED <<frow, packages, workers, wire, stock, modes, losses>>

\* Mutant: a pairing that nobody answers is confirmed for ever.
NeverTimesOut == FALSE

\* A pairing that nobody answers is given up after PAIR_SECONDS.
TimedOut == mrow.state = "pending" /\ mrow.late

\* One round of the control loop.
Tick ==
    /\ Idle("loop")
    /\ mrow.state \in {"pending", "active"} \/ (mrow.state = "revoked" /\ ~mrow.acked)
    /\ CASE mrow.state = "revoked" /\ ~mrow.acked ->
              Sends("loop", "revoke", mrow, 1) /\ UNCHANGED mrow
         [] TimedOut ->
              mrow' = [mrow EXCEPT !.state = "revoked"] /\ Sends("loop", "revoke", mrow, 1)
         [] mrow.state = "pending" /\ ~TimedOut ->
              Sends("loop", "confirm", mrow, 1) /\ UNCHANGED mrow
         [] mrow.state = "active" ->
              Sends("loop", "heartbeat", mrow, 1) /\ UNCHANGED mrow
    /\ UNCHANGED <<frow, packages, stock, modes, losses>>

\* The administrator cancels a pairing, or repeats a notification.
AdminRevoke ==
    /\ Idle("admin") /\ mrow.ret = "none"
    /\ mrow.state \in {"pending", "revoked"} /\ ~mrow.acked
    /\ mrow' = [mrow EXCEPT !.state = "revoked"]
    /\ Sends("admin", "revoke", mrow, 1)
    /\ UNCHANGED <<frow, packages, stock, modes, losses>>

Acknowledge(w) ==
    /\ At(w, "ack")
    /\ mrow' = IF mrow.id = workers[w].id /\ mrow.state = "revoked"
             THEN [mrow EXCEPT !.acked = TRUE] ELSE mrow
    /\ Ends(w)
    /\ UNCHANGED <<frow, packages, wire, stock, modes, losses>>

\* The transport changes only while no upload is reserved; the Follower learns
\* it from the next heartbeat.
SetMode(m) ==
    /\ mrow.state = "active" /\ mrow.ret = "none" /\ m # mrow.mode /\ ~stock.upload
    /\ modes < MaxModes /\ modes' = modes + 1
    /\ mrow' = [mrow EXCEPT !.mode = m]
    /\ UNCHANGED <<frow, packages, workers, wire, stock, losses>>

-----------------------------------------------------------------------------
(* Retirement at the Master.                                               *)

\* apply: a first call checks both sides, a repeated one goes on.
Apply ==
    /\ Idle("admin")
    /\ IF mrow.ret = "none"
       THEN mrow.state = "active" /\ MasterClear /\ Sends("admin", "check", mrow, 1)
       ELSE mrow.ret = "retiring" /\ Sends("admin", "status", mrow, 1)
    /\ UNCHANGED <<mrow, frow, packages, stock, modes, losses>>

BeginMaster ==
    /\ At("admin", "beginMaster")
    /\ IF mrow.state = "active" /\ MasterClear
       THEN /\ mrow' = [mrow EXCEPT !.state = "retiring", !.ret = "retiring"]
            /\ Sends("admin", "status", mrow, 1)
       ELSE Ends("admin") /\ UNCHANGED <<mrow, wire>>
    /\ UNCHANGED <<frow, packages, stock, modes, losses>>

Advance ==
    /\ \/ At("admin", "sendBegin") /\ Sends("admin", "begin", mrow, 1)
       \/ At("admin", "sendComplete") /\ Sends("admin", "complete", mrow, 1)
    /\ UNCHANGED <<mrow, frow, packages, stock, modes, losses>>

\* The Master repeats its own checks before it takes the Follower's receipt.
FinishMaster ==
    /\ At("admin", "finish")
    /\ mrow' = IF mrow.ret = "retiring" /\ MasterClear
               THEN [mrow EXCEPT !.ret = "completed", !.state = "revoked", !.acked = TRUE]
               ELSE mrow
    /\ Ends("admin")
    /\ UNCHANGED <<frow, packages, wire, stock, modes, losses>>

-----------------------------------------------------------------------------
(* What the Master places at the Follower meanwhile (see StorageUpload).   *)

Stocks == UNCHANGED <<mrow, frow, packages, workers, wire, modes, losses>>

Reserve ==
    /\ mrow.state = "active" /\ mrow.ret = "none" /\ MasterClear
    /\ stock' = [stock EXCEPT !.upload = TRUE, !.token = TRUE]
    /\ Stocks

\* The capability outlives the session it was issued for.
Abort ==
    /\ stock.upload
    /\ stock' = [stock EXCEPT !.upload = FALSE]
    /\ Stocks

\* storage_capability, under the request's shared lease.
PutArrives ==
    /\ stock.token /\ stock.put = "none" /\ frow.state = "active" /\ ~stock.file
    /\ stock' = [stock EXCEPT !.put = "checked", !.token = FALSE]
    /\ Stocks

\* The transaction that reserves space asks whether storage is still enabled.
PutReserves ==
    /\ stock.put = "checked"
    /\ stock' = [stock EXCEPT !.put = IF frow.ret = "none" /\ frow.role = "Follower"
                                      THEN "writing" ELSE "none"]
    /\ Stocks

PutStored ==
    /\ stock.put = "writing"
    /\ stock' = [stock EXCEPT !.put = "none", !.file = TRUE]
    /\ Stocks

Publish ==
    /\ stock.upload /\ stock.file /\ mrow.state = "active"
    /\ stock' = [stock EXCEPT !.upload = FALSE, !.row = TRUE]
    /\ Stocks

Delete ==
    /\ stock.file /\ ~stock.upload /\ frow.state = "active"
    /\ stock' = [stock EXCEPT !.row = FALSE, !.file = FALSE]
    /\ Stocks

Places == Reserve \/ Abort \/ PutArrives \/ PutReserves \/ PutStored \/ Publish \/ Delete

-----------------------------------------------------------------------------
Steps(w) == Activate(w) \/ Acknowledge(w)

Next ==
    \/ \E p \in Packages : CreatePair(p) \/ PackageExpires(p) \/ ImportPair(p)
    \/ FollowerResets \/ FollowerNotifies
    \/ \E r \in wire : Handle(r)
    \/ \E w \in Workers : Lost(w) \/ Steps(w)
    \/ SendConfirm \/ Late \/ Tick \/ AdminRevoke
    \/ \E m \in Transports : SetMode(m)
    \/ Apply \/ BeginMaster \/ Advance \/ FinishMaster
    \/ Places

Spec == Init /\ [][Next]_fedvars

\* The control loop repeats, requests arrive, PAIR_SECONDS pass.
HandleLoop == \E r \in wire : r.by = "loop" /\ Handle(r)

Fairness ==
    /\ WF_fedvars(Tick) /\ WF_fedvars(Steps("loop"))
    /\ WF_fedvars(HandleLoop) /\ WF_fedvars(Late)

FairSpec == Spec /\ Fairness

-----------------------------------------------------------------------------
(* Properties                                                              *)

\* What the Master believes the Follower has: an active relationship is active
\* there too, unless the Follower was reset; an acknowledged revocation is final
\* there; a retirement is never begun by one side alone, nor completed before
\* the Follower has completed it.
RelationsAgree ==
    /\ mrow.state \in {"active", "retiring"} =>
         frow.id = mrow.id /\ (frow.state # "revoked" => frow.state \in {"active", "retiring"})
    /\ mrow.acked /\ frow.id = mrow.id => frow.state = "revoked"
    /\ frow.ret # "none" => frow.id = mrow.id /\ mrow.ret # "none"
    /\ mrow.ret = "completed" => frow.ret = "completed"

\* A retired Follower holds nothing the Master placed, and receives nothing any
\* more, whatever capabilities are still about: "unfinished uploads ... block
\* completion and retain the fence" (docs/python-node-retirement.md).
RetiredIsEmpty ==
    /\ frow.ret = "completed" => FollowerClear
    /\ mrow.ret = "completed" => MasterClear
    /\ stock.row => stock.file

FedSound == RelationsAgree /\ RetiredIsEmpty

\* An import that failed does not last: the pairing is activated, or revoked and
\* acknowledged, except where the Follower answers neither (see Repairable).
Unanswerable == frow.id # mrow.id \/ frow.state = "active"

FedSettles ==
    /\ (mrow.state = "pending") ~> (mrow.state # "pending")
    /\ (mrow.state = "revoked" /\ ~mrow.acked) ~> (mrow.acked \/ Unanswerable)

\* After a failed import the operator can pair again with a new package:
\* "Regenerate expired or consumed packages"
\* (docs/wiki/Operations-and-Troubleshooting.md).
Repairable ==
    (mrow.state = "revoked" /\ ~mrow.acked) ~> (mrow.acked \/ frow.state = "active")

=============================================================================
