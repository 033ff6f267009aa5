------------------------------- MODULE AdmState -------------------------------
(***************************************************************************)
(* What the preparation of a migration remembers at the Master and at both *)
(* members, and what must be true of it.  MigrationAdmission says how it   *)
(* changes.                                                                *)
(***************************************************************************)
EXTENDS Naturals

CONSTANT NUnits   \* parent directories, in the order of their unit_id

VARIABLES
    catalog,     \* global_media: the version of a parent's file at a member
    native,      \* the version the member holds
    upload,      \* one ordinary upload: its session, capability and receiver
    resv,        \* each member's peer_reservations row with scopes and quota
    preview,     \* the plan under observation
    task,        \* the task row with its units, scopes, capacity and drains
    step,        \* what the runner does next
    lease,       \* the runner's row: "free", "live", "stale" after a crash,
                 \*   "lapsed" when it expired under a stalled runner
    tardy,       \* calls the runner gave up on
    mishaps

admvars == <<catalog, native, upload, resv, preview, task, step, lease, tardy, mishaps>>

Units == 1 .. NUnits
Sides == {"source", "target"}
Empty == [u \in Units |-> 0]
NoUpload == [row |-> FALSE, token |-> FALSE, put |-> "none", side |-> "source", unit |-> 1,
             opened |-> 0]
NoReservation == [state |-> "none", scopes |-> {}, booked |-> FALSE, drained |-> FALSE]
NoStep == [at |-> "none", side |-> "source", unit |-> 1, flight |-> FALSE]

-----------------------------------------------------------------------------
Pending(m) == upload.side = m /\ upload.put = "receiving"

\* What a complete observation of a member finds: the planned versions at the
\* Source, the planned directories empty at the Target.
Observed(m, plan) == native[m] = IF m = "source" THEN plan ELSE Empty

-----------------------------------------------------------------------------
\* What "prepared" and "queued" promise to the transfer: the planned versions
\* are still the ones of the catalog and the Source, the Target is free, and
\* every fence, scope and reservation is in place on all three nodes.
PreparedIsTrue ==
    task.state \in {"prepared", "queued"} =>
        /\ catalog["source"] = task.plan
        /\ \A m \in Sides :
             /\ Observed(m, task.plan) /\ ~Pending(m)
             /\ resv[m].state = "prepared" /\ resv[m].scopes = Units /\ resv[m].booked
        /\ resv["source"].drained /\ "source" \in task.drains
        /\ task.installed = Units /\ task.booked

\* A cancelled task holds nothing anywhere, and no late request brings anything
\* back: "delayed begin then returns that terminal state".
CancelledIsGone ==
    task.state = "cancelled" =>
        /\ \A m \in Sides : resv[m] = [NoReservation EXCEPT !.state = "aborted"]
        /\ task.installed = {} /\ ~task.booked /\ task.drains = {}

AdmSound == PreparedIsTrue /\ CancelledIsGone

=============================================================================
