------------------------------- MODULE OpState -------------------------------
(***************************************************************************)
(* What an upgrade of the running package leaves in its journal, on the    *)
(* host and in the data, and what must be true of it.  OperatorUpgrade     *)
(* says how it changes.                                                    *)
(***************************************************************************)
EXTENDS Integers

CONSTANT Payloads   \* directories the snapshot leaves out: media, recordings

VARIABLES
    phase,       \* of the journal
    mode,        \* of the journal: "forward", "restore" or "abort"
    noted,       \* of the journal: the receipt it published last
    moves,       \* of the journal: intents and moves of the payloads
    receipt,     \* the deployment receipt beside the Compose file
    operator,    \* the command running: "none", "resume", "recover"; a resume
                 \* whose live preflight has passed is "checked"
    made,        \* the package the containers belong to
    up,          \* the containers run
    helper,      \* the one-off database helper runs
    fence,       \* the hard fence in each control root
    manual,      \* an administrator's own fence in the original root
    schema,      \* of the original database
    live,        \* business writes in each control root; Partial while restored
    snap,        \* business writes in the snapshot; Partial, None
    writes,      \* business writes made
    busy,        \* a business transaction is "open"; one in a history
    payload      \* the control root each payload directory is in

journal == <<phase, mode, noted, moves>>
host == <<made, up, helper, fence, schema>>
data == <<live, snap, writes, busy, payload>>
opvars == <<journal, receipt, operator, host, manual, data>>

Roots == {"original", "restored"}
None == -1
Partial == -2

-----------------------------------------------------------------------------
Root == IF made = "restored" THEN "restored" ELSE "original"

Manual == manual = "set"

Serving == up /\ ~fence[Root] /\ ~(Root = "original" /\ Manual)

-----------------------------------------------------------------------------
\* Whatever package answers, it answers with everything that was ever written:
\* the snapshot, the restored copy and the original root are never mistaken for
\* one another, however the operator's commands died and followed each other.
NoWriteLost == Serving => live[Root] = writes

\* A package serves a database of its own generation: the old one never meets a
\* database prepared for the new one, not even half prepared.
SchemaServed ==
    Serving => schema = IF made = "target" THEN "new" ELSE IF made = "old" THEN "old" ELSE schema

\* A package serves with its media and recordings beside its database.
PayloadServed == Serving => \A p \in Payloads : payload[p] = Root

OpSound == NoWriteLost /\ SchemaServed /\ PayloadServed

=============================================================================
