-------------------------- MODULE OperatorUpgrade --------------------------
(***************************************************************************)
(* The host operator replaces the running package of a deployment, or puts *)
(* the old one back: scripts/operator_upgrade.py, operator_recovery.py,    *)
(* operator_recovery_open.py, operator_abort.py, operator_backup.py,       *)
(* operator_registry.py and the database helper                            *)
(* app/services/offline_upgrade.py.                                        *)
(*                                                                         *)
(*   1. An operator process may die between any two of its steps: what it  *)
(*      did to containers, files and receipts stays, what it would have    *)
(*      saved in its journal does not.  One operator runs at a time        *)
(*      (operation_lock); the next one starts from the journal.            *)
(*   2. A recovery is told by its stage; its phase in the journal follows. *)
(*   3. The maintenance fence appears in one link(2) and goes in one       *)
(*      unlink(2): interrupted temporary material is left out, and so are  *)
(*      the bounds on retained snapshots and attempts.                     *)
(*   4. A business write is counted, wherever it goes; one transaction may *)
(*      be left unfinished, as an upload is.                               *)
(***************************************************************************)
EXTENDS OpState

CONSTANT MaxWrites   \* bound: business writes

Early == {"images_prepared", "fencing", "fenced", "stopping", "cold", "backing_up"}
BeforeOpen == {"backed_up", "database_inspecting", "database_preparing", "database_prepared",
               "activating", "active_fenced", "opening_stopping", "opening_stopped"}
Recovering == {"recovering", "restoring", "state_restored", "moving", "restored_fenced",
               "restored_verifying", "restored_verified", "restored_opening"}
Terminal == {"opened", "restored_opened", "aborted"}

Init ==
    /\ phase = "images_prepared" /\ mode = "forward" /\ noted = "previous"
    /\ moves = [p \in Payloads |-> "none"]
    /\ receipt = "previous" /\ operator = "none"
    /\ made = "old" /\ up = TRUE /\ helper = FALSE
    /\ fence = [r \in Roots |-> FALSE] /\ manual = "never"
    /\ schema = "old"
    /\ live = [r \in Roots |-> IF r = "original" THEN 0 ELSE None]
    /\ snap = None /\ writes = 0 /\ busy = "never"
    /\ payload = [p \in Payloads |-> "original"]

-----------------------------------------------------------------------------
\* The root a recovery reopens.
Target == IF mode = "restore" THEN "restored" ELSE "original"

Busy == busy = "open"

\* Requests admitted before the fence go on until the containers have stopped.
Draining ==
    /\ up /\ made = "old"
    /\ mode = "forward" \/ (mode = "abort" /\ phase = "recovering")

-----------------------------------------------------------------------------
(* Business and administration.                                            *)

BusinessWrites ==
    /\ Serving \/ Draining
    /\ writes < MaxWrites
    /\ writes' = writes + 1
    /\ live' = [live EXCEPT ![Root] = @ + 1]
    /\ UNCHANGED <<journal, receipt, operator, host, manual, snap, busy, payload>>

BusinessBegins ==
    /\ Serving \/ Draining
    /\ busy = "never" /\ phase \in Early
    /\ busy' = "open"
    /\ UNCHANGED <<journal, receipt, operator, host, manual, live, snap, writes, payload>>

BusinessFinishes ==
    /\ Serving \/ Draining
    /\ Busy /\ busy' = "done"
    /\ UNCHANGED <<journal, receipt, operator, host, manual, live, snap, writes, payload>>

\* Set on the console; behind the operator's fence only a hand on the host
\* lifts it.
SetMaintenance ==
    /\ \/ manual = "never" /\ (Serving \/ Draining) /\ manual' = "set"
       \/ Manual /\ manual' = "lifted"
    /\ UNCHANGED <<journal, receipt, operator, host, data>>

-----------------------------------------------------------------------------
(* The operator process.                                                   *)

\* The next command joins a helper its predecessor left behind.
Starts(command) ==
    /\ operator = "none" /\ phase \notin Terminal
    /\ command = "recover" => phase # "opening"
    /\ operator' = command
    /\ helper' = FALSE
    /\ UNCHANGED <<journal, receipt, made, up, fence, schema, manual, data>>

\* It dies, or refuses to go on; incomplete copies are set aside.
Ends ==
    /\ operator # "none"
    /\ operator' = "none"
    /\ snap' = IF snap = Partial THEN None ELSE snap
    /\ live' = IF live["restored"] = Partial THEN [live EXCEPT !["restored"] = None] ELSE live
    /\ UNCHANGED <<journal, receipt, host, manual, writes, busy, payload>>

\* Mutant: running containers are not looked for.
ColdUnseen == TRUE

\* assert_cold: no container and no process writes the deployment's roots.
Cold == ~up

\* _owned_fence: the fence in the original root is the operation's own.
Owned == fence["original"]

At(p) == operator = "resume" /\ phase = p

Saves(p) == phase' = p /\ UNCHANGED <<mode, noted, moves>>

Quiet == UNCHANGED <<receipt, operator, manual>>

\* A step that only writes the journal.
OnlySaves(p) == Saves(p) /\ Quiet /\ UNCHANGED <<host, data>>

\* docker compose stop.
StopsContainers ==
    /\ up /\ up' = FALSE
    /\ UNCHANGED <<journal, receipt, operator, manual, made, helper, fence, schema, data>>

\* Mutant: a receipt is published once.
PublishableOnce(value) == receipt = noted

\* _publish: the receipt is the journal's, or already the new one.
Publishable(value) == receipt \in {value, noted}

Publishes(value) ==
    /\ receipt # value /\ Publishable(value)
    /\ receipt' = value
    /\ UNCHANGED <<journal, operator, host, manual, data>>

\* The journal takes the receipt over once it is there.
SavesReceipt(p, value) ==
    /\ receipt = value /\ Publishable(value)
    /\ phase' = p /\ noted' = value
    /\ Quiet /\ UNCHANGED <<mode, moves, host, data>>

-----------------------------------------------------------------------------
(* Forward: fence, snapshot, database, activation, opening.                *)

\* The live preflight of the command refuses unfinished business transactions;
\* the command fences later and does not look again.
Preflight ==
    /\ operator = "resume" /\ phase \in {"images_prepared", "fencing"} /\ ~Owned
    /\ ~Busy
    /\ operator' = "checked"
    /\ UNCHANGED <<journal, receipt, host, manual, data>>

SelectFence ==
    /\ operator = "checked" /\ phase = "images_prepared" /\ ~Owned /\ ~Manual
    /\ OnlySaves("fencing")

LinkFence ==
    /\ operator = "checked" /\ phase = "fencing" /\ ~Owned
    /\ fence' = [fence EXCEPT !["original"] = TRUE]
    /\ operator' = "resume"
    /\ UNCHANGED <<journal, receipt, manual, made, up, helper, schema, data>>

SaveFenced == At("fencing") /\ Owned /\ OnlySaves("fenced")

SelectStop == At("fenced") /\ Owned /\ OnlySaves("stopping")

StopOld == At("stopping") /\ StopsContainers

SaveCold == At("stopping") /\ Cold /\ Owned /\ OnlySaves("cold")

SelectSnapshot == At("cold") /\ Cold /\ OnlySaves("backing_up")

BackupStarts ==
    /\ At("backing_up") /\ Cold /\ snap = None
    /\ snap' = Partial
    /\ Quiet /\ UNCHANGED <<journal, host, live, writes, busy, payload>>

BackupEnds ==
    /\ At("backing_up") /\ snap = Partial
    /\ snap' = live["original"]
    /\ Quiet /\ UNCHANGED <<journal, host, live, writes, busy, payload>>

SaveBackedUp == At("backing_up") /\ snap >= 0 /\ Owned /\ OnlySaves("backed_up")

SelectInspection == At("backed_up") /\ Cold /\ OnlySaves("database_inspecting")

\* The helper's cold inspection must agree with the live preflight.
SaveBaseline == At("database_inspecting") /\ Cold /\ ~Busy /\ OnlySaves("database_preparing")

HelperStarts ==
    /\ At("database_preparing") /\ Cold /\ Owned /\ ~helper /\ schema # "new"
    /\ helper' = TRUE
    /\ Quiet /\ UNCHANGED <<journal, made, up, fence, schema, data>>

\* init_db: statements that commit one by one, in a container of its own.
HelperMigrates ==
    /\ helper
    /\ schema' = IF schema = "old" THEN "mixed" ELSE "new"
    /\ helper' = (schema = "old")
    /\ UNCHANGED <<journal, receipt, operator, manual, made, up, fence, data>>

SavePrepared ==
    /\ At("database_preparing") /\ Cold /\ Owned /\ ~helper /\ schema = "new"
    /\ OnlySaves("database_prepared")

SelectActivation == At("database_prepared") /\ Cold /\ Owned /\ OnlySaves("activating")

StartsPackage(package) ==
    /\ ~(up /\ made = package)
    /\ made' = package /\ up' = TRUE
    /\ Quiet /\ UNCHANGED <<journal, helper, fence, schema, data>>

StartTarget == At("activating") /\ Owned /\ StartsPackage("target")

PublishActive == At("activating") /\ Owned /\ up /\ made = "target" /\ Publishes("active_fenced")

SaveActive == At("activating") /\ SavesReceipt("active_fenced", "active_fenced")

ProbeFenced == At("active_fenced") /\ Owned /\ up /\ ~Manual /\ OnlySaves("opening_stopping")

StopFenced == At("opening_stopping") /\ Owned /\ ~Manual /\ StopsContainers

SaveStopped == At("opening_stopping") /\ Owned /\ ~Manual /\ Cold /\ OnlySaves("opening_stopped")

PublishOpening == At("opening_stopped") /\ Owned /\ ~Manual /\ Publishes("opening")

SaveOpening == At("opening_stopped") /\ Owned /\ ~Manual /\ SavesReceipt("opening", "opening")

UnlinkFence ==
    /\ At("opening") /\ Owned /\ ~Manual /\ Cold
    /\ fence' = [fence EXCEPT !["original"] = FALSE]
    /\ Quiet /\ UNCHANGED <<journal, made, up, helper, schema, data>>

StartBusiness == At("opening") /\ ~Owned /\ ~Manual /\ StartsPackage("target")

PublishReady == At("opening") /\ ~Owned /\ ~Manual /\ up /\ Publishes("ready")

SaveOpened == At("opening") /\ SavesReceipt("opened", "ready")

Forward ==
    \/ Preflight \/ SelectFence \/ LinkFence \/ SaveFenced \/ SelectStop \/ StopOld \/ SaveCold
    \/ SelectSnapshot \/ BackupStarts \/ BackupEnds \/ SaveBackedUp
    \/ SelectInspection \/ SaveBaseline \/ HelperStarts \/ SavePrepared
    \/ SelectActivation \/ StartTarget \/ PublishActive \/ SaveActive
    \/ ProbeFenced \/ StopFenced \/ SaveStopped \/ PublishOpening \/ SaveOpening
    \/ UnlinkFence \/ StartBusiness \/ PublishReady \/ SaveOpened

-----------------------------------------------------------------------------
(* Recovery: the original resources again, or the snapshot beside them.    *)

Begins(how, p) ==
    /\ phase' = p /\ mode' = how
    /\ Quiet /\ UNCHANGED <<noted, moves, host, data>>

\* No fence was published: the journal is cancelled, nothing is restarted.
CancelJournal ==
    /\ operator = "recover" /\ mode = "forward" /\ phase \in {"images_prepared", "fencing"}
    /\ ~Owned /\ receipt = noted
    /\ Begins("abort", "aborted")

\* The database was never prepared: the original package is reopened.
SelectAbort ==
    /\ operator = "recover" /\ mode = "forward" /\ phase \in Early
    /\ Owned /\ receipt = noted
    /\ Begins("abort", "recovering")

\* The database may be prepared: the snapshot is restored beside it.
SelectRestore ==
    /\ operator = "recover" /\ mode = "forward" /\ phase \in BeforeOpen
    /\ Owned /\ ~Manual
    /\ Begins("restore", "recovering")

Continues(how, p) == operator # "none" /\ mode = how /\ phase = p /\ Owned /\ ~Manual

StopFailed == \E how \in {"abort", "restore"} : Continues(how, "recovering") /\ StopsContainers

SaveStoppedAbort == Continues("abort", "recovering") /\ Cold /\ OnlySaves("restored_fenced")

SaveRestoring == Continues("restore", "recovering") /\ Cold /\ ~helper /\ OnlySaves("restoring")

RestoreStarts ==
    /\ Continues("restore", "restoring") /\ Cold /\ live["restored"] = None
    /\ live' = [live EXCEPT !["restored"] = Partial]
    /\ Quiet /\ UNCHANGED <<journal, host, snap, writes, busy, payload>>

\* The snapshot holds the fence too.
RestoreEnds ==
    /\ Continues("restore", "restoring") /\ live["restored"] = Partial
    /\ live' = [live EXCEPT !["restored"] = snap]
    /\ fence' = [fence EXCEPT !["restored"] = TRUE]
    /\ Quiet /\ UNCHANGED <<journal, made, up, helper, schema, snap, writes, busy, payload>>

SaveRestored ==
    /\ Continues("restore", "restoring") /\ live["restored"] >= 0
    /\ OnlySaves("state_restored")

SaveMove(p, step) ==
    /\ phase' = "moving" /\ moves' = [moves EXCEPT ![p] = step]
    /\ Quiet /\ UNCHANGED <<mode, noted, host, data>>

Moving == \/ Continues("restore", "state_restored")
          \/ Continues("restore", "moving")

IntendMove(p) ==
    /\ Moving /\ Cold /\ fence["restored"]
    /\ moves[p] = "none" /\ payload[p] = "original"
    /\ \A q \in Payloads : moves[q] # "intent"
    /\ SaveMove(p, "intent")

\* renameat2 without replacement, both directories synced.
RenamePayload(p) ==
    /\ Moving /\ Cold /\ moves[p] = "intent" /\ payload[p] = "original"
    /\ payload' = [payload EXCEPT ![p] = "restored"]
    /\ Quiet /\ UNCHANGED <<journal, host, live, snap, writes, busy>>

SaveMoved(p) ==
    /\ Moving /\ moves[p] = "intent" /\ payload[p] = "restored"
    /\ SaveMove(p, "moved")

SavePayloads ==
    /\ Moving /\ \A p \in Payloads : moves[p] = "moved"
    /\ OnlySaves("restored_fenced")

\* From here both ways are one: verify cold, create, persist, unlink, start.
Reopens(p) == \E how \in {"abort", "restore"} : Continues(how, p)

SelectVerification == Reopens("restored_fenced") /\ Cold /\ OnlySaves("restored_verifying")

\* An abort may find unfinished uploads, a restored database may not.
SaveVerified ==
    /\ Reopens("restored_verifying") /\ Cold /\ (mode = "restore" => ~Busy)
    /\ OnlySaves("restored_verified")

CreateOriginal ==
    /\ Reopens("restored_verified") /\ Cold
    /\ LET package == IF mode = "restore" THEN "restored" ELSE "old"
       IN made # package /\ made' = package
    /\ Quiet /\ UNCHANGED <<journal, up, helper, fence, schema, data>>

SaveReopening ==
    /\ Reopens("restored_verified") /\ Cold /\ Root = Target /\ made # "target"
    /\ OnlySaves("restored_opening")

\* After the boundary only the fence of the failed root is the operation's.
Reopening ==
    /\ operator # "none" /\ phase = "restored_opening"
    /\ ~Manual /\ (mode = "restore" => Owned)

PublishReopening == Reopening /\ receipt # "r_ready" /\ Publishes("r_opening")

NoteReopening ==
    /\ Reopening /\ \E value \in {"r_opening", "r_ready"} :
         noted # value /\ SavesReceipt("restored_opening", value)

Announced == noted \in {"r_opening", "r_ready"}

UnlinkRestored ==
    /\ Reopening /\ Announced /\ fence[Target] /\ Cold
    /\ fence' = [fence EXCEPT ![Target] = FALSE]
    /\ Quiet /\ UNCHANGED <<journal, made, up, helper, schema, data>>

StartRestored == Reopening /\ Announced /\ ~fence[Target] /\ StartsPackage(made)

PublishRestored == Reopening /\ Announced /\ up /\ Publishes("r_ready")

SaveReopened ==
    /\ Reopening /\ Announced /\ up
    /\ SavesReceipt("restored_opened", "r_ready")

Recovery ==
    \/ CancelJournal \/ SelectAbort \/ SelectRestore
    \/ StopFailed \/ SaveStoppedAbort \/ SaveRestoring
    \/ RestoreStarts \/ RestoreEnds \/ SaveRestored
    \/ \E p \in Payloads : IntendMove(p) \/ RenamePayload(p) \/ SaveMoved(p)
    \/ SavePayloads
    \/ SelectVerification \/ SaveVerified \/ CreateOriginal \/ SaveReopening
    \/ PublishReopening \/ NoteReopening \/ UnlinkRestored \/ StartRestored
    \/ PublishRestored \/ SaveReopened

-----------------------------------------------------------------------------
Start == \E command \in {"resume", "recover"} : Starts(command)

Outside == BusinessWrites \/ BusinessBegins \/ BusinessFinishes \/ SetMaintenance

Next == Start \/ Ends \/ Forward \/ Recovery \/ HelperMigrates \/ Outside

Spec == Init /\ [][Next]_opvars

\* The host repeats the command until it has an answer, an administrator lifts
\* a maintenance of his own, no command or helper dies at the same step
\* for ever, and the preflight finds the business idle sooner or later.
Rises == SetMaintenance /\ Manual

Fairness ==
    /\ WF_opvars(Start) /\ WF_opvars(Rises)
    /\ WF_opvars(BusinessFinishes) /\ SF_opvars(HelperMigrates)
    /\ SF_opvars(Forward \/ Recovery)
    /\ SF_opvars(BackupEnds) /\ SF_opvars(RestoreEnds)
    /\ SF_opvars(SavePrepared) /\ SF_opvars(Preflight)
    /\ SF_opvars(SelectFence) /\ SF_opvars(LinkFence)

FairSpec == Spec /\ Fairness

-----------------------------------------------------------------------------
(* Properties                                                              *)

\* Where no command helps: a receipt that the journal does not know, and a
\* business transaction begun after the live preflight and left unfinished in a
\* database that only a restored snapshot can reopen.
LostReceipt == mode = "restore" /\ receipt \notin {noted, "r_opening", "r_ready"}
LateWork == mode # "abort" /\ Busy /\ phase \notin Early

\* Every operation ends - opened, or reopened, or cancelled - unless it comes to
\* one of these two states, each of which a run of its own shows.
OpSettles == <>(phase \in Terminal \/ LostReceipt \/ LateWork)

\* "Every phase must survive process death and lost command output"
\* (docs/python-source-operator.md): a recovery ends whenever its database was
\* idle.
SurvivesDeath == <>(phase \in Terminal \/ Busy)

\* An administrator who does not insist on an upgrade that is refused: every
\* command ends, recover is called again and again, and chooses its way back.
RecoverSpec ==
    /\ FairSpec
    /\ WF_opvars(Ends) /\ SF_opvars(Starts("recover"))
    /\ SF_opvars(SelectAbort) /\ SF_opvars(SelectRestore)

\* "A later race which leaves new work after fencing still requires controlled
\* old-version reopening; it is not permission to ignore work"
\* (docs/python-source-operator.md): that reopening comes to an end.
LateWorkReopens == (Owned /\ Busy) ~> (phase \in Terminal \/ LostReceipt)

=============================================================================
