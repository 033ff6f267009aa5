------------------------ MODULE ControlServices_proof ------------------------
(* Proofs about the control services that have no proof module of their own,  *)
(* each for every value of its constants: OperatorUpgrade, MigrationAdmission *)
(* and IpSecurity.                                                            *)
EXTENDS OperatorUpgrade, AdmState, SecState, TLAPS

-----------------------------------------------------------------------------
(* OperatorUpgrade: the inductive invariant says, for each direction of the   *)
(* journal, what each phase has already made of the containers, the fences    *)
(* and the copies of the data.                                                *)

Receipts == {"previous", "active_fenced", "opening", "ready", "r_opening", "r_ready"}

OpTypes ==
    /\ made \in {"old", "target", "restored"} /\ up \in BOOLEAN /\ helper \in BOOLEAN
    /\ fence \in [Roots -> BOOLEAN] /\ schema \in {"old", "mixed", "new"}
    /\ operator \in {"none", "resume", "checked", "recover"} /\ receipt \in Receipts
    /\ live \in [Roots -> Int] /\ writes \in Nat /\ snap \in Int
    /\ payload \in [Payloads -> Roots]
    /\ moves \in [Payloads -> {"none", "intent", "moved"}]

\* The phases of a forward upgrade in their order.
Drained == {"cold", "backing_up"}
Copied == {"backed_up", "database_inspecting", "database_preparing", "database_prepared"}
Active == {"active_fenced", "opening_stopping", "opening_stopped"}
Opening == {"opening", "opened"}

\* The phases of a recovery in their order.
Copying == {"recovering", "restoring"}
Carrying == {"state_restored", "moving"}
Checking == {"restored_fenced", "restored_verifying", "restored_verified"}
Reopened == {"restored_opening", "restored_opened"}

\* The original root is the only one, and the old package or the target serve it.
Original ==
    /\ made # "restored" /\ live["original"] = writes /\ live["restored"] = None
    /\ \A p \in Payloads : payload[p] = "original" /\ moves[p] = "none"
    /\ ~fence["restored"]

ForwardFits ==
    /\ Original
    /\ phase \in Early \cup BeforeOpen \cup Opening
    /\ phase \in {"fenced", "stopping"} \cup Drained \cup BeforeOpen => fence["original"]
    /\ up /\ phase \in Drained \cup Copied \cup {"activating"} => made = "target"
    /\ phase \in Early \cup Copied => made = "old"
    /\ phase \in Active \cup Opening => made = "target"
    /\ receipt = "active_fenced" => made = "target"
    /\ phase \in Early \cup {"backed_up", "database_inspecting"} => schema = "old"
    /\ phase \in {"database_prepared", "activating"} \cup Active \cup Opening => schema = "new"
    /\ phase \in BeforeOpen => snap = writes
    /\ phase = "backing_up" => snap \in {None, Partial, writes}
    /\ phase \in Early \ {"backing_up"} => snap = None
    /\ receipt = "previous" \/ phase \notin Early \cup Copied
    /\ helper => phase = "database_preparing" /\ operator # "recover"

AbortFits ==
    /\ Original
    /\ phase \in {"aborted", "recovering"} \cup Checking \cup Reopened
    /\ made = "old" /\ schema = "old" /\ ~helper

RestoreFits ==
    /\ phase \in Copying \cup Carrying \cup Checking \cup Reopened
    /\ fence["original"] /\ ~helper
    /\ phase \in Copying => snap = writes /\ live["restored"] \in {None, Partial, writes}
    /\ phase = "restoring" /\ live["restored"] >= 0 => fence["restored"]
    /\ phase = "recovering" => live["restored"] = None
    /\ phase \in Copying \cup Carrying => made # "restored"
    /\ phase \in Carrying \cup Checking => fence["restored"]
    /\ phase \in Carrying \cup Checking \cup Reopened => live["restored"] = writes
    /\ phase \in Checking \cup Reopened => \A p \in Payloads : payload[p] = "restored"
    /\ phase \in Reopened => made = "restored"
    /\ \A p \in Payloads : moves[p] = "moved" => payload[p] = "restored"

OpInv ==
    /\ OpTypes
    /\ mode \in {"forward", "abort", "restore"}
    /\ mode = "forward" => ForwardFits
    /\ mode = "abort" => AbortFits
    /\ mode = "restore" => RestoreFits

-----------------------------------------------------------------------------
\* What business, administration, a command that starts or dies and a helper that
\* outlives its command do: a write reaches the root that is served, and none is
\* served while the snapshot or the copy made from it is still wanted.
LEMMA OutsideKeeps ==
  ASSUME OpInv, Outside \/ Start \/ Ends \/ HelperMigrates
  PROVE  OpInv'
<1> USE DEF OpInv, OpTypes, ForwardFits, AbortFits, RestoreFits, Original
<1> USE DEF Drained, Copied, Active, Opening, Copying, Carrying, Checking, Reopened
<1> USE DEF Early, BeforeOpen, Receipts, Roots, Root, None, Partial, journal, host, data
<1>1. CASE BusinessWrites
  BY <1>1 DEF BusinessWrites, Serving, Draining
<1>2. CASE BusinessBegins
  BY <1>2 DEF BusinessBegins, Serving, Draining
<1>3. CASE BusinessFinishes
  BY <1>3 DEF BusinessFinishes, Serving, Draining
<1>4. CASE SetMaintenance
  BY <1>4 DEF SetMaintenance, Serving, Draining
<1>5. CASE Start
  <2>1. /\ operator' \in {"resume", "recover"} /\ helper' = FALSE
        /\ UNCHANGED <<journal, receipt, made, up, fence, schema, manual, data>>
    BY <1>5 DEF Start, Starts
  <2>2. OpTypes'
    BY <2>1
  <2>3. mode = "forward" => ForwardFits'
    BY <2>1
  <2>4. mode = "abort" => AbortFits'
    BY <2>1
  <2>5. mode = "restore" => RestoreFits'
    BY <2>1
  <2>6. QED
    BY <2>1, <2>2, <2>3, <2>4, <2>5
<1>6. CASE Ends
  BY <1>6 DEF Ends
<1>7. CASE HelperMigrates
  BY <1>7 DEF HelperMigrates
<1>8. QED
  BY <1>1, <1>2, <1>3, <1>4, <1>5, <1>6, <1>7 DEF Outside

\* Up to the snapshot: the fence is published before the containers stop, and both
\* before the copy is made.
LEMMA SnapshotKeeps ==
  ASSUME OpInv, Preflight \/ SelectFence \/ LinkFence \/ SaveFenced \/ SelectStop \/ StopOld \/ SaveCold
         \/ SelectSnapshot \/ BackupStarts \/ BackupEnds \/ SaveBackedUp
  PROVE  OpInv'
<1> USE DEF OpInv, OpTypes, ForwardFits, AbortFits, RestoreFits, Original
<1> USE DEF Drained, Copied, Active, Opening, Copying, Carrying, Checking, Reopened
<1> USE DEF Early, BeforeOpen, Receipts, Roots, Root, None, Partial, journal, host, data
<1>1. CASE SelectFence
  BY <1>1 DEF SelectFence, Owned, OnlySaves, Saves, Quiet
<1>2. CASE LinkFence
  BY <1>2 DEF LinkFence, Owned
<1>3. CASE SaveFenced
  BY <1>3 DEF SaveFenced, At, Owned, OnlySaves, Saves, Quiet
<1>4. CASE SelectStop
  BY <1>4 DEF SelectStop, At, Owned, OnlySaves, Saves, Quiet
<1>5. CASE StopOld
  BY <1>5 DEF StopOld, At, StopsContainers
<1>6. CASE SaveCold
  BY <1>6 DEF SaveCold, At, Cold, Owned, OnlySaves, Saves, Quiet
<1>7. CASE SelectSnapshot
  BY <1>7 DEF SelectSnapshot, At, Cold, OnlySaves, Saves, Quiet
<1>8. CASE BackupStarts
  BY <1>8 DEF BackupStarts, At, Cold, Quiet
<1>9. CASE BackupEnds
  BY <1>9 DEF BackupEnds, At, Quiet
<1>10. CASE SaveBackedUp
  BY <1>10 DEF SaveBackedUp, At, Owned, OnlySaves, Saves, Quiet
<1>11. CASE Preflight
  BY <1>11 DEF Preflight, Owned
<1>12. QED
  BY <1>1, <1>2, <1>3, <1>4, <1>5, <1>6, <1>7, <1>8, <1>9, <1>10, <1>11

\* From the database to the opening: the target never runs on a database that is
\* not prepared, nor the old package on one that may be.
LEMMA ActivationKeeps ==
  ASSUME OpInv, SelectInspection \/ SaveBaseline \/ HelperStarts \/ SavePrepared
         \/ SelectActivation \/ StartTarget \/ PublishActive \/ SaveActive \/ ProbeFenced
         \/ StopFenced \/ SaveStopped \/ PublishOpening \/ SaveOpening \/ UnlinkFence
         \/ StartBusiness \/ PublishReady \/ SaveOpened
  PROVE  OpInv'
<1> USE DEF OpInv, OpTypes, ForwardFits, AbortFits, RestoreFits, Original
<1> USE DEF Drained, Copied, Active, Opening, Copying, Carrying, Checking, Reopened
<1> USE DEF Early, BeforeOpen, Receipts, Roots, Root, None, Partial, journal, host, data
<1>1. CASE SelectInspection
  BY <1>1 DEF SelectInspection, At, Cold, OnlySaves, Saves, Quiet
<1>2. CASE SaveBaseline
  BY <1>2 DEF SaveBaseline, At, Cold, OnlySaves, Saves, Quiet
<1>3. CASE HelperStarts
  BY <1>3 DEF HelperStarts, At, Cold, Owned, Quiet
<1>4. CASE SavePrepared
  BY <1>4 DEF SavePrepared, At, Cold, Owned, OnlySaves, Saves, Quiet
<1>5. CASE SelectActivation
  BY <1>5 DEF SelectActivation, At, Cold, Owned, OnlySaves, Saves, Quiet
<1>6. CASE StartTarget
  BY <1>6 DEF StartTarget, At, Owned, StartsPackage, Quiet
<1>7. CASE PublishActive
  BY <1>7 DEF PublishActive, At, Owned, Publishes, Publishable
<1>8. CASE SaveActive
  BY <1>8 DEF SaveActive, At, SavesReceipt, Publishable, Quiet
<1>9. CASE ProbeFenced
  BY <1>9 DEF ProbeFenced, At, Owned, OnlySaves, Saves, Quiet
<1>10. CASE StopFenced
  BY <1>10 DEF StopFenced, At, Owned, StopsContainers
<1>11. CASE SaveStopped
  BY <1>11 DEF SaveStopped, At, Owned, Cold, OnlySaves, Saves, Quiet
<1>12. CASE PublishOpening
  BY <1>12 DEF PublishOpening, At, Owned, Publishes, Publishable
<1>13. CASE SaveOpening
  BY <1>13 DEF SaveOpening, At, Owned, SavesReceipt, Publishable, Quiet
<1>14. CASE UnlinkFence
  BY <1>14 DEF UnlinkFence, At, Owned, Cold, Quiet
<1>15. CASE StartBusiness
  BY <1>15 DEF StartBusiness, At, Owned, StartsPackage, Quiet
<1>16. CASE PublishReady
  BY <1>16 DEF PublishReady, At, Owned, Publishes, Publishable
<1>17. CASE SaveOpened
  BY <1>17 DEF SaveOpened, At, SavesReceipt, Publishable, Quiet
<1>18. QED
  BY <1>1, <1>2, <1>3, <1>4, <1>5, <1>6, <1>7, <1>8, <1>9, <1>10, <1>11, <1>12, <1>13,
     <1>14, <1>15, <1>16, <1>17

\* The choice of a recovery, and the restoration beside the original root up to the
\* last moved payload.
LEMMA RestoreKeeps ==
  ASSUME OpInv, CancelJournal \/ SelectAbort \/ SelectRestore \/ StopFailed
         \/ SaveStoppedAbort \/ SaveRestoring \/ RestoreStarts \/ RestoreEnds
         \/ SaveRestored \/ (\E p \in Payloads : IntendMove(p))
         \/ (\E p \in Payloads : RenamePayload(p)) \/ (\E p \in Payloads : SaveMoved(p))
         \/ SavePayloads
  PROVE  OpInv'
<1> USE DEF OpInv, OpTypes, ForwardFits, AbortFits, RestoreFits, Original
<1> USE DEF Drained, Copied, Active, Opening, Copying, Carrying, Checking, Reopened
<1> USE DEF Early, BeforeOpen, Receipts, Roots, Root, None, Partial, journal, host, data
<1>1. CASE CancelJournal
  BY <1>1 DEF CancelJournal, Owned, Begins, Quiet
<1>2. CASE SelectAbort
  BY <1>2 DEF SelectAbort, Owned, Begins, Quiet
<1>3. CASE SelectRestore
  BY <1>3 DEF SelectRestore, Owned, Begins, Quiet
<1>4. CASE StopFailed
  <2>1. PICK how \in {"abort", "restore"} : Continues(how, "recovering") /\ StopsContainers
    BY <1>4 DEF StopFailed
  <2>2. QED
    BY <2>1 DEF Continues, StopsContainers
<1>5. CASE SaveStoppedAbort
  BY <1>5 DEF SaveStoppedAbort, Continues, Owned, Cold, OnlySaves, Saves, Quiet
<1>6. CASE SaveRestoring
  BY <1>6 DEF SaveRestoring, Continues, Owned, Cold, OnlySaves, Saves, Quiet
<1>7. CASE RestoreStarts
  BY <1>7 DEF RestoreStarts, Continues, Owned, Cold, Quiet
<1>8. CASE RestoreEnds
  BY <1>8 DEF RestoreEnds, Continues, Owned, Quiet
<1>9. CASE SaveRestored
  BY <1>9 DEF SaveRestored, Continues, Owned, OnlySaves, Saves, Quiet
<1>10. CASE \E p \in Payloads : IntendMove(p)
  BY <1>10 DEF IntendMove, Moving, Continues, Owned, Cold, SaveMove, Quiet
<1>11. CASE \E p \in Payloads : RenamePayload(p)
  BY <1>11 DEF RenamePayload, Moving, Continues, Owned, Cold, Quiet
<1>12. CASE \E p \in Payloads : SaveMoved(p)
  BY <1>12 DEF SaveMoved, Moving, Continues, Owned, SaveMove, Quiet
<1>13. CASE SavePayloads
  BY <1>13 DEF SavePayloads, Moving, Continues, Owned, OnlySaves, Saves, Quiet
<1>14. QED
  BY <1>1, <1>2, <1>3, <1>4, <1>5, <1>6, <1>7, <1>8, <1>9, <1>10, <1>11, <1>12, <1>13

\* The way both recoveries share, from the cold verification to the reopening.
LEMMA ReopeningKeeps ==
  ASSUME OpInv, SelectVerification \/ SaveVerified \/ CreateOriginal \/ SaveReopening
         \/ PublishReopening \/ NoteReopening \/ UnlinkRestored \/ StartRestored
         \/ PublishRestored \/ SaveReopened
  PROVE  OpInv'
<1> USE DEF OpInv, OpTypes, ForwardFits, AbortFits, RestoreFits, Original
<1> USE DEF Drained, Copied, Active, Opening, Copying, Carrying, Checking, Reopened
<1> USE DEF Early, BeforeOpen, Receipts, Roots, Root, None, Partial, journal, host, data
<1>1. CASE SelectVerification
  BY <1>1 DEF SelectVerification, Reopens, Continues, Owned, Cold, OnlySaves, Saves,
              Quiet
<1>2. CASE SaveVerified
  BY <1>2 DEF SaveVerified, Reopens, Continues, Owned, Cold, OnlySaves, Saves, Quiet
<1>3. CASE CreateOriginal
  BY <1>3 DEF CreateOriginal, Reopens, Continues, Owned, Cold, Quiet
<1>4. CASE SaveReopening
  BY <1>4 DEF SaveReopening, Reopens, Continues, Owned, Cold, Target, OnlySaves, Saves,
              Quiet
<1>5. CASE PublishReopening
  BY <1>5 DEF PublishReopening, Reopening, Owned, Publishes, Publishable
<1>6. CASE NoteReopening
  BY <1>6 DEF NoteReopening, Reopening, Owned, SavesReceipt, Publishable, Quiet
<1>7. CASE UnlinkRestored
  BY <1>7 DEF UnlinkRestored, Reopening, Owned, Announced, Target, Cold, Quiet
<1>8. CASE StartRestored
  BY <1>8 DEF StartRestored, Reopening, Owned, Announced, Target, StartsPackage, Quiet
<1>9. CASE PublishRestored
  BY <1>9 DEF PublishRestored, Reopening, Owned, Announced, Publishes, Publishable
<1>10. CASE SaveReopened
  BY <1>10 DEF SaveReopened, Reopening, Owned, Announced, SavesReceipt, Publishable,
               Quiet
<1>11. QED
  BY <1>1, <1>2, <1>3, <1>4, <1>5, <1>6, <1>7, <1>8, <1>9, <1>10

\* Every step of the specification keeps the invariant.
LEMMA UpgradeKeeps == ASSUME OpInv, [Next]_opvars PROVE OpInv'
<1>1. CASE Next
  <2>1. CASE Forward
    BY <2>1, SnapshotKeeps, ActivationKeeps DEF Forward
  <2>2. CASE Recovery
    BY <2>2, RestoreKeeps, ReopeningKeeps DEF Recovery
  <2>3. CASE Outside \/ Start \/ Ends \/ HelperMigrates
    BY <2>3, OutsideKeeps
  <2>4. QED
    BY <1>1, <2>1, <2>2, <2>3 DEF Next
<1>2. CASE UNCHANGED opvars
  BY <1>2 DEF opvars, journal, host, data, OpInv, OpTypes, ForwardFits, AbortFits, RestoreFits,
     Original
<1>3. QED
  BY <1>1, <1>2

\* No run of an upgrade, of its recoveries and of their deaths loses a write, mixes
\* generations of the database or serves without the payloads.
THEOREM UpgradeSound == Spec => []OpSound
<1>1. Init => OpInv
  <2>1. SUFFICES ASSUME Init PROVE OpInv
    OBVIOUS
  <2>2. OpTypes
    <3>1. live \in [Roots -> Int]
      BY <2>1 DEF Init, Roots, None
    <3>2. fence \in [Roots -> BOOLEAN]
      BY <2>1 DEF Init, Roots, None
    <3>3. payload \in [Payloads -> Roots] /\ moves \in [Payloads -> {"none", "intent", "moved"}]
      BY <2>1 DEF Init, Roots, None
    <3>4. made \in {"old", "target", "restored"} /\ schema \in {"old", "mixed", "new"}
          /\ operator \in {"none", "resume", "checked", "recover"} /\ receipt \in Receipts
      BY <2>1 DEF Init, Receipts
    <3>5. up \in BOOLEAN /\ helper \in BOOLEAN
      BY <2>1 DEF Init
    <3>6. writes \in Nat /\ snap \in Int
      BY <2>1 DEF Init, None
    <3>7. QED
      BY <3>1, <3>2, <3>3, <3>4, <3>5, <3>6 DEF OpTypes
  <2>3. ForwardFits /\ mode = "forward"
    BY <2>1 DEF Init, ForwardFits, Original, Roots, None, Early, BeforeOpen, Drained, Copied, Active,
       Opening
  <2>4. QED
    BY <2>2, <2>3 DEF OpInv
<1>2. OpInv => OpSound
  BY DEF OpInv, OpTypes, ForwardFits, AbortFits, RestoreFits, Original, Early, BeforeOpen, Drained,
     Copied, Active, Opening, Copying, Carrying, Checking, Reopened, Roots, OpSound, NoWriteLost,
     SchemaServed, PayloadServed, Serving, Root
<1>3. QED
  BY <1>1, <1>2, UpgradeKeeps, PTL DEF Spec

-----------------------------------------------------------------------------
(* MigrationAdmission: the inductive invariant says how far a member's row    *)
(* may be at each turn of the runner, that what was looked at under a seal    *)
(* stays as it was, and that nobody was asked to cancel before the task is.   *)

CONSTANT MaxMishaps

Adm == INSTANCE MigrationAdmission

TaskStates == {"none", "admitting", "prepared", "queued", "admission_aborting", "cancelled"}

Turns ==
    {"none", "revalidate", "install", "begin", "unit", "seal", "registry", "inventory", "again",
     "reseal", "prepared", "return", "takeoff", "probe", "queue", "mark", "cancel", "release"}

StepRows == [at : Turns, side : Adm!Sides, unit : Nat, flight : BOOLEAN]

ReservationRows ==
    [state : {"none", "preparing", "prepared", "aborted"}, scopes : SUBSET Nat,
     booked : BOOLEAN, drained : BOOLEAN]

Errors == {"", "transient", "refused", "lapsed", "interrupted"}

UploadRows ==
    [row : BOOLEAN, token : BOOLEAN, put : {"none", "receiving", "placed"}, side : Adm!Sides,
     unit : Nat, opened : Nat]

TaskRows ==
    [state : TaskStates, plan : [Adm!Units -> Nat], installed : SUBSET Nat, booked : BOOLEAN,
     drains : SUBSET Adm!Sides, error : Errors]

Versions == [Adm!Sides -> [Adm!Units -> Nat]]

AdmTypes ==
    /\ native \in Versions /\ catalog \in Versions /\ upload \in UploadRows
    /\ resv \in [Adm!Sides -> ReservationRows]
    /\ preview \in [at : Nat, plan : [Adm!Units -> Nat]]
    /\ task \in TaskRows /\ step \in StepRows /\ tardy \subseteq StepRows

\* No cancellation was ever asked of a member.
NoneCancelled ==
    /\ \A c \in tardy : c.at # "cancel"
    /\ \A m \in Adm!Sides : resv[m].state # "aborted"
    /\ step.at \notin {"mark", "cancel", "release"}

\* A member's row, whatever the Master knows.
RowFits(m) ==
    /\ resv[m].state \in {"preparing", "prepared"} =>
         resv[m].booked /\ (m = "source" => resv[m].drained)
    /\ resv[m].state = "prepared" => resv[m].scopes = Adm!Units
    /\ resv[m].state = "aborted" => resv[m] = [Adm!NoReservation EXCEPT !.state = "aborted"]

\* A member that was looked at under its seal: nothing can change there any more.
Looked(m) == Adm!Observed(m, task.plan) /\ ~Adm!Pending(m) /\ resv[m].state = "prepared"

AdmittingFits ==
    /\ NoneCancelled /\ task.booked /\ "source" \in task.drains
    /\ step.at = "registry" /\ step.side = "target" => Looked("source")
    /\ step.at \in {"inventory", "again", "reseal", "prepared"} => \A m \in Adm!Sides : Looked(m)

PreparedFits ==
    /\ NoneCancelled /\ task.booked /\ "source" \in task.drains /\ task.installed = Adm!Units
    /\ catalog["source"] = task.plan /\ ~upload.row
    /\ \A m \in Adm!Sides : Looked(m)

\* The members lose their reservations one after the other.
AbortingFits ==
    /\ step.at = "cancel" /\ step.side = "target" => resv["source"].state = "aborted"
    /\ step.at = "release" => \A m \in Adm!Sides : resv[m].state = "aborted"

AdmInv ==
    /\ AdmTypes
    /\ upload.row \/ upload.token \/ upload.put = "receiving" => upload.unit \in Adm!Units
    /\ \A m \in Adm!Sides : RowFits(m)
    /\ task.state = "none" => NoneCancelled /\ step.at = "none"
    /\ task.state = "admitting" => AdmittingFits
    /\ task.state \in {"prepared", "queued"} => PreparedFits
    /\ task.state = "admission_aborting" => AbortingFits
    /\ task.state = "cancelled" =>
         /\ \A m \in Adm!Sides : resv[m].state = "aborted"
         /\ task.installed = {} /\ ~task.booked /\ task.drains = {}
         /\ step.at \notin {"mark", "cancel", "release"}
\* What an action makes of the fields of a row.
SameTask ==
    /\ task'.state = task.state /\ task'.plan = task.plan /\ task'.installed = task.installed
    /\ task'.booked = task.booked /\ task'.drains = task.drains

\* A turn that starts over at the Source keeps the flight it is on.
LEMMA FirstIs ==
  ASSUME step \in StepRows, NEW at \in Turns
  PROVE  /\ Adm!First(at) \in StepRows
         /\ Adm!First(at).at = at /\ Adm!First(at).side = "source"
         /\ Adm!First(at).flight = step.flight
BY DEF StepRows, Adm!First, Adm!Sides

\* A turn that goes over to the Target.
LEMMA OtherIs ==
  ASSUME step \in StepRows, NEW at \in Turns
  PROVE  Adm!Other(at) \in StepRows /\ Adm!Other(at).at = at /\ Adm!Other(at).side = "target"
BY DEF StepRows, Adm!Other, Adm!Sides

\* A runner at rest asks nobody.
LEMMA NoStepIs == Adm!NoStep \in StepRows /\ Adm!NoStep.at = "none"
BY DEF Adm!NoStep, StepRows, Turns, Adm!Sides

\* A runner that gives up leaves nothing but the code of its error.
LEMMA FailsIs ==
  ASSUME AdmTypes, NEW code \in Errors, Adm!Fails(code)
  PROVE  task' \in TaskRows /\ SameTask /\ step' = Adm!NoStep
<1>1. task \in TaskRows
  BY DEF AdmTypes
<1>2. /\ task' = [task EXCEPT !.error = IF lease = "live" THEN code ELSE "lapsed"]
      /\ step' = Adm!NoStep
  BY DEF Adm!Fails
<1>3. (IF lease = "live" THEN code ELSE "lapsed") \in Errors
  BY DEF Errors
<1>4. QED
  BY <1>1, <1>2, <1>3 DEF TaskRows, SameTask

\* A call that was handled: a cancelled reservation stays cancelled, a prepared one stays
\* as it is unless it is cancelled.
LEMMA HandledIs ==
  ASSUME AdmTypes, NEW c \in StepRows, Adm!Handled(c), \A m \in Adm!Sides : RowFits(m)
  PROVE  /\ resv' \in [Adm!Sides -> ReservationRows]
         /\ \A m \in Adm!Sides : RowFits(m)'
         /\ \A m \in Adm!Sides : resv[m].state = "aborted" => resv'[m].state = "aborted"
         /\ \A m \in Adm!Sides : resv[m].state = "prepared" /\ c.at # "cancel" => resv'[m] = resv[m]
         /\ \A m \in Adm!Sides : resv'[m].state = "aborted" =>
              resv[m].state = "aborted" \/ c.at = "cancel"
         /\ c.at = "cancel" => resv'[c.side].state = "aborted"
<1>1. c.side \in Adm!Sides /\ c.unit \in Nat /\ resv[c.side] \in ReservationRows /\ RowFits(c.side)
  BY DEF AdmTypes, StepRows
<1> DEFINE old == resv[c.side]
           new == Adm!RowAfter(c)
           Fits(row) ==
             /\ row \in ReservationRows
             /\ row.state \in {"preparing", "prepared"} =>
                  row.booked /\ (c.side = "source" => row.drained)
             /\ row.state = "prepared" => row.scopes = Adm!Units
             /\ row.state = "aborted" => row = [Adm!NoReservation EXCEPT !.state = "aborted"]
             /\ old.state = "aborted" => row.state = "aborted"
             /\ old.state = "prepared" /\ c.at # "cancel" => row = old
             /\ row.state = "aborted" => old.state = "aborted" \/ c.at = "cancel"
             /\ c.at = "cancel" => row.state = "aborted"
<1>2. Fits(old) \/ c.at = "cancel"
  BY <1>1 DEF RowFits
<1>3. Fits(new)
  <2>1. CASE c.at = "begin"
    <3>1. new = Adm!BeginRow(c.side)
      BY <2>1 DEF Adm!RowAfter
    <3>2. CASE old.state = "none" /\ ~Adm!Pending(c.side)
      <4>1. new = [state |-> "preparing", scopes |-> {}, booked |-> TRUE,
                   drained |-> c.side = "source"]
        BY <3>1, <3>2 DEF Adm!BeginRow
      <4>2. CASE c.side = "source"
        <5>1. new = [state |-> "preparing", scopes |-> {}, booked |-> TRUE, drained |-> TRUE]
          BY <4>1, <4>2
        <5>2. QED
          BY <1>1, <2>1, <3>2, <4>2, <5>1 DEF ReservationRows
      <4>3. CASE c.side # "source"
        <5>1. new = [state |-> "preparing", scopes |-> {}, booked |-> TRUE, drained |-> FALSE]
          BY <4>1, <4>3
        <5>2. QED
          BY <1>1, <2>1, <3>2, <4>3, <5>1 DEF ReservationRows
      <4>4. QED
        BY <4>2, <4>3
    <3>3. CASE ~(old.state = "none" /\ ~Adm!Pending(c.side))
      BY <1>2, <2>1, <3>1, <3>3 DEF Adm!BeginRow
    <3>4. QED
      BY <3>2, <3>3
  <2>2. CASE c.at = "unit"
    <3>1. new = Adm!UnitRow(c.side, c.unit)
      BY <2>2 DEF Adm!RowAfter
    <3>2. CASE old.state = "preparing" /\ new # old
      <4>1. new = [old EXCEPT !.scopes = @ \cup {c.unit}]
        BY <3>1, <3>2 DEF Adm!UnitRow
      <4>2. QED
        BY <1>1, <2>2, <3>2, <4>1 DEF ReservationRows, RowFits
    <3>3. CASE ~(old.state = "preparing" /\ new # old)
      BY <1>2, <2>2, <3>1, <3>3 DEF Adm!UnitRow
    <3>4. QED
      BY <3>2, <3>3
  <2>3. CASE c.at = "seal"
    <3>1. new = Adm!SealRow(c.side)
      BY <2>3 DEF Adm!RowAfter
    <3>2. CASE old.state = "preparing" /\ old.scopes = Adm!Units
      <4>1. new = [old EXCEPT !.state = "prepared"]
        BY <3>1, <3>2 DEF Adm!SealRow
      <4>2. QED
        BY <1>1, <2>3, <3>2, <4>1 DEF ReservationRows, RowFits
    <3>3. CASE ~(old.state = "preparing" /\ old.scopes = Adm!Units)
      BY <1>2, <2>3, <3>1, <3>3 DEF Adm!SealRow
    <3>4. QED
      BY <3>2, <3>3
  <2>4. CASE c.at = "cancel"
    <3>1. new = [Adm!NoReservation EXCEPT !.state = "aborted"]
      BY <2>4 DEF Adm!RowAfter, Adm!CancelRow
    <3>2. QED
      BY <2>4, <3>1 DEF Adm!NoReservation, ReservationRows
  <2>5. CASE c.at \notin {"begin", "unit", "seal", "cancel"}
    BY <1>2, <2>5 DEF Adm!RowAfter
  <2>6. QED
    BY <2>1, <2>2, <2>3, <2>4, <2>5
<1>4. resv' = [resv EXCEPT ![c.side] = new]
  BY DEF Adm!Handled
<1> HIDE DEF new
<1>5. \A m \in Adm!Sides : resv'[m] = IF m = c.side THEN new ELSE resv[m]
  BY <1>1, <1>4 DEF AdmTypes
<1>6. resv' \in [Adm!Sides -> ReservationRows]
  BY <1>1, <1>3, <1>4 DEF AdmTypes
<1>7. QED
  BY <1>1, <1>3, <1>5, <1>6 DEF RowFits
\* The rows of members nobody asked still fit.
LEMMA RowsStay ==
  ASSUME resv' = resv, \A m \in Adm!Sides : RowFits(m)
  PROVE  \A m \in Adm!Sides : RowFits(m)'
BY DEF RowFits

\* What a turn of the runner may do: it keeps the files and the task, takes no prepared
\* row away before a cancellation, and stands where the members' rows allow it.
MayStand ==
    /\ task.state = "none" => step'.at = "none"
    /\ task.state \in {"admitting", "prepared", "queued", "cancelled"} =>
         step'.at \notin {"mark", "cancel", "release"}
    /\ task.state = "admitting" =>
         /\ step'.at = "registry" /\ step'.side = "target" => Looked("source")
         /\ step'.at \in {"inventory", "again", "reseal", "prepared"} =>
              \A m \in Adm!Sides : Looked(m)
    /\ task.state = "admission_aborting" =>
         /\ step'.at = "cancel" /\ step'.side = "target" => resv'["source"].state = "aborted"
         /\ step'.at = "release" => \A m \in Adm!Sides : resv'[m].state = "aborted"

RowsMove ==
    /\ resv' \in [Adm!Sides -> ReservationRows]
    /\ \A m \in Adm!Sides : RowFits(m)'
    /\ \A m \in Adm!Sides : resv[m].state = "aborted" => resv'[m].state = "aborted"
    /\ task.state \in {"none", "admitting", "prepared", "queued"} =>
         \A m \in Adm!Sides :
            /\ resv[m].state = "prepared" => resv'[m] = resv[m]
            /\ resv'[m].state = "aborted" => resv[m].state = "aborted"

CallsMove ==
    /\ tardy' \subseteq StepRows
    /\ task.state \in {"none", "admitting", "prepared", "queued"} =>
         \A c \in tardy' : c.at # "cancel"

\* What was looked at under its seal is as it was while files, plan and row stay.
LEMMA LookStays ==
  ASSUME NEW m \in Adm!Sides, Looked(m), task'.plan = task.plan, native' = native,
         upload' = upload, resv'[m] = resv[m]
  PROVE  Looked(m)'
BY DEF Looked, Adm!Observed, Adm!Pending

\* Whatever the runner does without a change of the task keeps the invariant, as long
\* as it stands where the rows allow it.
LEMMA TurnKeeps ==
  ASSUME AdmInv, native' = native, catalog' = catalog, upload' = upload,
         task' \in TaskRows, SameTask, step' \in StepRows,
         preview' \in [at : Nat, plan : [Adm!Units -> Nat]],
         MayStand, RowsMove, CallsMove
  PROVE  AdmInv'
<1>1. AdmTypes'
  BY DEF AdmInv, AdmTypes, RowsMove, CallsMove
<1>2. (upload.row \/ upload.token \/ upload.put = "receiving" => upload.unit \in Adm!Units)'
  BY DEF AdmInv
<1>3. \A m \in Adm!Sides : RowFits(m)'
  BY DEF RowsMove
<1>4. task'.state = task.state
  BY DEF SameTask
<1>5. ASSUME task.state \in {"none", "admitting", "prepared", "queued"}, NoneCancelled
      PROVE  NoneCancelled'
  BY <1>5 DEF NoneCancelled, MayStand, RowsMove, CallsMove
<1>6. ASSUME task.state \in {"admitting", "prepared", "queued"}, NEW m \in Adm!Sides, Looked(m)
      PROVE  Looked(m)'
  <2>1. resv'[m] = resv[m]
    BY <1>6 DEF RowsMove, Looked
  <2>2. QED
    BY <1>6, <2>1, LookStays DEF SameTask
<1>7. task'.state = "none" => NoneCancelled' /\ step'.at = "none"
  BY <1>4, <1>5 DEF AdmInv, MayStand
<1>8. task'.state = "admitting" => AdmittingFits'
  <2> SUFFICES ASSUME task.state = "admitting"
               PROVE  AdmittingFits'
    BY <1>4
  <2>1. AdmittingFits
    BY DEF AdmInv
  <2>2. NoneCancelled' /\ task'.booked /\ "source" \in task'.drains
    BY <2>1, <1>5 DEF AdmittingFits, SameTask
  <2>3. step'.at = "registry" /\ step'.side = "target" => Looked("source")'
    BY <1>6 DEF MayStand, Adm!Sides
  <2>4. step'.at \in {"inventory", "again", "reseal", "prepared"} => \A m \in Adm!Sides : Looked(m)'
    BY <1>6 DEF MayStand
  <2>5. QED
    BY <2>2, <2>3, <2>4 DEF AdmittingFits
<1>9. task'.state \in {"prepared", "queued"} => PreparedFits'
  <2> SUFFICES ASSUME task.state \in {"prepared", "queued"}
               PROVE  PreparedFits'
    BY <1>4
  <2>1. PreparedFits
    BY DEF AdmInv
  <2>2. NoneCancelled' /\ \A m \in Adm!Sides : Looked(m)'
    BY <2>1, <1>5, <1>6 DEF PreparedFits
  <2>3. QED
    BY <2>1, <2>2 DEF PreparedFits, SameTask
<1>10. task'.state = "admission_aborting" => AbortingFits'
  BY <1>4 DEF MayStand, AbortingFits
<1>11. ASSUME task'.state = "cancelled"
       PROVE  /\ \A m \in Adm!Sides : resv'[m].state = "aborted"
              /\ task'.installed = {} /\ ~task'.booked /\ task'.drains = {}
              /\ step'.at \notin {"mark", "cancel", "release"}
  <2>1. /\ \A m \in Adm!Sides : resv[m].state = "aborted"
        /\ task.installed = {} /\ ~task.booked /\ task.drains = {}
    BY <1>4, <1>11 DEF AdmInv
  <2>2. QED
    BY <1>4, <1>11, <2>1 DEF RowsMove, MayStand, SameTask
<1>12. QED
  BY <1>1, <1>2, <1>3, <1>7, <1>8, <1>9, <1>10, <1>11 DEF AdmInv

\* A turn that neither asks a member nor moves on: the runner stays or gives up.
LEMMA PauseKeeps ==
  ASSUME AdmInv, UNCHANGED <<native, catalog, upload, resv>>, task' \in TaskRows, SameTask,
         step' = step \/ step' = Adm!NoStep, preview' \in [at : Nat, plan : [Adm!Units -> Nat]],
         CallsMove
  PROVE  AdmInv'
<1>1. RowsMove
  <2>1. \A m \in Adm!Sides : RowFits(m)'
    BY RowsStay DEF AdmInv
  <2>2. QED
    BY <2>1 DEF RowsMove, AdmInv, AdmTypes
<1>2. step' \in StepRows
  BY NoStepIs DEF AdmInv, AdmTypes
<1>3. MayStand
  <2>1. CASE step' = Adm!NoStep
    BY <2>1, NoStepIs DEF MayStand
  <2>2. CASE step' = step
    BY <2>2 DEF MayStand, AdmInv, NoneCancelled, AdmittingFits, PreparedFits, AbortingFits
  <2>3. QED
    BY <2>1, <2>2
<1>4. QED
  BY <1>1, <1>2, <1>3, TurnKeeps
\* No new late call, no cancellation among them.
LEMMA CallsStay ==
  ASSUME AdmInv, tardy' = tardy
  PROVE  CallsMove
BY DEF CallsMove, AdmInv, AdmTypes, NoneCancelled, AdmittingFits, PreparedFits

\* The rows as they were are a move the runner may make.
LEMMA RowsStand ==
  ASSUME AdmInv, resv' = resv
  PROVE  RowsMove
<1>1. \A m \in Adm!Sides : RowFits(m)'
  BY RowsStay DEF AdmInv
<1>2. QED
  BY <1>1 DEF RowsMove, AdmInv, AdmTypes

\* The runner gives up in one of its transactions or at an unanswered call.
LEMMA FailsKeeps ==
  ASSUME AdmInv, UNCHANGED <<native, catalog, upload, resv, preview>>,
         NEW code \in Errors, Adm!Fails(code), CallsMove
  PROVE  AdmInv'
<1>1. task' \in TaskRows /\ SameTask /\ step' = Adm!NoStep
  BY FailsIs DEF AdmInv
<1>2. preview' \in [at : Nat, plan : [Adm!Units -> Nat]]
  BY DEF AdmInv, AdmTypes
<1>3. QED
  BY <1>1, <1>2, PauseKeeps

\* The files change under an ordinary upload, whatever the runner does meanwhile.
LEMMA FilesKeep ==
  ASSUME AdmInv, UNCHANGED <<resv, task, step, tardy, preview>>,
         native' \in Versions, catalog' \in Versions, upload' \in UploadRows,
         upload'.row \/ upload'.token \/ upload'.put = "receiving" => upload'.unit \in Adm!Units,
         \A m \in Adm!Sides : Looked(m) => native'[m] = native[m] /\ ~Adm!Pending(m)',
         task.state \in {"prepared", "queued"} => ~upload'.row /\ catalog' = catalog
  PROVE  AdmInv'
<1>1. AdmTypes'
  BY DEF AdmInv, AdmTypes
<1>2. \A m \in Adm!Sides : RowFits(m)'
  BY RowsStay DEF AdmInv
<1>3. ASSUME NEW m \in Adm!Sides, Looked(m)
      PROVE  Looked(m)'
  BY <1>3 DEF Looked, Adm!Observed
<1>4. NoneCancelled => NoneCancelled'
  BY DEF NoneCancelled
<1>5. AdmittingFits => AdmittingFits'
  BY <1>3, <1>4 DEF AdmittingFits, Adm!Sides
<1>6. task.state \in {"prepared", "queued"} => PreparedFits'
  BY <1>3, <1>4 DEF PreparedFits, AdmInv
<1>7. AbortingFits => AbortingFits'
  BY DEF AbortingFits
<1>8. QED
  BY <1>1, <1>2, <1>4, <1>5, <1>6, <1>7 DEF AdmInv

\* An upload is opened: neither Master nor member admits one a prepared plan counts on.
LEMMA OpenKeeps ==
  ASSUME AdmInv, NEW m \in Adm!Sides, NEW u \in Adm!Units, Adm!OpenUpload(m, u)
  PROVE  AdmInv'
<1>1. upload' = [row |-> TRUE, token |-> TRUE, put |-> "none", side |-> m, unit |-> u,
                 opened |-> upload.opened + 1]
  BY DEF Adm!OpenUpload
<1>2. upload \in UploadRows /\ u \in Nat
  BY DEF AdmInv, AdmTypes, Adm!Units
<1>3. upload' \in UploadRows /\ upload'.unit = u /\ upload'.put = "none"
  BY <1>1, <1>2 DEF UploadRows
<1>4. task.state \notin {"prepared", "queued"}
  BY DEF Adm!OpenUpload, Adm!MasterAdmits, AdmInv, PreparedFits
<1>5. UNCHANGED <<native, catalog, resv, task, step, tardy, preview>>
  BY DEF Adm!OpenUpload
<1>6. native' \in Versions /\ catalog' \in Versions
  BY <1>5 DEF AdmInv, AdmTypes
<1>7. QED
  BY <1>3, <1>4, <1>5, <1>6, FilesKeep DEF Adm!Pending

\* A capability is used, perhaps long after it was given: a sealed member refuses it.
LEMMA ReceiveKeeps ==
  ASSUME AdmInv, Adm!Receive
  PROVE  AdmInv'
<1>1. upload \in UploadRows /\ upload.token /\ upload.unit \in Adm!Units
  BY DEF AdmInv, AdmTypes, Adm!Receive
<1>2. upload' = [upload EXCEPT !.token = FALSE, !.put = "receiving"]
  BY DEF Adm!Receive
<1>3. /\ upload' \in UploadRows /\ upload'.unit = upload.unit /\ upload'.row = upload.row
      /\ upload'.side = upload.side
  BY <1>1, <1>2 DEF UploadRows
<1>4. UNCHANGED <<native, catalog, resv, task, step, tardy, preview>>
  BY DEF Adm!Receive
<1>5. native' \in Versions /\ catalog' \in Versions
  BY <1>4 DEF AdmInv, AdmTypes
<1>6. ASSUME NEW m \in Adm!Sides, Looked(m)
      PROVE  ~Adm!Pending(m)'
  <2>1. resv[m].scopes = Adm!Units
    BY <1>6 DEF AdmInv, RowFits, Looked
  <2>2. m # upload.side
    BY <1>1, <2>1 DEF Adm!Receive, Adm!MemberAdmits
  <2>3. QED
    BY <1>3, <2>2 DEF Adm!Pending
<1>7. task.state \in {"prepared", "queued"} => ~upload'.row
  BY <1>3 DEF AdmInv, PreparedFits
<1>8. QED
  BY <1>1, <1>3, <1>4, <1>5, <1>6, <1>7, FilesKeep

\* The receiver places its file: no member was looked at while it was at work.
LEMMA PlaceKeeps ==
  ASSUME AdmInv, Adm!Place
  PROVE  AdmInv'
<1>1. /\ upload \in UploadRows /\ upload.put = "receiving" /\ upload.unit \in Adm!Units
      /\ upload.side \in Adm!Sides
  BY DEF AdmInv, AdmTypes, Adm!Place, UploadRows
<1>2. upload' = [upload EXCEPT !.put = "placed"]
  BY DEF Adm!Place
<1>3. /\ upload' \in UploadRows /\ upload'.unit = upload.unit /\ upload'.row = upload.row
      /\ upload'.put = "placed"
  BY <1>1, <1>2 DEF UploadRows
<1>4. UNCHANGED <<catalog, resv, task, step, tardy, preview>>
  BY DEF Adm!Place
<1>5. native \in Versions /\ catalog' \in Versions
  BY <1>4 DEF AdmInv, AdmTypes
<1>6. native' = [native EXCEPT ![upload.side][upload.unit] = @ + 1]
  BY DEF Adm!Place
<1>7. native' \in Versions
  BY <1>1, <1>5, <1>6 DEF Versions
<1>8. ASSUME NEW m \in Adm!Sides, Looked(m)
      PROVE  native'[m] = native[m] /\ ~Adm!Pending(m)'
  <2>1. m # upload.side
    BY <1>1, <1>8 DEF Looked, Adm!Pending
  <2>2. native'[m] = native[m]
    BY <1>1, <1>5, <1>6, <2>1 DEF Versions
  <2>3. QED
    BY <1>3, <2>2 DEF Adm!Pending
<1>9. task.state \in {"prepared", "queued"} => ~upload'.row
  BY <1>3 DEF AdmInv, PreparedFits
<1>10. QED
  BY <1>1, <1>3, <1>4, <1>5, <1>7, <1>8, <1>9, FilesKeep

\* The Master learns of the file: a prepared task has no session left.
LEMMA FinalizeKeeps ==
  ASSUME AdmInv, Adm!FinalizeUpload
  PROVE  AdmInv'
<1>1. /\ upload \in UploadRows /\ upload.row /\ upload.unit \in Adm!Units
      /\ upload.side \in Adm!Sides
      /\ upload.put = "placed"
  BY DEF AdmInv, AdmTypes, Adm!FinalizeUpload, UploadRows
<1>2. upload' = [upload EXCEPT !.row = FALSE]
  BY DEF Adm!FinalizeUpload
<1>3. upload' \in UploadRows /\ upload'.unit = upload.unit /\ upload'.put = "placed"
  BY <1>1, <1>2 DEF UploadRows
<1>4. UNCHANGED <<native, resv, task, step, tardy, preview>>
  BY DEF Adm!FinalizeUpload
<1>5. native \in Versions /\ catalog \in Versions
  BY DEF AdmInv, AdmTypes
<1>6. native[upload.side][upload.unit] \in Nat
  BY <1>1, <1>5 DEF Versions
<1>7. catalog' =
        [catalog EXCEPT ![upload.side][upload.unit] = native[upload.side][upload.unit]]
  BY DEF Adm!FinalizeUpload
<1>8. catalog' \in Versions
  BY <1>1, <1>5, <1>6, <1>7 DEF Versions
<1>9. task.state \notin {"prepared", "queued"}
  BY <1>1 DEF AdmInv, PreparedFits
<1>10. \A m \in Adm!Sides : ~Adm!Pending(m)'
  BY <1>3 DEF Adm!Pending
<1>11. native' \in Versions
  BY <1>4, <1>5
<1>12. QED
  BY <1>1, <1>3, <1>4, <1>8, <1>9, <1>10, <1>11, FilesKeep

\* A session nobody used runs out.
LEMMA ExpireUploadKeeps ==
  ASSUME AdmInv, Adm!ExpireUpload
  PROVE  AdmInv'
<1>1. upload \in UploadRows /\ upload.put = "none" /\ upload.unit \in Adm!Units /\ upload.row
  BY DEF AdmInv, AdmTypes, Adm!ExpireUpload
<1>2. upload' = [upload EXCEPT !.row = FALSE]
  BY DEF Adm!ExpireUpload
<1>3. upload' \in UploadRows /\ upload'.unit = upload.unit /\ upload'.put = "none"
  BY <1>1, <1>2 DEF UploadRows
<1>4. UNCHANGED <<native, catalog, resv, task, step, tardy, preview>>
  BY DEF Adm!ExpireUpload
<1>5. native' \in Versions /\ catalog' \in Versions
  BY <1>4 DEF AdmInv, AdmTypes
<1>6. task.state \notin {"prepared", "queued"}
  BY <1>1 DEF AdmInv, PreparedFits
<1>7. \A m \in Adm!Sides : ~Adm!Pending(m)'
  BY <1>3 DEF Adm!Pending
<1>8. QED
  BY <1>1, <1>3, <1>4, <1>5, <1>6, <1>7, FilesKeep
Previews == [at : Nat, plan : [Adm!Units -> Nat]]

\* The observations of a preview hold no authority.
LEMMA PreviewKeeps ==
  ASSUME AdmInv,
         \/ Adm!StartPreview \/ Adm!Observe \/ Adm!FinishPreview
         \/ Adm!ObservationFails \/ Adm!PreviewExpires
  PROVE  AdmInv'
<1>1. /\ preview \in Previews /\ catalog \in Versions /\ task \in TaskRows
  BY DEF AdmInv, AdmTypes, Previews
<1>2. UNCHANGED <<native, catalog, upload, resv, task, step, tardy>>
  BY DEF Adm!StartPreview, Adm!Observe, Adm!FinishPreview, Adm!ObservationFails, Adm!PreviewExpires
<1>3. preview' \in Previews
  <2>1. CASE Adm!StartPreview
    <3>1. catalog["source"] \in [Adm!Units -> Nat]
      BY <1>1 DEF Versions, Adm!Sides
    <3>2. preview' = [at |-> 1, plan |-> catalog["source"]]
      BY <2>1 DEF Adm!StartPreview
    <3>3. QED
      BY <3>1, <3>2 DEF Previews
  <2>2. CASE ~Adm!StartPreview
    <3>1. PICK n \in Nat : preview' = [preview EXCEPT !.at = n]
      <4>1. CASE Adm!Observe
        <5>1. preview' = [preview EXCEPT !.at =
                IF Adm!Reads(Adm!Survey[preview.at], preview.plan) THEN preview.at + 1 ELSE 0]
          BY <4>1 DEF Adm!Observe
        <5>2. preview.at + 1 \in Nat
          BY <1>1 DEF Previews
        <5>3. QED
          BY <5>1, <5>2
      <4>2. CASE Adm!FinishPreview
        BY <4>2 DEF Adm!FinishPreview, Adm!Ready
      <4>3. CASE Adm!ObservationFails \/ Adm!PreviewExpires
        BY <4>3 DEF Adm!ObservationFails, Adm!PreviewExpires
      <4>4. QED
        BY <2>2, <4>1, <4>2, <4>3
    <3>2. QED
      BY <1>1, <3>1 DEF Previews
  <2>3. QED
    BY <2>1, <2>2
<1>4. SameTask /\ CallsMove /\ task' \in TaskRows
  BY <1>1, <1>2, CallsStay DEF SameTask
<1>5. QED
  BY <1>2, <1>3, <1>4, PauseKeeps DEF Previews

\* A preview becomes a task, with its capacity and both drains.
LEMMA CreateKeeps ==
  ASSUME AdmInv, Adm!Create
  PROVE  AdmInv'
<1>1. task \in TaskRows /\ preview \in Previews
  BY DEF AdmInv, AdmTypes, Previews
<1>2. task' = [task EXCEPT !.state = "admitting", !.plan = preview.plan, !.booked = TRUE,
                           !.drains = Adm!Sides]
  BY DEF Adm!Create
<1>3. preview.plan \in [Adm!Units -> Nat]
  BY <1>1 DEF Previews
<1>4. /\ task' \in TaskRows /\ task'.state = "admitting" /\ task'.booked
      /\ task'.drains = Adm!Sides
  BY <1>1, <1>2, <1>3 DEF TaskRows, TaskStates
<1>5. preview' = [preview EXCEPT !.at = 0]
  BY DEF Adm!Create
<1>6. preview' \in Previews
  BY <1>1, <1>5 DEF Previews
<1>7. UNCHANGED <<catalog, native, upload, resv, step, tardy>>
  BY DEF Adm!Create
<1>8. AdmTypes'
  BY <1>4, <1>6, <1>7 DEF AdmInv, AdmTypes, Previews
<1>9. NoneCancelled /\ step.at = "none"
  BY DEF AdmInv, Adm!Create
<1>10. NoneCancelled'
  BY <1>7, <1>9 DEF NoneCancelled
<1>11. AdmittingFits'
  BY <1>4, <1>7, <1>9, <1>10 DEF AdmittingFits, Adm!Sides
<1>12. \A m \in Adm!Sides : RowFits(m)'
  BY <1>7, RowsStay DEF AdmInv
<1>13. QED
  BY <1>4, <1>7, <1>8, <1>11, <1>12 DEF AdmInv

\* The runner takes up what is left to do, at the start of a phase.
LEMMA ClaimKeeps ==
  ASSUME AdmInv, Adm!Claim
  PROVE  AdmInv'
<1>1. step \in StepRows /\ task \in TaskRows /\ preview \in Previews
  BY DEF AdmInv, AdmTypes, Previews
<1> DEFINE at == CASE task.state = "admitting" -> "install"
                   [] task.state = "prepared"  -> "revalidate"
                   [] OTHER                    -> "mark"
<1>2. /\ \/ task.state = "admitting" /\ at = "install"
         \/ task.state = "prepared" /\ at = "revalidate"
         \/ task.state = "admission_aborting" /\ at = "mark"
      /\ at \in Turns
  <2>1. task.state \in {"admitting", "prepared", "admission_aborting"}
    BY DEF Adm!Claim, Adm!Candidate
  <2>2. QED
    BY <2>1 DEF Turns
<1>3. step' = [Adm!First(at) EXCEPT !.flight = (task.state = "prepared")]
  BY DEF Adm!Claim
<1> HIDE DEF at
<1>4. Adm!First(at) \in StepRows /\ Adm!First(at).at = at
  BY <1>1, <1>2, FirstIs
<1>5. (task.state = "prepared") \in BOOLEAN
  OBVIOUS
<1>6. step' \in StepRows /\ step'.at = at
  BY <1>3, <1>4, <1>5 DEF StepRows
<1>7. UNCHANGED <<native, catalog, upload, resv, task, tardy, preview>>
  BY DEF Adm!Claim
<1>8. MayStand
  BY <1>2, <1>6 DEF MayStand
<1>9. RowsMove /\ CallsMove /\ SameTask
  BY <1>7, RowsStand, CallsStay DEF SameTask
<1>10. QED
  BY <1>1, <1>6, <1>7, <1>8, <1>9, TurnKeeps DEF Previews

\* A transaction of the runner that was refused.
LEMMA RefusedKeeps ==
  ASSUME AdmInv, UNCHANGED <<catalog, native, upload, resv, preview, tardy, mishaps>>,
         Adm!Fails("refused")
  PROVE  AdmInv'
<1>1. "refused" \in Errors
  BY DEF Errors
<1>2. CallsMove
  BY CallsStay
<1>3. QED
  BY <1>1, <1>2, FailsKeeps

\* A prepared task is admitted once more before it is queued.
LEMMA RevalidateKeeps ==
  ASSUME AdmInv, Adm!Revalidate
  PROVE  AdmInv'
<1>1. UNCHANGED <<catalog, native, upload, resv, preview, tardy, mishaps>>
  BY DEF Adm!Revalidate, Adm!Transaction
<1>2. CASE Adm!Fails("refused")
  BY <1>1, <1>2, RefusedKeeps
<1>3. CASE ~Adm!Fails("refused")
  <2>1. /\ task' = [task EXCEPT !.state = "admitting"] /\ step' = Adm!First("install")
        /\ task.state = "prepared"
    BY <1>3 DEF Adm!Revalidate, Adm!Transaction, Adm!Becomes
  <2>2. task \in TaskRows /\ step \in StepRows
    BY DEF AdmInv, AdmTypes
  <2>3. /\ task' \in TaskRows /\ task'.state = "admitting" /\ task'.plan = task.plan
        /\ task'.booked = task.booked /\ task'.drains = task.drains
    BY <2>1, <2>2 DEF TaskRows, TaskStates
  <2>4. step' \in StepRows /\ step'.at = "install"
    BY <2>1, <2>2, FirstIs DEF Turns
  <2>5. PreparedFits
    BY <2>1 DEF AdmInv
  <2>6. NoneCancelled'
    BY <1>1, <2>4, <2>5 DEF PreparedFits, NoneCancelled
  <2>7. AdmittingFits'
    BY <2>3, <2>4, <2>5, <2>6 DEF AdmittingFits, PreparedFits
  <2>8. \A m \in Adm!Sides : RowFits(m)'
    BY <1>1, RowsStay DEF AdmInv
  <2>9. AdmTypes'
    BY <1>1, <2>3, <2>4 DEF AdmInv, AdmTypes
  <2>10. QED
    BY <1>1, <2>3, <2>7, <2>8, <2>9 DEF AdmInv
<1>4. QED
  BY <1>2, <1>3

\* The scopes of one unit.
LEMMA InstallUnitKeeps ==
  ASSUME AdmInv, Adm!Install
  PROVE  AdmInv'
<1>1. UNCHANGED <<catalog, native, upload, resv, preview, tardy, mishaps>>
  BY DEF Adm!Install, Adm!Transaction
<1>2. CASE Adm!Fails("refused")
  BY <1>1, <1>2, RefusedKeeps
<1>3. CASE ~Adm!Fails("refused")
  <2>1. /\ task' = [task EXCEPT !.installed = @ \cup {step.unit}, !.error = ""]
        /\ step' = IF step.unit < NUnits THEN [step EXCEPT !.unit = @ + 1] ELSE Adm!First("begin")
        /\ task.state = "admitting" /\ step.at = "install"
    BY <1>3 DEF Adm!Install, Adm!Transaction, Adm!Becomes
  <2>2. task \in TaskRows /\ step \in StepRows /\ step.unit \in Nat
    BY DEF AdmInv, AdmTypes, StepRows
  <2>3. /\ task' \in TaskRows /\ task'.state = "admitting" /\ task'.plan = task.plan
        /\ task'.booked = task.booked /\ task'.drains = task.drains
    BY <2>1, <2>2 DEF TaskRows, Errors
  <2>4. step' \in StepRows /\ step'.at \in {"install", "begin"}
    <3>1. CASE step.unit < NUnits
      <4>1. step' = [step EXCEPT !.unit = step.unit + 1]
        BY <2>1, <3>1
      <4>2. QED
        BY <2>1, <2>2, <4>1 DEF StepRows
    <3>2. CASE ~(step.unit < NUnits)
      BY <2>1, <2>2, <3>2, FirstIs DEF Turns
    <3>3. QED
      BY <3>1, <3>2
  <2>5. AdmittingFits
    BY <2>1 DEF AdmInv
  <2>6. NoneCancelled'
    BY <1>1, <2>4, <2>5 DEF AdmittingFits, NoneCancelled
  <2>7. AdmittingFits'
    BY <2>3, <2>4, <2>5, <2>6 DEF AdmittingFits
  <2>8. \A m \in Adm!Sides : RowFits(m)'
    BY <1>1, RowsStay DEF AdmInv
  <2>9. AdmTypes'
    BY <1>1, <2>3, <2>4 DEF AdmInv, AdmTypes
  <2>10. QED
    BY <1>1, <2>3, <2>7, <2>8, <2>9 DEF AdmInv
<1>4. QED
  BY <1>2, <1>3
\* Where an answered call leads, and from where each gate is reached.
LEMMA AfterCallIs ==
  ASSUME step \in StepRows, step.at \in Adm!Calls
  PROVE  /\ Adm!AfterCall \in StepRows
         /\ Adm!AfterCall.at \in {"mark", "cancel", "release"} => step.at = "cancel"
         /\ Adm!AfterCall.at = "registry" => Adm!AfterCall.side = "source"
         /\ Adm!AfterCall.at \in {"inventory", "again", "reseal", "prepared"} => step.at = "reseal"
         /\ Adm!AfterCall.at = "cancel" => step.at = "cancel" /\ step.side = "source"
         /\ Adm!AfterCall.at = "release" => step.at = "cancel" /\ step.side = "target"
<1>1. step.side \in Adm!Sides /\ step.unit \in Nat
  BY DEF StepRows
<1>2. CASE step.at = "begin"
  <2>1. Adm!AfterCall = [step EXCEPT !.at = "unit"]
    BY <1>2 DEF Adm!AfterCall
  <2>2. QED
    BY <1>2, <2>1 DEF StepRows, Turns
<1>3. CASE step.at = "unit"
  <2>1. CASE step.unit < NUnits
    <3>1. Adm!AfterCall = [step EXCEPT !.unit = step.unit + 1]
      <4>1. /\ step.at # "begin" /\ step.at = "unit" /\ step.unit < NUnits
        BY <1>3, <2>1
      <4>2. QED
        BY <4>1, step \in StepRows DEF Adm!AfterCall, StepRows
    <3>2. QED
      BY <1>1, <1>3, <3>1 DEF StepRows
  <2>2. CASE ~(step.unit < NUnits)
    <3>1. Adm!AfterCall = [step EXCEPT !.at = "seal"]
      BY <1>3, <2>2 DEF Adm!AfterCall
    <3>2. QED
      BY <1>3, <3>1 DEF StepRows, Turns
  <2>3. QED
    BY <2>1, <2>2
<1>4. CASE step.at = "seal"
  <2>1. Adm!AfterCall = IF step.side = "source" THEN Adm!Other("begin") ELSE Adm!First("registry")
    BY <1>4 DEF Adm!AfterCall
  <2>2. QED
    BY <1>1, <1>4, <2>1, FirstIs, OtherIs DEF Turns
<1>5. CASE step.at = "reseal"
  <2>1. Adm!AfterCall = IF step.side = "source" THEN Adm!Other("again") ELSE Adm!First("prepared")
    BY <1>5 DEF Adm!AfterCall
  <2>2. QED
    BY <1>1, <1>5, <2>1, FirstIs, OtherIs DEF Turns
<1>6. CASE step.at = "probe"
  <2>1. Adm!AfterCall = Adm!First("queue")
    BY <1>6 DEF Adm!AfterCall
  <2>2. QED
    BY <1>6, <2>1, FirstIs DEF Turns
<1>7. CASE step.at = "cancel"
  <2>1. Adm!AfterCall = IF step.side = "source" THEN Adm!Other("cancel") ELSE Adm!First("release")
    BY <1>7 DEF Adm!AfterCall
  <2>2. QED
    BY <1>1, <1>7, <2>1, FirstIs, OtherIs DEF Turns, Adm!Sides
<1>8. QED
  BY <1>2, <1>3, <1>4, <1>5, <1>6, <1>7 DEF Adm!Calls

\* A call handled while the task is not being cancelled takes no prepared row away.
LEMMA HandledMoves ==
  ASSUME AdmInv, NEW c \in StepRows, Adm!Handled(c),
         task.state \in {"none", "admitting", "prepared", "queued"} => c.at # "cancel"
  PROVE  RowsMove
<1>1. QED
  BY HandledIs DEF AdmInv, RowsMove

\* A call is answered, and the runner goes on or gives up.
LEMMA AnsweredKeeps ==
  ASSUME AdmInv, Adm!Answered
  PROVE  AdmInv'
<1>1. step \in StepRows /\ step.at \in Adm!Calls /\ task \in TaskRows
  BY DEF AdmInv, AdmTypes, Adm!Answered
<1>2. UNCHANGED <<catalog, native, upload, preview, tardy, mishaps>>
  BY DEF Adm!Answered
<1>3. CallsMove
  BY <1>2, CallsStay
<1>4. preview' \in [at : Nat, plan : [Adm!Units -> Nat]]
  BY <1>2 DEF AdmInv, AdmTypes
<1>5. task.state \in {"none", "admitting", "prepared", "queued", "cancelled"} =>
        step.at # "cancel"
  BY DEF AdmInv, NoneCancelled, AdmittingFits, PreparedFits
<1>6. Adm!Handled(step) \/ resv' = resv
  BY DEF Adm!Answered
<1>7. RowsMove
  BY <1>1, <1>5, <1>6, HandledMoves, RowsStand
<1>8. CASE Adm!Fails("refused")
  <2>1. task' \in TaskRows /\ SameTask /\ step' = Adm!NoStep
    BY <1>8, FailsIs DEF Errors, AdmInv
  <2>2. MayStand
    BY <2>1, NoStepIs DEF MayStand
  <2>3. QED
    BY <1>2, <1>3, <1>4, <1>7, <2>1, <2>2, NoStepIs, TurnKeeps
<1>9. CASE ~Adm!Fails("refused")
  <2>1. step' = Adm!AfterCall /\ UNCHANGED <<lease, task>>
    BY <1>9 DEF Adm!Answered
  <2>2. step.at = "cancel" => Adm!Handled(step)
    BY <1>9 DEF Adm!Answered, Adm!Saved
  <2>3. SameTask /\ task' \in TaskRows
    BY <1>1, <2>1 DEF SameTask
  <2>4. step' \in StepRows
    BY <1>1, <2>1, AfterCallIs
  <2>5. step.at = "cancel" =>
          /\ resv'[step.side].state = "aborted"
          /\ \A m \in Adm!Sides : resv[m].state = "aborted" => resv'[m].state = "aborted"
    BY <1>1, <2>2, HandledIs DEF AdmInv
  <2>6. MayStand
    <3>1. task.state = "none" => step'.at = "none"
      BY <1>1 DEF AdmInv, Adm!Calls
    <3>2. task.state \in {"admitting", "prepared", "queued", "cancelled"} =>
            step'.at \notin {"mark", "cancel", "release"}
      BY <1>1, <1>5, <2>1, AfterCallIs
    <3>3. task.state = "admitting" =>
            /\ step'.at = "registry" /\ step'.side = "target" => Looked("source")
            /\ step'.at \in {"inventory", "again", "reseal", "prepared"} =>
                 \A m \in Adm!Sides : Looked(m)
      BY <1>1, <2>1, AfterCallIs DEF AdmInv, AdmittingFits
    <3>4. task.state = "admission_aborting" =>
            /\ step'.at = "cancel" /\ step'.side = "target" => resv'["source"].state = "aborted"
            /\ step'.at = "release" => \A m \in Adm!Sides : resv'[m].state = "aborted"
      BY <1>1, <2>1, <2>5, AfterCallIs DEF AdmInv, AbortingFits, Adm!Sides
    <3>5. QED
      BY <3>1, <3>2, <3>3, <3>4 DEF MayStand
  <2>7. QED
    BY <1>2, <1>3, <1>4, <1>7, <2>3, <2>4, <2>6, TurnKeeps
<1>10. QED
  BY <1>8, <1>9

\* A call nobody answered may arrive later.
LEMMA UnansweredKeeps ==
  ASSUME AdmInv, Adm!Unanswered
  PROVE  AdmInv'
<1>1. step \in StepRows /\ step.at \in Adm!Calls
  BY DEF AdmInv, AdmTypes, Adm!Unanswered
<1> DEFINE late == [step EXCEPT !.flight = FALSE]
<1>2. late \in StepRows /\ late.at = step.at
  BY <1>1 DEF StepRows
<1>3. tardy' = tardy \cup {late}
  BY DEF Adm!Unanswered
<1> HIDE DEF late
<1>4. task.state \in {"none", "admitting", "prepared", "queued"} =>
        NoneCancelled
  BY DEF AdmInv, AdmittingFits, PreparedFits
<1>5. CallsMove
  BY <1>2, <1>3, <1>4 DEF CallsMove, NoneCancelled, AdmInv, AdmTypes
<1>6. UNCHANGED <<catalog, native, upload, resv, preview>>
  BY DEF Adm!Unanswered
<1>7. PICK code \in {"transient", "refused"} : Adm!Fails(code)
  BY DEF Adm!Unanswered
<1>8. code \in Errors
  BY <1>7 DEF Errors
<1>9. QED
  BY <1>5, <1>6, <1>7, <1>8, FailsKeeps

\* A late call arrives, whatever the runner is doing by then.
LEMMA ArrivesKeeps ==
  ASSUME AdmInv, NEW c \in tardy, Adm!Arrives(c)
  PROVE  AdmInv'
<1>1. c \in StepRows /\ task \in TaskRows /\ step \in StepRows
  BY DEF AdmInv, AdmTypes
<1>2. UNCHANGED <<catalog, native, upload, preview, task, step>> /\ Adm!Handled(c)
  BY DEF Adm!Arrives
<1>3. task.state \in {"none", "admitting", "prepared", "queued"} => NoneCancelled
  BY DEF AdmInv, AdmittingFits, PreparedFits
<1>4. RowsMove
  BY <1>1, <1>2, <1>3, HandledMoves DEF NoneCancelled
<1>5. CallsMove
  BY <1>3 DEF CallsMove, NoneCancelled, Adm!Arrives, AdmInv, AdmTypes
<1>6. \A m \in Adm!Sides : resv[m].state = "aborted" => resv'[m].state = "aborted"
  BY <1>4 DEF RowsMove
<1>7. MayStand
  BY <1>2, <1>6 DEF MayStand, AdmInv, NoneCancelled, AdmittingFits, PreparedFits, AbortingFits,
     Adm!Sides
<1>8. preview' \in [at : Nat, plan : [Adm!Units -> Nat]]
  BY <1>2 DEF AdmInv, AdmTypes
<1>9. QED
  BY <1>1, <1>2, <1>4, <1>5, <1>7, <1>8, TurnKeeps DEF SameTask
\* An observation under the fences: the runner goes on to the next only when it found the
\* plan, and what it found stays so.
LEMMA RecheckKeeps ==
  ASSUME AdmInv, Adm!Recheck
  PROVE  AdmInv'
<1>1. UNCHANGED <<catalog, native, upload, resv, preview, tardy, mishaps>> /\ step.at \in Adm!Looks
  BY DEF Adm!Recheck
<1>2. step \in StepRows /\ task \in TaskRows /\ preview \in Previews /\ step.side \in Adm!Sides
  BY DEF AdmInv, AdmTypes, StepRows, Previews
<1>3. CallsMove /\ RowsMove
  BY <1>1, CallsStay, RowsStand
<1>4. CASE Adm!Fails("refused")
  BY <1>1, <1>3, <1>4, FailsKeeps DEF Errors
<1>5. CASE ~Adm!Fails("refused")
  <2>1. Adm!Finds /\ step' = Adm!AfterLook /\ UNCHANGED task
    BY <1>5 DEF Adm!Recheck
  <2>2. /\ step' \in StepRows
        /\ step.at = "registry" =>
             IF step.side = "source" THEN step'.at = "registry" ELSE step'.at = "inventory"
        /\ step.at = "inventory" => step'.at \in {"inventory", "again"}
        /\ step.at = "again" => step'.at = "reseal"
    <3>1. CASE step.at = "registry"
      <4>1. step' = IF step.side = "source" THEN Adm!Other("registry") ELSE Adm!First("inventory")
        BY <2>1, <3>1 DEF Adm!AfterLook
      <4>2. QED
        BY <1>2, <3>1, <4>1, FirstIs, OtherIs DEF Turns
    <3>2. CASE step.at = "inventory"
      <4>1. step' = IF step.side = "source" THEN Adm!Other("inventory") ELSE Adm!First("again")
        BY <2>1, <3>2 DEF Adm!AfterLook
      <4>2. QED
        BY <1>2, <3>2, <4>1, FirstIs, OtherIs DEF Turns
    <3>3. CASE step.at = "again"
      <4>1. step' = [step EXCEPT !.at = "reseal"]
        BY <2>1, <3>3 DEF Adm!AfterLook
      <4>2. QED
        BY <1>2, <3>3, <4>1 DEF StepRows, Turns
    <3>4. QED
      BY <1>1, <3>1, <3>2, <3>3 DEF Adm!Looks
  <2>3. step.at = "registry" => Looked(step.side)
    BY <2>1 DEF Adm!Finds, Adm!Registered, Looked
  <2>4. task.state = "admitting" => AdmittingFits
    BY DEF AdmInv
  <2>5. ASSUME task.state = "admitting"
        PROVE  /\ step'.at = "registry" /\ step'.side = "target" => Looked("source")
               /\ step'.at \in {"inventory", "again", "reseal", "prepared"} =>
                    \A m \in Adm!Sides : Looked(m)
    <3>1. CASE step.at = "registry" /\ step.side = "source"
      BY <2>2, <2>3, <3>1
    <3>2. CASE step.at = "registry" /\ step.side = "target"
      BY <2>2, <2>3, <2>4, <2>5, <3>2 DEF AdmittingFits, Adm!Sides
    <3>3. CASE step.at \in {"inventory", "again"}
      BY <2>2, <2>4, <2>5, <3>3 DEF AdmittingFits
    <3>4. QED
      BY <1>1, <1>2, <3>1, <3>2, <3>3 DEF Adm!Looks, Adm!Sides
  <2>6. step'.at \notin {"mark", "cancel", "release"}
    BY <1>1, <1>2, <2>2 DEF Adm!Looks, Adm!Sides
  <2>7. task.state = "none" => step'.at = "none"
    BY <1>1 DEF AdmInv, Adm!Looks
  <2>8. MayStand
    BY <2>5, <2>6, <2>7 DEF MayStand
  <2>9. SameTask
    BY <2>1 DEF SameTask
  <2>10. QED
    BY <1>1, <1>2, <1>3, <2>1, <2>2, <2>8, <2>9, TurnKeeps DEF Previews
<1>6. QED
  BY <1>4, <1>5

\* The final transaction believes what the observations found under the seals.
LEMMA PreparedKeeps ==
  ASSUME AdmInv, Adm!Prepared
  PROVE  AdmInv'
<1>1. UNCHANGED <<catalog, native, upload, resv, preview, tardy, mishaps>>
  BY DEF Adm!Prepared, Adm!Transaction
<1>2. CASE Adm!Fails("refused")
  BY <1>1, <1>2, RefusedKeeps
<1>3. CASE ~Adm!Fails("refused")
  <2>1. /\ task' = [task EXCEPT !.state = "prepared", !.drains = @ \ {"target"}, !.error = ""]
        /\ step' = Adm!First("return")
        /\ task.state = "admitting" /\ Adm!Facts /\ catalog["source"] = task.plan
        /\ task.installed = Adm!Units /\ step.at = "prepared"
    BY <1>3 DEF Adm!Prepared, Adm!Transaction, Adm!Becomes
  <2>2. task \in TaskRows /\ step \in StepRows
    BY DEF AdmInv, AdmTypes
  <2>3. /\ task' \in TaskRows /\ task'.state = "prepared" /\ task'.plan = task.plan
        /\ task'.booked = task.booked /\ task'.drains = task.drains \ {"target"}
        /\ task'.installed = task.installed
    BY <2>1, <2>2 DEF TaskRows, TaskStates, Errors
  <2>4. step' \in StepRows /\ step'.at = "return"
    BY <2>1, <2>2, FirstIs DEF Turns
  <2>5. AdmittingFits
    BY <2>1 DEF AdmInv
  <2>6. NoneCancelled'
    BY <1>1, <2>4, <2>5 DEF AdmittingFits, NoneCancelled
  <2>7. \A m \in Adm!Sides : Looked(m)'
    BY <1>1, <2>1, <2>3, <2>5, LookStays DEF AdmittingFits
  <2>8. PreparedFits'
    BY <1>1, <2>1, <2>3, <2>5, <2>6, <2>7 DEF AdmittingFits, PreparedFits, Adm!Facts
  <2>9. \A m \in Adm!Sides : RowFits(m)'
    BY <1>1, RowsStay DEF AdmInv
  <2>10. AdmTypes'
    BY <1>1, <2>3, <2>4 DEF AdmInv, AdmTypes
  <2>11. QED
    BY <1>1, <2>3, <2>8, <2>9, <2>10 DEF AdmInv
<1>4. QED
  BY <1>2, <1>3

\* A prepared task is queued as it is.
LEMMA QueueKeeps ==
  ASSUME AdmInv, Adm!Queue
  PROVE  AdmInv'
<1>1. UNCHANGED <<catalog, native, upload, resv, preview, tardy, mishaps>>
  BY DEF Adm!Queue, Adm!Transaction
<1>2. CASE Adm!Fails("refused")
  BY <1>1, <1>2, RefusedKeeps
<1>3. CASE ~Adm!Fails("refused")
  <2>1. /\ task' = [task EXCEPT !.state = "queued", !.error = ""]
        /\ step' = Adm!First("return") /\ task.state = "prepared"
    BY <1>3 DEF Adm!Queue, Adm!Transaction, Adm!Becomes
  <2>2. task \in TaskRows /\ step \in StepRows
    BY DEF AdmInv, AdmTypes
  <2>3. /\ task' \in TaskRows /\ task'.state = "queued" /\ task'.plan = task.plan
        /\ task'.booked = task.booked /\ task'.drains = task.drains
        /\ task'.installed = task.installed
    BY <2>1, <2>2 DEF TaskRows, TaskStates, Errors
  <2>4. step' \in StepRows /\ step'.at = "return"
    BY <2>1, <2>2, FirstIs DEF Turns
  <2>5. PreparedFits
    BY <2>1 DEF AdmInv
  <2>6. NoneCancelled'
    BY <1>1, <2>4, <2>5 DEF PreparedFits, NoneCancelled
  <2>7. \A m \in Adm!Sides : Looked(m)'
    BY <1>1, <2>3, <2>5, LookStays DEF PreparedFits
  <2>8. PreparedFits'
    BY <1>1, <2>3, <2>5, <2>6, <2>7 DEF PreparedFits
  <2>9. \A m \in Adm!Sides : RowFits(m)'
    BY <1>1, RowsStay DEF AdmInv
  <2>10. AdmTypes'
    BY <1>1, <2>3, <2>4 DEF AdmInv, AdmTypes
  <2>11. QED
    BY <1>1, <2>3, <2>8, <2>9, <2>10 DEF AdmInv
<1>4. QED
  BY <1>2, <1>3

\* The cancellation is recorded before any member is asked.
LEMMA CancelUnstartedKeeps ==
  ASSUME AdmInv, Adm!CancelUnstarted
  PROVE  AdmInv'
<1>1. UNCHANGED <<catalog, native, upload, resv, preview, tardy, mishaps>>
  BY DEF Adm!CancelUnstarted, Adm!Transaction
<1>2. CASE Adm!Fails("refused")
  BY <1>1, <1>2, RefusedKeeps
<1>3. CASE ~Adm!Fails("refused")
  <2>1. task' = [task EXCEPT !.error = ""] /\ step' = Adm!First("cancel") /\ step.at = "mark"
    BY <1>3 DEF Adm!CancelUnstarted, Adm!Transaction, Adm!Becomes
  <2>2. task \in TaskRows /\ step \in StepRows /\ preview' \in Previews
    BY <1>1 DEF AdmInv, AdmTypes, Previews
  <2>3. task' \in TaskRows /\ SameTask
    BY <2>1, <2>2 DEF TaskRows, Errors, SameTask
  <2>4. step' \in StepRows /\ step'.at = "cancel" /\ step'.side = "source"
    BY <2>1, <2>2, FirstIs DEF Turns
  <2>5. task.state \notin {"none", "admitting", "prepared", "queued", "cancelled"}
    BY <2>1 DEF AdmInv, NoneCancelled, AdmittingFits, PreparedFits
  <2>6. MayStand
    BY <2>4, <2>5 DEF MayStand
  <2>7. QED
    BY <1>1, <2>2, <2>3, <2>4, <2>6, CallsStay, RowsStand, TurnKeeps DEF Previews
<1>4. QED
  BY <1>2, <1>3

\* The Master gives up its own holds, last of the three nodes.
LEMMA ReleaseKeeps ==
  ASSUME AdmInv, Adm!Release
  PROVE  AdmInv'
<1>1. UNCHANGED <<catalog, native, upload, resv, preview, tardy, mishaps>>
  BY DEF Adm!Release, Adm!Transaction
<1>2. CASE Adm!Fails("refused")
  BY <1>1, <1>2, RefusedKeeps
<1>3. CASE ~Adm!Fails("refused")
  <2>1. /\ task' = [task EXCEPT !.state = "cancelled", !.installed = {}, !.booked = FALSE,
                                !.drains = {}, !.error = ""]
        /\ step' = [Adm!First("return") EXCEPT !.flight = FALSE] /\ step.at = "release"
    BY <1>3 DEF Adm!Release, Adm!Transaction, Adm!Becomes
  <2>2. task \in TaskRows /\ step \in StepRows
    BY DEF AdmInv, AdmTypes
  <2>3. /\ task' \in TaskRows /\ task'.state = "cancelled" /\ ~task'.booked
        /\ task'.drains = {} /\ task'.installed = {}
    BY <2>1, <2>2 DEF TaskRows, TaskStates, Errors
  <2>4. Adm!First("return") \in StepRows /\ Adm!First("return").at = "return"
    BY <2>2, FirstIs DEF Turns
  <2>5. step' \in StepRows /\ step'.at = "return"
    BY <2>1, <2>4 DEF StepRows
  <2>6. task.state = "admission_aborting"
    BY <2>1, <2>2 DEF AdmInv, NoneCancelled, AdmittingFits, PreparedFits, TaskRows, TaskStates
  <2>7. \A m \in Adm!Sides : resv[m].state = "aborted"
    BY <2>1, <2>6 DEF AdmInv, AbortingFits
  <2>8. \A m \in Adm!Sides : RowFits(m)'
    BY <1>1, RowsStay DEF AdmInv
  <2>9. AdmTypes'
    BY <1>1, <2>3, <2>5 DEF AdmInv, AdmTypes
  <2>10. QED
    BY <1>1, <2>3, <2>5, <2>7, <2>8, <2>9 DEF AdmInv
<1>4. QED
  BY <1>2, <1>3

\* The administrator asks for the cancellation.
LEMMA RequestKeeps ==
  ASSUME AdmInv, Adm!RequestCancel
  PROVE  AdmInv'
<1>1. UNCHANGED <<catalog, native, upload, resv, preview, step, tardy>>
  BY DEF Adm!RequestCancel
<1>2. task' = [task EXCEPT !.state = "admission_aborting", !.error = ""]
  BY DEF Adm!RequestCancel
<1>3. task \in TaskRows
  BY DEF AdmInv, AdmTypes
<1>4. task' \in TaskRows /\ task'.state = "admission_aborting"
  BY <1>2, <1>3 DEF TaskRows, TaskStates, Errors
<1>5. NoneCancelled
  BY DEF Adm!RequestCancel, AdmInv, AdmittingFits, PreparedFits
<1>6. AbortingFits'
  BY <1>1, <1>5 DEF AbortingFits, NoneCancelled
<1>7. \A m \in Adm!Sides : RowFits(m)'
  BY <1>1, RowsStay DEF AdmInv
<1>8. AdmTypes'
  BY <1>1, <1>4 DEF AdmInv, AdmTypes
<1>9. QED
  BY <1>1, <1>4, <1>6, <1>7, <1>8 DEF AdmInv

\* The runner returns its lease and may take another for the probe.
LEMMA ReturnKeeps ==
  ASSUME AdmInv, Adm!PrepareReturns \/ Adm!TakeOff
  PROVE  AdmInv'
<1>1. UNCHANGED <<catalog, native, upload, resv, preview, task, tardy>> /\ step.at # "none"
  BY DEF Adm!PrepareReturns, Adm!TakeOff
<1>2. step \in StepRows /\ task \in TaskRows /\ preview \in Previews
  BY DEF AdmInv, AdmTypes, Previews
<1>3. step' \in StepRows /\ step'.at \in {"takeoff", "probe", "none"}
  <2>1. step' \in {Adm!First("takeoff"), Adm!First("probe"), Adm!NoStep}
    BY DEF Adm!PrepareReturns, Adm!TakeOff
  <2>2. QED
    BY <1>2, <2>1, FirstIs, NoStepIs DEF Turns
<1>4. MayStand
  BY <1>1, <1>3 DEF MayStand, AdmInv
<1>5. QED
  BY <1>1, <1>2, <1>3, <1>4, CallsStay, RowsStand, TurnKeeps DEF Previews, SameTask

\* What else happens to the runner.
LEMMA TroubleKeeps ==
  ASSUME AdmInv,
         \/ Adm!LookFails \/ Adm!Retry \/ Adm!Crash \/ Adm!Stop
         \/ Adm!LeaseExpires \/ Adm!Lapse
  PROVE  AdmInv'
<1>1. UNCHANGED <<catalog, native, upload, resv, tardy>>
  BY DEF Adm!LookFails, Adm!Retry, Adm!Crash, Adm!Stop, Adm!LeaseExpires, Adm!Lapse
<1>2. task \in TaskRows /\ preview \in Previews
  BY DEF AdmInv, AdmTypes, Previews
<1>3. step' = step \/ step' = Adm!NoStep
  BY DEF Adm!LookFails, Adm!Retry, Adm!Crash, Adm!Stop, Adm!LeaseExpires, Adm!Lapse, Adm!Fails
<1>4. preview' \in Previews
  <2>1. preview' = preview \/ preview' = [preview EXCEPT !.at = 0]
    BY DEF Adm!LookFails, Adm!Retry, Adm!Crash, Adm!Stop, Adm!LeaseExpires, Adm!Lapse
  <2>2. QED
    BY <1>2, <2>1 DEF Previews
<1>5. task' \in TaskRows /\ SameTask
  <2>1. \/ task' = task
        \/ \E code \in Errors : task' = [task EXCEPT !.error = code]
    <3>1. CASE Adm!LookFails
      <4>1. PICK code \in {"transient", "refused"} : Adm!Fails(code)
        BY <3>1 DEF Adm!LookFails
      <4>2. (IF lease = "live" THEN code ELSE "lapsed") \in Errors
        BY <4>1 DEF Errors
      <4>3. QED
        BY <4>1, <4>2 DEF Adm!Fails
    <3>2. CASE Adm!Retry
      BY <3>2 DEF Adm!Retry, Errors
    <3>3. CASE Adm!Stop
      <4>1. task' = task \/ Adm!Fails("interrupted")
        BY <3>3 DEF Adm!Stop
      <4>2. (IF lease = "live" THEN "interrupted" ELSE "lapsed") \in Errors
        BY DEF Errors
      <4>3. QED
        BY <4>1, <4>2 DEF Adm!Fails
    <3>4. CASE Adm!Crash \/ Adm!LeaseExpires \/ Adm!Lapse
      BY <3>4 DEF Adm!Crash, Adm!LeaseExpires, Adm!Lapse
    <3>5. QED
      BY <3>1, <3>2, <3>3, <3>4
  <2>2. QED
    BY <1>2, <2>1 DEF TaskRows, SameTask
<1>6. QED
  BY <1>1, <1>3, <1>4, <1>5, CallsStay, PauseKeeps DEF Previews

\* The invariant holds at first.
LEMMA AdmStarts ==
  ASSUME Adm!Init
  PROVE  AdmInv
<1>1. task = [state |-> "none", plan |-> Adm!Empty, installed |-> {}, booked |-> FALSE,
              drains |-> {}, error |-> ""]
  BY DEF Adm!Init
<1>2. Adm!Empty \in [Adm!Units -> Nat]
  BY DEF Adm!Empty
<1>3. task \in TaskRows /\ task.state = "none"
  BY <1>1, <1>2 DEF TaskRows, TaskStates, Errors
<1>4. resv = [m \in Adm!Sides |-> Adm!NoReservation] /\ Adm!NoReservation \in ReservationRows
  BY DEF Adm!Init, Adm!NoReservation, ReservationRows
<1>5. /\ resv \in [Adm!Sides -> ReservationRows]
      /\ \A m \in Adm!Sides : resv[m].state = "none"
  BY <1>4 DEF Adm!NoReservation
<1>6. upload = Adm!NoUpload
  BY DEF Adm!Init
<1>7. upload \in UploadRows /\ ~upload.row /\ ~upload.token /\ upload.put = "none"
  BY <1>6 DEF Adm!NoUpload, UploadRows, Adm!Sides
<1>8. catalog \in Versions /\ native = catalog
  BY DEF Adm!Init, Versions, Adm!Sides
<1>9. preview \in [at : Nat, plan : [Adm!Units -> Nat]]
  BY <1>2 DEF Adm!Init
<1>10. step = Adm!NoStep /\ tardy = {}
  BY DEF Adm!Init
<1>11. AdmTypes
  BY <1>3, <1>5, <1>7, <1>8, <1>9, <1>10, NoStepIs DEF AdmTypes
<1>12. \A m \in Adm!Sides : RowFits(m)
  BY <1>5 DEF RowFits
<1>13. NoneCancelled /\ step.at = "none"
  BY <1>5, <1>10, NoStepIs DEF NoneCancelled
<1>14. QED
  BY <1>3, <1>7, <1>11, <1>12, <1>13 DEF AdmInv

\* The invariant is what the specification promises.
LEMMA AdmHolds ==
  ASSUME AdmInv
  PROVE  Adm!AdmSound
<1>1. Adm!PreparedIsTrue
  <2> SUFFICES ASSUME task.state \in {"prepared", "queued"}
               PROVE  /\ catalog["source"] = task.plan
                      /\ \A m \in Adm!Sides :
                           /\ Adm!Observed(m, task.plan) /\ ~Adm!Pending(m)
                           /\ resv[m].state = "prepared" /\ resv[m].scopes = Adm!Units
                           /\ resv[m].booked
                      /\ resv["source"].drained /\ "source" \in task.drains
                      /\ task.installed = Adm!Units /\ task.booked
    BY DEF Adm!PreparedIsTrue
  <2>1. PreparedFits
    BY DEF AdmInv
  <2>2. \A m \in Adm!Sides : RowFits(m) /\ Looked(m)
    BY <2>1 DEF AdmInv, PreparedFits
  <2>3. \A m \in Adm!Sides :
          /\ resv[m].state = "prepared" /\ resv[m].scopes = Adm!Units /\ resv[m].booked
          /\ m = "source" => resv[m].drained
    BY <2>2 DEF RowFits, Looked
  <2>4. \A m \in Adm!Sides : Adm!Observed(m, task.plan) /\ ~Adm!Pending(m)
    BY <2>2 DEF Looked
  <2>5. QED
    BY <2>1, <2>3, <2>4 DEF PreparedFits, Adm!Sides
<1>2. Adm!CancelledIsGone
  <2> SUFFICES ASSUME task.state = "cancelled"
               PROVE  /\ \A m \in Adm!Sides :
                           resv[m] = [Adm!NoReservation EXCEPT !.state = "aborted"]
                      /\ task.installed = {} /\ ~task.booked /\ task.drains = {}
    BY DEF Adm!CancelledIsGone
  <2>1. \A m \in Adm!Sides : RowFits(m) /\ resv[m].state = "aborted"
    BY DEF AdmInv
  <2>2. \A m \in Adm!Sides : resv[m] = [Adm!NoReservation EXCEPT !.state = "aborted"]
    BY <2>1 DEF RowFits
  <2>3. QED
    BY <2>2 DEF AdmInv
<1>3. QED
  BY <1>1, <1>2 DEF Adm!AdmSound

\* Steps of others change nothing here.
LEMMA AdmStutters ==
  ASSUME AdmInv, UNCHANGED Adm!admvars
  PROVE  AdmInv'
<1>1. UNCHANGED <<native, catalog, upload, resv, preview, task, step, tardy>>
  BY DEF Adm!admvars
<1>2. task' \in TaskRows /\ preview' \in Previews /\ SameTask
  BY <1>1 DEF AdmInv, AdmTypes, Previews, SameTask
<1>3. QED
  BY <1>1, <1>2, CallsStay, PauseKeeps DEF Previews

\* What must be true, said of the state alone and in the terms of the module.
LEMMA AdmReads == Adm!AdmSound => AdmSound
BY DEF Adm!AdmSound, Adm!PreparedIsTrue, Adm!CancelledIsGone, Adm!Observed, Adm!Pending,
       Adm!Sides, Adm!Units, Adm!Empty, Adm!NoReservation,
       AdmSound, PreparedIsTrue, CancelledIsGone, Observed, Pending,
       Sides, Units, Empty, NoReservation

\* "prepared" and "queued" keep what they promise to the transfer, and a cancelled task
\* holds nothing anywhere, whatever uploads, crashes, lost and late calls do meanwhile.
THEOREM AdmissionSound == Adm!Spec => []AdmSound
<1>1. Adm!Init => AdmInv
  BY AdmStarts
<1>2. AdmInv /\ [Adm!Next]_(Adm!admvars) => AdmInv'
  <2> SUFFICES ASSUME AdmInv, [Adm!Next]_(Adm!admvars)
               PROVE  AdmInv'
    OBVIOUS
  <2>1. CASE \E m \in Adm!Sides, u \in Adm!Units : Adm!OpenUpload(m, u)
    BY <2>1, OpenKeeps
  <2>2. CASE Adm!Receive \/ Adm!Place \/ Adm!FinalizeUpload \/ Adm!ExpireUpload
    BY <2>2, ReceiveKeeps, PlaceKeeps, FinalizeKeeps, ExpireUploadKeeps
  <2>3. CASE \/ Adm!StartPreview \/ Adm!Observe \/ Adm!FinishPreview
             \/ Adm!ObservationFails \/ Adm!PreviewExpires
    BY <2>3, PreviewKeeps
  <2>4. CASE Adm!Create
    BY <2>4, CreateKeeps
  <2>5. CASE Adm!Runs
    BY <2>5, ClaimKeeps, RevalidateKeeps, InstallUnitKeeps, AnsweredKeeps, RecheckKeeps,
       PreparedKeeps, ReturnKeeps, QueueKeeps, CancelUnstartedKeeps, ReleaseKeeps, TroubleKeeps
       DEF Adm!Runs
  <2>6. CASE Adm!Unanswered
    BY <2>6, UnansweredKeeps
  <2>7. CASE Adm!RequestCancel
    BY <2>7, RequestKeeps
  <2>8. CASE Adm!LookFails \/ Adm!Retry \/ Adm!Crash \/ Adm!Stop \/ Adm!Lapse
    BY <2>8, TroubleKeeps
  <2>9. CASE \E c \in tardy : Adm!Arrives(c)
    BY <2>9, ArrivesKeeps
  <2>10. CASE UNCHANGED Adm!admvars
    BY <2>10, AdmStutters
  <2>11. QED
    BY <2>1, <2>2, <2>3, <2>4, <2>5, <2>6, <2>7, <2>8, <2>9, <2>10 DEF Adm!Next
<1>3. AdmInv => AdmSound
  BY AdmHolds, AdmReads
<1>4. QED
  BY <1>1, <1>2, <1>3, PTL DEF Adm!Spec

-----------------------------------------------------------------------------
(* IpSecurity: the inductive invariant says that a copy about to be written   *)
(* is still the policy, that what changed since a snapshot was read has a     *)
(* later generation, and that the locks and marks of a steady Redis hold.     *)

CONSTANTS MaxChanges, MaxTroubles

Sec == INSTANCE IpSecurity

Bans == {"none", "auto", "manual", "permanent"}
Seen == Bans \cup {"white"}
Places ==
    {"idle", "guard", "change", "read", "write", "load", "install", "generation", "publish",
     "settle"}

Policies == [ban : Bans, white : BOOLEAN, prior : BOOLEAN, strikes : Nat]
Issues == [generation : Nat, published : Nat]
Stores ==
    [up : BOOLEAN, steady : BOOLEAN, ready : BOOLEAN, mark : [Ips -> BOOLEAN],
     view : [Ips -> Seen]]
Doings ==
    [at : Places, key : Sec!Keys, op : Sec!Ops \cup {"none", "project", "hydrate", "edge"},
     held : BOOLEAN, copy : [Ips -> Seen], generation : Nat]

SecTypes ==
    /\ policy \in [Ips -> Policies] /\ due \in [Ips -> BOOLEAN] /\ issue \in Issues
    /\ redis \in Stores /\ guard \in [Sec!Keys -> Sec!Tasks \cup {"none", "dead"}]
    /\ edge \in [Ips -> Seen] /\ doing \in [Sec!Tasks -> Doings]
    /\ site \in [running : BOOLEAN, dirty : BOOLEAN]

\* Nobody on the whitelist is banned.
WhiteIsFree == \A i \in Ips : policy[i].white => policy[i].ban = "none"

\* A policy that is about to be written to Redis is still the one of the database.
CopiesAreTrue ==
    \A t \in Sec!Tasks : doing[t].at \in {"write", "install"} =>
        \A i \in Ips : doing[t].copy[i] = Sec!View(policy[i])

\* What a task does, it does to an address.
KeysFit ==
    \A t \in Sec!Tasks :
        /\ doing[t].at \in {"read", "write"} => doing[t].key \in Ips
        /\ doing[t].at = "change" => doing[t].op \in Sec!Ops
        /\ doing[t].at = "guard" => doing[t].op # "none"
        /\ doing[t].at # "idle" /\ doing[t].op \in Sec!Ops \cup {"project"} => doing[t].key \in Ips

\* The generation a snapshot was read at.
SnapshotFits ==
    /\ doing["loop"].at \in {"publish", "settle"} => doing["loop"].generation <= issue.generation
    /\ doing["loop"].at = "settle" /\ (\E i \in Ips : edge[i] # Sec!EdgeView(policy[i])) =>
         issue.generation > doing["loop"].generation

\* While Redis keeps working, the locks exclude and the marks stand.
SteadyFits ==
    redis.steady =>
        /\ redis.up
        /\ \A t \in Sec!Tasks :
             /\ doing[t].at \notin {"idle", "guard"} => guard[doing[t].key] = t
             /\ doing[t].at = "change" => redis.mark[doing[t].key]
        /\ \A i \in Ips : redis.ready /\ ~redis.mark[i] => redis.view[i] = Sec!View(policy[i])

SecInv ==
    /\ SecTypes /\ WhiteIsFree /\ CopiesAreTrue /\ KeysFit /\ SnapshotFits /\ SteadyFits
    /\ Sec!LagIsKnown /\ Sec!EdgeLagIsKnown
\* No task is called like a lock nobody holds.
LEMMA NamesDiffer ==
  /\ "none" \notin Sec!Tasks /\ "dead" \notin Sec!Tasks
  /\ "loop" \in Sec!Tasks /\ "lookup" \in Sec!Tasks /\ Callers \subseteq Sec!Tasks
  /\ "cache" \in Sec!Keys /\ "cache" \notin Ips /\ Ips \subseteq Sec!Keys
BY SecConstants DEF Sec!Tasks, Sec!Keys

\* What is shown of a policy.
LEMMA ViewIs ==
  ASSUME NEW p \in Policies
  PROVE  /\ Sec!View(p) \in Seen /\ Sec!EdgeView(p) \in Seen
         /\ p.white => Sec!View(p) = "white" /\ Sec!EdgeView(p) = "none"
         /\ ~p.white => Sec!View(p) = p.ban /\ Sec!EdgeView(p) = p.ban
BY DEF Policies, Sec!View, Sec!EdgeView, Seen, Bans

\* A task that rests.
LEMMA RestingIs ==
  /\ Sec!Resting \in Doings
  /\ Sec!Resting.at = "idle" /\ Sec!Resting.key = "cache" /\ Sec!Resting.op = "none"
  /\ Sec!Resting.held = FALSE
  /\ Sec!Resting.generation = 0
<1>1. [i \in Ips |-> "none"] \in [Ips -> Seen]
  BY DEF Seen, Bans
<1>2. QED
  BY <1>1, NamesDiffer DEF Sec!Resting, Doings, Places

OthersRest(t) == \A s \in Sec!Tasks \ {t} : doing'[s] = doing[s]

\* One task goes on.
LEMMA DoingIs ==
  ASSUME doing \in [Sec!Tasks -> Doings], NEW t \in Sec!Tasks, NEW d \in Doings,
         doing' = [doing EXCEPT ![t] = d]
  PROVE  doing' \in [Sec!Tasks -> Doings] /\ doing'[t] = d /\ OthersRest(t)
BY DEF OthersRest

\* A task goes to its next place with all it knows.
LEMMA GoesIs ==
  ASSUME doing \in [Sec!Tasks -> Doings], NEW t \in Sec!Tasks, NEW at \in Places, Sec!Goes(t, at)
  PROVE  /\ doing' \in [Sec!Tasks -> Doings] /\ OthersRest(t)
         /\ doing'[t].at = at /\ doing'[t].key = doing[t].key /\ doing'[t].op = doing[t].op
         /\ doing'[t].held = doing[t].held /\ doing'[t].copy = doing[t].copy
         /\ doing'[t].generation = doing[t].generation
<1> DEFINE d == [doing[t] EXCEPT !.at = at]
<1>1. doing[t] \in Doings
  OBVIOUS
<1>2. /\ d \in Doings /\ d.at = at /\ d.key = doing[t].key /\ d.op = doing[t].op
      /\ d.held = doing[t].held /\ d.copy = doing[t].copy /\ d.generation = doing[t].generation
  BY <1>1 DEF Doings
<1>3. doing' = [doing EXCEPT ![t] = d]
  BY DEF Sec!Goes
<1> HIDE DEF d
<1>4. QED
  BY <1>2, <1>3, DoingIs

GuardKept(t) == \A k \in Sec!Keys : guard[k] \in Sec!Tasks \ {t} => guard'[k] = guard[k]

\* A task that leaves takes no lock but its own with it.
LEMMA LeavesIs ==
  ASSUME SecTypes, NEW t \in Sec!Tasks, Sec!Leaves(t)
  PROVE  /\ doing' \in [Sec!Tasks -> Doings] /\ doing'[t] = Sec!Resting /\ OthersRest(t)
         /\ guard' \in [Sec!Keys -> Sec!Tasks \cup {"none", "dead"}] /\ GuardKept(t)
<1>1. doing' = [doing EXCEPT ![t] = Sec!Resting]
  BY DEF Sec!Leaves
<1>2. doing' \in [Sec!Tasks -> Doings] /\ doing'[t] = Sec!Resting /\ OthersRest(t)
  BY <1>1, RestingIs, DoingIs DEF SecTypes
<1>3. doing[t].key \in Sec!Keys
  BY DEF SecTypes, Doings
<1> DEFINE k == doing[t].key
           g == IF guard[k] # t THEN guard[k] ELSE IF redis.up THEN "none" ELSE "dead"
<1>4. guard' = [guard EXCEPT ![k] = g]
  BY DEF Sec!Leaves
<1>5. g \in Sec!Tasks \cup {"none", "dead"} /\ (guard[k] \in Sec!Tasks \ {t} => g = guard[k])
  BY <1>3 DEF SecTypes
<1> HIDE DEF g, k
<1>6. QED
  BY <1>2, <1>4, <1>5 DEF SecTypes, GuardKept

\* What a task does between two changes of the policy.
LEMMA TaskKeeps ==
  ASSUME SecInv, NEW t \in Sec!Tasks, SecTypes', policy' = policy, OthersRest(t), GuardKept(t),
         doing'[t].at \in {"write", "install"} =>
            \A i \in Ips : doing'[t].copy[i] = Sec!View(policy[i]),
         doing'[t].at \in {"read", "write"} => doing'[t].key \in Ips,
         doing'[t].at = "change" => doing'[t].op \in Sec!Ops,
         doing'[t].at = "guard" => doing'[t].op # "none",
         doing'[t].at # "idle" /\ doing'[t].op \in Sec!Ops \cup {"project"} =>
            doing'[t].key \in Ips,
         redis'.steady = redis.steady, redis'.up = redis.up,
         redis.steady => 
            /\ doing'[t].at \notin {"idle", "guard"} => guard'[doing'[t].key] = t
            /\ doing'[t].at = "change" => redis'.mark[doing'[t].key]
            /\ \A s \in Sec!Tasks \ {t} : doing[s].at = "change" => redis'.mark[doing[s].key]
            /\ \A i \in Ips : redis'.ready /\ ~redis'.mark[i] =>
                 redis'.view[i] = Sec!View(policy[i]),
         SnapshotFits', Sec!LagIsKnown', Sec!EdgeLagIsKnown'
  PROVE  SecInv'
<1>1. WhiteIsFree'
  BY DEF SecInv, WhiteIsFree
<1>2. CopiesAreTrue'
  BY DEF SecInv, CopiesAreTrue, OthersRest
<1>3. KeysFit'
  BY DEF SecInv, KeysFit, OthersRest
<1>4. SteadyFits'
  <2> SUFFICES ASSUME redis.steady
               PROVE  /\ redis'.up
                      /\ \A s \in Sec!Tasks :
                           /\ doing'[s].at \notin {"idle", "guard"} => guard'[doing'[s].key] = s
                           /\ doing'[s].at = "change" => redis'.mark[doing'[s].key]
                      /\ \A i \in Ips : redis'.ready /\ ~redis'.mark[i] =>
                           redis'.view[i] = Sec!View(policy[i])
    BY DEF SteadyFits
  <2>1. SteadyFits
    BY DEF SecInv
  <2>2. ASSUME NEW s \in Sec!Tasks \ {t}
        PROVE  /\ doing'[s].at \notin {"idle", "guard"} => guard'[doing'[s].key] = s
               /\ doing'[s].at = "change" => redis'.mark[doing'[s].key]
    <3>1. doing'[s] = doing[s] /\ doing[s].key \in Sec!Keys
      BY DEF OthersRest, SecInv, SecTypes, Doings
    <3>2. doing[s].at \notin {"idle", "guard"} => guard[doing[s].key] = s
      BY <2>1 DEF SteadyFits
    <3>3. QED
      BY <3>1, <3>2 DEF GuardKept
  <2>3. QED
    BY <2>1, <2>2 DEF SteadyFits
<1>5. QED
  BY <1>1, <1>2, <1>3, <1>4 DEF SecInv

\* One that touches neither the stores nor the snapshot.
LEMMA QuietKeeps ==
  ASSUME SecInv, NEW t \in Sec!Tasks, UNCHANGED <<policy, due, issue, redis, edge, site>>,
         doing' \in [Sec!Tasks -> Doings], guard' \in [Sec!Keys -> Sec!Tasks \cup {"none", "dead"}],
         OthersRest(t), GuardKept(t),
         doing'[t].at \in {"write", "install"} =>
            \A i \in Ips : doing'[t].copy[i] = Sec!View(policy[i]),
         doing'[t].at \in {"read", "write"} => doing'[t].key \in Ips,
         doing'[t].at \notin {"change", "publish", "settle"},
         doing'[t].at = "guard" => doing'[t].op # "none",
         doing'[t].at # "idle" /\ doing'[t].op \in Sec!Ops \cup {"project"} =>
            doing'[t].key \in Ips,
         redis.steady /\ doing'[t].at \notin {"idle", "guard"} => guard'[doing'[t].key] = t
  PROVE  SecInv'
<1>1. SecTypes'
  BY DEF SecInv, SecTypes
<1>2. SnapshotFits'
  <2>1. doing'["loop"] = doing["loop"] \/ doing'["loop"].at \notin {"publish", "settle"}
    BY NamesDiffer DEF OthersRest
  <2>2. QED
    BY <2>1 DEF SecInv, SnapshotFits
<1>3. Sec!LagIsKnown' /\ Sec!EdgeLagIsKnown'
  BY DEF SecInv, Sec!LagIsKnown, Sec!EdgeLagIsKnown
<1>4. redis.steady =>
        /\ \A s \in Sec!Tasks \ {t} : doing[s].at = "change" => redis'.mark[doing[s].key]
        /\ \A i \in Ips : redis'.ready /\ ~redis'.mark[i] => redis'.view[i] = Sec!View(policy[i])
  BY DEF SecInv, SteadyFits
<1>5. QED
  BY <1>1, <1>2, <1>3, <1>4, TaskKeeps
\* A task is asked for something, and waits for its lock.
LEMMA AskedKeeps ==
  ASSUME SecInv, NEW t \in Sec!Tasks, NEW key \in Sec!Keys,
         NEW op \in Sec!Ops \cup {"project", "hydrate", "edge"},
         op \in Sec!Ops \cup {"project"} => key \in Ips,
         doing' = [doing EXCEPT ![t] = [Sec!Resting EXCEPT !.at = "guard", !.key = key, !.op = op]],
         UNCHANGED <<policy, due, issue, redis, guard, edge, site>>
  PROVE  SecInv'
<1> DEFINE d == [Sec!Resting EXCEPT !.at = "guard", !.key = key, !.op = op]
<1>1. d \in Doings /\ d.at = "guard" /\ d.key = key /\ d.op = op /\ op # "none"
  BY RestingIs DEF Doings, Places, Sec!Ops
<1>2. doing' = [doing EXCEPT ![t] = d] /\ doing \in [Sec!Tasks -> Doings]
  BY DEF SecInv, SecTypes
<1> HIDE DEF d
<1>3. doing' \in [Sec!Tasks -> Doings] /\ doing'[t] = d /\ OthersRest(t)
  BY <1>1, <1>2, DoingIs
<1>4. GuardKept(t) /\ guard' \in [Sec!Keys -> Sec!Tasks \cup {"none", "dead"}]
  BY DEF GuardKept, SecInv, SecTypes
<1>5. QED
  BY <1>1, <1>3, <1>4, QuietKeeps

\* A rebuild is asked under the lock of the rebuilds.
LEMMA HydrateIs ==
  [Sec!Resting EXCEPT !.at = "guard", !.op = "hydrate"]
    = [Sec!Resting EXCEPT !.at = "guard", !.key = "cache", !.op = "hydrate"]
BY RestingIs DEF Doings

\* So is a snapshot.
LEMMA EdgeIs ==
  [Sec!Resting EXCEPT !.at = "guard", !.op = "edge"]
    = [Sec!Resting EXCEPT !.at = "guard", !.key = "cache", !.op = "edge"]
BY RestingIs DEF Doings

\* A request that changes a policy arrives.
LEMMA ArriveKeeps ==
  ASSUME SecInv, NEW c \in Callers, NEW i \in Ips, NEW op \in Sec!Ops, Sec!Arrive(c, i, op)
  PROVE  SecInv'
<1>1. /\ doing' = [doing EXCEPT ![c] = [Sec!Resting EXCEPT !.at = "guard", !.key = i, !.op = op]]
      /\ UNCHANGED <<policy, due, issue, redis, guard, edge, site>>
  BY DEF Sec!Arrive
<1>2. QED
  BY <1>1, NamesDiffer, AskedKeeps

\* A request finds the projection gone.
LEMMA LookupKeeps ==
  ASSUME SecInv, Sec!Lookup
  PROVE  SecInv'
<1>1. /\ doing' = [doing EXCEPT !["lookup"] =
                     [Sec!Resting EXCEPT !.at = "guard", !.key = "cache", !.op = "hydrate"]]
      /\ UNCHANGED <<policy, due, issue, redis, guard, edge, site>>
  BY HydrateIs DEF Sec!Lookup
<1>2. "hydrate" \notin Sec!Ops \cup {"project"}
  BY DEF Sec!Ops
<1>3. QED
  BY <1>1, <1>2, NamesDiffer, AskedKeeps

\* The process starts.
LEMMA StartUpKeeps ==
  ASSUME SecInv, Sec!StartUp
  PROVE  SecInv'
<1>1. /\ doing' = [doing EXCEPT !["loop"] =
                     [Sec!Resting EXCEPT !.at = "guard", !.key = "cache", !.op = "hydrate"]]
      /\ UNCHANGED <<policy, due, issue, redis, guard, edge, site>>
  BY HydrateIs DEF Sec!StartUp
<1>2. "hydrate" \notin Sec!Ops \cup {"project"}
  BY DEF Sec!Ops
<1>3. QED
  BY <1>1, <1>2, NamesDiffer, AskedKeeps

\* The loop finds a snapshot that lags.
LEMMA RetryEdgeKeeps ==
  ASSUME SecInv, Sec!RetryEdge
  PROVE  SecInv'
<1>1. /\ doing' = [doing EXCEPT !["loop"] =
                     [Sec!Resting EXCEPT !.at = "guard", !.key = "cache", !.op = "edge"]]
      /\ UNCHANGED <<policy, due, issue, redis, guard, edge, site>>
  BY EdgeIs DEF Sec!RetryEdge
<1>2. "edge" \notin Sec!Ops \cup {"project"}
  BY DEF Sec!Ops
<1>3. QED
  BY <1>1, <1>2, NamesDiffer, AskedKeeps

\* The loop finds a projection that lags.
LEMMA RetryIpKeeps ==
  ASSUME SecInv, NEW i \in Ips, Sec!RetryIp(i)
  PROVE  SecInv'
<1>1. /\ doing' = [doing EXCEPT !["loop"] =
                     [Sec!Resting EXCEPT !.at = "guard", !.key = i, !.op = "project"]]
      /\ UNCHANGED <<policy, due, issue, redis, guard, edge, site>>
  BY DEF Sec!RetryIp
<1>2. QED
  BY <1>1, NamesDiffer, AskedKeeps

\* A lock was not to be had.
LEMMA TimesOutKeeps ==
  ASSUME SecInv, NEW t \in Sec!Tasks, Sec!TimesOut(t)
  PROVE  SecInv'
<1>1. doing' = [doing EXCEPT ![t] = Sec!Resting] /\ doing \in [Sec!Tasks -> Doings]
  BY DEF Sec!TimesOut, SecInv, SecTypes
<1>2. doing' \in [Sec!Tasks -> Doings] /\ doing'[t] = Sec!Resting /\ OthersRest(t)
  BY <1>1, RestingIs, DoingIs
<1>3. UNCHANGED <<policy, due, issue, redis, guard, edge, site>>
  BY DEF Sec!TimesOut
<1>4. GuardKept(t) /\ guard' \in [Sec!Keys -> Sec!Tasks \cup {"none", "dead"}]
  BY <1>3 DEF GuardKept, SecInv, SecTypes
<1>5. QED
  BY <1>2, <1>3, <1>4, RestingIs, QuietKeeps

\* A task ends, whatever becomes of its lock.
LEMMA LeavesKeeps ==
  ASSUME SecInv, NEW t \in Sec!Tasks, Sec!Leaves(t),
         UNCHANGED <<policy, due, issue, redis, edge, site>>
  PROVE  SecInv'
<1>1. /\ doing' \in [Sec!Tasks -> Doings] /\ doing'[t] = Sec!Resting /\ OthersRest(t)
      /\ guard' \in [Sec!Keys -> Sec!Tasks \cup {"none", "dead"}] /\ GuardKept(t)
  BY LeavesIs DEF SecInv
<1>2. QED
  BY <1>1, RestingIs, QuietKeeps

\* The policy of every address, as it is shown.
LEMMA ViewsAre ==
  ASSUME SecTypes
  PROVE  Sec!Views \in [Ips -> Seen] /\ \A i \in Ips : Sec!Views[i] = Sec!View(policy[i])
BY ViewIs DEF SecTypes, Sec!Views

\* A task copies the policy inside a write transaction that keeps all others out.
LEMMA CopiesKeep ==
  ASSUME SecInv, NEW t \in Sec!Tasks, NEW at \in {"write", "install"},
         at = "write" => doing[t].key \in Ips,
         doing[t].op \in Sec!Ops \cup {"project"} => doing[t].key \in Ips,
         doing[t].at \notin {"idle", "guard"},
         doing' = [doing EXCEPT ![t].at = at, ![t].copy = Sec!Views],
         UNCHANGED <<policy, due, issue, redis, guard, edge, site>>
  PROVE  SecInv'
<1> DEFINE d == [doing[t] EXCEPT !.at = at, !.copy = Sec!Views]
<1>1. doing \in [Sec!Tasks -> Doings] /\ doing[t] \in Doings
  BY DEF SecInv, SecTypes
<1>2. Sec!Views \in [Ips -> Seen] /\ \A i \in Ips : Sec!Views[i] = Sec!View(policy[i])
  BY ViewsAre DEF SecInv
<1>3. /\ d \in Doings /\ d.at = at /\ d.key = doing[t].key /\ d.op = doing[t].op
      /\ d.copy = Sec!Views
  BY <1>1, <1>2 DEF Doings, Places
<1>4. doing' = [doing EXCEPT ![t] = d]
  BY <1>1
<1> HIDE DEF d
<1>5. doing' \in [Sec!Tasks -> Doings] /\ doing'[t] = d /\ OthersRest(t)
  BY <1>1, <1>3, <1>4, DoingIs
<1>6. GuardKept(t) /\ guard' \in [Sec!Keys -> Sec!Tasks \cup {"none", "dead"}]
  BY DEF GuardKept, SecInv, SecTypes
<1>7. redis.steady => guard[doing[t].key] = t
  BY DEF SecInv, SteadyFits
<1>8. QED
  BY <1>2, <1>3, <1>5, <1>6, <1>7, QuietKeeps

\* The policy of one address is read for its projection.
LEMMA ReadKeeps ==
  ASSUME SecInv, NEW t \in Sec!Tasks, Sec!Read(t)
  PROVE  SecInv'
<1>1. doing[t].key \in Ips /\ doing[t].at = "read"
  BY DEF Sec!Read, SecInv, KeysFit
<1>2. /\ doing' = [doing EXCEPT ![t].at = "write", ![t].copy = Sec!Views]
      /\ UNCHANGED <<policy, due, issue, redis, guard, edge, site>>
  BY DEF Sec!Read
<1>3. QED
  BY <1>1, <1>2, CopiesKeep

\* The policy of all addresses is read for a rebuild.
LEMMA LoadKeeps ==
  ASSUME SecInv, NEW t \in Sec!Tasks, Sec!Load(t)
  PROVE  SecInv'
<1>1. UNCHANGED <<policy, due, issue, redis, edge, site>> /\ doing[t].at = "load"
  BY DEF Sec!Load
<1>2. CASE Sec!Leaves(t)
  BY <1>1, <1>2, LeavesKeeps
<1>3. CASE ~Sec!Leaves(t)
  <2>1. doing' = [doing EXCEPT ![t].at = "install", ![t].copy = Sec!Views] /\ guard' = guard
    BY <1>3 DEF Sec!Load
  <2>2. doing[t].op \in Sec!Ops \cup {"project"} => doing[t].key \in Ips
    BY <1>1 DEF SecInv, KeysFit
  <2>3. QED
    BY <1>1, <2>1, <2>2, CopiesKeep
<1>4. QED
  BY <1>2, <1>3
\* The lock, and a mark before the change.
LEMMA AcquireKeeps ==
  ASSUME SecInv, NEW t \in Sec!Tasks, Sec!Acquire(t)
  PROVE  SecInv'
<1> DEFINE k == doing[t].key
           op == doing[t].op
           to == Sec!First(op)
           d == [doing[t] EXCEPT !.at = to, !.held = redis.up]
<1>1. /\ doing \in [Sec!Tasks -> Doings] /\ doing[t] \in Doings /\ redis \in Stores
      /\ guard \in [Sec!Keys -> Sec!Tasks \cup {"none", "dead"}] /\ redis.up \in BOOLEAN
      /\ k \in Sec!Keys
      /\ redis.mark \in [Ips -> BOOLEAN] /\ doing[t].at = "guard"
  BY DEF SecInv, SecTypes, Stores, Doings, Sec!Acquire
<1>2. /\ to \in {"read", "load", "generation", "change"}
      /\ to = "change" <=> op \notin {"project", "hydrate", "edge"}
      /\ to = "read" <=> op = "project"
  BY DEF Sec!First
<1>3. UNCHANGED <<policy, due, issue, edge, site>>
  BY DEF Sec!Acquire
<1>4. op \in Sec!Ops \cup {"project"} => k \in Ips
  BY <1>1 DEF SecInv, KeysFit
<1>5. doing' = [doing EXCEPT ![t] = d]
  BY <1>1 DEF Sec!Acquire
<1>6. guard' = IF redis.up THEN [guard EXCEPT ![k] = t] ELSE guard
  BY DEF Sec!Acquire
<1>7. redis.up => guard[k] = "none"
  BY DEF Sec!Acquire
<1>8. redis' = IF redis.up /\ op \in Sec!Ops THEN [redis EXCEPT !.mark[k] = TRUE] ELSE redis
  BY DEF Sec!Acquire
<1> HIDE DEF to
<1>9. to \in Places
  BY <1>2 DEF Places
<1>10. d \in Doings /\ d.at = to /\ d.key = k /\ d.op = op
  BY <1>1, <1>9 DEF Doings
<1> HIDE DEF d
<1>11. doing' \in [Sec!Tasks -> Doings] /\ doing'[t] = d /\ OthersRest(t)
  BY <1>1, <1>5, <1>10, DoingIs
<1>12. /\ guard' \in [Sec!Keys -> Sec!Tasks \cup {"none", "dead"}] /\ GuardKept(t)
       /\ redis.up => guard'[k] = t
  <2>1. CASE redis.up
    BY <1>1, <1>6, <1>7, <2>1, NamesDiffer DEF GuardKept
  <2>2. CASE ~redis.up
    BY <1>1, <1>6, <2>2 DEF GuardKept
  <2>3. QED
    BY <2>1, <2>2
<1>13. /\ redis' \in Stores /\ redis'.up = redis.up /\ redis'.steady = redis.steady
       /\ redis'.ready = redis.ready /\ redis'.view = redis.view
       /\ \A i \in Ips : redis.mark[i] => redis'.mark[i]
       /\ redis.up /\ op \in Sec!Ops => redis'.mark[k]
  <2>1. CASE redis.up /\ op \in Sec!Ops
    <3>1. redis' = [redis EXCEPT !.mark[k] = TRUE] /\ k \in Ips
      BY <1>4, <1>8, <2>1
    <3>2. QED
      BY <1>1, <3>1 DEF Stores
  <2>2. CASE ~(redis.up /\ op \in Sec!Ops)
    BY <1>1, <1>8, <2>2
  <2>3. QED
    BY <2>1, <2>2
<1>14. op \in Sec!Ops \cup {"none", "project", "hydrate", "edge"}
  BY <1>1 DEF Doings
<1>15. SecTypes'
  BY <1>3, <1>11, <1>12, <1>13 DEF SecInv, SecTypes
<1>16. SnapshotFits'
  <2>1. doing'["loop"] = doing["loop"] \/ doing'["loop"].at \notin {"publish", "settle"}
    BY <1>2, <1>10, <1>11, NamesDiffer DEF OthersRest
  <2>2. QED
    BY <1>3, <2>1 DEF SecInv, SnapshotFits
<1>17. Sec!LagIsKnown' /\ Sec!EdgeLagIsKnown'
  BY <1>3, <1>13 DEF SecInv, Sec!LagIsKnown, Sec!EdgeLagIsKnown
<1>18. redis.steady =>
         /\ redis.up
         /\ \A s \in Sec!Tasks \ {t} : doing[s].at = "change" => redis'.mark[doing[s].key]
         /\ \A i \in Ips : redis'.ready /\ ~redis'.mark[i] => redis'.view[i] = Sec!View(policy[i])
  <2>1. \A s \in Sec!Tasks : doing[s].at = "change" => doing[s].key \in Ips
    BY DEF SecInv, KeysFit
  <2>2. QED
    BY <1>13, <2>1 DEF SecInv, SteadyFits
<1>19. op # "none"
  BY <1>1 DEF SecInv, KeysFit
<1>20. QED
  BY <1>2, <1>3, <1>4, <1>10, <1>11, <1>12, <1>13, <1>14, <1>15, <1>16, <1>17, <1>18, <1>19,
     TaskKeeps

\* A copy of the policy that is still the policy.
LEMMA WriteKeeps ==
  ASSUME SecInv, NEW t \in Sec!Tasks, Sec!Write(t)
  PROVE  SecInv'
<1> DEFINE i == doing[t].key
<1>1. /\ i \in Ips /\ doing[t].at = "write" /\ \A j \in Ips : doing[t].copy[j] = Sec!View(policy[j])
  BY DEF Sec!Write, SecInv, KeysFit, CopiesAreTrue
<1>2. UNCHANGED <<policy, issue, edge, site>> /\ Sec!Leaves(t)
  BY DEF Sec!Write
<1>3. CASE ~Sec!Reached(t)
  BY <1>2, <1>3, LeavesKeeps DEF Sec!Write
<1>4. CASE Sec!Reached(t)
  <2>1. /\ doing' \in [Sec!Tasks -> Doings] /\ doing'[t] = Sec!Resting /\ OthersRest(t)
        /\ guard' \in [Sec!Keys -> Sec!Tasks \cup {"none", "dead"}] /\ GuardKept(t)
    BY <1>2, LeavesIs DEF SecInv
  <2>2. /\ redis' = [redis EXCEPT !.view[i] = doing[t].copy[i], !.mark[i] = FALSE]
        /\ due' = [due EXCEPT ![i] = FALSE]
    BY <1>4 DEF Sec!Write
  <2>3. redis \in Stores /\ doing[t].copy[i] \in Seen /\ due \in [Ips -> BOOLEAN]
    BY <1>1 DEF SecInv, SecTypes, Doings
  <2>4. /\ redis' \in Stores /\ redis'.up = redis.up /\ redis'.steady = redis.steady
        /\ redis'.ready = redis.ready /\ redis'.view[i] = doing[t].copy[i]
        /\ \A j \in Ips \ {i} : redis'.view[j] = redis.view[j] /\ redis'.mark[j] = redis.mark[j]
    <3> DEFINE c == doing[t].copy[i]
    <3>1. redis' = [redis EXCEPT !.view[i] = c, !.mark[i] = FALSE] /\ c \in Seen
      BY <2>2, <2>3
    <3> HIDE DEF c
    <3>2. /\ redis' \in Stores /\ redis'.up = redis.up /\ redis'.steady = redis.steady
          /\ redis'.ready = redis.ready /\ redis'.view[i] = c
          /\ \A j \in Ips \ {i} :
               redis'.view[j] = redis.view[j] /\ redis'.mark[j] = redis.mark[j]
      BY <1>1, <2>3, <3>1 DEF Stores
    <3>3. QED
      BY <3>2 DEF c
  <2>5. due' \in [Ips -> BOOLEAN] /\ \A j \in Ips \ {i} : due'[j] = due[j]
    BY <1>1, <2>2, <2>3
  <2>6. SecTypes'
    BY <1>2, <2>1, <2>4, <2>5 DEF SecInv, SecTypes
  <2>7. SnapshotFits'
    <3>1. doing'["loop"] = doing["loop"] \/ doing'["loop"].at \notin {"publish", "settle"}
      BY <2>1, RestingIs, NamesDiffer DEF OthersRest
    <3>2. QED
      BY <1>2, <3>1 DEF SecInv, SnapshotFits
  <2>8. Sec!LagIsKnown'
    BY <1>1, <1>2, <2>4, <2>5 DEF SecInv, Sec!LagIsKnown
  <2>9. Sec!EdgeLagIsKnown'
    BY <1>2 DEF SecInv, Sec!EdgeLagIsKnown
  <2>10. redis.steady =>
          /\ \A s \in Sec!Tasks \ {t} : doing[s].at = "change" => redis'.mark[doing[s].key]
          /\ \A j \in Ips : redis'.ready /\ ~redis'.mark[j] => redis'.view[j] = Sec!View(policy[j])
    <3> SUFFICES ASSUME redis.steady
                 PROVE  /\ \A s \in Sec!Tasks \ {t} :
                             doing[s].at = "change" => redis'.mark[doing[s].key]
                        /\ \A j \in Ips : redis'.ready /\ ~redis'.mark[j] =>
                             redis'.view[j] = Sec!View(policy[j])
      OBVIOUS
    <3>1. SteadyFits /\ KeysFit
      BY DEF SecInv
    <3>2. guard[i] = t
      BY <1>1, <3>1 DEF SteadyFits
    <3>3. ASSUME NEW s \in Sec!Tasks \ {t}, doing[s].at = "change"
          PROVE  redis'.mark[doing[s].key]
      <4>1. doing[s].key \in Ips /\ guard[doing[s].key] = s /\ redis.mark[doing[s].key]
        BY <3>1, <3>3 DEF SteadyFits, KeysFit
      <4>2. doing[s].key # i
        BY <3>2, <4>1
      <4>3. QED
        BY <2>4, <4>1, <4>2
    <3>4. \A j \in Ips : redis'.ready /\ ~redis'.mark[j] => redis'.view[j] = Sec!View(policy[j])
      BY <1>1, <2>4, <3>1 DEF SteadyFits
    <3>5. QED
      BY <3>3, <3>4
  <2>11. QED
    BY <1>2, <2>1, <2>4, <2>6, <2>7, <2>8, <2>9, <2>10, RestingIs, TaskKeeps
<1>5. QED
  BY <1>3, <1>4

\* A rebuilt projection is what the database says, mark by mark.
LEMMA InstallKeeps ==
  ASSUME SecInv, NEW t \in Sec!Tasks, Sec!Install(t)
  PROVE  SecInv'
<1>1. /\ doing[t].at = "install" /\ \A j \in Ips : doing[t].copy[j] = Sec!View(policy[j])
      /\ doing[t].copy \in [Ips -> Seen] /\ redis \in Stores
  BY DEF Sec!Install, SecInv, SecTypes, Doings, CopiesAreTrue
<1>2. UNCHANGED <<policy, due, issue, edge, site>>
  BY DEF Sec!Install
<1>3. CASE ~Sec!Reached(t)
  BY <1>2, <1>3, LeavesKeeps DEF Sec!Install
<1>4. CASE Sec!Reached(t)
  <2>1. redis' = [redis EXCEPT !.view = doing[t].copy, !.ready = TRUE]
    BY <1>4 DEF Sec!Install
  <2>2. /\ redis' \in Stores /\ redis'.up = redis.up /\ redis'.steady = redis.steady
        /\ redis'.mark = redis.mark /\ redis'.view = doing[t].copy
    BY <1>1, <2>1 DEF Stores
  <2>3. /\ doing' \in [Sec!Tasks -> Doings] /\ OthersRest(t)
        /\ guard' \in [Sec!Keys -> Sec!Tasks \cup {"none", "dead"}] /\ GuardKept(t)
        /\ \/ doing'[t] = Sec!Resting
           \/ /\ doing'[t].at = "generation" /\ doing'[t].key = doing[t].key
              /\ doing'[t].op = doing[t].op /\ guard' = guard
    <3>1. CASE t = "loop"
      <4>1. Sec!Goes(t, "generation") /\ guard' = guard
        BY <1>4, <3>1 DEF Sec!Install
      <4>2. QED
        BY <4>1, GoesIs DEF SecInv, SecTypes, Places, GuardKept
    <3>2. CASE t # "loop"
      BY <1>4, <3>2, LeavesIs DEF Sec!Install, SecInv
    <3>3. QED
      BY <3>1, <3>2
  <2>4. SecTypes'
    BY <1>2, <2>2, <2>3 DEF SecInv, SecTypes
  <2>5. SnapshotFits'
    <3>1. doing'["loop"] = doing["loop"] \/ doing'["loop"].at \notin {"publish", "settle"}
      BY <2>3, RestingIs, NamesDiffer DEF OthersRest
    <3>2. QED
      BY <1>2, <3>1 DEF SecInv, SnapshotFits
  <2>6. Sec!LagIsKnown'
    BY <1>1, <1>2, <2>2 DEF Sec!LagIsKnown
  <2>7. Sec!EdgeLagIsKnown'
    BY <1>2 DEF SecInv, Sec!EdgeLagIsKnown
  <2>8. redis.steady =>
          /\ doing'[t].at \notin {"idle", "guard"} => guard'[doing'[t].key] = t
          /\ \A s \in Sec!Tasks \ {t} : doing[s].at = "change" => redis'.mark[doing[s].key]
          /\ \A j \in Ips : redis'.ready /\ ~redis'.mark[j] => redis'.view[j] = Sec!View(policy[j])
    BY <1>1, <2>2, <2>3, RestingIs DEF SecInv, SteadyFits
  <2>9. doing'[t].op \in Sec!Ops \cup {"project"} /\ doing'[t].at # "idle" => doing'[t].key \in Ips
    BY <1>1, <2>3, RestingIs DEF SecInv, KeysFit
  <2>10. doing'[t].at \in {"idle", "generation"}
    BY <2>3, RestingIs
  <2>11. QED
    BY <1>2, <2>2, <2>3, <2>4, <2>5, <2>6, <2>7, <2>8, <2>9, <2>10, TaskKeeps
<1>5. QED
  BY <1>3, <1>4
\* What an operation makes of a policy: news of it is a new ban or a new whitelisting.
LEMMA OutcomeIs ==
  ASSUME NEW p \in Policies, NEW op \in Sec!Ops, ~Sec!Refuses(p, op), p.white => p.ban = "none"
  PROVE  /\ Sec!Outcome(p, op) \in Policies
         /\ Sec!Outcome(p, op).white => Sec!Outcome(p, op).ban = "none"
         /\ op = "invalid" => Sec!Outcome(p, op).white = p.white
<1>1. CASE op = "invalid"
  <2> DEFINE n == IF p.strikes <= Limit THEN p.strikes + 1 ELSE p.strikes
             struck == [p EXCEPT !.strikes = n]
             hit == [struck EXCEPT !.ban = IF p.prior THEN "permanent" ELSE "auto", !.prior = TRUE]
  <2>1. n \in Nat
    BY SecConstants DEF Policies
  <2>2. Sec!Outcome(p, op) = IF p.white THEN p ELSE Sec!Struck(p)
    BY <1>1 DEF Sec!Outcome
  <2>3. Sec!Struck(p) = IF struck.strikes > Limit /\ p.ban = "none" THEN hit ELSE struck
    BY DEF Sec!Struck
  <2> HIDE DEF n
  <2>4. struck \in Policies /\ struck.white = p.white
    BY <2>1 DEF Policies
  <2> DEFINE b == IF p.prior THEN "permanent" ELSE "auto"
  <2>5. b \in Bans /\ hit = [struck EXCEPT !.ban = b, !.prior = TRUE]
    BY DEF Bans
  <2> HIDE DEF b, struck, hit
  <2>6. hit \in Policies /\ hit.white = p.white
    BY <2>4, <2>5 DEF Policies
  <2>7. p.white => Sec!Outcome(p, op) = p
    BY <2>2
  <2>8. ~p.white => Sec!Outcome(p, op) \in {hit, struck}
    BY <2>2, <2>3
  <2>9. QED
    BY <2>4, <2>6, <2>7, <2>8
<1>2. CASE op = "unban"
  <2>1. Sec!Outcome(p, op) = [p EXCEPT !.ban = "none"]
    BY <1>2 DEF Sec!Outcome
  <2>2. QED
    BY <1>2, <2>1 DEF Policies, Bans
<1>3. CASE op = "manual"
  <2>1. Sec!Outcome(p, op) = [p EXCEPT !.ban = "manual"] /\ ~p.white
    BY <1>3 DEF Sec!Outcome, Sec!Refuses, Policies
  <2>2. QED
    BY <1>3, <2>1 DEF Policies, Bans
<1>4. CASE op = "permanent"
  <2>1. Sec!Outcome(p, op) = [p EXCEPT !.ban = "permanent", !.prior = TRUE] /\ ~p.white
    BY <1>4 DEF Sec!Outcome, Sec!Refuses, Policies
  <2>2. QED
    BY <1>4, <2>1 DEF Policies, Bans
<1>5. CASE op = "white"
  <2>1. Sec!Outcome(p, op) = [p EXCEPT !.white = TRUE, !.ban = "none"]
    BY <1>5 DEF Sec!Outcome
  <2>2. QED
    BY <1>5, <2>1 DEF Policies, Bans
<1>6. CASE op = "unwhite"
  <2>1. Sec!Outcome(p, op) = [p EXCEPT !.white = FALSE]
    BY <1>6 DEF Sec!Outcome
  <2>2. QED
    BY <1>6, <2>1 DEF Policies, Bans
<1>7. QED
  BY <1>1, <1>2, <1>3, <1>4, <1>5, <1>6 DEF Sec!Ops

\* A policy changes: its mark stands, its retry intent is written with it, and news of it
\* raises the generation.
LEMMA ChangeKeeps ==
  ASSUME SecInv, NEW t \in Sec!Tasks, Sec!Change(t)
  PROVE  SecInv'
<1> DEFINE i == doing[t].key
           op == doing[t].op
           old == policy[i]
           new == Sec!Outcome(policy[i], doing[t].op)
           news == doing[t].op # "invalid" \/ new.ban # policy[i].ban
           d == [doing[t] EXCEPT !.at = "read", !.op = "project"]
<1>1. /\ doing \in [Sec!Tasks -> Doings] /\ doing[t] \in Doings /\ op \in Sec!Ops /\ i \in Ips
      /\ doing[t].at = "change" /\ old \in Policies /\ issue \in Issues
      /\ policy \in [Ips -> Policies] /\ due \in [Ips -> BOOLEAN]
      /\ site \in [running : BOOLEAN, dirty : BOOLEAN] /\ (old.white => old.ban = "none")
  BY DEF SecInv, SecTypes, KeysFit, Sec!Change, WhiteIsFree
<1>2. /\ doing' = [doing EXCEPT ![t] = d] /\ UNCHANGED <<redis, guard, edge>>
  BY <1>1 DEF Sec!Change
<1>3. d \in Doings /\ d.at = "read" /\ d.op = "project" /\ d.key = i
  BY <1>1 DEF Doings, Places
<1>4. \A s \in Sec!Tasks : doing[s].at \notin {"write", "install"}
  BY DEF Sec!Change, Sec!Writing
<1> HIDE DEF d
<1>5. doing' \in [Sec!Tasks -> Doings] /\ doing'[t] = d /\ OthersRest(t)
  BY <1>1, <1>2, <1>3, DoingIs
<1>6. GuardKept(t) /\ guard' \in [Sec!Keys -> Sec!Tasks \cup {"none", "dead"}]
  BY <1>2 DEF GuardKept, SecInv, SecTypes
<1>7. redis.steady => guard[i] = t /\ redis.mark[i]
  BY <1>1 DEF SecInv, SteadyFits
<1>8. CASE UNCHANGED <<policy, due, issue, site>>
  BY <1>1, <1>2, <1>3, <1>5, <1>6, <1>7, <1>8, QuietKeeps
<1>9. CASE ~UNCHANGED <<policy, due, issue, site>>
  <2>1. /\ ~Sec!Refuses(old, op) /\ policy' = [policy EXCEPT ![i] = new]
        /\ due' = [due EXCEPT ![i] = TRUE]
        /\ issue' = IF news THEN [issue EXCEPT !.generation = @ + 1] ELSE issue
        /\ site' = IF news THEN [site EXCEPT !.dirty = TRUE] ELSE site
    BY <1>9 DEF Sec!Change
  <2>2. /\ new \in Policies /\ (new.white => new.ban = "none")
        /\ (op = "invalid" => new.white = old.white)
    BY <1>1, <2>1, OutcomeIs
  <2>3. /\ policy' \in [Ips -> Policies] /\ policy'[i] = new
        /\ \A j \in Ips \ {i} : policy'[j] = policy[j]
    BY <1>1, <2>1, <2>2
  <2>4. ~news => Sec!EdgeView(new) = Sec!EdgeView(old)
    BY <2>2 DEF Sec!EdgeView
  <2>5. due' \in [Ips -> BOOLEAN] /\ due'[i] /\ \A j \in Ips \ {i} : due'[j] = due[j]
    BY <1>1, <2>1
  <2> HIDE DEF new, news
  <2>6. /\ issue' \in Issues /\ issue'.published = issue.published
        /\ issue'.generation = IF news THEN issue.generation + 1 ELSE issue.generation
    BY <1>1, <2>1 DEF Issues
  <2>7. /\ site' \in [running : BOOLEAN, dirty : BOOLEAN] /\ site'.running = site.running
        /\ site'.dirty = (news \/ site.dirty)
    <3>1. CASE news
      BY <1>1, <2>1, <3>1
    <3>2. CASE ~news
      BY <1>1, <2>1, <3>2
    <3>3. QED
      BY <3>1, <3>2
  <2>8. ~news => \A j \in Ips : Sec!EdgeView(policy'[j]) = Sec!EdgeView(policy[j])
    BY <2>3, <2>4
  <2>9. SecTypes'
    BY <1>2, <1>5, <2>3, <2>5, <2>6, <2>7 DEF SecInv, SecTypes
  <2>10. WhiteIsFree'
    BY <2>2, <2>3 DEF SecInv, WhiteIsFree
  <2>11. CopiesAreTrue'
    BY <1>3, <1>4, <1>5 DEF CopiesAreTrue, OthersRest
  <2>12. KeysFit'
    BY <1>1, <1>3, <1>5 DEF SecInv, KeysFit, OthersRest
  <2>13. SnapshotFits'
    <3>1. doing'["loop"] = doing["loop"] \/ doing'["loop"].at \notin {"publish", "settle"}
      BY <1>3, <1>5, NamesDiffer DEF OthersRest
    <3>2. doing["loop"].generation \in Nat /\ issue.generation \in Nat
      BY <1>1, NamesDiffer DEF Doings, Issues
    <3>3. SnapshotFits
      BY DEF SecInv
    <3>4. CASE news
      BY <1>2, <2>6, <3>1, <3>2, <3>3, <3>4 DEF SnapshotFits
    <3>5. CASE ~news
      BY <1>2, <2>6, <2>8, <3>1, <3>2, <3>3, <3>5 DEF SnapshotFits
    <3>6. QED
      BY <3>4, <3>5
  <2>14. SteadyFits'
    <3> SUFFICES ASSUME redis.steady
                 PROVE  /\ redis.up
                        /\ \A s \in Sec!Tasks :
                             /\ doing'[s].at \notin {"idle", "guard"} =>
                                  guard[doing'[s].key] = s
                             /\ doing'[s].at = "change" => redis.mark[doing'[s].key]
                        /\ \A j \in Ips : redis.ready /\ ~redis.mark[j] =>
                             redis.view[j] = Sec!View(policy'[j])
      BY <1>2 DEF SteadyFits
    <3>1. SteadyFits
      BY DEF SecInv
    <3>2. QED
      BY <1>3, <1>5, <1>7, <2>3, <3>1 DEF SteadyFits, OthersRest
  <2>15. Sec!LagIsKnown'
    BY <1>2, <2>3, <2>5 DEF SecInv, Sec!LagIsKnown
  <2>16. Sec!EdgeLagIsKnown'
    <3>1. CASE news
      BY <2>7, <3>1 DEF Sec!EdgeLagIsKnown
    <3>2. CASE ~news
      BY <1>2, <2>6, <2>7, <2>8, <3>2 DEF SecInv, Sec!EdgeLagIsKnown
    <3>3. QED
      BY <3>1, <3>2
  <2>17. QED
    BY <2>9, <2>10, <2>11, <2>12, <2>13, <2>14, <2>15, <2>16 DEF SecInv
<1>10. QED
  BY <1>8, <1>9

\* The loop reads the generation, publishes, and settles what it published.
LEMMA GenerationKeeps ==
  ASSUME SecInv, Sec!Generation
  PROVE  SecInv'
<1> DEFINE d == [doing["loop"] EXCEPT !.at = "publish", !.generation = issue.generation]
<1>1. /\ doing \in [Sec!Tasks -> Doings] /\ doing["loop"] \in Doings /\ "loop" \in Sec!Tasks
      /\ issue \in Issues /\ issue.generation \in Nat /\ doing["loop"].at = "generation"
      /\ site \in [running : BOOLEAN, dirty : BOOLEAN]
  BY NamesDiffer DEF SecInv, SecTypes, Sec!Generation, Issues
<1>2. doing' = [doing EXCEPT !["loop"] = d]
  BY <1>1 DEF Sec!Generation
<1>3. /\ d \in Doings /\ d.at = "publish" /\ d.generation = issue.generation
      /\ d.key = doing["loop"].key /\ d.op = doing["loop"].op
  BY <1>1 DEF Doings, Places
<1> HIDE DEF d
<1>4. doing' \in [Sec!Tasks -> Doings] /\ doing'["loop"] = d /\ OthersRest("loop")
  BY <1>1, <1>2, <1>3, DoingIs
<1>5. UNCHANGED <<policy, due, issue, redis, guard, edge>> /\ site' = [site EXCEPT !.dirty = TRUE]
  BY DEF Sec!Generation
<1>6. site' \in [running : BOOLEAN, dirty : BOOLEAN] /\ site'.dirty
  BY <1>1, <1>5
<1>7. SecTypes'
  BY <1>4, <1>5, <1>6 DEF SecInv, SecTypes
<1>8. SnapshotFits' /\ Sec!EdgeLagIsKnown' /\ Sec!LagIsKnown'
  BY <1>1, <1>3, <1>4, <1>5, <1>6 DEF SecInv, SnapshotFits, Sec!EdgeLagIsKnown, Sec!LagIsKnown
<1>9. GuardKept("loop")
  BY <1>5 DEF GuardKept
<1>10. /\ d.op \in Sec!Ops \cup {"project"} => d.key \in Ips
       /\ redis.steady => guard[d.key] = "loop"
       /\ redis.steady =>
            /\ \A s \in Sec!Tasks : doing[s].at = "change" => redis.mark[doing[s].key]
            /\ \A i \in Ips : redis.ready /\ ~redis.mark[i] => redis.view[i] = Sec!View(policy[i])
  BY <1>1, <1>3 DEF SecInv, KeysFit, SteadyFits
<1>11. QED
  BY <1>1, <1>3, <1>4, <1>5, <1>7, <1>8, <1>9, <1>10, TaskKeeps

\* The snapshot is taken of what the database says now.
LEMMA PublishKeeps ==
  ASSUME SecInv, Sec!Publish
  PROVE  SecInv'
<1>1. /\ doing \in [Sec!Tasks -> Doings] /\ "loop" \in Sec!Tasks /\ issue \in Issues
      /\ doing["loop"].at = "publish"
  BY NamesDiffer DEF SecInv, SecTypes, Sec!Publish
<1>2. UNCHANGED <<policy, due, issue, redis, guard, site>> /\ Sec!Goes("loop", "settle")
  BY DEF Sec!Publish
<1>3. /\ doing' \in [Sec!Tasks -> Doings] /\ OthersRest("loop")
      /\ doing'["loop"].at = "settle" /\ doing'["loop"].key = doing["loop"].key
      /\ doing'["loop"].op = doing["loop"].op
      /\ doing'["loop"].generation = doing["loop"].generation
  BY <1>1, <1>2, GoesIs DEF Places
<1>4. edge' \in [Ips -> Seen] /\ \A i \in Ips : edge'[i] = Sec!EdgeView(policy[i])
  BY ViewIs DEF Sec!Publish, SecInv, SecTypes
<1>5. SecTypes'
  BY <1>2, <1>3, <1>4 DEF SecInv, SecTypes
<1>6. SnapshotFits' /\ Sec!EdgeLagIsKnown' /\ Sec!LagIsKnown'
  BY <1>1, <1>2, <1>3, <1>4 DEF SecInv, SnapshotFits, Sec!EdgeLagIsKnown, Sec!LagIsKnown
<1>7. GuardKept("loop")
  BY <1>2 DEF GuardKept
<1>8. /\ doing'["loop"].op \in Sec!Ops \cup {"project"} => doing'["loop"].key \in Ips
      /\ redis.steady => guard[doing'["loop"].key] = "loop"
      /\ redis.steady =>
           /\ \A s \in Sec!Tasks : doing[s].at = "change" => redis.mark[doing[s].key]
           /\ \A i \in Ips : redis.ready /\ ~redis.mark[i] => redis.view[i] = Sec!View(policy[i])
  BY <1>1, <1>3 DEF SecInv, KeysFit, SteadyFits
<1>9. QED
  BY <1>1, <1>2, <1>3, <1>5, <1>6, <1>7, <1>8, TaskKeeps

\* What changed since the snapshot has a later generation than the one that is settled.
LEMMA SettleKeeps ==
  ASSUME SecInv, Sec!Settle
  PROVE  SecInv'
<1>1. /\ doing \in [Sec!Tasks -> Doings] /\ doing["loop"] \in Doings /\ "loop" \in Sec!Tasks
      /\ issue \in Issues /\ doing["loop"].at = "settle" /\ doing["loop"].generation \in Nat
  BY NamesDiffer DEF SecInv, SecTypes, Sec!Settle, Doings
<1>2. /\ UNCHANGED <<policy, due, redis, edge>> /\ Sec!Leaves("loop")
      /\ issue' = [issue EXCEPT !.published = doing["loop"].generation]
      /\ site' = [running |-> TRUE, dirty |-> FALSE]
  BY DEF Sec!Settle
<1>3. /\ doing' \in [Sec!Tasks -> Doings] /\ doing'["loop"] = Sec!Resting /\ OthersRest("loop")
      /\ guard' \in [Sec!Keys -> Sec!Tasks \cup {"none", "dead"}] /\ GuardKept("loop")
  BY <1>1, <1>2, LeavesIs DEF SecInv
<1>4. /\ issue' \in Issues /\ issue'.generation = issue.generation
      /\ issue'.published = doing["loop"].generation
  BY <1>1, <1>2 DEF Issues
<1>5. site' \in [running : BOOLEAN, dirty : BOOLEAN]
  BY <1>2
<1>6. SecTypes'
  BY <1>2, <1>3, <1>4, <1>5 DEF SecInv, SecTypes
<1>7. SnapshotFits'
  BY <1>3, RestingIs DEF SnapshotFits
<1>8. Sec!EdgeLagIsKnown'
  BY <1>1, <1>2, <1>4 DEF SecInv, SnapshotFits, Sec!EdgeLagIsKnown
<1>9. Sec!LagIsKnown'
  BY <1>2 DEF SecInv, Sec!LagIsKnown
<1>10. redis.steady =>
         /\ \A s \in Sec!Tasks : doing[s].at = "change" => redis.mark[doing[s].key]
         /\ \A i \in Ips : redis.ready /\ ~redis.mark[i] => redis.view[i] = Sec!View(policy[i])
  BY DEF SecInv, SteadyFits
<1>11. QED
  BY <1>1, <1>2, <1>3, <1>6, <1>7, <1>8, <1>9, <1>10, RestingIs, TaskKeeps

\* A snapshot that could not be written is still due.
LEMMA PublishFailsKeeps ==
  ASSUME SecInv, Sec!PublishFails
  PROVE  SecInv'
BY NamesDiffer, LeavesKeeps DEF Sec!PublishFails
\* A ban that runs out does so in the database and in every copy of it.
LEMMA ExpireKeeps ==
  ASSUME SecInv, NEW i \in Ips, NEW kind \in {"auto", "manual"}, Sec!Expire(i, kind)
  PROVE  SecInv'
<1>1. /\ policy \in [Ips -> Policies] /\ redis \in Stores /\ edge \in [Ips -> Seen]
      /\ doing \in [Sec!Tasks -> Doings] /\ policy[i].ban = kind /\ ~policy[i].white
  BY DEF SecInv, SecTypes, WhiteIsFree, Sec!Expire, Policies
<1>2. UNCHANGED <<due, issue, guard, site>>
  BY DEF Sec!Expire
<1>3. /\ policy' \in [Ips -> Policies] /\ policy'[i].ban = "none" /\ ~policy'[i].white
      /\ \A j \in Ips \ {i} : policy'[j] = policy[j]
  <2>1. policy' = [policy EXCEPT ![i].ban = "none"]
    BY DEF Sec!Expire
  <2>2. QED
    BY <1>1, <2>1 DEF Policies, Bans
<1>4. /\ Sec!View(policy[i]) = kind /\ Sec!EdgeView(policy[i]) = kind
      /\ Sec!View(policy'[i]) = "none" /\ Sec!EdgeView(policy'[i]) = "none"
  BY <1>1, <1>3, ViewIs
<1>5. /\ redis' \in Stores /\ redis'.up = redis.up /\ redis'.steady = redis.steady
      /\ redis'.ready = redis.ready /\ redis'.mark = redis.mark
      /\ redis'.view[i] = Sec!Over(kind, redis.view[i])
      /\ \A j \in Ips \ {i} : redis'.view[j] = redis.view[j]
  <2> DEFINE v == Sec!Over(kind, redis.view[i])
  <2>1. v \in Seen
    BY <1>1 DEF Sec!Over, Seen, Bans, Stores
  <2>2. redis' = [redis EXCEPT !.view[i] = v]
    BY <1>1 DEF Sec!Expire, Stores
  <2> HIDE DEF v
  <2>3. /\ redis' \in Stores /\ redis'.up = redis.up /\ redis'.steady = redis.steady
        /\ redis'.ready = redis.ready /\ redis'.mark = redis.mark /\ redis'.view[i] = v
        /\ \A j \in Ips \ {i} : redis'.view[j] = redis.view[j]
    BY <1>1, <2>1, <2>2 DEF Stores
  <2>4. QED
    BY <2>3 DEF v
<1>6. /\ edge' \in [Ips -> Seen] /\ edge'[i] = Sec!Over(kind, edge[i])
      /\ \A j \in Ips \ {i} : edge'[j] = edge[j]
  BY <1>1 DEF Sec!Expire, Sec!Over, Seen, Bans
<1>7. \A t \in Sec!Tasks :
        /\ doing'[t] \in Doings /\ doing'[t].at = doing[t].at /\ doing'[t].key = doing[t].key
        /\ doing'[t].op = doing[t].op /\ doing'[t].generation = doing[t].generation
        /\ doing'[t].copy[i] = Sec!Over(kind, doing[t].copy[i])
        /\ \A j \in Ips \ {i} : doing'[t].copy[j] = doing[t].copy[j]
  <2> SUFFICES ASSUME NEW t \in Sec!Tasks
               PROVE  /\ doing'[t] \in Doings /\ doing'[t].at = doing[t].at
                      /\ doing'[t].key = doing[t].key /\ doing'[t].op = doing[t].op
                      /\ doing'[t].generation = doing[t].generation
                      /\ doing'[t].copy[i] = Sec!Over(kind, doing[t].copy[i])
                      /\ \A j \in Ips \ {i} : doing'[t].copy[j] = doing[t].copy[j]
    OBVIOUS
  <2> DEFINE v == Sec!Over(kind, doing[t].copy[i])
             d == [doing[t] EXCEPT !.copy[i] = v]
  <2>1. doing[t] \in Doings /\ v \in Seen
    BY <1>1 DEF Sec!Over, Seen, Bans, Doings
  <2>2. doing'[t] = d
    BY <1>1 DEF Sec!Expire, Doings
  <2> HIDE DEF v
  <2>3. /\ d \in Doings /\ d.at = doing[t].at /\ d.key = doing[t].key /\ d.op = doing[t].op
        /\ d.generation = doing[t].generation /\ d.copy[i] = v
        /\ \A j \in Ips \ {i} : d.copy[j] = doing[t].copy[j]
    BY <2>1 DEF Doings
  <2>4. QED
    BY <2>2, <2>3 DEF v
<1>8. doing' \in [Sec!Tasks -> Doings]
  <2>1. doing' = [t \in Sec!Tasks |-> doing'[t]]
    BY DEF Sec!Expire
  <2>2. QED
    BY <1>7, <2>1
<1>9. SecTypes'
  BY <1>2, <1>3, <1>5, <1>6, <1>8 DEF SecInv, SecTypes
<1>10. WhiteIsFree'
  BY <1>3 DEF SecInv, WhiteIsFree
<1>11. \A j \in Ips \ {i} :
         /\ Sec!View(policy'[j]) = Sec!View(policy[j])
         /\ Sec!EdgeView(policy'[j]) = Sec!EdgeView(policy[j])
  BY <1>3
<1>12. Sec!Over(kind, kind) = "none"
  BY DEF Sec!Over
<1>13. CopiesAreTrue'
  BY <1>4, <1>7, <1>11, <1>12 DEF SecInv, CopiesAreTrue
<1>14. KeysFit'
  BY <1>7 DEF SecInv, KeysFit
<1>15. ASSUME \E j \in Ips : edge'[j] # Sec!EdgeView(policy'[j])
       PROVE  \E j \in Ips : edge[j] # Sec!EdgeView(policy[j])
  <2>1. PICK j \in Ips : edge'[j] # Sec!EdgeView(policy'[j])
    BY <1>15
  <2>2. edge[j] # Sec!EdgeView(policy[j])
    BY <1>4, <1>6, <1>11, <1>12, <2>1
  <2>3. QED
    BY <2>2
<1>16. SnapshotFits'
  BY <1>2, <1>7, <1>15, NamesDiffer DEF SecInv, SnapshotFits
<1>17. Sec!EdgeLagIsKnown'
  BY <1>2, <1>15 DEF SecInv, Sec!EdgeLagIsKnown
<1>18. \A j \in Ips : redis.view[j] = Sec!View(policy[j]) => redis'.view[j] = Sec!View(policy'[j])
  BY <1>4, <1>5, <1>11, <1>12
<1>19. Sec!LagIsKnown'
  BY <1>2, <1>5, <1>18 DEF SecInv, Sec!LagIsKnown
<1>20. SteadyFits'
  BY <1>2, <1>5, <1>7, <1>18 DEF SecInv, SteadyFits
<1>21. QED
  BY <1>9, <1>10, <1>13, <1>14, <1>16, <1>17, <1>19, <1>20 DEF SecInv

\* Neither strikes, locks nor the state of Redis decide what is shown of an address.
LEMMA ViewsKeep ==
  ASSUME SecInv, SecTypes', UNCHANGED <<due, issue, edge, doing, site>>,
         \A i \in Ips : policy'[i].white = policy[i].white /\ policy'[i].ban = policy[i].ban,
         redis'.ready => redis.ready /\ redis'.mark = redis.mark /\ redis'.view = redis.view,
         redis'.steady => 
            /\ redis.steady /\ redis' = redis
            /\ \A k \in Sec!Keys : guard[k] \in Sec!Tasks => guard'[k] = guard[k]
  PROVE  SecInv'
<1>1. \A i \in Ips :
        /\ Sec!View(policy'[i]) = Sec!View(policy[i])
        /\ Sec!EdgeView(policy'[i]) = Sec!EdgeView(policy[i])
  BY DEF Sec!View, Sec!EdgeView
<1>2. WhiteIsFree' /\ KeysFit'
  BY DEF SecInv, WhiteIsFree, KeysFit
<1>3. CopiesAreTrue'
  BY <1>1 DEF SecInv, CopiesAreTrue
<1>4. SnapshotFits' /\ Sec!EdgeLagIsKnown'
  BY <1>1 DEF SecInv, SnapshotFits, Sec!EdgeLagIsKnown
<1>5. Sec!LagIsKnown'
  BY <1>1 DEF SecInv, Sec!LagIsKnown
<1>6. SteadyFits'
  <2>1. \A t \in Sec!Tasks : doing[t].key \in Sec!Keys
    BY DEF SecInv, SecTypes, Doings
  <2>2. QED
    BY <1>1, <2>1 DEF SecInv, SteadyFits
<1>7. QED
  BY <1>2, <1>3, <1>4, <1>5, <1>6 DEF SecInv

\* A strike is forgotten.
LEMMA ForgetKeeps ==
  ASSUME SecInv, NEW i \in Ips, Sec!Forget(i)
  PROVE  SecInv'
<1>1. policy \in [Ips -> Policies] /\ policy[i].strikes - 1 \in Nat
  <2>1. policy \in [Ips -> Policies] /\ policy[i].strikes \in Nat /\ policy[i].strikes > 0
    BY DEF SecInv, SecTypes, Sec!Forget, Policies
  <2>2. QED
    BY <2>1
<1>2. policy' = [policy EXCEPT ![i].strikes = policy[i].strikes - 1]
  BY <1>1 DEF Sec!Forget, Policies
<1>3. /\ policy' \in [Ips -> Policies]
      /\ \A j \in Ips : policy'[j].white = policy[j].white /\ policy'[j].ban = policy[j].ban
  BY <1>1, <1>2 DEF Policies
<1>4. UNCHANGED <<due, issue, redis, guard, edge, doing, site>>
  BY DEF Sec!Forget
<1>5. SecTypes'
  BY <1>3, <1>4 DEF SecInv, SecTypes
<1>6. QED
  BY <1>3, <1>4, <1>5, ViewsKeep

\* A lock that was left behind runs out; nobody at work relied on it.
LEMMA LockExpiresKeeps ==
  ASSUME SecInv, NEW k \in Sec!Keys, Sec!LockExpires(k)
  PROVE  SecInv'
<1>1. guard' = [guard EXCEPT ![k] = "none"] /\ guard[k] = "dead"
  BY DEF Sec!LockExpires
<1>2. UNCHANGED <<policy, due, issue, redis, edge, doing, site>>
  BY DEF Sec!LockExpires
<1>3. SecTypes' /\ \A j \in Sec!Keys : guard[j] \in Sec!Tasks => guard'[j] = guard[j]
  BY <1>1, <1>2, NamesDiffer DEF SecInv, SecTypes
<1>4. QED
  BY <1>2, <1>3, ViewsKeep

\* Redis goes and comes back.
LEMMA RedisKeeps ==
  ASSUME SecInv, Sec!Outage \/ Sec!Recover
  PROVE  SecInv'
<1>1. UNCHANGED <<policy, due, issue, guard, edge, doing, site>>
  BY DEF Sec!Outage, Sec!Recover
<1>2. redis \in Stores /\ (redis.steady => redis.up)
  BY DEF SecInv, SecTypes, SteadyFits
<1>3. /\ redis' \in Stores /\ redis'.ready = redis.ready /\ redis'.mark = redis.mark
      /\ redis'.view = redis.view /\ redis'.steady = FALSE
  <2>1. CASE Sec!Outage
    <3>1. redis' = [redis EXCEPT !.up = FALSE, !.steady = FALSE]
      BY <2>1 DEF Sec!Outage
    <3>2. QED
      BY <1>2, <3>1 DEF Stores
  <2>2. CASE Sec!Recover
    <3>1. redis' = [redis EXCEPT !.up = TRUE] /\ ~redis.steady
      BY <1>2, <2>2 DEF Sec!Recover
    <3>2. QED
      BY <1>2, <3>1 DEF Stores
  <2>3. QED
    BY <2>1, <2>2
<1>4. SecTypes'
  BY <1>1, <1>3 DEF SecInv, SecTypes
<1>5. QED
  BY <1>1, <1>3, <1>4, ViewsKeep

\* An empty Redis.
LEMMA FlushedIs ==
  /\ Sec!Flushed \in Stores
  /\ Sec!Flushed.up = TRUE /\ Sec!Flushed.steady = TRUE /\ Sec!Flushed.ready = FALSE
<1>1. [i \in Ips |-> "none"] \in [Ips -> Seen]
  BY DEF Seen, Bans
<1>2. QED
  BY <1>1 DEF Sec!Flushed, Stores

\* Redis lost what it held.
LEMMA FlushKeeps ==
  ASSUME SecInv, Sec!Flush
  PROVE  SecInv'
<1>1. UNCHANGED <<policy, due, issue, edge, doing, site>>
  BY DEF Sec!Flush
<1>2. /\ redis' = [Sec!Flushed EXCEPT !.up = redis.up, !.steady = FALSE]
      /\ redis.up \in BOOLEAN /\ guard' = [k \in Sec!Keys |-> "none"]
  BY DEF Sec!Flush, SecInv, SecTypes, Stores
<1>3. redis' \in Stores /\ redis'.steady = FALSE /\ redis'.ready = FALSE
  BY <1>2, FlushedIs DEF Stores
<1>4. SecTypes'
  BY <1>1, <1>2, <1>3 DEF SecInv, SecTypes
<1>5. QED
  BY <1>1, <1>3, <1>4, ViewsKeep

\* The process dies: the database, Redis and the snapshot stay as they were.
LEMMA CrashKeeps ==
  ASSUME SecInv, Sec!Crash
  PROVE  SecInv'
<1>1. /\ UNCHANGED <<policy, due, issue, redis, edge>>
      /\ doing' = [t \in Sec!Tasks |-> Sec!Resting] /\ site' = [running |-> FALSE, dirty |-> FALSE]
      /\ guard' = [k \in Sec!Keys |-> IF guard[k] = "none" THEN "none" ELSE "dead"]
  BY DEF Sec!Crash
<1>2. \A t \in Sec!Tasks : doing'[t] = Sec!Resting
  BY <1>1
<1>3. doing' \in [Sec!Tasks -> Doings]
  BY <1>1, RestingIs
<1>4. SecTypes'
  BY <1>1, <1>3 DEF SecInv, SecTypes
<1>5. WhiteIsFree' /\ Sec!LagIsKnown'
  BY <1>1 DEF SecInv, WhiteIsFree, Sec!LagIsKnown
<1>6. Sec!EdgeLagIsKnown'
  BY <1>1 DEF Sec!EdgeLagIsKnown
<1>7. CopiesAreTrue' /\ KeysFit'
  BY <1>2, RestingIs DEF CopiesAreTrue, KeysFit
<1>8. SnapshotFits'
  BY <1>2, RestingIs, NamesDiffer DEF SnapshotFits
<1>9. SteadyFits'
  BY <1>1, <1>2, RestingIs DEF SecInv, SteadyFits
<1>10. QED
  BY <1>4, <1>5, <1>6, <1>7, <1>8, <1>9 DEF SecInv

\* The invariant holds at first.
LEMMA SecStarts ==
  ASSUME Sec!Init
  PROVE  SecInv
<1>1. /\ Sec!Blank \in Policies /\ Sec!Known \in Policies
      /\ Sec!Blank.white = FALSE /\ Sec!Known.white = FALSE
  <2>1. Sec!Blank \in Policies /\ Sec!Blank.white = FALSE
    BY DEF Sec!Blank, Policies, Bans
  <2>2. Sec!Known = [Sec!Blank EXCEPT !.prior = TRUE, !.strikes = Limit]
    BY DEF Sec!Known
  <2>3. QED
    BY <2>1, <2>2, SecConstants DEF Policies
<1>2. \A i \in Ips : policy[i] \in Policies /\ ~policy[i].white
  BY <1>1 DEF Sec!Init
<1>3. policy \in [Ips -> Policies]
  BY <1>2 DEF Sec!Init
<1>4. doing = [t \in Sec!Tasks |-> Sec!Resting] /\ redis = Sec!Flushed /\ ~site.running
  BY DEF Sec!Init
<1>5. \A t \in Sec!Tasks : doing[t] = Sec!Resting
  BY <1>4
<1>6. doing \in [Sec!Tasks -> Doings]
  BY <1>4, RestingIs
<1>7. issue \in Issues /\ edge \in [Ips -> Seen]
  BY DEF Sec!Init, Issues, Seen, Bans
<1>8. due \in [Ips -> BOOLEAN] /\ guard \in [Sec!Keys -> Sec!Tasks \cup {"none", "dead"}]
  BY DEF Sec!Init
<1>9. site \in [running : BOOLEAN, dirty : BOOLEAN]
  BY DEF Sec!Init
<1>10. SecTypes
  BY <1>3, <1>4, <1>6, <1>7, <1>8, <1>9, FlushedIs DEF SecTypes
<1>11. WhiteIsFree
  BY <1>2 DEF WhiteIsFree
<1>12. Sec!LagIsKnown /\ Sec!EdgeLagIsKnown
  BY <1>4, FlushedIs DEF Sec!LagIsKnown, Sec!EdgeLagIsKnown
<1>13. CopiesAreTrue /\ KeysFit
  BY <1>5, RestingIs DEF CopiesAreTrue, KeysFit
<1>14. SnapshotFits
  BY <1>5, RestingIs, NamesDiffer DEF SnapshotFits
<1>15. SteadyFits
  BY <1>4, <1>5, RestingIs, FlushedIs DEF SteadyFits
<1>16. QED
  BY <1>10, <1>11, <1>12, <1>13, <1>14, <1>15 DEF SecInv

\* What a request is told is the projection or the policy itself.
LEMMA SecHolds ==
  ASSUME SecInv
  PROVE  Sec!SecSound
<1>1. Sec!ServedIsCurrent
  BY DEF SecInv, SteadyFits, Sec!ServedIsCurrent, Sec!Served
<1>2. QED
  BY <1>1 DEF SecInv, Sec!SecSound

\* Steps of others change nothing here.
LEMMA SecStutters ==
  ASSUME SecInv, UNCHANGED Sec!secvars
  PROVE  SecInv'
<1>1. UNCHANGED <<policy, due, issue, redis, guard, edge, doing, site>>
  BY DEF Sec!secvars
<1>2. SecTypes'
  BY <1>1 DEF SecInv, SecTypes
<1>3. QED
  BY <1>1, <1>2, ViewsKeep

\* A task goes one step on.
LEMMA WorksKeep ==
  ASSUME SecInv, NEW t \in Sec!Tasks, Sec!Works(t)
  PROVE  SecInv'
BY AcquireKeeps, TimesOutKeeps, ChangeKeeps, ReadKeeps, WriteKeeps, LoadKeeps, InstallKeeps
   DEF Sec!Works

\* What must be true, said of the state alone and in the terms of the module.
LEMMA SecReads == Sec!SecSound => SecSound
BY DEF Sec!SecSound, Sec!LagIsKnown, Sec!EdgeLagIsKnown, Sec!ServedIsCurrent, Sec!Served,
       Sec!View, Sec!EdgeView,
       SecSound, LagIsKnown, EdgeLagIsKnown, ServedIsCurrent, Served, View, EdgeView

\* A projection or a snapshot that lags is known to lag, and while Redis keeps working
\* nobody is judged by a superseded policy, wherever the process dies and however its
\* tasks interleave.
THEOREM SecuritySound == Sec!Spec => []SecSound
<1>1. Sec!Init => SecInv
  BY SecStarts
<1>2. SecInv /\ [Sec!Next]_(Sec!secvars) => SecInv'
  <2> SUFFICES ASSUME SecInv, [Sec!Next]_(Sec!secvars)
               PROVE  SecInv'
    OBVIOUS
  <2>1. CASE \E c \in Callers, i \in Ips, op \in Sec!Ops : Sec!Arrive(c, i, op)
    BY <2>1, ArriveKeeps
  <2>2. CASE \E t \in Sec!Tasks \ {"loop"} : Sec!Works(t)
    BY <2>2, WorksKeep
  <2>3. CASE Sec!Loops
    BY <2>3, StartUpKeeps, RetryEdgeKeeps, GenerationKeeps, PublishKeeps, SettleKeeps, WorksKeep,
       NamesDiffer DEF Sec!Loops
  <2>4. CASE Sec!Lookup \/ Sec!PublishFails
    BY <2>4, LookupKeeps, PublishFailsKeeps
  <2>5. CASE \E i \in Ips : Sec!RetryIp(i)
    BY <2>5, RetryIpKeeps
  <2>6. CASE \E i \in Ips : Sec!Forget(i)
    BY <2>6, ForgetKeeps
  <2>7. CASE \E i \in Ips : \E kind \in {"auto", "manual"} : Sec!Expire(i, kind)
    BY <2>7, ExpireKeeps
  <2>8. CASE \E k \in Sec!Keys : Sec!LockExpires(k)
    BY <2>8, LockExpiresKeeps
  <2>9. CASE Sec!Outage \/ Sec!Recover \/ Sec!Flush \/ Sec!Crash
    BY <2>9, RedisKeeps, FlushKeeps, CrashKeeps
  <2>10. CASE UNCHANGED Sec!secvars
    BY <2>10, SecStutters
  <2>11. QED
    BY <2>1, <2>2, <2>3, <2>4, <2>5, <2>6, <2>7, <2>8, <2>9, <2>10 DEF Sec!Next
<1>3. SecInv => SecSound
  BY SecHolds, SecReads
<1>4. QED
  BY <1>1, <1>2, <1>3, PTL DEF Sec!Spec

=============================================================================
