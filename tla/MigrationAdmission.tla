-------------------------- MODULE MigrationAdmission --------------------------
(***************************************************************************)
(* From a preview to a queued migration: resource_migration_planning.py    *)
(* observes both members without any authority, resource_migration_        *)
(* admission.py turns the preview into a task whose fences, capacity and   *)
(* scopes are installed at the Master and at both members (resource_peer_  *)
(* reservations.py), observes everything once more under the fences, and   *)
(* the scheduler queues it or cancels it.  Migration takes over from       *)
(* "queued".                                                               *)
(*                                                                         *)
(*   1. A parent directory of a member is the version of its one file:     *)
(*      `catalog` has what the Master knows, `native` what the member      *)
(*      holds; 0 is no file.  Ordinary uploads change them all the while.  *)
(*   2. The runner holds a lease in the Master's database; each of its     *)
(*      transactions wants the lease, its calls to a member do not.  A     *)
(*      call it gave up on may still reach the member (`tardy`).           *)
(*   3. The scheduler waits for quiet hours before each step; they come.   *)
(***************************************************************************)
EXTENDS AdmState

CONSTANTS
    MaxWrites,   \* bound: ordinary uploads opened
    MaxMishaps   \* bound: crashes, stops, stalls and lost calls

Init ==
    /\ catalog = [m \in Sides |-> [u \in Units |-> IF m = "source" THEN 1 ELSE 0]]
    /\ native = catalog
    /\ upload = NoUpload
    /\ resv = [m \in Sides |-> NoReservation]
    /\ preview = [at |-> 0, plan |-> Empty]
    /\ task = [state |-> "none", plan |-> Empty, installed |-> {}, booked |-> FALSE,
               drains |-> {}, error |-> ""]
    /\ step = NoStep
    /\ lease = "free"
    /\ tardy = {}
    /\ mishaps = 0

-----------------------------------------------------------------------------
(* Ordinary uploads, and the fences they ask (resource_fences.py).         *)

Preparing == task.state \in {"admitting", "admission_aborting"}

\* new_upload at the Master and at the member.
MasterAdmits(m, u) ==
    m \notin task.drains /\ ~Preparing /\ (task.state = "cancelled" \/ u \notin task.installed)

MemberAdmits(m, u) ==
    ~resv[m].drained /\ resv[m].state # "preparing" /\ u \notin resv[m].scopes

OpenUpload(m, u) ==
    /\ upload.opened < MaxWrites
    /\ ~upload.row /\ ~upload.token /\ upload.put # "receiving" /\ MasterAdmits(m, u)
    /\ upload' = [row |-> TRUE, token |-> TRUE, put |-> "none", side |-> m, unit |-> u,
                  opened |-> upload.opened + 1]
    /\ UNCHANGED <<catalog, native, resv, preview, task, step, lease, tardy, mishaps>>

\* The browser uses the capability, perhaps after the Master's session expired.
Receive ==
    /\ upload.token /\ MemberAdmits(upload.side, upload.unit)
    /\ upload' = [upload EXCEPT !.token = FALSE, !.put = "receiving"]
    /\ UNCHANGED <<catalog, native, resv, preview, task, step, lease, tardy, mishaps>>

Place ==
    /\ upload.put = "receiving"
    /\ upload' = [upload EXCEPT !.put = "placed"]
    /\ native' = [native EXCEPT ![upload.side][upload.unit] = @ + 1]
    /\ UNCHANGED <<catalog, resv, preview, task, step, lease, tardy, mishaps>>

FinalizeUpload ==
    /\ upload.row /\ upload.put = "placed"
    /\ upload' = [upload EXCEPT !.row = FALSE]
    /\ catalog' = [catalog EXCEPT ![upload.side][upload.unit] = native[upload.side][upload.unit]]
    /\ UNCHANGED <<native, resv, preview, task, step, lease, tardy, mishaps>>

ExpireUpload ==
    /\ upload.row /\ upload.put = "none"
    /\ upload' = [upload EXCEPT !.row = FALSE]
    /\ UNCHANGED <<catalog, native, resv, preview, task, step, lease, tardy, mishaps>>

-----------------------------------------------------------------------------
(* The preview: one worker, no authority.                                  *)

\* PlanStore.facts: no unfinished operation on the pair at the Master.
Facts == ~upload.row

\* The order of the observations; a registry is only read while the member has
\* no writer under way.
Survey ==
    <<[read |-> "registry", side |-> "source"], [read |-> "registry", side |-> "target"],
      [read |-> "inventory", side |-> "source"], [read |-> "inventory", side |-> "target"],
      [read |-> "content", side |-> "source"],
      [read |-> "inventory", side |-> "source"], [read |-> "inventory", side |-> "target"],
      [read |-> "registry", side |-> "source"], [read |-> "registry", side |-> "target"]>>

SurveyEnd == 10
Ready == 11

\* NativeRegistry: the registered files, while no operation is pending there.
Registered(m, plan) == Observed(m, plan) /\ ~Pending(m)

\* Walker: every entry below the member's roots.
Walked(m, plan) == Observed(m, plan)

\* ContentObserver: every file of the Source read and hashed.
Hashed(m, plan) == Observed(m, plan)

Reads(look, plan) ==
    CASE look.read = "registry"  -> Registered(look.side, plan)
      [] look.read = "inventory" -> Walked(look.side, plan)
      [] look.read = "content"   -> Hashed(look.side, plan)

StartPreview ==
    /\ preview.at \in {0, Ready} /\ task.state = "none" /\ Facts
    /\ catalog["target"] = Empty
    /\ preview' = [at |-> 1, plan |-> catalog["source"]]
    /\ UNCHANGED <<catalog, native, upload, resv, task, step, lease, tardy, mishaps>>

Observe ==
    /\ preview.at \in 1 .. SurveyEnd - 1
    /\ preview' = [preview EXCEPT !.at =
                     IF Reads(Survey[preview.at], preview.plan) THEN @ + 1 ELSE 0]
    /\ UNCHANGED <<catalog, native, upload, resv, task, step, lease, tardy, mishaps>>

\* The catalog and the facts once more.
FinishPreview ==
    /\ preview.at = SurveyEnd
    /\ preview' = [preview EXCEPT !.at =
                     IF Facts /\ catalog["source"] = preview.plan THEN Ready ELSE 0]
    /\ UNCHANGED <<catalog, native, upload, resv, task, step, lease, tardy, mishaps>>

\* A member serves one observation at a time, for five minutes, in one process.
ObservationFails ==
    /\ preview.at \in 1 .. SurveyEnd
    /\ preview' = [preview EXCEPT !.at = 0]
    /\ UNCHANGED <<catalog, native, upload, resv, task, step, lease, tardy, mishaps>>

\* A preview is worth five minutes, and dies with the process that observed it.
PreviewExpires ==
    /\ preview.at = Ready
    /\ preview' = [preview EXCEPT !.at = 0]
    /\ UNCHANGED <<catalog, native, upload, resv, task, step, lease, tardy, mishaps>>

-----------------------------------------------------------------------------
(* The members' side (resource_peer_reservations.py): what a request makes *)
(* of the row, and whether the answer lets the runner go on.               *)

\* Mutant: a reservation that was cancelled is begun anew.
BeginRowAnew(m) ==
    IF resv[m].state \in {"none", "aborted"} /\ ~Pending(m)
    THEN [state |-> "preparing", scopes |-> {}, booked |-> TRUE, drained |-> m = "source"]
    ELSE resv[m]

BeginRow(m) ==
    IF resv[m].state = "none" /\ ~Pending(m)
    THEN [state |-> "preparing", scopes |-> {}, booked |-> TRUE, drained |-> m = "source"]
    ELSE resv[m]

UnitRow(m, u) ==
    IF resv[m].state = "preparing" /\ resv[m].scopes = 1 .. u - 1 /\ ~Pending(m)
    THEN [resv[m] EXCEPT !.scopes = @ \cup {u}]
    ELSE resv[m]

SealRow(m) ==
    IF resv[m].state = "preparing" /\ resv[m].scopes = Units
    THEN [resv[m] EXCEPT !.state = "prepared"]
    ELSE resv[m]

CancelRow(m) == [NoReservation EXCEPT !.state = "aborted"]

RowAfter(c) ==
    CASE c.at = "begin"  -> BeginRow(c.side)
      [] c.at = "unit"   -> UnitRow(c.side, c.unit)
      [] c.at = "seal"   -> SealRow(c.side)
      [] c.at = "cancel" -> CancelRow(c.side)
      [] OTHER           -> resv[c.side]

Accepted(c) ==
    CASE c.at = "begin"  -> RowAfter(c).state \in {"preparing", "prepared"}
      [] c.at = "unit"   -> c.unit \in RowAfter(c).scopes
      [] c.at = "cancel" -> RowAfter(c).state = "aborted"
      [] OTHER           -> RowAfter(c).state = "prepared"

Calls == {"begin", "unit", "seal", "reseal", "probe", "cancel"}

Handled(c) == resv' = [resv EXCEPT ![c.side] = RowAfter(c)]

-----------------------------------------------------------------------------
(* The Master: admission, its fences, and the runner.                      *)

\* _create, under the exclusive media fence.
Create ==
    /\ preview.at = Ready /\ task.state = "none" /\ Facts
    /\ preview' = [preview EXCEPT !.at = 0]
    /\ task' = [task EXCEPT !.state = "admitting", !.plan = preview.plan,
                            !.booked = TRUE, !.drains = Sides]
    /\ UNCHANGED <<catalog, native, upload, resv, step, lease, tardy, mishaps>>

\* Mutant: a task that met a lost call is not taken up again.
CandidateUntroubled ==
    task.state \in {"admitting", "prepared", "admission_aborting"} /\ task.error = ""

Candidate ==
    /\ task.state \in {"admitting", "prepared", "admission_aborting"}
    /\ task.error \in {"", "transient"}

First(at) == [step EXCEPT !.at = at, !.side = "source", !.unit = 1]

Claim ==
    /\ step.at = "none" /\ lease = "free" /\ Candidate
    /\ lease' = "live"
    /\ step' = [First(CASE task.state = "admitting" -> "install"
                        [] task.state = "prepared"  -> "revalidate"
                        [] OTHER                    -> "mark")
                EXCEPT !.flight = task.state = "prepared"]
    /\ UNCHANGED <<catalog, native, upload, resv, preview, task, tardy, mishaps>>

\* _error and _preparation_error: the task keeps its code; a runner whose lease
\* is gone leaves that as the code.
Fails(code) ==
    /\ step' = NoStep /\ lease' = "free"
    /\ task' = [task EXCEPT !.error = IF lease = "live" THEN code ELSE "lapsed"]

\* _locked: a transaction of the runner, or its end.
Transaction(holds, change) ==
    /\ IF lease = "live" /\ holds THEN change /\ lease' = lease
       ELSE Fails("refused")
    /\ UNCHANGED <<catalog, native, upload, resv, preview, tardy, mishaps>>

Becomes(new, next) == task' = new /\ step' = next

Revalidate ==
    /\ step.at = "revalidate"
    /\ Transaction(task.state = "prepared",
                   Becomes([task EXCEPT !.state = "admitting"], First("install")))

\* One unit with its scopes at both members; after the last the member facts.
Install ==
    /\ step.at = "install"
    /\ Transaction(task.state = "admitting" /\ (step.unit = NUnits => Facts),
                   Becomes([task EXCEPT !.installed = @ \cup {step.unit}, !.error = ""],
                           IF step.unit < NUnits THEN [step EXCEPT !.unit = @ + 1]
                           ELSE First("begin")))

\* _save, before the first call of a side and after the last.
Saved(calls) == step.at \in calls => lease = "live"

Other(at) == [step EXCEPT !.at = at, !.side = "target", !.unit = 1]

AfterCall ==
    CASE step.at = "begin" -> [step EXCEPT !.at = "unit"]
      [] step.at = "unit" -> IF step.unit < NUnits THEN [step EXCEPT !.unit = @ + 1]
                             ELSE [step EXCEPT !.at = "seal"]
      [] step.at = "seal" -> IF step.side = "source" THEN Other("begin") ELSE First("registry")
      [] step.at = "reseal" -> IF step.side = "source" THEN Other("again") ELSE First("prepared")
      [] step.at = "probe" -> First("queue")
      [] step.at = "cancel" -> IF step.side = "source" THEN Other("cancel") ELSE First("release")

\* A call that was answered; a refusal ends the attempt.
Answered ==
    /\ step.at \in Calls
    /\ IF Saved({"begin", "cancel"}) THEN Handled(step) ELSE resv' = resv
    /\ IF Saved({"begin", "cancel", "seal"}) /\ Accepted(step)
       THEN step' = AfterCall /\ UNCHANGED <<lease, task>>
       ELSE Fails("refused")
    /\ UNCHANGED <<catalog, native, upload, preview, tardy, mishaps>>

Mishap == mishaps < MaxMishaps /\ mishaps' = mishaps + 1

\* A call without its answer: the request may be lost, late, or handled unheard.
\* No answer at all is transient; an HTTP error that comes in its place, or an
\* answer that cannot be verified, is a code nobody retries.
Unanswered ==
    /\ step.at \in Calls /\ Saved({"begin", "cancel"}) /\ Mishap
    /\ tardy' = tardy \cup {[step EXCEPT !.flight = FALSE]}
    /\ \E code \in {"transient", "refused"} : Fails(code)
    /\ UNCHANGED <<catalog, native, upload, resv, preview>>

Arrives(c) ==
    /\ tardy' = tardy \ {c} /\ Handled(c)
    /\ UNCHANGED <<catalog, native, upload, preview, task, step, lease, mishaps>>

\* _recheck: registries, complete inventories, and the registries again with a
\* second seal.
AfterLook ==
    CASE step.at = "registry" ->
             IF step.side = "source" THEN Other("registry") ELSE First("inventory")
      [] step.at = "inventory" ->
             IF step.side = "source" THEN Other("inventory") ELSE First("again")
      [] step.at = "again" -> [step EXCEPT !.at = "reseal"]

Finds ==
    IF step.at = "inventory" THEN Walked(step.side, task.plan)
    ELSE resv[step.side].state = "prepared" /\ Registered(step.side, task.plan)

Looks == {"registry", "inventory", "again"}

Recheck ==
    /\ step.at \in Looks
    /\ IF Finds /\ (step = First("inventory") => lease = "live")
       THEN step' = AfterLook /\ UNCHANGED <<lease, task>>
       ELSE Fails("refused")
    /\ UNCHANGED <<catalog, native, upload, resv, preview, tardy, mishaps>>

\* The member does not answer or is busy, or its session is expired or gone.
LookFails ==
    /\ step.at \in Looks /\ Mishap
    /\ \E code \in {"transient", "refused"} : Fails(code)
    /\ UNCHANGED <<catalog, native, upload, resv, preview, tardy>>

\* The final transaction: the Target may take other uploads again.
Prepared ==
    /\ step.at = "prepared"
    /\ Transaction(
         task.state = "admitting" /\ Facts /\ catalog["source"] = task.plan /\ task.installed = Units,
         Becomes([task EXCEPT !.state = "prepared", !.drains = @ \ {"target"}, !.error = ""],
                 First("return")))

\* prepare returns its lease; a preflight takes another for the probe.
PrepareReturns ==
    /\ step.at = "return"
    /\ lease' = "free"
    /\ step' = IF step.flight THEN First("takeoff") ELSE NoStep
    /\ UNCHANGED <<catalog, native, upload, resv, preview, task, tardy, mishaps>>

TakeOff ==
    /\ step.at = "takeoff"
    /\ lease' = "live" /\ step' = First("probe")
    /\ UNCHANGED <<catalog, native, upload, resv, preview, task, tardy, mishaps>>

Queue ==
    /\ step.at = "queue"
    /\ Transaction(task.state = "prepared" /\ Facts,
                   Becomes([task EXCEPT !.state = "queued", !.error = ""], First("return")))

-----------------------------------------------------------------------------
(* Cancellation of what has not started.                                   *)

RequestCancel ==
    /\ task.state \in {"admitting", "prepared"} /\ lease \in {"free", "lapsed"}
    /\ task' = [task EXCEPT !.state = "admission_aborting", !.error = ""]
    /\ UNCHANGED <<catalog, native, upload, resv, preview, step, lease, tardy, mishaps>>

CancelUnstarted ==
    /\ step.at = "mark"
    /\ Transaction(TRUE, Becomes([task EXCEPT !.error = ""], First("cancel")))

\* Only after both members have answered that nothing is left there.
Release ==
    /\ step.at = "release"
    /\ Transaction(task.booked,
                   Becomes([task EXCEPT !.state = "cancelled", !.installed = {}, !.booked = FALSE,
                                        !.drains = {}, !.error = ""],
                           [First("return") EXCEPT !.flight = FALSE]))

-----------------------------------------------------------------------------
(* What happens to the runner.                                             *)

\* The administrator looks at a failed preparation and lets it try again.
Retry ==
    /\ Preparing \/ task.state = "prepared"
    /\ task.error # "" /\ lease \in {"free", "lapsed"}
    /\ task' = [task EXCEPT !.error = ""]
    /\ UNCHANGED <<catalog, native, upload, resv, preview, step, lease, tardy, mishaps>>

Crash ==
    /\ step.at # "none" /\ Mishap
    /\ step' = NoStep
    /\ lease' = IF lease = "live" THEN "stale" ELSE "free"
    /\ preview' = [preview EXCEPT !.at = 0]
    /\ UNCHANGED <<catalog, native, upload, resv, task, tardy>>

\* An orderly shutdown cancels the step.  The handlers of prepare and of
\* cancel_unstarted record that; the one of preflight lets it pass.
Stop ==
    /\ step.at # "none" /\ Mishap
    /\ IF step.at \in {"return", "takeoff", "probe", "queue"}
       THEN step' = NoStep /\ lease' = "free" /\ UNCHANGED task
       ELSE Fails("interrupted")
    /\ preview' = [preview EXCEPT !.at = 0]
    /\ UNCHANGED <<catalog, native, upload, resv, tardy>>

LeaseExpires ==
    /\ lease = "stale"
    /\ lease' = "free"
    /\ UNCHANGED <<catalog, native, upload, resv, preview, task, step, tardy, mishaps>>

\* The runner stalls for longer than its lease.
Lapse ==
    /\ lease = "live" /\ Mishap
    /\ lease' = "lapsed"
    /\ UNCHANGED <<catalog, native, upload, resv, preview, task, step, tardy>>

-----------------------------------------------------------------------------
Runs ==
    \/ Claim \/ Revalidate \/ Install \/ Answered \/ Recheck \/ Prepared
    \/ PrepareReturns \/ TakeOff \/ Queue \/ CancelUnstarted \/ Release \/ LeaseExpires

Next ==
    \/ \E m \in Sides, u \in Units : OpenUpload(m, u)
    \/ Receive \/ Place \/ FinalizeUpload \/ ExpireUpload
    \/ StartPreview \/ Observe \/ FinishPreview \/ ObservationFails \/ PreviewExpires
    \/ Create \/ Runs \/ Unanswered \/ LookFails \/ RequestCancel \/ Retry
    \/ \E c \in tardy : Arrives(c)
    \/ Crash \/ Stop \/ Lapse

Spec == Init /\ [][Next]_admvars

\* The scheduler ticks and leases run out.
Fairness == WF_admvars(Runs)

-----------------------------------------------------------------------------
(* Properties                                                              *)

\* The task carries a code that only the administrator's retry takes away:
\* refused, interrupted or lapsed.
AsksForHelp == task.error \notin {"", "transient"}

\* A preparation ends or asks for the administrator, and so does a requested
\* cancellation.
AdmSettles ==
    /\ (task.state = "admitting") ~> (task.state # "admitting" \/ AsksForHelp)
    /\ (task.state = "admission_aborting") ~> (task.state = "cancelled" \/ AsksForHelp)

\* A requested cancellation whose failures the administrator answers with a retry
\* is carried out, however far the failed attempts had got.
CancelSettles == (task.state = "admission_aborting") ~> (task.state = "cancelled")

=============================================================================
