--------------------------- MODULE S3Storage_proof ---------------------------
(* Proofs about S3Storage for every set of sessions, quota and number of       *)
(* faults.                                                                     *)
EXTENDS S3Storage, FiniteSetTheorems, TLAPS

-----------------------------------------------------------------------------
(* The inductive invariant.                                                    *)

States == {"none", "reserved", "creating", "uploading", "completing", "uncertain", "aborting",
           "aborted", "published"}

AbortSteps == {"head", "delete", "deleted", "abort", "parts", "absent", "release"}
ObjectSteps == {"objectHead", "objectDelete", "objectDeleted", "finish"}
ReconcileSteps == {"publish", "reconcileHead", "reconcileParts"}

Steps == {"none", "create", "complete", "verify", "list"}
           \cup ReconcileSteps \cup AbortSteps \cup ObjectSteps

SessionRows ==
    [state : States, known : BOOLEAN, sum : BOOLEAN, seen : BOOLEAN, completing : BOOLEAN,
     grant : BOOLEAN, expired : BOOLEAN, part : {"none", "granted", "confirmed"}]

BindingRows == [state : {"none", "active", "deleting", "deleted"}, grant : BOOLEAN]

Uploads == [upload : {"none", "open", "finalizing", "lingering", "gone"},
            part : BOOLEAN, object : BOOLEAN]

Members == [row : BOOLEAN, enabled : BOOLEAN, probe : {"unchecked", "ready", "error"},
            used : Nat, reserved : Nat]

S3Types ==
    /\ s3session \in [Sessions -> SessionRows]
    /\ binding \in [Sessions -> BindingRows]
    /\ worker \in [Sessions -> Steps]
    /\ flights \in [Sessions -> SUBSET (Mutations \cup {"put"})]
    /\ store \in [Sessions -> Uploads]

\* A completion is under way, or its outcome is open.
Completing(s) ==
    \/ s3session[s].state = "completing"
    \/ s3session[s].state = "uncertain" /\ s3session[s].completing

\* What the journal says of the upload and of the object at the provider.
JournalFits(s) ==
    /\ s3session[s].state = "uploading" \/ Completing(s) => s3session[s].known
    /\ Completing(s) => s3session[s].sum
    /\ s3session[s].known => store[s].upload # "none"
    /\ s3session[s].state \in {"none", "reserved"} => store[s].upload = "none"
    /\ s3session[s].state = "published" => store[s].upload = "gone"
    /\ s3session[s].state = "aborted" => store[s].upload \in {"none", "gone"} /\ ~store[s].object
    /\ s3session[s].state = "published" <=> binding[s].state # "none"
    /\ s3session[s].seen \/ store[s].object => store[s].upload = "gone"
    /\ store[s].upload = "finalizing" => s3session[s].sum

\* What a request that is still on its way can find when it is executed.
FlightsFit(s) ==
    /\ "create" \in flights[s] =>
         store[s].upload = "none" /\ s3session[s].state \notin {"none", "reserved", "aborted"}
    /\ "complete" \in flights[s] => s3session[s].sum
    /\ "delete" \in flights[s] => s3session[s].state \in {"aborting", "aborted"}
    /\ "objectDelete" \in flights[s] => binding[s].state \in {"deleting", "deleted"}

\* What the holder of the lease knows at each of its steps.
WorkerFits(s) ==
    /\ worker[s] = "create" => s3session[s].state = "creating"
    /\ worker[s] \in {"complete", "verify"} => s3session[s].state = "completing"
    /\ worker[s] \in ReconcileSteps => Completing(s)
    /\ worker[s] = "publish" => store[s].object
    /\ worker[s] = "list" =>
         ~s3session[s].known /\ s3session[s].state \in {"creating", "uncertain", "aborting"}
    /\ worker[s] \in AbortSteps => s3session[s].state = "aborting" /\ s3session[s].known
    /\ worker[s] = "parts" => store[s].upload \in {"lingering", "gone"}
    /\ worker[s] \in {"absent", "release"} => store[s].upload = "gone"
    /\ worker[s] \in {"release", "finish"} => ~store[s].object
    /\ worker[s] \in ObjectSteps => binding[s].state = "deleting"

\* What the catalog says of the object.
CatalogFits(s) ==
    /\ binding[s].state = "active" => store[s].object
    /\ binding[s].state = "deleted" => ~store[s].object

Fits(s) == JournalFits(s) /\ FlightsFit(s) /\ WorkerFits(s) /\ CatalogFits(s)

\* One session at a time holds the path, and the books count it.
OneAtATime ==
    /\ \A s, t \in Pending \cup Owned : s = t
    /\ member.used = (IF Owned = {} THEN 0 ELSE 1)
    /\ member.reserved = (IF Pending = {} THEN 0 ELSE 1)

S3Inv == member \in Members /\ S3Types /\ OneAtATime /\ \A s \in Sessions : Fits(s)

-----------------------------------------------------------------------------
(* Types.                                                                      *)

LEMMA TypesInit == Init => member \in Members /\ S3Types
BY DEF Init, Members, S3Types, NoSession, SessionRows, BindingRows, Uploads, States, Steps

\* The way a step names the next step of the worker keeps the types.
LEMMA GoesTypes ==
  ASSUME S3Types, NEW s \in Sessions, NEW next \in Steps, Goes(s, next)
  PROVE  /\ worker' \in [Sessions -> Steps]
         /\ flights' \in [Sessions -> SUBSET (Mutations \cup {"put"})]
         /\ worker'[s] = next
         /\ flights'[s] = IF next \in Mutations THEN flights[s] \cup {next} ELSE flights[s]
         /\ \A t \in Sessions \ {s} : worker'[t] = worker[t] /\ flights'[t] = flights[t]
<1>1. {next} \cap Mutations = IF next \in Mutations THEN {next} ELSE {}  OBVIOUS
<1>2. flights[s] \cup ({next} \cap Mutations)
        = IF next \in Mutations THEN flights[s] \cup {next} ELSE flights[s]
  BY <1>1
<1> QED  BY <1>2 DEF S3Types, Goes

\* A failed step leaves the outcome of create and complete open.
LEMMA FailedTypes ==
  ASSUME S3Types, NEW s \in Sessions, Failed(s)
  PROVE  /\ worker' \in [Sessions -> Steps] /\ worker'[s] = "none"
         /\ s3session' \in [Sessions -> SessionRows]
         /\ \A t \in Sessions \ {s} : worker'[t] = worker[t] /\ s3session'[t] = s3session[t]
         /\ worker[s] \notin {"create", "complete", "verify"} => s3session'[s] = s3session[s]
         /\ worker[s] \in {"create", "complete", "verify"} =>
              s3session'[s] = [s3session[s] EXCEPT !.state = "uncertain", !.completing = worker[s] # "create"]
<1>1. worker' = [worker EXCEPT ![s] = "none"]  BY DEF Failed
<1>2. CASE worker[s] \notin {"create", "complete", "verify"}
  <2>1. s3session' = [s3session EXCEPT ![s] = s3session[s]]  BY <1>2 DEF Failed
  <2> QED  BY <1>1, <1>2, <2>1 DEF S3Types, SessionRows, Steps
<1>3. CASE worker[s] \in {"create", "complete", "verify"}
  <2> DEFINE b == worker[s] # "create"
             open == [s3session[s] EXCEPT !.state = "uncertain", !.completing = b]
  <2>1. s3session' = [s3session EXCEPT ![s] = open]  BY <1>3 DEF Failed
  <2>2. b \in BOOLEAN  OBVIOUS
  <2>3. open \in SessionRows
    <3> HIDE DEF b
    <3>1. s3session[s] \in SessionRows  BY DEF S3Types
    <3> QED  BY <2>2, <3>1 DEF SessionRows, States
  <2> HIDE DEF open
  <2>4. s3session' \in [Sessions -> SessionRows] /\ s3session'[s] = open
        /\ \A t \in Sessions \ {s} : s3session'[t] = s3session[t]
    BY <2>1, <2>3 DEF S3Types
  <2>5. open = [s3session[s] EXCEPT !.state = "uncertain", !.completing = worker[s] # "create"]
    BY DEF open
  <2> QED  BY <1>1, <1>3, <2>4, <2>5 DEF S3Types, Steps
<1> QED  BY <1>2, <1>3

\* The same for what a step writes into the journal and the catalog.
LEMMA Writes ==
  ASSUME S3Types, NEW s \in Sessions, NEW row \in SessionRows, s3session' = [s3session EXCEPT ![s] = row]
  PROVE  /\ s3session' \in [Sessions -> SessionRows] /\ s3session'[s] = row
         /\ \A t \in Sessions \ {s} : s3session'[t] = s3session[t]
BY DEF S3Types

LEMMA MovesTypes ==
  ASSUME S3Types, NEW s \in Sessions, NEW state \in States, Moves(s, state)
  PROVE  /\ s3session' \in [Sessions -> SessionRows]
         /\ s3session'[s] = [s3session[s] EXCEPT !.state = state]
         /\ \A t \in Sessions \ {s} : s3session'[t] = s3session[t]
<1> DEFINE row == [s3session[s] EXCEPT !.state = state]
<1>1. row \in SessionRows
  <2>1. s3session[s] \in SessionRows  BY DEF S3Types
  <2> QED  BY <2>1 DEF SessionRows
<1>2. s3session' = [s3session EXCEPT ![s] = row]  BY DEF Moves
<1> HIDE DEF row
<1>3. /\ s3session' \in [Sessions -> SessionRows] /\ s3session'[s] = row
      /\ \A t \in Sessions \ {s} : s3session'[t] = s3session[t]
  BY <1>1, <1>2, Writes
<1> QED  BY <1>3 DEF row

LEMMA BindsTypes ==
  ASSUME S3Types, NEW s \in Sessions, NEW state \in {"active", "deleting", "deleted"},
         binding' = [binding EXCEPT ![s].state = state]
  PROVE  /\ binding' \in [Sessions -> BindingRows]
         /\ binding'[s] = [binding[s] EXCEPT !.state = state]
         /\ \A t \in Sessions \ {s} : binding'[t] = binding[t]
BY DEF S3Types, BindingRows

\* The steps of one session, and what it means that another is left alone.
Acts(s) ==
    Clients(s) \/ Works(s) \/ Serves(s) \/ Finalizes(s) \/ Expire(s) \/ GrantsEnd(s) \/ Lost(s) \/ S3Crash(s)

LeftAlone(s) ==
    /\ s3session'[s] = s3session[s] /\ binding'[s] = binding[s] /\ worker'[s] = worker[s]
    /\ flights'[s] = flights[s] /\ store'[s] = store[s]

\* Each step of a session keeps the types and leaves the other sessions alone.
Apart(s) == S3Types' /\ \A t \in Sessions \ {s} : LeftAlone(t)

LEMMA ClientsApart ==
  ASSUME S3Types, NEW s \in Sessions, Clients(s)
  PROVE  Apart(s)
<1>r. s3session[s] \in SessionRows  BY DEF S3Types
<1>1. CASE Reserve(s)
  BY <1>1, MovesTypes DEF Reserve, S3Types, States, LeftAlone, Apart
<1>2. CASE Initialize(s)
  <2>1. "create" \in Steps  BY DEF Steps
  <2> QED  BY <1>2, <2>1, GoesTypes, MovesTypes DEF Initialize, S3Types, States, LeftAlone, Apart
<1>3. CASE PartGrant(s)
  <2> DEFINE row == [s3session[s] EXCEPT !.grant = TRUE, !.part = IF @ = "none" THEN "granted" ELSE @]
  <2>1. row \in SessionRows  BY <1>r DEF SessionRows
  <2>2. s3session' = [s3session EXCEPT ![s] = row]  BY <1>3 DEF PartGrant, S3Types
  <2> HIDE DEF row
  <2> QED  BY <1>3, <2>1, <2>2, Writes DEF PartGrant, S3Types, LeftAlone, Apart
<1>4. CASE BrowserPuts(s)
  BY <1>4 DEF BrowserPuts, S3Types, LeftAlone, Apart
<1>5. CASE Acknowledge(s)
  BY <1>5 DEF Acknowledge, S3Types, SessionRows, LeftAlone, Apart
<1>6. CASE Complete(s)
  <2> DEFINE row == [s3session[s] EXCEPT !.state = "completing", !.sum = TRUE]
  <2>1. row \in SessionRows  BY <1>r DEF SessionRows, States
  <2>2. s3session' = [s3session EXCEPT ![s] = row]  BY <1>6 DEF Complete, S3Types
  <2>3. "complete" \in Steps  BY DEF Steps
  <2> HIDE DEF row
  <2> QED  BY <1>6, <2>1, <2>2, <2>3, GoesTypes, Writes DEF Complete, S3Types, LeftAlone, Apart
<1>7. CASE Cancel(s)
  <2>1. AbortStep(s) \in Steps  BY DEF AbortStep, Steps, AbortSteps
  <2> QED
    BY <1>7, <2>1, GoesTypes, MovesTypes DEF Cancel, Release, S3Types, States, LeftAlone, Apart
<1>8. CASE ReadGrant(s)
  BY <1>8 DEF ReadGrant, S3Types, BindingRows, LeftAlone, Apart
<1>9. CASE Delete(s)
  <2>1. {"none", "objectHead"} \subseteq Steps  BY DEF Steps, ObjectSteps
  <2> QED  BY <1>9, <2>1, GoesTypes, BindsTypes DEF Delete, S3Types, LeftAlone, Apart
<1> QED  BY <1>1, <1>2, <1>3, <1>4, <1>5, <1>6, <1>7, <1>8, <1>9 DEF Clients

LEMMA WorksApart ==
  ASSUME S3Types, NEW s \in Sessions, Works(s)
  PROVE  Apart(s)
<1>r. s3session[s] \in SessionRows  BY DEF S3Types
<1>s. {"none", "publish", "list", "reconcileHead", "reconcileParts", "head", "delete", "abort", "absent",
       "release", "objectHead", "objectDelete", "finish"} \subseteq Steps
  BY DEF Steps, ReconcileSteps, AbortSteps, ObjectSteps
<1>1. CASE VerifyHead(s)
  <2>1. CASE Heads(s)
    BY <1>1, <1>s, <2>1, GoesTypes DEF VerifyHead, S3Types, LeftAlone, Apart
  <2>2. CASE ~Heads(s)
    BY <1>1, <2>2, FailedTypes DEF VerifyHead, S3Types, LeftAlone, Apart
  <2> QED  BY <2>1, <2>2
<1>2. CASE Publish(s)
  <2> DEFINE row == [s3session[s] EXCEPT !.state = "published", !.seen = TRUE]
  <2>1. row \in SessionRows  BY <1>r DEF SessionRows, States
  <2>2. s3session' = [s3session EXCEPT ![s] = row]  BY <1>2 DEF Publish, S3Types
  <2> HIDE DEF row
  <2>3. s3session' \in [Sessions -> SessionRows] /\ \A t \in Sessions \ {s} : s3session'[t] = s3session[t]
    BY <2>1, <2>2, Writes
  <2>4. binding' \in [Sessions -> BindingRows] /\ \A t \in Sessions \ {s} : binding'[t] = binding[t]
    BY <1>2, BindsTypes DEF Publish
  <2> QED
    BY <1>2, <1>s, <2>3, <2>4, GoesTypes DEF Publish, S3Types, LeftAlone, Apart
<1>3. CASE Reconcile(s)
  <2>1. AbortStep(s) \in Steps  BY DEF AbortStep, Steps, AbortSteps
  <2>2. CASE Release(s) /\ UNCHANGED <<worker, flights>>
    BY <1>3, <2>2, MovesTypes DEF Reconcile, Release, S3Types, States, LeftAlone, Apart
  <2>3. CASE \E next \in Steps : Goes(s, next) /\ UNCHANGED <<member, s3session>>
    BY <1>3, <2>3, GoesTypes DEF Reconcile, S3Types, LeftAlone, Apart
  <2>4. CASE Moves(s, "aborting") /\ Goes(s, AbortStep(s)) /\ UNCHANGED member
    BY <1>3, <2>1, <2>4, GoesTypes, MovesTypes DEF Reconcile, S3Types, States, LeftAlone, Apart
  <2> QED  BY <1>3, <1>s, <2>1, <2>2, <2>3, <2>4 DEF Reconcile
<1>4. CASE RecoverCreate(s)
  <2> DEFINE row == [s3session[s] EXCEPT !.known = TRUE, !.completing = FALSE,
                                       !.state = IF @ = "aborting" THEN @ ELSE "uploading"]
  <2>1. row \in SessionRows  BY <1>r DEF SessionRows, States
  <2>2. s3session' = s3session \/ s3session' = [s3session EXCEPT ![s] = row]  BY <1>4 DEF RecoverCreate, S3Types
  <2> HIDE DEF row
  <2> QED  BY <1>4, <1>s, <2>1, <2>2, GoesTypes, Writes DEF RecoverCreate, S3Types, LeftAlone, Apart
<1>5. CASE ReconcileHead(s)
  BY <1>5, <1>s, GoesTypes DEF ReconcileHead, S3Types, LeftAlone, Apart
<1>6. CASE ReconcileParts(s)
  <2> DEFINE row == [s3session[s] EXCEPT !.state = "uploading", !.completing = FALSE]
  <2>1. row \in SessionRows  BY <1>r DEF SessionRows, States
  <2>2. s3session' = s3session \/ s3session' = [s3session EXCEPT ![s] = row]  BY <1>6 DEF ReconcileParts, S3Types
  <2> HIDE DEF row
  <2> QED  BY <1>6, <1>s, <2>1, <2>2, GoesTypes, Writes DEF ReconcileParts, S3Types, LeftAlone, Apart
<1>7. CASE AbortHead(s)
  <2> DEFINE row == [s3session[s] EXCEPT !.seen = @ \/ Heads(s)]
  <2>1. row \in SessionRows
    <3>1. (s3session[s].seen \/ Heads(s)) \in BOOLEAN  OBVIOUS
    <3> QED  BY <1>r, <3>1 DEF SessionRows
  <2>2. s3session' = [s3session EXCEPT ![s] = row]  BY <1>7 DEF AbortHead, S3Types
  <2> HIDE DEF row
  <2> QED  BY <1>7, <1>s, <2>1, <2>2, GoesTypes, Writes DEF AbortHead, S3Types, LeftAlone, Apart
<1>8. CASE AbortDeleted(s) \/ AbortParts(s) \/ AbortAbsent(s) \/ ObjectHead(s) \/ ObjectDeleted(s)
  BY <1>8, <1>s, GoesTypes
  DEF AbortDeleted, AbortParts, AbortAbsent, ObjectHead, ObjectDeleted, S3Types, LeftAlone, Apart
<1>9. CASE AbortRelease(s)
  BY <1>9, <1>s, GoesTypes, MovesTypes
  DEF AbortRelease, Release, S3Types, States, LeftAlone, Apart
<1>10. CASE Finish(s)
  BY <1>10, <1>s, GoesTypes, BindsTypes DEF Finish, S3Types, LeftAlone, Apart
<1>11. CASE Delete(s)
  BY <1>11, ClientsApart DEF Clients
<1> QED
  BY <1>1, <1>2, <1>3, <1>4, <1>5, <1>6, <1>7, <1>8, <1>9, <1>10, <1>11 DEF Works

\* What the provider makes of an upload when it executes a request.
LEMMA EffectsTypes ==
  ASSUME S3Types, NEW s \in Sessions, NEW request \in Mutations \cup {"put"},
         NEW after \in Effects(s, request)
  PROVE  /\ after \in Uploads
         /\ \/ after = store[s]
            \/ ~Refused(s, request) /\ request = "create" /\ after = [store[s] EXCEPT !.upload = "open"]
            \/ /\ ~Refused(s, request) /\ request = "put" /\ store[s].upload = "open"
               /\ after = [store[s] EXCEPT !.part = TRUE]
            \/ /\ ~Refused(s, request) /\ request = "complete" /\ Completes(s)
               /\ after = [store[s] EXCEPT !.upload = "gone", !.object = TRUE]
            \/ /\ ~Refused(s, request) /\ request = "abort" /\ Listed(s)
               /\ \/ after = [store[s] EXCEPT !.upload = "gone"]
                  \/ after = [store[s] EXCEPT !.upload = "lingering"]
            \/ /\ ~Refused(s, request) /\ request \in {"delete", "objectDelete"}
               /\ after = [store[s] EXCEPT !.object = FALSE]
<1>r. store[s] \in Uploads  BY DEF S3Types
<1>1. CASE Refused(s, request)  BY <1>1, <1>r DEF Effects
<1>2. CASE ~Refused(s, request) /\ request = "create"
  BY <1>2, <1>r DEF Effects, Uploads
<1>3. CASE ~Refused(s, request) /\ request = "put"
  <2>1. after = [store[s] EXCEPT !.part = store[s].part \/ store[s].upload = "open"]
    BY <1>3 DEF Effects
  <2>2. CASE store[s].upload = "open"
    <3>1. after = [store[s] EXCEPT !.part = TRUE]  BY <2>1, <2>2
    <3> QED  BY <1>3, <1>r, <2>2, <3>1 DEF Uploads
  <2>3. CASE store[s].upload # "open"
    <3>1. after = store[s]
      <4>1. after = [store[s] EXCEPT !.part = store[s].part]
        <5>1. CASE store[s].part  BY <2>1, <5>1
        <5>2. CASE ~store[s].part
          <6>1. store[s].part = FALSE  BY <5>2, <1>r DEF Uploads
          <6> QED  BY <2>1, <2>3, <6>1
        <5> QED  BY <5>1, <5>2
      <4> QED  BY <4>1, <1>r DEF Uploads
    <3> QED  BY <1>3, <1>r, <3>1
  <2> QED  BY <2>2, <2>3
<1>4. CASE ~Refused(s, request) /\ request = "complete"
  <2>1. after = IF Completes(s) THEN [store[s] EXCEPT !.upload = "gone", !.object = TRUE] ELSE store[s]
    BY <1>4 DEF Effects
  <2> QED  BY <1>4, <1>r, <2>1 DEF Uploads
<1>5. CASE ~Refused(s, request) /\ request = "abort"
  <2>1. \E state \in {"gone", "lingering"} :
           after = IF Listed(s) THEN [store[s] EXCEPT !.upload = state] ELSE store[s]
    BY <1>5 DEF Effects
  <2> QED  BY <1>5, <1>r, <2>1 DEF Uploads
<1>6. CASE ~Refused(s, request) /\ request \in {"delete", "objectDelete"}
  BY <1>6, <1>r DEF Effects, Uploads
<1> QED  BY <1>1, <1>2, <1>3, <1>4, <1>5, <1>6 DEF Mutations

\* The same, request by request.
LEMMA EffectsFacts ==
  ASSUME S3Types, NEW s \in Sessions, NEW request \in Mutations \cup {"put"},
         NEW after \in Effects(s, request)
  PROVE  /\ Refused(s, request) => after = store[s]
         /\ ~Refused(s, request) /\ request = "create" => after.upload = "open" /\ after.object = store[s].object
         /\ ~Refused(s, request) /\ request = "complete" /\ Completes(s) => after.upload = "gone" /\ after.object
         /\ request = "complete" /\ ~Completes(s) => after = store[s]
         /\ ~Refused(s, request) /\ request = "abort" =>
              /\ after.object = store[s].object
              /\ IF Listed(s) THEN after.upload \in {"gone", "lingering"} ELSE after.upload = store[s].upload
         /\ ~Refused(s, request) /\ request \in {"delete", "objectDelete"} =>
              ~after.object /\ after.upload = store[s].upload
<1>r. store[s] \in Uploads  BY DEF S3Types
<1>2. CASE Refused(s, request)  BY <1>2 DEF Effects
<1>3. CASE ~Refused(s, request) /\ request = "create"
  BY <1>3, <1>r DEF Effects, Uploads
<1>4. CASE ~Refused(s, request) /\ request = "put"
  BY <1>4
<1>5. CASE ~Refused(s, request) /\ request = "complete"
  BY <1>5, <1>r DEF Effects, Uploads
<1>6. CASE ~Refused(s, request) /\ request = "abort"
  <2>1. \E state \in {"gone", "lingering"} :
           after = IF Listed(s) THEN [store[s] EXCEPT !.upload = state] ELSE store[s]
    BY <1>6 DEF Effects
  <2> QED  BY <1>6, <1>r, <2>1 DEF Uploads
<1>7. CASE ~Refused(s, request) /\ request \in {"delete", "objectDelete"}
  BY <1>7, <1>r DEF Effects, Uploads
<1> QED  BY <1>2, <1>3, <1>4, <1>5, <1>6, <1>7 DEF Mutations

LEMMA ServesApart ==
  ASSUME S3Types, NEW s \in Sessions, Serves(s)
  PROVE  Apart(s)
<1>r. s3session[s] \in SessionRows  BY DEF S3Types
<1> PICK request \in Mutations \cup {"put"} : Served(s, request)  BY DEF Serves
<1>1. /\ store' \in [Sessions -> Uploads] /\ \A t \in Sessions \ {s} : store'[t] = store[t]
  <2>1. PICK after \in Effects(s, request) : store' = [store EXCEPT ![s] = after]  BY DEF Served
  <2>2. after \in Uploads  BY <2>1, EffectsTypes
  <2> QED  BY <2>1, <2>2 DEF S3Types
<1>2. /\ flights' \in [Sessions -> SUBSET (Mutations \cup {"put"})]
      /\ \A t \in Sessions \ {s} : flights'[t] = flights[t]
  BY DEF Served, S3Types
<1>3. /\ s3session' \in [Sessions -> SessionRows] /\ worker' \in [Sessions -> Steps]
      /\ \A t \in Sessions \ {s} : s3session'[t] = s3session[t] /\ worker'[t] = worker[t]
  <2>1. CASE worker[s] # request  BY <2>1 DEF Served, S3Types
  <2>2. CASE worker[s] = request /\ request = "create"
    <3> DEFINE b == keys = "valid"
               row == [s3session[s] EXCEPT !.state = IF b THEN "uploading" ELSE "reserved", !.known = b]
    <3>1. row \in SessionRows
      <4> b \in BOOLEAN  OBVIOUS
      <4> HIDE DEF b
      <4> QED  BY <1>r DEF SessionRows, States
    <3>2. s3session' = [s3session EXCEPT ![s] = row]  BY <2>2 DEF Served, CreateAnswered, S3Types
    <3> HIDE DEF row
    <3>3. "none" \in Steps  BY DEF Steps
    <3>4. worker' \in [Sessions -> Steps] /\ \A t \in Sessions \ {s} : worker'[t] = worker[t]
      BY <2>2, <3>3 DEF Served, S3Types
    <3> QED  BY <3>1, <3>2, <3>4, Writes
  <2>3. CASE Failed(s)  BY <2>3, FailedTypes
  <2>4. CASE worker' = [worker EXCEPT ![s] = NextStep(s, request)] /\ UNCHANGED s3session /\ worker[s] = request
             /\ request # "create"
    <3>1. request \in Steps  BY <2>4 DEF S3Types
    <3>2. NextStep(s, request) \in Steps
      BY <3>1, <2>4 DEF NextStep, Steps, AbortSteps, ObjectSteps, ReconcileSteps, Mutations
    <3> QED  BY <2>4, <3>2 DEF S3Types
  <2> QED  BY <2>1, <2>2, <2>3, <2>4 DEF Served
<1> QED  BY <1>1, <1>2, <1>3 DEF Served, S3Types, LeftAlone, Apart

LEMMA OthersApart ==
  ASSUME S3Types, NEW s \in Sessions, Finalizes(s) \/ Expire(s) \/ GrantsEnd(s) \/ Lost(s) \/ S3Crash(s)
  PROVE  Apart(s)
<1>1. CASE Finalizes(s)  BY <1>1 DEF Finalizes, S3Types, Uploads, LeftAlone, Apart
<1>r. s3session[s] \in SessionRows  BY DEF S3Types
<1>2. CASE Expire(s)
  <2> DEFINE row == [s3session[s] EXCEPT !.expired = TRUE]
  <2>1. row \in SessionRows  BY <1>r DEF SessionRows
  <2>2. s3session' = [s3session EXCEPT ![s] = row]  BY <1>2 DEF Expire, S3Types
  <2> HIDE DEF row
  <2> QED  BY <1>2, <2>1, <2>2, Writes DEF Expire, S3Types, LeftAlone, Apart
<1>3. CASE GrantsEnd(s)
  <2> DEFINE row == [s3session[s] EXCEPT !.grant = FALSE]
  <2>1. row \in SessionRows  BY <1>r DEF SessionRows
  <2>2. s3session' = [s3session EXCEPT ![s] = row]  BY <1>3 DEF GrantsEnd, S3Types
  <2>3. binding' \in [Sessions -> BindingRows] /\ \A t \in Sessions \ {s} : binding'[t] = binding[t]
    BY <1>3 DEF GrantsEnd, S3Types, BindingRows
  <2> HIDE DEF row
  <2> QED  BY <1>3, <2>1, <2>2, <2>3, Writes DEF GrantsEnd, S3Types, LeftAlone, Apart
<1>4. CASE Lost(s)  BY <1>4, FailedTypes DEF Lost, S3Types, LeftAlone, Apart
<1>5. CASE S3Crash(s)
  <2>1. "none" \in Steps  BY DEF Steps
  <2> QED  BY <1>5, <2>1 DEF S3Crash, S3Types, LeftAlone, Apart
<1> QED  BY <1>1, <1>2, <1>3, <1>4, <1>5

\* The steps of no session in particular.
Elsewhere == UNCHANGED <<s3session, binding, worker, flights, store>>

LEMMA NextApart ==
  ASSUME S3Types, [Next]_s3vars
  PROVE  Elsewhere \/ \E s \in Sessions : Acts(s) /\ Apart(s)
<1>1. CASE UNCHANGED s3vars  BY <1>1 DEF s3vars, Elsewhere
<1>2. CASE Administers \/ Revoke
  BY <1>2 DEF Administers, Configure, ReplaceKeys, Probe, RecoveryCredentials, Remove, Revoke, Elsewhere
<1>3. ASSUME NEW s \in Sessions, Acts(s) PROVE Apart(s)
  BY <1>3, ClientsApart, WorksApart, ServesApart, OthersApart DEF Acts
<1> QED  BY <1>1, <1>2, <1>3 DEF Next, Acts

-----------------------------------------------------------------------------
(* Every session's own part of the invariant.                                  *)

LEMMA LeftAloneFits ==
  ASSUME NEW s, Fits(s), LeftAlone(s)
  PROVE  Fits(s)'
BY DEF LeftAlone, Fits, JournalFits, FlightsFit, WorkerFits, CatalogFits, Completing

LEMMA ClientsFit ==
  ASSUME S3Types, NEW s \in Sessions, Fits(s), Clients(s)
  PROVE  Fits(s)'
<1>r. s3session[s] \in SessionRows /\ store[s] \in Uploads /\ binding[s] \in BindingRows
  BY DEF S3Types
<1>1. CASE Reserve(s)
  <2>1. /\ s3session'[s] = [s3session[s] EXCEPT !.state = "reserved"]
        /\ UNCHANGED <<binding, worker, flights, store>>
    BY <1>1, MovesTypes DEF Reserve, States
  <2> QED
    BY <1>1, <1>r, <2>1
    DEF Reserve, SessionRows, ReconcileSteps, AbortSteps, Fits, JournalFits, FlightsFit,
       WorkerFits, CatalogFits, Completing
<1>2. CASE Initialize(s)
  <2>1. "create" \in Steps  BY DEF Steps
  <2>2. /\ s3session'[s] = [s3session[s] EXCEPT !.state = "creating"]
        /\ worker'[s] = "create" /\ flights'[s] = flights[s] \cup {"create"}
        /\ UNCHANGED <<binding, store>>
    BY <1>2, <2>1, MovesTypes, GoesTypes DEF Initialize, States, Mutations
  <2> QED
    BY <1>2, <1>r, <2>2
    DEF Initialize, SessionRows, ReconcileSteps, AbortSteps, ObjectSteps, Fits, JournalFits,
       FlightsFit, WorkerFits, CatalogFits, Completing
<1>3. CASE PartGrant(s)
  <2>1. /\ s3session'[s] = [s3session[s] EXCEPT !.grant = TRUE, !.part = IF @ = "none" THEN "granted" ELSE @]
        /\ UNCHANGED <<binding, worker, flights, store>>
    BY <1>3 DEF PartGrant, S3Types
  <2> QED
    BY <1>r, <2>1
    DEF SessionRows, Fits, JournalFits, FlightsFit, WorkerFits, CatalogFits, Completing
<1>4. CASE BrowserPuts(s)
  <2>1. flights'[s] = flights[s] \cup {"put"} /\ UNCHANGED <<s3session, binding, worker, store>>
    BY <1>4 DEF BrowserPuts, S3Types
  <2> QED
    BY <2>1
    DEF Fits, JournalFits, FlightsFit, WorkerFits, CatalogFits, Completing
<1>5. CASE Acknowledge(s)
  <2>1. /\ s3session'[s] = [s3session[s] EXCEPT !.part = "confirmed"]
        /\ UNCHANGED <<binding, worker, flights, store>>
    BY <1>5 DEF Acknowledge, S3Types
  <2> QED
    BY <1>r, <2>1
    DEF SessionRows, Fits, JournalFits, FlightsFit, WorkerFits, CatalogFits, Completing
<1>6. CASE Complete(s)
  <2>1. "complete" \in Steps  BY DEF Steps
  <2>2. /\ s3session'[s] = [s3session[s] EXCEPT !.state = "completing", !.sum = TRUE]
        /\ worker'[s] = "complete" /\ flights'[s] = flights[s] \cup {"complete"}
        /\ UNCHANGED <<binding, store>>
    BY <1>6, <2>1, GoesTypes DEF Complete, S3Types, Mutations
  <2>3. s3session[s].state = "uploading" /\ s3session'[s].state = "completing"
        /\ s3session[s].known /\ s3session'[s].known /\ s3session'[s].sum /\ s3session'[s].seen = s3session[s].seen
    <3>1. s3session[s].state = "uploading"  BY <1>6 DEF Complete
    <3>2. s3session[s].known  BY <3>1 DEF Fits, JournalFits
    <3>3. /\ s3session'[s].state = "completing" /\ s3session'[s].sum
          /\ s3session'[s].known = s3session[s].known /\ s3session'[s].seen = s3session[s].seen
      BY <1>r, <2>2 DEF SessionRows
    <3> QED  BY <3>1, <3>2, <3>3
  <2>4. JournalFits(s)' /\ CatalogFits(s)'
    BY <2>2, <2>3 DEF Fits, JournalFits, CatalogFits, Completing
  <2>5. FlightsFit(s)'
    BY <2>2, <2>3 DEF Fits, FlightsFit
  <2>6. WorkerFits(s)'
    BY <2>2, <2>3 DEF WorkerFits, ReconcileSteps, AbortSteps, ObjectSteps
  <2> QED  BY <2>4, <2>5, <2>6 DEF Fits
<1>7. CASE Cancel(s)
  <2>1. CASE s3session[s].state = "reserved"
    <3>1. /\ s3session'[s] = [s3session[s] EXCEPT !.state = "aborted"]
          /\ UNCHANGED <<binding, worker, flights, store>>
      BY <1>7, <2>1, MovesTypes DEF Cancel, Release, States
    <3> QED
      BY <1>7, <1>r, <2>1, <3>1
      DEF Cancel, Idle, SessionRows, ReconcileSteps, AbortSteps, ObjectSteps, Fits, JournalFits,
         FlightsFit, WorkerFits, CatalogFits, Completing
  <2>2. CASE s3session[s].state # "reserved"
    <3>1. AbortStep(s) \in Steps  BY DEF AbortStep, Steps, AbortSteps
    <3>2. /\ s3session'[s] = [s3session[s] EXCEPT !.state = "aborting"]
          /\ worker'[s] = AbortStep(s) /\ flights'[s] = flights[s]
          /\ UNCHANGED <<binding, store>>
      BY <1>7, <2>2, <3>1, MovesTypes, GoesTypes DEF Cancel, States, AbortStep, Mutations
    <3> QED
      BY <1>7, <1>r, <2>2, <3>2
      DEF Cancel, Pending, Terminal, AbortStep, SessionRows, ReconcileSteps, AbortSteps,
         ObjectSteps, Fits, JournalFits, FlightsFit, WorkerFits, CatalogFits, Completing
  <2> QED  BY <2>1, <2>2
<1>8. CASE ReadGrant(s)
  <2>1. binding'[s] = [binding[s] EXCEPT !.grant = TRUE] /\ UNCHANGED <<s3session, worker, flights, store>>
    BY <1>8 DEF ReadGrant, S3Types
  <2> QED
    BY <1>r, <2>1
    DEF BindingRows, Fits, JournalFits, FlightsFit, WorkerFits, CatalogFits, Completing
<1>9. CASE Delete(s)
  <2>1. PICK next \in {"none", "objectHead"} : Goes(s, next)  BY <1>9 DEF Delete
  <2>2. next \in Steps  BY DEF Steps, ObjectSteps
  <2>3. /\ binding'[s] = [binding[s] EXCEPT !.state = "deleting"]
        /\ worker'[s] = next /\ flights'[s] = flights[s]
        /\ UNCHANGED <<s3session, store>>
    BY <1>9, <2>1, <2>2, GoesTypes, BindsTypes DEF Delete, Mutations
  <2> QED
    BY <1>9, <1>r, <2>3
    DEF Delete, Owned, BindingRows, ReconcileSteps, AbortSteps, ObjectSteps, Fits, JournalFits,
       FlightsFit, WorkerFits, CatalogFits, Completing
<1> QED  BY <1>1, <1>2, <1>3, <1>4, <1>5, <1>6, <1>7, <1>8, <1>9 DEF Clients

LEMMA WorksFit ==
  ASSUME S3Types, NEW s \in Sessions, Fits(s), Works(s)
  PROVE  Fits(s)'
<1>r. s3session[s] \in SessionRows /\ store[s] \in Uploads /\ binding[s] \in BindingRows
  BY DEF S3Types
<1>s. {"none", "publish", "list", "reconcileHead", "reconcileParts", "head", "delete", "abort", "absent",
       "release", "objectHead", "objectDelete", "finish"} \subseteq Steps
  BY DEF Steps, ReconcileSteps, AbortSteps, ObjectSteps
<1>m. {"none", "publish", "list", "reconcileHead", "reconcileParts", "head", "absent", "release",
       "objectHead", "finish"} \cap Mutations = {}
  BY DEF Mutations
\* A worker that goes on to a step that sends nothing, and changes nothing else.
<1>g. ASSUME NEW next \in {"none", "publish", "list", "reconcileHead", "reconcileParts", "head", "absent",
                           "release", "objectHead", "finish"},
             Goes(s, next)
      PROVE  worker'[s] = next /\ flights'[s] = flights[s]
  <2>1. next \in Steps /\ next \notin Mutations  BY <1>s, <1>m
  <2> QED  BY <1>g, <2>1, GoesTypes
<1>n. ASSUME worker'[s] = "none", flights'[s] = flights[s], UNCHANGED <<s3session, binding, store>>
      PROVE  Fits(s)'
  BY <1>n
  DEF Fits, JournalFits, FlightsFit, WorkerFits, CatalogFits, Completing, ReconcileSteps,
      AbortSteps, ObjectSteps
<1>1. CASE VerifyHead(s)
  <2>1. CASE Heads(s)
    <3>1. worker'[s] = "publish" /\ flights'[s] = flights[s] /\ UNCHANGED <<s3session, binding, store>>
      BY <1>1, <2>1, <1>g DEF VerifyHead
    <3> QED
      BY <1>1, <2>1, <3>1
      DEF VerifyHead, Heads, Fits, JournalFits, FlightsFit, WorkerFits, CatalogFits, Completing,
          ReconcileSteps, AbortSteps, ObjectSteps
  <2>2. CASE ~Heads(s)
    <3>1. /\ s3session'[s] = [s3session[s] EXCEPT !.state = "uncertain", !.completing = worker[s] # "create"]
          /\ worker'[s] = "none" /\ UNCHANGED <<binding, store, flights>>
      BY <1>1, <2>2, FailedTypes DEF VerifyHead
    <3>2. s3session'[s].state = "uncertain" /\ s3session'[s].completing
          /\ s3session'[s].known = s3session[s].known /\ s3session'[s].seen = s3session[s].seen
          /\ s3session'[s].sum = s3session[s].sum
      BY <1>1, <1>r, <3>1 DEF VerifyHead, SessionRows
    <3>3. s3session[s].state = "completing"  BY <1>1 DEF VerifyHead, Fits, WorkerFits
    <3> QED
      BY <1>r, <3>1, <3>2, <3>3
      DEF Fits, JournalFits, FlightsFit, WorkerFits, CatalogFits, Completing, ReconcileSteps,
          AbortSteps, ObjectSteps
  <2> QED  BY <2>1, <2>2
<1>2. CASE Publish(s)
  <2>1. worker'[s] = "none" /\ flights'[s] = flights[s] /\ store' = store
    BY <1>2, <1>g DEF Publish
  <2>2. binding'[s] = [binding[s] EXCEPT !.state = "active"]
    BY <1>2, BindsTypes DEF Publish
  <2>3. s3session'[s] = [s3session[s] EXCEPT !.state = "published", !.seen = TRUE]
    BY <1>2 DEF Publish, S3Types
  <2>4. s3session'[s].state = "published" /\ s3session'[s].known = s3session[s].known
        /\ s3session'[s].sum = s3session[s].sum /\ binding'[s].state = "active"
    BY <1>r, <2>2, <2>3 DEF SessionRows, BindingRows
  <2>5. store[s].object /\ Completing(s)  BY <1>2 DEF Publish, Fits, WorkerFits, ReconcileSteps
  <2> QED
    BY <1>r, <2>1, <2>4, <2>5
    DEF Fits, JournalFits, FlightsFit, WorkerFits, CatalogFits, Completing, ReconcileSteps,
        AbortSteps, ObjectSteps
<1>3. CASE Reconcile(s)
  <2>1. CASE s3session[s].state = "reserved" /\ Release(s) /\ UNCHANGED <<worker, flights>>
    <3>1. s3session'[s] = [s3session[s] EXCEPT !.state = "aborted"] /\ UNCHANGED <<binding, store>>
      BY <1>3, <2>1, MovesTypes DEF Reconcile, Release, States
    <3> QED
      BY <1>3, <1>r, <2>1, <3>1
      DEF Reconcile, Idle, SessionRows, Fits, JournalFits, FlightsFit, WorkerFits, CatalogFits,
          Completing, ReconcileSteps, AbortSteps, ObjectSteps
  <2>2. CASE s3session[s].state # "reserved" /\ ~s3session[s].known
             /\ Goes(s, "list") /\ UNCHANGED <<member, s3session>>
    <3>1. worker'[s] = "list" /\ flights'[s] = flights[s] /\ UNCHANGED <<s3session, binding, store>>
      BY <1>3, <2>2, <1>g DEF Reconcile
    <3>2. s3session[s].state \in {"creating", "uncertain", "aborting"}
      BY <1>3, <2>2 DEF Reconcile, Recoverable, Fits, JournalFits, Completing
    <3> QED
      BY <2>2, <3>1, <3>2
      DEF Fits, JournalFits, FlightsFit, WorkerFits, CatalogFits, Completing, ReconcileSteps,
          AbortSteps, ObjectSteps
  <2>3. CASE s3session[s].known /\ s3session[s].state \in {"aborting", "uploading"} /\ Goes(s, AbortStep(s))
             /\ s3session'[s] = [s3session[s] EXCEPT !.state = "aborting"]
    <3>1. AbortStep(s) \in {"none", "head"}  BY <2>3 DEF AbortStep
    <3>2. worker'[s] \in {"none", "head"} /\ flights'[s] = flights[s] /\ UNCHANGED <<binding, store>>
      BY <1>3, <2>3, <3>1, <1>g DEF Reconcile
    <3> QED
      BY <1>r, <2>3, <3>2
      DEF SessionRows, Fits, JournalFits, FlightsFit, WorkerFits, CatalogFits, Completing,
          ReconcileSteps, AbortSteps, ObjectSteps
  <2>4. CASE s3session[s].known /\ Completing(s) /\ Goes(s, "reconcileHead") /\ UNCHANGED <<member, s3session>>
    <3>1. worker'[s] = "reconcileHead" /\ flights'[s] = flights[s] /\ UNCHANGED <<s3session, binding, store>>
      BY <1>3, <2>4, <1>g DEF Reconcile
    <3> QED
      BY <2>4, <3>1
      DEF Fits, JournalFits, FlightsFit, WorkerFits, CatalogFits, Completing, ReconcileSteps,
          AbortSteps, ObjectSteps
  <2>5. s3session[s].state = "aborting" /\ s3session' = s3session
          => s3session'[s] = [s3session[s] EXCEPT !.state = "aborting"]
    BY <1>r DEF SessionRows
  <2>6. Moves(s, "aborting") => s3session'[s] = [s3session[s] EXCEPT !.state = "aborting"]
    BY MovesTypes DEF States
  <2> QED  BY <1>3, <2>1, <2>2, <2>3, <2>4, <2>5, <2>6 DEF Reconcile, Completing
<1>4. CASE RecoverCreate(s)
  <2>1. worker'[s] = "none" /\ flights'[s] = flights[s] /\ UNCHANGED <<binding, store>>
    BY <1>4, <1>g DEF RecoverCreate
  <2>2. CASE s3session' = s3session  BY <2>1, <2>2, <1>n
  <2>3. CASE ListsUpload(s)
    <3>1. s3session'[s] = [s3session[s] EXCEPT !.known = TRUE, !.completing = FALSE,
                            !.state = IF @ = "aborting" THEN @ ELSE "uploading"]
      BY <1>4, <2>3 DEF RecoverCreate, S3Types
    <3>2. /\ s3session'[s].known
          /\ s3session'[s].state = (IF s3session[s].state = "aborting" THEN "aborting" ELSE "uploading")
          /\ s3session'[s].sum = s3session[s].sum /\ s3session'[s].seen = s3session[s].seen
      BY <1>r, <3>1 DEF SessionRows
    <3>3. s3session[s].state \in {"creating", "uncertain", "aborting"}
      BY <1>4 DEF RecoverCreate, Fits, WorkerFits
    <3> QED
      BY <1>r, <2>1, <2>3, <3>2, <3>3
      DEF ListsUpload, Listed, Fits, JournalFits, FlightsFit, WorkerFits, CatalogFits, Completing,
          ReconcileSteps, AbortSteps, ObjectSteps
  <2> QED  BY <1>4, <2>2, <2>3 DEF RecoverCreate
<1>5. CASE ReconcileHead(s)
  <2>1. PICK next \in {"none", "publish", "reconcileParts"} : Goes(s, next) /\ (next = "publish" => Heads(s))
    BY <1>5 DEF ReconcileHead
  <2>2. worker'[s] = next /\ flights'[s] = flights[s] /\ UNCHANGED <<s3session, binding, store>>
    BY <1>5, <2>1, <1>g DEF ReconcileHead
  <2> QED
    BY <1>5, <2>1, <2>2
    DEF ReconcileHead, Heads, Fits, JournalFits, FlightsFit, WorkerFits, CatalogFits, Completing,
        ReconcileSteps, AbortSteps, ObjectSteps
<1>6. CASE ReconcileParts(s)
  <2>1. worker'[s] = "none" /\ flights'[s] = flights[s] /\ UNCHANGED <<binding, store>>
    BY <1>6, <1>g DEF ReconcileParts
  <2>2. CASE s3session' = s3session  BY <2>1, <2>2, <1>n
  <2>3. CASE s3session' = [s3session EXCEPT ![s].state = "uploading", ![s].completing = FALSE]
    <3>1. s3session'[s] = [s3session[s] EXCEPT !.state = "uploading", !.completing = FALSE]
      BY <2>3 DEF S3Types
    <3>2. /\ s3session'[s].known = s3session[s].known /\ s3session'[s].state = "uploading"
          /\ s3session'[s].sum = s3session[s].sum /\ s3session'[s].seen = s3session[s].seen
      BY <1>r, <3>1 DEF SessionRows
    <3>3. Completing(s)  BY <1>6 DEF ReconcileParts, Fits, WorkerFits, ReconcileSteps
    <3> QED
      BY <1>r, <2>1, <3>2, <3>3
      DEF Fits, JournalFits, FlightsFit, WorkerFits, CatalogFits, Completing, ReconcileSteps,
          AbortSteps, ObjectSteps
  <2> QED  BY <1>6, <2>2, <2>3 DEF ReconcileParts
<1>7. CASE AbortHead(s)
  <2>1. s3session'[s] = [s3session[s] EXCEPT !.seen = @ \/ Heads(s)] /\ UNCHANGED <<binding, store>>
    BY <1>7 DEF AbortHead, S3Types
  <2>2. /\ s3session'[s].state = s3session[s].state /\ s3session'[s].known = s3session[s].known
        /\ s3session'[s].sum = s3session[s].sum /\ s3session'[s].completing = s3session[s].completing
        /\ s3session'[s].seen <=> (s3session[s].seen \/ Heads(s))
    BY <1>r, <2>1 DEF SessionRows
  <2>3. PICK next \in {"none", "delete", "abort"} : Goes(s, next)
    BY <1>7 DEF AbortHead
  <2>4. worker'[s] = next /\ flights'[s] \in {flights[s], flights[s] \cup {next}}
    <3>1. next \in Steps  BY <1>s
    <3> QED  BY <2>3, <3>1, GoesTypes
  <2>5. s3session[s].state = "aborting" /\ s3session[s].known
    BY <1>7 DEF AbortHead, Fits, WorkerFits, AbortSteps
  <2>6. JournalFits(s)' /\ CatalogFits(s)'
    BY <2>1, <2>2 DEF Heads, Fits, JournalFits, CatalogFits, Completing
  <2>7. FlightsFit(s)'
    BY <2>1, <2>2, <2>4, <2>5 DEF Fits, FlightsFit
  <2>8. WorkerFits(s)'
    BY <2>2, <2>4, <2>5 DEF WorkerFits, ReconcileSteps, AbortSteps, ObjectSteps
  <2> QED  BY <2>6, <2>7, <2>8 DEF Fits
<1>8. CASE AbortDeleted(s)
  <2>1. PICK next \in {"none", "abort"} : Goes(s, next)  BY <1>8 DEF AbortDeleted
  <2>2. worker'[s] = next /\ flights'[s] \in {flights[s], flights[s] \cup {next}}
    <3>1. next \in Steps  BY <1>s
    <3> QED  BY <2>1, <3>1, GoesTypes
  <2> QED
    BY <1>8, <2>2
    DEF AbortDeleted, Fits, JournalFits, FlightsFit, WorkerFits, CatalogFits, Completing,
        ReconcileSteps, AbortSteps, ObjectSteps
<1>9. CASE AbortParts(s)
  <2>1. PICK next \in {"none", "absent"} : Goes(s, next) /\ (next = "absent" => ~Listed(s))
    BY <1>9 DEF AbortParts, MissesUpload
  <2>2. worker'[s] = next /\ flights'[s] = flights[s]
    BY <2>1, <1>g
  <2> QED
    BY <1>9, <2>1, <2>2
    DEF AbortParts, Listed, Fits, JournalFits, FlightsFit, WorkerFits, CatalogFits, Completing,
        ReconcileSteps, AbortSteps, ObjectSteps
<1>10. CASE AbortAbsent(s)
  <2>1. PICK next \in {"none", "release"} : Goes(s, next) /\ (next = "release" => ~store[s].object)
    BY <1>10 DEF AbortAbsent, HeadMisses
  <2>2. worker'[s] = next /\ flights'[s] = flights[s]
    BY <2>1, <1>g
  <2> QED
    BY <1>10, <2>1, <2>2
    DEF AbortAbsent, Fits, JournalFits, FlightsFit, WorkerFits, CatalogFits, Completing,
        ReconcileSteps, AbortSteps, ObjectSteps
<1>11. CASE AbortRelease(s)
  <2>1. /\ s3session'[s] = [s3session[s] EXCEPT !.state = "aborted"]
        /\ worker'[s] = "none" /\ flights'[s] = flights[s] /\ UNCHANGED <<binding, store>>
    BY <1>11, <1>g, MovesTypes DEF AbortRelease, Release, States
  <2> QED
    BY <1>11, <1>r, <2>1
    DEF AbortRelease, SessionRows, Fits, JournalFits, FlightsFit, WorkerFits, CatalogFits,
        Completing, ReconcileSteps, AbortSteps, ObjectSteps
<1>12. CASE ObjectHead(s)
  <2>1. PICK next \in {"none", "objectDelete", "finish"} :
           Goes(s, next) /\ (next = "finish" => ~store[s].object)
    BY <1>12 DEF ObjectHead, HeadMisses
  <2>2. worker'[s] = next /\ flights'[s] \in {flights[s], flights[s] \cup {next}}
        /\ ("finish" = next => flights'[s] = flights[s])
    <3>1. next \in Steps /\ "finish" \notin Mutations  BY <1>s, <1>m
    <3> QED  BY <2>1, <3>1, GoesTypes
  <2>3. UNCHANGED <<s3session, binding, store>> /\ binding[s].state = "deleting"
    BY <1>12 DEF ObjectHead, Fits, WorkerFits, ObjectSteps
  <2>4. JournalFits(s)' /\ CatalogFits(s)'
    BY <2>3 DEF Fits, JournalFits, CatalogFits, Completing
  <2>5. FlightsFit(s)'
    BY <2>2, <2>3 DEF Fits, FlightsFit
  <2>6. WorkerFits(s)'
    BY <2>1, <2>2, <2>3 DEF WorkerFits, ReconcileSteps, AbortSteps, ObjectSteps
  <2> QED  BY <2>4, <2>5, <2>6 DEF Fits
<1>13. CASE ObjectDeleted(s)
  <2>1. PICK next \in {"none", "finish"} : Goes(s, next) /\ (next = "finish" => ~store[s].object)
    BY <1>13 DEF ObjectDeleted, HeadMisses
  <2>2. worker'[s] = next /\ flights'[s] = flights[s]
    BY <2>1, <1>g
  <2> QED
    BY <1>13, <2>1, <2>2
    DEF ObjectDeleted, Fits, JournalFits, FlightsFit, WorkerFits, CatalogFits, Completing,
        ReconcileSteps, AbortSteps, ObjectSteps
<1>14. CASE Finish(s)
  <2>1. /\ binding'[s] = [binding[s] EXCEPT !.state = "deleted"]
        /\ worker'[s] = "none" /\ flights'[s] = flights[s] /\ UNCHANGED <<s3session, store>>
    BY <1>14, <1>g, BindsTypes DEF Finish
  <2> QED
    BY <1>14, <1>r, <2>1
    DEF Finish, BindingRows, Fits, JournalFits, FlightsFit, WorkerFits, CatalogFits, Completing,
        ReconcileSteps, AbortSteps, ObjectSteps
<1>15. CASE Delete(s)
  BY <1>15, ClientsFit DEF Clients
<1> QED
  BY <1>1, <1>2, <1>3, <1>4, <1>5, <1>6, <1>7, <1>8, <1>9, <1>10, <1>11, <1>12, <1>13, <1>14, <1>15 DEF Works

\* What the waiting worker does with the answer, and what the request did.
LEMMA ServedFits ==
  ASSUME S3Types, NEW s \in Sessions, Fits(s), NEW request \in Mutations \cup {"put"},
         Served(s, request)
  PROVE  Fits(s)'
<1>r. s3session[s] \in SessionRows /\ store[s] \in Uploads /\ binding[s] \in BindingRows
  BY DEF S3Types
<1> PICK after \in Effects(s, request) : store' = [store EXCEPT ![s] = after]  BY DEF Served
<1>1. /\ store'[s] = after /\ flights'[s] = flights[s] \ {request} /\ request \in flights[s]
      /\ UNCHANGED binding
  BY DEF Served, S3Types
<1>2. request \in {"create", "put", "complete", "abort", "delete", "objectDelete"}  BY DEF Mutations
\* What the provider does keeps what is known of it.
<1>3. CASE s3session'[s] = s3session[s] /\ (worker'[s] = worker[s] \/ worker'[s] = "none")
  <2>1. CASE after = store[s]
    BY <1>1, <1>3, <2>1
    DEF Fits, JournalFits, FlightsFit, WorkerFits, CatalogFits, Completing, ReconcileSteps,
        AbortSteps, ObjectSteps
  <2>2. CASE request = "create" /\ after = [store[s] EXCEPT !.upload = "open"]
    <3>1. store[s].upload = "none" /\ after.upload = "open" /\ after.object = store[s].object
      BY <1>1, <1>r, <2>2 DEF Fits, FlightsFit, Uploads
    <3> QED
      BY <1>1, <1>3, <2>2, <3>1
      DEF Fits, JournalFits, FlightsFit, WorkerFits, CatalogFits, Completing, ReconcileSteps,
          AbortSteps, ObjectSteps
  <2>3. CASE after = [store[s] EXCEPT !.part = TRUE]
    <3>1. after.upload = store[s].upload /\ after.object = store[s].object  BY <1>r, <2>3 DEF Uploads
    <3> QED
      BY <1>1, <1>3, <3>1
      DEF Fits, JournalFits, FlightsFit, WorkerFits, CatalogFits, Completing, ReconcileSteps,
          AbortSteps, ObjectSteps
  <2>4. CASE request = "complete" /\ Completes(s) /\ after = [store[s] EXCEPT !.upload = "gone", !.object = TRUE]
    <3>1. store[s].upload \in {"finalizing", "open"} /\ after.upload = "gone" /\ after.object
      BY <1>r, <2>4 DEF Completes, Uploads
    <3>2. s3session[s].state \notin {"none", "reserved", "published", "aborted"} /\ binding[s].state = "none"
      BY <1>r, <3>1 DEF Fits, JournalFits, BindingRows
    <3>3. worker[s] \notin {"parts", "absent", "release"} \cup ObjectSteps
      BY <3>1, <3>2 DEF Fits, WorkerFits, ObjectSteps
    <3>4. JournalFits(s)' /\ CatalogFits(s)'
      BY <1>1, <1>3, <3>1, <3>2 DEF Fits, JournalFits, CatalogFits, Completing
    <3>5. FlightsFit(s)'
      BY <1>1, <1>3, <3>1, <3>2 DEF Fits, FlightsFit
    <3>6. WorkerFits(s)'
      BY <1>1, <1>3, <3>1, <3>2, <3>3
      DEF Fits, WorkerFits, Completing, ReconcileSteps, AbortSteps, ObjectSteps
    <3> QED  BY <3>4, <3>5, <3>6 DEF Fits
  <2>5. CASE /\ request = "abort" /\ Listed(s)
             /\ \E state \in {"gone", "lingering"} : after = [store[s] EXCEPT !.upload = state]
    <3>1. /\ store[s].upload \in {"open", "lingering"} /\ after.upload \in {"gone", "lingering"}
          /\ after.object = store[s].object
      BY <1>r, <2>5 DEF Listed, Uploads
    <3>2. s3session[s].state \notin {"none", "reserved", "published", "aborted"} /\ binding[s].state = "none"
          /\ ~store[s].object /\ ~s3session[s].seen
      BY <1>r, <3>1 DEF Fits, JournalFits, BindingRows
    <3>3. "create" \notin flights[s] /\ worker[s] \notin {"absent", "release"} \cup ObjectSteps
      BY <3>1, <3>2 DEF Fits, FlightsFit, WorkerFits, ObjectSteps
    <3>4. JournalFits(s)' /\ CatalogFits(s)'
      BY <1>1, <1>3, <3>1, <3>2 DEF Fits, JournalFits, CatalogFits, Completing
    <3>5. FlightsFit(s)'
      BY <1>1, <1>3, <3>1, <3>2, <3>3 DEF Fits, FlightsFit
    <3>6. WorkerFits(s)'
      BY <1>1, <1>3, <3>1, <3>2, <3>3
      DEF Fits, WorkerFits, Completing, ReconcileSteps, AbortSteps, ObjectSteps
    <3> QED  BY <3>4, <3>5, <3>6 DEF Fits
  <2>6. CASE request \in {"delete", "objectDelete"} /\ after = [store[s] EXCEPT !.object = FALSE]
    <3>1. after.upload = store[s].upload /\ ~after.object  BY <1>r, <2>6 DEF Uploads
    <3>2. s3session[s].state \in {"aborting", "aborted"} \/ binding[s].state \in {"deleting", "deleted"}
      BY <1>1, <2>6 DEF Fits, FlightsFit
    <3>3. binding[s].state # "active" /\ ~Completing(s)
      BY <3>2 DEF Fits, JournalFits, Completing
    <3> QED
      BY <1>1, <1>3, <3>1, <3>3
      DEF Fits, JournalFits, FlightsFit, WorkerFits, CatalogFits, Completing, ReconcileSteps,
          AbortSteps, ObjectSteps
  <2> QED
    <3>1. \/ after = store[s]
          \/ ~Refused(s, request) /\ request = "create" /\ after = [store[s] EXCEPT !.upload = "open"]
          \/ /\ ~Refused(s, request) /\ request = "put" /\ store[s].upload = "open"
             /\ after = [store[s] EXCEPT !.part = TRUE]
          \/ /\ ~Refused(s, request) /\ request = "complete" /\ Completes(s)
             /\ after = [store[s] EXCEPT !.upload = "gone", !.object = TRUE]
          \/ /\ ~Refused(s, request) /\ request = "abort" /\ Listed(s)
             /\ \/ after = [store[s] EXCEPT !.upload = "gone"]
                \/ after = [store[s] EXCEPT !.upload = "lingering"]
          \/ /\ ~Refused(s, request) /\ request \in {"delete", "objectDelete"}
             /\ after = [store[s] EXCEPT !.object = FALSE]
      BY EffectsTypes
    <3> QED  BY <3>1, <2>1, <2>2, <2>3, <2>4, <2>5, <2>6
\* The answer to create is the identity of the upload, or that there is none.
<1>4. CASE worker[s] = "create" /\ request = "create"
  <2>1. /\ worker'[s] = "none"
        /\ s3session'[s] = [s3session[s] EXCEPT !.state = IF keys = "valid" THEN "uploading" ELSE "reserved",
                                            !.known = keys = "valid"]
    BY <1>4 DEF Served, CreateAnswered, S3Types
  <2>2. /\ s3session'[s].state = (IF keys = "valid" THEN "uploading" ELSE "reserved")
        /\ s3session'[s].known <=> keys = "valid"
        /\ s3session'[s].sum = s3session[s].sum /\ s3session'[s].seen = s3session[s].seen
    BY <1>r, <2>1 DEF SessionRows
  <2>3. s3session[s].state = "creating" /\ store[s].upload = "none" /\ binding[s].state = "none"
    BY <1>1, <1>4, <1>r DEF Fits, WorkerFits, FlightsFit, JournalFits, BindingRows
  <2>4. keys = "valid" <=> ~Refused(s, request)  BY <1>4 DEF Refused
  <2>5. CASE keys = "valid"
    <3>1. after.upload = "open" /\ after.object = store[s].object  BY <1>4, <2>4, <2>5, EffectsFacts
    <3> QED
      BY <1>1, <1>4, <1>r, <2>1, <2>2, <2>3, <2>5, <3>1
      DEF Fits, JournalFits, FlightsFit, WorkerFits, CatalogFits, Completing, ReconcileSteps, AbortSteps,
          ObjectSteps
  <2>6. CASE keys # "valid"
    <3>1. after = store[s]  BY <1>4, <2>4, <2>6, EffectsFacts
    <3> QED
      BY <1>1, <1>4, <1>r, <2>1, <2>2, <2>3, <2>6, <3>1
      DEF Fits, JournalFits, FlightsFit, WorkerFits, CatalogFits, Completing, ReconcileSteps, AbortSteps,
          ObjectSteps
  <2> QED  BY <2>5, <2>6
\* The worker gives up: the step failed.
<1>5. CASE worker[s] = request /\ request # "create" /\ Failed(s)
  <2>1. worker'[s] = "none"  BY <1>5, FailedTypes
  <2>2. CASE request # "complete"
    <3>1. s3session'[s] = s3session[s]
      BY <1>2, <1>5, <2>2, FailedTypes
    <3> QED  BY <1>3, <2>1, <3>1
  <2>3. CASE request = "complete"
    <3>1. s3session'[s] = [s3session[s] EXCEPT !.state = "uncertain", !.completing = worker[s] # "create"]
      BY <1>5, <2>3, FailedTypes
    <3>2. s3session'[s].state = "uncertain" /\ s3session'[s].completing
          /\ s3session'[s].known = s3session[s].known /\ s3session'[s].seen = s3session[s].seen
          /\ s3session'[s].sum = s3session[s].sum
      BY <1>5, <1>r, <2>3, <3>1 DEF SessionRows
    <3>3. s3session[s].state = "completing" /\ binding[s].state = "none"
      BY <1>5, <1>r, <2>3 DEF Fits, WorkerFits, JournalFits, BindingRows
    <3>4. \/ after = store[s]
          \/ /\ store[s].upload \in {"finalizing", "open"} /\ after.upload = "gone" /\ after.object
      <4>1. after = store[s] \/ (Completes(s) /\ ~Refused(s, request))  BY <2>3, EffectsFacts
      <4>2. after = store[s] \/ (Completes(s) /\ after.upload = "gone" /\ after.object)
        BY <2>3, <4>1, EffectsFacts
      <4> QED  BY <4>2 DEF Completes
    <3> QED
      BY <1>1, <1>r, <2>1, <3>2, <3>3, <3>4
      DEF Fits, JournalFits, FlightsFit, WorkerFits, CatalogFits, Completing, ReconcileSteps,
          AbortSteps, ObjectSteps
  <2> QED  BY <2>2, <2>3
\* The worker goes on.
<1>6. CASE /\ worker[s] = request /\ request # "create" /\ ~Refused(s, request)
           /\ request = "complete" => Completes(s)
           /\ worker' = [worker EXCEPT ![s] = NextStep(s, request)] /\ s3session' = s3session
  <2>1. worker'[s] = NextStep(s, request) /\ request # "put"
    BY <1>6, <1>r DEF S3Types, Steps, ReconcileSteps, AbortSteps, ObjectSteps
  <2>2. CASE request = "complete"
    <3>1. worker'[s] = "verify"  BY <2>1, <2>2 DEF NextStep
    <3>2. after.object /\ after.upload = "gone"
      BY <1>6, <2>2, EffectsFacts
    <3>3. s3session[s].state = "completing" /\ binding[s].state = "none"
      BY <1>6, <1>r, <2>2 DEF Fits, WorkerFits, JournalFits, BindingRows
    <3> QED
      BY <1>1, <1>6, <3>1, <3>2, <3>3
      DEF Fits, JournalFits, FlightsFit, WorkerFits, CatalogFits, Completing, ReconcileSteps,
          AbortSteps, ObjectSteps
  <2>3. CASE request = "delete"
    <3>1. worker'[s] = "deleted"  BY <2>1, <2>3 DEF NextStep
    <3>2. ~after.object /\ after.upload = store[s].upload
      BY <1>6, <2>3, EffectsFacts
    <3>3. s3session[s].state = "aborting" /\ s3session[s].known /\ binding[s].state = "none"
      BY <1>6, <1>r, <2>3 DEF Fits, WorkerFits, JournalFits, BindingRows, AbortSteps
    <3> QED
      BY <1>1, <1>6, <3>1, <3>2, <3>3
      DEF Fits, JournalFits, FlightsFit, WorkerFits, CatalogFits, Completing, ReconcileSteps,
          AbortSteps, ObjectSteps
  <2>4. CASE request = "objectDelete"
    <3>1. worker'[s] = "objectDeleted"  BY <2>1, <2>4 DEF NextStep
    <3>2. ~after.object /\ after.upload = store[s].upload
      BY <1>6, <2>4, EffectsFacts
    <3>3. binding[s].state = "deleting" /\ s3session[s].state = "published"
      BY <1>6, <1>r, <2>4 DEF Fits, WorkerFits, JournalFits, ObjectSteps
    <3> QED
      BY <1>1, <1>6, <3>1, <3>2, <3>3
      DEF Fits, JournalFits, FlightsFit, WorkerFits, CatalogFits, Completing, ReconcileSteps,
          AbortSteps, ObjectSteps
  <2>5. CASE request = "abort"
    <3>1. worker'[s] = IF s3session[s].sum /\ ~s3session[s].seen /\ ~Listed(s) THEN "none" ELSE "parts"
      BY <2>1, <2>5 DEF NextStep
    <3>2. s3session[s].state = "aborting" /\ s3session[s].known /\ binding[s].state = "none"
      BY <1>6, <1>r, <2>5 DEF Fits, WorkerFits, JournalFits, BindingRows, AbortSteps
    <3>3. store[s].upload \in {"open", "finalizing", "lingering", "gone"}
      BY <1>r, <3>2 DEF Fits, JournalFits, Uploads
    <3>4. after.object = store[s].object
          /\ IF Listed(s) THEN after.upload \in {"gone", "lingering"} ELSE after.upload = store[s].upload
      BY <1>6, <2>5, EffectsFacts
    <3>5. worker'[s] = "parts" => after.upload \in {"gone", "lingering"}
      BY <3>1, <3>3, <3>4 DEF Listed, Fits, JournalFits
    <3>6. Listed(s) => ~store[s].object /\ ~s3session[s].seen /\ "create" \notin flights[s]
      BY DEF Listed, Fits, JournalFits, FlightsFit
    <3>7. JournalFits(s)' /\ CatalogFits(s)'
      BY <1>1, <1>6, <3>2, <3>3, <3>4, <3>6 DEF Fits, JournalFits, CatalogFits, Completing, Listed
    <3>8. FlightsFit(s)'
      BY <1>1, <1>6, <3>2, <3>3, <3>4, <3>6 DEF Fits, FlightsFit
    <3>9. WorkerFits(s)'
      BY <1>1, <1>6, <3>1, <3>2, <3>5 DEF WorkerFits, ReconcileSteps, AbortSteps, ObjectSteps
    <3> QED  BY <3>7, <3>8, <3>9 DEF Fits
  <2> QED  BY <1>2, <1>6, <2>1, <2>2, <2>3, <2>4, <2>5
<1> QED  BY <1>3, <1>4, <1>5, <1>6 DEF Served

LEMMA OthersFit ==
  ASSUME S3Types, NEW s \in Sessions, Fits(s),
         Finalizes(s) \/ Expire(s) \/ GrantsEnd(s) \/ Lost(s) \/ S3Crash(s)
  PROVE  Fits(s)'
<1>r. s3session[s] \in SessionRows /\ store[s] \in Uploads /\ binding[s] \in BindingRows
  BY DEF S3Types
<1>1. CASE Finalizes(s)
  <2>1. store'[s] = [store[s] EXCEPT !.upload = "finalizing"]
        /\ UNCHANGED <<s3session, binding, worker, flights>>
    BY <1>1 DEF Finalizes, S3Types
  <2>2. /\ store[s].upload = "open" /\ store'[s].upload = "finalizing" /\ store'[s].object = store[s].object
        /\ s3session[s].sum
    BY <1>1, <1>r, <2>1 DEF Finalizes, Uploads, Fits, FlightsFit
  <2> QED
    BY <1>r, <2>1, <2>2
    DEF Fits, JournalFits, FlightsFit, WorkerFits, CatalogFits, Completing, ReconcileSteps,
        AbortSteps, ObjectSteps
<1>2. CASE Expire(s)
  <2>1. s3session'[s] = [s3session[s] EXCEPT !.expired = TRUE] /\ UNCHANGED <<binding, worker, flights, store>>
    BY <1>2 DEF Expire, S3Types
  <2> QED
    BY <1>r, <2>1
    DEF SessionRows, Fits, JournalFits, FlightsFit, WorkerFits, CatalogFits, Completing
<1>3. CASE GrantsEnd(s)
  <2>1. /\ s3session'[s] = [s3session[s] EXCEPT !.grant = FALSE] /\ binding'[s] = [binding[s] EXCEPT !.grant = FALSE]
        /\ UNCHANGED <<worker, flights, store>>
    BY <1>3 DEF GrantsEnd, S3Types
  <2>2. binding'[s].state = binding[s].state  BY <1>r, <2>1 DEF BindingRows
  <2> QED
    BY <1>r, <2>1, <2>2
    DEF SessionRows, Fits, JournalFits, FlightsFit, WorkerFits, CatalogFits, Completing
<1>4. CASE Lost(s)
  <2>1. worker'[s] = "none" /\ UNCHANGED <<binding, flights, store>>  BY <1>4, FailedTypes DEF Lost
  <2>2. CASE worker[s] \notin {"create", "complete", "verify"}
    <3>1. s3session'[s] = s3session[s]  BY <1>4, <2>2, FailedTypes DEF Lost
    <3> QED
      BY <2>1, <3>1
      DEF Fits, JournalFits, FlightsFit, WorkerFits, CatalogFits, Completing, ReconcileSteps,
          AbortSteps, ObjectSteps
  <2>3. CASE worker[s] \in {"create", "complete", "verify"}
    <3>1. s3session'[s] = [s3session[s] EXCEPT !.state = "uncertain", !.completing = worker[s] # "create"]
      BY <1>4, <2>3, FailedTypes DEF Lost
    <3>2. s3session'[s].state = "uncertain" /\ s3session'[s].completing = (worker[s] # "create")
          /\ s3session'[s].known = s3session[s].known /\ s3session'[s].seen = s3session[s].seen
          /\ s3session'[s].sum = s3session[s].sum
      BY <1>r, <3>1 DEF SessionRows
    <3>3. s3session[s].state = (IF worker[s] = "create" THEN "creating" ELSE "completing")
      BY <2>3 DEF Fits, WorkerFits
    <3> QED
      BY <1>r, <2>1, <2>3, <3>2, <3>3
      DEF Fits, JournalFits, FlightsFit, WorkerFits, CatalogFits, Completing, ReconcileSteps,
          AbortSteps, ObjectSteps
  <2> QED  BY <2>2, <2>3
<1>5. CASE S3Crash(s)
  <2>1. worker'[s] = "none" /\ UNCHANGED <<s3session, binding, flights, store>>
    BY <1>5 DEF S3Crash, S3Types
  <2> QED
    BY <2>1
    DEF Fits, JournalFits, FlightsFit, WorkerFits, CatalogFits, Completing, ReconcileSteps,
        AbortSteps, ObjectSteps
<1> QED  BY <1>1, <1>2, <1>3, <1>4, <1>5

LEMMA FitsNext ==
  ASSUME S3Types, \A s \in Sessions : Fits(s), [Next]_s3vars
  PROVE  S3Types' /\ \A s \in Sessions : Fits(s)'
<1>1. CASE Elsewhere
  <2>1. S3Types'  BY <1>1 DEF Elsewhere, S3Types
  <2>2. \A s \in Sessions : LeftAlone(s)  BY <1>1 DEF Elsewhere, LeftAlone
  <2> QED  BY <2>1, <2>2, LeftAloneFits
<1>2. ASSUME NEW s \in Sessions, Acts(s), Apart(s)
      PROVE  S3Types' /\ \A t \in Sessions : Fits(t)'
  <2>1. Fits(s)'
    BY <1>2, ClientsFit, WorksFit, ServedFits, OthersFit DEF Acts, Serves
  <2>2. \A t \in Sessions \ {s} : Fits(t)'
    BY <1>2, LeftAloneFits DEF Apart
  <2> QED  BY <1>2, <2>1, <2>2 DEF Apart
<1> QED  BY <1>1, <1>2, NextApart

-----------------------------------------------------------------------------
(* The books.                                                                  *)

\* Whether a session holds a reservation, and its object a use.
Reserves(s) == s3session[s].state \notin {"none", "aborted", "published"}
Uses(s) == binding[s].state \in {"active", "deleting"}

\* Which entries of the books a step of a session makes.
BooksStep(s) ==
  \/ member' = member /\ (Reserves(s)' <=> Reserves(s)) /\ (Uses(s)' <=> Uses(s))
  \/ /\ Pending = {} /\ Owned = {} /\ Reserves(s)' /\ ~Uses(s)'
     /\ Books(member.used, member.reserved + 1)
  \/ /\ Reserves(s) /\ ~Uses(s) /\ ~Reserves(s)' /\ Uses(s)'
     /\ Books(member.used + 1, member.reserved - 1)
  \/ /\ Reserves(s) /\ ~Reserves(s)' /\ (Uses(s)' <=> Uses(s))
     /\ Books(member.used, member.reserved - 1)
  \/ /\ Uses(s) /\ ~Uses(s)' /\ (Reserves(s)' <=> Reserves(s))
     /\ Books(member.used - 1, member.reserved)

LEMMA BooksSteps ==
  ASSUME S3Types, NEW s \in Sessions, Fits(s), Acts(s)
  PROVE  BooksStep(s)
<1>r. s3session[s] \in SessionRows /\ binding[s] \in BindingRows  BY DEF S3Types
<1>p. s \in Pending <=> Reserves(s)  BY DEF Pending, Terminal, Reserves
<1>o. s \in Owned <=> Uses(s)  BY DEF Owned, Uses
\* A step that leaves the state of the session and of its object, or moves
\* between two states that count the same.
<1>k. ASSUME member' = member, s3session'[s].state = s3session[s].state \/ (Reserves(s) /\ Reserves(s)'),
             binding'[s].state = binding[s].state \/ (Uses(s) /\ Uses(s)')
      PROVE  BooksStep(s)
  BY <1>k DEF BooksStep, Reserves, Uses
<1>m. ASSUME NEW state \in States, Moves(s, state) PROVE s3session'[s].state = state
  <2>1. s3session'[s] = [s3session[s] EXCEPT !.state = state]  BY <1>m, MovesTypes
  <2> QED  BY <1>r, <2>1 DEF SessionRows
<1>b. ASSUME NEW state \in {"active", "deleting", "deleted"}, binding' = [binding EXCEPT ![s].state = state]
      PROVE  binding'[s].state = state
  BY <1>b, <1>r, BindsTypes DEF BindingRows
<1>f. ASSUME Failed(s) PROVE s3session'[s].state = s3session[s].state \/ (Reserves(s) /\ Reserves(s)')
  <2>1. CASE worker[s] \notin {"create", "complete", "verify"}  BY <1>f, <2>1, FailedTypes
  <2>2. CASE worker[s] \in {"create", "complete", "verify"}
    <3>1. s3session'[s].state = "uncertain"
      <4>1. s3session'[s] = [s3session[s] EXCEPT !.state = "uncertain", !.completing = worker[s] # "create"]
        BY <1>f, <2>2, FailedTypes
      <4> QED  BY <1>r, <4>1 DEF SessionRows
    <3>2. s3session[s].state \in {"creating", "completing"}  BY <2>2 DEF Fits, WorkerFits
    <3> QED  BY <3>1, <3>2 DEF Reserves
  <2> QED  BY <2>1, <2>2
<1>1. CASE Reserve(s)
  <2>1. s3session'[s].state = "reserved"  BY <1>1, <1>m DEF Reserve, States
  <2>2. binding' = binding /\ ~Uses(s)  BY <1>1, <1>o DEF Reserve
  <2> QED  BY <1>1, <2>1, <2>2 DEF Reserve, BooksStep, Reserves, Uses
<1>2. CASE Initialize(s)
  <2>1. s3session'[s].state = "creating"  BY <1>2, <1>m DEF Initialize, States
  <2> QED  BY <1>2, <1>k, <2>1 DEF Initialize, Reserves
<1>3. CASE PartGrant(s) \/ BrowserPuts(s) \/ Acknowledge(s) \/ ReadGrant(s)
  <2>1. s3session'[s].state = s3session[s].state /\ binding'[s].state = binding[s].state
    BY <1>3, <1>r DEF PartGrant, BrowserPuts, Acknowledge, ReadGrant, S3Types, SessionRows, BindingRows
  <2> QED  BY <1>3, <1>k, <2>1 DEF PartGrant, BrowserPuts, Acknowledge, ReadGrant
<1>4. CASE Complete(s)
  <2>1. s3session'[s].state = "completing"  BY <1>4, <1>r DEF Complete, S3Types, SessionRows
  <2> QED  BY <1>4, <1>k, <2>1 DEF Complete, Reserves
<1>5. CASE Cancel(s)
  <2>1. CASE s3session[s].state = "reserved"
    <3>1. s3session'[s].state = "aborted" /\ binding' = binding /\ Books(member.used, member.reserved - 1)
      BY <1>5, <2>1, <1>m DEF Cancel, Release, States
    <3> QED  BY <2>1, <3>1 DEF BooksStep, Reserves, Uses
  <2>2. CASE s3session[s].state # "reserved"
    <3>1. s3session'[s].state = "aborting"  BY <1>5, <2>2, <1>m DEF Cancel, States
    <3> QED  BY <1>5, <1>k, <1>p, <2>2, <3>1 DEF Cancel, Reserves
  <2> QED  BY <2>1, <2>2
<1>6. CASE Delete(s)
  <2>1. binding'[s].state = "deleting"  BY <1>6, <1>b DEF Delete
  <2> QED  BY <1>6, <1>k, <1>o, <2>1 DEF Delete, Uses
<1>7. CASE VerifyHead(s)
  BY <1>7, <1>k, <1>f DEF VerifyHead
<1>8. CASE Publish(s)
  <2>1. s3session'[s].state = "published"  BY <1>8, <1>r DEF Publish, S3Types, SessionRows
  <2>2. binding'[s].state = "active"  BY <1>8, <1>b DEF Publish
  <2>3. ~Uses(s)  BY <1>8, <1>r DEF Publish, Fits, JournalFits, Uses
  <2> QED  BY <1>8, <2>1, <2>2, <2>3 DEF Publish, BooksStep, Reserves, Uses
<1>9. CASE Reconcile(s)
  <2>1. CASE s3session[s].state = "reserved" /\ Release(s)
    <3>1. s3session'[s].state = "aborted" /\ binding' = binding /\ Books(member.used, member.reserved - 1)
      BY <1>9, <2>1, <1>m DEF Reconcile, Release, States
    <3> QED  BY <2>1, <3>1 DEF BooksStep, Reserves, Uses
  <2>2. CASE UNCHANGED <<member, s3session>>
    BY <1>9, <2>2, <1>k DEF Reconcile
  <2>3. CASE s3session[s].state = "uploading" /\ Moves(s, "aborting") /\ UNCHANGED member
    <3>1. s3session'[s].state = "aborting"  BY <2>3, <1>m DEF States
    <3> QED  BY <1>9, <1>k, <2>3, <3>1 DEF Reconcile, Reserves
  <2> QED  BY <1>9, <2>1, <2>2, <2>3 DEF Reconcile
<1>10. CASE RecoverCreate(s)
  <2>1. s3session[s].state \in {"creating", "uncertain", "aborting"}
    BY <1>10 DEF RecoverCreate, Fits, WorkerFits
  <2>2. s3session'[s].state \in {s3session[s].state, "aborting", "uploading"}
    BY <1>10, <1>r DEF RecoverCreate, S3Types, SessionRows
  <2> QED  BY <1>10, <1>k, <2>1, <2>2 DEF RecoverCreate, Reserves
<1>11. CASE ReconcileParts(s)
  <2>1. s3session[s].state \in {"completing", "uncertain"}
    BY <1>11 DEF ReconcileParts, Fits, WorkerFits, ReconcileSteps, Completing
  <2>2. s3session'[s].state \in {s3session[s].state, "uploading"}
    BY <1>11, <1>r DEF ReconcileParts, S3Types, SessionRows
  <2> QED  BY <1>11, <1>k, <2>1, <2>2 DEF ReconcileParts, Reserves
<1>12. CASE AbortHead(s)
  <2>1. s3session'[s].state = s3session[s].state
    BY <1>12, <1>r DEF AbortHead, S3Types, SessionRows
  <2> QED  BY <1>12, <1>k, <2>1 DEF AbortHead
<1>13. CASE \/ ReconcileHead(s) \/ AbortDeleted(s) \/ AbortParts(s) \/ AbortAbsent(s) \/ ObjectHead(s)
            \/ ObjectDeleted(s)
  BY <1>13, <1>k DEF ReconcileHead, AbortDeleted, AbortParts, AbortAbsent, ObjectHead, ObjectDeleted
<1>14. CASE AbortRelease(s)
  <2>1. s3session'[s].state = "aborted" /\ binding' = binding /\ Books(member.used, member.reserved - 1)
    BY <1>14, <1>m DEF AbortRelease, Release, States
  <2>2. s3session[s].state = "aborting"  BY <1>14 DEF AbortRelease, Fits, WorkerFits, AbortSteps
  <2> QED  BY <2>1, <2>2 DEF BooksStep, Reserves, Uses
<1>15. CASE Finish(s)
  <2>1. binding'[s].state = "deleted" /\ s3session' = s3session /\ Books(member.used - 1, member.reserved)
    BY <1>15, <1>b DEF Finish
  <2>2. binding[s].state = "deleting"  BY <1>15 DEF Finish, Fits, WorkerFits, ObjectSteps
  <2> QED  BY <2>1, <2>2 DEF BooksStep, Reserves, Uses
<1>16. CASE Serves(s)
  <2> PICK request \in Mutations \cup {"put"} : Served(s, request)  BY <1>16 DEF Serves
  <2>1. member' = member /\ binding' = binding  BY DEF Served
  <2>2. CASE worker[s] = "create" /\ request = "create"
    <3>1. s3session[s].state = "creating"  BY <2>2 DEF Fits, WorkerFits
    <3>2. s3session'[s].state \in {"uploading", "reserved"}
      BY <2>2, <1>r DEF Served, CreateAnswered, S3Types, SessionRows
    <3> QED  BY <1>k, <2>1, <3>1, <3>2 DEF Reserves
  <2>3. CASE Failed(s)  BY <1>k, <1>f, <2>1, <2>3
  <2>4. CASE s3session' = s3session  BY <1>k, <2>1, <2>4
  <2> QED  BY <2>2, <2>3, <2>4 DEF Served
<1>17. CASE Finalizes(s) \/ S3Crash(s)
  BY <1>17, <1>k DEF Finalizes, S3Crash
<1>18. CASE Expire(s) \/ GrantsEnd(s)
  <2>1. s3session'[s].state = s3session[s].state /\ binding'[s].state = binding[s].state
    BY <1>18, <1>r DEF Expire, GrantsEnd, S3Types, SessionRows, BindingRows
  <2> QED  BY <1>18, <1>k, <2>1 DEF Expire, GrantsEnd
<1>19. CASE Lost(s)
  BY <1>19, <1>k, <1>f DEF Lost
<1> QED
  BY <1>1, <1>2, <1>3, <1>4, <1>5, <1>6, <1>7, <1>8, <1>9, <1>10, <1>11, <1>12, <1>13, <1>14, <1>15,
     <1>16, <1>17, <1>18, <1>19
  DEF Acts, Clients, Works

LEMMA BooksTypes ==
  ASSUME member \in Members, NEW used \in Nat, NEW reserved \in Nat, Books(used, reserved)
  PROVE  member' \in Members /\ member'.used = used /\ member'.reserved = reserved
BY DEF Books, Members

LEMMA BooksNext ==
  ASSUME member \in Members, S3Types, OneAtATime, \A s \in Sessions : Fits(s), [Next]_s3vars
  PROVE  member' \in Members /\ OneAtATime'
<1>p. \A s \in Sessions : s \in Pending <=> Reserves(s)  BY DEF Pending, Terminal, Reserves
<1>o. \A s \in Sessions : s \in Owned <=> Uses(s)  BY DEF Owned, Uses
<1>q. \A s \in Sessions : s \in Pending' <=> Reserves(s)'  BY DEF Pending, Terminal, Reserves
<1>w. \A s \in Sessions : s \in Owned' <=> Uses(s)'  BY DEF Owned, Uses
<1>d. Pending \subseteq Sessions /\ Owned \subseteq Sessions /\ Pending' \subseteq Sessions /\ Owned' \subseteq Sessions
  BY DEF Pending, Owned
<1>1. CASE Elsewhere
  <2>1. Pending' = Pending /\ Owned' = Owned  BY <1>1 DEF Elsewhere, Pending, Owned
  <2>2. member' \in Members /\ member'.used = member.used /\ member'.reserved = member.reserved
    <3>1. CASE member' = member  BY <3>1
    <3>2. CASE Administers
      BY <3>2 DEF Administers, Configure, ReplaceKeys, Probe, RecoveryCredentials, Remove, Members
    <3>3. CASE \E s \in Sessions : Acts(s)
      <4> PICK s \in Sessions : Acts(s)  BY <3>3
      <4>1. (Reserves(s)' <=> Reserves(s)) /\ (Uses(s)' <=> Uses(s))
        BY <1>1 DEF Elsewhere, Reserves, Uses
      <4>2. BooksStep(s)  BY BooksSteps
      <4>3. ~(Pending = {} /\ Reserves(s))  BY <1>p
      <4> QED  BY <3>1, <4>1, <4>2, <4>3 DEF BooksStep
    <3> QED  BY <3>1, <3>2, <3>3 DEF Next, Acts, Revoke, s3vars
  <2> QED  BY <2>1, <2>2 DEF OneAtATime
<1>2. ASSUME NEW s \in Sessions, Acts(s), Apart(s)
      PROVE  member' \in Members /\ OneAtATime'
  <2>b. BooksStep(s)  BY <1>2, BooksSteps
  <2>t. \A t \in Sessions \ {s} : (Reserves(t)' <=> Reserves(t)) /\ (Uses(t)' <=> Uses(t))
    BY <1>2 DEF Apart, LeftAlone, Reserves, Uses
  <2>1. CASE member' = member /\ (Reserves(s)' <=> Reserves(s)) /\ (Uses(s)' <=> Uses(s))
    <3>1. Pending' = Pending /\ Owned' = Owned  BY <1>p, <1>o, <1>q, <1>w, <1>d, <2>1, <2>t
    <3> QED  BY <2>1, <3>1 DEF OneAtATime
  <2>2. CASE /\ Pending = {} /\ Owned = {} /\ Reserves(s)' /\ ~Uses(s)'
             /\ Books(member.used, member.reserved + 1)
    <3>1. Pending' = {s} /\ Owned' = {}  BY <1>p, <1>o, <1>q, <1>w, <1>d, <2>2, <2>t
    <3>2. member.used = 0 /\ member.reserved = 0  BY <2>2 DEF OneAtATime
    <3>3. member' \in Members /\ member'.used = 0 /\ member'.reserved = 1
      <4>1. Books(0, 1)  BY <2>2, <3>2
      <4>2. member.used \in Nat /\ member.reserved \in Nat  BY DEF Members
      <4> QED  BY <4>1, <4>2, BooksTypes
    <3> QED  BY <3>1, <3>3 DEF OneAtATime
  <2>3. CASE /\ Reserves(s) /\ ~Uses(s) /\ ~Reserves(s)' /\ Uses(s)'
             /\ Books(member.used + 1, member.reserved - 1)
    <3>1. Pending = {s} /\ Owned = {}  BY <1>p, <1>o, <1>d, <2>3 DEF OneAtATime
    <3>2. Pending' = {} /\ Owned' = {s}  BY <1>p, <1>o, <1>q, <1>w, <1>d, <2>3, <2>t, <3>1
    <3>3. member.used = 0 /\ member.reserved = 1  BY <3>1 DEF OneAtATime
    <3>4. member' \in Members /\ member'.used = 1 /\ member'.reserved = 0
      <4>1. Books(1, 0)  BY <2>3, <3>3
      <4>2. member.used \in Nat /\ member.reserved \in Nat  BY DEF Members
      <4> QED  BY <4>1, <4>2, BooksTypes
    <3> QED  BY <3>2, <3>4 DEF OneAtATime
  <2>4. CASE /\ Reserves(s) /\ ~Reserves(s)' /\ (Uses(s)' <=> Uses(s))
             /\ Books(member.used, member.reserved - 1)
    <3>1. Pending = {s}  BY <1>p, <1>d, <2>4 DEF OneAtATime
    <3>2. Pending' = {} /\ Owned' = Owned  BY <1>p, <1>o, <1>q, <1>w, <1>d, <2>4, <2>t, <3>1
    <3>3. member.reserved = 1  BY <3>1 DEF OneAtATime
    <3>4. member' \in Members /\ member'.used = member.used /\ member'.reserved = 0
      <4>1. Books(member.used, 0)  BY <2>4, <3>3
      <4>2. member.used \in Nat /\ member.reserved \in Nat  BY DEF Members
      <4> QED  BY <4>1, <4>2, BooksTypes
    <3> QED  BY <3>2, <3>4 DEF OneAtATime
  <2>5. CASE /\ Uses(s) /\ ~Uses(s)' /\ (Reserves(s)' <=> Reserves(s))
             /\ Books(member.used - 1, member.reserved)
    <3>1. Owned = {s}  BY <1>o, <1>d, <2>5 DEF OneAtATime
    <3>2. Owned' = {} /\ Pending' = Pending  BY <1>p, <1>o, <1>q, <1>w, <1>d, <2>5, <2>t, <3>1
    <3>3. member.used = 1  BY <3>1 DEF OneAtATime
    <3>4. member' \in Members /\ member'.used = 0 /\ member'.reserved = member.reserved
      <4>1. Books(0, member.reserved)  BY <2>5, <3>3
      <4>2. member.used \in Nat /\ member.reserved \in Nat  BY DEF Members
      <4> QED  BY <4>1, <4>2, BooksTypes
    <3> QED  BY <3>2, <3>4 DEF OneAtATime
  <2> QED  BY <2>b, <2>1, <2>2, <2>3, <2>4, <2>5 DEF BooksStep
<1> QED  BY <1>1, <1>2, NextApart

-----------------------------------------------------------------------------
(* The invariant, and what follows from it.                                    *)

LEMMA InitInv == Init => S3Inv
<1> SUFFICES ASSUME Init PROVE S3Inv  OBVIOUS
<1>1. member \in Members /\ S3Types  BY TypesInit
<1>2. \A s \in Sessions : Fits(s)
  BY DEF Init, NoSession, Fits, JournalFits, FlightsFit, WorkerFits, CatalogFits, Completing,
     ReconcileSteps, AbortSteps, ObjectSteps
<1>3. Pending = {} /\ Owned = {}  BY DEF Init, NoSession, Pending, Owned
<1>4. OneAtATime  BY <1>3 DEF Init, OneAtATime
<1> QED  BY <1>1, <1>2, <1>4 DEF S3Inv

LEMMA NextInv == S3Inv /\ [Next]_s3vars => S3Inv'
BY FitsNext, BooksNext DEF S3Inv

\* One session holds the path, so the books are the sizes of the two sets.
LEMMA BooksFollow == S3Inv => S3BooksExact
<1> SUFFICES ASSUME S3Inv PROVE S3BooksExact  OBVIOUS
<1>1. OneAtATime  BY DEF S3Inv
<1>2. ASSUME NEW S, S \subseteq Pending \cup Owned
      PROVE  Cardinality(S) = IF S = {} THEN 0 ELSE 1
  <2>1. CASE S = {}  BY <2>1, FS_EmptySet
  <2>2. CASE S # {}
    <3> PICK s \in S : TRUE  BY <2>2
    <3>1. S = {s}  BY <1>1, <1>2 DEF OneAtATime
    <3> QED  BY <3>1, <2>2, FS_Singleton
  <2> QED  BY <2>1, <2>2
<1> QED  BY <1>1, <1>2 DEF OneAtATime, S3BooksExact

\* What the catalog offers is at the provider; what was given back has left
\* nothing there, however late a request is executed.
LEMMA StrandedFollow == S3Inv => NothingStranded
BY DEF S3Inv, Fits, JournalFits, FlightsFit, CatalogFits, NothingStranded

\* The invariant of an S3 member: the journal, the catalog, the requests on
\* their way and the provider fit together in every reachable state.
THEOREM JournalInvariant == Spec => []S3Inv
BY InitInv, NextInv, PTL DEF Spec

\* The books of an S3 member count exactly the reservations and the objects, and
\* nothing is stranded at the provider when capacity is given back, for any
\* number of sessions, crashes and lost answers (s3_uploads.py, s3_objects.py,
\* s3_recovery.py).
THEOREM MemberBooksExact == Spec => []S3Sound
<1>1. S3Inv => S3Sound  BY BooksFollow, StrandedFollow DEF S3Sound
<1> QED  BY JournalInvariant, <1>1, PTL

=============================================================================
