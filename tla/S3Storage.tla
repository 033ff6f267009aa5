------------------------------ MODULE S3Storage ------------------------------
(***************************************************************************)
(* The optional S3 member of a Master (app/services/s3_members.py,         *)
(* s3_uploads.py, s3_objects.py, s3_recovery.py) and the provider it talks *)
(* to through s3_control.py.  Media bytes go from the browser to the       *)
(* provider under signed grants; the Master only keeps a journal and sends *)
(* metadata requests whose answers may never come.                         *)
(*                                                                         *)
(*   1. A worker holds the kernel lease of one identity (upload_claims.py) *)
(*      while it works; `worker[s]` is the step it is at, "none" when the  *)
(*      lease is free.  A crash frees the lease.                           *)
(*   2. A request that changes the provider is in `flights[s]` from the    *)
(*      moment it is sent.  The provider may execute it long after the     *)
(*      worker has given up on the answer.                                 *)
(*   3. `revision` is not kept: it only changes under the lease, so under  *)
(*      the lease the comparisons with it always succeed.                  *)
(*                                                                         *)
(* All sessions upload to one logical path and every file has size 1.      *)
(***************************************************************************)
EXTENDS S3State

CONSTANTS
    Quota,       \* files the member may hold
    MaxFaults    \* bound: crashes, lost answers, revocations

Mutations == {"create", "complete", "abort", "delete", "objectDelete"}

\* known: provider_upload_id; sum: checksum; seen: etag and version_id;
\* completing: error_code starts with complete_; grant: grant_until lies ahead.
NoSession == [state |-> "none", known |-> FALSE, sum |-> FALSE, seen |-> FALSE,
              completing |-> FALSE, grant |-> FALSE, expired |-> FALSE, part |-> "none"]

Init ==
    /\ member = [row |-> TRUE, enabled |-> FALSE, probe |-> "unchecked",
                 used |-> 0, reserved |-> 0]
    /\ s3session = [s \in Sessions |-> NoSession]
    /\ binding = [s \in Sessions |-> [state |-> "none", grant |-> FALSE]]
    /\ worker = [s \in Sessions |-> "none"]
    /\ flights = [s \in Sessions |-> {}]
    /\ store = [s \in Sessions |-> [upload |-> "none", part |-> FALSE, object |-> FALSE]]
    /\ keys = "valid"
    /\ s3faults = 0

-----------------------------------------------------------------------------
(* What the steps below are written with.                                  *)

Idle(s) == worker[s] = "none"

\* The worker goes on to `next`; a step that waits for a change of the provider
\* has sent the request of that name.
Goes(s, next) ==
    /\ worker' = [worker EXCEPT ![s] = next]
    /\ flights' = [flights EXCEPT ![s] = @ \cup ({next} \cap Mutations)]

Moves(s, state) == s3session' = [s3session EXCEPT ![s].state = state]

Books(used, reserved) ==
    member' = [member EXCEPT !.used = used, !.reserved = reserved]

Fault == s3faults < MaxFaults /\ s3faults' = s3faults + 1

-----------------------------------------------------------------------------
(* s3_control.py: what a request that reads finds at the provider.         *)

Listed(s) == store[s].upload \in {"open", "lingering"}
ListsUpload(s) == keys = "valid" /\ Listed(s)
ListsParts(s) == keys = "valid" /\ Listed(s)
MissesUpload(s) == keys = "valid" /\ ~Listed(s)
Heads(s) == keys = "valid" /\ store[s].object
HeadMisses(s) == keys = "valid" /\ ~store[s].object

\* _failed: a lost or refused answer of create or complete leaves the outcome
\* open; any other failed step leaves the journal as it is.
Failed(s) ==
    /\ worker' = [worker EXCEPT ![s] = "none"]
    /\ s3session' = [s3session EXCEPT ![s] =
                     IF worker[s] \notin {"create", "complete", "verify"} THEN @
                     ELSE [@ EXCEPT !.state = "uncertain", !.completing = worker[s] # "create"]]

-----------------------------------------------------------------------------
(* s3_members.py                                                           *)

Configure(on) ==
    /\ member.row /\ (on => member.probe = "ready")
    /\ member' = [member EXCEPT !.enabled = on]
    /\ UNCHANGED <<s3session, binding, worker, flights, store, keys, s3faults>>

\* configure with other credentials: nothing may be under way with the old ones.
ReplaceKeys ==
    /\ member.row /\ Pending = {} /\ member.reserved = 0
    /\ member' = [member EXCEPT !.enabled = FALSE, !.probe = "unchecked"]
    /\ keys' = "valid"
    /\ UNCHANGED <<s3session, binding, worker, flights, store, s3faults>>

\* The probe route asks for the bucket; a failure also disables the member.
Probe ==
    /\ member.row
    /\ member' = IF keys = "valid" THEN [member EXCEPT !.probe = "ready"]
                 ELSE [member EXCEPT !.probe = "error", !.enabled = FALSE]
    /\ UNCHANGED <<s3session, binding, worker, flights, store, keys, s3faults>>

RecoveryCredentials ==
    /\ member.row /\ ~member.enabled /\ Pending # {}
    /\ \A s \in Pending : s3session[s].state = "aborting" /\ ~s3session[s].grant
    /\ member' = [member EXCEPT !.probe = "unchecked"]
    /\ keys' = "valid"
    /\ UNCHANGED <<s3session, binding, worker, flights, store, s3faults>>

Remove ==
    /\ member.row /\ ~member.enabled /\ Pending = {} /\ Owned = {}
    /\ member.used = 0 /\ member.reserved = 0
    /\ member' = [member EXCEPT !.row = FALSE]
    /\ UNCHANGED <<s3session, binding, worker, flights, store, keys, s3faults>>

Administers ==
    (\E on \in BOOLEAN : Configure(on)) \/ ReplaceKeys \/ Probe \/ RecoveryCredentials \/ Remove

-----------------------------------------------------------------------------
(* s3_uploads.py: the way to a published object.                           *)

Reserve(s) ==
    /\ s3session[s].state = "none"
    /\ member.row /\ member.enabled /\ member.probe = "ready"
    /\ member.used + member.reserved < Quota
    /\ Pending = {} /\ Owned = {}                     \* the path is free
    /\ Moves(s, "reserved")
    /\ Books(member.used, member.reserved + 1)
    /\ UNCHANGED <<binding, worker, flights, store, keys, s3faults>>

Initialize(s) ==
    /\ Idle(s) /\ s3session[s].state = "reserved" /\ ~s3session[s].expired
    /\ Moves(s, "creating") /\ Goes(s, "create")
    /\ UNCHANGED <<member, binding, store, keys, s3faults>>

\* Grants are for one part of fixed content, while the session is not idle.
PartGrant(s) ==
    /\ s3session[s].state = "uploading" /\ ~s3session[s].expired
    /\ s3session' = [s3session EXCEPT ![s].grant = TRUE,
                                      ![s].part = IF @ = "none" THEN "granted" ELSE @]
    /\ UNCHANGED <<member, binding, worker, flights, store, keys, s3faults>>

BrowserPuts(s) ==
    /\ s3session[s].grant /\ "put" \notin flights[s]
    /\ flights' = [flights EXCEPT ![s] = @ \cup {"put"}]
    /\ UNCHANGED <<member, s3session, binding, worker, store, keys, s3faults>>

\* The part the provider lists is recorded with its entity tag.
Acknowledge(s) ==
    /\ s3session[s].state = "uploading" /\ ~s3session[s].expired
    /\ s3session[s].part = "granted" /\ ListsParts(s) /\ store[s].part
    /\ s3session' = [s3session EXCEPT ![s].part = "confirmed"]
    /\ UNCHANGED <<member, binding, worker, flights, store, keys, s3faults>>

Complete(s) ==
    /\ Idle(s) /\ s3session[s].state = "uploading" /\ ~s3session[s].expired
    /\ s3session[s].part = "confirmed"
    /\ s3session' = [s3session EXCEPT ![s].state = "completing", ![s].sum = TRUE]
    /\ Goes(s, "complete")
    /\ UNCHANGED <<member, binding, store, keys, s3faults>>

VerifyHead(s) ==
    /\ worker[s] = "verify"
    /\ IF Heads(s) THEN Goes(s, "publish") /\ UNCHANGED s3session
                   ELSE Failed(s) /\ UNCHANGED flights
    /\ UNCHANGED <<member, binding, store, keys, s3faults>>

\* One transaction: the object, the catalog row, the capacity and the session.
Publish(s) ==
    /\ worker[s] = "publish"
    /\ s3session[s].state \in {"completing", "uncertain"}
    /\ s3session' = [s3session EXCEPT ![s].state = "published", ![s].seen = TRUE]
    /\ binding' = [binding EXCEPT ![s].state = "active"]
    /\ Books(member.used + 1, member.reserved - 1)
    /\ Goes(s, "none")
    /\ UNCHANGED <<store, keys, s3faults>>

-----------------------------------------------------------------------------
(* s3_uploads.py and s3_recovery.py: the way out.                          *)

Release(s) ==
    /\ Moves(s, "aborted")
    /\ Books(member.used, member.reserved - 1)

\* _abort_remote_checked begins once the last part grant has ended.
AbortStep(s) ==
    IF s3session[s].grant THEN "none" ELSE IF s3session[s].known THEN "head" ELSE "list"

Cancel(s) ==
    /\ Idle(s) /\ s \in Pending
    /\ IF s3session[s].state = "reserved" THEN Release(s) /\ UNCHANGED <<worker, flights>>
       ELSE Moves(s, "aborting") /\ Goes(s, AbortStep(s)) /\ UNCHANGED member
    /\ UNCHANGED <<binding, store, keys, s3faults>>

\* Mutant: the sweep leaves cancelled sessions alone.
RecoverableUncancelled(s) ==
    \/ s3session[s].state \in {"reserved", "uploading"} /\ s3session[s].expired
    \/ s3session[s].state \in {"creating", "completing", "uncertain"}

\* The sessions one sweep of the recovery worker takes.
Recoverable(s) ==
    \/ s3session[s].state \in {"reserved", "uploading"} /\ s3session[s].expired
    \/ s3session[s].state \in {"creating", "completing", "uncertain"}
    \/ s3session[s].state = "aborting" /\ ~s3session[s].grant

\* reconcile, by the worker or by the administrator.
Reconcile(s) ==
    /\ Idle(s) /\ Recoverable(s)
    /\ \/ s3session[s].state = "reserved" /\ Release(s) /\ UNCHANGED <<worker, flights>>
       \/ /\ s3session[s].state # "reserved" /\ ~s3session[s].known
          /\ Goes(s, "list") /\ UNCHANGED <<member, s3session>>
       \/ /\ s3session[s].state = "aborting" /\ s3session[s].known
          /\ Goes(s, AbortStep(s)) /\ UNCHANGED <<member, s3session>>
       \/ /\ s3session[s].known
          /\ \/ s3session[s].state = "completing"
             \/ s3session[s].state = "uncertain" /\ s3session[s].completing
          /\ Goes(s, "reconcileHead") /\ UNCHANGED <<member, s3session>>
       \/ /\ s3session[s].state = "uploading" /\ s3session[s].known
          /\ Moves(s, "aborting") /\ Goes(s, AbortStep(s)) /\ UNCHANGED member
    /\ UNCHANGED <<binding, store, keys, s3faults>>

\* _recover_create adopts the only upload of the key.  The rest of the call is
\* what the next reconcile does with the session it leaves.
RecoverCreate(s) ==
    /\ worker[s] = "list"
    /\ s3session' = IF ~ListsUpload(s) THEN s3session
                  ELSE [s3session EXCEPT ![s].known = TRUE, ![s].completing = FALSE,
                                         ![s].state = IF @ = "aborting" THEN @ ELSE "uploading"]
    /\ Goes(s, "none")
    /\ UNCHANGED <<member, binding, store, keys, s3faults>>

ReconcileHead(s) ==
    /\ worker[s] = "reconcileHead"
    /\ Goes(s, IF Heads(s) THEN "publish" ELSE IF HeadMisses(s) THEN "reconcileParts" ELSE "none")
    /\ UNCHANGED <<member, s3session, binding, store, keys, s3faults>>

\* No object and a living upload: the completion may be repeated.
ReconcileParts(s) ==
    /\ worker[s] = "reconcileParts"
    /\ s3session' = IF ~ListsParts(s) THEN s3session
                  ELSE [s3session EXCEPT ![s].state = "uploading", ![s].completing = FALSE]
    /\ Goes(s, "none")
    /\ UNCHANGED <<member, binding, store, keys, s3faults>>

\* The object of a completion nobody saw is recorded before it is removed.
AbortHead(s) ==
    /\ worker[s] = "head"
    /\ s3session' = [s3session EXCEPT ![s].seen = @ \/ Heads(s)]
    /\ Goes(s, IF Heads(s) THEN "delete" ELSE IF HeadMisses(s) THEN "abort" ELSE "none")
    /\ UNCHANGED <<member, binding, store, keys, s3faults>>

AbortDeleted(s) ==
    /\ worker[s] = "deleted"
    /\ Goes(s, IF HeadMisses(s) THEN "abort" ELSE "none")
    /\ UNCHANGED <<member, s3session, binding, store, keys, s3faults>>

AbortParts(s) ==
    /\ worker[s] = "parts"
    /\ Goes(s, IF MissesUpload(s) THEN "absent" ELSE "none")
    /\ UNCHANGED <<member, s3session, binding, store, keys, s3faults>>

AbortAbsent(s) ==
    /\ worker[s] = "absent"
    /\ Goes(s, IF HeadMisses(s) THEN "release" ELSE "none")
    /\ UNCHANGED <<member, s3session, binding, store, keys, s3faults>>

AbortRelease(s) ==
    /\ worker[s] = "release"
    /\ Release(s)
    /\ Goes(s, "none")
    /\ UNCHANGED <<binding, store, keys, s3faults>>

-----------------------------------------------------------------------------
(* s3_objects.py                                                           *)

ReadGrant(s) ==
    /\ binding[s].state = "active"
    /\ binding' = [binding EXCEPT ![s].grant = TRUE]
    /\ UNCHANGED <<member, s3session, worker, flights, store, keys, s3faults>>

\* The catalog hides the object at once; its bytes wait for the read grants.
Delete(s) ==
    /\ Idle(s) /\ s \in Owned
    /\ binding' = [binding EXCEPT ![s].state = "deleting"]
    /\ Goes(s, IF binding[s].grant THEN "none" ELSE "objectHead")
    /\ UNCHANGED <<member, s3session, store, keys, s3faults>>

ObjectHead(s) ==
    /\ worker[s] = "objectHead"
    /\ Goes(s, IF Heads(s) THEN "objectDelete" ELSE IF HeadMisses(s) THEN "finish" ELSE "none")
    /\ UNCHANGED <<member, s3session, binding, store, keys, s3faults>>

ObjectDeleted(s) ==
    /\ worker[s] = "objectDeleted"
    /\ Goes(s, IF HeadMisses(s) THEN "finish" ELSE "none")
    /\ UNCHANGED <<member, s3session, binding, store, keys, s3faults>>

Finish(s) ==
    /\ worker[s] = "finish"
    /\ binding' = [binding EXCEPT ![s].state = "deleted"]
    /\ Books(member.used - 1, member.reserved)
    /\ Goes(s, "none")
    /\ UNCHANGED <<s3session, store, keys, s3faults>>

-----------------------------------------------------------------------------
(* The provider executes what was sent to it, in any order and at any time. *)
(* A worker still waiting for the answer goes on in the same step.         *)

\* What was accepted while the credentials worked still finishes.
Refused(s, request) ==
    keys # "valid" /\ ~(request = "complete" /\ store[s].upload = "finalizing")

Completes(s) == store[s].upload = "finalizing" \/ (store[s].upload = "open" /\ store[s].part)

\* What a request does to the provider; a refused one does nothing.  After an
\* abort the upload cannot be completed, but while a part is still arriving it
\* may linger until it is aborted again.
Effects(s, request) ==
    LET now == store[s] IN
    IF Refused(s, request) THEN {now} ELSE
    CASE request = "create" -> {[now EXCEPT !.upload = "open"]}
      [] request = "put" -> {[now EXCEPT !.part = @ \/ now.upload = "open"]}
      [] request = "complete" -> {IF Completes(s)
                                  THEN [now EXCEPT !.upload = "gone", !.object = TRUE] ELSE now}
      [] request = "abort" ->
           {IF Listed(s) THEN [now EXCEPT !.upload = after] ELSE now :
               after \in {"gone"} \cup (IF "put" \in flights[s] THEN {"lingering"} ELSE {})}
      [] request \in {"delete", "objectDelete"} -> {[now EXCEPT !.object = FALSE]}

\* Mutant: an abort nobody acknowledged counts as the end of the upload.
NextStepUnproved(s, request) ==
    CASE request = "create" -> "none"
      [] request = "complete" -> "verify"
      [] request = "delete" -> "deleted"
      [] request = "objectDelete" -> "objectDeleted"
      [] request = "abort" -> "parts"

\* Where the waiting worker goes with the answer.
NextStep(s, request) ==
    CASE request = "create" -> "none"
      [] request = "complete" -> "verify"
      [] request = "delete" -> "deleted"
      [] request = "objectDelete" -> "objectDeleted"
      [] request = "abort" ->
           IF s3session[s].sum /\ ~s3session[s].seen /\ ~Listed(s) THEN "none" ELSE "parts"

\* Only a complete refusal of create proves that no upload exists.
CreateAnswered(s) ==
    s3session' = [s3session EXCEPT ![s].state = IF keys = "valid" THEN "uploading" ELSE "reserved",
                                   ![s].known = keys = "valid"]

\* The provider uses up the upload before the object of a completion appears.
Finalizes(s) ==
    /\ "complete" \in flights[s] /\ keys = "valid" /\ store[s].upload = "open" /\ store[s].part
    /\ store' = [store EXCEPT ![s].upload = "finalizing"]
    /\ UNCHANGED <<member, s3session, binding, worker, flights, keys, s3faults>>

Served(s, request) ==
    /\ request \in flights[s]
    /\ \E after \in Effects(s, request) : store' = [store EXCEPT ![s] = after]
    /\ flights' = [flights EXCEPT ![s] = @ \ {request}]
    /\ IF worker[s] # request THEN UNCHANGED <<worker, s3session>>
       ELSE IF request = "create" THEN
              worker' = [worker EXCEPT ![s] = "none"] /\ CreateAnswered(s)
       ELSE IF Refused(s, request) \/ (request = "complete" /\ ~Completes(s)) THEN Failed(s)
       ELSE worker' = [worker EXCEPT ![s] = NextStep(s, request)] /\ UNCHANGED s3session
    /\ UNCHANGED <<member, binding, keys, s3faults>>

-----------------------------------------------------------------------------
(* Time and faults.                                                        *)

\* No authorised activity for IDLE_SECONDS.
Expire(s) ==
    /\ s \in Pending /\ ~s3session[s].expired
    /\ s3session' = [s3session EXCEPT ![s].expired = TRUE]
    /\ UNCHANGED <<member, binding, worker, flights, store, keys, s3faults>>

GrantsEnd(s) ==
    /\ s3session[s].grant \/ binding[s].grant
    /\ s3session' = [s3session EXCEPT ![s].grant = FALSE]
    /\ binding' = [binding EXCEPT ![s].grant = FALSE]
    /\ UNCHANGED <<member, worker, flights, store, keys, s3faults>>

\* The answer does not come; the request may still be executed.
Lost(s) ==
    /\ Fault /\ worker[s] \in Mutations
    /\ Failed(s)
    /\ UNCHANGED <<member, binding, flights, store, keys>>

\* The process dies; its transactions are whole and its lease is free.
S3Crash(s) ==
    /\ Fault /\ ~Idle(s)
    /\ worker' = [worker EXCEPT ![s] = "none"]
    /\ UNCHANGED <<member, s3session, binding, flights, store, keys>>

Revoke ==
    /\ Fault /\ keys = "valid"
    /\ keys' = "revoked"
    /\ UNCHANGED <<member, s3session, binding, worker, flights, store>>

Works(s) ==
    \/ VerifyHead(s) \/ Publish(s) \/ Reconcile(s) \/ RecoverCreate(s) \/ ReconcileHead(s)
    \/ ReconcileParts(s) \/ AbortHead(s) \/ AbortDeleted(s) \/ AbortParts(s) \/ AbortAbsent(s)
    \/ AbortRelease(s) \/ ObjectHead(s) \/ ObjectDeleted(s) \/ Finish(s)
    \/ (binding[s].state = "deleting" /\ ~binding[s].grant /\ Delete(s))

Serves(s) == \E request \in Mutations \cup {"put"} : Served(s, request)

Clients(s) ==
    \/ Reserve(s) \/ Initialize(s) \/ PartGrant(s) \/ BrowserPuts(s) \/ Acknowledge(s)
    \/ Complete(s) \/ Cancel(s) \/ ReadGrant(s) \/ Delete(s)

Next ==
    \/ Administers \/ Revoke
    \/ \E s \in Sessions : Clients(s) \/ Works(s) \/ Serves(s) \/ Finalizes(s) \/ Expire(s)
                           \/ GrantsEnd(s) \/ Lost(s) \/ S3Crash(s)

Spec == Init /\ [][Next]_s3vars

\* The recovery worker repeats every minute, the provider and time go on.
Fairness ==
    \A s \in Sessions :
      /\ WF_s3vars(Works(s))
      /\ WF_s3vars(Expire(s)) /\ WF_s3vars(GrantsEnd(s))
      /\ \A request \in Mutations \cup {"put"} : WF_s3vars(Served(s, request))

FairSpec == Spec /\ Fairness

-----------------------------------------------------------------------------
(* Properties                                                              *)

\* A session whose upload the provider has confirmed does not hold its capacity
\* for ever, as long as the credentials work: "no stranded quota after browser
\* refresh or network failure" (docs/python-current-parity.md, PY13).
NoStrandedQuota ==
    \A s \in Sessions :
        (s3session[s].known /\ s \in Pending) ~> (s \notin Pending \/ keys = "revoked")

\* _abort_remote_checked cannot tell an upload its own lost abort removed from
\* one a completion used up, and waits for an object that will not come.
AbortUnproved(s) ==
    /\ s3session[s].state = "aborting" /\ s3session[s].sum /\ ~s3session[s].seen
    /\ store[s].upload = "gone" /\ ~store[s].object

\* In every other case the capacity comes back.
S3Settles ==
    \A s \in Sessions :
        (s3session[s].known /\ s \in Pending)
            ~> (s \notin Pending \/ keys = "revoked" \/ AbortUnproved(s))

=============================================================================
