-------------------------------- MODULE Karaoke --------------------------------
(***************************************************************************)
(* Karaoke recordings of one account, stored at a Follower: the Master's   *)
(* rows and counters (api/v1/karaoke_users.py, karaoke_integrity.py,       *)
(* services/karaoke_delete_integrity.py) and the Follower's files          *)
(* (services/karaoke_storage.py, api/internal_nodes.py).                   *)
(*                                                                         *)
(*   1. Every recording has size 1: the Follower accepts no other length   *)
(*      than the one reserved.                                             *)
(*   2. A capability lives for minutes and a reservation grows old in an   *)
(*      hour: no capability outlives the reservation's hour.  An upload    *)
(*      that has begun may.                                                *)
(*   3. Fences of migration and retirement refuse a deletion the way a     *)
(*      busy or unreachable Follower does.                                 *)
(***************************************************************************)
EXTENDS KarState

CONSTANTS
    Requests,       \* concurrent requests of the user and of administrators
    Asks,           \* what each of them may ask for
    Quota,          \* the account's quota
    Allocated,      \* the member's allocation
    MaxSanctions,   \* bound: bans and unbans
    MaxFailures     \* bound: crashes, lost calls and failed transactions

Handlers == Requests \cup {"visitor"}
Idle == [at |-> "idle", op |-> "none", rec |-> "none", now |-> "none", todo |-> {}]
Unborn == [state |-> "none", final |-> FALSE, old |-> FALSE]

Init ==
    /\ account = [status |-> "active", used |-> 0]
    /\ row = [r \in Recordings |-> Unborn]
    /\ books = [reserved |-> 0, used |-> 0]
    /\ shelf = [reserved |-> 0, used |-> 0]
    /\ file = {}
    /\ receiver = [r \in Recordings |-> "none"]
    /\ token = {}
    /\ request = [h \in Handlers |-> Idle]
    /\ late = {}
    /\ withdrawn = {}
    /\ sanctions = 0
    /\ failures = 0

Deleting == {r \in Recordings : row[r].state = "deleting"}

Less(n) == IF n = 0 THEN 0 ELSE n - 1

Goes(h, at) ==
    request' = [request EXCEPT ![h].at = at,
                               ![h].now = IF at \in {"each", "swept"} THEN "none" ELSE @]
Ends(h) == request' = [request EXCEPT ![h] = Idle]

Marks(r, state) == row' = [row EXCEPT ![r].state = state]

-----------------------------------------------------------------------------
(* Requests.  current_user admits an active account only; the status page  *)
(* and the administrator's list take up the deletion of an account.        *)

UserOps == {"ticket", "relay", "finalize", "cancel", "delete", "close"}

Begins(op) ==
    CASE op \in {"ticket", "list", "status"} -> "survey"
      [] op \in {"relay", "finalize"}        -> "look"
      [] op \in {"cancel", "delete"}         -> "stage"
      [] OTHER                               -> "disown"

\* A ticket that is going to be refused names no recording.
Names(op, r) == op # "close" /\ (op = "ticket" => row[r].state = "none")

Ask(h, op, r) ==
    /\ request[h].at = "idle"
    /\ h \in Requests /\ op \in Asks[h]
    /\ account.status = "active" \/ (op = "close" /\ account.status # "gone")
    /\ op = "ticket" => \A o \in Handlers : request[o].rec # r
    /\ op \notin {"ticket", "close"} => row[r].state \in {"pending", "ready", "deleting"}
    /\ request' = [request EXCEPT ![h] =
          [Idle EXCEPT !.at = Begins(op), !.op = op,
                       !.rec = IF Names(op, r) THEN r ELSE "none"]]
    /\ UNCHANGED <<account, row, books, shelf, file, receiver, token, late, withdrawn, sanctions,
                   failures>>

\* The user's list of recordings takes up deletions too.
Visit(op) ==
    /\ request["visitor"].at = "idle"
    /\ \/ op = "status" /\ account.status = "deleting"
       \/ op = "list" /\ account.status = "active" /\ Deleting # {}
    /\ request' = [request EXCEPT !["visitor"] = [Idle EXCEPT !.at = "survey", !.op = op]]
    /\ UNCHANGED <<account, row, books, shelf, file, receiver, token, late, withdrawn, sanctions,
                   failures>>

\* mutate_user: ban and unban write the status they were asked for.
Sanction(status) ==
    /\ account.status \notin {"gone", status} /\ sanctions < MaxSanctions
    /\ account' = [account EXCEPT !.status = status]
    /\ sanctions' = sanctions + 1
    /\ UNCHANGED <<row, books, shelf, file, receiver, token, request, late, withdrawn, failures>>

-----------------------------------------------------------------------------
(* Two-phase deletion.                                                     *)

Stageable(op, r) ==
    \/ row[r].state = "deleting" /\ (op = "delete") = row[r].final
    \/ row[r].state = (IF op = "cancel" THEN "pending" ELSE "ready")

\* stage_recording
Stage(h) ==
    LET op == request[h].op
        r == request[h].rec
    IN /\ request[h].at = "stage"
       /\ IF Stageable(op, r)
          THEN /\ Marks(r, "deleting")
               /\ request' = [request EXCEPT ![h].at = "each", ![h].rec = "none", ![h].todo = {r}]
          ELSE Ends(h) /\ UNCHANGED row
       /\ UNCHANGED <<account, books, shelf, file, receiver, token, late, withdrawn, sanctions,
                      failures>>

Condemned(r) == row[r].state \in {"pending", "ready"}

\* stage_user_deletion
Disown(h) ==
    /\ request[h].at = "disown"
    /\ IF account.status = "gone"
       THEN Ends(h) /\ UNCHANGED <<account, row>>
       ELSE /\ account' = [account EXCEPT !.status = "deleting"]
            /\ row' = [r \in Recordings |->
                  IF Condemned(r) THEN [row[r] EXCEPT !.state = "deleting"] ELSE row[r]]
            /\ Goes(h, "survey")
    /\ UNCHANGED <<books, shelf, file, receiver, token, late, withdrawn, sanctions, failures>>

\* Mutant: only recordings that were confirmed are taken up again.
RecoverableConfirmed(r) == row[r].state = "deleting" /\ row[r].final

Recoverable(r) == row[r].state = "deleting"

\* recover_deleting_recordings
Survey(h) ==
    /\ request[h].at = "survey"
    /\ request' = [request EXCEPT ![h].at = "each", ![h].todo = {r \in Recordings : Recoverable(r)}]
    /\ UNCHANGED <<account, row, books, shelf, file, receiver, token, late, withdrawn, sanctions,
                   failures>>

After(op) ==
    CASE op = "ticket" -> "sweep" [] op \in {"close", "status"} -> "finish" [] OTHER -> "idle"

\* recover_recording: the row is read again before its bytes are removed.
Take(h, r) ==
    /\ request[h].at = "each" /\ r \in request[h].todo
    /\ request' = IF row[r].state = "deleting"
                  THEN [request EXCEPT ![h].at = "remove", ![h].now = r, ![h].todo = @ \ {r}]
                  ELSE [request EXCEPT ![h].todo = @ \ {r}]
    /\ UNCHANGED <<account, row, books, shelf, file, receiver, token, late, withdrawn, sanctions,
                   failures>>

Through(h) ==
    /\ request[h].at = "each" /\ request[h].todo = {}
    /\ IF After(request[h].op) = "idle" THEN Ends(h) ELSE Goes(h, After(request[h].op))
    /\ UNCHANGED <<account, row, books, shelf, file, receiver, token, late, withdrawn, sanctions,
                   failures>>

Forgotten(r) ==
    /\ row' = [row EXCEPT ![r] = [Unborn EXCEPT !.state = "gone"]]
    /\ account' = [account EXCEPT !.used = Less(@)]

\* finalize_recording_delete
Settle(h) ==
    LET r == request[h].now
    IN /\ request[h].at = "settle"
       /\ IF row[r].state = "deleting"
          THEN /\ Forgotten(r)
               /\ books' = IF row[r].final THEN [books EXCEPT !.used = Less(@)]
                                           ELSE [books EXCEPT !.reserved = Less(@)]
          ELSE UNCHANGED <<account, row, books>>
       /\ Goes(h, "each")
       /\ UNCHANGED <<shelf, file, receiver, token, late, withdrawn, sanctions, failures>>

\* finish_user_deletion
Finish(h) ==
    /\ request[h].at = "finish"
    /\ IF account.status = "deleting" /\ Charged = {}
       THEN account' = [status |-> "gone", used |-> 0]
       ELSE UNCHANGED account
    /\ Ends(h)
    /\ UNCHANGED <<row, books, shelf, file, receiver, token, late, withdrawn, sanctions, failures>>

-----------------------------------------------------------------------------
(* _remove_recording_bytes, by a recovery ("remove") or by the sweep of old *)
(* reservations ("wipe").                                                   *)

Removing(h) == request[h].at \in {"remove", "wipe"}

Removed(h) == Goes(h, IF request[h].at = "remove" THEN "settle" ELSE "clear")

NotRemoved(h) == Goes(h, IF request[h].at = "remove" THEN "each" ELSE "restore")

\* recording_delete at the Follower.
Erases(r) ==
    /\ receiver[r] = "none"
    /\ file' = file \ {r}
    /\ shelf' = IF r \in file THEN [shelf EXCEPT !.used = Less(@)] ELSE shelf

Remove(h) ==
    /\ Removing(h) /\ Erases(request[h].now) /\ Removed(h)
    /\ UNCHANGED <<account, row, books, receiver, token, late, withdrawn, sanctions, failures>>

\* The lease is held by a live writer.
Busy(h) ==
    /\ Removing(h) /\ receiver[request[h].now] # "none" /\ NotRemoved(h)
    /\ UNCHANGED <<account, row, books, shelf, file, receiver, token, late, withdrawn, sanctions,
                   failures>>

Fails == failures < MaxFailures /\ failures' = failures + 1

\* The call is lost, or served after the Master has given up on it.
Unanswered(h) ==
    /\ Removing(h) /\ Fails /\ NotRemoved(h)
    /\ late' \in {late, late \cup {request[h].now}}
    /\ UNCHANGED <<account, row, books, shelf, file, receiver, token, withdrawn, sanctions>>

EraseLate(r) ==
    /\ r \in late /\ Erases(r) /\ late' = late \ {r}
    /\ UNCHANGED <<account, row, books, receiver, token, request, withdrawn, sanctions, failures>>

RefuseLate(r) ==
    /\ r \in late /\ receiver[r] # "none" /\ late' = late \ {r}
    /\ UNCHANGED <<account, row, books, shelf, file, receiver, token, request, withdrawn, sanctions,
                   failures>>

Stopped == [r \in Recordings |-> "none"]

\* The Follower dies between the unlink and its counter.
EraseHalf(h) ==
    /\ Removing(h) /\ Fails /\ NotRemoved(h)
    /\ receiver[request[h].now] = "none" /\ file' = file \ {request[h].now}
    /\ receiver' = Stopped /\ late' = {}
    /\ UNCHANGED <<account, row, books, shelf, token, withdrawn, sanctions>>

-----------------------------------------------------------------------------
(* _cleanup_stale_pending and _create_ticket                               *)

Stale == {r \in Recordings : row[r].state = "pending" /\ row[r].old}

Sweep(h) ==
    /\ request[h].at = "sweep"
    /\ row' = [r \in Recordings |-> IF r \in Stale THEN [row[r] EXCEPT !.state = "deleting"]
                                                    ELSE row[r]]
    /\ request' = [request EXCEPT ![h].at = "swept", ![h].todo = Stale]
    /\ UNCHANGED <<account, books, shelf, file, receiver, token, late, withdrawn, sanctions,
                   failures>>

Wipe(h, r) ==
    /\ request[h].at = "swept" /\ r \in request[h].todo
    /\ request' = [request EXCEPT ![h].at = "wipe", ![h].now = r, ![h].todo = @ \ {r}]
    /\ UNCHANGED <<account, row, books, shelf, file, receiver, token, late, withdrawn, sanctions,
                   failures>>

Clear(h) ==
    LET r == request[h].now
    IN /\ request[h].at = "clear"
       /\ IF row[r].state = "deleting"
          THEN Forgotten(r) /\ books' = [books EXCEPT !.reserved = Less(@)]
          ELSE UNCHANGED <<account, row, books>>
       /\ Goes(h, "swept")
       /\ UNCHANGED <<shelf, file, receiver, token, late, withdrawn, sanctions, failures>>

\* The bytes could not be removed: the reservation is pending again.
Restore(h) ==
    LET r == request[h].now
    IN /\ request[h].at = "restore"
       /\ IF row[r].state = "deleting"
          THEN Marks(r, "pending") /\ withdrawn' = withdrawn \cup {r}
          ELSE UNCHANGED <<row, withdrawn>>
       /\ Goes(h, "swept")
       /\ UNCHANGED <<account, books, shelf, file, receiver, token, late, sanctions, failures>>

Admits ==
    /\ account.status = "active" /\ account.used < Quota
    /\ books.used + books.reserved < Allocated

Reserve(h) ==
    LET r == request[h].rec
    IN /\ request[h].at = "swept" /\ request[h].todo = {}
       /\ IF r # "none" /\ Admits
          THEN /\ row' = [row EXCEPT ![r].state = "pending"]
               /\ account' = [account EXCEPT !.used = @ + 1]
               /\ books' = [books EXCEPT !.reserved = @ + 1]
               /\ token' = token \cup {r}
          ELSE UNCHANGED <<account, row, books, token>>
       /\ Ends(h)
       /\ UNCHANGED <<shelf, file, receiver, late, withdrawn, sanctions, failures>>

Expire(r) ==
    /\ r \in token /\ token' = token \ {r}
    /\ UNCHANGED <<account, row, books, shelf, file, receiver, request, late, withdrawn, sanctions,
                   failures>>

Age(r) ==
    /\ row[r].state = "pending" /\ ~row[r].old /\ r \notin token
    /\ row' = [row EXCEPT ![r].old = TRUE]
    /\ UNCHANGED <<account, books, shelf, file, receiver, token, request, late, withdrawn,
                   sanctions,
                   failures>>

-----------------------------------------------------------------------------
(* relay_upload and finalize at the Master.                                *)

\* _recording_and_placement, or an answer that ends the request.
Look(h) ==
    /\ request[h].at = "look"
    /\ IF row[request[h].rec].state = "pending"
       THEN Goes(h, IF request[h].op = "relay" THEN "send" ELSE "stat")
       ELSE Ends(h)
    /\ UNCHANGED <<account, row, books, shelf, file, receiver, token, late, withdrawn, sanctions,
                   failures>>

\* stat at the Follower; a missing file or an unreachable Follower ends the request.
Stat(h) ==
    /\ request[h].at = "stat"
    /\ \/ request[h].rec \in file /\ Goes(h, "confirm")
       \/ Ends(h)
    /\ UNCHANGED <<account, row, books, shelf, file, receiver, token, late, withdrawn, sanctions,
                   failures>>

\* Mutant: the row is not looked at again after the Follower has answered.
ConfirmableUnlessGone(r) == row[r].state \in {"pending", "deleting"}

Confirmable(r) == row[r].state = "pending"

Confirm(h) ==
    LET r == request[h].rec
    IN /\ request[h].at = "confirm"
       /\ IF Confirmable(r)
          THEN /\ row' = [row EXCEPT ![r] = [Unborn EXCEPT !.state = "ready", !.final = TRUE]]
               /\ books' = [reserved |-> Less(books.reserved), used |-> books.used + 1]
          ELSE UNCHANGED <<row, books>>
       /\ Ends(h)
       /\ UNCHANGED <<account, shelf, file, receiver, token, late, withdrawn, sanctions, failures>>

-----------------------------------------------------------------------------
(* karaoke_storage.receive at the Follower, for a browser that holds a     *)
(* capability or for the Master's relay.                                   *)

Writes(r, at) == receiver' = [receiver EXCEPT ![r] = at]

\* The lease, and the transaction that reserves the bytes at the Follower.
Admit(r) ==
    IF receiver[r] = "none" /\ shelf.used + shelf.reserved < Allocated
    THEN shelf' = [shelf EXCEPT !.reserved = @ + 1] /\ Writes(r, "write")
    ELSE UNCHANGED <<shelf, receiver>>

Put(r) ==
    /\ r \in token /\ Admit(r)
    /\ UNCHANGED <<account, row, books, file, token, request, late, withdrawn, sanctions, failures>>

Send(h) ==
    /\ request[h].at = "send" /\ Admit(request[h].rec) /\ Ends(h)
    /\ UNCHANGED <<account, row, books, file, token, late, withdrawn, sanctions, failures>>

Publish(r) ==
    /\ receiver[r] = "write" /\ r \notin file
    /\ file' = file \cup {r} /\ Writes(r, "count")
    /\ UNCHANGED <<account, row, books, shelf, token, request, late, withdrawn, sanctions,
                   failures>>

\* "already uploaded", a body that breaks off, a footer that does not match.
Reject(r) ==
    /\ receiver[r] = "write" /\ Writes(r, "undo")
    /\ UNCHANGED <<account, row, books, shelf, file, token, request, late, withdrawn, sanctions,
                   failures>>

Count(r) ==
    /\ receiver[r] = "count" /\ Writes(r, "none")
    /\ shelf' = [reserved |-> Less(shelf.reserved), used |-> shelf.used + 1]
    /\ UNCHANGED <<account, row, books, file, token, request, late, withdrawn, sanctions, failures>>

\* The transaction behind the rename fails: the file is removed again, although a stat that
\* takes no lease may have seen it.
CountFails(r) ==
    /\ receiver[r] = "count" /\ Fails
    /\ file' = file \ {r} /\ withdrawn' = withdrawn \cup {r} /\ Writes(r, "undo")
    /\ UNCHANGED <<account, row, books, shelf, token, request, late, sanctions>>

Undo(r) ==
    /\ receiver[r] = "undo" /\ Writes(r, "none")
    /\ shelf' = [shelf EXCEPT !.reserved = Less(@)]
    /\ UNCHANGED <<account, row, books, file, token, request, late, withdrawn, sanctions, failures>>

-----------------------------------------------------------------------------

CrashFollower ==
    /\ Fails /\ receiver' = Stopped /\ late' = {}
    /\ UNCHANGED <<account, row, books, shelf, file, token, request, withdrawn, sanctions>>

CrashMaster ==
    /\ Fails /\ request' = [h \in Handlers |-> Idle]
    /\ UNCHANGED <<account, row, books, shelf, file, receiver, token, late, withdrawn, sanctions>>

Step(h) ==
    \/ Stage(h) \/ Disown(h) \/ Survey(h) \/ Through(h) \/ Settle(h) \/ Finish(h)
    \/ Remove(h) \/ Busy(h) \/ Sweep(h) \/ Clear(h) \/ Restore(h) \/ Reserve(h)
    \/ Look(h) \/ Stat(h) \/ Confirm(h) \/ Send(h)
    \/ \E r \in Recordings : Take(h, r) \/ Wipe(h, r)

Receives(r) == Publish(r) \/ Reject(r) \/ Count(r) \/ Undo(r)

Next ==
    \/ \E h \in Handlers : Step(h) \/ Unanswered(h) \/ EraseHalf(h)
    \/ \E h \in Requests, op \in UserOps, r \in Recordings : Ask(h, op, r)
    \/ Visit("status") \/ Visit("list")
    \/ \E status \in {"active", "banned"} : Sanction(status)
    \/ \E r \in Recordings :
          Receives(r) \/ Put(r) \/ CountFails(r) \/ Expire(r) \/ Age(r)
            \/ EraseLate(r) \/ RefuseLate(r)
    \/ CrashFollower \/ CrashMaster

Spec == Init /\ [][Next]_karvars

\* Handlers and uploads go on (an upload that stalls is cut off), and the status page is asked
\* for by any visitor.  Capabilities run out.
Fairness ==
    /\ \A h \in Handlers : WF_karvars(Step(h))
    /\ \A r \in Recordings : WF_karvars(Receives(r))
    /\ \A r \in Recordings : WF_karvars(Expire(r))
    /\ WF_karvars(Visit("status"))

FairSpec == Spec /\ Fairness

-----------------------------------------------------------------------------
(* Properties                                                              *)

\* The deletion of an account comes to an end (or an administrator bans or unbans the account),
\* unless the sweep gives one of its recordings back in the meantime.
KarSettles ==
    account.status = "deleting" ~>
        \/ account.status # "deleting"
        \/ \E r \in Recordings : row[r].state \in {"pending", "ready"}

\* karaoke_delete_integrity.py: "Recoverable two-phase deletion for Karaoke recordings and
\* accounts."  Does the deletion of an account always come to an end?
NoStuckAccount == account.status = "deleting" ~> account.status # "deleting"

=============================================================================
