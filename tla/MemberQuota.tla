---------------------------- MODULE MemberQuota -----------------------------
(* The Master's capacity accounting of one Follower storage member             *)
(* (app/services/resource_pool.py, the reservation route and the pending       *)
(* delete loop): the counters allocated_bytes, used_bytes and reserved_bytes   *)
(* of cluster_storage_members against the upload sessions and catalog rows     *)
(* they summarise.                                                             *)
(*                                                                             *)
(* Each action is one committed transaction, except the heartbeat's on MySQL,  *)
(* whose plain reads come from a snapshot while only the node identity row is  *)
(* locked: it is two steps, and transactions that do not take the identity     *)
(* row may commit between them.  SQLite takes its single writer lock before    *)
(* the first read of every write transaction.                                  *)
EXTENDS QuotaState

CONSTANTS
  Deleters,        \* tasks that run retry_pending_media
  Databases        \* the databases considered: "MySQL", "SQLite"

AtLeastZero(n) == IF n > 0 THEN n ELSE 0
Larger(m, n) == IF m > n THEN m ELSE n

Init ==
  /\ engine \in Databases
  /\ media = [u \in Claims |-> "new"]
  /\ allocated \in Allocations /\ used = 0 /\ reserved = 0
  /\ removing = [d \in Deleters |-> NoClaim]
  /\ beat = <<>> /\ twice = 0

(* The identity row is held by an open heartbeat transaction.                  *)
NodeLocked == beat # <<>>

Becomes(u, state) == media' = [media EXCEPT ![u] = state]

(* Mutant: the live reservations are not subtracted.                           *)
ReserveOverbooks(u) ==
  /\ media[u] = "new" /\ ~NodeLocked
  /\ allocated - used >= Size[u]
  /\ reserved' = reserved + Size[u]
  /\ Becomes(u, "reserved")
  /\ UNCHANGED <<engine, allocated, used, removing, beat, twice>>

(* _reserve_upload: new_upload locks the identity row, then the member row is  *)
(* read FOR UPDATE and charged.  A disabled, offline or physically full member *)
(* only refuses more.                                                          *)
Reserve(u) ==
  /\ media[u] = "new" /\ ~NodeLocked
  /\ allocated - used - reserved >= Size[u]
  /\ reserved' = reserved + Size[u]
  /\ Becomes(u, "reserved")
  /\ UNCHANGED <<engine, allocated, used, removing, beat, twice>>

Finalize(u) ==
  /\ media[u] = "reserved"
  /\ reserved' = reserved - Size[u]
  /\ used' = used + Size[u]
  /\ Becomes(u, "active")
  /\ UNCHANGED <<engine, allocated, removing, beat, twice>>

FailUpload(u) ==
  /\ media[u] = "reserved"
  /\ reserved' = AtLeastZero(reserved - Size[u])
  /\ Becomes(u, "failed")
  /\ UNCHANGED <<engine, allocated, used, removing, beat, twice>>

(* mark_pending_delete locks the identity row.                                 *)
MarkPendingDelete(u) ==
  /\ media[u] = "active" /\ ~NodeLocked
  /\ Becomes(u, "pending_delete")
  /\ UNCHANGED <<engine, allocated, used, reserved, removing, beat, twice>>

(* retry_pending_media: the row is read in one transaction, the Follower is    *)
(* asked to delete, and a second transaction settles the counters and the row  *)
(* from what the first one read, whether the row is still there or not.        *)
ReadPending(d, u) ==
  /\ removing[d] = NoClaim /\ media[u] = "pending_delete"
  /\ removing' = [removing EXCEPT ![d] = u]
  /\ UNCHANGED <<engine, media, allocated, used, reserved, beat, twice>>

DeleteRefused(d) ==
  /\ removing[d] # NoClaim
  /\ removing' = [removing EXCEPT ![d] = NoClaim]
  /\ UNCHANGED <<engine, media, allocated, used, reserved, beat, twice>>

SettleDelete(d) ==
  /\ removing[d] # NoClaim
  /\ used' = AtLeastZero(used - Size[removing[d]])
  /\ twice' = IF media[removing[d]] = "deleted" THEN twice + Size[removing[d]] ELSE twice
  /\ Becomes(removing[d], "deleted")
  /\ removing' = [removing EXCEPT ![d] = NoClaim]
  /\ UNCHANGED <<engine, allocated, reserved, beat>>

(* State.heartbeat and register_follower: the member row and the catalog sum   *)
(* are read, then the whole member row is written back.                        *)
Observed == [used |-> used, reserved |-> reserved, placed |-> Placed]

WriteBack(seen) ==
  /\ used' = Larger(seen.used, seen.placed)
  /\ reserved' = seen.reserved

HeartbeatRead ==
  /\ engine = "MySQL" /\ ~NodeLocked
  /\ beat' = Observed
  /\ UNCHANGED <<engine, media, allocated, used, reserved, removing, twice>>

HeartbeatWrite ==
  /\ NodeLocked
  /\ WriteBack(beat)
  /\ beat' = <<>>
  /\ UNCHANGED <<engine, media, allocated, removing, twice>>

HeartbeatSerial ==
  /\ engine = "SQLite"
  /\ WriteBack(Observed)
  /\ UNCHANGED <<engine, media, allocated, removing, beat, twice>>

(* configure_member holds the identity row and reads the member FOR UPDATE.    *)
Configure(bytes) ==
  /\ ~NodeLocked
  /\ bytes >= used + reserved
  /\ allocated' = bytes
  /\ UNCHANGED <<engine, media, used, reserved, removing, beat, twice>>

Next ==
  \/ \E u \in Claims : Reserve(u) \/ Finalize(u) \/ FailUpload(u) \/ MarkPendingDelete(u)
  \/ \E d \in Deleters, u \in Claims : ReadPending(d, u)
  \/ \E d \in Deleters : DeleteRefused(d) \/ SettleDelete(d)
  \/ HeartbeatRead \/ HeartbeatWrite \/ HeartbeatSerial
  \/ \E bytes \in Allocations : Configure(bytes)

Spec == Init /\ [][Next]_quotavars
=============================================================================
