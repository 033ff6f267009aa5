----------------------------- MODULE UploadState -----------------------------
(* What a Master and a Follower remember of the uploads between them, and what *)
(* must be true of it.  StorageUpload says how it changes.                     *)
EXTENDS Integers, FiniteSets

CONSTANTS
  Uploads,        \* upload identities; upload_id and media_id stand for each other
  Paths,          \* final media paths
  Size,           \* expected_bytes of each upload
  Allocated,      \* the Follower's allocated_bytes
  Deleters,       \* Master tasks that run retry_pending_media
  Transports,     \* "Direct": the browser sends to the Follower; "Relay"
  LateRequests,   \* a request its caller gave up on may still arrive
  NoUpload, NoPath

ASSUME SizePositive == Size \in [Uploads -> Nat \ {0}]
ASSUME AllocatedNat == Allocated \in Nat
ASSUME TransportKinds == Transports \subseteq {"Direct", "Relay"} /\ Transports # {}
ASSUME LateBoolean == LateRequests \in BOOLEAN
ASSUME Distinct == NoUpload \notin Uploads /\ NoPath \notin Paths
ASSUME UploadsFinite == IsFiniteSet(Uploads)
ASSUME DeletersNamed == Deleters \cap {"master", "nobody"} = {}

VARIABLES
  (* Master database *)
  transport,   \* the member's, fixed at pairing
  session,     \* upload_sessions.state; "gone" once fail_upload removed the row
  catalog,     \* global_media_objects.state
  path,        \* media_path
  (* Master processes *)
  mop,         \* the operation that holds the Master's lease on each upload
  reply,       \* the answer to its call, while it waits for one
  deleting,    \* what each deleter is removing
  (* Follower database and disk *)
  row,         \* upload_sessions.state of the Follower's own session
  indexed,     \* media_objects
  target,      \* the bytes at each final path
  part,        \* staged .part files
  durable,     \* uploads whose bytes and directory entries are synced
  fUsed, fReserved,
  (* Follower processes *)
  fop          \* the handler that holds the Follower's lease on each upload

masterDb == <<transport, session, catalog, path>>
masterOps == <<mop, reply, deleting>>
disk == <<target, part, durable>>
followerDb == <<row, indexed, fUsed, fReserved>>

-----------------------------------------------------------------------------
(* The bytes of a set of uploads, and the Follower's sessions in some states.  *)
Bytes(us) == Cardinality(UNION {{u} \X (1 .. Size[u]) : u \in us})
Rows(states) == {u \in Uploads : row[u] \in states}

Here(u) == target[path[u]]
AtPath(u) == path[u] # NoPath /\ Here(u) = u

(* An object the catalog serves is on the Follower's disk under its own path,  *)
(* synced, indexed and complete: finalize_upload only follows a proof, and no  *)
(* clean-up, retry, expiry sweep or crash takes the bytes away afterwards.     *)
PublishedStored ==
  \A u \in Uploads : catalog[u] = "active" =>
    AtPath(u) /\ u \in durable /\ u \in indexed /\ row[u] = "complete"

(* The Follower's own counters are what its rows add up to after every commit  *)
(* and stay within the allocation, and a staging file always has a live        *)
(* reservation whose clean-up will find it.                                    *)
FollowerSound ==
  /\ fReserved = Bytes(Rows({"reserved"}))
  /\ fUsed = Bytes(indexed)
  /\ fUsed + fReserved <= Allocated
  /\ part \subseteq Rows({"reserved"})

(* Bytes at a path are only ever replaced by nothing: no transfer, proof or    *)
(* clean-up of one upload touches the bytes of another.                        *)
NoOverwrite ==
  [][\A u \in Uploads : AtPath(u) /\ target'[path[u]] # u =>
       /\ target'[path[u]] = NoUpload
       /\ fop[u].step = "check" \/ u \notin durable]_target

(* The promise of StorageContract, kept across both nodes.                     *)
Stage(u) ==
  CASE session[u] = "new" -> "new"
    [] session[u] = "reserved" -> "reserved"
    [] session[u] = "gone" -> "released"
    [] catalog[u] = "active" -> "published"
    [] catalog[u] = "pending_delete" -> "deleting"
    [] OTHER -> "gone"

Contract == INSTANCE StorageContract WITH
  stage <- [u \in Uploads |-> Stage(u)],
  held <- {u \in Uploads : AtPath(u)}

ImplementsContract == Contract!Spec
=============================================================================
