-------------------------- MODULE StorageContract ---------------------------
(* What the storage pool promises about one uploaded object: it is published   *)
(* only while the Follower holds its bytes, the bytes stay as long as it is    *)
(* published, and once it is released or gone they never come back.            *)
CONSTANT Uploads

VARIABLES
  stage,     \* what the Master's catalog says of each upload
  held       \* the uploads whose bytes are at their final path

vars == <<stage, held>>

Init == stage = [u \in Uploads |-> "new"] /\ held = {}

Moves(u, from, to) ==
  /\ stage[u] = from
  /\ stage' = [stage EXCEPT ![u] = to]
  /\ UNCHANGED held

Reserve(u) == Moves(u, "new", "reserved")
Publish(u) == u \in held /\ Moves(u, "reserved", "published")
Release(u) == u \notin held /\ Moves(u, "reserved", "released")
Delete(u)  == Moves(u, "published", "deleting")
Forget(u)  == u \notin held /\ Moves(u, "deleting", "gone")

(* The bytes come only to a live reservation.  They go one object at a time,   *)
(* except that a Follower crash may take several that were not yet durable.    *)
Arrive(u) ==
  /\ stage[u] = "reserved"
  /\ held' = held \cup {u}
  /\ UNCHANGED stage

Vanish(us) ==
  /\ us \subseteq {u \in held : stage[u] \in {"reserved", "deleting"}}
  /\ held' = held \ us
  /\ UNCHANGED stage

Next ==
  \/ \E u \in Uploads : \/ Reserve(u) \/ Publish(u) \/ Release(u)
                        \/ Delete(u) \/ Forget(u) \/ Arrive(u)
  \/ \E us \in SUBSET Uploads : Vanish(us)

Spec == Init /\ [][Next]_vars
=============================================================================
