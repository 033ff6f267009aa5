------------------------------ MODULE Handover ------------------------------
(***************************************************************************)
(* What a resource migration promises about the bytes it moves, with no    *)
(* runner, no message and no proof in sight.  A task moves a set of units  *)
(* (immediate parents with all their files) from a Source member to a      *)
(* Target member.  The Master's catalogue names the member that serves a   *)
(* unit; each member either has the complete unit in place or has not.     *)
(* A cancelled task abandons the units it did not move.                    *)
(***************************************************************************)
CONSTANT Units

VARIABLES
  owner,      \* Units -> the member the Master's catalogue points at
  original,   \* Units -> is the Source's original in place?
  copy,       \* Units -> is the Target's complete copy published?
  closed      \* the units the task gave up

handoverVars == <<owner, original, copy, closed>>

Init ==
  /\ owner = [u \in Units |-> "source"]
  /\ original = [u \in Units |-> TRUE]
  /\ copy = [u \in Units |-> FALSE]
  /\ closed = {}

Open(u) == owner[u] = "source" /\ u \notin closed

(* The Target publishes a complete copy of a unit the Source still owns,   *)
(* or takes an unused one back.                                            *)
Publish(u) ==
  /\ Open(u)
  /\ copy' = [copy EXCEPT ![u] = ~@]
  /\ UNCHANGED <<owner, original, closed>>

(* Ownership moves once, between two complete copies. *)
Switch(u) ==
  /\ Open(u) /\ original[u] /\ copy[u]
  /\ owner' = [owner EXCEPT ![u] = "target"]
  /\ UNCHANGED <<original, copy, closed>>

(* A unit is given up with its original in place and no copy of it left. *)
Abandon(S) ==
  /\ \A u \in S : Open(u) /\ original[u] /\ ~copy[u]
  /\ closed' = closed \cup S
  /\ UNCHANGED <<owner, original, copy>>

(* No original is erased before every unit of the task has moved or been   *)
(* given up, and an abandoned one never is.                                *)
Erase(u) ==
  /\ original[u] /\ owner[u] = "target"
  /\ \A v \in Units : v \in closed \/ (owner[v] = "target" /\ copy[v])
  /\ original' = [original EXCEPT ![u] = FALSE]
  /\ UNCHANGED <<owner, copy, closed>>

Next ==
  \/ \E u \in Units : Publish(u) \/ Switch(u) \/ Erase(u)
  \/ \E S \in SUBSET Units : Abandon(S)

Spec == Init /\ [][Next]_handoverVars
=============================================================================
