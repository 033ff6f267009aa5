------------------------------ MODULE QuotaState ------------------------------
(***************************************************************************)
(* What the Master's database says of the capacity of one Follower storage *)
(* member, and what must be true of it.  MemberQuota says how it changes.  *)
(***************************************************************************)
EXTENDS Integers, FiniteSets

CONSTANTS
    Claims,      \* uploads, and the files they become; each is drawn once (uuid4)
    NoClaim,     \* what an idle deleter works on
    Size,        \* expected_bytes of each
    Allocations  \* the allocations an administrator configures

ASSUME QuotaConstants ==
    /\ IsFiniteSet(Claims) /\ NoClaim \notin Claims
    /\ Size \in [Claims -> Nat] /\ Allocations \subseteq Nat

VARIABLES
    engine,      \* engine.dialect.name, fixed at start-up
    media,       \* upload_sessions.state and global_media.state of each identity
    allocated, used, reserved,   \* the member row
    removing,    \* the row each deleter has read and is removing
    beat,        \* what the open heartbeat transaction has read, <<>> if none
    twice        \* a history: the bytes of deletions that were settled once more

quotavars == <<engine, media, allocated, used, reserved, removing, beat, twice>>

\* A reserved session; a catalog row, active or pending_delete; and the two
\* ends, a failed session and a deleted object.
MediaStates == {"new", "reserved", "failed", "active", "pending_delete", "deleted"}

In(states) == {u \in Claims : media[u] \in states}

\* The bytes that files stand for, one by one, and how many they are.
BytesOf(us) == UNION {{u} \X (1..Size[u]) : u \in us}
Total(us) == Cardinality(BytesOf(us))

Placed == Total(In({"active", "pending_delete"}))
LiveReserved == Total(In({"reserved"}))

-----------------------------------------------------------------------------
\* The bytes the catalog and the live sessions stand for never exceed the
\* allocation, whatever the heartbeat writes back in the middle of a finalize,
\* a failure or a delete - except by what overlapping retries of one deletion
\* subtracted once more.
AllocationRespected == Placed + LiveReserved <= allocated + twice

\* The counters never promise space that is taken, up to the same bytes.
CountersCover == used + reserved + twice >= Placed + LiveReserved

\* Where the heartbeat is serial the counters are exact after every commit, so
\* a quiet member shows what it holds and nothing leaks: reservations always,
\* used_bytes as long as no deletion was settled once more, and never above
\* what is placed.
AccountsExact ==
    engine = "SQLite" =>
        reserved = LiveReserved /\ used <= Placed /\ Placed <= used + twice

\* The three together: no upload is admitted that does not fit, and no space
\* is promised twice or lost, for any other reason.
QuotaSound == AllocationRespected /\ CountersCover /\ AccountsExact
=============================================================================
