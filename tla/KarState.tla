------------------------------- MODULE KarState -------------------------------
(***************************************************************************)
(* What the Master, a Follower and the Master's requests remember of the   *)
(* recordings of one account, and what must be true of it.  Karaoke says   *)
(* how it changes.                                                         *)
(***************************************************************************)
EXTENDS Naturals, FiniteSets

CONSTANT Recordings   \* the reservations that are ever asked for

ASSUME KarConstants == IsFiniteSet(Recordings) /\ "none" \notin Recordings

VARIABLES
    account,        \* karaoke_users: status and used_bytes
    row,            \* karaoke_recordings: state, sha256 set, created an hour ago
    books,          \* storage_members at the Master
    shelf,          \* storage_members at the Follower
    file,           \* the recordings published on the Follower's disk
    receiver,       \* the PUT that holds a recording's lease at the Follower
    token,          \* recordings whose upload capability has not expired
    request,        \* the Master's request handlers
    late,           \* deletions the Master gave up on and the Follower still serves
    withdrawn,      \* recordings that went from "deleting" back to "pending", or whose
                    \*   published file the Follower took back
    sanctions,
    failures

karvars == <<account, row, books, shelf, file, receiver, token, request, late, withdrawn,
             sanctions, failures>>

\* The recordings that the account and the member are charged with.
Charged == {r \in Recordings : row[r].state \in {"pending", "ready", "deleting"}}

InFlight == {r \in Recordings : receiver[r] \in {"write", "count", "undo"}}

-----------------------------------------------------------------------------
BooksExact ==
    /\ account.status # "gone" => account.used = Cardinality(Charged)
    /\ books.used = Cardinality({r \in Charged : row[r].final})
    /\ books.reserved = Cardinality({r \in Charged : ~row[r].final})
    /\ account.status = "gone" => Charged = {}

ReadyIsStored == \A r \in Recordings \ withdrawn : row[r].state = "ready" => r \in file

ShelfCovers == shelf.used + shelf.reserved >= Cardinality(file \cup InFlight)

\* However deletions, sweeps, uploads and confirmations overlap, fail and are repeated: the
\* Master's three counters are exact and a deleted account leaves no row, a ready recording has
\* its file unless the sweep once gave it back or the Follower took back a file it had just
\* published, and the Follower never counts less than it holds.
KarSound == BooksExact /\ ReadyIsStored /\ ShelfCovers

=============================================================================
