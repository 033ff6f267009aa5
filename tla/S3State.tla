------------------------------- MODULE S3State -------------------------------
(***************************************************************************)
(* What an S3 member and its provider remember, and what must be true of   *)
(* it.  S3Storage says how it changes.                                     *)
(***************************************************************************)
EXTENDS Naturals, FiniteSets

CONSTANT Sessions   \* upload sessions; a session's object keeps its identity

VARIABLES
    member,      \* s3_storage_members: enabled, probe_state, used and reserved
    s3session,     \* s3_upload_sessions and the parts below it
    binding,     \* s3_object_bindings with its global_media row
    worker,      \* the step of the process that holds the identity's lease
    flights,     \* requests the provider has not executed yet
    store,       \* what the provider holds under the session's key
    keys,        \* whether the provider accepts the stored credentials
    s3faults     \* faults so far

s3vars == <<member, s3session, binding, worker, flights, store, keys, s3faults>>

Terminal == {"aborted", "published"}

Pending == {s \in Sessions : s3session[s].state \notin Terminal \cup {"none"}}

Owned == {s \in Sessions : binding[s].state \in {"active", "deleting"}}

-----------------------------------------------------------------------------
\* The member's books count every file that is or may still become the
\* provider's, until its absence is proved: a reservation from reserve to
\* publication or release, a use from publication to the finished deletion.
S3BooksExact ==
    member.used = Cardinality(Owned) /\ member.reserved = Cardinality(Pending)

\* What the catalog offers is at the provider, and capacity is given back only
\* when nothing of the session is left there nor can still arrive, whichever
\* answers were lost and however late a request is executed.
NothingStranded ==
    \A s \in Sessions :
        /\ binding[s].state = "active" => store[s].object
        /\ binding[s].state = "deleted" => ~store[s].object
        /\ s3session[s].state = "aborted" =>
             /\ store[s].upload \in {"none", "gone"} /\ ~store[s].object
             /\ "create" \notin flights[s]

\* The catalog, the books and the bucket of an S3 member agree.
S3Sound == S3BooksExact /\ NothingStranded

=============================================================================
