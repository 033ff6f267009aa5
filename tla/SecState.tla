------------------------------- MODULE SecState -------------------------------
(***************************************************************************)
(* What the database, Redis, Nginx and the tasks of the process hold about *)
(* every address, and what must be true of it.  IpSecurity says how it     *)
(* changes.                                                                *)
(***************************************************************************)
EXTENDS Naturals

CONSTANTS
    Ips,       \* addresses
    Callers,   \* requests that change a policy
    Limit      \* SECURITY_INVALID_API_LIMIT

\* A lock has a holder of its own, and the rebuilds a lock of their own.
ASSUME SecConstants ==
    /\ Callers \cap {"none", "dead", "loop", "lookup"} = {} /\ "cache" \notin Ips
    /\ Limit \in Nat

VARIABLES
    policy,       \* the database: ban, whitelist, earlier bans, recent strikes
    due,          \* ip_security_locks.projection_dirty
    issue,        \* ip_security_projection: generation and published_generation
    redis,        \* up, never in trouble yet (steady), CACHE_READY_KEY, the dirty
                  \*   marks, the projection
    guard,        \* who holds the Redis lock of an address, or of "cache"
    edge,         \* the snapshot's ban of each address
    doing,        \* what each task is doing
    site,         \* the process: running or not, _edge_projection_dirty
    changes,
    troubles

secvars == <<policy, due, issue, redis, guard, edge, doing, site, changes, troubles>>

-----------------------------------------------------------------------------
(* What the database says of an address, and what a request is told.       *)

View(p) == IF p.white THEN "white" ELSE p.ban

EdgeView(p) == IF p.white THEN "none" ELSE p.ban

\* get_ip_block
Served(i) ==
    IF redis.up /\ redis.ready /\ ~redis.mark[i] THEN redis.view[i] ELSE View(policy[i])

-----------------------------------------------------------------------------
\* A projection that lags is known to lag: by its mark in Redis, or by the row
\* the loop looks for.
LagIsKnown ==
    \A i \in Ips : redis.ready /\ ~redis.mark[i] /\ redis.view[i] # View(policy[i]) => due[i]

\* A snapshot that lags is published again.
EdgeLagIsKnown ==
    (\E i \in Ips : edge[i] # EdgeView(policy[i])) =>
        issue.generation > issue.published \/ site.dirty \/ ~site.running

\* While Redis keeps working, no request is judged by a superseded policy,
\* whatever the tasks are at and wherever the process died.
ServedIsCurrent == redis.steady => \A i \in Ips : Served(i) = View(policy[i])

SecSound == LagIsKnown /\ EdgeLagIsKnown /\ ServedIsCurrent

=============================================================================
