------------------------------ MODULE IpSecurity ------------------------------
(***************************************************************************)
(* services/ip_security.py: the policy for an address lives in the         *)
(* database; Redis holds a projection that every request asks, and Nginx a *)
(* snapshot of the bans (services/edge_security.py).  One process, many    *)
(* tasks.                                                                  *)
(*                                                                         *)
(*   1. A database write transaction holds the only writer lock (SQLite,   *)
(*      core/sqlite_compat.py) across its Redis call: Writing.             *)
(*   2. A Redis lock serialises the changes of one address, another one    *)
(*      the rebuilds.  A Redis that cannot be reached is worked around     *)
(*      without its lock; a lock left behind runs out.                     *)
(*   3. Two bans of one kind share their expiry: a ban lasts a day, a      *)
(*      projection is late by seconds.                                     *)
(***************************************************************************)
EXTENDS SecState

CONSTANTS
    MaxChanges,   \* bound: changes asked for
    MaxTroubles   \* bound: crashes, outages, flushes and failed snapshots

Tasks == Callers \cup {"loop", "lookup"}
Keys == Ips \cup {"cache"}
Ops == {"invalid", "unban", "manual", "permanent", "white", "unwhite"}

Blank == [ban |-> "none", white |-> FALSE, prior |-> FALSE, strikes |-> 0]
Resting == [at |-> "idle", key |-> "cache", op |-> "none", held |-> FALSE,
            copy |-> [i \in Ips |-> "none"], generation |-> 0]
Flushed == [up |-> TRUE, steady |-> TRUE, ready |-> FALSE, mark |-> [i \in Ips |-> FALSE],
            view |-> [i \in Ips |-> "none"]]

Known == [Blank EXCEPT !.prior = TRUE, !.strikes = Limit]

Init ==
    /\ policy \in [Ips -> {Blank, Known}]
    /\ due = [i \in Ips |-> FALSE]
    /\ issue = [generation |-> 0, published |-> 0]
    /\ redis = Flushed
    /\ guard = [k \in Keys |-> "none"]
    /\ edge = [i \in Ips |-> "none"]
    /\ doing = [t \in Tasks |-> Resting]
    /\ site = [running |-> FALSE, dirty |-> FALSE]
    /\ changes = 0
    /\ troubles = 0

Writing == \E t \in Tasks : doing[t].at \in {"write", "install"}

Goes(t, at) == doing' = [doing EXCEPT ![t].at = at]

-----------------------------------------------------------------------------
(* What the database says of an address, and what a request is told.       *)

Views == [i \in Ips |-> View(policy[i])]

\* The operation raises, and its transaction is rolled back.
Refuses(p, op) ==
    \/ op = "manual" /\ (p.white \/ p.ban # "none")
    \/ op = "permanent" /\ (p.white \/ p.ban = "permanent")

Struck(p) ==
    LET struck == [p EXCEPT !.strikes = IF @ <= Limit THEN @ + 1 ELSE @]
    IN IF struck.strikes > Limit /\ p.ban = "none"
       THEN [struck EXCEPT !.ban = IF p.prior THEN "permanent" ELSE "auto", !.prior = TRUE]
       ELSE struck

Outcome(p, op) ==
    CASE op = "invalid"   -> IF p.white THEN p ELSE Struck(p)
      [] op = "unban"     -> [p EXCEPT !.ban = "none"]
      [] op = "manual"    -> [p EXCEPT !.ban = "manual"]
      [] op = "permanent" -> [p EXCEPT !.ban = "permanent", !.prior = TRUE]
      [] op = "white"     -> [p EXCEPT !.white = TRUE, !.ban = "none"]
      [] op = "unwhite"   -> [p EXCEPT !.white = FALSE]

-----------------------------------------------------------------------------
(* _security_state_guard                                                   *)

\* The middleware only counts what it did not block.
Arrive(c, i, op) ==
    /\ doing[c].at = "idle" /\ site.running /\ changes < MaxChanges
    /\ op = "invalid" => Served(i) \in {"none", "white"}
    /\ doing' = [doing EXCEPT ![c] = [Resting EXCEPT !.at = "guard", !.key = i, !.op = op]]
    /\ changes' = changes + 1
    /\ UNCHANGED <<policy, due, issue, redis, guard, edge, site, troubles>>

First(op) ==
    CASE op = "project" -> "read" [] op = "hydrate" -> "load" [] op = "edge" -> "generation"
      [] OTHER -> "change"

\* _LOCAL_SECURITY_LOCK: one rebuild or publication at a time.
Alone(t) ==
    doing[t].key = "cache" =>
        \A o \in Tasks \ {t} : doing[o].key = "cache" => doing[o].at \in {"idle", "guard"}

\* The lock, and a mark on the address that is about to change.
Acquire(t) ==
    /\ doing[t].at = "guard" /\ Alone(t)
    /\ redis.up => guard[doing[t].key] = "none"
    /\ guard' = IF redis.up THEN [guard EXCEPT ![doing[t].key] = t] ELSE guard
    /\ redis' = IF redis.up /\ doing[t].op \in Ops THEN [redis EXCEPT !.mark[doing[t].key] = TRUE]
                ELSE redis
    /\ doing' = [doing EXCEPT ![t].at = First(doing[t].op), ![t].held = redis.up]
    /\ UNCHANGED <<policy, due, issue, edge, site, changes, troubles>>

\* After 30 seconds: the change is refused, the loop tries again later.
TimesOut(t) ==
    /\ doing[t].at = "guard" /\ redis.up /\ guard[doing[t].key] # "none"
    /\ doing' = [doing EXCEPT ![t] = Resting]
    /\ UNCHANGED <<policy, due, issue, redis, guard, edge, site, changes, troubles>>

\* A lock that cannot be released runs out; nobody releases another's.
Leaves(t) ==
    /\ guard' = [guard EXCEPT ![doing[t].key] =
                   IF @ # t THEN @ ELSE IF redis.up THEN "none" ELSE "dead"]
    /\ doing' = [doing EXCEPT ![t] = Resting]

-----------------------------------------------------------------------------
(* _run_state_transaction and _project_ip                                  *)

\* Mutant: the durable retry intent is not written.
ChangeUnflagged(t) ==
    LET i == doing[t].key
        new == Outcome(policy[i], doing[t].op)
    IN /\ doing[t].at = "change" /\ ~Writing
       /\ IF Refuses(policy[i], doing[t].op) THEN UNCHANGED <<policy, due, issue, site>>
          ELSE /\ policy' = [policy EXCEPT ![i] = new]
               /\ due' = due
               /\ issue' = [issue EXCEPT !.generation = @ + 1]
               /\ site' = [site EXCEPT !.dirty = TRUE]
       /\ doing' = [doing EXCEPT ![t].at = "read", ![t].op = "project"]
       /\ UNCHANGED <<redis, guard, edge, changes, troubles>>

\* The operation's own transaction; a strike alone is no change of policy.
Change(t) ==
    LET i == doing[t].key
        new == Outcome(policy[i], doing[t].op)
        news == doing[t].op # "invalid" \/ new.ban # policy[i].ban
    IN /\ doing[t].at = "change" /\ ~Writing
       /\ IF Refuses(policy[i], doing[t].op) THEN UNCHANGED <<policy, due, issue, site>>
          ELSE /\ policy' = [policy EXCEPT ![i] = new]
               /\ due' = [due EXCEPT ![i] = TRUE]
               /\ issue' = IF news THEN [issue EXCEPT !.generation = @ + 1] ELSE issue
               /\ site' = IF news THEN [site EXCEPT !.dirty = TRUE] ELSE site
       /\ doing' = [doing EXCEPT ![t].at = "read", ![t].op = "project"]
       /\ UNCHANGED <<redis, guard, edge, changes, troubles>>

Read(t) ==
    /\ doing[t].at = "read" /\ ~Writing
    /\ doing' = [doing EXCEPT ![t].at = "write", ![t].copy = Views]
    /\ UNCHANGED <<policy, due, issue, redis, guard, edge, site, changes, troubles>>

\* Redis answers, and the lock is still the one that was taken.
Reached(t) == redis.up /\ (doing[t].held => guard[doing[t].key] = t)

\* Only a projection that reached Redis takes the retry intent back.
Write(t) ==
    LET i == doing[t].key
    IN /\ doing[t].at = "write"
       /\ IF Reached(t)
          THEN /\ redis' = [redis EXCEPT !.view[i] = doing[t].copy[i], !.mark[i] = FALSE]
               /\ due' = [due EXCEPT ![i] = FALSE]
          ELSE UNCHANGED <<redis, due>>
       /\ Leaves(t)
       /\ UNCHANGED <<policy, issue, edge, site, changes, troubles>>

-----------------------------------------------------------------------------
(* _hydrate_ip_security_cache, at startup and by a request that finds the  *)
(* projection gone.                                                        *)

Lookup ==
    /\ doing["lookup"].at = "idle" /\ site.running /\ redis.up /\ ~redis.ready
    /\ doing' = [doing EXCEPT !["lookup"] = [Resting EXCEPT !.at = "guard", !.op = "hydrate"]]
    /\ UNCHANGED <<policy, due, issue, redis, guard, edge, site, changes, troubles>>

StartUp ==
    /\ doing["loop"].at = "idle" /\ ~site.running
    /\ doing' = [doing EXCEPT !["loop"] = [Resting EXCEPT !.at = "guard", !.op = "hydrate"]]
    /\ UNCHANGED <<policy, due, issue, redis, guard, edge, site, changes, troubles>>

Load(t) ==
    /\ doing[t].at = "load" /\ ~Writing
    /\ IF t = "lookup" /\ (~redis.up \/ redis.ready) THEN Leaves(t)
       ELSE /\ doing' = [doing EXCEPT ![t].at = "install", ![t].copy = Views]
            /\ guard' = guard
    /\ UNCHANGED <<policy, due, issue, redis, edge, site, changes, troubles>>

\* The startup goes on to the snapshot.
Install(t) ==
    /\ doing[t].at = "install"
    /\ redis' = IF Reached(t) THEN [redis EXCEPT !.view = doing[t].copy, !.ready = TRUE] ELSE redis
    /\ IF Reached(t) /\ t = "loop" THEN Goes(t, "generation") /\ guard' = guard ELSE Leaves(t)
    /\ UNCHANGED <<policy, due, issue, edge, site, changes, troubles>>

-----------------------------------------------------------------------------
(* retry_edge_projection, once a second.                                   *)

RetryEdge ==
    /\ doing["loop"].at = "idle" /\ site.running
    /\ site.dirty \/ issue.generation > issue.published
    /\ doing' = [doing EXCEPT !["loop"] = [Resting EXCEPT !.at = "guard", !.op = "edge"]]
    /\ UNCHANGED <<policy, due, issue, redis, guard, edge, site, changes, troubles>>

RetryIp(i) ==
    /\ doing["loop"].at = "idle" /\ site.running /\ due[i]
    /\ doing' = [doing EXCEPT !["loop"] =
                               [Resting EXCEPT !.at = "guard", !.key = i, !.op = "project"]]
    /\ UNCHANGED <<policy, due, issue, redis, guard, edge, site, changes, troubles>>

Generation ==
    /\ doing["loop"].at = "generation"
    /\ doing' = [doing EXCEPT !["loop"].at = "publish", !["loop"].generation = issue.generation]
    /\ site' = [site EXCEPT !.dirty = TRUE]
    /\ UNCHANGED <<policy, due, issue, redis, guard, edge, changes, troubles>>

Publish ==
    /\ doing["loop"].at = "publish"
    /\ edge' = [i \in Ips |-> EdgeView(policy[i])]
    /\ Goes("loop", "settle")
    /\ UNCHANGED <<policy, due, issue, redis, guard, site, changes, troubles>>

Troubled == troubles < MaxTroubles /\ troubles' = troubles + 1

PublishFails ==
    /\ doing["loop"].at = "publish" /\ Troubled
    /\ Leaves("loop")
    /\ UNCHANGED <<policy, due, issue, redis, edge, site, changes>>

\* Mutant: whatever is in the table by now counts as published.
SettleLatest ==
    /\ doing["loop"].at = "settle" /\ ~Writing
    /\ issue' = [issue EXCEPT !.published = issue.generation]
    /\ site' = [running |-> TRUE, dirty |-> FALSE]
    /\ Leaves("loop")
    /\ UNCHANGED <<policy, due, redis, edge, changes, troubles>>

\* Only what was there before the snapshot was read counts as published.
Settle ==
    /\ doing["loop"].at = "settle" /\ ~Writing
    /\ issue' = [issue EXCEPT !.published = doing["loop"].generation]
    /\ site' = [running |-> TRUE, dirty |-> FALSE]
    /\ Leaves("loop")
    /\ UNCHANGED <<policy, due, redis, edge, changes, troubles>>

-----------------------------------------------------------------------------
(* Time and trouble.                                                       *)

\* An expiry travels with every copy of a ban.
Over(kind, view) == IF view = kind THEN "none" ELSE view

Expire(i, kind) ==
    /\ policy[i].ban = kind
    /\ policy' = [policy EXCEPT ![i].ban = "none"]
    /\ redis' = [redis EXCEPT !.view[i] = Over(kind, @)]
    /\ edge' = [edge EXCEPT ![i] = Over(kind, @)]
    /\ doing' = [t \in Tasks |-> [doing[t] EXCEPT !.copy[i] = Over(kind, @)]]
    /\ UNCHANGED <<due, issue, guard, site, changes, troubles>>

\* The window moves on.
Forget(i) ==
    /\ policy[i].strikes > 0
    /\ policy' = [policy EXCEPT ![i].strikes = @ - 1]
    /\ UNCHANGED <<due, issue, redis, guard, edge, doing, site, changes, troubles>>

LockExpires(k) ==
    /\ guard[k] = "dead"
    /\ guard' = [guard EXCEPT ![k] = "none"]
    /\ UNCHANGED <<policy, due, issue, redis, edge, doing, site, changes, troubles>>

Outage ==
    /\ redis.up /\ Troubled
    /\ redis' = [redis EXCEPT !.up = FALSE, !.steady = FALSE]
    /\ UNCHANGED <<policy, due, issue, guard, edge, doing, site, changes>>

Recover ==
    /\ ~redis.up
    /\ redis' = [redis EXCEPT !.up = TRUE]
    /\ UNCHANGED <<policy, due, issue, guard, edge, doing, site, changes, troubles>>

\* "flushed or restarted without its cache"
Flush ==
    /\ Troubled
    /\ redis' = [Flushed EXCEPT !.up = redis.up, !.steady = FALSE]
    /\ guard' = [k \in Keys |-> "none"]
    /\ UNCHANGED <<policy, due, issue, edge, doing, site, changes>>

Crash ==
    /\ site.running /\ Troubled
    /\ doing' = [t \in Tasks |-> Resting]
    /\ site' = [running |-> FALSE, dirty |-> FALSE]
    /\ guard' = [k \in Keys |-> IF guard[k] = "none" THEN "none" ELSE "dead"]
    /\ UNCHANGED <<policy, due, issue, redis, edge, changes>>

-----------------------------------------------------------------------------
Works(t) ==
    \/ Acquire(t) \/ TimesOut(t) \/ Change(t)
    \/ Read(t) \/ Write(t) \/ Load(t) \/ Install(t)

Loops == StartUp \/ RetryEdge \/ Generation \/ Publish \/ Settle \/ Works("loop")

Next ==
    \/ \E c \in Callers, i \in Ips, op \in Ops : Arrive(c, i, op)
    \/ \E t \in Tasks \ {"loop"} : Works(t)
    \/ Loops \/ Lookup \/ PublishFails
    \/ \E i \in Ips : RetryIp(i) \/ Forget(i) \/ \E kind \in {"auto", "manual"} : Expire(i, kind)
    \/ \E k \in Keys : LockExpires(k)
    \/ Outage \/ Recover \/ Flush \/ Crash

Spec == Init /\ [][Next]_secvars

\* Tasks of one event loop run on, the loop ticks, leases run out and Redis
\* comes back.
Fairness ==
    /\ WF_secvars(Loops) /\ WF_secvars(Recover)
    /\ \A t \in Tasks : WF_secvars(Works(t))
    /\ \A i \in Ips : SF_secvars(RetryIp(i))
    /\ \A k \in Keys : WF_secvars(LockExpires(k))

FairSpec == Spec /\ Fairness

-----------------------------------------------------------------------------
(* Properties                                                              *)

\* Redis and Nginx end up with the policy.
SecSettles ==
    <>[](\A i \in Ips : Served(i) = View(policy[i]) /\ edge[i] = EdgeView(policy[i]))

=============================================================================
