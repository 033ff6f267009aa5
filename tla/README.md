# FrontierCloud: models, checks and proofs

FrontierCloud (`src/`) is a Python media service: one *Master* node owns the
catalog and the administration, *Follower* nodes and optional S3 buckets lend
storage, and browsers upload, play and delete media.  This directory holds TLA+
modules translated from that code, the TLC configurations that check them, and
theorems checked by TLAPS.  `PROJECT.json` maps every definition to the lines it
stands for and lists the hazards the properties are about.

## 1. The system

| Component | State | Operations | Hard behaviour |
|---|---|---|---|
| Media fence (`app/core/async_lock.py`) | `readers`, `writer`, `waiting_writers` of each event loop | enter exclusively, enter shared, leave | cancellation while waiting and while leaving, wakeups, precedence |
| Storage pool (`services/resource_pool.py`, `api/v1/admin_cluster_integrity.py`, `admin_delete_integrity.py`) | upload sessions, global catalog, member counters | reserve, relay, finalize, cancel, expire, mark for deletion, retry | two databases, lost answers, retries, stale reads |
| Follower storage (`api/internal_storage_integrity.py`, `services/upload_claims.py`) | its own sessions, index, files, counters, kernel leases | PUT, stat, reconcile, delete, expiry sweep | crashes between rename, sync and commit; late requests; token reuse |
| MasterLocal publication (`admin_cluster_integrity._receive_master_local`, `services/media_publication_recovery.py`) | staged file, journal, published file, rows | publish, undo, recover at start-up | process death at every step, unknown commit, pending journals |
| S3 members (`services/s3_*`) | sessions, object bindings, the bucket | configure, reserve, grant parts, complete, abort, recover, delete | a provider that forgets answers and executes late |
| Federation and retirement (`services/federation/*`, `services/node_retirement_*`) | identity, relationships, packages, retirement journals | pair, confirm, heartbeat, revoke, change mode, reset, retire | the two nodes' rows change in different transactions, answers are lost |
| Migration admission (`services/resource_migration_admission.py`, `_planning`, `resource_peer_reservations.py`) | preview, task, the members' reservations | observe, create, reserve, recheck, queue, cancel | ordinary uploads meanwhile, crashes of the runner, late calls |
| Resource migration (`services/resource_*`, about sixty modules) | task, unit and runner rows on the Master; reservation, unit and journal rows and files on the Source and the Target | copy, publish, verify, cut over, acknowledge, clean up, finalize; pause, resume, retry, cancel | three databases, runner leases and epochs, late and repeated calls, proofs that expire, crashes between a file operation and its row |
| Offline upgrade (`scripts/operator_*`, `services/offline_upgrade.py`) | journal, receipt, containers, fence, snapshot, payload directories | upgrade, resume, abort, recover | commands that die at every step and are followed by another |
| IP security (`services/ip_security.py`, `edge_security.py`) | policy rows, Redis projection, Nginx snapshot | strike, ban, unban, whitelist, project, rebuild | a cache that fails or lags, two loops, process death |
| Karaoke (`api/v1/karaoke_users.py`, `services/karaoke_*`) | accounts, recordings, counters on both nodes | reserve, relay, confirm, cancel, sweep, delete, delete account | handlers that overlap, busy or unreachable Followers |
| Directories (`services/media_directories.py`, `media_directory_rename_integrity.py`, `api/v1/admin_directories.py`) | directories on every member, rows on the Master and the Followers, folder order and labels | rename across members, reorder | rollback on several nodes without a journal, uploads that end meanwhile |
| Business backup (`services/business_lifecycle.py`, `resource_pool.backup_*`) | generations | begin, append, commit, abort | interrupted transfers |
| Lyrics, priority order, catalog cache, playback | rows, caches | edits, cache fills | stale fills, ordering |
| Certificates, traffic observer, nginx, front end | files, configuration | I/O | outside this project |

The components meet in three places.  The *fence* orders work on the Master's
paths inside one process.  The *database rows* outlive the process and order
everything else.  The *kernel lease* of an upload (`upload_claims.claim`, an
`flock` on a file named after the upload) admits one worker per upload on each
node and vanishes with the process, so it is the only thing that distinguishes a
live transfer from an abandoned one.

What makes each component correct, in a line: the fence excludes and never
sticks; a member's counters cover what it holds and never exceed its allocation;
a published object is stored and stays stored; what was released or deleted is
gone for good; what was begun is eventually finished.  A migration moves
ownership of a unit only between two complete copies and erases nothing before
the whole task has moved; a cancelled one leaves nothing behind.  Two paired
nodes agree about their relationship, and a retired one is empty.  An upgrade
loses no write whatever package answers in the end.  A security projection that
lags is known to lag.  A deleted account leaves no row.

## 2. Modules

| Module | What it is |
|---|---|
| `SharedExclusive` | what a reader/writer fence promises |
| `MediaFence` | `LoopLocalAsyncRWLock`, one action per stretch between two awaits; implements `SharedExclusive` |
| `MemberQuota` | the Master's counters of one Follower member, one action per transaction |
| `StorageContract` | what the storage pool promises about one object |
| `UploadState` | the variables of an upload to a Follower and what is said of them |
| `StorageUpload` | Master, Follower, the requests between them, and the browser's PUT; implements `StorageContract` |
| `StorageUpload_proof` | TLAPS proofs about `StorageUpload` |
| `LocalPublication` | publication, clean-up, deletion and recovery on the Master's own disk; implements `StorageContract` |
| `LocalState`, `LocalPublication_proof` | its variables and what they promise, by themselves; TLAPS proofs |
| `DirectoryRename` | the rename of a folder whose files lie on several members |
| `QuotaState`, `KarState`, `RenState` | the variables of `MemberQuota`, `Karaoke` and `DirectoryRename` and what must be true of them, by themselves |
| `StorageServices_proof` | TLAPS proofs about `MediaFence`, `MemberQuota`, `Karaoke` and `DirectoryRename` |
| `S3Storage` | an S3 member, its sessions and objects, and the provider |
| `S3State`, `S3Storage_proof` | its variables and what they promise, by themselves; TLAPS proofs |
| `Karaoke` | the recordings of one account at one Follower |
| `Handover` | what a migration promises about the bytes it moves |
| `MigrationPeers` | the Source and the Target of a migration, their handlers and the requests on their way |
| `Migration` | the Master's journal, scheduler, cutover and controls; extends `MigrationPeers` |
| `CancelPeers` | what a cancellation asks of the two members; extends `Migration` |
| `MigrationCancel` | the Master's side of a cancellation; the whole implements `Handover` |
| `MigrationPeers_proof` | the inductive invariant of a migration, and TLAPS proofs that the members' steps keep it |
| `Migration_proof` | TLAPS proofs of the Master's steps and of the theorems |
| `MigrationAdmission` | from a preview to a queued task, with the uploads that race it |
| `Federation` | one Master and one Follower from pairing to retirement |
| `Federation_proof` | TLAPS proofs about `Federation` |
| `OperatorUpgrade` | upgrade, abort and recovery of one deployment |
| `IpSecurity` | policy, Redis projection and edge snapshot |
| `AdmState`, `OpState`, `SecState` | the variables of `MigrationAdmission`, `OperatorUpgrade` and `IpSecurity`, by themselves |
| `ControlServices_proof` | TLAPS proofs about these three |
| `MCStorageServices`, `MCControlServices`, `MCMemberStorage` | suites: several modules, each on a small instance |
| other `MC...` | the small instances of the runs that end in a violation |

**MediaFence.**  `pc[t]` says where task `t` is in `__aenter__`, `shared()` or
`_finish_release`.  The condition's own lock is never held across an await
except inside `wait()`, so a step is the code from one await to the next.
`notify_all()` fills `woken`; every woken task evaluates its predicate in a step
of its own (`WakeWrite`, `WakeRead`, `SleepAgain`).  `CancelWrite` runs the
`finally` block; `CancelLeave` is a cancellation absorbed by the shield.

**MemberQuota.**  An action is a committed transaction.  On MySQL the heartbeat
locks the identity row only and reads the member row from its snapshot, so it is
two steps (`HeartbeatRead`, `HeartbeatWrite`); reservation, configuration and
`mark_pending_delete` take the identity row and wait for it, `finalize_upload`,
`fail_upload` and the deletion's settlement do not.  On SQLite every write
transaction takes the writer lock first (`HeartbeatSerial`).  A deletion is read
in one transaction and settled in another (`ReadPending`, `SettleDelete`), by a
request or by the background loop, so one may be settled twice; `twice` is a
history variable that adds up the bytes of such settlements.

**StorageUpload.**  The lease makes an operation a phase of its upload: `mop[u]`
on the Master, `fop[u]` on the Follower.  A call puts a request in `net`; its
handler answers in `reply` or `deleting`.  The Follower's handlers are split at
every await that lets another handler change what they read: `Look` reads the
row and the owner, `Clear` examines and removes files without an await,
`ClearCommit` writes the rows.  `PutRename`, `PutSync`, `PutComplete` and
`PutDone` are the tail of `storage_upload`; `PutFails` is its `except` branch.
`FollowerCrash` may undo any rename whose directory entry was not synced.
`CallTimesOut` and `MasterCrash` turn the requests under way into nobody's:
with `LateRequests = FALSE` a request that has not been received yet is lost,
while a handler that runs goes on unheard; with `LateRequests = TRUE` it may
still be received.

**LocalPublication.**  `op[u]` is the phase of the operation that holds the
lease of `u`; `fence` the publication that is inside the fence.  `CreateJournal`
and `WriteJournal` are the two halves of `publication.create`.  `CommitUnknown`
is `PublicationCommitUnknown`; `required` stands for `_RECOVERY_REQUIRED_ROOTS`.
`Crash` stops the process at any step; while `up` is false only `Recovery` and
`Boot` act, in the order of `recover_master_local`.

**DirectoryRename.**  A file has a row at the Master (`entry`), one at its
Follower (`native`) and a directory that holds it (`disk`, `dirs`).  `rename` is
the Master's handler: `ReadOwners` and `Preflight` are the two connections of
`_preflight_master`, then the members are moved in the order of the loop
(`MoveLocal`, `RemoteRename`), `Commit` rewrites the catalog, and phase `"undo"`
moves them back in reverse.  What takes the Master's fence (`Reserve`,
`MarkPendingDelete`, `ReceiveMasterLocal`) waits for `Idle`; what does not
(`FinalizeUpload`, `CleanupUpload`, `RetryPendingMedia`, `StorageUpload`) may
happen between any two steps.  `serving[m]` is the Follower between its move and
its commit.  An abandoned request stays in `requests` and may be executed later.
`astray` names the members a rename gave up on or never knew of.

**S3Storage.**  `worker[s]` is the step of the process that holds the lease of
session `s`; `flights[s]` the requests the provider has not executed yet.  A
worker that gives up on an answer (`Lost`) goes on as the code's `except` clause
says, while its request stays in flight; `Served` executes it, now or later.
`session` and `binding` are the rows, `store` the bucket.  `AbortHead`,
`AbortDeleted`, `AbortParts`, `AbortAbsent` and `AbortRelease` are
`_abort_remote_checked` request by request; `Recoverable` is what
`s3_recovery.py` selects.

**Karaoke.**  Each request handler is a sequence of steps, one per transaction
or call, and `request[h]` is where it is.  `Stage`, `Disown`, `Survey`, `Take`,
`Settle` and `Finish` are `karaoke_delete_integrity.py`; `Sweep`, `Wipe`,
`Clear` and `Restore` the sweep of stale reservations in front of a new one;
`Put`, `Publish`, `Count` and `Undo` the Follower's receiver.  `late` holds
deletions the Master gave up on that the Follower still serves.  `Asks` says
what a request may ask for, so that an instance can be kept small.

**MigrationPeers, Migration.**  A tick of the scheduler sends at most one call
(`job`, `net`) and takes the next step when it is answered, so the Master is
sequential; everything that can go wrong lies between the call and the answer.
`Fenced` is `Journal._fenced` (runner, epoch, revision, state): an answer that
arrives after the lease was lost is discarded by `Answered`.  A member binds
the grant (`Bind`), works under its lock (`work`), and compares the grant again
at each step (`Alive`).  `MoveDirectory`/`SaveMove` and
`UnlinkIntent`/`Unlink`/`RecordUnlink` are the steps between which a crash
leaves files and rows apart.  `error_code` is modelled by the outcomes that
matter: `"wait"` (in `TRANSIENT`, retried), and four that stop the task:
`"writer_active"` (an acknowledgement that meets a running handler),
`"proof_stale"` (at the cutover), `"proof_expired"` (at the Source), and
`"refused"` for every answer that means the protocol itself went wrong; the run
shows that the last one never happens.  A unit holds one object, so the pages of
a copy, of an enumeration or of a census are one step, and a receipt is the
number of verifications made so far (the code's digest covers the time it was
made at).  Sizes are counted in units.

**CancelPeers, MigrationCancel.**  A task none of whose units was published
takes the short way (`cancel.path = "prepublication"`): both members stop,
remove their private copies and abort.  Any other is taken back unit by unit
(`"publication"`): the Target undoes its copy under a live proof that the Source
still has the original, the Source certifies it, both settle, and the members
are released in order.  `MovedTick`, `CatalogTick` and `ReleaseTick` are the
ticks of `cancelling`; `halted`, `scan` and `closing` what the members remember.

**MigrationAdmission.**  A parent directory is the version of its one file at
each member: `catalog` as the Master knows it, `native` as the member holds it.
`Survey` and `Observe` build the preview without any authority; `Create`,
`Install`, the calls `BeginRow`, `UnitRow`, `SealRow` and the second look
(`Recheck`, `Finds`) make it a prepared task; `Queue` hands it to `Migration`.
`OpenUpload`, `Receive`, `Place` and `FinalizeUpload` are the ordinary upload
that must either be seen or be kept out.  A call that is not answered leaves a code
in `error`: `"transient"` (in `TRANSIENT`, retried by the scheduler) when nothing
came back, `"refused"` when an HTTP error or an answer that does not verify did;
the second stops the task until an administrator retries it (`Retry`).

**Federation.**  Two workers of the Master, the control loop and an
administrator's request, wait for one answer each; `wire` holds the requests,
those given up on included.  `Accepted` and `After` are the Follower's handlers,
`mrow` and `frow` the two rows.  `Apply`, `BeginMaster`, `Advance` and
`FinishMaster` are the retirement; `stock` is the one file the Master places at
the Follower in the meantime, with its upload and its capability.

**OperatorUpgrade.**  Every host command is a sequence of steps, each of which
changes the host or saves the journal, and may be the last one its process
makes (`Ends`).  The next command (`Starts`) continues from the journal alone.
`Preflight` looks for unfinished business transactions once per command, before
the fence is selected and linked; the application serves until then, so one may
begin in between (`BusinessBegins`, `busy`).
`Forward` is the upgrade, `Recovery` the abort and the restoration.  A business
write is a number; `live` and `snap` say how many each control root and the
snapshot hold.

**IpSecurity.**  A database write transaction holds the only writer lock
(`Writing`); `doing[t]` is the step of a request, of the retry loop or of the
lookup.  `redis.view` is the projection, `redis.mark` the dirty marks,
`redis.ready` the ready key; `Served` is what a request would be told.

The modules share few names, and services that do not share state are checked
together: a **suite** picks one service (`service`), runs its specification and
lets the variables of the others rest in one initial state.  Each liveness
property of a suite reads `service = ... /\ fairness => property`, with the
component's own fairness asked of its own behaviours; this keeps TLC from
evaluating the fairness of services at rest, and every component's `Fairness` is
stated in its module as well.  `MCStorageServices` extends `MediaFence`,
`QuotaState`, `S3State`, `LocalState`, `KarState` and `RenState`,
`MCControlServices` extends `Federation`, `AdmState`, `OpState` and `SecState`, and
`MCMemberStorage` extends `MigrationCancel` and `UploadState`:
the invariants a suite checks of these services are the definitions the theorems of
section 5 are about.

## 3. Runs

| Run | Instance | Shows |
|---|---|---|
| `StorageServices` | fence: 4 tasks; quota: 3 uploads of sizes 1, 1, 2, allocations 2 and 3, both databases, 2 deleters; uploads: 1 upload, 2 deleters, 2 faults; publication: 2 uploads of one path, fenced deleters or the loop, 3 faults; s3: 1 session, 2 faults; karaoke: 1 recording, 1 request and a visitor, 1 ban, 1 failure; duet: 1 recording, a storing and a removing request at once; rename: 3 members, 1 rename, 1 fault; renames: 2 members, 2 renames, 2 faults | exclusion, exact counters, no lost wakeup, precedence, waiters get in, `SharedExclusive`; quota, up to what overlapping deletions settle twice; reservations resolve and deletions converge; the Master's disk keeps `StorageContract`, its bytes are journaled, recovery decides and terminates; the S3 books are exact, nothing is stranded, capacity comes back; the books of recordings are exact and account deletions end; every member of a renamed folder bears its name, whichever step fails |
| `ControlServices` | federation: 2 packages, 1 mode change, 1 lost answer; upgrade: 2 payloads, 2 writes; admission: 2 units, 1 upload, 1 mishap; security: 1 address, 1 caller and the two loops, 2 changes, 1 trouble | both sides of a relationship agree and a retired member is empty; no write is lost and generations do not mix; what "prepared" promises is true and a cancelled task holds nothing; a lagging projection is known to lag; each of the four settles, and a cancelled admission that is retried is cancelled |
| `MemberStorage` | uploads: 2 uploads of sizes 1 and 2, 1 path, allocation 2, 2 deleters, 1 fault, direct and relayed; migration: 2 units, 2 faults, cancellation in any phase | uploads: published is stored, exact Follower counters and reserved staging files, no overwriting, `StorageContract`; migration: every cutover can be acknowledged, no refusals, books agree, units come back in order, fences go last, a stopped task stands still, a cancelled one leaves nothing, settling, `Handover` |

Nine runs end in a violation, each against a sentence of the documentation or
of the code (`PROJECT.json`, findings):

* `StorageUpload_late`: the Follower executes a reconciliation whose caller
  timed out, after an expiry sweep published the object.
* `LocalPublication_unfenced`: the background deletion loop does not take the
  fence; its unlink can hit a file uploaded to the path in the meantime.
* `LocalPublication_torn`: an empty journal left by a process death stops every
  later start-up.
* `S3Storage_lost_abort`: after a recorded completion, an abort whose answer was
  lost cannot be told from a completion under way; the reservation stays.
* `Federation_lost_pair`: a pairing that never reached the Follower leaves a
  revocation nobody can acknowledge, and later packages are refused.
* `OperatorUpgrade_lost_receipt`: a command that dies between publishing the
  receipt and saving its hash leaves a recovery that is refused for ever.
* `OperatorUpgrade_late_work`: a business transaction begun after the live
  preflight and left unfinished behind the fence is in the backup, and the
  preflight of every restored copy refuses it.
* `Karaoke_stuck_account`: the sweep gives a recording back to an account that
  is being deleted, and nothing finishes the deletion.
* `DirectoryRename_unfenced`: an upload published between the two reads of a
  rename's preflight leaves its member's directory behind, without any fault.

`OperatorUpgrade_late_work` asks more of the people than the fairness below
(`RecoverSpec`): every command ends, and the administrator calls `recover` again
and again rather than insist on an upgrade that is refused.

**Bounds.**  Two uploads of one path are the smallest case in which one object's
clean-up can hit another's bytes, and deleters two are the smallest case of a
retry that overlaps its predecessor.  `MaxFaults` bounds crashes, lost replies
and failing steps together; two (three on the Master) allow a failure, a failure
of the recovery from it, and one more.  Two uploads at a Follower get one: the
single upload of `StorageServices` goes through every pair of faults, and what
`MemberStorage` checks of the two is proved for any number of faults (section 5).  Four tasks are two readers, a queued
writer and a late arrival.  In `MemberQuota` three uploads fill the smaller
allocation and overflow it if any counter is short by one, and two deleters are a
request and the loop.  S3 sessions share
only the member's counters and the path, so one session shows every order of its
own requests; two faults are a lost answer and a failure of what recovers from
it.  A recording's handlers meet at one row: one request with the sweep, a ban
and a failure, and two requests without, cover each pair.  A rename needs two
Followers so that the trouble of one can reach another, and a second rename to
meet the directories and late requests the first one left.

In `Federation` a second package is a second pairing after a failed or reset
one.  `OperatorUpgrade` needs two payloads so that one has moved and one has
not, and two writes so that a snapshot, a restored copy and the original differ;
the deaths of commands are not bounded.  In `MigrationAdmission` two units are
one reserved and one not, with one upload to race them.  `IpSecurity` keeps
policies per address and serialises per address; two changes are a ban and what
undoes it.

In `Migration` two units are the smallest task with an order: one unit moves
while the other is still copied, and cleaning must wait for both.  Its
`MaxFaults` bounds crashes of any node, lost requests, early timeouts, lost
leases, expiring proofs, interrupted handlers, rising traffic, manual pauses,
cancellations and retries together.  Two of them reach every pair (an early
timeout and the late request it leaves behind, a crash and a lost answer after
it).  A retry that overtakes an abandoned call costs a fault, because
`RETRY_SECONDS` is 10 and a call's window 45 seconds.

**Deadlock.**  Every run says `CHECK_DEADLOCK FALSE`: a suite contains services that draw each identity
once and really stop when all are used, a retired member or a finished upgrade
stops, and so does a completed or cancelled task.  That nothing stops too early
is what the liveness properties are for; for the fence it is `NoLostWakeup` and
`WaitersGetIn`.

**Fairness.**

* `MediaFence`: the event loop runs what is runnable, and a body that entered
  leaves (transfers and remote calls have deadlines).
* `StorageUpload`, `LocalPublication`: an operation under way goes on; the
  expiry sweep (`upload_cleanup.run_stale_upload_cleanup`) and the deletion loop
  (`federation/runtime.run`) are periodic; start-up recovery runs at every
  start, and an operator restarts a service that asks for it.  Nothing obliges a
  browser to transfer, to finalize or to cancel, and nothing obliges a failure.
  The liveness formulas also assume that clients do not ask for the same upload
  for ever: the lease is polled, so an endless client could win every time.
* `S3Storage`: the recovery worker repeats every minute, grants and sessions run
  out, and the provider executes what it accepted.
* `Karaoke`: handlers go on, an upload that stalls is cut off, and somebody asks
  for the status page, which drives the recovery of deletions.
* `Migration`, `MigrationCancel`: the scheduler's loop (`Scheduler.run`) ticks at least once a
  second and its calls end or time out, so the Master's steps go on; so do the
  members' handlers; and traffic that rose falls again.  Steps that spend a
  fault and steps of an administrator are under no obligation, which is why
  `MigrationSettles` also accepts a task that failed or was paused by hand.
* `MigrationAdmission`: the scheduler ticks and leases run out.  Only
  the second half of `AdmSettles` asks more, that the administrator retries a task
  that stopped with an error (`AdministratorRetries`).
* `Federation`: the control loop repeats and its requests arrive, and
  `PAIR_SECONDS` pass.  An administrator's worker is under no obligation.
* `OperatorUpgrade`: somebody repeats the command, and a command does not die
  for ever at the same step (strong fairness of the steps it is meant to make,
  of a preflight that finds nothing unfinished too);
  an administrator lifts the maintenance marker set by hand, and a business
  transaction that began finishes while its package runs.
* `IpSecurity`: the tasks of one event loop run on, the loop ticks, Redis locks
  run out and Redis comes back.  The per-address retry is strongly fair, because
  a change of the address may take the lock in between.

**What the properties accept.**  `S3Settles` accepts revoked credentials and the
case of `S3Storage_lost_abort`; `PairingSettles` a Follower that does not know the
relationship, or has it active; `OpSettles` the cases of
`OperatorUpgrade_lost_receipt` (`LostReceipt`) and of `OperatorUpgrade_late_work`
(`LateWork`); `AdmSettles` an error the code does not retry (`AsksForHelp`), while
its second half says what the retry of a cancellation comes to; `QuotaSound` what
deletions settled twice subtracted once more (`twice`); `MigrationSettles` a
migration that failed or was paused by hand; `KarSettles` a ban or an unban, which
overwrites the status, and the case of `Karaoke_stuck_account`.  `RenameSound` excepts the members in `astray`:
those whose answer was lost, that died in the middle, that could not be moved
back, that moved before a commit of unknown outcome or before the Master died,
or that the preflight did not see.  Each exception is a named part of the formula.

## 4. Observations

Behaviour met while modelling that no finding covers:

* On MySQL a heartbeat may write back a stale `reserved_bytes` over a concurrent
  finalize or failure (`resource_pool.py:161`): the counter stays too high.
  `QuotaSound` asks exactness of SQLite only.
* Two overlapping settlements of one deletion, a request and the background loop,
  both subtract its size (`admin_delete_integrity.py:89`): until the next heartbeat
  the Master may admit an upload into space that is taken, which a Follower's own
  counters may still refuse.  `QuotaSound` is checked and proved with overlapping
  deleters and bounds the excess by what was settled more than once.  The heartbeat
  takes the larger of the counter and the catalog's sum; the Master's own member has
  no heartbeat.
* A member whose answer to a rename was lost is not asked to move back, and no
  journal remembers it.  Once a member's directory differs from the catalog, the
  Follower refuses to delete its files (its session has another path), they stay
  `pending_delete`, and this refuses every later rename of the folder.
* A mode change between a retirement's check and its begin leaves the Follower
  with the old mode until a heartbeat, which a retiring relationship no longer
  sends; the `status` call is then refused until an administrator intervenes.
  A reset Follower leaves the Master with an active relationship to nobody.
* An admission refused for a reason that is not transient keeps its fences in
  `admitting` until an administrator cancels it, and a cancellation that meets an
  HTTP error keeps them in `admission_aborting` until he retries it.  A Follower
  reset in the middle makes that cancellation unanswerable; a member that was
  reset or bound anew is not modelled here.
* An administrator's own marker set after the fence was linked must be lifted
  before the upgrade goes on.
* Readers that come back under a Target's undo are answered
  `migration_cancel_reader_changed` (`resource_cancel_target.py:332`, `414`), which is
  not in `TRANSIENT`: the cancellation stops until a person retries it.  In the
  model such an answer is that of a proof that expired in the same place
  (`ProofRunsOut`).
* `upload_session_bytes` does not ask whether the session is a relayed one: the
  bytes of a Direct session may be sent through the Master (`StartRelay`).
* The dirty mark of an address in Redis survives a process that died before its
  commit, until the next change of the address; and an edge snapshot that cannot
  be written holds up the per-address retry, which follows it in the loop.
* A ban or an unban overwrites `deleting` (`admin_karaoke_users.py:90`).
* A karaoke PUT that was relayed before the sweep and arrives after the deletion
  leaves a file no row names; a Follower crash between its two transactions
  leaves `reserved_bytes` raised.  `KarSound` only says that the Follower never
  counts less than it holds, and excepts recordings that were given back
  (`withdrawn`).
* A proof that expires on its way to the Source (`resource_cleanup_master.py:85`)
  and an acknowledgement that meets a running handler
  (`resource_commit_peers.py:32`) stop a migration until a person retries it,
  although neither is an integrity error.

## 5. Proofs

TLC's runs show each property on a small instance; the theorems hold for every
value of the constants.  `PROJECT.json` lists them, each in one sentence.

| Module | Theorem | Property |
|---|---|---|
| `StorageServices_proof` | `ExclusionHolds`, `TypesHold`, `CountersExact`, `WakeupsKept` | `Exclusive`, `TypeOK`, `CountsExact`, `NoLostWakeup` |
| | `PrecedenceHolds` | `WriterPrecedence` (steps) |
| | `PromiseKept` | `ImplementsPromise` (refinement of `SharedExclusive`) |
| | `CapacityKept`, `RecordingsSound`, `RenamesSound` | `QuotaSound`, `KarSound`, `RenameSound` |
| `Federation_proof` | `RelationsSound` | `FedSound` |
| `StorageUpload_proof` | `PublishedIsStored`, `FollowerBooksExact` | `PublishedStored`, `FollowerSound` |
| | `BytesNotOverwritten` | `NoOverwrite` (steps) |
| | `ContractKept` | `ImplementsContract` (refinement of `StorageContract`) |
| `S3Storage_proof` | `MemberBooksExact` | `S3Sound` |
| `LocalPublication_proof` | `RecoverySound`, `PublishedIsThere` | `LocalSound`, `PublishedStored` |
| | `LocalContractKept` | `LocalImplementsContract` (refinement of `StorageContract`) |
| `ControlServices_proof` | `UpgradeSound`, `AdmissionSound`, `SecuritySound` | `OpSound`, `AdmSound`, `SecSound` |
| `Migration_proof` | `BooksAlwaysAgree`, `CommitsAreAckable` | `BooksAgree`, `CommitIsAckable` |
| | `UnitsReturn`, `FencesGoInOrder`, `NothingIsLeft` | `UnitsReturnInOrder`, `FencesGoLast`, `CancelledLeavesNothing` |
| | `NothingRefused` | `NoRefusal` |
| | `StopsHold` | `StoppedMeansStill` (steps) |
| | `HandoverImplemented` | `ImplementsHandover` (refinement of `Handover`) |

None of these invariants is inductive by itself.  Each module defines the
strengthening it needs, which TLC checked before it was proved, proves that the
initial states satisfy it and that every action keeps it, and draws the theorems
from it.

* **Fence** (`IInv`).  Exclusion follows from the counters being exact (a writer
  enters because `readers = 0`, which must mean that there is no reader), the
  counters from the types, and the wakeups from the counters.  `AtMembers`,
  `CountAdd` and `CountDrop` say how the set of tasks in a phase, and its
  cardinality, change when one task moves.  Assumed: `TasksFinite`.
* **Capacity** (`QuotaInv`).  What an open heartbeat of MySQL is going to write back
  covers what the rows stand for when it does (`BeatCovers`), although uploads end in
  between: it holds the identity row, so nothing is admitted and what the rows stand
  for can only shrink or change from reserved to placed.  `Total` counts the bytes one
  by one, as a set, so that a sum is a cardinality and needs no induction.  A deletion
  that was begun is of a row that is still pending or that another attempt has deleted
  (`RemovalsFit`), so its settlement either takes the bytes from the rows or adds them
  to `twice`; that is why every bound carries `twice` and none needs retries to keep
  out of one another's way.  Assumed: `QuotaConstants`.
* **Recordings** (`KarInv`).  Requests overlap without a lock, so the invariant says
  for each place of a request what it works on (`PlacesFit`), that no two tickets make
  the same reservation (`TicketsApart`), that an old reservation is swept by one
  request at a time (`SweepFits`), and that whoever may erase a file, late deletions
  included, does so of a recording that is being deleted or was once given back
  (`ErasersFit`).  `ConfirmFits` says that a file that was seen stays until its
  recording is deleted.  The Follower counts a file only when its upload is over and a
  failure in between leaves the reservation, so its counters cover the files and the
  open uploads together (`ShelfFits`).  Assumed:
  `KarConstants`.
* **Rename** (`RenInv`).  While members are being moved the invariant says for each of
  them which name its directory and its Follower's rows bear, from `moved` and from
  the request it serves (`Turned`, `Listing`, `FilesFit`); the two differ exactly
  between a Follower's move and its commit.  The Master awaits one answer at a time,
  and a request or a service that it does not await belongs to a member in `astray`
  (`AnswersFit`): that is why the trouble of a member stays its own.  Nothing is open
  or pending under either name, and nothing of another folder lies under the new one
  (`NamesFree`), so what is moved can be moved back (`DirsFit`).  Assumed:
  `RenConstants` (no name and no member is called like the absence of one).
* **Federation** (`FedInv`).  A row, a request or an answer belongs to the
  identity the Master used last or to an earlier one (`SameOrPrevious`,
  `IdsPast`); a pairing is confirmed at most once (`PairsOnce`); and an answer
  still holds when it arrives, because what it reports is never taken back under
  the same identity (`AnswersHold`).  Hence what each row says of the other
  (`RowsFit`).
* **Storage uploads** (`SUInv`).  The Master's row, the Follower's row, index and
  file of an upload fit together (`RowsFit`, `PathsOwned`, `BytesFit`); every
  step of a handler and of a call has facts of its own that hold while it waits
  (`HandlersFit`, `CallsFit`): a proof of publication stays true because only the
  holder of the lease may clean.  Bytes are cardinalities of sets of uploads, so
  that no sum has to be reasoned about.  Assumed: the constants' ranges, that
  `Uploads` is finite, that deleters are distinguishable from the Master, and the
  hypothesis `LateRequests = FALSE`: no request is executed after its caller gave
  up.  The run `StorageUpload_late` shows that without it the theorems are false.
* **S3** (`S3Inv`).  One session holds the path at a time; for each session the
  journal row, the requests the provider may still execute, the step of the
  worker and the catalog bound what the bucket may hold (`JournalFits`,
  `FlightsFit`, `WorkerFits`, `CatalogFits`).  The key is `FlightsFit`: a request
  that can still create an object or a part keeps its session owned.
* **Publication on the Master's disk** (`LocalInv`).  Bytes at a path belong to a
  row or to a journal, and a deletion that read a row keeps everyone else from
  the path until it is over (`DeletionFits`).  The last needs the hypothesis
  `CrewsApart`: deletions are carried out by requests, which take the fence, or
  by the one background loop alone.  The run `LocalPublication_unfenced` shows
  that with both at once `PublishedStored` is false.
* **Upgrade, admission, security** (`ControlServices_proof`, one inductive invariant
  each).
  - `OpInv`: what the journal's phase says of the host.  Until the new package is
    open (`ForwardFits`) the original root is the only one and, from the snapshot
    on, nobody writes, so the snapshot holds every write; once a restoration is
    under way (`RestoreFits`) the writes are in the snapshot or in the finished
    copy, whichever of the two the phase goes on to use.  A host command may die after
    any step: the invariant speaks of the journal, never of the command.
  - `AdmInv`: what each state of the task has in the members' rows and in the books
    (`AdmittingFits`, `PreparedFits`, `AbortingFits`).  From the step on that follows a
    member's second look, the member is sealed and still holds what the plan
    recorded (`Looked`), because an upload that could change it is refused or is
    seen as pending.
  - `SecInv`: a task that is about to write to Redis holds the view of the policy the
    database has now (`CopiesAreTrue`), because it read it under the writer lock; an
    edge snapshot that was overtaken has an older generation (`SnapshotFits`); and
    while Redis keeps working the locks exclude, a change under way has left its
    mark, and an unmarked address is shown as it is (`SteadyFits`).  Assumed:
    `SecConstants` (callers are not called like the loops or like a free lock, no
    address like the cache's own key).
* **Migration** (`MigInv`, in `MigrationPeers_proof`).  The Master may lose its
  lease, its answer or its process at any point, and a member may execute any
  request that was ever sent; so the invariant speaks of requests.
  - `Flow`: epochs only grow; a member that has bound an epoch serves nothing
    older; what a member works on or has answered is a request of its epoch.
  - `RequestsFit`, `JobFits`: a request of the runner's epoch, and the call it
    waits for, still fit the ledger they were made from.
  - `LateFits`: what an older request can still do.  It can repeat a copy or a
    verification and thereby replace a receipt, but only of a unit the ledger
    does not yet rely on.
  - `AnswerFits`: what an answer reports is so at the member (`Told`), and
    remains so, because only facts that never change back are reported.
  - `MemberRows`, `UnitsFit`, `TaskFits`, `MembersFit`, `BooksAgree`: what the
    rows of the three databases then say of one another.

  `MigrationPeers_proof` proves the members' steps, `Migration_proof` those of the
  Master, the cancellation and the theorems.  `StopsHold` and the refinement
  use the invariant in every step: a cutover maps to `Handover`'s transfer because
  `Given` says that both copies are complete.  Assumed: `CountsAssumption` (at
  least one unit).
* **No refusals** (`ReadyInv`, on top of `MigInv`).  A call is refused when the
  member is not where the Master believes it to be; the invariant says, from both
  ends, that it is.
  - `Meets`: what the Master had been told when it made the call it waits for (no
    abort under way, the unit is the next one, the receipt is the recorded one, the
    Source was stopped by this runner before a unit is taken back).
  - `UnitReady`: what a member has done of a unit even if the Master never heard of
    it.  A publication can have begun only for a copied unit whose turn it was
    (`Asked` implies `Foreseen`), a lost acknowledgement can be asked for again, and a
    unit that is gone at the Target has no request of the last runner left that
    would bring it back (`Turned`).
  - `Heard`: what a successful answer says beyond `Told`; `TaskReady`: what a phase
    of the task, or a place in the cancellation's journal, has behind it.

  The members' steps keep it because they answer a call that meets what it needs;
  the Master's because each tick's guard, with the phase, gives the next `Meets`.
  `BooksSettled`, `TakeBackReady` and `CutoverReady` also show that the
  Master's own checks of its books (`Settled`, `Authorised`, `Accounted`) never fail.

**Only model-checked.**

* Liveness: TLAPS 1.4.5 has no ENABLED.

Every safety invariant that a passing run checks is stated by a theorem.

## 6. Not modelled

* Encryption descriptors, content signatures, checksums and request signatures:
  a body is whole or its handler fails, a request is genuine.
* Time: age only selects candidates for the sweeps, so a sweep may take any
  reservation that could be old enough.
* Power loss on the Master's disk: `LocalPublication` crashes are process
  deaths; the unlink of `retry_pending_media` is not synced, and start-up could
  adopt bytes of the same size.  Open hazards in `PROJECT.json`.
* Several worker processes of one Master: `storage_write_lock` is local to each.
* Of a migration: enrollment and the transfer preflight (`MigrationAdmission` ends
  with a queued task, `Migration` starts in `copying` with prepared members),
  pages, readers of the Source, a failing disk, and changes to the resources that
  the scopes forbid.
* Of the upgrade: temporary material of interrupted steps, the bounds on
  retained snapshots and attempts, installation and image preparation.
* Of Karaoke: recordings on the Master's own disk, sessions, downloads.
* Of a rename: a Standalone node (no other member), S3 files (no key depends on
  the folder), the rewriting of priorities, labels and stale metadata of the
  target, nested folders other than as files with several homes.
* The components with status `not_modelled`, with the reason in their note.

## 7. Plan

1. `BackupTransfer`: begin, append, commit and abort of a generation.
2. `CatalogCache`, `PriorityPlanner`: cache fills against invalidation; the
   planner against a reference definition.
3. Lyrics and certificates, where a step of several can fail.
