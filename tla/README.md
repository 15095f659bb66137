# pcloud-rs: a TLA+ model of the paths a user's data takes

pcloud-rs is a pCloud client: a daemon that keeps local directories (sync
roots) and a remote account in step, mounts the account through FUSE, and is
driven over IPC by a command line and other front ends. This project models
what decides whether a user's change arrives:

* the planner and the scheduler of `pcloud-engine`, the background sync loop of
  `pcloud-daemon` with its persistent queue and cursors, the thread and the
  condvar around it, the IPC handlers that edit the sync roots underneath it;
* the write path of the FUSE mount, with its staging blobs, its chunked upload
  and its progress sidecars;
* the resumable upload of `pcloud-backends` and the upload session of the SDK;
* the transport every request goes through: rate limit, circuit breaker, retries
  and the shared retry budget;
* the hash-chained audit log;
* the session: logins, the vault, the authsave preference, and what a boot restores.

All modules are translated from the Rust source; `PROJECT.json` gives the lines
each definition stands for.

## 1. Inventory

Paths are relative to `src/crates/`.

| component | state | operations | meets |
| --- | --- | --- | --- |
| sync model, planner (`pcloud-model/src/sync.rs`, `pcloud-engine/src/planner.rs`) | none: pure functions | merge candidates per path, cap a tick, defer the rest, filter deletes by sync type | called by the engine shell |
| scheduler (`pcloud-engine/src/scheduler.rs`) | queue; dispatched and unacknowledged operations | replace the queue (all, or one root), next_batch, ack_batch, evict, enqueue, drain, snapshot | engine shell |
| engine shell (`pcloud-engine/src/lib.rs`) | scheduler, planner overflow, paused roots, coordinators | ingest, advance_transfers, mark, pause, evict, snapshot, restore | one instance in the sync loop, another in the IPC thread; nothing links the two but the store |
| local scan tracker (`pcloud-engine/src/local_scan.rs`) | time of the last full walk, per root | choose full walk or watcher events, evict | sync loop |
| transfer coordinators (`pcloud-engine/src/transfers/`) | lists of work in flight | accept a batch, mark by path | engine shell |
| sync loop runtime (`pcloud-daemon/src/sync_loop_runtime.rs`) | staged bytes; values and cursors in SQLite | poll_remote_diff, run_local_scan, downloads, uploads, persist, boot | account, store, audit log |
| sync loop thread (`pcloud-daemon/src/sync_loop.rs`) | pause, shutdown and wake flags, condvar, status, previous root list | sync_loop_main, run_cycle, sync_one_root, pause, resume, wake, shutdown | IPC thread |
| root handlers (`pcloud-daemon/src/runtime.rs`) | the IPC thread's copy of the roots | add, remove, pause, resume, retype; each writes the store | store; wakes the loop |
| sync graph and value tables (`pcloud-store/src/`) | roots, cursors, values | transactions | both threads |
| diff conversion (`pcloud-backends/src/sync_backend.rs`) | none | convert_diff_batch | sync loop |
| audit chain (`pcloud-store/src/repositories/audit.rs`, `schema.rs`) | `audit_events`; a cached tail hash per repository | append_event, load, verify_chain, migration | one repository per thread |
| audit verifier (`pcloud-daemon/src/audit_verifier_service.rs`) | last verified id, checkpoint file, outcome | one tick of its schedule | audit table |
| resilient transport (`pcloud-proto/src/resilient_transport.rs`, `pcloud-resilience/src/`) | breaker record behind a mutex, atomic retry budget, token bucket | execute: admit, send, record the result, retry or give up | threads that send requests; one budget for all |
| FUSE write path (`pcloud-fs/src/write_path.rs`, `staging.rs`, `fuser_shim.rs`; daemon's `mount_runtime.rs` and write backend) | inode table, write handles, staging blobs, sidecars, write journal | open, create, write, flush, fsync, truncate, unlink, rename, release, chunked upload, drain, replay at mount | kernel calls on one thread, the drain hook on another |
| resumable upload (`pcloud-backends/src/upload_state.rs`, `transfer_backend.rs`; `pcloud-store` upload_resume) | state of the machine; one row per local path | run: create, write, info, save; retry, refresh, clean-up, purge | store, server |
| SDK upload session (`pcloud-sdk/src/upload_session.rs`, `upload_journal.rs`) | watch channel, chunk state behind a mutex, outcome slot, journal file | write_chunk, save_and_complete, pause, resume, cancel, await_completion | clones of one handle on several threads |
| session (`pcloud-auth/src/`, `pcloud-session/src/refresh_loop.rs`; daemon's `runtime.rs`, `bootstrap.rs`, `vault/`) | snapshot of the session manager, pending password, authsave flag and preference, account row, token in the vault file or in a platform vault, mount adapter and its factory | begin login, password, token and second-factor submissions, logout, authsave, userinfo, refresh tick, mount, unmount, boot | store, vault, mount |
| HA lease, caches | see section 9 | | not modelled |
| conflict resolver, sweepers, selective sync, IPC server, crypto, codecs, configuration, front ends, p2p, plugins, fleet, observability | see section 9 | | not modelled |

What is hard here:

* **Crash recovery.** A batch that was handed out lives in a second list; only
  a snapshot that includes that list brings it back. The diff cursor, the queue
  and the overflow are written by three separate transactions, with the plan
  only in memory between them.
* **Two owners of one fact.** Roots, pauses, session and audit tail each exist
  in the store and in one or two copies in memory, refreshed at boot only.
* **Interleaving.** The IPC thread removes, retypes and pauses roots in the
  middle of a visit; two roots may carry the same relative path in flight.
* **Waiting.** The loop sleeps in a condvar that three kinds of request wake,
  one of which stores its flag outside the mutex.
* **Two writes and their rollback.** A login, a logout and a change of authsave write
  the vault and a row of the store one after the other, roll back by further writes
  that may fail too, and a boot trusts whatever it finds.
* **Failures that are only logged.** A write of the queue or of the overflow
  may fail and the loop carries on; a failed read looks like an empty table.
* **Lost answers.** A request that failed may have been committed: a chunk, an
  upload session or a saved file exists on the server and the client does not
  know.
* **Files that change while they are uploaded.** The kernel writes on while a
  chunked flush has sent half of the file, while its sidecar waits for the next
  attempt, and while the drain holds a copy of the blob.
* **Results recorded late.** The breaker's lock is not held during a request, the
  retry budget has no lock at all, and a cancelled upload session may be in the
  middle of a chunk.

The correctness of each part, in one line:

* scheduler: a batch loses and duplicates nothing, keeps the order of urgency
  inside a root, and survives a restart; it does not keep every root from starving;
* sync loop: work in flight is always durable, the cursor never passes what was
  ingested, an acknowledgement is the transfer's own, every active root is
  visited again and again;
* thread: no lost wake-up, every shutdown completes, a pause holds and shows;
* audit log: an append from a stale tail and a changed key break the chain and
  nothing else does, and the verifier raises no false alarm;
* write path: what a sidecar calls acknowledged is on the server, a saved file is
  complete, a chunk nobody touched since arrives as it was, every call returns;
* transport: an upload mutation is committed at most once per call, retries are
  paid for by successes, the probe slot of the breaker is never orphaned;
* resumable upload: the row never runs ahead of the server, and only the payload
  of the run that saves is saved, across crashes and lost answers;
* upload session: nothing is sent by a call made after a cancel, progress is
  never ahead of the server, and Ok means the whole file;
* session: a logout and an authsave off hold across crashes, failed writes and boots,
  authsave is all or nothing, a token has its user.

## 2. Modules

| module | models | extends |
| --- | --- | --- |
| `PlannedOps` | candidates, planned operations, planner, sorting, fair batch, snapshot: pure operators | |
| `Scheduler`, `MCScheduler` | the scheduler as a state machine | `PlannedOps` |
| `DurableQueue` | abstract: what the loop promises of its work and its persisted queue | |
| `SyncLoop`, `MCSyncLoop` | engine, loop runtime, store, IPC root handlers, account and crashes, composed; implements `DurableQueue` | `PlannedOps` |
| `SyncLoopThread` | flags, condvar, status and shutdown around the loop | |
| `AuditChain`, `MCAuditChain` | the audit table, its repositories and its verifier | |
| `WritePath`, `MCWritePath` | the FUSE write path, the drain, the chunked upload with its sidecar, remounts and crashes, with the server's upload sessions | |
| `RequestContract` | abstract: what a caller of `execute` is promised | |
| `ResilientTransport`, `MCResilientTransport` | execute for concurrent callers, breaker, budget, retry, admission; implements `RequestContract` | |
| `ResumableUpload`, `MCResumableUpload` | the upload state machine, its row, its driver, the server's sessions, crashes | |
| `UploadSession` | the SDK's session handle at the grain of its locks | |
| `AuthSession` | the session manager, the auth handlers of the IPC thread, vault, account row and preference, refresh tick, mount adapter, boot | |
| `SchedulerProofs` | theorems about the operators of `PlannedOps` and the scheduler | `Scheduler` |
| `SyncLoopProofs` | theorems about the sync loop, its refinement, and the thread around it | `SyncLoop`, `SyncLoopThread`, `SchedulerProofs` |
| `WritePathProofs`, `AuditChainProofs`, `ResilientTransportProofs`, `ResumableUploadProofs`, `UploadSessionProofs`, `AuthSessionProofs` | theorems | the module they name |

`PlannedOps` is the only place where the planner and the scheduler's data
structures are defined: `Scheduler` checks them alone, `SyncLoop` uses the same
operators inside the loop. `SyncLoopThread` takes a cycle as one step;
`CycleCompletes` of `SyncLoop` is what justifies the fairness of that step.
The definitions of `Scheduler` and `SyncLoopThread` carry a prefix (`SchedulerSpec`,
`ThreadSpec`), the scheduler's dispatched list is called `unacked` and the place of the
thread `place`, so that one proof module can extend both and `SyncLoop`.

`DurableQueue` says what a reader of `advance_transfers` wants to rely on: an item is a
(root, path) key; a hand-out comes with a write of all work there is; only such a write
changes the store; handed-out items leave one by one, or with their root; a restart
waits for what is stored. It says nothing of what the planner plans. `WorkIsLedgered` is
the refinement: waiting, handed out and stored are the keys of `queue`, `dispatched` and
`queueDb`, and `safe` is `saved`.

### State and actions of SyncLoop

Variables ending in `Db` are SQLite rows; `rootsIpc` is the IPC thread's copy;
everything else is memory of the loop thread and is rebuilt by a boot.
`saved` and `ingested` are history variables. `pc` is the place of
the loop thread in `sync_loop_main` / `run_cycle` / `sync_one_root`:

    idle -> list -> pick -> poll -> commit -> scan -> save -> advance
                      ^                                         |
                      +------- uploads <------- downloads <-----+

A step ends where another actor could see or disturb the result: at every write
of the store, at every request to the account and at every transfer. So
`PollRemoteDiff` is the request, the ingestion and the write of the overflow,
`commit_diff_batch` the transaction that stores the cursor, `SaveQueue` the
write after a scan, `advance_transfers` the batch and its write. `Crash` is a
crash at any point followed by `RealSyncLoopRuntime::new`; `CrashUnreadable` is
the same with some of the reads of the boot failing, each on its own.

Abstractions of the data: a path, an event and a key are small naturals or
model values. The operations of a coordinator are one list, ordered the way
`mark_completed` searches its lists. `push_dispatched` keeps one entry per
operation. When several roots disappear at once the code writes the queue once
per root; the model performs the last of these writes. A failed read of the
roots is possible while the fault budget lasts and does not use it up. The
account's history is a log; a diff is a segment of it. Transfers either succeed
or fail; a small download is staged in memory, which is the only source of
bytes an upload has in this runtime.

### State and actions of WritePath

The unit of data is a chunk, and each write carries a stamp of its own, so two
contents are equal exactly if the same writes are in them. `fuse` is the place
of the thread that serves the kernel, `drain` that of the drain hook; `blob` and
`sidecar` are files of the staging directory and survive a stop, `handle`,
`ipath` and `fds` are memory of one mount. `dentry` is the kernel's
cache of names. A call that stays inside one lock is one action (`Open`, `create`,
`truncate`, `unlink`, `rename`, `release`); a write is three, because the blob is
written, the handle is written back and a flush may follow, and the drain can
step between. The chunked flush is a step per request:

    SessionBegin -> SendChunk -> RecordChunk -> ... -> SaveUpload -> EndChunkedFlush

with a permanent error of any request going back to `SessionBegin` for at most
one fresh session. `drain_all` is a step per lock and per request (`DrainStart`,
`DrainPick`, `DrainRead`, `DrainLand`, `DrainReset`, `DrainEnd`). `Remount` is the
end of a mount, by a crash or not, with the replay of the sidecars at the next
one. The write journal is appended to and never read for a decision, so only a
failed append is visible. The count of staged bytes of the process
(`GLOBAL_STAGING_BYTES`) is shared with every other mount, outlives this one and
decides nothing but whether a write is refused, so the model refuses any write at
will instead of keeping it. A writable open may seed an empty blob although the
file has content: the shim tolerates a failed open for reading. `truncate` has no
ceiling in the code; `MaxBlob` is the model's bound on the sizes it is called with,
and may exceed `MaxStaging`, which limits writes only. `touched` is the one ghost variable:
the chunks of a
blob that changed after its session had received them.

### State and actions of ResilientTransport

`breaker` is the record behind the mutex: each operation on it is one step, and no
lock is held while a request is with the server. `tokens` is the atomic budget:
`Consume` is the `fetch_sub`, `Restore` the `fetch_add` of a call that found nothing
to take. `call[c]` is the place of a caller in the loop of `execute`; a request
that fails may have been committed. `successes` and `retries` are history variables.

The refinement maps a call to its abstract state by `WorkOf` (which counts a
granted retry from the moment the budget granted it) and the abstract credit to
`Capacity + successes - retries`. `Contract` is `RequestContract!Spec` under this
mapping: rate limit, breaker and budget are stutters, and what is left is that
requests go out only as granted, never a second time for an upload mutation.

### State and actions of ResumableUpload and UploadSession

`ResumableUpload`: `row` is durable, `run` and `state` are memory, `session` and
`remote` are the server. Each request of `run_step` has an action for its success,
one for a success whose answer is lost (`CreateUnanswered`, `WriteUnanswered`,
`SaveUnanswered`) and shares `StepFails` for the three error classes; `put`,
`update_offset`, `Finish` and `Cleanup` are the writes of the row. `Crash` and a
later `Start` with another content or target are what the row must survive. A
content is a sequence of chunks, so equal checksums mean equal contents.

`UploadSession`: `writer` is the thread in `write_chunk` or `save_and_complete`,
`control` the place of every other clone. The state lives in a watch channel, the
offset and the cancel flag behind a mutex, the outcome in a slot, and each access
is a step. The journal file is shared by every session of a directory:
`OtherClears` is another session that finishes.

### State and actions of AuthSession

One thread runs all of it, so only a crash or a failing write comes between two steps
of a handler. A request answers in one step up to its first durable write; the writes
are steps of their own, with `job` as the place in the handler:

    auth_response -> PersistVault -> PersistProfile [-> restore_vault_state]
    set_auth_persistence -> SavePreference -> ApplyPreference
                            [-> RollBackPreference -> restore_vault_state]
    boot: BootLogin | BootRestore -> BootVault | BootClear -> BootProfile

with the rollbacks in brackets. `BootFails` is a boot that ends in an error and is
tried again. `db` is what SQLite has, `pref`, `account` and `durable` are the copies in
memory; `file` is the vault file, the only vault the handlers write, and `service` the
platform vault a boot uses when `select_vault` chose one (`Backend`). A vault write that
fails may have replaced the file already.

A token is named after its owner, so a refresh that succeeds is a stutter and
`RefreshTick` is the tick that finds the token revoked. `userinfo` always names a user
and an email. `signedOut` and `optedOut` are ghosts: a logout, an authsave off, was
answered with Ok and nothing since has taken it back. `login_with_token`,
`submit_two_factor_code` and `submit_two_factor_code_with_password` list the outcomes
of a request with the server's answer as a choice.

## 3. Runs

| run | question | result |
| --- | --- | --- |
| `scheduler_batch` | Two roots, window of two, every call of the scheduler in any order | `BatchConserves` (the window included), `NoOvertaking`, `RestartRequeues` hold |
| `syncloop_cycle` | A paused root that downloads; two edits by the IPC thread (a second root that uploads the same path, a resume, a removal, a retype); two remote changes against one operation per tick; refused names, a file without an id; one crash, one failed read or write; a fair loop | work in flight is durable at every step, everything queued is durable between two roots, a restart queues interrupted work again; the cursor stays behind what was ingested and never rewinds; only an operation's own transfer acknowledges it; the loop implements `DurableQueue`; every cycle ends; a root that stays active is visited again and again |
| `thread_live` | Two threads, all requests, no help from time-outs | no lost wake-up, shutdown completes, a pause holds and is shown |
| `audit_two` | Two repositories on a migrated table, two keys or none, restarts, a table that cannot be read at boot | the chain goes from accepted to broken exactly by an append from a cached hash that is not the tail, or by a start with a key other than that of a signed row; the verifier reports a broken row only if a full walk does |
| `writepath_live` | One inode, two names, writes, truncation, rename, unlink, failing requests, a drain, a stop | `AckedChunksAreOnServer`, `SavedFileIsWhole`, `UntouchedChunksAreExact`, `KernelCallReturns` hold |
| `transport_live` | Three callers, threshold two, three attempts, a budget of one | the probe slot has an owner, the budget balances, the contract is implemented, every call returns |
| `upload_live` | Two targets, payloads that differ in size and in content only, an empty one, two attempts, three runs, a crash | the row is behind the server, only the run's own payload is saved, Done means saved, every run returns |
| `session_calls` | One sender, two controllers with four calls, five sends | `LateCallsSendNothing`, `ReportedBytesReceived`, `OkMeansWhole` hold |
| `auth_vault` | Two users, the vault file, five requests, two failed writes, two crashes, boots with and without credentials in the environment | `SignedOutStaysOut`, `OptedOutLeavesNoToken`, `AuthsaveAllOrNothing`, `TokenHasItsUser` hold |
| `scheduler_starve` | a busy root cannot starve its siblings (`scheduler.rs:180`, and line 330: "Each root gets at least 1 slot"); three roots, window of four | violated: the shares are rounded up to two; two roots that re-plan two deletes each fill every batch, and the download of the third is never handed out |
| `writepath_mix` | the file saved by a chunked upload is the staged blob (`write_path.rs:871`) | violated: a resumed upload skips the chunks its sidecar calls acknowledged, although the blob was overwritten since; the saved file mixes two versions |
| `auth_service` | a logout takes the vault from Present to Absent (`docs/book/src/architecture/security-model.md:273`) | violated with a platform vault: a boot stores the token there, a logout clears the file only, and the next boot signs the user in again |

Each property of a passing run has a mutant: a plausible slip in the code (a
snapshot without the dispatched list, an acknowledgement by path only, a wake
without a notification, a chunk read without seeking...) under which TLC reports
a violation. The mutants are the definitions whose names begin with `Mut`.

`UntouchedChunksAreExact` and `writepath_mix` are two sides of one question. The
first shows that the mix is the only way a saved file differs from the blob.

## 4. Bounds

All bounds are constants. Two roots are the smallest number at which one can
disturb another; in `syncloop_cycle` the two share path 1, so that keys collide where
the code compares paths only. `Limit = 1` makes a second operation wait while the first
is in flight; two remote changes, fetched together or one by one, give a cursor that
moves twice; `MaxOps = 1` makes the planner defer one of two
fetched changes, and `OverflowMax = 1` makes the overflow buffer cut what a second
batch adds to it. The first root is paused, so that the loop passes it over until it
is resumed and a restart, or a listing that failed, has cleared the pause in the
engine. No root is Full in this instance; the safety properties are theorems for every
type. One crash and one
fault are enough for the sequences the code handles, "failed write, then
crash" and "crash, then failed read" included, since every point of the loop is
a place for them. The scheduler's queue holds three operations, one more than
its window. `scheduler_starve` has the smallest number of roots whose rounded shares
exceed a window larger than one. The audit table holds four rows: a migrated row, the
checkpoint, a seam and a row after it; two restarts let a key appear,
disappear and be replaced by another, and one of them may fail to read the tail.

`WritePath` has one inode and two names, so that a rename and a new file under an
old name happen; writes reach up to `MaxStaging = 2` chunks and truncations one
further (`MaxBlob = 3`), with a threshold of two
and a ceiling of one for the whole-file upload, so that both kinds of flush and
their refusals occur; two sessions and one retry are what one restart of a chunked
upload needs; four calls, one drain and one stop are enough for "write, flush
fails, overwrite, flush resumes" and for a drain in the middle of it. Three callers
in `ResilientTransport` are one to open the breaker, one to probe and one that
reports late; with a budget of one, two of them compete for the last token.
`RateMode = "Shed"` is the mode in which the limiter refuses. `ResumableUpload` has
payloads of the same length that differ, a shorter one and an empty one; three runs
are a failed one, a resumed one and one after it. In `UploadSession` two chunks and
five sends leave room for a repeated chunk and a second save, and two controllers
with four calls for a cancel that races a resume.

`AuthSession` has two users, so that a login can replace another's session; two faults
are a failure and a failing rollback; two crashes are one inside a handler and one
after the boot that follows; five requests are a login, an authsave, a logout and two
in between. `DefaultDurable = FALSE` makes the flag and an unset preference differ from
the preference a user sets.

The bounds of `Scheduler` (`MaxQueue`, `MaxDispatched`) and of the environment
(`MaxChange`, `MaxCrash`, `MaxIpc`, `MaxFault`, `MaxRows`, `MaxRestart`,
`MaxLoadFault`, `MaxCalls`, `MaxSends`, `MaxDrains`, `MaxStops`, `MaxRuns`,
`MaxCrashes`, `MaxFaults`) are guards of the environment's actions; none restricts what the code
does once called; so is `MaxBlob`, the size a caller of `truncate` may ask for.
`MaxIno` and `MaxSessions` bound what can be allocated: a `create`
or an upload session beyond them is a request that is refused, which the code
handles as an error.

Deadlock is checked in the runs of `Scheduler`, `SyncLoop`, `SyncLoopThread`,
`AuditChain` and `AuthSession`: the loop never stops by itself, and a thread that has been joined
steps by `Terminated`. It is not checked in the others: their callers are bounded
and may rest when every call has returned, and `KernelCallReturns`, `CallReturns` and
`RunReturns` say that none is left hanging.

## 5. Fairness

* `SteadyFairSpec` of `Scheduler`: roots re-plan, batches are handed out and
  acknowledged whole, with weak fairness of `next_batch`. The loop calls it once per
  visited root for as long as it runs.
* `SyncLoop!FairSpec`: weak fairness of the loop thread (it is scheduled, and its
  requests return), and strong fairness of `ListRoots`: not every cycle is
  skipped, that is, there is a session and the host is not on battery for ever.
  Nothing is assumed of the IPC thread, of remote changes, or of the success of
  a request.
* `ThreadSpec`: both threads are scheduled and a notified thread wakes.
  No fairness of `Timeout` or `SpuriousWakeup`: the liveness properties hold
  although no poll interval ever elapses.
* `WritePath!FairSpec`: weak fairness of the thread that serves the kernel, that is,
  a request to the server returns in some way. None of the drain, of further calls
  or of success.
* `ResilientTransport!FairSpec`: weak fairness of each caller's next step. Nothing
  says the server answers well or that the reset timeout elapses.
* `ResumableUpload!FairSpec`: weak fairness of the run.
* `AuditChain`, `UploadSession` and `AuthSession` have no liveness property.

## 6. Proofs

TLAPS proves the following for every value of the constants that satisfies the
named assumptions (`IdsAndPathsAreNat`, `SyncLoopAssumption`,
`SchedulerAssumption`, `WritePathAssumption`, `EnabledAssumption`, `AuditAssumption`,
`TransportAssumption`, `UploadAssumption`, `SessionAssumption`, `AuthAssumption`): any finite set of roots, any paths, limits, change logs,
trees and bounds, any number of callers, payloads, controllers, users and inodes.

**SchedulerProofs.** First the operators: picking a subset of a
sequence by rank, the stable sort and the deduplication keep what they should.
`SnapshotKeys`: the snapshot holds exactly the (root, path) keys of the queue
and of what is in flight. `BatchNonEmpty`: a batch is empty only if the queue is.
Then the scheduler, whose `SchedulerTypeOK` is inductive as it stands.
`FairIndices` says that the chosen positions are no more than the window and that with a
position every earlier one of its root is chosen. `BatchesConserve` counts occurrences:
the positions chosen and those left are disjoint and `Pick` keeps every element as often
as it is chosen. `NothingOvertakes` follows from `FairIndices` and the
order of the queue; the theorem names that order as a hypothesis because `enqueue` appends
without sorting. `RestartsRequeue` is `SnapshotKeys` once more.

**SyncLoopProofs.**
* `TypeCorrect` and `CursorAlwaysBehind` rest on one inductive invariant,
  `TypeCursor == TypeOK /\ CursorBehindIngest /\ FetchedIngested`. The last part
  is what makes the cursor's bound inductive: between ingestion and commit the
  fetched cursor counts as ingested for the root being visited.
* `InFlightAlwaysDurable` and `QueuedDurableBetweenRoots` are proved together:
  dispatching moves operations from the queue to the dispatched list, so the
  first is not preserved by `advance_transfers` on its own write alone without
  `SnapshotKeys`, and the second needs `BatchNonEmpty`: a batch that is empty
  writes nothing, and then the queue must be empty as well.
* `RestartRequeuesWork`, `CursorMonotone` and `AcksOnlyOwnTransfer` are action
  properties from the same invariants. The last needs that dispatching adds to the
  dispatched list and takes nothing out of it (`PushProps`), and what exactly the filters
  of `evict_removed_root` and `ack_batch` drop (`DroppedElems`).
* `ImplementsQueue` is the refinement of `DurableQueue`. Each action of the loop maps to
  one abstract action or to a stutter (`LedgerStep`). A write of the snapshot is an
  abstract write by `SnapshotKeys`; a dispatch that takes nothing writes nothing and
  stutters; the mark of a transfer whose key was acknowledged before, with
  another operation of the same key, stutters too.
* The thread around the cycle: its inductive invariant `ThreadInv` adds to the two safety
  properties that the shutdown flag is set exactly from the request on, and that
  the pause is on display wherever the loop can fall asleep without reading the
  flag again. `NeverSleepsOnWake` and `PausedIsReported` follow.

**AuditChainProofs.** `TypeCorrect` and `NeverFalseAlarm` hold whoever appends:
a row that fails in a walk from a checkpoint fails in the full walk, and rows are
never rewritten. `OneWriterChainVerifies` assumes `OneWriter` (only the IPC
thread's repository appends, at most one key) and strengthens `ChainVerifies` to
`TypeOK /\ Linked /\ CacheIsTail`: each cached hash is the tail of the table.
`BreaksExactly` drops that assumption: with any number of writers and any keys, a
step takes the table from accepted to broken if and only if it appends from a cached
hash that is not the table's tail, or starts a repository with a key other than that
of a signed row. Both happen to a daemon as it is shipped (section 8).

**WritePathProofs.** `AckedChunksAreOnServer` is far from inductive. The invariant `Inv`
has ten parts, in three groups and a link between them:
* `TypeAndCounts`: `TypeOK` (theorem `TypeCorrect`) in one part per variable group, the descriptors below their
  bound (`FdsBound`), and no dirty count above what the calls so far can have staged
  (`DirtyBound`), without which the type of the handle map is not kept by `WriteStage`.
* `Holds`: a handle has a blob (`HandleHasBlob`), the serving thread and the drain work on
  an inode that is there, and from the barrier of `chunked_flush` on the blob keeps the
  size that was announced (`FuseHolds`, `DrainHolds`).
* `Uploads`: what a sidecar says fits the session it names (`SidecarFits`), no two
  sidecars name one session (`NoSharing`), and what a session holds is what the blob
  holds except in chunks written since (`SessionsAreExact`). `NoSharing` is what keeps one
  inode's chunk from breaking what the sidecar of another says.
* `FuseAgrees`: the upload under way is the one its sidecar describes.

`AckedOnServer` is a consequence of `SidecarFits`; `SavesWholeFiles` and `SavesExactChunks`
are action properties of the step that saves, from `FuseHolds`, `FuseAgrees` and
`SessionsAreExact`. `Inv` was also model-checked, with two inodes, before it was proved.

**ResilientTransportProofs.** `TransportInvariant` joins `TypeOK`, `ProbeHasOwner` and
`BudgetAccounts`. `BudgetAccounts` counts the callers that have subtracted a token and
not yet restored it, so its proof is about the cardinality of the set of callers at
one place of the loop and how each step changes it. `Implements` is the refinement:
`Init` maps to the contract's `Init` and each step to a step or a stutter; `Consume`
is the interesting case, where the balance of the budget shows that the abstract
credit is positive whenever a token is granted.

**ResumableUploadProofs.** The inductive invariant is
`TypeOK /\ RunFits /\ RunCarries /\ RowBehindServer`: a run's offset is within its
payload and its upload id exists, and what the run believes the server to have is
there. `OnlyWholePayloads` and `DoneMeansSaved` are action properties from it.

**UploadSessionProofs.** The invariant adds to the three properties that the cancel
flag is set before a cancel returns (`FlagBeforeReturn`) and that a sender's offset is
what the server has received or less (`SenderCarries`); with the first,
`LateCallsSendNothing` needs no assumption on how many clones there are.

**AuthSessionProofs.** The inductive invariant is
`Typed /\ NothingToRestore /\ OffEverywhere /\ OneFaultAway`. The second says that after
a logout neither the session nor the vault file has a token, nor does a handler carry
one that a rollback could put back. The third says that after an authsave off the
flag and every copy of the preference, the one a rollback carries included, say off. The
fourth says that before the second failure the flag follows the preference, and the row
on disk too except at the two moments the handler is about to write it. `LogoutHolds` assumes
`Backend = "file"`; `auth_service` is the counterexample for the others. `OptOutHolds`,
`AuthsaveRollsBack` and `TokenOwner` hold with any vault.

## 7. Model-checked only

Liveness (`CycleCompletes`, `ActiveRootsServed`, `ShutdownCompletes`, `NoLostWake`,
`PauseHolds`, `KernelCallReturns`, `CallReturns`, `RunReturns`) is out of the prover's
reach. Every other property of a passing run is a theorem. The type invariants of the
scheduler, the sync loop, the audit log, the write path, the transport, the uploads and
the session are proved and not run as well.

`NoRootStarves` depends on the instance: the share of a root is the window divided by
the number of roots, rounded up, and shares are filled in queue order. Where the
shares fit the window (two roots and a window of two) no root starves; where they do
not (`scheduler_starve`) a root may wait for ever. The default window of eight is
filled by four busy roots out of five; a window of one by a single one. The run has
several re-plans between two batches; if a batch follows every re-plan, as in the loop
with one visit at a time, busy roots with six operations or more each do the same.

## 8. Other behaviours of the code, seen in the model

These contradict a comment of the code or surprise a reader; no run is kept for
them. Line numbers are of the files named.

Sync loop and audit log:

* A poll that finds no change has no single root to re-plan (`single_sync_id` of an
  empty list is None) and replaces the whole queue by nothing, work of other roots
  included (`pcloud-engine/src/lib.rs:507`, against "without clobbering work that other
  roots have already enqueued", `scheduler.rs:104`). Trace: two full roots, a scan of the
  second with two files and a window of one, then a poll of the first.
* The local scan of a full root re-plans it and drops a download whose cursor is
  committed (`scheduler.rs:127`, against "at-least-once semantics",
  `sync_loop_runtime.rs:471`).
* A crash between `remove_sync_root` and the next cycle restores the removed root's
  operations, and no later cycle evicts them (`sync_loop.rs:431`, against "so
  removed-root ops don't come back on restart", `sync_loop_runtime.rs:879`).
* A login after the start never reaches the loop's token (`serve.rs:546`, against
  "The IPC thread writes to this when auth state changes",
  `sync_loop_runtime.rs:67`).
* Two repositories append from two cached tails and fork the audit chain
  (`audit.rs:22`). This is the daemon's default: the sync loop is enabled and has a
  repository of its own beside the IPC thread's. Trace: both load the table, one
  appends, the other appends.
* A start with another key ("Provision (or rotate)", `audit.rs:230`) makes a full walk
  reject the rows signed before (`audit.rs:354-358`). `ChainBreaksExactly` says that
  these two are all that breaks the chain.
* Every diff is converted under sync id 1 (`sync_backend.rs:511`), whichever root
  is polled, so operations of root 1 are planned after it was removed.
* Candidates deferred by one root are planned with those of the next; such a
  mixed plan, too, replaces the whole queue (`pcloud-engine/src/lib.rs:507`).
* A crash between the commit of the cursor and the next write of the queue loses
  the plan (`sync_loop_runtime.rs:495`, against "survive the reboot instead of
  silently vanishing", line 245). Trace: poll, commit, crash.
* A root that was paused at boot stays paused in the loop's engine after
  `resume_sync_root` (`runtime.rs:5921`): `pausedMem` is set at boot and cleared by
  eviction only. `ActiveRootsServed` names `pausedMem` for this reason.
* A boot pauses roots before it restores the queue, so restored work of a paused
  root is dispatched (against `pcloud-engine/src/lib.rs:939`). Trace: scan, pause,
  crash, visit of another root.
* A failed read of the roots lists none, and everything is evicted and the empty
  queue written (`sync_loop_runtime.rs:444`). `AckOnlyOwnTransfer` therefore speaks
  of the list just read, not of the store.
* A root added under the id of a removed one inherits its diff cursor
  (`runtime.rs:5696`).
* A BackupArchive root polls and downloads remote changes (`sync_loop.rs:284`,
  against `planner.rs:254`).
* A root that is alone in the queue takes the whole window, where
  `scheduler.rs:177` speaks of half of it.
* `pause()` of a disabled loop replaces the status Disabled by Paused
  (`sync_loop.rs:153`).
* The verifier trusts the first row of its range: a break exactly behind the
  checkpoint passes on every later tick (`audit.rs:333`); rows of the sync loop's repository are unsigned
  (`sync_loop_runtime.rs:200`); a tick that cannot read the table is reported as a
  broken chain (`audit_verifier_service.rs:197`; the outcome `Unreadable` of the
  model).

FUSE write path (`write_path.rs` unless another file is named):

* Writes that were acknowledged before a crash stay in the staging directory and
  are not uploaded by the next mount (`fuser_shim.rs:223`).
* `rename` does not update the inode table (970), and the shim asks for the attributes
  of the old name after it has forgotten it (`fuser_shim.rs:709`).
* Files above the 4 MiB ceiling of the whole-file upload and below the threshold of
  the chunked one can be neither flushed nor drained (`mount_runtime.rs:56`).
* The count of staged bytes of the process drifts. It is raised before it is checked
  (578-581), so it passes its ceiling for a moment; it is not given back when staging
  or the journal fails after that (596-603, against "subtract on any error path",
  572-573), nor when a file with dirty bytes is unlinked or its handle is replaced; it is
  a static (294) and keeps the leak after an unmount. A long session of failing writes
  ends with every write refused. Flush, drain and release lower it by
  `fetch_sub(flushed.min(load()))` (722-725, 914-917, 1113-1116): two threads that load
  the same value may together take off more than it holds, and the counter wraps to a
  number no write fits under.
* The write-back of a stale `dirty` count (605) races the drain: the count of bytes
  already uploaded comes back, or the drain's reset clears that of a newer write, which
  a later drain then skips. The late landing of a
  drain overwrites a newer upload, or brings back a name that was unlinked or renamed
  (against the doc at lines 9-16).
* The release of one descriptor drops the handle another one still uses; an `unlink`
  that fails on the server has removed the blob already.
* The journal is written after the blob, against the doc at lines 30-52, is never
  applied or truncated, restarts its sequence numbers at every open, and a torn tail
  is not cut. `tick()` has no caller.

Transport:

* More than one probe may be with the server: a result of a call admitted while the
  breaker was closed clears the slot of a later probe (`circuit_breaker.rs:16-17`).
  `ProbeHasOwner` says what does hold: a taken slot belongs to a call that will report.
* The comment "which for Open is impossible" (`circuit_breaker.rs:250`) is wrong for
  the same reason. The slot leaks if the inner transport panics.
* The tokens of the budget may exceed its capacity for a moment.
* `wrap_binary` (`transport_factory.rs:151`), the constructor with `RateLimitMode::Wait`,
  has no caller outside tests; the run uses the other mode.

Uploads:

* After a permanent failure or a lost answer to `upload_save` the row stays with a dead
  upload id and later runs fail until it is purged; the purge
  (`transfer_bridge.rs:511`) has no caller. "Retry once without consuming retry budget"
  (`upload_state.rs:466`) does consume it.
* The row compares sizes, not contents; it is the checksum of `upload_info` that saves
  the file (`SavedIsPayload`, and the mutant `MutSizeOnly`). A session is orphaned when
  the row cannot be written. `pause()` after a failure reports Paused at offset 0.
* SDK session: `bytes_sent` may go back; `cancel()` racing a completing save makes
  `await_completion` return Ok; a pause or a resume that checked before the completion
  moves the state off its terminal value; a saved session may be longer than announced;
  a failed journal write leaves the state changed against the doc of `write_chunk`;
  `resume` is allowed without a pause; the clear of one session wipes the journal
  entries of the others.

Session:

* Without a session `try_install_pcloud_shim_factory` returns early and leaves the
  factory of an earlier mount in place (`runtime.rs:2187`), so a mount after a logout
  serves with the old token (against "falls back to the `NullFuseAdapter`",
  `runtime.rs:1272`). Trace: login, mount, logout, mount.
* A session restored or opened at boot has no lifecycle and is never refreshed. The
  tick that finds a token revoked clears the session in memory and neither the vault
  nor the account row nor the mount.
* With a platform vault a login over IPC is stored in the file and never restored.
* A network error at boot is taken for a refused token and clears the vault
  (`bootstrap.rs:547`).
* The pending password outlives a failed challenge (`runtime.rs:71`); a challenge
  without a token for which no password was kept cannot be answered.
* A wrong second factor leaves the state AuthenticatingWithPassword (`manager.rs:319`).
* A vault write that fails after its rename is reported as a failure and not rolled
  back by `persist_auth_state`.

Read and not modelled: a passive daemon never polls or promotes itself
(`ha_lease.rs:4`, `bootstrap.rs:691`), and the lease's metadata is rewritten in place.

## 9. Not modelled, and why

* **HA lease**: the exclusive lock of the operating system is the whole protocol; the
  heartbeat is informative and there is no promotion to model.
* **Session**: the clocks and thresholds of the refresh lifecycle, the requests for an
  SMS or a notification, which change no state, and the bodies of the platform vaults.
* **Page and metadata caches**: the write path uses the inode table only.
* **The in-memory upload registry of the daemon**: edited by one thread, drives no
  transfer.
* **Downloads and the single-request upload of `transfer_backend.rs`**: one request
  each, modelled as a transfer of `SyncLoop`.
* **Conflict resolver, sweepers**: report only, in this runtime.
* **Selective sync, watcher, power**: inputs of the loop; `Trees`, `EventBatches`
  and `SkipCycle` stand for them.
* **The IPC thread's own engine**: its queue is never dispatched by the loop; only
  its effect on the store is modelled.
* **Crypto, codecs, configuration, platform code of the mount, front ends,
  observability**: computation or I/O without a protocol TLC could explore. They are
  most of the repository's lines, which is why the map covers a small share of it.
* **Names and contents**: paths are numbers, of which some are refused; no run
  plans folders or conflicts, which the operators of `PlannedOps` and the proofs
  about them do cover.
* **`AuditVerifierShell::run_once`**: only tests call it; it repeats a tick.
* **Time**: intervals, cron schedules, back-off and the refill of the token bucket are
  nondeterministic choices.
* **Delayed requests**: a request is applied before its call returns, or never. Two runs
  of one local path at a time are not modelled either.

## 10. Plan

Done: every module of section 2 with its runs and theorems. Next, in this order:

1. An abstract resumable upload that `ResumableUpload` and the chunked flush of `WritePath`
   both implement: sessions that grow by acknowledged chunks and are saved whole.
2. The same for `UploadSession`.
3. `WriteJournal`: records, torn tails and replay, once the mount reads it.
