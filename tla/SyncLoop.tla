------------------------------- MODULE SyncLoop -------------------------------
(***************************************************************************)
(* The background sync loop of the pCloud daemon over its engine and its   *)
(* SQLite store, with the IPC thread that edits the sync roots and with    *)
(* crashes of the process.                                                 *)
(*                                                                         *)
(* Durable state ends in Db; everything else is memory of the process and  *)
(* is rebuilt by Crash, which is a crash (or exit) followed by a boot.     *)
(* Between two steps of the loop the IPC thread may run or the process may *)
(* die; writes that need no step of their own are those after which the    *)
(* loop touches memory only.                                               *)
(***************************************************************************)
EXTENDS PlannedOps

CONSTANTS
    InitRoots,      \* sync roots in the store when the daemon first starts
    RootTypes,      \* sync types a user may ask for
    DiffRoot,       \* the sync id convert_diff_batch writes on every batch
    RemoteEntries,  \* changes other clients may make to the account
    Trees,          \* what a full walk of a local tree may return
    EventBatches,   \* what a watcher may have queued since the last scan
    BadPaths,       \* names is_valid_relative_path rejects
    NoIdPaths,      \* remote files whose diff entry carries no file id
    BatchLimit,     \* DiffPoller::batch_limit
    MaxOps,         \* Planner: operations per tick
    OverflowMax,    \* PLANNER_OVERFLOW_MAX
    Limit,          \* scheduler window, uploads + downloads
    Propagate,      \* SyncLoopConfig::propagate_deletes
    MaxChange, MaxCrash, MaxIpc, MaxFault   \* bounds on the environment

Change == [path : Paths, kind : EntryKinds, change : ChangeKinds]

RootRecord == [paused : BOOLEAN, type : SyncTypes]

\* A table of sync roots.
RootTable == UNION {[S -> RootRecord] : S \in SUBSET SyncIds}

ASSUME SyncLoopAssumption ==
    /\ IsFiniteSet(SyncIds)
    /\ DiffRoot \in SyncIds
    /\ InitRoots \in RootTable
    /\ RootTypes \subseteq SyncTypes
    /\ RemoteEntries \subseteq Change
    /\ Trees \subseteq Seq(Change) /\ EventBatches \subseteq Seq(Change)
    /\ BatchLimit \in Nat \ {0} /\ Limit \in Nat \ {0}
    /\ MaxOps \in Nat /\ OverflowMax \in Nat
    /\ Propagate \in BOOLEAN
    /\ {MaxChange, MaxCrash, MaxIpc, MaxFault} \subseteq Nat

VARIABLES
    log,            \* remote change log of the account
    rootsIpc,       \* the IPC thread's copy of the sync roots
    rootsDb,        \* sync_root_records
    cursorDb,       \* sync_diff_state, per root; no row reads as 0
    queueDb,        \* value sync.scheduler.queue
    overflowDb,     \* value of the dead-letter key
    pc,             \* where the loop thread is
    prevRoots,      \* prev_root_ids
    todo,           \* roots of this cycle still to visit, as listed
    fetched,        \* cursor of the batch ingested and not yet committed
    queue,          \* scheduler.queued_operations
    dispatched,     \* scheduler.dispatched_operations
    overflow,       \* planner_overflow
    pausedMem,      \* paused_sync_roots of the loop's engine
    fullScanned,    \* scan_tracker.last_full_scan
    inflight,       \* the lists of the two transfer coordinators
    tasks,          \* the cloned list execute_downloads / _uploads walks
    staged,         \* paths with staged bytes in memory
    crashes, ipcs, faults,
    saved,          \* history: did the last write of queueDb succeed?
    ingested        \* history: the furthest log position ever planned, per root

envVars == <<log, rootsIpc, rootsDb, ipcs>>
dbVars == <<cursorDb, queueDb, overflowDb>>
engineVars == <<queue, dispatched, overflow, pausedMem, fullScanned, inflight, staged>>
cycleVars == <<pc, prevRoots, todo, fetched, tasks>>
ghostVars == <<saved, ingested>>
vars == <<envVars, dbVars, engineVars, cycleVars, crashes, faults, ghostVars>>

Init ==
    /\ log = <<>>
    /\ rootsIpc = InitRoots /\ rootsDb = InitRoots
    /\ cursorDb = [r \in SyncIds |-> 0]
    /\ queueDb = <<>> /\ overflowDb = <<>>
    /\ pc = "idle"
    /\ prevRoots = DOMAIN InitRoots
    /\ todo = <<>> /\ fetched = 0
    /\ queue = <<>> /\ dispatched = <<>> /\ overflow = <<>>
    /\ pausedMem = {r \in DOMAIN InitRoots : InitRoots[r].paused}
    /\ fullScanned = {} /\ inflight = <<>> /\ tasks = <<>> /\ staged = {}
    /\ crashes = 0 /\ ipcs = 0 /\ faults = 0
    /\ saved = TRUE /\ ingested = [r \in SyncIds |-> 0]

-----------------------------------------------------------------------------
(* Writes of the value store.  A failed write is logged and forgotten. *)

Fault == faults < MaxFault /\ faults' = faults + 1

\* Mutant: only what is in flight is written.
MutDispatchedOnly(q, d) ==
    \/ /\ queueDb' = snapshot_scheduler_durable(<<>>, d)
       /\ saved' = TRUE
       /\ UNCHANGED faults
    \/ Fault /\ saved' = FALSE /\ UNCHANGED queueDb

persist_scheduler_queue(q, d) ==
    \/ /\ queueDb' = snapshot_scheduler_durable(q, d)
       /\ saved' = TRUE
       /\ UNCHANGED faults
    \/ /\ Fault
       /\ saved' = FALSE
       /\ UNCHANGED queueDb

persist_planner_overflow(o) ==
    \/ overflowDb' = o /\ UNCHANGED faults
    \/ Fault /\ UNCHANGED overflowDb

-----------------------------------------------------------------------------
(* The account and the IPC thread. *)

RemoteChange ==
    /\ Len(log) < MaxChange
    /\ \E e \in RemoteEntries : log' = Append(log, e)
    /\ UNCHANGED <<rootsIpc, rootsDb, ipcs, dbVars, engineVars, cycleVars,
                   crashes, faults, ghostVars>>

Ipc ==
    /\ ipcs < MaxIpc
    /\ ipcs' = ipcs + 1
    /\ UNCHANGED <<log, dbVars, engineVars, cycleVars, crashes, ghostVars>>

\* persist_profile of the IPC thread's roots.  Every handler but the removal
\* takes its change back when this fails, which leaves no trace.
StoreRoots(roots) ==
    /\ rootsIpc' = roots
    /\ rootsDb' = roots
    /\ UNCHANGED faults

add_sync_root(t) ==
    /\ Ipc
    /\ \E id \in SyncIds :
        /\ \A r \in DOMAIN rootsIpc : r < id
        /\ id = 1 \/ (id - 1) \in DOMAIN rootsIpc
        /\ StoreRoots([r \in DOMAIN rootsIpc \cup {id} |->
                        IF r = id THEN [paused |-> FALSE, type |-> t] ELSE rootsIpc[r]])

Remaining(r) == [q \in DOMAIN rootsIpc \ {r} |-> rootsIpc[q]]

remove_sync_root(r) ==
    /\ Ipc
    /\ r \in DOMAIN rootsIpc
    /\ \/ StoreRoots(Remaining(r))
       \/ /\ Fault
          /\ rootsIpc' = Remaining(r)
          /\ UNCHANGED rootsDb

set_root_paused(r, flag) ==
    /\ Ipc
    /\ r \in DOMAIN rootsIpc
    /\ rootsIpc[r].paused # flag
    /\ StoreRoots([rootsIpc EXCEPT ![r].paused = flag])

change_sync_root_type(r, t) ==
    /\ Ipc
    /\ r \in DOMAIN rootsIpc
    /\ rootsIpc[r].type # t
    /\ StoreRoots([rootsIpc EXCEPT ![r].type = t])

-----------------------------------------------------------------------------
(* One cycle: sync_loop_main, run_cycle and sync_one_root. *)

KeepRoots(s, gone) == Pick(s, {i \in DOMAIN s : s[i].sync \notin gone})

\* The ids list_sync_roots returns: none when the store cannot be read.
ListedIds == {DOMAIN rootsDb} \cup {S \in {{}} : faults < MaxFault}

\* Mutant: the queue is written before the roots are taken out of it.
MutWriteThenEvict(gone) ==
    /\ queue' = KeepRoots(queue, gone)
    /\ dispatched' = KeepRoots(dispatched, gone)
    /\ inflight' = KeepRoots(inflight, gone)
    /\ pausedMem' = pausedMem \ gone
    /\ fullScanned' = fullScanned \ gone
    /\ \/ gone = {} /\ UNCHANGED <<queueDb, saved, faults>>
       \/ gone # {} /\ persist_scheduler_queue(queue, dispatched)

\* Called for each root that is gone; the last call leaves what is here.
evict_removed_root(gone) ==
    /\ queue' = KeepRoots(queue, gone)
    /\ dispatched' = KeepRoots(dispatched, gone)
    /\ inflight' = KeepRoots(inflight, gone)
    /\ pausedMem' = pausedMem \ gone
    /\ fullScanned' = fullScanned \ gone
    /\ \/ gone = {} /\ UNCHANGED <<queueDb, saved, faults>>
       \/ gone # {} /\ persist_scheduler_queue(queue', dispatched')

\* The top of the loop: roots missing from the list and present in the one of
\* the previous cycle are evicted from the engine and the queue is written.
EvictRemovedRoots ==
    /\ pc = "idle"
    /\ pc' = "list"
    /\ prevRoots' \in ListedIds
    /\ evict_removed_root(prevRoots \ prevRoots')
    /\ UNCHANGED <<envVars, cursorDb, overflowDb, overflow, staged, todo,
                   fetched, tasks, crashes, ingested>>

\* list_sync_roots, in sync id order.
RootList ==
    LET ids == DOMAIN rootsDb
        nth(n) == CHOOSE r \in ids : Cardinality({q \in ids : q <= r}) = n
    IN  [n \in 1..Cardinality(ids) |->
            [id |-> nth(n), paused |-> rootsDb[nth(n)].paused, type |-> rootsDb[nth(n)].type]]

ListRoots ==
    /\ pc = "list"
    /\ pc' = "pick"
    /\ todo' = RootList
    /\ UNCHANGED <<envVars, dbVars, engineVars, prevRoots, fetched, tasks,
                   crashes, faults, ghostVars>>

\* No session, paused on battery, or no root listed.
SkipCycle ==
    /\ pc = "list"
    /\ pc' = "idle"
    /\ UNCHANGED <<envVars, dbVars, engineVars, prevRoots, todo, fetched, tasks,
                   crashes, faults, ghostVars>>

cur == Head(todo)

\* Mutant: a paused root is not passed over.
MutStuckOnPaused ==
    /\ pc = "pick" /\ todo # <<>>
    /\ cur.paused \/ cur.id \in pausedMem
    /\ UNCHANGED vars

\* Mutant: a paused root ends the cycle.
MutBreakOnPaused ==
    /\ pc = "pick" /\ todo # <<>>
    /\ cur.paused \/ cur.id \in pausedMem
    /\ todo' = <<>>
    /\ UNCHANGED <<envVars, dbVars, engineVars, pc, prevRoots, fetched, tasks,
                   crashes, faults, ghostVars>>

SkipRoot ==
    /\ pc = "pick" /\ todo # <<>>
    /\ cur.paused \/ cur.id \in pausedMem
    /\ todo' = Tail(todo)
    /\ UNCHANGED <<envVars, dbVars, engineVars, pc, prevRoots, fetched, tasks,
                   crashes, faults, ghostVars>>

BeginRoot ==
    /\ pc = "pick" /\ todo # <<>>
    /\ ~cur.paused /\ cur.id \notin pausedMem
    /\ pc' = IF cur.type = "UploadOnly" THEN "scan" ELSE "poll"
    /\ UNCHANGED <<envVars, dbVars, engineVars, prevRoots, todo, fetched, tasks,
                   crashes, faults, ghostVars>>

EndCycle ==
    /\ pc = "pick" /\ todo = <<>>
    /\ pc' = "idle"
    /\ UNCHANGED <<envVars, dbVars, engineVars, prevRoots, todo, fetched, tasks,
                   crashes, faults, ghostVars>>

-----------------------------------------------------------------------------
(* Ingestion: ingest_candidates_filtered. *)

cap_overflow(o) == IF Len(o) > OverflowMax THEN SubSeq(o, 1, OverflowMax) ELSE o

\* single_sync_id(cands) # None.
SingleRoot(cands) ==
    cands # <<>> /\ \A i \in DOMAIN cands : cands[i].sync = cands[1].sync

ingest_candidates_filtered(cands) ==
    \E combined \in {overflow \o cands} :
        /\ overflow' = cap_overflow(plan_with_overflow_rest(combined, MaxOps))
        /\ \E ops \in {plan_filtered(combined, MaxOps, cur.type, Propagate)} :
                queue' = IF SingleRoot(combined)
                         THEN replace_queue_for_sync_id(queue, combined[1].sync, ops)
                         ELSE SortOps(ops)

Candidates(entries, r, src) ==
    [i \in DOMAIN entries |->
        [sync |-> r, source |-> src, path |-> entries[i].path,
         kind |-> entries[i].kind, change |-> entries[i].change]]

HasBadPath(entries) == \E i \in DOMAIN entries : entries[i].path \in BadPaths

-----------------------------------------------------------------------------
(* poll_remote_diff. *)

AfterPoll == IF cur.type = "DownloadOnly" THEN "advance" ELSE "scan"

NextCursor == LET n == cursorDb[cur.id] + BatchLimit
              IN  IF n <= Len(log) THEN n ELSE Len(log)

\* diff(cursor, batch_limit): the account's changes after the root's cursor.
DiffBatch == SubSeq(log, cursorDb[cur.id] + 1, NextCursor)

\* Fetch, ingest and write the overflow.
PollRemoteDiff ==
    /\ pc = "poll"
    /\ ~HasBadPath(DiffBatch)
    /\ pc' = "commit"
    /\ fetched' = NextCursor
    /\ ingested' = [ingested EXCEPT ![cur.id] = IF @ < NextCursor THEN NextCursor ELSE @]
    /\ ingest_candidates_filtered(Candidates(DiffBatch, DiffRoot, "Remote"))
    /\ persist_planner_overflow(overflow')
    /\ UNCHANGED <<envVars, cursorDb, queueDb, dispatched, pausedMem, fullScanned,
                   inflight, staged, prevRoots, todo, tasks, crashes, saved>>

\* Mutant: the cursor skips a batch that could not be ingested.
MutSkipBatch ==
    /\ pc = "poll"
    /\ pc' = AfterPoll
    /\ cursorDb' = [cursorDb EXCEPT ![cur.id] = NextCursor]
    /\ UNCHANGED <<envVars, queueDb, overflowDb, engineVars, prevRoots, todo, fetched,
                   tasks, crashes, faults, ghostVars>>

\* The request failed, or the batch holds a name normalize_batch rejects.
PollError ==
    /\ pc = "poll"
    /\ pc' = AfterPoll
    /\ UNCHANGED <<envVars, dbVars, engineVars, prevRoots, todo, fetched, tasks,
                   crashes, faults, ghostVars>>

\* Mutant: the size of the batch is written in place of its cursor.
MutCommitCount ==
    /\ pc = "commit"
    /\ pc' = AfterPoll
    /\ cursorDb' = [cursorDb EXCEPT ![cur.id] = fetched - @]
    /\ UNCHANGED <<envVars, queueDb, overflowDb, engineVars, prevRoots, todo,
                   fetched, tasks, crashes, faults, ghostVars>>

\* One SQLite transaction; when it fails the cursor stays.
commit_diff_batch ==
    /\ pc = "commit"
    /\ pc' = AfterPoll
    /\ \/ /\ cursorDb' = IF fetched > cursorDb[cur.id]
                         THEN [cursorDb EXCEPT ![cur.id] = fetched] ELSE cursorDb
          /\ UNCHANGED faults
       \/ Fault /\ UNCHANGED cursorDb
    /\ UNCHANGED <<envVars, queueDb, overflowDb, engineVars, prevRoots, todo,
                   fetched, tasks, crashes, ghostVars>>

-----------------------------------------------------------------------------
(* run_local_scan. *)

ScanIngest(entries) ==
    IF HasBadPath(entries)
    THEN /\ pc' = "advance"
         /\ UNCHANGED <<queue, overflow, overflowDb, faults>>
    ELSE /\ pc' = "save"
         /\ ingest_candidates_filtered(Candidates(entries, cur.id, "Local"))
         /\ persist_planner_overflow(overflow')

ScanUnchanged ==
    UNCHANGED <<envVars, cursorDb, queueDb, dispatched, pausedMem, inflight, staged,
                prevRoots, todo, fetched, tasks, crashes, ghostVars>>

\* A root not walked since it was first seen, or whose interval has elapsed.
FullScan ==
    /\ pc = "scan"
    /\ \E tree \in Trees : ScanIngest(tree)
    /\ fullScanned' = fullScanned \cup {cur.id}
    /\ ScanUnchanged

IncrementalScan ==
    /\ pc = "scan" /\ cur.id \in fullScanned
    /\ \E events \in EventBatches : ScanIngest(events)
    /\ UNCHANGED fullScanned
    /\ ScanUnchanged

\* No pending event, or the walk failed.
NothingScanned ==
    /\ pc = "scan"
    /\ pc' = "advance"
    /\ UNCHANGED <<queue, overflow, overflowDb, faults, fullScanned>>
    /\ ScanUnchanged

SaveQueue ==
    /\ pc = "save"
    /\ pc' = "advance"
    /\ persist_scheduler_queue(queue, dispatched)
    /\ UNCHANGED <<envVars, cursorDb, overflowDb, engineVars, prevRoots, todo,
                   fetched, tasks, crashes, ingested>>

-----------------------------------------------------------------------------
(* advance_transfers and the transfers themselves. *)

FileTasks(ops, k) == Pick(ops, {i \in DOMAIN ops : ops[i].op = k})

\* accept_batch of both coordinators: every operation but a conflict.
accept_batch(batch) == Pick(batch, {i \in DOMAIN batch : batch[i].op # "Conflict"})

advance_transfers ==
    /\ pc = "advance"
    /\ \E I \in {take_fair_batch(queue, Limit)} :
        \E batch \in {Pick(queue, I)} :
            /\ queue' = Pick(queue, DOMAIN queue \ I)
            /\ dispatched' = push_dispatched(dispatched, batch)
            /\ inflight' = accept_batch(batch)
            /\ \/ I = {} /\ UNCHANGED <<queueDb, saved, faults>>
               \/ I # {} /\ persist_scheduler_queue(queue', dispatched')
    /\ IF cur.type = "UploadOnly"
       THEN pc' = "uploads" /\ tasks' = FileTasks(inflight', "UploadFile")
       ELSE pc' = "downloads" /\ tasks' = FileTasks(inflight', "DownloadFile")
    /\ UNCHANGED <<envVars, cursorDb, overflowDb, overflow, pausedMem, fullScanned,
                   staged, prevRoots, todo, fetched, crashes, ingested>>

\* The order in which mark_completed and mark_failed search the lists.
ListRank(o) ==
    CASE o.op = "UploadFile" -> 1
      [] o.op = "DeleteRemote" -> 2
      [] o.op = "CreateRemoteDirectory" -> 3
      [] o.op = "DownloadFile" -> 4
      [] o.op = "DeleteLocal" -> 5
      [] o.op = "CreateLocalDirectory" -> 6

AtPath(p) == {i \in DOMAIN inflight : inflight[i].path = p}

\* move_task: the first entry at the path, whatever its root, leaves its list.
move_task(p) ==
    IF AtPath(p) = {} THEN inflight
    ELSE LET best == CHOOSE i \in AtPath(p) : \A j \in AtPath(p) :
                        \/ ListRank(inflight[i]) < ListRank(inflight[j])
                        \/ ListRank(inflight[i]) = ListRank(inflight[j]) /\ i <= j
         IN  Pick(inflight, DOMAIN inflight \ {best})

Transferred(t) ==
    /\ tasks' = Tail(tasks)
    /\ inflight' = move_task(t.path)
    /\ IF AtPath(t.path) = {}
       THEN UNCHANGED dispatched
       ELSE dispatched' = ack_batch(dispatched, {Key(t)})

TransferFailed(t) ==
    /\ tasks' = Tail(tasks)
    /\ inflight' = move_task(t.path)
    /\ UNCHANGED dispatched

TransferUnchanged ==
    UNCHANGED <<envVars, dbVars, queue, overflow, pausedMem, fullScanned, pc,
                prevRoots, todo, fetched, crashes, faults, saved, ingested>>

\* A small download is also staged in memory.
DownloadDone ==
    /\ pc = "downloads" /\ tasks # <<>> /\ Head(tasks).path \notin NoIdPaths
    /\ Transferred(Head(tasks))
    /\ staged' \in {staged, staged \cup {Head(tasks).path}}
    /\ TransferUnchanged

DownloadFailed ==
    /\ pc = "downloads" /\ tasks # <<>> /\ Head(tasks).path \notin NoIdPaths
    /\ TransferFailed(Head(tasks))
    /\ UNCHANGED staged
    /\ TransferUnchanged

DownloadSkipped ==
    /\ pc = "downloads" /\ tasks # <<>> /\ Head(tasks).path \in NoIdPaths
    /\ tasks' = Tail(tasks)
    /\ UNCHANGED <<inflight, dispatched, staged>>
    /\ TransferUnchanged

EndDownloads ==
    /\ pc = "downloads" /\ tasks = <<>>
    /\ IF cur.type = "DownloadOnly"
       THEN pc' = "pick" /\ todo' = Tail(todo) /\ UNCHANGED tasks
       ELSE pc' = "uploads" /\ tasks' = FileTasks(inflight, "UploadFile") /\ UNCHANGED todo
    /\ UNCHANGED <<envVars, dbVars, engineVars, prevRoots, fetched, crashes, faults,
                   ghostVars>>

\* An upload reads its bytes from the loop's own staging.
UploadDone ==
    /\ pc = "uploads" /\ tasks # <<>> /\ Head(tasks).path \in staged
    /\ Transferred(Head(tasks))
    /\ UNCHANGED staged
    /\ TransferUnchanged

UploadFailed ==
    /\ pc = "uploads" /\ tasks # <<>>
    /\ TransferFailed(Head(tasks))
    /\ UNCHANGED staged
    /\ TransferUnchanged

EndUploads ==
    /\ pc = "uploads" /\ tasks = <<>>
    /\ pc' = "pick"
    /\ todo' = Tail(todo)
    /\ UNCHANGED <<envVars, dbVars, engineVars, prevRoots, fetched, tasks, crashes,
                   faults, ghostVars>>

-----------------------------------------------------------------------------
(* The process dies (or exits) and starts again: RealSyncLoopRuntime::new. *)

\* What a boot finds in the store: roots, paused roots, overflow and queue.
Boot(roots, stopped, deferred, saved_queue) ==
    /\ crashes < MaxCrash
    /\ crashes' = crashes + 1
    /\ rootsIpc' = rootsDb
    /\ pc' = "idle"
    /\ prevRoots' = roots
    /\ todo' = <<>> /\ fetched' = 0 /\ tasks' = <<>>
    /\ pausedMem' = stopped
    /\ overflow' = deferred
    /\ queue' = SortOps(saved_queue)
    /\ dispatched' = <<>> /\ inflight' = <<>> /\ staged' = {} /\ fullScanned' = {}
    /\ UNCHANGED <<log, rootsDb, ipcs, dbVars, ghostVars>>

PausedInDb == {r \in DOMAIN rootsDb : rootsDb[r].paused}

\* Mutant: a boot does not restore the queue.
MutForgetQueue == Boot(DOMAIN rootsDb, PausedInDb, overflowDb, <<>>) /\ UNCHANGED faults

Crash == Boot(DOMAIN rootsDb, PausedInDb, overflowDb, queueDb) /\ UNCHANGED faults

\* Each read of the boot may fail on its own; its result is then empty.
CrashUnreadable ==
    /\ Fault
    /\ \E roots \in {DOMAIN rootsDb, {}}, stopped \in {PausedInDb, {}},
          deferred \in {overflowDb, <<>>}, saved_queue \in {queueDb, <<>>} :
            Boot(roots, stopped, deferred, saved_queue)

-----------------------------------------------------------------------------
LoopStep ==
    \/ EvictRemovedRoots \/ ListRoots \/ SkipCycle
    \/ SkipRoot \/ BeginRoot \/ EndCycle
    \/ PollRemoteDiff \/ PollError \/ commit_diff_batch
    \/ FullScan \/ IncrementalScan \/ NothingScanned \/ SaveQueue
    \/ advance_transfers
    \/ DownloadDone \/ DownloadFailed \/ DownloadSkipped \/ EndDownloads
    \/ UploadDone \/ UploadFailed \/ EndUploads

IpcStep ==
    \/ \E t \in RootTypes : add_sync_root(t)
    \/ \E r \in SyncIds : remove_sync_root(r)
    \/ \E r \in SyncIds, flag \in BOOLEAN : set_root_paused(r, flag)
    \/ \E r \in SyncIds, t \in RootTypes : change_sync_root_type(r, t)

Next == LoopStep \/ IpcStep \/ RemoteChange \/ Crash \/ CrashUnreadable

Spec == Init /\ [][Next]_vars

\* The loop is a thread that is always eventually scheduled and every call it
\* makes returns; strong fairness of ListRoots says that the daemon booted with
\* a session and that the host is not on battery for ever, so that not every
\* cycle is skipped.
FairSpec == Spec /\ WF_vars(LoopStep) /\ SF_vars(ListRoots)

-----------------------------------------------------------------------------
(* Properties. *)

PCs == {"idle", "list", "pick", "poll", "commit", "scan", "save", "advance",
        "downloads", "uploads"}

Listed == [id : SyncIds, paused : BOOLEAN, type : SyncTypes]

\* Types, and the two places where the control state promises data: a root is
\* being visited wherever the code holds one.
TypeOK ==
    /\ log \in Seq(Change)
    /\ rootsIpc \in RootTable /\ rootsDb \in RootTable
    /\ cursorDb \in [SyncIds -> Nat] /\ ingested \in [SyncIds -> Nat]
    /\ queueDb \in Seq(PlannedOperation) /\ queue \in Seq(PlannedOperation)
    /\ dispatched \in Seq(PlannedOperation) /\ inflight \in Seq(PlannedOperation)
    /\ tasks \in Seq(PlannedOperation)
    /\ overflowDb \in Seq(Candidate) /\ overflow \in Seq(Candidate)
    /\ pc \in PCs
    /\ todo \in Seq(Listed)
    /\ pc \notin {"idle", "list", "pick"} => todo # <<>>
    /\ prevRoots \subseteq SyncIds /\ pausedMem \subseteq SyncIds
    /\ fullScanned \subseteq SyncIds
    /\ staged \subseteq Paths
    /\ fetched \in Nat
    /\ saved \in BOOLEAN
    /\ crashes \in Nat /\ ipcs \in Nat /\ faults \in Nat

\* Work in flight is durable (scheduler.rs, dispatched_operations): unless the
\* last write of the queue failed, every dispatched and unacknowledged
\* (root, path) is in the persisted queue, at every step of the loop.
InFlightDurable == saved => Keys(Elems(dispatched)) \subseteq Keys(Elems(queueDb))

\* Between two roots everything still queued is durable too, although
\* poll_remote_diff re-plans without writing the queue and advance_transfers
\* writes only when it dispatches something.
BetweenRootsDurable ==
    saved /\ pc \notin {"commit", "scan", "save", "advance"} =>
        Keys(Elems(queue)) \subseteq Keys(Elems(queueDb))

\* A crash between dispatch and acknowledgement re-queues the work on restart
\* when the boot can read the store (scheduler.rs, ack_batch;
\* EngineShell::restore_scheduler_queue).
InterruptedWorkRequeued ==
    [][Crash /\ saved => Keys(Elems(dispatched)) \subseteq Keys(Elems(queue'))]_vars

\* An acknowledgement is scoped to the transfer that succeeded: a running loop
\* forgets a dispatched operation only when its own transfer is being marked,
\* or when its root is missing from the list just read (Scheduler::ack_batch,
\* two roots sharing a relative path; evict_removed_root).
AckOnlyOwnTransfer ==
    [][crashes' = crashes =>
        \A o \in Elems(dispatched) \ Elems(dispatched') :
            \/ pc \in {"downloads", "uploads"} /\ Key(o) = Key(Head(tasks))
            \/ pc = "idle" /\ o.sync \notin prevRoots']_vars

Ledger == INSTANCE DurableQueue WITH
    Roots <- SyncIds, Names <- Paths,
    waiting <- Keys(Elems(queue)), handedOut <- Keys(Elems(dispatched)),
    stored <- Keys(Elems(queueDb)), safe <- saved

\* The loop implements DurableQueue: whatever it plans, dispatches, marks and
\* evicts, the store holds exactly the work of the last write that succeeded,
\* work is handed out only with such a write, and a restart waits for what is
\* stored (advance_transfers, persist_scheduler_queue, restore_scheduler_queue).
WorkIsLedgered == Ledger!Spec

\* The diff cursor never advances before the batch has been ingested
\* (poll_remote_diff, commit_diff_batch), through crashes and failed commits.
CursorBehindIngest == \A r \in SyncIds : cursorDb[r] <= ingested[r] /\ ingested[r] <= Len(log)

\* No failure, retry or restart moves a root's cursor backwards
\* (commit_diff_batch saves only a larger cursor).
CursorNeverRewinds == [][\A r \in SyncIds : cursorDb[r] <= cursorDb'[r]]_vars

\* Whatever fails, a cycle comes to its end and the loop returns to its wait
\* (sync_loop_main, run_cycle).
CycleCompletes == pc # "idle" ~> pc = "idle"

Visiting(r) == pc \in {"poll", "scan"} /\ todo # <<>> /\ cur.id = r

ActiveInStore(r) == r \in DOMAIN rootsDb /\ ~rootsDb[r].paused

\* A root that stays in the store, not paused there nor in the loop's engine,
\* is synchronised again and again (run_cycle visits every listed root).
ActiveRootsServed ==
    \A r \in SyncIds :
        <>[](ActiveInStore(r) /\ r \notin pausedMem) => []<>Visiting(r)
=============================================================================
