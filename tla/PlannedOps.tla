------------------------------ MODULE PlannedOps ------------------------------
(***************************************************************************)
(* The vocabulary of the sync engine and its pure functions: candidates,   *)
(* planned operations, the planner (plan_with_overflow and the delete      *)
(* policy), the order of the scheduler queue and the fair batch.           *)
(*                                                                         *)
(* Sync ids and paths are natural numbers: the code compares both with     *)
(* their total order and nothing else about them matters here.  Lists are  *)
(* sequences, because the planner lets the last candidate of a (path,      *)
(* source) pair win and the scheduler sorts stably.                        *)
(***************************************************************************)
EXTENDS Naturals, Sequences, FiniteSets

CONSTANTS SyncIds,   \* sync root ids (pcloud_model::ids::SyncId)
          Paths      \* relative paths

ASSUME IdsAndPathsAreNat == SyncIds \subseteq Nat /\ Paths \subseteq Nat

Sources == {"Local", "Remote"}
EntryKinds == {"File", "Folder"}
ChangeKinds == {"Upsert", "Delete"}

Candidate == [sync : SyncIds, source : Sources, path : Paths,
              kind : EntryKinds, change : ChangeKinds]

OpKinds == {"Conflict", "DeleteLocal", "DeleteRemote", "CreateLocalDirectory",
            "CreateRemoteDirectory", "DownloadFile", "UploadFile"}

PlannedOperation == [op : OpKinds, sync : SyncIds, path : Paths]

Planned(k, c) == [op |-> k, sync |-> c.sync, path |-> c.path]

\* The key an acknowledgement matches on.
Key(o) == <<o.sync, o.path>>
Keys(S) == {Key(o) : o \in S}

Elems(s) == {s[i] : i \in DOMAIN s}

priority(o) ==
    CASE o.op = "Conflict" -> 0
      [] o.op \in {"DeleteLocal", "DeleteRemote"} -> 1
      [] o.op \in {"CreateLocalDirectory", "CreateRemoteDirectory"} -> 2
      [] o.op \in {"DownloadFile", "UploadFile"} -> 3

-----------------------------------------------------------------------------
(* Sub-sequences and stable sorting, in closed form. *)

\* s restricted to the indices in I, order kept.
Pick(s, I) ==
    [n \in 1..Cardinality(I) |->
        s[CHOOSE i \in I : Cardinality({j \in I : j <= i}) = n]]

\* The stable sort of s by the strict order Lt(_, _).
StableSort(s, Lt(_, _)) ==
    LET Before(j, i) == \/ Lt(s[j], s[i])
                        \/ ~Lt(s[i], s[j]) /\ j <= i
    IN  [n \in DOMAIN s |->
            s[CHOOSE i \in DOMAIN s :
                Cardinality({j \in DOMAIN s : Before(j, i)}) = n]]

\* The order of the scheduler queue: priority, then path.
DispatchLt(a, b) == \/ priority(a) < priority(b)
                    \/ priority(a) = priority(b) /\ a.path < b.path

SortOps(ops) == StableSort(ops, DispatchLt)

\* The order in which the planner visits candidates: path, then source.
CandidateLt(a, b) == \/ a.path < b.path
                     \/ a.path = b.path /\ a.source = "Local" /\ b.source = "Remote"

-----------------------------------------------------------------------------
(* The planner. *)

plan_single(c) ==
    CASE c.change = "Delete" /\ c.source = "Local"  -> Planned("DeleteRemote", c)
      [] c.change = "Delete" /\ c.source = "Remote" -> Planned("DeleteLocal", c)
      [] c.change = "Upsert" /\ c.source = "Local" /\ c.kind = "File"
            -> Planned("UploadFile", c)
      [] c.change = "Upsert" /\ c.source = "Remote" /\ c.kind = "File"
            -> Planned("DownloadFile", c)
      [] c.change = "Upsert" /\ c.source = "Local" /\ c.kind = "Folder"
            -> Planned("CreateRemoteDirectory", c)
      [] c.change = "Upsert" /\ c.source = "Remote" /\ c.kind = "Folder"
            -> Planned("CreateLocalDirectory", c)

\* Both sides changed: a conflict of the local candidate's root, unless both
\* sides deleted the same kind of entry.
plan_conflict_or_resolution(l, r) ==
    IF l.kind = r.kind /\ l.change = "Delete" /\ r.change = "Delete"
    THEN Planned("DeleteLocal", r)
    ELSE Planned("Conflict", l)

\* The candidates of one path, whatever their root, make one operation; of
\* several candidates from one source the last one is used.
PlanPath(cands, p) ==
    LET At(src) == {i \in DOMAIN cands : cands[i].path = p /\ cands[i].source = src}
        Last(I) == cands[CHOOSE i \in I : \A j \in I : j <= i]
        L == At("Local")
        R == At("Remote")
    IN  IF L # {} /\ R # {} THEN plan_conflict_or_resolution(Last(L), Last(R))
        ELSE plan_single(Last(L \cup R))

CandPaths(cands) == {cands[i].path : i \in DOMAIN cands}

\* The paths the per-tick cap leaves room for: the smallest max of them.
PlannedPaths(cands, max) ==
    {p \in CandPaths(cands) :
        Cardinality({q \in CandPaths(cands) : q < p}) < max}

\* The operations of one tick, in path order.
plan_with_overflow_ops(cands, max) ==
    LET P == PlannedPaths(cands, max)
    IN  [n \in 1..Cardinality(P) |->
            PlanPath(cands,
                     CHOOSE p \in P : Cardinality({q \in P : q <= p}) = n)]

\* The candidates the cap defers, in the planner's order.
plan_with_overflow_rest(cands, max) ==
    LET I == {i \in DOMAIN cands : cands[i].path \notin PlannedPaths(cands, max)}
    IN  StableSort(Pick(cands, I), CandidateLt)

SyncTypes == {"DownloadOnly", "UploadOnly", "Full", "BackupArchive"}

\* DeletePolicy::for_sync_type followed by suppresses: is o filtered out?
suppresses(type, propagate, o) ==
    \/ o.op = "DeleteRemote" /\ (~propagate \/ type \in {"DownloadOnly", "BackupArchive"})
    \/ o.op = "DeleteLocal" /\ (~propagate \/ type \in {"UploadOnly", "BackupArchive"})

plan_filtered(cands, max, type, propagate) ==
    LET ops == plan_with_overflow_ops(cands, max)
    IN  Pick(ops, {i \in DOMAIN ops : ~suppresses(type, propagate, ops[i])})

-----------------------------------------------------------------------------
(* The scheduler's batch. *)

QueueRoots(q) == {q[i].sync : i \in DOMAIN q}

\* div_ceil(limit, number of roots queued), at least one.
per_root_cap(q, limit) ==
    LET k == Cardinality(QueueRoots(q))
    IN  IF k = 0 THEN limit ELSE (limit + k - 1) \div k

\* Mutant: the batch is taken from the back of the queue.
MutTakeFromBack(q, limit, cap) ==
    LET Eligible == {i \in DOMAIN q :
                        Cardinality({j \in i..Len(q) : q[j].sync = q[i].sync}) <= cap}
    IN  {i \in Eligible : Cardinality({j \in Eligible : j >= i}) <= limit}

\* The indices take_fair_batch removes: a root's first cap operations are
\* eligible, and the batch is the first limit eligible operations.
fair_indices(q, limit, cap) ==
    LET Eligible == {i \in DOMAIN q :
                        Cardinality({j \in 1..i : q[j].sync = q[i].sync}) <= cap}
    IN  {i \in Eligible : Cardinality({j \in Eligible : j <= i}) <= limit}

\* Mutant: one operation too many.
MutOneTooMany(q, limit) == fair_indices(q, limit + 1, per_root_cap(q, limit + 1))

take_fair_batch(q, limit) == fair_indices(q, limit, per_root_cap(q, limit))

-----------------------------------------------------------------------------
(* What the scheduler does to its two lists.  The code keeps the dispatched *)
(* list as a Vec that may repeat an operation; every reader of it (ack,     *)
(* evict, the deduplicated snapshot) treats repetitions alike, so here an   *)
(* operation is kept once, at its first position.                           *)

without(q, r) == Pick(q, {i \in DOMAIN q : q[i].sync # r})

replace_queue_for_sync_id(q, r, ops) == SortOps(without(q, r) \o ops)

push_dispatched(d, batch) ==
    d \o Pick(batch, {i \in DOMAIN batch :
                        /\ batch[i] \notin Elems(d)
                        /\ \A j \in 1..(i - 1) : batch[j] # batch[i]})

\* Mutant: an acknowledgement matches on the path alone.
MutAckByPath(d, keys) == Pick(d, {i \in DOMAIN d : \A k \in keys : k[2] # d[i].path})

ack_batch(d, keys) == Pick(d, {i \in DOMAIN d : Key(d[i]) \notin keys})

\* The order of the persisted snapshot: root, priority, path.
SnapshotLt(a, b) == \/ a.sync < b.sync
                    \/ a.sync = b.sync /\ DispatchLt(a, b)

\* dedup_by: of neighbours with one (root, path) key the first is kept.
DedupNeighbours(s) ==
    Pick(s, {i \in DOMAIN s : i = 1 \/ Key(s[i - 1]) # Key(s[i])})

\* Mutant: the snapshot forgets what is in flight.
MutQueueOnly(q, d) == DedupNeighbours(StableSort(q, SnapshotLt))

snapshot_scheduler_durable(q, d) == DedupNeighbours(StableSort(q \o d, SnapshotLt))

=============================================================================
