------------------------------ MODULE Scheduler ------------------------------
(***************************************************************************)
(* pcloud-engine's Scheduler: the queue of planned operations, the slot of *)
(* operations handed out and not yet acknowledged, and the operations the  *)
(* engine calls on them.  batch is EngineShell::last_dispatched_batch.     *)
(***************************************************************************)
EXTENDS PlannedOps

CONSTANTS Plans,                  \* operation lists a caller may hand in
          max_parallel_uploads,
          max_parallel_downloads,
          MaxQueue,               \* bound on the queue (enqueue is unbounded)
          MaxDispatched           \* no new work while more than this is in flight

VARIABLES queued,     \* queued_operations
          unacked,    \* dispatched_operations
          batch

schedulerVars == <<queued, unacked, batch>>

ASSUME SchedulerAssumption ==
    /\ max_parallel_uploads \in Nat
    /\ max_parallel_downloads \in Nat
    /\ Plans \subseteq Seq(PlannedOperation)
    /\ MaxQueue \in Nat
    /\ MaxDispatched \in Nat

global_limit ==
    IF max_parallel_uploads + max_parallel_downloads = 0 THEN 1
    ELSE max_parallel_uploads + max_parallel_downloads

SchedulerInit ==
    /\ queued = <<>>
    /\ unacked = <<>>
    /\ batch = <<>>

\* Bounds the unacknowledged work, which the code does not.
Bounded == Len(unacked) <= MaxDispatched

replace_queue(ops) ==
    /\ queued' = SortOps(ops)
    /\ UNCHANGED <<unacked, batch>>

ReplaceQueueForSyncId(r, ops) ==
    /\ \A o \in Elems(ops) : o.sync = r
    /\ Len(without(queued, r)) + Len(ops) <= MaxQueue
    /\ queued' = replace_queue_for_sync_id(queued, r, ops)
    /\ UNCHANGED <<unacked, batch>>

evict_sync_id(r) ==
    /\ queued' = without(queued, r)
    /\ unacked' = without(unacked, r)
    /\ UNCHANGED batch

next_batch ==
    \E I \in {take_fair_batch(queued, global_limit)} :
        /\ batch' = Pick(queued, I)
        /\ queued' = Pick(queued, DOMAIN queued \ I)
        /\ unacked' = push_dispatched(unacked, batch')

AckBatch(keys) ==
    /\ unacked' = ack_batch(unacked, keys)
    /\ UNCHANGED <<queued, batch>>

\* The deprecated unfair variant: it neither looks at roots nor records what
\* it hands out.
drain_batch ==
    /\ queued' = SubSeq(queued, global_limit + 1, Len(queued))
    /\ UNCHANGED <<unacked, batch>>

enqueue(o) ==
    /\ Len(queued) < MaxQueue
    /\ queued' = Append(queued, o)
    /\ UNCHANGED <<unacked, batch>>

\* A restart of the daemon: the engine is new, its queue the last snapshot.
restore_scheduler_queue ==
    /\ queued' = SortOps(snapshot_scheduler_durable(queued, unacked))
    /\ unacked' = <<>>
    /\ batch' = <<>>

PlanOps == UNION {Elems(ops) : ops \in Plans}

SchedulerNext ==
    \/ Bounded /\ \E r \in SyncIds, ops \in Plans : ReplaceQueueForSyncId(r, ops)
    \/ next_batch
    \/ \E o \in Elems(unacked) : AckBatch({Key(o)})
    \/ Bounded /\ \E ops \in Plans : replace_queue(ops)
    \/ \E r \in SyncIds : evict_sync_id(r)
    \/ unacked # <<>> /\ AckBatch(Keys(Elems(unacked)))
    \/ queued # <<>> /\ drain_batch
    \/ Bounded /\ \E o \in PlanOps : enqueue(o)
    \/ restore_scheduler_queue

SchedulerSpec == SchedulerInit /\ [][SchedulerNext]_schedulerVars

\* A loop that nothing disturbs: roots are re-planned, batches handed out and
\* acknowledged; next_batch is called once per root and cycle, for ever.
SteadyNext ==
    \/ Bounded /\ \E r \in SyncIds, ops \in Plans : ReplaceQueueForSyncId(r, ops)
    \/ next_batch
    \/ unacked # <<>> /\ AckBatch(Keys(Elems(unacked)))

SteadyFairSpec ==
    SchedulerInit /\ [][SteadyNext]_schedulerVars /\ WF_schedulerVars(next_batch)

-----------------------------------------------------------------------------
(* Properties. *)

\* Every list holds planned operations, and the batch fits the window that
\* the two parallelism limits open.
SchedulerTypeOK ==
    /\ queued \in Seq(PlannedOperation)
    /\ unacked \in Seq(PlannedOperation)
    /\ batch \in Seq(PlannedOperation)
    /\ Len(batch) <= global_limit

Count(s, o) == Cardinality({i \in DOMAIN s : s[i] = o})

\* Handing out a batch (next_batch) loses nothing and duplicates nothing:
\* every queued operation is afterwards either still queued or in the batch,
\* as often as before, and what is in the batch can be acknowledged; the batch
\* fits the window and is not empty while there is work.
BatchConserves ==
    [][next_batch =>
        /\ \A o \in Elems(queued) \cup Elems(batch') \cup Elems(queued') :
                Count(queued, o) = Count(queued', o) + Count(batch', o)
        /\ Elems(batch') \subseteq Elems(unacked')
        /\ Len(batch') <= global_limit
        /\ queued # <<>> => batch' # <<>>]_schedulerVars

\* Within a root next_batch never lets an operation overtake a more urgent
\* one: what stays queued of a root is not more urgent than what is taken.
NoOvertaking ==
    [][next_batch /\ (\A i, j \in DOMAIN queued :
                         i < j => ~DispatchLt(queued[j], queued[i]))
        => \A o \in Elems(batch'), w \in Elems(queued') :
                o.sync = w.sync => ~DispatchLt(w, o)]_schedulerVars

\* A crash between dispatch and acknowledgement re-queues the work: after a
\* restart every (root, path) that was queued or handed out is queued.
RestartRequeues ==
    [][restore_scheduler_queue =>
        Keys(Elems(queued)) \cup Keys(Elems(unacked)) = Keys(Elems(queued'))]_schedulerVars

\* What next_batch documents, that busy roots cannot starve a sibling, and its
\* comment "Each root gets at least 1 slot": a root with queued work is served, or
\* loses its work to a re-plan or an eviction, however often the other roots
\* re-plan more urgent work.  The shares are rounded up, so that the first roots
\* of the queue may fill the window and leave the last one nothing, for ever.
RootServed(r) ==
    r \in QueueRoots(queued) ~>
        (r \notin QueueRoots(queued) \/ r \in QueueRoots(batch))

NoRootStarves == \A r \in SyncIds : RootServed(r)

=============================================================================
