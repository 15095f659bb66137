---------------------------- MODULE SyncLoopProofs ----------------------------
(***************************************************************************)
(* The sync loop keeps its types, its diff cursors behind what it has      *)
(* ingested and the work in flight in the persisted queue, for any sync    *)
(* roots, change log and trees, through crashes, failed writes and every   *)
(* interleaving with the IPC thread.  It implements DurableQueue.  The     *)
(* thread around it never sleeps on a wake-up and shows a pause.           *)
(***************************************************************************)
EXTENDS SyncLoop, SyncLoopThread, SchedulerProofs

\* The assumptions on the constants, one subject at a time: the sync ids.
LEMMA IdFacts == IsFiniteSet(SyncIds) /\ SyncIds \subseteq Nat /\ DiffRoot \in SyncIds
BY SyncLoopAssumption, IdsAndPathsAreNat

\* The bounds are naturals, the two windows positive.
LEMMA BoundFacts == /\ BatchLimit \in Nat \ {0} /\ Limit \in Nat \ {0}
                    /\ MaxOps \in Nat /\ OverflowMax \in Nat
BY SyncLoopAssumption

\* What the environment offers has the types of the code.
LEMMA InputFacts == /\ InitRoots \in RootTable /\ RootTypes \subseteq SyncTypes
                    /\ RemoteEntries \subseteq Change
                    /\ Trees \subseteq Seq(Change) /\ EventBatches \subseteq Seq(Change)
BY SyncLoopAssumption

\* While the batch is between ingestion and commit, what it fetched counts as
\* ingested for the root being visited.
FetchedIngested == pc = "commit" => fetched <= ingested[cur.id]

TypeCursor == TypeOK /\ CursorBehindIngest /\ FetchedIngested

-----------------------------------------------------------------------------
\* The root being visited is one of the list.
LEMMA CurType ==
    ASSUME TypeOK, todo # <<>>
    PROVE  /\ cur \in Listed /\ cur.id \in SyncIds /\ cur.type \in SyncTypes
           /\ Tail(todo) \in Seq(Listed)
<1>1. todo \in Seq(Listed)  BY DEF TypeOK
<1>2. Head(todo) \in Listed /\ Tail(todo) \in Seq(Listed)  BY <1>1, HeadTailProperties
<1> QED  BY <1>2 DEF cur, Listed

\* Changes tagged with a root and a source are candidates.
LEMMA CandidatesType ==
    ASSUME NEW entries \in Seq(Change), NEW r \in SyncIds, NEW src \in Sources
    PROVE  Candidates(entries, r, src) \in Seq(Candidate)
<1>1. DOMAIN entries = 1..Len(entries) /\ Len(entries) \in Nat
      /\ \A i \in DOMAIN entries : entries[i] \in Change
  BY ElemsOfSeq
<1>2. PICK t : t = Candidates(entries, r, src)  OBVIOUS
<1>3. t \in [1..Len(entries) -> Candidate]
  BY <1>1, <1>2 DEF Candidates, Candidate, Change
<1> QED  BY <1>1, <1>2, <1>3, SeqOfFunction

\* Capping the overflow keeps it a list of candidates.
LEMMA CapType ==
    ASSUME NEW o \in Seq(Candidate)
    PROVE  cap_overflow(o) \in Seq(Candidate)
<1>1. CASE Len(o) > OverflowMax
  <2>1. \A i \in 1..OverflowMax : o[i] \in Candidate  BY <1>1, BoundFacts, ElemsOfSeq
  <2>2. SubSeq(o, 1, OverflowMax) \in Seq(Candidate)  BY <2>1, BoundFacts, SubSeqProperties
  <2> QED  BY <1>1, <2>2 DEF cap_overflow
<1> QED  BY <1>1 DEF cap_overflow

\* Ingesting candidates re-plans the queue and the overflow within their types.
LEMMA IngestType ==
    ASSUME TypeOK, NEW cands \in Seq(Candidate), ingest_candidates_filtered(cands)
    PROVE  queue' \in Seq(PlannedOperation) /\ overflow' \in Seq(Candidate)
<1>1. PICK combined : combined = overflow \o cands  OBVIOUS
<1>2. combined \in Seq(Candidate)  BY <1>1, ConcatProps DEF TypeOK
<1>3. PICK ops : ops = plan_filtered(combined, MaxOps, cur.type, Propagate)  OBVIOUS
<1>4. ops \in Seq(PlannedOperation)  BY <1>2, <1>3, PlanFilteredType
<1>5. /\ overflow' = cap_overflow(plan_with_overflow_rest(combined, MaxOps))
      /\ queue' = IF SingleRoot(combined)
                  THEN replace_queue_for_sync_id(queue, combined[1].sync, ops)
                  ELSE SortOps(ops)
  BY <1>1, <1>3 DEF ingest_candidates_filtered
<1>6. overflow' \in Seq(Candidate)
  BY <1>2, <1>5, PlanRestType, CapType
<1>7. \A r : replace_queue_for_sync_id(queue, r, ops) \in Seq(PlannedOperation)
  <2>1. TAKE r
  <2>2. PICK I : I = {i \in DOMAIN queue : queue[i].sync # r}  OBVIOUS
  <2>3. without(queue, r) = Pick(queue, I)  BY <2>2 DEF without
  <2>4. Pick(queue, I) \in Seq(PlannedOperation)  BY <2>2, PickProps DEF TypeOK
  <2>5. without(queue, r) \o ops \in Seq(PlannedOperation)
    BY <1>4, <2>3, <2>4, ConcatProps
  <2> QED  BY <2>5, SortOpsProps DEF replace_queue_for_sync_id
<1>8. SortOps(ops) \in Seq(PlannedOperation)  BY <1>4, SortOpsProps
<1> QED  BY <1>5, <1>6, <1>7, <1>8

\* The list of roots of a cycle.
LEMMA RootListType ==
    ASSUME TypeOK
    PROVE  RootList \in Seq(Listed)
<1>1. PICK S \in SUBSET SyncIds : rootsDb \in [S -> RootRecord]
  BY DEF TypeOK, RootTable
<1> DEFINE R == {p \in S \X S : p[1] <= p[2]}
           N == Cardinality(S)
           c(n) == CHOOSE r \in S : Cardinality({q \in S : q <= r}) = n
           t == RootList
<1>2. IsFiniteSet(S) /\ S \subseteq Nat  BY IdFacts, FS_Subset
<1>3. \A p, q \in S : <<q, p>> \in R <=> q <= p  OBVIOUS
<1>4. t = [n \in 1..N |-> [id |-> c(n), paused |-> rootsDb[c(n)].paused,
                           type |-> rootsDb[c(n)].type]]
  BY <1>1 DEF RootList
<1> HIDE DEF R, t
<1>5. TotalOrder(R, S)  BY <1>2, <1>3 DEF TotalOrder
<1>6. \A p \in S : UpTo(R, S, p) = {q \in S : q <= p}  BY <1>3 DEF UpTo
<1>7. N \in Nat /\ \A n \in 1..N : \E p \in S : Cardinality({q \in S : q <= p}) = n
  <2>1. N \in Nat /\ \A n \in 1..N : \E p \in S : Cardinality(UpTo(R, S, p)) = n
    <3>1. IsFiniteSet(S)  BY <1>2
    <3> QED  BY <1>5, <3>1, RankOnto
  <2> QED  BY <1>6, <2>1
<1>8. \A n \in 1..N : c(n) \in S  BY <1>7
<1> HIDE DEF c
<1>9. \A r \in S : [id |-> r, paused |-> rootsDb[r].paused, type |-> rootsDb[r].type] \in Listed
  BY <1>1 DEF Listed, RootRecord
<1>10. t \in [1..N -> Listed]  BY <1>4, <1>8, <1>9
<1> HIDE DEF N
<1>11. t \in Seq(Listed)  BY <1>7, <1>10, SeqOfFunction
<1> QED  BY <1>11 DEF t

-----------------------------------------------------------------------------
\* The lists the loop cuts out of its lists.
LEMMA PickedTypes ==
    ASSUME NEW s \in Seq(PlannedOperation)
    PROVE  /\ \A gone : KeepRoots(s, gone) \in Seq(PlannedOperation)
           /\ \A k : FileTasks(s, k) \in Seq(PlannedOperation)
           /\ accept_batch(s) \in Seq(PlannedOperation)
           /\ \A keys : ack_batch(s, keys) \in Seq(PlannedOperation)
<1>1. \A I : I \subseteq DOMAIN s => Pick(s, I) \in Seq(PlannedOperation)
  BY PickProps
<1>2. ASSUME NEW gone PROVE KeepRoots(s, gone) \in Seq(PlannedOperation)
  <2>1. PICK I : I = {i \in DOMAIN s : s[i].sync \notin gone}  OBVIOUS
  <2> QED  BY <1>1, <2>1 DEF KeepRoots
<1>3. ASSUME NEW k PROVE FileTasks(s, k) \in Seq(PlannedOperation)
  <2>1. PICK I : I = {i \in DOMAIN s : s[i].op = k}  OBVIOUS
  <2> QED  BY <1>1, <2>1 DEF FileTasks
<1>4. accept_batch(s) \in Seq(PlannedOperation)
  <2>1. PICK I : I = {i \in DOMAIN s : s[i].op # "Conflict"}  OBVIOUS
  <2> QED  BY <1>1, <2>1 DEF accept_batch
<1>5. ASSUME NEW keys PROVE ack_batch(s, keys) \in Seq(PlannedOperation)
  <2>1. PICK I : I = {i \in DOMAIN s : Key(s[i]) \notin keys}  OBVIOUS
  <2> QED  BY <1>1, <2>1 DEF ack_batch
<1> QED  BY <1>2, <1>3, <1>4, <1>5

\* Marking a transfer takes at most one entry out of the coordinators' lists.
LEMMA MoveTaskType ==
    ASSUME TypeOK, NEW p
    PROVE  move_task(p) \in Seq(PlannedOperation)
<1>1. \A b : DOMAIN inflight \ {b} \subseteq DOMAIN inflight  OBVIOUS
<1>2. inflight \in Seq(PlannedOperation)  BY DEF TypeOK
<1>3. \A b : Pick(inflight, DOMAIN inflight \ {b}) \in Seq(PlannedOperation)
  BY <1>1, <1>2, PickProps
<1> QED  BY <1>2, <1>3 DEF move_task

\* A write of the queue, successful or not.
LEMMA PersistType ==
    ASSUME TypeOK, NEW q \in Seq(PlannedOperation), NEW d \in Seq(PlannedOperation),
           persist_scheduler_queue(q, d)
    PROVE  queueDb' \in Seq(PlannedOperation) /\ saved' \in BOOLEAN /\ faults' \in Nat
<1>1. snapshot_scheduler_durable(q, d) \in Seq(PlannedOperation)  BY SnapshotKeys
<1>2. queueDb \in Seq(PlannedOperation) /\ faults \in Nat  BY DEF TypeOK
<1>3. queueDb' \in Seq(PlannedOperation)  BY <1>1, <1>2 DEF persist_scheduler_queue
<1>4. saved' \in BOOLEAN  BY Zenon DEF persist_scheduler_queue
<1>5. faults' = faults \/ faults' = faults + 1  BY DEF persist_scheduler_queue, Fault
<1>6. faults' \in Nat  BY <1>2, <1>5
<1> QED  BY <1>3, <1>4, <1>6

\* A write of the overflow, successful or not.
LEMMA PersistOverflowType ==
    ASSUME TypeOK, NEW o \in Seq(Candidate), persist_planner_overflow(o)
    PROVE  overflowDb' \in Seq(Candidate) /\ faults' \in Nat
BY DEF persist_planner_overflow, Fault, TypeOK

\* A scan ingests the root's own changes.
LEMMA ScanType ==
    ASSUME TypeOK, todo # <<>>, NEW entries \in Seq(Change), ScanIngest(entries)
    PROVE  /\ queue' \in Seq(PlannedOperation) /\ overflow' \in Seq(Candidate)
           /\ overflowDb' \in Seq(Candidate) /\ faults' \in Nat
           /\ pc' \in {"advance", "save"}
<1>1. CASE HasBadPath(entries)
  BY <1>1 DEF ScanIngest, TypeOK
<1>2. CASE ~HasBadPath(entries)
  <2>1. /\ pc' = "save"
        /\ ingest_candidates_filtered(Candidates(entries, cur.id, "Local"))
        /\ persist_planner_overflow(overflow')
    BY <1>2 DEF ScanIngest
  <2>2. Candidates(entries, cur.id, "Local") \in Seq(Candidate)
    BY CurType, CandidatesType DEF Sources
  <2>3. queue' \in Seq(PlannedOperation) /\ overflow' \in Seq(Candidate)
    BY <2>1, <2>2, IngestType
  <2>4. overflowDb' \in Seq(Candidate) /\ faults' \in Nat
    BY <2>1, <2>3, PersistOverflowType
  <2> QED  BY <2>1, <2>3, <2>4
<1> QED  BY <1>1, <1>2

\* The batch a poll asks for lies inside the account's log.
LEMMA DiffType ==
    ASSUME TypeOK, CursorBehindIngest, todo # <<>>
    PROVE  /\ NextCursor \in Nat /\ NextCursor <= Len(log)
           /\ cursorDb[cur.id] <= NextCursor
           /\ DiffBatch \in Seq(Change)
<1>1. cur.id \in SyncIds  BY CurType
<1>2. /\ cursorDb[cur.id] \in Nat /\ ingested[cur.id] \in Nat
      /\ cursorDb[cur.id] <= ingested[cur.id] /\ ingested[cur.id] <= Len(log)
      /\ log \in Seq(Change) /\ Len(log) \in Nat
  BY <1>1, ElemsOfSeq DEF TypeOK, CursorBehindIngest
<1>3. NextCursor \in Nat /\ NextCursor <= Len(log) /\ cursorDb[cur.id] <= NextCursor
  BY <1>2, BoundFacts DEF NextCursor
<1>4. \A i \in (cursorDb[cur.id] + 1)..NextCursor : log[i] \in Change
  BY <1>2, <1>3, ElemsOfSeq
<1>5. DiffBatch \in Seq(Change)
  <2>1. PICK m, n : m = cursorDb[cur.id] + 1 /\ n = NextCursor  OBVIOUS
  <2>2. m \in Int /\ n \in Int /\ \A i \in m..n : log[i] \in Change  BY <1>2, <1>3, <1>4, <2>1
  <2>3. SubSeq(log, m, n) \in Seq(Change)  BY <2>2, SubSeqProperties
  <2> QED  BY <2>1, <2>3 DEF DiffBatch
<1> QED  BY <1>3, <1>5

-----------------------------------------------------------------------------
\* The IPC thread and the account keep types and cursors.
LEMMA TypeCursorEnv ==
    ASSUME TypeCursor, IpcStep \/ RemoteChange
    PROVE  TypeCursor'
<1> USE DEF TypeCursor
<1>1. CASE RemoteChange
  <2>1. PICK e \in RemoteEntries : log' = Append(log, e)  BY <1>1 DEF RemoteChange
  <2>2. e \in Change /\ log \in Seq(Change)  BY <2>1, InputFacts DEF TypeOK
  <2>3. log' \in Seq(Change) /\ Len(log') = Len(log) + 1 /\ Len(log) \in Nat
    BY <2>1, <2>2
  <2>4. UNCHANGED <<rootsIpc, rootsDb, ipcs, dbVars, engineVars, cycleVars,
                    crashes, faults, ghostVars>>
    BY <1>1 DEF RemoteChange
  <2> USE DEF dbVars, engineVars, cycleVars, ghostVars
  <2>5. TypeOK'  BY <2>3, <2>4 DEF TypeOK
  <2>6. CursorBehindIngest'  BY <2>3, <2>4 DEF TypeOK, CursorBehindIngest
  <2>7. FetchedIngested'  BY <2>4 DEF FetchedIngested, cur
  <2> QED  BY <2>5, <2>6, <2>7
<1>2. CASE IpcStep
  <2>1. /\ ipcs' = ipcs + 1
        /\ UNCHANGED <<log, dbVars, engineVars, cycleVars, crashes, ghostVars>>
    BY <1>2 DEF IpcStep, add_sync_root, remove_sync_root, set_root_paused,
                change_sync_root_type, Ipc
  <2>2. PICK S \in SUBSET SyncIds : rootsIpc \in [S -> RootRecord]
    BY DEF TypeOK, RootTable
  <2>3. DOMAIN rootsIpc = S /\ \A r \in S : rootsIpc[r] \in RootRecord  BY <2>2
  <2>4. \A T \in SUBSET SyncIds : \A f : f \in [T -> RootRecord] => f \in RootTable
    BY DEF RootTable
  <2>5. rootsIpc' \in RootTable /\ rootsDb' \in RootTable /\ faults' \in Nat
    <3>1. ASSUME NEW t \in RootTypes, add_sync_root(t)
          PROVE  rootsIpc' \in RootTable /\ rootsDb' \in RootTable /\ faults' \in Nat
      <4>1. PICK id \in SyncIds :
              StoreRoots([r \in S \cup {id} |->
                            IF r = id THEN [paused |-> FALSE, type |-> t] ELSE rootsIpc[r]])
        BY <2>3, <3>1 DEF add_sync_root
      <4>2. [paused |-> FALSE, type |-> t] \in RootRecord
        BY InputFacts DEF RootRecord
      <4>3. PICK f : f = [r \in S \cup {id} |->
                            IF r = id THEN [paused |-> FALSE, type |-> t] ELSE rootsIpc[r]]
        OBVIOUS
      <4>4. f \in [S \cup {id} -> RootRecord]  BY <2>3, <4>2, <4>3
      <4>5. f \in RootTable  BY <2>4, <4>4
      <4> QED  BY <4>1, <4>3, <4>5 DEF StoreRoots, TypeOK
    <3>2. ASSUME NEW r \in SyncIds, remove_sync_root(r)
          PROVE  rootsIpc' \in RootTable /\ rootsDb' \in RootTable /\ faults' \in Nat
      <4>1. Remaining(r) \in [S \ {r} -> RootRecord]  BY <2>3 DEF Remaining
      <4>2. Remaining(r) \in RootTable  BY <2>4, <4>1
      <4> QED  BY <3>2, <4>2 DEF remove_sync_root, StoreRoots, Fault, TypeOK
    <3>3. ASSUME NEW r \in SyncIds, NEW flag \in BOOLEAN, set_root_paused(r, flag)
          PROVE  rootsIpc' \in RootTable /\ rootsDb' \in RootTable /\ faults' \in Nat
      <4>1. PICK f : f = [rootsIpc EXCEPT ![r].paused = flag]  OBVIOUS
      <4>2. r \in S /\ StoreRoots(f)  BY <2>3, <3>3, <4>1 DEF set_root_paused
      <4>3. \A x \in RootRecord : [x EXCEPT !.paused = flag] \in RootRecord
        BY DEF RootRecord
      <4>4. f = [rootsIpc EXCEPT ![r] = [rootsIpc[r] EXCEPT !.paused = flag]]
        BY <2>2, <4>1, <4>2
      <4>5. f \in [S -> RootRecord]  BY <2>2, <2>3, <4>2, <4>3, <4>4
      <4>6. f \in RootTable  BY <2>4, <4>5
      <4> QED  BY <4>2, <4>6 DEF StoreRoots, TypeOK
    <3>4. ASSUME NEW r \in SyncIds, NEW t \in RootTypes, change_sync_root_type(r, t)
          PROVE  rootsIpc' \in RootTable /\ rootsDb' \in RootTable /\ faults' \in Nat
      <4>1. PICK f : f = [rootsIpc EXCEPT ![r].type = t]  OBVIOUS
      <4>2. r \in S /\ StoreRoots(f)  BY <2>3, <3>4, <4>1 DEF change_sync_root_type
      <4>3. \A x \in RootRecord : [x EXCEPT !.type = t] \in RootRecord
        BY InputFacts DEF RootRecord
      <4>4. f = [rootsIpc EXCEPT ![r] = [rootsIpc[r] EXCEPT !.type = t]]
        BY <2>2, <4>1, <4>2
      <4>5. f \in [S -> RootRecord]  BY <2>2, <2>3, <4>2, <4>3, <4>4
      <4>6. f \in RootTable  BY <2>4, <4>5
      <4> QED  BY <4>2, <4>6 DEF StoreRoots, TypeOK
    <3> QED  BY <1>2, <3>1, <3>2, <3>3, <3>4 DEF IpcStep
  <2> USE DEF dbVars, engineVars, cycleVars, ghostVars
  <2>6. TypeOK'  BY <2>1, <2>5 DEF TypeOK
  <2>7. CursorBehindIngest'  BY <2>1 DEF CursorBehindIngest
  <2>8. FetchedIngested'  BY <2>1 DEF FetchedIngested, cur
  <2> QED  BY <2>6, <2>7, <2>8
<1> QED  BY <1>1, <1>2

\* So do the steps of the loop that only move its control.
LEMMA TypeCursorControl ==
    ASSUME TypeCursor,
           \/ ListRoots \/ SkipCycle \/ SkipRoot \/ BeginRoot \/ EndCycle
           \/ PollError \/ NothingScanned \/ EndDownloads \/ EndUploads
    PROVE  TypeCursor'
<1> USE DEF TypeCursor
<1>1. /\ UNCHANGED <<envVars, dbVars, engineVars, prevRoots, fetched, crashes, faults,
                     ghostVars>>
      /\ pc' \in PCs /\ pc' # "commit"
      /\ todo' \in Seq(Listed) /\ (pc' \notin {"idle", "list", "pick"} => todo' # <<>>)
      /\ tasks' \in Seq(PlannedOperation)
  <2> USE DEF TypeOK, PCs
  <2>1. CASE ListRoots  BY <2>1, RootListType DEF ListRoots
  <2>2. CASE SkipCycle  BY <2>2 DEF SkipCycle
  <2>3. CASE SkipRoot  BY <2>3, CurType DEF SkipRoot
  <2>4. CASE BeginRoot  BY <2>4 DEF BeginRoot
  <2>5. CASE EndCycle  BY <2>5 DEF EndCycle
  <2>6. CASE PollError  BY <2>6 DEF PollError, AfterPoll
  <2>7. CASE NothingScanned
    BY <2>7 DEF NothingScanned, ScanUnchanged, dbVars, engineVars
  <2>8. CASE EndDownloads
    <3>1. todo # <<>>  BY <2>8 DEF EndDownloads
    <3>2. Tail(todo) \in Seq(Listed)  BY <3>1, CurType
    <3>3. FileTasks(inflight, "UploadFile") \in Seq(PlannedOperation)  BY PickedTypes
    <3>4. UNCHANGED <<envVars, dbVars, engineVars, prevRoots, fetched, crashes, faults,
                      ghostVars>>
      BY <2>8 DEF EndDownloads
    <3>5. CASE cur.type = "DownloadOnly"
      <4>1. pc' = "pick" /\ todo' = Tail(todo) /\ tasks' = tasks
        BY <2>8, <3>5 DEF EndDownloads
      <4> QED  BY <3>2, <3>4, <4>1
    <3>6. CASE cur.type # "DownloadOnly"
      <4>1. pc' = "uploads" /\ todo' = todo /\ tasks' = FileTasks(inflight, "UploadFile")
        BY <2>8, <3>6 DEF EndDownloads
      <4> QED  BY <3>1, <3>3, <3>4, <4>1
    <3> QED  BY <3>5, <3>6
  <2>9. CASE EndUploads  BY <2>9, CurType DEF EndUploads
  <2> QED  BY <2>1, <2>2, <2>3, <2>4, <2>5, <2>6, <2>7, <2>8, <2>9
<1> USE DEF envVars, dbVars, engineVars, ghostVars
<1>2. TypeOK'  BY <1>1 DEF TypeOK
<1>3. CursorBehindIngest'  BY <1>1 DEF CursorBehindIngest
<1>4. FetchedIngested'  BY <1>1 DEF FetchedIngested
<1> QED  BY <1>2, <1>3, <1>4

\* The steps that evict, write the queue, dispatch and transfer.
LEMMA TypeCursorWork ==
    ASSUME TypeCursor,
           \/ EvictRemovedRoots \/ SaveQueue \/ advance_transfers
           \/ DownloadDone \/ DownloadFailed \/ DownloadSkipped
           \/ UploadDone \/ UploadFailed
    PROVE  TypeCursor'
<1> USE DEF TypeCursor
<1>0. /\ queue \in Seq(PlannedOperation) /\ dispatched \in Seq(PlannedOperation)
      /\ inflight \in Seq(PlannedOperation) /\ tasks \in Seq(PlannedOperation)
      /\ queueDb \in Seq(PlannedOperation)
  BY DEF TypeOK
<1>1. ASSUME EvictRemovedRoots PROVE TypeCursor'
  <2> DEFINE gone == prevRoots \ prevRoots'
  <2>1. /\ queue' \in Seq(PlannedOperation) /\ dispatched' \in Seq(PlannedOperation)
        /\ inflight' \in Seq(PlannedOperation)
    BY <1>0, <1>1, PickedTypes DEF EvictRemovedRoots, evict_removed_root
  <2>2. \/ UNCHANGED <<queueDb, saved, faults>>
        \/ persist_scheduler_queue(queue', dispatched')
    BY <1>1 DEF EvictRemovedRoots, evict_removed_root
  <2>3. queueDb' \in Seq(PlannedOperation) /\ saved' \in BOOLEAN /\ faults' \in Nat
    BY <2>1, <2>2, PersistType DEF TypeOK
  <2>4. DOMAIN rootsDb \subseteq SyncIds
    BY DEF TypeOK, RootTable
  <2>5. /\ pc' = "list" /\ prevRoots' \subseteq DOMAIN rootsDb
        /\ pausedMem' = pausedMem \ gone /\ fullScanned' = fullScanned \ gone
        /\ UNCHANGED <<envVars, cursorDb, overflowDb, overflow, staged, todo,
                       fetched, tasks, crashes, ingested>>
    BY <1>1 DEF EvictRemovedRoots, evict_removed_root, ListedIds
  <2>6. pausedMem' \subseteq SyncIds /\ fullScanned' \subseteq SyncIds /\ prevRoots' \subseteq SyncIds
    BY <2>4, <2>5 DEF TypeOK
  <2> HIDE DEF gone
  <2>7. TypeOK'  BY <2>1, <2>3, <2>5, <2>6 DEF TypeOK, envVars, PCs
  <2>8. CursorBehindIngest' /\ FetchedIngested'
    BY <2>5 DEF CursorBehindIngest, FetchedIngested, envVars
  <2> QED  BY <2>7, <2>8
<1>2. ASSUME SaveQueue PROVE TypeCursor'
  <2>1. /\ pc = "save" /\ pc' = "advance" /\ persist_scheduler_queue(queue, dispatched)
        /\ UNCHANGED <<envVars, cursorDb, overflowDb, engineVars, prevRoots, todo,
                       fetched, tasks, crashes, ingested>>
    BY <1>2 DEF SaveQueue
  <2>2. queueDb' \in Seq(PlannedOperation) /\ saved' \in BOOLEAN /\ faults' \in Nat
    BY <1>0, <2>1, PersistType
  <2>3. TypeOK'  BY <2>1, <2>2 DEF TypeOK, envVars, engineVars, PCs
  <2>4. CursorBehindIngest' /\ FetchedIngested'
    BY <2>1 DEF CursorBehindIngest, FetchedIngested, envVars
  <2> QED  BY <2>3, <2>4
<1>3. ASSUME advance_transfers PROVE TypeCursor'
  <2>1. PICK b \in {Pick(queue, take_fair_batch(queue, Limit))} :
          /\ queue' = Pick(queue, DOMAIN queue \ take_fair_batch(queue, Limit))
          /\ dispatched' = push_dispatched(dispatched, b)
          /\ inflight' = accept_batch(b)
          /\ \/ UNCHANGED <<queueDb, saved, faults>>
             \/ persist_scheduler_queue(queue', dispatched')
    BY <1>3 DEF advance_transfers
  <2>2. b \in Seq(PlannedOperation) /\ queue' \in Seq(PlannedOperation)
    BY <1>0, <2>1, BatchProps
  <2>3. dispatched' \in Seq(PlannedOperation) /\ inflight' \in Seq(PlannedOperation)
    BY <1>0, <2>1, <2>2, PushProps, PickedTypes
  <2>4. queueDb' \in Seq(PlannedOperation) /\ saved' \in BOOLEAN /\ faults' \in Nat
    BY <2>1, <2>2, <2>3, PersistType DEF TypeOK
  <2>5. /\ pc = "advance" /\ pc' \in {"uploads", "downloads"}
        /\ tasks' \in Seq(PlannedOperation)
        /\ UNCHANGED <<envVars, cursorDb, overflowDb, overflow, pausedMem, fullScanned,
                       staged, prevRoots, todo, fetched, crashes, ingested>>
    BY <1>3, <2>3, PickedTypes DEF advance_transfers
  <2>6. TypeOK'  BY <2>2, <2>3, <2>4, <2>5 DEF TypeOK, envVars, PCs
  <2>7. CursorBehindIngest' /\ FetchedIngested'
    BY <2>5 DEF CursorBehindIngest, FetchedIngested, envVars
  <2> QED  BY <2>6, <2>7
<1>4. ASSUME DownloadDone \/ DownloadFailed \/ DownloadSkipped \/ UploadDone \/ UploadFailed
      PROVE  TypeCursor'
  <2>1. /\ pc \in {"downloads", "uploads"} /\ tasks # <<>> /\ TransferUnchanged
        /\ tasks' = Tail(tasks)
        /\ staged' = staged \/ staged' = staged \cup {Head(tasks).path}
        /\ \/ inflight' = move_task(Head(tasks).path) \/ UNCHANGED inflight
        /\ \/ UNCHANGED dispatched
           \/ dispatched' = ack_batch(dispatched, {Key(Head(tasks))})
    BY <1>4 DEF DownloadDone, DownloadFailed, DownloadSkipped, UploadDone, UploadFailed,
                Transferred, TransferFailed
  <2>2. Head(tasks) \in PlannedOperation /\ Tail(tasks) \in Seq(PlannedOperation)
    BY <1>0, <2>1, HeadTailProperties
  <2>3. Head(tasks).path \in Paths  BY <2>2 DEF PlannedOperation
  <2>4. inflight' \in Seq(PlannedOperation)  BY <1>0, <2>1, MoveTaskType
  <2>5. dispatched' \in Seq(PlannedOperation)  BY <1>0, <2>1, PickedTypes
  <2>6. staged' \subseteq Paths
    BY <2>1, <2>3 DEF TypeOK
  <2> USE DEF TransferUnchanged, envVars, dbVars
  <2>7. TypeOK'  BY <2>1, <2>2, <2>4, <2>5, <2>6 DEF TypeOK
  <2>8. CursorBehindIngest' /\ FetchedIngested'
    BY <2>1 DEF CursorBehindIngest, FetchedIngested
  <2> QED  BY <2>7, <2>8
<1> QED  BY <1>1, <1>2, <1>3, <1>4

\* The steps that ingest, commit the cursor and scan.
LEMMA TypeCursorIngest ==
    ASSUME TypeCursor,
           PollRemoteDiff \/ commit_diff_batch \/ FullScan \/ IncrementalScan
    PROVE  TypeCursor'
<1> USE DEF TypeCursor
<1>1. ASSUME PollRemoteDiff PROVE TypeCursor'
  <2>1. /\ pc = "poll" /\ pc' = "commit" /\ fetched' = NextCursor
        /\ ingested' = [ingested EXCEPT ![cur.id] = IF @ < NextCursor THEN NextCursor ELSE @]
        /\ ingest_candidates_filtered(Candidates(DiffBatch, DiffRoot, "Remote"))
        /\ persist_planner_overflow(overflow')
        /\ UNCHANGED <<envVars, cursorDb, queueDb, dispatched, pausedMem, fullScanned,
                       inflight, staged, prevRoots, todo, tasks, crashes, saved>>
    BY <1>1 DEF PollRemoteDiff
  <2>2. todo # <<>>  BY <2>1 DEF TypeOK
  <2>3. /\ cur.id \in SyncIds /\ NextCursor \in Nat /\ NextCursor <= Len(log)
        /\ DiffBatch \in Seq(Change)
    BY <2>2, CurType, DiffType
  <2>4. Candidates(DiffBatch, DiffRoot, "Remote") \in Seq(Candidate)
    BY <2>3, CandidatesType, IdFacts DEF Sources
  <2>5. queue' \in Seq(PlannedOperation) /\ overflow' \in Seq(Candidate)
    BY <2>1, <2>4, IngestType
  <2>6. overflowDb' \in Seq(Candidate) /\ faults' \in Nat
    BY <2>1, <2>5, PersistOverflowType
  <2>7. ingested \in [SyncIds -> Nat] /\ cursorDb \in [SyncIds -> Nat]
    BY DEF TypeOK
  <2>8. PICK n : n = NextCursor  OBVIOUS
  <2>9. PICK i : i = cur.id  OBVIOUS
  <2>10. /\ ingested' \in [SyncIds -> Nat] /\ n <= ingested'[i]
         /\ \A r \in SyncIds : ingested[r] <= ingested'[r]
                               /\ (ingested'[r] = ingested[r] \/ ingested'[r] = n)
    <3>1. ingested' = [ingested EXCEPT ![i] = IF ingested[i] < n THEN n ELSE ingested[i]]
      BY <2>1, <2>8, <2>9
    <3>2. i \in SyncIds /\ n \in Nat  BY <2>3, <2>8, <2>9
    <3> QED  BY <2>7, <3>1, <3>2
  <2>11. TypeOK'
    BY <2>1, <2>2, <2>3, <2>5, <2>6, <2>10 DEF TypeOK, envVars, PCs
  <2>12. CursorBehindIngest'
    <3>1. cursorDb' = cursorDb /\ log' = log  BY <2>1 DEF envVars
    <3>2. Len(log) \in Nat  BY ElemsOfSeq DEF TypeOK
    <3>3. ASSUME NEW r \in SyncIds PROVE cursorDb[r] <= ingested'[r] /\ ingested'[r] <= Len(log)
      <4>1. cursorDb[r] \in Nat /\ ingested[r] \in Nat /\ ingested'[r] \in Nat
        BY <2>7, <2>10
      <4>2. cursorDb[r] <= ingested[r] /\ ingested[r] <= Len(log)
        BY DEF CursorBehindIngest
      <4> QED  BY <2>3, <2>8, <2>10, <3>2, <4>1, <4>2
    <3> QED  BY <3>1, <3>3 DEF CursorBehindIngest
  <2>13. FetchedIngested'
    <3>1. fetched' = n /\ cur' = cur  BY <2>1, <2>8 DEF cur
    <3> QED  BY <2>9, <2>10, <3>1 DEF FetchedIngested
  <2> QED  BY <2>11, <2>12, <2>13
<1>2. ASSUME commit_diff_batch PROVE TypeCursor'
  <2>1. /\ pc = "commit" /\ pc' \in {"advance", "scan"}
        /\ \/ /\ cursorDb' = IF fetched > cursorDb[cur.id]
                             THEN [cursorDb EXCEPT ![cur.id] = fetched] ELSE cursorDb
              /\ faults' = faults
           \/ faults' = faults + 1 /\ cursorDb' = cursorDb
        /\ UNCHANGED <<envVars, queueDb, overflowDb, engineVars, prevRoots, todo,
                       fetched, tasks, crashes, ghostVars>>
    BY <1>2 DEF commit_diff_batch, AfterPoll, Fault
  <2>2. todo # <<>>  BY <2>1 DEF TypeOK
  <2>3. cur.id \in SyncIds /\ fetched \in Nat /\ fetched <= ingested[cur.id]
    BY <2>1, <2>2, CurType DEF TypeOK, FetchedIngested
  <2>4. /\ cursorDb' \in [SyncIds -> Nat]
        /\ \A r \in SyncIds : cursorDb'[r] = cursorDb[r] \/ (r = cur.id /\ cursorDb'[r] = fetched)
    <3>1. cursorDb \in [SyncIds -> Nat]  BY DEF TypeOK
    <3> QED  BY <2>1, <2>3, <3>1
  <2>5. faults' \in Nat  BY <2>1 DEF TypeOK
  <2>6. TypeOK'
    BY <2>1, <2>2, <2>4, <2>5 DEF TypeOK, envVars, engineVars, ghostVars, PCs
  <2>7. CursorBehindIngest'
    <3>1. ingested' = ingested /\ log' = log  BY <2>1 DEF envVars, ghostVars
    <3> QED  BY <2>3, <2>4, <3>1 DEF CursorBehindIngest
  <2>8. FetchedIngested'  BY <2>1 DEF FetchedIngested
  <2> QED  BY <2>6, <2>7, <2>8
<1>3. ASSUME FullScan \/ IncrementalScan PROVE TypeCursor'
  <2>1. pc = "scan" /\ ScanUnchanged
        /\ (fullScanned' = fullScanned \/ fullScanned' = fullScanned \cup {cur.id})
    BY <1>3 DEF FullScan, IncrementalScan
  <2>2. PICK entries \in Seq(Change) : ScanIngest(entries)
    BY <1>3, InputFacts DEF FullScan, IncrementalScan
  <2>3. todo # <<>>  BY <2>1 DEF TypeOK
  <2>4. /\ queue' \in Seq(PlannedOperation) /\ overflow' \in Seq(Candidate)
        /\ overflowDb' \in Seq(Candidate) /\ faults' \in Nat
        /\ pc' \in {"advance", "save"}
    BY <2>2, <2>3, ScanType
  <2>5. fullScanned' \subseteq SyncIds  BY <2>1, <2>3, CurType DEF TypeOK
  <2> USE DEF ScanUnchanged, envVars, ghostVars
  <2>6. TypeOK'  BY <2>1, <2>3, <2>4, <2>5 DEF TypeOK, PCs
  <2>7. CursorBehindIngest' /\ FetchedIngested'
    BY <2>1, <2>4 DEF CursorBehindIngest, FetchedIngested
  <2> QED  BY <2>6, <2>7
<1> QED  BY <1>1, <1>2, <1>3

\* A restart rebuilds the memory of the process from what it reads of the store.
LEMMA TypeCursorCrash ==
    ASSUME TypeCursor, Crash \/ CrashUnreadable
    PROVE  TypeCursor'
<1> USE DEF TypeCursor
<1>1. PICK roots \in {DOMAIN rootsDb, {}}, stopped \in {PausedInDb, {}},
           deferred \in {overflowDb, <<>>}, saved_queue \in {queueDb, <<>>} :
            Boot(roots, stopped, deferred, saved_queue)
  BY DEF Crash, CrashUnreadable
<1>2. faults' \in Nat  BY DEF Crash, CrashUnreadable, Fault, TypeOK
<1>3. /\ rootsIpc' = rootsDb /\ pc' = "idle" /\ prevRoots' = roots
      /\ todo' = <<>> /\ fetched' = 0 /\ tasks' = <<>>
      /\ pausedMem' = stopped /\ overflow' = deferred /\ queue' = SortOps(saved_queue)
      /\ dispatched' = <<>> /\ inflight' = <<>> /\ staged' = {} /\ fullScanned' = {}
      /\ crashes' = crashes + 1
      /\ UNCHANGED <<log, rootsDb, ipcs, dbVars, ghostVars>>
  BY <1>1 DEF Boot
<1>4. DOMAIN rootsDb \subseteq SyncIds  BY DEF TypeOK, RootTable
<1>5. prevRoots' \subseteq SyncIds /\ pausedMem' \subseteq SyncIds
  BY <1>1, <1>3, <1>4 DEF PausedInDb
<1>6. saved_queue \in Seq(PlannedOperation) /\ overflow' \in Seq(Candidate)
  <2>1. queueDb \in Seq(PlannedOperation) /\ overflowDb \in Seq(Candidate)  BY DEF TypeOK
  <2>2. saved_queue = queueDb \/ saved_queue = <<>>  OBVIOUS
  <2>3. overflow' = overflowDb \/ overflow' = <<>>  BY <1>3
  <2>4. <<>> \in Seq(PlannedOperation) /\ <<>> \in Seq(Candidate)  OBVIOUS
  <2> QED  BY <2>1, <2>2, <2>3, <2>4
<1>7. queue' \in Seq(PlannedOperation)  BY <1>3, <1>6, SortOpsProps
<1>8. TypeOK'  BY <1>2, <1>3, <1>5, <1>6, <1>7 DEF TypeOK, dbVars, ghostVars, PCs
<1>9. CursorBehindIngest' /\ FetchedIngested'
  BY <1>3 DEF CursorBehindIngest, FetchedIngested, dbVars, ghostVars
<1> QED  BY <1>8, <1>9

\* Types and cursors are kept by every step.
LEMMA TypeCursorNext ==
    ASSUME TypeCursor, [Next]_vars
    PROVE  TypeCursor'
<1>1. CASE UNCHANGED vars
  <2> USE <1>1 DEF vars, envVars, dbVars, engineVars, cycleVars, ghostVars
  <2>1. TypeOK'  BY DEF TypeCursor, TypeOK
  <2>2. CursorBehindIngest' /\ FetchedIngested'
    BY DEF TypeCursor, CursorBehindIngest, FetchedIngested, cur
  <2> QED  BY <2>1, <2>2 DEF TypeCursor
<1>2. CASE Next
  BY <1>2, TypeCursorEnv, TypeCursorControl, TypeCursorWork, TypeCursorIngest,
     TypeCursorCrash DEF Next, LoopStep
<1> QED  BY <1>1, <1>2

\* Types and cursors hold at the first start of the daemon.
LEMMA TypeCursorInit ==
    ASSUME Init
    PROVE  TypeCursor
<1>1. TypeOK
  <2>1. DOMAIN InitRoots \subseteq SyncIds  BY InputFacts DEF RootTable
  <2> QED  BY <2>1, InputFacts DEF Init, TypeOK, PCs
<1>2. CursorBehindIngest /\ FetchedIngested
  BY DEF Init, CursorBehindIngest, FetchedIngested
<1> QED  BY <1>1, <1>2 DEF TypeCursor

\* Types and the control state's promises hold always (TypeOK).
THEOREM TypeCorrect == Spec => []TypeOK
<1>1. TypeCursor => TypeOK  BY DEF TypeCursor
<1> QED  BY TypeCursorInit, TypeCursorNext, <1>1, PTL DEF Spec

\* No crash, failed commit, poll error or edit of the roots lets a root's diff
\* cursor pass what has been ingested for it (poll_remote_diff).
THEOREM CursorAlwaysBehind == Spec => []CursorBehindIngest
<1>1. TypeCursor => CursorBehindIngest  BY DEF TypeCursor
<1> QED  BY TypeCursorInit, TypeCursorNext, <1>1, PTL DEF Spec

-----------------------------------------------------------------------------
\* Fewer operations have fewer keys.
LEMMA KeysMono ==
    ASSUME NEW S, NEW T, S \subseteq T
    PROVE  Keys(S) \subseteq Keys(T)
BY DEF Keys

\* A write of the queue that succeeds covers both lists it is given.
LEMMA PersistCovers ==
    ASSUME NEW q \in Seq(PlannedOperation), NEW d \in Seq(PlannedOperation),
           persist_scheduler_queue(q, d), saved'
    PROVE  /\ Keys(Elems(q)) \subseteq Keys(Elems(queueDb'))
           /\ Keys(Elems(d)) \subseteq Keys(Elems(queueDb'))
<1>1. queueDb' = snapshot_scheduler_durable(q, d)
  BY DEF persist_scheduler_queue
<1> QED  BY <1>1, SnapshotKeys

\* Evicting roots and acknowledging keys only shrink a list.
LEMMA KeptElems ==
    ASSUME NEW s \in Seq(PlannedOperation)
    PROVE  /\ \A gone : Elems(KeepRoots(s, gone)) \subseteq Elems(s)
           /\ \A keys : Elems(ack_batch(s, keys)) \subseteq Elems(s)
<1>1. \A I : I \subseteq DOMAIN s => Elems(Pick(s, I)) \subseteq Elems(s)
  BY PickProps
<1>2. ASSUME NEW gone PROVE Elems(KeepRoots(s, gone)) \subseteq Elems(s)
  <2>1. PICK I : I = {i \in DOMAIN s : s[i].sync \notin gone}  OBVIOUS
  <2> QED  BY <1>1, <2>1 DEF KeepRoots
<1>3. ASSUME NEW keys PROVE Elems(ack_batch(s, keys)) \subseteq Elems(s)
  <2>1. PICK I : I = {i \in DOMAIN s : Key(s[i]) \notin keys}  OBVIOUS
  <2> QED  BY <1>1, <2>1 DEF ack_batch
<1> QED  BY <1>2, <1>3

Durable == InFlightDurable /\ BetweenRootsDurable

\* Where the loop may hold queued work it has not written yet.
Unwritten == {"commit", "scan", "save", "advance"}

\* Steps that write nothing and only shrink the two lists, and do not leave
\* the places where unwritten work is allowed.
LEMMA DurableShrink ==
    ASSUME Durable, queueDb' = queueDb, saved' = saved,
           Keys(Elems(dispatched')) \subseteq Keys(Elems(dispatched)),
           pc' \notin Unwritten =>
                pc \notin Unwritten /\ Keys(Elems(queue')) \subseteq Keys(Elems(queue))
    PROVE  Durable'
<1>1. InFlightDurable'  BY DEF Durable, InFlightDurable
<1>2. BetweenRootsDurable'  BY DEF Durable, BetweenRootsDurable, Unwritten
<1> QED  BY <1>1, <1>2 DEF Durable

\* Steps after which a successful write covers both lists.
LEMMA DurableWrite ==
    ASSUME saved' => /\ Keys(Elems(queue')) \subseteq Keys(Elems(queueDb'))
                     /\ Keys(Elems(dispatched')) \subseteq Keys(Elems(queueDb'))
    PROVE  Durable'
BY DEF Durable, InFlightDurable, BetweenRootsDurable

\* Every step keeps the work durable.
LEMMA DurableNext ==
    ASSUME TypeOK, TypeOK', Durable, [Next]_vars
    PROVE  Durable'
<1>0. /\ queue \in Seq(PlannedOperation) /\ dispatched \in Seq(PlannedOperation)
      /\ queue' \in Seq(PlannedOperation) /\ dispatched' \in Seq(PlannedOperation)
      /\ queueDb \in Seq(PlannedOperation)
  BY DEF TypeOK
<1>1. CASE \/ UNCHANGED vars \/ IpcStep \/ RemoteChange
           \/ ListRoots \/ SkipCycle \/ SkipRoot \/ BeginRoot \/ EndCycle
           \/ PollError \/ NothingScanned \/ EndDownloads \/ EndUploads
           \/ commit_diff_batch
  <2> USE DEF envVars, dbVars, engineVars, cycleVars, ghostVars
  <2>1. CASE UNCHANGED vars \/ IpcStep \/ RemoteChange
    <3>1. UNCHANGED <<queue, dispatched, queueDb, saved, pc>>
      BY <2>1 DEF vars, IpcStep, add_sync_root, remove_sync_root, set_root_paused,
                  change_sync_root_type, Ipc, RemoteChange
    <3> QED  BY <3>1, DurableShrink
  <2>2. CASE \/ ListRoots \/ SkipCycle \/ SkipRoot \/ BeginRoot \/ EndCycle
             \/ PollError \/ NothingScanned \/ EndDownloads \/ EndUploads
             \/ commit_diff_batch
    <3>1. UNCHANGED <<queue, dispatched, queueDb, saved>>
      BY <2>2 DEF ListRoots, SkipCycle, SkipRoot, BeginRoot, EndCycle, PollError,
                  NothingScanned, ScanUnchanged, EndDownloads, EndUploads, commit_diff_batch
    <3>2. pc' \notin Unwritten => pc \notin Unwritten
      BY <2>2 DEF ListRoots, SkipCycle, SkipRoot, BeginRoot, EndCycle, PollError, AfterPoll,
                  NothingScanned, EndDownloads, EndUploads, commit_diff_batch, Unwritten
    <3> QED  BY <3>1, <3>2, DurableShrink
  <2> QED  BY <1>1, <2>1, <2>2
<1>2. CASE PollRemoteDiff \/ FullScan \/ IncrementalScan
  <2>1. UNCHANGED <<dispatched, queueDb, saved>>
    BY <1>2 DEF PollRemoteDiff, FullScan, IncrementalScan, ScanUnchanged, ghostVars
  <2>2. pc' \in Unwritten
    BY <1>2 DEF PollRemoteDiff, FullScan, IncrementalScan, ScanIngest, Unwritten
  <2> QED  BY <2>1, <2>2, DurableShrink
<1>3. CASE SaveQueue
  <2>1. /\ persist_scheduler_queue(queue, dispatched)
        /\ queue' = queue /\ dispatched' = dispatched
    BY <1>3 DEF SaveQueue, engineVars
  <2>2. saved' => /\ Keys(Elems(queue')) \subseteq Keys(Elems(queueDb'))
                  /\ Keys(Elems(dispatched')) \subseteq Keys(Elems(queueDb'))
    BY <1>0, <2>1, PersistCovers
  <2> QED  BY <2>2, DurableWrite
<1>4. CASE EvictRemovedRoots
  <2>1. CASE persist_scheduler_queue(queue', dispatched')
    <3>1. saved' => /\ Keys(Elems(queue')) \subseteq Keys(Elems(queueDb'))
                    /\ Keys(Elems(dispatched')) \subseteq Keys(Elems(queueDb'))
      BY <1>0, <2>1, PersistCovers
    <3> QED  BY <3>1, DurableWrite
  <2>2. CASE UNCHANGED <<queueDb, saved, faults>>
    <3>1. PICK gone : /\ queue' = KeepRoots(queue, gone)
                      /\ dispatched' = KeepRoots(dispatched, gone)
      BY <1>4 DEF EvictRemovedRoots, evict_removed_root
    <3>2. /\ Keys(Elems(queue')) \subseteq Keys(Elems(queue))
          /\ Keys(Elems(dispatched')) \subseteq Keys(Elems(dispatched))
      BY <1>0, <3>1, KeptElems, KeysMono
    <3>3. pc \notin Unwritten  BY <1>4 DEF EvictRemovedRoots, evict_removed_root, Unwritten
    <3> QED  BY <2>2, <3>2, <3>3, DurableShrink
  <2> QED  BY <1>4, <2>1, <2>2 DEF EvictRemovedRoots, evict_removed_root
<1>5. CASE advance_transfers
  <2>1. PICK I : I = take_fair_batch(queue, Limit)  OBVIOUS
  <2>2. PICK b : b = Pick(queue, I)  OBVIOUS
  <2>3. /\ queue' = Pick(queue, DOMAIN queue \ I)
        /\ dispatched' = push_dispatched(dispatched, b)
        /\ \/ I = {} /\ UNCHANGED <<queueDb, saved, faults>>
           \/ persist_scheduler_queue(queue', dispatched')
    BY <1>5, <2>1, <2>2 DEF advance_transfers
  <2>4. CASE persist_scheduler_queue(queue', dispatched')
    <3>1. saved' => /\ Keys(Elems(queue')) \subseteq Keys(Elems(queueDb'))
                    /\ Keys(Elems(dispatched')) \subseteq Keys(Elems(queueDb'))
      BY <1>0, <2>4, PersistCovers
    <3> QED  BY <3>1, DurableWrite
  <2>5. CASE I = {} /\ UNCHANGED <<queueDb, saved, faults>>
    <3>1. queue = <<>>  BY <1>0, <2>1, <2>5, BatchNonEmpty, BoundFacts
    <3>2. {} \subseteq DOMAIN queue /\ DOMAIN queue \ {} \subseteq DOMAIN queue  OBVIOUS
    <3>3. /\ b \in Seq(PlannedOperation)
          /\ Elems(b) \subseteq Elems(queue) /\ Elems(queue') \subseteq Elems(queue)
      BY <1>0, <2>2, <2>3, <2>5, <3>2, PickProps
    <3>4. Elems(queue) = {}  BY <3>1 DEF Elems
    <3>5. Elems(dispatched') \subseteq Elems(dispatched)
      BY <1>0, <2>3, <3>3, <3>4, PushProps
    <3>6. Keys(Elems(dispatched')) \subseteq Keys(Elems(dispatched))
      BY <3>5, KeysMono
    <3>7. Keys(Elems(queue')) = {}  BY <3>3, <3>4 DEF Keys
    <3>8. saved' => Keys(Elems(dispatched')) \subseteq Keys(Elems(queueDb'))
      BY <2>5, <3>6 DEF Durable, InFlightDurable
    <3> QED  BY <3>7, <3>8, DurableWrite
  <2> QED  BY <2>3, <2>4, <2>5
<1>6. CASE DownloadDone \/ DownloadFailed \/ DownloadSkipped \/ UploadDone \/ UploadFailed
  <2>1. /\ TransferUnchanged
        /\ \/ dispatched' = dispatched
           \/ dispatched' = ack_batch(dispatched, {Key(Head(tasks))})
    BY <1>6 DEF DownloadDone, DownloadFailed, DownloadSkipped, UploadDone, UploadFailed,
                Transferred, TransferFailed
  <2>2. Elems(dispatched') \subseteq Elems(dispatched)  BY <1>0, <2>1, KeptElems
  <2>3. Keys(Elems(dispatched')) \subseteq Keys(Elems(dispatched))  BY <2>2, KeysMono
  <2>4. UNCHANGED <<queue, queueDb, saved, pc>>  BY <2>1 DEF TransferUnchanged, dbVars
  <2> QED  BY <2>3, <2>4, DurableShrink
<1>7. CASE Crash \/ CrashUnreadable
  <2>1. PICK roots \in {DOMAIN rootsDb, {}}, stopped \in {PausedInDb, {}},
             deferred \in {overflowDb, <<>>}, saved_queue \in {queueDb, <<>>} :
            Boot(roots, stopped, deferred, saved_queue)
    BY <1>7 DEF Crash, CrashUnreadable
  <2>2. queue' = SortOps(saved_queue) /\ dispatched' = <<>> /\ queueDb' = queueDb
    BY <2>1 DEF Boot, dbVars
  <2>3. saved_queue \in Seq(PlannedOperation) /\ Elems(saved_queue) \subseteq Elems(queueDb)
    <3>1. saved_queue = queueDb \/ saved_queue = <<>>  OBVIOUS
    <3>2. <<>> \in Seq(PlannedOperation)  OBVIOUS
    <3>3. Elems(<<>>) = {}  BY DEF Elems
    <3> QED  BY <1>0, <3>1, <3>2, <3>3
  <2>4. Elems(queue') \subseteq Elems(queueDb')  BY <2>2, <2>3, SortOpsProps
  <2>5. Keys(Elems(queue')) \subseteq Keys(Elems(queueDb'))  BY <2>4, KeysMono
  <2>6. Elems(dispatched') = {}  BY <2>2 DEF Elems
  <2>7. Keys(Elems(dispatched')) = {}  BY <2>6 DEF Keys
  <2> QED  BY <2>5, <2>7, DurableWrite
<1> QED  BY <1>1, <1>2, <1>3, <1>4, <1>5, <1>6, <1>7 DEF Next, LoopStep

\* The work is durable at the first start, when there is none.
LEMMA DurableInit ==
    ASSUME Init
    PROVE  Durable
<1>1. Elems(dispatched) = {} /\ Elems(queue) = {}  BY DEF Init, Elems
<1>2. Keys(Elems(dispatched)) = {} /\ Keys(Elems(queue)) = {}  BY <1>1 DEF Keys
<1> QED  BY <1>2 DEF Durable, InFlightDurable, BetweenRootsDurable

\* Unless the last write of the queue failed, what has been handed out and not
\* acknowledged is in the persisted queue at every step (advance_transfers).
THEOREM InFlightAlwaysDurable == Spec => []InFlightDurable
<1>1. Durable => InFlightDurable  BY DEF Durable
<1> QED  BY TypeCorrect, DurableInit, DurableNext, <1>1, PTL DEF Spec

\* And between two roots so is what is still queued.
THEOREM QueuedDurableBetweenRoots == Spec => []BetweenRootsDurable
<1>1. Durable => BetweenRootsDurable  BY DEF Durable
<1> QED  BY TypeCorrect, DurableInit, DurableNext, <1>1, PTL DEF Spec

\* A restart queues again whatever was in flight when the process died
\* (RealSyncLoopRuntime::new, restore_scheduler_queue).
THEOREM RestartRequeuesWork == Spec => InterruptedWorkRequeued
<1>1. ASSUME TypeOK, InFlightDurable
      PROVE  [Crash /\ saved => Keys(Elems(dispatched)) \subseteq Keys(Elems(queue'))]_vars
  <2>1. SUFFICES ASSUME Crash, saved
                 PROVE  Keys(Elems(dispatched)) \subseteq Keys(Elems(queue'))
    OBVIOUS
  <2>2. queue' = SortOps(queueDb) /\ queueDb \in Seq(PlannedOperation)
    BY <1>1, <2>1 DEF Crash, Boot, TypeOK
  <2>3. Elems(queue') = Elems(queueDb)  BY <2>2, SortOpsProps
  <2> QED  BY <1>1, <2>1, <2>3 DEF InFlightDurable
<1> QED  BY TypeCorrect, InFlightAlwaysDurable, <1>1, PTL DEF InterruptedWorkRequeued

-----------------------------------------------------------------------------
\* No step of the loop, of the IPC thread or of a restart moves a diff cursor
\* backwards (commit_diff_batch).
THEOREM CursorMonotone == Spec => CursorNeverRewinds
<1>1. ASSUME TypeOK, TypeOK', [Next]_vars
      PROVE  [\A r \in SyncIds : cursorDb[r] <= cursorDb'[r]]_vars
  <2>1. cursorDb \in [SyncIds -> Nat] /\ cursorDb' \in [SyncIds -> Nat]
    BY <1>1 DEF TypeOK
  <2>2. CASE commit_diff_batch
    <3>1. /\ todo # <<>>
          /\ \/ cursorDb' = cursorDb
             \/ fetched > cursorDb[cur.id] /\ cursorDb' = [cursorDb EXCEPT ![cur.id] = fetched]
      BY <1>1, <2>2 DEF commit_diff_batch, TypeOK
    <3>2. cur.id \in SyncIds /\ fetched \in Nat  BY <1>1, <3>1, CurType DEF TypeOK
    <3> QED  BY <2>1, <3>1, <3>2
  <2>3. CASE ~commit_diff_batch
    <3> USE DEF vars, envVars, dbVars, engineVars, cycleVars, ghostVars
    <3>1. CASE UNCHANGED vars \/ IpcStep \/ RemoteChange \/ Crash \/ CrashUnreadable
      <4>1. cursorDb' = cursorDb
        BY <3>1 DEF IpcStep, add_sync_root, remove_sync_root, set_root_paused,
                    change_sync_root_type, Ipc, RemoteChange, Crash,
                    CrashUnreadable, Boot
      <4> QED  BY <2>1, <4>1
    <3>2. CASE LoopStep
      <4>1. cursorDb' = cursorDb
        BY <2>3, <3>2 DEF LoopStep, EvictRemovedRoots, ListRoots, SkipCycle, SkipRoot,
            BeginRoot, EndCycle, PollRemoteDiff, PollError, FullScan, IncrementalScan,
            NothingScanned, ScanUnchanged, SaveQueue, advance_transfers, DownloadDone,
            DownloadFailed, DownloadSkipped, EndDownloads, UploadDone, UploadFailed,
            EndUploads, TransferUnchanged
      <4> QED  BY <2>1, <4>1
    <3> QED  BY <1>1, <3>1, <3>2 DEF Next
  <2> QED  BY <2>2, <2>3
<1> QED  BY TypeCorrect, <1>1, PTL DEF Spec, CursorNeverRewinds

-----------------------------------------------------------------------------
\* What the two filters of a list of operations leave out.
LEMMA DroppedElems ==
    ASSUME NEW s \in Seq(PlannedOperation)
    PROVE  /\ \A gone : \A o \in Elems(s) \ Elems(KeepRoots(s, gone)) : o.sync \in gone
           /\ \A keys : \A o \in Elems(s) \ Elems(ack_batch(s, keys)) : Key(o) \in keys
<1>1. \A I : I \subseteq DOMAIN s => Elems(Pick(s, I)) = ElemsAt(s, I)
  BY PickProps
<1>2. ASSUME NEW gone, NEW o \in Elems(s) \ Elems(KeepRoots(s, gone))  PROVE o.sync \in gone
  <2>1. PICK I : I = {i \in DOMAIN s : s[i].sync \notin gone}  OBVIOUS
  <2>2. o \notin ElemsAt(s, I)  BY <1>1, <1>2, <2>1 DEF KeepRoots
  <2> QED  BY <1>2, <2>1, <2>2 DEF Elems, ElemsAt
<1>3. ASSUME NEW keys, NEW o \in Elems(s) \ Elems(ack_batch(s, keys))  PROVE Key(o) \in keys
  <2>1. PICK I : I = {i \in DOMAIN s : Key(s[i]) \notin keys}  OBVIOUS
  <2>2. o \notin ElemsAt(s, I)  BY <1>1, <1>3, <2>1 DEF ack_batch
  <2> QED  BY <1>3, <2>1, <2>2 DEF Elems, ElemsAt
<1> QED  BY <1>2, <1>3

\* Whatever fails, a running loop forgets an operation in flight only when it
\* marks that operation's own transfer, or when the root has left the list it
\* has just read (Scheduler::ack_batch, evict_removed_root).
THEOREM AcksOnlyOwnTransfer == Spec => AckOnlyOwnTransfer
<1> DEFINE Forgets == \A o \in Elems(dispatched) \ Elems(dispatched') :
                        \/ pc \in {"downloads", "uploads"} /\ Key(o) = Key(Head(tasks))
                        \/ pc = "idle" /\ o.sync \notin prevRoots'
<1>1. ASSUME TypeOK, [Next]_vars
      PROVE  [crashes' = crashes => Forgets]_vars
  <2>1. queue \in Seq(PlannedOperation) /\ dispatched \in Seq(PlannedOperation)
    BY <1>1 DEF TypeOK
  <2>2. CASE \/ IpcStep \/ RemoteChange \/ ListRoots \/ SkipCycle \/ SkipRoot \/ BeginRoot
             \/ EndCycle \/ PollRemoteDiff \/ PollError \/ commit_diff_batch
             \/ FullScan \/ IncrementalScan \/ NothingScanned \/ SaveQueue
             \/ EndDownloads \/ EndUploads
    <3>1. dispatched' = dispatched
      BY <2>2 DEF IpcStep, add_sync_root, remove_sync_root, set_root_paused,
                  change_sync_root_type, Ipc, RemoteChange, ListRoots, SkipCycle, SkipRoot,
                  BeginRoot, EndCycle, PollRemoteDiff, PollError, commit_diff_batch,
                  FullScan, IncrementalScan, NothingScanned, ScanUnchanged, SaveQueue,
                  EndDownloads, EndUploads, engineVars
    <3> QED  BY <3>1
  <2>3. CASE EvictRemovedRoots
    <3>1. pc = "idle" /\ dispatched' = KeepRoots(dispatched, prevRoots \ prevRoots')
      BY <2>3 DEF EvictRemovedRoots, evict_removed_root
    <3>2. \A o \in Elems(dispatched) \ Elems(dispatched') : o.sync \in prevRoots \ prevRoots'
      BY <2>1, <3>1, DroppedElems
    <3> QED  BY <3>1, <3>2
  <2>4. CASE advance_transfers
    <3>1. PICK b : /\ b = Pick(queue, take_fair_batch(queue, Limit))
                   /\ dispatched' = push_dispatched(dispatched, b)
      BY <2>4 DEF advance_transfers
    <3>2. take_fair_batch(queue, Limit) \subseteq DOMAIN queue
      BY <2>1, BatchProps, BoundFacts
    <3>3. b \in Seq(PlannedOperation)  BY <2>1, <3>1, <3>2, PickProps
    <3>4. Elems(dispatched) \subseteq Elems(dispatched')  BY <2>1, <3>1, <3>3, PushProps
    <3> QED  BY <3>4
  <2>5. CASE DownloadDone \/ DownloadFailed \/ DownloadSkipped \/ UploadDone \/ UploadFailed
    <3>1. /\ pc \in {"downloads", "uploads"}
          /\ \/ dispatched' = dispatched
             \/ dispatched' = ack_batch(dispatched, {Key(Head(tasks))})
      BY <2>5 DEF DownloadDone, DownloadFailed, DownloadSkipped, UploadDone, UploadFailed,
                  Transferred, TransferFailed
    <3>2. \A o \in Elems(dispatched) \ Elems(dispatched') : Key(o) \in {Key(Head(tasks))}
      BY <2>1, <3>1, DroppedElems
    <3> QED  BY <3>1, <3>2
  <2>6. CASE Crash \/ CrashUnreadable
    <3>1. crashes' = crashes + 1 /\ crashes \in Nat
      BY <1>1, <2>6 DEF Crash, CrashUnreadable, Boot, TypeOK
    <3>2. crashes' # crashes  BY <3>1
    <3> HIDE DEF Forgets
    <3> QED  BY <3>2
  <2>7. CASE UNCHANGED vars
    <3> HIDE DEF Forgets
    <3> QED  BY <2>7
  <2> HIDE DEF Forgets
  <2> QED  BY <1>1, <2>2, <2>3, <2>4, <2>5, <2>6, <2>7 DEF Next, LoopStep
<1> QED  BY TypeCorrect, <1>1, PTL DEF Spec, AckOnlyOwnTransfer

-----------------------------------------------------------------------------
(* The refinement of DurableQueue. *)

\* The keys of what the two filters of a list of operations leave.
LEMMA KeptKeys ==
    ASSUME NEW s \in Seq(PlannedOperation)
    PROVE  /\ \A gone : Keys(Elems(KeepRoots(s, gone))) = {k \in Keys(Elems(s)) : k[1] \notin gone}
           /\ \A key : Keys(Elems(ack_batch(s, {key}))) = Keys(Elems(s)) \ {key}
<1>1. \A I : I \subseteq DOMAIN s => Elems(Pick(s, I)) = ElemsAt(s, I)
  BY PickProps
<1>2. \A o : Key(o)[1] = o.sync  BY DEF Key
<1>3. ASSUME NEW gone
      PROVE  Keys(Elems(KeepRoots(s, gone))) = {k \in Keys(Elems(s)) : k[1] \notin gone}
  <2>1. PICK I : I = {i \in DOMAIN s : s[i].sync \notin gone}  OBVIOUS
  <2>2. Elems(KeepRoots(s, gone)) = ElemsAt(s, I)  BY <1>1, <2>1 DEF KeepRoots
  <2>3. Keys(ElemsAt(s, I)) = {Key(s[i]) : i \in I}  BY DEF Keys, ElemsAt
  <2>4. Keys(Elems(s)) = {Key(s[i]) : i \in DOMAIN s}  BY DEF Keys, Elems
  <2>5. \A i \in DOMAIN s : i \in I <=> Key(s[i])[1] \notin gone  BY <1>2, <2>1
  <2>6. I \subseteq DOMAIN s  BY <2>1
  <2> QED  BY <2>2, <2>3, <2>4, <2>5, <2>6
<1>4. ASSUME NEW key
      PROVE  Keys(Elems(ack_batch(s, {key}))) = Keys(Elems(s)) \ {key}
  <2>1. PICK I : I = {i \in DOMAIN s : Key(s[i]) \notin {key}}  OBVIOUS
  <2>2. Elems(ack_batch(s, {key})) = ElemsAt(s, I)  BY <1>1, <2>1 DEF ack_batch
  <2> QED  BY <2>1, <2>2 DEF Keys, Elems, ElemsAt
<1> QED  BY <1>3, <1>4

\* The keys of two lists together.
LEMMA KeysUnion == \A S, T : Keys(S \cup T) = Keys(S) \cup Keys(T)
  BY DEF Keys

\* The keys of a list of operations are items of the ledger.
LEMMA KeysAreItems ==
    ASSUME NEW s \in Seq(PlannedOperation)
    PROVE  Keys(Elems(s)) \in SUBSET Ledger!Item
<1>1. \A i \in DOMAIN s : s[i] \in PlannedOperation  BY ElemsOfSeq
<1>2. \A o \in PlannedOperation : Key(o) \in SyncIds \X Paths  BY DEF Key, PlannedOperation
<1> QED  BY <1>1, <1>2 DEF Keys, Elems, Ledger!Item

\* A write of the loop's queue is a write of the ledger.
LEMMA PersistIsWrite ==
    ASSUME queue' \in Seq(PlannedOperation), dispatched' \in Seq(PlannedOperation),
           persist_scheduler_queue(queue', dispatched')
    PROVE  Ledger!Write
<1>1. Keys(Elems(snapshot_scheduler_durable(queue', dispatched')))
        = Keys(Elems(queue')) \cup Keys(Elems(dispatched'))
  BY SnapshotKeys
<1> QED  BY <1>1 DEF persist_scheduler_queue, Ledger!Write

\* Every step of the loop, of its environment and of a restart is a step of the
\* ledger or leaves it alone.
LEMMA LedgerStep ==
    ASSUME TypeOK, TypeOK', [Next]_vars
    PROVE  [Ledger!Next]_(Ledger!vars)
<1>1. /\ queue \in Seq(PlannedOperation) /\ dispatched \in Seq(PlannedOperation)
      /\ queue' \in Seq(PlannedOperation) /\ dispatched' \in Seq(PlannedOperation)
      /\ queueDb \in Seq(PlannedOperation)
  BY DEF TypeOK
<1>2. ASSUME UNCHANGED <<queue, dispatched, queueDb, saved>>
      PROVE  UNCHANGED Ledger!vars
  BY <1>2 DEF Ledger!vars
<1>3. CASE UNCHANGED vars \/ IpcStep \/ RemoteChange
  <2>1. UNCHANGED <<queue, dispatched, queueDb, saved>>
    BY <1>3 DEF vars, IpcStep, add_sync_root, remove_sync_root, set_root_paused,
                change_sync_root_type, Ipc, RemoteChange, dbVars, engineVars, ghostVars
  <2> QED  BY <1>2, <2>1
<1>4. CASE \/ ListRoots \/ SkipCycle \/ SkipRoot \/ BeginRoot \/ EndCycle
           \/ PollError \/ NothingScanned \/ EndDownloads \/ EndUploads
           \/ commit_diff_batch
  <2>1. UNCHANGED <<queue, dispatched, queueDb, saved>>
    BY <1>4 DEF ListRoots, SkipCycle, SkipRoot, BeginRoot, EndCycle, PollError, NothingScanned,
                ScanUnchanged, EndDownloads, EndUploads, commit_diff_batch, dbVars,
                engineVars, ghostVars
  <2> QED  BY <1>2, <2>1
<1>5. CASE PollRemoteDiff \/ FullScan \/ IncrementalScan
  <2>1. UNCHANGED <<dispatched, queueDb, saved>>
    BY <1>5 DEF PollRemoteDiff, FullScan, IncrementalScan, ScanUnchanged, ghostVars
  <2>2. Ledger!Plan  BY <1>1, <2>1, KeysAreItems DEF Ledger!Plan
  <2> QED  BY <2>2 DEF Ledger!Next
<1>6. CASE SaveQueue
  <2>1. queue' = queue /\ dispatched' = dispatched /\ persist_scheduler_queue(queue', dispatched')
    BY <1>6 DEF SaveQueue, engineVars
  <2>2. Ledger!Save  BY <1>1, <2>1, PersistIsWrite DEF Ledger!Save
  <2> QED  BY <2>2 DEF Ledger!Next
<1>7. CASE EvictRemovedRoots
  <2>1. PICK gone : /\ gone = prevRoots \ prevRoots'
                    /\ queue' = KeepRoots(queue, gone)
                    /\ dispatched' = KeepRoots(dispatched, gone)
                    /\ \/ gone = {} /\ UNCHANGED <<queueDb, saved>>
                       \/ persist_scheduler_queue(queue', dispatched')
    BY <1>7 DEF EvictRemovedRoots, evict_removed_root
  <2>2. gone \in SUBSET SyncIds  BY <2>1 DEF TypeOK
  <2>3. /\ Keys(Elems(queue')) = {k \in Keys(Elems(queue)) : k[1] \notin gone}
        /\ Keys(Elems(dispatched')) = {k \in Keys(Elems(dispatched)) : k[1] \notin gone}
    BY <1>1, <2>1, KeptKeys
  <2>4. CASE gone = {} /\ UNCHANGED <<queueDb, saved>>
    BY <2>3, <2>4 DEF Ledger!vars
  <2>5. CASE persist_scheduler_queue(queue', dispatched')
    <3>1. Ledger!Evict(gone)  BY <1>1, <2>3, <2>5, PersistIsWrite DEF Ledger!Evict
    <3> QED  BY <2>2, <3>1 DEF Ledger!Next
  <2> QED  BY <2>1, <2>4, <2>5
<1>8. CASE advance_transfers
  <2>1. PICK I : I = take_fair_batch(queue, Limit)  OBVIOUS
  <2>2. PICK b : b = Pick(queue, I)  OBVIOUS
  <2>3. /\ queue' = Pick(queue, DOMAIN queue \ I)
        /\ dispatched' = push_dispatched(dispatched, b)
        /\ \/ I = {} /\ UNCHANGED <<queueDb, saved>>
           \/ persist_scheduler_queue(queue', dispatched')
    BY <1>8, <2>1, <2>2 DEF advance_transfers
  <2>4. I \subseteq DOMAIN queue  BY <1>1, <2>1, BatchProps, BoundFacts
  <2>5. b \in Seq(PlannedOperation) /\ Elems(b) = ElemsAt(queue, I)
    BY <1>1, <2>2, <2>4, PickProps
  <2>6. Elems(queue') = ElemsAt(queue, DOMAIN queue \ I)
    <3>1. PICK J : J = DOMAIN queue \ I  OBVIOUS
    <3> QED  BY <1>1, <2>3, <3>1, PickProps
  <2>7. Elems(dispatched') = Elems(dispatched) \cup Elems(b)  BY <1>1, <2>3, <2>5, PushProps
  <2>8. Elems(queue) = Elems(queue') \cup Elems(b)
    BY <2>4, <2>5, <2>6 DEF Elems, ElemsAt
  <2>9. /\ Keys(Elems(dispatched')) = Keys(Elems(dispatched)) \cup Keys(Elems(b))
        /\ Keys(Elems(queue)) = Keys(Elems(queue')) \cup Keys(Elems(b))
    BY <2>7, <2>8, KeysUnion
  <2>10. CASE I = {} /\ UNCHANGED <<queueDb, saved>>
    <3>1. Elems(b) = {}  BY <2>5, <2>10 DEF ElemsAt
    <3>2. Keys(Elems(b)) = {}  BY <3>1 DEF Keys
    <3> QED  BY <2>9, <2>10, <3>2 DEF Ledger!vars
  <2>11. CASE persist_scheduler_queue(queue', dispatched')
    <3>1. PICK items : items = Keys(Elems(b))  OBVIOUS
    <3>2. Ledger!HandOut(items) /\ items \in SUBSET Keys(Elems(queue))
      BY <1>1, <2>9, <2>11, <3>1, PersistIsWrite DEF Ledger!HandOut
    <3> QED  BY <3>2 DEF Ledger!Next
  <2> QED  BY <2>3, <2>10, <2>11
<1>9. CASE DownloadDone \/ DownloadFailed \/ DownloadSkipped \/ UploadDone \/ UploadFailed
  <2>1. PICK key : key = Key(Head(tasks))  OBVIOUS
  <2>2. /\ UNCHANGED <<queue, queueDb, saved>>
        /\ \/ dispatched' = dispatched
           \/ dispatched' = ack_batch(dispatched, {key})
    BY <1>9, <2>1 DEF DownloadDone, DownloadFailed, DownloadSkipped, UploadDone, UploadFailed,
                      Transferred, TransferFailed, TransferUnchanged, dbVars
  <2>3. CASE dispatched' = dispatched  BY <1>2, <2>2, <2>3
  <2>4. CASE dispatched' = ack_batch(dispatched, {key})
    <3>1. Keys(Elems(dispatched')) = Keys(Elems(dispatched)) \ {key}
      BY <1>1, <2>4, KeptKeys
    <3>2. Ledger!Acknowledge(key)  BY <2>2, <3>1 DEF Ledger!Acknowledge
    <3>3. CASE key \in Keys(Elems(dispatched))  BY <3>2, <3>3 DEF Ledger!Next
    <3>4. CASE key \notin Keys(Elems(dispatched))  BY <2>2, <3>1, <3>4 DEF Ledger!vars
    <3> QED  BY <3>3, <3>4
  <2> QED  BY <2>2, <2>3, <2>4
<1>10. CASE Crash \/ CrashUnreadable
  <2>1. PICK roots \in {DOMAIN rootsDb, {}}, stopped \in {PausedInDb, {}},
             deferred \in {overflowDb, <<>>}, saved_queue \in {queueDb, <<>>} :
            Boot(roots, stopped, deferred, saved_queue)
    BY <1>10 DEF Crash, CrashUnreadable
  <2>2. /\ queue' = SortOps(saved_queue) /\ dispatched' = <<>>
        /\ UNCHANGED <<queueDb, saved>>
    BY <2>1 DEF Boot, dbVars, ghostVars
  <2>3. saved_queue \in Seq(PlannedOperation)
    <3>1. saved_queue = queueDb \/ saved_queue = <<>>  OBVIOUS
    <3>2. <<>> \in Seq(PlannedOperation)  OBVIOUS
    <3> QED  BY <1>1, <3>1, <3>2
  <2>4. Elems(queue') = Elems(saved_queue)  BY <2>2, <2>3, SortOpsProps
  <2>5. Elems(<<>>) = {} /\ Keys({}) = {}  BY DEF Elems, Keys
  <2>6. Keys(Elems(queue')) = Keys(Elems(queueDb)) \/ Keys(Elems(queue')) = {}
    <3>1. saved_queue = queueDb \/ saved_queue = <<>>  OBVIOUS
    <3> QED  BY <2>4, <2>5, <3>1
  <2>7. Keys(Elems(dispatched')) = {}  BY <2>2, <2>5
  <2>8. Ledger!Restart  BY <2>2, <2>6, <2>7 DEF Ledger!Restart
  <2> QED  BY <2>8 DEF Ledger!Next
<1> QED
  BY <1>3, <1>4, <1>5, <1>6, <1>7, <1>8, <1>9, <1>10 DEF Next, LoopStep

\* The loop implements DurableQueue: its persisted queue is a ledger of its work
\* through failed writes, evictions, transfers and restarts.
THEOREM ImplementsQueue == Spec => WorkIsLedgered
<1>1. Init => Ledger!Init
  <2>1. Elems(<<>>) = {} /\ Keys({}) = {}  BY DEF Elems, Keys
  <2> QED  BY <2>1 DEF Init, Ledger!Init
<1> QED  BY <1>1, LedgerStep, TypeCorrect, PTL DEF Spec, WorkIsLedgered, Ledger!Spec

-----------------------------------------------------------------------------
(* The thread around the cycle, and the IPC thread that wakes, pauses and stops
   it: the safety half of SyncLoopThread, for an enabled and a disabled loop. *)

\* The inductive invariant: the two safety properties, and what makes them
\* inductive.  A shutdown is under way exactly while the IPC thread is past
\* its request, so that its wake is still to come or has been sent; and the
\* pause flag, once its request is answered, is on display at every point
\* from which the loop can fall asleep without looking at it again.
ThreadInv ==
    /\ ThreadTypeOK
    /\ NoSleepOnWake
    /\ shutdown <=> (ipc \in {"stopping", "joining", "done"})
    /\ paused /\ ipc # "pausing" /\ place \in {"wait", "waiting", "checkStop"} => status = "Paused"

\* A freshly spawned loop (or one that is disabled) satisfies it.
LEMMA ThreadInitInv == ThreadInit => ThreadInv
  BY DEF ThreadInit, ThreadInv, ThreadTypeOK, NoSleepOnWake

\* Every step of either thread preserves it.
LEMMA ThreadNextInv == ThreadInv /\ [ThreadNext]_threadVars => ThreadInv'
<1> SUFFICES ASSUME ThreadInv, [ThreadNext]_threadVars
             PROVE  ThreadInv'
  OBVIOUS
<1> USE DEF ThreadInv, ThreadTypeOK, NoSleepOnWake, LoopUnchanged
<1>1. CASE IpcRequest
  <2>1. CASE Wake  BY <2>1 DEF Wake, wake
  <2>2. CASE Pause  BY <2>2 DEF Pause
  <2>3. CASE Resume  BY <2>3 DEF Resume
  <2>4. CASE RequestShutdown  BY <2>4 DEF RequestShutdown
  <2> QED  BY <1>1, <2>1, <2>2, <2>3, <2>4 DEF IpcRequest
<1>2. CASE IpcFinish
  <2>1. CASE PauseStatus  BY <2>1 DEF PauseStatus
  <2>2. CASE ResumeWake  BY <2>2 DEF ResumeWake, wake
  <2>3. CASE ShutdownWake  BY <2>3 DEF ShutdownWake, wake
  <2>4. CASE Join  BY <2>4 DEF Join
  <2> QED  BY <1>2, <2>1, <2>2, <2>3, <2>4 DEF IpcFinish
<1>3. CASE ThreadStep
  <2>1. CASE CheckShutdown("top", "checkPaused")  BY <2>1 DEF CheckShutdown
  <2>2. CASE CheckPaused  BY <2>2 DEF CheckPaused
  <2>3. CASE MarkPaused  BY <2>3 DEF MarkPaused
  <2>4. CASE MarkRunning  BY <2>4 DEF MarkRunning
  <2>5. CASE RunCycle  BY <2>5 DEF RunCycle
  <2>6. CASE ReportCycle  BY <2>6 DEF ReportCycle
  <2>7. CASE CheckShutdown("checkStop", "wait")  BY <2>7 DEF CheckShutdown
  <2>8. CASE WaitPredicate
    <3>1. CASE (woken \/ shutdown) /\ place' = "top" /\ woken' = FALSE
      BY <2>8, <3>1 DEF WaitPredicate
    <3>2. CASE ~woken /\ ~shutdown /\ place' = "waiting" /\ UNCHANGED woken
      BY <2>8, <3>2 DEF WaitPredicate
    <3> QED  BY <2>8, <3>1, <3>2 DEF WaitPredicate
  <2>9. CASE Wakeup  BY <2>9 DEF Wakeup
  <2> QED  BY <1>3, <2>1, <2>2, <2>3, <2>4, <2>5, <2>6, <2>7, <2>8, <2>9 DEF ThreadStep
<1>4. CASE SpuriousWakeup  BY <1>4 DEF SpuriousWakeup
<1>5. CASE Timeout  BY <1>5 DEF Timeout
<1>6. CASE UNCHANGED threadVars  BY <1>6 DEF threadVars
<1> QED  BY <1>1, <1>2, <1>3, <1>4, <1>5, <1>6 DEF ThreadNext, Terminated

\* It holds in every state of SyncLoopShared and its two threads.
THEOREM ThreadInvariance == ThreadSpec => []ThreadInv
<1>1. ThreadInit => ThreadInv  BY ThreadInitInv
<1>2. ThreadInv /\ [ThreadNext]_threadVars => ThreadInv'  BY ThreadNextInv
<1> QED  BY <1>1, <1>2, PTL DEF ThreadSpec

\* The state of the two threads is always well-typed.
THEOREM ThreadTypeCorrect == ThreadSpec => []ThreadTypeOK
<1>1. ThreadInv => ThreadTypeOK  BY DEF ThreadInv
<1> QED  BY <1>1, ThreadInvariance, PTL

\* The loop never sleeps on a wake-up call or on a shutdown.
THEOREM NeverSleepsOnWake == ThreadSpec => []NoSleepOnWake
<1>1. ThreadInv => NoSleepOnWake  BY DEF ThreadInv
<1> QED  BY <1>1, ThreadInvariance, PTL

\* A globally paused loop that sleeps reports Paused.
THEOREM PausedIsReported == ThreadSpec => []PausedLoopSaysSo
<1>1. ThreadInv => PausedLoopSaysSo  BY DEF ThreadInv, PausedLoopSaysSo
<1> QED  BY <1>1, ThreadInvariance, PTL

=============================================================================
