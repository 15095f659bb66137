------------------------------ MODULE AuditChain ------------------------------
(***************************************************************************)
(* The tamper-evident audit log: the audit_events table, the repositories  *)
(* that append to it from a cached tail hash, the walk that verifies it    *)
(* and the scheduled verifier with its checkpoint.                         *)
(*                                                                         *)
(* A hash is the sequence of the events hashed so far, so that two hashes  *)
(* are equal exactly when the same events went in: SHA-256 without         *)
(* collisions.  The HMAC of a row is the key it was made with.             *)
(***************************************************************************)
EXTENDS Naturals, Sequences

CONSTANTS
    Writers,        \* repositories appending: the IPC thread's "ipc", the sync loop's "loop"
    Events,         \* category, details and time of an event
    Legacy,         \* event lists a database older than schema v8 may hold
    BootKeys,       \* values of PCLOUD_AUDIT_HMAC_KEY at a start of the daemon
    MaxRows, MaxRestart, MaxLoadFault    \* bounds

NoKey == "none"     \* also an hmac column that is NULL

ASSUME AuditAssumption ==
    /\ Writers \subseteq {"ipc", "loop"}
    /\ Legacy \subseteq Seq(Events)
    /\ {MaxRows, MaxRestart, MaxLoadFault} \subseteq Nat

VARIABLES
    rows,           \* audit_events in id order; the id of a row is its place
    last,           \* last_entry_hash, per repository
    key,            \* PCLOUD_AUDIT_HMAC_KEY of this process
    verified,       \* last_verified_id; 0 is None
    checkpoint,     \* the verifier's checkpoint file; 0 when there is none
    outcome,        \* VerifierOutcome; Fail is "Broken" or "Unreadable", by its detail
    restarts, loadFaults

vars == <<rows, last, key, verified, checkpoint, outcome, restarts, loadFaults>>

AUDIT_ZERO_PREV == <<>>

canonical_event(id, e) == <<id, e>>

compute_entry_hash(prev, ev) == Append(prev, ev)

\* The v8 migration, over the events of the old table.
rebuild_hash_chain(events) ==
    LET Hash(n) == [i \in 1..n |-> canonical_event(i, events[i])]
    IN  [n \in 1..Len(events) |->
            [event |-> events[n], prev |-> Hash(n - 1), hash |-> Hash(n), hmac |-> NoKey]]

\* Mutant: a start does not read the tail of the table.
MutLoadZero(table) == AUDIT_ZERO_PREV

\* AuditRepository::load.
load(table) == IF table = <<>> THEN AUDIT_ZERO_PREV ELSE table[Len(table)].hash

Init ==
    /\ \E events \in Legacy : rows = rebuild_hash_chain(events)
    /\ last = [w \in Writers |-> load(rows)]
    /\ key \in BootKeys
    /\ verified = 0 /\ checkpoint = 0
    /\ outcome = "NeverRun"
    /\ restarts = 0 /\ loadFaults = 0

\* Only the repository of the IPC thread is given the HMAC key.
hmac_key(w) == IF w = "ipc" THEN key ELSE NoKey

\* One transaction: insert, hash from the cached tail, back-fill.
append_event(w, e) ==
    /\ Len(rows) < MaxRows
    /\ LET hash == compute_entry_hash(last[w], canonical_event(Len(rows) + 1, e))
       IN  /\ rows' = Append(rows, [event |-> e, prev |-> last[w], hash |-> hash,
                                    hmac |-> hmac_key(w)])
           /\ last' = [last EXCEPT ![w] = hash]
    /\ UNCHANGED <<key, verified, checkpoint, outcome, restarts, loadFaults>>

\* Mutant: the first row of every range must be a genesis row.
MutGenesisEverywhere(from, i) ==
    /\ rows[i].prev = IF i > from + 1 THEN rows[i - 1].hash ELSE AUDIT_ZERO_PREV
    /\ rows[i].hash = compute_entry_hash(rows[i].prev, canonical_event(i, rows[i].event))
    /\ key # NoKey /\ rows[i].hmac # NoKey => rows[i].hmac = key

\* The walk over the ids above from (None is 0).  The first row of the range
\* is trusted for its prev_hash, whatever the range.
RowVerifies(from, i) ==
    /\ i > from + 1 => rows[i].prev = rows[i - 1].hash
    /\ rows[i].hash = compute_entry_hash(rows[i].prev, canonical_event(i, rows[i].event))
    /\ key # NoKey /\ rows[i].hmac # NoKey => rows[i].hmac = key

verify_chain(from) == \A i \in (from + 1)..Len(rows) : RowVerifies(from, i)

\* One tick of the verifier's scheduler_loop.  A tick that walked no row keeps
\* the checkpoint, as does one whose checkpoint has no path or is not written.
VerifierTick ==
    /\ \/ /\ verify_chain(verified)
          /\ outcome' = "Pass"
          /\ verified' = IF Len(rows) > verified THEN Len(rows) ELSE verified
          /\ checkpoint' \in {checkpoint} \cup {n \in {verified'} : n > verified}
       \/ /\ ~verify_chain(verified)
          /\ outcome' = "Broken"
          /\ UNCHANGED <<verified, checkpoint>>
    /\ UNCHANGED <<rows, last, key, restarts, loadFaults>>

\* A tick that cannot read the table: Fail as well, with the SQLite error.
VerifierReadError ==
    /\ loadFaults < MaxLoadFault
    /\ loadFaults' = loadFaults + 1
    /\ outcome' = "Unreadable"
    /\ UNCHANGED <<rows, last, key, verified, checkpoint, restarts>>

\* A checkpoint that is absent, or that a crash has torn while it was being
\* rewritten in place, is read as None.
load_checkpoint == {checkpoint, 0}

\* The daemon stops and starts again; every repository loads the tail.
Restart ==
    /\ restarts < MaxRestart
    /\ restarts' = restarts + 1
    /\ last' = [w \in Writers |-> load(rows)]
    /\ key' \in BootKeys
    /\ verified' \in load_checkpoint
    /\ outcome' = "NeverRun"
    /\ UNCHANGED <<rows, checkpoint, loadFaults>>

\* The same, and the sync loop cannot read the table: it starts from the
\* default repository.  The IPC thread's repository would abort the start.
RestartUnreadable ==
    /\ restarts < MaxRestart /\ loadFaults < MaxLoadFault
    /\ "loop" \in Writers
    /\ restarts' = restarts + 1
    /\ loadFaults' = loadFaults + 1
    /\ last' = [w \in Writers |-> IF w = "loop" THEN AUDIT_ZERO_PREV ELSE load(rows)]
    /\ key' \in BootKeys
    /\ verified' \in load_checkpoint
    /\ outcome' = "NeverRun"
    /\ UNCHANGED <<rows, checkpoint>>

Next ==
    \/ \E w \in Writers, e \in Events : append_event(w, e)
    \/ VerifierTick
    \/ VerifierReadError
    \/ Restart
    \/ RestartUnreadable

Spec == Init /\ [][Next]_vars

-----------------------------------------------------------------------------
(* Properties. *)

\* What rows, hashes and the verifier's state may be; an id it claims to have
\* verified exists.
TypeOK ==
    /\ rows \in Seq([event : Events, prev : Seq(Nat \X Events), hash : Seq(Nat \X Events),
                     hmac : BootKeys \cup {NoKey}])
    /\ last \in [Writers -> Seq(Nat \X Events)]
    /\ key \in BootKeys
    /\ verified \in 0..Len(rows) /\ checkpoint \in 0..Len(rows)
    /\ outcome \in {"NeverRun", "Pass", "Broken", "Unreadable"}
    /\ restarts \in 0..MaxRestart /\ loadFaults \in 0..MaxLoadFault

\* A full walk accepts the table.
ChainVerifies == verify_chain(0)

\* An append from a cached tail that somebody else has moved since
\* (append_event reads last_entry_hash and never the table).
StaleAppend ==
    /\ rows # <<>> /\ Len(rows') > Len(rows)
    /\ rows'[Len(rows')].prev # load(rows)

\* The process holds a key, and a row of the table is signed with another one.
ForeignTag == \E i \in DOMAIN rows : rows[i].hmac \notin {NoKey, key'} /\ key' # NoKey

\* What breaks a sound chain, exactly.  A full walk that accepted the table
\* rejects it after a step if and only if the step appended from a stale tail
\* (two repositories on one table: the IPC thread's and the sync loop's) or was
\* a start with a key other than the one a row was signed with.  No migration,
\* no other restart or append, no late key and no verifier tick breaks it
\* (append_event, load and rebuild_hash_chain against verify_chain).
ChainBreaksExactly ==
    [][ChainVerifies => (~ChainVerifies' <=> StaleAppend \/ ForeignTag)]_vars

\* A walk from a checkpoint never raises a false alarm: when the scheduled
\* verifier reports a broken row, a full walk finds the chain broken as well.
NoFalseAlarm == outcome = "Broken" => ~verify_chain(0)

=============================================================================
