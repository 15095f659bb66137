--------------------------- MODULE AuditChainProofs ---------------------------
(***************************************************************************)
(* A daemon with one appending repository (the sync loop is disabled, only *)
(* the IPC thread appends), whose HMAC key is absent or always the same,   *)
(* writes a chain that verifies, for any events, any length of the table   *)
(* and any number of restarts.  With any repositories and any keys, what   *)
(* breaks a sound chain is an append from a stale tail or a changed key.   *)
(***************************************************************************)
EXTENDS AuditChain, SequenceTheorems, TLAPS

USE AuditAssumption

Hash == Seq(Nat \X Events)

Row == [event : Events, prev : Hash, hash : Hash, hmac : BootKeys \cup {NoKey}]

\* Every repository chains from the last row of the table, although it reads
\* the table only when the daemon starts (AuditRepository::last_entry_hash).
CacheIsTail == \A w \in Writers : last[w] = load(rows)

\* Only the repository of the IPC thread appends, with at most one key.
OneWriter ==
    /\ Writers = {"ipc"}
    /\ \A k, l \in BootKeys \ {NoKey} : k = l

\* The hash of a row recomputes, and continues the row before it.
Linked ==
    \A i \in 1..Len(rows) :
        /\ i > 1 => rows[i].prev = rows[i - 1].hash
        /\ rows[i].hash = compute_entry_hash(rows[i].prev, canonical_event(i, rows[i].event))

\* What makes ChainVerifies inductive: every cached hash is the tail.
Inv == TypeOK /\ Linked /\ CacheIsTail

\* The hash of a typed event over a typed hash is typed.
LEMMA HashType ==
    ASSUME NEW prev \in Hash, NEW id \in Nat, NEW e \in Events
    PROVE  compute_entry_hash(prev, canonical_event(id, e)) \in Hash
  BY AppendProperties DEF Hash, compute_entry_hash, canonical_event

\* What a repository reads at start is a hash.
LEMMA LoadType ==
    ASSUME NEW table \in Seq(Row)
    PROVE  load(table) \in Hash
<1>1. CASE table = <<>>
  BY <1>1 DEF load, AUDIT_ZERO_PREV, Hash
<1>2. CASE table # <<>>
  <2>1. Len(table) \in 1..Len(table)  BY <1>2
  <2>2. table[Len(table)] \in Row  BY <2>1
  <2> QED  BY <1>2, <2>2 DEF load, Row
<1> QED  BY <1>1, <1>2

\* The migration to schema v8 writes a typed table whose rows are linked.
LEMMA RebuildLinks ==
    ASSUME NEW events \in Seq(Events)
    PROVE  LET table == rebuild_hash_chain(events)
           IN  /\ table \in Seq(Row)
               /\ \A i \in 1..Len(table) :
                    /\ i > 1 => table[i].prev = table[i - 1].hash
                    /\ table[i].hash = compute_entry_hash(table[i].prev,
                                            canonical_event(i, table[i].event))
<1> DEFINE table == rebuild_hash_chain(events)
           H(n) == [i \in 1..n |-> canonical_event(i, events[i])]
           R(n) == [event |-> events[n], prev |-> H(n - 1), hash |-> H(n), hmac |-> NoKey]
<1>0. Len(events) \in Nat /\ \A n \in 1..Len(events) : events[n] \in Events
  OBVIOUS
<1>1. table = [n \in 1..Len(events) |-> R(n)]
  BY DEF rebuild_hash_chain
<1>2. ASSUME NEW n \in 0..Len(events)
      PROVE  H(n) \in Hash /\ Len(H(n)) = n
  <2>1. \A i \in 1..n : canonical_event(i, events[i]) \in Nat \X Events
    BY <1>0 DEF canonical_event
  <2> HIDE DEF H
  <2>2. H(n) \in [1..n -> Nat \X Events]
    BY <2>1 DEF H
  <2> QED  BY <1>0, <2>2, IsASeq DEF Hash
<1>3. ASSUME NEW n \in 1..Len(events)
      PROVE  R(n) \in Row
  <2>1. H(n - 1) \in Hash /\ H(n) \in Hash  BY <1>0, <1>2
  <2> QED  BY <1>0, <2>1 DEF Row
<1>4. ASSUME NEW n \in 1..Len(events)
      PROVE  H(n) = compute_entry_hash(H(n - 1), canonical_event(n, events[n]))
  <2>1. /\ H(n - 1) \in Seq(Nat \X Events) /\ Len(H(n - 1)) = n - 1
        /\ H(n) \in Seq(Nat \X Events) /\ Len(H(n)) = n
    BY <1>0, <1>2 DEF Hash
  <2>2. canonical_event(n, events[n]) \in Nat \X Events
    BY <1>0 DEF canonical_event
  <2> DEFINE A == Append(H(n - 1), canonical_event(n, events[n]))
  <2>3. /\ A \in Seq(Nat \X Events) /\ Len(A) = n
        /\ \A i \in 1..(n - 1) : A[i] = H(n - 1)[i]
        /\ A[n] = canonical_event(n, events[n])
    <3> HIDE DEF H
    <3> QED  BY <2>1, <2>2, AppendProperties
  <2>4. \A i \in 1..n : A[i] = H(n)[i]
    <3> TAKE i \in 1..n
    <3>1. CASE i = n  BY <1>0, <2>3, <3>1
    <3>2. CASE i # n
      <4>1. i \in 1..(n - 1)  BY <1>0, <3>2
      <4>2. A[i] = H(n - 1)[i]  BY <2>3, <4>1
      <4> HIDE DEF A
      <4> QED  BY <4>1, <4>2
    <3> QED  BY <3>1, <3>2
  <2>5. A = H(n)
    <3> HIDE DEF H, A
    <3> QED  BY <2>1, <2>3, <2>4, SeqEqual
  <2> QED  BY <2>5 DEF compute_entry_hash
<1> HIDE DEF H
<1>5. table \in Seq(Row) /\ Len(table) = Len(events)
  BY <1>0, <1>1, <1>3, IsASeq
<1>6. ASSUME NEW i \in 1..Len(table)
      PROVE  /\ i > 1 => table[i].prev = table[i - 1].hash
             /\ table[i].hash = compute_entry_hash(table[i].prev, canonical_event(i, table[i].event))
  <2>1. table[i] = R(i)  BY <1>1, <1>5
  <2>2. ASSUME i > 1  PROVE table[i - 1] = R(i - 1)  BY <1>0, <1>1, <1>5, <2>2
  <2>3. i > 1 => table[i].prev = table[i - 1].hash  BY <2>1, <2>2
  <2>4. H(i) = compute_entry_hash(H(i - 1), canonical_event(i, events[i]))  BY <1>4, <1>5
  <2> QED  BY <2>1, <2>3, <2>4
<1> QED  BY <1>5, <1>6

-----------------------------------------------------------------------------
\* Types, for any set of writers.
LEMMA TypeInit == Init => TypeOK
<1> SUFFICES ASSUME Init PROVE TypeOK
  OBVIOUS
<1>1. PICK events \in Legacy : rows = rebuild_hash_chain(events)
  BY DEF Init
<1>2. rows \in Seq(Row)
  BY <1>1, RebuildLinks
<1>3. last \in [Writers -> Hash]
  BY <1>2, LoadType DEF Init
<1> QED  BY <1>2, <1>3 DEF Init, TypeOK, Row, Hash

\* One step keeps the types, whoever appends.
LEMMA TypeNext == TypeOK /\ [Next]_vars => TypeOK'
<1> SUFFICES ASSUME TypeOK, [Next]_vars PROVE TypeOK'
  OBVIOUS
<1>0. /\ rows \in Seq(Row) /\ last \in [Writers -> Hash] /\ key \in BootKeys
      /\ Len(rows) \in Nat
  BY DEF TypeOK, Row, Hash
<1>l. [w \in Writers |-> load(rows)] \in [Writers -> Hash]
  BY <1>0, LoadType
<1>1. ASSUME NEW w \in Writers, NEW e \in Events, append_event(w, e)
      PROVE  TypeOK'
  <2> DEFINE hash == compute_entry_hash(last[w], canonical_event(Len(rows) + 1, e))
             row == [event |-> e, prev |-> last[w], hash |-> hash, hmac |-> hmac_key(w)]
  <2>1. hash \in Hash  BY <1>0, HashType
  <2>2. row \in Row
    <3> HIDE DEF hash
    <3> QED  BY <1>0, <2>1 DEF Row, hmac_key
  <2>3. rows' = Append(rows, row) /\ last' = [last EXCEPT ![w] = hash]
    BY <1>1 DEF append_event
  <2> HIDE DEF hash, row
  <2>4. rows' \in Seq(Row) /\ Len(rows') = Len(rows) + 1
    BY <1>0, <2>2, <2>3, AppendProperties
  <2>5. last' \in [Writers -> Hash]  BY <1>0, <2>1, <2>3
  <2> QED  BY <1>1, <2>4, <2>5, <1>0 DEF append_event, TypeOK, Row, Hash
<1>2. CASE VerifierTick
  <2>1. verified' \in 0..Len(rows) /\ checkpoint' \in 0..Len(rows) /\ outcome' \in {"Pass", "Broken"}
    BY <1>0, <1>2 DEF VerifierTick, TypeOK
  <2> QED  BY <1>2, <2>1 DEF VerifierTick, TypeOK
<1>6. CASE VerifierReadError
  <2>1. loadFaults' \in 0..MaxLoadFault
    BY <1>6, AuditAssumption DEF VerifierReadError, TypeOK
  <2> QED  BY <1>6, <2>1 DEF VerifierReadError, TypeOK
<1>3. CASE Restart
  BY <1>3, <1>l DEF Restart, load_checkpoint, TypeOK, Hash
<1>4. CASE RestartUnreadable
  <2>1. [w \in Writers |-> IF w = "loop" THEN AUDIT_ZERO_PREV ELSE load(rows)] \in [Writers -> Hash]
    BY <1>0, LoadType DEF AUDIT_ZERO_PREV, Hash
  <2>2. verified' \in 0..Len(rows') /\ checkpoint' \in 0..Len(rows')
    BY <1>4 DEF RestartUnreadable, load_checkpoint, TypeOK
  <2> QED  BY <1>4, <2>1, <2>2 DEF RestartUnreadable, TypeOK, Hash
<1>5. CASE UNCHANGED vars
  BY <1>5 DEF vars, TypeOK
<1> QED  BY <1>1, <1>2, <1>3, <1>4, <1>5, <1>6 DEF Next

\* Rows, caches and the verifier's claims are well-typed, whoever appends: in
\* particular the verifier never claims an id the table does not have.
THEOREM TypeCorrect == Spec => []TypeOK
<1>1. Init => TypeOK  BY TypeInit
<1>2. TypeOK /\ [Next]_vars => TypeOK'  BY TypeNext
<1> QED  BY <1>1, <1>2, PTL DEF Spec

-----------------------------------------------------------------------------
\* The table of a daemon that starts is linked, and its tail is cached.
LEMMA ChainInit == Init => Inv
<1> SUFFICES ASSUME Init PROVE Linked /\ CacheIsTail
  BY TypeInit DEF Inv
<1>1. PICK events \in Legacy : rows = rebuild_hash_chain(events)
  BY DEF Init
<1>2. Linked
  BY <1>1, RebuildLinks DEF Linked
<1> QED  BY <1>2 DEF Init, CacheIsTail

\* One step keeps it so, when only one repository appends.
LEMMA ChainNext == OneWriter /\ Inv /\ [Next]_vars => Inv'
<1> SUFFICES ASSUME OneWriter, Inv, [Next]_vars PROVE Linked' /\ CacheIsTail'
  BY TypeNext DEF Inv
<1>0. /\ rows \in Seq(Row) /\ last \in [Writers -> Hash] /\ Len(rows) \in Nat
      /\ Linked /\ CacheIsTail
  BY DEF Inv, TypeOK, Row, Hash
<1>1. ASSUME NEW w \in Writers, NEW e \in Events, append_event(w, e)
      PROVE  Linked' /\ CacheIsTail'
  <2> DEFINE n == Len(rows) + 1
             hash == compute_entry_hash(last[w], canonical_event(n, e))
             row == [event |-> e, prev |-> last[w], hash |-> hash, hmac |-> hmac_key(w)]
  <2>1. hash \in Hash  BY <1>0, HashType
  <2>2. rows' = Append(rows, row) /\ last' = [last EXCEPT ![w] = hash]
    BY <1>1 DEF append_event
  <2>3. row.event = e /\ row.prev = last[w] /\ row.hash = hash
    OBVIOUS
  <2>4. last[w] = load(rows)  BY <1>0 DEF CacheIsTail
  <2>5. row \in Row
    <3> HIDE DEF hash
    <3> QED  BY <1>0, <2>1 DEF Row, hmac_key, Inv, TypeOK
  <2> HIDE DEF row
  <2>6. /\ Len(rows') = n /\ rows'[n] = row
        /\ \A i \in 1..Len(rows) : rows'[i] = rows[i]
    BY <1>0, <2>2, <2>5, AppendProperties
  <2>7. Linked'
    <3> SUFFICES ASSUME NEW i \in 1..n
                 PROVE  /\ i > 1 => rows'[i].prev = rows'[i - 1].hash
                        /\ rows'[i].hash = compute_entry_hash(rows'[i].prev,
                                                canonical_event(i, rows'[i].event))
      BY <2>6 DEF Linked
    <3>1. CASE i = n
      <4>1. n > 1 => load(rows) = rows[n - 1].hash /\ rows'[n - 1] = rows[n - 1]
        BY <1>0, <2>6 DEF load
      <4> QED  BY <1>0, <2>3, <2>4, <2>6, <3>1, <4>1
    <3>2. CASE i # n
      <4>1. i \in 1..Len(rows) /\ (i > 1 => i - 1 \in 1..Len(rows))  BY <1>0, <3>2
      <4> QED  BY <1>0, <2>6, <4>1 DEF Linked
    <3> QED  BY <3>1, <3>2
  <2>8. load(rows') = hash
    BY <1>0, <2>3, <2>6 DEF load
  <2>9. CacheIsTail'
    <3> SUFFICES ASSUME NEW v \in Writers PROVE last'[v] = load(rows')
      BY DEF CacheIsTail
    <3>1. v = w  BY DEF OneWriter
    <3> QED  BY <1>0, <2>2, <2>8, <3>1
  <2> QED  BY <2>7, <2>9
<1>2. CASE VerifierTick
  BY <1>0, <1>2 DEF VerifierTick, Linked, CacheIsTail
<1>3. CASE Restart
  BY <1>0, <1>3 DEF Restart, Linked, CacheIsTail
<1>4. CASE RestartUnreadable
  BY <1>4 DEF RestartUnreadable, OneWriter
<1>6. CASE VerifierReadError
  BY <1>0, <1>6 DEF VerifierReadError, Linked, CacheIsTail
<1>5. CASE UNCHANGED vars
  BY <1>0, <1>5 DEF vars, Linked, CacheIsTail
<1> QED  BY <1>1, <1>2, <1>3, <1>4, <1>5, <1>6 DEF Next

\* With one key the tag of every signed row is the key of the walk.
LEMMA LinkedVerifies == OneWriter /\ Inv => ChainVerifies
<1> SUFFICES ASSUME OneWriter, Inv, NEW i \in 1..Len(rows) PROVE RowVerifies(0, i)
  BY DEF ChainVerifies, verify_chain
<1>1. /\ i > 1 => rows[i].prev = rows[i - 1].hash
      /\ rows[i].hash = compute_entry_hash(rows[i].prev, canonical_event(i, rows[i].event))
  BY DEF Inv, Linked
<1>2. rows[i].hmac \in BootKeys \cup {NoKey} /\ key \in BootKeys
  <2>1. rows \in Seq(Row) /\ key \in BootKeys  BY DEF Inv, TypeOK, Row, Hash
  <2>2. rows[i] \in Row  BY <2>1
  <2> QED  BY <2>1, <2>2 DEF Row
<1>3. key # NoKey /\ rows[i].hmac # NoKey => rows[i].hmac = key
  BY <1>2 DEF OneWriter
<1> QED  BY <1>1, <1>3 DEF RowVerifies

\* A chain written by one repository under one key always verifies: appending
\* from the cached tail is sound as long as nobody else appends.
THEOREM OneWriterChainVerifies == OneWriter => (Spec => []ChainVerifies)
<1> SUFFICES ASSUME OneWriter PROVE Spec => []ChainVerifies
  OBVIOUS
<1>1. Init => Inv  BY ChainInit
<1>2. Inv /\ [Next]_vars => Inv'  BY ChainNext
<1>3. Inv => ChainVerifies  BY LinkedVerifies
<1> QED  BY <1>1, <1>2, <1>3, PTL DEF Spec

-----------------------------------------------------------------------------
\* Whoever appends and whatever keys the daemon is given: a sound chain breaks
\* exactly when a row is appended from a hash that is not the tail of the table,
\* or a start brings a key that a signed row was not made with.
THEOREM BreaksExactly == Spec => ChainBreaksExactly
<1>1. TypeOK /\ [Next]_vars
        => [ChainVerifies => (~ChainVerifies' <=> StaleAppend \/ ForeignTag)]_vars
  <2> SUFFICES ASSUME TypeOK, Next, ChainVerifies
               PROVE  ~ChainVerifies' <=> StaleAppend \/ ForeignTag
    OBVIOUS
  <2>0. /\ rows \in Seq(Row) /\ last \in [Writers -> Hash] /\ Len(rows) \in Nat
        /\ key \in BootKeys /\ DOMAIN rows = 1..Len(rows)
        /\ \A i \in 1..Len(rows) : RowVerifies(0, i)
    BY DEF TypeOK, Row, Hash, ChainVerifies, verify_chain
  <2>1. ASSUME NEW w \in Writers, NEW e \in Events, append_event(w, e)
        PROVE  ~ChainVerifies' <=> StaleAppend \/ ForeignTag
    <3> DEFINE n == Len(rows) + 1
               hash == compute_entry_hash(last[w], canonical_event(n, e))
               row == [event |-> e, prev |-> last[w], hash |-> hash, hmac |-> hmac_key(w)]
    <3>1. rows' = Append(rows, row) /\ key' = key
      BY <2>1 DEF append_event
    <3>2. row.event = e /\ row.prev = last[w] /\ row.hash = hash /\ row.hmac = hmac_key(w)
      OBVIOUS
    <3>3. hash \in Hash  BY <2>0, HashType
    <3>4. row \in Row
      <4> HIDE DEF hash
      <4> QED  BY <2>0, <3>3 DEF Row, hmac_key, TypeOK
    <3> HIDE DEF row
    <3>5. /\ Len(rows') = n /\ rows'[n] = row
          /\ \A i \in 1..Len(rows) : rows'[i] = rows[i]
      BY <2>0, <3>1, <3>4, AppendProperties
    <3>6. ~ForeignTag
      BY <2>0, <3>1 DEF ForeignTag, RowVerifies
    <3>7. ASSUME NEW i \in 1..Len(rows) PROVE RowVerifies(0, i)'
      <4>1. rows'[i] = rows[i] /\ (i > 1 => i - 1 \in 1..Len(rows))  BY <2>0, <3>5
      <4>2. i > 1 => rows'[i - 1] = rows[i - 1]  BY <3>5, <4>1
      <4> QED  BY <2>0, <3>1, <4>1, <4>2 DEF RowVerifies
    <3> PICK k \in Nat : k = Len(rows) + 1  BY <2>0
    <3>8. ChainVerifies' <=> RowVerifies(0, k)'
      <4>1. ChainVerifies' <=> \A i \in 1..k : RowVerifies(0, i)'
        BY <3>5 DEF ChainVerifies, verify_chain
      <4>2. k \in 1..k /\ \A i \in 1..k : i # k => i \in 1..Len(rows)  BY <2>0
      <4> QED  BY <3>7, <4>1, <4>2
    <3>9. key' # NoKey /\ row.hmac # NoKey => row.hmac = key'
      BY <3>1, <3>2 DEF hmac_key
    <3>10. RowVerifies(0, k)' <=> (n > 1 => last[w] = rows'[n - 1].hash)
      BY <2>0, <3>2, <3>5, <3>9 DEF RowVerifies
    <3>11. n > 1 => load(rows) = rows'[n - 1].hash
      BY <2>0, <3>5 DEF load
    <3>12. n > 1 <=> rows # <<>>  BY <2>0
    <3>13. StaleAppend <=> n > 1 /\ last[w] # load(rows)
      BY <2>0, <3>2, <3>5, <3>12 DEF StaleAppend
    <3> QED  BY <3>6, <3>8, <3>10, <3>11, <3>13
  <2>2. ASSUME rows' = rows
        PROVE  ~ChainVerifies' <=> StaleAppend \/ ForeignTag
    <3>1. ~StaleAppend  BY <2>0, <2>2 DEF StaleAppend
    <3>2. ASSUME NEW i \in 1..Len(rows)
          PROVE  RowVerifies(0, i)' <=> (key' # NoKey /\ rows[i].hmac # NoKey => rows[i].hmac = key')
      BY <2>0, <2>2 DEF RowVerifies
    <3>3. ChainVerifies' <=> \A i \in 1..Len(rows) : RowVerifies(0, i)'
      BY <2>2 DEF ChainVerifies, verify_chain
    <3> QED  BY <2>0, <3>1, <3>2, <3>3 DEF ForeignTag
  <2>3. CASE VerifierTick  BY <2>2, <2>3 DEF VerifierTick
  <2>4. CASE VerifierReadError  BY <2>2, <2>4 DEF VerifierReadError
  <2>5. CASE Restart  BY <2>2, <2>5 DEF Restart
  <2>6. CASE RestartUnreadable  BY <2>2, <2>6 DEF RestartUnreadable
  <2> QED  BY <2>1, <2>3, <2>4, <2>5, <2>6 DEF Next
<1> QED  BY <1>1, TypeCorrect, PTL DEF Spec, ChainBreaksExactly

-----------------------------------------------------------------------------
\* A step that appends does not repair a broken chain.
LEMMA BrokenStaysBroken ==
    ASSUME TypeOK, NEW w \in Writers, NEW e \in Events, append_event(w, e), ~verify_chain(0)
    PROVE  ~verify_chain(0)'
<1>0. /\ rows \in Seq(Row) /\ last \in [Writers -> Hash] /\ key \in BootKeys /\ Len(rows) \in Nat
  BY DEF TypeOK, Row, Hash
<1>1. PICK row : rows' = Append(rows, row)
  BY DEF append_event
<1>2. /\ Len(rows') = Len(rows) + 1
      /\ \A i \in 1..Len(rows) : rows'[i] = rows[i]
  BY <1>0, <1>1
<1>3. PICK i \in 1..Len(rows) : ~RowVerifies(0, i)
  BY <1>0 DEF verify_chain
<1>4. ~RowVerifies(0, i)'
  <2>1. rows'[i] = rows[i] /\ (i > 1 => rows'[i - 1] = rows[i - 1]) /\ key' = key
    BY <1>0, <1>2 DEF append_event
  <2> QED  BY <1>0, <1>3, <2>1 DEF RowVerifies
<1>5. i \in (0 + 1)..Len(rows')
  BY <1>0, <1>2
<1> QED  BY <1>4, <1>5 DEF verify_chain

\* The scheduled verifier raises no false alarm, whoever appends and wherever
\* its checkpoint is.
THEOREM NeverFalseAlarm == Spec => []NoFalseAlarm
<1>1. Init => NoFalseAlarm
  BY DEF Init, NoFalseAlarm
<1>2. TypeOK /\ NoFalseAlarm /\ [Next]_vars => NoFalseAlarm'
  <2> SUFFICES ASSUME TypeOK, NoFalseAlarm, [Next]_vars PROVE NoFalseAlarm'
    OBVIOUS
  <2>1. ASSUME NEW w \in Writers, NEW e \in Events, append_event(w, e)
        PROVE  NoFalseAlarm'
    <3>1. outcome' = outcome  BY <2>1 DEF append_event
    <3> QED  BY <2>1, <3>1, BrokenStaysBroken DEF NoFalseAlarm
  <2>2. CASE VerifierTick
    <3> SUFFICES ASSUME ~verify_chain(verified), VerifierTick PROVE ~verify_chain(0)'
      BY <2>2 DEF VerifierTick, NoFalseAlarm
    <3>1. PICK i \in (verified + 1)..Len(rows) : ~RowVerifies(verified, i)
      BY DEF verify_chain
    <3>2. verified \in Nat /\ Len(rows) \in Nat  BY DEF TypeOK
    <3>3. ~RowVerifies(0, i) /\ i \in (0 + 1)..Len(rows)
      BY <3>1, <3>2 DEF RowVerifies
    <3> QED  BY <3>3 DEF verify_chain, RowVerifies, VerifierTick
  <2>6. CASE VerifierReadError  BY <2>6 DEF VerifierReadError, NoFalseAlarm
  <2>3. CASE Restart  BY <2>3 DEF Restart, NoFalseAlarm
  <2>4. CASE RestartUnreadable  BY <2>4 DEF RestartUnreadable, NoFalseAlarm
  <2>5. CASE UNCHANGED vars  BY <2>5 DEF vars, NoFalseAlarm, verify_chain, RowVerifies
  <2> QED  BY <2>1, <2>2, <2>3, <2>4, <2>5, <2>6 DEF Next
<1> QED  BY <1>1, <1>2, TypeCorrect, PTL DEF Spec

=============================================================================
