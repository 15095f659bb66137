------------------------- MODULE ResumableUploadProofs -------------------------
(***************************************************************************)
(* The safety properties of ResumableUpload hold for any payloads, any     *)
(* targets, any retry limit and any number of runs and crashes.            *)
(***************************************************************************)
EXTENDS ResumableUpload, TLAPS

\* A run past upload_create works on the session of the row, if there is a row, and
\* its own offset is confirmed as the one in the row is.
RunFits ==
    /\ run.pc \in {"create", "put"} => row = NoRow
    /\ run.pc \in {"write", "update", "info", "save", "delete"} =>
          /\ run.offset <= Total
          /\ row # NoRow => row.id = run.id /\ row.total = Total
          /\ Live(run.id) => run.offset <= Len(session[run.id].cells)
    /\ run.pc = "cleanup" /\ run.created = "yes" => run.id \in 1..Len(session)
    /\ run.created = "yes" => run.pc \notin {"idle", "create"}
    /\ run.refreshed = "no" => run.attempts < MaxAttempts

\* What upload_info has verified is there at upload_save, and what upload_save has
\* answered is there when the row goes.
RunCarries ==
    /\ run.pc = "save" => Verified
    /\ run.pc = "delete" => remote[run.target] = run.payload

Inv == TypeOK /\ RunFits /\ RunCarries /\ RowBehindServer

\* upload_write makes the session reach past the chunk and shortens nothing.
LEMMA PutFacts ==
    ASSUME NEW cells \in Seq(Nat), NEW offset \in Nat, NEW chunk \in Nat
    PROVE  /\ Put(cells, offset, chunk) \in Seq(Nat)
           /\ Len(Put(cells, offset, chunk)) \in Nat
           /\ Len(Put(cells, offset, chunk)) >= Len(cells)
           /\ Len(Put(cells, offset, chunk)) >= offset + 1
<1> DEFINE n == IF Len(cells) > offset THEN Len(cells) ELSE offset + 1
<1>1. n \in Nat /\ n >= Len(cells) /\ n >= offset + 1
  OBVIOUS
<1>2. Put(cells, offset, chunk) \in [1..n -> Nat]
  BY <1>1 DEF Put, Hole
<1>. HIDE DEF n
<1>3. Put(cells, offset, chunk) \in Seq(Nat) /\ Len(Put(cells, offset, chunk)) = n
  BY SMTT(40), <1>1, <1>2
<1>. QED
  BY <1>1, <1>3

\* The server's sessions, one by one.
LEMMA SessionTypes ==
    ASSUME NEW s \in Seq(Sessions)
    PROVE  /\ Len(s) \in Nat
           /\ \A k \in 1..Len(s) : /\ s[k] \in Sessions
                                   /\ s[k].cells \in Seq(Nat) /\ Len(s[k].cells) \in Nat
                                   /\ s[k].live \in {"yes", "no"}
<1>1. Len(s) \in Nat /\ \A k \in 1..Len(s) : s[k] \in Sessions
  OBVIOUS
<1>2. \A x \in Sessions : x.cells \in Seq(Nat) /\ Len(x.cells) \in Nat /\ x.live \in {"yes", "no"}
  BY DEF Sessions
<1>. QED
  BY <1>1, <1>2

\* One session of the server changes and the others do not.
LEMMA SessionUpdate ==
    ASSUME NEW s \in Seq(Sessions), NEW id \in 1..Len(s), NEW rec \in Sessions
    PROVE  LET t == [s EXCEPT ![id] = rec]
           IN  /\ t \in Seq(Sessions) /\ Len(t) = Len(s)
               /\ t[id] = rec
               /\ \A k \in 1..Len(s) : k # id => t[k] = s[k]
OBVIOUS

\* Fields of a run.
LEMMA RunTypes ==
    ASSUME NEW r \in Runs
    PROVE  /\ r.payload \in Seq(Nat) /\ Len(r.payload) \in Nat
           /\ r.id \in Nat /\ r.offset \in Nat /\ r.attempts \in 0..MaxAttempts
           /\ r.refreshed \in {"yes", "no"} /\ r.created \in {"yes", "no"}
           /\ r.target \in Targets \cup {"-"}
BY DEF Runs

LEMMA NoRunFacts ==
    /\ NoRun \in Runs
    /\ NoRun.pc = "idle" /\ NoRun.created = "no" /\ NoRun.attempts = 0
BY UploadAssumption DEF NoRun, Runs

LEMMA NoRowFacts == NoRow \in Rows /\ NoRow.id = 0
BY DEF NoRow, Rows

\* A state of the machine.
LEMMA IsState ==
    ASSUME NEW tag \in {"Idle", "Creating", "Writing", "Saving", "Done", "Paused", "Failed"},
           NEW offset \in Nat
    PROVE  Is(tag, offset) \in States /\ Is(tag, offset).tag = tag
BY DEF Is, States

\* What a failed attempt does to the run: it ends, is tried again with one attempt
\* more, or goes to the clean-up.
LEMMA FailedFacts ==
    ASSUME Inv, NEW class \in ErrorClasses, run.pc \in {"create", "write", "info", "save"},
           Failed(class)
    PROVE  /\ state' \in States
           /\ state'.tag = "Done" => state.tag = "Done"
           /\ \/ run' = NoRun
              \/ /\ run' \in Runs
                 /\ run'.pc \in {RetryPc, "cleanup"}
                 /\ run'.payload = run.payload /\ run'.target = run.target /\ run'.id = run.id
                 /\ run'.offset = run.offset /\ run'.created = run.created
                 /\ run'.refreshed = "no" => run'.attempts < MaxAttempts
<1> USE UploadAssumption DEF Inv, TypeOK, RunFits
<1>0. 0 \in 0..MaxAttempts /\ 0 < MaxAttempts
  OBVIOUS
<1>1. CASE Permanent
  <2>1. state' \in States /\ state'.tag # "Done"
    BY <1>1, IsState DEF Permanent
  <2>. QED
    BY <1>0, <1>1, <2>1, RunTypes DEF Permanent, Runs
<1>2. CASE GiveUp
  BY <1>2, IsState DEF GiveUp, Return
<1>5. RetryPc \in {"create", "write", "info"}
  BY DEF RetryPc
<1>6. ASSUME NEW refreshed \in {"yes", "no"}, Retry(refreshed), run.attempts + 1 <= MaxAttempts,
             refreshed = "no" => run.attempts + 1 < MaxAttempts
      PROVE  /\ run' \in Runs
             /\ run'.pc = RetryPc
             /\ run'.payload = run.payload /\ run'.target = run.target /\ run'.id = run.id
             /\ run'.offset = run.offset /\ run'.created = run.created
             /\ run'.refreshed = "no" => run'.attempts < MaxAttempts
             /\ state' = state
  <2>1. run.attempts + 1 \in 0..MaxAttempts
    BY <1>6, RunTypes
  <2>. QED
    BY <1>5, <1>6, <2>1, RunTypes DEF Retry, Runs
<1>3. CASE run.refreshed = "no" /\ Retry("yes")
  <2>1. run.attempts + 1 <= MaxAttempts
    BY <1>3, RunTypes
  <2>. QED
    BY <1>3, <1>6, <2>1
<1>4. CASE run.attempts + 1 < MaxAttempts /\ Retry(run.refreshed)
  <2>1. run.attempts + 1 <= MaxAttempts /\ run.refreshed \in {"yes", "no"}
    BY <1>4, RunTypes
  <2>. QED
    BY <1>4, <1>6, <2>1
<1>. QED
  BY <1>1, <1>2, <1>3, <1>4 DEF Failed

\* A run that ends keeps the invariant, provided the server and the row do.
LEMMA RunEnds ==
    ASSUME Inv, run' = NoRun, state' \in States, row' \in {row, NoRow},
           session' \in Seq(Sessions), Len(session') = Len(session),
           \A k \in 1..Len(session) : /\ session'[k].cells = session[k].cells
                                      /\ session'[k].live = "yes" => session[k].live = "yes",
           remote' = remote, runs' \in 0..MaxRuns, crashes' \in 0..MaxCrashes
    PROVE  Inv'
<1> USE DEF Inv, TypeOK
<1>1. TypeOK'
  BY NoRunFacts, NoRowFacts
<1>2. RunFits' /\ RunCarries'
  BY NoRunFacts, UploadAssumption DEF RunFits, RunCarries
<1>3. RowBehindServer'
  BY NoRowFacts DEF RowBehindServer, Live
<1>. QED
  BY <1>1, <1>2, <1>3

\* A failed attempt keeps the invariant, if the server keeps what it has confirmed.
LEMMA FailedKeeps ==
    ASSUME Inv, NEW class \in ErrorClasses, run.pc \in {"create", "write", "info", "save"},
           Failed(class), row' = row, runs' = runs, crashes' = crashes,
           session' \in Seq(Sessions), Len(session') >= Len(session),
           \A k \in 1..Len(session) : /\ Len(session'[k].cells) >= Len(session[k].cells)
                                      /\ session'[k].live = "yes" => session[k].live = "yes",
           remote' \in [Targets -> Seq(Nat)]
    PROVE  Inv'
<1> USE DEF Inv, TypeOK
<1>1. /\ Len(session) \in Nat /\ Len(session') \in Nat /\ 1..Len(session) \subseteq 1..Len(session')
      /\ \A k \in 1..Len(session) : /\ Len(session[k].cells) \in Nat
                                    /\ Len(session'[k].cells) \in Nat
  BY SessionTypes
<1>2. RowBehindServer'
  <2>1. row.offset \in Nat
    BY DEF Rows
  <2>. QED
    BY <1>1, <2>1 DEF RowBehindServer, Live
<1>3. CASE run' = NoRun
  <2>1. TypeOK'
    BY <1>1, <1>3, NoRunFacts, FailedFacts
  <2>2. RunFits' /\ RunCarries'
    BY <1>3, NoRunFacts, UploadAssumption DEF RunFits, RunCarries
  <2>. QED
    BY <1>2, <2>1, <2>2
<1>4. CASE run' # NoRun
  <2>1. /\ run'.pc \in {RetryPc, "cleanup"}
        /\ run' \in Runs /\ state' \in States
        /\ run'.payload = run.payload /\ run'.target = run.target /\ run'.id = run.id
        /\ run'.offset = run.offset /\ run'.created = run.created
        /\ run'.refreshed = "no" => run'.attempts < MaxAttempts
    BY <1>4, FailedFacts
  <2>2. \/ run'.pc = "cleanup"
        \/ run.pc = "create" /\ run'.pc = "create"
        \/ run.pc = "write" /\ run'.pc = "write"
        \/ run.pc \in {"info", "save"} /\ run'.pc = "info"
    BY <2>1 DEF RetryPc
  <2>3. TypeOK'
    BY <1>1, <2>1, <2>2 DEF Total
  <2>4. RunFits'
    <3>1. run.offset \in Nat
      BY RunTypes
    <3>. QED
      BY SMTT(40), <1>1, <2>1, <2>2, <3>1 DEF RunFits, Total, Live
  <2>5. RunCarries'
    BY <2>2 DEF RunCarries
  <2>. QED
    BY <1>2, <2>3, <2>4, <2>5
<1>. QED
  BY <1>3, <1>4

\* The next step of a run, its counters at zero.
LEMMA NextStepFacts ==
    ASSUME Inv, NEW pc \in {"put", "write", "update", "info", "delete"}, NEW id \in Nat,
           NEW offset \in Nat, NEW created \in {"yes", "no"}, NextStep(pc, id, offset, created)
    PROVE  /\ run' \in Runs /\ run'.pc = pc /\ run'.payload = run.payload
           /\ run'.target = run.target /\ run'.id = id /\ run'.offset = offset
           /\ run'.created = created /\ run'.refreshed = "no" /\ run'.attempts = 0
           /\ 0 < MaxAttempts
<1>1. 0 \in 0..MaxAttempts /\ 0 < MaxAttempts
  BY UploadAssumption
<1>. QED
  BY <1>1, RunTypes DEF Inv, TypeOK, NextStep, Runs

\* Where the while loop goes on.
LEMMA LoopFacts ==
    ASSUME NEW offset \in Nat, NEW total \in Nat
    PROVE  /\ LoopPc(offset, total) \in {"write", "info"}
           /\ LoopPc(offset, total) = "write" => offset < total
           /\ LoopState(offset, total) \in States /\ LoopState(offset, total).tag # "Done"
BY IsState DEF LoopPc, LoopState

LEMMA StartStep ==
    ASSUME Inv, NEW payload \in Payloads, NEW target \in Targets, Start(payload, target)
    PROVE  Inv' /\ state'.tag # "Done"
<1> USE DEF Inv, TypeOK
<1>0. /\ payload \in Seq(Nat) /\ Len(payload) \in Nat
      /\ 0 \in 0..MaxAttempts /\ 0 < MaxAttempts /\ runs' \in 0..MaxRuns
  <2>1. payload \in Seq(Nat \ {0})
    BY UploadAssumption
  <2>2. payload \in Seq(Nat) /\ Len(payload) \in Nat
    BY <2>1
  <2>3. MaxRuns \in Nat
    BY UploadAssumption
  <2>. QED
    BY <2>2, <2>3, UploadAssumption DEF Start
<1>1. CASE Resumes(payload, target)
  <2>1. /\ row # NoRow /\ row.total = Len(payload) /\ row.target = target
        /\ row.id \in 1..Len(session) /\ row.id \in Nat /\ row.offset \in Nat
    BY <1>1 DEF Resumes, Rows
  <2>2. run' = [pc |-> LoopPc(row.offset, Len(payload)), payload |-> payload,
                target |-> target, id |-> row.id, offset |-> row.offset,
                attempts |-> 0, refreshed |-> "no", created |-> "no"]
        /\ state' = LoopState(row.offset, Len(payload))
        /\ UNCHANGED <<row, server, crashes>>
    BY <1>1 DEF Start
  <2>3. LoopPc(row.offset, Len(payload)) \in {"write", "info"}
        /\ (LoopPc(row.offset, Len(payload)) = "write" => row.offset < Len(payload))
        /\ state' \in States /\ state'.tag # "Done"
    BY <1>0, <2>1, <2>2, LoopFacts
  <2>4. /\ run' \in Runs /\ run'.pc = LoopPc(row.offset, Len(payload)) /\ run'.payload = payload
        /\ run'.target = target /\ run'.id = row.id /\ run'.offset = row.offset
        /\ run'.created = "no" /\ run'.attempts = 0 /\ run'.refreshed = "no"
    BY <1>0, <2>1, <2>2, <2>3 DEF Runs
  <2>5. TypeOK'
    BY <1>0, <2>1, <2>2, <2>3, <2>4 DEF Total, server
  <2>6. RunFits' /\ RowBehindServer'
    BY <1>0, <2>1, <2>2, <2>3, <2>4 DEF RunFits, RowBehindServer, Total, Live, server
  <2>7. RunCarries'
    BY <2>3, <2>4 DEF RunCarries
  <2>. QED
    BY <2>3, <2>5, <2>6, <2>7
<1>2. CASE ~Resumes(payload, target)
  <2>1. /\ run' = [pc |-> "create", payload |-> payload, target |-> target, id |-> 0,
                   offset |-> 0, attempts |-> 0, refreshed |-> "no", created |-> "no"]
        /\ row' = NoRow /\ state' = Is("Creating", 0) /\ UNCHANGED <<server, crashes>>
    BY <1>2 DEF Start
  <2>2. state' \in States /\ state'.tag # "Done"
    BY <2>1, IsState
  <2>3. run' \in Runs
    BY <1>0, <2>1 DEF Runs
  <2>4. TypeOK'
    BY <1>0, <2>1, <2>2, <2>3, NoRowFacts DEF Total, server
  <2>5. RunFits' /\ RowBehindServer' /\ RunCarries'
    BY <1>0, <2>1 DEF RunFits, RowBehindServer, RunCarries
  <2>. QED
    BY <2>2, <2>4, <2>5
<1>. QED
  BY <1>1, <1>2

LEMMA CreateStep ==
    ASSUME Inv, CreateOk \/ CreateUnanswered
    PROVE  Inv'
<1> USE DEF Inv, TypeOK
<1>1. /\ session' = Opened /\ row' = row /\ remote' = remote /\ runs' = runs /\ crashes' = crashes
      /\ run.pc = "create"
  BY DEF CreateOk, CreateUnanswered, bounds
<1>2. [cells |-> <<>>, live |-> "yes"] \in Sessions
  BY DEF Sessions
<1>3. /\ session' \in Seq(Sessions) /\ Len(session) \in Nat /\ Len(session') = Len(session) + 1
      /\ \A k \in 1..Len(session) : session'[k] = session[k]
      /\ session'[Len(session) + 1] = [cells |-> <<>>, live |-> "yes"]
  BY <1>1, <1>2 DEF Opened
<1>4. CASE CreateUnanswered
  <2>1. \A k \in 1..Len(session) : Len(session[k].cells) \in Nat
    BY SessionTypes
  <2>. QED
    BY <1>1, <1>3, <1>4, <2>1, FailedKeeps DEF CreateUnanswered, ErrorClasses
<1>5. CASE CreateOk
  <2>1. /\ run' \in Runs /\ run'.pc = "put" /\ run'.payload = run.payload
        /\ run'.target = run.target /\ run'.id = Len(session) + 1 /\ run'.offset = 0
        /\ run'.created = "yes" /\ run'.refreshed = "no" /\ run'.attempts = 0 /\ 0 < MaxAttempts
    BY <1>3, <1>5, NextStepFacts DEF CreateOk
  <2>2. row = NoRow
    BY <1>1 DEF RunFits
  <2>3. TypeOK'
    BY <1>1, <1>3, <1>5, <2>1, <2>2 DEF CreateOk
  <2>4. RunFits' /\ RunCarries' /\ RowBehindServer'
    BY <1>1, <1>3, <2>1, <2>2 DEF RunFits, RunCarries, RowBehindServer
  <2>. QED
    BY <2>3, <2>4
<1>. QED
  BY <1>4, <1>5

LEMMA PutStep ==
    ASSUME Inv, put
    PROVE  Inv' /\ state'.tag # "Done"
<1> USE DEF Inv, TypeOK
<1>1. /\ run.pc = "put" /\ session' = session /\ remote' = remote /\ runs' = runs
      /\ crashes' = crashes /\ run.id \in 1..Len(session) /\ run.target \in Targets
      /\ row' = [id |-> run.id, offset |-> 0, total |-> Total, target |-> run.target]
  BY DEF put, server, bounds
<1>2. Total \in Nat /\ run.id \in Nat /\ run.created \in {"yes", "no"}
  BY RunTypes DEF Total
<1>3. LoopPc(0, Total) \in {"write", "info"} /\ (LoopPc(0, Total) = "write" => 0 < Total)
      /\ state' \in States /\ state'.tag # "Done"
  BY <1>2, LoopFacts DEF put
<1>4. /\ run' \in Runs /\ run'.pc = LoopPc(0, Total) /\ run'.payload = run.payload
      /\ run'.target = run.target /\ run'.id = run.id /\ run'.offset = 0
      /\ run'.created = run.created /\ run'.refreshed = "no" /\ run'.attempts = 0
      /\ 0 < MaxAttempts
  BY <1>2, <1>3, NextStepFacts DEF put
<1>5. row' \in Rows /\ row'.id = run.id /\ row'.offset = 0 /\ row'.total = Total
  BY <1>1, <1>2 DEF Rows
<1>6. Len(session[run.id].cells) \in Nat
  BY <1>1, SessionTypes
<1>7. TypeOK'
  BY <1>1, <1>2, <1>3, <1>4, <1>5 DEF Total
<1>8. RunFits' /\ RowBehindServer'
  BY <1>1, <1>2, <1>3, <1>4, <1>5, <1>6 DEF RunFits, RowBehindServer, Total, Live
<1>9. RunCarries'
  BY <1>3, <1>4 DEF RunCarries
<1>. QED
  BY <1>3, <1>7, <1>8, <1>9

LEMMA WriteStep ==
    ASSUME Inv, WriteOk \/ WriteUnanswered
    PROVE  Inv'
<1> USE DEF Inv, TypeOK
<1>1. /\ session' = Written /\ row' = row /\ remote' = remote /\ runs' = runs /\ crashes' = crashes
      /\ run.pc = "write" /\ run.id \in 1..Len(session) /\ Live(run.id)
      /\ run.offset < Total
  BY DEF WriteOk, WriteUnanswered, bounds
<1>2. /\ run.offset \in Nat /\ run.id \in Nat /\ Total \in Nat /\ run.created \in {"yes", "no"}
      /\ run.payload[run.offset + 1] \in Nat
  BY <1>1, RunTypes DEF Total
<1> DEFINE new == Put(session[run.id].cells, run.offset, run.payload[run.offset + 1])
           rec == [cells |-> new, live |-> "yes"]
<1>3. /\ \A k \in 1..Len(session) : Len(session[k].cells) \in Nat
      /\ session[run.id].cells \in Seq(Nat) /\ Len(session) \in Nat
  BY <1>1, SessionTypes
<1>4. new \in Seq(Nat) /\ Len(new) \in Nat /\ Len(new) >= Len(session[run.id].cells)
      /\ Len(new) >= run.offset + 1
  BY <1>2, <1>3, PutFacts
<1>5. rec \in Sessions /\ rec.cells = new /\ rec.live = "yes"
  BY <1>4 DEF Sessions
<1>6. session' = [session EXCEPT ![run.id] = rec]
  BY <1>1 DEF Written
<1> HIDE DEF new, rec
<1>7. /\ session' \in Seq(Sessions) /\ Len(session') = Len(session) /\ session'[run.id] = rec
      /\ \A k \in 1..Len(session) : k # run.id => session'[k] = session[k]
  BY <1>1, <1>5, <1>6, SessionUpdate
<1>8. \A k \in 1..Len(session) : /\ Len(session'[k].cells) >= Len(session[k].cells)
                                 /\ session'[k].live = "yes" => session[k].live = "yes"
  <2> SUFFICES ASSUME NEW k \in 1..Len(session)
               PROVE  /\ Len(session'[k].cells) >= Len(session[k].cells)
                      /\ session'[k].live = "yes" => session[k].live = "yes"
    OBVIOUS
  <2>1. CASE k = run.id
    BY <1>1, <1>4, <1>5, <1>7, <2>1 DEF Live
  <2>2. CASE k # run.id
    <3>1. session'[k] = session[k] /\ Len(session[k].cells) \in Nat
      BY <1>3, <1>7, <2>2
    <3>. QED
      BY <3>1
  <2>. QED
    BY <2>1, <2>2
<1>9. CASE WriteUnanswered
  BY <1>1, <1>3, <1>7, <1>8, <1>9, FailedKeeps DEF WriteUnanswered, ErrorClasses
<1>10. CASE WriteOk
  <2>1. /\ run' \in Runs /\ run'.pc = "update" /\ run'.payload = run.payload
        /\ run'.target = run.target /\ run'.id = run.id /\ run'.offset = run.offset + 1
        /\ run'.created = run.created /\ run'.refreshed = "no" /\ run'.attempts = 0
        /\ 0 < MaxAttempts
    BY <1>2, <1>10, NextStepFacts DEF WriteOk
  <2>2. TypeOK'
    BY <1>1, <1>7, <1>10, <2>1 DEF WriteOk
  <2>3. RunFits'
    BY <1>1, <1>2, <1>4, <1>5, <1>7, <2>1 DEF RunFits, Total, Live
  <2>4. RowBehindServer'
    <3>1. row.offset \in Nat /\ (row # NoRow => row.id \in 1..Len(session))
      BY DEF Rows
    <3>2. row # NoRow /\ session'[row.id].live = "yes" => row.offset <= Len(session[row.id].cells)
      BY <1>8, <3>1 DEF RowBehindServer, Live
    <3>3. \A k \in 1..Len(session) : Len(session'[k].cells) \in Nat
      BY <1>7, SessionTypes
    <3>. QED
      BY <1>1, <1>3, <1>8, <3>1, <3>2, <3>3 DEF RowBehindServer, Live
  <2>5. RunCarries'
    BY <2>1 DEF RunCarries
  <2>. QED
    BY <2>2, <2>3, <2>4, <2>5
<1>. QED
  BY <1>9, <1>10

LEMMA UpdateStep ==
    ASSUME Inv, update_offset
    PROVE  Inv' /\ state'.tag # "Done"
<1> USE DEF Inv, TypeOK
<1>1. /\ run.pc = "update" /\ session' = session /\ remote' = remote /\ runs' = runs
      /\ crashes' = crashes /\ run.id \in 1..Len(session)
      /\ row = NoRow => row' = NoRow
      /\ row # NoRow => row' = [id |-> row.id, offset |-> run.offset, total |-> row.total,
                                target |-> row.target]
  BY DEF update_offset, server, bounds
<1>2. /\ Total \in Nat /\ run.id \in Nat /\ run.offset \in Nat /\ run.created \in {"yes", "no"}
      /\ run.offset <= Total
      /\ row # NoRow => row.id = run.id /\ row.total = Total
      /\ Live(run.id) => run.offset <= Len(session[run.id].cells)
  BY <1>1, RunTypes DEF Total, RunFits
<1>3. LoopPc(run.offset, Total) \in {"write", "info"}
      /\ (LoopPc(run.offset, Total) = "write" => run.offset < Total)
      /\ state' \in States /\ state'.tag # "Done"
  BY <1>2, LoopFacts DEF update_offset
<1>4. /\ run' \in Runs /\ run'.pc = LoopPc(run.offset, Total) /\ run'.payload = run.payload
      /\ run'.target = run.target /\ run'.id = run.id /\ run'.offset = run.offset
      /\ run'.created = run.created /\ run'.refreshed = "no" /\ run'.attempts = 0
      /\ 0 < MaxAttempts
  BY <1>2, <1>3, NextStepFacts DEF update_offset
<1>5. /\ row' \in Rows
      /\ row # NoRow => row'.id = run.id /\ row'.offset = run.offset /\ row'.total = Total
  BY <1>1, <1>2, NoRowFacts DEF Rows
<1>6. TypeOK'
  BY <1>1, <1>2, <1>3, <1>4, <1>5 DEF Total
<1>7. RunFits' /\ RowBehindServer'
  BY <1>1, <1>2, <1>3, <1>4, <1>5 DEF RunFits, RowBehindServer, Total, Live
<1>8. RunCarries'
  BY <1>3, <1>4 DEF RunCarries
<1>. QED
  BY <1>3, <1>6, <1>7, <1>8

LEMMA InfoStep ==
    ASSUME Inv, InfoOk
    PROVE  Inv' /\ (state'.tag = "Done" => state.tag = "Done")
<1> USE DEF Inv, TypeOK
<1>1. /\ run.pc = "info" /\ session' = session /\ remote' = remote /\ row' = row /\ runs' = runs
      /\ crashes' = crashes
  BY DEF InfoOk, server, bounds
<1>2. CASE Verified /\ run'.pc = "save"
  <2>1. /\ run' = [pc |-> "save", payload |-> run.payload, target |-> run.target,
                   id |-> run.id, offset |-> run.offset, attempts |-> run.attempts,
                   refreshed |-> run.refreshed, created |-> run.created]
        /\ state' = state
    BY <1>2 DEF InfoOk
  <2>2. run' \in Runs
    BY <2>1, RunTypes DEF Runs
  <2>3. TypeOK'
    BY <1>1, <2>1, <2>2
  <2>4. RunFits' /\ RowBehindServer'
    BY <1>1, <2>1 DEF RunFits, RowBehindServer, Total, Live
  <2>5. RunCarries'
    BY <1>1, <1>2, <2>1 DEF RunCarries, Verified
  <2>. QED
    BY <2>1, <2>3, <2>4, <2>5
<1>3. CASE Permanent
  <2>1. Failed("PermFail")
    BY <1>3 DEF Failed
  <2>2. \A k \in 1..Len(session) : Len(session[k].cells) \in Nat
    BY SessionTypes
  <2>3. Len(session) \in Nat
    BY SessionTypes
  <2>. QED
    BY <1>1, <2>1, <2>2, <2>3, FailedKeeps, FailedFacts DEF ErrorClasses
<1>. QED
  BY <1>2, <1>3 DEF InfoOk

LEMMA SaveStep ==
    ASSUME Inv, SaveOk \/ SaveUnanswered
    PROVE  /\ Inv'
           /\ \A t \in Targets : remote'[t] # remote[t]
                  => t = run.target /\ remote'[t] = run.payload
<1> USE DEF Inv, TypeOK
<1>1. /\ run.pc = "save" /\ row' = row /\ runs' = runs /\ crashes' = crashes
      /\ run.id \in 1..Len(session) /\ run.target \in Targets /\ Live(run.id)
      /\ session[run.id].cells = run.payload
      /\ session' = [session EXCEPT ![run.id] = [cells |-> session[run.id].cells, live |-> "no"]]
      /\ remote' = [remote EXCEPT ![run.target] = session[run.id].cells]
  BY DEF SaveOk, SaveUnanswered, Committed, bounds, RunCarries, Verified
<1>2. /\ \A k \in 1..Len(session) : Len(session[k].cells) \in Nat
      /\ session[run.id].cells \in Seq(Nat) /\ Len(session) \in Nat
  BY <1>1, SessionTypes
<1> DEFINE rec == [cells |-> session[run.id].cells, live |-> "no"]
<1>3. rec \in Sessions /\ rec.cells = session[run.id].cells /\ rec.live = "no"
  BY <1>2 DEF Sessions
<1>4. session' = [session EXCEPT ![run.id] = rec]
  BY <1>1
<1> HIDE DEF rec
<1>5. /\ session' \in Seq(Sessions) /\ Len(session') = Len(session) /\ session'[run.id] = rec
      /\ \A k \in 1..Len(session) : k # run.id => session'[k] = session[k]
  BY <1>1, <1>3, <1>4, SessionUpdate
<1>6. \A k \in 1..Len(session) : /\ session'[k].cells = session[k].cells
                                 /\ session'[k].live = "yes" => session[k].live = "yes"
  BY <1>1, <1>3, <1>5 DEF Live
<1>7. /\ remote' \in [Targets -> Seq(Nat)] /\ remote'[run.target] = run.payload
      /\ \A t \in Targets : remote'[t] # remote[t] => t = run.target /\ remote'[t] = run.payload
  BY <1>1, <1>2
<1>8. CASE SaveUnanswered
  <2>1. Inv'
    BY <1>1, <1>2, <1>5, <1>6, <1>7, <1>8, FailedKeeps DEF SaveUnanswered, ErrorClasses
  <2>. QED
    BY <1>7, <2>1
<1>9. CASE SaveOk
  <2>1. run.id \in Nat /\ run.offset \in Nat /\ run.created \in {"yes", "no"}
    BY RunTypes
  <2>2. /\ run' \in Runs /\ run'.pc = "delete" /\ run'.payload = run.payload
        /\ run'.target = run.target /\ run'.id = run.id /\ run'.offset = run.offset
        /\ run'.created = run.created /\ run'.refreshed = "no" /\ run'.attempts = 0
        /\ 0 < MaxAttempts
    BY <1>9, <2>1, NextStepFacts DEF SaveOk
  <2>3. TypeOK'
    BY <1>1, <1>5, <1>7, <1>9, <2>2 DEF SaveOk
  <2>4. RunFits' /\ RowBehindServer'
    BY <1>1, <1>5, <1>6, <2>2 DEF RunFits, RowBehindServer, Total, Live
  <2>5. RunCarries'
    BY <1>7, <2>2 DEF RunCarries
  <2>. QED
    BY <1>7, <2>3, <2>4, <2>5
<1>. QED
  BY <1>8, <1>9

\* Every step keeps the invariant.
LEMMA Step ==
    ASSUME Inv, [Next]_vars
    PROVE  Inv'
<1> USE DEF Inv, TypeOK
<1>0. /\ Len(session) \in Nat
      /\ \A k \in 1..Len(session) : Len(session[k].cells) \in Nat
  BY SessionTypes
<1>1. CASE StepFails
  <2>1. PICK class \in ErrorClasses : Failed(class)
    BY <1>1 DEF StepFails
  <2>. QED
    BY <1>0, <1>1, <2>1, FailedKeeps DEF StepFails, server, bounds
<1>2. CASE StoreFails
  BY <1>2, RunEnds DEF StoreFails, Return, server, bounds
<1>3. CASE Finish
  BY <1>3, RunEnds, IsState DEF Finish, Return, server, bounds
<1>4. CASE Cleanup
  <2>1. CASE session' = session
    BY <1>4, <2>1, RunEnds DEF Cleanup, Return, bounds
  <2>2. CASE session' # session
    <3>1. /\ run.id \in 1..Len(session)
          /\ session' = [session EXCEPT ![run.id] = [cells |-> session[run.id].cells, live |-> "no"]]
      BY <1>4, <2>2 DEF Cleanup, RunFits
    <3> DEFINE rec == [cells |-> session[run.id].cells, live |-> "no"]
    <3>2. rec \in Sessions /\ rec.cells = session[run.id].cells /\ rec.live = "no"
      BY <3>1, SessionTypes DEF Sessions
    <3>3. session' = [session EXCEPT ![run.id] = rec]
      BY <3>1
    <3> HIDE DEF rec
    <3>4. /\ session' \in Seq(Sessions) /\ Len(session') = Len(session) /\ session'[run.id] = rec
          /\ \A k \in 1..Len(session) : k # run.id => session'[k] = session[k]
      BY <3>1, <3>2, <3>3, SessionUpdate
    <3>. QED
      BY <1>4, <3>1, <3>2, <3>4, RunEnds DEF Cleanup, Return, bounds
  <2>. QED
    BY <2>1, <2>2
<1>5. CASE Crash
  <2>1. crashes' \in 0..MaxCrashes
    BY <1>5, UploadAssumption DEF Crash
  <2>. QED
    BY <1>5, <2>1, RunEnds, IsState DEF Crash, Return, server
<1>6. ASSUME NEW id \in 1..Len(session), Expire(id) PROVE Inv'
  <2> DEFINE rec == [cells |-> session[id].cells, live |-> "no"]
  <2>1. session' = [session EXCEPT ![id] = rec]
        /\ row' = row /\ remote' = remote /\ run' = run /\ state' = state /\ runs' = runs
        /\ crashes' = crashes
    BY <1>6 DEF Expire, bounds
  <2>2. rec \in Sessions /\ rec.cells = session[id].cells /\ rec.live = "no"
    BY SessionTypes DEF Sessions
  <2> HIDE DEF rec
  <2>3. /\ session' \in Seq(Sessions) /\ Len(session') = Len(session) /\ session'[id] = rec
        /\ \A k \in 1..Len(session) : k # id => session'[k] = session[k]
    BY <2>1, <2>2, SessionUpdate
  <2>4. \A k \in 1..Len(session) : /\ session'[k].cells = session[k].cells
                                   /\ session'[k].live = "yes" => session[k].live = "yes"
    BY <2>2, <2>3
  <2>5. TypeOK'
    BY <2>1, <2>3 DEF Total
  <2>6. RunFits' /\ RunCarries' /\ RowBehindServer'
    BY <2>1, <2>3, <2>4 DEF RunFits, RunCarries, RowBehindServer, Total, Live, Verified
  <2>. QED
    BY <2>5, <2>6
<1>7. CASE pause
  <2>1. state' \in States
    <3>1. state.offset \in Nat
      BY DEF States
    <3>. QED
      BY <1>7, <3>1, IsState DEF pause
  <2>. QED
    BY <1>7, <2>1 DEF pause, server, bounds, RunFits, RunCarries, RowBehindServer, Total, Live,
                      Verified
<1>8. CASE purge
  <2>1. run.pc = "idle" /\ run' = run /\ row' = NoRow /\ session' = session /\ remote' = remote
        /\ state' = state /\ runs' = runs /\ crashes' = crashes
    BY <1>8 DEF purge, server, bounds
  <2>. QED
    BY <2>1, NoRowFacts DEF RunFits, RunCarries, RowBehindServer, Total
<1>9. CASE UNCHANGED vars
  BY <1>9 DEF vars, server, bounds, RunFits, RunCarries, RowBehindServer, Total, Live, Verified
<1>. QED
  BY <1>1, <1>2, <1>3, <1>4, <1>5, <1>6, <1>7, <1>8, <1>9, StartStep, CreateStep, PutStep,
     WriteStep, UpdateStep, InfoStep, SaveStep
     DEF Next, RunStep

\* The invariants of the upload, with what they need to be inductive.
THEOREM UploadInvariant == Spec => []Inv
<1>1. Init => Inv
  <2> SUFFICES ASSUME Init PROVE Inv
    OBVIOUS
  <2>1. remote \in [Targets -> Seq(Nat)]
    BY DEF Init, NoFile
  <2>2. session \in Seq(Sessions)
    BY DEF Init
  <2>3. runs \in 0..MaxRuns /\ crashes \in 0..MaxCrashes /\ 0 < MaxAttempts
    BY UploadAssumption DEF Init
  <2>4. state \in States
    BY IsState DEF Init
  <2>. QED
    BY <2>1, <2>2, <2>3, <2>4, NoRunFacts, NoRowFacts
       DEF Init, Inv, TypeOK, RunFits, RunCarries, RowBehindServer
<1>. QED
  BY <1>1, Step, PTL DEF Spec

\* The upload keeps its types, and every slice it sends lies within its payload.
THEOREM UploadTypeOK == Spec => []TypeOK
BY UploadInvariant, PTL DEF Inv

\* The offset of the resume row never runs ahead of the server.
THEOREM RowConfirmed == Spec => []RowBehindServer
BY UploadInvariant, PTL DEF Inv

\* A file of the server changes only into the whole payload of the run that saves it,
\* however often earlier runs were interrupted and with whatever content.
THEOREM OnlyWholePayloads == Spec => SavedIsPayload
<1>1. Inv /\ [Next]_vars => [\A t \in Targets : remote'[t] # remote[t]
                                 => t = run.target /\ remote'[t] = run.payload]_vars
  <2> SUFFICES ASSUME Inv, Next
               PROVE  \A t \in Targets : remote'[t] # remote[t]
                          => t = run.target /\ remote'[t] = run.payload
    OBVIOUS
  <2>1. CASE SaveOk \/ SaveUnanswered
    BY <2>1, SaveStep
  <2>2. CASE ~(SaveOk \/ SaveUnanswered)
    <3>1. remote' = remote
      BY <2>2 DEF Next, RunStep, Start, Expire, StepFails, StoreFails, CreateOk, CreateUnanswered,
                  put, WriteOk, WriteUnanswered, update_offset, InfoOk, Finish, Cleanup, pause,
                  purge, Crash, server
    <3>. QED
      BY <3>1
  <2>. QED
    BY <2>1, <2>2
<1>. QED
  BY <1>1, UploadInvariant, PTL DEF Spec, SavedIsPayload

\* A run that ends in Done has left its payload on the server.
THEOREM DoneMeansSaved == Spec => DoneIsSaved
<1>1. Inv /\ [Next]_vars => [state'.tag = "Done" /\ state.tag # "Done"
                                 => remote[run.target] = run.payload]_vars
  <2> SUFFICES ASSUME Inv, Next, state'.tag = "Done", state.tag # "Done"
               PROVE  remote[run.target] = run.payload
    OBVIOUS
  <2>1. CASE Finish
    BY <2>1 DEF Finish, Inv, RunCarries
  <2>2. CASE StepFails \/ CreateUnanswered \/ WriteUnanswered \/ SaveUnanswered
    <3>1. PICK class \in ErrorClasses : Failed(class)
      BY <2>2 DEF StepFails, CreateUnanswered, WriteUnanswered, SaveUnanswered, ErrorClasses
    <3>2. run.pc \in {"create", "write", "info", "save"}
      BY <2>2 DEF StepFails, CreateUnanswered, WriteUnanswered, SaveUnanswered
    <3>. QED
      BY <3>1, <3>2, FailedFacts
  <2>3. CASE pause \/ Crash
    <3>1. state.offset \in Nat
      BY DEF Inv, TypeOK, States
    <3>. QED
      BY <2>3, <3>1, IsState DEF pause, Crash
  <2>4. CASE state' = state
    BY <2>4
  <2>5. CASE put \/ update_offset \/ InfoOk
    BY <2>5, PutStep, UpdateStep, InfoStep
  <2>6. ASSUME NEW payload \in Payloads, NEW target \in Targets, Start(payload, target)
        PROVE  FALSE
    BY <2>6, StartStep
  <2>. QED
    BY <2>1, <2>2, <2>3, <2>4, <2>5, <2>6
       DEF Next, RunStep, Expire, StoreFails, CreateOk, WriteOk, SaveOk, Cleanup, purge
<1>. QED
  BY <1>1, UploadInvariant, PTL DEF Spec, DoneIsSaved
================================================================================
