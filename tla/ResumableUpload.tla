---------------------------- MODULE ResumableUpload ----------------------------
(***************************************************************************)
(* The chunked upload that survives a restart: UploadStateMachine::run     *)
(* with the row it keeps in upload_resume_state, the driver that turns its *)
(* steps into upload_create, upload_write, upload_info and upload_save,    *)
(* the clean-up after a permanent failure, and the upload sessions of the  *)
(* server.  One local path, one run at a time.                             *)
(*                                                                         *)
(* A payload is the sequence of its chunks, so two payloads have the same  *)
(* checksum exactly when they are equal.  A target stands for the parent   *)
(* folder, the name and the conflict mode of a request.                    *)
(***************************************************************************)
EXTENDS Integers, Sequences

CONSTANTS
    Payloads,       \* contents the local file takes, as sequences of chunks
    Targets,        \* what a request asks for beside its content
    MaxAttempts,    \* max_attempts of the retry policy
    MaxRuns,        \* bound: calls of run
    MaxSessions,    \* bound: upload ids the server hands out
    MaxCrashes      \* bound: deaths of the process

ASSUME UploadAssumption ==
    /\ MaxAttempts \in Nat \ {0}
    /\ {MaxRuns, MaxSessions, MaxCrashes} \subseteq Nat
    /\ \A p \in Payloads : p \in Seq(Nat \ {0})

VARIABLES
    row,        \* the row of the local path in upload_resume_state
    session,    \* upload sessions of the server, by upload id
    remote,     \* files of the server
    run,        \* the run in progress
    state,      \* UploadStateMachine.state
    runs, crashes

server == <<session, remote>>
bounds == <<runs, crashes>>
vars == <<row, server, run, state, bounds>>

NoRow == [id |-> 0, offset |-> 0, total |-> 0, target |-> "-"]
NoFile == <<0>>
Hole == 0
NoRun == [pc |-> "idle", payload |-> <<>>, target |-> "-", id |-> 0,
          offset |-> 0, attempts |-> 0, refreshed |-> "no", created |-> "no"]
Is(tag, offset) == [tag |-> tag, offset |-> offset]

Init ==
    /\ row = NoRow
    /\ session = <<>>
    /\ remote = [t \in Targets |-> NoFile]
    /\ run = NoRun
    /\ state = Is("Idle", 0)
    /\ runs = 0 /\ crashes = 0

Total == Len(run.payload)
Live(id) == session[id].live = "yes"
-----------------------------------------------------------------------------
(* Replies of the server.                                                  *)

\* Socket errors and unknown codes are TempFail.
ErrorClasses == {"Auth", "PermFail", "TempFail"}

\* upload_write puts one chunk at an offset.
Put(cells, offset, chunk) ==
    [k \in 1..(IF Len(cells) > offset THEN Len(cells) ELSE offset + 1) |->
        IF k = offset + 1 THEN chunk ELSE IF k <= Len(cells) THEN cells[k] ELSE Hole]

\* A session the client does not finish is dropped at some point.
Expire(id) ==
    /\ Live(id)
    /\ session' = [session EXCEPT ![id] = [cells |-> @.cells, live |-> "no"]]
    /\ UNCHANGED <<row, remote, run, state, bounds>>
-----------------------------------------------------------------------------
(* run and run_step.                                                       *)

\* A run ends; what it returned is in state.
Return == run' = NoRun

\* The next call of run_step, its counters at zero.
NextStep(pc, id, offset, created) ==
    run' = [pc |-> pc, payload |-> run.payload, target |-> run.target, id |-> id,
            offset |-> offset, attempts |-> 0, refreshed |-> "no", created |-> created]

\* The while loop: another chunk, or upload_save.
LoopState(offset, total) ==
    IF offset < total THEN Is("Writing", offset) ELSE Is("Saving", 0)
LoopPc(offset, total) == IF offset < total THEN "write" ELSE "info"

\* total_size, parent, name and conflict mode are compared, not the content.
Resumes(payload, target) ==
    row # NoRow /\ row.total = Len(payload) /\ row.target = target

Start(payload, target) ==
    /\ run.pc = "idle" /\ runs < MaxRuns
    /\ runs' = runs + 1
    /\ IF Resumes(payload, target)
       THEN /\ run' = [pc |-> LoopPc(row.offset, Len(payload)), payload |-> payload,
                       target |-> target, id |-> row.id, offset |-> row.offset,
                       attempts |-> 0, refreshed |-> "no", created |-> "no"]
            /\ state' = LoopState(row.offset, Len(payload))
            /\ UNCHANGED row
       ELSE /\ row' = NoRow
            /\ run' = [pc |-> "create", payload |-> payload, target |-> target, id |-> 0,
                       offset |-> 0, attempts |-> 0, refreshed |-> "no", created |-> "no"]
            /\ state' = Is("Creating", 0)
    /\ UNCHANGED <<server, crashes>>

\* driver.save begins with upload_info, so a retry of upload_save does too.
RetryPc == IF run.pc = "save" THEN "info" ELSE run.pc

\* Mutant: attempts are not counted.
MutUncounted(refreshed) ==
    /\ run' = [pc |-> RetryPc, payload |-> run.payload, target |-> run.target,
               id |-> run.id, offset |-> run.offset, attempts |-> run.attempts,
               refreshed |-> refreshed, created |-> run.created]
    /\ UNCHANGED state

Retry(refreshed) ==
    /\ run' = [pc |-> RetryPc, payload |-> run.payload, target |-> run.target,
               id |-> run.id, offset |-> run.offset, attempts |-> run.attempts + 1,
               refreshed |-> refreshed, created |-> run.created]
    /\ UNCHANGED state

\* Mutant: an upload id the server does not know any more is taken for a saved one.
MutGoneMeansSaved ==
    /\ run' = [pc |-> IF run.pc \in {"info", "save"} THEN "delete" ELSE "cleanup",
               payload |-> run.payload, target |-> run.target,
               id |-> run.id, offset |-> run.offset, attempts |-> 0,
               refreshed |-> "no", created |-> run.created]
    /\ state' = Is("Failed", 0)

\* UploadStateError::Permanent; the caller goes on to upload_delete.
Permanent ==
    /\ run' = [pc |-> "cleanup", payload |-> run.payload, target |-> run.target,
               id |-> run.id, offset |-> run.offset, attempts |-> 0,
               refreshed |-> "no", created |-> run.created]
    /\ state' = Is("Failed", 0)

GiveUp ==
    /\ Return
    /\ state' = Is("Failed", 0)

\* One failed attempt of run_step.
Failed(class) ==
    \/ class = "PermFail" /\ Permanent
    \/ class = "Auth" /\ run.refreshed = "yes" /\ Permanent
    \/ class = "Auth" /\ run.refreshed = "no" /\ Retry("yes")
    \/ class = "Auth" /\ run.refreshed = "no" /\ GiveUp     \* refresh() failed
    \/ class = "TempFail" /\ run.attempts + 1 < MaxAttempts /\ Retry(run.refreshed)
    \/ class = "TempFail" /\ run.attempts + 1 >= MaxAttempts /\ GiveUp
-----------------------------------------------------------------------------
(* The steps of a run.                                                     *)

\* No request, or no reply that says more than an error, reaches the other side.
StepFails ==
    /\ run.pc \in {"create", "write", "info", "save"}
    /\ \E class \in ErrorClasses : Failed(class)
    /\ UNCHANGED <<row, server, bounds>>

Opened == Append(session, [cells |-> <<>>, live |-> "yes"])

CreateOk ==
    /\ run.pc = "create" /\ Len(session) < MaxSessions
    /\ session' = Opened
    /\ NextStep("put", Len(session) + 1, 0, "yes")
    /\ UNCHANGED <<row, remote, state, bounds>>

\* The server opens a session and its reply is lost.
CreateUnanswered ==
    /\ run.pc = "create" /\ Len(session) < MaxSessions
    /\ session' = Opened
    /\ Failed("TempFail")
    /\ UNCHANGED <<row, remote, bounds>>

put ==
    /\ run.pc = "put"
    /\ row' = [id |-> run.id, offset |-> 0, total |-> Total, target |-> run.target]
    /\ NextStep(LoopPc(0, Total), run.id, 0, run.created)
    /\ state' = LoopState(0, Total)
    /\ UNCHANGED <<server, bounds>>

\* A failed statement ends the run where it is: the row stays as it was.
StoreFails ==
    /\ run.pc \in {"put", "update", "delete"}
    /\ Return
    /\ UNCHANGED <<row, server, state, bounds>>

Written ==
    [session EXCEPT ![run.id] =
        [cells |-> Put(@.cells, run.offset, run.payload[run.offset + 1]), live |-> "yes"]]

\* Mutant: the offset moves by what remains instead of by the chunk.
MutWholeRest ==
    /\ run.pc = "write" /\ Live(run.id)
    /\ session' = Written
    /\ NextStep("update", run.id, Total, run.created)
    /\ UNCHANGED <<row, remote, state, bounds>>

WriteOk ==
    /\ run.pc = "write" /\ Live(run.id)
    /\ session' = Written
    /\ NextStep("update", run.id, run.offset + 1, run.created)
    /\ UNCHANGED <<row, remote, state, bounds>>

WriteUnanswered ==
    /\ run.pc = "write" /\ Live(run.id)
    /\ session' = Written
    /\ Failed("TempFail")
    /\ UNCHANGED <<row, remote, bounds>>

\* An UPDATE: without a row it changes nothing.
update_offset ==
    /\ run.pc = "update"
    /\ row' = IF row = NoRow THEN NoRow
              ELSE [id |-> row.id, offset |-> run.offset, total |-> row.total,
                    target |-> row.target]
    /\ NextStep(LoopPc(run.offset, Total), run.id, run.offset, run.created)
    /\ state' = LoopState(run.offset, Total)
    /\ UNCHANGED <<server, bounds>>

\* Mutant: only the size is compared.
MutSizeOnly == Len(session[run.id].cells) = Total

\* The size and the checksum the server reports, against the local ones.
Verified == session[run.id].cells = run.payload

InfoOk ==
    /\ run.pc = "info" /\ Live(run.id)
    /\ \/ /\ Verified
          /\ run' = [pc |-> "save", payload |-> run.payload, target |-> run.target,
                     id |-> run.id, offset |-> run.offset, attempts |-> run.attempts,
                     refreshed |-> run.refreshed, created |-> run.created]
          /\ UNCHANGED state
       \/ ~Verified /\ Permanent
    /\ UNCHANGED <<row, server, bounds>>

\* upload_save turns the session into the file.
Committed ==
    /\ session' = [session EXCEPT ![run.id] = [cells |-> @.cells, live |-> "no"]]
    /\ remote' = [remote EXCEPT ![run.target] = session[run.id].cells]

SaveOk ==
    /\ run.pc = "save" /\ Live(run.id)
    /\ Committed
    /\ NextStep("delete", run.id, run.offset, run.created)
    /\ UNCHANGED <<row, state, bounds>>

SaveUnanswered ==
    /\ run.pc = "save" /\ Live(run.id)
    /\ Committed
    /\ Failed("TempFail")
    /\ UNCHANGED <<row, bounds>>

Finish ==
    /\ run.pc = "delete"
    /\ row' = NoRow
    /\ Return
    /\ state' = Is("Done", 0)
    /\ UNCHANGED <<server, bounds>>

\* upload_delete, for a session this run has created; it may fail.
Cleanup ==
    /\ run.pc = "cleanup"
    /\ \/ UNCHANGED session
       \/ /\ run.created = "yes"
          /\ session' = [session EXCEPT ![run.id] = [cells |-> @.cells, live |-> "no"]]
    /\ Return
    /\ UNCHANGED <<row, remote, state, bounds>>

RunStep ==
    \/ StepFails \/ StoreFails
    \/ CreateOk \/ CreateUnanswered \/ put
    \/ WriteOk \/ WriteUnanswered \/ update_offset
    \/ InfoOk \/ SaveOk \/ SaveUnanswered \/ Finish \/ Cleanup
-----------------------------------------------------------------------------
(* Between runs.                                                           *)

pause ==
    /\ run.pc = "idle"
    /\ state' = Is("Paused", IF state.tag \in {"Writing", "Paused"} THEN state.offset ELSE 0)
    /\ UNCHANGED <<row, server, run, bounds>>

\* purge_stale_upload_resume_rows; the age of a row is any.
purge ==
    /\ run.pc = "idle" /\ row # NoRow
    /\ row' = NoRow
    /\ UNCHANGED <<server, run, state, bounds>>

\* The process dies; the next one has a new machine.
Crash ==
    /\ crashes < MaxCrashes
    /\ crashes' = crashes + 1
    /\ Return
    /\ state' = Is("Idle", 0)
    /\ UNCHANGED <<row, server, runs>>

Next ==
    \/ \E payload \in Payloads, target \in Targets : Start(payload, target)
    \/ RunStep
    \/ \E id \in 1..Len(session) : Expire(id)
    \/ pause \/ purge \/ Crash

Spec == Init /\ [][Next]_vars

\* A run executes on its caller's thread until it returns.
FairSpec == Spec /\ WF_vars(RunStep)
-----------------------------------------------------------------------------
(* Properties.                                                             *)

Rows == [id : Nat, offset : Nat, total : Nat, target : Targets \cup {"-"}]
Sessions == [cells : Seq(Nat), live : {"yes", "no"}]
Runs == [pc : {"idle", "create", "put", "write", "update", "info", "save", "delete", "cleanup"},
         payload : Seq(Nat), target : Targets \cup {"-"}, id : Nat, offset : Nat,
         attempts : 0..MaxAttempts, refreshed : {"yes", "no"}, created : {"yes", "no"}]
States == [tag : {"Idle", "Creating", "Writing", "Saving", "Done", "Paused", "Failed"},
           offset : Nat]

\* The types; a run past upload_create has an upload id of the server and an offset
\* within its payload, so the slice that driver.write takes exists.
TypeOK ==
    /\ row \in Rows
    /\ row # NoRow => row.id \in 1..Len(session) /\ row.offset <= row.total
    /\ session \in Seq(Sessions)
    /\ remote \in [Targets -> Seq(Nat)]
    /\ run \in Runs
    /\ run.pc # "idle" => run.payload \in Payloads /\ run.target \in Targets
    /\ run.pc \notin {"idle", "create", "cleanup"} => run.id \in 1..Len(session)
    /\ run.pc = "write" => run.offset < Total
    /\ state \in States
    /\ runs \in 0..MaxRuns /\ crashes \in 0..MaxCrashes

\* The offset in the resume row is confirmed: while its session lives, the server
\* holds every chunk below it, whichever reply, statement or process was lost since.
RowBehindServer ==
    row # NoRow /\ Live(row.id) => row.offset <= Len(session[row.id].cells)

\* A file of the server only ever becomes the whole payload of the run that saves
\* it, although a resumed run compares sizes and may add its chunks to those of an
\* earlier content: upload_info catches the mixture before upload_save.
SavedIsPayload ==
    [][\A t \in Targets : remote'[t] # remote[t]
           => t = run.target /\ remote'[t] = run.payload]_vars

\* A run says Done only when the server has the payload it was given.
DoneIsSaved ==
    [][state'.tag = "Done" /\ state.tag # "Done" => remote[run.target] = run.payload]_vars

\* Every run returns, whatever the server answers: each step is retried a bounded
\* number of times and refreshes the session once.
RunReturns == run.pc # "idle" ~> run.pc = "idle"
================================================================================
