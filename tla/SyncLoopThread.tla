---------------------------- MODULE SyncLoopThread ----------------------------
(***************************************************************************)
(* The thread around the sync loop: SyncLoopShared (flags, status, condvar)*)
(* between the IPC thread, which pauses, resumes, wakes and shuts the loop *)
(* down, and sync_loop_main.  What a cycle does is the subject of          *)
(* SyncLoop; here it is one step.                                          *)
(*                                                                         *)
(* An atomic load or store and a critical section are one step each.       *)
(***************************************************************************)

CONSTANT Enabled        \* SyncLoopConfig::enabled

ASSUME EnabledAssumption == Enabled \in BOOLEAN

VARIABLES
    place,      \* the loop thread; "none" when it was never spawned
    ipc,        \* the IPC thread: "ready" between two requests
    paused, shutdown,
    woken,      \* the bool under the condvar's mutex
    signalled,  \* the waiting thread has been notified
    status,     \* SyncLoopStatus::state
    pending     \* history: no cycle has begun since the last wake

threadVars == <<place, ipc, paused, shutdown, woken, signalled, status, pending>>

\* spawn_daemon_sync_loop: a disabled loop has no thread.
ThreadInit ==
    /\ place = IF Enabled THEN "top" ELSE "none"
    /\ status = IF Enabled THEN "Idle" ELSE "Disabled"
    /\ ipc = "ready"
    /\ paused = FALSE /\ shutdown = FALSE
    /\ woken = FALSE /\ signalled = FALSE
    /\ pending = FALSE

-----------------------------------------------------------------------------
(* The IPC thread. *)

\* Mutant: the flag is set and nobody notified.
MutNoNotify ==
    /\ woken' = TRUE
    /\ UNCHANGED signalled
    /\ pending' = TRUE

\* wake: the flag is set and the condvar notified under the mutex.
wake ==
    /\ woken' = TRUE
    /\ signalled' = (signalled \/ place = "waiting")
    /\ pending' = TRUE

Wake ==         \* after add_sync_root, remove_sync_root, resume_sync_root
    /\ ipc = "ready"
    /\ wake
    /\ UNCHANGED <<place, ipc, paused, shutdown, status>>

Pause ==
    /\ ipc = "ready"
    /\ ipc' = "pausing"
    /\ paused' = TRUE
    /\ UNCHANGED <<place, shutdown, woken, signalled, status, pending>>

PauseStatus ==
    /\ ipc = "pausing"
    /\ ipc' = "ready"
    /\ status' = "Paused"
    /\ UNCHANGED <<place, paused, shutdown, woken, signalled, pending>>

Resume ==
    /\ ipc = "ready"
    /\ ipc' = "resuming"
    /\ paused' = FALSE
    /\ UNCHANGED <<place, shutdown, woken, signalled, status, pending>>

ResumeWake ==
    /\ ipc = "resuming"
    /\ ipc' = "ready"
    /\ wake
    /\ UNCHANGED <<place, paused, shutdown, status>>

\* shutdown_and_join, called when the serve loop has returned.
RequestShutdown ==
    /\ ipc = "ready"
    /\ ipc' = "stopping"
    /\ shutdown' = TRUE
    /\ UNCHANGED <<place, paused, woken, signalled, status, pending>>

\* Mutant: a shutdown does not wake the loop.
MutSilentShutdown ==
    /\ ipc = "stopping"
    /\ ipc' = "joining"
    /\ UNCHANGED <<place, paused, shutdown, woken, signalled, status, pending>>

ShutdownWake ==
    /\ ipc = "stopping"
    /\ ipc' = "joining"
    /\ wake
    /\ UNCHANGED <<place, paused, shutdown, status>>

Join ==
    /\ ipc = "joining" /\ place \in {"stopped", "none"}
    /\ ipc' = "done"
    /\ UNCHANGED <<place, paused, shutdown, woken, signalled, status, pending>>

-----------------------------------------------------------------------------
(* sync_loop_main. *)

LoopUnchanged == UNCHANGED <<ipc, paused, shutdown>>

CheckShutdown(from, next) ==
    /\ place = from
    /\ \/ shutdown /\ place' = "stopped" /\ status' = "Stopped"
       \/ ~shutdown /\ place' = next /\ UNCHANGED status
    /\ UNCHANGED <<woken, signalled, pending>>
    /\ LoopUnchanged

\* Mutant: the pause flag is not read.
MutIgnorePause ==
    /\ place = "checkPaused"
    /\ place' = "markRunning"
    /\ UNCHANGED <<status, woken, signalled, pending>>
    /\ LoopUnchanged

CheckPaused ==
    /\ place = "checkPaused"
    /\ place' = IF paused THEN "markPaused" ELSE "markRunning"
    /\ UNCHANGED <<status, woken, signalled, pending>>
    /\ LoopUnchanged

MarkPaused ==
    /\ place = "markPaused"
    /\ place' = "wait"
    /\ status' = "Paused"
    /\ UNCHANGED <<woken, signalled, pending>>
    /\ LoopUnchanged

MarkRunning ==
    /\ place = "markRunning"
    /\ place' = "cycle"
    /\ status' = "Running"
    /\ pending' = FALSE
    /\ UNCHANGED <<woken, signalled>>
    /\ LoopUnchanged

\* run_cycle, which SyncLoop models in detail.
RunCycle ==
    /\ place = "cycle"
    /\ place' = "report"
    /\ UNCHANGED <<status, woken, signalled, pending>>
    /\ LoopUnchanged

\* Mutant: a cycle always ends in Idle.
MutReportIdle ==
    /\ place = "report"
    /\ place' = "checkStop"
    /\ status' = "Idle"
    /\ UNCHANGED <<woken, signalled, pending>>
    /\ LoopUnchanged

\* The status is updated under its mutex, from the pause flag of that moment.
ReportCycle ==
    /\ place = "report"
    /\ place' = "checkStop"
    /\ status' = IF paused THEN "Paused" ELSE "Idle"
    /\ UNCHANGED <<woken, signalled, pending>>
    /\ LoopUnchanged

\* Mutant: wait_timeout without its predicate; the flag is not looked at.
MutWaitBlindly ==
    /\ place = "wait"
    /\ place' = IF signalled THEN "top" ELSE "waiting"
    /\ woken' = FALSE
    /\ signalled' = FALSE
    /\ UNCHANGED <<status, pending>>
    /\ LoopUnchanged

\* wait_on_condvar: the predicate of wait_timeout_while, under the mutex.
WaitPredicate ==
    /\ place = "wait"
    /\ \/ (woken \/ shutdown) /\ place' = "top" /\ woken' = FALSE
       \/ ~woken /\ ~shutdown /\ place' = "waiting" /\ UNCHANGED woken
    /\ signalled' = FALSE
    /\ UNCHANGED <<status, pending>>
    /\ LoopUnchanged

Wakeup ==       \* notified
    /\ place = "waiting" /\ signalled
    /\ place' = "wait"
    /\ UNCHANGED <<status, woken, signalled, pending>>
    /\ LoopUnchanged

SpuriousWakeup ==
    /\ place = "waiting" /\ ~signalled
    /\ place' = "wait"
    /\ UNCHANGED <<status, woken, signalled, pending>>
    /\ LoopUnchanged

\* poll_interval, or the second of a paused loop, is over.
Timeout ==
    /\ place = "waiting"
    /\ place' = "top"
    /\ woken' = FALSE /\ signalled' = FALSE
    /\ UNCHANGED <<status, pending>>
    /\ LoopUnchanged

ThreadStep ==
    \/ CheckShutdown("top", "checkPaused")
    \/ CheckPaused \/ MarkPaused \/ MarkRunning
    \/ RunCycle \/ ReportCycle
    \/ CheckShutdown("checkStop", "wait")
    \/ WaitPredicate \/ Wakeup

\* What the IPC thread does without being asked again.
IpcFinish == PauseStatus \/ ResumeWake \/ ShutdownWake \/ Join

IpcRequest == Wake \/ Pause \/ Resume \/ RequestShutdown

Terminated == ipc = "done" /\ UNCHANGED threadVars

ThreadNext ==
    \/ ThreadStep \/ SpuriousWakeup \/ Timeout
    \/ IpcRequest \/ IpcFinish
    \/ Terminated

\* Both threads are scheduled, a cycle ends (SyncLoop, CycleCompletes) and a
\* notified thread wakes up.  Nothing is assumed of requests, of spurious
\* wake-ups, nor of time-outs: no property below waits for the poll interval.
ThreadSpec ==
    /\ ThreadInit /\ [][ThreadNext]_threadVars
    /\ WF_threadVars(ThreadStep) /\ WF_threadVars(IpcFinish)

-----------------------------------------------------------------------------
(* Properties. *)

\* Types, and that the IPC thread stops only a loop whose shutdown flag it has
\* set (request_shutdown stores the flag before it wakes).
ThreadTypeOK ==
    /\ place \in {"none", "top", "checkPaused", "markPaused", "markRunning", "cycle",
                  "report", "checkStop", "wait", "waiting", "stopped"}
    /\ ipc \in {"ready", "pausing", "resuming", "stopping", "joining", "done"}
    /\ status \in {"Idle", "Running", "Paused", "Disabled", "Stopped"}
    /\ paused \in BOOLEAN /\ shutdown \in BOOLEAN
    /\ woken \in BOOLEAN /\ signalled \in BOOLEAN
    /\ pending \in BOOLEAN
    /\ ipc \in {"stopping", "joining", "done"} => shutdown

\* The loop never sleeps on a wake-up call: a thread in the condvar with the
\* flag set, or with a shutdown whose wake was sent, has been notified
\* (wake, request_shutdown, wait_on_condvar).
NoSleepOnWake ==
    place = "waiting" /\ (woken \/ (shutdown /\ ipc # "stopping")) => signalled

\* A loop that sleeps in the condvar never reports anything but Paused while
\* it is globally paused (pause, and the status update after a cycle).
PausedLoopSaysSo ==
    place = "waiting" /\ paused /\ ipc # "pausing" => status = "Paused"

\* A shutdown request ends the daemon: the loop leaves whatever it is doing
\* or waiting for and the join returns, without any time-out.
ShutdownCompletes == shutdown ~> ipc = "done"

\* A wake-up call is never lost: unless the loop is paused or stopped for
\* good, a cycle begins after every call, without any time-out, also when the
\* call comes while a cycle runs.
NoLostWake == <>[](place # "none" /\ ~paused /\ ~shutdown) => (pending ~> ~pending)

\* A global pause holds: while it lasts the loop runs at most the cycle it
\* was in, however often it is woken.
PauseHolds == <>[]paused => <>[](place # "cycle")

=============================================================================
