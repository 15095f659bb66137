----------------------------- MODULE UploadSession -----------------------------
(***************************************************************************)
(* The UploadSession of the SDK.  Its handle is cloned freely: one thread  *)
(* sends the chunks and saves, others pause, resume or cancel.  The state  *)
(* is published on a watch channel and the offset is behind a mutex of its *)
(* own, so every call is a sequence of separately atomic steps.            *)
(*                                                                         *)
(* Sizes are in chunks; which bytes a caller sends is left open.  Every    *)
(* session of a directory appends to one journal file, and only the last   *)
(* entry of this session matters.                                          *)
(***************************************************************************)
EXTENDS Integers

CONSTANTS
    Total,          \* chunks of the payload
    Controllers,    \* threads with a clone of the handle
    MaxCalls,       \* bound: calls of the controllers
    MaxSends        \* bound: calls of write_chunk and save_and_complete

ASSUME SessionAssumption == Total \in Nat \ {0} /\ {MaxCalls, MaxSends} \subseteq Nat

VARIABLES
    state, sent,        \* UploadProgress: state and bytes_sent
    offset, canceled,   \* ChunkedState
    outcome,            \* the slot that await_completion takes
    journal,            \* bytes of the last journal entry of this session, or -1
    received, saved,    \* the upload session of the server: its size, and whether it is a file
    writer,             \* the thread in write_chunk or save_and_complete
    control,            \* where each controller is in its call
    calls, sends,
    ended               \* ghost: a cancel() has returned

progress == <<state, sent>>
chunked == <<offset, canceled>>
server == <<received, saved>>
sender == <<writer, sends>>
controls == <<control, calls, ended>>
vars == <<progress, chunked, outcome, journal, server, sender, controls>>

NoEntry == -1
NoWriter == [pc |-> "idle", offset |-> 0, late |-> "no"]

\* start: upload_create has answered and nobody else has the handle yet.
Init ==
    /\ state = "Uploading" /\ sent = 0
    /\ offset = 0 /\ canceled = "no"
    /\ outcome = "None"
    /\ journal = NoEntry
    /\ received = 0 /\ saved = "no"
    /\ writer = NoWriter /\ sends = 0
    /\ control = [c \in Controllers |-> "idle"] /\ calls = 0 /\ ended = "no"
-----------------------------------------------------------------------------
(* write_chunk.                                                            *)

Goto(pc) == writer' = [pc |-> pc, offset |-> writer.offset, late |-> writer.late]

\* The state is read once, at the beginning of the call.
Enter(pc) ==
    /\ writer.pc = "idle" /\ sends < MaxSends
    /\ state = "Uploading"
    /\ sends' = sends + 1
    /\ writer' = [pc |-> pc, offset |-> 0, late |-> ended]
    /\ UNCHANGED <<progress, chunked, outcome, journal, server, controls>>

WriteCall == Enter("read")

\* Mutant: the state alone is trusted.
MutNoFlagCheck ==
    /\ writer.pc = "read"
    /\ writer' = [pc |-> "send", offset |-> offset, late |-> writer.late]
    /\ UNCHANGED <<progress, chunked, outcome, journal, server, sends, controls>>

\* Handle and offset are copied out under the mutex.
ReadOffset ==
    /\ writer.pc = "read"
    /\ writer' = IF canceled = "yes" THEN NoWriter
                 ELSE [pc |-> "send", offset |-> offset, late |-> writer.late]
    /\ UNCHANGED <<progress, chunked, outcome, journal, server, sends, controls>>

\* The chunk lands, unless the server has turned the session into a file already.
Lands ==
    /\ saved = "no"
    /\ received' = IF received > writer.offset THEN received ELSE writer.offset + 1

SendOk ==
    /\ writer.pc = "send"
    /\ Lands
    /\ writer' = [pc |-> "record", offset |-> writer.offset + 1, late |-> writer.late]
    /\ UNCHANGED <<progress, chunked, outcome, journal, saved, sends, controls>>

\* Mutant: a wire error is counted like a chunk.
MutCountsFailed ==
    /\ writer.pc = "send"
    /\ Lands \/ UNCHANGED received
    /\ writer' = [pc |-> "record", offset |-> writer.offset + 1, late |-> writer.late]
    /\ UNCHANGED <<progress, chunked, outcome, journal, saved, sends, controls>>

\* A wire error, with the chunk on the server or without.
SendFails ==
    /\ writer.pc = "send"
    /\ Lands \/ UNCHANGED received
    /\ writer' = NoWriter
    /\ UNCHANGED <<progress, chunked, outcome, journal, saved, sends, controls>>

Record ==
    /\ writer.pc = "record"
    /\ offset' = writer.offset
    /\ Goto("publish")
    /\ UNCHANGED <<progress, canceled, outcome, journal, server, sends, controls>>

Publish ==
    /\ writer.pc = "publish"
    /\ sent' = writer.offset
    /\ Goto("append")
    /\ UNCHANGED <<state, chunked, outcome, journal, server, sends, controls>>

AppendOk ==
    /\ writer.pc = "append"
    /\ journal' = writer.offset
    /\ writer' = NoWriter
    /\ UNCHANGED <<progress, chunked, outcome, server, sends, controls>>

\* UploadError::Journal, with the offset already moved.
AppendFails ==
    /\ writer.pc = "append"
    /\ writer' = NoWriter
    /\ UNCHANGED <<progress, chunked, outcome, journal, server, sends, controls>>
-----------------------------------------------------------------------------
(* save_and_complete.                                                      *)

SaveCall == Enter("check")

\* Mutant: the offset is not compared with the total.
MutSavesEarly ==
    /\ writer.pc = "check"
    /\ IF canceled = "yes" THEN writer' = NoWriter ELSE Goto("save")
    /\ UNCHANGED <<progress, chunked, outcome, journal, server, sends, controls>>

SaveCheck ==
    /\ writer.pc = "check"
    /\ IF canceled = "yes" \/ offset # Total THEN writer' = NoWriter ELSE Goto("save")
    /\ UNCHANGED <<progress, chunked, outcome, journal, server, sends, controls>>

SaveOk ==
    /\ writer.pc = "save" /\ saved = "no"
    /\ saved' = "yes"
    /\ Goto("clear")
    /\ UNCHANGED <<progress, chunked, outcome, journal, received, sends, controls>>

\* A wire error, or a checksum other than the caller's: the file is there or not.
SaveFails ==
    /\ writer.pc = "save"
    /\ saved' \in {saved, "yes"}
    /\ Goto("failed")
    /\ UNCHANGED <<progress, chunked, outcome, journal, received, sends, controls>>

\* The journal file is emptied; an error is only logged.
Clear ==
    /\ writer.pc = "clear"
    /\ journal' \in {journal, NoEntry}
    /\ Goto("complete")
    /\ UNCHANGED <<progress, chunked, outcome, server, sends, controls>>

\* bytes_uploaded is what the server acknowledges.
Complete ==
    /\ writer.pc = "complete"
    /\ state' = "Completed" /\ sent' = received
    /\ Goto("ok")
    /\ UNCHANGED <<chunked, outcome, journal, server, sends, controls>>

Fail ==
    /\ writer.pc = "failed"
    /\ state' = "Failed"
    /\ Goto("error")
    /\ UNCHANGED <<sent, chunked, outcome, journal, server, sends, controls>>

SetOutcome ==
    /\ writer.pc \in {"ok", "error"}
    /\ outcome' = IF writer.pc = "ok" THEN "Ok" ELSE "Failed"
    /\ writer' = NoWriter
    /\ UNCHANGED <<progress, chunked, journal, server, sends, controls>>
-----------------------------------------------------------------------------
(* pause, resume, cancel and await_completion.                             *)

Terminal == {"Completed", "Canceled", "Failed"}

Moves(c, from, to) ==
    /\ control[c] = from
    /\ control' = [control EXCEPT ![c] = to]

\* A call begins; pause and resume read the state here.
Asks(c, to) ==
    /\ calls < MaxCalls
    /\ calls' = calls + 1
    /\ Moves(c, "idle", to)
    /\ UNCHANGED <<progress, chunked, outcome, journal, server, sender, ended>>

PauseCall(c) == state \notin Terminal /\ Asks(c, "pause")
ResumeCall(c) == state \notin Terminal /\ Asks(c, "replay")
CancelCall(c) == Asks(c, "cancel")

Pause(c) ==
    /\ Moves(c, "pause", "idle")
    /\ state' = "Paused"
    /\ UNCHANGED <<sent, chunked, outcome, journal, server, sender, calls, ended>>

\* The last journal entry replaces the offset; a journal that cannot be read does not.
Replay(c) ==
    /\ Moves(c, "replay", "resume")
    /\ \/ journal # NoEntry /\ offset' = journal /\ sent' = journal
       \/ UNCHANGED <<offset, sent>>
    /\ UNCHANGED <<state, canceled, outcome, journal, server, sender, calls, ended>>

Resume(c) ==
    /\ Moves(c, "resume", "idle")
    /\ state' = "Uploading"
    /\ UNCHANGED <<sent, chunked, outcome, journal, server, sender, calls, ended>>

Cancel(c) ==
    /\ Moves(c, "cancel", "flag")
    /\ state' = "Canceled"
    /\ UNCHANGED <<sent, chunked, outcome, journal, server, sender, calls, ended>>

CancelFlag(c) ==
    /\ Moves(c, "flag", "slot")
    /\ canceled' = "yes"
    /\ UNCHANGED <<progress, offset, outcome, journal, server, sender, calls, ended>>

CancelOutcome(c) ==
    /\ Moves(c, "slot", "idle")
    /\ outcome' = "Canceled" /\ ended' = "yes"
    /\ UNCHANGED <<progress, chunked, journal, server, sender, calls>>

\* await_completion takes what is in the slot, and does not wait for it.
Await ==
    /\ outcome # "None"
    /\ outcome' = "None"
    /\ UNCHANGED <<progress, chunked, journal, server, sender, controls>>

\* Another session of the directory completes and empties the common journal.
OtherClears ==
    /\ journal # NoEntry
    /\ journal' = NoEntry
    /\ UNCHANGED <<progress, chunked, outcome, server, sender, controls>>

Next ==
    \/ WriteCall \/ ReadOffset \/ SendOk \/ SendFails \/ Record \/ Publish
    \/ AppendOk \/ AppendFails
    \/ SaveCall \/ SaveCheck \/ SaveOk \/ SaveFails \/ Clear \/ Complete \/ Fail \/ SetOutcome
    \/ \E c \in Controllers :
          \/ PauseCall(c) \/ Pause(c) \/ ResumeCall(c) \/ Replay(c) \/ Resume(c)
          \/ CancelCall(c) \/ Cancel(c) \/ CancelFlag(c) \/ CancelOutcome(c)
    \/ Await \/ OtherClears

Spec == Init /\ [][Next]_vars
-----------------------------------------------------------------------------
(* Properties.                                                             *)

TypeOK ==
    /\ state \in {"Uploading", "Paused"} \cup Terminal /\ sent \in Nat
    /\ offset \in Nat /\ canceled \in {"no", "yes"}
    /\ outcome \in {"None", "Ok", "Failed", "Canceled"}
    /\ journal \in Nat \cup {NoEntry}
    /\ received \in Nat /\ saved \in {"no", "yes"}
    /\ writer \in [pc : {"idle", "read", "send", "record", "publish", "append", "check", "save",
                         "clear", "complete", "ok", "failed", "error"},
                   offset : Nat, late : {"no", "yes"}]
    /\ control \in [Controllers -> {"idle", "pause", "replay", "resume", "cancel", "flag", "slot"}]
    /\ calls \in 0..MaxCalls /\ sends \in 0..MaxSends /\ ended \in {"no", "yes"}

\* Once a cancel() has returned, no call that begins afterwards sends a chunk or
\* saves.  A resume that checked before the cancel makes the published state
\* Uploading again, so it is the flag under the mutex that stops the call.
LateCallsSendNothing ==
    writer.late = "yes" => writer.pc \in {"idle", "read", "check"}

\* Whatever the session publishes, resumes from or has in its journal, the server
\* has received that much: no interleaving of a resume with a chunk in flight
\* reports a byte that is not there.
ReportedBytesReceived ==
    /\ sent <= received /\ offset <= received /\ journal <= received
    /\ writer.pc = "send" => writer.offset <= received

\* An upload that reports success is a file of at least the declared size.
OkMeansWhole == outcome = "Ok" => saved = "yes" /\ received >= Total
================================================================================
