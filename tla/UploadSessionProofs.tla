-------------------------- MODULE UploadSessionProofs --------------------------
(***************************************************************************)
(* The invariants of UploadSession hold for every size, every number of    *)
(* controllers and every bound.                                            *)
(***************************************************************************)
EXTENDS UploadSession, TLAPS

\* What the flag under the mutex says: it is set before a cancel() returns, and a
\* call is late only after one has.
FlagBeforeReturn ==
    /\ ended = "yes" => canceled = "yes"
    /\ \A c \in Controllers : control[c] = "slot" => canceled = "yes"
    /\ writer.late = "yes" => ended = "yes"

\* What the sender carries from one step to the next.
SenderCarries ==
    /\ writer.pc \in {"record", "publish", "append"} => writer.offset <= received
    /\ writer.pc \in {"save", "clear", "complete", "ok"} => received >= Total
    /\ writer.pc \in {"clear", "complete", "ok"} => saved = "yes"

Inv ==
    /\ TypeOK /\ FlagBeforeReturn /\ SenderCarries
    /\ LateCallsSendNothing /\ ReportedBytesReceived /\ OkMeansWhole

\* A controller's step changes the place of that controller alone.
LEMMA MovesType ==
    ASSUME TypeOK, NEW c \in Controllers, NEW from,
           NEW to \in {"idle", "pause", "replay", "resume", "cancel", "flag", "slot"},
           Moves(c, from, to)
    PROVE  /\ control' \in [Controllers -> {"idle", "pause", "replay", "resume", "cancel", "flag", "slot"}]
           /\ control'[c] = to
           /\ \A d \in Controllers : d # c => control'[d] = control[d]
BY DEF TypeOK, Moves

\* Every step of the sender keeps the invariant.
LEMMA SenderStep ==
    ASSUME Inv,
           \/ WriteCall \/ ReadOffset \/ SendOk \/ SendFails \/ Record \/ Publish
           \/ AppendOk \/ AppendFails
           \/ SaveCall \/ SaveCheck \/ SaveOk \/ SaveFails \/ Clear \/ Complete \/ Fail \/ SetOutcome
    PROVE  Inv'
<1> USE SessionAssumption DEF Inv, TypeOK, FlagBeforeReturn, SenderCarries,
        LateCallsSendNothing, ReportedBytesReceived, OkMeansWhole, Terminal, NoEntry,
        progress, chunked, server, sender, controls, NoWriter, Goto
<1>1. CASE WriteCall
  BY <1>1 DEF WriteCall, Enter
<1>2. CASE ReadOffset
  BY <1>2 DEF ReadOffset
<1>3. CASE SendOk
  BY <1>3 DEF SendOk, Lands
<1>4. CASE SendFails
  BY <1>4 DEF SendFails, Lands
<1>5. CASE Record
  BY <1>5 DEF Record
<1>6. CASE Publish
  BY <1>6 DEF Publish
<1>7. CASE AppendOk
  BY <1>7 DEF AppendOk
<1>8. CASE AppendFails
  BY <1>8 DEF AppendFails
<1>9. CASE SaveCall
  BY <1>9 DEF SaveCall, Enter
<1>10. CASE SaveCheck
  BY <1>10 DEF SaveCheck
<1>11. CASE SaveOk
  BY <1>11 DEF SaveOk
<1>12. CASE SaveFails
  BY <1>12 DEF SaveFails
<1>13. CASE Clear
  BY <1>13 DEF Clear
<1>14. CASE Complete
  BY <1>14 DEF Complete
<1>15. CASE Fail
  BY <1>15 DEF Fail
<1>16. CASE SetOutcome
  BY <1>16 DEF SetOutcome
<1>. QED
  BY <1>1, <1>2, <1>3, <1>4, <1>5, <1>6, <1>7, <1>8, <1>9, <1>10, <1>11, <1>12,
     <1>13, <1>14, <1>15, <1>16

\* Every step of a controller keeps the invariant.
LEMMA ControllerStep ==
    ASSUME Inv, NEW c \in Controllers,
           \/ PauseCall(c) \/ Pause(c) \/ ResumeCall(c) \/ Replay(c) \/ Resume(c)
           \/ CancelCall(c) \/ Cancel(c) \/ CancelFlag(c) \/ CancelOutcome(c)
    PROVE  Inv'
<1> USE SessionAssumption DEF Inv, TypeOK, FlagBeforeReturn, SenderCarries,
        LateCallsSendNothing, ReportedBytesReceived, OkMeansWhole, Terminal, NoEntry,
        progress, chunked, server, sender, controls
<1>1. CASE PauseCall(c)
  BY <1>1, MovesType DEF PauseCall, Asks
<1>2. CASE Pause(c)
  BY <1>2, MovesType DEF Pause
<1>3. CASE ResumeCall(c)
  BY <1>3, MovesType DEF ResumeCall, Asks
<1>4. CASE Replay(c)
  BY <1>4, MovesType DEF Replay
<1>5. CASE Resume(c)
  BY <1>5, MovesType DEF Resume
<1>6. CASE CancelCall(c)
  BY <1>6, MovesType DEF CancelCall, Asks
<1>7. CASE Cancel(c)
  BY <1>7, MovesType DEF Cancel
<1>8. CASE CancelFlag(c)
  BY <1>8, MovesType DEF CancelFlag
<1>9. CASE CancelOutcome(c)
  <2>1. control[c] = "slot" /\ canceled = "yes"
    BY <1>9 DEF CancelOutcome, Moves
  <2>. QED
    BY <1>9, <2>1, MovesType DEF CancelOutcome
<1>. QED
  BY <1>1, <1>2, <1>3, <1>4, <1>5, <1>6, <1>7, <1>8, <1>9

\* The invariants of the session, with what they need to be inductive.
THEOREM SessionInvariant == Spec => []Inv
<1> USE SessionAssumption
<1>1. Init => Inv
  BY DEF Init, Inv, TypeOK, FlagBeforeReturn, SenderCarries, LateCallsSendNothing,
         ReportedBytesReceived, OkMeansWhole, Terminal, NoEntry, NoWriter
<1>2. Inv /\ [Next]_vars => Inv'
  <2> SUFFICES ASSUME Inv, [Next]_vars PROVE Inv'
    OBVIOUS
  <2>1. CASE Await
    BY <2>1 DEF Await, Inv, TypeOK, FlagBeforeReturn, SenderCarries, LateCallsSendNothing,
                ReportedBytesReceived, OkMeansWhole, progress, chunked, server, sender, controls
  <2>2. CASE OtherClears
    BY <2>2 DEF OtherClears, Inv, TypeOK, FlagBeforeReturn, SenderCarries, LateCallsSendNothing,
                ReportedBytesReceived, OkMeansWhole, NoEntry, progress, chunked, server, sender,
                controls
  <2>3. CASE UNCHANGED vars
    BY <2>3 DEF vars, Inv, TypeOK, FlagBeforeReturn, SenderCarries, LateCallsSendNothing,
                ReportedBytesReceived, OkMeansWhole, progress, chunked, server, sender, controls
  <2>. QED
    BY <2>1, <2>2, <2>3, SenderStep, ControllerStep DEF Next
<1>. QED
  BY <1>1, <1>2, PTL DEF Spec

\* The session keeps its types.
THEOREM SessionTypeOK == Spec => []TypeOK
BY SessionInvariant, PTL DEF Inv

\* No call that begins after a cancel() has returned sends or saves anything, for
\* any number of threads that pause, resume and cancel.
THEOREM CancelStopsLaterCalls == Spec => []LateCallsSendNothing
BY SessionInvariant, PTL DEF Inv

\* Progress, offset and journal never run ahead of the server.
THEOREM NothingReportedAhead == Spec => []ReportedBytesReceived
BY SessionInvariant, PTL DEF Inv

\* A success stands for a file of at least the declared size.
THEOREM SuccessIsWhole == Spec => []OkMeansWhole
BY SessionInvariant, PTL DEF Inv
================================================================================
