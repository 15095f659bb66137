------------------------------- MODULE WritePath -------------------------------
(***************************************************************************)
(* The write path of the FUSE mount: WritePathService, the calls of the    *)
(* kernel that fuser_shim hands to it one at a time, the drain hook that   *)
(* an unmount or a shutdown runs on another thread, the chunked upload and *)
(* its progress sidecar, and the upload sessions of the server.            *)
(*                                                                         *)
(* The unit of data is one chunk (chunk_size_bytes).  The data of a write  *)
(* is a stamp of its own, so contents are equal exactly when the same      *)
(* writes are in them; 0 is a hole.                                        *)
(* The journal is appended to and never read for a decision, so only a     *)
(* failure to append is visible: it ends the operation.                    *)
(***************************************************************************)
EXTENDS Integers, Sequences, FiniteSets

CONSTANTS
    MaxIno,                 \* inode numbers 1..MaxIno; they start again at every mount
    Paths,                  \* remote paths
    FlushThreshold,         \* flush_threshold_bytes
    ChunkRetries,           \* chunk_retry_attempts
    MaxStaging,             \* max_staging_bytes
    WholeFileCeiling,       \* WHOLE_FILE_CEILING of the protocol backend
    MaxFds,                 \* descriptors open for writing, per inode
    WriteSizes,             \* lengths of a write
    MaxBlob,                \* bound: the size a truncate may ask for
    MaxCalls, MaxDrains, MaxSessions, MaxStops    \* bounds

ASSUME WritePathAssumption ==
    /\ {FlushThreshold, ChunkRetries, MaxStaging, MaxBlob, WholeFileCeiling,
        MaxIno, MaxFds, MaxCalls, MaxDrains, MaxSessions, MaxStops} \cup WriteSizes \subseteq Nat
    /\ MaxStaging <= MaxBlob
    /\ {"-", "gone"} \cap Paths = {}

Inos == 1..MaxIno

VARIABLES
    dentry,     \* the kernel's cache: the inode it knows for a name, or 0
    ipath,      \* InodeTable: the path of an inode, of this mount
    fds,        \* FhTable: descriptors open for writing, per inode
    closing,    \* those of them that are flushed and not yet released
    handle,     \* handles: the WriteHandle of an inode
    blob,       \* the staging blob ino-N
    sidecar,    \* the file ino-N.upload-progress
    session,    \* upload sessions of the server, by upload id
    remote,     \* files of the server
    fuse,       \* the thread that serves the kernel
    drain,      \* the thread in drain_all
    calls,      \* calls of the kernel so far, but releases; the stamp of a write
    drains,     \* drains so far
    stops,      \* mounts that ended, by a crash or by an unmount
    touched     \* ghost: chunks changed in the blob after its session has got them

disk == <<blob, sidecar>>
server == <<session, remote>>
counts == <<calls, drains>>
names == <<dentry, ipath, fds, closing>>
vars == <<names, handle, disk, server, fuse, drain, counts, stops, touched>>

NoPath == "-"       \* an inode not allocated yet
Gone == "gone"      \* an inode whose entry invalidate_path has removed
NoHandle == [path |-> NoPath, dirty |-> 0]
NoBlob == <<-1>>
NoFile == <<-1>>
NoSidecar == [id |-> 0, total |-> 0, acked |-> 0]

Idle == [pc |-> "idle", ino |-> 0, dirty |-> 0, total |-> 0, id |-> 0,
         offset |-> 0, attempt |-> 0, restarts |-> 0]
NotDraining == [pc |-> "idle", todo |-> {}, ino |-> 0, path |-> NoPath,
                data |-> <<>>, orphan |-> NoHandle]

Init ==
    /\ dentry = [p \in Paths |-> 0]
    /\ ipath = [i \in Inos |-> NoPath]
    /\ fds = [i \in Inos |-> 0] /\ closing = [i \in Inos |-> 0]
    /\ handle = [i \in Inos |-> NoHandle]
    /\ blob = [i \in Inos |-> NoBlob]
    /\ sidecar = [i \in Inos |-> NoSidecar]
    /\ session = <<>>
    /\ remote = [p \in Paths |-> NoFile]
    /\ fuse = Idle /\ drain = NotDraining
    /\ calls = 0 /\ drains = 0 /\ stops = 0
    /\ touched = [i \in Inos |-> {}]

Min2(a, b) == IF a < b THEN a ELSE b
Max2(a, b) == IF a < b THEN b ELSE a

\* ino_for_path, or the next number never used in this mount: insert_or_get.
InoFor(p) ==
    {i \in Inos : ipath[i] = p} \cup
    {i \in Inos : /\ \A j \in Inos : ipath[j] # p
                  /\ ipath[i] = NoPath
                  /\ \A j \in Inos : j < i => ipath[j] # NoPath}

\* lookup finds the name in the listing of the server or as an entry that create
\* published.
Listed(p) == remote[p] # NoFile \/ \E i \in Inos : ipath[i] = p /\ handle[i] # NoHandle

\* The inode of an existing name: the one the kernel has cached, and once its time
\* to live is over the one lookup gives.
Inode(p) == {i \in Inos : dentry[p] = i} \cup {i \in InoFor(p) : Listed(p)}

Differ(c, d) ==
    {k \in 1..Max2(Len(c), Len(d)) : k > Len(c) \/ k > Len(d) \/ c[k] # d[k]}

\* Every change of a blob.
SetBlob(i, content) ==
    /\ blob' = [blob EXCEPT ![i] = content]
    /\ touched' = [touched EXCEPT ![i] =
                      IF sidecar[i] = NoSidecar THEN {}
                      ELSE @ \cup (Differ(content, blob[i])
                                     \cap 1..Len(session[sidecar[i].id].cells))]

\* The map loses or replaces a handle; a drain that holds it keeps the old one.
Orphaned(i) ==
    IF drain.ino = i /\ drain.pc # "idle" /\ drain.orphan = NoHandle /\ handle[i] # NoHandle
    THEN [drain EXCEPT !.orphan = handle[i]] ELSE drain

SetHandle(i, h) ==
    /\ handle' = [handle EXCEPT ![i] = h]
    /\ drain' = Orphaned(i)

-----------------------------------------------------------------------------
(* Calls of the kernel.                                                    *)

\* fuser serves one call at a time.
Call ==
    /\ fuse.pc = "idle" /\ calls < MaxCalls
    /\ calls' = calls + 1
    /\ UNCHANGED drains

\* What a writable open may seed the blob with: the staged bytes while a handle is
\* live, else the file of the server; nothing for O_TRUNC, and nothing either when
\* the inode cannot be opened for reading, which a writable open tolerates.
SeedBytes(i, trunc) ==
    {<<>>} \cup
    {c \in {IF handle[i] # NoHandle THEN blob[i] ELSE remote[ipath'[i]]} :
        ~trunc /\ c \notin {NoBlob, NoFile}}

\* open with write access: seed_blob, then open_for_write under the path of the
\* inode table.
Open(p, i, trunc) ==
    /\ Call /\ fds[i] + closing[i] < MaxFds
    /\ i \in Inode(p) /\ ipath[i] # Gone
    /\ ipath' = [ipath EXCEPT ![i] = IF @ = NoPath THEN p ELSE @]
    /\ dentry' = [dentry EXCEPT ![p] = i]
    /\ \E content \in SeedBytes(i, trunc) : SetBlob(i, content)
    /\ SetHandle(i, [path |-> ipath'[i], dirty |-> 0])
    /\ fds' = [fds EXCEPT ![i] = @ + 1]
    /\ UNCHANGED <<closing, sidecar, server, fuse, stops>>

\* create: open_for_write with o_trunc, then a journal record.
create(p, i) ==
    /\ Call /\ fds[i] + closing[i] < MaxFds
    /\ ~Listed(p) /\ i \in InoFor(p)
    /\ ipath' = [ipath EXCEPT ![i] = p]
    /\ dentry' = [dentry EXCEPT ![p] = i]
    /\ SetBlob(i, <<>>)
    /\ SetHandle(i, [path |-> p, dirty |-> 0])
    /\ fds' = [fds EXCEPT ![i] = @ + 1]
    /\ UNCHANGED <<closing, sidecar, server, fuse, stops>>

\* write_blob_at: the hole below the offset reads as zeros.
write_blob_at(content, off, len, v) ==
    [k \in 1..Max2(off + len, Len(content)) |->
        IF k \in (off + 1)..(off + len) THEN v ELSE IF k <= Len(content) THEN content[k] ELSE 0]

\* The first half of write: the handle is read, the ceiling of the inode is checked
\* and the bytes are staged.  The ceiling of the process refuses any write: its
\* counter is shared with mounts outside the model and decides nothing else.
\* Staging may fail, and so may the journal once the bytes are staged.
WriteStage(i, off, len) ==
    /\ Call /\ handle[i] # NoHandle /\ fds[i] > 0
    /\ \/ /\ off + len <= MaxStaging
          /\ SetBlob(i, write_blob_at(blob[i], off, len, calls'))
          /\ \/ fuse' = [Idle EXCEPT !.pc = "ack", !.ino = i, !.dirty = handle[i].dirty + len]
             \/ UNCHANGED fuse
       \/ UNCHANGED <<blob, touched, fuse>>
    /\ UNCHANGED <<names, handle, sidecar, server, drain, stops>>

\* The second half: the count read before is written back, then the triggers;
\* chunked_flush begins with a barrier that may fail.
WriteAck ==
    /\ fuse.pc = "ack"
    /\ handle' = [handle EXCEPT ![fuse.ino].dirty = fuse.dirty]
    /\ \/ /\ fuse.dirty >= FlushThreshold
          /\ fuse' = [Idle EXCEPT !.pc = "session", !.ino = fuse.ino, !.restarts = 1,
                                  !.total = Len(blob[fuse.ino])]
       \/ /\ fuse.dirty < FlushThreshold         \* the interval has passed
          /\ fuse' = [Idle EXCEPT !.pc = "flush", !.ino = fuse.ino]
       \/ fuse.dirty < FlushThreshold /\ fuse' = Idle
    /\ UNCHANGED <<names, disk, server, drain, counts, stops, touched>>

\* Dirty accounting after an upload of the inode.
ResetDirty(i) == handle' = [handle EXCEPT ![i].dirty = 0]

\* upload_file of the protocol backend refuses a blob above the ceiling.
Uploadable(i) == blob[i] # NoBlob /\ Len(blob[i]) <= WholeFileCeiling

\* flush on the thread that serves the kernel: barrier, upload_file, reset.
\* Only this thread changes a blob, so nothing comes between for the inode.
FlushOk(i) ==
    /\ Uploadable(i)
    /\ remote' = [remote EXCEPT ![handle[i].path] = blob[i]]
    /\ ResetDirty(i)

\* It fails: before the server has the file, or after, when the answer is lost.
FlushFails(i) ==
    /\ \/ UNCHANGED remote
       \/ Uploadable(i) /\ remote' = [remote EXCEPT ![handle[i].path] = blob[i]]
    /\ UNCHANGED handle

\* FUSE flush at a close(2), and fsync; a close without a handle gets an error.
flush(i, close) ==
    /\ Call /\ fds[i] > 0
    /\ \/ handle[i] # NoHandle /\ (FlushOk(i) \/ FlushFails(i))
       \/ handle[i] = NoHandle /\ close /\ UNCHANGED <<handle, remote>>
    /\ fds' = [fds EXCEPT ![i] = IF close THEN @ - 1 ELSE @]
    /\ closing' = [closing EXCEPT ![i] = IF close THEN @ + 1 ELSE @]
    /\ UNCHANGED <<dentry, ipath, disk, session, fuse, drain, stops, touched>>

\* The flush a write triggers, for its interval.
WriteFlush ==
    /\ fuse.pc = "flush"
    /\ FlushOk(fuse.ino) \/ FlushFails(fuse.ino)
    /\ fuse' = Idle
    /\ UNCHANGED <<names, disk, session, drain, counts, stops, touched>>

\* setattr with a size: no ceiling is checked, and nothing is counted as dirty.
truncate(i, size) ==
    /\ Call /\ handle[i] # NoHandle
    /\ SetBlob(i, [k \in 1..size |-> IF k <= Len(blob[i]) THEN blob[i][k] ELSE 0])
    /\ UNCHANGED <<names, handle, sidecar, server, fuse, drain, stops>>

\* unlink of a name: blob and handle of the inode the table has for it are gone
\* whatever the server answers.
unlink(p) ==
    /\ Call /\ Inode(p) # {}
    /\ \/ \E i \in Inos :
            /\ ipath[i] = p
            /\ SetBlob(i, NoBlob)
            /\ SetHandle(i, NoHandle)
       \/ /\ \A i \in Inos : ipath[i] # p
          /\ UNCHANGED <<blob, touched, handle, drain>>
    /\ \/ /\ remote[p] # NoFile
          /\ remote' = [remote EXCEPT ![p] = NoFile]
          /\ ipath' = [i \in Inos |-> IF ipath[i] = p THEN Gone ELSE ipath[i]]
          /\ dentry' = [dentry EXCEPT ![p] = 0]
       \/ UNCHANGED <<remote, ipath, dentry>>          \* EIO
    /\ UNCHANGED <<fds, closing, sidecar, session, fuse, stops>>

\* rename: the handles and the kernel's names follow; the inode table does not.
rename(p, q) ==
    /\ Call /\ p # q
    /\ remote[p] # NoFile
    /\ remote' = [remote EXCEPT ![q] = remote[p], ![p] = NoFile]
    /\ handle' = [i \in Inos |->
                    IF handle[i].path = p THEN [handle[i] EXCEPT !.path = q] ELSE handle[i]]
    /\ dentry' = [dentry EXCEPT ![q] = dentry[p], ![p] = 0]
    /\ UNCHANGED <<ipath, fds, closing, disk, session, fuse, drain, stops, touched>>

\* FUSE release, some time after the flush of the close.
release(i) ==
    /\ fuse.pc = "idle" /\ closing[i] > 0
    /\ closing' = [closing EXCEPT ![i] = @ - 1]
    /\ SetHandle(i, NoHandle)
    /\ UNCHANGED <<dentry, ipath, fds, disk, server, fuse, counts, stops, touched>>

-----------------------------------------------------------------------------
(* run_chunked_session, on the thread that serves the kernel.              *)

Save(i, id, total, acked) ==
    sidecar' = [sidecar EXCEPT ![i] = [id |-> id, total |-> total, acked |-> acked]]

\* The write that triggered the upload returns its error.
SessionFails == fuse' = Idle

\* Mutant: the restarts are not counted.
MutRestartForever ==
    /\ fuse' = [fuse EXCEPT !.pc = "session", !.id = 0, !.offset = 0, !.attempt = 0]
    /\ sidecar' \in {sidecar, [sidecar EXCEPT ![fuse.ino] = NoSidecar]}

\* UploadPermanent, from any of the three requests.  The sidecar is removed, best
\* effort, and the upload begun again, once.
PermanentError ==
    \/ /\ fuse.restarts > 0
       /\ fuse' = [fuse EXCEPT !.pc = "session", !.restarts = @ - 1, !.id = 0, !.offset = 0,
                               !.attempt = 0]
       /\ sidecar' \in {sidecar, [sidecar EXCEPT ![fuse.ino] = NoSidecar]}
    \/ fuse.restarts = 0 /\ SessionFails /\ UNCHANGED sidecar

\* Mutant: a sidecar is taken up whatever its size.
MutResumeAnySize ==
    LET i == fuse.ino
        p == sidecar[i]
    IN  /\ fuse.pc = "session"
        /\ \/ /\ p # NoSidecar
              /\ fuse' = [fuse EXCEPT !.pc = "send", !.id = p.id, !.offset = p.acked]
              /\ UNCHANGED <<sidecar, session, touched>>
           \/ /\ p = NoSidecar
              /\ Len(session) < MaxSessions
              /\ session' = Append(session, [cells |-> <<>>, live |-> TRUE])
              /\ \/ /\ Save(i, Len(session'), fuse.total, 0)
                    /\ fuse' = [fuse EXCEPT !.pc = "send", !.id = Len(session'), !.offset = 0]
                    /\ touched' = [touched EXCEPT ![i] = {}]
                 \/ SessionFails /\ UNCHANGED <<sidecar, touched>>
           \/ /\ SessionFails
              /\ UNCHANGED <<sidecar, session, touched>>
        /\ UNCHANGED <<names, handle, blob, remote, drain, counts, stops>>

\* The sidecar of an earlier attempt is taken up when name and size agree, else
\* upload_create begins a session and its sidecar is saved.
SessionBegin ==
    LET i == fuse.ino
        p == sidecar[i]
    IN  /\ fuse.pc = "session"
        /\ \/ /\ p # NoSidecar /\ p.total = fuse.total
              /\ fuse' = [fuse EXCEPT !.pc = "send", !.id = p.id, !.offset = p.acked]
              /\ UNCHANGED <<sidecar, session, touched>>
           \/ /\ p = NoSidecar \/ p.total # fuse.total
              /\ Len(session) < MaxSessions
              /\ session' = Append(session, [cells |-> <<>>, live |-> TRUE])
              /\ \/ /\ Save(i, Len(session'), fuse.total, 0)
                    /\ fuse' = [fuse EXCEPT !.pc = "send", !.id = Len(session'), !.offset = 0]
                    /\ touched' = [touched EXCEPT ![i] = {}]
                 \/ SessionFails /\ UNCHANGED <<sidecar, touched>>
           \/ /\ p = NoSidecar \/ p.total # fuse.total
              /\ PermanentError
              /\ UNCHANGED <<session, touched>>
           \/ /\ SessionFails
              /\ UNCHANGED <<sidecar, session, touched>>
        /\ UNCHANGED <<names, handle, blob, remote, drain, counts, stops>>

\* The server stores the chunk of an offset.
upload_write(cells, off, v) == write_blob_at(cells, off, 1, v)

\* Mutant: the reader is not moved to the offset.
MutNoSeek(i) == blob[i][1]

\* The chunk at the offset, after the seek or the reads before it.
ReadChunk(i) == blob[i][fuse.offset + 1]

\* The server forgets a session, or its content once it is saved.
Ended == [cells |-> <<>>, live |-> FALSE]
Refused == PermanentError /\ session' \in {session, [session EXCEPT ![fuse.id] = Ended]}

\* One upload_write.  A transient answer is tried again up to ChunkRetries times;
\* a transport error is not, and may come after the server has the chunk.
SendChunk ==
    LET i == fuse.ino
        stored == /\ session[fuse.id].live
                  /\ session' = [session EXCEPT ![fuse.id].cells =
                                    upload_write(@, fuse.offset, ReadChunk(i))]
                  /\ touched' = [touched EXCEPT ![i] = @ \ {fuse.offset + 1}]
    IN  /\ fuse.pc = "send" /\ fuse.offset < fuse.total
        /\ \/ /\ stored
              /\ fuse' = [fuse EXCEPT !.pc = "record", !.attempt = 0]
              /\ UNCHANGED sidecar
           \/ /\ fuse.attempt < ChunkRetries
              /\ fuse' = [fuse EXCEPT !.attempt = @ + 1]
              /\ UNCHANGED <<session, sidecar, touched>>
           \/ stored /\ SessionFails /\ UNCHANGED sidecar
           \/ SessionFails /\ UNCHANGED <<session, sidecar, touched>>
           \/ Refused /\ UNCHANGED touched
        /\ UNCHANGED <<names, handle, blob, remote, drain, counts, stops>>

\* ChunkAck in the journal, then the sidecar; either may fail.
RecordChunk ==
    /\ fuse.pc = "record"
    /\ \/ /\ Save(fuse.ino, fuse.id, fuse.total, fuse.offset + 1)
          /\ fuse' = [fuse EXCEPT !.pc = "send", !.offset = @ + 1]
       \/ SessionFails /\ UNCHANGED sidecar
    /\ UNCHANGED <<names, handle, blob, server, drain, counts, stops, touched>>

\* upload_save puts the session's content under the path and ends the session.
SaveUpload ==
    LET i == fuse.ino
        saved == /\ session[fuse.id].live
                 /\ remote' = [remote EXCEPT ![handle[i].path] = session[fuse.id].cells]
                 /\ session' = [session EXCEPT ![fuse.id] = Ended]
    IN  /\ fuse.pc = "send" /\ fuse.offset >= fuse.total
        /\ \/ saved /\ fuse' = [fuse EXCEPT !.pc = "saved"] /\ UNCHANGED sidecar
           \/ saved /\ SessionFails /\ UNCHANGED sidecar
           \/ SessionFails /\ UNCHANGED <<server, sidecar>>
           \/ Refused /\ UNCHANGED remote
        /\ UNCHANGED <<names, handle, blob, drain, counts, stops, touched>>

\* The sidecar is removed, best effort, and the bytes are clean.
EndChunkedFlush ==
    LET i == fuse.ino
    IN  /\ fuse.pc = "saved"
        /\ \/ sidecar' = [sidecar EXCEPT ![i] = NoSidecar]
           \/ UNCHANGED sidecar
        /\ ResetDirty(i)
        /\ fuse' = Idle
        /\ UNCHANGED <<names, blob, server, drain, counts, stops, touched>>

-----------------------------------------------------------------------------
(* drain_all, on the thread of the unmount or of the shutdown.             *)

DrainStart ==
    /\ drain.pc = "idle" /\ drains < MaxDrains
    /\ drains' = drains + 1
    /\ \E i \in Inos : handle[i].dirty > 0
    /\ drain' = [NotDraining EXCEPT !.pc = "next", !.todo = {i \in Inos : handle[i].dirty > 0}]
    /\ UNCHANGED <<names, handle, disk, server, fuse, calls, stops, touched>>

\* get_handle and the path, under the lock of the handle.
DrainPick(i) ==
    /\ drain.pc = "next" /\ i \in drain.todo
    /\ drain' = IF handle[i] = NoHandle THEN [drain EXCEPT !.todo = @ \ {i}]
                ELSE [drain EXCEPT !.pc = "read", !.todo = @ \ {i}, !.ino = i,
                                   !.path = handle[i].path]
    /\ UNCHANGED <<names, handle, disk, server, fuse, counts, stops, touched>>

DrainNext == [NotDraining EXCEPT !.pc = "next", !.todo = drain.todo]

\* upload_file reads the whole blob, then sends it.
DrainRead ==
    /\ drain.pc = "read"
    /\ \/ Uploadable(drain.ino) /\ drain' = [drain EXCEPT !.pc = "send", !.data = blob[drain.ino]]
       \/ drain' = DrainNext
    /\ UNCHANGED <<names, handle, disk, server, fuse, counts, stops, touched>>

DrainLand ==
    /\ drain.pc = "send"
    /\ \/ /\ remote' = [remote EXCEPT ![drain.path] = drain.data]
          /\ drain' \in {[drain EXCEPT !.pc = "reset"], DrainNext}
       \/ drain' = DrainNext /\ UNCHANGED remote
    /\ UNCHANGED <<names, handle, disk, session, fuse, counts, stops, touched>>

\* The handle that was picked, which the map may have lost meanwhile.
DrainReset ==
    /\ drain.pc = "reset"
    /\ \/ drain.orphan = NoHandle /\ ResetDirty(drain.ino)
       \/ drain.orphan # NoHandle /\ UNCHANGED handle
    /\ drain' = DrainNext
    /\ UNCHANGED <<names, disk, server, fuse, counts, stops, touched>>

DrainEnd ==
    /\ drain.pc = "next" /\ drain.todo = {}
    /\ drain' = NotDraining
    /\ UNCHANGED <<names, handle, disk, server, fuse, counts, stops, touched>>
-----------------------------------------------------------------------------
\* Mutant: a server that is ahead is taken to have everything.
MutTrimToTotal(p) ==
    {p, NoSidecar} \cup
    IF p # NoSidecar /\ session[p.id].live
    THEN {[p EXCEPT !.acked = IF Len(session[p.id].cells) > @ THEN p.total ELSE @]} ELSE {}

\* replay_upload_sidecars for one sidecar: a session that the server has forgotten,
\* or that did not move for the heartbeat timeout, is given up; otherwise the
\* sidecar takes the server's count.  It stays when the server cannot be asked.
replay_upload_sidecar(p) ==
    {p, NoSidecar} \cup
    IF p # NoSidecar /\ session[p.id].live
    THEN {[p EXCEPT !.acked = Min2(Len(session[p.id].cells), p.total)]} ELSE {}

\* The mount ends, by a crash or by an unmount after its drain, and the next one
\* begins.  The journal is replayed into a log line.
Remount ==
    /\ stops < MaxStops
    /\ stops' = stops + 1
    /\ dentry' = [p \in Paths |-> 0]
    /\ ipath' = [i \in Inos |-> NoPath]
    /\ fds' = [i \in Inos |-> 0] /\ closing' = [i \in Inos |-> 0]
    /\ handle' = [i \in Inos |-> NoHandle]
    /\ sidecar' \in [Inos -> UNION {replay_upload_sidecar(sidecar[i]) : i \in Inos}]
    /\ \A i \in Inos : sidecar'[i] \in replay_upload_sidecar(sidecar[i])
    /\ fuse' = Idle /\ drain' = NotDraining
    /\ UNCHANGED <<blob, server, counts, touched>>

KernelCall ==
    \/ \E p \in Paths, i \in Inos :
          (\E trunc \in BOOLEAN : Open(p, i, trunc)) \/ create(p, i)
    \/ \E i \in Inos :
          \/ \E off \in 0..(MaxStaging - 1), len \in WriteSizes : WriteStage(i, off, len)
          \/ \E close \in BOOLEAN : flush(i, close)
          \/ \E size \in 0..MaxBlob : truncate(i, size)
          \/ release(i)
    \/ \E p \in Paths : unlink(p)
    \/ \E p, q \in Paths : rename(p, q)

\* What the serving thread does on its own once a call has begun.
FuseStep ==
    WriteAck \/ WriteFlush \/ SessionBegin \/ SendChunk \/ RecordChunk \/ SaveUpload
    \/ EndChunkedFlush

DrainStep ==
    \/ \E i \in Inos : DrainPick(i)
    \/ DrainRead \/ DrainLand \/ DrainReset \/ DrainEnd

Environment ==
    \/ DrainStart
    \/ Remount

Next == KernelCall \/ FuseStep \/ DrainStep \/ Environment

Spec == Init /\ [][Next]_vars

\* The serving thread runs, and every call to the server returns, by its timeout.
FairSpec == Spec /\ WF_vars(FuseStep)
-----------------------------------------------------------------------------
Contents == UNION {[1..n -> 0..MaxCalls] : n \in 0..MaxBlob}

TypeOK ==
    /\ dentry \in [Paths -> 0..MaxIno]
    /\ ipath \in [Inos -> Paths \cup {NoPath, Gone}]
    /\ fds \in [Inos -> 0..MaxFds] /\ closing \in [Inos -> 0..MaxFds]
    /\ handle \in [Inos -> {NoHandle} \cup [path : Paths, dirty : 0..(MaxCalls * MaxStaging)]]
    /\ blob \in [Inos -> Contents \cup {NoBlob}]
    /\ sidecar \in [Inos -> [id : 0..MaxSessions, total : 0..MaxBlob, acked : 0..MaxBlob]]
    /\ session \in Seq([cells : Contents, live : BOOLEAN]) /\ Len(session) <= MaxSessions
    /\ remote \in [Paths -> Contents \cup {NoFile}]
    /\ fuse \in [pc : {"idle", "ack", "flush", "session", "send", "record", "saved"},
                 ino : 0..MaxIno, dirty : 0..(MaxCalls * MaxStaging), total : 0..MaxBlob,
                 id : 0..MaxSessions, offset : 0..MaxBlob, attempt : 0..ChunkRetries,
                 restarts : 0..1]
    /\ drain \in [pc : {"idle", "next", "read", "send", "reset"}, todo : SUBSET Inos,
                  ino : 0..MaxIno, path : Paths \cup {NoPath}, data : Contents,
                  orphan : {NoHandle} \cup [path : Paths, dirty : 0..(MaxCalls * MaxStaging)]]
    /\ calls \in 0..MaxCalls /\ drains \in 0..MaxDrains /\ stops \in 0..MaxStops
    /\ touched \in [Inos -> SUBSET (1..MaxBlob)]

\* What a sidecar says the server acknowledged, a live session holds: no chunk is
\* skipped when the upload is taken up again, in this mount or the next.
AckedChunksAreOnServer ==
    \A i \in Inos :
        sidecar[i] # NoSidecar /\ session[sidecar[i].id].live
            => sidecar[i].acked <= Len(session[sidecar[i].id].cells)

\* A step in which upload_save takes effect, its answer lost or not.
Saves ==
    /\ fuse.pc = "send" /\ fuse' # fuse
    /\ fuse'.pc = "saved" \/ remote' # remote

\* upload_save never publishes a file shorter or longer than the staged one.
SavedFileIsWhole ==
    [][Saves
            => Len(remote'[handle[fuse.ino].path]) = Len(blob[fuse.ino])]_vars

\* What upload_save publishes differs from the blob only in chunks that were
\* rewritten after the server had them, however often the upload was interrupted,
\* retried, resumed or begun again.
UntouchedChunksAreExact ==
    [][Saves => \A k \in 1..Len(blob[fuse.ino]) :
            k \notin touched[fuse.ino] => remote'[handle[fuse.ino].path][k] = blob[fuse.ino][k]]_vars

\* Every call of the kernel is answered, whatever the server answers.
KernelCallReturns == fuse.pc # "idle" ~> fuse.pc = "idle"

\* The comment at the removal of the sidecar: a stale one is harmless.
SavedUploadIsTheBlob ==
    [][Saves
            => remote'[handle[fuse.ino].path] = blob[fuse.ino]]_vars
=============================================================================
