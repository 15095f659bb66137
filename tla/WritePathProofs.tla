--------------------------- MODULE WritePathProofs ---------------------------
(***************************************************************************)
(* The chunked upload of the FUSE write path for every number of inodes,   *)
(* calls, drains, sessions and mounts, and every size of a file.           *)
(***************************************************************************)
EXTENDS WritePath, TLAPS

-----------------------------------------------------------------------------
(* The inductive invariant. *)

\* The most bytes the bounds let a handle count as dirty, and the most that the
\* calls so far can have staged.
DirtyMax == MaxCalls * MaxStaging
Staged == calls * MaxStaging

\* The entries of the handle map, and the states of the two threads.
Handles == {NoHandle} \cup [path : Paths, dirty : 0..DirtyMax]

FuseStates ==
    [pc : {"idle", "ack", "flush", "session", "send", "record", "saved"},
     ino : 0..MaxIno, dirty : 0..DirtyMax, total : 0..MaxBlob, id : 0..MaxSessions,
     offset : 0..MaxBlob, attempt : 0..ChunkRetries, restarts : 0..1]

DrainStates ==
    [pc : {"idle", "next", "read", "send", "reset"}, todo : SUBSET Inos, ino : 0..MaxIno,
     path : Paths \cup {NoPath}, data : Contents, orphan : Handles]

\* TypeOK, in the parts that one action changes and another leaves alone.
NameTypes == dentry \in [Paths -> 0..MaxIno] /\ ipath \in [Inos -> Paths \cup {NoPath, Gone}]
FdTypes == fds \in [Inos -> 0..MaxFds] /\ closing \in [Inos -> 0..MaxFds]
HandleTypes == handle \in [Inos -> Handles]
BlobTypes ==
    /\ blob \in [Inos -> Contents \cup {NoBlob}]
    /\ touched \in [Inos -> SUBSET (1..MaxBlob)]
SidecarTypes ==
    sidecar \in [Inos -> [id : 0..MaxSessions, total : 0..MaxBlob, acked : 0..MaxBlob]]
SessionTypes == session \in Seq([cells : Contents, live : BOOLEAN]) /\ Len(session) <= MaxSessions
RemoteTypes == remote \in [Paths -> Contents \cup {NoFile}]
FuseTypes == fuse \in FuseStates
DrainTypes == drain \in DrainStates
CallTypes == calls \in 0..MaxCalls
CountTypes == drains \in 0..MaxDrains /\ stops \in 0..MaxStops

Types ==
    /\ NameTypes /\ FdTypes /\ HandleTypes /\ BlobTypes /\ SidecarTypes /\ SessionTypes
    /\ RemoteTypes /\ FuseTypes /\ DrainTypes /\ CallTypes /\ CountTypes

\* No more descriptors than the bound, the flushed ones included.
FdsBound == \A i \in Inos : fds[i] + closing[i] <= MaxFds

\* A dirty count is at most what the writes so far have staged.
DirtyBound ==
    /\ \A i \in Inos : handle[i].dirty <= Staged
    /\ fuse.dirty <= Staged

\* A handle in the map has its blob.
HandleHasBlob == \A i \in Inos : handle[i] # NoHandle => blob[i] # NoBlob

\* While the serving thread is in a call, the inode keeps its handle, and from
\* the barrier of chunked_flush on the blob keeps its size.
FuseHolds ==
    /\ fuse.pc # "idle" => fuse.ino \in Inos /\ handle[fuse.ino] # NoHandle
    /\ fuse.pc \in {"session", "send", "record", "saved"} => fuse.total = Len(blob[fuse.ino])

\* The drain works on an inode and a path it has picked.
DrainHolds == drain.pc \in {"read", "send", "reset"} => drain.ino \in Inos /\ drain.path \in Paths

\* What a sidecar says fits the session it names.
SidecarFits ==
    \A i \in Inos : sidecar[i] # NoSidecar =>
        /\ sidecar[i].id \in 1..Len(session)
        /\ sidecar[i].acked <= sidecar[i].total
        /\ Len(session[sidecar[i].id].cells) <= sidecar[i].total
        /\ session[sidecar[i].id].live => sidecar[i].acked <= Len(session[sidecar[i].id].cells)

\* No two sidecars name one session.
NoSharing ==
    \A i, j \in Inos : i # j /\ sidecar[i] # NoSidecar /\ sidecar[j] # NoSidecar
        => sidecar[i].id # sidecar[j].id

\* What a session holds is what the blob holds, but in touched chunks.
SessionsAreExact ==
    \A i \in Inos : sidecar[i] # NoSidecar =>
        \A k \in 1..Len(session[sidecar[i].id].cells) :
            k \notin touched[i] => k <= Len(blob[i]) /\ session[sidecar[i].id].cells[k] = blob[i][k]

\* The upload under way is the one the sidecar describes.
FuseAgrees ==
    /\ fuse.pc \in {"send", "record"} =>
            /\ fuse.id \in 1..Len(session)
            /\ sidecar[fuse.ino] = [id |-> fuse.id, total |-> fuse.total, acked |-> fuse.offset]
    /\ fuse.pc = "record" => /\ fuse.offset < fuse.total
                             /\ fuse.offset + 1 <= Len(session[fuse.id].cells)

\* The inductive invariant, in three parts: types and counts, what the two threads
\* hold on to, and the uploads.
TypeAndCounts == Types /\ FdsBound /\ DirtyBound
Holds == HandleHasBlob /\ FuseHolds /\ DrainHolds
Uploads == SidecarFits /\ NoSharing /\ SessionsAreExact
Inv == TypeAndCounts /\ Holds /\ Uploads /\ FuseAgrees

-----------------------------------------------------------------------------
(* Constants and contents. *)

\* The bounds are natural numbers.
LEMMA ConstantsAreNat ==
    /\ FlushThreshold \in Nat /\ ChunkRetries \in Nat
    /\ MaxStaging \in Nat /\ MaxBlob \in Nat /\ MaxStaging <= MaxBlob
    /\ WholeFileCeiling \in Nat /\ MaxIno \in Nat /\ MaxFds \in Nat /\ MaxCalls \in Nat
    /\ MaxDrains \in Nat /\ MaxSessions \in Nat /\ MaxStops \in Nat /\ WriteSizes \subseteq Nat
  BY WritePathAssumption

\* The two names that are no path.
LEMMA NotAPath == NoPath \notin Paths /\ Gone \notin Paths
  BY WritePathAssumption DEF NoPath, Gone

\* A content is a sequence of at most MaxBlob stamps.
LEMMA ContentFacts ==
    ASSUME NEW c \in Contents
    PROVE  /\ Len(c) \in 0..MaxBlob /\ Len(c) \in Nat
           /\ c \in [1..Len(c) -> 0..MaxCalls]
           /\ c \in Seq(0..MaxCalls)
<1>1. PICK n \in 0..MaxBlob : c \in [1..n -> 0..MaxCalls]
  BY DEF Contents
<1> QED  BY <1>1, ConstantsAreNat

\* A function on an initial segment is a content.
LEMMA ContentIntro ==
    ASSUME NEW n \in 0..MaxBlob, NEW c \in [1..n -> 0..MaxCalls]
    PROVE  c \in Contents /\ Len(c) = n
  BY ConstantsAreNat DEF Contents

\* The empty content.
LEMMA EmptyContent == <<>> \in Contents /\ Len(<<>>) = 0
<1>1. <<>> \in [1..0 -> 0..MaxCalls]  OBVIOUS
<1> QED  BY <1>1, ConstantsAreNat DEF Contents

\* No content is the mark of a missing blob or file.
LEMMA MarksApart ==
    /\ NoBlob \notin Contents /\ NoFile \notin Contents
    /\ NoBlob \in Seq(Int) /\ Len(NoBlob) = 1 /\ NoBlob[1] = -1
    /\ DOMAIN NoBlob = 1..1
<1>1. ASSUME NEW c \in Contents, Len(c) = 1  PROVE c[1] # -1
  BY <1>1, ContentFacts, ConstantsAreNat
<1> QED  BY <1>1 DEF NoBlob, NoFile

\* write_blob_at makes a content, as long as the write or the blob reaches.
LEMMA WriteFacts ==
    ASSUME NEW c \in Contents, NEW off \in Nat, NEW len \in Nat, off + len <= MaxBlob,
           NEW v \in 0..MaxCalls
    PROVE  /\ write_blob_at(c, off, len, v) \in Contents
           /\ Len(write_blob_at(c, off, len, v)) = Max2(off + len, Len(c))
           /\ \A k \in 1..Max2(off + len, Len(c)) :
                 write_blob_at(c, off, len, v)[k] =
                    IF k \in (off + 1)..(off + len) THEN v ELSE IF k <= Len(c) THEN c[k] ELSE 0
<1> DEFINE n == Max2(off + len, Len(c))
           w == write_blob_at(c, off, len, v)
<1>1. n \in 0..MaxBlob /\ Len(c) \in Nat
  BY ContentFacts, ConstantsAreNat DEF Max2
<1>2. w \in [1..n -> 0..MaxCalls]
  BY <1>1, ContentFacts, ConstantsAreNat DEF write_blob_at
<1> QED  BY <1>1, <1>2, ContentIntro DEF write_blob_at

\* A count of dirty bytes that fits the calls so far fits the bound on calls.
LEMMA DirtyFits ==
    ASSUME NEW n \in 0..MaxCalls
    PROVE  /\ n * MaxStaging \in Nat
           /\ n * MaxStaging <= MaxCalls * MaxStaging
           /\ (n + 1) * MaxStaging = n * MaxStaging + MaxStaging
<1>1. ASSUME NEW a \in Nat, NEW b \in Nat, NEW m \in Nat, a <= b
      PROVE  a * m \in Nat /\ a * m <= b * m /\ (a + 1) * m = a * m + m
  BY <1>1
<1> QED  BY <1>1, ConstantsAreNat

\* Types are the type invariant, and a state has them.
LEMMA TypesAreTypeOK == Types => TypeOK
  BY DEF Types, TypeOK, NameTypes, FdTypes, HandleTypes, BlobTypes, SidecarTypes, SessionTypes,
         RemoteTypes, FuseTypes, DrainTypes, CallTypes, CountTypes, Handles, FuseStates,
         DrainStates, DirtyMax

-----------------------------------------------------------------------------
(* What the steps do to types and counts. *)

\* Types of the parts of a state that the proofs use one by one.
LEMMA Parts ==
    ASSUME Types
    PROVE  /\ \A i \in Inos : blob[i] # NoBlob => blob[i] \in Contents
           /\ \A i \in Inos : /\ blob[i] \in Seq(Int) /\ Len(blob[i]) \in Nat
                              /\ DOMAIN blob[i] = 1..Len(blob[i])
           /\ \A i \in Inos : handle[i] # NoHandle => handle[i].path \in Paths
           /\ \A p \in Paths : remote[p] # NoFile => remote[p] \in Contents
           /\ \A n \in 1..Len(session) : session[n].cells \in Contents /\ session[n].live \in BOOLEAN
<1>1. ASSUME NEW i \in Inos
      PROVE  /\ blob[i] \in Seq(Int) /\ Len(blob[i]) \in Nat /\ DOMAIN blob[i] = 1..Len(blob[i])
  <2>1. CASE blob[i] \in Contents  BY <2>1, ContentFacts, ConstantsAreNat
  <2>2. CASE blob[i] = NoBlob  BY <2>2, MarksApart
  <2> QED  BY <2>1, <2>2 DEF Types, BlobTypes
<1>2. \A i \in Inos : handle[i] # NoHandle => handle[i].path \in Paths
  BY DEF Types, HandleTypes, Handles
<1>3. \A n \in 1..Len(session) : session[n] \in [cells : Contents, live : BOOLEAN]
  <2>1. session \in Seq([cells : Contents, live : BOOLEAN])  BY DEF Types, SessionTypes
  <2>2. ASSUME NEW S, NEW s \in Seq(S), NEW n \in 1..Len(s)  PROVE s[n] \in S
    OBVIOUS
  <2> QED  BY <2>1, <2>2, Zenon
<1> QED  BY <1>1, <1>2, <1>3 DEF Types, BlobTypes, RemoteTypes

\* A change of a blob keeps its type, and the agreement of blobs and sessions.
LEMMA SetBlobKeeps ==
    ASSUME Types, SidecarFits, SessionsAreExact, NEW i \in Inos,
           NEW content \in Contents \cup {NoBlob}, SetBlob(i, content), UNCHANGED <<sidecar, session>>
    PROVE  BlobTypes' /\ SessionsAreExact'
<1>1. blob' = [blob EXCEPT ![i] = content]  BY DEF SetBlob
<1>2. content \in Seq(Int) /\ Len(content) \in Nat /\ DOMAIN content = 1..Len(content)
  <2>1. CASE content \in Contents  BY <2>1, ContentFacts, ConstantsAreNat
  <2>2. CASE content = NoBlob  BY <2>2, MarksApart
  <2> QED  BY <2>1, <2>2
<1>3. blob' \in [Inos -> Contents \cup {NoBlob}]
  BY <1>1 DEF Types, BlobTypes
<1>4. ASSUME NEW j \in Inos, sidecar[j] # NoSidecar
      PROVE  /\ Len(session[sidecar[j].id].cells) \in 0..MaxBlob
  BY <1>4, Parts, ContentFacts DEF SidecarFits
<1>5. touched' \in [Inos -> SUBSET (1..MaxBlob)]
  <2> DEFINE new == IF sidecar[i] = NoSidecar THEN {}
                    ELSE touched[i] \cup (Differ(content, blob[i])
                                     \cap 1..Len(session[sidecar[i].id].cells))
  <2>1. touched \in [Inos -> SUBSET (1..MaxBlob)]  BY DEF Types, BlobTypes
  <2>2. new \in SUBSET (1..MaxBlob)
    <3>1. CASE sidecar[i] = NoSidecar  BY <3>1
    <3>2. CASE sidecar[i] # NoSidecar
      <4>1. 1..Len(session[sidecar[i].id].cells) \subseteq 1..MaxBlob
        BY <3>2, <1>4, ConstantsAreNat
      <4> QED  BY <4>1, <2>1, <3>2
    <3> QED  BY <3>1, <3>2
  <2>3. touched' = [touched EXCEPT ![i] = new]  BY <2>1 DEF SetBlob
  <2> HIDE DEF new
  <2> QED  BY <2>1, <2>2, <2>3
<1>6. ASSUME NEW j \in Inos, sidecar[j] # NoSidecar,
             NEW k \in 1..Len(session[sidecar[j].id].cells), k \notin touched'[j]
      PROVE  k <= Len(blob'[j]) /\ session[sidecar[j].id].cells[k] = blob'[j][k]
  <2>1. CASE j # i
    <3>1. touched'[j] = touched[j] /\ blob'[j] = blob[j]
      BY <2>1, <1>1 DEF SetBlob, Types, BlobTypes
    <3> QED  BY <3>1, <1>6 DEF SessionsAreExact
  <2>2. CASE j = i
    <3>1. touched'[j] = touched[j] \cup (Differ(content, blob[j])
                                     \cap 1..Len(session[sidecar[j].id].cells))
      BY <2>2, <1>6 DEF SetBlob, Types, BlobTypes
    <3>2. k \notin touched[j] /\ k \notin Differ(content, blob[j])
      BY <3>1, <1>6
    <3>3. k <= Len(blob[j]) /\ session[sidecar[j].id].cells[k] = blob[j][k]
      BY <3>2, <1>6 DEF SessionsAreExact
    <3>4. k <= Len(content) /\ content[k] = blob[j][k]
      BY <3>2, <3>3, <1>2, <1>4, <1>6, Parts DEF Differ, Max2
    <3> QED  BY <3>3, <3>4, <2>2, <1>1 DEF Types, BlobTypes
  <2> QED  BY <2>1, <2>2
<1> QED  BY <1>3, <1>5, <1>6 DEF SessionsAreExact, BlobTypes

\* A call of the kernel counts one call, and dirty counts stay within it.
LEMMA CallKeeps ==
    ASSUME CallTypes, Call
    PROVE  /\ fuse.pc = "idle" /\ CallTypes' /\ calls' \in 0..MaxCalls /\ drains' = drains
           /\ Staged' = Staged + MaxStaging
           /\ Staged \in Nat /\ Staged' \in Nat /\ Staged' <= DirtyMax
<1>1. calls' = calls + 1 /\ calls \in 0..MaxCalls /\ calls' \in 0..MaxCalls
  BY ConstantsAreNat DEF Call, CallTypes
<1> QED  BY <1>1, DirtyFits DEF Call, CallTypes, Staged, DirtyMax

\* What the calls so far have staged.
LEMMA StagedFits ==
    ASSUME CallTypes
    PROVE  Staged \in Nat /\ DirtyMax \in Nat /\ Staged <= DirtyMax
  BY DirtyFits, ConstantsAreNat DEF CallTypes, Staged, DirtyMax

\* The members of Handles.
LEMMA HandleFacts ==
    /\ DirtyMax \in Nat
    /\ \A h \in Handles : h.dirty \in 0..DirtyMax
    /\ \A h \in Handles : h # NoHandle <=> h.path \in Paths
    /\ \A p \in Paths : [path |-> p, dirty |-> 0] \in Handles /\ [path |-> p, dirty |-> 0] # NoHandle
    /\ NoHandle \in Handles /\ NoHandle.dirty = 0
<1>1. DirtyMax \in Nat  BY ConstantsAreNat DEF DirtyMax
<1> QED  BY <1>1, NotAPath DEF Handles, NoHandle

\* What a writable open stages is a content.
LEMMA SeedFacts ==
    ASSUME Types, NEW i \in Inos, NEW trunc \in BOOLEAN, ipath'[i] \in Paths
    PROVE  SeedBytes(i, trunc) \subseteq Contents
  BY EmptyContent, Parts DEF SeedBytes

\* A handle that is set clean, and the one a drain may keep of it.
LEMMA SetHandleKeeps ==
    ASSUME Types, DirtyBound, DrainHolds, NEW i \in Inos,
           NEW h \in Handles, h.dirty = 0, SetHandle(i, h)
    PROVE  /\ handle' \in [Inos -> Handles]
           /\ DrainTypes' /\ DrainHolds'
           /\ \A j \in Inos : handle'[j].dirty <= Staged
<1> USE DEF Types
<1>1. Staged \in Nat  BY StagedFits
<1>2. handle \in [Inos -> Handles]  BY DEF HandleTypes
<1>3. handle' = [handle EXCEPT ![i] = h]  BY DEF SetHandle
<1>4. drain' = drain \/ drain' = [drain EXCEPT !.orphan = handle[i]]
  BY DEF SetHandle, Orphaned
<1>5. DrainTypes' /\ DrainHolds'
  BY <1>2, <1>4 DEF DrainTypes, DrainStates, DrainHolds
<1> QED  BY <1>1, <1>2, <1>3, <1>5 DEF DirtyBound

\* Clean bytes after an upload.
LEMMA ResetKeeps ==
    ASSUME HandleTypes, CallTypes, DirtyBound, NEW i \in Inos, ResetDirty(i)
    PROVE  /\ HandleTypes'
           /\ \A j \in Inos : handle'[j].dirty <= Staged
           /\ \A j \in Inos : handle'[j] # NoHandle <=> handle[j] # NoHandle
<1> DEFINE clean == [handle[i] EXCEPT !.dirty = 0]
<1>1. Staged \in Nat  BY StagedFits
<1>2. handle \in [Inos -> Handles]  BY DEF HandleTypes
<1>3. clean \in Handles /\ clean.dirty = 0 /\ (clean # NoHandle <=> handle[i] # NoHandle)
  <2>1. handle[i] \in Handles /\ DirtyMax \in Nat  BY <1>2, HandleFacts
  <2> QED  BY <2>1, NotAPath DEF Handles, NoHandle
<1>4. handle' = [handle EXCEPT ![i] = clean]
  BY DEF ResetDirty
<1> HIDE DEF clean
<1> QED  BY <1>1, <1>2, <1>3, <1>4 DEF DirtyBound, HandleTypes

\* A flush of the serving thread, whatever comes of it.
LEMMA FlushKeeps ==
    ASSUME Types, DirtyBound, NEW i \in Inos, handle[i] # NoHandle, FlushOk(i) \/ FlushFails(i)
    PROVE  /\ HandleTypes' /\ RemoteTypes'
           /\ \A j \in Inos : handle'[j].dirty <= Staged
           /\ \A j \in Inos : handle'[j] # NoHandle <=> handle[j] # NoHandle
<1>1. handle[i].path \in Paths  BY Parts
<1>2. RemoteTypes'
  BY <1>1, Parts DEF FlushOk, FlushFails, Uploadable, Types, RemoteTypes
<1>3. CASE ResetDirty(i)  BY <1>2, <1>3, ResetKeeps DEF Types
<1>4. CASE UNCHANGED handle
  BY <1>2, <1>4 DEF Types, HandleTypes, DirtyBound
<1> QED  BY <1>3, <1>4 DEF FlushOk, FlushFails

\* The calls of the kernel that open a file keep types and counts.
LEMMA OpenTypes ==
    ASSUME Inv, NEW p \in Paths, NEW i \in Inos,
           create(p, i) \/ \E trunc \in BOOLEAN : Open(p, i, trunc)
    PROVE  TypeAndCounts'
<1> USE ConstantsAreNat, NotAPath DEF Inv, TypeAndCounts, Holds, Uploads, Types
<1>1. NameTypes' /\ ipath'[i] \in Paths
  <2>1. ASSUME NEW trunc \in BOOLEAN, Open(p, i, trunc)  PROVE NameTypes' /\ ipath'[i] \in Paths
    BY <2>1 DEF Open, NameTypes, Inos
  <2>2. CASE create(p, i)  BY <2>2 DEF create, NameTypes, Inos
  <2> QED  BY <2>1, <2>2
<1>2. Call /\ SetHandle(i, [path |-> ipath'[i], dirty |-> 0])
      /\ UNCHANGED <<closing, sidecar, session, remote, fuse, stops>>
  BY DEF Open, create, server, NameTypes
<1>3. BlobTypes'
  <2>1. ASSUME NEW trunc \in BOOLEAN, Open(p, i, trunc)  PROVE BlobTypes'
    BY <1>1, <1>2, <2>1, SeedFacts, SetBlobKeeps DEF Open
  <2>2. CASE create(p, i)
    BY <1>2, <2>2, EmptyContent, SetBlobKeeps DEF create
  <2> QED  BY <2>1, <2>2
<1>4. FdTypes' /\ FdsBound'
  <2>1. /\ fds[i] + closing[i] < MaxFds /\ closing' = closing
        /\ fds' = [fds EXCEPT ![i] = fds[i] + 1]
    BY DEF Open, create
  <2> QED  BY <2>1 DEF FdTypes, FdsBound
<1>5. handle' \in [Inos -> Handles] /\ DrainTypes' /\ \A j \in Inos : handle'[j].dirty <= Staged
  BY <1>1, <1>2, HandleFacts, SetHandleKeeps
<1>6. HandleTypes'  BY <1>2, <1>5 DEF HandleTypes
<1>7. DirtyBound'
  BY <1>2, <1>5, CallKeeps, HandleFacts DEF DirtyBound, FuseTypes, FuseStates
<1>8. SidecarTypes' /\ SessionTypes' /\ RemoteTypes' /\ FuseTypes' /\ CountTypes'
  BY <1>2, CallKeeps DEF SidecarTypes, SessionTypes, RemoteTypes, FuseTypes, CountTypes
<1> QED  BY <1>1, <1>2, <1>3, <1>4, <1>5, <1>6, <1>7, <1>8, CallKeeps DEF TypeAndCounts

\* A write keeps them.
LEMMA WriteTypes ==
    ASSUME Inv, NEW i \in Inos, NEW off \in 0..(MaxStaging - 1), NEW len \in WriteSizes,
           WriteStage(i, off, len)
    PROVE  TypeAndCounts'
<1> USE ConstantsAreNat DEF Inv, TypeAndCounts, Holds, Uploads, Types
<1>1. /\ Call /\ handle[i] # NoHandle /\ off \in Nat /\ len \in Nat
      /\ UNCHANGED <<names, handle, sidecar, session, remote, drain, stops>>
  BY DEF WriteStage, server
<1>2. BlobTypes'
  <2>1. CASE off + len <= MaxStaging /\ SetBlob(i, write_blob_at(blob[i], off, len, calls'))
    <3>1. blob[i] \in Contents /\ calls' \in 0..MaxCalls
      BY <1>1, Parts, CallKeeps DEF HandleHasBlob
    <3>2. write_blob_at(blob[i], off, len, calls') \in Contents
      <4>1. off + len <= MaxBlob  BY <1>1, <2>1, ConstantsAreNat
      <4> QED  BY <1>1, <3>1, <4>1, WriteFacts
    <3> QED  BY <1>1, <2>1, <3>2, SetBlobKeeps
  <2>2. CASE UNCHANGED <<blob, touched>>  BY <2>2 DEF BlobTypes
  <2> QED  BY <2>1, <2>2 DEF WriteStage
<1>3. HandleTypes'  BY <1>1 DEF WriteStage, HandleTypes
<1>4. /\ off + len <= MaxStaging =>
            handle[i].dirty + len \in 0..DirtyMax /\ handle[i].dirty + len <= Staged'
      /\ \A j \in Inos : handle[j].dirty <= Staged'
  BY <1>1, CallKeeps, HandleFacts DEF HandleTypes, DirtyBound
<1>5. FuseTypes' /\ fuse'.dirty <= Staged'
  <2>1. CASE /\ off + len <= MaxStaging
             /\ fuse' = [Idle EXCEPT !.pc = "ack", !.ino = i, !.dirty = handle[i].dirty + len]
    <3>1. fuse' = [pc |-> "ack", ino |-> i, dirty |-> handle[i].dirty + len, total |-> 0, id |-> 0,
                   offset |-> 0, attempt |-> 0, restarts |-> 0]
      BY <2>1 DEF Idle
    <3>2. i \in 0..MaxIno  BY DEF Inos
    <3>3. handle[i].dirty + len \in 0..DirtyMax /\ handle[i].dirty + len <= Staged'
      BY <1>4, <2>1
    <3> QED  BY <3>1, <3>2, <3>3 DEF FuseTypes, FuseStates
  <2>2. CASE fuse' = fuse
    BY <2>2, <1>1, CallKeeps, HandleFacts DEF FuseTypes, FuseStates, DirtyBound
  <2> QED  BY <2>1, <2>2 DEF WriteStage
<1>6. NameTypes' /\ FdTypes' /\ FdsBound'
  BY <1>1 DEF names, NameTypes, FdTypes, FdsBound
<1>7. SidecarTypes' /\ SessionTypes' /\ RemoteTypes' /\ DrainTypes' /\ CountTypes'
  BY <1>1, CallKeeps DEF SidecarTypes, SessionTypes, RemoteTypes, DrainTypes, CountTypes
<1>8. DirtyBound'  BY <1>1, <1>4, <1>5 DEF DirtyBound
<1> QED  BY <1>1, <1>2, <1>3, <1>5, <1>6, <1>7, <1>8, CallKeeps DEF TypeAndCounts

\* Dirty counts that no call raises stay within the calls so far.
LEMMA DirtyStays ==
    ASSUME Inv, Call, UNCHANGED fuse, handle' \in [Inos -> Handles],
           \A j \in Inos : handle'[j].dirty <= Staged
    PROVE  DirtyBound'
  BY ConstantsAreNat, CallKeeps, HandleFacts DEF Inv, TypeAndCounts, Types, DirtyBound, FuseTypes,
     FuseStates

\* Every call of the kernel keeps them.
LEMMA KernelTypes == Inv /\ KernelCall => TypeAndCounts'
<1> SUFFICES ASSUME Inv, KernelCall  PROVE TypeAndCounts'
  OBVIOUS
<1> USE ConstantsAreNat, NotAPath DEF Inv, TypeAndCounts, Holds, Uploads, Types
<1>1. ASSUME NEW p \in Paths, NEW i \in Inos,
             create(p, i) \/ \E trunc \in BOOLEAN : Open(p, i, trunc)
      PROVE  TypeAndCounts'
  BY <1>1, OpenTypes
<1>2. ASSUME NEW i \in Inos, NEW off \in 0..(MaxStaging - 1), NEW len \in WriteSizes,
             WriteStage(i, off, len)
      PROVE  TypeAndCounts'
  BY <1>2, WriteTypes
<1>3. ASSUME NEW i \in Inos, NEW close \in BOOLEAN, flush(i, close)
      PROVE  TypeAndCounts'
  <2>1. Call /\ UNCHANGED <<dentry, ipath, disk, session, fuse, drain, stops, touched>>
    BY <1>3 DEF flush
  <2>2. HandleTypes' /\ RemoteTypes' /\ \A j \in Inos : handle'[j].dirty <= Staged
    <3>1. CASE handle[i] # NoHandle /\ (FlushOk(i) \/ FlushFails(i))
      BY <3>1, FlushKeeps
    <3>2. CASE UNCHANGED <<handle, remote>>
      BY <3>2 DEF HandleTypes, RemoteTypes, DirtyBound
    <3> QED  BY <1>3, <3>1, <3>2 DEF flush
  <2>3. FdTypes' /\ FdsBound'
    BY <1>3 DEF flush, FdTypes, FdsBound
  <2>4. DirtyBound'  BY <2>1, <2>2, DirtyStays DEF HandleTypes
  <2>5. NameTypes' /\ BlobTypes' /\ SidecarTypes' /\ SessionTypes' /\ FuseTypes' /\ DrainTypes' /\ CountTypes'
    BY <2>1, CallKeeps DEF NameTypes, BlobTypes, SidecarTypes, SessionTypes, FuseTypes, DrainTypes,
       CountTypes, disk
  <2> QED  BY <2>1, <2>2, <2>3, <2>4, <2>5, CallKeeps DEF TypeAndCounts
<1>4. ASSUME NEW i \in Inos, NEW size \in 0..MaxBlob, truncate(i, size)
      PROVE  TypeAndCounts'
  <2>1. Call /\ UNCHANGED <<names, handle, sidecar, session, remote, fuse, drain, stops>>
    BY <1>4 DEF truncate, server
  <2>2. BlobTypes'
    <3>1. blob[i] \in Contents
      BY <1>4, Parts DEF truncate, HandleHasBlob
    <3> DEFINE c == [k \in 1..size |-> IF k <= Len(blob[i]) THEN blob[i][k] ELSE 0]
    <3>2. c \in [1..size -> 0..MaxCalls]  BY <3>1, ContentFacts, ConstantsAreNat
    <3>3. SetBlob(i, c)  BY <1>4 DEF truncate
    <3> HIDE DEF c
    <3>4. c \in Contents  BY <3>2, ContentIntro
    <3> QED  BY <3>3, <3>4, <2>1, SetBlobKeeps
  <2>3. DirtyBound'  BY <2>1, DirtyStays DEF HandleTypes, DirtyBound
  <2>4. NameTypes' /\ FdTypes' /\ FdsBound' /\ HandleTypes'
    BY <2>1 DEF names, NameTypes, FdTypes, FdsBound, HandleTypes
  <2>5. SidecarTypes' /\ SessionTypes' /\ RemoteTypes' /\ FuseTypes' /\ DrainTypes' /\ CountTypes'
    BY <2>1, CallKeeps DEF SidecarTypes, SessionTypes, RemoteTypes, FuseTypes, DrainTypes,
       CountTypes
  <2> QED  BY <2>1, <2>2, <2>3, <2>4, <2>5, CallKeeps DEF TypeAndCounts
<1>5. ASSUME NEW i \in Inos, release(i)
      PROVE  TypeAndCounts'
  <2>1. SetHandle(i, NoHandle) /\ UNCHANGED <<dentry, ipath, fds, disk, server, fuse, counts, stops, touched>>
    BY <1>5 DEF release
  <2>2. FdTypes' /\ FdsBound'
    BY <1>5 DEF release, FdTypes, FdsBound
  <2>3. handle' \in [Inos -> Handles] /\ DrainTypes' /\ \A j \in Inos : handle'[j].dirty <= Staged
    BY <2>1, HandleFacts, SetHandleKeeps
  <2>5. HandleTypes'  BY <2>3 DEF HandleTypes
  <2>6. DirtyBound'  BY <2>1, <2>3 DEF DirtyBound, counts, Staged
  <2>7. NameTypes' /\ BlobTypes' /\ SidecarTypes' /\ SessionTypes' /\ RemoteTypes' /\ FuseTypes' /\ CallTypes' /\ CountTypes'
    BY <2>1 DEF NameTypes, BlobTypes, SidecarTypes, SessionTypes, RemoteTypes, FuseTypes,
       CallTypes, CountTypes, disk, server, counts
  <2> QED  BY <2>2, <2>3, <2>5, <2>6, <2>7 DEF TypeAndCounts
<1>6. ASSUME NEW p \in Paths, unlink(p)
      PROVE  TypeAndCounts'
  <2> DEFINE Good == /\ BlobTypes' /\ handle' \in [Inos -> Handles] /\ DrainTypes'
                     /\ \A j \in Inos : handle'[j].dirty <= Staged
  <2>1. Call /\ UNCHANGED <<fds, closing, sidecar, session, fuse, stops>>
    BY <1>6 DEF unlink
  <2>2. ASSUME NEW i \in Inos, SetBlob(i, NoBlob), SetHandle(i, NoHandle)
        PROVE  Good
    BY <2>1, <2>2, SetBlobKeeps, SetHandleKeeps, HandleFacts
  <2>3. ASSUME UNCHANGED <<blob, touched, handle, drain>>
        PROVE  Good
    BY <2>3 DEF BlobTypes, HandleTypes, DrainTypes, DirtyBound
  <2>4. Good  BY <1>6, <2>2, <2>3 DEF unlink
  <2>5. RemoteTypes' /\ NameTypes'
    BY <1>6 DEF unlink, RemoteTypes, NameTypes
  <2>6. DirtyBound'  BY <2>1, <2>4, DirtyStays
  <2>7. FdTypes' /\ FdsBound' /\ HandleTypes' /\ SidecarTypes' /\ SessionTypes' /\ FuseTypes' /\ CountTypes'
    BY <2>1, <2>4, CallKeeps DEF FdTypes, FdsBound, HandleTypes, SidecarTypes, SessionTypes,
       FuseTypes, CountTypes
  <2> QED  BY <2>1, <2>4, <2>5, <2>6, <2>7, CallKeeps DEF TypeAndCounts
<1>7. ASSUME NEW p \in Paths, NEW q \in Paths, rename(p, q)
      PROVE  TypeAndCounts'
  <2>1. Call /\ UNCHANGED <<ipath, fds, closing, disk, session, fuse, drain, stops, touched>>
    BY <1>7 DEF rename
  <2>2. RemoteTypes' /\ NameTypes'
    BY <1>7 DEF rename, RemoteTypes, NameTypes
  <2>3. handle' \in [Inos -> Handles] /\ \A j \in Inos : handle'[j].dirty = handle[j].dirty
    <3>1. ASSUME NEW j \in Inos  PROVE handle'[j] \in Handles /\ handle'[j].dirty = handle[j].dirty
      BY <1>7 DEF rename, HandleTypes, Handles, NoHandle
    <3> QED  BY <1>7, <3>1 DEF rename
  <2>4. DirtyBound'  BY <2>1, <2>3, DirtyStays DEF DirtyBound
  <2>5. /\ FdTypes' /\ FdsBound' /\ HandleTypes' /\ BlobTypes' /\ SidecarTypes' /\ SessionTypes'
        /\ FuseTypes' /\ DrainTypes' /\ CountTypes'
    BY <2>1, <2>3, CallKeeps
    DEF FdTypes, FdsBound, HandleTypes, BlobTypes, SidecarTypes, SessionTypes, FuseTypes,
        DrainTypes, CountTypes, disk
  <2> QED  BY <2>1, <2>2, <2>4, <2>5, CallKeeps DEF TypeAndCounts
<1> QED
  BY <1>1, <1>2, <1>3, <1>4, <1>5, <1>6, <1>7 DEF KernelCall

-----------------------------------------------------------------------------
(* Sessions and sidecars. *)

\* One element of a sequence is replaced.
LEMMA SeqUpdate ==
    ASSUME NEW S, NEW s \in Seq(S), NEW e \in S, NEW n \in 1..Len(s)
    PROVE  /\ [s EXCEPT ![n] = e] \in Seq(S) /\ Len([s EXCEPT ![n] = e]) = Len(s)
           /\ \A m \in 1..Len(s) : [s EXCEPT ![n] = e][m] = IF m = n THEN e ELSE s[m]
  OBVIOUS

\* The state of the idle thread.
LEMMA IdleFacts == Idle \in FuseStates /\ Idle.pc = "idle" /\ Idle.dirty = 0
  BY ConstantsAreNat, HandleFacts DEF Idle, FuseStates

\* A sidecar that is there has a session; the fields of a sidecar.
LEMMA SidecarFacts ==
    ASSUME Types, SidecarFits, NEW i \in Inos, sidecar[i] # NoSidecar
    PROVE  /\ sidecar[i] = [id |-> sidecar[i].id, total |-> sidecar[i].total, acked |-> sidecar[i].acked]
           /\ sidecar[i].id \in 1..Len(session) /\ sidecar[i].id \in 1..MaxSessions
           /\ sidecar[i].total \in 0..MaxBlob /\ sidecar[i].acked \in 0..MaxBlob
           /\ sidecar[i].acked <= sidecar[i].total
           /\ session[sidecar[i].id].cells \in Contents
           /\ Len(session[sidecar[i].id].cells) \in Nat
           /\ Len(session[sidecar[i].id].cells) <= sidecar[i].total
<1>1. sidecar[i] \in [id : 0..MaxSessions, total : 0..MaxBlob, acked : 0..MaxBlob]
  BY DEF Types, SidecarTypes
<1>2. Len(session) \in Nat /\ Len(session) <= MaxSessions
  BY DEF Types, SessionTypes
<1>3. session[sidecar[i].id].cells \in Contents
  BY Parts DEF SidecarFits
<1> QED  BY <1>1, <1>2, <1>3, ContentFacts, ConstantsAreNat DEF SidecarFits

\* Sessions may end and sidecars may go, or take another count the session holds.
LEMMA UploadsWeaken ==
    ASSUME Types, Uploads, UNCHANGED <<blob, touched>>,
           SidecarTypes', SessionTypes', Len(session') = Len(session),
           \A n \in 1..Len(session) : session'[n] = session[n] \/ session'[n] = Ended,
           \A i \in Inos : sidecar'[i] # NoSidecar =>
                /\ sidecar[i] # NoSidecar
                /\ sidecar'[i].id = sidecar[i].id /\ sidecar'[i].total = sidecar[i].total
                /\ sidecar'[i].acked <= sidecar[i].total
                /\ session[sidecar[i].id].live => sidecar'[i].acked <= Len(session[sidecar[i].id].cells)
    PROVE  Uploads'
<1> USE DEF Uploads
<1>1. Ended.cells = <<>> /\ ~Ended.live /\ Len(Ended.cells) = 0  BY DEF Ended
<1>2. ASSUME NEW i \in Inos, sidecar'[i] # NoSidecar
      PROVE  /\ sidecar'[i].id \in 1..Len(session')
             /\ sidecar'[i].acked <= sidecar'[i].total
             /\ Len(session'[sidecar'[i].id].cells) <= sidecar'[i].total
             /\ session'[sidecar'[i].id].live => sidecar'[i].acked <= Len(session'[sidecar'[i].id].cells)
  <2>1. session'[sidecar'[i].id] = session[sidecar[i].id] \/ session'[sidecar'[i].id] = Ended
    BY <1>2, SidecarFacts
  <2>2. sidecar'[i].acked <= sidecar'[i].total /\ sidecar'[i].id \in 1..Len(session')
    BY <1>2, SidecarFacts
  <2>3. CASE session'[sidecar'[i].id] = Ended
    <3>1. ~session'[sidecar'[i].id].live /\ Len(session'[sidecar'[i].id].cells) = 0
      BY <2>3, <1>1
    <3>2. sidecar[i] # NoSidecar /\ sidecar'[i].total = sidecar[i].total
      BY <1>2
    <3>3. sidecar[i].total \in 0..MaxBlob
      BY <3>2, SidecarFacts
    <3> QED  BY <2>2, <3>1, <3>2, <3>3, ConstantsAreNat
  <2>4. CASE session'[sidecar'[i].id] = session[sidecar[i].id]
    BY <2>2, <2>4, <1>2, SidecarFacts
  <2> QED  BY <2>1, <2>3, <2>4
<1>3. SidecarFits'  BY <1>2 DEF SidecarFits
<1>4. NoSharing'  BY DEF NoSharing
<1>5. SessionsAreExact'
  <2> SUFFICES ASSUME NEW i \in Inos, sidecar'[i] # NoSidecar,
                      NEW k \in 1..Len(session'[sidecar'[i].id].cells), k \notin touched'[i]
               PROVE  k <= Len(blob'[i]) /\ session'[sidecar'[i].id].cells[k] = blob'[i][k]
    BY DEF SessionsAreExact
  <2>1. session'[sidecar'[i].id] = session[sidecar[i].id] \/ session'[sidecar'[i].id] = Ended
    BY SidecarFacts
  <2>2. CASE session'[sidecar'[i].id] = Ended  BY <2>2, <1>1
  <2>3. CASE session'[sidecar'[i].id] = session[sidecar[i].id]
    BY <2>3 DEF SessionsAreExact
  <2> QED  BY <2>1, <2>2, <2>3
<1> QED  BY <1>3, <1>4, <1>5

\* A sidecar may go while the sessions stay or one of them ends.
LEMMA SidecarMayGo ==
    ASSUME Types, Uploads, UNCHANGED <<blob, touched>>,
           NEW i \in Inos, sidecar' \in {sidecar, [sidecar EXCEPT ![i] = NoSidecar]},
           \/ session' = session
           \/ \E n \in 1..Len(session) : session' = [session EXCEPT ![n] = Ended]
    PROVE  SidecarTypes' /\ SessionTypes' /\ Len(session') = Len(session) /\ Uploads'
<1>1. Ended \in [cells : Contents, live : BOOLEAN]
  BY EmptyContent DEF Ended
<1> DEFINE Kept == /\ SessionTypes' /\ Len(session') = Len(session)
                   /\ \A n \in 1..Len(session) : session'[n] = session[n] \/ session'[n] = Ended
<1>3. Kept
  <2>1. session \in Seq([cells : Contents, live : BOOLEAN])  BY DEF Types, SessionTypes
  <2>2. CASE session' = session  BY <2>2 DEF Types, SessionTypes
  <2>3. ASSUME NEW n \in 1..Len(session), session' = [session EXCEPT ![n] = Ended]
        PROVE  Kept
    <3> DEFINE R == [cells : Contents, live : BOOLEAN]
    <3> HIDE DEF R
    <3>1. session \in Seq(R) /\ Ended \in R  BY <2>1, <1>1 DEF R
    <3>2. session' \in Seq(R) /\ Len(session') = Len(session)
          /\ \A m \in 1..Len(session) : session'[m] = session[m] \/ session'[m] = Ended
      BY <3>1, <2>3, SeqUpdate
    <3> QED  BY <3>2 DEF R, Types, SessionTypes
  <2> QED  BY <2>2, <2>3
<1>4. SidecarTypes'
  <2>1. NoSidecar \in [id : 0..MaxSessions, total : 0..MaxBlob, acked : 0..MaxBlob]
    BY ConstantsAreNat DEF NoSidecar
  <2> QED  BY <2>1 DEF Types, SidecarTypes
<1>5. ASSUME NEW j \in Inos, sidecar'[j] # NoSidecar
      PROVE  /\ sidecar[j] # NoSidecar /\ sidecar'[j] = sidecar[j]
  BY <1>5 DEF Types, SidecarTypes
<1>6. Uploads'
  <2>1. ASSUME NEW j \in Inos, sidecar'[j] # NoSidecar
        PROVE  /\ sidecar[j] # NoSidecar
               /\ sidecar'[j].id = sidecar[j].id /\ sidecar'[j].total = sidecar[j].total
               /\ sidecar'[j].acked <= sidecar[j].total
               /\ session[sidecar[j].id].live => sidecar'[j].acked <= Len(session[sidecar[j].id].cells)
    BY <2>1, <1>5 DEF Uploads, SidecarFits
  <2> QED  BY <2>1, <1>3, <1>4, UploadsWeaken
<1> QED  BY <1>3, <1>4, <1>6

-----------------------------------------------------------------------------
(* The steps of the serving thread. *)

\* The parts of the invariant that an upload leaves alone.
Frame ==
    UNCHANGED <<names, handle, blob, drain, counts, stops>>

\* A step of the upload that keeps its frame keeps the invariant when it keeps the
\* types of what it changes and what the thread holds.
LEMMA UploadStep ==
    ASSUME Inv, Frame, touched' \in [Inos -> SUBSET (1..MaxBlob)], SidecarTypes', SessionTypes',
           RemoteTypes', FuseTypes', fuse'.dirty <= Staged, FuseHolds', Uploads', FuseAgrees'
    PROVE  Inv'
<1> USE DEF Inv, TypeAndCounts, Holds, Types
<1>1. NameTypes' /\ FdTypes' /\ FdsBound' /\ HandleTypes' /\ BlobTypes'
  BY DEF Frame, names, NameTypes, FdTypes, FdsBound, HandleTypes, BlobTypes
<1>2. DrainTypes' /\ CallTypes' /\ CountTypes' /\ HandleHasBlob' /\ DrainHolds'
  BY DEF Frame, counts, DrainTypes, CallTypes, CountTypes, HandleHasBlob, DrainHolds
<1>3. DirtyBound'
  BY DEF Frame, counts, DirtyBound, Staged
<1> QED  BY <1>1, <1>2, <1>3

\* What the thread knows while an upload is under way.
LEMMA UploadFacts ==
    ASSUME Inv, fuse.pc \in {"session", "send", "record", "saved"}
    PROVE  /\ fuse.ino \in Inos /\ handle[fuse.ino] # NoHandle /\ handle[fuse.ino].path \in Paths
           /\ blob[fuse.ino] \in Contents
           /\ fuse.total = Len(blob[fuse.ino]) /\ fuse.total \in 0..MaxBlob
           /\ fuse \in FuseStates /\ fuse.dirty <= Staged /\ Staged \in Nat
<1> USE DEF Inv, TypeAndCounts, Holds, Types
<1>1. fuse.ino \in Inos /\ handle[fuse.ino] # NoHandle /\ fuse.total = Len(blob[fuse.ino])
  BY DEF FuseHolds
<1>2. blob[fuse.ino] \in Contents /\ handle[fuse.ino].path \in Paths
  BY <1>1, Parts DEF HandleHasBlob
<1> QED
  BY <1>1, <1>2, ContentFacts, StagedFits DEF FuseTypes, DirtyBound

\* The upload ends in an error, or begins again.
LEMMA UploadGivesUp ==
    ASSUME Inv, fuse.pc \in {"session", "send", "record", "saved"},
           Frame, UNCHANGED <<remote, touched>>,
           sidecar' \in {sidecar, [sidecar EXCEPT ![fuse.ino] = NoSidecar]},
           \/ session' = session
           \/ \E n \in 1..Len(session) : session' = [session EXCEPT ![n] = Ended],
           \/ fuse' = Idle
           \/ /\ fuse.restarts > 0
              /\ fuse' = [fuse EXCEPT !.pc = "session", !.restarts = @ - 1, !.id = 0, !.offset = 0,
                                      !.attempt = 0]
    PROVE  Inv'
<1> USE DEF Inv, TypeAndCounts, Holds, Types
<1>1. SidecarTypes' /\ SessionTypes' /\ Uploads'
  BY UploadFacts, SidecarMayGo DEF Frame
<1>2. FuseTypes' /\ fuse'.dirty <= Staged /\ fuse'.pc \notin {"send", "record", "saved"}
  <2>1. CASE fuse' = Idle  BY <2>1, IdleFacts, UploadFacts DEF FuseTypes
  <2>2. CASE /\ fuse.restarts > 0
             /\ fuse' = [fuse EXCEPT !.pc = "session", !.restarts = @ - 1, !.id = 0, !.offset = 0,
                                     !.attempt = 0]
    <3>1. fuse \in FuseStates /\ fuse.dirty <= Staged  BY UploadFacts
    <3>2. fuse.restarts - 1 \in 0..1  BY <2>2, <3>1 DEF FuseStates
    <3>3. fuse' = [pc |-> "session", ino |-> fuse.ino, dirty |-> fuse.dirty, total |-> fuse.total,
                   id |-> 0, offset |-> 0, attempt |-> 0, restarts |-> fuse.restarts - 1]
      BY <2>2, <3>1 DEF FuseStates
    <3>4. FuseTypes'  BY <3>1, <3>2, <3>3, ConstantsAreNat DEF FuseTypes, FuseStates
    <3> QED  BY <3>1, <3>3, <3>4
  <2> QED  BY <2>1, <2>2
<1>3. FuseHolds'
  <2>1. CASE fuse' = Idle  BY <2>1, IdleFacts DEF FuseHolds
  <2>2. CASE fuse'.pc = "session" /\ fuse'.ino = fuse.ino /\ fuse'.total = fuse.total
    BY <2>2, UploadFacts DEF FuseHolds, Frame
  <2> QED  BY <2>1, <2>2, UploadFacts DEF FuseStates
<1>4. FuseAgrees'  BY <1>2 DEF FuseAgrees
<1>5. RemoteTypes' /\ touched' \in [Inos -> SUBSET (1..MaxBlob)]
  BY DEF RemoteTypes, BlobTypes
<1> QED  BY <1>1, <1>2, <1>3, <1>4, <1>5, UploadStep

\* The second half of a write, and the flush it may trigger, keep the invariant.
LEMMA AckStep == Inv /\ (WriteAck \/ WriteFlush) => Inv'
<1> SUFFICES ASSUME Inv, WriteAck \/ WriteFlush  PROVE Inv'
  OBVIOUS
<1> USE DEF Inv, TypeAndCounts, Holds, Types
<1>1. /\ fuse.ino \in Inos /\ handle[fuse.ino] # NoHandle /\ fuse \in FuseStates
      /\ Staged \in Nat /\ Staged <= DirtyMax /\ DirtyMax \in Nat
      /\ blob[fuse.ino] \in Contents /\ Len(blob[fuse.ino]) \in 0..MaxBlob
  <2>1. fuse.ino \in Inos /\ handle[fuse.ino] # NoHandle
    BY DEF WriteAck, WriteFlush, FuseHolds
  <2> QED  BY <2>1, Parts, StagedFits, ContentFacts DEF FuseTypes, HandleHasBlob
<1>2. /\ UNCHANGED <<names, blob, sidecar, session, drain, calls, drains, stops, touched>>
  BY DEF WriteAck, WriteFlush, disk, server, counts
<1>3. /\ HandleTypes' /\ RemoteTypes' /\ \A j \in Inos : handle'[j].dirty <= Staged
      /\ \A j \in Inos : handle'[j] # NoHandle <=> handle[j] # NoHandle
  <2>1. CASE WriteAck
    <3> DEFINE new == [handle[fuse.ino] EXCEPT !.dirty = fuse.dirty]
    <3>1. handle \in [Inos -> Handles] /\ handle[fuse.ino] \in Handles
      BY <1>1 DEF HandleTypes
    <3>2. fuse.dirty \in 0..DirtyMax /\ fuse.dirty <= Staged
      BY <1>1 DEF FuseStates, DirtyBound
    <3>3. new \in Handles /\ new # NoHandle /\ new.dirty = fuse.dirty
      BY <1>1, <3>1, <3>2, NotAPath DEF Handles, NoHandle
    <3>4. handle' = [handle EXCEPT ![fuse.ino] = new] /\ UNCHANGED remote
      BY <2>1 DEF WriteAck, server
    <3> HIDE DEF new
    <3> QED  BY <1>1, <3>1, <3>2, <3>3, <3>4 DEF HandleTypes, RemoteTypes, DirtyBound
  <2>2. CASE WriteFlush
    BY <1>1, <2>2, FlushKeeps DEF WriteFlush
  <2> QED  BY <2>1, <2>2
<1>4. /\ FuseTypes' /\ fuse'.dirty = 0 /\ fuse'.pc \in {"idle", "flush", "session"}
      /\ fuse'.pc # "idle" => fuse'.ino = fuse.ino
      /\ fuse'.pc = "session" => fuse'.total = Len(blob[fuse.ino])
  <2>1. CASE fuse' = Idle  BY <2>1, IdleFacts DEF FuseTypes
  <2>2. CASE fuse' = [Idle EXCEPT !.pc = "session", !.ino = fuse.ino, !.restarts = 1,
                                  !.total = Len(blob[fuse.ino])]
    <3>1. fuse' = [pc |-> "session", ino |-> fuse.ino, dirty |-> 0, total |-> Len(blob[fuse.ino]),
                   id |-> 0, offset |-> 0, attempt |-> 0, restarts |-> 1]
      BY <2>2 DEF Idle
    <3> QED  BY <1>1, <3>1, ConstantsAreNat DEF FuseTypes, FuseStates
  <2>3. CASE fuse' = [Idle EXCEPT !.pc = "flush", !.ino = fuse.ino]
    <3>1. fuse' = [pc |-> "flush", ino |-> fuse.ino, dirty |-> 0, total |-> 0,
                   id |-> 0, offset |-> 0, attempt |-> 0, restarts |-> 0]
      BY <2>3 DEF Idle
    <3> QED  BY <1>1, <3>1, ConstantsAreNat DEF FuseTypes, FuseStates
  <2> QED  BY <2>1, <2>2, <2>3 DEF WriteAck, WriteFlush
<1>5. NameTypes' /\ FdTypes' /\ FdsBound' /\ BlobTypes' /\ SidecarTypes' /\ SessionTypes'
  BY <1>2 DEF names, NameTypes, FdTypes, FdsBound, BlobTypes, SidecarTypes, SessionTypes
<1>6. DrainTypes' /\ CallTypes' /\ CountTypes' /\ DrainHolds'
  BY <1>2 DEF DrainTypes, CallTypes, CountTypes, DrainHolds
<1>7. DirtyBound'  BY <1>1, <1>2, <1>3, <1>4 DEF DirtyBound, Staged
<1>8. HandleHasBlob'  BY <1>2, <1>3 DEF HandleHasBlob
<1>9. FuseHolds'  BY <1>1, <1>2, <1>3, <1>4 DEF FuseHolds
<1>10. Uploads' /\ FuseAgrees'
  BY <1>2, <1>4 DEF Uploads, SidecarFits, NoSharing, SessionsAreExact, FuseAgrees
<1> QED  BY <1>3, <1>4, <1>5, <1>6, <1>7, <1>8, <1>9, <1>10

\* A session is taken up or begun.
LEMMA BeginStep == Inv /\ SessionBegin => Inv'
<1> SUFFICES ASSUME Inv, SessionBegin  PROVE Inv'
  OBVIOUS
<1> DEFINE i == fuse.ino
           p == sidecar[i]
<1> USE DEF Inv, TypeAndCounts, Holds, Types
<1>1. fuse.pc = "session" /\ Frame /\ UNCHANGED remote
  BY DEF SessionBegin, Frame
<1>2. /\ i \in Inos /\ handle[i] # NoHandle /\ fuse.total = Len(blob[i]) /\ fuse.total \in 0..MaxBlob
      /\ fuse \in FuseStates /\ fuse.dirty <= Staged
  BY <1>1, UploadFacts
<1>3. RemoteTypes'  BY <1>1 DEF RemoteTypes
<1>4. CASE /\ p # NoSidecar /\ p.total = fuse.total
           /\ fuse' = [fuse EXCEPT !.pc = "send", !.id = p.id, !.offset = p.acked]
           /\ UNCHANGED <<sidecar, session, touched>>
  <2>1. /\ p = [id |-> p.id, total |-> fuse.total, acked |-> p.acked]
        /\ p.id \in 1..Len(session) /\ p.id \in 0..MaxSessions /\ p.acked \in 0..MaxBlob
    BY <1>2, <1>4, SidecarFacts, ConstantsAreNat DEF Uploads
  <2>2. fuse' \in FuseStates /\ fuse'.dirty = fuse.dirty /\ fuse'.pc = "send" /\ fuse'.ino = i
        /\ fuse'.total = fuse.total /\ fuse'.id = p.id /\ fuse'.offset = p.acked
    BY <1>2, <1>4, <2>1 DEF FuseStates
  <2>3. SidecarTypes' /\ SessionTypes' /\ Uploads' /\ touched' \in [Inos -> SUBSET (1..MaxBlob)]
    BY <1>1, <1>4 DEF SidecarTypes, SessionTypes, BlobTypes, Uploads, SidecarFits, NoSharing,
       SessionsAreExact, Frame
  <2>4. FuseHolds'  BY <1>1, <1>2, <2>2 DEF FuseHolds, Frame
  <2>5. FuseAgrees'  BY <1>4, <2>1, <2>2 DEF FuseAgrees
  <2> HIDE DEF i, p
  <2> QED  BY <1>1, <1>2, <1>3, <2>2, <2>3, <2>4, <2>5, UploadStep DEF FuseTypes
<1>5. CASE /\ Len(session) < MaxSessions
           /\ session' = Append(session, [cells |-> <<>>, live |-> TRUE])
           /\ \/ /\ Save(i, Len(session'), fuse.total, 0)
                 /\ fuse' = [fuse EXCEPT !.pc = "send", !.id = Len(session'), !.offset = 0]
                 /\ touched' = [touched EXCEPT ![i] = {}]
              \/ SessionFails /\ UNCHANGED <<sidecar, touched>>
  <2> DEFINE R == [cells : Contents, live : BOOLEAN]
             e == [cells |-> <<>>, live |-> TRUE]
  <2>1. session \in Seq(R) /\ Len(session) \in Nat  BY DEF SessionTypes
  <2>2. e \in R /\ e.cells = <<>> /\ e.live = TRUE  BY EmptyContent
  <2>3. /\ session' \in Seq(R) /\ Len(session') = Len(session) + 1
        /\ \A n \in 1..Len(session) : session'[n] = session[n]
        /\ session'[Len(session')] = e
    <3> HIDE DEF R, e
    <3>1. session' = Append(session, e)  BY <1>5 DEF e
    <3> QED  BY <2>1, <2>2, <3>1
  <2>4. SessionTypes'  BY <1>5, <2>1, <2>3, ConstantsAreNat DEF SessionTypes
  <2> HIDE DEF R, e
  <2>5. CASE SessionFails /\ UNCHANGED <<sidecar, touched>>
    <3>1. fuse' = Idle  BY <2>5 DEF SessionFails
    <3>2. SidecarTypes' /\ touched' \in [Inos -> SUBSET (1..MaxBlob)]
      BY <2>5 DEF SidecarTypes, BlobTypes
    <3>3. SidecarFits'
      BY <2>1, <2>3, <2>5 DEF Uploads, SidecarFits
    <3>4. NoSharing' /\ SessionsAreExact'
      BY <1>1, <2>1, <2>3, <2>5 DEF Uploads, SidecarFits, NoSharing, SessionsAreExact, Frame
    <3>5. FuseHolds' /\ FuseAgrees' /\ FuseTypes' /\ fuse'.dirty <= Staged
      BY <3>1, IdleFacts, UploadFacts, <1>1, <1>2 DEF FuseHolds, FuseAgrees, FuseTypes
    <3> QED  BY <1>1, <1>3, <2>4, <3>2, <3>3, <3>4, <3>5, UploadStep DEF Uploads
  <2>6. CASE /\ Save(i, Len(session'), fuse.total, 0)
             /\ fuse' = [fuse EXCEPT !.pc = "send", !.id = Len(session'), !.offset = 0]
             /\ touched' = [touched EXCEPT ![i] = {}]
    <3> DEFINE n == Len(session) + 1
               s == [id |-> n, total |-> fuse.total, acked |-> 0]
    <3>1. n \in 1..MaxSessions /\ Len(session') = n
      BY <1>5, <2>1, <2>3, ConstantsAreNat
    <3>2. sidecar' = [sidecar EXCEPT ![i] = s]
      BY <2>6, <3>1 DEF Save
    <3>3. s \in [id : 0..MaxSessions, total : 0..MaxBlob, acked : 0..MaxBlob]
      BY <1>2, <3>1, ConstantsAreNat
    <3>4. s.id = n /\ s.total = fuse.total /\ s.acked = 0  OBVIOUS
    <3> HIDE DEF s
    <3>5. SidecarTypes'  BY <3>2, <3>3 DEF SidecarTypes
    <3>6. touched' \in [Inos -> SUBSET (1..MaxBlob)]  BY <2>6 DEF BlobTypes
    <3>7. /\ sidecar'[i] = s /\ touched'[i] = {}
          /\ \A j \in Inos : j # i => sidecar'[j] = sidecar[j] /\ touched'[j] = touched[j]
      BY <1>2, <2>6, <3>2 DEF SidecarTypes, BlobTypes
    <3>8. session'[n] = e /\ Len(session'[n].cells) = 0
      BY <2>2, <2>3, <3>1
    <3>9. ASSUME NEW j \in Inos, sidecar'[j] # NoSidecar, j # i
          PROVE  sidecar'[j] = sidecar[j] /\ sidecar[j] # NoSidecar /\ sidecar[j].id \in 1..Len(session)
                 /\ session'[sidecar[j].id] = session[sidecar[j].id] /\ sidecar[j].id # n
      BY <3>7, <3>9, <2>1, <2>3 DEF Uploads, SidecarFits
    <3>10. SidecarFits'
      <4>1. ASSUME NEW j \in Inos, sidecar'[j] # NoSidecar
            PROVE  /\ sidecar'[j].id \in 1..Len(session')
                   /\ sidecar'[j].acked <= sidecar'[j].total
                   /\ Len(session'[sidecar'[j].id].cells) <= sidecar'[j].total
                   /\ session'[sidecar'[j].id].live => sidecar'[j].acked <= Len(session'[sidecar'[j].id].cells)
        <5>1. CASE j = i
          BY <5>1, <1>2, <3>1, <3>4, <3>7, <3>8, ConstantsAreNat
        <5>2. CASE j # i
          BY <5>2, <4>1, <3>9, <2>1, <2>3 DEF Uploads, SidecarFits
        <5> QED  BY <5>1, <5>2
      <4> QED  BY <4>1 DEF SidecarFits
    <3>11. NoSharing'
      BY <3>4, <3>7, <3>9 DEF Uploads, NoSharing
    <3>12. SessionsAreExact'
      <4> SUFFICES ASSUME NEW j \in Inos, sidecar'[j] # NoSidecar,
                          NEW k \in 1..Len(session'[sidecar'[j].id].cells), k \notin touched'[j]
                   PROVE  k <= Len(blob'[j]) /\ session'[sidecar'[j].id].cells[k] = blob'[j][k]
        BY DEF SessionsAreExact
      <4>1. CASE j = i  BY <4>1, <3>4, <3>7, <3>8
      <4>2. CASE j # i  BY <4>2, <1>1, <3>7, <3>9 DEF Uploads, SessionsAreExact, Frame
      <4> QED  BY <4>1, <4>2
    <3>13. fuse' \in FuseStates /\ fuse'.dirty = fuse.dirty /\ fuse'.pc = "send" /\ fuse'.ino = i
           /\ fuse'.total = fuse.total /\ fuse'.id = n /\ fuse'.offset = 0
      <4>1. n \in 0..MaxSessions /\ 0 \in 0..MaxBlob  BY <3>1, ConstantsAreNat
      <4>2. fuse' = [fuse EXCEPT !.pc = "send", !.id = n, !.offset = 0]  BY <2>6, <3>1
      <4> HIDE DEF n
      <4> QED  BY <1>2, <4>1, <4>2 DEF FuseStates
    <3>14. FuseHolds'  BY <1>1, <1>2, <3>13 DEF FuseHolds, Frame
    <3>15. FuseAgrees'
      BY <3>1, <3>7, <3>13 DEF FuseAgrees, s
    <3> HIDE DEF i, n
    <3> QED
      BY <1>1, <1>2, <1>3, <2>4, <3>5, <3>6, <3>10, <3>11, <3>12, <3>13, <3>14, <3>15, UploadStep
      DEF FuseTypes, Uploads
  <2> QED  BY <1>5, <2>5, <2>6
<1>6. CASE (PermanentError \/ (SessionFails /\ UNCHANGED sidecar)) /\ UNCHANGED <<session, touched>>
  BY <1>1, <1>2, <1>6, UploadGivesUp DEF PermanentError, SessionFails
<1> QED  BY <1>4, <1>5, <1>6 DEF SessionBegin

\* The chunk at the offset reaches the session, and the session holds it.
LEMMA ChunkStored ==
    ASSUME Inv, fuse.pc = "send", fuse.offset < fuse.total, UNCHANGED <<blob, sidecar>>,
           session[fuse.id].live,
           session' = [session EXCEPT ![fuse.id].cells =
                          upload_write(@, fuse.offset, ReadChunk(fuse.ino))],
           touched' = [touched EXCEPT ![fuse.ino] = @ \ {fuse.offset + 1}]
    PROVE  /\ SessionTypes' /\ Len(session') = Len(session) /\ Uploads'
           /\ touched' \in [Inos -> SUBSET (1..MaxBlob)]
           /\ fuse.offset + 1 <= Len(session'[fuse.id].cells)
<1> DEFINE i == fuse.ino
           id == fuse.id
           c == session[id].cells
           v == ReadChunk(i)
           w == upload_write(c, fuse.offset, v)
<1> USE DEF Inv, TypeAndCounts, Holds, Types
<1>1. /\ i \in Inos /\ blob[i] \in Contents /\ fuse.total = Len(blob[i]) /\ fuse \in FuseStates
  BY UploadFacts
<1>2. /\ id \in 1..Len(session) /\ sidecar[i] = [id |-> id, total |-> fuse.total, acked |-> fuse.offset]
  BY DEF FuseAgrees
<1>3. sidecar[i] # NoSidecar /\ sidecar[i].id = id /\ sidecar[i].total = fuse.total /\ sidecar[i].acked = fuse.offset
  BY <1>2 DEF NoSidecar
<1>4. /\ c \in Contents /\ Len(c) \in Nat /\ Len(c) <= fuse.total /\ fuse.offset <= Len(c)
      /\ fuse.offset \in Nat /\ fuse.total \in 0..MaxBlob /\ fuse.offset + 1 <= fuse.total
  <2>1. c \in Contents /\ Len(c) \in Nat  BY <1>2, Parts, ContentFacts
  <2>2. Len(c) <= fuse.total /\ fuse.offset <= Len(c)
    BY <1>1, <1>3 DEF Uploads, SidecarFits
  <2>3. fuse.offset \in 0..MaxBlob /\ fuse.total \in 0..MaxBlob
    BY <1>1 DEF FuseStates
  <2> HIDE DEF c
  <2> QED  BY <2>1, <2>2, <2>3, ConstantsAreNat
<1>5. v = blob[i][fuse.offset + 1] /\ v \in 0..MaxCalls
  <2>1. v = blob[i][fuse.offset + 1]  BY DEF ReadChunk
  <2>2. blob[i] \in [1..Len(blob[i]) -> 0..MaxCalls] /\ fuse.offset + 1 \in 1..Len(blob[i])
    BY <1>1, <1>4, ContentFacts
  <2> QED  BY <2>1, <2>2
<1>6. /\ w \in Contents /\ Len(w) = Max2(fuse.offset + 1, Len(c))
      /\ \A k \in 1..Max2(fuse.offset + 1, Len(c)) :
            w[k] = IF k = fuse.offset + 1 THEN v ELSE IF k <= Len(c) THEN c[k] ELSE 0
  <2>1. 1 \in Nat /\ fuse.offset + 1 <= MaxBlob  BY <1>4, ConstantsAreNat
  <2>2. \A k \in Nat : k \in (fuse.offset + 1)..(fuse.offset + 1) <=> k = fuse.offset + 1
    BY <1>4
  <2>3. Max2(fuse.offset + 1, Len(c)) \in Nat  BY <1>4 DEF Max2
  <2> HIDE DEF c, v
  <2> QED  BY <1>4, <1>5, <2>1, <2>2, <2>3, WriteFacts DEF upload_write
<1>7. Len(w) \in Nat /\ Len(w) <= fuse.total /\ fuse.offset + 1 <= Len(w) /\ fuse.offset <= Len(w)
      /\ \A k \in 1..Len(w) : k # fuse.offset + 1 => k \in 1..Len(c) /\ w[k] = c[k]
  BY <1>4, <1>6 DEF Max2
<1>8. /\ SessionTypes' /\ Len(session') = Len(session)
      /\ session'[id].cells = w /\ session'[id].live = session[id].live
      /\ \A n \in 1..Len(session) : n # id => session'[n] = session[n]
  <2> DEFINE R == [cells : Contents, live : BOOLEAN]
             e == [session[id] EXCEPT !.cells = w]
  <2>1. session \in Seq(R)  BY DEF SessionTypes
  <2>2. session[id] \in R
    <3> HIDE DEF R
    <3> QED  BY <2>1, <1>2
  <2>3. e \in R /\ e.cells = w /\ e.live = session[id].live
    <3> HIDE DEF w
    <3> QED  BY <2>2, <1>6
  <2>4. session' = [session EXCEPT ![id] = e]  OBVIOUS
  <2>5. /\ session' \in Seq(R) /\ Len(session') = Len(session) /\ session'[id] = e
        /\ \A n \in 1..Len(session) : n # id => session'[n] = session[n]
    <3> HIDE DEF R, e, id
    <3>1. id \in 1..Len(session)  BY <1>2
    <3>2. e \in R  BY <2>3
    <3>3. /\ [session EXCEPT ![id] = e] \in Seq(R) /\ Len([session EXCEPT ![id] = e]) = Len(session)
          /\ \A m \in 1..Len(session) : [session EXCEPT ![id] = e][m] = IF m = id THEN e ELSE session[m]
      BY <2>1, <3>1, <3>2, SeqUpdate
    <3> QED  BY <2>4, <3>1, <3>3
  <2> QED  BY <2>3, <2>5 DEF SessionTypes
<1>9. touched' \in [Inos -> SUBSET (1..MaxBlob)]
  BY DEF BlobTypes
<1> HIDE DEF w, c, v
<1>10. ASSUME NEW j \in Inos, sidecar[j] # NoSidecar, j # i
       PROVE  /\ sidecar[j].id \in 1..Len(session) /\ sidecar[j].id # id
              /\ session'[sidecar[j].id] = session[sidecar[j].id] /\ touched'[j] = touched[j]
  BY <1>1, <1>3, <1>8, <1>10 DEF Uploads, SidecarFits, NoSharing, BlobTypes
<1>11. SidecarFits'
  <2>1. ASSUME NEW j \in Inos, sidecar[j] # NoSidecar
        PROVE  /\ sidecar[j].id \in 1..Len(session')
               /\ sidecar[j].acked <= sidecar[j].total
               /\ Len(session'[sidecar[j].id].cells) <= sidecar[j].total
               /\ session'[sidecar[j].id].live => sidecar[j].acked <= Len(session'[sidecar[j].id].cells)
    <3>1. CASE j = i  BY <3>1, <1>2, <1>3, <1>4, <1>7, <1>8
    <3>2. CASE j # i  BY <3>2, <2>1, <1>8, <1>10 DEF Uploads, SidecarFits
    <3> QED  BY <3>1, <3>2
  <2> QED  BY <2>1 DEF SidecarFits
<1>12. NoSharing'  BY DEF Uploads, NoSharing
<1>13. SessionsAreExact'
  <2> SUFFICES ASSUME NEW j \in Inos, sidecar[j] # NoSidecar,
                      NEW k \in 1..Len(session'[sidecar[j].id].cells), k \notin touched'[j]
               PROVE  k <= Len(blob[j]) /\ session'[sidecar[j].id].cells[k] = blob[j][k]
    BY DEF SessionsAreExact
  <2>1. CASE j # i  BY <2>1, <1>10 DEF Uploads, SessionsAreExact
  <2>2. CASE j = i /\ k = fuse.offset + 1
    BY <2>2, <1>1, <1>3, <1>4, <1>5, <1>6, <1>7, <1>8
  <2>3. CASE j = i /\ k # fuse.offset + 1
    <3>1. k \in 1..Len(c) /\ w[k] = c[k]  BY <2>3, <1>3, <1>7, <1>8
    <3>2. k \notin touched[i]  BY <2>3, <1>1 DEF BlobTypes
    <3>3. k <= Len(blob[i]) /\ c[k] = blob[i][k]
      BY <3>1, <3>2, <1>1, <1>3 DEF Uploads, SessionsAreExact, c
    <3> QED  BY <2>3, <3>1, <3>3, <1>3, <1>8
  <2> QED  BY <2>1, <2>2, <2>3
<1> QED  BY <1>7, <1>8, <1>9, <1>11, <1>12, <1>13 DEF Uploads

\* One upload_write, whatever the server answers.
LEMMA SendStep == Inv /\ SendChunk => Inv'
<1> SUFFICES ASSUME Inv, SendChunk  PROVE Inv'
  OBVIOUS
<1> USE DEF Inv, TypeAndCounts, Holds, Types
<1> DEFINE stored == /\ session[fuse.id].live
                     /\ session' = [session EXCEPT ![fuse.id].cells =
                                       upload_write(@, fuse.offset, ReadChunk(fuse.ino))]
                     /\ touched' = [touched EXCEPT ![fuse.ino] = @ \ {fuse.offset + 1}]
<1>1. fuse.pc = "send" /\ fuse.offset < fuse.total /\ Frame /\ UNCHANGED <<blob, remote>>
  BY DEF SendChunk, Frame
<1>2. /\ fuse.ino \in Inos /\ handle[fuse.ino] # NoHandle /\ fuse.total = Len(blob[fuse.ino])
      /\ fuse \in FuseStates /\ fuse.dirty <= Staged
  BY <1>1, UploadFacts
<1>3. /\ fuse.id \in 1..Len(session)
      /\ sidecar[fuse.ino] = [id |-> fuse.id, total |-> fuse.total, acked |-> fuse.offset]
  BY <1>1 DEF FuseAgrees
<1>4. RemoteTypes'  BY <1>1 DEF RemoteTypes
<1>5. CASE stored /\ fuse' = [fuse EXCEPT !.pc = "record", !.attempt = 0] /\ UNCHANGED sidecar
  <2>1. /\ SessionTypes' /\ Len(session') = Len(session) /\ Uploads'
        /\ touched' \in [Inos -> SUBSET (1..MaxBlob)]
        /\ fuse.offset + 1 <= Len(session'[fuse.id].cells)
    BY <1>1, <1>5, ChunkStored
  <2>2. SidecarTypes'  BY <1>5 DEF SidecarTypes
  <2>3. /\ fuse' \in FuseStates /\ fuse'.dirty = fuse.dirty /\ fuse'.pc = "record" /\ fuse'.ino = fuse.ino
        /\ fuse'.total = fuse.total /\ fuse'.id = fuse.id /\ fuse'.offset = fuse.offset
    <3>1. 0 \in 0..ChunkRetries  BY ConstantsAreNat
    <3> QED  BY <1>2, <1>5, <3>1 DEF FuseStates
  <2>4. FuseHolds'  BY <1>1, <1>2, <2>3 DEF FuseHolds, Frame
  <2>5. FuseAgrees'  BY <1>1, <1>3, <1>5, <2>1, <2>3 DEF FuseAgrees
  <2> QED  BY <1>1, <1>2, <1>4, <2>1, <2>2, <2>3, <2>4, <2>5, UploadStep DEF FuseTypes
<1>6. CASE fuse.attempt < ChunkRetries /\ fuse' = [fuse EXCEPT !.attempt = @ + 1]
           /\ UNCHANGED <<session, sidecar, touched>>
  <2>1. fuse.attempt + 1 \in 0..ChunkRetries  BY <1>2, <1>6, ConstantsAreNat DEF FuseStates
  <2>2. /\ fuse' \in FuseStates /\ fuse'.dirty = fuse.dirty /\ fuse'.pc = "send" /\ fuse'.ino = fuse.ino
        /\ fuse'.total = fuse.total /\ fuse'.id = fuse.id /\ fuse'.offset = fuse.offset
    BY <1>1, <1>2, <1>6, <2>1 DEF FuseStates
  <2>3. SidecarTypes' /\ SessionTypes' /\ Uploads' /\ touched' \in [Inos -> SUBSET (1..MaxBlob)]
    BY <1>1, <1>6 DEF SidecarTypes, SessionTypes, BlobTypes, Uploads, SidecarFits, NoSharing,
       SessionsAreExact
  <2>4. FuseHolds'  BY <1>1, <1>2, <2>2 DEF FuseHolds, Frame
  <2>5. FuseAgrees'  BY <1>3, <1>6, <2>2 DEF FuseAgrees
  <2> QED  BY <1>1, <1>2, <1>4, <2>2, <2>3, <2>4, <2>5, UploadStep DEF FuseTypes
<1>7. CASE stored /\ SessionFails /\ UNCHANGED sidecar
  <2>1. SessionTypes' /\ Uploads' /\ touched' \in [Inos -> SUBSET (1..MaxBlob)]
    BY <1>1, <1>7, ChunkStored
  <2>2. SidecarTypes'  BY <1>7 DEF SidecarTypes
  <2>3. fuse' = Idle  BY <1>7 DEF SessionFails
  <2>4. FuseHolds' /\ FuseAgrees' /\ FuseTypes' /\ fuse'.dirty <= Staged
    BY <2>3, IdleFacts, UploadFacts, <1>1 DEF FuseHolds, FuseAgrees, FuseTypes
  <2> QED  BY <1>1, <1>4, <2>1, <2>2, <2>4, UploadStep
<1>8. CASE SessionFails /\ UNCHANGED <<session, sidecar, touched>>
  BY <1>1, <1>8, UploadGivesUp DEF SessionFails
<1>9. CASE Refused /\ UNCHANGED touched
  BY <1>1, <1>3, <1>9, UploadGivesUp DEF Refused, PermanentError, SessionFails
<1> QED  BY <1>5, <1>6, <1>7, <1>8, <1>9 DEF SendChunk

\* The count of a stored chunk reaches the sidecar, or does not.
LEMMA RecordStep == Inv /\ RecordChunk => Inv'
<1> SUFFICES ASSUME Inv, RecordChunk  PROVE Inv'
  OBVIOUS
<1> DEFINE i == fuse.ino
<1> USE DEF Inv, TypeAndCounts, Holds, Types
<1>1. fuse.pc = "record" /\ Frame /\ UNCHANGED <<session, remote, touched>>
  BY DEF RecordChunk, Frame, server
<1>2. /\ i \in Inos /\ handle[i] # NoHandle /\ fuse.total = Len(blob[i]) /\ fuse.total \in 0..MaxBlob
      /\ fuse \in FuseStates /\ fuse.dirty <= Staged
  BY <1>1, UploadFacts
<1>3. /\ fuse.id \in 1..Len(session)
      /\ sidecar[i] = [id |-> fuse.id, total |-> fuse.total, acked |-> fuse.offset]
      /\ fuse.offset < fuse.total /\ fuse.offset + 1 <= Len(session[fuse.id].cells)
  BY <1>1 DEF FuseAgrees
<1>4. CASE SessionFails /\ UNCHANGED sidecar
  BY <1>1, <1>4, UploadGivesUp DEF SessionFails
<1>5. CASE /\ Save(i, fuse.id, fuse.total, fuse.offset + 1)
           /\ fuse' = [fuse EXCEPT !.pc = "send", !.offset = @ + 1]
  <2> DEFINE s == [id |-> fuse.id, total |-> fuse.total, acked |-> fuse.offset + 1]
  <2>1. fuse.offset \in Nat /\ fuse.offset + 1 \in 0..MaxBlob
    BY <1>2, <1>3, ConstantsAreNat DEF FuseStates
  <2>2. s \in [id : 0..MaxSessions, total : 0..MaxBlob, acked : 0..MaxBlob]
    BY <1>2, <2>1 DEF FuseStates
  <2>3. s.id = fuse.id /\ s.total = fuse.total /\ s.acked = fuse.offset + 1  OBVIOUS
  <2>4. sidecar' = [sidecar EXCEPT ![i] = s]  BY <1>5 DEF Save
  <2>5. sidecar[i] # NoSidecar /\ sidecar[i].id = fuse.id /\ sidecar[i].total = fuse.total
    BY <1>3 DEF NoSidecar
  <2> HIDE DEF s
  <2>6. SidecarTypes'  BY <2>2, <2>4 DEF SidecarTypes
  <2>7. sidecar'[i] = s /\ \A j \in Inos : j # i => sidecar'[j] = sidecar[j]
    BY <1>2, <2>4 DEF SidecarTypes
  <2>8. ASSUME NEW j \in Inos, sidecar'[j] # NoSidecar
        PROVE  /\ sidecar[j] # NoSidecar
               /\ sidecar'[j].id = sidecar[j].id /\ sidecar'[j].total = sidecar[j].total
               /\ sidecar'[j].acked <= sidecar[j].total
               /\ session[sidecar[j].id].live => sidecar'[j].acked <= Len(session[sidecar[j].id].cells)
    <3>1. CASE j = i  BY <3>1, <1>2, <1>3, <2>1, <2>3, <2>5, <2>7
    <3>2. CASE j # i  BY <3>2, <2>7, <2>8 DEF Uploads, SidecarFits
    <3> QED  BY <3>1, <3>2
  <2>9. SessionTypes' /\ Len(session') = Len(session) /\ UNCHANGED blob
        /\ \A n \in 1..Len(session) : session'[n] = session[n] \/ session'[n] = Ended
    BY <1>1 DEF SessionTypes, Frame
  <2>10. Uploads'  BY <1>1, <2>6, <2>8, <2>9, UploadsWeaken
  <2>11. /\ fuse' \in FuseStates /\ fuse'.dirty = fuse.dirty /\ fuse'.pc = "send" /\ fuse'.ino = i
         /\ fuse'.total = fuse.total /\ fuse'.id = fuse.id /\ fuse'.offset = fuse.offset + 1
    BY <1>2, <1>5, <2>1 DEF FuseStates
  <2>12. FuseHolds'  BY <1>1, <1>2, <2>11 DEF FuseHolds, Frame
  <2>13. FuseAgrees'  BY <1>1, <1>3, <2>7, <2>11 DEF FuseAgrees, s
  <2>14. RemoteTypes' /\ touched' \in [Inos -> SUBSET (1..MaxBlob)]
    BY <1>1 DEF RemoteTypes, BlobTypes
  <2> HIDE DEF i
  <2> QED
    BY <1>1, <1>2, <2>6, <2>9, <2>10, <2>11, <2>12, <2>13, <2>14, UploadStep DEF FuseTypes
<1> QED  BY <1>4, <1>5 DEF RecordChunk

\* What upload_save publishes: the whole of the blob, but for touched chunks.
LEMMA SavedContent ==
    ASSUME Inv, fuse.pc = "send", fuse.offset >= fuse.total, session[fuse.id].live
    PROVE  /\ session[fuse.id].cells \in Contents
           /\ Len(session[fuse.id].cells) = Len(blob[fuse.ino])
           /\ \A k \in 1..Len(blob[fuse.ino]) :
                k \notin touched[fuse.ino] => session[fuse.id].cells[k] = blob[fuse.ino][k]
<1> DEFINE i == fuse.ino
<1> USE DEF Inv, TypeAndCounts, Holds, Types
<1>1. i \in Inos /\ fuse.total = Len(blob[i]) /\ fuse.total \in 0..MaxBlob /\ fuse \in FuseStates
  BY UploadFacts
<1>2. /\ fuse.id \in 1..Len(session)
      /\ sidecar[i] = [id |-> fuse.id, total |-> fuse.total, acked |-> fuse.offset]
  BY DEF FuseAgrees
<1>3. sidecar[i] # NoSidecar /\ sidecar[i].id = fuse.id /\ sidecar[i].total = fuse.total /\ sidecar[i].acked = fuse.offset
  BY <1>2 DEF NoSidecar
<1>4. session[fuse.id].cells \in Contents /\ Len(session[fuse.id].cells) \in Nat
  BY <1>2, Parts, ContentFacts
<1>5. fuse.offset <= Len(session[fuse.id].cells) /\ Len(session[fuse.id].cells) <= fuse.total
  BY <1>1, <1>3 DEF Uploads, SidecarFits
<1>6. fuse.offset \in Nat  BY <1>1, ConstantsAreNat DEF FuseStates
<1>7. Len(session[fuse.id].cells) = fuse.total
  BY <1>1, <1>4, <1>5, <1>6, ConstantsAreNat
<1> QED  BY <1>1, <1>3, <1>4, <1>7 DEF Uploads, SessionsAreExact

\* upload_save, whatever comes of it.
LEMMA SaveStep == Inv /\ SaveUpload => Inv'
<1> SUFFICES ASSUME Inv, SaveUpload  PROVE Inv'
  OBVIOUS
<1> USE DEF Inv, TypeAndCounts, Holds, Types
<1> DEFINE saved == /\ session[fuse.id].live
                    /\ remote' = [remote EXCEPT ![handle[fuse.ino].path] = session[fuse.id].cells]
                    /\ session' = [session EXCEPT ![fuse.id] = Ended]
<1>1. fuse.pc = "send" /\ fuse.offset >= fuse.total /\ Frame /\ UNCHANGED touched
  BY DEF SaveUpload, Frame
<1>2. /\ fuse.ino \in Inos /\ handle[fuse.ino] # NoHandle /\ fuse.total = Len(blob[fuse.ino])
      /\ fuse \in FuseStates /\ fuse.dirty <= Staged /\ handle[fuse.ino].path \in Paths
  BY <1>1, UploadFacts
<1>3. fuse.id \in 1..Len(session)  BY <1>1 DEF FuseAgrees
<1>4. CASE saved /\ (SessionFails \/ fuse' = [fuse EXCEPT !.pc = "saved"]) /\ UNCHANGED sidecar
  <2>1. RemoteTypes'
    BY <1>1, <1>2, <1>4, SavedContent DEF RemoteTypes
  <2>2. SidecarTypes' /\ SessionTypes' /\ Uploads'
    BY <1>1, <1>2, <1>3, <1>4, SidecarMayGo DEF Frame
  <2>3. FuseTypes' /\ fuse'.dirty <= Staged /\ FuseHolds' /\ FuseAgrees'
    <3>1. CASE SessionFails
      BY <3>1, IdleFacts, UploadFacts, <1>1 DEF SessionFails, FuseHolds, FuseAgrees, FuseTypes
    <3>2. CASE fuse' = [fuse EXCEPT !.pc = "saved"]
      <4>1. /\ fuse' \in FuseStates /\ fuse'.dirty = fuse.dirty /\ fuse'.pc = "saved"
            /\ fuse'.ino = fuse.ino /\ fuse'.total = fuse.total
        BY <1>2, <3>2 DEF FuseStates
      <4> QED  BY <1>1, <1>2, <4>1 DEF FuseTypes, FuseHolds, FuseAgrees, Frame
    <3> QED  BY <1>4, <3>1, <3>2
  <2>4. touched' \in [Inos -> SUBSET (1..MaxBlob)]  BY <1>1 DEF BlobTypes
  <2> QED  BY <1>1, <2>1, <2>2, <2>3, <2>4, UploadStep
<1>5. CASE SessionFails /\ UNCHANGED <<server, sidecar>>
  BY <1>1, <1>5, UploadGivesUp DEF SessionFails, server
<1>6. CASE Refused /\ UNCHANGED remote
  BY <1>1, <1>3, <1>6, UploadGivesUp DEF Refused, PermanentError, SessionFails
<1> QED  BY <1>4, <1>5, <1>6 DEF SaveUpload

\* The upload is over: the sidecar goes, or stays, and the bytes are clean.
LEMMA EndStep == Inv /\ EndChunkedFlush => Inv'
<1> SUFFICES ASSUME Inv, EndChunkedFlush  PROVE Inv'
  OBVIOUS
<1> USE DEF Inv, TypeAndCounts, Holds, Types
<1>1. /\ fuse.pc = "saved" /\ ResetDirty(fuse.ino) /\ fuse' = Idle
      /\ sidecar' \in {sidecar, [sidecar EXCEPT ![fuse.ino] = NoSidecar]}
      /\ UNCHANGED <<names, blob, session, remote, drain, calls, drains, stops, touched>>
  BY DEF EndChunkedFlush, server, counts
<1>2. fuse.ino \in Inos /\ Staged \in Nat  BY <1>1, UploadFacts
<1>3. /\ HandleTypes' /\ \A j \in Inos : handle'[j].dirty <= Staged
      /\ \A j \in Inos : handle'[j] # NoHandle <=> handle[j] # NoHandle
  BY <1>1, <1>2, ResetKeeps
<1>4. SidecarTypes' /\ SessionTypes' /\ Uploads'
  BY <1>1, <1>2, SidecarMayGo
<1>5. NameTypes' /\ FdTypes' /\ FdsBound' /\ BlobTypes' /\ RemoteTypes'
  BY <1>1 DEF names, NameTypes, FdTypes, FdsBound, BlobTypes, RemoteTypes
<1>6. DrainTypes' /\ CallTypes' /\ CountTypes' /\ DrainHolds'
  BY <1>1 DEF DrainTypes, CallTypes, CountTypes, DrainHolds
<1>7. HandleHasBlob'  BY <1>1, <1>3 DEF HandleHasBlob
<1>8. FuseTypes' /\ FuseHolds' /\ FuseAgrees'
  BY <1>1, IdleFacts DEF FuseTypes, FuseHolds, FuseAgrees
<1>9. DirtyBound'  BY <1>1, <1>2, <1>3, IdleFacts DEF DirtyBound, Staged
<1> QED  BY <1>3, <1>4, <1>5, <1>6, <1>7, <1>8, <1>9

-----------------------------------------------------------------------------
(* The calls of the kernel, the drain and the mounts. *)

\* After a call of the kernel the thread is idle or on its way to the second half
\* of a write, the uploads are as before, and every handle has its blob.
LEMMA KernelStep == Inv /\ KernelCall => Inv'
<1> SUFFICES ASSUME Inv, KernelCall  PROVE Inv'
  OBVIOUS
<1> USE DEF Inv, TypeAndCounts, Holds
<1> DEFINE Rest == /\ fuse'.pc = "idle" \/ (fuse'.pc = "ack" /\ fuse'.ino \in Inos /\ handle'[fuse'.ino] # NoHandle)
                   /\ HandleHasBlob' /\ DrainHolds' /\ UNCHANGED <<sidecar, session>> /\ SessionsAreExact'
<1>1. TypeAndCounts'  BY KernelTypes
<1>2. ASSUME NEW p \in Paths, NEW i \in Inos,
             create(p, i) \/ \E trunc \in BOOLEAN : Open(p, i, trunc)
      PROVE  Rest
  <2>1. PICK content \in Contents :
            /\ SetBlob(i, content) /\ ipath'[i] \in Paths
            /\ SetHandle(i, [path |-> ipath'[i], dirty |-> 0])
            /\ fuse.pc = "idle" /\ UNCHANGED <<sidecar, session, fuse>>
    <3>1. ASSUME NEW trunc \in BOOLEAN, Open(p, i, trunc)
          PROVE  /\ \E content \in Contents : SetBlob(i, content)
                 /\ ipath'[i] \in Paths
                 /\ SetHandle(i, [path |-> ipath'[i], dirty |-> 0])
                 /\ fuse.pc = "idle" /\ UNCHANGED <<sidecar, session, fuse>>
      <4>1. ipath'[i] \in Paths  BY <3>1, NotAPath DEF Open, Types, NameTypes
      <4> QED  BY <3>1, <4>1, SeedFacts DEF Open, Call, server
    <3>2. ASSUME create(p, i)
          PROVE  /\ <<>> \in Contents /\ SetBlob(i, <<>>) /\ ipath'[i] \in Paths
                 /\ SetHandle(i, [path |-> ipath'[i], dirty |-> 0])
                 /\ fuse.pc = "idle" /\ UNCHANGED <<sidecar, session, fuse>>
      BY <3>2, EmptyContent DEF create, Call, server, Types, NameTypes
    <3> QED  BY <1>2, <3>1, <3>2
  <2>2. SessionsAreExact'  BY <2>1, SetBlobKeeps DEF Uploads
  <2>3. DrainHolds'  BY <2>1, HandleFacts, SetHandleKeeps
  <2>4. HandleHasBlob'
    BY <2>1, MarksApart DEF SetBlob, SetHandle, HandleHasBlob, Types, BlobTypes, HandleTypes
  <2> QED  BY <2>1, <2>2, <2>3, <2>4
<1>3. ASSUME NEW i \in Inos, NEW off \in 0..(MaxStaging - 1), NEW len \in WriteSizes,
             WriteStage(i, off, len)
      PROVE  Rest
  <2>1. /\ Call /\ handle[i] # NoHandle /\ off \in Nat /\ len \in Nat
        /\ UNCHANGED <<handle, sidecar, session, drain>>
    BY <1>3, ConstantsAreNat DEF WriteStage, server
  <2>2. SessionsAreExact' /\ HandleHasBlob'
    <3>1. CASE off + len <= MaxStaging /\ SetBlob(i, write_blob_at(blob[i], off, len, calls'))
      <4>1. blob[i] \in Contents /\ calls' \in 0..MaxCalls
        BY <2>1, Parts, CallKeeps DEF HandleHasBlob, Types
      <4>2. write_blob_at(blob[i], off, len, calls') \in Contents
        BY <2>1, <3>1, <4>1, ConstantsAreNat, WriteFacts
      <4>3. SessionsAreExact'  BY <2>1, <3>1, <4>2, SetBlobKeeps DEF Uploads
      <4>4. blob' = [blob EXCEPT ![i] = write_blob_at(blob[i], off, len, calls')]
        BY <3>1 DEF SetBlob
      <4> QED  BY <2>1, <4>2, <4>3, <4>4, MarksApart DEF HandleHasBlob, Types, BlobTypes
    <3>2. CASE UNCHANGED <<blob, touched>>
      BY <2>1, <3>2 DEF Uploads, SessionsAreExact, HandleHasBlob
    <3> QED  BY <1>3, <3>1, <3>2 DEF WriteStage
  <2>3. \/ fuse' = fuse
        \/ fuse' = [Idle EXCEPT !.pc = "ack", !.ino = i, !.dirty = handle[i].dirty + len]
    BY <1>3 DEF WriteStage
  <2>4. fuse'.pc = "idle" \/ (fuse'.pc = "ack" /\ fuse'.ino = i)
    BY <2>1, <2>3 DEF Call, Idle
  <2> QED  BY <2>1, <2>2, <2>4 DEF DrainHolds
<1>4. ASSUME NEW i \in Inos, NEW close \in BOOLEAN, flush(i, close)
      PROVE  Rest
  <2>1. fuse.pc = "idle" /\ UNCHANGED <<blob, sidecar, session, fuse, drain, touched>>
    BY <1>4 DEF flush, Call, disk
  <2>2. \A j \in Inos : handle'[j] # NoHandle <=> handle[j] # NoHandle
    BY <1>4, FlushKeeps DEF flush
  <2> QED  BY <2>1, <2>2 DEF DrainHolds, HandleHasBlob, Uploads, SessionsAreExact
<1>5. ASSUME NEW i \in Inos, NEW size \in 0..MaxBlob, truncate(i, size)
      PROVE  Rest
  <2> DEFINE c == [k \in 1..size |-> IF k <= Len(blob[i]) THEN blob[i][k] ELSE 0]
  <2>1. fuse.pc = "idle" /\ UNCHANGED <<handle, sidecar, session, fuse, drain>> /\ SetBlob(i, c)
    BY <1>5 DEF truncate, Call, server
  <2>2. c \in Contents
    <3>1. blob[i] \in Contents  BY <1>5, Parts DEF truncate, HandleHasBlob
    <3>2. c \in [1..size -> 0..MaxCalls]  BY <3>1, ContentFacts, ConstantsAreNat
    <3> HIDE DEF c
    <3> QED  BY <3>2, ContentIntro
  <2> HIDE DEF c
  <2>3. SessionsAreExact'  BY <2>1, <2>2, SetBlobKeeps DEF Uploads
  <2>4. HandleHasBlob'
    BY <2>1, <2>2, MarksApart DEF SetBlob, HandleHasBlob, Types, BlobTypes
  <2> QED  BY <2>1, <2>3, <2>4 DEF DrainHolds
<1>6. ASSUME NEW i \in Inos, release(i)
      PROVE  Rest
  <2>1. fuse.pc = "idle" /\ UNCHANGED <<blob, sidecar, session, fuse, touched>> /\ SetHandle(i, NoHandle)
    BY <1>6 DEF release, disk, server
  <2>2. DrainHolds'  BY <2>1, HandleFacts, SetHandleKeeps
  <2>3. HandleHasBlob'  BY <2>1 DEF SetHandle, HandleHasBlob, Types, HandleTypes
  <2> QED  BY <2>1, <2>2, <2>3 DEF Uploads, SessionsAreExact
<1>7. ASSUME NEW p \in Paths, unlink(p)
      PROVE  Rest
  <2>1. fuse.pc = "idle" /\ UNCHANGED <<sidecar, session, fuse>>
    BY <1>7 DEF unlink, Call
  <2>2. ASSUME NEW i \in Inos, SetBlob(i, NoBlob), SetHandle(i, NoHandle)
        PROVE  Rest
    <3>1. SessionsAreExact'  BY <2>1, <2>2, SetBlobKeeps DEF Uploads
    <3>2. DrainHolds'  BY <2>2, HandleFacts, SetHandleKeeps
    <3>3. HandleHasBlob'
      BY <2>2 DEF SetBlob, SetHandle, HandleHasBlob, Types, BlobTypes, HandleTypes
    <3> QED  BY <2>1, <3>1, <3>2, <3>3
  <2>3. ASSUME UNCHANGED <<blob, touched, handle, drain>>
        PROVE  Rest
    BY <2>1, <2>3 DEF DrainHolds, HandleHasBlob, Uploads, SessionsAreExact
  <2> QED  BY <1>7, <2>2, <2>3 DEF unlink
<1>8. ASSUME NEW p \in Paths, NEW q \in Paths, rename(p, q)
      PROVE  Rest
  <2>1. fuse.pc = "idle" /\ UNCHANGED <<blob, sidecar, session, fuse, drain, touched>>
    BY <1>8 DEF rename, Call, disk
  <2>2. \A j \in Inos : handle'[j] # NoHandle => handle[j] # NoHandle
    BY <1>8, NotAPath DEF rename, NoHandle
  <2> QED  BY <2>1, <2>2 DEF DrainHolds, HandleHasBlob, Uploads, SessionsAreExact
<1>9. Rest
  BY <1>2, <1>3, <1>4, <1>5, <1>6, <1>7, <1>8 DEF KernelCall
<1>10. SidecarFits' /\ NoSharing'
  BY <1>9 DEF Uploads, SidecarFits, NoSharing
<1>11. FuseHolds' /\ FuseAgrees'
  BY <1>9 DEF FuseHolds, FuseAgrees
<1> QED  BY <1>1, <1>9, <1>10, <1>11 DEF Uploads

\* The drain changes files of the server and dirty counts, and keeps every handle.
LEMMA DrainStepInv == Inv /\ (DrainStep \/ DrainStart) => Inv'
<1> SUFFICES ASSUME Inv, DrainStep \/ DrainStart  PROVE Inv'
  OBVIOUS
<1> USE DEF Inv, TypeAndCounts, Holds, Types
<1>1. /\ UNCHANGED <<names, blob, sidecar, session, fuse, calls, stops, touched>>
      /\ drains' \in 0..MaxDrains
  <2>1. CASE DrainStart  BY <2>1, ConstantsAreNat DEF DrainStart, disk, server, CountTypes
  <2>2. CASE DrainStep
    BY <2>2 DEF DrainStep, DrainPick, DrainRead, DrainLand, DrainReset, DrainEnd, disk, server,
       counts,
                CountTypes
  <2> QED  BY <2>1, <2>2
<1> DEFINE Good == /\ HandleTypes' /\ RemoteTypes' /\ DrainTypes' /\ DrainHolds'
                   /\ \A j \in Inos : handle'[j].dirty <= Staged
                   /\ \A j \in Inos : handle'[j] # NoHandle <=> handle[j] # NoHandle
<1>2. NotDraining \in DrainStates /\ NotDraining.pc = "idle"
  BY ConstantsAreNat, EmptyContent, HandleFacts DEF NotDraining, DrainStates
<1>3. drain \in DrainStates  BY DEF DrainTypes
<1>4. DrainNext \in DrainStates /\ DrainNext.pc = "next"
  BY <1>2, <1>3 DEF DrainNext, NotDraining, DrainStates
<1>5. ASSUME UNCHANGED handle
      PROVE  /\ HandleTypes' /\ \A j \in Inos : handle'[j].dirty <= Staged
             /\ \A j \in Inos : handle'[j] # NoHandle <=> handle[j] # NoHandle
  BY <1>5 DEF HandleTypes, DirtyBound
<1>6. ASSUME DrainStart  PROVE Good
  <2>1. drain' \in DrainStates /\ drain'.pc = "next" /\ UNCHANGED <<handle, remote>>
    BY <1>2, <1>6 DEF DrainStart, DrainStates, NotDraining, server
  <2> QED  BY <1>5, <2>1 DEF RemoteTypes, DrainTypes, DrainHolds
<1>7. ASSUME NEW i \in Inos, DrainPick(i)  PROVE Good
  <2>1. UNCHANGED <<handle, remote>> /\ drain.pc = "next"
    BY <1>7 DEF DrainPick, server
  <2>2. DrainTypes' /\ DrainHolds'
    <3>1. CASE drain' = [drain EXCEPT !.todo = @ \ {i}]
      BY <1>3, <2>1, <3>1 DEF DrainTypes, DrainHolds, DrainStates
    <3>2. CASE handle[i] # NoHandle
      <4>1. handle[i].path \in Paths /\ i \in 0..MaxIno  BY <3>2, Parts DEF Inos
      <4>2. drain' = [drain EXCEPT !.pc = "read", !.todo = @ \ {i}, !.ino = i, !.path = handle[i].path]
        BY <1>7, <3>2 DEF DrainPick
      <4> QED  BY <1>3, <4>1, <4>2 DEF DrainTypes, DrainHolds, DrainStates
    <3> QED  BY <1>7, <3>1, <3>2 DEF DrainPick
  <2> QED  BY <1>5, <2>1, <2>2 DEF RemoteTypes
<1>8. ASSUME DrainRead  PROVE Good
  <2>1. UNCHANGED <<handle, remote>> /\ drain.pc = "read" /\ drain.ino \in Inos /\ drain.path \in Paths
    BY <1>8 DEF DrainRead, DrainHolds, server
  <2>2. DrainTypes' /\ DrainHolds'
    <3>1. CASE drain' = DrainNext  BY <1>4, <3>1 DEF DrainTypes, DrainHolds
    <3>2. CASE Uploadable(drain.ino) /\ drain' = [drain EXCEPT !.pc = "send", !.data = blob[drain.ino]]
      <4>1. blob[drain.ino] \in Contents  BY <2>1, <3>2, Parts DEF Uploadable
      <4> QED  BY <1>3, <2>1, <3>2, <4>1 DEF DrainTypes, DrainHolds, DrainStates
    <3> QED  BY <1>8, <3>1, <3>2 DEF DrainRead
  <2> QED  BY <1>5, <2>1, <2>2 DEF RemoteTypes
<1>9. ASSUME DrainLand  PROVE Good
  <2>1. UNCHANGED handle /\ drain.pc = "send" /\ drain.ino \in Inos /\ drain.path \in Paths
    BY <1>9 DEF DrainLand, DrainHolds
  <2>2. RemoteTypes'
    BY <1>3, <1>9, <2>1 DEF DrainLand, RemoteTypes, DrainStates
  <2>3. drain' = DrainNext \/ drain' = [drain EXCEPT !.pc = "reset"]
    BY <1>9 DEF DrainLand
  <2>4. DrainTypes' /\ DrainHolds'
    BY <1>3, <1>4, <2>1, <2>3 DEF DrainTypes, DrainHolds, DrainStates
  <2> QED  BY <1>5, <2>1, <2>2, <2>4
<1>10. ASSUME DrainReset  PROVE Good
  <2>1. drain' = DrainNext /\ UNCHANGED remote /\ drain.ino \in Inos
    BY <1>10 DEF DrainReset, DrainHolds, server
  <2>2. /\ HandleTypes' /\ \A j \in Inos : handle'[j].dirty <= Staged
        /\ \A j \in Inos : handle'[j] # NoHandle <=> handle[j] # NoHandle
    <3>1. CASE ResetDirty(drain.ino)  BY <2>1, <3>1, ResetKeeps
    <3>2. CASE UNCHANGED handle  BY <1>5, <3>2
    <3> QED  BY <1>10, <3>1, <3>2 DEF DrainReset
  <2> QED  BY <1>4, <2>1, <2>2 DEF RemoteTypes, DrainTypes, DrainHolds
<1>11. ASSUME DrainEnd  PROVE Good
  BY <1>2, <1>5, <1>11 DEF DrainEnd, RemoteTypes, DrainTypes, DrainHolds, server
<1>12. Good
  BY <1>6, <1>7, <1>8, <1>9, <1>10, <1>11 DEF DrainStep
<1> HIDE DEF Good
<1>13. NameTypes' /\ FdTypes' /\ FdsBound' /\ BlobTypes' /\ SidecarTypes' /\ SessionTypes'
  BY <1>1 DEF names, NameTypes, FdTypes, FdsBound, BlobTypes, SidecarTypes, SessionTypes
<1>14. FuseTypes' /\ CallTypes' /\ CountTypes'
  BY <1>1 DEF FuseTypes, CallTypes, CountTypes
<1>15. DirtyBound'  BY <1>1, <1>12 DEF DirtyBound, Staged, Good
<1>16. HandleHasBlob' /\ FuseHolds'  BY <1>1, <1>12 DEF HandleHasBlob, FuseHolds, Good
<1>17. Uploads' /\ FuseAgrees'
  BY <1>1 DEF Uploads, SidecarFits, NoSharing, SessionsAreExact, FuseAgrees
<1> QED  BY <1>12, <1>13, <1>14, <1>15, <1>16, <1>17 DEF Good

\* The next mount finds blobs and sessions as they were, and sidecars that it has
\* brought in line with the sessions.
LEMMA RemountStep == Inv /\ Remount => Inv'
<1> SUFFICES ASSUME Inv, Remount  PROVE Inv'
  OBVIOUS
<1> USE DEF Inv, TypeAndCounts, Holds, Types
<1>1. /\ UNCHANGED <<blob, session, remote, calls, drains, touched>> /\ fuse' = Idle /\ drain' = NotDraining
      /\ handle' = [i \in Inos |-> NoHandle]
  BY DEF Remount, server, counts
<1>2. NameTypes' /\ FdTypes' /\ FdsBound' /\ HandleTypes' /\ CountTypes'
  BY ConstantsAreNat, HandleFacts
  DEF Remount, counts, NameTypes, FdTypes, FdsBound, HandleTypes, CountTypes
<1>3. BlobTypes' /\ SessionTypes' /\ RemoteTypes' /\ CallTypes'
  BY <1>1 DEF BlobTypes, SessionTypes, RemoteTypes, CallTypes
<1>4. FuseTypes' /\ FuseHolds' /\ FuseAgrees'
  BY <1>1, IdleFacts DEF FuseTypes, FuseHolds, FuseAgrees
<1>5. DrainTypes' /\ DrainHolds'
  BY <1>1, ConstantsAreNat, EmptyContent, HandleFacts DEF NotDraining, DrainTypes, DrainStates,
     DrainHolds
<1>6. DirtyBound'
  <2>1. Staged \in Nat /\ Staged' = Staged  BY <1>1, StagedFits DEF Staged
  <2> QED  BY <1>1, <2>1, IdleFacts, HandleFacts DEF DirtyBound
<1>7. HandleHasBlob'  BY <1>1 DEF HandleHasBlob
<1>8. ASSUME NEW i \in Inos
      PROVE  /\ sidecar'[i] \in [id : 0..MaxSessions, total : 0..MaxBlob, acked : 0..MaxBlob]
             /\ sidecar'[i] # NoSidecar =>
                  /\ sidecar[i] # NoSidecar
                  /\ sidecar'[i].id = sidecar[i].id /\ sidecar'[i].total = sidecar[i].total
                  /\ sidecar'[i].acked <= sidecar[i].total
                  /\ session[sidecar[i].id].live => sidecar'[i].acked <= Len(session[sidecar[i].id].cells)
  <2> DEFINE p == sidecar[i]
             m == Min2(Len(session[p.id].cells), p.total)
  <2>1. sidecar'[i] \in replay_upload_sidecar(p)  BY DEF Remount
  <2>2. p \in [id : 0..MaxSessions, total : 0..MaxBlob, acked : 0..MaxBlob]
    BY DEF SidecarTypes
  <2>3. CASE sidecar'[i] = p  BY <2>2, <2>3 DEF Uploads, SidecarFits
  <2>4. CASE sidecar'[i] = NoSidecar  BY <2>4, ConstantsAreNat DEF NoSidecar
  <2>5. CASE p # NoSidecar /\ sidecar'[i] = [p EXCEPT !.acked = m]
    <3>1. m \in 0..MaxBlob /\ m <= p.total /\ m <= Len(session[p.id].cells)
      <4>1. Len(session[p.id].cells) \in Nat /\ p.total \in 0..MaxBlob
        BY <2>5, SidecarFacts DEF Uploads
      <4> QED  BY <4>1, ConstantsAreNat DEF Min2
    <3> HIDE DEF m
    <3> QED  BY <2>2, <2>5, <3>1
  <2> QED  BY <2>1, <2>3, <2>4, <2>5 DEF replay_upload_sidecar
<1>9. SidecarTypes'
  <2>1. sidecar' \in [Inos -> UNION {replay_upload_sidecar(sidecar[i]) : i \in Inos}]
    BY DEF Remount
  <2> QED  BY <1>8, <2>1 DEF SidecarTypes
<1>10. Uploads'
  <2>1. \A n \in 1..Len(session) : session'[n] = session[n] \/ session'[n] = Ended  BY <1>1
  <2>2. Len(session') = Len(session)  BY <1>1
  <2> QED  BY <1>1, <1>3, <1>8, <1>9, <2>1, <2>2, UploadsWeaken
<1> QED  BY <1>2, <1>3, <1>4, <1>5, <1>6, <1>7, <1>9, <1>10

-----------------------------------------------------------------------------
(* The theorems. *)

\* The first mount, on an empty staging directory, satisfies the invariant.
LEMMA InitInv == Init => Inv
<1> SUFFICES ASSUME Init  PROVE Inv
  OBVIOUS
<1> USE ConstantsAreNat DEF Init
<1>1. NameTypes /\ FdTypes /\ FdsBound /\ HandleTypes /\ CallTypes /\ CountTypes
  BY HandleFacts DEF NameTypes, FdTypes, FdsBound, HandleTypes, CallTypes, CountTypes
<1>2. BlobTypes /\ SidecarTypes /\ RemoteTypes
  BY DEF BlobTypes, SidecarTypes, RemoteTypes, NoSidecar
<1>3. SessionTypes  BY DEF SessionTypes
<1>4. FuseTypes /\ FuseHolds /\ FuseAgrees
  BY IdleFacts DEF FuseTypes, FuseHolds, FuseAgrees
<1>5. DrainTypes /\ DrainHolds
  BY EmptyContent, HandleFacts DEF NotDraining, DrainTypes, DrainStates, DrainHolds
<1>6. DirtyBound
  <2>1. Staged \in Nat  BY <1>1, StagedFits
  <2> QED  BY <2>1, IdleFacts, HandleFacts DEF DirtyBound
<1>7. HandleHasBlob /\ Uploads
  BY DEF HandleHasBlob, Uploads, SidecarFits, NoSharing, SessionsAreExact
<1> QED
  BY <1>1, <1>2, <1>3, <1>4, <1>5, <1>6, <1>7 DEF Inv, TypeAndCounts, Holds, Types

\* Every step keeps it.
LEMMA NextInv == Inv /\ [Next]_vars => Inv'
<1>1. Inv /\ FuseStep => Inv'
  BY AckStep, BeginStep, SendStep, RecordStep, SaveStep, EndStep DEF FuseStep
<1>2. Inv /\ UNCHANGED vars => Inv'
  <2> SUFFICES ASSUME Inv, UNCHANGED vars  PROVE Inv'
    OBVIOUS
  <2>1. Frame /\ UNCHANGED <<sidecar, session, remote, fuse, touched>>
    BY DEF vars, Frame, names, counts, disk, server
  <2> USE DEF Inv, TypeAndCounts, Holds, Types
  <2>2. SidecarTypes' /\ SessionTypes' /\ RemoteTypes' /\ FuseTypes' /\ touched' \in [Inos -> SUBSET (1..MaxBlob)]
    BY <2>1 DEF SidecarTypes, SessionTypes, RemoteTypes, FuseTypes, BlobTypes
  <2>3. Uploads' /\ FuseAgrees' /\ FuseHolds' /\ fuse'.dirty <= Staged
    BY <2>1 DEF Frame, Uploads, SidecarFits, NoSharing, SessionsAreExact, FuseAgrees, FuseHolds,
       DirtyBound
  <2> QED  BY <2>1, <2>2, <2>3, UploadStep
<1> QED
  BY <1>1, <1>2, KernelStep, DrainStepInv, RemountStep DEF Next, Environment

\* The invariant holds in every state of every sequence of mounts.
THEOREM Invariance == Spec => []Inv
  BY InitInv, NextInv, PTL DEF Spec

\* Every state of the write path is well-typed; in particular the staged bytes
\* never pass the process-wide ceiling, no blob or session grows past the staging
\* limit of a file, and a transfer is begun again at most once.
THEOREM TypeCorrect == Spec => []TypeOK
<1>1. Inv => TypeOK  BY TypesAreTypeOK DEF Inv, TypeAndCounts
<1> QED  BY <1>1, Invariance, PTL

\* What a sidecar says was acknowledged, a live session holds.
THEOREM AckedOnServer == Spec => []AckedChunksAreOnServer
<1>1. Inv => AckedChunksAreOnServer
  BY DEF Inv, Uploads, SidecarFits, AckedChunksAreOnServer
<1> QED  BY <1>1, Invariance, PTL

\* A step in which upload_save takes effect publishes the content of the session.
LEMMA SavesIsSaved ==
    ASSUME Inv, [Next]_vars, Saves
    PROVE  /\ fuse.pc = "send" /\ fuse.offset >= fuse.total /\ session[fuse.id].live
           /\ handle[fuse.ino].path \in Paths
           /\ remote'[handle[fuse.ino].path] = session[fuse.id].cells
<1>1. fuse.pc = "send" /\ fuse' # fuse /\ (fuse'.pc = "saved" \/ remote' # remote)
  BY DEF Saves
<1>2. fuse \in FuseStates /\ handle[fuse.ino].path \in Paths
  BY <1>1, UploadFacts
<1>3. ~KernelCall
  BY <1>1 DEF KernelCall, Open, create, WriteStage, flush, truncate, release, unlink, rename, Call
<1>4. ~DrainStep /\ ~DrainStart /\ ~UNCHANGED vars
  BY <1>1 DEF DrainStep, DrainStart, DrainPick, DrainRead, DrainLand, DrainReset, DrainEnd, vars
<1>5. ~Remount
  BY <1>1 DEF Remount, Idle, server
<1>6. ~WriteAck /\ ~WriteFlush /\ ~SessionBegin /\ ~RecordChunk /\ ~EndChunkedFlush
  BY <1>1 DEF WriteAck, WriteFlush, SessionBegin, RecordChunk, EndChunkedFlush
<1>7. ASSUME PermanentError \/ SessionFails  PROVE fuse'.pc # "saved"
  <2>1. CASE fuse' = Idle  BY <2>1, IdleFacts
  <2>2. CASE fuse' = [fuse EXCEPT !.pc = "session", !.restarts = @ - 1, !.id = 0, !.offset = 0,
                                  !.attempt = 0]
    BY <1>2, <2>2 DEF FuseStates
  <2> QED  BY <1>7, <2>1, <2>2 DEF PermanentError, SessionFails
<1>8. ~SendChunk
  BY <1>1, <1>2, <1>7 DEF SendChunk, Refused, FuseStates
<1>9. SaveUpload
  BY <1>3, <1>4, <1>5, <1>6, <1>8 DEF Next, FuseStep, Environment
<1>10. /\ session[fuse.id].live
       /\ remote' = [remote EXCEPT ![handle[fuse.ino].path] = session[fuse.id].cells]
  BY <1>1, <1>7, <1>9 DEF SaveUpload, Refused, server
<1> QED
  BY <1>1, <1>2, <1>9, <1>10 DEF SaveUpload, Inv, TypeAndCounts, Types, RemoteTypes

\* upload_save never publishes a file shorter or longer than the staged one.
THEOREM SavesWholeFiles == Spec => SavedFileIsWhole
<1>1. Inv /\ [Next]_vars
        => [Saves => Len(remote'[handle[fuse.ino].path]) = Len(blob[fuse.ino])]_vars
  BY SavesIsSaved, SavedContent
<1> QED  BY <1>1, Invariance, PTL DEF Spec, SavedFileIsWhole

\* What it publishes differs from the staged file only in chunks that were
\* rewritten after the server had them.
THEOREM SavesExactChunks == Spec => UntouchedChunksAreExact
<1>1. Inv /\ [Next]_vars
        => [Saves => \A k \in 1..Len(blob[fuse.ino]) :
                k \notin touched[fuse.ino] => remote'[handle[fuse.ino].path][k] = blob[fuse.ino][k]]_vars
  BY SavesIsSaved, SavedContent
<1> QED  BY <1>1, Invariance, PTL DEF Spec, UntouchedChunksAreExact

====
