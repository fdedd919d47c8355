---------------------------- MODULE WadfsProofs -----------------------------
(***************************************************************************)
(* Theorems about Wadfs, for any users, any calls, any WAD and any size of *)
(* the kernel's write requests.                                            *)
(***************************************************************************)
EXTENDS Wadfs, FileTreeProofs

-----------------------------------------------------------------------------
(* How a step changes the call a user is in                                *)

IsCall(c) == c = [op |-> c.op, path |-> c.path, data |-> c.data,
                  stage |-> c.stage, done |-> c.done, count |-> c.count]

\* Every user is in one call, or in NoCall.
CallsWellFormed ==
    /\ call = [u \in Users |-> call[u]]
    /\ \A u \in Users : IsCall(call[u])

\* The call of one user moves to a stage; the others' calls stay as they are.
Moves(u, stages) ==
    /\ call'[u].stage \in stages
    /\ \A v \in Users \ {u} : call'[v] = call[v]

\* A call with another stage, or other counts, is a call.
LEMMA CallReplaced ==
  ASSUME NEW c, IsCall(c), NEW x
  PROVE  /\ IsCall([c EXCEPT !.stage = x]) /\ [c EXCEPT !.stage = x].stage = x
         /\ IsCall([c EXCEPT !.done = x])
         /\ IsCall([c EXCEPT !.count = x]) /\ [c EXCEPT !.count = x].stage = c.stage
BY DEF IsCall

\* A step that replaces one call by another.
LEMMA Replacing ==
  ASSUME CallsWellFormed, NEW u \in Users, NEW c, IsCall(c), call' = [call EXCEPT ![u] = c]
  PROVE  CallsWellFormed' /\ Moves(u, {c.stage})
<1>1. DOMAIN call = Users
  BY DEF CallsWellFormed
<1>2. \A v \in Users : call'[v] = IF v = u THEN c ELSE call[v]
  BY <1>1
<1>3. call' = [v \in Users |-> call'[v]]
  BY <1>1
<1>4. \A v \in Users : IsCall(call'[v])
  BY <1>2 DEF CallsWellFormed
<1> QED
  BY <1>2, <1>3, <1>4 DEF CallsWellFormed, Moves

LEMMA Staging ==
  ASSUME CallsWellFormed, NEW u \in Users, NEW stage, Stage(u, stage)
  PROVE  CallsWellFormed' /\ Moves(u, {stage})
<1> DEFINE c == [call[u] EXCEPT !.stage = stage]
<1>1. call' = [call EXCEPT ![u] = c]
  BY DEF Stage
<1>2. IsCall(c) /\ c.stage = stage
  BY DEF CallsWellFormed, IsCall
<1> HIDE DEF c
<1> QED
  BY <1>1, <1>2, Replacing

\* A call that returns leaves its user ready for another.
LEMMA Returning ==
  ASSUME CallsWellFormed, NEW u \in Users, call' = [call EXCEPT ![u] = NoCall]
  PROVE  CallsWellFormed' /\ Moves(u, {"ready"})
<1>1. IsCall(NoCall) /\ NoCall.stage = "ready"
  BY DEF IsCall, NoCall
<1> QED
  BY <1>1, Replacing

LEMMA Answering ==
  ASSUME CallsWellFormed, NEW u \in Users, NEW count, ChunkAnswered(u, count)
  PROVE  CallsWellFormed' /\ Moves(u, {"made", "locked"})
<1> DEFINE stage == IF Stops(call[u], count) THEN "made" ELSE "locked"
           done == [call[u] EXCEPT !.done = @ + count]
           idle == [done EXCEPT !.count = 0]
           c == [idle EXCEPT !.stage = stage]
<1>1. call' = [call EXCEPT ![u] = c]
  BY DEF ChunkAnswered, CallsWellFormed
<1>2. IsCall(c) /\ c.stage = stage
  <2>1. IsCall(call[u])
    BY DEF CallsWellFormed
  <2>2. IsCall(done)
    BY <2>1, CallReplaced
  <2>3. IsCall(idle)
    <3> HIDE DEF done
    <3> QED
      BY <2>2, CallReplaced
  <2> HIDE DEF stage, idle
  <2> QED
    BY <2>3, CallReplaced
<1>3. stage \in {"made", "locked"}
  OBVIOUS
<1> HIDE DEF c, stage
<1> QED
  BY <1>1, <1>2, <1>3, Replacing DEF Moves

-----------------------------------------------------------------------------
(* Every step leaves every user in one call                                *)

LEMMA ProceedWellFormed ==
  ASSUME CallsWellFormed, NEW u \in Users, Proceed(u)
  PROVE  CallsWellFormed'
<1>1. CASE NoParent(u) \/ NameTaken(u) \/ OpenFails(u) \/ MadeNothing(u) \/ Made(u)
           \/ ReadFile(u) \/ WriteReturns(u)
  <2>1. call' = [call EXCEPT ![u] = NoCall]
    BY <1>1 DEF NoParent, NameTaken, OpenFails, MadeNothing, Made, ReadFile, WriteReturns,
                Fail, Succeed
  <2> QED
    BY <2>1, Returning
<1>2. CASE LockParent(u) \/ LockFile(u) \/ NameFree(u) \/ Mkdir(u) \/ Mknod(u)
  <2>1. PICK stage : Stage(u, stage)
    BY <1>2 DEF LockParent, LockFile, NameFree, Mkdir, Mknod
  <2> QED
    BY <2>1, Staging
<1>3. CASE SendChunk(u) /\ wadPc' = "idle"
  <2>1. ChunkAnswered(u, 0)
    BY <1>3 DEF SendChunk
  <2> QED
    BY <2>1, Answering
<1>4. CASE SendChunk(u) /\ wadPc' # "idle"
  <2> DEFINE served == [call[u] EXCEPT !.stage = "served"]
             c == [served EXCEPT !.count = off' - off]
  <2>1. call' = [call EXCEPT ![u] = c]
    BY <1>4 DEF SendChunk, CallsWellFormed
  <2>2. IsCall(c)
    <3>1. IsCall(served)
      BY CallReplaced DEF CallsWellFormed
    <3> HIDE DEF served
    <3> QED
      BY <3>1, CallReplaced
  <2> HIDE DEF c
  <2> QED
    BY <2>1, <2>2, Replacing
<1>5. CASE ChunkRefused(u) \/ ChunkWritten(u)
  <2>1. PICK count : ChunkAnswered(u, count)
    BY <1>5 DEF ChunkRefused, ChunkWritten
  <2> QED
    BY <2>1, Answering
<1> QED
  BY <1>1, <1>2, <1>3, <1>4, <1>5 DEF Proceed

LEMMA NextWellFormed ==
  ASSUME CallsWellFormed, [FsNext]_fsVars
  PROVE  CallsWellFormed'
<1>1. CASE UNCHANGED call
  BY <1>1 DEF CallsWellFormed, IsCall
<1>2. CASE Mount \/ Library \/ UNCHANGED fsVars
  BY <1>1, <1>2 DEF Mount, Library, fsVars
<1>3. CASE Unmount
  BY <1>3 DEF Unmount, CallsWellFormed, IsCall, NoCall
<1>4. ASSUME NEW u \in Users, Proceed(u) PROVE CallsWellFormed'
  BY <1>4, ProceedWellFormed
<1>5. ASSUME NEW u \in Users, NEW c \in Calls, Begin(u, c) PROVE CallsWellFormed'
  <2> DEFINE begun == [op |-> c.op, path |-> c.path, data |-> c.data,
                       stage |-> "waiting", done |-> 0, count |-> 0]
  <2>1. call' = [call EXCEPT ![u] = begun] /\ IsCall(begun)
    BY <1>5 DEF Begin, IsCall
  <2> HIDE DEF begun
  <2> QED
    BY <2>1, Replacing
<1> QED
  BY <1>2, <1>3, <1>4, <1>5 DEF FsNext

-----------------------------------------------------------------------------
(* How far a call comes in a step                                          *)

\* The call keeps what its user asked for.
SameCall(c, d) == d.op = c.op /\ d.path = c.path /\ d.data = c.data

OthersSame(u) == \A v \in Users \ {u} : call'[v] = call[v]

\* The call moves to another stage.
StageMoved(c, d, stage) ==
    SameCall(c, d) /\ d.stage = stage /\ d.done = c.done /\ d.count = c.count

\* A write counts bytes as answered, and waits for the next chunk or the end.
BytesAnswered(c, d, count) ==
    /\ SameCall(c, d) /\ d.stage \in {"made", "locked"}
    /\ d.done = c.done + count /\ d.count = 0
    /\ d.stage = "locked" => ~ Stops(c, count)

\* The library is at work for a write, of which it has counted bytes.
BytesTaken(c, d, count) ==
    SameCall(c, d) /\ d.stage = "served" /\ d.done = c.done /\ d.count = count

LEMMA OneReplaced ==
  ASSUME CallsWellFormed, NEW u \in Users, NEW c, call' = [call EXCEPT ![u] = c]
  PROVE  call'[u] = c /\ OthersSame(u)
BY DEF CallsWellFormed, OthersSame

\* A call with one field replaced keeps the others.
LEMMA CallFields ==
  ASSUME NEW c, IsCall(c), NEW x
  PROVE  /\ LET d == [c EXCEPT !.stage = x]
            IN  IsCall(d) /\ SameCall(c, d) /\ d.stage = x /\ d.done = c.done /\ d.count = c.count
         /\ LET d == [c EXCEPT !.done = x]
            IN  IsCall(d) /\ SameCall(c, d) /\ d.stage = c.stage /\ d.done = x /\ d.count = c.count
         /\ LET d == [c EXCEPT !.count = x]
            IN  IsCall(d) /\ SameCall(c, d) /\ d.stage = c.stage /\ d.done = c.done /\ d.count = x
BY DEF IsCall, SameCall

LEMMA StageIs ==
  ASSUME CallsWellFormed, NEW u \in Users, NEW stage, Stage(u, stage)
  PROVE  OthersSame(u) /\ StageMoved(call[u], call'[u], stage)
<1> DEFINE c == [call[u] EXCEPT !.stage = stage]
<1>1. call' = [call EXCEPT ![u] = c]
  BY DEF Stage
<1>2. IsCall(call[u])
  BY DEF CallsWellFormed
<1>3. StageMoved(call[u], c, stage)
  BY <1>2, CallFields DEF StageMoved
<1> HIDE DEF c
<1>4. call'[u] = c /\ OthersSame(u)
  BY <1>1, OneReplaced
<1> QED
  BY <1>3, <1>4

LEMMA AnswerIs ==
  ASSUME CallsWellFormed, NEW u \in Users, NEW count, ChunkAnswered(u, count)
  PROVE  OthersSame(u) /\ BytesAnswered(call[u], call'[u], count)
<1> DEFINE stage == IF Stops(call[u], count) THEN "made" ELSE "locked"
           done == [call[u] EXCEPT !.done = call[u].done + count]
           idle == [done EXCEPT !.count = 0]
           c == [idle EXCEPT !.stage = stage]
<1>1. call' = [call EXCEPT ![u] = c]
  BY DEF ChunkAnswered, CallsWellFormed
<1>2. IsCall(call[u])
  BY DEF CallsWellFormed
<1>3. /\ IsCall(done) /\ SameCall(call[u], done) /\ done.done = call[u].done + count
  BY <1>2, CallFields
<1>4. IsCall(idle) /\ SameCall(done, idle) /\ idle.done = done.done /\ idle.count = 0
  <2> HIDE DEF done
  <2> QED
    BY <1>3, CallFields
<1>5. SameCall(idle, c) /\ c.done = idle.done /\ c.count = idle.count /\ c.stage = stage
  <2> HIDE DEF idle, stage
  <2> QED
    BY <1>4, CallFields
<1>6. stage \in {"made", "locked"} /\ (stage = "locked" => ~ Stops(call[u], count))
  OBVIOUS
<1> HIDE DEF c, idle, done, stage
<1>7. BytesAnswered(call[u], c, count)
  BY <1>3, <1>4, <1>5, <1>6 DEF BytesAnswered, SameCall
<1>8. call'[u] = c /\ OthersSame(u)
  BY <1>1, OneReplaced
<1> QED
  BY <1>7, <1>8

LEMMA SendIs ==
  ASSUME CallsWellFormed, NEW u \in Users, SendChunk(u)
  PROVE  /\ OthersSame(u)
         /\ \/ BytesAnswered(call[u], call'[u], 0)
            \/ BytesTaken(call[u], call'[u], off' - off)
<1>1. CASE wadPc' = "idle"
  <2>1. ChunkAnswered(u, 0)
    BY <1>1 DEF SendChunk
  <2> QED
    BY <2>1, AnswerIs
<1>2. CASE wadPc' # "idle"
  <2> DEFINE served == [call[u] EXCEPT !.stage = "served"]
             c == [served EXCEPT !.count = off' - off]
  <2>1. call' = [call EXCEPT ![u] = c]
    BY <1>2 DEF SendChunk, CallsWellFormed
  <2>2. IsCall(call[u])
    BY DEF CallsWellFormed
  <2>3. IsCall(served) /\ SameCall(call[u], served) /\ served.stage = "served"
        /\ served.done = call[u].done
    BY <2>2, CallFields
  <2>4. SameCall(served, c) /\ c.stage = served.stage /\ c.done = served.done
        /\ c.count = off' - off
    <3> HIDE DEF served
    <3> QED
      BY <2>3, CallFields
  <2> HIDE DEF c, served
  <2>5. BytesTaken(call[u], c, off' - off)
    BY <2>3, <2>4 DEF BytesTaken, SameCall
  <2>6. call'[u] = c /\ OthersSame(u)
    BY <2>1, OneReplaced
  <2> QED
    BY <2>5, <2>6
<1> QED
  BY <1>1, <1>2

\* What a step of a call does to it.
LEMMA ProceedIs ==
  ASSUME CallsWellFormed, NEW u \in Users, Proceed(u)
  PROVE  /\ OthersSame(u)
         /\ \/ call'[u] = NoCall
            \/ /\ call[u].op \in Creations
               /\ \E stage \in {"locked", "absent", "served"} :
                     StageMoved(call[u], call'[u], stage)
            \/ LockFile(u) /\ StageMoved(call[u], call'[u], "locked")
            \/ SendChunk(u) /\ BytesAnswered(call[u], call'[u], 0)
            \/ SendChunk(u) /\ BytesTaken(call[u], call'[u], off' - off)
            \/ ChunkRefused(u) /\ BytesAnswered(call[u], call'[u], 0)
            \/ ChunkWritten(u) /\ BytesAnswered(call[u], call'[u], call[u].count)
<1>1. CASE NoParent(u) \/ NameTaken(u) \/ OpenFails(u) \/ MadeNothing(u) \/ Made(u)
           \/ ReadFile(u) \/ WriteReturns(u)
  <2>1. call' = [call EXCEPT ![u] = NoCall]
    BY <1>1 DEF NoParent, NameTaken, OpenFails, MadeNothing, Made, ReadFile, WriteReturns,
                Fail, Succeed
  <2> QED
    BY <2>1, OneReplaced
<1>2. CASE LockParent(u) \/ NameFree(u) \/ Mkdir(u) \/ Mknod(u)
  <2>1. PICK stage \in {"locked", "absent", "served"} : Stage(u, stage)
    BY <1>2 DEF LockParent, NameFree, Mkdir, Mknod
  <2>2. call[u].op \in Creations
    BY <1>2 DEF LockParent, NameFree, Mkdir, Mknod, At, Creations
  <2> QED
    BY <2>1, <2>2, StageIs
<1>3. CASE LockFile(u)
  BY <1>3, StageIs DEF LockFile
<1>4. CASE SendChunk(u)
  BY <1>4, SendIs
<1>5. CASE ChunkRefused(u)
  BY <1>5, AnswerIs DEF ChunkRefused
<1>6. CASE ChunkWritten(u)
  BY <1>6, AnswerIs DEF ChunkWritten
<1> QED
  BY <1>1, <1>2, <1>3, <1>4, <1>5, <1>6 DEF Proceed

-----------------------------------------------------------------------------
(* The daemon is a client of the library                                   *)

\* Every call is one of Calls, and answers no more bytes than it has.
IsAsked(c) ==
    \E asked \in Calls :
       /\ c.path = asked.path /\ c.data = asked.data
       /\ c.done \in Nat /\ c.count \in Nat
       /\ c.done + c.count <= Len(asked.data)
Asked == \A u \in Users : call[u] = NoCall \/ IsAsked(call[u])

\* The request that is sent next, and the place it goes to.
LEMMA ChunkServed ==
  ASSUME CallsServed, NEW c, IsAsked(c)
  PROVE  /\ c.path \in Paths /\ Chunk(c) \in Buffers /\ c.done \in WriteOffsets
         /\ Len(Chunk(c)) \in Nat /\ c.done + Len(Chunk(c)) <= Len(c.data)
         /\ c.done < Len(c.data) => Len(Chunk(c)) > 0
<1>1. PICK asked \in Calls :
         /\ c.path = asked.path /\ c.data = asked.data
         /\ c.done \in Nat /\ c.count \in Nat /\ c.done + c.count <= Len(asked.data)
  BY DEF IsAsked
<1> DEFINE data == asked.data
           S == {data[i] : i \in DOMAIN data}
           last == IF c.done + ChunkSize < Len(data) THEN c.done + ChunkSize ELSE Len(data)
<1>2. /\ c.path \in Paths /\ data \in Seq(S) /\ 0 .. Len(data) \subseteq WriteOffsets
      /\ \A i, j \in 0 .. Len(data) : SubSeq(data, i + 1, j) \in Buffers
  BY <1>1 DEF CallsServed
<1>3. Chunk(c) = SubSeq(data, c.done + 1, last)
  BY <1>1 DEF Chunk
<1> HIDE DEF S
<1>4. Len(data) \in Nat
  BY <1>2
<1>5. c.done \in 0 .. Len(data) /\ last \in 0 .. Len(data) /\ c.done <= last /\ last <= Len(data)
  BY <1>1, <1>4, ChunkAssumption
<1>6. Chunk(c) \in Buffers
  BY <1>2, <1>3, <1>5
<1> HIDE DEF data
<1>7. Len(SubSeq(data, c.done + 1, last)) = last - c.done
  <2> HIDE DEF last
  <2>1. c.done + 1 \in 1 .. Len(data) + 1 /\ last \in c.done .. Len(data)
    BY <1>4, <1>5
  <2> DEFINE part == SubSeq(data, c.done + 1, last)
  <2>2. part = [i \in 1 .. (1 + last - (c.done + 1)) |-> data[i + (c.done + 1) - 1]]
    BY <1>2, <2>1
  <2>3. Len(part) \in Nat /\ DOMAIN part = 1 .. Len(part)
    BY <1>2, <2>1
  <2> DEFINE size == last - c.done
  <2>4. size \in Nat /\ 1 + last - (c.done + 1) = size
    BY <1>1, <1>4, <2>1
  <2>5. DOMAIN part = 1 .. size
    <3> HIDE DEF size
    <3> QED
      BY <2>2, <2>4
  <2> HIDE DEF part, size
  <2>6. Len(part) = size
    <3> DEFINE len == Len(part)
    <3>1. len \in Nat /\ 1 .. len = 1 .. size
      BY <2>3, <2>5
    <3> HIDE DEF len
    <3>2. \A i \in Nat : 1 <= i /\ i <= len <=> 1 <= i /\ i <= size
      BY <2>4, <3>1
    <3> QED
      BY <2>4, <3>1, <3>2 DEF len
  <2> QED
    BY <2>6 DEF part, size
<1>8. Len(Chunk(c)) = last - c.done
  BY <1>3, <1>7
<1>9. /\ Len(Chunk(c)) \in Nat /\ c.done + Len(Chunk(c)) <= Len(data)
      /\ c.done < Len(data) => Len(Chunk(c)) > 0
  BY <1>1, <1>4, <1>5, <1>8, ChunkAssumption
<1>10. c.done \in WriteOffsets /\ c.path \in Paths
  BY <1>2, <1>5 DEF data
<1> QED
  BY <1>1, <1>6, <1>9, <1>10 DEF data

\* write(2) counts at most the bytes it is given.
LEMMA BytesCounted ==
  ASSUME ShapeInv, NEW path, NEW buffer \in Buffers, NEW offset, WriteToFile(path, buffer, offset)
  PROVE  off' - off \in 0 .. Len(buffer)
<1>1. Len(buffer) \in Nat /\ off \in Nat
  BY SizesAssumption DEF ShapeInv, MemoryInv
<1>2. PICK result \in IF ShortWrites THEN -1 .. Len(buffer) ELSE {Len(buffer)} :
         off' = off + Counted(result)
  BY Zenon DEF WriteToFile, MovedOffset
<1>3. Counted(result) \in 0 .. Len(buffer)
  BY <1>1 DEF Counted
<1> QED
  BY <1>1, <1>2, <1>3

\* A user that is in a call of some kind is in one of Calls.
LEMMA InCall ==
  ASSUME Asked, NEW u \in Users, NEW ops, NEW stage, At(u, ops, stage), "none" \notin ops
  PROVE  IsAsked(call[u])
<1>1. call[u] # NoCall
  BY DEF At, NoCall
<1> QED
  BY <1>1 DEF Asked

\* What the daemon does to the library is what a client of it may do.
LEMMA ClientSteps ==
  ASSUME CallsServed, Asked, [FsNext]_fsVars
  PROVE  [Next]_vars
<1>1. CASE Mount \/ Unmount \/ Library
  BY <1>1 DEF Mount, Unmount, Library, Next
<1>2. ASSUME NEW u \in Users, Proceed(u) PROVE [Next]_vars
  <2>1. CASE Mkdir(u) \/ Mknod(u)
    <3>1. At(u, {"mkdir", "mknod"}, "absent")
      BY <2>1 DEF Mkdir, Mknod, At
    <3>2. call[u].path \in Paths
      BY <3>1, InCall, ChunkServed
    <3>3. CreateDirectory(call[u].path) \/ CreateFile(call[u].path) \/ UNCHANGED vars
      BY <2>1 DEF Mkdir, Mknod
    <3> QED
      BY <3>2, <3>3, Zenon DEF Next
  <2>2. CASE SendChunk(u)
    <3>1. IsAsked(call[u])
      BY <2>2, InCall DEF SendChunk
    <3>2. call[u].path \in Paths /\ Chunk(call[u]) \in Buffers /\ call[u].done \in WriteOffsets
      BY <3>1, ChunkServed
    <3>3. WriteToFile(call[u].path, Chunk(call[u]), call[u].done)
      BY <2>2 DEF SendChunk
    <3> QED
      BY <3>2, <3>3, Zenon DEF Next
  <2>3. CASE ChunkRefused(u)
    <3>1. IsAsked(call[u])
      BY <2>3, InCall DEF ChunkRefused
    <3>2. call[u].path \in Paths
      BY <3>1, ChunkServed
    <3>3. RefuseWrite(call[u].path) \/ WriteToNothing(call[u].path)
      BY <2>3 DEF ChunkRefused
    <3> QED
      BY <3>2, <3>3, Zenon DEF Next
  <2>4. CASE UNCHANGED vars
    BY <2>4
  <2> QED
    BY <1>2, <2>1, <2>2, <2>3, <2>4
       DEF Proceed, NoParent, LockParent, NameTaken, NameFree, MadeNothing, Made, OpenFails,
           ReadFile, LockFile, ChunkWritten, WriteReturns
<1>3. ASSUME NEW u \in Users, NEW c \in Calls, Begin(u, c) PROVE [Next]_vars
  BY <1>3 DEF Begin
<1>4. CASE UNCHANGED fsVars
  BY <1>4 DEF fsVars
<1> QED
  BY <1>1, <1>2, <1>3, <1>4 DEF FsNext

LEMMA NextAsked ==
  ASSUME CallsServed, CallsWellFormed, ShapeInv, Asked, [FsNext]_fsVars
  PROVE  Asked'
<1>1. CASE UNCHANGED call
  BY <1>1 DEF Asked, IsAsked
<1>2. CASE Unmount
  BY <1>2 DEF Unmount, Asked
<1>3. ASSUME NEW u \in Users, OthersSame(u), call'[u] = NoCall \/ IsAsked(call'[u]) PROVE Asked'
  BY <1>3 DEF OthersSame, Asked, IsAsked
<1>4. ASSUME NEW u \in Users, NEW c \in Calls, Begin(u, c) PROVE Asked'
  <2> DEFINE begun == [op |-> c.op, path |-> c.path, data |-> c.data,
                       stage |-> "waiting", done |-> 0, count |-> 0]
  <2>1. call' = [call EXCEPT ![u] = begun]
    BY <1>4 DEF Begin
  <2>2. IsAsked(begun)
    <3>1. Len(c.data) \in Nat
      BY DEF CallsServed
    <3> QED
      BY <3>1 DEF IsAsked
  <2> HIDE DEF begun
  <2> QED
    BY <1>3, <2>1, <2>2, OneReplaced
<1>5. ASSUME NEW u \in Users, Proceed(u) PROVE Asked'
  <2>1. ASSUME IsAsked(call[u]), SameCall(call[u], call'[u]),
               call'[u].done \in Nat, call'[u].count \in Nat,
               call'[u].done + call'[u].count <= Len(call[u].data)
        PROVE  IsAsked(call'[u])
    BY <2>1 DEF IsAsked, SameCall
  <2>2. ASSUME IsAsked(call[u])
        PROVE  /\ call[u].done \in Nat /\ call[u].count \in Nat
               /\ call[u].done + call[u].count <= Len(call[u].data)
               /\ Len(call[u].data) \in Nat
    BY <2>2 DEF IsAsked, CallsServed
  <2>3. CASE call'[u] = NoCall
    BY <1>3, <1>5, <2>3, ProceedIs
  <2>4. CASE call[u].op \in Creations /\ \E stage \in {"locked", "absent", "served"} :
                StageMoved(call[u], call'[u], stage)
    <3>1. IsAsked(call[u])
      BY <2>4 DEF Asked, NoCall, Creations
    <3>2. IsAsked(call'[u])
      BY <2>1, <2>2, <2>4, <3>1 DEF StageMoved
    <3> QED
      BY <1>3, <1>5, <3>2, ProceedIs
  <2>5. CASE LockFile(u) /\ StageMoved(call[u], call'[u], "locked")
    <3>1. IsAsked(call[u])
      BY <2>5, InCall DEF LockFile
    <3>2. IsAsked(call'[u])
      BY <2>1, <2>2, <2>5, <3>1 DEF StageMoved
    <3> QED
      BY <1>3, <1>5, <3>2, ProceedIs
  <2>6. CASE (SendChunk(u) \/ ChunkRefused(u)) /\ BytesAnswered(call[u], call'[u], 0)
    <3>1. IsAsked(call[u])
      BY <2>6, InCall DEF SendChunk, ChunkRefused
    <3>2. IsAsked(call'[u])
      BY <2>1, <2>2, <2>6, <3>1 DEF BytesAnswered
    <3> QED
      BY <1>3, <1>5, <3>2, ProceedIs
  <2>7. CASE SendChunk(u) /\ BytesTaken(call[u], call'[u], off' - off)
    <3>1. IsAsked(call[u])
      BY <2>7, InCall DEF SendChunk
    <3>2. /\ Chunk(call[u]) \in Buffers /\ Len(Chunk(call[u])) \in Nat
          /\ call[u].done + Len(Chunk(call[u])) <= Len(call[u].data)
      BY <3>1, ChunkServed
    <3>3. WriteToFile(call[u].path, Chunk(call[u]), call[u].done)
      BY <2>7 DEF SendChunk
    <3>4. off' - off \in 0 .. Len(Chunk(call[u]))
      BY <3>2, <3>3, BytesCounted
    <3>5. SameCall(call[u], call'[u]) /\ call'[u].done = call[u].done
          /\ call'[u].count = off' - off
      BY <2>7 DEF BytesTaken
    <3>6. call'[u].done + call'[u].count <= Len(call[u].data) /\ call'[u].count \in Nat
      <4> DEFINE size == Len(Chunk(call[u]))
      <4>1. size \in Nat /\ off' - off \in 0 .. size
            /\ call[u].done + size <= Len(call[u].data)
        BY <3>2, <3>4
      <4> HIDE DEF size
      <4> QED
        BY <2>2, <3>1, <3>5, <4>1
    <3>7. IsAsked(call'[u])
      BY <2>1, <2>2, <3>1, <3>5, <3>6
    <3> QED
      BY <1>3, <1>5, <3>7, ProceedIs
  <2>8. CASE ChunkWritten(u) /\ BytesAnswered(call[u], call'[u], call[u].count)
    <3>1. IsAsked(call[u])
      BY <2>8, InCall DEF ChunkWritten
    <3>2. IsAsked(call'[u])
      BY <2>1, <2>2, <2>8, <3>1 DEF BytesAnswered
    <3> QED
      BY <1>3, <1>5, <3>2, ProceedIs
  <2> QED
    BY <1>5, <2>3, <2>4, <2>5, <2>6, <2>7, <2>8, ProceedIs, Zenon
<1>6. CASE Mount \/ Library \/ UNCHANGED fsVars
  BY <1>1, <1>6 DEF Mount, Library, fsVars
<1> QED
  BY <1>2, <1>4, <1>5, <1>6 DEF FsNext

\* The users' calls are served, and memory and header have their shape.
ClientInv == CallsWellFormed /\ Asked /\ ShapeInv

LEMMA InitClient == FsInit => ClientInv
<1> SUFFICES ASSUME FsInit PROVE ClientInv
  OBVIOUS
<1>1. CallsWellFormed
  BY DEF FsInit, CallsWellFormed, IsCall, NoCall
<1>2. Asked
  BY DEF FsInit, Asked
<1>3. ShapeInv
  BY InitShape DEF FsInit
<1> QED
  BY <1>1, <1>2, <1>3 DEF ClientInv

LEMMA NextClient ==
  ASSUME CallsServed, ClientInv, [FsNext]_fsVars
  PROVE  ClientInv'
<1>1. CallsWellFormed'
  BY NextWellFormed DEF ClientInv
<1>2. Asked'
  BY NextAsked DEF ClientInv
<1>3. ShapeInv'
  BY ClientSteps, NextShape DEF ClientInv, StepKeeps
<1> QED
  BY <1>1, <1>2, <1>3 DEF ClientInv

\* wadfs asks nothing of the library that the library's clients may not ask:
\* what is proved of Wad for every client holds behind the mount point.
THEOREM LibraryServed ==
  ASSUME CallsServed
  PROVE  FsSpec => Spec
<1>1. FsInit => Init
  BY DEF FsInit
<1>2. ClientInv /\ [FsNext]_fsVars => [Next]_vars
  BY ClientSteps DEF ClientInv
<1>3. ClientInv /\ [FsNext]_fsVars => ClientInv'
  BY NextClient
<1> QED
  BY <1>1, <1>2, <1>3, InitClient, PTL DEF FsSpec, Spec

-----------------------------------------------------------------------------
(* How many requests a call takes                                          *)

\* The steps a call may have yet, at the most: at the worst a write sends each
\* byte that is left in a request of its own, and waits for its answer.
CallLeft(c) ==
    LET bytes == Len(c.data) - c.done
    IN  CASE c.stage = "waiting" -> 3 * bytes + 5
          [] c.stage = "locked"  -> 3 * bytes + 4
          [] c.stage = "absent"  -> 3 * bytes + 3
          [] c.stage = "served"  -> 3 * bytes + 2
          [] c.stage = "made"    -> 1
          [] OTHER               -> 0

\* The steps the library has yet to take before it returns.
LibraryLeft ==
    CASE wadPc = "writeNum"  -> Len(descriptors) + 3
      [] wadPc = "writeOff"  -> Len(descriptors) + 2
      [] wadPc = "writeList" -> Len(descriptors) + 2 - written
      [] OTHER               -> 0

\* The call and the library go on to their ends, however others go on.
CallRuns(u) ==
    call[u] # NoCall =>
       /\ CallLeft(call'[u]) <= CallLeft(call[u])
       /\ Proceed(u) => CallLeft(call'[u]) < CallLeft(call[u])
LibraryRuns == Library => LibraryLeft' < LibraryLeft

LEMMA NoneLeft == CallLeft(NoCall) = 0
BY DEF CallLeft, NoCall

LEMMA CallCounts ==
  ASSUME CallsServed, NEW c, IsAsked(c)
  PROVE  CallLeft(c) \in Nat
<1>1. Len(c.data) \in Nat /\ c.done \in Nat /\ c.done <= Len(c.data)
  BY DEF IsAsked, CallsServed
<1> DEFINE bytes == Len(c.data) - c.done
<1>2. bytes \in Nat
  BY <1>1
<1> HIDE DEF bytes
<1> QED
  BY <1>2 DEF CallLeft, bytes

LEMMA CallsCount ==
  ASSUME CallsServed, Asked, NEW u \in Users
  PROVE  CallLeft(call[u]) \in Nat
BY NoneLeft, CallCounts DEF Asked

\* A write of which a chunk was answered is at its end or has fewer bytes left.
LEMMA AnswerTakes ==
  ASSUME CallsServed, NEW c, IsAsked(c), NEW d, NEW count \in Nat,
         \/ c.stage = "locked" /\ count = 0
         \/ c.stage = "served" /\ count = c.count,
         BytesAnswered(c, d, count)
  PROVE  CallLeft(d) < CallLeft(c)
<1> DEFINE size == Len(c.data)
           chunk == Len(Chunk(c))
<1>1. /\ size \in Nat /\ c.done \in Nat /\ c.count \in Nat /\ c.done + c.count <= size
      /\ chunk \in Nat /\ (c.done < size => chunk > 0)
  <2>1. chunk \in Nat /\ (c.done < size => chunk > 0)
    BY ChunkServed
  <2>2. size \in Nat /\ c.done \in Nat /\ c.count \in Nat /\ c.done + c.count <= size
    BY DEF IsAsked, CallsServed
  <2> QED
    BY <2>1, <2>2
<1>2. /\ Len(d.data) = size /\ d.done = c.done + count /\ d.stage \in {"made", "locked"}
      /\ d.stage = "locked" => c.done + count # size /\ ~ (count < chunk)
  BY DEF BytesAnswered, SameCall, Stops
<1> HIDE DEF size, chunk
<1> DEFINE before == size - c.done
           after == size - d.done
<1>3. before \in Nat /\ after \in Nat /\ after <= before
  BY <1>1, <1>2
<1>4. d.stage = "locked" => c.stage = "served" /\ after < before
  BY <1>1, <1>2
<1>5. CallLeft(c) = (IF c.stage = "locked" THEN 3 * before + 4 ELSE 3 * before + 2)
  BY DEF CallLeft, size
<1>6. CallLeft(d) = (IF d.stage = "locked" THEN 3 * after + 4 ELSE 1)
  BY <1>2 DEF CallLeft
<1> HIDE DEF before, after
<1> QED
  BY <1>2, <1>3, <1>4, <1>5, <1>6

\* A call that moves to a later stage is nearer its end.
Nearer(from, to) ==
    \/ from = "waiting" /\ to \in {"locked", "absent", "served"}
    \/ from = "locked" /\ to \in {"absent", "served"}
    \/ from = "absent" /\ to = "served"

LEMMA MoveTakes ==
  ASSUME CallsServed, NEW c, IsAsked(c), NEW d, SameCall(c, d), d.done = c.done,
         Nearer(c.stage, d.stage)
  PROVE  CallLeft(d) < CallLeft(c)
<1> DEFINE bytes == Len(c.data) - c.done
<1>1. bytes \in Nat /\ Len(d.data) - d.done = bytes
  BY DEF IsAsked, CallsServed, SameCall
<1> HIDE DEF bytes
<1>2. /\ c.stage = "waiting" => CallLeft(c) = 3 * bytes + 5
      /\ c.stage = "locked" => CallLeft(c) = 3 * bytes + 4
      /\ c.stage = "absent" => CallLeft(c) = 3 * bytes + 3
  BY DEF CallLeft, bytes
<1>3. /\ d.stage = "locked" => CallLeft(d) = 3 * bytes + 4
      /\ d.stage = "absent" => CallLeft(d) = 3 * bytes + 3
      /\ d.stage = "served" => CallLeft(d) = 3 * bytes + 2
  BY <1>1 DEF CallLeft
<1> QED
  BY <1>1, <1>2, <1>3 DEF Nearer

\* A call that returns had something left to do.
LEMMA ReturnTakes ==
  ASSUME CallsServed, NEW c, IsAsked(c), c.stage \in {"waiting", "locked", "served", "made"}
  PROVE  CallLeft(NoCall) < CallLeft(c)
<1> DEFINE bytes == Len(c.data) - c.done
<1>1. bytes \in Nat
  BY DEF IsAsked, CallsServed
<1> HIDE DEF bytes
<1>2. CallLeft(c) \in {3 * bytes + 5, 3 * bytes + 4, 3 * bytes + 2, 1}
  BY DEF CallLeft, bytes
<1> QED
  BY <1>1, <1>2, NoneLeft

\* A request of a call brings the call nearer its end.
LEMMA ProceedTakes ==
  ASSUME CallsServed, ClientInv, NEW u \in Users, Proceed(u)
  PROVE  OthersSame(u) /\ IsAsked(call[u]) /\ CallLeft(call'[u]) < CallLeft(call[u])
<1>1. CallsWellFormed /\ Asked
  BY DEF ClientInv
<1>2. OthersSame(u)
  BY <1>1, ProceedIs
<1>3. ASSUME NoParent(u) \/ NameTaken(u) \/ OpenFails(u) \/ MadeNothing(u) \/ Made(u)
             \/ ReadFile(u) \/ WriteReturns(u)
      PROVE  IsAsked(call[u]) /\ CallLeft(call'[u]) < CallLeft(call[u])
  <2>1. call' = [call EXCEPT ![u] = NoCall]
    BY <1>3 DEF NoParent, NameTaken, OpenFails, MadeNothing, Made, ReadFile, WriteReturns,
                Fail, Succeed
  <2>2. call'[u] = NoCall
    BY <1>1, <2>1, OneReplaced
  <2>3. /\ call[u].stage \in {"waiting", "locked", "served", "made"}
        /\ call[u].op \in Creations \union {"read", "write"}
    BY <1>3 DEF NoParent, NameTaken, OpenFails, MadeNothing, Made, ReadFile, WriteReturns, At
  <2>4. IsAsked(call[u])
    BY <1>1, <2>3 DEF Asked, NoCall, Creations
  <2> QED
    BY <2>2, <2>3, <2>4, ReturnTakes
<1>4. ASSUME LockParent(u) \/ NameFree(u) \/ Mkdir(u) \/ Mknod(u) \/ LockFile(u)
      PROVE  IsAsked(call[u]) /\ CallLeft(call'[u]) < CallLeft(call[u])
  <2>1. PICK stage \in {"locked", "absent", "served"} :
           Stage(u, stage) /\ Nearer(call[u].stage, stage)
    BY <1>4 DEF LockParent, NameFree, Mkdir, Mknod, LockFile, At, Nearer
  <2>2. call[u].op \in Creations \union {"write"}
    BY <1>4 DEF LockParent, NameFree, Mkdir, Mknod, LockFile, At, Creations
  <2>3. IsAsked(call[u])
    BY <1>1, <2>2 DEF Asked, NoCall, Creations
  <2>4. StageMoved(call[u], call'[u], stage)
    BY <1>1, <2>1, StageIs
  <2> QED
    BY <2>1, <2>3, <2>4, MoveTakes DEF StageMoved
<1>5. ASSUME SendChunk(u) \/ ChunkRefused(u)
      PROVE  IsAsked(call[u]) /\ CallLeft(call'[u]) < CallLeft(call[u])
  <2>1. At(u, {"write"}, "locked")
    BY <1>5 DEF SendChunk, ChunkRefused
  <2>2. IsAsked(call[u])
    BY <1>1, <2>1, InCall
  <2>3. \/ BytesAnswered(call[u], call'[u], 0)
        \/ BytesTaken(call[u], call'[u], off' - off)
    BY <1>1, <1>5, SendIs, AnswerIs DEF ChunkRefused
  <2>4. CASE BytesAnswered(call[u], call'[u], 0)
    BY <2>1, <2>2, <2>4, AnswerTakes DEF At
  <2>5. CASE BytesTaken(call[u], call'[u], off' - off)
    BY <2>1, <2>2, <2>5, MoveTakes DEF BytesTaken, At, Nearer
  <2> QED
    BY <2>2, <2>3, <2>4, <2>5
<1>6. ASSUME ChunkWritten(u)
      PROVE  IsAsked(call[u]) /\ CallLeft(call'[u]) < CallLeft(call[u])
  <2>1. At(u, {"write"}, "served")
    BY <1>6 DEF ChunkWritten
  <2>2. IsAsked(call[u])
    BY <1>1, <2>1, InCall
  <2>3. BytesAnswered(call[u], call'[u], call[u].count)
    BY <1>1, <1>6, AnswerIs DEF ChunkWritten
  <2>4. call[u].count \in Nat
    BY <2>2 DEF IsAsked
  <2> QED
    BY <2>1, <2>2, <2>3, <2>4, AnswerTakes DEF At
<1> QED
  BY <1>2, <1>3, <1>4, <1>5, <1>6 DEF Proceed

\* No step of another leaves a call more to do.
LEMMA EachCallRuns ==
  ASSUME CallsServed, ClientInv, [FsNext]_fsVars, NEW u \in Users
  PROVE  CallRuns(u)
<1>1. CallLeft(call[u]) \in Nat /\ Asked /\ CallsWellFormed
  BY CallsCount DEF ClientInv
<1>2. ASSUME Proceed(u) PROVE CallRuns(u)
  <2>1. CallLeft(call'[u]) < CallLeft(call[u]) /\ CallLeft(call'[u]) \in Nat
    <3>1. Asked'
      BY <1>1, NextAsked DEF ClientInv
    <3>2. CallLeft(call'[u]) \in Nat
      BY <3>1, NoneLeft, CallCounts DEF Asked, IsAsked
    <3> QED
      BY <1>2, <3>2, ProceedTakes
  <2> QED
    BY <1>1, <2>1 DEF CallRuns
<1>3. ASSUME call[u] = NoCall PROVE CallRuns(u)
  BY <1>3 DEF CallRuns
<1>4. ASSUME ~ Proceed(u), call'[u] = call[u] \/ call'[u] = NoCall PROVE CallRuns(u)
  BY <1>1, <1>4, NoneLeft DEF CallRuns
<1>5. ASSUME ~ Proceed(u), NEW v \in Users, Proceed(v) PROVE CallRuns(u)
  BY <1>4, <1>5, ProceedTakes DEF OthersSame
<1>6. ASSUME ~ Proceed(u), NEW v \in Users, NEW c \in Calls, Begin(v, c) PROVE CallRuns(u)
  <2> DEFINE begun == [op |-> c.op, path |-> c.path, data |-> c.data,
                       stage |-> "waiting", done |-> 0, count |-> 0]
  <2>1. call' = [call EXCEPT ![v] = begun] /\ call[v] = NoCall
    BY <1>6 DEF Begin
  <2> HIDE DEF begun
  <2>2. OthersSame(v)
    BY <1>1, <2>1, OneReplaced
  <2> QED
    BY <1>3, <1>4, <1>6, <2>1, <2>2 DEF OthersSame
<1>7. ASSUME ~ Proceed(u), Mount \/ Library \/ UNCHANGED fsVars PROVE CallRuns(u)
  BY <1>4, <1>7 DEF Mount, Library, fsVars
<1>8. ASSUME ~ Proceed(u), Unmount PROVE CallRuns(u)
  BY <1>4, <1>8 DEF Unmount
<1> QED
  BY <1>2, <1>5, <1>6, <1>7, <1>8 DEF FsNext

\* Of the list, written counts the descriptors up to the next one.
LEMMA LibraryCounts ==
  ASSUME ShapeInv
  PROVE  LibraryLeft \in Nat /\ (wadPc \in Writing => LibraryLeft > 0)
<1>1. Len(descriptors) \in Nat /\ (wadPc = "writeList" => written \in 1 .. Len(descriptors) + 1)
  BY DEF ShapeInv, MemoryInv, HeaderInv
<1> QED
  BY <1>1 DEF LibraryLeft, Writing

LEMMA LibraryTakes ==
  ASSUME ShapeInv
  PROVE  LibraryRuns
<1> SUFFICES ASSUME Library PROVE LibraryLeft' < LibraryLeft
  BY DEF LibraryRuns
<1>1. Len(descriptors) \in Nat /\ (wadPc = "writeList" => written \in 1 .. Len(descriptors) + 1)
  BY DEF ShapeInv, MemoryInv, HeaderInv
<1>2. CASE WriteNum
  BY <1>1, <1>2 DEF WriteNum, NumReaches, NumFails, LibraryLeft, memory
<1>3. CASE WriteOff
  BY <1>1, <1>3 DEF WriteOff, OffReaches, OffMissed, LibraryLeft, memory
<1>4. CASE WriteDescriptor
  BY <1>1, <1>4 DEF WriteDescriptor, DescriptorReaches, DescriptorMissed, LibraryLeft, memory
<1>5. CASE CallReturn
  BY <1>1, <1>5 DEF CallReturn, LibraryLeft
<1> QED
  BY <1>2, <1>3, <1>4, <1>5 DEF Library

\* Every request of a call brings it nearer its end, and no step of another
\* sets it back; once in the library a request leaves it after as many steps
\* as the list has descriptors, and three more.  What is left of
\* EveryCallReturns is that the daemon takes the requests in turn.
THEOREM CallsRunOut ==
  ASSUME CallsServed
  PROVE  FsSpec => /\ [](LibraryLeft \in Nat /\ \A u \in Users : CallLeft(call[u]) \in Nat)
                   /\ [][LibraryRuns /\ \A u \in Users : CallRuns(u)]_fsVars
<1>1. ClientInv /\ [FsNext]_fsVars => ClientInv'
  BY NextClient
<1>2. ClientInv => LibraryLeft \in Nat /\ \A u \in Users : CallLeft(call[u]) \in Nat
  BY LibraryCounts, CallsCount DEF ClientInv
<1>3. ClientInv /\ [FsNext]_fsVars => [LibraryRuns /\ \A u \in Users : CallRuns(u)]_fsVars
  BY LibraryTakes, EachCallRuns DEF ClientInv
<1> QED
  BY <1>1, <1>2, <1>3, InitClient, PTL DEF FsSpec

-----------------------------------------------------------------------------
(* Steps in which nothing falls short and nothing torn is loaded           *)

SoundMount == LoadWhole /\ UNCHANGED <<call, promised>>
SoundLibrary ==
    /\ NumReaches \/ OffReaches \/ DescriptorReaches \/ CallReturn
    /\ UNCHANGED <<call, promised>>
SoundFs ==
    \/ SoundMount
    \/ Unmount
    \/ SoundLibrary
    \/ \E u \in Users : Proceed(u) \/ \E c \in Calls : Begin(u, c)

\* They are among the steps of the daemon.
LEMMA SoundIsFs ==
  ASSUME [SoundFs]_fsVars
  PROVE  [FsNext]_fsVars
<1>1. SoundMount => Mount
  BY DEF SoundMount, Mount, LoadWad
<1>2. SoundLibrary => Library
  BY DEF SoundLibrary, Library, WriteNum, WriteOff, WriteDescriptor
<1> QED
  BY <1>1, <1>2 DEF SoundFs, FsNext

\* As long as nothing has gone astray there are no others.
LEMMA FsStepIsSound ==
  ASSUME ClientInv, CallsServed, [FsNext]_fsVars, astray' = 0
  PROVE  astray = 0 /\ [SoundFs]_fsVars /\ [Sound]_vars
<1>1. HeaderInv /\ [Next]_vars
  BY ClientSteps DEF ClientInv, ShapeInv
<1>2. astray = 0 /\ [Sound]_vars
  BY <1>1, StepIsSound
<1>3. astray \in Nat /\ lag \in Nat /\ (lag > 0 => astray > 0) /\ ~ GoAstray
  BY <1>1, GoneAstray DEF HeaderInv
<1>4. ASSUME Mount PROVE SoundMount
  BY <1>2, <1>3, <1>4 DEF Mount, LoadWad, LoadTorn, SoundMount
<1>5. ASSUME Library PROVE SoundLibrary
  BY <1>2, <1>3, <1>5
     DEF Library, WriteNum, NumFails, WriteOff, OffMissed, WriteDescriptor, DescriptorMissed,
         SoundLibrary
<1>6. [SoundFs]_fsVars
  BY <1>4, <1>5 DEF FsNext, SoundFs
<1> QED
  BY <1>2, <1>6

\* They ask of the library what its clients may ask.
LEMMA SoundSteps ==
  ASSUME CallsServed, Asked, [SoundFs]_fsVars
  PROVE  [Sound]_vars
<1>1. CASE SoundMount \/ Unmount \/ SoundLibrary
  BY <1>1 DEF SoundMount, Unmount, SoundLibrary, Sound
<1>2. CASE ~ SoundMount /\ ~ Unmount /\ ~ SoundLibrary
  <2>1. CASE UNCHANGED fsVars
    BY <2>1 DEF fsVars
  <2>2. ASSUME NEW u \in Users, Proceed(u) PROVE [Sound]_vars
    <3>1. CASE Mkdir(u) \/ Mknod(u)
      <4>1. At(u, {"mkdir", "mknod"}, "absent")
        BY <3>1 DEF Mkdir, Mknod, At
      <4>2. call[u].path \in Paths
        BY <4>1, InCall, ChunkServed
      <4>3. CreateDirectory(call[u].path) \/ CreateFile(call[u].path) \/ UNCHANGED vars
        BY <3>1 DEF Mkdir, Mknod
      <4> QED
        BY <4>2, <4>3, Zenon DEF Sound
    <3>2. CASE SendChunk(u)
      <4>1. IsAsked(call[u])
        BY <3>2, InCall DEF SendChunk
      <4>2. call[u].path \in Paths /\ Chunk(call[u]) \in Buffers /\ call[u].done \in WriteOffsets
        BY <4>1, ChunkServed
      <4>3. WriteToFile(call[u].path, Chunk(call[u]), call[u].done)
        BY <3>2 DEF SendChunk
      <4> QED
        BY <4>2, <4>3, Zenon DEF Sound
    <3>3. CASE ChunkRefused(u)
      <4>1. call[u].path \in Paths
        BY <3>3, InCall, ChunkServed DEF ChunkRefused
      <4>2. RefuseWrite(call[u].path) \/ WriteToNothing(call[u].path)
        BY <3>3 DEF ChunkRefused
      <4> QED
        BY <4>1, <4>2, Zenon DEF Sound
    <3>4. CASE UNCHANGED vars
      BY <3>4
    <3> QED
      BY <2>2, <3>1, <3>2, <3>3, <3>4
         DEF Proceed, NoParent, LockParent, NameTaken, NameFree, MadeNothing, Made, OpenFails,
             ReadFile, LockFile, ChunkWritten, WriteReturns
  <2>3. ASSUME NEW u \in Users, NEW c \in Calls, Begin(u, c) PROVE [Sound]_vars
    BY <2>3 DEF Begin
  <2> QED
    BY <1>2, <2>1, <2>2, <2>3 DEF SoundFs
<1> QED
  BY <1>1, <1>2

-----------------------------------------------------------------------------
(* The library never meets a path that leads nowhere                       *)

\* A write that holds its file has found it, and the tree keeps it.
WritersFound ==
    \A u \in Users :
       call[u].op = "write" /\ call[u].stage \in {"locked", "served"} =>
          FindNode(call[u].path) # 0

\* No call outlives the daemon.
NoneWhileDown == wadPc = "down" => \A u \in Users : call[u] = NoCall

AliveInv ==
    /\ ClientInv /\ LumpsInv /\ ReloadInv
    /\ wadPc # "crashed" /\ WritersFound /\ NoneWhileDown

\* What the library was asked for once and found, it finds until it is closed.
LEMMA FoundStays ==
  ASSUME LumpsInv, [Sound]_vars, wadPc \notin {"down", "crashed"}, wadPc' # "down",
         NEW path \in Paths, FindNode(path) # 0
  PROVE  NodeAt(tree', Cleaned(path)) # 0
<1>1. Len(tree) > 0
  BY DEF LumpsInv, MemoryInv
<1>2. Grown(tree, tree')
  BY <1>1, NextGrows
<1>3. Cleaned(path) \in Seq(Names)
  BY PathsAreNamed
<1>4. NodeAt(tree, Cleaned(path)) # 0
  BY DEF FindNode
<1>5. NodeAt(tree', Cleaned(path)) = NodeAt(tree, Cleaned(path))
  BY <1>2, <1>3, <1>4, NodeStays
<1> QED
  BY <1>4, <1>5

\* A file that was written whole can be loaded: parse meets no null pointer.
LEMMA LoadsWell == ASSUME ReloadInv, LoadWhole PROVE wadPc' = "idle"
BY DEF LoadWhole, Load, ReloadInv, FileInv, Balances, ListIsWhole, ListOnDisk

\* The library goes down, and crashes, in no other way.
LEMMA StaysUp ==
  ASSUME wadPc \notin {"down", "crashed"}, SoundFs, ~ Unmount,
         \A u \in Users : ~ WriteToNothing(call[u].path) \/ ~ ChunkRefused(u)
  PROVE  wadPc' \notin {"down", "crashed"}
<1>1. ~ SoundMount
  BY DEF SoundMount, LoadWhole, Load
<1>2. CASE SoundLibrary
  BY <1>2 DEF SoundLibrary, NumReaches, OffReaches, DescriptorReaches, CallReturn
<1>3. ASSUME NEW u \in Users, NEW c \in Calls, Begin(u, c) PROVE wadPc' = wadPc
  BY <1>3 DEF Begin, vars
<1>4. ASSUME NEW u \in Users, Proceed(u) PROVE wadPc' \notin {"down", "crashed"}
  <2>1. CASE Mkdir(u) \/ Mknod(u)
    BY <2>1 DEF Mkdir, Mknod, CreateDirectory, CreateFile, Create, vars
  <2>2. CASE SendChunk(u)
    <3>1. WriteToFile(call[u].path, Chunk(call[u]), call[u].done)
      BY <2>2 DEF SendChunk
    <3>2. wadPc' \in {"idle", "writeNum"}
      BY <3>1, Zenon DEF WriteToFile
    <3> QED
      BY <3>2
  <2>3. CASE ChunkRefused(u)
    <3>1. RefuseWrite(call[u].path)
      BY <2>3 DEF ChunkRefused
    <3> QED
      BY <3>1 DEF RefuseWrite, vars
  <2>4. CASE UNCHANGED vars
    BY <2>4 DEF vars
  <2> QED
    BY <1>4, <2>1, <2>2, <2>3, <2>4
       DEF Proceed, NoParent, LockParent, NameTaken, NameFree, MadeNothing, Made, OpenFails,
           ReadFile, LockFile, ChunkWritten, WriteReturns
<1> QED
  BY <1>1, <1>2, <1>3, <1>4 DEF SoundFs

LEMMA NextFound ==
  ASSUME CallsServed, ClientInv, LumpsInv, WritersFound, SoundFs,
         wadPc \notin {"down", "crashed"}, wadPc' # "down"
  PROVE  WritersFound'
<1>1. LumpsInv /\ Asked /\ CallsWellFormed /\ [Sound]_vars
  BY SoundSteps DEF ClientInv
<1> DEFINE Writes(c) == c.op = "write" /\ c.stage \in {"locked", "served"}
<1>2. ASSUME NEW u \in Users, Writes(call[u]) PROVE NodeAt(tree', Cleaned(call[u].path)) # 0
  <2>1. IsAsked(call[u])
    BY <1>1, <1>2 DEF Asked, NoCall
  <2>2. call[u].path \in Paths
    BY <2>1, ChunkServed
  <2>3. FindNode(call[u].path) # 0
    BY <1>2 DEF WritersFound
  <2> QED
    BY <1>1, <2>2, <2>3, FoundStays
<1>3. ASSUME NEW u \in Users, LockFile(u) PROVE NodeAt(tree', Cleaned(call[u].path)) # 0
  <2>1. FindNode(call[u].path) # 0 /\ tree' = tree
    BY <1>3 DEF LockFile, Getattr, IsContent, IsDirectory, vars, memory
  <2> QED
    BY <2>1 DEF FindNode
<1>4. ASSUME NEW u \in Users, Writes(call'[u])
      PROVE  NodeAt(tree', Cleaned(call'[u].path)) # 0
  <2>1. CASE Writes(call[u]) /\ call'[u].path = call[u].path
    BY <1>2, <2>1
  <2>2. CASE LockFile(u) /\ call'[u].path = call[u].path
    BY <1>3, <2>2
  <2>3. ASSUME Proceed(u) PROVE NodeAt(tree', Cleaned(call'[u].path)) # 0
    <3>1. \/ call'[u] = NoCall
          \/ /\ call[u].op \in Creations /\ SameCall(call[u], call'[u])
          \/ LockFile(u) /\ SameCall(call[u], call'[u])
          \/ (SendChunk(u) \/ ChunkRefused(u) \/ ChunkWritten(u)) /\ SameCall(call[u], call'[u])
      BY <1>1, <2>3, ProceedIs DEF StageMoved, BytesAnswered, BytesTaken
    <3>2. ~ (call'[u] = NoCall)
      BY <1>4 DEF NoCall
    <3>3. ~ (call[u].op \in Creations /\ SameCall(call[u], call'[u]))
      BY <1>4 DEF Creations, SameCall
    <3>4. SendChunk(u) \/ ChunkRefused(u) \/ ChunkWritten(u) => Writes(call[u])
      BY DEF SendChunk, ChunkRefused, ChunkWritten, At
    <3> HIDE DEF Writes
    <3> QED
      BY <2>1, <2>2, <3>1, <3>2, <3>3, <3>4 DEF SameCall
  <2>4. ASSUME NEW v \in Users, v # u, Proceed(v) PROVE call'[u] = call[u]
    BY <1>1, <2>4, ProceedIs DEF OthersSame
  <2>5. ASSUME NEW v \in Users, NEW c \in Calls, Begin(v, c)
        PROVE  call'[u] = call[u]
    <3> DEFINE begun == [op |-> c.op, path |-> c.path, data |-> c.data,
                         stage |-> "waiting", done |-> 0, count |-> 0]
    <3>1. call' = [call EXCEPT ![v] = begun] /\ begun.stage = "waiting"
      BY <2>5 DEF Begin
    <3> HIDE DEF begun
    <3>2. call'[v] = begun /\ OthersSame(v)
      BY <1>1, <3>1, OneReplaced
    <3>3. u # v
      BY <1>4, <3>1, <3>2
    <3> QED
      BY <3>2, <3>3 DEF OthersSame
  <2>6. CASE SoundMount \/ SoundLibrary
    <3>1. call' = call
      BY <2>6 DEF SoundMount, SoundLibrary
    <3> QED
      BY <1>4, <2>1, <3>1
  <2>7. ~ Unmount
    BY DEF Unmount, GoDown
  <2>8. CASE call'[u] = call[u]
    BY <1>4, <2>1, <2>8
  <2> HIDE DEF Writes
  <2> QED
    BY <2>3, <2>4, <2>5, <2>6, <2>7, <2>8 DEF SoundFs
<1> QED
  BY <1>4 DEF WritersFound, FindNode

\* Without a daemon nobody is served.
LEMMA NobodyProceeds ==
  ASSUME NoneWhileDown, wadPc = "down", NEW u \in Users
  PROVE  ~ Proceed(u)
<1>1. call[u] = NoCall
  BY DEF NoneWhileDown
<1>2. ASSUME Proceed(u) PROVE call[u].stage # "ready"
  <2>1. CASE SendChunk(u)
    BY <2>1 DEF SendChunk, At
  <2>2. CASE ChunkRefused(u) \/ ChunkWritten(u) \/ WriteReturns(u)
    BY <2>2 DEF ChunkRefused, ChunkWritten, WriteReturns, At
  <2>3. CASE NoParent(u) \/ LockParent(u) \/ NameTaken(u) \/ NameFree(u) \/ MadeNothing(u)
             \/ Made(u) \/ OpenFails(u) \/ ReadFile(u) \/ LockFile(u)
    BY <2>3 DEF NoParent, LockParent, NameTaken, NameFree, MadeNothing, Made, OpenFails,
                ReadFile, LockFile, At
  <2>4. CASE Mkdir(u) \/ Mknod(u)
    BY <2>4 DEF Mkdir, Mknod, At
  <2> QED
    BY <1>2, <2>1, <2>2, <2>3, <2>4 DEF Proceed
<1> QED
  BY <1>1, <1>2 DEF NoCall

LEMMA NextAlive ==
  ASSUME DirectoriesNamed, CallsServed, AliveInv, [SoundFs]_fsVars
  PROVE  AliveInv'
<1>1. ClientInv /\ LumpsInv /\ ReloadInv /\ wadPc # "crashed" /\ WritersFound /\ NoneWhileDown
  BY DEF AliveInv
<1>2. LumpsInv /\ [Sound]_vars /\ ClientInv' /\ LumpsInv'
  BY <1>1, SoundSteps, NextClient, SoundIsFs, SoundInv DEF ClientInv
<1>3. ReloadInv'
  BY <1>1, <1>2, NextReload
<1>4. CASE UNCHANGED fsVars
  BY <1>1, <1>4, <1>2, <1>3
     DEF fsVars, vars, memory, AliveInv, WritersFound, NoneWhileDown, FindNode
<1>5. CASE Unmount
  <2>1. wadPc' = "down" /\ \A u \in Users : call'[u] = NoCall
    BY <1>5 DEF Unmount, GoDown
  <2> QED
    BY <1>2, <1>3, <2>1 DEF AliveInv, WritersFound, NoneWhileDown, NoCall
<1>6. CASE SoundFs /\ wadPc = "down"
  <2>1. CASE SoundMount
    <3>1. wadPc' = "idle" /\ call' = call
      BY <1>1, <2>1, LoadsWell DEF SoundMount
    <3>2. \A u \in Users : call'[u] = NoCall
      BY <1>1, <1>6, <3>1 DEF NoneWhileDown
    <3> QED
      BY <1>2, <1>3, <3>1, <3>2 DEF AliveInv, WritersFound, NoneWhileDown, NoCall
  <2>2. \A u \in Users : ~ Proceed(u)
    BY <1>1, <1>6, NobodyProceeds
  <2>3. ~ SoundLibrary /\ \A u \in Users, c \in Calls : ~ Begin(u, c)
    BY <1>6 DEF SoundLibrary, NumReaches, OffReaches, DescriptorReaches, CallReturn, Begin
  <2> QED
    BY <1>5, <1>6, <2>1, <2>2, <2>3 DEF SoundFs
<1>7. CASE SoundFs /\ wadPc # "down" /\ ~ Unmount
  <2>1. wadPc \notin {"down", "crashed"}
    BY <1>1, <1>7
  \* A chunk that is refused has a file to be refused by.
  <2>2. ASSUME NEW u \in Users PROVE ~ WriteToNothing(call[u].path) \/ ~ ChunkRefused(u)
    BY <1>1 DEF WriteToNothing, ChunkRefused, At, WritersFound
  <2>3. wadPc' \notin {"down", "crashed"}
    BY <1>7, <2>1, <2>2, StaysUp
  <2>4. WritersFound'
    BY <1>1, <1>7, <2>1, <2>3, NextFound
  <2> QED
    BY <1>2, <1>3, <2>3, <2>4 DEF AliveInv, NoneWhileDown
<1> QED
  BY <1>4, <1>5, <1>6, <1>7

\* A WAD with balanced markers behind wadfs, and users that name their
\* directories: as long as header and list are written and read whole, no
\* interleaving of the users' calls, and no death of a daemon before, makes the
\* library read the node of a path that leads nowhere, or loadWad a directory
\* that is null.  Nothing is said of a daemon that has loaded a torn list.
THEOREM NeverCrashesAlways ==
  ASSUME BalancedDisks, DirectoriesNamed, CallsServed
  PROVE  FsSpec => []NeverCrashes
<1> DEFINE Inv == ClientInv /\ (astray = 0 => AliveInv)
<1>1. ASSUME FsInit PROVE Inv
  <2>1. Init /\ wadPc = "down" /\ \A u \in Users : call[u] = NoCall
    BY <1>1 DEF FsInit, Init
  <2>2. ClientInv /\ LumpsInv /\ ReloadInv
    BY <1>1, <2>1, InitClient, InitInv, InitReload
  <2> QED
    BY <2>1, <2>2 DEF AliveInv, WritersFound, NoneWhileDown, NoCall
<1>2. Inv /\ [FsNext]_fsVars => Inv'
  <2> SUFFICES ASSUME Inv, [FsNext]_fsVars PROVE Inv'
    OBVIOUS
  <2>1. ClientInv'
    BY NextClient
  <2>2. ASSUME astray' = 0 PROVE AliveInv'
    BY <2>2, FsStepIsSound, NextAlive
  <2> QED
    BY <2>1, <2>2
<1>3. Inv => NeverCrashes
  BY DEF AliveInv, NeverCrashes
<1> QED
  BY <1>1, <1>2, <1>3, PTL DEF FsSpec

-----------------------------------------------------------------------------
(* Namesakes in a tree that gets a node, and in one that shows the same      *)

\* A node whose name its parent has no child of gives nobody a namesake.
LEMMA LeafNamed ==
  ASSUME NEW nodes, NEW more, AddsLeaf(nodes, more), NoNamesakes(nodes),
         NEW path \in Seq(Names), path # << >>, NodeAt(nodes, path) = 0,
         NodeAt(nodes, ParentOf(path)) # 0,
         more[Len(more)].parent = NodeAt(nodes, ParentOf(path)),
         more[Len(more)].name = path[Len(path)]
  PROVE  NoNamesakes(more)
<1> DEFINE leaf == Len(more)
           up == NodeAt(nodes, ParentOf(path))
           name == path[Len(path)]
<1>1. /\ nodes \in Seq(Nodes) /\ Len(nodes) > 0 /\ Len(nodes) \in Nat
      /\ leaf = Len(nodes) + 1 /\ DOMAIN more = 1 .. leaf /\ DOMAIN nodes = 1 .. Len(nodes)
      /\ \A n \in DOMAIN nodes : more[n].name = nodes[n].name /\ more[n].parent = nodes[n].parent
  BY DEF AddsLeaf, Grown
<1>2. NodeAt(nodes, path) = IF up = 0 THEN 0 ELSE Child(nodes, up, name)
  BY <1>1, LastStep
<1>3. more[leaf].parent = up /\ more[leaf].name = name /\ up # 0
  OBVIOUS
<1> HIDE DEF leaf, up, name
<1>4. ASSUME NEW n \in DOMAIN nodes, nodes[n].parent = up, nodes[n].name = name PROVE FALSE
  BY <1>1, <1>2, <1>3, <1>4, ChildFound
<1>5. \A n \in DOMAIN more : n \in DOMAIN nodes \/ n = leaf
  BY <1>1
<1>6. ASSUME NEW i \in DOMAIN more, NEW j \in DOMAIN more,
             more[i].parent = more[j].parent, more[i].name = more[j].name
      PROVE  i = j
  <2>1. CASE i \in DOMAIN nodes /\ j \in DOMAIN nodes
    BY <1>1, <1>6, <2>1 DEF NoNamesakes
  <2>2. CASE i = leaf /\ j # leaf
    BY <1>1, <1>3, <1>4, <1>5, <1>6, <2>2
  <2>3. CASE j = leaf /\ i # leaf
    BY <1>1, <1>3, <1>4, <1>5, <1>6, <2>3
  <2> QED
    BY <1>5, <2>1, <2>2, <2>3
<1> QED
  BY <1>6 DEF NoNamesakes

\* Two trees with the names and parents of one another.
LEMMA SameNames ==
  ASSUME NEW nodes \in Seq(Nodes), NEW more \in Seq(Nodes), Len(more) = Len(nodes), NoNamesakes(nodes),
         \A n \in DOMAIN nodes : more[n].name = nodes[n].name /\ more[n].parent = nodes[n].parent
  PROVE  NoNamesakes(more)
<1>1. DOMAIN more = DOMAIN nodes
  OBVIOUS
<1> QED
  BY <1>1 DEF NoNamesakes

\* Two trees that show the same.
LEMMA SameView ==
  ASSUME NEW nodes, NEW more, IsTree(nodes), IsTree(more), View(nodes) = View(more),
         NoNamesakes(nodes)
  PROVE  NoNamesakes(more)
<1>1. ASSUME NEW i \in Below(more), NEW j \in Below(more),
             more[i].parent = more[j].parent, more[i].name = more[j].name
      PROVE  i = j
  <2> DEFINE v == ViewOf(more, i)
             w == ViewOf(more, j)
  <2>1. v \in View(nodes) /\ w \in View(nodes)
    BY ViewIs
  <2>2. PICK m \in Below(nodes), n \in Below(nodes) : v = ViewOf(nodes, m) /\ w = ViewOf(nodes, n)
    BY <2>1, ViewIs
  <2>3. /\ v.name = more[i].name /\ v.parent = Label(more, more[i].parent) /\ v.start = more[i].start
        /\ w.name = more[j].name /\ w.parent = Label(more, more[j].parent) /\ w.start = more[j].start
    BY ViewFields
  <2>4. /\ v.name = nodes[m].name /\ v.parent = Label(nodes, nodes[m].parent)
        /\ w.name = nodes[n].name /\ w.parent = Label(nodes, nodes[n].parent)
    <3>1. /\ ViewOf(nodes, m).name = nodes[m].name
          /\ ViewOf(nodes, m).parent = Label(nodes, nodes[m].parent)
          /\ ViewOf(nodes, n).name = nodes[n].name
          /\ ViewOf(nodes, n).parent = Label(nodes, nodes[n].parent)
      BY ViewFields
    <3> QED
      BY <2>2, <3>1
  <2> HIDE DEF v, w
  <2>5. nodes[m].parent = nodes[n].parent
    <3>1. /\ nodes[m].parent \in 0 .. Len(nodes) /\ nodes[n].parent \in 0 .. Len(nodes)
      BY TreeNodes
    <3>2. Label(nodes, nodes[m].parent) = Label(nodes, nodes[n].parent)
      BY <1>1, <2>3, <2>4
    <3> QED
      BY <3>1, <3>2, LabelsApart
  <2>6. m = n
    BY <1>1, <2>3, <2>4, <2>5 DEF NoNamesakes, Below
  <2>7. more[i].start = more[j].start
    BY <2>2, <2>3, <2>6
  <2> QED
    BY <2>7 DEF IsTree
<1>2. more[Root].parent = 0 /\ \A n \in Below(more) : more[n].parent # 0
  BY TreeNodes DEF IsTree
<1> QED
  BY <1>1, <1>2 DEF NoNamesakes, Below

-----------------------------------------------------------------------------
(* Locks                                                                   *)

\* The stages in which a call holds its lock.
Locking == {"locked", "absent", "served", "made"}

\* No two calls hold one lock.
LocksExclusive ==
    \A u, v \in Users :
       /\ call[u].stage \in Locking /\ call[v].stage \in Locking
       /\ LockOf(call[u]) = LockOf(call[v])
       => u = v

\* A call gets a lock only when nobody holds it.
LEMMA LockTaken ==
  ASSUME CallsWellFormed, NEW u \in Users, Proceed(u), call'[u].stage \in Locking
  PROVE  /\ LockOf(call'[u]) = LockOf(call[u])
         /\ call[u].stage \in Locking \/ ~ Held(LockOf(call[u]))
<1>1. call'[u] # NoCall
  BY DEF NoCall, Locking
<1>2. SameCall(call[u], call'[u])
  BY <1>1, ProceedIs DEF StageMoved, BytesAnswered, BytesTaken
<1>3. LockOf(call'[u]) = LockOf(call[u])
  BY <1>2 DEF SameCall, LockOf
<1>4. CASE LockParent(u)
  BY <1>3, <1>4 DEF LockParent, At, LockOf, Creations
<1>5. CASE LockFile(u)
  BY <1>3, <1>5 DEF LockFile, At, LockOf
<1>6. CASE NameFree(u) \/ Mkdir(u) \/ Mknod(u)
  BY <1>3, <1>6 DEF NameFree, Mkdir, Mknod, At, Locking
<1>7. CASE SendChunk(u)
  BY <1>3, <1>7 DEF SendChunk, At, Locking
<1>8. CASE ChunkRefused(u) \/ ChunkWritten(u)
  BY <1>3, <1>8 DEF ChunkRefused, ChunkWritten, At, Locking
<1>9. CASE NoParent(u) \/ NameTaken(u) \/ OpenFails(u) \/ MadeNothing(u) \/ Made(u)
           \/ ReadFile(u) \/ WriteReturns(u)
  <2>1. call' = [call EXCEPT ![u] = NoCall]
    BY <1>9 DEF NoParent, NameTaken, OpenFails, MadeNothing, Made, ReadFile, WriteReturns,
                Fail, Succeed
  <2> QED
    BY <1>1, <2>1, OneReplaced
<1> QED
  BY <1>4, <1>5, <1>6, <1>7, <1>8, <1>9 DEF Proceed

\* A call that begins waits.
LEMMA BeginIs ==
  ASSUME CallsWellFormed, NEW u \in Users, NEW c \in Calls, Begin(u, c)
  PROVE  OthersSame(u) /\ call'[u].stage = "waiting"
<1> DEFINE begun == [op |-> c.op, path |-> c.path, data |-> c.data,
                     stage |-> "waiting", done |-> 0, count |-> 0]
<1>1. call' = [call EXCEPT ![u] = begun] /\ begun.stage = "waiting"
  BY DEF Begin
<1> HIDE DEF begun
<1> QED
  BY <1>1, OneReplaced

\* No step gives a lock to two calls.
LEMMA NextExclusive ==
  ASSUME CallsWellFormed, LocksExclusive, [SoundFs]_fsVars
  PROVE  LocksExclusive'
<1>1. CASE UNCHANGED call
  BY <1>1 DEF LocksExclusive, LockOf
<1>2. CASE Unmount
  <2>1. \A u \in Users : call'[u].stage = "ready"
    BY <1>2 DEF Unmount, NoCall
  <2> QED
    BY <2>1 DEF LocksExclusive, Locking
<1>3. ASSUME NEW u \in Users, OthersSame(u),
             call'[u].stage \in Locking =>
                /\ LockOf(call'[u]) = LockOf(call[u])
                /\ call[u].stage \in Locking \/ ~ Held(LockOf(call[u]))
      PROVE  LocksExclusive'
  <2>1. ASSUME NEW v \in Users, v # u, call'[u].stage \in Locking, call'[v].stage \in Locking,
               LockOf(call'[u]) = LockOf(call'[v])
        PROVE  FALSE
    <3>1. call'[v] = call[v]
      BY <1>3, <2>1 DEF OthersSame
    <3>2. call[v].stage \in Locking /\ LockOf(call[v]) = LockOf(call[u])
      BY <1>3, <2>1, <3>1
    <3>3. Held(LockOf(call[u]))
      BY <3>2 DEF Held, Locking
    <3>4. call[u].stage \in Locking
      BY <1>3, <2>1, <3>3
    <3> QED
      BY <2>1, <3>2, <3>4 DEF LocksExclusive
  <2>2. ASSUME NEW v \in Users, NEW w \in Users, v # u, w # u,
               call'[v].stage \in Locking, call'[w].stage \in Locking,
               LockOf(call'[v]) = LockOf(call'[w])
        PROVE  v = w
    <3>1. call'[v] = call[v] /\ call'[w] = call[w]
      BY <1>3, <2>2 DEF OthersSame
    <3> QED
      BY <2>2, <3>1 DEF LocksExclusive
  <2>3. \A v \in Users : LockOf(call[v])' = LockOf(call'[v])
    BY DEF LockOf, ParentPath, Cleaned, EndsInSlash
  <2> QED
    BY <2>1, <2>2, <2>3 DEF LocksExclusive
<1>4. ASSUME NEW u \in Users, NEW c \in Calls, Begin(u, c) PROVE LocksExclusive'
  BY <1>3, <1>4, BeginIs DEF Locking
<1>5. ASSUME NEW u \in Users, Proceed(u) PROVE LocksExclusive'
  BY <1>3, <1>5, ProceedIs, LockTaken
<1>6. CASE SoundMount \/ SoundLibrary \/ UNCHANGED fsVars
  BY <1>1, <1>6 DEF SoundMount, SoundLibrary, fsVars
<1> QED
  BY <1>2, <1>4, <1>5, <1>6 DEF SoundFs

-----------------------------------------------------------------------------
(* Names                                                                   *)

\* A tree that keeps its nodes, their names and their parents.
SameTree(nodes, more) == Grown(nodes, more) /\ Len(more) = Len(nodes)

LEMMA SameTreeFinds ==
  ASSUME NEW nodes, NEW more, SameTree(nodes, more)
  PROVE  /\ NoNamesakes(nodes) => NoNamesakes(more)
         /\ \A path \in Seq(Names) : NodeAt(nodes, path) = 0 => NodeAt(more, path) = 0
<1>1. /\ nodes \in Seq(Nodes) /\ more \in Seq(Nodes) /\ Len(nodes) > 0 /\ Len(more) = Len(nodes)
      /\ \A n \in DOMAIN nodes : more[n].name = nodes[n].name /\ more[n].parent = nodes[n].parent
  BY DEF SameTree, Grown
<1>2. DOMAIN more = DOMAIN nodes /\ Len(nodes) \in Nat
  BY <1>1
<1>3. Grown(more, nodes)
  BY <1>1, <1>2 DEF Grown
<1> QED
  BY <1>1, <1>3, NodeStays, SameNames

\* A path that is split at its slashes is clean, and so is its parent.
LEMMA SplitPath ==
  ASSUME NEW path \in Seq(Names), IsSplit(path)
  PROVE  /\ Cleaned(path) = path /\ ~ EndsInSlash(path) /\ path # EmptyPath
         /\ path # << >> => /\ ParentPath(path) = ParentOf(path)
                            /\ Cleaned(ParentOf(path)) = ParentOf(path)
                            /\ NameOf(path) = path[Len(path)]
<1> DEFINE empty == Plain("")
<1>1. \A k \in DOMAIN path : path[k] # empty
  BY Zenon DEF IsSplit
<1>2. /\ \A q : EndsInSlash(q) <=> q # << >> /\ q[Len(q)] = empty
      /\ EmptyPath = <<empty>>
  BY Zenon DEF EndsInSlash, EmptyPath
<1> HIDE DEF empty
<1>3. ASSUME NEW q \in Seq(Names), \A k \in DOMAIN q : q[k] # empty
      PROVE  ~ EndsInSlash(q) /\ Cleaned(q) = q
  <2>1. ASSUME q # << >> PROVE Len(q) \in DOMAIN q
    BY <1>3, <2>1
  <2>2. ~ EndsInSlash(q)
    BY <1>2, <1>3, <2>1
  <2> QED
    BY <2>2 DEF Cleaned
<1>4. ASSUME path # << >>
      PROVE  Cleaned(ParentOf(path)) = ParentOf(path)
  <2> DEFINE up == ParentOf(path)
  <2>1. /\ up \in Seq(Names) /\ Len(up) = Len(path) - 1
        /\ \A k \in 1 .. Len(path) - 1 : up[k] = path[k]
    BY <1>4, ParentIs
  <2> HIDE DEF up
  <2>2. \A k \in DOMAIN up : up[k] = path[k] /\ k \in DOMAIN path
    BY <2>1
  <2>3. \A k \in DOMAIN up : up[k] # empty
    BY <1>1, <2>2
  <2>4. Cleaned(up) = up
    BY <1>3, <2>1, <2>3
  <2> QED
    BY <2>4 DEF up
<1>5. path # EmptyPath
  <2>1. ASSUME path = <<empty>> PROVE FALSE
    <3>1. 1 \in DOMAIN <<empty>> /\ <<empty>>[1] = empty
      OBVIOUS
    <3> QED
      BY <1>1, <2>1, <3>1
  <2> QED
    BY <1>2, <2>1
<1>6. ~ EndsInSlash(path) /\ Cleaned(path) = path
  BY <1>1, <1>3
<1> QED
  BY <1>4, <1>5, <1>6 DEF ParentPath, NameOf, ParentOf

\* The steps of the library that create nothing.
LEMMA KeepsNames ==
  ASSUME LumpsInv, ReloadInv, [Sound]_vars, wadPc \notin {"down", "crashed"}, wadPc' # "down",
         num' = num
  PROVE  SameTree(Completed, Completed')
<1>1. tree \in Seq(Nodes) /\ Completed \in Seq(Nodes) /\ Len(Completed) > 0
  <2>1. wadPc \in {"idle"} \union Writing
    BY DEF LumpsInv, MemoryInv
  <2>2. IsTree(Completed)
    BY <2>1 DEF ReloadInv, TreeInv, TreeAgrees
  <2> QED
    BY <2>2 DEF IsTree, LumpsInv, MemoryInv
<1>2. CASE Completed' = Completed
  <2> DEFINE nodes == Completed
  <2>1. nodes \in Seq(Nodes) /\ Len(nodes) > 0 /\ Completed' = nodes
    BY <1>1, <1>2
  <2> HIDE DEF nodes
  <2>2. SameTree(nodes, nodes)
    BY <2>1 DEF SameTree, Grown
  <2> QED
    BY <2>1, <2>2 DEF nodes
<1>3. CASE CallReturn
  <2>1. Completed' = tree' /\ tree' = Completed
    BY <1>3 DEF CallReturn, Completed
  <2> QED
    BY <1>2, <2>1
<1>4. CASE UNCHANGED <<tree, creation>>
  <2>1. Completed' = Completed
    BY <1>4 DEF Completed, Shifted
  <2> QED
    BY <1>2, <2>1
<1>5. CASE NumReaches \/ OffReaches \/ DescriptorReaches \/ UNCHANGED vars
  BY <1>4, <1>5 DEF NumReaches, OffReaches, DescriptorReaches, vars, memory
<1>6. ASSUME NEW path \in Paths, CreateNothing(path) \/ WriteToNothing(path) \/ RefuseWrite(path)
      PROVE  SameTree(Completed, Completed')
  BY <1>4, <1>6 DEF CreateNothing, WriteToNothing, RefuseWrite, vars, memory
<1>7. ASSUME NEW path \in Paths, NEW buffer \in Buffers, NEW offset \in WriteOffsets,
             WriteToFile(path, buffer, offset)
      PROVE  SameTree(Completed, Completed')
  <2>1. PICK n \in DOMAIN tree, count \in Nat : Extends(n, count, buffer, off + offset)
    BY <1>7, WrittenIs, Zenon
  <2> DEFINE new == ExtendedTree(n, off, count)
  <2>2. tree' = new /\ tree[n].length = 0 /\ creation' = creation /\ wadPc = "idle"
    BY <2>1, Zenon DEF Extends
  <2>3. off \in Nat /\ Completed = tree
    BY <2>2, IdleTree DEF LumpsInv, MemoryInv
  <2>4. TreeExtended(new, n, off, count)
    BY <1>1, <2>2, <2>3, ExtendedNode, Zenon
  <2> HIDE DEF new
  <2>5. /\ new \in Seq(Nodes) /\ Len(new) = Len(tree)
        /\ \A k \in DOMAIN tree : new[k].name = tree[k].name /\ new[k].parent = tree[k].parent
    BY <2>4, Zenon DEF TreeExtended
  <2>6. SameTree(tree, new)
    BY <1>1, <2>3, <2>5 DEF Grown, SameTree
  <2>7. creation = NoCreation
    BY <2>2 DEF LumpsInv, MemoryInv, Writing
  <2>8. Completed' = new
    BY <2>2, <2>7 DEF Completed
  <2> QED
    BY <2>3, <2>6, <2>8
<1>8. ~ LoadWhole /\ ~ GoDown
  BY DEF LoadWhole, Load, GoDown
<1>9. ASSUME NEW path \in Paths PROVE ~ CreateDirectory(path) /\ ~ CreateFile(path)
  <2>1. num \in Nat
    BY DEF LumpsInv, MemoryInv
  <2>2. ASSUME NEW d PROVE Len(<<d>>) = 1
    OBVIOUS
  <2>3. ASSUME NEW d, NEW e PROVE Len(<<d, e>>) = 2
    OBVIOUS
  <2>4. ASSUME CreateDirectory(path) \/ CreateFile(path) PROVE num' \in {num + 1, num + 2}
    <3>1. CASE CreateDirectory(path)
      <4>1. PICK d, e, index, node : Create(<<d, e>>, index, node)
        BY <3>1, Zenon DEF CreateDirectory
      <4> QED
        BY <2>3, <4>1 DEF Create
    <3>2. CASE CreateFile(path)
      <4>1. PICK d, index, node : Create(<<d>>, index, node)
        BY <3>2, Zenon DEF CreateFile
      <4> QED
        BY <2>2, <4>1 DEF Create
    <3> QED
      BY <2>4, <3>1, <3>2
  <2> QED
    BY <2>1, <2>4
<1> QED
  BY <1>3, <1>5, <1>6, <1>7, <1>8, <1>9, Zenon DEF Sound

-----------------------------------------------------------------------------
(* No directory has two children of one name                               *)

\* A creation that has found its name free.
FoundFree(c) == c.op \in Creations /\ c.stage = "absent"

\* Nobody makes the name while its call holds the parent directory.
AbsentHeld == \A u \in Users : FoundFree(call[u]) => NodeAt(Completed, call[u].path) = 0

\* The tree has no namesakes, the running call's node included ...
TreeUnique == wadPc \in {"idle"} \union Writing => NoNamesakes(Completed)

\* ... and neither has the tree that would be loaded.
FileUnique == IsWhole(disk) => NoNamesakes(Parse(ListOf(disk), disk.num).nodes)

NamesInv == AliveInv /\ LocksExclusive /\ AbsentHeld /\ TreeUnique /\ FileUnique

\* What is on disk is what was there, or what is in memory.
LEMMA NextFile ==
  ASSUME LumpsInv, ReloadInv, TreeUnique, FileUnique, [Sound]_vars
  PROVE  FileUnique'
<1>1. CASE ~ IsWhole(disk')
  BY <1>1 DEF FileUnique
<1>2. CASE IsWhole(disk) /\ ListOf(disk') = ListOf(disk) /\ disk'.num = disk.num
  BY <1>2 DEF FileUnique
<1>3. CASE wadPc = "writeList" /\ ListOf(disk') = descriptors /\ disk'.num = Len(descriptors)
  <2>1. TreeAgrees(Completed, descriptors) /\ NoNamesakes(Completed)
    BY <1>3 DEF ReloadInv, TreeInv, TreeUnique, Writing
  <2> DEFINE nodes == Completed
             fresh == Parse(descriptors, Len(descriptors)).nodes
  <2>2. descriptors \in Seq(Descriptors)
    BY DEF LumpsInv, MemoryInv
  <2>3. IsTree(fresh)
    BY <2>1, <2>2, ParseAgrees DEF TreeAgrees
  <2>4. IsTree(nodes) /\ View(nodes) = View(fresh)
    BY <2>1 DEF TreeAgrees
  <2> HIDE DEF nodes, fresh
  <2>5. NoNamesakes(nodes)
    BY <2>1 DEF nodes
  <2>6. NoNamesakes(fresh)
    BY <2>3, <2>4, <2>5, SameView
  <2> QED
    BY <1>3, <2>6 DEF FileUnique, fresh
<1> QED
  BY <1>1, <1>2, <1>3, NextDisk DEF DiskStep

\* A creation whose name is free.
CreatesFree(path) ==
    /\ path \in Paths /\ IsSplit(path) /\ NodeAt(Completed, path) = 0
    /\ CreateDirectory(path) \/ CreateFile(path)

\* The new node is the child of the parent the path names, by its last name.
LEMMA FreeLeaf ==
  ASSUME DirectoriesNamed, LumpsInv, ReloadInv, NEW path, CreatesFree(path)
  PROVE  /\ AddsLeaf(Completed, Completed') /\ path \in Seq(Names) /\ path # << >>
         /\ ParentPath(path) = ParentOf(path)
         /\ NodeAt(Completed, ParentOf(path)) # 0
         /\ Completed'[Len(Completed')].parent = NodeAt(Completed, ParentOf(path))
         /\ Completed'[Len(Completed')].name = path[Len(path)]
<1>1. path \in Paths /\ IsSplit(path) /\ NodeAt(Completed, path) = 0
  BY DEF CreatesFree
<1>2. /\ Completed = tree /\ AddsLeaf(tree, Completed')
      /\ FindNode(ParentPath(path)) # 0
      /\ Completed'[Len(Completed')].parent = FindNode(ParentPath(path))
      /\ Completed'[Len(Completed')].name = NameOf(path)
  BY CreatesLeaf DEF CreatesFree
<1>3. path \in Seq(Names)
  BY <1>1, PathsAreNamed
<1>4. path # << >>
  <2>1. tree \in Seq(Nodes) /\ Len(tree) > 0
    BY <1>2 DEF AddsLeaf, IsRooted
  <2>2. NodeAt(tree, << >>) # 0
    BY <2>1, RootFound DEF Root
  <2> QED
    BY <1>1, <1>2, <2>2
<1>5. /\ ParentPath(path) = ParentOf(path) /\ Cleaned(ParentOf(path)) = ParentOf(path)
      /\ NameOf(path) = path[Len(path)]
  BY <1>1, <1>3, <1>4, SplitPath
<1>6. FindNode(ParentPath(path)) = NodeAt(Completed, ParentOf(path))
  BY <1>2, <1>5 DEF FindNode
<1> QED
  BY <1>2, <1>3, <1>4, <1>5, <1>6

\* Creations of free names, and steps that create nothing, make no namesakes.
LEMMA NextTree ==
  ASSUME DirectoriesNamed, LumpsInv, ReloadInv, TreeUnique, FileUnique, [Sound]_vars,
         num' = num \/ wadPc' = "down" \/ LoadWhole \/ \E path : CreatesFree(path)
  PROVE  TreeUnique'
<1>1. CASE wadPc' = "down"
  BY <1>1 DEF TreeUnique, Writing
<1>2. CASE LoadWhole
  <2>1. creation' = NoCreation /\ tree' = Parse(ListOf(disk), disk.num).nodes /\ IsWhole(disk)
    BY <1>2 DEF LumpsInv, MemoryInv, LoadWhole, Load, Writing, ListIsWhole, ListOnDisk
  <2>2. Completed' = Parse(ListOf(disk), disk.num).nodes
    BY <2>1 DEF Completed
  <2> QED
    BY <2>1, <2>2 DEF TreeUnique, FileUnique
<1>3. CASE wadPc \in {"down", "crashed"} /\ ~ LoadWhole /\ wadPc' # "down"
  <2>1. UNCHANGED vars
    BY <1>3
       DEF Sound, GoDown, CreateDirectory, CreateFile, CreateNothing, NumReaches, OffReaches,
           DescriptorReaches, CallReturn, WriteToNothing, RefuseWrite, WriteToFile
  <2> QED
    BY <1>3, <2>1 DEF TreeUnique, Writing, vars
<1>4. ASSUME wadPc \notin {"down", "crashed"} PROVE NoNamesakes(Completed)
  BY <1>4 DEF LumpsInv, MemoryInv, TreeUnique
<1>5. CASE wadPc \notin {"down", "crashed"} /\ wadPc' # "down" /\ num' = num
  <2>1. SameTree(Completed, Completed')
    BY <1>5, KeepsNames
  <2>2. NoNamesakes(Completed')
    BY <1>4, <1>5, <2>1, SameTreeFinds
  <2> QED
    BY <2>2 DEF TreeUnique
<1>6. ASSUME NEW path, CreatesFree(path) PROVE TreeUnique'
  <2>1. NodeAt(Completed, path) = 0 /\ wadPc = "idle"
    BY <1>6 DEF CreatesFree, CreateDirectory, CreateFile
  <2>2. NoNamesakes(Completed')
    BY <1>4, <1>6, <2>1, FreeLeaf, LeafNamed
  <2> QED
    BY <2>2 DEF TreeUnique
<1> QED
  BY <1>1, <1>2, <1>3, <1>5, <1>6

\* A step of the daemon that leaves it up creates a free name or nothing.
LEMMA DaemonCreates ==
  ASSUME CallsServed, PathsSplit, AliveInv, AbsentHeld, SoundFs,
         wadPc \notin {"down", "crashed"}, wadPc' # "down"
  PROVE  \/ num' = num
         \/ \E v \in Users :
               Proceed(v) /\ call[v].op \in Creations /\ call[v].stage \in Locking
               /\ FoundFree(call[v]) /\ CreatesFree(call[v].path)
<1>1. ~ SoundMount /\ ~ Unmount
  BY DEF SoundMount, LoadWhole, Load, Unmount, GoDown
<1>2. CASE SoundLibrary
  BY <1>2 DEF SoundLibrary, NumReaches, OffReaches, DescriptorReaches, CallReturn, memory
<1>3. ASSUME NEW u \in Users, NEW c \in Calls, Begin(u, c) PROVE num' = num
  BY <1>3 DEF Begin, vars, memory
<1>4. ASSUME NEW v \in Users, Mkdir(v) \/ Mknod(v), num' # num
      PROVE  FoundFree(call[v]) /\ CreatesFree(call[v].path)
  <2>1. /\ At(v, {"mkdir", "mknod"}, "absent")
        /\ CreateDirectory(call[v].path) \/ CreateFile(call[v].path)
    BY <1>4 DEF Mkdir, Mknod, At, vars, memory
  <2>2. FoundFree(call[v])
    BY <2>1 DEF FoundFree, At, Creations
  <2>3. NodeAt(Completed, call[v].path) = 0
    BY <2>2 DEF AbsentHeld
  <2>4. IsAsked(call[v])
    BY <2>1, InCall DEF AliveInv, ClientInv
  <2>5. call[v].path \in Paths
    BY <2>4, ChunkServed
  <2>6. IsSplit(call[v].path)
    BY <2>4 DEF IsAsked, PathsSplit
  <2> QED
    BY <2>1, <2>2, <2>3, <2>5, <2>6 DEF CreatesFree
<1>5. ASSUME NEW v \in Users, Proceed(v), ~ Mkdir(v), ~ Mknod(v) PROVE num' = num
  <2>1. CASE SendChunk(v)
    <3>1. WriteToFile(call[v].path, Chunk(call[v]), call[v].done)
      BY <2>1 DEF SendChunk
    <3> QED
      BY <3>1, Zenon DEF WriteToFile
  <2>2. CASE ChunkRefused(v)
    BY <2>2 DEF ChunkRefused, RefuseWrite, WriteToNothing, vars, memory
  <2>3. CASE UNCHANGED vars
    BY <2>3 DEF vars, memory
  <2> QED
    BY <1>5, <2>1, <2>2, <2>3
       DEF Proceed, NoParent, LockParent, NameTaken, NameFree, MadeNothing, Made, OpenFails,
           ReadFile, LockFile, ChunkWritten, WriteReturns
<1>6. ASSUME NEW v \in Users, Proceed(v), num' # num
      PROVE  FoundFree(call[v]) /\ CreatesFree(call[v].path)
             /\ call[v].op \in Creations /\ call[v].stage \in Locking
  <2>1. FoundFree(call[v]) /\ CreatesFree(call[v].path)
    BY <1>4, <1>5, <1>6
  <2> QED
    BY <2>1 DEF FoundFree, Locking
<1> QED
  BY <1>1, <1>2, <1>3, <1>6 DEF SoundFs

\* A name that is looked up in vain is not in the tree.
LEMMA NothingFound ==
  ASSUME LumpsInv, ReloadInv, wadPc = "idle", NEW path \in Paths, IsSplit(path),
         Getattr(path) = "nothing"
  PROVE  NodeAt(Completed, path) = 0
<1>1. path \in Seq(Names)
  BY PathsAreNamed
<1>2. Cleaned(path) = path /\ ~ EndsInSlash(path) /\ path # EmptyPath
  BY <1>1, SplitPath
<1>3. FindNode(path) = 0
  BY <1>2 DEF Getattr, IsDirectory, IsContent
<1>4. Completed = tree
  BY IdleTree
<1> QED
  BY <1>2, <1>3, <1>4 DEF FindNode

\* What another call creates, below another directory, is not what was free.
LEMMA FreeStays ==
  ASSUME DirectoriesNamed, LumpsInv, ReloadInv, NEW q, CreatesFree(q),
         NEW path \in Paths, IsSplit(path), NodeAt(Completed, path) = 0,
         ParentPath(path) # ParentPath(q)
  PROVE  NodeAt(Completed', path) = 0
<1> DEFINE nodes == Completed
           more == Completed'
<1>1. /\ AddsLeaf(nodes, more) /\ q \in Seq(Names) /\ q # << >>
      /\ ParentPath(q) = ParentOf(q)
      /\ NodeAt(nodes, ParentOf(q)) # 0
      /\ more[Len(more)].parent = NodeAt(nodes, ParentOf(q))
  BY FreeLeaf
<1>2. path \in Seq(Names) /\ NodeAt(nodes, path) = 0
  BY PathsAreNamed
<1> HIDE DEF nodes, more
<1>3. ASSUME NodeAt(more, path) # 0 PROVE FALSE
  <2>1. /\ path # << >>
        /\ more[Len(more)].parent = NodeAt(nodes, ParentOf(path))
    BY <1>1, <1>2, <1>3, LeafFound
  <2>2. ParentPath(path) = ParentOf(path)
    BY <1>2, <2>1, SplitPath
  <2>3. ParentOf(path) \in Seq(Names) /\ ParentOf(q) \in Seq(Names)
    BY <1>1, <1>2, <2>1, ParentIs
  <2>4. ParentOf(path) = ParentOf(q)
    BY <1>1, <2>1, <2>3, PathsApart DEF AddsLeaf
  <2> QED
    BY <1>1, <2>2, <2>4
<1> QED
  BY <1>3 DEF more

\* A call that has found its name free has just found so, or waits.
LEMMA FreeCalls ==
  ASSUME CallsWellFormed, SoundFs, ~ Unmount, NEW u \in Users, FoundFree(call'[u])
  PROVE  \/ NameFree(u) /\ call'[u].path = call[u].path
         \/ call'[u] = call[u] /\ ~ Proceed(u)
<1>1. CASE Proceed(u)
  <2>1. call'[u] # NoCall
    BY DEF FoundFree, NoCall
  <2>2. call'[u].op \in Creations
    BY DEF FoundFree
  <2>3. SameCall(call[u], call'[u])
    BY <1>1, <2>1, ProceedIs DEF StageMoved, BytesAnswered, BytesTaken
  <2>4. call[u].op \in Creations /\ call[u].op \notin {"read", "write"}
    BY <2>2, <2>3 DEF SameCall, Creations
  <2>5. CASE NoParent(u) \/ NameTaken(u) \/ MadeNothing(u) \/ Made(u) \/ WriteReturns(u)
    <3>1. call' = [call EXCEPT ![u] = NoCall]
      BY <2>5 DEF NoParent, NameTaken, MadeNothing, Made, WriteReturns, Fail, Succeed
    <3> QED
      BY <2>1, <3>1, OneReplaced
  <2>6. CASE LockParent(u)
    <3>1. Stage(u, "locked")
      BY <2>6 DEF LockParent
    <3>2. call'[u].stage = "locked"
      BY <3>1, StageIs DEF StageMoved
    <3> QED
      BY <3>2 DEF FoundFree
  <2>7. CASE Mkdir(u) \/ Mknod(u)
    <3>1. Stage(u, "served")
      BY <2>7 DEF Mkdir, Mknod
    <3>2. call'[u].stage = "served"
      BY <3>1, StageIs DEF StageMoved
    <3> QED
      BY <3>2 DEF FoundFree
  <2>8. ~ OpenFails(u) /\ ~ ReadFile(u) /\ ~ LockFile(u) /\ ~ SendChunk(u) /\ ~ ChunkRefused(u)
        /\ ~ ChunkWritten(u)
    BY <2>4 DEF OpenFails, ReadFile, LockFile, SendChunk, ChunkRefused, ChunkWritten, At
  <2> QED
    BY <1>1, <2>3, <2>5, <2>6, <2>7, <2>8 DEF Proceed, SameCall
<1>2. ASSUME ~ Proceed(u) PROVE call'[u] = call[u]
  <2>1. ASSUME NEW v \in Users, v # u, Proceed(v) PROVE call'[u] = call[u]
    BY <2>1, ProceedIs DEF OthersSame
  <2>2. ASSUME NEW v \in Users, NEW c \in Calls, Begin(v, c) PROVE call'[u] = call[u]
    <3>1. OthersSame(v) /\ call'[v].stage = "waiting"
      BY <2>2, BeginIs
    <3> QED
      BY <3>1 DEF OthersSame, FoundFree
  <2>3. CASE SoundMount \/ SoundLibrary
    BY <2>3 DEF SoundMount, SoundLibrary
  <2> QED
    BY <1>2, <2>1, <2>2, <2>3 DEF SoundFs
<1> QED
  BY <1>1, <1>2

\* What a call has found free stays free until it creates it.
LEMMA NextAbsent ==
  ASSUME CallsServed, PathsSplit, DirectoriesNamed, NamesInv, SoundFs,
         wadPc \notin {"down", "crashed"}, wadPc' # "down"
  PROVE  AbsentHeld'
<1>1. /\ CallsWellFormed /\ Asked /\ LumpsInv /\ ReloadInv /\ AliveInv /\ AbsentHeld
      /\ LocksExclusive
  BY DEF NamesInv, AliveInv, ClientInv
<1>2. [Sound]_vars /\ ~ Unmount
  BY <1>1, SoundSteps DEF Unmount, GoDown
<1>3. ASSUME NEW u \in Users, NameFree(u) PROVE NodeAt(Completed', call[u].path) = 0
  <2>1. IsAsked(call[u])
    BY <1>1, <1>3, InCall DEF NameFree, Creations
  <2>2. call[u].path \in Paths /\ IsSplit(call[u].path)
    BY <2>1, ChunkServed DEF IsAsked, PathsSplit
  <2>3. wadPc = "idle" /\ Getattr(call[u].path) = "nothing" /\ UNCHANGED vars
    BY <1>3 DEF NameFree, Free
  <2>4. NodeAt(Completed, call[u].path) = 0
    BY <1>1, <2>2, <2>3, NothingFound
  <2>5. Completed' = Completed
    BY <2>3 DEF vars, memory, Completed, Shifted
  <2> QED
    BY <2>4, <2>5
<1>4. ASSUME NEW u \in Users, FoundFree(call[u]), ~ Proceed(u)
      PROVE  NodeAt(Completed', call[u].path) = 0
  <2>1. call[u] # NoCall
    BY <1>4 DEF FoundFree, NoCall
  <2>2. IsAsked(call[u])
    BY <1>1, <2>1 DEF Asked
  <2>3. call[u].path \in Paths /\ IsSplit(call[u].path)
    BY <2>2, ChunkServed DEF IsAsked, PathsSplit
  <2>4. NodeAt(Completed, call[u].path) = 0
    BY <1>1, <1>4 DEF AbsentHeld
  <2>5. CASE num' = num
    <3>1. SameTree(Completed, Completed')
      BY <1>1, <1>2, <2>5, KeepsNames
    <3>2. call[u].path \in Seq(Names)
      BY <2>3, PathsAreNamed
    <3> QED
      BY <2>4, <3>1, <3>2, SameTreeFinds
  <2>6. ASSUME NEW v \in Users, Proceed(v), call[v].op \in Creations, call[v].stage \in Locking,
               CreatesFree(call[v].path)
        PROVE  NodeAt(Completed', call[u].path) = 0
    <3>1. u # v
      BY <1>4, <2>6
    <3>2. LockOf(call[u]) # LockOf(call[v])
      BY <1>1, <1>4, <2>6, <3>1 DEF LocksExclusive, FoundFree, Locking
    <3>3. ParentPath(call[u].path) # ParentPath(call[v].path)
      BY <1>4, <2>6, <3>2 DEF LockOf, FoundFree, Creations
    <3> QED
      BY <1>1, <2>3, <2>4, <2>6, <3>3, FreeStays
  <2> QED
    BY <1>1, <2>5, <2>6, DaemonCreates
<1>5. ASSUME NEW u \in Users, FoundFree(call'[u])
      PROVE  NodeAt(Completed', call'[u].path) = 0
  <2>1. CASE NameFree(u) /\ call'[u].path = call[u].path
    BY <1>3, <2>1
  <2>2. CASE call'[u] = call[u] /\ ~ Proceed(u)
    BY <1>4, <1>5, <2>2
  <2> QED
    BY <1>1, <1>2, <1>5, <2>1, <2>2, FreeCalls
<1> QED
  BY <1>5 DEF AbsentHeld, FoundFree

\* Every step keeps the invariant.
LEMMA NextNames ==
  ASSUME CallsServed, PathsSplit, DirectoriesNamed, NamesInv, [SoundFs]_fsVars
  PROVE  NamesInv'
<1>1. /\ AliveInv /\ LumpsInv /\ ReloadInv /\ CallsWellFormed /\ Asked /\ AbsentHeld /\ TreeUnique
      /\ FileUnique /\ LocksExclusive /\ wadPc # "crashed" /\ NoneWhileDown
  BY DEF NamesInv, AliveInv, ClientInv
<1>2. AliveInv' /\ LocksExclusive' /\ [Sound]_vars
  BY <1>1, NextAlive, NextExclusive, SoundSteps, SoundIsFs
<1>3. FileUnique'
  BY <1>1, <1>2, NextFile
<1>4. NoneWhileDown' /\ wadPc' # "crashed"
  BY <1>2 DEF AliveInv
<1>5. CASE UNCHANGED fsVars
  <2>1. Completed' = Completed /\ call' = call /\ num' = num
    BY <1>5 DEF fsVars, vars, memory, Completed, Shifted
  <2>2. AbsentHeld'
    BY <1>1, <2>1 DEF AbsentHeld
  <2>3. TreeUnique'
    BY <1>1, <1>2, <2>1, NextTree
  <2> QED
    BY <1>2, <1>3, <2>2, <2>3 DEF NamesInv
<1>6. CASE wadPc' = "down" \/ wadPc = "down"
  <2>1. \A u \in Users : call'[u].stage # "absent"
    <3>1. CASE wadPc' = "down"
      BY <1>4, <3>1 DEF NoneWhileDown, NoCall
    <3>2. CASE wadPc = "down" /\ SoundMount
      BY <1>1, <3>2 DEF NoneWhileDown, NoCall, SoundMount
    <3>3. CASE wadPc = "down" /\ SoundFs /\ wadPc' # "down" /\ ~ SoundMount
      <4>1. \A u \in Users : ~ Proceed(u)
        BY <1>1, <3>3, NobodyProceeds
      <4> QED
        BY <3>3, <4>1
           DEF SoundFs, Unmount, GoDown, SoundLibrary, NumReaches, OffReaches, DescriptorReaches,
               CallReturn, Begin
    <3> QED
      BY <1>1, <1>5, <1>6, <3>1, <3>2, <3>3 DEF NoneWhileDown, NoCall, fsVars
  <2>2. AbsentHeld'
    BY <2>1 DEF AbsentHeld, FoundFree
  <2>3. TreeUnique'
    <3>1. CASE wadPc' = "down" \/ LoadWhole
      BY <1>1, <1>2, <3>1, NextTree
    <3>2. CASE wadPc = "down" /\ ~ LoadWhole
      <4>1. wadPc' = "down" \/ UNCHANGED vars
        BY <1>2, <3>2
           DEF Sound, GoDown, CreateDirectory, CreateFile, CreateNothing, NumReaches, OffReaches,
               DescriptorReaches, CallReturn, WriteToNothing, RefuseWrite, WriteToFile
      <4>2. wadPc' = "down"
        BY <3>2, <4>1 DEF vars
      <4> QED
        BY <3>1, <4>2
    <3> QED
      BY <1>6, <3>1, <3>2
  <2> QED
    BY <1>2, <1>3, <2>2, <2>3 DEF NamesInv
<1>7. CASE SoundFs /\ wadPc # "down" /\ wadPc' # "down"
  <2>1. wadPc \notin {"down", "crashed"}
    BY <1>1, <1>7
  <2>2. AbsentHeld'
    BY <1>7, <2>1, NextAbsent
  <2>3. num' = num \/ \E path : CreatesFree(path)
    BY <1>1, <1>7, <2>1, DaemonCreates
  <2>4. TreeUnique'
    BY <1>1, <1>2, <2>3, NextTree
  <2> QED
    BY <1>2, <1>3, <2>2, <2>4 DEF NamesInv
<1> QED
  BY <1>5, <1>6, <1>7

\* The children of a node are nodes of the tree below it, each listed once.
AreChildren(s, n, limit) ==
    /\ s \in Seq(1 .. limit)
    /\ \A i \in 1 .. Len(s) : tree[s[i]].parent = n
    /\ \A i, j \in 1 .. Len(s) : s[i] = s[j] => i = j

\* A list of children to which the next node is added, if it is one.
LEMMA ChildListed ==
  ASSUME NEW limit \in Nat, NEW n, NEW s, AreChildren(s, n, limit)
  PROVE  /\ AreChildren(s, n, limit + 1)
         /\ tree[limit + 1].parent = n => AreChildren(Append(s, limit + 1), n, limit + 1)
<1>1. /\ s \in Seq(1 .. limit) /\ Len(s) \in Nat
      /\ \A i \in 1 .. Len(s) : tree[s[i]].parent = n /\ s[i] \in 1 .. limit
      /\ \A i, j \in 1 .. Len(s) : s[i] = s[j] => i = j
  BY DEF AreChildren
<1>2. s \in Seq(1 .. limit + 1)
  <2>1. \A i \in 1 .. Len(s) : s[i] \in 1 .. limit + 1
    BY <1>1
  <2> QED
    BY <1>1, <2>1
<1>3. AreChildren(s, n, limit + 1)
  BY <1>1, <1>2 DEF AreChildren
<1>4. ASSUME tree[limit + 1].parent = n
      PROVE  AreChildren(Append(s, limit + 1), n, limit + 1)
  <2> DEFINE k == limit + 1
             t == Append(s, k)
  <2>1. k \in 1 .. limit + 1
    OBVIOUS
  <2>2. k \notin 1 .. limit
    OBVIOUS
  <2>3. tree[k].parent = n
    BY <1>4
  <2> HIDE DEF k
  <2>4. /\ t \in Seq(1 .. limit + 1) /\ Len(t) = Len(s) + 1 /\ t[Len(s) + 1] = k
        /\ \A i \in 1 .. Len(s) : t[i] = s[i]
    BY <1>2, <2>1
  <2> HIDE DEF t
  <2>5. \A i \in 1 .. Len(t) : i \in 1 .. Len(s) \/ i = Len(s) + 1
    BY <1>1, <2>4
  <2>6. \A i \in 1 .. Len(t) : tree[t[i]].parent = n
    BY <1>1, <2>3, <2>4, <2>5
  <2>7. \A i, j \in 1 .. Len(t) : t[i] = t[j] => i = j
    BY <1>1, <2>2, <2>4, <2>5
  <2>8. AreChildren(t, n, limit + 1)
    BY <2>4, <2>6, <2>7 DEF AreChildren
  <2> QED
    BY <2>8 DEF t, k
<1> QED
  BY <1>3, <1>4

\* The loop over the tree lists every child once.
LEMMA ChildrenListed ==
  ASSUME tree \in Seq(Nodes), NEW n
  PROVE  AreChildren(Children(n), n, Len(tree))
<1> DEFINE V == Seq(Nat)
           step(s, k) == IF tree[k].parent = n THEN Append(s, k) ELSE s
           next == [k \in 1 .. Len(tree) |-> [s \in V |-> step(s, k)]]
           inline(f) == [k \in 0 .. Len(tree) |->
                            IF k = 0 THEN << >> ELSE step(f[k - 1], k)]
           among == CHOOSE f : f = inline(f)
<1>1. Len(tree) \in Nat /\ << >> \in V
  OBVIOUS
<1>2. \A s \in V, k \in 1 .. Len(tree) : step(s, k) \in V
  OBVIOUS
<1>3. next \in [1 .. Len(tree) -> [V -> V]]
  BY <1>2
<1>4. \A s \in V, k \in 1 .. Len(tree) : next[k][s] = step(s, k)
  OBVIOUS
<1>5. Children(n) = among[Len(tree)]
  BY DEF Children
<1> HIDE DEF next, V
<1>6. PICK f \in [0 .. Len(tree) -> V] : Computes(f, Len(tree), << >>, next)
  BY <1>1, <1>3, RecursionExists
<1>7. f = inline(f)
  <2>1. ASSUME NEW k \in 0 .. Len(tree) PROVE f[k] = inline(f)[k]
    <3>1. f[k] = IF k = 0 THEN << >> ELSE next[k][f[k - 1]]
      BY <1>6 DEF Computes
    <3>2. k # 0 => k \in 1 .. Len(tree) /\ f[k - 1] \in V
      BY <1>1
    <3> QED
      BY <1>4, <3>1, <3>2
  <2> QED
    BY <1>6, <2>1
<1>8. among = inline(among)
  BY <1>7
<1> HIDE DEF among
<1>9. among[0] = << >>
  BY <1>1, <1>8
<1>10. ASSUME NEW k \in 1 .. Len(tree) PROVE among[k] = step(among[k - 1], k)
  <2> HIDE DEF step
  <2> QED
    BY <1>1, <1>8, <1>10
<1> DEFINE S == {k \in 0 .. Len(tree) : AreChildren(among[k], n, k)}
<1>11. 0 \in S
  <2>1. << >> \in Seq(1 .. 0) /\ Len(<< >>) = 0
    OBVIOUS
  <2> DEFINE e == << >>
  <2>2. e \in Seq(1 .. 0) /\ Len(e) = 0
    BY <2>1
  <2> HIDE DEF e
  <2>3. AreChildren(e, n, 0)
    BY <2>2 DEF AreChildren
  <2> QED
    BY <1>1, <1>9, <2>3 DEF e
<1>12. ASSUME NEW k \in 0 .. Len(tree) - 1, k \in S PROVE k + 1 \in S
  <2>1. k \in Nat /\ k + 1 \in 1 .. Len(tree) /\ (k + 1) - 1 = k /\ k + 1 \in 0 .. Len(tree)
    BY <1>1
  <2>2. among[k + 1] = IF tree[k + 1].parent = n THEN Append(among[k], k + 1) ELSE among[k]
    BY <1>10, <2>1
  <2>3. AreChildren(among[k], n, k)
    BY <1>12
  <2>4. AreChildren(among[k + 1], n, k + 1)
    BY <2>1, <2>2, <2>3, ChildListed
  <2> QED
    BY <2>1, <2>4
<1> HIDE DEF S
<1>13. 0 .. Len(tree) \subseteq S
  BY <1>1, <1>11, <1>12, IntervalInduction
<1>14. Len(tree) \in S
  BY <1>1, <1>13
<1> QED
  BY <1>5, <1>14 DEF S

\* A directory of a tree without namesakes lists every name once.
LEMMA ListsOnce ==
  ASSUME tree \in Seq(Nodes), NoNamesakes(tree), NEW path
  PROVE  LET names == Readdir(path)
         IN  \A i, j \in DOMAIN names : names[i] = names[j] => i = j
<1> DEFINE n == FindNode(path)
           s == Children(n)
<1>1. CASE ~ IsDirectory(path)
  <2>1. Readdir(path) = << >>
    BY <1>1 DEF Readdir, GetDirectory
  <2> QED
    BY <2>1
<1>2. CASE IsDirectory(path)
  <2>1. Readdir(path) = [i \in DOMAIN s |-> tree[s[i]].name]
    BY <1>2 DEF Readdir, GetDirectory
  <2>2. AreChildren(s, n, Len(tree))
    BY ChildrenListed
  <2> HIDE DEF s, n
  <2>7. s \in Seq(1 .. Len(tree)) /\ DOMAIN tree = 1 .. Len(tree)
    BY <2>2 DEF AreChildren
  <2>8. DOMAIN s = 1 .. Len(s) /\ \A i \in 1 .. Len(s) : s[i] \in 1 .. Len(tree)
    BY <2>7
  <2>3. /\ \A i \in DOMAIN s : s[i] \in DOMAIN tree /\ tree[s[i]].parent = n
        /\ \A i, j \in DOMAIN s : s[i] = s[j] => i = j
    BY <2>2, <2>7, <2>8 DEF AreChildren
  <2>4. \A i, j \in DOMAIN s : tree[s[i]].name = tree[s[j]].name => i = j
    BY <2>3 DEF NoNamesakes
  <2> DEFINE names == Readdir(path)
  <2>5. DOMAIN names = DOMAIN s /\ \A i \in DOMAIN s : names[i] = tree[s[i]].name
    BY <2>1
  <2> HIDE DEF names
  <2>6. \A i, j \in DOMAIN names : names[i] = names[j] => i = j
    BY <2>4, <2>5
  <2> QED
    BY <2>6 DEF names
<1> QED
  BY <1>1, <1>2

\* For WAD files without namesakes, and paths the kernel has split at their
\* slashes: no directory lists a name twice, whoever makes it at the same time.
\* Neither the library nor the handlers check; it is the lookup of the name
\* under the lock of its parent directory, which every creation of that name
\* would need, that keeps a second one away, and a whole file a daemon leaves
\* when it dies has no namesakes either.  A torn list may well have some: this
\* is of daemons that have loaded none, on disks that took header and list.
THEOREM NamesUniqueAlways ==
  ASSUME BalancedDisks, DirectoriesNamed, CallsServed, NamesUniqueFirst, PathsSplit
  PROVE  FsSpec => []NamesUnique
<1> DEFINE Inv == ClientInv /\ (astray = 0 => NamesInv)
<1>1. ASSUME FsInit PROVE Inv
  <2>1. Init /\ wadPc = "down" /\ disk \in InitialDisks /\ \A u \in Users : call[u] = NoCall
    BY <1>1 DEF FsInit, Init
  <2>2. ClientInv /\ LumpsInv /\ ReloadInv
    BY <1>1, <2>1, InitClient, InitInv, InitReload
  <2>3. AliveInv
    BY <2>1, <2>2 DEF AliveInv, WritersFound, NoneWhileDown, NoCall
  <2>4. LocksExclusive /\ AbsentHeld
    BY <2>1 DEF LocksExclusive, AbsentHeld, FoundFree, Locking, NoCall
  <2>5. TreeUnique /\ FileUnique
    BY <2>1 DEF TreeUnique, FileUnique, NamesUniqueFirst, Writing
  <2> QED
    BY <2>2, <2>3, <2>4, <2>5 DEF NamesInv
<1>2. Inv /\ [FsNext]_fsVars => Inv'
  <2> SUFFICES ASSUME Inv, [FsNext]_fsVars PROVE Inv'
    OBVIOUS
  <2>1. ClientInv'
    BY NextClient
  <2>2. ASSUME astray' = 0 PROVE NamesInv'
    BY <2>2, FsStepIsSound, NextNames
  <2> QED
    BY <2>1, <2>2
<1>3. ASSUME Inv PROVE NamesUnique
  <2>1. ASSUME astray = 0 PROVE LumpsInv /\ ReloadInv /\ TreeUnique
    BY <1>3, <2>1 DEF NamesInv, AliveInv
  <2>2. ASSUME wadPc = "idle", astray = 0 PROVE tree \in Seq(Nodes) /\ NoNamesakes(tree)
    BY <2>1, <2>2, IdleTree DEF TreeUnique, LumpsInv, MemoryInv
  <2>3. ASSUME NEW c \in Calls, wadPc = "idle", astray = 0
        PROVE  LET names == Readdir(ParentPath(c.path))
               IN  \A i, j \in DOMAIN names : names[i] = names[j] => i = j
    BY <2>2, <2>3, ListsOnce
  <2> QED
    BY <2>3 DEF NamesUnique
<1> QED
  BY <1>1, <1>2, <1>3, PTL DEF FsSpec

-----------------------------------------------------------------------------
(* What a tree of paths shows of what users were told                      *)

\* An entry is there, of its kind, with its bytes if it has any.
Shows(f, p, entry) ==
    /\ p \in DOMAIN f
    /\ f[p].isDir = entry.isDir
    /\ entry.bytes \in {<<>>, f[p].bytes}

\* What a write tells of its file once count bytes are answered.
Answer(c, count) == FsEntry(FALSE, SubSeq(c.data, 1, count))

\* All that users were told, and what the running writes will tell them.
ToldIn(f, told, calls) ==
    /\ \A p \in DOMAIN told : Shows(f, p, told[p])
    /\ \A u \in Users : calls[u].op = "write" /\ calls[u].done > 0 =>
          Shows(f, calls[u].path, Answer(calls[u], calls[u].done))

\* A step of the tree of paths takes back nothing that it shows.
LEMMA ShowsStay ==
  ASSUME NEW f, NEW g, StepShown(f, g), NEW p, NEW entry, Shows(f, p, entry)
  PROVE  Shows(g, p, entry)
<1>1. CASE g = f
  BY <1>1
<1>2. CASE Creates(f, g)
  <2>1. PICK q \in DOMAIN g \ DOMAIN f, isDir \in BOOLEAN :
           g = [r \in DOMAIN f \union {q} |-> IF r = q THEN EmptyEntry(isDir) ELSE f[r]]
    BY <1>2 DEF Creates
  <2>2. p \in DOMAIN f /\ p # q
    BY <2>1 DEF Shows
  <2>3. p \in DOMAIN g /\ g[p] = f[p]
    BY <2>1, <2>2
  <2> QED
    BY <2>3 DEF Shows
<1>3. CASE Fills(f, g)
  <2>1. PICK q \in DOMAIN f :
           /\ f[q] = EmptyEntry(FALSE) /\ g[q].isDir = FALSE
           /\ g = [r \in DOMAIN f |-> IF r = q THEN g[q] ELSE f[r]]
    BY <1>3 DEF Fills
  <2>2. p \in DOMAIN f /\ DOMAIN g = DOMAIN f
    BY <2>1 DEF Shows
  <2>3. CASE p # q
    <3>1. g[p] = f[p]
      BY <2>1, <2>2, <2>3
    <3> QED
      BY <2>2, <3>1 DEF Shows
  <2>4. CASE p = q
    <3>1. f[p].isDir = FALSE /\ f[p].bytes = << >> /\ g[p].isDir = FALSE
      BY <2>1, <2>4 DEF EmptyEntry
    <3> QED
      BY <2>2, <3>1 DEF Shows
  <2> QED
    BY <2>3, <2>4
<1> QED
  BY <1>1, <1>2, <1>3 DEF StepShown

LEMMA ToldStays ==
  ASSUME NEW f, NEW g, StepShown(f, g), NEW told, NEW calls, ToldIn(f, told, calls)
  PROVE  ToldIn(g, told, calls)
BY ShowsStay DEF ToldIn

-----------------------------------------------------------------------------
(* What a file that is whole shows                                         *)

Loaded(d) == Parse(ListOf(d), d.num).nodes

\* A tree that agrees with a list shows what is loaded from it.
AgreeingShown ==
    \A list \in Seq(Descriptors) : \A nodes :
       TreeAgrees(nodes, list) /\ HasRoot(nodes) =>
          Shown(disk, Parse(list, Len(list)).nodes) = Shown(disk, nodes)

LEMMA FoundShown == AgreeingShown
<1> SUFFICES ASSUME NEW list \in Seq(Descriptors), NEW nodes, TreeAgrees(nodes, list), HasRoot(nodes)
             PROVE  Shown(disk, Parse(list, Len(list)).nodes) = Shown(disk, nodes)
  BY DEF AgreeingShown
<1> DEFINE found == Parse(list, Len(list)).nodes
<1>1. Reachable(found) = Reachable(nodes)
  BY FoundReach
<1>2. IsTree(found) /\ IsTree(nodes)
  <2>1. TreeAgrees(found, list)
    BY ParseAgrees DEF TreeAgrees
  <2> HIDE DEF found
  <2> QED
    BY <2>1 DEF TreeAgrees
<1> HIDE DEF found
<1>3. Shown(disk, found) = Shown(disk, nodes)
  BY <1>1, <1>2, ReachShown
<1> QED
  BY <1>3 DEF found

\* Between calls the file shows what the tree shows.
LEMMA IdleShown ==
  ASSUME LumpsInv, ReloadInv, wadPc = "idle"
  PROVE  IsWhole(disk) /\ Shown(disk, Loaded(disk)) = Shown(disk, tree)
<1>1. IsWhole(disk) /\ TreeAgrees(tree, ListOf(disk))
  BY IdleOne
<1>2. ListOf(disk) \in Seq(Descriptors) /\ Len(ListOf(disk)) = disk.num
  BY <1>1, WholeTree
<1>3. HasRoot(tree)
  BY <1>1, RootsOf DEF TreeAgrees
<1> QED
  BY <1>1, <1>2, <1>3, FoundShown DEF Loaded, AgreeingShown

\* The cells of a list's files lie before it.
LEMMA FilesBefore ==
  ASSUME LumpsInv, ReloadInv, IsWhole(disk), NEW n \in DOMAIN Loaded(disk)
  PROVE  LET node == Loaded(disk)[n]
         IN  /\ node.offset \in Nat /\ node.length \in Nat
             /\ node.length = 0 \/ node.offset + node.length <= disk.off
<1> DEFINE list == ListOf(disk)
           nodes == Loaded(disk)
<1>1. list \in Seq(Descriptors) /\ Len(list) = disk.num /\ IsTree(nodes)
  BY WholeTree DEF Loaded
<1>2. FilesDescribed(nodes, list, Len(list))
  BY <1>1, ParseDescribes DEF Loaded
<1>3. Apart(list, disk.off)
  BY DEF LumpsInv, DiskInv
<1> HIDE DEF list, nodes
<1> DEFINE node == nodes[n]
           i == node.start + 1
<1>4. node \in Nodes
  BY <1>1 DEF IsTree, nodes
<1>5. node.offset \in Nat /\ node.length \in Nat /\ node.start \in Nat
  BY <1>4 DEF Nodes
<1>6. CASE node.isDir
  <2>1. node.length = 0
    BY <1>2, <1>6 DEF FilesDescribed, nodes
  <2> QED
    BY <1>5, <2>1 DEF nodes
<1>7. CASE ~ node.isDir
  <2>1. /\ node.start < Len(list)
        /\ list[i].offset = node.offset /\ list[i].length = node.length
    BY <1>2, <1>7 DEF FilesDescribed, nodes
  <2>2. i \in DOMAIN list
    BY <1>1, <1>5, <2>1
  <2> HIDE DEF i, node
  <2>3. node.length > 0 => node.offset + node.length <= disk.off
    BY <1>3, <2>1, <2>2 DEF Apart
  <2>4. node.length = 0 \/ node.offset + node.length <= disk.off
    BY <1>5, <2>3
  <2> QED
    BY <1>5, <2>4 DEF node, nodes
<1> QED
  BY <1>6, <1>7

\* No step of a running process, and none without one, writes where they are.
LEMMA ListNotBehind ==
  ASSUME LumpsInv, [Sound]_vars
  PROVE  disk' = disk \/ disk.off <= off
<1>1. CASE wadPc \in {"down", "crashed"}
  <2>1. UNCHANGED disk
    BY <1>1, Zenon
       DEF Sound, LoadWhole, Load, GoDown, CreateDirectory, CreateFile, CreateNothing,
           NumReaches, OffReaches, DescriptorReaches, CallReturn, WriteToNothing, RefuseWrite,
           WriteToFile, vars
  <2> QED
    BY <2>1
<1>2. CASE wadPc \in {"idle"} \union Writing
  BY <1>2 DEF LumpsInv, MemoryInv, DiskInv, Writing
<1> QED
  BY <1>1, <1>2 DEF LumpsInv, MemoryInv

\* As long as the list on disk stays the same, so does what it shows.
LEMMA FileShown ==
  ASSUME ShapeInv, LumpsInv, ReloadInv, [Sound]_vars, IsWhole(disk),
         ListOf(disk') = ListOf(disk), disk'.num = disk.num
  PROVE  Shown(disk', Loaded(disk')) = Shown(disk, Loaded(disk))
<1> DEFINE nodes == Loaded(disk)
<1>1. Loaded(disk') = nodes
  BY DEF Loaded
<1>2. IsTree(nodes)
  BY WholeTree DEF Loaded
<1>3. off \in Nat /\ disk.off \in Nat
  BY DEF LumpsInv, MemoryInv, DiskInv, IsDisk
<1>4. ASSUME NEW n \in DOMAIN nodes
      PROVE  EntryIn(disk', nodes[n]) = EntryIn(disk, nodes[n])
  <2> DEFINE o == nodes[n].offset
             len == nodes[n].length
  <2>1. o \in Nat /\ len \in Nat /\ (len = 0 \/ o + len <= disk.off)
    BY <1>4, FilesBefore
  <2> HIDE DEF o, len, nodes
  <2>2. CASE len = 0
    BY <2>2 DEF BytesIn, EntryIn, len
  <2>3. CASE disk' = disk
    BY <2>3
  <2>4. CASE len # 0 /\ disk.off <= off
    <3>1. o + len <= off
      BY <1>3, <2>1, <2>4
    <3>2. BytesIn(disk', o, len) = BytesIn(disk, o, len)
      BY <2>1, <3>1, BytesStay
    <3> QED
      BY <3>2 DEF EntryIn, o, len
  <2> QED
    BY <2>2, <2>3, <2>4, ListNotBehind
<1>5. SameNodes(nodes, nodes)
  BY <1>2 DEF SameNodes, Grown, IsTree
<1> HIDE DEF nodes
<1>6. Shown(disk', nodes) = Shown(disk, nodes)
  BY <1>2, <1>4, <1>5, ShownSame
<1> QED
  BY <1>1, <1>6 DEF nodes

\* The last descriptor of a rewritten list brings what memory has ready.
LEMMA RewrittenShown ==
  ASSUME ShapeInv, LumpsInv, ReloadInv, UpInv, PlaceInv, [Sound]_vars, wadPc = "writeList",
         wadPc' = "writeList", ListOf(disk') = descriptors, disk'.num = Len(descriptors)
  PROVE  StepShown(Shown(disk, tree), Shown(disk', Loaded(disk')))
<1>1. tree' = tree
  BY Zenon DEF Sound, LoadWhole, Load, GoDown, CreateDirectory, CreateFile, CreateNothing,
               NumReaches, OffReaches, DescriptorReaches, CallReturn, WriteToNothing,
               RefuseWrite, WriteToFile, vars, memory
<1>2. IsTree(tree)
  BY DEF UpInv
<1>3. Shown(disk', tree) = Shown(disk, tree)
  BY <1>1, <1>2, TreeLeft
<1> DEFINE nodes == Completed
           found == Parse(descriptors, Len(descriptors)).nodes
<1>4. TreeAgrees(nodes, descriptors) /\ descriptors \in Seq(Descriptors)
  BY DEF ReloadInv, TreeInv, Writing, LumpsInv, MemoryInv
<1>5. HasRoot(nodes)
  BY <1>4, RootsOf DEF TreeAgrees
<1>6. AgreeingShown'
  BY FoundShown, PTL
<1>7. Shown(disk', found) = Shown(disk', nodes)
  <2> HIDE DEF nodes
  <2> QED
    BY <1>4, <1>5, <1>6 DEF AgreeingShown
<1>8. StepShown(Shown(disk', tree), Shown(disk', nodes))
  BY CompletedShown DEF Writing
<1>9. Loaded(disk') = found
  BY DEF Loaded
<1> HIDE DEF nodes, found
<1> QED
  BY <1>3, <1>7, <1>8, <1>9

\* Whatever a step does to the file, what users were told is in it.
LEMMA FileTells ==
  ASSUME ShapeInv, LumpsInv, ReloadInv, UpInv, PlaceInv, [Sound]_vars, NEW told, NEW calls,
         wadPc # "down" => ToldIn(Shown(disk, tree), told, calls),
         IsWhole(disk) => ToldIn(Shown(disk, Loaded(disk)), told, calls)
  PROVE  IsWhole(disk') => ToldIn(Shown(disk', Loaded(disk')), told, calls)
<1>1. CASE IsWhole(disk) /\ ListOf(disk') = ListOf(disk) /\ disk'.num = disk.num
  <2>1. Shown(disk', Loaded(disk')) = Shown(disk, Loaded(disk))
    BY <1>1, FileShown
  <2> QED
    BY <1>1, <2>1
<1>2. CASE /\ wadPc = "writeList" /\ wadPc' = "writeList"
           /\ ListOf(disk') = descriptors /\ disk'.num = Len(descriptors)
  BY <1>2, RewrittenShown, ToldStays
<1> QED
  BY <1>1, <1>2, NextDisk DEF DiskStep

\* Whatever a step does to the tree, what users were told is in it.
LEMMA TreeTells ==
  ASSUME ShapeInv, LumpsInv, ReloadInv, UpInv, PlaceInv, [Sound]_vars, NEW told, NEW calls,
         wadPc # "down" => ToldIn(Shown(disk, tree), told, calls),
         IsWhole(disk) => ToldIn(Shown(disk, Loaded(disk)), told, calls)
  PROVE  wadPc' # "down" => ToldIn(Shown(disk', tree'), told, calls)
<1>1. CASE wadPc # "down" /\ wadPc' # "down"
  BY <1>1, UpShown, ToldStays
<1>2. CASE wadPc = "down" /\ LoadWhole
  <2>1. tree' = Loaded(disk) /\ disk' = disk /\ IsWhole(disk)
    BY <1>2, LoadTree DEF LoadWhole, Load, ListIsWhole, Loaded
  <2> QED
    BY <2>1
<1>3. CASE wadPc = "down" /\ ~ LoadWhole
  <2>1. wadPc' = "down"
    BY <1>3, Zenon
       DEF Sound, GoDown, CreateDirectory, CreateFile, CreateNothing, NumReaches, OffReaches,
           DescriptorReaches, CallReturn, WriteToNothing, RefuseWrite, WriteToFile, vars
  <2> QED
    BY <2>1
<1> QED
  BY <1>1, <1>2, <1>3

-----------------------------------------------------------------------------
(* What handlers answer                                                    *)

\* The node of a path that is found, and what is shown there.
LEMMA FoundEntry ==
  ASSUME IsTree(tree), NEW path \in Paths, IsSplit(path), FindNode(path) # 0
  PROVE  /\ FindNode(path) \in DOMAIN tree /\ tree[FindNode(path)] \in Nodes
         /\ path \in DOMAIN Shown(disk, tree)
         /\ Shown(disk, tree)[path] = EntryIn(disk, tree[FindNode(path)])
<1>1. path \in Seq(Names) /\ Cleaned(path) = path
  BY PathsAreNamed, SplitPath
<1>2. path \in Leading(tree) /\ FindNode(path) = NodeAt(tree, path)
  BY <1>1 DEF Leading, FindNode
<1> QED
  BY <1>2, LeadsToNode DEF Shown

\* What libfuse finds after mkdir or mknod is there.
LEMMA MadeShown ==
  ASSUME IsTree(tree), NEW path \in Paths, IsSplit(path), Getattr(path) # "nothing"
  PROVE  Shows(Shown(disk, tree), path, FsEntry(Getattr(path) = "directory", <<>>))
<1> DEFINE n == FindNode(path)
           f == Shown(disk, tree)
<1>1. n # 0 /\ (Getattr(path) = "directory" <=> tree[n].isDir)
  BY DEF Getattr, IsDirectory, IsContent
<1>2. path \in DOMAIN f /\ f[path] = EntryIn(disk, tree[n]) /\ tree[n] \in Nodes
  BY <1>1, FoundEntry
<1> HIDE DEF n, f
<1>3. tree[n].isDir \in BOOLEAN
  BY <1>2 DEF Nodes
<1>4. f[path].isDir = tree[n].isDir
  BY <1>2 DEF EntryIn
<1> DEFINE isDir == Getattr(path) = "directory"
<1>5. f[path].isDir = isDir
  <2>1. isDir \in BOOLEAN
    OBVIOUS
  <2> QED
    BY <1>1, <1>3, <1>4, <2>1
<1> HIDE DEF isDir
<1>6. FsEntry(isDir, <<>>).isDir = isDir /\ FsEntry(isDir, <<>>).bytes = <<>>
  BY DEF FsEntry
<1>7. Shows(f, path, FsEntry(isDir, <<>>))
  BY <1>2, <1>5, <1>6 DEF Shows
<1> QED
  BY <1>7 DEF f, isDir

\* What wad_read returns of a whole file is what is there.
LEMMA ReadShown ==
  ASSUME IsTree(tree), NEW path \in Paths, IsSplit(path), Getattr(path) = "file"
  PROVE  Shows(Shown(disk, tree), path, FsEntry(FALSE, Read(path)))
<1> DEFINE n == FindNode(path)
           f == Shown(disk, tree)
<1>1. n # 0 /\ ~ tree[n].isDir
  BY DEF Getattr, IsDirectory, IsContent
<1>2. path \in DOMAIN f /\ f[path] = EntryIn(disk, tree[n]) /\ tree[n] \in Nodes
  BY <1>1, FoundEntry
<1>3. tree[n].length \in Nat /\ tree[n].isDir = FALSE
  BY <1>1, <1>2 DEF Nodes
<1>4. Read(path) = Contents(tree[n], tree[n].length, 0)
  <2>1. GetSize(path) = tree[n].length
    BY <1>1 DEF GetSize
  <2>2. GetSize(path) # -1
    BY <1>3, <2>1
  <2> QED
    BY <2>1, <2>2 DEF Read, ReadAnswer, GetContents
<1>5. Read(path) = Entry(tree[n]).bytes
  BY <1>4 DEF Entry
<1>6. Entry(tree[n]) = f[path] /\ f[path].isDir = FALSE
  BY <1>2, <1>3, EntryShown DEF Entry
<1> HIDE DEF n, f
<1>7. FsEntry(FALSE, Read(path)).isDir = FALSE /\ FsEntry(FALSE, Read(path)).bytes = Read(path)
  BY DEF FsEntry
<1>8. Shows(f, path, FsEntry(FALSE, Read(path)))
  BY <1>2, <1>5, <1>6, <1>7 DEF Shows
<1> QED
  BY <1>8 DEF f

\* What write(2) counted of a buffer written from the start of a file is there,
\* as soon as it is counted.
LEMMA WroteShown ==
  ASSUME LumpsInv, UpInv, NEW path \in Paths, IsSplit(path), NEW T, NEW buffer \in Seq(T),
         buffer \in Buffers, 0 \in WriteOffsets, WriteToFile(path, buffer, 0), wadPc' # "idle"
  PROVE  /\ off' - off \in Nat \ {0}
         /\ Shows(Shown(disk', tree'), path, FsEntry(FALSE, SubSeq(buffer, 1, off' - off)))
<1> DEFINE n == FindNode(path)
           more == tree'
<1>1. n \in DOMAIN tree
  BY WrittenAt
<1>2. PICK count \in Nat : Extends(n, count, buffer, off + 0)
  BY WrittenAt, Zenon
<1>3. /\ wadPc = "idle" /\ tree[n].isDir = FALSE /\ tree[n].length = 0
      /\ disk' = [disk EXCEPT !.cells = WrittenCells(count, buffer, off + 0)]
      /\ more = ExtendedTree(n, off, count) /\ off' = off + count
      /\ count = 0 => wadPc' = "idle"
  BY <1>2, Zenon DEF Extends
<1>4. off \in Nat /\ IsTree(tree) /\ tree \in Seq(Nodes) /\ Len(tree) > 0
  BY <1>3 DEF UpInv, IsTree, LumpsInv, MemoryInv
<1>5. off' - off = count /\ count # 0 /\ off + 0 = off
  BY <1>3, <1>4
<1>6. TreeExtended(more, n, off, count)
  BY <1>1, <1>3, <1>4, ExtendedNode, Zenon
<1> HIDE DEF more
<1>7. /\ more \in Seq(Nodes) /\ Len(more) = Len(tree)
      /\ more[n].offset = off /\ more[n].length = count
      /\ \A k \in DOMAIN tree : /\ more[k].name = tree[k].name /\ more[k].isDir = tree[k].isDir
                                /\ more[k].parent = tree[k].parent
  BY <1>6, Zenon DEF TreeExtended
<1>8. SameNodes(tree, more)
  BY <1>4, <1>7 DEF SameNodes, Grown
<1>9. path \in Leading(tree) /\ n = NodeAt(tree, path)
  <2>1. path \in Seq(Names) /\ Cleaned(path) = path
    BY PathsAreNamed, SplitPath
  <2>2. n # 0
    BY <1>1, <1>4
  <2> QED
    BY <2>1, <2>2 DEF Leading, FindNode
<1>10. path \in Leading(more) /\ NodeAt(more, path) = n
  BY <1>8, <1>9, SameLeading
<1> DEFINE f == Shown(disk', more)
           bytes == BytesIn(disk', off, count)
           cells == WrittenCells(count, buffer, off)
           part == SubSeq(buffer, 1, count)
<1>11. path \in DOMAIN f /\ f[path] = EntryIn(disk', more[n])
  BY <1>10 DEF Shown
<1>12. f[path].isDir = FALSE /\ f[path].bytes = bytes
  <2> HIDE DEF f, n
  <2> QED
    BY <1>1, <1>3, <1>7, <1>11 DEF EntryIn
<1>13. disk'.cells = cells
  <2>1. disk' = Disk(disk.num, disk.off, cells)
    BY <1>3, <1>5, DiskIsDisk, DiskReplaced
  <2> HIDE DEF cells
  <2> QED
    BY <2>1 DEF Disk
<1>14. ASSUME NEW k \in 1 .. count
       PROVE  ByteIn(disk', off + k - 1) = buffer[k]
  <2> DEFINE c == off + k - 1
  <2>1. c \in off .. off + count - 1 /\ c - off + 1 = k
    BY <1>4, <1>5
  <2> HIDE DEF c
  <2>2. c \in DOMAIN cells /\ cells[c] = Byte(buffer[k])
    BY <2>1 DEF WrittenCells
  <2>3. "byte" \in DOMAIN Byte(buffer[k]) /\ Byte(buffer[k]).byte = buffer[k]
    BY DEF Byte
  <2> HIDE DEF cells
  <2> QED
    BY <1>13, <2>2, <2>3 DEF ByteIn, c
<1>15. part = [k \in 1 .. count |-> buffer[k]]
  OBVIOUS
<1>16. bytes = [k \in 1 .. count |-> buffer[k]]
  BY <1>5, <1>14 DEF BytesIn
<1> HIDE DEF f, bytes, part
<1>17. FsEntry(FALSE, part).isDir = FALSE /\ FsEntry(FALSE, part).bytes = part
  BY DEF FsEntry
<1>18. Shows(f, path, FsEntry(FALSE, part))
  BY <1>11, <1>12, <1>15, <1>16, <1>17 DEF Shows
<1> QED
  BY <1>5, <1>18 DEF f, part, more

-----------------------------------------------------------------------------
(* What a step tells                                                       *)

\* What the handlers answer last is shown.
AnswersShown(f, u) ==
    /\ Made(u) => Shows(f, call[u].path, FsEntry(Getattr(call[u].path) = "directory", <<>>))
    /\ ReadFile(u) => Shows(f, call[u].path, FsEntry(FALSE, Read(call[u].path)))
    /\ ChunkWritten(u) =>
          Shows(f, call[u].path, Answer(call[u], call[u].done + call[u].count))

\* What a call tells when it returns.
LEMMA CallTells ==
  ASSUME Asked, NEW u \in Users, Proceed(u), NEW f, ToldIn(f, promised, call), AnswersShown(f, u)
  PROVE  \A p \in DOMAIN promised' : Shows(f, p, promised'[p])
<1>1. ASSUME NEW entry, Succeed(u, entry), Shows(f, call[u].path, entry)
      PROVE  \A p \in DOMAIN promised' : Shows(f, p, promised'[p])
  <2> DEFINE path == call[u].path
  <2>1. promised' = [p \in DOMAIN promised \union {path} |->
                        IF p = path THEN entry ELSE promised[p]]
    BY <1>1 DEF Succeed
  <2>2. Shows(f, path, entry)
    BY <1>1
  <2> HIDE DEF path
  <2> QED
    BY <2>1, <2>2 DEF ToldIn
<1>2. CASE UNCHANGED promised
  BY <1>2 DEF ToldIn
<1>3. CASE NoParent(u) \/ NameTaken(u) \/ OpenFails(u) \/ MadeNothing(u)
  BY <1>2, <1>3 DEF NoParent, NameTaken, OpenFails, MadeNothing, Fail
<1>4. CASE LockParent(u) \/ NameFree(u) \/ Mkdir(u) \/ Mknod(u) \/ LockFile(u)
  BY <1>2, <1>4 DEF LockParent, NameFree, Mkdir, Mknod, LockFile, Stage
<1>5. CASE SendChunk(u) \/ ChunkRefused(u) \/ ChunkWritten(u)
  BY <1>2, <1>5 DEF SendChunk, ChunkRefused, ChunkWritten, ChunkAnswered
<1>6. CASE Made(u)
  BY <1>1, <1>6 DEF AnswersShown, Made
<1>7. CASE ReadFile(u)
  BY <1>1, <1>7 DEF AnswersShown, ReadFile
<1>8. CASE WriteReturns(u)
  <2>1. IsAsked(call[u]) /\ call[u].op = "write"
    BY <1>8, InCall DEF WriteReturns, At
  <2>2. CASE call[u].done = 0
    BY <1>2, <1>8, <2>2 DEF WriteReturns, Fail
  <2>3. CASE call[u].done # 0
    <3>1. Succeed(u, Answer(call[u], call[u].done))
      BY <1>8, <2>3 DEF WriteReturns, Answer
    <3>2. call[u].done > 0
      BY <2>1, <2>3 DEF IsAsked
    <3>3. Shows(f, call[u].path, Answer(call[u], call[u].done))
      BY <2>1, <3>2 DEF ToldIn
    <3> QED
      BY <1>1, <3>1, <3>3
  <2> QED
    BY <2>2, <2>3
<1> QED
  BY <1>3, <1>4, <1>5, <1>6, <1>7, <1>8 DEF Proceed

\* What a running write will tell: as much as before, or what a chunk was
\* answered.
LEMMA WriteTells ==
  ASSUME CallsWellFormed, Asked, NEW u \in Users, Proceed(u), NEW f, ToldIn(f, promised, call),
         AnswersShown(f, u), NEW v \in Users, call'[v].op = "write", call'[v].done > 0
  PROVE  Shows(f, call'[v].path, Answer(call'[v], call'[v].done))
<1> DEFINE c == call[v]
           d == call'[v]
<1>1. CASE d = c
  BY <1>1 DEF ToldIn
<1>2. CASE v # u
  BY <1>1, <1>2, ProceedIs DEF OthersSame
<1>3. ASSUME SameCall(c, d), d.done = c.done
      PROVE  Shows(f, d.path, Answer(d, d.done))
  BY <1>3 DEF ToldIn, SameCall, Answer
<1>4. CASE v = u
  <2>1. d # NoCall
    BY DEF NoCall
  <2>2. CASE SameCall(c, d) /\ d.done = c.done
    BY <1>3, <2>2
  <2>3. ASSUME SendChunk(u) \/ ChunkRefused(u), BytesAnswered(c, d, 0)
        PROVE  SameCall(c, d) /\ d.done = c.done
    <3>1. IsAsked(call[u])
      BY <2>3, InCall DEF SendChunk, ChunkRefused
    <3>2. c.done \in Nat
      BY <1>4, <3>1 DEF IsAsked
    <3> QED
      BY <2>3, <3>2 DEF BytesAnswered
  <2>4. CASE ChunkWritten(u) /\ BytesAnswered(c, d, c.count)
    <3>1. SameCall(c, d) /\ d.done = c.done + c.count
      BY <2>4 DEF BytesAnswered
    <3>2. Shows(f, c.path, Answer(c, c.done + c.count))
      BY <1>4, <2>4 DEF AnswersShown
    <3> QED
      BY <3>1, <3>2 DEF SameCall, Answer
  <2>5. /\ \A stage : StageMoved(c, d, stage) => SameCall(c, d) /\ d.done = c.done
        /\ BytesTaken(c, d, off' - off) => SameCall(c, d) /\ d.done = c.done
    BY DEF StageMoved, BytesTaken
  <2> HIDE DEF c, d
  <2> QED
    BY <1>4, <2>1, <2>2, <2>3, <2>4, <2>5, ProceedIs DEF c, d
<1> QED
  BY <1>2, <1>4

\* A step of the daemon, or of its users.
LEMMA StepTells ==
  ASSUME CallsWellFormed, Asked, [SoundFs]_fsVars, NEW f, ToldIn(f, promised, call),
         \A u \in Users : AnswersShown(f, u)
  PROVE  ToldIn(f, promised', call')
<1>1. CASE SoundMount \/ SoundLibrary \/ UNCHANGED fsVars
  BY <1>1 DEF SoundMount, SoundLibrary, fsVars
<1>2. CASE Unmount
  BY <1>2 DEF Unmount, ToldIn, NoCall
<1>3. ASSUME NEW u \in Users, Proceed(u) PROVE ToldIn(f, promised', call')
  BY <1>3, CallTells, WriteTells DEF ToldIn
<1>4. ASSUME NEW u \in Users, NEW c \in Calls, Begin(u, c) PROVE ToldIn(f, promised', call')
  <2> DEFINE begun == [op |-> c.op, path |-> c.path, data |-> c.data,
                       stage |-> "waiting", done |-> 0, count |-> 0]
  <2>1. call' = [call EXCEPT ![u] = begun] /\ begun.done = 0 /\ promised' = promised
    BY <1>4 DEF Begin
  <2> HIDE DEF begun
  <2>2. call'[u].done = 0 /\ OthersSame(u)
    BY <2>1, OneReplaced
  <2> QED
    BY <2>1, <2>2 DEF ToldIn, OthersSame
<1> QED
  BY <1>1, <1>2, <1>3, <1>4 DEF SoundFs

-----------------------------------------------------------------------------
(* What users were told stays true                                         *)

\* The tree and a file that is whole show what users were told, and what the
\* running writes will tell them; the first chunk of a write shows while the
\* library still writes its list.
TreeTold == wadPc # "down" => ToldIn(Shown(disk, tree), promised, call)
FileTold == IsWhole(disk) => ToldIn(Shown(disk, Loaded(disk)), promised, call)
ChunksShown ==
    \A u \in Users : call[u].op = "write" /\ call[u].stage = "served" =>
       /\ call[u].done = 0
       /\ Shows(Shown(disk, tree), call[u].path, Answer(call[u], call[u].count))

PromisesInv == AliveInv /\ UpInv /\ PlaceInv /\ TreeTold /\ FileTold /\ ChunksShown

\* The steps that tell something new, which leave the library alone.
Tells(u) == Made(u) \/ ReadFile(u) \/ ChunkWritten(u)

LEMMA TellsAtRest ==
  ASSUME NEW u \in Users, Tells(u)
  PROVE  wadPc = "idle" /\ UNCHANGED vars
BY DEF Tells, Made, ReadFile, ChunkWritten, Free

\* The path of a call is one that the library may be asked for.
LEMMA CallPath ==
  ASSUME CallsServed, PathsSplit, NEW c, IsAsked(c)
  PROVE  c.path \in Paths /\ IsSplit(c.path)
<1>1. c.path \in Paths
  BY ChunkServed
<1> QED
  BY <1>1 DEF IsAsked, PathsSplit

\* What the handlers answer is in the tree.
LEMMA AnswersTrue ==
  ASSUME CallsServed, PathsSplit, PromisesInv, NEW u \in Users
  PROVE  AnswersShown(Shown(disk, tree), u)
<1>1. Asked /\ (wadPc = "idle" => IsTree(tree)) /\ ChunksShown
  BY DEF PromisesInv, AliveInv, ClientInv, UpInv
<1>2. ASSUME Made(u)
      PROVE  Shows(Shown(disk, tree), call[u].path,
                   FsEntry(Getattr(call[u].path) = "directory", <<>>))
  <2>1. IsAsked(call[u]) /\ wadPc = "idle" /\ Getattr(call[u].path) # "nothing"
    BY <1>1, <1>2, InCall DEF Made, Creations
  <2> QED
    BY <1>1, <2>1, CallPath, MadeShown
<1>3. ASSUME ReadFile(u)
      PROVE  Shows(Shown(disk, tree), call[u].path, FsEntry(FALSE, Read(call[u].path)))
  <2>1. IsAsked(call[u]) /\ wadPc = "idle" /\ Getattr(call[u].path) = "file"
    BY <1>1, <1>3, InCall DEF ReadFile, Free
  <2> QED
    BY <1>1, <2>1, CallPath, ReadShown
<1>4. ASSUME ChunkWritten(u)
      PROVE  Shows(Shown(disk, tree), call[u].path,
                   Answer(call[u], call[u].done + call[u].count))
  <2>1. IsAsked(call[u]) /\ call[u].op = "write" /\ call[u].stage = "served"
    BY <1>1, <1>4, InCall DEF ChunkWritten, At
  <2>2. /\ call[u].done = 0
        /\ Shows(Shown(disk, tree), call[u].path, Answer(call[u], call[u].count))
    BY <1>1, <2>1 DEF ChunksShown
  <2>3. call[u].done + call[u].count = call[u].count
    BY <2>1, <2>2 DEF IsAsked
  <2> QED
    BY <2>2, <2>3
<1> QED
  BY <1>2, <1>3, <1>4 DEF AnswersShown

\* Tree and file keep what users were told, whatever the step.
LEMMA NextTold ==
  ASSUME CallsServed, PathsSplit, PromisesInv, [SoundFs]_fsVars
  PROVE  TreeTold' /\ FileTold'
<1>1. /\ CallsWellFormed /\ Asked /\ ShapeInv /\ LumpsInv /\ ReloadInv /\ UpInv /\ PlaceInv
      /\ TreeTold /\ FileTold /\ [Sound]_vars
  BY SoundSteps DEF PromisesInv, AliveInv, ClientInv
<1>2. ASSUME NEW u \in Users, Tells(u) PROVE TreeTold' /\ FileTold'
  <2> DEFINE f == Shown(disk, tree)
  <2>1. wadPc = "idle" /\ tree' = tree /\ disk' = disk
    BY <1>2, TellsAtRest DEF vars, memory
  <2>2. ToldIn(f, promised, call)
    BY <1>1, <2>1 DEF TreeTold
  <2>3. \A v \in Users : AnswersShown(f, v)
    BY AnswersTrue
  <2> HIDE DEF f
  <2>4. ToldIn(f, promised', call')
    BY <1>1, <2>2, <2>3, StepTells
  <2>5. Shown(disk', tree') = f /\ Shown(disk', Loaded(disk')) = f
    BY <1>1, <2>1, IdleShown DEF f
  <2> QED
    BY <2>4, <2>5 DEF TreeTold, FileTold
<1>3. ASSUME \A u \in Users : ~ Tells(u) PROVE TreeTold' /\ FileTold'
  <2>1. \A f : \A u \in Users : AnswersShown(f, u)
    BY <1>3 DEF AnswersShown, Tells
  <2>2. ASSUME wadPc' # "down" PROVE ToldIn(Shown(disk', tree'), promised', call')
    <3> DEFINE f == Shown(disk', tree')
    <3>1. ToldIn(f, promised, call)
      BY <1>1, <2>2, TreeTells DEF TreeTold, FileTold
    <3> HIDE DEF f
    <3>2. ToldIn(f, promised', call')
      BY <1>1, <2>1, <3>1, StepTells
    <3> QED
      BY <3>2 DEF f
  <2>3. ASSUME IsWhole(disk') PROVE ToldIn(Shown(disk', Loaded(disk')), promised', call')
    <3> DEFINE f == Shown(disk', Loaded(disk'))
    <3>1. ToldIn(f, promised, call)
      BY <1>1, <2>3, FileTells DEF TreeTold, FileTold
    <3> HIDE DEF f
    <3>2. ToldIn(f, promised', call')
      BY <1>1, <2>1, <3>1, StepTells
    <3> QED
      BY <3>2 DEF f
  <2> QED
    BY <2>2, <2>3 DEF TreeTold, FileTold
<1> QED
  BY <1>2, <1>3

\* A chunk reaches the disk only at the start of its file: a write that has
\* told of bytes has given the file content, and libWad writes a file once.
LEMMA SentFromStart ==
  ASSUME CallsServed, PathsSplit, PromisesInv, NEW u \in Users, SendChunk(u)
  PROVE  call[u].done = 0
<1> DEFINE c == call[u]
           n == FindNode(c.path)
           f == Shown(disk, tree)
<1>1. /\ IsAsked(c) /\ c.op = "write" /\ wadPc = "idle"
      /\ WriteToFile(c.path, Chunk(c), c.done)
  BY InCall DEF SendChunk, At, Free, PromisesInv, AliveInv, ClientInv
<1>2. c.path \in Paths /\ IsSplit(c.path)
  BY <1>1, CallPath
<1>3. n # 0 /\ ~ WriteRefused(n)
  BY <1>1, Zenon DEF WriteToFile
<1>4. IsTree(tree) /\ ToldIn(f, promised, call)
  BY <1>1 DEF PromisesInv, UpInv, TreeTold
<1>5. tree[n] \in Nodes /\ f[c.path] = EntryIn(disk, tree[n])
  BY <1>2, <1>3, <1>4, FoundEntry
<1>6. f[c.path].bytes = <<>>
  <2>1. tree[n].length \in Nat
    BY <1>5 DEF Nodes
  <2>2. tree[n].length = 0
    BY <1>3, <2>1 DEF WriteRefused
  <2> HIDE DEF f, n, c
  <2> QED
    BY <1>5, <2>2 DEF EntryIn, BytesIn
<1>7. ASSUME c.done > 0 PROVE FALSE
  <2>1. Shows(f, c.path, Answer(c, c.done))
    BY <1>1, <1>4, <1>7 DEF ToldIn
  <2> DEFINE part == SubSeq(c.data, 1, c.done)
  <2>2. Answer(c, c.done).bytes = part
    BY DEF Answer, FsEntry
  <2> HIDE DEF part, f
  <2>3. part = <<>>
    BY <1>6, <2>1, <2>2 DEF Shows
  <2>4. c.done \in Nat /\ c.data \in Seq({c.data[i] : i \in DOMAIN c.data})
    BY <1>1 DEF IsAsked, CallsServed
  <2>5. 1 \in DOMAIN part
    <3> DEFINE S == {c.data[i] : i \in DOMAIN c.data}
    <3> HIDE DEF S
    <3>1. part = [k \in 1 .. c.done |-> c.data[k]]
      BY <2>4 DEF part, S
    <3> QED
      BY <1>7, <2>4, <3>1
  <2> QED
    BY <2>3, <2>5
<1> QED
  BY <1>1, <1>7 DEF IsAsked

\* What the library has taken of a chunk is in its tree at once.
LEMMA ChunkShown ==
  ASSUME CallsServed, PathsSplit, PromisesInv, NEW u \in Users, SendChunk(u),
         call'[u].stage = "served"
  PROVE  /\ call'[u].done = 0
         /\ Shows(Shown(disk', tree'), call'[u].path, Answer(call'[u], call'[u].count))
<1> DEFINE c == call[u]
           d == call'[u]
           count == off' - off
<1>1. CallsWellFormed /\ Asked /\ ShapeInv /\ LumpsInv /\ UpInv
  BY DEF PromisesInv, AliveInv, ClientInv
<1>2. c.done = 0
  BY SentFromStart
<1>3. BytesTaken(c, d, count)
  BY <1>1, SendIs DEF BytesAnswered
<1>4. wadPc' # "idle"
  <2>1. ASSUME wadPc' = "idle" PROVE FALSE
    <3>1. ChunkAnswered(u, 0)
      BY <2>1 DEF SendChunk
    <3> QED
      BY <1>1, <3>1, AnswerIs DEF BytesAnswered
  <2> QED
    BY <2>1
<1>5. IsAsked(c) /\ WriteToFile(c.path, Chunk(c), 0)
  BY <1>1, <1>2, InCall DEF SendChunk
<1>6. /\ c.path \in Paths /\ IsSplit(c.path) /\ Chunk(c) \in Buffers /\ 0 \in WriteOffsets
      /\ Len(Chunk(c)) \in Nat
  BY <1>2, <1>5, ChunkServed, CallPath
<1> DEFINE S == {c.data[i] : i \in DOMAIN c.data}
           last == IF ChunkSize < Len(c.data) THEN ChunkSize ELSE Len(c.data)
<1>7. c.data \in Seq(S)
  BY <1>5 DEF IsAsked, CallsServed
<1>8. Chunk(c) = SubSeq(c.data, 1, last) /\ last \in 0 .. Len(c.data)
  <2> HIDE DEF S
  <2>1. Len(c.data) \in Nat
    BY <1>7
  <2> QED
    BY <1>2, <2>1, ChunkAssumption DEF Chunk
<1> HIDE DEF S, last
<1>9. Chunk(c) \in Seq(S) /\ Chunk(c) = [k \in 1 .. last |-> c.data[k]] /\ Len(Chunk(c)) = last
  BY <1>7, <1>8
<1>10. /\ count \in Nat \ {0}
       /\ Shows(Shown(disk', tree'), c.path, FsEntry(FALSE, SubSeq(Chunk(c), 1, count)))
  BY <1>1, <1>4, <1>5, <1>6, <1>9, WroteShown
<1>11. count \in 0 .. last
  BY <1>1, <1>5, <1>6, <1>9, BytesCounted
<1> HIDE DEF count
<1>12. SubSeq(Chunk(c), 1, count) = SubSeq(c.data, 1, count)
  <2>1. SubSeq(Chunk(c), 1, count) = [k \in 1 .. count |-> Chunk(c)[k]]
    BY <1>9, <1>10
  <2>2. SubSeq(c.data, 1, count) = [k \in 1 .. count |-> c.data[k]]
    BY <1>7, <1>10
  <2>3. \A k \in 1 .. count : Chunk(c)[k] = c.data[k]
    BY <1>8, <1>9, <1>11
  <2> QED
    BY <2>1, <2>2, <2>3
<1>13. d.done = 0 /\ d.count = count /\ d.path = c.path /\ d.data = c.data
  BY <1>2, <1>3 DEF BytesTaken, SameCall
<1> QED
  BY <1>10, <1>12, <1>13 DEF Answer

\* The library is at work for a write as before, or has just taken its chunk.
LEMMA AtWork ==
  ASSUME CallsWellFormed, [SoundFs]_fsVars, NEW v \in Users,
         call'[v].op = "write", call'[v].stage = "served"
  PROVE  call'[v] = call[v] \/ SendChunk(v)
<1>1. CASE SoundMount \/ SoundLibrary \/ UNCHANGED fsVars
  BY <1>1 DEF SoundMount, SoundLibrary, fsVars
<1>2. ~ Unmount
  BY DEF Unmount, NoCall
<1>3. ASSUME NEW u \in Users, NEW c \in Calls, Begin(u, c) PROVE call'[v] = call[v]
  BY <1>3, BeginIs DEF OthersSame
<1>4. ASSUME NEW u \in Users, Proceed(u) PROVE call'[v] = call[v] \/ SendChunk(v)
  <2>1. CASE v # u
    BY <1>4, <2>1, ProceedIs DEF OthersSame
  <2>2. CASE v = u
    <3> DEFINE c == call[v]
               d == call'[v]
    <3>1. d # NoCall
      BY DEF NoCall
    <3>2. d.stage # "locked" /\ \A count : ~ BytesAnswered(c, d, count)
      BY DEF BytesAnswered
    <3>3. ~ (c.op \in Creations /\ SameCall(c, d))
      BY DEF Creations, SameCall
    <3> HIDE DEF c, d
    <3> QED
      BY <1>4, <2>2, <3>1, <3>2, <3>3, ProceedIs DEF StageMoved, c, d
  <2> QED
    BY <2>1, <2>2
<1> QED
  BY <1>1, <1>2, <1>3, <1>4 DEF SoundFs

LEMMA NextChunks ==
  ASSUME CallsServed, PathsSplit, DirectoriesNamed, PromisesInv, [SoundFs]_fsVars
  PROVE  ChunksShown'
<1>1. /\ CallsWellFormed /\ ShapeInv /\ LumpsInv /\ ReloadInv /\ UpInv /\ PlaceInv
      /\ ChunksShown
      /\ NoneWhileDown /\ AliveInv
  BY DEF PromisesInv, AliveInv, ClientInv
<1>2. [Sound]_vars /\ NoneWhileDown'
  BY <1>1, SoundSteps, NextAlive DEF AliveInv, ClientInv
<1>3. ASSUME NEW v \in Users, call'[v].op = "write", call'[v].stage = "served"
      PROVE  /\ call'[v].done = 0
             /\ Shows(Shown(disk', tree'), call'[v].path, Answer(call'[v], call'[v].count))
  <2>1. CASE call'[v] = call[v]
    <3>1. call[v] # NoCall
      BY <1>3, <2>1 DEF NoCall
    <3>2. wadPc # "down" /\ wadPc' # "down"
      BY <1>1, <1>2, <2>1, <3>1 DEF NoneWhileDown
    <3>3. StepShown(Shown(disk, tree), Shown(disk', tree'))
      BY <1>1, <1>2, <3>2, UpShown
    <3>4. /\ call[v].done = 0
          /\ Shows(Shown(disk, tree), call[v].path, Answer(call[v], call[v].count))
      BY <1>1, <1>3, <2>1 DEF ChunksShown
    <3> QED
      BY <2>1, <3>3, <3>4, ShowsStay
  <2>2. CASE SendChunk(v)
    BY <1>3, <2>2, ChunkShown
  <2> QED
    BY <1>1, <1>3, <2>1, <2>2, AtWork
<1>4. \A u \in Users : Answer(call[u], call[u].count)' = Answer(call'[u], call'[u].count)
  BY DEF Answer
<1> QED
  BY <1>3, <1>4 DEF ChunksShown

LEMMA NextPromises ==
  ASSUME CallsServed, PathsSplit, DirectoriesNamed, PromisesInv, [SoundFs]_fsVars
  PROVE  PromisesInv'
<1>1. AliveInv /\ LumpsInv /\ ReloadInv /\ Asked /\ UpInv /\ PlaceInv
  BY DEF PromisesInv, AliveInv, ClientInv
<1>2. AliveInv' /\ [Sound]_vars
  BY <1>1, NextAlive, SoundSteps
<1>3. UpInv' /\ PlaceInv'
  BY <1>1, <1>2, NextUp DEF AliveInv
<1> QED
  BY <1>2, <1>3, NextTold, NextChunks DEF PromisesInv

LEMMA InitPromises ==
  ASSUME BalancedDisks, DirectoriesNamed, FsInit
  PROVE  PromisesInv
<1>1. /\ Init /\ wadPc = "down" /\ creation = NoCreation
      /\ \A u \in Users : call[u] = NoCall
      /\ DOMAIN promised = {}
  BY DEF FsInit, Init, NothingPromised
<1>2. ClientInv /\ LumpsInv /\ ReloadInv
  BY <1>1, InitClient, InitInv, InitReload
<1>3. AliveInv
  BY <1>1, <1>2 DEF AliveInv, WritersFound, NoneWhileDown, NoCall
<1>4. \A f : ToldIn(f, promised, call)
  BY <1>1 DEF ToldIn, NoCall
<1>5. UpInv /\ PlaceInv /\ TreeTold /\ FileTold /\ ChunksShown
  BY <1>1, <1>4 DEF UpInv, PlaceInv, TreeTold, FileTold, ChunksShown, NoCall
<1> QED
  BY <1>3, <1>5 DEF PromisesInv

LEMMA InvPromises == ASSUME PromisesInv PROVE PromisesKept
<1>1. LumpsInv /\ ReloadInv /\ UpInv /\ TreeTold /\ FileTold
  BY DEF PromisesInv, AliveInv, ClientInv
<1>2. ASSUME wadPc # "down" \/ ListIsWhole
      PROVE  IsTree(Served) /\ ToldIn(Shown(disk, Served), promised, call)
  <2>1. CASE wadPc # "down"
    BY <1>1, <2>1 DEF Served, UpInv, TreeTold
  <2>2. CASE wadPc = "down"
    <3>1. IsWhole(disk) /\ Served = Loaded(disk)
      BY <1>2, <2>2 DEF ListIsWhole, Served, ListOnDisk, Loaded
    <3> QED
      BY <1>1, <3>1, WholeTree DEF FileTold, Loaded
  <2> QED
    BY <2>1, <2>2
<1>3. ASSUME wadPc # "down" \/ ListIsWhole, NEW p \in DOMAIN promised
      PROVE  Shows(Reachable(Served), p, promised[p])
  BY <1>2, <1>3, ReachShown DEF ToldIn
<1> DEFINE Kept(f) == \A p \in DOMAIN promised : Shows(f, p, promised[p])
<1>4. (wadPc # "down" \/ ListIsWhole) => \A f \in {Reachable(nodes) : nodes \in {Served}} : Kept(f)
  BY <1>3
<1> QED
  BY <1>4 DEF PromisesKept, Shows

\* Whoever has called since, and whenever a daemon has died: every entry a
\* successful call told its user of is in the daemon's tree, and in every file
\* left whole, of the kind and with the bytes that were told, as long as header
\* and list have been written and read whole.  (A daemon that loads a torn list,
\* or writes to a disk that does not take its list, may have lost entries.)
THEOREM PromisesKeptAlways ==
  ASSUME BalancedDisks, DirectoriesNamed, CallsServed, PathsSplit
  PROVE  FsSpec => []PromisesKept
<1> DEFINE Inv == ClientInv /\ (astray = 0 => PromisesInv)
<1>1. FsInit => Inv
  BY InitPromises, InitClient
<1>2. Inv /\ [FsNext]_fsVars => Inv'
  <2> SUFFICES ASSUME Inv, [FsNext]_fsVars PROVE Inv'
    OBVIOUS
  <2>1. ClientInv'
    BY NextClient
  <2>2. ASSUME astray' = 0 PROVE PromisesInv'
    BY <2>2, FsStepIsSound, NextPromises
  <2> QED
    BY <2>1, <2>2
<1>3. Inv => PromisesKept
  BY InvPromises DEF PromisesKept
<1> QED
  BY <1>1, <1>2, <1>3, PTL DEF FsSpec

-----------------------------------------------------------------------------
(* A daemon that dies leaves all of a call or nothing                      *)

\* wadfs writes into a file only from its start: the library answers 0 for
\* every other chunk.
LEMMA DaemonWrites ==
  ASSUME CallsServed, PathsSplit, PromisesInv, [SoundFs]_fsVars
  PROVE  Quiet \/ FromStart
<1>1. CASE SoundMount \/ Unmount \/ SoundLibrary
  BY <1>1 DEF SoundMount, Unmount, SoundLibrary, Quiet
<1>2. ASSUME NEW u \in Users, Proceed(u) PROVE Quiet \/ FromStart
  <2>1. Asked
    BY DEF PromisesInv, AliveInv, ClientInv
  <2>2. CASE Mkdir(u) \/ Mknod(u)
    <3>1. At(u, {"mkdir", "mknod"}, "absent")
      BY <2>2 DEF Mkdir, Mknod, At
    <3>2. call[u].path \in Paths
      BY <2>1, <3>1, InCall, ChunkServed
    <3>3. CreateDirectory(call[u].path) \/ CreateFile(call[u].path) \/ UNCHANGED vars
      BY <2>2 DEF Mkdir, Mknod
    <3> QED
      BY <3>2, <3>3, Zenon DEF Quiet
  <2>3. CASE SendChunk(u)
    <3>1. IsAsked(call[u])
      BY <2>1, <2>3, InCall DEF SendChunk
    <3>2. call[u].path \in Paths /\ Chunk(call[u]) \in Buffers /\ call[u].done \in WriteOffsets
      BY <3>1, ChunkServed
    <3>3. WriteToFile(call[u].path, Chunk(call[u]), call[u].done)
      BY <2>3 DEF SendChunk
    <3>4. call[u].done = 0
      BY <2>3, SentFromStart
    <3> QED
      BY <3>2, <3>3, <3>4, Zenon DEF FromStart
  <2>4. CASE ChunkRefused(u)
    <3>1. call[u].path \in Paths
      BY <2>1, <2>4, InCall, ChunkServed DEF ChunkRefused
    <3>2. RefuseWrite(call[u].path) \/ WriteToNothing(call[u].path)
      BY <2>4 DEF ChunkRefused
    <3> QED
      BY <3>1, <3>2, Zenon DEF Quiet
  <2>5. CASE UNCHANGED vars
    BY <2>5 DEF Quiet
  <2> QED
    BY <1>2, <2>2, <2>3, <2>4, <2>5
       DEF Proceed, NoParent, LockParent, NameTaken, NameFree, MadeNothing, Made, OpenFails,
           ReadFile, LockFile, ChunkWritten, WriteReturns
<1>3. ASSUME NEW u \in Users, NEW c \in Calls, Begin(u, c) PROVE Quiet
  BY <1>3 DEF Begin, Quiet
<1>4. CASE UNCHANGED fsVars
  BY <1>4 DEF fsVars, Quiet
<1> QED
  BY <1>1, <1>2, <1>3, <1>4 DEF SoundFs

\* A daemon dies at any point of any call, with the calls of several users in
\* progress.  If the list it leaves is whole, and those before it were, the file
\* shows the tree it served before that call, or after it; a death in the middle
\* of the rewriting leaves a torn list, which shows neither, and of which this
\* says nothing.  WritesFromStart is not assumed here: users write from their
\* data's start to its end, and the daemon itself never writes a file from
\* anywhere but its start.
THEOREM CrashServed ==
  ASSUME BalancedDisks, DirectoriesNamed, CallsServed, PathsSplit, "down" \notin CrashPoints
  PROVE  FsSpec => CrashAllOrNothing
<1> DEFINE Sane == PromisesInv /\ CrashInv
           Inv == ClientInv /\ (astray = 0 => Sane)
           Left == GoDown /\ ListIsWhole /\ astray = 0 =>
                      \E nodes \in {tree, Completed} :
                         \A found \in {Parse(ListOnDisk, disk.num).nodes} :
                            Reachable(found) = Reachable(nodes)
<1>1. FsInit => Inv
  BY InitPromises, InitCrash, InitClient DEF FsInit
<1>2. Inv /\ [FsNext]_fsVars => Inv'
  <2> SUFFICES ASSUME Inv, [FsNext]_fsVars PROVE Inv'
    OBVIOUS
  <2>1. ClientInv'
    BY NextClient
  <2>2. ASSUME astray' = 0 PROVE Sane'
    <3>1. Sane /\ [SoundFs]_fsVars /\ [Sound]_vars
      BY <2>2, FsStepIsSound
    <3>2. PromisesInv'
      BY <3>1, NextPromises
    <3>3. LumpsInv /\ ReloadInv /\ ReloadInv'
      BY <3>1, <3>2 DEF PromisesInv, AliveInv
    <3>4. Quiet \/ FromStart
      BY <3>1, DaemonWrites
    <3>5. CrashInv'
      BY <3>1, <3>3, <3>4, NextCrash
    <3> QED
      BY <3>2, <3>5
  <2> HIDE DEF Sane
  <2> QED
    BY <2>1, <2>2
<1>3. Inv /\ [FsNext]_fsVars => [Left]_vars
  <2> SUFFICES ASSUME Inv, GoDown, ListIsWhole, astray = 0
               PROVE  \E nodes \in {tree, Completed} :
                         \A found \in {Parse(ListOnDisk, disk.num).nodes} :
                            Reachable(found) = Reachable(nodes)
    OBVIOUS
  <2>1. LumpsInv /\ ReloadInv /\ CrashInv
    BY DEF PromisesInv, AliveInv
  <2> QED
    BY <2>1, CrashLeaves
<1> QED
  BY <1>1, <1>2, <1>3, PTL DEF FsSpec, CrashAllOrNothing
=============================================================================
