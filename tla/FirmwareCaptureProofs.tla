------------------------ MODULE FirmwareCaptureProofs ------------------------
(***************************************************************************)
(* For every set of transfers, any number of chunks and any failures: a    *)
(* capture that is acknowledged is on disk, and the disk holds whole       *)
(* images only.                                                            *)
(***************************************************************************)
EXTENDS FirmwareCapture, SequenceTheorems, TLAPS

---------------------------------------------------------------------------
(* Frames *)

\* A frame is metadata of a transfer, or a chunk of one; the frame of a chunk
\* names the chunk's transfer.
LEMMA FrameFields ==
    ASSUME NEW f \in Frame
    PROVE  /\ f.transfer \in Transfer
           /\ f.kind = "metadata" => f.mine \in BOOLEAN
           /\ f.kind = "chunk" => f.chunk \in ChunkSet /\ f.transfer = f.chunk.transfer
<1>1. CASE \E t \in Transfer, mine \in BOOLEAN : f = Metadata(t, mine)
      BY <1>1 DEF Metadata
<1>2. CASE \E c \in ChunkSet : f = ChunkFrame(c)
      BY <1>2 DEF ChunkFrame, ChunkSet
<1> QED
    BY <1>1, <1>2 DEF Frame


\* Acknowledgements of frames are well typed.
LEMMA AckTypes ==
    ASSUME NEW f \in Frame
    PROVE  /\ \A k \in 0..Chunks : Asks(f, k) \in Ack
           /\ Final(f) \in Ack
BY ChunksAssumption DEF Asks, Final, Ack

\* Appending and removing frames and acknowledgements.
LEMMA QueueTypes ==
    ASSUME NEW S, NEW q \in Seq(S)
    PROVE  /\ \A x \in S : Append(q, x) \in Seq(S) /\ Len(Append(q, x)) = Len(q) + 1
           /\ q # <<>> => /\ Head(q) \in S /\ Tail(q) \in Seq(S)
                          /\ Len(Tail(q)) = Len(q) - 1
OBVIOUS

---------------------------------------------------------------------------
(* Types *)

LEMMA InitTypeOK == Init => TypeOK
<1> SUFFICES ASSUME Init PROVE TypeOK
    OBVIOUS
<1>1. /\ metadata = NoTransfer /\ manifest = NoTransfer /\ waiting = NoFrame
      /\ done \subseteq Transfer /\ owed \subseteq VariantSet /\ magic = NoTransfer
      BY DEF Init
<1>2. /\ data \in Seq(ChunkSet) /\ file \in Seq(ChunkSet)
      /\ toGateway \in Seq(Frame) /\ toCloud \in Seq(Ack)
      BY DEF Init
<1>3. Len(data) = expected /\ expected \in 0..Chunks /\ progress \in 0..Steps
      BY ChunksAssumption DEF Init
<1>4. repeats \in 0..MaxRepeats /\ failures \in 0..MaxFailures
      BY BoundAssumption DEF Init
<1> QED
    BY <1>1, <1>2, <1>3, <1>4, Zenon DEF TypeOK

\* A chunk is taken only from an open transfer, and adds to its data.
LEMMA TakenChunk ==
    ASSUME TypeOK, NEW d, TakeChunk(d)
    PROVE  LET f == Head(toGateway) IN
           /\ f \in Frame /\ f.kind = "chunk" /\ f.chunk \in ChunkSet
           /\ f.transfer = f.chunk.transfer
           /\ metadata \in Transfer /\ expected < Chunks
           /\ d = Append(data, f.chunk) /\ d \in Seq(ChunkSet) /\ Len(d) = expected + 1
           /\ toGateway' \in Seq(Frame)
<1> DEFINE f == Head(toGateway)
<1>1. f \in Frame /\ f.kind = "chunk" /\ toGateway' \in Seq(Frame)
      BY QueueTypes DEF TypeOK, TakeChunk, Receive
<1>2. f.chunk \in ChunkSet /\ f.transfer = f.chunk.transfer
      BY <1>1, FrameFields
<1>3. metadata \in Transfer
      BY DEF TakeChunk, Foreign, TypeOK
<1>4. f.chunk.index \in 0..Chunks - 1 /\ f.chunk.index = expected
      BY <1>2 DEF TakeChunk, ChunkSet
<1>5. d = Append(data, f.chunk) /\ data \in Seq(ChunkSet) /\ Len(data) = expected
      BY DEF TakeChunk, TypeOK
<1>6. d \in Seq(ChunkSet) /\ Len(d) = expected + 1
      BY <1>2, <1>5, QueueTypes
<1>7. expected < Chunks
      BY <1>4, ChunksAssumption
<1> QED
    BY <1>1, <1>2, <1>3, <1>5, <1>6, <1>7

\* What a failure counts is bounded.
LEMMA FailsTypes ==
    ASSUME failures \in 0..MaxFailures, Fails
    PROVE  failures' \in 0..MaxFailures
BY BoundAssumption DEF Fails

\* Every step of the capture, of its progress task, of the connection and of
\* the cloud keeps the state well typed.
LEMMA StepTypeOK == TypeOK /\ [Next]_vars => TypeOK'
<1> SUFFICES ASSUME TypeOK, [Next]_vars PROVE TypeOK'
    OBVIOUS
<1> USE DEF TypeOK, capture, task, disk, cloud, wire
<1>1. CASE HandleMetadata
  <2> DEFINE f == Head(toGateway)
  <2>1. f \in Frame /\ f.kind = "metadata" /\ toGateway' \in Seq(Frame)
        BY <1>1, QueueTypes DEF HandleMetadata, Receive
  <2>2. f.transfer \in Transfer /\ 0 \in 0..Chunks
        BY <2>1, FrameFields, ChunksAssumption
  <2>3. Append(toCloud, Asks(f, 0)) \in Seq(Ack)
        BY <2>1, <2>2, AckTypes, QueueTypes
  <2>4. CASE f.mine
    <3>1. metadata' \in Transfer /\ toCloud' \in Seq(Ack)
          BY <1>1, <2>2, <2>3, <2>4 DEF HandleMetadata, Answer
    <3>2. data' = <<>> /\ expected' = 0
          BY <1>1, <2>4 DEF HandleMetadata
    <3>3. data' \in Seq(ChunkSet) /\ Len(data') = expected' /\ expected' \in 0..Chunks
          BY <2>2, <3>2
    <3>4. UNCHANGED <<task, disk, cloud, owed, failures>>
          BY <1>1, <2>4 DEF HandleMetadata
    <3> QED
        BY <2>1, <3>1, <3>3, <3>4
  <2>5. CASE ~f.mine
        BY <1>1, <2>1, <2>5 DEF HandleMetadata
  <2> QED
      BY <2>4, <2>5
<1>2. CASE HandleForeignChunk
      BY <1>2, QueueTypes DEF HandleForeignChunk, Receive
<1>3. CASE HandleOtherChunk
  <2> DEFINE f == Head(toGateway)
  <2>1. f \in Frame /\ toGateway' \in Seq(Frame)
        BY <1>3, QueueTypes DEF HandleOtherChunk, Receive
  <2>2. Append(toCloud, Asks(f, expected)) \in Seq(Ack)
        BY <2>1, AckTypes, QueueTypes
  <2> QED
      BY <1>3, <2>1, <2>2 DEF HandleOtherChunk, Answer
<1>4. CASE HandleChunk
  <2> DEFINE f == Head(toGateway)
             d == Append(data, f.chunk)
  <2>1. TakeChunk(d)
        BY <1>4 DEF HandleChunk
  <2>2. /\ f \in Frame /\ toGateway' \in Seq(Frame)
        /\ d \in Seq(ChunkSet) /\ Len(d) = expected + 1 /\ expected + 1 \in 0..Chunks
        BY <2>1, TakenChunk, ChunksAssumption
  <2>3. Append(toCloud, Asks(f, expected + 1)) \in Seq(Ack)
        BY <2>2, AckTypes, QueueTypes
  <2>4. toCloud' \in Seq(Ack)
        BY <1>4, <2>3 DEF HandleChunk, Answer
  <2> QED
      BY <1>4, <2>1, <2>2, <2>4 DEF HandleChunk, TakeChunk
<1>5. CASE HandleBadImage
  <2> DEFINE d == Append(data, Head(toGateway).chunk)
  <2>1. TakeChunk(d)
        BY <1>5 DEF HandleBadImage
  <2>2. /\ toGateway' \in Seq(Frame)
        /\ d \in Seq(ChunkSet) /\ Len(d) = expected + 1 /\ expected + 1 \in 0..Chunks
        BY <2>1, TakenChunk, ChunksAssumption
  <2> QED
      BY <1>5, <2>1, <2>2 DEF HandleBadImage, TakeChunk
<1>6. CASE HandleLastChunk
  <2> DEFINE f == Head(toGateway)
             d == Append(data, f.chunk)
  <2>1. TakeChunk(d)
        BY <1>6 DEF HandleLastChunk
  <2>2. /\ f \in Frame /\ toGateway' \in Seq(Frame) /\ d \in Seq(ChunkSet)
        /\ metadata \in Transfer
        BY <2>1, TakenChunk
  <2>3. toCloud' \in Seq(Ack)
        BY <1>6, <2>2, AckTypes, QueueTypes DEF HandleLastChunk, Answer
  <2>4. /\ progress' \in 0..Steps /\ magic' \in VariantSet \cup {NoTransfer}
        /\ owed' \subseteq VariantSet
    <3>1. Variant(metadata) \in VariantSet
          BY <2>2 DEF VariantSet
    <3> QED
        BY <1>6, <3>1, ChunksAssumption DEF HandleLastChunk
  <2>5. expected' = 0 /\ data' = <<>> /\ expected' \in 0..Chunks
        BY <1>6, ChunksAssumption DEF HandleLastChunk
  <2> QED
      BY <1>6, <2>1, <2>2, <2>3, <2>4, <2>5 DEF HandleLastChunk, TakeChunk
<1>7. CASE HandleCorrupt
      BY <1>7, QueueTypes, FailsTypes DEF HandleCorrupt
<1>8. CASE HandleUnsavedChunk
  <2> DEFINE d == Append(data, Head(toGateway).chunk)
  <2>1. TakeChunk(d) /\ Fails
        BY <1>8 DEF HandleUnsavedChunk
  <2>2. /\ toGateway' \in Seq(Frame)
        /\ d \in Seq(ChunkSet) /\ Len(d) = expected + 1 /\ expected + 1 \in 0..Chunks
        BY <2>1, TakenChunk, ChunksAssumption
  <2>3. failures' \in 0..MaxFailures
        BY <2>1, FailsTypes
  <2>4. file' \in Seq(ChunkSet) /\ manifest' \in Transfer \cup {NoTransfer, "torn"}
        BY <1>8, <2>2 DEF HandleUnsavedChunk
  <2> QED
      BY <1>8, <2>1, <2>2, <2>3, <2>4 DEF HandleUnsavedChunk, TakeChunk
<1>9. CASE SimulateProgress
      BY <1>9, ChunksAssumption DEF SimulateProgress
<1>10. CASE SessionEnds
  <2>1. /\ metadata' = NoTransfer /\ waiting' = NoFrame /\ owed' = {}
        /\ magic' = NoTransfer /\ UNCHANGED <<disk, done>>
        BY <1>10 DEF SessionEnds
  <2>2. data' = <<>> /\ expected' = 0 /\ progress' = 0 /\ repeats' = 0
        BY <1>10 DEF SessionEnds
  <2>3. /\ data' \in Seq(ChunkSet) /\ Len(data') = expected' /\ expected' \in 0..Chunks
        /\ progress' \in 0..Steps /\ repeats' \in 0..MaxRepeats
        BY <2>2, ChunksAssumption, BoundAssumption
  <2>4. toGateway' \in Seq(Frame) /\ toCloud' \in Seq(Ack)
        BY <1>10 DEF SessionEnds
  <2>5. failures' \in 0..MaxFailures
        BY <1>10, FailsTypes DEF SessionEnds
  <2> QED
      BY <2>1, <2>3, <2>4, <2>5
<1>11. ASSUME NEW t \in Transfer, NEW mine \in BOOLEAN, CloudStarts(t, mine)
       PROVE  TypeOK'
  <2>1. Metadata(t, mine) \in Frame
        BY DEF Frame
  <2>2. toGateway' \in Seq(Frame) /\ waiting' \in Frame /\ repeats' \in 0..MaxRepeats
        BY <1>11, <2>1, QueueTypes, BoundAssumption DEF CloudStarts, Send
  <2>3. failures' \in 0..MaxFailures
        BY <1>11, FailsTypes DEF CloudStarts, FailsIf
  <2> QED
      BY <1>11, <2>2, <2>3 DEF CloudStarts
<1>12. CASE CloudRepeats
      BY <1>12, QueueTypes, BoundAssumption DEF CloudRepeats
<1>13. ASSUME NEW heeds \in BOOLEAN, CloudHears(heeds)
       PROVE  TypeOK'
  <2> DEFINE a == Head(toCloud)
             t == waiting.transfer
  <2>0. toCloud # <<>> /\ toCloud' = Tail(toCloud)
        BY <1>13 DEF CloudHears
  <2>1. a \in Ack /\ toCloud' \in Seq(Ack)
        BY <2>0, QueueTypes
  <2>2. a.to \in Frame /\ a.chunk \in 0..Chunks
        BY <2>1 DEF Ack
  <2>3. CASE UNCHANGED <<cloud, toGateway, failures>>
        BY <1>13, <2>1, <2>2, <2>3 DEF CloudHears
  <2>4. CASE ~ UNCHANGED <<cloud, toGateway, failures>>
    <3>1. t \in Transfer
          BY <1>13, <2>1, <2>2, <2>4, FrameFields DEF CloudHears
    <3>2. CASE a.final
          BY <1>13, <2>1, <2>2, <2>4, <3>1, <3>2, BoundAssumption DEF CloudHears
    <3>3. CASE ~a.final
      <4>1. PICK c \in Content :
               Send(ChunkFrame(Chunk(t, a.chunk, c))) /\ FailsIf(c # "good") /\ UNCHANGED done
            BY <1>13, <2>4, <3>3 DEF CloudHears
      <4>2. a.chunk \in 0..Chunks - 1
            BY <1>13, <2>1, <2>2, <2>4, <3>3, ChunksAssumption DEF CloudHears
      <4>3. ChunkFrame(Chunk(t, a.chunk, c)) \in Frame
            BY <3>1, <4>2 DEF Frame, ChunkSet, Chunk
      <4>4. toGateway' \in Seq(Frame) /\ waiting' \in Frame /\ repeats' \in 0..MaxRepeats
            BY <4>1, <4>3, QueueTypes, BoundAssumption DEF Send
      <4>5. failures' \in 0..MaxFailures
            BY <4>1, FailsTypes DEF FailsIf
      <4> QED
          BY <1>13, <2>1, <2>2, <4>1, <4>4, <4>5 DEF CloudHears
    <3> QED
        BY <3>2, <3>3
  <2> QED
      BY <2>3, <2>4
<1>14. CASE UNCHANGED vars
      BY <1>14 DEF vars
<1> QED
    BY <1>1, <1>2, <1>3, <1>4, <1>5, <1>6, <1>7, <1>8, <1>9, <1>10, <1>11, <1>12,
       <1>13, <1>14 DEF Next, HandleFrame, Cloud

\* Every reachable state of a capture and of the cloud it talks to is well typed:
\* the data is as long as the expected index says, and no acknowledgement asks for
\* a chunk behind the end of the image.
THEOREM CaptureTypeCorrect == Spec => []TypeOK
<1>1. Init => TypeOK
      BY InitTypeOK
<1>2. TypeOK /\ [Next]_vars => TypeOK'
      BY StepTypeOK
<1> QED
    BY <1>1, <1>2, PTL DEF Spec

---------------------------------------------------------------------------
(* The disk *)

\* No step leaves a part of an image, or one that failed its CRC, in the place
\* of a whole one.
LEMMA StepDiskIsWhole == TypeOK /\ DiskIsWhole /\ [Next]_vars => DiskIsWhole'
<1> SUFFICES ASSUME TypeOK, DiskIsWhole, [Next]_vars PROVE DiskIsWhole'
    OBVIOUS
<1> DEFINE d == Append(data, Head(toGateway).chunk)
<1>1. CASE file' = file
      BY <1>1 DEF DiskIsWhole, Image
<1>2. CASE HandleLastChunk \/ HandleUnsavedChunk
  <2>1. TakeChunk(d) /\ d = Image(metadata) /\ (file' = d \/ file' = file)
        BY <1>2 DEF HandleLastChunk, HandleUnsavedChunk, disk
  <2>2. metadata \in Transfer
        BY <2>1, TakenChunk
  <2> QED
      BY <1>1, <2>1, <2>2 DEF DiskIsWhole, Image
<1>3. CASE HandleFrame /\ ~HandleLastChunk
      BY <1>1, <1>3 DEF HandleFrame, HandleMetadata, HandleForeignChunk, HandleOtherChunk,
         HandleChunk, HandleBadImage, disk
<1>4. CASE HandleCorrupt \/ SimulateProgress \/ SessionEnds
      BY <1>1, <1>4 DEF HandleCorrupt, SimulateProgress, SessionEnds, disk
<1>5. CASE Cloud
      BY <1>1, <1>5 DEF Cloud, CloudStarts, CloudRepeats, CloudHears, disk
<1>6. CASE UNCHANGED vars
      BY <1>1, <1>6 DEF vars, disk
<1> QED
    BY <1>2, <1>3, <1>4, <1>5, <1>6 DEF Next

\* Whatever fails, the directory never holds a part, a mixture or a corrupt
\* image under the name of a capture.
THEOREM DiskHoldsWholeImages == Spec => []DiskIsWhole
<1>1. Init => DiskIsWhole
      BY DEF Init, DiskIsWhole
<1>2. TypeOK /\ DiskIsWhole /\ [Next]_vars => DiskIsWhole'
      BY StepDiskIsWhole
<1> QED
    BY <1>1, <1>2, CaptureTypeCorrect, PTL DEF Spec

---------------------------------------------------------------------------
(* Final acknowledgements *)

\* In step terms: an acknowledgement that is new and final.
NewFinal(i) == i \in DOMAIN toCloud' /\ i > Len(toCloud) /\ toCloud'[i].final

\* An acknowledgement that asks for a chunk is not final.
LEMMA AskingIsNotFinal ==
    ASSUME toCloud \in Seq(Ack), NEW f \in Frame, NEW k \in 0..Chunks,
           Answer(Asks(f, k)), NEW i
    PROVE  ~NewFinal(i)
<1>1. Asks(f, k) \in Ack /\ ~Asks(f, k).final
      BY AckTypes DEF Asks
<1>2. ASSUME i \in DOMAIN Append(toCloud, Asks(f, k)), i > Len(toCloud)
      PROVE  Append(toCloud, Asks(f, k))[i] = Asks(f, k)
      BY <1>1, <1>2
<1> QED
    BY <1>1, <1>2 DEF NewFinal, Answer

\* Nothing new is there to be final when acknowledgements are only taken.
LEMMA TakingIsNotFinal ==
    ASSUME toCloud \in Seq(Ack), NEW i,
           \/ toCloud' = toCloud \/ toCloud' = <<>>
           \/ toCloud # <<>> /\ toCloud' = Tail(toCloud)
    PROVE  ~NewFinal(i)
BY DEF NewFinal

\* Only the last chunk of an image that is on disk gets a final acknowledgement.
LEMMA FinalComesLast ==
    ASSUME TypeOK, [Next]_vars, NEW i, NewFinal(i)
    PROVE  HandleLastChunk
<1>0. toCloud \in Seq(Ack)
      BY DEF TypeOK
<1>1. CASE HandleMetadata
  <2>1. Head(toGateway) \in Frame
        BY <1>1, QueueTypes DEF HandleMetadata, Receive, TypeOK
  <2>2. toCloud' = toCloud \/ Answer(Asks(Head(toGateway), 0))
        BY <1>1 DEF HandleMetadata
  <2> QED
      BY <1>0, <2>1, <2>2, AskingIsNotFinal, TakingIsNotFinal, ChunksAssumption
<1>2. CASE HandleOtherChunk
  <2>1. Head(toGateway) \in Frame /\ expected \in 0..Chunks
        BY <1>2, QueueTypes DEF HandleOtherChunk, Receive, TypeOK
  <2> QED
      BY <1>0, <1>2, <2>1, AskingIsNotFinal DEF HandleOtherChunk
<1>3. CASE HandleChunk
  <2>1. Head(toGateway) \in Frame /\ expected + 1 \in 0..Chunks
        BY <1>3, TakenChunk, ChunksAssumption DEF HandleChunk, TypeOK
  <2>2. toCloud' = toCloud \/ Answer(Asks(Head(toGateway), expected + 1))
        BY <1>3 DEF HandleChunk
  <2> QED
      BY <1>0, <2>1, <2>2, AskingIsNotFinal, TakingIsNotFinal
<1>4. CASE HandleForeignChunk \/ HandleBadImage \/ HandleCorrupt \/ HandleUnsavedChunk
      BY <1>0, <1>4, TakingIsNotFinal
         DEF HandleForeignChunk, HandleBadImage, HandleCorrupt, HandleUnsavedChunk
<1>5. CASE SimulateProgress \/ SessionEnds
      BY <1>0, <1>5, TakingIsNotFinal DEF SimulateProgress, SessionEnds, wire
<1>6. CASE Cloud
      BY <1>0, <1>6, TakingIsNotFinal DEF Cloud, CloudStarts, CloudRepeats, CloudHears
<1>7. CASE UNCHANGED vars
      BY <1>0, <1>7, TakingIsNotFinal DEF vars, wire
<1> QED
    BY <1>1, <1>2, <1>3, <1>4, <1>5, <1>6, <1>7 DEF Next, HandleFrame

\* The last element of an image is its last chunk.
LEMMA LastOfImage ==
    ASSUME NEW t \in Transfer, NEW s \in Seq(ChunkSet), NEW c \in ChunkSet,
           Append(s, c) = Image(t)
    PROVE  c.transfer = t
<1>1. DOMAIN Append(s, c) = 1..Chunks
      BY DEF Image
<1>2. Len(s) + 1 \in DOMAIN Append(s, c) /\ Append(s, c)[Len(s) + 1] = c
      OBVIOUS
<1>3. Image(t)[Len(s) + 1] = Chunk(t, Len(s), "good")
      BY <1>1, <1>2 DEF Image
<1> QED
    BY <1>2, <1>3 DEF Chunk

\* The final acknowledgement of a transfer names the image that is on disk.
LEMMA StepAckedIsOnDisk ==
    ASSUME TypeOK, [Next]_vars, NEW i \in DOMAIN toCloud', i > Len(toCloud), toCloud'[i].final
    PROVE  file' = Image(toCloud'[i].to.transfer) /\ manifest' = toCloud'[i].to.transfer
<1> DEFINE f == Head(toGateway)
           d == Append(data, f.chunk)
<1>1. HandleLastChunk
      BY FinalComesLast DEF NewFinal
<1>2. /\ TakeChunk(d) /\ d = Image(metadata) /\ Answer(Final(f))
      /\ file' = d /\ manifest' = metadata
      BY <1>1 DEF HandleLastChunk
<1>3. f \in Frame /\ f.chunk \in ChunkSet /\ f.transfer = f.chunk.transfer /\ metadata \in Transfer
      BY <1>2, TakenChunk
<1>4. f.transfer = metadata
      BY <1>2, <1>3, LastOfImage DEF TypeOK
<1>5. toCloud \in Seq(Ack) /\ Final(f) \in Ack /\ toCloud' = Append(toCloud, Final(f))
      BY <1>2, <1>3, AckTypes DEF TypeOK, Answer
<1>6. toCloud'[i] = Final(f)
      BY <1>5
<1>7. toCloud'[i].to = f
      BY <1>6 DEF Final
<1> QED
    BY <1>2, <1>4, <1>7

\* When the cloud is told that its firmware has arrived, exactly that image and
\* its manifest are on disk, after any retries, interruptions and failures.
THEOREM AcknowledgedIsCaptured == Spec => AckedIsOnDisk
<1> DEFINE Saved ==
        \A i \in DOMAIN toCloud' :
            i > Len(toCloud) /\ toCloud'[i].final =>
                LET t == toCloud'[i].to.transfer IN file' = Image(t) /\ manifest' = t
<1>1. TypeOK /\ [Next]_vars => [Saved]_vars
      BY StepAckedIsOnDisk
<1> QED
    BY <1>1, CaptureTypeCorrect, PTL DEF Spec, AckedIsOnDisk
=============================================================================
