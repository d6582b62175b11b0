--------------------------- MODULE FirmwareCapture ---------------------------
(***************************************************************************)
(* FirmwareCapture takes a firmware transfer of the cloud in the place of  *)
(* the inverter: it acknowledges metadata and chunks, saves the image and  *)
(* its manifest, and plays the flash progress.  The cloud is external, a   *)
(* stop-and-wait sender that repeats what was not answered in time, sends  *)
(* the chunk it is asked for, and starts over when it gets nowhere.        *)
(*                                                                         *)
(* A transfer is its metadata and its image.  All captures share one file  *)
(* name, as names only tell files apart.  Frames that are not firmware are *)
(* forwarded to the inverter and are not modelled.                         *)
(***************************************************************************)
EXTENDS Naturals, Sequences, FiniteSets

CONSTANTS
    Transfer, NoTransfer,
    Dynamic,        \* transfers with a magic of their own; others share one
    Chunks,         \* chunks of an image
    Steps,          \* percentages the simulated progress goes through
    MaxWire,        \* bound: frames and acknowledgements on their way
    MaxRepeats,     \* bound: times the cloud repeats a frame
    MaxFailures     \* bound: bad chunks, wrong targets, failed saves, lost
                    \* connections, and restarts before an answer had its time

ASSUME TransferAssumption == NoTransfer \notin Transfer /\ Dynamic \subseteq Transfer
ASSUME ChunksAssumption == Chunks \in Nat \ {0} /\ Steps \in Nat \ {0}
ASSUME BoundAssumption == MaxWire \in Nat /\ MaxRepeats \in Nat /\ MaxFailures \in Nat

VARIABLES
    \* FirmwareCapture: the transfer its metadata announced, the chunks taken,
    \* the index expected next, and the progress task (0 when it is done) with
    \* the variant whose magic it plays
    metadata, data, expected, progress, magic,
    \* the directory: image, as the chunks it consists of, and manifest
    file, manifest,
    \* the cloud: what it waits for an answer to, how often it repeated that, and
    \* the transfers it has done
    waiting, repeats, done,
    toGateway, toCloud,
    \* history: variants whose final acknowledgement was not yet followed by 100%
    owed,
    failures

task == <<progress, magic>>
capture == <<metadata, data, expected, task>>
disk == <<file, manifest>>
cloud == <<waiting, repeats, done>>
wire == <<toGateway, toCloud>>
vars == <<capture, disk, cloud, wire, owed, failures>>

Content == {"good", "bad", "long"}
Chunk(t, i, c) == [transfer |-> t, index |-> i, content |-> c]

\* Frames of the cloud; metadata may name another inverter as its target.
Metadata(t, mine) == [kind |-> "metadata", transfer |-> t, mine |-> mine]
ChunkFrame(c) == [kind |-> "chunk", transfer |-> c.transfer, chunk |-> c]
NoFrame == [kind |-> "none", transfer |-> NoTransfer]

\* An acknowledgement carries the tail of the frame it answers.  It asks for a
\* chunk, or is the final one.
Asks(f, k) == [to |-> f, final |-> FALSE, chunk |-> k]
Final(f) == [to |-> f, final |-> TRUE, chunk |-> 0]

\* What firmware_variant_for_frame tells apart.
Variant(t) == IF t \in Dynamic THEN t ELSE NoTransfer
VariantSet == {Variant(t) : t \in Transfer}

Image(t) == [i \in 1..Chunks |-> Chunk(t, i - 1, "good")]
\* Sizes are counted in chunks; a long one is twice as long.
Size(d) == Len(d) + Cardinality({i \in DOMAIN d : d[i].content = "long"})

ChunkSet == [transfer : Transfer, index : 0..Chunks - 1, content : Content]
Frame ==
    {Metadata(t, mine) : t \in Transfer, mine \in BOOLEAN}
    \cup {ChunkFrame(c) : c \in ChunkSet}
Ack == [to : Frame, final : BOOLEAN, chunk : 0..Chunks]

TypeOK ==
    /\ metadata \in Transfer \cup {NoTransfer} /\ expected \in 0..Chunks
    /\ data \in Seq(ChunkSet) /\ file \in Seq(ChunkSet)
    /\ Len(data) = expected /\ progress \in 0..Steps
    /\ magic \in VariantSet \cup {NoTransfer}
    /\ manifest \in Transfer \cup {NoTransfer, "torn"}
    /\ waiting \in Frame \cup {NoFrame} /\ repeats \in 0..MaxRepeats /\ done \subseteq Transfer
    /\ toGateway \in Seq(Frame) /\ toCloud \in Seq(Ack)
    /\ owed \subseteq VariantSet /\ failures \in 0..MaxFailures

Init ==
    /\ metadata = NoTransfer /\ data = <<>> /\ expected = 0
    /\ progress = 0 /\ magic = NoTransfer
    /\ file = <<>> /\ manifest = NoTransfer
    /\ waiting = NoFrame /\ repeats = 0 /\ done = {}
    /\ toGateway = <<>> /\ toCloud = <<>>
    /\ owed = {} /\ failures = 0

Fails == failures < MaxFailures /\ failures' = failures + 1
FailsIf(condition) == IF condition THEN Fails ELSE UNCHANGED failures

---------------------------------------------------------------------------
(* FirmwareCapture.handle_upstream_frame *)

Receive(kind) ==
    /\ toGateway # <<>> /\ Head(toGateway).kind = kind
    /\ toGateway' = Tail(toGateway)

Answer(ack) == toCloud' = Append(toCloud, ack)

\* A frame with a bad CRC is removed, and so is metadata for another inverter.
HandleCorrupt ==
    /\ toGateway # <<>> /\ toGateway' = Tail(toGateway) /\ Fails
    /\ UNCHANGED <<capture, disk, cloud, toCloud, owed>>

\* Operators named Bug... are deliberate mistakes, never part of Spec: the
\* properties are tested against them.  Here, metadata that does not reset the
\* expected index, and metadata that is ignored while a transfer is open.
BugKeepExpected ==
    /\ Receive("metadata")
    /\ LET f == Head(toGateway) IN
           metadata' = f.transfer /\ data' = <<>> /\ Answer(Asks(f, 0))
    /\ UNCHANGED <<expected, task, disk, cloud, owed, failures>>

BugFirstMetadata ==
    /\ Receive("metadata")
    /\ LET f == Head(toGateway) IN
       IF f.mine /\ metadata = NoTransfer
       THEN /\ metadata' = f.transfer /\ data' = <<>> /\ expected' = 0
            /\ Answer(Asks(f, 0)) /\ UNCHANGED task
       ELSE UNCHANGED <<capture, toCloud>>
    /\ UNCHANGED <<disk, cloud, owed, failures>>

\* A new transfer cancels the progress of the one before.
BugCancelProgress ==
    /\ Receive("metadata")
    /\ LET f == Head(toGateway) IN
       IF f.mine
       THEN /\ metadata' = f.transfer /\ data' = <<>> /\ expected' = 0
            /\ progress' = 0 /\ magic' = NoTransfer /\ Answer(Asks(f, 0))
       ELSE UNCHANGED <<capture, toCloud>>
    /\ UNCHANGED <<disk, cloud, owed, failures>>

HandleMetadata ==
    /\ Receive("metadata")
    /\ LET f == Head(toGateway) IN
       IF f.mine
       THEN /\ metadata' = f.transfer /\ data' = <<>> /\ expected' = 0
            /\ Answer(Asks(f, 0)) /\ UNCHANGED task
       ELSE UNCHANGED <<capture, toCloud>>
    /\ UNCHANGED <<disk, cloud, owed, failures>>

\* No transfer is open, or one of another protocol variant.
Foreign(f) == metadata = NoTransfer \/ Variant(f.transfer) # Variant(metadata)

HandleForeignChunk ==
    /\ Receive("chunk") /\ Foreign(Head(toGateway))
    /\ UNCHANGED <<capture, disk, cloud, toCloud, owed, failures>>

\* Not the chunk that is expected: ask for that one.
HandleOtherChunk ==
    /\ Receive("chunk")
    /\ LET f == Head(toGateway) IN
       /\ ~Foreign(f) /\ f.chunk.index # expected
       /\ Answer(Asks(f, expected))
    /\ UNCHANGED <<capture, disk, cloud, owed, failures>>

\* The expected chunk, after which the data is d.
TakeChunk(d) ==
    /\ Receive("chunk")
    /\ LET f == Head(toGateway) IN
       /\ ~Foreign(f) /\ f.chunk.index = expected
       /\ d = Append(data, f.chunk)
    /\ UNCHANGED cloud

\* The image is incomplete: ask for the next chunk.  It is too large, or its
\* CRC is wrong: stay silent.
HandleChunk ==
    LET f == Head(toGateway)
        d == Append(data, f.chunk) IN
    /\ TakeChunk(d) /\ Size(d) # Chunks
    /\ data' = d /\ expected' = expected + 1
    /\ IF Size(d) < Chunks THEN Answer(Asks(f, expected + 1)) ELSE UNCHANGED toCloud
    /\ UNCHANGED <<metadata, task, disk, owed, failures>>

Complete(d) == Size(d) = Chunks

\* The CRC is not compared.
BugNoCrc ==
    LET f == Head(toGateway)
        d == Append(data, f.chunk) IN
    /\ TakeChunk(d) /\ Complete(d) /\ d # Image(metadata)
    /\ file' = d /\ manifest' = metadata /\ Answer(Final(f))
    /\ metadata' = NoTransfer /\ data' = <<>> /\ expected' = 0
    /\ UNCHANGED <<task, owed, failures>>

HandleBadImage ==
    LET d == Append(data, Head(toGateway).chunk) IN
    /\ TakeChunk(d) /\ Complete(d) /\ d # Image(metadata)
    /\ data' = d /\ expected' = expected + 1
    /\ UNCHANGED <<metadata, task, disk, toCloud, owed, failures>>

\* The progress that follows a final acknowledgement now is one of variant v.
Plays(v) == progress = 0 \/ magic = v

\* Image and manifest are written and the final acknowledgement sent.  Unless a
\* progress task is running, one is started; a running one keeps its variant.
HandleLastChunk ==
    LET f == Head(toGateway)
        d == Append(data, f.chunk)
        v == Variant(metadata) IN
    /\ TakeChunk(d) /\ Complete(d) /\ d = Image(metadata)
    /\ file' = d /\ manifest' = metadata
    /\ Answer(Final(f))
    /\ IF progress = 0 THEN progress' = 1 /\ magic' = v ELSE UNCHANGED task
    /\ owed' = IF Plays(v) THEN owed \cup {v} ELSE owed
    /\ metadata' = NoTransfer /\ data' = <<>> /\ expected' = 0
    /\ UNCHANGED failures

\* The final acknowledgement does not wait for the files.
BugAckUnsaved ==
    LET f == Head(toGateway)
        d == Append(data, f.chunk) IN
    /\ TakeChunk(d) /\ Complete(d) /\ d = Image(metadata)
    /\ Answer(Final(f)) /\ Fails
    /\ data' = d /\ expected' = expected + 1
    /\ UNCHANGED <<metadata, task, disk, owed>>

\* _save_capture fails before, between or within its two writes.  Metadata and
\* data stay; no acknowledgement is sent.
HandleUnsavedChunk ==
    LET d == Append(data, Head(toGateway).chunk) IN
    /\ TakeChunk(d) /\ Complete(d) /\ d = Image(metadata)
    /\ \/ UNCHANGED disk
       \/ file' = d /\ manifest' \in {manifest, "torn"}
    /\ Fails
    /\ data' = d /\ expected' = expected + 1
    /\ UNCHANGED <<metadata, task, toCloud, owed>>

\* _simulate_flash_progress: one percentage, up to 100, under its own magic.
SimulateProgress ==
    /\ progress # 0
    /\ IF progress = Steps
       THEN progress' = 0 /\ magic' = NoTransfer /\ owed' = owed \ {magic}
       ELSE progress' = progress + 1 /\ UNCHANGED <<magic, owed>>
    /\ UNCHANGED <<metadata, data, expected, disk, cloud, wire, failures>>

\* A connection is lost, or the gateway restarts: the next Session has a new
\* FirmwareCapture, and the files stay.
SessionEnds ==
    /\ Fails
    /\ metadata' = NoTransfer /\ data' = <<>> /\ expected' = 0
    /\ progress' = 0 /\ magic' = NoTransfer
    /\ waiting' = NoFrame /\ repeats' = 0 /\ toGateway' = <<>> /\ toCloud' = <<>>
    /\ owed' = {}
    /\ UNCHANGED <<disk, done>>

---------------------------------------------------------------------------
(* The cloud (external) *)

InFlight == Len(toGateway) + Len(toCloud)

Send(f) == toGateway' = Append(toGateway, f) /\ waiting' = f /\ repeats' = 0

\* It starts a transfer, also over again or in the place of another one.
CloudStarts(t, mine) ==
    /\ InFlight < MaxWire /\ t \notin done
    /\ FailsIf(~mine \/ (waiting # NoFrame /\ InFlight > 0))
    /\ Send(Metadata(t, mine))
    /\ UNCHANGED <<capture, disk, done, toCloud, owed>>

CloudRepeats ==
    /\ waiting # NoFrame /\ InFlight < MaxWire
    /\ repeats < MaxRepeats /\ repeats' = repeats + 1
    /\ toGateway' = Append(toGateway, waiting)
    /\ UNCHANGED <<capture, disk, waiting, done, toCloud, owed, failures>>

\* An answer to what it waits for is heeded; one that is late may be.
CloudHears(heeds) ==
    /\ toCloud # <<>> /\ toCloud' = Tail(toCloud)
    /\ LET a == Head(toCloud)
           t == waiting.transfer IN
       IF a.to.transfer # t \/ ~(a.to = waiting \/ heeds)
       THEN UNCHANGED <<cloud, toGateway, failures>>
       ELSE IF a.final
       THEN /\ waiting' = NoFrame /\ repeats' = 0 /\ done' = done \cup {t}
            /\ UNCHANGED <<toGateway, failures>>
       ELSE IF a.chunk < Chunks
       THEN /\ \E c \in Content : Send(ChunkFrame(Chunk(t, a.chunk, c))) /\ FailsIf(c # "good")
            /\ UNCHANGED done
       ELSE UNCHANGED <<cloud, toGateway, failures>>
    /\ UNCHANGED <<capture, disk, owed>>
---------------------------------------------------------------------------

HandleFrame ==
    \/ HandleMetadata \/ HandleForeignChunk \/ HandleOtherChunk
    \/ HandleChunk \/ HandleBadImage \/ HandleLastChunk

Cloud ==
    \/ \E t \in Transfer, mine \in BOOLEAN : CloudStarts(t, mine)
    \/ CloudRepeats
    \/ \E heeds \in BOOLEAN : CloudHears(heeds)

Next ==
    \/ HandleFrame \/ HandleCorrupt \/ HandleUnsavedChunk
    \/ SimulateProgress \/ SessionEnds \/ Cloud

Spec == Init /\ [][Next]_vars

\* Frames are read and the progress task runs; a cloud that gets no answer
\* starts over with good frames.
Restart == \E t \in Transfer : InFlight = 0 /\ CloudStarts(t, TRUE)

Fairness ==
    /\ WF_vars(HandleFrame \/ HandleUnsavedChunk) /\ WF_vars(SimulateProgress)
    /\ WF_vars(CloudHears(TRUE) \/ CloudHears(FALSE)) /\ WF_vars(Restart)

FairSpec == Spec /\ Fairness
---------------------------------------------------------------------------
(* Correctness *)

\* A final acknowledgement tells the cloud that its image is on disk: whole,
\* from chunk 0 to the last, and with the manifest that describes it, whatever
\* was repeated, late, restarted or failed before.
AckedIsOnDisk ==
    [][\A i \in DOMAIN toCloud' :
           i > Len(toCloud) /\ toCloud'[i].final =>
               LET t == toCloud'[i].to.transfer IN file' = Image(t) /\ manifest' = t]_vars

\* What is on disk is always the whole image of one transfer, never a part, a
\* mixture or what failed its CRC (os.replace; "validates its protocol CRC").
DiskIsWhole == file = <<>> \/ \E t \in Transfer : file = Image(t)

\* Once failures cease, every transfer the cloud insists on is captured: new
\* metadata recovers from any state a failed transfer left behind.
CaptureCompletes == <>(done = Transfer)

\* After a final acknowledgement the cloud is shown 100% under the magic of that
\* capture unless the connection ends, also when one task plays the progress of
\* several captures of one variant.  A capture that completes while the progress
\* of another variant is played is not promised any: the code starts none for it.
ProgressFollows == \A v \in VariantSet : v \in owed ~> v \notin owed

\* Every chunk that is asked for exists ("Tell FoxCloud which chunk is still
\* required"), so that after a failed save "the cloud can retry".
AsksForExistingChunk == \A i \in DOMAIN toCloud : toCloud[i].chunk < Chunks
=============================================================================
