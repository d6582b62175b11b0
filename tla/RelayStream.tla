----------------------------- MODULE RelayStream -----------------------------
(***************************************************************************)
(* One direction of the relay: a stream of frames is read in pieces that   *)
(* end anywhere, cut into frames by extract_frames, and passed on without  *)
(* the frames the gateway keeps for itself: the inverter's answers to the  *)
(* gateway's own requests, the cloud's firmware while it is captured.      *)
(*                                                                         *)
(* A frame is three cells: the two bytes of its start marker, and the rest *)
(* of it up to its last byte.  Frame i is cells 3i-2 to 3i of the stream,  *)
(* and the buffer, always a contiguous part of the stream, cells base+1 to *)
(* read.  Frames that are damaged are not modelled: the stream comes out   *)
(* of TLS.  What a peer sends between frames is passed on like a frame.    *)
(***************************************************************************)
EXTENDS Naturals

CONSTANTS
    MaxFrames,      \* bound: frames the source sends
    SplitMarkers    \* may a read end between the two bytes of a start marker

VARIABLES
    sent,           \* frames the source has begun to send
    ours,           \* those of them the gateway keeps for itself
    read,           \* cells the gateway has read
    base,           \* cells that have left its buffer
    passed          \* cells it has written to the other side

vars == <<sent, ours, read, base, passed>>

Cells(i) == {3 * i - 2, 3 * i - 1, 3 * i}

TypeOK ==
    /\ sent \in Nat /\ read \in Nat /\ base \in Nat
    /\ ours \subseteq 1..sent
    /\ passed \subseteq 1..(3 * sent)
    /\ base <= read /\ read <= 3 * sent

Init ==
    /\ sent = 0 /\ ours = {}
    /\ read = 0 /\ base = 0 /\ passed = {}

\* The source sends a frame; mine says whether the gateway will keep it.
Send(mine) ==
    /\ sent < MaxFrames
    /\ sent' = sent + 1
    /\ ours' = IF mine THEN ours \cup {sent + 1} ELSE ours
    /\ UNCHANGED <<read, base, passed>>

---------------------------------------------------------------------------
(* extract_frames on a buffer that has grown to cells base+1 to n *)

\* The frames it returns are whole in the buffer.
Extracted(n) == {i \in 1..sent : base <= 3 * i - 3 /\ 3 * i <= n}

\* An unfinished frame stays if both bytes of its start marker are there.
\* Without a start marker the buffer is cleared, a lone first byte included.
Unfinished(n) == {i \in 1..sent : base <= 3 * i - 3 /\ n = 3 * i - 1}

\* The unfinished frame stays, and is passed on all the same.
BugPiece(n) == (base + 1)..n

\* What has left the buffer once extract_frames returns.
Rest(n) == IF Unfinished(n) = {} THEN n ELSE n - 2

\* consumed: what was in the buffer and no longer is.
Consumed(n) == (base + 1)..Rest(n)

\* The bytes of the gateway's own frames are cut out of what is consumed.
Kept(n) == UNION {Cells(i) : i \in Extracted(n) \cap ours}

SplitsMarker(n) == \E i \in 1..sent : n = 3 * i - 2

\* reader.read, extract_frames and the write to the other side.
Read(n) ==
    /\ read < n /\ n <= 3 * sent
    /\ SplitMarkers \/ ~SplitsMarker(n)
    /\ read' = n
    /\ base' = Rest(n)
    /\ passed' = passed \cup (Consumed(n) \ Kept(n))
    /\ UNCHANGED <<sent, ours>>

Next ==
    \/ \E mine \in BOOLEAN : Send(mine)
    \/ \E n \in 1..(3 * sent) : Read(n)

Spec == Init /\ [][Next]_vars
---------------------------------------------------------------------------

\* What the other side has been given are whole frames: all those of its own
\* that have arrived, and nothing of the gateway's ("the cloud must never see
\* those answers", relay_client_to_upstream).
Faithful ==
    \A i \in 1..sent :
        passed \cap Cells(i) = IF i \notin ours /\ 3 * i <= base THEN Cells(i) ELSE {}

\* The other side never gets a frame of the gateway's in full, wherever reads end.
HidesOurs == \A i \in ours : ~(Cells(i) \subseteq passed)

\* Why it is so: nothing or a start marker is left between two reads.
AtFrameStart ==
    /\ base \in {read, read - 2}
    /\ \E k \in 0..sent : base = 3 * k

Inductive == TypeOK /\ AtFrameStart /\ Faithful
=============================================================================
