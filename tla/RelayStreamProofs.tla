-------------------------- MODULE RelayStreamProofs --------------------------
(***************************************************************************)
(* The relay passes on exactly the other side's frames, for any number of  *)
(* frames and however the reads cut them, as long as no read ends between  *)
(* the two bytes of a start marker.                                        *)
(***************************************************************************)
EXTENDS RelayStream, TLAPS

\* Every cell is the first, the second or the last one of a frame.
LEMMA WhichCell ==
    ASSUME NEW n \in Nat
    PROVE  \E j \in Nat : n = 3 * j \/ n = 3 * j + 1 \/ n = 3 * j + 2
<1>1. n \div 3 \in Nat /\ n = 3 * (n \div 3) + (n % 3) /\ n % 3 \in 0..2
  BY SMT
<1> QED  BY <1>1, SMT

\* extract_frames leaves nothing or a start marker behind.
LEMMA RestAtFrameStart ==
    ASSUME TypeOK, AtFrameStart, ~SplitMarkers,
           NEW n \in 1..(3 * sent), Read(n)
    PROVE  /\ \E k \in 0..sent : Rest(n) = 3 * k
           /\ Rest(n) \in {n, n - 2} /\ base <= Rest(n) /\ Rest(n) \in Nat
<1>0. n \in Nat
  BY DEF TypeOK
<1>1. PICK j \in Nat : n = 3 * j \/ n = 3 * j + 1 \/ n = 3 * j + 2
  BY <1>0, WhichCell
<1>2. PICK k \in 0..sent : base = 3 * k
  BY DEF AtFrameStart
<1>3. sent \in Nat /\ read \in Nat /\ base \in Nat /\ base <= read /\ read < n
  BY DEF TypeOK, Read
<1>4. n # 3 * j + 1
  <2>1. SUFFICES ASSUME n = 3 * j + 1 PROVE FALSE
    OBVIOUS
  <2>2. j + 1 \in 1..sent /\ n = 3 * (j + 1) - 2
    BY <1>3, <2>1
  <2> QED  BY <2>2 DEF Read, SplitsMarker
<1>5. CASE n = 3 * j
  <2>1. Unfinished(n) = {}
    BY <1>3, <1>5 DEF Unfinished
  <2>2. Rest(n) = n
    BY <2>1 DEF Rest
  <2> QED  BY <1>3, <1>5, <2>2
<1>6. CASE n = 3 * j + 2
  <2>1. j + 1 \in 1..sent /\ n = 3 * (j + 1) - 1 /\ base <= 3 * (j + 1) - 3
    BY <1>2, <1>3, <1>6
  <2>2. Unfinished(n) # {}
    BY <2>1 DEF Unfinished
  <2>3. Rest(n) = n - 2
    BY <2>2 DEF Rest
  <2> QED  BY <1>3, <1>6, <2>1, <2>3
<1> QED  BY <1>1, <1>4, <1>5, <1>6

\* Wherever reads end, the buffer is a part of the stream that has not been
\* passed on, and only what was sent is.
THEOREM StreamTypes == Spec => []TypeOK
<1>1. Init => TypeOK
  BY DEF Init, TypeOK
<1>2. ASSUME TypeOK, NEW mine \in BOOLEAN, Send(mine)
      PROVE  TypeOK'
  BY <1>2 DEF TypeOK, Send
<1>3. ASSUME TypeOK, NEW n \in 1..(3 * sent), Read(n)
      PROVE  TypeOK'
  <2>1. sent \in Nat /\ read \in Nat /\ base \in Nat /\ base <= read /\ read < n
        /\ n \in Nat /\ n <= 3 * sent
    BY <1>3 DEF TypeOK, Read
  <2>2. Rest(n) \in Nat /\ base <= Rest(n) /\ Rest(n) <= n
    <3>1. CASE Unfinished(n) = {}
      BY <2>1, <3>1 DEF Rest
    <3>2. ASSUME NEW i \in Unfinished(n)
          PROVE  Rest(n) \in Nat /\ base <= Rest(n) /\ Rest(n) <= n
      <4>1. i \in Nat /\ base <= 3 * i - 3 /\ n = 3 * i - 1
        BY <2>1, <3>2 DEF Unfinished
      <4>2. Rest(n) = n - 2
        BY <3>2 DEF Rest
      <4> QED  BY <2>1, <4>1, <4>2
    <3> QED  BY <3>1, <3>2
  <2>3. Consumed(n) \subseteq 1..(3 * sent)
    BY <2>1, <2>2 DEF Consumed
  <2>4. passed' \subseteq 1..(3 * sent)
    BY <1>3, <2>3 DEF TypeOK, Read
  <2> QED  BY <1>3, <2>1, <2>2, <2>4 DEF TypeOK, Read
<1>4. TypeOK /\ [Next]_vars => TypeOK'
  BY <1>2, <1>3 DEF Next, TypeOK, vars
<1> QED  BY <1>1, <1>4, PTL DEF Spec

LEMMA InitInductive == Init => Inductive
  BY DEF Init, Inductive, TypeOK, AtFrameStart, Faithful

LEMMA SendInductive ==
    ASSUME Inductive, NEW mine \in BOOLEAN, Send(mine)
    PROVE  Inductive'
<1>1. sent \in Nat /\ read \in Nat /\ base \in Nat /\ base <= read /\ read <= 3 * sent
  BY DEF Inductive, TypeOK
<1>2. TypeOK'
  BY <1>1 DEF Inductive, TypeOK, Send
<1>3. AtFrameStart'
  BY <1>1 DEF Inductive, AtFrameStart, Send
<1>4. Faithful'
  <2>1. SUFFICES ASSUME NEW i \in 1..(sent + 1)
                 PROVE passed \cap Cells(i) = IF i \notin ours' /\ 3 * i <= base
                                              THEN Cells(i) ELSE {}
    BY DEF Faithful, Send, Cells
  <2>2. CASE i \in 1..sent
    <3>1. i \in ours' <=> i \in ours
      BY <1>1, <2>2 DEF Send
    <3> QED  BY <2>2, <3>1 DEF Inductive, Faithful
  <2>3. CASE i = sent + 1
    <3>1. ~(3 * i <= base)
      BY <1>1, <2>3
    <3>2. passed \cap Cells(i) = {}
      BY <1>1, <2>3 DEF Inductive, TypeOK, Cells
    <3> QED  BY <3>1, <3>2
  <2> QED  BY <1>1, <2>1, <2>2, <2>3
<1> QED  BY <1>2, <1>3, <1>4 DEF Inductive

\* A frame is passed on by the read that completes it, if it is to be.
LEMMA ReadInductive ==
    ASSUME Inductive, ~SplitMarkers, NEW n \in 1..(3 * sent), Read(n)
    PROVE  Inductive'
<1>1. sent \in Nat /\ read \in Nat /\ base \in Nat /\ base <= read /\ read < n
      /\ n <= 3 * sent
  BY DEF Inductive, TypeOK, Read
<1>2. PICK m \in 0..sent : Rest(n) = 3 * m
  BY RestAtFrameStart DEF Inductive
<1>3. Rest(n) \in {n, n - 2} /\ base <= Rest(n)
  BY RestAtFrameStart DEF Inductive
<1>4. PICK k \in 0..sent : base = 3 * k
  BY DEF Inductive, AtFrameStart
<1>5. \A i \in 1..sent : i \in Extracted(n) <=> (k < i /\ i <= m)
  BY <1>1, <1>2, <1>3, <1>4 DEF Extracted
<1>6. Consumed(n) = (3 * k + 1)..(3 * m)
  BY <1>2, <1>4 DEF Consumed
<1>7. Faithful'
  <2>1. SUFFICES ASSUME NEW i \in 1..sent
                 PROVE passed' \cap Cells(i) = IF i \notin ours /\ i <= m
                                               THEN Cells(i) ELSE {}
    <3>1. base' = 3 * m /\ sent' = sent /\ ours' = ours
      BY <1>2 DEF Read
    <3>2. \A i \in 1..sent : 3 * i <= 3 * m <=> i <= m
      BY <1>1
    <3> QED  BY <3>1, <3>2 DEF Faithful, Cells
  <2>2. passed' = passed \cup (Consumed(n) \ Kept(n))
    BY DEF Read
  <2>3. passed \cap Cells(i) = IF i \notin ours /\ i <= k THEN Cells(i) ELSE {}
    BY <1>1, <1>4 DEF Inductive, Faithful
  <2>4. \A j \in 1..sent : j # i => Cells(i) \cap Cells(j) = {}
    BY <1>1 DEF Cells
  <2>5. Cells(i) \cap Kept(n) = IF i \in Extracted(n) \cap ours THEN Cells(i) ELSE {}
    <3>1. Extracted(n) \subseteq 1..sent
      BY DEF Extracted
    <3>2. Cells(i) \cap Kept(n) \subseteq UNION {Cells(j) : j \in Extracted(n) \cap ours \cap {i}}
      BY <2>4, <3>1 DEF Kept
    <3> QED  BY <3>2 DEF Kept
  <2>6. Cells(i) \cap Consumed(n) = IF k < i /\ i <= m THEN Cells(i) ELSE {}
    BY <1>1, <1>6 DEF Cells
  <2>7. k <= m
    BY <1>1, <1>2, <1>3, <1>4
  <2>8. CASE i \in ours
    BY <1>5, <2>2, <2>3, <2>5, <2>6, <2>8
  <2>9. CASE i \notin ours /\ i <= k
    BY <1>1, <2>2, <2>3, <2>7, <2>9
  <2>10. CASE i \notin ours /\ k < i
    BY <2>2, <2>3, <2>5, <2>6, <2>10
  <2> QED  BY <1>1, <2>8, <2>9, <2>10
<1>8. AtFrameStart'
  BY <1>1, <1>2, <1>3 DEF AtFrameStart, Read
<1>9. TypeOK'
  <2>1. Consumed(n) \subseteq 1..(3 * sent)
    BY <1>1, <1>2, <1>4, <1>6
  <2>2. passed' \subseteq 1..(3 * sent)
    BY <2>1 DEF Inductive, TypeOK, Read
  <2>3. base' \in Nat /\ read' \in Nat /\ base' <= read' /\ read' <= 3 * sent
    BY <1>1, <1>2, <1>3 DEF Read
  <2> QED  BY <2>2, <2>3 DEF Inductive, TypeOK, Read
<1> QED  BY <1>7, <1>8, <1>9 DEF Inductive

LEMMA StepInductive ==
    ASSUME Inductive, ~SplitMarkers, [Next]_vars
    PROVE  Inductive'
<1>1. ASSUME NEW mine \in BOOLEAN, Send(mine) PROVE Inductive'
  BY <1>1, SendInductive
<1>2. ASSUME NEW n \in 1..(3 * sent), Read(n) PROVE Inductive'
  BY <1>2, ReadInductive
<1>3. CASE UNCHANGED vars
  BY <1>3 DEF Inductive, TypeOK, AtFrameStart, Faithful, vars
<1> QED  BY <1>1, <1>2, <1>3 DEF Next

\* What the other side has been given is, at any time, all of the frames meant
\* for it that have arrived and nothing else, if no read splits a marker.
THEOREM StreamFaithful ==
    ASSUME ~SplitMarkers
    PROVE  Spec => [](TypeOK /\ AtFrameStart /\ Faithful)
<1>1. Inductive /\ [Next]_vars => Inductive'
  BY StepInductive
<1>2. Spec => []Inductive
  BY <1>1, InitInductive, PTL DEF Spec
<1> QED  BY <1>2, PTL DEF Inductive

\* Then the gateway's own frames never reach the other side, not even in part.
THEOREM StreamHidesOurs ==
    ASSUME ~SplitMarkers
    PROVE  Spec => []HidesOurs
<1>1. TypeOK /\ Faithful => HidesOurs
  <2>1. SUFFICES ASSUME TypeOK, Faithful, NEW i \in ours, Cells(i) \subseteq passed
                 PROVE FALSE
    BY DEF HidesOurs
  <2>2. passed \cap Cells(i) = {}
    BY <2>1 DEF TypeOK, Faithful
  <2> QED  BY <2>1, <2>2 DEF Cells
<1> QED  BY <1>1, StreamFaithful, PTL
=============================================================================
