------------------------- MODULE RelaySessionProofs -------------------------
(***************************************************************************)
(* For all constants: both directions of a relay session are streams as    *)
(* RelayStream describes them, whatever the gateway injects, captures and  *)
(* loses; so its two theorems hold of what inverter and cloud are given.   *)
(* All a session keeps is typed.  And at rest the state topic shows what   *)
(* the register holds: while both directions run and no answer is missed,  *)
(* every answer on its way is expected, once, and the last that tells the  *)
(* value is still to be shown whenever the state topic is behind.          *)
(***************************************************************************)
EXTENDS RelaySession, SequenceTheorems, FiniteSetTheorems, TLAPS

UpProofs == INSTANCE RelayStreamProofs WITH
    MaxFrames <- MaxUp, sent <- Len(upSaid), ours <- OursUp,
    read <- upRead, base <- upBase, passed <- upPassed
DownProofs == INSTANCE RelayStreamProofs WITH
    MaxFrames <- MaxDown, sent <- Len(downSaid), ours <- OursDown,
    read <- downRead, base <- downBase, passed <- downPassed

\* What the peers have said are sequences, of whatever elements.
Conversations == /\ \E S : upSaid \in Seq(S)
                 /\ \E S : downSaid \in Seq(S)

LEMMA AppendKeeps ==
    ASSUME NEW s, NEW f, \E S : s \in Seq(S)
    PROVE  /\ \E S : Append(s, f) \in Seq(S)
           /\ Len(s) \in Nat /\ Len(Append(s, f)) = Len(s) + 1
           /\ DOMAIN s = 1..Len(s) /\ DOMAIN Append(s, f) = 1..(Len(s) + 1)
           /\ \A i \in 1..Len(s) : Append(s, f)[i] = s[i]
           /\ Append(s, f)[Len(s) + 1] = f
<1>1. PICK S : s \in Seq(S)
  OBVIOUS
<1>2. s \in Seq(S \cup {f}) /\ f \in S \cup {f}
  BY <1>1
<1>3. Append(s, f) \in Seq(S \cup {f})
  BY <1>2
<1> QED  BY <1>2, <1>3

\* The actions that append to upSaid or read from it; the others leave the
\* stream from the inverter as it is.
LEMMA UpActions ==
    ASSUME Next
    PROVE  \/ \E n \in 1..(3 * MaxUp) : UpRead(n)
           \/ UNCHANGED <<upRead, upBase, upPassed>> /\ \E f : Said(f)
           \/ UNCHANGED upVars
<1>1. CASE ChooseUpstream \/ UpstreamFails \/ UpstreamConnects
  BY <1>1 DEF ChooseUpstream, UpstreamFails, UpstreamConnects
<1>2. CASE \E n \in 1..(3 * MaxDown) : DownRead(n)
  BY <1>2 DEF DownRead
<1>3. CASE Ends("up") \/ Ends("down") \/ Finish \/ Settle
  BY <1>3 DEF Ends, Finish, Settle
<1>4. CASE \E v \in Percent : LocalWrite(v)
  BY <1>4 DEF LocalWrite
<1>5. CASE \E k \in DOMAIN requests : ConfirmWrite(k) \/ GiveUpWrite(k) \/ ReadbackTimeout(k)
  BY <1>5 DEF ConfirmWrite, GiveUpWrite, ReadbackTimeout
<1>6. CASE InverterSays
  BY <1>6 DEF InverterSays
<1>7. CASE InverterServes
  BY <1>7 DEF InverterServes
<1>8. CASE \E kind \in CloudSends, v \in Value : CloudSays(kind, v)
  BY <1>8 DEF CloudSays
<1>9. CASE \E p \in Peer : Leaves(p)
  BY <1>9 DEF Leaves
<1> QED  BY <1>1, <1>2, <1>3, <1>4, <1>5, <1>6, <1>7, <1>8, <1>9 DEF Next

LEMMA DownActions ==
    ASSUME Next
    PROVE  \/ \E n \in 1..(3 * MaxDown) : DownRead(n)
           \/ \E kind \in CloudSends, v \in Value : CloudSays(kind, v)
           \/ UNCHANGED downVars
<1>1. CASE ChooseUpstream \/ UpstreamFails \/ UpstreamConnects
  BY <1>1 DEF ChooseUpstream, UpstreamFails, UpstreamConnects
<1>2. CASE \E n \in 1..(3 * MaxUp) : UpRead(n)
  BY <1>2 DEF UpRead
<1>3. CASE Ends("up") \/ Ends("down") \/ Finish \/ Settle
  BY <1>3 DEF Ends, Finish, Settle
<1>4. CASE \E v \in Percent : LocalWrite(v)
  BY <1>4 DEF LocalWrite
<1>5. CASE \E k \in DOMAIN requests : ConfirmWrite(k) \/ GiveUpWrite(k) \/ ReadbackTimeout(k)
  BY <1>5 DEF ConfirmWrite, GiveUpWrite, ReadbackTimeout
<1>6. CASE InverterSays \/ InverterServes
  BY <1>6 DEF InverterSays, InverterServes
<1>7. CASE \E p \in Peer : Leaves(p)
  BY <1>7 DEF Leaves
<1> QED  BY <1>1, <1>2, <1>3, <1>4, <1>5, <1>6, <1>7 DEF Next

LEMMA ConversationsStep ==
    ASSUME Conversations, [Next]_vars
    PROVE  Conversations'
<1>1. CASE UNCHANGED vars
  BY <1>1 DEF Conversations, vars, upVars, downVars
<1>2. CASE Next
  <2>1. \E S : upSaid' \in Seq(S)
    <3>1. CASE \E f : Said(f)
      <4>1. PICK f : upSaid' = Append(upSaid, f)
        BY <3>1 DEF Said
      <4> QED  BY <4>1, AppendKeeps DEF Conversations
    <3>2. CASE UNCHANGED upSaid
      BY <3>2 DEF Conversations
    <3> QED  BY <1>2, <3>1, <3>2, UpActions DEF UpRead, upVars
  <2>2. \E S : downSaid' \in Seq(S)
    <3>1. CASE \E kind \in CloudSends, v \in Value : CloudSays(kind, v)
      <4>1. PICK f : downSaid' = Append(downSaid, f)
        BY <3>1 DEF CloudSays
      <4> QED  BY <4>1, AppendKeeps DEF Conversations
    <3>2. CASE UNCHANGED downSaid
      BY <3>2 DEF Conversations
    <3> QED  BY <1>2, <3>1, <3>2, DownActions DEF DownRead, downVars
  <2> QED  BY <2>1, <2>2 DEF Conversations
<1> QED  BY <1>1, <1>2

LEMMA ConversationsInvariant == Spec => []Conversations
<1>1. Init => Conversations
  BY DEF Init, Conversations
<1>2. Conversations /\ [Next]_vars => Conversations'
  BY ConversationsStep
<1> QED  BY <1>1, <1>2, PTL DEF Spec

\* Every step of the session is a step of the stream from the inverter.
LEMMA UpStep ==
    ASSUME Conversations, [Next]_vars
    PROVE  [Up!Next]_(Up!vars)
<1>1. CASE UNCHANGED upVars
  BY <1>1 DEF upVars, Up!vars, OursUp
<1>2. ASSUME NEW n \in 1..(3 * MaxUp), UpRead(n)
      PROVE  [Up!Next]_(Up!vars)
  <2>1. upSaid' = upSaid /\ n \in 1..(3 * Len(upSaid))
    <3>1. Len(upSaid) \in Nat
      BY AppendKeeps DEF Conversations
    <3> QED  BY <1>2, <3>1 DEF UpRead
  <2>2. CASE Up!Read(n)
    BY <2>1, <2>2 DEF Up!Next
  <2>3. CASE UNCHANGED <<upRead, upBase, upPassed>>
    BY <2>1, <2>3 DEF Up!vars, OursUp
  <2> QED  BY <1>2, <2>2, <2>3 DEF UpRead
<1>3. ASSUME NEW f, Said(f), UNCHANGED <<upRead, upBase, upPassed>>
      PROVE  [Up!Next]_(Up!vars)
  <2>1. upSaid' = Append(upSaid, f) /\ Len(upSaid) < MaxUp
    BY <1>3 DEF Said
  <2>2. /\ Len(upSaid) \in Nat /\ Len(upSaid') = Len(upSaid) + 1
        /\ DOMAIN upSaid = 1..Len(upSaid) /\ DOMAIN upSaid' = 1..(Len(upSaid) + 1)
        /\ \A i \in 1..Len(upSaid) : upSaid'[i] = upSaid[i]
        /\ upSaid'[Len(upSaid) + 1] = f
    BY <2>1, AppendKeeps DEF Conversations
  <2>3. OursUp' = IF f.key.from = "gateway" THEN OursUp \cup {Len(upSaid) + 1} ELSE OursUp
    BY <2>2 DEF OursUp
  <2>4. Up!Send(f.key.from = "gateway")
    BY <1>3, <2>1, <2>2, <2>3 DEF Up!Send
  <2> QED  BY <2>4 DEF Up!Next
<1>4. CASE UNCHANGED vars
  BY <1>1, <1>4 DEF vars, upVars
<1> QED  BY <1>1, <1>2, <1>3, <1>4, UpActions

LEMMA DownStep ==
    ASSUME Conversations, [Next]_vars
    PROVE  [Down!Next]_(Down!vars)
<1>1. CASE UNCHANGED downVars
  BY <1>1 DEF downVars, Down!vars, OursDown
<1>2. ASSUME NEW n \in 1..(3 * MaxDown), DownRead(n)
      PROVE  [Down!Next]_(Down!vars)
  <2>1. downSaid' = downSaid /\ n \in 1..(3 * Len(downSaid))
    <3>1. Len(downSaid) \in Nat
      BY AppendKeeps DEF Conversations
    <3> QED  BY <1>2, <3>1 DEF DownRead
  <2>2. CASE Down!Read(n)
    BY <2>1, <2>2 DEF Down!Next
  <2>3. CASE UNCHANGED <<downRead, downBase, downPassed>>
    BY <2>1, <2>3 DEF Down!vars, OursDown
  <2> QED  BY <1>2, <2>2, <2>3 DEF DownRead
<1>3. ASSUME NEW kind \in CloudSends, NEW v \in Value, CloudSays(kind, v)
      PROVE  [Down!Next]_(Down!vars)
  <2> DEFINE f == [kind |-> kind, val |-> v, key |-> KeyOf("cloud", Len(downSaid) + 1)]
  <2>1. downSaid' = Append(downSaid, f) /\ Len(downSaid) < MaxDown
        /\ UNCHANGED <<downRead, downBase, downPassed>>
    BY <1>3 DEF CloudSays
  <2>2. /\ Len(downSaid) \in Nat /\ Len(downSaid') = Len(downSaid) + 1
        /\ DOMAIN downSaid = 1..Len(downSaid)
        /\ DOMAIN downSaid' = 1..(Len(downSaid) + 1)
        /\ \A i \in 1..Len(downSaid) : downSaid'[i] = downSaid[i]
        /\ downSaid'[Len(downSaid) + 1] = f
    BY <2>1, AppendKeeps DEF Conversations
  <2> DEFINE mine == Capture /\ kind = "firmware"
  <2>3. OursDown' = IF mine THEN OursDown \cup {Len(downSaid) + 1} ELSE OursDown
    <3>1. f.kind = kind
      OBVIOUS
    <3> HIDE DEF f
    <3>2. CASE Capture /\ kind = "firmware"
      BY <2>2, <3>1, <3>2 DEF OursDown
    <3>3. CASE Capture /\ kind # "firmware"
      BY <2>2, <3>1, <3>3 DEF OursDown
    <3>4. CASE ~Capture
      BY <3>4 DEF OursDown
    <3> QED  BY <3>2, <3>3, <3>4
  <2>4. Down!Send(mine)
    BY <2>1, <2>2, <2>3 DEF Down!Send
  <2> QED  BY <2>4 DEF Down!Next
<1>4. CASE UNCHANGED vars
  BY <1>1, <1>4 DEF vars, downVars
<1> QED  BY <1>1, <1>2, <1>3, <1>4, DownActions

LEMMA InitStreams == Init => Up!Init /\ Down!Init
  BY DEF Init

\* The same steps, as the theorems about a stream see them.
LEMMA StreamSteps ==
    Conversations /\ [Next]_vars =>
        [UpProofs!Next]_(UpProofs!vars) /\ [DownProofs!Next]_(DownProofs!vars)
<1>1. [Up!Next]_(Up!vars) => [UpProofs!Next]_(UpProofs!vars)
  BY DEF Up!Next, Up!Send, Up!Read, Up!SplitsMarker, Up!Rest,
           Up!Unfinished, Up!Consumed, Up!Kept, Up!Extracted, Up!Cells, Up!vars,
           UpProofs!Next, UpProofs!Send, UpProofs!Read, UpProofs!SplitsMarker, UpProofs!Rest,
           UpProofs!Unfinished, UpProofs!Consumed, UpProofs!Kept, UpProofs!Extracted, UpProofs!Cells, UpProofs!vars
<1>2. [Down!Next]_(Down!vars) => [DownProofs!Next]_(DownProofs!vars)
  BY DEF Down!Next, Down!Send, Down!Read, Down!SplitsMarker, Down!Rest,
           Down!Unfinished, Down!Consumed, Down!Kept, Down!Extracted, Down!Cells, Down!vars,
           DownProofs!Next, DownProofs!Send, DownProofs!Read, DownProofs!SplitsMarker, DownProofs!Rest,
           DownProofs!Unfinished, DownProofs!Consumed, DownProofs!Kept, DownProofs!Extracted, DownProofs!Cells, DownProofs!vars
<1> QED  BY <1>1, <1>2, UpStep, DownStep

\* Both directions behave as RelayStream says: a session's injected requests,
\* captured firmware, failing reads and lost connections never make a direction
\* do anything but send, read and pass on (run_relay).
THEOREM SessionImplementsStreams == Spec => ImplementsStreams
<1>1. Conversations /\ [Next]_vars => [Up!Next]_(Up!vars) /\ [Down!Next]_(Down!vars)
  BY UpStep, DownStep
<1> QED  BY <1>1, InitStreams, ConversationsInvariant, PTL
         DEF Spec, ImplementsStreams, Up!Spec, Down!Spec

\* So each peer is given the other's frames whole and in full, and nothing that
\* answers a request it did not make.
THEOREM SessionPeersHearTheirOwn ==
    ASSUME ~SplitMarkers
    PROVE  Spec => []PeersHearTheirOwn
<1>1. (UpProofs!Init /\ [][UpProofs!Next]_(UpProofs!vars)) => []UpProofs!Faithful
  BY UpProofs!StreamFaithful, PTL DEF UpProofs!Spec
<1>2. (DownProofs!Init /\ [][DownProofs!Next]_(DownProofs!vars)) => []DownProofs!Faithful
  BY DownProofs!StreamFaithful, PTL DEF DownProofs!Spec
<1>3. Conversations /\ [Next]_vars =>
        [UpProofs!Next]_(UpProofs!vars) /\ [DownProofs!Next]_(DownProofs!vars)
  BY StreamSteps
<1>4. Init => UpProofs!Init /\ DownProofs!Init
  BY InitStreams DEF Up!Init, Down!Init, UpProofs!Init, DownProofs!Init
<1>5. UpProofs!Faithful /\ DownProofs!Faithful => PeersHearTheirOwn
  BY DEF PeersHearTheirOwn, Up!Faithful, UpProofs!Faithful, Up!Cells, UpProofs!Cells,
         Down!Faithful, DownProofs!Faithful, Down!Cells, DownProofs!Cells
<1> QED  BY <1>1, <1>2, <1>3, <1>4, <1>5, ConversationsInvariant, PTL DEF Spec

---------------------------------------------------------------------------
(* Types *)

\* What the Session keeps is typed, keys name what they were given for, and
\* the generations of the commands are numbered without gaps.
Commands == {requests[k].gen : k \in Writes}
SessionTyped ==
    /\ phase \in {"accepted", "connecting", "relay", "local", "over"}
    /\ task \in [{"up", "down"} -> {"idle", "running", "ended", "failed"}]
    /\ closed \subseteq Peer /\ listed \in BOOLEAN
    /\ settle \in {"no", "due", "done"}
    /\ haState \in Value
    /\ alive \in [Peer -> BOOLEAN]
    /\ register \in Percent /\ missed \in BOOLEAN
UpTyped ==
    /\ upSaid \in Seq(UpFrame)
    /\ \A i \in 1..Len(upSaid) : upSaid[i].kind = "read_value" => upSaid[i].val \in Percent
DownTyped ==
    /\ downSaid \in Seq(DownFrame)
    /\ \A i \in 1..Len(downSaid) : /\ downSaid[i].key = KeyOf("cloud", i)
                                   /\ downSaid[i].kind = "write" => downSaid[i].val \in Percent
NotedTyped ==
    /\ pendingReads \subseteq Key /\ pendingWrites \subseteq Key
    /\ \A key \in pendingWrites : key.from = "cloud" /\ key.n \in 1..Len(downSaid)
InboxTyped ==
    /\ inbox \in Seq(Injected)
    /\ \A a \in 1..Len(inbox) : inbox[a].kind = "write" => inbox[a].val \in Percent
RequestsTyped ==
    /\ requests \in Seq(Request)
    /\ \A k \in 1..Len(requests) : requests[k].op = "write" => requests[k].val \in Percent
    /\ \E m \in 0..MaxLocal : Commands = 1..m
Typed == SessionTyped /\ UpTyped /\ DownTyped /\ NotedTyped /\ InboxTyped /\ RequestsTyped

\* One more element at the end of a sequence.
LEMMA OneMore ==
    ASSUME NEW S, NEW q \in Seq(S), NEW e \in S
    PROVE  /\ Append(q, e) \in Seq(S)
           /\ Len(q) \in Nat /\ Len(Append(q, e)) = Len(q) + 1
           /\ \A i \in 1..Len(q) : i \in 1..Len(Append(q, e)) /\ Append(q, e)[i] = q[i]
           /\ Append(q, e)[Len(q) + 1] = e
           /\ \A i \in 1..Len(Append(q, e)) : i \in 1..Len(q) \/ i = Len(q) + 1
  OBVIOUS

\* One less at its head.
LEMMA OneLess ==
    ASSUME NEW S, NEW q \in Seq(S), q # <<>>
    PROVE  /\ Head(q) \in S /\ Head(q) = q[1] /\ 1 \in 1..Len(q)
           /\ Tail(q) \in Seq(S)
           /\ \A i \in 1..Len(Tail(q)) : Tail(q)[i] = q[i + 1] /\ i + 1 \in 1..Len(q)
  OBVIOUS

LEMMA KeyTypes ==
    /\ \A from \in Peer \cup {"gateway"}, n \in Nat :
           KeyOf(from, n) \in Key /\ KeyOf(from, n).from = from /\ KeyOf(from, n).n = n
    /\ \A n \in Nat : KeyOf("gateway", n + 1) \in Key
    /\ \A key \in Key : key = KeyOf(key.from, key.n)
  BY DEF Key, KeyOf, Peer

\* Generations are counted by the commands made.
LEMMA GenCounts ==
    ASSUME RequestsTyped
    PROVE  /\ Gen \in 0..MaxLocal /\ Commands = 1..Gen
           /\ Gen > 0 => Newest \in 1..Len(requests) /\ requests[Newest].val \in Percent
  <1>1. PICK m \in 0..MaxLocal : Commands = 1..m
    BY DEF RequestsTyped
  <1>2. m \in Nat /\ Cardinality(1..m) = m
    BY <1>1, BoundAssumption, FS_Interval
  <1>3. Gen = m
    BY <1>1, <1>2 DEF Gen, Commands
  <1>4. ASSUME Gen > 0
        PROVE  Newest \in 1..Len(requests) /\ requests[Newest].val \in Percent
    <2>1. Gen \in Commands
      BY <1>1, <1>2, <1>3, <1>4
    <2>2. \E k \in Writes : requests[k].gen = Gen
      BY <2>1 DEF Commands
    <2>3. Newest \in Writes
      BY <2>2 DEF Newest
    <2>4. DOMAIN requests = 1..Len(requests)
      BY LenProperties DEF RequestsTyped
    <2> QED
      BY <2>3, <2>4 DEF Writes, RequestsTyped
  <1> QED
    BY <1>1, <1>3, <1>4

\* The generations are those of the writes, which a new read or another state of
\* a request leaves alone.
LEMMA CommandsKept ==
    ASSUME requests \in Seq(Request), requests' \in Seq(Request),
           Len(requests) <= Len(requests'),
           \A k \in 1..Len(requests) : /\ requests'[k].op = requests[k].op
                                       /\ requests'[k].gen = requests[k].gen,
           \A k \in 1..Len(requests') : k \in 1..Len(requests) \/ requests'[k].op = "read"
    PROVE  Commands' = Commands
  <1>1. /\ DOMAIN requests = 1..Len(requests) /\ Len(requests) \in Nat
        /\ DOMAIN requests' = 1..Len(requests') /\ Len(requests') \in Nat
    OBVIOUS
  <1>2. Writes' = Writes
    BY <1>1 DEF Writes
  <1>3. \A k \in Writes : requests'[k].gen = requests[k].gen
    BY <1>1 DEF Writes
  <1> QED
    BY <1>2, <1>3 DEF Commands

\* A write adds its own.
LEMMA CommandAdded ==
    ASSUME requests \in Seq(Request), NEW r \in Request, r.op = "write",
           requests' = Append(requests, r)
    PROVE  Commands' = Commands \cup {r.gen}
  <1>1. /\ DOMAIN requests = 1..Len(requests) /\ Len(requests) \in Nat
        /\ DOMAIN requests' = 1..(Len(requests) + 1)
        /\ \A k \in 1..Len(requests) : requests'[k] = requests[k]
        /\ requests'[Len(requests) + 1] = r
    OBVIOUS
  <1>2. Writes' = Writes \cup {Len(requests) + 1}
    BY <1>1 DEF Writes
  <1>3. \A k \in Writes : requests'[k].gen = requests[k].gen
    BY <1>1 DEF Writes
  <1> QED
    BY <1>1, <1>2, <1>3 DEF Commands

\* Another state of a request leaves the rest of it alone.
LEMMA AfterWriteTyped ==
    ASSUME requests \in Seq(Request), NEW k \in 1..Len(requests),
           NEW st \in {"waiting", "acked", "refused", "confirmed", "done"}
    PROVE  /\ AfterWrite(k, st) \in Seq(Request)
           /\ Len(AfterWrite(k, st)) = Len(requests)
           /\ \A j \in 1..Len(requests) :
                  /\ AfterWrite(k, st)[j].op = requests[j].op
                  /\ AfterWrite(k, st)[j].val = requests[j].val
                  /\ AfterWrite(k, st)[j].gen = requests[j].gen
                  /\ AfterWrite(k, st)[j].st = IF j = k THEN st ELSE requests[j].st
  <1>1. /\ requests \in [1..Len(requests) -> Request] /\ Len(requests) \in Nat
    OBVIOUS
  <1> DEFINE r == [requests[k] EXCEPT !.st = st]
  <1>2. requests[k] \in Request
    BY <1>1
  <1>3. r \in Request /\ r.op = requests[k].op /\ r.val = requests[k].val
        /\ r.gen = requests[k].gen /\ r.st = st
    BY <1>2 DEF Request
  <1>4. AfterWrite(k, st) = [requests EXCEPT ![k] = r]
    BY DEF AfterWrite
  <1> HIDE DEF r
  <1>5. /\ AfterWrite(k, st) \in Seq(Request)
        /\ Len(AfterWrite(k, st)) = Len(requests)
        /\ \A j \in 1..Len(requests) : AfterWrite(k, st)[j] = IF j = k THEN r ELSE requests[j]
    BY <1>3, <1>4, ExceptSeq
  <1> QED
    BY <1>3, <1>5

\* A request of the gateway that is made: Inject, and the read of ConfirmWrite.
LEMMA InjectTyped ==
    ASSUME Typed, NEW op \in Command, NEW val \in Value, NEW gen \in 0..MaxLocal,
           op = "write" => val \in Percent, Inject(op, val, gen)
    PROVE  /\ requests' \in Seq(Request) /\ pendingReads' \subseteq Key /\ InboxTyped'
           /\ \A k \in 1..Len(requests') :
                  requests'[k].op = "write" => requests'[k].val \in Percent
           /\ op = "read" => Commands' = Commands
           /\ op = "write" => Commands' = Commands \cup {gen}
  <1> DEFINE r == [op |-> op, val |-> val, gen |-> gen, st |-> "waiting"]
             key == KeyOf("gateway", Len(requests) + 1)
             q == [kind |-> op, val |-> val, key |-> key]
  <1>1. requests \in Seq(Request) /\ Len(requests) \in Nat
    BY DEF Typed, RequestsTyped
  <1>2. r \in Request /\ r.op = op /\ r.val = val /\ r.gen = gen
    BY DEF Request
  <1>3. key \in Key
    BY <1>1, KeyTypes
  <1>4. q \in Injected /\ q.kind = op /\ q.val = val
    BY <1>3 DEF Injected
  <1>5. /\ requests' = Append(requests, r)
        /\ pendingReads' = IF op = "read" THEN pendingReads \cup {key} ELSE pendingReads
        /\ inbox' = IF alive["inverter"] THEN Append(inbox, q) ELSE inbox
    BY DEF Inject
  <1> HIDE DEF r, key, q
  <1>6. /\ requests' \in Seq(Request) /\ Len(requests') = Len(requests) + 1
        /\ \A k \in 1..Len(requests) : requests'[k] = requests[k]
        /\ requests'[Len(requests) + 1] = r
        /\ \A k \in 1..Len(requests') : k \in 1..Len(requests) \/ k = Len(requests) + 1
    BY <1>1, <1>2, <1>5, OneMore
  <1>7. InboxTyped'
    <2>1. CASE inbox' = inbox
      BY <2>1 DEF Typed, InboxTyped
    <2>2. CASE inbox' = Append(inbox, q)
      BY <1>4, <2>2, OneMore DEF Typed, InboxTyped
    <2> QED  BY <1>5, <2>1, <2>2
  <1>8. \A k \in 1..Len(requests') :
            requests'[k].op = "write" => requests'[k].val \in Percent
    BY <1>2, <1>6 DEF Typed, RequestsTyped
  <1>9. op = "read" => Commands' = Commands
    BY <1>1, <1>2, <1>6, CommandsKept
  <1>10. op = "write" => Commands' = Commands \cup {gen}
    BY <1>1, <1>2, <1>5, CommandAdded
  <1> QED
    BY <1>3, <1>5, <1>6, <1>7, <1>8, <1>9, <1>10 DEF Typed, NotedTyped

LEMMA LocalWriteTyped ==
    ASSUME Typed, NEW v \in Percent, LocalWrite(v)
    PROVE  Typed'
  <1>1. Gen \in 0..MaxLocal /\ Commands = 1..Gen /\ Gen < MaxLocal
    BY GenCounts DEF Typed, LocalWrite
  <1>2. Gen + 1 \in 0..MaxLocal /\ 1..(Gen + 1) = Commands \cup {Gen + 1}
    BY <1>1, BoundAssumption
  <1>3. Inject("write", v, Gen + 1)
    BY DEF LocalWrite
  <1>4. v \in Value /\ "write" \in Command /\ "write" # "read"
    BY DEF Value, Command
  <1>5. /\ requests' \in Seq(Request) /\ pendingReads' \subseteq Key /\ InboxTyped'
        /\ \A k \in 1..Len(requests') :
               requests'[k].op = "write" => requests'[k].val \in Percent
        /\ Commands' = Commands \cup {Gen + 1}
    BY <1>2, <1>3, <1>4, InjectTyped
  <1>6. RequestsTyped'
    BY <1>2, <1>5 DEF RequestsTyped
  <1> QED
    BY <1>5, <1>6 DEF Typed, SessionTyped, UpTyped, DownTyped, NotedTyped, LocalWrite,
                      sessionVars, upVars, downVars

LEMMA SettleTyped ==
    ASSUME Typed, Settle
    PROVE  Typed'
  <1>1. /\ requests' \in Seq(Request) /\ pendingReads' \subseteq Key /\ InboxTyped'
        /\ \A k \in 1..Len(requests') :
               requests'[k].op = "write" => requests'[k].val \in Percent
        /\ Commands' = Commands
    <2>1. CASE UNCHANGED <<requests, pendingReads, inbox>>
      BY <2>1 DEF Typed, NotedTyped, InboxTyped, RequestsTyped, Commands, Writes
    <2>2. CASE Gen > 0 /\ Inject("write", requests[Newest].val, Gen)
      <3>1. /\ Gen \in 0..MaxLocal /\ Commands = 1..Gen
            /\ requests[Newest].val \in Percent
        BY <2>2, GenCounts DEF Typed
      <3>2. requests[Newest].val \in Value /\ "write" \in Command /\ "write" # "read"
        BY <3>1 DEF Value, Command
      <3>3. Commands \cup {Gen} = Commands
        BY <2>2, <3>1, BoundAssumption
      <3> QED  BY <2>2, <3>1, <3>2, <3>3, InjectTyped
    <2>3. CASE Inject("read", NoPercent, 0)
      <3>1. NoPercent \in Value /\ "read" \in Command /\ "write" # "read" /\ 0 \in 0..MaxLocal
        BY BoundAssumption DEF Value, Command
      <3> QED  BY <2>3, <3>1, InjectTyped
    <2> QED  BY <2>1, <2>2, <2>3 DEF Settle
  <1>2. RequestsTyped'
    BY <1>1 DEF Typed, RequestsTyped
  <1>3. /\ UNCHANGED <<phase, task, closed, listed, haState, alive, register, missed>>
        /\ UNCHANGED <<upSaid, downSaid, pendingWrites>> /\ settle' = "done"
    BY DEF Settle, upVars, downVars
  <1> QED
    BY <1>1, <1>2, <1>3 DEF Typed, SessionTyped, UpTyped, DownTyped, NotedTyped

LEMMA ConfirmWriteTyped ==
    ASSUME Typed, NEW k \in DOMAIN requests, ConfirmWrite(k)
    PROVE  Typed'
  <1> DEFINE key == KeyOf("gateway", Len(requests) + 1)
             r == [op |-> "read", val |-> requests[k].val, gen |-> 0, st |-> "waiting"]
             q == [kind |-> "read", val |-> requests[k].val, key |-> key]
             new == AfterWrite(k, "confirmed")
  <1>1. requests \in Seq(Request) /\ Len(requests) \in Nat /\ k \in 1..Len(requests)
        /\ requests[k].val \in Percent /\ requests[k].val \in Value
    BY DEF Typed, RequestsTyped, ConfirmWrite, Value
  <1>2. r \in Request /\ r.op = "read"
    BY <1>1, BoundAssumption DEF Request, Command
  <1>3. key \in Key
    BY <1>1, KeyTypes
  <1>4. q \in Injected /\ q.kind = "read"
    BY <1>1, <1>3 DEF Injected, Command
  <1>5. /\ new \in Seq(Request) /\ Len(new) = Len(requests)
        /\ \A j \in 1..Len(requests) : /\ new[j].op = requests[j].op
                                       /\ new[j].val = requests[j].val
                                       /\ new[j].gen = requests[j].gen
    BY <1>1, AfterWriteTyped
  <1>6. \/ requests' = new /\ UNCHANGED <<pendingReads, inbox>>
        \/ /\ requests' = Append(new, r) /\ pendingReads' = pendingReads \cup {key}
           /\ inbox' = inbox \/ inbox' = Append(inbox, q)
    BY DEF ConfirmWrite
  <1> HIDE DEF key, r, q, new
  <1>7. /\ requests' \in Seq(Request) /\ Len(requests) <= Len(requests')
        /\ \A j \in 1..Len(requests) : /\ requests'[j].op = requests[j].op
                                       /\ requests'[j].val = requests[j].val
                                       /\ requests'[j].gen = requests[j].gen
        /\ \A j \in 1..Len(requests') : j \in 1..Len(requests) \/ requests'[j].op = "read"
    <2>1. CASE requests' = new
      BY <1>1, <1>5, <2>1
    <2>2. CASE requests' = Append(new, r)
      <3>1. /\ Append(new, r) \in Seq(Request) /\ Len(Append(new, r)) = Len(requests) + 1
            /\ \A j \in 1..Len(requests) : Append(new, r)[j] = new[j]
            /\ Append(new, r)[Len(requests) + 1] = r
            /\ \A j \in 1..(Len(requests) + 1) : j \in 1..Len(requests) \/ j = Len(requests) + 1
        BY <1>1, <1>2, <1>5, OneMore
      <3> QED  BY <1>1, <1>2, <1>5, <2>2, <3>1
    <2> QED  BY <1>6, <2>1, <2>2
  <1>8. Commands' = Commands
    BY <1>1, <1>7, CommandsKept
  <1>9. \A j \in 1..Len(requests') :
            requests'[j].op = "write" => requests'[j].val \in Percent
    <2>1. SUFFICES ASSUME NEW j \in 1..Len(requests'), requests'[j].op = "write"
                   PROVE requests'[j].val \in Percent
      OBVIOUS
    <2>2. j \in 1..Len(requests)
      BY <1>7, <2>1
    <2> QED  BY <1>7, <2>1, <2>2 DEF Typed, RequestsTyped
  <1>10. RequestsTyped'
    BY <1>7, <1>8, <1>9 DEF Typed, RequestsTyped
  <1>11. InboxTyped'
    <2>1. CASE inbox' = inbox
      BY <2>1 DEF Typed, InboxTyped
    <2>2. CASE inbox' = Append(inbox, q)
      BY <1>4, <2>2, OneMore DEF Typed, InboxTyped
    <2> QED  BY <1>6, <2>1, <2>2
  <1>12. pendingReads' \subseteq Key
    BY <1>3, <1>6 DEF Typed, NotedTyped
  <1>13. haState' \in Value
    BY <1>1 DEF ConfirmWrite, Typed, SessionTyped
  <1>14. /\ UNCHANGED <<phase, task, closed, listed, settle, alive, register, missed>>
         /\ UNCHANGED <<upSaid, downSaid, pendingWrites>>
    BY DEF ConfirmWrite, sessionVars, upVars, downVars
  <1> QED
    BY <1>10, <1>11, <1>12, <1>13, <1>14
       DEF Typed, SessionTyped, UpTyped, DownTyped, NotedTyped

\* A request that is given up.
LEMMA AbandonTyped ==
    ASSUME Typed, NEW k \in DOMAIN requests, requests' = AfterWrite(k, "done")
    PROVE  RequestsTyped'
  <1>1. requests \in Seq(Request) /\ Len(requests) \in Nat /\ k \in 1..Len(requests)
    BY DEF Typed, RequestsTyped
  <1>2. /\ requests' \in Seq(Request) /\ Len(requests') = Len(requests)
        /\ \A j \in 1..Len(requests) : /\ requests'[j].op = requests[j].op
                                       /\ requests'[j].val = requests[j].val
                                       /\ requests'[j].gen = requests[j].gen
    <2>1. "done" \in {"waiting", "acked", "refused", "confirmed", "done"}
      OBVIOUS
    <2> DEFINE new == AfterWrite(k, "done")
    <2>2. /\ new \in Seq(Request) /\ Len(new) = Len(requests)
          /\ \A j \in 1..Len(requests) : /\ new[j].op = requests[j].op
                                         /\ new[j].val = requests[j].val
                                         /\ new[j].gen = requests[j].gen
      BY <1>1, <2>1, AfterWriteTyped
    <2>3. requests' = new
      OBVIOUS
    <2> HIDE DEF new
    <2> QED  BY <2>2, <2>3
  <1>3. Commands' = Commands
    BY <1>1, <1>2, CommandsKept
  <1> QED
    BY <1>2, <1>3 DEF Typed, RequestsTyped

LEMMA GiveUpTyped ==
    ASSUME Typed, NEW k \in DOMAIN requests, GiveUpWrite(k) \/ ReadbackTimeout(k)
    PROVE  Typed'
  <1>1. RequestsTyped'
    BY AbandonTyped DEF GiveUpWrite, ReadbackTimeout
  <1>2. pendingReads' \subseteq Key /\ missed' \in BOOLEAN
    BY DEF GiveUpWrite, ReadbackTimeout, Typed, NotedTyped, SessionTyped
  <1>3. UNCHANGED <<sessionVars, upVars, downVars, pendingWrites, haState, alive,
                    inbox, register>>
    BY DEF GiveUpWrite, ReadbackTimeout
  <1> QED
    BY <1>1, <1>2, <1>3 DEF Typed, SessionTyped, UpTyped, DownTyped, NotedTyped, InboxTyped,
                            sessionVars, upVars, downVars

\* What a step does not touch stays typed.
LEMMA KeptTyped ==
    ASSUME Typed
    PROVE  /\ upSaid' = upSaid => UpTyped'
           /\ downSaid' = downSaid => DownTyped'
           /\ UNCHANGED <<pendingReads, pendingWrites, downSaid>> => NotedTyped'
           /\ inbox' = inbox => InboxTyped'
           /\ requests' = requests => RequestsTyped'
  <1>1. upSaid' = upSaid => UpTyped'
    BY DEF Typed, UpTyped
  <1>2. downSaid' = downSaid => DownTyped'
    BY DEF Typed, DownTyped
  <1>3. UNCHANGED <<pendingReads, pendingWrites, downSaid>> => NotedTyped'
    BY DEF Typed, NotedTyped
  <1>4. inbox' = inbox => InboxTyped'
    BY DEF Typed, InboxTyped
  <1>5. requests' = requests => RequestsTyped'
    BY DEF Typed, RequestsTyped, Commands, Writes
  <1> QED
    BY <1>1, <1>2, <1>3, <1>4, <1>5

LEMMA StartTyped ==
    ASSUME Typed, ChooseUpstream \/ UpstreamFails \/ UpstreamConnects
    PROVE  Typed'
  <1>1. UNCHANGED <<closed, listed, settle, upSaid, downSaid, controlVars, inbox,
                    register, missed>>
    BY DEF ChooseUpstream, UpstreamFails, UpstreamConnects, upVars, downVars, peerVars
  <1>2. /\ phase' \in {"connecting", "local", "relay"}
        /\ task' \in [{"up", "down"} -> {"idle", "running", "ended", "failed"}]
        /\ alive' \in [Peer -> BOOLEAN]
    BY DEF ChooseUpstream, UpstreamFails, UpstreamConnects, peerVars, Typed, SessionTyped
  <1> QED
    BY <1>1, <1>2, KeptTyped DEF Typed, SessionTyped, controlVars

LEMMA EndTyped ==
    ASSUME Typed, Ends("up") \/ Ends("down") \/ Finish
    PROVE  Typed'
  <1>1. UNCHANGED <<settle, upSaid, downSaid, controlVars, peerVars>>
    BY DEF Ends, Finish, upVars, downVars
  <1>2. /\ phase' \in {phase, "over"} /\ listed' \in {listed, FALSE}
        /\ task' \in [{"up", "down"} -> {"idle", "running", "ended", "failed"}]
        /\ closed' \subseteq Peer
    BY DEF Ends, Finish, Over, Typed, SessionTyped, Peer
  <1> QED
    BY <1>1, <1>2, KeptTyped DEF Typed, SessionTyped, controlVars, peerVars

LEMMA LeavesTyped ==
    ASSUME Typed, NEW p \in Peer, Leaves(p)
    PROVE  Typed'
  <1>1. /\ UNCHANGED <<sessionVars, upSaid, downSaid, controlVars, register, missed>>
        /\ inbox' = inbox \/ inbox' = <<>>
    BY DEF Leaves, upVars, downVars
  <1>2. alive' \in [Peer -> BOOLEAN]
    BY DEF Leaves, Typed, SessionTyped
  <1>3. inbox' = <<>> => InboxTyped'
    BY DEF InboxTyped
  <1> QED
    BY <1>1, <1>2, <1>3, KeptTyped DEF Typed, SessionTyped, controlVars, sessionVars

LEMMA CloudSaysTyped ==
    ASSUME Typed, NEW kind \in CloudSends, NEW v \in Value, CloudSays(kind, v)
    PROVE  Typed'
  <1> DEFINE f == [kind |-> kind, val |-> v, key |-> KeyOf("cloud", Len(downSaid) + 1)]
  <1>1. downSaid \in Seq(DownFrame) /\ Len(downSaid) \in Nat /\ Len(downSaid) + 1 \in Nat
    BY DEF Typed, DownTyped
  <1>2. /\ f \in DownFrame /\ f.key = KeyOf("cloud", Len(downSaid) + 1)
        /\ f.kind = "write" => f.val \in Percent
    <2>1. KeyOf("cloud", Len(downSaid) + 1) \in Key /\ kind \in DownKind
      BY <1>1, KeyTypes, CloudAssumption DEF Peer
    <2>2. kind = "write" => v \in Percent
      BY DEF CloudSays, Value
    <2> QED  BY <2>1, <2>2 DEF DownFrame
  <1>3. downSaid' = Append(downSaid, f)
    BY DEF CloudSays
  <1> HIDE DEF f
  <1>4. /\ downSaid' \in Seq(DownFrame) /\ Len(downSaid') = Len(downSaid) + 1
        /\ \A i \in 1..Len(downSaid) : downSaid'[i] = downSaid[i]
        /\ downSaid'[Len(downSaid) + 1] = f
        /\ \A i \in 1..Len(downSaid') : i \in 1..Len(downSaid) \/ i = Len(downSaid) + 1
    <2>1. downSaid \in Seq(DownFrame) /\ f \in DownFrame
      BY <1>1, <1>2
    <2>2. Len(Append(downSaid, f)) = Len(downSaid) + 1
      BY <2>1, OneMore
    <2> QED  BY <1>3, <2>1, <2>2, OneMore
  <1>5. DownTyped'
    <2>1. SUFFICES ASSUME NEW i \in 1..Len(downSaid')
                   PROVE /\ downSaid'[i].key = KeyOf("cloud", i)
                         /\ downSaid'[i].kind = "write" => downSaid'[i].val \in Percent
      BY <1>4 DEF DownTyped
    <2>2. CASE i \in 1..Len(downSaid)
      BY <1>4, <2>2 DEF Typed, DownTyped
    <2>3. CASE i = Len(downSaid) + 1
      BY <1>2, <1>4, <2>3
    <2> QED  BY <1>4, <2>1, <2>2, <2>3
  <1>6. UNCHANGED <<sessionVars, upSaid, controlVars, peerVars>>
    BY DEF CloudSays, upVars
  <1>7. NotedTyped'
    BY <1>1, <1>4, <1>6 DEF Typed, NotedTyped, controlVars
  <1> QED
    BY <1>5, <1>6, <1>7, KeptTyped DEF Typed, SessionTyped, controlVars, sessionVars, peerVars

\* A frame the inverter sends.
LEMMA SaidTyped ==
    ASSUME Typed, NEW f \in UpFrame, upSaid' = Append(upSaid, f),
           f.kind = "read_value" => f.val \in Percent
    PROVE  UpTyped'
  <1>1. upSaid \in Seq(UpFrame) /\ Len(upSaid) \in Nat
    BY DEF Typed, UpTyped
  <1>2. /\ upSaid' \in Seq(UpFrame) /\ Len(upSaid') = Len(upSaid) + 1
        /\ \A i \in 1..Len(upSaid) : upSaid'[i] = upSaid[i]
        /\ upSaid'[Len(upSaid) + 1] = f
        /\ \A i \in 1..Len(upSaid') : i \in 1..Len(upSaid) \/ i = Len(upSaid) + 1
    <2>1. Len(Append(upSaid, f)) = Len(upSaid) + 1
      BY <1>1, OneMore
    <2> QED  BY <1>1, <2>1, OneMore
  <1>3. SUFFICES ASSUME NEW i \in 1..Len(upSaid'), upSaid'[i].kind = "read_value"
                 PROVE upSaid'[i].val \in Percent
    BY <1>2 DEF UpTyped
  <1>4. CASE i \in 1..Len(upSaid)
    BY <1>2, <1>3, <1>4 DEF Typed, UpTyped
  <1>5. CASE i = Len(upSaid) + 1
    BY <1>2, <1>3, <1>5
  <1> QED
    BY <1>2, <1>4, <1>5

LEMMA InverterTyped ==
    ASSUME Typed, InverterSays \/ InverterServes
    PROVE  Typed'
  <1>1. UNCHANGED <<sessionVars, downSaid, controlVars, alive, missed>>
    BY DEF InverterSays, InverterServes, downVars, peerVars
  <1>2. upSaid \in Seq(UpFrame)
    BY DEF Typed, UpTyped
  <1>3. CASE InverterSays
    <2> DEFINE told == {i \in DOMAIN upSaid : upSaid[i].kind \notin ReplyKind}
               next == Cardinality(told) + 1
               f == [kind |-> Announced[next], key |-> KeyOf("inverter", next),
                     val |-> NoPercent]
    <2>1. upSaid' = Append(upSaid, f) /\ next \in DOMAIN Announced
      BY <1>3 DEF InverterSays, Said
    <2>2. next \in 1..2
      BY <2>1 DEF Announced
    <2> HIDE DEF next
    <2>3. f \in UpFrame /\ f.kind # "read_value"
      BY <2>2, KeyTypes DEF UpFrame, Value, Peer, Announced
    <2>4. UpTyped'
      <3> HIDE DEF f
      <3> QED  BY <2>1, <2>3, SaidTyped
    <2>5. UNCHANGED <<inbox, register>>
      BY <1>3 DEF InverterSays, peerVars
    <2> QED
      BY <1>1, <2>4, <2>5, KeptTyped
         DEF Typed, SessionTyped, controlVars, sessionVars
  <1>4. CASE InverterServes
    <2> DEFINE q == Head(inbox)
    <2>1. /\ inbox \in Seq(Injected) /\ inbox # <<>> /\ inbox' = Tail(inbox)
      BY <1>4 DEF InverterServes, Typed, InboxTyped
    <2>2. /\ q \in Injected /\ q = inbox[1] /\ 1 \in 1..Len(inbox)
          /\ Tail(inbox) \in Seq(Injected)
          /\ \A i \in 1..Len(Tail(inbox)) : Tail(inbox)[i] = inbox[i + 1]
                                            /\ i + 1 \in 1..Len(inbox)
      BY <2>1, OneLess
    <2>3. q.key \in Key /\ (q.kind = "write" => q.val \in Percent)
      BY <2>2 DEF Injected, Typed, InboxTyped
    <2>4. /\ register' \in Percent
          /\ \E f \in UpFrame : /\ upSaid' = Append(upSaid, f)
                                /\ f.kind = "read_value" => f.val \in Percent
      <3> HIDE DEF q
      <3>1. /\ [kind |-> "read_value", key |-> q.key, val |-> register] \in UpFrame
            /\ [kind |-> "write_exception", key |-> q.key, val |-> NoPercent] \in UpFrame
            /\ q.kind = "write" =>
                   [kind |-> "write_ok", key |-> q.key, val |-> q.val] \in UpFrame
        BY <2>3 DEF UpFrame, ReplyKind, Value, Typed, SessionTyped
      <3>2. \/ q.kind = "write" /\ register' = q.val
               /\ upSaid' = Append(upSaid, [kind |-> "write_ok", key |-> q.key, val |-> q.val])
            \/ register' = register
               /\ upSaid' = Append(upSaid, [kind |-> "read_value", key |-> q.key,
                                            val |-> register])
            \/ register' = register
               /\ upSaid' = Append(upSaid, [kind |-> "write_exception", key |-> q.key,
                                            val |-> NoPercent])
        BY <1>4 DEF InverterServes, Said, q
      <3> QED  BY <2>3, <3>1, <3>2 DEF Typed, SessionTyped
    <2>5. UpTyped'
      BY <2>4, SaidTyped
    <2>6. InboxTyped'
      BY <2>1, <2>2 DEF Typed, InboxTyped
    <2> QED
      BY <1>1, <2>4, <2>5, <2>6, KeptTyped
         DEF Typed, SessionTyped, controlVars, sessionVars
  <1> QED
    BY <1>3, <1>4

\* What the handling of extracted frames does to the requests: one that waits is
\* settled if its answer is among them, and stays as it is otherwise.
LEMMA HandleUpRequests ==
    ASSUME Typed, NEW new \in SUBSET (1..Len(upSaid)), HandleUp(new)
    PROVE  /\ requests' \in Seq(Request) /\ Len(requests') = Len(requests)
           /\ \A k \in 1..Len(requests) :
                  /\ requests'[k].op = requests[k].op
                  /\ requests'[k].val = requests[k].val
                  /\ requests'[k].gen = requests[k].gen
                  /\ requests[k].st # "waiting" => requests'[k].st = requests[k].st
                  /\ requests[k].st = "waiting"
                     /\ (\A i \in new : upSaid[i].key = KeyOf("gateway", k)
                                            => upSaid[i].kind \notin ReplyKind)
                         => requests'[k].st = "waiting"
                  /\ requests[k].st = "waiting"
                     /\ (\E i \in new : upSaid[i].key = KeyOf("gateway", k)
                                            /\ upSaid[i].kind = "write_ok")
                         => requests'[k].st = "acked"
  <1> DEFINE Answer(k, kind) == \E i \in new : upSaid[i].kind = kind
                                               /\ upSaid[i].key = KeyOf("gateway", k)
             Settled(k) ==
               IF requests[k].st # "waiting" THEN requests[k].st
               ELSE IF Answer(k, "write_ok") THEN "acked"
               ELSE IF Answer(k, "write_exception") THEN "refused"
               ELSE IF Answer(k, "read_value") THEN "done"
               ELSE "waiting"
             r == [k \in 1..Len(requests) |-> [requests[k] EXCEPT !.st = Settled(k)]]
  <1>1. /\ requests \in Seq(Request) /\ Len(requests) \in Nat
        /\ DOMAIN requests = 1..Len(requests)
        /\ \A k \in 1..Len(requests) : requests[k] \in Request
    BY DEF Typed, RequestsTyped
  <1>2. requests' = r
    BY <1>1 DEF HandleUp
  <1>3. \A k \in 1..Len(requests) :
            Settled(k) \in {"waiting", "acked", "refused", "confirmed", "done"}
    <2>1. TAKE k \in 1..Len(requests)
    <2>2. requests[k].st \in {"waiting", "acked", "refused", "confirmed", "done"}
      BY <1>1 DEF Request
    <2> HIDE DEF Answer
    <2> QED  BY <2>2
  <1>4. \A k \in 1..Len(requests) : /\ r[k] \in Request
                                    /\ r[k].op = requests[k].op
                                    /\ r[k].val = requests[k].val
                                    /\ r[k].gen = requests[k].gen
                                    /\ r[k].st = Settled(k)
    <2>1. TAKE k \in 1..Len(requests)
    <2>2. requests[k] \in Request
      BY <1>1
    <2>3. Settled(k) \in {"waiting", "acked", "refused", "confirmed", "done"}
      BY <1>3
    <2>4. r[k] = [requests[k] EXCEPT !.st = Settled(k)]
      OBVIOUS
    <2> HIDE DEF Settled, r
    <2> QED  BY <2>2, <2>3, <2>4 DEF Request
  <1>5. r \in [1..Len(requests) -> Request]
    <2> HIDE DEF Settled
    <2>1. \A k \in 1..Len(requests) : [requests[k] EXCEPT !.st = Settled(k)] \in Request
      BY <1>4
    <2> QED  BY <2>1
  <1>6. r \in Seq(Request) /\ Len(r) = Len(requests)
    <2> HIDE DEF r
    <2> QED  BY <1>1, <1>5
  <1>7. ASSUME NEW k \in 1..Len(requests)
        PROVE  /\ requests[k].st # "waiting" => Settled(k) = requests[k].st
               /\ requests[k].st = "waiting"
                  /\ (\A i \in new : upSaid[i].key = KeyOf("gateway", k)
                                         => upSaid[i].kind \notin ReplyKind)
                      => Settled(k) = "waiting"
               /\ requests[k].st = "waiting"
                  /\ (\E i \in new : upSaid[i].key = KeyOf("gateway", k)
                                         /\ upSaid[i].kind = "write_ok")
                      => Settled(k) = "acked"
    <2>1. (\A i \in new : upSaid[i].key = KeyOf("gateway", k)
                              => upSaid[i].kind \notin ReplyKind)
          => ~Answer(k, "write_ok") /\ ~Answer(k, "write_exception") /\ ~Answer(k, "read_value")
      BY DEF ReplyKind
    <2>2. (\E i \in new : upSaid[i].key = KeyOf("gateway", k) /\ upSaid[i].kind = "write_ok")
          => Answer(k, "write_ok")
      OBVIOUS
    <2> HIDE DEF Answer
    <2>3. requests[k].st # "waiting" => Settled(k) = requests[k].st
      OBVIOUS
    <2>4. requests[k].st = "waiting" /\ Answer(k, "write_ok") => Settled(k) = "acked"
      OBVIOUS
    <2>5. requests[k].st = "waiting" /\ ~Answer(k, "write_ok")
          /\ ~Answer(k, "write_exception") /\ ~Answer(k, "read_value")
          => Settled(k) = "waiting"
      OBVIOUS
    <2> HIDE DEF Settled
    <2> QED  BY <2>1, <2>2, <2>3, <2>4, <2>5
  <1> HIDE DEF r, Settled
  <1> QED
    BY <1>2, <1>4, <1>6, <1>7

\* What it does to the rest.
LEMMA HandleUpRest ==
    ASSUME Typed, NEW new \in SUBSET (1..Len(upSaid)), HandleUp(new)
    PROVE  /\ listed' <=> (listed \/ \E i \in new : upSaid[i].kind = "registration")
           /\ settle' \in {settle, "due"}
           /\ settle' # settle => \E i \in new : upSaid[i].kind = "telemetry"
           /\ pendingWrites' \subseteq pendingWrites /\ pendingReads' \subseteq pendingReads
           /\ \A key \in pendingWrites \ pendingWrites' :
                  \E i \in new : upSaid[i].kind = "write_ok" /\ upSaid[i].key = key
           /\ \A key \in pendingReads \ pendingReads' :
                  \E i \in new : upSaid[i].kind = "read_value" /\ upSaid[i].key = key
           /\ \/ haState' = haState /\ \A i \in new : Shown(i) = NoPercent
              \/ \E i \in new : /\ Shown(i) # NoPercent /\ haState' = Shown(i)
                                /\ \A j \in new : Shown(j) # NoPercent => j <= i
  <1>1. listed \in BOOLEAN
    BY DEF Typed, SessionTyped
  <1>2. listed' <=> (listed \/ \E i \in new : upSaid[i].kind = "registration")
    BY <1>1 DEF HandleUp
  <1>3. /\ settle' \in {settle, "due"}
        /\ settle' # settle => \E i \in new : upSaid[i].kind = "telemetry"
    BY DEF HandleUp
  <1>4. /\ pendingWrites' \subseteq pendingWrites /\ pendingReads' \subseteq pendingReads
        /\ \A key \in pendingWrites \ pendingWrites' :
               \E i \in new : upSaid[i].kind = "write_ok" /\ upSaid[i].key = key
        /\ \A key \in pendingReads \ pendingReads' :
               \E i \in new : upSaid[i].kind = "read_value" /\ upSaid[i].key = key
    BY DEF HandleUp
  <1>5. \/ haState' = haState /\ \A i \in new : Shown(i) = NoPercent
        \/ \E i \in new : /\ Shown(i) # NoPercent /\ haState' = Shown(i)
                          /\ \A j \in new : Shown(j) # NoPercent => j <= i
    <2> DEFINE shown == {i \in new : Shown(i) # NoPercent}
    <2>1. \/ shown = {} /\ haState' = haState
          \/ \E i \in shown : (\A j \in shown : j <= i) /\ haState' = Shown(i)
      BY DEF HandleUp
    <2>2. CASE shown = {} /\ haState' = haState
      BY <2>2
    <2>3. CASE \E i \in shown : (\A j \in shown : j <= i) /\ haState' = Shown(i)
      BY <2>3
    <2> QED  BY <2>1, <2>2, <2>3
  <1> QED
    BY <1>2, <1>3, <1>4, <1>5

LEMMA ShownTyped ==
    ASSUME Typed, NEW i \in 1..Len(upSaid)
    PROVE  Shown(i) \in Value
  <1>1. upSaid[i] \in UpFrame
    BY DEF Typed, UpTyped
  <1>2. upSaid[i].val \in Value
    BY <1>1 DEF UpFrame
  <1>3. upSaid[i].key \in pendingWrites => downSaid[upSaid[i].key.n].val \in Value
    <2>1. \A n \in 1..Len(downSaid) : downSaid[n] \in DownFrame
      BY DEF Typed, DownTyped
    <2>2. \A n \in 1..Len(downSaid) : downSaid[n].val \in Value
      BY <2>1 DEF DownFrame
    <2> QED  BY <2>2 DEF Typed, NotedTyped
  <1> QED
    BY <1>2, <1>3 DEF Shown, Value

LEMMA UpReadTyped ==
    ASSUME Typed, NEW n \in 1..(3 * MaxUp), UpRead(n)
    PROVE  Typed'
  <1> DEFINE new == Up!Extracted(n)
  <1>1. HandleUp(new) /\ UNCHANGED <<phase, upSaid, downVars, peerVars>>
    BY DEF UpRead
  <1>2. new \in SUBSET (1..Len(upSaid))
    BY DEF Up!Extracted
  <1> HIDE DEF new
  <1>3. RequestsTyped'
    <2>1. /\ requests' \in Seq(Request) /\ Len(requests') = Len(requests)
          /\ \A k \in 1..Len(requests) : /\ requests'[k].op = requests[k].op
                                         /\ requests'[k].val = requests[k].val
                                         /\ requests'[k].gen = requests[k].gen
      BY <1>1, <1>2, HandleUpRequests
    <2>2. Commands' = Commands
      <3>1. requests \in Seq(Request) /\ Len(requests) \in Nat
        BY DEF Typed, RequestsTyped
      <3> QED  BY <2>1, <3>1, CommandsKept
    <2> QED  BY <2>1, <2>2 DEF Typed, RequestsTyped
  <1>4. /\ listed' <=> (listed \/ \E i \in new : upSaid[i].kind = "registration")
        /\ settle' \in {settle, "due"}
        /\ pendingWrites' \subseteq pendingWrites /\ pendingReads' \subseteq pendingReads
        /\ haState' = haState \/ \E i \in new : haState' = Shown(i)
    BY <1>1, <1>2, HandleUpRest
  <1>5. listed' \in BOOLEAN /\ haState' \in Value
    <2>1. listed' \in BOOLEAN
      BY <1>1 DEF HandleUp
    <2> QED  BY <1>2, <1>4, <2>1, ShownTyped DEF Typed, SessionTyped
  <1>6. NotedTyped'
    BY <1>1, <1>4 DEF Typed, NotedTyped, downVars
  <1>7. /\ task' \in [{"up", "down"} -> {"idle", "running", "ended", "failed"}]
        /\ closed' \subseteq Peer
    BY DEF UpRead, Over, Typed, SessionTyped, Peer
  <1> QED
    BY <1>1, <1>3, <1>4, <1>5, <1>6, <1>7, KeptTyped
       DEF Typed, SessionTyped, downVars, peerVars

\* The frames that are passed on come behind those in the inbox, each once.
LEMMA DeliverFacts ==
    ASSUME Typed, NEW frames \in SUBSET (1..Len(downSaid)), Deliver(frames),
           \A i \in frames : downSaid[i].kind \in Command
    PROVE  /\ InboxTyped'
           /\ Len(inbox) \in Nat /\ Len(inbox') \in Nat
           /\ \A a \in 1..Len(inbox) : a \in 1..Len(inbox') /\ inbox'[a] = inbox[a]
           /\ \A a \in 1..Len(inbox') : a \in 1..Len(inbox) \/ \E i \in frames : inbox'[a] = downSaid[i]
           /\ \A a, b \in 1..Len(inbox') :
                  a \notin 1..Len(inbox) /\ b \notin 1..Len(inbox) /\ inbox'[a].key = inbox'[b].key
                      => a = b
  <1>1. /\ inbox \in Seq(Injected) /\ Len(inbox) \in Nat
        /\ \A i \in frames : /\ downSaid[i] \in DownFrame /\ downSaid[i].key = KeyOf("cloud", i)
                             /\ downSaid[i].kind = "write" => downSaid[i].val \in Percent
                             /\ i \in Nat
    <2>1. inbox \in Seq(Injected) /\ downSaid \in Seq(DownFrame)
      BY DEF Typed, InboxTyped, DownTyped
    <2>2. \A i \in 1..Len(downSaid) : downSaid[i] \in DownFrame /\ i \in Nat
      BY <2>1
    <2>3. Len(inbox) \in Nat
      BY <2>1
    <2> QED  BY <2>1, <2>2, <2>3 DEF Typed, DownTyped
  <1>2. \A i \in frames : downSaid[i] \in Injected
    <2>1. TAKE i \in frames
    <2>2. downSaid[i] \in DownFrame /\ downSaid[i].kind \in Command
      BY <1>1
    <2> QED  BY <2>2 DEF DownFrame, Injected
  <1>3. Cardinality(frames) \in Nat
    <2>1. Len(downSaid) \in Nat
      BY DEF Typed, DownTyped
    <2>2. IsFiniteSet(1..Len(downSaid))
      BY <2>1, FS_Interval
    <2>3. IsFiniteSet(frames)
      BY <2>2, FS_Subset
    <2> QED  BY <2>3, FS_CardinalityType
  <1>4. PICK order \in [1..Cardinality(frames) -> frames] :
            /\ \A a, b \in DOMAIN order : a < b => order[a] < order[b]
            /\ inbox' = inbox \o [a \in DOMAIN order |-> downSaid[order[a]]]
    BY DEF Deliver
  <1> DEFINE c == Cardinality(frames)
             more == [a \in 1..c |-> downSaid[order[a]]]
  <1>5. c \in Nat /\ order \in [1..c -> frames] /\ inbox' = inbox \o more
        /\ \A a, b \in 1..c : a < b => order[a] < order[b]
    BY <1>3, <1>4
  <1>6. more \in Seq(Injected) /\ Len(more) = c
    <2>1. more \in [1..c -> Injected]
      BY <1>2, <1>5
    <2> HIDE DEF more, c
    <2> QED  BY <1>5, <2>1
  <1>7. \A a \in 1..c : more[a] = downSaid[order[a]] /\ order[a] \in frames
    BY <1>5
  <1> HIDE DEF more, c
  <1>8. /\ inbox' \in Seq(Injected) /\ Len(inbox') = Len(inbox) + c
        /\ \A a \in 1..(Len(inbox) + c) :
               inbox'[a] = IF a <= Len(inbox) THEN inbox[a] ELSE more[a - Len(inbox)]
    BY <1>1, <1>5, <1>6, ConcatProperties
  <1>9. \A a \in 1..Len(inbox) : a \in 1..Len(inbox') /\ inbox'[a] = inbox[a]
    BY <1>1, <1>5, <1>8
  <1>10. ASSUME NEW a \in 1..Len(inbox'), a \notin 1..Len(inbox)
         PROVE  /\ a - Len(inbox) \in 1..c
                /\ inbox'[a] = downSaid[order[a - Len(inbox)]]
                /\ order[a - Len(inbox)] \in frames
    <2>1. a - Len(inbox) \in 1..c /\ ~(a <= Len(inbox))
      BY <1>1, <1>5, <1>8, <1>10
    <2> QED  BY <1>7, <1>8, <1>10, <2>1
  <1>11. InboxTyped'
    <2>1. SUFFICES ASSUME NEW a \in 1..Len(inbox'), inbox'[a].kind = "write"
                   PROVE inbox'[a].val \in Percent
      BY <1>8 DEF InboxTyped
    <2>2. CASE a \in 1..Len(inbox)
      BY <1>9, <2>1, <2>2 DEF Typed, InboxTyped
    <2>3. CASE a \notin 1..Len(inbox)
      BY <1>1, <1>10, <2>1, <2>3
    <2> QED  BY <2>2, <2>3
  <1>12. ASSUME NEW a \in 1..Len(inbox'), NEW b \in 1..Len(inbox'),
                a \notin 1..Len(inbox), b \notin 1..Len(inbox), inbox'[a].key = inbox'[b].key
         PROVE  a = b
    <2> DEFINE i == order[a - Len(inbox)]
               j == order[b - Len(inbox)]
    <2>1. /\ a - Len(inbox) \in 1..c /\ b - Len(inbox) \in 1..c
          /\ inbox'[a] = downSaid[i] /\ inbox'[b] = downSaid[j]
          /\ i \in frames /\ j \in frames
      BY <1>10, <1>12
    <2>2. KeyOf("cloud", i) = KeyOf("cloud", j)
      BY <1>1, <1>12, <2>1
    <2>3. i = j
      BY <2>2 DEF KeyOf
    <2>4. i \in Nat /\ j \in Nat
      BY <1>1, <2>1
    <2>5. ~(a - Len(inbox) < b - Len(inbox)) /\ ~(b - Len(inbox) < a - Len(inbox))
      BY <1>5, <2>1, <2>3, <2>4
    <2> QED  BY <1>1, <1>8, <2>1, <2>5
  <1>13. \A a \in 1..Len(inbox') :
             a \in 1..Len(inbox) \/ \E i \in frames : inbox'[a] = downSaid[i]
    BY <1>10
  <1>14. Len(inbox') \in Nat
    BY <1>1, <1>5, <1>8
  <1> QED
    BY <1>1, <1>9, <1>11, <1>12, <1>13, <1>14

LEMMA DownReadTyped ==
    ASSUME Typed, NEW n \in 1..(3 * MaxDown), DownRead(n)
    PROVE  Typed'
  <1>1. UNCHANGED <<phase, listed, settle, upSaid, requests, haState, alive, register,
                    missed, downSaid>>
    BY DEF DownRead, upVars
  <1>2. \A i \in Down!Extracted(n) : i \in 1..Len(downSaid)
    BY DEF Down!Extracted
  <1>3. NotedTyped'
    <2>1. \A i \in 1..Len(downSaid) : /\ downSaid[i].key \in Key /\ downSaid[i].key.from = "cloud"
                                      /\ downSaid[i].key.n = i
      <3>1. \A i \in 1..Len(downSaid) : downSaid[i].key = KeyOf("cloud", i) /\ i \in Nat
        BY DEF Typed, DownTyped
      <3> QED  BY <3>1, KeyTypes DEF Peer
    <2>2. PICK new \in SUBSET (1..Len(downSaid)) : HandleDown(new)
      BY <1>2 DEF DownRead
    <2>3. \A key \in (pendingReads' \cup pendingWrites') \ (pendingReads \cup pendingWrites) :
              \E i \in 1..Len(downSaid) : key = downSaid[i].key
      BY <2>2 DEF HandleDown
    <2>4. pendingWrites' \subseteq pendingWrites \cup {downSaid[i].key : i \in 1..Len(downSaid)}
      BY <2>2 DEF HandleDown
    <2>5. pendingReads' \subseteq Key /\ pendingWrites' \subseteq Key
      BY <2>1, <2>3 DEF Typed, NotedTyped
    <2>6. \A key \in pendingWrites' : key.from = "cloud" /\ key.n \in 1..Len(downSaid)
      BY <2>1, <2>4 DEF Typed, NotedTyped
    <2> QED  BY <1>1, <2>5, <2>6 DEF NotedTyped
  <1>4. InboxTyped'
    <2>1. \/ inbox' = inbox
          \/ Deliver(Forwarded(n))
      BY DEF DownRead
    <2>2. Forwarded(n) \in SUBSET (1..Len(downSaid))
          /\ \A i \in Forwarded(n) : downSaid[i].kind \in Command
      BY DEF Forwarded, Typed, DownTyped
    <2> QED  BY <2>1, <2>2, DeliverFacts, KeptTyped
  <1>5. /\ task' \in [{"up", "down"} -> {"idle", "running", "ended", "failed"}]
        /\ closed' \subseteq Peer
    BY DEF DownRead, Over, Typed, SessionTyped, Peer
  <1> QED
    BY <1>1, <1>3, <1>4, <1>5, KeptTyped DEF Typed, SessionTyped

LEMMA InitTyped == Init => Typed
  <1> SUFFICES ASSUME Init PROVE Typed
    OBVIOUS
  <1>1. SessionTyped
    BY ValueAssumption DEF Init, SessionTyped, Value
  <1>2. UpTyped /\ DownTyped
    BY DEF Init, UpTyped, DownTyped
  <1>3. NotedTyped /\ InboxTyped
    BY DEF Init, NotedTyped, InboxTyped
  <1>4. RequestsTyped
    <2>1. Commands = 1..0 /\ 0 \in 0..MaxLocal
      BY BoundAssumption DEF Init, Commands, Writes
    <2> QED  BY <2>1 DEF Init, RequestsTyped
  <1> QED
    BY <1>1, <1>2, <1>3, <1>4 DEF Typed

LEMMA TypedStep ==
    ASSUME Typed, [Next]_vars
    PROVE  Typed'
  <1>1. CASE UNCHANGED vars
    BY <1>1, KeptTyped DEF vars, sessionVars, upVars, downVars, controlVars, peerVars,
                           Typed, SessionTyped
  <1>2. CASE Next
    BY <1>2, StartTyped, UpReadTyped, DownReadTyped, EndTyped, SettleTyped, LocalWriteTyped,
       ConfirmWriteTyped, GiveUpTyped, InverterTyped, CloudSaysTyped, LeavesTyped DEF Next
  <1> QED
    BY <1>1, <1>2

LEMMA TypedInvariant == Spec => []Typed
  <1>1. Typed /\ [Next]_vars => Typed'
    BY TypedStep
  <1> QED
    BY <1>1, InitTyped, PTL DEF Spec

\* The streams are typed wherever reads end.
LEMMA StreamsTyped == Spec => [](Up!TypeOK /\ Down!TypeOK)
<1>1. (UpProofs!Init /\ [][UpProofs!Next]_(UpProofs!vars)) => []UpProofs!TypeOK
  BY UpProofs!StreamTypes, PTL DEF UpProofs!Spec
<1>2. (DownProofs!Init /\ [][DownProofs!Next]_(DownProofs!vars)) => []DownProofs!TypeOK
  BY DownProofs!StreamTypes, PTL DEF DownProofs!Spec
<1>3. Conversations /\ [Next]_vars =>
        [UpProofs!Next]_(UpProofs!vars) /\ [DownProofs!Next]_(DownProofs!vars)
  BY StreamSteps
<1>4. Init => UpProofs!Init /\ DownProofs!Init
  BY InitStreams DEF Up!Init, Down!Init, UpProofs!Init, DownProofs!Init
<1>5. UpProofs!TypeOK /\ DownProofs!TypeOK => Up!TypeOK /\ Down!TypeOK
  BY DEF Up!TypeOK, UpProofs!TypeOK, Down!TypeOK, DownProofs!TypeOK
<1> QED  BY <1>1, <1>2, <1>3, <1>4, <1>5, ConversationsInvariant, PTL DEF Spec

\* Everything a session keeps is of its type, wherever reads end: what handle_frame
\* shows is a value of the register or none. The proof needs that the writes noted
\* in handle_upstream_frame are commands the cloud gave (NotedTyped), for it is
\* the value of such a command that an acknowledgement shows.
THEOREM SessionTypeCorrect == Spec => []TypeOK
<1>1. Typed /\ Up!TypeOK /\ Down!TypeOK => TypeOK
  BY DEF Typed, SessionTyped, UpTyped, DownTyped, NotedTyped, InboxTyped, RequestsTyped, TypeOK
<1> QED  BY <1>1, TypedInvariant, StreamsTyped, PTL

---------------------------------------------------------------------------
(* What holds of a relay whose two directions run and that missed no answer *)

\* Frames of the inverter the gateway has not extracted yet; answers among them.
Unread == {i \in 1..Len(upSaid) : upBase < 3 * i}
Replies == {i \in Unread : upSaid[i].kind \in ReplyKind}
OpOf(kind) == IF kind = "read_value" THEN "read" ELSE "write"

\* The keys of the commands that were given and not answered yet, and that the
\* gateway will know again.
Asked ==
    [op \in Command |->
        {KeyOf("gateway", k) : k \in {k \in 1..Len(requests) :
            /\ requests[k].op = op /\ requests[k].st = "waiting"
            /\ op = "read" => KeyOf("gateway", k) \in pendingReads}}
        \cup
        {KeyOf("cloud", n) : n \in {n \in 1..Len(downSaid) :
            /\ 3 * n <= downBase /\ downSaid[n].kind = op
            /\ op = "write" => KeyOf("cloud", n) \in pendingWrites}}]

AnswersExpected ==
    /\ \A i \in Replies : upSaid[i].key \in Asked[OpOf(upSaid[i].kind)]
    /\ \A a \in 1..Len(inbox) :
           /\ inbox[a].key \in Asked[inbox[a].kind]
           /\ inbox[a].kind = "write" /\ inbox[a].key.from = "cloud"
                  => inbox[a].val = downSaid[inbox[a].key.n].val

\* No command is on its way, or being answered, twice.
AnsweredOnce ==
    /\ \A i, j \in Replies : upSaid[i].key = upSaid[j].key => i = j
    /\ \A a, b \in 1..Len(inbox) : inbox[a].key = inbox[b].key => a = b
    /\ \A i \in Replies, a \in 1..Len(inbox) : upSaid[i].key # inbox[a].key

\* The inverter introduces itself before it sends telemetry.
Introduced ==
    \A i \in 1..Len(upSaid) : upSaid[i].kind \notin ReplyKind
        => \E j \in 1..i : upSaid[j].kind = "registration"

\* The serial is known from the registration on, and nothing is done before.
Known == \E j \in 1..Len(upSaid) : 3 * j <= upBase /\ upSaid[j].kind = "registration"
NothingBefore ==
    /\ listed <=> Known
    /\ ~listed => requests = <<>> /\ haState = NoPercent /\ settle = "no"

\* What an unread answer will show is the register's value, unless a write
\* succeeded after it.
Told(i) == IF upSaid[i].kind = "write_ok" THEN downSaid[upSaid[i].key.n].val
           ELSE upSaid[i].val
Tells(i) == \/ upSaid[i].kind = "read_value"
            \/ upSaid[i].kind = "write_ok" /\ upSaid[i].key.from = "cloud"
AnswersInOrder ==
    \A i \in Replies : Tells(i) =>
        \/ Told(i) = register
        \/ \E j \in Replies : i < j /\ upSaid[j].kind = "write_ok"

\* Something that will be shown is still to come.
Owed ==
    \/ \E i \in Replies : upSaid[i].kind = "write_ok"
    \/ \E k \in 1..Len(requests) :
           \/ requests[k].op = "write" /\ requests[k].st = "acked"
           \/ requests[k].op = "read" /\ requests[k].st = "waiting"
ShownIsTrue == haState \in {register, NoPercent} \/ Owed

Live == Reading("up") /\ Reading("down") /\ ~missed

Undisturbed ==
    /\ closed = {}
    /\ AnswersExpected /\ AnsweredOnce /\ NothingBefore
    /\ AnswersInOrder /\ ShownIsTrue

\* Nothing happens before the relay is up.
BeforeRelay ==
    phase \in {"accepted", "connecting", "local"} =>
        /\ closed = {} /\ ~listed /\ settle = "no"
        /\ task["up"] # "running" /\ task["down"] # "running"
        /\ upSaid = <<>> /\ downSaid = <<>> /\ inbox = <<>> /\ requests = <<>>
        /\ haState = NoPercent

SessionInv == Typed /\ BeforeRelay /\ Introduced /\ (Live => Undisturbed)
---------------------------------------------------------------------------
(* Both streams are at the start of a frame between two reads, so a read    *)
(* extracts the unread frames up to its end, in order and once.             *)

InStep == Up!TypeOK /\ Up!AtFrameStart /\ Down!TypeOK /\ Down!AtFrameStart

LEMMA StreamsInStep ==
    ASSUME ~SplitMarkers
    PROVE  Spec => []InStep
<1>1. (UpProofs!Init /\ [][UpProofs!Next]_(UpProofs!vars))
          => []UpProofs!TypeOK /\ []UpProofs!AtFrameStart
  BY UpProofs!StreamFaithful, PTL DEF UpProofs!Spec
<1>2. (DownProofs!Init /\ [][DownProofs!Next]_(DownProofs!vars))
          => []DownProofs!TypeOK /\ []DownProofs!AtFrameStart
  BY DownProofs!StreamFaithful, PTL DEF DownProofs!Spec
<1>3. Conversations /\ [Next]_vars =>
        [UpProofs!Next]_(UpProofs!vars) /\ [DownProofs!Next]_(DownProofs!vars)
  BY StreamSteps
<1>4. Init => UpProofs!Init /\ DownProofs!Init
  BY InitStreams DEF Up!Init, Down!Init, UpProofs!Init, DownProofs!Init
<1>5. UpProofs!TypeOK /\ UpProofs!AtFrameStart /\ DownProofs!TypeOK /\ DownProofs!AtFrameStart
          => InStep
  BY DEF InStep, Up!TypeOK, UpProofs!TypeOK, Down!TypeOK, DownProofs!TypeOK,
         Up!AtFrameStart, UpProofs!AtFrameStart, Down!AtFrameStart, DownProofs!AtFrameStart
<1> QED  BY <1>1, <1>2, <1>3, <1>4, <1>5, ConversationsInvariant, PTL DEF Spec

LEMMA UpReadExtracts ==
    ASSUME UpTyped, InStep, InStep', NEW n \in 1..(3 * MaxUp),
           upRead < n, upSaid' = upSaid, upRead' = n
    PROVE  /\ Up!Extracted(n) = Unread \ Unread'
           /\ Unread' \subseteq Unread
           /\ \A i \in 1..Len(upSaid) : 3 * i <= upBase' <=> (3 * i <= upBase \/ i \in Up!Extracted(n))
           /\ \A i, j \in 1..Len(upSaid) : i <= j /\ j \in Up!Extracted(n)
                  => 3 * i <= upBase'
  <1>1. Len(upSaid) \in Nat /\ upRead \in Nat /\ upBase \in Nat /\ upBase <= upRead /\ upBase' \in Nat
    BY DEF UpTyped, InStep, Up!TypeOK
  <1>2. PICK k \in Nat : upBase = 3 * k
    BY <1>1 DEF InStep, Up!AtFrameStart
  <1>3. PICK m \in Nat : upBase' = 3 * m /\ upBase' \in {n, n - 2}
    BY <1>1 DEF InStep, Up!AtFrameStart
  <1>4. k <= m
    BY <1>1, <1>2, <1>3
  <1>5. \A i \in 1..Len(upSaid) : i \in Nat
    BY <1>1
  <1>6. \A i \in 1..Len(upSaid) : i \in Up!Extracted(n) <=> (k < i /\ i <= m)
    BY <1>1, <1>2, <1>3, <1>5 DEF Up!Extracted
  <1>7. \A i \in 1..Len(upSaid) : /\ i \in Unread <=> k < i
                                  /\ i \in Unread' <=> m < i
                                  /\ 3 * i <= upBase <=> i <= k
                                  /\ 3 * i <= upBase' <=> i <= m
    BY <1>1, <1>2, <1>3, <1>5 DEF Unread
  <1>8. /\ Up!Extracted(n) \subseteq 1..Len(upSaid) /\ Unread \subseteq 1..Len(upSaid)
        /\ Unread' \subseteq 1..Len(upSaid)
    BY DEF Up!Extracted, Unread
  <1>9. \A i \in 1..Len(upSaid) : /\ i \in Up!Extracted(n) <=> (i \in Unread /\ i \notin Unread')
                                  /\ i \in Unread' => i \in Unread
                                  /\ i \in Up!Extracted(n) => 3 * i <= upBase'
                                  /\ 3 * i <= upBase' <=> (3 * i <= upBase \/ i \in Up!Extracted(n))
    BY <1>1, <1>4, <1>5, <1>6, <1>7
  <1>10. Up!Extracted(n) = Unread \ Unread' /\ Unread' \subseteq Unread
    BY <1>8, <1>9
  <1>11. \A i, j \in 1..Len(upSaid) : i <= j /\ j \in Up!Extracted(n) => 3 * i <= upBase'
    BY <1>1, <1>5, <1>9
  <1> HIDE DEF Up!Extracted
  <1> QED
    BY <1>9, <1>10, <1>11

LEMMA DownReadExtracts ==
    ASSUME DownTyped, InStep, InStep', NEW n \in 1..(3 * MaxDown),
           downRead < n, downSaid' = downSaid, downRead' = n
    PROVE  /\ downBase <= downBase' /\ downBase \in Nat /\ downBase' \in Nat
           /\ \A i \in 1..Len(downSaid) :
                  i \in Down!Extracted(n) <=> (downBase < 3 * i /\ 3 * i <= n)
           /\ \A i \in 1..Len(downSaid) : 3 * i <= n => 3 * i <= downBase'
  <1>1. /\ Len(downSaid) \in Nat /\ downRead \in Nat /\ downBase \in Nat
        /\ downBase <= downRead /\ downBase' \in Nat
    BY DEF DownTyped, InStep, Down!TypeOK
  <1>2. PICK k \in Nat : downBase = 3 * k
    BY <1>1 DEF InStep, Down!AtFrameStart
  <1>3. PICK m \in Nat : downBase' = 3 * m /\ downBase' \in {n, n - 2}
    BY <1>1 DEF InStep, Down!AtFrameStart
  <1>4. \A i \in 1..Len(downSaid) : i \in Nat
    BY <1>1
  <1> QED
    BY <1>1, <1>2, <1>3, <1>4 DEF Down!Extracted

---------------------------------------------------------------------------
(* Steps that leave the stream from the inverter alone *)

\* Where an expected answer stays expected.
Grows ==
    /\ \A k \in 1..Len(requests) :
           /\ k \in 1..Len(requests') /\ requests'[k].op = requests[k].op
           /\ requests[k].st = "waiting" => requests'[k].st = "waiting"
    /\ pendingReads \subseteq pendingReads' /\ pendingWrites \subseteq pendingWrites'
    /\ \A n \in 1..Len(downSaid) : n \in 1..Len(downSaid') /\ downSaid'[n] = downSaid[n]
    /\ \A n \in 1..Len(downSaid) : 3 * n <= downBase => 3 * n <= downBase'

LEMMA AskedKeys ==
    ASSUME NEW op \in Command, NEW key \in Asked[op]
    PROVE  /\ key = KeyOf(key.from, key.n) /\ key.from \in {"gateway", "cloud"}
           /\ key.from = "gateway" =>
                  /\ key.n \in 1..Len(requests)
                  /\ requests[key.n].op = op /\ requests[key.n].st = "waiting"
                  /\ op = "read" => key \in pendingReads
           /\ key.from = "cloud" =>
                  /\ key.n \in 1..Len(downSaid) /\ 3 * key.n <= downBase
                  /\ downSaid[key.n].kind = op
                  /\ op = "write" => key \in pendingWrites
  <1>1. key \in {KeyOf("gateway", k) : k \in {k \in 1..Len(requests) :
                    /\ requests[k].op = op /\ requests[k].st = "waiting"
                    /\ op = "read" => KeyOf("gateway", k) \in pendingReads}}
        \/ key \in {KeyOf("cloud", n) : n \in {n \in 1..Len(downSaid) :
                    /\ 3 * n <= downBase /\ downSaid[n].kind = op
                    /\ op = "write" => KeyOf("cloud", n) \in pendingWrites}}
    BY DEF Asked
  <1>2. \A from, n : KeyOf(from, n).from = from /\ KeyOf(from, n).n = n
    BY DEF KeyOf
  <1> QED
    BY <1>1, <1>2

LEMMA AskedStays ==
    ASSUME Grows, NEW op \in Command
    PROVE  Asked[op] \subseteq Asked'[op]
  BY DEF Grows, Asked

LEMMA OpOfCommand == \A kind : OpOf(kind) \in Command
  BY DEF OpOf, Command

LEMMA RepliesStay ==
    ASSUME UNCHANGED upVars
    PROVE  /\ Unread' = Unread /\ Replies' = Replies
           /\ Known' <=> Known
  BY DEF upVars, Unread, Replies, Known

LEMMA InboxKinds ==
    ASSUME Typed
    PROVE  \A a \in 1..Len(inbox) : inbox[a].kind \in Command /\ inbox[a].key \in Key
  <1>1. \A a \in 1..Len(inbox) : inbox[a] \in Injected
    BY DEF Typed, InboxTyped
  <1> QED
    BY <1>1 DEF Injected

\* One more request of the gateway's does not disturb the answers to others:
\* its key has a number none of them has.
LEMMA AskedOnce ==
    ASSUME Typed, Typed', AnswersExpected, AnsweredOnce, Grows, UNCHANGED upVars,
           NEW op \in Command, NEW val \in Value,
           Len(requests') = Len(requests) + 1,
           requests'[Len(requests) + 1].op = op, requests'[Len(requests) + 1].st = "waiting",
           op = "read" => KeyOf("gateway", Len(requests) + 1) \in pendingReads',
           \/ inbox' = inbox
           \/ inbox' = Append(inbox, [kind |-> op, val |-> val,
                                      key |-> KeyOf("gateway", Len(requests) + 1)])
    PROVE  AnswersExpected' /\ AnsweredOnce'
  <1> DEFINE key == KeyOf("gateway", Len(requests) + 1)
             q == [kind |-> op, val |-> val, key |-> key]
  <1>1. Replies' = Replies /\ upSaid' = upSaid /\ Replies \subseteq 1..Len(upSaid)
    BY RepliesStay DEF upVars, Replies, Unread
  <1>2. Len(requests) \in Nat /\ Len(requests') \in Nat /\ inbox \in Seq(Injected)
    BY DEF Typed, RequestsTyped, InboxTyped
  <1>3. key.from = "gateway" /\ key.n = Len(requests) + 1 /\ key \in Key
    BY <1>2, KeyTypes
  <1>4. q.kind = op /\ q.key = key /\ q \in Injected
    BY <1>3 DEF Injected
  <1>5. inbox' = inbox \/ inbox' = Append(inbox, q)
    OBVIOUS
  <1>6. key \in Asked'[op]
    <2>1. Len(requests) + 1 \in 1..Len(requests')
      BY <1>2
    <2> QED  BY <2>1 DEF Asked
  <1>7. \A o \in Command : Asked[o] \subseteq Asked'[o]
    BY AskedStays
  <1>8. \A o \in Command : \A k \in Asked[o] : k # key
    <2> TAKE o \in Command
    <2>1. TAKE k \in Asked[o]
    <2>2. k.from = "cloud" \/ (k.from = "gateway" /\ k.n \in 1..Len(requests))
      BY AskedKeys
    <2>3. key.n \notin 1..Len(requests)
      BY <1>2, <1>3
    <2> HIDE DEF key
    <2> QED  BY <1>3, <2>2, <2>3
  <1>0. \A a \in 1..Len(inbox) : inbox[a].kind \in Command
    BY InboxKinds
  <1> HIDE DEF q, key
  <1>9. /\ \A a \in 1..Len(inbox) : a \in 1..Len(inbox') /\ inbox'[a] = inbox[a]
        /\ \A a \in 1..Len(inbox') : a \in 1..Len(inbox)
                                     \/ (a = Len(inbox) + 1 /\ inbox'[a] = q)
    <2>1. CASE inbox' = inbox
      BY <2>1
    <2>2. CASE inbox' = Append(inbox, q)
      <3>1. Len(Append(inbox, q)) = Len(inbox) + 1
        BY <1>2, <1>4, OneMore
      <3> QED  BY <1>2, <1>4, <2>2, <3>1, OneMore
    <2> QED  BY <1>5, <2>1, <2>2
  <1>10. AnswersExpected'
    <2>1. \A i \in Replies' : upSaid'[i].key \in Asked'[OpOf(upSaid'[i].kind)]
      BY <1>1, <1>7, OpOfCommand DEF AnswersExpected
    <2>2. ASSUME NEW a \in 1..Len(inbox')
          PROVE  /\ inbox'[a].key \in Asked'[inbox'[a].kind]
                 /\ inbox'[a].kind = "write" /\ inbox'[a].key.from = "cloud"
                        => inbox'[a].val = downSaid'[inbox'[a].key.n].val
      <3>1. CASE a \in 1..Len(inbox)
        <4>1. /\ inbox[a].key \in Asked[inbox[a].kind] /\ inbox[a].kind \in Command
              /\ inbox[a].kind = "write" /\ inbox[a].key.from = "cloud"
                     => inbox[a].val = downSaid[inbox[a].key.n].val
          BY <1>0, <3>1 DEF AnswersExpected
        <4>2. inbox[a].key.from = "cloud" => inbox[a].key.n \in 1..Len(downSaid)
          BY <4>1, AskedKeys
        <4>3. inbox[a].key.from = "cloud" =>
                  downSaid'[inbox[a].key.n] = downSaid[inbox[a].key.n]
          BY <4>2 DEF Grows
        <4> QED  BY <1>7, <1>9, <3>1, <4>1, <4>3
      <3>2. CASE inbox'[a] = q
        BY <1>3, <1>4, <1>6, <3>2
      <3> QED  BY <1>9, <3>1, <3>2
    <2> QED  BY <2>1, <2>2 DEF AnswersExpected
  <1>11. AnsweredOnce'
    <2>1. \A i \in Replies : upSaid[i].key # key
      BY <1>8, OpOfCommand DEF AnswersExpected
    <2>2. \A a \in 1..Len(inbox) : inbox[a].key # key
      BY <1>0, <1>8 DEF AnswersExpected
    <2>3. \A a, b \in 1..Len(inbox') : inbox'[a].key = inbox'[b].key => a = b
      BY <1>4, <1>9, <2>2 DEF AnsweredOnce
    <2>4. \A i \in Replies, a \in 1..Len(inbox') : upSaid[i].key # inbox'[a].key
      BY <1>4, <1>9, <2>1 DEF AnsweredOnce
    <2> QED  BY <1>1, <2>3, <2>4 DEF AnsweredOnce
  <1> QED
    BY <1>10, <1>11

LEMMA OrderStays ==
    ASSUME AnswersInOrder, UNCHANGED <<upVars, downVars, register>>
    PROVE  AnswersInOrder'
  <1>1. Replies' = Replies /\ upSaid' = upSaid /\ downSaid' = downSaid /\ register' = register
    BY RepliesStay DEF upVars, downVars
  <1> QED
    BY <1>1 DEF AnswersInOrder, Tells, Told

\* What is owed stays owed while no answer is handled and no acknowledged write
\* taken up.
LEMMA OwedStays ==
    ASSUME UNCHANGED upVars, Owed,
           \A k \in 1..Len(requests) :
               /\ k \in 1..Len(requests') /\ requests'[k].op = requests[k].op
               /\ requests[k].st \in {"waiting", "acked"} => requests'[k].st = requests[k].st
    PROVE  Owed'
  <1>1. Replies' = Replies /\ upSaid' = upSaid
    BY RepliesStay DEF upVars
  <1> QED
    BY <1>1 DEF Owed

\* A request is made: the parts it could disturb are the answers to come and
\* what the state topic shows.
LEMMA AskedUndisturbed ==
    ASSUME Typed, Typed', Undisturbed, listed, Grows, ShownIsTrue',
           UNCHANGED <<closed, listed, upVars, downVars, register>>,
           NEW op \in Command, NEW val \in Value,
           Len(requests') = Len(requests) + 1,
           requests'[Len(requests) + 1].op = op, requests'[Len(requests) + 1].st = "waiting",
           op = "read" => KeyOf("gateway", Len(requests) + 1) \in pendingReads',
           \/ inbox' = inbox
           \/ inbox' = Append(inbox, [kind |-> op, val |-> val,
                                      key |-> KeyOf("gateway", Len(requests) + 1)])
    PROVE  Undisturbed'
  <1>1. AnswersExpected' /\ AnsweredOnce'
    BY AskedOnce DEF Undisturbed
  <1>2. NothingBefore'
    BY RepliesStay DEF Undisturbed, NothingBefore
  <1>3. AnswersInOrder'
    BY OrderStays DEF Undisturbed
  <1> QED
    BY <1>1, <1>2, <1>3 DEF Undisturbed

\* Inject, as these lemmas see it.
LEMMA InjectAsks ==
    ASSUME Typed, NEW op \in Command, NEW val \in Value, NEW gen \in 0..MaxLocal,
           Inject(op, val, gen), UNCHANGED <<pendingWrites, downVars>>
    PROVE  /\ Grows
           /\ \A k \in 1..Len(requests) : k \in 1..Len(requests') /\ requests'[k] = requests[k]
           /\ Len(requests') = Len(requests) + 1
           /\ Len(requests) + 1 \in 1..Len(requests')
           /\ requests'[Len(requests) + 1].op = op
           /\ requests'[Len(requests) + 1].st = "waiting"
           /\ op = "read" => KeyOf("gateway", Len(requests) + 1) \in pendingReads'
           /\ \/ inbox' = inbox
              \/ inbox' = Append(inbox, [kind |-> op, val |-> val,
                                         key |-> KeyOf("gateway", Len(requests) + 1)])
  <1> DEFINE r == [op |-> op, val |-> val, gen |-> gen, st |-> "waiting"]
  <1>1. requests \in Seq(Request) /\ Len(requests) \in Nat
    BY DEF Typed, RequestsTyped
  <1>2. r \in Request /\ r.op = op /\ r.st = "waiting"
    BY DEF Request
  <1>3. requests' = Append(requests, r)
    BY DEF Inject
  <1> HIDE DEF r
  <1>4. /\ Len(requests') = Len(requests) + 1
        /\ \A k \in 1..Len(requests) : k \in 1..Len(requests') /\ requests'[k] = requests[k]
        /\ requests'[Len(requests) + 1] = r
    BY <1>1, <1>2, <1>3, OneMore
  <1>5. pendingReads \subseteq pendingReads'
        /\ (op = "read" => KeyOf("gateway", Len(requests) + 1) \in pendingReads')
    BY DEF Inject
  <1>6. Grows
    BY <1>4, <1>5 DEF Grows, downVars
  <1>7. \/ inbox' = inbox
        \/ inbox' = Append(inbox, [kind |-> op, val |-> val,
                                   key |-> KeyOf("gateway", Len(requests) + 1)])
    BY DEF Inject
  <1>8. Len(requests) + 1 \in 1..Len(requests')
    BY <1>1, <1>4
  <1> QED
    BY <1>2, <1>4, <1>5, <1>6, <1>7, <1>8

LEMMA InjectUndisturbed ==
    ASSUME Typed, Typed', Undisturbed, listed,
           NEW op \in Command, NEW val \in Value, NEW gen \in 0..MaxLocal,
           Inject(op, val, gen),
           UNCHANGED <<closed, listed, upVars, downVars, pendingWrites, register, haState>>
    PROVE  Undisturbed'
  <1>1. UNCHANGED <<pendingWrites, downVars>>
    OBVIOUS
  <1>2. /\ Grows
        /\ \A k \in 1..Len(requests) : k \in 1..Len(requests') /\ requests'[k] = requests[k]
        /\ Len(requests') = Len(requests) + 1
        /\ requests'[Len(requests) + 1].op = op
        /\ requests'[Len(requests) + 1].st = "waiting"
        /\ op = "read" => KeyOf("gateway", Len(requests) + 1) \in pendingReads'
        /\ \/ inbox' = inbox
           \/ inbox' = Append(inbox, [kind |-> op, val |-> val,
                                      key |-> KeyOf("gateway", Len(requests) + 1)])
    BY <1>1, InjectAsks
  <1>3. ShownIsTrue'
    BY <1>2, OwedStays DEF Undisturbed, ShownIsTrue
  <1> QED
    BY <1>2, <1>3, AskedUndisturbed

LEMMA LocalWriteUndisturbed ==
    ASSUME Typed, Typed', Undisturbed, NEW v \in Percent, LocalWrite(v)
    PROVE  Undisturbed'
  <1>1. Gen + 1 \in 0..MaxLocal
    BY GenCounts, BoundAssumption DEF Typed, LocalWrite
  <1>2. v \in Value /\ "write" \in Command
    BY DEF Value, Command
  <1>3. /\ Inject("write", v, Gen + 1) /\ listed
        /\ UNCHANGED <<closed, listed, upVars, downVars, pendingWrites, register, haState>>
    BY DEF LocalWrite, sessionVars
  <1> QED
    BY <1>1, <1>2, <1>3, InjectUndisturbed

LEMMA SettleUndisturbed ==
    ASSUME Typed, Typed', Undisturbed, Settle
    PROVE  Undisturbed'
  <1>1. /\ UNCHANGED <<closed, listed, upVars, downVars, pendingWrites, register, haState>>
        /\ InverterOpen /\ listed
    BY DEF Settle, Undisturbed, NothingBefore, InverterOpen
  <1>2. CASE Gen > 0 /\ Inject("write", requests[Newest].val, Gen)
    <2>1. Gen \in 0..MaxLocal /\ requests[Newest].val \in Value /\ "write" \in Command
      BY <1>2, GenCounts DEF Typed, Value, Command
    <2> QED  BY <1>1, <1>2, <2>1, InjectUndisturbed
  <1>3. CASE Inject("read", NoPercent, 0)
    <2>1. 0 \in 0..MaxLocal /\ NoPercent \in Value /\ "read" \in Command
      BY BoundAssumption DEF Value, Command
    <2> QED  BY <1>1, <1>3, <2>1, InjectUndisturbed
  <1> QED
    BY <1>1, <1>2, <1>3 DEF Settle

\* What the state topic showed before an acknowledged write is taken up does not
\* matter: the register is read back.
LEMMA ConfirmUndisturbed ==
    ASSUME Typed, Typed', Undisturbed, NEW k \in DOMAIN requests, ConfirmWrite(k)
    PROVE  Undisturbed'
  <1> DEFINE r == [op |-> "read", val |-> requests[k].val, gen |-> 0, st |-> "waiting"]
             new == AfterWrite(k, "confirmed")
  <1>1. requests \in Seq(Request) /\ Len(requests) \in Nat /\ k \in 1..Len(requests)
        /\ requests[k].val \in Percent /\ requests[k].val \in Value /\ requests[k].st = "acked"
    BY DEF Typed, RequestsTyped, ConfirmWrite, Value
  <1>2. r \in Request /\ r.op = "read" /\ r.st = "waiting"
    BY <1>1, BoundAssumption DEF Request, Command
  <1>3. /\ new \in Seq(Request) /\ Len(new) = Len(requests)
        /\ \A j \in 1..Len(requests) : /\ new[j].op = requests[j].op
                                       /\ new[j].st = IF j = k THEN "confirmed" ELSE requests[j].st
    <2>1. "confirmed" \in {"waiting", "acked", "refused", "confirmed", "done"}
      OBVIOUS
    <2> QED  BY <1>1, <2>1, AfterWriteTyped
  <1>4. /\ requests' = Append(new, r)
        /\ pendingReads' = pendingReads \cup {KeyOf("gateway", Len(requests) + 1)}
        /\ \/ inbox' = inbox
           \/ inbox' = Append(inbox, [kind |-> "read", val |-> requests[k].val,
                                      key |-> KeyOf("gateway", Len(requests) + 1)])
    BY DEF ConfirmWrite, InverterOpen, Undisturbed
  <1>5. /\ UNCHANGED <<closed, listed, upVars, downVars, register, pendingWrites>>
        /\ listed /\ "read" \in Command
    <2>1. requests # <<>>
      BY <1>1
    <2> QED  BY <2>1 DEF ConfirmWrite, sessionVars, Undisturbed, NothingBefore, Command
  <1> HIDE DEF new, r
  <1>6. /\ Len(requests') = Len(requests) + 1
        /\ \A j \in 1..Len(requests) : j \in 1..Len(requests') /\ requests'[j] = new[j]
        /\ requests'[Len(requests) + 1] = r /\ Len(requests) + 1 \in 1..Len(requests')
    <2>1. Len(Append(new, r)) = Len(requests) + 1
      BY <1>2, <1>3, OneMore
    <2>2. Len(requests) + 1 \in 1..Len(requests')
      BY <1>1, <1>4, <2>1
    <2> QED  BY <1>2, <1>3, <1>4, <2>1, <2>2, OneMore
  <1>7. Grows
    <2>1. \A j \in 1..Len(requests) :
              /\ j \in 1..Len(requests') /\ requests'[j].op = requests[j].op
              /\ requests[j].st = "waiting" => requests'[j].st = "waiting"
      BY <1>1, <1>3, <1>6
    <2> QED  BY <1>4, <1>5, <2>1 DEF Grows, downVars
  <1>8. ShownIsTrue'
    BY <1>2, <1>6 DEF ShownIsTrue, Owed
  <1>9. KeyOf("gateway", Len(requests) + 1) \in pendingReads'
    BY <1>4
  <1> QED
    BY <1>1, <1>2, <1>4, <1>5, <1>6, <1>7, <1>8, <1>9, AskedUndisturbed

\* Steps of one party that leave the other streams, the requests and the state
\* topic alone, but may lose what the inverter has not served.
LEMMA AnswersStay ==
    ASSUME Typed, Typed', AnswersExpected, AnsweredOnce, Grows, UNCHANGED upVars,
           inbox' = inbox \/ inbox' = <<>>
    PROVE  AnswersExpected' /\ AnsweredOnce'
  <1>1. Replies' = Replies /\ upSaid' = upSaid
    BY RepliesStay DEF upVars
  <1>2. \A o \in Command : Asked[o] \subseteq Asked'[o]
    BY AskedStays
  <1>3. \A a \in 1..Len(inbox') : a \in 1..Len(inbox) /\ inbox'[a] = inbox[a]
    OBVIOUS
  <1>4. AnswersExpected'
    <2>1. \A i \in Replies' : upSaid'[i].key \in Asked'[OpOf(upSaid'[i].kind)]
      BY <1>1, <1>2, OpOfCommand DEF AnswersExpected
    <2>2. ASSUME NEW a \in 1..Len(inbox)
          PROVE  /\ inbox[a].key \in Asked'[inbox[a].kind]
                 /\ inbox[a].kind = "write" /\ inbox[a].key.from = "cloud"
                        => inbox[a].val = downSaid'[inbox[a].key.n].val
      <3>1. /\ inbox[a].key \in Asked[inbox[a].kind] /\ inbox[a].kind \in Command
            /\ inbox[a].kind = "write" /\ inbox[a].key.from = "cloud"
                   => inbox[a].val = downSaid[inbox[a].key.n].val
        BY InboxKinds DEF AnswersExpected
      <3>2. inbox[a].key.from = "cloud" => inbox[a].key.n \in 1..Len(downSaid)
        BY <3>1, AskedKeys
      <3>3. inbox[a].key.from = "cloud" =>
                downSaid'[inbox[a].key.n] = downSaid[inbox[a].key.n]
        BY <3>2 DEF Grows
      <3> QED  BY <1>2, <3>1, <3>3
    <2> QED  BY <1>3, <2>1, <2>2 DEF AnswersExpected
  <1>5. AnsweredOnce'
    BY <1>1, <1>3 DEF AnsweredOnce
  <1> QED
    BY <1>4, <1>5

\* Giving up a write that was refused.
LEMMA GiveUpUndisturbed ==
    ASSUME Typed, Typed', Undisturbed, ~missed', NEW k \in DOMAIN requests,
           GiveUpWrite(k) \/ ReadbackTimeout(k)
    PROVE  Undisturbed'
  <1>1. GiveUpWrite(k) /\ requests[k].st = "refused"
    BY DEF GiveUpWrite, ReadbackTimeout
  <1>2. requests \in Seq(Request) /\ k \in 1..Len(requests) /\ Len(requests) \in Nat
    BY DEF Typed, RequestsTyped
  <1>3. /\ Len(requests') = Len(requests)
        /\ \A j \in 1..Len(requests) :
               /\ j \in 1..Len(requests') /\ requests'[j].op = requests[j].op
               /\ requests[j].st \in {"waiting", "acked"} => requests'[j].st = requests[j].st
    <2> DEFINE new == AfterWrite(k, "done")
    <2>1. "done" \in {"waiting", "acked", "refused", "confirmed", "done"}
      OBVIOUS
    <2>2. /\ Len(new) = Len(requests)
          /\ \A j \in 1..Len(requests) : /\ new[j].op = requests[j].op
                                         /\ new[j].st = IF j = k THEN "done" ELSE requests[j].st
      BY <1>2, <2>1, AfterWriteTyped
    <2>3. requests' = new
      BY <1>1 DEF GiveUpWrite
    <2> HIDE DEF new
    <2> QED  BY <1>1, <2>2, <2>3
  <1>4. UNCHANGED <<sessionVars, upVars, downVars, pendingReads, pendingWrites,
                    haState, inbox, register>>
    BY <1>1 DEF GiveUpWrite
  <1>5. Grows
    BY <1>3, <1>4 DEF Grows, downVars
  <1>6. AnswersExpected' /\ AnsweredOnce'
    BY <1>4, <1>5, AnswersStay DEF Undisturbed
  <1>7. NothingBefore'
    <2>1. requests # <<>>
      BY <1>2
    <2> QED  BY <1>4, <2>1, RepliesStay DEF Undisturbed, NothingBefore, sessionVars
  <1>8. AnswersInOrder'
    BY <1>4, OrderStays DEF Undisturbed
  <1>9. ShownIsTrue'
    BY <1>3, <1>4, OwedStays DEF Undisturbed, ShownIsTrue
  <1> QED
    BY <1>4, <1>6, <1>7, <1>8, <1>9 DEF Undisturbed, sessionVars

LEMMA LeavesUndisturbed ==
    ASSUME Typed, Typed', Undisturbed, NEW p \in Peer, Leaves(p)
    PROVE  Undisturbed'
  <1>1. /\ UNCHANGED <<sessionVars, upVars, downVars, controlVars, register>>
        /\ inbox' = inbox \/ inbox' = <<>>
    BY DEF Leaves
  <1>2. Grows
    BY <1>1 DEF Grows, downVars, controlVars
  <1>3. AnswersExpected' /\ AnsweredOnce'
    BY <1>1, <1>2, AnswersStay DEF Undisturbed
  <1>4. NothingBefore'
    BY <1>1, RepliesStay DEF Undisturbed, NothingBefore, sessionVars, controlVars
  <1>5. AnswersInOrder'
    BY <1>1, OrderStays DEF Undisturbed
  <1>6. ShownIsTrue'
    BY <1>1, OwedStays DEF Undisturbed, ShownIsTrue, controlVars
  <1> QED
    BY <1>1, <1>3, <1>4, <1>5, <1>6 DEF Undisturbed, sessionVars

\* What the cloud says next changes nothing of what it has said.
LEMMA CloudSaysUndisturbed ==
    ASSUME Typed, Typed', Undisturbed, NEW kind \in CloudSends, NEW v \in Value,
           CloudSays(kind, v)
    PROVE  Undisturbed'
  <1>1. /\ UNCHANGED <<sessionVars, upVars, downBase, controlVars, register, inbox>>
        /\ \A n \in 1..Len(downSaid) : n \in 1..Len(downSaid') /\ downSaid'[n] = downSaid[n]
    <2>1. \E S : downSaid \in Seq(S)
      BY DEF Typed, DownTyped
    <2>2. PICK f : downSaid' = Append(downSaid, f)
      BY DEF CloudSays
    <2>3. Len(downSaid) \in Nat /\ Len(downSaid') = Len(downSaid) + 1
          /\ \A n \in 1..Len(downSaid) : downSaid'[n] = downSaid[n]
      BY <2>1, <2>2, AppendKeeps
    <2> QED  BY <2>3 DEF CloudSays, peerVars
  <1>2. Grows
    BY <1>1 DEF Grows, controlVars
  <1>3. AnswersExpected' /\ AnsweredOnce'
    BY <1>1, <1>2, AnswersStay DEF Undisturbed
  <1>4. NothingBefore'
    BY <1>1, RepliesStay DEF Undisturbed, NothingBefore, sessionVars, controlVars
  <1>5. AnswersInOrder'
    <2>1. Replies' = Replies /\ upSaid' = upSaid /\ register' = register
      BY <1>1, RepliesStay DEF upVars
    <2>2. ASSUME NEW i \in Replies, Tells(i)
          PROVE  Told(i)' = Told(i)
      <3>1. CASE upSaid[i].kind = "write_ok"
        <4>1. upSaid[i].kind # "read_value" /\ upSaid[i].key.from = "cloud"
              /\ upSaid[i].key \in Asked[OpOf(upSaid[i].kind)]
          BY <2>2, <3>1 DEF Tells, Undisturbed, AnswersExpected
        <4>2. upSaid[i].key.n \in 1..Len(downSaid)
          BY <4>1, AskedKeys, OpOfCommand
        <4> QED  BY <1>1, <2>1, <4>2 DEF Told
      <3>2. CASE upSaid[i].kind # "write_ok"
        BY <2>1, <3>2 DEF Told
      <3> QED  BY <3>1, <3>2
    <2>3. \A i \in Replies : Tells(i)' <=> Tells(i)
      BY <2>1 DEF Tells
    <2> QED  BY <2>1, <2>2, <2>3 DEF Undisturbed, AnswersInOrder
  <1>6. ShownIsTrue'
    BY <1>1, OwedStays DEF Undisturbed, ShownIsTrue, controlVars
  <1> QED
    BY <1>1, <1>3, <1>4, <1>5, <1>6 DEF Undisturbed, sessionVars

---------------------------------------------------------------------------
(* Steps of the inverter *)

\* The frame it sends is unread, and the last one.
LEMMA SaidLast ==
    ASSUME Typed, InStep, NEW f, upSaid' = Append(upSaid, f), upBase' = upBase
    PROVE  /\ Len(upSaid) \in Nat /\ Len(upSaid') = Len(upSaid) + 1
           /\ upSaid'[Len(upSaid) + 1] = f
           /\ \A i \in 1..Len(upSaid) : i \in 1..Len(upSaid') /\ upSaid'[i] = upSaid[i]
                                        /\ i < Len(upSaid) + 1
           /\ Unread \subseteq 1..Len(upSaid) /\ Replies \subseteq Unread
           /\ Unread' = Unread \cup {Len(upSaid) + 1}
           /\ Replies' = IF f.kind \in ReplyKind THEN Replies \cup {Len(upSaid) + 1} ELSE Replies
           /\ Known' <=> Known
  <1>1. /\ Len(upSaid) \in Nat /\ Len(upSaid') = Len(upSaid) + 1
        /\ upSaid'[Len(upSaid) + 1] = f
        /\ \A i \in 1..Len(upSaid) : upSaid'[i] = upSaid[i]
    <2>1. \E S : upSaid \in Seq(S)
      BY DEF Typed, UpTyped
    <2> QED  BY <2>1, AppendKeeps
  <1>2. upBase \in Nat /\ upBase <= 3 * Len(upSaid)
    <2>1. upBase \in Nat /\ upRead \in Nat /\ upBase <= upRead /\ upRead <= 3 * Len(upSaid)
      BY DEF InStep, Up!TypeOK
    <2> QED  BY <1>1, <2>1
  <1>3. \A i \in 1..Len(upSaid) : i \in 1..Len(upSaid') /\ i < Len(upSaid) + 1
    BY <1>1
  <1>4. \A i \in 1..Len(upSaid') : i \in 1..Len(upSaid) \/ i = Len(upSaid) + 1
    BY <1>1
  <1>5. Unread' = Unread \cup {Len(upSaid) + 1}
    BY <1>1, <1>2, <1>3, <1>4 DEF Unread
  <1>6. Unread \subseteq 1..Len(upSaid) /\ Replies \subseteq Unread
    BY DEF Unread, Replies
  <1>7. Replies' = IF f.kind \in ReplyKind THEN Replies \cup {Len(upSaid) + 1} ELSE Replies
    BY <1>1, <1>5, <1>6 DEF Replies
  <1>8. Known' <=> Known
    <2>1. ~(3 * (Len(upSaid) + 1) <= upBase)
      BY <1>1, <1>2
    <2> QED  BY <1>1, <1>3, <1>4, <2>1 DEF Known
  <1> QED
    BY <1>1, <1>3, <1>5, <1>6, <1>7, <1>8

LEMMA InverterSaysUndisturbed ==
    ASSUME Typed, Typed', InStep, Undisturbed, InverterSays
    PROVE  Undisturbed'
  <1>1. UNCHANGED <<sessionVars, upBase, downVars, controlVars, peerVars>>
    BY DEF InverterSays
  <1>2. PICK f : upSaid' = Append(upSaid, f) /\ f.kind \notin ReplyKind
    <2> DEFINE told == {i \in DOMAIN upSaid : upSaid[i].kind \notin ReplyKind}
               next == Cardinality(told) + 1
               f == [kind |-> Announced[next], key |-> KeyOf("inverter", next),
                     val |-> NoPercent]
    <2>1. upSaid' = Append(upSaid, f) /\ next \in DOMAIN Announced
      BY DEF InverterSays, Said
    <2>2. next \in 1..2
      BY <2>1 DEF Announced
    <2> HIDE DEF next
    <2>3. f.kind \notin ReplyKind
      BY <2>2 DEF Announced, ReplyKind
    <2> QED  BY <2>1, <2>3
  <1>3. /\ Replies' = Replies /\ Replies \subseteq 1..Len(upSaid)
        /\ Known' <=> Known
        /\ \A i \in Replies : upSaid'[i] = upSaid[i]
    BY <1>1, <1>2, SaidLast
  <1>4. Asked' = Asked
    BY <1>1 DEF Asked, controlVars, downVars
  <1>5. AnswersExpected' /\ AnsweredOnce'
    <2>1. inbox' = inbox /\ downSaid' = downSaid
      BY <1>1 DEF peerVars, downVars
    <2>2. AnswersExpected'
      BY <1>3, <1>4, <2>1 DEF Undisturbed, AnswersExpected
    <2>3. AnsweredOnce'
      BY <1>3, <2>1 DEF Undisturbed, AnsweredOnce
    <2> QED  BY <2>2, <2>3
  <1>6. NothingBefore'
    BY <1>1, <1>3 DEF Undisturbed, NothingBefore, sessionVars, controlVars
  <1>7. AnswersInOrder'
    BY <1>1, <1>3 DEF Undisturbed, AnswersInOrder, Tells, Told, peerVars, downVars
  <1>8. ShownIsTrue'
    BY <1>1, <1>3 DEF Undisturbed, ShownIsTrue, Owed, controlVars, peerVars
  <1> QED
    BY <1>1, <1>5, <1>6, <1>7, <1>8 DEF Undisturbed, sessionVars

\* An answer is the last one, so what it says is what the register holds.
LEMMA InverterServesUndisturbed ==
    ASSUME Typed, Typed', InStep, Undisturbed, InverterServes
    PROVE  Undisturbed'
  <1> DEFINE q == Head(inbox)
  <1>0. PICK last : last = Len(upSaid) + 1
    OBVIOUS
  <1>1. UNCHANGED <<sessionVars, upBase, downVars, controlVars>>
    BY DEF InverterServes
  <1>2. /\ inbox \in Seq(Injected) /\ inbox # <<>> /\ inbox' = Tail(inbox)
        /\ q = inbox[1] /\ 1 \in 1..Len(inbox) /\ Len(inbox) \in Nat
        /\ \A a \in 1..Len(inbox') : inbox'[a] = inbox[a + 1] /\ a + 1 \in 1..Len(inbox)
                                     /\ a \in Nat /\ a + 1 # 1
    <2>1. inbox \in Seq(Injected) /\ inbox # <<>> /\ inbox' = Tail(inbox)
      BY DEF InverterServes, Typed, InboxTyped
    <2>2. Len(inbox') \in Nat
      BY DEF Typed, InboxTyped
    <2>3. \A a \in 1..Len(inbox') : a \in Nat /\ a + 1 # 1
      BY <2>2
    <2> QED  BY <2>1, <2>3, OneLess
  <1> HIDE DEF q
  <1>3. PICK f : /\ upSaid' = Append(upSaid, f) /\ f.key = q.key
                 /\ \/ f.kind = "write_ok" /\ q.kind = "write" /\ register' = q.val
                    \/ f.kind = "read_value" /\ q.kind = "read" /\ register' = register
                       /\ f.val = register
                    \/ f.kind = "write_exception" /\ q.kind = "write" /\ register' = register
    <2>1. \/ q.kind = "write" /\ register' = q.val
             /\ upSaid' = Append(upSaid, [kind |-> "write_ok", key |-> q.key, val |-> q.val])
          \/ q.kind = "read" /\ register' = register
             /\ upSaid' = Append(upSaid, [kind |-> "read_value", key |-> q.key,
                                          val |-> register])
          \/ q.kind = "write" /\ register' = register
             /\ upSaid' = Append(upSaid, [kind |-> "write_exception", key |-> q.key,
                                          val |-> NoPercent])
      BY DEF InverterServes, Said, q
    <2> QED  BY <2>1
  <1>4. f.kind \in ReplyKind /\ OpOf(f.kind) = q.kind
    BY <1>3 DEF ReplyKind, OpOf
  <1>5. /\ last \in Nat /\ upSaid'[last] = f
        /\ Replies \subseteq 1..Len(upSaid)
        /\ \A i \in Replies : upSaid'[i] = upSaid[i] /\ i < last
        /\ Replies' = Replies \cup {last}
        /\ Known' <=> Known
    BY <1>0, <1>1, <1>3, <1>4, SaidLast
  <1>6. Asked' = Asked
    BY <1>1 DEF Asked, controlVars, downVars
  <1>7. /\ q.key \in Asked[q.kind] /\ q.kind \in Command
        /\ q.kind = "write" /\ q.key.from = "cloud" => q.val = downSaid[q.key.n].val
    BY <1>2, InboxKinds DEF Undisturbed, AnswersExpected
  <1>8. AnswersExpected'
    <2>1. \A i \in Replies' : upSaid'[i].key \in Asked'[OpOf(upSaid'[i].kind)]
      BY <1>3, <1>4, <1>5, <1>6, <1>7 DEF Undisturbed, AnswersExpected
    <2> QED  BY <1>1, <1>2, <1>6, <2>1 DEF Undisturbed, AnswersExpected, downVars
  <1>9. AnsweredOnce'
    <2>1. \A i \in Replies, a \in 1..Len(inbox) : upSaid[i].key # inbox[a].key
      BY DEF Undisturbed, AnsweredOnce
    <2>7. upSaid'[last].key = q.key /\ (\A i \in Replies : upSaid[i].key # q.key)
      BY <1>2, <1>3, <1>5, <2>1
    <2>2. ASSUME NEW i \in Replies', NEW j \in Replies', upSaid'[i].key = upSaid'[j].key
          PROVE  i = j
      <3>1. i \in Replies => upSaid'[i].key = upSaid[i].key /\ upSaid[i].key # q.key
        BY <1>5, <2>7
      <3>2. j \in Replies => upSaid'[j].key = upSaid[j].key /\ upSaid[j].key # q.key
        BY <1>5, <2>7
      <3>3. CASE i \in Replies /\ j \in Replies
        BY <2>2, <3>1, <3>2, <3>3 DEF Undisturbed, AnsweredOnce
      <3>4. CASE i = last \/ j = last
        BY <1>5, <2>2, <2>7, <3>1, <3>2, <3>4
      <3> QED  BY <1>5, <3>3, <3>4
    <2>3. \A a, b \in 1..Len(inbox) : inbox[a].key = inbox[b].key => a = b
      BY DEF Undisturbed, AnsweredOnce
    <2>4. ASSUME NEW a \in 1..Len(inbox'), NEW b \in 1..Len(inbox'),
                 inbox'[a].key = inbox'[b].key
          PROVE  a = b
      <3>1. a + 1 = b + 1
        BY <1>2, <2>3, <2>4
      <3> QED  BY <1>2, <3>1
    <2>5. \A a \in 1..Len(inbox') : inbox'[a].key # q.key
      BY <1>2, <2>3
    <2>6. ASSUME NEW i \in Replies', NEW a \in 1..Len(inbox')
          PROVE  upSaid'[i].key # inbox'[a].key
      <3>1. CASE i \in Replies
        BY <1>2, <1>5, <2>1, <3>1
      <3>2. CASE i = last
        BY <2>5, <2>7, <3>2
      <3> QED  BY <1>5, <3>1, <3>2
    <2> QED  BY <2>2, <2>4, <2>6 DEF AnsweredOnce
  <1>10. NothingBefore'
    BY <1>1, <1>5 DEF Undisturbed, NothingBefore, sessionVars, controlVars
  <1>11. AnswersInOrder'
    <2>1. downSaid' = downSaid
      BY <1>1 DEF downVars
    <2>2. ASSUME f.kind = "write_ok", NEW i \in Replies
          PROVE  \E j \in Replies' : i < j /\ upSaid'[j].kind = "write_ok"
      BY <1>5, <2>2
    <2>3. ASSUME f.kind # "write_ok", NEW i \in Replies, Tells(i)'
          PROVE  \/ Told(i)' = register'
                 \/ \E j \in Replies' : i < j /\ upSaid'[j].kind = "write_ok"
      <3>1. register' = register
        BY <1>3, <2>3
      <3>2. Told(i)' = Told(i) /\ Tells(i)
        BY <1>5, <2>1, <2>3 DEF Told, Tells
      <3>3. \/ Told(i) = register
            \/ \E j \in Replies : i < j /\ upSaid[j].kind = "write_ok"
        BY <2>3, <3>2 DEF Undisturbed, AnswersInOrder
      <3> QED  BY <1>5, <3>1, <3>2, <3>3
    <2>4. Tells(last)' => Told(last)' = register'
      <3>1. CASE f.kind = "write_ok"
        <4>1. q.kind = "write" /\ register' = q.val
          BY <1>3, <3>1
        <4> QED  BY <1>3, <1>5, <1>7, <2>1, <3>1, <4>1 DEF Told, Tells
      <3>2. CASE f.kind # "write_ok"
        BY <1>3, <1>5, <3>2 DEF Told, Tells
      <3> QED  BY <3>1, <3>2
    <2>5. ASSUME NEW i \in Replies', Tells(i)'
          PROVE  \/ Told(i)' = register'
                 \/ \E j \in Replies' : i < j /\ upSaid'[j].kind = "write_ok"
      <3>1. CASE i \in Replies
        BY <2>2, <2>3, <2>5, <3>1
      <3>2. CASE i = last
        BY <1>5, <2>1, <2>4, <2>5, <3>2 DEF Told, Tells
      <3> QED  BY <1>5, <3>1, <3>2
    <2> QED  BY <2>5 DEF AnswersInOrder
  <1>12. ShownIsTrue'
    <2>1. CASE f.kind = "write_ok"
      BY <1>5, <2>1 DEF ShownIsTrue, Owed
    <2>2. CASE f.kind # "write_ok"
      BY <1>1, <1>3, <1>5, <2>2 DEF Undisturbed, ShownIsTrue, Owed, controlVars
    <2> QED  BY <2>1, <2>2
  <1> QED
    BY <1>1, <1>8, <1>9, <1>10, <1>11, <1>12 DEF Undisturbed, sessionVars

---------------------------------------------------------------------------
(* A read from the cloud *)

\* The commands of the cloud that a read passes on are noted, and none of them
\* was on its way already.
LEMMA ForwardedAsked ==
    ASSUME Typed, InStep, InStep', NEW n \in 1..(3 * MaxDown), downRead < n,
           downSaid' = downSaid, downRead' = n, HandleDown(Down!Extracted(n)),
           NEW i \in Forwarded(n)
    PROVE  /\ i \in 1..Len(downSaid) /\ downSaid[i].kind \in Command
           /\ downSaid[i].key = KeyOf("cloud", i) /\ downSaid[i].key.n = i
           /\ downSaid[i].key \in Asked'[downSaid[i].kind]
           /\ \A op \in Command : downSaid[i].key \notin Asked[op]
  <1>1. /\ i \in 1..Len(downSaid) /\ downSaid[i].kind \in Command
        /\ downBase < 3 * i /\ 3 * i <= n
    BY DEF Forwarded, Typed, DownTyped
  <1>2. downSaid[i].key = KeyOf("cloud", i)
    BY <1>1 DEF Typed, DownTyped
  <1>3. KeyOf("cloud", i).from = "cloud" /\ KeyOf("cloud", i).n = i
    BY DEF KeyOf
  <1>4. /\ downBase \in Nat /\ downBase' \in Nat
        /\ i \in Down!Extracted(n) /\ 3 * i <= downBase'
    BY <1>1, DownReadExtracts DEF Typed
  <1>5. downSaid[i].kind = "write" => KeyOf("cloud", i) \in pendingWrites'
    BY <1>2, <1>4 DEF HandleDown
  <1>6. downSaid[i].key \in Asked'[downSaid[i].kind]
    BY <1>1, <1>2, <1>4, <1>5 DEF Asked
  <1>7. \A op \in Command : downSaid[i].key \notin Asked[op]
    <2> SUFFICES ASSUME NEW op \in Command, downSaid[i].key \in Asked[op] PROVE FALSE
      OBVIOUS
    <2>1. 3 * i <= downBase
      BY <1>2, <1>3, AskedKeys
    <2>2. i \in Nat
      BY <1>1 DEF Typed, DownTyped
    <2> QED  BY <1>1, <1>4, <2>1, <2>2
  <1> QED
    BY <1>1, <1>2, <1>3, <1>6, <1>7

LEMMA DownReadUndisturbed ==
    ASSUME Typed, Typed', InStep, InStep', Undisturbed, task'["down"] = "running",
           NEW n \in 1..(3 * MaxDown), DownRead(n)
    PROVE  Undisturbed'
  <1>1. /\ downRead < n /\ downSaid' = downSaid /\ downRead' = n
        /\ UNCHANGED <<closed, listed, settle, upVars, requests, haState, register>>
        /\ HandleDown(Down!Extracted(n))
        /\ inbox' = inbox \/ Deliver(Forwarded(n))
    <2>1. ~Over("down", "failed")
      BY DEF Over, Typed, SessionTyped
    <2>2. /\ HandleDown(Down!Extracted(n)) /\ Down!Read(n) /\ UNCHANGED closed
          /\ inbox' = inbox \/ Deliver(Forwarded(n))
      BY <2>1 DEF DownRead
    <2>3. downRead' = n
      BY <2>2 DEF Down!Read
    <2> QED  BY <2>2, <2>3 DEF DownRead
  <1> DEFINE frames == Forwarded(n)
  <1>2. /\ frames \in SUBSET (1..Len(downSaid))
        /\ \A i \in frames :
               /\ i \in 1..Len(downSaid) /\ downSaid[i].kind \in Command
               /\ downSaid[i].key.n = i
               /\ downSaid[i].key \in Asked'[downSaid[i].kind]
               /\ \A op \in Command : downSaid[i].key \notin Asked[op]
    <2>1. frames \in SUBSET (1..Len(downSaid))
      BY DEF Forwarded, Typed, DownTyped
    <2> QED  BY <1>1, <2>1, ForwardedAsked
  <1> HIDE DEF frames
  <1>3. Grows
    <2>1. downBase <= downBase' /\ downBase \in Nat /\ downBase' \in Nat
      BY <1>1, DownReadExtracts DEF Typed
    <2>2. pendingReads \subseteq pendingReads' /\ pendingWrites \subseteq pendingWrites'
      BY <1>1 DEF HandleDown
    <2>3. \A m \in 1..Len(downSaid) : 3 * m <= downBase => 3 * m <= downBase'
      <3>1. Len(downSaid) \in Nat
        BY DEF Typed, DownTyped
      <3> QED  BY <2>1, <3>1
    <2> QED  BY <1>1, <2>2, <2>3 DEF Grows
  <1>4. \A op \in Command : Asked[op] \subseteq Asked'[op]
    BY <1>3, AskedStays
  <1>5. /\ \A a \in 1..Len(inbox) : a \in 1..Len(inbox') /\ inbox'[a] = inbox[a]
        /\ \A a \in 1..Len(inbox') :
               a \in 1..Len(inbox) \/ \E i \in frames : inbox'[a] = downSaid[i]
        /\ \A a, b \in 1..Len(inbox') :
               a \notin 1..Len(inbox) /\ b \notin 1..Len(inbox) /\ inbox'[a].key = inbox'[b].key
                   => a = b
    <2>1. CASE inbox' = inbox
      BY <2>1
    <2>2. CASE Deliver(frames)
      BY <1>2, <2>2, DeliverFacts
    <2> QED  BY <1>1, <2>1, <2>2 DEF frames
  <1>6. Replies' = Replies /\ upSaid' = upSaid /\ (Known' <=> Known)
    BY <1>1, RepliesStay DEF upVars
  <1>7. AnswersExpected'
    <2>1. \A i \in Replies' : upSaid'[i].key \in Asked'[OpOf(upSaid'[i].kind)]
      BY <1>4, <1>6, OpOfCommand DEF Undisturbed, AnswersExpected
    <2>2. ASSUME NEW a \in 1..Len(inbox')
          PROVE  /\ inbox'[a].key \in Asked'[inbox'[a].kind]
                 /\ inbox'[a].kind = "write" /\ inbox'[a].key.from = "cloud"
                        => inbox'[a].val = downSaid'[inbox'[a].key.n].val
      <3>1. CASE a \in 1..Len(inbox)
        <4>1. /\ inbox[a].key \in Asked[inbox[a].kind] /\ inbox[a].kind \in Command
              /\ inbox[a].kind = "write" /\ inbox[a].key.from = "cloud"
                     => inbox[a].val = downSaid[inbox[a].key.n].val
          BY <3>1, InboxKinds DEF Undisturbed, AnswersExpected
        <4> QED  BY <1>1, <1>4, <1>5, <3>1, <4>1
      <3>2. CASE \E i \in frames : inbox'[a] = downSaid[i]
        BY <1>1, <1>2, <3>2
      <3> QED  BY <1>5, <3>1, <3>2
    <2> QED  BY <2>1, <2>2 DEF AnswersExpected
  <1>8. AnsweredOnce'
    <2>1. \A i \in frames : /\ \A a \in 1..Len(inbox) : inbox[a].key # downSaid[i].key
                            /\ \A j \in Replies : upSaid[j].key # downSaid[i].key
      BY <1>2, InboxKinds, OpOfCommand DEF Undisturbed, AnswersExpected
    <2>2. ASSUME NEW a \in 1..Len(inbox'), NEW b \in 1..Len(inbox'),
                 inbox'[a].key = inbox'[b].key
          PROVE  a = b
      <3>1. CASE a \in 1..Len(inbox) /\ b \in 1..Len(inbox)
        BY <1>5, <2>2, <3>1 DEF Undisturbed, AnsweredOnce
      <3>2. CASE a \notin 1..Len(inbox) /\ b \notin 1..Len(inbox)
        BY <1>5, <2>2, <3>2
      <3>3. CASE a \in 1..Len(inbox) /\ b \notin 1..Len(inbox)
        BY <1>5, <2>1, <2>2, <3>3
      <3>4. CASE a \notin 1..Len(inbox) /\ b \in 1..Len(inbox)
        BY <1>5, <2>1, <2>2, <3>4
      <3> QED  BY <3>1, <3>2, <3>3, <3>4
    <2>3. ASSUME NEW i \in Replies, NEW a \in 1..Len(inbox')
          PROVE  upSaid[i].key # inbox'[a].key
      BY <1>5, <2>1 DEF Undisturbed, AnsweredOnce
    <2> QED  BY <1>6, <2>2, <2>3 DEF Undisturbed, AnsweredOnce
  <1>9. NothingBefore'
    BY <1>1, <1>6 DEF Undisturbed, NothingBefore
  <1>10. AnswersInOrder'
    BY <1>1, <1>6 DEF Undisturbed, AnswersInOrder, Tells, Told
  <1>11. ShownIsTrue'
    BY <1>1, OwedStays DEF Undisturbed, ShownIsTrue
  <1> QED
    BY <1>1, <1>7, <1>8, <1>9, <1>10, <1>11 DEF Undisturbed

---------------------------------------------------------------------------
(* A read from the inverter *)

\* It takes the unread frames up to its end and handles them.
Takes(new) ==
    /\ new \in SUBSET (1..Len(upSaid)) /\ HandleUp(new)
    /\ new = Unread \ Unread' /\ Unread' \subseteq Unread
    /\ \A i \in 1..Len(upSaid) : 3 * i <= upBase' <=> (3 * i <= upBase \/ i \in new)
    /\ \A i, j \in 1..Len(upSaid) : i <= j /\ j \in new => 3 * i <= upBase'
    /\ UNCHANGED <<upSaid, downVars, closed, inbox, register>>

LEMMA UpReadTakes ==
    ASSUME Typed, InStep, InStep', task'["up"] = "running",
           NEW n \in 1..(3 * MaxUp), UpRead(n)
    PROVE  \E new : Takes(new)
  <1>1. ~Over("up", "failed")
    BY DEF Over, Typed, SessionTyped
  <1>2. /\ upRead < n /\ upSaid' = upSaid /\ HandleUp(Up!Extracted(n))
        /\ UNCHANGED <<downVars, peerVars>>
    BY DEF UpRead
  <1>3. Up!Read(n) /\ UNCHANGED closed
    BY <1>1 DEF UpRead
  <1>4. upRead' = n
    BY <1>3 DEF Up!Read
  <1>5. /\ Up!Extracted(n) = Unread \ Unread'
        /\ Unread' \subseteq Unread
        /\ \A i \in 1..Len(upSaid) :
               3 * i <= upBase' <=> (3 * i <= upBase \/ i \in Up!Extracted(n))
        /\ \A i, j \in 1..Len(upSaid) : i <= j /\ j \in Up!Extracted(n) => 3 * i <= upBase'
    BY <1>2, <1>4, UpReadExtracts DEF Typed
  <1>6. Up!Extracted(n) \in SUBSET (1..Len(upSaid))
    BY DEF Up!Extracted
  <1>7. Takes(Up!Extracted(n))
    BY <1>2, <1>3, <1>5, <1>6 DEF Takes, peerVars
  <1> QED
    BY <1>7

LEMMA TakesReplies ==
    ASSUME Typed, InStep, NEW new, Takes(new)
    PROVE  /\ Replies' = Replies \ new /\ Replies \subseteq 1..Len(upSaid)
           /\ \A i \in new : upSaid[i].kind \in ReplyKind => i \in Replies
           /\ \A i \in new : i \in 1..Len(upSaid) /\ i \in Nat
           /\ \A i \in Replies', j \in new : j < i
  <1>1. /\ new = Unread \ Unread' /\ Unread' \subseteq Unread /\ upSaid' = upSaid
        /\ Unread \subseteq 1..Len(upSaid) /\ Len(upSaid) \in Nat
    BY DEF Takes, Unread, Typed, UpTyped
  <1>2. Replies' = Replies \ new /\ Replies \subseteq 1..Len(upSaid)
    BY <1>1 DEF Replies
  <1>3. \A i \in new : /\ upSaid[i].kind \in ReplyKind => i \in Replies
                       /\ i \in 1..Len(upSaid) /\ i \in Nat
    BY <1>1 DEF Replies
  <1>4. ASSUME NEW i \in Replies', NEW j \in new
        PROVE  j < i
    <2>1. i \in 1..Len(upSaid) /\ i \notin new /\ i \in Replies
      BY <1>2
    <2>2. ~(3 * i <= upBase)
      <3>1. upBase < 3 * i
        BY <2>1 DEF Replies, Unread
      <3>2. upBase \in Nat
        BY DEF InStep, Up!TypeOK
      <3> QED  BY <1>1, <2>1, <3>1, <3>2
    <2>3. ~(i <= j)
      BY <1>1, <1>3, <2>1, <2>2 DEF Takes
    <2> QED  BY <1>1, <1>3, <2>1, <2>3
  <1> QED
    BY <1>2, <1>3, <1>4

\* A command whose answer is not among the frames is still waited for.
LEMMA TakesAsked ==
    ASSUME Typed, InStep, NEW new, Takes(new), NEW op \in Command, NEW key \in Asked[op],
           \A i \in Replies \cap new : upSaid[i].key # key
    PROVE  key \in Asked'[op]
  <1>1. /\ key = KeyOf(key.from, key.n) /\ key.from \in {"gateway", "cloud"}
        /\ key.from = "gateway" =>
               /\ key.n \in 1..Len(requests)
               /\ requests[key.n].op = op /\ requests[key.n].st = "waiting"
               /\ op = "read" => key \in pendingReads
        /\ key.from = "cloud" =>
               /\ key.n \in 1..Len(downSaid) /\ 3 * key.n <= downBase
               /\ downSaid[key.n].kind = op
               /\ op = "write" => key \in pendingWrites
    BY AskedKeys
  <1>2. /\ \A i \in new : upSaid[i].key = key => upSaid[i].kind \notin ReplyKind
        /\ new \in SUBSET (1..Len(upSaid)) /\ HandleUp(new) /\ UNCHANGED downVars
    BY TakesReplies DEF Takes
  <1>3. "write_ok" \in ReplyKind /\ "read_value" \in ReplyKind
    BY DEF ReplyKind
  <1>4. /\ key \in pendingWrites => key \in pendingWrites'
        /\ key \in pendingReads => key \in pendingReads'
    <2>1. /\ \A k \in pendingWrites \ pendingWrites' :
                 \E i \in new : upSaid[i].kind = "write_ok" /\ upSaid[i].key = k
          /\ \A k \in pendingReads \ pendingReads' :
                 \E i \in new : upSaid[i].kind = "read_value" /\ upSaid[i].key = k
      BY <1>2, HandleUpRest
    <2>2. \A i \in new : upSaid[i].key = key => upSaid[i].kind # "write_ok"
                                                /\ upSaid[i].kind # "read_value"
      BY <1>2, <1>3
    <2>3. key \notin pendingWrites \ pendingWrites' /\ key \notin pendingReads \ pendingReads'
      BY <2>1, <2>2
    <2> QED  BY <2>3
  <1>5. CASE key.from = "gateway"
    <2>1. PICK k \in 1..Len(requests) : k = key.n /\ key = KeyOf("gateway", k)
      BY <1>1, <1>5
    <2>2. /\ requests[k].op = op /\ requests[k].st = "waiting"
          /\ op = "read" => key \in pendingReads
      BY <1>1, <1>5, <2>1
    <2>3. Len(requests') = Len(requests) /\ requests'[k].op = op
          /\ requests'[k].st = "waiting"
      <3>1. \A i \in new : upSaid[i].key = KeyOf("gateway", k)
                               => upSaid[i].kind \notin ReplyKind
        BY <1>2, <2>1
      <3> QED  BY <1>2, <2>1, <2>2, <3>1, HandleUpRequests
    <2>4. k \in 1..Len(requests') /\ (op = "read" => KeyOf("gateway", k) \in pendingReads')
      BY <1>4, <2>1, <2>2, <2>3
    <2> QED  BY <2>1, <2>3, <2>4 DEF Asked
  <1>6. CASE key.from = "cloud"
    <2>1. PICK m \in 1..Len(downSaid) : m = key.n /\ key = KeyOf("cloud", m)
      BY <1>1, <1>6
    <2>2. /\ 3 * m <= downBase /\ downSaid[m].kind = op
          /\ op = "write" => key \in pendingWrites
      BY <1>1, <1>6, <2>1
    <2>3. downSaid' = downSaid /\ downBase' = downBase
      BY <1>2 DEF downVars
    <2> QED  BY <1>4, <2>1, <2>2, <2>3 DEF Asked
  <1> QED
    BY <1>1, <1>5, <1>6

\* The acknowledgement of a write either shows its value, once the serial is
\* known, or lets the task go on that waits for it.
LEMMA TakesAcknowledgement ==
    ASSUME Typed, InStep, AnswersExpected, NEW new, Takes(new),
           NEW i \in new, upSaid[i].kind = "write_ok",
           \E j \in 1..i : upSaid[j].kind = "registration"
    PROVE  \/ Shown(i) # NoPercent
           \/ \E k \in 1..Len(requests') : requests'[k].op = "write"
                                           /\ requests'[k].st = "acked"
  <1>1. upSaid[i].key \in Asked["write"] /\ "write" \in Command
    <2>1. i \in Replies
      BY TakesReplies DEF ReplyKind
    <2>2. OpOf(upSaid[i].kind) = "write"
      BY DEF OpOf
    <2> QED  BY <2>1, <2>2 DEF AnswersExpected, Command
  <1> DEFINE key == upSaid[i].key
  <1>2. /\ key = KeyOf(key.from, key.n) /\ key.from \in {"gateway", "cloud"}
        /\ key.from = "gateway" =>
               /\ key.n \in 1..Len(requests)
               /\ requests[key.n].op = "write" /\ requests[key.n].st = "waiting"
        /\ key.from = "cloud" =>
               /\ key.n \in 1..Len(downSaid) /\ downSaid[key.n].kind = "write"
               /\ key \in pendingWrites
    BY <1>1, AskedKeys
  <1>3. CASE key.from = "cloud"
    <2>1. downSaid[key.n].val \in Percent
      BY <1>2, <1>3 DEF Typed, DownTyped
    <2>2. Shown(i) = downSaid[key.n].val
      BY <1>2, <1>3 DEF Shown
    <2> QED  BY <2>1, <2>2, ValueAssumption
  <1>4. CASE key.from = "gateway"
    <2>1. PICK k \in 1..Len(requests) : k = key.n /\ key = KeyOf("gateway", k)
      BY <1>2, <1>4
    <2>2. new \in SUBSET (1..Len(upSaid)) /\ HandleUp(new)
      BY DEF Takes
    <2>3. requests[k].op = "write" /\ requests[k].st = "waiting"
      BY <1>2, <1>4, <2>1
    <2>4. Len(requests') = Len(requests) /\ requests'[k].op = "write"
          /\ requests'[k].st = "acked"
      BY <2>1, <2>2, <2>3, HandleUpRequests
    <2> QED  BY <2>1, <2>4
  <1> QED
    BY <1>2, <1>3, <1>4

\* A read of the gateway's that waits either waits on, or its value is shown.
LEMMA TakesReadback ==
    ASSUME Typed, InStep, AnswersExpected, NEW new, Takes(new),
           NEW k \in 1..Len(requests),
           requests[k].op = "read", requests[k].st = "waiting",
           \A i \in new : \E j \in 1..i : upSaid[j].kind = "registration"
    PROVE  \/ requests'[k].op = "read" /\ requests'[k].st = "waiting"
           \/ \E i \in new : Shown(i) # NoPercent
  <1>1. new \in SUBSET (1..Len(upSaid)) /\ HandleUp(new)
    BY DEF Takes
  <1>2. CASE \A i \in new : upSaid[i].key = KeyOf("gateway", k)
                                => upSaid[i].kind \notin ReplyKind
    BY <1>1, <1>2, HandleUpRequests
  <1>3. CASE \E i \in new : upSaid[i].key = KeyOf("gateway", k)
                            /\ upSaid[i].kind \in ReplyKind
    <2>1. PICK i \in new : upSaid[i].key = KeyOf("gateway", k) /\ upSaid[i].kind \in ReplyKind
      BY <1>3
    <2>2. upSaid[i].key \in Asked[OpOf(upSaid[i].kind)]
      BY <2>1, TakesReplies DEF AnswersExpected
    <2>3. KeyOf("gateway", k).from = "gateway" /\ KeyOf("gateway", k).n = k
      BY DEF KeyOf
    <2>4. requests[k].op = OpOf(upSaid[i].kind)
          /\ (OpOf(upSaid[i].kind) = "read" => upSaid[i].key \in pendingReads)
      BY <2>1, <2>2, <2>3, AskedKeys, OpOfCommand
    <2>5. upSaid[i].kind = "read_value" /\ upSaid[i].key \in pendingReads
      BY <2>4 DEF OpOf
    <2>6. upSaid[i].val \in Percent
      BY <1>1, <2>5 DEF Typed, UpTyped
    <2>7. Shown(i) = upSaid[i].val
      BY <2>5 DEF Shown
    <2> QED  BY <2>6, <2>7, ValueAssumption
  <1> QED
    BY <1>2, <1>3

\* What is shown is what the answer told, and its serial is known.
LEMMA TakesShown ==
    ASSUME Typed, InStep, NEW new, Takes(new), NEW i \in new, Shown(i) # NoPercent
    PROVE  /\ i \in Replies /\ Tells(i) /\ Shown(i) = Told(i)
           /\ \E j \in 1..i : upSaid[j].kind = "registration"
  <1>1. /\ \E j \in 1..i : upSaid[j].kind = "registration"
        /\ \/ upSaid[i].kind = "write_ok" /\ upSaid[i].key \in pendingWrites
              /\ Shown(i) = downSaid[upSaid[i].key.n].val
           \/ upSaid[i].kind = "read_value" /\ Shown(i) = upSaid[i].val
    BY DEF Shown
  <1>2. upSaid[i].key \in pendingWrites => upSaid[i].key.from = "cloud"
    BY DEF Typed, NotedTyped
  <1>3. i \in Replies
    BY <1>1, TakesReplies DEF ReplyKind
  <1> QED
    BY <1>1, <1>2, <1>3 DEF Tells, Told

LEMMA TakesShownIsTrue ==
    ASSUME Typed, InStep, AnswersExpected, NothingBefore, AnswersInOrder, ShownIsTrue,
           NEW new, Takes(new)
    PROVE  ShownIsTrue'
  <1>1. /\ new \in SUBSET (1..Len(upSaid)) /\ HandleUp(new)
        /\ upSaid' = upSaid /\ register' = register
    BY DEF Takes
  <1>2. /\ Replies' = Replies \ new
        /\ \A i \in new : i \in 1..Len(upSaid) /\ i \in Nat
        /\ Replies \subseteq 1..Len(upSaid) /\ Len(upSaid) \in Nat
    BY TakesReplies DEF Typed, UpTyped
  <1>3. Len(requests') = Len(requests)
        /\ \A k \in 1..Len(requests) :
               /\ requests'[k].op = requests[k].op
               /\ requests[k].st = "acked" => requests'[k].st = "acked"
    BY <1>1, HandleUpRequests
  <1>4. SUFFICES ASSUME haState' \notin {register, NoPercent} PROVE Owed'
    BY <1>1 DEF ShownIsTrue
  <1>5. CASE haState' = haState /\ \A i \in new : Shown(i) = NoPercent
    <2>1. Owed /\ haState # NoPercent
      BY <1>4, <1>5 DEF ShownIsTrue
    <2>2. \A i \in new : \E j \in 1..i : upSaid[j].kind = "registration"
      <3>1. PICK j \in 1..Len(upSaid) : 3 * j <= upBase /\ upSaid[j].kind = "registration"
        BY <2>1 DEF NothingBefore, Known
      <3>2. \A i \in new : upBase < 3 * i
        BY DEF Takes, Unread
      <3>3. upBase \in Nat
        BY DEF InStep, Up!TypeOK
      <3>4. \A i \in new : j \in 1..i
        BY <1>2, <3>1, <3>2, <3>3
      <3> QED  BY <3>1, <3>4
    <2>3. CASE \E i \in Replies : upSaid[i].kind = "write_ok"
      <3>1. PICK i \in Replies : upSaid[i].kind = "write_ok"
        BY <2>3
      <3>2. CASE i \in new
        BY <1>5, <2>2, <3>1, <3>2, TakesAcknowledgement DEF Owed
      <3>3. CASE i \notin new
        BY <1>1, <1>2, <3>1, <3>3 DEF Owed
      <3> QED  BY <3>2, <3>3
    <2>4. CASE \E k \in 1..Len(requests) : requests[k].op = "write" /\ requests[k].st = "acked"
      BY <1>3, <2>4 DEF Owed
    <2>5. CASE \E k \in 1..Len(requests) : requests[k].op = "read"
                                           /\ requests[k].st = "waiting"
      BY <1>3, <1>5, <2>2, <2>5, TakesReadback DEF Owed
    <2> QED  BY <2>1, <2>3, <2>4, <2>5 DEF Owed
  <1>6. CASE \E i \in new : /\ Shown(i) # NoPercent /\ haState' = Shown(i)
                            /\ \A j \in new : Shown(j) # NoPercent => j <= i
    <2>1. PICK i \in new : /\ Shown(i) # NoPercent /\ haState' = Shown(i)
                           /\ \A j \in new : Shown(j) # NoPercent => j <= i
      BY <1>6
    <2>2. /\ i \in Replies /\ Tells(i) /\ Told(i) # register
          /\ \E j \in 1..i : upSaid[j].kind = "registration"
      BY <1>4, <2>1, TakesShown
    <2>3. PICK j \in Replies : i < j /\ upSaid[j].kind = "write_ok"
      BY <2>2 DEF AnswersInOrder
    <2>4. CASE j \in new
      <3>1. \E m \in 1..j : upSaid[m].kind = "registration"
        <4>1. PICK m \in 1..i : upSaid[m].kind = "registration"
          BY <2>2
        <4>2. m \in 1..j
          BY <1>2, <2>3
        <4> QED  BY <4>1, <4>2
      <3>2. ~(j <= i)
        BY <1>2, <2>3
      <3>3. Shown(j) = NoPercent
        BY <2>1, <2>4, <3>2
      <3> QED  BY <2>3, <2>4, <3>1, <3>3, TakesAcknowledgement DEF Owed
    <2>5. CASE j \notin new
      BY <1>1, <1>2, <2>3, <2>5 DEF Owed
    <2> QED  BY <2>4, <2>5
  <1> QED
    BY <1>1, <1>5, <1>6, HandleUpRest

LEMMA UpReadUndisturbed ==
    ASSUME Typed, Typed', InStep, InStep', Introduced, Undisturbed, task'["up"] = "running",
           NEW n \in 1..(3 * MaxUp), UpRead(n)
    PROVE  Undisturbed'
  <1>1. PICK new : Takes(new)
    BY UpReadTakes
  <1>2. /\ new \in SUBSET (1..Len(upSaid)) /\ HandleUp(new)
        /\ UNCHANGED <<upSaid, downVars, closed, inbox, register>>
    BY <1>1 DEF Takes
  <1>3. /\ Replies' = Replies \ new /\ Replies' \subseteq Replies
        /\ \A i \in Replies', j \in new : ~(i < j)
    <2>1. /\ Replies' = Replies \ new /\ Replies \subseteq 1..Len(upSaid)
          /\ \A i \in new : i \in 1..Len(upSaid)
          /\ \A i \in Replies', j \in new : j < i
      BY <1>1, TakesReplies
    <2> QED  BY <2>1 DEF Typed, UpTyped
  <1>4. AnswersExpected'
    <2>1. ASSUME NEW i \in Replies'
          PROVE  upSaid'[i].key \in Asked'[OpOf(upSaid'[i].kind)]
      <3>1. \A j \in Replies \cap new : upSaid[j].key # upSaid[i].key
        BY <1>3, <2>1 DEF Undisturbed, AnsweredOnce
      <3>2. upSaid[i].key \in Asked[OpOf(upSaid[i].kind)]
        BY <1>3, <2>1 DEF Undisturbed, AnswersExpected
      <3>3. upSaid[i].key \in Asked'[OpOf(upSaid[i].kind)]
        BY <1>1, <3>1, <3>2, OpOfCommand, TakesAsked
      <3> QED  BY <1>2, <3>3
    <2>2. ASSUME NEW a \in 1..Len(inbox)
          PROVE  inbox[a].key \in Asked'[inbox[a].kind]
      <3>1. \A j \in Replies \cap new : upSaid[j].key # inbox[a].key
        BY DEF Undisturbed, AnsweredOnce
      <3>2. inbox[a].key \in Asked[inbox[a].kind] /\ inbox[a].kind \in Command
        BY InboxKinds DEF Undisturbed, AnswersExpected
      <3> QED  BY <1>1, <3>1, <3>2, TakesAsked
    <2>3. inbox' = inbox /\ downSaid' = downSaid
      BY <1>2 DEF downVars
    <2> QED  BY <2>1, <2>2, <2>3 DEF Undisturbed, AnswersExpected
  <1>5. AnsweredOnce'
    BY <1>2, <1>3 DEF Undisturbed, AnsweredOnce
  <1>6. NothingBefore'
    <2>1. Known' <=> (Known \/ \E i \in new : upSaid[i].kind = "registration")
      BY <1>1 DEF Takes, Known
    <2>2. /\ listed' <=> (listed \/ \E i \in new : upSaid[i].kind = "registration")
          /\ settle' \in {settle, "due"}
          /\ settle' # settle => \E i \in new : upSaid[i].kind = "telemetry"
          /\ \/ haState' = haState
             \/ \E i \in new : Shown(i) # NoPercent
      BY <1>2, HandleUpRest
    <2>3. listed' <=> Known'
      BY <2>1, <2>2 DEF Undisturbed, NothingBefore
    <2>4. \A i \in new : (\E j \in 1..i : upSaid[j].kind = "registration") => Known'
      <3> SUFFICES ASSUME NEW i \in new, NEW j \in 1..i, upSaid[j].kind = "registration"
                   PROVE  Known'
        OBVIOUS
      <3>1. Len(upSaid) \in Nat
        BY DEF Typed, UpTyped
      <3>2. j \in 1..Len(upSaid) /\ i \in 1..Len(upSaid) /\ j <= i
        BY <1>2, <3>1
      <3>3. 3 * j <= upBase'
        BY <1>1, <3>2 DEF Takes
      <3> QED  BY <1>2, <3>2, <3>3 DEF Known
    <2>5. ASSUME ~listed'
          PROVE  requests' = <<>> /\ haState' = NoPercent /\ settle' = "no"
      <3>1. ~listed /\ ~Known'
        BY <2>2, <2>3, <2>5
      <3>2. requests = <<>> /\ haState = NoPercent /\ settle = "no"
        BY <3>1 DEF Undisturbed, NothingBefore
      <3>3. requests' = <<>>
        <4>1. requests' \in Seq(Request) /\ Len(requests') = Len(requests)
          BY <1>2, HandleUpRequests
        <4> QED  BY <3>2, <4>1
      <3>4. haState' = NoPercent
        BY <1>1, <2>2, <2>4, <3>1, <3>2, TakesShown
      <3>5. settle' = "no"
        <4>1. ASSUME NEW i \in new, upSaid[i].kind = "telemetry"
              PROVE  Known'
          BY <1>2, <2>4, <4>1 DEF Introduced, ReplyKind
        <4> QED  BY <2>2, <3>1, <3>2, <4>1
      <3> QED  BY <3>3, <3>4, <3>5
    <2> QED  BY <2>3, <2>5 DEF NothingBefore
  <1>7. AnswersInOrder'
    <2>1. ASSUME NEW i \in Replies', Tells(i)
          PROVE  \/ Told(i) = register
                 \/ \E j \in Replies' : i < j /\ upSaid[j].kind = "write_ok"
      <3>1. \/ Told(i) = register
            \/ \E j \in Replies : i < j /\ upSaid[j].kind = "write_ok"
        BY <1>3, <2>1 DEF Undisturbed, AnswersInOrder
      <3> QED  BY <1>3, <3>1
    <2>2. downSaid' = downSaid
      BY <1>2 DEF downVars
    <2> QED  BY <1>2, <2>1, <2>2 DEF AnswersInOrder, Tells, Told
  <1>8. ShownIsTrue'
    BY <1>1, TakesShownIsTrue DEF Undisturbed
  <1> QED
    BY <1>2, <1>4, <1>5, <1>6, <1>7, <1>8 DEF Undisturbed

---------------------------------------------------------------------------
(* The invariant *)

LEMMA BeforeRelayStep ==
    ASSUME Typed, BeforeRelay, Next
    PROVE  BeforeRelay'
  <1> DEFINE Before == {"accepted", "connecting", "local"}
  <1>1. SUFFICES ASSUME phase' \in Before PROVE BeforeRelay'
    BY DEF BeforeRelay
  <1>2. CASE phase \notin Before
    <2>1. phase' = phase \/ phase' = "over" \/ phase' = "relay"
      BY <1>2 DEF Next, ChooseUpstream, UpstreamFails, UpstreamConnects, UpRead, DownRead,
         Ends, Finish, Settle, LocalWrite, ConfirmWrite, GiveUpWrite, ReadbackTimeout,
         InverterSays, InverterServes, CloudSays, Leaves, sessionVars
    <2> QED  BY <1>1, <1>2, <2>1
  <1>3. CASE phase \in Before
    <2>1. /\ closed = {} /\ ~listed /\ settle = "no"
          /\ task["up"] # "running" /\ task["down"] # "running"
          /\ upSaid = <<>> /\ downSaid = <<>> /\ inbox = <<>> /\ requests = <<>>
          /\ haState = NoPercent /\ phase # "relay"
      BY <1>3 DEF BeforeRelay
    <2>2. DOMAIN requests = {}
      BY <2>1
    <2>3. ChooseUpstream \/ UpstreamFails \/ UpstreamConnects
      BY <2>1, <2>2 DEF Next, UpRead, DownRead, Reading, Ends, Finish, Settle, LocalWrite,
         InverterSays, InverterServes, CloudSays, Heard, Leaves
    <2>4. ~UpstreamConnects
      BY <1>1 DEF UpstreamConnects
    <2>5. UNCHANGED <<task, closed, listed, settle, upVars, downVars, controlVars, inbox>>
      BY <2>3, <2>4 DEF ChooseUpstream, UpstreamFails, peerVars
    <2> QED  BY <2>1, <2>5 DEF BeforeRelay, upVars, downVars, controlVars
  <1> QED
    BY <1>2, <1>3

LEMMA IntroducedStep ==
    ASSUME Typed, InStep, Introduced, Next
    PROVE  Introduced'
  <1>1. ASSUME NEW f, upSaid' = Append(upSaid, f), upBase' = upBase,
               f.kind \in ReplyKind \cup {"registration"}
               \/ \E i \in 1..Len(upSaid) : upSaid[i].kind \notin ReplyKind
        PROVE  Introduced'
    <2>1. PICK last : last = Len(upSaid) + 1
      OBVIOUS
    <2>2. /\ Len(upSaid) \in Nat /\ Len(upSaid') = last /\ upSaid'[last] = f
          /\ \A i \in 1..Len(upSaid) : upSaid'[i] = upSaid[i] /\ i < last
      BY <1>1, <2>1, SaidLast
    <2>3. ASSUME NEW i \in 1..Len(upSaid), upSaid[i].kind \notin ReplyKind, NEW m \in 1..last, i <= m
          PROVE  \E j \in 1..m : upSaid'[j].kind = "registration"
      <3>1. PICK j \in 1..i : upSaid[j].kind = "registration"
        BY <2>3 DEF Introduced
      <3>2. j \in 1..Len(upSaid) /\ j \in 1..m
        BY <2>1, <2>2, <2>3
      <3> QED  BY <2>2, <3>1, <3>2
    <2>4. ASSUME NEW m \in 1..last, upSaid'[m].kind \notin ReplyKind
          PROVE  \E j \in 1..m : upSaid'[j].kind = "registration"
      <3>1. CASE m \in 1..Len(upSaid)
        <4>1. m <= m /\ upSaid[m].kind \notin ReplyKind
          BY <2>2, <2>4, <3>1
        <4> QED  BY <2>3, <3>1, <4>1
      <3>2. CASE m = last
        <4>1. CASE f.kind = "registration"
          <5>1. last \in 1..last
            BY <2>1, <2>2
          <5> QED  BY <2>2, <3>2, <4>1, <5>1
        <4>2. CASE f.kind # "registration"
          <5>1. PICK i \in 1..Len(upSaid) : upSaid[i].kind \notin ReplyKind
            BY <1>1, <2>2, <2>4, <3>2, <4>2
          <5>2. i <= m
            BY <2>1, <2>2, <3>2
          <5> QED  BY <2>3, <5>1, <5>2
        <4> QED  BY <4>1, <4>2
      <3> QED  BY <2>1, <2>2, <3>1, <3>2
    <2> QED  BY <2>2, <2>4 DEF Introduced
  <1>2. CASE InverterSays
    <2> DEFINE told == {i \in DOMAIN upSaid : upSaid[i].kind \notin ReplyKind}
               next == Cardinality(told) + 1
               f == [kind |-> Announced[next], key |-> KeyOf("inverter", next),
                     val |-> NoPercent]
    <2>1. /\ upSaid' = Append(upSaid, f) /\ upBase' = upBase
          /\ next \in DOMAIN Announced
      BY <1>2 DEF InverterSays, Said
    <2>2. DOMAIN upSaid = 1..Len(upSaid)
      BY DEF Typed, UpTyped
    <2>3. CASE told = {}
      <3>1. next = 1
        BY <2>3, FS_EmptySet
      <3> HIDE DEF next
      <3>2. f.kind = "registration"
        BY <3>1 DEF Announced
      <3> HIDE DEF f
      <3> QED  BY <1>1, <2>1, <3>2
    <2>4. CASE told # {}
      <3>1. \E i \in 1..Len(upSaid) : upSaid[i].kind \notin ReplyKind
        BY <2>2, <2>4
      <3> HIDE DEF f
      <3> QED  BY <1>1, <2>1, <3>1
    <2> QED  BY <2>3, <2>4
  <1>3. CASE InverterServes
    <2>1. \E f : /\ upSaid' = Append(upSaid, f) /\ upBase' = upBase /\ f.kind \in ReplyKind
      <3> DEFINE Reply(kind, val) == [kind |-> kind, key |-> Head(inbox).key, val |-> val]
      <3>1. \/ upSaid' = Append(upSaid, Reply("write_ok", Head(inbox).val))
            \/ upSaid' = Append(upSaid, Reply("read_value", register))
            \/ upSaid' = Append(upSaid, Reply("write_exception", NoPercent))
        BY <1>3 DEF InverterServes, Said
      <3>2. upBase' = upBase
        BY <1>3 DEF InverterServes
      <3> QED  BY <3>1, <3>2 DEF ReplyKind
    <2> QED  BY <1>1, <2>1
  <1>4. CASE ~InverterSays /\ ~InverterServes
    <2>1. upSaid' = upSaid
      BY <1>4 DEF Next, ChooseUpstream, UpstreamFails, UpstreamConnects, UpRead, DownRead,
         Ends, Finish, Settle, LocalWrite, ConfirmWrite, GiveUpWrite, ReadbackTimeout,
         CloudSays, Leaves, upVars
    <2> QED  BY <2>1 DEF Introduced
  <1> QED
    BY <1>2, <1>3, <1>4

\* The relay starts with nothing said and nothing asked.
LEMMA StartUndisturbed ==
    ASSUME BeforeRelay, UpstreamConnects
    PROVE  Undisturbed'
  <1>1. /\ closed' = {} /\ ~listed' /\ settle' = "no"
        /\ upSaid' = <<>> /\ inbox' = <<>> /\ requests' = <<>> /\ haState' = NoPercent
    BY DEF BeforeRelay, UpstreamConnects, upVars, controlVars
  <1>2. 1..Len(upSaid') = {} /\ 1..Len(inbox') = {}
    BY <1>1
  <1>3. Replies' = {} /\ ~Known'
    BY <1>2 DEF Replies, Unread, Known
  <1>4. AnswersExpected' /\ AnsweredOnce' /\ AnswersInOrder'
    BY <1>2, <1>3 DEF AnswersExpected, AnsweredOnce, AnswersInOrder
  <1>5. NothingBefore' /\ ShownIsTrue'
    BY <1>1, <1>3 DEF NothingBefore, ShownIsTrue
  <1> QED
    BY <1>1, <1>4, <1>5 DEF Undisturbed

\* Once the relay is not as it should be, it does not become so again.
LEMMA LiveBefore ==
    ASSUME Typed, Typed', Next, Live'
    PROVE  UpstreamConnects \/ Live
  <1>1. /\ phase' = "relay" /\ task'["up"] = "running" /\ task'["down"] = "running" /\ ~missed'
    BY DEF Live, Reading
  <1>2. \A t \in {"up", "down"}, how \in {"ended", "failed"} : ~Over(t, how)
    BY <1>1 DEF Over, Typed, SessionTyped
  <1>3. SUFFICES ASSUME ~UpstreamConnects PROVE Live
    OBVIOUS
  <1>4. phase' = phase /\ task' = task /\ ~missed
    <2>1. ~ChooseUpstream /\ ~UpstreamFails /\ ~Finish /\ ~Ends("up") /\ ~Ends("down")
      BY <1>1, <1>2 DEF ChooseUpstream, UpstreamFails, Finish, Ends
    <2>2. ASSUME NEW n, UpRead(n) \/ DownRead(n)
          PROVE  phase' = phase /\ task' = task /\ missed' = missed
      <3>1. ~Over("up", "failed") /\ ~Over("down", "failed")
        BY <1>2
      <3>2. CASE UpRead(n)
        <4>1. (UNCHANGED task \/ Over("up", "failed")) /\ UNCHANGED <<phase, missed>>
          BY <3>2 DEF UpRead, peerVars
        <4> QED  BY <3>1, <4>1
      <3>3. CASE DownRead(n)
        <4>1. (UNCHANGED task \/ Over("down", "failed")) /\ UNCHANGED <<phase, missed>>
          BY <3>3 DEF DownRead
        <4> QED  BY <3>1, <4>1
      <3> QED  BY <2>2, <3>2, <3>3
    <2>3. ASSUME NEW k, ConfirmWrite(k) \/ GiveUpWrite(k) \/ ReadbackTimeout(k)
          PROVE  phase' = phase /\ task' = task /\ ~missed
      <3>1. /\ phase' = phase /\ task' = task
            /\ missed' = missed \/ missed' = (missed \/ requests[k].st = "waiting") \/ missed' = TRUE
        BY <2>3 DEF ConfirmWrite, GiveUpWrite, ReadbackTimeout, sessionVars
      <3>2. ~missed' /\ missed \in BOOLEAN
        BY <1>1 DEF Typed, SessionTyped
      <3> QED  BY <3>1, <3>2
    <2>4. ASSUME \/ Settle \/ InverterSays \/ InverterServes
                 \/ \E v : LocalWrite(v)
                 \/ \E kind, v : CloudSays(kind, v)
                 \/ \E p : Leaves(p)
          PROVE  phase' = phase /\ task' = task /\ missed' = missed
      BY <2>4 DEF Settle, InverterSays, InverterServes, LocalWrite, CloudSays, Leaves,
                  sessionVars, peerVars
    <2> QED  BY <1>1, <1>3, <2>1, <2>2, <2>3, <2>4 DEF Next
  <1> QED
    BY <1>1, <1>4 DEF Live, Reading

LEMMA UndisturbedStep ==
    ASSUME Typed, Typed', InStep, InStep', BeforeRelay, Introduced, Live => Undisturbed,
           Next, Live'
    PROVE  Undisturbed'
  <1>1. CASE UpstreamConnects
    BY <1>1, StartUndisturbed
  <1>2. CASE ~UpstreamConnects
    <2>1. Live /\ Undisturbed
      BY <1>2, LiveBefore
    <2>2. /\ phase' = "relay" /\ task'["up"] = "running" /\ task'["down"] = "running"
          /\ ~missed'
      BY DEF Live, Reading
    <2>3. ~ChooseUpstream /\ ~UpstreamFails /\ ~Finish
      BY <2>2 DEF ChooseUpstream, UpstreamFails, Finish
    <2>4. ~Ends("up") /\ ~Ends("down")
      BY <2>2 DEF Ends, Over, Typed, SessionTyped
    <2> QED
      BY <1>2, <2>1, <2>2, <2>3, <2>4, UpReadUndisturbed, DownReadUndisturbed,
         SettleUndisturbed, LocalWriteUndisturbed, ConfirmUndisturbed, GiveUpUndisturbed,
         InverterSaysUndisturbed, InverterServesUndisturbed, CloudSaysUndisturbed,
         LeavesUndisturbed DEF Next
  <1> QED
    BY <1>1, <1>2

LEMMA SessionInvStep ==
    ASSUME SessionInv, InStep, InStep', [Next]_vars
    PROVE  SessionInv'
  <1>1. Typed'
    BY TypedStep DEF SessionInv
  <1>2. CASE UNCHANGED vars
    <2>1. BeforeRelay'
      BY <1>2 DEF SessionInv, BeforeRelay, vars, sessionVars, upVars, downVars, controlVars,
                  peerVars
    <2>2. Introduced'
      BY <1>2 DEF SessionInv, Introduced, vars, upVars
    <2>3. Live' => Undisturbed'
      <3>1. UNCHANGED <<phase, task, closed, listed, settle, upVars, downVars, requests,
                        pendingReads, pendingWrites, haState, inbox, register, missed>>
        BY <1>2 DEF vars, sessionVars, controlVars, peerVars
      <3>2. Live' <=> Live
        BY <3>1 DEF Live, Reading
      <3>3. Grows
        BY <3>1 DEF Grows, downVars
      <3>4. ASSUME Undisturbed
            PROVE  Undisturbed'
        <4>1. AnswersExpected' /\ AnsweredOnce'
          BY <1>1, <3>1, <3>3, <3>4, AnswersStay DEF Undisturbed, SessionInv
        <4>2. NothingBefore'
          BY <3>1, <3>4, RepliesStay DEF Undisturbed, NothingBefore
        <4>3. AnswersInOrder'
          BY <3>1, <3>4, OrderStays DEF Undisturbed
        <4>4. ShownIsTrue'
          BY <3>1, <3>4, OwedStays DEF Undisturbed, ShownIsTrue
        <4> QED  BY <3>1, <3>4, <4>1, <4>2, <4>3, <4>4 DEF Undisturbed
      <3> QED  BY <3>2, <3>4 DEF SessionInv
    <2> QED  BY <1>1, <2>1, <2>2, <2>3 DEF SessionInv
  <1>3. CASE Next
    BY <1>1, <1>3, BeforeRelayStep, IntroducedStep, UndisturbedStep DEF SessionInv
  <1> QED
    BY <1>2, <1>3

LEMMA InitSessionInv == Init => SessionInv
  <1> SUFFICES ASSUME Init PROVE SessionInv
    OBVIOUS
  <1>1. Typed
    BY InitTyped
  <1>2. BeforeRelay /\ Introduced /\ ~Live
    BY DEF Init, BeforeRelay, Introduced, Live, Reading
  <1> QED
    BY <1>1, <1>2 DEF SessionInv

LEMMA SessionInvariant ==
    ASSUME ~SplitMarkers
    PROVE  Spec => [](SessionInv /\ InStep)
  <1>1. SessionInv /\ InStep /\ InStep' /\ [Next]_vars => SessionInv'
    BY SessionInvStep
  <1> QED
    BY <1>1, InitSessionInv, StreamsInStep, PTL DEF Spec

\* At rest nothing is unread and nothing owed.
LEMMA RestOwesNothing ==
    ASSUME SessionInv, InStep, AtRest
    PROVE  haState \in {register, NoPercent}
  <1>1. ShownIsTrue
    BY DEF AtRest, SessionInv, Live, Undisturbed
  <1>2. Unread = {}
    <2>1. Len(upSaid) \in Nat /\ upBase \in Nat /\ upRead = 3 * Len(upSaid)
      BY DEF AtRest, SessionInv, Typed, UpTyped, InStep, Up!TypeOK
    <2>2. PICK k \in 0..Len(upSaid) : upBase = 3 * k
      BY DEF InStep, Up!AtFrameStart
    <2>3. upBase \in {upRead, upRead - 2}
      BY DEF InStep, Up!AtFrameStart
    <2>4. upBase = 3 * Len(upSaid)
      BY <2>1, <2>2, <2>3
    <2> QED  BY <2>1, <2>4 DEF Unread
  <1>3. \A k \in 1..Len(requests) : requests[k].st \notin {"waiting", "acked"}
    <2>1. DOMAIN requests = 1..Len(requests)
      BY DEF SessionInv, Typed, RequestsTyped
    <2> QED  BY <2>1 DEF AtRest
  <1>4. ~Owed
    BY <1>2, <1>3 DEF Owed, Replies
  <1> QED
    BY <1>1, <1>4 DEF ShownIsTrue

\* However the writes of the cloud and of Home Assistant cross, and however
\* many there are: once the relay has read and answered everything and missed no
\* answer, the state topic shows the register's value, or none yet (handle_frame
\* and _apply_active_power_limit, which show values of one register from two
\* tasks). Reads must not end within a start marker.
THEOREM SessionRestIsTrue ==
    ASSUME ~SplitMarkers
    PROVE  Spec => []RestIsTrue
<1>1. SessionInv /\ InStep => RestIsTrue
  BY RestOwesNothing DEF RestIsTrue
<1> QED  BY <1>1, SessionInvariant, PTL

---------------------------------------------------------------------------
(* How a relay ends: what EndsTogether rests on besides fairness *)

\* The side a direction reads from and closes when it is over.
Source(t) == IF t = "up" THEN "inverter" ELSE "cloud"
Sink(t) == IF t = "up" THEN "cloud" ELSE "inverter"

Ending == /\ phase = "relay"
          /\ \/ \E p \in Peer : ~alive[p]
             \/ \E t \in {"up", "down"} : task[t] # "running"
EndedWhole == /\ phase = "over" /\ ~listed /\ closed = Peer
              /\ \A t \in {"up", "down"} : task[t] \in {"ended", "failed"}

\* What makes Ends and Finish possible.
MayEnd(t) == task[t] = "running" /\ (~alive[Source(t)] \/ Source(t) \in closed)
MayFinish == /\ phase = "relay"
             /\ \/ \E t \in {"up", "down"} : task[t] = "failed"
                \/ \A t \in {"up", "down"} : task[t] = "ended"

NeverStuck ==
    Ending \/ phase = "over" =>
        EndedWhole \/ MayEnd("up") \/ MayEnd("down") \/ MayFinish

\* A step of the end is not taken back, and what makes one possible stays until
\* it is taken.
EndsForGood ==
    [][/\ Ending \/ phase = "over" => Ending' \/ phase' = "over"
       /\ phase = "over" => phase' = "over"
       /\ \A t \in {"up", "down"} :
              /\ task[t] \in {"ended", "failed"} => task'[t] = task[t]
              /\ MayEnd(t) => MayEnd(t)' \/ task'[t] \in {"ended", "failed"}
       /\ MayFinish => MayFinish' \/ phase' = "over"]_vars

\* A direction that is over has closed the side it wrote to, and a Session is
\* over once one direction is.
Closes ==
    /\ phase \in {"relay", "over"} =>
           \A t \in {"up", "down"} : task[t] \in {"running", "ended", "failed"}
    /\ \A t \in {"up", "down"} : task[t] \in {"ended", "failed"} => Sink(t) \in closed
    /\ phase = "over" =>
           /\ ~listed /\ "inverter" \in closed
           /\ \E t \in {"up", "down"} : task[t] # "running"

\* What a step does to the ends: nothing, or one of these.
LEMMA StepOfTheEnd ==
    ASSUME Typed, BeforeRelay, Next
    PROVE  \/ /\ phase \in {"accepted", "connecting"} /\ phase' \in {"connecting", "local"}
              /\ UNCHANGED <<task, closed>>
           \/ UpstreamConnects
           \/ /\ phase \in {"relay", "over"} /\ UNCHANGED <<phase, alive>>
              /\ phase = "over" => listed' = listed
              /\ \E t \in {"up", "down"}, how \in {"ended", "failed"} :
                     task[t] = "running" /\ Over(t, how)
           \/ Finish
           \/ /\ UNCHANGED <<phase, task, closed>>
              /\ phase = "over" => listed' = listed
              /\ \A p \in Peer : ~alive[p] => ~alive'[p]
  <1>1. CASE ChooseUpstream \/ UpstreamFails
    BY <1>1 DEF ChooseUpstream, UpstreamFails
  <1>2. ASSUME NEW n, UpRead(n)
        PROVE  /\ phase = "relay" /\ task["up"] = "running" /\ UNCHANGED <<phase, alive>>
               /\ UNCHANGED <<task, closed>> \/ Over("up", "failed")
    BY <1>2 DEF UpRead, Reading, peerVars
  <1>3. ASSUME NEW n, DownRead(n)
        PROVE  /\ phase = "relay" /\ task["down"] = "running" /\ UNCHANGED <<phase, alive>>
               /\ UNCHANGED <<task, closed>> \/ Over("down", "failed")
    BY <1>3 DEF DownRead, Reading
  <1>4. ASSUME NEW t \in {"up", "down"}, Ends(t)
        PROVE  /\ phase \in {"relay", "over"} /\ UNCHANGED <<phase, alive, listed>>
               /\ task[t] = "running" /\ (Over(t, "ended") \/ Over(t, "failed"))
    <2>1. task[t] = "running" /\ UNCHANGED <<phase, alive, listed>>
          /\ (Over(t, "ended") \/ Over(t, "failed"))
      BY <1>4 DEF Ends, peerVars
    <2>2. phase \in {"relay", "over"}
      BY <2>1 DEF BeforeRelay, Typed, SessionTyped
    <2> QED  BY <2>1, <2>2
  <1>5. ASSUME NEW p \in Peer, Leaves(p)
        PROVE  /\ UNCHANGED <<phase, task, closed, listed>>
               /\ \A q \in Peer : ~alive[q] => ~alive'[q]
    BY <1>5 DEF Leaves, sessionVars, Typed, SessionTyped
  <1>6. ASSUME \/ Settle \/ InverterSays \/ InverterServes
               \/ \E v : LocalWrite(v)
               \/ \E k : ConfirmWrite(k) \/ GiveUpWrite(k) \/ ReadbackTimeout(k)
               \/ \E kind, v : CloudSays(kind, v)
        PROVE  UNCHANGED <<phase, task, closed, listed, alive>>
    <2>1. CASE Settle \/ InverterSays \/ InverterServes
      BY <2>1 DEF Settle, InverterSays, InverterServes, sessionVars, peerVars
    <2>2. CASE \E v : LocalWrite(v)
      BY <2>2 DEF LocalWrite, sessionVars
    <2>3. CASE \E k : ConfirmWrite(k) \/ GiveUpWrite(k) \/ ReadbackTimeout(k)
      BY <2>3 DEF ConfirmWrite, GiveUpWrite, ReadbackTimeout, sessionVars
    <2>4. CASE \E kind, v : CloudSays(kind, v)
      BY <2>4 DEF CloudSays, sessionVars, peerVars
    <2> QED  BY <1>6, <2>1, <2>2, <2>3, <2>4
  <1> QED
    BY <1>1, <1>2, <1>3, <1>4, <1>5, <1>6 DEF Next

LEMMA OverCloses ==
    ASSUME Typed, NEW t \in {"up", "down"}, NEW how \in {"ended", "failed"}, Over(t, how)
    PROVE  /\ task'[t] = how /\ closed' = closed \cup {Sink(t)}
           /\ \A s \in {"up", "down"} : s # t => task'[s] = task[s]
  BY DEF Over, Sink, Typed, SessionTyped

LEMMA ClosesStep ==
    ASSUME Typed, BeforeRelay, Closes, [Next]_vars
    PROVE  Closes'
  <1>1. CASE /\ phase \in {"accepted", "connecting"} /\ phase' \in {"connecting", "local"}
             /\ UNCHANGED <<task, closed>>
    BY <1>1 DEF Closes, Sink
  <1>2. CASE UpstreamConnects
    BY <1>2 DEF UpstreamConnects, Closes
  <1>3. CASE /\ phase \in {"relay", "over"} /\ UNCHANGED <<phase, alive>>
             /\ phase = "over" => listed' = listed
             /\ \E t \in {"up", "down"}, how \in {"ended", "failed"} :
                    task[t] = "running" /\ Over(t, how)
    <2>1. PICK t \in {"up", "down"}, how \in {"ended", "failed"} :
              task[t] = "running" /\ Over(t, how)
      BY <1>3
    <2>2. /\ task'[t] = how /\ closed' = closed \cup {Sink(t)}
          /\ \A s \in {"up", "down"} : s # t => task'[s] = task[s]
      BY <2>1, OverCloses
    <2>3. \A s \in {"up", "down"} :
              /\ task'[s] \in {"running", "ended", "failed"}
              /\ task'[s] \in {"ended", "failed"} => Sink(s) \in closed'
      BY <1>3, <2>2 DEF Closes
    <2>4. phase' = "over" => /\ ~listed' /\ "inverter" \in closed'
                             /\ \E s \in {"up", "down"} : task'[s] # "running"
      BY <1>3, <2>2 DEF Closes
    <2> QED  BY <2>3, <2>4 DEF Closes, Sink
  <1>4. CASE Finish
    <2>1. /\ phase = "relay" /\ ~listed' /\ "inverter" \in closed' /\ task' = task
          /\ closed \subseteq closed'
          /\ \E t \in {"up", "down"} : task[t] # "running"
      BY <1>4 DEF Finish
    <2> QED  BY <2>1 DEF Closes, Sink
  <1>5. CASE /\ UNCHANGED <<phase, task, closed>>
             /\ phase = "over" => listed' = listed
    BY <1>5 DEF Closes, Sink
  <1>6. CASE UNCHANGED vars
    BY <1>5, <1>6 DEF vars, sessionVars
  <1> QED
    BY <1>1, <1>2, <1>3, <1>4, <1>5, <1>6, StepOfTheEnd

LEMMA ClosesNeverStuck ==
    ASSUME Typed, Closes
    PROVE  NeverStuck
  <1>1. Peer = {"inverter", "cloud"} /\ closed \subseteq Peer
    BY DEF Peer, Typed, SessionTyped
  <1>2. SUFFICES ASSUME Ending \/ phase = "over"
                 PROVE  EndedWhole \/ MayEnd("up") \/ MayEnd("down") \/ MayFinish
    BY DEF NeverStuck
  <1>3. /\ task["up"] \in {"running", "ended", "failed"}
        /\ task["down"] \in {"running", "ended", "failed"}
        /\ task["up"] \in {"ended", "failed"} => "cloud" \in closed
        /\ task["down"] \in {"ended", "failed"} => "inverter" \in closed
    BY <1>2 DEF Closes, Ending, Sink
  <1>4. /\ task["up"] = "running" /\ (~alive["inverter"] \/ "inverter" \in closed)
               => MayEnd("up")
        /\ task["down"] = "running" /\ (~alive["cloud"] \/ "cloud" \in closed)
               => MayEnd("down")
    BY DEF MayEnd, Source
  <1>5. CASE Ending
    <2>1. /\ phase = "relay"
          /\ \/ ~alive["inverter"] \/ ~alive["cloud"]
             \/ task["up"] # "running" \/ task["down"] # "running"
      BY <1>1, <1>5 DEF Ending
    <2>2. \/ task["up"] = "failed" \/ task["down"] = "failed"
          \/ task["up"] = "ended" /\ task["down"] = "ended"
          => MayFinish
      BY <2>1 DEF MayFinish
    <2> QED  BY <1>3, <1>4, <2>1, <2>2
  <1>6. CASE phase = "over"
    <2>1. /\ ~listed /\ "inverter" \in closed
          /\ task["up"] # "running" \/ task["down"] # "running"
      BY <1>6 DEF Closes
    <2>2. CASE task["up"] # "running" /\ task["down"] # "running"
      BY <1>1, <1>3, <1>6, <2>1, <2>2 DEF EndedWhole
    <2> QED  BY <1>3, <1>4, <2>1, <2>2
  <1> QED
    BY <1>2, <1>5, <1>6

LEMMA StepForGood ==
    ASSUME Typed, BeforeRelay, Closes, Next
    PROVE  /\ Ending \/ phase = "over" => Ending' \/ phase' = "over"
           /\ phase = "over" => phase' = "over"
           /\ \A t \in {"up", "down"} :
                  /\ task[t] \in {"ended", "failed"} => task'[t] = task[t]
                  /\ MayEnd(t) => MayEnd(t)' \/ task'[t] \in {"ended", "failed"}
           /\ MayFinish => MayFinish' \/ phase' = "over"
  <1>1. CASE /\ phase \in {"accepted", "connecting"} /\ phase' \in {"connecting", "local"}
             /\ UNCHANGED <<task, closed>>
    <2>1. \A t \in {"up", "down"} : ~MayEnd(t) /\ task'[t] = task[t]
      BY <1>1 DEF MayEnd, BeforeRelay
    <2> QED  BY <1>1, <2>1 DEF Ending, MayFinish
  <1>2. CASE UpstreamConnects
    <2>1. phase = "connecting" /\ task["up"] = "idle" /\ task["down"] = "idle"
      <3>1. closed = {} /\ phase = "connecting"
            /\ task["up"] # "running" /\ task["down"] # "running"
        BY <1>2 DEF UpstreamConnects, BeforeRelay
      <3>2. \A t \in {"up", "down"} : task[t] \in {"idle", "running", "ended", "failed"}
        BY DEF Typed, SessionTyped
      <3> QED  BY <3>1, <3>2 DEF Closes
    <2> QED  BY <2>1 DEF Ending, MayEnd, MayFinish
  <1>3. CASE /\ phase \in {"relay", "over"} /\ UNCHANGED <<phase, alive>>
             /\ \E t \in {"up", "down"}, how \in {"ended", "failed"} :
                    task[t] = "running" /\ Over(t, how)
    <2>1. PICK t \in {"up", "down"}, how \in {"ended", "failed"} :
              task[t] = "running" /\ Over(t, how)
      BY <1>3
    <2>2. /\ task'[t] = how /\ closed' = closed \cup {Sink(t)}
          /\ \A s \in {"up", "down"} : s # t => task'[s] = task[s]
      BY <2>1, OverCloses
    <2>3. \A s \in {"up", "down"} :
              task[s] \in {"ended", "failed"} => task'[s] = task[s]
      BY <2>1, <2>2
    <2>4. \A s \in {"up", "down"} :
              MayEnd(s) => MayEnd(s)' \/ task'[s] \in {"ended", "failed"}
      BY <1>3, <2>2 DEF MayEnd, Source
    <2>5. Ending \/ phase = "over" => Ending' \/ phase' = "over"
      <3>1. task'[t] # "running"
        BY <2>2
      <3> QED  BY <1>3, <3>1 DEF Ending
    <2>6. MayFinish => MayFinish'
      <3>1. CASE \E s \in {"up", "down"} : task[s] = "failed"
        BY <1>3, <2>3, <3>1 DEF MayFinish
      <3>2. CASE \A s \in {"up", "down"} : task[s] = "ended"
        BY <2>1, <3>2
      <3> QED  BY <3>1, <3>2 DEF MayFinish
    <2> QED  BY <1>3, <2>3, <2>4, <2>5, <2>6
  <1>4. CASE Finish
    <2>1. /\ phase = "relay" /\ phase' = "over" /\ task' = task /\ alive' = alive
          /\ closed \subseteq closed'
      BY <1>4 DEF Finish, peerVars
    <2> QED  BY <2>1 DEF MayEnd, Source
  <1>5. CASE /\ UNCHANGED <<phase, task, closed>>
             /\ \A p \in Peer : ~alive[p] => ~alive'[p]
    <2>1. \A t \in {"up", "down"} : Source(t) \in Peer
      BY DEF Source, Peer
    <2> QED  BY <1>5, <2>1 DEF Ending, MayEnd, MayFinish, Source
  <1> QED
    BY <1>1, <1>2, <1>3, <1>4, <1>5, StepOfTheEnd

\* When a peer leaves or a direction fails, the finally clauses of the relay tasks
\* and of handle_client leave the Session no state to hang in: until both
\* connections are closed, both tasks over and the table entry gone, one of these
\* is possible, stays possible until it is done, and is not done again. With the
\* fairness of Ends and Finish this is why EndsTogether holds.
THEOREM SessionNeverHangs == Spec => []NeverStuck /\ EndsForGood
<1> DEFINE I == Typed /\ BeforeRelay /\ Closes
<1>1. Init => I
  <2>1. Init => BeforeRelay /\ Closes
    BY DEF Init, BeforeRelay, Closes
  <2> QED  BY <2>1, InitTyped
<1>2. I /\ [Next]_vars => I'
  <2>1. Typed /\ BeforeRelay /\ UNCHANGED vars => BeforeRelay'
    BY DEF BeforeRelay, vars, sessionVars, upVars, downVars, controlVars, peerVars
  <2> QED  BY <2>1, TypedStep, BeforeRelayStep, ClosesStep
<1>3. I => NeverStuck
  BY ClosesNeverStuck
<1>4. I /\ [Next]_vars =>
        [/\ Ending \/ phase = "over" => Ending' \/ phase' = "over"
         /\ phase = "over" => phase' = "over"
         /\ \A t \in {"up", "down"} :
                /\ task[t] \in {"ended", "failed"} => task'[t] = task[t]
                /\ MayEnd(t) => MayEnd(t)' \/ task'[t] \in {"ended", "failed"}
         /\ MayFinish => MayFinish' \/ phase' = "over"]_vars
  BY StepForGood
<1> HIDE DEF I
<1> QED  BY <1>1, <1>2, <1>3, <1>4, PTL DEF Spec, EndsForGood

=============================================================================
