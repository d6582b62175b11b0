-------------------------- MODULE PowerLimitProofs --------------------------
(***************************************************************************)
(* Proofs about PowerLimit for every set of Sessions and Percents, every   *)
(* bound and every choice of quirks of the inverter.                       *)
(***************************************************************************)
EXTENDS PowerLimit, SequenceTheorems, TLAPS

---------------------------------------------------------------------------
(* Sequences as the model uses them: one element appended, replaced, taken *)

\* Appending keeps the elements and adds one at the end.
LEMMA AppendFacts ==
    ASSUME NEW S, NEW q \in Seq(S), NEW e \in S
    PROVE  /\ Append(q, e) \in Seq(S)
           /\ Len(Append(q, e)) = Len(q) + 1
           /\ \A i \in 1..Len(q) : Append(q, e)[i] = q[i]
           /\ Append(q, e)[Len(q) + 1] = e
  OBVIOUS

\* Taking the head shifts the others.
LEMMA TailFacts ==
    ASSUME NEW S, NEW q \in Seq(S), q # <<>>
    PROVE  /\ Head(q) \in S /\ Head(q) = q[1] /\ 1 \in 1..Len(q)
           /\ Tail(q) \in Seq(S)
           /\ Len(Tail(q)) = Len(q) - 1
           /\ \A i \in 1..Len(Tail(q)) : Tail(q)[i] = q[i + 1] /\ i + 1 \in 1..Len(q)
  OBVIOUS

\* Replacing outside the domain changes nothing.
LEMMA ReplaceOutside ==
    ASSUME NEW S, NEW q \in Seq(S), NEW k, k \notin 1..Len(q), NEW e
    PROVE  [q EXCEPT ![k] = e] \in Seq(S)
  <1>1. q \in [1..Len(q) -> S] /\ DOMAIN q = 1..Len(q)
    BY LenProperties
  <1>2. [q EXCEPT ![k] = e] = q
    BY <1>1
  <1> QED
    BY <1>2

---------------------------------------------------------------------------
(* Types *)

\* The records the model builds have the types it declares.
LEMMA RecordTypes ==
    /\ Done \in Request
    /\ \A v \in Value, g \in Nat : Write(v, g) \in Request
    /\ \A v \in Value : Read(v) \in Request
    /\ \A k \in Nat, r \in Request : OnWire(k, r) \in WireRequest
    /\ \A kind \in FrameKind : Announcement(kind) \in Frame
    /\ \A kind \in ReplyKind, k \in Nat, v \in Value : Reply(kind, k, v) \in Frame
    /\ \A open \in BOOLEAN : NewSession(open) \in SessionState
  BY DEF Done, Write, Read, OnWire, Announcement, Reply, NewSession, Request, Status,
         WireRequest, Frame, Value, SessionState

\* Sending keeps the types of the two places it changes.
LEMMA SendTypes ==
    ASSUME TypeOK, NEW s \in Session, NEW reqs \in Seq(Request), NEW r \in Request,
           NEW outcome, Send(s, reqs, r, outcome)
    PROVE  requests' \in [Session -> Seq(Request)] /\ toInv' \in Seq(WireRequest)
  <1>1. \A e \in Request : Append(reqs, e) \in Seq(Request)
    BY AppendFacts
  <1>2. Len(reqs) + 1 \in Nat
    OBVIOUS
  <1>3. Append(toInv, OnWire(Len(reqs) + 1, r)) \in Seq(WireRequest)
    BY <1>2, RecordTypes, AppendFacts DEF TypeOK
  <1> QED
    BY <1>1, <1>3, RecordTypes DEF Send, TypeOK

\* Settling a request leaves a sequence of requests.
LEMMA FinishTypes ==
    ASSUME TypeOK, NEW s \in Session, NEW k \in Keys(s)
    PROVE  Finish(s, k) \in Seq(Request) /\ Len(Finish(s, k)) = Len(requests[s])
  BY RecordTypes, ExceptSeq DEF Finish, Keys, TypeOK

\* A frame from the inverter is appended to a sequence of frames.
LEMMA EmitTypes ==
    ASSUME TypeOK, peer \in Session, NEW f \in Frame, Emit(f)
    PROVE  fromInv' \in [Session -> Seq(Frame)]
  <1>1. fromInv \in [Session -> Seq(Frame)]
    BY DEF TypeOK
  <1>2. Append(fromInv[peer], f) \in Seq(Frame)
    BY <1>1, AppendFacts
  <1> QED
    BY <1>1, <1>2 DEF Emit

\* Receiving takes the head of a sequence of frames.
LEMMA ReceiveTypes ==
    ASSUME TypeOK, NEW s \in Session, NEW kind, Receive(s, kind)
    PROVE  fromInv' \in [Session -> Seq(Frame)] /\ Head(fromInv[s]) \in Frame
  BY TailFacts DEF Receive, TypeOK

\* Each operation of the loop, of a Session and of the inverter keeps the types.
LEMMA CommandTypes ==
    ASSUME TypeOK, (\E p \in Percent : HaCommand(p)) \/ RunSetpoint
    PROVE  TypeOK'
  <1> USE DEF appVars, routeVars, haVars, sessionVars, inverterVars
  <1> DEFINE Command == [session : Session, percent : Percent]
  <1>0. scheduled \in Seq(Command)
    BY DEF TypeOK
  <1>1. ASSUME NEW p \in Percent, HaCommand(p) PROVE TypeOK'
    <2>1. [session |-> handler, percent |-> p] \in Command
      BY <1>1 DEF HaCommand, TypeOK
    <2>2. scheduled' \in Seq(Command)
      BY <1>0, <1>1, <2>1, AppendFacts DEF HaCommand
    <2> QED
      BY <1>1, <2>2 DEF HaCommand, TypeOK
  <1>2. CASE RunSetpoint
    <2>1. Head(scheduled) \in Command /\ Tail(scheduled) \in Seq(Command)
      BY <1>0, <1>2, TailFacts DEF RunSetpoint
    <2> DEFINE c == Head(scheduled)
    <2>2. c.session \in Session /\ c.percent \in Percent /\ gen + 1 \in Nat
      BY <2>1 DEF TypeOK
    <2>3. Write(c.percent, gen + 1) \in Request /\ requests[c.session] \in Seq(Request)
      BY <2>2, RecordTypes DEF TypeOK, Value
    <2>4. PICK outcome \in SendOutcome(c.session) :
             /\ Send(c.session, requests[c.session], Write(c.percent, gen + 1), outcome)
             /\ result' = IF outcome = "sent" THEN result ELSE "unconfirmed"
      BY <1>2 DEF RunSetpoint, StartWrite
    <2>5. requests' \in [Session -> Seq(Request)] /\ toInv' \in Seq(WireRequest)
      BY <2>2, <2>3, <2>4, SendTypes
    <2> QED
      BY <1>2, <2>1, <2>2, <2>4, <2>5 DEF RunSetpoint, TypeOK, Value, Result
  <1> QED
    BY <1>1, <1>2

LEMMA TaskTypes ==
    ASSUME TypeOK, NEW s \in Session, SessionTasks(s)
    PROVE  TypeOK'
  <1> USE DEF appVars, routeVars, haVars, sessionVars, inverterVars
  <1>0. \A k \in Keys(s) : requests[s][k] \in Request /\ Finish(s, k) \in Seq(Request)
    BY FinishTypes, ElementOfSeq DEF TypeOK, Keys
  <1>1. ASSUME RunSettle(s) PROVE TypeOK'
    <2>1. session' \in [Session -> SessionState]
      BY <1>1 DEF RunSettle, TypeOK, SessionState
    <2>2. requests[s] \in Seq(Request) /\ Write(desired, gen) \in Request
          /\ Read(NoPercent) \in Request
      BY RecordTypes DEF TypeOK, Value
    <2>3. /\ requests' \in [Session -> Seq(Request)] /\ toInv' \in Seq(WireRequest)
          /\ result' \in Result
      BY <1>1, <2>2, SendTypes DEF RunSettle, StartWrite, StartRead, TypeOK, Result
    <2> QED
      BY <1>1, <2>1, <2>3 DEF RunSettle, TypeOK
  <1>2. ASSUME NEW k \in Keys(s), ConfirmWrite(s, k) PROVE TypeOK'
    <2>1. /\ requests[s][k].val \in Value /\ requests[s][k].gen \in Nat
          /\ Read(requests[s][k].val) \in Request
      BY <1>0, <1>2, RecordTypes DEF Request
    <2>2. requests' \in [Session -> Seq(Request)] /\ toInv' \in Seq(WireRequest)
      BY <1>0, <1>2, <2>1, SendTypes DEF ConfirmWrite, StartRead
    <2> QED
      BY <1>2, <2>1, <2>2 DEF ConfirmWrite, TypeOK, Result
  <1>3. ASSUME NEW k \in Keys(s),
               RejectWrite(s, k) \/ TimeoutWrite(s, k) \/ ReadbackTimeout(s, k)
        PROVE  TypeOK'
    BY <1>0, <1>3 DEF RejectWrite, TimeoutWrite, ReadbackTimeout, TypeOK, Result
  <1> QED
    BY <1>1, <1>2, <1>3 DEF SessionTasks

LEMMA FrameTypes ==
    ASSUME TypeOK, NEW s \in Session, HandleFrame(s)
    PROVE  TypeOK'
  <1> USE DEF appVars, routeVars, haVars, sessionVars, inverterVars
  <1>0. \A st \in SessionState : MaybeSettle(st) \in SessionState
    BY DEF MaybeSettle, SessionState
  <1>1. ASSUME HandleRegistration(s) \/ HandleProductInfo(s) \/ HandleOldProductInfo(s)
               \/ HandleTelemetry(s)
        PROVE  TypeOK'
    <2>1. fromInv' \in [Session -> Seq(Frame)]
      BY <1>1, ReceiveTypes DEF HandleRegistration, HandleProductInfo,
         HandleOldProductInfo, HandleTelemetry
    <2>2. session' \in [Session -> SessionState]
      <3>0. /\ session[s] \in SessionState
            /\ [session[s] EXCEPT !.serial = TRUE] \in SessionState
            /\ [session[s] EXCEPT !.wired = TRUE] \in SessionState
            /\ [session[s] EXCEPT !.wired = FALSE] \in SessionState
            /\ [session[s] EXCEPT !.telemetry = TRUE] \in SessionState
        BY DEF TypeOK, SessionState
      <3>1. ASSUME NEW st \in SessionState, session' = [session EXCEPT ![s] = st]
            PROVE  session' \in [Session -> SessionState]
        BY <3>1 DEF TypeOK
      <3> QED
        BY <1>0, <1>1, <3>0, <3>1 DEF HandleRegistration, HandleProductInfo,
           HandleOldProductInfo, HandleTelemetry, TypeOK
    <2> QED
      BY <1>1, <2>1, <2>2 DEF HandleRegistration, HandleProductInfo,
         HandleOldProductInfo, HandleTelemetry, TypeOK
  <1>2. ASSUME NEW kind \in {"write_ok", "write_exception"}, HandleWriteReply(s, kind)
        PROVE  TypeOK'
    <2>1. fromInv' \in [Session -> Seq(Frame)]
      BY <1>2, ReceiveTypes DEF HandleWriteReply
    <2> DEFINE k == Head(fromInv[s]).key
               st == IF kind = "write_ok" THEN "acked" ELSE "rejected"
    <2>2. [requests[s] EXCEPT ![k].st = st] \in Seq(Request)
      <3>0. requests[s] \in Seq(Request)
        BY DEF TypeOK
      <3>1. CASE k \in 1..Len(requests[s])
        <4>1. requests[s][k] \in Request
          BY <3>0, <3>1, ElementOfSeq
        <4>2. [requests[s][k] EXCEPT !.st = st] \in Request
          BY <4>1 DEF Request, Status
        <4>3. [requests[s] EXCEPT ![k] = [requests[s][k] EXCEPT !.st = st]] \in Seq(Request)
          BY <3>0, <3>1, <4>2, ExceptSeq
        <4> QED
          BY <4>3
      <3>2. CASE k \notin 1..Len(requests[s])
        BY <3>0, <3>2, ReplaceOutside
      <3> QED
        BY <3>1, <3>2
    <2>3. requests' \in [Session -> Seq(Request)]
      BY <1>2, <2>2 DEF HandleWriteReply, TypeOK
    <2> QED
      BY <1>2, <2>1, <2>3 DEF HandleWriteReply, TypeOK
  <1>3. ASSUME NEW kind \in {"read_value", "read_exception"}, HandleReadReply(s, kind)
        PROVE  TypeOK'
    <2>1. fromInv' \in [Session -> Seq(Frame)] /\ Head(fromInv[s]).val \in Value
      BY <1>3, ReceiveTypes DEF HandleReadReply, Frame
    <2> DEFINE k == Head(fromInv[s]).key
    <2>2. Finish(s, k) \in Seq(Request)
      <3>1. CASE k \in Keys(s)
        BY <3>1, FinishTypes
      <3>2. CASE k \notin Keys(s)
        BY <3>2, ReplaceOutside DEF Finish, Keys, TypeOK
      <3> QED
        BY <3>1, <3>2
    <2>3. requests' \in [Session -> Seq(Request)]
      BY <1>3, <2>2 DEF HandleReadReply, TypeOK
    <2> QED
      BY <1>3, <2>1, <2>3 DEF HandleReadReply, TypeOK
  <1> QED
    BY <1>1, <1>2, <1>3 DEF HandleFrame

LEMMA ConnectionTypes ==
    ASSUME TypeOK,
           (\E s \in Session : Connect(s) \/ Close(s)) \/ InverterDrops
    PROVE  TypeOK'
  <1> USE RecordTypes, EmptySeq
          DEF appVars, routeVars, haVars, sessionVars, inverterVars
  <1>1. ASSUME NEW s \in Session, Connect(s) PROVE TypeOK'
    BY <1>1 DEF Connect, TypeOK
  <1>2. ASSUME NEW s \in Session, Close(s) PROVE TypeOK'
    <2>1. [NewSession(FALSE) EXCEPT !.settle = session[s].settle] \in SessionState
      BY DEF TypeOK, SessionState, NewSession
    <2> QED
      BY <1>2, <2>1 DEF Close, TypeOK
  <1>3. CASE InverterDrops
    BY <1>3 DEF InverterDrops, TypeOK
  <1> QED
    BY <1>1, <1>2, <1>3

LEMMA InverterTypes ==
    ASSUME TypeOK, (\E kind \in FrameKind : InverterAnnounces(kind)) \/ InverterServes
    PROVE  TypeOK'
  <1> USE DEF appVars, routeVars, haVars, sessionVars, inverterVars
  <1>1. ASSUME NEW kind \in FrameKind, InverterAnnounces(kind) PROVE TypeOK'
    <2>1. fromInv' \in [Session -> Seq(Frame)]
      BY <1>1, RecordTypes, EmitTypes DEF InverterAnnounces, TypeOK
    <2> QED
      BY <1>1, <2>1 DEF InverterAnnounces, TypeOK
  <1>2. ASSUME NEW op, Served(op)
        PROVE  /\ peer \in Session
               /\ Head(toInv).key \in Nat /\ Head(toInv).val \in Value
               /\ Head(toInv).gen \in Nat /\ toInv' \in Seq(WireRequest)
    <2>1. Head(toInv) \in WireRequest /\ Tail(toInv) \in Seq(WireRequest)
      BY <1>2, TailFacts DEF Served, TypeOK
    <2> QED
      BY <1>2, <2>1 DEF Served, TypeOK, WireRequest
  <1>3. \A kind \in ReplyKind, v \in Value : Head(toInv).key \in Nat =>
            Reply(kind, Head(toInv).key, v) \in Frame
    BY RecordTypes
  <1>4. ASSUME NEW answers \in BOOLEAN, InverterWrites(answers) PROVE TypeOK'
    <2>1. fromInv' \in [Session -> Seq(Frame)]
      BY <1>2, <1>3, <1>4, EmitTypes DEF InverterWrites, TypeOK, ReplyKind, Value
    <2> QED
      BY <1>2, <1>4, <2>1 DEF InverterWrites, TypeOK
  <1>5. ASSUME NEW answers \in BOOLEAN, InverterRefuses(answers) PROVE TypeOK'
    <2>1. fromInv' \in [Session -> Seq(Frame)]
      BY <1>2, <1>3, <1>5, EmitTypes DEF InverterRefuses, TypeOK, ReplyKind, Value
    <2> QED
      BY <1>2, <1>5, <2>1 DEF InverterRefuses, TypeOK
  <1>6. ASSUME NEW kind \in {"read_value", "read_exception"}, InverterReads(kind)
        PROVE  TypeOK'
    <2>1. fromInv' \in [Session -> Seq(Frame)]
      BY <1>2, <1>3, <1>6, EmitTypes DEF InverterReads, TypeOK, ReplyKind, Value
    <2> QED
      BY <1>2, <1>6, <2>1 DEF InverterReads, TypeOK
  <1> QED
    BY <1>1, <1>4, <1>5, <1>6 DEF InverterServes

\* Every variable keeps its type, whatever the gateway and the inverter do.
THEOREM TypeCorrect == Spec => []TypeOK
  <1>1. Init => TypeOK
    <2> SUFFICES ASSUME Init PROVE TypeOK
      OBVIOUS
    <2>1. /\ scheduled \in Seq([session : Session, percent : Percent])
          /\ toInv \in Seq(WireRequest)
      BY DEF Init
    <2>2. /\ requests \in [Session -> Seq(Request)]
          /\ fromInv \in [Session -> Seq(Frame)]
      BY DEF Init
    <2>3. session \in [Session -> SessionState]
      BY RecordTypes DEF Init
    <2> QED
      BY <2>1, <2>2, <2>3 DEF Init, TypeOK, Value, Result
  <1>2. TypeOK /\ [Next]_vars => TypeOK'
    <2> SUFFICES ASSUME TypeOK, [Next]_vars PROVE TypeOK'
      OBVIOUS
    <2>1. CASE Next
      BY <2>1, CommandTypes, TaskTypes, FrameTypes, ConnectionTypes, InverterTypes DEF Next
    <2>2. CASE UNCHANGED vars
      BY <2>2 DEF vars, appVars, routeVars, haVars, sessionVars, inverterVars, TypeOK
    <2> QED
      BY <2>1, <2>2
  <1> QED
    BY <1>1, <1>2, PTL DEF Spec

---------------------------------------------------------------------------
(* The inductive invariant *)

\* Generations are numbers wherever they are kept.
LEMMA GenTypes ==
    ASSUME TypeOK
    PROVE  /\ \A i \in 1..Len(toInv) : toInv[i].gen \in Nat
           /\ \A t \in Session : \A k \in Keys(t) : requests[t][k].gen \in Nat
  <1>1. toInv \in Seq(WireRequest) /\ \A t \in Session : requests[t] \in Seq(Request)
    BY DEF TypeOK
  <1>2. \A i \in 1..Len(toInv) : toInv[i] \in WireRequest
    BY <1>1, ElementOfSeq
  <1>3. \A t \in Session : \A k \in 1..Len(requests[t]) : requests[t][k] \in Request
    BY <1>1, ElementOfSeq
  <1> QED
    BY <1>2, <1>3 DEF WireRequest, Request, Keys

\* A request that kept its command and is acknowledged only if executed.
Tamer(old, new) ==
    new.op = "write" =>
        /\ old.op = "write" /\ new.gen = old.gen
        /\ new.st = "acked" => old.st = "acked" \/ new.gen \in executed

\* Steps inside the gateway that send nothing: requests are settled or dropped,
\* frames are consumed, and nothing the invariant speaks of is added.
LEMMA QuietStep ==
    ASSUME TypeOK, Inductive,
           UNCHANGED <<desired, gen, confirmedGen, landed, executed, register, peer, toInv>>,
           \A t \in Session : ~session'[t].open => fromInv'[t] = <<>>,
           \A t \in Session :
               /\ Len(requests'[t]) = Len(requests[t])
               /\ \A k \in Keys(t) : Tamer(requests[t][k], requests'[t][k]),
           \A t \in Session : \A i \in 1..Len(fromInv'[t]) :
               \E j \in 1..Len(fromInv[t]) : fromInv'[t][i] = fromInv[t][j]
    PROVE  Inductive'
  <1>1. GensOrdered' /\ NewestIsInRegister' /\ WireSound' /\ WireOrdered' /\ NoPeerNoWire'
    BY DEF Inductive, GensOrdered, NewestIsInRegister, WireSound, WireOrdered, NoPeerNoWire
  <1>2. ClosedIsSilent'
    BY DEF ClosedIsSilent
  <1>3. WireKeyed'
    BY DEF Inductive, WireKeyed, Keys, IsWrite, Tamer
  <1>4. AcksEarned'
    BY DEF Inductive, AcksEarned, Keys, IsWrite, Tamer
  <1>5. RepliesKeyed'
    <2> SUFFICES ASSUME NEW t \in Session, NEW i \in 1..Len(fromInv'[t]),
                        fromInv'[t][i].kind \in ReplyKind
                 PROVE  LET k == fromInv'[t][i].key IN
                        /\ k \in 1..Len(requests'[t])
                        /\ fromInv'[t][i].kind = "write_ok" /\ requests'[t][k].op = "write" =>
                               requests'[t][k].gen \in executed'
      BY DEF RepliesKeyed, Keys, IsWrite
    <2>1. PICK j \in 1..Len(fromInv[t]) : fromInv'[t][i] = fromInv[t][j]
      OBVIOUS
    <2>2. /\ fromInv[t][j].key \in Keys(t)
          /\ fromInv[t][j].kind = "write_ok" /\ IsWrite(t, fromInv[t][j].key) =>
                 requests[t][fromInv[t][j].key].gen \in executed
      BY <2>1 DEF Inductive, RepliesKeyed
    <2> QED
      BY <2>1, <2>2 DEF Keys, IsWrite, Tamer
  <1> QED
    BY <1>1, <1>2, <1>3, <1>4, <1>5 DEF Inductive

\* What Send does to the requests of its Session and to the wire.
LEMMA SendEffect ==
    ASSUME TypeOK, NEW s \in Session, NEW reqs \in Seq(Request), NEW r \in Request,
           NEW outcome, Send(s, reqs, r, outcome)
    PROVE  /\ \A t \in Session : t # s => requests'[t] = requests[t]
           /\ Len(requests'[s]) = Len(reqs) + 1
           /\ \A k \in 1..Len(reqs) : requests'[s][k] = reqs[k]
           /\ requests'[s][Len(reqs) + 1] \in {r, Done}
           /\ \/ toInv' = toInv
              \/ /\ peer = s
                 /\ requests'[s][Len(reqs) + 1] = r
                 /\ Len(toInv') = Len(toInv) + 1
                 /\ \A i \in 1..Len(toInv) : toInv'[i] = toInv[i]
                 /\ toInv'[Len(toInv) + 1] = OnWire(Len(reqs) + 1, r)
  <1> DEFINE e == IF outcome = "sent" THEN r ELSE Done
  <1>1. e \in Request
    BY RecordTypes
  <1>2. requests' = [requests EXCEPT ![s] = Append(reqs, e)]
    BY DEF Send
  <1>3. requests'[s] = Append(reqs, e) /\ \A t \in Session : t # s => requests'[t] = requests[t]
    BY <1>2 DEF TypeOK
  <1>4. OnWire(Len(reqs) + 1, r) \in WireRequest /\ toInv \in Seq(WireRequest)
    BY RecordTypes DEF TypeOK
  <1>5. CASE outcome = "sent" /\ peer = s
    <2>1. toInv' = Append(toInv, OnWire(Len(reqs) + 1, r))
      BY <1>5 DEF Send
    <2> QED
      BY <1>1, <1>3, <1>4, <1>5, <2>1, AppendFacts
  <1>6. CASE ~(outcome = "sent" /\ peer = s)
    <2>1. toInv' = toInv
      BY <1>6 DEF Send
    <2> QED
      BY <1>1, <1>3, <2>1, AppendFacts
  <1> QED
    BY <1>5, <1>6

\* Sending the newest command, or a read, keeps the invariant on requests and
\* wire; reqs are the requests of the Session, some of them just finished.
LEMMA SendStep ==
    ASSUME TypeOK, Inductive,
           NEW s \in Session, NEW reqs \in Seq(Request), NEW r \in Request, NEW outcome,
           Send(s, reqs, r, outcome),
           Len(reqs) = Len(requests[s]),
           \A k \in Keys(s) : reqs[k] \in {requests[s][k], Done},
           r.st = "waiting",
           r.op = "write" => /\ r.gen = gen' /\ r.val = desired'
                             /\ r.val \in Percent /\ 0 < gen',
           gen' \in Nat, gen < gen' \/ (gen' = gen /\ desired' = desired),
           \A t \in Session : session'[t].open = session[t].open,
           UNCHANGED <<landed, executed, register, peer, fromInv>>
    PROVE  /\ WireSound' /\ WireOrdered' /\ WireKeyed' /\ RepliesKeyed' /\ AcksEarned'
           /\ ClosedIsSilent' /\ NoPeerNoWire'
  <1> DEFINE n == Len(reqs) + 1
  <1>0. /\ \A t \in Session : t # s => requests'[t] = requests[t]
        /\ Len(requests'[s]) = n
        /\ \A k \in 1..Len(reqs) : requests'[s][k] = reqs[k]
        /\ requests'[s][n] \in {r, Done}
        /\ \/ toInv' = toInv
           \/ /\ peer = s
              /\ requests'[s][n] = r
              /\ Len(toInv') = Len(toInv) + 1
              /\ \A i \in 1..Len(toInv) : toInv'[i] = toInv[i]
              /\ toInv'[Len(toInv) + 1] = OnWire(n, r)
    BY SendEffect
  <1>1. landed \in Nat /\ gen \in Nat /\ landed <= gen /\ r.gen \in Nat
    BY DEF TypeOK, Inductive, GensOrdered, Request
  <1>2. Len(toInv) \in Nat /\ \A i \in 1..Len(toInv) : toInv[i].gen \in Nat
    BY GenTypes, LenProperties DEF TypeOK
  <1>3. \A t \in Session : Len(requests[t]) \in Nat
    BY LenProperties DEF TypeOK
  <1>4. \A t \in Session : \A k \in Keys(t) :
            k \in Keys(t)' /\ requests'[t][k] \in {requests[t][k], Done}
    BY <1>0, <1>3 DEF Keys
  <1>5. \A t \in Session : \A k \in Keys(t)' :
            k \in Keys(t) \/ (t = s /\ k = n /\ requests'[t][k] \in {r, Done})
    <2> SUFFICES ASSUME NEW t \in Session, NEW k \in 1..Len(requests'[t])
                 PROVE  k \in 1..Len(requests[t]) \/ (t = s /\ k = n /\ requests'[t][k] \in {r, Done})
      BY DEF Keys
    <2>1. CASE t # s
      BY <1>0, <2>1
    <2>2. CASE t = s
      BY <1>0, <1>3, <2>2
    <2> QED
      BY <2>1, <2>2
  <1>6. Done.op # "write" /\ r.st # "acked" /\ Done.st # "acked"
    BY DEF Done
  <1>7. AcksEarned'
    BY <1>4, <1>5, <1>6 DEF Inductive, AcksEarned, IsWrite
  <1>8. RepliesKeyed'
    BY <1>4, <1>6 DEF Inductive, RepliesKeyed, IsWrite
  <1>9. ClosedIsSilent'
    BY DEF Inductive, ClosedIsSilent
  <1>10. CASE toInv' = toInv
    <2>1. WireSound' /\ WireOrdered' /\ NoPeerNoWire'
      <3>1. NoPeerNoWire' /\ WireOrdered'
        BY <1>10 DEF Inductive, WireOrdered, NoPeerNoWire
      <3>2. WireSound'
        BY <1>1, <1>2, <1>10 DEF Inductive, WireSound
      <3> QED
        BY <3>1, <3>2
    <2>2. WireKeyed'
      BY <1>4, <1>6, <1>10 DEF Inductive, WireKeyed, IsWrite
    <2> QED
      BY <2>1, <2>2, <1>7, <1>8, <1>9
  <1>11. CASE /\ peer = s /\ requests'[s][n] = r
              /\ Len(toInv') = Len(toInv) + 1
              /\ \A i \in 1..Len(toInv) : toInv'[i] = toInv[i]
              /\ toInv'[Len(toInv) + 1] = OnWire(n, r)
    <2> DEFINE m == Len(toInv) + 1
    <2>1. /\ toInv'[m].key = n /\ toInv'[m].op = r.op
          /\ toInv'[m].val = r.val /\ toInv'[m].gen = r.gen
      BY <1>11 DEF OnWire
    <2>2. \A i \in 1..Len(toInv') : (i \in 1..Len(toInv) /\ toInv'[i] = toInv[i]) \/ i = m
      BY <1>2, <1>11
    <2>3. WireSound'
      <3> SUFFICES ASSUME NEW i \in 1..Len(toInv'), toInv'[i].op = "write"
                   PROVE  /\ toInv'[i].val \in Percent /\ 0 < toInv'[i].gen
                          /\ landed <= toInv'[i].gen /\ toInv'[i].gen <= gen'
                          /\ toInv'[i].gen = gen' => toInv'[i].val = desired'
                          /\ toInv'[i].gen = landed => toInv'[i].val = register
        BY DEF WireSound
      <3>1. CASE i \in 1..Len(toInv) /\ toInv'[i] = toInv[i]
        BY <1>1, <1>2, <3>1 DEF Inductive, WireSound
      <3>2. CASE i = m
        BY <1>1, <2>1, <3>2 DEF Inductive, NewestIsInRegister
      <3> QED
        BY <2>2, <3>1, <3>2
    <2>4. WireOrdered'
      <3> SUFFICES ASSUME NEW i \in 1..Len(toInv'), NEW j \in 1..Len(toInv'), i < j,
                          toInv'[i].op = "write", toInv'[j].op = "write"
                   PROVE  /\ toInv'[i].gen <= toInv'[j].gen
                          /\ toInv'[i].gen = toInv'[j].gen => toInv'[i].val = toInv'[j].val
        BY DEF WireOrdered
      <3>1. i \in 1..Len(toInv) /\ toInv'[i] = toInv[i]
        BY <1>2, <1>11, <2>2
      <3>2. CASE j \in 1..Len(toInv) /\ toInv'[j] = toInv[j]
        BY <3>1, <3>2 DEF Inductive, WireOrdered
      <3>3. CASE j = m
        BY <1>1, <1>2, <2>1, <3>1, <3>3 DEF Inductive, WireSound
      <3> QED
        BY <2>2, <3>2, <3>3
    <2>5. WireKeyed'
      <3> SUFFICES ASSUME NEW i \in 1..Len(toInv')
                   PROVE  LET k == toInv'[i].key IN
                          /\ k \in 1..Len(requests'[s])
                          /\ toInv'[i].op = "write" /\ requests'[s][k].op = "write" =>
                                 requests'[s][k].gen = toInv'[i].gen
        BY <1>11 DEF WireKeyed, Keys, IsWrite
      <3>1. CASE i \in 1..Len(toInv) /\ toInv'[i] = toInv[i]
        <4> DEFINE k == toInv[i].key
        <4>1. /\ k \in Keys(s)
              /\ toInv[i].op = "write" /\ requests[s][k].op = "write" =>
                     requests[s][k].gen = toInv[i].gen
          BY <1>11, <3>1 DEF Inductive, WireKeyed, IsWrite
        <4>2. k \in 1..Len(requests'[s]) /\ requests'[s][k] \in {requests[s][k], Done}
          BY <1>4, <4>1 DEF Keys
        <4> QED
          BY <1>6, <3>1, <4>1, <4>2
      <3>2. CASE i = m
        BY <1>0, <1>3, <1>11, <2>1, <3>2 DEF Keys
      <3> QED
        BY <2>2, <3>1, <3>2
    <2>6. NoPeerNoWire'
      BY <1>11, SessionAssumption DEF NoPeerNoWire
    <2> QED
      BY <2>3, <2>4, <2>5, <2>6, <1>7, <1>8, <1>9
  <1> QED
    BY <1>0, <1>10, <1>11

\* Settling one request, or none, is a quiet change of the requests.
LEMMA FinishIsQuiet ==
    ASSUME TypeOK, NEW s \in Session,
           \/ requests' = requests
           \/ \E k \in Keys(s) : requests' = [requests EXCEPT ![s] = Finish(s, k)]
    PROVE  \A t \in Session :
               /\ Len(requests'[t]) = Len(requests[t])
               /\ \A k \in Keys(t) : Tamer(requests[t][k], requests'[t][k])
  <1>1. CASE requests' = requests
    BY <1>1 DEF Tamer
  <1>2. ASSUME NEW j \in Keys(s), requests' = [requests EXCEPT ![s] = Finish(s, j)]
        PROVE  \A t \in Session :
                   /\ Len(requests'[t]) = Len(requests[t])
                   /\ \A k \in Keys(t) : Tamer(requests[t][k], requests'[t][k])
    <2>1. /\ Len(Finish(s, j)) = Len(requests[s])
          /\ \A k \in Keys(s) : Finish(s, j)[k] = IF k = j THEN Done ELSE requests[s][k]
      BY RecordTypes, ExceptSeq DEF Finish, Keys, TypeOK
    <2>2. requests'[s] = Finish(s, j) /\ \A t \in Session : t # s => requests'[t] = requests[t]
      BY <1>2 DEF TypeOK
    <2>3. \A k \in Keys(s) : Tamer(requests[s][k], requests'[s][k])
      BY <2>1, <2>2 DEF Tamer, Done
    <2>4. \A t \in Session : t # s => \A k \in Keys(t) : Tamer(requests[t][k], requests'[t][k])
      BY <2>2 DEF Tamer
    <2> QED
      BY <2>1, <2>2, <2>3, <2>4
  <1> QED
    BY <1>1, <1>2

\* Receiving a frame adds none, and only an open Session receives.
LEMMA ReceiveIsQuiet ==
    ASSUME TypeOK, Inductive, NEW s \in Session, NEW kind, Receive(s, kind)
    PROVE  /\ session[s].open /\ 1 \in 1..Len(fromInv[s]) /\ Head(fromInv[s]) = fromInv[s][1]
           /\ \A t \in Session : t # s => fromInv'[t] = fromInv[t]
           /\ \A t \in Session : \A i \in 1..Len(fromInv'[t]) :
                  \E j \in 1..Len(fromInv[t]) : fromInv'[t][i] = fromInv[t][j]
  <1>1. fromInv[s] \in Seq(Frame) /\ fromInv[s] # <<>>
    BY DEF Receive, TypeOK
  <1>2. fromInv'[s] = Tail(fromInv[s]) /\ \A t \in Session : t # s => fromInv'[t] = fromInv[t]
    BY DEF Receive, TypeOK
  <1>3. \A i \in 1..Len(fromInv'[s]) :
            i + 1 \in 1..Len(fromInv[s]) /\ fromInv'[s][i] = fromInv[s][i + 1]
    BY <1>1, <1>2, TailFacts
  <1> QED
    BY <1>1, <1>2, <1>3, TailFacts DEF Receive

LEMMA TaskStep ==
    ASSUME TypeOK, Inductive, NEW s \in Session, NEW k \in Keys(s),
           RejectWrite(s, k) \/ TimeoutWrite(s, k) \/ ReadbackTimeout(s, k)
    PROVE  Inductive'
  <1> USE DEF appVars, routeVars, haVars, inverterVars
  <1>1. /\ requests' = [requests EXCEPT ![s] = Finish(s, k)]
        /\ UNCHANGED <<appVars, session, fromInv, inverterVars>>
    BY DEF RejectWrite, TimeoutWrite, ReadbackTimeout
  <1>2. \A t \in Session : /\ Len(requests'[t]) = Len(requests[t])
                           /\ \A j \in Keys(t) : Tamer(requests[t][j], requests'[t][j])
    BY <1>1, FinishIsQuiet
  <1>3. \A t \in Session : ~session'[t].open => fromInv'[t] = <<>>
    BY <1>1 DEF Inductive, ClosedIsSilent
  <1>4. \A t \in Session : \A i \in 1..Len(fromInv'[t]) :
            \E j \in 1..Len(fromInv[t]) : fromInv'[t][i] = fromInv[t][j]
    BY <1>1
  <1> QED
    BY <1>1, <1>2, <1>3, <1>4, QuietStep

LEMMA FrameStep ==
    ASSUME TypeOK, Inductive, NEW s \in Session, HandleFrame(s)
    PROVE  Inductive'
  <1> USE DEF appVars, routeVars, haVars, inverterVars
  <1>1. ASSUME HandleRegistration(s) \/ HandleProductInfo(s) \/ HandleOldProductInfo(s)
               \/ HandleTelemetry(s)
        PROVE  Inductive'
    <2>1. PICK kind : Receive(s, kind)
      BY <1>1 DEF HandleRegistration, HandleProductInfo, HandleOldProductInfo, HandleTelemetry
    <2>2. requests' = requests /\ UNCHANGED <<appVars, inverterVars>>
      BY <1>1 DEF HandleRegistration, HandleProductInfo, HandleOldProductInfo, HandleTelemetry
    <2>3. \A t \in Session : session'[t].open = session[t].open
      <3>0. session[s] \in SessionState
        BY DEF TypeOK
      <3>1. \A st \in SessionState : MaybeSettle(st).open = st.open
        BY DEF MaybeSettle, SessionState
      <3>2. \A st \in {[session[s] EXCEPT !.serial = TRUE], [session[s] EXCEPT !.wired = TRUE],
                       [session[s] EXCEPT !.wired = FALSE], [session[s] EXCEPT !.telemetry = TRUE]} :
                st \in SessionState /\ st.open = session[s].open
        BY <3>0 DEF SessionState
      <3>3. ASSUME NEW st, st.open = session[s].open, session' = [session EXCEPT ![s] = st]
            PROVE  \A t \in Session : session'[t].open = session[t].open
        BY <3>3 DEF TypeOK
      <3> QED
        BY <1>1, <3>1, <3>2, <3>3 DEF HandleRegistration, HandleProductInfo,
           HandleOldProductInfo, HandleTelemetry
    <2>4. \A t \in Session : ~session'[t].open => fromInv'[t] = <<>>
      BY <2>1, <2>3, ReceiveIsQuiet DEF Inductive, ClosedIsSilent
    <2> QED
      BY <2>1, <2>2, <2>4, FinishIsQuiet, ReceiveIsQuiet, QuietStep
  <1>2. ASSUME NEW kind \in {"write_ok", "write_exception"}, HandleWriteReply(s, kind)
        PROVE  Inductive'
    <2> DEFINE k == Head(fromInv[s]).key
               st == IF kind = "write_ok" THEN "acked" ELSE "rejected"
    <2>1. Receive(s, kind) /\ UNCHANGED <<session, appVars, inverterVars>>
      BY <1>2 DEF HandleWriteReply
    <2>2. \A t \in Session : ~session'[t].open => fromInv'[t] = <<>>
      BY <2>1, ReceiveIsQuiet DEF Inductive, ClosedIsSilent
    <2>3. k \in Keys(s) /\ (kind = "write_ok" /\ IsWrite(s, k) => requests[s][k].gen \in executed)
      BY <2>1, ReceiveIsQuiet DEF Receive, Inductive, RepliesKeyed, ReplyKind
    <2>4. CASE requests' = requests
      BY <2>1, <2>2, <2>4, FinishIsQuiet, ReceiveIsQuiet, QuietStep
    <2>5. CASE IsWrite(s, k) /\ requests' = [requests EXCEPT ![s][k].st = st]
      <3>1. requests[s] \in Seq(Request) /\ requests[s][k] \in Request
        BY <2>3, ElementOfSeq DEF TypeOK, Keys
      <3>2. [requests[s][k] EXCEPT !.st = st] \in Request
        BY <3>1 DEF Request, Status
      <3>3. /\ Len(requests'[s]) = Len(requests[s])
            /\ \A j \in Keys(s) : requests'[s][j] =
                   IF j = k THEN [requests[s][k] EXCEPT !.st = st] ELSE requests[s][j]
        BY <2>3, <2>5, <3>1, <3>2, ExceptSeq DEF TypeOK, Keys
      <3>4. \A t \in Session : t # s => requests'[t] = requests[t]
        BY <2>5 DEF TypeOK
      <3>5. Tamer(requests[s][k], [requests[s][k] EXCEPT !.st = st])
        BY <2>3, <2>5, <3>1 DEF Tamer, Request, IsWrite
      <3>6. \A t \in Session : /\ Len(requests'[t]) = Len(requests[t])
                               /\ \A j \in Keys(t) : Tamer(requests[t][j], requests'[t][j])
        BY <3>3, <3>4, <3>5 DEF Tamer
      <3> QED
        BY <2>1, <2>2, <3>6, ReceiveIsQuiet, QuietStep
    <2> QED
      BY <1>2, <2>4, <2>5 DEF HandleWriteReply
  <1>3. ASSUME NEW kind \in {"read_value", "read_exception"}, HandleReadReply(s, kind)
        PROVE  Inductive'
    <2> DEFINE k == Head(fromInv[s]).key
    <2>1. Receive(s, kind) /\ UNCHANGED <<session, appVars, inverterVars>>
      BY <1>3 DEF HandleReadReply
    <2>2. \A t \in Session : ~session'[t].open => fromInv'[t] = <<>>
      BY <2>1, ReceiveIsQuiet DEF Inductive, ClosedIsSilent
    <2>3. k \in Keys(s)
      BY <2>1, ReceiveIsQuiet DEF Receive, Inductive, RepliesKeyed, ReplyKind
    <2>4. requests' = requests \/ requests' = [requests EXCEPT ![s] = Finish(s, k)]
      BY <1>3 DEF HandleReadReply
    <2> QED
      BY <2>1, <2>2, <2>3, <2>4, FinishIsQuiet, ReceiveIsQuiet, QuietStep
  <1> QED
    BY <1>1, <1>2, <1>3 DEF HandleFrame

\* The loop starts a setpoint, or the startup work of a Session, or confirms a
\* write: the three steps that send a request.
LEMMA SendingStep ==
    ASSUME TypeOK, Inductive,
           \/ RunSetpoint
           \/ \E s \in Session : \/ RunSettle(s)
                                 \/ \E k \in Keys(s) : ConfirmWrite(s, k)
    PROVE  Inductive'
  <1> USE DEF appVars, routeVars, haVars, inverterVars
  <1>0. /\ gen \in Nat /\ landed \in Nat /\ confirmedGen \in Nat
        /\ confirmedGen <= landed /\ landed <= gen
        /\ \A t \in Session : requests[t] \in Seq(Request)
    BY DEF TypeOK, Inductive, GensOrdered
  <1>1. CASE RunSetpoint
    <2> DEFINE c == Head(scheduled)
    <2>1. c \in [session : Session, percent : Percent]
      BY <1>1, TailFacts DEF RunSetpoint, TypeOK
    <2>2. /\ c.session \in Session /\ c.percent \in Percent
          /\ gen' = gen + 1 /\ desired' = c.percent
          /\ UNCHANGED <<confirmedGen, session, fromInv, peer, register, landed, executed>>
      BY <1>1, <2>1 DEF RunSetpoint
    <2>3. PICK outcome :
             Send(c.session, requests[c.session], Write(c.percent, gen + 1), outcome)
      BY <1>1 DEF RunSetpoint, StartWrite
    <2>4. /\ Write(c.percent, gen + 1) \in Request
          /\ Write(c.percent, gen + 1).st = "waiting"
          /\ Write(c.percent, gen + 1).gen = gen + 1
          /\ Write(c.percent, gen + 1).val = c.percent
      BY <1>0, <2>2, RecordTypes DEF Write, Value
    <2>5. /\ WireSound' /\ WireOrdered' /\ WireKeyed' /\ RepliesKeyed' /\ AcksEarned'
          /\ ClosedIsSilent' /\ NoPeerNoWire'
      BY <1>0, <2>2, <2>3, <2>4, SendStep
    <2>6. GensOrdered' /\ NewestIsInRegister'
      BY <1>0, <2>2 DEF Inductive, GensOrdered, NewestIsInRegister
    <2> QED
      BY <2>5, <2>6 DEF Inductive
  <1>2. ASSUME NEW s \in Session, RunSettle(s) PROVE Inductive'
    <2>1. UNCHANGED <<desired, gen, confirmedGen, fromInv, peer, register, landed, executed>>
      BY <1>2 DEF RunSettle
    <2>2. \A t \in Session : session'[t].open = session[t].open
      BY <1>2 DEF RunSettle, TypeOK, SessionState
    <2> DEFINE Sent(r) == \E outcome : Send(s, requests[s], r, outcome)
    <2>3. \/ Sent(Write(desired, gen)) /\ gen > 0
          \/ Sent(Read(NoPercent))
      BY <1>2 DEF RunSettle, StartWrite, StartRead, Pending
    <2>4. /\ Write(desired, gen) \in Request /\ Write(desired, gen).st = "waiting"
          /\ Write(desired, gen).gen = gen /\ Write(desired, gen).val = desired
          /\ Read(NoPercent) \in Request /\ Read(NoPercent).st = "waiting"
          /\ Read(NoPercent).op # "write"
      BY RecordTypes DEF Write, Read, TypeOK, Value
    <2>5. /\ WireSound' /\ WireOrdered' /\ WireKeyed' /\ RepliesKeyed' /\ AcksEarned'
          /\ ClosedIsSilent' /\ NoPeerNoWire'
      <3>1. CASE Sent(Write(desired, gen)) /\ gen > 0
        BY <1>0, <2>1, <2>2, <2>4, <3>1, SendStep DEF Inductive, NewestIsInRegister
      <3>2. CASE Sent(Read(NoPercent))
        BY <1>0, <2>1, <2>2, <2>4, <3>2, SendStep
      <3> QED
        BY <2>3, <3>1, <3>2
    <2>6. GensOrdered' /\ NewestIsInRegister'
      BY <2>1 DEF Inductive, GensOrdered, NewestIsInRegister
    <2> QED
      BY <2>5, <2>6 DEF Inductive
  <1>3. ASSUME NEW s \in Session, NEW k \in Keys(s), ConfirmWrite(s, k) PROVE Inductive'
    <2> DEFINE q == requests[s][k]
    <2>1. UNCHANGED <<desired, gen, session, fromInv, peer, register, landed, executed>>
      BY <1>3 DEF ConfirmWrite
    <2>2. q \in Request /\ Read(q.val) \in Request
      <3>1. q \in Request
        BY <1>0, ElementOfSeq DEF Keys
      <3>2. q.val \in Value
        BY <3>1 DEF Request
      <3> QED
        BY <3>1, <3>2, RecordTypes
    <2>3. PICK outcome : Send(s, Finish(s, k), Read(q.val), outcome)
      BY <1>3 DEF ConfirmWrite, StartRead
    <2>4. /\ Finish(s, k) \in Seq(Request) /\ Len(Finish(s, k)) = Len(requests[s])
          /\ \A j \in Keys(s) : Finish(s, k)[j] \in {requests[s][j], Done}
      BY <1>0, RecordTypes, ExceptSeq DEF Finish, Keys
    <2>5. Read(q.val).st = "waiting" /\ Read(q.val).op # "write"
      BY DEF Read
    <2>6. /\ WireSound' /\ WireOrdered' /\ WireKeyed' /\ RepliesKeyed' /\ AcksEarned'
          /\ ClosedIsSilent' /\ NoPeerNoWire'
      BY <1>0, <2>1, <2>2, <2>3, <2>4, <2>5, SendStep
    <2>7. q.gen <= landed
      BY <1>3 DEF ConfirmWrite, Inductive, AcksEarned, GensOrdered
    <2>8. GensOrdered' /\ NewestIsInRegister'
      BY <1>0, <1>3, <2>1, <2>7
         DEF ConfirmWrite, Inductive, GensOrdered, NewestIsInRegister
    <2> QED
      BY <2>6, <2>8 DEF Inductive
  <1> QED
    BY <1>1, <1>2, <1>3

\* Commands queued for the loop, connections made, closed and lost.
LEMMA ConnectionStep ==
    ASSUME TypeOK, Inductive,
           \/ \E p \in Percent : HaCommand(p)
           \/ \E s \in Session : Connect(s) \/ Close(s)
           \/ InverterDrops
    PROVE  Inductive'
  <1> USE DEF appVars, routeVars, haVars, sessionVars, inverterVars
  <1>1. ASSUME NEW p \in Percent, HaCommand(p) PROVE Inductive'
    BY <1>1 DEF HaCommand, Inductive, GensOrdered, NewestIsInRegister, WireSound,
       WireOrdered, WireKeyed, RepliesKeyed, AcksEarned, ClosedIsSilent, NoPeerNoWire,
       Keys, IsWrite
  <1>2. ASSUME NEW s \in Session, Connect(s) PROVE Inductive'
    <2>1. /\ UNCHANGED <<desired, gen, confirmedGen, fromInv, register, landed, executed>>
          /\ peer' = s /\ toInv' = <<>> /\ ~session[s].open
          /\ requests'[s] = <<>> /\ session'[s].open = TRUE
          /\ \A t \in Session : t # s =>
                 requests'[t] = requests[t] /\ session'[t] = session[t]
      BY <1>2 DEF Connect, TypeOK, NewSession
    <2>2. fromInv[s] = <<>>
      BY <2>1 DEF Inductive, ClosedIsSilent
    <2>3. /\ GensOrdered' /\ NewestIsInRegister' /\ WireSound' /\ WireOrdered'
          /\ WireKeyed' /\ NoPeerNoWire'
      BY <2>1, SessionAssumption DEF Inductive, GensOrdered, NewestIsInRegister,
         WireSound, WireOrdered, WireKeyed, NoPeerNoWire
    <2>4. AcksEarned' /\ RepliesKeyed' /\ ClosedIsSilent'
      BY <2>1, <2>2 DEF Inductive, AcksEarned, RepliesKeyed, ClosedIsSilent, Keys, IsWrite
    <2> QED
      BY <2>3, <2>4 DEF Inductive
  <1>3. ASSUME NEW s \in Session, Close(s) PROVE Inductive'
    <2>1. /\ UNCHANGED <<appVars, requests, inverterVars>>
          /\ fromInv'[s] = <<>>
          /\ \A t \in Session : t # s => fromInv'[t] = fromInv[t] /\ session'[t] = session[t]
      BY <1>3 DEF Close, TypeOK
    <2>2. \A t \in Session : ~session'[t].open => fromInv'[t] = <<>>
      BY <2>1 DEF Inductive, ClosedIsSilent
    <2>3. \A t \in Session : \A i \in 1..Len(fromInv'[t]) :
              \E j \in 1..Len(fromInv[t]) : fromInv'[t][i] = fromInv[t][j]
      BY <2>1
    <2> QED
      BY <2>1, <2>2, <2>3, FinishIsQuiet, QuietStep, <1>3
  <1>4. CASE InverterDrops
    BY <1>4, SessionAssumption DEF InverterDrops, Inductive, GensOrdered,
       NewestIsInRegister, WireSound, WireOrdered, WireKeyed, RepliesKeyed, AcksEarned,
       ClosedIsSilent, NoPeerNoWire, Keys, IsWrite
  <1> QED
    BY <1>1, <1>2, <1>3, <1>4

\* Taking a request from the wire keeps what holds of the others.
LEMMA ServedWire ==
    ASSUME TypeOK, Inductive, NEW op, Served(op)
    PROVE  /\ peer \in Session /\ 1 \in 1..Len(toInv)
           /\ Head(toInv) = toInv[1] /\ toInv[1] \in WireRequest /\ toInv[1].op = op
           /\ Len(toInv) \in Nat /\ Len(toInv') = Len(toInv) - 1
           /\ \A i \in 1..Len(toInv') : i + 1 \in 1..Len(toInv) /\ toInv'[i] = toInv[i + 1]
  <1>1. toInv \in Seq(WireRequest) /\ toInv # <<>>
    BY DEF Served, TypeOK
  <1>2. toInv' = Tail(toInv) /\ peer \in Session /\ Head(toInv).op = op
    BY DEF Served, TypeOK
  <1> QED
    BY <1>1, <1>2, TailFacts, LenProperties

\* Emitting a frame adds at most that frame, to the connected Session.
LEMMA EmitEffect ==
    ASSUME TypeOK, peer \in Session, NEW f \in Frame, Emit(f)
    PROVE  \A t \in Session :
               /\ \A i \in 1..Len(fromInv'[t]) :
                      \/ i \in 1..Len(fromInv[t]) /\ fromInv'[t][i] = fromInv[t][i]
                      \/ t = peer /\ fromInv'[t][i] = f
               /\ ~session[t].open => fromInv'[t] = fromInv[t]
  <1>1. \A t \in Session : fromInv[t] \in Seq(Frame)
    BY DEF TypeOK
  <1>2. CASE fromInv' = fromInv
    BY <1>2
  <1>3. CASE /\ session[peer].open
             /\ fromInv' = [fromInv EXCEPT ![peer] = Append(fromInv[peer], f)]
    <2>1. /\ fromInv'[peer] = Append(fromInv[peer], f)
          /\ \A t \in Session : t # peer => fromInv'[t] = fromInv[t]
      BY <1>3 DEF TypeOK
    <2>2. \A i \in 1..Len(fromInv'[peer]) :
              \/ i \in 1..Len(fromInv[peer]) /\ fromInv'[peer][i] = fromInv[peer][i]
              \/ fromInv'[peer][i] = f
      BY <1>1, <2>1, AppendFacts, LenProperties
    <2> QED
      BY <1>3, <2>1, <2>2
  <1> QED
    BY <1>2, <1>3 DEF Emit

\* An answer with the key of a request keeps the invariant on answers, if a
\* write_ok is only sent for a write that has been executed.
LEMMA AnswerStep ==
    ASSUME TypeOK, Inductive, peer \in Session, NEW f \in Frame,
           Emit(f) \/ fromInv' = fromInv,
           UNCHANGED <<session, requests>>,
           executed \subseteq executed',
           f.kind \in ReplyKind =>
               /\ f.key \in Keys(peer)
               /\ f.kind = "write_ok" /\ IsWrite(peer, f.key) =>
                      requests[peer][f.key].gen \in executed'
    PROVE  RepliesKeyed' /\ AcksEarned' /\ ClosedIsSilent'
  <1>1. \A t \in Session :
            /\ \A i \in 1..Len(fromInv'[t]) :
                   \/ i \in 1..Len(fromInv[t]) /\ fromInv'[t][i] = fromInv[t][i]
                   \/ t = peer /\ fromInv'[t][i] = f
            /\ ~session[t].open => fromInv'[t] = fromInv[t]
    BY EmitEffect
  <1>2. ClosedIsSilent'
    BY <1>1 DEF Inductive, ClosedIsSilent
  <1>3. AcksEarned'
    BY DEF Inductive, AcksEarned, Keys, IsWrite
  <1>4. RepliesKeyed'
    <2> SUFFICES ASSUME NEW t \in Session, NEW i \in 1..Len(fromInv'[t]),
                        fromInv'[t][i].kind \in ReplyKind
                 PROVE  LET k == fromInv'[t][i].key IN
                        /\ k \in Keys(t)
                        /\ fromInv'[t][i].kind = "write_ok" /\ requests[t][k].op = "write" =>
                               requests[t][k].gen \in executed'
      BY DEF RepliesKeyed, Keys, IsWrite
    <2>1. CASE i \in 1..Len(fromInv[t]) /\ fromInv'[t][i] = fromInv[t][i]
      BY <2>1 DEF Inductive, RepliesKeyed, IsWrite
    <2>2. CASE t = peer /\ fromInv'[t][i] = f
      BY <2>2 DEF IsWrite
    <2> QED
      BY <1>1, <2>1, <2>2
  <1> QED
    BY <1>2, <1>3, <1>4

\* The inverter: it announces itself, executes, refuses, or reads.
LEMMA InverterStep ==
    ASSUME TypeOK, Inductive,
           (\E kind \in FrameKind : InverterAnnounces(kind)) \/ InverterServes
    PROVE  Inductive'
  <1> USE DEF appVars, routeVars, haVars, sessionVars, inverterVars
  <1>0. /\ gen \in Nat /\ landed \in Nat /\ confirmedGen \in Nat
        /\ confirmedGen <= landed /\ landed <= gen
    BY DEF TypeOK, Inductive, GensOrdered
  <1>1. ASSUME NEW kind \in FrameKind, InverterAnnounces(kind) PROVE Inductive'
    <2>1. /\ peer \in Session /\ Emit(Announcement(kind))
          /\ UNCHANGED <<appVars, peer, toInv, register, landed, executed, session, requests>>
      BY <1>1 DEF InverterAnnounces, TypeOK
    <2>2. Announcement(kind) \in Frame /\ Announcement(kind).kind \notin ReplyKind
      BY RecordTypes DEF Announcement, FrameKind, ReplyKind
    <2>3. RepliesKeyed' /\ AcksEarned' /\ ClosedIsSilent'
      BY <1>0, <2>1, <2>2, AnswerStep
    <2> QED
      BY <2>1, <2>3 DEF Inductive, GensOrdered, NewestIsInRegister, WireSound,
         WireOrdered, WireKeyed, NoPeerNoWire, Keys, IsWrite
  <1>2. ASSUME NEW op, Served(op),
               UNCHANGED <<appVars, peer, session, requests>>,
               NEW kind \in ReplyKind, NEW v \in Value,
               \/ Emit(Reply(kind, Head(toInv).key, v))
               \/ fromInv' = fromInv,
               \/ UNCHANGED <<register, landed, executed>> /\ kind # "write_ok"
               \/ /\ op = "write"
                  /\ register' = Head(toInv).val /\ landed' = Head(toInv).gen
                  /\ executed' = executed \cup {Head(toInv).gen}
        PROVE  Inductive'
    <2> DEFINE h == Head(toInv)
    <2>1. /\ peer \in Session /\ 1 \in 1..Len(toInv)
          /\ h = toInv[1] /\ h \in WireRequest /\ h.op = op
          /\ Len(toInv) \in Nat /\ Len(toInv') = Len(toInv) - 1
          /\ \A i \in 1..Len(toInv') : i + 1 \in 1..Len(toInv) /\ toInv'[i] = toInv[i + 1]
      BY <1>2, ServedWire
    <2>2. h.key \in Nat /\ h.gen \in Nat
      BY <2>1 DEF WireRequest
    <2>3. /\ h.key \in Keys(peer)
          /\ op = "write" /\ IsWrite(peer, h.key) => requests[peer][h.key].gen = h.gen
      BY <2>1 DEF Inductive, WireKeyed
    <2>4. op = "write" => /\ landed <= h.gen /\ h.gen <= gen /\ 0 < h.gen
                          /\ h.val \in Percent
                          /\ h.gen = gen => h.val = desired
                          /\ h.gen = landed => h.val = register
      BY <2>1 DEF Inductive, WireSound
    <2>5. \A i \in 1..Len(toInv) : toInv[i].gen \in Nat
      BY GenTypes
    <2>6. landed' \in Nat /\ landed <= landed' /\ landed' <= gen
      BY <1>0, <1>2, <2>2, <2>4
    <2>7. RepliesKeyed' /\ AcksEarned' /\ ClosedIsSilent'
      <3>1. /\ Reply(kind, h.key, v) \in Frame
            /\ Reply(kind, h.key, v).key = h.key /\ Reply(kind, h.key, v).kind = kind
        BY <2>2, RecordTypes DEF Reply
      <3>2. kind = "write_ok" /\ IsWrite(peer, h.key) => requests[peer][h.key].gen \in executed'
        BY <1>2, <2>3
      <3> QED
        BY <1>2, <2>1, <2>3, <3>1, <3>2, AnswerStep
    <2>8. GensOrdered' /\ NewestIsInRegister'
      <3>1. NewestIsInRegister'
        BY <1>0, <1>2, <2>4 DEF Inductive, NewestIsInRegister
      <3>2. \A g \in executed' : g <= landed'
        <4>1. \A g \in executed : g \in Nat /\ g <= landed
          BY DEF TypeOK, Inductive, GensOrdered
        <4> QED
          BY <1>0, <1>2, <2>2, <2>4, <4>1
      <3> QED
        BY <1>0, <1>2, <2>6, <3>1, <3>2 DEF GensOrdered
    <2>9. WireSound'
      <3> SUFFICES ASSUME NEW i \in 1..Len(toInv'), toInv'[i].op = "write"
                   PROVE  /\ toInv'[i].val \in Percent /\ 0 < toInv'[i].gen
                          /\ landed' <= toInv'[i].gen /\ toInv'[i].gen <= gen'
                          /\ toInv'[i].gen = gen' => toInv'[i].val = desired'
                          /\ toInv'[i].gen = landed' => toInv'[i].val = register'
        BY DEF WireSound
      <3>1. i + 1 \in 1..Len(toInv) /\ toInv'[i] = toInv[i + 1] /\ 1 < i + 1
        BY <2>1
      <3>2. /\ toInv[i + 1].val \in Percent /\ 0 < toInv[i + 1].gen
            /\ landed <= toInv[i + 1].gen /\ toInv[i + 1].gen <= gen
            /\ toInv[i + 1].gen = gen => toInv[i + 1].val = desired
            /\ toInv[i + 1].gen = landed => toInv[i + 1].val = register
        BY <3>1 DEF Inductive, WireSound
      <3>3. op = "write" => /\ h.gen <= toInv[i + 1].gen
                            /\ h.gen = toInv[i + 1].gen => h.val = toInv[i + 1].val
        BY <2>1, <3>1 DEF Inductive, WireOrdered
      <3> QED
        BY <1>2, <3>1, <3>2, <3>3
    <2>10. WireOrdered'
      <3> SUFFICES ASSUME NEW i \in 1..Len(toInv'), NEW j \in 1..Len(toInv'), i < j,
                          toInv'[i].op = "write", toInv'[j].op = "write"
                   PROVE  /\ toInv'[i].gen <= toInv'[j].gen
                          /\ toInv'[i].gen = toInv'[j].gen => toInv'[i].val = toInv'[j].val
        BY DEF WireOrdered
      <3>1. /\ i + 1 \in 1..Len(toInv) /\ toInv'[i] = toInv[i + 1]
            /\ j + 1 \in 1..Len(toInv) /\ toInv'[j] = toInv[j + 1]
            /\ i + 1 < j + 1
        BY <2>1
      <3> QED
        BY <3>1 DEF Inductive, WireOrdered
    <2>11. WireKeyed'
      <3> SUFFICES ASSUME NEW i \in 1..Len(toInv')
                   PROVE  LET k == toInv'[i].key IN
                          /\ k \in Keys(peer)
                          /\ toInv'[i].op = "write" /\ requests[peer][k].op = "write" =>
                                 requests[peer][k].gen = toInv'[i].gen
        BY <1>2 DEF WireKeyed, Keys, IsWrite
      <3> QED
        BY <2>1 DEF Inductive, WireKeyed, IsWrite
    <2>12. NoPeerNoWire'
      BY <1>2, <2>1, SessionAssumption DEF NoPeerNoWire
    <2> QED
      BY <2>7, <2>8, <2>9, <2>10, <2>11, <2>12 DEF Inductive
  <1>3. ASSUME NEW answers \in BOOLEAN, InverterWrites(answers) PROVE Inductive'
    <2>1. "write_ok" \in ReplyKind /\ NoPercent \in Value
      BY DEF ReplyKind, Value
    <2> QED
      BY <1>2, <1>3, <2>1 DEF InverterWrites
  <1>4. ASSUME NEW answers \in BOOLEAN, InverterRefuses(answers) PROVE Inductive'
    <2>1. "write_exception" \in ReplyKind /\ NoPercent \in Value
      BY DEF ReplyKind, Value
    <2> QED
      BY <1>2, <1>4, <2>1 DEF InverterRefuses
  <1>5. ASSUME NEW kind \in {"read_value", "read_exception"}, InverterReads(kind)
        PROVE  Inductive'
    <2> DEFINE v == IF kind = "read_value" THEN register ELSE NoPercent
    <2>1. kind \in ReplyKind /\ kind # "write_ok" /\ v \in Value
      BY DEF ReplyKind, Value, TypeOK
    <2> QED
      BY <1>2, <1>5, <2>1 DEF InverterReads
  <1> QED
    BY <1>1, <1>3, <1>4, <1>5 DEF InverterServes

\* The invariant behind every theorem below.
THEOREM InvariantHolds == Spec => []Inductive
  <1>1. Init => Inductive
    BY SessionAssumption DEF Init, Inductive, GensOrdered, NewestIsInRegister, WireSound,
       WireOrdered, WireKeyed, RepliesKeyed, AcksEarned, ClosedIsSilent, NoPeerNoWire,
       Keys, IsWrite
  <1>2. TypeOK /\ Inductive /\ [Next]_vars => Inductive'
    <2> SUFFICES ASSUME TypeOK, Inductive, [Next]_vars PROVE Inductive'
      OBVIOUS
    <2>1. CASE Next
      BY <2>1, SendingStep, TaskStep, FrameStep, ConnectionStep, InverterStep
         DEF Next, SessionTasks
    <2>2. CASE UNCHANGED vars
      BY <2>2 DEF vars, appVars, routeVars, haVars, sessionVars, inverterVars, Inductive,
         GensOrdered, NewestIsInRegister, WireSound, WireOrdered, WireKeyed, RepliesKeyed,
         AcksEarned, ClosedIsSilent, NoPeerNoWire, Keys, IsWrite
    <2> QED
      BY <2>1, <2>2
  <1> QED
    BY <1>1, <1>2, TypeCorrect, PTL DEF Spec

\* Confirmed means applied, in every reachable state: the newest command is only
\* counted as confirmed while the register of the inverter holds its value.
THEOREM ConfirmedMeansApplied == Spec => []ConfirmedIsApplied
  <1>1. TypeOK /\ Inductive => ConfirmedIsApplied
    BY DEF TypeOK, Inductive, GensOrdered, NewestIsInRegister, ConfirmedIsApplied
  <1> QED
    BY <1>1, TypeCorrect, InvariantHolds, PTL

---------------------------------------------------------------------------
(* Steps *)

\* Every step, seen from the promise: it gives the next command, executes a
\* write, confirms one, or changes nothing the promise speaks of.
LEMMA PromisedStep ==
    ASSUME TypeOK, Inductive, [Next]_vars
    PROVE  \/ \E p \in Percent : Promise!Command(p)
           \/ \E g \in 1..gen : Promise!Land(g) \/ Promise!Confirm(g)
           \/ UNCHANGED <<desired, gen, confirmedGen, landed, register>>
  <1> USE DEF appVars, routeVars, haVars, sessionVars, inverterVars
  <1> DEFINE Idle == UNCHANGED <<desired, gen, confirmedGen, landed, register>>
  <1>0. /\ gen \in Nat /\ landed \in Nat /\ confirmedGen \in Nat
        /\ confirmedGen <= landed /\ landed <= gen
    BY DEF TypeOK, Inductive, GensOrdered
  <1>1. CASE RunSetpoint
    <2>1. Head(scheduled) \in [session : Session, percent : Percent]
      BY <1>1, TailFacts DEF RunSetpoint, TypeOK
    <2>2. Promise!Command(Head(scheduled).percent)
      BY <1>1 DEF RunSetpoint, Promise!Command
    <2> QED
      BY <2>1, <2>2
  <1>2. ASSUME NEW s \in Session, NEW k \in Keys(s), ConfirmWrite(s, k)
        PROVE  Idle \/ \E g \in 1..gen : Promise!Confirm(g)
    <2> DEFINE g == requests[s][k].gen
    <2>1. g \in Nat /\ g <= landed
      BY <1>2, GenTypes DEF ConfirmWrite, Inductive, AcksEarned, GensOrdered
    <2>2. CASE g > confirmedGen
      BY <1>0, <1>2, <2>1, <2>2 DEF ConfirmWrite, Promise!Confirm
    <2>3. CASE ~(g > confirmedGen)
      BY <1>2, <2>3 DEF ConfirmWrite
    <2> QED
      BY <2>2, <2>3
  <1>3. ASSUME NEW answers \in BOOLEAN, InverterWrites(answers)
        PROVE  \E g \in 1..gen : Promise!Land(g)
    <2> DEFINE h == Head(toInv)
    <2>1. h = toInv[1] /\ 1 \in 1..Len(toInv) /\ h.op = "write"
      BY <1>3, ServedWire DEF InverterWrites
    <2>2. /\ landed <= h.gen /\ h.gen <= gen /\ 0 < h.gen /\ h.val \in Percent
          /\ h.gen = gen => h.val = desired
          /\ h.gen = landed => h.val = register
          /\ h.gen \in Nat
      BY <2>1, GenTypes DEF Inductive, WireSound
    <2>3. Promise!Land(h.gen)
      BY <1>3, <2>2 DEF InverterWrites, Promise!Land
    <2> QED
      BY <1>0, <2>2, <2>3
  <1>4. ASSUME \/ \E p \in Percent : HaCommand(p)
               \/ \E s \in Session : \/ RunSettle(s) \/ HandleFrame(s) \/ Connect(s) \/ Close(s)
                                     \/ \E k \in Keys(s) : \/ RejectWrite(s, k)
                                                           \/ TimeoutWrite(s, k)
                                                           \/ ReadbackTimeout(s, k)
               \/ InverterDrops
               \/ \E kind \in FrameKind : InverterAnnounces(kind)
               \/ \E answers \in BOOLEAN : InverterRefuses(answers)
               \/ \E kind \in {"read_value", "read_exception"} : InverterReads(kind)
        PROVE  Idle
    BY <1>4 DEF HaCommand, RunSettle, HandleFrame, HandleRegistration, HandleProductInfo,
       HandleOldProductInfo, HandleTelemetry, HandleWriteReply, HandleReadReply, Connect,
       Close, RejectWrite, TimeoutWrite, ReadbackTimeout, InverterDrops, InverterAnnounces,
       InverterRefuses, InverterReads
  <1>5. CASE UNCHANGED vars
    BY <1>5 DEF vars
  <1> QED
    BY <1>1, <1>2, <1>3, <1>4, <1>5 DEF Next, SessionTasks, InverterServes

\* The newest write wins: the inverter never executes a write of an older
\* command after one of a newer command.
THEOREM NewestWriteWins == Spec => NewerWritesWin
  <1>1. TypeOK /\ Inductive /\ [Next]_vars => [landed' >= landed]_vars
    <2> SUFFICES ASSUME TypeOK, Inductive, [Next]_vars PROVE landed' >= landed
      OBVIOUS
    <2>1. landed \in Nat
      BY DEF TypeOK
    <2> QED
      BY <2>1, PromisedStep DEF Promise!Command, Promise!Land, Promise!Confirm
  <1> QED
    BY <1>1, TypeCorrect, InvariantHolds, PTL DEF Spec, NewerWritesWin

\* The gateway, with its connections and the inverter, implements the promise
\* made to Home Assistant in Setpoint.
THEOREM KeepsPromise == Spec => ImplementsSetpoint
  <1>1. Init => Promise!Init
    BY DEF Init, Promise!Init
  <1>2. TypeOK /\ Inductive /\ [Next]_vars => [Promise!Next]_Promise!vars
    <2> SUFFICES ASSUME TypeOK, Inductive, [Next]_vars
                 PROVE  Promise!Next \/ UNCHANGED Promise!vars
      OBVIOUS
    <2> QED
      BY PromisedStep DEF Promise!Next, Promise!vars
  <1> QED
    BY <1>1, <1>2, TypeCorrect, InvariantHolds, PTL DEF Spec, ImplementsSetpoint, Promise!Spec
=============================================================================
