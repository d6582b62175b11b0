------------------------ MODULE PowerLimitViewProofs ------------------------
(***************************************************************************)
(* Proofs about what Home Assistant sees of PowerLimit and where its       *)
(* commands go: the state topic, the confirmations and the command handler *)
(* against the connection the inverter holds.                              *)
(*                                                                         *)
(* Some of it holds only if frames of a connection that the inverter       *)
(* abandoned do not arrive after it has reconnected, or if it registers    *)
(* once per connection: the theorems say so as assumptions on Quirks and   *)
(* Repeated.                                                               *)
(***************************************************************************)
EXTENDS PowerLimitProofs

AbandonedIsMute == "late_frames" \notin Quirks
RegistersOnce == "registration" \notin Repeated

---------------------------------------------------------------------------
(* The invariants *)

\* Only one connection has frames that were not read, and if the inverter is
\* connected it is that one: it comes back when the old ones have been read.
OneConnection ==
    /\ \A s, t \in Session : fromInv[s] # <<>> /\ fromInv[t] # <<>> => s = t
    /\ \A t \in Session : peer \in Session /\ t # peer => fromInv[t] = <<>>

Registration(s, i) == fromInv[s][i].kind = "registration"

\* A registration opens a connection and comes once: while one is unread the
\* Session has no serial, and no Session is wired without one.
RegistersFirst ==
    \A s \in Session : peer = s =>
        /\ session[s].wired => session[s].serial
        /\ said = {} => ~session[s].serial
        /\ said # {} => "registration" \in said
        /\ \A i \in 1..Len(fromInv[s]) : Registration(s, i) =>
               /\ ~session[s].serial /\ said # {}
               /\ \A j \in 1..Len(fromInv[s]) : Registration(s, j) => i = j

Routing == OneConnection /\ RegistersFirst /\ RoutedToPeer

\* A write holds the value of its command, which was given.
WritesHoldTheirCommand ==
    \A s \in Session : \A k \in Keys(s) : IsWrite(s, k) =>
        /\ 0 < requests[s][k].gen /\ requests[s][k].gen <= gen
        /\ requests[s][k].gen = gen => requests[s][k].val = desired

\* No acknowledgement of the newest command has been handled, waits for its
\* task, or comes before frame i of Session s.
NotAcknowledgedBefore(s, i) ==
    /\ gen > 0 => confirmedGen < gen
    /\ \A t \in Session : \A k \in Keys(t) :
           IsWrite(t, k) /\ requests[t][k].st = "acked" => requests[t][k].gen < gen
    /\ \A j \in 1..Len(fromInv[s]) :
           j < i /\ fromInv[s][j].kind = "write_ok" /\ IsWrite(s, fromInv[s][j].key) =>
               requests[s][fromInv[s][j].key].gen < gen

\* A value read that is not that of the newest command comes before any
\* acknowledgement of that command.
OlderValueComesBefore ==
    \A s \in Session : \A i \in 1..Len(fromInv[s]) :
        fromInv[s][i].kind = "read_value" /\ fromInv[s][i].val # desired =>
            NotAcknowledgedBefore(s, i)

Showing == WritesHoldTheirCommand /\ OlderValueComesBefore /\ ConfirmedIsShown

---------------------------------------------------------------------------
(* Frames *)

\* Emitting appends at most one frame, to the connected Session.
LEMMA EmitAppends ==
    ASSUME TypeOK, peer \in Session, NEW f \in Frame, Emit(f) \/ fromInv' = fromInv
    PROVE  /\ \A t \in Session : t # peer => fromInv'[t] = fromInv[t]
           /\ \A t \in Session : \A i \in 1..Len(fromInv[t]) :
                  i \in 1..Len(fromInv'[t]) /\ fromInv'[t][i] = fromInv[t][i]
           /\ \A t \in Session : \A i \in 1..Len(fromInv'[t]) :
                  \/ i \in 1..Len(fromInv[t])
                  \/ t = peer /\ i = Len(fromInv[t]) + 1 /\ fromInv'[t][i] = f
  <1>1. \A t \in Session : fromInv[t] \in Seq(Frame) /\ Len(fromInv[t]) \in Nat
    BY LenProperties DEF TypeOK
  <1>2. CASE fromInv' = fromInv
    BY <1>2
  <1>3. CASE fromInv' = [fromInv EXCEPT ![peer] = Append(fromInv[peer], f)]
    <2>1. /\ fromInv'[peer] = Append(fromInv[peer], f)
          /\ \A t \in Session : t # peer => fromInv'[t] = fromInv[t]
      BY <1>3 DEF TypeOK
    <2>2. /\ Len(fromInv'[peer]) = Len(fromInv[peer]) + 1
          /\ \A i \in 1..Len(fromInv[peer]) : fromInv'[peer][i] = fromInv[peer][i]
          /\ fromInv'[peer][Len(fromInv[peer]) + 1] = f
      BY <1>1, <2>1, AppendFacts
    <2>3. \A i \in 1..Len(fromInv[peer]) : i \in 1..Len(fromInv'[peer])
      BY <1>1, <2>2
    <2>4. \A i \in 1..Len(fromInv'[peer]) :
              i \in 1..Len(fromInv[peer]) \/ i = Len(fromInv[peer]) + 1
      BY <1>1, <2>2
    <2> QED
      BY <2>1, <2>2, <2>3, <2>4
  <1> QED
    BY <1>2, <1>3 DEF Emit

\* The inverter sends one frame, if any, and leaves what the gateway keeps: an
\* announcement, or the answer to the request it has taken from the wire.
LEMMA InverterEmits ==
    ASSUME TypeOK, Inductive,
           (\E kind \in FrameKind : InverterAnnounces(kind)) \/ InverterServes
    PROVE  /\ UNCHANGED <<peer, session, requests, appVars, routeVars, haVars>>
           /\ peer \in Session
           /\ \E f \in Frame :
                  /\ Emit(f) \/ fromInv' = fromInv
                  /\ \/ f.kind \in ReplyKind /\ said' = said
                     \/ InverterAnnounces(f.kind)
                  /\ f.kind = "read_value" => f.val = register
  <1>1. ASSUME NEW kind \in FrameKind, InverterAnnounces(kind)
        PROVE  /\ UNCHANGED <<peer, session, requests, appVars, routeVars, haVars>>
               /\ peer \in Session
               /\ \E f \in Frame : /\ Emit(f)
                                   /\ InverterAnnounces(f.kind)
                                   /\ f.kind # "read_value"
    <2>1. /\ UNCHANGED <<peer, session, requests, appVars, routeVars, haVars>>
          /\ peer \in Session /\ Emit(Announcement(kind))
      BY <1>1 DEF InverterAnnounces, TypeOK, haVars
    <2>2. /\ Announcement(kind) \in Frame /\ Announcement(kind).kind = kind
          /\ kind # "read_value"
      BY RecordTypes DEF Announcement, FrameKind
    <2> QED
      BY <1>1, <2>1, <2>2
  <1>2. ASSUME NEW op, Served(op)
        PROVE  peer \in Session /\ Head(toInv).key \in Nat
    BY <1>2, ServedWire DEF WireRequest
  <1>3. ASSUME NEW kind \in ReplyKind, NEW k \in Nat, NEW v \in Value
        PROVE  /\ Reply(kind, k, v) \in Frame
               /\ Reply(kind, k, v).kind = kind /\ Reply(kind, k, v).val = v
    BY RecordTypes DEF Reply
  <1>4. /\ "write_ok" \in ReplyKind /\ "write_exception" \in ReplyKind
        /\ "read_value" \in ReplyKind /\ "read_exception" \in ReplyKind
        /\ NoPercent \in Value /\ register \in Value
    BY DEF ReplyKind, Value, TypeOK
  <1>5. ASSUME NEW answers \in BOOLEAN, InverterWrites(answers) \/ InverterRefuses(answers)
        PROVE  /\ UNCHANGED <<peer, said, session, requests, appVars, routeVars, haVars>>
               /\ peer \in Session
               /\ \E f \in Frame : /\ Emit(f) \/ fromInv' = fromInv
                                   /\ f.kind \in ReplyKind
                                   /\ f.kind # "read_value"
    <2>1. /\ UNCHANGED <<peer, said, session, requests, appVars, routeVars, haVars>>
          /\ Served("write")
          /\ \/ Emit(Reply("write_ok", Head(toInv).key, NoPercent))
             \/ Emit(Reply("write_exception", Head(toInv).key, NoPercent))
             \/ fromInv' = fromInv
      BY <1>5 DEF InverterWrites, InverterRefuses, haVars
    <2>2. peer \in Session /\ Head(toInv).key \in Nat
      BY <1>2, <2>1
    <2> QED
      BY <1>3, <1>4, <2>1, <2>2
  <1>6. ASSUME NEW kind \in {"read_value", "read_exception"}, InverterReads(kind)
        PROVE  /\ UNCHANGED <<peer, said, session, requests, appVars, routeVars, haVars>>
               /\ peer \in Session
               /\ \E f \in Frame : /\ Emit(f) \/ fromInv' = fromInv
                                   /\ f.kind \in ReplyKind
                                   /\ f.kind = "read_value" => f.val = register
    <2> DEFINE v == IF kind = "read_value" THEN register ELSE NoPercent
    <2>1. /\ UNCHANGED <<peer, said, session, requests, appVars, routeVars, haVars>>
          /\ Served("read")
          /\ Emit(Reply(kind, Head(toInv).key, v)) \/ fromInv' = fromInv
      BY <1>6 DEF InverterReads, haVars
    <2>2. peer \in Session /\ Head(toInv).key \in Nat
      BY <1>2, <2>1
    <2> QED
      BY <1>3, <1>4, <2>1, <2>2
  <1>7. CASE \E kind \in FrameKind : InverterAnnounces(kind)
    BY <1>1, <1>7
  <1>8. CASE InverterServes
    BY <1>5, <1>6, <1>8 DEF InverterServes
  <1> QED
    BY <1>7, <1>8

\* A frame received is the first of its Session, which is open and is that of
\* the inverter if that is connected; the others move up.
LEMMA Receiving ==
    ASSUME TypeOK, OneConnection, NEW s \in Session, NEW kind, Receive(s, kind)
    PROVE  /\ session[s].open /\ (peer \in Session => peer = s)
           /\ \A t \in Session : t # s => fromInv[t] = <<>> /\ fromInv'[t] = fromInv[t]
           /\ 1 \in 1..Len(fromInv[s]) /\ Head(fromInv[s]) = fromInv[s][1]
           /\ fromInv[s][1].kind = kind
           /\ \A i \in 1..Len(fromInv'[s]) :
                  /\ i \in Nat /\ i + 1 \in 1..Len(fromInv[s]) /\ 1 < i + 1
                  /\ fromInv'[s][i] = fromInv[s][i + 1]
  <1>1. fromInv[s] \in Seq(Frame) /\ fromInv[s] # <<>>
    BY DEF Receive, TypeOK
  <1>2. fromInv'[s] = Tail(fromInv[s]) /\ \A t \in Session : t # s => fromInv'[t] = fromInv[t]
    BY DEF Receive, TypeOK
  <1>3. \A i \in 1..Len(fromInv'[s]) :
            i + 1 \in 1..Len(fromInv[s]) /\ fromInv'[s][i] = fromInv[s][i + 1]
    BY <1>1, <1>2, TailFacts
  <1>4. \A t \in Session : t # s => fromInv[t] = <<>>
    BY <1>1 DEF OneConnection
  <1>5. peer \in Session => peer = s
    BY <1>1 DEF OneConnection
  <1> QED
    BY <1>1, <1>2, <1>3, <1>4, <1>5, TailFacts DEF Receive

\* Each step of the gateway leaves the inverter's connection alone, reads one
\* frame, loses those of one Session, or finds none at all.
LEMMA FramesStep ==
    ASSUME TypeOK, Inductive, AbandonedIsMute, [Next]_vars
    PROVE  /\ peer' = peer \/ peer' = NoSession \/ \E s \in Session : Connect(s)
           /\ \A t \in Session : fromInv[t] = <<>> /\ t # peer => fromInv'[t] = <<>>
           /\ (\E s \in Session : Connect(s)) => \A t \in Session : fromInv'[t] = <<>>
  <1> USE DEF appVars, routeVars, haVars, sessionVars, inverterVars
  <1> DEFINE Quiet == \A t \in Session : fromInv[t] = <<>> /\ t # peer => fromInv'[t] = <<>>
  <1>1. ASSUME NEW s \in Session, HandleFrame(s) PROVE Quiet /\ peer' = peer
    <2>1. (\E kind : Receive(s, kind)) /\ peer' = peer
      BY <1>1 DEF HandleFrame, HandleRegistration, HandleProductInfo, HandleOldProductInfo,
         HandleTelemetry, HandleWriteReply, HandleReadReply
    <2>2. fromInv[s] # <<>> /\ \A t \in Session : t # s => fromInv'[t] = fromInv[t]
      BY <2>1 DEF Receive, TypeOK
    <2> QED
      BY <2>1, <2>2
  <1>2. ASSUME NEW s \in Session, Connect(s) PROVE \A t \in Session : fromInv'[t] = <<>>
    BY <1>2 DEF Connect, AbandonedIsMute
  <1>3. ASSUME NEW s \in Session, Close(s) PROVE Quiet /\ peer' = peer
    BY <1>3 DEF Close, TypeOK
  <1>4. CASE (\E kind \in FrameKind : InverterAnnounces(kind)) \/ InverterServes
    <2>1. /\ peer \in Session /\ peer' = peer
          /\ \E f \in Frame : Emit(f) \/ fromInv' = fromInv
      BY <1>4, InverterEmits
    <2>2. \A t \in Session : t # peer => fromInv'[t] = fromInv[t]
      BY <2>1, EmitAppends
    <2> QED
      BY <2>1, <2>2, <1>2
  <1>5. ASSUME \/ \E p \in Percent : HaCommand(p)
               \/ RunSetpoint
               \/ \E s \in Session : SessionTasks(s)
               \/ UNCHANGED vars
        PROVE  fromInv' = fromInv /\ peer' = peer
    BY <1>5 DEF HaCommand, RunSetpoint, SessionTasks, RunSettle, ConfirmWrite, RejectWrite,
       TimeoutWrite, ReadbackTimeout, vars
  <1>6. CASE InverterDrops
    BY <1>6, <1>2 DEF InverterDrops
  <1>7. CASE Next
    BY <1>1, <1>2, <1>3, <1>4, <1>5, <1>6, <1>7 DEF Next
  <1>8. CASE UNCHANGED vars
    BY <1>2, <1>5, <1>8
  <1> QED
    BY <1>7, <1>8

LEMMA ConnectionAlone ==
    ASSUME TypeOK, Inductive, AbandonedIsMute, OneConnection, [Next]_vars
    PROVE  OneConnection'
  <1>1. CASE \E s \in Session : Connect(s)
    BY <1>1, FramesStep DEF OneConnection
  <1>2. CASE peer' = peer \/ peer' = NoSession
    <2>1. \A t \in Session : fromInv[t] = <<>> /\ t # peer => fromInv'[t] = <<>>
      BY FramesStep
    <2>2. \A t \in Session : peer' \in Session /\ t # peer' => fromInv'[t] = <<>>
      BY <1>2, <2>1, SessionAssumption DEF OneConnection
    <2>3. ASSUME NEW s \in Session, NEW t \in Session, fromInv'[s] # <<>>, fromInv'[t] # <<>>
          PROVE  s = t
      BY <2>1, <2>3 DEF OneConnection, TypeOK
    <2> QED
      BY <2>2, <2>3 DEF OneConnection
  <1> QED
    BY <1>1, <1>2, FramesStep

---------------------------------------------------------------------------
(* Where commands go *)

\* Only handling a frame, starting the startup work, connecting and closing
\* change a Session; what the others and the loop change does not route.
Unrouted == UNCHANGED <<peer, said, owner, handler, fromInv>> /\
            \A s \in Session : /\ session'[s].open = session[s].open
                               /\ session'[s].serial = session[s].serial
                               /\ session'[s].wired = session[s].wired

LEMMA UnroutedSteps ==
    ASSUME TypeOK,
           \/ \E p \in Percent : HaCommand(p)
           \/ RunSetpoint
           \/ \E s \in Session : SessionTasks(s)
           \/ UNCHANGED vars
    PROVE  Unrouted
  <1> USE DEF appVars, routeVars, haVars, sessionVars, inverterVars, Unrouted
  <1>1. ASSUME NEW s \in Session, RunSettle(s) PROVE Unrouted
    <2>1. \A t \in Session : /\ session'[t].open = session[t].open
                             /\ session'[t].serial = session[t].serial
                             /\ session'[t].wired = session[t].wired
      BY <1>1 DEF RunSettle, TypeOK, SessionState
    <2> QED
      BY <1>1, <2>1 DEF RunSettle
  <1>2. ASSUME \/ \E p \in Percent : HaCommand(p)
               \/ RunSetpoint
               \/ \E s \in Session : \E k \in Keys(s) :
                      \/ ConfirmWrite(s, k) \/ RejectWrite(s, k)
                      \/ TimeoutWrite(s, k) \/ ReadbackTimeout(s, k)
               \/ UNCHANGED vars
        PROVE  Unrouted
    BY <1>2 DEF HaCommand, RunSetpoint, ConfirmWrite, RejectWrite, TimeoutWrite,
       ReadbackTimeout, vars
  <1> QED
    BY <1>1, <1>2 DEF SessionTasks

LEMMA UnroutedKeeps ==
    ASSUME RegistersFirst, RoutedToPeer, Unrouted
    PROVE  RegistersFirst' /\ RoutedToPeer'
  <1>1. RoutedToPeer'
    BY DEF RoutedToPeer, Unrouted
  <1>2. RegistersFirst'
    BY DEF RegistersFirst, Registration, Unrouted
  <1> QED
    BY <1>1, <1>2

\* Handling a frame: a registration makes its Session the owner, product info
\* makes it the handler, an old firmware unwires it; the rest routes nothing.
LEMMA RoutedByFrame ==
    ASSUME TypeOK, Inductive, Routing, NEW s \in Session, HandleFrame(s)
    PROVE  RegistersFirst' /\ RoutedToPeer'
  <1> USE DEF appVars, routeVars, haVars, sessionVars, inverterVars
  <1>1. PICK kind : Receive(s, kind)
    BY DEF HandleFrame, HandleRegistration, HandleProductInfo, HandleOldProductInfo,
       HandleTelemetry, HandleWriteReply, HandleReadReply
  <1>2. /\ session[s].open /\ (peer \in Session => peer = s)
        /\ 1 \in 1..Len(fromInv[s]) /\ fromInv[s][1].kind = kind
        /\ \A i \in 1..Len(fromInv'[s]) :
               /\ i + 1 \in 1..Len(fromInv[s]) /\ 1 < i + 1 /\ i \in Nat
               /\ fromInv'[s][i] = fromInv[s][i + 1]
    BY <1>1, Receiving DEF Routing
  <1>3. peer' = peer /\ said' = said
    BY DEF HandleFrame, HandleRegistration, HandleProductInfo, HandleOldProductInfo,
       HandleTelemetry, HandleWriteReply, HandleReadReply
  <1>4. CASE peer # s
    BY <1>2, <1>3, <1>4 DEF RegistersFirst, RoutedToPeer
  <1>5. CASE peer = s
    <2>1. /\ session[s].wired => session[s].serial
          /\ said = {} => ~session[s].serial
          /\ said # {} => "registration" \in said
          /\ session[s].serial => owner = s
          /\ session[s].wired => handler = s
      BY <1>2, <1>5 DEF Routing, RegistersFirst, RoutedToPeer
    <2>2. \A i \in 1..Len(fromInv[s]) : Registration(s, i) =>
              /\ ~session[s].serial /\ said # {}
              /\ \A j \in 1..Len(fromInv[s]) : Registration(s, j) => i = j
      BY <1>5 DEF Routing, RegistersFirst
    <2>3. session[s] \in SessionState
      BY DEF TypeOK
    <2> DEFINE Routed ==
          /\ session'[s].wired => session'[s].serial
          /\ said = {} => ~session'[s].serial
          /\ \A i \in 1..Len(fromInv'[s]) : fromInv'[s][i].kind = "registration" =>
                 ~session'[s].serial
          /\ session'[s].serial => owner' = s
          /\ session'[s].wired => handler' = s
    <2> SUFFICES Routed
      <3>1. \A i \in 1..Len(fromInv'[s]) : fromInv'[s][i].kind = "registration" =>
                /\ said # {}
                /\ \A j \in 1..Len(fromInv'[s]) : fromInv'[s][j].kind = "registration" => i = j
        <4>1. ASSUME NEW i \in 1..Len(fromInv'[s]), NEW j \in 1..Len(fromInv'[s]),
                     fromInv'[s][i].kind = "registration",
                     fromInv'[s][j].kind = "registration"
              PROVE  said # {} /\ i = j
          <5>1. /\ i + 1 \in 1..Len(fromInv[s]) /\ Registration(s, i + 1) /\ i \in Nat
                /\ j + 1 \in 1..Len(fromInv[s]) /\ Registration(s, j + 1) /\ j \in Nat
            BY <1>2, <4>1 DEF Registration
          <5>2. said # {} /\ i + 1 = j + 1
            BY <2>2, <5>1
          <5> QED
            BY <5>1, <5>2
        <4> QED
          BY <4>1
      <3>2. \A t \in Session : peer' = t => t = s
        BY <1>3, <1>5
      <3>3. RoutedToPeer'
        BY <3>2 DEF RoutedToPeer
      <3>4. RegistersFirst'
        BY <1>3, <2>1, <3>1, <3>2 DEF RegistersFirst, Registration
      <3> QED
        BY <3>3, <3>4
    <2>4. CASE HandleRegistration(s)
      <3>1. Registration(s, 1)
        BY <1>2, <2>4 DEF HandleRegistration, Receive, Registration, TypeOK
      <3>2. said # {} /\ ~session[s].serial /\ ~session[s].wired
        BY <1>2, <2>1, <2>2, <3>1
      <3>3. \A i \in 1..Len(fromInv'[s]) : fromInv'[s][i].kind # "registration"
        BY <1>2, <2>2, <3>1 DEF Registration
      <3>4. /\ session'[s].serial = TRUE /\ session'[s].wired = session[s].wired
            /\ owner' = s
        BY <2>3, <2>4 DEF HandleRegistration, TypeOK, SessionState
      <3> QED
        BY <3>2, <3>3, <3>4
    <2>5. ASSUME session'[s].serial = session[s].serial, owner' = owner,
                 session'[s].wired => session[s].serial /\ handler' = s
          PROVE  Routed
      BY <1>2, <2>1, <2>2, <2>5 DEF Registration
    <2>6. \A st \in SessionState : /\ MaybeSettle(st).serial = st.serial
                                   /\ MaybeSettle(st).wired = st.wired
      BY DEF MaybeSettle, SessionState
    <2>7. CASE HandleProductInfo(s)
      <3> DEFINE st == [session[s] EXCEPT !.wired = TRUE]
      <3>1. st \in SessionState /\ st.serial = session[s].serial
        BY <2>3 DEF SessionState
      <3>2. CASE session[s].serial
        <4>1. /\ session'[s] = MaybeSettle(st) /\ owner' = owner
              /\ handler' = IF session[s].wired THEN handler ELSE s
          BY <2>7, <3>2 DEF HandleProductInfo, TypeOK
        <4> QED
          BY <2>1, <2>5, <2>6, <3>1, <3>2, <4>1
      <3>3. CASE ~session[s].serial
        BY <2>1, <2>5, <2>7, <3>3 DEF HandleProductInfo
      <3> QED
        BY <3>2, <3>3
    <2>8. CASE HandleOldProductInfo(s)
      <3>1. CASE session[s].serial
        <4>1. /\ session'[s].serial = session[s].serial /\ session'[s].wired = FALSE
              /\ owner' = owner
          BY <2>3, <2>8, <3>1 DEF HandleOldProductInfo, TypeOK, SessionState
        <4> QED
          BY <2>5, <4>1
      <3>2. CASE ~session[s].serial
        BY <2>1, <2>5, <2>8, <3>2 DEF HandleOldProductInfo
      <3> QED
        BY <3>1, <3>2
    <2>9. CASE HandleTelemetry(s)
      <3> DEFINE st == [session[s] EXCEPT !.telemetry = TRUE]
      <3>1. /\ st \in SessionState /\ st.serial = session[s].serial
            /\ st.wired = session[s].wired
        BY <2>3 DEF SessionState
      <3>2. /\ session'[s] = MaybeSettle(st) /\ owner' = owner /\ handler' = handler
        BY <2>9 DEF HandleTelemetry, TypeOK
      <3> QED
        BY <2>1, <2>5, <2>6, <3>1, <3>2
    <2>10. CASE UNCHANGED <<session, owner, handler>>
      BY <2>1, <2>5, <2>10
    <2> QED
      BY <2>4, <2>7, <2>8, <2>9, <2>10 DEF HandleFrame, HandleWriteReply, HandleReadReply
  <1> QED
    BY <1>4, <1>5

\* Connections: a new one starts with a new Session, a closing Session takes
\* back its own claim only, and without a connection there is nothing to reach.
LEMMA RoutedByConnection ==
    ASSUME TypeOK, Inductive, Routing,
           \/ \E s \in Session : Connect(s) \/ Close(s)
           \/ InverterDrops
    PROVE  RegistersFirst' /\ RoutedToPeer'
  <1> USE DEF appVars, routeVars, haVars, sessionVars, inverterVars
  <1>1. ASSUME NEW s \in Session, Connect(s) PROVE RegistersFirst' /\ RoutedToPeer'
    <2>1. /\ peer' = s /\ said' = {} /\ fromInv' = fromInv /\ ~session[s].open
          /\ session'[s].serial = FALSE /\ session'[s].wired = FALSE
      BY <1>1 DEF Connect, TypeOK, NewSession
    <2>2. fromInv[s] = <<>>
      BY <2>1 DEF Inductive, ClosedIsSilent
    <2> QED
      BY <2>1, <2>2 DEF RegistersFirst, RoutedToPeer
  <1>2. ASSUME NEW s \in Session, Close(s) PROVE RegistersFirst' /\ RoutedToPeer'
    <2>1. /\ UNCHANGED <<peer, said, handler>>
          /\ session'[s].open = FALSE /\ session'[s].serial = FALSE
          /\ session'[s].wired = FALSE /\ fromInv'[s] = <<>>
          /\ owner' = IF owner = s THEN NoSession ELSE owner
          /\ \A t \in Session : t # s => fromInv'[t] = fromInv[t] /\ session'[t] = session[t]
      BY <1>2 DEF Close, TypeOK, NewSession
    <2>2. CASE peer = s
      <3>1. said # {} => "registration" \in said
        BY <2>2 DEF Routing, RegistersFirst
      <3> QED
        BY <2>1, <2>2, <3>1 DEF RegistersFirst, RoutedToPeer
    <2>3. CASE peer # s
      <3>1. RoutedToPeer'
        BY <2>1, <2>3 DEF Routing, RoutedToPeer
      <3>2. RegistersFirst'
        BY <2>1, <2>3 DEF Routing, RegistersFirst, Registration
      <3> QED
        BY <3>1, <3>2
    <2> QED
      BY <2>2, <2>3
  <1>3. CASE InverterDrops
    BY <1>3, SessionAssumption DEF InverterDrops, RegistersFirst, RoutedToPeer
  <1> QED
    BY <1>1, <1>2, <1>3

\* The inverter: only its first frame is a registration.
LEMMA RoutedByInverter ==
    ASSUME TypeOK, Inductive, RegistersOnce, Routing,
           (\E kind \in FrameKind : InverterAnnounces(kind)) \/ InverterServes
    PROVE  RegistersFirst' /\ RoutedToPeer'
  <1>1. /\ UNCHANGED <<peer, session, routeVars>> /\ peer \in Session
        /\ \E f \in Frame : /\ Emit(f) \/ fromInv' = fromInv
                            /\ \/ f.kind \in ReplyKind /\ said' = said
                               \/ InverterAnnounces(f.kind)
    BY InverterEmits
  <1>2. PICK f \in Frame : /\ Emit(f) \/ fromInv' = fromInv
                           /\ \/ f.kind \in ReplyKind /\ said' = said
                              \/ InverterAnnounces(f.kind)
    BY <1>1
  <1>3. RoutedToPeer'
    BY <1>1 DEF Routing, RoutedToPeer, routeVars
  <1>4. /\ session[peer].wired => session[peer].serial
        /\ said = {} => ~session[peer].serial
        /\ said # {} => "registration" \in said
        /\ \A i \in 1..Len(fromInv[peer]) : Registration(peer, i) =>
               /\ ~session[peer].serial /\ said # {}
               /\ \A j \in 1..Len(fromInv[peer]) : Registration(peer, j) => i = j
    BY <1>1 DEF Routing, RegistersFirst
  <1>5. /\ said # {} => said' # {}
        /\ said' # {} => "registration" \in said'
        /\ f.kind = "registration" => said = {} /\ said' # {}
        /\ said' = {} => said = {}
    <2>1. CASE f.kind \in ReplyKind /\ said' = said
      BY <1>4, <2>1 DEF ReplyKind
    <2>2. CASE InverterAnnounces(f.kind)
      BY <1>4, <2>2 DEF InverterAnnounces, RegistersOnce
    <2> QED
      BY <1>2, <2>1, <2>2
  <1>6. /\ \A i \in 1..Len(fromInv[peer]) : fromInv'[peer][i] = fromInv[peer][i]
        /\ \A i \in 1..Len(fromInv'[peer]) :
               \/ i \in 1..Len(fromInv[peer])
               \/ i = Len(fromInv[peer]) + 1 /\ fromInv'[peer][i] = f
    BY <1>1, <1>2, EmitAppends
  <1>7. ASSUME NEW i \in 1..Len(fromInv'[peer]), fromInv'[peer][i].kind = "registration"
        PROVE  /\ ~session[peer].serial /\ said' # {}
               /\ \A j \in 1..Len(fromInv'[peer]) :
                      fromInv'[peer][j].kind = "registration" => i = j
    <2>1. CASE i \in 1..Len(fromInv[peer])
      <3>1. Registration(peer, i)
        BY <1>6, <1>7, <2>1 DEF Registration
      <3>2. f.kind # "registration"
        BY <1>4, <1>5, <2>1, <3>1
      <3> QED
        BY <1>4, <1>5, <1>6, <2>1, <3>1, <3>2 DEF Registration
    <2>2. CASE i = Len(fromInv[peer]) + 1 /\ fromInv'[peer][i] = f
      <3>1. said = {} /\ said' # {}
        BY <1>5, <1>7, <2>2
      <3>2. \A j \in 1..Len(fromInv[peer]) : fromInv'[peer][j].kind # "registration"
        BY <1>4, <1>6, <3>1 DEF Registration
      <3> QED
        BY <1>4, <1>6, <2>2, <3>1, <3>2
    <2> QED
      BY <1>6, <2>1, <2>2
  <1>8. RegistersFirst'
    <2>1. \A s \in Session : peer' = s => s = peer
      BY <1>1
    <2> QED
      BY <1>1, <1>4, <1>5, <1>7, <2>1 DEF RegistersFirst, Registration
  <1> QED
    BY <1>3, <1>8

\* Commands reach the live connection, in every reachable state.
THEOREM CommandsReachThePeer ==
    ASSUME AbandonedIsMute, RegistersOnce PROVE Spec => []RoutedToPeer
  <1>1. Init => Routing
    BY SessionAssumption DEF Init, Routing, OneConnection, RegistersFirst, RoutedToPeer
  <1>2. TypeOK /\ Inductive /\ Routing /\ [Next]_vars => Routing'
    <2> SUFFICES ASSUME TypeOK, Inductive, Routing, [Next]_vars PROVE Routing'
      OBVIOUS
    <2>1. OneConnection'
      BY ConnectionAlone DEF Routing
    <2>2. RegistersFirst' /\ RoutedToPeer'
      <3>1. ASSUME \/ \E p \in Percent : HaCommand(p)
                   \/ RunSetpoint
                   \/ \E s \in Session : SessionTasks(s)
                   \/ UNCHANGED vars
            PROVE  RegistersFirst' /\ RoutedToPeer'
        BY <3>1, UnroutedSteps, UnroutedKeeps DEF Routing
      <3>2. CASE Next
        BY <3>1, <3>2, RoutedByFrame, RoutedByConnection, RoutedByInverter DEF Next
      <3> QED
        BY <3>1, <3>2
    <2> QED
      BY <2>1, <2>2 DEF Routing
  <1>3. Routing => RoutedToPeer
    BY DEF Routing
  <1> QED
    BY <1>1, <1>2, <1>3, TypeCorrect, InvariantHolds, PTL DEF Spec
---------------------------------------------------------------------------
(* What the state topic shows *)

\* A request that is settled, or left as it was.
Kept(old, new) ==
    new.op = "write" =>
        /\ old.op = "write" /\ new.gen = old.gen /\ new.val = old.val
        /\ new.st = "acked" => old.st = "acked"

\* A request just made: a read, or a write of the newest command.
Fresh(r) ==
    r.op = "write" => r.st = "waiting" /\ 0 < gen' /\ r.gen = gen' /\ r.val = desired'

\* Requests are kept and made, none is acknowledged.
Extended ==
    \A t \in Session :
        /\ \A k \in 1..Len(requests[t]) :
               k \in 1..Len(requests'[t]) /\ Kept(requests[t][k], requests'[t][k])
        /\ \A k \in 1..Len(requests'[t]) :
               k \in 1..Len(requests[t]) \/ Fresh(requests'[t][k])

\* Frames are kept in their order, or the first one is taken.
Shifted ==
    \A t \in Session : \E d \in {0, 1} :
        \A i \in 1..Len(fromInv'[t]) :
            i + d \in 1..Len(fromInv[t]) /\ fromInv'[t][i] = fromInv[t][i + d]

LEMMA SettlingExtends ==
    ASSUME TypeOK, NEW s \in Session,
           \/ requests' = requests
           \/ \E k \in Keys(s) : requests' = [requests EXCEPT ![s] = Finish(s, k)]
    PROVE  Extended
  <1>1. CASE requests' = requests
    BY <1>1 DEF Extended, Kept
  <1>2. ASSUME NEW j \in Keys(s), requests' = [requests EXCEPT ![s] = Finish(s, j)]
        PROVE  Extended
    <2>1. /\ Len(Finish(s, j)) = Len(requests[s])
          /\ \A k \in Keys(s) : Finish(s, j)[k] = IF k = j THEN Done ELSE requests[s][k]
      BY RecordTypes, ExceptSeq DEF Finish, Keys, TypeOK
    <2>2. requests'[s] = Finish(s, j) /\ \A t \in Session : t # s => requests'[t] = requests[t]
      BY <1>2 DEF TypeOK
    <2>3. \A k \in Keys(s) : Kept(requests[s][k], requests'[s][k])
      BY <2>1, <2>2 DEF Kept, Done
    <2>4. \A t \in Session : t # s => \A k \in Keys(t) : Kept(requests[t][k], requests'[t][k])
      BY <2>2 DEF Kept
    <2>5. \A t \in Session : Len(requests'[t]) = Len(requests[t])
      BY <2>1, <2>2
    <2> QED
      BY <2>3, <2>4, <2>5 DEF Extended, Keys
  <1> QED
    BY <1>1, <1>2

LEMMA SendingExtends ==
    ASSUME TypeOK, NEW s \in Session, NEW reqs \in Seq(Request), NEW r \in Request,
           NEW outcome, Send(s, reqs, r, outcome),
           Len(reqs) = Len(requests[s]),
           \A k \in Keys(s) : reqs[k] \in {requests[s][k], Done},
           Fresh(r)
    PROVE  Extended
  <1> DEFINE n == Len(reqs) + 1
  <1>1. /\ \A t \in Session : t # s => requests'[t] = requests[t]
        /\ Len(requests'[s]) = n
        /\ \A k \in 1..Len(reqs) : requests'[s][k] = reqs[k]
        /\ requests'[s][n] \in {r, Done}
    BY SendEffect
  <1>2. Len(requests[s]) \in Nat
    BY LenProperties DEF TypeOK
  <1>3. \A k \in 1..Len(requests[s]) :
            k \in 1..Len(requests'[s]) /\ Kept(requests[s][k], requests'[s][k])
    BY <1>1, <1>2 DEF Kept, Done, Keys
  <1>4. \A k \in 1..Len(requests'[s]) : k \in 1..Len(requests[s]) \/ k = n
    BY <1>1, <1>2
  <1>5. Fresh(requests'[s][n])
    BY <1>1 DEF Fresh, Done
  <1>6. \A t \in Session : t # s =>
            \A k \in 1..Len(requests[t]) : Kept(requests[t][k], requests'[t][k])
    BY <1>1 DEF Kept
  <1> QED
    BY <1>1, <1>3, <1>4, <1>5, <1>6 DEF Extended

LEMMA WritesKept ==
    ASSUME TypeOK, WritesHoldTheirCommand, Extended,
           gen' = gen + 1 \/ (gen' = gen /\ desired' = desired)
    PROVE  WritesHoldTheirCommand'
  <1>1. gen \in Nat /\ \A t \in Session : \A k \in Keys(t) : requests[t][k].gen \in Nat
    BY GenTypes DEF TypeOK
  <1> SUFFICES ASSUME NEW t \in Session, NEW k \in 1..Len(requests'[t]),
                      requests'[t][k].op = "write"
               PROVE  /\ 0 < requests'[t][k].gen /\ requests'[t][k].gen <= gen'
                      /\ requests'[t][k].gen = gen' => requests'[t][k].val = desired'
    BY DEF WritesHoldTheirCommand, Keys, IsWrite
  <1>2. CASE k \in 1..Len(requests[t])
    <2>1. /\ requests[t][k].op = "write"
          /\ requests'[t][k].gen = requests[t][k].gen
          /\ requests'[t][k].val = requests[t][k].val
      BY <1>2 DEF Extended, Kept
    <2>2. /\ 0 < requests[t][k].gen /\ requests[t][k].gen <= gen
          /\ requests[t][k].gen = gen => requests[t][k].val = desired
          /\ requests[t][k].gen \in Nat
      BY <1>1, <1>2, <2>1 DEF WritesHoldTheirCommand, Keys, IsWrite
    <2> QED
      BY <1>1, <2>1, <2>2
  <1>3. CASE Fresh(requests'[t][k])
    BY <1>1, <1>3 DEF Fresh
  <1> QED
    BY <1>2, <1>3 DEF Extended

\* While no frame is added, a value read keeps its place before the
\* acknowledgements of the newest command.
LEMMA OlderKept ==
    ASSUME TypeOK, Inductive, OlderValueComesBefore, Extended, Shifted,
           gen' = gen, desired' = desired,
           \/ confirmedGen' = confirmedGen
           \/ \E t \in Session : \E k \in Keys(t) :
                  /\ IsWrite(t, k) /\ requests[t][k].st = "acked"
                  /\ confirmedGen' = requests[t][k].gen
    PROVE  OlderValueComesBefore'
  <1> SUFFICES ASSUME NEW s \in Session, NEW i \in 1..Len(fromInv'[s]),
                      fromInv'[s][i].kind = "read_value", fromInv'[s][i].val # desired
               PROVE  NotAcknowledgedBefore(s, i)'
    BY DEF OlderValueComesBefore
  <1>1. PICK d \in {0, 1} : \A j \in 1..Len(fromInv'[s]) :
            j + d \in 1..Len(fromInv[s]) /\ fromInv'[s][j] = fromInv[s][j + d]
    BY DEF Shifted
  <1>2. /\ gen > 0 => confirmedGen < gen
        /\ \A t \in Session : \A k \in Keys(t) :
               IsWrite(t, k) /\ requests[t][k].st = "acked" => requests[t][k].gen < gen
        /\ \A j \in 1..Len(fromInv[s]) :
               j < i + d /\ fromInv[s][j].kind = "write_ok" /\ IsWrite(s, fromInv[s][j].key) =>
                   requests[s][fromInv[s][j].key].gen < gen
    BY <1>1 DEF OlderValueComesBefore, NotAcknowledgedBefore
  <1>3. gen' > 0 => confirmedGen' < gen'
    BY <1>2
  <1>4. ASSUME NEW t \in Session, NEW k \in 1..Len(requests'[t]),
               requests'[t][k].op = "write", requests'[t][k].st = "acked"
        PROVE  requests'[t][k].gen < gen'
    <2>1. k \in 1..Len(requests[t])
      BY <1>4 DEF Extended, Fresh
    <2>2. /\ requests[t][k].op = "write" /\ requests[t][k].st = "acked"
          /\ requests'[t][k].gen = requests[t][k].gen
      BY <1>4, <2>1 DEF Extended, Kept
    <2> QED
      BY <1>2, <2>1, <2>2 DEF Keys, IsWrite
  <1>5. ASSUME NEW j \in 1..Len(fromInv'[s]), j < i, fromInv'[s][j].kind = "write_ok",
               requests'[s][fromInv'[s][j].key].op = "write"
        PROVE  requests'[s][fromInv'[s][j].key].gen < gen'
    <2> DEFINE k == fromInv'[s][j].key
    <2>1. /\ j + d \in 1..Len(fromInv[s]) /\ fromInv'[s][j] = fromInv[s][j + d]
          /\ j + d < i + d
      BY <1>1, <1>5
    <2>2. k \in 1..Len(requests[s])
      BY <1>5, <2>1 DEF Inductive, RepliesKeyed, ReplyKind, Keys
    <2>3. /\ requests[s][k].op = "write"
          /\ requests'[s][k].gen = requests[s][k].gen
      BY <1>5, <2>2 DEF Extended, Kept
    <2> QED
      BY <1>2, <1>5, <2>1, <2>3 DEF IsWrite
  <1> QED
    BY <1>3, <1>4, <1>5 DEF NotAcknowledgedBefore, Keys, IsWrite

LEMMA ReceivingShifts ==
    ASSUME TypeOK, OneConnection, NEW s \in Session, NEW kind, Receive(s, kind)
    PROVE  Shifted
  <1>1. /\ \A t \in Session : t # s => fromInv'[t] = fromInv[t]
        /\ \A i \in 1..Len(fromInv'[s]) :
               i + 1 \in 1..Len(fromInv[s]) /\ fromInv'[s][i] = fromInv[s][i + 1]
    BY Receiving
  <1>2. ASSUME NEW t \in Session, t # s
        PROVE  \A i \in 1..Len(fromInv'[t]) :
                   i + 0 \in 1..Len(fromInv[t]) /\ fromInv'[t][i] = fromInv[t][i + 0]
    BY <1>1, <1>2
  <1> QED
    BY <1>1, <1>2 DEF Shifted

LEMMA StillShifts ==
    ASSUME TypeOK, \A t \in Session : fromInv'[t] = fromInv[t] \/ fromInv'[t] = <<>>
    PROVE  Shifted
  <1>1. ASSUME NEW t \in Session
        PROVE  \A i \in 1..Len(fromInv'[t]) :
                   i + 0 \in 1..Len(fromInv[t]) /\ fromInv'[t][i] = fromInv[t][i + 0]
    <2>1. CASE fromInv'[t] = fromInv[t]
      BY <2>1
    <2>2. CASE fromInv'[t] = <<>>
      <3>1. 1..Len(fromInv'[t]) = {}
        BY <2>2
      <3> QED
        BY <3>1
    <2> QED
      BY <2>1, <2>2
  <1> QED
    BY <1>1 DEF Shifted

\* A new command: whatever is on its way belongs to an older one.
LEMMA ShownByCommand ==
    ASSUME TypeOK, Inductive, Showing, RunSetpoint
    PROVE  Showing'
  <1> DEFINE c == Head(scheduled)
  <1>1. c \in [session : Session, percent : Percent]
    BY TailFacts DEF RunSetpoint, TypeOK
  <1>2. /\ c.session \in Session /\ c.percent \in Percent
        /\ gen' = gen + 1 /\ desired' = c.percent
        /\ UNCHANGED <<confirmedGen, fromInv>>
    BY <1>1 DEF RunSetpoint
  <1>3. PICK outcome :
           Send(c.session, requests[c.session], Write(c.percent, gen + 1), outcome)
    BY DEF RunSetpoint, StartWrite
  <1>4. /\ gen \in Nat /\ confirmedGen \in Nat /\ confirmedGen <= gen
        /\ \A t \in Session : requests[t] \in Seq(Request)
        /\ \A t \in Session : \A k \in Keys(t) : requests[t][k].gen \in Nat
    BY GenTypes DEF TypeOK, Inductive, GensOrdered
  <1>5. Write(c.percent, gen + 1) \in Request
    BY <1>2, <1>4, RecordTypes DEF Value
  <1>6. Fresh(Write(c.percent, gen + 1))
    BY <1>2, <1>4 DEF Fresh, Write
  <1>7. Extended
    BY <1>2, <1>3, <1>4, <1>5, <1>6, SendingExtends
  <1>8. WritesHoldTheirCommand'
    BY <1>2, <1>7, WritesKept DEF Showing
  <1>9. ConfirmedIsShown'
    BY <1>2, <1>4 DEF ConfirmedIsShown
  <1>10. ASSUME NEW t \in Session, NEW k \in 1..Len(requests[t]),
                requests'[t][k].op = "write"
         PROVE  requests'[t][k].gen < gen'
    <2>1. requests[t][k].op = "write" /\ requests'[t][k].gen = requests[t][k].gen
      BY <1>7, <1>10 DEF Extended, Kept
    <2>2. requests[t][k].gen <= gen /\ requests[t][k].gen \in Nat
      BY <1>4, <1>10, <2>1 DEF Showing, WritesHoldTheirCommand, Keys, IsWrite
    <2> QED
      BY <1>2, <1>4, <2>1, <2>2
  <1>11. OlderValueComesBefore'
    <2> SUFFICES ASSUME NEW s \in Session, NEW i \in 1..Len(fromInv'[s])
                 PROVE  NotAcknowledgedBefore(s, i)'
      BY DEF OlderValueComesBefore
    <2>1. confirmedGen' < gen'
      BY <1>2, <1>4
    <2>2. ASSUME NEW t \in Session, NEW k \in 1..Len(requests'[t]),
                 requests'[t][k].op = "write", requests'[t][k].st = "acked"
          PROVE  requests'[t][k].gen < gen'
      BY <1>7, <1>10, <2>2 DEF Extended, Fresh
    <2>3. ASSUME NEW j \in 1..Len(fromInv'[s]), fromInv'[s][j].kind = "write_ok",
                 requests'[s][fromInv'[s][j].key].op = "write"
          PROVE  requests'[s][fromInv'[s][j].key].gen < gen'
      <3>1. fromInv'[s][j].key \in 1..Len(requests[s])
        BY <1>2, <2>3 DEF Inductive, RepliesKeyed, ReplyKind, Keys
      <3> QED
        BY <1>10, <2>3, <3>1
    <2> QED
      BY <2>1, <2>2, <2>3 DEF NotAcknowledgedBefore, Keys, IsWrite
  <1> QED
    BY <1>8, <1>9, <1>11 DEF Showing

\* The startup work: re-apply the newest command, or read.
LEMMA ShownBySettle ==
    ASSUME TypeOK, Inductive, Showing, NEW s \in Session, RunSettle(s)
    PROVE  Showing'
  <1>1. UNCHANGED <<desired, gen, confirmedGen, fromInv, haState>>
    BY DEF RunSettle, appVars
  <1>2. /\ requests[s] \in Seq(Request) /\ gen \in Nat
        /\ Write(desired, gen) \in Request /\ Read(NoPercent) \in Request
    BY RecordTypes DEF TypeOK, Value
  <1>3. Fresh(Read(NoPercent)) /\ (gen > 0 => Fresh(Write(desired, gen)))
    BY <1>1, <1>2 DEF Fresh, Read, Write
  <1>4. \/ gen > 0 /\ \E outcome : Send(s, requests[s], Write(desired, gen), outcome)
        \/ \E outcome : Send(s, requests[s], Read(NoPercent), outcome)
    BY DEF RunSettle, StartWrite, StartRead, Pending
  <1>5. Extended
    <2>1. \A k \in Keys(s) : requests[s][k] \in {requests[s][k], Done}
      OBVIOUS
    <2> QED
      BY <1>2, <1>3, <1>4, <2>1, SendingExtends
  <1>6. Shifted
    BY <1>1, StillShifts
  <1>7. OlderValueComesBefore'
    BY <1>1, <1>5, <1>6, OlderKept DEF Showing
  <1>8. WritesHoldTheirCommand'
    BY <1>1, <1>5, WritesKept DEF Showing
  <1>9. ConfirmedIsShown'
    BY <1>1 DEF Showing, ConfirmedIsShown
  <1> QED
    BY <1>7, <1>8, <1>9 DEF Showing

\* A confirmation shows the value of its command if that is the newest.
LEMMA ShownByConfirmation ==
    ASSUME TypeOK, Inductive, Showing,
           NEW s \in Session, NEW k \in Keys(s), ConfirmWrite(s, k)
    PROVE  Showing'
  <1> DEFINE q == requests[s][k]
  <1>1. /\ UNCHANGED <<desired, gen, fromInv>>
        /\ IsWrite(s, k) /\ q.st = "acked"
        /\ confirmedGen' = IF q.gen > confirmedGen THEN q.gen ELSE confirmedGen
        /\ haState' = IF q.gen = gen THEN q.val ELSE haState
    BY DEF ConfirmWrite
  <1>2. requests[s] \in Seq(Request) /\ q \in Request /\ Read(q.val) \in Request
    <2>1. requests[s] \in Seq(Request) /\ q \in Request
      BY ElementOfSeq DEF Keys, TypeOK
    <2>2. q.val \in Value
      BY <2>1 DEF Request
    <2> QED
      BY <2>1, <2>2, RecordTypes
  <1>3. PICK outcome : Send(s, Finish(s, k), Read(q.val), outcome)
    BY DEF ConfirmWrite, StartRead
  <1>4. /\ Finish(s, k) \in Seq(Request) /\ Len(Finish(s, k)) = Len(requests[s])
        /\ \A j \in Keys(s) : Finish(s, k)[j] \in {requests[s][j], Done}
    BY <1>2, RecordTypes, ExceptSeq DEF Finish, Keys
  <1>5. Fresh(Read(q.val))
    BY DEF Fresh, Read
  <1>6. Extended
    BY <1>2, <1>3, <1>4, <1>5, SendingExtends
  <1>7. Shifted
    BY <1>1, StillShifts
  <1>8. OlderValueComesBefore'
    BY <1>1, <1>6, <1>7, OlderKept DEF Showing
  <1>9. WritesHoldTheirCommand'
    BY <1>1, <1>6, WritesKept DEF Showing
  <1>10. ConfirmedIsShown'
    <2>1. q.gen = gen => q.val = desired
      BY <1>1 DEF Showing, WritesHoldTheirCommand
    <2> QED
      BY <1>1, <2>1 DEF Showing, ConfirmedIsShown
  <1> QED
    BY <1>8, <1>9, <1>10 DEF Showing

\* The acknowledgement of a write comes before any older value that is read
\* after it, so an older value that is still unread is not overtaken.
LEMMA ShownByWriteReply ==
    ASSUME TypeOK, Inductive, OneConnection, Showing,
           NEW s \in Session, NEW kind \in {"write_ok", "write_exception"},
           HandleWriteReply(s, kind)
    PROVE  Showing'
  <1> DEFINE k == Head(fromInv[s]).key
             st == IF kind = "write_ok" THEN "acked" ELSE "rejected"
  <1>1. /\ Receive(s, kind)
        /\ UNCHANGED <<desired, gen, confirmedGen, haState>>
        /\ \/ requests' = requests
           \/ IsWrite(s, k) /\ requests' = [requests EXCEPT ![s][k].st = st]
    BY DEF HandleWriteReply, appVars, haVars
  <1>2. ConfirmedIsShown'
    BY <1>1 DEF Showing, ConfirmedIsShown
  <1>3. CASE requests' = requests
    <2>1. Extended /\ Shifted
      BY <1>1, <1>3, SettlingExtends, ReceivingShifts
    <2> QED
      BY <1>1, <1>2, <2>1, OlderKept, WritesKept DEF Showing
  <1>4. CASE IsWrite(s, k) /\ requests' = [requests EXCEPT ![s][k].st = st]
    <2>1. /\ \A t \in Session : t # s => fromInv[t] = <<>> /\ fromInv'[t] = fromInv[t]
          /\ 1 \in 1..Len(fromInv[s]) /\ k = fromInv[s][1].key
          /\ fromInv[s][1].kind = kind
          /\ \A i \in 1..Len(fromInv'[s]) :
                 /\ i \in Nat /\ i + 1 \in 1..Len(fromInv[s]) /\ 1 < i + 1
                 /\ fromInv'[s][i] = fromInv[s][i + 1]
      BY <1>1, Receiving
    <2>2. k \in 1..Len(requests[s])
      BY <2>1 DEF Inductive, RepliesKeyed, ReplyKind, Keys
    <2>3. requests[s] \in Seq(Request) /\ requests[s][k] \in Request
      BY <2>2, ElementOfSeq DEF TypeOK
    <2>4. [requests[s][k] EXCEPT !.st = st] \in Request
      BY <2>3 DEF Request, Status
    <2>5. /\ Len(requests'[s]) = Len(requests[s])
          /\ \A j \in 1..Len(requests[s]) : requests'[s][j] =
                 IF j = k THEN [requests[s][k] EXCEPT !.st = st] ELSE requests[s][j]
      BY <1>4, <2>2, <2>3, <2>4, ExceptSeq DEF TypeOK
    <2>6. \A t \in Session : t # s => requests'[t] = requests[t]
      BY <1>4 DEF TypeOK
    <2>7. \A t \in Session :
              /\ Len(requests'[t]) = Len(requests[t])
              /\ \A j \in 1..Len(requests[t]) :
                     /\ requests'[t][j].op = requests[t][j].op
                     /\ requests'[t][j].gen = requests[t][j].gen
                     /\ requests'[t][j].val = requests[t][j].val
                     /\ \/ requests'[t][j].st = requests[t][j].st
                        \/ t = s /\ j = k /\ requests'[t][j].st = st
      <3>1. /\ [requests[s][k] EXCEPT !.st = st].op = requests[s][k].op
            /\ [requests[s][k] EXCEPT !.st = st].gen = requests[s][k].gen
            /\ [requests[s][k] EXCEPT !.st = st].val = requests[s][k].val
            /\ [requests[s][k] EXCEPT !.st = st].st = st
        BY <2>3 DEF Request
      <3> QED
        BY <2>5, <2>6, <3>1
    <2>8. WritesHoldTheirCommand'
      BY <1>1, <2>7 DEF Showing, WritesHoldTheirCommand, Keys, IsWrite
    <2>9. OlderValueComesBefore'
      <3> SUFFICES ASSUME NEW t \in Session, NEW i \in 1..Len(fromInv'[t]),
                          fromInv'[t][i].kind = "read_value",
                          fromInv'[t][i].val # desired
                   PROVE  NotAcknowledgedBefore(t, i)'
        BY <1>1 DEF OlderValueComesBefore
      <3>1. t = s
        BY <2>1
      <3>2. /\ i \in Nat /\ i + 1 \in 1..Len(fromInv[s]) /\ 1 < i + 1
            /\ fromInv'[s][i] = fromInv[s][i + 1]
        BY <2>1, <3>1
      <3>3. NotAcknowledgedBefore(s, i + 1)
        BY <3>1, <3>2 DEF Showing, OlderValueComesBefore
      <3>4. kind = "write_ok" => requests[s][k].gen < gen
        BY <1>4, <2>1, <3>2, <3>3 DEF NotAcknowledgedBefore
      <3>5. gen' > 0 => confirmedGen' < gen'
        BY <1>1, <3>3 DEF NotAcknowledgedBefore
      <3>6. ASSUME NEW u \in Session, NEW j \in 1..Len(requests'[u]),
                   requests'[u][j].op = "write", requests'[u][j].st = "acked"
            PROVE  requests'[u][j].gen < gen'
        <4>1. CASE requests[u][j].st = "acked"
          <5>1. /\ j \in 1..Len(requests[u]) /\ requests[u][j].op = "write"
                /\ requests'[u][j].gen = requests[u][j].gen
            BY <2>7, <3>6
          <5>2. requests[u][j].gen < gen
            BY <3>3, <4>1, <5>1 DEF NotAcknowledgedBefore, Keys, IsWrite
          <5> QED
            BY <1>1, <5>1, <5>2
        <4>2. CASE u = s /\ j = k /\ st = "acked"
          BY <1>1, <2>2, <2>7, <3>4, <4>2
        <4> QED
          BY <2>7, <3>6, <4>1, <4>2
      <3>7. ASSUME NEW j \in 1..Len(fromInv'[s]), j < i, fromInv'[s][j].kind = "write_ok",
                   requests'[s][fromInv'[s][j].key].op = "write"
            PROVE  requests'[s][fromInv'[s][j].key].gen < gen'
        <4>1. /\ j + 1 \in 1..Len(fromInv[s]) /\ fromInv'[s][j] = fromInv[s][j + 1]
              /\ j + 1 < i + 1
          BY <2>1, <3>2, <3>7
        <4>2. fromInv[s][j + 1].key \in 1..Len(requests[s])
          BY <3>7, <4>1 DEF Inductive, RepliesKeyed, ReplyKind, Keys
        <4> QED
          <5>1. /\ requests[s][fromInv[s][j + 1].key].op = "write"
                /\ requests'[s][fromInv[s][j + 1].key].gen =
                       requests[s][fromInv[s][j + 1].key].gen
            BY <2>7, <3>7, <4>1, <4>2
          <5>2. requests[s][fromInv[s][j + 1].key].gen < gen
            BY <3>3, <3>7, <4>1, <5>1 DEF NotAcknowledgedBefore, IsWrite
          <5> QED
            BY <1>1, <4>1, <5>1, <5>2
      <3> QED
        BY <3>1, <3>5, <3>6, <3>7 DEF NotAcknowledgedBefore, Keys, IsWrite
    <2> QED
      BY <1>2, <2>8, <2>9 DEF Showing
  <1> QED
    BY <1>1, <1>3, <1>4

\* A value read is shown, and it is older only if nothing newer is confirmed.
LEMMA ShownByReadReply ==
    ASSUME TypeOK, Inductive, OneConnection, Showing,
           NEW s \in Session, NEW kind \in {"read_value", "read_exception"},
           HandleReadReply(s, kind)
    PROVE  Showing'
  <1> DEFINE f == Head(fromInv[s])
  <1>1. /\ Receive(s, kind) /\ UNCHANGED <<desired, gen, confirmedGen>>
        /\ requests' = requests \/ requests' = [requests EXCEPT ![s] = Finish(s, f.key)]
        /\ haState' = haState \/ (kind = "read_value" /\ haState' = f.val)
    BY DEF HandleReadReply, appVars
  <1>2. 1 \in 1..Len(fromInv[s]) /\ f = fromInv[s][1] /\ fromInv[s][1].kind = kind
    BY <1>1, Receiving
  <1>3. f.key \in Keys(s)
    BY <1>2 DEF Inductive, RepliesKeyed, ReplyKind
  <1>4. Extended /\ Shifted
    BY <1>1, <1>3, SettlingExtends, ReceivingShifts
  <1>5. WritesHoldTheirCommand' /\ OlderValueComesBefore'
    BY <1>1, <1>4, OlderKept, WritesKept DEF Showing
  <1>6. ConfirmedIsShown'
    <2>1. kind = "read_value" /\ f.val # desired => (gen > 0 => confirmedGen < gen)
      BY <1>2 DEF Showing, OlderValueComesBefore, NotAcknowledgedBefore
    <2>2. gen \in Nat /\ confirmedGen \in Nat
      BY DEF TypeOK
    <2> QED
      BY <1>1, <2>1, <2>2 DEF Showing, ConfirmedIsShown
  <1> QED
    BY <1>5, <1>6 DEF Showing

\* Steps that leave the requests alone or settle one, and add no frame.
LEMMA ShownByQuietSteps ==
    ASSUME TypeOK, Inductive, OneConnection, Showing
    PROVE  /\ (\E p \in Percent : HaCommand(p)) \/ InverterDrops \/ UNCHANGED vars => Showing'
           /\ \A s \in Session : \A k \in Keys(s) :
                  RejectWrite(s, k) \/ TimeoutWrite(s, k) \/ ReadbackTimeout(s, k) => Showing'
           /\ \A s \in Session :
                  HandleRegistration(s) \/ HandleProductInfo(s) \/ HandleOldProductInfo(s)
                      \/ HandleTelemetry(s) => Showing'
           /\ \A s \in Session : Close(s) => Showing'
  <1> USE DEF appVars, routeVars, haVars, sessionVars, inverterVars
  <1> DEFINE Same == UNCHANGED <<desired, gen, confirmedGen, haState>>
  <1>1. ASSUME Same, Extended, Shifted PROVE Showing'
    <2>1. ConfirmedIsShown'
      BY <1>1 DEF Showing, ConfirmedIsShown
    <2> QED
      BY <1>1, <2>1, OlderKept, WritesKept DEF Showing
  <1>2. ASSUME \/ \E p \in Percent : HaCommand(p)
               \/ InverterDrops
               \/ UNCHANGED vars
        PROVE  Showing'
    <2>1. Same /\ fromInv' = fromInv /\ requests' = requests
      BY <1>2 DEF HaCommand, InverterDrops, vars
    <2>2. Shifted
      BY <2>1, StillShifts
    <2>3. Extended
      BY <2>1 DEF Extended, Kept
    <2> QED
      BY <1>1, <2>1, <2>2, <2>3
  <1>3. ASSUME NEW s \in Session, NEW k \in Keys(s),
               RejectWrite(s, k) \/ TimeoutWrite(s, k) \/ ReadbackTimeout(s, k)
        PROVE  Showing'
    <2>1. /\ Same /\ fromInv' = fromInv
          /\ requests' = [requests EXCEPT ![s] = Finish(s, k)]
      BY <1>3 DEF RejectWrite, TimeoutWrite, ReadbackTimeout
    <2>2. Shifted /\ Extended
      BY <2>1, StillShifts, SettlingExtends
    <2> QED
      BY <1>1, <2>1, <2>2
  <1>4. ASSUME NEW s \in Session,
               \/ HandleRegistration(s) \/ HandleProductInfo(s)
               \/ HandleOldProductInfo(s) \/ HandleTelemetry(s)
        PROVE  Showing'
    <2>1. Same /\ requests' = requests /\ \E kind : Receive(s, kind)
      BY <1>4 DEF HandleRegistration, HandleProductInfo, HandleOldProductInfo, HandleTelemetry
    <2>2. Shifted /\ Extended
      BY <2>1, ReceivingShifts, SettlingExtends
    <2> QED
      BY <1>1, <2>1, <2>2
  <1>5. ASSUME NEW s \in Session, Close(s) PROVE Showing'
    <2>1. /\ Same /\ requests' = requests
          /\ \A t \in Session : fromInv'[t] = fromInv[t] \/ fromInv'[t] = <<>>
      BY <1>5 DEF Close, TypeOK
    <2>2. Shifted /\ Extended
      BY <1>5, <2>1, StillShifts, SettlingExtends
    <2> QED
      BY <1>1, <2>1, <2>2
  <1> QED
    BY <1>2, <1>3, <1>4, <1>5

\* A new connection starts without requests, and no frame is unread.
LEMMA ShownByConnect ==
    ASSUME TypeOK, Inductive, AbandonedIsMute, Showing, NEW s \in Session, Connect(s)
    PROVE  Showing'
  <1>1. /\ UNCHANGED <<desired, gen, confirmedGen, haState>>
        /\ requests'[s] = <<>>
        /\ \A t \in Session : t # s => requests'[t] = requests[t]
        /\ \A t \in Session : fromInv'[t] = <<>>
    BY DEF Connect, AbandonedIsMute, appVars, haVars, TypeOK
  <1>2. OlderValueComesBefore'
    <2>1. \A t \in Session : 1..Len(fromInv'[t]) = {}
      BY <1>1
    <2> QED
      BY <2>1 DEF OlderValueComesBefore
  <1>3. WritesHoldTheirCommand'
    <2>1. \A t \in Session : Keys(t)' = IF t = s THEN {} ELSE Keys(t)
      BY <1>1 DEF Keys
    <2> QED
      BY <1>1, <2>1 DEF Showing, WritesHoldTheirCommand, IsWrite
  <1>4. ConfirmedIsShown'
    BY <1>1 DEF Showing, ConfirmedIsShown
  <1> QED
    BY <1>2, <1>3, <1>4 DEF Showing

\* The inverter reads an older value only while the newest command has not
\* been executed, so nothing before that answer acknowledges it.
LEMMA ShownByInverter ==
    ASSUME TypeOK, Inductive, Showing,
           (\E kind \in FrameKind : InverterAnnounces(kind)) \/ InverterServes
    PROVE  Showing'
  <1>1. /\ UNCHANGED <<desired, gen, confirmedGen, haState, requests>>
        /\ peer \in Session
        /\ \E f \in Frame : /\ Emit(f) \/ fromInv' = fromInv
                            /\ f.kind = "read_value" => f.val = register
    BY InverterEmits DEF appVars, haVars
  <1>2. PICK f \in Frame : /\ Emit(f) \/ fromInv' = fromInv
                           /\ f.kind = "read_value" => f.val = register
    BY <1>1
  <1>3. /\ \A t \in Session : \A i \in 1..Len(fromInv[t]) : fromInv'[t][i] = fromInv[t][i]
        /\ \A t \in Session : \A i \in 1..Len(fromInv'[t]) :
               \/ i \in 1..Len(fromInv[t])
               \/ i = Len(fromInv[t]) + 1 /\ fromInv'[t][i] = f
    BY <1>1, <1>2, EmitAppends
  <1>4. \A t \in Session : Len(fromInv[t]) \in Nat
    BY LenProperties DEF TypeOK
  <1>5. ASSUME NEW t \in Session, NEW i \in 1..Len(fromInv[t]), NEW j \in 1..Len(fromInv'[t]),
               j < i
        PROVE  j \in 1..Len(fromInv[t])
    BY <1>4, <1>5
  <1>6. ConfirmedIsShown' /\ WritesHoldTheirCommand'
    BY <1>1 DEF Showing, ConfirmedIsShown, WritesHoldTheirCommand, Keys, IsWrite
  <1>7. OlderValueComesBefore'
    <2> SUFFICES ASSUME NEW s \in Session, NEW i \in 1..Len(fromInv'[s]),
                        fromInv'[s][i].kind = "read_value",
                        fromInv'[s][i].val # desired
                 PROVE  NotAcknowledgedBefore(s, i)'
      BY <1>1 DEF OlderValueComesBefore
    <2>1. CASE i \in 1..Len(fromInv[s])
      <3>1. NotAcknowledgedBefore(s, i)
        BY <1>3, <2>1 DEF Showing, OlderValueComesBefore
      <3> QED
        BY <1>1, <1>3, <1>5, <2>1, <3>1 DEF NotAcknowledgedBefore, Keys, IsWrite
    <2>2. CASE i = Len(fromInv[s]) + 1 /\ fromInv'[s][i] = f
      <3>1. register # desired
        BY <1>2, <2>2
      <3>2. /\ gen \in Nat /\ landed \in Nat /\ confirmedGen \in Nat
            /\ confirmedGen <= landed /\ landed <= gen
            /\ gen > 0 => landed < gen
        BY <3>1 DEF TypeOK, Inductive, GensOrdered, NewestIsInRegister
      <3>3. ASSUME NEW t \in Session, NEW k \in Keys(t), IsWrite(t, k),
                   requests[t][k].gen \in executed
            PROVE  requests[t][k].gen < gen
        <4>1. requests[t][k].gen \in Nat /\ 0 < requests[t][k].gen /\ requests[t][k].gen <= gen
          BY <3>3, GenTypes DEF Showing, WritesHoldTheirCommand
        <4>2. requests[t][k].gen <= landed
          BY <3>3 DEF Inductive, GensOrdered
        <4> QED
          BY <3>2, <4>1, <4>2
      <3>4. \A t \in Session : \A k \in Keys(t) :
                IsWrite(t, k) /\ requests[t][k].st = "acked" => requests[t][k].gen < gen
        BY <3>3 DEF Inductive, AcksEarned
      <3>5. \A j \in 1..Len(fromInv[s]) :
                fromInv[s][j].kind = "write_ok" /\ IsWrite(s, fromInv[s][j].key) =>
                    requests[s][fromInv[s][j].key].gen < gen
        BY <3>3 DEF Inductive, RepliesKeyed, ReplyKind
      <3>6. \A j \in 1..Len(fromInv'[s]) : j < i => j \in 1..Len(fromInv[s])
        BY <1>4, <2>2
      <3>7. gen > 0 => confirmedGen < gen
        BY <3>2
      <3> QED
        BY <1>1, <1>3, <3>4, <3>5, <3>6, <3>7 DEF NotAcknowledgedBefore, Keys, IsWrite
    <2> QED
      BY <1>3, <2>1, <2>2
  <1> QED
    BY <1>6, <1>7 DEF Showing

\* Home Assistant shows the setpoint that is confirmed, in every reachable
\* state, if abandoned connections are mute.
THEOREM StateTopicIsRight == ASSUME AbandonedIsMute PROVE Spec => []ConfirmedIsShown
  <1>1. Init => OneConnection /\ Showing
    BY DEF Init, OneConnection, Showing, WritesHoldTheirCommand, OlderValueComesBefore,
       ConfirmedIsShown, Keys
  <1>2. TypeOK /\ Inductive /\ OneConnection /\ Showing /\ [Next]_vars
            => OneConnection' /\ Showing'
    <2> SUFFICES ASSUME TypeOK, Inductive, OneConnection, Showing, [Next]_vars
                 PROVE  OneConnection' /\ Showing'
      OBVIOUS
    <2>1. OneConnection'
      BY ConnectionAlone
    <2>2. ASSUME NEW s \in Session, SessionTasks(s) PROVE Showing'
      BY <2>2, ShownBySettle, ShownByConfirmation, ShownByQuietSteps DEF SessionTasks
    <2>3. ASSUME NEW s \in Session, HandleFrame(s) PROVE Showing'
      BY <2>3, ShownByWriteReply, ShownByReadReply, ShownByQuietSteps DEF HandleFrame
    <2>4. ASSUME NEW s \in Session, Connect(s) \/ Close(s) PROVE Showing'
      BY <2>4, ShownByConnect, ShownByQuietSteps
    <2>5. ASSUME \/ \E p \in Percent : HaCommand(p)
                 \/ InverterDrops
                 \/ UNCHANGED vars
          PROVE  Showing'
      BY <2>5, ShownByQuietSteps
    <2>6. Showing'
      BY <2>2, <2>3, <2>4, <2>5, ShownByCommand, ShownByInverter DEF Next
    <2> QED
      BY <2>1, <2>6
  <1>3. Showing => ConfirmedIsShown
    BY DEF Showing
  <1> QED
    BY <1>1, <1>2, <1>3, TypeCorrect, InvariantHolds, PTL DEF Spec

---------------------------------------------------------------------------
(* Steps *)

\* A write that has not ended is ended by its own task only: every other step
\* leaves it as it is, settles its future, or drops it with its Session.
LEMMA WriteEnds ==
    ASSUME TypeOK, Inductive, [Next]_vars,
           NEW t \in Session, NEW j \in Keys(t), IsWrite(t, j), Unfinished(t, j),
           j \in DOMAIN requests'[t], requests'[t][j].st = "done"
    PROVE  ConfirmWrite(t, j) \/ RejectWrite(t, j) \/ TimeoutWrite(t, j)
  <1> USE DEF appVars, routeVars, haVars, sessionVars, inverterVars
  <1>0. /\ requests'[t][j] # requests[t][j]
        /\ \A s \in Session : requests[s] \in Seq(Request) /\ Len(requests[s]) \in Nat
        /\ j \in 1..Len(requests[t])
    BY LenProperties DEF Unfinished, TypeOK, Keys
  <1>1. ASSUME NEW s \in Session, NEW reqs \in Seq(Request), NEW r \in Request, NEW outcome,
               Send(s, reqs, r, outcome), Len(reqs) = Len(requests[s])
        PROVE  t = s /\ reqs[j] # requests[t][j]
    BY <1>0, <1>1, SendEffect
  <1>2. ASSUME NEW s \in Session, NEW k \in Keys(s),
               requests' = [requests EXCEPT ![s] = Finish(s, k)]
        PROVE  t = s /\ j = k
    <2>1. \A i \in Keys(s) : i # k => Finish(s, k)[i] = requests[s][i]
      BY <1>0, RecordTypes, ExceptSeq DEF Finish, Keys
    <2>2. requests'[s] = Finish(s, k) /\ \A u \in Session : u # s => requests'[u] = requests[u]
      BY <1>2 DEF TypeOK
    <2> QED
      BY <1>0, <2>1, <2>2
  <1>3. CASE RunSetpoint
    <2> DEFINE c == Head(scheduled)
    <2>1. c.session \in Session /\ c.percent \in Percent
      <3>1. c \in [session : Session, percent : Percent]
        BY <1>3, TailFacts DEF RunSetpoint, TypeOK
      <3> QED
        BY <3>1
    <2>2. Write(c.percent, gen + 1) \in Request
      BY <2>1, RecordTypes DEF TypeOK, Value
    <2>3. PICK outcome :
             Send(c.session, requests[c.session], Write(c.percent, gen + 1), outcome)
      BY <1>3 DEF RunSetpoint, StartWrite
    <2> QED
      BY <1>0, <1>1, <2>1, <2>2, <2>3
  <1>4. ASSUME NEW s \in Session, RunSettle(s) PROVE FALSE
    <2>1. Write(desired, gen) \in Request /\ Read(NoPercent) \in Request
      BY RecordTypes DEF TypeOK, Value
    <2>2. \E r \in {Write(desired, gen), Read(NoPercent)} : \E outcome :
              Send(s, requests[s], r, outcome)
      BY <1>4 DEF RunSettle, StartWrite, StartRead
    <2> QED
      BY <1>0, <1>1, <2>1, <2>2
  <1>5. ASSUME NEW s \in Session, NEW k \in Keys(s), ConfirmWrite(s, k)
        PROVE  t = s /\ j = k
    <2> DEFINE q == requests[s][k]
    <2>1. Read(q.val) \in Request
      <3>1. q \in Request
        BY <1>0, ElementOfSeq DEF Keys
      <3> QED
        BY <3>1, RecordTypes DEF Request
    <2>2. Finish(s, k) \in Seq(Request) /\ Len(Finish(s, k)) = Len(requests[s])
      BY FinishTypes
    <2>3. \A i \in Keys(s) : i # k => Finish(s, k)[i] = requests[s][i]
      BY <1>0, RecordTypes, ExceptSeq DEF Finish, Keys
    <2>4. PICK outcome : Send(s, Finish(s, k), Read(q.val), outcome)
      BY <1>5 DEF ConfirmWrite, StartRead
    <2> QED
      BY <1>1, <2>1, <2>2, <2>3, <2>4
  <1>6. ASSUME NEW s \in Session, HandleFrame(s) PROVE FALSE
    <2>1. ASSUME NEW kind \in {"write_ok", "write_exception"}, HandleWriteReply(s, kind)
          PROVE  FALSE
      <3> DEFINE k == Head(fromInv[s]).key
                 st == IF kind = "write_ok" THEN "acked" ELSE "rejected"
      <3>1. Receive(s, kind) /\ requests' = [requests EXCEPT ![s][k].st = st]
        BY <1>0, <2>1 DEF HandleWriteReply
      <3>2. k \in 1..Len(requests[s])
        BY <3>1, ReceiveIsQuiet DEF Receive, Inductive, RepliesKeyed, ReplyKind, Keys
      <3>3. requests[s][k] \in Request
        BY <1>0, <3>2, ElementOfSeq
      <3>4. [requests[s][k] EXCEPT !.st = st] \in Request
        BY <3>3 DEF Request, Status
      <3>5. /\ \A i \in 1..Len(requests[s]) : requests'[s][i] =
                   IF i = k THEN [requests[s][k] EXCEPT !.st = st] ELSE requests[s][i]
            /\ t # s => requests'[t] = requests[t]
        BY <1>0, <3>1, <3>2, <3>4, ExceptSeq DEF TypeOK
      <3>6. [requests[s][k] EXCEPT !.st = st].st # "done"
        BY <3>3 DEF Request
      <3> QED
        BY <1>0, <3>5, <3>6
    <2>2. ASSUME NEW kind \in {"read_value", "read_exception"}, HandleReadReply(s, kind)
          PROVE  FALSE
      <3>1. Head(fromInv[s]).key \in Keys(s)
        BY <2>2, ReceiveIsQuiet
           DEF HandleReadReply, Receive, Inductive, RepliesKeyed, ReplyKind
      <3> QED
        BY <1>0, <1>2, <2>2, <3>1 DEF HandleReadReply
    <2>3. ASSUME \/ HandleRegistration(s) \/ HandleProductInfo(s)
                 \/ HandleOldProductInfo(s) \/ HandleTelemetry(s)
          PROVE  FALSE
      BY <1>0, <2>3 DEF HandleRegistration, HandleProductInfo, HandleOldProductInfo,
         HandleTelemetry
    <2> QED
      BY <1>6, <2>1, <2>2, <2>3 DEF HandleFrame
  <1>7. ASSUME NEW s \in Session, Connect(s) \/ Close(s) PROVE FALSE
    <2>1. requests'[t] = requests[t] \/ requests'[t] = <<>>
      BY <1>7 DEF Connect, Close, TypeOK
    <2> QED
      BY <1>0, <2>1
  <1>8. ASSUME \/ \E p \in Percent : HaCommand(p)
               \/ InverterDrops
               \/ \E kind \in FrameKind : InverterAnnounces(kind)
               \/ UNCHANGED vars
        PROVE  FALSE
    BY <1>0, <1>8 DEF HaCommand, InverterDrops, InverterAnnounces, vars
  <1>9. ASSUME InverterServes PROVE FALSE
    BY <1>0, <1>9, InverterEmits
  <1>10. ASSUME NEW s \in Session, NEW k \in Keys(s), ReadbackTimeout(s, k) PROVE FALSE
    BY <1>2, <1>10 DEF ReadbackTimeout
  <1>11. ASSUME NEW s \in Session, NEW k \in Keys(s), RejectWrite(s, k) \/ TimeoutWrite(s, k)
         PROVE  t = s /\ j = k
    BY <1>2, <1>11 DEF RejectWrite, TimeoutWrite
  <1> QED
    BY <1>3, <1>4, <1>5, <1>6, <1>7, <1>8, <1>9, <1>10, <1>11 DEF Next, SessionTasks

\* A reported confirmation is earned: whenever the task of a write ends with
\* "confirmed" on the result topic, the inverter had executed the command of that
\* very write, also when newer commands have been given since.
THEOREM ConfirmationsAreEarned == Spec => ConfirmationIsEarned
  <1>1. TypeOK /\ Inductive /\ [Next]_vars =>
            (result' = "confirmed" =>
                \A s \in Session : \A k \in Keys(s) :
                    /\ IsWrite(s, k) /\ Unfinished(s, k)
                    /\ k \in DOMAIN requests'[s] /\ requests'[s][k].st = "done"
                    => requests[s][k].gen \in executed)
    <2> SUFFICES ASSUME TypeOK, Inductive, [Next]_vars, NEW s \in Session, NEW k \in Keys(s),
                        IsWrite(s, k), Unfinished(s, k),
                        k \in DOMAIN requests'[s], requests'[s][k].st = "done",
                        result' = "confirmed"
                 PROVE  requests[s][k].gen \in executed
      OBVIOUS
    <2>1. ConfirmWrite(s, k)
      BY WriteEnds DEF RejectWrite, TimeoutWrite
    <2> QED
      BY <2>1 DEF ConfirmWrite, Inductive, AcksEarned
  <1> QED
    BY <1>1, TypeCorrect, InvariantHolds, PTL DEF Spec, ConfirmationIsEarned

\* Steps that make no request.
LEMMA NothingSent ==
    ASSUME TypeOK, Inductive,
           NEW t \in Session, Len(requests'[t]) > Len(requests[t]), [Next]_vars
    PROVE  \/ RunSetpoint
           \/ \E s \in Session : RunSettle(s)
           \/ \E s \in Session : \E k \in Keys(s) : ConfirmWrite(s, k)
  <1> USE DEF appVars, routeVars, haVars, sessionVars, inverterVars
  <1> DEFINE Same == Len(requests'[t]) = Len(requests[t])
  <1>0. /\ ~Same /\ requests'[t] # requests[t] /\ requests' # requests
        /\ requests'[t] # <<>> /\ requests[t] \in Seq(Request)
    BY LenProperties DEF TypeOK
  <1>1. ASSUME NEW s \in Session, NEW k \in Keys(s),
               requests' = [requests EXCEPT ![s] = Finish(s, k)]
        PROVE  FALSE
    BY <1>0, <1>1, FinishIsQuiet
  <1>2. ASSUME NEW s \in Session, HandleFrame(s) PROVE FALSE
    <2>1. ASSUME NEW kind \in {"write_ok", "write_exception"}, HandleWriteReply(s, kind)
          PROVE  FALSE
      <3> DEFINE k == Head(fromInv[s]).key
                 st == IF kind = "write_ok" THEN "acked" ELSE "rejected"
      <3>1. Receive(s, kind) /\ requests' = [requests EXCEPT ![s][k].st = st]
        BY <1>0, <2>1 DEF HandleWriteReply
      <3>2. k \in 1..Len(requests[s]) /\ requests[s] \in Seq(Request)
        BY <3>1, ReceiveIsQuiet DEF Receive, Inductive, RepliesKeyed, ReplyKind, Keys, TypeOK
      <3>3. requests[s][k] \in Request
        BY <3>2, ElementOfSeq
      <3>4. [requests[s][k] EXCEPT !.st = st] \in Request
        BY <3>3 DEF Request, Status
      <3>5. Len(requests'[s]) = Len(requests[s]) /\ (t # s => requests'[t] = requests[t])
        BY <3>1, <3>2, <3>4, ExceptSeq DEF TypeOK
      <3> QED
        BY <1>0, <3>5
    <2>2. ASSUME NEW kind \in {"read_value", "read_exception"}, HandleReadReply(s, kind)
          PROVE  FALSE
      <3>1. Head(fromInv[s]).key \in Keys(s)
        BY <2>2, ReceiveIsQuiet
           DEF HandleReadReply, Receive, Inductive, RepliesKeyed, ReplyKind
      <3> QED
        BY <1>0, <1>1, <2>2, <3>1 DEF HandleReadReply
    <2>3. ASSUME \/ HandleRegistration(s) \/ HandleProductInfo(s)
                 \/ HandleOldProductInfo(s) \/ HandleTelemetry(s)
          PROVE  FALSE
      BY <1>0, <2>3 DEF HandleRegistration, HandleProductInfo, HandleOldProductInfo,
         HandleTelemetry
    <2> QED
      BY <1>2, <2>1, <2>2, <2>3 DEF HandleFrame
  <1>3. ASSUME NEW s \in Session, Connect(s) \/ Close(s) PROVE FALSE
    BY <1>0, <1>3 DEF Connect, Close, TypeOK
  <1>4. ASSUME \/ \E p \in Percent : HaCommand(p)
               \/ InverterDrops
               \/ \E kind \in FrameKind : InverterAnnounces(kind)
               \/ UNCHANGED vars
        PROVE  FALSE
    BY <1>0, <1>4 DEF HaCommand, InverterDrops, InverterAnnounces, vars
  <1>5. ASSUME InverterServes PROVE FALSE
    BY <1>0, <1>5, InverterEmits
  <1>6. ASSUME NEW s \in Session, NEW k \in Keys(s),
               RejectWrite(s, k) \/ TimeoutWrite(s, k) \/ ReadbackTimeout(s, k)
        PROVE  FALSE
    BY <1>1, <1>6 DEF RejectWrite, TimeoutWrite, ReadbackTimeout
  <1> QED
    BY <1>2, <1>3, <1>4, <1>5, <1>6 DEF Next, SessionTasks

\* Only the newest command is put on the wire, with its own value, and never
\* again once it is confirmed: a write made by any step is of that kind.
THEOREM OnlyPendingWrites == Spec => OnlyPendingIsSent
  <1> DEFINE Newest(r) == r.op = "write" =>
                 r.gen = gen' /\ r.val = desired' /\ r.gen > confirmedGen'
  <1>1. TypeOK /\ Inductive /\ [Next]_vars =>
            \A s \in Session :
                Len(requests'[s]) > Len(requests[s]) => Newest(requests'[s][Len(requests'[s])])
    <2> SUFFICES ASSUME TypeOK, Inductive, [Next]_vars,
                        NEW t \in Session, Len(requests'[t]) > Len(requests[t])
                 PROVE  Newest(requests'[t][Len(requests'[t])])
      OBVIOUS
    <2>0. /\ gen \in Nat /\ confirmedGen \in Nat /\ confirmedGen <= gen
          /\ \A s \in Session : requests[s] \in Seq(Request) /\ Len(requests[s]) \in Nat
      BY LenProperties DEF TypeOK, Inductive, GensOrdered
    <2>1. ASSUME NEW s \in Session, NEW reqs \in Seq(Request), NEW r \in Request, NEW outcome,
                 Send(s, reqs, r, outcome), Len(reqs) = Len(requests[s]), Newest(r)
          PROVE  Newest(requests'[t][Len(requests'[t])])
      <3>1. /\ t # s => requests'[t] = requests[t]
            /\ Len(requests'[s]) = Len(reqs) + 1
            /\ requests'[s][Len(reqs) + 1] \in {r, Done}
        BY <2>1, SendEffect
      <3>2. t = s
        BY <2>0, <3>1
      <3>3. Done.op # "write"
        BY DEF Done
      <3> QED
        BY <2>1, <3>1, <3>2, <3>3
    <2>2. CASE RunSetpoint
      <3> DEFINE c == Head(scheduled)
      <3>1. c \in [session : Session, percent : Percent]
        BY <2>2, TailFacts DEF RunSetpoint, TypeOK
      <3>2. /\ c.session \in Session /\ c.percent \in Percent
            /\ gen' = gen + 1 /\ desired' = c.percent /\ confirmedGen' = confirmedGen
        BY <2>2, <3>1 DEF RunSetpoint
      <3>3. PICK outcome :
               Send(c.session, requests[c.session], Write(c.percent, gen + 1), outcome)
        BY <2>2 DEF RunSetpoint, StartWrite
      <3>4. Write(c.percent, gen + 1) \in Request
        BY <2>0, <3>2, RecordTypes DEF Value
      <3>5. Newest(Write(c.percent, gen + 1))
        BY <2>0, <3>2 DEF Write
      <3> QED
        BY <2>0, <2>1, <3>2, <3>3, <3>4, <3>5
    <2>3. ASSUME NEW s \in Session, RunSettle(s)
          PROVE  Newest(requests'[t][Len(requests'[t])])
      <3>1. UNCHANGED <<desired, gen, confirmedGen>>
        BY <2>3 DEF RunSettle, appVars
      <3>2. Write(desired, gen) \in Request /\ Read(NoPercent) \in Request
        BY RecordTypes DEF TypeOK, Value
      <3>3. \/ Pending /\ \E outcome : Send(s, requests[s], Write(desired, gen), outcome)
            \/ \E outcome : Send(s, requests[s], Read(NoPercent), outcome)
        BY <2>3 DEF RunSettle, StartWrite, StartRead
      <3>4. Newest(Read(NoPercent)) /\ (Pending => Newest(Write(desired, gen)))
        BY <2>0, <3>1 DEF Read, Write, Pending
      <3> QED
        BY <2>0, <2>1, <3>2, <3>3, <3>4
    <2>4. ASSUME NEW s \in Session, NEW k \in Keys(s), ConfirmWrite(s, k)
          PROVE  Newest(requests'[t][Len(requests'[t])])
      <3>1. requests[s][k] \in Request
        BY <2>0, ElementOfSeq DEF Keys
      <3>2. Read(requests[s][k].val) \in Request
        BY <3>1, RecordTypes DEF Request
      <3>3. Finish(s, k) \in Seq(Request) /\ Len(Finish(s, k)) = Len(requests[s])
        BY FinishTypes
      <3>4. PICK outcome : Send(s, Finish(s, k), Read(requests[s][k].val), outcome)
        BY <2>4 DEF ConfirmWrite, StartRead
      <3>5. Newest(Read(requests[s][k].val))
        BY DEF Read
      <3> QED
        BY <2>1, <3>2, <3>3, <3>4, <3>5
    <2> QED
      BY <2>2, <2>3, <2>4, NothingSent
  <1>2. TypeOK /\ Inductive /\ [Next]_vars =>
            [\A s \in Session :
                LET n == Len(requests'[s]) IN
                n > Len(requests[s]) /\ requests'[s][n].op = "write" =>
                    /\ requests'[s][n].gen = gen' /\ requests'[s][n].val = desired'
                    /\ requests'[s][n].gen > confirmedGen']_vars
    BY <1>1
  <1> QED
    BY <1>2, TypeCorrect, InvariantHolds, PTL DEF Spec, OnlyPendingIsSent
=============================================================================
