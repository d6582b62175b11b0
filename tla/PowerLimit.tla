----------------------------- MODULE PowerLimit -----------------------------
(***************************************************************************)
(* ActivePowerLimit control of one inverter in local mode, end to end:     *)
(* the MQTT command handler that Home Assistant reaches, the coroutine     *)
(* scheduled on the asyncio loop, the write and read requests a Session    *)
(* injects, the acknowledgements and timeouts that settle them, and the    *)
(* state that survives a Session (desired value, command generations).     *)
(*                                                                         *)
(* One serial is modelled: every dictionary of the gateway is keyed by     *)
(* serial and no step touches two keys.  The inverter is external code; it *)
(* holds at most one connection and serves requests in order.  Relay mode, *)
(* whose cloud may write the same register, is not part of this module.    *)
(***************************************************************************)
EXTENDS Naturals, Sequences

CONSTANTS
    Session,      \* Session objects; one is reused once nothing refers to it
    NoSession,    \* "no handler", "no owner", "not connected"
    Percent,      \* setpoints Home Assistant may ask for
    NoPercent,    \* "no value", and the expected value of a startup read
    Announced,    \* kinds of frame the inverter sends once registered
    Repeated,     \* those it may send more than once per connection
    MaxGen,       \* bound: setpoint commands accepted
    MaxWire,      \* bound: frames in flight from the inverter, per connection
    Quirks        \* "mute": the inverter may not answer; "refuse": it may answer
                  \* with an exception; "late_frames": frames of a connection it
                  \* abandoned may still arrive after it has reconnected

FrameKind == {"registration", "product_info", "old_product_info", "telemetry"}
ProductInfo == {"product_info", "old_product_info"}

ASSUME SessionAssumption == NoSession \notin Session
ASSUME PercentAssumption == NoPercent \notin Percent
ASSUME FrameAssumption == Announced \subseteq FrameKind /\ Repeated \subseteq FrameKind
ASSUME BoundAssumption == MaxGen \in Nat /\ MaxWire \in Nat
ASSUME QuirkAssumption == Quirks \subseteq {"mute", "refuse", "late_frames"}

VARIABLES
    \* FoxessLocalCloud: survives every Session
    desired, gen, confirmedGen, owner,
    \* MqttPublisher and the loop: command handler, coroutines not yet started
    handler, scheduled,
    \* retained topics Home Assistant sees
    haState, result,
    \* Session objects and what is on its way to each of them
    session, requests, fromInv,
    \* the inverter: its connection, unread requests, its register, and the
    \* generations it executed: the last one and all of them (history)
    peer, said, toInv, register, landed, executed

appVars == <<desired, gen, confirmedGen>>
routeVars == <<owner, handler, scheduled>>
haVars == <<haState, result>>
sessionVars == <<session, requests, fromInv>>
inverterVars == <<peer, said, toInv, register, landed, executed>>
vars == <<appVars, routeVars, haVars, sessionVars, inverterVars>>

---------------------------------------------------------------------------
(* Data *)

Value == Percent \cup {NoPercent}
\* "unconfirmed" stands for rejected, timeout, no_connection and error.
Result == {"none", "confirmed", "unconfirmed"}

\* An injected request.  Its index in requests[s] stands for the device key
\* that _next_device draws from the per-session counter, so the domain of
\* requests[s] is LocalControl._outstanding, which never shrinks.  "acked" and
\* "rejected" are a resolved future whose task has not run yet.
\* Once "done" only its key is left.
Status == {"waiting", "acked", "rejected", "done"}
Request == [op : {"write", "read"}, val : Value, gen : Nat, st : Status]
Write(v, g) == [op |-> "write", val |-> v, gen |-> g, st |-> "waiting"]
Read(expected) == [op |-> "read", val |-> expected, gen |-> 0, st |-> "waiting"]
Done == [op |-> "read", val |-> NoPercent, gen |-> 0, st |-> "done"]

\* A request on its way to the inverter.
WireRequest == [key : Nat, op : {"write", "read"}, val : Value, gen : Nat]
OnWire(k, r) == [key |-> k, op |-> r.op, val |-> r.val, gen |-> r.gen]

ReplyKind == {"write_ok", "write_exception", "read_value", "read_exception"}
Frame == [kind : FrameKind \cup ReplyKind, key : Nat, val : Value]
Announcement(kind) == [kind |-> kind, key |-> 0, val |-> NoPercent]
Reply(kind, k, v) == [kind |-> kind, key |-> k, val |-> v]

SessionState == [open : BOOLEAN, serial : BOOLEAN, wired : BOOLEAN,
                 telemetry : BOOLEAN, settle : {"none", "scheduled", "done"}]
\* Operators named Bug... are deliberate mistakes, never part of Spec: the
\* properties are tested against them.  Here, a Session without its settle flag.
BugNoSettleFlag(open) == [open |-> open, serial |-> FALSE, wired |-> FALSE,
                          telemetry |-> FALSE]
NewSession(open) == [open |-> open, serial |-> FALSE, wired |-> FALSE,
                     telemetry |-> FALSE, settle |-> "none"]

\* pending_active_power_limit: the newest command is not acknowledged yet.
Pending == gen > 0 /\ confirmedGen < gen

Keys(s) == 1..Len(requests[s])
Unfinished(s, k) == requests[s][k].st # "done"

TypeOK ==
    /\ desired \in Value /\ haState \in Value
    /\ gen \in Nat /\ confirmedGen \in Nat /\ landed \in Nat /\ executed \subseteq Nat
    /\ owner \in Session \cup {NoSession}
    /\ handler \in Session \cup {NoSession}
    /\ peer \in Session \cup {NoSession}
    /\ scheduled \in Seq([session : Session, percent : Percent])
    /\ result \in Result
    /\ session \in [Session -> SessionState]
    /\ requests \in [Session -> Seq(Request)]
    /\ fromInv \in [Session -> Seq(Frame)]
    /\ said \subseteq FrameKind
    /\ toInv \in Seq(WireRequest)
    /\ register \in Value

Init ==
    /\ desired = NoPercent
    /\ gen = 0 /\ confirmedGen = 0 /\ landed = 0 /\ executed = {}
    /\ owner = NoSession /\ handler = NoSession /\ scheduled = <<>>
    /\ haState = NoPercent /\ result = "none"
    /\ session = [s \in Session |-> NewSession(FALSE)]
    /\ requests = [s \in Session |-> <<>>]
    /\ fromInv = [s \in Session |-> <<>>]
    /\ peer = NoSession /\ said = {} /\ toInv = <<>>
    /\ register \in Percent

---------------------------------------------------------------------------
(* Sending: LocalControl._send and the two callers that name the request *)

\* A closing writer is refused.  On an open one the bytes are accepted, even
\* when the inverter has silently gone; drain() raises only if the loss of the
\* connection was already noticed.
SendOutcome(s) ==
    IF ~session[s].open THEN {"no_connection"}
    ELSE IF peer = s THEN {"sent"} ELSE {"sent", "error"}

Send(s, reqs, r, outcome) ==
    /\ requests' = [requests EXCEPT ![s] =
           Append(reqs, IF outcome = "sent" THEN r ELSE Done)]
    /\ toInv' = IF outcome = "sent" /\ peer = s
                THEN Append(toInv, OnWire(Len(reqs) + 1, r)) ELSE toInv

\* _apply_active_power_limit up to its await.
StartWrite(s, v, g) ==
    \E outcome \in SendOutcome(s) :
        /\ Send(s, requests[s], Write(v, g), outcome)
        /\ result' = IF outcome = "sent" THEN result ELSE "unconfirmed"

\* _read_active_power_limit_once, after the requests in reqs.
StartRead(s, reqs, expected) ==
    \E outcome \in SendOutcome(s) : Send(s, reqs, Read(expected), outcome)

Finish(s, k) == [requests[s] EXCEPT ![k] = Done]

---------------------------------------------------------------------------
(* Home Assistant and the asyncio loop *)

\* A valid payload on the command topic: the MQTT thread looks the handler up
\* and hands the setpoint to the loop, bound to the Session of the handler.
HaCommand(p) ==
    /\ handler # NoSession
    /\ gen + Len(scheduled) < MaxGen
    /\ scheduled' = Append(scheduled, [session |-> handler, percent |-> p])
    /\ UNCHANGED <<owner, handler, appVars, haVars, sessionVars, inverterVars>>

\* The generation is only counted for the first command.
BugSameGeneration ==
    /\ scheduled # <<>>
    /\ LET c == Head(scheduled)
           g == IF gen > 0 THEN gen ELSE 1 IN
           /\ desired' = c.percent
           /\ gen' = g
           /\ StartWrite(c.session, c.percent, g)
    /\ scheduled' = Tail(scheduled)
    /\ UNCHANGED <<confirmedGen, owner, handler, haState, session,
                   fromInv, peer, said, register, landed, executed>>

\* _handle_active_power_limit_setpoint: record the command, then write it.
RunSetpoint ==
    /\ scheduled # <<>>
    /\ LET c == Head(scheduled) IN
           /\ desired' = c.percent
           /\ gen' = gen + 1
           /\ StartWrite(c.session, c.percent, gen + 1)
    /\ scheduled' = Tail(scheduled)
    /\ UNCHANGED <<confirmedGen, owner, handler, haState, session,
                   fromInv, peer, said, register, landed, executed>>

IsWrite(s, k) == requests[s][k].op = "write"

\* The acknowledgement of any write confirms the newest command.
BugConfirmNewest(s, k) ==
    LET r == requests[s][k] IN
    /\ IsWrite(s, k) /\ r.st = "acked"
    /\ result' = "confirmed"
    /\ confirmedGen' = gen
    /\ haState' = IF r.gen = gen THEN r.val ELSE haState
    /\ StartRead(s, Finish(s, k), r.val)
    /\ UNCHANGED <<desired, gen, routeVars, session, fromInv, peer, said,
                   register, landed, executed>>

\* A confirmed value is shown even when it is not that of the newest command.
BugShowAny(s, k) ==
    LET r == requests[s][k] IN
    /\ IsWrite(s, k) /\ r.st = "acked"
    /\ result' = "confirmed"
    /\ confirmedGen' = IF r.gen > confirmedGen THEN r.gen ELSE confirmedGen
    /\ haState' = r.val
    /\ StartRead(s, Finish(s, k), r.val)
    /\ UNCHANGED <<desired, gen, routeVars, session, fromInv, peer, said,
                   register, landed, executed>>

\* The write task resumes with WRITE_CONFIRMED: report it, record its
\* generation, show it if it is the newest command, and read it back.
ConfirmWrite(s, k) ==
    LET r == requests[s][k] IN
    /\ IsWrite(s, k) /\ r.st = "acked"
    /\ result' = "confirmed"
    /\ confirmedGen' = IF r.gen > confirmedGen THEN r.gen ELSE confirmedGen
    /\ haState' = IF r.gen = gen THEN r.val ELSE haState
    /\ StartRead(s, Finish(s, k), r.val)
    /\ UNCHANGED <<desired, gen, routeVars, session, fromInv, peer, said,
                   register, landed, executed>>

\* It resumes with WRITE_REJECTED, or with WRITE_TIMEOUT: asyncio.wait_for may
\* report the timeout of a future that was resolved in the same loop turn.
\* Writes share one timeout, so their timers fire in the order they were sent.
RejectWrite(s, k) ==
    /\ IsWrite(s, k) /\ requests[s][k].st = "rejected"
    /\ result' = "unconfirmed"
    /\ requests' = [requests EXCEPT ![s] = Finish(s, k)]
    /\ UNCHANGED <<appVars, routeVars, haState, session, fromInv, inverterVars>>

\* A write that timed out is sent once more.
BugRetry(s, k) ==
    /\ IsWrite(s, k) /\ requests[s][k].st = "waiting" /\ session[s].open
    /\ Send(s, Finish(s, k), Write(requests[s][k].val, requests[s][k].gen), "sent")
    /\ UNCHANGED <<appVars, routeVars, haVars, session, fromInv, peer, said,
                   register, landed, executed>>

TimeoutWrite(s, k) ==
    /\ IsWrite(s, k) /\ Unfinished(s, k)
    /\ \A j \in 1..(k - 1) : IsWrite(s, j) => requests[s][j].st # "waiting"
    /\ result' = "unconfirmed"
    /\ requests' = [requests EXCEPT ![s] = Finish(s, k)]
    /\ UNCHANGED <<appVars, routeVars, haState, session, fromInv, inverterVars>>

\* _active_power_limit_readback_timeout; a startup read has no such task.
ReadbackTimeout(s, k) ==
    /\ ~IsWrite(s, k) /\ Unfinished(s, k) /\ requests[s][k].val # NoPercent
    /\ requests' = [requests EXCEPT ![s] = Finish(s, k)]
    /\ UNCHANGED <<appVars, routeVars, haVars, session, fromInv, inverterVars>>

\* Settling writes the desired value even when it is confirmed, or never.
BugAlwaysReapply(s) ==
    /\ session[s].settle = "scheduled"
    /\ session' = [session EXCEPT ![s].settle = "done"]
    /\ IF gen > 0
       THEN StartWrite(s, desired, gen)
       ELSE StartRead(s, requests[s], NoPercent) /\ UNCHANGED result
    /\ UNCHANGED <<appVars, routeVars, haState, fromInv, peer, said,
                   register, landed, executed>>

BugNeverReapply(s) ==
    /\ session[s].settle = "scheduled"
    /\ session' = [session EXCEPT ![s].settle = "done"]
    /\ StartRead(s, requests[s], NoPercent)
    /\ UNCHANGED <<appVars, routeVars, haVars, fromInv, peer, said,
                   register, landed, executed>>

\* _settle_inverter_control: re-apply what is pending, else read the register.
RunSettle(s) ==
    /\ session[s].settle = "scheduled"
    /\ session' = [session EXCEPT ![s].settle = "done"]
    /\ IF Pending
       THEN StartWrite(s, desired, gen)
       ELSE StartRead(s, requests[s], NoPercent) /\ UNCHANGED result
    /\ UNCHANGED <<appVars, routeVars, haState, fromInv, peer, said,
                   register, landed, executed>>

---------------------------------------------------------------------------
(* Session.handle_frame, one action per kind of frame *)

Receive(s, kind) ==
    /\ session[s].open /\ fromInv[s] # <<>> /\ Head(fromInv[s]).kind = kind
    /\ fromInv' = [fromInv EXCEPT ![s] = Tail(@)]

\* A registration claims the serial and drops the handler of whatever Session
\* had it; this Session keeps its own wired flag.
HandleRegistration(s) ==
    /\ Receive(s, "registration")
    /\ session' = [session EXCEPT ![s].serial = TRUE]
    /\ owner' = s
    /\ handler' = NoSession
    /\ UNCHANGED <<scheduled, requests, appVars, haVars, inverterVars>>

\* _maybe_settle_inverter_control on the state the frame leaves behind.
MaybeSettle(st) ==
    IF st.settle = "none" /\ st.telemetry /\ st.wired
    THEN [st EXCEPT !.settle = "scheduled"] ELSE st

\* Only telemetry may complete the startup conditions.
BugSettleOnTelemetryOnly(s) ==
    /\ Receive(s, "product_info")
    /\ IF session[s].serial
       THEN /\ handler' = IF session[s].wired THEN handler ELSE s
            /\ session' = [session EXCEPT ![s].wired = TRUE]
       ELSE UNCHANGED <<handler, session>>
    /\ UNCHANGED <<owner, scheduled, requests, appVars, haVars, inverterVars>>

\* A handler that is there already is left alone.
BugFirstHandlerStays(s) ==
    /\ Receive(s, "product_info")
    /\ IF session[s].serial
       THEN /\ handler' = IF handler = NoSession THEN s ELSE handler
            /\ session' = [session EXCEPT ![s] = MaybeSettle([@ EXCEPT !.wired = TRUE])]
       ELSE UNCHANGED <<handler, session>>
    /\ UNCHANGED <<owner, scheduled, requests, appVars, haVars, inverterVars>>

\* _sync_active_power_limit_mqtt for a firmware that supports local control.
HandleProductInfo(s) ==
    /\ Receive(s, "product_info")
    /\ IF session[s].serial
       THEN /\ handler' = IF session[s].wired THEN handler ELSE s
            /\ session' = [session EXCEPT ![s] = MaybeSettle([@ EXCEPT !.wired = TRUE])]
       ELSE UNCHANGED <<handler, session>>
    /\ UNCHANGED <<owner, scheduled, requests, appVars, haVars, inverterVars>>

\* The same for a firmware that does not support it.
HandleOldProductInfo(s) ==
    /\ Receive(s, "old_product_info")
    /\ IF session[s].serial
       THEN /\ handler' = NoSession
            /\ session' = [session EXCEPT ![s].wired = FALSE]
       ELSE UNCHANGED <<handler, session>>
    /\ UNCHANGED <<owner, scheduled, requests, appVars, haVars, inverterVars>>

HandleTelemetry(s) ==
    /\ Receive(s, "telemetry")
    /\ session' = [session EXCEPT ![s] = MaybeSettle([@ EXCEPT !.telemetry = TRUE])]
    /\ UNCHANGED <<requests, routeVars, appVars, haVars, inverterVars>>

\* An answer settles the write that has waited longest, whatever its key.
BugAnswerOldest(s, kind) ==
    LET waiting == {k \in Keys(s) : IsWrite(s, k) /\ requests[s][k].st = "waiting"}
        settled == IF kind = "write_ok" THEN "acked" ELSE "rejected" IN
    /\ Receive(s, kind)
    /\ IF waiting = {} THEN UNCHANGED requests
       ELSE \E k \in waiting : /\ \A j \in waiting : k <= j
                               /\ requests' = [requests EXCEPT ![s][k].st = settled]
    /\ UNCHANGED <<session, routeVars, appVars, haVars, inverterVars>>

\* resolve_response: settle the future of this key if it is still waiting.
HandleWriteReply(s, kind) ==
    /\ Receive(s, kind)
    /\ LET k == Head(fromInv[s]).key IN
           requests' = IF IsWrite(s, k) /\ requests[s][k].st = "waiting"
                       THEN [requests EXCEPT ![s][k].st =
                                 IF kind = "write_ok" THEN "acked" ELSE "rejected"]
                       ELSE requests
    /\ UNCHANGED <<session, routeVars, appVars, haVars, inverterVars>>

\* A read answer is published only while its pending_reads entry exists.
HandleReadReply(s, kind) ==
    /\ Receive(s, kind)
    /\ LET f == Head(fromInv[s]) IN
           IF ~IsWrite(s, f.key) /\ Unfinished(s, f.key)
           THEN /\ requests' = [requests EXCEPT ![s] = Finish(s, f.key)]
                /\ haState' = IF kind = "read_value" THEN f.val ELSE haState
           ELSE UNCHANGED <<requests, haState>>
    /\ UNCHANGED <<result, session, routeVars, appVars, inverterVars>>

---------------------------------------------------------------------------
(* Connections: handle_client *)

\* No task, handler or queued coroutine holds this Session any more.
Unreferenced(s) ==
    /\ handler # s
    /\ \A i \in 1..Len(scheduled) : scheduled[i].session # s
    /\ session[s].settle # "scheduled"
    /\ \A k \in Keys(s) : Unfinished(s, k) =>
           ~IsWrite(s, k) /\ requests[s][k].val = NoPercent

Connect(s) ==
    /\ peer = NoSession /\ ~session[s].open /\ Unreferenced(s)
    /\ "late_frames" \in Quirks \/ \A t \in Session : fromInv[t] = <<>>
    /\ peer' = s /\ said' = {} /\ toInv' = <<>>
    /\ session' = [session EXCEPT ![s] = NewSession(TRUE)]
    /\ requests' = [requests EXCEPT ![s] = <<>>]
    /\ UNCHANGED <<fromInv, appVars, routeVars, haVars, register, landed, executed>>

\* A closing Session releases the serial even if a newer one has claimed it.
BugReleaseAnyOwner(s) ==
    /\ session[s].open
    /\ session' = [session EXCEPT ![s] =
           [NewSession(FALSE) EXCEPT !.settle = session[s].settle]]
    /\ fromInv' = [fromInv EXCEPT ![s] = <<>>]
    /\ owner' = NoSession
    /\ UNCHANGED <<requests, handler, scheduled, appVars, haVars, inverterVars>>

\* The read loop ends (EOF, reset, a failing handler): frames not yet read are
\* lost and the serial is released only if this Session still owns it.  Of the
\* Session only its writer (closing) and a scheduled settle matter afterwards.
Close(s) ==
    /\ session[s].open
    /\ session' = [session EXCEPT ![s] =
           [NewSession(FALSE) EXCEPT !.settle = session[s].settle]]
    /\ fromInv' = [fromInv EXCEPT ![s] = <<>>]
    /\ owner' = IF owner = s THEN NoSession ELSE owner
    /\ UNCHANGED <<requests, handler, scheduled, appVars, haVars, inverterVars>>

---------------------------------------------------------------------------
(* The inverter (external): what the code in src/ expects of it *)

InverterDrops ==
    /\ peer # NoSession
    /\ peer' = NoSession /\ said' = {} /\ toInv' = <<>>
    /\ UNCHANGED <<register, landed, executed, sessionVars, appVars, routeVars, haVars>>

\* A frame reaches the socket of the Session unless the gateway has closed it.
Emit(f) ==
    IF session[peer].open
    THEN /\ Len(fromInv[peer]) < MaxWire
         /\ fromInv' = [fromInv EXCEPT ![peer] = Append(@, f)]
    ELSE UNCHANGED fromInv

\* It registers first, then repeats product info and telemetry.  Its firmware
\* changes from one connection to the next, or within one if that is Repeated.
InverterAnnounces(kind) ==
    /\ peer # NoSession
    /\ kind \in IF said = {} THEN {"registration"} ELSE Announced
    /\ kind \in Repeated \/ (kind \notin said /\ ~ProductInfo \subseteq said \cup {kind})
    /\ said' = said \cup {kind}
    /\ Emit(Announcement(kind))
    /\ UNCHANGED <<peer, toInv, register, landed, executed, session, requests, appVars,
                   routeVars, haVars>>

Served(op) ==
    /\ peer # NoSession /\ toInv # <<>>
    /\ Head(toInv).op = op
    /\ toInv' = Tail(toInv)

\* It executes a write, and its answer may get lost inside the device.
InverterWrites(answers) ==
    /\ Served("write") /\ (answers \/ "mute" \in Quirks)
    /\ register' = Head(toInv).val /\ landed' = Head(toInv).gen
    /\ executed' = executed \cup {Head(toInv).gen}
    /\ IF answers THEN Emit(Reply("write_ok", Head(toInv).key, NoPercent))
                  ELSE UNCHANGED fromInv
    /\ UNCHANGED <<peer, said, session, requests, appVars, routeVars, haVars>>

\* It refuses a write with a Modbus exception, or ignores it.
InverterRefuses(answers) ==
    /\ Served("write")
    /\ IF answers THEN "refuse" \in Quirks ELSE "mute" \in Quirks
    /\ IF answers THEN Emit(Reply("write_exception", Head(toInv).key, NoPercent))
                  ELSE UNCHANGED fromInv
    /\ UNCHANGED <<peer, said, register, landed, executed, session, requests, appVars,
                   routeVars, haVars>>

InverterReads(kind) ==
    /\ Served("read") /\ (kind = "read_exception" => "refuse" \in Quirks)
    /\ \/ Emit(Reply(kind, Head(toInv).key, IF kind = "read_value" THEN register ELSE NoPercent))
       \/ "mute" \in Quirks /\ UNCHANGED fromInv
    /\ UNCHANGED <<peer, said, register, landed, executed, session, requests, appVars,
                   routeVars, haVars>>

---------------------------------------------------------------------------

SessionTasks(s) ==
    \/ RunSettle(s)
    \/ \E k \in Keys(s) :
           ConfirmWrite(s, k) \/ RejectWrite(s, k) \/ TimeoutWrite(s, k) \/ ReadbackTimeout(s, k)

HandleFrame(s) ==
    \/ HandleRegistration(s) \/ HandleProductInfo(s) \/ HandleOldProductInfo(s)
    \/ HandleTelemetry(s)
    \/ \E kind \in {"write_ok", "write_exception"} : HandleWriteReply(s, kind)
    \/ \E kind \in {"read_value", "read_exception"} : HandleReadReply(s, kind)

InverterServes ==
    \/ \E answers \in BOOLEAN : InverterWrites(answers) \/ InverterRefuses(answers)
    \/ \E kind \in {"read_value", "read_exception"} : InverterReads(kind)

Next ==
    \/ \E p \in Percent : HaCommand(p)
    \/ RunSetpoint
    \/ \E s \in Session : SessionTasks(s) \/ HandleFrame(s) \/ Connect(s) \/ Close(s)
    \/ InverterDrops
    \/ \E kind \in FrameKind : InverterAnnounces(kind)
    \/ InverterServes

Spec == Init /\ [][Next]_vars
---------------------------------------------------------------------------
(* Correctness *)

\* Confirmed means applied: while the newest command counts as confirmed, the
\* register of the inverter holds its value, whatever older writes, timeouts
\* and lost connections came before (_active_power_limit_confirmed_gen).
ConfirmedIsApplied == gen > 0 /\ confirmedGen = gen => register = desired

\* The inverter never executes a write of an older command after one of a newer
\* command, across reconnects and re-applies (write_register, _settle...).
NewerWritesWin == [][landed' >= landed]_vars

\* Only the newest command is ever put on the wire, and never again once it is
\* confirmed (pending_active_power_limit and set_desired_active_power_limit).
OnlyPendingIsSent ==
    [][\A s \in Session :
           LET n == Len(requests'[s]) IN
           n > Len(requests[s]) /\ requests'[s][n].op = "write" =>
               /\ requests'[s][n].gen = gen' /\ requests'[s][n].val = desired'
               /\ requests'[s][n].gen > confirmedGen']_vars

\* A reported confirmation is earned: whenever the task of a write ends and the
\* result topic says "confirmed", the inverter had executed the very command of
\* that write, though newer commands, timeouts and answers of older writes came
\* in between (resolve_response; "whether a curtailment actually landed").
ConfirmationIsEarned ==
    [][result' = "confirmed" =>
           \A s \in Session : \A k \in Keys(s) :
               /\ IsWrite(s, k) /\ Unfinished(s, k)
               /\ k \in DOMAIN requests'[s] /\ requests'[s][k].st = "done"
               => requests[s][k].gen \in executed]_vars

\* Home Assistant shows the setpoint that is confirmed: readbacks, startup
\* reads and late acknowledgements never leave an older value on the state
\* topic (publish_active_power_limit_state), if abandoned connections are mute.
ConfirmedIsShown == gen > 0 /\ confirmedGen = gen => haState = desired

\* Commands reach the live connection: once the connected Session has the
\* serial it owns it, and once it is wired the command handler is its own.
RoutedToPeer ==
    \A s \in Session : peer = s /\ session[s].open =>
        /\ session[s].serial => owner = s
        /\ session[s].wired => handler = s

---------------------------------------------------------------------------
(* Why it is so: the inductive invariant *)

\* A command is confirmed after it was executed, and executed after it was given.
GensOrdered ==
    confirmedGen <= landed /\ landed <= gen /\ \A g \in executed : g <= landed

\* What the inverter executed last is in its register if it is the newest.
NewestIsInRegister ==
    /\ register \in Percent
    /\ gen > 0 => desired \in Percent
    /\ gen > 0 /\ landed = gen => register = desired

\* A write on its way to the inverter: no older than what was executed, and its
\* value is that of its command.
WireSound ==
    \A i \in 1..Len(toInv) : toInv[i].op = "write" =>
        /\ toInv[i].val \in Percent /\ 0 < toInv[i].gen
        /\ landed <= toInv[i].gen /\ toInv[i].gen <= gen
        /\ toInv[i].gen = gen => toInv[i].val = desired
        /\ toInv[i].gen = landed => toInv[i].val = register

\* Writes travel in the order of their commands; re-applies repeat the value.
WireOrdered ==
    \A i, j \in 1..Len(toInv) :
        i < j /\ toInv[i].op = "write" /\ toInv[j].op = "write" =>
            /\ toInv[i].gen <= toInv[j].gen
            /\ toInv[i].gen = toInv[j].gen => toInv[i].val = toInv[j].val

\* Keys tie a request on the wire, and an answer to one, to its own request.
WireKeyed ==
    peer \in Session =>
        \A i \in 1..Len(toInv) :
            /\ toInv[i].key \in Keys(peer)
            /\ toInv[i].op = "write" /\ IsWrite(peer, toInv[i].key) =>
                   requests[peer][toInv[i].key].gen = toInv[i].gen

RepliesKeyed ==
    \A s \in Session : \A i \in 1..Len(fromInv[s]) :
        fromInv[s][i].kind \in ReplyKind =>
            /\ fromInv[s][i].key \in Keys(s)
            /\ fromInv[s][i].kind = "write_ok" /\ IsWrite(s, fromInv[s][i].key) =>
                   requests[s][fromInv[s][i].key].gen \in executed

AcksEarned ==
    \A s \in Session : \A k \in Keys(s) :
        IsWrite(s, k) /\ requests[s][k].st = "acked" => requests[s][k].gen \in executed

ClosedIsSilent == \A s \in Session : ~session[s].open => fromInv[s] = <<>>

NoPeerNoWire == peer = NoSession => toInv = <<>>

Inductive ==
    /\ GensOrdered /\ NewestIsInRegister /\ WireSound /\ WireOrdered
    /\ WireKeyed /\ RepliesKeyed /\ AcksEarned /\ ClosedIsSilent /\ NoPeerNoWire

---------------------------------------------------------------------------
(* Refinement *)

\* The gateway, its connections and the inverter together keep the promise of
\* Setpoint: each step is one of its steps, or changes nothing it speaks of.
Promise == INSTANCE Setpoint WITH
    desired <- desired, gen <- gen, confirmedGen <- confirmedGen,
    landed <- landed, register <- register
ImplementsSetpoint == Promise!Spec
=============================================================================
