---------------------------- MODULE RelaySession ----------------------------
(***************************************************************************)
(* A Session in relay mode: it connects to the cloud (or falls back to     *)
(* local mode), and two tasks under one asyncio.gather pass on what the    *)
(* inverter and the cloud send, each a RelayStream.  On the way the        *)
(* gateway notes the cloud's commands, injects its own among them, keeps   *)
(* the answers to those, keeps firmware while it is captured, and shows    *)
(* Home Assistant the power limit, whoever wrote it.                       *)
(*                                                                         *)
(* How setpoints survive reconnects is PowerLimit's, and what a capture    *)
(* answers is FirmwareCapture's.  The answers to an upload are filtered    *)
(* like those to other requests of the gateway; uploads are FirmwareUpload.*)
(* Inverter and cloud are external.                                        *)
(***************************************************************************)
EXTENDS Naturals, Sequences, FiniteSets

CONSTANTS
    Percent,        \* values of the power limit register
    NoPercent,      \* "no value"
    FirstLimit,     \* the inverter's limit when the Session starts
    MaxUp,          \* bound: frames the inverter sends
    MaxDown,        \* bound: frames the cloud sends
    MaxLocal,       \* bound: setpoints of Home Assistant
    SplitMarkers,   \* may a read end within a start marker (RelayStream)
    CloudSends,     \* kinds of frame the cloud sends
    Capture,        \* is firmware captured
    Refuses         \* whose writes the inverter may refuse (reads: see PowerLimit)

Command == {"write", "read"}
\* "short" is a write-multiple command without its byte count.
DownKind == Command \cup {"firmware", "short"}
\* The product information that follows a registration is taken as part of it.
Announced == <<"registration", "telemetry">>
ReplyKind == {"write_ok", "write_exception", "read_value"}

ASSUME ValueAssumption == NoPercent \notin Percent /\ FirstLimit \in Percent
ASSUME BoundAssumption == MaxUp \in Nat /\ MaxDown \in Nat /\ MaxLocal \in Nat
ASSUME CloudAssumption == CloudSends \subseteq DownKind
ASSUME RelayAssumption == Capture \in BOOLEAN /\ Refuses \subseteq {"cloud", "gateway"}

VARIABLES
    \* the Session: how far it is, its relay tasks, writers it has closed, its
    \* entry in sessions_by_serial (and its command handler), its settle task
    phase, task, closed, listed, settle,
    \* what the inverter has begun to send, and how far it was read and passed
    upSaid, upRead, upBase, upPassed,
    \* the same of the cloud
    downSaid, downRead, downBase, downPassed,
    \* the gateway's requests, the cloud's commands it has noted, the state topic
    requests, pendingReads, pendingWrites, haState,
    \* peers: connections they keep, requests the inverter has not served yet,
    \* its register, and whether an answer got lost or came too late (history)
    alive, inbox, register, missed

sessionVars == <<phase, task, closed, listed, settle>>
upVars == <<upSaid, upRead, upBase, upPassed>>
downVars == <<downSaid, downRead, downBase, downPassed>>
controlVars == <<requests, pendingReads, pendingWrites, haState>>
peerVars == <<alive, inbox, register, missed>>
vars == <<sessionVars, upVars, downVars, controlVars, peerVars>>

---------------------------------------------------------------------------
(* Data *)

Peer == {"inverter", "cloud"}
Value == Percent \cup {NoPercent}

\* A command and the answer to it carry a device key: who gave the command,
\* and its number among those of its giver.
Key == [from : Peer \cup {"gateway"}, n : Nat]
KeyOf(from, n) == [from |-> from, n |-> n]

UpFrame == [kind : {Announced[i] : i \in 1..2} \cup ReplyKind, key : Key, val : Value]
DownFrame == [kind : DownKind, key : Key, val : Value]
Injected == [kind : Command, key : Key, val : Value]
\* Generation 0 is that of a read.
Request == [op : Command, val : Value, gen : 0..MaxLocal,
            st : {"waiting", "acked", "refused", "confirmed", "done"}]

\* is_our_frame, and FirmwareCapture.handle_upstream_frame.
OursUp == {i \in DOMAIN upSaid : upSaid[i].key.from = "gateway"}
OursDown == IF Capture THEN {i \in DOMAIN downSaid : downSaid[i].kind = "firmware"} ELSE {}

Up == INSTANCE RelayStream WITH
    MaxFrames <- MaxUp, sent <- Len(upSaid), ours <- OursUp,
    read <- upRead, base <- upBase, passed <- upPassed
Down == INSTANCE RelayStream WITH
    MaxFrames <- MaxDown, sent <- Len(downSaid), ours <- OursDown,
    read <- downRead, base <- downBase, passed <- downPassed

TypeOK ==
    /\ phase \in {"accepted", "connecting", "relay", "local", "over"}
    /\ task \in [{"up", "down"} -> {"idle", "running", "ended", "failed"}]
    /\ closed \subseteq Peer /\ listed \in BOOLEAN
    /\ settle \in {"no", "due", "done"}
    /\ upSaid \in Seq(UpFrame) /\ downSaid \in Seq(DownFrame)
    /\ Up!TypeOK /\ Down!TypeOK
    /\ requests \in Seq(Request)
    /\ pendingReads \subseteq Key /\ pendingWrites \subseteq Key
    /\ haState \in Value
    /\ alive \in [Peer -> BOOLEAN]
    /\ inbox \in Seq(Injected)
    /\ register \in Percent /\ missed \in BOOLEAN

Init ==
    /\ phase = "accepted" /\ task = [t \in {"up", "down"} |-> "idle"]
    /\ closed = {} /\ listed = FALSE /\ settle = "no"
    /\ upSaid = <<>> /\ downSaid = <<>>
    /\ Up!Init /\ Down!Init
    /\ requests = <<>> /\ pendingReads = {} /\ pendingWrites = {}
    /\ haState = NoPercent
    /\ alive = [p \in Peer |-> p = "inverter"]
    /\ inbox = <<>> /\ register = FirstLimit /\ missed = FALSE

---------------------------------------------------------------------------
(* run_relay up to the gather *)

\* choose_upstream; without one the Session serves the inverter itself.
ChooseUpstream ==
    /\ phase = "accepted"
    /\ phase' \in {"connecting", "local"}
    /\ UNCHANGED <<task, closed, listed, settle, upVars, downVars, controlVars, peerVars>>

\* The connection fails, takes too long, or shows another certificate.
UpstreamFails ==
    /\ phase = "connecting"
    /\ phase' = "local"
    /\ UNCHANGED <<task, closed, listed, settle, upVars, downVars, controlVars, peerVars>>

UpstreamConnects ==
    /\ phase = "connecting"
    /\ phase' = "relay"
    /\ task' = [t \in {"up", "down"} |-> "running"]
    /\ alive' = [alive EXCEPT !["cloud"] = TRUE]
    /\ UNCHANGED <<closed, listed, settle, upVars, downVars, controlVars,
                   inbox, register, missed>>

---------------------------------------------------------------------------
(* relay_client_to_upstream *)

\* What an answer puts on the state topic, once the serial is known: a value
\* read by anybody while the read is pending, or the value of a write of the
\* cloud that succeeded.  The gateway's own writes are shown by the task that
\* waits for them.
Shown(i) ==
    LET f == upSaid[i]
        known == \E j \in 1..i : upSaid[j].kind = "registration"
    IN
    IF known /\ f.kind = "write_ok" /\ f.key \in pendingWrites THEN downSaid[f.key.n].val
    ELSE IF known /\ f.kind = "read_value" /\ f.key \in pendingReads THEN f.val
    ELSE NoPercent

\* Session.handle_frame on the frames of one read, in order.
HandleUp(new) ==
    LET kinds == {upSaid[i].kind : i \in new}
        Answered(ks) == {upSaid[i].key : i \in {j \in new : upSaid[j].kind \in ks}}
        shown == {i \in new : Shown(i) # NoPercent}
        Answer(k, kind) == \E i \in new : upSaid[i].kind = kind
                                          /\ upSaid[i].key = KeyOf("gateway", k)
        Settled(k) ==
            IF requests[k].st # "waiting" THEN requests[k].st
            ELSE IF Answer(k, "write_ok") THEN "acked"
            ELSE IF Answer(k, "write_exception") THEN "refused"
            ELSE IF Answer(k, "read_value") THEN "done"
            ELSE "waiting"
    IN
    /\ listed' = (listed \/ "registration" \in kinds)
    /\ settle' = IF "telemetry" \in kinds /\ settle = "no" THEN "due" ELSE settle
    /\ IF shown = {} THEN UNCHANGED haState
       ELSE \E i \in shown : (\A j \in shown : j <= i) /\ haState' = Shown(i)
    /\ pendingWrites' = pendingWrites \ Answered({"write_ok"})
    /\ pendingReads' = pendingReads \ Answered({"read_value"})
    /\ requests' = [k \in DOMAIN requests |-> [requests[k] EXCEPT !.st = Settled(k)]]

\* Only a direction that fails closes the other side.
BugOver(t, how) ==
    /\ task' = [task EXCEPT ![t] = how]
    /\ closed' = IF how = "ended" THEN closed
                 ELSE closed \cup {IF t = "up" THEN "cloud" ELSE "inverter"}

\* A direction is over: its finally clause closes the side it wrote to.
Over(t, how) ==
    /\ task' = [task EXCEPT ![t] = how]
    /\ closed' = closed \cup {IF t = "up" THEN "cloud" ELSE "inverter"}

\* A direction that is left behind by the other one's failure finds its own
\* side closed next: see Ends.
Reading(t) == phase = "relay" /\ task[t] = "running"

\* One read from the inverter.  The write to the cloud raises if the loss of
\* its connection was noticed by then.
UpRead(n) ==
    /\ Reading("up") /\ upRead < n /\ n <= 3 * Len(upSaid)
    /\ UNCHANGED upSaid
    /\ HandleUp(Up!Extracted(n))
    /\ \/ Up!Read(n) /\ UNCHANGED <<task, closed>>
       \/ /\ ~alive["cloud"] /\ ~(Up!Consumed(n) \subseteq Up!Kept(n))
          /\ SplitMarkers \/ ~Up!SplitsMarker(n)
          /\ Over("up", "failed")
          /\ UNCHANGED <<upRead, upBase, upPassed>>
    /\ UNCHANGED <<phase, downVars, peerVars>>

---------------------------------------------------------------------------
(* relay_upstream_to_client *)

\* Firmware goes on to the inverter like a command.
BugForwarded(n) ==
    {i \in DOMAIN downSaid : downBase < 3 * i /\ 3 * i <= n
                             /\ downSaid[i].kind \in Command \cup {"firmware"}}

\* The frames of a read that go on to the inverter, as far as it serves them.
Forwarded(n) ==
    {i \in DOMAIN downSaid : downBase < 3 * i /\ 3 * i <= n
                             /\ downSaid[i].kind \in Command}

\* They reach it in the order of the stream.
Deliver(frames) ==
    \E order \in [1..Cardinality(frames) -> frames] :
        /\ \A a, b \in DOMAIN order : a < b => order[a] < order[b]
        /\ inbox' = inbox \o [a \in DOMAIN order |-> downSaid[order[a]]]

\* handle_upstream_frame: the cloud's commands are noted before they go on.
HandleDown(new) ==
    /\ pendingWrites' = pendingWrites \cup
           {downSaid[i].key : i \in {j \in new : downSaid[j].kind = "write"}}
    /\ pendingReads' = pendingReads \cup
           {downSaid[i].key : i \in {j \in new : downSaid[j].kind = "read"}}

\* A short command has no address, a KeyError; and the acknowledgement of a
\* captured frame raises if the loss of the cloud was noticed by then.
Raises(i) ==
    \/ downSaid[i].kind = "short"
    \/ i \in OursDown /\ (~alive["cloud"] \/ "cloud" \in closed)

\* One read from the cloud.  If handling a frame or the write to the inverter
\* raises, the direction ends with nothing of this read written.
DownRead(n) ==
    LET new == Down!Extracted(n)
        NoneShort(is) == \A i \in is : downSaid[i].kind # "short" IN
    /\ Reading("down") /\ downRead < n /\ n <= 3 * Len(downSaid)
    /\ UNCHANGED downSaid
    /\ \/ /\ NoneShort(new) /\ HandleDown(new)
          /\ Down!Read(n) /\ UNCHANGED <<task, closed>>
          /\ IF alive["inverter"] /\ "inverter" \notin closed
             THEN Deliver(Forwarded(n)) ELSE UNCHANGED inbox
       \/ /\ \/ \E i \in new : /\ Raises(i) /\ NoneShort({j \in new : j < i})
                               /\ HandleDown({j \in new : j < i})
             \/ /\ NoneShort(new) /\ HandleDown(new)
                /\ ~alive["inverter"] /\ ~(Down!Consumed(n) \subseteq Down!Kept(n))
          /\ SplitMarkers \/ ~Down!SplitsMarker(n)
          /\ Over("down", "failed")
          /\ UNCHANGED <<downRead, downBase, downPassed, inbox>>
    /\ UNCHANGED <<phase, listed, settle, upVars, requests, haState,
                   alive, register, missed>>

---------------------------------------------------------------------------
(* The end of a Session *)

\* At the end of the stream the rest of the buffer is passed on.
BugEnds(t) ==
    LET source == IF t = "up" THEN "inverter" ELSE "cloud" IN
    /\ task[t] = "running"
    /\ ~alive[source] \/ source \in closed
    /\ Over(t, "ended")
    /\ upPassed' = IF t = "up" THEN upPassed \cup (upBase + 1)..upRead ELSE upPassed
    /\ upBase' = IF t = "up" THEN upRead ELSE upBase
    /\ UNCHANGED <<phase, listed, settle, upSaid, upRead, downVars, controlVars, peerVars>>

\* A direction reads the end of its stream once its peer has left or its side
\* was closed; a connection that was reset raises.
Ends(t) ==
    LET source == IF t = "up" THEN "inverter" ELSE "cloud" IN
    /\ task[t] = "running"
    /\ ~alive[source] \/ source \in closed
    /\ \/ Over(t, "ended")
       \/ ~alive[source] /\ Over(t, "failed")
    /\ UNCHANGED <<phase, listed, settle, upVars, downVars, controlVars, peerVars>>

\* gather returns once both directions have, and raises with the first one
\* that does; handle_client takes the Session off the table and closes it.
Finish ==
    /\ phase = "relay"
    /\ \/ \E t \in {"up", "down"} : task[t] = "failed"
       \/ \A t \in {"up", "down"} : task[t] = "ended"
    /\ phase' = "over" /\ listed' = FALSE
    /\ closed' = closed \cup {"inverter"}
    /\ UNCHANGED <<task, settle, upVars, downVars, controlVars, peerVars>>

---------------------------------------------------------------------------
(* The gateway's own requests, among the cloud's *)

InverterOpen == "inverter" \notin closed

\* LocalControl._send with an open writer; a read is noted first.
Inject(op, val, gen) ==
    LET key == KeyOf("gateway", Len(requests) + 1) IN
    /\ requests' = Append(requests, [op |-> op, val |-> val, gen |-> gen, st |-> "waiting"])
    /\ pendingReads' = IF op = "read" THEN pendingReads \cup {key} ELSE pendingReads
    /\ inbox' = IF alive["inverter"]
                THEN Append(inbox, [kind |-> op, val |-> val, key |-> key])
                ELSE inbox

Writes == {k \in DOMAIN requests : requests[k].op = "write"}
\* current_active_power_limit_generation, and the command it belongs to.
Gen == Cardinality({requests[k].gen : k \in Writes})
Newest == CHOOSE k \in Writes : requests[k].gen = Gen
Confirmed(g) == \E k \in Writes : requests[k].gen = g /\ requests[k].st = "confirmed"

\* _handle_active_power_limit_setpoint, up to the wait in write_register.
LocalWrite(v) ==
    /\ listed /\ phase = "relay" /\ InverterOpen
    /\ Gen < MaxLocal
    /\ Inject("write", v, Gen + 1)
    /\ UNCHANGED <<sessionVars, upVars, downVars, pendingWrites, haState, alive,
                   register, missed>>

\* _settle_inverter_control: the pending command again, or a read.
Settle ==
    /\ settle = "due" /\ settle' = "done"
    /\ IF InverterOpen
       THEN IF Gen > 0 /\ ~Confirmed(Gen)
            THEN Inject("write", requests[Newest].val, Gen)
            ELSE Inject("read", NoPercent, 0)
       ELSE UNCHANGED <<requests, pendingReads, inbox>>
    /\ UNCHANGED <<phase, task, closed, listed, upVars, downVars,
                   pendingWrites, haState, alive, register, missed>>

\* The write is no longer waited for.
AfterWrite(k, st) == [requests EXCEPT ![k].st = st]

\* No readback follows.
BugConfirmOnly(k) ==
    /\ requests[k].op = "write" /\ requests[k].st = "acked"
    /\ haState' = IF requests[k].gen = Gen THEN requests[k].val ELSE haState
    /\ requests' = AfterWrite(k, "confirmed")
    /\ UNCHANGED <<sessionVars, upVars, downVars, pendingReads, pendingWrites,
                   peerVars>>

\* _apply_active_power_limit after an acknowledged write: the value is shown if
\* the command is the newest one, and the register is read back.
ConfirmWrite(k) ==
    LET key == KeyOf("gateway", Len(requests) + 1) IN
    /\ requests[k].op = "write" /\ requests[k].st = "acked"
    /\ haState' = IF requests[k].gen = Gen THEN requests[k].val ELSE haState
    /\ IF InverterOpen
       THEN /\ requests' = Append(AfterWrite(k, "confirmed"),
                   [op |-> "read", val |-> requests[k].val, gen |-> 0, st |-> "waiting"])
            /\ pendingReads' = pendingReads \cup {key}
            /\ inbox' = IF alive["inverter"]
                        THEN Append(inbox, [kind |-> "read", val |-> requests[k].val,
                                            key |-> key])
                        ELSE inbox
       ELSE requests' = AfterWrite(k, "confirmed") /\ UNCHANGED <<pendingReads, inbox>>
    /\ UNCHANGED <<sessionVars, upVars, downVars, pendingWrites, alive, register, missed>>

\* The same after an exception, and after a timeout.
GiveUpWrite(k) ==
    /\ requests[k].op = "write" /\ requests[k].st \in {"waiting", "refused"}
    /\ requests' = AfterWrite(k, "done")
    /\ missed' = (missed \/ requests[k].st = "waiting")
    /\ UNCHANGED <<sessionVars, upVars, downVars, pendingReads, pendingWrites,
                   haState, alive, inbox, register>>

\* _active_power_limit_readback_timeout; a startup read waits for ever.
ReadbackTimeout(k) ==
    /\ requests[k].op = "read" /\ requests[k].val # NoPercent
    /\ requests[k].st = "waiting"
    /\ requests' = AfterWrite(k, "done")
    /\ pendingReads' = pendingReads \ {KeyOf("gateway", k)}
    /\ missed' = TRUE
    /\ UNCHANGED <<sessionVars, upVars, downVars, pendingWrites, haState, alive,
                   inbox, register>>

---------------------------------------------------------------------------
(* The peers (external) *)

\* What the inverter sends before the relay is up waits for it, and what a
\* peer sends once its direction is over is not read.
Heard(t, p) == Reading(t) /\ alive[p] /\ p \notin closed

Said(f) == Len(upSaid) < MaxUp /\ upSaid' = Append(upSaid, f)

\* The inverter announces itself, then sends telemetry.
InverterSays ==
    LET told == {i \in DOMAIN upSaid : upSaid[i].kind \notin ReplyKind}
        next == Cardinality(told) + 1 IN
    /\ Heard("up", "inverter") /\ next \in DOMAIN Announced
    /\ Said([kind |-> Announced[next], key |-> KeyOf("inverter", next), val |-> NoPercent])
    /\ UNCHANGED <<sessionVars, upRead, upBase, upPassed, downVars, controlVars, peerVars>>

\* The inverter serves the requests in the order they came.
InverterServes ==
    LET q == Head(inbox)
        Reply(kind, val) == Said([kind |-> kind, key |-> q.key, val |-> val]) IN
    /\ Heard("up", "inverter") /\ inbox # <<>>
    /\ inbox' = Tail(inbox)
    /\ \/ q.kind = "write" /\ register' = q.val /\ Reply("write_ok", q.val)
       \/ q.kind = "read" /\ UNCHANGED register /\ Reply("read_value", register)
       \/ /\ q.key.from \in Refuses /\ q.kind = "write" /\ UNCHANGED register
          /\ Reply("write_exception", NoPercent)
    /\ UNCHANGED <<sessionVars, upRead, upBase, upPassed, downVars, controlVars, alive, missed>>

\* The cloud sends a frame; its commands are about the power limit.
CloudSays(kind, v) ==
    /\ Heard("down", "cloud")
    /\ Len(downSaid) < MaxDown
    /\ (v = NoPercent) <=> (kind # "write")
    /\ downSaid' = Append(downSaid, [kind |-> kind, val |-> v,
                                     key |-> KeyOf("cloud", Len(downSaid) + 1)])
    /\ UNCHANGED <<sessionVars, upVars, downRead, downBase, downPassed, controlVars, peerVars>>

\* A peer's connection is lost during the relay, what it was sent with it.
Leaves(p) ==
    /\ phase = "relay" /\ alive[p]
    /\ alive' = [alive EXCEPT ![p] = FALSE]
    /\ inbox' = IF p = "inverter" THEN <<>> ELSE inbox
    /\ UNCHANGED <<sessionVars, upVars, downVars, controlVars, register, missed>>

---------------------------------------------------------------------------
Next ==
    \/ ChooseUpstream \/ UpstreamFails \/ UpstreamConnects
    \/ \E n \in 1..(3 * MaxUp) : UpRead(n)
    \/ \E n \in 1..(3 * MaxDown) : DownRead(n)
    \/ Ends("up") \/ Ends("down") \/ Finish
    \/ Settle
    \/ \E v \in Percent : LocalWrite(v)
    \/ \E k \in DOMAIN requests : ConfirmWrite(k) \/ GiveUpWrite(k) \/ ReadbackTimeout(k)
    \/ InverterSays \/ InverterServes
    \/ \E kind \in CloudSends, v \in Value : CloudSays(kind, v)
    \/ \E p \in Peer : Leaves(p)

\* The loop gets round to a direction whose stream has ended, and to a gather
\* whose directions have.
Spec == Init /\ [][Next]_vars /\ WF_vars(Ends("up") \/ Ends("down") \/ Finish)

---------------------------------------------------------------------------
(* Properties *)

\* Inverter and cloud each get the other's frames whole, in full and once read
\* without delay, and never an answer to a request they did not make (relay_
\* client_to_upstream: "the cloud must never see those answers").
PeersHearTheirOwn == Up!Faithful /\ Down!Faithful

\* Both directions are streams as RelayStream describes them, whatever happens
\* in between: a read that fails passes on nothing.
ImplementsStreams == Up!Spec /\ Down!Spec

\* The relay at rest: everything was read and answered.
AtRest ==
    /\ Reading("up") /\ Reading("down") /\ ~missed
    /\ upRead = 3 * Len(upSaid) /\ downRead = 3 * Len(downSaid)
    /\ inbox = <<>> /\ settle # "due"
    /\ \A k \in DOMAIN requests : requests[k].st \in {"confirmed", "done"}

\* In whatever order writes of the cloud and of Home Assistant cross on their
\* way, once the relay is at rest the state topic shows what the register
\* holds, unless an answer was lost (handle_frame, _apply_active_power_limit).
RestIsTrue == AtRest => haState \in {register, NoPercent}

\* When one peer leaves or one direction fails, the Session ends whole: both
\* connections are closed, both tasks over, the table entry gone (the finally
\* clauses of the relay tasks and of handle_client).
EndsTogether ==
    (phase = "relay" /\ (\/ \E p \in Peer : ~alive[p]
                         \/ \E t \in {"up", "down"} : task[t] # "running"))
    ~> (/\ phase = "over" /\ ~listed /\ closed = Peer
        /\ \A t \in {"up", "down"} : task[t] \in {"ended", "failed"})
=============================================================================
