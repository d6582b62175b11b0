---------------------------- MODULE MqttPublisher ----------------------------
(***************************************************************************)
(* What Home Assistant can see and command: MqttPublisher between the two  *)
(* threads that run it (the asyncio loop of the gateway and paho's network *)
(* thread), the connection to the broker, the topics the broker retains,   *)
(* and the telemetry freshness FoxessLocalCloud keeps.  Sessions appear as *)
(* the calls they make: a registration, a product info, a telemetry frame. *)
(*                                                                         *)
(* A step is what one thread does before the other may run: the functions  *)
(* below share dictionaries and sets without a lock.  paho and the broker  *)
(* are external, modelled from what the code says of them: a message given *)
(* to a client with no connection is dropped (QoS 0), one given to a dead  *)
(* network thread or a dead connection is lost with no error.              *)
(***************************************************************************)
EXTENDS Naturals, FiniteSets

CONSTANTS
    Serial,         \* inverters
    NoSerial,
    MaxFailures,    \* bound: lost connections and dying network threads
    MaxSessions     \* bound: registrations, each on a new Session, and
                    \* firmware changes that end the support of local control

ASSUME SerialAssumption == IsFiniteSet(Serial) /\ NoSerial \notin Serial
ASSUME LimitAssumption == MaxFailures \in Nat /\ MaxSessions \in Nat

VARIABLES
    \* MqttPublisher
    connected, announced, aplAnnounced, aplCleared, handlers,
    \* FoxessLocalCloud: age of the last telemetry, serials marked stale;
    \* Session: the wired flag of the newest Session of each serial
    telemetry, stale, wired,
    \* where the asyncio thread and the network thread are
    loop, net,
    \* the client's connection, and what the broker holds: subscriptions,
    \* last wills still to be sent, and retained topics
    link, subs, wills, status, availability, sensors, slider,
    \* spent bounds
    failures, sessions

memory == <<connected, announced, aplAnnounced, aplCleared, handlers>>
app == <<telemetry, stale, wired>>
retained == <<status, availability, sensors, slider>>
bounds == <<failures, sessions>>
vars == <<memory, app, loop, net, link, subs, wills, retained, bounds>>

LoopStep == {"idle", "announce", "announced", "state", "subscribe", "expose",
             "exposed", "unsubscribe", "clear"}
\* "dead" is a thread an exception escaped from.
NetStep == {"idle", "on_connect", "resubscribe", "forget", "forget_apl", "dead"}
\* "lost" is a connection that is gone and whose end was not noticed yet.
Link == {"down", "up", "lost"}
\* A will of this client, or one an older client left behind.
Will == {"own", "old"}

Loop(at, s) == [at |-> at, serial |-> s]
Net(at) == [at |-> at, visited |-> {}, keys |-> {}]
LoopIdle == loop.at = "idle"
NetIdle == net.at = "idle"

TypeOK ==
    /\ connected \in BOOLEAN
    /\ announced \subseteq Serial /\ aplAnnounced \subseteq Serial
    /\ aplCleared \subseteq Serial /\ handlers \subseteq Serial
    /\ aplAnnounced \cap aplCleared = {}
    /\ telemetry \in [Serial -> {"none", "fresh", "old"}]
    /\ stale \subseteq Serial /\ wired \subseteq Serial
    /\ \/ loop = Loop("idle", NoSerial)
       \/ loop \in [at : LoopStep \ {"idle"}, serial : Serial]
    /\ net \in [at : NetStep, visited : SUBSET Serial, keys : SUBSET Serial]
    /\ link \in Link /\ subs \subseteq Serial /\ wills \subseteq Will
    /\ status \in {"none", "online", "offline"}
    /\ availability \in [Serial -> {"none", "online", "offline"}]
    /\ sensors \subseteq Serial /\ slider \subseteq Serial
    /\ failures \in 0..MaxFailures /\ sessions \in 0..MaxSessions

\* The gateway has just started: connect_async and loop_start.  The broker may
\* hold what an earlier run of the gateway retained, and its will.
Init ==
    /\ connected = FALSE
    /\ announced = {} /\ aplAnnounced = {} /\ aplCleared = {} /\ handlers = {}
    /\ telemetry = [s \in Serial |-> "none"] /\ stale = {} /\ wired = {}
    /\ loop = Loop("idle", NoSerial) /\ net = Net("idle")
    /\ link = "down" /\ subs = {} /\ wills \in SUBSET {"old"}
    /\ status \in {"none", "online"}
    /\ availability \in [Serial -> {"none", "online"}]
    /\ sensors = {} /\ slider \in {{}, Serial}
    /\ failures = 0 /\ sessions = 0

---------------------------------------------------------------------------
(* _publish: what the broker makes of a message handed to the client now *)

Delivers == link = "up" /\ net.at # "dead"

Retain(topic, value) == topic' = IF Delivers THEN value ELSE topic

---------------------------------------------------------------------------
(* The asyncio thread: telemetry *)

\* FoxessLocalCloud.publish_telemetry up to the call of MqttPublisher.publish,
\* which announces the sensors unless it did so before, or again because the
\* model, firmware or module of the inverter changed.
TelemetryArrives(s, changed) ==
    /\ LoopIdle
    /\ telemetry' = [telemetry EXCEPT ![s] = "fresh"]
    /\ stale' = stale \ {s}
    /\ IF s \in stale
       THEN Retain(availability, [availability EXCEPT ![s] = "online"])
       ELSE UNCHANGED availability
    /\ loop' = Loop(IF changed \/ s \notin announced THEN "announce" ELSE "state", s)
    /\ UNCHANGED <<memory, wired, net, link, subs, wills, status, sensors,
                   slider, bounds>>

AnnounceSensors ==
    /\ loop.at = "announce"
    /\ Retain(sensors, sensors \cup {loop.serial})
    /\ loop' = Loop("announced", loop.serial)
    /\ UNCHANGED <<memory, app, net, link, subs, wills, status, availability,
                   slider, bounds>>

\* Operators named Bug... are deliberate mistakes, never part of Spec: the
\* properties are tested against them.  Here, the availability is published
\* only when telemetry resumes.
BugAvailabilityOnce ==
    /\ loop.at \in {"announced", "state"}
    /\ announced' = IF loop.at = "announced" THEN announced \cup {loop.serial}
                    ELSE announced
    /\ loop' = Loop("idle", NoSerial)
    /\ UNCHANGED <<connected, aplAnnounced, aplCleared, handlers, app, net, link,
                   subs, wills, retained, bounds>>

\* The rest of publish: remember the announcement, then publish the state.
PublishState ==
    /\ loop.at \in {"announced", "state"}
    /\ announced' = IF loop.at = "announced" THEN announced \cup {loop.serial}
                    ELSE announced
    /\ Retain(availability, [availability EXCEPT ![loop.serial] = "online"])
    /\ loop' = Loop("idle", NoSerial)
    /\ UNCHANGED <<connected, aplAnnounced, aplCleared, handlers, app, net, link,
                   subs, wills, status, sensors, slider, bounds>>

\* _mark_stale_telemetry, once per serial until telemetry resumes.
MarkStale(s) ==
    /\ LoopIdle
    /\ telemetry[s] = "old" /\ s \notin stale
    /\ stale' = stale \cup {s}
    /\ Retain(availability, [availability EXCEPT ![s] = "offline"])
    /\ UNCHANGED <<memory, telemetry, wired, loop, net, link, subs, wills,
                   status, sensors, slider, bounds>>

---------------------------------------------------------------------------
(* The asyncio thread: the command topic and the slider *)

\* unregister_active_power_limit_handler pops the handler; it unsubscribes
\* only if there was one.  clear_active_power_limit_discovery follows.
Withdraw(s) ==
    /\ handlers' = handlers \ {s}
    /\ wired' = wired \ {s}
    /\ loop' = Loop(IF s \in handlers THEN "unsubscribe" ELSE "clear", s)

\* A registration: the Session is new and has not wired anything.
Registration(s) ==
    /\ LoopIdle
    /\ sessions < MaxSessions /\ sessions' = sessions + 1
    /\ Withdraw(s)
    /\ UNCHANGED <<connected, announced, aplAnnounced, aplCleared, telemetry,
                   stale, net, link, subs, wills, retained, failures>>

\* _sync_active_power_limit_mqtt: a firmware without local control.  One that
\* had it before is a change of firmware, which the bound counts.
OldProductInfo(s) ==
    /\ LoopIdle
    /\ s \in handlers => sessions < MaxSessions
    /\ sessions' = IF s \in handlers THEN sessions + 1 ELSE sessions
    /\ Withdraw(s)
    /\ UNCHANGED <<connected, announced, aplAnnounced, aplCleared, telemetry,
                   stale, net, link, subs, wills, retained, failures>>

Unsubscribe ==
    /\ loop.at = "unsubscribe"
    /\ subs' = IF Delivers THEN subs \ {loop.serial} ELSE subs
    /\ loop' = Loop("clear", loop.serial)
    /\ UNCHANGED <<memory, app, net, link, wills, retained, bounds>>

ClearSlider ==
    /\ loop.at = "clear"
    /\ aplAnnounced' = aplAnnounced \ {loop.serial}
    /\ IF loop.serial \in aplCleared
       THEN UNCHANGED slider ELSE Retain(slider, slider \ {loop.serial})
    /\ aplCleared' = aplCleared \cup {loop.serial}
    /\ loop' = Loop("idle", NoSerial)
    /\ UNCHANGED <<connected, announced, handlers, app, net, link, subs, wills,
                   status, availability, sensors, bounds>>

\* _maybe_wire_active_power_limit_mqtt: once per Session, unless it was
\* withdrawn; the handler goes into the dictionary before it is subscribed.
ProductInfo(s) ==
    /\ LoopIdle
    /\ s \notin wired
    /\ handlers' = handlers \cup {s}
    /\ loop' = Loop("subscribe", s)
    /\ UNCHANGED <<connected, announced, aplAnnounced, aplCleared, app, net, link,
                   subs, wills, retained, bounds>>

Subscribe ==
    /\ loop.at = "subscribe"
    /\ subs' = IF Delivers THEN subs \cup {loop.serial} ELSE subs
    /\ IF loop.serial \in aplAnnounced
       THEN loop' = Loop("idle", NoSerial) /\ wired' = wired \cup {loop.serial}
       ELSE loop' = Loop("expose", loop.serial) /\ UNCHANGED wired
    /\ UNCHANGED <<memory, telemetry, stale, net, link, wills, retained, bounds>>

ExposeSlider ==
    /\ loop.at = "expose"
    /\ Retain(slider, slider \cup {loop.serial})
    /\ loop' = Loop("exposed", loop.serial)
    /\ UNCHANGED <<memory, app, net, link, subs, wills, status, availability,
                   sensors, bounds>>

\* A slider that is exposed again still counts as cleared, and would not be
\* cleared a second time.
BugStillCleared ==
    /\ loop.at = "exposed"
    /\ aplAnnounced' = aplAnnounced \cup {loop.serial}
    /\ wired' = wired \cup {loop.serial}
    /\ loop' = Loop("idle", NoSerial)
    /\ UNCHANGED <<connected, announced, aplCleared, handlers, telemetry, stale,
                   net, link, subs, wills, retained, bounds>>

SliderExposed ==
    /\ loop.at = "exposed"
    /\ aplAnnounced' = aplAnnounced \cup {loop.serial}
    /\ aplCleared' = aplCleared \ {loop.serial}
    /\ wired' = wired \cup {loop.serial}
    /\ loop' = Loop("idle", NoSerial)
    /\ UNCHANGED <<connected, announced, handlers, telemetry, stale, net, link,
                   subs, wills, retained, bounds>>
---------------------------------------------------------------------------
(* The asyncio thread: _mqtt_watchdog *)

\* The watchdog does nothing, with a live network thread or with a dead one.
BugNoRefresh == LoopIdle /\ net.at # "dead" /\ connected /\ UNCHANGED vars
BugNoRebuild == LoopIdle /\ net.at = "dead" /\ UNCHANGED vars

\* ensure_connected with a live network thread: refresh the retained status.
RefreshStatus ==
    /\ LoopIdle /\ net.at # "dead" /\ connected
    /\ Retain(status, "online")
    /\ UNCHANGED <<memory, app, loop, net, link, subs, wills, availability,
                   sensors, slider, bounds>>

\* ensure_connected with a dead one: _teardown_client, then connect.  Whether
\* the broker sees a clean disconnect, and drops the will, is up to paho.
RebuildClient ==
    /\ LoopIdle /\ net.at = "dead"
    /\ connected' = FALSE /\ announced' = {} /\ aplAnnounced' = {}
    /\ net' = Net("idle") /\ link' = "down" /\ subs' = {}
    /\ wills' \in IF link = "up" THEN {wills, wills \cup {"own"}} ELSE {wills}
    /\ UNCHANGED <<aplCleared, handlers, app, loop, retained, bounds>>

---------------------------------------------------------------------------
(* The network thread: on_connect and on_disconnect *)

\* The broker accepts the connection.  The client id is stable, so a previous
\* connection of this gateway ends here and its will is sent; the session is
\* clean, so there are no subscriptions.
Connects ==
    /\ NetIdle /\ link = "down"
    /\ link' = "up" /\ net' = Net("on_connect") /\ subs' = {}
    /\ status' = IF "own" \in wills THEN "offline" ELSE status
    /\ wills' = wills \ {"own"}
    /\ UNCHANGED <<memory, app, loop, availability, sensors, slider, bounds>>

\* _on_connect up to its loop, whose iterator remembers the dictionary.
OnConnect ==
    /\ net.at = "on_connect"
    /\ connected' = TRUE
    /\ Retain(status, "online")
    /\ net' = [at |-> "resubscribe", visited |-> {}, keys |-> handlers]
    /\ UNCHANGED <<announced, aplAnnounced, aplCleared, handlers, app, loop, link,
                   subs, wills, availability, sensors, slider, bounds>>

\* _on_connect leaves the command topics alone, or subscribes them after a
\* look at the handlers of the moment it began.
BugNoResubscribe ==
    /\ net.at = "resubscribe" /\ net' = Net("idle")
    /\ UNCHANGED <<memory, app, loop, link, subs, wills, retained, bounds>>

BugSubscribeSnapshot ==
    /\ net.at = "resubscribe" /\ net' = Net("idle")
    /\ subs' = IF Delivers THEN subs \cup net.keys ELSE subs
    /\ UNCHANGED <<memory, app, loop, link, wills, retained, bounds>>

\* The iterator raises RuntimeError if the dictionary changed its size since,
\* and may if keys were exchanged; the exception ends the network thread.
\* Otherwise the loop subscribes the next key, or is over.
Resubscribe ==
    /\ net.at = "resubscribe"
    /\ \/ /\ handlers # net.keys
          /\ net' = Net("dead") /\ UNCHANGED subs
       \/ /\ Cardinality(handlers) = Cardinality(net.keys)
          /\ \/ /\ handlers \subseteq net.visited
                /\ net' = Net("idle") /\ UNCHANGED subs
             \/ \E s \in handlers \ net.visited :
                   /\ net' = [net EXCEPT !.visited = @ \cup {s}]
                   /\ subs' = IF Delivers THEN subs \cup {s} ELSE subs
    /\ UNCHANGED <<memory, app, loop, link, wills, retained, bounds>>

\* The end of the connection is noticed: _on_disconnect, one statement after
\* the other.
NoticesLoss ==
    /\ NetIdle /\ link = "lost"
    /\ link' = "down" /\ connected' = FALSE /\ net' = Net("forget")
    /\ UNCHANGED <<announced, aplAnnounced, aplCleared, handlers, app, loop, subs,
                   wills, retained, bounds>>

Forget ==
    /\ net.at = "forget"
    /\ announced' = {} /\ net' = Net("forget_apl")
    /\ UNCHANGED <<connected, aplAnnounced, aplCleared, handlers, app, loop, link,
                   subs, wills, retained, bounds>>

ForgetSlider ==
    /\ net.at = "forget_apl"
    /\ aplAnnounced' = {} /\ net' = Net("idle")
    /\ UNCHANGED <<connected, announced, aplCleared, handlers, app, loop, link,
                   subs, wills, retained, bounds>>

---------------------------------------------------------------------------
(* Environment *)

TelemetryAges(s) ==
    /\ LoopIdle
    /\ telemetry[s] = "fresh"
    /\ telemetry' = [telemetry EXCEPT ![s] = "old"]
    /\ UNCHANGED <<memory, stale, wired, loop, net, link, subs, wills, retained,
                   bounds>>

LinkDrops ==
    /\ failures < MaxFailures /\ failures' = failures + 1
    /\ link = "up"
    /\ link' = "lost" /\ subs' = {} /\ wills' = wills \cup {"own"}
    /\ UNCHANGED <<memory, app, loop, net, retained, sessions>>

\* Some exception escapes from the network loop (loop_is_running).  The socket
\* stays open until the broker gives up on it.
NetThreadDies ==
    /\ failures < MaxFailures /\ failures' = failures + 1
    /\ NetIdle
    /\ net' = Net("dead")
    /\ UNCHANGED <<memory, app, loop, link, subs, wills, retained, sessions>>

\* The broker gives up on a connection nobody serves.
BrokerGivesUp ==
    /\ net.at = "dead" /\ link = "up"
    /\ link' = "lost" /\ subs' = {} /\ wills' = wills \cup {"own"}
    /\ UNCHANGED <<memory, app, loop, net, retained, bounds>>

WillIsSent(w) ==
    /\ w \in wills
    /\ wills' = wills \ {w} /\ status' = "offline"
    /\ UNCHANGED <<memory, app, loop, net, link, subs, availability, sensors,
                   slider, bounds>>

---------------------------------------------------------------------------

Watchdog == RefreshStatus \/ RebuildClient

LoopRuns ==
    \/ AnnounceSensors \/ PublishState
    \/ Unsubscribe \/ ClearSlider
    \/ Subscribe \/ ExposeSlider \/ SliderExposed

NetRuns == Connects \/ OnConnect \/ Resubscribe \/ NoticesLoss \/ Forget \/ ForgetSlider

Next ==
    \/ \E s \in Serial :
           \/ \E changed \in BOOLEAN : TelemetryArrives(s, changed)
           \/ MarkStale(s) \/ TelemetryAges(s)
           \/ Registration(s) \/ OldProductInfo(s) \/ ProductInfo(s)
    \/ LoopRuns \/ Watchdog \/ NetRuns
    \/ LinkDrops \/ NetThreadDies \/ BrokerGivesUp
    \/ \E w \in Will : WillIsSent(w)

Spec == Init /\ [][Next]_vars

\* asyncio runs its callbacks in the order they become ready, so neither the
\* watchdog nor the frames of a live inverter wait forever; the network thread
\* is scheduled by the system; a broker gives up on a silent client.
Fairness ==
    /\ WF_vars(LoopRuns) /\ WF_vars(NetRuns) /\ SF_vars(Watchdog)
    /\ WF_vars(BrokerGivesUp)
    /\ \A s \in Serial : SF_vars(telemetry[s] = "fresh" /\ TelemetryArrives(s, FALSE))

FairSpec == Spec /\ Fairness
---------------------------------------------------------------------------
(* Correctness *)

\* Subscriptions and handlers differ by what the asyncio thread is about to
\* send, and by what the loop of _on_connect has not reached yet.
Leaving == IF loop.at = "unsubscribe" THEN {loop.serial} ELSE {}
Joining == IF loop.at = "subscribe" THEN {loop.serial} ELSE {}

Inductive ==
    /\ Leaving \cap handlers = {} /\ Joining \subseteq handlers
    /\ net.at \in {"forget", "forget_apl"} => link = "down"
    /\ Delivers => subs \subseteq handlers \cup Leaving
    /\ Delivers /\ NetIdle => handlers \subseteq subs \cup Joining
    /\ Delivers /\ net.at = "resubscribe" =>
           handlers \cap net.visited \subseteq subs \cup Joining

\* Both threads are between two calls and the client works.
Settled == Delivers /\ LoopIdle /\ NetIdle

\* The broker delivers exactly the commands somebody handles, although
\* registering, withdrawing and the loop of _on_connect share a dictionary.
Subscribed == Settled => subs = handlers

\* A command handler does not stay deaf: after lost connections, a dead network
\* thread or an iteration that raised, its topic is subscribed again
\* (_on_connect, ensure_connected).
Commandable == \A s \in Serial : s \in handlers ~> s \in subs \/ s \notin handlers

\* Once failures cease, the gateway is shown online for good, whatever wills
\* were sent late (README: "recovers from stale disconnects").
OnlineAgain == <>[](status = "online")

\* An inverter that keeps sending telemetry is shown available in the end, even
\* if the message that said so was lost (publish repeats it with every frame).
FreshIsShown ==
    \A s \in Serial : <>[](telemetry[s] = "fresh") => <>[](availability[s] = "online")

\* A stale inverter is not shown available: "they do not silently retain a
\* stale value" (README), "explicitly unavailable" (_telemetry_watchdog).
StaleIsOffline == Settled => \A s \in stale : availability[s] # "online"

\* The publisher is right about what it announced and cleared: the broker
\* retains it (announced, _active_power_limit_announced, ..._cleared).
MemoryIsRetained ==
    Settled => /\ announced \subseteq sensors
               /\ aplAnnounced \subseteq slider
               /\ aplCleared \cap slider = {}
=============================================================================
