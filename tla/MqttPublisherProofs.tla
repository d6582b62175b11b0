------------------------ MODULE MqttPublisherProofs ------------------------
(***************************************************************************)
(* MqttPublisher keeps its handlers and the broker's subscriptions in step *)
(* for every set of inverters and any number of failures: type correctness *)
(* and the invariant Inductive, with Subscribed as its consequence.        *)
(***************************************************************************)
EXTENDS MqttPublisher, TLAPS

\* Init is well typed.
LEMMA InitTypeOK == Init => TypeOK
<1> SUFFICES ASSUME Init PROVE TypeOK
    OBVIOUS
<1>1. availability \in [Serial -> {"none", "online", "offline"}]
      BY DEF Init
<1>2. telemetry \in [Serial -> {"none", "fresh", "old"}]
      BY DEF Init
<1>3. wills \subseteq Will /\ slider \subseteq Serial
      BY DEF Init, Will
<1>4. net \in [at : NetStep, visited : SUBSET Serial, keys : SUBSET Serial]
      BY DEF Init, Net, NetStep
<1>5. failures \in 0..MaxFailures /\ sessions \in 0..MaxSessions
      BY LimitAssumption DEF Init
<1>6. /\ connected \in BOOLEAN /\ link \in Link
      /\ status \in {"none", "online", "offline"}
      /\ loop = Loop("idle", NoSerial)
      BY DEF Init, Link
<1>7. /\ announced \subseteq Serial /\ aplAnnounced \subseteq Serial
      /\ aplCleared \subseteq Serial /\ handlers \subseteq Serial
      /\ stale \subseteq Serial /\ wired \subseteq Serial
      /\ subs \subseteq Serial /\ sensors \subseteq Serial
      BY DEF Init
<1>8. aplAnnounced \cap aplCleared = {}
      BY DEF Init
<1> QED
    BY <1>1, <1>2, <1>3, <1>4, <1>5, <1>6, <1>7, <1>8, Zenon DEF TypeOK

\* Every step of the asyncio thread, of the network thread and of their
\* environment keeps the state well typed.
LEMMA StepTypeOK == TypeOK /\ [Next]_vars => TypeOK'
<1> SUFFICES ASSUME TypeOK, [Next]_vars PROVE TypeOK'
    OBVIOUS
<1> USE DEF TypeOK, LoopStep, NetStep, Link, Will, Loop, Net, memory, app,
            retained, bounds, Retain, LoopIdle, NetIdle
<1>1. ASSUME NEW s \in Serial, NEW changed \in BOOLEAN, TelemetryArrives(s, changed)
      PROVE  TypeOK'
      BY <1>1 DEF TelemetryArrives
<1>2. ASSUME NEW s \in Serial, MarkStale(s) PROVE TypeOK'
      BY <1>2 DEF MarkStale
<1>3. ASSUME NEW s \in Serial, TelemetryAges(s) PROVE TypeOK'
      BY <1>3 DEF TelemetryAges
<1>4. ASSUME NEW s \in Serial, Registration(s) PROVE TypeOK'
      BY <1>4, LimitAssumption DEF Registration, Withdraw
<1>5. ASSUME NEW s \in Serial, OldProductInfo(s) PROVE TypeOK'
      BY <1>5, LimitAssumption DEF OldProductInfo, Withdraw
<1>6. ASSUME NEW s \in Serial, ProductInfo(s) PROVE TypeOK'
      BY <1>6 DEF ProductInfo
<1>7. ASSUME LoopRuns PROVE TypeOK'
  <2>1. CASE AnnounceSensors BY <2>1 DEF AnnounceSensors
  <2>2. CASE PublishState BY <2>2 DEF PublishState
  <2>3. CASE Unsubscribe BY <2>3 DEF Unsubscribe
  <2>4. CASE ClearSlider BY <2>4 DEF ClearSlider
  <2>5. CASE Subscribe BY <2>5 DEF Subscribe
  <2>6. CASE ExposeSlider BY <2>6 DEF ExposeSlider
  <2>7. CASE SliderExposed BY <2>7 DEF SliderExposed
  <2> QED BY <1>7, <2>1, <2>2, <2>3, <2>4, <2>5, <2>6, <2>7 DEF LoopRuns
<1>8. ASSUME Watchdog PROVE TypeOK'
  <2>1. CASE RefreshStatus BY <2>1 DEF RefreshStatus
  <2>2. CASE RebuildClient BY <2>2 DEF RebuildClient
  <2> QED BY <1>8, <2>1, <2>2 DEF Watchdog
<1>9. ASSUME NetRuns PROVE TypeOK'
  <2>1. CASE Connects BY <2>1 DEF Connects
  <2>2. CASE OnConnect BY <2>2 DEF OnConnect
  <2>3. CASE Resubscribe BY <2>3 DEF Resubscribe
  <2>4. CASE NoticesLoss BY <2>4 DEF NoticesLoss
  <2>5. CASE Forget BY <2>5 DEF Forget
  <2>6. CASE ForgetSlider BY <2>6 DEF ForgetSlider
  <2> QED BY <1>9, <2>1, <2>2, <2>3, <2>4, <2>5, <2>6 DEF NetRuns
<1>10. CASE LinkDrops BY <1>10, LimitAssumption DEF LinkDrops
<1>11. CASE NetThreadDies BY <1>11, LimitAssumption DEF NetThreadDies
<1>12. CASE BrokerGivesUp BY <1>12 DEF BrokerGivesUp
<1>13. ASSUME NEW w \in Will, WillIsSent(w) PROVE TypeOK'
       BY <1>13 DEF WillIsSent
<1>14. CASE UNCHANGED vars BY <1>14 DEF vars
<1> QED
    BY <1>1, <1>2, <1>3, <1>4, <1>5, <1>6, <1>7, <1>8, <1>9, <1>10, <1>11,
       <1>12, <1>13, <1>14 DEF Next

\* Type correctness of MqttPublisher for all constants.
THEOREM PublisherTypeCorrect == Spec => []TypeOK
<1>1. Init => TypeOK BY InitTypeOK
<1>2. TypeOK /\ [Next]_vars => TypeOK' BY StepTypeOK
<1> QED BY <1>1, <1>2, PTL DEF Spec

---------------------------------------------------------------------------

\* At the start there is neither a handler nor a connection.
LEMMA InitInductive == Init => Inductive
BY DEF Init, Inductive, Leaving, Joining, Loop, Net, Delivers, NetIdle

\* What Inductive speaks of is untouched by most steps.
LEMMA InductiveFrame ==
    Inductive /\ UNCHANGED <<handlers, loop, net, link, subs>> => Inductive'
BY DEF Inductive, Leaving, Joining, Delivers, NetIdle

\* A step of the asyncio thread that neither begins nor ends a subscription.
LEMMA InductiveLoop ==
    ASSUME Inductive, UNCHANGED <<handlers, net, link, subs>>,
           loop.at \notin {"subscribe", "unsubscribe"},
           loop'.at \notin {"subscribe", "unsubscribe"}
    PROVE  Inductive'
BY DEF Inductive, Leaving, Joining, Delivers, NetIdle

\* The asyncio thread withdraws a handler: its topic is still subscribed until
\* Unsubscribe.
LEMMA InductiveWithdraw ==
    ASSUME NEW s \in Serial, Inductive, LoopIdle, Withdraw(s),
           UNCHANGED <<net, link, subs>>
    PROVE  Inductive'
BY DEF Inductive, Leaving, Joining, Delivers, NetIdle, LoopIdle, Withdraw, Loop

LEMMA StepInductive == TypeOK /\ Inductive /\ [Next]_vars => Inductive'
<1> SUFFICES ASSUME TypeOK, Inductive, [Next]_vars PROVE Inductive'
    OBVIOUS
<1> USE DEF memory, retained, bounds
<1>1. ASSUME NEW s \in Serial, NEW changed \in BOOLEAN, TelemetryArrives(s, changed)
      PROVE  Inductive'
      BY <1>1, InductiveLoop DEF TelemetryArrives, Loop, LoopIdle
<1>2. ASSUME NEW s \in Serial, MarkStale(s) PROVE Inductive'
      BY <1>2, InductiveFrame DEF MarkStale
<1>3. ASSUME NEW s \in Serial, TelemetryAges(s) PROVE Inductive'
      BY <1>3, InductiveFrame DEF TelemetryAges
<1>4. ASSUME NEW s \in Serial, Registration(s) PROVE Inductive'
      BY <1>4, InductiveWithdraw DEF Registration
<1>5. ASSUME NEW s \in Serial, OldProductInfo(s) PROVE Inductive'
      BY <1>5, InductiveWithdraw DEF OldProductInfo
<1>6. ASSUME NEW s \in Serial, ProductInfo(s) PROVE Inductive'
      BY <1>6 DEF ProductInfo, Inductive, Leaving, Joining, Delivers, NetIdle,
                  LoopIdle, Loop, app
<1>7. ASSUME LoopRuns PROVE Inductive'
  <2>1. CASE AnnounceSensors
        BY <2>1, InductiveLoop DEF AnnounceSensors, Loop
  <2>2. CASE PublishState BY <2>2, InductiveLoop DEF PublishState, Loop
  <2>3. CASE Unsubscribe
        BY <2>3 DEF Unsubscribe, Inductive, Leaving, Joining, Delivers, NetIdle, Loop
  <2>4. CASE ClearSlider BY <2>4, InductiveLoop DEF ClearSlider, Loop
  <2>5. CASE Subscribe
    <3>1. loop'.at \notin {"subscribe", "unsubscribe"}
          BY <2>5 DEF Subscribe, Loop
    <3>2. /\ Leaving = {} /\ Leaving' = {}
          /\ Joining = {loop.serial} /\ Joining' = {}
          BY <2>5, <3>1 DEF Subscribe, Leaving, Joining
    <3>3. subs' = IF Delivers THEN subs \cup {loop.serial} ELSE subs
          BY <2>5 DEF Subscribe
    <3>4. UNCHANGED <<handlers, net, link>>
          BY <2>5 DEF Subscribe
    <3>5. Delivers' = Delivers
          BY <3>4 DEF Delivers
    <3>6. CASE Delivers
      <4>1. subs' = subs \cup {loop.serial}
            BY <3>3, <3>6
      <4>2. /\ net.at \in {"forget", "forget_apl"} => link = "down"
            /\ subs \subseteq handlers \cup Leaving
            /\ NetIdle => handlers \subseteq subs \cup Joining
            /\ net.at = "resubscribe" =>
                   handlers \cap net.visited \subseteq subs \cup Joining
            BY <3>6 DEF Inductive
      <4>3. loop.serial \in handlers
            BY <3>2 DEF Inductive
      <4> QED BY <3>2, <3>4, <4>1, <4>2, <4>3 DEF Inductive, NetIdle
    <3>7. CASE ~Delivers
          BY <3>2, <3>4, <3>5, <3>7 DEF Inductive
    <3> QED BY <3>6, <3>7
  <2>6. CASE ExposeSlider BY <2>6, InductiveLoop DEF ExposeSlider, Loop
  <2>7. CASE SliderExposed BY <2>7, InductiveLoop DEF SliderExposed, Loop
  <2> QED BY <1>7, <2>1, <2>2, <2>3, <2>4, <2>5, <2>6, <2>7 DEF LoopRuns
<1>8. ASSUME Watchdog PROVE Inductive'
  <2>1. CASE RefreshStatus BY <2>1, InductiveFrame DEF RefreshStatus
  <2>2. CASE RebuildClient
        BY <2>2 DEF RebuildClient, Inductive, Leaving, Joining, Delivers, NetIdle, Net
  <2> QED BY <1>8, <2>1, <2>2 DEF Watchdog
<1> USE DEF Inductive, Leaving, Joining, Delivers, NetIdle, Net
<1>9. ASSUME NetRuns PROVE Inductive'
  <2>1. CASE Connects BY <2>1 DEF Connects
  <2>2. CASE OnConnect BY <2>2 DEF OnConnect
  <2>3. CASE Resubscribe
    <3>1. UNCHANGED <<handlers, loop, link>>
          BY <2>3 DEF Resubscribe
    <3>2. CASE net' = Net("dead") /\ UNCHANGED subs
          BY <3>1, <3>2
    <3>3. CASE handlers \subseteq net.visited /\ net' = Net("idle") /\ UNCHANGED subs
      <4>1. Delivers' => handlers \cap net.visited \subseteq subs \cup Joining
            BY <2>3, <3>1, <3>3 DEF Resubscribe
      <4> QED BY <2>3, <3>1, <3>3, <4>1 DEF Resubscribe
    <3>4. ASSUME NEW s \in handlers,
                 net' = [net EXCEPT !.visited = @ \cup {s}],
                 subs' = IF Delivers THEN subs \cup {s} ELSE subs
          PROVE  Inductive'
      <4>1. net'.at = net.at /\ net'.visited = net.visited \cup {s}
            BY <2>3, <3>4 DEF Resubscribe, TypeOK
      <4>2. Delivers' = Delivers
            BY <3>1, <4>1
      <4>3. CASE Delivers
            BY <2>3, <3>1, <3>4, <4>1, <4>3 DEF Resubscribe
      <4>4. CASE ~Delivers
            BY <2>3, <3>1, <4>1, <4>2, <4>4 DEF Resubscribe
      <4> QED BY <4>3, <4>4
    <3> QED BY <2>3, <3>2, <3>3, <3>4 DEF Resubscribe
  <2>4. CASE NoticesLoss BY <2>4 DEF NoticesLoss
  <2>5. CASE Forget BY <2>5 DEF Forget
  <2>6. CASE ForgetSlider BY <2>6 DEF ForgetSlider
  <2> QED BY <1>9, <2>1, <2>2, <2>3, <2>4, <2>5, <2>6 DEF NetRuns
<1>10. CASE LinkDrops BY <1>10 DEF LinkDrops
<1>11. CASE NetThreadDies BY <1>11 DEF NetThreadDies
<1>12. CASE BrokerGivesUp BY <1>12 DEF BrokerGivesUp
<1>13. ASSUME NEW w \in Will, WillIsSent(w) PROVE Inductive'
       BY <1>13, InductiveFrame DEF WillIsSent
<1>14. CASE UNCHANGED vars BY <1>14, InductiveFrame DEF vars
<1> QED
    BY <1>1, <1>2, <1>3, <1>4, <1>5, <1>6, <1>7, <1>8, <1>9, <1>10, <1>11,
       <1>12, <1>13, <1>14 DEF Next

\* The invariant behind Subscribed, for every set of inverters.
THEOREM PublisherInvariant == Spec => []Inductive
<1>1. Init => Inductive BY InitInductive
<1>2. TypeOK /\ Inductive /\ [Next]_vars => Inductive' BY StepInductive
<1> QED BY <1>1, <1>2, PublisherTypeCorrect, PTL DEF Spec

\* Between two calls, the broker delivers exactly the commands that have a
\* handler (register_active_power_limit_handler, _on_connect).
THEOREM CommandsAreSubscribed == Spec => []Subscribed
<1>1. Inductive => Subscribed
      BY DEF Inductive, Subscribed, Settled, Leaving, Joining, LoopIdle
<1> QED BY <1>1, PublisherInvariant, PTL
=============================================================================
