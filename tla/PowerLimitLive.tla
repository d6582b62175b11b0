--------------------------- MODULE PowerLimitLive ---------------------------
(***************************************************************************)
(* Self-healing of the power limit: PowerLimit with the assumptions under  *)
(* which a pending setpoint must get through.  The gateway's own tasks and *)
(* its reader are never starved (asyncio runs what is ready), a dead or    *)
(* idle connection is lost in the end (TCP keepalive, the inverter's own   *)
(* reconnects), and of the connections the inverter makes infinitely many  *)
(* are steady: they last until the session has settled and its writes are  *)
(* answered in time.  steady marks such a connection; it only restricts    *)
(* the environment and no gateway step reads it.                           *)
(***************************************************************************)
EXTENDS PowerLimit

VARIABLE steady
liveVars == <<vars, steady>>

\* The work a steady connection is there for is finished.
Settled ==
    /\ session[peer].settle = "done"
    /\ \A k \in Keys(peer) : ~Unfinished(peer, k)

\* What a steady connection spares its Session.
Disturbance ==
    \/ InverterDrops
    \/ Close(peer)
    \/ \E k \in Keys(peer) : TimeoutWrite(peer, k) \/ ReadbackTimeout(peer, k)
    \/ InverterWrites(FALSE)
    \/ \E answers \in BOOLEAN : InverterRefuses(answers)
    \/ Served("read") /\ fromInv' = fromInv
    \/ InverterAnnounces("old_product_info")

Connects == \E s \in Session : Connect(s)

LiveInit == Init /\ steady = FALSE
LiveNext ==
    \/ Connects /\ steady' \in BOOLEAN
    \/ /\ Next /\ peer' \in {peer, NoSession}
       /\ steady => Settled \/ ~Disturbance
       /\ steady' = (steady /\ peer' = peer)

Kept(A) == A /\ UNCHANGED steady

Fairness ==
    /\ SF_liveVars(Connects /\ steady' = TRUE)
    /\ WF_liveVars((steady => Settled) /\ InverterDrops /\ steady' = FALSE)
    /\ WF_liveVars(Kept(RunSetpoint))
    /\ SF_liveVars(Kept(InverterServes))
    /\ SF_liveVars(Kept(\E kind \in FrameKind : InverterAnnounces(kind) /\ said' # said))
    /\ WF_liveVars(Kept(\E s \in Session : peer # s /\ Close(s)))
    /\ \A s \in Session :
           /\ WF_liveVars(Kept(SessionTasks(s)))
           /\ WF_liveVars(Kept(HandleFrame(s)))

LiveSpec == LiveInit /\ [][LiveNext]_liveVars /\ Fairness

---------------------------------------------------------------------------

\* Self-healing: a setpoint that could not be confirmed is re-applied until it
\* is (_settle_inverter_control: "so curtailment is self-healing across
\* reconnects"), unless a newer command takes its place and is confirmed.
SelfHealing == Pending ~> ~Pending

\* A wired connection that stays gets its startup work: once the inverter has
\* sent product info and telemetry on it, in either order, the settle task is
\* run, or the connection ends (_maybe_settle_inverter_control).
StartupWorkIsDone ==
    \A s \in Session :
        session[s].wired /\ session[s].telemetry ~>
            session[s].settle = "done" \/ ~session[s].open

\* Home Assistant reaches the inverter again and again: late frames of an
\* abandoned connection, a repeated registration or the end of an old Session
\* may take the command handler from the live one, but some later connection
\* gives it back ("A handler may still reference the previous Session after a
\* reconnect"; handle_frame, _maybe_wire_active_power_limit_mqtt).
CommandableAgain == []<>(peer # NoSession /\ session[peer].open /\ handler = peer)
=============================================================================
