---------------------------- MODULE Provisioning ----------------------------
(***************************************************************************)
(* One inverter is given its WiFi credentials over Bluetooth (or asked     *)
(* which networks it sees), attempt after attempt: connect, answer its     *)
(* bootstrap frames, then a command at a time, each waiting for its        *)
(* answer until a deadline.  The link may drop, and a write without        *)
(* response may be lost.  Inverter and Bluetooth stack are external.       *)
(***************************************************************************)
EXTENDS Naturals, Sequences

CONSTANTS
    MaxConnects,    \* connect_attempts
    Deadline,       \* length of a wait, in steps of the clock
    MaxQueue        \* bound: frames waiting to be looked at

ASSUME BoundAssumption ==
    /\ MaxConnects \in Nat \ {0} /\ Deadline \in Nat \ {0} /\ MaxQueue \in Nat

VARIABLES
    mode,           \* "provision" or "list" (list_networks)
    stage,          \* what the attempt is doing
    connects,       \* connections it has tried
    left,           \* time left in the wait it is in
    queue,          \* frames notified and not looked at, per session
    result,         \* how the last attempt ended
    \* external: the link, what was written and has not been served, and whether
    \* the inverter has accepted credentials in this attempt
    link, written, accepted

gateway == <<mode, stage, connects, left, queue, result>>
vars == <<gateway, link, written, accepted>>

---------------------------------------------------------------------------
(* Data *)

\* 7e7e frames, by what BootstrapResponder makes of them; 7f7f, by function.
BootFrame == {"registration", "seventeen", "fourteen", "odd"}
CommandFrame == {"scan", "select", "creds", "commit"}
BootStage == {"boot0", "boot1", "boot2"}
Waiting == BootStage \cup CommandFrame

\* BootstrapResponder.response_for: the frame each of its steps answers.
Answered == [boot0 |-> "registration", boot1 |-> "seventeen", boot2 |-> "fourteen"]
Result == {"none", "ok", "error", "timeout"}

TypeOK ==
    /\ mode \in {"provision", "list"}
    /\ stage \in Waiting \cup {"idle", "connecting"}
    /\ connects \in 0..MaxConnects /\ left \in 0..Deadline
    /\ queue \in Seq(BootFrame \cup CommandFrame)
    /\ result \in Result
    /\ link \in BOOLEAN /\ accepted \in BOOLEAN
    /\ written \in Seq(CommandFrame)

Init ==
    /\ mode = "provision" /\ stage = "idle" /\ connects = 0 /\ left = 0
    /\ queue = <<>> /\ result = "none"
    /\ link = FALSE /\ written = <<>> /\ accepted = FALSE

---------------------------------------------------------------------------
(* The attempt *)

\* provision and list_networks: each attempt has a session of its own.
Start(m) ==
    /\ stage = "idle"
    /\ mode' = m /\ stage' = "connecting" /\ connects' = 0
    /\ queue' = <<>> /\ written' = <<>> /\ accepted' = FALSE /\ result' = "none"
    /\ UNCHANGED <<left, link>>

\* The finally clauses: notifications stop, the client disconnects, and if that
\* fails nobody is told.
End(r) ==
    /\ stage' = "idle" /\ result' = r /\ left' = 0
    /\ queue' = <<>> /\ link' \in {FALSE, link} /\ written' = <<>>

\* _retry_connect: the next try, or the last one has failed.
ConnectFails ==
    /\ stage = "connecting"
    /\ connects' = connects + 1
    /\ IF connects + 1 = MaxConnects THEN End("error")
       ELSE UNCHANGED <<stage, result, left, queue, link, written>>
    /\ UNCHANGED <<mode, accepted>>

Connect ==
    /\ stage = "connecting"
    /\ connects' = connects + 1
    /\ stage' = "boot0" /\ left' = Deadline /\ link' = TRUE
    /\ UNCHANGED <<mode, queue, result, written, accepted>>

\* The frame a wait is for.
Matches(f) == IF stage \in BootStage THEN f \in BootFrame ELSE f = stage

\* A frame nobody waits for gives the wait its full time again.
BugSkip ==
    /\ stage \in Waiting /\ left > 0 /\ queue # <<>> /\ ~Matches(Head(queue))
    /\ queue' = Tail(queue) /\ left' = Deadline
    /\ UNCHANGED <<mode, stage, connects, result, link, written, accepted>>

\* _await_frame passes over a frame of another family or function.
Skip ==
    /\ stage \in Waiting /\ left > 0 /\ queue # <<>> /\ ~Matches(Head(queue))
    /\ queue' = Tail(queue)
    /\ UNCHANGED <<mode, stage, connects, left, result, link, written, accepted>>

\* What the attempt waits for next: a command, once written, its own answer.
NextStage ==
    CASE stage = "boot0" -> "boot1"
      [] stage = "boot1" -> "boot2"
      [] stage = "boot2" -> IF mode = "list" THEN "scan" ELSE "select"
      [] stage = "select" -> "creds"
      [] OTHER -> "commit"

\* There is no answer to a frame out of turn.
OutOfTurn(f) == stage \in BootStage /\ f # Answered[stage]

\* The next wait, after a write that may get lost on its way.  (What the
\* inverter makes of the answers to its bootstrap frames is left open.)
Advance ==
    /\ stage' = NextStage /\ left' = Deadline
    /\ written' \in {written} \cup
           {Append(written, c) : c \in CommandFrame \cap {NextStage}}
    /\ UNCHANGED <<result, link>>

\* A wait gets its frame: bootstrap and set_credentials go on, or fail because
\* the frame is out of turn, the write raises, or the credentials are too long
\* or too short to be written.
Take ==
    LET f == Head(queue) IN
    /\ stage \in Waiting /\ left > 0 /\ queue # <<>> /\ Matches(f)
    /\ \/ OutOfTurn(f) /\ End("error")
       \/ /\ stage \in {"scan", "commit"} /\ End("ok")
       \/ /\ ~OutOfTurn(f) /\ stage \notin {"scan", "commit"}
          /\ \/ link /\ queue' = Tail(queue) /\ Advance
             \/ (~link \/ stage = "select") /\ End("error")
    /\ UNCHANGED <<mode, connects, accepted>>

Tick ==
    /\ stage \in Waiting /\ left > 0
    /\ left' = left - 1
    /\ UNCHANGED <<mode, stage, connects, queue, result, link, written, accepted>>

\* The end of any wait after the credentials were written counts as success.
BugExpire ==
    /\ stage \in Waiting /\ left = 0
    /\ IF stage \in {"creds", "commit"} THEN End("ok") ELSE End("timeout")
    /\ UNCHANGED <<mode, connects, accepted>>

\* The deadline: asyncio.TimeoutError, or ProvisioningError if a frame that was
\* passed over came last.  An inverter that has been told to commit is gone.
Expire ==
    /\ stage \in Waiting /\ left = 0
    /\ IF stage = "commit" THEN End("ok") ELSE \E r \in {"timeout", "error"} : End(r)
    /\ UNCHANGED <<mode, connects, accepted>>

---------------------------------------------------------------------------
(* The inverter and the link (external) *)

Notify(f) == Len(queue) < MaxQueue /\ queue' = Append(queue, f)

\* Bootstrap frames come by themselves, again, or out of turn.
Announces(f) ==
    /\ link /\ Notify(f)
    /\ UNCHANGED <<mode, stage, connects, left, result, link, written, accepted>>

\* The inverter serves what was written to it; it may keep silent, and what it
\* answers to credentials says that it has accepted them.
Serves ==
    /\ link /\ written # <<>>
    /\ written' = Tail(written)
    /\ \/ queue' = queue /\ accepted' = accepted
       \/ /\ Notify(Head(written))
          /\ accepted' = (accepted \/ Head(written) = "creds")
    /\ UNCHANGED <<mode, stage, connects, left, result, link>>

Drops ==
    /\ link /\ link' = FALSE /\ written' = <<>>
    /\ UNCHANGED <<gateway, accepted>>

---------------------------------------------------------------------------
Next ==
    \/ \E m \in {"provision", "list"} : Start(m)
    \/ ConnectFails \/ Connect
    \/ Skip \/ Take \/ Tick \/ Expire
    \/ \E f \in BootFrame : Announces(f)
    \/ Serves \/ Drops

\* Connecting has a timeout of its own, and time passes.
Spec == /\ Init /\ [][Next]_vars
        /\ WF_vars(Connect \/ ConnectFails) /\ WF_vars(Tick) /\ WF_vars(Expire)

---------------------------------------------------------------------------
(* Properties *)

\* Provisioning succeeds only if the inverter has accepted the credentials in
\* this very attempt, whatever came late, twice or not at all (provision).  That
\* it got the commit is not known: its silence counts as success.
SuccessIsAccepted == (result = "ok" /\ mode = "provision") => accepted

\* Every attempt ends, however much the inverter talks while a wait goes on: the
\* deadline is that of the whole wait, not of a frame (_await_frame).
AttemptsEnd == (stage # "idle") ~> (stage = "idle")

\* Why success is earned: an answer to credentials is only ever an acceptance.
AnswersAreGenuine ==
    /\ (\E i \in DOMAIN queue : queue[i] = "creds") => accepted
    /\ stage = "commit" => accepted
    /\ stage = "scan" => mode = "list"

TriesLeft == stage = "connecting" => connects < MaxConnects

Inductive == TypeOK /\ TriesLeft /\ AnswersAreGenuine /\ SuccessIsAccepted
=============================================================================
