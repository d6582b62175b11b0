------------------------- MODULE ProvisioningProofs -------------------------
(***************************************************************************)
(* Provisioning reports success only after the inverter has accepted the   *)
(* credentials, for any number of tries, deadlines and waiting frames.     *)
(***************************************************************************)
EXTENDS Provisioning, TLAPS

Frame == BootFrame \cup CommandFrame

LEMMA Typing ==
    /\ MaxConnects \in Nat \ {0} /\ Deadline \in Nat \ {0}
    /\ 0 \in 0..MaxConnects /\ 0 \in 0..Deadline /\ Deadline \in 0..Deadline
    /\ \A S : <<>> \in Seq(S)
  BY BoundAssumption

LEMMA InitInductive == Init => Inductive
<1>1. Init => TypeOK
  BY Typing DEF Init, TypeOK, Result
<1>2. Init => TriesLeft /\ AnswersAreGenuine /\ SuccessIsAccepted
  BY DEF Init, TriesLeft, AnswersAreGenuine, SuccessIsAccepted
<1> QED  BY <1>1, <1>2 DEF Inductive

\* An attempt that ends leaves nothing behind that could be taken for an answer.
LEMMA EndInductive ==
    ASSUME Inductive, NEW r \in Result, End(r), connects' \in 0..MaxConnects,
           UNCHANGED <<mode, accepted>>,
           r = "ok" /\ mode = "provision" => accepted
    PROVE  Inductive'
<1>1. TypeOK'
  <2>1. queue' \in Seq(BootFrame \cup CommandFrame) /\ written' \in Seq(CommandFrame)
    BY Typing DEF End
  <2>2. stage' = "idle" /\ left' \in 0..Deadline /\ result' \in Result
    BY Typing DEF End
  <2>3. link' \in BOOLEAN
    BY Zenon DEF End, Inductive, TypeOK
  <2> QED  BY <2>1, <2>2, <2>3 DEF Inductive, TypeOK
<1>2. TriesLeft' /\ AnswersAreGenuine' /\ SuccessIsAccepted'
  BY DEF TriesLeft, AnswersAreGenuine, SuccessIsAccepted, End
<1> QED  BY <1>1, <1>2 DEF Inductive

LEMMA StartInductive ==
    ASSUME Inductive, NEW m \in {"provision", "list"}, Start(m)
    PROVE  Inductive'
<1>1. TypeOK'
  <2>1. queue' \in Seq(BootFrame \cup CommandFrame) /\ written' \in Seq(CommandFrame)
    BY Typing DEF Start
  <2>2. /\ mode' \in {"provision", "list"} /\ stage' = "connecting"
        /\ connects' \in 0..MaxConnects /\ result' \in Result /\ accepted' \in BOOLEAN
        /\ UNCHANGED <<left, link>>
    BY Typing DEF Start, Result
  <2> QED  BY <2>1, <2>2 DEF Inductive, TypeOK
<1>2. TriesLeft' /\ AnswersAreGenuine' /\ SuccessIsAccepted'
  BY BoundAssumption DEF TriesLeft, AnswersAreGenuine, SuccessIsAccepted, Start
<1> QED  BY <1>1, <1>2 DEF Inductive

LEMMA ConnectInductive ==
    ASSUME Inductive, Connect \/ ConnectFails
    PROVE  Inductive'
<1>1. MaxConnects \in Nat /\ Deadline \in Nat
  BY BoundAssumption
<1>2. stage = "connecting" /\ connects \in 0..MaxConnects /\ connects < MaxConnects
      /\ connects' = connects + 1
  BY DEF Inductive, TypeOK, TriesLeft, Connect, ConnectFails
<1>3. CASE Connect
  <2>1. TypeOK'
    BY <1>1, <1>2, <1>3 DEF Inductive, TypeOK, Connect, Waiting, BootStage
  <2>2. TriesLeft' /\ AnswersAreGenuine' /\ SuccessIsAccepted'
    BY <1>3 DEF Inductive, TriesLeft, AnswersAreGenuine, SuccessIsAccepted, Connect
  <2> QED  BY <2>1, <2>2 DEF Inductive
<1>4. CASE ConnectFails /\ connects + 1 = MaxConnects
  <2>1. End("error") /\ UNCHANGED <<mode, accepted>> /\ "error" \in Result
    BY <1>4 DEF ConnectFails, Result
  <2>2. connects' \in 0..MaxConnects
    BY <1>1, <1>2
  <2> QED  BY <2>1, <2>2, EndInductive
<1>5. CASE ConnectFails /\ connects + 1 # MaxConnects
  <2>1. connects' \in 0..MaxConnects /\ connects' < MaxConnects
        /\ UNCHANGED <<mode, stage, result, left, queue, link, written, accepted>>
    BY <1>1, <1>2, <1>5 DEF ConnectFails
  <2> QED  BY <2>1 DEF Inductive, TypeOK, TriesLeft, AnswersAreGenuine, SuccessIsAccepted
<1> QED  BY <1>3, <1>4, <1>5

\* What leaves the queue takes no answer away from what is left of it.
LEMMA TailOfQueue ==
    ASSUME TypeOK, AnswersAreGenuine, queue # <<>>
    PROVE  /\ Tail(queue) \in Seq(Frame) /\ Head(queue) \in Frame
           /\ (\E i \in DOMAIN Tail(queue) : Tail(queue)[i] = "creds") => accepted
           /\ Head(queue) = "creds" => accepted
<1>1. queue \in Seq(Frame)
  BY DEF TypeOK, Frame
<1>2. /\ Tail(queue) \in Seq(Frame) /\ Head(queue) \in Frame
      /\ 1 \in DOMAIN queue /\ Head(queue) = queue[1]
      /\ \A i \in DOMAIN Tail(queue) : i + 1 \in DOMAIN queue
                                       /\ Tail(queue)[i] = queue[i + 1]
  BY <1>1
<1> QED  BY <1>2 DEF AnswersAreGenuine

LEMMA SkipInductive ==
    ASSUME Inductive, Skip
    PROVE  Inductive'
<1>1. queue' \in Seq(Frame)
      /\ ((\E i \in DOMAIN queue' : queue'[i] = "creds") => accepted)
  BY TailOfQueue DEF Inductive, Skip
<1> QED  BY <1>1 DEF Inductive, TypeOK, TriesLeft, AnswersAreGenuine, SuccessIsAccepted,
                     Skip, Frame

\* The commit is written, and its wait begins, only on an answer to credentials.
LEMMA TakeInductive ==
    ASSUME Inductive, Take
    PROVE  Inductive'
<1>1. TypeOK /\ TriesLeft /\ AnswersAreGenuine /\ SuccessIsAccepted
  BY DEF Inductive
<1>2. /\ stage \in Waiting /\ queue # <<>> /\ Matches(Head(queue))
      /\ UNCHANGED <<mode, connects, accepted>>
  BY DEF Take
<1>3. connects' \in 0..MaxConnects
  BY <1>1, <1>2 DEF TypeOK
<1>4. CASE End("error")
  BY <1>2, <1>3, <1>4, EndInductive DEF Result
<1>5. CASE stage \in {"scan", "commit"} /\ End("ok")
  BY <1>1, <1>2, <1>3, <1>5, EndInductive DEF AnswersAreGenuine, Result
<1>6. CASE /\ stage \notin {"scan", "commit"} /\ queue' = Tail(queue) /\ Advance
  <2>1. queue' \in Seq(Frame) /\ ((\E i \in DOMAIN queue' : queue'[i] = "creds") => accepted)
    BY <1>1, <1>2, <1>6, TailOfQueue
  <2>2. stage' \in Waiting /\ left' \in 0..Deadline /\ UNCHANGED <<result, link>>
    BY <1>6, Typing DEF Advance, NextStage, Waiting, BootStage, CommandFrame
  <2>3. written' \in Seq(CommandFrame)
    <3>1. PICK c \in CommandFrame : written' = written \/ written' = Append(written, c)
      BY <1>6 DEF Advance, CommandFrame
    <3> QED  BY <1>1, <3>1 DEF TypeOK
  <2>4. stage' = "commit" => accepted
    <3>1. stage' = "commit" => stage = "creds"
      BY <1>2, <1>6 DEF Advance, NextStage, Waiting, BootStage, CommandFrame
    <3>2. stage = "creds" => Head(queue) = "creds"
      BY <1>2 DEF Matches, BootStage
    <3> QED  BY <1>1, <1>2, <3>1, <3>2, TailOfQueue
  <2>5. (stage' = "scan" => mode = "list") /\ stage' # "connecting"
    BY <1>2, <1>6 DEF Advance, NextStage, Waiting, BootStage, CommandFrame
  <2>6. TypeOK'
    BY <1>1, <1>2, <2>1, <2>2, <2>3 DEF TypeOK, Frame
  <2>7. TriesLeft' /\ AnswersAreGenuine' /\ SuccessIsAccepted'
    BY <1>1, <1>2, <2>1, <2>2, <2>4, <2>5
       DEF TriesLeft, AnswersAreGenuine, SuccessIsAccepted
  <2> QED  BY <2>6, <2>7 DEF Inductive
<1> QED  BY <1>4, <1>5, <1>6 DEF Take

LEMMA ClockInductive ==
    ASSUME Inductive, Tick \/ Expire
    PROVE  Inductive'
<1>1. CASE Tick
  <2>1. left' \in 0..Deadline
    BY <1>1, Typing DEF Inductive, TypeOK, Tick
  <2> QED  BY <1>1, <2>1
              DEF Inductive, TypeOK, TriesLeft, AnswersAreGenuine, SuccessIsAccepted, Tick
<1>2. CASE Expire
  <2>1. connects' \in 0..MaxConnects /\ UNCHANGED <<mode, accepted>>
    BY <1>2 DEF Inductive, TypeOK, Expire
  <2>2. stage = "commit" => accepted
    BY DEF Inductive, AnswersAreGenuine
  <2>3. PICK r \in Result : End(r) /\ (r = "ok" => stage = "commit")
    BY <1>2 DEF Expire, Result
  <2> QED  BY <2>1, <2>2, <2>3, EndInductive
<1> QED  BY <1>1, <1>2

\* An answer to credentials joins the queue only when they have been accepted.
LEMMA NotifyGenuine ==
    ASSUME TypeOK, AnswersAreGenuine, NEW f \in Frame, Notify(f),
           accepted' \in BOOLEAN, accepted => accepted', f = "creds" => accepted'
    PROVE  /\ queue' \in Seq(Frame)
           /\ (\E i \in DOMAIN queue' : queue'[i] = "creds") => accepted'
<1>1. queue \in Seq(Frame)
  BY DEF TypeOK, Frame
<1>2. /\ Append(queue, f) \in Seq(Frame)
      /\ \A i \in DOMAIN Append(queue, f) :
            Append(queue, f)[i] = f \/ (i \in DOMAIN queue /\ Append(queue, f)[i] = queue[i])
  BY <1>1
<1> QED  BY <1>2 DEF Notify, AnswersAreGenuine

LEMMA PeerInductive ==
    ASSUME Inductive, (\E f \in BootFrame : Announces(f)) \/ Serves \/ Drops
    PROVE  Inductive'
<1>1. TypeOK /\ TriesLeft /\ AnswersAreGenuine /\ SuccessIsAccepted
  BY DEF Inductive
<1>2. ASSUME NEW f \in BootFrame, Announces(f) PROVE Inductive'
  <2>1. f \in Frame /\ f # "creds" /\ Notify(f)
        /\ UNCHANGED <<mode, stage, connects, left, result, link, written, accepted>>
    BY <1>2 DEF Announces, Frame, BootFrame
  <2>2. queue' \in Seq(Frame)
        /\ ((\E i \in DOMAIN queue' : queue'[i] = "creds") => accepted')
    BY <1>1, <2>1, NotifyGenuine DEF TypeOK
  <2> QED  BY <1>1, <2>1, <2>2
              DEF Inductive, TypeOK, TriesLeft, AnswersAreGenuine, SuccessIsAccepted, Frame
<1>3. CASE Serves
  <2>1. /\ written # <<>> /\ written' = Tail(written)
        /\ UNCHANGED <<mode, stage, connects, left, result, link>>
    BY <1>3 DEF Serves
  <2>2. Head(written) \in CommandFrame /\ written' \in Seq(CommandFrame)
    BY <1>1, <2>1 DEF TypeOK
  <2>3. accepted' \in BOOLEAN /\ (accepted => accepted')
    <3>1. accepted \in BOOLEAN
      BY <1>1 DEF TypeOK
    <3>2. CASE accepted' = accepted
      BY <3>1, <3>2
    <3>3. CASE accepted' = (accepted \/ Head(written) = "creds")
      BY <3>1, <3>3, Zenon
    <3> QED  BY <1>3, <3>2, <3>3 DEF Serves
  <2>4. queue' \in Seq(Frame)
        /\ ((\E i \in DOMAIN queue' : queue'[i] = "creds") => accepted')
    <3>1. CASE queue' = queue
      BY <1>1, <2>3, <3>1 DEF TypeOK, AnswersAreGenuine, Frame
    <3>2. CASE Notify(Head(written)) /\ accepted' = (accepted \/ Head(written) = "creds")
      BY <1>1, <2>2, <2>3, <3>2, NotifyGenuine DEF Frame
    <3> QED  BY <1>3, <3>1, <3>2 DEF Serves
  <2> QED  BY <1>1, <2>1, <2>2, <2>3, <2>4
              DEF Inductive, TypeOK, TriesLeft, AnswersAreGenuine, SuccessIsAccepted, Frame
<1>4. CASE Drops
  BY <1>1, <1>4, Typing
     DEF Inductive, TypeOK, TriesLeft, AnswersAreGenuine, SuccessIsAccepted, Drops, gateway
<1> QED  BY <1>2, <1>3, <1>4

\* Every attempt, however often the inverter repeats itself, falls silent or
\* loses its link: success means that it has accepted the credentials.
THEOREM ProvisioningInvariant == Spec => [](TypeOK /\ AnswersAreGenuine /\ SuccessIsAccepted)
<1>1. Inductive /\ [Next]_vars => Inductive'
  <2>1. SUFFICES ASSUME Inductive, [Next]_vars PROVE Inductive'
    OBVIOUS
  <2>2. CASE \E m \in {"provision", "list"} : Start(m)
    BY <2>1, <2>2, StartInductive
  <2>3. CASE Connect \/ ConnectFails
    BY <2>1, <2>3, ConnectInductive
  <2>4. CASE Skip
    BY <2>1, <2>4, SkipInductive
  <2>5. CASE Take
    BY <2>1, <2>5, TakeInductive
  <2>6. CASE Tick \/ Expire
    BY <2>1, <2>6, ClockInductive
  <2>7. CASE (\E f \in BootFrame : Announces(f)) \/ Serves \/ Drops
    BY <2>1, <2>7, PeerInductive
  <2>8. CASE UNCHANGED vars
    BY <2>1, <2>8 DEF vars, gateway, Inductive, TypeOK, TriesLeft, AnswersAreGenuine,
                      SuccessIsAccepted
  <2> QED  BY <2>1, <2>2, <2>3, <2>4, <2>5, <2>6, <2>7, <2>8 DEF Next
<1>2. Spec => []Inductive
  BY <1>1, InitInductive, PTL DEF Spec
<1> QED  BY <1>2, PTL DEF Inductive
=============================================================================
