------------------------ MODULE FirmwareUploadProofs ------------------------
(***************************************************************************)
(* For any number of uploads, chunks, connections and registrations:       *)
(* transfers do not mix, and what the clients are told is true.            *)
(***************************************************************************)
EXTENDS FirmwareUpload, TLAPS

---------------------------------------------------------------------------
(* Queues, types and records *)

LEMMA Appended ==
    ASSUME NEW S, NEW q \in Seq(S), NEW x \in S
    PROVE  /\ Append(q, x) \in Seq(S) /\ Append(q, x) # <<>>
           /\ DOMAIN Append(q, x) = 1..Len(q) + 1 /\ Len(Append(q, x)) = Len(q) + 1
           /\ \A i \in 1..Len(q) : i \in DOMAIN q /\ Append(q, x)[i] = q[i]
           /\ Append(q, x)[Len(q) + 1] = x
           /\ Len(q) \in Nat /\ DOMAIN q = 1..Len(q)
OBVIOUS

LEMMA Removed ==
    ASSUME NEW S, NEW q \in Seq(S), q # <<>>
    PROVE  /\ Tail(q) \in Seq(S) /\ Head(q) \in S /\ Head(q) = q[1] /\ 1 \in DOMAIN q
           /\ DOMAIN Tail(q) = 1..Len(q) - 1 /\ Len(Tail(q)) = Len(q) - 1
           /\ \A i \in 1..Len(q) - 1 : i + 1 \in DOMAIN q /\ Tail(q)[i] = q[i + 1]
           /\ Len(q) \in Nat /\ Len(q) > 0 /\ DOMAIN q = 1..Len(q)
OBVIOUS

\* A job is what its fields say.
LEMMA JobFields ==
    ASSUME NEW j \in Job
    PROVE  /\ j.at \in {"new", "queued", "answered"} \cup Running
           /\ j.session \in 0..MaxSessions /\ j.uploader \in Nat /\ j.dynamic \in BOOLEAN
           /\ j.number \in 0..Chunks /\ j.good \in BOOLEAN
           /\ j.queue \in Seq(Percent) /\ j.result \in Result
BY DEF Job

LEMMA NewJobType ==
    /\ NewJob \in Job
    /\ \A r \in Result : [NewJob EXCEPT !.at = "answered", !.result = r] \in Job
<1>1. 0 \in 0..MaxSessions /\ 0 \in 0..Chunks /\ <<>> \in Seq(Percent)
      BY BoundAssumption, ChunksAssumption
<1>2. NewJob \in Job
      BY <1>1 DEF NewJob, Job, Result
<1>3. ASSUME NEW r \in Result
      PROVE  [NewJob EXCEPT !.at = "answered", !.result = r] \in Job
      BY <1>1 DEF NewJob, Job
<1> QED
    BY <1>2, <1>3

\* Frames of the inverter by kind.
LEMMA FrameFields ==
    ASSUME NEW f \in InverterFrame
    PROVE  /\ f.kind \in {"registration", "progress", "ack"}
           /\ f.kind = "progress" => f.upload \in Upload /\ f.percent \in Percent
           /\ f.kind = "ack" => f.request \in RequestFrame /\ f.good \in BOOLEAN
                                /\ f = Ack(f.request, f.good)
BY DEF InverterFrame, Registration, Ack

LEMMA FrameTypes ==
    /\ Registration \in InverterFrame /\ Registration.kind = "registration"
    /\ \A u \in Upload, p \in Percent :
           /\ Progress(u, p) \in InverterFrame
           /\ Progress(u, p).kind = "progress" /\ Progress(u, p).percent = p
    /\ \A r \in RequestFrame, g \in BOOLEAN :
           /\ Ack(r, g) \in InverterFrame /\ Ack(r, g).kind = "ack"
           /\ Ack(r, g).request = r /\ Ack(r, g).good = g
    /\ \A u \in Upload, n \in 0..Chunks :
           /\ Request(u, n) \in RequestFrame
           /\ Request(u, n).upload = u /\ Request(u, n).number = n
BY DEF Registration, Progress, Ack, Request, InverterFrame, RequestFrame

---------------------------------------------------------------------------
(* The initial state *)

LEMMA InitInductive == Init => Inductive
<1> SUFFICES ASSUME Init PROVE Inductive
    OBVIOUS
<1>1. TypeOK
  <2>1. \A u \in Upload : job[u].session <= sessions
        BY DEF Init, NewJob
  <2>2. /\ sessions \in 0..MaxSessions /\ open \subseteq 1..sessions
        /\ bySerial \in 0..sessions /\ peer \in 0..sessions
        /\ registrations \in 0..MaxRegistrations /\ taken \in 0..Chunks + 1
        BY BoundAssumption, ChunksAssumption DEF Init
  <2>3. /\ uploader \in [Session -> Nat] /\ lock \in [Session -> Seq(Upload)]
        /\ down \in [Session -> Seq(RequestFrame)] /\ up \in [Session -> Seq(InverterFrame)]
        BY DEF Init
  <2>4. job \in [Upload -> Job]
        BY NewJobType DEF Init
  <2> QED
      BY <2>1, <2>2, <2>3, <2>4 DEF Init, TypeOK
<1>2. \A u \in Upload : job[u].at = "new" /\ job[u].session = 0 /\ job[u].queue = <<>>
                        /\ job[u].result = "none"
      BY DEF Init, NewJob
<1>3. \A s \in Session : up[s] = <<>> /\ down[s] = <<>> /\ lock[s] = <<>> /\ s # 0
      BY DEF Init, Session
<1>4. LockIsHeld /\ NothingUnasked /\ OneAtATime /\ AckIsCurrent
      BY <1>2, <1>3 DEF LockIsHeld, NothingUnasked, OneAtATime, AckIsCurrent, Running
<1>5. HeadIsExpected /\ RefusalIsGenuine
      BY <1>2, <1>3 DEF Init, HeadIsExpected, RefusalIsGenuine
<1>6. ReportsTruth
      BY <1>2 DEF ReportsTruth
<1>7. MismatchIsGenuine
      BY <1>2 DEF MismatchIsGenuine
<1>8. FlashIsOfStored
  <2> SUFFICES ASSUME NEW s \in Session PROVE ~FullProgress(s) /\ \A u \in Upload : ~Stored(s, u)
      BY DEF FlashIsOfStored
  <2>1. ~FullProgress(s)
        BY <1>2, <1>3 DEF FullProgress
  <2>2. ASSUME NEW u \in Upload PROVE ~Stored(s, u)
    <3>1. ~Acked(s, u, Chunks)
      <4>1. DOMAIN up[s] = {}
            BY <1>3
      <4> QED
          BY <4>1, Zenon DEF Acked
    <3> QED
        BY <1>2, <3>1, Zenon DEF Stored
  <2> QED
      BY <2>1, <2>2
<1> QED
    BY <1>1, <1>4, <1>5, <1>6, <1>7, <1>8 DEF Inductive

---------------------------------------------------------------------------
(* The end of an upload *)

\* The holder of a lock is the first in its queue.
LEMMA HolderFacts ==
    ASSUME TypeOK, LockIsHeld, NEW u \in Upload,
           \/ job[u].at \in Running
           \/ job[u].at = "queued" /\ Head(lock[job[u].session]) = u
    PROVE  /\ job[u].session \in 1..sessions /\ job[u].session \in Session
           /\ lock[job[u].session] \in Seq(Upload) /\ lock[job[u].session] # <<>>
           /\ lock[job[u].session][1] = u
<1>1. job[u].session \in 1..sessions /\ \E i \in DOMAIN lock[job[u].session] :
                                          lock[job[u].session][i] = u
      BY Zenon DEF LockIsHeld
<1>2. job[u].session \in Session
      BY <1>1, BoundAssumption DEF TypeOK, Session
<1>3. lock[job[u].session] \in Seq(Upload)
      BY <1>2 DEF TypeOK
<1>4. lock[job[u].session] # <<>>
      BY <1>1
<1>5. lock[job[u].session][1] = u
  <2>1. CASE job[u].at \in Running
        BY <2>1 DEF LockIsHeld
  <2>2. CASE Head(lock[job[u].session]) = u
        BY <2>2, <1>3, <1>4, Removed
  <2> QED
      BY <2>1, <2>2
<1> QED
    BY <1>1, <1>2, <1>3, <1>4, <1>5

\* Releasing the lock moves the queue up; nobody else was running.
LEMMA FinishLock ==
    ASSUME TypeOK, LockIsHeld, NEW u \in Upload, NEW result \in Result,
           \/ job[u].at \in Running
           \/ job[u].at = "queued" /\ Head(lock[job[u].session]) = u,
           Finish(u, result), sessions' = sessions
    PROVE  LockIsHeld'
<1> DEFINE s == job[u].session
<1>1. /\ s \in Session /\ lock[s] \in Seq(Upload) /\ lock[s] # <<>> /\ lock[s][1] = u
      BY HolderFacts
<1>2. /\ \A v \in Upload \ {u} : job'[v] = job[v]
      /\ job'[u].at = "answered"
      BY DEF TypeOK, Finish, Answer, NewJob
<1>3. /\ lock'[s] = Tail(lock[s])
      /\ \A x \in Session \ {s} : lock'[x] = lock[x]
      BY <1>1 DEF TypeOK, Finish
<1>4. /\ DOMAIN lock'[s] = 1..Len(lock[s]) - 1 /\ DOMAIN lock[s] = 1..Len(lock[s])
      /\ Len(lock[s]) \in Nat
      /\ \A i \in DOMAIN lock'[s] : i + 1 \in DOMAIN lock[s] /\ lock'[s][i] = lock[s][i + 1]
      BY <1>1, <1>3, Removed
<1>5. \A i, k \in DOMAIN lock[s] : lock[s][i] = lock[s][k] => i = k
      BY <1>1 DEF LockIsHeld
<1>6. \A v \in Upload : job'[v].at \in Running \cup {"queued"} => v # u
      BY <1>2 DEF Running
<1>7. ASSUME NEW v \in Upload, job'[v].at \in Running \cup {"queued"}
      PROVE  /\ job'[v].session \in 1..sessions'
             /\ \E i \in DOMAIN lock'[job'[v].session] : lock'[job'[v].session][i] = v
  <2>1. v # u /\ job'[v] = job[v]
        BY <1>2, <1>6, <1>7
  <2>2. job[v].session \in 1..sessions
        BY <1>7, <2>1 DEF LockIsHeld
  <2>3. PICK i \in DOMAIN lock[job[v].session] : lock[job[v].session][i] = v
        BY <1>7, <2>1 DEF LockIsHeld
  <2>4. CASE job[v].session = s
    <3>1. i # 1 /\ i \in 1..Len(lock[s])
          BY <1>1, <1>4, <2>1, <2>3, <2>4
    <3>2. i - 1 \in 1..Len(lock[s]) - 1 /\ (i - 1) + 1 = i
          BY <1>4, <3>1
    <3>3. i - 1 \in DOMAIN lock'[s] /\ lock'[s][i - 1] = v
          BY <1>4, <2>3, <2>4, <3>2
    <3> QED
        BY <2>1, <2>2, <2>4, <3>3
  <2>5. CASE job[v].session # s
    <3>1. job[v].session \in Session
          BY <2>2, BoundAssumption DEF TypeOK, Session
    <3> QED
        BY <1>3, <2>1, <2>2, <2>3, <2>5, <3>1
  <2> QED
      BY <2>4, <2>5
<1>8. ASSUME NEW v \in Upload, job'[v].at \in Running
      PROVE  lock'[job'[v].session][1] = v
  <2>1. v # u /\ job'[v] = job[v]
        BY <1>2, <1>6, <1>8
  <2>2. job[v].session \in 1..sessions /\ lock[job[v].session][1] = v
        BY <1>8, <2>1 DEF LockIsHeld
  <2>3. job[v].session # s
        BY <1>1, <2>1, <2>2
  <2>4. job[v].session \in Session
        BY <2>2, BoundAssumption DEF TypeOK, Session
  <2> QED
      BY <1>3, <2>1, <2>2, <2>3, <2>4
<1>9. ASSUME NEW x \in Session, NEW i \in DOMAIN lock'[x]
      PROVE  /\ job'[lock'[x][i]].at \in Running \cup {"queued"}
             /\ job'[lock'[x][i]].session = x
             /\ \A k \in DOMAIN lock'[x] : lock'[x][i] = lock'[x][k] => i = k
  <2>1. CASE x = s
    <3>1. i + 1 \in DOMAIN lock[s] /\ 1 \in DOMAIN lock[s] /\ lock'[x][i] = lock[s][i + 1]
          BY <1>1, <1>4, <1>9, <2>1, Removed
    <3>2. lock[s][i + 1] # u /\ lock[s][i + 1] \in Upload
      <4>1. lock[s][i + 1] = lock[s][1] => i + 1 = 1
            BY <1>5, <3>1
      <4>2. i \in 1..Len(lock[s]) - 1
            BY <1>4, <1>9, <2>1
      <4>3. i + 1 # 1
            BY <4>2, <1>4
      <4>4. lock[s][i + 1] \in Upload
            BY <1>1, <3>1
      <4> QED
          BY <1>1, <4>1, <4>3, <4>4
    <3>3. /\ job[lock[s][i + 1]].at \in Running \cup {"queued"}
          /\ job[lock[s][i + 1]].session = s
          BY <1>1, <3>1 DEF LockIsHeld
    <3>4. ASSUME NEW k \in DOMAIN lock'[x], lock'[x][i] = lock'[x][k] PROVE i = k
      <4>1. k + 1 \in DOMAIN lock[s] /\ lock'[x][k] = lock[s][k + 1]
            BY <1>4, <2>1
      <4>2. i + 1 = k + 1
        <5>1. lock[s][i + 1] = lock[s][k + 1]
              BY <3>1, <3>4, <4>1
        <5> QED
            BY <1>5, <3>1, <4>1, <5>1
      <4>3. i \in Nat /\ k \in Nat
            BY <1>4, <1>9, <2>1
      <4> QED
          BY <4>2, <4>3
    <3>5. job'[lock'[x][i]] = job[lock[s][i + 1]]
          BY <1>2, <3>1, <3>2
    <3> QED
        BY <2>1, <3>3, <3>4, <3>5
  <2>2. CASE x # s
    <3>1. lock'[x] = lock[x] /\ i \in DOMAIN lock[x] /\ lock[x] \in Seq(Upload)
          BY <1>3, <1>9, <2>2 DEF TypeOK
    <3>2. /\ job[lock[x][i]].at \in Running \cup {"queued"}
          /\ job[lock[x][i]].session = x
          /\ \A k \in DOMAIN lock[x] : lock[x][i] = lock[x][k] => i = k
          BY <3>1 DEF LockIsHeld
    <3>3. lock[x][i] # u /\ lock[x][i] \in Upload
          BY <2>2, <3>1, <3>2
    <3> QED
        BY <1>2, <3>1, <3>2, <3>3
  <2> QED
      BY <2>1, <2>2
<1> QED
    BY <1>7, <1>8, <1>9 DEF LockIsHeld

\* A client is answered: what is known of the others does not change.
LEMMA AnsweredKeeps ==
    ASSUME Inductive, NEW u \in Upload, NEW result \in Result,
           Answer(u, result),
           UNCHANGED <<sessions, open, bySerial, uploader, down, up, peer, receiving, taken,
                       flashing, percent, registrations, refused, complete, flashed>>,
           lock' \in [Session -> Seq(Upload)], LockIsHeld',
           result = "flashed" => u \in flashed, result = "mismatch" => u \in refused
    PROVE  Inductive'
<1> USE DEF Inductive
<1>1. UNCHANGED <<sessions, open, bySerial, uploader, down, up, peer, receiving, taken,
                  flashing, percent, registrations, refused, complete, flashed>>
      OBVIOUS
<1>2. /\ \A v \in Upload \ {u} : job'[v] = job[v]
      /\ job'[u] = [NewJob EXCEPT !.at = "answered", !.result = result]
      BY DEF TypeOK, Answer
<1>3. /\ job'[u].at = "answered" /\ job'[u].session = 0 /\ job'[u].queue = <<>>
      /\ job'[u].result = result
      BY <1>2 DEF NewJob
<1>4. TypeOK'
  <2>1. job' \in [Upload -> Job]
        BY NewJobType DEF TypeOK, Answer
  <2>2. \A v \in Upload : job'[v].session <= sessions
    <3>1. 0 <= sessions
          BY BoundAssumption DEF TypeOK
    <3> QED
        BY <1>2, <1>3, <3>1 DEF TypeOK
  <2> QED
      BY <1>1, <2>1, <2>2 DEF TypeOK
<1>5. LockIsHeld'
      OBVIOUS
<1>6. NothingUnasked'
  <2>1. ASSUME NEW r \in RequestFrame, Asked(r) PROVE Asked(r)'
        BY <1>2, <1>3, <2>1 DEF Asked, RequestFrame
  <2>2. ASSUME NEW x \in Session, NEW i \in DOMAIN up[x], up[x][i].kind = "ack"
        PROVE  up[x][i].request \in RequestFrame
        BY <2>2, FrameFields DEF TypeOK
  <2>3. ASSUME NEW x \in Session, NEW i \in DOMAIN down[x]
        PROVE  down[x][i] \in RequestFrame
        BY <2>3 DEF TypeOK
  <2> QED
      BY <1>1, <2>1, <2>2, <2>3 DEF NothingUnasked
<1>7. OneAtATime' /\ AckIsCurrent' /\ HeadIsExpected'
  <2>1. \A v \in Upload : job'[v].at \in Running => job'[v] = job[v]
        BY <1>2, <1>3 DEF Running
  <2>2. OneAtATime'
        BY <1>1, <2>1 DEF OneAtATime
  <2>3. AckIsCurrent'
    <3> SUFFICES ASSUME NEW v \in Upload, job'[v].at \in Running, job'[v].session = peer',
                        \/ job'[v].at = "got" /\ job'[v].good
                        \/ job'[v].at = "waiting" /\ Acked(peer, v, job[v].number)'
                 PROVE  down'[peer'] = <<>> /\ receiving' = v /\ taken' = job'[v].number + 1
        BY <2>1 DEF AckIsCurrent
    <3>1. job'[v] = job[v]
          BY <2>1
    <3>2. Acked(peer, v, job[v].number)' => Acked(peer, v, job[v].number)
          BY <1>1, <3>1 DEF Acked
    <3> QED
        BY <1>1, <3>1, <3>2 DEF AckIsCurrent
  <2>4. HeadIsExpected'
        BY <1>1 DEF HeadIsExpected, Expected
  <2> QED
      BY <2>2, <2>3, <2>4
<1>8. FlashIsOfStored'
  <2> SUFFICES ASSUME NEW x \in Session
               PROVE  /\ FullProgress(x)' => FullProgress(x)
                      /\ \A v \in Upload : Stored(x, v)' => Stored(x, v)
      BY <1>1 DEF FlashIsOfStored
  <2>1. ASSUME FullProgress(x)' PROVE FullProgress(x)
    <3>1. ASSUME NEW v \in Upload, job'[v].session = x,
                 NEW i \in DOMAIN job'[v].queue, job'[v].queue[i] = "full"
          PROVE  FullProgress(x)
      <4>1. v # u
            BY <1>3, <3>1 DEF Session
      <4> QED
          BY <1>2, <3>1, <4>1 DEF FullProgress
    <3> QED
        BY <1>1, <2>1, <3>1 DEF FullProgress
  <2>2. ASSUME NEW v \in Upload, Stored(x, v)' PROVE Stored(x, v)
    <3>1. Acked(x, v, Chunks)' => Acked(x, v, Chunks)
          BY <1>1 DEF Acked
    <3>2. v = u => job'[v].session # x
          BY <1>3 DEF Session
    <3> QED
        BY <1>2, <2>2, <3>1, <3>2 DEF Stored
  <2> QED
      BY <2>1, <2>2
<1>9. RefusalIsGenuine'
      BY <1>1, <1>2, <1>3 DEF RefusalIsGenuine
<1>10. ReportsTruth'
      BY <1>1, <1>2, <1>3 DEF ReportsTruth
<1>11. MismatchIsGenuine'
      BY <1>1, <1>2, <1>3 DEF MismatchIsGenuine
<1> QED
    BY <1>4, <1>5, <1>6, <1>7, <1>8, <1>9, <1>10, <1>11

LEMMA FailKeeps ==
    ASSUME Inductive, NEW u \in Upload, NEW result \in Result,
           \/ job[u].at \in Running
           \/ job[u].at = "queued" /\ Head(lock[job[u].session]) = u,
           Fail(u, result),
           result = "flashed" => u \in flashed, result = "mismatch" => u \in refused
    PROVE  Inductive'
<1> USE DEF Inductive
<1> DEFINE s == job[u].session
<1>1. /\ Finish(u, result)
      /\ UNCHANGED <<sessions, open, bySerial, uploader, down, up, peer, receiving, taken,
                     flashing, percent, registrations, refused, complete, flashed>>
      BY DEF Fail, inverter, history
<1>2. s \in Session /\ lock[s] \in Seq(Upload) /\ lock[s] # <<>>
      BY HolderFacts
<1>3. Tail(lock[s]) \in Seq(Upload)
      BY <1>2, Removed
<1>4. lock' \in [Session -> Seq(Upload)]
      BY <1>1, <1>2, <1>3 DEF TypeOK, Finish
<1>5. LockIsHeld'
      BY <1>1, FinishLock
<1> QED
    BY <1>1, <1>4, <1>5, AnsweredKeeps DEF Finish

---------------------------------------------------------------------------
(* A request is sent *)

\* The holder of the lock sends metadata first, then the chunk after the one
\* that was acknowledged.
LEMMA SentKeeps ==
    ASSUME Inductive, NEW u \in Upload, NEW j \in Job, NEW n \in 0..Chunks,
           Sent(u, j, n), j.session \in 1..sessions,
           \A v \in Upload \ {u} : job[v].at \in Running => job[v].session # j.session,
           \/ n = 0 /\ job[u].at \in {"new", "queued"}
           \/ job[u].at = "got" /\ job[u].good /\ n = job[u].number + 1 /\ j = job[u],
           j = job[u] \/ (j.queue = <<>> /\ j.result = "none"),
           lock' \in [Session -> Seq(Upload)], LockIsHeld'
    PROVE  Inductive'
<1> USE DEF Inductive
<1>1. UNCHANGED <<sessions, open, bySerial, uploader, up, peer, receiving, taken,
                  flashing, percent, registrations, refused, complete, flashed>>
      BY DEF Sent, inverter, history
<1>2. /\ \A v \in Upload \ {u} : job'[v] = job[v]
      /\ job'[u] = [j EXCEPT !.at = "waiting", !.number = n]
      BY DEF TypeOK, Sent
<1>3. /\ job'[u] \in Job /\ job'[u].at = "waiting" /\ job'[u].number = n
      /\ job'[u].session = j.session /\ job'[u].queue = j.queue
      /\ job'[u].result = j.result
      BY <1>2 DEF Job, Running
<1>4. /\ j.session \in Session /\ peer \in 0..sessions /\ sessions \in 0..MaxSessions
      BY BoundAssumption DEF TypeOK, Session
<1>5. Request(u, n) \in RequestFrame /\ Request(u, n).upload = u /\ Request(u, n).number = n
      BY FrameTypes
<1>6. /\ \A x \in Session : x = peer /\ x = j.session => down'[x] = Append(down[x], Request(u, n))
      /\ \A x \in Session : x # peer \/ x # j.session => down'[x] = down[x]
      BY DEF TypeOK, Sent
<1>7. \A x \in Session : /\ down[x] \in Seq(RequestFrame) /\ DOMAIN down[x] = 1..Len(down[x])
                          /\ Len(down[x]) \in Nat
      BY DEF TypeOK
<1>8. \A x \in Session : x = peer /\ x = j.session =>
          /\ down'[x] \in Seq(RequestFrame) /\ down'[x] # <<>>
          /\ DOMAIN down'[x] = 1..Len(down[x]) + 1 /\ Len(down'[x]) = Len(down[x]) + 1
          /\ \A i \in 1..Len(down[x]) : i \in DOMAIN down[x] /\ down'[x][i] = down[x][i]
          /\ down'[x][Len(down[x]) + 1] = Request(u, n)
  <2> SUFFICES ASSUME NEW x \in Session, x = peer /\ x = j.session
               PROVE  /\ down'[x] \in Seq(RequestFrame) /\ down'[x] # <<>>
                      /\ DOMAIN down'[x] = 1..Len(down[x]) + 1 /\ Len(down'[x]) = Len(down[x]) + 1
                      /\ \A i \in 1..Len(down[x]) : i \in DOMAIN down[x] /\ down'[x][i] = down[x][i]
                      /\ down'[x][Len(down[x]) + 1] = Request(u, n)
      BY Zenon
  <2>1. down'[x] = Append(down[x], Request(u, n)) /\ down[x] \in Seq(RequestFrame)
        BY <1>6, <1>7
  <2> QED
      BY <1>5, <2>1, Appended, SMTT(20)
<1>9. TypeOK'
  <2>1. down' \in [Session -> Seq(RequestFrame)]
    <3>1. \A x \in Session : down'[x] \in Seq(RequestFrame)
          BY <1>6, <1>7, <1>8
    <3>2. down' = [x \in Session |-> down'[x]]
          BY DEF Sent, TypeOK
    <3> QED
        BY <3>1, <3>2
  <2>2. job' \in [Upload -> Job]
        BY <1>2, <1>3 DEF TypeOK, Sent
  <2>3. \A v \in Upload : job'[v].session <= sessions
    <3>1. j.session <= sessions
          BY <1>4
    <3> QED
        BY <1>2, <1>3, <3>1 DEF TypeOK
  <2> QED
      BY <1>1, <2>1, <2>2, <2>3 DEF TypeOK
\* What u has asked for so far comes before this request.
<1>10. ASSUME NEW r \in RequestFrame, Asked(r)
       PROVE  /\ Asked(r)'
              /\ r # Request(u, n)
  <2>1. CASE r.upload = u
    <3>1. job[u].at = "got" /\ n = job[u].number + 1 /\ r.number <= job[u].number
          BY <1>10, <2>1 DEF Asked, Running
    <3>2. r.number \in Nat /\ job[u].number \in Nat /\ n \in Nat
          BY <1>3, ChunksAssumption DEF RequestFrame, TypeOK, Job
    <3>3. r.number <= n /\ r.number # n
          BY <3>1, <3>2
    <3> QED
        BY <1>3, <1>5, <2>1, <3>3 DEF Asked, Running
  <2>2. CASE r.upload # u
    <3>1. r.upload \in Upload
          BY DEF RequestFrame
    <3> QED
        BY <1>2, <1>5, <1>10, <2>2, <3>1 DEF Asked
  <2> QED
      BY <2>1, <2>2
<1>11. Asked(Request(u, n))'
       BY <1>3, <1>5, ChunksAssumption DEF Asked, Running
<1>12. /\ \A x \in Session : \A i \in DOMAIN down[x] :
             down[x][i] \in RequestFrame /\ Asked(down[x][i])
       /\ \A x \in Session : \A i \in DOMAIN up[x] : up[x][i].kind = "ack" =>
             up[x][i].request \in RequestFrame /\ Asked(up[x][i].request)
  <2>1. \A x \in Session : \A i \in DOMAIN down[x] : down[x][i] \in RequestFrame
        BY DEF TypeOK
  <2>2. \A x \in Session : \A i \in DOMAIN up[x] : up[x][i] \in InverterFrame
        BY DEF TypeOK
  <2>3. \A x \in Session : \A i \in DOMAIN up[x] : up[x][i].kind = "ack" =>
            up[x][i].request \in RequestFrame
        BY <2>2, FrameFields
  <2> QED
      BY <2>1, <2>3 DEF NothingUnasked
<1>13. NothingUnasked'
  <2> SUFFICES ASSUME NEW x \in Session
               PROVE  /\ \A i \in DOMAIN down'[x] : Asked(down[x][i])'
                      /\ x > sessions => down'[x] = <<>>
      BY <1>1, <1>10, <1>12 DEF NothingUnasked
  <2>1. CASE x = peer /\ x = j.session
    <3>1. x <= sessions
          BY <1>4, <2>1 DEF Session
    <3>2. ~(x > sessions)
          BY <1>4, <3>1, BoundAssumption DEF Session
    <3>3. ASSUME NEW i \in DOMAIN down'[x] PROVE Asked(down[x][i])'
      <4>1. CASE i \in 1..Len(down[x])
        <5>1. down'[x][i] = down[x][i] /\ i \in DOMAIN down[x]
              BY <1>8, <2>1, <4>1
        <5>2. Asked(down[x][i]) /\ down[x][i] \in RequestFrame
              BY <1>12, <5>1
        <5> QED
            BY <1>10, <5>1, <5>2 DEF Asked
      <4>2. CASE i = Len(down[x]) + 1
        <5>1. down'[x][i] = Request(u, n)
              BY <1>8, <2>1, <4>2
        <5> QED
            BY <1>11, <5>1 DEF Asked
      <4>3. i \in 1..Len(down[x]) \/ i = Len(down[x]) + 1
        <5>1. i \in 1..Len(down[x]) + 1 /\ Len(down[x]) \in Nat
              BY <1>7, <1>8, <2>1, <3>3
        <5> QED
            BY <5>1
      <4> QED
          BY <4>1, <4>2, <4>3
    <3> QED
        BY <3>2, <3>3
  <2>2. CASE x # peer \/ x # j.session
    <3>1. down'[x] = down[x]
          BY <1>6, <2>2
    <3>2. \A i \in DOMAIN down[x] : Asked(down[x][i])'
          BY <1>10, <1>12, <3>1 DEF Asked
    <3> QED
        BY <3>1, <3>2 DEF NothingUnasked
  <2> QED
      BY <2>1, <2>2
<1>14. OneAtATime'
  <2> SUFFICES ASSUME NEW x \in Session, NEW i \in DOMAIN down'[x]
               PROVE  /\ i > 1 => down'[x][i].number = 0
                      /\ \A v \in Upload :
                             (/\ job'[v].at \in Running /\ job'[v].session = x
                              /\ down'[x][i] = Request(v, job'[v].number)) => i = Len(down'[x])
      BY DEF OneAtATime
  <2>1. CASE x = peer /\ x = j.session
    <3>1. n # 0 => down[x] = <<>>
          BY <2>1 DEF AckIsCurrent, Running
    <3>2. CASE i \in 1..Len(down[x])
      <4>1. down'[x][i] = down[x][i] /\ i \in DOMAIN down[x]
            BY <1>8, <2>1, <3>2
      <4>2. down[x][i] # Request(u, n)
            BY <1>10, <1>12, <4>1
      <4>3. ASSUME NEW v \in Upload, job'[v].at \in Running, job'[v].session = x,
                   down'[x][i] = Request(v, job'[v].number)
            PROVE  FALSE
        <5>1. v # u
              BY <1>3, <4>1, <4>2, <4>3
        <5> QED
            BY <1>2, <2>1, <4>3, <5>1
      <4> QED
          BY <4>1, <4>3 DEF OneAtATime
    <3>3. CASE i = Len(down[x]) + 1
      <4>1. down'[x][i].number = n /\ Len(down'[x]) = i
            BY <1>5, <1>8, <2>1, <3>3
      <4>2. i > 1 => n = 0
            BY <1>7, <3>1, <3>3
      <4> QED
          BY <4>1, <4>2
    <3> QED
        BY <1>7, <1>8, <2>1, <3>2, <3>3, SMTT(20)
  <2>2. CASE x # peer \/ x # j.session
    <3>1. down'[x] = down[x]
          BY <1>6, <2>2
    <3>2. ASSUME NEW v \in Upload, job'[v].at \in Running, job'[v].session = x,
                 down'[x][i] = Request(v, job'[v].number)
          PROVE  i = Len(down'[x])
      <4>1. v # u
            BY <1>3, <1>10, <1>12, <3>1, <3>2
      <4> QED
          BY <1>2, <3>1, <3>2, <4>1 DEF OneAtATime
    <3> QED
        BY <3>1, <3>2 DEF OneAtATime
  <2> QED
      BY <2>1, <2>2
<1>15. AckIsCurrent'
  <2> SUFFICES ASSUME NEW v \in Upload, job'[v].at \in Running, job'[v].session = peer',
                      \/ job'[v].at = "got" /\ job'[v].good
                      \/ job'[v].at = "waiting" /\ Acked(peer, v, job[v].number)'
               PROVE  down'[peer'] = <<>> /\ receiving' = v /\ taken' = job'[v].number + 1
      BY DEF AckIsCurrent
  <2>1. v # u
    <3> SUFFICES ASSUME v = u PROVE FALSE
        OBVIOUS
    <3>1. Acked(peer, u, n)'
          BY <1>3 DEF Acked
    <3>2. PICK i \in DOMAIN up[peer] : up[peer][i] = Ack(Request(u, n), TRUE)
          BY <1>1, <3>1 DEF Acked
    <3>3. peer \in Session
          BY <1>1, <1>3, <1>4
    <3>4. up[peer][i].kind = "ack" /\ up[peer][i].request = Request(u, n)
      <4>1. /\ Ack(Request(u, n), TRUE).kind = "ack"
            /\ Ack(Request(u, n), TRUE).request = Request(u, n)
            BY <1>5, FrameTypes
      <4> QED
          BY <3>2, <4>1
    <3> QED
        BY <1>10, <1>12, <3>3, <3>4
  <2>2. job'[v] = job[v]
        BY <1>2, <2>1
  <2>3. Acked(peer, v, job[v].number)' => Acked(peer, v, job[v].number)
        BY <1>1, <2>2 DEF Acked
  <2>4. down[peer] = <<>> /\ receiving = v /\ taken = job[v].number + 1
        BY <1>1, <2>2, <2>3 DEF AckIsCurrent
  <2>5. peer # j.session /\ peer \in Session
    <3>1. job[v].session \in 1..sessions /\ peer = job[v].session
          BY <1>1, <2>2 DEF LockIsHeld
    <3> QED
        BY <1>4, <2>1, <2>2, <3>1, BoundAssumption DEF Session
  <2> QED
      BY <1>1, <1>6, <2>2, <2>4, <2>5
<1>16. HeadIsExpected'
  <2> SUFFICES ASSUME peer' # 0, down'[peer'] # <<>> PROVE Expected(Head(down[peer]))'
      BY DEF HeadIsExpected
  <2>1. peer \in Session /\ peer' = peer /\ receiving' = receiving /\ taken' = taken
        BY <1>1, <1>4, BoundAssumption DEF Session
  <2>2. CASE peer # j.session
        BY <1>6, <2>1, <2>2 DEF HeadIsExpected, Expected
  <2>3. CASE peer = j.session /\ down[peer] = <<>>
    <3>1. Head(down'[peer]) = Request(u, n)
          BY <1>6, <2>1, <2>3
    <3>2. n = 0 \/ (receiving = u /\ taken = n)
          BY <2>3 DEF AckIsCurrent, Running
    <3> QED
        BY <1>5, <2>1, <3>1, <3>2 DEF Expected
  <2>4. CASE peer = j.session /\ down[peer] # <<>>
    <3>1. Head(down'[peer]) = Head(down[peer])
      <4>1. down'[peer] = Append(down[peer], Request(u, n)) /\ down[peer] \in Seq(RequestFrame)
            BY <1>6, <1>7, <2>1, <2>4
      <4> QED
          BY <1>5, <2>4, <4>1
    <3> QED
        BY <2>1, <2>4, <3>1 DEF HeadIsExpected, Expected, Session
  <2> QED
      BY <2>2, <2>3, <2>4
<1>17. FlashIsOfStored'
  <2> SUFFICES ASSUME NEW x \in Session
               PROVE  /\ FullProgress(x)' => FullProgress(x)
                      /\ \A v \in Upload : Stored(x, v)' => Stored(x, v)
      BY <1>1 DEF FlashIsOfStored
  <2>1. ASSUME FullProgress(x)' PROVE FullProgress(x)
    <3>1. ASSUME NEW v \in Upload, job'[v].session = x,
                 NEW i \in DOMAIN job'[v].queue, job'[v].queue[i] = "full"
          PROVE  FullProgress(x)
      <4>1. job[v].session = x /\ job[v].queue = job'[v].queue
        <5>1. CASE v = u
          <6>1. j.queue # <<>>
                BY <1>3, <3>1, <5>1
          <6> QED
              BY <1>3, <3>1, <5>1, <6>1
        <5>2. CASE v # u
              BY <1>2, <3>1, <5>2
        <5> QED
            BY <5>1, <5>2
      <4> QED
          BY <3>1, <4>1 DEF FullProgress
    <3> QED
        BY <1>1, <2>1, <3>1 DEF FullProgress
  <2>2. ASSUME NEW v \in Upload, Stored(x, v)' PROVE Stored(x, v)
    <3>1. Acked(x, v, Chunks)' => Acked(x, v, Chunks)
          BY <1>1 DEF Acked
    <3> QED
        BY <1>2, <1>3, <2>2, <3>1 DEF Stored
  <2> QED
      BY <2>1, <2>2
<1>18. RefusalIsGenuine'
       BY <1>1, <1>2, <1>3 DEF RefusalIsGenuine
<1>19. job'[u].result = job[u].result \/ job'[u].result = "none"
       BY <1>3
<1>20. \A v \in Upload : \/ job'[v] = job[v]
                          \/ /\ job'[v].at = "waiting"
                             /\ job'[v].result = job[v].result \/ job'[v].result = "none"
       BY <1>2, <1>3, <1>19, Zenon
<1>21. ReportsTruth'
       BY <1>1, <1>20 DEF ReportsTruth
<1>22. MismatchIsGenuine'
       BY <1>1, <1>20 DEF MismatchIsGenuine
<1> QED
    BY <1>9, <1>13, <1>14, <1>15, <1>16, <1>17, <1>18, <1>21, <1>22

---------------------------------------------------------------------------
(* The tasks of the uploads *)

\* Steps that leave locks, Sessions and phases as they are.
LEMMA SameLock ==
    ASSUME LockIsHeld, TypeOK, lock' = lock, sessions' = sessions,
           \A u \in Upload :
               /\ job'[u].session = job[u].session
               /\ job'[u].at \in Running \cup {"queued"}
                  <=> job[u].at \in Running \cup {"queued"}
               /\ job'[u].at \in Running =>
                      job[u].at \in Running \/ lock[job[u].session][1] = u
    PROVE  LockIsHeld'
<1>2. \A s \in Session : \A i \in DOMAIN lock[s] : lock[s][i] \in Upload
      BY DEF TypeOK
<1>3. ASSUME NEW u \in Upload, job'[u].at \in Running \cup {"queued"}
      PROVE  /\ job'[u].session \in 1..sessions'
             /\ \E i \in DOMAIN lock'[job'[u].session] : lock'[job'[u].session][i] = u
      BY <1>3 DEF LockIsHeld
<1>4. \A u \in Upload : job'[u].at \in Running => lock'[job'[u].session][1] = u
      BY DEF LockIsHeld
<1>5. ASSUME NEW s \in Session, NEW i \in DOMAIN lock'[s]
      PROVE  /\ job'[lock'[s][i]].at \in Running \cup {"queued"}
             /\ job'[lock'[s][i]].session = s
             /\ \A k \in DOMAIN lock'[s] : lock'[s][i] = lock'[s][k] => i = k
  <2>1. /\ job[lock[s][i]].at \in Running \cup {"queued"}
        /\ job[lock[s][i]].session = s
        /\ \A k \in DOMAIN lock[s] : lock[s][i] = lock[s][k] => i = k
        BY <1>5 DEF LockIsHeld
  <2> QED
      BY <1>2, <1>5, <2>1
<1> QED
    BY <1>3, <1>4, <1>5, Zenon DEF LockIsHeld

\* A request queues for the lock, or gets it at once.
LEMMA QueuedLock ==
    ASSUME TypeOK, LockIsHeld, NEW u \in Upload, NEW s \in 1..sessions,
           job[u].at = "new", sessions' = sessions,
           lock' = [lock EXCEPT ![s] = Append(@, u)],
           \A v \in Upload \ {u} : job'[v] = job[v],
           job'[u].session = s,
           job'[u].at = "queued" \/ (job'[u].at \in Running /\ lock[s] = <<>>)
    PROVE  LockIsHeld'
<1>1. s \in Session
      BY BoundAssumption DEF TypeOK, Session
<1>2. /\ lock[s] \in Seq(Upload) /\ lock'[s] = Append(lock[s], u)
      /\ \A x \in Session \ {s} : lock'[x] = lock[x]
      BY <1>1 DEF TypeOK
<1>3. /\ DOMAIN lock'[s] = 1..Len(lock[s]) + 1 /\ Len(lock[s]) \in Nat
      /\ DOMAIN lock[s] = 1..Len(lock[s])
      /\ \A i \in 1..Len(lock[s]) : lock'[s][i] = lock[s][i]
      /\ lock'[s][Len(lock[s]) + 1] = u
      BY <1>2, Appended
<1>4. \A x \in Session : \A i \in DOMAIN lock[x] :
          lock[x][i] \in Upload /\ lock[x][i] # u
  <2>1. \A x \in Session : \A i \in DOMAIN lock[x] :
            lock[x][i] \in Upload /\ job[lock[x][i]].at \in Running \cup {"queued"}
        BY DEF LockIsHeld, TypeOK
  <2> QED
      BY <2>1 DEF Running
<1>5. ASSUME NEW v \in Upload, job'[v].at \in Running \cup {"queued"}
      PROVE  /\ job'[v].session \in 1..sessions'
             /\ \E i \in DOMAIN lock'[job'[v].session] : lock'[job'[v].session][i] = v
             /\ job'[v].at \in Running => lock'[job'[v].session][1] = v
  <2>1. CASE v = u
    <3>1. Len(lock[s]) + 1 \in DOMAIN lock'[s]
          BY <1>3
    <3>2. job'[v].at \in Running => Len(lock[s]) = 0
          BY <2>1 DEF Running
    <3> QED
        BY <1>3, <2>1, <3>1, <3>2
  <2>2. CASE v # u
    <3>1. job'[v] = job[v]
          BY <2>2
    <3>2. job[v].session \in 1..sessions /\ \E i \in DOMAIN lock[job[v].session] :
                                              lock[job[v].session][i] = v
          BY <1>5, <3>1 DEF LockIsHeld
    <3>3. job[v].session \in Session
          BY <3>2, BoundAssumption DEF TypeOK, Session
    <3>4. \A i \in DOMAIN lock[job[v].session] :
              /\ i \in DOMAIN lock'[job[v].session]
              /\ lock'[job[v].session][i] = lock[job[v].session][i]
          BY <1>2, <1>3, <3>3
    <3>5. \E i \in DOMAIN lock'[job[v].session] : lock'[job[v].session][i] = v
          BY <3>2, <3>4
    <3>6. job'[v].at \in Running => lock'[job[v].session][1] = v
      <4>1. lock[job[v].session] \in Seq(Upload)
            BY <3>3 DEF TypeOK
      <4>2. 1 \in DOMAIN lock[job[v].session]
            BY <3>2, <4>1
      <4> QED
          BY <3>1, <3>4, <4>2 DEF LockIsHeld
    <3> QED
        BY <3>1, <3>2, <3>5, <3>6
  <2> QED
      BY <2>1, <2>2
<1>6. ASSUME NEW x \in Session, NEW i \in DOMAIN lock'[x]
      PROVE  /\ job'[lock'[x][i]].at \in Running \cup {"queued"}
             /\ job'[lock'[x][i]].session = x
             /\ \A k \in DOMAIN lock'[x] : lock'[x][i] = lock'[x][k] => i = k
  <2>1. CASE x = s
    <3>1. ASSUME NEW k \in DOMAIN lock'[s]
          PROVE  \/ k \in DOMAIN lock[s] /\ lock'[s][k] = lock[s][k] /\ lock'[s][k] # u
                                        /\ lock[s][k] \in Upload
                 \/ k = Len(lock[s]) + 1 /\ lock'[s][k] = u
      <4>1. CASE k \in 1..Len(lock[s])
            BY <1>1, <1>3, <1>4, <4>1
      <4>2. CASE k = Len(lock[s]) + 1
            BY <1>3, <4>2
      <4> QED
          BY <1>3, <3>1, <4>1, <4>2
    <3>2. ASSUME NEW k \in DOMAIN lock'[s], lock'[s][i] = lock'[s][k] PROVE i = k
      <4>1. CASE i \in DOMAIN lock[s] /\ k \in DOMAIN lock[s]
                 /\ lock'[s][i] = lock[s][i] /\ lock'[s][k] = lock[s][k]
        <5>1. \A a, b \in DOMAIN lock[s] : lock[s][a] = lock[s][b] => a = b
              BY <1>1 DEF LockIsHeld
        <5> QED
            BY <3>2, <4>1, <5>1
      <4> QED
          BY <1>6, <2>1, <3>1, <3>2, <4>1
    <3>4. CASE i \in DOMAIN lock[s] /\ lock'[s][i] = lock[s][i] /\ lock'[s][i] # u
               /\ lock[s][i] \in Upload
      <4>1. job'[lock'[s][i]] = job[lock[s][i]]
            BY <3>4
      <4>2. /\ job[lock[s][i]].at \in Running \cup {"queued"}
            /\ job[lock[s][i]].session = s
            BY <1>1, <3>4 DEF LockIsHeld
      <4> QED
          BY <2>1, <3>2, <4>1, <4>2
    <3>5. /\ job'[lock'[s][i]].at \in Running \cup {"queued"}
          /\ job'[lock'[s][i]].session = s
      <4>1. CASE lock'[s][i] = u
            BY <4>1
      <4>2. CASE i \in DOMAIN lock[s] /\ lock'[s][i] = lock[s][i] /\ lock'[s][i] # u
                 /\ lock[s][i] \in Upload
            BY <3>4, <4>2, <2>1
      <4> QED
          BY <1>6, <2>1, <3>1, <4>1, <4>2
    <3> QED
        BY <2>1, <3>2, <3>5
  <2>2. CASE x # s
    <3>1. lock'[x] = lock[x]
          BY <1>2, <2>2
    <3>2. lock[x][i] \in Upload /\ lock[x][i] # u
          BY <1>4, <1>6, <3>1
    <3>3. /\ job[lock[x][i]].at \in Running \cup {"queued"}
          /\ job[lock[x][i]].session = x
          /\ \A k \in DOMAIN lock[x] : lock[x][i] = lock[x][k] => i = k
          BY <1>6, <3>1 DEF LockIsHeld
    <3> QED
        BY <3>1, <3>2, <3>3
  <2> QED
      BY <2>1, <2>2
<1> QED
    BY <1>5, <1>6 DEF LockIsHeld

\* Who is first in the queue of a lock is alone in running there.
LEMMA Alone ==
    ASSUME TypeOK, LockIsHeld, NEW u \in Upload, lock[job[u].session][1] = u
    PROVE  \A v \in Upload \ {u} : job[v].at \in Running => job[v].session # job[u].session
BY DEF LockIsHeld

\* A new job waits for the lock.
LEMMA QueueKeeps ==
    ASSUME Inductive, NEW u \in Upload, NEW j \in Job, job[u].at = "new",
           j.at = "queued", j.session \in 1..sessions, j.queue = <<>>, j.result = "none",
           job' = [job EXCEPT ![u] = j], lock' \in [Session -> Seq(Upload)], LockIsHeld',
           UNCHANGED <<sessions, open, bySerial, uploader, down, up, peer, inverter,
                       registrations, history>>
    PROVE  Inductive'
<1> USE DEF Inductive
<1>1. UNCHANGED <<sessions, open, bySerial, uploader, down, up, peer, receiving, taken,
                  flashing, percent, registrations, refused, complete, flashed>>
      BY DEF inverter, history
<1>2. (\A v \in Upload \ {u} : job'[v] = job[v]) /\ job'[u] = j
      BY DEF TypeOK
<1>3. TypeOK'
  <2>1. job' \in [Upload -> Job]
        BY DEF TypeOK
  <2>2. j.session <= sessions
        BY BoundAssumption DEF TypeOK
  <2> QED
      BY <1>1, <1>2, <2>1, <2>2 DEF TypeOK
<1>4. \A v \in Upload : job'[v].at \in Running => job'[v] = job[v]
      BY <1>2 DEF Running
<1>5. NothingUnasked'
  <2>1. ASSUME NEW r \in RequestFrame, Asked(r) PROVE Asked(r)'
        BY <1>2, <2>1 DEF Asked, RequestFrame, Running
  <2>2. ASSUME NEW x \in Session, NEW i \in DOMAIN up[x], up[x][i].kind = "ack"
        PROVE  up[x][i].request \in RequestFrame
        BY <2>2, FrameFields DEF TypeOK
  <2>3. ASSUME NEW x \in Session, NEW i \in DOMAIN down[x]
        PROVE  down[x][i] \in RequestFrame
        BY <2>3 DEF TypeOK
  <2> QED
      BY <1>1, <2>1, <2>2, <2>3 DEF NothingUnasked
<1>6. OneAtATime'
      BY <1>1, <1>4 DEF OneAtATime
<1>7. AckIsCurrent'
  <2> SUFFICES ASSUME NEW v \in Upload, job'[v].at \in Running, job'[v].session = peer',
                      \/ job'[v].at = "got" /\ job'[v].good
                      \/ job'[v].at = "waiting" /\ Acked(peer, v, job[v].number)'
               PROVE  down'[peer'] = <<>> /\ receiving' = v /\ taken' = job'[v].number + 1
      BY <1>4 DEF AckIsCurrent
  <2>1. job'[v] = job[v]
        BY <1>4
  <2>2. Acked(peer, v, job[v].number)' => Acked(peer, v, job[v].number)
        BY <1>1, <2>1 DEF Acked
  <2> QED
      BY <1>1, <2>1, <2>2 DEF AckIsCurrent
<1>8. HeadIsExpected'
      BY <1>1 DEF HeadIsExpected, Expected
<1>9. FlashIsOfStored'
  <2> SUFFICES ASSUME NEW x \in Session
               PROVE  /\ FullProgress(x)' => FullProgress(x)
                      /\ \A v \in Upload : Stored(x, v)' => Stored(x, v)
      BY <1>1 DEF FlashIsOfStored
  <2>1. ASSUME FullProgress(x)' PROVE FullProgress(x)
    <3>1. ASSUME NEW v \in Upload, job'[v].session = x,
                 NEW i \in DOMAIN job'[v].queue, job'[v].queue[i] = "full"
          PROVE  FullProgress(x)
      <4>1. v # u
            BY <1>2, <3>1
      <4> QED
          BY <1>2, <3>1, <4>1 DEF FullProgress
    <3> QED
        BY <1>1, <2>1, <3>1 DEF FullProgress
  <2>2. ASSUME NEW v \in Upload, Stored(x, v)' PROVE Stored(x, v)
    <3>1. Acked(x, v, Chunks)' => Acked(x, v, Chunks)
          BY <1>1 DEF Acked
    <3>2. v = u => job'[v].at = "queued"
          BY <1>2
    <3> QED
        BY <1>2, <2>2, <3>1, <3>2 DEF Stored
  <2> QED
      BY <2>1, <2>2
<1>10. RefusalIsGenuine'
       BY <1>1, <1>2 DEF RefusalIsGenuine
<1>11. ReportsTruth'
       BY <1>1, <1>2 DEF ReportsTruth
<1>12. MismatchIsGenuine'
       BY <1>1, <1>2 DEF MismatchIsGenuine
<1> QED
    BY <1>3, <1>5, <1>6, <1>7, <1>8, <1>9, <1>10, <1>11, <1>12

\* A request is refused, queued, or starts to send.
LEMMA RequestUploadKeeps ==
    ASSUME Inductive, NEW u \in Upload, RequestUpload(u)
    PROVE  Inductive'
<1>1. CASE bySerial = 0 /\ Refuse(u)
  <2>1. /\ Answer(u, "error") /\ lock' = lock /\ lock \in [Session -> Seq(Upload)]
        /\ UNCHANGED <<sessions, open, bySerial, uploader, down, up, peer, receiving, taken,
                       flashing, percent, registrations, refused, complete, flashed>>
        BY <1>1 DEF Refuse, gateway, inverter, history, Inductive, TypeOK
  <2>2. LockIsHeld'
    <3>1. /\ job'[u].at = "answered" /\ job[u].at = "new"
          /\ \A v \in Upload \ {u} : job'[v] = job[v]
          BY <2>1 DEF Answer, NewJob, RequestUpload, Inductive, TypeOK
    <3>2. \A v \in Upload : job'[v].at \in Running \cup {"queued"} => job'[v] = job[v]
          BY <3>1 DEF Running
    <3>3. \A x \in Session : \A i \in DOMAIN lock[x] : job'[lock[x][i]] = job[lock[x][i]]
      <4>1. ASSUME NEW x \in Session, NEW i \in DOMAIN lock[x]
            PROVE  lock[x][i] \in Upload /\ job[lock[x][i]].at # "new"
        <5>1. lock[x][i] \in Upload
              BY DEF Inductive, TypeOK
        <5>2. job[lock[x][i]].at \in Running \cup {"queued"}
              BY DEF Inductive, LockIsHeld
        <5> QED
            BY <5>1, <5>2 DEF Running
      <4> QED
          BY <3>1, <4>1
    <3>4. ASSUME NEW v \in Upload, job'[v].at \in Running \cup {"queued"}
          PROVE  /\ job'[v].session \in 1..sessions'
                 /\ \E i \in DOMAIN lock'[job'[v].session] : lock'[job'[v].session][i] = v
                 /\ job'[v].at \in Running => lock'[job'[v].session][1] = v
      <4>1. job'[v] = job[v]
            BY <3>2, <3>4
      <4> QED
          BY <2>1, <3>4, <4>1 DEF LockIsHeld, Inductive
    <3>5. ASSUME NEW x \in Session, NEW i \in DOMAIN lock'[x]
          PROVE  /\ job'[lock'[x][i]].at \in Running \cup {"queued"}
                 /\ job'[lock'[x][i]].session = x
                 /\ \A k \in DOMAIN lock'[x] : lock'[x][i] = lock'[x][k] => i = k
          BY <2>1, <3>3, <3>5 DEF LockIsHeld, Inductive
    <3> QED
        BY <3>4, <3>5 DEF LockIsHeld
  <2> QED
      BY <2>1, <2>2, AnsweredKeeps DEF Result
<1>2. ASSUME bySerial # 0, NEW dynamic \in BOOLEAN, NEW j,
             j = [NewJob EXCEPT !.at = "queued", !.session = bySerial,
                                !.uploader = uploader[bySerial], !.dynamic = dynamic],
             lock' = [lock EXCEPT ![bySerial] = Append(@, u)],
             IF lock[bySerial] = <<>>
             THEN Sent(u, j, 0)
             ELSE /\ job' = [job EXCEPT ![u] = j]
                  /\ UNCHANGED <<sessions, open, bySerial, uploader, down, up,
                                 peer, inverter, registrations, history>>
      PROVE  Inductive'
  <2>1. bySerial \in 1..sessions /\ bySerial \in Session /\ job[u].at = "new"
    <3>1. bySerial \in 1..sessions /\ bySerial \in 1..MaxSessions
          BY <1>2, BoundAssumption DEF Inductive, TypeOK
    <3> QED
        BY <3>1 DEF Session, RequestUpload
  <2>2. uploader[bySerial] \in Nat /\ 0 \in 0..Chunks /\ bySerial \in 0..MaxSessions
        BY <2>1, ChunksAssumption, BoundAssumption DEF Inductive, TypeOK, Session
  <2>3. /\ j \in Job /\ j.at = "queued" /\ j.session = bySerial /\ j.queue = <<>>
        /\ j.result = "none"
        BY <1>2, <2>2, NewJobType DEF NewJob, Job
  <2>4. lock' \in [Session -> Seq(Upload)]
    <3>1. Append(lock[bySerial], u) \in Seq(Upload)
          BY <2>1, Appended DEF Inductive, TypeOK
    <3> QED
        BY <1>2, <2>1, <3>1 DEF Inductive, TypeOK
  <2>5. CASE lock[bySerial] = <<>>
    <3>1. Sent(u, j, 0)
          BY <1>2, <2>5
    <3>2. /\ \A v \in Upload \ {u} : job'[v] = job[v]
          /\ job'[u].at = "waiting" /\ job'[u].session = bySerial /\ sessions' = sessions
          BY <2>3, <3>1 DEF Sent, Inductive, TypeOK, Job
    <3>3. LockIsHeld'
          BY <1>2, <2>1, <2>5, <3>2, QueuedLock DEF Running, Inductive
    <3>4. \A v \in Upload \ {u} : job[v].at \in Running => job[v].session # j.session
      <4>1. ASSUME NEW v \in Upload, job[v].at \in Running
            PROVE  lock[job[v].session] # <<>>
            BY <4>1 DEF Inductive, LockIsHeld
      <4> QED
          BY <2>3, <2>5, <4>1
    <3> QED
        BY <2>1, <2>2, <2>3, <2>4, <3>1, <3>3, <3>4, SentKeeps
  <2>6. CASE lock[bySerial] # <<>>
    <3>1. /\ job' = [job EXCEPT ![u] = j]
          /\ UNCHANGED <<sessions, open, bySerial, uploader, down, up,
                         peer, inverter, registrations, history>>
          BY <1>2, <2>6
    <3>2. (\A v \in Upload \ {u} : job'[v] = job[v]) /\ job'[u] = j
          BY <3>1 DEF Inductive, TypeOK
    <3>3. LockIsHeld'
          BY <1>2, <2>1, <2>3, <3>1, <3>2, QueuedLock DEF Inductive
    <3> QED
        BY <2>1, <2>3, <2>4, <3>1, <3>3, QueueKeeps
  <2> QED
      BY <2>5, <2>6
<1> QED
    BY <1>1, <1>2 DEF RequestUpload

---------------------------------------------------------------------------
(* Frames are read and compared *)

\* What a task or a Session does with the frames that came on a connection:
\* the new states of the jobs follow from the old ones and from frames read.
LEMMA ReadingKeeps ==
    ASSUME Inductive, TypeOK',
           UNCHANGED <<sessions, lock, down, peer, inverter, registrations, history>>,
           \A x \in Session : \A i \in DOMAIN up'[x] :
               \E k \in DOMAIN up[x] : up'[x][i] = up[x][k],
           \A u \in Upload :
               /\ job'[u].session = job[u].session /\ job'[u].number = job[u].number
               /\ job'[u].result = job[u].result
               /\ \/ job'[u].at = job[u].at
                  \/ job'[u].at \in Running /\ job[u].at \in Running
               /\ job'[u].at = "waiting" => job[u].at = "waiting"
               /\ job'[u].at = "got" /\ job'[u].good =>
                      \/ job[u].at = "got" /\ job[u].good
                      \/ job[u].at = "waiting" /\ Acked(job[u].session, u, job[u].number)
               /\ job'[u].at = "got" /\ ~job'[u].good => u \in refused
               /\ job'[u].at = "progress" =>
                      \/ job[u].at = "progress"
                      \/ job[u].at = "got" /\ job[u].good /\ job[u].number = Chunks,
           \A u \in Upload : \A i \in DOMAIN job'[u].queue : job'[u].queue[i] = "full" =>
               \/ \E k \in DOMAIN job[u].queue : job[u].queue[k] = "full"
               \/ \E k \in DOMAIN up[job[u].session] :
                      /\ up[job[u].session][k].kind = "progress"
                      /\ up[job[u].session][k].percent = "full"
    PROVE  Inductive'
<1> USE DEF Inductive
<1>1. UNCHANGED <<sessions, lock, down, peer, receiving, taken, flashing, percent,
                  registrations, refused, complete, flashed>>
      BY DEF inverter, history
<1>2. LockIsHeld'
  <2>1. \A u \in Upload :
            /\ job'[u].at \in Running \cup {"queued"} <=> job[u].at \in Running \cup {"queued"}
            /\ job'[u].at \in Running => job[u].at \in Running
        BY Zenon DEF Running
  <2> QED
      BY <1>1, <2>1, SameLock
<1>3. ASSUME NEW s \in Session, NEW u \in Upload, NEW n, Acked(s, u, n)'
      PROVE  Acked(s, u, n)
      BY <1>3, Zenon DEF Acked
<1>4. NothingUnasked'
  <2>1. ASSUME NEW r \in RequestFrame, Asked(r) PROVE Asked(r)'
    <3>1. r.upload \in Upload
          BY DEF RequestFrame
    <3>2. "answered" \notin Running
          BY DEF Running
    <3> QED
        BY <2>1, <3>1, <3>2, Zenon DEF Asked
  <2>2. ASSUME NEW x \in Session, NEW i \in DOMAIN down'[x] PROVE Asked(down[x][i])'
    <3>1. down[x][i] \in RequestFrame /\ Asked(down[x][i])
          BY <1>1, <2>2 DEF NothingUnasked, TypeOK
    <3> QED
        BY <1>1, <2>1, <3>1 DEF Asked
  <2>3. ASSUME NEW x \in Session, NEW i \in DOMAIN up'[x], up'[x][i].kind = "ack"
        PROVE  Asked(up[x][i].request)'
    <3>1. PICK k \in DOMAIN up[x] : up'[x][i] = up[x][k]
          BY <2>3
    <3>2. up[x][k].request \in RequestFrame /\ Asked(up[x][k].request)
      <4>1. up[x][k] \in InverterFrame
            BY DEF TypeOK
      <4> QED
          BY <2>3, <3>1, <4>1, FrameFields DEF NothingUnasked
    <3> QED
        BY <2>1, <3>1, <3>2 DEF Asked
  <2>4. ASSUME NEW x \in Session, x > sessions' PROVE down'[x] = <<>> /\ up'[x] = <<>>
    <3>1. down[x] = <<>> /\ up[x] = <<>>
          BY <1>1, <2>4 DEF NothingUnasked
    <3>2. DOMAIN up'[x] = {}
          BY <3>1
    <3>3. up'[x] \in Seq(InverterFrame)
          BY DEF TypeOK
    <3>4. up'[x] = <<>>
          BY <3>2, <3>3
    <3> QED
        BY <1>1, <3>1, <3>4
  <2> QED
      BY <2>2, <2>3, <2>4 DEF NothingUnasked
<1>5. OneAtATime'
      BY <1>1 DEF OneAtATime, Running
<1>6. AckIsCurrent'
  <2> SUFFICES ASSUME NEW v \in Upload, job'[v].at \in Running, job'[v].session = peer',
                      \/ job'[v].at = "got" /\ job'[v].good
                      \/ job'[v].at = "waiting" /\ Acked(peer, v, job[v].number)'
               PROVE  down'[peer'] = <<>> /\ receiving' = v /\ taken' = job'[v].number + 1
      BY DEF AckIsCurrent
  <2>1. job[v].at \in Running /\ job[v].session = peer /\ job'[v].number = job[v].number
        BY <1>1 DEF Running
  <2>2. peer \in Session
    <3>1. peer \in 1..sessions
          BY <2>1 DEF LockIsHeld
    <3> QED
        BY <3>1, BoundAssumption DEF TypeOK, Session
  <2>3. \/ job[v].at = "got" /\ job[v].good
        \/ job[v].at = "waiting" /\ Acked(peer, v, job[v].number)
    <3>1. Acked(peer, v, job[v].number)' => Acked(peer, v, job[v].number)
      <4>1. Acked(peer, v, job[v].number)' =>
                \E i \in DOMAIN up'[peer] : up'[peer][i] = Ack(Request(v, job[v].number), TRUE)
            BY <1>1, <2>1 DEF Acked
      <4> QED
          BY <2>2, <4>1, Zenon DEF Acked
    <3>2. CASE job'[v].at = "got" /\ job'[v].good
          BY <2>1, <3>2
    <3>3. CASE job'[v].at = "waiting" /\ Acked(peer, v, job[v].number)'
          BY <3>1, <3>3
    <3> QED
        BY <3>2, <3>3
  <2> QED
      BY <1>1, <2>1, <2>3 DEF AckIsCurrent
<1>7. HeadIsExpected'
      BY <1>1 DEF HeadIsExpected, Expected
<1>8. ASSUME NEW x \in Session, NEW u \in Upload, Stored(x, u)' PROVE Stored(x, u)
  <2>1. CASE Acked(x, u, Chunks)'
        BY <1>3, <2>1 DEF Stored
  <2>2. CASE job'[u].session = x /\ job'[u].at = "progress"
        BY <2>2 DEF Stored
  <2>3. CASE job'[u].session = x /\ job'[u].at = "got" /\ job'[u].good /\ job'[u].number = Chunks
        BY <2>3 DEF Stored
  <2> QED
      BY <1>8, <2>1, <2>2, <2>3 DEF Stored
<1>9. ASSUME NEW x \in Session, FullProgress(x)' PROVE FullProgress(x)
  <2>1. CASE \E i \in DOMAIN up'[x] : up'[x][i].kind = "progress" /\ up'[x][i].percent = "full"
        BY <2>1 DEF FullProgress
  <2>2. CASE \E u \in Upload : job'[u].session = x
                               /\ \E i \in DOMAIN job'[u].queue : job'[u].queue[i] = "full"
    <3>1. PICK u \in Upload : job'[u].session = x
                              /\ \E i \in DOMAIN job'[u].queue : job'[u].queue[i] = "full"
          BY <2>2
    <3>2. job[u].session = x
          BY <3>1
    <3>3. \/ \E k \in DOMAIN job[u].queue : job[u].queue[k] = "full"
          \/ \E k \in DOMAIN up[job[u].session] :
                 /\ up[job[u].session][k].kind = "progress"
                 /\ up[job[u].session][k].percent = "full"
          BY <3>1
    <3> QED
        BY <3>2, <3>3, Zenon DEF FullProgress
  <2> QED
      BY <1>9, <2>1, <2>2 DEF FullProgress
<1>10. FlashIsOfStored'
       BY <1>1, <1>8, <1>9 DEF FlashIsOfStored
<1>11. RefusalIsGenuine'
       BY <1>1 DEF RefusalIsGenuine
<1>12. ReportsTruth'
  <2> SUFFICES ASSUME NEW u \in Upload
               PROVE  /\ job'[u].at = "progress" => u \in complete'
                      /\ job'[u].result = "flashed" => u \in flashed'
      BY DEF ReportsTruth
  <2>1. job[u].result = "flashed" => u \in flashed
        BY DEF ReportsTruth
  <2>2. ASSUME job'[u].at = "progress" PROVE u \in complete
    <3>1. job[u].at \in Running
          BY <2>2 DEF Running
    <3>2. job[u].session \in Session
          BY <3>1, HolderFacts
    <3>3. Stored(job[u].session, u)
          BY <2>2 DEF Stored
    <3> QED
        BY <3>2, <3>3 DEF FlashIsOfStored
  <2> QED
      BY <1>1, <2>1, <2>2
<1>13. MismatchIsGenuine'
       BY <1>1 DEF MismatchIsGenuine
<1> QED
    BY <1>2, <1>4, <1>5, <1>6, <1>7, <1>10, <1>11, <1>12, <1>13

\* The tasks of the uploads: start after waiting, go on after an answer, give up.
LEMMA StartQueuedKeeps ==
    ASSUME Inductive, NEW u \in Upload, StartQueued(u)
    PROVE  Inductive'
<1>1. /\ job[u].at = "queued" /\ Head(lock[job[u].session]) = u
      /\ TypeOK /\ LockIsHeld
      BY DEF StartQueued, Inductive
<1>2. CASE Fail(u, "error")
      BY <1>1, <1>2, FailKeeps DEF Result
<1>3. ASSUME NEW j, j = job[u], Sent(u, j, 0), UNCHANGED lock
      PROVE  Inductive'
  <2>1. /\ job[u].session \in 1..sessions /\ lock[job[u].session][1] = u
        BY <1>1, HolderFacts
  <2>2. \A v \in Upload \ {u} : job[v].at \in Running => job[v].session # job[u].session
        BY <1>1, <2>1, Alone
  <2>3. job[u] \in Job /\ 0 \in 0..Chunks /\ lock' \in [Session -> Seq(Upload)]
        BY <1>1, <1>3, ChunksAssumption DEF TypeOK
  <2>4. /\ sessions' = sessions
        /\ \A v \in Upload \ {u} : job'[v] = job[v]
        /\ job'[u].at = "waiting" /\ job'[u].session = job[u].session
        BY <1>1, <1>3, <2>3 DEF Sent, TypeOK, Job
  <2>5. \A v \in Upload :
            /\ job'[v].session = job[v].session
            /\ job'[v].at \in Running \cup {"queued"} <=> job[v].at \in Running \cup {"queued"}
            /\ job'[v].at \in Running =>
                   job[v].at \in Running \/ lock[job[v].session][1] = v
        BY <1>1, <2>1, <2>4 DEF Running
  <2>6. LockIsHeld'
        BY <1>1, <1>3, <2>4, <2>5, SameLock
  <2> QED
    <3>1. /\ j \in Job /\ 0 \in 0..Chunks /\ Sent(u, j, 0) /\ j.session \in 1..sessions
          /\ \A v \in Upload \ {u} : job[v].at \in Running => job[v].session # j.session
          BY <1>1, <1>3, <2>1, <2>2, <2>3
    <3> QED
        BY <1>1, <1>3, <3>1, <2>3, <2>6, SentKeeps
<1> QED
    BY <1>2, <1>3 DEF StartQueued, Send, Sent

LEMMA ResumeKeeps ==
    ASSUME Inductive, NEW u \in Upload, Resume(u)
    PROVE  Inductive'
<1>1. job[u].at = "got" /\ job[u].at \in Running /\ TypeOK /\ LockIsHeld /\ job[u] \in Job
      BY DEF Resume, Inductive, Running, TypeOK
<1>2. CASE ~job[u].good /\ Fail(u, "mismatch")
  <2>1. u \in refused
        BY <1>1, <1>2 DEF Inductive, RefusalIsGenuine
  <2> QED
      BY <1>1, <1>2, <2>1, FailKeeps DEF Result
<1>3. CASE Fail(u, "error")
      BY <1>1, <1>3, FailKeeps DEF Result
<1>4. ASSUME job[u].good, job[u].number < Chunks, NEW j, j = job[u],
             NEW n, n = job[u].number + 1, Sent(u, j, n), UNCHANGED lock
      PROVE  Inductive'
  <2>1. /\ job[u].session \in 1..sessions /\ lock[job[u].session][1] = u
        BY <1>1, HolderFacts
  <2>2. \A v \in Upload \ {u} : job[v].at \in Running => job[v].session # job[u].session
        BY <1>1, <2>1, Alone
  <2>3. job[u].number + 1 \in 0..Chunks
        BY <1>1, <1>4, ChunksAssumption DEF Job
  <2>4. lock' \in [Session -> Seq(Upload)]
        BY <1>1, <1>4 DEF TypeOK
  <2>5. /\ sessions' = sessions
        /\ \A v \in Upload \ {u} : job'[v] = job[v]
        /\ job'[u].at = "waiting" /\ job'[u].session = job[u].session
        BY <1>1, <1>4 DEF Sent, TypeOK, Job
  <2>6. \A v \in Upload :
            /\ job'[v].session = job[v].session
            /\ job'[v].at \in Running \cup {"queued"} <=> job[v].at \in Running \cup {"queued"}
            /\ job'[v].at \in Running =>
                   job[v].at \in Running \/ lock[job[v].session][1] = v
        BY <1>1, <2>5 DEF Running
  <2>7. LockIsHeld'
        BY <1>1, <1>4, <2>5, <2>6, SameLock
  <2> QED
    <3>1. /\ j \in Job /\ n \in 0..Chunks /\ Sent(u, j, n) /\ j.session \in 1..sessions
          /\ \A v \in Upload \ {u} : job[v].at \in Running => job[v].session # j.session
          BY <1>1, <1>4, <2>1, <2>2, <2>3
    <3> QED
        BY <1>1, <1>4, <3>1, <2>4, <2>7, SentKeeps
<1>5. CASE /\ job[u].good /\ job[u].number = Chunks
           /\ job' = [job EXCEPT ![u].at = "progress"]
           /\ UNCHANGED <<gateway, down, up, peer, inverter, registrations, history>>
  <2>1. /\ \A v \in Upload \ {u} : job'[v] = job[v]
        /\ job'[u] = [job[u] EXCEPT !.at = "progress"]
        BY <1>1, <1>5 DEF TypeOK
  <2>2. /\ job'[u] \in Job /\ job'[u].at = "progress" /\ job'[u].session = job[u].session
        /\ job'[u].number = job[u].number /\ job'[u].result = job[u].result
        /\ job'[u].queue = job[u].queue
        BY <1>1, <2>1 DEF Job, Running
  <2>3. UNCHANGED <<sessions, open, bySerial, uploader, lock, down, up, peer, inverter,
                    receiving, taken, flashing, percent, registrations, history,
                    refused, complete, flashed>>
        BY <1>5 DEF gateway, inverter, history
  <2>4. TypeOK'
    <3>1. job' \in [Upload -> Job]
          BY <1>1, <1>5, <2>2 DEF TypeOK
    <3>2. \A v \in Upload : job'[v].session <= sessions
          BY <1>1, <2>1, <2>2 DEF TypeOK
    <3> QED
        BY <1>1, <2>3, <3>1, <3>2 DEF TypeOK
  <2>5. \A v \in Upload :
            v # u => job'[v] = job[v] /\ (job[v].at = "got" /\ ~job[v].good => v \in refused)
        BY <2>1 DEF Inductive, RefusalIsGenuine
  <2> QED
      BY <1>1, <1>5, <2>1, <2>2, <2>3, <2>4, <2>5, ReadingKeeps DEF Running
<1> QED
    BY <1>2, <1>3, <1>4, <1>5 DEF Resume, Send, Sent

LEMMA ReadProgressKeeps ==
    ASSUME Inductive, NEW u \in Upload, ReadProgress(u)
    PROVE  Inductive'
<1>1. /\ job[u].at = "progress" /\ job[u].at \in Running /\ TypeOK /\ LockIsHeld
      /\ job[u] \in Job /\ job[u].queue # <<>> /\ job[u].queue \in Seq(Percent)
  <2>1. TypeOK /\ LockIsHeld /\ job[u] \in Job
        BY DEF Inductive, TypeOK
  <2> QED
      BY <2>1, JobFields DEF ReadProgress, Running
<1>2. CASE Head(job[u].queue) = "full" /\ Fail(u, "flashed")
  <2>1. job[u].session \in Session
        BY <1>1, HolderFacts
  <2>2. 1 \in DOMAIN job[u].queue /\ job[u].queue[1] = "full"
        BY <1>1, <1>2, Removed
  <2>3. Stored(job[u].session, u) /\ FullProgress(job[u].session)
        BY <1>1, <2>2 DEF Stored, FullProgress
  <2>4. u \in flashed
        BY <2>1, <2>3 DEF Inductive, FlashIsOfStored
  <2> QED
      BY <1>1, <1>2, <2>4, FailKeeps DEF Result
<1>3. CASE /\ job' = [job EXCEPT ![u].queue = Tail(@)]
           /\ UNCHANGED <<gateway, down, up, peer, inverter, registrations, history>>
  <2>1. /\ \A v \in Upload \ {u} : job'[v] = job[v]
        /\ job'[u] = [job[u] EXCEPT !.queue = Tail(@)]
        BY <1>1, <1>3 DEF TypeOK
  <2>2. /\ Tail(job[u].queue) \in Seq(Percent)
        /\ \A i \in DOMAIN Tail(job[u].queue) :
               \E k \in DOMAIN job[u].queue : Tail(job[u].queue)[i] = job[u].queue[k]
        BY <1>1, Removed
  <2>3. /\ job'[u] \in Job /\ job'[u].at = job[u].at /\ job'[u].session = job[u].session
        /\ job'[u].number = job[u].number /\ job'[u].result = job[u].result
        /\ job'[u].good = job[u].good /\ job'[u].queue = Tail(job[u].queue)
        BY <1>1, <2>1, <2>2 DEF Job
  <2>4. UNCHANGED <<sessions, open, bySerial, uploader, lock, down, up, peer, inverter,
                    receiving, taken, flashing, percent, registrations, history,
                    refused, complete, flashed>>
        BY <1>3 DEF gateway, inverter, history
  <2>5. TypeOK'
    <3>1. job' \in [Upload -> Job]
          BY <1>1, <1>3, <2>3, <2>1 DEF TypeOK
    <3>2. \A v \in Upload : job'[v].session <= sessions
          BY <1>1, <2>1, <2>3 DEF TypeOK
    <3> QED
        BY <1>1, <2>4, <3>1, <3>2 DEF TypeOK
  <2>6. \A v \in Upload :
            /\ job'[v].at = job[v].at /\ job'[v].good = job[v].good
            /\ job'[v].session = job[v].session /\ job'[v].number = job[v].number
            /\ job'[v].result = job[v].result
            /\ job'[v].at = "got" /\ ~job'[v].good => v \in refused
        BY <2>1, <2>3 DEF Inductive, RefusalIsGenuine
  <2>7. \A v \in Upload : \A i \in DOMAIN job'[v].queue :
            \E k \in DOMAIN job[v].queue : job'[v].queue[i] = job[v].queue[k]
    <3>1. ASSUME NEW v \in Upload, NEW i \in DOMAIN job'[v].queue
          PROVE  \E k \in DOMAIN job[v].queue : job'[v].queue[i] = job[v].queue[k]
      <4>1. CASE v = u
            BY <2>2, <2>3, <3>1, <4>1
      <4>2. CASE v # u
            BY <2>1, <3>1, <4>2
      <4> QED
          BY <4>1, <4>2
    <3> QED
        BY <3>1
  <2>8. \A v \in Upload : \A i \in DOMAIN job'[v].queue : job'[v].queue[i] = "full" =>
            \E k \in DOMAIN job[v].queue : job[v].queue[k] = "full"
        BY <2>7
  <2> QED
      BY <2>4, <2>5, <2>6, <2>8, ReadingKeeps
<1> QED
    BY <1>2, <1>3 DEF ReadProgress

LEMMA TimeoutKeeps ==
    ASSUME Inductive, NEW u \in Upload, Timeout(u)
    PROVE  Inductive'
BY FailKeeps DEF Timeout, Result

---------------------------------------------------------------------------
(* The Session: a frame is handled, the connection ends *)

LEMMA HandleFrameKeeps ==
    ASSUME Inductive, NEW s \in Session, HandleFrame(s)
    PROVE  Inductive'
<1>1. /\ TypeOK /\ s \in open /\ up[s] # <<>> /\ up[s] \in Seq(InverterFrame)
      /\ up' = [up EXCEPT ![s] = Tail(@)]
      BY DEF HandleFrame, Inductive, TypeOK
<1>2. /\ Head(up[s]) \in InverterFrame /\ Head(up[s]) = up[s][1] /\ 1 \in DOMAIN up[s]
      /\ Tail(up[s]) \in Seq(InverterFrame)
      /\ \A i \in DOMAIN Tail(up[s]) : \E k \in DOMAIN up[s] : Tail(up[s])[i] = up[s][k]
      BY <1>1, Removed
<1>3. /\ up'[s] = Tail(up[s]) /\ \A x \in Session \ {s} : up'[x] = up[x]
      /\ up' \in [Session -> Seq(InverterFrame)]
      BY <1>1, <1>2 DEF TypeOK
<1>4. ASSUME NEW x \in Session, NEW i \in DOMAIN up'[x]
      PROVE  \E k \in DOMAIN up[x] : up'[x][i] = up[x][k]
  <2>1. CASE x = s
        BY <1>2, <1>3, <1>4, <2>1
  <2>2. CASE x # s
        BY <1>3, <1>4, <2>2
  <2> QED
      BY <2>1, <2>2
<1>5. UNCHANGED <<sessions, open, lock, down, peer, inverter, receiving, taken, flashing,
                  percent, registrations, history, refused, complete, flashed>>
      BY DEF HandleFrame, inverter, history
<1>6. CASE Head(up[s]).kind = "registration"
  <2>1. uploader' = [uploader EXCEPT ![s] = @ + 1] /\ bySerial' = s /\ job' = job
        BY <1>6 DEF HandleFrame
  <2>2. TypeOK'
    <3>1. s \in 0..sessions
          BY <1>1, BoundAssumption DEF TypeOK
    <3>2. uploader' \in [Session -> Nat]
          BY <1>1, <2>1 DEF TypeOK
    <3> QED
        BY <1>1, <1>3, <1>5, <2>1, <3>1, <3>2 DEF TypeOK
  <2>3. \A u \in Upload : job[u].at = "got" /\ ~job[u].good => u \in refused
        BY DEF Inductive, RefusalIsGenuine
  <2> QED
      BY <1>4, <1>5, <2>1, <2>2, <2>3, ReadingKeeps
<1>7. CASE Head(up[s]).kind # "registration"
  <2> DEFINE f == Head(up[s])
  <2>1. /\ UNCHANGED <<uploader, bySerial>>
        /\ job' = [u \in Upload |-> IF u \in ActiveJobs(s) /\ Hears(u, f)
                                    THEN Heard(job[u], f) ELSE job[u]]
        BY <1>7 DEF HandleFrame
  <2>2. ASSUME NEW u \in Upload, f.kind = "progress"
        PROVE  /\ Heard(job[u], f) \in Job
               /\ Heard(job[u], f) = [job[u] EXCEPT !.queue = Append(@, f.percent)]
               /\ Heard(job[u], f).queue = Append(job[u].queue, f.percent)
               /\ Heard(job[u], f).session = job[u].session
               /\ Heard(job[u], f).number = job[u].number
               /\ Heard(job[u], f).result = job[u].result
               /\ Heard(job[u], f).at = job[u].at /\ Heard(job[u], f).good = job[u].good
    <3>1. job[u] \in Job /\ job[u].queue \in Seq(Percent)
          BY <1>1, JobFields DEF TypeOK
    <3>2. Append(job[u].queue, f.percent) \in Seq(Percent)
          BY <1>2, <2>2, <3>1, FrameFields, Appended
    <3> QED
        BY <2>2, <3>1, <3>2 DEF Heard, Job
  <2>3. ASSUME NEW u \in Upload, f.kind = "ack"
        PROVE  /\ Heard(job[u], f) \in Job
               /\ Heard(job[u], f) = [job[u] EXCEPT !.at = "got", !.good = f.good]
               /\ Heard(job[u], f).at = "got" /\ Heard(job[u], f).good = f.good
               /\ Heard(job[u], f).session = job[u].session
               /\ Heard(job[u], f).number = job[u].number
               /\ Heard(job[u], f).result = job[u].result
               /\ Heard(job[u], f).queue = job[u].queue
    <3>1. job[u] \in Job /\ f.good \in BOOLEAN
          BY <1>1, <1>2, <2>3, FrameFields DEF TypeOK
    <3> QED
        BY <2>3, <3>1 DEF Heard, Job, Running
  <2>4. f.kind = "progress" \/ f.kind = "ack"
        BY <1>2, <1>7, FrameFields
  \* What a frame does to a job that hears it.
  <2>5. ASSUME NEW u \in Upload, u \in ActiveJobs(s), Hears(u, f)
        PROVE  /\ job'[u].session = job[u].session /\ job'[u].number = job[u].number
               /\ job'[u].result = job[u].result /\ job[u].at \in Running
               /\ job'[u].at \in Running /\ job'[u] \in Job
               /\ \/ job'[u].at = job[u].at /\ job'[u].good = job[u].good
                  \/ /\ job'[u].at = "got" /\ job[u].at = "waiting"
                     /\ job'[u].good => Acked(job[u].session, u, job[u].number)
                     /\ ~job'[u].good => u \in refused
    <3>1. /\ job'[u] = Heard(job[u], f) /\ job[u] \in Job /\ job[u].at \in Running
          /\ job[u].session = s
          BY <1>1, <2>1, <2>5 DEF ActiveJobs, TypeOK
    <3>2. CASE f.kind = "progress"
          BY <2>2, <3>1, <3>2
    <3>3. CASE f.kind = "ack"
      <4>1. job[u].at = "waiting" /\ f.request = Request(u, job[u].number)
            BY <2>5, <3>3 DEF Hears
      <4>2. /\ job'[u].session = job[u].session /\ job'[u].number = job[u].number
            /\ job'[u].result = job[u].result
            /\ job'[u].at = "got" /\ job'[u].good = f.good /\ job'[u] \in Job
            BY <2>3, <3>1, <3>3, ZenonT(30)
      <4>3. f = Ack(f.request, f.good) /\ f.good \in BOOLEAN
            BY <1>2, <3>3, FrameFields
      <4>4. f.good => Acked(s, u, job[u].number)
            BY <1>2, <4>1, <4>3 DEF Acked
      <4>5. ~f.good => u \in refused
        <5>1. f.request.upload = u
              BY <4>1 DEF Request
        <5> QED
            BY <1>2, <3>3, <5>1 DEF Inductive, RefusalIsGenuine
      <4> QED
          BY <3>1, <4>1, <4>2, <4>4, <4>5 DEF Running
    <3> QED
        BY <2>4, <3>2, <3>3
  <2>6. \A u \in Upload : ~(u \in ActiveJobs(s) /\ Hears(u, f)) => job'[u] = job[u]
        BY <2>1
  <2>7. TypeOK'
    <3>1. \A u \in Upload : job'[u] \in Job
          BY <1>1, <2>5, <2>6 DEF TypeOK
    <3>2. job' \in [Upload -> Job]
          BY <2>1, <3>1
    <3>3. \A u \in Upload : job'[u].session <= sessions
          BY <1>1, <2>5, <2>6 DEF TypeOK
    <3> QED
        BY <1>1, <1>3, <1>5, <2>1, <3>2, <3>3 DEF TypeOK
  <2>8. \A u \in Upload :
            /\ job'[u].session = job[u].session /\ job'[u].number = job[u].number
            /\ job'[u].result = job[u].result
            /\ \/ job'[u].at = job[u].at
               \/ job'[u].at \in Running /\ job[u].at \in Running
            /\ job'[u].at = "waiting" => job[u].at = "waiting"
            /\ job'[u].at = "got" /\ job'[u].good =>
                   \/ job[u].at = "got" /\ job[u].good
                   \/ job[u].at = "waiting" /\ Acked(job[u].session, u, job[u].number)
            /\ job'[u].at = "got" /\ ~job'[u].good => u \in refused
            /\ job'[u].at = "progress" =>
                   \/ job[u].at = "progress"
                   \/ job[u].at = "got" /\ job[u].good /\ job[u].number = Chunks
        BY <2>5, <2>6 DEF Inductive, RefusalIsGenuine
  <2>9. ASSUME NEW u \in Upload, NEW i \in DOMAIN job'[u].queue, job'[u].queue[i] = "full"
        PROVE  \/ \E k \in DOMAIN job[u].queue : job[u].queue[k] = "full"
               \/ \E k \in DOMAIN up[job[u].session] :
                      /\ up[job[u].session][k].kind = "progress"
                      /\ up[job[u].session][k].percent = "full"
    <3>1. CASE ~(u \in ActiveJobs(s) /\ Hears(u, f))
          BY <2>6, <2>9, <3>1
    <3>2. CASE u \in ActiveJobs(s) /\ Hears(u, f) /\ f.kind = "ack"
      <4>1. job'[u].queue = job[u].queue
            BY <2>1, <2>3, <3>2
      <4> QED
          BY <2>9, <4>1
    <3>3. CASE u \in ActiveJobs(s) /\ Hears(u, f) /\ f.kind = "progress"
      <4>1. job'[u].queue = Append(job[u].queue, f.percent) /\ job[u].session = s
            BY <2>1, <2>2, <3>3 DEF ActiveJobs
      <4>2. job[u].queue \in Seq(Percent) /\ f.percent \in Percent
            BY <1>1, <1>2, <3>3, JobFields, FrameFields DEF TypeOK
      <4>3. \/ i \in DOMAIN job[u].queue /\ job'[u].queue[i] = job[u].queue[i]
            \/ job'[u].queue[i] = f.percent
            BY <2>9, <4>1, <4>2, Appended
      <4> QED
          BY <1>2, <2>9, <3>3, <4>1, <4>3
    <3> QED
        BY <2>4, <3>1, <3>2, <3>3
  <2> QED
      BY <1>4, <1>5, <2>7, <2>8, <2>9, ReadingKeeps
<1> QED
    BY <1>6, <1>7

LEMMA CloseKeeps ==
    ASSUME Inductive, NEW s \in Session, Close(s)
    PROVE  Inductive'
<1>1. UNCHANGED <<sessions, uploader, lock, job, down, peer, inverter, receiving, taken,
                  flashing, percent, registrations, history, refused, complete, flashed>>
      BY DEF Close, inverter, history
<1>2. /\ \A x \in Session \ {s} : up'[x] = up[x]
      /\ up'[s] = <<>> /\ up' \in [Session -> Seq(InverterFrame)]
      BY DEF Close, Inductive, TypeOK
<1>3. \A x \in Session : \A i \in DOMAIN up'[x] : \E k \in DOMAIN up[x] : up'[x][i] = up[x][k]
  <2>1. DOMAIN up'[s] = {}
        BY <1>2
  <2> QED
      BY <1>2, <2>1
<1>4. TypeOK'
  <2>1. open' \subseteq 1..sessions /\ bySerial' \in 0..sessions
        BY BoundAssumption DEF Close, Inductive, TypeOK
  <2> QED
      BY <1>1, <1>2, <2>1 DEF Inductive, TypeOK
<1>5. \A u \in Upload : job[u].at = "got" /\ ~job[u].good => u \in refused
      BY DEF Inductive, RefusalIsGenuine
<1> QED
    BY <1>1, <1>3, <1>4, <1>5, ReadingKeeps

---------------------------------------------------------------------------
(* The inverter and its connection *)

\* The next state has what the inverter leaves alone.
LEMMA GatewayKeeps ==
    ASSUME Inductive, UNCHANGED <<gateway, job>>,
           complete \subseteq complete', flashed \subseteq flashed', refused \subseteq refused'
    PROVE  LockIsHeld' /\ ReportsTruth' /\ MismatchIsGenuine'
<1>1. UNCHANGED <<sessions, open, bySerial, uploader, lock, job>>
      BY DEF gateway
<1>2. LockIsHeld'
      BY <1>1, SameLock DEF Inductive
<1>3. ReportsTruth'
      BY <1>1 DEF Inductive, ReportsTruth
<1>4. MismatchIsGenuine'
      BY <1>1 DEF Inductive, MismatchIsGenuine
<1> QED
    BY <1>2, <1>3, <1>4

\* A frame is sent on the connection: what was on its way stays there.
LEMMA Said ==
    ASSUME TypeOK, NEW f \in InverterFrame, peer \in Session,
           up' = [up EXCEPT ![peer] = Append(@, f)]
    PROVE  /\ up' \in [Session -> Seq(InverterFrame)]
           /\ \A x \in Session \ {peer} : up'[x] = up[x]
           /\ \A x \in Session : \A i \in DOMAIN up'[x] :
                  \/ i \in DOMAIN up[x] /\ up'[x][i] = up[x][i]
                  \/ x = peer /\ up'[x][i] = f
<1>1. up[peer] \in Seq(InverterFrame) /\ up'[peer] = Append(up[peer], f)
      BY DEF TypeOK
<1>2. \A x \in Session \ {peer} : up'[x] = up[x]
      BY DEF TypeOK
<1>3. up' \in [Session -> Seq(InverterFrame)]
      BY <1>1, Appended DEF TypeOK
<1>4. ASSUME NEW i \in DOMAIN up'[peer]
      PROVE  (i \in DOMAIN up[peer] /\ up'[peer][i] = up[peer][i]) \/ up'[peer][i] = f
      BY <1>1, <1>4, Appended
<1> QED
    BY <1>2, <1>3, <1>4

\* A registration or a report of progress is sent, or nothing.
LEMMA QuietKeeps ==
    ASSUME Inductive, TypeOK',
           UNCHANGED <<gateway, job, down, peer, receiving, taken, flashing, refused, complete>>,
           flashed \subseteq flashed',
           NEW f \in InverterFrame, f.kind # "ack",
           \/ up' = up
           \/ peer \in 1..sessions /\ up' = [up EXCEPT ![peer] = Append(@, f)],
           f.kind = "progress" /\ f.percent = "full" =>
               flashing # NoUpload /\ flashing \in flashed'
    PROVE  Inductive'
<1> USE DEF Inductive
<1>1. UNCHANGED <<sessions, open, bySerial, uploader, lock, job, down, peer,
                  receiving, taken, flashing, refused, complete>>
      BY DEF gateway
<1>2. LockIsHeld' /\ ReportsTruth' /\ MismatchIsGenuine'
      BY GatewayKeeps
<1>3. ASSUME NEW x \in Session
      PROVE  /\ \A i \in DOMAIN up'[x] :
                    \/ i \in DOMAIN up[x] /\ up'[x][i] = up[x][i]
                    \/ x = peer /\ up'[x][i] = f
             /\ x > sessions => up'[x] = up[x]
  <2>1. CASE up' = up
        BY <2>1
  <2>2. CASE peer \in 1..sessions /\ up' = [up EXCEPT ![peer] = Append(@, f)]
    <3>1. peer \in Session /\ ~(peer > sessions)
          BY <2>2, BoundAssumption DEF TypeOK, Session
    <3> QED
        BY <2>2, <3>1, Said
  <2> QED
      BY <2>1, <2>2
<1>4. NothingUnasked'
  <2>1. ASSUME NEW x \in Session, NEW i \in DOMAIN up'[x], up'[x][i].kind = "ack"
        PROVE  Asked(up[x][i].request)'
    <3>1. i \in DOMAIN up[x] /\ up'[x][i] = up[x][i]
          BY <1>3, <2>1
    <3> QED
        BY <1>1, <2>1, <3>1 DEF NothingUnasked, Asked
  <2>2. \A x \in Session : \A i \in DOMAIN down'[x] : Asked(down[x][i])'
        BY <1>1 DEF NothingUnasked, Asked
  <2>3. \A x \in Session : x > sessions' => down'[x] = <<>> /\ up'[x] = <<>>
        BY <1>1, <1>3 DEF NothingUnasked
  <2> QED
      BY <2>1, <2>2, <2>3 DEF NothingUnasked
<1>5. ASSUME NEW x \in Session, NEW u \in Upload, NEW n \in 0..Chunks, Acked(x, u, n)'
      PROVE  Acked(x, u, n)
  <2>1. PICK i \in DOMAIN up'[x] : up'[x][i] = Ack(Request(u, n), TRUE)
        BY <1>5 DEF Acked
  <2>2. up'[x][i].kind = "ack"
        BY <2>1 DEF Ack
  <2>3. i \in DOMAIN up[x] /\ up'[x][i] = up[x][i]
        BY <1>3, <2>2
  <2> QED
      BY <2>1, <2>3 DEF Acked
<1>6. OneAtATime' /\ HeadIsExpected'
      BY <1>1 DEF OneAtATime, HeadIsExpected, Expected
<1>7. AckIsCurrent'
  <2> SUFFICES ASSUME NEW v \in Upload, job[v].at \in Running, job[v].session = peer,
                      \/ job[v].at = "got" /\ job[v].good
                      \/ job[v].at = "waiting" /\ Acked(peer, v, job[v].number)'
               PROVE  down[peer] = <<>> /\ receiving = v /\ taken = job[v].number + 1
      BY <1>1 DEF AckIsCurrent
  <2>1. peer \in Session /\ job[v].number \in 0..Chunks
        BY HolderFacts, JobFields DEF TypeOK
  <2>2. Acked(peer, v, job[v].number)' => Acked(peer, v, job[v].number)
    <3>1. Acked(peer, v, job[v].number)' =>
              \E i \in DOMAIN up'[peer] : up'[peer][i] = Ack(Request(v, job[v].number), TRUE)
          BY <1>1 DEF Acked
    <3>2. ASSUME NEW i \in DOMAIN up'[peer],
                 up'[peer][i] = Ack(Request(v, job[v].number), TRUE)
          PROVE  Acked(peer, v, job[v].number)
      <4>1. up'[peer][i].kind = "ack"
            BY <3>2 DEF Ack
      <4>2. i \in DOMAIN up[peer] /\ up'[peer][i] = up[peer][i]
            BY <1>3, <2>1, <4>1
      <4> QED
          BY <3>2, <4>2 DEF Acked
    <3> QED
        BY <3>1, <3>2
  <2> QED
      BY <2>2 DEF AckIsCurrent
<1>8. ASSUME NEW x \in Session, NEW u \in Upload, Stored(x, u)' PROVE Stored(x, u)
  <2>1. Chunks \in 0..Chunks
        BY ChunksAssumption
  <2>2. Acked(x, u, Chunks)' => Acked(x, u, Chunks)
        BY <1>5, <2>1
  <2> QED
      BY <1>1, <1>8, <2>2 DEF Stored
<1>9. ASSUME NEW x \in Session, FullProgress(x)'
      PROVE  \/ FullProgress(x)
             \/ x = peer /\ f.kind = "progress" /\ f.percent = "full"
  <2>1. ASSUME NEW i \in DOMAIN up'[x], up'[x][i].kind = "progress", up'[x][i].percent = "full"
        PROVE  \/ FullProgress(x)
               \/ x = peer /\ f.kind = "progress" /\ f.percent = "full"
        BY <1>3, <2>1 DEF FullProgress
  <2>2. ASSUME NEW u \in Upload, job'[u].session = x,
               \E i \in DOMAIN job'[u].queue : job'[u].queue[i] = "full"
        PROVE  FullProgress(x)
        BY <1>1, <2>2 DEF FullProgress
  <2> QED
      BY <1>9, <2>1, <2>2 DEF FullProgress
<1>10. FlashIsOfStored'
       BY <1>1, <1>8, <1>9 DEF FlashIsOfStored
<1>11. RefusalIsGenuine'
  <2>1. ASSUME NEW x \in Session, NEW i \in DOMAIN up'[x], up'[x][i].kind = "ack",
               ~up'[x][i].good
        PROVE  up'[x][i].request.upload \in refused'
    <3>1. i \in DOMAIN up[x] /\ up'[x][i] = up[x][i]
          BY <1>3, <2>1
    <3> QED
        BY <1>1, <2>1, <3>1 DEF RefusalIsGenuine
  <2> QED
      BY <1>1, <2>1 DEF RefusalIsGenuine
<1> QED
    BY <1>2, <1>4, <1>6, <1>7, <1>10, <1>11

LEMMA RegisterKeeps ==
    ASSUME Inductive, Register
    PROVE  Inductive'
<1>1. /\ peer \in 1..sessions /\ peer \in Session
      /\ UNCHANGED <<gateway, sessions, open, bySerial, uploader, lock, job, down, peer,
                     receiving, taken, flashing, percent, refused, complete, flashed>>
      /\ registrations' \in 0..MaxRegistrations
      /\ up' = [up EXCEPT ![peer] = Append(@, Registration)]
      BY BoundAssumption DEF Register, Inductive, TypeOK, gateway, inverter, history, Session
<1>2. Registration \in InverterFrame /\ Registration.kind = "registration"
      BY FrameTypes
<1>3. up' \in [Session -> Seq(InverterFrame)]
      BY <1>1, <1>2, Said DEF Inductive
<1>4. TypeOK'
      BY <1>1, <1>3 DEF Inductive, TypeOK
<1> QED
    BY <1>1, <1>2, <1>4, QuietKeeps

LEMMA FlashKeeps ==
    ASSUME Inductive, NEW p \in Percent, Flash(p)
    PROVE  Inductive'
<1>1. /\ flashing \in Upload
      /\ UNCHANGED <<gateway, sessions, open, bySerial, uploader, lock, job, down, peer,
                     receiving, taken, flashing, registrations, refused, complete>>
      /\ flashed' = IF p = "full" THEN flashed \cup {flashing} ELSE flashed
      BY DEF Flash, Inductive, TypeOK, gateway
<1>2. PICK f : f = Progress(flashing, p)
      OBVIOUS
<1>3. f \in InverterFrame /\ f.kind = "progress" /\ f.percent = p
      BY <1>1, <1>2, FrameTypes
<1>4. \/ up' = up
      \/ peer \in 1..sessions /\ up' = [up EXCEPT ![peer] = Append(@, f)]
      BY <1>2, BoundAssumption DEF Flash, Inductive, TypeOK
<1>5. up' \in [Session -> Seq(InverterFrame)]
  <2>1. CASE up' = up
        BY <2>1 DEF Inductive, TypeOK
  <2>2. CASE peer \in 1..sessions /\ up' = [up EXCEPT ![peer] = Append(@, f)]
    <3>1. peer \in Session
          BY <2>2, BoundAssumption DEF Inductive, TypeOK, Session
    <3> QED
        BY <1>3, <2>2, <3>1, Said DEF Inductive
  <2> QED
      BY <1>4, <2>1, <2>2
<1>6. TypeOK'
      BY <1>1, <1>5 DEF Inductive, TypeOK, Flash
<1>7. /\ flashed \subseteq flashed'
      /\ f.percent = "full" => flashing # NoUpload /\ flashing \in flashed'
      BY <1>1, <1>3, UploadAssumption
<1> QED
    BY <1>1, <1>3, <1>4, <1>6, <1>7, QuietKeeps

LEMMA ConnectKeeps ==
    ASSUME Inductive, Connect
    PROVE  Inductive'
<1> USE DEF Inductive
<1>1. /\ peer = 0 /\ sessions < MaxSessions /\ sessions' = sessions + 1 /\ peer' = sessions + 1
      /\ open' = open \cup {sessions + 1}
      /\ UNCHANGED <<bySerial, uploader, lock, job, down, up, inverter, receiving, taken,
                     flashing, percent, registrations, history, refused, complete, flashed>>
      BY DEF Connect, inverter, history
<1>2. /\ sessions \in Nat /\ MaxSessions \in Nat /\ peer' \in Session
      /\ sessions' \in 0..MaxSessions
      BY <1>1, BoundAssumption DEF TypeOK, Session
<1>3. up[peer'] = <<>> /\ down[peer'] = <<>>
  <2>1. peer' > sessions
        BY <1>1, <1>2
  <2> QED
      BY <1>2, <2>1 DEF NothingUnasked
<1>4. \A u \in Upload : /\ job[u].session # peer' /\ job[u].session <= sessions'
                        /\ job[u].session \in Nat
  <2>1. ASSUME NEW u \in Upload
        PROVE job[u].session # peer' /\ job[u].session <= sessions' /\ job[u].session \in Nat
    <3>1. job[u].session \in 0..MaxSessions /\ job[u].session <= sessions
          BY JobFields DEF TypeOK
    <3> QED
        BY <1>1, <1>2, <3>1
  <2> QED
      BY <2>1
<1>5. TypeOK'
  <2>1. open' \subseteq 1..sessions' /\ bySerial' \in 0..sessions' /\ peer' \in 0..sessions'
        BY <1>1, <1>2 DEF TypeOK
  <2> QED
      BY <1>1, <1>2, <1>4, <2>1 DEF TypeOK
<1>6. LockIsHeld'
  <2>1. \A u \in Upload : job[u].session \in 1..sessions => job[u].session \in 1..sessions'
        BY <1>1, <1>2
  <2> QED
      BY <1>1, <2>1 DEF LockIsHeld
<1>7. NothingUnasked'
  <2>1. \A x \in Session : x > sessions' => x > sessions
        BY <1>1, <1>2 DEF Session
  <2> QED
      BY <1>1, <2>1 DEF NothingUnasked, Asked
<1>8. OneAtATime'
      BY <1>1 DEF OneAtATime
<1>9. AckIsCurrent'
      BY <1>1, <1>4 DEF AckIsCurrent
<1>10. HeadIsExpected'
       BY <1>1, <1>3 DEF HeadIsExpected
<1>11. FlashIsOfStored'
  <2>1. ~FullProgress(peer')
    <3>1. DOMAIN up[peer'] = {}
          BY <1>3
    <3> QED
        BY <1>4, <3>1 DEF FullProgress
  <2>2. \A u \in Upload : ~Stored(peer', u)
    <3>1. DOMAIN up[peer'] = {}
          BY <1>3
    <3> QED
        BY <1>4, <3>1 DEF Stored, Acked
  <2>3. ASSUME NEW x \in Session
        PROVE  /\ FullProgress(x)' => FullProgress(x)
               /\ \A u \in Upload : Stored(x, u)' => Stored(x, u)
        BY <1>1 DEF FullProgress, Stored, Acked
  <2> QED
      BY <1>1, <2>1, <2>2, <2>3 DEF FlashIsOfStored
<1>12. RefusalIsGenuine' /\ ReportsTruth' /\ MismatchIsGenuine'
       BY <1>1 DEF RefusalIsGenuine, ReportsTruth, MismatchIsGenuine
<1> QED
    BY <1>5, <1>6, <1>7, <1>8, <1>9, <1>10, <1>11, <1>12

LEMMA LeavesKeeps ==
    ASSUME Inductive, NEW reboots \in BOOLEAN, Leaves(reboots)
    PROVE  Inductive'
<1> USE DEF Inductive
<1>1. /\ peer' = 0 /\ down' = [down EXCEPT ![peer] = <<>>]
      /\ UNCHANGED <<gateway, sessions, open, bySerial, uploader, lock, job, up,
                     registrations, refused, complete, flashed>>
      BY DEF Leaves, gateway, history
<1>2. /\ down' \in [Session -> Seq(RequestFrame)]
      /\ \A x \in Session : down'[x] = down[x] \/ down'[x] = <<>>
  <2>1. <<>> \in Seq(RequestFrame)
        OBVIOUS
  <2>2. down' \in [Session -> Seq(RequestFrame)]
        BY <1>1, <2>1 DEF TypeOK
  <2>3. \A x \in Session : down'[x] = down[x] \/ down'[x] = <<>>
        BY <1>1 DEF TypeOK
  <2> QED
      BY <2>2, <2>3
<1>3. LockIsHeld' /\ ReportsTruth' /\ MismatchIsGenuine'
      BY <1>1, GatewayKeeps
<1>4. TypeOK'
  <2>1. peer' \in 0..sessions
        BY <1>1, BoundAssumption DEF TypeOK
  <2>2. /\ receiving' \in Upload \cup {NoUpload} /\ taken' \in 0..Chunks + 1
        /\ flashing' \in Upload \cup {NoUpload} /\ percent' \in Percent \cup {"none"}
        BY ChunksAssumption DEF Leaves, inverter, TypeOK
  <2> QED
      BY <1>1, <1>2, <2>1, <2>2 DEF TypeOK
<1>5. ASSUME NEW x \in Session, NEW i \in DOMAIN down'[x] PROVE down'[x] = down[x]
      BY <1>2, <1>5
<1>6. NothingUnasked'
      BY <1>1, <1>2, <1>5 DEF NothingUnasked, Asked
<1>7. OneAtATime'
      BY <1>1, <1>5 DEF OneAtATime
<1>8. AckIsCurrent'
  <2>1. \A u \in Upload : job[u].at \in Running => job[u].session # 0
        BY HolderFacts DEF Session
  <2> QED
      BY <1>1, <2>1 DEF AckIsCurrent
<1>9. HeadIsExpected'
      BY <1>1 DEF HeadIsExpected
<1>10. FlashIsOfStored'
  <2>1. ASSUME NEW x \in Session
        PROVE  /\ FullProgress(x)' => FullProgress(x)
               /\ \A u \in Upload : Stored(x, u)' => Stored(x, u)
        BY <1>1 DEF FullProgress, Stored, Acked
  <2>2. \A x \in Session : x # peer'
        BY <1>1 DEF Session
  <2> QED
      BY <1>1, <2>1, <2>2 DEF FlashIsOfStored
<1>11. RefusalIsGenuine'
       BY <1>1 DEF RefusalIsGenuine
<1> QED
    BY <1>3, <1>4, <1>6, <1>7, <1>8, <1>9, <1>10, <1>11

\* A request is served: taken in order, or refused, and answered or not.
LEMMA ServeKeeps ==
    ASSUME Inductive, NEW ok \in BOOLEAN, NEW answers \in BOOLEAN, Serve(ok, answers)
    PROVE  Inductive'
<1> USE DEF Inductive
<1>1. /\ peer \in 1..sessions /\ peer \in Session /\ flashing = NoUpload
      /\ down[peer] # <<>> /\ down[peer] \in Seq(RequestFrame)
      /\ down' = [down EXCEPT ![peer] = Tail(@)]
      BY BoundAssumption DEF Serve, TypeOK, Session
<1>2. /\ Head(down[peer]) \in RequestFrame /\ Head(down[peer]) = down[peer][1]
      /\ 1 \in DOMAIN down[peer] /\ Tail(down[peer]) \in Seq(RequestFrame)
      BY <1>1, Removed
<1>3. PICK r \in RequestFrame : r = Head(down[peer])
      BY <1>2
<1>4. PICK f : f = Ack(r, ok)
      OBVIOUS
<1>5. f \in InverterFrame /\ f.kind = "ack" /\ f.request = r /\ f.good = ok
      BY <1>3, <1>4, FrameTypes
<1>6. /\ up' = IF answers THEN [up EXCEPT ![peer] = Append(@, f)] ELSE up
      /\ IF ok THEN receiving' = r.upload /\ taken' = r.number + 1
               ELSE UNCHANGED <<receiving, taken>>
      /\ refused' = IF ~ok /\ answers THEN refused \cup {r.upload} ELSE refused
      /\ IF ok /\ r.number = Chunks
         THEN complete' = complete \cup {r.upload} /\ flashing' = r.upload
         ELSE UNCHANGED <<complete, flashing>>
      BY <1>3, <1>4 DEF Serve
<1>7. UNCHANGED <<gateway, sessions, open, bySerial, uploader, lock, job, peer, percent,
                  registrations, flashed>>
      BY DEF Serve, gateway
<1>8. /\ r.upload \in Upload /\ r.number \in 0..Chunks /\ r.number \in Nat
      /\ r = Request(r.upload, r.number)
      BY ChunksAssumption DEF RequestFrame, Request
<1>9. /\ complete \subseteq complete' /\ refused \subseteq refused' /\ flashed \subseteq flashed'
      BY <1>6, <1>7
<1>10. LockIsHeld' /\ ReportsTruth' /\ MismatchIsGenuine'
       BY <1>7, <1>9, GatewayKeeps
<1>11. /\ up' \in [Session -> Seq(InverterFrame)]
       /\ \A x \in Session \ {peer} : up'[x] = up[x]
       /\ \A x \in Session : \A i \in DOMAIN up'[x] :
              \/ i \in DOMAIN up[x] /\ up'[x][i] = up[x][i]
              \/ x = peer /\ answers /\ up'[x][i] = f
  <2>1. CASE answers
    <3>1. up' = [up EXCEPT ![peer] = Append(@, f)]
          BY <1>6, <2>1
    <3>2. /\ up' \in [Session -> Seq(InverterFrame)]
          /\ \A x \in Session \ {peer} : up'[x] = up[x]
          /\ \A x \in Session : \A i \in DOMAIN up'[x] :
                 \/ i \in DOMAIN up[x] /\ up'[x][i] = up[x][i]
                 \/ x = peer /\ up'[x][i] = f
          BY <1>1, <1>5, <3>1, Said
    <3> QED
        BY <2>1, <3>2
  <2>2. CASE ~answers
        BY <1>6, <2>2 DEF TypeOK
  <2> QED
      BY <2>1, <2>2
<1>12. /\ down' \in [Session -> Seq(RequestFrame)]
       /\ down'[peer] = Tail(down[peer]) /\ \A x \in Session \ {peer} : down'[x] = down[x]
       BY <1>1, <1>2 DEF TypeOK
<1>13. /\ \A i \in DOMAIN down'[peer] :
              /\ i \in Nat /\ i > 0 /\ i + 1 \in DOMAIN down[peer]
              /\ down'[peer][i] = down[peer][i + 1]
       /\ Len(down'[peer]) = Len(down[peer]) - 1 /\ Len(down[peer]) \in Nat
       BY <1>1, <1>12, Removed
<1>14. TypeOK'
  <2>1. receiving' \in Upload \cup {NoUpload} /\ taken' \in 0..Chunks + 1
        BY <1>6, <1>8, ChunksAssumption DEF TypeOK
  <2>2. flashing' \in Upload \cup {NoUpload} /\ complete' \subseteq Upload
        BY <1>6, <1>8 DEF TypeOK
  <2>3. refused' \subseteq Upload
        BY <1>6, <1>8 DEF TypeOK
  <2> QED
      BY <1>7, <1>11, <1>12, <2>1, <2>2, <2>3 DEF TypeOK
<1>15. NothingUnasked'
  <2>1. Asked(r)
        BY <1>1, <1>2, <1>3 DEF NothingUnasked
  <2>2. ASSUME NEW x \in Session, NEW i \in DOMAIN up'[x], up'[x][i].kind = "ack"
        PROVE  Asked(up[x][i].request)'
    <3>1. CASE i \in DOMAIN up[x] /\ up'[x][i] = up[x][i]
          BY <1>7, <2>2, <3>1 DEF NothingUnasked, Asked
    <3>2. CASE up'[x][i] = f
          BY <1>5, <1>7, <2>1, <3>2 DEF Asked
    <3> QED
        BY <1>11, <2>2, <3>1, <3>2
  <2>3. ASSUME NEW x \in Session, NEW i \in DOMAIN down'[x]
        PROVE  Asked(down[x][i])'
    <3>1. CASE x = peer
          BY <1>1, <1>7, <1>13, <2>3, <3>1 DEF NothingUnasked, Asked
    <3>2. CASE x # peer
          BY <1>7, <1>12, <2>3, <3>2 DEF NothingUnasked, Asked
    <3> QED
        BY <3>1, <3>2
  <2>4. ASSUME NEW x \in Session, x > sessions' PROVE down'[x] = <<>> /\ up'[x] = <<>>
    <3>1. x # peer
          BY <1>1, <1>7, <2>4, BoundAssumption DEF TypeOK
    <3> QED
        BY <1>7, <1>11, <1>12, <2>4, <3>1 DEF NothingUnasked
  <2> QED
      BY <2>2, <2>3, <2>4 DEF NothingUnasked
<1>16. OneAtATime'
  <2> SUFFICES ASSUME NEW x \in Session, NEW i \in DOMAIN down'[x]
               PROVE  /\ i > 1 => down'[x][i].number = 0
                      /\ \A u \in Upload :
                             (/\ job[u].at \in Running /\ job[u].session = x
                              /\ down'[x][i] = Request(u, job[u].number)) => i = Len(down'[x])
      BY <1>7 DEF OneAtATime
  <2>1. CASE x = peer
    <3>1. /\ i \in Nat /\ i + 1 > 1 /\ i + 1 \in DOMAIN down[peer]
          /\ down'[peer][i] = down[peer][i + 1]
          BY <1>13, <2>1
    <3>2. down'[x][i].number = 0
          BY <1>1, <2>1, <3>1 DEF OneAtATime
    <3>3. ASSUME NEW u \in Upload, job[u].at \in Running, job[u].session = x,
                 down'[x][i] = Request(u, job[u].number)
          PROVE  i = Len(down'[x])
      <4>1. i + 1 = Len(down[peer])
            BY <1>1, <2>1, <3>1, <3>3 DEF OneAtATime
      <4> QED
          BY <1>13, <2>1, <3>1, <4>1
    <3> QED
        BY <3>2, <3>3
  <2>2. CASE x # peer
        BY <1>12, <2>2 DEF OneAtATime
  <2> QED
      BY <2>1, <2>2
<1>17. HeadIsExpected'
  <2> SUFFICES ASSUME down'[peer] # <<>> PROVE Head(down'[peer]).number = 0
      BY <1>7 DEF HeadIsExpected, Expected
  <2>1. 1 \in DOMAIN down'[peer] /\ Head(down'[peer]) = down'[peer][1]
        BY <1>1, <1>12, Removed
  <2>2. 2 \in DOMAIN down[peer] /\ down'[peer][1] = down[peer][2]
        BY <1>13, <2>1
  <2> QED
      BY <1>1, <2>1, <2>2 DEF OneAtATime
\* An acknowledgement that is on its way came before, or is this answer.
<1>18. ASSUME NEW x \in Session, NEW u \in Upload, NEW n \in 0..Chunks,
              NEW i \in DOMAIN up'[x], up'[x][i] = Ack(Request(u, n), TRUE)
       PROVE  \/ Acked(x, u, n)
              \/ x = peer /\ ok /\ r = Request(u, n) /\ r.upload = u /\ r.number = n
  <2>1. /\ Ack(Request(u, n), TRUE).request = Request(u, n)
        /\ Ack(Request(u, n), TRUE).good = TRUE
        /\ Request(u, n).upload = u /\ Request(u, n).number = n
        BY DEF Ack, Request
  <2>2. CASE i \in DOMAIN up[x] /\ up'[x][i] = up[x][i]
        BY <1>18, <2>2 DEF Acked
  <2>3. CASE x = peer /\ up'[x][i] = f
        BY <1>5, <1>18, <2>1, <2>3
  <2> QED
      BY <1>11, <1>18, <2>2, <2>3
<1>19. AckIsCurrent'
  <2> SUFFICES ASSUME NEW u \in Upload, job[u].at \in Running, job[u].session = peer,
                      \/ job[u].at = "got" /\ job[u].good
                      \/ job[u].at = "waiting" /\ Acked(peer, u, job[u].number)'
               PROVE  down'[peer] = <<>> /\ receiving' = u /\ taken' = job[u].number + 1
      BY <1>7 DEF AckIsCurrent
  <2>1. ~(job[u].at = "got" /\ job[u].good) /\ ~Acked(peer, u, job[u].number)
        BY <1>1 DEF AckIsCurrent, Running
  <2>2. job[u].number \in 0..Chunks
        BY JobFields DEF TypeOK
  <2>3. \E i \in DOMAIN up'[peer] : up'[peer][i] = Ack(Request(u, job[u].number), TRUE)
        BY <1>7, <2>1 DEF Acked
  <2>4. ok /\ r = Request(u, job[u].number) /\ r.upload = u /\ r.number = job[u].number
        BY <1>1, <1>18, <2>1, <2>2, <2>3, ZenonT(30)
  <2>5. Len(down[peer]) = 1
    <3>1. 1 \in DOMAIN down[peer] /\ down[peer][1] = Request(u, job[u].number)
          BY <1>2, <1>3, <2>4
    <3> QED
        BY <1>1, <3>1 DEF OneAtATime
  <2>6. down'[peer] = <<>>
        BY <1>1, <1>12, <2>5
  <2> QED
      BY <1>6, <2>4, <2>6
<1>20. ~FullProgress(peer) /\ \A u \in Upload : ~Stored(peer, u)
       BY <1>1, UploadAssumption DEF FlashIsOfStored
<1>21. ASSUME NEW x \in Session, FullProgress(x)' PROVE FullProgress(x)
  <2>1. ASSUME NEW i \in DOMAIN up'[x], up'[x][i].kind = "progress", up'[x][i].percent = "full"
        PROVE  FullProgress(x)
    <3>1. i \in DOMAIN up[x] /\ up'[x][i] = up[x][i]
          BY <1>5, <1>11, <2>1
    <3> QED
        BY <2>1, <3>1 DEF FullProgress
  <2>2. ASSUME NEW u \in Upload, job[u].session = x,
               \E i \in DOMAIN job[u].queue : job[u].queue[i] = "full"
        PROVE  FullProgress(x)
        BY <2>2 DEF FullProgress
  <2> QED
      BY <1>7, <1>21, <2>1, <2>2 DEF FullProgress
<1>22. ASSUME NEW x \in Session, NEW u \in Upload, Stored(x, u)'
       PROVE  \/ Stored(x, u)
              \/ x = peer /\ ok /\ r.upload = u /\ r.number = Chunks
  <2>1. CASE Acked(x, u, Chunks)'
    <3>1. PICK i \in DOMAIN up'[x] : up'[x][i] = Ack(Request(u, Chunks), TRUE)
          BY <2>1 DEF Acked
    <3>2. Chunks \in 0..Chunks
          BY ChunksAssumption
    <3> QED
        BY <1>18, <3>1, <3>2 DEF Stored
  <2>2. CASE ~Acked(x, u, Chunks)'
        BY <1>7, <1>22, <2>2 DEF Stored
  <2> QED
      BY <2>1, <2>2
<1>23. FlashIsOfStored'
  <2> SUFFICES ASSUME NEW x \in Session
               PROVE  /\ FullProgress(x)' /\ peer = x => flashing' # NoUpload
                      /\ \A u \in Upload : Stored(x, u)' =>
                             /\ u \in complete'
                             /\ peer = x => flashing' = u
                             /\ FullProgress(x)' => u \in flashed
      BY <1>7 DEF FlashIsOfStored
  <2>1. CASE x = peer
        BY <1>6, <1>20, <1>21, <1>22, <2>1
  <2>2. CASE x # peer
        BY <1>9, <1>21, <1>22, <2>2 DEF FlashIsOfStored
  <2> QED
      BY <2>1, <2>2
<1>24. RefusalIsGenuine'
  <2>1. ASSUME NEW x \in Session, NEW i \in DOMAIN up'[x], up'[x][i].kind = "ack",
               ~up'[x][i].good
        PROVE  up'[x][i].request.upload \in refused'
    <3>1. CASE i \in DOMAIN up[x] /\ up'[x][i] = up[x][i]
          BY <1>9, <2>1, <3>1 DEF RefusalIsGenuine
    <3>2. CASE answers /\ up'[x][i] = f
          BY <1>5, <1>6, <2>1, <3>2
    <3> QED
        BY <1>11, <2>1, <3>1, <3>2
  <2> QED
      BY <1>7, <1>9, <2>1 DEF RefusalIsGenuine
<1> QED
    BY <1>10, <1>14, <1>15, <1>16, <1>17, <1>19, <1>23, <1>24

---------------------------------------------------------------------------
(* The theorems *)

LEMMA StutterKeeps ==
    ASSUME Inductive, UNCHANGED vars
    PROVE  Inductive'
<1>1. UNCHANGED <<gateway, sessions, open, bySerial, uploader, lock, job, down, up, peer,
                  receiving, taken, flashing, percent, registrations,
                  refused, complete, flashed>>
      BY DEF vars, gateway, inverter, history
<1>2. TypeOK'
      BY <1>1 DEF Inductive, TypeOK
<1>3. Registration \in InverterFrame /\ Registration.kind = "registration"
      BY FrameTypes
<1> QED
    BY <1>1, <1>2, <1>3, QuietKeeps

LEMMA StepInductive == Inductive /\ [Next]_vars => Inductive'
<1> SUFFICES ASSUME Inductive, [Next]_vars PROVE Inductive'
    OBVIOUS
<1>1. ASSUME NEW u \in Upload, RequestUpload(u) PROVE Inductive'
      BY <1>1, RequestUploadKeeps
<1>2. ASSUME NEW u \in Upload, UploadStep(u) PROVE Inductive'
      BY <1>2, StartQueuedKeeps, ResumeKeeps, ReadProgressKeeps DEF UploadStep
<1>3. ASSUME NEW u \in Upload, Timeout(u) PROVE Inductive'
      BY <1>3, TimeoutKeeps
<1>4. ASSUME NEW s \in Session, HandleFrame(s) \/ Close(s) PROVE Inductive'
      BY <1>4, HandleFrameKeeps, CloseKeeps
<1>5. CASE InverterStep
  <2>1. CASE Connect
        BY <2>1, ConnectKeeps
  <2>2. CASE Register
        BY <2>2, RegisterKeeps
  <2>3. ASSUME NEW reboots \in BOOLEAN, Leaves(reboots) PROVE Inductive'
        BY <2>3, LeavesKeeps
  <2>4. ASSUME NEW ok \in BOOLEAN, NEW answers \in BOOLEAN, Serve(ok, answers) PROVE Inductive'
        BY <2>4, ServeKeeps
  <2>5. ASSUME NEW p \in Percent, Flash(p) PROVE Inductive'
        BY <2>5, FlashKeeps
  <2> QED
      BY <1>5, <2>1, <2>2, <2>3, <2>4, <2>5 DEF InverterStep
<1>6. CASE UNCHANGED vars
      BY <1>6, StutterKeeps
<1> QED
    BY <1>1, <1>2, <1>3, <1>4, <1>5, <1>6 DEF Next

\* The invariant holds in every state, for any number of uploads, chunks and
\* connections: who runs holds the lock, nothing travels that was not asked
\* for, and an acknowledgement on its way is the latest word of the inverter.
THEOREM UploadInvariant == Spec => []Inductive
<1>1. Init => Inductive
      BY InitInductive
<1>2. Inductive /\ [Next]_vars => Inductive'
      BY StepInductive
<1> QED
    BY <1>1, <1>2, PTL DEF Spec

\* The inverter is never sent a chunk that does not continue the transfer it is
\* in, also by an upload that follows a failed one or another registration
\* (Session._firmware_upload_lock, _send_and_expect).
THEOREM UploadsAreSequential == Spec => []Sequential
<1>1. Inductive => Sequential
  <2> SUFFICES ASSUME Inductive, peer # 0, flashing = NoUpload, down[peer] # <<>>
               PROVE  Expected(Head(down[peer]))
      BY DEF Sequential
  <2> QED
      BY DEF Inductive, HeadIsExpected
<1> QED
    BY <1>1, UploadInvariant, PTL

\* What handle_firmware_control tells its client is true: an upload waits for
\* progress when the inverter holds its whole image, and is reported as flashed
\* after a flash of that image reached 100%.
THEOREM ReportsAreTrue == Spec => []ReportsTruth
<1>1. Inductive => ReportsTruth
      BY DEF Inductive
<1> QED
    BY <1>1, UploadInvariant, PTL

\* An upload fails on an acknowledgement only if the inverter refused a request
\* of that upload, never on one left over from another (the device tail that
\* _send_and_expect waits for).
THEOREM MismatchesAreGenuine == Spec => []MismatchIsGenuine
<1>1. Inductive => MismatchIsGenuine
      BY DEF Inductive
<1> QED
    BY <1>1, UploadInvariant, PTL

=============================================================================
