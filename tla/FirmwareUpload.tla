---------------------------- MODULE FirmwareUpload ----------------------------
(***************************************************************************)
(* Firmware uploads: requests on the control socket of FoxessLocalCloud,   *)
(* the Session of the inverter they are for, its FirmwareUploader and its  *)
(* lock, and the inverter at the other end of a connection that may go     *)
(* away.  One inverter (serial), as uploads to two never meet.             *)
(*                                                                         *)
(* An image is its upload; request number 0 of an upload is the metadata,  *)
(* number k its k-th chunk.  The device tail of a request, a counter of    *)
(* the uploader, is the pair of upload and number.  The inverter is        *)
(* external: it answers when it likes or not at all, and reboots after a   *)
(* flash (docs/FIRMWARE_RESEARCH.md, "progress through 100% and reboot").  *)
(***************************************************************************)
EXTENDS Naturals, Sequences, FiniteSets

CONSTANTS
    Upload, NoUpload,
    Chunks,             \* chunks of an image
    MaxSessions,        \* bound: connections of the inverter
    MaxRegistrations    \* bound: registrations on all of them

ASSUME UploadAssumption == IsFiniteSet(Upload) /\ NoUpload \notin Upload
ASSUME ChunksAssumption == Chunks \in Nat \ {0}
ASSUME BoundAssumption == MaxSessions \in Nat /\ MaxRegistrations \in Nat

VARIABLES
    \* FoxessLocalCloud and its Sessions: how many connected, which ones are
    \* open, which one holds the serial, how many uploaders each has created
    \* (the last one is in use) and its lock: the holder, then the waiters
    sessions, open, bySerial, uploader, lock,
    \* one record per upload: handle_firmware_control and FirmwareUploader.upload
    job,
    \* connections: requests to and frames from the inverter
    down, up,
    \* the inverter: its connection, the transfer it receives with the number of
    \* requests taken, the image it flashes and how far it got
    peer, receiving, taken, flashing, percent,
    \* history: registrations sent; uploads answered with something else than
    \* the expected acknowledgement, stored completely, and flashed
    registrations, refused, complete, flashed

gateway == <<sessions, open, bySerial, uploader, lock>>
inverter == <<receiving, taken, flashing, percent>>
history == <<refused, complete, flashed>>
vars == <<gateway, job, down, up, peer, inverter, registrations, history>>

Session == 1..MaxSessions
Running == {"waiting", "got", "progress"}
Result == {"none", "flashed", "timeout", "mismatch", "error"}
Percent == {"part", "full"}

\* dynamic: the protocol whose magic and function are drawn for each transfer.
Request(u, n) == [upload |-> u, number |-> n]
NewJob == [at |-> "new", session |-> 0, uploader |-> 0, dynamic |-> FALSE,
           number |-> 0, good |-> FALSE, queue |-> <<>>, result |-> "none"]

\* What the inverter sends, besides what does not matter here.
Ack(r, good) == [kind |-> "ack", request |-> r, good |-> good]
Progress(u, p) == [kind |-> "progress", upload |-> u, percent |-> p]
Registration == [kind |-> "registration"]

Job == [at : {"new", "queued", "answered"} \cup Running, session : 0..MaxSessions,
        uploader : Nat, dynamic : BOOLEAN, number : 0..Chunks, good : BOOLEAN,
        queue : Seq(Percent), result : Result]
RequestFrame == [upload : Upload, number : 0..Chunks]
InverterFrame ==
    {Registration} \cup [kind : {"progress"}, upload : Upload, percent : Percent]
                   \cup [kind : {"ack"}, request : RequestFrame, good : BOOLEAN]

TypeOK ==
    /\ sessions \in 0..MaxSessions /\ open \subseteq 1..sessions
    /\ bySerial \in 0..sessions /\ peer \in 0..sessions
    /\ uploader \in [Session -> Nat]
    /\ lock \in [Session -> Seq(Upload)]
    /\ job \in [Upload -> Job]
    /\ \A u \in Upload : job[u].session <= sessions
    /\ down \in [Session -> Seq(RequestFrame)]
    /\ up \in [Session -> Seq(InverterFrame)]
    /\ receiving \in Upload \cup {NoUpload} /\ taken \in 0..Chunks + 1
    /\ flashing \in Upload \cup {NoUpload} /\ percent \in Percent \cup {"none"}
    /\ registrations \in 0..MaxRegistrations
    /\ refused \subseteq Upload /\ complete \subseteq Upload /\ flashed \subseteq Upload

Init ==
    /\ sessions = 0 /\ open = {} /\ bySerial = 0
    /\ uploader = [s \in Session |-> 0] /\ lock = [s \in Session |-> <<>>]
    /\ job = [u \in Upload |-> NewJob]
    /\ down = [s \in Session |-> <<>>] /\ up = [s \in Session |-> <<>>]
    /\ peer = 0 /\ receiving = NoUpload /\ taken = 0
    /\ flashing = NoUpload /\ percent = "none"
    /\ registrations = 0
    /\ refused = {} /\ complete = {} /\ flashed = {}

---------------------------------------------------------------------------
(* FirmwareUploader *)

\* The response on the control socket.
Answer(u, result) ==
    job' = [job EXCEPT ![u] = [NewJob EXCEPT !.at = "answered", !.result = result]]

\* What ends an upload, at any await: the finally clauses reset the uploader
\* and release the lock, handle_firmware_control answers the client.
Finish(u, result) ==
    /\ Answer(u, result)
    /\ lock' = [lock EXCEPT ![job[u].session] = Tail(@)]

Fail(u, result) ==
    /\ Finish(u, result)
    /\ UNCHANGED <<sessions, open, bySerial, uploader, down, up, peer, inverter,
                   registrations, history>>

\* _send_and_expect up to the await of the acknowledgement, for a job j that
\* holds the lock.  The inverter gets what is sent on its connection; writing
\* to one that is closing is lost, or drain raises (see Send).
Sent(u, j, n) ==
    /\ job' = [job EXCEPT ![u] = [j EXCEPT !.at = "waiting", !.number = n]]
    /\ down' = IF peer = j.session
               THEN [down EXCEPT ![peer] = Append(@, Request(u, n))] ELSE down
    /\ UNCHANGED <<sessions, open, bySerial, uploader, up, peer, inverter,
                   registrations, history>>

Send(u, n) ==
    \/ Sent(u, job[u], n) /\ UNCHANGED lock
    \/ job[u].session \notin open /\ Fail(u, "error")

\* Some other upload uses the same uploader.
Active(u, s, x) ==
    \E v \in Upload \ {u} :
        job[v].at \in Running /\ job[v].session = s /\ job[v].uploader = x

---------------------------------------------------------------------------
(* handle_firmware_control and Session.upload_firmware *)

Refuse(u) ==
    /\ Answer(u, "error")
    /\ UNCHANGED <<gateway, down, up, peer, inverter, registrations, history>>

\* Operators named Bug... are deliberate mistakes, never part of Spec: the
\* properties are tested against them.  Without the lock, only the active flag
\* of the uploader keeps two uploads apart.
BugNoLock(u) ==
    /\ job[u].at = "new" /\ bySerial # 0
    /\ IF Active(u, bySerial, uploader[bySerial])
       THEN Refuse(u)
       ELSE /\ Sent(u, [NewJob EXCEPT !.session = bySerial,
                                      !.uploader = uploader[bySerial]], 0)
            /\ lock' = [lock EXCEPT ![bySerial] = Append(@, u)]

\* The request was read and is valid.  Session, writer and uploader are looked
\* up before the lock is taken; a free lock does not suspend the task.
RequestUpload(u) ==
    /\ job[u].at = "new"
    /\ \/ bySerial = 0 /\ Refuse(u)
       \/ /\ bySerial # 0
          /\ \E dynamic \in BOOLEAN :
             LET s == bySerial
                 j == [NewJob EXCEPT !.at = "queued", !.session = s,
                           !.uploader = uploader[s], !.dynamic = dynamic]
             IN /\ lock' = [lock EXCEPT ![s] = Append(@, u)]
                /\ IF lock[s] = <<>>
                   THEN Sent(u, j, 0)
                   ELSE /\ job' = [job EXCEPT ![u] = j]
                        /\ UNCHANGED <<sessions, open, bySerial, uploader, down, up,
                                       peer, inverter, registrations, history>>

\* The lock is passed on; what was looked up before it may be out of date.
StartQueued(u) ==
    /\ job[u].at = "queued" /\ Head(lock[job[u].session]) = u
    /\ IF Active(u, job[u].session, job[u].uploader)
       THEN Fail(u, "error") ELSE Send(u, 0)

\* One chunk too many; the first progress is enough; progress has no deadline.
BugExtraChunk(u) ==
    job[u].at = "got" /\ job[u].good /\ Send(u, job[u].number + 1)

BugAnyProgress(u) ==
    job[u].at = "progress" /\ job[u].queue # <<>> /\ Fail(u, "flashed")

BugNoDeadline(u) == job[u].at \in {"waiting", "got"} /\ Fail(u, "timeout")

\* The acknowledgement was received: compare it, go on to the next chunk.
Resume(u) ==
    /\ job[u].at = "got"
    /\ \/ ~job[u].good /\ Fail(u, "mismatch")
       \/ job[u].good /\ job[u].number < Chunks /\ Send(u, job[u].number + 1)
       \/ /\ job[u].good /\ job[u].number = Chunks
          /\ job' = [job EXCEPT ![u].at = "progress"]
          /\ UNCHANGED <<gateway, down, up, peer, inverter, registrations, history>>

ReadProgress(u) ==
    /\ job[u].at = "progress" /\ job[u].queue # <<>>
    /\ IF Head(job[u].queue) = "full"
       THEN Fail(u, "flashed")
       ELSE /\ job' = [job EXCEPT ![u].queue = Tail(@)]
            /\ UNCHANGED <<gateway, down, up, peer, inverter, registrations, history>>

\* wait_for gives up, also on an answer that came with the timer.
Timeout(u) == job[u].at \in Running /\ Fail(u, "timeout")

---------------------------------------------------------------------------
(* Session: frames of the inverter *)

\* Any acknowledgement of the magic will do.
BugAnyTail(u, f) == f.kind = "progress" \/ job[u].at = "waiting"

\* handle_client_frame for the active job u.  Progress counts from the start of
\* the upload, an acknowledgement only for the request it waits for.
Hears(u, f) ==
    \/ f.kind = "progress" /\ (u = f.upload \/ ~job[u].dynamic)
    \/ f.kind = "ack" /\ job[u].at = "waiting" /\ f.request = Request(u, job[u].number)

Heard(j, f) ==
    IF f.kind = "progress" THEN [j EXCEPT !.queue = Append(@, f.percent)]
                           ELSE [j EXCEPT !.at = "got", !.good = f.good]

ActiveJobs(s) ==
    {u \in Upload : /\ job[u].at \in Running
                    /\ job[u].session = s /\ job[u].uploader = uploader[s]}

\* A frame is offered to the uploader in use.  A registration creates a new one
\* and claims the serial, whatever the old one is doing.
HandleFrame(s) ==
    /\ s \in open /\ up[s] # <<>>
    /\ up' = [up EXCEPT ![s] = Tail(@)]
    /\ LET f == Head(up[s]) IN
       IF f.kind = "registration"
       THEN /\ uploader' = [uploader EXCEPT ![s] = @ + 1]
            /\ bySerial' = s
            /\ UNCHANGED job
       ELSE /\ job' = [u \in Upload |-> IF u \in ActiveJobs(s) /\ Hears(u, f)
                                        THEN Heard(job[u], f) ELSE job[u]]
            /\ UNCHANGED <<uploader, bySerial>>
    /\ UNCHANGED <<sessions, open, lock, down, peer, inverter, registrations, history>>

\* The end of a connection the inverter has left is noticed.
Close(s) ==
    /\ s \in open /\ peer # s
    /\ open' = open \ {s}
    /\ bySerial' = IF bySerial = s THEN 0 ELSE bySerial
    /\ up' = [up EXCEPT ![s] = <<>>]
    /\ UNCHANGED <<sessions, uploader, lock, job, down, peer, inverter,
                   registrations, history>>

---------------------------------------------------------------------------
(* The inverter *)

Connect ==
    /\ peer = 0 /\ sessions < MaxSessions
    /\ sessions' = sessions + 1 /\ peer' = sessions + 1
    /\ open' = open \cup {sessions + 1}
    /\ UNCHANGED <<bySerial, uploader, lock, job, down, up, inverter,
                   registrations, history>>

Register ==
    /\ peer # 0 /\ registrations < MaxRegistrations
    /\ registrations' = registrations + 1
    /\ up' = [up EXCEPT ![peer] = Append(@, Registration)]
    /\ UNCHANGED <<gateway, job, down, peer, inverter, history>>

\* The connection is lost, or the inverter reboots: after a flash, or not.
Leaves(reboots) ==
    /\ peer # 0
    /\ peer' = 0 /\ down' = [down EXCEPT ![peer] = <<>>]
    /\ IF reboots
       THEN receiving' = NoUpload /\ taken' = 0 /\ flashing' = NoUpload /\ percent' = "none"
       ELSE UNCHANGED inverter
    /\ UNCHANGED <<gateway, job, up, registrations, history>>

\* The request the inverter can make sense of next.
Expected(r) == r.number = 0 \/ (receiving = r.upload /\ taken = r.number)

\* It takes a request and may acknowledge it, or refuses it and may say so.
Serve(ok, answers) ==
    /\ peer # 0 /\ flashing = NoUpload /\ down[peer] # <<>>
    /\ LET r == Head(down[peer]) IN
       /\ ok => Expected(r)
       /\ down' = [down EXCEPT ![peer] = Tail(@)]
       /\ up' = IF answers THEN [up EXCEPT ![peer] = Append(@, Ack(r, ok))] ELSE up
       /\ IF ok THEN receiving' = r.upload /\ taken' = r.number + 1
                ELSE UNCHANGED <<receiving, taken>>
       /\ refused' = IF ~ok /\ answers THEN refused \cup {r.upload} ELSE refused
       /\ IF ok /\ r.number = Chunks
          THEN complete' = complete \cup {r.upload} /\ flashing' = r.upload
          ELSE UNCHANGED <<complete, flashing>>
    /\ UNCHANGED <<gateway, job, peer, percent, registrations, flashed>>

Flash(p) ==
    /\ flashing # NoUpload /\ percent # "full" /\ percent # p
    /\ percent' = p
    /\ flashed' = IF p = "full" THEN flashed \cup {flashing} ELSE flashed
    /\ up' = IF peer = 0 THEN up
             ELSE [up EXCEPT ![peer] = Append(@, Progress(flashing, p))]
    /\ UNCHANGED <<gateway, job, down, peer, receiving, taken, flashing,
                   registrations, refused, complete>>
---------------------------------------------------------------------------

UploadStep(u) == StartQueued(u) \/ Resume(u) \/ ReadProgress(u)

InverterStep ==
    \/ Connect \/ Register
    \/ \E reboots \in BOOLEAN : Leaves(reboots)
    \/ \E ok, answers \in BOOLEAN : Serve(ok, answers)
    \/ \E p \in Percent : Flash(p)

Next ==
    \/ \E u \in Upload : RequestUpload(u) \/ UploadStep(u) \/ Timeout(u)
    \/ \E s \in Session : HandleFrame(s) \/ Close(s)
    \/ InverterStep

Spec == Init /\ [][Next]_vars

\* Ready tasks of the event loop run and timers fire.  Nothing is asked of the
\* inverter or of the connection.
Fairness == \A u \in Upload : WF_vars(UploadStep(u)) /\ WF_vars(Timeout(u))

FairSpec == Spec /\ Fairness
---------------------------------------------------------------------------
(* Correctness *)

\* The inverter is never sent a chunk that does not continue the transfer it
\* is in: two uploads, an upload after a failed one, and an upload whose
\* uploader was replaced do not mix (Session._firmware_upload_lock).
Sequential ==
    peer # 0 /\ flashing = NoUpload /\ down[peer] # <<>> => Expected(Head(down[peer]))

\* What the client is told is true: the wait for progress begins when the
\* inverter holds the whole image, and "flashed" is said of a flash that
\* reached 100%, though progress is not tied to a request.
ReportsTruth ==
    \A u \in Upload :
        /\ job[u].at = "progress" => u \in complete
        /\ job[u].result = "flashed" => u \in flashed

\* An upload fails on an acknowledgement only if it is the inverter's answer to
\* one of its own requests, not one that was late for an earlier upload.
MismatchIsGenuine == \A u \in Upload : job[u].result = "mismatch" => u \in refused

---------------------------------------------------------------------------
(* Why: the inductive invariant of the proofs *)

\* A lock is held by the first of its queue, who alone may be running.
LockIsHeld ==
    /\ \A u \in Upload : job[u].at \in Running \cup {"queued"} =>
           /\ job[u].session \in 1..sessions
           /\ \E i \in DOMAIN lock[job[u].session] : lock[job[u].session][i] = u
    /\ \A u \in Upload : job[u].at \in Running => lock[job[u].session][1] = u
    /\ \A s \in Session : \A i \in DOMAIN lock[s] :
           /\ job[lock[s][i]].at \in Running \cup {"queued"}
           /\ job[lock[s][i]].session = s
           /\ \A k \in DOMAIN lock[s] : lock[s][i] = lock[s][k] => i = k

\* Nothing was sent before it was asked for, or on a connection yet to be made.
Asked(r) ==
    \/ job[r.upload].at = "answered"
    \/ job[r.upload].at \in Running /\ r.number <= job[r.upload].number
NothingUnasked ==
    \A s \in Session :
        /\ \A i \in DOMAIN down[s] : Asked(down[s][i])
        /\ \A i \in DOMAIN up[s] : up[s][i].kind = "ack" => Asked(up[s][i].request)
        /\ s > sessions => down[s] = <<>> /\ up[s] = <<>>

\* Chunks wait for what was sent before them; metadata may follow anything.
OneAtATime ==
    \A s \in Session : \A i \in DOMAIN down[s] :
        /\ i > 1 => down[s][i].number = 0
        /\ \A u \in Upload :
               (/\ job[u].at \in Running /\ job[u].session = s
                /\ down[s][i] = Request(u, job[u].number)) => i = Len(down[s])

Acked(s, u, n) == \E i \in DOMAIN up[s] : up[s][i] = Ack(Request(u, n), TRUE)

\* An acknowledgement that is on its way or was received is the latest news.
AckIsCurrent ==
    \A u \in Upload :
        (/\ job[u].at \in Running /\ job[u].session = peer
         /\ \/ job[u].at = "got" /\ job[u].good
            \/ job[u].at = "waiting" /\ Acked(peer, u, job[u].number))
        => down[peer] = <<>> /\ receiving = u /\ taken = job[u].number + 1

HeadIsExpected == peer # 0 /\ down[peer] # <<>> => Expected(Head(down[peer]))

\* On a connection where u was acknowledged in full, only u can be flashed.
Stored(s, u) ==
    \/ Acked(s, u, Chunks)
    \/ job[u].session = s /\ \/ job[u].at = "progress"
                             \/ job[u].at = "got" /\ job[u].good /\ job[u].number = Chunks
FullProgress(s) ==
    \/ \E i \in DOMAIN up[s] : up[s][i].kind = "progress" /\ up[s][i].percent = "full"
    \/ \E u \in Upload : job[u].session = s
                          /\ \E i \in DOMAIN job[u].queue : job[u].queue[i] = "full"
FlashIsOfStored ==
    \A s \in Session :
        /\ FullProgress(s) /\ peer = s => flashing # NoUpload
        /\ \A u \in Upload : Stored(s, u) =>
               /\ u \in complete
               /\ peer = s => flashing = u
               /\ FullProgress(s) => u \in flashed

RefusalIsGenuine ==
    /\ \A s \in Session : \A i \in DOMAIN up[s] :
           up[s][i].kind = "ack" /\ ~up[s][i].good => up[s][i].request.upload \in refused
    /\ \A u \in Upload : job[u].at = "got" /\ ~job[u].good => u \in refused

Inductive ==
    /\ TypeOK /\ LockIsHeld /\ NothingUnasked /\ OneAtATime /\ AckIsCurrent
    /\ HeadIsExpected /\ FlashIsOfStored /\ RefusalIsGenuine
    /\ ReportsTruth /\ MismatchIsGenuine
---------------------------------------------------------------------------

\* Every client is answered, whatever the inverter and the other clients do.
AnswersEveryClient ==
    \A u \in Upload : job[u].at # "new" ~> job[u].at = "answered"
=============================================================================
