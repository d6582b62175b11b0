# A verification of the FoxESS local gateway

The gateway is a Python daemon that stands in for the FoxESS cloud on the local
network. An inverter connects to it over TLS and sends frames; the gateway
decodes them, publishes to MQTT for Home Assistant, takes commands from there,
and can relay everything to the real cloud. It is one asyncio event loop, plus
the network thread of the paho MQTT client, plus whatever the inverter, the
broker, Home Assistant and the cloud do meanwhile.

The modules here are translated from `src/foxess_local_cloud/`. TLC checks them
on small instances, and TLAPS proves what matters most for every instance.
`PROJECT.json` lists the runs, which source lines each definition models, the
hazards of the code, and the mistakes each property was tested against.

## The system

| Component | State it keeps | Operations | Models |
| --- | --- | --- | --- |
| Power limit control: `FoxessLocalCloud` and `Session` (server.py), `LocalControl` (local_control.py) | desired setpoint, command generation and confirmed generation per serial (outlive a connection); outstanding device keys, pending writes and reads, settle and wired flags per `Session` | take a setpoint, write, acknowledge, reject, time out, read back, settle, re-apply | `PowerLimit`, `Setpoint`, `PowerLimitLive` |
| MQTT publisher: `MqttPublisher` (mqtt.py), telemetry freshness (server.py) | connected flag, announced / cleared sets, command handlers; last telemetry, stale serials | connect, publish, announce, subscribe, withdraw, mark stale, watchdog, paho's callbacks | `MqttPublisher` |
| Firmware upload: `FirmwareUploader` (firmware.py), control socket and `Session.upload_firmware` (server.py) | active flag, expected tail, future, progress queue, session lock | request, send metadata and chunks, acknowledge, read progress, time out | `FirmwareUpload` |
| Session table and dispatch (server.py) | `sessions_by_serial`, model, firmware and serial of a `Session` | connect, registration, product info, telemetry, end of a connection | the parts each component above sees, in its module |
| Firmware capture: `FirmwareCapture` (firmware.py) | transfer metadata, data, expected chunk, progress task, files on disk | metadata, chunk, save, acknowledge, simulated progress | `FirmwareCapture` |
| Relay (server.py) | two buffers, two tasks, pending writes and reads of the cloud, upstream connection | forward both ways, filter injected answers and captured firmware, note commands, end, fall back to local mode | `RelaySession`, composed of two `RelayStream` |
| Framing and Modbus (protocol.py) | a byte buffer | extract, classify, build | `RelayStream` (extraction), `RelaySession` (classification) |
| BLE provisioning (ble_provision.py and its tool), bootstrap answers (protocol.py) | a client, a queue of frames, a bootstrap step | connect with retries, answer, write, await, clean up | `Provisioning` |
| Telemetry decoding and fault state (telemetry.py, server.py) | last fault | decode, update | no |
| Configuration, certificate, start-up, systemd watchdog, installer, tools | none worth a model | read a file, call a program | no |

How they interact. A `Session` is a coroutine per connection. It calls the
publisher directly, which calls paho. A command from Home Assistant arrives on
paho's thread, which looks up a handler and hands a coroutine bound to one
`Session` to the loop. The same thread runs `_on_connect` and `_on_disconnect`,
over dictionaries the loop changes, with no lock. Watchdog tasks look at the
publisher and at telemetry ages. Upload requests come from a Unix socket, find a
`Session` through the table, and wait for frames that Session receives. In relay
mode a Session is two coroutines under one `asyncio.gather`, one per direction,
and the gateway's own requests go out between the cloud's.

What is hard:

* **Several commands in flight.** A write waits up to its timeout while newer
  writes, readbacks and re-applies are sent; outcomes come back in any order,
  or in the same loop turn as the timer.
* **Reconnects.** An inverter makes a new connection before the old Session has
  noticed the end of its own. Old tasks, frames and handlers survive for a while.
* **Two threads.** An iteration over the handlers may meet a dictionary that
  changed size; the exception ends the network thread silently.
* **Lost messages.** MQTT publishes at QoS 0 are dropped without a connection,
  and the gateway's memory of what it published is only repaired in places.
* **Uploaders replaced under an upload**, late acknowledgements and progress
  that names no request.
* **Two streams, read in pieces.** Frames of two owners share a stream and arrive
  cut anywhere; either peer can leave, either direction can raise.
* **Two masters.** The cloud and Home Assistant write the same register, and
  answers of one overtake requests of the other.
* **A cloud that repeats itself.** Captured frames are answered on its
  connection; it repeats what was answered late, starts over, or turns to
  another image, and a save can fail after the last chunk was taken.

### What makes each component correct

* Power limit: confirmed means executed; the newest command wins at the
  inverter; nothing confirmed is sent again; what is pending gets through in the
  end; Home Assistant shows what is confirmed; commands go to the live
  connection.
* Publisher: exactly the topics with a handler are subscribed; handlers do not
  stay deaf; status and availability recover; stale data is not shown as good;
  what the publisher believes to be retained is.
* Upload: transfers do not mix; what the client is told is true; a client is
  always answered.
* Capture: the final acknowledgement follows a complete, verified, saved image;
  a requested chunk exists; a cloud that insists succeeds, and sees 100% where
  progress is played.
* Relay: each peer gets the other's frames whole and no answer it did not ask
  for; both directions end together; whoever wrote last, what is shown at rest is
  what the register holds.
* BLE provisioning: success means credentials the inverter has accepted; every
  attempt ends.

## Modules

| Module | What it is |
| --- | --- |
| `PowerLimit` | power limit control of one inverter, with MQTT handler, loop, connections and the inverter |
| `Setpoint` | the promise to Home Assistant, abstractly: commands are numbered, land in order, and only a landed one is confirmed |
| `PowerLimitLive` | `PowerLimit` with the fairness of the loop and of connections |
| `PowerLimitProofs` | type correctness, inductive invariant, safety and refinement |
| `PowerLimitViewProofs` | what Home Assistant sees, and where its commands go |
| `MqttPublisher` | the publisher between two threads, the broker and freshness |
| `MqttPublisherProofs` | type correctness, inductive invariant, subscriptions |
| `FirmwareUpload` | upload requests, lock, uploaders, acknowledgements, progress |
| `FirmwareUploadProofs` | its inductive invariant, sequential transfers, true reports |
| `FirmwareCapture` | a transfer of the cloud, answered in the inverter's place and saved |
| `FirmwareCaptureProofs` | type correctness, whole images on disk, true acknowledgements |
| `RelayStream` | one direction of the relay: reads, extraction, filter |
| `RelayStreamProofs` | whole frames, none of the gateway's |
| `RelaySession` | a relayed Session: two streams, injected requests, the cloud's commands, the ends |
| `RelaySessionProofs` | the refinement of `RelayStream` in both directions, what the peers hear, types, the state topic at rest, and how it ends |
| `Provisioning` | attempts to give an inverter its WiFi credentials over Bluetooth |
| `ProvisioningProofs` | its inductive invariant |
| `MC...` | values and symmetry for TLC's instances |

### PowerLimit

One serial: the dictionaries are keyed by serial and no step touches two keys.
`desired`, `gen`, `confirmedGen` are `desired_active_power_limit` and the two
generation dictionaries; `owner` is `sessions_by_serial`; `handler` the command
handler; `scheduled` coroutines handed to the loop. A `Session` has the flags
`serial`, `wired`, `telemetry`, `settle`. `requests[s]` holds every injected
request; an index is the device key, so its domain is
`LocalControl._outstanding`, which never shrinks. A request is *waiting*, *acked*
or *rejected* (its future is resolved and its task has not run), or *done*.
`fromInv` and `toInv` are the connection; `register`, `landed` and `executed` the
inverter, the last one the history of the commands it has executed.

One action per handler or continuation, cut exactly at its awaits: `HaCommand`
(MQTT thread), `RunSetpoint`, `ConfirmWrite`, `RejectWrite`, `TimeoutWrite`,
`ReadbackTimeout`, `RunSettle`, the `Handle...` actions of `handle_frame`,
`Connect` and `Close`. `TimeoutWrite` is possible on a resolved future, because
`asyncio.wait_for` may report the timer that fired in the same turn.

The inverter is external: one connection at a time, requests served in order.
`Quirks` says what else it may do: be *mute*, *refuse*, or have *late frames* of
an abandoned connection arrive after a newer one was made. Its firmware, and so the kind
of its product information, is that of a connection unless `Repeated` lets it change
within one.

### MqttPublisher

The step of a thread ends where the other one can see a difference: `loop.at`
and `net.at` are program counters within the publisher's functions. `subs`,
`status`, `availability`, `sensors`, `slider` are what the broker holds. A message
counts as delivered if the connection is up and the network thread lives
(`Delivers`). A connection can drop, the thread can die (by itself or by the
iteration in `_on_connect`), and the broker sends wills, also late ones of an
earlier client. `TelemetryArrives`, `ProductInfo`, `OldProductInfo` and
`Registration` are the calls `Session` makes.

### FirmwareUpload

One inverter. `job[u]` is a control request and its `upload` coroutine: *queued*
on the lock, *waiting* for an acknowledgement, *got* one (future resolved, task
not resumed), reading *progress*, *answered*. `lock[s]` is the asyncio lock of a
Session with its FIFO of waiters. An uploader is a Session and a number, because
every registration creates one and frames are offered to the last. That `upload_firmware`
refuses a writer that is already closing (server.py:1148) is left out: the model
sends on it, where the frame is lost or raises, and the client is told of a timeout or
an error. This only adds behaviours. What a queued
request looked up before the lock stays as it was, as in the code. The
acknowledgement's tail is the pair of upload and request number; the counter
behind it is 24 bits wide and seeded from a clock, so tails are taken as unique.
`drain` is taken to return at once or raise: one request is outstanding at a
time, far below the write buffer's limit. The inverter takes requests in order,
acknowledges when it likes, refuses, stays silent, and reboots after a flash
(docs/FIRMWARE_RESEARCH.md).

### FirmwareCapture

`metadata`, `data`, `expected` are the fields of the class, `task` its progress task;
`file` and `manifest` the directory. Each action is one path of
`handle_upstream_frame`, from the frame to the `return`. Between the save and the
acknowledgement nothing else runs, so they are one action; the places where
`_save_capture` can fail (before `os.replace`, before the manifest, within it)
are the outcomes of `HandleUnsavedChunk`. A stop of the process at those places
is that action followed by `SessionEnds`.

The chunks of an image are told apart by transfer, index and content, so a
mixture of two images of the same variant is a state the model can be in; the
CRC is taken to find every difference. A chunk may be *bad* (bytes replaced)
or *long* (more bytes than its share). `Dynamic` transfers have a magic of their
own (variant 7f/99); the others share one, and the gateway cannot tell their
chunks apart.

The progress task is `progress` and the variant whose `magic` it plays: that of the
capture that started it, also when other captures complete meanwhile. Such a capture
of the same variant is shown 100% by the running task. One of another variant gets no
progress under its own magic at all; the code starts none for it and
`ProgressFollows` does not claim it.

The cloud is external. It has one frame outstanding, repeats it, believes late
acknowledgements or does not, sends the chunk it is asked for, and starts over or
turns to another transfer whenever it likes. Its answers travel in order.

### RelayStream and RelaySession

A frame is three cells: the two bytes of its start marker, and the rest, complete
with its last byte. Reads may end after any cell, so a frame arrives in up to
three pieces and a read may hold several frames. `base` and `read` delimit the
buffer; `passed` is what was written to the other side. `Rest` is what
`extract_frames` leaves: nothing, or an unfinished frame whose marker is
complete. `SplitMarkers` says whether a read may end within a marker (see
Findings). Damaged frames are left out: the streams come out of TLS.

`RelaySession` has one such stream per direction (`Up`, `Down`, by `INSTANCE`) and
shows with `ImplementsStreams` that whatever else happens, each direction is
one. A read is one action: from `reader.read` to the write to the other side
nothing waits, except `drain` and a capture's acknowledgement, after which the
code uses nothing that was read before. `HandleUp` is `handle_frame` in order over the frames of the
read, `HandleDown` is `handle_upstream_frame`. A malformed write-multiple command
raises there (a KeyError), and so may the acknowledgement of a captured frame, with
nothing of that read written (`Raises`). Answers to a firmware upload are filtered on
the way up like those to injected requests (server.py:854-857), and
no upload is under way in this model. `Over` is the
`finally` clause of a direction, `Finish` the return of `gather` (or its exception,
which leaves the other task running) and the `finally` clause of `handle_client`.

A device key is who gave a command and its number among theirs; the answer
carries it back. `requests` are the gateway's own (a setpoint, a re-apply, the
startup read, readbacks), `pendingWrites` and `pendingReads` what the code notes
under those names. The tasks that wait for answers are `ConfirmWrite`,
`GiveUpWrite` and `ReadbackTimeout`.

What it takes as given: product information comes with the registration, and its
firmware supports control; the inverter says nothing before the relay
is up that is read later than that; exceptions to reads only end them
(`PowerLimit`); a Session that has fallen back to local mode is `PowerLimit`'s.
`missed` remembers that an answer was not waited for: then the state topic may
be wrong at rest, since nothing asks again.

### Provisioning

`stage` is the wait an attempt is in, `left` its time, `queue` the frames
notified and not looked at. A wait takes a frame of its family (bootstrap) or
function (commands) and passes over the others; a bootstrap frame out of turn
ends the attempt, as `BootstrapResponder` has no answer. A write without response
may be lost, and raises when the link is known to be gone; writing credentials also
raises when they are too long or too short. A failed disconnect is swallowed, so an
attempt may end with its link up. The inverter of the model answers a write once, and
session and queue are new with each attempt, so an answer can be too late for its
wait and cannot come from an earlier attempt.

Two things the code does and the model says as it does them. The end of the
last wait, whatever the reason, counts as success: provisioning may report
success and the commit have been lost. And a wait ends with `asyncio.TimeoutError`
rather than `ProvisioningError` when nothing at all came at its end; a caller
that catches only the latter sees a traceback. The payload of the answer to the
credentials is not looked at by the code; the captures it was made from have
no refusal, and the model takes an answer for an acceptance.

## Runs

| Run | Instance | Shows |
| --- | --- | --- |
| `power_limit_reconnect` | two Sessions that are reused without limit, two commands, mute inverter, firmware with and without control | `Inductive`, `ConfirmedIsApplied`, `ConfirmedIsShown`, `RoutedToPeer`, `NewerWritesWin`, `OnlyPendingIsSent`, `ConfirmationIsEarned`, `ImplementsSetpoint` |
| `power_limit_heals` | two Sessions, one command, fairness | `SelfHealing`, `StartupWorkIsDone` |
| `power_limit_handler` | two Sessions, no command, late frames, repeated registrations, changes of firmware, fairness | `CommandableAgain` |
| `mqtt_recovers` | one inverter, two failures, one withdrawal | `Inductive`, `Subscribed`, `Commandable`, `OnlineAgain`, `FreshIsShown` |
| `mqtt_stale` | violation | a lost *offline* is never repeated |
| `mqtt_memory` | violation | a lost clearing is remembered as done |
| `firmware_upload` | two uploads of two chunks, two connections, two registrations | `Inductive`, `Sequential`, `ReportsTruth`, `MismatchIsGenuine`, `AnswersEveryClient` |
| `firmware_capture` | three transfers of two chunks, two of one variant, two failures, two repetitions of a frame | `DiskIsWhole`, `AckedIsOnDisk`, `CaptureCompletes`, `ProgressFollows` |
| `firmware_capture_retry` | violation | after a failed save a chunk is asked for that does not exist |
| `relay_session` | four frames of the inverter, one of the cloud (of any kind), one setpoint, readings that end anywhere but within a marker | `PeersHearTheirOwn`, `ImplementsStreams`, `RestIsTrue`, `EndsTogether` |
| `relay_split` | violation: one direction, three frames, readings that end anywhere | a frame of the gateway's is forwarded whole |
| `ble_provisioning` | two connection attempts, three frames queued, attempts without limit | `SuccessIsAccepted`, `AttemptsEnd` |

Why the bounds are enough. The races of power limit control need an older, a
newer and a re-applied write: two commands over a reconnect (the re-apply is the
third write). Sessions are reused once
nothing refers to them, so the number of connections is not bounded.
`MaxWire = 1` bounds the frames in flight per connection. The frames queue behind
each other in one task, and a longer queue adds no order that the inverter's
free choice of the moment it sends does not give. With the publisher one key in
the dictionary is enough to change it under the iterator; the proof covers any
number. Two failures let a connection be lost while the recovery from the first
is under way. With uploads, two requests meet at the lock or follow each other;
two chunks distinguish first, middle and last acknowledgement; two registrations
are two on one connection or one on each of two. A capture needs two transfers of
one variant to mix and a third of another to be refused; with three frames in
flight a repeated frame, its successor and a late acknowledgement overlap; two
failures are, for example, a failed save and a lost connection after it. The progress
task goes through one percentage, the last: the others leave no trace in any property. What
counts as a failure is everything the fair cloud has to be spared in the end: bad
frames, wrong targets, failed saves, lost connections, and impatience.
In the relay, four frames of the inverter are a registration, the answers to a write
of the cloud and to one of Home Assistant, and a readback: two writes that cross, both
successful, reach rest within the bound. Telemetry, a read of the cloud or the
settle task take the place of some of these. One command of the cloud can come
before, between and after the gateway's. The inverter may refuse the cloud's write (`Refuses`); refusals
of the gateway's own are in the runs of `PowerLimit` and, with these, in the proofs. The first limit is one value of two that
are otherwise alike. Longer conversations are left to the proofs, which cover any number
of frames and commands, for all of these but `EndsTogether`. In BLE provisioning three queued frames let
an answer stand behind a stale and a repeated one.

`CHECK_DEADLOCK FALSE` stands in the runs whose bounds can be used up: the last
command was given and settled, the relayed Session is over or its peers have said all, every upload was answered and the inverter stays
away, every transfer was captured. The publisher never stops, and its runs check
for deadlock.

### Fairness

* Gateway (`PowerLimitLive`, `MqttPublisher`, `FirmwareUpload`): weak fairness of
  the tasks that are ready and of timers, as asyncio runs its ready queue in
  order. The MQTT watchdog and the telemetry of a live inverter come
  back every interval, between other callbacks: strong fairness, since another
  callback may be under way each time.
* Connections (`PowerLimitLive`): a pending setpoint needs a connection that
  lasts. Of infinitely many connections some are *steady*: they are kept until
  the Session has settled and its requests were answered. An idle one is lost in
  the end. Without this an inverter that never answers never gets its setpoint.
  `CommandableAgain` needs them too: on a steady connection supported firmware is
  announced. Late frames of older connections and repeated registrations are
  not excluded.
* Network thread and broker: the system schedules the thread, and a broker gives
  up on a client that does not answer its keepalive.
* `RelaySession`: a direction that can end does, and `gather` returns: one weak
  fairness over these steps, of which there are at most three. Nothing is assumed of
  the peers.
* `Provisioning`: connecting has a timeout, the clock advances, and a wait that is
  over ends. That frames are looked at is not assumed.
* Nothing is assumed of the inverter in `FirmwareUpload`: every wait has a timer.
* `FirmwareCapture`: frames are read and the progress task runs, as above. The
  cloud hears what it is sent and, when nothing is under way any more and a
  transfer is not done, starts one with good frames. The code keeps the
  connection alive because "the cloud can retry", which is a promise only to a cloud
  that does. Failures are bounded, so they cease.

### Findings

Four properties that documentation or comments state do not hold.

* `StaleIsOffline` (server.py:356): the one *offline* message may be dropped; the
  retained topic stays *online* until telemetry resumes and stops again.
* `MemoryIsRetained` (mqtt.py:258): an undelivered clearing of the slider is
  remembered as done for the rest of the run.
* `AsksForExistingChunk` (firmware.py:372): after a failed save, or a CRC
  mismatch, the repeated last chunk is answered with a request for the chunk after
  the last. Only new metadata saves the image; `CaptureCompletes` shows it does.
* `HidesOurs` (protocol.py:85): if a read ends between the two bytes of a start
  marker, `extract_frames` throws the first byte away. Nobody recognises the
  frame, and the relay forwards it: the cloud gets an answer to a request of
  the gateway's, and the gateway's own request times out. (In local mode the frame is
  lost as well.) `relay_session` and the proofs about it assume that no read ends there.

Two more observations come out of `PowerLimit`, and no run keeps them. The retained
result topic tells each command's outcome as it settles, so it can end on the
timeout of an older command (server.py:613). And a second registration on one
connection withdraws the command handler, which the following product
information does not restore (server.py:1012, 516): `RoutedToPeer` is checked for inverters
that register once per connection, and `CommandableAgain` says of the others that a
later connection restores it. A third comes from `FirmwareCapture`: LOCAL_CLOUD_PI.md
speaks of the observed progress sequence, which a capture of another variant than the
one whose progress is playing does not get (firmware.py:436).

## Proofs

`PowerLimitProofs` proves, for any sets of Sessions, percentages and quirks and
any bounds:

* `TypeCorrect`;
* `InvariantHolds`. None of the safety properties is inductive: that a
  confirmation is earned depends on acknowledgements in flight. `Inductive` says
  generations are ordered (confirmed ≤ landed ≤ given), writes on the wire are no
  older than what landed and are in order among themselves, and device keys tie a
  request on the wire to the write of that generation, and a successful answer, or an
  acknowledged write, to one whose command was `executed`;
* `ConfirmedMeansApplied`, `NewestWriteWins`, and `KeepsPromise`: `PowerLimit`
  implements `Setpoint`.

They rest on the assumptions of the module and on the inverter serving requests
in order on one connection.

`PowerLimitViewProofs` goes on from there to Home Assistant's side:

* `CommandsReachThePeer`, if the inverter registers once per connection and the
  frames of an abandoned connection do not arrive after it is back. The invariant
  is `OneConnection` (unread frames are of one Session, that of the inverter if it
  is connected) and `RegistersFirst`: while a registration is unread its Session
  has no serial and is not wired, so dropping the handler loses nothing;
* `StateTopicIsRight`, if abandoned connections are mute. A readback may carry a
  value that was overwritten since. `OlderValueComesBefore` says that then no
  acknowledgement of the newest command has been handled, waits for its task, or is
  ahead of that readback; otherwise a confirmed setpoint would be replaced by an
  older one. The step that needs the inverter's order is its read: the
  register is only older while the newest command has not landed;
* `ConfirmationsAreEarned` and `OnlyPendingWrites`, without those conditions. The first
  speaks of every *confirmed* on the result topic, those of superseded writes included,
  which leave the confirmed generation alone. It says that each is that write's own: the
  key binds the answer to the write, and `WriteEnds` that no step but the write's
  own task ends it.

`power_limit_reconnect` has an inverter that meets those conditions, `power_limit_handler`
one that does not.

`MqttPublisherProofs` proves, for any finite set of inverters and any number of
failures and registrations, `PublisherTypeCorrect`, `PublisherInvariant` and
`CommandsAreSubscribed`. The invariant says where subscriptions and handlers may
differ: in the topic the loop is about to (un)subscribe, and in those the loop of
`_on_connect` has not visited. The exchange of two keys under the iterator, which
does not raise, is the case that needs the visited set.

`FirmwareUploadProofs` proves, for any number of uploads, chunks, connections and
registrations, `UploadInvariant` and from it `UploadsAreSequential`, `ReportsAreTrue`
and `MismatchesAreGenuine`. The invariant has a part for each thing the code relies
on without a check. `LockIsHeld`: the first in the queue of a Session's lock, and nobody else, may be
running there. `NothingUnasked`: no request or acknowledgement is ahead of its upload.
`OneAtATime`: what an upload sends comes last on its connection, and only metadata can stand behind
anything, so a chunk is never queued behind a stale one. `AckIsCurrent`: a
good acknowledgement that is on its way, or was received, leaves the inverter with
nothing else to do and in the transfer it acknowledges; the next chunk is therefore
expected (`HeadIsExpected`). Progress carries neither magic of a fixed protocol's
upload nor a tail; that it is still of the right image rests on `FlashIsOfStored`: on
a connection where an upload was acknowledged in full nothing else can be flashed.

`FirmwareCaptureProofs` proves, for any transfers, any number of chunks and any
bounds on failures and frames in flight, `CaptureTypeCorrect`,
`DiskHoldsWholeImages` and `AcknowledgedIsCaptured`. Type correctness is the
invariant here: it ties `data` to `expected`, and a chunk's frame to its transfer.
The argument is `FinalComesLast`: only `HandleLastChunk` adds a final
acknowledgement; and `LastOfImage`: the frame it answers is of the transfer whose
image was completed, though only the variant was compared. It takes the CRC to
distinguish images, as the model does.

`RelayStreamProofs` proves, for any number of frames of any owners and if no read
ends within a marker, `StreamFaithful`: what was passed on are exactly the whole
frames of the other side's own that have left the buffer. The invariant is
`AtFrameStart`: between two reads the buffer is empty or a bare marker at the
start of a frame. `StreamHidesOurs` is the consequence that `relay_split` refutes
without the assumption. `StreamTypes` needs no assumption: wherever reads end, the
buffer is a part of what was sent.

`RelaySessionProofs` proves that `RelaySession` implements `RelayStream` in both
directions (`SessionImplementsStreams`): each step of either peer, of a
reading task, of the requests and of the ends is a step of one stream or a
stutter. With the theorem above it gives `SessionPeersHearTheirOwn`.

The same module proves `SessionTypeCorrect`, and `SessionRestIsTrue`: however the
commands of the cloud and of the gateway cross, for any number of them, a relay
that is at rest and missed no answer shows the register's value or none. Two tasks
put values on the state topic, and neither waits for the other. `RestIsTrue` speaks
of one moment only; the invariant is `SessionInv`, whose part `Undisturbed` holds
while both directions run and nothing was missed:

* `ShownIsTrue`: the state topic is right or a correction is owed. Owed is an
  unread acknowledgement, an acknowledged write that was not taken up
  (`_apply_active_power_limit` will read the register back), or such a read.
* `AnswersInOrder`: an unread answer tells the register's value, or an
  acknowledgement comes after it. The last answer that is shown is therefore right,
  or something is owed.
* `AnswersExpected`: the command behind every answer, and behind every request
  the inverter has not served, is still known: noted if the cloud's, waited for if
  the gateway's. Without it the correction could arrive and be ignored.
* `AnsweredOnce`: no two of them have the same key, so handling one answer does not
  make the gateway forget another.
* `NothingBefore`, with `Introduced`: nothing is shown or asked before the
  registration was handled, and telemetry comes after it, so an answer that is
  ignored because the serial is unknown leaves no wrong value behind.

It takes that no read ends within a start marker: otherwise a frame can be lost
from the buffer, and the answer in it.

`SessionNeverHangs` proves what `EndsTogether` rests on besides fairness. From the
moment a peer leaves or a direction is over, until the Session has ended whole, the
guard of `Ends` or of `Finish` holds (`NeverStuck`); a guard that holds stays true
until its step is taken, and no such step is undone (`EndsForGood`), so there are at
most three. The invariant is `Closes`: a direction that is over has closed the side
it wrote to, which is what the other one reads from.

`ProvisioningProofs` proves `ProvisioningInvariant` for any number of connection
attempts and any deadline: an answer to credentials in the queue, or the wait for
the commit, means that this attempt's credentials were accepted.

Only model-checked: the liveness properties (`EndsTogether`, `SelfHealing`,
`StartupWorkIsDone`, `CommandableAgain`, `Commandable`, `OnlineAgain`, `FreshIsShown`, `AnswersEveryClient`,
`CaptureCompletes`, `ProgressFollows`, `AttemptsEnd`). Leads-to under fairness needs
ENABLED, which is out of this prover's reach.

## Not modelled

* Message and frame contents, CRC and resynchronisation after damage, Modbus
  encoders, logging, validation of configuration and images: conversions without
  state, which unit tests reach.
* Telemetry decoding and the fault state: a table of offsets, and a comparison of a
  frame with the one before it.
* Configuration, certificate, start-up, systemd watchdog, installer and tools: files
  and programs, no protocol.
* Fire-and-forget writes (timeout 0), the throttle `publish_min_interval_seconds`,
  graceful shutdown, a broker that loses retained messages: options and events
  the models leave out of the components they have.
* A Session that changes its serial, and the wrap of the 16-bit request counter:
  listed under `hazards` in `PROJECT.json`, with the reason.

## What would come next

1. The setpoint between a Session in relay mode and its successor: `RelaySession`
   composed with the reconnects of `PowerLimit`.
2. The key algebra of `LocalControl` with its 16-bit counter, and resynchronisation
   in `extract_frames` against a reference definition.
