# A verification development for the vng gateway

The repository is the software of an IoT gateway: an SDK (`sdk/`, C++) with an
event loop, MQTT channels, serial devices and BLE messages, and the services
(`services/`) built on it, each one process with one main thread.  This
directory holds TLA+ modules translated from that code, the TLC models that
check them on small instances, and theorems about them that TLAPS checks for
every instance.

Paths below are relative to the repository's root; `core/...`, `net/...`,
`devices/...` and the like mean `sdk/src/core/...` and so on.

## 1. Inventory

| Component | State | Operations | Talks to |
|---|---|---|---|
| `core::Executer` (core/coreexecute.cpp) | `_commands`, `_primary`, `_locker`, `_running`, `_code` | schedule, step, exec, exit | every thread that posts a command |
| `core::Synchronizer` (core/coresynchronize.cpp) | epoll handle, `_skipper` (eventfd), `_callbacks` by descriptor, array of events | start, stop, skip, append, update, remove, synchronize | Executer (as its primary command), descriptors' callbacks |
| `core::Application` (core/coreapplication.cpp) | executer, synchronizer, the instance for the signal handler | initialize, exec, schedule, exit, release | all |
| `net::Channel` (net/netchannel.cpp) | topics, each with its subscribers by token | subscribe, unsubscribe, publish, received | a broker, through one of the two clients below |
| `net::paho::Channel` (net/paho/netpahochannel.cpp) | client handle, packets published by delivery token | initialize, subscribe, publish, unsubscribe, release; callbacks on the library's thread | Executer (posts Receive and Delivery commands, exit when the connection is lost) |
| `net::mosquitto::Channel` (net/mosquitto/netmosquittochannel.cpp) | client handle, packets | the same, and read/write as a descriptor's callback | Synchronizer |
| `net::Subscriber` (net/netsubscribe.cpp) | channel, topic, token | subcrible, unsubcrible, received | Channel, Executer |
| `net::Application` (net/netapplication.cpp) | the channel | initialize, release | Channel, the service |
| `devices::serial::Device` (devices/devicesdevice.cpp) | `_device`, `_pendings` with `_written` each | open, write, close; read/write callbacks | Synchronizer, a Protocol |
| `devices::slip`, `devices::slbp` (devices/devicesprotocol.cpp) | `_escaping`, `_decoded`; `_newline`, `_value`, `_position`, `_packet` | encode, decode, reset | Device, CRC16 |
| `utils::CRC16` (utils/utilscrc16.cpp) | none | calculate | the protocols |
| `ble::gap::Packet` (ble/gap/blegappacket.cpp) | payload of 31 bytes, `_length` | setPayload, setFiled, field, remove | the services |
| `comm::*` (comm/) | a message's bytes | construct | the services |
| `std::List`, `std::Hash` (std/) | nodes, size | add, remove, find | the SDK |
| libcoap's message layer (net/coap/libcoap/src/net.c) | `sendqueue` of outstanding confirmable messages with relative times, `sendqueue_basetime` | coap_send_confirmed, coap_retransmit, coap_dispatch, coap_cancel_all_messages | the network, the server's loop |
| libcoap's observers (net/coap/libcoap/src/resource.c) | a resource's `subscribers`, each with its counters and `dirty`; the resource's `dirty`, `partiallydirty` | add, touch, delete observer; coap_check_notify, coap_handle_failed_notify | the message layer |
| the sensor's HTTP client (services/light/sensor/src/httpclient.cpp, timerfd.h, zcloudclient.cpp) | curl's multi handle, a `SocketWatcher` for each socket, a timerfd, response handlers by request | sendRequest, `_socketFunc`, `_multiTimerFunc`, `_checkForCompleted` | curl, Synchronizer |
| services (services/*/*) | a private object with device, protocol, subscribers | initialize, release, parse, received | everything above |

How they interact.  A service's `main` runs `Application::exec`: it starts the
synchronizer, initialises the channel and the service, and then runs
`Executer::exec`, which executes commands one after the other and, as its
primary command, waits in `epoll_wait`.  Descriptors (serial port, mosquitto's
socket, curl's sockets, the eventfd) are served by callbacks from there.  The
Paho library has a thread of its own: it turns each message and each delivery
into a command and posts it with `Application::schedule`, which locks, pushes,
unlocks and writes the eventfd.  `exit()` comes from SIGINT and from the Paho
thread, without lock and without a wakeup.

What is hard about it:

* the interleaving of posting threads, of commands that post, of the signal
  handler and of the main thread, around a queue that is locked only in parts
  and an eventfd that is written after the lock is released;
* what happens between the report of a descriptor and the call of its callback;
* the registration with epoll as a copy of the state of a queue;
* short and failing writes, and damaged bytes on the serial line;
* tokens and tables that outlive the call that created them (topics, published
  packets);
* callbacks that delete each other, or themselves, inside one batch of events;
* times kept relative to the element before, in a list that is cut and joined
  anywhere; answers that come late, twice or never and race a retransmission;
* a notification that could not be sent and must not be forgotten, and counters
  of failures that decide who is dropped;
* partial failures in `initialize` and the release that follows.

What makes each component correct: no wakeup is lost, commands run once and in
order, nobody uses the loop after it stopped (event loop); EPOLLOUT is armed
exactly while something waits, frames are whole and in order (serial device);
what is decoded was encoded, damage is bounded and changed bytes are detected
(framing); each message is offered to exactly the subscribers of its topic, and
executed once and in order by those that take it, and no packet is freed twice
(channel); the descriptor table and the kernel's agree
(synchronizer); what is watched is what curl asked for, and each answer finds
its handler (HTTP client); what is set or received is found and parsed back (GAP
packet, empty fields at its end apart); an unanswered message is sent again in order of its time and settled in
the end (CoAP messages); no observer that is registered at the last change and
stays misses it, and none is dropped but for its own silence (CoAP observers);
what `initialize` acquired is released exactly once (applications).  `PROJECT.json` lists the hazards line by line with the
properties that cover them.

## 2. Modules

| Module | Models |
|---|---|
| `CommandQueue` | abstract: what `Application::schedule` promises |
| `EventLoop` | Executer, Synchronizer's loop and eventfd, Application, the posting threads, exit and release; implements `CommandQueue` |
| `EventLoopProofs` | theorems about `EventLoop` |
| `SerialDevice` | the outgoing side of `serial::Device` with its registration at the synchronizer |
| `SerialDeviceProofs` | theorems about `SerialDevice` |
| `Crc16` | `CRC16::calculate` and the polynomial division it stands for |
| `Slip` | `slip::Protocol`, an encoder and a decoder on a line that damages bytes |
| `SlipProofs` | theorems about `Slip` |
| `Channel` | `net::Application` bringing up `net::Channel`, its Paho implementation and the Subscribers, the MQTT library's thread, and release |
| `ChannelProofs` | theorems about `Channel` |
| `HttpClient` | the sensor's HTTP client: socket watchers, timer, completions, and the synchronizer's batch of raw callback pointers |
| `HttpClientProofs` | theorems about `HttpClient` |
| `GapPacket` | `ble::gap::Packet`: building, updating, searching and parsing an advertisement |
| `GapPacketProofs` | theorems about `GapPacket` |
| `RetransmitTimers` | abstract: what libcoap's queue of outstanding messages promises |
| `CoapSendQueue` | libcoap's queue of outstanding messages, retransmission and answers; implements `RetransmitTimers` |
| `CoapSendQueueProofs` | theorems about `CoapSendQueue` |
| `CoapObserve` | the observers of one resource, its notifications and their failures |
| `CoapObserveProofs` | theorems about `CoapObserve` |
| `MC...` | the instances TLC checks, named after their modules |

### EventLoop

One action is one piece of code between two points at which another thread can
see or change what it uses: a lock or unlock, a system call, the test of
`_running`.  `pc` says where each actor is; the main thread's labels follow
`exec` (`exec`, `reset`, `test`), `step` (`copy`, `clear`, `run`, `call`,
`take`, `restore`) and `synchronize` (`wait`, `dispatch`).  `Lock`, `Push`,
`Skip` are `schedule` on any thread, the main one included when a command or a
callback posts.

* `Copy` holds the lock that `Clear` releases, as in `step`; `Take` and
  `Restore` are each one critical section.
* `Test` drops the queue without the lock when `_running` is false
  (coreexecute.cpp:73).  As an interleaving this is modelled as it is; the
  memory damage that a push at the same instant could do to the `std::list` is
  not.
* `_running` and `_code` are plain variables written from other threads.  They
  are modelled as sequentially consistent: the loop around them calls mutex
  functions and `epoll_wait`, so the compiler has to read them again.  Before
  `exec` the constructor leaves `_running` unset, so `Init` allows both values.
* `Release` waits until no thread is in a callback.  That is what
  `MQTTClient_destroy` does for the library's own thread and is the one
  assumption about Paho on which `SynchronizerAlive` rests; the mutant
  `ReleaseAtOnce` shows that without it the property fails.
* One descriptor, ready at any time, stands for all; its callback may post.
* Commands carry no data.  `Source` says who creates which: a thread, another
  command (a `Subscriber` parses a message into a second command, so a message
  takes two trips through the queue), or a descriptor's callback.

Bounds: each command object is scheduled once, as in the code, and the set of
commands is finite; every thread asks for exit at most once.

### SerialDevice

A frame is an element of `Frames` with a size; the line is the sequence of
bytes the tty took.  `Report` is the return of `epoll_wait`; between it and
`Read`/`StartWriting`, `Device::write` may be called (`WriteFirst`,
`WriteRefused`, `WriteMore`), as commands and other callbacks of the same batch
do.  `Send`, `SendFails` are one `::write` in the loop of `write()`; `_written`
is a `uint32_t`, so a failing `::write` adds -1 modulo `Modulus`.  `Finish` is
the `update` at the end.  An `epoll_ctl` that fails (`UpdateFailed`) erases the
callback and leaves the kernel's registration.  `StartCrashes` is `write()` on
an empty list.  The tty's settings (`initialize`, `configure`) are folded into
`Open`; one that fails leaves the object as it was.

Bounds: `MaxIoErrors`, `MaxCtlErrors`; each frame is handed to write once.

### Crc16 and Slip

`Calculate` is the table-driven loop of the code with its 16-bit register;
`Remainder` is the reference, one bit at a time.  `Slip` keeps the decoder's
`_escaping` and `_decoded`; `Decode(n)` runs the whole `decode` over the `n`
bytes one read returned, for any `n`.  The encoder's buffer is sized by
`encodedSize`, a second copy of the escape rule, and both are modelled:
`Stuffed` and `Room` are a round of each loop.  The loops over bytes are recursive
functions, so that they can be reasoned about.  The checksum is the constant
operator `CRC16`: TLC runs with `Crc16`'s `Calculate`, and the theorems hold for any
checksum of 16 bits.  The line is not part of the repository: it may lose, change or invent a byte,
`MaxDamage` times.  The host is little endian, as the gateway's boards are, so
the checksum travels low byte first.  `reframed` is history: whether some damage
did more than change one data byte into another, that is, moved bytes or made or
removed an END or an ESC.

Both ends are the gateway's own code: the firmware at the other end is not in
the repository.

### Channel

`phase` is where the service's process is: `net::Application::initialize`
(`Connect`, one `Subscribe` for each topic of each Subscriber, `Run`), the loop,
and release.  `topics` is the channel's table: for each topic the next token and
the subscribers by token; `held` is each Subscriber's own table of the tokens it
was given.  `broker` is what was subscribed at the broker.

* The library's thread is `Arrive` and `DeliveryComplete`; each posts a command
  to the queue that `CommandQueue` specifies and `EventLoop` implements.
  `ExecuteReceive` calls every subscriber of the topic, and each posts the command
  it parsed or none: `received` returns without one when the packet is shorter
  than its header, when the service's `parse` returns NULL, and when the command
  cannot be scheduled (netsubscribe.cpp:31-48). Which of them make one is left
  open, for each message and subscriber; `declined` is the history of those that
  did not. `ExecuteParsed` is the service's command, executed by the loop.
* `Publish` keeps the packet under the token the library returns.  With QOS 0
  the library need not set it, so any token may come back, from `Publish` and in
  a report; `heap` says what became of each packet, `lost` which lost their entry.
* `Release` is reached on every path on which the client was created, by
  `SubscribeFails` too.
* The MQTT library and the broker are external: messages of the subscribed topics,
  in order, from the subscription at the broker on.  The services unsubscribe
  only when the loop has ended.

Bounds: `MaxArrivals`; one delivery report of each token in the queue at a time.

### HttpClient

`pc` is what the main thread is doing: nothing (`idle`, between two callbacks of
a batch or two batches), inside a call of curl (`sending`, `timer`, `watcher`),
or in `_checkForCompleted` (`reaping`).  `sockets` and `transfer` are curl's
view, `callbacks` the synchronizer's table, `heap` the watchers and what they
point to, `conn` each request's `socketWatcher`, `doomed` the `toBeDeleted` of
`_checkForCompleted`, `handlers` the response handlers of `ZCloudClient`.

* curl is external: while it has control it may open, change and close sockets,
  finish a transfer whose sockets are closed, and set the timer, in any order.
* `Report` makes the batch: every ready callback once, or twice when its socket
  can be read and written, in any order.  `CallWatcher` may call a watcher that
  an earlier call deleted; this, and `ReapCrashes`, end the behaviour (`crashed`).
* `SetTimer` takes the four kinds of value curl gives: -1, 0, some milliseconds,
  a second or more. `timerfd` is off, running, or expired and not yet read; when an
  earlier callback of the batch set the timer again, the read of `CallTimer` finds
  nothing and it goes on running.
* A transfer's sockets are its own; `epoll_ctl` does not fail; release is left out.

### GapPacket

The payload is an array of `Size` bytes.  `Field`, `Parse` and `Decode` are the
loops of `field` and `setPayload` with the bounds each has in the code;
`SetPayload` takes any payload of `Received` with any size of `Sizes`, of which
one is the -6 that the sensor converts to an unsigned byte.  `SetAgain` is
`setField` of a type that is there, with `remove()` byte by byte and its 8-bit
count, which wraps.  `fields` and `intact` are history: what was set, or what the
sender put into a payload (`Sent`, a reading of its format that does not use the
code's loops and reaches its last byte), and whether every size was the packet's
own and no field was set twice.  Data may be empty.  When memory behind the packet is used
(`overrun`), what follows is not modelled; nor is a search whose 8-bit position
wraps, for which a packet must have had a field set twice. `Size` is at most 255,
since the code keeps positions and lengths in bytes (BLE_PAYLOAD_SIZE is 31).

### CoapSendQueue and RetransmitTimers

libcoap is part of the tree and the SDK is built with it (`sdk/Makefile`); the
SDK's own endpoint on top of it, `net/coap`, is not built.  `queue` is `sendqueue`
with the relative `t` of each element, `elapsed` the ticks since
`sendqueue_basetime`.  Sending, one retransmission, giving up, and each kind of
answer are actions; `retrying` holds the rest back while the loop pops what is
due.  `CalcTimeout` is the fixed-point arithmetic of `calc_timeout`.  A
retransmission that `network_send` refuses leaves its node without an id.

`RetransmitTimers` is the abstract specification: a set of timers, the earliest
is served first, none has more left than its doubled timeout, and stopping some
delays no other.  The refinement maps each queued message to the sum of the times
up to it, less `elapsed`.

An id stands for a message id that is not reused while its message is in the
queue.  Multicast, request handling and `coap_adjust_basetime` (which only the
library's tests call) are not modelled.  Bounds: `MaxLag`, how late the loop may
look; `MaxSendErrors`; each message is handed over once.

### CoapObserve

`subscribers` is the resource's list, newest first, with the counters of
non-confirmable notifications and of failures in their bit fields.
`CheckNotify` is `coap_check_notify`: any notified subscriber's pdu may fail to
be built, or to be sent.  `GiveUp` is the end of a confirmable notification with
`coap_remove_failed_observers`.  The message layer is what `RetransmitTimers`
promises, without the time: a notification stays `outstanding` until it is
answered, cancelled or given up.  `Register` is `handle_request`, whose response
may or may not be sent (`Responded`): `coap_send` fails, or a No-Response option
suppresses it, and the entry stays.  `told`, `since` and `missed` are history: the
version of the resource each observer was last sent, the one at which its entry
was made, and the notifications given up since it registered or last answered
with a code.  One resource; creating and deleting resources is not modelled.

Bounds: `MaxVersion`, `MaxOutstanding`, `MaxErrors`; a round of `CheckNotify` that
would exceed one of them does not happen.

## 3. What the runs check

| Run | Instance | Result |
|---|---|---|
| `event_loop` | two threads, four commands (two messages, a command parsed from one, one posted by a descriptor), SIGINT and both threads may exit | `TypeOK`, `NoLostWakeup`, `ReadNeverBlocks`, `SynchronizerAlive`, `PrimaryKept`, `EndsOnRequest`, refinement `ImplementsQueue`; about 2 million states |
| `event_loop_live` | one thread, three commands, with fairness | `EveryCommandRuns`, `ExitEndsLoop` |
| `serial_device` | three frames of 2, 3 and 1 bytes, two failing writes, one failing `epoll_ctl`, modulus 8 | `TypeOK`, `ArmedWhilePending`, `NeverWritesNothing`, `NoInterleaving`, `WholeFrames`, and under fairness `EveryFrameLeaves` |
| `crc16` | all payloads of at most two bytes | `MatchesPolynomial`, `BurstsDetected` |
| `channel` | two subscribers with a topic in common, three messages, two published packets, two delivery tokens | `TypeOK`, `EveryMessageOffered`, `TablesMatchBroker`, `PacketsAccounted` |
| `http` | two requests, one with a handler, two sockets, three watchers | `TypeOK`, `WatchersMatchCurl`, `AnswersHandled`; about 4 million states |
| `gap` | packets of nine bytes, three types, five values, one of them empty; every payload over two alphabets of three bytes; sizes 9 and 250 | `TypeOK`, `SentIsReceived` |
| `coap_queue` | three messages, two of one exchange, timeouts of two and three ticks, two retransmissions, one failing send, a loop one tick late | `TypeOK`, `QueueIsUnanswered`, refinement `ImplementsTimers`, and under fairness `EveryMessageSettles` |
| `coap_backoff` | the same with a silent network and a loop that is never late | `PatientSender` is violated |
| `coap_observe` | two observers, four changes, one non-confirmable notification in a row, one failure allowed, two notifications on their way, two errors | `TypeOK`, `NoChangeForgotten`, `DroppedForSilence`, and under fairness `LastChangeArrives` |
| `coap_silence` | the same instance | `SilentObserversLeave` is violated |
| `slip` | three frames from three payloads that need every escape, in the data and in the checksum; one damaged byte | `TypeOK`, `RoundTrip`, `LineIsClean`, `BufferFilled`, `LossBounded`, `ChangeDetected` |

Why these bounds are enough to be interesting.  Two posting threads and the
main thread posting from a command and from a callback are all the kinds of
contention the queue knows; four commands let one be in every place (in a
poster's hands, queued, in the batch, executing) at once.  Three frames let one
leave, one be cut by a short write and one be accepted meanwhile; two failing
writes reach a second failure of the same frame; a modulus of 8 is larger than
every frame, as 2^32 is, so the wrap is the code's.  Two-byte payloads index
the table with every byte and combine every entry with every high byte; by the
linearity of a CRC, a nonzero checksum for every two-byte pattern is the
detection of every burst of up to 16 bits.  Three SLIP frames are one to be
damaged, one that the damage may take along, and one that must arrive.

Two subscribers of one topic, one of which has a second topic, are every shape
of the table but longer rows of the same; three messages let one be executed, one
be in its second trip and one arrive; two packets and two tokens let a token
come twice, from `publish` or in a report.  Two requests, two sockets and a spare
watcher let one transfer use two sockets in turn and both complete in one call.
Nine bytes hold three fields with one byte of data, or two and a rest, or end in an
empty one.  Three CoAP messages are a head, a middle and a tail of the queue; two
timeouts give equal and different times.  Two
observers are the first of the list and one that is not; `MaxNon` and `MaxFail` of
1 let each counter take its steps and start again.

What they show beyond that:

* An exit request made while `exec()` starts is lost (`exec` sets `_running`
  after it), and a later request's code can be overwritten by an earlier one's
  writer; `EndsOnRequest` is what remains true.
* `exit()` wakes nobody: `ExitEndsLoop` holds only because `epoll_wait` has a
  timeout, and is stated under that assumption.  `EveryCommandRuns` needs no
  timeout.
* `WholeFrames` holds only while no `::write` fails: a failing write drops a
  frame that was not started and repeats a byte of one that was.
  `NoInterleaving` is what survives.  `NeverWritesNothing` can be violated only
  after `epoll_ctl` failed, and then is.
* `ChangeDetected` is about one data byte changed into another: at most eight
  bits in a row differ in what is decoded, which `BurstsDetected` says the checksum
  finds.  Nothing like it holds of damage that moves bytes or makes an END.  What
  is then taken for a frame may have a matching checksum: the checksum of the one
  byte 07 is 0x8011, so the payload 07 11 80 00 whose last byte becomes an END
  hands over 07, and an invented zero in front of a frame passes because the
  register starts at zero.
  `LossBounded` is two frames for each damaged byte: less than two bytes are
  left in the buffer at an END, and spoil the next frame.

* `Topic::subscribe` enters a
  subscriber under one token and returns the next (netchannel.cpp:27).  The
  services unsubscribe only when the loop has ended, where no message can be
  missed, so `EveryMessageOffered` holds.  A message that a subscriber turns down
  is gone for that subscriber and for nobody else.
* A packet published under a token that is still in the table is never deleted,
  and a late report may delete another packet than its own; `PacketsAccounted`
  is what remains: none is deleted twice.
* A watcher that was deleted is called again in the same batch of events, with
  one request: curl finishes it in the call for reading, and the call for
  writing follows.  `WatchersMatchCurl` is what remains: no deleted watcher is
  registered.  A request that never had a socket carries a `socketWatcher` that
  was never set.
* `TimerFD::setTime` puts all milliseconds into nanoseconds: a second or more is
  refused and 0, which asks to be called at once, disarms.  `onTimer` does not
  look at what curl finished.  So no liveness of the HTTP client is stated.
* Updating a field of a GAP packet leaves a hole and may write behind it;
  `SentIsReceived` is about packets whose fields are set once, and about payloads
  given with the packet's size, as the keypad, the button and, for the messages the
  scanner makes, the reader give them; the sensor gives -6.
* `setFiled` of an empty value fits into the last two bytes and returns 0
  (blegappacket.cpp:70), but `field()` and `setPayload` stop in front of them: such
  fields are set, or sent, and lost.  `SentIsReceived` says that no others are.
* `coap_retransmit` counts a doubled timeout from a base time that is not moved
  while the queue has messages: `PatientSender` fails without any fault.
  `ImplementsTimers` is what remains: nobody waits longer, or out of order.
* `coap_cancel_all_messages` moves what follows a cancelled message forward in
  time; `coap_remove_from_queue` does not.
* An ACK of a message whose last retransmission could not be sent is ignored: its
  node has no id any more.
* `coap_remove_failed_observers` looks at the first subscriber only
  (`SilentObserversLeave`); an empty ACK does not reset the count of failures, so
  `DroppedForSilence` counts misses in total and not in a row: an observer that
  acknowledged everything in between is dropped all the same.
* An observer that registers after the last change has only the response to its
  request.  When that is not sent, nothing is marked (net.c:1457, 1478-1481) and
  the observer stays registered without it; `NoChangeForgotten` and
  `LastChangeArrives` speak of changes made while an observer is registered.

Fairness (`FairSpec`).  In `EventLoop` the main thread and a thread inside
`schedule` or `exit` keep running (weak fairness: they are not stopped by
anything but the lock), and a thread that waits for the lock gets it (strong
fairness on `Lock`: the main thread holds it for one list copy and then blocks
in `epoll_wait`).  Nothing forces a message, a descriptor, an exit or a timeout;
`ExitEndsLoop` has the timeout as its hypothesis.  In `SerialDevice` the main
thread goes through its batch, and epoll, level-triggered, reports a tty that
can take bytes again and again (strong fairness, since the tty may be full in
between); neither `Device::write` nor `close` nor any failure is forced.
In `CoapSendQueue` time goes on and the loop looks at its queue again and again
(`Tick`, `Retransmit`, `GiveUp`): no answer of the network is taken for granted.
In `CoapObserve` the server's loop calls `coap_check_notify` in every round, and
every outstanding notification is settled in the end, which is `CoapSendQueue`'s
`EveryMessageSettles`.  `Channel`, `HttpClient` and `GapPacket` state safety only.

## 4. What is proved

TLAPS checks the theorems for any set of threads, commands, frames, sizes and
bounds that satisfies the modules' assumptions (the actors are different; the
sets of commands, threads, subscribers, descriptors and observers are finite; a
frame has at least one byte and fewer than the modulus; a packet has 3 to 255
bytes; COAP_INVALID_TID is no message's id; payloads and noise are bytes, and a CRC
is a `uint16_t`).

`EventLoopProofs`:

* `Types` is inductive alone.  `Shape` ties the lock's owner and every local
  variable of the main thread to its place: who is between `Lock` and the
  unlock owns the lock, the primary command is in exactly one of two places,
  the reported skipper has a nonzero counter, the loop's end comes before the
  channel's and the channel's before the synchronizer's.
  `ReadNeverBlocksCorrect`, `SynchronizerAliveCorrect` and `PrimaryKeptCorrect`
  follow from it.
* `NoLostWakeupCorrect`: `NoLostWakeup` is inductive relative to those two.
  `Clear` establishes it, each `Push` is followed by its own `Skip`, and
  `ReadSkipper`, the only step that clears the eventfd, ends the span in which
  the main thread relies on it.
* `EndsOnRequestCorrect` needs `Requests`, which relates `_running`, `_code` and
  the requests made while `exec` starts and later.
* `TypeCorrect` adds the bound of the eventfd: `Counted` says that its counter,
  the posts in flight and the commands not created yet are together no more
  than the commands.
* `ImplementsQueueCorrect` is the step simulation of `CommandQueue` under the
  mapping `queue <- Pending`, `closed <- Closed`, from `OnePlace`: every command
  is in one place only.  `Push` is Accept, `Execute` is Execute, the `Test` that
  leaves the loop is Close, and all else stutters.

`SerialDeviceProofs`:

* `TypeCorrect` from `Types`, which adds what the object's state says of the
  batch; the modular step of a failing write is the lemma `HeadType`.
* `ArmedWhilePendingCorrect`, `NeverWritesNothingCorrect` from `Arming`: outside
  of write(), and unless `epoll_ctl` failed, the kernel's mask is what the queue
  wants; a reported EPOLLOUT has a frame to write.
* `NoInterleavingCorrect` from `Order`: accepted frames are distinct, the queue
  is the tail of the accepted ones (`Queueing`), and the line ends in the head
  of the queue at `_written` or in a frame before it (`LineEnd`).
* `WholeFramesCorrect` from `Whole`: until a `::write` fails, the line is exactly
  the accepted frames that left the queue, byte by byte and in the order in which
  they were accepted, followed by the first `_written` bytes of the queue's head.

`ChannelProofs` has three inductive invariants, one for each part of the state:

* `PacketInv`: every allocated packet is under exactly one token or in `lost`,
  and nothing lost is under a token. Its step lemmas assume nothing of the token
  that comes back. `PacketsAccountedCorrect` is one of its conjuncts.
* `TableInv`: until the loop ends, the tokens of a topic are 0, 1, ..., as many as
  the subscribers that hold one, and each of these is in the table once
  (`Complete`). `TablesMatchBrokerCorrect` follows, and the bound of the tokens.
* `QueueInv`, relative to `TableInv`: a message of a subscriber's topics is
  executed, in the queue or turned down (`Whole`), and the numbers of the messages are in
  order (`Ordered`): each kind of command is in order, what is parsed comes
  before what is not yet, and what was executed comes before both. The order is
  what makes `Whole` inductive, because it shows that executing a command never
  repeats a message; `ReceiveStep`, where the subscribers of a topic turn one
  command into several, or turn it down, is the hard step and needs `Complete`: what
  becomes of the message for one subscriber is `Fate`, and does not depend on the
  others.
  `EveryMessageOfferedCorrect` puts the two together.

`TypeCorrect` follows from all three.

`CoapObserveProofs`: `IInv` is `TypeOK`, in which no observer has two entries, and
`Sound` of every entry: an observer who was not told of the last change, made while
it was registered, has its own mark or the resource's, and the entry's failure counter is at most what the
observer really missed. The lemma `WithoutKeeps` says that deleting an entry
leaves the others as they were. `NoChangeForgottenCorrect` is the first half of
`Sound`; `DroppedForSilenceCorrect`, an action property, comes from the second at
the only steps that drop an observer.

`HttpClientProofs` (that a watcher is none of the three special values of the
pointers is assumed):

* `WatchersMatchCurlCorrect` from `WatchInv`, which adds to the property the
  shapes of the records and `Owned`: the transfer of an open socket still runs,
  no other request knows the socket's watcher, and a watcher that a request or
  `toBeDeleted` points to was allocated once. So the request `_checkForCompleted`
  takes from curl, which `Reported` says is finished, has no open socket, and
  deleting its watcher in the next round touches none that is registered.
* `AnswersHandledCorrect` from `Awaited`: whoever waits for a request that runs or
  is finished has a handler, except for the request just being sent; nothing is
  reaped while one is.
* `TypeCorrect` adds what a batch is made of: the lemma `ReportType` says that it
  is a sequence of callbacks that were registered. Its length is bounded because a process has
  finitely many descriptors (`RequestAssumption`).

`CoapSendQueueProofs`:

* The library's induction theorems take an operator as a parameter, which no
  backend instantiates; `SetInduction` speaks of a set instead, which does as well,
  and from it `RecursionExists` derives that a function defined step by step on the
  naturals exists (`GapPacketProofs` and `SlipProofs` start from `SetInduction` too,
  and repeat it). `CoapCancelAll`,
  `PowerOfTwo` and the sum of the times up to an element (`Offset`) are such
  functions.
* `Inv` is `TypeOK`, `WellFormed` and `Unanswered`. `WellFormed` says that every
  node has its message's id or none, and that no two nodes have the same message;
  `Unanswered` that the messages in the queue are exactly those that wait. The list lemmas carry both
  through insertion in the middle, the removal of one node, the removal of all of
  one receiver, and the pop of the head (`InsertKeeps`, `RemoveDrops`,
  `CancelKeeps`, `PopDrops`). They need that the invalid id is nobody's
  (`IdAssumption`). `TypeCorrect` and `QueueIsUnansweredCorrect` follow.
* `ImplementsTimersCorrect` is the step simulation of `RetransmitTimers` under the
  mapping of each queued message to its offset less the elapsed time. A list
  operation changes differences; what the mapping needs is the sum before each
  remaining message, which insertion and `coap_remove_from_queue` leave as it was
  (`InsertHolds`, `ReducedStops`) and `coap_cancel_all_messages` only lowers.
  `HeadEarliest` says that the loop serves the earliest timer first.
* `TimeoutBounds`: whatever the random byte, the fixed-point arithmetic of
  `calc_timeout` stays between ACK_TIMEOUT and ACK_TIMEOUT times ACK_RANDOM_FACTOR,
  two to three seconds.

`GapPacketProofs`: `Inv` is `TypeOK` and, for a packet that was given its own size
and whose fields were set once, `Packed`: the packet holds all of its fields, or
all but empty ones at its end, in a `Layout`. That is a list of positions at which
the fields start, each where the one before ends and in front of the last two
bytes, with a type that is not zero, the first at 0 and the last ending at
`length`, and zeros behind. The three loops go forward, so what each returns is
shown from the last field back to the first (`DownInduction`; `JumpExists` is why
a loop that goes forward has a result at all): `LayoutParses`, `LayoutDecodes` and
`LayoutFinds`. `ParsedIsLaid` says that whatever bytes were received, what
`setPayload` accepts of them is such a layout, and that of the fields the sender
put there (`SentExists`) it leaves out at most an empty one in the last two bytes
(`Ahead`); `StoredLayout` that `setField` extends one, and `EmptyAppended` what
becomes of an empty field that it puts there. `SentIsReceivedCorrect` and
`TypeCorrect` follow, the latter also for packets whose fields were set again, where
only the bounds of `remove()` matter (`RemovedType`).

`SlipProofs` is about any payloads, any checksum below 65536, any noise and any
number of frames and damaged bytes.

* Each loop over bytes is the only function with its recursion equation
  (`LoopExists`), which gives what it does with one byte more (`FeedAppend`,
  `EscapeAppend`, `EncodedSizeAppend`) and, by induction over the bytes, with two
  pieces one after the other (`FeedConcat`): a decoder does not see where one read
  ends and the next begins. `BufferFilledCorrect` is an induction over the same
  equations.
* `FrameRead`: a decoder at the start of a frame hands over exactly what `encode()`
  was given: the decoder takes every escape away again, and the last two bytes it
  holds are the checksum's. `FrameResyncs`: a decoder in any state at all is at the
  start of a frame after it read one, since the escaped checksum adds at least two
  bytes to what it holds and leaves it outside of an escape (`EscapeEnds`), so that
  `finish()` sees the END and clears the buffer.
* `RoundTripCorrect` and `LineIsCleanCorrect` from `LineInv`: as long as nothing was
  damaged, reading what is still on the line would hand over the rest of what was
  sent (`Foretold`), there is an END on the line for each payload not handed over
  (`Closed`), and no flow-control byte (`Bare`). `RoundTrip` alone is not
  inductive: it says nothing of the half frame the decoder holds.
* `LossBoundedCorrect` from `LossInv`. The state does not show which bytes belong to
  which frame once some were damaged, so the invariant speaks of the bytes read so
  far: with those on the line they can be cut into one piece per frame sent, each
  either a frame as `encode()` made it or one with damage of its own (`Made`), and
  the decoder is what reading them makes of a new one (`Reads`). Damage at any
  place damages the piece it is in and moves those behind it (`EditMade`).
  `PieceRead` is the account: a damaged piece costs its own frame and leaves the
  decoder somewhere inside of one, which costs the next; an undamaged piece ends
  with the decoder at the start of a frame again. Two frames for each damaged byte
  is what the sum comes to (`MadeRead`).

Only model-checked: the liveness properties (`EveryCommandRuns`, `ExitEndsLoop`,
`EveryFrameLeaves`, `EveryMessageSettles`, `LastChangeArrives`: fairness is out of
TLAPS's reach); `MatchesPolynomial` and `BurstsDetected`, which are about the bits
of the CRC (the exclusive or has no theory the provers know); and `Slip`'s
`ChangeDetected`, which is true of this checksum only and rests on the same bits.

## 5. Not modelled

* The contents of messages (`comm/`), the JSON configuration (`core::Variant`),
  addresses, logging: data conversion read once or copied as it is.
* The kqueue variant of the synchronizer (the build uses epoll), and the failures
  of `epoll_ctl` outside of `SerialDevice`.
* `net::mosquitto::Channel`: no configuration in the repository selects it.  Its
  hazards are listed.
* SLBP, `devices/devicesprotocol.cpp`'s other protocol: the services are
  configured with SLIP; its hazard is listed.
* The services' own `initialize` and `release` with their failure paths, and the
  processor's second channel.  `zcloud`'s `initialize` ends without a return
  value, and the processor deletes its second channel without `release()`; both
  belong to the lifecycle of section 6.
* The bytes a serial device reads: `SerialDevice`'s reading side has no data, and
  `Slip`'s line is fed directly.
* In libcoap: request handling, options, block transfer, resource discovery,
  multicast, `coap_adjust_basetime` (only the library's tests call it), creating
  and deleting resources.  In the HTTP client: bodies, headers, device lists,
  release.
* Vendored code without state of its own that actors share: cantcoap, the JSON
  parser, uthash, `core/corecallback.h`.  These four are more than a third of the
  repository's lines.
* `std::List`, `std::Hash`: sequential containers.
* Files outside the build (`net/coap`'s endpoint, `comm/coap`, `ble/blecommand`,
  `ble/gap/blegapcommand`, `core/coreutils`, the reader's `cloud/`).

## 6. Plan

Done: 1. `CommandQueue`, `EventLoop` with proofs; 2. `SerialDevice` with proofs;
3. `Crc16`, `Slip`; 4. `Channel`; 5. `GapPacket`; 6. `HttpClient`, with the
synchronizer's table of several descriptors and the stale pointers of a batch;
7. `RetransmitTimers`, `CoapSendQueue`, `CoapObserve`; proofs about `Channel`,
`HttpClient` and `CoapObserve`; 8. the proofs about functions defined by recursion:
about `CoapSendQueue`, its refinement of `RetransmitTimers` included, about
`GapPacket` and about `Slip`.

Next, in this order:

9. `Lifecycle`: initialize and release of core, net and service applications with
   every failure path; what was acquired is released once.
10. `Slbp` beside `Slip`; the serial device's reading side with the codec behind
    it; `MosquittoChannel`: socket, reconnect, keepalive.

Bounds will stay in the same spirit: two or three of everything that can
contend, one failure of each kind, and one more frame or message than the
failure can touch.
