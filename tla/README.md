# TLA+ models of the goldfish emulator

This directory holds a verification development for the emulator code of this
repository: TLA+ modules translated from the source, TLC configurations that
check them on small instances, and TLAPS proofs for every instance. Its centre is
the virtio vsock device (`emulator/plugin/vsock_goldfish`), on which every host
service that talks to the guest depends. Around it are the components whose
correctness depends on threads, processes and callbacks: port forwarding, the
connector and its registry, qemud framing, archives, topics, the two loopers,
asynchronous sockets, the hang detector, file locks, the clipboard service, pointer
input and the sensors.
`PROJECT.json` maps every definition to the lines it models and lists the
components, hazards, runs and theorems.

## 1. Inventory

### The system

The repository builds the Android emulator's additions to QEMU. QEMU plugins
(`emulator/plugin`) provide devices, a looper and gRPC services; hardware
abstractions (`emulator/hal`) implement what the guest sees as sensors,
clipboard, fingerprint and so on; `emulator/devices` defines how such a
"device" is plugged into a transport (`IPlug`, `ISocket`, `Connector`, qemud
framing); `android/` is a portability layer (files, locks, sockets, loopers).

Data between the guest and the host runs through one path:

    guest process - virtio-vsock driver - two virtqueues - vsock_low_level.c
      - GoldfishVirtioVsockDevice (vsock.cpp) - ISocket/IPlug (cable.h)
      - Connector, qemud, port forwarding - a HAL device or a host TCP socket

### Components, their state and what makes them correct

| component | state | operations | interacts with | must hold |
|---|---|---|---|---|
| `UniqueIdAllocator` | `mLastId`, `mReturnedIds` | get, put, reset, save, load | called by the device under its mutex | an id in use is never handed out again; none leaks; its assert holds |
| vsock device | `mStreams` (buffers, five counters, pending operations, `isConnected`, plug), `mOrphanPackets`, `mHostPortListeners`, allocator | connect, listen, sendAsync, unplug, switchPlug, seven packet operations, send pass, status, save, load | plugs by callback (`onConnect`, `onReceive`, `onUnplug`) under `mStateMutex`; queues by call | ports unique; every stream that ends is announced once; orphan packets neither lost nor reordered; credit respected; bytes in order, once |
| vsock virtqueues | free receive buffers, packets on their way, the draining loop | two queue handlers, send one packet | QEMU's main loop, the guest driver | a full queue delays and never loses |
| port forwarding, connection awaiter | `mPreConnectedBuffer`, `mConnected`, attempt in progress, retry timer | start, accept, connect, retry, flush, close | device, looper, TCP sockets | one server; bytes not lost or overtaken; no half-open pair |
| qemud parser, connector | partial header or payload, request line | receive, switch plug | device through `IPlug` | framing independent of how bytes are split |
| archive | bytes of a stream | write and read numbers and strings | snapshots | what is read is what was written |
| connector registry, event support | devices, callbacks, two locks | register, fire, add, remove | any thread | every callback told; calls return |
| topic | tickets, subscriptions | subscribe, unsubscribe, broadcast | any thread | tickets name their subscription; everybody is called |
| default looper | active and pending timers, watches, tasks | start, stop, delete, schedule, run, quit | callbacks that call back | nothing dangles; timers fire in order |
| QEMU looper | pending watches, bottom half, closures, timer | fire, delete, post, post and wait | QEMU's main loop, any thread | pending watches fire; closures run |
| asynchronous socket | watch, send queue, in-flight count, `mWatchLock` | connect, send, recv, close, dispose, destroy | three threads | nothing runs after disposal; disposal ends |
| hang detector | watched loopers, running check, hang count, pause count | add, pause, stop, iterate | worker thread, loopers | a hang is reported; a pause leaves nothing behind |
| file lock | lock file, pid | acquire, retry, remove stale, release, exit | several processes, crashes | one owner; stale locks are taken over |
| clipboard service | streams with queues, device contents | set, stream, write, cancel | gRPC threads, guest | streams follow the contents; nothing stays queued |
| virtio input, touches | tracked pointers, `current_slot`, slot registry | mouse, touch, multi-touch and evdev events, expiration | gRPC clients, QEMU's input layer, guest driver | the guest's contacts are the host's pointers |
| sensors, physical model | enabled mask, timer, overrides, measurement ids, texts | tick, set, override, set target, read | looper, gRPC threads, guest HAL | the guest is told the current values |
| other HAL devices, displays, other gRPC services, configuration, launcher, portability layers | various | | | see the notes in `PROJECT.json` |

### What is hard here

* **Interleaving.** Virtio handlers, the looper on which the host connects and
  unplugs, and snapshots hold QEMU's global lock; `sendAsync` and `listen` come
  from any thread. Between two packets of one
  `virtio_vsock_handle_guest_to_host` call another thread may send, which flushes
  what the handlers have only queued.
* **Reentrancy.** A plug called back from a packet handler may send, or unplug and
  so erase the stream the handler is working on.
* **Bounded queues.** A send pass stops wherever the receive queue is full: within
  orphan packets, within one stream's operations, within its data. What is
  left must be exactly what was not sent.
* **Late packets.** Host ports are reused at once; the guest's answer to a
  connection that is gone finds the stream that has its ports now.
* **Counters.** Credit is a difference of three wrapping 32-bit counters, reported
  at different times by two parties.
* **Reboots, resets, snapshots.** Guest reboot, NEEDS_RESET, save, load and restart
  each keep one part of the state and reset another.
* **Several threads on one object.** An asynchronous socket is used by its owner, by
  the thread that connects and by the looper; a looper's timer may expire between
  `isActive()` and `startRelative()`; the hang detector unlocks in the middle of
  `process()`.
* **Lock orders.** `WithCallbacks` takes two locks in opposite orders when it fires
  and when it removes; `connectToPort()` waits for the looper with a lock that the
  looper needs.
* **Callbacks that change what is being iterated.** Timers, watches and subscribers
  are stopped and deleted by the callbacks of others.
* **Caches and cursors.** A sensor's text is sent again while its measurement id is
  the same, and a touch event goes to the slot selected last: both are compared with
  state that another thread or another source of events may have changed.
* **Processes that die.** A lock file outlives its owner and several processes find
  it at once.

`PROJECT.json` "hazards" lists these at their lines.

## 2. The modules

| module | models |
|---|---|
| `UniqueIdAllocator` | the allocator: `GetId`, `AfterGet`, `AfterPut`, its assert |
| `VsockCore` | every method of the device as an operator from devices to devices |
| `VsockDevice` | those methods driven by an arbitrary guest, plugs, QEMU and crashes |
| `VsockLink` | the same methods and a guest that follows the protocol, joined by the two queues |
| `ByteChannel` | what a connection promises: an ordered byte queue with a window |
| `PortForward` | the connection awaiter and a forwarded port with its clients |
| `PlugProtocol` | the connector's request line and the qemud parser behind it |
| `DeviceRegistry` | the connector registry and a listener on it, with the locks of `WithCallbacks` |
| `Topic` | `broadcasting::Topic` and its tickets |
| `Archive` | numbers and strings in archive streams |
| `DefaultLooper` | timers, fd watches and tasks of the default looper |
| `QemuLooper` | fd watches on QEMU's main loop and the closures of `ThreadLooper` |
| `AsyncSocket` | a client socket and its three threads |
| `HangDetector` | the worker, the watchers and the loopers they watch |
| `FileLock` | the POSIX lock file of several processes |
| `ClipboardService` | clipboard clients, their streams and the device |
| `TouchInput` | mouse buttons and touches on their way to the slots of the guest's driver |
| `SensorDevice` | the ticks of the sensor device and the callers of its physical model |
| `MCVsockDevice`, `MCVsockLink`, `MCComponents` | instances for TLC |
| `UniqueIdAllocatorProofs`, `VsockDeviceProofs`, `VsockTypeProofs` | theorems about the allocator and the device |
| `TopicProofs`, `FileLockProofs` | theorems about the topic and the file lock |
| `LooperProofs` | theorems about the hang detector, the two loopers and the asynchronous socket |
| `ServiceProofs` | theorems about the sensors, the clipboard, the connector registry and the archive's numbers |
| `VsockClientProofs` | theorems about port forwarding |

`VsockCore` keeps a device as one record `d`, with the names of the C++ members.
A method that holds `mStateMutex` is one operator, so a callback that enters the
device again (`recursive_mutex`) is operator application: `PlugReaction` inside
`onPacketReceiveControl`, for instance. `sendPacketsLocked` is given by what a pass
leaves rather than by its loop: `PacketsToSend` counts the packets each stream
wants to send, `Ahead` those that leave before it, `SentOf` how many of its own
still fit, and `AfterSend` is the stream after that many packets. `Emitted` is the
sequence that enters the queue. `sent` collects the packets of one step,
`aborted` says that an `assert` failed.

`holdsSocket` is whether the plug still owns the `SocketPtr` through which it can
send and unplug; `loadable` is its answer to `supportsLoadingFromSnapshot`.

`VsockDevice` adds the environment. `draining` is the loop over guest packets:
actions that need QEMU's global lock are not possible while it is set, `sendAsync`,
`listen` and the guest's own steps are. The guest sends any operation for any ports
with any credit. Saved images are kept in `snapshots`; `Restart` is a new process.
`past` is history: whether NEEDS_RESET has met live streams and whether a snapshot
was loaded.

`VsockLink` replaces the arbitrary guest by one that follows the protocol. The
driver is not part of this repository: it is modelled from what the device expects
and marked external. It keeps sockets (connecting, established, closing), answers a
REQUEST with RESPONSE or RST, closes with SHUTDOWN and waits for RST, sends RST for
packets without a socket, answers CREDIT_REQUEST, and may or may not report
what a process read. Every byte carries the id of the connection that wrote it and
its number, so a byte that crosses into another connection shows. `reused` is
history: `connect()` was given ports that still had a socket, a packet or an orphan
of an earlier connection.

The other components share no state with each other. Each module has a prefix for
its specification (`HDInit`, `HDNext`, `hdVars` and so on), and `MCComponents` puts
them side by side for TLC: `part` says which one a behaviour is about, the variables
of the others stand still. The states of one run are the sum, not the product, of
the components' states. `Parts` chooses the components of a run.

How finely the code is cut into steps depends on who can see it in between:

* `HangDetector`: the worker holds `mLock` while it iterates; `process()` is one step
  up to its explicit unlock and two behind it, with which the looper interleaves. Time
  is relative (the age of a check, what is left of a wait), so no clock is bounded.
* `FileLock`: every system call is a step, and a process may be killed between any two.
  `sleeping` is whether the pass of the retry loop has a sleep in it: the first one has
  none, and without a sleep `wait_for_kernel` reports a timeout even for a process that is
  gone. `Process::fromPid` never returns null on POSIX (`Command_Posix.cpp:342`).
* `DefaultLooper`: one thread; a callback may call any operation of the looper, so every
  operation is an action that is possible while a callback runs. An iteration may end early,
  with nothing to wait for (`BeginWait`) or an error of the waiter (`WaitFails`). `dangling`
  records each use of a deleted object and each second erasure of a list node, after which a
  behaviour stops; `misused` is history, whether the program has done one of the things
  that lead there.
* `QemuLooper`: one step for each access to what the threads share; the timer's state,
  the channel and the bottom half are separate.
* `AsyncSocket`: a step ends where a thread takes or releases `mWatchLock` or writes what
  another one reads. The destructor disposes first, also of a socket that its owner has
  disposed of. A watch reports reads before writes, so a readable socket is not written to.
  `lateWatch` is history: the connecting thread made a watch when `dispose()` had seen none.
* `DeviceRegistry`: one step for each acquired lock. Other callbacks of the registry and the
  construction and destruction of the listener are left out.
  `ClipboardService`: an event reaches all listeners in one step because `fireEvent()` holds
  the lock. `due` is history, for each stream what it read and then every change of the
  clipboard, told or not; `unserved` are the streams that the code may leave behind.
* `Topic`: one step for each called subscriber.
* `PortForward`: a handler is a step, because the handlers run in QEMU's main loop. The
  device is reduced to its streams and two FIFO queues; the guest, TCP clients and
  server are external. `tainted` and `soiled` are history: the ports that were last given to
  a client before they were clean, and the clients that got one.
* `TouchInput`: a step is a call, because the slot registry has no lock and is written for
  one client. `sources` says which kinds of input a behaviour mixes; `guest` is the
  driver's state (slot selected, slots with a tracking id, positions), external.
* `SensorDevice`: a step is a section under `PhysicalModel::mMutex`, so a tick interleaves
  with callers between its two halves and between two sensors. Measurement ids are only
  compared, so the model keeps whether they are equal, not the numbers. `overtaken` is
  history: a tick has called the state stable too early (see `TextsAreFresh`).
* `PlugProtocol`: a step is a packet; all ways to cut the bytes are tried. The sink may
  refuse a frame (`RefusedSizes`): the parser goes on with the rest of the packet and returns
  false, which unplugs the device unless the packet is the one that `switchTo` hands over.
  `Archive`: a step is an item written or read, or the cut of the stream.

A history variable records that something has happened; no action of the code depends on
one. Properties that the code keeps only until a certain event are stated with that history
as their condition, so the event itself, and what the code does afterwards to everybody
else, is part of every run and of every theorem.

### Assumptions

* QEMU's global lock is held by virtio handlers, by the looper on which connect and
  unplug run, and by snapshots (`unplugImpl` moves the plug out before it takes
  `mStateMutex`, which is safe only under that lock).
* A receive buffer holds a header and `ChunkSize` bytes. Linux posts whole pages.
* `loadFromSnapshot` runs in a process without connections.
* A load that fails returns a positive code, which QEMU does not treat as an error,
  so the guest runs on.
* `setStatus` with FAILED (`assert` at vsock.cpp:388) is not modelled: the driver
  sets it only when it gives the device up.
* A pid is not used again while a lock file names it (`FileLock`), and the condition
  variable of `connectToPort` has no spurious wake-ups (`AsyncSocket`).
* The owner of an asynchronous socket is not the looper's thread, and senders to
  `runOnMainLooper` are not the main loop itself (they would wait for themselves when
  the channel is full).
* The arguments of the call at `Connector.cpp:70-72`, one of which moves the buffer that
  another one reads, are evaluated from left to right. C++ leaves the order open; Clang, which
  builds the emulator, takes them that way.
* `setSocketEventListener()` is the base class's, in a header outside this repository. Nothing
  is assumed about it but the assignment: it may return while `onRead()` holds `mListenerLock`.
* Three constants still exclude a use which breaks a component. Each is discussed in the next
  section: `DeletesOthers` (watches of the QEMU looper), `EarlySend` (data before `onConnect`)
  and `SourceSets` (kinds of pointer input that are mixed).

## 3. What the runs check

Passing runs:

| run | bounds | shows |
|---|---|---|
| `device_packets` | 1 stream at a time, one listening and one dynamic port, buffer of 1 byte, queue of 1, counters mod 2, arbitrary headers | `TypeOK`, `OrphansInOrder`, `EndIsAnnounced` |
| `device_ports` | 2 streams, 2 ids, one snapshot, plugs of both kinds, no data | `AssertsHoldUntilReset`, `PortsUnique`, `NoPortLeaks`, `LoadAccountsForStreams` |
| `link_host_connections` | 3 connections one after another, 2 bytes down and 1 up in each, hang-ups, refusals, counters mod 2 | `CreditRespected`, `BytesIntact` |
| `link_guest_connections` | 3 connections opened by the guest, sends from `onConnect`, hang-ups, reboots | `ImplementsChannel` |
| `link_delivery` | 2 attempts at a time, 4 bytes through a window of 2 with counters mod 3, both queues of size 1 | `Delivered`, `Answered`, `ImplementsChannel` |
| `components` | 1 watched looper, 2 pauses; 2 processes with 2 attempts; 2 timers, 1 watch, 1 task, time to 1; 1 socket; 3 subscribers with tickets mod 4; numbers of 5 bits; 3 frames of which those of 3 bytes are refused; 2 TCP clients on 2 ports; 2 posters and 2 watches; 2 users and 2 devices; 2 clipboard clients, 2 connections of the guest's clipboard; 3 mouse buttons, 3 fingers on 2 slots; 1 sensor with 2 values and 2 callers; clients, callers, users and timers are symmetric | the safety properties of section 2's other modules |
| `progress` | the same with one client, caller or watch less where the graph grows, and a sensor of the other kind | the nine liveness properties |

What `components` shows, part by part:

| property | says |
|---|---|
| `PausedMeansIdle` | `pause()` leaves no check behind, whatever was processed, added or paused again meanwhile |
| `ExclusiveUntilGivenUp` | until somebody releases or dies, the holder's lock is never taken for stale |
| `NothingDangles`, `ArmedTimersAreListed` | pending watches and scheduled tasks exist and no unwanted event is fired, whatever is deleted; until the program misuses the looper, no deleted object is used and no node erased twice, and an armed timer is in one list, in order |
| `NothingOutlivesSocket` | after `dispose()` no read callback, unless a watch was made late, after the destructor no thread or callback |
| `TicketsMatch`, `BroadcastReachesAll` | tickets across the wrap-around; everybody is called once although others leave |
| `ReadsWhatWasWritten` | every number of the width and every string survive; a cut stream yields no partial string |
| `BytesReachDevice` | however the packets are cut, the named device gets its frames, each byte once, also around a frame that it refuses |
| `ServerStartsOnce`, `ForwardedInOrder`, `NoHalfOpen` | retries start one server; bytes of a client arrive in order unless it is soiled; both ends of a port that is not tainted agree when nothing is under way |
| `PendingWatchesWillFire` | set, events and bottom half agree and the iterator stays valid |
| `NoMissedDevice` | a callback hears of a device however adding and registering interleave |
| `StreamsAreUpToDate` | an open stream that is not unserved was told the last change of the clipboard last |
| `GuestSeesPointers` | with a mouse the guest's contacts are the buttons that are down, where the mouse is; with one finger at a time there is a contact exactly while its slot is in use |
| `TextsAreFresh` | a text that the next tick would send again is the sensor's value, until a tick overtakes a target |
| `PartsTypeOK` | the components' type invariants |

and `progress`: `HangIsReported`, `StaleLockIsTaken`, `TimersFire`, `DisposalEnds`,
`ServerStarts`, `ClosuresRun`, `CallsReturn`, `MessagesAreWritten`,
`ReadingsAreReported`. Three of them have a
stated exception, each the place where the code really stops: a check that the host
slept through (`HangIsReported`), a watch made between the two halves of `dispose()`
(`DisposalEnds`, whose destructor waits for it or ends in `onRead()` calling a listener
that is gone), and the removal of the last callback while an event is fired
(`CallsReturn`), which deadlocks.

Why the bounds suffice for what is asked. A packet queue of one or two buffers makes
every pass stop at every place it can stop at. Two ids are what it takes for a
freed id below `mLastId` (the returned set) and above it (the trimming loop).
Counters modulo 2 and 3 wrap within a connection, once on one side before the other.
Three connections on the same ports let a packet of the first one meet the second
while the third is being opened. Larger link runs with both kinds of connections and
hang-ups exceed three million states and add no new kind of step, which is why the
two are separate runs. `SavedThenLoaded` follows a saved state only into restart and
load, because the image does not depend on what happens in between. `PortsClean`
stops a run where `connect()` reuses ports that are not clean: the link properties
say nothing from there on (next section). `View` leaves out `sent`, which every step
starts with empty. Three subscribers and a counter modulo 4 make every ticket number
come round while others hold theirs. Numbers of 5 bits in digits of 2 have a last digit
of one bit, as 64 bits in digits of 7 have. Frames of 0, 1, 3 and 5 bytes cover the empty
frame, both size formats and sizes of two digits. Two processes are what a stale lock
needs; the race takes a third, which died with the lock. A channel of one place is full as
soon as one closure waits. Three fingers are one more than the slots, three buttons
include one of the wheel; time runs to 2 with slots that expire after 1. The sensor of
`components` reaches its target with time, that of `progress` at once.

What the properties leave out, by their own conditions: `AssertsHoldUntilReset` a NEEDS_RESET
with live streams (`AssertsHold` below); `BytesIntact` and `CreditRespected` reused ports and
early sends; `ExclusiveUntilGivenUp` a lock that somebody has given up (`lock_stale_race`);
`BroadcastReachesAll` the validity of the C++ iterator, which is a set in the model;
`BytesReachDevice` another order of evaluation at `Connector.cpp:70-72`; `PendingWatchesWillFire`
the iterator when callbacks delete others; `GuestSeesPointers` a mouse and fingers at once;
`CallsReturn` the lock inversion; `ServerStarts` more retries before an answer than `MaxEarly`.

The vsock runs check for deadlock. It says little there, because a restart or a kick
of the receive queue is always possible: what matters is stated as liveness. The runs of
`MCComponents` turn it off, since a component may stop (a stopped hang detector, a
destroyed socket, a stream at the end of its bounded input).

**Fairness.** In `link_delivery`: QEMU's main loop serves both queues (`TakesFromTx`,
`EndsDrain`, `HandleHostToGuest`), the driver handles its receive queue (`TakesFromRx`)
and processes read their sockets. All are weak. Nobody has to connect, write, close or
report credit. The run excludes hang-ups: with them, and with port reuse, attempts
exist that are never answered for the reason `stale_rst` shows. In `progress`,
`ThreadsGoOn` is weak fairness of each thread that is in the middle of a call, of the
looper's clock and of the queues: operating system threads and QEMU's main loop are
scheduled. `NotForEverElsewhere` is strong fairness where something else may interrupt
again and again: the worker is not paused in every iteration and the host not suspended
for ever; I/O does not keep a loop from its callbacks, bottom halves and timers; the
posters do not keep `runClosures()` in its loop; callers and the HAL do not keep the
sensors' timer from firing; a thread gets a mutex that is free again
and again. Nobody has to hang, post, connect, register or leave.

What a zero credit costs shows in these runs, too: a stream without credit asks for
it in every pass and every answer is followed by a pass, so a socket that nobody
reads keeps device and driver exchanging CREDIT_REQUEST and CREDIT_UPDATE. It does
not stop the others.

### Disagreements with what the code says of itself

| run | what TLC finds |
|---|---|
| `stale_rst` (`UnplugMeansHangUp`) | a freed host port is given to the next `connect()`; the RST that ends the previous connection unplugs the new one |
| `false_hang` (`HangsCountedAreReal`) | `process()` unlocks before `startHangCheckLocked()` sets `mIsTaskRunning`; an answer in between is overwritten and the looper is counted as hanging |
| `lock_stale_race` (`LockIsExclusive`) | two processes find the same stale lock; the second one unlinks what the first has just linked, and both hold the lock |
| `connect_deadlock` (`ConnectIsAnnounced`) | `connectToPort()` waits for the looper with `mWatchLock` held while `recv()` or `close()` waits for it on the looper |
| `lost_touch` (`SlotsAreRegistered`) | the tracking id of a new touch is sent before its slot is selected; the second finger's goes to the first one's slot |

More properties that TLC refutes on a variation of a configuration, or without the history
that is their condition, and that have no run of their own:

| configuration | change | refuted | because |
|---|---|---|---|
| `MCVsockLink` | `EarlySend = TRUE` | `BytesIntact` | `cable.h` says that data sent before `onConnect` waits for it; `sendAsyncImpl` drops it |
| `MCVsockLink` | `Reboots = TRUE`, `HostConnects = {}`, `ListenPorts = {5}` | `NoDuplicateRequest` | a comment says that only a misbehaving driver sends a duplicate REQUEST; a rebooted guest does, because `setStatus(0)` keeps the streams, and it gets no answer |
| `MCVsockDevice` | none | `AssertsHold` | NEEDS_RESET resets the allocator and keeps `mStreams`; the next `connect()` fails `assert(inserted)` |
| `MCVsockSnapshot` | `Loadable = {TRUE}` | `StreamsAreRestored` | `loadFromSnapshot` returns after the first stream whose plug can be loaded; those behind it are neither restored nor reset |
| `MCComponents` | no condition on `misused` | `NothingDangles` | a pending timer that another callback stops or restarts is erased from the wrong list (the test `RunWithTwoTimersOneStoppingTheOther` is disabled as flaky); an active timer that is deleted stays in its list, although "Both FdWatch and Timer delete themselves from pending/active lists" (`DefaultLooper.cpp:35`); a task that is deleted when the looper has taken it, or while it runs, is used after that (`:203-207`) |
| `MCComponents` | `DeletesOthers = TRUE` | `PendingWatchesWillFire` | a callback that deletes the watch behind it invalidates the bottom half's iterator |
| `MCComponents` | no condition on `tainted` and `soiled` | `ForwardedInOrder`, `NoHalfOpen` | the first client gets the port the awaiter has just freed, and the stale RST ends it |
| `MCComponents` | no condition on `unserved` | `StreamsAreUpToDate` | "Each change triggers a new ClipData message" (`ClipboardService.cpp:97`), but no forwarder is registered for a stream opened before the device connects, it is registered on the first device only, and a stream reads the contents before it listens |
| `MCComponents` | no condition on `overtaken` | `TextsAreFresh` | a tick between `physicalStateChanging()` and `targetStateChanged()` ends the changing state, and the value or the end of an override that follows gets no new measurement id; the guest keeps the old value (`PhysicalModel.h:74` says that the methods are thread-safe) |
| `MCComponents` | `SourceSets = {{"touch", "mouse"}}` | that every button in `keymap_button_down` is a contact of the guest, where `tracked_pointers` says | `current_slot` "tracks the last pointer for which `ABS_MT_SLOT` was sent" (`virtio-input-android.h:234`), but touches select slots without it, so a button moves the contact of a finger |

Read from the code while modelling, and not stated as properties: `slot < 0` of a
`uint32_t` is never true, so a touch beyond the last slot goes on with `0xffffffff`
(`PointerEventDispatcher.cpp:106`); `updateSlotExpiration()` is never called, so a long
touch expires while it moves; the slot registry is shared by gRPC threads without a lock;
the sensors' timer runs on after `onUnplug()` and then uses a null socket; `mTimeOffsetNs`
is sent before it has a value.

The same port reuse is why the link properties are stated for `~reused`: after it
bytes of two connections can meet in one socket and credit of one be used by the
other. `NoPortLeaks` is stated for runs without a load because the ports of streams
that a load resets stay in use in the restored allocator; the leak is bounded by
the streams of the snapshot.

### Mutants

Every property of a passing run has a mutant of a mapped definition that breaks it: a
counter that does not wrap, a timer that is put at the end of its list, a callback that
is added without looking for a device, `push_front` for `push_back`, a recycled stream that is
not erased, an allocator that forgets to erase a returned id, and so on. The mutated
operators stand next to the definitions they replace.

## 4. What is proved

For every value of the constants that satisfies the named assumptions, with no bound on
streams, ids, bytes, clients, threads, timers or queue sizes:

| theorem | states | under |
|---|---|---|
| `AssertsHoldTheorem` | `Spec => []AssertsHoldUntilReset` | |
| `PortsUniqueTheorem` | `Spec => []PortsUnique` | |
| `NoPortLeaksTheorem` | `Spec => []NoPortLeaks` | |
| `TypeTheorem` | `Spec => []TypeOK` | |
| `TicketsMatchTheorem`, `BroadcastTheorem` | `TopicSpec => []TicketsMatch`, `[]BroadcastReachesAll` | |
| `ExclusiveTheorem`, `FLTypeTheorem` | `FLSpec => []ExclusiveUntilGivenUp`, `[]FLTypeOK` | |
| `PausedMeansIdleTheorem` | `HDSpec => []PausedMeansIdle` | |
| `PendingWatchesTheorem` | `QLSpec => []PendingWatchesWillFire` | `~DeletesOthers` |
| `NothingOutlivesTheorem` | `ASSpec => []NothingOutlivesSocket` | |
| `NothingDanglesTheorem`, `ArmedTimersTheorem` | `DLSpec => []NothingDangles`, `[]ArmedTimersAreListed` | |
| `NothingPendingTheorem` | nothing is pending when a wait ends, the `DCHECK`s at DefaultLooper.cpp:223 and, until a misuse, :248 | |
| `TextsAreFreshTheorem` | `SDSpec => []TextsAreFresh` | |
| `StreamsTheorem`, `ClipboardTypeTheorem` | `CSSpec => []StreamsAreUpToDate`, `[]CSTypeOK` | |
| `NoMissedDeviceTheorem` | `DRSpec => []NoMissedDevice` | |
| `ServerStartsOnceTheorem`, `PointersTheorem` | `PFSpec => []ServerStartsOnce`, `[]PointersAgree` | |
| `NoHalfOpenTheorem`, `ForwardedInOrderTheorem` | `PFSpec => []NoHalfOpen`, `[]ForwardedInOrder` | |
| `ZigzagTheorem` | `zigzag::decode()` undoes `zigzag::encode()` for every signed number | the law of powers, `2^Bits = 2 * 2^(Bits - 1)` |

Only two theorems have a hypothesis. `~DeletesOthers` excludes callbacks that delete the watch
behind their own, which invalidates the bottom half's iterator: it is up to the callbacks that a
program registers. The law of powers is true of every width and is a hypothesis only because the
provers have no arithmetic of powers. Several properties carry a condition of their own, a
history variable: `misused`, `lateWatch`, `overtaken`, `unserved`, `tainted`, `soiled`, and the
`past` of the device. The specifications of these theorems include the events that set them,
and what the theorems say is that these events, named at their lines, are the only way to a
dangling pointer, a stale text, a stream left behind, a half-open connection or lost bytes. TLC
refutes each property without its condition (section 3, the table of variations).

The assumptions on the constants say what the code cannot do without: dynamic ports lie
above the listening ones, a modulus and a chunk are positive (`VsockCore`), pids are not 0
(`FileLock`, where 0 stands for no file), the end of a list is not an element of it
(`QemuLooper`), users are neither the guest nor nobody (`DeviceRegistry`), the watches are
finite in number (`DefaultLooper`), and so on. TLC evaluates all of them.

None of the properties is inductive as it stands. What has to be added, component by
component:

**The ports.** None of the three is inductive alone: that `assert(id < mLastId)`
holds in `put` needs that the id is in use, which needs that the stream's port was
never handed out twice, which needs that the allocator's returned ids lie
below `mLastId`. `PortsInv` joins them: the device has its shape; unless reset,
`Good` (the allocator is well formed, the streams' dynamic ports are in use and
pairwise different, nothing has aborted); unless reset or loaded, `Exact` (every id
in use belongs to a stream); and the same for every saved image under that image's own
history. The allocator's lemmas (`UniqueIdAllocatorProofs`) say what `get` and `put`
do to the ids in use. Every device method is shown to go from `d` to a device that
`Keeps` what `d` had; the relation is transitive, so a handler that calls back is the
composition of its lemmas, and `PortsNext` has one case for each action.

**The types.** `TypeOK` says that counters keep their width, the queue its size and
the allocator its shape, in the device and in every saved image, also after a reset.
It is not inductive: how much a pass sends is a sum over the streams, which is a number
only if there are finitely many of them, and a port that is returned after a reset
keeps the allocator well formed only if it is not the one of id 0. `Sound` adds these
two facts and the record's shape. `PutType` is about `put` of an id that is not in use.
`OrderExists` (streams can be listed in the order of their keys, by a smallest
counterexample on the number of streams) is what makes the RST packets of a load
packets.

**The topic.** For any set of subscribers and any width of the ticket counter. What makes
a new ticket safe is the loop that skips numbers in use (`NextTicket`); the inductive
invariant joins the type, that subscriptions and held tickets are inverse to each other,
and that those a running broadcast still owes a call are subscribed.

**The file lock** (`FLInv`). The holder's file is never unlinked because nobody is on the
way to do so: as long as nobody has given a lock up, everybody lives, the file names the
holder, and whoever has read it found a pid of a process that runs (`NobodyThinksStale`).

**The hang detector** (`HDInv`). `pause()` clears the running checks under `mLock`, but
`process()` gives `mLock` up in its middle. `WorkerIsOut` says where the worker can be while
the detector is paused, and that no looper is being processed anywhere else.

**The QEMU looper** (`QLInv`). A pending watch will fire if the bottom half is scheduled or
its iterator is not yet past the watch: `IteratorIsAhead` says that watches that are gone
have no events and that the iterator is always past the watch whose callback runs.

**The asynchronous socket** (`ASInv`). The destructor waits for a counter. The invariant says
what it counts (`QueueInv`: `mInflight` is the number of queued and running callbacks, except
for the one notification that the connecting thread waits for) and what each of the three
threads may still do (`ThreadsOK`, `OwnerInv`): as long as no watch is made late, there is none
from the time `dispose()` has seen that it is gone, and the listener is there until then.

**The default looper** (`DLInv`). First what `std::list::erase()` and `insert()` do to a list
without repetitions (`EraseFacts`, `InsertFacts`, `PrefixFacts`) and that the place
`std::find_if` finds keeps the list in order (`InsertedInOrder`). Then `NodeOK`: the list a
timer's node is in, its `mPending` and its deadline agree, and only timers that exist have
nodes; so the node that is erased is always there, in the list it is erased from. All of this
is kept until `misused`; what is said of watches and scheduled tasks is kept ever after.

**The sensors** (`SDInv`). A text is stale without a new measurement id only if a value
changes while the state is called stable. `MovingIsChanging` says that, until a tick overtakes
a target, the state is a changing one while a target is being set and while anything moves.

**The clipboard** (`CSInv`). A stream that is not unserved has the service's forwarder on the
device that is connected; once open it was told what is due, and while it is being opened that
is what it has read and will be told (`Served`). And a stream is a listener as soon as it is built.

**The registry** (`DRInv`). A callback has been told of the device that is alive, or a thread
is on its way to tell it (`ToldOrTelling`); and that thread finds the internal listener,
which is there whenever callbacks are, except for the call that is adding it (`ListenerInv`).

**Port forwarding, the server** (`PFInv`). That no second answer starts a second server needs
that the awaiter has at most one stream, the one `mSocket` is the port of, and none once it is
connected: the pointers and the streams are inverse to each other (`PointersAgree`).

**Port forwarding, the two ends** (`PortsInv`: `PFInv`, the types, and `PortInv` of every port).
`NoHalfOpen` speaks of empty queues only, so the invariant has to say what non-empty ones may
hold. Of a queue the proofs ask four things: whether it holds a packet of an owner (`Holds`),
a packet of a kind (`Bound`), two of them (`Twice`), and whether the last word about a port is
its end (`EndsWith`); `Added` and `Taken` say what `Append` and `Tail` do to the answers, and
nothing else about the queues is used. `SocketHeard`: a socket of the guest has its
connected stream, or its RESPONSE or its end is under way. `StreamAnswered`: a stream that is
not connected has its REQUEST or an answer under way, and no end is the last word about it
(so a REQUEST follows every stale SHUTDOWN of the awaiter's earlier attempts). `ClientAlone`:
what is under way to the port of a client is the client's, asked for once, answered once, and
the guest's socket, while there is one, is the client's; this is said of ports that are not
tainted. The lemmas `...Ports` show that each handler of the host and of the guest keeps
`PortInv` of the port it is about and, through `OtherPort`, of all others.

**Port forwarding, the bytes** (`BytesInv`: `PortsInv` and `ClientBytes` of every client). A byte
a client has written is in `mPreConnectedBuffer`, in a packet, or with the guest. `Buffered`:
until `onConnect()` all of them are in the buffer. `InOrder`: the guest has the first ones, the
data packets of the client continue them in increasing order (`Ledger`), and while the guest's
socket is there without a gap (`Covers`); once it is gone there may be gaps, because the guest
refuses what comes too late. `OnePort` and `OwnData`: a client has one port, also after its
stream is gone, and what comes to its socket is its own, since a packet of anybody else for that
port is behind an end of the client's connection (`Fenced`). This is said of clients that are not
soiled, also when their port is given away, tainted, to the next one. `DataAdded` and `DataTaken` are the
two lemmas about sequences; a step that is `Quiet` for a client (no new request, data or
socket of it) keeps all of it, which leaves the client's own acceptance, writes and
`onConnect()` and the guest's reception. The queue is described by where a packet is and which numbers it carries, not by
a concatenation, so no induction over it is needed.

**The archive's signed numbers.** Arithmetic with a modulus and its half; no state.

## 5. What is only model-checked

* Liveness under fairness and `ENABLED`, which the proof system cannot express.
* `CreditRespected`, `BytesIntact` and the refinement of `ByteChannel` (`VsockLink`): what is
  in flight is selected from and summed over a queue (`SelectSeq`, sums), and what these
  compute is an induction over data.
* `OrphansInOrder`, `EndIsAnnounced`, `LoadAccountsForStreams` (`VsockDevice`): they are about
  the contents of `sent`, that is `FlattenSeq` and `SetToSortSeq`. No theorem depends on them.
* `ReadsWhatWasWritten`, `BytesReachDevice`, `GuestSeesPointers` (`Archive`, `PlugProtocol`,
  `TouchInput`): digits of a number, frames of a stream and the events of one call are folds
  or recursive operators.
* `PFTypeOK` (`PortForward`), because the bound on `forwarded` is a sum over the clients.
  `PointersAgree`, its main part, is proved.
* `PartsTypeOK`, which joins the components' types; those of the file lock, the clipboard, the
  registry, the sensors, the hang detector and the QEMU looper are parts of invariants that
  are proved.

## 6. What is not modelled

`PROJECT.json` "components" gives the reason for each part. Most of the repository by
lines is outside what a state machine can say something about that a reader of the code
would not see: portability layers over the operating system (`System.cpp`, the two
socket layers, paths, shared memory), text and configuration (help texts, options, ini
files, AVD properties), the floating-point physics of `InertialModel`, CPU probing, HTTP, tokens and cryptography through libraries, and vendored or
generated code (`ext4_utils`, Rust crates). The map therefore covers a small share of
all lines and most of the lines of the components that have a protocol, threads or
failures of their own.

Left out of components that are modelled: receive buffers shorter than a packet
(`vsock_low_level.c:93-96`), `setStatus` with FAILED, loading a snapshot into a process
with live connections, hang predicates and `TimeoutMonitor`, `EventWaiter`, timers and
tasks of the QEMU looper other than the closures' timer, the Windows file locks and
the server side of asynchronous sockets, the pressure and shape of touches and the scaling
of axes, the sensors' time stamps, hinges and `SensorObserver`. A retry of the awaiter leaves a REQUEST and a
SHUTDOWN in the orphan list while the guest is not up; the list grows with the boot time,
which the models cut off with `MaxInFlight`.

## 7. Plan

Every safety invariant whose definition the provers can follow is a theorem. The next one
would be `CreditRespected` of the link: with the number of bytes in flight as a counter of the
plug (`wrote` less what is in `hostToGuestBuf` and in the socket) instead of the length of a
selection, the way `ForwardedInOrder` was proved would apply, from an invariant on the credit
that the headers under way carry. `BytesIntact` and the refinement of `ByteChannel` would follow
with data packets described as in `Ledger`.

Modules that would add something: `virtio_vsock_send_packet_host_to_guest` with short
buffers, `EventWaiter`, and the notification of displays. Two threads in the slot
registry at once, which today's code does not survive, would be worth a model once it
has a lock.
