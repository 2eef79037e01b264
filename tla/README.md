# TLA+ models of the ESP32 USB/IP server

The repository turns an ESP32-S3 into a USB/IP server: a USB device plugged into
the chip's host port can be imported over Wi-Fi by a USB/IP client (`vhci` on
Linux). The core is the C++ library `components/usbipdcpp` (server, sessions,
device handlers); the firmware around it (`main`, `components/board_utils`)
brings up Wi-Fi, a configuration portal, LEDs, buttons and a small GPIO server.

This directory holds TLA+ modules for the parts whose correctness depends on the
order in which threads act, the TLC configurations that check them, and TLAPS
proofs of what holds for every instance. Each definition is translated from the
source; `PROJECT.json` ("map") names the lines.

To run a check: `tlc -config handler_safety.cfg MCEsp32DeviceHandler.tla`.
To check a proof: `tlapm Esp32DeviceHandlerProofs.tla`. Which module goes with
which `.cfg` is in the table under "Runs".

## 1. Inventory

Paths are relative to `src/`; `usbipdcpp/` stands for `components/usbipdcpp/`.
Threads: **main** (starts everything), **network** (asio, accepts), one
**receiver** per session (its own `run_thread`), one **sender** per importing
session, the **USB event thread** (host library client callbacks), and on the
firmware side the **event task** (Wi-Fi events) and the web server's task.

| Component | State | Operations | Talks to |
|---|---|---|---|
| `Esp32DeviceHandler` | transfer table, `pending_count_`, `all_transfer_should_stop`, `device_removed_`, pointer to the session | submit, unlink, completion callback, new connection, disconnection | session (replies, wake-ups), USB host library |
| `Session` | `write_buffer`, `read_buffer`, `has_data`, `should_immediately_stop`, two threads | read commands, enqueue replies, send, stop | handler, server, socket |
| `Server` / `Esp32Server` | `available_devices`, `using_devices`, `host_devices` | list, import, give back, NEW_DEV, DEV_GONE | sessions, handlers, USB events |
| `Server` life cycle | session list, network thread | start, accept, run and remove a session, stop | sessions, sockets |
| Pools and containers | `ObjectPool`'s stack of free indices, `RingBuffer`'s head/tail/count, maps and sets with reused nodes | alloc, free, read, write, resize | device handlers, serial devices |
| Wi-Fi manager | event bits, five flags, LED state, stored credentials | connect with retries, portal, events, restart | driver, event task, web server |
| Virtual devices (HID, CDC ACM, MSC, mouse) | queued IN requests per endpoint, reports and bytes nobody asked for yet, the disk's Bulk-Only phase, the mouse's state; device threads | every transfer and control request, unlink, new connection, disconnection, calls of the device's own threads | session (replies), each other through `VirtualDeviceHandler` |
| Libusb server and handler | device lists, device handles, `transfers_`, a pool of `callback_args` | bind, unbind, unplug, import, stop; submit, unlink, callback, disconnection | session, libusb's event thread |
| Protocol encoding | none | reading commands from and writing responses to the socket | session |
| GPIO TCP server | the line buffer of the one client, pins | accept, receive, execute a line | network, LED |
| Buttons and LEDs | the press being measured, `g_led_off`, the last LED state | polling, callbacks from the Wi-Fi manager | event task, LED driver |
| Start-up, examples, Python bindings, tests | - | - | everything |

### What is hard, and what correct means

* **URB life cycle.** The receiver submits and unlinks while the event thread
  completes. Unlinking one URB flushes its whole endpoint, so the callback must
  tell "cancelled for this client's unlink" from "cancelled along" and resubmit
  the latter. `on_disconnection` must not return while the host still holds a
  transfer of the session, because the handler is used again for the next one.
  Correct: the table equals what is outstanding; each URB is answered by the
  protocol's rules; disconnection drains; a new session starts clean.
* **Reply path.** Producers raise `has_data` and notify without the mutex the
  sender waits with; two buffers are swapped under it. Correct: replies leave
  once and in order, waiting replies are covered by the flag, the sender ends
  when the session does.
* **Registry.** Hotplug events, imports and the ends of sessions move a device
  between lists in separate critical sections. Correct: one client per device,
  no device lost, DEV_GONE finds the session.
* **Life cycle.** `stop()` races accepts and sessions that end by themselves.
  Correct: the list is the set of working sessions; `stop()` ends what it knows
  and returns; an accept error does not end the service. The accept coroutine is
  spawned `asio::detached`, so an exception in it is dropped, with everything it
  still had to do.
* **Pools.** Correct: no object lent out twice, none lost; the ring buffer is a
  FIFO queue through wraps and resizes.
* **Wi-Fi.** A late event of one attempt must not decide the next; the portal
  must not open over a connection; `wifi_init` must return.
* **Virtual devices.** A device thread that has something to report meets a
  client that asks, unlinks or leaves. Correct: a report is never kept while a
  request waits, or the other way round; a blocked sender is released by whatever
  it waits for; the session's pointer is set while a thread may use it; the disk
  reads each transfer in the light of the ones before and does what its commands
  say.
* **Commands and replies as a stream.** Every byte announced must be sent and
  every byte sent must be read, for each kind of command and answer, or all that
  follows is read wrongly. Correct: both ends stay in step; each CMD_SUBMIT is
  answered once or visibly kept.
* **Libusb.** A handle is opened by the session, closed by it, by an unbind, an
  unplug or `stop()`. Correct: it is open while libusb has a transfer, closed
  while the device is offered, and a dead device leaves the list. `callback_args`
  are lent again and again. Correct: what they say is about the URB they are lent
  for.
* **Board.** Bytes of a GPIO client arrive cut anywhere; a button moves at any
  moment and the task that polls it may be late. Correct: each line is executed
  once, as sent; a press has the effect its length promises.

`PROJECT.json` ("hazards") lists each hazard at its line with the properties
aimed at it, or why there is none.

## 2. Modules

```
UnlinkContract <--refines-- Esp32DeviceHandler <-- MCEsp32DeviceHandler
                                    ^-- Esp32DeviceHandlerProofs
ReplyChannel   <--refines-- SessionSender      <-- MCSessionSender
                                    ^-- SessionSenderProofs
                            DeviceRegistry     <-- MCDeviceRegistry
                                    ^-- DeviceRegistryProofs
                            ServerLifecycle    <-- MCServerLifecycle
                                    ^-- ServerLifecycleProofs
Allocator      <--refines-- ObjectPool           --+
ByteQueue      <--refines-- RingBuffer           --+
                                    ^-- ContainersProofs (both)
                            LibusbServer         --+-- MCLibusb
                            LibusbDeviceHandler  --+
                                    ^-- LibusbProofs
EndpointRequests <-- HidInterface (refines UnlinkContract) --+
                 <-- CdcAcmInterface                       --+
                     MscBulkOnly                           --+-- MCVirtualDevices
                     AbsoluteMouse                         --+
UsbIpProtocol, VirtualDeviceHandler <-- CommandStream      --+
                                          ^-- VirtualDevicesProofs
WifiManager, Board, GpioTcpServer <-- MCFirmware
      ^-- FirmwareProofs
```

`MCLibusb`, `MCVirtualDevices` and `MCFirmware` each put components that share no
state into one state space, in which one of them runs while the others are as
they were created: the sum of their states is explored, not the product, and
nothing is lost, because none could see what another did.

The components meet at narrow interfaces, so they are checked apart:
`SessionSender` assumes of handlers that they enqueue nothing after
`on_disconnection` has returned (`Esp32DeviceHandler` shows where that is not
so); `DeviceRegistry` treats `on_disconnection` as one step
(`Esp32DeviceHandler` shows what happens inside); `ServerLifecycle` assumes that
a session ends when its socket is shut down (`SessionSender` shows the one
position in which it may not). In every module an action ends where another
thread can observe or disturb what the code does next: at the release of a
mutex, around an unlocked atomic, before and after a notify.

A definition introduced by "Variant:" is a plausible bug; it is no
part of any `Next` and serves to show that the properties can fail.

### Esp32DeviceHandler

`rpc` is the receiver thread and `epc` the USB event thread. The steps of the receiver:

| Action | Code (`Esp32DeviceHandler.cpp`) |
|---|---|
| `on_new_connection` | the reset of the flags at a new session |
| `receive_urb_*` | `receive_urb` for control, bulk and interrupt: removed, tweaked, submitted, refused |
| `handle_unlink_*` | `handle_unlink_seqnum`; `_Found` marks under the lock, `_Cancel` acts after it |
| `on_disconnection_*` | flag, one sweep step per endpoint, predicate (`_Check`), entry into the wait (`_Block`), detach |

and of the event thread: `transfer_callback_Begin` (the unlocked flag decides),
`_Drop`, `_Resubmitted`, `_ResubmitRefused` and `_FailReply`, `_Complete` and
`_Respond` (mutex held in between: `LockFree`), `_Wake`, `_Notify`; `DeviceGone`
is the DEV_GONE event. `HostCompletes` and `Unplug` are the environment. A
condition variable is modelled by the code's positions: `check`, `block`
(predicate false, not among the waiters yet) and `wait`; a notification moves
only a thread in `wait`. `fault` records the first use of a session or a
transfer that is gone; behaviours stop there.

`UnlinkContract` is what `DeviceHandler.h` promises for *any* handler, and the
refinement maps its three variables to submitted URBs, unlinks and reply kinds.

### SessionSender

`ppc`, `rpc` and `spc` are the threads. `Produce`, `wakeup_sender_Flag`,
`wakeup_sender_Notify` are a callback; `Receiver*` the receiver's own replies,
its direct write and its end; `sender_*` the loop, the wait, the swap, the
reset of `has_data`, the pop, the second look at the stop flag and the write.
`SwapMutexFree` excludes producers while the sender holds `swap_mutex`.
`ReplyChannel` is the FIFO promise.

### DeviceRegistry

A `Device` is one plugging-in; `BusidOf` gives the busid of its address. Every
critical section of `devices_mutex` is one action. `remove_gone_device` and
`NewDev` are `client_event_callback`; `Plug` hands out an address no open device
has. The configuration chooses whether addresses are given out again.

### ServerLifecycle

`opc` is the thread that calls `start` and `stop`, `ipc` the network thread and its
accept coroutine, `thread[c]` each session's thread. `listen` sets the acceptor up
or fails, which is the only exception the handler of `start` (Server.cpp:52) sees.
`do_accept_Name` is `remote_endpoint`, which throws for a connection reset
meanwhile: the detached coroutine drops the exception and dies with the only
`shared_ptr` to the session (`ipc = "over"`), the entry of line 236 is dead
(`expired`), and as it is the last one, no `remove_session` comes to it; then
`io_context.run` returns for want of work and the acceptor goes (`IoEnds`).
`run_Spawn` and `run_Assign` are the two halves of
`run_thread = std::thread(...)`, so `run_Detach` may come before the handle is
there. `exited` is `std::exit` (`listen`) or `std::terminate` (`run_Detach`).

### ObjectPool, RingBuffer

One action per call and outcome. `Allocator` and `ByteQueue` say what a caller
may rely on.

### WifiManager

`pc` follows `wifi_init` through `wifi_try_connect_saved` and its retries,
`wifi_prepare_sta_disconnect`, the wait for the event bits, the portal and
`board_sync_wifi_led`. `Event*` are the branches of `wifi_event_handler`, in two
steps where the code notifies in between. Each bit remembers the attempt
whose event set it - the event task keeps that attempt in `handling` between the
two steps - which lets `OutcomeIsOwn` say whose result was read. The failure of
`wifi_ensure_sta_mode`, `esp_wifi_set_config` or `esp_wifi_connect` counts twice
in the retry loop, as in the code.

### GpioTcpServer, Board

`task` is where `gpio_tcp_task` is; `gpio_tcp_task_*` and `open_listen_socket` are
its loop, and `handle_client_*` the loop of a client: what one `recv` brings,
each line executed, what is left when no line is complete, and how the client
ends. A character of the model is a whole word, so that the cutting of lines, the
truncation of an overlong one and the commands can be explored together. `button` is where `button_task` is in its
measuring of a press, in polling intervals that may be late (`MaxLate`);
the LED is set by it and, on the event task, by the callback of the Wi-Fi manager,
which calls with any state. Two things seen on the way: board.cpp:82 announces a
brightness of 80 where the code sets 10, and a lost network is noticed only when
the client's receive times out.

### EndpointRequests, HidInterface, CdcAcmInterface

`EndpointRequests` is the queue of IN requests that both use, a pure data
structure. In each module `*_receiver` is the receiver thread, whose handlers are
one action per outcome, and the device's threads come at any time, also without a
connection. HID: `send_input_report_Answer` and `_Store`; both mutexes are held
together, so a call is one step; `on_disconnection` takes them one after the
other, hence three. Serial: `spc` and `left` follow each thread through
`send_data_blocking` (`wait` and `woken` are the two sides of `tx_cv_`); an
echoing device sends from the receiver itself. `HidImplementsContract` maps the
HID handler to the same `UnlinkContract` as the ESP32 handler.

### MscBulkOnly

`state_` is the handler's, `host` what a correct host does: command, data in one
direction or none, status, or leaving in the middle. `do_cbw_*` are the SCSI
commands by the phase they lead to, `bulk_out_*` and `bulk_in_*` the transfers in
each phase. `shadow` is the disk a host may infer from the answers it got.
Writing through a parameter list beyond the image is undefined in the code and
left out, because no legal host sends one.

### AbsoluteMouse

`script` holds the calls of a click or a move that are still to come, each a step
under `state_mutex_`; `sender` is the send thread, with the gap between predicate
and wait of `state_cv_` as a position of its own.

### VirtualDeviceHandler, UsbIpProtocol, CommandStream

`VirtualDeviceHandler` says, as operators, which answer a URB gets by its
endpoint, interface and setup packet, following the dispatch down to the default
implementations. Addresses 0x00 and 0x80 are both `Ep0`; the other endpoints are
numbered, whatever their direction. `UsbIpProtocol` says how many units every message puts on the
socket and takes off it. `CommandStream` runs a session over both: operation,
commands, unlinks, errors that end it, `on_disconnection` interface by interface,
the sender, and a client that reads as Linux does. `live` are the transfer
handles not freed yet.

### LibusbServer, LibusbDeviceHandler

`LibusbServer` follows one busid: handlers are numbered as they are bound, each
with its device reference or descriptor, its handle and its claimed interfaces;
`available` is the set of those in `available_devices` (the list is searched by
busid; only its listing to clients, not modelled, shows its order).
One action per locked call; `session_*` are the steps of `Session` around the
handler; `left` counts unplugs on their way to `handle_device_left`.
`LibusbDeviceHandler` follows URBs: `receiver` and `event` are the two threads,
`args` the objects URBs are described by, lent from the pool (last in, first out)
or the heap, `transfers_` and `pending_count_` as in the code. The device may be
removed at any moment, by the word of the server, by a refused submission or by a
callback; the receiver looks at `device_removed` in a step of its own
(`receiver_Enter`), before the work: from then on a URB is not answered and ends
the session (LibusbDeviceHandler.cpp:169), an unlink is dropped and the session goes
on (336). `ignored` holds the unlinks dropped so; `reused` and `overtaken` remember
the two ways in which an object may describe the wrong URB.

What reading this code for the model showed, beside the finding below:
`try_remove_dead_device` on a device in use closes the handle under the session's
transfers (LibusbServer.cpp:480-484; its comment forbids the call, `misused`);
a device bound twice stays in the list after its unplug (630-646; the model's
application does not bind twice); a handler that has lost its reference opens
nothing and reports success (LibusbDeviceHandler.cpp:109-127); a special request
that libusb refuses goes on as an ordinary transfer (183), which the comments at
381 and 444 deny; a new connection may reset the pool under a callback that is
still running (153); the notification at 670 has the gap of the ESP32 handler's
(146-149), and `handler->session` is used after the count was given back (661);
RET_UNLINK does not wake the sender (364).

## 3. Runs

| Run | Module | Question and result |
|---|---|---|
| `handler_safety` | MCEsp32DeviceHandler | table, replies and disconnection in every interleaving of one session, three URBs: holds |
| `handler_contract` | MCEsp32DeviceHandler | two sessions in turn: the contract is implemented, unlinks and submits are answered, each session starts clean: holds |
| `handler_disconnect_hangs` | MCEsp32DeviceHandler | does disconnection end? **No** |
| `sender_safety` | MCSessionSender | nothing lost or reordered, the join returns but for one position: holds |
| `sender_lost_wakeup` | MCSessionSender | is every reply sent? **No** |
| `registry_two_ports` | MCDeviceRegistry | one owner per device, lists and sessions in step, DEV_GONE finds the session: holds |
| `registry_double_import` | MCDeviceRegistry | one client per device when addresses are reused? **No** |
| `server_stop` | MCServerLifecycle | list, stop and service under connects, resets, early ends: holds |
| `virtual_devices` | MCVirtualDevices | reports, bytes, blocks and gestures reach the client; the contract is implemented; command stream in step and answered: holds |
| `libusb` | MCLibusb | handle and transfers, dead devices, pending URBs, unlink protocol up to the device's removal; allocator and FIFO queue: holds |
| `libusb_stale_unlink` | LibusbDeviceHandler | is every URB answered by the unlink protocol? **No** |
| `firmware` | MCFirmware | attempts do not mix, every boot ends; presses act as documented; GPIO commands are the lines sent: holds |

### Bounds, and why they are enough

* Handler: two URBs on one endpoint are the least in which an unlink of one
  cancels the other; a third on endpoint 0 is neither halted nor flushed. One
  session with refusals (`ResubmitMayFail`) for safety; two sessions without for
  the contract, since what a session can inherit comes from the one before.
  `MaxSessions` caps the connections.
* Sender: two producers, so that two threads can be inside `wakeup_sender` at
  once, beside the receiver; five replies (`MaxReplies`) fill both buffers and
  let one come during a swap and one after. Three for the violation.
* Registry: two devices, three clients: one working, one giving back, one
  importing. Two ports or a replug on one.
* Server: two clients: one in the list when `stop()` goes through it, one late.
* Containers: a pool of four; capacities 0 to 4 and data blocks up to 4 bytes of
  two values, so that a write wraps, overruns and fills exactly.
* Libusb server: three handlers, two unplugs: a device that goes, one bound after
  it, and a removal in between. Libusb handler: three URBs, two unlinks, two
  sessions and a pool of one object, so that objects are lent again within a
  session, across sessions, and from the heap.
* Virtual devices: two connections each (what a client inherits comes from the
  one before). HID: two endpoints, three URBs, three reports (one waiting, one
  answered, one in between). Serial: three URBs of two bytes, a buffer of two and
  messages of three, so that a blocking call waits in the middle; one sender that
  may time out beside the receiver that echoes. Disk: two blocks of two units,
  commands of 0 to 2 blocks (0 means 256: out of range), two values, three
  commands. Mouse: one caller with two gestures, pixels on and off the screen.
  Stream: two commands of every kind of answer, among them one too long.
* Wi-Fi: three tries (as many as needed for first, middle and last); two
  restarts (`MaxBoots`): into the portal and out of it.
* Button: a long press after 4 polling intervals of 50 ms, a reset after 8, a
  window of 2, a task late by up to 2: the code's proportions, shrunk.
* GPIO: a buffer of 4 characters and up to 5 received: a line that fits exactly,
  one too long, and a second line after either; six characters, one for each
  way in which the code tells them apart and for each kind of effect.

### Fairness

Weak fairness of the threads, for the steps they take by themselves: FreeRTOS
and the host OS run every ready thread. A thread that waits for a client, for
the bus or for the driver gets none: `on_disconnection_Begin` is fair only once
the socket has been shut down, `HostCompletes` only in `HostFairSpec` and as the
hypothesis of `SubmitIsAnswered`, and clients, unplugging, the driver's answers
and restarts by the user never are. Nobody is owed a spurious wake-up. Deadlock
checking is off where the system may come to rest: clients leave, the device is
gone, `stop()` has returned, the boot is over.

### Where the code does not do what it says

Four statements of comments and headers are refuted by runs of their own
(`PROJECT.json`, "findings"):

1. `DisconnectEnds`: `pending_count_` is decremented and the waiter notified
   without `transfer_complete_mutex_`; both can fall between the predicate and
   the wait of `on_disconnection`, which then sleeps for ever. The comment at
   the notification says it covers the race.
2. `ReplyIsSent`: `wakeup_sender` has the same gap as 1; the reply waits for the
   next one.
3. `Exclusive` with addresses given out again: the end of an old session returns
   the entry another session now holds under the same busid.
4. `UnlinkProtocolAlways` (libusb): `unlinking` is not reset when `callback_args`
   are lent again, so that the next URB is answered with the old RET_UNLINK.

The modules keep further statements that TLC refutes; they have no run. To see a
trace, name one in a `.cfg`:

* `NoSessionUseAfterDisconnect` (handler): a callback that has read the stop flag
  as false and has erased itself still uses `handler->session`.
* `FoundTransferIsAlive` (handler): the unlink reads `cb->transfer` after
  releasing the mutex; a callback may have reset it.
* `AllCancelledBeforeWait` (handler): a resubmission after the sweep restarts a
  transfer that nobody cancels; the wait then depends on the device.
  `DisconnectionDrains` shows that it is one transfer at most.
* `ResultBeforeUnlink` (handler): a URB whose resubmission was refused is
  answered after the lock is released; its RET_UNLINK can come first.
* `TweakFailureIsVisible` (handler): a special request that fails on the device
  is answered with success.
* `IdleSenderWaits` (sender): `has_data` can stay raised with both buffers
  empty; the sender then spins until the next reply.
* `SessionEnds` (sender): the join does not return when the stop's notification
  falls between predicate and wait. `EndsUnlessInWindow` shows this is the only
  position.
* `OneWriter` (sender): the reply to an unknown endpoint is written by the
  receiver, possibly into the middle of one the sender writes.
* `NoGhostDevice` (registry): DEV_GONE between `is_device_removed` and the move
  back leaves a device in the list that no longer exists.
* `DevGoneStopsSession` (registry): when a transfer has set `device_removed_`
  and the session exit of another client sweeps the entry away, DEV_GONE finds
  nothing to stop.
* `StopReturns`, `NoSessionAfterStop` (server): a connection accepted after
  `stop()` went through the list keeps it waiting, or outlives it.
* `NoDeadEntry`, `AcceptsUntilStopped` (server): a client that resets right after
  the accept makes `remote_endpoint` (Server.cpp:238) throw. The accept coroutine
  ends without a word and the process lives on, but no later client is served, and
  the dead entry in the list keeps `stop()` waiting for ever.
* `NeverExits` (server): a session that ends before its handle is assigned
  throws out of its thread (`std::terminate`).
* `EveryUnlinkCounts` (libusb): a CMD_UNLINK that comes after the device was removed
  is dropped (LibusbDeviceHandler.cpp:336) and its RET_UNLINK never sent, although
  the session goes on. `UnlinkProtocolUnlessReused` shows that these are the only
  ones.
* `EveryUrbCounts` (libusb): so is a URB that comes after the removal (169); that
  one ends the session.
* `NoStaleIp` (Wi-Fi): a GOT_IP handled between a timeout and the intentional
  disconnect leaves `s_sta_has_ip` set.
* `LedIsRight` (Wi-Fi): `board_sync_wifi_led` overwrites a newer state.
* `HidFreshClient` (HID): a report sent while nobody is connected waits for the
  next client.
* `EchoEnds` (serial): a device that sends blocking from `on_data_received` holds
  the thread that would take the requests it waits for.
* `MscWritesOnlyData` (disk): phase and collected data outlive the session; the
  next client's command blocks are written to the image.
* `PressIsReported` (mouse): press and release can both come before the send
  thread runs.
* `MouseDisconnectEnds` (mouse): `should_stop_` is announced in the gap before the
  wait, and the join does not return.
* `AllInterfacesDetached` (virtual devices): an error code ends
  `on_disconnection`'s loop at the first interface.
* `StreamNeverBreaks` (stream): the receiver can write into the middle of a
  response the sender writes, and a response can announce isochronous packets
  that it does not carry; the client then reads all that follows wrongly.
* `NoSubmitIgnored` (stream): a standard request to an endpoint the device does not
  have is never answered. One to endpoint 0, which is found but belongs to no
  interface, is: with EPIPE, and an error code that ends the session
  (VirtualDeviceHandler.cpp:410).
* `UnlinkAnsweredOnce` (stream): a CMD_UNLINK goes to every interface handler, and
  each of them answers it (VirtualDeviceHandler.cpp:588).
* `OverlongLineDiscarded` (GPIO, gpio_tcp_server.c:292): a full buffer is
  emptied, and the rest of the line is executed as a line of its own.
* `EveryPressSeen` (board.cpp:358) and `LedStaysOff` (board.cpp:189): a press
  that begins before the task saw the last one end does nothing, however long it
  is; a Wi-Fi callback that had read `g_led_off` before lights the LED after it was
  switched off.

For several of these the modules also say how far the fault reaches, and section 4
proves it. A thread is left asleep by a lost notification only in the
gap between predicate and wait (`OversleepsInWindowOnly` of the handler, where a
refused resubmission is the one other cause, and of the sender;
`ChangeIsNotOverslept` of the mouse, where only the stop can be lost). The
service is ended before `stop()` only in the positions named at `NoDeadEntry` and
`NeverExits`, or because it could not listen (`EndsInWindowsOnly`). A callback may outlive its session, but no URB still in the
table does (`TableIsOfThisSession`).

The properties that hold except the affected cases by name (`refused` in
`ReplyProtocol`, the window in `EndsUnlessInWindow`, `signalled`, `expired` and
`exited` in the server's, `reused`, `overtaken`, `ignored`, `misused` and `unseen` in
libusb's, `torn` in the disk's), so each says exactly how far the code keeps its word.

## 4. Proofs

TLAPS proves, for all values of the constants that satisfy the named assumptions:

* `Esp32DeviceHandlerProofs` - any finite set of URBs, any endpoints, any number
  of sessions, with and without refused resubmissions (`UrbsAssumption`,
  `EndpointsAssumption`, `BoundsAssumption`). None of the properties is
  inductive by itself. `IInv` adds to them: where the event thread is determines
  the stage of the URB in its hands, and no other URB is in a callback
  (`EventInv`); there is a session while the receiver runs, and a URB that was
  not sent has no owner, reply or unlink (`OwnerInv`); past the wait and until
  the next session nothing is outstanding unless the device was removed
  (`IdleInv`); whatever is in the table was not answered yet, and what a
  callback decided still holds when it replies (`DecisionInv`); and every
  history of replies is one of a few shapes (`HistoryInv`).
  `Invariance` proves `Spec => []IInv`; from it follow `TypeCorrect`,
  `TableCorrect`, `Drained`, `FreshStart` (an action property), `RepliesCorrect`,
  `CancellationHidden`, `LateUnlinkOk` and `SessionTable`. How many transfers a
  disconnection can be kept waiting by needs an invariant of its own
  (`RestartInv`): while the stop flag is up, a callback that read it before and
  may still resubmit excludes a transfer already restarted, and no new callback
  takes that path; `DisconnectionBounded` follows. `OversleepsOnlyInWindow` goes
  through the actions: every one but two that brings the counter to zero leaves
  the event thread on the way to `notify_one`. `ContractRefined` proves
  `ImplementsContract` under the hypothesis that the host takes every transfer
  back (`~ResubmitMayFail`; without it `ResultBeforeUnlink` above is a
  counterexample): with `HistoryInv` the kinds of a URB's replies before a step
  are known, and `TakenInv` says that whatever is answered was submitted.
* `ServerLifecycleProofs` - any set of clients. `IInv` adds to the types and the
  list where `cur`'s thread is while `do_accept` works on it (`CurInv`) and that
  whoever `stop()` told is still listed or at its end (`SignalledInv`);
  `ListCorrect` and `StopIsThorough` follow: a dead entry keeps `stop()` in its
  wait, so what is said of the time after it stays true. The only thread without
  an assigned handle is that of the session just spawned (`UnassignedInv`), whence
  `EndsOnlyInWindows`, which also says that accepting ends before `stop()` only by
  a reset that leaves its dead entry.
* `ContainersProofs` - a pool of any size, a ring buffer over any set of bytes and
  up to any capacity (`PoolAssumption`, `RingAssumption`). `PoolInv` says that the
  stack is injective, holds free objects only, and holds all of them; that a free
  fits below `PoolSize` is a pigeonhole argument: an injective stack that misses
  the object being freed is shorter than the pool. `PoolRefines` maps every step
  to a step of `Allocator` or a stutter. For the ring buffer, every position the
  code computes is less than twice around, so each remainder is at most one
  subtraction (`AroundTheEnd`); with the tail always the count behind the head
  (`RingInv`), the bytes from the head on are known one by one before and after a
  write, a read or a resize, and `RingIsFifo` proves the refinement of `ByteQueue`.
* `SessionSenderProofs` - any producers, any number of replies. `SwapInv` says
  that the sender swaps only when `read_buffer` is empty, so that `write_buffer`
  is empty while the flag is lowered under the mutex; with it `FlagCoversQueue`
  is inductive. `OrderCorrect` then follows by moving the border between two
  adjacent parts of one sequence, action by action; and as the reply in the
  sender's hand is therefore the next one the channel owes (`HandIsNext`),
  `ChannelRefined` proves the refinement of `ReplyChannel`. Whoever raises the flag
  or ends the session has its notification still ahead, so `OversleepsOnlyInWindow`.
* `DeviceRegistryProofs` - any devices on ports of their own
  (`OneDevicePerAddress`, without which finding 3 refutes it), any number of
  clients. `IInv` adds: what is offered is on the bus and injectively listed
  (`ListInv`); an entry of `using_devices` has its busid and a holder
  (`UsingInv`); a session that has not finished giving back still holds its
  device (`HeldInv`); as long as no word of its removal has come, a held device
  is registered (`WordInv`); and the marks follow the bus (`BusInv`).
  `OneOwnerCorrect`, `UsingCorrect` and `GoneReaches` follow: all three
  properties of the run.

* `LibusbProofs` - any number of bindings, unplugs, URBs, unlinks and sessions,
  any pool, without the misuses that the properties except by name. The server:
  from the import until the handler is given back, the session's handler is the
  one `using_devices` has under the busid and is not offered, so neither an
  unbind nor a dead device's removal reaches it (`HandleInv`), and who has yet to
  bring the word of an unplug is counted (`WordInv`); `HandleCorrect` and
  `NoDeadOffer` follow. The handler: an object of the pool is the receiver's,
  libusb's, the event thread's or free, and the table leads to exactly the ones
  that are away (`TrackInv`, `AwayInv`, from which `OutstandingCorrect`);
  `UnlinkCorrect` adds what a URB's object says the client is still owed
  (`OwedInv`): an unlink taken before the device was removed its one answer, a later
  one none. It is inductive only as long as no object describes the wrong URB: that
  is where finding 4 breaks it.
* `FirmwareProofs` - any number of retries and restarts; presses and polls of any
  length; any line buffer, alphabet and pins (`RetriesAssumption`,
  `BoardAssumption`, `GpioAssumption`). Wi-Fi: an attempt is made only
  when the station is down and nothing is heard of it any more (`Calm`); that it
  is so at the head of the retry loop needs that a disconnect is the last event of
  an attempt (`QueueInv`) and that every way out of a wait leads through a handled
  disconnect or the pause that outlasts it (`PlaceInv`). `OutcomeCorrect`,
  `PortalCorrect` and `ConnectedCorrect` follow. The button: while a press is
  timed, the clock is one poll behind it at most (`ClockInv`), so no poll jumps
  over the window of a long press unless polls are longer than it;
  `GesturesCorrect` follows. The proof showed that a window which begins at 0 can
  be missed, so `BoardAssumption` asks for `SHORT_PRESS >= 1` (the code: 1 s, 20
  polls). The GPIO server: at every moment the buffer is the end of the stream
  received so far, from a place on that is whole buffers away from the start of
  its line (`BufferInv`), and up to that place every line has been executed, as
  it was sent, and every full buffer answered (`ExecutedInv`). `recv` leaves the
  place where it is, a line feed or a full buffer moves it; in `recv` nothing is
  left behind it that could be executed, whence `CommandsCorrect`. "The first
  line feed" and "the last one before" need the least-number principle
  (`LeastElement`), which follows from the library's theorem that `<` is well
  founded on the naturals: that one takes a set and not an operator, so it can be
  cited.

* `VirtualDevicesProofs` - theorems of `MCVirtualDevices`' specification, in which
  the devices sit side by side. HID: any endpoints, requests, reports and
  connections. A report and a request never wait at the same time, a request
  waits in one queue once and only until it is answered or unlinked, and the
  numbers of the stored reports follow those of the received ones (`HidInv`);
  `HidReports` and the refinement `HidContractRefined` follow. Serial port: any
  buffer, request and message lengths, finitely many blocking senders
  (`CdcAssumption`). What is left of each sender's message and what it waits for
  (`CdcInv`); `CdcMoves`, and with HID's, `SessionsOutlive` follow. Mouse:
  `PixelsSurvive`, the arithmetic lemma that a pixel is the same after the
  conversion to HID units and back, needs a screen no wider than the HID range
  (the code, which does not check `screen_width_`, has 1920 of 32767), so
  `MouseIsShown` has `Width <= HID_MAX` as a hypothesis; it then follows from what
  is marked as changed where the send thread waits (`MouseInv`). That callers hold
  the mutex the send thread gives up only by waiting (`MouseWaitInv`) proves
  `MouseOversleepsOnlyStop`, on any screen. Disk: any geometry. As
  long as no session broke off in a command (`torn`), handler and host agree on
  the phase, and what is staged is a prefix of the command's data (`MscInv`);
  `MscFollows` follows. The command stream: any device, any commands, any number
  of them (`DeviceAssumption`, `StreamAssumption`; the latter includes that a
  control request is submitted in the direction of its data stage, as Linux
  does). `StreamInv` says that commands keep their numbers (`CommandsInv`), every
  waiting or half-sent response agrees with its command in what it announces
  (`WaitingInv`), every command is answered, unlinked or kept where somebody will
  answer it (`CareInv`, but for the requests to endpoints the device does not have), and the sender stands at a header or in a body whose rest
  is what the client reads next (`StepInv`). `StreamStaysInStep` and
  `SubmitsAreAnswered` follow.

Except for the last, these are theorems of the components' own specifications; the
runs that put components side by side (`MCLibusb`, `MCFirmware`) take steps of them
and no others. In the proofs about `MCVirtualDevices` a step of one device leaves
the variables of the others alone, as it does in the runs.

Only model-checked: everything temporal beyond invariants, action properties and
refinement of safety (liveness under fairness and `ENABLED` are outside the
prover).

## 5. Not modelled

* In `Esp32DeviceHandler`: chunked transfers (the constructor sets
  `enable_chunking = false`), `sync_control_transfer` (one step of the receiver
  here), isochronous packet descriptors, payloads.
* `Esp32Server::unbind_host_device` and `stop`, which the firmware never calls;
  a second `start` after `stop`; failures to create a thread.
* `ReuseMap`, `ReuseSet`, `SmallVector`, `StringPool`: sequential containers,
  used by the other models through their interface.
* `wifi_reconnect`, `wifi_disconnect`, `wifi_start_ap_provisioning` (no caller);
  HTTP and form parsing.
* Requests whose wIndex names an interface the device does not have: the handler
  indexes `handle_device.interfaces` with it unchecked
  (VirtualDeviceHandler.cpp:240, 450, 470). `find_ep` drops the upper byte of
  wIndex; the models' endpoints have none.
* The aborts of `ESP_ERROR_CHECK` in the Wi-Fi manager, and the loss of an address
  without a disconnection (`IP_EVENT_STA_LOST_IP`), for which it has no handler.
* Byte order and record contents of the protocol (unit tests in
  `usbipdcpp/test` cover them); the contents of descriptors and of INQUIRY-like
  answers; `SimpleVirtualDeviceHandler`'s defaults; changes of string descriptors.
* In the libusb parts: isochronous packets, enumeration and listing, Android's
  wrapped descriptors beyond their ownership.
* `button_manager.c` and the effects of `led_manager.c`, which the firmware does
  not call; NVS initialisation, the event loop of `init_usb_host` and the loop
  that prints heap sizes in start-up.
* Examples, Python bindings and tests, which use the library.

## 6. Plan

Done, most important first: handler, reply path, registry, life cycle,
containers, Wi-Fi; proofs of handler, life cycle and pool; virtual devices and
the command stream; libusb; board and GPIO server; proofs of the reply path and
the registry; proofs of libusb, Wi-Fi and the button; proofs of the virtual
devices, the command stream and the ring buffer; the contract of the ESP32
handler; the lines of the GPIO server; how far the lost notifications, the
late resubmissions and the early ends of the process reach. With that, every invariant, action property and
refinement that a run checks is proved.

What is left, in this order:

1. A composition of registry and life cycle: `stop()` while devices come and go.
2. `sync_control_transfer` with its own time-out, and isochronous packets.
3. Two callers of one mouse and two blocking senders of one port in one run.
