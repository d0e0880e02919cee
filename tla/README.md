# A verification of the ESP-01 switch controller

TLA+ modules that model the firmware of this repository, TLC configurations
that check them on small instances, and proofs that TLAPS checks. Paths and
line numbers are those of the repository (`src/` in PROJECT.json).

## 1. The system

A device (ESP8266, FreeRTOS, one core, preemptive) that drives eight relays
through a shift register. It serves a single-page web application over HTTP and
talks to it, and to a GTK client, over WebSocket. Its configuration is in the
flash (NVS). Its WiFi is a station, an access point, or both.

### 1.1 Components

| Component | Source | State | Operations |
|---|---|---|---|
| Connection pool | `components/web/src/web-socket.c` | `client_socks[MAX_CLIENTS]` (descriptor, state, sequence number, login, four pthread objects), the global mutex, `conn_seq` | `ws_accept`, `ws_establishconnection`, `close_client`, `ws_sendframe` to one or to all |
| HTTP server | `components/web/src/web-server.c` | `client_fd`, `http_buf` | one thread: accept, receive, answer or upgrade |
| Message dispatch | `components/web/src/web-socket-handler.c` | a list of handlers | `ws_onopen`, `ws_onmessage`, `ws_onclose`, `web_socket_close_all_clients` |
| Frame reader | `components/web/src/web-socket.c` (`next_frame`) | the frame and message being read | reassembly, control frames, rejection |
| Configuration | `main/config.c` | `config` in memory; `cfg` and `pwd` in the flash | load, defaults, the handlers of each field, password, reset, restart |
| Actuator | `main/actuator.c` | three pins, the 74HC595, `config.switch_values` | `actuator_setup`, `actuator_update` |
| WiFi | `main/wifi.c`, `main/wifi_action.c` | the bits of `APP_STATE`, `retry_cntr`, the mode of the driver | events of the driver, start and stop of AP and STA, scan |
| Web client | `components/web/src/api.ts` | waiters, login, last known values, reconnection | requests with a timeout, messages, reconnect |
| GTK client | `clients/gtk` | the last value of the switches it was told, its connection | toggle of one switch, reconnection |
| Terminal | `main/terminal.c`, `components/commands` | none of its own | a REPL that calls the operations above, `ping` |
| Sensors | `main/sensor.c` | the last values | a task that reads and broadcasts; not in the build (`sdkconfig`) |
| Boot | `main/main.c` | none | the order in which the others start |

### 1.2 How they interact

* The http thread hands an accepted socket to `ws_accept`, which gives it a slot
  and starts a connection thread. Both work on the same array; the global mutex
  covers the search for a slot, the clearing of a slot and a whole broadcast, not
  the claim of a slot.
* A connection thread calls the handlers of the other components, so
  `actuator_update`, the handlers of `config.c` and those of `wifi.c` run in as many
  threads as there are clients, and in the terminal's. None of them takes a lock
  around its own state.
* Handlers answer their client and broadcast. A broadcast takes the global mutex
  and then, one after the other, the send mutex of each open slot.
* Handlers block: half a second before a restart, seconds for WiFi.
* A send to a client that does not read ends after `SO_SNDTIMEO`, and a frame needs
  memory: a client that is there may miss a broadcast.

### 1.3 What is hard

The behaviours a test hardly reaches are listed, with their lines, under `hazards`
in PROJECT.json: the reuse of a slot whose old thread still runs, a failure after
the claim of a slot, a client that cannot be sent to in the middle of a broadcast,
eviction under load, control frames inside a fragmented message, loss of power between
two writes, changes that overlap with a reset, two updates of the relays at once,
messages that overtake each other, replies that come after their request was given
up, a byte computed from a value that is no longer the device's.

### 1.4 What makes each component correct

* Pool: a slot has one thread; a thread works on its own connection; every
  descriptor is closed once; a login ends with its connection; nothing precedes the
  handshake; slots of clients that left come back; a full pool evicts the oldest.
* Configuration: what was answered true is in the flash for good; a configured
  device has a password; a reset leads to the defaults; flash and clients follow
  the memory.
* Actuator: the relays show the stored value and never anything in between.
* WiFi: the bits of `APP_STATE` say what the driver does once its events are handled;
  an action that waits for a bit does not take another's; a lost link is tried again.
* Frame reader: a message is handed over whole, in order, with nothing of the control
  frames between its fragments; every PING is answered with its own payload; one
  CLOSE is written and nothing after it; the memory of a message is given back.
* Web client: a request gets its own reply and ends in any case; the page comes back
  to the device; it does not take itself for logged in when the device does not.
* Both clients: what they show is what the device has, and a click changes one switch.

## 2. Modules

| Module | What it is |
|---|---|
| `WebSocket` | the pool, the http thread and the connection threads |
| `ConnTable` | what the pool promises: a table of connections (abstract specification) |
| `MCWebSocket` | symmetry for its TLC instances |
| `WebSocketProofs` | its inductive invariants (with and without evictions), theorems, and the refinement of `ConnTable` |
| `Frames` | `next_frame` and `read_frame`: from frames to messages, and the answers to control frames |
| `MCFrames` | the ids of its TLC instance |
| `FramesProofs` | its inductive invariant and theorems |
| `Actuator` | `actuator_update` call by call and the 74HC595 |
| `ActuatorProofs` | its inductive invariant and theorems |
| `Config` | the configuration in memory and flash, its handlers, boot, reset |
| `MCConfig` | symmetry for its TLC instances |
| `ConfigProofs` | two inductive invariants and theorems |
| `Wifi` | the event handler, the actions of the station and the AP, and the driver under them |
| `MCWifi` | symmetry for its TLC instances |
| `WifiProofs` | the inductive invariants of the bits and of a connect, and theorems |
| `ClientApi` | the web page's requests, login and connection, with a device that answers |
| `ClientApiProofs` | its inductive invariant and theorems |
| `LoginProofs` | the inductive invariant of the login, over that of `ClientApiProofs`, and theorems |
| `Switches` | the byte of the switches between the device, the two kinds of client and the terminal |
| `SwitchesProofs` | its invariant and theorems |

How they fit together: `Frames` is the inside of one reading step of a connection
thread of `WebSocket` (its kinds of frame are the results of `Frames`); `WebSocket` says
who gets a broadcast; `Actuator` and `Config` are what handlers do, on relays and
flash; `ClientApi` is the page at the other end of one connection; `Switches` composes
the thread that changes the value, the broadcast, the message a new client gets,
and several clients with their connections. `WebSocket` implements `ConnTable` by a
refinement mapping, which is checked and proved.

In each module a mutated operator (`FindFree_OffByOne` for `FindFree`, commented
`Slip:`) stands before the operator it is a plausible mistake of; PROJECT.json lists
which property it breaks. No specification uses them.

### 2.1 WebSocket

One variable per field of a client structure (`sock`, `state`, `seq`, `login`, `mtx`
for the life of its pthread objects, `snd` for the holder of `mtx_snd`), one for
the global `mutex`, a program counter per thread. The steps are those between
which another thread may run: each call of a socket function, each section under
a mutex, each group of assignments between them.

* `ws_accept` is `FindFree`, `Evict`, `TooMany`, `Claim`, `Setup`, `Handshake`, `Create`
  and their failures; `close_client` is `CloseBegin`, `CloseSock`, `CloseClear`, run by the
  http thread or by a connection thread, with or without the mutex as in the code.
* `ws_establishconnection` is `Start`, `Open`, then `Read`, `RecvFrame` or
  `RecvError`, one `Do...` action per kind of frame, and `OnClose`, `Last`.
* `send_all` is `SendLock`, `Send`; the broadcast is `CastLock`, `CastCheck`, `CastSend`,
  `CastUnlock`.
* `client_sock` is read again by each call that uses it, as in the code; `rd` is the
  descriptor a thread is blocked in `recv` on.

Abstractions: a descriptor is named by the connection it was made for and is not
used again, so a stale `close` shows as a second one; a send that times out counts as failed,
though its peer may have got a part of the frame; `CLIENT_VALID` and the section
under `mtx_state` that follows it are one step; a frame is one of eight kinds;
setting a slot up is one step after its claim; locking a destroyed pthread mutex is
undefined, and the outcome modelled is that it succeeds; the wrap of
`conn_seq` is left out; a restart (`rebooting`) is the end of the behaviour, though
the other threads may still take steps. Ghost variables: `auth` (whose own login
was accepted), `got` (what each client was sent), `due` (whom the running broadcast
found open), `broke` (the slot whose send ended it).

A send fails to a client that left (`gone`, `lost`), to one that is there but does not read, after
`SO_SNDTIMEO` (fault `stall`), and before anything is sent when `ws_sendframe` finds no memory
for the frame (`NoMemory`, fault `nomem`: a broadcast then reaches nobody and takes no
mutex). `DoLogin` accepts the password, or refuses it (wrong, or of an impossible length).

Two specifications: `Spec`, and `CalmSpec`, in which a client asks for a WebSocket
only while a slot is free. Without that restriction the code does let two threads
share a slot (`WsStaleClose`), so everything about ownership is stated for the
calm device, and what holds under eviction is stated apart: the client that is evicted has
a lower number than any other in the table (`EvictsOldest`), and broadcasts still exclude
each other.

### 2.2 Config

`cfg` and `pwd` are the two entries of the flash, `ram` the structure. A value is the
number of the write that made it. Handlers run in several threads: `UpdateField`
(hostname, switch names, switch values) or `UpdatePassword`, then `SaveField`,
`AnswerTrue`, `CopyConfig`, `Broadcast`. Boot is `Load`, `DefaultPwd`, `DefaultCfg`,
`Setup` (the save of `actuator_setup`). `Clear`, `EraseEntry`, `Erased` or `EraseFails`, `ResetWifi` and
`Restart` are `cmd_reset`: `nvs_erase_all` takes one entry after the other, in any order, under
the lock of NVS (`Erasing`), and may fail part-way. `PowerLoss` may come anywhere, between two
entries too. Any call of NVS may fail: an open, the read of the configuration at boot (or an entry
of another length), a save, an erase. The ghost `half` remembers an erase that was cut short when it
had taken the password.

Abstractions: NVS writes an entry, and erases one, whole or not at all; a `memcpy` into or out of the
structure is one step (the real one can be preempted); the correction of
`sensor_delay` in `config_load`, which saves what it loaded, is not distinguished; the
names of sensors behave as those of switches; a client that is connected gets every
broadcast (who does is the matter of `WebSocket`).

`Spec` has every interleaving; in `QuietSpec` nothing is changed while a reset or
restart is under way.

### 2.3 Actuator

One action per call of `gpio_set_level`, so two threads interleave inside a byte. The
register is external and modelled by its datasheet: it shifts on the rising edge of
the clock, and shows on the rising edge of the latch. Pins, register and outputs hold
anything when the power comes. `Spec` lets all callers update at once; `SerialSpec`
one at a time.

### 2.4 Wifi

`bits` is `APP_STATE`, `retry` is `retry_cntr`. `handle_wifi_event` runs in the event task, one
event after the other: `Take`, one `On...` action per event, and an action for each
further group of calls another thread may come between (`StartConnecting`,
`SetConnected`, `Wake` after the ten seconds, `Retry`, `Connect`). The actions of
`wifi_action.c` run in any number of callers, the connection threads and the terminal:
each read of the bits or of the mode, each write of the mode, each wait is a step, so
`set_wifi_mode` of one caller comes between the read and the write of another's.
`WaitDone` takes the bit it waited for, as `xClearOnExit` says; `WaitTimeout` may come whenever
the bit is not there.

The driver is external. `Reconfigure` is a change of its interfaces and posts their
events, a station that leaves its network first among them; `LinkUp` and `LinkDown` are the
network's. It keeps its mode, auto-connect flag and configuration in the flash, which
is all that outlives `Restart`: the limit of retries, an `ESP_ERROR_CHECK` that fails
(`SetConfig` when the station went off), or a loss of power.

`Boot` is `app_wifi_start`: `WifiStart`, or `WifiStartFails` when the mode cannot be read or
the driver does not start; the event handlers are then taken back and no handler of a
client is registered, so `up = "failed"` ends the life of the WiFi until the next restart. In the actions
`GetModeFails`, `StartFails` and `NoApConfig` are the other failed calls of the driver.

Abstractions: a configuration is there or not; reasons other than ASSOC_LEAVE and
NO_AP_FOUND are one; the second of delay between disconnect and connect, and the
three seconds of a wait, are no more than "later"; the scan keeps no state; IP events
only touch `retry_cntr` and a bit nobody reads; the registration of handlers succeeds.

### 2.5 Frames

`pc` is where the reader of one connection is, `first`, `size` and `held` the message in
hand (`frame_type`, `frame_size`, `msg_data`), `ctrl` the one buffer that PING, PONG and
CLOSE share. `ReadHeader` takes any frame a client may put on the wire and rejects what the
code rejects; `ReadData`, `ReadPing`, `ReadPong`, `ReadClose` are the cases of `read_frame`
and of the switch after it, `SendPong` is `do_pong`, `TakePong` the section under
`mtx_ping`, `Deliver`, `TakeClose` and `SendClose` what `ws_establishconnection` does with the
result. `Sum` is the size of the message as the code adds it, in 64 bits (`Word` is 2^64, and the instance
takes a small one): when the sum wraps it passes the limit, the memory is made smaller than what is
copied into it, and `Overrun` is where the model of the reader ends. Each receive, allocation and send may fail. `OthersSetClosing`, `OthersClose` and `OthersPing` are
the steps of other threads on the same structure, at any place between.

`stream` is the history of the frames whose header was read, and a payload is named
by the position of its frame, so a payload in the wrong place shows as a wrong
position. Bytes already received into `wfd->frm` are still read after the descriptor
was closed, as in the code. A failed receive of a header returns without the cleaning
the other exits do (`web-socket.c:1160`): the place `left`, which `BuffersReturned`
names as its exception. Abstractions: lengths, codes and ids are the few that differ to
the code; the masking and the bytes of payloads are left out; the UTF-8 check is not
compiled in (`VALIDATE_UTF8`); `web_socket_close_all_clients` writes its CLOSE outside of this
reader.

### 2.6 ClientApi

An action is one task of the browser's event loop. `Request` is `request()` and the `send` in
it, called by the login form (`UserLogin`), by `autoLogin` from the menu (`ClickLogin`) and when the
configuration comes, and by forms that need the login. `Login.vue` reads its checkbox and its
password again when the reply resolves, so what it remembers (`Remember`) is any of its values then,
whatever was sent. The form stays open when the page logs in behind it, and may be submitted then; the
properties of the login are stated for pages where nobody does (`NoStaleForm`). `HandleReply` and `HandleConfig` are the two ways through
`onGotBinaryMessage`, `Timeout`, `Connect` and `OnClose` the timers and callbacks. A reply carries no
number: it wakes every waiter of its code (`Woken`). A message is received as a Blob whose
bytes come later, when its connection may be gone (`blobs`); the promises of `arrayBuffer()` are taken
to resolve in the order they were made.

The device is one connection thread that answers in order. `Accepts` says what
`on_ws_login` does: once the connection is logged in it answers true to any password.
Ghosts: which call each reply answers (`by`, `answered`), whether a call was alone when it
was made, whether something was handled after its connection was lost (`stale`). Left
out: `disconnect()`, which no view calls; the layout of messages; the replies with a
body, of which the scan's is taken for an error when its first byte is 6 (`api.ts:182`).

### 2.7 Switches

A byte is the set of the switches that are on. `Click` computes the byte from `view`, what
the client was last told, as `on_button_clicked` and `updateActuator` do. `Connect`, `CopyConfig` and
`SendConfig` are the opening of a connection: the copy of the configuration and its sending
are two steps, and broadcasts reach the client from before the first. `Apply`, `Command` and
`Rename` are the threads of the device up to their broadcast, `Cast` the broadcast. The clients in
`Known` (the web page) cannot be clicked before they were told a value; the GTK client can. The switches
the page shows as disabled (`Dashboard.vue:18-24`) are left out. `Cast` reaches any part of those
connected: it stops at the first client that cannot be sent to, and slots are in any order. The first
configuration of a client may fail to reach it in the same way.

Ghosts: `ver` numbers the updates, `seen` the one a client shows; `overlap` and `late` remember
two things under which a client ends up with an old value, `missed` the third: whom the last message
meant for it did not reach. `Actuator`, `Config` and
`WebSocket` have the details: here a store is one step and so is a broadcast, which is
sound because it holds the global mutex from the first client to the last.

## 3. Runs

Every passing run finishes its whole state space. Deadlock is not checked: clients
may be silent for ever and all counters are bounded, so the systems may stop.

| Run | Instance | Shows |
|---|---|---|
| `WsCalm` | `CalmSpec`, 2 connections, 2 slots, 2 frames of every kind, failing accepts, handshakes and threads, no memory for frames, clients that do not read | ownership of slots, descriptors and logins; broadcasts; `ConnTable` is implemented |
| `WsLive` | `FairSpec`, 2 connections, 1 slot, 1 frame, no memory for frames, clients that do not read | `ws_accept` returns; slots come back |
| `WsEvict` | `Spec`, 4 connections, 2 slots, `LONG_MAX` reached after one connection, 1 CLOSE frame, all faults | the oldest is evicted, others are refused |
| `ActSerial` | `SerialSpec`, 3 bits, 2 callers | relays follow the value |
| `CfgQuiet` | `QuietSpec`, 2 threads, 4 writes, 2 boots, erases that fail or are cut short | durability, login, reset |
| `CfgFaults` | `Spec`, 3 writes, 2 boots, every NVS call may fail | flash follows memory |
| `FrmStream` | 4 frames of any kind, data of 0, 4 or 14 bytes in words of 16, control frames of 1, 2, 4 or 126, limit of a message 7, codes 999, 1000 and 1005, ids -1 to 1, 1 ping of the server, all faults | messages are whole, in order and within the limit; PINGs are answered; one CLOSE; memory comes back |
| `ApiCalls` | `FairSpec`, 2 calls, 1 lost connection, 1 broadcast, the right password remembered or none | replies find their request; login; every request ends; the page reconnects |
| `SwViews` | a GTK client, a web client and the terminal, 2 switches, 2 changes, 1 lost connection | clients show the device's value; a click is one switch |
| `WifiEvents` | `FairSpec`, 1 caller, every action, 2 actions between two boots, 1 retry, failing reads of mode and configuration, failing starts | `STATE_STA_CONNECTED` follows the link, `STATE_AP_STARTED` is never left behind; a connect is tried; a lost link is tried again |

Bounds. Two connections over two slots reuse a slot whose first user left and are
neighbours in a broadcast; two frames let a session log in and act, or cross a CLOSE.
One slot is enough for an eviction that races its victim. Four connections fill two
slots, evict one and refuse another; in `WsEvict` clients end only by a CLOSE frame,
which keeps the instance small, and in `WsLive` they leave or vanish at any time. Two
threads are enough for every pair of handlers; four writes let each thread change
two things; two boots let a device be configured, lose power, and be reset. Three bits
distinguish first, middle and last. Two actions let one undo the other while links
come and go; one retry separates a retry from the restart at the limit. Four frames are a
message of two fragments with a control frame between and one frame after it; 4 + 4 bytes pass
the limit of 7, 4 alone do not, 14 passes it alone and with 4 wraps at 16 to less than it; 126 is too long for a control frame, 4 is the size of a pong's id,
and the codes are one below, one in and one in the gap of the valid ranges. Two calls are
enough for a reply that wakes the wrong one; a lost connection lets a message outlive it.
Two changes undo each other. The theorems have none of these bounds.

The type invariants of `Actuator` and `Switches` are theorems and not repeated in runs.

Two further runs show that the code does not do what one of its own comments
or views says; each is a finding in PROJECT.json:

| Run | The code |
|---|---|
| `WsStaleClose` | the thread of an evicted client closes the client that got its slot |
| `WifiRace` | two clients configure the station at once: one takes the bit the other left, answers APP_OK, and nobody connects |

Other properties hold only of some interleavings, and say so in their specification or
statement. Two updates at once shift into the same register, so `RelaysFollow` is stated for
`SerialSpec`; of `Actuator`'s `Spec` it does not hold. A save between the erase and the restart
undoes a reset, so `ResetClears` is stated for `QuietSpec`. Two broadcasts may overtake each
other, so the configuration clients were last told is not always the one in force
(`ClientsFollow` of `Config` holds of one handler at a time and no run checks it), and
`ViewTrue` excepts the state after changes that overlapped, a broadcast that overtook the first
configuration, and a client that the last message did not reach. A click on a view that is behind the device undoes the
change it had not been told of (`ClickIsOne`). A reply wakes every waiter of its code
(`OwnReply`), and a wrong password may be remembered when the field is changed before the reply comes,
or after an earlier login was given up (`RememberedRight`). An erase that is cut short, by a failure or by loss of
power, may leave the configuration without the password, with which nobody can log in over the web
(`LoginPossible`). A continuation frame whose length is near 2^64 passes the limit of a
message (`MessagesWhole`).

Two more facts of the pool are in the model and in the statements of its
properties: a broadcast stops at the first client that cannot be sent to, be it gone or only slow
(`MissedOnlyAfterFailure`), and those of higher slots keep what they show until the next one; and a failed `pthread_mutex_init` leaves the socket open
(`NoLeak` assumes that it does not fail).

## 4. Fairness

`Fairness` is weak fairness of each thread: `WF(HttpStep)` and `WF(ConnStep(c))`. The
tasks share one priority and are scheduled round robin, and every send ends
because `SO_SNDTIMEO` is set. A blocked `recv` or lock is a disabled step. Nothing is
assumed of clients: one may stay silent, and then its thread or the http thread
waits for ever, as in the code. Weak fairness does not give a thread a mutex that
others keep taking; the liveness runs hold because clients send finitely much.

`FairSpec` of `Wifi` is weak fairness of the event task and of `app_main`: every call of the
handler returns, its delay ends, and the task has the highest priority of the
threads modelled. Nothing is assumed of the network or of the callers.

`FairSpec` of `ClientApi` is weak fairness of every task and timer of the browser's event
loop, and of a device that, while the connection is there, accepts it, handles its messages and
answers. Nothing is assumed of the user, of other clients or of when a connection is lost,
which in the instance happens finitely often.

## 5. Proofs

TLAPS proves, for every value of the constants that satisfies the assumptions of
the module:

* `WebSocketProofs`: `Ownership`, the inductive invariant `IInv` of `CalmSpec`, and from
  it `TypeOK`, `OneThreadPerSlot`, `OwnSocket`, `LoginOwned`, `HandshakeFirst`, `CastTarget`,
  `NoLeak` (assuming the mutexes of a slot can be created), and that the pool
  implements `ConnTable`. None of these is inductive alone: whether two threads share a
  slot depends on what the http thread found and on what has been cleared, so `IInv`
  says for each program counter what its thread owns, which slots are claimed, who
  holds which mutex and what the broadcast may rely on while it holds it.
  `MissedOnlyAfterFailure` needs more (`CastInv`): a client the broadcast found open keeps its
  slot while the mutex is held, those below the index were sent to or are closed, and
  a broadcast that ended before the last slot did so at the slot whose send failed (`broke`),
  whatever made it fail.
* `WebSocketProofs` again, for `Spec`, evictions and stale threads included: of `IInv` hardly
  anything is left, since two threads may work on one slot. `Evictions` is what remains
  inductive: where every thread may be, that a connection whose request is being answered is in
  no slot and in no `recv` yet, and that the numbers of the slots are distinct and none is
  newer than `conn_seq`. From it `EvictsOldest`, `TypeOK` and that at most one thread is inside
  the loop of a broadcast.
* `ActuatorProofs`: the invariant of `SerialSpec` says what part of the argument is in
  the register after each call, by the index of the loop; at the latch it is all of
  it. From it `RelaysFollow`, `ClientsFollow`, `OnlyWhole` and `TypeOK`.
* `ConfigProofs`: an invariant of `Spec` (a memory ahead of the flash has a thread about
  to save it, or a failed save) gives `TypeOK` and `FlashFollows` with any faults; a
  second, of `QuietSpec` without failing opens, reads and saves, gives `AckedDurable`,
  `LoginPossible` and `ResetClears`; erases may fail in it, and be cut short anywhere.
* `WifiProofs`: what the bits say lags behind the driver by the events in the queue, so
  the invariant speaks of the queue: its last event about the link tells the state of
  the link, and when it holds none the bit does, or the event in hand; the same for
  the AP. From it `ConnectedFollows`, `StartedIsSound` and `TypeOK`, for any number of
  callers and overlapping actions. `ConnectTried` is proved for actions that do not overlap
  (`OneAtATime`: any number of callers, each waits for the others' answers). Its invariant
  `SerialInv` says that STATE_STA_CONNECTING on an idle link is that of an attempt still to be made, of
  one whose end is in the queue, or of one that the start of the station, still to be handled, begins; that an event from before the station was last turned on or
  off has one from after it behind it in the queue; and what the caller knows of the driver at each
  call, its auto-connect flag included. All the failures of the module are allowed.
  The hypothesis is needed: of two connects that overlap one takes the other's bit
  (`WifiRace`), and a connect whose station another caller turns off meanwhile leaves a bit
  that the next one takes for its own.
* `FramesProofs`: `Reading`, the invariant `IInv`, ties the reader's place to the stream: what is
  in hand is the data frames since the message began (their sizes add up to `size`, all but
  the first continue it, none is final), that sum is within the limit and did not wrap, and what was
  written answers what was read, up to the last frame. A sum that wraps leaves the reader at `overrun`, which only a
  continuation frame within the limit of 2^64 leads to. `MessagesWhole`, `NothingSkipped`, `PingsAnswered`, `CloseIsLast` and
  `BuffersReturned` follow, for streams of any length, any lengths and codes. They are not
  inductive: a `cont` frame is right only because of what `first` says of the frames before.
* `ClientApiProofs`: `Correspondence`, the invariant that messages on the wire, in the device's
  answers and among the blobs are in the order of the calls they belong to, each at most
  once, so that a call that was alone on its connection has no other reply of its code before
  its own. From it `OwnReply`, `OneConnection` and `TypeOK`, for any number of calls,
  losses and broadcasts.
* `LoginProofs`: the page and the device each keep a flag of the login and only messages in order
  tie them together. `LoginAgrees`, the invariant `LInv`, says who logged the device in: the page that
  still shows it, a logout on its way, or a login call whose reply is on its way, was given
  up, or went to another (`Author`); a login still to be handled finds the same (`Asked`), and a
  reply that accepts a wrong password is behind that of the login it owes it to (`Accepted`).
  From it `LoginView` and `RememberedRight`. The invariant holds while no form that was left open asks for a
  second login (`NoStaleForm`): from then on an accepted login has no one author.
* `SwitchesProofs`: every message, copy and view is the value the device had at the update it
  names (`ToldIsTrue`), and while changes do not overlap every client has the newest one, has it on the
  way, or is excepted (`Serial`). From these `ViewTrue` and
  `ClickIsOne`, for any number of clients, switches, changes, lost connections and broadcasts that
  stop anywhere.

The invariants were model-checked before they were proved, those of `Wifi` with two
callers and two actions between boots (`SerialInv` with three), that of the login with three calls.

Every safety property a passing run checks is stated by a theorem. Model-checked only:
liveness (`SlotReturned`, `AcceptReturns`, `Settles`, `Reconnects` of `Wifi` and of `ClientApi`),
since the prover reaches neither fairness nor ENABLED.

## 6. What is not modelled

* The handshake's SHA-1 and base64 and the layout of messages (`utils.ts`, `struct.ts`): pure
  computations without state. The parsing of an HTTP request and the choice of the file:
  one request, no state.
* The Vue views, the build, distribution and assets.
* The terminal: its commands call operations that are modelled, as one more caller. `ping`
  may resume the terminal before the terminal suspends itself (`cmd-ping.c:180`): the
  session is a library's, and a model of it would be a model of that library.
* The sensor task, which is not in the build.
* `ws_ping`, `ws_close_client` and the close-timeout thread, exported by the pool and
  called by nothing in the firmware; what they do to a reader is in `Frames`.
* What the program does after a read that overran its memory (`web-socket.c:1067`): undefined.
* The rest of a frame whose sending timed out: the client may have got a part of it, and what it
  then makes of the next one is its own matter.
* Actions of the terminal on a driver whose `app_wifi_start` failed, and failures of
  `esp_wifi_set_mode`, `esp_wifi_set_auto_connect` and `esp_wifi_connect`, which the code only logs.
* No property covers two facts `Wifi` does model: of two overlapping changes of the mode one may be
  lost, and `xClearOnExit` takes `STATE_AP_STARTED` from an AP that runs (`StartedIsSound` is one
  direction).
* The static arrays of the error replies, written by all connection threads
  (`web-socket-handler.c:104`, `:120`): bytes of one message, below the grain of the models.
* The use of libwebsockets from two threads of the GTK client (`websocket_client.c:229`):
  what happens is up to that library.
* A client that connects and sends nothing blocks the http thread for ever, because the
  receive timeout is commented out (`web-server.c:202`): a fact of the code that needs no
  model. So is a host name of exactly the largest size (`config.c:261`), which is stored
  without its end.

## 7. Plan

Done, in this order because each later part relies on the earlier: `WebSocket`,
`ConnTable`, `Actuator`, `Config`, `Wifi`, `Frames`, `ClientApi`, `Switches`. What could follow:

1. `HttpRequest`: the choice of answer for a request, as an operator against a reference
   definition.
2. The exported part of the pool (`ws_ping`, `ws_close_client`, `close_timeout`), once the
   firmware calls it: lock order, and a CLOSE that is never answered.
3. Proofs: that a broadcast and a switch of `Switches` are what `WebSocket` and `Config` allow, as
   refinements; how far `ConnectTried` holds when only some actions overlap.
