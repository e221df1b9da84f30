# A verification model of the aMaker K10 Bot firmware

TLA+ modules, TLC runs and TLAPS proofs about the firmware of this repository: an ESP32-S3
controller that drives motors, servos and LEDs of an expansion board (DFR1216) on behalf of
clients that send binary commands over UDP, WebSocket and HTTP, with a display, loggers, a
camera and a file store. Paths below are relative to the repository.

## 1. The system

### Tasks

| Task | Runs | Where |
|---|---|---|
| AsyncUDP callback | every UDP command (port 24642) | `src/BotCommunication/BotServerUDP.cpp` |
| AsyncTCP callback | every WebSocket (81) and HTTP (80) command | `BotServerWebSocket.cpp`, `BotServerWeb.cpp` |
| Web/display task, core 1 | starts HTTP, then `ui_service.tick()` every 500 ms for ever | `src/main.cpp:195` |
| Transport task, core 0 | starts UDP and WebSocket, then sleeps for ever | `src/main.cpp:172` |
| `setup()` | starts the services one after the other, once | `src/main.cpp:224` |

A command is handled synchronously in the task that received it: `dispatch()` looks at the
service id in the high half of the first byte and calls the handler of that service. So two
handlers of one service may run at once, one in each callback task, and one in the display
task for the button. `main.cpp:168` says that only one transport is active at a time; nothing
enforces it, `help/communication.md` describes concurrent use, and both servers are started.
The models let both tasks run.

### Components

| Component | State | Operations | Interacts with | Correct when |
|---|---|---|---|---|
| Master registry (`AmakerBotService`) | `master_ip_` under a mutex, the token | REGISTER, UNREGISTER, `isMaster` | transports give the sender address; SET_NAME, REBOOT and the WiFi commands ask it | each operation takes effect once; only who knows the token is master; no hand-over but through empty |
| Heartbeat watchdog | three volatile words shared without a lock | HEARTBEAT, `checkHeartbeatTimeout()` | registry, stop callback | the outputs of a master that falls silent stop, another's do not |
| Bot commands | `bot_name_` under its own mutex | PING, GET_NAME, SET_NAME, REBOOT | registry | a privileged command acts for a master |
| Motors (`MotorServoService`, `DFR1216Board`) | a speed cache; two duty registers per motor on the board | SET_MOTORS_SPEED, STOP_ALL_MOTORS, GET | I2C bus with lossy writes | the legs of a bridge are never on together; the cache says what the motor does |
| Servos | types, one cache for angles and speeds | SET_TYPE, SET_ANGLE, INCREMENT, SET_SPEED, GET | board | no angle beyond the type's range, no command for the wrong type |
| LEDs (`LEDService`, `DFR1216Board`) | a cache in each service, the K10 strip with one brightness, the board's strip | SET_COLOR, TURN_OFF, TURN_OFF_ALL; SET_LED_COLOR, TURN_OFF_LED, TURN_OFF_ALL_LEDS; queries | I2C bus, both services at once | after a command the LEDs are what its service answers |
| I2C bus (`DFR1216_I2C`) | a recursive mutex, the Wire buffers, the board's register pointer | `writeReg`, `readReg`, a call per peripheral with its retries | every task that touches the board | a transfer is not cut by another; a measurement is new; each call ends |
| Screens (`AmakerBotUIService`, `LogScreen`, `AppScreen`) | current and previous screen, splash time, button, cached versions | NEXT/PREV/SET_SCREEN, button, `tick()` | loggers; handlers write the screen while the display task draws | the display shows the current screen; entries get drawn; the splash stays its time |
| Rolling loggers (`RollingLogger`, `ESPLogToRolling`) | rows, version, level, capacity | `log`, the ESP-IDF hook, copies | every task | the newest rows in order, a new version per entry |
| WiFi (`WiFiService`) | five strings, the same five in NVS, the connection | GET/SET/RESET_WIFI, connect, fall back to an access point | restart, registry | a restart finds the set a client was answered for |
| Script store | files, a body per request | list, get, save in chunks, delete | HTTP | what was answered as saved is served whole |
| Camera | two frame buffers, a queue, pictures on the heap, one streaming flag | snapshot, stream, disconnect | driver task, HTTP | every buffer a request takes goes back, every picture is freed, the flag falls with the last stream |
| Boot (`main.cpp`, `IsServiceInterface`) | a status per service, two tasks | `start_service` for six services, servers opened | every service | whatever fails, the boot ends and handlers meet decided services |
| Dispatcher and transports | handler list, counters | `dispatch`, replies, drops | all | a call is counted once per dispatch unless two tasks count at once |
| Dashboard (`AppScreen`) | the text of each cell | panels, battery bar | counters, board | a counter reads as what was counted |
| Web client (`data/www/BotScript.js`) | socket, pending reply, timers, master flag | connect, register, send, reconnect | the bot | not modelled |

### What is hard here

Two tasks in handlers of the same service with one mutex per access rather than per command;
volatile words shared by three tasks; a device state split over two registers and a cache, with
writes that may be lost; two caches of the same LEDs; a register pointer and driver buffers that
every task shares; a measurement that another task restarts; a display task that reads the same
variable several times while another core writes it; a version read after the data it versions; five
settings stored one by one with power cuts between; a script that comes in chunks and is written
over the old one; frame buffers that a dozen paths must return; a controller that restarts while the
board stays powered; a watchdog that nobody calls; commands without a sender. The list with the
lines where each bites is `hazards` in `PROJECT.json`.

## 2. Modules

| Module | Models | Kind |
|---|---|---|
| `MasterRegistry` | what REGISTER and UNREGISTER promise | abstract specification |
| `AmakerBot` | `AmakerBotService`: registry, watchdog, name, ping, reboot | component; implements `MasterRegistry` |
| `MotorDrive` | motors of `MotorServoService` down to the board's duty registers | component |
| `ServoDrive` | servos of `MotorServoService`: types, cache, pulse registers | component |
| `BoardRegisters` | what `writeReg()` and `readReg()` promise their callers | abstract specification |
| `I2CBus` | `DFR1216_I2C` and the retry loops of the hardware calls | component; implements `BoardRegisters` |
| `LEDs` | `LEDService` and the LED commands of `DFR1216Board` | component |
| `RollingLogger` | what `log()` makes of the rows, the level of an ESP-IDF line | operators |
| `AmakerBotUI` | screens, `tick()`, log screens, over loggers | component; uses `RollingLogger` |
| `WiFiService` | settings in memory and NVS, connection | component, without a `Next` of its own |
| `ServiceLifecycle` | the lifecycle documented in `IsServiceInterface.h:47-55`, and that it is over before handlers run | abstract specification |
| `Firmware` | boot, the two tasks, WiFi commands, power cuts | composition over `WiFiService`; implements `ServiceLifecycle` |
| `ScriptStore` | the `/scripts` routes: bodies, files | component |
| `Camera` | `/cam/snapshot`, `/cam/stream`, the driver's buffers | component |
| `Transports` | the three servers, the counters, `dispatch()` | component |
| `AppScreen` | the text of a counter | operators |
| `Dashboard` | the counters panel against the servers that count | composition of `Transports` and `AppScreen` |
| `MC...` | instances for TLC, one per component with runs | model checking |
| `AmakerBotProofs`, `MotorDriveProofs`, `ServoDriveProofs`, `I2CBusProofs`, `LEDsProofs`, `FirmwareProofs` | theorems about the module they name | proofs |
| `BotServerWebProofs` | theorems about `Camera` and `ScriptStore`, both in `BotServerWeb.cpp` | proofs |
| `DisplayProofs` | theorems about `AmakerBotUI`, `RollingLogger`, `Transports` and `Dashboard`: what the display shows | proofs |

A step is what a task does between two points where another task may run: a critical section,
or an access to a variable no lock guards. `pc[t]` says where task `t` is in its handler.
Variables called history in their comments are not in the code; they say what a property may
rely on and no step of the code reads them. Operators that a comment calls a mutant are
plausible wrong versions of the definition after them; nothing uses them. The definitions of
`ScriptStore` and `Dashboard` have names of their own (`ScriptsTypeOK`, `dashboardVars` and the
like), because a proof module extends each together with another component.

### AmakerBot

`req[t]` is the command a task handles. REGISTER is `RegisterCheck` (token and `isMaster()`),
`RegisterTake` (`registerMaster()`), `RegisterActive`, `RegisterReset` and `Reply`; a heartbeat has
a step per access: `millis()` (`HeartbeatRead`), its store (`HeartbeatStore`), the two flags. The
watchdog has a step per operand of `millis() - getMasterLastSeen()`, subtracted modulo
`ClockModulus` as the code does modulo 2^32, and tests the latch (`WatchdogDecide`) and writes it
(`WatchdogLatch`, `WatchdogUnlatch`) in steps of their own. `SenderIP` is what the transport hands
to `dispatch()`: the peer over UDP and WebSocket, the empty string over HTTP. Abstracted: the token
(a payload is short, bad or good), names, reply bytes. `outputs` stands for the motor and servo
outputs (`MotorDrive` has the detail): driven or stopped. History variables: `tokenShown`, the
addresses that presented the token; `heardAt`, when the last heartbeat arrived; `met`, whether a
heartbeat was handled while the present check was under way; `stale`, whether the last store of
`last_seen_ms_` went back in time; `rechecked`, whether a whole check has run since the last
heartbeat was handled.

`WatchdogWired` says whether a task calls `checkHeartbeatTimeout()` periodically with a callback
set, as `AmakerBotService.h:146-159` requires. FALSE is the firmware as built (`main.cpp` does
neither); TRUE is the contract the service is written for. Only the run `watchdog` uses TRUE:
what it shows is about the service's code, not about the firmware, where the run `drop` shows
that nothing stops.

`MasterRegistry` is the promise: each task's operation has one atomic effect between its
arrival and its reply, and the reply tells which. `AmakerBot` maps `master` to `master_ip` and
`call[t]` to the operation task `t` handles with its answer so far. A registration may be
refused whenever some master is set, even when it is the sender (see Divergences).

### MotorDrive

Handlers of several tasks walk the motor mask upwards and take three steps per motor: the
first register write (`ApplyFirst`, always a zero), the second (`ApplySecond`) and the cache
(`ApplyCache`). Each write takes the bus mutex alone; it either takes effect or, when `Lossy`,
fails on every attempt, which `setMotorDuty()` hides. `Restart` is a reset of the controller
at any moment: caches and handlers are lost, the board keeps its registers or comes up zero.
The service is modelled after a successful start (before it, SET_MOTORS_SPEED only answers
resp_not_started). Two history variables: `clean[t]` (the pass of `t` over its motor was
undisturbed and its writes took effect) and `trust[m]` (`"exact"`: the last pass was clean;
`"safe"`: a clean pass was cut short after the first write; `"none"`).

### ServoDrive

A command first checks the type of every channel of its mask (`CheckType`, one step per
channel), then moves them one by one (`Begin`, `Clamp`, `WriteRegister`, `WriteCache`):
`Begin` reads the cached angle an increment starts from, `Clamp` reads the type again,
`applyServoAngle()` writes the pulse and then the cache. The one cache `servo_angles` holds
speeds for continuous channels, as in the code. `SetServoTypes` writes the types one channel at
a time and moves nothing. The pulse of an angle is on the 270 degree scale whatever the type,
as `setServoAngle()` computes it; integer division stands for the float product, rounded
down. Two history variables: `fresh[t]`, the channels whose type task `t` tested and that
neither a change of type nor another task's pass disturbed since, and `sure`, the channels
whose last pass was fresh to its end.

### I2CBus

`MotorDrive`, `ServoDrive` and `LEDs` take a write to the board as one step that works or not;
this module is why they may. It has the recursive mutex with its depth, the Wire driver's
transmit and receive buffers, the board's register pointer and, per register, what its status
byte says. A transfer is `Take`, for a read `Retake`, `BeginTransmission`, `Fill`,
`EndTransmission` (acknowledged or not), `Regive`, `RequestFrom` (whole or short), `Drain`,
`Give`. The call around it is a record: register, whether it writes and reads, the statuses it
takes as an answer and those it gives up at; `AfterWrite` and `AfterRead` are its loops with
`RETRY_COUNT`. `Measured` is the board. Bytes are abstracted to the register they belong to and
whether their measurement began after the call (`fresh`, a history variable).

`BoardRegisters` is what a caller may think of all this: a write or a read of a register takes
effect at one instant between its call and its return or not at all, and the result says which.
It has no bus, buffers, pointer or mutex, and it is what `MotorDrive`, `ServoDrive` and `LEDs`
assume of a write. `TransferOf(t)` maps the place of a task in a transfer to *asked*, *answered* or
none: a write takes effect when the board acknowledges its frame (`EndTransmission`), a read when
the board fills the driver's buffer (`RequestFrom`), a failure where the code gives up.
`StepsLeft(t)` is the number of steps the call of `t` can still take, from its place in the
transfer, its phase and the attempts its loop has counted.

### LEDs

A command of the LED service fills its cache, colour and brightness one after the other
(`CacheColor`, `CacheLevel`), then flushes K10 pixels (`FlushBrightness`, of the whole strip, and
`FlushPixel`) and the board's two LEDs in one frame (`BuildFrame`, `SendFrame`). A command of the
board composes a frame from the other cache (`Compose`), sends it, then records it (`Record`).
TURN_OFF is SET_COLOR with black. A lost frame is answered ok all the same. `K10` and `DFR` are
sets of LEDs; `alone` and `sent` are history variables. `Init` takes the board service as
started or not, and it stays so.

### AmakerBotUI and RollingLogger

The display task's `tick()` is split at every read of `current_screen_`; commands of other tasks
write the screen, read it again (`StampSplash`), read `millis()` (`StampMillis`) and store it as the
splash time (`StampStore`), each a step of its own. `Init` is the start of the display task, at any
time: the first splash is never stamped, its `splash_start_ms_` is the 0 of the header. `tft` is
whose content the display shows. A log screen copies its logger's rows under the lock
(`UpdateScreen`) and reads the version again at the end (`CacheVersion`). `Black` is also
`previous_screen_`'s 0xFF. The splash test has a step per read: the screen (`SplashTest`),
`millis()` (`ReadMillis`), the splash time (`SplashTimeout`), which a handler may set in between.
History variables: `raced`, the screen changed during the draw; `shownSince`, when the splash was
put up; `navigated`, it was put up by a command or the button and not by the boot; `stale`, the last
stamp is older than the splash it was stored for; `hurried`, a handler was writing the screen or the
splash time while `tick()` decided. Each log screen has a logger with its level: `Log` drops what is
too detailed, appends the rest, evicts the oldest row when the logger is full and moves the version;
`esp_log_vprintf_handler` is the same for a line of ESP-IDF. A row is the version it made.

### WiFiService and Firmware

`Firmware` is `setup()`: six services in the order of `Order`, each through initialize and start
with the ways it may fail, then the two tasks, then commands. The board's `begin()` polls up to
`BoardRetries` times; the WiFi service loads its settings, tries to join, and falls back to an
access point. SET_WIFI assigns two strings, each in two steps (`AssignBegin`, `AssignEnd`): two
tasks that assign the same string leave it `Torn`, as `std::string` under a data race may be.
`saveSettings()` stores five keys, one per step, each as the C string ends it; RESET_WIFI removes
the keys, as far as `clear()` comes, and then assigns the defaults. NVS may fail at each of these
when `Lossy`; nobody is told. `PowerCut` may come between any two steps, during setup too. `owed` is
the pair the last answered command set, if it met no other handler and no fault, else `Unknown`.
`ServiceLifecycle` is mapped to `status` and to whether a server listens. `SetupLeft` bounds the
steps that `setup()` has ahead: five for each service that has not had its turn, the polls of the
board, the attempts to connect.

### ScriptStore

One task handles every request, so a save (`OpenFile`, `WriteContent`, `Close`) is cut only by a
power failure, while the chunks of several posts interleave. `Accumulate` appends a chunk or, when
the cap would be exceeded or there is no memory, skips it silently. `WriteContent` prints a prefix
of what the C string ends at. After a power cut a file that was open is as before, empty, or has
what was printed; that choice is LittleFS's and external. `posted` and `owed` are history
variables: what a client that sees the answers may expect. `length` is the number of bytes in a file or a
body beside them, `step` the step of a save.

### Camera

The driver's task (`Capture`, `Enqueue`) and the HTTP task. The latter serves one callback at a
time: a snapshot, or the chunked response of one of the streams, which goes through the same
steps `Drain`, `Wait`, `Convert`, `ReturnFrame`, then sends: a snapshot at once, a stream in as many
callbacks as there is room for. Every error path that gives a frame up is `GiveUpFrame`.
`Disconnect` may come between any two callbacks. A picture is counted on `heap` when allocated
and freed; what it shows is left out. The driver is external and taken to fill any buffer it has.

### Transports, AppScreen, Dashboard

UDP has a task, WebSocket and HTTP share one; each may drop or receive a message, dispatches it,
and answers or not. Every fragment of a WebSocket message but the last is dropped by itself
(`BotServerWebSocket.cpp:125-131`), so `MaxArrivals` bounds what is counted and not messages.
`++dispatch_count_[...]` is a read and a write. What the services do with a message is in the other
modules. `AppScreen` has the texts of the counters as `formatThousands()` and the nine-character cell
make them. The loop that fills the buffer from the right is given in closed form: `Place(i)` is
where the ith digit lands. The reference, `Reads` in `Dashboard`, says nothing of how: it is what
someone who reads the nine characters takes for a number. In `Dashboard` the display task prints the
nine counters of the panel one after the other, for ever. `stage` is where a network task is with its
message, `contended` (history) the actions that both tasks counted at once. Where the panels are drawn
is left out: the cells of names and addresses have the width of their text only as long as the
text has neither control characters nor multi-byte ones, and clients choose it (see Divergences).

## 3. Runs

| Run | Result | Shows |
|---|---|---|
| `registry` | pass | with heartbeats, a running clock and all commands: the registry is linearizable, hands over only through empty (a time-out does not clear it), its master knows the token |
| `watchdog` | pass | wired, the watchdog stops the outputs of a master that falls silent for good after a whole check, and no others unless a heartbeat met the check or stored an old time |
| `motor_faults` | pass | one clean pass makes a motor safe and its cache exact, through lost writes and restarts |
| `servos` | pass | values stay in range; an undisturbed pass leaves pulse, cache and type in agreement; increments are relative |
| `bus` | pass | the mutex keeps frames and register pointer together over two transmissions; each transfer is one step of the board to its caller; a sensor's answer is of this call's measurement; each step of a call leaves it fewer and every call ends |
| `leds` | pass | one command that ran alone and lost no frame makes its LEDs right, whatever was there before |
| `screens` | pass | the display shows the screen it was drawn for unless a command hit a draw; a logger keeps the newest rows; an entry logged outside the end of a draw gets drawn; the splash stays its time, the first one counted from power-on, unless a handler was at work on it or stamped it late |
| `boot` | pass | handlers meet services whose start is decided; a restart finds the pair that was answered for; the access point keeps its name; each service keeps to the documented lifecycle and none changes under a handler; each step of `setup()` leaves it fewer and every boot gets to its servers |
| `scripts` | pass | what was answered as saved, without a fault a client is not told of, is served as posted until its next save |
| `camera` | pass | no frame buffer or picture is lost or given back twice; the busy flag falls with the last stream; every buffer that a request finds or takes goes back to the driver |
| `traffic` | pass | a dispatch counter is right unless both tasks counted at once; the dashboard shows numbers that were true since its update began and comes to show the last ones; counters read right below ten million |
| `drop` | violation | no one calls the watchdog: a silent master's outputs stay driven |

A `violation` run checks one sentence of a comment or document; `findings` in `PROJECT.json`
quotes it and says what the code does.

### Divergences

Seen while modelling; each is in a model as the code has it, and no run is kept for it.

*Registry, outputs.* Of two registrations of one address in two tasks the later is told it failed
although its sender is the master (`AmakerBotService.cpp:186`). Over HTTP there is no sender: a
REGISTER makes nobody master (`help/communication.md:204` says it does), an UNREGISTER is answered
ok when there is none, as the empty sender equals the empty registry. `help/communication.md:39`
says a second REGISTER fails until the master unregisters "or its heartbeat times out": no code
clears `master_ip_` on a time-out (`AmakerBotService.cpp:415-439`), so the registry stays taken
until the UNREGISTER or a restart, as `MasterHandover` has it. A false time-out has two causes
(`AlarmMeansSilence`): a heartbeat between two reads of the watchdog, which makes its subtraction
wrap, and a task preempted between `millis()` and its store, which puts an old time over a newer
one. A heartbeat that resets the latch between the watchdog's test and its write leaves it set
although the master is alive; if the master falls silent before a whole check has taken it back, its
outputs are never stopped. `SilenceStopsOutputs` is about the other silences, and nothing in the
code makes a check run within a heartbeat's period. A heartbeat that is still at its second flag
when another client registers leaves the watchdog on for a master that never beat. A heartbeat is
accepted from any sender; REBOOT does not stop the outputs; motor and servo commands and GET_WIFI do
not ask the registry; SET_NAME may be finished by a client that stopped being master after the test.
Two passes over one motor can put both legs of its bridge on (`MotorServoService.cpp:532`). A type
set between test and move lets an angle's pulse reach a continuous servo. A lost write is answered
ok, and after it cache and registers differ until the next clean pass.

*LEDs.* TURN_OFF_LED sends the frame with brightness 0, which the two LEDs share, so both go dark
and GET_LED_STATUS still names the other's colour (`DFR1216.cpp:252-253` describes one LED). The
caches of the two services disagree once both have been used. The board's service has a third
LED with no hardware. A lost frame is answered ok. `LEDService.cpp:6` says that
`setLEDColor()` "zeros unselected LEDs each call"; it builds the frame from its cache
(`DFR1216.cpp:252-264`), and `ShownAsBoardCached` holds because of that.

*Screens, loggers.* A command that hits a draw leaves the display with the wrong screen; an entry
logged between the copy and the version of a draw stays undrawn until the next. A command that shows
the splash again between `millis()` and the splash time makes the difference wrap: it is left in the
same tick (`AmakerBotUIService.cpp:159`); so does a handler preempted between `millis()` and its
stamp, which gives the new splash an old time. `help/board-ui.md:33` has the splash advance after 10
seconds: the first one is never stamped, so it ends 10 s after power-on, that much earlier than 10 s
after it is displayed as the boot has taken (`SplashStaysItsTime` says both).

*Boot, WiFi.* When neither a network nor an access point comes up the status stays INITIALIZED:
`WiFiService.cpp:286` names START_FAILED and does not set it. SET_WIFI is answered ok when NVS
failed, and does not apply what it saved (`AmakerBotService.cpp:51` says it does): the settings hold
from the next boot. A NUL in SSID or password cuts what is stored. An empty password is accepted,
though without one `connect_to_wifi()` does not try, so that an open network is out of reach. Two
SET_WIFI at once are a data race on `std::string`.

*Scripts.* A chunk above the cap is skipped and a later one may be kept: a file with a hole,
answered 200 (`BotServerWeb.h:104`). Without memory an empty file is saved, answered 200. A short
write is answered ok. `help/communication.md:180,206` says PUT where only POST is registered;
line 182 says no-store where no such header is set.

*Camera.* A raw frame that begins like a JPEG is returned to the driver before it is sent. One
stream's disconnection ends the other streams. The latest frame after a pause is old: when both
buffers are in the queue the driver has none to fill until the next request. A stream whose wait for
a frame times out answers RESPONSE_TRY_AGAIN and may never be called back, as the comment at
`BotServerWeb.cpp:578-581` says; nor is one whose client stalls. Such a stream keeps
`streaming_active_` up, and snapshots refused, until its client disconnects.

*Dashboard, transports.* From ten million on a counter is cut by its cell; from 10^9 on
`formatThousands()` leaves its buffer. 0xFF for a battery that cannot be read is shown as 100%; the
colours change at 65, 35 and 20 where the comment says 50 and 20. A row may show more answers than
messages, as received is read before sent. Simultaneous messages may lose an increment of
`dispatch_count_`. HTTP counts an answer as sent even when it had no memory for it. Each fragment of
a WebSocket message counts as a drop, except the last: the test at `BotServerWebSocket.cpp:125`
looks at the frame alone, so a final fragment passes for a message of its own, where the comment
says only complete single-frame messages are handled. The bot name (any 1 to 32 bytes,
`AmakerBotService.cpp:243-247`) and the SSID are printed as they are (`AppScreen.cpp:261-276`): a
newline in one moves the cursor out of its cell, multi-byte characters do not fill it.

### Bounds

Every bound is named in a module or an `MC` module and given in a `.cfg`.

- `registry`: two client addresses, all three transports in their two callback tasks, every command,
  a tick in which heartbeats may be stored late. `WatchdogWired` is FALSE as in the firmware: with
  it the instance is too large, and the theorems about the registry cover it. `watchdog`: one
  address, two tasks, without the payloads the code refuses (`SendsMalformed`), which change nothing;
  with `HeartbeatTimeout = 0` and `MaxTime = 2` a heartbeat of the same tick is in time, one a tick
  old is late, and a store may be late by one tick or two. `drop`: one address;
  `HeartbeatTimeout = 1`, `MaxTime = 3` are before, at and past the deadline with a heartbeat in
  each tick. In all `ClockModulus = 16` stands for 2^32 and is larger than any time. The clock stops
  at `MaxTime`: silence that lasts is silence at the last tick.
- `motor_faults`: two motors (a pass can be cut between them), one bit beyond the motors, a
  forward, a full-reverse and an out-of-range speed; zero comes from STOP_ALL_MOTORS.
- `servos`: one channel, one bit beyond it, two tasks: channels meet only in the loops over the
  mask, which a task walks alone; the proofs cover any number. An increment of -360, an angle of
  200 (beyond a 180 degree servo, within a 270 degree one), 361 out of range; full reverse and
  101 out of range.
- `bus`: two tasks (one holds, one waits), a plain read, a plain write and a measured distance,
  which are the shapes a call may have; two attempts per loop, the first of which may fail.
- `leds`: a pixel of the K10 and the board's two LEDs; one bright colour beside black; a mask
  with a pixel and the second LED of the board, beside the mask of all; the board's own service
  is asked for its first LED, its third, which it lacks, and all.
- `screens`: splash, dashboard and one log screen, one command task beside the display task, a
  logger of one row and two entries (one is evicted), a clock that starts at 0 to 2 and ends at 2, a
  splash of one tick: left before it, at it, shown again on the way, stamped a tick late.
- `boot`: one pair that clients set, whose password a NUL empties, against the default pair of
  the only network; three commands (two that race, one after them), one power cut, one more poll
  of the board, two attempts to connect.
- `scripts`: one valid name and one that is not, two connections, bodies that are empty, of two
  chunks, with a chunk above the cap before one that fits, and with a NUL; a cap of two; one cut.
- `camera`: the two buffers and the queue of two of `main.cpp`, three streams (one opens while
  another ends and a third sends), pictures of one or two callbacks.
- `traffic`: a known and an unknown action, two messages in all: both tasks can count at once;
  texts of counters are compared around every place where a group of digits is gained.

In `servos` and `leds` the tasks are symmetric: no definition or property names one, and no
liveness property is checked there. `boot` may stop, as commands and cuts are bounded, and does
not check deadlock; every other run does.

### Fairness

Nothing is assumed of clients, the board, the network, memory or flash.

- `AmakerBot`: a task that runs a handler goes on (FreeRTOS schedules ready tasks and no handler
  waits for a client), the periodic check is called again when wired, time passes.
- `AmakerBotUI`: the display task's loop goes on for ever.
- `I2CBus`: a task that can go on does (weak); one that waits for the mutex gets it if it is free
  again and again (strong): the mutex is a FreeRTOS queue with priority inheritance, and the others
  sleep between attempts and between calls.
- `Firmware`: `setup()` and the two tasks go on; `MaxCuts` says that the power is not cut for ever.
- `Camera`: the HTTP task finishes the handler or callback it is in, which waits for nobody longer than
  its time-out. Neither a frame of the driver nor another callback of a stream is assumed.
- `Dashboard`: the display task prints, the tasks finish the message at hand.

The other runs use no fairness.

## 4. Proofs

TLAPS checks, for every value of the constants under the named assumptions:

| Module | Theorems: `Spec` implies |
|---|---|
| `AmakerBotProofs` | `TypeCorrect` ([]`TypeOK`), `MasterKnowsTokenHolds` ([]`MasterKnowsToken`), `MasterHandoverHolds` (`MasterHandover`), `AlarmMeansSilenceHolds` ([]`AlarmMeansSilence`), `RegistryRefinement` (`RegistryPromise`, that is `Registry!Spec`) |
| `MotorDriveProofs` | `TypeCorrect`, `NoShootThroughHolds` ([]`NoShootThrough`), `CacheMatchesHolds` ([]`CacheMatches`) |
| `ServoDriveProofs` | `TypeCorrect`, `KnownPositionHolds` ([]`KnownPosition`), `IncrementIsRelativeHolds` (`IncrementIsRelative`) |
| `I2CBusProofs` | `TypeCorrect`, `BusRefinement` (`BusPromise`, that is `Board!Spec`), `FrameIntactHolds` ([]`FrameIntact`), `ReadsOwnRegisterHolds` ([]`ReadsOwnRegister`), `FreshMeasurementHolds` ([]`FreshMeasurement`), `CallsRunDownHolds` (`CallsRunDown`) |
| `LEDsProofs` | `TypeCorrect`, `ShownAsCachedHolds` ([]`ShownAsCached`), `ShownAsBoardCachedHolds` ([]`ShownAsBoardCached`) |
| `DisplayProofs` | `TypeCorrect`, `RowsAreNewestHolds` ([]`RowsAreNewest`), `ShowsScreenUnlessRacedHolds` ([]`ShowsScreenUnlessRaced`), `SplashStaysItsTimeHolds` ([]`SplashStaysItsTime`); of `DashboardSpec`: `DashboardTypeCorrect`,  `CountedUnlessRacedHolds` ([]`CountedUnlessRaced`), `ShownWasCountedHolds` ([]`ShownWasCounted`), `CountersReadableHolds` ([]`CountersReadable`); of the texts: `CounterReads` |
| `FirmwareProofs` | `TypeCorrect`, `ServedByDecidedServicesHolds` ([]`ServedByDecidedServices`), `RestartFindsLastSettingsHolds` ([]`RestartFindsLastSettings`), `AccessPointKnownHolds` ([]`AccessPointKnown`), `LifecycleRefinement` (`LifecyclePromise`, that is `Lifecycle!Spec`), `BootRunsDownHolds` (`BootRunsDown`) |
| `BotServerWebProofs` | `TypeCorrect`, `FramesAccountedHolds` ([]`FramesAccounted`), `PicturesAccountedHolds` ([]`PicturesAccounted`), `BusyOnlyWhileStreamingHolds` ([]`BusyOnlyWhileStreaming`); of `ScriptsSpec`: `ScriptsTypeCorrect`, `ServedAsPostedHolds` ([]`ServedAsPosted`) |

The assumptions are the `ASSUME`s of the modules: the empty values (`NoIP`, `NoTask`, `None`,
`Unknown`, `Absent`, `NoBody`) are none of the real ones, sets of commands, transports and calls are
among those the code knows, names and actions are not empty sets, chunks have at least one byte,
numbers are naturals or in the range of their bytes, `MaxTime < ClockModulus`, the two LEDs of the
board are neighbours, a C string of the defaults is the defaults, the set of camera connections is
finite. TLC evaluates each of them. The types of `AmakerBot`, `AmakerBotUI`, `MotorDrive`, `I2CBus`,
`LEDs`, `Firmware`, `Camera` and `Dashboard` are proved and not in a run.

*Registry.* `MasterKnowsToken` is not inductive alone: between the token test and
`registerMaster()` a handler at `reg_take` has to be known to carry an address that presented
the token; `AmakerBotProofs` adds that for the handlers between test and effect. The refinement
needs to know which reply a handler at each label has already fixed (`ReplyInv`): a REGISTER at
`reg_active` has its answer and no later step changes the abstract state. Each action is then
either one abstract action or a stutter, as the lemmas say that name what a step may do
to the mapped `call` (`OneCall`, `SameCalls`).

*Watchdog.* `AlarmMeansSilence` needs that what the handlers wrote keeps up with what arrived.
`HeardInv` says that the newest arrival is stored, or held by a task that will store it (`Fresh`),
or that the last store is known to have gone back in time (`stale`): a store that is not fresh, when
no other is pending, does (`StoreKeepsSilence`). `CheckInv` follows the check: a heartbeat in any
handler while it runs sets `met`, so in a check that met none the stored time is not after the
check's own reading of the clock. Then the subtraction modulo `ClockModulus` is the true difference,
as `MaxTime < ClockModulus`, and the clock only moves on until the alarm (`SilenceInv`). The proof
needs that there are two tasks: with a third, two stale stores could cancel out in `stale`.

*Motors.* `NoShootThrough` and `CacheMatches` follow from `DriveInv`, which says for a task inside a
pass that is still clean that it is alone at its motor (`Crowd`) and what the registers hold
after each of its writes (`Progress`), and for every motor what its `trust` implies
(`MotorSafe`, `MotorExact`). `clean` is needed because a second task's arrival must spoil the
passes of all the tasks at that motor.

*Servos.* `TypeOK` bounds what the code relies on not to overflow (a cached angle plus an
increment, both tested), and needs `RangeInv`: past the tests a command's argument is in range,
after the clamp its value is. `KnownPosition` follows from `ServoInv`: at a channel a task
counts as fresh its command suits the type, no other task is inside, and value and register
are what its steps so far made of the command (`FreshOK`). The steps of other tasks keep it at
the channels they do not touch (`OthersFrame`) and need it only in part elsewhere
(`OthersOut`). `IncrementIsRelative` is read off `FreshOK` at the cache write.

*Bus.* `BusInv` is the mutex (`Mutex`: who is between taking and giving owns it, with the depth
his place implies), what the buffers and the pointer hold for the owner after each of his steps
(`Transferred`) and what an acknowledged start says of the measurement's status (`Told`).
`FrameIntact` and `ReadsOwnRegister` then need one fact about two tasks: that two owners are the
same (`HolderAlone`).

`BusRefinement` goes through the places of a transfer: most steps leave `TransferOf` of every task
as it was (`SilentSteps`, `OthersUnmoved`), `EndTransmission` makes a write happen or fail
(`SentOrLost`), `RequestFrom` a read (`ReadOrShort`), and between transfers a call asks for its next
or leaves (`StartAsks`, `LoopAsksOrLeaves`). It rests on `BusInv` too: only because the pointer is
still this task's own does the byte the board hands out come from the register that was asked for.

`CallsRunDown` is the safety half of `EveryCallEnds`: `StepsLeft` is a natural number below twice ten
times `RETRY_COUNT`, and each step of a call takes it down, in the transfer (`TransferRunsDown`) and
around it (`LoopRunsDown`), while the steps of others leave it (`StepsUnmoved`). That the call then
ends takes fairness only, and stays with TLC.

*LEDs.* For a handler that met no other and lost no frame, `LEDsInv` says how far cache, brightness,
pixels and frame have come at each step (`Lit`, `BoardLit`, `OffCached`); `Shape` ties a
handler's step to its command and to what is left of its loop. Commands of others end the claim
rather than preserve it: `alone` becomes false.

*Screens.* `Rows` gives the rows as a function of the version, which the lemma `LoggedRows` shows
`Logged` to keep for any capacity; `Shown` says what the display has at each step of an unraced
`tick()`. `SplashStaysItsTime` follows from `SplashInv`: a splash on show was stamped when it was
put up or after (`Stamped`), or some process is between its write and its stamp (`Stamps`), or the
last stamp is known to be stale. So a test that no handler met compares two times in their order,
and what it finds elapsed is no more than the time since the splash was put up, or since the start
for the first one (`Since`). Each `tick()` starts the claim anew; a handler at work ends it.

*Texts.* `CounterReads` needs no induction although `formatThousands()` is a loop: below ten million
there are at most seven digits and two separators: `Places` says where each of them lands,
`Formatted` what the buffer then holds, and `Decimal` that the digits of a number below a power of
ten add up to it. The rest is the width of the cell.

*Dashboard and transports.* `CountedUnlessRaced` needs `CountingInv`:
a task between the read and the write of a counter finds it as it was read unless the action is
contended, and two tasks there with one action have contended it. `ShownWasCounted` needs that no
counter falls (`CountsGrow`), so that what a cell was printed with lies between the counter when
the update began and the counter now.

*Boot.* `ServedByDecidedServices` follows from `Turns` and `Booting`: the status of a service
is decided by its turn. `RestartFindsLastSettings` needs to know how far a clean handler has
come: which strings it has assigned, which keys it has stored (`Setting`, `Resetting`), that no
handler runs during setup (`Quiet`), and that an owed pair is in NVS (`Owed`). That NVS holds
what memory has, key by key, after every fault and race, cannot be assumed; only the pair of
the access point is never touched (`ApWanted`).

`LifecycleRefinement` uses the same two: `Turns` says which status the service at its turn has, so
each transition starts from where the documentation lets it (`SetupTransitions`), and that a service
before the turn is decided, so servers open over decided services. `BootRunsDown` is the safety
half of `BootEnds`: `SetupLeft` falls in each step of `setup()`, whatever the service does
(`OthersRunDown`, `BoardRunsDown`, `WifiRunsDown`), and is 0 just when the tasks are created.

*Scripts.* `ServedAsPosted` follows from `ScriptInv`. `Gathered` says of each body that no fault
has hit what its steps so far made of it: the string and the chunks to come are the body, then the
string is, then the file is, with no NUL to cut it. `Kept` says that an owed file is as owed. The
two need `OneSave`, that only one task handles requests, and `SaveReady`, that a file is owed to
nobody while it is being written, since a power cut may leave it with any part. `CStringIsPrefix` is
the lemma about the cut at a NUL.

*Camera.* `FramesAccounted` is a partition of the buffers and is inductive with `InHand`, which ties
the buffer in hand and the picture to the step of the HTTP task; `PicturesAccounted` counts with
the cardinality lemmas of `FiniteSetTheorems`.

Two components share a proof module where they share a source file or a screen.

Only model-checked: liveness under fairness (`SilenceStopsOutputs`, `EntryIsDrawn`,
`EveryCallEnds`, `BootEnds`, `FramesComeBack`, `DashboardCatchesUp`) and whatever needs ENABLED, which
TLAPS does not reach; the counterexample. Each invariant, action property and refinement that a
passing run checks is also a theorem. No module uses RECURSIVE.

## 5. Not modelled, and what is left

- The browser client (`BotScript.js`) with its two hazards, the late reply and the promise that never
  settles: a program of its own that shares only the wire format with the firmware.
- The web pages and user scripts, the build and test scripts, the vendor libraries.
- Code nobody calls: `stop()` and `broadcast()` of the servers, `stopService()`,
  `disconnect_from_wifi()`, `applySettings()`, the commands screen; of `DFR1216Board` the sensors
  (`getDHTValue()`, `get18b20Value()`, `getSr04Distance()`, `getADCValue()`), infrared, `setMode()`
  and the GPIO calls. `I2CBus` has these calls all the same, as the retry loops around the bus are
  theirs: what it shows of measurements is about the library, for who will call it.
- LED 0's progress colours during setup, drawing (where the panels are, the battery bar), words and
  colours, hex and frame encoding, logging text.

Left to do, the most worthwhile first: the safety halves of the other liveness properties (what
takes a frame back to the camera and the display task nearer to its goal); the browser session
against the bot; boot with the splash screen's progress.
