# ZeroTX in TLA+

ZeroTX is a ground station for flying model aircraft. A daemon on a Raspberry Pi
(`pi/daemon`, Go) mixes a joystick into channels; a small RP2040 (`firmware/crsf`, C)
repeats them to the radio and stands between a failing Pi and the aircraft; panels, a
voice and displays tell the operator what is going on. This directory holds TLA+ models
of the parts in which order, time and failure matter, TLC runs that check them on small
instances, and proofs that TLAPS checks for every value of the constants.

Paths below are relative to the repository root; line numbers are those of the modelled
commit. `PROJECT.json` maps every definition to its lines.

* [The system](#the-system): inventory of parts, state, operations, interactions
* [Modules](#modules): what models what, and how state and actions correspond
* [Runs](#runs): what each shows, bounds, fairness
* [Proofs](#proofs): what holds for every constant, and why
* [Disagreements](#disagreements-between-code-and-documents)
* [Not modelled](#not-modelled) and [What is left](#what-is-left)

## The system

```
 arm key, button ──> RP2040 debouncers ──serial──> input handler ──> arm.Machine
                                                                        │ events (16)
 joystick ──> reader ──> holder ─┐                                      v
 model ────> stack holder ───────┼─> 50 Hz mixer ─┐              drainArmEvents
                                 │                │            flightArmedHandler
 HTTP API ── load, swap, replay ─┘                v              │    │     │
        heartbeat ticker, handshake ──> ipc.Link ──> RP2040      v    v     v
                                          (USB)      link state  log display joystick
                                                     watchdog       panel   lock
                                                     CRSF ──> radio
 telemetry <── ipc.Link <── RP2040 <── radio
    ├──> event detector ──> recorder ──> narrator ──┐
    ├──> recovery view, home                        ├──> audio player ──> Piper, aplay
    ├──> tee to network clients    periodic report ─┤
    └──> fc-ready ──> arm.Machine   weather alerts ─┘──> display panel
 GPS, weather, map tiles, network class │ device health, self check │ I/O hub, VFD │ WebSocket
```

### The way to the aircraft

**Arming state machine** (`internal/arm/arm.go`). *State*: DISARMED, ARMING_REQUESTED or
ARMED; the last reported key position; cached throttle, readiness and checklist; the time
of the request; a channel of 16 events. *Operations*: `Init`, `KeyChanged`, `Confirm`,
`ThrottleChanged`, `FCReadyChanged`, `ChecklistOkChanged`, `Tick`. *Interaction*: called
from the serial reader, API goroutines, the 50 Hz loop and a 1 Hz ticker; one goroutine
drains the events and runs the cue, the panel alarm and the flight handler. *Hard*: the
channel drops the newest event when full; the request timeout is seen only by the ticker;
the inputs are caches that another loop refreshes. *Correct when*: armed only through all
gates, a request is fresh and has its key up, the consumers end where the machine is.

**Panel inputs** (`firmware/crsf/src/input_arm.c`, `input_momentary.c`; `main.go`
`OnInputEvent`). *State*: raw and stable level, time of change, the boot announcement;
`armInitOnce` and the key position in the daemon. *Hard*: polls are not tied to the clock,
pins bounce, chip and daemon restart independently, `KeyChanged` ignores repeats. *Correct
when*: every report is an edge, the daemon knows the debounced key, one push is one press.

**Mixer** (`internal/source`, `logic`, `mapper`, `cf`; `cmd/zerotxd/stack.go`). *State*: per
switch its output, delay, duration, lockout, latch and timer; per custom function whether it
was triggered; the stack of the active model and the drain of its sounds. *Operations*: the
tick (switches, mixes, functions), building and swapping stacks. *Hard*: switches feed each
other one tick late; ticks come late; a stack is swapped first and its drain stopped later,
and a stopped drain may still pick queued sounds. *Correct when*: the motors need the arming
gesture, the arm machine hears of the throttle that flies, what a stack said last is so.

**Safety floor of the RP2040** (`state.c`, `main.c`). *State*: BOOT, PENDING, OK, HOLD,
FAILSAFE; last heartbeat, time of entry, channel snapshot; the hardware watchdog.
*Operations*: heartbeat and channel frames, USB ready, `state_tick`, emission. *Hard*: two
clocks, one transition per tick, one reading of the clock per iteration (`main.c:187`) that
serves everything up to the emission, calls that block in between, resets.
*Correct when*: nothing is
emitted much later than the Pi was last heard, and only the Pi starts emission.

**Serial link** (`internal/ipc`, the 50 Hz loop of `main.go`, `joystick/reader.go`).
*State*: handshake gate and verdict; the model; the installed reader and the time since it
was lost; the bytes the parser has accumulated. *Hard*: heartbeat, handshake and mixer
goroutines write independently into one blocking pipe; either side dies and returns; frames
queue while the firmware stalls; bytes are lost or damaged. *Correct when*: a dead daemon
falls silent on the air in time, a lost joystick stops the intents, nothing is driven before
a verdict, flying resumes, a damaged frame costs its neighbours nothing.

**Firmware-level disarm** (`arm_override.c`; `waitHandshakeAndPushArmConfig`, `LoadModel`
in `main.go`). *State*: the throttle and arm slots the firmware uses. *Hard*: two pushers
read the model first and send later; the gate drops a push silently. *Correct when*: the
slots become those of the active model, and the cut never stops motors in flight.

**Joystick readers and the holder** (`internal/joystick`, `joystick_holder.go`, callbacks of
`main.go`). *State*: open readers with their share count, the installed reader, the lock in
flight. *Hard*: API requests and the hot-plug callback open, install and close in steps; an
open may fail, and the callback does not try again. *Correct when*: the reader in use is
open, none leaks, a returning controller that opens is used again.

### A flight and its record

**Flight recorder** (`internal/recorder`). *State*: working SQLite database, session
number, preserve flag; recordings and sidecars on disk. *Operations*: `OnArm`, `OnDisarm`
(close session, copy, sidecar, sweep, rotate), `LogEvent`, `PreserveCurrentSession`,
`SetPreserved`. *Hard*: the mutex is dropped between the steps, each may fail, the process
may end between any two. *Correct when*: recordings are whole, and what was asked to be
kept stays.

**Arm-event handler, event detector, recovery view, narrator** (`flightArmedHandler`,
`flight_events.go`, `internal/recovery`, `narrator`, `phrasebook`). Arming opens a session,
switches the detector on and the display to FLIGHT, locks the controller; disarming does
the reverse, captures the flight, tells its story and leaves a goroutine that takes the
banner down after 30 s. The detector samples telemetry at 5 Hz. *Hard*: sampler, drain, API
and the banner goroutines interleave without common locks; the detector keeps peaks and
bands across calls. *Correct when*: a story is that of its own flight.

**Display-mode writers** (API handlers, `internal/replay`). Load, unload, replay start and
stop, the handler and the banner goroutines all decide on a mode first and set it later.
*Correct when*: the panel shows what the daemon is doing once the writers are done.

**Display path** (`internal/devices/display`, `wxalerts.go`, `firmware/display`). A manager
caches the mode across reconnects and makes a driver per connection, which deduplicates
modes and has a queue of 32; the panel has a current mode and the text of an alarm, and
draws by the mode alone. *Hard*: cache,
driver and queue are three steps under two locks; the replay to a new driver races
`SetMode`; a full queue drops; the panel restarts behind a port that stays; alarms are not
cached. *Correct when*: the panel ends up with the wanted mode and the believed alert.

### The station around it

| Part | State and operations | Hard | Correct when |
|---|---|---|---|
| Audio player (`internal/audio/audio.go`) | queue of 16, threshold, repeat goroutine per alarm name; `Play`, `AcknowledgeAll`, `Close` | lock, queue and goroutine are three steps | an acknowledged alarm gets quiet, a critical one repeats until acknowledged |
| Voice (`tts.go`, worker) | Piper process, cache of rendered texts, backends | it hangs, dies, answers late; restarts | what is spoken is whole and its own text |
| Weather (`internal/weather`) | place, cache by cell in memory and on disk | the observer moves during a fetch | the weather served is of the place asked for |
| Weather alerts (`internal/wxalert`, `wxalerts.go`) | per rule active, counts, ages | data comes and goes | no rule flaps |
| Periodic report (`periodic_narrator.go`, `narrate_config.go`) | configuration, its file, one timer | requests overlap with saves, a select over three sources | reports go on through a flight; the file holds what is in use |
| Telemetry store (`internal/telemetry`, `fc_ready.go`) | latest value and age per kind, home | staleness at each reader; the tick that looks is skipped without a model or joystick | readiness is no older than that, the search follows the aircraft |
| Tee (`internal/crsftee`) | 64-frame queue and a writer per client | clients that do not read | the serial reader never waits, shutdown leaves nobody |
| Device health, self check (`devhealth`, `selfcheck`, `syscheck`) | last seen and fault per device, one comparison, the dismissal | every device has its own window | the gate opens when all is there, and then does open |
| Heartbeat LED (`internal/heartbeat`) | last tick; a toggling goroutine | the mixer stalls | it blinks only for a live mixer |
| I/O hub, VFD, GLCD (`iohub`, `vfd`, `glcd`, `logbuf`) | serial port with reopen, log ring shown on the VFD | writers and reader close and reopen under each other; lines shown write lines | the port comes back, the firehose settles |
| WebSocket hub (`internal/api/stream.go`) | clients with two goroutines each | three may remove one client | closed once, and always in the end |
| Station GPS (`internal/gps`) | last parsed state, one reader | empty fields, lost fixes, garbled lines | the position is the last one heard |
| Map tiles (`tilewarm`, `api/maptiles.go`) | directory, daily pass, sources in order | a crash in a write, requests meanwhile, an upstream that breaks off in a body | a served tile is its own, and whole from the station; the region gets fresh |
| Network class (`internal/netclass`) | class, file | saves after the unlock, shared temporary, a write that fails or is repeated | only the last declared class allows fetching |
| Satellite downloader (`tools/maps/sat-download`) | archive, two channels, workers, writer | interrupt and kill anywhere, resume | no tile is fetched twice or lost, an interrupt ends |
| HTTP API (`internal/api`) | none of its own beyond the hub | | its requests are steps of the parts above |
| Models (`internal/model`), geography, astronomy | tables | | translation only |
| Simulator bridge, I/O board, tracker, bench tools | outside the daemon or off the path | | |

## Modules

| Module | Models | Explored by | Proved in |
|---|---|---|---|
| `ArmMachine` (`MC…`) | `arm.go`, its ticker and drain | `arm` | `ArmMachineProofs` |
| `Deadman` | what a safety floor promises, abstractly | `chain` | `FailsafeChainProofs` |
| `RpLink` | `state.c` and the main loop of `main.c`; refines `Deadman` | `chain` | `FailsafeChainProofs` |
| `FailsafeChain` (`MC…`) | link, handshake, mixer, USB pipe and firmware; extends and implements `RpLink` | `chain` | `FailsafeChainProofs` |
| `Recorder` | the recorder, under any caller | `flightlog` | `FlightLogProofs` |
| `FlightLog` | handler, detector, recovery view, operator; extends and implements `Recorder` | `flightlog` | `FlightLogProofs` |
| `Mixer` (`MC…`) | sources, logic engine, mixes, custom functions, stacks and their drains | `mixer` | `MixerProofs` |
| `ArmConfig` | slot configuration and firmware-level disarm | `cockpit` | `CockpitProofs` |
| `PanelInput` | debouncers, serial line, input handler | `cockpit` | `CockpitProofs` |
| `FlightModes` | display and controller half of the handler, API requests | `cockpit` | `CockpitProofs` |
| `WeatherCache` | place, refresher, cache and files | `cockpit` | `CockpitProofs` |
| `DisplayLink` | manager, driver, queue, wire, panel firmware | `cockpit` | `DisplayLinkProofs` |
| `FlightStory` | detector, events, narrator, number tracks | `cockpit` | `CockpitProofs` |
| `AudioPlayer`, `Voice` | alarms and queue; tracks, Piper, cache | `station` | `SoundProofs` |
| `WeatherAlerts`, `PeriodicNarrator` | rules and debounce; reports and configuration | `station` | `SoundProofs` |
| `Telemetry`, `HeartbeatLed` | store and its readers; LED | `station` | `StationProofs` |
| `Controllers`, `Health` | readers and holder; health and gate | `station` | `StationProofs` |
| `WsHub`, `StationGps`, `MapTiles`, `NetClass` | as named above | `station` | `StationProofs` |
| `SatDownload` | the downloader of satellite tiles | `station` | `StationProofs` |
| `Framing` | COBS, CRC, parser | `station` | `StationProofs` |
| `CrsfTee`, `IoHub` | tee; hub, VFD, log (liveness only) | `station` | |
| `MCCockpit`, `MCStation` | the two collections | | |

How state and steps were chosen:

* A method that holds its mutex throughout is one action. Where the code lets the mutex
  go, or reads first and writes later, there is a step on each side: the stages of
  `OnDisarm` (`saving.at`), of a mode writer (`request`, `banners`), of a configuration
  push (`At("read")`), of `SetMode` (`call.at`), of `Play` (test, queue, schedule), of a
  file written and renamed (`OpenTemp`, `WriteTemp`, `RenameTemp`).
* `flightArmedHandler` is seen three times. `FlightLog` keeps its recording steps,
  `FlightModes` its display and lock steps, `FlightStory` the detector and the narration;
  none reads what the others write. `FlightLog` and `FlightModes` take the arm machine's
  transitions as an unbounded queue. Losing one is a question of `ArmMachine`, where the
  queue has its capacity and a drop is counted.
* Time is discrete. Ages saturate above everything they are compared with; a step of time
  waits for periodic work that is due, unless the code may be late there (stalled firmware
  loop, late mixer ticks, blocked write). In `RpLink` time may pass between any two steps of
  an iteration: `LoopTop` reads the clock, `lag` is how old that reading is, and frames, tick
  and emission go by it.
* `stackHolder.Store` swaps and then stops the old drain; in between that drain can do nothing
  it cannot do after, so `Store` is one step, but the drain stays in `leaving` with its queue,
  beside the new one, and may speak until it returns (`TakeLate`, `SayLate`, `Retire`).
* A USB pipe or queue is a bounded sequence; a write to a full pipe blocks and a send to a
  full Go channel drops or blocks as the code has it. The bound is a model bound, what
  happens at it is not.
* History variables (`drove`, `mixedFor`, `owed`, `raced`, `hidden`, `unseen`, `witnessed`,
  `heard`, `stray`, `missed`, `declared`, `lastPost`, `unsaved`, `unlooked` and others) are
  read by no guard. They tell the properties what happened before.
* Data is a handful of values: two channel snapshots, two or three models, two modes, six
  telemetry snapshots, two clients.

Per module, where the model is narrower than the code:

* `ArmMachine`: the `confirmCount` and `dropped` counters saturate. The simulator build,
  which trusts its key at once, is the `Boot` action taken with TRUE.
* `PanelInput`: button and key share one line.
* `FailsafeChain`: emission is at most once per time unit; CRSF packing, telemetry and the
  arm override are left out. `SIGTERM` and crashes are the same `Die`.
* `ArmConfig`: the firmware does not restart; slots outside 0..15 do not occur because the
  daemon checks them before sending. Slots other than the throttle share one level.
* `Recorder`: of the SQL statements only `OnArm`'s insert may fail; the rows are the kinds
  of events that prove a flight whole. `Close()` is covered by a restart.
* `FlightLog`: failsafe is the flight mode `!FS`, as in `recovery_wiring.go`.
* `Mixer`: values are whole percents; a model is data given in `MCMixer` as the decoder
  would deliver it. Stick positions and timings are the few that the definitions tell apart.
* `DisplayLink`: brightness, thresholds and telemetry fields take the same queue; only the
  place a snapshot occupies is kept. A line taken from the queue reaches a panel whose
  transport works.
* `FlightStory`: place names and wording are left out; the text is the facts it states.
  What is told stays within what `numberFragments` has tracks for (`StoryAssumption`).
* `AudioPlayer`: at most `Repeaters` goroutines live at once; they are reused.
* `Voice`: the text of a rendering is its identity; a partial file is one Piper still writes.
* `Framing`: bytes are 0..`Full`, 0..4 in the run; the check is a sum of that width with
  the running structure of the CRC. What is shown is resynchronisation and bounds, not the
  strength of the CRC.
* `Telemetry`: GPS and flight mode; the others are stored alike, and the number of cells
  taken from a battery frame makes no difference to the readers here.
* `Health`: what the observers of the self check other than devices say is free.
* `SatDownload`: rows of the grid, not pixels; the tiles of a zoom level come in some order;
  the pace of the requests is only the wait in which an interrupt may come.
* `MapTiles`: a body that broke off is one picture, `cut`, whatever part of it came.
* `StationGps`: minutes of arc in place of degrees with decimals.

## Runs

All runs are exhaustive within their bounds.

| Run | Question | Bounds |
|---|---|---|
| `arm` | key, confirm, inputs, ticker and drain in every order: do requests have their key up, expire in time and resolve; is ARMED gated; does the drain converge? | timeout 3, ticker 2, queue 2 |
| `chain` | daemon and firmware with crashes, stalls, watchdog resets and all handshakes: do losses silence the air, is nothing driven before a verdict, does flying resume? | heartbeat 1, hold 1, watchdog 2, joystick hold 1, hello 1, give up 1, pipe 2 |
| `flightlog` | every interleaving of handler, sampler, recovery view and operator, with every failure of a save: are recordings whole, and kept? | keep 1 newest, two flights, two restarts or operator acts |
| `mixer` | every input, lost joysticks, late ticks, model swaps and old drains over the shipped model and four more: do the motors need the gesture, is the last word the latch? | ticks 1 or 2 units late, ages to 3, one sound queued and one in hand, one drain leaving |
| `cockpit` | six parts between the operator and the flight, see below | two models, queue and pipe 2, two flights, three API calls, one display fault, two alarms, six telemetry snapshots of which three are sampled, three places |
| `station` | sixteen parts around them, see below | two alarms, two texts, three payloads with one byte fault, three readers, two workers, three tiles, two clients, three declarations, and so on in `Station.cfg` |
| six `…_doc` runs | does the code do what a document says? | as the run they belong to |

### One run for parts that share nothing

`MCCockpit` and `MCStation` explore components that share no variable: what one does to
another is a call whose outcome the other's module already takes as a free input (weather
found or not, a port that fails, a frame that comes). A product of two such components can
do nothing that one of them cannot do alone, and has the product of their states. So a
constant-valued variable `focus`, chosen in the initial state, names the component that
acts; the others stay at one of their initial states (`Parked`). Every reachable state of
every component appears, and every property is judged on all of them. A liveness property
is `[](focus = "x") /\ XFairness => P`: it is about behaviours in which x acts, and takes
the fairness of x alone as antecedent. Compositions in which parts do share state are
modules of their own: `FailsafeChain` over `RpLink`, `FlightLog` over `Recorder`.

### Bounds, and why they suffice

* *Queues of one or two* are both full and non-full, and hold an item that another overtakes
  or drops. The real capacities (16, 32, 64) differ only in how long that takes. The
  theorems about the arm events and the panel hold for every capacity.
* *Times* keep the order of the code's constants where a comparison depends on it; the
  theorems about the floor hold for all times. One unit of heartbeat and hold time makes
  every "late" and "not yet late" case occur, the watchdog's two units allow a stall that
  resumes and one that resets. Alert rules fire after two samples and clear after three, so
  that the counters differ, as 5 and 10 minutes do. The windows of telemetry are one tick and
  ages go to two: a reading is fresh, stale, or stale for want of one skipped tick or of two.
* *Two flights* let the remains of one (banner, open recovery view, sweep, detector) meet
  the next. With `Keep = 1` the second save sweeps the first recording, the first case in
  which a promise can be broken. The theorems about the recorder hold for any number.
* *Two callers and two calls* of `SetMode` give an overlap and a replay; `MaxFaults = 1`
  gives a call or a replay on either side of it.
* *Models*: `talon` is the shipped one, whose arm latch is four switches deep; `timed` has
  every timed switch; `plain` has combinations only; `aetr` has its throttle on the third
  channel, where an unresolved source rests low; `herald` announces a latch that takes one
  switch, the only one with sounds, so that old and new announcements meet.
* *Frames*: payloads of a zero alone, with zeros inside and without; a COBS block is full
  (254 bytes in the code) because `Full` is small; one byte lost, added or damaged anywhere,
  and lost delimiters that overrun the buffer.
* *Downloads*: two zoom levels, three tiles, two runs over one archive, two retries: a
  resumed run finds rows of a run killed at any step.
* *Posts, garbled lines, requests* (`MaxPosts`, `MaxGarbled`, `MaxRequests`, `MaxApiCalls`)
  are bounds of the model: two overlap and a third follows.

`flightlog` and `station` set `CHECK_DEADLOCK FALSE`: flights are used up and the operator
may do nothing; a crashed player, a closed hub, a stopped tee and a finished download have
nothing left to do. So do the document runs of the same modules. Everywhere else deadlock is
checked.

### What the properties say

`arm`: `RequestIsSound` (key up, and younger than the timeout plus one period of the ticker,
which is what a confirm racing the ticker can gain), `ArmedIsGated`, `RequestResolves`, and
`DrainConverges`: as long as nothing was dropped, the queued events alternate and lead from
what the consumer last did to the state of the machine. A drop breaks this in the code too.

`chain`: `EmissionNeedsPi` (silence of the Pi ends emission within heartbeat timeout + hold
time + two watchdog periods: one because the heartbeat can turn late just after the reading
of the clock that still took it for timely, one because the emission can come that much after
the reading by which HOLD was not over); `LossesSilence` (death of the daemon: one watchdog
period more, for frames that wait for the reading that dates them; loss of the joystick: after
its hold and the drain, two watchdog periods at most, no new channels reach the firmware. It
does not silence the air: see `chain_silence_doc`);
`DrivenOnlyAfterVerdict`; `FloorKept` (refinement of `RpLink` and, through it, of
`Deadman`); `RadioFollows` (silence in the end, heartbeats revive, flying reaches the radio).

`flightlog`: `FlightsAreWhole` (bracketed by their events, told with their flight, session
and machine agree when settled), `SweepsAreSafe` (a recording someone asked to keep while
that could be honoured is never swept, whatever fails in between; nor one with too few newer
ones. Excused are a sidecar that could not be written, an operator who released it and a
restart that lost the flag).

`mixer`: `ThrottleIsTrue` (the motors turn only after the gesture the shipped model asks
for, and a low throttle told to the arm machine is the stick, the cut, or a channel that
rests at its minimum because the joystick is silent), `WindowsAreApart` (after a duration
has run out the switch does not come on again before its input was seen low),
`LastWordIsLatch` (when all is said, what the active stack's drain said last of the arm
latch is its state, unless a sound was dropped; what a drain of a replaced stack says
meanwhile is `stray`, and `announce_stop_doc` is about it).

`cockpit`: `InputsAreReported` (reports are edges, the believed key is the debounced one,
presses are apart by two debounce times), `ConfigFollowsModel` (when no two pushes
overlapped; when they do, the stale one can be last and stays until the next load),
`NoCutInFlight`, `FlightIsOver` (on the ground the panel is right unless writers overlapped,
the controller lock is late only while the handler runs), `PanelFollowsMode` (names five
ways in which the panel may differ from the wanted mode: overlapping calls, a full queue,
IDLE on a new connection, an unnoticed restart, an alarm on the screen; there is no sixth),
`AlertIsShown` (the panel is in its ALARM mode with the text of the alert the projection
believes in, unless its line was lost, the panel or link started over, or a later MODE line
or alarm took the screen), `StoryIsTold` (peaks, failsafes, the worst of the battery, for
this flight; events are edges; number tracks add up), `WeatherIsOfPlace`,
`CockpitCatchesUp`.

`station`: `AlarmsObey` (an acknowledged alarm plays on only as often as goroutines stood
between unlock and send; a critical one raised is kept), `SpokenIsWhole`,
`FileFollowsConfig`, `WholeFramesArrive` (a frame between two delimiters that arrived is
received whatever came before it), `ReadersAreAccounted`, `ArchiveAccounts` (a run that
reports completion counted each tile once, and a tile present is not fetched),
`ServedIsWhole` (a tile of its own kind, whole unless the online proxy handed it on),
`FetchingIsDeclared` (a class that allows background fetching was declared, and is the one
declared last, unless the daemon died while that one was written, its write failed, or two
were written at once), `StationIsTrue`, `ClosedOnce`, `SignalsAreFresh` (a lit LED, a ready
flight controller: no older than the window and, of the latter, the ticks of the mixer loop
skipped for want of a model or a joystick since it last looked),
`AlertsAreSteady` (a rule changes only after an unbroken run of contrary samples, and the
panel shows the worst), `ReadyMeansAttached`; and the liveness of each part in
`AlarmsAreHeard`, `FlightIsAttended` (a controller that comes back is in use again, unless the
callback of that return got no GUID or could not open it), `ClientsLetGo`, `StationSettles`.

Each module also states these parts by name; the properties of a run conjoin those that
answer one question.

### Fairness

Only what the scheduling gives is assumed. No input ever has to come: keys, confirms, API
requests, faults, frames, plugging and unplugging are never fair.

* Goroutines that have something to do get to do it (weak fairness of drain, handler,
  driver, sender, banner timer, player, repeaters, narrator, hub, pumps, workers, writer).
* In `ArmMachine`, `PanelInput`, `PeriodicNarrator` and `Health` time passes; the poll of
  the key and, strongly, the write of its report, since the pipe may fill again and again.
* Deadlines end what hangs: reads and writes of a WebSocket and of the tee once it shuts
  down, a request to Piper. A client's willingness to read is never assumed.
* In `FailsafeChain` time diverges, `[]<><<Pass>>`. Weak fairness would not do: a behaviour
  in which the daemon starts and dies endlessly within one unit of time disables `Pass` again
  and again, but no process restarts infinitely often in 100 ms. Tickers, frame handlers and
  the watchdog are weakly fair.
* The receiver of the station's GPS sends (`SendSentence`): it does so once a second by
  itself, until its port is lost.
* Conditions on the environment (a board that stays in, positions that keep coming, days
  with a fit network) are in the formulas as `<>[]…` or `[]<>…`.

## Proofs

Every invariant of the passing runs is a theorem, and every action property and refinement
that is not about fairness.

| Theorem | States | Says, for all constants |
|---|---|---|
| `ArmMachineProofs!Typing` | | typing; the channel never exceeds its capacity |
| `RequestKey`, `RequestAge`, `RequestSound` | `RequestIsSound` | a request has its key up and is young enough |
| `ArmedGates` | `ArmedIsGated` | ARMED is entered and left through its gates only |
| `Convergence` | `DrainConverges` | for every capacity |
| `FailsafeChainProofs!RpTyping`, `EmissionBound` | | typing of the floor; its emission bound for all timeouts |
| `FloorIsDeadman` | | `RpLink` implements `Deadman`, with three watchdog periods beyond the timeouts |
| `ChainKeepsFloor`, `ChainKeepsDeadman` | `FloorKept` | the chain implements `RpLink` and `Deadman` |
| `ChainEmissionBound` | `EmissionNeedsPi` | and therefore inherits the bound |
| `VerdictFirst` | `DrivenOnlyAfterVerdict` | nothing is driven before a verdict |
| `ChainTyping`, `LossesEndInSilence` | `LossesSilence` | typing of the chain; silence after the end of the daemon, no new channels after that of the joystick, for every pipe and all times |
| `FlightLogProofs!RecTyping`, `PromisesKept`, `NewestSpared` | | the recorder under every caller and any number of flights |
| `DaemonRunsRecorder` | | every step of the daemon is one of the recorder or leaves it alone |
| `FlightsKept`, `NewestKept`, `SweepsSafe` | `SweepsAreSafe` | for the whole daemon |
| `WholeFlights` | `FlightsAreWhole` | recordings and narration hold both ends of their flight |
| `DisplayLinkProofs!SettledPanel`, `AlertShown` | `PanelFollowsMode`, `AlertIsShown` | for every number of callers and every queue |
| `CockpitProofs!PushesConverge`, `CutOnLowOnly` | `ConfigFollowsModel`, `NoCutInFlight` | for every set of models, slots and requests and every pipe |
| `InputsReported` | `InputsAreReported` | for every debounce time and every gap between polls |
| `FlightEnds` | `FlightIsOver` | for every set of controllers, requests and flights |
| `WeatherOfPlace` | `WeatherIsOfPlace` | for every list of places |
| `NumberIsSpoken` | | every number of up to four digits is cut into tracks that exist and add up to it |
| `StoryTold` | `StoryIsTold` | for every set of snapshots and alarms, within `StoryAssumption` |
| `SoundProofs!AlarmsObeyed` | `AlarmsObey` | for every set of alarms, queue and number of goroutines |
| `SpeechIsWhole` | `SpokenIsWhole` | for every set of texts |
| `FileFollows` | `FileFollowsConfig` | for every set of configurations |
| `AlertsSteady` | `AlertsAreSteady` | for every set of rules and every debounce |
| `StationProofs!RemovedOnce` | `ClosedOnce` | for every number of browsers and every send buffer |
| `FetchingDeclared`, `TilesAreWhole` | `FetchingIsDeclared`, `ServedIsWhole` | for every set of classes; every region |
| `ReadersAccounted` | `ReadersAreAccounted` | for every set of readers |
| `StationTrue` | `StationIsTrue` | for every set of positions and years |
| `TilesAccounted` | `ArchiveAccounts` | for every map, number of workers and depth of the channels |
| `ReadyIsAttached`, `SignalsFresh` | `ReadyMeansAttached`, `SignalsAreFresh` | for all windows |
| `RoundTrip` | | COBS decodes what it encoded, for strings of every length |
| `FramesArrive` | `WholeFramesArrive` | for every width of a byte, every set of payloads and any number of faults |
| `MixerProofs!WindowsApart`, `ThrottleTrue`, `AnnouncedTruly` | `WindowsAreApart`, `ThrottleIsTrue`, `LastWordIsLatch` | for every set of model files of the shipped layout |

Assumptions are only the named `ASSUME`s of the modules, which TLC evaluates on every run:
times and capacities are natural numbers and positive where the code's constants are;
`AgeCap`, `MaxAge` lie above what ages are compared with; reserved names are outside the
sets. Those that say more:

* `Mixer`: `MixerAssumption` has stick positions in percent; `FilesAssumption` says that a
  file is finite and its delays are not negative; `LayoutAssumption` says what the shipped
  model looks like: a file with a cut arms through the chain button window, guard, edge,
  latch; one with announcements plays a sound for the latch and one for its absence; only
  the upright stick is mixed to the throttle. The properties are about such files. Nothing
  is assumed of the other switches, mixes and functions in them.
* `Controllers`: there is always a number for another reader, as there is in a process.
* `Health`: boards and subsystems are not themselves among the blocking devices.
* `FlightStory`: `StoryAssumption` says that what is told has at most four digits: heights
  below 9995 m (rounding included), speeds below 10000 km/h, less than 10000 alarms, and a
  flight of less than 10000 minutes. The comment of `numberFragments` (`narrator.go:428`)
  has tracks for no more; CRSF cannot carry such a speed, but it could carry the height.
* `Framing`: `FramingAssumption` has a byte of at least three values, payloads of at most a
  full block that with their check fit `MaxRaw`, and `MaxCoded` computed from it as
  `framing.go` does.
* `MapTiles`: tiles beyond the region are not in it. `WeatherCache`: the cells of a map of
  places are places. `StationGps`: years are those two digits can tell. `SatDownload`: the
  zoom levels are an interval, and each has finitely many tiles.

The arguments:

* *Arming.* That a request has its key up needs that before `Boot` there is no request
  (`KeyInv`); the age bound needs that a request is younger than the timeout plus the time
  since the last tick (`AgeInv`), because `Tick` is the only step that looks. `Convergence`
  keeps the queue as a chain: lemmas say that appending the opposite flight event, appending
  any other event, and taking the head each preserve `Leads`.
* *Floor.* `EmissionNeedsPi` is not inductive. `FloorInv` adds how old the last heartbeat
  can be in each state, by the stage of the iteration and the age `lag` of its reading of
  the clock: in OK at most the heartbeat timeout plus `lag` once the tick has looked, and a
  watchdog period more before it does (`OkAge`); in HOLD at most heartbeat timeout and
  watchdog time more than the time held, which after the tick is at most the hold time plus
  `lag` and before it a watchdog period more (`HoldAge`). Emission comes after the tick, so
  `lag` is all that is added. `FloorIsDeadman` maps `feeding` to OK or HOLD and shows that
  each step is heard (dated back by at most a watchdog period), waited, ceased, or a
  stutter.
* *Chain.* Each action either contains an action of `RpLink` or leaves `rpVars` unchanged;
  the invariants and the refinement of the floor then come for free. `VerdictInv`: a daemon
  that has driven has its gate open, and open means a matching peer or a handshake overdue.
  `LossesSilence` needs no age per frame: an iteration that drains empties the pipe, so what
  is in it was written since the last drain, which is `lag` ago, or a watchdog period more
  while the next one is at it (`PipeAge`). `DeadInv` says that once the daemon is gone
  frames reach the firmware for that long and no longer, `LostInv` the same of channels once
  the joystick is; in BOOT nothing is drained, but no iteration has begun with the daemon up
  (`LostBoot`).
* *Recorder.* `KeepInv` follows a promise through the places where it can be (the flag of
  the running session, the reason taken for the sidecar about to be written, the sidecar)
  and says that no listed victim was promised. `SessionInv` ties the session to the
  recording it will become. `SweepInv` says that a listed victim has enough newer
  recordings, an argument about cardinalities of finite sets. The daemon's theorems then
  follow from implementation alone.
* *Whole flights.* Four steps of the handler write or read in an order of their own, so the
  invariant says at each of them what has been written. `TurnInv`: the queued transitions
  alternate and lead from what is handled to where the machine is. `EdgeInv`: so the
  detector is always in the other state when `SetArmed` finds it, and logs. `RowInv`: the
  rows of an open session are those of the steps done. `SaveInv`: the copy comes after the
  last of them. Together they also give that no session is open when the drain takes an
  arming, unless the working database is gone.
* *Mixer.* `StackInv` is about one switch: an output that is on has its delay behind it, and
  an expired window is locked until its condition was false. `ThrottleInv` says how far
  along the chain (window, guard, edge, latch, cut) the switches are, against the gesture
  followed from the inputs alone; each switch reads what the one before put out a tick ago,
  so the chain is proved link by link. `SoundInv` says which announcement is last on the way
  of the active stack (queue, drain, ear); a replaced stack's drain has a queue of its own.
  That the override of the greatest number wins, and that a lookup finds the first mix, rest
  on lemmas that a bounded set of integers has a least and a greatest element (`LeastNat`,
  `GreatestInt`), from well-foundedness, where induction over the list would need a theorem
  the provers cannot instantiate.
* *Display.* `PathInv` follows a mode from the cache to the panel. A call that nobody
  overlapped is the only one and carries the cached mode (`CallsInv`); the driver's mode is
  that of the last call, the last MODE line in the queue is for the driver's mode, and if
  there is none the screen shows it unless something is noted in `hidden` (`ToldInv`).
  `AlertInv` is its likeness for the alert: a line in the queue raises the text the projection
  believes in and none behind it clears it (`RaiseFor`), or none in the queue clears anything
  and the panel draws it unless something is noted in `unseen` (`PanelHas`).
* *Slot configuration.* `PushInv` says that without overlap one pusher is at work at a time
  (`AloneInv`), that what it read is still the model's (`FreshInv`), and that once nobody is
  at work the last push in the pipe, or the configuration if there is none, is the model's
  (`SentInv`). Three lemmas about the pipe carry `EndsWith` over a push, over channels and
  over a frame handled. A push that the gate drops does no harm because the boot goroutine
  has not read yet (`GateInv`).
* *Panel inputs.* `PanelInv` adds to the property that nothing is on the line before the key
  is announced (`FirstIsAnnounced`) and how long ago the last press was, by where the button
  is and for how long it has been there (`PressAges`).
* *Flight modes.* As long as the history notes no race, one writer of the display mode at
  most has decided and not yet written, what it decided is what the daemon is doing, and if
  there is none the panel shows that or somebody is waiting to change it (`WriterIsTrue`).
  `EventsAlternate` plays the part of `TurnInv`.
* *Weather.* A cache has one entry per cell at most (`OneAtMost`), and every entry in memory
  or on disk is filed under a cell it was asked for or is for.
* *Alarms.* A goroutine's number in the map and the goroutine agree (`MapInv`); after an
  acknowledgement the plays that may still come are at least as many as there are requests
  of this alarm in the queue and goroutines between unlock and send (`QuietInv`, a count
  over a finite set in which each step moves one member); an alarm that is critical and
  not acknowledged has a goroutine nobody has stopped (`CriticalInv`).
* *Speech, reports, alerts.* Piper owes the worker one answer at most, of the text asked
  (`OneAnswer`); one request saves at a time, and what it holds is in use unless another
  has yet to read the configuration (`SaveInv`); the samples a rule counts are those of the
  unbroken run against it (`AlertsInv`).
* *Station.* `OnceInv`: the right to close a client moves from the map to the one who removed
  it and from there to the count. `StickInv`: a reader that is open is installed or in the
  hands of one request. `GpsInv`: formatting and parsing degrees and minutes are inverse,
  from facts about division. `TilesInv`, `ClassInv`: what is renamed into place was written
  whole, by one writer. `SavedInv`: while the history notes nothing the file holds the class
  declared last (`Saved`), and a lone writer has its class in the temporary file (`Pending`).
  `HealthInv`, `LedInv`, `FcInv`: an age is compared with a window by whoever shows it, in the
  same step; a tick that is skipped adds one to both sides.
* *Downloads.* `DownloadInv`: every tile of the zoom level under way is in exactly one of the
  producer's list, the two channels and the workers' hands, or it is counted; none of the
  first four is in the archive, so the writer adds a tile that was not there; the places are
  empty when a level ends uncancelled. An interrupt may drop tiles, and then the run does
  not report completion.
* *Story of a flight.* A detector sees one snapshot at a time and the narrator only events,
  so `StoryInv` says what each of the detector's fields tells of the events written so far.
  `Known`: a lock that is held was acquired and not lost since, a link that is degraded has
  not recovered since, and so on; that is why the next event of a name is an edge.
  `PeaksInv`: the highest value logged is the peak seen, to the bucket, whatever was logged
  between. `ModeInv`, `BatteryInv`: a failsafe, a return, a battery band was logged if and
  only if it was seen, the first one first. Each of the six checks has a lemma of its own
  (`GPSKeeps` to `LinkKeeps`), their events are joined one after the other (`OneMore`),
  `ChecksReport` gathers them and `ChecksAgree` holds them against the history. What is
  told then follows from the invariant (`TextIsTrue`). For the numbers, `FourParts` adds the
  digits up, `AllIsSaid` reads each unit off the phrases, and `TellingAddsUp` compares them
  with the rows.
* *Frames.* `RoundTrip` goes from the end of a string to its beginning: if the blocks from
  every later position restore the rest (`Restores`), so do those from this one, since its
  block is followed by one of them (`RestoresStep`). `Descent` makes that a fact about all
  positions, as the absence of a least counterexample. `ParserInv` then ties what is still
  on the wire to what the parser has: between faults the buffer and the wire together are
  one encoded frame, so its delimiter completes it; after a fault it says nothing until a
  delimiter has emptied the buffer, an overrun included.

Only model-checked:

* everything temporal beyond invariants and action properties (`RequestResolves`,
  `RadioFollows`, `CockpitCatchesUp`, `AlarmsAreHeard`, `FlightIsAttended`, `ClientsLetGo`,
  `StationSettles`): fairness and ENABLED are out of the prover's reach;
* `SilenceReachesRadio` and the other documents' claims, which are false.

The library's induction theorems take an operator as a parameter, which the provers cannot
instantiate. Where a proof needs an induction over data, as for COBS and for the sums of the
number tracks, it argues about a least counterexample or over a bounded length instead.

## Disagreements between code and documents

Six runs show what a document or comment says and TLC finds violated by the code:

| Run | Said | Done |
|---|---|---|
| `chain_silence_doc` | `SAFETY.md:12-18`, `main.go:1360-1361`: a mixer that goes silent lets the RP2040 time out | heartbeats go on independently (`link.go:204`), so the firmware repeats the last channels |
| `flightlog_mark_doc` | `USER.md:610`: a failsafe marks the recording | not while the recovery view of an earlier one is open (`recovery.go:171`) |
| `modes_flight_doc` | `display.md:59`: FLIGHT means armed | the 30 s banner goroutine replaces FLIGHT after re-arming (`main.go:841`) |
| `announce_stop_doc` | `stack.go:86-87,138-139`: the old drain forwards until it is stopped | its select may still take queued events (`stack.go:97`), after the new stack's: the last word is the opposite of the latch |
| `netclass_memory_doc` | `netclass.go:16-17`: the daemon remembers the last setting across restarts | a class declared again while it is being written, or after that failed, is answered with success and not written (`netclass.go:129`) |
| `ready_stale_doc` | `fc_ready.go:16`: a stale mode is not ready | while the joystick is lost the loop does not look (`main.go:1371`), and ready stays |

Noticed while reading and not kept as runs:

*The way to the aircraft*

* `link.go:349-351`: on a version mismatch the gate stays closed; the deadline opens it in
  legacy mode (`link.go:325`). `DrivenOnlyAfterVerdict` has both ways to a verdict.
* `docs/protocols/ipc.md:128` has HOLD end 600 ms after the last heartbeat; the two clocks
  of `state.c` add up to about 800 ms.
* `arm.go:145` says the oldest event is dropped; `emit` drops the newest.
* The checks that precede the refresh in the 50 Hz loop (`main.go:1347-1372`) leave the
  throttle that the arm machine has cached stale without a model or joystick, as they do the
  readiness.
* `protocol.h:70-72` and `main.c:130-131` read as if the latest model always won its slots;
  of two overlapping pushes the stale one can.
* `input_arm.h:19-20` speaks of a level held for the debounce time; two polls that far apart
  suffice. The boot report is sent once only (`input_arm.c:73`), not repeated.
* A fresh daemon's first heartbeat revives the channels of an earlier run (`state.c:52`);
  `SAFETY.md:70,76-77` reads otherwise.
* `mapper.go:9-11` says mixes to one channel accumulate; the later overwrites. `:70-72` says
  functions see the previous tick; they see the new outputs. `:49-51` promises fail-safe
  values; an unresolved throttle on channel 0 goes to the middle.
* `engine.go:10`: all defined switches are evaluated, and `edgetx_types.go:15-18`: their
  numbers are sometimes sparse; a switch or function whose number is not below the count of
  entries never runs (`engine.go:47`, `cf.go:92`).
* A custom function whose sound was dropped counts as triggered. The resolver is built
  without telemetry (`stack.go:74`).
* `USER.md:248` has the arm gate look at the throttle stick; it looks at the channel after
  the overrides.
* A controller pulled out between `JoystickOpen` and `registerReader` stays "connected"; one
  replugged between an API open and its swap is never reattached; reattaching may replace a
  controller selected in flight (`main.go:1234-1236`, `joystick_holder.go:22-25`). A
  reattachment that gets an empty GUID or fails to open is logged and not tried again
  (`main.go:1212-1215,1236-1240`): `Controllers` has it as `AddedInVain`.

*A flight and its record*

* After a working database that could not be reopened the next `OnDisarm` dereferences nil,
  where `recorder.go:324-325` promises a silent no-op. `FlightLog` has it as `Panic`.
* `PreserveCurrentSession` without a session leaves its mark for the next flight
  (`recorder.go:586-590`); a failed save keeps the flag as well.
* `VACUUM INTO` copies the whole working database, rows from before the arming included.
* `flight_events.go` says that `SetArmed` runs on the goroutine of `Tick`; it runs on the
  drain. The speed told as average is the maximum; the weakest link is taken as a maximum of
  negative dBm; `checkMode` does not look at staleness; numbers from 10100 have no track.
* A panel that restarts sends READY, which the daemon only logs (`main.go:706-712`);
  `display.md:259-261,281` describes a resynchronisation. The display transport is not
  closed after its driver ends (`manager.go:47-48` says it is).
* `display.md:133-134`, `display.go:297-298`: clearing an alarm restores the mode; the
  firmware stays on ALARM and the driver does not repeat the mode (`main.cpp:894`).
  `PanelFollowsMode` names it.
* `wxalerts.go:40-41`, `display.md:121-122`: the alert in `ledShown` is displayed, and
  replaces the mode until it is cleared; the panel draws by its mode alone
  (`main.cpp:1059`), so a MODE line takes the screen, and the projection does not fire the
  alert again. `AlertIsShown` names it (`unseen`).
* DISARM DENIED and ARM KEY UP alarms are never cleared and take the FLIGHT screen.
  `wxalerts.go:30-32` says no other path fires alarms; `main.go:2609` does. The LED alarm
  stays while there is no weather (`wxalerts.go:24-26`).

*Telemetry*

* Unloading a model does not reset the cell count (`main.go:261-264`); `SetHome` takes any
  GPS frame ever received; home stays across flights; an RSSI of 128 and above wraps.

*Voice*

* A warning goroutine that was superseded and then reaches its cap deletes the newer alarm
  of the same name. `Play` or a repeat racing `Close` sends on a closed channel
  (`audio.go:630`); `AudioPlayer` has it as `crashed`. `Close` says pending events are
  discarded; the worker plays them.
* A Piper that died by itself is not respawned, against the comments of `ensureRunning`.
* A configuration saved with an empty interval is `"0s"`, which the loader rejects as a
  whole; saved empty fields are overridden by the flags (`narrate_config.go:11-12`). The
  first report may come right after arming and count from the zero time (`main.go:486-488`).

*Weather*

* Cache files are loaded under the key of the answer, not of the request (`cache.go:61`): a
  place's own entry is lost by a restart, where `cache.go:12-14` says it survives. An older
  fetch that ends later overwrites a newer one.

*Boards and clients*

* `-iohub-port=log` writes `[iohub] SET …` lines, and a VFD that failed answers
  `! vfd.0 not-initialized` to each line: `FormatLine` skips neither, and the firehose shows
  its own echo (`firehose.go:106-110`, `ARCHITECTURE.md:258`). `IoHub` has both, and
  `FirehoseSettles` asks for a serial port and a VFD that works in the end.
* `baseline.go:42-46` reads as if the settle time were enforced for every device; the
  comparison runs once. A client added to the WebSocket hub after it closed stays.
* `nmea.go:12-17` has read failures non-fatal; the run ends for good on one, on the end of
  the file and on an over-long line, and the last fix stays published. The status V of an
  RMC is ignored.

*Maps and network*

* The flag's help says an empty path is Home, and the holder starts Offline;
  after an unreadable file it never persists again. `BUILDER.md:4422` says weather and tee
  depend on the class; only the warmer does, and looks at it at the start of a pass only.
* The downloader's rate once lowered below 1 does not return (`main.go:391-405`); it
  converts though errors were counted; it asks again for tiles that are not there.
* `maptiles.go:352` takes an error of `io.Copy` for a client that closed; it is also an
  upstream body that broke off or took more than ten seconds, and the browser keeps the
  first part for a week as a complete answer (349). `ServedIsWhole` excepts the online proxy
  for it.
* The warm directory is served before a newer archive; a home set after boot is warmed a day
  later.
* `geo`: its box of 0.2° is narrower than the 15 km it looks for above 47° of latitude.

## Not modelled

`PROJECT.json` lists every part with the reason. In short:

* *Translation without state*: decoding and validation of model files, telemetry decoding
  beyond what others depend on, wording, rendering, routing and encoding of the API.
  Geography and astronomy are formulae in floating point over tables.
* *Off the path*: the firmware of the I/O board and of the antenna tracker (a byte bridge
  after the UART where the models end), the simulator bridge, the bench and command line
  tools.
* *Left out of modelled parts*: LCD, servo and panel-file clients; the greeting at boot and
  the spoken preflight check; the adaptive rate of the downloader; a display transport whose
  writes fail while its read hangs, so that `Run` waits for the receiver (`display.go:229`).

## What is left

1. A composition of `PanelInput` and `ArmMachine` through the serial line: an ARMED machine
   has seen one request and one press since its last disarm.
2. Half-dead transports in `DisplayLink`; the brightness and threshold lines that share its
   queue.
