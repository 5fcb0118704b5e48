# Pollux'NZ City in TLA+

TLA+ modules, TLC configurations and TLAPS proofs about the air quality
measuring network of this repository.

## The system

```
 browser -- configuration tool -- files in /etc/pollux --> gateway process --> Python plugins --> data stores
                  |  systemctl restart                       |  serial port
                  +-----> service manager, parent process  XBee  ~~~ radio ~~~  XBee
                                                                                 |  serial line, pin DIO0
                                                                      firmware of a sensor module
                                                                                 |  I2C
                                                                           sensor boards
```

A *round*: the gateway raises the pin DIO0 of a module's XBee, the module wakes
up and says `CMD_INIT`; the gateway answers each frame of the module with the
next `CMD_MEAS`, one per board; the module measures and sends one result per
sensor; after the last one the gateway sends `CMD_HALT`, the module confirms, the
gateway lowers the pin and pushes the values.

| Component | State it keeps | Operations | Talks to |
|---|---|---|---|
| **Polling process** (`PolluxGateway/src/pollux/pollux_observer.C`, `pollux_prober.C`) | `sensors_ordered_map`, `sensors_map`, `module_iterator_map`, `current_sensor_it`, `values_list` | `run` (a frame came), `wake_up` (poll timed out), `next_module`, `next_measure`, `store_measure`, `push_data` | XBee link, plugins |
| **XBee link of the gateway** (`src/xbee`, `src/beaglebone/beagle_serial.C`) | frame identifier, bytes in the serial port | `poll`, `send`, `recv`, `rcpt_frame` | radio |
| **Firmware of a module** (`PolluxWakeupduino`) | place in `loop()`, loop variables of `wait_for_command`, `_halt`, `_self_halt`, the `i2c_result` | drain, `send_wake_up`, `wait_for_command`, `do_measure`, `halt` | its XBee, boards |
| **Sensor boards** (`PolluxSensor*`: `sensor_meas`, `TinyWire`) | measure counter, ring buffers, `currentRegister`, `overflowState`, `last`, `type` | two interrupt handlers, `_on_request_handler`, `sensor_meas` | I2C bus |
| **Configurator** (`pollux_configurator.C`) | configuration, data stores, tables of sensors | four loaders | JSON files |
| **Data stores** (`pollux_extension.C`, `extensions/datastores/*.py`) | none between pushes | `push_to_datastore` | Internet |
| **Calibrator** (`pollux_calibrator.C`) | as the prober | another `push_data` | plugins |
| **Supervision** (`signal_handler.h`, `conf/pollux_gateway.service`) | parent and child process, the unit | fork, wait, exit, restart | gateway process |
| **Configuration tool** (`PolluxConfig/pollux/pollux_config.py`) | the maps of the files in memory, `is_modified`, `parse_error` | request handlers in threads, store, reload, restart the service | JSON files, service manager |
| **Scripts of its pages** (`static/js`: `geoloc_osm.js`, `custom.js`, `bootstrap.js`) | the geolocalisation form, the alerts, one object per widget | clicks, timers, ends of CSS transitions, answers to look-ups | configuration tool |

The rest is presentation (`deansi.py`, templates, style sheets, a vendored
`OpenLayers.js` no template loads), vendored arithmetic (`Statistic`), LED and pin
files, packaging and schematics: no behaviour of the network depends on it.

### What is hard

* **Counts on three sides.** A result names its sensor by a number the firmware
  counts. The gateway turns it into a name by rank among the activated sensors.
  What was measured is decided by a counter on the board, which survives rounds.
  Nothing synchronises the three. *Correct: a value is stored under the name of
  the sensor that made it.*
* **An iterator per module moved by any frame.** `next_measure` is called on each
  frame, calls itself, and leaves iterator, `meas_idx` and `stop` in a handful of
  combinations. *Correct: every board is asked, once, before the module halts, and
  no frame makes it read through an iterator it must not.*
* **Lost frames and two time-outs.** The gateway acts on frames only; the firmware
  gives up after five seconds. *Correct: a lost frame costs a round, not the system.*
* **Restarts in the middle of a round.** The modules know nothing of them.
* **One packet after each transmission.** The firmware takes it for the status of
  the transmission, whatever it is.
* **A measure inside an interrupt.** The board measures (up to 100 s) while it
  holds the I2C clock low, keeps a register between transfers, and hands its
  result over byte by byte through a hand-made ring buffer. *Correct: the bytes
  sent are those of the measure made for this command.*
* **Failures in part.** One data store of several, one opening of a configuration
  file of several, a child process whose parent hides the crash from the service
  manager, a save of which each step may fail. *Correct: what fails keeps nothing
  from the others, and is noticed.* (A plugin does keep its error in the interpreter
  for the next one.)
* **A file written in place by threads that share its maps**, while a gateway
  starts on it. *Correct: what was asked for last is what the file holds, and a
  gateway never runs with half of it.*
* **Frames without escapes on a line that loses bytes**, read into a fixed buffer by a
  length nobody checks. *Correct: what is left of a damaged frame never swallows the
  one behind the next pause.* (It may end the receiver, see below.)
* **Widgets driven by events nobody orders**: clicks, timers, transition ends (which
  some browsers never report) and answers. *Correct: each ends up as its last call
  says*, if the calls leave it the time; several do not otherwise, and the hazards in
  `PROJECT.json` say which.

`PROJECT.json` lists these hazards at their lines, with the properties that
cover them, or why none does.

## Modules

| Module | Models | Checked by |
|---|---|---|
| `Network` | the names gateway and modules share: modules, board addresses | (part of the next) |
| `Gateway` | the polling process under any frames | `MCGateway`, `GatewayProofs` |
| `Polling` | what that process promises, without iterators or frames; `Gateway` refines it | `MCGateway`, `PollingProofs` |
| `Wakeupduino` | the firmware, its XBee, and the measure counters of its boards | (part of the two below) |
| `SensorModule` | `Wakeupduino` under any gateway | `MCSensorModule`, `SensorModuleProofs` |
| `MeasureRound` | `Gateway` and `Wakeupduino` over the radio | `MCRound`, `RoundProofs`, `RoundCompleteProofs` |
| `Buffer`, `BoardBus` | the ring buffer of `TinyWire/buffer.h`; `do_measure` and the interrupts of one board | `MCBoardBus`, `BoardBusProofs` |
| `Readout` | what one `do_measure` promises, without the bus; `BoardBus` refines it | `MCBoardBus`, `BoardBusProofs` |
| `WebConfig` | `config.json` under the threads of the configuration tool | (part of the next) |
| `GatewayStart` | the service: parent, child that loads the file, unit, restart by the tool | `MCServices`, `ServicesProofs` |
| `XBeeLink` | the receiver of the serial port, byte by byte | `MCServices`, `ServicesProofs` |
| `Datastores` | the loop of `push_data` and the plugins' answers, for gateway and calibrator | `MCServices`, `ServicesProofs` |
| `Transition` | whether the browser has CSS transitions | (part of all below) |
| `Alerts`, `Geoloc` | the alerts of a page (`alert` plugin, `custom.js`) and the geolocalisation form of the datastores page | `MCFrontend`, `FrontendProofs` |
| `Collapse`, `Carousel`, `Button`, `Dropdown` | these plugins of `bootstrap.js` | `MCFrontend`, `FrontendProofs` |
| `Modal`, `Tooltip` (and popover), `Tab`, `ScrollSpy`, `Typeahead` | these plugins | `MCFrontend`, `FrontendProofs` |

A definition named `X_Something` next to a definition `X` is a plausible mistake in
`X`, kept to show that the property named beside it in `PROJECT.json` notices it.

**Gateway.** The process has one thread, so an action is a whole handler:
`RecvInit`, `RecvMeas`, `RecvHalt`, `RecvOther` are the cases of
`Pollux_observer::run`, `WakeUp` is `wake_up` from `begin()` and from a poll that
timed out, `Restart` and `BeginFails` are `main`. `next_measure` is one operator
per way out (`HaltAtEnd`, `AskSingle`, `AskSeveral`, `SkipMeasure`, `LastSkip`).
Vectors are sequences, iterators positions, the null pointer is 0; reading
through a null or past-the-end iterator makes `proc` "crashed". The order of the
hash table is any order. `Configs` is the set of tables `load_sensors` may have
built; `LoadOutcomes` has its double `free`, after which the process may abort.
`sent` and `pushed` hold what the last step sent and pushed. `asked` is a history
variable.

**Polling.** State of the abstract process: the boards of each module that are
still to ask, and the values still to push. A frame is answered by asking one of
those boards, by sending the module to sleep when there are none, or not at all; a
push hands over everything stored since the last one. `KeepsPolling` maps
`Gateway` onto it: the boards to ask are those configured minus `asked`, requests
are read off `sent`.

**Wakeupduino.** `fw[n].pc` is the call `loop()` of module `n` is in; each step
ends where the code waits for the radio, a board or a timer. `Transmit` and the
read of the status are two steps, since a packet may slip in between. A measure
is the pair of board and counter value, so a result carries what was really
measured. What DIO0 does is outside the sources; both readings (it cuts the power
of the module, or nothing happens) are values of `PowerSwitched`.

**MeasureRound.** Frames travel in FIFO order per module and direction (the
delivery of ZigBee unicast) and may be lost. `Timely` is the schedule the code's
constants aim at: a transmission is reported before it is answered, a timer runs
out only if nothing is under way, `wud_sleep_time` is longer than a round.
Without it timers run out at any time. Both are checked.

**BoardBus.** A step is one interrupt (`StartCondition` and one action per case
of the overflow handler); `Measure`, `Write`, `MeasureReturns` are the callback
it runs. Master and board move in lockstep, as the board stretches the clock.
`BreaksOff` ends a transfer at any bit but those during which the clock is held;
the board then stays where it is. `pc` names the eight transfers of `do_measure`.
Arduino's Wire library is outside the sources: a write tells whether it was
acknowledged, a read returns the bytes it got. For `requestFrom` of 0 bytes it
counts down from 256, which is modelled as a read of more bytes than the buffer
holds, none kept; if it did not touch the bus instead, a board spoiled at that
point would stay so until the next complete readout. `type` and the length are
modelled as bytes: as signed `char` they differ in values no branch tells apart.

**Readout.** State: the measure the board makes next, how the call has ended, what
it sent, and how many calls a broken transfer may still spoil. A call succeeds, is
refused (nothing sent, the board not moved) or is garbled (a fault in it or in the
call before; the board moved or not, anything sent). These are the steps
`MeasureSucceeds`, `MeasureRefused` and `MeasureGarbled` of `Wakeupduino`, whose
`MaxGlitches` therefore counts two for each broken transfer. `KeepsReadout` maps
`BoardBus` onto it: while a call runs, the abstract counter is where the call found
it (`CounterOfCall`); what is sent is decoded from the `i2c_result` as
`send_results` does it (`Sent`).

**WebConfig.** flup serves each request in a thread. `pc[t]` is where thread `t` is in
its handler: applying a form key by key to the map it holds (`ApplyKey`), `store_json`
as three steps (opening truncates the file, the dump reads the current map, closing
writes), and the wrapper every route has, which saves again what any thread has
modified. Each step of a save may fail (`SaveFails`: the file cannot be opened, the maps
cannot be dumped, so that the file is left without a document, the disk is full): the
request ends with an error, the maps stay changed and `modified` stays set, so that the
next request saves again; only `upload_module`, which sets no flag and catches all
exceptions, leaves it at that (`unsaved`). A file cut off in the middle counts as one
without a document. A form with a key the maps do not have breaks off half applied
(`FormBreaksOff`). Values are records of the activated stores and two coordinates; the
text of a file is whole, empty, or a document with the end of a longer one behind it.

**GatewayStart.** The child opens `config.json` three times (`LoadSection`); the
parser of the gateway takes a document with garbage behind it and fails on an
empty one. The parent reports a child that failed by `exit(1)`, which is no abort
for the unit's `Restart=on-abort`, so the unit fails; `restart_service` of the tool
starts it anew and reports success whatever becomes of the child.

**XBeeLink.** A byte is its frame and its place there. Nothing is escaped, so data
may look like a delimiter (`Lookalike`). While the bytes come as sent, the receiver
follows the frame (`last`); one that does not belong may be taken for a length, a type
or a part of a name, so the frame goes on for any number of bytes (`misread`, at most
`MaxRead`, which stands for what the buffer holds) or leads the receiver out of its
buffer or into a loop that does not end (`overrun`: the loops over the payload count
in 8 bits up to a 16-bit length, `xbee_communicator.C:178,195,219`, and a node's name
ends with a 0 only, `:252`). The port does not block: an empty one reads as 0xFF. The
receiver pauses ten times as long as a byte takes on the line, so it never overtakes a
frame that is arriving, and finds the port empty only behind one (`InFrame`, `Drains`).
`alone` are the frames that found it with nothing left to do.

**Datastores.** `Push` is one turn of the loop over the data stores; a plugin
answers 1, -1, `None`, raises, or is not there. `pachube.py` returns `None` for a
success, which counts as a failure. A failed import and `PyInt_AsLong(None)` leave a
Python error set (`pending`), by which any plugin in the turns after may miss its call
or raise, until something clears it; whether it does depends on what that plugin
executes, so both are allowed. The calibrator is the gateway's program line
by line but for this loop: it clears the values in the first turn, so every store
behind the first activated one is called with an empty list, and it takes the 0 of
a plugin that raised or is missing for the success. (`pollux_calibrator.h:64` says
"Processes and sends data to all enabled datastores"; `EachGetsEachRound` states
what each program does.)

**The scripts.** One action per handler: a call of the plugin, a click, a timer, the end
of a transition. Where the plugin chooses by `$.support.transition`, the model does by
`support`. Handlers that a call binds and nothing unbinds are sets of pending handlers,
since that is where these widgets go wrong. Positions, texts and styles are left out,
except an element's being in the page, its class `in` or `active`, and whether it has
height. Where jQuery is called with what is not there the model does what version 1.7.2
does: without transitions `one(undefined, fn)` binds nothing, so a carousel without the
class `slide` stays sliding for good (`Slide`); a panel that the accordion hides by the
call that makes its object is hidden twice, and without transitions stays on the screen
(`Flat`, `evicted`); a typed text that is no regular expression (`Broken`) raises in the
look-up and leaves the menu as it was. In `Dropdown` a click is the sequence of its
handlers on the way from the toggle to the document. The pages load the minified copy of
`bootstrap.js` (`base.tpl:11`); they use `alert` and `collapse` (navigation bar,
accordion of `sensors.tpl`) and, on the datastores page, `geoloc_osm.js`; `custom.js` is
on every page. The other plugins ship with them.

`MCFrontend` and `MCServices` put components side by side that share nothing (but
`support`): a behaviour runs one of them and leaves the others at rest. They save
one configuration per part and add no interleavings.

## Runs

| Run | Shows | Bounds |
|---|---|---|
| `gateway` | under any frames in any order and any restarts: `next_measure` keeps its place (`IteratorsCover`, `NothingAskedAhead`), a module halts only after all its boards were asked, no board is asked twice in a pass; while one module is configured, no frame of it or of a stranger makes the process read through a bad iterator (`NeverCrashes`); the process implements `Polling` (`KeepsPolling`) | the shipped sensor list in full, as shipped, and single sensors only; no, one or two modules; frames from any address, board and register |
| `gateway_touching_boards` (violated) | two boards with several sensors side by side: the second is asked twice | the shipped list without the dust sensor |
| `sensor_module` | commands at any time: the boards' counters keep step with the measure loop, results leave under their own number | one module, three boards of which one is missing, queues of 2, one failed measure |
| `board_bus` | the ring buffer is a queue; a board measures at most once per `do_measure`; a result is the truth if no transfer broke off in this `do_measure` and the one before; transfers and interrupts implement `Readout` (`KeepsReadout`) | two measures (an int, a float), two readings of each, buffer of 6, three broken transfers |
| `board_stale_register` (violated) | a transfer broken off in one `do_measure` spoils the next one, in which nothing fails | one broken transfer |
| `round` | undisturbed, each push hands over exactly one value of every activated sensor of the module and none of another; after a lost frame, failed measures and a restart, values are pushed again and again | two modules undisturbed; one module with every fault: one lost frame, two failed measures, one restart, each at any point, a board with several sensors first or last |
| `round_untimely` | timers that run out at any time, a restart at any point: no value is stored under another sensor's name | one module, queues of 3, store of 2, one restart; losses are left to the theorem `LabelsAreRight` |
| `round_partial_board` (violated) | the fan of the environment board deactivated: what the board's fan returns is stored under the noise level's name | one module |
| `round_dead_board` (violated, under fairness) | a configured board that does not answer: nothing is ever pushed | one module |
| `round_restart` (violated) | a restart in the middle of a round: the module's next frame crashes the gateway | two modules |
| `services` | changes that do not meet leave the maps, and a whole file unless a save failed, with what was asked for last, and no change waits unsaved without a failure (`SavedWhole`); a gateway runs with what the file held, never with half a form (`RunsAsSaved`), and a start ends in polling or in a unit that visibly failed (`StartIsDecided`); without losses the receiver delivers every frame, and after them each whole frame that it was ready for, unless it was led out of its buffer (`LinkDelivers`); each store gets each round in order, and all of them while no plugin leaves an error behind (`EachGetsEachRound`) | two threads, two requests, two loaded maps, one crash, one failed save; frames of six bytes, three of them, two lost bytes, misread frames of up to eight; three stores, two rounds |
| `frontend` | with and without transitions: the locked form is of one place, an error told after the fade stays, accordion, carousel and menus never show two, a click counts once, and each widget whose calls left it the time ends up as its last call says | two alerts, two addresses, two look-ups under way; three panels, items, panes, sections, menus; two toggles; six calls of the dialog, two timers of a kind |

The violated properties are statements of the repository (a comment or the
README, quoted under "findings" in `PROJECT.json`) that the code does not keep.

**Why the bounds are enough.** `next_measure` tells three kinds of boards apart
(one sensor; several, none of them last in the vector; several, last) and a
vector may be empty: the layouts have each of them first, in the middle and last.
Modules share `values_list`, `current_sensor_it` and the hash table only: two
suffice for one to disturb another. A module has one command under way, one
status due and one answer to it, so three or four places in a queue are never
full under `Timely`; without it the queue bound also stands for the buffer of the
serial line. `MaxValues` is above a round's values in each run that must make
progress. `Round.cfg` has an action constraint, `FaultsOnlyAlone`: faults happen
only while one module is configured, before and after the step. With two modules a
restart crashes the gateway (`round_restart`) and a round that broke off has its
values pushed with the other module's, so `RoundComplete` and `PushesOwnValues`
are stated of undisturbed behaviours, which is what the constraint leaves there. A broken
transfer spoils at most the measure it is in and the next one (`ReadoutTrue`), so
two failed measures are the whole of one fault; three broken transfers allow a
fault, a fault in its aftermath and one later. The ring buffer matters at empty,
one byte, and two to four bytes; a size of 6 leaves the distance of two to "full"
that 32 leaves at large, and the proofs hold for all sizes from 5 to 255. A board
clears the buffer before each measure and writes at most four bytes, so it never
wraps; wrapped or full it would misbehave (`size()` reads a wrapped buffer as
empty).

Two requests are what it takes to meet; a third adds no new pair. A frame has one
byte more than delimiter, length, type and checksum need, and that one looks like
a delimiter; a misread frame may be longer than a frame and what is left of the one
before; three frames are one that is damaged, one that meets its remains,
and one after them. Three panels, items or panes are one that is active, one that
is to be, and one that must not be. Six calls of the dialog are show, hide, show
with their backdrops and timers before any of them ends.

**Deadlock** is checked except where a run may really stop: two modules may abort
the loader (`LoadOutcomes`), a crashed gateway stays down, small queues may
fill without `Timely`, and requests, frames, rounds and calls are bounded in
`services` and `frontend`.

**Fairness.** Of the rounds (`round`, `round_dead_board`): weak fairness of each
module's own steps (`loop()` runs for ever on a processor of its own), of its
time-outs (they are loops on `millis()`), of the radio's deliveries and status
reports (the XBee retries and then reports), of the gateway's reads (`main` polls
for ever) and of its wake-ups (the poll time-out). None for losses, failed measures
and restarts, and none stronger than weak. `PowerSwitched = FALSE` gives the same
results for `RoundComplete` and `PushedAgain`; the configurations use TRUE. Of the
service (`StartIsDecided`): the child goes on loading and the parent returns from
`wait`, since the system schedules a process that can run. Of the dialog
(`ModalHides`): its timers run out; the end of a transition is never assumed, as
the timer is there because browsers may not report it.

## Proofs

Proved with TLAPS for every value of the constants that meets the named
assumptions (`ASSUME` in the modules; TLC evaluates them in the runs).

* **GatewayProofs**: `TypeCorrect`, `IteratorsKeepPlace`, `HaltsAfterAllAsked`,
  `AsksOnce`, `OneModuleNeverCrashes`. Type correctness is inductive alone and
  already says that `meas_idx` never passes `stop`. `OneModuleNeverCrashes` adds
  that the first module woken is the only one with sensors, so that its iterator is
  set before the first frame is handled. `IteratorsCover` is inductive
  with it if the sensors of a board are side by side (`AllContiguous`): inside a
  board, the iterator is `meas_idx` sensors behind the board's first, so leaving
  the board at `meas_idx = stop` cannot leave part of it behind.
  `NoBoardAskedTwice` needs, besides, that no two boards with several sensors touch
  (`AllSpaced`); without that it is false, which is the violated run.
* **PollingProofs**: `AsksNothingAhead` under the same two assumptions, and from it
  `GatewayKeepsPolling`: each handler, with its request or halt, is a step of
  `Polling` or none. The board a handler asks is one of those still to ask because
  nothing behind the iterator was asked ahead; a halt finds none left because the
  iterator has covered them all.
* **SensorModuleProofs**: `ModuleTypeCorrect`, and for a gateway that has all
  sensors of each board activated (`AllActivated`) `CountersKeepStep` and
  `ResultsAreTrue`. The counter of a board agrees with the firmware's loop only
  because every loop on its way covers its board exactly: `WholeBoards` (queued
  commands and the running loop) is the strengthening.
* **RoundProofs**: `RoundTypeCorrect` and `LabelsAreRight`, for any number of
  modules and boards, any losses and restarts, and any timing. The invariant joins
  those of the two parts by what is on the air between them: every command the
  gateway sends covers a whole board (`WholeAir`), so the module's `WholeBoards`
  stays true, so each result carries the number of the sensor that made it, and the
  rank by which the gateway looks it up is that number. It assumes what makes rank
  and number agree: each board configured has all its sensors activated
  (`AllActivated`), listed in the order of their registers (`InOrder`), and no
  transfer on a board fails (`MaxGlitches = 0`). `round_partial_board` is what
  happens without the first. `WideTypes` makes the gateway's sets of registers and
  values cover what modules send.
* **BoardBusProofs**: `BoardTypeCorrect`, `BufferIsAQueue`, `BoardMeasuresOnce`,
  `ReadoutIsTrue`, and the refinement `BoardKeepsReadout`, for every buffer size, set
  of readings and number of faults. The invariant has six parts: types; where master and board
  stand in a transfer (`BusInv`); the buffer as the bytes written and not popped
  (`QueueInv`); `CMD_MEAS` is the board's register only around the reply to it
  (`CommandInv`); in an undisturbed `do_measure` the board's register is the
  master's, one left behind being gone after the first transfer (`RegisterInv`);
  and what of the measure has arrived where (`DataInv`). `RegisterInv` is why one
  undisturbed `do_measure` is needed after a fault before the next is the truth. The
  refinement adds that what the board made for this call is a reading of the measure
  its counter stood at (`MadeInv`); inside a call every interrupt is a stutter.
* **RoundCompleteProofs**: `RoundsAreComplete` and `PushesAreOwn`, for any number of
  modules and any layout. The invariant says where an undisturbed round can be
  (`InRound`: waking, announced, commanded, answering, closing, halting, reported,
  asleep) and in each place what gateway, air, inbox and firmware hold at once; with
  it goes a count: after result `r` of board `b`, `values_list` holds one value of each
  sensor of the boards asked before and of the first `r` of `b` (`Heard`, `OneEach`).
  One lemma per place shows what a step makes of it; the other modules sleep
  meanwhile (`OthersSleep`). Assumed: the tables name the same sensors
  (`TablesAgree`: `load_sensors` fills both in one loop), boards lie side by side and
  those with several sensors do not touch (else `gateway_touching_boards`), every
  configured board is on the bus (else `round_dead_board`), DIO0 switches the
  module's power, and the schedule is `Timely`. "Undisturbed" excludes losses,
  failed transfers and restarts; `LabelsAreRight` covers those.
* **ServicesProofs**, for any numbers of threads, maps, requests, crashes, bytes, lost
  bytes, stores and rounds.
  `ConfigurationIsSaved`: while the requests do not meet, a thread that applies a form
  is alone with the shared map and that map lacks just the keys left to apply; at any
  other time the map is what is wanted, and the file holds it, or a thread will open or
  write it, or a failed save is still to be repeated. With `ModifiedIsSeen` (a raised
  `is_modified` has a thread that comes to the wrapper, or a failure behind it) nothing
  but failures is left over once all are idle.
  `GatewayRunsAsSaved`: what a child has loaded is what the file held at its start, if no
  write crossed it (`LoadedFound`), and else of versions asked for (`LoadedVersions`).
  `ReceiverDelivers`: what was read lies before what is to come, and a frame that found
  the receiver with nothing left to do is read in step with its bytes until it is
  delivered; without losses that is so of every frame.
  `DatastoresGetRounds`: within a round each store is given what the loop has left of
  the values (`ListOfThisRound`), and what was given before stays (`ListOfAllRounds`).
  `ServicesKeepTypes` is of all of them side by side.
* **FrontendProofs**: first what must never happen, `FormLocksOnePlace`,
  `ToldErrorStays`, `AccordionOpensOne`, `CarouselShowsOne`, `MenusCountClicks`, for any
  numbers of alerts, addresses, questions, panels, items, intervals and menus. The form
  is locked only by a handler that fills both fields at once. An error told is shown
  after the one fade, and nothing but a close takes it away. Objects without a parent
  never outlive the call that made them (`CollapseInv`), which is why an accordion
  closes its open panel each time. A slide has one handler waiting at most, for the only
  active item (`CarouselInv`). A click that is still on its way has changed nothing
  (`ClickUnderWay`). Then where each widget comes to rest: `ButtonComesToRest` (the last
  turn due is the last state's, and the text kept is the first), `PanelsComeToRest` (a
  panel moves towards what its last call said, or is there), `TipComesToRest` (with no
  timer waiting a tip is as `hoverState` says, and that, with equal delays, is as the
  mouse is), `DialogComesToRest` (a dialog is hidden, comes, is there, fades or goes;
  each phase has its handlers and backdrops), `TabShowsItsPane` (one pane rests, leaves
  or comes, and it is the tab's), `SpyFollowsScroll` (the walk over the offsets from the
  end leaves the last section scrolled past, at a boundary perhaps the one before),
  `MenuIsServed` (the menu holds the first of the items in the order of their ranks, of
  its query or of one before). `LeastNumber`, that a set of numbers has a least one,
  stands in for induction over the offsets; `ItemsAt` lists the items of a rank by their
  places in the source, so that the order the sorter makes is a statement about
  positions (`PlacesCounted`, `SortedRanks`). `WidgetsKeepTypes` is of all of them.

Only model-checked: liveness (`PushedAgain`, `StartIsDecided`, `ModalHides`), which
the prover does not do. Every invariant and action property of the passing runs is
a theorem.

## Not modelled

* **Calibration of the timings**: the 16-bit `int t` against `millis()` in `Pollux()`;
  the drain lasts any time here, which includes what the comparison makes of it.
* **Frame identifiers** of the XBee: no reader of this code compares them.
* **The sensors file and `post_advanced`** of the tool: the same code path as
  `config.json` with another section. Uploaded plugins as files, the pages and the
  validation script are left out.
* **The order of keys** inside one section while it is loaded: a section is read from
  one document.
* **`-s`**, which does not fork and leaves the gateway without a parent, and the
  change of user.
* **A plugin without the function** `push_to_datastore`, and reference counts in
  `PolluxExtension`, which releases a borrowed dictionary there: a state of the Python
  interpreter.
* **What an overrun of the receiver's buffer does** to the rest of the process: the
  model knows only that it happened.
* **Widgets hurried**: what a dialog, a tab or an alert comes to when it is called again
  before its transition ends is in the models, but their properties leave it out
  (hazards without properties).
* **What plugins do** with their list (HTTP posts, a line in a file).
* **Signal processing** on the boards, the `Statistic` library (floating point), LEDs
  and pins, formatting and console output, the log viewer, templates and styles,
  `OpenLayers.js` (vendored, minified, loaded by no template), packaging.

Three things found while reading are no runs. `conf/sensors.json` calls register 0 of
the board at 0x28 `NO2` and register 1 `CO`, while `PolluxSensorSensoric.ino` measures
CO first and NO2 second (so `round_partial_board` uses another board). A late answer to
a look-up locks the form again after a reset, with a place nobody asked for last:
`LockedTogether` says only that it is one place. The calibrator's `push_data` serves the
first activated data store only, and shows its success and failure the wrong way round
(see `Datastores`).

## Running

```
tlc -config Gateway.cfg MCGateway.tla        # likewise the other runs of PROJECT.json
tlapm GatewayProofs.tla                      # likewise the other *Proofs modules
```

`board_bus`, `round`, `round_untimely`, `services` and `frontend` take a minute or two each,
`SensorModuleProofs` seconds, the other proof modules one to three minutes each, all
else less.
