# IoT river monitoring: models, checks and proofs

The repository holds the software of a river monitoring station: a mote
(`src/node1`, Contiki on a Zoul) that measures flow, temperature and water
level and talks MQTT to a broker, and the border routers that connect the motes
to the Internet (`src/border-router`: an embedded one, and a native one for a
Linux host with a slip-radio as its network interface).

This directory models the parts with a logic of their own in TLA+, checks them
with TLC on small instances, and proves the main safety properties and two
implementation results with TLAPS for every value of the constants.

1. [The system](#1-the-system)
2. [The modules](#2-the-modules)
3. [The runs](#3-the-runs)
4. [Where code and comments disagree](#4-where-code-and-comments-disagree)
5. [Fairness](#5-fairness)
6. [The proofs](#6-the-proofs)
7. [Abstractions and what is left out](#7-abstractions-and-what-is-left-out)
8. [The plan](#8-the-plan)

To repeat everything: `tlc -config X.cfg M` for the runs of section 3,
`tlapm M.tla` for the seven `*Proofs` modules and `Induction`.

## 1. The system

### Mote: MQTT state machine (`node1/node1.c`, `node1/add-on.c`, `add-on.h`)

*State.* `state` (INIT, REGISTERED, CONNECTING, CONNECTED, PUBLISHING,
DISCONNECTED, ERROR, CONFIG_ERROR), `connect_attempt` (8 bits), the event timer
`publish_periodic_timer`, the timer `connection_life`, the ctimer `ct`, the
values `ev_signals.val1..3` and the payload `app_buffer`; in the MQTT engine
`conn.state` and one packet that is queued or sent and not acknowledged.

*Operations.* `mqtt_demo_process` runs `state_machine()` on a timer event, on a
poll and on each sensor event; the engine calls back `mqtt_event`; the ctimer
calls `publish_led_off`.

*Interactions.* `state` is written by `state_machine()` and by the callback.
Sensor events carry the *address* of the sender's variable. `mqtt_publish` keeps
the address of `app_buffer` and sends later. All posts share one kernel queue,
which may be full; no post's result is looked at.

*Hard.* Callbacks between two runs, any event driving any state, attempts that
are counted from 1 at boot and from 0 later, a counter that wraps, timers set
again (or not) in every branch, commands and samples dropped by a full queue.

*Correct when* FSM and engine agree on the connection; the FSM never sleeps for
good; whoever publishes has subscribed; attempts are used up exactly; what is
published is the last sample, once a sensor has posted one; a buffer in use is
not written; lamps go out; the node gets back to its broker.

### Mote: water level and buzzer (`node1/node1.c`)

*State.* `lvl_counter` (16 bits), the buzzer's pin, and the lamps, which it shares:
the FSM lights the green one, its ctimer puts it out, the cloud switches the red
one, each whenever it likes. *Operations.*
`lvl_process` on a button event and on a long press, `buzzer_process` on a
command. *Hard.* Commands are queued behind other events or dropped; two
thresholds form a hysteresis; on the Zoul `LEDS_YELLOW` is the green and the red
lamp together, so the order of `leds_off` and `leds_on` decides what is lit; and
not every branch writes every lamp. *Correct when* the alarm follows the level, and
so does every lamp that nobody else has switched since.

### Mote: flow and temperature sensing

*State.* A sample each. *Operations.* Take a sample on a timer, post its
address. *Correct when* the receiver ends with the last sample (this is part of
the state machine's model); the conversion of readings is arithmetic.

### Mote: topics, payload and configuration (`node1/add-on.c`)

`update_config` builds identifiers and resets the FSM; `publish` formats JSON.
Formatting, except for what resets state and when `app_buffer` is written.

### Native router: output to the slip-radio (`native/host/slip-dev.c`)

*State.* `slip_buf` with `slip_begin`, `slip_packet_end`, `slip_end`, and
`send_delay_timer`. *Operations.* `write_to_slip` escapes a packet into the
buffer; the select loop calls `slip_flushbuf`, which writes what the device
takes. *Hard.* Partial writes while packets are appended; the end of the current
frame is kept by three pieces of code; overflow ends the program. *Correct when*
frames go out whole, in order, once, and the buffer drains.

### Native router: input from the slip-radio (`native/host/slip-dev.c`)

*State.* Static `inbuf` and `inbufptr` of `serial_input`, `slip_config_verbose`, the
rows of sensor data for the web page. *Operations.* Read byte by byte until the
input ends, unescape, tell packets from commands, debug lines and lines of text;
`!D` cuts sensor data into rows. *Hard.* A call ends anywhere, also behind an
escape, which is put back; the first byte of a call goes round the test for room;
SLIP has no checksum, so a lost byte merges frames or turns their end into data;
reports may look like lines of text; commands are told by their second byte also
when there is none, and the elements of sensor data are stored whatever their
length, in an array of rows of 32. *Correct when* every message that arrives whole
is handled as what it is, whatever happened before it, nothing is stored behind
the end of `inbuf`, no element is lost, and those that fit their rows are in them.

### Native router: RDC driver, commands and boot (`native/host/border-router-rdc.c`, `border-router-cmds.c`, `border-router.c`)

*State.* The ring `callbacks` with `callback_pos`; `mac_set`, `prefix_set`.
*Operations.* `send_packet` stores a callback under the next session id and sends
`!S`; `!R` reports call the callback; the boot process asks `?M` once a second
until `!M` comes, then sets prefix and RPL root. *Hard.* Slots are used again
whether or not their report came; frames get lost, or damaged so that a report
names another slot; reports come out of order; a late second `!M`. *Correct when* a
report reaches the callback of its own packet, and the router boots and stays root.

### Slip-radio on the mote (`native/node`)

*State.* The ring `packet_ids` with `packet_pos`; in its RDC driver, contikimac
(`node/project-conf.h:64`), the packets put off until their receiver wakes up.
*Operations.* `!S` keeps the session id in a slot and sends the packet with the
*address* of that slot; `packet_sent`, then or later, reports what is in the slot;
`?M` answers `!M`. *Hard.* Packets put off while others use the ring, and sent in any
order; reboots with packets unread; packets whose attributes cannot be read.
*Correct when* each report names the session id of its packet.

### Web server (`httpd-simple.c`, the same file in both routers)

*State.* A pool of two blocks, `conns`, each with two protothreads, a state and a
timer of 10 s. *Operations.* `httpd_appcall` on every event of uIP: a block for a
new connection, the request, the page piece by piece as it is acknowledged, the
timeout, the end. *Hard.* Connections overlap; uIP reports the end of a
connection once, twice or never. *Correct when* no two connections share a block,
none is lost, and pages end.

### Web page (`generate_routes` in either `border-router.c`)

*State.* Statics shared by all connections: `buf` and `blen`, the neighbour, the
route and the sensor the page has come to. *Hard.* Two pages at the same time
move each other's iterators and leave each other's `blen`; a row of sensors may be
longer than `buf`, and `snprintf` returns the length it would have needed.
*Correct when* nothing is formatted behind the end of `buf`, and a page that runs
alone is complete.

### Embedded border router (`border-router.c`, `slip-bridge.c`)

*State.* `prefix_set`, the radio, the root of the DAG. *Operations.* Turn the
radio off, ask `?P` once a second until `!P` comes, set prefix and root, turn it
on. *Hard.* Lost requests and answers, a restart, an answer to a request made
before it. *Correct when* the router comes up.

### The rest

* *Tun bridge and configuration*: system calls, arguments.
* *Scripts, bridge configuration, build files*: no state.

## 2. The modules

| module | what it is | modelled from |
| --- | --- | --- |
| `Platform` | the kernel's event queue and the lamps, as operators | Contiki, external |
| `MqttFsm` | the MQTT state machine, its event loop, its callbacks, the samples | `node1.c`, `add-on.c`, `add-on.h` |
| `BrokerLink` | abstract: a link that is attempted, up, served, lost, given up | promise of `MqttFsm` |
| `WaterLevel` | `lvl_process` and `buzzer_process` | `node1.c` |
| `SlipOutput` | escaping, the flat buffer, partial writes, the delay | `slip-dev.c` |
| `SlipQueue` | abstract: a queue of bytes written in order, a frame at a time | promise of `SlipOutput` |
| `SlipBytes` | the bytes of SLIP and escaping | `slip-dev.c`, `slip-net.c` |
| `SlipInput` | the radio's framing, a line that loses bytes, `serial_input`, the rows of sensor data in memory | `slip-dev.c`, `slip-net.c`, `slip-radio.c`, `border-router.c` (native) |
| `HostRadio` | RDC driver, boot, slip-radio with the packets it puts off, and the line between them | `border-router-rdc.c`, `border-router-cmds.c`, `border-router.c`, `slip-radio.c` |
| `WebServer` | `httpd_appcall` and its pool, the page of either router | `httpd-simple.c`, both `border-router.c` |
| `BorderRouter` | the boot of the embedded router, with the web server of either | `border-router.c`, `slip-bridge.c` |
| `MCMqttFsm`, `MCWaterLevel`, `MCSlipOutput`, `MCSlipInput`, `MCBorderRouter` | instances for TLC | |
| `MqttFsmProofs`, `WaterLevelProofs`, `SlipOutputProofs`, `SlipInputProofs`, `HostRadioProofs`, `BorderRouterProofs` | theorems and proofs | |
| `SlipBytesProofs` | what escaping makes of a packet of any length; facts about sequences put together piece by piece | |
| `Induction` | induction over numbers and over sequences, functions defined step by step, least numbers | |

`MqttFsm` and `WaterLevel` extend `Platform`; `MqttFsm` instantiates
`BrokerLink`, `SlipOutput` instantiates `SlipQueue`; `SlipOutput` and `SlipInput`
extend `SlipBytes`, `BorderRouter` extends `WebServer`. `HostRadio` composes its two
programs in one module: neither has a behaviour worth checking without the line.

How code becomes actions:

* **Atomicity.** Contiki preempts neither a protothread nor a callback, and both
  host programs are single threads: one action is one run to completion. A
  handler with all the calls it makes is one action (`HandleSignal` stores the
  value *and* runs the FSM; `WriteToSlip` queues the whole frame).
* **`MqttFsm`.** Each case and branch of `state_machine()` is an operator
  (`StepInit` ... `StepError`); `HandlePoll`, `HandleTimer` and `HandleSignal` run
  it. `BrokerAccepts`, `ConnectionLost`, `BrokerRefuses` and `BrokerPublishes` are
  the events of `mqtt_event`. `Off` as the interval of `etimer` means that it does
  not run. Time is abstract: a timer that runs may expire at any later moment, so
  every order of expiry and other events is covered.
* **`WaterLevel`.** `HandlePress`, `HandleRelease` and `HandleHold` are the
  branches of `lvl_process`, `HandleCommand` is `buzzer_process`, `HandleReport` the
  receiver. The button is a variable the handler reads, not part of the event: a
  press that is quicker than the queue is read as a release. The queue belongs to
  the whole mote, so any post may fail. So do the lamps: `FsmLights`,
  `publish_led_off` (with its ctimer `ct`) and `pub_handler` are the other writers,
  each at any moment.
* **`SlipOutput`.** `slip_end` is the length of the sequence; sequences count
  from 1. `Writable` joins `set_fd` and `handle_fd`; `FlushSome` is a partial write,
  `FlushLast` the one that completes the frame, with move, scan and timer.
* **`HostRadio`.** A frame is a record with the session id and, as history, the
  number of its packet. nullmac hands a packet to contikimac, which sends it at
  once and calls `packet_sent` before `NETSTACK_LLSEC.send` returns (`RadioSends`), or
  puts it off with the address of its slot (`RadioDefers`) and sends it later, in
  any order (`SendsDeferred`): the report is what the slot holds *then*. SLIP has no
  checksum: a frame disappears (`LoseToRadio`, `LoseToHost`), or arrives with any
  byte in the place of its session id (`DamageToRadio`, `DamageToHost`), and
  `HandleReport` calls whatever callback it names. The boot loop is `RequestMac` and
  `SetPrefix`.

* **`SlipInput`.** One action is one byte, or an escape with its byte, read by
  `serial_input` (`Plain`, `EscapedByte`, `GiveBack`), because every call may end
  after any byte: `Call` starts one, `ReadMore` goes on behind the test for room
  (`Room`), `EndOfInput` and `GiveBack` are its two returns. The radio puts whole
  messages on the line, as its framing makes them, and the line loses at most one
  byte of each. `sensors` is the array cell by cell: `SetSensors` writes each
  element where its row begins, however long it is, and a later element over an
  earlier one. `second` is what the second byte of `inbuf` was last, which is what
  the handler of commands reads of a frame of one byte. Where something is written
  outside the array (`wild`) the model ends: what is there nobody knows.
* **`WebServer`.** A block's protothreads are where its page waits (`at`). `Acked`
  is the run of `httpd_appcall` from one `SEND_STRING` to the next; `After` says
  where it may come to, and of the text only how much of `buf` it can fill: of a
  line the longest, and any line may be the one behind which the page stops; of a
  row of sensors any of `RowLengths`, since the code bounds none. Where the heading
  of the sensors would be added behind the end of `buf` (`Spills`) the model does
  not follow.
  `build` chooses one router or the other in the first state. uIP is external:
  `ClientCloses`, `Noticed`, `Forgotten` and `TimerExpires` are its events. A
  connection that has closed keeps its pointer to the block, as in the code.
* **`BorderRouter`.** `SecondPasses` is one turn of the loop that asks; the bridge
  and the line are external. The web server runs once there is an address.
  `set_prefix_64` counts the prefix as set before `rpl_set_root` has found memory for
  a DAG, and whatever comes of it: that is all the loop ever looks at.

History variables (`untold`, `tries`, `dropped`, `wrapped`, `touched`, `quiet`,
`lost`, `last`, `handled`, `strayed`, `orphans`, `overlong`, `lone`, `listed`) record
what a property has to speak of and guard nothing (except that `MaxLost` bounds the
faults). In `HostRadio` the packet numbers in frames and in `callbacks`, and the
`over` of a packet (the later ones that passed it), serve the properties the same
way.

Definitions marked *Mutant* are plausible mistakes in the code. Putting one in
place of the definition after it makes TLC find the property named for it in
`PROJECT.json` violated: no property holds whatever the code does.

## 3. The runs

### Passing

**`fsm_safety`** (`MCMqttFsm`, `FsmSafety.cfg`; 3,451,288 states, depth 32). Two
sensors, a queue of two events, two values, a broker that may refuse,
ReconnectAttempts = 2, strings that fit and strings that do not. Two sensors
are what it takes for one's event to keep another's from the queue;
a queue of two holds a stale timer event before a sensor's; with two attempts
the count from 1 at boot and the count from 0 after a stable connection differ.
Shows:

* `FsmMatchesConnection`: FSM and engine agree on the connection.
* `WakeupPending`: until the FSM gives up, its timer runs or a poll or timer
  event is on its way. Sensor events do not count.
* `SubscribedWhilePublishing`: a connection that publishes has subscribed.
* `AttemptBudget`: the number of `mqtt_connect` calls is the limit, exactly.
* `LastSampleKnown`: `ev_signals` holds each sensor's last sample, unless its event
  is queued, its last post was dropped, or it has posted none since boot (the
  sensors start with values of their own, `ev_signals` with zeros: section 4).
* `LampIsBlip`: a lit green lamp is going to be put out, until the FSM gives up.
* `PayloadIntact`: `app_buffer` is never written while the engine has to read it.
* `ImplementsLink`: the FSM implements `BrokerLink`. The abstract
  link's budget of attempts is granted again only while the link is up.

**`fsm_forever`** (`FsmForever.cfg`; 39,860 states). The node as it is built: RETRY_FOREVER,
with a counter of attempts that wraps after 5 instead of 256. `TypeOK` keeps the
counter within its width, `AttemptBudget` says that it never gives up, `Reconnects`
and `Subscribes` that a node with an address gets back to its broker and
subscribes. No refusals (section 4).

**`level_safety`** (`MCWaterLevel`, `LevelSafety.cfg`; 841,248 states, depth 43). The
Zoul's lamps with all who switch them, thresholds 6 and 8, level 2 at boot, a
counter modulo 11, so that the level reaches all three zones and wraps both ways,
and a queue of four: a press, a command, a report and another press.
`AlarmFollowsLevel` (the last command given is the one the level asks for, however
many presses and holds are pending), `LampsShowLevel` (a lamp that FSM, ctimer or
cloud have not switched since the level last wrote it shows the level's zone: a
branch of `lvl_process` may leave out a lamp only where it is right already,
whatever the others did before), and under fair delivery `AlarmSounds` and
`AlarmStops`.

**`slip_out`** (`MCSlipOutput`, `SlipOut.cfg`; 21,898 states). Packets of one,
two and three bytes, with END and ESC in them, and a buffer of 22 bytes: from two
to eleven frames at once, partly written, up to the overflow. `FrameBoundary`
(`slip_packet_end` is the end of the first frame), `ImplementsQueue`, and under
fairness `Drains`.

**`host_radio`** (`HostRadio`, `HostRadio.cfg`; 153,534 states, depth 30). Rings of
three slots on both sides, a window of two, five packets: both rings wrap, and
there is one spare slot, so that one packet can pass another safely and two
cannot. The radio puts off up to two packets and sends them in any order. Two
frames on the line in each direction; frames are lost, damaged and swallowed by
reboots until a packet has been. `ReportsMatch` (each packet on the line or put off, and each report, names
a slot that holds the callback of that very packet, unless it was damaged itself
or more packets were done before it than there are spare slots), and under
fairness `Reported` (the report of a packet on its way comes, also when others pass
it) and `Boots`.

**`slip_in`** (`MCSlipInput`, `SlipIn.cfg`; 900,062 states, depth 36). Seven messages: a
packet with END and ESC in it and a byte between them that looks like the end of
an escape, the report of session id 10, a debug line, `!D` alone, sensor data with
more elements than rows, with a first element that goes on in the second row and
with a second one that goes on behind the array. Seven bytes on the line, which is
a whole message behind the rest of one that lost a byte; a buffer of six, which two
merged frames overrun; two rows of two cells; with and without lines echoed.
`IntactFrameHandled` (a message that arrives whole is handled, in the step that
reads its last byte, as what it is, whatever the messages around it have lost),
`InbufInBounds`, `SensorsStored` (the elements are the data, cut; each that fits its
row is in it; nothing is written outside the array unless an element does not
fit or the frame is `!` alone; nothing else changes the rows).

**`router_web`** (`MCBorderRouter`, `RouterWeb.cfg`; 606,306 states). Both routers,
two connections, the two blocks of the build, one neighbour, two routes, one
sensor whose row just fits `buf` or does not, one restart. Two connections are what
it takes to overlap two pages, to free a block twice and to lose one. Shows:

* `BlocksExclusive`: until a late notice frees somebody else's block (section 4), no
  block is shared, and none is lost but with a connection uIP has forgotten.
* `BufInBounds`: the native page adds the heading of its sensors behind a `blen` it
  has not set (`native/host/border-router.c:187`) and that may be the other page's: that
  place is within `buf`, until a row of sensors as long as `buf` has been printed.
* `PageWhole`: a page that runs alone lists every route once and in order.
* `PageEnds`: a page ends if from some time on no other runs beside it.
* `BootsUp`: the embedded router's radio comes on, whatever is lost.

`NumEvents`, `AttemptModulus`, `LevelModulus`, `BufSize`, `MAX_CALLBACKS`,
`PacketIds`, `Window`, `DeferCap`, `InbufSize`, `MaxSensors` and `RowSize` are the
code's constants, made small; `CONNS` and the sizes of the page buffers are the
code's own. `MaxSends`, `LinkCap`, `MaxLost`, `LineCap` and `MaxReboots` are the only
bounds the code does not have.

Deadlock is checked, except in the runs of `SlipOutput` (the program may end with
an error), of `HostRadio` (once `MaxSends` packets are sent and the router has
booted nothing is left to do) and of `SlipInput` (a write outside the array is where
the model ends).

### Violations

`fsm_backoff`, `fsm_stable`, `fsm_refused`, `slip_delay` and `host_mac` each check one
sentence of a comment or document that the code does not keep; see section 4.

## 4. Where code and comments disagree

1. **The backoff is cut short** (`node1.c:238`, run `fsm_backoff`). "Disconnect and
   backoff" (line 175) sets the timer, but STATE_REGISTERED connects on whatever
   event runs the FSM next: a sensor's, or a timer event queued before.
2. **A stable connection may go unnoticed** (`node1.c:124`, `fsm_stable`). "We want
   RECONNECT_ATTEMPTS attempts if we disconnect after a successful connect"
   (lines 127-128), but `connection_life` is only read when the FSM runs; if the
   connection is lost first, the old count stays.
3. **A refused connection hangs** (`node1.c:112`, `fsm_refused`). `add-on.h:30-31`
   speaks of a timeout "used when waiting for something to happen (e.g. to
   connect or to disconnect)"; STATE_CONNECTING sets it again and again and never
   gives up, and `mqtt_event` only prints events it does not know.
4. **No delay between some frames** (`slip-dev.c:338`, `slip_delay`). "A delay between
   slip packets to avoid losing data" (line 346) is armed only if the next frame
   is already in the buffer as a frame ends.
5. **A second MAC answer undoes the boot** (`native/host/border-router.c:250`,
   `host_mac`). The router "also acts as a RPL Root" (`native/host/README.md:3`), but
   every `!M` calls `uip_ds6_init()` and `rpl_init()`, also the answer to a second
   request that arrives after the prefix was set; nothing sets it again.

More that no run is spent on. The comment at `node1.c:353` says the buzzer
starts low, and the code sets its pin high: it sounds until the first command
arrives (in the model too: `AlarmStops` starts there). The comment at
`node1.c:288-290` says that a click lowers the level and a long press raises it;
lines 301 and 318 do the opposite (the model does what the code does). Nothing is
posted at boot, so until the first event of the button the level that is published
is 0, although `lvl_counter` starts at 2 (line 275). The level's lamps are not its
own: a lamp the FSM or the cloud has switched tells nothing of the level until
`lvl_process` writes that lamp again. And line 239 reads through `data` before it knows which event it handles: for a poll `data`
is a null pointer. The value is not used and address 0 is readable on this
hardware.

On the routers, seen while modelling, and followed by the models as they are:

* A report for session id 10 is `!R` and a newline: with `-v2` (or 3, or 5) it is
  printed as a line of text, and the two bytes behind it are taken for a frame
  (`slip-dev.c:272`). `IntactFrameHandled` excepts it (`Swallowed`).
* The usage text says that `-v1` is the default and that `-v` is `-v3`
  (`slip-config.c:143`, 148); the code has 0 and 2 (73, 120).
* A connection that has been closed keeps the address of its block, and the
  acknowledgment of the last FIN is a second `uip_closed`: the block is freed again,
  also if another connection has it by then (`httpd-simple.c:216`; `strayed`). From
  then on two connections may share a block.
* A connection that ends in FIN_WAIT_2 without an answer is forgotten by uIP
  without a notice: its block, one of two, is lost until the restart (`orphans`).
* Two pages at the same time skip and repeat lines, which the comment at
  `border-router.c:70-73` admits.
* After `</pre>` the native page sends its buffer again with the heading of the
  sensors behind it (line 187 is a comment): `</pre>` appears twice. With three
  blocks instead of two, `blen` could pass the end of `buf` this way.
* `border_router_set_sensors` does not look at the length of an element: one of 32
  characters or more goes on in the next row or behind the array
  (`native/host/border-router.c:274-275`, 283-284; `wild`). Printed, a row as long as `buf`
  takes `blen` past its end (195), and the heading of a page that overlaps is added
  there (`overlong`).
* `border_router_cmd_handler` reads `data[1]` of a frame of one byte: a lone `!` after
  a frame with a `D` there is taken for sensor data of length -1
  (`border-router-cmds.c:88-91`).
* A report that has lost its session id calls the callback of whatever slot the
  next byte names, if it is below 16 (`border-router-rdc.c:69-71`; `strayed` in
  `HostRadio`); a packet that contikimac puts off until its slot has been used again
  is reported under another's session id (`slip-radio.c:128`).
* The embedded router's `set_prefix_64` sets `prefix_set` before it knows whether
  there is memory for a DAG (`border-router.c:324`, 328): without it the router turns
  its radio on and is no root.

## 5. Fairness

* `MqttFsm`: weak fairness of `HandlePoll`, `Dispatch`, `TimerExpires`,
  `publish_led_off` (the kernel's main loop serves polls, events and timers for
  ever), of `PacketSent` and `PacketAcked` (engine and TCP; a packet that is never
  acknowledged ends as `ConnectionLost`), strong fairness of `BrokerAccepts`: a
  broker attempted again and again accepts some time. `Reconnects` also assumes
  that the node keeps its address from some time on. Nothing is assumed of
  sensors, of the address or of the loss of connections.
* `WaterLevel`: weak fairness of `Dispatch`, the kernel's delivery. Nothing is
  assumed of the button.
* `SlipOutput`: weak fairness of `Flush` (the select loop, on a device that takes
  bytes) and of `DelayElapses` (time).
* `HostRadio`: weak fairness of `RadioSends`, `HandleReport`, `RequestMac`, `SetPrefix`
  (both main loops) and, for each packet, of `SendsDeferred` (a packet put off is sent
  in the end, or given up and reported all the same), strong fairness of `RadioAnswers` and `HandleMac`: of frames
  repeated for ever some get through.
* `BorderRouter`: weak fairness of `SecondPasses` (the event timer), strong fairness
  of `BridgeAnswers` and `SetPrefix` (what is repeated every second gets through
  some time); of each connection weak fairness of what uIP does with data that is
  outstanding: it is acknowledged at last, or the connection is given up after
  the retransmissions. Nothing is assumed of clients.
* `SlipInput` has none: its properties are safety.

## 6. The proofs

### Assumptions

Each module names its own, TLC evaluates them in the runs.

* `PlatformAssumption`: the queue holds at least one event, LEDS_YELLOW is a set
  of lamps.
* `FsmAssumption`: a counter modulo more than 2, ReconnectAttempts between 1 and
  RETRY_FOREVER, what the sensors and `ev_signals` hold at boot are values.
* `LevelAssumption`: boot level < yellow threshold < red threshold < modulus.
* `SlipAssumption`: in particular that a packet is not empty (the stack sends none
  without a header).
* `RadioAssumption`: in particular that `Window` is at most either ring. The host's
  CSMA layer keeps a queue buffer for each packet it waits for, and has 4 of them
  (`QUEUEBUF_CONF_NUM`, `native/host/project-conf.h`) against 16 slots on either side:
  12 are spare. contikimac has 4 queue buffers on the radio, so that at most 4
  packets are put off; how many pass one of them while it waits the code does not
  bound, hence the condition in `ReportsMatch`.
* `SlipInputAssumption`: in particular that a message is not empty and is shorter than
  `inbuf` (2048 bytes, against packets of at most `PACKETBUF_SIZE` and lines of text).
* `MessagesAssumption`: a message looks like what it is, since the host goes by its
  first byte, and a debug line, which the radio writes with `putchar` and does not
  escape, has no byte of SLIP in it: it is the text of a `printf`.
* `WebAssumption`: there is a block; a page buffer has at least 128 bytes.
* `RebootAssumption`: the bound on restarts is a number.

### What is proved

| theorem | module | states |
| --- | --- | --- |
| `TypeCorrect` | the six about a component | `Spec => []TypeOK` |
| `Agreement` | `MqttFsmProofs` | `FsmMatchesConnection` |
| `Subscribed` | | `SubscribedWhilePublishing` |
| `NeverAsleep` | | `WakeupPending` |
| `Budget` | | `AttemptBudget` |
| `Samples` | | `LastSampleKnown` |
| `Lamp` | | `LampIsBlip` |
| `Payload` | | `PayloadIntact` |
| `Refinement` | | `ImplementsLink` |
| `LampsShow` | `WaterLevelProofs` | `LampsShowLevel` |
| `Alarm` | | `AlarmFollowsLevel` |
| `Boundary` | `SlipOutputProofs` | `FrameBoundary` |
| `Refinement` | | `ImplementsQueue` |
| `Matched` | `HostRadioProofs` | `ReportsMatch` |
| `Bounded` | `SlipInputProofs` | `InbufInBounds` |
| `Intact` | | `IntactFrameHandled` |
| `Sensors` | | `SensorsStored` |
| `Exclusive` | `BorderRouterProofs` | `BlocksExclusive` |
| `BufBounded` | | `BufInBounds`, with at most two blocks |
| `AllRoutes` | | `PageWhole` |

So every invariant, every action property and every implementation a passing run
checks is also proved, for any number of sensors, attempts, queue slots,
thresholds, messages of any length, rows of any width, ring slots, packets put
off, connections and routes.

### How

* **`MqttFsm`.** Types first. `ConnectionInv` joins agreement and subscription: neither
  is inductive alone, because what a case of the FSM does to the connection
  depends on `conn`, and a subscription counts only where the engine was ready,
  which `conn` decides. `NeverAsleep` follows since every run of `state_machine()`
  sets the timer or enters an error state, and every expiry queues an event.
  `AttemptInv` is the strengthening of the budget: in each state it relates
  `connect_attempt` to the attempts made (one ahead in REGISTERED, equal after the
  attempt), which is where the two ways of counting meet. `Refinement` uses it: the
  link's budget is `ReconnectAttempts - tries`, and `StepGiveUp` must find it empty.
* **`WaterLevel`.** The lamps are inductive with the types: what the others switch is
  excepted until the level writes it, and each branch is compared with the zone it
  leaves and the zone it enters. For the alarm the work
  is in lemmas about queues: which command is the last one after a post, after an
  event of another process, and after the buzzer obeys.
* **`SlipOutput`.** `FrameBoundary` is not inductive: `slip_flushbuf` scans for the next
  END from the *second* byte on, right only because no frame is empty and the
  buffer ends where a frame ends. `Inv` adds both. That the scan finds the *least*
  position needs well-foundedness of `<`. The refinement rests on three lemmas
  about remainders of sequences.
* **`HostRadio`.** `ReportsMatch` is not inductive: why should the slot of a packet not
  have been used again? `Flights` are the packets on the line, put off and reported,
  each with the session id it would be reported under, read from the ring where
  the radio will read it. `FlightInv` says of each that all packets sent since are
  outstanding, have passed it or have strayed, and of one that is kept that its
  session id is the one the host's ring gave it (`RingInv`). At most `Window` are outstanding (`WindowInv`), so
  a packet that is kept, with no more than the spare slots passing it, is younger
  than either ring is long: `FlightMatches` for the host's, `SlotInv` for the radio's,
  where `Turns` counts the packets read since one was put off. A report completes a
  packet only where it has not been damaged, or it strays; that nothing else on
  its way waits for what a true report completes needs the order of the line and
  who may have overtaken whom (`OrderInv`).

* **`SlipInput`.** `InbufInBounds` carries its own strengthening: not only is `inbuf`
  never overrun, whenever `serial_input` has returned there is room for one byte
  more, which is what the first byte of the next call needs. `Inv` adds the types.
  For `Sensors`, `CutInv` says of `border_router_set_sensors` that, until the array is
  full, the rows and the item begun, each with a `;` before it, are what has been
  read; `CutsKeep` carries it over all bytes. Of the memory, `RowsInOrder` and
  `WrittenIsLatest` say that in a cell that several elements cover the last one
  stays, hence an element that fits is in its row (`FittingRowHolds`) and no cell
  outside is touched when all fit (`FittingStays`). `SecondOf` says that `second` is
  the second byte of a frame that has one.
  For `Intact` the bytes on the line do not say whose they are. `WholeInv` therefore
  asks for *tags*: of each byte its message (or none, if that one has lost a
  byte), where in the message it belongs, and whether `serial_input` will read it
  as the second half of an escape. Tags follow each other as the bytes of a
  message do, and the last byte waits for no other, which is why what one
  message has lost ends with it. `inbuf` is in step with the tag of the next byte:
  it holds what is in front of it. `WholeTags` and `LosingTags` say that whatever
  the radio sends can be tagged, `TaggedConcat` and `TaggedRest` that it stays so when
  it joins the line and when bytes are read.
* **Escaping and induction.** `FlattenSeq`, `Escaped` and `Cuts` are recursive functions,
  and the library's induction theorems take an operator that the provers cannot
  instantiate. `Induction` states them with a *set*: a set of sequences that
  contains the empty one and with each all that are one element longer is all of
  `Seq(S)` (`SequenceInduction`), and a function defined step by step exists and is
  unique (`WalkExists`, `WalksAgree`). `SlipBytesProofs` concludes that an escaped
  packet has no SLIP_END in it, and that each of its bytes codes one byte of the
  packet, in order (`EscapedCodes`): what both ends of the line rely on.
* **`BorderRouter`.** `SlotInv` (a connection has a block exactly as long as uIP knows
  it) makes the types inductive; `Segments` says what a piece of the page does to the
  statics. `BlocksExclusive` is inductive with them. `BufInv` adds, until a row as long
  as `buf` has been printed, that two pages that wait at their last `</pre>` have left
  no more than that in `buf`: the one that goes on may add its heading and leaves the
  other room. This is where `CONNS <= 2` is
  needed. `WholeInv` says what a lone page has listed at each of its places, and that
  no other page waits beside it, so nothing else moves `r`; with a shared block it
  fails, hence `BlocksExclusive` in the step.

### What is only model-checked

Liveness (`Reconnects`, `Subscribes`, `AlarmSounds`, `AlarmStops`, `Drains`, `Reported`,
`Boots`, `PageEnds`, `BootsUp`), which needs ENABLED, and the violations.

## 7. Abstractions and what is left out

* The MQTT engine, TCP and the broker are what node1 can see of them: `conn.state`
  with four values, one packet, the callbacks. Engine pings are sent only while
  publishing: their interval is three publication intervals after the
  connection, long after the FSM has subscribed. After a refusal the engine has
  closed the connection and calls nothing more.
* `CONFIG_ERROR` is entered if a string does not fit `BUFFER_SIZE`; with the strings
  in the repository they all fit, `FsmSafety.cfg` has a length that does not.
  `publish()` giving up on a payload that is too long is left out.
* `WaterLevel` has the other writers of its lamps as actions that may happen at any
  time, more often than `MqttFsm` lets them: what it shows holds for the mote. The
  lamps in `MqttFsm` are the FSM's own use of the green one.
* `slip_flushbuf` moves the rest of the buffer with `memcpy` though both areas may
  overlap. The C standard leaves that open; the model takes the move that the
  host's C libraries make.
* In `HostRadio` the line loses frames, and damages session ids; other damage does
  not change what host and radio keep of a packet. Frames do not grow out of
  nothing: a damaged frame that is no `!S` or `!R` any more is a lost one. What lost
  bytes do to frames one by one is the subject of `SlipInput`, where a message loses at most one byte: with
  two lost bytes in one message (an END and the byte behind an escape) the next
  message can be damaged with it. A debug line of the radio is printed whole; a
  packet sent between two parts of one would end it.
* Neighbours and routes do not change while pages are sent. If they did, the page
  would go on with a pointer into a table whose entry may be free: uIP's tables
  are not part of the repository.
* The page's text is its longest possible length. `sensors[i]` past `sensor_count`
  (two pages share `i`) ends the loop, as in the code.
* The radio's CSMA is nullmac, which queues nothing; contikimac's queue is a set with
  a bound (`DeferCap`), and what it does in its channel checks is not modelled.
* A lost report is never made up for: the MAC waits for ever, `outstanding` keeps the
  packet. `Reported` excludes it, as the code does nothing about it.
* `HostRadio` leaves out `!G` (RPL repair), `!C`, `!Q`, `?S`, and frames the radio
  receives from the air, which pass through without state.
* Of the embedded router are left out: the repair of RPL on the button, the answer
  to `?M` (a test, says the code), `output()` with `last_sender`, and whether RPL
  finds memory for its DAG.
* TLC has two connections for the two blocks; with three the states are too many.
  The theorems hold for any number of connections (`BufBounded` for two blocks).

### Not modelled

The tun bridge and the reading of the arguments (system calls), the scripts (they
print what they receive), the build files. `PROJECT.json` gives the reason for
each.

## 8. The plan

Done, in this order: `MqttFsm` with `BrokerLink`, `WaterLevel`, `SlipOutput` with
`SlipQueue`, `HostRadio`, and the proofs of each; then `SlipInput`, `WebServer` and
`BorderRouter` with theirs, those of `SlipInput` with induction over its messages.

Left, the most important first:

1. `Node1`: `MqttFsm` and `WaterLevel` on one queue. `WaterLevel` has the lamps'
   other writers and a queue others fill; the composition would bound both.
2. An abstract decoder for `SlipInput` (frames between ENDs, unescaped) and the
   refinement. `IntactFrameHandled` is the part of it that a damaged line leaves.
3. Tables that change while a page is sent.
