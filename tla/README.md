# A TLA+ model of the IntelliSYS device software

The repository holds the programs of a small Linux (OpenWrt) box with a panel: a
battery-backed STM32 display board on a USB serial line, a fingerprint sensor on SPI,
and a central server ("KenCloud") reached over the network. The programs are short C
files that talk to the panel through `mlx_proto_*` calls (a library the repository does
not hold) and run one another with `system()`.

This directory models the parts that carry state, concurrency and failure, checks them
with TLC on small instances and proves what matters most for every instance with TLAPS.
Source paths below are relative to `src/`.

## 1. The system

| Component | State it keeps | Operations | Hard because |
|---|---|---|---|
| Panel frame protocol: `_proto_parse`, `proto_reset` (copies in `mlx_comm_test.c` and `syslcd.c`) | `PROTO_BUFF`: parser state, counters, type, data, and a ring | one byte in, perhaps one frame out | resynchronisation, lengths 0 and 1, stale data bytes, 8-bit counters |
| `mlx_comm_test -p` | the ring, the parser, three text lines | read a chunk, insert, parse, show | ring without a fill check, chunk borders anywhere |
| `syslcd` event thread `pthread_event_uart` | a private `PROTO_BUFF` and the global one | select, read, filter, parse, handle | the reset goes to the wrong buffer; the handler blocks the line |
| `syslcd` handler `handle_proto_data` | `Intellisys_windown_selected`, `..._data_mode_selected`, `md_sync`, `sd_sync` | button, user ID, pass code, battery, time | a `break` inside the condition; runs programs beside main |
| `syslcd` main thread | the same globals | boots the device: `wanconnect`, downloads, fingerprint, clock loop | two threads' programs share panel, files and network |
| `wanconnect`, `instancemd`, `configname`, `synctime` | `ipaddress.txt`, `config.zip`, `/mnt`, the panel's clock | ping, register, fetch and unpack, set the clock | loops without end, files emptied before they are filled |
| `MD_Download`, `SD_Download` | `master.zip`, `session.zip` | read address, ping, checksum, fetch | run by two threads at once; a reply in a dead stack frame |
| Fingerprint templates, `chips_api.c` | table in memory, files under `/mnt` | load, verify, enrol, delete, renew, save | a save is five writes; several files into one table |
| Fingerprint listener and sensor, `chips_fingerprint.c`, `chips_sensor.c` | listener state, sensor mode and registers | wait, detect, capture, reset | a sensor that sleeps, resets, and reports a finger coming or going |
| Clock: `synctime`, `main`'s clock loop, the system-time reply | the panel's clock, the global `synctime`, the date | set, ask, wait two seconds, format, `date -s` | a global written and read field by field by two threads; answers that nobody waits for |
| Battery thread and LED (`syslcd.c`) | the global `bat_status`, LED 1 | ask, drive the LED, wait three seconds | the LED is driven before the answer can have come |

How they interact: `syslcd` main runs `wanconnect`, which runs `instancemd`,
`configname` and `synctime`; then `MD_Download`, `SD_Download` and
`mlx_fingerprint_test`. The event thread runs `MD_Download` or `SD_Download` when a
button is pressed, at any moment. `instancemd` writes the address the downloads read.
`configname` removes every download and fills the `/mnt` that `mlx_fingerprint_test`
loads. Everything writes the same panel lines and LED. `synctime` sets the panel's clock,
`main` asks for it and sets the date from the global that the event thread fills; the
battery thread asks for the battery's status and drives the LED from another such global.

What makes each component correct: a reader delivers frames that were sent, whole and in
order; the event thread keeps serving its line; nobody gets to the pass code without a
user ID; a download noted as done is on the disk; the boot ends when the network stays;
an ID stands for the finger it was given to, whatever power does to a save; other persons'
fingers are not lost by what is done on this device; a finger on the sensor is answered
once; the date is a time the panel had, and comes to follow it; so does the lamp.

## 2. Modules

| Module | Models | Correspondence |
|---|---|---|
| `ProtoFrame` | `_proto_parse`, `proto_reset` | `Advance` is what a byte writes into the buffer, `Resets` whether it goes to the reset, `Completes` whether `handle_proto_data` is called. The two are apart because the two programs apply the reset to different buffers. |
| `FrameStream` | (abstract) | what a reader of the line promises: frames delivered are whole, checked, in order, disjoint |
| `CommTestParser` | `mlx_comm_test -p` | `Read`, `InsertByte`, `BeginParse`, `ParseByte`, `EndRound` are the loop of `proto_parse_test`, `ReadFails` and `Spill` what a failed read does to it; shown to implement `FrameStream` |
| `UartThread` | `pthread_event_uart` | `Read`, `SelectFails`, `Accept`, `Flush`, `ParseByte`, `HandlerReturns`, `EndChunk` |
| `Programs` | the programs as scripts | one constant sequence of commands per program or per way through the handler |
| `Device` | both threads of `syslcd`, the programs they run, user, network, server, power | a thread is a stack of running programs; one action per kind of command |
| `TemplateStore` | the fingerprint table and the files of one or several persons | one action per API call, and one per write of a save |
| `ClockSync` | `synctime`, `main`'s clock loop, the time reply of the handler | `RunSynctime`; `AskTime`, `Wake`, `ReadField` (an argument of `sprintf`), `SetDate`, `Die` (an overrun of `time_s`), `Rest`; `TakeTime`, `WriteField` (an assignment of the handler), `TakeButton`, `Release` |
| `BatteryLamp` | `pthread_battery_check`, `compare_battery_status`, the battery reply | `AskBattery`, `CompareStatus`, `Wake`; `TakeBattery`, `TakeButton`, `Release` |
| `FpListener` | `listenerFunction` and the driver calls of `chips_sensor.c` it makes, the sensor and the finger | the listener answers an interrupt by a constant sequence of driver calls (`InvalidSem`, `ResetIrq`, `FingerLeave`, ...); one action per kind of call |
| `*_proofs` | theorems about the module they are named after | |
| `MC*` | constants for TLC | |

Modules compose by `EXTENDS` (`ProtoFrame` into both readers, `Programs` into `Device`)
and by refinement (`Stream == INSTANCE FrameStream WITH stream <- rcvd, delivered <-
handled`). `Device` takes whole frames: how bytes become frames is the readers' matter,
and a frame the event thread loses is, for `Device`, a frame the user did not send.
`TemplateStore` and `FpListener` share `listenerFunction`: one has what a touch does to the
table and its files, the other how a touch comes about at all; `Device` has only that
`main` waits for the whole program (`Touch`). `ClockSync` and `BatteryLamp` each take the
event thread as what it is for their global: it handles a frame, or is held up by a button's
program (what that program does is `Device`'s matter), and any frame may be lost (how is
`UartThread`'s).

Definitions called slips (`...NoRoom`, `...Late`, `...Once`) are plausible mistakes used
to see that each property would notice one. They are no part of any specification.

### Abstractions

* Panel messages are one step each: the blanking of lines around a message belongs to
  it. Each colour of LED 3 is a field of its own, and each `mlx_comm_test -l 3` a step of
  its own, as the programs send them. Icons, bars, sleeps and logging are left out.
* A failed read of `mlx_comm_test` (`recv_len` is unsigned, `mlx_comm_test.c:480`,
  501-507) sends the loop through memory that ends long before the length does: bytes of
  `Garbage` go into the ring (`Spill`) until a fault ends the program, at any of them, and
  nothing of it is parsed.
* `instancemd` and `configname` read on from pipes they have closed in the loop that reads
  them, and `instancemd` puts 24 bytes into `instance_ip[20]`: what they got may then be
  something else, and they may die where they are. `spoiled` names the program that died.
* `CheckAt` is the failed ping at which a download program shows its hint, the fourth in
  the code; `boot` takes the first and `boot_live` the second, which only shortens what
  precedes the hint.
* Bytes are scaled from 256 values to 16 in TLC (header 15 5 10, acknowledgements from 8
  up); the proofs hold for every size.
* A file that was written survives a power cut; what was not written does not. Writes
  happen in the order of the code. One template slot is one write.
* A load may fail for any set of files: `scandir` (then none is read), or `fopen` of each
  (`VerifyStart(opened)`). The first load of a process that misses a file is counted
  (`unread`): it leaves a table without what the file holds. `fseek` and `rewind` on a file
  that is open do not fail.
* A feature matches the finger it was taken of and no other (`libCSAlg` is a binary).
* In the build as configured nothing calls enrolment, deletion or renewal: the call of
  `fingerprint_enroll_start` in the menu and the one of `fingerprint_renew_feature` are
  commented out, `fingerprint_remove` has no caller. They are modelled all the same,
  because they define the files that are loaded. Nobody enrols before the listener's
  first load (mode `START`).
* The sensor (`FpListener`) is hardware. Assumed is what the driver relies on: only a
  sleeping sensor reports; it reports a finger that already lies there when it is put to
  sleep as well as one that comes; a reset loses mode and registers and raises interrupt
  01; the parameter table's "clear reset irq" clears that. `chips_reset_sensor` only pulls
  the line low (the pulse is commented out), so it may or may not reset.
* The two seconds `main` and the three the battery thread sleep are enough for an event
  thread that is not held up to handle what is on the line (`Wake` waits for that). One
  that is held up handles it whenever it is released: then, and only then, the handler
  and the thread may meet in the global.
* A panel whose clock `synctime` set, or that was never set, counts time as a calendar; a
  tick is any passage of time that it shows. Nobody checks a field on the way
  (`mlx_comm_test.c:631`, `syslcd.c:501`), so a panel set from something that has six parts
  but is no time may show anything its bytes can hold (`astray`, a set of `Strays`). A
  command longer than `time_s` writes over `main`'s locals: the program goes on, since
  `main` never returns, or dies.
  `sprintf`'s arguments may be read in any order; a build has one, the same every time.
* `synctime` reads from a closed stream (undefined): what its buffer then holds is a
  choice, and with it how many of the six parts of a time `mlx_comm_test -s` finds.
  `date` takes the instants there are, refuses years before 1970, and may refuse any other
  mixture, as one of a day 0.
* `g_listener` is left out: `chips_check_sem_count` returns 0, so it is false whenever a
  branch looks at it.

## 3. What each run checks

State counts are distinct states; every passing run is exhaustive within its bounds.

| Run | Bounds | States | Shows |
|---|---|---|---|
| `parser` | 3 transmissions of 11 kinds, ring of 5, reads of up to 4 bytes, a failed read that spills up to 6; fair | 1,814,181 | `RoundDrains`: each byte that was read is in the ring still when it is parsed, and only a failed read puts in more than a chunk. `RingFifo`: what lies where in the ring, also while it is overrun. `ParserCoherent`. `DeliversFrames`: the loop implements `FrameStream`. `WedgedForever`: after length 0 or 1 nothing is understood again. While every transmission leaves the parser in step (`InStep`, six of the kinds), `HandledAsSent`: frames handled are the frames sent, in order, and `EachSentHandled`: each, in the end, unless a read fails. |
| `uart` | 3 transmissions of 7 kinds, reads of up to 14 bytes | 112,506 | `ChunkMeaning`: what `syslcd` makes of a chunk although the reset misses its buffer: the first frame, repeated for each later byte that equals its checksum. `OneFramePerChunk`, `BuffersApart`. `FirstNotLost`: the frame that stands first on the line is handled, or cut by a read, or dropped with what was read before it; no flush and no handler costs it. |
| `boot` | one of: three inputs other than a download; a download button and a network change; a download button and a power cut; two network changes and a cut (`Safe`); buttons SD and USER | 1,756,534 | `FetchedOrBlamed`: a download noted as done is on the disk or a fetch of it went wrong. `MainFindsAddress`, unless `instancemd` died. `ClockMeansConfigured`: the clock loop means a fingerprint, and a configuration that was fetched whole unless `configname` died. `AuthNeedsUserId`: no pass code window without a user ID, except through the fall-through. `RejectedForever`. |
| `boot_live` | one download button and a network change, or two changes (`Live`); fair | 868,091 | `BootSettles`: the boot ends, and every input is answered. `NetworkShown`: no failure message stays, and LED 3 is green and not red, whichever thread's commands came last. |
| `store` | three fingers, three slots of a file, four operations, two power cuts, a save or first load that fails; no file or another person's, before or after the own one | 2,771,461 | `IdOfFinger`, `NoFingerTwice`, `DeletedGone`: what a save of several writes and a load that may fail keep true. `OthersKnown`: the fingers of another person's file that opened are known whenever the scanner starts, under its IDs. |
| `clock` | three instants across a New Year, two times that are none, both orders of reading, two losses or presses; fair | 2,166,924 | `DateTrue`: after a round without mishap the date is the time of the request. `DateWhole`: only an event thread held up past the two seconds lets a date mix two times. `CommandFits`: only a panel that shows more digits than a date overruns the 30 bytes of the command. `DateFollows`: the date comes to follow the panel. |
| `lamp` | four levels, three changes, three losses or presses; fair | 265,247 | `LampLagsOne`: after a round whose answer came the lamp is at most a round late. `LampFollows`. |
| `listener` | one each of reset, noise, failure, enrolment; two hasty touches; fair | 112,465 | `OneImagePerTouch`, `SpoiltOnce`, `StuckHasCause`, `StuckForever`, `VerifiesOrStuck`. |
| `fingernum` | two files of one finger | (violation) | `FingernumCounts` fails: `g_fingernum` is the number of one file. |
| `kept` | three operations, one cut | (violation) | `EnrolledKept` fails: five slots are saved, two are loaded. |
| `charging` | the levels the comments name | (violation) | `ChargingBlinks` fails: 0x81 is 129, the code knows 131. |
| `rescan` | one reset | (violation) | `ScansAfterReset` fails: after a reset interrupt the sensor is never put to sleep again. |

### Why the bounds are enough

* *Parser.* A frame's fate depends on what the bytes before it left in the parser; two
  transmissions make every such pair, and the third shows what comes after it. The ring is
  one place larger than a read, so it wraps in every second round, in every position, and six
  bytes of a failed read overrun it from every one. Data bytes and checksums equal to header
  bytes are among the transmissions.
* *`uart`.* A read holds up to two frames, so frames share chunks, are cut by their ends
  and follow garbage. The third transmission is what a flush destroys.
* *`Device`.* The two threads meet in files, address and panel; one button at any moment of
  the boot makes every overlap of two downloads, and one network change in any place makes
  every failing step; LED commands of both threads meet in all orders. Three inputs are
  button, user ID and pass code. Of the buttons, SD is the one whose digits equal the user
  ID, so the fall-through accepts it; USER opens the way to the pass code; MD differs from
  SD in its file and its texts and is pressed in `boot_live`; SOS only shows a
  message and is pressed in no run. What disturbs different things (entries on the one
  hand, network and power on the other) is not combined beyond what `Budgets` lists. A
  power cut leaves only files, so a second cut starts from a state the first one reaches.
* *`TemplateStore`.* Three slots of which two are loaded show every relation of saved to
  loaded; four operations are enrol, delete, enrol again and one more, with a load between
  any two; two cuts make two torn saves, and one failed save or load leaves file and table
  apart, which is what the properties distinguish (see below).
  One other person's file, before or after the own, moves the places in the table and makes
  every slot one of the own file, of the other, or of none.
* *`ClockSync`.* All six fields differ between the last two instants, so any mixture of two
  replies differs from both. The line holds two frames: a late answer and the next one. Two
  mishaps are a button that holds the event thread up and a loss before or behind it. Of the
  two times that are none one has an hour of two digits and one an hour of three: what fits
  and what does not.
* *`BatteryLamp`.* One level of each kind the code treats alike (blink, off, left alone) and a
  second one that turns the lamp off; three changes pass through all of them.
* *`FpListener`.* One mishap of each kind, at any moment and in any combination. An
  enrolment of two touches shows both the next and the last.

### Fairness

* `CommTestParser`: `WF(Program)`. The loop blocks only in the read.
* `UartThread`: `WF(Thread)`, which leaves out `HandlerReturns`: the handler runs
  `MD_Download`, which loops as long as there is no network. `FirstNotLost` assumes that it
  returns.
* `Device`: weak fairness of each thread's steps; both are POSIX threads that are always
  runnable between their waits. Not of the touch, the user, the network, the administrator
  or power. The liveness properties assume of the network that it stays in the end.
* `ClockSync`, `BatteryLamp`: `WF` of each thread's own steps. Not of the return of a program a
  thread runs (`Release`, `RunSynctime`, `Rest`): `MD_Download` and `wanconnect` loop without a
  network, `mlx_fingerprint_test` waits for a finger. The liveness properties assume that they
  return (`ProgramsReturn`; in `BatteryLamp`, that the event thread is not held for ever).
  They also rest on losses and presses being bounded: an event thread that takes one frame
  per chunk may lose every answer, if every answer shares its chunk with a press.
* `FpListener`: `WF(Listener)` and `WF(Rest)` (80 ms pass). Not of the finger; the property
  assumes that fingers come and go.

### What the checks show

* Both readers of the panel's line behave as their code says, and the two differ: the same
  parser gives a faithful reader in `mlx_comm_test` and one that loses the second frame of
  a chunk, and may repeat the first, in `syslcd`. The frame lengths 0 and 1 are the end of
  `mlx_comm_test`'s understanding; in `syslcd` only of the chunk.
* The boot's order (`configname` removes every download and runs before them) is right,
  and a button at any moment does not damage a download by itself. What does is in
  `spoiled`: a network that is away, an address read while `instancemd` has the file open,
  `sys_call`'s reply, and a program that died.
* A device turned away once keeps showing that until power is cut.
* One mishap never makes an ID stand for somebody else's finger. Two do: a deletion whose
  save was lost leaves templates, or a load that could not open the file leaves the table
  empty so that an ID of the file is given again; and an enrolment cut off behind the ID
  gives the old templates that ID. The invariants say "at most one", because with two TLC
  finds it. `NoFingerTwice` and `DeletedGone` do not survive even one failed load: what the
  file holds is enrolled anew, under another ID, and the next load brings the first back.
* `mlx_comm_test`'s ring is safe only as long as reads succeed. A failed one is taken for
  a length of thousands of millions, and the program faults.
* What is done on a device does not touch other persons' files, so their fingers stay known;
  the converse does not hold: deleting another person's finger is undone by the next load, and
  a renewal (`chips_api.c:1654`) goes by the ID, which two files may share, so one
  person's feature may come to stand in another's slot, and is saved with it.
  The three properties of a single file (`IdOfFinger`, ...) are stated for a device without
  other files, because IDs are per file.
* The two globals are safe by time alone: a reply handled within the two seconds never
  meets `main`. Whoever presses a download button without a network holds the event thread up, and
  replies handled at its release may then be mixed into a date.
* The listener comes to wait in vain only after a reset of the sensor or a failed call;
  then it does so for ever. A single reset at rest is enough (`rescan`).

## 4. What is proved

Theorems hold for every value of the constants that satisfies the modules' assumptions,
which TLC evaluates in every run of the module:

* `ProtoFrameAssumption`, `CommTestParserAssumption`, `UartThreadAssumption`,
  `FpListenerAssumption`, `BatteryLampAssumption`: sizes and bounds are naturals, a read
  fits the ring, header bytes, transmissions and battery levels are bytes.
* `CleanAssumption`: the transmissions that keep the parser in step (`Clean`) are not empty, and
  each has a frame's shape, whatever its checksum, or no header byte FF.
* `DeviceAssumption`: the digits typed, the buttons, `CheckAt` and the budgets are of their kinds,
  and there is a budget.
* `ClockSyncAssumption`: the instants are times of a calendar (`Calendar`), of which there
  are two at least, and an order of evaluation takes each argument. What a panel astray
  shows (`Strays`) is anything seven bytes can hold, also none at all.
* `TemplateStoreAssumption`: no more slots are loaded of a file than it has, and the table
  has room for a file's slots. `InitialMntAssumption`: what `configname` copied to `/mnt`
  are other persons' files (finitely many, none called `fingerprint.bin`), each as a save
  left it that was not cut off: it has its IDs, and templates for each that stands for a finger.

| Theorem | Module | States |
|---|---|---|
| `TypeCorrect` | `CommTestParser_proofs` | every variable keeps its type; with it, no counter wraps and no index leaves `data` or the ring |
| `RoundsDrain` | `CommTestParser_proofs` | the ring is empty before each read, and only a failed read puts in more than a chunk |
| `RingIsFifo` | `CommTestParser_proofs` | the ring is a queue although insertion never looks at how full it is, and keeps the newest bytes when a failed read overruns it |
| `ParserIsCoherent` | `CommTestParser_proofs` | state, counter and length agree between any two bytes |
| `WedgeIsForever` | `CommTestParser_proofs` | after a frame without room no frame is handled again |
| `StreamImplemented` | `CommTestParser_proofs` | `Spec => DeliversFrames`: the loop implements `FrameStream` |
| `HandledAreSent` | `CommTestParser_proofs` | as long as what is sent keeps the parser in step, the k-th frame handled is the k-th sent |
| `TypeCorrect` | `UartThread_proofs` | types |
| `OneFrame` | `UartThread_proofs` | all frames handled of one chunk are the same |
| `ChunkMeans` | `UartThread_proofs` | what is handled of a chunk: its first frame, again for each later byte that equals the checksum |
| `ResetMissesBuffer` | `UartThread_proofs` | the buffer that is reset never holds anything; the private one stays coherent |
| `TypeCorrect` | `Device_proofs` | types of the stacks, the files, the panel and the line |
| `PassCodeNeedsId` | `Device_proofs` | no pass code window without a user ID, or a button taken for one |
| `AddressIsFound` | `Device_proofs` | `main`'s downloads read an address that was written, unless `instancemd` died |
| `ClockIsConfigured` | `Device_proofs` | the clock loop means fingerprints, and unless `configname` died they and the college name are of a configuration fetched whole |
| `DownloadsFetchedOrBlamed` | `Device_proofs` | a download noted as done is whole, being written again, or spoiled by a named cause |
| `RejectedStays` | `Device_proofs` | turned away is for good, until power is cut or `instancemd` dies |
| `TypeCorrect` | `ClockSync_proofs` | types |
| `DateIsWhole` | `ClockSync_proofs` | only an event thread held up past the two seconds lets a date mix two times |
| `DateIsTrue` | `ClockSync_proofs` | after a round without mishap the date is the time of the request |
| `CommandAlwaysFits` | `ClockSync_proofs` | the date command fits its 30 bytes, mixed or not, in range or not, unless the panel shows more digits than a date has |
| `TypeCorrect` | `BatteryLamp_proofs` | types |
| `LampLags` | `BatteryLamp_proofs` | the lamp lags one round at most after a round whose answer came |
| `TypeCorrect` | `FpListener_proofs` | types |
| `OneImage` | `FpListener_proofs` | an enrolment takes one image of a touch unless a call failed |
| `SpoiltOnceEach` | `FpListener_proofs` | a failed calibration spoils the images of its own touch only: one, but for the three of the verification that ends the process |
| `CauseOfStuck` | `FpListener_proofs` | without a reset or a failed call the listener never waits for a sensor that is not asleep |
| `StuckIsForever` | `FpListener_proofs` | waiting in vain is for good |
| `TypeCorrect` | `TemplateStore_proofs` | types; with it, whatever a save was cut off at is a file that can be loaded |
| `OthersAlwaysKnown` | `TemplateStore_proofs` | a load that starts the scanner knows the fingers of every other person's file that opened |
| `IdsOfFingers` | `TemplateStore_proofs` | one failed save or load does not make an ID stand for somebody else's finger |
| `NoneTwice` | `TemplateStore_proofs` | while files open, no finger is known under two IDs |
| `DeletedStaysGone` | `TemplateStore_proofs` | while files open, a finger whose deletion was saved is not known any more |

Along which argument:

* `CommTestParser`: `IInv == TypeOK /\ RoundDrains /\ RingFifo /\ ParserCoherent`. `RingFifo`
  places each byte by its number modulo the ring (`PlaceNext`, `PlacesApart`), full or not;
  that the byte taken out is the oldest one not parsed needs `RoundDrains` besides (the ring
  is empty before a read, a read is no longer than the ring, and nothing is parsed after a
  failed one). `TypeOK` needs `ParserCoherent`: the 8-bit counter stays in its
  range because it never passes the length. The facts about one byte are lemmas of
  `ProtoFrame_proofs` (`ResetCoherent`, `AdvanceCoherent`, ...), used by both readers.
* The two theorems about what is handled relate the parser, which adds up a checksum byte by
  byte, to the reference definitions `IsFrame` and `Decode`, which look at whole byte strings.
  `Gathered` does that for every frame under way: its bytes stand at the end of what was parsed
  and the parser holds what they mean (`Body` in `ProtoFrame_proofs`). A byte more is
  `BodyGrows`, the last one `WholeFrame`. `Checksum` is a recursive function;
  that such a function exists, is unique and grows by a term with each byte (`SumsExist`,
  `SumsUnique`, `ChecksumMore`) is proved from the least length at which it would fail
  (`LeastElement`), because the induction theorems of the library cannot be cited here.
* `HandledAsSent` needs to know in which transmission the parser is. `InOrder` says that there
  are places on the line where the transmissions end (`Laid`), that the first m are parsed, and
  that of the next one so many bytes are as `parsed` says (`AsSent`); `Inside` is what the parser
  knows of it by then: nothing of noise, and all of what has a frame's shape. A transmission's
  last byte is where the parser asks for a checksum, and in no other place (`ShapedAt`).
* `UartThread`: `OneFramePerChunk` needs `StuckAtChecksum`: once a frame was handled the
  private parser, which nobody resets, waits for its checksum and no byte changes what it
  holds. `ChunkMeaning` speaks of a chunk that is parsed to its end; `ChunkTold` says it of
  every beginning of the chunk, and while no frame was handled what `Body` says of the frame
  under way.
* `Device`: `IInv == Typed /\ Coherent`. None of the properties speaks of a whole stack, but
  each needs one: what a program may rely on depends on who called it and from where.
  `BootStack` says which program may lie on which (`Calls`), `EventStack` which programs
  the event thread runs. With the stacks given, `AddressThen`, `CollegeThen` and `StoreThen`
  say, for every activation on `main`'s stack, what holds once `instancemd`, `configname`
  and the touch lie behind it; `AddressIsFound` and `ClockIsConfigured` are their instances
  at a download and at the clock loop. They survive the event thread's downloads because
  those write neither the address nor the store. `FetchedOrBlamed` needs to know who has a
  download open: a writer is at its writing step (`WritersAt`), `main` is never there
  without writing (`MainWrites`), and a fetch that ends without a whole file has left a
  cause (`NoCrcBlamed`, `DoneBlamed`), so that past `main`'s fetch the file is whole or
  blamed (`FetchedThen`). For the pass code, `AuthOnLine` and `AuthOnStack` follow the
  user ID through the line and the handler. There is a lemma for each kind of change to a
  stack (a step on, a call, a return) and one per command.
* `ClockSync`: `DateTrue` and `DateWhole` rest on where a reply may be when `main` formats:
  as long as no round was held up, none is on the line or in the handler (`TimePending`), so
  `synctime` stands still while its fields are read, and what was read of it agrees with it.
  `LatestReply` says that the last reply there is, on the line, in the handler or already in
  the global, is the one to the last request. For `CommandFits` nothing needs to be whole:
  each field that can be read is one of some time the panel may show, or zero
  (`FieldValues`), and narrow times make narrow fields (`MixtureFits`).
* `BatteryLamp`: `LatestReply` and `EarlierReply` say where the answers to the last two
  requests are: on the line or already in `bat_status`, depending on which rounds went wrong.
* `FpListener`: that the sensor is asleep when the listener waits follows from the calls
  still to make: `SleepsInTheEnd` says that they end in the one that puts it to sleep, or
  that there are none and it is asleep. Each answer but the one to a reset has that ending
  (`AnswersEnd`), each call keeps it (`CallMade`). While nothing went wrong (`Calm`) there
  is no reset to answer. `OneImagePerTouch` and `SpoiltOnce` follow from `EnrolInv`: what the
  sensor watches for, and how wide its window is, at every place in an answer's calls.
* `TemplateStore`: `IInv == AnyInv /\ Alone`. `AnyInv` is about any set of files: `Phases`
  (an enrolment under way has its touches in the slot it will fill, and knows none of them),
  `Writes` (what a save has written when it has come to a write) and `Complete` (other
  persons' files stay as they came). With it a load is a calculation with the files' places
  (`FilePlaces`, `LoadedFrom`), which proves `OthersAlwaysKnown`. The three properties of a
  device without other files need `Alone`, which speaks of what a slot matches now (`Has`)
  and what it would match after a restart (`Would`), slot by slot. The two agree except for
  the slot being saved (`FileAgrees`), so a restart knows what the process before it did; of
  that slot the file has no finger but those the save is about (`NothingLeft`), and those are
  in no other slot and not gone (`WasHeld`). `HasUnder` and `WouldUnder` are the heart of
  `IdOfFinger`: after one failure a slot of the file may have an ID without templates, and a
  load would then put that ID to templates left in memory; `TornKnown` says that the memory
  has this ID already, and `NoneTorn` that without a failure there is no such slot. The writes
  enter through one lemma each (`OpenDoes`, `NumDoes`, `IdDoes`, `AreaDoes`, `TplDoes`), which
  says what the file reads as afterwards.
* `WedgeIsForever`, `StuckIsForever` and `RejectedStays` are action properties: every step
  from such a state leads to such a state (or, for the last, cuts power).

Each inductive invariant was first checked by TLC as an invariant of the module's run.

Every invariant and every action property that a passing run checks is a theorem, and so is
the refinement of `FrameStream`. Only model-checked are the liveness properties
(`EachSentHandled`, `FirstNotLost`, `BootSettles`, `NetworkShown`, `DateFollows`, `LampFollows`,
`VerifiesOrStuck`), which rest on fairness and `ENABLED`, out of the prover's reach.

## 5. Where code and comments disagree

* `chips_api.c:1796` promises the number of fingerprints in the list; `chips_api.c:790`
  reads each file's number over that of the others (`fingernum`).
* `chips_api.c:1517` saves and `:825` loads fingerprints; of five slots saved two are
  loaded (`kept`). With more than two fingers enrolled the rest do not survive a restart.
* `syslcd.c:86` gives a charging, empty battery the value 131 and says `0x81`, which is 129; its
  neighbours' values and comments agree. 129 is no case of the switch (`charging`).
* `chips_fingerprint.c:296` wants the scanner to remain in the scanning state; the answer
  to a reset interrupt (`:469`) leaves the sensor idle (`rescan`). The older twin of that
  branch, compiled out at `:398`, does put it to sleep.

## 6. Not modelled, and why

* `mlx_comm_test`'s one-shot commands but `-s` and `-p`: a switch from an option to one library call.
* Image capture, gain and base of the sensor, and matching: arithmetic on pixels and a
  binary library.
* `ssid.py`, whose callers are commented out, and the build files.
* The libraries (`libproto`, `libserial`, `curl`) are environment: what they do is modelled
  from how the programs use them.
* Six files: `chips_load_fingerprints` loads nothing when it finds more than five
  (`chips_api.c:842`), which `VerifyStart` has, but no instance of `TemplateStore` has so many
  other persons' files that an enrolment makes one too many.
* The order of the features within a template slot (`sort`, a bubble sort by area): it does
  not decide which finger matches.

## 7. Plan

An instance of `TemplateStore` with so many other persons' files that the own one is one too
many.

## 8. Running

    tlc -workers 2 -config Boot.cfg MCDevice.tla
    tlapm CommTestParser_proofs.tla

The module of each run is in `PROJECT.json`, under `runs`; the lines of source that each
definition models are there under `map`.
