# A TLA+ model of the STC-B driver

This directory is a verification project for `cloud-path-driver-stcb`, the Driver
plugin that connects STC-B boards (an 8051 on a serial port) to a Cloudpath Edge.
It holds TLA+ modules translated from the Go source, the TLC configurations that
check them on small instances, and theorems with proofs that TLAPS checks.

```
tlc -workers 2 -config CmdLine.cfg MCStcbCommand.tla     # one run
tlapm StcbCommandTruthProofs.tla                         # one module of proofs
```

`PROJECT.json` lists the components, the runs, a mutant for each property (a
plausible bug that makes the property fail under the same configuration), the
source lines behind each definition, the findings, the hazards and the theorems.
Mutants are the operators marked `\* mutant:` in the modules; no specification
uses one.

## 1. The system

One process holds one `Driver` (`plugin/driver.go`), which the Edge calls over
gRPC. Each call runs in its own goroutine.

| part | state | operations |
|---|---|---|
| Driver | `initialized`, `shutdown`, `cfgs` (under `mu`) | Initialize, ConfigureInstance, Describe, Discover, Health, Shutdown |
| device table | `devices`: instance and device id to `*device` (under `devMu`) | OpenDevice, CloseDevice, the lookup of Execute, Shutdown |
| device (`plugin/device.go`) | last state, sensor and diagnostic frames with their times, `protocolV1`, `dead`, `waiters` (under `mu`); `cmdMu`; `done` | openDevice, rxLoop / handleLine, write, writeSlow, markDead, Close |
| command path | the frame on the line, the waiter for its ACK | sendCommand: sendV1Command, sendV1ToneSequence (`plugin/music.go`), the legacy commands |
| Watch streams | `subs`: a channel of 64 messages for each stream (under `subsMu`); in each goroutine `lastOnline` | Watch, syncAll, emitObservations, subscribe, publish, unsubscribe |
| codecs (`protocol_v1.go`, `parser.go`, `command.go`) | none | parse a line, validate arguments, encode a frame |
| manifest validator (`scripts/validate_manifest.py`) | none | compare `plugin.yaml` with the code |

How they interact. OpenDevice opens a port and starts one RX goroutine for it;
that goroutine stores frames, hands ACKs to waiters, and pushes events into the
streams by a callback. Execute and Watch (its sync every so often, and its S and V
polls of legacy boards) write to the same port. Whoever notices that the port
failed marks the device dead and closes `done`. CloseDevice and Shutdown take a
device out of the table and close it outside the lock.

What is hard:

* **ACK correlation.** The board answers with the id it was given, cut to 11
  bytes. Replies are late, lost, or meet a caller that has just given up; the
  `select` that waits for them chooses at random among ready cases.
* **A board that acknowledges nothing.** Legacy commands take no lock and share the
  line with the polls of Watch; what confirms them is a frame that anyone may have
  caused.
* **Bytes into lines.** Reads end anywhere, lines may be noise, and one line can
  look like another; numbers and arguments have limits on every side.
* **A slow, lossy line.** Bytes go out one at a time, 20 ms apart. A context that
  ends in between leaves half a frame in the board's buffer. The board has one
  slot for a pending command.
* **Sequences of commands.** A tone-sequence is up to 64 commands under one lock
  with an optional shortcut that may be refused.
* **The life of a device.** Port failure, Close, Shutdown and the RX loop race;
  the table, the port and the goroutine do not change together.
* **Check then act.** OpenDevice reads `shutdown` and the configuration under one
  lock and acts under another; Watch reads the status twice.
* **Fan-out.** The RX loop publishes into channels that nobody may be reading.

What makes each part correct:

* command path: SUCCEEDED means that the board did it; no mixed bytes; a sequence
  is played once and unbroken; every call returns;
* legacy path: the answer never claims more than the frames show; the board is left
  ready for the next command; every call returns;
* RX and codecs: each line is handled once, as what it is; no impossible measurement
  is kept; both encoders accept what the README promises, but for two known departures,
  and send what the firmware can carry;
* device table: a port is never lost; the table is true; commands reach the right
  board; OK means what was asked for;
* streams: in order, own devices only, none left behind; the RX loop never waits
  for a consumer; the lasting status and the observations of a board arrive.

`hazards` of `PROJECT.json` lists each such point with its line and the properties
that cover it, or why none does yet.

## 2. The modules

| module | what it is |
|---|---|
| `CommandContract` | the promise of one board to its callers, without locks, bytes, replies or timers |
| `StcbCommand` | the v1 command path of one device, with its RX loop, its death and the board |
| `StcbCommandInv` | the inductive invariants of `StcbCommand`: `IndInv`, `LineInv`, `ContractInv` |
| `StcbCommandProofs` | type correctness of `StcbCommand` and `OnlyTornFramesGarble`, proved |
| `StcbCommandTruthProofs` | `IndInv`, `SuccessVouched`, `WaiterOwned`, proved |
| `StcbCommandContractProofs` | `SequenceUnbroken` and the refinement of `CommandContract`, proved |
| `StcbLegacy` | the legacy command path of one device, with the polls of Watch and the board |
| `StcbLegacyInv`, `StcbLegacyProofs` | its inductive invariant, and the proofs of its safety properties |
| `StcbLines` | the bytes of one board: `rxLoop`, `handleLine`, and the id and arguments of a command |
| `StcbCodec` | the parsers that `StcbLines` uses, as operators |
| `StcbLinesInv`, `StcbLinesProofs` | its inductive invariant, and the proofs of its safety properties about lines, ids and the device |
| `StcbEncode` | argument validation and both encoders, as operators, with the contract of README.md:117-122 |
| `StcbEncodeProofs` | what both encoders accept, measured by the contract, and that it fits the firmware, proved for every request |
| `StcbRegistry` | the device table and the requests that use it |
| `StcbRegistryInv`, `StcbRegistryProofs` | its inductive invariant, and the proofs of its safety and action properties |
| `StcbWatch` | the streams, the freshness of boards and the fan-out of events |
| `StcbWatchInv`, `StcbWatchProofs` | its inductive invariant, and the proofs of its safety properties |
| `MCStcbCommand`, `MCStcbLegacy`, `MCStcbLines`, `MCStcbRegistry`, `MCStcbWatch` | instances for TLC |

The components share no variable: each abstracts what it needs of the
others and says so. `StcbRegistry` ends a command with one `SendCommand` step
(the whole of `StcbCommand`), `StcbWatch` takes a sync as a step that returns
(`CallsReturn` of `StcbCommand` is what justifies that) and has a reduced table.

### StcbCommand

State. `pc`, `idx`, `sent`, `ret`, `result`, `ctxDone` are the local state of the
goroutines inside `sendCommand`; `cmdMu`, `waiters` and the one-slot channels
`chan` are shared; `dead`, `done`, `port`, `killer` (a started `markDead`) and
`closer` (a `Close` under way) are the life of the port; `rx`, `rxLoop`, `rxHold`
are replies in transit and the RX loop between its lookup and its send. The board
has `line`, `pending` and `played`. `torn` is a ghost: frames not sent whole.

| action | code |
|---|---|
| `SendCommand`, `LockCmdMu` | `sendCommand`, `parseToneSequenceArgs`, `cmdMu.Lock` |
| `Register` | `encodeV1Command` and `waiters[wireID] = ch` |
| `WriteByte`, `WriteFails`, `PaceElapses`, `PaceAborts` | `writeSlow` and `write`, byte by byte |
| `AwaitAck`, `AwaitTimeout`, `AwaitAborts` | the cases of the final `select`; none excludes another |
| `FrameReturns` | the deferred delete, then the fallback, the next note or the return |
| `GapElapses`, `GapAborts` | `waitSequenceGap` |
| `UnlockCmdMu` | the deferred Unlock and Execute's SUCCEEDED or FAILED |
| `RxLookup`, `RxDeliver`, `RxLoses`, `RxExits` | `handleLine` (two steps: the lock is released in between), lost lines, the end of `rxLoop` |
| `MarkDead`, `Close`, `Unplug` | `markDead` in its two steps, `device.Close` in its two steps, the cable |
| `BoardPlays`, `BoardRefuses`, `BoardResets`, `BoardReceives` | the firmware, external |

The firmware is not in the repository. Its model takes what the driver's comments
and README say: it consumes bytes into a line buffer, has one pending slot, answers
a line at most once, with the id of the line, and may take any time. `WireId` is
the truncation: a constant function, so that ids may collide or not.

`OwnCalls` are the calls whose id, cut to 11 bytes, no other call on the board has. What
the README promises of every command is promised to these. The syncs of Watch are not
among them: each has the id `sync-watch` (driver.go:755), and a board gets one every so
often. Of a call that shares its id, `SuccessVouched` says that a command of that id
was carried out, and `CommandContract` leaves open what is carried out for it
(`PerformShared`), beside the unbroken runs of the others.

### StcbRegistry

One thread is one request. A request is cut where the code releases a lock:
OpenDevice is a step under `mu` (the flag), one under `mu` (the configuration), one
under `devMu` (the lookup), and, with `devMu` held, opening the port, setting its
timeout, inserting. Discover is four steps: what it sends before it takes `mu`, its look
at the configuration under `mu`, the report, and the last message. Its Sends have
`context.Background()` (driver.go:427), so a consumer that does not read leaves it in
`report` or `finish` for ever; no fairness takes it out of there. A thread lends its name to the device it opens. `binding` is
the device's configuration; its name, baud and protocol are one attribute with a
default, because `sameDeviceBinding` treats them alike.

### StcbWatch

A handle is one opening of a device. `full` and `sensor` are the age of the last
frames (never, fresh, stale). A Watch is a sequence of steps, each one message to
the consumer or one look at shared state. Time is left out: a ticker may fire
whenever the loop waits for it, and a frame may lapse whenever it is fresh. The
channel of a stream holds `QueueCap` messages (64 in the code, 1 here: full is
reached at once, and a full channel behaves alike at any capacity).

### StcbLegacy

State. `pc`, `req`, `sent`, `before`, `told` are the local state of the calls inside
the legacy branch of `sendCommand`; `polls`, `poll` the ticks of each stream;
`sensor` the last frame with its time (a count of frames). A byte knows who wrote
it. The board keeps `line`, `clock`, `isp` and the frames in the `air`. `blame`,
`misread`, `disturbed` are history: whether a byte was lost or a frame cut into,
whether the board took something that nobody sent, and which calls did not have the
line to themselves.

| action | code |
|---|---|
| `SendCommand` | the encoders' refusals and the snapshot of the last frame's time |
| `Write`, `Pace` | `write` and `writeSlow`, byte by byte; sensor, isp and raw in one write |
| `WaitLooks`, `WaitEnds` | the loop of `waitSensorAfter`, its deadline and last look |
| `Claim` | the second snapshot, from which the answer is made |
| `Tick`, `Poll` | `reqFrame` of Watch: S, then V, each a step |
| `RxHandle`, `RxExits`, `MarkDead`, `Close`, `PortFails` | as in `StcbCommand` |
| `FrameLost`, and the board's `Takes` and `CarriesOut` | external |

The legacy firmware is external too. The encoders say how many bytes each letter
takes, and device.go:353 that only a new frame can confirm a clock; a command that is
not one writer's whole frame may do anything.

### StcbLines, StcbCodec, StcbEncode

A text is a sequence of tokens: a token for each character that the code looks at,
and one for a word that it compares as a whole. `Read` takes some bytes of the
wire and drops what is too long without an end; `TakeLine` takes one line of the buffer
and gives it to `HandleLine`. It is a step for each line, since the mutex of the device
is free between two of them and a command may register its waiter there; the next Read
waits until no line is left. `HandleLine` is the order of the parsers in `handleLine`.
`handled` is history: what each line was and where in the stream it ended. `Execute`
encodes a request, registers its waiter, and lets the board answer with the id that
it finds in the command line. Arguments are objects over a few values at and next to
each limit, lists with `null` in them, `null`, a value of another type, or no object at all.

`EncodeV1` and `EncodeLegacy` follow the code, one operator for each case of the
first and each encoder of the second. `Field` and `Filled` are what encoding/json does: a
key that is absent or `null` leaves the zero value, a `null` in a list leaves 0. `Frames`
are all the frames of a request: the notes of a tone-sequence go through the encoder as
tones (`NoteRequest`), and a raw frame is its text.

Beside them, `Contract` is written from the text of README.md:117-122 alone, as rules on the
values: it knows no limit of the total, and a `null` is a value that no rule admits. The code
departs from it in two ways: it judges the arguments as the decoder reads them (`AsRead`),
and it limits the length of a sequence (`WithinTotal`). `Due` is the contract with these two
departures. `AcceptedPerContract` says that what is accepted is `Due`, and `Contract` itself
for every request without a `null` and within the limit (`AsWritten`). `Fits` is written from what the
firmware's fields can hold, `Stops` and `AsksStop` from the letter D of a legacy board
(README.md:114). None uses the validation of the code.

## 3. The runs

"Bounds" are the constants; each run reaches every state within them. The type
invariants of `StcbCommand`, `StcbRegistry`, `StcbWatch`, `StcbLegacy` and `StcbLines`
are the first conjuncts of the inductive invariants `IndInv`, `RegistryInv`, `WatchInv`,
`LegacyInv` and `LinesInv`, and are checked with them.

| run | properties | what it shows, and the bounds |
|---|---|---|
| `CmdLine` | SuccessVouched OnlyTornFramesGarble WaiterOwned LineInv | three plain commands of 2 bytes, one with an id of its own and two that share theirs, as the syncs of Watch do; cancellation, lost bytes and replies, board restart |
| `Sequences` | SequenceUnbroken IndInv ContractInv KeepsContract | a song with fallback and a sequence with gaps, two notes each, whose frames share wire ids; cancellation, lost bytes and replies, restart, Close; refinement of `CommandContract` and the inductive invariants |
| `CallsReturn` | CallsReturn DeathNoticed | liveness: a sequence with gaps, a command, a sequence whose id cannot be encoded; unplug, Close, the end of OpenDevice's context |
| `Requests` | NoPortLeaked TableTruth ClosesItsOwn OpenOkMeansBound RegistryInv NeverTheDefaultBoard NeverReplaced FoundCanBeOpened RequestsReturn | three overlapping requests out of a dozen: two instances that share a device id, two devices, two ports, configurations with and without defaults; the last property is liveness: only a Discover whose consumer does not read may stay |
| `Streams` | EventsInOrder NothingLeftBehind WatchInv RxNeverStuck WatchReturns | one stream, three openings: its device twice, and a device of another instance with the same id, which send events only; two messages, a channel of one; a consumer that refuses, cancels or never reads, a device that dies, is closed and reopened, Shutdown; the last two are liveness |
| `BoardStatus` | StatusSettles ObservationsFlow LegacyComesOnline | liveness: a v1 and a legacy board behind one id, lapses, deaths, close and reopen |
| `Legacy` | ClaimsAreNew SyncConfirmed SentWhole OnlyOverlapMisreads LegacyInv LegacyReturns | a sync or isp beside a led, sensor, diag or raw, and one poll of Watch; lost bytes and frames, cancellation, unplug, Close; the last property is liveness |
| `Lines` | LinesInv LinesComplete IdsSurvive StoredInRange ViewOfLines AcceptedPerContract FramesFit | two texts of the board out of 23, read in pieces of 24 or 40 bytes or all at once, or one text and an answer to one of six ids; 2324 requests |

Why the bounds are enough. A frame of two bytes has a first, a last and a
place between them where it can be torn; more bytes repeat the same choice. Three
calls give one holder of `cmdMu`, one that waits and one whose late replies are
still in transit; in a sequence every note leaves replies behind for the next.
Two notes give a first, a next and a gap. Three requests are a
racing pair with what led up to it. In `Legacy` a frame has at most two argument
bytes (8 in the code), which is a place before, between and after them; two calls and
a poll give every pair of writers. In `Lines` the flood limit is 72 tokens (200
bytes in the code), more than a state line has, an id is cut to 3 characters (11), a
tone-sequence has at most 3 notes of 450 ms together (64 and 60000), so that each
limit is met from both sides; requests with other arguments are made on a device
that has heard nothing, since neither encoder looks at the device. The theorems of section 5 do not
depend on any bound. `CmdLine` has no failing port: `Sequences` closes it and `CallsReturn`
unplugs it. The boards of `Streams` send events only, so a snapshot that is refused within
the loop (driver.go:728-731) is met by the theorem `NothingLeftBehindHolds` alone.
`MaxMessages` bounds the messages of a run of `StcbWatch`;
streams share nothing but `publish`, which handles each by itself, so one stream
with a second instance beside it stands for many.

Deadlock is checked in every run; a system whose requests have all
returned stutters through the explicit action `Quiet`.

### Fairness

* `StcbCommand!Fairness`: a runnable goroutine runs and a timer fires (weak
  fairness of each call's steps, of the RX loop's steps after a failure, of
  `markDead`, of a `Close` under way). Waiting for `cmdMu` is strongly fair: a
  `sync.Mutex` goes into starvation mode after 1 ms and hands over in order.
  Nothing is assumed of the board, the line, the cable or contexts.
* `StcbRegistry!Fairness`: weak fairness of the steps of a request between its waits, strong
  fairness of taking `devMu`. No request has to come. The Sends of a Discover are under no
  fairness (`Sends`): driver.go:427 gives them a context that never ends, so they return
  when the consumer reads or breaks off, or never. `RequestsReturn` therefore says of
  a Discover that it gets as far as a Send, and of every other request that it returns.
* `StcbLegacy!FairSpec`: the goroutine of a call runs and its timers fire: the 20 ms
  between bytes and the deadline of the wait. Nothing is assumed of the board, the
  frames, the polls or the contexts.
* `StcbWatch!Fairness`: the Driver's own steps; a `select` that finds the context
  done again and again takes that case in the end, because Go picks at random; a
  `Send` whose context is done returns. `LiveSpec` adds a consumer that reads,
  tickers that fire and a legacy board that answers a poll. Only the properties
  about what a stream *receives* need it.

## 4. Findings

Four runs end in a violation. Each states what the repository says and shows a
behaviour of the code that contradicts it.

| run | the repository says | the code does |
|---|---|---|
| `IdCollision` | README.md:103: SUCCEEDED only after the ACK with the same id | ids are compared by their first 11 bytes; a late ACK of a timed-out command is taken for the ACK of the next, if the keys agree in those bytes |
| `ShutdownRace` | driver.go:934: Shutdown closes the devices | OpenDevice checks the flag, Shutdown runs, OpenDevice inserts an open port |
| `DeadReopen` | driver.go:532: OpenDevice opens the port and starts the RX loop | for a device in the table it answers OK, dead or not |
| `FirstStatus` | device_status_test.go:13-40: the status is that of the freshness of the frames | Watch reads it twice (driver.go:631 and 691); a first frame in between is never reported |

`ShutdownRace` lasts as long as the process does: `main.go` ends it 100 ms after
Shutdown has returned, and the port with it. A host that embeds `Driver` without
`main.go`, as the tests do, keeps the port.

More differences were met and have no run of their own. README.md:119 says that a missing
value, a `null` or several alternatives are an error: encoding/json makes a `null` in `digits`
or `codes` a 0 (command.go:176, protocol_v1.go:241) and takes a `null` for `gap_ms` as absent
(music.go:31), and both are accepted. README.md:118 gives a sequence 1-64 notes of 10-1200 ms
and gaps of up to 1000 ms: more than 60 s in all is refused too (music.go:86), as 64 notes of
1200 ms are. `AcceptedPerContract` shows that the encoders depart from README.md:117-122 in
these two ways only. README.md:109 says that
a disconnected port closes the Watch of its device: no Watch waits for `Done()`
(device.go:189 has no caller); the stream stays open and reports the device
unavailable (`StatusSettles`). device.go:270-272 says that commands are serialized
because the board has one pending slot: after an ACK timeout or a cancellation the
lock is released while the slot is taken, and the next command meets a busy board;
`SuccessVouched` shows that it is not reported as a success. README.md:108 says that the
commands of a board are serialized: legacy commands are not, nor are the polls of
Watch (`Writes` of `StcbLegacy`; `OnlyOverlapMisreads` says what this can cost).
device.go:353 says that a new frame alone can prove a sync: a frame that Watch asked
for before the clock was set is also new, which is why `SyncConfirmed` speaks of a
sync that had the line to itself. README.md:118-119 says that several alternatives are
refused: validateActionArgs compares keys exactly and encoding/json without regard to
case, so `{"pattern":3,"Mask":7}` counts as one alternative and lights mask 7. A full
state with a signed clock (`-9:59:00`) is kept, for only upper bounds are compared
(protocol_v1.go:86). A `poll_interval_s` above 9223372036 overflows at driver.go:254
to a negative interval, of which a ticker cannot be made. A board that has
sent one full state and since then only V frames is reported by the old full state
(driver.go:778).

`CommandTruth`, that SUCCEEDED means that the board carried out this very call, is what
README.md:103 says of every command. It fails with colliding ids. What holds in every
behaviour, with no assumption on ids, is `SuccessVouched`: a call that has its id for
itself was carried out; of one that shares it, a command of that id was. So a sync may
take the late ACK of the sync before it for its own, an outcome that `syncAll` drops
(driver.go:755), and cannot mislead a command of the Edge whose id differs. `OwnSuccessIsTrue` is `CommandTruth` for
the calls with ids of their own. The frames of one call may share an id (a 10-byte key
makes `<key>-1` and `<key>-2` equal on the wire), and the proof shows that this is
harmless: a call goes on only when the reply of its present frame has come.

## 5. What is proved

Every safety and action property that a passing run checks is also a theorem, for all
values of the constants:

| module | theorems |
|---|---|
| `StcbCommandProofs` | `Typing`, `LineHolds`, `OnlyTornFramesGarbleHolds` |
| `StcbCommandTruthProofs` | `Induction`, `SuccessVouchedHolds`, `OwnSuccessIsTrue`, `WaiterOwnedHolds` |
| `StcbCommandContractProofs` | `ContractInduction`, `SequenceUnbrokenHolds`, `KeepsContractHolds` |
| `StcbRegistryProofs` | `RegistryHolds`, `RegistryTyping`, `NoPortLeakedHolds`, `TableTruthHolds`, `ClosesItsOwnHolds`, `OpenOkMeansBoundHolds`, and the action properties `NeverReplacedHolds`, `NeverTheDefaultBoardHolds`, `FoundCanBeOpenedHolds` |
| `StcbLegacyProofs` | `LegacyHolds`, `LegacyTyping`, `ClaimsAreNewHolds`, `SentWholeHolds`, `SyncConfirmedHolds`, `OnlyOverlapMisreadsHolds` |
| `StcbLinesProofs` | `LinesHold`, `LinesTyped`, `LinesCompleteHolds`, `IdsSurviveHolds`, `StoredInRangeHolds`, `ViewOfLinesHolds`, and `IdReadBack` about the operators |
| `StcbEncodeProofs` | `EveryRequestIsProper`, `AcceptedPerContractHolds`, `FramesFitHolds` |
| `StcbWatchProofs` | `WatchHolds`, `WatchTyping`, `EventsInOrderHolds`, `NothingLeftBehindHolds` |

Each module has one lemma for the initial states, one for each action (or each
action and group of conjuncts), one that joins them over `Next`, and temporal
theorems that only combine. `Calls`, `Threads`, `Watches`, `Handles`, keys, notes,
bytes, messages, polls, the texts of a board and the sizes of reads are unbounded in
them: the theorems say for every number
what the runs say for two or three. Each inductive invariant is an invariant of a run.

### Assumptions

The named assumptions of each module are the types of its constants and what the
code says of them; TLC evaluates each in every run.

* `StcbCommand`: a frame has at least two bytes (a newline and something before it),
  a sequence at least one note (`parseToneSequenceArgs` refuses an empty one).
  Nothing is assumed of the wire ids: the theorems hold with any collisions, and what they
  say of a call depends on whether it is in `OwnCalls`.
* `StcbRegistry`: no device id and no port is the empty string, which stands for
  "not given" in the code too.
* `StcbLegacy`: S, V and D carry no arguments (`reqFrame` sends two bare letters,
  sensor and isp are one byte: device.go:334-380); a call and a stream are not the
  same writer.
* `StcbWatch`: device ids are numbers, because `deviceIDsFor` sorts them and the
  proof needs an order; a channel holds at least one message. Nothing bounds the
  devices that are open: that they are finitely many at each moment is part of the
  inductive invariant, as it is in `StcbRegistry`.
* `StcbLines`: a request has one of the public actions and any JSON arguments
  (`IsRequest`): each value is of one JSON type, and what the model keeps of the other
  types is empty; a list may hold `null`. Keys are unbounded in number, each given once and in
  its own case; numbers are any integers. Texts and ids
  are sequences of any tokens, among them those of a board's answer
  (`TextsAssumption`), and "nothing yet" is none of the values it stands beside
  (`NoneAssumption`).

### Why SuccessVouched needs an inductive invariant

`SuccessVouched` speaks of results; whether a
result is right depends on which reply sits in the channel, which depends on which
waiter was registered when the RX loop looked, which depends on what replies could
still be in transit. `IndInv` follows that chain backwards:

1. `LockInv`: the only waiter is that of the frame of the holder of `cmdMu`.
2. `DebtInv`: the board owes each frame of a call with its own id at most one reply, and that debt is in
   exactly one place: bytes in the line, the pending slot, in transit, held by the
   RX loop, or in the channel.
3. `PresentInv`: only the present frame of such a call, once sent, can have a debt; a
   call moves on to its next frame only when the debt was paid.
4. `ReplyInv`: a reply carries its frame's id, is "ok" only for what was played, and
   lies in a channel of that id; if the id is one call's alone, the waiter found under it
   belongs to that call, and by 3 to the same frame.
5. `PaidInv`, `TruthInv`: a call that goes on or succeeds has been paid, and what it
   claims is vouched for.

2 and 3 say nothing of calls that share their id: such a call may be paid with another's
reply, and the proof shows that it cannot take one of a call outside its group.

### The line, and the contract

`OnlyTornFramesGarble` speaks of the moment when the board reads a line end. `LineInv`
says what the line holds at every other moment: if none of its bytes is of a torn
frame, it is exactly what the holder of `cmdMu` has sent of its present frame.
Tearing is the only thing that can happen to a frame without its last byte, so a
line that was not torn is a prefix of one frame. No reply comes into it, and so no
assumption on ids.

`SequenceUnbroken` and the refinement need more than `IndInv`, which says that what
was claimed was played, and not that nothing else was. `ContractInv` adds, for the calls
with ids of their own:

1. `OnceInv`: what was played is behind its call and no longer in the line or the
   slot: no frame is carried out twice.
2. `RefusedInv`: "unknown" means that the frame was not played, wherever the
   reply is, and a call that has fallen back to its notes has no song that was played.
3. `RunInv`: while a note is due, the note before it is the last thing the board did,
   and nobody else's frame is in the slot. A call that gave up may leave its frame
   there; what excludes it is that the note before this one passed through the same
   slot and was answered.
4. `ReportInv`: a call reports at its end only.

`KeepsContractHolds` then maps each step: a board that plays is a `PerformWhole`, `PerformFirstNote` or
`PerformNextNote` of the contract (allowed by 1-3), or a `PerformShared` if the frame is of
a call that shares its id; a call that returns is a `Succeed`
(allowed by `SuccessVouched`) or a `Fail`, every other step is a stutter.

### Device table, legacy path, streams

* `RegistryInv` gives each device one owner at a time: the request that opens it while
  it holds `devMu`, then the table, then the one request that took it out. The four
  properties are views of this. The key of a device that is being opened stays free
  because only the holder of `devMu` inserts (`LockInv`); that a device answered OK has
  the binding asked for needs `Made`, which ties a binding to the request of its
  opener for ever. A first version lacked that only a Shutdown swaps the table:
  harmless in the runs, but not inductive.
* `LegacyInv` says how far each call is, and what follows for the board as long as
  nothing was lost and nobody came between (`InStep`): its buffer is empty or holds what
  the one call that is halfway has sent. For a sync alone on the line, every frame
  since is of its own clock (`AloneInv`).
* `WatchInv` ties the subscription to the place in the loop (`PhaseInv`), what was told
  to how far the snapshots are (`ToldInv`), and numbers all messages: forwarded before
  waiting before to come (`OrderInv`). `RoomInv` is about the bound `MaxMessages` of the
  model.

### The lines of a board

`LinesComplete` compares what was handled with the whole stream that the board has
written. `LinesInv` says where in that stream everything is:

1. `PlaceInv`: the wire is its end and the buffer the piece before, byte for byte.
2. `DroppedInv`: the buffer begins where the last line ended, or more than `FloodLimit`
   bytes behind. A `Read` that floods throws away what is known to have no end of
   line, so the next line is handled from behind it, and the line after that whole.
3. `ReplyInv`: the channel of the waiter is empty as long as no line since the command
   answers it, and holds the first that does; a full channel drops the later ones.
   The board's answer carries the waiter's id because an id that `IdOk` lets through
   is what `Cut3` finds again between two colons (`IdReadBack`), and the driver reads
   it back from the answer in the same way (`AnswerRead`, `AckRead`). `IdsSurvive` follows
   in each state.
4. `EventsInv`: only what a line said is published.

What a line does to the device is one lemma, `Handling`: each field of the device depends
on one kind of line. `FirstWords` shows that no line is of two kinds, which is why the order
of the parsers only matters for V frames. `FieldFacts` and `FullStateFacts` bound what
the parsers accept; from there `StoredInRange` and `ViewOfLines` are steps: the line taken
is the latest of its kind or of no kind that the field knows.

Two properties turned out to be false as they were first stated, on texts that the run
did not have. That a V frame counts when its line "is no line of Protocol v1" is not a
matter of the first word alone: a DIAG or ACK line that its parser refuses falls
through to `ParseSensor`, and digits of a V frame in it are a measurement (device.go:174).
And the waiter gets what the board answered only if no other line with its id came
before, which a board may well write. Both are now stated as the code has it, and the
run has such texts.

### The encoders

`AcceptedPerContract` and `FramesFit` follow from what `Execute` stores, so the proof is
not in the steps but in `EveryRequestIsProper`, a statement about the operators, with
one lemma for each action: what is accepted is `Due`, the contract of the README on the
arguments as the decoder reads them, and the total of a sequence (`NoDeparture` is the other half: without a null and
within the total that is the contract itself); what is sent fits and
holds a D on demand only. `Validation` and `OneGiven` say what `validateActionArgs`
lets through, `GivenFacts`, `AbsentFacts` and `ReadFacts` what a decoded field is worth, null places included; a lemma
then shows that what is let through, decodes and passes the encoder's checks is what the
contract lists. Where code and contract say the same thing differently (digits of a
time against hours and minutes, remainders against tens, counting keys against excluding
them) the two are joined by `ClockFacts`, `TimeFacts`, `TensFacts` and `OneGiven`.
`NoteSent` shows that a note that passes the check of the sequence (music.go:55) passes the
encoder's as well (protocol_v1.go:191), so that no sequence fails halfway for its
arguments. The run tries 2324 requests; the lemma covers all.

### Only model-checked

* Liveness (`CallsReturn`, `DeathNoticed`, `RequestsReturn`, `WatchReturns`,
  `StatusSettles`, `ObservationsFlow`, `LegacyComesOnline`, `LegacyReturns`,
  `RxNeverStuck`): TLAPS does not reason about fairness and ENABLED here.
* What `strings.Split` and `strconv.Atoi` return for every text: `Split`, `SelectSeq` and
  `FoldLeft` are recursive, and what they compute is induction over data. The proofs of
  section 5 need only what the parsers check afterwards. `TotalMs` is a fold too, the sum
  of a tone-sequence: the proof only needs that code and contract bound the same sum.
* The four violations of section 4, which are counterexamples.

## 6. What is not modelled

* configuration decoding (`configScalar`, `pollInterval`): two pure functions; the
  refusal of a bad number is in `StcbRegistry`, and the overflow needs 64-bit
  numbers, which TLC does not have;
* `TempC`, which is floating point; the words of a line that are only passed on; the
  text of a v1 command (its verb and numbers are kept); keys given twice or in
  another case, which the decoder takes for one; the song that the driver names itself;
* a board that turns out to speak v1 in the middle of a legacy command;
* Describe, Health, the capability descriptors and `main.go`: no state changes;
* the manifest validator: a build-time script over static files;
* values of observations, wording of errors, sequence numbers of messages;
* time: windows, deadlines and intervals are choices that can happen at any moment.

## 7. Plan

1. *Done*: command path, device table with Discover, streams, legacy path, lines,
   parsers, validation and encoders.
2. *Done*: the safety properties of the command path, the device table, the legacy path
   and the streams proved, and the refinement of `CommandContract`.
3. *Done*: what the encoders accept, against the contract of the README, and that it fits
   the firmware, for every request.
4. *Done*: a step for each line, and the safety properties of the lines proved for any
   texts, ids and reads.
5. Next: `Manifest`, the validator's comparison of declared and real capabilities; configuration
   decoding, with its interval as a number of 64 bits.
