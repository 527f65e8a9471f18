# A TLA+ verification project for the wardriving rig

The repository turns a Raspberry Pi into a wardriving rig. Its own core is a
user-space driver for a three-radio WCH BLE Analyzer (`ble-driver/`, C, one
process and one thread), which writes a PCAP file and a JSON-lines feed, and a
small web application (`webapp/`) that shows the feed beside what a Kismet
server reports. An installer and systemd units keep the parts running.

## Inventory

| Part | State it keeps | Operations | Interacts with | What is hard |
|---|---|---|---|---|
| USB frame reassembly (`wch_read_packets`, first half of `wch_decode_transfer`) | `rx_carry`, `err_count` | read one transfer, find complete frames, decode, carry the rest | firmware byte stream below, packet callback above | frames cut anywhere, two scanners with different rules, timeouts with data |
| Link encryption (`ble_crypto.c`) | LTK, key halves, session key, `encryption_active`, two packet counters | observe a control PDU, decrypt a PDU, reset on CONNECT_IND | called from the tail of `wch_decode_transfer` | missed and repeated packets, several sessions and connections |
| Connection tracking, timestamps, direction (`wch_decode_transfer`, `classify_data_packet`) | connection parameters, generation, SN/NESN state, 64-bit clock | one step per data record | resets the crypto state | clock wrap, first packet of an event missed, stale connection |
| Channel selection and timing (`ble_connection_follow.c`) | none, functions of the connection parameters | CSA#1, CSA#2, transmit windows, whitening, CRC | used by the tests and tools | arithmetic, overflow near 2^64 |
| Capture program (`main` of `wch_capture.c`) | `g_stop`, per-radio open/started/errors, channel slot, exit status | open, start, drain, wait, disable, stop | libusb, signal handler, systemd | failure of any radio at any call, signals at any point, fairness between radios |
| Outputs and live feed (`json_write_packet`, `pcap_write_packet`, `webapp/ble/reader.py`) | append-only JSON lines, timestamped PCAP | append a line; read the tail | file shared by two processes | kill inside a line, reading while it grows, clock steps |
| Dashboard (`app.py`, `kismet_client.py`, `stats.js`) | page state in the browser, worker pool | poll, render, download | Kismet REST API | overlapping polls, workers held by slow calls, temporary files |
| Installer, scripts, units | `config/rig.conf`, generated files | bootstrap, secrets, render, restart | systemd | re-run after an interruption |

What makes each part correct:

- *Reassembly*: every record the firmware sends reaches the callback once, in
  order and whole, whatever the cuts; nothing overflows; nothing is invented.
- *Encryption*: a capture that missed nothing essential decrypts everything
  else; no packet counts twice; state of an old session never leaks into a
  new one.
- *Capture program*: it runs only while a radio does; the channels of the
  radios that work have no gap; the exit status tells the service manager the
  truth; a stop is obeyed soon and cleans up; no radio starves.
- *Direction, clock, channel selection*: inference agrees with the link when
  nothing is missed; arithmetic agrees with the reference at every boundary.
- *Feed*: a reader never shows what was not written and misses no whole line
  of its window, but for one that the window may have cut.
- *Dashboard*: what a page shows is of a bounded age and recovers with Kismet;
  a slow Kismet does not take the last worker.
- *Installer*: a run may be repeated from wherever an earlier one stopped.

## Modules

| Module | What it is |
|---|---|
| `FrameChannel` | abstract: a lossless FIFO channel of records |
| `FrameStream` | the reader of the bulk endpoint, one action per loop iteration; refines `FrameChannel` |
| `MCFrameStream` | its small instances: which frames the firmware sends |
| `FrameStreamProofs` | theorems about `FrameStream` |
| `CaptureLoop` | the capture program, one action per step of `main` that another actor can observe |
| `CaptureLoopProofs` | theorems about `CaptureLoop` |
| `DeviceClock` | the 32-bit clock of a radio extended to 64 bits, on its own |
| `ReceivePath` | `DeviceClock` with the connection followed and the direction classifier, beside two peers |
| `ReceivePathProofs` | theorems about `ReceivePath`, one that it refines `DeviceClock` |
| `BleCrypto` | `ble_crypto.c` as functions on its state, with symbolic cryptography |
| `EncryptedLink` | `BleCrypto` driven by the receive path beside two peers that run the Link Layer's encryption procedures |
| `MCEncryptedLink` | its small instances |
| `EncryptedLinkProofs` | theorems about `EncryptedLink` |
| `Csa2` | the permutation of CSA#2, bit by bit |
| `ConnectionFollow` | parsing, windows, channel selection and radio events beside a connection that hops |
| `MCConnectionFollow` | its instance: followed and refused CONNECT_INDs |
| `ConnectionFollowProofs` | theorems about `ConnectionFollow` |
| `Arithmetic` | lemmas on products, quotients and remainders that proof modules cite |
| `LiveFeed` | the writer and the reader of the JSON-lines feed |
| `MCLiveFeed` | its instances: what is on air |
| `LiveFeedProofs` | theorems about `LiveFeed` |
| `Dashboard` | one open page, the workers and Kismet |
| `DashboardProofs` | theorems about `Dashboard` |
| `Installer` | runs of `install.sh` |

Each module that has mutants also holds, directly before the definition they
replace, operators marked `Fault:`. They are plausible mistakes at that place
and are used by nothing else.

The modules cut the path of a packet where the code has an interface.
`FrameStream` ends at a record with an opaque payload; `ReceivePath` and
`EncryptedLink` begin there, the first with the header and its SN/NESN bits,
the second with the PDU. Both follow the same handler, `wch_decode_transfer`,
and they share no state but `connection_active`, which each one keeps.
`CaptureLoop` knows only how many reads a radio gets and whether they fail.
`LiveFeed` begins at the packet that is printed and ends at the list the
dashboard is given.

### FrameStream

`wire` is the byte stream the firmware has sent and no transfer has taken.
`Transfer(n)` is a successful `libusb_bulk_transfer` of `n` bytes placed behind
the carried ones; `ScanResync`, `ScanFrame`, `ScanDone` are the iterations of
the first loop, `Decode...` those of the second, one action per branch; `Return`
stores the carry. `Timeout(n)` and `TransferError(n)` are the two returns of a
transfer that did not succeed: both leave at once and, as the code does, ignore
the `n` bytes that had moved (`n = 0` unless `PartialTransfers`). The BLE contents of a record are one opaque payload here.
`sent` and `ledger` are history of the firmware's side: the records that were
sent, and for each frame where it ends in the stream and how many records and
errors there are up to it. No action of the reader looks at them; the
properties compare with them what a call has reported.

The code cannot tell a frame of unknown type from noise, so what it promises
has a premise, `Unambiguous`: every emission is a data or status frame of an
accepted length, with any payload at all, or it is `Quiet`, with no byte behind
its first that looks like the start of a frame; and no transfer times out or
fails with bytes moved. `MCFrameStream` asserts the first half of the frames it sends in
`FrameStream_whole` (`Distinguishable`). Findings 1 and 2 below are what
happens where each half of the premise fails.

### CaptureLoop

`pc` names the statement `main` is at. A libusb call is one step with every
result `main` distinguishes. `Signal` is enabled between any two steps.
`streaming` is the state of the firmware: what a radio does when its host is
gone. `stopFailed`, `failsInRow`, `signalled` and `readsAfterStop` only remember
what happened; no step of `main` looks at them. `failsInRow` is counted on the
side of the radio, and `GivenUpWhenPersistent` compares with it what the code's
own count, `errs`, has led to.
`StartSucceeds`/`StartFails` keep of the start sequence what `main` and the
firmware can tell apart: whether it succeeded and whether the firmware was
already configured when it failed.

`CleanUp` writes the stop frame of `wch_stop_capture`
(`wch_ble_analyzer.c:295-314`), and that the firmware obeys it is taken from
`wch_protocol.h:38` and `OFFICIAL_PROTOCOL_NOTES.md:15`. The comment beside the
declaration says the opposite; see under the runs. `QuietExit` says exactly
which radios that had started may be left capturing: one whose stop could not
be written, and one that was given up after read errors, to which the code
sends nothing. A radio whose start sequence failed after the AA81 write is left
as it is too, and nothing in the repository promises otherwise.

### DeviceClock and ReceivePath

`Stamp` is what the handler does with the time of any record it reports. `now`
is the time since the firmware's boot, of which only the remainder by
`ClockPeriod` is in the record. `slipped` remembers that two records were a
whole period apart: from then on the extended time is late, which no receiver
of 32 bits can know.

`ReceivePath` adds `classify_data_packet` and what a CONNECT_IND sets. The
peers run the one-bit acknowledgement: `sC`, `rC`, `sP`, `rP` are true packet
numbers, of which only parities are on air. Each packet reaches the other peer
intact, with a bad CRC or not at all, and independently the radio captures or
misses it. The record of a CONNECT_IND may be missed or its parameters refused
while the firmware follows the connection all the same. Nothing in the receive
path clears `connection_active` (`wch_start_capture`, `wch_ble_analyzer.c:278`,
and `wch_stop_capture`, `:310`, do, before and after all reading), so
`Disconnect` changes nothing of the host.

The direction is inferred, so `DirectionFaithful` has a premise, `anchored`:
the first packet captured of an event was a central's, and the peers had
exchanged something. Which packet opens an event is told by the phase bit of
the packet captured before it in the same connection (`lastPhase`), never by
what the classifier has kept: a phase that survives from an earlier connection
is therefore a violation, and the mutant of the property is this mistake
(`AcceptKeepingPhase`). Without the first the code takes a peripheral's
packet for a central's; without the second, SN and NESN are equal in both
directions. TLC finds a violation when either half is dropped.

### BleCrypto and EncryptedLink

A session is a number; LL_ENC_REQ and LL_ENC_RSP carry its halves, and a MIC
authenticates one direction and one counter under one (LTK, half, half) triple.
Chance collisions of a 32-bit MIC are left out, so the order in which counters
and directions are tried does not matter, only the set tried. The peers are the
environment: they connect, encrypt, send data, pause, encrypt again, terminate
or vanish, one new PDU in flight per direction. `Retransmit` sends a PDU again
while its acknowledgement is outstanding. Each transmission is either captured
(`Capture`) or missed (`Miss`). `CaptureCiphertext` is the case of a missed
LL_START_ENC_REQ: ciphertext taken for plaintext whose first byte may be any
opcode. That it cannot be misread as LL_ENC_RSP (13 bytes) or LL_ENC_REQ (23)
holds of the modelled peers only, which send no long control PDU while
encrypted; one that did could make the sniffer replace a key half
(`ble_crypto.c:212-246`). No property depends on it: a capture in this case has
missed something essential already. Empty PDUs carry no counter and are left
out.

### Csa2 and ConnectionFollow

The library has no state: its caller keeps a `ble_conn_params_t` and calls in
some order. `Hear(p)` is the parser, with every check in the order of the code;
a refused PDU leaves `*out` as it was. `ble_conn_make_radio_event` is one action
up to the remapping table, one per channel while the table is built, and
`Select`. Beside it runs the connection, `Hop`, as the Link Layer specification
defines it, event by event and with a counter that wraps. Times are in units of
1.25 ms and `MaxTime` stands for `UINT64_MAX`; sums wrap there.
`ble_csa2_prn_e` is a constant of `ConnectionFollow`: the proofs hold for any
function into 16 bits, and `MCConnectionFollow` gives it the one of `Csa2`.

### LiveFeed

Half a line is the unit of size. `BeginLine` and `EndLine` are the two halves
of one `fflush`, since a reader may see the first without the second;
`ShortWrite` drops the second for good (disk full, power lost), and the next
line is glued to what is left. A line is far below the buffer of stdio and is
written by one system call, so killing the process does not tear one. A
request is `Request` (`time.time()`), `GetSize`, `ReadTail`, one `Turn` per line
of the loop of `recent_devices`, and `Return`; up to `ReadTail` the feed grows
and time passes in between, after it the loop works on what was read and nobody
else moves. `Answered` is the end of the loop, where `list` is what the call
returns. Age, `now - host_timestamp`, stands for both clocks: `Tick` raises it,
`SetBack` lowers it, below zero too; ages are told apart as far as the age test
of a call can see.

`IntactLinesSeen` exempts a whole line that begins exactly with the window's
first byte: `_tail_lines` drops it (`reader.py:95-96`), as it cannot tell it
from the end of a longer one. Such a line is one record in a window of hundreds
and is not counted as a fault.

### Dashboard

Time is in seconds, and a `Tick` happens only when nothing else is due: a
request waits for a worker only while all are busy, and a server that is up
answers at once. `Poll` sends the four requests of `refreshAll` without asking
whether earlier ones were answered. A request holds its worker until Kismet
answers (`Respond`), refuses (`Refuse`) or the time-out of that call expires
(`TimeOut`); `api_status` makes two calls. `shown` is what a tile shows and the
age of the request it was the answer to.

One page is modelled, which is what the comment of the systemd unit counts on.
With two pages and a hanging Kismet the calls need 7.2 workers and the queue
grows without bound. The unit's comment speaks of four Kismet-backed endpoints;
the code has three (`api_ble_devices` reads the feed), and with them six workers
leave exactly one to spare. A `fetch` that fails by itself, which the `catch`
of `stats.js:79` swallows, leaves the tiles as they are and is not modelled; nor
are the browser's own limit on connections and answers that trickle in (the
time-outs are per read).

### Installer

The steps of `install.sh` that read or delete what an earlier run left: the
copy of the clone, `rig.conf`, the apt source and key, the virtual environment.
`install_kismet` may fail before or after the key has come.
Every step may be the last one (`Interrupt`), the network comes and goes.
Steps that write the same files again on every run are left out.

## Runs

| Run | Checks | Bounds, and why they are enough |
|---|---|---|
| `FrameStream_whole` | types, carry bound, complete decoding, error count, refinement of `FrameChannel` | payloads of at most 4 bytes, three emissions out of eight kinds, a 10-byte transfer: frames span up to three transfers, look-alike headers lie inside frames and across cuts, every branch of both loops fires |
| `FrameStream_nested` | `AllFramesDecoded`, violated | as above with a frame of unknown type that holds a data header |
| `FrameStream_timeout` | `NothingInvented`, violated | transfers may time out or fail with bytes already moved |
| `CaptureLoop` | bookkeeping, channels, exit status, bounded stop, when a radio is given up, clean-up, progress of every step, termination, service of every radio | three radios as in the hardware, two drains per pass for 32, two read errors for five: the bounds are compared with, never computed with, and two is the least that separates the first from the last |
| `EncryptedLink` | types, decryption of an intact capture, increasing counters, exact retransmission marks | two connections, two sessions, three counters per direction, a window of two: a gap can be inside or beyond the window, and a second session can meet every state left by the first |
| `EncryptedLink_rekey` | `CapturedExchangeYieldsKey`, violated | one connection without repetitions |
| `ReceivePath` | types, directions, sequence classes, attribution, exact time and intervals, monotone stamps | a clock period of 2 and 4 units of time: two wraps, and silences of more than a period; two connections and two packets a direction, as only parities are on air |
| `ConnectionFollow` | types, channel, times and windows against the connection, nothing accepted is unschedulable | four CONNECT_INDs that are good and one for each of the fifteen ways to be refused; a counter period of 8 and 40 events: five wraps, and every unmapped channel; times up to 200 units with first anchors at 0, 95 and 195: events before and beyond the end of time |
| `LiveFeed` | types, no whole line missed behind the cut, rows of whole lines only | three packets, a window of two lines, three lines in the file, an age limit of 0 and ages from one below it to two above: a record may be in the future, on time, on time only for a call that began a moment ago, and too old; a window may begin in, before and after a torn line, a line may be added while another is half written, and the loop takes up to two turns that agree or disagree on a device |
| `LiveFeed_phantom` | `OnlyAdvertisers`, violated | a data PDU beside an advertiser |
| `Dashboard` | types, age of what is shown, a worker left, recovery | six workers and the real time-outs and poll interval |
| `Installer` | `RerunsAreSafe`, violated | one rig whose user is not called `pi` |

The five violated properties are sentences of the repository's comments and
documents; `PROJECT.json` quotes them under "findings":

1. `wch_decode_transfer` steps one byte into a frame of unknown type that the
   scan loop stepped over as a whole, and can lose a following frame.
2. A transfer that had moved bytes before it timed out, or failed, makes the
   reader splice frames.
3. After a pause that was not decrypted, a captured key exchange is ignored.
4. A data-channel PDU of a followed connection whose first nibble looks like an
   advertising type is listed as a nearby device.
5. Re-run from the clone, the installer deletes the launcher's virtual
   environment, and without a network it fails to build it again.

Other sentences that are wrong or only approximately right have no run, as they
are remarks about code whose behaviour the passing runs state exactly:

- `wch_ble_analyzer.h:193` says of `err_count` "Status/unknown frames". Frames
  of unknown type are never counted (`wch_ble_analyzer.c:467-471`), marked data
  frames, which the remark leaves out, are (`:479-485`). `ErrorsCountedOnce`
  states what the code counts, in a run that sends unknown frames; read as the
  remark has it, it would be violated there.
- `wch_ble_analyzer.h:252-256` says of `wch_stop_capture` "No stop command is
  known; this is intentionally a no-op". The code writes a stop frame and a
  trigger (`wch_ble_analyzer.c:303-308`, `wch_protocol.c:62-72`), and
  `wch_protocol.h:38` and `OFFICIAL_PROTOCOL_NOTES.md:15` say that this stops
  the scanner. `QuietExit` rests on the latter; were the remark right, every
  radio would be left capturing.
- `wch_capture.c:687-688` says a read that returns 0 means an empty kernel
  buffer, but a transfer of status frames only returns 0 too.
- `wch_capture.c:203-206` calls stamps monotonic that come from
  `CLOCK_REALTIME`; `LiveFeed` lets that clock be set back.
- `app.py:97` speaks of a 3-second poll cycle; `stats.js:167` polls every 5 s.
- `rig.conf.example:2-4` says `install.sh` stops for a review after it has
  made `rig.conf`; `install.sh:54-60` sets the user and goes on.
- `install_kismet` is called in an `if`, where `set -e` does not hold: without
  the signing key it writes the apt source all the same, and later runs fail
  at `apt-get update`. `Installer` has the step.

Deadlock is checked except where a bounded environment runs out of connections
(`EncryptedLink`). `CaptureLoop` stutters in `Exited`.

## Fairness

`FrameStream`: weak fairness of the two loops (a call that has begun goes on)
and strong fairness of a non-empty transfer: a device with data does not time
out for ever. `CaptureLoop`: weak fairness of `main` alone. The process is
scheduled, and every libusb call it makes has a timeout. Signals and failures
are never fair. `Dashboard`: weak fairness of the poll (a browser timer), of
the hand-over of a queued request to a free worker, of answers, and of time.
`KismetChanges` is not fair; `ShowsRecovery` assumes that Kismet comes back for
good and asks that the page does too. The other modules have only safety
properties.

## Proofs

All theorems hold for every value of the constants that the named assumptions
allow. For each component the argument is one inductive invariant, a conjunction
of named parts, with one step lemma per action or per part.

**FrameStreamProofs** (`ConstantsAssumption`, `EmittableAssumption`): types, so
both loops stay inside the buffer, and `CarryFits`, so the overflow branch is
dead, for any bytes. `IInv` adds that between calls the buffer and the cursors
are empty (`IdleClean`) and that the decode cursor has not moved while the first
loop scans (`FreshScan`). The heart of the argument is `ScanDone`: the first
loop stops either with fewer than four bytes left or at a frame in sync, whose
length is at most four plus the payload limit, and more than is left.

With `Unambiguous` as a premise: `AllFramesDecoded`, `ErrorsCountedOnce`, that
nothing is invented, that nothing is held back once the wire is empty
(`NothingHeldBack`), and that every step is one of the FIFO channel
(`RefinesChannel`). `StreamInv` speaks of positions in the stream the firmware
sent, of which the buffer and the wire are two pieces:

- `Booked`, `Still`: the ledger is that of the frames emitted, its ends ascend,
  and every position lies between two of them; frames that are neither records
  nor errors leave no trace in it.
- `Kept`: byte for byte, what the reader holds and the wire behind it is the
  stream from `Base` on. This is what the carry is for.
- `Scanned`: the first loop stands at the end of a frame or inside something it
  cannot take for one.
- `Delivered`: so does the second, and what it has reported and counted is what
  the ledger has up to there. A frame of unknown type is where the two differ:
  the first loop is behind it, the second inside it.
- `NoneLeft`: no whole frame is left behind the place where the first loop
  stopped, so what is carried cannot hide one.

When a call returns, `Delivered` and `NoneLeft` give the ledger's entry for all
the bytes taken (`AllRead`), from which the properties follow.

**CaptureLoopProofs** (`ConstantsAssumption`): all seven invariants and the
action property, for any number of radios, drains per pass and tolerated read
errors. `IInv` adds:

- `Counted`: `started` is the number of marked radios, each with a channel.
  Needed so that `started--` stays a natural number (`TypeOK`).
- `Fresh`: what the program has not reached is still as at the start, so that
  starting a radio adds one to the count and one to the channels.
- `InUse`: buffers belong to open radios, open radios are among those found,
  and outside cleanup a radio that captures is open.
- `ErrorsBounded`: a radio is read only while it captures with errors to spare.
- `StopBounded`: in a drain, the reads since a stop are at most its reads so
  far; in a blocking wait, none.
- `Honest`, `Blamed`: a lost radio shows in the exit status, and one left
  capturing has failed its stop or was given up.
- `Covered`: `auto_channel_slot` counts the channels given out.

- `Streak`: the code's count of errors is that of the failed reads in a row,
  through both loops, which gives `GivenUpWhenPersistent` (`PersistentGivenUp`).

`StepsAreNearer` is what can be proved of the two liveness properties:
`EveryStepNearer`, that each step of `main` but the start of a pass, which a
stop forbids, makes (stage, radios left, reads left) smaller in lexicographic
order, and `LeftIsNat`, that these are natural numbers. What is left to TLC is
that `main` is never stuck and the fairness that makes it go on.

**ReceivePathProofs** (`ClockAssumption`, `LinkAssumption`): that `ReceivePath`
refines `DeviceClock` (`RefinesClock`), from which its three properties of time
follow by `Split` (the extended time is its two parts, and the low one is that
of the last record); and types, directions, classes and attribution by
`LinkInv`:

- `Exchange`: the three ways the packet numbers of two peers can stand.
- `Parity`: an anchored `direction_state` is the parity of the central's
  numbers, which every step of the exchange keeps.
- `Replies`: after a captured packet the classifier holds its sender's bits.
- `Remembers`: the phase it holds is that of the packet captured last in this
  connection, none if there was none.
- `Follows`: the connection kept is the one followed, if it was accepted.

**EncryptedLinkProofs** (`CounterAssumption`, `LinkAssumption`): all four
properties, for any LTKs, search window and numbers of connections, sessions
and packets. `LinkInv` has the parts:

- `Numbered`: a protected PDU belongs to a session begun and is numbered below
  the next one. With `SameSent` it follows that key, direction and counter
  identify what was accepted.
- `Procedure`: which control PDUs may be repeated in which phase.
- `Keyed`: a key needs both halves, and no half is of a session to come.
- `Fresh`: what was accepted under the present key is behind the counter
  expected next, which gives `NewCountersIncrease`; `Seen` says directly behind
  it, which gives `RetransmissionMeansSeen`.
- `Followed`: as long as nothing essential was missed the sniffer knows what
  the peers know (`Insight`), which gives `IntactCaptureDecrypts`.

**ConnectionFollowProofs** (`FollowAssumption`, `PrnAssumption`): types and all
four properties of radio events, for any set of CONNECT_INDs, counter period,
last time and event ordinal. `FollowInv` has `Kept` (the parameters are those of
the connection), `Settled` (so is the algorithm, once resolved), `InStep` (the
closed form is where hopping has come to), `Tabled` (the table holds the used
channels below the cursor in ascending order) and `Asked` (a scan goes on only
for an event that can be computed). The products and remainders by numbers that
are not literals are in `Arithmetic`.

**DashboardProofs** (`WorkersAssumption`, and `Workers >= 6` as a premise of
each theorem): types, `ShownNotTooOld` and `WorkerLeft`. `PageInv` has `Queued`
(what is left of a poll), `Timed` (the age and the rest of a call add up to its
time-out), `Polled` (requests are as old as some poll, one of a kind) and
`Latest` (a newer poll is still open while an old answer is shown). `AtMostFive`
counts: whenever time passes at most five requests hold a worker, so six leave
one, and five would not.

**LiveFeedProofs** (`FeedAssumption`): types, `IntactLinesSeen` and `RowsTrue`,
for any packets, window, age limit and length of the feed. `FileInv` says how
half-lines stand in the file: a head is marked as glued exactly when the half
before it is a head (`GluedToHead`), the file ends in a head exactly while a
line is open or torn (`EndsOpen`), and one that is all there begins with a line
of its own (`BeginsWhole`). From it `LinesAreIntact`: what `_tail_lines` keeps
and `json.loads` accepts are the lines that were written whole on a line of
their own, which is a statement about the cut and not a definition of it.
`LoopInv` then goes through the loop turn by turn: `RowFrom` says what a row
owes to the lines before the cursor in whatever order their times are, and
`LatestFrom` what more holds when times never go back. An age of `MaxAge + 3`
for a device without a row is safe because what passes the age test is younger
(`MergedIsRow`).

Only model-checked: everything temporal that needs fairness (`StopCompletes`,
`EveryRadioServed`, `ShowsRecovery`, and of `ImplementsChannel` that every
record is reported in the end); `Installer`, whose property is violated; and
the values of `Csa2`, which enter the proofs only by their range.

## Not modelled, and why

- Option parsing, naming, formatting, the table of company names: wording.
- The byte layout of the vendor frames in `wch_protocol.c`, whitening, CRC24,
  frequencies and clock accuracies: constant data, tables and shift registers
  without state, which the unit tests compare with published vectors.
- The PCAP file: written and never read back.
- The capture service: systemd restarts a capture that failed. What would be
  interesting is how firmware that still streams answers AA84; the code takes
  any first byte but 0 for consent, and what the firmware sends is not in the
  repository.
- The export pages: an archive made of three calls of the file system; if a
  capture file vanishes in between, the temporary file stays.
- The classification of Wi-Fi devices: a stateless mapping of fields.
- Templates, style sheets, Kismet, hostapd and dnsmasq: presentation and other
  programs.

## What is left

Of the components modelled in part, `CaptureLoop` could be given the start
sequence frame by frame with a firmware beside it, once its answers are known;
`Dashboard` a second page, with the queue as its subject.
