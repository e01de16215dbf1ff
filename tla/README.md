# pocket-rid: TLA+ verification project

pocket-rid is a receiver for drone Remote ID broadcasts: ESP32-S3 firmware that
sniffs Wi-Fi beacons, shows the transmitters on a small panel and streams every
observation over USB to the command-line program `rid-host`. These modules model
the firmware's concurrency, its shared state and the protocol of the link.
`X.tla` is a model, `MCX.tla` and `*.cfg` instantiate it for TLC, and
`XProofs.tla` holds theorems for TLAPS.

## 1. Inventory

Two threads of control run the firmware. The **driver thread** of esp-radio is
preemptive: it runs `sniffer_cb` for every frame and may log. The **executor** runs
`main` and then the async tasks, cooperatively: a task runs alone up to its next
await, but the driver thread can interrupt it anywhere outside a critical section.

| Component | State | Operations | Interacts with |
| --- | --- | --- | --- |
| link, device side: `wire.rs` | `TX_LOCK` (next seq), `TX_CH` (16), drop counters | `send` from both threads, `tx_task`, `FrameLogger` | every producer; the USB port |
| host decoder: `rid-host` | `chunk`, `prev`, `stats` | `feed`, `frame`; start and exit | the port |
| capture: `radio.rs`, `obs.rs` | `OBS_CH` (32), counters | `sniffer_cb`, `obs_task` | link, track table |
| reports: `status.rs` | nine counters | `status_task`, `send_hello` | reads every other part's counters |
| track table: `tracks.rs` | 16 slots under a lock | `update`, `purge`, `clear`, `visible_count`, `snapshot` | `obs_task`, `ui_task`, `status_task` |
| channel control: `radio.rs` | `RADIO_CMD` (4), `CURRENT_CHANNEL`, `HOP_MODE`, `hop`, a ticker | `radio_task` | buttons, Wi-Fi controller |
| buttons: `buttons.rs` | two debouncers | `poll`, `next_preset`, `button_task` | `RADIO_CMD`, `UI_EVT` |
| display: `ui.rs` | `UI_EVT` (8), selection, view, line cache, panel | `ui_task` | track table, buttons |
| boot: `main.rs` | none of its own | logs, spawns the tasks, sends HELLO | all |
| parsing: `odid` | none | `parse_beacon`, `parse_pack`, `decode_message`, units | capture, table, host |
| frame format: `rid-proto` | none | `encode`, `decode_raw`, COBS, CRC | link, host |

What is hard, and what makes each part correct:

- **Link.** Producers in both threads, a bounded queue, a port that may never be
  read, resets, a `u32` that wraps, a host that joins in the middle. Correct: frames
  leave in the order of their numbers, each loss is a gap the host counts exactly,
  a break costs one chunk, no producer is ever blocked.
- **Capture and reports.** Counters bumped on one thread are loaded one at a time on
  the other. They are `u32` and wrap, and `RID_FRAMES` does so long before the drop
  counters. Correct: no observation vanishes uncounted, and what a STATUS claims
  about losses can be relied on.
- **Track table.** Any long mix of updates, evictions, purges and clears. Correct: one
  track per transmitter, with its own data only; the most recently heard are kept; the
  rows shown are the strongest.
- **Channel control.** Commands decided on a state that is out of date; a pending or
  late tick; a channel change that fails half-way. Correct: presets are walked in
  order, hop mode dwells on and keeps covering its channels.
- **Buttons.** Contact bounce around each threshold, two buttons in one poll, polls made
  up for in a burst. Correct: one press, one answer, acted on.
- **Table and capture together.** Stamped on one thread, queued, applied on another,
  while the table is purged and cleared. Correct: the table sees stamps in order, and a
  clear holds but for what was under way.
- **Formats.** Lengths, caps and offsets that must agree between an encoder and a decoder
  written apart. Correct: what is sent is what is reported, nothing else is accepted.
- **Display.** A line cache that must agree with the panel under repaints, view
  switches and tracks that go away.

## 2. Modules

| Module | Models | State and actions against the code |
| --- | --- | --- |
| `Wire` | `wire.rs` | `send` is split into `Enter` (lock, read `next`), `Store` (`wrapping_add`) and `Enqueue` (`try_send`, count, unlock), per context. `TxReceive` and `TxWrite` are the two awaits of `tx_task`. `boot` keeps `main`'s order: log, then HELLO, then the tasks. |
| `LossyLink` | abstract | What `Wire` promises: numbered items are accepted and delivered once in order, or lost and counted. |
| `Host` | `Decoder` of `rid-host` | One definition per match arm of the sequence rule, and `feed` over tokens: whole frame, tail of a frame, lone delimiter, text without delimiter. |
| `Link` | `Wire` + `Host` | The host program starts and exits, the device resets (`Reset` loses all statics and may cut what the port holds). |
| `Average` | `rssi_avg_x16` | The formula with Rust's truncating division and the cast to `i16`. |
| `Tracks` | `tracks.rs` | `Update`, `Purge`, `Clear`, one action each, since each runs under the lock and without an await. |
| `Snapshot` | `snapshot`, `visible_count` | The keys, an order that sorts them and the rows, as operators over `Tracks`. |
| `Capture` | `sniffer_cb`, `obs_task`, `status_task` | Split at each access to a counter or channel the other thread sees. `exec` is the task that runs; between awaits no other task does. `Inc` is `fetch_add` on an `AtomicU32`: `count` wraps at `CountSpan`. |
| `Radio` | `radio_task`, `next_preset` | One action per arm of the `select`; `left` is the time to the ticker's expiry, negative when the task is late. |
| `Receiver` | `Capture` + `Tracks` | The stamps are the clock of `Tracks`; `ParseAndUpdate` is `obs_task`'s last step, table update included; `UiPurge` and `UiClear` are what `ui_task` does to the table between the passes of other tasks. |
| `Debounce` | `Button::poll` | `Polled` and `Answer`: the button after a sample and what the poll returns. |
| `Buttons` | `button_task` | `Poll` is one turn of its loop: both buttons, then at most one event. `Expire` is a period of the ticker; `behind` counts those not polled for. |
| `UiEvents` | `UiEvt` | What the buttons can tell the display. |
| `Ui` | `ui_task` | A pass is one action: it yields between lines, but reads nothing again that other tasks write. Bands carry the geometry of the code, so that a line drawn over another damages it. |
| `Cobs` | COBS of `rid-proto` | `cobs_encode` and `cobs_decode` block by block, with the full run as a parameter. |
| `Frames` | the frames of `rid-proto`, `Decoder::frame` up to its counting | `encode_raw`, `FrameBuf`, `decode_raw` on bytes, with the real sizes (`FULL`, the code of a full run, is 255). |
| `Odid` | `beacon.rs`, `pack.rs`, the builders of `encode.rs` | `parse_beacon`, `parse_pack`, `build_beacon`, `build_pack` on bytes. |
| `Messages` | `message.rs`, `encode.rs` | The six structs as sets of records, and every field at its offset in the decoder and in the encoders. |
| `Observation` | `Frames` + `Odid` + `Messages` | One beacon from `sniffer_cb` over `RawObs`, the OBS frame and the wire to what the host's line says of its pack. |
| `Option` | `Option` of Rust | `Some`, `None`. |

A definition named as a *wrong variant* in a module's header comment is used by no
other definition. It states a plausible bug (a dropped guard, an off-by-one, a missing
reset), and putting it in the place of the definition after it makes the property
listed with it in `PROJECT.json` fail.

History variables (`n`, `sends`, `bootAt`, `first`, `last`, `whole`, `heard`, `latest`,
`purgedAt`, `counted`, `stamps`, `handed`, `accepted`, `handled`, `updates`, `since`, `header`,
`clearedAt`, `inFlight`, `watched`, `recent`, `contact`, `lowFor`) record
what has happened for the properties and no action's guard reads them, bounds apart.
In `Capture`, so are `report.accepted` and the field `counted` of `exec` and of `report`:
what a counter would hold if it did not wrap, as loaded and as reported. `sent` in `Receiver` is none: it is
what the observations carry, by stamp.

What the abstractions leave out:

- in `Wire`, `Host` and `Link` a frame is its type, its number and its ordinal; encoding
  never fails, because every producer cuts its pack (`PACK_CAP`) and its text
  (`LOG_TEXT_CAP`) to size, which `FramesSurvive` in `MCFormat` shows to be enough;
- bytes on the line are tokens there; chunks that fail COBS, length or CRC are one counter,
  `rejected`; frames of unknown type or version are left out, the firmware sends none;
- an observation is its stamp and whether its pack parses; two stamps differ, as the
  callback takes longer than the clock's microsecond;
- `RADIO_ERRORS` and `LOG_DROPPED`, which the capture path does not change, are left
  out of `Capture`'s report;
- a track's last counter, channel and RSSI are only overwritten and shown; `auth_msgs`
  counts a pack with Auth messages once, whatever their number;
- a line of the display is what it depends on, not its text;
- in `Frames` the CRC is a stand-in that tells single bytes apart: that a CRC-32 finds
  more damage than that is not claimed. The order in which the encoders fill their buffers
  is left out: a call fails exactly when the whole does not fit.

## 3. Runs

| Run | Question and answer | Bounds |
| --- | --- | --- |
| `MCWire` | Do two contexts inside `send` keep the order, implement `LossyLink`, always end, and do their frames leave while the port is read? Yes. | 6 sends over a `seq` of 4 values, so it wraps; `TX_CH` 2, port 1, so both fill |
| `MCLink` | Is the host's gap count the loss, does a break cost one chunk, is the order kept end to end? Yes, for losses shorter than half the sequence space. | 7 sends over a `seq` of 6 values, so it wraps with a loss; 1 reset, 1 exit of the host; a stream starts whole or cut |
| `MCLinkReboot` | Is a reboot no reorder, as DESIGN.md 10.3 says? **No**, see Findings. | 5 sends, 1 reset, `seq` of 16 values so that nothing else can be a reorder |
| `MCAverage` | Does the average stay in range, not overshoot, and settle? Yes. | every average, the signals -128, -90, -41, 0, 127 |
| `MCTracks` | One track per transmitter, own data only, the newest kept, the rows the strongest visible ones? Yes. | 4 transmitters for 3 slots and 2 rows, 2 signals, 3 packs, 4 ticks with eviction after 2 |
| `MCCapture` | Is every observation accounted for, is a STATUS honest, also when counters have wrapped? Yes, up to `ObsCap + 1` frames, unless the drop counters ran ahead by more than half their values. | counters of 6 values; a run-up of 4 plain Remote ID frames, then 3 frames of any kind and 2 reports, `OBS_CH` 1 |
| `MCReceiver` | Do observations reach the link and the table, all and in order, does a clear hold, is `Tracks` used as it takes for granted? Yes, but for what was under way at a clear. | 3 beacons of 2 transmitters for 2 slots, `OBS_CH` 2, 3 ticks with eviction after 1 |
| `MCRadio` | Are presets walked one by one, is the first dwell whole, are all channels covered? Yes, the first while no `set_channel` fails. | 3 queued commands, period 2, up to two periods late, 2 failures |
| `MCButtons` | Does each button answer as promised whatever the other does, and can a burst of polls shorten a long press? Yes, and by no more than the stall before it. | every sequence of 15 polls of both buttons, a long press of 4, up to 3 periods behind: two presses with bounces fit |
| `MCButtonsMerge` | Does a long press of B always clear the table, as DESIGN.md 8.7 says? **No**, see Findings. | 9 polls, no stall |
| `MCUi` | Does the panel show exactly the last snapshot? Yes. | 4 transmitters, 4 rows in the snapshot and 3 in the list; the third reaches the band of the empty-state line |
| `MCFormat` | Do encoders and decoders agree, from COBS to the host's report of a beacon? Yes. | see below |

`MCFormat` hands one input after another to the code:

- every byte string of up to 6 bytes for COBS with full runs of 2, as data and as a chunk;
- frames of each type with packs and texts at, below and above every cap and of lengths no
  byte holds; the same frames with one byte changed, cut or lengthened, with and without
  a CRC that fits;
- beacons of up to 3 elements out of 8, most of them near misses, with 4 tails;
- packs of up to 9 messages with wrong counts, sizes, types and spare bytes;
- every field of every message at 5 values against 2 backgrounds.

Why these are enough. Every queue gets full and empty in some behaviour, `seq` wraps, so do the
counters of the frames received and `TX_DROPPED`, those of a track saturate, every slot
changes its owner, and each action is taken. In `MCCapture` each behaviour starts at boot with
the run-up, which takes the frame counters to where the next three frames wrap them; of what
came before only their values matter then. Some behaviours drop STATUS and HELLO frames and
observations beyond half of the span, so the condition in `LossesReported` does exclude cases
that happen. That `OBS_DROPPED`, `PACK_ERRORS` and `BEACON_ERRORS` wrap as well is left to
the proofs, which hold after any number of turns.
A larger queue or table adds positions, not cases: the definitions compare a length
with its bound, or two slots with each other. `MCUi` uses symmetry over the
transmitters: they occur only through equality there. In `Tracks` they are ordered
(ties in the snapshot), so no symmetry is used. The sizes of `Frames` and `Odid` are the
real ones; only COBS is checked with a short run over every input, and used with the long
one in the frames. Two definitions of the same layout disagree at a length or an offset,
and those are all visited.

A behaviour ends at a bound, not in a deadlock: `Done` and `Quiet` in the MC modules
stutter only when all bounded work is used up *and* the rest of the system is at rest,
so that any other stop is reported as a deadlock.

### Fairness

- `TxFairness`: the executor polls `tx_task`. `UsbRead` has no fairness: `EventuallyRead`
  assumes that the port is emptied again and again.
- `SendFairness`, and `Capture`'s sniffer steps: a context inside a critical section or
  a callback runs on to its end. Nothing in `send` or `sniffer_cb` waits.
- `TxReceive`, `TxWrite`, `ReceiveObs`, `ForwardObs`, `ParsePack`, the radio's arms: the
  executor polls every task that was woken. `ReceiveObs` has strong fairness because
  another ready task may run first each time; the executor's run queue does not let
  it do so for ever. `TxWrite` is enabled only while the port has room.
- `ReceiverFairness` is that of `Capture` on the composed steps. `ui_task`, the clock and
  the transmitters are left free.
- `Pass`: time passes. `Frame` in `MCAverage`: the transmitter goes on sending.
- No fairness on frames received, reports, presses, resets or the host's start: they
  need never happen.

## 4. Findings

**A long press of B can be lost** (`MCButtonsMerge`). DESIGN.md 8.7 has a long press of B
clear the track table. `button_task` offers one event per poll, and an answer of A hides
that of B. The debouncer answers a long press once, so when A's short or long press falls
due in the same poll the table is not cleared, however long B is held. (A short press
of B loses only its redraw: its preset is sent before the merge.) `AllPolledLazily` shows
that the eager argument of `or` matters: B's debouncer must not miss the poll too.

**A stall shortens a press.** The comment at `buttons.rs:34` speaks of three 10 ms samples,
but after a stall the ticker makes up for its periods at once, and the samples may be of
one instant. `LongTakesTime` gives the bound that holds: a long press takes its time less the
stall.

**A reboot is counted as reorders** (`MCLinkReboot`). DESIGN.md 10.3 step 6 has the host
take a HELLO with `seq` 0 for a reboot. `main` logs "radio up ch=6" before it sends the boot
HELLO, and the logger sends that line as a frame: it takes `seq` 0 and the HELLO gets a
later one. No HELLO has number 0 unless `seq` wraps, so a host that stays attached across a reboot
keeps the old `prev` and counts every frame as a reorder until the numbers pass it.
The serial check in DECISIONS.md (M7) shows the numbers: "HELLO seq 1".

## 5. Proofs

TLAPS proves, for every value of the constants that the named assumption of each module
allows (capacities and periods at least 1, `Nobody` not a context, slots and transmitters
numbers, finitely many slots, ...). The bounds on a behaviour (`MaxSends`, `MaxNow`,
`MaxPolls`, ...) are constants too, so the theorems hold for behaviours of any length.

| Module | Theorems | Argument |
| --- | --- | --- |
| `LinkProofs` | `WireTyped`, `WireInOrder`, `WireImplements` | `InSeqOrder` is not inductive: the frame in hand could be overtaken. `WireInv` adds that a context is inside `send` exactly when it holds the lock, that its frame carries the number `next` held, and that every frame under way is older. The refinement maps `Enqueue` to `Accept` or `Lose`, `UsbRead` to `Deliver`, and every other step to a stutter. |
| | `LinkInOrder`, `LinkGaps`, `LinkRejects` | What the host concludes from a number is right because of what is still on its way. `NumberInv`: the frames in the queue, in `tx_task`'s hands and in the port keep the order of their sends, are younger than the last frame counted, and those the device still holds carry their distance from the last boot. A frame counted is then less than half the sequence space after the last one when so few sends lie between them, and `wrapping_sub` is the distance (`WrappingDistance`). `RejectInv` pays for each chunk: what the decoder has rejected, the text it holds, the text in the port and the tail of a cut frame together are at most one for the start and one per reset. |
| `TracksProofs` | `TracksTyped`, `TracksUnique`, `TracksOwn`, `TracksNewest`, `TracksRows` | The invariant adds that no stamp is in the future, that `heard` is the last stamp of a tracked transmitter, and that stamps are distinct. `TracksRows` first shows that the keys can be sorted (a slot's place is the number of slots ahead of it), then that the visible ones take the places from 1 to `visible_count`, a filler being weaker than any average a track can have, and that no two visible keys are equal, which is `OneTrackPerMac`. |
| `ReceiverProofs` | `CaptureTyped`, `CaptureConserves`, `CaptureReports`, `CaptureInStampOrder` | Of `Capture` by itself. `CountsWrap`: each counter, as loaded and as reported too, is the remainder of its history `counted`, so the sums are related as plain numbers first (`Balanced`, `Reported`) and turns of a counter then make no difference (`TurnsDropped`, `SignedReads`). `Balanced` carries itself. `Reported` needs `OfferedCounted` (what was offered was accepted or counted) and `Loading`: at each point of `status_task`'s loads, the counters loaded so far and the present value of the rest keep the promise. That holds because RID_FRAMES is loaded first, and because no observation is in `obs_task`'s hands meanwhile. `InOrder`: from the last one handed over, through `obs_task`'s hands and `OBS_CH` to the driver's, stamps ascend. |
| | `ReceiverInStampOrder`, `ReceiverUpdatesInOrder`, `ReceiverTable`, `ReceiverClearHolds` | The composed steps are steps of `Capture`, so its invariants hold. `Sent` ties the observations to the times at which they were stamped, `Applied` the table's newest stamp to what was handed over; with `InOrder` each step of the receiver is one of `Tracks` or a stutter, a refinement that carries every theorem on the table over. `Cleared`: what the table shows, and what is queued or held, was stamped since the last clear or was on its way at that time. |
| `PanelProofs` | `RadioTyped`, `RadioCycles`, `RadioDwells` | `Walk`: until a `set_channel` fails, what is queued is the preset the tuner is in, queued before it got there, followed by the next one and nothing else. `Dwell`: until a period has passed since `SetHop` reset the ticker, the sequence is at its start and the ticker has the rest of the period to go. |
| | `ButtonsTyped`, `ButtonsAnswer`, `ButtonsLong` | `PressInv`: the debouncer stands where the contact's history leaves it after three equal samples, `held` counts the polls since the press was accepted, and the time since its first sample is that of the polls less the periods the task is behind. What the promise says of whole sequences of samples is thereby reduced to one poll. |
| | `UiTyped`, `UiShows` | `UiInv`: between passes, unless the next one is to repaint everything, the panel shows at the places of the last layout what the cache says, and all else is dark. The bands of a layout do not overlap (`PlacesApart`), so no line of a pass damages another, and a line the cache leaves out is there already (`Repainted`). |
| `AverageFacts`, `AverageProofs` | `AverageBounded`, `AverageFollows` | Facts on truncating division (`AverageFacts`, also used by `TracksProofs`), then one step. |
| `FormatProofs` | `FormatsMessages` | A message is zeros into which parts are put that do not overlap, so each is read back where it was put (`PutReads`); a flag or a nibble is what is left of its byte. |
| | `FormatsStuffing` | From the last position back. Forth: a block and bytes that stand for the source behind its run stand for the source from its run on (`BlockStandsFor`); before full runs that end the source, the blocks but for the last do too (`FrontsStand`). Back: a block that is decoded has the run that `cobs_encode` would find at that place (`RunIsRun`), so the blocks are the encoder's, all or all but the last (`FormsOnly`). |
| | `FormatsFrames` | A string is cut again where two were joined (`Joined`, `HeldIsCut`), so every field is read where it was written and `Fits` holds; a raw frame has at most 262 bytes, hence one full run at most, 264 bytes stuffed and 265 with the zero. |
| | `DecodesOnlyEncoded` | Fields that follow one another without a gap join to the bytes they were cut from (`Adjacent`, `Glued`): written again, an accepted payload is itself (`ObsAgain`, `LogAgain`, ...) but for the one byte that the host skips. |
| | `DamageRejected` | The CRC's stand-in counts bits by column, so one other byte shows in a column (`CrcColumns`, `ColumnChanges`), be it in the body or the CRC. Every accepted string has the length its own first bytes call for (`Measured`), so no accepted string begins another. |
| | `FormatsDamage` | A byte changed and the length changed at once: the changed byte must be the one that the length is read from, of an OBS or a LOG (`ResizedRejected`). Then byte and length are known, and the first or last column of the checksum, counted, is not what stands where the CRC is read (`LongerObs`, `ShorterObs`, `LongerLog`, `ShorterLog`). |
| `ReportProofs` | `FormatsWalk` | From the first element on, by what the walk finds at each position (`WalkDefined`): an element that is not Remote ID hands on to the next (`WalkStep`), the first that is ends the walk, and a tail that is no whole element ends it without one (`WalkEnds`). Where each element lies is `FlattenLays`. |
| | `FormatsReports` | `parse_pack` reads no byte behind 3 + 9 * 25 = 228, the room in `RawObs` (`VerdictKept`); a found element is at most 255 bytes, so `ie_len` holds its length and the OBS frame survives (`FrameRoundTrips`); every type `ContentOK` admits decodes (`AcceptedDecode`). For the encoder's side, an encoded message is 25 bytes with its type in front (`EncodedMessage`), `parse_pack` takes apart what `build_pack` joins (`PackTakenApart`), `parse_beacon` what `build_beacon` joins (`BeaconSent`), and a value no wider than its fields comes back equal (`ExactSurvives`). |

`PanelProofs` treats three tasks that share no variable, each over its own specification.

`FormatProofs` and `ReportProofs` need induction over data, and the library's induction theorems take an
operator, which these provers cannot instantiate. It goes by sets instead: a nonempty set
of numbers has a least element (`Least`, from `WFMin`), so a set of positions that contains
a position whenever it contains all later ones contains all (`Descend`). In the same way a
recursive function is shown to be defined and to equal its body at each position
(`BlocksDefined`, `ContentsDefined`).

These theorems say more than their invariants: those speak of the run's inputs, and each
theorem first of all inputs, whatever the bytes and, for COBS, whatever the full run.
`FormatsReports` asks one thing of a pack that is sent: `Sendable`, one to nine messages,
not more of a type than `MAX_PER_TYPE`, and no field wider than its bits, since the rest
of a wider one is cut off (`FormatsMessages` says how). Of a received beacon it asks nothing.
`Kept` in `Observation` is written out, and not as `SelectSeq`, because the provers have no
definition of that operator.

Every invariant and every action property of a passing run is a theorem, and the lossy link
and the track table are refined for every value of the constants. Only model-checked:
liveness (`SendEnds`, `EventuallyRead`, `ObsHandedOver`, `ReachesTable`, `HopCovers`,
`Settles`), which this prover cannot treat.

What is said of damage is said of the code's lengths and of a stand-in for the CRC, which
has one thing in common with CRC-32: it tells strings apart that differ in one byte.
`DamageRejected` rests on nothing else, and holds of every accepted frame. The second part of
`DecodesOnlyFrames` also changes a byte and the length at once. That some such damage is
found depends on which checksum it is, so the second part of `FormatsDamage` speaks of the run's
damage only: it shows that the lengths leave two bytes in which it could hide.

## 6. Not modelled

- `units.rs`: each conversion is one guard and one formula, and a property of it could
  only repeat them. Text cut at NUL or at invalid UTF-8.
- That two drops are not counted: `button_task` ignores a full `UI_EVT` or `RADIO_CMD`, though
  DESIGN.md 3.2 has every drop counted. There is no counter a property could speak of.
- Set-up in `main`: the executor runs no task until `main` returns, so BOOT appears after
  the radio is up, later than DESIGN.md 3.4 has it.
- The LIST of four rows that DESIGN.md 7.2 and 8 describe: the code has the earlier layout,
  with up to eight rows in a snapshot (DECISIONS.md, M8), and the models follow the code.
  What is shown of `Snapshot` holds of any number of rows, of `Ui` of up to six in the list.
- `rid-host`'s JSON text, statistics printing, raw capture and port settings; the
  `console-text` build; the panel's and the radio's set-up; `board.rs`: plain I/O.
- The fuzz and differential test crates.

## 7. Plan

1. What the formats are used for: that the receiver's table, fed with the beacons an encoder
   sends, shows the transmitters they name (`FormatsReports` joined to `ReceiverTable`).
   This takes a new module in which the table's transmitters are the bytes of addresses.
2. Simpler proofs where a step-by-step argument of one task repeats another's.
