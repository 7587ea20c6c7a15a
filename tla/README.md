# Verification of allsquare

allsquare is a Rust SDK for the Square Golf launch monitors (Home and Omni) and
a program, `allsquare-frp`, that bridges a device to controllers speaking the
Flight Relay Protocol (FRP). This directory holds TLA+ models of it, the TLC
configurations that check them, and proofs for TLAPS. `PROJECT.json` maps every
definition to the source lines it models. Paths below are relative to the
repository (`src/client.rs`, `docs/WIRE.md`).

## 1. Inventory

### Components

| part | source | state | operations | modelled by |
|---|---|---|---|---|
| client | `src/client.rs` | phase, last frame, heartbeat and data times, unanswered heartbeats, last device state, pending shot, `awaiting_club`, active club | `new`, `poll`, `arm`, `disarm`, `select_club`, setters | `Client`, `Session` |
| transport interface | `src/client.rs` (`Transport`), `src/testing.rs` | notifications and commands under way | `read`, `write`, `read_characteristic` | `Link` |
| launch monitor | external, `docs/WIRE.md`, `docs/SEQUENCE.md` | last shot, state machine | notifications, answers | `Omni` |
| protocol | `src/protocol.rs`, `src/club.rs`, the encoders of `src/testing.rs` | none | `encode`, `parse`, codes | `Protocol`, `Metrics`; what the control tells apart also in `Link` |
| face impact | `src/impact.rs` | table of offsets | set, lookup | `Metrics`; which club's offset is used, `Client` |
| FRP adapter | `src/frp/mod.rs` | connection, `pending`, cached telemetry, `last_ready`, shot number; two channels to an acceptor thread | `spawn`, `poll_connection`, `check_controller`, `send_device_info`, `handle_event` | `FrpDevice` |
| FRP conversions | `src/frp/convert.rs` | none | units and signs | `Metrics`; which envelopes, `FrpDevice` |
| program | `src/bin/allsquare-frp.rs` | club, armed | main loop, controller commands | `Bridge` |
| btleplug transport | `src/btleplug_transport.rs` | runtime, scanner slot, per-connection link flags, pump task | `connect`, `read`, `write`, `disconnect`, drop | `Btleplug` |
| BlueZ transport | `src/bluez.rs` | a D-Bus connection, signal thread, channel; in BlueZ: trust, link, discovery, notifications | `connect`, `read`, `write`, `disconnect` | `Bluez` |
| backend choice, errors, example | `src/ble.rs`, `src/error.rs`, `src/lib.rs`, `examples/monitor.rs` | none | | not modelled |

### How they interact

One thread owns the client and the FRP adapter. It calls `Client::poll` in a
loop; a poll sends a heartbeat if one is due, then reads at most one
notification from the transport, and returns at most one event. The transport
is fed by a background task (btleplug's pump, BlueZ's signal thread) over a
channel. In `allsquare-frp`, an event goes to `FrpDevice::handle_event`, which
sends envelopes over a non-blocking connection to the current controller; when
poll has no event, the loop adopts a connection that the acceptor thread has
made and looks for a command from the controller, which may end in
`Client::select_club`. So the actors that run in parallel are: the loop, the
device, the link between them, the acceptor thread, and the controllers.

### What is hard

* Ball metrics are pushed and club metrics are pulled; the two are matched only
  by order, while every notification comes twice, the device keeps the last
  shot's club metrics across connections and serves them unasked, writes fail
  or time out after delivery, and links die without notice.
* The watchdog must not confuse a dead link with a caller that stopped polling.
* The adapter has one controller at a time, made by another thread; it may
  leave between any two envelopes, and the next must be brought up to date.
* Several threads may connect at once over one slot of OS Bluetooth sessions;
  the OS may make a link after the code has given up on it, ends it at any time
  and reports that later; whoever drops a transport must know whether there is
  a link left to end.
* Measurements are words in frames that may be cut short, under a mask and a
  sentinel; each passes through a parser, an offset that depends on the club and
  on a table, and conversions that turn signs, and absent values must stay absent.
* BlueZ keeps what a program asked of it: links outlive the program's attempt,
  discovery and notifications outlive it as long as its D-Bus connection is open,
  and the signal thread keeps that open after the transport was dropped.
* Two dedups in series (identical frames, equal states) and a third in the
  adapter (equal readiness) decide what a controller gets to know.

### What makes each part correct

* Client: a shot is returned with its own club data, once, in order; nothing is
  done twice for a doubled notification; no live link is declared dead, a dead
  one is; a read ball is resolved; the reported state follows the device's.
* FRP adapter: one connection asked for at a time, and always one when there is
  none; a controller knows the current telemetry; it sees whole, freshly
  numbered shots.
* Program: no readiness is reported that the client has not heard; every shot
  gets a number; the club last asked for is selected.
* Measurements: what a controller is told was measured, at that place, and
  nothing that was measured is lost without reason; the device and the client
  mean the same club.
* btleplug transport: no session is shared, reused after a connection or
  wasted; no connection is left open; a lost link ends the reads.
* BlueZ transport: no notification is missed or doubled, none of an earlier
  transport's is taken for this one's; discovery is left off; attempts and
  orphaned threads end; no link is left behind (this one fails, `left_open`).

The hazards behind these, each at its line, are in `PROJECT.json`.

## 2. Modules

```
Options ── Link ──┬── Client ──┬── Session ──┬── Bridge ── MCBridge
                  └── Omni ────┘   │  │      │
                        ShotStream ┘  MCSession
Options ── FrpDevice ────────────────────────┘
SessionProofs ──┬── ShotProofs ──┬── BridgeProofs
                └── WatchdogProofs        │
                            FrpProofs ────┘
Options ── Protocol ── Metrics ──┬── MCMetrics
                                 └── MetricsProofs
Btleplug ── BtleplugProofs       Bluez ── BluezProofs
```

**Link** holds what lies between client and device: `evt`, notifications sent
and not yet read, `cmd`, commands written and not yet answered, with their age,
and `link`: up, lost with nobody told (`silent`), or lost and reported by reads
(`closed`; what was queued is still handed out, as the transports' channels
do). A frame is a kind and a number. Payloads are abstract: `BallBytes[n]` and
`ClubBytes[n]` are constants, so that an instance may make two shots
byte-identical. A frame the parser rejects and a query response are one kind
(`quiet`): both replace `last_rx` and are not reported.

**Client** is `Client<T>`. `poll` is two steps where the outside world may act
between its write and its read: `SendHeartbeat`/`PollNotDue`, then one of the
`Read…` actions. In phase Connecting it is one step: nothing of what
`read_identity` reads depends on the notifications that arrive meanwhile.
`Instant`s are ages in ticks, which saturate at the threshold they are compared
with. Every transport call may fail on a link that is lost, and up to
`MaxFaults` times (the kinds in `Faults`) on one that is up; `timed_out` is a
write that reached the device and yet returned an error. After an error that is
not `Disconnected` the caller goes on or gives up, as `AfterError` says.
`seen`, `surfaced`, `requests` and `noted` are history. Left out: the event
queue (nothing is ever pushed to it), `seq` (written into commands, never
compared), `handed` and `impact_calibration` (never read by the control), and
the match arm of `poll` for a `parse` that returns `Disconnected`, which cannot
be reached since a zero-length read has returned before.

**Omni** is the device, external. It sends everything twice, back to back,
answers commands in order, each before it is older than `Latency`, keeps the
last shot and may send its club metrics unasked, changes state with or without
saying so, takes the link down with a zero-length notification, or vanishes.
Commands that are not answered (arming, club, settings) never enter `cmd`. Acks
carry a message counter on the wire; it is left out, so that a repeated state
looks like a duplicate: in the code it is dropped one step later, by the
comparison with `state`, to the same effect.

**Session** composes the two with a clock (`Tick`) and callers that open a new
connection with a new `Client` (`Reopen`). A tick does not overtake a due
answer; that is what `Latency` means. With `Prompt`, the caller polls in every
tick, else it may pause for any time.

**ShotStream** is the abstract promise: shots are taken, and some are delivered,
in order, each once, with ball and club metrics of the same shot. `Session`
instantiates it with `surfaced` for `delivered`.

**FrpDevice** is the adapter with its acceptor thread and both channels. A
connection is a number; `gone` are those the peer has closed. A send of several
envelopes hands over a prefix and then succeeds, finds the peer gone (the
connection is dropped, no error), or fails otherwise (an error; the connection
stays). The last is possible only if `IoFails`. `told` and `shots` record what
each connection was handed, `failed` those on which a send failed.

**Bridge** is the main loop of `allsquare-frp` over `Session` and `FrpDevice`:
`at` is where the loop stands, so that device, link, acceptor and controllers
may act between `poll`, the forwarding of its event, `poll_connection` and
`check_controller`.

**Btleplug** stands alone: it is what lies behind `Link` where the backend is
btleplug. Threads make connection attempts, one step per call that other
threads or the OS may overtake (`pc`): `Take` the slot's session or `Open` one
outside the lock, scan, `Find`, the connect and its outcome, `Cancel`,
`Subscribed` or `Abandon`. A transport is its `closed` flag, `released` of
`Link`, whether the pump runs, and what is queued; `down` is `closed` or a pump
that has ended. Sessions are numbers. The OS is external: `attempts` are the
connects it works on, `holder` the session whose link the device holds,
`unreported` ended links it has yet to report, and a report reaches whoever is
subscribed by then (`noticed`). With `LateConnects` it may make a link whose
connect has timed out, with `Refuses` it may ignore a disconnect. `disconnect`
and the release of a drop are one step each: the OS acts on a session's link
only, and no one else uses the session (`SessionsExclusive`), so nothing that
may happen in between changes their outcome.

**Protocol** is the wire format: frames are sequences of bytes, offsets count
from 0, and there is one operator per function of `protocol.rs` and `club.rs`
and per encoder of `testing.rs`. A set of bits stands for the mask. A physical
value is the fraction (`Double`) that its f64 is the nearest to: `club_field`
makes `raw / scale` of a word, and `IMPACT_SCALE` depends on the feature
`raw-face-impact` (`RawFaceImpact`). `Wire` is the way back, `(value *
scale).round().clamp(..)`, with NaN as 0. The product of the nearest double to
`n / 100` and 100.0 is `n`, or the double just short of `n`, or just beyond it:
`Deviation` computes which, from how far the quotient is off and the spacing of
doubles around the product. For 4584 of the 65 536 words a cast without
rounding would give another word (`WireTruncated`, the mutant of `Reencodes`).

**Metrics** takes a measurement from the device to a controller, with
`raw-face-impact` or without it: `ReadBall` and
`ReadClub` parse the device's frame, the latter with the client's offset and its
test for an empty answer, `Forward` converts as the adapter does, `Select` sends
a club that the device decodes, `Calibrate` replaces the table, `ReadOther`
parses everything else. When notifications are read is `Session`'s subject, so
here they come in order, and club and table change before the ball is hit.

**Bluez** is the other backend: one program that connects, loses, disconnects
and drops, one D-Bus call a step (`Look`, `Scan`, `ScanHit`, `Trust`, `Ask`,
`Resolved`, `Characteristics`, `Match`, `StartNotify`, `Spawn`), each of which
may fail (`Fails`), and some must where the state leaves BlueZ no choice
(`Refused`). The two polling loops go round by turns (`ScanMiss`, `Unresolved`),
which take one sleep or longer; `waited` counts against the deadline set before
the loop, which ends it with `NotFound` or `NeverResolved`. The scan looks at its
deadline before the device, the other loop at the property first. Every attempt
has a D-Bus connection of its own, which an error closes (`GiveUp`).
`disconnect` fails on a lost bus, and may otherwise (`DisconnectFails`). The signal thread of a transport holds a clone of it, and there is
no `Drop`: after a drop, the thread, its connection and its subscription go on
until a notification cannot be forwarded. BlueZ and the bus are external: it
keeps an object for a trusted or linked device, never answers `Connect`, ends a
client's discovery and notifications with the client's connection, but not a
link. A signal is the number of a notification, or 0 for another property. A
read does not notice that a link is lost; the client's watchdog does, in
`Session`, where such a link is `silent`.

## 3. Runs

| run | instance | question |
|---|---|---|
| `shots` | 2 shots, the retained and the first with equal clubs; 2 sessions; one fault of any kind, the caller goes on or gives up | are shots paired, ordered, once (`ShotPairing`, `ShotsInOrder`); is `ShotStream` implemented; types; the inductive invariant `ShotInv` |
| `prompt` | 2 shots with equal balls, 1 other notification; heartbeat every 2 ticks, answers within 2, caller polls every tick | is no live link declared dead when the device answers more slowly than a heartbeat interval; is silence noticed at `LINK_TIMEOUT` (`SilenceBounded`); are there no doubled effects (`OncePerNotification`) |
| `live` | 1 shot, 2 device states, heartbeat every 2 ticks, answers within 1, caller free to pause, fairness | is no live link declared dead (`WatchdogInv`, which contains `NoFalseDisconnect`); `DeadLinkSurfaces`, `PendingResolves`, `StateConverges` |
| `controller` | 2 connections, 2 shots, sends may fail, fairness | the adapter's safety; a lost controller is let go of and replaced (`Reconnects`, `GoneNoticed`) |
| `btleplug` | 2 threads, 2 sessions, late connects, ignored disconnects, fairness | `SessionsExclusive`, `RetiredNotReused`, `LinkOwned`, `SessionsBounded`; a lost link surfaces (`LossSurfaces`) |
| `metrics` | 4 balls, 110 club answers, 3 calibrations, 285 other frames | `FieldsInPlace`, `ToldAsMeasured`, `NothingLost`; do the encoders, through scaling, rounding and clamping, invert the parser (`Reencodes`); does the device take the club that was meant (`ClubUnderstood`) |
| `bluez` | 2 attempts, 3 notifications, deadlines of 2 turns, drops without disconnect, fairness | `NothingMissed`, `EndIsBusLost`, `DiscoveryOff`; do attempts end when no error ends them, and orphaned threads (`AttemptsEnd`, `ThreadsEnd`) |
| `bridge` | 1 device shot, 1 connection, 2 states, 2 clubs (symmetric) | `NeverFalselyReady`, `NumbersFollowShots`, `ClubFollowed` |

Four more runs end in a counterexample, each against a sentence of the
repository's own (quoted in `PROJECT.json`, `findings`):

* `parked`: a connect that times out just before the OS makes the link is then
  cancelled, and its session goes back to the slot although it has held a
  connection. `LinkOwned` excepts such a session (`tainted`): the late report
  of the cancelled link may make the next transport on it believe that its own
  link is gone, and its drop then leaves the device held.
* `offset`: the vertical impact is offset for the club that is active when the
  club packet is read, not for the one the ball was hit with.
* `left_open`: `connect` asks BlueZ for the link, and a later error returns
  without a disconnect. BlueZ makes the link, or keeps it, and the device does
  not advertise until somebody ends it; the next attempt on the same host finds
  BlueZ's object again, another host finds nothing.
* `untracked`: `is_empty` looks at speed, path and face. A club answer that has
  only attack angle, loft or smash is taken for one with nothing to report, and
  the shot is forwarded without club data (`ClubDataKept`). `NothingLost`
  excepts exactly these shots.

### Bounds, and why they are enough

`MaxShots = 2` with the shot retained from before gives one pending, one
superseding it, and one taken between two connections; a wrong pairing needs two
shots, a repeated one needs two sessions. Equal clubs for the retained and the
first shot (`TwoClubs`) are what the dedup could confuse; equal balls
(`TwoTwinBalls`) are in `prompt`, where the dedup's own property is checked.
`MaxBacklog = 4` holds two notifications and their doubles: a late club packet
in front of a newer ball; `live` has room for one and a half, as a second only
delays what its properties wait for. `MaxUnanswered = 3`
is one more than the threshold; the code saturates at `u32::MAX`. In `prompt`
`Latency + HeartbeatInterval + 1 < LINK_TIMEOUT` is tight: with a slower device
a live link is declared dead. Two connections make one controller follow
another. In `bridge` the clubs are a symmetry set, which is sound as it checks
invariants only; calls fail there once the link is lost. The theorems below hold for
all values. Two threads and two sessions give every overlap in the slot: one
taken while another is parked, both opened, one parked over the other; and a
second connection after the first session was retired. `MaxQueued = 1` separates
a pump that has ended from reads that have.

In `metrics` every field has a value of its own with two different bytes, so
that no field can stand for another; each mask bit is set and cleared alone;
every length of a club frame occurs, also the odd ones; each word takes the
sentinel, half of it, 0, the ends of its range, words that their hundredth, times
100.0, falls short of (29, -57) and one that it goes beyond (55); every state
byte occurs. `raw-face-impact` is off, as by default; the theorems are about both
settings, and about all other values. In `bluez` two connections are what it takes
for an earlier transport's thread to be subscribed beside the one in use; two
queued signals separate a property change from a notification behind it. The
queue's bound (64 in the code) stops the device, as the bus does not drop
signals. A deadline of two turns leaves a loop room for none, one or two of them; the
code's are 80 and 200. `left_open` disconnects every transport (`Disconnects`): the link that
is left is an attempt's.

## 4. Fairness

`WF(Tick)`: time passes. `WF(Poll)`: the caller calls `poll` in a loop, as its
documentation asks. `SF(Answer)`: the device answers what it was asked; strong,
because its other notifications may fill the bounded backlog again and again.
In the adapter: the acceptor thread runs and a controller keeps trying
(`TakeRequest`, `Establish`), and the caller calls `poll_connection` and
`check_controller` in its loop. `Bridge` is checked for safety only. In `Btleplug` the OS reports the end of a link (`LossReported`), the pump
task runs (`PumpGone`), and the transport is read in a loop; that the
notification stream ends is not assumed, as the code says that not every
backend ends it. In `Bluez` the signal threads run and an attempt goes on (`WF(Progress)`):
BlueZ answers or refuses every call but `Connect`, which the code does not wait
for. An error that the state does not force (`Fails`) may happen and never has
to, and neither has anything that BlueZ or the device does: that an attempt ends
(`AttemptsEnd`) rests on the deadlines of its two loops, and is violated if one
is set anew in each turn (`UnresolvedAnew`). That the D-Bus library has no
timeout of its own for calls makes this an assumption about BlueZ. No fairness is
assumed of shots, faults, link loss or state changes.
`PendingResolves` allows a shot to be overtaken by a later one; the number of
shots is bounded, so this cannot go on for ever in the model.

## 5. Proofs

All are proved for every value of the constants that satisfies the assumptions
named in the modules.

* `SessionProofs!TypeCorrect`: `Spec => []TypeOK`.
* `ShotProofs`: `ShotPairing` is not inductive: that the next club packet read
  belongs to the pending ball follows from the order of everything on the way.
  `ShotInv` says it: balls are on their way in order (`BallsOrdered`), a club
  packet never comes before its own ball nor after a newer one has been read
  (`ClubsOrdered`), a ball that was read comes again only as the duplicate that
  the dedup drops (`Replayed`), the last shot taken was read or is on its way
  (`Announced`), and the pending ball is the last one read (`PendingIsSeen`).
  From it `PairingCorrect`, `OrderCorrect`, and `Implements`: every step of the
  session is a step of `ShotStream` or leaves it unchanged. No timing is used.
  `ActsOnce` (nothing is done twice) rests on `Replayed` for the balls and on its
  counterpart for the other notifications (`NotesInv`: they are on their way in
  order, and one that was counted comes again only as the double of the frame
  last read), and on `Asked`: the shots asked about are among those read.
* `WatchdogProofs`: if `Latency < HeartbeatInterval`, the watchdog never fires on a
  live link, for any pauses of the caller (`WatchdogSound`). The invariant
  (`WatchdogInvariant`) says that a counted heartbeat is still with the device
  and at least as old as the last one sent, or its answer is on the way; a second
  heartbeat can then only be due after the first was answered.

  A caller that polls in every tick needs another argument, as more than one
  heartbeat may be with the device. `Pace`: its heartbeats are at most a tick
  late, so that the age of what was received is bounded by that of the last
  heartbeat, and by one interval and a tick more once a heartbeat counts as
  unanswered. `Heard`: if one does, a command of about that age is with the
  device, or something is there to be read. `SilenceTold` and `PromptCallerSafe`
  follow. Their hypotheses are the documented use of `poll`, and TLC finds a
  counterexample without each: a caller that goes on after a refused heartbeat
  is late by more than a tick, since `last_heartbeat` is set only after the
  write, and a slow device is then cut off; one that goes on with a connection
  that is lost sends heartbeats that never count, and nothing is told at
  `LINK_TIMEOUT`; with a tick as long as the heartbeat interval the tick of
  delay does not fit. `PromptCallerSafe` is about the second case of
  `TimingAssumption`.
* `FrpProofs`: types, `ConnectionAccounted` and `ControllerUpToDate` together
  are inductive. The arithmetic of requests in the channel, in the thread's
  hands and answered makes the first so; `PollConnection` and `Transmit` are
  where the second is won or lost. `NumbersFresh`, that no shot is split between
  controllers, follows from the order in which they are adopted (`InOrder`: from
  the one after the last adopted on nobody has been sent a shot) and from
  `NumbersGiven` (nobody has a number that is still to come). `ShotsAreWhole`: a
  stream that ends with a finished shot goes on with a whole one or with a prefix
  of one (`Chained`, `Finished`), and only a send that failed or found the
  controller gone hands over a prefix.
* `BtleplugProofs`: types, `SessionsExclusive` and `RetiredNotReused` with
  `Counted` (what is named has been opened) and `Stages` (where a thread is says
  whether its session is retired) are inductive. `LinkOwned` needs more: the OS
  works on a connect only while somebody waits for it or cancels it
  (`AttemptsAwaited`), a session makes one link and its end is reported once
  (`OneLink`), so that a transport takes its link for gone only when it is
  (`ReleasedIsGone`). For `SessionsBounded` the invariant is a budget (`Budget`):
  a session that is not used up is in the slot or with an attempt that has not
  succeeded yet (`Spare`), and one such session is free; an attempt that may cost
  another found the slot empty while it was not alone, which `overlaps` counts.
  That there are finitely many threads (`CallersFinite`) is assumed.
* `BluezProofs`: types, `EndIsBusLost`, `DiscoveryOff` and `NothingMissed`.
  `Stages` says what an attempt's place in `connect` implies for its D-Bus
  connection and its thread: nothing is on its way before the match rule is
  added, and no thread runs before it is spawned. `Arrives` is what
  `NothingMissed` needs before there is a transport to miss anything: already
  between `StartNotify` and the spawned thread, what is on the way from the bus
  through the connection and the thread to the reads is in order, ahead of what
  was handed over, and without a gap, or cut off at its end with the connection.
* `BridgeProofs`: the program's steps are steps of `Session` and of `FrpDevice`
  or leave them unchanged (`ImplementsSession`, `ImplementsAdapter`), so that
  what is proved of the parts holds in the whole (`ProgramPairs`). The rest is
  about where the two meet: `PollEffects` says what one step of a poll may change
  and how that shows in the event it returns, from which `NotFalselyReady` (the
  adapter's `last_ready` and the client's `state`), `NumbersRight` (`shot_number`
  and the shots surfaced) and `ClubsFollowed` (the loop's club and the client's)
  are inductive.
* `MetricsProofs`: words, masks and frames parse back to what was encoded, for
  all values, masks and lengths (`WordRoundTrip`, `MaskRoundTrip`, `BallParses`,
  `ClubParses`); `MeasuredInv` carries that through the pending ball, the shot
  and the envelopes. `FieldsRight`, `ToldRight`, `NothingIsLost`,
  `ClubsUnderstood` follow. `EncodersInvert` is the other direction: the encoders
  of `testing.rs`, applied to what was parsed, give a frame that parses to the
  same, whatever the build's `RawFaceImpact`. Its lemmas are `DeviationSide` (the
  product of a double and 100.0 is one of three neighbours of the word; that the
  one which `Deviation` computes is the right one is arithmetic of f64, outside
  the proof), `RoundedOfProduct` (rounding undoes each of them) and `WireOfWord`.
  For a club frame that was too short for some of the fields its mask
  promises, this takes an argument of its own (`ClubReencodes`): the encoder keeps
  the mask and fills the missing words with the sentinel, which the parser
  reports absent as well. `MetricsTypeCorrect` is about types.

Every invariant that a passing run checks is stated by one of these theorems, and
so is the refinement of `ShotStream`. Only model-checked, because the prover has no
means for liveness under fairness: `DeadLinkSurfaces`, `PendingResolves` and
`StateConverges` of `live`, `LossSurfaces` of `btleplug`, `Reconnects` and
`GoneNoticed` of `controller`, `AttemptsEnd` and `ThreadsEnd` of `bluez`. The
watchdog's properties are proved under the hypotheses named above and are false
without them.

## 6. Not modelled

* The parameters of commands other than `SelectClub` (detection mode, units,
  green speed, carry): nothing else in the program depends on them.
* Floating point, but for what `testing.rs` makes of a parsed double (`Deviation`):
  that the sum of a reading and its offset is rounded to a double. Doubles that no
  parse returns, such as a user of the encoders may pass.
* Truncation of a notification by the caller's read buffer, which is longer than
  any notification, and the clock's byte order.
* Names, firmware and model strings; which advertisement or BlueZ object matches
  (`ble.rs`, `advertised_name` and its like); `matches_pin` compares strings.
* Writes and characteristic reads of the two transports: they change no state of
  theirs; what they may answer is `Client`'s `WriteOutcomes` and `CanFail`.
* Argument parsing and the scan before the program's loop, the monitor example,
  `flightrelay`, `btleplug`, `zbus` and BlueZ themselves, logging and formatting.

## 7. Plan

Everything with state is modelled. What is left, in this order:

1. That `Btleplug` and `Bluez` implement `Link`'s view of a connection: order
   kept, queued notifications handed out before the end.
2. Theorems: that the two backends refine that view, step by step, once it is
   stated; the safety part of the liveness properties (what cannot change while
   they wait).
3. `Metrics` inside `Session`: the frames' contents through every interleaving.
