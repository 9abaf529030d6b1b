# Key Right: verification of the firmware

Key Right is replacement firmware (`src/firmware`, Rust, ESP32-C3) for an
existing LED key light. A Matter stack and a USB console send commands to one
state owner, which saves the destination to flash, eases the lamp there, and
drives a PCA9635 PWM chip over I2C with a readback of every frame. Around it, a
transport loop recovers the radio, a supervisor tries each updated image and a
bounded queue carries what USB prints. This directory holds TLA+ models of
these parts, the TLC configurations that check them, and TLAPS proofs about
them. Paths below are relative to `src/firmware`.

## The system and its parts

All application code runs on one executor thread: a method that does not await
is atomic, and what interleaves are whole calls of the Matter handlers, the
console, the update supervisor and the 20 ms maintenance loop. What can still
happen between two calls, or inside one I/O call, is a reset of the ESP, a
reset of the PCA (its supply is separate), a flash write or an I2C transaction
that fails, and the passing of time.

| Part | State | Operations | Interacts with | Hard because | Correct when |
|---|---|---|---|---|---|
| Units, `core/src/lib.rs` | none | level / brightness / frame conversions | everything | rounding at the floor, Off | a stop moves the lamp by half a step at most |
| Runtime, `app/src/runtime.rs` | target, two fades, acknowledged frame, fault, dirty, startup settings, deadlines, revision | 12 commands and settings, `off`, `verify`, `registers`, `prepare_reboot`, `tick`, `load` | output adapter, flash, handlers | any call may fail in the middle of an operation; commands retarget running fades; records migrate | what is acknowledged is durable and on the PCA; fades are smooth, end at the target, and to Off only darken; recovery starts dark; the light settles |
| Driver, `core/src/pca9635.rs`, `app/src/hardware.rs` | frame verified with OE low | `apply_frame`, `shutdown`, `verify_frame`, `read_registers` | I2C, OE pin, chip | chip resets between two transactions, torn writes | nothing unverified is let out; configuration only while parked |
| LightHandler, `app/src/presets.rs` | timed Off, OnLevel, options, global scene, scene draft, report state | Matter clusters, `tick`, `poll_report` | Runtime, scenes of the stack | two commits in one command, drafts, polled change detection | timers end, recall is atomic, no change goes unreported |
| Network supervision, `network*.rs`, `recovery.rs`, loop of `device_matter.rs` | association, radio, address, the clocks of each, healthy interval, restart signals, backoff | connect, scan, interruption, samples, restart, reboot | radio, Matter stack, console | four values written by different futures, signals of a run that is over, escalation | what counts as health was observed without a gap; retries are no hastier than earned; a stuck queue is not ridden out |
| Update supervision, `ota.rs`, `ota_health.rs` | deadline, verdict; slots of the OTA service | confirm, roll back, reboot into a staged image | Runtime, network health, bootloader | confirmations that fail, resets at any point, uploads | flash keeps a sound image; a broken one that is supervised gives way |
| Boot and storage, `boot.rs`, `storage.rs` | stage, retry delay, credential record | retry with backoff, halt | flash, watchdog | endless retry feeds the watchdog | never erases, never starves |
| USB console and log, `console.rs`, `output.rs` | line queue, two drop counters, flush signal | log, drop, reply, reply and flush | every part that logs, Runtime | one signal for every wait, a host that does not read | no drop goes uncounted; a reboot needs no host |
| Commissioning, CLI, vendored crates | none of ours | | | | out of scope |

`PROJECT.json` lists the same parts with their status, and under `hazards` the
places where this code is hard to test.

## The modules

| Module | Models |
|---|---|
| `LightCore` | levels, brightness coordinates, temperatures, states and frames of `core/src/lib.rs` |
| `Transitions` | `Transition` and `LevelTransition`: fixed-point easing and two-leg fades |
| `Runtime` | `Runtime<K, H>`: every method that changes state, the stored record, resets |
| `RuntimeLive` | `Runtime` with an environment that eventually leaves it alone |
| `RuntimeReboot` | `Runtime` with a history of the reboots it waits for |
| `StockPwm` | the duty-cycle arithmetic of `pca9635.rs` |
| `PwmRamp` | the ramps over which that arithmetic is checked |
| `LightHandler` | the Matter side of `presets.rs`: timers, global scene, scenes, reports |
| `LightHandlerLive` | `LightHandler` with Matter commands that eventually end |
| `LightOutput` | the abstract contract of an output adapter (`LightOutput`, `Hardware`) |
| `Pca9635` | the driver, one bus transaction at a time, with the chip |
| `Transport` | the transport loop of `device_matter.rs` and the evidence of `network.rs`, `network_driver.rs`, `network_tx.rs` and `recovery.rs` that ends a run of it |
| `TransportLive` | `Transport` with its health followed from outside, and a transmit queue that eventually stays stuck |
| `UsbLog` | the bounded output of `output.rs` and the console's replies through it |
| `Update` | the stages of boot over `boot.rs`, the supervision of `ota.rs`, and (external) the OTA service and the bootloader |
| `Device` | `UsbLog` and `Update` on one executor, with resets |
| `MC*` | values of constants for TLC |
| `*Proofs`, `DivisionFacts` | theorems and their TLAPS proofs |

**Runtime.** The variable `rt` is the `State` record (field for field, less the
diagnostic counters and the controller's copy of the intent, which nothing
reads), `flash` the stored record and `lamp` the brightness on the PCA. Each
method is one action, every call it makes included: `Commit` is `commit`,
that is save (`SaveFails`, `FailSave`, `SaveIntent`) and then `Reconcile`,
and every command ends in it. `F`, the set of I/O calls that fail in the
operation, is drawn from `FailureSets`; a call that begins an operation has a
name of its own there, as has the shutdown attempted only because something
failed. Absolute deadlines became what is left of them, and start times became
ages, because `value`, `remaining` and the guards of `tick` read nothing else;
only `Tick` lets time pass, as `now` is set only by `tick`. A record is its
decoded content: version 3 with all four power policies, the two-preset version
2, malformed, or absent. Requests that a method refuses change nothing and are
not actions. A reset of the ESP keeps `flash` alone.

**Driver.** A call goes through the steps of the code: `check` (readback of the
acknowledged frame), or `park`, `mode`, `blank`, `wake`, `dark` (the parked
initialisation), `light`, `lit`, `release`; or `write`, `confirm`. A write that
reports an error may have had no effect, its whole effect, or half of it
(`TornBank`); a readback may fail, or differ although the chip is right. The
chip and the ESP may reset before any step. The OE pin cannot fail: its error
type in `hardware.rs` is `Infallible`. The registers are MODE1 and MODE2 each
as reset or configured, and the 22 bytes of the bank as the two that vary.

**Light handler.** The variable `st` holds the cells of `LightHandler` and what
it sees of `Runtime`: the target and a health, "up" when `reported` succeeds,
"down" after a failure that Runtime retries, "refusing" while the record is
unread or a reboot waits. Each operation is an operator from a state to the set
of states it may end in, because a commit succeeds or leaves its target to the
retry, and some operations commit twice. `due` has the clusters whose data
version or revision moved since their last poll, `output` is the state the OnOff
poll compares with, and `scene` is what the stack's current scene describes.
`stale` is a history variable: the clusters whose light changed since
controllers were last told. A transport restart drops the polls, and what
changed before is then no longer counted in `stale`. A scene recall is one
action: staging never suspends, so no draft is seen by another handler.

**Transport.** `net` is what the statics and objects of one run know: the four
values health rests on (association, RSSI, local IPv6, healthy since when) and
the clocks of a stuck queue, of failed radio queries and of a missing address.
All futures of a run belong to one task, so an action is the stretch between
two awaits: `ConnectStarts` takes the controller, `ConnectEnds` holds what
`connect_inner` does once the radio answered. `ending` holds the result and
the two signals the loop selects on, which several futures may raise before it
looks. `RunEnds` is the rest of the loop's turn in its order: health is read
before `restarted()` clears it, the queue's verdict before the backoff. A
timestamp is kept as its age in minutes, up to where no comparison tells ages
apart; `Advance` passes a minute, no further than an alarm that is due.

**Device.** A queued line is known by whether its writer flushes, because
nothing else about it is read again. `Receive` takes a record and swaps the
drop counter in one step, as `writer_task` does before its next await;
everything that writes to USB may wait for ever. `Hear` begins a reply: the
three commands that flush (`test network`, `reboot`, `test watchdog`) reset the
signal, send and wait under one timeout, the others wait for room. `Restore` is
one attempt of `retry_io`; the stages are the partition table, the credential,
the Matter state and the scenes, and the OTA service starts, or does not, after
the first. `Pass` is one turn of the confirm loop with any evidence the image
can have. Time is in passes of five seconds, the first delay of a retry and the
period of the confirm loop. A build is sound, or broken in the one sense that
matters here: it never is commissioned, healthy and verified at once. `Device`
stops everything while the console spins for the watchdog test, and a reset,
asked for or not, starts both halves anew while the bootloader selects a slot.

**How they compose.** `Runtime` sees its output adapter only through success
and failure. `LightOutput` says what those mean, and `Pca9635` is shown to
implement it: a success says the PCA holds the frame (unless it reset since)
and OE is as the frame needs; a failure of a call that writes leaves OE high.
`Runtime` abstracts that once more, to `lamp`: a brightness, or `None` for
unknown. `LightHandler` sees `Runtime` as the two outcomes of a command, the
three healths and the moves between them; it does not instantiate it. `Device`
extends its two halves; `Update` takes the evidence of a verdict as free, so it
holds of whatever `Transport` and `Runtime` report.

## What the runs check

| Run | Instance | Shows |
|---|---|---|
| `fades` | 2 levels, 3 temperatures, floor 4, step 3, curves in eighths, fades of 0 and 2 ticks, effects of one and two legs, ticks of 1 and 2, no failures | `AcknowledgedIsEffective`, `FadesEndAtTarget`, `RetargetsFromAcknowledged`, `FadeOutNeverBrightens`, `FadeOutKeepsColour`, `StopCorrectionIsBounded` |
| `faults` | 1 level, 1 temperature, 15 sets of failing calls, 7 initial records, deadlines of 1 and 2, steps of 1 and 2, revision modulo 3 | `AcknowledgedIsDurable`, `LampFollows`, `StartsFromZero`, `UnreadRecordIsPreserved`, `LocalOffOutlivesReload`, `ReportedChangesAreCounted` |
| `live` | 2 levels, 1 temperature, startup settings, 6 failure sets, 3 records | `SettlesWhenCalm`, `RestartRestoresReported` |
| `driver` | the real constants, 5 frames: Off, one whose duty rounds to zero, two that encode alike, a brighter one at another temperature | `AcknowledgedIsHeld`, `EnablesOnlyVerified`, `ConfiguresOnlyParked`, `WakesDark`, `ImplementsLightOutput` |
| `pwm` | the real constants and the whole domain, 511,262 states | `StepsMatchStock`, `RampsNeverDim` |
| `handler` | 2 levels, 1 temperature, times up to 3 deciseconds, one stored scene, console On and Off | `GlobalSceneIsSaved`, `ReportsAreTold`, `TimersEnd`, `TimedLightGoesOff` |
| `transport` | minutes as units (a stall after 1, health after 2), 2 driver errors for a new controller, delays of 5, 10 and 15 | `StaleRadioWasAssociated`, `InterruptionStaysInItsRun`, `HealthIsProven`, `HasteIsEarned`, `StuckQueueReboots` |
| `device` | a queue of 2, one drop, a deadline of 3 passes, delays of 1 and 2 passes, two initial devices | `DropsAreCounted`, `EarlyFlushIsOwn`, `GoodImageRemains`, `RebootNeedsNoHost`, `SupervisedBuildRollsBack` |

`fades`, `driver`, `handler`, `transport` and `device` also check the type
invariant of their module. `Failing` limits the I/O failures of `Runtime` to the
calls an operation really makes, so that equal steps are not generated twice.

Each property has a mutant in `PROJECT.json`: a plausible mistake in one
definition that makes the same run fail.

**Bounds.** A fade matters through its ends, an interior value and its two
legs, so instant fades, fades of two ticks, effects with a second leg and a fixed-point
unit of eight reach every case, the truncation included. A DyingLight's last leg
of three and ticks of one and two let a late tick pass the end of its first leg. Two levels and three temperatures give every
order of source, target and remembered setting. The floor and the step keep
the sub-floor region and the rounding of a stop. Failure sets hold every call
alone and with the shutdown that follows it; deadlines of one or two ticks let
an operation come before, at and after them. `Revisions = 1` switches the
counter off where no property reads it. For the handler `Forever = 3` stands for
65535: an on time of two, a guard of one and steps of one and two let a timer
run on, end and overshoot; three reported states (On, Off, none) suffice for
the comparisons of `poll_report`. For the transport the ratio of 60 to 120
seconds is kept, so is the order of the clocks; three delays are two doublings
and the limit. A queue of two has a record behind the one that is written and
room or none for a reply; the history `announced` and the counter bounded by
`MaxDropped` need one drop before, during and after the swap. A deadline of
three passes leaves passes before, at and after it, and a boot that retries can
reach it. The proofs remove these bounds for the
properties listed below.

**Fairness.** In `live` and `handler` the fair action is the beat of
`presets::maintenance`, an endless loop that calls both ticks and sleeps 20 ms,
and feeds the watchdog, which resets the ESP (an action of the model) when the
loop stops. `calm` and `quiet` turn true at a moment of the environment's
choosing and are not forced to: the properties are about what follows. While
`quiet`, Matter commands have ended, but the console, faults and transport
restarts go on. `transport` assumes that once its queue is stuck for good the
runner is polled and its alarm fires (`WF(CalmProbe)`, `WF(CalmTime)`) and the
loop goes on (`WF(CalmLoop)`); `Progress`, the end of the blockage, is what the
assumption excludes, because the in-flight count of the radio that causes it is
cleared by a reset only. `device` assumes that timers wake their tasks, that
the boot and the confirm loop are then polled, and that a reset that was asked
for comes, or the watchdog's once nothing runs. It assumes nothing of the host,
of the writer, of storage, of the radio or of uploads.

## Where the code and its documents disagree

Four runs expect a violation; `findings` in `PROJECT.json` quotes the lines.

* `reboot` (`RebootStaysDark`): a local Off ends the `Rebooting` fault during
  the 250 ms before a reset that the update supervision or the transport loop
  asked for (the console's own reboot keeps its task busy). Commands are then
  accepted: an On starts a fade and the next tick lights the lamp. The instance
  has no failures and only power commands, effects and stops, and its tick
  stands for 200 ms. A register dump that fails replaces the fault too, by
  `Output`; `faults` has that step.
* `colour`: a Stop that becomes Off keeps the colour fade under way; a
  temperature set while Off does not redirect it, so the next On may fade to
  the old colour and jump at the end.
* `scene`: the handler notices changes by the console only by comparing states
  250 ms apart, so a recall undone within that time stays the current scene.
* `rollback`: an unconfirmed image whose boot halts on a decoding error reports
  it for ever and feeds the watchdog; its supervision never starts, so it is
  not reset within five minutes. Storage that stays unreadable and a service
  that `ota::start` could not give have the same end. `device` shows that the
  rollback does happen once the supervision runs.

Two more were met and have no run. `healthy_for_ms` excludes backpressure only
while it lasts: once the queue moves, the blocked time (less than a minute each
time) is part of the healthy interval, though `docs/development.md:432` speaks
of 120 seconds "excluding known transmit backpressure". `HealthIsProven` and
`HasteIsEarned` claim what the code keeps: they count blocked time as healthy
while the other three values are good. Stopping a fade to Off in its dark tail
saves level 1 over the settings remembered for the next On.

`EarlyFlushIsOwn` has an exception the code makes: a wait that begins while the
record of an earlier one, which timed out, is still to be written takes the
other's signal for its own.

## What is proved

The theorems hold for all values of the constants that satisfy the named
assumptions in the modules (units are natural numbers with a default in range,
deadlines and curve unit are positive, `None` is no value of any option).

* `RuntimeProofs`, the fade arithmetic: `ValueIsBounded`, `ValueStarts` and
  `ValueFalls`. The easing polynomial lies between 0 and the unit squared
  (`SmoothBound`) and grows with the age, so a leg begins at its start, never
  leaves the interval of its end points and, when it falls, only falls; the
  truncation of negative products is what the lemmas are careful about. It is
  why the range checks of `OutputBrightness::new` and `ColorTemperature::new` in
  `effective` cannot panic.
* `RuntimeProofs`, the state: `Invariant`, and from it `TypeCorrect`,
  `AcknowledgementIsDurable`, `LampIsAccountedFor` and `RecoveryStartsFromZero`.
  `AcknowledgedIsDurable` is not inductive: after a failed operation the state
  says nothing of flash, yet the next tick may acknowledge a frame without
  writing. The strengthening `CleanIsSaved` says that whenever the record is
  readable and not dirty, flash holds the intent or is the record it was decoded
  from; `AcknowledgedIsSound` says an acknowledged frame excludes every fault
  and pending save. Each operation has a lemma; those that end in `commit` share
  `CommitStep`, which rests on `ReconcileStep`. Beside the invariant, each lemma
  says what the piece does to the revision.
* `RuntimeFadesProofs`: `FadesEndRight`, `AcknowledgementIsCurrent`,
  `UnreadRecordStays`, `LocalOffIsKept` and `RestartKeepsReported`.
  `FadesEndAtTarget` is not inductive alone: the reload of a record replaces the
  target without touching the fades. `UnreadIsStill` closes it (no fade exists
  while the record is unread, because commands are refused then and `off` drops
  the fades). Each piece of an operation `Follows` the state it starts from:
  same target, same load fault, a fade that still leads there, an acknowledged
  frame that is the one due. The two theorems on steps and restarts also use the
  invariant of `RuntimeProofs`. Needed of the constants: the effects with a
  middle brightness have a second leg, as `off_with_effect` gives them.
* `RuntimeFadesProofs`, the steps: `RetargetsStart`, `FadeOutFalls`,
  `FadeOutFreezesColour`, `StopCorrects` and `ChangesAreCounted`. They compare a
  state with the next, so they need to know what every step does to the fades:
  `StepMoves` says that each either leaves them (`Still`) or lands on the frame
  due after a move in which every fade is dropped, grows older, goes on to its
  second leg, or starts at the acknowledged frame (`Moves`). It is proved once
  per operation and cited by all of them. `TrackInvariant` is what makes them
  inductive: a fade to Off freezes the colour and has no colour fade beside it,
  a second leg begins where the first ends, a first leg rises by a fifth at
  most, and a colour that moves or is frozen is acknowledged as it is due.
  `ChangesAreCounted` needs a modulus above two, because one operation may count
  twice (a fault and a new target); `u32` in the code. An
  earlier wording of `FadeOutNeverBrightens` resisted its proof for a good
  reason: a late tick may jump past the peak of a DyingLight, and TLC, given
  longer second legs and late ticks, found the counterexample. The property
  allows for it now, and the bounds of `fades` include it.
* `Pca9635Proofs`: `TypeCorrect`, an invariant that attaches to each step of a call what the
  chip, OE and the acknowledged frame are then (parked steps have OE high and
  nothing acknowledged, `release` has the frame read back unless the chip
  reset), and from it the driver's four properties and
  `DriverImplementsLightOutput`: initial states map to initial states and each
  step to a step of `LightOutput` or to a stutter.
* `PwmRampProofs`: `StepsAreStock` and `RampsOnlyBrighten`, for every scale that
  fits (`RampFits`: temperatures within 143 to 344, on which the mix is a
  percentage, and a full brightness of at most 100 floors; the firmware has 143
  to 344 and ten floors). The two truncations of the stock formula combine into
  one (`QuotientOfQuotient`), and a duty cycle always fits its byte (`DutyFits`).
* `TransportProofs`: `TypeCorrect`, `StaleRadioIsAssociated`,
  `InterruptionsStay`, `HealthNeedsEvidence` (a healthy interval runs only while
  its evidence is good), and over `TransportLive` `HealthIsAlwaysProven` and
  `HasteIsAlwaysEarned`. `HealthIsProven` compares the code's interval, minus a
  stall that is going on, with a history variable. Its invariant carries the
  interval itself (`healthy_since` is at most `proof`), the interval that ended
  longest ago (`longest_healthy` is at most `best`), and that no healthy
  interval outlives its evidence; the assumption that the shift of the delay
  reaches the limit before it stops is `5 << 4 >= 60` in the code.
* `DeviceProofs`: `TypeCorrect`, `DropsStayCounted`, `FlushesEndTheirWait` and
  `GoodImageStays`, for any capacity and deadline. `GoodImageRemains` is not
  inductive: it needs that a confirmed image is sound, that the image on trial
  leaves the one it replaces alone, and that only a confirmed image stages one.
  For the flush, a wait that began with none pending has none until it sends
  (`NonePending`) and at most one afterwards (`OnePending`).
* `LightHandlerProofs`: `TypeCorrect`, `GlobalSceneStaysSaved` and
  `ReportsStayTold`. One relation carries all three: `Keeps(s, t)` says that `t`
  is of the type, that its cleared flag has a saved state, and that a change of
  what is reported makes every cluster due. It is transitive, so an operation
  that commits twice is a chain of lemmas. A coupled colour is in range because
  a quotient lies between its bounds; the proof needs more than one level
  (`LevelMax > 1`, 254 in the code), which is the divisor's only assumption.

`DivisionFacts` holds the facts of integer division that the fades, the coupled
colour and the duty cycles rest on: bounds, monotony, uniqueness, and quotients
of quotients.

Only model-checked: liveness (`SettlesWhenCalm`, `TimersEnd`,
`TimedLightGoesOff`, `StuckQueueReboots`, `RebootNeedsNoHost`,
`SupervisedBuildRollsBack`), because fairness is beyond the prover. Every
invariant and every action property of the passing runs is a theorem; the four
runs that expect a violation are TLC's.

## Not modelled

Diagnostic counters; text of replies and logs; the durations above
`MAX_TRANSITION_MS`, which are refused; optical output and the OE wiring, of
which the code itself says nothing can be known; corruption inside the flash
store (a store that fails leaves the old record). Of the network, what a scan
finds and how it is encoded, and IPv4, which decides nothing. Of boot, the
making of a credential (one draw, one write) and panics, which are resets. Of
updates, the transfer itself: `esp-lan-ota` and the bootloader are external and
modelled as `ota.rs` and `docs/development.md` use them. `commissioning*.rs`
open a window of the Matter stack and name a BLE advertisement; `light.rs` is
the simulated output of the bench image; the CLI is a stateless serial client;
the vendored crates are third-party: none has control logic of this program.

## Plan

1. `LightHandler`'s view of `Runtime` derived from `Runtime` itself.
2. `DurableLight`: what controllers are promised (a target that is either
   reported or not, and survives restarts), with `Runtime` shown to implement
   it.
3. `Update`'s evidence taken from `Transport` instead of free inputs, to ask
   when a sound image is confirmed.
