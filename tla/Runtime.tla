------------------------------- MODULE Runtime -------------------------------
(***************************************************************************)
(* The light's single state owner, firmware/app/src/runtime.rs: a durable  *)
(* target, the fades that lead the output there, and the last frame the    *)
(* output adapter acknowledged.                                            *)
(*                                                                         *)
(* Every method of Runtime runs to completion on the one executor thread,  *)
(* so each is one action.  The I/O it performs may fail: F is the set of   *)
(* calls that fail in one operation, drawn from FailureSets.  Time is      *)
(* relative to the last tick: a track carries its age, and retry_in and    *)
(* verify_in are what is left until retry_at and next_verify.              *)
(*                                                                         *)
(* Diagnostic counters (failures, storage_failures, recoveries) and the    *)
(* intent kept inside Controller, which nothing reads, are left out.       *)
(***************************************************************************)
EXTENDS LightCore, Transitions

CONSTANTS
  DefaultTransition,   \* DEFAULT_TRANSITION_MS
  RetryDelay,          \* the 5_000 ms before a failed operation is retried
  VerifyInterval,      \* the 5_000 ms between periodic readbacks
  EffectLegs,          \* the two leg lengths of each timed OffEffect
  PresetTemperature,   \* the temperatures of the two legacy presets
  Revisions,           \* the modulus of the wrapping revision counter
  FailureSets,         \* which I/O calls may fail together in one operation
  StoredRecords,       \* what flash may hold when the system first starts
  Durations,           \* requested transition times; 0 asks for the default
  TickSteps,           \* elapsed times between two ticks
  LevelInputs,         \* levels a command may carry, 0 included
  TemperatureInputs,   \* temperatures a command may carry
  SceneTargets,        \* targets of scene recalls and whole-state requests
  StartupLevels,       \* startup levels a controller may write
  StartupTemperatures  \* startup temperatures a controller may write

Faults == {"None", "Storage", "InvalidRecord", "Output", "Rebooting"}
OffEffects == {"FastFade", "NoFade", "SlowFade", "DyingLight"}

\* Which call of an operation fails: the record's load and store, a shutdown
\* whose result decides what follows ("stop" where the operation begins with
\* it, "zero" inside reconcile), a frame, a readback, the register dump, and
\* the shutdown attempted only because something else failed ("park").
IoCalls == {"load", "store", "stop", "zero", "apply", "verify", "read", "park"}

Startups ==
  [power : {0, 1}, level : (0..LevelMax) \cup {None},
   temperature : Temperatures \cup {None}]

DefaultStartup == [power |-> 0, level |-> None, temperature |-> None]

-----------------------------------------------------------------------------
(* The stored record.  Version 3 is the current layout, whose power policy *)
(* may still be a legacy On (2) or Toggle (3); version 2 held two presets, *)
(* and only the policy of the selected one matters; every other content is *)
(* malformed.                                                              *)

NoRecord == [kind |-> "absent"]
Malformed == [kind |-> "malformed"]

Version3(intended, startup) ==
  [kind |-> "v3", intended |-> intended, startup |-> startup]

Version2(on, preset, policy) ==
  [kind |-> "v2", on |-> on, preset |-> preset, policy |-> policy]

Records ==
  {NoRecord, Malformed}
    \cup [kind : {"v3"}, intended : LightStates,
          startup : [power : 0..3, level : (0..LevelMax) \cup {None},
                     temperature : Temperatures \cup {None}]]
    \cup [kind : {"v2"}, on : BOOLEAN, preset : {1, 2}, policy : 0..3]

ASSUME RuntimeAssumption ==
  /\ DefaultTransition \in Nat \ {0}
  /\ RetryDelay \in Nat \ {0}
  /\ VerifyInterval \in Nat \ {0}
  /\ EffectLegs \in [OffEffects \ {"NoFade"} -> [first : Nat \ {0}, last : Nat]]
  /\ \A effect \in {"SlowFade", "DyingLight"} : EffectLegs[effect].last # 0
  /\ PresetTemperature \in [{1, 2} -> Temperatures]
  /\ Revisions \in Nat \ {0}
  /\ FailureSets \subseteq SUBSET IoCalls
  /\ StoredRecords \subseteq Records
  /\ Durations \subseteq Nat
  /\ TickSteps \subseteq Nat
  /\ LevelInputs \subseteq 0..LevelMax
  /\ TemperatureInputs \subseteq Temperatures
  /\ SceneTargets \subseteq LightStates
  /\ StartupLevels \subseteq (0..LevelMax) \cup {None}
  /\ StartupTemperatures \subseteq Temperatures \cup {None}

-----------------------------------------------------------------------------
(* State.                                                                  *)

LevelTracks ==
  [ramp : Legs(Brightnesses, Nat), then : Legs(Brightnesses, Nat) \cup {None},
   off_temperature : Temperatures \cup {None}, age : Nat]

TemperatureTracks == [ramp : Legs(Temperatures, Nat), age : Nat]

\* An absent value is none of the values an Option may hold.
ASSUME NoneAssumption ==
  /\ None \notin Int
  /\ None \notin Frames
  /\ None \notin Legs(Brightnesses, Nat)
  /\ None \notin LevelTracks
  /\ None \notin TemperatureTracks

States ==
  [target : LightStates,
   applied : Frames \cup {None},                        \* the acknowledged frame
   level_transition : LevelTracks \cup {None},
   temperature_transition : TemperatureTracks \cup {None},
   fault : Faults,
   dirty : BOOLEAN,                       \* the record no longer holds the intent
   startup : Startups,
   load_fault : {"None", "Storage", "InvalidRecord"},
   off_after_load : BOOLEAN,
   verify_in : 0..VerifyInterval,
   retry_in : 0..RetryDelay,
   revision : 0..(Revisions - 1)]

VARIABLES
  rt,     \* the State record in RAM, lost by a reset
  flash,  \* the stored record
  lamp    \* the brightness of the frame the PCA holds, None when not known

vars == <<rt, flash, lamp>>

-----------------------------------------------------------------------------
(* Loading.                                                                *)

\* Legacy On and Toggle policies must not turn a saved Off on.
OffPolicy(policy) == IF policy = 1 THEN 1 ELSE 0

\* decode_record, and unwrap_or_default for what cannot be decoded.
Decode(record) ==
  IF record.kind = "v3"
  THEN [intended |-> record.intended,
        startup |-> [record.startup EXCEPT !.power = OffPolicy(@)],
        migrated |-> record.startup.power > 1]
  ELSE IF record.kind = "v2"
  THEN [intended |-> [DefaultState EXCEPT
                        !.on = record.on,
                        !.temperature = PresetTemperature[record.preset]],
        startup |-> [DefaultStartup EXCEPT !.power = OffPolicy(record.policy)],
        migrated |-> TRUE]
  ELSE [intended |-> DefaultState, startup |-> DefaultStartup, migrated |-> FALSE]

LoadFault(record, F) ==
  IF "load" \in F THEN "Storage"
  ELSE IF record = Malformed THEN "InvalidRecord" ELSE "None"

AtLeastOne(level) == IF level = 0 THEN 1 ELSE level

StartupIntent(restored, startup) ==
  [on |-> restored.on /\ startup.power # 1,
   level |-> IF startup.level = None THEN restored.level
             ELSE AtLeastOne(startup.level),
   temperature |-> IF startup.temperature = None THEN restored.temperature
                   ELSE startup.temperature]

\* Runtime::load, which shuts the output down before it reads the record.
Loaded(record, F) ==
  LET load_fault == LoadFault(record, F)
      saved == Decode(IF load_fault = "None" THEN record ELSE NoRecord)
      target == StartupIntent(saved.intended, saved.startup)
      off_failed == "stop" \in F
  IN  [target |-> target, applied |-> None,
       level_transition |-> None, temperature_transition |-> None,
       fault |-> IF load_fault # "None" THEN load_fault
                 ELSE IF off_failed THEN "Output" ELSE "None",
       dirty |-> saved.migrated \/ target # saved.intended,
       startup |-> saved.startup,
       load_fault |-> load_fault, off_after_load |-> FALSE,
       verify_in |-> 0,
       retry_in |-> IF off_failed \/ load_fault = "Storage"
                    THEN RetryDelay ELSE 0,
       revision |-> 0]

\* What a shutdown leaves on the PCA.
Dark(F, call) == IF call \in F THEN None ELSE 0

-----------------------------------------------------------------------------
(* The pieces the operations share.                                        *)

\* Mutant: changes are not counted.
BumpNot(revision) == revision

Bump(revision) == (revision + 1) % Revisions

\* Mutant: an unreadable record does not stop commands.
WritableUnread(s) == s.fault # "Rebooting"

Writable(s) == s.fault # "Rebooting" /\ s.load_fault = "None"

Duration(requested) == IF requested = 0 THEN DefaultTransition ELSE requested

\* Mutant: a fade starts from the target instead of the acknowledged frame.
CurrentTarget(s) == FromState(s.target)

\* The acknowledged frame, or the target switched off when none is.
CurrentFrame(s) ==
  IF s.applied # None THEN s.applied
  ELSE FromState([s.target EXCEPT !.on = FALSE])

LevelTrack(ramp, then, off_temperature) ==
  [ramp |-> ramp, then |-> then, off_temperature |-> off_temperature, age |-> 0]

TemperatureTrack(ramp) == [ramp |-> ramp, age |-> 0]

Fading(s) ==
  s.level_transition # None /\ LevelRemaining(s.level_transition) # 0

\* Mutant: a fade to Off takes the colour now remembered for the next On.
ThawedTemperature(s) == s.target.temperature

\* The settled colour: frozen while a fade leads to Off.
SettledTemperature(s) ==
  IF Fading(s) /\ s.level_transition.off_temperature # None
  THEN s.level_transition.off_temperature
  ELSE s.target.temperature

\* The frame the output should show now.
Effective(s) ==
  LET brightness == IF Fading(s) THEN LevelValue(s.level_transition)
                    ELSE FromState(s.target).brightness
  IN  [state |->
         [on |-> IF Fading(s) THEN brightness # 0 ELSE s.target.on,
          level |-> IF Fading(s) THEN ToLevelClamped(brightness) ELSE s.target.level,
          temperature |->
            IF s.temperature_transition # None
            THEN TemperatureValue(s.temperature_transition)
            ELSE SettledTemperature(s)],
       brightness |-> brightness]

\* Mutant: a level fade is dropped one time unit before its end.
ClearAlmostFinished(s) ==
  [s EXCEPT !.level_transition =
     IF @ # None /\ LevelRemaining(@) <= 1 THEN None ELSE @]

\* Drop the tracks that have reached their end.
ClearFinished(s) ==
  [s EXCEPT
     !.level_transition =
        IF @ # None /\ LevelRemaining(@) = 0 THEN None ELSE @,
     !.temperature_transition =
        IF @ # None /\ TemperatureRemaining(@) = 0 THEN None ELSE @]

\* Mutant: a failed output keeps its acknowledgement.
OutputFailedKeepsFrame(s) ==
  [s EXCEPT !.fault = "Output", !.retry_in = RetryDelay, !.revision = Bump(@)]

\* Invalidate the acknowledgement, note the fault and wait before a retry.
OutputFailed(s) ==
  [s EXCEPT !.applied = None, !.fault = "Output",
            !.retry_in = RetryDelay, !.revision = Bump(@)]

FailOutput(s, F) ==
  /\ rt' = OutputFailed(s)
  /\ lamp' = Dark(F, "park")

\* Mutant: recovery resumes the fade that was under way.
FromFade(s) == s

\* From an unknown frame the output is first proved dark, and an On target is
\* then eased in from zero; a fade under way is abandoned.
FromZero(s) ==
  [s EXCEPT
     !.level_transition =
        IF s.target.on
        THEN LevelTrack(Leg(0, FromLevel(s.target.level), DefaultTransition, "Smooth"),
                        None, None)
        ELSE None,
     !.temperature_transition = None]

Reconcile(s, F) ==
  LET unknown == s.applied = None
      z == IF unknown THEN FromZero(s) ELSE s
      frame == Effective(z)
      changed == z.applied # frame
  IN  \/ /\ unknown /\ "zero" \in F
         /\ FailOutput(s, F)
      \/ /\ ~(unknown /\ "zero" \in F)
         /\ changed /\ "apply" \in F
         /\ FailOutput(z, F)
      \/ /\ ~(unknown /\ "zero" \in F)
         /\ ~(changed /\ "apply" \in F)
         /\ rt' = ClearFinished(
                    [z EXCEPT !.applied = frame, !.fault = "None", !.retry_in = 0,
                              !.verify_in = IF changed THEN VerifyInterval ELSE @,
                              !.revision = IF unknown THEN Bump(@) ELSE @])
         /\ lamp' = IF changed THEN frame.brightness ELSE lamp

SaveFails(s, F) == s.dirty /\ "store" \in F

\* Mutant: a failed write keeps the acknowledged frame.
FailSaveKeepsFrame(s, F) ==
  /\ rt' = [s EXCEPT !.fault = "Storage", !.retry_in = RetryDelay, !.revision = Bump(@)]
  /\ UNCHANGED <<flash, lamp>>

\* save_intent, when the record cannot be written.
FailSave(s, F) ==
  /\ rt' = [s EXCEPT !.fault = "Storage", !.applied = None,
                     !.retry_in = RetryDelay, !.revision = Bump(@)]
  /\ lamp' = Dark(F, "park")
  /\ UNCHANGED flash

\* Mutant: saving the target forgets the startup settings.
SaveTargetOnly(s) ==
  flash' = IF s.dirty THEN Version3(s.target, DefaultStartup) ELSE flash

\* save_intent, when there is nothing to save or the write succeeds.
SaveIntent(s) ==
  flash' = IF s.dirty THEN Version3(s.target, s.startup) ELSE flash

Clean(s) == [s EXCEPT !.dirty = FALSE]

\* The destination is durable before any output moves toward it.
Commit(s, target, F) ==
  LET c == [s EXCEPT !.dirty = @ \/ s.target # target, !.target = target,
                     !.revision = Bump(@)]
  IN  \/ /\ SaveFails(c, F)
         /\ FailSave(c, F)
      \/ /\ ~SaveFails(c, F)
         /\ SaveIntent(c)
         /\ Reconcile(Clean(c), F)

-----------------------------------------------------------------------------
(* Commands.  A command that a method refuses (rebooting, unreadable       *)
(* record, value out of range) changes nothing and is not an action.       *)

\* Mutant: a fade to Off leads to the remembered level.
FadeToLevel(current, target, duration, curve) ==
  LevelTrack(Leg(current.brightness, FromLevel(target.level), duration, curve), None,
             IF target.on THEN None ELSE current.state.temperature)

\* A fade of the level from the current frame to a target.
FadeTo(current, target, duration, curve) ==
  LevelTrack(Leg(current.brightness, FromState(target).brightness, duration, curve),
             None,
             IF target.on THEN None ELSE current.state.temperature)

\* A fade of the colour from the current frame to a temperature.
ColourTo(current, temperature, duration, curve) ==
  TemperatureTrack(Leg(current.state.temperature, temperature, duration, curve))

\* recall_scene; request is the same with the default duration.
RecallScene(target, requested, F) ==
  LET current == CurrentFrame(rt)
      duration == Duration(requested)
      animate == current.brightness # 0 \/ target.on
      s == [rt EXCEPT
              !.level_transition =
                 IF animate THEN FadeTo(current, target, duration, "Smooth") ELSE None,
              !.temperature_transition =
                 IF animate /\ target.on
                 THEN ColourTo(current, target.temperature, duration, "Smooth")
                 ELSE None]
  IN  /\ Writable(rt)
      /\ Commit(IF target = rt.target THEN rt ELSE s, target, F)

SetPower(on, F) ==
  LET current == CurrentFrame(rt)
      target == [rt.target EXCEPT !.on = on]
      s == [rt EXCEPT
              !.level_transition = FadeTo(current, target, DefaultTransition, "Smooth"),
              !.temperature_transition =
                 IF ~on THEN None
                 ELSE IF current.state.temperature # target.temperature
                 THEN ColourTo(current, target.temperature, DefaultTransition, "Smooth")
                 ELSE @]
  IN  /\ Writable(rt)
      /\ Commit(IF on = rt.target.on THEN rt ELSE s, target, F)

\* Mutant: an effect scales the nearest logical level, not the brightness.
EffectMiddleOfLevel(effect, brightness) ==
  LET from == FromLevel(ToLevelClamped(brightness))
  IN  IF effect = "SlowFade" THEN from \div 2
      ELSE IF effect = "DyingLight" THEN brightness ELSE 0

\* The brightness between the two legs of an effect.
EffectMiddle(effect, from) ==
  LET grown == (from * 6) \div 5
  IN  IF effect = "SlowFade" THEN from \div 2
      ELSE IF effect # "DyingLight" THEN 0
      ELSE IF grown <= MaxBrightness THEN grown ELSE MaxBrightness

\* off_with_effect: effects scale the physical brightness; the saved level stays.
OffWithEffect(effect, F) ==
  LET current == CurrentFrame(rt)
      from == current.brightness
      middle == EffectMiddle(effect, from)
      legs == EffectLegs[effect]
      track == LevelTrack(Leg(from, middle, legs.first, "Smooth"),
                          IF legs.last = 0 THEN None
                          ELSE Leg(middle, 0, legs.last, "Smooth"),
                          current.state.temperature)
      s == [rt EXCEPT
              !.level_transition = IF from # 0 /\ effect # "NoFade" THEN track ELSE None,
              !.temperature_transition = None]
  IN  /\ Writable(rt)
      /\ Commit(s, [rt.target EXCEPT !.on = FALSE], F)

\* level_transition, for set_level_transition (smooth) and set_level_rate.
MoveLevel(level, with_on_off, duration, curve, F) ==
  LET current == CurrentFrame(rt)
      target == [rt.target EXCEPT !.level = AtLeastOne(level),
                                  !.on = IF with_on_off THEN level > 1 ELSE @]
      kept == \/ target = rt.target /\ curve = "Smooth"
              \/ ~target.on /\ ~rt.target.on /\ ~with_on_off
      animate == duration # 0 /\ (current.brightness # 0 \/ target.on)
      s == [rt EXCEPT
              !.level_transition =
                 IF animate THEN FadeTo(current, target, duration, curve) ELSE None,
              !.temperature_transition =
                 IF ~target.on THEN None
                 ELSE IF ~rt.target.on /\ current.state.temperature # target.temperature
                 THEN ColourTo(current, target.temperature, duration, curve)
                 ELSE @]
  IN  /\ Writable(rt)
      /\ Commit(IF kept THEN rt ELSE s, target, F)

SetLevelTransition(level, with_on_off, requested, F) ==
  MoveLevel(level, with_on_off, Duration(requested), "Smooth", F)

SetLevelRate(level, with_on_off, duration, F) ==
  MoveLevel(level, with_on_off, duration, "Linear", F)

\* temperature_transition, for set_temperature_transition and set_temperature_rate.
MoveTemperature(temperature, duration, curve, F) ==
  LET current == CurrentFrame(rt)
      s == [rt EXCEPT
              !.temperature_transition =
                 IF duration # 0 THEN ColourTo(current, temperature, duration, curve)
                 ELSE None]
      moves == rt.target.on /\ (temperature # rt.target.temperature \/ curve = "Linear")
  IN  /\ Writable(rt)
      /\ Commit(IF moves THEN s ELSE rt,
                [rt.target EXCEPT !.temperature = temperature], F)

SetTemperatureTransition(temperature, requested, F) ==
  MoveTemperature(temperature, Duration(requested), "Smooth", F)

SetTemperatureRate(temperature, duration, F) ==
  MoveTemperature(temperature, duration, "Linear", F)

\* A stop stores the setting nearest to the acknowledged frame; with no
\* acknowledged frame, or no fade, it changes nothing.
StopLevelTransition(F) ==
  /\ Writable(rt)
  /\ rt.level_transition # None
  /\ rt.applied # None
  /\ LET stopped == rt.level_transition
         target == [level |-> ToLevelClamped(rt.applied.brightness),
                    on |-> rt.applied.brightness > Floor \div 2,
                    temperature |-> IF stopped.off_temperature # None
                                    THEN stopped.off_temperature
                                    ELSE rt.target.temperature]
     IN  Commit([rt EXCEPT !.level_transition = None], target, F)

StopTemperatureTransition(F) ==
  /\ Writable(rt)
  /\ rt.temperature_transition # None
  /\ rt.applied # None
  /\ Commit([rt EXCEPT !.temperature_transition = None],
            [rt.target EXCEPT !.temperature = rt.applied.state.temperature], F)

\* Local Off: immediate, and accepted whatever the fault.
Off(F) ==
  LET stopped == "stop" \notin F
      s == [rt EXCEPT !.applied = None, !.level_transition = None,
                      !.temperature_transition = None,
                      !.dirty = @ \/ rt.target.on, !.target.on = FALSE]
      c == [s EXCEPT !.dirty = @ \/ rt.load_fault = "InvalidRecord"]
      saved == [Clean(c) EXCEPT !.load_fault = "None", !.revision = Bump(@)]
  IN  \/ /\ rt.load_fault = "Storage"
         /\ rt' = [s EXCEPT !.off_after_load = TRUE, !.dirty = FALSE]
         /\ lamp' = Dark(F, "stop")
         /\ UNCHANGED flash
      \/ /\ rt.load_fault # "Storage"
         /\ SaveFails(c, F)
         /\ FailSave(c, F)
      \/ /\ rt.load_fault # "Storage"
         /\ ~SaveFails(c, F)
         /\ SaveIntent(c)
         /\ IF stopped THEN Reconcile(saved, F) ELSE FailOutput(saved, F)

\* set_startup, set_startup_level and set_startup_temperature: a write that
\* fails, or that would change nothing, changes nothing.
SaveStartup(startup, F) ==
  /\ Writable(rt)
  /\ startup # rt.startup \/ rt.dirty
  /\ "store" \notin F
  /\ flash' = Version3(rt.target, startup)
  /\ rt' = [rt EXCEPT !.startup = startup, !.dirty = FALSE, !.revision = Bump(@)]
  /\ UNCHANGED lamp

SetStartup(power, F) == SaveStartup([rt.startup EXCEPT !.power = power], F)

SetStartupLevel(level, F) == SaveStartup([rt.startup EXCEPT !.level = level], F)

SetStartupTemperature(temperature, F) ==
  SaveStartup([rt.startup EXCEPT !.temperature = temperature], F)

\* Mutant: a readback trusts the PCA to hold what was written.
ReadbackTrusts(s, F) == "verify" \in F

\* A readback agrees with the acknowledged frame only while the PCA holds it.
ReadbackFails(s, F) == "verify" \in F \/ lamp # s.applied.brightness

\* verify, which changes something only when the readback fails;
\* watchdog_test_ready ends in it.
Verify(F) ==
  /\ rt.applied # None
  /\ ReadbackFails(rt, F)
  /\ FailOutput(rt, F)
  /\ UNCHANGED flash

\* registers: a dump that cannot be read counts as a failed output.
Registers(F) ==
  /\ "read" \in F
  /\ FailOutput(rt, F)
  /\ UNCHANGED flash

PrepareReboot(F) ==
  /\ rt' = [rt EXCEPT !.applied = None, !.fault = "Rebooting", !.revision = Bump(@)]
  /\ lamp' = Dark(F, "stop")
  /\ UNCHANGED flash

-----------------------------------------------------------------------------
(* tick, run every 20 ms by the maintenance loop.                          *)

Younger(left, elapsed) == IF left > elapsed THEN left - elapsed ELSE 0

Older(age, elapsed, length) ==
  IF age + elapsed < length THEN age + elapsed ELSE length

Aged(track, elapsed, length) ==
  [track EXCEPT !.age = Older(track.age, elapsed, length)]

\* The passage of time since the last tick.
Elapse(s, elapsed) ==
  [s EXCEPT
     !.level_transition =
        IF @ = None THEN None ELSE Aged(@, elapsed, LevelLength(@)),
     !.temperature_transition =
        IF @ = None THEN None ELSE Aged(@, elapsed, @.ramp.duration),
     !.verify_in = Younger(@, elapsed),
     !.retry_in = Younger(@, elapsed)]

\* Mutant: a local Off received meanwhile is forgotten.
ReloadedAsSaved(s) ==
  LET saved == Decode(flash)
      target == StartupIntent(saved.intended, saved.startup)
  IN  [s EXCEPT !.target = target, !.applied = None, !.startup = saved.startup,
                !.dirty = saved.migrated \/ target # saved.intended,
                !.load_fault = "None", !.fault = "None", !.revision = Bump(@)]

\* A record that could be read at last, with a local Off received meanwhile.
Reloaded(s) ==
  LET saved == Decode(flash)
      restored == StartupIntent(saved.intended, saved.startup)
      target == [restored EXCEPT !.on = @ /\ ~s.off_after_load]
  IN  [s EXCEPT !.target = target, !.applied = None, !.startup = saved.startup,
                !.dirty = saved.migrated \/ target # saved.intended,
                !.load_fault = "None", !.fault = "None", !.revision = Bump(@)]

\* With the acknowledged frame current, only the periodic readback is left.
Recheck(s, F) ==
  LET t == ClearFinished(s)
      u == [t EXCEPT !.verify_in = VerifyInterval]
  IN  \/ /\ s.verify_in > 0
         /\ rt' = t
         /\ UNCHANGED lamp
      \/ /\ s.verify_in = 0 /\ ~ReadbackFails(s, F)
         /\ rt' = u
         /\ UNCHANGED lamp
      \/ /\ s.verify_in = 0 /\ ReadbackFails(s, F)
         /\ FailOutput(u, F)

Maintain(s, F) ==
  LET c == Clean(s)
  IN  \/ /\ SaveFails(s, F)
         /\ FailSave(s, F)
      \/ /\ ~SaveFails(s, F)
         /\ SaveIntent(s)
         /\ IF c.applied # Effective(c) THEN Reconcile(c, F) ELSE Recheck(c, F)

Tick(elapsed, F) ==
  LET s == Elapse(rt, elapsed)
      waits == s.fault = "Rebooting" \/ s.retry_in > 0
      load_fault == LoadFault(flash, F)
  IN  \/ /\ waits \/ s.load_fault = "InvalidRecord"
         /\ rt' = s
         /\ UNCHANGED <<flash, lamp>>
      \/ /\ ~waits /\ s.load_fault = "Storage" /\ load_fault # "None"
         /\ rt' = [s EXCEPT !.load_fault = load_fault, !.fault = load_fault,
                            !.retry_in = RetryDelay]
         /\ UNCHANGED <<flash, lamp>>
      \/ /\ ~waits /\ s.load_fault = "Storage" /\ load_fault = "None"
         /\ Maintain(Reloaded(s), F)
      \/ /\ ~waits /\ s.load_fault = "None"
         /\ Maintain(s, F)

-----------------------------------------------------------------------------
(* The environment.                                                        *)

\* The PCA's supply is not the ESP's: it may reset on its own.
PcaReset ==
  /\ lamp # None
  /\ lamp' = None
  /\ UNCHANGED <<rt, flash>>

\* A reset of the ESP at any point between two operations: only flash stays.
Reset(F) ==
  /\ rt' = Loaded(flash, F)
  /\ lamp' = Dark(F, "stop")
  /\ UNCHANGED flash

-----------------------------------------------------------------------------
Init ==
  /\ flash \in StoredRecords
  /\ \E F \in FailureSets : rt = Loaded(flash, F) /\ lamp = Dark(F, "stop")

Command(F) ==
  \/ \E target \in SceneTargets, requested \in Durations :
        RecallScene(target, requested, F)
  \/ \E on \in BOOLEAN : SetPower(on, F)
  \/ \E effect \in OffEffects : OffWithEffect(effect, F)
  \/ \E level \in LevelInputs, with_on_off \in BOOLEAN, duration \in Durations :
        \/ SetLevelTransition(level, with_on_off, duration, F)
        \/ SetLevelRate(level, with_on_off, duration, F)
  \/ \E temperature \in TemperatureInputs, duration \in Durations :
        \/ SetTemperatureTransition(temperature, duration, F)
        \/ SetTemperatureRate(temperature, duration, F)
  \/ StopLevelTransition(F)
  \/ StopTemperatureTransition(F)

Setting(F) ==
  \/ \E power \in {0, 1} : SetStartup(power, F)
  \/ \E level \in StartupLevels : SetStartupLevel(level, F)
  \/ \E temperature \in StartupTemperatures : SetStartupTemperature(temperature, F)

Local(F) == Off(F) \/ Verify(F) \/ Registers(F) \/ PrepareReboot(F)

\* What may fail in an operation that makes these calls.
Failing(calls) == {F \in FailureSets : F \subseteq calls}

Next ==
  \/ \E F \in Failing({"store", "zero", "apply", "park"}) : Command(F)
  \/ \E F \in Failing({"store"}) : Setting(F)
  \/ \E F \in Failing(IoCalls \ {"load"}) : Local(F)
  \/ \E F \in Failing(IoCalls \ {"stop", "read"}), elapsed \in TickSteps :
        Tick(elapsed, F)
  \/ \E F \in Failing({"load", "stop"}) : Reset(F)
  \/ PcaReset

Spec == Init /\ [][Next]_vars

-----------------------------------------------------------------------------
(* Properties.                                                             *)

TypeOK ==
  /\ rt \in States
  /\ flash \in Records
  /\ lamp \in Brightnesses \cup {None}

\* What controllers read: the target while an acknowledged frame stands.
Reported == IF rt.fault # "None" \/ rt.applied = None THEN None ELSE rt.target

\* An acknowledged frame means that flash already holds the target it leads
\* to and the startup settings, and that no fault is pending.
AcknowledgedIsDurable ==
  rt.applied # None =>
    /\ rt.fault = "None" /\ rt.load_fault = "None" /\ ~rt.dirty /\ rt.retry_in = 0
    /\ flash # Malformed
    /\ Decode(flash) = [intended |-> rt.target, startup |-> rt.startup, migrated |-> FALSE]

\* The acknowledged power and brightness are those the level fade calls for at
\* the last tick, so an Off target is dark or on its way there.
AcknowledgedIsEffective ==
  rt.applied # None =>
    /\ rt.applied.brightness = Effective(rt).brightness
    /\ rt.applied.state.on = Effective(rt).state.on
    /\ rt.applied.state.level = Effective(rt).state.level

\* A level fade ends at the brightness of the durable target.
FadesEndAtTarget ==
  rt.level_transition # None =>
    LevelEnd(rt.level_transition) = FromState(rt.target).brightness

\* A colour fade ends at the durable temperature.
ColourFadesEndAtTarget ==
  rt.temperature_transition # None =>
    rt.temperature_transition.ramp.to = rt.target.temperature

\* The PCA holds the acknowledged frame, and zero while none is acknowledged,
\* unless it reset on its own or an operation on it failed.
LampFollows ==
  lamp \in {None, IF rt.applied = None THEN 0 ELSE rt.applied.brightness}

Acknowledged == rt.applied # None /\ rt'.applied # None

\* After boot, a fault or a local Off the first acknowledged frame is dark.
StartsFromZero ==
  [][rt.applied = None /\ rt'.applied # None => rt'.applied.brightness = 0]_vars

\* A fade that starts, or restarts, does so at the acknowledged frame.
RetargetsFromAcknowledged ==
  [][Acknowledged =>
       /\ (rt'.level_transition # None /\ rt'.level_transition.age = 0) =>
            rt'.applied.brightness = rt.applied.brightness
       /\ (rt'.temperature_transition # None /\ rt'.temperature_transition.age = 0) =>
            rt'.applied.state.temperature = rt.applied.state.temperature]_vars

\* Toward an Off target the output never brightens, save in the rising first leg
\* of a DyingLight effect and then by a fifth at most, whatever settings are
\* remembered meanwhile and however late the next tick comes.
FadeOutNeverBrightens ==
  [][Acknowledged /\ ~rt'.target.on /\ rt'.applied.brightness > rt.applied.brightness =>
       /\ rt.level_transition # None /\ rt.level_transition.then # None
       /\ rt.level_transition.age < rt.level_transition.ramp.duration
       /\ rt.level_transition.ramp.from < rt.level_transition.ramp.to
       /\ rt'.applied.brightness <= (rt.level_transition.ramp.from * 6) \div 5]_vars

\* Toward an Off target the output keeps its colour.
FadeOutKeepsColour ==
  [][Acknowledged /\ ~rt'.target.on
       /\ rt.applied.brightness > 0 /\ rt'.applied.brightness > 0 =>
       rt'.applied.state.temperature = rt.applied.state.temperature]_vars

\* Stopping a level fade moves the output by at most half a logical step, or
\* half the minimum below it.
Distance(a, b) == IF a >= b THEN a - b ELSE b - a

StopCorrectionIsBounded ==
  [][StopLevelTransition({}) =>
       Distance(rt'.applied.brightness, rt.applied.brightness)
         <= (IF rt.applied.brightness >= Floor THEN StepSize ELSE Floor) \div 2]_vars

Restarts == \E F \in FailureSets : Reset(F)

\* A reset of the ESP brings back what controllers could last read, changed
\* only by the startup settings.
RestartRestoresReported ==
  [][Reported # None /\ Restarts /\ rt'.load_fault = "None" =>
       /\ rt'.target = StartupIntent(rt.target, rt.startup)
       /\ rt'.startup = rt.startup]_vars

\* A record that could not be read is not written until it was read or a local
\* Off replaced it.
UnreadRecordIsPreserved ==
  [][rt.load_fault # "None" /\ rt'.load_fault # "None" => flash' = flash]_vars

\* A local Off received while the record was unreadable overrides it.
LocalOffOutlivesReload ==
  [][rt.off_after_load /\ rt.load_fault = "Storage"
       /\ rt'.off_after_load /\ rt'.load_fault = "None" =>
       ~rt'.target.on /\ (rt'.dirty \/ ~Decode(flash').intended.on)]_vars

\* Every change of what controllers read changes the revision they watch.
ReportedChangesAreCounted ==
  [][Reported' # Reported => rt'.revision # rt.revision \/ Restarts]_vars
=============================================================================
