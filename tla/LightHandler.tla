---------------------------- MODULE LightHandler ----------------------------
(***************************************************************************)
(* The Matter side of the light, firmware/app/src/presets.rs: timed Off,   *)
(* the global scene, scenes and the polled reports.  Handlers run one at a *)
(* time on the executor thread, so each is one action, and so is a scene   *)
(* recall, whose staging never suspends.                                   *)
(*                                                                         *)
(* Runtime appears as what a handler sees of it: its target and whether it *)
(* reports it ("up"), has failed and will retry ("down"), or refuses every *)
(* command ("refusing").  A command to it saves and applies the target or  *)
(* leaves it to the retry.  Option bits and the acknowledged values that   *)
(* Move, Step and Stop start from are free inputs.  Of the SDK's scene     *)
(* table only the current scene is kept.  The countdown of RemainingTime,  *)
(* the report of the Scenes cluster itself, and commands that fail without *)
(* an effect are left out.                                                 *)
(***************************************************************************)
EXTENDS LightCore

CONSTANTS
  None,
  Forever,            \* u16::MAX, which means no limit
  OnTimes, OffWaits,  \* arguments of OnWithTimedOff, in deciseconds
  TimeWrites,         \* values written to OnTime and OffWaitTime
  OnLevels,           \* values written to OnLevel
  LevelInputs, TemperatureInputs,
  Scenes,             \* the states that stored scenes describe
  SceneFields,        \* which fields a stored scene may carry
  ConsoleTargets,     \* what console commands ask Runtime for
  Elapsed             \* deciseconds between two calls of tick

Fields == {"on", "level", "temperature"}
Clusters == {"OnOff", "Level", "Color"}

ASSUME HandlerAssumption ==
  /\ LevelMax > 1 \* 254
  /\ Forever \in Nat \ {0}
  /\ OnTimes \subseteq 0..(Forever - 1) /\ OffWaits \subseteq 0..(Forever - 1)
  /\ TimeWrites \subseteq 0..Forever
  /\ OnLevels \subseteq Levels \cup {None}
  /\ LevelInputs \subseteq 0..LevelMax
  /\ TemperatureInputs \subseteq Temperatures
  /\ Scenes \subseteq LightStates /\ ConsoleTargets \subseteq LightStates
  /\ SceneFields \subseteq SUBSET Fields
  /\ Elapsed \subseteq Nat \ {0}

ASSUME AbsenceAssumption == None \notin LightStates /\ None \notin Levels

HandlerStates ==
  [target : LightStates,
   health : {"up", "down", "refusing"},
   on_level : Levels \cup {None},
   on_time : 0..Forever,
   off_wait : 0..Forever,
   timed : BOOLEAN,
   global_scene : BOOLEAN,
   global_scene_state : LightStates \cup {None},
   scene_intent : LightStates \cup {None},
   coupled_temperature : BOOLEAN,
   scene : LightStates \cup {None},   \* what the current scene describes
   output : LightStates \cup {None},  \* ReportState.output of the OnOff poll
   due : SUBSET Clusters]             \* revision or dataver moved since the poll

VARIABLES
  st,    \* the handler and what it sees of Runtime
  stale  \* clusters whose light changed, and controllers were not told since

vars == <<st, stale>>

Reported(s) == IF s.health = "up" THEN s.target ELSE None
IsOn(s) == Reported(s) # None /\ s.target.on

Fresh(target, health) ==
  [target |-> target, health |-> health, on_level |-> None,
   on_time |-> 0, off_wait |-> 0, timed |-> FALSE,
   global_scene |-> TRUE, global_scene_state |-> None, scene_intent |-> None,
   coupled_temperature |-> FALSE, scene |-> None,
   output |-> IF health = "up" THEN target ELSE None, due |-> {}]

-----------------------------------------------------------------------------
(* The pieces the handlers share.                                          *)

\* Mutant: a failed command moves no revision.
CommitUncounted(s, target) ==
  IF s.health = "refusing" THEN {s}
  ELSE {[s EXCEPT !.target = target, !.health = "up", !.due = Clusters],
        [s EXCEPT !.target = target, !.health = "down"]}

\* A command to Runtime; it returned Ok exactly when the health is then "up".
Commit(s, target) ==
  IF s.health = "refusing" THEN {s}
  ELSE {[s EXCEPT !.target = target, !.health = health, !.due = Clusters] :
          health \in {"up", "down"}}

\* changed: the current scene no longer describes the light.
Changed(s) == [s EXCEPT !.scene = None, !.scene_intent = None]

Versioned(s, cluster) == [s EXCEPT !.due = @ \cup {cluster}]

Limited(time) == time > 0 /\ time # Forever

SetPower(s, on) == Commit(Versioned(s, "OnOff"), [s.target EXCEPT !.on = on])

\* What every Off does to the timers: the guard runs, the on time is over.
TimersOff(s) ==
  [s EXCEPT !.coupled_temperature = FALSE, !.on_time = 0, !.timed = Limited(s.off_wait)]

AtLeastOne(level) == IF level = 0 THEN 1 ELSE level

\* power(true): OnLevel is a commit of its own, before the On.
PowerOn(s0) ==
  LET s == [Changed(s0) EXCEPT
              !.global_scene = TRUE,
              !.off_wait = IF s0.on_time = 0 THEN 0 ELSE @,
              !.timed = Limited(s0.on_time) /\ s0.off_wait # Forever]
      level == [s.target EXCEPT !.level = s.on_level, !.on = s.on_level > 1]
  IN  IF s.on_level = None \/ IsOn(s) THEN SetPower(s, TRUE)
      ELSE UNION {IF t.health = "up" THEN SetPower(t, TRUE) ELSE {t} :
                    t \in Commit(s, level)}

PowerOff(s) == SetPower(TimersOff(Changed(s)), FALSE)

-----------------------------------------------------------------------------
(* Each operation gives the states it may end in.                          *)

Power(s, on) == IF on THEN PowerOn(s) ELSE PowerOff(s)

Toggle(s) == IF Reported(s) = None THEN {s} ELSE Power(s, ~s.target.on)

\* Mutant: without saturation.
LeftUnbounded(time, elapsed) == time - elapsed

Left(time, elapsed) == IF time > elapsed THEN time - elapsed ELSE 0

\* Mutant: the guard ends without stopping the timers.
GuardTickedOn(s, elapsed) ==
  {Versioned([s EXCEPT !.on_time = 0, !.off_wait = Left(@, elapsed)], "OnOff")}

GuardTicked(s, elapsed) ==
  {Versioned([s EXCEPT !.on_time = 0, !.off_wait = Left(@, elapsed),
                       !.timed = s.off_wait > elapsed], "OnOff")}

\* Mutant: the on time ends without switching anything off.
LitTickedOn(s, elapsed) ==
  {Versioned([s EXCEPT !.on_time = Left(@, elapsed), !.timed = s.on_time > elapsed], "OnOff")}

\* The expiry ignores what its Off returned.
LitTicked(s, elapsed) ==
  IF s.on_time > elapsed
  THEN {Versioned([s EXCEPT !.on_time = Left(@, elapsed)], "OnOff")}
  ELSE {[t EXCEPT !.off_wait = 0, !.timed = FALSE, !.due = @ \cup {"OnOff"}] :
          t \in PowerOff([s EXCEPT !.on_time = 0])}

\* tick, while the timers run.
Ticked(s, elapsed) == IF s.target.on THEN LitTicked(s, elapsed) ELSE GuardTicked(s, elapsed)

\* timed_on: while the guard of an Off runs it only shortens the guard.
TimedOn(s, accept_only_on, on_time, off_wait) ==
  LET guarded == s.off_wait > 0 /\ ~s.target.on
      wait == IF s.off_wait < off_wait THEN s.off_wait ELSE off_wait
      t == [s EXCEPT !.on_time = IF @ > on_time THEN @ ELSE on_time, !.off_wait = off_wait]
  IN  IF Reported(s) = None \/ (accept_only_on /\ ~s.target.on) THEN {s}
      ELSE IF guarded
      THEN {Versioned([s EXCEPT !.off_wait = wait, !.timed = Limited(wait)], "OnOff")}
      ELSE {[u EXCEPT !.timed = u.on_time # Forever /\ u.off_wait # Forever] :
              u \in PowerOn(t)}

\* Mutant: the flag is cleared although there is nothing to save.
SaveGlobalSceneUnread(s) ==
  IF s.global_scene
  THEN {[s EXCEPT !.global_scene_state = Reported(s), !.global_scene = FALSE]}
  ELSE {s}

\* save_global_scene, which fails when there is nothing to save.
SaveGlobalScene(s) ==
  IF ~s.global_scene THEN {s}
  ELSE IF Reported(s) = None THEN {}
  ELSE {[s EXCEPT !.global_scene_state = Reported(s), !.global_scene = FALSE]}

OffWithEffect(s) == UNION {PowerOff(t) : t \in SaveGlobalScene(s)}

RecallGlobalScene(s) ==
  IF s.global_scene \/ s.global_scene_state = None THEN {s}
  ELSE {IF t.health # "up" THEN t
        ELSE Versioned([t EXCEPT !.global_scene = TRUE,
                                 !.off_wait = IF t.on_time = 0 THEN 0 ELSE @], "OnOff") :
          t \in Commit(Changed(s), s.global_scene_state)}

\* RecallScene: begin_scene, stage_scene for each cluster, then finish_scene;
\* the SDK makes the scene the current one before finish_scene.
RecallScene(s, scene, fields) ==
  LET draft == [field \in Fields |->
                  IF field \in fields THEN scene[field] ELSE s.target[field]]
      t == [s EXCEPT !.scene = draft, !.coupled_temperature = FALSE,
                     !.on_time = 0, !.off_wait = 0, !.timed = FALSE]
  IN  IF Reported(s) = None THEN {s}
      ELSE {IF u.health # "up" THEN Changed(u)
            ELSE Versioned([u EXCEPT !.global_scene = @ \/ draft.on,
                                     !.scene_intent = draft], "OnOff") :
              u \in Commit(t, draft)}

\* A recall of a malformed scene: abort_scene.
AbortScene(s) == IF Reported(s) = None THEN {s} ELSE {Changed(s)}

\* StoreScene captures what is reported.
StoreScene(s) ==
  IF Reported(s) = None THEN {s}
  ELSE {[s EXCEPT !.scene = Reported(s), !.scene_intent = None]}

CoupledTemperature(level) ==
  TempMax - ((AtLeastOne(level) - 1) * (TempMax - TempMin)) \div (LevelMax - 1)

\* level_to_curve, for MoveToLevel, Move and Step with and without OnOff; the
\* coupled colour is a commit of its own.
LevelTo(s, raw, with_on_off, execute_if_off, couple) ==
  LET target == [s.target EXCEPT !.level = AtLeastOne(raw),
                                 !.on = IF with_on_off THEN raw > 1 ELSE @]
      coupled(t) == {[u EXCEPT !.coupled_temperature = u.health = "up"] :
                       u \in Commit(t, [target EXCEPT
                                          !.temperature = CoupledTemperature(raw)])}
      finished(t) == [t EXCEPT !.global_scene = @ \/ (with_on_off /\ raw > 1)]
  IN  IF ~(with_on_off \/ IsOn(s) \/ (Reported(s) # None /\ execute_if_off)) THEN {s}
      ELSE UNION {IF t.health # "up" THEN {t}
                  ELSE {IF u.health = "up" THEN finished(u) ELSE u :
                          u \in IF couple THEN coupled(t)
                                ELSE {[t EXCEPT !.coupled_temperature = FALSE]}} :
                    t \in Commit(Changed(s), target)}

\* color_to, for MoveToColorTemperature, Move and Step.
ColorTo(s, temperature, execute_if_off) ==
  IF ~(IsOn(s) \/ (Reported(s) # None /\ execute_if_off)) THEN {s}
  ELSE Commit([Changed(s) EXCEPT !.coupled_temperature = FALSE],
              [s.target EXCEPT !.temperature = temperature])

\* stop_level: Runtime decides where a fade stops, or that none runs; the
\* colour stops with it when it was coupled and the level did stop.
StopLevel(s, stopped) ==
  LET t == Changed(s)
      level == {t} \cup Commit(t, stopped)
      done == {u \in level : u.health = "up" \/ (u = t /\ u.health = "down")}
      color(u) == {u} \cup Commit(u, [u.target EXCEPT !.temperature = stopped.temperature])
  IN  (level \ done)
        \cup UNION {IF u.coupled_temperature
                    THEN color([u EXCEPT !.coupled_temperature = FALSE])
                    ELSE {u} : u \in done}

StopColor(s, temperature) ==
  LET t == [Changed(s) EXCEPT !.coupled_temperature = FALSE]
  IN  IF Reported(s) = None THEN {s}
      ELSE {t} \cup Commit(t, [s.target EXCEPT !.temperature = temperature])

\* Attribute writes.
SetOnTime(s, value) == {Versioned([s EXCEPT !.on_time = value], "OnOff")}
SetOffWaitTime(s, value) == {Versioned([s EXCEPT !.off_wait = value], "OnOff")}
SetOnLevel(s, value) == {Versioned([s EXCEPT !.on_level = value], "Level")}

\* poll_report of one cluster: a change nothing else announced ends the scene.
Polled(s, cluster) ==
  LET announced == s.scene_intent # None /\ Reported(s) = s.scene_intent
      t == IF cluster = "OnOff" /\ Reported(s) # s.output /\ ~announced
           THEN Changed(s) ELSE s
  IN  [t EXCEPT !.due = @ \ {cluster},
                !.output = IF cluster = "OnOff" THEN Reported(s) ELSE @]

-----------------------------------------------------------------------------
(* Actions.                                                                *)

Told(clusters) == IF Reported(st') # Reported(st) THEN Clusters ELSE stale \ clusters

Handle(states) ==
  /\ st' \in states
  /\ stale' = Told({})

Timers ==
  \/ \E on \in BOOLEAN : Handle(Power(st, on))
  \/ Handle(Toggle(st))
  \/ Handle(OffWithEffect(st))
  \/ \E accept_only_on \in BOOLEAN, on_time \in OnTimes, off_wait \in OffWaits :
        Handle(TimedOn(st, accept_only_on, on_time, off_wait))
  \/ \E value \in TimeWrites : Handle(SetOnTime(st, value) \cup SetOffWaitTime(st, value))
  \/ \E value \in OnLevels : Handle(SetOnLevel(st, value))

Tick ==
  /\ st.timed
  /\ \E elapsed \in Elapsed : Handle(Ticked(st, elapsed))

ScenesNext ==
  \/ Handle(RecallGlobalScene(st))
  \/ \E scene \in Scenes, fields \in SceneFields : Handle(RecallScene(st, scene, fields))
  \/ Handle(AbortScene(st))
  \/ Handle(StoreScene(st))

LevelAndColor ==
  \/ \E raw \in LevelInputs, with_on_off, execute_if_off, couple \in BOOLEAN :
        Handle(LevelTo(st, raw, with_on_off, execute_if_off, couple))
  \/ \E temperature \in TemperatureInputs, execute_if_off \in BOOLEAN :
        Handle(ColorTo(st, temperature, execute_if_off))
  \/ \E stopped \in ConsoleTargets : Handle(StopLevel(st, stopped))
  \/ \E temperature \in TemperatureInputs : Handle(StopColor(st, temperature))

PollOf(cluster) ==
  /\ st' = Polled(st, cluster)
  /\ stale' = Told({cluster} \cap st.due)

Poll == \E cluster \in Clusters : PollOf(cluster)

\* The USB console reaches Runtime without the handler.
Console == \E target \in ConsoleTargets : Handle(Commit(st, target))

\* Its Off is never refused, and may end a refusal: it repairs a malformed
\* record, and waits with one that cannot be read.
LocalOff ==
  LET off == [st EXCEPT !.target.on = FALSE]
  IN  Handle({[off EXCEPT !.health = health, !.due = Clusters] : health \in {"up", "down"}}
               \cup (IF st.health = "refusing" THEN {off} ELSE {}))

\* A failed save, output or readback, its retry, a record read at last, and
\* the wait before a reboot: each moves the revision.
Fails ==
  /\ st.health = "up"
  /\ Handle({[st EXCEPT !.health = "down", !.due = Clusters]})

Recovers ==
  /\ st.health = "down"
  /\ Handle({[st EXCEPT !.health = "up", !.due = Clusters]})

Refuses ==
  /\ st.health # "refusing"
  /\ Handle({[st EXCEPT !.health = "refusing", !.due = Clusters]})

\* A record that could be read at last.
Reloads ==
  /\ st.health = "refusing"
  /\ \E target \in ConsoleTargets, health \in {"up", "down"} :
        Handle({[st EXCEPT !.target = target, !.health = health, !.due = Clusters]})

\* The transport loop of device_matter.rs drops the polls and starts them
\* anew: what changed before is then not announced, and not counted as stale.
TransportRestart ==
  /\ st' = [st EXCEPT !.due = {}, !.output = Reported(st)]
  /\ stale' = {}

\* A reset of the ESP: controllers start from the present state.
Restart ==
  /\ \E health \in {"down", "refusing"} : st' = Fresh(st.target, health)
  /\ stale' = {}

Init ==
  /\ st \in {Fresh(DefaultState, health) : health \in {"down", "refusing"}}
  /\ stale = {}

MatterCommand == Timers \/ ScenesNext \/ LevelAndColor

Around ==
  Console \/ LocalOff \/ Fails \/ Recovers \/ Refuses \/ Reloads \/ TransportRestart

Next == MatterCommand \/ Tick \/ Poll \/ Around \/ Restart

Spec == Init /\ [][Next]_vars

-----------------------------------------------------------------------------
(* Properties.                                                             *)

\* Types and ranges; the timers never leave 0..Forever, whatever is written
\* to them while they run (presets.rs, set_on_time and tick).
TypeOK == st \in HandlerStates /\ stale \subseteq Clusters

\* The cleared global-scene flag promises a state to return to: whatever
\* cleared it, through faults and refused commands, saved one that was
\* reported (presets.rs, save_global_scene and recall_global_scene).
GlobalSceneIsSaved == ~st.global_scene => st.global_scene_state # None

\* No change of what the light reports is lost on controllers: each cluster
\* was told since, or its next poll will tell, whoever made the change and
\* even if polls of the clusters interleave with it (presets.rs, poll_report).
ReportsAreTold == stale \subseteq st.due

\* "A later target change, not a fade frame, invalidates the scene"
\* (presets.rs, AtomicScenes): after a poll of the OnOff cluster the current
\* scene, if there is one, describes what the light reports.
PolledSceneIsTrue ==
  [][PollOf("OnOff") => None \in {st'.scene, Reported(st')} \/ st'.scene = Reported(st')]_vars
=============================================================================
