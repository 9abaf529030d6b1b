-------------------------- MODULE RuntimeFadesProofs --------------------------
(***************************************************************************)
(* Proofs about the fades of Runtime and about its unreadable records, for *)
(* every value of the constants.  They rest on the invariant of            *)
(* RuntimeProofs.                                                          *)
(***************************************************************************)
EXTENDS RuntimeProofs

\* The fade of a state, if any, leads to a target.
LeadsTo(s, target) ==
  s.level_transition # None =>
    LevelEnd(s.level_transition) = FromState(target).brightness

\* The acknowledged power, level and brightness are those due at the last tick.
ShowsEffective(s) ==
  s.applied # None =>
    /\ s.applied.brightness = Effective(s).brightness
    /\ s.applied.state.on = Effective(s).state.on
    /\ s.applied.state.level = Effective(s).state.level

\* No fade outlives the record it was commanded from: the reload of a record
\* replaces the target without looking at the fades.
UnreadIsStill(s) == s.load_fault # "None" => s.level_transition = None

FadeInv ==
  /\ LeadsTo(rt, rt.target)
  /\ ShowsEffective(rt)
  /\ UnreadIsStill(rt)

\* What an operation from s leaves: its target, its load fault, a fade that
\* still leads where it did.
Follows(s) ==
  /\ rt'.target = s.target
  /\ rt'.load_fault = s.load_fault
  /\ LeadsTo(s, s.target) => LeadsTo(rt', rt'.target)
  /\ ShowsEffective(rt')

-----------------------------------------------------------------------------
(* The pieces of the operations.                                           *)

\* What the output should show depends on the level fade and the target only.
LEMMA SameFadeSameFrame ==
  ASSUME NEW s, NEW t, s.target = t.target, s.level_transition = t.level_transition
  PROVE  /\ Effective(s).brightness = Effective(t).brightness
         /\ Effective(s).state.on = Effective(t).state.on
         /\ Effective(s).state.level = Effective(t).state.level
BY DEF Effective, Fading

\* A fade that is dropped because it has ended shows what its target does.
LEMMA ClearedShowsTheSame ==
  ASSUME NEW s \in States
  PROVE  /\ Effective(ClearFinished(s)).brightness = Effective(s).brightness
         /\ Effective(ClearFinished(s)).state.on = Effective(s).state.on
         /\ Effective(ClearFinished(s)).state.level = Effective(s).state.level
         /\ ClearFinished(s).level_transition \in {s.level_transition, None}
<1> DEFINE t == ClearFinished(s)
<1>1. /\ t.target = s.target
      /\ t.level_transition =
           IF s.level_transition # None /\ LevelRemaining(s.level_transition) = 0
           THEN None ELSE s.level_transition
  BY DEF ClearFinished, States
<1> HIDE DEF t
<1>2. CASE t.level_transition = s.level_transition
  BY <1>1, <1>2, SameFadeSameFrame DEF t
<1>3. CASE t.level_transition = None /\ LevelRemaining(s.level_transition) = 0
  <2>1. ~Fading(s) /\ ~Fading(t)
    BY <1>3 DEF Fading
  <2> QED
    BY <1>1, <1>3, <2>1 DEF Effective, t
<1> QED
  BY <1>1, <1>2, <1>3 DEF t

LEMMA FailOutputFollows ==
  ASSUME NEW s \in States, NEW F, FailOutput(s, F)
  PROVE  Follows(s)
<1>1. rt' = OutputFailed(s)
  BY DEF FailOutput
<1>2. rt'.level_transition = s.level_transition /\ rt'.applied = None
  BY <1>1 DEF OutputFailed, States
<1> QED
  BY <1>2, FailOutputStep DEF Follows, LeadsTo, ShowsEffective

LEMMA FailSaveFollows ==
  ASSUME NEW s \in States, NEW F, FailSave(s, F)
  PROVE  Follows(s) /\ flash' = flash
<1>1. rt'.level_transition = s.level_transition
  BY DEF FailSave, States
<1> QED
  BY <1>1, FailSaveStep DEF Follows, LeadsTo, ShowsEffective

\* A recovery from zero leads to the target.
LEMMA FromZeroLeads ==
  ASSUME NEW s \in States
  PROVE  LeadsTo(FromZero(s), s.target)
<1>1. FromZero(s).level_transition
        = IF s.target.on
          THEN LevelTrack(Leg(0, FromLevel(s.target.level), DefaultTransition, "Smooth"),
                          None, None)
          ELSE None
  BY DEF FromZero, States
<1> QED
  BY <1>1 DEF LeadsTo, LevelTrack, LevelEnd, Leg, FromState

\* What is acknowledged is what is due, whether or not the fade then ends.
LEMMA ClearFinishedFollows ==
  ASSUME NEW s, NEW y \in States, rt' = ClearFinished(y),
         y.target = s.target, y.load_fault = s.load_fault,
         LeadsTo(s, s.target) => LeadsTo(y, y.target), ShowsEffective(y)
  PROVE  Follows(s)
<1>1. /\ rt'.target = s.target /\ rt'.load_fault = s.load_fault
      /\ rt'.applied = y.applied
  BY ClearFinishedType
<1>2. rt'.level_transition \in {y.level_transition, None}
  BY ClearedShowsTheSame
<1>3. ShowsEffective(rt')
  BY <1>1, ClearedShowsTheSame DEF ShowsEffective
<1> QED
  BY <1>1, <1>2, <1>3 DEF Follows, LeadsTo

LEMMA ReconcileFollows ==
  ASSUME NEW s \in States, NEW F, Reconcile(s, F)
  PROVE  Follows(s)
<1> DEFINE unknown == s.applied = None
           z == IF unknown THEN FromZero(s) ELSE s
           frame == Effective(z)
           changed == z.applied # frame
           y == [z EXCEPT !.applied = frame, !.fault = "None", !.retry_in = 0,
                   !.verify_in = IF changed THEN VerifyInterval ELSE @,
                   !.revision = IF unknown THEN Bump(@) ELSE @]
<1>1. /\ z \in States /\ z.target = s.target /\ z.load_fault = s.load_fault
      /\ z.verify_in \in 0..VerifyInterval /\ z.revision \in 0..(Revisions - 1)
  BY FromZeroType, StateFields
<1>2. LeadsTo(s, s.target) => LeadsTo(z, s.target)
  BY FromZeroLeads
<1>3. frame \in Frames
  BY <1>1, EffectiveType
<1>4. CASE FailOutput(s, F)
  BY <1>4, FailOutputFollows
<1>5. CASE FailOutput(z, F)
  <2> HIDE DEF z
  <2> QED
    BY <1>1, <1>2, <1>5, FailOutputFollows DEF Follows
<1>6. CASE rt' = ClearFinished(y)
  <2> DEFINE v == IF changed THEN VerifyInterval ELSE z.verify_in
             r == IF unknown THEN Bump(z.revision) ELSE z.revision
  <2> HIDE DEF z, frame, changed
  <2>1. v \in 0..VerifyInterval /\ r \in 0..(Revisions - 1)
    BY <1>1, BumpType, ConstantTypes
  <2>2. y = [z EXCEPT !.applied = frame, !.fault = "None", !.retry_in = 0,
                      !.verify_in = v, !.revision = r]
    OBVIOUS
  <2> HIDE DEF v, r, y
  <2>3. /\ y \in States /\ y.target = z.target /\ y.load_fault = z.load_fault
        /\ y.level_transition = z.level_transition /\ y.applied = frame
    BY <1>1, <1>3, <2>1, <2>2, ConstantTypes DEF States, Faults
  <2>4. Effective(y).brightness = frame.brightness
        /\ Effective(y).state.on = frame.state.on /\ Effective(y).state.level = frame.state.level
    BY <2>3, SameFadeSameFrame DEF frame
  <2>5. LeadsTo(s, s.target) => LeadsTo(y, y.target)
    BY <1>1, <1>2, <2>3 DEF LeadsTo
  <2> QED
    BY <1>1, <1>6, <2>3, <2>4, <2>5, ClearFinishedFollows DEF ShowsEffective
<1> QED
  BY <1>4, <1>5, <1>6 DEF Reconcile

\* A commit leads to the target it makes durable.
LEMMA CommitFollows ==
  ASSUME NEW s \in States, NEW target \in LightStates, NEW F, Commit(s, target, F)
  PROVE  /\ rt'.target = target
         /\ rt'.load_fault = s.load_fault
         /\ LeadsTo(s, target) => LeadsTo(rt', rt'.target)
         /\ ShowsEffective(rt')
<1> DEFINE c == [s EXCEPT !.dirty = @ \/ s.target # target, !.target = target,
                          !.revision = Bump(@)]
<1>1. /\ c \in States /\ c.target = target /\ c.load_fault = s.load_fault
      /\ c.level_transition = s.level_transition
  <2>1. /\ Bump(s.revision) \in 0..(Revisions - 1)
        /\ (s.dirty \/ s.target # target) \in BOOLEAN
    BY StateFields, BumpType
  <2> QED
    BY <2>1 DEF States
<1>2. /\ Clean(c) \in States /\ Clean(c).target = target
      /\ Clean(c).load_fault = s.load_fault
      /\ Clean(c).level_transition = s.level_transition
  <2> HIDE DEF c
  <2> QED
    BY <1>1 DEF Clean, States
<1>3. FailSave(c, F) \/ Reconcile(Clean(c), F)
  BY DEF Commit
<1> HIDE DEF c
<1>4. Follows(c) \/ Follows(Clean(c))
  BY <1>1, <1>2, <1>3, FailSaveFollows, ReconcileFollows
<1> QED
  BY <1>1, <1>2, <1>4 DEF Follows, LeadsTo

LEMMA RecheckFollows ==
  ASSUME NEW s \in States, NEW F, Recheck(s, F), s.applied = Effective(s)
  PROVE  Follows(s)
<1> DEFINE t == ClearFinished(s)
           u == [t EXCEPT !.verify_in = VerifyInterval]
<1>1. /\ t \in States /\ t.target = s.target /\ t.load_fault = s.load_fault
      /\ t.level_transition \in {s.level_transition, None}
      /\ t.applied = s.applied
  BY ClearFinishedType, ClearedShowsTheSame
<1>2. ShowsEffective(t)
  BY <1>1, ClearedShowsTheSame DEF ShowsEffective
<1> HIDE DEF t
<1>3. /\ u \in States /\ u.target = s.target /\ u.load_fault = s.load_fault
      /\ u.level_transition = t.level_transition
      /\ u.applied = t.applied
  <2>1. u \in States
    BY <1>1, ConstantTypes DEF States
  <2> QED
    BY <1>1, <2>1 DEF States
<1>4. LeadsTo(s, s.target) => LeadsTo(t, s.target) /\ LeadsTo(u, s.target)
  BY <1>1, <1>3 DEF LeadsTo
<1> HIDE DEF u
<1>5. ShowsEffective(u)
  <2>1. u.target = t.target /\ t.load_fault = u.load_fault
    BY <1>1, <1>3
  <2>2. /\ u \in States /\ t \in States
        /\ u.target = t.target /\ u.level_transition = t.level_transition
    BY <1>1, <1>3, <2>1
  <2> QED
    BY <1>2, <1>3, <2>1, <2>2, SameFadeSameFrame DEF ShowsEffective
<1>6. CASE rt' \in {t, u}
  <2>1. rt'.target = s.target /\ rt'.load_fault = s.load_fault
    BY <1>1, <1>3, <1>6
  <2>2. LeadsTo(s, s.target) => LeadsTo(rt', rt'.target)
    <3>1. LeadsTo(s, s.target) => LeadsTo(rt', s.target)
      BY <1>4, <1>6
    <3> QED
      BY <2>1, <3>1
  <2>3. ShowsEffective(rt')
    BY <1>2, <1>5, <1>6
  <2> QED
    BY <2>1, <2>2, <2>3 DEF Follows
<1>7. CASE FailOutput(u, F)
  <2>1. Follows(u)
    BY <1>3, <1>7, FailOutputFollows
  <2> QED
    BY <1>3, <1>4, <2>1 DEF Follows
<1> QED
  BY <1>6, <1>7 DEF Recheck, t, u

LEMMA MaintainFollows ==
  ASSUME NEW s \in States, NEW F, Maintain(s, F)
  PROVE  Follows(s)
<1>1. /\ Clean(s) \in States /\ Clean(s).target = s.target
      /\ Clean(s).load_fault = s.load_fault
      /\ Clean(s).level_transition = s.level_transition
  BY DEF Clean, States
<1>2. CASE FailSave(s, F)
  BY <1>2, FailSaveFollows
<1>3. CASE \/ Reconcile(Clean(s), F)
           \/ Clean(s).applied = Effective(Clean(s)) /\ Recheck(Clean(s), F)
  <2>1. Follows(Clean(s))
    BY <1>1, <1>3, ReconcileFollows, RecheckFollows
  <2> QED
    BY <1>1, <2>1 DEF Follows, LeadsTo
<1> QED
  BY <1>2, <1>3 DEF Maintain

-----------------------------------------------------------------------------
(* The commands.                                                           *)

\* A command accepted with a fade to the target it commits.
LEMMA CommandFades ==
  ASSUME rt.load_fault = "None", NEW s, Retracked(s), NEW target \in LightStates,
         LeadsTo(s, target), NEW F, Commit(s, target, F)
  PROVE  FadeInv'
<1>1. s \in States /\ s.load_fault = "None"
  BY DEF Retracked
<1> QED
  BY <1>1, CommitFollows DEF FadeInv, UnreadIsStill

LEMMA FadeToLeads ==
  ASSUME NEW s, NEW current, NEW target, NEW duration, NEW curve,
         s.level_transition \in {FadeTo(current, target, duration, curve), None}
  PROVE  LeadsTo(s, target)
BY DEF LeadsTo, FadeTo, LevelTrack, LevelEnd, Leg

LEMMA RecallSceneFades ==
  ASSUME Inv, FadeInv, NEW target \in SceneTargets, NEW requested \in Durations,
         NEW F, RecallScene(target, requested, F)
  PROVE  FadeInv'
<1> DEFINE current == CurrentFrame(rt)
           duration == Duration(requested)
           animate == current.brightness # 0 \/ target.on
           l == IF animate THEN FadeTo(current, target, duration, "Smooth") ELSE None
           t == IF animate /\ target.on
                THEN ColourTo(current, target.temperature, duration, "Smooth") ELSE None
           s == [rt EXCEPT !.level_transition = l, !.temperature_transition = t]
           from == IF target = rt.target THEN rt ELSE s
<1>1. rt.load_fault = "None" /\ Commit(from, target, F)
  BY DEF RecallScene, Writable
<1>2. /\ target \in LightStates /\ duration \in Nat /\ current \in Frames
      /\ rt \in States
  BY RuntimeAssumption, DurationType, CurrentFrameType DEF Inv, TypeOK
<1>3. l \in LevelTracks \cup {None} /\ t \in TemperatureTracks \cup {None}
  BY <1>2, FadeTypes DEF Curves
<1>4. Retracked(from)
  BY <1>3, RetrackedBy DEF Inv
<1>5. LeadsTo(s, target)
  <2>1. s.level_transition \in {FadeTo(current, target, duration, "Smooth"), None}
    BY <1>2 DEF States
  <2> HIDE DEF s, current, duration
  <2> QED
    BY <2>1, FadeToLeads
<1>6. LeadsTo(from, target)
  BY <1>5 DEF FadeInv
<1> HIDE DEF from
<1> QED
  BY <1>1, <1>2, <1>4, <1>6, CommandFades

LEMMA SetPowerFades ==
  ASSUME Inv, FadeInv, NEW on \in BOOLEAN, NEW F, SetPower(on, F)
  PROVE  FadeInv'
<1> DEFINE current == CurrentFrame(rt)
           target == [rt.target EXCEPT !.on = on]
           l == FadeTo(current, target, DefaultTransition, "Smooth")
           t == IF ~on THEN None
                ELSE IF current.state.temperature # target.temperature
                THEN ColourTo(current, target.temperature, DefaultTransition, "Smooth")
                ELSE rt.temperature_transition
           s == [rt EXCEPT !.level_transition = l, !.temperature_transition = t]
           from == IF on = rt.target.on THEN rt ELSE s
<1>1. rt.load_fault = "None" /\ Commit(from, target, F)
  BY DEF SetPower, Writable
<1>2. target \in LightStates /\ current \in Frames /\ rt \in States
  BY StateFields, CurrentFrameType DEF Inv, TypeOK, LightStates
<1>3. l \in LevelTracks /\ t \in TemperatureTracks \cup {None}
  BY <1>2, StateFields, FadeTypes, ConstantTypes DEF Curves
<1>4. Retracked(from)
  BY <1>3, RetrackedBy DEF Inv
<1>5. LeadsTo(s, target)
  <2>1. s.level_transition \in {FadeTo(current, target, DefaultTransition, "Smooth"), None}
    BY <1>2 DEF States
  <2> HIDE DEF s, current, target
  <2> QED
    BY <2>1, FadeToLeads
<1>6. LeadsTo(from, target)
  <2>1. CASE on = rt.target.on
    <3>1. target = rt.target
      BY <1>2, <2>1, StateFields DEF LightStates
    <3> QED
      BY <2>1, <3>1 DEF FadeInv
  <2>2. CASE on # rt.target.on
    BY <1>5, <2>2
  <2> QED
    BY <2>1, <2>2
<1> HIDE DEF from, target
<1> QED
  BY <1>1, <1>2, <1>4, <1>6, CommandFades

\* An effect ends at zero whatever its legs.
LEMMA OffWithEffectFades ==
  ASSUME Inv, FadeInv, NEW effect \in OffEffects, NEW F, OffWithEffect(effect, F)
  PROVE  FadeInv'
<1> DEFINE current == CurrentFrame(rt)
           from == current.brightness
           middle == EffectMiddle(effect, from)
           legs == EffectLegs[effect]
           last == IF legs.last = 0 THEN None ELSE Leg(middle, 0, legs.last, "Smooth")
           track == LevelTrack(Leg(from, middle, legs.first, "Smooth"), last,
                               current.state.temperature)
           l == IF from # 0 /\ effect # "NoFade" THEN track ELSE None
           target == [rt.target EXCEPT !.on = FALSE]
           s == [rt EXCEPT !.level_transition = l, !.temperature_transition = None]
<1>1. rt.load_fault = "None" /\ Commit(s, target, F)
  BY DEF OffWithEffect, Writable
<1>2. target \in LightStates /\ current \in Frames /\ rt \in States /\ ~target.on
  BY StateFields, CurrentFrameType DEF Inv, TypeOK, LightStates
<1>3. /\ from \in Brightnesses /\ middle \in Brightnesses
      /\ current.state.temperature \in Temperatures
  BY <1>2, EffectMiddleType DEF Frames, LightStates
<1>4. effect # "NoFade" =>
        /\ legs.first \in Nat /\ legs.last \in Nat
        /\ legs.last = 0 => middle = 0
  <2>1. ASSUME effect # "NoFade", legs.last = 0 PROVE middle = 0
    BY <2>1, RuntimeAssumption DEF EffectMiddle
  <2>2. ASSUME effect # "NoFade" PROVE legs \in [first : Nat \ {0}, last : Nat]
    BY <2>2, RuntimeAssumption
  <2> QED
    BY <2>1, <2>2
<1>5. effect # "NoFade" =>
        last \in Legs(Brightnesses, Nat) \cup {None} /\ LevelEnd(track) = 0
  <2>1. SUFFICES ASSUME effect # "NoFade"
                 PROVE  /\ last \in Legs(Brightnesses, Nat) \cup {None}
                        /\ LevelEnd(track) = 0
    OBVIOUS
  <2>2. CASE legs.last = 0
    BY <1>4, <2>1, <2>2 DEF LevelEnd, LevelTrack, Leg
  <2>3. CASE legs.last # 0
    <3>1. last = Leg(middle, 0, legs.last, "Smooth") /\ last \in Legs(Brightnesses, Nat)
      BY <1>3, <1>4, <2>1, <2>3, ConstantTypes DEF Leg, Legs, Curves
    <3>2. last # None /\ last.to = 0
      BY <3>1, NoneAssumption DEF Leg
    <3> HIDE DEF last
    <3> QED
      BY <3>1, <3>2 DEF LevelEnd, LevelTrack
  <2> QED
    BY <2>2, <2>3
<1>6. l \in LevelTracks \cup {None}
  <2> HIDE DEF current, middle, legs, last
  <2> QED
    BY <1>3, <1>4, <1>5, LevelTrackType DEF Curves
<1>7. Retracked(s)
  BY <1>6, RetrackedBy DEF Inv
<1>8. LeadsTo(s, target)
  <2>1. s.level_transition = l
    BY <1>2 DEF States
  <2>2. FromState(target).brightness = 0
    BY <1>2 DEF FromState
  <2> HIDE DEF s, track, target
  <2> QED
    BY <1>5, <2>1, <2>2 DEF LeadsTo
<1> QED
  BY <1>1, <1>2, <1>7, <1>8, CommandFades

\* A level command that keeps the fade keeps its end: the target is the same,
\* or both the old and the new one are Off.
LEMMA MoveLevelFades ==
  ASSUME Inv, FadeInv, NEW level \in LevelInputs, NEW with_on_off \in BOOLEAN,
         NEW duration \in Nat, NEW curve \in Curves, NEW F,
         MoveLevel(level, with_on_off, duration, curve, F)
  PROVE  FadeInv'
<1> DEFINE current == CurrentFrame(rt)
           target == [rt.target EXCEPT !.level = AtLeastOne(level),
                                       !.on = IF with_on_off THEN level > 1 ELSE @]
           kept == \/ target = rt.target /\ curve = "Smooth"
                   \/ ~target.on /\ ~rt.target.on /\ ~with_on_off
           animate == duration # 0 /\ (current.brightness # 0 \/ target.on)
           l == IF animate THEN FadeTo(current, target, duration, curve) ELSE None
           t == IF ~target.on THEN None
                ELSE IF ~rt.target.on /\ current.state.temperature # target.temperature
                THEN ColourTo(current, target.temperature, duration, curve)
                ELSE rt.temperature_transition
           s == [rt EXCEPT !.level_transition = l, !.temperature_transition = t]
           from == IF kept THEN rt ELSE s
<1>1. rt.load_fault = "None" /\ Commit(from, target, F)
  BY DEF MoveLevel, Writable
<1>2. target \in LightStates /\ current \in Frames /\ rt \in States
  <2>1. level \in 0..LevelMax
    BY RuntimeAssumption
  <2>2. AtLeastOne(level) \in Levels /\ (level > 1) \in BOOLEAN
    BY <2>1, UnitsAssumption, SMT DEF AtLeastOne, Levels
  <2>3. rt \in States /\ rt.target \in LightStates
    BY StateFields DEF Inv, TypeOK
  <2> QED
    BY <2>2, <2>3, CurrentFrameType DEF LightStates
<1>3. l \in LevelTracks \cup {None} /\ t \in TemperatureTracks \cup {None}
  <2> HIDE DEF current, target
  <2> QED
    BY <1>2, StateFields, FadeTypes
<1>4. Retracked(from)
  <2> HIDE DEF l, t, kept
  <2> QED
    BY <1>3, RetrackedBy DEF Inv
<1>5. LeadsTo(s, target)
  <2>1. s.level_transition \in {FadeTo(current, target, duration, curve), None}
    BY <1>2 DEF States
  <2> HIDE DEF s, current, target
  <2> QED
    BY <2>1, FadeToLeads
<1>6. kept => LeadsTo(rt, target)
  <2>1. kept => FromState(target).brightness = FromState(rt.target).brightness
    <3> HIDE DEF target
    <3> QED
      BY DEF FromState
  <2> HIDE DEF kept, target
  <2> QED
    BY <2>1 DEF FadeInv, LeadsTo
<1>7. LeadsTo(from, target)
  <2> HIDE DEF s, kept, target
  <2> QED
    BY <1>5, <1>6
<1> HIDE DEF from, target
<1> QED
  BY <1>1, <1>2, <1>4, <1>7, CommandFades

\* A colour command and the stop of a colour fade leave level and power alone.
LEMMA SameLight ==
  ASSUME NEW s, NEW target, target.on = rt.target.on, target.level = rt.target.level,
         s.level_transition = rt.level_transition, LeadsTo(rt, rt.target)
  PROVE  LeadsTo(s, target)
BY DEF LeadsTo, FromState

LEMMA MoveTemperatureFades ==
  ASSUME Inv, FadeInv, NEW temperature \in TemperatureInputs, NEW duration \in Nat,
         NEW curve \in Curves, NEW F, MoveTemperature(temperature, duration, curve, F)
  PROVE  FadeInv'
<1> DEFINE current == CurrentFrame(rt)
           target == [rt.target EXCEPT !.temperature = temperature]
           t == IF duration # 0 THEN ColourTo(current, temperature, duration, curve)
                ELSE None
           s == [rt EXCEPT !.temperature_transition = t]
           moves == rt.target.on
                      /\ (temperature # rt.target.temperature \/ curve = "Linear")
           from == IF moves THEN s ELSE rt
<1>1. rt.load_fault = "None" /\ Commit(from, target, F)
  BY DEF MoveTemperature, Writable
<1>2. /\ target \in LightStates /\ target.temperature = temperature
      /\ target.on = rt.target.on /\ target.level = rt.target.level
      /\ current \in Frames /\ rt \in States
  BY StateFields, RuntimeAssumption, CurrentFrameType DEF Inv, TypeOK, LightStates
<1>3. t \in TemperatureTracks \cup {None}
  <2> HIDE DEF current, target
  <2> QED
    BY <1>2, FadeTypes
<1>4. Retracked(from)
  <2> HIDE DEF t, moves
  <2> QED
    BY <1>3, RetrackedBy DEF Inv
<1>5. from.level_transition = rt.level_transition
  <2> HIDE DEF t, moves
  <2> QED
    BY <1>2 DEF States
<1> HIDE DEF from, target
<1>6. LeadsTo(from, target)
  BY <1>2, <1>5, SameLight DEF FadeInv
<1> QED
  BY <1>1, <1>2, <1>4, <1>6, CommandFades

LEMMA StopLevelTransitionFades ==
  ASSUME Inv, NEW F, StopLevelTransition(F)
  PROVE  FadeInv'
<1> DEFINE stopped == rt.level_transition
           target == [level |-> ToLevelClamped(rt.applied.brightness),
                      on |-> rt.applied.brightness > Floor \div 2,
                      temperature |-> IF stopped.off_temperature # None
                                      THEN stopped.off_temperature
                                      ELSE rt.target.temperature]
           s == [rt EXCEPT !.level_transition = None]
<1>1. /\ rt.load_fault = "None" /\ rt.applied # None /\ stopped # None
      /\ Commit(s, target, F)
  BY DEF StopLevelTransition, Writable
<1>2. rt \in States /\ rt.applied \in Frames /\ stopped \in LevelTracks
  BY <1>1, StateFields DEF Inv, TypeOK
<1>3. ToLevelClamped(rt.applied.brightness) \in Levels
  BY <1>2, ToLevelType DEF Frames
<1>4. target \in LightStates
  <2>1. (rt.applied.brightness > Floor \div 2) \in BOOLEAN
    OBVIOUS
  <2>2. target.temperature \in Temperatures
    BY <1>2, StateFields DEF LevelTracks, LightStates
  <2> QED
    BY <1>3, <2>1, <2>2 DEF LightStates
<1>5. Retracked(s) /\ LeadsTo(s, target)
  BY <1>2, RetrackedBy DEF Inv, LeadsTo, States
<1> HIDE DEF s, target
<1> QED
  BY <1>1, <1>4, <1>5, CommandFades

LEMMA StopTemperatureTransitionFades ==
  ASSUME Inv, FadeInv, NEW F, StopTemperatureTransition(F)
  PROVE  FadeInv'
<1> DEFINE target == [rt.target EXCEPT !.temperature = rt.applied.state.temperature]
           s == [rt EXCEPT !.temperature_transition = None]
<1>1. rt.load_fault = "None" /\ rt.applied # None /\ Commit(s, target, F)
  BY DEF StopTemperatureTransition, Writable
<1>2. rt \in States /\ rt.applied \in Frames
  BY <1>1, StateFields DEF Inv, TypeOK
<1>3. /\ target \in LightStates
      /\ target.on = rt.target.on /\ target.level = rt.target.level
  BY <1>2, StateFields DEF Frames, LightStates
<1>4. Retracked(s) /\ s.level_transition = rt.level_transition
  BY <1>2, RetrackedBy DEF Inv, States
<1> HIDE DEF s, target
<1>5. LeadsTo(s, target)
  BY <1>3, <1>4, SameLight DEF FadeInv
<1> QED
  BY <1>1, <1>3, <1>4, <1>5, CommandFades

-----------------------------------------------------------------------------
(* The other operations.                                                   *)

\* A step that leaves no fade and no acknowledgement.
LEMMA NothingFades ==
  ASSUME rt'.level_transition = None, rt'.applied = None
  PROVE  FadeInv'
BY DEF FadeInv, LeadsTo, ShowsEffective, UnreadIsStill

\* A failed output keeps the fade that was under way.
LEMMA FailOutputFades ==
  ASSUME rt \in States, FadeInv, NEW F, FailOutput(rt, F)
  PROVE  FadeInv'
<1>1. rt'.level_transition = rt.level_transition
  BY DEF FailOutput, OutputFailed, States
<1> QED
  BY <1>1, FailOutputFollows DEF Follows, FadeInv, UnreadIsStill

\* No fade, nothing acknowledged and an Off target.
IsOff(s) ==
  /\ s.applied = None /\ s.target.on = FALSE
  /\ s.level_transition = None /\ s.temperature_transition = None

\* A local Off ends the fades and the acknowledgement, whatever follows.
LEMMA OffLeaves ==
  ASSUME rt \in States, NEW F, Off(F)
  PROVE  \/ /\ rt.load_fault = "Storage" /\ IsOff(rt') /\ flash' = flash
         \/ \E c \in States : IsOff(c) /\ c.revision = rt.revision /\ FailSave(c, F)
         \/ \E saved \in States :
              /\ IsOff(saved) /\ saved.load_fault = "None"
              /\ saved.revision = Bump(rt.revision)
              /\ Reconcile(saved, F) \/ FailOutput(saved, F)
<1> DEFINE s == [rt EXCEPT !.applied = None, !.level_transition = None,
                           !.temperature_transition = None,
                           !.dirty = @ \/ rt.target.on, !.target.on = FALSE]
           c == [s EXCEPT !.dirty = @ \/ rt.load_fault = "InvalidRecord"]
           saved == [Clean(c) EXCEPT !.load_fault = "None", !.revision = Bump(@)]
           target == [rt.target EXCEPT !.on = FALSE]
<1>1. target \in LightStates /\ target.on = FALSE
  BY StateFields DEF LightStates
<1>2. s \in States /\ IsOff(s) /\ s.revision = rt.revision
  <2>1. (rt.dirty \/ rt.target.on) \in BOOLEAN
    OBVIOUS
  <2>2. s = [rt EXCEPT !.applied = None, !.level_transition = None,
                       !.temperature_transition = None,
                       !.dirty = (rt.dirty \/ rt.target.on), !.target = target]
    BY <1>1 DEF States
  <2> HIDE DEF s, target
  <2> QED
    BY <1>1, <2>1, <2>2 DEF States, IsOff
<1>3. c \in States /\ IsOff(c) /\ c.revision = rt.revision
  <2>1. (s.dirty \/ rt.load_fault = "InvalidRecord") \in BOOLEAN
    OBVIOUS
  <2> HIDE DEF s
  <2> QED
    BY <1>2, <2>1, ZenonT(60) DEF States, IsOff
<1>4. /\ saved \in States /\ IsOff(saved) /\ saved.load_fault = "None"
      /\ saved.revision = Bump(rt.revision)
  <2>1. Bump(c.revision) \in 0..(Revisions - 1)
    BY <1>3, StateFields, BumpType
  <2> HIDE DEF c
  <2> QED
    BY <1>3, <2>1 DEF Clean, States, IsOff
<1>5. CASE /\ rt.load_fault = "Storage" /\ flash' = flash
           /\ rt' = [s EXCEPT !.off_after_load = TRUE, !.dirty = FALSE]
  <2> HIDE DEF s
  <2>1. IsOff(rt')
    BY <1>2, <1>5 DEF States, IsOff
  <2> QED
    BY <1>5, <2>1
<1>6. \/ /\ rt.load_fault = "Storage" /\ flash' = flash
         /\ rt' = [s EXCEPT !.off_after_load = TRUE, !.dirty = FALSE]
      \/ FailSave(c, F)
      \/ Reconcile(saved, F) \/ FailOutput(saved, F)
  BY DEF Off
<1> HIDE DEF s, c, saved
<1> QED
  BY <1>3, <1>4, <1>5, <1>6

LEMMA OffFades ==
  ASSUME Inv, NEW F, Off(F)
  PROVE  FadeInv' /\ (flash' # flash => rt'.load_fault = "None")
<1>1. rt \in States
  BY DEF Inv, TypeOK
<1>2. CASE IsOff(rt') /\ flash' = flash
  BY <1>2, NothingFades DEF IsOff
<1>3. ASSUME NEW c \in States, IsOff(c), FailSave(c, F)
      PROVE  rt'.level_transition = None /\ rt'.applied = None /\ flash' = flash
  BY <1>3, FailSaveStep DEF FailSave, States, IsOff
<1>4. ASSUME NEW saved \in States, IsOff(saved), saved.load_fault = "None",
             Reconcile(saved, F) \/ FailOutput(saved, F)
      PROVE  FadeInv' /\ rt'.load_fault = "None"
  <2>1. Follows(saved)
    BY <1>4, ReconcileFollows, FailOutputFollows
  <2> QED
    BY <1>4, <2>1 DEF Follows, FadeInv, LeadsTo, UnreadIsStill, IsOff
<1> QED
  BY <1>1, <1>2, <1>3, <1>4, OffLeaves, NothingFades

LEMMA SaveStartupFades ==
  ASSUME Inv, FadeInv, NEW startup, NEW F, SaveStartup(startup, F)
  PROVE  FadeInv'
<1>1. /\ rt'.target = rt.target /\ rt'.level_transition = rt.level_transition
      /\ rt'.applied = rt.applied /\ rt'.load_fault = rt.load_fault
  BY DEF SaveStartup, Inv, TypeOK, States
<1> QED
  BY <1>1, SameFadeSameFrame DEF FadeInv, LeadsTo, ShowsEffective, UnreadIsStill

LEMMA PrepareRebootFades ==
  ASSUME Inv, FadeInv, NEW F, PrepareReboot(F)
  PROVE  FadeInv'
<1>1. /\ rt'.target = rt.target /\ rt'.level_transition = rt.level_transition
      /\ rt'.applied = None /\ rt'.load_fault = rt.load_fault
  BY DEF PrepareReboot, Inv, TypeOK, States
<1> QED
  BY <1>1 DEF FadeInv, LeadsTo, ShowsEffective, UnreadIsStill

\* Time moves a fade, not its end.
LEMMA ElapsedLeads ==
  ASSUME NEW s \in States, NEW elapsed
  PROVE  /\ \A target : LeadsTo(s, target) => LeadsTo(Elapse(s, elapsed), target)
         /\ s.level_transition = None => Elapse(s, elapsed).level_transition = None
<1> DEFINE a == Aged(s.level_transition, elapsed, LevelLength(s.level_transition))
           u == Elapse(s, elapsed)
<1>1. u.level_transition = IF s.level_transition = None THEN None ELSE a
  BY DEF Elapse, States
<1>2. s.level_transition # None => LevelEnd(a) = LevelEnd(s.level_transition)
  <2>1. SUFFICES ASSUME s.level_transition # None
                 PROVE  LevelEnd(a) = LevelEnd(s.level_transition)
    OBVIOUS
  <2>2. s.level_transition \in LevelTracks
    BY <2>1, StateFields
  <2>3. a.ramp = s.level_transition.ramp /\ a.then = s.level_transition.then
    BY <2>2 DEF Aged, LevelTracks
  <2> QED
    BY <2>3 DEF LevelEnd
<1> HIDE DEF u, a
<1>3. \A target : LeadsTo(s, target) => LeadsTo(u, target)
  BY <1>1, <1>2 DEF LeadsTo
<1> QED
  BY <1>1, <1>3 DEF u

\* A tick: fades go on, an unreadable record is not written, and a record read
\* at last is overridden by the Off received meanwhile.
LEMMA TickFades ==
  ASSUME Inv, FadeInv, NEW elapsed \in TickSteps, NEW F, Tick(elapsed, F)
  PROVE  /\ FadeInv'
         /\ (rt.load_fault # "None" /\ rt'.load_fault # "None") => flash' = flash
         /\ (rt.off_after_load /\ rt.load_fault = "Storage" /\ rt'.load_fault = "None")
              => ~rt'.target.on
<1> DEFINE s == Elapse(rt, elapsed)
           waits == s.fault = "Rebooting" \/ s.retry_in > 0
           load_fault == LoadFault(flash, F)
<1>1. rt \in States /\ flash \in Records
  BY DEF Inv, TypeOK
<1>2. /\ s \in States /\ s.target = rt.target /\ s.load_fault = rt.load_fault
      /\ s.applied = rt.applied /\ s.fault = rt.fault
      /\ rt.retry_in = 0 => s.retry_in = 0
  BY <1>1, ElapseType, RuntimeAssumption
<1>3. s.off_after_load = rt.off_after_load
  BY <1>1 DEF Elapse, States
<1>4. LeadsTo(s, s.target) /\ UnreadIsStill(s)
  BY <1>1, <1>2, ElapsedLeads DEF FadeInv, UnreadIsStill
<1> HIDE DEF s
<1>5. CASE /\ waits \/ s.load_fault = "InvalidRecord"
           /\ rt' = s /\ flash' = flash
  <2>1. s.applied = None
    <3>1. s.retry_in > 0 => rt.retry_in # 0
      BY <1>2
    <3> QED
      BY <1>2, <1>5, <3>1 DEF Inv, AcknowledgedIsSound
  <2> QED
    BY <1>2, <1>4, <1>5, <2>1 DEF FadeInv, ShowsEffective
<1>6. CASE /\ s.load_fault = "Storage" /\ load_fault # "None"
           /\ rt' = [s EXCEPT !.load_fault = load_fault, !.fault = load_fault,
                              !.retry_in = RetryDelay]
           /\ flash' = flash
  <2>1. s.applied = None /\ s.level_transition = None
    BY <1>2, <1>4, <1>6 DEF Inv, AcknowledgedIsSound, UnreadIsStill
  <2>2. rt'.level_transition = None /\ rt'.applied = None /\ rt'.load_fault = load_fault
    BY <1>2, <1>6, <2>1 DEF States
  <2> QED
    BY <1>6, <2>2, NothingFades
<1>7. CASE /\ s.load_fault = "Storage" /\ load_fault = "None"
           /\ Maintain(Reloaded(s), F)
  <2> DEFINE u == Reloaded(s)
  <2>1. flash # Malformed
    BY <1>7 DEF LoadFault
  <2>2. u \in States /\ u.load_fault = "None"
    BY <1>1, <1>2, <2>1, ReloadedType
  <2>3. u.level_transition = None /\ (s.off_after_load => ~u.target.on)
    BY <1>2, <1>4, <1>7 DEF UnreadIsStill, Reloaded, States, StartupIntent
  <2> HIDE DEF u
  <2>4. Follows(u)
    BY <1>7, <2>2, MaintainFollows DEF u
  <2>5. FadeInv' /\ rt'.load_fault = "None" /\ rt'.target = u.target
    BY <2>2, <2>3, <2>4 DEF Follows, FadeInv, LeadsTo, UnreadIsStill
  <2> QED
    BY <1>3, <2>3, <2>5
<1>8. CASE s.load_fault = "None" /\ Maintain(s, F)
  <2>1. Follows(s)
    BY <1>2, <1>8, MaintainFollows
  <2> QED
    BY <1>2, <1>4, <1>8, <2>1 DEF Follows, FadeInv, UnreadIsStill
<1> QED
  BY <1>5, <1>6, <1>7, <1>8 DEF Tick, s

\* A reset forgets every fade.
LEMMA LoadedFades ==
  ASSUME NEW record, NEW F
  PROVE  /\ Loaded(record, F).level_transition = None
         /\ Loaded(record, F).applied = None
         /\ ~Loaded(record, F).off_after_load
BY DEF Loaded

LEMMA CommandFadesAll ==
  ASSUME Inv, FadeInv, NEW F, Command(F)
  PROVE  FadeInv' /\ rt.load_fault = "None"
<1>1. ASSUME NEW target \in SceneTargets, NEW requested \in Durations,
             RecallScene(target, requested, F)
      PROVE  FadeInv' /\ rt.load_fault = "None"
  <2>1. rt.load_fault = "None"
    BY <1>1 DEF RecallScene, Writable
  <2> QED
    BY <1>1, <2>1, RecallSceneFades
<1>2. ASSUME NEW on \in BOOLEAN, SetPower(on, F)
      PROVE  FadeInv' /\ rt.load_fault = "None"
  <2>1. rt.load_fault = "None"
    BY <1>2 DEF SetPower, Writable
  <2> QED
    BY <1>2, <2>1, SetPowerFades
<1>3. ASSUME NEW effect \in OffEffects, OffWithEffect(effect, F)
      PROVE  FadeInv' /\ rt.load_fault = "None"
  <2>1. rt.load_fault = "None"
    BY <1>3 DEF OffWithEffect, Writable
  <2> QED
    BY <1>3, <2>1, OffWithEffectFades
<1>4. ASSUME NEW level \in LevelInputs, NEW with_on_off \in BOOLEAN,
             NEW duration \in Durations,
             \/ SetLevelTransition(level, with_on_off, duration, F)
             \/ SetLevelRate(level, with_on_off, duration, F)
      PROVE  FadeInv' /\ rt.load_fault = "None"
  <2>1. PICK length \in Nat, curve \in Curves :
          MoveLevel(level, with_on_off, length, curve, F)
    BY <1>4, DurationType DEF SetLevelTransition, SetLevelRate, Curves
  <2>2. rt.load_fault = "None"
    BY <2>1 DEF MoveLevel, Writable
  <2> QED
    BY <2>1, <2>2, MoveLevelFades
<1>5. ASSUME NEW temperature \in TemperatureInputs, NEW duration \in Durations,
             \/ SetTemperatureTransition(temperature, duration, F)
             \/ SetTemperatureRate(temperature, duration, F)
      PROVE  FadeInv' /\ rt.load_fault = "None"
  <2>1. PICK length \in Nat, curve \in Curves :
          MoveTemperature(temperature, length, curve, F)
    BY <1>5, DurationType DEF SetTemperatureTransition, SetTemperatureRate, Curves
  <2>2. rt.load_fault = "None"
    BY <2>1 DEF MoveTemperature, Writable
  <2> QED
    BY <2>1, <2>2, MoveTemperatureFades
<1>6. CASE StopLevelTransition(F)
  <2>1. rt.load_fault = "None"
    BY <1>6 DEF StopLevelTransition, Writable
  <2> QED
    BY <1>6, <2>1, StopLevelTransitionFades
<1>7. CASE StopTemperatureTransition(F)
  <2>1. rt.load_fault = "None"
    BY <1>7 DEF StopTemperatureTransition, Writable
  <2> QED
    BY <1>7, <2>1, StopTemperatureTransitionFades
<1> QED
  BY <1>1, <1>2, <1>3, <1>4, <1>5, <1>6, <1>7 DEF Command

LEMMA SettingFades ==
  ASSUME Inv, FadeInv, NEW F, Setting(F)
  PROVE  FadeInv' /\ rt.load_fault = "None"
<1>1. PICK startup : SaveStartup(startup, F)
  BY DEF Setting, SetStartup, SetStartupLevel, SetStartupTemperature
<1> QED
  BY <1>1, SaveStartupFades DEF SaveStartup, Writable

LEMMA LocalFades ==
  ASSUME Inv, FadeInv, NEW F, Local(F)
  PROVE  /\ FadeInv'
         /\ flash' # flash => rt'.load_fault = "None"
         /\ rt.load_fault = "Storage" => rt'.load_fault = "Storage"
<1>1. rt \in States
  BY DEF Inv, TypeOK
<1>2. CASE Off(F)
  <2>1. rt.load_fault = "Storage" => rt'.load_fault = "Storage"
    BY <1>1, <1>2 DEF Off, States
  <2> QED
    BY <1>2, <2>1, OffFades
<1>3. CASE Verify(F) \/ Registers(F)
  <2>1. FailOutput(rt, F) /\ flash' = flash
    BY <1>3 DEF Verify, Registers
  <2> QED
    BY <1>1, <2>1, FailOutputFades, FailOutputStep
<1>4. CASE PrepareReboot(F)
  <2>1. flash' = flash /\ rt'.load_fault = rt.load_fault
    BY <1>1, <1>4 DEF PrepareReboot, States
  <2> QED
    BY <1>4, <2>1, PrepareRebootFades
<1> QED
  BY <1>2, <1>3, <1>4 DEF Local

-----------------------------------------------------------------------------
(* The theorems.                                                           *)

\* Every step keeps the fades; a record that stays unread stays as it is; and
\* a record read at last does not turn the light on after a local Off.
THEOREM FadeStep ==
  ASSUME Inv, FadeInv, [Next]_vars
  PROVE  /\ FadeInv'
         /\ (rt.load_fault # "None" /\ rt'.load_fault # "None") => flash' = flash
         /\ (rt.off_after_load /\ rt.load_fault = "Storage"
               /\ rt'.off_after_load /\ rt'.load_fault = "None") => ~rt'.target.on
<1> DEFINE Kept ==
      /\ FadeInv'
      /\ (rt.load_fault # "None" /\ rt'.load_fault # "None") => flash' = flash
      /\ (rt.off_after_load /\ rt.load_fault = "Storage"
            /\ rt'.off_after_load /\ rt'.load_fault = "None") => ~rt'.target.on
<1>1. ASSUME NEW F, Command(F) \/ Setting(F) PROVE Kept
  BY <1>1, CommandFadesAll, SettingFades
<1>2. ASSUME NEW F, Local(F) PROVE Kept
  BY <1>2, LocalFades
<1>3. ASSUME NEW F, NEW elapsed \in TickSteps, Tick(elapsed, F) PROVE Kept
  BY <1>3, TickFades
<1>4. ASSUME NEW F, Reset(F) PROVE Kept
  <2>1. rt' = Loaded(flash, F) /\ flash' = flash
    BY <1>4 DEF Reset
  <2>2. rt'.level_transition = None /\ rt'.applied = None /\ ~rt'.off_after_load
    BY <2>1, LoadedFades
  <2>3. FadeInv'
    BY <2>2, NothingFades
  <2> QED
    BY <2>1, <2>2, <2>3
<1>5. ASSUME PcaReset \/ UNCHANGED vars PROVE Kept
  <2>1. rt' = rt /\ flash' = flash
    BY <1>5 DEF PcaReset, vars
  <2> QED
    BY <2>1 DEF FadeInv
<1> HIDE DEF Kept
<1>6. Kept
  BY <1>1, <1>2, <1>3, <1>4, <1>5 DEF Next
<1> QED
  BY <1>6 DEF Kept

\* The fades keep to their targets throughout.
THEOREM FadeInvariant == Spec => []FadeInv
<1>1. Init => FadeInv
  BY LoadedFades DEF Init, FadeInv, LeadsTo, ShowsEffective, UnreadIsStill
<1>2. Inv /\ FadeInv /\ [Next]_vars => FadeInv'
  BY FadeStep
<1> QED
  BY <1>1, <1>2, Invariant, PTL DEF Spec

\* A level fade ends at the brightness of the durable target, whatever command
\* started it and whatever was commanded, failed or reloaded since.
THEOREM FadesEndRight == Spec => []FadesEndAtTarget
<1>1. FadeInv => FadesEndAtTarget
  BY DEF FadeInv, LeadsTo, FadesEndAtTarget
<1> QED
  BY <1>1, FadeInvariant, PTL

\* The acknowledged power and brightness are those the fade calls for.
THEOREM AcknowledgementIsCurrent == Spec => []AcknowledgedIsEffective
<1>1. FadeInv => AcknowledgedIsEffective
  BY DEF FadeInv, ShowsEffective, AcknowledgedIsEffective
<1> QED
  BY <1>1, FadeInvariant, PTL

\* No command, setting, tick or failure writes over a record that was not read.
THEOREM UnreadRecordStays == Spec => UnreadRecordIsPreserved
<1>1. Inv /\ FadeInv /\ [Next]_vars =>
        [rt.load_fault # "None" /\ rt'.load_fault # "None" => flash' = flash]_vars
  BY FadeStep
<1> QED
  BY <1>1, Invariant, FadeInvariant, PTL DEF Spec, UnreadRecordIsPreserved

\* The record read after a local Off leaves the light off, and is rewritten if
\* it says otherwise.
THEOREM LocalOffIsKept == Spec => LocalOffOutlivesReload
<1> DEFINE Kept ==
      rt.off_after_load /\ rt.load_fault = "Storage"
        /\ rt'.off_after_load /\ rt'.load_fault = "None" =>
        ~rt'.target.on /\ (rt'.dirty \/ ~Decode(flash').intended.on)
<1>1. ASSUME Inv, FadeInv, [Next]_vars PROVE Kept
  <2>1. CleanIsSaved(rt', flash')
    BY <1>1, StepOutcome DEF Inv
  <2>2. rt'.load_fault = "None" /\ ~rt'.dirty => Decode(flash').intended = rt'.target
    BY <2>1 DEF CleanIsSaved, HoldsRecord
  <2> QED
    BY <1>1, <2>2, FadeStep
<1>2. Inv /\ FadeInv /\ [Next]_vars => [Kept]_vars
  BY <1>1
<1> QED
  BY <1>2, Invariant, FadeInvariant, PTL DEF Spec, LocalOffOutlivesReload

\* A reset finds in flash what controllers could last read.
THEOREM RestartKeepsReported == Spec => RestartRestoresReported
<1> DEFINE Restored ==
      Reported # None /\ Restarts /\ rt'.load_fault = "None" =>
        /\ rt'.target = StartupIntent(rt.target, rt.startup)
        /\ rt'.startup = rt.startup
<1>1. ASSUME Inv PROVE Restored
  <2>1. SUFFICES ASSUME Reported # None, NEW F, Reset(F), rt'.load_fault = "None"
                 PROVE  /\ rt'.target = StartupIntent(rt.target, rt.startup)
                        /\ rt'.startup = rt.startup
    BY DEF Restarts
  <2>2. Decode(flash) = [intended |-> rt.target, startup |-> rt.startup, migrated |-> FALSE]
    BY <1>1, <2>1 DEF Reported, Inv, AcknowledgedIsSound, CleanIsSaved, HoldsRecord
  <2>3. rt' = Loaded(flash, F) /\ LoadFault(flash, F) = "None"
    BY <2>1 DEF Reset, Loaded
  <2> QED
    BY <2>2, <2>3 DEF Loaded
<1>2. Inv /\ [Next]_vars => [Restored]_vars
  BY <1>1
<1> QED
  BY <1>2, Invariant, PTL DEF Spec, RestartRestoresReported

-----------------------------------------------------------------------------
(* What the output shows from one acknowledged frame to the next.          *)

\* A fade to Off freezes the colour and goes alone, its second leg continues
\* its first, and the first brightens by a fifth at most.
TracksFit(level, colour, target) ==
  level # None =>
    /\ level.off_temperature = None <=> target.on
    /\ ~target.on => colour = None
    /\ level.then # None =>
         /\ ~target.on
         /\ level.then.from = level.ramp.to
         /\ level.ramp.to <= (level.ramp.from * 6) \div 5

OffTracks(s) == TracksFit(s.level_transition, s.temperature_transition, s.target)

\* A colour that moves, or is frozen by a fade to Off, is acknowledged as it is
\* due; once both have ended the acknowledged colour may be an older one.
ShowsColour(s) ==
  (/\ s.applied # None
   /\ \/ s.temperature_transition # None
      \/ Fading(s) /\ s.level_transition.off_temperature # None) =>
    s.applied.state.temperature = Effective(s).state.temperature

TrackInv == OffTracks(rt) /\ ShowsColour(rt)

\* Two states that call for the same frame.
SameTracks(s, t) ==
  /\ t.target = s.target
  /\ t.level_transition = s.level_transition
  /\ t.temperature_transition = s.temperature_transition

\* An operation leaves the target and the fades of z, those that ended dropped,
\* and acknowledges what z calls for or nothing.
LandsOn(z) ==
  /\ rt'.target = z.target
  /\ rt'.level_transition \in {z.level_transition, None}
  /\ rt'.temperature_transition \in {z.temperature_transition, None}
  /\ rt'.applied # None =>
       /\ rt'.applied = Effective(z)
       /\ rt'.level_transition # None => LevelRemaining(rt'.level_transition) # 0
       /\ rt'.temperature_transition # None =>
            TemperatureRemaining(rt'.temperature_transition) # 0

\* From an unknown frame the fades are those of the recovery.
Lands(s) == LandsOn(s) \/ (s.applied = None /\ LandsOn(FromZero(s)))

LEMMA SameTracksSameFrame ==
  ASSUME NEW s, NEW t, SameTracks(s, t)
  PROVE  /\ Effective(t) = Effective(s)
         /\ OffTracks(s) => OffTracks(t)
         /\ LandsOn(t) => LandsOn(s)
<1>1. Effective(t) = Effective(s)
  BY DEF SameTracks, Effective, Fading, SettledTemperature
<1> QED
  BY <1>1 DEF SameTracks, OffTracks, TracksFit, LandsOn

LEMMA FromZeroTracks ==
  ASSUME NEW s \in States
  PROVE  /\ FromZero(s).target = s.target
         /\ FromZero(s).temperature_transition = None
         /\ FromZero(s).level_transition
              = IF s.target.on
                THEN LevelTrack(Leg(0, FromLevel(s.target.level), DefaultTransition, "Smooth"),
                                None, None)
                ELSE None
BY DEF FromZero, States

LEMMA FromZeroOffTracks ==
  ASSUME NEW s \in States
  PROVE  OffTracks(FromZero(s))
<1> DEFINE z == FromZero(s)
<1>1. z.target = s.target /\ z.temperature_transition = None
  BY FromZeroTracks
<1>2. z.level_transition # None =>
        /\ s.target.on
        /\ z.level_transition.off_temperature = None /\ z.level_transition.then = None
  <2> DEFINE l == LevelTrack(Leg(0, FromLevel(s.target.level), DefaultTransition, "Smooth"),
                             None, None)
  <2>1. l.off_temperature = None /\ l.then = None
    BY DEF LevelTrack
  <2>2. z.level_transition = IF s.target.on THEN l ELSE None
    BY FromZeroTracks
  <2> HIDE DEF l, z
  <2> QED
    BY <2>1, <2>2
<1> HIDE DEF z
<1>3. OffTracks(z)
  BY <1>1, <1>2 DEF OffTracks, TracksFit
<1> QED
  BY <1>3 DEF z

LEMMA SameTracksSameRecovery ==
  ASSUME NEW s \in States, NEW t \in States, SameTracks(s, t), t.applied = s.applied,
         Lands(t)
  PROVE  Lands(s)
<1>1. SameTracks(FromZero(s), FromZero(t))
  BY FromZeroTracks DEF SameTracks
<1> QED
  BY <1>1, SameTracksSameFrame DEF Lands

LEMMA FailuresLand ==
  ASSUME NEW s \in States, NEW F, FailOutput(s, F) \/ FailSave(s, F)
  PROVE  LandsOn(s)
<1>1. CASE FailOutput(s, F)
  BY <1>1 DEF FailOutput, OutputFailed, States, LandsOn
<1>2. CASE FailSave(s, F)
  BY <1>2 DEF FailSave, States, LandsOn
<1> QED
  BY <1>1, <1>2

LEMMA ClearedTracks ==
  ASSUME NEW s \in States
  PROVE  LET t == ClearFinished(s)
         IN  /\ t.target = s.target /\ t.applied = s.applied
             /\ t.level_transition \in {s.level_transition, None}
             /\ t.temperature_transition \in {s.temperature_transition, None}
             /\ t.level_transition # None => LevelRemaining(t.level_transition) # 0
             /\ t.temperature_transition # None =>
                  TemperatureRemaining(t.temperature_transition) # 0
BY DEF ClearFinished, States

LEMMA ClearedLands ==
  ASSUME NEW z, NEW y \in States, SameTracks(z, y), y.applied = Effective(z),
         rt' = ClearFinished(y)
  PROVE  LandsOn(z)
<1> DEFINE t == ClearFinished(y)
<1>1. /\ t.target = y.target /\ t.applied = y.applied
      /\ t.level_transition \in {y.level_transition, None}
      /\ t.temperature_transition \in {y.temperature_transition, None}
      /\ t.level_transition # None => LevelRemaining(t.level_transition) # 0
      /\ t.temperature_transition # None =>
           TemperatureRemaining(t.temperature_transition) # 0
  BY ClearedTracks
<1> HIDE DEF t
<1> QED
  BY <1>1 DEF LandsOn, SameTracks, t

LEMMA ReconcileLands ==
  ASSUME NEW s \in States, NEW F, Reconcile(s, F)
  PROVE  Lands(s)
<1> DEFINE unknown == s.applied = None
           z == IF unknown THEN FromZero(s) ELSE s
           frame == Effective(z)
           changed == z.applied # frame
           y == [z EXCEPT !.applied = frame, !.fault = "None", !.retry_in = 0,
                   !.verify_in = IF changed THEN VerifyInterval ELSE @,
                   !.revision = IF unknown THEN Bump(@) ELSE @]
<1>1. /\ z \in States
      /\ z.verify_in \in 0..VerifyInterval /\ z.revision \in 0..(Revisions - 1)
  BY FromZeroType, StateFields
<1>2. LandsOn(z) => Lands(s)
  BY DEF Lands
<1>3. frame \in Frames
  BY <1>1, EffectiveType
<1>4. CASE FailOutput(s, F)
  BY <1>4, FailuresLand DEF Lands
<1>5. CASE FailOutput(z, F)
  <2> HIDE DEF z
  <2> QED
    BY <1>1, <1>2, <1>5, FailuresLand
<1>6. CASE rt' = ClearFinished(y)
  <2> DEFINE v == IF changed THEN VerifyInterval ELSE z.verify_in
             r == IF unknown THEN Bump(z.revision) ELSE z.revision
  <2> HIDE DEF z, frame, changed
  <2>1. v \in 0..VerifyInterval /\ r \in 0..(Revisions - 1)
    BY <1>1, BumpType, ConstantTypes
  <2>2. y = [z EXCEPT !.applied = frame, !.fault = "None", !.retry_in = 0,
                      !.verify_in = v, !.revision = r]
    OBVIOUS
  <2> HIDE DEF v, r, y
  <2>3. y \in States
    BY <1>1, <1>3, <2>1, <2>2, ConstantTypes DEF States, Faults
  <2>4. SameTracks(z, y) /\ y.applied = frame
    BY <1>1, <2>2 DEF States, SameTracks
  <2> QED
    BY <1>2, <1>6, <2>3, <2>4, ClearedLands DEF frame
<1> QED
  BY <1>4, <1>5, <1>6 DEF Reconcile

LEMMA RecheckLands ==
  ASSUME NEW s \in States, NEW F, Recheck(s, F), s.applied = Effective(s)
  PROVE  Lands(s)
<1> DEFINE t == ClearFinished(s)
           u == [t EXCEPT !.verify_in = VerifyInterval]
           y == [s EXCEPT !.verify_in = VerifyInterval]
<1>1. CASE rt' = t
  BY <1>1, ClearedLands DEF SameTracks, Lands
<1>2. /\ u \in States /\ SameTracks(t, u) /\ u.applied = t.applied /\ t \in States
  <2>1. t \in States
    BY ClearFinishedType
  <2> HIDE DEF t
  <2> QED
    BY <2>1, ConstantTypes DEF States, SameTracks
<1>3. CASE rt' = u
  <2>1. LandsOn(s)
    BY <1>2, <1>3, ClearedTracks DEF LandsOn, SameTracks
  <2> QED
    BY <2>1 DEF Lands
<1>4. CASE FailOutput(u, F)
  <2>1. LandsOn(u) /\ rt'.applied = None
    BY <1>2, <1>4, FailuresLand, FailOutputStep
  <2>2. /\ u.target = s.target /\ u.level_transition \in {s.level_transition, None}
        /\ u.temperature_transition \in {s.temperature_transition, None}
    BY <1>2, ClearedTracks DEF SameTracks
  <2> HIDE DEF u
  <2> QED
    BY <2>1, <2>2 DEF LandsOn, Lands
<1> QED
  BY <1>1, <1>3, <1>4 DEF Recheck

LEMMA MaintainLands ==
  ASSUME NEW s \in States, NEW F, Maintain(s, F)
  PROVE  Lands(s)
<1>1. /\ Clean(s) \in States /\ SameTracks(s, Clean(s))
      /\ Clean(s).applied = s.applied
  BY DEF Clean, States, SameTracks
<1>2. CASE FailSave(s, F)
  BY <1>2, FailuresLand DEF Lands
<1>3. CASE \/ Reconcile(Clean(s), F)
           \/ Clean(s).applied = Effective(Clean(s)) /\ Recheck(Clean(s), F)
  <2>1. Lands(Clean(s))
    BY <1>1, <1>3, ReconcileLands, RecheckLands
  <2> QED
    BY <1>1, <2>1, SameTracksSameRecovery
<1> QED
  BY <1>2, <1>3 DEF Maintain

\* A commit lands on the fades it was given and the target it makes durable.
LEMMA CommitLands ==
  ASSUME NEW s \in States, NEW target \in LightStates, NEW F, Commit(s, target, F)
  PROVE  Lands([s EXCEPT !.target = target])
<1> DEFINE z == [s EXCEPT !.target = target]
           c == [s EXCEPT !.dirty = @ \/ s.target # target, !.target = target,
                          !.revision = Bump(@)]
<1>1. z \in States
  BY DEF States
<1>2. c \in States /\ SameTracks(z, c) /\ c.applied = z.applied
  <2>1. /\ Bump(s.revision) \in 0..(Revisions - 1)
        /\ (s.dirty \/ s.target # target) \in BOOLEAN
    BY StateFields, BumpType
  <2> QED
    BY <2>1 DEF States, SameTracks
<1>3. FailSave(c, F) \/ Reconcile(Clean(c), F)
  BY DEF Commit
<1> HIDE DEF c, z
<1>4. /\ Clean(c) \in States /\ SameTracks(c, Clean(c)) /\ Clean(c).applied = c.applied
  BY <1>2, ZenonT(60) DEF Clean, States, SameTracks
<1>5. Lands(c)
  <2>1. CASE FailSave(c, F)
    BY <1>2, <2>1, FailuresLand DEF Lands
  <2>2. CASE Reconcile(Clean(c), F)
    BY <1>2, <1>4, <2>2, ReconcileLands, SameTracksSameRecovery
  <2> QED
    BY <1>3, <2>1, <2>2
<1>6. Lands(z)
  BY <1>1, <1>2, <1>5, SameTracksSameRecovery
<1> QED
  BY <1>6 DEF z

-----------------------------------------------------------------------------
(* Where the fades of a step come from.                                    *)

\* A level fade that starts now, at the acknowledged brightness and colour.
LevelStarts(track) ==
  /\ track.age = 0 /\ track.ramp.duration # 0
  /\ track.ramp.from = rt.applied.brightness
  /\ track.off_temperature \in {None, rt.applied.state.temperature}

\* A level fade that was under way and is now as old or older.
LevelContinues(track) ==
  /\ rt.level_transition # None
  /\ track.ramp = rt.level_transition.ramp
  /\ track.then = rt.level_transition.then
  /\ track.off_temperature = rt.level_transition.off_temperature
  /\ LevelRemaining(track) # 0 =>
       LevelRemaining(rt.level_transition) # 0 /\ track.age >= rt.level_transition.age

ColourStarts(track) ==
  track.age = 0 /\ track.ramp.from = rt.applied.state.temperature

ColourContinues(track) ==
  /\ rt.temperature_transition # None
  /\ track.ramp = rt.temperature_transition.ramp
  /\ TemperatureRemaining(track) # 0 => track.age >= rt.temperature_transition.age

LevelComes(level, target) ==
  level # None =>
    LevelStarts(level) \/ (target.on = rt.target.on /\ LevelContinues(level))

ColourComes(colour) ==
  colour # None => ColourStarts(colour) \/ ColourContinues(colour)

\* What a step may lead the output along.
Goes(z) ==
  /\ z \in States
  /\ OffTracks(z)
  /\ rt.applied # None =>
       LevelComes(z.level_transition, z.target) /\ ColourComes(z.temperature_transition)

Moves == \E z : Goes(z) /\ LandsOn(z)

\* A step that leaves the fades, and the acknowledgement unless it drops it.
Still == SameTracks(rt, rt') /\ rt'.applied \in {None, rt.applied}

LEMMA LandsMoves ==
  ASSUME NEW z, Goes(z), Lands(z), z.applied = None => rt.applied = None
  PROVE  Moves
<1>1. CASE LandsOn(z)
  BY <1>1 DEF Moves
<1>2. CASE z.applied = None /\ LandsOn(FromZero(z))
  <2>1. FromZero(z) \in States /\ OffTracks(FromZero(z))
    BY FromZeroType, FromZeroOffTracks DEF Goes
  <2> QED
    BY <1>2, <2>1 DEF Goes, Moves
<1> QED
  BY <1>1, <1>2 DEF Lands

\* A command goes along the fades it commits with.
LEMMA CommandGoes ==
  ASSUME NEW s, Retracked(s), NEW target \in LightStates, NEW F, Commit(s, target, F),
         TracksFit(s.level_transition, s.temperature_transition, target),
         rt.applied # None =>
           LevelComes(s.level_transition, target) /\ ColourComes(s.temperature_transition)
  PROVE  Moves
<1> DEFINE z == [s EXCEPT !.target = target]
<1>1. s \in States /\ s.applied = rt.applied
  BY DEF Retracked
<1>2. /\ z \in States /\ z.target = target /\ z.applied = s.applied
      /\ z.level_transition = s.level_transition
      /\ z.temperature_transition = s.temperature_transition
  BY <1>1 DEF States
<1>3. Lands(z)
  BY <1>1, CommitLands
<1> HIDE DEF z
<1>4. Goes(z)
  BY <1>2 DEF Goes, OffTracks
<1> QED
  BY <1>1, <1>2, <1>3, <1>4, LandsMoves

\* Fades from the current frame start where it is.
LEMMA FadesStart ==
  ASSUME rt \in States, NEW target \in LightStates, NEW duration \in Nat, NEW curve,
         NEW t
  PROVE  LET l == FadeTo(CurrentFrame(rt), target, duration, curve)
         IN  /\ target.on \/ t = None => TracksFit(l, t, target)
             /\ rt.applied # None /\ duration # 0 => LevelStarts(l)
<1> DEFINE current == CurrentFrame(rt)
           l == FadeTo(current, target, duration, curve)
<1>1. current.state.temperature # None
  <2>1. current.state.temperature \in Temperatures
    BY CurrentFrameType DEF Frames, LightStates
  <2> QED
    BY <2>1, UnitsAssumption, NoneAssumption DEF Temperatures
<1>2. rt.applied # None => current = rt.applied
  BY DEF CurrentFrame
<1> HIDE DEF current
<1>3. /\ l.age = 0 /\ l.ramp.duration = duration /\ l.ramp.from = current.brightness
      /\ l.then = None
      /\ l.off_temperature = IF target.on THEN None ELSE current.state.temperature
  BY DEF FadeTo, LevelTrack, Leg
<1> HIDE DEF l
<1>4. target.on \in BOOLEAN
  BY DEF LightStates
<1>5. (target.on \/ t = None) => TracksFit(l, t, target)
  BY <1>1, <1>3, <1>4 DEF TracksFit
<1>6. rt.applied # None /\ duration # 0 => LevelStarts(l)
  BY <1>2, <1>3 DEF LevelStarts
<1> QED
  BY <1>5, <1>6 DEF l, current

LEMMA ColoursStart ==
  ASSUME rt.applied # None, NEW temperature, NEW duration, NEW curve
  PROVE  ColourComes(ColourTo(CurrentFrame(rt), temperature, duration, curve))
BY DEF ColourComes, ColourStarts, ColourTo, TemperatureTrack, Leg, CurrentFrame

\* A fade that a command leaves alone goes on.
LEMMA FadesKept ==
  ASSUME rt \in States, TrackInv, NEW target \in LightStates
  PROVE  /\ target.on = rt.target.on =>
              /\ TracksFit(rt.level_transition, rt.temperature_transition, target)
              /\ LevelComes(rt.level_transition, target)
         /\ ColourComes(rt.temperature_transition)
<1>1. /\ rt.level_transition # None => rt.level_transition.age \in Nat
      /\ rt.temperature_transition # None => rt.temperature_transition.age \in Nat
  BY StateFields DEF LevelTracks, TemperatureTracks
<1>2. rt.level_transition # None => LevelContinues(rt.level_transition)
  BY <1>1 DEF LevelContinues
<1>3. rt.temperature_transition # None => ColourContinues(rt.temperature_transition)
  BY <1>1 DEF ColourContinues
<1> QED
  BY <1>2, <1>3 DEF TrackInv, OffTracks, TracksFit, LevelComes, ColourComes

LEMMA RecallSceneGoes ==
  ASSUME Inv, TrackInv, NEW target \in SceneTargets, NEW requested \in Durations,
         NEW F, RecallScene(target, requested, F)
  PROVE  Moves
<1> DEFINE current == CurrentFrame(rt)
           duration == Duration(requested)
           animate == current.brightness # 0 \/ target.on
           l == IF animate THEN FadeTo(current, target, duration, "Smooth") ELSE None
           t == IF animate /\ target.on
                THEN ColourTo(current, target.temperature, duration, "Smooth") ELSE None
           s == [rt EXCEPT !.level_transition = l, !.temperature_transition = t]
<1>1. Commit(IF target = rt.target THEN rt ELSE s, target, F)
  BY DEF RecallScene
<1>2. /\ target \in LightStates /\ duration \in Nat /\ duration # 0
      /\ current \in Frames /\ rt \in States
  BY RuntimeAssumption, DurationType, CurrentFrameType DEF Inv, TypeOK, Duration
<1>3. CASE target = rt.target
  BY <1>1, <1>2, <1>3, FadesKept, CommandGoes, RetrackedBy DEF Inv
<1>4. CASE target # rt.target
  <2>1. l \in LevelTracks \cup {None} /\ t \in TemperatureTracks \cup {None}
    BY <1>2, FadeTypes DEF Curves
  <2>2. target.on \/ t = None
    OBVIOUS
  <2>3. /\ TracksFit(l, t, target)
        /\ rt.applied # None => LevelComes(l, target) /\ ColourComes(t)
    <3>1. CASE l = None
      BY <1>2, <3>1, ColoursStart DEF TracksFit, LevelComes, ColourComes
    <3>2. CASE animate
      BY <1>2, <2>2, <3>2, FadesStart, ColoursStart DEF LevelComes, ColourComes
    <3> QED
      BY <3>1, <3>2
  <2>4. Retracked(s) /\ s.level_transition = l /\ s.temperature_transition = t
    BY <1>2, <2>1, RetrackedBy DEF Inv, States
  <2> HIDE DEF s, l, t
  <2> QED
    BY <1>1, <1>2, <1>4, <2>3, <2>4, CommandGoes
<1> QED
  BY <1>3, <1>4

LEMMA SetPowerGoes ==
  ASSUME Inv, TrackInv, NEW on \in BOOLEAN, NEW F, SetPower(on, F)
  PROVE  Moves
<1> DEFINE current == CurrentFrame(rt)
           target == [rt.target EXCEPT !.on = on]
           l == FadeTo(current, target, DefaultTransition, "Smooth")
           t == IF ~on THEN None
                ELSE IF current.state.temperature # target.temperature
                THEN ColourTo(current, target.temperature, DefaultTransition, "Smooth")
                ELSE rt.temperature_transition
           s == [rt EXCEPT !.level_transition = l, !.temperature_transition = t]
<1>1. Commit(IF on = rt.target.on THEN rt ELSE s, target, F)
  BY DEF SetPower
<1>2. /\ target \in LightStates /\ target.on = on
      /\ current \in Frames /\ rt \in States
  BY StateFields, CurrentFrameType DEF Inv, TypeOK, LightStates
<1>3. CASE on = rt.target.on
  <2> HIDE DEF target
  <2> QED
    BY <1>1, <1>2, <1>3, FadesKept, CommandGoes, RetrackedBy DEF Inv
<1>4. CASE on # rt.target.on
  <2>1. l \in LevelTracks /\ t \in TemperatureTracks \cup {None}
    BY <1>2, StateFields, FadeTypes, ConstantTypes DEF Curves
  <2>2. target.on \/ t = None
    BY <1>2
  <2>3. rt.applied # None => ColourComes(t)
    <3> HIDE DEF target
    <3> QED
      BY <1>2, FadesKept, ColoursStart DEF ColourComes, current
  <2> HIDE DEF target, t
  <2>4. /\ TracksFit(l, t, target)
        /\ rt.applied # None => LevelComes(l, target)
    BY <1>2, <2>2, FadesStart, ConstantTypes DEF LevelComes
  <2> HIDE DEF l
  <2>5. Retracked(s) /\ s.level_transition = l /\ s.temperature_transition = t
    BY <1>2, <2>1, RetrackedBy DEF Inv, States
  <2> HIDE DEF s
  <2> QED
    BY <1>1, <1>2, <1>4, <2>3, <2>4, <2>5, CommandGoes
<1> QED
  BY <1>3, <1>4

\* An effect that brightens does so by a fifth at most.
LEMMA EffectMiddleBound ==
  ASSUME NEW effect, NEW from \in Brightnesses
  PROVE  EffectMiddle(effect, from) <= (from * 6) \div 5
<1>1. from \in Nat /\ MaxBrightness \in Nat
  BY UnitsAssumption, SMT DEF Brightnesses, MaxBrightness, FromLevel
<1>2. from \div 2 <= (from * 6) \div 5 /\ 0 <= (from * 6) \div 5
  BY <1>1, SMT
<1> QED
  BY <1>1, <1>2, SMT DEF EffectMiddle

LEMMA OffWithEffectGoes ==
  ASSUME Inv, TrackInv, NEW effect \in OffEffects, NEW F, OffWithEffect(effect, F)
  PROVE  Moves
<1> DEFINE current == CurrentFrame(rt)
           from == current.brightness
           middle == EffectMiddle(effect, from)
           legs == EffectLegs[effect]
           last == IF legs.last = 0 THEN None ELSE Leg(middle, 0, legs.last, "Smooth")
           track == LevelTrack(Leg(from, middle, legs.first, "Smooth"), last,
                               current.state.temperature)
           l == IF from # 0 /\ effect # "NoFade" THEN track ELSE None
           target == [rt.target EXCEPT !.on = FALSE]
           s == [rt EXCEPT !.level_transition = l, !.temperature_transition = None]
<1>1. Commit(s, target, F)
  BY DEF OffWithEffect
<1>2. target \in LightStates /\ current \in Frames /\ rt \in States /\ target.on = FALSE
  BY StateFields, CurrentFrameType DEF Inv, TypeOK, LightStates
<1>3. /\ from \in Brightnesses /\ middle \in Brightnesses
      /\ current.state.temperature \in Temperatures
      /\ middle <= (from * 6) \div 5
  BY <1>2, EffectMiddleType, EffectMiddleBound DEF Frames, LightStates
<1>4. effect # "NoFade" => legs.first \in Nat \ {0} /\ legs.last \in Nat
  <2>1. effect # "NoFade" => legs \in [first : Nat \ {0}, last : Nat]
    BY RuntimeAssumption
  <2> QED
    BY <2>1
<1>5. current.state.temperature # None
  BY <1>3, UnitsAssumption, NoneAssumption DEF Temperatures
<1>6. rt.applied # None => current = rt.applied
  BY DEF CurrentFrame
<1> HIDE DEF current, middle, legs, target
<1>7. l \in LevelTracks \cup {None}
  <2>1. effect # "NoFade" => last \in Legs(Brightnesses, Nat) \cup {None}
    BY <1>3, <1>4, ConstantTypes DEF Leg, Legs, Curves
  <2> HIDE DEF last
  <2> QED
    BY <1>3, <1>4, <2>1, LevelTrackType DEF Curves
<1>8. /\ track.age = 0 /\ track.ramp.duration = legs.first
      /\ track.ramp.from = from /\ track.ramp.to = middle
      /\ track.off_temperature = current.state.temperature
      /\ track.then # None => track.then.from = middle
  BY DEF LevelTrack, Leg
<1> HIDE DEF track
<1>9. TracksFit(l, None, target)
  BY <1>2, <1>3, <1>5, <1>8 DEF TracksFit
<1>10. rt.applied # None => LevelComes(l, target) /\ ColourComes(None)
  BY <1>4, <1>6, <1>8 DEF LevelComes, LevelStarts, ColourComes
<1> HIDE DEF l
<1>11. Retracked(s) /\ s.level_transition = l /\ s.temperature_transition = None
  BY <1>2, <1>7, RetrackedBy DEF Inv, States
<1> HIDE DEF s
<1> QED
  BY <1>1, <1>2, <1>9, <1>10, <1>11, CommandGoes

LEMMA MoveLevelGoes ==
  ASSUME Inv, TrackInv, NEW level \in LevelInputs, NEW with_on_off \in BOOLEAN,
         NEW duration \in Nat, NEW curve \in Curves, NEW F,
         MoveLevel(level, with_on_off, duration, curve, F)
  PROVE  Moves
<1> DEFINE current == CurrentFrame(rt)
           target == [rt.target EXCEPT !.level = AtLeastOne(level),
                                       !.on = IF with_on_off THEN level > 1 ELSE @]
           kept == \/ target = rt.target /\ curve = "Smooth"
                   \/ ~target.on /\ ~rt.target.on /\ ~with_on_off
           animate == duration # 0 /\ (current.brightness # 0 \/ target.on)
           l == IF animate THEN FadeTo(current, target, duration, curve) ELSE None
           t == IF ~target.on THEN None
                ELSE IF ~rt.target.on /\ current.state.temperature # target.temperature
                THEN ColourTo(current, target.temperature, duration, curve)
                ELSE rt.temperature_transition
           s == [rt EXCEPT !.level_transition = l, !.temperature_transition = t]
<1>1. Commit(IF kept THEN rt ELSE s, target, F)
  BY DEF MoveLevel
<1>2. target \in LightStates /\ current \in Frames /\ rt \in States
  <2>1. level \in 0..LevelMax
    BY RuntimeAssumption
  <2>2. AtLeastOne(level) \in Levels /\ (level > 1) \in BOOLEAN
    BY <2>1, UnitsAssumption, SMT DEF AtLeastOne, Levels
  <2>3. rt \in States /\ rt.target \in LightStates
    BY StateFields DEF Inv, TypeOK
  <2> QED
    BY <2>2, <2>3, CurrentFrameType DEF LightStates
<1>3. rt.target.on \in BOOLEAN /\ target.on \in BOOLEAN
  <2> HIDE DEF target
  <2> QED
    BY <1>2, StateFields DEF LightStates
<1> HIDE DEF target
<1>4. CASE kept
  <2>1. target.on = rt.target.on
    BY <1>3, <1>4
  <2> HIDE DEF kept
  <2> QED
    BY <1>1, <1>2, <1>4, <2>1, FadesKept, CommandGoes, RetrackedBy DEF Inv
<1>5. CASE ~kept
  <2> HIDE DEF kept
  <2>1. l \in LevelTracks \cup {None} /\ t \in TemperatureTracks \cup {None}
    <3> HIDE DEF current
    <3> QED
      BY <1>2, StateFields, FadeTypes
  <2>2. target.on \/ t = None
    OBVIOUS
  <2>3. rt.applied # None => ColourComes(t)
    BY <1>2, FadesKept, ColoursStart DEF ColourComes, current
  <2> HIDE DEF t
  <2>4. /\ TracksFit(l, t, target)
        /\ rt.applied # None => LevelComes(l, target)
    <3>1. CASE l = None
      BY <3>1 DEF TracksFit, LevelComes
    <3>2. CASE animate
      BY <1>2, <2>2, <3>2, FadesStart DEF LevelComes
    <3> QED
      BY <3>1, <3>2
  <2> HIDE DEF l
  <2>5. Retracked(s) /\ s.level_transition = l /\ s.temperature_transition = t
    BY <1>2, <2>1, RetrackedBy DEF Inv, States
  <2> HIDE DEF s
  <2> QED
    BY <1>1, <1>2, <1>5, <2>3, <2>4, <2>5, CommandGoes
<1> QED
  BY <1>4, <1>5

\* A colour command starts a fade only while the light is on.
LEMMA MoveTemperatureGoes ==
  ASSUME Inv, TrackInv, NEW temperature \in TemperatureInputs, NEW duration \in Nat,
         NEW curve \in Curves, NEW F, MoveTemperature(temperature, duration, curve, F)
  PROVE  Moves
<1> DEFINE current == CurrentFrame(rt)
           target == [rt.target EXCEPT !.temperature = temperature]
           t == IF duration # 0 THEN ColourTo(current, temperature, duration, curve)
                ELSE None
           s == [rt EXCEPT !.temperature_transition = t]
           moves == rt.target.on
                      /\ (temperature # rt.target.temperature \/ curve = "Linear")
<1>1. Commit(IF moves THEN s ELSE rt, target, F)
  BY DEF MoveTemperature
<1>2. /\ target \in LightStates /\ target.temperature = temperature
      /\ target.on = rt.target.on
      /\ current \in Frames /\ rt \in States
  BY StateFields, RuntimeAssumption, CurrentFrameType DEF Inv, TypeOK, LightStates
<1>3. t \in TemperatureTracks \cup {None}
  <2> HIDE DEF current, target
  <2> QED
    BY <1>2, FadeTypes
<1>4. rt.applied # None => ColourComes(t)
  BY ColoursStart DEF ColourComes
<1> HIDE DEF target, t
<1>5. /\ TracksFit(rt.level_transition, rt.temperature_transition, target)
      /\ LevelComes(rt.level_transition, target)
      /\ ColourComes(rt.temperature_transition)
  BY <1>2, FadesKept
<1>6. CASE ~moves
  <2> HIDE DEF moves
  <2> QED
    BY <1>1, <1>2, <1>5, <1>6, CommandGoes, RetrackedBy DEF Inv
<1>7. CASE moves
  <2>1. TracksFit(rt.level_transition, t, target)
    BY <1>2, <1>5, <1>7 DEF TracksFit
  <2>2. /\ Retracked(s) /\ s.level_transition = rt.level_transition
        /\ s.temperature_transition = t
    BY <1>2, <1>3, RetrackedBy DEF Inv, States
  <2> HIDE DEF s, moves
  <2> QED
    BY <1>1, <1>2, <1>4, <1>5, <1>7, <2>1, <2>2, CommandGoes
<1> QED
  BY <1>6, <1>7

LEMMA StopLevelTransitionGoes ==
  ASSUME Inv, TrackInv, NEW F, StopLevelTransition(F)
  PROVE  Moves
<1> DEFINE stopped == rt.level_transition
           target == [level |-> ToLevelClamped(rt.applied.brightness),
                      on |-> rt.applied.brightness > Floor \div 2,
                      temperature |-> IF stopped.off_temperature # None
                                      THEN stopped.off_temperature
                                      ELSE rt.target.temperature]
           s == [rt EXCEPT !.level_transition = None]
<1>1. rt.applied # None /\ stopped # None /\ Commit(s, target, F)
  BY DEF StopLevelTransition
<1>2. rt \in States /\ rt.applied \in Frames /\ stopped \in LevelTracks
  BY <1>1, StateFields DEF Inv, TypeOK
<1>3. ToLevelClamped(rt.applied.brightness) \in Levels
  BY <1>2, ToLevelType DEF Frames
<1>4. target \in LightStates
  <2>1. (rt.applied.brightness > Floor \div 2) \in BOOLEAN
    OBVIOUS
  <2>2. target.temperature \in Temperatures
    BY <1>2, StateFields DEF LevelTracks, LightStates
  <2> QED
    BY <1>3, <2>1, <2>2 DEF LightStates
<1>5. /\ Retracked(s) /\ s.level_transition = None
      /\ s.temperature_transition = rt.temperature_transition
  BY <1>2, RetrackedBy DEF Inv, States
<1> HIDE DEF s, target
<1>6. TracksFit(None, rt.temperature_transition, target) /\ LevelComes(None, target)
  BY DEF TracksFit, LevelComes
<1> QED
  BY <1>1, <1>2, <1>4, <1>5, <1>6, FadesKept, CommandGoes

LEMMA StopTemperatureTransitionGoes ==
  ASSUME Inv, TrackInv, NEW F, StopTemperatureTransition(F)
  PROVE  Moves
<1> DEFINE target == [rt.target EXCEPT !.temperature = rt.applied.state.temperature]
           s == [rt EXCEPT !.temperature_transition = None]
<1>1. rt.applied # None /\ Commit(s, target, F)
  BY DEF StopTemperatureTransition
<1>2. rt \in States /\ rt.applied \in Frames
  BY <1>1, StateFields DEF Inv, TypeOK
<1>3. target \in LightStates /\ target.on = rt.target.on
  BY <1>2, StateFields DEF Frames, LightStates
<1>4. /\ Retracked(s) /\ s.level_transition = rt.level_transition
      /\ s.temperature_transition = None
  BY <1>2, RetrackedBy DEF Inv, States
<1> HIDE DEF s, target
<1>5. /\ TracksFit(rt.level_transition, rt.temperature_transition, target)
      /\ LevelComes(rt.level_transition, target)
  BY <1>2, <1>3, FadesKept
<1>6. TracksFit(rt.level_transition, None, target) /\ ColourComes(None)
  BY <1>5 DEF TracksFit, ColourComes
<1> QED
  BY <1>1, <1>3, <1>4, <1>5, <1>6, CommandGoes

LEMMA CommandGoesAll ==
  ASSUME Inv, TrackInv, NEW F, Command(F)
  PROVE  Moves
<1>1. ASSUME NEW level \in LevelInputs, NEW with_on_off \in BOOLEAN,
             NEW duration \in Durations,
             \/ SetLevelTransition(level, with_on_off, duration, F)
             \/ SetLevelRate(level, with_on_off, duration, F)
      PROVE  Moves
  <2>1. PICK length \in Nat, curve \in Curves :
          MoveLevel(level, with_on_off, length, curve, F)
    BY <1>1, DurationType DEF SetLevelTransition, SetLevelRate, Curves
  <2> QED
    BY <2>1, MoveLevelGoes
<1>2. ASSUME NEW temperature \in TemperatureInputs, NEW duration \in Durations,
             \/ SetTemperatureTransition(temperature, duration, F)
             \/ SetTemperatureRate(temperature, duration, F)
      PROVE  Moves
  <2>1. PICK length \in Nat, curve \in Curves :
          MoveTemperature(temperature, length, curve, F)
    BY <1>2, DurationType DEF SetTemperatureTransition, SetTemperatureRate, Curves
  <2> QED
    BY <2>1, MoveTemperatureGoes
<1>3. ASSUME NEW target \in SceneTargets, NEW requested \in Durations,
             RecallScene(target, requested, F)
      PROVE  Moves
  BY <1>3, RecallSceneGoes
<1>4. ASSUME NEW on \in BOOLEAN, SetPower(on, F) PROVE Moves
  BY <1>4, SetPowerGoes
<1>5. ASSUME NEW effect \in OffEffects, OffWithEffect(effect, F) PROVE Moves
  BY <1>5, OffWithEffectGoes
<1>6. CASE StopLevelTransition(F) \/ StopTemperatureTransition(F)
  BY <1>6, StopLevelTransitionGoes, StopTemperatureTransitionGoes
<1> HIDE DEF Moves
<1> QED
  BY <1>1, <1>2, <1>3, <1>4, <1>5, <1>6 DEF Command

\* A step that leaves no fade.
LEMMA DarkMoves ==
  ASSUME NEW z \in States, z.level_transition = None, z.temperature_transition = None,
         LandsOn(z)
  PROVE  Moves
<1>1. Goes(z)
  BY DEF Goes, OffTracks, TracksFit, LevelComes, ColourComes
<1> QED
  BY <1>1 DEF Moves

LEMMA NothingMoves ==
  ASSUME rt' \in States, rt'.applied = None,
         rt'.level_transition = None, rt'.temperature_transition = None
  PROVE  Moves
<1>1. LandsOn(rt')
  BY DEF LandsOn
<1> QED
  BY <1>1, DarkMoves

LEMMA OffMoves ==
  ASSUME Inv, NEW F, Off(F), rt' \in States
  PROVE  Moves
<1>1. rt \in States
  BY DEF Inv, TypeOK
<1>2. CASE IsOff(rt')
  BY <1>2, NothingMoves DEF IsOff
<1>3. ASSUME NEW c \in States, IsOff(c), FailSave(c, F)
      PROVE  Moves
  BY <1>3, FailuresLand, DarkMoves DEF IsOff
<1>4. ASSUME NEW saved \in States, IsOff(saved),
             Reconcile(saved, F) \/ FailOutput(saved, F)
      PROVE  Moves
  <2>1. CASE FailOutput(saved, F)
    BY <1>4, <2>1, FailuresLand, DarkMoves DEF IsOff
  <2>2. CASE Reconcile(saved, F)
    <3>1. /\ FromZero(saved) \in States
          /\ FromZero(saved).level_transition = None
          /\ FromZero(saved).temperature_transition = None
      BY <1>4, FromZeroType, FromZeroTracks DEF IsOff
    <3> QED
      BY <1>4, <2>2, <3>1, ReconcileLands, DarkMoves DEF Lands, IsOff
  <2> QED
    BY <1>4, <2>1, <2>2
<1> QED
  BY <1>1, <1>2, <1>3, <1>4, OffLeaves

\* Time carries the fades on.
LEMMA ElapsedGoes ==
  ASSUME rt \in States, TrackInv, NEW elapsed \in Nat
  PROVE  Goes(Elapse(rt, elapsed))
<1> DEFINE s == Elapse(rt, elapsed)
           level == rt.level_transition
           colour == rt.temperature_transition
           l == Aged(level, elapsed, LevelLength(level))
           t == Aged(colour, elapsed, colour.ramp.duration)
<1>1. /\ s \in States /\ s.target = rt.target
      /\ s.level_transition = IF level = None THEN None ELSE l
      /\ s.temperature_transition = IF colour = None THEN None ELSE t
  BY ElapseType, ZenonT(60) DEF Elapse, States
<1>2. ASSUME level # None
      PROVE  /\ LevelContinues(l)
             /\ l.off_temperature = level.off_temperature
             /\ l.then = level.then /\ l.ramp = level.ramp
  <2>1. level \in LevelTracks
    BY <1>2, StateFields
  <2>2. /\ l.off_temperature = level.off_temperature
        /\ l.then = level.then /\ l.ramp = level.ramp
        /\ l.age = Older(level.age, elapsed, LevelLength(level))
    BY <2>1 DEF Aged, LevelTracks
  <2>3. level.age \in Nat /\ LevelLength(level) \in Nat
    BY <2>1 DEF LevelTracks, LevelLength, Legs
  <2>4. LevelLength(l) = LevelLength(level)
    BY <2>2 DEF LevelLength
  <2> HIDE DEF l, level
  <2>5. LevelRemaining(l) # 0 => LevelRemaining(level) # 0 /\ l.age >= level.age
    BY <2>2, <2>3, <2>4, SMT DEF LevelRemaining, Older
  <2> QED
    BY <1>2, <2>2, <2>5 DEF LevelContinues, level
<1>3. ASSUME colour # None
      PROVE  ColourContinues(t)
  <2>1. colour \in TemperatureTracks
    BY <1>3, StateFields
  <2>2. t.ramp = colour.ramp /\ t.age = Older(colour.age, elapsed, colour.ramp.duration)
    BY <2>1 DEF Aged, TemperatureTracks
  <2>3. colour.age \in Nat /\ colour.ramp.duration \in Nat
    BY <2>1 DEF TemperatureTracks, Legs
  <2> HIDE DEF t, colour
  <2>4. TemperatureRemaining(t) # 0 => t.age >= colour.age
    BY <2>2, <2>3, SMT DEF TemperatureRemaining, Older
  <2> QED
    BY <1>3, <2>2, <2>4 DEF ColourContinues, colour
<1>4. OffTracks(rt)
  BY DEF TrackInv
<1> HIDE DEF s, l, t
<1>5. OffTracks(s)
  BY <1>1, <1>2, <1>4 DEF OffTracks, TracksFit
<1>6. LevelComes(s.level_transition, s.target) /\ ColourComes(s.temperature_transition)
  BY <1>1, <1>2, <1>3 DEF LevelComes, ColourComes
<1>7. Goes(s)
  BY <1>1, <1>5, <1>6 DEF Goes
<1> QED
  BY <1>7 DEF s

LEMMA TickMoves ==
  ASSUME Inv, FadeInv, TrackInv, NEW elapsed \in TickSteps, NEW F, Tick(elapsed, F)
  PROVE  Moves
<1> DEFINE s == Elapse(rt, elapsed)
           waits == s.fault = "Rebooting" \/ s.retry_in > 0
           load_fault == LoadFault(flash, F)
<1>1. rt \in States /\ flash \in Records
  BY DEF Inv, TypeOK
<1>2. /\ s \in States /\ s.load_fault = rt.load_fault
      /\ s.applied = rt.applied /\ s.fault = rt.fault
      /\ rt.retry_in = 0 => s.retry_in = 0
  BY <1>1, ElapseType, RuntimeAssumption
<1>3. Goes(s)
  BY <1>1, ElapsedGoes, RuntimeAssumption
<1>4. UnreadIsStill(s)
  BY <1>1, <1>2, ElapsedLeads DEF FadeInv, UnreadIsStill
<1> HIDE DEF s
<1>5. CASE /\ waits \/ s.load_fault = "InvalidRecord"
           /\ rt' = s
  <2>1. s.applied = None
    <3>1. s.retry_in > 0 => rt.retry_in # 0
      BY <1>2
    <3> QED
      BY <1>2, <1>5, <3>1 DEF Inv, AcknowledgedIsSound
  <2>2. LandsOn(s)
    BY <1>5, <2>1 DEF LandsOn
  <2> QED
    BY <1>3, <2>2 DEF Moves
<1>6. CASE /\ s.load_fault = "Storage"
           /\ rt' = [s EXCEPT !.load_fault = load_fault, !.fault = load_fault,
                              !.retry_in = RetryDelay]
  <2>1. s.applied = None
    BY <1>2, <1>6 DEF Inv, AcknowledgedIsSound
  <2> HIDE DEF load_fault
  <2>2. LandsOn(s)
    BY <1>2, <1>6, <2>1 DEF LandsOn, States
  <2> QED
    BY <1>3, <2>2 DEF Moves
<1>7. CASE /\ s.load_fault = "Storage" /\ load_fault = "None"
           /\ Maintain(Reloaded(s), F)
  <2> DEFINE u == Reloaded(s)
  <2>1. flash # Malformed
    BY <1>7 DEF LoadFault
  <2>2. u \in States
    BY <1>1, <1>2, <2>1, ReloadedType
  <2>3. u.level_transition = None
    BY <1>2, <1>4, <1>7 DEF UnreadIsStill, Reloaded, States
  <2>4. rt.applied = None
    BY <1>2, <1>7 DEF Inv, AcknowledgedIsSound
  <2> HIDE DEF u
  <2>5. Goes(u)
    BY <2>2, <2>3, <2>4 DEF Goes, OffTracks, TracksFit
  <2>6. Lands(u)
    BY <1>7, <2>2, MaintainLands DEF u
  <2> QED
    BY <2>4, <2>5, <2>6, LandsMoves
<1>8. CASE Maintain(s, F)
  BY <1>2, <1>3, <1>8, MaintainLands, LandsMoves
<1> QED
  BY <1>5, <1>6, <1>7, <1>8 DEF Tick, s

\* Every step moves the output along fades that started where it was, or that
\* were under way, or leaves it.
LEMMA StepMoves ==
  ASSUME Inv, FadeInv, TrackInv, [Next]_vars
  PROVE  Still \/ Moves
<1>1. rt \in States /\ rt' \in States
  BY StepOutcome DEF Inv, TypeOK
<1>2. ASSUME NEW F, Command(F) PROVE Still \/ Moves
  BY <1>2, CommandGoesAll
<1>3. ASSUME NEW F, Setting(F) PROVE Still \/ Moves
  <2>1. PICK startup : SaveStartup(startup, F)
    BY <1>3 DEF Setting, SetStartup, SetStartupLevel, SetStartupTemperature
  <2> QED
    BY <1>1, <2>1 DEF SaveStartup, States, Still, SameTracks
<1>4. ASSUME NEW F, Local(F) PROVE Still \/ Moves
  <2>1. CASE Off(F)
    BY <1>1, <2>1, OffMoves
  <2>2. CASE Verify(F) \/ Registers(F)
    BY <1>1, <2>2, ZenonT(60) DEF Verify, Registers, FailOutput, OutputFailed, States, Still, SameTracks
  <2>3. CASE PrepareReboot(F)
    BY <1>1, <2>3 DEF PrepareReboot, States, Still, SameTracks
  <2> QED
    BY <1>4, <2>1, <2>2, <2>3 DEF Local
<1>5. ASSUME NEW F, NEW elapsed \in TickSteps, Tick(elapsed, F) PROVE Still \/ Moves
  BY <1>5, TickMoves
<1>6. ASSUME NEW F, Reset(F) PROVE Still \/ Moves
  <2>1. /\ rt'.applied = None
        /\ rt'.level_transition = None /\ rt'.temperature_transition = None
    BY <1>6 DEF Reset, Loaded
  <2> QED
    BY <1>1, <2>1, NothingMoves
<1>7. CASE PcaReset \/ UNCHANGED vars
  BY <1>7 DEF PcaReset, vars, Still, SameTracks
<1> HIDE DEF Still, Moves
<1> QED
  BY <1>2, <1>3, <1>4, <1>5, <1>6, <1>7 DEF Next

-----------------------------------------------------------------------------
(* The output from one acknowledged frame to the next.                     *)

LEMMA StillTracks ==
  ASSUME TrackInv, Still
  PROVE  TrackInv'
<1>1. OffTracks(rt')
  BY SameTracksSameFrame DEF TrackInv, Still
<1>2. Effective(rt') = Effective(rt) /\ (Fading(rt') <=> Fading(rt))
  BY SameTracksSameFrame DEF Still, SameTracks, Fading
<1>3. ShowsColour(rt')
  BY <1>2 DEF TrackInv, Still, SameTracks, ShowsColour
<1> QED
  BY <1>1, <1>3 DEF TrackInv

\* Whatever the operation, the fades it leaves fit the target, and the colour
\* is acknowledged as it is due.
LEMMA LandedTracks ==
  ASSUME NEW z, Goes(z), LandsOn(z)
  PROVE  TrackInv'
<1> DEFINE level == rt'.level_transition
           colour == rt'.temperature_transition
<1>1. TracksFit(z.level_transition, z.temperature_transition, z.target)
  BY DEF Goes, OffTracks
<1>2. OffTracks(rt')
  BY <1>1 DEF LandsOn, OffTracks, TracksFit
<1>3. ASSUME rt'.applied # None, colour # None
      PROVE  rt'.applied.state.temperature = Effective(rt').state.temperature
  <2>1. rt'.applied = Effective(z) /\ colour = z.temperature_transition
    BY <1>3 DEF LandsOn
  <2>2. Effective(z).state.temperature = TemperatureValue(colour)
    BY <1>3, <2>1 DEF Effective
  <2>3. Effective(rt').state.temperature = TemperatureValue(colour)
    BY <1>3 DEF Effective
  <2> QED
    BY <2>1, <2>2, <2>3
<1>4. ASSUME rt'.applied # None, colour = None,
             Fading(rt'), level.off_temperature # None
      PROVE  rt'.applied.state.temperature = Effective(rt').state.temperature
  <2>1. rt'.applied = Effective(z) /\ rt'.target = z.target
    BY <1>4 DEF LandsOn
  <2>2. level # None /\ level = z.level_transition
    BY <1>4 DEF LandsOn, Fading
  <2>3. z.temperature_transition = None
    BY <1>1, <1>4, <2>2 DEF TracksFit
  <2>4. SameTracks(z, rt')
    BY <1>4, <2>1, <2>2, <2>3 DEF SameTracks
  <2> QED
    BY <2>1, <2>4, SameTracksSameFrame
<1>5. ShowsColour(rt')
  BY <1>3, <1>4 DEF ShowsColour
<1> QED
  BY <1>2, <1>5 DEF TrackInv

LEMMA TrackStep ==
  ASSUME Inv, FadeInv, TrackInv, [Next]_vars
  PROVE  TrackInv'
BY StepMoves, StillTracks, LandedTracks DEF Moves

\* The fades fit their targets, and a moving or frozen colour is the
\* acknowledged one, throughout.
THEOREM TrackInvariant == Spec => []TrackInv
<1>1. Init => TrackInv
  BY LoadedFades DEF Init, TrackInv, OffTracks, TracksFit, ShowsColour
<1>2. Inv /\ FadeInv /\ TrackInv /\ [Next]_vars => TrackInv'
  BY TrackStep
<1> QED
  BY <1>1, <1>2, Invariant, FadeInvariant, PTL DEF Spec

LEMMA TrackParts ==
  ASSUME NEW track \in LevelTracks
  PROVE  /\ track.age \in Nat
         /\ track.ramp \in Legs(Int, Nat) /\ track.ramp.duration \in Nat
         /\ track.ramp.from \in Nat /\ track.ramp.to \in Nat
         /\ track.then # None =>
              /\ track.then \in Legs(Int, Nat)
              /\ track.then.from \in Nat /\ track.then.to \in Nat
<1>1. MaxBrightness \in Nat
  BY UnitsAssumption, SMT DEF MaxBrightness, FromLevel
<1>2. Brightnesses \subseteq Int /\ \A b \in Brightnesses : b \in Nat
  BY <1>1 DEF Brightnesses
<1>3. /\ track.age \in Nat
      /\ track.ramp \in Legs(Brightnesses, Nat)
      /\ track.then # None => track.then \in Legs(Brightnesses, Nat)
  BY DEF LevelTracks
<1>4. ASSUME NEW leg \in Legs(Brightnesses, Nat)
      PROVE  /\ leg \in Legs(Int, Nat) /\ leg.duration \in Nat
             /\ leg.from \in Nat /\ leg.to \in Nat
  BY <1>2 DEF Legs
<1> QED
  BY <1>3, <1>4

\* Between two acknowledged frames with a level fade under way after the step,
\* the fade either starts, and the output stays, or goes on.
LEMMA FadingStep ==
  ASSUME Inv, FadeInv, Acknowledged, NEW z, Goes(z), LandsOn(z), Fading(z)
  PROVE  \/ /\ LevelStarts(z.level_transition)
            /\ rt'.applied.brightness = rt.applied.brightness
         \/ /\ LevelContinues(z.level_transition)
            /\ z.target.on = rt.target.on
            /\ Fading(rt) /\ z.level_transition.age >= rt.level_transition.age
            /\ rt.applied.brightness = LevelValue(rt.level_transition)
            /\ rt'.applied.brightness = LevelValue(z.level_transition)
<1> DEFINE l == z.level_transition
<1>1. /\ l # None /\ LevelRemaining(l) # 0 /\ z \in States
      /\ rt.applied # None /\ rt'.applied # None
  BY DEF Fading, Goes, Acknowledged
<1>2. l \in LevelTracks
  BY <1>1, StateFields
<1>3. rt'.applied.brightness = LevelValue(l)
  BY <1>1 DEF LandsOn, Effective
<1>4. CASE LevelStarts(l)
  <2>1. Value(l.ramp, 0) = l.ramp.from
    BY <1>2, <1>4, TrackParts, ValueStarts DEF LevelStarts
  <2>2. l.age = 0 /\ ~(0 >= l.ramp.duration)
    BY <1>2, <1>4, TrackParts, SMT DEF LevelStarts
  <2>3. LevelValue(l) = Value(l.ramp, 0)
    BY <2>2 DEF LevelValue
  <2> QED
    BY <1>3, <1>4, <2>1, <2>3 DEF LevelStarts
<1>5. CASE z.target.on = rt.target.on /\ LevelContinues(l)
  <2>1. Fading(rt) /\ l.age >= rt.level_transition.age
    BY <1>1, <1>5 DEF LevelContinues, Fading
  <2>2. rt.applied.brightness = LevelValue(rt.level_transition)
    BY <1>1, <2>1 DEF FadeInv, ShowsEffective, Effective
  <2> QED
    BY <1>3, <1>5, <2>1, <2>2
<1> QED
  BY <1>1, <1>4, <1>5 DEF Goes, LevelComes

\* A fade that starts, or restarts, does so at the acknowledged frame: neither
\* a command during a fade nor one after it makes the light jump.
THEOREM RetargetsStart == Spec => RetargetsFromAcknowledged
<1> DEFINE Retargets ==
      Acknowledged =>
        /\ (rt'.level_transition # None /\ rt'.level_transition.age = 0) =>
             rt'.applied.brightness = rt.applied.brightness
        /\ (rt'.temperature_transition # None /\ rt'.temperature_transition.age = 0) =>
             rt'.applied.state.temperature = rt.applied.state.temperature
<1>1. ASSUME Inv, FadeInv, TrackInv, Acknowledged, NEW z, Goes(z), LandsOn(z),
             rt'.level_transition # None, rt'.level_transition.age = 0
      PROVE  rt'.applied.brightness = rt.applied.brightness
  <2> DEFINE l == z.level_transition
             k == rt.level_transition
  <2>1. rt'.level_transition = l /\ Fading(z)
    BY <1>1 DEF LandsOn, Acknowledged, Fading
  <2>2. CASE /\ LevelContinues(l) /\ Fading(rt) /\ l.age >= k.age
             /\ rt.applied.brightness = LevelValue(k)
             /\ rt'.applied.brightness = LevelValue(l)
    <3>1. k \in LevelTracks /\ l.age = 0
      BY <1>1, <2>1, <2>2, StateFields DEF Fading, Inv, TypeOK
    <3>2. k.age = l.age
      BY <2>2, <3>1, TrackParts, SMT
    <3>3. LevelValue(l) = LevelValue(k)
      BY <2>2, <3>2 DEF LevelContinues, LevelValue
    <3> QED
      BY <2>2, <3>3
  <2> QED
    BY <1>1, <2>1, <2>2, FadingStep
<1>2. ASSUME Inv, TrackInv, Acknowledged, NEW z, Goes(z), LandsOn(z),
             rt'.temperature_transition # None, rt'.temperature_transition.age = 0
      PROVE  rt'.applied.state.temperature = rt.applied.state.temperature
  <2> DEFINE t == z.temperature_transition
             k == rt.temperature_transition
  <2>1. /\ rt'.temperature_transition = t /\ t # None /\ t.age = 0
        /\ TemperatureRemaining(t) # 0 /\ z \in States
        /\ rt'.applied = Effective(z) /\ rt.applied # None
    BY <1>2 DEF LandsOn, Acknowledged, Goes
  <2>2. rt'.applied.state.temperature = Value(t.ramp, 0)
    BY <2>1 DEF Effective, TemperatureValue
  <2>3. t \in TemperatureTracks
    BY <2>1, StateFields
  <2>4. t.ramp \in Legs(Int, Nat) /\ t.ramp.duration # 0
    <3>1. t.ramp \in Legs(Temperatures, Nat)
      BY <2>3 DEF TemperatureTracks
    <3>2. Temperatures \subseteq Int
      BY UnitsAssumption DEF Temperatures
    <3>3. t.ramp \in Legs(Int, Nat) /\ t.ramp.duration \in Nat
      BY <3>1, <3>2 DEF Legs
    <3>4. t.ramp.duration # 0
      BY <2>1, <3>3 DEF TemperatureRemaining
    <3> QED
      BY <3>3, <3>4
  <2>5. CASE ColourStarts(t)
    BY <2>2, <2>4, <2>5, ValueStarts DEF ColourStarts
  <2>6. CASE ColourContinues(t)
    <3>1. k # None /\ k.ramp = t.ramp /\ t.age >= k.age
      BY <2>1, <2>6 DEF ColourContinues
    <3>2. k.age \in Nat
      BY <1>2, <3>1, StateFields DEF TemperatureTracks, Inv, TypeOK
    <3>3. k.age = 0
      BY <2>1, <3>1, <3>2, SMT
    <3>4. rt.applied.state.temperature = Value(k.ramp, k.age)
      BY <1>2, <2>1, <3>1 DEF TrackInv, ShowsColour, Effective, TemperatureValue
    <3> QED
      BY <2>2, <3>1, <3>3, <3>4
  <2> QED
    BY <1>2, <2>1, <2>5, <2>6 DEF Goes, ColourComes
<1>3. ASSUME Inv, FadeInv, TrackInv, [Next]_vars PROVE Retargets
  <2>1. CASE Still
    <3>1. rt'.applied # None => rt'.applied = rt.applied
      BY <2>1 DEF Still
    <3> QED
      BY <3>1 DEF Acknowledged
  <2>2. CASE Moves
    BY <1>1, <1>2, <1>3, <2>2 DEF Moves
  <2> HIDE DEF Retargets
  <2> QED
    BY <1>3, <2>1, <2>2, StepMoves
<1>4. Inv /\ FadeInv /\ TrackInv /\ [Next]_vars => [Retargets]_vars
  BY <1>3
<1> QED
  BY <1>4, Invariant, FadeInvariant, TrackInvariant, PTL DEF Spec, RetargetsFromAcknowledged

LEMMA LegWithin ==
  ASSUME NEW leg \in Legs(Int, Nat), NEW S, leg.from \in S, leg.to \in S
  PROVE  leg \in Legs(S, Nat)
BY DEF Legs

\* Along a fade to zero the brightness rises only in a first leg that rises,
\* and to no more than that leg may reach.
LEMMA LevelFalls ==
  ASSUME NEW k \in LevelTracks, NEW l \in LevelTracks,
         l.ramp = k.ramp, l.then = k.then, l.age >= k.age, LevelEnd(k) = 0,
         k.then # None => k.then.from = k.ramp.to,
         NEW peak \in Nat, k.ramp.from <= peak, k.then # None => k.ramp.to <= peak,
         LevelValue(l) > LevelValue(k)
  PROVE  /\ k.then # None /\ k.age < k.ramp.duration
         /\ k.ramp.from < k.ramp.to
         /\ LevelValue(l) <= peak
<1> DEFINE ramp == k.ramp
           then == k.then
<1>1. /\ k.age \in Nat /\ l.age \in Nat /\ ramp \in Legs(Int, Nat)
      /\ ramp.duration \in Nat /\ ramp.from \in Nat /\ ramp.to \in Nat
      /\ then # None => then \in Legs(Int, Nat) /\ then.from \in Nat /\ then.to \in Nat
  BY TrackParts
<1>2. LevelValue(l) \in Int /\ LevelValue(k) \in Int
  BY LevelValueType, UnitsAssumption, SMT DEF Brightnesses, MaxBrightness, FromLevel
<1>3. then # None
  <2>1. SUFFICES ASSUME then = None PROVE FALSE
    OBVIOUS
  <2>2. ramp.to = 0 /\ LevelValue(k) = Value(ramp, k.age) /\ LevelValue(l) = Value(ramp, l.age)
    BY <2>1 DEF LevelEnd, LevelValue
  <2>3. Value(ramp, l.age) <= Value(ramp, k.age)
    BY <1>1, <2>2, ValueFalls
  <2> QED
    BY <1>2, <2>2, <2>3, SMT
<1>4. /\ then.to = 0 /\ then.from = ramp.to /\ ramp.to <= peak
      /\ then \in Legs(Int, Nat) /\ then.from \in Nat
  BY <1>1, <1>3 DEF LevelEnd
<1>5. k.age < ramp.duration
  <2>1. SUFFICES ASSUME k.age >= ramp.duration PROVE FALSE
    BY <1>1
  <2>2. /\ LevelValue(k) = Value(then, k.age - ramp.duration)
        /\ LevelValue(l) = Value(then, l.age - ramp.duration)
    BY <1>1, <1>3, <2>1, SMT DEF LevelValue
  <2>3. /\ k.age - ramp.duration \in Nat /\ l.age - ramp.duration \in Nat
        /\ k.age - ramp.duration <= l.age - ramp.duration
    BY <1>1, <2>1, SMT
  <2>4. Value(then, l.age - ramp.duration) <= Value(then, k.age - ramp.duration)
    BY <1>4, <2>3, ValueFalls
  <2> QED
    BY <1>2, <2>2, <2>4, SMT
<1>6. LevelValue(k) = Value(ramp, k.age)
  BY <1>1, <1>5, SMT DEF LevelValue
<1>7. CASE l.age < ramp.duration
  <2>1. LevelValue(l) = Value(ramp, l.age)
    BY <1>1, <1>7, SMT DEF LevelValue
  <2>2. LevelValue(l) <= peak
    <3>1. ramp \in Legs(0..peak, Nat)
      BY <1>1, <1>4, LegWithin
    <3>2. Value(ramp, l.age) \in 0..peak
      BY <1>1, <3>1, ValueIsBounded, SMTT(60)
    <3> QED
      BY <2>1, <3>2
  <2>3. ramp.from < ramp.to
    <3>1. SUFFICES ASSUME ramp.to <= ramp.from PROVE FALSE
      BY <1>1, SMT
    <3>2. Value(ramp, l.age) <= Value(ramp, k.age)
      BY <1>1, <3>1, ValueFalls
    <3> QED
      BY <1>2, <1>6, <2>1, <3>2, SMT
  <2> QED
    BY <1>3, <1>5, <2>2, <2>3
<1>8. CASE l.age >= ramp.duration
  <2>1. LevelValue(l) = Value(then, l.age - ramp.duration)
    BY <1>3, <1>8 DEF LevelValue
  <2>2. LevelValue(l) <= ramp.to
    <3>1. then \in Legs(0..ramp.to, Nat) /\ l.age - ramp.duration \in Nat
      BY <1>1, <1>4, <1>8, LegWithin, SMTT(60)
    <3>2. Value(then, l.age - ramp.duration) \in 0..ramp.to
      BY <1>1, <3>1, ValueIsBounded
    <3> QED
      BY <2>1, <3>2
  <2>3. ramp.from < ramp.to
    <3>1. SUFFICES ASSUME ramp.to <= ramp.from PROVE FALSE
      BY <1>1, SMT
    <3>2. ramp \in Legs(ramp.to..ramp.from, Nat)
      <4>1. ramp.from \in ramp.to..ramp.from /\ ramp.to \in ramp.to..ramp.from
        BY <1>1, <3>1, SMT
      <4>2. ramp \in Legs(Int, Nat)
        BY <1>1
      <4> HIDE DEF ramp
      <4> QED
        BY <4>1, <4>2, LegWithin
    <3>3. Value(ramp, k.age) \in ramp.to..ramp.from
      <4>1. ramp.to \in Int /\ ramp.from \in Int /\ k.age \in Nat
        BY <1>1, SMT
      <4> HIDE DEF ramp
      <4> QED
        BY <3>2, <4>1, ValueIsBounded
    <3> QED
      BY <1>1, <1>2, <1>6, <2>2, <3>3, SMT
  <2> QED
    BY <1>1, <1>2, <1>3, <1>4, <1>5, <2>2, <2>3, SMT
<1> QED
  BY <1>1, <1>7, <1>8, SMT

\* The acknowledged brightness is a number, before a step and after it.
LEMMA AcknowledgedBrightness ==
  ASSUME Inv, [Next]_vars, Acknowledged
  PROVE  rt.applied.brightness \in Nat /\ rt'.applied.brightness \in Nat
<1>1. rt \in States /\ rt' \in States
  BY StepOutcome DEF Inv, TypeOK
<1>2. rt.applied \in Frames /\ rt'.applied \in Frames
  BY <1>1, StateFields DEF Acknowledged
<1>3. MaxBrightness \in Nat
  BY UnitsAssumption, SMT DEF MaxBrightness, FromLevel
<1>4. \A b \in Brightnesses : b \in Nat
  BY <1>3 DEF Brightnesses
<1> QED
  BY <1>2, <1>4 DEF Frames

\* An output that is lit while an Off target is due is on a fade.
LEMMA LitIsFading ==
  ASSUME NEW z, ~z.target.on, Effective(z).brightness # 0
  PROVE  Fading(z)
BY DEF Effective, FromState

\* What a fade to Off may do between two acknowledged frames.
LEMMA FadeOutStep ==
  ASSUME Inv, FadeInv, TrackInv, Acknowledged, NEW z, Goes(z), LandsOn(z),
         ~z.target.on, rt.applied.brightness \in Nat,
         rt'.applied.brightness > rt.applied.brightness
  PROVE  /\ rt.level_transition # None /\ rt.level_transition.then # None
         /\ rt.level_transition.age < rt.level_transition.ramp.duration
         /\ rt.level_transition.ramp.from < rt.level_transition.ramp.to
         /\ rt'.applied.brightness <= (rt.level_transition.ramp.from * 6) \div 5
<1> DEFINE l == z.level_transition
           k == rt.level_transition
           peak == (k.ramp.from * 6) \div 5
<1>1. rt'.applied = Effective(z)
  BY DEF LandsOn, Acknowledged
<1>2. Fading(z)
  <2>1. rt'.applied.brightness # 0
    BY SMT
  <2> QED
    BY <1>1, <2>1, LitIsFading
<1>3. /\ LevelContinues(l) /\ z.target.on = rt.target.on
      /\ Fading(rt) /\ l.age >= k.age
      /\ rt.applied.brightness = LevelValue(k)
      /\ rt'.applied.brightness = LevelValue(l)
  <2>1. rt'.applied.brightness # rt.applied.brightness
    BY SMT
  <2> QED
    BY <1>2, <2>1, FadingStep
<1>4. k # None /\ k \in LevelTracks /\ l \in LevelTracks
  BY <1>2, <1>3, StateFields DEF Fading, Goes, Inv, TypeOK
<1>5. LevelEnd(k) = 0 /\ ~rt.target.on
  BY <1>3, <1>4 DEF FadeInv, LeadsTo, FromState
<1>6. k.then # None => k.then.from = k.ramp.to /\ k.ramp.to <= peak
  BY <1>4, <1>5 DEF TrackInv, OffTracks, TracksFit
<1>7. l.ramp = k.ramp /\ l.then = k.then
  BY <1>3 DEF LevelContinues
<1>8. LevelValue(l) > LevelValue(k)
  BY <1>3
<1>9. peak \in Nat /\ k.ramp.from <= peak
  <2>1. k.ramp.from \in Nat
    BY <1>4, TrackParts
  <2> QED
    BY <2>1, SMT
<1> HIDE DEF l, k, peak
<1>10. /\ k.then # None /\ k.age < k.ramp.duration /\ k.ramp.from < k.ramp.to
       /\ LevelValue(l) <= peak
  BY <1>3, <1>4, <1>5, <1>6, <1>7, <1>8, <1>9, LevelFalls
<1> QED
  BY <1>3, <1>4, <1>10 DEF k, l, peak

\* Toward an Off target the output never brightens, save in the rising first
\* leg of a DyingLight effect, by a fifth at most.
THEOREM FadeOutFalls == Spec => FadeOutNeverBrightens
<1> DEFINE Falls ==
      Acknowledged /\ ~rt'.target.on /\ rt'.applied.brightness > rt.applied.brightness =>
        /\ rt.level_transition # None /\ rt.level_transition.then # None
        /\ rt.level_transition.age < rt.level_transition.ramp.duration
        /\ rt.level_transition.ramp.from < rt.level_transition.ramp.to
        /\ rt'.applied.brightness <= (rt.level_transition.ramp.from * 6) \div 5
<1>1. ASSUME Inv, FadeInv, TrackInv, [Next]_vars PROVE Falls
  <2>1. SUFFICES ASSUME Acknowledged, ~rt'.target.on,
                        rt'.applied.brightness > rt.applied.brightness
                 PROVE  Falls
    OBVIOUS
  <2>2. rt.applied.brightness \in Nat
    BY <1>1, <2>1, AcknowledgedBrightness
  <2>3. CASE Still
    <3>1. rt'.applied = rt.applied
      BY <2>1, <2>3 DEF Still, Acknowledged
    <3>2. ~(rt.applied.brightness > rt.applied.brightness)
      BY <2>2
    <3> QED
      BY <2>1, <3>1, <3>2
  <2>4. CASE Moves
    <3>1. PICK z : Goes(z) /\ LandsOn(z)
      BY <2>4 DEF Moves
    <3>2. ~z.target.on
      BY <2>1, <3>1 DEF LandsOn
    <3> QED
      BY <1>1, <2>1, <2>2, <3>1, <3>2, FadeOutStep
  <2> HIDE DEF Falls
  <2> QED
    BY <1>1, <2>3, <2>4, StepMoves
<1>2. Inv /\ FadeInv /\ TrackInv /\ [Next]_vars => [Falls]_vars
  BY <1>1
<1> QED
  BY <1>2, Invariant, FadeInvariant, TrackInvariant, PTL DEF Spec, FadeOutNeverBrightens

\* Toward an Off target a lit output keeps the colour it had, whatever colour
\* is remembered for the next On.
THEOREM FadeOutFreezesColour == Spec => FadeOutKeepsColour
<1> DEFINE Kept ==
      Acknowledged /\ ~rt'.target.on
        /\ rt.applied.brightness > 0 /\ rt'.applied.brightness > 0 =>
        rt'.applied.state.temperature = rt.applied.state.temperature
<1>1. ASSUME Inv, FadeInv, TrackInv, Acknowledged, NEW z, Goes(z), LandsOn(z),
             ~z.target.on, rt'.applied.brightness # 0
      PROVE  rt'.applied.state.temperature = rt.applied.state.temperature
  <2> DEFINE l == z.level_transition
             k == rt.level_transition
  <2>1. rt'.applied = Effective(z)
    BY <1>1 DEF LandsOn, Acknowledged
  <2>2. Fading(z) /\ l # None
    BY <1>1, <2>1, LitIsFading DEF Fading
  <2>3. l.off_temperature # None /\ z.temperature_transition = None
    BY <1>1, <2>2 DEF Goes, OffTracks, TracksFit
  <2>4. rt'.applied.state.temperature = l.off_temperature
    BY <2>1, <2>2, <2>3 DEF Effective, SettledTemperature
  <2>5. CASE LevelStarts(l)
    BY <2>3, <2>4, <2>5 DEF LevelStarts
  <2>6. CASE LevelContinues(l) /\ z.target.on = rt.target.on /\ Fading(rt)
    <3>1. k # None /\ k.off_temperature = l.off_temperature /\ ~rt.target.on
      BY <1>1, <2>6 DEF LevelContinues
    <3>2. rt.temperature_transition = None
      BY <1>1, <3>1 DEF TrackInv, OffTracks, TracksFit
    <3>3. rt.applied.state.temperature = Effective(rt).state.temperature
      BY <1>1, <2>3, <2>6, <3>1 DEF TrackInv, ShowsColour, Acknowledged
    <3>4. Effective(rt).state.temperature = k.off_temperature
      BY <2>3, <2>6, <3>1, <3>2 DEF Effective, SettledTemperature
    <3> QED
      BY <2>4, <3>1, <3>3, <3>4
  <2> QED
    BY <1>1, <2>2, <2>5, <2>6, FadingStep
<1>2. ASSUME Inv, FadeInv, TrackInv, [Next]_vars PROVE Kept
  <2>1. CASE Still
    <3>1. rt'.applied # None => rt'.applied = rt.applied
      BY <2>1 DEF Still
    <3> QED
      BY <3>1 DEF Acknowledged
  <2>2. CASE Moves
    <3>1. PICK z : Goes(z) /\ LandsOn(z)
      BY <2>2 DEF Moves
    <3>2. z.target = rt'.target
      BY <3>1 DEF LandsOn
    <3>3. rt'.applied.brightness > 0 => rt'.applied.brightness # 0
      BY SMT
    <3> QED
      BY <1>1, <1>2, <3>1, <3>2, <3>3
  <2> HIDE DEF Kept
  <2> QED
    BY <1>2, <2>1, <2>2, StepMoves
<1>3. Inv /\ FadeInv /\ TrackInv /\ [Next]_vars => [Kept]_vars
  BY <1>2
<1> QED
  BY <1>3, Invariant, FadeInvariant, TrackInvariant, PTL DEF Spec, FadeOutKeepsColour

\* The level stored for a brightness above the minimum lies within half a step.
LEMMA NearestLevel ==
  ASSUME NEW b \in Nat, b > Floor
  PROVE  /\ FromLevel(ToLevelClamped(b)) \in Nat
         /\ Distance(FromLevel(ToLevelClamped(b)), b) <= StepSize \div 2
<1> DEFINE half == StepSize \div 2
           d == b - Floor
           q == (d + half) \div StepSize
<1>1. Floor \in Nat /\ StepSize \in Nat \ {0}
  BY UnitsAssumption
<1>2. half \in Nat /\ 2 * half <= StepSize /\ StepSize < 2 * half + 2
  BY <1>1, SMT
<1>3. d \in Nat /\ d + half \in Nat
  <2> HIDE DEF half
  <2> QED
    BY <1>1, <1>2, SMT
<1>4. q \in Nat /\ StepSize * q <= d + half /\ d + half < StepSize * q + StepSize
  BY <1>1, <1>3, DivisionIsExact
<1>5. ToLevelClamped(b) = 1 + q
  BY <1>1, SMT DEF ToLevelClamped
<1>6. FromLevel(ToLevelClamped(b)) = Floor + StepSize * q
  <2> HIDE DEF q
  <2>1. (1 + q) - 1 = q
    BY <1>4, SMT
  <2> QED
    BY <1>5, <2>1 DEF FromLevel
<1> DEFINE p == StepSize * q
<1>7. p \in Nat
  <2> HIDE DEF q
  <2> QED
    BY <1>1, <1>4, SMT
<1> HIDE DEF p, q, half
<1>8. p <= d + half /\ d + half < p + StepSize
  BY <1>4 DEF p
<1>9. Distance(Floor + p, b) <= half
  BY <1>1, <1>2, <1>7, <1>8, SMT DEF Distance
<1> QED
  BY <1>1, <1>6, <1>7, <1>9, SMT DEF p, half

\* The setting that a stop stores for a brightness is as near as the scale allows.
LEMMA NearestSetting ==
  ASSUME NEW b \in Nat, NEW target,
         target.level = ToLevelClamped(b), target.on <=> b > Floor \div 2
  PROVE  Distance(FromState(target).brightness, b)
           <= (IF b >= Floor THEN StepSize ELSE Floor) \div 2
<1>1. Floor \in Nat \ {0} /\ StepSize \in Nat \ {0}
  BY UnitsAssumption
<1>2. FromState(target).brightness
        = IF b > Floor \div 2 THEN FromLevel(ToLevelClamped(b)) ELSE 0
  BY DEF FromState
<1>3. CASE b > Floor
  <2>1. b > Floor \div 2 /\ b >= Floor
    BY <1>1, <1>3, SMT
  <2> QED
    BY <1>2, <1>3, <2>1, NearestLevel
<1>4. CASE b <= Floor /\ b > Floor \div 2
  <2>1. ToLevelClamped(b) = 1
    BY <1>4 DEF ToLevelClamped
  <2>2. FromLevel(1) = Floor
    BY <1>1, SMT DEF FromLevel
  <2>3. FromState(target).brightness = Floor
    BY <1>2, <1>4, <2>1, <2>2
  <2>4. Distance(Floor, b) <= (IF b >= Floor THEN StepSize ELSE Floor) \div 2
    BY <1>1, <1>4, SMT DEF Distance
  <2> QED
    BY <2>3, <2>4
<1>5. CASE ~(b > Floor \div 2)
  <2>1. FromState(target).brightness = 0
    BY <1>2, <1>5
  <2>2. Distance(0, b) <= (IF b >= Floor THEN StepSize ELSE Floor) \div 2
    BY <1>1, <1>5, SMT DEF Distance
  <2> QED
    BY <2>1, <2>2
<1>6. b <= Floor \/ b > Floor
  BY <1>1, SMT
<1> QED
  BY <1>3, <1>4, <1>5, <1>6

\* A reconcile without a failure acknowledges what is due.
LEMMA ReconcileSucceeds ==
  ASSUME NEW s \in States, s.applied # None, Reconcile(s, {})
  PROVE  rt'.applied = Effective(s)
<1> DEFINE v == IF s.applied # Effective(s) THEN VerifyInterval ELSE s.verify_in
           y == [s EXCEPT !.applied = Effective(s), !.fault = "None", !.retry_in = 0,
                          !.verify_in = v]
<1>1. rt' = ClearFinished(y)
  <2>1. y = [s EXCEPT !.applied = Effective(s), !.fault = "None", !.retry_in = 0,
                      !.verify_in = v, !.revision = s.revision]
    BY DEF States
  <2> HIDE DEF y
  <2> QED
    BY <2>1 DEF Reconcile
<1>2. y \in States /\ y.applied = Effective(s)
  <2>1. v \in 0..VerifyInterval
    BY StateFields, ConstantTypes
  <2> HIDE DEF v
  <2> QED
    BY <2>1, EffectiveType, ConstantTypes DEF States, Faults
<1> HIDE DEF y
<1> QED
  BY <1>1, <1>2, ClearFinishedType

LEMMA CommitSucceeds ==
  ASSUME NEW s \in States, s.applied # None, NEW target \in LightStates,
         Commit(s, target, {})
  PROVE  rt'.applied = Effective([s EXCEPT !.target = target])
<1> DEFINE z == [s EXCEPT !.target = target]
           c == [s EXCEPT !.dirty = @ \/ s.target # target, !.target = target,
                          !.revision = Bump(@)]
<1>1. /\ Bump(s.revision) \in 0..(Revisions - 1)
      /\ (s.dirty \/ s.target # target) \in BOOLEAN
  BY StateFields, BumpType
<1>2. c \in States /\ SameTracks(z, c) /\ c.applied = s.applied
  BY <1>1 DEF States, SameTracks
<1>3. ~SaveFails(c, {})
  BY DEF SaveFails
<1>4. Reconcile(Clean(c), {})
  BY <1>3 DEF Commit
<1> HIDE DEF c, z
<1>5. /\ Clean(c) \in States /\ SameTracks(c, Clean(c)) /\ Clean(c).applied = c.applied
  BY <1>2 DEF Clean, States, SameTracks
<1>6. rt'.applied = Effective(Clean(c))
  BY <1>2, <1>4, <1>5, ReconcileSucceeds
<1>7. Effective(Clean(c)) = Effective(c) /\ Effective(c) = Effective(z)
  BY <1>2, <1>5, SameTracksSameFrame
<1> QED
  BY <1>6, <1>7 DEF z

\* Stopping a level fade moves the output by half a logical step at most, or
\* half the minimum below it.
THEOREM StopCorrects == Spec => StopCorrectionIsBounded
<1> DEFINE Bounded ==
      StopLevelTransition({}) =>
        Distance(rt'.applied.brightness, rt.applied.brightness)
          <= (IF rt.applied.brightness >= Floor THEN StepSize ELSE Floor) \div 2
<1>1. ASSUME Inv, StopLevelTransition({}) PROVE Bounded
  <2> DEFINE b == rt.applied.brightness
             stopped == rt.level_transition
             target == [level |-> ToLevelClamped(b), on |-> b > Floor \div 2,
                        temperature |-> IF stopped.off_temperature # None
                                        THEN stopped.off_temperature
                                        ELSE rt.target.temperature]
             s == [rt EXCEPT !.level_transition = None]
             z == [s EXCEPT !.target = target]
  <2>1. rt.applied # None /\ stopped # None /\ Commit(s, target, {})
    BY <1>1 DEF StopLevelTransition
  <2>2. rt \in States /\ rt.applied \in Frames /\ stopped \in LevelTracks
    BY <1>1, <2>1, StateFields DEF Inv, TypeOK
  <2>3. b \in Brightnesses
    BY <2>2 DEF Frames
  <2>4. b \in Nat
    <3>1. MaxBrightness \in Nat
      BY UnitsAssumption, SMT DEF MaxBrightness, FromLevel
    <3> QED
      BY <2>3, <3>1 DEF Brightnesses
  <2>5. target \in LightStates
    <3>1. target.temperature \in Temperatures
      BY <2>2, StateFields DEF LevelTracks, LightStates
    <3>2. ToLevelClamped(b) \in Levels /\ (b > Floor \div 2) \in BOOLEAN
      BY <2>3, ToLevelType
    <3> QED
      BY <3>1, <3>2 DEF LightStates
  <2>6. target.level = ToLevelClamped(b) /\ (target.on <=> b > Floor \div 2)
    OBVIOUS
  <2> HIDE DEF target
  <2>7. s \in States /\ s.applied # None
    BY <2>1, <2>2 DEF States
  <2>8. z.target = target /\ z.level_transition = None
    BY <2>2 DEF States
  <2>9. rt'.applied = Effective(z)
    BY <2>1, <2>5, <2>7, CommitSucceeds
  <2> HIDE DEF s, z
  <2>10. rt'.applied.brightness = FromState(target).brightness
    BY <2>8, <2>9 DEF Effective, Fading
  <2> HIDE DEF b
  <2>11. Distance(FromState(target).brightness, b)
           <= (IF b >= Floor THEN StepSize ELSE Floor) \div 2
    BY <2>4, <2>6, NearestSetting
  <2> QED
    BY <2>10, <2>11 DEF b
<1>2. Inv /\ [Next]_vars => [Bounded]_vars
  BY <1>1
<1> QED
  BY <1>2, Invariant, PTL DEF Spec, StopCorrectionIsBounded

-----------------------------------------------------------------------------
(* The revision that controllers watch.                                    *)

\* An operation counts a change once or twice, or leaves what is reported.
Counted ==
  \/ rt'.revision \in {Bump(rt.revision), Bump(Bump(rt.revision))}
  \/ Reported' = Reported

\* Nothing was or is reported.
LEMMA SilentIsCounted ==
  ASSUME rt.applied = None, rt'.applied = None
  PROVE  Counted
BY DEF Counted, Reported

\* What reconcile and the maintenance of s do to what is reported: they count
\* it as changed, or the frame stays acknowledged for the same target.
CountsFrom(s) ==
  \/ rt'.revision = Bump(s.revision)
  \/ /\ s.applied # None /\ rt'.applied # None
     /\ rt'.revision = s.revision /\ rt'.target = s.target /\ rt'.fault = "None"

LEMMA ReconcileCounts ==
  ASSUME NEW s \in States, NEW F, Reconcile(s, F)
  PROVE  CountsFrom(s)
<1> DEFINE unknown == s.applied = None
           z == IF unknown THEN FromZero(s) ELSE s
           frame == Effective(z)
           changed == z.applied # frame
           v == IF changed THEN VerifyInterval ELSE z.verify_in
           r == IF unknown THEN Bump(z.revision) ELSE z.revision
           y == [z EXCEPT !.applied = frame, !.fault = "None", !.retry_in = 0,
                   !.verify_in = IF changed THEN VerifyInterval ELSE @,
                   !.revision = IF unknown THEN Bump(@) ELSE @]
<1>1. z \in States /\ z.target = s.target /\ z.revision = s.revision
  BY FromZeroType
<1>2. frame \in Frames /\ frame # None
  BY <1>1, EffectiveType, NoneAssumption
<1>3. CASE FailOutput(s, F) \/ FailOutput(z, F)
  <2> HIDE DEF z
  <2> QED
    BY <1>1, <1>3, FailOutputStep DEF CountsFrom
<1>4. CASE rt' = ClearFinished(y)
  <2> HIDE DEF z, frame, changed
  <2>1. v \in 0..VerifyInterval /\ r \in 0..(Revisions - 1)
    BY <1>1, StateFields, BumpType, ConstantTypes
  <2>2. y = [z EXCEPT !.applied = frame, !.fault = "None", !.retry_in = 0,
                      !.verify_in = v, !.revision = r]
    OBVIOUS
  <2>3. unknown => r = Bump(s.revision)
    BY <1>1
  <2>4. ~unknown => r = s.revision
    BY <1>1
  <2> HIDE DEF v, r, y
  <2>5. /\ y \in States /\ y.applied = frame /\ y.fault = "None"
        /\ y.target = z.target /\ y.revision = r
    BY <1>1, <1>2, <2>1, <2>2, ConstantTypes DEF States, Faults
  <2>6. /\ rt'.applied # None /\ rt'.fault = "None"
        /\ rt'.target = s.target /\ rt'.revision = r
    BY <1>1, <1>2, <1>4, <2>5, ClearFinishedType
  <2> QED
    BY <2>3, <2>4, <2>6 DEF CountsFrom
<1> HIDE DEF z
<1> QED
  BY <1>3, <1>4 DEF Reconcile, z

LEMMA RecheckCounts ==
  ASSUME NEW s \in States, NEW F, Recheck(s, F), s.applied # None, s.fault = "None"
  PROVE  CountsFrom(s)
<1> DEFINE t == ClearFinished(s)
           u == [t EXCEPT !.verify_in = VerifyInterval]
<1>1. /\ t \in States /\ t.target = s.target /\ t.applied = s.applied
      /\ t.fault = s.fault /\ t.revision = s.revision
  BY ClearFinishedType
<1>2. rt' = t \/ rt' = u \/ FailOutput(u, F)
  BY DEF Recheck
<1> HIDE DEF t
<1>3. /\ u \in States /\ u.target = s.target /\ u.applied = s.applied
      /\ u.fault = s.fault /\ u.revision = s.revision
  BY <1>1, ConstantTypes DEF States
<1> HIDE DEF u
<1>4. CASE rt' = t \/ rt' = u
  BY <1>1, <1>3, <1>4 DEF CountsFrom
<1>5. CASE FailOutput(u, F)
  BY <1>3, <1>5, FailOutputStep DEF CountsFrom
<1> QED
  BY <1>2, <1>4, <1>5

LEMMA MaintainCounts ==
  ASSUME NEW s \in States, NEW F, Maintain(s, F), AcknowledgedIsSound(s)
  PROVE  CountsFrom(s)
<1> DEFINE c == Clean(s)
<1>1. /\ c \in States /\ c.target = s.target /\ c.applied = s.applied
      /\ c.fault = s.fault /\ c.revision = s.revision
  BY DEF Clean, States
<1> HIDE DEF c
<1>2. CASE FailSave(s, F)
  BY <1>2, FailSaveStep DEF CountsFrom
<1>3. CASE Reconcile(c, F)
  BY <1>1, <1>3, ReconcileCounts DEF CountsFrom
<1>4. CASE c.applied = Effective(c) /\ Recheck(c, F)
  <2>1. c.applied # None
    BY <1>1, <1>4, EffectiveType, NoneAssumption
  <2>2. c.fault = "None"
    BY <1>1, <2>1 DEF AcknowledgedIsSound
  <2>3. CountsFrom(c)
    BY <1>1, <1>4, <2>1, <2>2, RecheckCounts
  <2> QED
    BY <1>1, <2>3 DEF CountsFrom
<1> QED
  BY <1>2, <1>3, <1>4 DEF Maintain, c

LEMMA CommitCounts ==
  ASSUME NEW s \in States, NEW target \in LightStates, NEW F, Commit(s, target, F)
  PROVE  rt'.revision \in {Bump(s.revision), Bump(Bump(s.revision))}
<1> DEFINE c == [s EXCEPT !.dirty = @ \/ s.target # target, !.target = target,
                          !.revision = Bump(@)]
<1>1. c \in States /\ c.revision = Bump(s.revision)
  <2>1. /\ Bump(s.revision) \in 0..(Revisions - 1)
        /\ (s.dirty \/ s.target # target) \in BOOLEAN
    BY StateFields, BumpType
  <2> QED
    BY <2>1 DEF States
<1>2. FailSave(c, F) \/ Reconcile(Clean(c), F)
  BY DEF Commit
<1> HIDE DEF c
<1>3. Clean(c) \in States /\ Clean(c).revision = c.revision
  BY <1>1 DEF Clean, States
<1>4. CASE FailSave(c, F)
  BY <1>1, <1>4, FailSaveStep
<1>5. CASE Reconcile(Clean(c), F)
  BY <1>1, <1>3, <1>5, ReconcileCounts DEF CountsFrom
<1> QED
  BY <1>2, <1>4, <1>5

LEMMA OffCounts ==
  ASSUME Inv, NEW F, Off(F)
  PROVE  Counted
<1>1. rt \in States
  BY DEF Inv, TypeOK
<1>2. CASE rt.load_fault = "Storage" /\ IsOff(rt')
  BY <1>2, SilentIsCounted DEF IsOff, Inv, AcknowledgedIsSound
<1>3. ASSUME NEW c \in States, c.revision = rt.revision, FailSave(c, F)
      PROVE  Counted
  BY <1>3, FailSaveStep DEF Counted
<1>4. ASSUME NEW saved \in States, IsOff(saved), saved.revision = Bump(rt.revision),
             Reconcile(saved, F) \/ FailOutput(saved, F)
      PROVE  Counted
  <2>1. CASE FailOutput(saved, F)
    BY <1>4, <2>1, FailOutputStep DEF Counted
  <2>2. CASE Reconcile(saved, F)
    BY <1>4, <2>2, ReconcileCounts DEF CountsFrom, Counted, IsOff
  <2> QED
    BY <1>4, <2>1, <2>2
<1> QED
  BY <1>1, <1>2, <1>3, <1>4, OffLeaves

LEMMA TickCounts ==
  ASSUME Inv, NEW elapsed \in TickSteps, NEW F, Tick(elapsed, F)
  PROVE  Counted
<1> DEFINE s == Elapse(rt, elapsed)
           load_fault == LoadFault(flash, F)
<1>1. rt \in States /\ flash \in Records
  BY DEF Inv, TypeOK
<1>2. /\ s \in States /\ s.target = rt.target /\ s.load_fault = rt.load_fault
      /\ s.applied = rt.applied /\ s.fault = rt.fault /\ s.revision = rt.revision
      /\ s.dirty = rt.dirty /\ (rt.retry_in = 0 => s.retry_in = 0)
  BY <1>1, ElapseType, RuntimeAssumption
<1> HIDE DEF s
<1>3. AcknowledgedIsSound(s)
  BY <1>2 DEF Inv, AcknowledgedIsSound
<1>4. CASE rt' = s
  BY <1>2, <1>4 DEF Counted, Reported
<1>5. CASE /\ s.load_fault = "Storage"
           /\ rt' = [s EXCEPT !.load_fault = load_fault, !.fault = load_fault,
                              !.retry_in = RetryDelay]
  <2>1. s.applied = None
    BY <1>3, <1>5 DEF AcknowledgedIsSound
  <2> HIDE DEF load_fault
  <2>2. rt'.applied = None
    BY <1>2, <1>5, <2>1 DEF States
  <2> QED
    BY <1>2, <2>1, <2>2, SilentIsCounted
<1>6. CASE /\ s.load_fault = "Storage" /\ load_fault = "None"
           /\ Maintain(Reloaded(s), F)
  <2>1. flash # Malformed
    BY <1>6 DEF LoadFault
  <2>2. /\ Reloaded(s) \in States /\ Reloaded(s).applied = None
        /\ Reloaded(s).revision = Bump(rt.revision)
    BY <1>1, <1>2, <2>1, ReloadedType
  <2>3. AcknowledgedIsSound(Reloaded(s))
    BY <2>2 DEF AcknowledgedIsSound
  <2>4. CountsFrom(Reloaded(s))
    BY <1>6, <2>2, <2>3, MaintainCounts
  <2> QED
    BY <2>2, <2>4 DEF CountsFrom, Counted
<1>7. CASE Maintain(s, F)
  <2>1. CountsFrom(s)
    BY <1>2, <1>3, <1>7, MaintainCounts
  <2>2. CASE rt'.revision = Bump(s.revision)
    BY <1>2, <2>2 DEF Counted
  <2>3. CASE /\ s.applied # None /\ rt'.applied # None
             /\ rt'.target = s.target /\ rt'.fault = "None"
    BY <1>2, <1>3, <2>3 DEF Counted, Reported, AcknowledgedIsSound
  <2> QED
    BY <2>1, <2>2, <2>3 DEF CountsFrom
<1> QED
  BY <1>4, <1>5, <1>6, <1>7 DEF Tick, s

LEMMA StepCounts ==
  ASSUME Inv, [Next]_vars
  PROVE  Counted \/ Restarts
<1>1. rt \in States
  BY DEF Inv, TypeOK
<1>2. ASSUME NEW F, Command(F) PROVE Counted
  <2>1. PICK s : \E target \in LightStates : Retracked(s) /\ Commit(s, target, F)
    BY <1>1, <1>2, CommandCommits DEF Commits
  <2>2. PICK target \in LightStates : Retracked(s) /\ Commit(s, target, F)
    BY <2>1
  <2>3. s \in States /\ s.revision = rt.revision
    BY <2>2 DEF Retracked
  <2> QED
    BY <2>2, <2>3, CommitCounts DEF Counted
<1>3. ASSUME NEW F, Setting(F) PROVE Counted
  <2>1. PICK startup : SaveStartup(startup, F)
    BY <1>3 DEF Setting, SetStartup, SetStartupLevel, SetStartupTemperature
  <2>2. rt'.revision = Bump(rt.revision)
    BY <1>1, <2>1 DEF SaveStartup, States
  <2> QED
    BY <2>2 DEF Counted
<1>4. ASSUME NEW F, Local(F) PROVE Counted
  <2>1. CASE Off(F)
    BY <2>1, OffCounts
  <2>2. CASE Verify(F) \/ Registers(F)
    <3>1. FailOutput(rt, F)
      BY <2>2 DEF Verify, Registers
    <3> QED
      BY <1>1, <3>1, FailOutputStep DEF Counted
  <2>3. CASE PrepareReboot(F)
    <3>1. rt'.revision = Bump(rt.revision)
      BY <1>1, <2>3 DEF PrepareReboot, States
    <3> QED
      BY <3>1 DEF Counted
  <2> QED
    BY <1>4, <2>1, <2>2, <2>3 DEF Local
<1>5. ASSUME NEW F, NEW elapsed \in TickSteps, Tick(elapsed, F) PROVE Counted
  BY <1>5, TickCounts
<1>6. ASSUME NEW F \in FailureSets, Reset(F) PROVE Restarts
  BY <1>6 DEF Restarts
<1>7. CASE PcaReset \/ UNCHANGED vars
  BY <1>7 DEF PcaReset, vars, Counted, Reported
<1> HIDE DEF Counted, Restarts
<1> QED
  BY <1>2, <1>3, <1>4, <1>5, <1>6, <1>7 DEF Next, Failing

\* Two changes do not wrap the counter back to where it was.
LEMMA BumpsMove ==
  ASSUME Revisions > 2, NEW revision \in 0..(Revisions - 1)
  PROVE  Bump(revision) # revision /\ Bump(Bump(revision)) # revision
<1>1. Revisions \in Nat
  BY RuntimeAssumption
<1>2. ASSUME NEW n \in 0..(Revisions - 1)
      PROVE  Bump(n) = IF n = Revisions - 1 THEN 0 ELSE n + 1
  <2>1. CASE n = Revisions - 1
    BY <1>1, <2>1, SMT DEF Bump
  <2>2. CASE n # Revisions - 1
    BY <1>1, <2>2, SMT DEF Bump
  <2> QED
    BY <2>1, <2>2
<1>3. Bump(revision) \in 0..(Revisions - 1)
  BY BumpType
<1>4. Bump(Bump(revision))
        = IF Bump(revision) = Revisions - 1 THEN 0 ELSE Bump(revision) + 1
  BY <1>2, <1>3
<1>5. Bump(revision) = IF revision = Revisions - 1 THEN 0 ELSE revision + 1
  BY <1>2
<1> QED
  BY <1>1, <1>4, <1>5, SMT

\* No change of what controllers read goes uncounted: an operation counts at
\* most two, so a counter that wraps after three or more tells them all.
THEOREM ChangesAreCounted ==
  ASSUME Revisions > 2
  PROVE  Spec => ReportedChangesAreCounted
<1> DEFINE Tells == Reported' # Reported => rt'.revision # rt.revision \/ Restarts
<1>1. ASSUME Inv, [Next]_vars PROVE Tells
  <2>1. rt.revision \in 0..(Revisions - 1)
    BY <1>1, StateFields DEF Inv, TypeOK
  <2> HIDE DEF Restarts, Reported
  <2> QED
    BY <1>1, <2>1, StepCounts, BumpsMove DEF Counted
<1>2. Inv /\ [Next]_vars => [Tells]_vars
  BY <1>1
<1> QED
  BY <1>2, Invariant, PTL DEF Spec, ReportedChangesAreCounted
=============================================================================
