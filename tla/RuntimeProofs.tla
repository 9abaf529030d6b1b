---------------------------- MODULE RuntimeProofs ----------------------------
(***************************************************************************)
(* Proofs about Runtime, for every value of its constants: first about the *)
(* fade arithmetic of Transitions, then about the operations and their     *)
(* invariant.                                                              *)
(***************************************************************************)
EXTENDS Runtime, DivisionFacts

-----------------------------------------------------------------------------
(* The fade arithmetic.  A fade never leaves the interval between its end  *)
(* points, whatever its length, its curve and the clock: the expect()s of  *)
(* Runtime::effective ("bounded brightness ramp", "bounded temperature     *)
(* ramp") cannot fail.                                                     *)

\* The smooth curve stays below One: One^3 - x^2 (3 One - 2 x) is
\* (One - x)^2 (One + 2 x).
LEMMA SmoothBound ==
  ASSUME NEW x \in 0..One
  PROVE  /\ x * x * (3 * One - 2 * x) \in Nat
         /\ x * x * (3 * One - 2 * x) <= (One * One) * One
<1> USE OneAssumption
<1> DEFINE y == One - x
<1>1. x \in Nat /\ y \in Nat /\ One = x + y
  BY SMT
<1>2. x * x \in Nat /\ 3 * One - 2 * x \in Nat
  BY <1>1, SMT
<1>3. x * x * (3 * One - 2 * x) \in Nat
  BY <1>2, SMT
<1>4. (y * y) * (One + 2 * x) \in Nat
  <2>1. y * y \in Nat /\ One + 2 * x \in Nat
    BY <1>1, SMT
  <2> QED
    BY <2>1, SMT
<1>5. (One * One) * One = x * x * (3 * One - 2 * x) + (y * y) * (One + 2 * x)
  BY <1>1, SMT
<1> QED
  BY <1>3, <1>4, <1>5, SMT

\* A leg that has not ended has come a fraction of its way.
LEMMA FractionType ==
  ASSUME NEW leg, leg.duration \in Nat, NEW age \in Nat, age < leg.duration
  PROVE  Fraction(leg, age) \in 0..One
<1> USE OneAssumption
<1> DEFINE x == (age * One) \div leg.duration
<1>1. x \in 0..One
  <2>1. age * One \in Nat /\ age * One <= leg.duration * One
    BY SMT
  <2> QED
    BY <2>1, QuotientBound
<1>2. One * One \in Nat \ {0}
  BY SMT
<1>3. (x * x * (3 * One - 2 * x)) \div (One * One) \in 0..One
  <2> HIDE DEF x
  <2>1. /\ x * x * (3 * One - 2 * x) \in Nat
        /\ x * x * (3 * One - 2 * x) <= (One * One) * One
    BY <1>1, SmoothBound
  <2> QED
    BY <2>1, <1>2, QuotientBound
<1> QED
  BY <1>1, <1>3 DEF Fraction

\* A fraction of the way from one value to another lies between them.
LEMMA TowardType ==
  ASSUME NEW lo \in Int, NEW hi \in Int, NEW from \in lo..hi, NEW to \in lo..hi,
         NEW fraction \in 0..One
  PROVE  Toward(from, to, fraction) \in lo..hi
<1> USE OneAssumption
<1>1. CASE to >= from
  <2> DEFINE d == to - from
  <2>1. d \in Nat /\ d * fraction \in Nat /\ d * fraction <= One * d
    BY <1>1, SMT
  <2>2. (d * fraction) \div One \in 0..d
    BY <2>1, QuotientBound
  <2> QED
    BY <1>1, <2>2, SMT DEF Toward
<1>2. CASE ~(to >= from)
  <2> DEFINE d == from - to
  <2>1. d \in Nat /\ d * fraction \in Nat /\ d * fraction <= One * d
    BY <1>2, SMT
  <2>2. (d * fraction) \div One \in 0..d
    BY <2>1, QuotientBound
  <2> QED
    BY <1>2, <2>2, SMT DEF Toward
<1> QED
  BY <1>1, <1>2

\* Transition::value never overshoots the end points of its leg.
THEOREM ValueIsBounded ==
  ASSUME NEW lo \in Int, NEW hi \in Int, NEW leg \in Legs(lo..hi, Nat), NEW age \in Nat
  PROVE  Value(leg, age) \in lo..hi
<1>1. /\ leg.from \in lo..hi /\ leg.to \in lo..hi /\ leg.duration \in Nat
  BY DEF Legs
<1>2. CASE leg.duration = 0 \/ age >= leg.duration
  BY <1>1, <1>2 DEF Value
<1>3. CASE ~(leg.duration = 0 \/ age >= leg.duration)
  <2>1. Fraction(leg, age) \in 0..One
    BY <1>1, <1>3, FractionType
  <2>2. Toward(leg.from, leg.to, Fraction(leg, age)) \in lo..hi
    BY <1>1, <2>1, TowardType
  <2> QED
    BY <1>3, <2>2 DEF Value
<1> QED
  BY <1>2, <1>3

-----------------------------------------------------------------------------
(* A leg goes one way: it starts at its first end point and never turns.   *)

\* With y = x + h and One = y + k, the smooth curve grows from x to y by
\* 3 x h^2 + 6 x h k + h^3 + 3 h^2 k.
LEMMA SmoothGrows ==
  ASSUME NEW x \in 0..One, NEW y \in 0..One, x <= y
  PROVE  x * x * (3 * One - 2 * x) <= y * y * (3 * One - 2 * y)
<1> USE OneAssumption
<1> DEFINE h == y - x
           k == One - y
           more == 3 * (x * (h * h)) + 6 * (x * (h * k)) + h * (h * h) + 3 * ((h * h) * k)
<1>1. x \in Nat /\ h \in Nat /\ k \in Nat /\ y = x + h /\ One = x + h + k
  BY SMT
<1> HIDE DEF h, k
<1>2. more \in Nat
  <2>1. h * h \in Nat /\ h * k \in Nat
    BY <1>1, SMT
  <2>2. x * (h * h) \in Nat /\ x * (h * k) \in Nat /\ h * (h * h) \in Nat /\ (h * h) * k \in Nat
    BY <1>1, <2>1, SMT
  <2> QED
    BY <2>2, SMT
<1>3. x * x * (3 * One - 2 * x) = x * x * (x + 3 * h + 3 * k)
  BY <1>1, SMT
<1>4. y * y * (3 * One - 2 * y) = (x + h) * (x + h) * (x + h + 3 * k)
  BY <1>1, SMT
<1>5. (x + h) * (x + h) * (x + h + 3 * k) = x * x * (x + 3 * h + 3 * k) + more
  BY <1>1, SMT
<1>6. x * x * (x + 3 * h + 3 * k) \in Int
  BY <1>1, SMT
<1> HIDE DEF more
<1> QED
  BY <1>2, <1>3, <1>4, <1>5, <1>6, SMT

\* A leg never goes back.
LEMMA FractionGrows ==
  ASSUME NEW leg, leg.duration \in Nat, NEW age \in Nat, NEW later \in Nat,
         age <= later, later < leg.duration
  PROVE  Fraction(leg, age) <= Fraction(leg, later)
<1> USE OneAssumption
<1> DEFINE x == (age * One) \div leg.duration
           y == (later * One) \div leg.duration
<1>1. x \in 0..One /\ y \in 0..One
  <2>1. /\ age * One \in Nat /\ age * One <= leg.duration * One
        /\ later * One \in Nat /\ later * One <= leg.duration * One
    BY SMT
  <2> QED
    BY <2>1, QuotientBound
<1>2. x <= y
  <2>1. age * One \in Nat /\ later * One \in Nat /\ age * One <= later * One
    BY SMT
  <2>2. leg.duration \in Nat \ {0}
    BY SMT
  <2> QED
    BY <2>1, <2>2, QuotientGrows
<1>3. (x * x * (3 * One - 2 * x)) \div (One * One)
        <= (y * y * (3 * One - 2 * y)) \div (One * One)
  <2> HIDE DEF x, y
  <2>1. One * One \in Nat \ {0}
    BY SMT
  <2> QED
    BY <1>1, <1>2, <2>1, SmoothBound, SmoothGrows, QuotientGrows
<1> QED
  BY <1>2, <1>3 DEF Fraction

\* The further a falling leg has come, the lower it is.
LEMMA TowardFalls ==
  ASSUME NEW from \in Int, NEW to \in Int, to <= from,
         NEW f \in 0..One, NEW g \in 0..One, f <= g
  PROVE  Toward(from, to, g) <= Toward(from, to, f)
<1> USE OneAssumption
<1> DEFINE d == from - to
<1>1. d \in Nat /\ d * f \in Nat /\ d * g \in Nat /\ d * f <= d * g
  BY SMT
<1>2. (d * f) \div One <= (d * g) \div One
  BY <1>1, QuotientGrows
<1>3. (d * f) \div One \in Nat /\ (d * g) \div One \in Nat
  BY <1>1, DivisionIsExact
<1>4. CASE to < from
  BY <1>2, <1>3, <1>4, SMT DEF Toward
<1>5. CASE to = from
  <2>1. (to - from) * f = 0 /\ (to - from) * g = 0
    BY <1>5, SMT
  <2> QED
    BY <1>5, <2>1, SMT DEF Toward
<1> QED
  BY <1>4, <1>5, SMT

\* Transition::value of a falling leg never rises.
THEOREM ValueFalls ==
  ASSUME NEW leg \in Legs(Int, Nat), leg.to <= leg.from,
         NEW age \in Nat, NEW later \in Nat, age <= later
  PROVE  Value(leg, later) <= Value(leg, age)
<1>1. leg.from \in Int /\ leg.to \in Int /\ leg.duration \in Nat
  BY DEF Legs
<1>2. CASE leg.duration = 0 \/ later >= leg.duration
  <2>1. leg \in Legs(leg.to..leg.from, Nat)
    BY <1>1 DEF Legs
  <2>2. Value(leg, age) \in leg.to..leg.from
    BY <1>1, <2>1, ValueIsBounded
  <2>3. Value(leg, later) = leg.to
    BY <1>2 DEF Value
  <2> QED
    BY <1>1, <2>2, <2>3, SMT
<1>3. CASE ~(leg.duration = 0 \/ later >= leg.duration)
  <2>1. age < leg.duration /\ later < leg.duration /\ leg.duration # 0
    BY <1>1, <1>3, SMT
  <2>2. /\ Value(leg, age) = Toward(leg.from, leg.to, Fraction(leg, age))
        /\ Value(leg, later) = Toward(leg.from, leg.to, Fraction(leg, later))
    BY <1>1, <2>1, SMT DEF Value
  <2>3. /\ Fraction(leg, age) \in 0..One /\ Fraction(leg, later) \in 0..One
        /\ Fraction(leg, age) <= Fraction(leg, later)
    BY <1>1, <2>1, FractionType, FractionGrows
  <2> QED
    BY <1>1, <2>2, <2>3, TowardFalls
<1> QED
  BY <1>2, <1>3

\* Transition::value of a leg that takes time starts at its first end point.
THEOREM ValueStarts ==
  ASSUME NEW leg \in Legs(Int, Nat), leg.duration # 0
  PROVE  Value(leg, 0) = leg.from
<1> USE OneAssumption
<1>1. leg.from \in Int /\ leg.to \in Int /\ leg.duration \in Nat
  BY DEF Legs
<1>2. (0 * One) \div leg.duration = 0
  BY <1>1, SMT
<1>3. (0 * 0 * (3 * One - 2 * 0)) \div (One * One) = 0
  <2>1. One * One \in Nat \ {0} /\ 0 * 0 * (3 * One - 2 * 0) = 0
    BY SMT
  <2>2. One * One > 0
    BY <2>1, SMT
  <2> DEFINE n == One * One
  <2>3. 0 \div n = 0
    <3> HIDE DEF n
    <3> QED
      BY <2>1, <2>2, SMT DEF n
  <2> QED
    BY <2>1, <2>3
<1>4. Fraction(leg, 0) = 0
  BY <1>2, <1>3 DEF Fraction
<1>5. Toward(leg.from, leg.to, 0) = leg.from
  <2>1. (leg.to - leg.from) * 0 = 0 /\ (leg.from - leg.to) * 0 = 0
    BY <1>1, SMT
  <2> QED
    BY <1>1, <2>1, SMT DEF Toward
<1> QED
  BY <1>1, <1>4, <1>5, SMT DEF Value

-----------------------------------------------------------------------------
(* The types of the operators the actions are built from.                  *)

\* Every level lies on the physical scale, at or above the floor.
LEMMA FromLevelType ==
  ASSUME NEW level \in Levels
  PROVE  FromLevel(level) \in Brightnesses
<1> USE UnitsAssumption DEF Levels, Brightnesses, MaxBrightness, FromLevel
<1>1. level - 1 \in Nat /\ LevelMax - 1 \in Nat /\ level - 1 <= LevelMax - 1
  BY SMT
<1>2. /\ StepSize * (level - 1) \in Nat /\ StepSize * (LevelMax - 1) \in Nat
      /\ StepSize * (level - 1) <= StepSize * (LevelMax - 1)
  BY <1>1, SMT
<1> QED
  BY <1>2, SMT

\* The nearest level of a brightness exists.
LEMMA ToLevelType ==
  ASSUME NEW b \in Brightnesses
  PROVE  ToLevelClamped(b) \in Levels
<1> USE UnitsAssumption DEF Levels, Brightnesses, MaxBrightness, FromLevel
<1>1. CASE b <= Floor
  BY <1>1, SMT DEF ToLevelClamped
<1>2. CASE ~(b <= Floor)
  <2> DEFINE above == b - Floor + StepSize \div 2
             q == above \div StepSize
  <2>1. StepSize \div 2 \in Nat /\ StepSize \div 2 < StepSize
    BY SMT
  <2>2. StepSize * (LevelMax - 1) \in Nat
    BY SMT
  <2>3. above \in Nat /\ above < StepSize * (LevelMax - 1) + StepSize
    BY <1>2, <2>1, <2>2, SMT
  <2>4. q \in Nat /\ StepSize * q <= above
    BY <2>3, DivisionIsExact
  <2>5. StepSize * (LevelMax - 1) + StepSize = StepSize * LevelMax
    BY SMT
  <2>6. q < LevelMax
    <3>1. StepSize * q < StepSize * LevelMax
      BY <2>3, <2>4, <2>5, <2>2, SMT
    <3>2. SUFFICES ASSUME q >= LevelMax PROVE FALSE
      BY <2>4, SMT
    <3>3. StepSize * q >= StepSize * LevelMax
      BY <2>4, <3>2, SMT
    <3> QED
      BY <2>4, <3>1, <3>3, SMT
  <2>7. 1 + q \in 1..LevelMax
    BY <2>4, <2>6, SMT
  <2> QED
    BY <1>2, <2>7 DEF ToLevelClamped
<1> QED
  BY <1>1, <1>2

LEMMA FromStateType ==
  ASSUME NEW state \in LightStates
  PROVE  FromState(state) \in Frames
<1>1. FromLevel(state.level) \in Brightnesses /\ 0 \in Brightnesses
  BY FromLevelType, UnitsAssumption, SMT
     DEF LightStates, Brightnesses, MaxBrightness, FromLevel, Levels
<1> QED
  BY <1>1 DEF FromState, Frames

LEMMA LevelValueType ==
  ASSUME NEW track \in LevelTracks
  PROVE  LevelValue(track) \in Brightnesses
<1>1. /\ track.ramp \in Legs(Brightnesses, Nat) /\ track.age \in Nat
      /\ track.then # None => track.then \in Legs(Brightnesses, Nat)
  BY DEF LevelTracks
<1>2. track.ramp.duration \in Nat
  BY <1>1 DEF Legs
<1>3. MaxBrightness \in Int
  BY UnitsAssumption, SMT DEF MaxBrightness, FromLevel
<1>4. CASE track.then # None /\ track.age >= track.ramp.duration
  <2>1. track.age - track.ramp.duration \in Nat
    BY <1>1, <1>2, <1>4, SMT
  <2> QED
    BY <1>1, <1>3, <1>4, <2>1, ValueIsBounded DEF LevelValue, Brightnesses
<1>5. CASE ~(track.then # None /\ track.age >= track.ramp.duration)
  BY <1>1, <1>3, <1>5, ValueIsBounded DEF LevelValue, Brightnesses
<1> QED
  BY <1>4, <1>5

LEMMA EffectiveType ==
  ASSUME NEW s \in States
  PROVE  Effective(s) \in Frames
<1>1. /\ s.target \in LightStates
      /\ s.level_transition # None => s.level_transition \in LevelTracks
      /\ s.temperature_transition # None =>
           s.temperature_transition \in TemperatureTracks
  BY DEF States
<1> DEFINE brightness == IF Fading(s) THEN LevelValue(s.level_transition)
                         ELSE FromState(s.target).brightness
<1>2. brightness \in Brightnesses
  BY <1>1, LevelValueType, FromStateType DEF Fading, Frames
<1>3. SettledTemperature(s) \in Temperatures
  BY <1>1 DEF SettledTemperature, Fading, LevelTracks, LightStates
<1>4. s.temperature_transition # None =>
        TemperatureValue(s.temperature_transition) \in Temperatures
  <2>1. SUFFICES ASSUME s.temperature_transition # None
                 PROVE  TemperatureValue(s.temperature_transition) \in Temperatures
    OBVIOUS
  <2>2. /\ s.temperature_transition.ramp \in Legs(Temperatures, Nat)
        /\ s.temperature_transition.age \in Nat
    BY <1>1, <2>1 DEF TemperatureTracks
  <2>3. TempMin \in Int /\ TempMax \in Int
    BY UnitsAssumption
  <2> QED
    BY <2>2, <2>3, ValueIsBounded DEF TemperatureValue, Temperatures
<1>5. ToLevelClamped(brightness) \in Levels
  BY <1>2, ToLevelType
<1> HIDE DEF brightness
<1> QED
  BY <1>1, <1>2, <1>3, <1>4, <1>5 DEF Effective, Frames, LightStates, brightness

LEMMA DecodeType ==
  ASSUME NEW record \in Records
  PROVE  /\ Decode(record).intended \in LightStates
         /\ Decode(record).startup \in Startups
         /\ Decode(record).migrated \in BOOLEAN
<1>1. DefaultState \in LightStates /\ DefaultStartup \in Startups
  BY UnitsAssumption DEF DefaultState, LightStates, DefaultStartup, Startups
<1>2. CASE record.kind = "v3"
  BY <1>2 DEF Records, Decode, OffPolicy, NoRecord, Malformed, Startups
<1>3. CASE record.kind = "v2"
  <2>1. record.on \in BOOLEAN /\ record.preset \in {1, 2}
    BY <1>3 DEF Records, NoRecord, Malformed
  <2>2. PresetTemperature[record.preset] \in Temperatures
    BY <2>1, RuntimeAssumption
  <2> QED
    BY <1>1, <1>3, <2>1, <2>2 DEF Decode, OffPolicy, DefaultState, LightStates, DefaultStartup, Startups
<1>4. CASE record.kind # "v3" /\ record.kind # "v2"
  BY <1>1, <1>4 DEF Decode
<1> QED
  BY <1>2, <1>3, <1>4

LEMMA StartupIntentType ==
  ASSUME NEW restored \in LightStates, NEW startup \in Startups
  PROVE  StartupIntent(restored, startup) \in LightStates
BY UnitsAssumption, SMT DEF StartupIntent, LightStates, Startups, AtLeastOne, Levels

LEMMA DarkType ==
  ASSUME NEW F, NEW call
  PROVE  Dark(F, call) \in {0, None} /\ 0 \in Brightnesses
BY UnitsAssumption, SMT DEF Dark, Brightnesses, MaxBrightness, FromLevel

LEMMA BumpType ==
  ASSUME NEW revision \in 0..(Revisions - 1)
  PROVE  Bump(revision) \in 0..(Revisions - 1)
BY RuntimeAssumption, SMT DEF Bump

-----------------------------------------------------------------------------
(* The inductive invariant.  That an acknowledged frame is durable is not  *)
(* inductive: what makes it so is that a clean state has its record on     *)
(* flash, acknowledged or not.                                             *)

HoldsRecord(s, record) ==
  record # Malformed /\
  Decode(record) = [intended |-> s.target, startup |-> s.startup, migrated |-> FALSE]

CleanIsSaved(s, record) ==
  ~s.dirty /\ s.load_fault = "None" => HoldsRecord(s, record)

AcknowledgedIsSound(s) ==
  s.applied # None =>
    s.fault = "None" /\ s.load_fault = "None" /\ ~s.dirty /\ s.retry_in = 0

Inv ==
  /\ TypeOK
  /\ CleanIsSaved(rt, flash)
  /\ AcknowledgedIsSound(rt)
  /\ LampFollows

LEMMA LoadedInv ==
  ASSUME NEW record \in Records, NEW F
  PROVE  /\ Loaded(record, F) \in States
         /\ Loaded(record, F).applied = None
         /\ CleanIsSaved(Loaded(record, F), record)
<1> DEFINE load_fault == LoadFault(record, F)
           saved == Decode(IF load_fault = "None" THEN record ELSE NoRecord)
           target == StartupIntent(saved.intended, saved.startup)
           s == Loaded(record, F)
<1>1. load_fault \in {"None", "Storage", "InvalidRecord"}
  BY DEF LoadFault
<1>2. /\ saved.intended \in LightStates /\ saved.startup \in Startups
      /\ saved.migrated \in BOOLEAN
  BY DecodeType DEF Records
<1>3. target \in LightStates
  BY <1>2, StartupIntentType
<1>4. 0 \in 0..VerifyInterval /\ 0 \in 0..RetryDelay /\ RetryDelay \in 0..RetryDelay
      /\ 0 \in 0..(Revisions - 1)
  BY RuntimeAssumption, SMT
<1>5. s \in States /\ s.applied = None
  <2> HIDE DEF load_fault, saved, target
  <2>1. s = [target |-> target, applied |-> None,
             level_transition |-> None, temperature_transition |-> None,
             fault |-> IF load_fault # "None" THEN load_fault
                       ELSE IF "stop" \in F THEN "Output" ELSE "None",
             dirty |-> saved.migrated \/ target # saved.intended,
             startup |-> saved.startup,
             load_fault |-> load_fault, off_after_load |-> FALSE,
             verify_in |-> 0,
             retry_in |-> IF "stop" \in F \/ load_fault = "Storage"
                          THEN RetryDelay ELSE 0,
             revision |-> 0]
    BY DEF Loaded, load_fault, saved, target
  <2> QED
    BY <1>1, <1>2, <1>3, <1>4, <2>1 DEF States, Faults
<1>6. CleanIsSaved(s, record)
  <2>1. SUFFICES ASSUME ~s.dirty, s.load_fault = "None"
                 PROVE  HoldsRecord(s, record)
    BY DEF CleanIsSaved
  <2>2. load_fault = "None" /\ saved = Decode(record)
    BY <2>1 DEF Loaded
  <2>3. record # Malformed
    BY <2>2 DEF LoadFault
  <2>4. saved.migrated = FALSE /\ target = saved.intended
    BY <2>1, <1>2 DEF Loaded
  <2>5. s.target = saved.intended /\ s.startup = saved.startup
    BY <2>4 DEF Loaded
  <2>6. saved = [intended |-> saved.intended, startup |-> saved.startup,
                 migrated |-> saved.migrated]
    BY <2>2 DEF Decode
  <2> QED
    BY <2>2, <2>3, <2>4, <2>5, <2>6 DEF HoldsRecord
<1> QED
  BY <1>5, <1>6

\* The record written for a state is the record of that state.
LEMMA WrittenRecord ==
  ASSUME NEW target \in LightStates, NEW startup \in Startups
  PROVE  /\ Version3(target, startup) \in Records
         /\ Version3(target, startup) # Malformed
         /\ Decode(Version3(target, startup))
              = [intended |-> target, startup |-> startup, migrated |-> FALSE]
<1>1. startup.power \in {0, 1} /\ startup = [startup EXCEPT !.power = startup.power]
  BY DEF Startups
<1>2. Version3(target, startup) \in Records
  BY SMT DEF Version3, Records, Startups
<1>3. Version3(target, startup) # Malformed
  BY DEF Version3, Malformed
<1>4. Decode(Version3(target, startup))
        = [intended |-> target,
           startup |-> [startup EXCEPT !.power = OffPolicy(@)],
           migrated |-> startup.power > 1]
  BY DEF Decode, Version3
<1>5. [startup EXCEPT !.power = OffPolicy(@)] = startup
  BY <1>1, SMT DEF OffPolicy
<1>6. (startup.power > 1) = FALSE
  BY <1>1, SMT
<1> QED
  BY <1>2, <1>3, <1>4, <1>5, <1>6

-----------------------------------------------------------------------------
(* The pieces of the operations keep the types.                            *)

\* The fields of a state, for the provers.
LEMMA StateFields ==
  ASSUME NEW s \in States
  PROVE  /\ s.target \in LightStates
         /\ s.applied \in Frames \cup {None}
         /\ s.level_transition \in LevelTracks \cup {None}
         /\ s.temperature_transition \in TemperatureTracks \cup {None}
         /\ s.fault \in Faults
         /\ s.dirty \in BOOLEAN
         /\ s.startup \in Startups
         /\ s.load_fault \in {"None", "Storage", "InvalidRecord"}
         /\ s.off_after_load \in BOOLEAN
         /\ s.verify_in \in 0..VerifyInterval
         /\ s.retry_in \in 0..RetryDelay
         /\ s.revision \in 0..(Revisions - 1)
BY DEF States

LEMMA ConstantTypes ==
  /\ RetryDelay \in 0..RetryDelay /\ 0 \in 0..RetryDelay
  /\ VerifyInterval \in 0..VerifyInterval /\ 0 \in 0..VerifyInterval
  /\ DefaultTransition \in Nat /\ DefaultTransition > 0
  /\ 0 \in Nat /\ 0 \in Brightnesses
BY RuntimeAssumption, UnitsAssumption, SMT DEF Brightnesses, MaxBrightness, FromLevel

\* A level fade between two brightnesses is a track.
LEMMA LevelTrackType ==
  ASSUME NEW from \in Brightnesses, NEW to \in Brightnesses, NEW duration \in Nat,
         NEW curve \in Curves, NEW then \in Legs(Brightnesses, Nat) \cup {None},
         NEW off_temperature \in Temperatures \cup {None}
  PROVE  LevelTrack(Leg(from, to, duration, curve), then, off_temperature) \in LevelTracks
<1>1. Leg(from, to, duration, curve) \in Legs(Brightnesses, Nat)
  BY DEF Leg, Legs
<1> QED
  BY <1>1 DEF LevelTrack, LevelTracks

LEMMA FromZeroType ==
  ASSUME NEW s \in States
  PROVE  /\ FromZero(s) \in States
         /\ \A f \in {"target", "startup", "dirty", "load_fault", "applied", "revision"} :
              FromZero(s)[f] = s[f]
<1>1. s.target.on =>
        LevelTrack(Leg(0, FromLevel(s.target.level), DefaultTransition, "Smooth"), None, None)
          \in LevelTracks
  BY ConstantTypes, StateFields, FromLevelType, LevelTrackType DEF LightStates, Curves
<1> DEFINE l == IF s.target.on
                THEN LevelTrack(Leg(0, FromLevel(s.target.level), DefaultTransition, "Smooth"),
                                None, None)
                ELSE None
<1>2. l \in LevelTracks \cup {None}
  BY <1>1
<1>3. FromZero(s) = [s EXCEPT !.level_transition = l, !.temperature_transition = None]
  BY DEF FromZero
<1> HIDE DEF l
<1>4. FromZero(s) \in States
  BY <1>2, <1>3 DEF States
<1> QED
  BY <1>3, <1>4 DEF States

\* A finished track is dropped, nothing else changes.
LEMMA ClearFinishedType ==
  ASSUME NEW s \in States
  PROVE  /\ ClearFinished(s) \in States
         /\ \A f \in {"target", "startup", "dirty", "load_fault", "applied",
                      "fault", "retry_in", "revision"} :
              ClearFinished(s)[f] = s[f]
<1> DEFINE l == IF s.level_transition # None /\ LevelRemaining(s.level_transition) = 0
                THEN None ELSE s.level_transition
           t == IF /\ s.temperature_transition # None
                   /\ TemperatureRemaining(s.temperature_transition) = 0
                THEN None ELSE s.temperature_transition
<1>1. l \in LevelTracks \cup {None} /\ t \in TemperatureTracks \cup {None}
  BY StateFields
<1>2. ClearFinished(s) = [s EXCEPT !.level_transition = l, !.temperature_transition = t]
  BY DEF ClearFinished
<1> HIDE DEF l, t
<1>3. ClearFinished(s) \in States
  BY <1>1, <1>2 DEF States
<1> QED
  BY <1>2, <1>3 DEF States

\* A failed output leaves a fault, no acknowledgement and a dark or unknown PCA.
LEMMA FailOutputStep ==
  ASSUME NEW s \in States, NEW F, FailOutput(s, F)
  PROVE  /\ rt' \in States
         /\ rt'.applied = None /\ rt'.revision = Bump(s.revision)
         /\ rt'.target = s.target /\ rt'.startup = s.startup
         /\ rt'.dirty = s.dirty /\ rt'.load_fault = s.load_fault
         /\ lamp' \in {0, None}
<1>1. rt' = [s EXCEPT !.applied = None, !.fault = "Output",
                      !.retry_in = RetryDelay, !.revision = Bump(s.revision)]
  BY DEF FailOutput, OutputFailed
<1>2. Bump(s.revision) \in 0..(Revisions - 1)
  BY StateFields, BumpType
<1>3. lamp' \in {0, None}
  BY DarkType DEF FailOutput
<1> QED
  BY <1>1, <1>2, <1>3, StateFields, ConstantTypes DEF States, Faults

\* So does a failed save.
LEMMA FailSaveStep ==
  ASSUME NEW s \in States, NEW F, FailSave(s, F)
  PROVE  /\ rt' \in States
         /\ rt'.applied = None /\ rt'.revision = Bump(s.revision)
         /\ rt'.target = s.target /\ rt'.startup = s.startup
         /\ rt'.dirty = s.dirty /\ rt'.load_fault = s.load_fault
         /\ lamp' \in {0, None} /\ flash' = flash
<1>1. rt' = [s EXCEPT !.fault = "Storage", !.applied = None,
                      !.retry_in = RetryDelay, !.revision = Bump(s.revision)]
  BY DEF FailSave
<1>2. Bump(s.revision) \in 0..(Revisions - 1)
  BY StateFields, BumpType
<1>3. lamp' \in {0, None} /\ flash' = flash
  BY DarkType DEF FailSave
<1> QED
  BY <1>1, <1>2, <1>3, StateFields, ConstantTypes DEF States, Faults

\* The first frame of an output recovered from an unknown one is dark: the fade
\* it begins is at age 0 of a leg from 0, or there is none and the target is Off.
LEMMA FromZeroIsDark ==
  ASSUME NEW s \in States
  PROVE  Effective(FromZero(s)).brightness = 0
<1> DEFINE z == FromZero(s)
           leg == Leg(0, FromLevel(s.target.level), DefaultTransition, "Smooth")
<1>1. z.target = s.target /\ z.level_transition
        = IF s.target.on THEN LevelTrack(leg, None, None) ELSE None
  BY DEF FromZero, States
<1>2. CASE s.target.on
  <2>1. z.level_transition = LevelTrack(leg, None, None)
    BY <1>1, <1>2
  <2>2. LevelTrack(leg, None, None) # None
    BY NoneAssumption, ConstantTypes, StateFields, FromLevelType, LevelTrackType, <1>2
       DEF LightStates, Curves
  <2>3. LevelRemaining(z.level_transition) = DefaultTransition
    BY <2>1, ConstantTypes, SMT DEF LevelRemaining, LevelLength, LevelTrack, Leg
  <2>4. Fading(z)
    BY <2>1, <2>2, <2>3, ConstantTypes, SMT DEF Fading
  <2>5. Fraction(leg, 0) = 0
    BY ConstantTypes, OneAssumption, SMT DEF Fraction, Leg
  <2>6. FromLevel(s.target.level) \in Nat
    BY StateFields, FromLevelType DEF LightStates, Brightnesses
  <2>7. Toward(0, FromLevel(s.target.level), 0) = 0
    BY <2>6, OneAssumption, SMT DEF Toward
  <2>8. LevelValue(z.level_transition) = Value(leg, 0)
    BY <2>1 DEF LevelValue, LevelTrack
  <2>9. Value(leg, 0) = Toward(0, FromLevel(s.target.level), Fraction(leg, 0))
    BY ConstantTypes, SMT DEF Value, Leg
  <2>10. LevelValue(z.level_transition) = 0
    BY <2>5, <2>7, <2>8, <2>9
  <2> HIDE DEF z
  <2>11. Effective(z).brightness = 0
    BY <2>4, <2>10 DEF Effective
  <2> QED
    BY <2>11 DEF z
<1>3. CASE ~s.target.on
  <2>1. ~Fading(z) /\ ~z.target.on
    BY <1>1, <1>3 DEF Fading
  <2> HIDE DEF z
  <2>2. Effective(z).brightness = 0
    BY <2>1 DEF Effective, FromState
  <2> QED
    BY <2>2 DEF z
<1> QED
  BY <1>2, <1>3

-----------------------------------------------------------------------------
(* What an operation establishes.  Outcome is Inv in the next state, with  *)
(* a first frame that is dark if none was acknowledged before.             *)

Outcome(acknowledged) ==
  /\ rt' \in States /\ flash' \in Records /\ lamp' \in Brightnesses \cup {None}
  /\ CleanIsSaved(rt', flash')
  /\ AcknowledgedIsSound(rt')
  /\ LampFollows'
  /\ ~acknowledged /\ rt'.applied # None => rt'.applied.brightness = 0

\* A PCA that can only hold the acknowledged frame.
LampHolds(s) == s.applied # None => lamp \in {None, s.applied.brightness}

\* Reconcile on a clean, loaded state: it either acknowledges what it showed,
\* or ends with a fault and nothing acknowledged.
LEMMA ReconcileStep ==
  ASSUME NEW s \in States, NEW F, Reconcile(s, F),
         ~s.dirty, s.load_fault = "None", HoldsRecord(s, flash'),
         flash' \in Records, lamp \in Brightnesses \cup {None}, LampHolds(s)
  PROVE  Outcome(s.applied # None)
<1> DEFINE unknown == s.applied = None
           z == IF unknown THEN FromZero(s) ELSE s
           frame == Effective(z)
           changed == z.applied # frame
           y == [z EXCEPT !.applied = frame, !.fault = "None", !.retry_in = 0,
                   !.verify_in = IF changed THEN VerifyInterval ELSE @,
                   !.revision = IF unknown THEN Bump(@) ELSE @]
<1>1. /\ z \in States /\ ~z.dirty /\ z.load_fault = "None"
      /\ z.target = s.target /\ z.startup = s.startup
      /\ z.applied = s.applied /\ z.revision = s.revision
  BY FromZeroType DEF States
<1>2. frame \in Frames /\ frame # None
  BY <1>1, EffectiveType, NoneAssumption
<1>3. \A t \in {s, z} : FailOutput(t, F) => Outcome(s.applied # None)
  <2>1. SUFFICES ASSUME NEW t \in {s, z}, FailOutput(t, F)
                 PROVE  Outcome(s.applied # None)
    OBVIOUS
  <2>2. t \in States /\ t.target = s.target /\ t.startup = s.startup
    BY <1>1
  <2>3. /\ rt' \in States /\ rt'.applied = None
        /\ rt'.target = s.target /\ rt'.startup = s.startup
        /\ lamp' \in {0, None}
    BY <2>1, <2>2, FailOutputStep
  <2>4. HoldsRecord(rt', flash')
    BY <2>3 DEF HoldsRecord
  <2> QED
    BY <2>3, <2>4, ConstantTypes
       DEF Outcome, CleanIsSaved, AcknowledgedIsSound, LampFollows
<1>4. ASSUME rt' = ClearFinished(y),
             lamp' = IF changed THEN frame.brightness ELSE lamp
      PROVE  Outcome(s.applied # None)
  <2>1. Bump(s.revision) \in 0..(Revisions - 1)
    BY StateFields, BumpType
  <2>2. y \in States /\ y.applied = frame /\ y.fault = "None" /\ y.retry_in = 0
        /\ ~y.dirty /\ y.load_fault = "None"
        /\ y.target = s.target /\ y.startup = s.startup
    <3> DEFINE v == IF changed THEN VerifyInterval ELSE z.verify_in
               r == IF unknown THEN Bump(z.revision) ELSE z.revision
    <3> HIDE DEF z, frame, changed
    <3>1. v \in 0..VerifyInterval /\ r \in 0..(Revisions - 1)
      BY <1>1, <2>1, StateFields, ConstantTypes
    <3>2. y = [z EXCEPT !.applied = frame, !.fault = "None", !.retry_in = 0,
                        !.verify_in = v, !.revision = r]
      OBVIOUS
    <3> HIDE DEF v, r, y
    <3> QED
      BY <1>1, <1>2, <3>1, <3>2, ConstantTypes DEF States, Faults
  <2>3. /\ rt' \in States /\ rt'.applied = frame /\ rt'.fault = "None"
        /\ rt'.retry_in = 0 /\ ~rt'.dirty /\ rt'.load_fault = "None"
        /\ rt'.target = s.target /\ rt'.startup = s.startup
    <3> HIDE DEF y
    <3> QED
      BY <1>4, <2>2, ClearFinishedType
  <2>4. HoldsRecord(rt', flash')
    BY <2>3 DEF HoldsRecord
  <2>5. lamp' \in {None, frame.brightness} /\ lamp' \in Brightnesses \cup {None}
    <3>1. frame.brightness \in Brightnesses
      BY <1>2 DEF Frames
    <3>2. CASE changed
      BY <1>4, <3>1, <3>2
    <3>3. CASE ~changed
      BY <1>1, <1>2, <1>4, <3>3 DEF LampHolds
    <3> QED
      BY <3>2, <3>3
  <2>6. s.applied = None => frame.brightness = 0
    BY FromZeroIsDark
  <2> QED
    BY <1>2, <2>3, <2>4, <2>5, <2>6
       DEF Outcome, CleanIsSaved, AcknowledgedIsSound, LampFollows
<1>5. \/ FailOutput(s, F) \/ FailOutput(z, F)
      \/ /\ rt' = ClearFinished(y)
         /\ lamp' = IF changed THEN frame.brightness ELSE lamp
  BY DEF Reconcile
<1> QED
  BY <1>3, <1>4, <1>5

\* A failed save: nothing is acknowledged and the record is still to be written.
LEMMA FailedSaveStep ==
  ASSUME NEW s \in States, NEW F, SaveFails(s, F), FailSave(s, F),
         flash \in Records, NEW acknowledged
  PROVE  Outcome(acknowledged)
<1>1. s.dirty
  BY DEF SaveFails
<1>2. /\ rt' \in States /\ rt'.applied = None /\ rt'.dirty
      /\ lamp' \in {0, None} /\ flash' = flash
  BY <1>1, FailSaveStep
<1> QED
  BY <1>2, ConstantTypes DEF Outcome, CleanIsSaved, AcknowledgedIsSound, LampFollows

\* A save that succeeds, or has nothing to do: flash holds the intent.
LEMMA SavedStep ==
  ASSUME NEW s \in States, SaveIntent(s), flash \in Records,
         ~s.dirty => HoldsRecord(s, flash)
  PROVE  /\ flash' \in Records
         /\ HoldsRecord(s, flash')
         /\ Clean(s) \in States /\ ~Clean(s).dirty
         /\ \A f \in {"target", "startup", "load_fault", "applied", "fault", "retry_in",
                      "revision"} :
              Clean(s)[f] = s[f]
<1>1. flash' = IF s.dirty THEN Version3(s.target, s.startup) ELSE flash
  BY DEF SaveIntent
<1>2. flash' \in Records /\ HoldsRecord(s, flash')
  <2>1. CASE s.dirty
    BY <1>1, <2>1, StateFields, WrittenRecord DEF HoldsRecord
  <2>2. CASE ~s.dirty
    BY <1>1, <2>2
  <2> QED
    BY <2>1, <2>2
<1>3. Clean(s) \in States
  BY DEF Clean, States
<1> QED
  BY <1>2, <1>3 DEF Clean, States

\* The state in which a command commits: its tracks are new, nothing else is.
Retracked(s) ==
  /\ s \in States
  /\ s.target = rt.target /\ s.startup = rt.startup /\ s.applied = rt.applied
  /\ s.dirty = rt.dirty /\ s.load_fault = rt.load_fault
  /\ s.revision = rt.revision

\* What every command does: it commits a target, with new tracks or the old.
Commits(F) ==
  /\ rt.load_fault = "None"
  /\ \E s : \E target \in LightStates : Retracked(s) /\ Commit(s, target, F)

LEMMA CommitStep ==
  ASSUME Inv, rt.load_fault = "None", NEW s, Retracked(s),
         NEW target \in LightStates, NEW F, Commit(s, target, F)
  PROVE  Outcome(rt.applied # None)
<1> DEFINE c == [s EXCEPT !.dirty = @ \/ s.target # target, !.target = target,
                          !.revision = Bump(@)]
<1>1. s \in States /\ flash \in Records
  BY DEF Inv, TypeOK, Retracked
<1>2. /\ c \in States /\ c.target = target /\ c.startup = s.startup
      /\ c.applied = s.applied /\ c.load_fault = s.load_fault
      /\ c.dirty = (s.dirty \/ s.target # target)
  <2>1. Bump(s.revision) \in 0..(Revisions - 1)
    BY <1>1, StateFields, BumpType
  <2>2. (s.dirty \/ s.target # target) \in BOOLEAN
    OBVIOUS
  <2> QED
    BY <1>1, <2>1, <2>2 DEF States
<1>3. ~c.dirty => HoldsRecord(c, flash)
  <2>1. SUFFICES ASSUME ~c.dirty PROVE HoldsRecord(c, flash)
    OBVIOUS
  <2>2. ~s.dirty /\ s.target = target
    BY <1>2, <2>1
  <2>3. HoldsRecord(rt, flash)
    BY <2>2 DEF Inv, CleanIsSaved, Retracked
  <2> QED
    BY <1>2, <2>2, <2>3 DEF HoldsRecord, Retracked
<1>4. CASE SaveFails(c, F) /\ FailSave(c, F)
  <2> HIDE DEF c
  <2> QED
    BY <1>1, <1>2, <1>4, FailedSaveStep
<1>5. CASE SaveIntent(c) /\ Reconcile(Clean(c), F)
  <2> HIDE DEF c
  <2>1. /\ flash' \in Records /\ HoldsRecord(c, flash')
        /\ Clean(c) \in States /\ ~Clean(c).dirty
        /\ Clean(c).target = c.target /\ Clean(c).startup = c.startup
        /\ Clean(c).load_fault = c.load_fault /\ Clean(c).applied = c.applied
    BY <1>1, <1>2, <1>3, <1>5, SavedStep
  <2>2. HoldsRecord(Clean(c), flash')
    BY <2>1 DEF HoldsRecord
  <2>3. LampHolds(Clean(c)) /\ lamp \in Brightnesses \cup {None}
    BY <1>2, <2>1 DEF Inv, TypeOK, LampFollows, LampHolds, Retracked
  <2>4. Outcome(Clean(c).applied # None)
    BY <1>2, <1>5, <2>1, <2>2, <2>3, ReconcileStep DEF Retracked
  <2> QED
    BY <1>2, <2>1, <2>4 DEF Retracked
<1> QED
  BY <1>4, <1>5 DEF Commit

-----------------------------------------------------------------------------
(* The commands.                                                           *)

\* What a command starts from.
LEMMA CurrentFrameType ==
  ASSUME NEW s \in States
  PROVE  CurrentFrame(s) \in Frames
<1>1. [s.target EXCEPT !.on = FALSE] \in LightStates
  BY StateFields DEF LightStates
<1> QED
  BY <1>1, StateFields, FromStateType DEF CurrentFrame

LEMMA FadeTypes ==
  ASSUME NEW current \in Frames, NEW target \in LightStates, NEW duration \in Nat,
         NEW curve \in Curves
  PROVE  /\ FadeTo(current, target, duration, curve) \in LevelTracks
         /\ ColourTo(current, target.temperature, duration, curve) \in TemperatureTracks
<1>1. /\ current.brightness \in Brightnesses
      /\ current.state.temperature \in Temperatures
      /\ target.temperature \in Temperatures
      /\ FromState(target).brightness \in Brightnesses
  BY FromStateType DEF Frames, LightStates
<1>2. FadeTo(current, target, duration, curve) \in LevelTracks
  BY <1>1, LevelTrackType DEF FadeTo
<1>3. ColourTo(current, target.temperature, duration, curve) \in TemperatureTracks
  BY <1>1 DEF ColourTo, TemperatureTrack, TemperatureTracks, Leg, Legs
<1> QED
  BY <1>2, <1>3

LEMMA RetrackedBy ==
  ASSUME TypeOK,
         NEW l \in LevelTracks \cup {None}, NEW t \in TemperatureTracks \cup {None}
  PROVE  /\ Retracked([rt EXCEPT !.level_transition = l, !.temperature_transition = t])
         /\ Retracked([rt EXCEPT !.level_transition = l])
         /\ Retracked([rt EXCEPT !.temperature_transition = t])
         /\ Retracked(rt)
BY DEF TypeOK, Retracked, States

LEMMA DurationType ==
  ASSUME NEW requested \in Durations
  PROVE  Duration(requested) \in Nat /\ requested \in Nat
BY RuntimeAssumption DEF Duration

\* A whole-state request or a scene recall.
LEMMA RecallSceneCommits ==
  ASSUME Inv, NEW target \in SceneTargets, NEW requested \in Durations, NEW F,
         RecallScene(target, requested, F)
  PROVE  Commits(F)
<1> DEFINE current == CurrentFrame(rt)
           duration == Duration(requested)
           animate == current.brightness # 0 \/ target.on
           l == IF animate THEN FadeTo(current, target, duration, "Smooth") ELSE None
           t == IF animate /\ target.on
                THEN ColourTo(current, target.temperature, duration, "Smooth") ELSE None
           s == [rt EXCEPT !.level_transition = l, !.temperature_transition = t]
<1>1. /\ rt.load_fault = "None"
      /\ Commit(IF target = rt.target THEN rt ELSE s, target, F)
  BY DEF RecallScene, Writable
<1>2. target \in LightStates /\ duration \in Nat /\ current \in Frames
  BY RuntimeAssumption, DurationType, CurrentFrameType DEF Inv, TypeOK
<1>3. l \in LevelTracks \cup {None} /\ t \in TemperatureTracks \cup {None}
  BY <1>2, FadeTypes DEF Curves
<1>4. Retracked(IF target = rt.target THEN rt ELSE s)
  BY <1>3, RetrackedBy DEF Inv
<1> QED
  BY <1>1, <1>2, <1>4 DEF Commits

LEMMA SetPowerCommits ==
  ASSUME Inv, NEW on \in BOOLEAN, NEW F, SetPower(on, F)
  PROVE  Commits(F)
<1> DEFINE current == CurrentFrame(rt)
           target == [rt.target EXCEPT !.on = on]
           l == FadeTo(current, target, DefaultTransition, "Smooth")
           t == IF ~on THEN None
                ELSE IF current.state.temperature # target.temperature
                THEN ColourTo(current, target.temperature, DefaultTransition, "Smooth")
                ELSE rt.temperature_transition
           s == [rt EXCEPT !.level_transition = l, !.temperature_transition = t]
<1>1. /\ rt.load_fault = "None"
      /\ Commit(IF on = rt.target.on THEN rt ELSE s, target, F)
  BY DEF SetPower, Writable
<1>2. target \in LightStates /\ current \in Frames /\ rt \in States
  BY StateFields, CurrentFrameType DEF Inv, TypeOK, LightStates
<1>3. l \in LevelTracks /\ t \in TemperatureTracks \cup {None}
  BY <1>2, StateFields, FadeTypes, ConstantTypes DEF Curves
<1>4. Retracked(IF on = rt.target.on THEN rt ELSE s)
  BY <1>3, RetrackedBy DEF Inv
<1> QED
  BY <1>1, <1>2, <1>4 DEF Commits

\* The middle of an effect stays on the physical scale.
LEMMA EffectMiddleType ==
  ASSUME NEW effect \in OffEffects, NEW from \in Brightnesses
  PROVE  EffectMiddle(effect, from) \in Brightnesses
<1>1. from \in Nat /\ MaxBrightness \in Nat /\ from <= MaxBrightness
  BY UnitsAssumption, SMT DEF Brightnesses, MaxBrightness, FromLevel
<1>2. from \div 2 \in Nat /\ from \div 2 <= from /\ (from * 6) \div 5 \in Nat
  BY <1>1, SMT
<1> QED
  BY <1>1, <1>2, SMT DEF EffectMiddle, Brightnesses

LEMMA OffWithEffectCommits ==
  ASSUME Inv, NEW effect \in OffEffects, NEW F, OffWithEffect(effect, F)
  PROVE  Commits(F)
<1> DEFINE current == CurrentFrame(rt)
           from == current.brightness
           middle == EffectMiddle(effect, from)
           legs == EffectLegs[effect]
           last == IF legs.last = 0 THEN None ELSE Leg(middle, 0, legs.last, "Smooth")
           track == LevelTrack(Leg(from, middle, legs.first, "Smooth"), last,
                               current.state.temperature)
           l == IF from # 0 /\ effect # "NoFade" THEN track ELSE None
           target == [rt.target EXCEPT !.on = FALSE]
           s == [rt EXCEPT !.level_transition = l, !.temperature_transition = None]
<1>1. rt.load_fault = "None" /\ Commit(s, target, F)
  BY DEF OffWithEffect, Writable
<1>2. target \in LightStates /\ current \in Frames /\ rt \in States
  BY StateFields, CurrentFrameType DEF Inv, TypeOK, LightStates
<1>3. /\ from \in Brightnesses /\ middle \in Brightnesses
      /\ current.state.temperature \in Temperatures
  BY <1>2, EffectMiddleType DEF Frames, LightStates
<1>4. l \in LevelTracks \cup {None}
  <2>1. SUFFICES ASSUME effect # "NoFade" PROVE track \in LevelTracks
    OBVIOUS
  <2>2. legs \in [first : Nat \ {0}, last : Nat]
    BY <2>1, RuntimeAssumption
  <2>3. legs.first \in Nat /\ legs.last \in Nat
    BY <2>2
  <2>4. last \in Legs(Brightnesses, Nat) \cup {None}
    BY <1>3, <2>3, ConstantTypes DEF Leg, Legs, Curves
  <2> HIDE DEF current, middle, legs, last
  <2> QED
    BY <1>3, <2>3, <2>4, LevelTrackType DEF Curves
<1>5. Retracked(s)
  BY <1>4, RetrackedBy DEF Inv
<1> QED
  BY <1>1, <1>2, <1>5 DEF Commits

\* A level in the input range is a level once zero is raised to one.
LEMMA MoveLevelCommits ==
  ASSUME Inv, NEW level \in LevelInputs, NEW with_on_off \in BOOLEAN,
         NEW duration \in Nat, NEW curve \in Curves, NEW F,
         MoveLevel(level, with_on_off, duration, curve, F)
  PROVE  Commits(F)
<1> DEFINE current == CurrentFrame(rt)
           target == [rt.target EXCEPT !.level = AtLeastOne(level),
                                       !.on = IF with_on_off THEN level > 1 ELSE @]
           kept == \/ target = rt.target /\ curve = "Smooth"
                   \/ ~target.on /\ ~rt.target.on /\ ~with_on_off
           animate == duration # 0 /\ (current.brightness # 0 \/ target.on)
           l == IF animate THEN FadeTo(current, target, duration, curve) ELSE None
           t == IF ~target.on THEN None
                ELSE IF ~rt.target.on /\ current.state.temperature # target.temperature
                THEN ColourTo(current, target.temperature, duration, curve)
                ELSE rt.temperature_transition
           s == [rt EXCEPT !.level_transition = l, !.temperature_transition = t]
<1>1. rt.load_fault = "None" /\ Commit(IF kept THEN rt ELSE s, target, F)
  BY DEF MoveLevel, Writable
<1>2. target \in LightStates /\ current \in Frames /\ rt \in States
  <2>1. level \in 0..LevelMax
    BY RuntimeAssumption
  <2>2. AtLeastOne(level) \in Levels /\ (level > 1) \in BOOLEAN
    BY <2>1, UnitsAssumption, SMT DEF AtLeastOne, Levels
  <2>3. rt \in States /\ rt.target \in LightStates
    BY StateFields DEF Inv, TypeOK
  <2> QED
    BY <2>2, <2>3, CurrentFrameType DEF LightStates
<1>3. l \in LevelTracks \cup {None} /\ t \in TemperatureTracks \cup {None}
  <2> HIDE DEF current, target
  <2> QED
    BY <1>2, StateFields, FadeTypes
<1>4. Retracked(IF kept THEN rt ELSE s)
  <2> HIDE DEF l, t, kept
  <2> QED
    BY <1>3, RetrackedBy DEF Inv
<1> QED
  BY <1>1, <1>2, <1>4 DEF Commits

LEMMA MoveTemperatureCommits ==
  ASSUME Inv, NEW temperature \in TemperatureInputs, NEW duration \in Nat,
         NEW curve \in Curves, NEW F, MoveTemperature(temperature, duration, curve, F)
  PROVE  Commits(F)
<1> DEFINE current == CurrentFrame(rt)
           target == [rt.target EXCEPT !.temperature = temperature]
           t == IF duration # 0 THEN ColourTo(current, temperature, duration, curve)
                ELSE None
           s == [rt EXCEPT !.temperature_transition = t]
           moves == rt.target.on
                      /\ (temperature # rt.target.temperature \/ curve = "Linear")
<1>1. rt.load_fault = "None" /\ Commit(IF moves THEN s ELSE rt, target, F)
  BY DEF MoveTemperature, Writable
<1>2. /\ target \in LightStates /\ target.temperature = temperature
      /\ current \in Frames /\ rt \in States
  BY StateFields, RuntimeAssumption, CurrentFrameType DEF Inv, TypeOK, LightStates
<1>3. t \in TemperatureTracks \cup {None}
  <2> HIDE DEF current, target
  <2> QED
    BY <1>2, FadeTypes
<1>4. Retracked(IF moves THEN s ELSE rt)
  <2> HIDE DEF t, moves
  <2> QED
    BY <1>3, RetrackedBy DEF Inv
<1> QED
  BY <1>1, <1>2, <1>4 DEF Commits

LEMMA StopLevelTransitionCommits ==
  ASSUME Inv, NEW F, StopLevelTransition(F)
  PROVE  Commits(F)
<1> DEFINE stopped == rt.level_transition
           target == [level |-> ToLevelClamped(rt.applied.brightness),
                      on |-> rt.applied.brightness > Floor \div 2,
                      temperature |-> IF stopped.off_temperature # None
                                      THEN stopped.off_temperature
                                      ELSE rt.target.temperature]
<1>1. /\ rt.load_fault = "None" /\ rt.applied # None /\ stopped # None
      /\ Commit([rt EXCEPT !.level_transition = None], target, F)
  BY DEF StopLevelTransition, Writable
<1>2. rt \in States /\ rt.applied \in Frames /\ stopped \in LevelTracks
  BY <1>1, StateFields DEF Inv, TypeOK
<1>3. ToLevelClamped(rt.applied.brightness) \in Levels
  BY <1>2, ToLevelType DEF Frames
<1>4. (rt.applied.brightness > Floor \div 2) \in BOOLEAN
  OBVIOUS
<1>5. target.temperature \in Temperatures
  BY <1>2, StateFields DEF LevelTracks, LightStates
<1>6. target \in LightStates
  BY <1>3, <1>4, <1>5 DEF LightStates
<1>7. Retracked([rt EXCEPT !.level_transition = None])
  BY RetrackedBy DEF Inv
<1> QED
  BY <1>1, <1>6, <1>7 DEF Commits

LEMMA StopTemperatureTransitionCommits ==
  ASSUME Inv, NEW F, StopTemperatureTransition(F)
  PROVE  Commits(F)
<1> DEFINE target == [rt.target EXCEPT !.temperature = rt.applied.state.temperature]
<1>1. /\ rt.load_fault = "None" /\ rt.applied # None
      /\ Commit([rt EXCEPT !.temperature_transition = None], target, F)
  BY DEF StopTemperatureTransition, Writable
<1>2. rt \in States /\ rt.applied \in Frames
  BY <1>1, StateFields DEF Inv, TypeOK
<1>3. target \in LightStates
  BY <1>2, StateFields DEF Frames, LightStates
<1>4. Retracked([rt EXCEPT !.temperature_transition = None])
  BY RetrackedBy DEF Inv
<1> QED
  BY <1>1, <1>3, <1>4 DEF Commits

-----------------------------------------------------------------------------
(* The other operations.                                                   *)

\* A failed output leaves the record as sound as it was.
LEMMA FailedOutputStep ==
  ASSUME NEW s \in States, NEW F, FailOutput(s, F), flash' \in Records,
         CleanIsSaved(s, flash'), NEW acknowledged
  PROVE  Outcome(acknowledged)
<1>1. /\ rt' \in States /\ rt'.applied = None
      /\ rt'.target = s.target /\ rt'.startup = s.startup
      /\ rt'.dirty = s.dirty /\ rt'.load_fault = s.load_fault
      /\ lamp' \in {0, None}
  BY FailOutputStep
<1>2. CleanIsSaved(rt', flash')
  BY <1>1 DEF CleanIsSaved, HoldsRecord
<1> QED
  BY <1>1, <1>2, ConstantTypes DEF Outcome, AcknowledgedIsSound, LampFollows

LEMMA OffStep ==
  ASSUME Inv, NEW F, Off(F)
  PROVE  Outcome(rt.applied # None)
<1> DEFINE s == [rt EXCEPT !.applied = None, !.level_transition = None,
                           !.temperature_transition = None,
                           !.dirty = @ \/ rt.target.on, !.target.on = FALSE]
           c == [s EXCEPT !.dirty = @ \/ rt.load_fault = "InvalidRecord"]
           saved == [Clean(c) EXCEPT !.load_fault = "None", !.revision = Bump(@)]
           target == [rt.target EXCEPT !.on = FALSE]
<1>1. rt \in States /\ flash \in Records /\ lamp \in Brightnesses \cup {None}
  BY DEF Inv, TypeOK
<1>2. target \in LightStates
  BY <1>1, StateFields DEF LightStates
<1>3. /\ s \in States /\ s.target = target /\ s.startup = rt.startup
      /\ s.applied = None /\ s.load_fault = rt.load_fault
      /\ s.dirty = (rt.dirty \/ rt.target.on)
  <2>1. (rt.dirty \/ rt.target.on) \in BOOLEAN
    OBVIOUS
  <2>2. s = [rt EXCEPT !.applied = None, !.level_transition = None,
                       !.temperature_transition = None,
                       !.dirty = (rt.dirty \/ rt.target.on), !.target = target]
    BY <1>1 DEF States
  <2> DEFINE dirty == rt.dirty \/ rt.target.on
  <2> HIDE DEF s, target, dirty
  <2>3. dirty \in BOOLEAN
    BY <2>1 DEF dirty
  <2>4. s = [rt EXCEPT !.applied = None, !.level_transition = None,
                       !.temperature_transition = None,
                       !.dirty = dirty, !.target = target]
    BY <2>2 DEF dirty
  <2>5. s \in States
    BY <1>1, <1>2, <2>3, <2>4 DEF States
  <2>6. /\ s.target = target /\ s.startup = rt.startup /\ s.applied = None
        /\ s.load_fault = rt.load_fault /\ s.dirty = dirty
    BY <1>1, <2>4 DEF States
  <2> QED
    BY <2>5, <2>6 DEF dirty
<1>4. /\ c \in States /\ c.target = target /\ c.startup = rt.startup
      /\ c.applied = None /\ c.load_fault = rt.load_fault
      /\ c.dirty = (rt.dirty \/ rt.target.on \/ rt.load_fault = "InvalidRecord")
  <2> DEFINE dirty == s.dirty \/ rt.load_fault = "InvalidRecord"
  <2>1. dirty \in BOOLEAN
    OBVIOUS
  <2>2. c = [s EXCEPT !.dirty = dirty]
    OBVIOUS
  <2>3. dirty = (rt.dirty \/ rt.target.on \/ rt.load_fault = "InvalidRecord")
    BY <1>3
  <2> HIDE DEF s, c, target, dirty
  <2>4. c \in States
    BY <1>3, <2>1, <2>2 DEF States
  <2> QED
    BY <1>3, <2>2, <2>3, <2>4, SMTT(60) DEF States
<1>5. CASE rt.load_fault = "Storage"
  <2>1. /\ rt' = [s EXCEPT !.off_after_load = TRUE, !.dirty = FALSE]
        /\ lamp' = Dark(F, "stop") /\ flash' = flash
    BY <1>5 DEF Off
  <2>2. rt' \in States /\ rt'.applied = None /\ rt'.load_fault = "Storage"
    <3> HIDE DEF s
    <3> QED
      BY <1>3, <1>5, <2>1 DEF States
  <2> QED
    BY <1>1, <2>1, <2>2, DarkType
       DEF Outcome, CleanIsSaved, AcknowledgedIsSound, LampFollows
<1>6. CASE SaveFails(c, F) /\ FailSave(c, F)
  <2> HIDE DEF c
  <2> QED
    BY <1>1, <1>4, <1>6, FailedSaveStep
<1>7. CASE /\ rt.load_fault # "Storage" /\ SaveIntent(c)
           /\ IF "stop" \notin F THEN Reconcile(saved, F) ELSE FailOutput(saved, F)
  <2>1. ~c.dirty => HoldsRecord(c, flash)
    <3>1. SUFFICES ASSUME ~c.dirty PROVE HoldsRecord(c, flash)
      OBVIOUS
    <3>2. ~rt.dirty /\ ~rt.target.on /\ rt.load_fault = "None"
      BY <1>1, <1>4, <1>7, <3>1, StateFields
    <3>3. target = rt.target
      BY <1>1, <3>2, StateFields DEF LightStates
    <3>4. HoldsRecord(rt, flash)
      BY <3>2 DEF Inv, CleanIsSaved
    <3> HIDE DEF c, target
    <3> QED
      BY <1>4, <3>3, <3>4 DEF HoldsRecord
  <2>2. /\ flash' \in Records /\ HoldsRecord(c, flash')
        /\ Clean(c) \in States /\ ~Clean(c).dirty
        /\ Clean(c).target = target /\ Clean(c).startup = rt.startup
        /\ Clean(c).applied = None
    <3> HIDE DEF c, target
    <3> QED
      BY <1>1, <1>4, <1>7, <2>1, SavedStep
  <2>3. /\ saved \in States /\ ~saved.dirty /\ saved.load_fault = "None"
        /\ saved.target = target /\ saved.startup = rt.startup
        /\ saved.applied = None
    <3>1. Bump(Clean(c).revision) \in 0..(Revisions - 1)
      BY <2>2, StateFields, BumpType
    <3> HIDE DEF c, target
    <3> QED
      BY <2>2, <3>1 DEF States
  <2>4. HoldsRecord(saved, flash') /\ LampHolds(saved)
    <3> HIDE DEF saved, c, target
    <3> QED
      BY <1>4, <2>2, <2>3 DEF HoldsRecord, LampHolds
  <2>5. CASE Reconcile(saved, F)
    <3> HIDE DEF saved
    <3>1. Outcome(saved.applied # None)
      BY <1>1, <2>2, <2>3, <2>4, <2>5, ReconcileStep
    <3> QED
      BY <2>3, <3>1 DEF Outcome
  <2>6. CASE FailOutput(saved, F)
    <3> HIDE DEF saved
    <3> QED
      BY <2>2, <2>3, <2>4, <2>6, FailedOutputStep DEF CleanIsSaved
  <2> QED
    BY <1>7, <2>5, <2>6
<1> QED
  BY <1>5, <1>6, <1>7 DEF Off

LEMMA SaveStartupStep ==
  ASSUME Inv, NEW startup \in Startups, NEW F, SaveStartup(startup, F)
  PROVE  Outcome(rt.applied # None)
<1>1. rt \in States /\ flash \in Records /\ lamp \in Brightnesses \cup {None}
  BY DEF Inv, TypeOK
<1>2. /\ flash' = Version3(rt.target, startup)
      /\ rt' = [rt EXCEPT !.startup = startup, !.dirty = FALSE,
                          !.revision = Bump(rt.revision)]
      /\ lamp' = lamp
  BY DEF SaveStartup
<1>3. flash' \in Records /\ flash' # Malformed
      /\ Decode(flash') = [intended |-> rt.target, startup |-> startup, migrated |-> FALSE]
  BY <1>1, <1>2, StateFields, WrittenRecord
<1>4. /\ rt' \in States /\ rt'.startup = startup /\ rt'.target = rt.target
      /\ ~rt'.dirty /\ rt'.applied = rt.applied /\ rt'.fault = rt.fault
      /\ rt'.load_fault = rt.load_fault /\ rt'.retry_in = rt.retry_in
  <2>1. Bump(rt.revision) \in 0..(Revisions - 1)
    BY <1>1, StateFields, BumpType
  <2> QED
    BY <1>1, <1>2, <2>1 DEF States
<1>5. HoldsRecord(rt', flash')
  BY <1>3, <1>4 DEF HoldsRecord
<1> QED
  BY <1>1, <1>2, <1>3, <1>4, <1>5
     DEF Outcome, CleanIsSaved, Inv, AcknowledgedIsSound, LampFollows

LEMMA SettingStep ==
  ASSUME Inv, NEW F, Setting(F)
  PROVE  Outcome(rt.applied # None)
<1>1. rt.startup \in Startups
  BY StateFields DEF Inv, TypeOK
<1>2. ASSUME NEW power \in {0, 1}, SetStartup(power, F)
      PROVE  Outcome(rt.applied # None)
  <2>1. [rt.startup EXCEPT !.power = power] \in Startups
    BY <1>1 DEF Startups
  <2> QED
    BY <1>2, <2>1, SaveStartupStep DEF SetStartup
<1>3. ASSUME NEW level \in StartupLevels, SetStartupLevel(level, F)
      PROVE  Outcome(rt.applied # None)
  <2>1. [rt.startup EXCEPT !.level = level] \in Startups
    BY <1>1, RuntimeAssumption DEF Startups
  <2> QED
    BY <1>3, <2>1, SaveStartupStep DEF SetStartupLevel
<1>4. ASSUME NEW temperature \in StartupTemperatures,
             SetStartupTemperature(temperature, F)
      PROVE  Outcome(rt.applied # None)
  <2>1. [rt.startup EXCEPT !.temperature = temperature] \in Startups
    BY <1>1, RuntimeAssumption DEF Startups
  <2> QED
    BY <1>4, <2>1, SaveStartupStep DEF SetStartupTemperature
<1> QED
  BY <1>2, <1>3, <1>4 DEF Setting

LEMMA PrepareRebootStep ==
  ASSUME Inv, NEW F, PrepareReboot(F)
  PROVE  Outcome(rt.applied # None)
<1>1. rt \in States /\ flash \in Records
  BY DEF Inv, TypeOK
<1>2. /\ rt' = [rt EXCEPT !.applied = None, !.fault = "Rebooting",
                          !.revision = Bump(rt.revision)]
      /\ lamp' = Dark(F, "stop") /\ flash' = flash
  BY DEF PrepareReboot
<1>3. /\ rt' \in States /\ rt'.applied = None /\ rt'.dirty = rt.dirty
      /\ rt'.load_fault = rt.load_fault /\ rt'.target = rt.target
      /\ rt'.startup = rt.startup
  <2>1. Bump(rt.revision) \in 0..(Revisions - 1)
    BY <1>1, StateFields, BumpType
  <2> QED
    BY <1>1, <1>2, <2>1 DEF States, Faults
<1>4. CleanIsSaved(rt', flash')
  BY <1>2, <1>3 DEF Inv, CleanIsSaved, HoldsRecord
<1> QED
  BY <1>1, <1>2, <1>3, <1>4, DarkType DEF Outcome, AcknowledgedIsSound, LampFollows

\* verify, registers and the reboot: a failed readback is a failed output.
LEMMA LocalStep ==
  ASSUME Inv, NEW F, Local(F)
  PROVE  Outcome(rt.applied # None)
<1>1. CASE Verify(F) \/ Registers(F)
  <2>1. /\ rt \in States /\ FailOutput(rt, F)
        /\ flash' \in Records /\ CleanIsSaved(rt, flash')
    BY <1>1 DEF Verify, Registers, Inv, TypeOK
  <2> QED
    BY <2>1, FailedOutputStep
<1> QED
  BY <1>1, OffStep, PrepareRebootStep DEF Local

-----------------------------------------------------------------------------
(* tick.                                                                   *)

LEMMA ElapseType ==
  ASSUME NEW s \in States, NEW elapsed \in Nat
  PROVE  /\ Elapse(s, elapsed) \in States
         /\ \A f \in {"target", "startup", "dirty", "load_fault", "applied", "fault",
                      "revision"} :
              Elapse(s, elapsed)[f] = s[f]
         /\ s.retry_in = 0 => Elapse(s, elapsed).retry_in = 0
<1> DEFINE l == IF s.level_transition = None THEN None
                ELSE Aged(s.level_transition, elapsed, LevelLength(s.level_transition))
           t == IF s.temperature_transition = None THEN None
                ELSE Aged(s.temperature_transition, elapsed,
                          s.temperature_transition.ramp.duration)
           v == Younger(s.verify_in, elapsed)
           r == Younger(s.retry_in, elapsed)
           u == [s EXCEPT !.level_transition = l, !.temperature_transition = t,
                          !.verify_in = v, !.retry_in = r]
<1>1. ASSUME NEW a \in Nat, NEW n \in Nat PROVE Older(a, elapsed, n) \in Nat
  BY SMT DEF Older
<1>2. ASSUME NEW m \in Nat, NEW left \in 0..m
      PROVE  Younger(left, elapsed) \in 0..m /\ (left = 0 => Younger(left, elapsed) = 0)
  BY SMT DEF Younger
<1>3. l \in LevelTracks \cup {None}
  <2>1. SUFFICES ASSUME s.level_transition # None PROVE l \in LevelTracks
    OBVIOUS
  <2>2. s.level_transition \in LevelTracks
    BY <2>1, StateFields
  <2>3. s.level_transition.age \in Nat /\ LevelLength(s.level_transition) \in Nat
    BY <2>2, SMT DEF LevelTracks, LevelLength, Legs
  <2> QED
    BY <1>1, <2>1, <2>2, <2>3 DEF LevelTracks, Aged
<1>4. t \in TemperatureTracks \cup {None}
  <2>1. SUFFICES ASSUME s.temperature_transition # None PROVE t \in TemperatureTracks
    OBVIOUS
  <2>2. s.temperature_transition \in TemperatureTracks
    BY <2>1, StateFields
  <2>3. /\ s.temperature_transition.age \in Nat
        /\ s.temperature_transition.ramp.duration \in Nat
    BY <2>2 DEF TemperatureTracks, Legs
  <2> QED
    BY <1>1, <2>1, <2>2, <2>3 DEF TemperatureTracks, Aged
<1>5. /\ v \in 0..VerifyInterval /\ r \in 0..RetryDelay
      /\ s.retry_in = 0 => r = 0
  BY <1>2, StateFields, RuntimeAssumption
<1>6. Elapse(s, elapsed) = u
  BY DEF Elapse
<1>7. /\ u \in States /\ u.retry_in = r
      /\ \A f \in {"target", "startup", "dirty", "load_fault", "applied", "fault",
                   "revision"} :
           u[f] = s[f]
  <2> HIDE DEF l, t, v, r
  <2> QED
    BY <1>3, <1>4, <1>5 DEF States
<1> QED
  BY <1>5, <1>6, <1>7

\* With the acknowledged frame current, a readback confirms or invalidates it.
LEMMA RecheckStep ==
  ASSUME NEW s \in States, NEW F, Recheck(s, F), s.applied # None,
         s.load_fault = "None", ~s.dirty, AcknowledgedIsSound(s),
         HoldsRecord(s, flash'), flash' \in Records,
         lamp \in Brightnesses \cup {None}, LampHolds(s)
  PROVE  Outcome(TRUE)
<1> DEFINE t == ClearFinished(s)
           u == [t EXCEPT !.verify_in = VerifyInterval]
<1>1. /\ t \in States /\ t.target = s.target /\ t.startup = s.startup
      /\ t.dirty = s.dirty /\ t.load_fault = s.load_fault /\ t.applied = s.applied
      /\ t.fault = s.fault /\ t.retry_in = s.retry_in
  BY ClearFinishedType
<1>2. /\ u \in States /\ u.target = s.target /\ u.startup = s.startup
      /\ u.dirty = s.dirty /\ u.load_fault = s.load_fault /\ u.applied = s.applied
      /\ u.fault = s.fault /\ u.retry_in = s.retry_in
  <2> HIDE DEF t
  <2> QED
    BY <1>1, ConstantTypes DEF States
<1>3. CASE rt' \in {t, u} /\ lamp' = lamp
  <2>1. /\ rt' \in States /\ rt'.target = s.target /\ rt'.startup = s.startup
        /\ rt'.dirty = s.dirty /\ rt'.load_fault = s.load_fault
        /\ rt'.applied = s.applied /\ rt'.fault = s.fault /\ rt'.retry_in = s.retry_in
    <3> HIDE DEF t, u
    <3> QED
      BY <1>1, <1>2, <1>3
  <2> QED
    BY <1>3, <2>1 DEF Outcome, CleanIsSaved, HoldsRecord, AcknowledgedIsSound,
                      LampFollows, LampHolds
<1>4. CASE FailOutput(u, F)
  <2>1. CleanIsSaved(u, flash')
    <3> HIDE DEF u
    <3> QED
      BY <1>2 DEF CleanIsSaved, HoldsRecord
  <2> HIDE DEF u
  <2> QED
    BY <1>2, <1>4, <2>1, FailedOutputStep
<1> QED
  BY <1>3, <1>4 DEF Recheck

LEMMA MaintainStep ==
  ASSUME NEW s \in States, NEW F, Maintain(s, F), s.load_fault = "None",
         flash \in Records, CleanIsSaved(s, flash), AcknowledgedIsSound(s),
         lamp \in Brightnesses \cup {None}, LampHolds(s)
  PROVE  Outcome(s.applied # None)
<1> DEFINE c == Clean(s)
<1>1. CASE SaveFails(s, F) /\ FailSave(s, F)
  BY <1>1, FailedSaveStep
<1>2. CASE /\ SaveIntent(s)
           /\ IF c.applied # Effective(c) THEN Reconcile(c, F) ELSE Recheck(c, F)
  <2>1. /\ flash' \in Records /\ HoldsRecord(s, flash')
        /\ c \in States /\ ~c.dirty
        /\ c.target = s.target /\ c.startup = s.startup
        /\ c.load_fault = s.load_fault /\ c.applied = s.applied
        /\ c.fault = s.fault /\ c.retry_in = s.retry_in
    <3>1. ~s.dirty => HoldsRecord(s, flash)
      BY DEF CleanIsSaved
    <3> QED
      BY <1>2, <3>1, SavedStep
  <2> HIDE DEF c
  <2>2. HoldsRecord(c, flash') /\ LampHolds(c) /\ AcknowledgedIsSound(c)
    BY <2>1 DEF HoldsRecord, LampHolds, AcknowledgedIsSound
  <2>3. CASE Reconcile(c, F)
    BY <2>1, <2>2, <2>3, ReconcileStep
  <2>4. CASE c.applied = Effective(c) /\ Recheck(c, F)
    <3>1. c.applied # None
      BY <2>1, <2>4, EffectiveType, NoneAssumption
    <3> QED
      BY <2>1, <2>2, <2>4, <3>1, RecheckStep
  <2> QED
    BY <1>2, <2>3, <2>4 DEF c
<1> QED
  BY <1>1, <1>2 DEF Maintain

\* A record that can be read at last.
LEMMA ReloadedType ==
  ASSUME NEW s \in States, flash \in Records, flash # Malformed
  PROVE  /\ Reloaded(s) \in States /\ Reloaded(s).applied = None
         /\ Reloaded(s).load_fault = "None" /\ CleanIsSaved(Reloaded(s), flash)
         /\ Reloaded(s).revision = Bump(s.revision)
<1> DEFINE saved == Decode(flash)
           restored == StartupIntent(saved.intended, saved.startup)
           target == [restored EXCEPT !.on = @ /\ ~s.off_after_load]
           dirty == saved.migrated \/ target # saved.intended
           u == Reloaded(s)
<1>1. /\ saved.intended \in LightStates /\ saved.startup \in Startups
      /\ saved.migrated \in BOOLEAN
  BY DecodeType
<1>2. target \in LightStates
  <2>1. restored \in LightStates
    BY <1>1, StartupIntentType
  <2>2. (restored.on /\ ~s.off_after_load) \in BOOLEAN
    OBVIOUS
  <2> HIDE DEF restored
  <2> QED
    BY <2>1, <2>2 DEF LightStates
<1>3. dirty \in BOOLEAN /\ Bump(s.revision) \in 0..(Revisions - 1)
  BY StateFields, BumpType
<1>4. u = [s EXCEPT !.target = target, !.applied = None, !.startup = saved.startup,
                    !.dirty = dirty, !.load_fault = "None", !.fault = "None",
                    !.revision = Bump(s.revision)]
  BY DEF Reloaded
<1> HIDE DEF saved, target, u
<1>5. /\ u \in States /\ u.applied = None /\ u.load_fault = "None"
      /\ u.target = target /\ u.startup = saved.startup /\ u.dirty = dirty
      /\ u.revision = Bump(s.revision)
  BY <1>1, <1>2, <1>3, <1>4, ZenonT(60) DEF States, Faults
<1>6. saved = [intended |-> saved.intended, startup |-> saved.startup,
               migrated |-> saved.migrated]
  BY DEF saved, Decode
<1>7. ~u.dirty => HoldsRecord(u, flash)
  <2>1. SUFFICES ASSUME ~u.dirty PROVE HoldsRecord(u, flash)
    OBVIOUS
  <2>2. saved.migrated = FALSE /\ target = saved.intended
    BY <1>1, <1>5, <2>1
  <2>3. saved = [intended |-> u.target, startup |-> u.startup, migrated |-> FALSE]
    BY <1>5, <1>6, <2>2
  <2> QED
    BY <2>3 DEF HoldsRecord, saved
<1> QED
  BY <1>5, <1>7 DEF CleanIsSaved, u

LEMMA TickStep ==
  ASSUME Inv, NEW elapsed \in TickSteps, NEW F, Tick(elapsed, F)
  PROVE  Outcome(rt.applied # None)
<1> DEFINE s == Elapse(rt, elapsed)
           waits == s.fault = "Rebooting" \/ s.retry_in > 0
           load_fault == LoadFault(flash, F)
<1>1. rt \in States /\ flash \in Records /\ lamp \in Brightnesses \cup {None}
  BY DEF Inv, TypeOK
<1>2. /\ s \in States /\ s.target = rt.target /\ s.startup = rt.startup
      /\ s.dirty = rt.dirty /\ s.load_fault = rt.load_fault
      /\ s.applied = rt.applied /\ s.fault = rt.fault
      /\ rt.retry_in = 0 => s.retry_in = 0
  BY <1>1, ElapseType, RuntimeAssumption
<1> HIDE DEF s
<1>3. CleanIsSaved(s, flash) /\ AcknowledgedIsSound(s) /\ LampHolds(s)
  BY <1>2 DEF Inv, CleanIsSaved, HoldsRecord, AcknowledgedIsSound, LampHolds, LampFollows
<1>4. CASE rt' = s /\ flash' = flash /\ lamp' = lamp
  BY <1>1, <1>2, <1>3, <1>4 DEF Outcome, Inv, LampFollows
<1>5. CASE /\ s.load_fault = "Storage" /\ load_fault # "None"
           /\ rt' = [s EXCEPT !.load_fault = load_fault, !.fault = load_fault,
                              !.retry_in = RetryDelay]
           /\ flash' = flash /\ lamp' = lamp
  <2>1. s.applied = None
    BY <1>3, <1>5 DEF AcknowledgedIsSound
  <2>2. load_fault \in {"Storage", "InvalidRecord"}
    BY <1>5 DEF LoadFault
  <2>3. rt' \in States /\ rt'.applied = None /\ rt'.load_fault # "None"
    <3> HIDE DEF load_fault
    <3> QED
      BY <1>2, <1>5, <2>1, <2>2, ConstantTypes DEF States, Faults
  <2> QED
    BY <1>1, <1>2, <1>5, <2>1, <2>3
       DEF Outcome, CleanIsSaved, AcknowledgedIsSound, Inv, LampFollows
<1>6. CASE /\ s.load_fault = "Storage" /\ load_fault = "None"
           /\ Maintain(Reloaded(s), F)
  <2>1. flash # Malformed
    BY <1>6 DEF LoadFault
  <2>2. /\ Reloaded(s) \in States /\ Reloaded(s).applied = None
        /\ Reloaded(s).load_fault = "None" /\ CleanIsSaved(Reloaded(s), flash)
    BY <1>1, <1>2, <2>1, ReloadedType
  <2>3. LampHolds(Reloaded(s)) /\ AcknowledgedIsSound(Reloaded(s))
    BY <2>2 DEF LampHolds, AcknowledgedIsSound
  <2>4. Outcome(Reloaded(s).applied # None)
    BY <1>1, <1>6, <2>2, <2>3, MaintainStep
  <2> QED
    BY <2>2, <2>4 DEF Outcome
<1>7. CASE s.load_fault = "None" /\ Maintain(s, F)
  <2>1. Outcome(s.applied # None)
    BY <1>1, <1>2, <1>3, <1>7, MaintainStep
  <2> QED
    BY <1>2, <2>1
<1> QED
  BY <1>4, <1>5, <1>6, <1>7 DEF Tick, s

-----------------------------------------------------------------------------
(* The environment, and the theorems.                                      *)

LEMMA ResetStep ==
  ASSUME Inv, NEW F, Reset(F)
  PROVE  Outcome(rt.applied # None)
<1>1. flash \in Records /\ flash' = flash /\ lamp' \in {0, None}
  BY DarkType DEF Inv, TypeOK, Reset
<1>2. rt' \in States /\ rt'.applied = None /\ CleanIsSaved(rt', flash')
  BY <1>1, LoadedInv DEF Reset
<1> QED
  BY <1>1, <1>2, ConstantTypes DEF Outcome, AcknowledgedIsSound, LampFollows

LEMMA CommandCommits ==
  ASSUME Inv, NEW F, Command(F)
  PROVE  Commits(F)
<1>1. ASSUME NEW target \in SceneTargets, NEW requested \in Durations,
             RecallScene(target, requested, F)
      PROVE  Commits(F)
  BY <1>1, RecallSceneCommits
<1>2. ASSUME NEW on \in BOOLEAN, SetPower(on, F)
      PROVE  Commits(F)
  BY <1>2, SetPowerCommits
<1>3. ASSUME NEW effect \in OffEffects, OffWithEffect(effect, F)
      PROVE  Commits(F)
  BY <1>3, OffWithEffectCommits
<1>4. ASSUME NEW level \in LevelInputs, NEW with_on_off \in BOOLEAN,
             NEW duration \in Durations,
             \/ SetLevelTransition(level, with_on_off, duration, F)
             \/ SetLevelRate(level, with_on_off, duration, F)
      PROVE  Commits(F)
  BY <1>4, DurationType, MoveLevelCommits DEF SetLevelTransition, SetLevelRate, Curves
<1>5. ASSUME NEW temperature \in TemperatureInputs, NEW duration \in Durations,
             \/ SetTemperatureTransition(temperature, duration, F)
             \/ SetTemperatureRate(temperature, duration, F)
      PROVE  Commits(F)
  BY <1>5, DurationType, MoveTemperatureCommits
     DEF SetTemperatureTransition, SetTemperatureRate, Curves
<1>6. CASE StopLevelTransition(F)
  BY <1>6, StopLevelTransitionCommits
<1>7. CASE StopTemperatureTransition(F)
  BY <1>7, StopTemperatureTransitionCommits
<1> QED
  BY <1>1, <1>2, <1>3, <1>4, <1>5, <1>6, <1>7 DEF Command

LEMMA CommandStep ==
  ASSUME Inv, NEW F, Command(F)
  PROVE  Outcome(rt.applied # None)
BY CommandCommits, CommitStep DEF Commits

\* The light starts in the invariant.
THEOREM InvInit == Init => Inv
<1>1. SUFFICES ASSUME Init PROVE Inv
  OBVIOUS
<1>2. flash \in Records
  BY <1>1, RuntimeAssumption DEF Init
<1>3. PICK F : rt = Loaded(flash, F) /\ lamp = Dark(F, "stop")
  BY <1>1 DEF Init
<1>4. rt \in States /\ rt.applied = None /\ CleanIsSaved(rt, flash)
  BY <1>2, <1>3, LoadedInv
<1>5. lamp \in {0, None} /\ 0 \in Brightnesses
  BY <1>3, DarkType
<1> QED
  BY <1>2, <1>4, <1>5 DEF Inv, TypeOK, AcknowledgedIsSound, LampFollows

\* Every step keeps the invariant and acknowledges a dark frame first.
THEOREM StepOutcome ==
  ASSUME Inv, [Next]_vars
  PROVE  /\ Inv'
         /\ rt.applied = None /\ rt'.applied # None => rt'.applied.brightness = 0
<1>1. ASSUME NEW F, Command(F) \/ Setting(F) \/ Local(F) \/ Reset(F)
      PROVE  Outcome(rt.applied # None)
  BY <1>1, CommandStep, SettingStep, LocalStep, ResetStep
<1>2. ASSUME NEW F, NEW elapsed \in TickSteps, Tick(elapsed, F)
      PROVE  Outcome(rt.applied # None)
  BY <1>2, TickStep
<1>3. ASSUME PcaReset \/ UNCHANGED vars
      PROVE  Outcome(rt.applied # None)
  <2>1. rt' = rt /\ flash' = flash /\ lamp' \in {lamp, None}
    BY <1>3 DEF PcaReset, vars
  <2> QED
    BY <2>1 DEF Outcome, Inv, TypeOK, LampFollows
<1>4. Outcome(rt.applied # None)
  BY <1>1, <1>2, <1>3 DEF Next
<1> QED
  BY <1>4 DEF Outcome, Inv, TypeOK

\* The invariant holds throughout.
THEOREM Invariant == Spec => []Inv
<1>1. Inv /\ [Next]_vars => Inv'
  BY StepOutcome
<1> QED
  BY InvInit, <1>1, PTL DEF Spec

\* Type correctness: a record decoded, a fade retargeted, an effect or a stop
\* never leaves the ranges of the code's types.
THEOREM TypeCorrect == Spec => []TypeOK
<1>1. Inv => TypeOK
  BY DEF Inv
<1> QED
  BY Invariant, <1>1, PTL

\* An acknowledged frame means that a reset would find its target in flash.
THEOREM AcknowledgementIsDurable == Spec => []AcknowledgedIsDurable
<1>1. Inv => AcknowledgedIsDurable
  BY DEF Inv, CleanIsSaved, HoldsRecord, AcknowledgedIsSound, AcknowledgedIsDurable
<1> QED
  BY Invariant, <1>1, PTL

\* The PCA never holds brightness the runtime does not account for.
THEOREM LampIsAccountedFor == Spec => []LampFollows
<1>1. Inv => LampFollows
  BY DEF Inv
<1> QED
  BY Invariant, <1>1, PTL

\* Whatever made the frame unknown, the next one acknowledged is dark.
THEOREM RecoveryStartsFromZero == Spec => StartsFromZero
<1>1. Inv /\ [Next]_vars =>
        [rt.applied = None /\ rt'.applied # None => rt'.applied.brightness = 0]_vars
  BY StepOutcome
<1> QED
  BY Invariant, <1>1, PTL DEF Spec, StartsFromZero
=============================================================================
