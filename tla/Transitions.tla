----------------------------- MODULE Transitions -----------------------------
(***************************************************************************)
(* The fade arithmetic of firmware/app/src/runtime.rs: one leg of a fade   *)
(* (Transition), and a level fade made of a ramp and an optional second    *)
(* leg (LevelTransition).  The code keeps absolute start times; a track    *)
(* here keeps its age, the time since its start capped at its length,      *)
(* which is all value() and remaining() read of the clock.                 *)
(***************************************************************************)
EXTENDS Integers

CONSTANTS One,    \* the fixed-point unit of a fraction, 65536 in the code
          None    \* the absent value of an Option

ASSUME OneAssumption == One \in Nat \ {0}

Curves == {"Smooth", "Linear"}

\* Transition without its start: its end points, its length and its curve.
Legs(Values, Durations) ==
  [from : Values, to : Values, duration : Durations, curve : Curves]

Leg(from, to, duration, curve) ==
  [from |-> from, to |-> to, duration |-> duration, curve |-> curve]

\* Mutant: the smooth curve is scaled down once too few.
FractionUnscaled(leg, age) ==
  LET x == (age * One) \div leg.duration
  IN  IF leg.curve = "Linear" THEN x ELSE (x * x * (3 * One - 2 * x)) \div One

\* How far a leg has come at an age, in units of One.
Fraction(leg, age) ==
  LET x == (age * One) \div leg.duration
  IN  IF leg.curve = "Linear"
      THEN x
      ELSE (x * x * (3 * One - 2 * x)) \div (One * One)

\* Signed division in the code truncates toward zero, so a falling leg
\* subtracts the same rounded distance that a rising one adds.
Toward(from, to, fraction) ==
  IF to >= from
  THEN from + ((to - from) * fraction) \div One
  ELSE from - ((from - to) * fraction) \div One

\* Transition::value.
Value(leg, age) ==
  IF leg.duration = 0 \/ age >= leg.duration
  THEN leg.to
  ELSE Toward(leg.from, leg.to, Fraction(leg, age))

-----------------------------------------------------------------------------
(* LevelTransition: .ramp then .then (None when there is one leg only).    *)

LevelLength(track) ==
  IF track.then = None THEN track.ramp.duration
                       ELSE track.ramp.duration + track.then.duration

LevelRemaining(track) == LevelLength(track) - track.age

LevelValue(track) ==
  IF track.then # None /\ track.age >= track.ramp.duration
  THEN Value(track.then, track.age - track.ramp.duration)
  ELSE Value(track.ramp, track.age)

\* Where the fade ends.
LevelEnd(track) == IF track.then = None THEN track.ramp.to ELSE track.then.to

TemperatureRemaining(track) == track.ramp.duration - track.age
TemperatureValue(track) == Value(track.ramp, track.age)
=============================================================================
