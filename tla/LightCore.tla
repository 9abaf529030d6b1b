------------------------------ MODULE LightCore ------------------------------
(***************************************************************************)
(* The units and states of key_right_core (firmware/core/src/lib.rs):      *)
(* logical levels, physical brightness coordinates, colour temperatures,   *)
(* logical light states and the output frames that realise them.  The      *)
(* firmware fixes LevelMax = 254, Floor = 253, StepSize = 9, TempMin = 143 *)
(* and TempMax = 344; they are parameters so that small instances of the   *)
(* same arithmetic can be enumerated.                                      *)
(***************************************************************************)
EXTENDS Integers

CONSTANTS LevelMax, Floor, StepSize, TempMin, TempMax,
          DefaultLevel, DefaultTemperature

Levels == 1..LevelMax
Temperatures == TempMin..TempMax

ASSUME UnitsAssumption ==
  /\ LevelMax \in Nat \ {0}
  /\ Floor \in Nat \ {0}
  /\ StepSize \in Nat \ {0}
  /\ TempMin \in Nat
  /\ TempMax \in Nat
  /\ DefaultLevel \in Levels
  /\ DefaultTemperature \in Temperatures

-----------------------------------------------------------------------------
(* OutputBrightness: a logical level lies at or above Floor; a fade may    *)
(* also pass through the coordinates between zero and Floor.               *)

FromLevel(level) == Floor + StepSize * (level - 1)

MaxBrightness == FromLevel(LevelMax)
Brightnesses == 0..MaxBrightness

\* Mutant: rounds the display level down instead of to the nearest.
ToLevelTruncated(b) ==
  IF b <= Floor THEN 1 ELSE 1 + (b - Floor) \div StepSize

\* The nearest logical level, clamped at the nonzero minimum.
ToLevelClamped(b) ==
  IF b <= Floor THEN 1 ELSE 1 + (b - Floor + StepSize \div 2) \div StepSize

-----------------------------------------------------------------------------
(* LightState and OutputFrame.                                             *)

LightStates == [on : BOOLEAN, level : Levels, temperature : Temperatures]

DefaultState ==
  [on |-> FALSE, level |-> DefaultLevel, temperature |-> DefaultTemperature]

Frames == [state : LightStates, brightness : Brightnesses]

FromState(state) ==
  [state |-> state,
   brightness |-> IF state.on THEN FromLevel(state.level) ELSE 0]
=============================================================================
