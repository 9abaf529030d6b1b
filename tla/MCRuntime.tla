------------------------------ MODULE MCRuntime ------------------------------
(* Values for the constants of Runtime that a configuration cannot spell.  *)
EXTENDS Runtime

MCEffectLegs ==
  [FastFade |-> [first |-> 2, last |-> 0],
   SlowFade |-> [first |-> 1, last |-> 2],
   DyingLight |-> [first |-> 1, last |-> 3]]

BriefEffectLegs ==
  [FastFade |-> [first |-> 1, last |-> 0],
   SlowFade |-> [first |-> 1, last |-> 1],
   DyingLight |-> [first |-> 1, last |-> 1]]

MCPresetTemperature == [preset \in {1, 2} |-> IF preset = 1 THEN TempMin ELSE TempMax]

NoFailure == {{}}

FreshFlash == {NoRecord}

MCSceneTargets == {[on |-> TRUE, level |-> 1, temperature |-> TempMax],
                   [on |-> FALSE, level |-> LevelMax, temperature |-> TempMin]}

NoScenes == {}

\* Any call may fail, the following shutdown with it or not.
SomeFailures ==
  {{}, {"load"}, {"load", "stop"}, {"store"}, {"store", "park"}, {"stop"},
   {"stop", "park"}, {"stop", "store"}, {"zero"}, {"zero", "park"}, {"apply"},
   {"apply", "park"}, {"verify"}, {"verify", "park"}, {"read"}}

\* A current record that says On, the same with a legacy On policy, one with an
\* explicit startup Off, a version 2 record, one that is malformed, and none.
SavedOn(power) ==
  Version3([DefaultState EXCEPT !.on = TRUE], [DefaultStartup EXCEPT !.power = power])

AnyFlash ==
  {NoRecord, Malformed, SavedOn(0), SavedOn(1), SavedOn(2), Version2(TRUE, 2, 1),
   Version2(TRUE, 1, 2)}

=============================================================================
