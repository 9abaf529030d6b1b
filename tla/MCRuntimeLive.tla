---------------------------- MODULE MCRuntimeLive ----------------------------
(* Values for the run about a light left alone and a light restarted.     *)
EXTENDS MCRuntime, RuntimeLive

LiveFailures == {{}, {"load"}, {"stop"}, {"store"}, {"zero", "park"}, {"apply"}}

LiveFlash == {Malformed, SavedOn(0), SavedOn(2)}

ZeroLevel == {0}
Warmest == {TempMax}
=============================================================================
