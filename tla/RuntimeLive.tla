----------------------------- MODULE RuntimeLive -----------------------------
(***************************************************************************)
(* What the light promises once its surroundings leave it alone: calm      *)
(* becomes TRUE when, from then on, no command arrives, no I/O call fails  *)
(* and the PCA does not reset.  Until then anything may happen.            *)
(*                                                                         *)
(* Fairness: the maintenance loop of presets.rs calls tick every 20 ms,    *)
(* and the watchdog resets the ESP when it does not, so ticks go on.  beat *)
(* alternates with each of them: a tick that changes nothing else is still *)
(* a step, and the fair action is stated about beat alone.                 *)
(***************************************************************************)
EXTENDS Runtime

VARIABLES calm, beat

liveVars == <<vars, calm, beat>>

LiveInit == Init /\ calm = FALSE /\ beat = FALSE

Disturbed ==
  /\ ~calm
  /\ Next
  /\ UNCHANGED <<calm, beat>>

CalmComes ==
  /\ ~calm
  /\ calm' = TRUE
  /\ UNCHANGED <<vars, beat>>

Beat == calm /\ beat' = ~beat

CalmTick ==
  /\ Beat
  /\ \E elapsed \in TickSteps : Tick(elapsed, {})
  /\ UNCHANGED calm

LiveNext == Disturbed \/ CalmComes \/ CalmTick

LiveSpec == LiveInit /\ [][LiveNext]_liveVars /\ WF_beat(Beat)

-----------------------------------------------------------------------------
\* At rest: the output shows the target, acknowledged and durable.
Settled ==
  /\ rt.applied = FromState(rt.target)
  /\ lamp = rt.applied.brightness
  /\ rt.level_transition = None /\ rt.temperature_transition = None
  /\ rt.fault = "None" /\ ~rt.dirty
  /\ Decode(flash).intended = rt.target

\* What the light waits for others to end: a reboot, or a malformed record,
\* which only a local Off may replace.
Halted == rt.fault = "Rebooting" \/ rt.load_fault = "InvalidRecord"

\* Whatever happened before, a light left alone shows its durable target for
\* good: failed saves and outputs are retried, a PCA that reset on its own is
\* noticed by the periodic readback, and every fade comes to its end.
SettlesWhenCalm == calm ~> [](Settled \/ Halted)
=============================================================================
