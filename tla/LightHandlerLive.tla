-------------------------- MODULE LightHandlerLive --------------------------
(***************************************************************************)
(* What the timers of LightHandler promise once Matter commands end: quiet *)
(* becomes TRUE when, from then on, no Matter command arrives and the ESP  *)
(* is not reset.  The console, faults and the transport go on as they      *)
(* like: the comment on tick says that the deadlines do not depend on      *)
(* transport restarts.                                                     *)
(*                                                                         *)
(* Fairness: the maintenance loop of presets.rs calls tick once 100 ms     *)
(* have passed, and the watchdog resets the ESP when it does not.          *)
(***************************************************************************)
EXTENDS LightHandler

VARIABLES
  quiet,  \* no Matter command and no reset from now on
  beat    \* turns at each call of tick, so that fairness need not enable Tick

liveVars == <<vars, quiet, beat>>

LiveInit == Init /\ quiet = FALSE /\ beat = FALSE

Busy == ~quiet /\ (MatterCommand \/ Restart) /\ UNCHANGED <<quiet, beat>>

QuietComes == ~quiet /\ quiet' = TRUE /\ UNCHANGED <<vars, beat>>

\* tick is called; with no timer running it does nothing.
Beat == quiet /\ beat' = ~beat

Ticks ==
  \/ Tick /\ (IF quiet THEN Beat ELSE UNCHANGED beat) /\ UNCHANGED quiet
  \/ ~st.timed /\ Beat /\ UNCHANGED <<vars, quiet>>

Background == (Poll \/ Around) /\ UNCHANGED <<quiet, beat>>

LiveNext == Busy \/ QuietComes \/ Ticks \/ Background

LiveSpec == LiveInit /\ [][LiveNext]_liveVars /\ WF_beat(Beat)

-----------------------------------------------------------------------------
\* Without further commands the timers end: neither the guard of an Off nor
\* an on time lasts for ever, although console commands and faults switch
\* tick between counting one and the other (presets.rs, tick).
TimersEnd == quiet ~> ~st.timed

\* A light on a timer goes dark, through faults, transport restarts and
\* console commands, unless Runtime refuses the Off: tick drops the error and
\* nothing tries again (presets.rs, tick).
TimedLightGoesOff ==
  (quiet /\ st.timed /\ st.target.on) ~> (~st.target.on \/ st.health = "refusing")
=============================================================================
