---------------------------- MODULE TransportLive ----------------------------
(***************************************************************************)
(* What Transport promises over time.                                      *)
(*                                                                         *)
(* proof and best follow the health of a run from outside: how long every  *)
(* sample of association, radio and address has been good, and the longest *)
(* such time.                                                              *)
(*                                                                         *)
(* calm comes when the transmit queue is stuck, as the in-flight counter   *)
(* of the radio is until a reset of the ESP, and nothing else goes wrong:  *)
(* the link is up, every query is answered, no new operation starts and    *)
(* the console is silent.                                                  *)
(*                                                                         *)
(* Fairness: the runner polls link_state when it starts, and its alarm     *)
(* wakes it (network_tx.rs); time passes and the loop of device_matter.rs  *)
(* is polled.                                                              *)
(***************************************************************************)
EXTENDS Transport

VARIABLES calm, proof, best

liveVars == <<vars, calm, proof, best>>

\* After a step of so many units; a new run starts from nothing.
Follows(units) ==
  /\ proof' = IF Evidence(net) /\ Evidence(net') THEN Least(proof + units, Oldest) ELSE 0
  /\ best' = IF phase' = "Waiting" \/ net' = Fresh THEN 0 ELSE Most(best, proof')

Disturbed ==
  /\ ~calm /\ UNCHANGED calm
  /\ \/ Advance /\ Follows(1)
     \/ Untimed /\ Follows(0)

CalmComes ==
  /\ ~calm /\ calm' = TRUE /\ proof' = 0 /\ best' = 0
  /\ UNCHANGED vars

Calm(step) == calm /\ step /\ UNCHANGED <<calm, proof, best>>

CalmProbe == Calm(Probe(TRUE, FALSE))
CalmTime == Calm(net.blocked_since # None /\ Advance)
CalmLoop == Calm(RunEnds \/ Retry)
CalmOperation ==
  Calm(ConnectEnds("Ok") \/ DisconnectStarts \/ DisconnectEnds("Ok"))
CalmSamples == Calm(Watch(TRUE, TRUE) \/ Monitor(TRUE))
CalmEnds == calm /\ Reboot /\ calm' = FALSE /\ UNCHANGED <<proof, best>>

LiveInit == Init /\ calm = FALSE /\ proof = 0 /\ best = 0

LiveNext ==
  \/ Disturbed \/ CalmComes
  \/ CalmProbe \/ CalmTime \/ CalmLoop \/ CalmOperation \/ CalmSamples \/ CalmEnds

LiveSpec ==
  /\ LiveInit /\ [][LiveNext]_liveVars
  /\ WF_vars(CalmProbe) /\ WF_vars(CalmTime) /\ WF_vars(CalmLoop)

-----------------------------------------------------------------------------
\* Time counts as healthy only while every sample was good, in this run: the
\* interval that clears an incident and the retry delay is never older than
\* its evidence, whoever updates one of the four values it rests on, and no
\* run inherits the interval of an earlier one (network.rs, healthy_for_ms).
HealthIsProven == ~calm => HealthyFor(net) <= best

\* Each retry waits twice as long as the last, up to the limit, except after
\* a run that was proven healthy: offline time, and health of an earlier run,
\* do not count (recovery.rs, RestartBackoff).
HasteIsEarned ==
  [][RunEnds /\ ~calm /\ None \notin {delay, delay'} /\ phase' = "Waiting" =>
       delay' >= Least(2 * delay, LastDelay) \/ best >= Healthy]_liveVars

\* "Another such stall after recreation resets the MCU": a queue that stays
\* stuck on a link that is up ends in a reboot, whatever preceded it, and
\* though each run may first look healthy (device_matter.rs, transport loop).
StuckQueueReboots == calm ~> phase = "Rebooting"
=============================================================================
