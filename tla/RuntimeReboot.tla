---------------------------- MODULE RuntimeReboot ----------------------------
(***************************************************************************)
(* Runtime with a history of its reboots.  rebooting holds from            *)
(* prepare_reboot to the reset that ota.rs and device_matter.rs ask for    *)
(* after 250 ms, a wait in which the executor runs every other task.       *)
(***************************************************************************)
EXTENDS Runtime

VARIABLE rebooting

rebootVars == <<vars, rebooting>>

RebootInit == Init /\ rebooting = FALSE

RebootNext ==
  \/ Next /\ ~Restarts /\ rebooting' = (rebooting \/ rt'.fault = "Rebooting")
  \/ Restarts /\ rebooting' = FALSE

RebootSpec == RebootInit /\ [][RebootNext]_rebootVars

-----------------------------------------------------------------------------
\* The zero output that prepare_reboot verified (ota.rs: "drives verified zero
\* output") stays until the reset: the PCA is dark, or unknown because a call
\* failed or the PCA reset.
RebootStaysDark == rebooting => lamp \in {0, None}
=============================================================================
