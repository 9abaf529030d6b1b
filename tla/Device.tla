------------------------------- MODULE Device -------------------------------
(***************************************************************************)
(* The console, its output and the supervision of updates on one executor: *)
(* a loop that does not return stops them all, and a reset, which any of   *)
(* them may ask for, starts them all anew.                                 *)
(*                                                                         *)
(* Fairness: timers wake their tasks (embassy-time), a reset that was      *)
(* asked for comes, and so does that of the watchdog once nothing runs.    *)
(* The host and the radio owe nothing.                                     *)
(***************************************************************************)
EXTENDS UsbLog, Update

deviceVars == <<usbVars, updateVars>>

Usb(step) == ~Stopped /\ step /\ UNCHANGED updateVars
Image(step) == ~Stopped /\ step /\ UNCHANGED usbVars

Resets == LogRestarts /\ ImageRestarts

\* The console is joined to the others once the boot is over.
Answers == Usb(stage = "Running" /\ Console)
TimesOut == Usb(TimedOut)
Logs == Usb(Log \/ Writer)

Restores == Image(\E result \in Results : Restore(result))
Passes ==
  Image(\E commissioned, healthy, verified \in BOOLEAN : Pass(commissioned, healthy, verified))
Reboots == Image(StagedReboot)
Uploads == Image(UploadStarts \/ \E build \in Builds : UploadEnds(build))
Timer == Image(Wakes)

\* software_reset, or the watchdog.
AskedReset == (Stopped \/ leaving) /\ Resets

\* Power, or a fault of another part.
OtherReset == Resets

DeviceInit == LogInit /\ ImageInit

DeviceNext ==
  \/ Logs \/ Answers \/ TimesOut
  \/ Restores \/ Passes \/ Reboots \/ Uploads \/ Timer
  \/ AskedReset \/ OtherReset

DeviceSpec ==
  /\ DeviceInit /\ [][DeviceNext]_deviceVars
  /\ WF_deviceVars(TimesOut) /\ WF_deviceVars(AskedReset)
  /\ WF_deviceVars(Restores) /\ WF_deviceVars(Passes) /\ WF_deviceVars(Timer)

-----------------------------------------------------------------------------
\* Types, and the bounds of the queue, the retry delay and the uptime.
DeviceTypeOK == LogTypeOK /\ ImageTypeOK

\* "reboot" and "test watchdog" end in a reset whatever the host reads and
\* however full the queue is (output.rs, response_and_flush; console.rs).
RebootNeedsNoHost == console.command \in {"reboot", "watchdog"} ~> console.at = "Read"

\* A broken update that starts its supervision is given up for the previous
\* image, whatever it logs, whatever the console does and however it is broken
\* (ota.rs, supervise).
SupervisedBuildRollsBack ==
  stage = "Running" /\ service /\ flash.unconfirmed /\ flash.can_roll_back
    /\ flash.current = "Broken"
  ~> flash.current = "Sound"

\* "A broken build rolls back within five minutes" (ota_health.rs); it does not
\* when it never starts its supervision.
BrokenBuildRollsBack ==
  flash.unconfirmed /\ flash.can_roll_back /\ flash.current = "Broken"
  ~> flash.current = "Sound"
=============================================================================
