------------------------------- MODULE Update -------------------------------
(***************************************************************************)
(* Which image runs: the boot of device_matter.rs over the retries of      *)
(* boot.rs, the supervision of ota.rs with the verdict of ota_health.rs,   *)
(* and, external, the OTA service and the bootloader as these use them.    *)
(*                                                                         *)
(* A build is Sound or Broken: a Broken one never is commissioned, healthy *)
(* and verified at once.  Time is counted in passes of five seconds.  What *)
(* the evidence rests on is in Transport and Runtime; here each pass finds *)
(* any.                                                                    *)
(***************************************************************************)
EXTENDS Naturals

CONSTANTS
  Deadline,    \* passes until an unconfirmed image is given up, 60
  LongestRetry \* passes, 12

ASSUME UpdateAssumption ==
  Deadline \in Nat \ {0} /\ LongestRetry \in Nat \ {0}

Builds == {"Sound", "Broken"}

VARIABLES
  flash,   \* the slots and what the bootloader knows of them
  stage,   \* what the boot restores, or Running, or Halted
  delay,   \* passes that retry_io waits next
  asleep,  \* the boot or the confirm loop waits for its timer
  uptime,  \* passes since boot, up to Deadline
  service, \* ota::start gave a service
  leaving  \* prepare_reboot was called, and the reset follows

updateVars == <<flash, stage, delay, asleep, uptime, service, leaving>>

Following ==
  [Partition |-> "Credential", Credential |-> "Matter", Matter |-> "Scenes",
   Scenes |-> "Running"]

Stages == DOMAIN Following \cup {"Running", "Halted"}

Flashes ==
  [current : Builds, other : Builds \cup {"Empty"}, unconfirmed : BOOLEAN,
   staged : BOOLEAN, can_roll_back : BOOLEAN]

ImageTypeOK ==
  /\ flash \in Flashes
  /\ stage \in Stages
  /\ delay \in 1..LongestRetry
  /\ asleep \in BOOLEAN /\ service \in BOOLEAN /\ leaving \in BOOLEAN
  /\ uptime \in 0..Deadline

Earlier(a, b) == IF a < b THEN a ELSE b

-----------------------------------------------------------------------------
(* Boot.                                                                   *)

\* One attempt of retry_io: only an I/O error is tried again, for ever; any
\* other error halts the boot, with the watchdog fed.
Restore(result) ==
  /\ stage \in DOMAIN Following /\ ~asleep
  /\ CASE result = "Ok" ->
            /\ stage' = Following[stage]
            /\ delay' = 1
            /\ service' \in IF stage = "Partition" THEN BOOLEAN ELSE {service}
            /\ UNCHANGED asleep
       [] result = "StdIoError" ->
            /\ asleep' = TRUE
            /\ UNCHANGED <<stage, delay, service>>
       [] OTHER ->
            /\ stage' = "Halted"
            /\ UNCHANGED <<asleep, delay, service>>
  /\ UNCHANGED <<flash, uptime, leaving>>

Results == {"Ok", "StdIoError", "InvalidData"}

-----------------------------------------------------------------------------
(* The supervision of a new image.                                         *)

\* Mutant: at the deadline, too, a device without fabrics waits for them.
VerdictCommissioned(now, commissioned, healthy, verified) ==
  IF commissioned /\ healthy /\ verified THEN "Confirm"
  ELSE IF commissioned /\ now = Deadline THEN "RollBack"
  ELSE "Wait"

\* Mutant: at the deadline the output need not be verified.
VerdictUnverified(now, commissioned, healthy, verified) ==
  IF commissioned /\ healthy /\ (verified \/ now = Deadline) THEN "Confirm"
  ELSE IF now = Deadline THEN "RollBack"
  ELSE "Wait"

\* ota_verdict
Verdict(now, commissioned, healthy, verified) ==
  IF commissioned /\ healthy /\ verified THEN "Confirm"
  ELSE IF now = Deadline THEN "RollBack"
  ELSE "Wait"

Supervised == stage = "Running" /\ service /\ ~leaving

\* A pass of the confirm loop; the write of a confirmation may fail.
Pass(commissioned, healthy, verified) ==
  /\ Supervised /\ flash.unconfirmed /\ ~asleep
  /\ flash.current = "Broken" => ~(commissioned /\ healthy /\ verified)
  /\ LET verdict == Verdict(uptime, commissioned, healthy, verified)
     IN  /\ \E written \in BOOLEAN :
              flash' = [flash EXCEPT !.unconfirmed = @ /\ ~(verdict = "Confirm" /\ written)]
         /\ leaving' = (verdict = "RollBack" /\ flash.can_roll_back)
         /\ asleep' = ~leaving'
  /\ UNCHANGED <<stage, delay, uptime, service>>

\* wait_reboot
StagedReboot ==
  /\ Supervised /\ flash.staged
  /\ leaving' = TRUE
  /\ UNCHANGED <<flash, stage, delay, asleep, uptime, service>>

-----------------------------------------------------------------------------
(* The OTA service, and the bootloader.                                    *)

\* An upload erases the other slot; none starts while the image is unconfirmed.
UploadStarts ==
  /\ Supervised /\ ~flash.unconfirmed /\ ~flash.staged
  /\ flash' = [flash EXCEPT !.other = "Empty"]
  /\ UNCHANGED <<stage, delay, asleep, uptime, service, leaving>>

UploadEnds(build) ==
  /\ Supervised /\ ~flash.unconfirmed /\ ~flash.staged /\ flash.other = "Empty"
  /\ flash' = [flash EXCEPT !.other = build, !.staged = TRUE]
  /\ UNCHANGED <<stage, delay, asleep, uptime, service, leaving>>

\* A staged image is tried; an unconfirmed one is given up.
Selected ==
  LET swapped == [flash EXCEPT !.current = flash.other, !.other = flash.current,
                               !.staged = FALSE]
  IN  IF flash.staged THEN [swapped EXCEPT !.unconfirmed = TRUE]
      ELSE IF flash.unconfirmed /\ flash.can_roll_back
      THEN [swapped EXCEPT !.unconfirmed = FALSE]
      ELSE flash

-----------------------------------------------------------------------------
\* Mutant: no longest delay.
LongerUnlimited(wait) == 2 * wait

\* The next delay of retry_io.
Longer(wait) == Earlier(2 * wait, LongestRetry)

\* A timer of five seconds, or of retry_io, ends.
Wakes ==
  /\ asleep /\ asleep' = FALSE
  /\ IF stage = "Running"
     THEN uptime' = Earlier(uptime + 1, Deadline) /\ UNCHANGED delay
     ELSE /\ uptime' = Earlier(uptime + delay, Deadline)
          /\ delay' = Longer(delay)
  /\ UNCHANGED <<flash, stage, service, leaving>>

Booting ==
  /\ stage' = "Partition" /\ delay' = 1 /\ asleep' = FALSE /\ uptime' = 0
  /\ service' = FALSE /\ leaving' = FALSE

ImageInit ==
  /\ flash \in [current : {"Sound"}, other : {"Empty"}, unconfirmed : {FALSE},
                staged : {FALSE}, can_roll_back : BOOLEAN]
  /\ stage = "Partition" /\ delay = 1 /\ asleep = FALSE /\ uptime = 0
  /\ service = FALSE /\ leaving = FALSE

ImageRestarts == flash' = Selected /\ Booting

-----------------------------------------------------------------------------
\* Whatever is uploaded, cut off, confirmed or reset, a sound image is in
\* flash: the one that runs, or the one to return to (ota.rs, supervise;
\* ota_health.rs).
GoodImageRemains == "Sound" \in {flash.current, flash.other}
=============================================================================
