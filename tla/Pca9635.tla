------------------------------- MODULE Pca9635 -------------------------------
(***************************************************************************)
(* The driver of the lamp's PWM chip, firmware/core/src/pca9635.rs, one    *)
(* bus transaction or OE write at a time.  A transaction may fail, with or *)
(* without an effect; between any two the chip, which has its own supply,  *)
(* may reset, and so may the ESP.  Writing the OE pin does not fail (the   *)
(* error type of the adapter in app/src/hardware.rs is Infallible).        *)
(***************************************************************************)
EXTENDS StockPwm

CONSTANTS Unknown, FramesUsed, None,
          ResetBank,  \* the frame registers of a chip that reset
          TornBank    \* those a failed write left half written

OffFrame == FromState(DefaultState)

Banks == {OutputBytes(frame) : frame \in FramesUsed \cup {OffFrame}}

ASSUME BankAssumption ==
  /\ FramesUsed \subseteq Frames
  /\ Unknown \notin Banks /\ None \notin Frames
  /\ ResetBank \notin Banks /\ TornBank \notin Banks \cup {ResetBank}

VARIABLES
  chip,      \* the registers: MODE1 (sleep), MODE2 and the frame bank
  disabled,  \* the OE pin is high
  verified,  \* verified_on: the frame last read back with OE low, or None
  call       \* the last call, its frame and the step it is at

vars == <<chip, disabled, verified, call>>

Chips ==
  [mode1 : {"reset", "awake"}, mode2 : {"reset", "stock"},
   bank : Banks \cup {ResetBank, TornBank}]

ResetChip == [mode1 |-> "reset", mode2 |-> "reset", bank |-> ResetBank]
Running(frame) ==
  [mode1 |-> "awake", mode2 |-> "stock", bank |-> OutputBytes(frame)]

Calls ==
  {[op |-> "apply", frame |-> frame] : frame \in FramesUsed}
    \cup {[op |-> "verify", frame |-> frame] : frame \in FramesUsed}
    \cup {[op |-> "shutdown", frame |-> OffFrame], [op |-> "read", frame |-> OffFrame]}

Called(c, at) == [op |-> c.op, frame |-> c.frame, at |-> at]

Idle == call.at \in {"done", "failed"}

\* The call goes on to its next step.
Goto(at) == call' = Called(call, at)

-----------------------------------------------------------------------------
\* Mutant: a failed call leaves OE as it is.
FailEnabled ==
  /\ Goto("failed")
  /\ verified' = None
  /\ UNCHANGED disabled

\* finish, on an error: only the calls that write disable OE.
Fail ==
  /\ Goto("failed")
  /\ verified' = None
  /\ disabled' = (disabled \/ call.op \in {"apply", "shutdown"})

Where(op, frame) ==
  IF op = "shutdown" THEN "park"
  ELSE IF op \in {"verify", "read"} THEN "readback"
  ELSE IF frame.state.on /\ verified # None THEN "check"
  ELSE "park"

Call ==
  /\ Idle
  /\ \E c \in Calls : call' = Called(c, Where(c.op, c.frame))
  /\ UNCHANGED <<chip, disabled, verified>>

\* Mutant: the parked initialisation keeps the acknowledged frame.
ParkVerified ==
  /\ call.at = "park"
  /\ disabled' = TRUE
  /\ Goto("mode")
  /\ UNCHANGED <<chip, verified>>

\* Mutant: the parked initialisation does not release OE.
ParkEnabled ==
  /\ call.at = "park"
  /\ verified' = None
  /\ Goto("mode")
  /\ UNCHANGED <<chip, disabled>>

\* initialize_off first forgets the acknowledged frame and disables OE.
Park ==
  /\ call.at = "park"
  /\ verified' = None
  /\ disabled' = TRUE
  /\ Goto("mode")
  /\ UNCHANGED chip

\* Mutant: the oscillator is woken before the frame is zeroed.
AfterWakeFirst(at) ==
  IF at = "mode" THEN "wake"
  ELSE IF at = "wake" THEN "blank"
  ELSE IF at = "blank" THEN "dark"
  ELSE IF at = "write" THEN "confirm" ELSE "lit"

\* Mutant: OE is enabled without reading the frame back.
AfterUnread(at) ==
  IF at = "mode" THEN "blank"
  ELSE IF at = "blank" THEN "wake"
  ELSE IF at = "wake" THEN "dark"
  ELSE IF at = "write" THEN "confirm" ELSE "release"

\* The step after each write.
After(at) ==
  IF at = "mode" THEN "blank"
  ELSE IF at = "blank" THEN "wake"
  ELSE IF at = "wake" THEN "dark"
  ELSE IF at = "write" THEN "confirm" ELSE "lit"

\* The registers after the write of a step.
Written(at) ==
  IF at = "mode" THEN [chip EXCEPT !.mode2 = "stock"]
  ELSE IF at = "wake" THEN [chip EXCEPT !.mode1 = "awake"]
  ELSE IF at = "blank" THEN [chip EXCEPT !.bank = OutputBytes(OffFrame)]
  ELSE [chip EXCEPT !.bank = OutputBytes(call.frame)]

\* What a write that reports an error may have done.
Torn(at) ==
  {chip, Written(at)} \cup
    (IF at \in {"mode", "wake"} THEN {} ELSE {[chip EXCEPT !.bank = TornBank]})

Write ==
  /\ call.at \in {"mode", "blank", "wake", "write", "light"}
  /\ \/ /\ chip' = Written(call.at)
        /\ Goto(After(call.at))
        /\ UNCHANGED <<disabled, verified>>
     \/ /\ chip' \in Torn(call.at)
        /\ Fail

-----------------------------------------------------------------------------
\* verify_frame: a readback that fails, that is corrupted or that differs.
Confirms(frame) == chip = Running(frame)

\* Mutant: an Off frame too is written again, and the outputs are enabled.
DarkLightsOff ==
  /\ call.at = "dark"
  /\ UNCHANGED chip
  /\ \/ /\ Confirms(OffFrame)
        /\ Goto(IF call.op = "apply" THEN "light" ELSE "done")
        /\ UNCHANGED <<disabled, verified>>
     \/ Fail

\* The last readback of the parked initialisation.
Dark ==
  /\ call.at = "dark"
  /\ UNCHANGED chip
  /\ \/ /\ Confirms(OffFrame)
        /\ Goto(IF call.op = "apply" /\ call.frame.state.on THEN "light" ELSE "done")
        /\ UNCHANGED <<disabled, verified>>
     \/ Fail

\* The readback of an On frame that OE does not let out yet.
Lit ==
  /\ call.at = "lit"
  /\ UNCHANGED chip
  /\ \/ /\ Confirms(call.frame)
        /\ Goto("release")
        /\ UNCHANGED <<disabled, verified>>
     \/ Fail

\* The outputs are enabled and the frame is acknowledged.
Release ==
  /\ call.at = "release"
  /\ disabled' = FALSE
  /\ verified' = call.frame
  /\ Goto("done")
  /\ UNCHANGED chip

\* The fast path: the acknowledged frame is read back first.  One that differs
\* sends the call to the parked initialisation, one that fails ends it.
Check ==
  /\ call.at = "check"
  /\ UNCHANGED chip
  /\ \/ /\ Confirms(verified)
        /\ IF OutputBytes(verified) = OutputBytes(call.frame)
           THEN verified' = call.frame /\ Goto("done")
           ELSE Goto("write") /\ UNCHANGED verified
        /\ UNCHANGED disabled
     \/ /\ verified' = None
        /\ Goto("park")
        /\ UNCHANGED disabled
     \/ Fail

\* The readback of a frame written without parking.
Confirm ==
  /\ call.at = "confirm"
  /\ UNCHANGED chip
  /\ \/ /\ Confirms(call.frame)
        /\ verified' = call.frame
        /\ Goto("done")
        /\ UNCHANGED disabled
     \/ Fail

\* verify_frame and read_registers called on their own.
Readback ==
  /\ call.at = "readback"
  /\ UNCHANGED chip
  /\ \/ /\ call.op = "read" \/ Confirms(call.frame)
        /\ Goto("done")
        /\ UNCHANGED <<disabled, verified>>
     \/ Fail

-----------------------------------------------------------------------------
PcaReset ==
  /\ chip # ResetChip
  /\ chip' = ResetChip
  /\ UNCHANGED <<disabled, verified, call>>

\* The driver's state is lost and the pull-up releases OE; a transaction that
\* was under way may be cut short.
EspReset ==
  /\ chip' \in {chip} \cup
       (IF call.at \in {"mode", "blank", "wake", "write", "light"}
        THEN Torn(call.at) ELSE {})
  /\ disabled' = TRUE
  /\ verified' = None
  /\ call' = Called([op |-> "read", frame |-> OffFrame], "done")

Init ==
  /\ chip = ResetChip
  /\ disabled = TRUE
  /\ verified = None
  /\ call = Called([op |-> "read", frame |-> OffFrame], "done")

Next ==
  \/ Call \/ Park \/ Write \/ Dark \/ Lit \/ Release
  \/ Check \/ Confirm \/ Readback
  \/ PcaReset \/ EspReset

Spec == Init /\ [][Next]_vars

-----------------------------------------------------------------------------
(* Properties.                                                             *)

TypeOK ==
  /\ chip \in Chips
  /\ disabled \in BOOLEAN
  /\ verified \in {frame \in FramesUsed : frame.state.on} \cup {None}
  /\ call.op \in {"apply", "verify", "shutdown", "read"}
  /\ call.frame \in FramesUsed \cup {OffFrame}
  /\ call.at \in {"check", "park", "mode", "blank", "wake", "dark", "light", "lit",
                  "release", "write", "confirm", "readback", "done", "failed"}

\* Between calls an acknowledged frame is what the chip outputs, with OE low,
\* unless the chip reset: nothing else that happened to it goes unnoticed.
AcknowledgedIsHeld ==
  Idle /\ verified # None => ~disabled /\ chip \in {Running(verified), ResetChip}

\* Outputs are enabled only over a frame that was read back.
EnablesOnlyVerified ==
  [][disabled /\ ~disabled' => chip \in {Running(call.frame), ResetChip}]_vars

\* The driver changes the configuration of the chip only with OE high.
ConfiguresOnlyParked ==
  [][~disabled /\ chip' # ResetChip =>
       chip'.mode1 = chip.mode1 /\ chip'.mode2 = chip.mode2]_vars

\* The oscillator starts only over zero PWM.
WakesDark ==
  [][chip.mode1 = "reset" /\ chip'.mode1 = "awake" =>
       chip.bank \in {OutputBytes(OffFrame), ResetBank}]_vars

-----------------------------------------------------------------------------
\* The driver implements the contract Runtime relies on.
Holds ==
  IF chip.mode1 = "awake" /\ chip.mode2 = "stock" /\ chip.bank \in Banks
  THEN chip.bank ELSE Unknown

Output ==
  INSTANCE LightOutput WITH
    holds <- Holds,
    enabled <- ~disabled,
    call <- Called(call, IF Idle THEN call.at ELSE "busy")

ImplementsLightOutput == Output!OutputSpec
=============================================================================
