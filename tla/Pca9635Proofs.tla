--------------------------- MODULE Pca9635Proofs ---------------------------
(***************************************************************************)
(* Proofs about the PCA9635 driver, for every set of frames.               *)
(***************************************************************************)
EXTENDS Pca9635, TLAPS

\* The steps of the parked initialisation and of a first On frame.
Parked == {"mode", "blank", "wake", "dark", "light", "lit", "release"}

\* What each step may rely on.  Only a reset of the chip can come between.
Inv ==
  /\ TypeOK
  /\ call.at \in Parked => disabled /\ verified = None
  /\ call.at \in {"check", "write", "readback", "done", "failed"} /\ verified # None =>
       ~disabled /\ chip \in {Running(verified), ResetChip}
  /\ call.at \in {"check", "write"} => verified # None
  /\ call.at \in {"check", "write", "confirm"} => ~disabled
  /\ call.at \in {"check", "write", "confirm", "light", "lit", "release"} =>
       call.op = "apply" /\ call.frame \in FramesUsed /\ call.frame.state.on
  /\ call.at \in {"park", "mode", "blank", "wake", "dark"} =>
       \/ call.op = "shutdown" /\ call.frame = OffFrame
       \/ call.op = "apply" /\ call.frame \in FramesUsed
  /\ call.at = "confirm" => verified # None
  /\ call.at = "readback" => call.op \in {"verify", "read"}
  /\ call.at = "wake" => chip.bank \in {OutputBytes(OffFrame), ResetBank}
  /\ call.at = "release" => chip \in {Running(call.frame), ResetChip}

LEMMA CalledFields ==
  ASSUME NEW c, NEW at
  PROVE  Called(c, at).op = c.op /\ Called(c, at).frame = c.frame /\ Called(c, at).at = at
BY DEF Called

LEMMA OffFrameBytes == OutputBytes(OffFrame) \in Banks
BY DEF Banks

LEMMA UsedFrameBytes ==
  ASSUME NEW frame \in FramesUsed \cup {OffFrame}
  PROVE  OutputBytes(frame) \in Banks /\ Running(frame) \in Chips
BY DEF Banks, Running, Chips

LEMMA ResetChipType == ResetChip \in Chips
BY DEF ResetChip, Chips

LEMMA WrittenType ==
  ASSUME TypeOK, NEW at
  PROVE  /\ Written(at) \in Chips
         /\ Torn(at) \subseteq Chips
<1>1. chip \in Chips /\ OutputBytes(OffFrame) \in Banks /\ OutputBytes(call.frame) \in Banks
  BY OffFrameBytes, UsedFrameBytes DEF TypeOK
<1>2. Written(at) \in Chips
  BY <1>1 DEF Written, Chips
<1>3. [chip EXCEPT !.bank = TornBank] \in Chips
  BY <1>1 DEF Chips
<1> QED
  BY <1>1, <1>2, <1>3 DEF Torn

\* A failure keeps the chip as the step left it and forgets the frame.
LEMMA FailStep ==
  ASSUME Inv, Fail, chip' \in Chips
  PROVE  Inv'
<1>1. /\ call'.at = "failed" /\ call'.op = call.op /\ call'.frame = call.frame
      /\ verified' = None /\ disabled' \in BOOLEAN
  BY CalledFields DEF Fail, Goto, Inv, TypeOK
<1> QED
  BY <1>1 DEF Inv, TypeOK, Parked

LEMMA CallStep ==
  ASSUME Inv, Call
  PROVE  Inv'
<1>1. PICK c \in Calls : call' = Called(c, Where(c.op, c.frame))
  BY DEF Call
<1>2. /\ call'.op = c.op /\ call'.frame = c.frame
      /\ call'.at = Where(c.op, c.frame)
      /\ chip' = chip /\ disabled' = disabled /\ verified' = verified
  BY <1>1, CalledFields DEF Call
<1>3. /\ c.op \in {"apply", "verify", "shutdown", "read"}
      /\ c.frame \in FramesUsed \cup {OffFrame}
      /\ c.op = "apply" => c.frame \in FramesUsed
      /\ c.op = "shutdown" => c.frame = OffFrame
  BY DEF Calls
<1>4. /\ Where(c.op, c.frame) \in {"park", "readback", "check"}
      /\ Where(c.op, c.frame) = "park" => c.op \in {"shutdown", "apply"}
      /\ Where(c.op, c.frame) = "readback" => c.op \in {"verify", "read"}
      /\ Where(c.op, c.frame) = "check" =>
           c.op = "apply" /\ c.frame.state.on /\ verified # None
  BY <1>3 DEF Where
<1>5. verified # None => ~disabled /\ chip \in {Running(verified), ResetChip}
  BY DEF Inv, Call, Idle
<1> HIDE DEF Where
<1>6. TypeOK'
  BY <1>2, <1>3, <1>4 DEF Inv, TypeOK
<1>7. Running(verified)' = Running(verified)
  BY <1>2
<1> QED
  BY <1>2, <1>3, <1>4, <1>5, <1>6, <1>7 DEF Inv, Parked

LEMMA ParkStep ==
  ASSUME Inv, Park
  PROVE  Inv'
BY CalledFields DEF Inv, TypeOK, Park, Goto, Parked

LEMMA WriteStep ==
  ASSUME Inv, Write
  PROVE  Inv'
<1>1. CASE chip' \in Torn(call.at) /\ Fail
  BY <1>1, WrittenType, FailStep DEF Inv
<1>2. CASE chip' = Written(call.at) /\ Goto(After(call.at)) /\ UNCHANGED <<disabled, verified>>
  <2>1. /\ call'.op = call.op /\ call'.frame = call.frame /\ call'.at = After(call.at)
        /\ verified' = verified /\ disabled' = disabled /\ chip' \in Chips
    BY <1>2, CalledFields, WrittenType DEF Goto, Inv
  <2>2. CASE call.at \in {"mode", "blank", "wake"}
    <3>1. /\ call'.at \in {"blank", "wake", "dark"}
          /\ call'.at = "wake" => call.at = "blank"
      BY <2>1, <2>2 DEF After
    <3>2. call'.at = "wake" => chip'.bank = OutputBytes(OffFrame)
      BY <1>2, <3>1 DEF Written, Inv, TypeOK, Chips
    <3> QED
      BY <2>1, <2>2, <3>1, <3>2 DEF Inv, TypeOK, Parked
  <2>3. CASE call.at = "write"
    <3>1. call'.at = "confirm"
      BY <2>1, <2>3 DEF After
    <3> QED
      BY <2>1, <2>3, <3>1 DEF Inv, TypeOK, Parked
  <2>4. CASE call.at = "light"
    <3>1. call'.at = "lit"
      BY <2>1, <2>4 DEF After
    <3> QED
      BY <2>1, <2>4, <3>1 DEF Inv, TypeOK, Parked
  <2> QED
    BY <2>2, <2>3, <2>4 DEF Write
<1> QED
  BY <1>1, <1>2 DEF Write

LEMMA DarkStep ==
  ASSUME Inv, Dark
  PROVE  Inv'
<1>1. CASE Fail
  BY <1>1, FailStep DEF Dark, Inv, TypeOK
<1>2. CASE /\ Goto(IF call.op = "apply" /\ call.frame.state.on THEN "light" ELSE "done")
           /\ UNCHANGED <<disabled, verified>>
  <2>1. /\ call'.op = call.op /\ call'.frame = call.frame
        /\ call'.at = IF call.op = "apply" /\ call.frame.state.on THEN "light" ELSE "done"
        /\ verified' = verified /\ disabled' = disabled /\ chip' = chip
    BY <1>2, CalledFields DEF Goto, Dark
  <2> QED
    BY <2>1 DEF Inv, TypeOK, Parked, Dark
<1> QED
  BY <1>1, <1>2 DEF Dark

\* A readback that confirms a frame of this call, and nothing else.
LEMMA ConfirmedStep ==
  ASSUME Inv, Confirms(call.frame), call.at = "confirm", verified' = call.frame,
         Goto("done"), disabled' = disabled, chip' = chip
  PROVE  Inv'
<1>1. /\ call'.op = call.op /\ call'.frame = call.frame /\ call'.at = "done"
  BY CalledFields DEF Goto
<1>2. ~disabled /\ chip = Running(call.frame) /\ call.frame \in FramesUsed
      /\ call.frame.state.on
  BY DEF Inv, Confirms
<1>3. Running(verified)' = Running(call.frame)
  BY DEF Running
<1> QED
  BY <1>1, <1>2, <1>3 DEF Inv, TypeOK, Parked

LEMMA LitStep ==
  ASSUME Inv, Lit
  PROVE  Inv'
<1>1. CASE Fail
  BY <1>1, FailStep DEF Lit, Inv, TypeOK
<1>2. CASE Confirms(call.frame) /\ Goto("release") /\ UNCHANGED <<disabled, verified>>
  <2>1. /\ call'.op = call.op /\ call'.frame = call.frame /\ call'.at = "release"
        /\ verified' = verified /\ disabled' = disabled /\ chip' = chip
    BY <1>2, CalledFields DEF Goto, Lit
  <2>2. chip' = Running(call.frame)'
    BY <1>2, <2>1 DEF Confirms, Running
  <2> QED
    BY <2>1, <2>2 DEF Inv, TypeOK, Parked, Lit
<1> QED
  BY <1>1, <1>2 DEF Lit

LEMMA ReleaseStep ==
  ASSUME Inv, Release
  PROVE  Inv'
<1>1. /\ call'.op = call.op /\ call'.frame = call.frame /\ call'.at = "done"
      /\ chip' = chip /\ disabled' = FALSE /\ verified' = call.frame
  BY CalledFields DEF Goto, Release
<1>2. call.frame \in FramesUsed /\ call.frame.state.on
      /\ chip \in {Running(call.frame), ResetChip}
  BY DEF Inv, Release
<1>3. Running(verified)' = Running(call.frame)
  BY <1>1 DEF Running
<1> QED
  BY <1>1, <1>2, <1>3 DEF Inv, TypeOK, Parked

LEMMA CheckStep ==
  ASSUME Inv, Check
  PROVE  Inv'
<1>1. chip' = chip /\ call.op = "apply" /\ call.frame \in FramesUsed
      /\ call.frame.state.on /\ ~disabled /\ verified # None
  BY DEF Check, Inv
<1>2. CASE Fail
  BY <1>1, <1>2, FailStep DEF Inv, TypeOK
<1>3. CASE verified' = None /\ Goto("park") /\ UNCHANGED disabled
  BY <1>1, <1>3, CalledFields, SMTT(30) DEF Goto, Inv, TypeOK, Parked
<1>4. CASE /\ Confirms(verified) /\ OutputBytes(verified) = OutputBytes(call.frame)
           /\ verified' = call.frame /\ Goto("done") /\ UNCHANGED disabled
  <2>1. /\ call'.op = call.op /\ call'.frame = call.frame /\ call'.at = "done"
    BY <1>4, CalledFields DEF Goto
  <2>2. chip' = Running(verified)'
    BY <1>1, <1>4 DEF Confirms, Running
  <2> QED
    BY <1>1, <1>4, <2>1, <2>2 DEF Inv, TypeOK, Parked
<1>5. CASE Confirms(verified) /\ Goto("write") /\ UNCHANGED <<verified, disabled>>
  <2>1. /\ call'.op = call.op /\ call'.frame = call.frame /\ call'.at = "write"
    BY <1>5, CalledFields DEF Goto
  <2>2. chip' = Running(verified)'
    BY <1>1, <1>5 DEF Confirms, Running
  <2> QED
    BY <1>1, <1>5, <2>1, <2>2 DEF Inv, TypeOK, Parked
<1> QED
  BY <1>2, <1>3, <1>4, <1>5 DEF Check

LEMMA ConfirmStep ==
  ASSUME Inv, Confirm
  PROVE  Inv'
<1>1. CASE Fail
  BY <1>1, FailStep DEF Confirm, Inv, TypeOK
<1> QED
  BY <1>1, ConfirmedStep DEF Confirm

LEMMA ReadbackStep ==
  ASSUME Inv, Readback
  PROVE  Inv'
<1>1. CASE Fail
  BY <1>1, FailStep DEF Readback, Inv, TypeOK
<1>2. CASE Goto("done") /\ UNCHANGED <<disabled, verified>>
  <2>1. /\ call'.op = call.op /\ call'.frame = call.frame /\ call'.at = "done"
        /\ verified' = verified /\ disabled' = disabled /\ chip' = chip
    BY <1>2, CalledFields DEF Goto, Readback
  <2>2. Running(verified)' = Running(verified)
    BY <2>1
  <2> QED
    BY <2>1, <2>2 DEF Inv, TypeOK, Parked, Readback
<1> QED
  BY <1>1, <1>2 DEF Readback

LEMMA ResetSteps ==
  ASSUME Inv, PcaReset \/ EspReset
  PROVE  Inv'
<1>1. CASE PcaReset
  <2>1. chip' = ResetChip /\ disabled' = disabled /\ verified' = verified /\ call' = call
    BY <1>1 DEF PcaReset
  <2>2. ResetChip.bank = ResetBank
    BY DEF ResetChip
  <2> QED
    BY <2>1, <2>2, ResetChipType DEF Inv, TypeOK, Parked
<1>2. CASE EspReset
  <2>1. /\ call'.op = "read" /\ call'.frame = OffFrame /\ call'.at = "done"
        /\ disabled' = TRUE /\ verified' = None /\ chip' \in {chip} \cup Torn(call.at)
    BY <1>2, CalledFields DEF EspReset
  <2>2. chip' \in Chips
    BY <2>1, WrittenType DEF Inv, TypeOK
  <2> QED
    BY <2>1, <2>2 DEF Inv, TypeOK, Parked
<1> QED
  BY <1>1, <1>2

\* The driver starts in the invariant and every step keeps it.
THEOREM Invariant == Spec => []Inv
<1>1. Init => Inv
  BY CalledFields, ResetChipType DEF Init, Inv, TypeOK, Parked
<1>2. Inv /\ [Next]_vars => Inv'
  <2>1. ASSUME Inv, UNCHANGED vars PROVE Inv'
    BY <2>1 DEF Inv, TypeOK, vars
  <2> QED
    BY <2>1, CallStep, ParkStep, WriteStep, DarkStep, LitStep, ReleaseStep, CheckStep,
       ConfirmStep, ReadbackStep, ResetSteps DEF Next
<1> QED
  BY <1>1, <1>2, PTL DEF Spec

\* Type correctness: whatever transaction fails or is cut short, an acknowledged
\* frame is an On frame the caller asked for.
THEOREM TypeCorrect == Spec => []TypeOK
<1>1. Inv => TypeOK
  BY DEF Inv
<1> QED
  BY Invariant, <1>1, PTL

\* An acknowledged frame is what the chip outputs, or the chip reset.
THEOREM AcknowledgementIsHeld == Spec => []AcknowledgedIsHeld
<1>1. Inv => AcknowledgedIsHeld
  BY DEF Inv, AcknowledgedIsHeld, Idle
<1> QED
  BY Invariant, <1>1, PTL

\* OE goes low only over a frame that was read back in the same call.
THEOREM EnablingIsVerified == Spec => EnablesOnlyVerified
<1>1. Inv /\ [Next]_vars =>
        [disabled /\ ~disabled' => chip \in {Running(call.frame), ResetChip}]_vars
  BY DEF Inv, Next, vars, Call, Park, Write, Dark, Lit, Release, Check, Confirm,
         Readback, PcaReset, EspReset, Fail
<1> QED
  BY Invariant, <1>1, PTL DEF Spec, EnablesOnlyVerified

\* The configuration registers change only with OE high, or by a chip reset.
THEOREM ConfigurationIsParked == Spec => ConfiguresOnlyParked
<1>1. ASSUME Inv, [Next]_vars, ~disabled, chip' # ResetChip
      PROVE  chip'.mode1 = chip.mode1 /\ chip'.mode2 = chip.mode2
  <2>1. CASE Write
    <3>1. call.at = "write"
      BY <1>1, <2>1 DEF Write, Inv, Parked
    <3>2. chip' \in {chip, [chip EXCEPT !.bank = OutputBytes(call.frame)],
                     [chip EXCEPT !.bank = TornBank]}
      BY <2>1, <3>1 DEF Write, Written, Torn
    <3> QED
      BY <1>1, <3>2 DEF Inv, TypeOK, Chips
  <2>2. CASE EspReset
    <3>1. CASE call.at \in {"mode", "blank", "wake", "light"}
      BY <1>1, <3>1 DEF Inv, Parked
    <3>2. CASE call.at = "write"
      <4>1. chip' \in {chip, [chip EXCEPT !.bank = OutputBytes(call.frame)],
                       [chip EXCEPT !.bank = TornBank]}
        BY <2>2, <3>2 DEF EspReset, Written, Torn
      <4> QED
        BY <1>1, <4>1 DEF Inv, TypeOK, Chips
    <3>3. CASE call.at \notin {"mode", "blank", "wake", "write", "light"}
      BY <2>2, <3>3 DEF EspReset
    <3> QED
      BY <3>1, <3>2, <3>3
  <2>3. CASE chip' = chip
    BY <2>3
  <2> QED
    BY <1>1, <2>1, <2>2, <2>3
       DEF Next, vars, Call, Park, Dark, Lit, Release, Check, Confirm, Readback, PcaReset
<1>2. Inv /\ [Next]_vars =>
        [~disabled /\ chip' # ResetChip =>
           chip'.mode1 = chip.mode1 /\ chip'.mode2 = chip.mode2]_vars
  BY <1>1
<1> QED
  BY Invariant, <1>2, PTL DEF Spec, ConfiguresOnlyParked

\* The oscillator starts over zero PWM only.
THEOREM WakingIsDark == Spec => WakesDark
<1>1. ASSUME Inv, [Next]_vars, chip.mode1 = "reset", chip'.mode1 = "awake"
      PROVE  chip.bank \in {OutputBytes(OffFrame), ResetBank}
  <2>1. chip' # chip /\ chip' # ResetChip
    BY <1>1 DEF ResetChip
  <2>2. /\ call.at \in {"mode", "blank", "wake", "write", "light"}
        /\ chip' \in {Written(call.at)} \cup Torn(call.at)
    BY <1>1, <2>1 DEF Next, vars, Call, Park, Write, Dark, Lit, Release, Check, Confirm,
                      Readback, PcaReset, EspReset
  <2>3. call.at = "wake"
    <3>1. SUFFICES ASSUME call.at # "wake" PROVE chip'.mode1 = chip.mode1
      BY <1>1
    <3> QED
      BY <1>1, <2>2, <3>1 DEF Written, Torn, Inv, TypeOK, Chips
  <2> QED
    BY <1>1, <2>3 DEF Inv
<1>2. Inv /\ [Next]_vars =>
        [chip.mode1 = "reset" /\ chip'.mode1 = "awake" =>
           chip.bank \in {OutputBytes(OffFrame), ResetBank}]_vars
  BY <1>1
<1> QED
  BY Invariant, <1>2, PTL DEF Spec, WakesDark

-----------------------------------------------------------------------------
(* The driver implements LightOutput.                                      *)

\* The contract is about the same frames and bytes.
LEMMA SameFrames ==
  /\ Output!OffFrame = OffFrame
  /\ \A frame : Output!OutputBytes(frame) = OutputBytes(frame)
<1>1. Output!OffFrame = OffFrame
  BY DEF Output!OffFrame, OffFrame, Output!FromState, FromState, Output!DefaultState,
         DefaultState, Output!FromLevel, FromLevel
<1>2. \A frame : Output!OutputBytes(frame) = OutputBytes(frame)
  BY DEF Output!OutputBytes, OutputBytes, Output!OutputPwmPair, OutputPwmPair,
         Output!Duty, Duty, Output!Mix, Mix
<1> QED
  BY <1>1, <1>2

\* What the contract sees of the registers.
LEMMA HoldsRunning ==
  /\ \A frame \in FramesUsed \cup {OffFrame} :
        chip = Running(frame) => Holds = OutputBytes(frame)
  /\ chip = ResetChip => Holds = Unknown
BY UsedFrameBytes DEF Holds, Running, ResetChip

\* The call as the contract sees it.
Seen == Called(call, IF Idle THEN call.at ELSE "busy")

LEMMA SeenFields ==
  /\ Seen.op = call.op /\ Seen.frame = call.frame
  /\ Seen.at = IF Idle THEN call.at ELSE "busy"
BY CalledFields DEF Seen

\* A step of the driver that leaves the call under way.
LEMMA GoesOn ==
  ASSUME NEW at, Goto(at), ~Idle, at \notin {"done", "failed"}
  PROVE  Seen' = Seen /\ Seen.at = "busy"
<1>1. call' = Called(call, at)
  BY DEF Goto
<1>2. ~Idle' /\ call'.op = call.op /\ call'.frame = call.frame
  BY <1>1, CalledFields DEF Idle
<1> QED
  BY <1>2 DEF Seen, Called

LEMMA Ends ==
  ASSUME NEW at, Goto(at), ~Idle, at \in {"done", "failed"}
  PROVE  Seen' = Called(Seen, at) /\ Seen.at = "busy"
<1>1. call' = Called(call, at)
  BY DEF Goto
<1>2. Idle' /\ call'.op = call.op /\ call'.frame = call.frame /\ call'.at = at
  BY <1>1, CalledFields DEF Idle
<1> QED
  BY <1>2, SeenFields DEF Seen, Called

\* Off frames are dark, so the parked initialisation outputs every one of them.
LEMMA OffIsDark ==
  ASSUME NEW frame, ~frame.state.on
  PROVE  OutputBytes(frame) = OutputBytes(OffFrame) /\ ~OffFrame.state.on
BY DEF OutputBytes, OffFrame, FromState, DefaultState

LEMMA FailImplements ==
  ASSUME Inv, ~Idle, Fail,
         call.op \in {"verify", "read"} => chip' = chip /\ call.at = "readback"
  PROVE  Output!Fail
<1>1. Seen' = Called(Seen, "failed") /\ Seen.at = "busy" /\ Seen.op = call.op
  BY Ends, SeenFields DEF Fail
<1>2. /\ call.op \in {"apply", "shutdown"} => disabled'
      /\ call.op \in {"verify", "read"} => disabled' = disabled /\ Holds' = Holds
  BY DEF Fail, Inv, TypeOK, Holds
<1> QED
  BY <1>1, <1>2 DEF Output!Fail, Output!Writes, Output!Called, Called, Seen, Inv, TypeOK

LEMMA WorkImplements ==
  ASSUME NEW at, Goto(at), ~Idle, at \notin {"done", "failed"},
         call.op \in {"apply", "shutdown"}
  PROVE  Output!Work
<1>1. Seen' = Seen /\ Seen.at = "busy" /\ Seen.op = call.op
  BY GoesOn, SeenFields
<1> QED
  BY <1>1 DEF Output!Work, Output!Writes, Seen

\* A call that writes ends in success with the frame on the chip.
LEMMA SucceedImplements ==
  ASSUME Goto("done"), ~Idle, call.op \in {"apply", "shutdown"},
         Holds' \in {OutputBytes(call.frame), Unknown},
         (~disabled') = call.frame.state.on
  PROVE  Output!Succeed
<1>1. /\ Seen' = Called(Seen, "done") /\ Seen.at = "busy"
      /\ Seen.op = call.op /\ Seen.frame = call.frame
  BY Ends, SeenFields
<1> QED
  BY <1>1, SameFrames DEF Output!Succeed, Output!Writes, Output!Called, Called, Seen

LEMMA HoldsNext ==
  ASSUME NEW frame \in FramesUsed \cup {OffFrame},
         chip' \in {Running(frame), ResetChip}
  PROVE  Holds' \in {OutputBytes(frame), Unknown}
BY UsedFrameBytes DEF Holds, Running, ResetChip

LEMMA OnIsBoolean ==
  ASSUME NEW frame \in FramesUsed \cup {OffFrame}
  PROVE  frame.state.on \in BOOLEAN
<1>1. CASE frame \in FramesUsed
  <2>1. frame.state \in LightStates
    BY <1>1, BankAssumption DEF Frames
  <2> QED
    BY <2>1 DEF LightStates
<1>2. CASE frame = OffFrame
  BY <1>2 DEF OffFrame, FromState, DefaultState
<1> QED
  BY <1>1, <1>2

\* The initial states and the steps of the driver are those of the contract.
LEMMA StepImplements ==
  ASSUME Inv, Next
  PROVE  [Output!OutputNext]_(Output!outputVars)
<1> USE DEF Output!OutputNext
<1>1. CASE Call
  <2>1. PICK c \in Calls : call' = Called(c, Where(c.op, c.frame))
    BY <1>1 DEF Call
  <2>2. Where(c.op, c.frame) \notin {"done", "failed"}
    BY DEF Where
  <2> HIDE DEF Where
  <2>3. Seen' = Called(c, "busy")
    BY <2>1, <2>2, CalledFields DEF Seen, Idle, Called
  <2>4. Seen.at \in {"done", "failed"}
    BY <1>1, SeenFields DEF Call, Idle
  <2>5. Holds' = Holds /\ disabled' = disabled
    BY <1>1 DEF Call, Holds
  <2>6. Output!Call
    BY <2>3, <2>4, <2>5, SameFrames
       DEF Output!Call, Output!Calls, Output!Called, Calls, Called, Seen, Output!Idle
  <2> QED
    BY <2>6
<1>2. CASE Park
  <2>1. call.op \in {"apply", "shutdown"} /\ ~Idle
    BY <1>2 DEF Park, Inv, Idle
  <2> QED
    BY <1>2, <2>1, WorkImplements DEF Park
<1>3. CASE Write
  <2>1. call.op \in {"apply", "shutdown"} /\ ~Idle
    BY <1>3 DEF Write, Inv, Idle
  <2>2. After(call.at) \notin {"done", "failed"}
    BY DEF After
  <2>3. CASE Fail
    BY <2>1, <2>3, FailImplements
  <2>4. CASE Goto(After(call.at))
    <3> HIDE DEF After
    <3> QED
      BY <2>1, <2>2, <2>4, WorkImplements
  <2> QED
    BY <1>3, <2>3, <2>4 DEF Write
<1>4. CASE Dark
  <2>1. call.op \in {"apply", "shutdown"} /\ ~Idle /\ disabled
    BY <1>4 DEF Dark, Inv, Idle, Parked
  <2>2. CASE Fail
    BY <2>1, <2>2, FailImplements
  <2>3. CASE Goto("light")
    BY <2>1, <2>3, WorkImplements
  <2>4. CASE /\ Confirms(OffFrame) /\ ~(call.op = "apply" /\ call.frame.state.on)
             /\ Goto("done") /\ disabled' = disabled
    <3>1. ~call.frame.state.on /\ OutputBytes(call.frame) = OutputBytes(OffFrame)
      BY <1>4, <2>4, OffIsDark DEF Inv, Dark, OffFrame, FromState, DefaultState
    <3>2. chip' = Running(OffFrame)
      BY <1>4, <2>4 DEF Dark, Confirms
    <3>3. Holds' \in {OutputBytes(call.frame), Unknown}
      BY <3>1, <3>2, HoldsNext
    <3>4. (~disabled') = call.frame.state.on
      BY <2>1, <2>4, <3>1, OnIsBoolean DEF Inv, TypeOK
    <3> QED
      BY <2>1, <2>4, <3>3, <3>4, SucceedImplements
  <2> QED
    BY <1>4, <2>2, <2>3, <2>4 DEF Dark
<1>5. CASE Lit
  <2>1. call.op \in {"apply", "shutdown"} /\ ~Idle
    BY <1>5 DEF Lit, Inv, Idle
  <2> QED
    BY <1>5, <2>1, FailImplements, WorkImplements DEF Lit
<1>6. CASE Release
  <2>1. /\ call.op = "apply" /\ ~Idle /\ call.frame.state.on
        /\ call.frame \in FramesUsed /\ chip' \in {Running(call.frame), ResetChip}
    BY <1>6 DEF Release, Inv, Idle
  <2>2. Holds' \in {OutputBytes(call.frame), Unknown}
    BY <2>1, HoldsNext
  <2>3. (~disabled') = call.frame.state.on
    BY <1>6, <2>1, OnIsBoolean DEF Release
  <2> QED
    BY <1>6, <2>1, <2>2, <2>3, SucceedImplements DEF Release
<1>7. CASE Check \/ Confirm
  <2>1. /\ call.op = "apply" /\ ~Idle /\ call.frame.state.on /\ ~disabled
        /\ call.frame \in FramesUsed /\ chip' = chip
    BY <1>7 DEF Check, Confirm, Inv, Idle
  <2>2. CASE Fail
    BY <2>1, <2>2, FailImplements
  <2>3. CASE Goto("write") \/ Goto("park")
    BY <2>1, <2>3, WorkImplements
  <2>4. CASE /\ Goto("done") /\ disabled' = disabled
             /\ \E frame : Confirms(frame) /\ OutputBytes(frame) = OutputBytes(call.frame)
    <3>1. chip' = Running(call.frame)
      BY <2>1, <2>4 DEF Confirms, Running
    <3>2. Holds' \in {OutputBytes(call.frame), Unknown}
      BY <2>1, <3>1, HoldsNext
    <3>3. (~disabled') = call.frame.state.on
      BY <2>1, <2>4, OnIsBoolean
    <3> QED
      BY <2>1, <2>4, <3>2, <3>3, SucceedImplements
  <2> QED
    BY <1>7, <2>2, <2>3, <2>4 DEF Check, Confirm
<1>8. CASE Readback
  <2>1. call.op \in {"verify", "read"} /\ ~Idle /\ chip' = chip /\ call.at = "readback"
        /\ call.frame \in FramesUsed \cup {OffFrame}
    BY <1>8 DEF Readback, Inv, TypeOK, Idle
  <2>2. CASE Fail
    BY <2>1, <2>2, FailImplements
  <2>3. CASE /\ call.op = "read" \/ Confirms(call.frame)
             /\ Goto("done") /\ disabled' = disabled
    <3>1. /\ Seen' = Called(Seen, "done") /\ Seen.at = "busy"
          /\ Seen.op = call.op /\ Seen.frame = call.frame
      BY <2>1, <2>3, Ends, SeenFields
    <3>2. Holds' = Holds
      BY <2>1 DEF Holds
    <3>3. call.op = "verify" => Holds = OutputBytes(call.frame)
      BY <2>1, <2>3, HoldsRunning DEF Confirms
    <3>4. Output!Succeed
      BY <2>1, <2>3, <3>1, <3>2, <3>3, SameFrames
         DEF Output!Succeed, Output!Writes, Output!Called, Called, Seen
    <3> QED
      BY <3>4
  <2> QED
    BY <1>8, <2>2, <2>3 DEF Readback
<1>9. CASE PcaReset
  <2>1. Holds' = Unknown /\ disabled' = disabled /\ Seen' = Seen
    BY <1>9 DEF PcaReset, Holds, ResetChip, Seen, Idle
  <2>2. Output!PcaReset
    BY <2>1 DEF Output!PcaReset, Seen
  <2> QED
    BY <2>2
<1>10. CASE EspReset
  <2>1. Seen' = Called([op |-> "read", frame |-> OffFrame], "done") /\ disabled'
    BY <1>10, CalledFields DEF EspReset, Seen, Idle, Called
  <2>2. Seen.at # "busy" \/ Seen.op \notin {"apply", "shutdown"} => Holds' = Holds
    <3>1. SUFFICES ASSUME Seen.at # "busy" \/ Seen.op \notin {"apply", "shutdown"}
                   PROVE  Holds' = Holds
      OBVIOUS
    <3>2. call.at \notin {"mode", "blank", "wake", "write", "light"}
      BY <3>1, SeenFields DEF Inv, Idle
    <3>3. chip' = chip
      BY <1>10, <3>2 DEF EspReset
    <3> QED
      BY <3>3 DEF Holds
  <2>3. Output!EspReset
    BY <2>1, <2>2, SameFrames
       DEF Output!EspReset, Output!Writes, Output!Called, Called, Seen
  <2> QED
    BY <2>3
<1> QED
  BY <1>1, <1>2, <1>3, <1>4, <1>5, <1>6, <1>7, <1>8, <1>9, <1>10 DEF Next

\* The driver implements the contract Runtime is written against.
THEOREM DriverImplementsLightOutput == Spec => ImplementsLightOutput
<1>1. Init => Output!OutputInit
  <2>1. SUFFICES ASSUME Init PROVE Output!OutputInit
    OBVIOUS
  <2>2. /\ Holds = Unknown /\ disabled
        /\ Seen = Called([op |-> "read", frame |-> OffFrame], "done")
    BY <2>1, CalledFields DEF Init, Holds, ResetChip, Seen, Idle, Called
  <2> QED
    BY <2>2, SameFrames DEF Output!OutputInit, Output!Called, Called, Seen
<1>2. Inv /\ [Next]_vars => [Output!OutputNext]_(Output!outputVars)
  <2>1. ASSUME UNCHANGED vars PROVE UNCHANGED Output!outputVars
    BY <2>1 DEF vars, Output!outputVars, Holds, Idle, Called
  <2> QED
    BY <2>1, StepImplements
<1> QED
  BY Invariant, <1>1, <1>2, PTL DEF Spec, ImplementsLightOutput, Output!OutputSpec
=============================================================================
