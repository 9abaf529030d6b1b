----------------------------- MODULE LightOutput -----------------------------
(***************************************************************************)
(* What Runtime relies on in its output adapter (the traits LightOutput of *)
(* core/src/lib.rs and Hardware of app/src/runtime.rs): one call at a      *)
(* time, whose success says what the PCA holds and whether its outputs are *)
(* enabled, unless the PCA has reset since.                                *)
(***************************************************************************)
EXTENDS StockPwm

CONSTANTS Unknown,    \* the PCA holds no complete frame
          FramesUsed  \* the frames that are applied and verified

OffFrame == FromState(DefaultState)

VARIABLES
  holds,    \* the bytes the configured PCA outputs, Unknown when it has none
  enabled,  \* whether OE lets them out
  call      \* the last call and how far it is

outputVars == <<holds, enabled, call>>

Calls ==
  {[op |-> "apply", frame |-> frame] : frame \in FramesUsed}
    \cup {[op |-> "verify", frame |-> frame] : frame \in FramesUsed}
    \cup {[op |-> "shutdown", frame |-> OffFrame], [op |-> "read", frame |-> OffFrame]}

Called(c, at) == [op |-> c.op, frame |-> c.frame, at |-> at]

Idle == call.at \in {"done", "failed"}
Writes == call.op \in {"apply", "shutdown"}

Call ==
  /\ Idle
  /\ \E c \in Calls : call' = Called(c, "busy")
  /\ UNCHANGED <<holds, enabled>>

\* While a call that writes is under way nothing is promised.
Work ==
  /\ call.at = "busy" /\ Writes
  /\ UNCHANGED call

\* A success: the frame is output, or the PCA reset after it was read back.
Succeed ==
  /\ call.at = "busy"
  /\ call' = Called(call, "done")
  /\ Writes =>
       /\ holds' \in {OutputBytes(call.frame), Unknown}
       /\ enabled' = call.frame.state.on
  /\ ~Writes => UNCHANGED <<holds, enabled>>
  /\ call.op = "verify" => holds = OutputBytes(call.frame)

\* A failure of a call that writes leaves the outputs disabled.
Fail ==
  /\ call.at = "busy"
  /\ call' = Called(call, "failed")
  /\ IF Writes THEN ~enabled' ELSE UNCHANGED <<holds, enabled>>

PcaReset ==
  /\ holds' = Unknown
  /\ UNCHANGED <<enabled, call>>

\* A reset of the ESP may interrupt a call; the pull-up releases OE.
EspReset ==
  /\ call' = Called([op |-> "read", frame |-> OffFrame], "done")
  /\ call.at # "busy" \/ ~Writes => holds' = holds
  /\ ~enabled'

OutputInit ==
  /\ holds = Unknown
  /\ ~enabled
  /\ call = Called([op |-> "read", frame |-> OffFrame], "done")

OutputNext == Call \/ Work \/ Succeed \/ Fail \/ PcaReset \/ EspReset

OutputSpec == OutputInit /\ [][OutputNext]_outputVars
=============================================================================
