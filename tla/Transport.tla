------------------------------ MODULE Transport ------------------------------
(***************************************************************************)
(* The transport loop of device_matter.rs and the local evidence that ends *)
(* a run of it: network.rs, network_driver.rs, network_tx.rs, recovery.rs. *)
(*                                                                         *)
(* One task polls the futures of the stack, so each stretch between two    *)
(* awaits is one action.  A timestamp of the code is kept as its age, and  *)
(* ages stop where no comparison tells them apart.  What the radio answers *)
(* is a free input.  IPv4, which decides nothing, and the counters for the *)
(* status line are left out.                                               *)
(***************************************************************************)
EXTENDS Integers, Sequences

CONSTANTS
  None,
  Stale,          \* 60 s: a stall, no radio answer or no local IPv6 for too long
  Healthy,        \* 120 s: the healthy interval that ends an incident
  InternalErrors, \* consecutive driver errors that ask for a new controller
  FirstDelay,     \* seconds before the first retry
  LastDelay,      \* the longest delay
  Doublings       \* where the shift of the delay stops, 4 in the code

ASSUME TransportAssumption ==
  /\ Stale \in Nat \ {0} /\ Healthy \in Nat \ {0}
  /\ InternalErrors \in Nat \ {0}
  /\ FirstDelay \in Nat \ {0} /\ LastDelay \in Nat /\ FirstDelay <= LastDelay
  /\ Doublings \in 0..4
  /\ FirstDelay * <<1, 2, 4, 8, 16>>[Doublings + 1] >= LastDelay \* 5 << 4 >= 60

ASSUME NoneAssumption == None \notin Nat

Least(a, b) == IF a < b THEN a ELSE b
Most(a, b) == IF a < b THEN b ELSE a

\* A healthy interval is compared with Healthy after a stall was taken off.
Oldest == Healthy + Stale

Nets ==
  [connected : BOOLEAN,                     \* CONNECTED
   rssi : BOOLEAN,                          \* RSSI holds a value
   local_ready : BOOLEAN,                   \* LOCAL_READY
   healthy_since : (0..Oldest) \cup {None},
   longest_healthy : 0..Healthy,
   disconnect_pending : BOOLEAN,
   operation : {"None", "Connect", "Disconnect"}, \* who locks the controller
   consecutive : 0..InternalErrors,         \* DriverErrors
   failed_since : (0..Stale) \cup {None},   \* AssociatedHealth
   missing_since : (0..Stale) \cup {None},  \* LocalNetHealth
   blocked_since : (0..Stale) \cup {None},  \* QueueHealth, TX_BLOCKED_SINCE
   reported : BOOLEAN]

Phases == {"Running", "Waiting", "Rebooting"}
Endings == {"Error", "Restart", "Stall"}
Results == {"Ok", "Refused", "Internal", "Timeout"}

VARIABLES
  net,
  ending,     \* what the select of the loop will find: a result and two signals
  phase,
  recreated,  \* QueueRecovery
  failures,   \* RestartBackoff, up to Doublings
  delay       \* seconds of the last wait, None before the first

vars == <<net, ending, phase, recreated, failures, delay>>

loop == <<phase, recreated, failures, delay>>

-----------------------------------------------------------------------------
(* The evidence.                                                           *)

\* The statics after a reset, and what each run creates anew.
Fresh ==
  [connected |-> FALSE, rssi |-> FALSE, local_ready |-> FALSE,
   healthy_since |-> None, longest_healthy |-> 0, disconnect_pending |-> FALSE,
   operation |-> "None", consecutive |-> 0, failed_since |-> None,
   missing_since |-> None, blocked_since |-> None, reported |-> FALSE]

\* Mutant: the longest interval outlives the run.
RestartedButLongest(n) == [Fresh EXCEPT !.longest_healthy = n.longest_healthy]

\* Mutant: the connection seems to outlive the run.
RestartedButConnected(n) == [Fresh EXCEPT !.connected = n.connected]

\* restarted clears every static, and the futures of the run are dropped.
Restarted(n) == Fresh

Evidence(n) == n.connected /\ n.rssi /\ n.local_ready

\* The interval stops where known backpressure began.
HealthyUntil(n) ==
  IF n.blocked_since = None THEN n.healthy_since
  ELSE Most(0, n.healthy_since - n.blocked_since)

CurrentHealthy(n) ==
  IF n.healthy_since # None /\ Evidence(n) THEN HealthyUntil(n) ELSE 0

HealthyFor(n) == Most(CurrentHealthy(n), n.longest_healthy)

EndHealthyPeriod(n) ==
  IF n.healthy_since = None THEN n
  ELSE [n EXCEPT !.healthy_since = None,
                 !.longest_healthy = Most(@, Least(HealthyUntil(n), Healthy))]

\* Mutant: an interval goes on without an answer of the radio.
UpdateConnectedAnyway(n, connected, rssi) ==
  LET m == [n EXCEPT !.connected = connected, !.rssi = rssi,
                     !.local_ready = @ /\ connected,
                     !.failed_since = IF connected THEN @ ELSE None]
  IN  IF connected THEN m ELSE EndHealthyPeriod(m)

\* Mutant: the query clock runs on through a disconnection.
UpdateConnectedOldClock(n, connected, rssi) ==
  LET m == [n EXCEPT !.connected = connected, !.rssi = rssi,
                     !.local_ready = @ /\ connected]
  IN  IF connected /\ rssi THEN m ELSE EndHealthyPeriod(m)

UpdateConnected(n, connected, rssi) ==
  LET m == [n EXCEPT !.connected = connected, !.rssi = rssi,
                     !.local_ready = @ /\ connected,
                     !.failed_since = IF connected THEN @ ELSE None]
  IN  IF connected /\ rssi THEN m ELSE EndHealthyPeriod(m)

\* When a clock of recovery.rs started: at the first sample that is bad.
Since(clock, bad) == IF ~bad THEN None ELSE IF clock = None THEN 0 ELSE clock

Due(clock) == clock = Stale

\* record_connection_result; a deadline has signalled before.
Recorded(n, result) ==
  LET m == IF result = "Ok" THEN n ELSE UpdateConnected(n, FALSE, FALSE)
  IN  [m EXCEPT !.consecutive =
                  IF result = "Internal" THEN Least(@ + 1, InternalErrors) ELSE 0]

\* deadline of an operation.
Expired(result) == result = "Timeout"

\* DriverErrors: too many in a row.
Repeated(n) == n.consecutive = InternalErrors

Signalled(n, result) == Expired(result) \/ Repeated(n)

Signal(restart) == ending' = IF restart THEN ending \cup {"Restart"} ELSE ending

-----------------------------------------------------------------------------
(* The controller: one operation at a time holds its lock.                 *)

Keep == UNCHANGED loop

ConnectStarts ==
  /\ phase = "Running" /\ net.operation = "None"
  /\ net' = [UpdateConnected(net, FALSE, FALSE) EXCEPT !.operation = "Connect"]
  /\ UNCHANGED ending /\ Keep

\* The association may be lost again by the time it is asked for.
ConnectEnds(result) ==
  /\ phase = "Running" /\ net.operation = "Connect"
  /\ \E connected, rssi \in BOOLEAN :
       LET asked == IF result = "Ok" THEN UpdateConnected(net, connected, rssi) ELSE net
           n == Recorded([asked EXCEPT !.operation = "None"], result)
       IN  net' = n /\ Signal(Signalled(n, result))
  /\ Keep

\* scan, which only its end makes visible to others.
Scan(result) ==
  /\ phase = "Running" /\ net.operation = "None"
  /\ net' = IF result = "Ok" THEN net ELSE UpdateConnected(net, FALSE, FALSE)
  /\ Signal(Expired(result)) /\ Keep

\* wait_changed serves a pending request first.
DisconnectStarts ==
  /\ phase = "Running" /\ net.operation = "None" /\ net.disconnect_pending
  /\ net' = [UpdateConnected(net, FALSE, FALSE) EXCEPT !.operation = "Disconnect"]
  /\ UNCHANGED ending /\ Keep

DisconnectEnds(result) ==
  /\ phase = "Running" /\ net.operation = "Disconnect"
  /\ LET n == Recorded([net EXCEPT !.operation = "None"], result)
     IN  /\ net' = [n EXCEPT !.disconnect_pending = FALSE]
         /\ Signal(Signalled(n, result))
  /\ Keep

\* wait_changed: fetch_connected.
Watch(connected, rssi) ==
  /\ phase = "Running" /\ net.operation = "None"
  /\ LET n == UpdateConnected(net, connected, connected /\ rssi)
         clock == Since(n.failed_since, connected /\ ~rssi)
     IN  /\ net' = [n EXCEPT !.failed_since = clock]
         /\ Signal(Due(clock))
  /\ Keep

\* InterfaceMonitor; its error ends the stack.
Monitor(ready) ==
  /\ phase = "Running"
  /\ LET n == [net EXCEPT !.local_ready = ready]
         m == IF ~Evidence(n) THEN EndHealthyPeriod(n)
              ELSE IF n.healthy_since = None THEN [n EXCEPT !.healthy_since = 0] ELSE n
         clock == Since(n.missing_since, n.connected /\ ~ready)
     IN  /\ net' = [m EXCEPT !.missing_since = clock]
         /\ ending' = IF Due(clock) THEN ending \cup {"Error"} ELSE ending
  /\ Keep

-----------------------------------------------------------------------------
(* The transmit queue, as GuardedDriver sees it.                           *)

\* link_state: the alarm of the runner and every other poll of it end here.
Probe(linked, capacity) ==
  /\ phase = "Running"
  /\ LET clock == Since(net.blocked_since, linked /\ ~capacity)
         stalled == ~net.reported /\ Due(clock)
     IN  /\ net' = [net EXCEPT !.blocked_since = clock,
                              !.reported = clock # None /\ (@ \/ stalled)]
         /\ ending' = IF stalled THEN ending \cup {"Stall"} ELSE ending
  /\ Keep

\* receive and transmit, with a token.
Progress ==
  /\ phase = "Running"
  /\ net' = [net EXCEPT !.blocked_since = None, !.reported = FALSE]
  /\ UNCHANGED ending /\ Keep

-----------------------------------------------------------------------------
(* The console, and what else may end the stack.                           *)

\* request_disconnect, refused while not connected or still pending.
RequestDisconnect ==
  /\ net.connected /\ ~net.disconnect_pending
  /\ net' = [net EXCEPT !.disconnect_pending = TRUE]
  /\ UNCHANGED ending /\ Keep

\* "test network", after its reply was written.
RequestRestart == Signal(TRUE) /\ UNCHANGED net /\ Keep

StackFails == phase = "Running" /\ ending' = ending \cup {"Error"} /\ UNCHANGED net /\ Keep

-----------------------------------------------------------------------------
(* Time and the loop.                                                      *)

Older(age, limit) == IF age = None THEN None ELSE Least(age + 1, limit)

AlarmDue == Due(net.blocked_since) /\ ~net.reported

\* Time stands still until the select was polled and the alarm was served.
Advance ==
  /\ phase = "Running" /\ ending = {} /\ ~AlarmDue
  /\ net' = [net EXCEPT !.healthy_since = Older(@, Oldest),
                        !.failed_since = Older(@, Stale),
                        !.missing_since = Older(@, Stale),
                        !.blocked_since = Older(@, Stale)]
  /\ UNCHANGED ending /\ Keep

\* FirstDelay shifted left
Shifted(count) == FirstDelay * <<1, 2, 4, 8, 16>>[count + 1]

\* Mutant: the delay doubles without a limit.
NextDelayUnlimited(proven) ==
  LET count == IF proven THEN 0 ELSE failures
  IN  /\ delay' = Shifted(count)
      /\ failures' = Least(count + 1, Doublings)

\* next_delay_secs
NextDelay(proven) ==
  LET count == IF proven THEN 0 ELSE failures
  IN  /\ delay' = Least(Shifted(count), LastDelay)
      /\ failures' = Least(count + 1, Doublings)

\* The select is over.  Its first ready future wins: a stall that comes with
\* another ending is not counted.  Health is read before it is cleared.
RunEnds ==
  /\ phase = "Running" /\ ending # {}
  /\ LET proven == HealthyFor(net) >= Healthy
         incident == recreated /\ ~proven
         stall == ending = {"Stall"}
     IN  /\ recreated' = (incident \/ stall)
         /\ IF stall /\ incident
            THEN phase' = "Rebooting" /\ UNCHANGED <<net, failures, delay>>
            ELSE phase' = "Waiting" /\ net' = Restarted(net) /\ NextDelay(proven)
  /\ UNCHANGED ending

\* The loop starts over, with both signals reset.
Retry ==
  /\ phase = "Waiting"
  /\ phase' = "Running" /\ ending' = {}
  /\ UNCHANGED <<net, recreated, failures, delay>>

Booted ==
  /\ net' = Fresh /\ ending' = {} /\ phase' = "Running" /\ recreated' = FALSE
  /\ failures' = 0 /\ delay' = None

Reboot == phase = "Rebooting" /\ Booted

\* Any other reset of the ESP.
Reset == Booted

Init ==
  /\ net = Fresh /\ ending = {} /\ phase = "Running" /\ recreated = FALSE
  /\ failures = 0 /\ delay = None

Controller ==
  \/ ConnectStarts \/ DisconnectStarts
  \/ \E result \in Results : ConnectEnds(result) \/ Scan(result) \/ DisconnectEnds(result)
  \/ \E connected, rssi \in BOOLEAN : Watch(connected, rssi)

Queue == (\E linked, capacity \in BOOLEAN : Probe(linked, capacity)) \/ Progress

Around == RequestDisconnect \/ RequestRestart \/ StackFails \/ Reset

Untimed ==
  \/ Controller
  \/ \E ready \in BOOLEAN : Monitor(ready)
  \/ Queue
  \/ Around
  \/ RunEnds \/ Retry \/ Reboot

Next == Untimed \/ Advance

Spec == Init /\ [][Next]_vars

-----------------------------------------------------------------------------
(* Properties.                                                             *)

\* Types, and the range of the retry delay, 5 to 60 seconds (recovery.rs).
TypeOK ==
  /\ net \in Nets
  /\ ending \subseteq Endings
  /\ phase \in Phases
  /\ recreated \in BOOLEAN
  /\ failures \in 0..Doublings
  /\ delay \in (FirstDelay..LastDelay) \cup {None}

\* A healthy interval runs only while association, radio and address are
\* known, although each is written by another future (network.rs).
HealthHasEvidence == net.healthy_since # None => Evidence(net)

\* The minute of failed radio queries is one association: connecting,
\* scanning and disconnecting in between start it anew (recovery.rs,
\* AssociatedHealth; network.rs, update_connected).
StaleRadioWasAssociated == net.failed_since # None => net.connected

\* An interruption that the console asked for never hits the connection of a
\* later run: none is pending, or accepted, once the run is over (network.rs,
\* request_disconnect and restarted).
InterruptionStaysInItsRun == phase = "Waiting" => ~net.disconnect_pending
=============================================================================
