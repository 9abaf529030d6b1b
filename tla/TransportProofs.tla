--------------------------- MODULE TransportProofs ---------------------------
(***************************************************************************)
(* Proofs about the transport loop, for every length of its deadlines.     *)
(***************************************************************************)
EXTENDS TransportLive, TLAPS

\* What holds of the evidence alone; a run that is over has none.
NetOK(n) ==
  /\ n \in Nets
  /\ n.healthy_since # None => Evidence(n)
  /\ n.failed_since # None => n.connected

Inv ==
  /\ TypeOK
  /\ NetOK(net)
  /\ phase = "Waiting" => net = Fresh

LEMMA NoneIsNoAge == ASSUME NEW a \in Nat PROVE a # None
BY NoneAssumption

LEMMA OldestIsNat == Oldest \in Nat /\ Oldest >= Healthy /\ Oldest >= Stale /\ 0 \in 0..Stale
BY TransportAssumption DEF Oldest

LEMMA FreshIsOK == NetOK(Fresh)
<1>1. Fresh \in Nets
  BY TransportAssumption DEF Fresh, Nets
<1> QED
  BY <1>1 DEF NetOK, Fresh

\* Backpressure only shortens an interval.
LEMMA HealthyUntilType ==
  ASSUME NEW n \in Nets, n.healthy_since # None
  PROVE  HealthyUntil(n) \in 0..Oldest /\ HealthyUntil(n) <= n.healthy_since
<1>1. n.healthy_since \in 0..Oldest /\ n.blocked_since \in (0..Stale) \cup {None}
  BY DEF Nets
<1> QED
  BY <1>1, OldestIsNat, TransportAssumption DEF HealthyUntil, Most

LEMMA EndHealthyPeriodOK ==
  ASSUME NEW n \in Nets
  PROVE  /\ EndHealthyPeriod(n) \in Nets
         /\ EndHealthyPeriod(n).healthy_since = None
         /\ EndHealthyPeriod(n).failed_since = n.failed_since
         /\ EndHealthyPeriod(n).connected = n.connected
<1>1. CASE n.healthy_since = None
  BY <1>1 DEF EndHealthyPeriod
<1>2. CASE n.healthy_since # None
  <2>1. HealthyUntil(n) \in 0..Oldest
    BY <1>2, HealthyUntilType
  <2>2. n.longest_healthy \in 0..Healthy
    BY DEF Nets
  <2>3. Most(n.longest_healthy, Least(HealthyUntil(n), Healthy)) \in 0..Healthy
    BY <2>1, <2>2, OldestIsNat, TransportAssumption DEF Most, Least
  <2> QED
    BY <1>2, <2>3 DEF EndHealthyPeriod, Nets
<1> QED
  BY <1>1, <1>2

\* The state that a new sample leads to, before the interval is judged.
Sampled(n, connected, rssi) ==
  [n EXCEPT !.connected = connected, !.rssi = rssi,
            !.local_ready = @ /\ connected,
            !.failed_since = IF connected THEN @ ELSE None]

LEMMA SampledType ==
  ASSUME NEW n \in Nets, NEW connected \in BOOLEAN, NEW rssi \in BOOLEAN
  PROVE  /\ Sampled(n, connected, rssi) \in Nets
         /\ Sampled(n, connected, rssi).connected = connected
         /\ Sampled(n, connected, rssi).failed_since =
              IF connected THEN n.failed_since ELSE None
         /\ Sampled(n, connected, rssi).healthy_since = n.healthy_since
         /\ Sampled(n, connected, rssi).longest_healthy = n.longest_healthy
<1> DEFINE ready == n.local_ready /\ connected
           clock == IF connected THEN n.failed_since ELSE None
           m == [n EXCEPT !.connected = connected, !.rssi = rssi,
                          !.local_ready = ready, !.failed_since = clock]
<1>1. ready \in BOOLEAN
  OBVIOUS
<1>2. clock \in (0..Stale) \cup {None}
  BY DEF Nets
<1>3. Sampled(n, connected, rssi) = m
  BY DEF Sampled
<1> HIDE DEF ready, clock
<1>4. m \in Nets
  BY <1>1, <1>2 DEF Nets
<1>5. /\ m.connected = connected /\ m.failed_since = clock
      /\ m.healthy_since = n.healthy_since /\ m.longest_healthy = n.longest_healthy
  BY DEF Nets
<1> QED
  BY <1>3, <1>4, <1>5 DEF clock

LEMMA UpdateConnectedOK ==
  ASSUME NEW n, NetOK(n), NEW connected \in BOOLEAN, NEW rssi \in BOOLEAN
  PROVE  /\ NetOK(UpdateConnected(n, connected, rssi))
         /\ UpdateConnected(n, connected, rssi).connected = connected
<1> DEFINE m == Sampled(n, connected, rssi)
<1>1. m \in Nets
  BY SampledType DEF NetOK
<1>2. m.failed_since # None => m.connected
  BY SampledType DEF NetOK
<1>3. m.connected = connected
  BY SampledType DEF NetOK
<1>4. CASE connected /\ rssi
  <2>1. m.healthy_since # None => Evidence(m)
    BY <1>4 DEF NetOK, Nets, Evidence, Sampled
  <2>2. UpdateConnected(n, connected, rssi) = m
    BY <1>4 DEF UpdateConnected, Sampled
  <2> HIDE DEF m
  <2> QED
    BY <1>1, <1>2, <1>3, <2>1, <2>2 DEF NetOK
<1>5. CASE ~(connected /\ rssi)
  <2>1. UpdateConnected(n, connected, rssi) = EndHealthyPeriod(m)
    BY <1>5 DEF UpdateConnected, Sampled
  <2> HIDE DEF m
  <2> QED
    BY <1>1, <1>2, <1>3, <2>1, EndHealthyPeriodOK DEF NetOK
<1> QED
  BY <1>4, <1>5

LEMMA ShiftedType ==
  ASSUME NEW count \in 0..4 PROVE Shifted(count) \in Nat /\ Shifted(count) >= FirstDelay
<1>1. count \in {0, 1, 2, 3, 4} /\ FirstDelay \in Nat
  BY TransportAssumption
<1> QED
  BY <1>1 DEF Shifted

\* A retry waits between the first and the longest delay.
LEMMA NextDelayOK ==
  ASSUME TypeOK, NEW proven \in BOOLEAN, NextDelay(proven)
  PROVE  delay' \in FirstDelay..LastDelay /\ failures' \in 0..Doublings
<1> DEFINE count == IF proven THEN 0 ELSE failures
<1>1. count \in 0..Doublings /\ Doublings \in 0..4
  BY TransportAssumption DEF TypeOK
<1>2. count \in 0..4
  BY <1>1
<1>3. Shifted(count) \in Nat /\ Shifted(count) >= FirstDelay
  BY <1>2, ShiftedType
<1>4. delay' = Least(Shifted(count), LastDelay) /\ failures' = Least(count + 1, Doublings)
  BY DEF NextDelay
<1> HIDE DEF count
<1>5. delay' \in FirstDelay..LastDelay
  BY <1>3, <1>4, TransportAssumption DEF Least
<1>6. failures' \in 0..Doublings
  BY <1>1, <1>4 DEF Least
<1> QED
  BY <1>5, <1>6

\* The age of a clock stays within its limit.
LEMMA ClockType ==
  ASSUME NEW limit \in Nat, NEW age \in (0..limit) \cup {None}, NEW bad \in BOOLEAN
  PROVE  /\ Older(age, limit) \in (0..limit) \cup {None}
         /\ Since(age, bad) \in (0..limit) \cup {None}
         /\ Older(age, limit) # None <=> age # None
         /\ Since(age, bad) # None <=> bad
BY NoneAssumption DEF Older, Since, Least

\* What one operation of the driver records of its result.
LEMMA RecordedOK ==
  ASSUME NEW n, NetOK(n), NEW result \in Results
  PROVE  NetOK(Recorded(n, result))
<1> DEFINE m == IF result = "Ok" THEN n ELSE UpdateConnected(n, FALSE, FALSE)
           k == IF result = "Internal" THEN Least(m.consecutive + 1, InternalErrors) ELSE 0
<1>1. NetOK(m)
  BY UpdateConnectedOK
<1>2. Recorded(n, result) = [m EXCEPT !.consecutive = k]
  BY DEF Recorded
<1>3. m \in Nets /\ m.consecutive \in 0..InternalErrors
  BY <1>1 DEF NetOK, Nets
<1> HIDE DEF m
<1>4. k \in 0..InternalErrors
  BY <1>3, TransportAssumption DEF Least
<1> HIDE DEF k
<1> QED
  BY <1>1, <1>2, <1>3, <1>4 DEF NetOK, Nets, Evidence

LEMMA WithOperation ==
  ASSUME NEW n, NetOK(n), NEW op \in {"None", "Connect", "Disconnect"}
  PROVE  NetOK([n EXCEPT !.operation = op])
BY DEF NetOK, Nets, Evidence

-----------------------------------------------------------------------------
(* Every step keeps Inv.                                                   *)

\* The operations on the controller.
LEMMA ControllerKeepsInv == Inv /\ Controller => Inv'
<1> SUFFICES ASSUME Inv, Controller PROVE Inv'
  OBVIOUS
<1> USE DEF Inv
<1>0. phase = "Running" /\ Keep
  BY DEF Controller, ConnectStarts, DisconnectStarts, ConnectEnds, Scan, DisconnectEnds, Watch
<1>a. ASSUME NetOK(net'), ending' \subseteq Endings PROVE Inv'
  BY <1>0, <1>a DEF TypeOK, NetOK, Keep, loop
<1>b. ASSUME NEW x \in BOOLEAN, Signal(x) PROVE ending' \subseteq Endings
  BY <1>b DEF Signal, Endings, TypeOK
<1>1. CASE ConnectStarts
  BY <1>1, <1>a, UpdateConnectedOK, WithOperation DEF ConnectStarts, TypeOK
<1>2. CASE DisconnectStarts
  BY <1>2, <1>a, UpdateConnectedOK, WithOperation DEF DisconnectStarts, TypeOK
<1>3. ASSUME NEW result \in Results, ConnectEnds(result) PROVE Inv'
  <2> PICK connected \in BOOLEAN, rssi \in BOOLEAN :
        LET asked == IF result = "Ok" THEN UpdateConnected(net, connected, rssi) ELSE net
            n == Recorded([asked EXCEPT !.operation = "None"], result)
        IN  net' = n /\ Signal(Signalled(n, result))
    BY <1>3 DEF ConnectEnds
  <2> DEFINE asked == IF result = "Ok" THEN UpdateConnected(net, connected, rssi) ELSE net
             n == Recorded([asked EXCEPT !.operation = "None"], result)
  <2>1. NetOK(asked)
    BY UpdateConnectedOK
  <2>2. NetOK(n)
    BY <2>1, WithOperation, RecordedOK
  <2>3. Signalled(n, result) \in BOOLEAN
    BY DEF Signalled
  <2> QED
    BY <2>2, <2>3, <1>a, <1>b
<1>4. ASSUME NEW result \in Results, Scan(result) PROVE Inv'
  <2>1. NetOK(net')
    BY <1>4, UpdateConnectedOK DEF Scan
  <2>2. Signal(Expired(result))
    BY <1>4 DEF Scan
  <2> QED
    BY <2>1, <2>2, <1>a, <1>b DEF Expired
<1>5. ASSUME NEW result \in Results, DisconnectEnds(result) PROVE Inv'
  <2> DEFINE n == Recorded([net EXCEPT !.operation = "None"], result)
  <2>1. NetOK(n)
    BY WithOperation, RecordedOK
  <2>2. net' = [n EXCEPT !.disconnect_pending = FALSE] /\ Signal(Signalled(n, result))
    BY <1>5 DEF DisconnectEnds
  <2>3. Signalled(n, result) \in BOOLEAN
    BY DEF Signalled
  <2> HIDE DEF n
  <2>4. NetOK(net')
    BY <2>1, <2>2 DEF NetOK, Nets, Evidence
  <2> QED
    BY <2>2, <2>3, <2>4, <1>a, <1>b
<1>6. ASSUME NEW connected \in BOOLEAN, NEW rssi \in BOOLEAN, Watch(connected, rssi)
      PROVE  Inv'
  <2> DEFINE n == UpdateConnected(net, connected, connected /\ rssi)
             clock == Since(n.failed_since, connected /\ ~rssi)
  <2>1. NetOK(n) /\ n.connected = connected
    BY UpdateConnectedOK
  <2>2. n \in Nets /\ n.failed_since \in (0..Stale) \cup {None}
    BY <2>1 DEF NetOK, Nets
  <2>3. clock \in (0..Stale) \cup {None} /\ (clock # None => connected)
    BY <2>2, ClockType, TransportAssumption
  <2>4. net' = [n EXCEPT !.failed_since = clock] /\ Signal(Due(clock))
    BY <1>6 DEF Watch
  <2>5. Due(clock) \in BOOLEAN
    BY DEF Due
  <2> HIDE DEF n, clock
  <2>6. NetOK(net')
    BY <2>1, <2>2, <2>3, <2>4 DEF NetOK, Nets, Evidence
  <2> QED
    BY <2>4, <2>5, <2>6, <1>a, <1>b
<1> QED
  BY <1>1, <1>2, <1>3, <1>4, <1>5, <1>6 DEF Controller

\* The interface monitor.
LEMMA MonitorKeepsInv == ASSUME Inv, NEW ready \in BOOLEAN, Monitor(ready) PROVE Inv'
<1> USE DEF Inv
<1> DEFINE n == [net EXCEPT !.local_ready = ready]
           started == IF n.healthy_since = None THEN [n EXCEPT !.healthy_since = 0] ELSE n
           m == IF ~Evidence(n) THEN EndHealthyPeriod(n) ELSE started
           clock == Since(n.missing_since, n.connected /\ ~ready)
<1>1. n \in Nets /\ (n.failed_since # None => n.connected)
  BY DEF NetOK, Nets
<1>2. NetOK(m)
  <2>1. CASE ~Evidence(n)
    <3> HIDE DEF n
    <3> QED
      BY <2>1, <1>1, EndHealthyPeriodOK DEF NetOK
  <2>2. CASE Evidence(n)
    <3>1. m = started /\ 0 \in 0..Oldest
      BY <2>2, OldestIsNat
    <3> HIDE DEF n, m
    <3> QED
      BY <2>2, <3>1, <1>1 DEF NetOK, Nets, Evidence
  <2> QED
    BY <2>1, <2>2
<1>3. clock \in (0..Stale) \cup {None}
  <2>1. n.missing_since \in (0..Stale) \cup {None} /\ n.connected \in BOOLEAN
    BY <1>1 DEF Nets
  <2> HIDE DEF n
  <2> QED
    BY <2>1, ClockType, TransportAssumption
<1>4. /\ net' = [m EXCEPT !.missing_since = clock]
      /\ ending' = IF Due(clock) THEN ending \cup {"Error"} ELSE ending
      /\ phase = "Running" /\ Keep
  BY DEF Monitor
<1> HIDE DEF n, m, clock
<1>5. NetOK(net')
  BY <1>2, <1>3, <1>4 DEF NetOK, Nets, Evidence
<1>6. ending' \subseteq Endings
  BY <1>4 DEF Endings, TypeOK
<1> QED
  BY <1>4, <1>5, <1>6 DEF TypeOK, NetOK, Keep, loop

\* The driver's view of the transmit queue.
LEMMA QueueKeepsInv == Inv /\ Queue => Inv'
<1> SUFFICES ASSUME Inv, Queue PROVE Inv'
  OBVIOUS
<1> USE DEF Inv
<1>1. ASSUME NEW linked \in BOOLEAN, NEW capacity \in BOOLEAN, Probe(linked, capacity)
      PROVE  Inv'
  <2> DEFINE clock == Since(net.blocked_since, linked /\ ~capacity)
             stalled == ~net.reported /\ Due(clock)
  <2>1. clock \in (0..Stale) \cup {None}
    <3>1. net.blocked_since \in (0..Stale) \cup {None}
      BY DEF NetOK, Nets
    <3> QED
      BY <3>1, ClockType, TransportAssumption
  <2>2. (clock # None /\ (net.reported \/ stalled)) \in BOOLEAN
    BY DEF NetOK, Nets, Due
  <2>3. /\ net' = [net EXCEPT !.blocked_since = clock,
                              !.reported = clock # None /\ (@ \/ stalled)]
        /\ ending' = IF stalled THEN ending \cup {"Stall"} ELSE ending
        /\ phase = "Running" /\ Keep
    BY <1>1 DEF Probe
  <2> DEFINE reported == clock # None /\ (net.reported \/ stalled)
  <2> HIDE DEF clock, stalled
  <2>4. NetOK(net')
    <3>1. net' = [net EXCEPT !.blocked_since = clock, !.reported = reported]
      BY <2>3
    <3>2. reported \in BOOLEAN /\ net \in Nets
      BY <2>2 DEF NetOK
    <3> HIDE DEF reported
    <3>3. net' \in Nets
      BY <2>1, <3>1, <3>2 DEF Nets
    <3> QED
      BY <3>1, <3>2, <3>3 DEF NetOK, Nets, Evidence
  <2>5. ending' \subseteq Endings
    BY <2>3 DEF Endings, TypeOK
  <2> QED
    BY <2>3, <2>4, <2>5 DEF TypeOK, NetOK, Keep, loop
<1>2. CASE Progress
  <2>1. NetOK(net')
    BY <1>2 DEF Progress, NetOK, Nets, Evidence
  <2> QED
    BY <1>2, <2>1 DEF Progress, TypeOK, NetOK, Keep, loop
<1> QED
  BY <1>1, <1>2 DEF Queue

LEMMA BootedOK == Inv /\ Booted => Inv'
<1> SUFFICES ASSUME Booted PROVE Inv'
  OBVIOUS
<1>1. NetOK(net') /\ net' \in Nets
  BY FreshIsOK DEF Booted, NetOK
<1>2. 0 \in 0..Doublings
  BY TransportAssumption
<1>3. TypeOK'
  BY <1>1, <1>2 DEF Booted, TypeOK, Phases
<1> QED
  BY <1>1, <1>3 DEF Inv, Booted, NetOK, Evidence

\* The console, the rest of the stack and a reset.
LEMMA AroundKeepsInv == Inv /\ Around => Inv'
<1> SUFFICES ASSUME Inv, Around PROVE Inv'
  OBVIOUS
<1> USE DEF Inv
<1>1. CASE RequestDisconnect
  <2>1. phase # "Waiting"
    BY <1>1 DEF RequestDisconnect, Fresh
  <2>2. NetOK(net')
    BY <1>1 DEF RequestDisconnect, NetOK, Nets, Evidence
  <2> QED
    BY <1>1, <2>1, <2>2 DEF RequestDisconnect, TypeOK, NetOK, Keep, loop
<1>2. CASE RequestRestart
  BY <1>2 DEF RequestRestart, Signal, Endings, TypeOK, NetOK, Keep, loop
<1>3. CASE StackFails
  BY <1>3 DEF StackFails, Endings, TypeOK, NetOK, Keep, loop
<1>4. CASE Reset
  BY <1>4, BootedOK DEF Reset
<1> QED
  BY <1>1, <1>2, <1>3, <1>4 DEF Around

LEMMA AdvanceKeepsInv == Inv /\ Advance => Inv'
<1> SUFFICES ASSUME Inv, Advance PROVE Inv'
  OBVIOUS
<1> USE DEF Inv
<1>1. /\ net.healthy_since \in (0..Oldest) \cup {None}
      /\ net.failed_since \in (0..Stale) \cup {None}
      /\ net.missing_since \in (0..Stale) \cup {None}
      /\ net.blocked_since \in (0..Stale) \cup {None}
  BY DEF NetOK, Nets
<1>2. Stale \in Nat /\ Oldest \in Nat
  BY OldestIsNat, TransportAssumption
<1> DEFINE h == Older(net.healthy_since, Oldest)
           f == Older(net.failed_since, Stale)
           i == Older(net.missing_since, Stale)
           b == Older(net.blocked_since, Stale)
<1>3. /\ h \in (0..Oldest) \cup {None} /\ (h # None => net.healthy_since # None)
      /\ f \in (0..Stale) \cup {None} /\ (f # None => net.failed_since # None)
      /\ i \in (0..Stale) \cup {None}
      /\ b \in (0..Stale) \cup {None}
  BY <1>1, <1>2, ClockType
<1>4. net' = [net EXCEPT !.healthy_since = h, !.failed_since = f,
                        !.missing_since = i, !.blocked_since = b]
  BY DEF Advance
<1> HIDE DEF h, f, i, b
<1>5. NetOK(net')
  BY <1>3, <1>4 DEF NetOK, Nets, Evidence
<1> QED
  BY <1>5 DEF Advance, TypeOK, NetOK, Keep, loop

\* The end of a run, the next one, and a reboot.
LEMMA LoopKeepsInv == Inv /\ (RunEnds \/ Retry \/ Reboot) => Inv'
<1> SUFFICES ASSUME Inv, RunEnds \/ Retry \/ Reboot PROVE Inv'
  OBVIOUS
<1> USE DEF Inv
<1>1. CASE RunEnds
  <2> DEFINE proven == HealthyFor(net) >= Healthy
             incident == recreated /\ ~proven
             stall == ending = {"Stall"}
  <2>1. proven \in BOOLEAN /\ (incident \/ stall) \in BOOLEAN
    BY DEF TypeOK
  <2>2. /\ recreated' = (incident \/ stall)
        /\ IF stall /\ incident
           THEN phase' = "Rebooting" /\ UNCHANGED <<net, failures, delay>>
           ELSE phase' = "Waiting" /\ net' = Restarted(net) /\ NextDelay(proven)
        /\ UNCHANGED ending
    BY <1>1 DEF RunEnds
  <2>3. CASE stall /\ incident
    BY <2>1, <2>2, <2>3 DEF TypeOK, NetOK, Phases
  <2>4. CASE ~(stall /\ incident)
    <3>1. NetOK(net') /\ net' = Fresh
      BY <2>2, <2>4, FreshIsOK DEF Restarted
    <3>2. delay' \in FirstDelay..LastDelay /\ failures' \in 0..Doublings
      BY <2>1, <2>2, <2>4, NextDelayOK
    <3> HIDE DEF proven, incident, stall
    <3> QED
      BY <2>1, <2>2, <2>4, <3>1, <3>2 DEF TypeOK, NetOK, Phases
  <2> QED
    BY <2>3, <2>4
<1>2. CASE Retry
  BY <1>2 DEF Retry, TypeOK, NetOK, Phases, Endings
<1>3. CASE Reboot
  BY <1>3, BootedOK DEF Reboot
<1> QED
  BY <1>1, <1>2, <1>3

LEMMA InvInit == Init => Inv
<1> SUFFICES ASSUME Init PROVE Inv
  OBVIOUS
<1>1. NetOK(net) /\ net \in Nets
  BY FreshIsOK DEF Init, NetOK
<1>2. 0 \in 0..Doublings
  BY TransportAssumption
<1>3. TypeOK
  BY <1>1, <1>2 DEF Init, TypeOK, Phases
<1> QED
  BY <1>1, <1>3 DEF Inv, Init

LEMMA InvStep == Inv /\ [Next]_vars => Inv'
<1> SUFFICES ASSUME Inv, [Next]_vars PROVE Inv'
  OBVIOUS
<1>1. CASE UNCHANGED vars
  BY <1>1 DEF vars, Inv, TypeOK, NetOK, Evidence
<1>2. CASE Next
  BY <1>2, ControllerKeepsInv, MonitorKeepsInv, QueueKeepsInv, AroundKeepsInv,
     LoopKeepsInv, AdvanceKeepsInv DEF Next, Untimed
<1> QED
  BY <1>1, <1>2

LEMMA SpecInv == Spec => []Inv
BY InvInit, InvStep, PTL DEF Spec

-----------------------------------------------------------------------------
\* The values of the evidence and of the loop stay in their ranges; a retry
\* waits between the first and the longest delay (recovery.rs).
THEOREM TypeCorrect == Spec => []TypeOK
<1>1. Inv => TypeOK
  BY DEF Inv
<1> QED
  BY <1>1, SpecInv, PTL

\* A healthy interval runs only while the radio, the address and the
\* association are known, whatever the order in which they are lost
\* (network.rs).
THEOREM HealthNeedsEvidence == Spec => []HealthHasEvidence
<1>1. Inv => HealthHasEvidence
  BY DEF Inv, NetOK, HealthHasEvidence
<1> QED
  BY <1>1, SpecInv, PTL

\* The clock of failed radio queries never runs on over a disconnection
\* (recovery.rs, AssociatedHealth).
THEOREM StaleRadioIsAssociated == Spec => []StaleRadioWasAssociated
<1>1. Inv => StaleRadioWasAssociated
  BY DEF Inv, NetOK, StaleRadioWasAssociated
<1> QED
  BY <1>1, SpecInv, PTL

\* No interruption is pending once the run it was asked of is over
\* (network.rs, restarted).
THEOREM InterruptionsStay == Spec => []InterruptionStaysInItsRun
<1>1. Inv => InterruptionStaysInItsRun
  BY DEF Inv, Fresh, InterruptionStaysInItsRun
<1> QED
  BY <1>1, SpecInv, PTL

-----------------------------------------------------------------------------
(* Health is proven: an interval never is older than its evidence.         *)

\* What an update may do to the intervals: end the present one, and count it.
Counted(n, m) ==
  /\ m.healthy_since \in {None, n.healthy_since}
  /\ \/ m.longest_healthy <= n.longest_healthy
     \/ n.healthy_since # None /\ m.longest_healthy <= n.healthy_since

\* The ghosts of TransportLive bound both intervals.
ProofInv ==
  /\ proof \in 0..Oldest /\ best \in 0..Oldest /\ proof <= best
  /\ calm \in BOOLEAN
  /\ ~calm => /\ net.healthy_since # None => net.healthy_since <= proof
              /\ net.longest_healthy <= best

\* The last delay is the one before the next, or the longest.
DelayInv ==
  delay # None =>
    \/ failures > 0 /\ delay = Least(Shifted(failures - 1), LastDelay)
    \/ failures = Doublings /\ delay = LastDelay

LiveInv == Inv /\ ProofInv /\ DelayInv

LEMMA EndHealthyPeriodCounts ==
  ASSUME NEW n \in Nets PROVE Counted(n, EndHealthyPeriod(n))
<1>1. CASE n.healthy_since = None
  BY <1>1, TransportAssumption DEF EndHealthyPeriod, Counted, Nets
<1>2. CASE n.healthy_since # None
  <2>1. HealthyUntil(n) \in 0..Oldest /\ HealthyUntil(n) <= n.healthy_since
    BY <1>2, HealthyUntilType
  <2>2. n.longest_healthy \in 0..Healthy /\ n.healthy_since \in 0..Oldest
    BY <1>2 DEF Nets
  <2> DEFINE l == Most(n.longest_healthy, Least(HealthyUntil(n), Healthy))
  <2>3. l <= n.longest_healthy \/ l <= n.healthy_since
    BY <2>1, <2>2, OldestIsNat, TransportAssumption DEF Most, Least
  <2>4. /\ EndHealthyPeriod(n).healthy_since = None
        /\ EndHealthyPeriod(n).longest_healthy = l
    BY <1>2 DEF EndHealthyPeriod, Nets
  <2> HIDE DEF l
  <2> QED
    BY <1>2, <2>3, <2>4 DEF Counted
<1> QED
  BY <1>1, <1>2

LEMMA UpdateConnectedCounts ==
  ASSUME NEW n, NetOK(n), NEW connected \in BOOLEAN, NEW rssi \in BOOLEAN
  PROVE  Counted(n, UpdateConnected(n, connected, rssi))
<1> DEFINE m == Sampled(n, connected, rssi)
<1>1. /\ m \in Nets /\ m.healthy_since = n.healthy_since
      /\ m.longest_healthy = n.longest_healthy
  BY SampledType DEF NetOK
<1>2. UpdateConnected(n, connected, rssi) = m
      \/ UpdateConnected(n, connected, rssi) = EndHealthyPeriod(m)
  BY DEF UpdateConnected, Sampled
<1>3. n.longest_healthy \in Nat
  BY TransportAssumption DEF NetOK, Nets
<1> HIDE DEF m
<1>4. Counted(m, EndHealthyPeriod(m)) /\ Counted(m, m)
  BY <1>1, <1>3, EndHealthyPeriodCounts DEF Counted
<1> QED
  BY <1>1, <1>2, <1>4 DEF Counted

\* An interval that was ended is not ended again.
LEMMA CountedTwice ==
  ASSUME NEW n \in Nets, NEW m \in Nets, NEW k \in Nets, Counted(n, m), Counted(m, k)
  PROVE  Counted(n, k)
<1>1. /\ n.longest_healthy \in Nat /\ m.longest_healthy \in Nat /\ k.longest_healthy \in Nat
      /\ n.healthy_since \in Nat \cup {None}
      /\ m.healthy_since \in Nat \cup {None}
  BY OldestIsNat, TransportAssumption DEF Nets
<1> QED
  BY <1>1 DEF Counted

LEMMA RecordedCounts ==
  ASSUME NEW n, NetOK(n), NEW result \in Results
  PROVE  Counted(n, Recorded(n, result))
<1> DEFINE m == IF result = "Ok" THEN n ELSE UpdateConnected(n, FALSE, FALSE)
           k == IF result = "Internal" THEN Least(m.consecutive + 1, InternalErrors) ELSE 0
<1>1. NetOK(m)
  BY UpdateConnectedOK
<1>2. n.longest_healthy \in Nat
  BY TransportAssumption DEF NetOK, Nets
<1>3. Counted(n, m)
  <2>1. Counted(n, n)
    BY <1>2 DEF Counted
  <2>2. Counted(n, UpdateConnected(n, FALSE, FALSE))
    BY UpdateConnectedCounts
  <2> QED
    BY <2>1, <2>2
<1>4. Recorded(n, result) = [m EXCEPT !.consecutive = k]
  BY DEF Recorded
<1> HIDE DEF m, k
<1> QED
  BY <1>1, <1>3, <1>4 DEF Counted, NetOK, Nets

\* What an untimed step does to the intervals.
Untouched == \/ Counted(net, net') \/ net' = Fresh
             \/ net'.healthy_since = 0 /\ net'.longest_healthy = net.longest_healthy

LEMMA ControllerCounts == Inv /\ Controller => Untouched
<1> SUFFICES ASSUME Inv, Controller PROVE Counted(net, net')
  BY DEF Untouched
<1>0. NetOK(net) /\ net \in Nets /\ net.longest_healthy \in Nat
  BY TransportAssumption DEF Inv, NetOK, Nets
<1>a. ASSUME NEW n, NetOK(n), NEW op \in {"None", "Connect", "Disconnect"}, Counted(net, n)
      PROVE  Counted(net, [n EXCEPT !.operation = op])
  BY <1>a DEF Counted, NetOK, Nets
<1>b. Counted(net, net)
  BY <1>0 DEF Counted
<1>1. CASE ConnectStarts
  BY <1>0, <1>1, <1>a, UpdateConnectedOK, UpdateConnectedCounts DEF ConnectStarts
<1>2. CASE DisconnectStarts
  BY <1>0, <1>2, <1>a, UpdateConnectedOK, UpdateConnectedCounts DEF DisconnectStarts
<1>3. ASSUME NEW result \in Results, ConnectEnds(result) PROVE Counted(net, net')
  <2> PICK connected \in BOOLEAN, rssi \in BOOLEAN :
        LET asked == IF result = "Ok" THEN UpdateConnected(net, connected, rssi) ELSE net
            n == Recorded([asked EXCEPT !.operation = "None"], result)
        IN  net' = n
    BY <1>3 DEF ConnectEnds
  <2> DEFINE asked == IF result = "Ok" THEN UpdateConnected(net, connected, rssi) ELSE net
             idle == [asked EXCEPT !.operation = "None"]
  <2>1. NetOK(asked) /\ Counted(net, asked)
    BY <1>0, <1>b, UpdateConnectedOK, UpdateConnectedCounts
  <2>2. NetOK(idle) /\ Counted(net, idle)
    <3> HIDE DEF asked
    <3> QED
      BY <2>1, <1>a, WithOperation
  <2>3. net' = Recorded(idle, result)
    OBVIOUS
  <2> HIDE DEF idle
  <2>4. NetOK(net') /\ Counted(idle, net')
    BY <2>2, <2>3, RecordedOK, RecordedCounts
  <2> QED
    BY <1>0, <2>2, <2>4, CountedTwice DEF NetOK
<1>4. ASSUME NEW result \in Results, Scan(result) PROVE Counted(net, net')
  BY <1>0, <1>4, <1>b, UpdateConnectedCounts DEF Scan
<1>5. ASSUME NEW result \in Results, DisconnectEnds(result) PROVE Counted(net, net')
  <2> DEFINE idle == [net EXCEPT !.operation = "None"]
             n == Recorded(idle, result)
  <2>1. NetOK(idle) /\ Counted(net, idle)
    BY <1>0, <1>a, <1>b, WithOperation
  <2>2. net' = [n EXCEPT !.disconnect_pending = FALSE]
    BY <1>5 DEF DisconnectEnds
  <2> HIDE DEF idle
  <2>3. NetOK(n) /\ Counted(idle, n)
    BY <2>1, RecordedOK, RecordedCounts
  <2>4. Counted(net, n) /\ n \in Nets
    BY <1>0, <2>1, <2>3, CountedTwice DEF NetOK
  <2> HIDE DEF n
  <2> QED
    BY <2>2, <2>4 DEF Counted, Nets
<1>6. ASSUME NEW connected \in BOOLEAN, NEW rssi \in BOOLEAN, Watch(connected, rssi)
      PROVE  Counted(net, net')
  <2> DEFINE n == UpdateConnected(net, connected, connected /\ rssi)
             clock == Since(n.failed_since, connected /\ ~rssi)
  <2>1. NetOK(n) /\ Counted(net, n)
    BY <1>0, UpdateConnectedOK, UpdateConnectedCounts
  <2>2. net' = [n EXCEPT !.failed_since = clock]
    BY <1>6 DEF Watch
  <2> HIDE DEF n, clock
  <2> QED
    BY <2>1, <2>2 DEF Counted, NetOK, Nets
<1> QED
  BY <1>1, <1>2, <1>3, <1>4, <1>5, <1>6 DEF Controller

LEMMA MonitorCounts ==
  ASSUME Inv, NEW ready \in BOOLEAN, Monitor(ready) PROVE Untouched
<1> DEFINE n == [net EXCEPT !.local_ready = ready]
           started == IF n.healthy_since = None THEN [n EXCEPT !.healthy_since = 0] ELSE n
           m == IF ~Evidence(n) THEN EndHealthyPeriod(n) ELSE started
           clock == Since(n.missing_since, n.connected /\ ~ready)
<1>1. /\ n \in Nets /\ n.healthy_since = net.healthy_since
      /\ n.longest_healthy = net.longest_healthy /\ net.longest_healthy \in Nat
  BY TransportAssumption DEF Inv, NetOK, Nets
<1>2. net' = [m EXCEPT !.missing_since = clock]
  BY DEF Monitor
<1>3. CASE ~Evidence(n)
  <2>1. m = EndHealthyPeriod(n)
    BY <1>3
  <2> HIDE DEF n, m, clock
  <2>2. m \in Nets /\ Counted(n, m)
    BY <1>1, <2>1, EndHealthyPeriodOK, EndHealthyPeriodCounts
  <2> QED
    BY <1>1, <1>2, <2>2 DEF Counted, Nets, Untouched
<1>4. CASE Evidence(n)
  <2>1. m = started
    BY <1>4
  <2> HIDE DEF n, m, clock
  <2> QED
    BY <1>1, <1>2, <2>1 DEF Counted, Nets, Untouched
<1> QED
  BY <1>3, <1>4

LEMMA UntimedCounts == Inv /\ Untimed => Untouched
<1> SUFFICES ASSUME Inv, Untimed PROVE Untouched
  OBVIOUS
<1>1. net \in Nets /\ net.longest_healthy \in Nat
  BY TransportAssumption DEF Inv, NetOK, Nets
<1>2. CASE Controller
  BY <1>2, ControllerCounts
<1>3. CASE \E ready \in BOOLEAN : Monitor(ready)
  BY <1>3, MonitorCounts
<1>4. CASE Queue
  <2>1. /\ net'.healthy_since = net.healthy_since
        /\ net'.longest_healthy = net.longest_healthy
    BY <1>1, <1>4 DEF Queue, Probe, Progress, Nets
  <2> QED
    BY <1>1, <2>1 DEF Untouched, Counted
<1>5. CASE Around
  <2>1. \/ net' = Fresh
        \/ /\ net'.healthy_since = net.healthy_since
           /\ net'.longest_healthy = net.longest_healthy
    BY <1>1, <1>5 DEF Around, RequestDisconnect, RequestRestart, StackFails, Reset, Booted,
                      Keep, Nets
  <2> QED
    BY <1>1, <2>1 DEF Untouched, Counted
<1>6. CASE RunEnds \/ Retry \/ Reboot
  BY <1>1, <1>6 DEF RunEnds, Retry, Reboot, Booted, Restarted, Untouched, Counted
<1> QED
  BY <1>2, <1>3, <1>4, <1>5, <1>6 DEF Untimed

LEMMA TimedOrUntimed == LiveNext => [Next]_vars
BY DEF LiveNext, Disturbed, CalmComes, Calm, CalmProbe, CalmTime, CalmLoop, CalmOperation,
       CalmSamples, CalmEnds, Next, Untimed, Controller, Queue, Results

\* The ghosts keep up with an untimed step.
LEMMA UntimedIsProven ==
  Inv /\ Inv' /\ ProofInv /\ ~calm /\ Untimed /\ Follows(0) /\ UNCHANGED calm => ProofInv'
<1> SUFFICES ASSUME Inv, Inv', ProofInv, ~calm, Untimed, Follows(0), UNCHANGED calm
             PROVE  ProofInv'
  OBVIOUS
<1>1. /\ Oldest \in Nat /\ proof \in 0..Oldest /\ best \in 0..Oldest
  BY OldestIsNat DEF ProofInv
<1>2. /\ net.healthy_since \in (0..Oldest) \cup {None} /\ net.longest_healthy \in Nat
      /\ net'.healthy_since \in (0..Oldest) \cup {None} /\ net'.longest_healthy \in Nat
      /\ net.healthy_since # None => Evidence(net)
      /\ net'.healthy_since # None => Evidence(net')
  BY TransportAssumption DEF Inv, NetOK, Nets
<1>3. Fresh.healthy_since = None /\ Fresh.longest_healthy = 0 /\ ~Evidence(Fresh)
  BY DEF Fresh, Evidence
<1>4. proof' = IF Evidence(net) /\ Evidence(net') THEN proof ELSE 0
  BY <1>1 DEF Follows, Least
<1>5. CASE net' = Fresh
  BY <1>1, <1>3, <1>4, <1>5 DEF Follows, Most, ProofInv
<1>6. CASE net' # Fresh
  <2>1. phase' # "Waiting"
    BY <1>6 DEF Inv
  <2>2. best' = Most(best, proof')
    BY <1>6, <2>1 DEF Follows
  <2>3. proof' \in 0..Oldest /\ best' \in 0..Oldest /\ proof' <= best' /\ best <= best'
    BY <1>1, <1>4, <2>2 DEF Most
  <2>4. \/ Counted(net, net')
        \/ net'.healthy_since = 0 /\ net'.longest_healthy = net.longest_healthy
    BY <1>6, UntimedCounts DEF Untouched
  <2>5. net'.healthy_since # None => net'.healthy_since <= proof'
    BY <1>1, <1>2, <1>4, <2>3, <2>4 DEF Counted, ProofInv
  <2>6. net'.longest_healthy <= best
    BY <1>1, <1>2, <2>4 DEF Counted, ProofInv
  <2> QED
    BY <1>1, <1>2, <2>3, <2>5, <2>6 DEF ProofInv
<1> QED
  BY <1>5, <1>6

\* So they do when time passes.
LEMMA TimeIsProven ==
  Inv /\ ProofInv /\ ~calm /\ Advance /\ Follows(1) /\ UNCHANGED calm => ProofInv'
<1> SUFFICES ASSUME Inv, ProofInv, ~calm, Advance, Follows(1), UNCHANGED calm
             PROVE  ProofInv'
  OBVIOUS
<1>1. /\ Oldest \in Nat /\ proof \in 0..Oldest /\ best \in 0..Oldest
      /\ net.healthy_since \in (0..Oldest) \cup {None} /\ net.longest_healthy \in Nat
      /\ net.healthy_since # None => Evidence(net)
  BY OldestIsNat, TransportAssumption DEF ProofInv, Inv, NetOK, Nets
<1>2. /\ net'.healthy_since = Older(net.healthy_since, Oldest)
      /\ net'.longest_healthy = net.longest_healthy
      /\ Evidence(net') <=> Evidence(net)
  BY DEF Advance, Inv, NetOK, Nets, Evidence
<1>3. Fresh.healthy_since = None /\ Fresh.longest_healthy = 0 /\ ~Evidence(Fresh)
  BY DEF Fresh, Evidence
<1>4. proof' = IF Evidence(net) THEN Least(proof + 1, Oldest) ELSE 0
  BY <1>2 DEF Follows
<1>5. CASE net' = Fresh
  BY <1>1, <1>2, <1>3, <1>4, <1>5 DEF Follows, Most, ProofInv
<1>6. CASE net' # Fresh
  <2>1. best' = Most(best, proof')
    BY <1>6 DEF Follows, Advance, Keep, loop
  <2>2. proof' \in 0..Oldest
    BY <1>1, <1>4 DEF Least
  <2>3. best' \in 0..Oldest /\ proof' <= best' /\ best <= best'
    BY <1>1, <2>1, <2>2 DEF Most
  <2>4. net'.healthy_since # None => net'.healthy_since <= proof'
    BY <1>1, <1>2, <1>4, NoneAssumption DEF Older, Least, ProofInv
  <2>5. net'.longest_healthy <= best
    BY <1>2 DEF ProofInv
  <2> QED
    BY <1>1, <1>2, <2>2, <2>3, <2>4, <2>5 DEF ProofInv
<1> QED
  BY <1>5, <1>6

\* The loop keeps the relation of the delay and the count behind it.
LEMMA DelayStep == Inv /\ DelayInv /\ [Next]_vars => DelayInv'
<1> SUFFICES ASSUME Inv, DelayInv, [Next]_vars PROVE DelayInv'
  OBVIOUS
<1>1. CASE UNCHANGED <<failures, delay>>
  BY <1>1 DEF DelayInv, Shifted
<1>2. CASE Booted
  BY <1>2 DEF Booted, DelayInv
<1>3. ASSUME NEW proven \in BOOLEAN, NextDelay(proven) PROVE DelayInv'
  <2> DEFINE count == IF proven THEN 0 ELSE failures
  <2>1. count \in 0..Doublings /\ Doublings \in 0..4 /\ FirstDelay \in Nat
    BY TransportAssumption DEF Inv, TypeOK
  <2>2. delay' = Least(Shifted(count), LastDelay) /\ failures' = Least(count + 1, Doublings)
    BY <1>3 DEF NextDelay
  <2> HIDE DEF count
  <2>3. CASE count = Doublings
    <3>1. Shifted(count) >= LastDelay /\ Shifted(count) \in Nat
      BY <2>3, ShiftedType, TransportAssumption DEF Shifted
    <3>2. delay' = LastDelay /\ failures' = Doublings
      BY <2>1, <2>2, <2>3, <3>1, TransportAssumption DEF Least
    <3> QED
      BY <3>2 DEF DelayInv
  <2>4. CASE count # Doublings
    <3>1. failures' = count + 1 /\ failures' - 1 = count /\ failures' > 0
      BY <2>1, <2>2, <2>4 DEF Least
    <3> QED
      BY <2>2, <3>1 DEF DelayInv, Shifted
  <2> QED
    BY <2>3, <2>4
<1>4. CASE RunEnds
  <2>1. UNCHANGED <<failures, delay>> \/ NextDelay(HealthyFor(net) >= Healthy)
    BY <1>4 DEF RunEnds
  <2>2. (HealthyFor(net) >= Healthy) \in BOOLEAN
    OBVIOUS
  <2> QED
    BY <1>1, <1>3, <2>1, <2>2
<1>5. UNCHANGED <<failures, delay>> \/ Booted \/ RunEnds
  <2>1. CASE Untimed
    BY <2>1 DEF Untimed, Controller, ConnectStarts, DisconnectStarts, ConnectEnds, Scan,
                DisconnectEnds, Watch, Monitor, Queue, Probe, Progress, Around,
                RequestDisconnect, RequestRestart, StackFails, Reset, Reboot, Retry, Keep, loop
  <2>2. CASE Advance \/ UNCHANGED vars
    BY <2>2 DEF Advance, Keep, loop, vars
  <2> QED
    BY <2>1, <2>2 DEF Next
<1> QED
  BY <1>1, <1>2, <1>4, <1>5

LEMMA LiveInvInit == LiveInit => LiveInv
<1> SUFFICES ASSUME LiveInit PROVE LiveInv
  OBVIOUS
<1>1. Inv /\ DelayInv
  BY InvInit DEF LiveInit, Init, DelayInv
<1>2. 0 \in 0..Oldest /\ 0 <= 0
  BY OldestIsNat
<1>3. net.healthy_since = None /\ net.longest_healthy = 0
  BY DEF LiveInit, Init, Fresh
<1>4. proof = 0 /\ best = 0 /\ calm \in BOOLEAN
  BY DEF LiveInit
<1>5. ProofInv
  BY <1>2, <1>3, <1>4, Zenon DEF ProofInv
<1> QED
  BY <1>1, <1>5 DEF LiveInv

LEMMA LiveInvStep == LiveInv /\ [LiveNext]_liveVars => LiveInv'
<1> SUFFICES ASSUME LiveInv, [LiveNext]_liveVars PROVE LiveInv'
  OBVIOUS
<1>1. [Next]_vars
  BY TimedOrUntimed DEF liveVars
<1>2. Inv /\ Inv' /\ DelayInv'
  BY <1>1, InvStep, DelayStep DEF LiveInv
<1>3. ProofInv'
  <2>1. CASE UNCHANGED liveVars
    BY <2>1 DEF liveVars, vars, LiveInv, ProofInv
  <2>2. CASE Disturbed
    BY <1>2, <2>2, UntimedIsProven, TimeIsProven DEF Disturbed, LiveInv
  <2>3. CASE CalmComes
    <3>1. proof' = 0 /\ best' = 0 /\ calm' /\ calm' \in BOOLEAN
      BY <2>3 DEF CalmComes
    <3>2. 0 \in 0..Oldest /\ 0 <= 0
      BY OldestIsNat
    <3> QED
      BY <3>1, <3>2 DEF ProofInv
  <2>4. CASE calm /\ UNCHANGED <<calm, proof, best>>
    BY <2>4 DEF LiveInv, ProofInv
  <2>5. CASE CalmEnds
    <3>1. net'.healthy_since = None /\ net'.longest_healthy = 0
      BY <2>5 DEF CalmEnds, Reboot, Booted, Fresh
    <3>2. proof' = proof /\ best' = best /\ calm' \in BOOLEAN
      BY <2>5 DEF CalmEnds
    <3>3. best \in Nat
      BY OldestIsNat DEF LiveInv, ProofInv
    <3>4. net'.longest_healthy <= best'
      BY <3>1, <3>2, <3>3
    <3> QED
      BY <3>1, <3>2, <3>4 DEF LiveInv, ProofInv
  <2>6. \/ UNCHANGED liveVars \/ Disturbed \/ CalmComes \/ CalmEnds
        \/ calm /\ UNCHANGED <<calm, proof, best>>
    BY DEF LiveNext, CalmProbe, CalmTime, CalmLoop, CalmOperation, CalmSamples, Calm
  <2> QED
    BY <2>1, <2>2, <2>3, <2>4, <2>5, <2>6
<1> QED
  BY <1>2, <1>3 DEF LiveInv

LEMMA LiveSpecInv == LiveSpec => []LiveInv
BY LiveInvInit, LiveInvStep, PTL DEF LiveSpec

LEMMA HealthyForType == Inv => HealthyFor(net) \in Int
<1> SUFFICES ASSUME Inv PROVE HealthyFor(net) \in Int
  OBVIOUS
<1>1. net \in Nets /\ net.longest_healthy \in Nat
  BY TransportAssumption DEF Inv, NetOK, Nets
<1>2. CurrentHealthy(net) \in Int
  BY <1>1, HealthyUntilType, OldestIsNat DEF CurrentHealthy
<1> QED
  BY <1>1, <1>2 DEF HealthyFor, Most

\* The time that counts as healthy was observed without a gap.
LEMMA ProvenHealth == LiveInv /\ ~calm => HealthyFor(net) <= best
<1> SUFFICES ASSUME LiveInv, ~calm PROVE HealthyFor(net) <= best
  OBVIOUS
<1>1. net \in Nets /\ net.longest_healthy \in Nat /\ net.longest_healthy <= best
      /\ best \in Nat /\ proof \in Nat /\ proof <= best
  BY OldestIsNat, TransportAssumption DEF LiveInv, Inv, NetOK, ProofInv, Nets
<1>2. CurrentHealthy(net) \in Nat /\ CurrentHealthy(net) <= best
  <2>1. CASE net.healthy_since # None
    <3>1. /\ HealthyUntil(net) \in 0..Oldest /\ HealthyUntil(net) <= net.healthy_since
          /\ net.healthy_since \in 0..Oldest
      BY <1>1, <2>1, HealthyUntilType DEF Nets
    <3>2. net.healthy_since <= proof
      BY <2>1 DEF LiveInv, ProofInv
    <3> QED
      BY <1>1, <3>1, <3>2, OldestIsNat DEF CurrentHealthy
  <2>2. CASE net.healthy_since = None
    BY <1>1, <2>2 DEF CurrentHealthy
  <2> QED
    BY <2>1, <2>2
<1> QED
  BY <1>1, <1>2 DEF HealthyFor, Most

\* Whoever updates one of the four values of health, and in whatever order, an
\* interval is never older than its evidence, and no run inherits one
\* (network.rs, healthy_for_ms).
THEOREM HealthIsAlwaysProven == LiveSpec => []HealthIsProven
<1>1. LiveInv => HealthIsProven
  BY ProvenHealth DEF HealthIsProven
<1> QED
  BY <1>1, LiveSpecInv, PTL

\* The next delay is twice the last, or the longest.
LEMMA DelayDoubles ==
  ASSUME Inv, DelayInv, delay # None, NextDelay(FALSE)
  PROVE  delay' >= Least(2 * delay, LastDelay)
<1>1. failures \in 0..Doublings /\ Doublings \in 0..4
  BY TransportAssumption DEF Inv, TypeOK
<1>2. delay' = Least(Shifted(failures), LastDelay)
  BY DEF NextDelay
<1>3. Shifted(failures) \in Nat /\ LastDelay \in Nat
  BY <1>1, ShiftedType, TransportAssumption
<1>4. CASE failures > 0 /\ delay = Least(Shifted(failures - 1), LastDelay)
  <2>1. Shifted(failures - 1) \in Nat /\ Shifted(failures) = 2 * Shifted(failures - 1)
    <3>1. failures \in {1, 2, 3, 4} /\ FirstDelay \in Nat
      BY <1>1, <1>4, TransportAssumption
    <3> QED
      BY <3>1 DEF Shifted
  <2> QED
    BY <1>2, <1>3, <1>4, <2>1 DEF Least
<1>5. CASE failures = Doublings /\ delay = LastDelay
  <2>1. Shifted(failures) >= LastDelay
    BY <1>5, TransportAssumption DEF Shifted
  <2> QED
    BY <1>2, <1>3, <1>5, <2>1 DEF Least
<1> QED
  BY <1>4, <1>5 DEF DelayInv

\* No retry comes sooner than after twice the last delay, or the longest,
\* unless the run before it was proven healthy (recovery.rs, RestartBackoff).
THEOREM HasteIsAlwaysEarned == LiveSpec => HasteIsEarned
<1> DEFINE Earned == RunEnds /\ ~calm /\ None \notin {delay, delay'} /\ phase' = "Waiting" =>
                       delay' >= Least(2 * delay, LastDelay) \/ best >= Healthy
<1>1. LiveInv /\ [LiveNext]_liveVars => [Earned]_liveVars
  <2> SUFFICES ASSUME LiveInv, RunEnds, ~calm, delay # None, phase' = "Waiting",
                      ~(best >= Healthy)
               PROVE  delay' >= Least(2 * delay, LastDelay)
    OBVIOUS
  <2>1. ~(HealthyFor(net) >= Healthy)
    <3>1. HealthyFor(net) <= best /\ HealthyFor(net) \in Int /\ best \in Int
      BY ProvenHealth, HealthyForType DEF LiveInv, ProofInv
    <3> QED
      BY <3>1, TransportAssumption
  <2>2. NextDelay(HealthyFor(net) >= Healthy)
    BY DEF RunEnds
  <2>3. NextDelay(FALSE)
    BY <2>1, <2>2 DEF NextDelay
  <2> QED
    BY <2>3, DelayDoubles DEF LiveInv
<1> QED
  BY <1>1, LiveSpecInv, PTL DEF LiveSpec, HasteIsEarned
=============================================================================
