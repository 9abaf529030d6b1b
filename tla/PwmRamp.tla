------------------------------- MODULE PwmRamp -------------------------------
(***************************************************************************)
(* Every physical ramp at a fixed temperature, one coordinate at a time:   *)
(* the inputs over which the duty cycles of StockPwm are checked.          *)
(***************************************************************************)
EXTENDS StockPwm

VARIABLES brightness, temperature

Init ==
  /\ brightness = 0
  /\ temperature \in Temperatures

Brighten ==
  /\ brightness < MaxBrightness
  /\ brightness' = brightness + 1
  /\ UNCHANGED temperature

Next == Brighten

Spec == Init /\ [][Next]_<<brightness, temperature>>

\* The duty cycle the stock firmware computes at a whole brightness step, with
\* the two truncations that stock_pwm combines into one.
StockDuty(mix, step) == ((((mix * 4095 * step) \div 10000) \div 16) * 9) \div 10

\* At the whole steps the bytes are those of the stock firmware.
StepsMatchStock ==
  brightness % Floor = 0 =>
    \A channel \in {1, 2} :
      OutputPwmPair(brightness, temperature)[channel]
        = StockDuty(Mix(temperature)[channel], brightness \div Floor)

\* No channel dims while the brightness rises, so no byte wraps on the way.
RampsNeverDim ==
  [][\A channel \in {1, 2} :
       OutputPwmPair(brightness', temperature)[channel]
         >= OutputPwmPair(brightness, temperature)[channel]]_<<brightness, temperature>>
=============================================================================
