------------------------------ MODULE StockPwm ------------------------------
(***************************************************************************)
(* The duty cycles of firmware/core/src/pca9635.rs: the two PWM bytes that *)
(* realise a physical brightness at a colour temperature.  The rest of the *)
(* 22 bytes of a frame is fixed, so a frame is the pair <<warm, cool>>.    *)
(***************************************************************************)
EXTENDS LightCore

\* The share of the two channels at a temperature, in percent.
Mix(temperature) ==
  IF temperature = 143 THEN <<0, 100>>
  ELSE IF temperature \in 144..243 THEN <<((temperature - 143) * 100) \div 101, 100>>
  ELSE IF temperature = 244 THEN <<100, 100>>
  ELSE <<100, 344 - temperature>>

\* Mutant: the first product is kept in 16 bits.
DutyNarrow(mix, brightness) ==
  (((((mix * brightness) % 2^16) * 4095) \div (160000 * Floor)) * 9) \div 10

\* Mutant: the scale by 9/10 is applied to the truncated tenth.
DutyTenth(mix, brightness) ==
  (((mix * 4095 * brightness) \div (1600000 * Floor)) * 9)

\* stock_pwm, before its cast to a byte.
Duty(mix, brightness) ==
  (((mix * 4095 * brightness) \div (160000 * Floor)) * 9) \div 10

\* output_pwm_pair.
OutputPwmPair(brightness, temperature) ==
  <<Duty(Mix(temperature)[1], brightness) % 256,
    Duty(Mix(temperature)[2], brightness) % 256>>

\* output_frame: an Off frame is dark whatever its brightness says.
OutputBytes(frame) ==
  IF frame.state.on THEN OutputPwmPair(frame.brightness, frame.state.temperature)
                    ELSE <<0, 0>>
=============================================================================
