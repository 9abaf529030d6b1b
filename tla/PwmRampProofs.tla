---------------------------- MODULE PwmRampProofs ----------------------------
(***************************************************************************)
(* Proofs about the duty cycles, for every scale that fits a byte: the run *)
(* enumerates the ramps of the firmware's own scale.                       *)
(***************************************************************************)
EXTENDS PwmRamp, DivisionFacts

\* Temperatures the mix is defined on, and a scale of a hundred floors at most
\* (the firmware's is ten).
RampFits ==
  /\ TempMin >= 143 /\ TempMax <= 344
  /\ MaxBrightness <= 100 * Floor

RampInv == brightness \in Brightnesses /\ temperature \in Temperatures

LEMMA ScaleTypes ==
  /\ Floor \in Nat \ {0} /\ 160000 * Floor \in Nat \ {0}
  /\ MaxBrightness \in Nat /\ 0 \in Brightnesses
  /\ \A b \in Brightnesses : b \in Nat /\ b <= MaxBrightness
<1>1. Floor \in Nat \ {0} /\ MaxBrightness \in Nat
  BY UnitsAssumption, SMT DEF MaxBrightness, FromLevel
<1> QED
  BY <1>1, SMT DEF Brightnesses

\* The share of a channel is a percentage.
LEMMA MixType ==
  ASSUME RampFits, NEW t \in Temperatures, NEW channel \in {1, 2}
  PROVE  Mix(t)[channel] \in 0..100
<1>1. t \in 143..344
  BY UnitsAssumption, SMT DEF RampFits, Temperatures
<1>2. CASE t \in 144..243
  <2> DEFINE n == (t - 143) * 100
  <2>1. n \in Nat /\ n <= 10100
    BY <1>2, SMT
  <2> HIDE DEF n
  <2>2. n \div 101 \in 0..100
    BY <2>1, SMT
  <2>3. t # 143
    BY <1>2, SMT
  <2> QED
    BY <1>2, <2>2, <2>3 DEF Mix, n
<1>3. CASE t \notin 144..243
  BY <1>1, <1>3, SMT DEF Mix
<1> QED
  BY <1>2, <1>3

\* The product of the code's first line, on which the rest depends.
LEMMA DutyProduct ==
  ASSUME NEW mix \in 0..100, NEW b \in Nat
  PROVE  /\ mix * 4095 \in Nat /\ mix * 4095 <= 409500
         /\ mix * 4095 * b \in Nat /\ mix * 4095 * b <= 409500 * b
<1>1. mix * 4095 \in Nat /\ mix * 4095 <= 409500
  BY SMT
<1> QED
  BY <1>1, ProductGrows

\* A duty cycle fits its byte: the cast of stock_pwm loses nothing.
LEMMA DutyFits ==
  ASSUME RampFits, NEW mix \in 0..100, NEW b \in Brightnesses
  PROVE  Duty(mix, b) \in 0..255
<1> DEFINE product == mix * 4095 * b
           scale == 160000 * Floor
           share == product \div scale
<1>1. b \in Nat /\ b <= 100 * Floor /\ Floor \in Nat \ {0} /\ scale \in Nat \ {0}
  BY ScaleTypes, SMT DEF RampFits
<1>2. product \in Nat /\ product <= 409500 * b
  BY <1>1, DutyProduct
<1> HIDE DEF product
<1>3. product <= scale * 256
  BY <1>1, <1>2, SMT
<1>4. share \in 0..256
  BY <1>1, <1>2, <1>3, QuotientBound
<1> HIDE DEF share
<1>5. (share * 9) \div 10 \in 0..255
  BY <1>4, SMT
<1> QED
  BY <1>5 DEF Duty, share, product

\* A brighter coordinate has no smaller duty cycle.
LEMMA DutyGrows ==
  ASSUME NEW mix \in 0..100, NEW b \in Nat, NEW c \in Nat, b <= c
  PROVE  Duty(mix, b) <= Duty(mix, c)
<1> DEFINE scale == 160000 * Floor
           p == mix * 4095 * b
           q == mix * 4095 * c
           x == p \div scale
           y == q \div scale
<1>1. scale \in Nat \ {0}
  BY ScaleTypes
<1>2. p \in Nat /\ q \in Nat /\ p <= q
  BY DutyProduct, ProductGrows
<1> HIDE DEF p, q, scale
<1>3. x \in Nat /\ y \in Nat /\ x <= y
  BY <1>1, <1>2, DivisionIsExact, QuotientGrows
<1> HIDE DEF x, y
<1>4. x * 9 \in Nat /\ y * 9 \in Nat /\ x * 9 <= y * 9
  BY <1>3, SMT
<1>5. (x * 9) \div 10 <= (y * 9) \div 10
  BY <1>4, QuotientGrows
<1> QED
  BY <1>5 DEF Duty, x, y, p, q, scale

\* At a whole step the combined truncation of stock_pwm is the two truncations
\* of the stock firmware.
LEMMA WholeSteps ==
  ASSUME NEW mix \in 0..100, NEW step \in Nat
  PROVE  Duty(mix, step * Floor) = StockDuty(mix, step)
<1> DEFINE n == mix * 4095 * step
<1>1. Floor \in Nat \ {0}
  BY ScaleTypes
<1>2. mix * 4095 \in Nat /\ n \in Nat
  BY DutyProduct
<1>3. mix * 4095 * (step * Floor) = n * Floor
  BY <1>1, <1>2, SMT
<1> HIDE DEF n
<1>4. (n * Floor) \div (160000 * Floor) = n \div 160000
  BY <1>1, <1>2, QuotientCancels
<1>5. (n \div 10000) \div 16 = n \div 160000
  <2>1. 10000 * 16 = 160000
    BY SMT
  <2>2. (n \div 10000) \div 16 = n \div (10000 * 16)
    BY <1>2, QuotientOfQuotient
  <2> QED
    BY <2>1, <2>2
<1> QED
  BY <1>3, <1>4, <1>5 DEF Duty, StockDuty, n

THEOREM RampType == Spec => []RampInv
<1>1. Init => RampInv
  BY ScaleTypes DEF Init, RampInv
<1>2. RampInv /\ [Next]_<<brightness, temperature>> => RampInv'
  <2>1. ASSUME RampInv, Brighten PROVE RampInv'
    <3>1. brightness \in Nat /\ brightness < MaxBrightness /\ MaxBrightness \in Nat
      BY <2>1, ScaleTypes DEF RampInv, Brighten
    <3>2. brightness + 1 \in 0..MaxBrightness
      BY <3>1, SMT
    <3> QED
      BY <2>1, <3>2 DEF RampInv, Brighten, Brightnesses
  <2>2. ASSUME RampInv, UNCHANGED <<brightness, temperature>> PROVE RampInv'
    BY <2>2 DEF RampInv
  <2> QED
    BY <2>1, <2>2 DEF Next
<1> QED
  BY <1>1, <1>2, PTL DEF Spec

\* The bytes of a frame are its duty cycles.
LEMMA PairIsDuty ==
  ASSUME RampFits, NEW b \in Brightnesses, NEW t \in Temperatures, NEW channel \in {1, 2}
  PROVE  OutputPwmPair(b, t)[channel] = Duty(Mix(t)[channel], b)
<1>1. ASSUME NEW n \in 0..255 PROVE n % 256 = n
  BY SMT
<1>2. Duty(Mix(t)[channel], b) \in 0..255
  BY MixType, DutyFits
<1>3. OutputPwmPair(b, t)[channel] = Duty(Mix(t)[channel], b) % 256
  <2>1. CASE channel = 1
    BY <2>1 DEF OutputPwmPair
  <2>2. CASE channel = 2
    BY <2>2 DEF OutputPwmPair
  <2> QED
    BY <2>1, <2>2
<1> QED
  BY <1>1, <1>2, <1>3

\* At the whole steps the bytes are those of the stock firmware, on every scale.
THEOREM StepsAreStock ==
  ASSUME RampFits
  PROVE  Spec => []StepsMatchStock
<1>1. ASSUME RampInv, brightness % Floor = 0, NEW channel \in {1, 2}
      PROVE  OutputPwmPair(brightness, temperature)[channel]
               = StockDuty(Mix(temperature)[channel], brightness \div Floor)
  <2> DEFINE step == brightness \div Floor
  <2>1. brightness \in Nat /\ Floor \in Nat \ {0}
    BY <1>1, ScaleTypes DEF RampInv
  <2>2. step \in Nat /\ brightness = step * Floor
    BY <1>1, <2>1, SMT
  <2>3. Mix(temperature)[channel] \in 0..100
    BY <1>1, MixType DEF RampInv
  <2>4. OutputPwmPair(brightness, temperature)[channel]
          = Duty(Mix(temperature)[channel], brightness)
    BY <1>1, PairIsDuty DEF RampInv
  <2> HIDE DEF step
  <2>5. Duty(Mix(temperature)[channel], step * Floor)
          = StockDuty(Mix(temperature)[channel], step)
    BY <2>2, <2>3, WholeSteps
  <2> QED
    BY <2>2, <2>4, <2>5 DEF step
<1>2. RampInv => StepsMatchStock
  BY <1>1 DEF StepsMatchStock
<1> QED
  BY RampType, <1>2, PTL

\* No channel dims while the brightness rises, on every scale.
THEOREM RampsOnlyBrighten ==
  ASSUME RampFits
  PROVE  Spec => RampsNeverDim
<1> DEFINE Rises ==
      \A channel \in {1, 2} :
        OutputPwmPair(brightness', temperature)[channel]
          >= OutputPwmPair(brightness, temperature)[channel]
<1>1. ASSUME RampInv, RampInv', Next PROVE Rises
  <2>1. /\ brightness \in Nat /\ brightness' \in Nat /\ brightness <= brightness'
        /\ temperature \in Temperatures
        /\ brightness \in Brightnesses /\ brightness' \in Brightnesses
    BY <1>1, ScaleTypes, SMT DEF RampInv, Next, Brighten
  <2>2. ASSUME NEW channel \in {1, 2}
        PROVE  OutputPwmPair(brightness', temperature)[channel]
                 >= OutputPwmPair(brightness, temperature)[channel]
    <3>1. Mix(temperature)[channel] \in 0..100
      BY <2>1, MixType
    <3>2. Duty(Mix(temperature)[channel], brightness)
            <= Duty(Mix(temperature)[channel], brightness')
      BY <2>1, <3>1, DutyGrows
    <3> QED
      BY <2>1, <3>2, PairIsDuty
  <2> QED
    BY <2>2
<1>2. RampInv /\ RampInv' /\ [Next]_<<brightness, temperature>>
        => [Rises]_<<brightness, temperature>>
  BY <1>1
<1> QED
  BY RampType, <1>2, PTL DEF Spec, RampsNeverDim
=============================================================================
