--------------------------- MODULE DivisionFacts ---------------------------
(***************************************************************************)
(* What the provers need to know of integer division: the fixed-point      *)
(* fades of runtime.rs, the coupled colour of presets.rs and the duty      *)
(* cycles of pca9635.rs rest on it.                                        *)
(***************************************************************************)
EXTENDS Integers, TLAPS

\* Integer division of a natural number by a positive one.
LEMMA DivisionIsExact ==
  ASSUME NEW a \in Nat, NEW b \in Nat \ {0}
  PROVE  a \div b \in Nat /\ b * (a \div b) <= a /\ a < b * (a \div b) + b
BY SMT

\* A quotient by b is at most c when the dividend is at most b * c.
LEMMA QuotientBound ==
  ASSUME NEW a \in Nat, NEW b \in Nat \ {0}, NEW c \in Nat, a <= b * c
  PROVE  a \div b \in 0..c
<1> DEFINE q == a \div b
<1>1. q \in Nat /\ b * q <= a
  BY DivisionIsExact
<1>2. b * q <= b * c
  BY <1>1, SMT
<1>3. q <= c
  BY <1>1, <1>2, SMT
<1> QED
  BY <1>1, <1>3

\* A larger dividend has no smaller quotient.
LEMMA QuotientGrows ==
  ASSUME NEW a \in Nat, NEW b \in Nat, a <= b, NEW c \in Nat \ {0}
  PROVE  a \div c <= b \div c
<1> DEFINE q == a \div c
           r == b \div c
<1>1. q \in Nat /\ r \in Nat /\ c * q <= a /\ b < c * r + c
  BY DivisionIsExact
<1> HIDE DEF q, r
<1>2. c * (r + 1) = c * r + c /\ c * (r + 1) \in Nat /\ c * q \in Nat
  BY <1>1, SMT
<1>3. c * q < c * (r + 1)
  BY <1>1, <1>2, SMT
<1>4. q < r + 1
  <2>1. SUFFICES ASSUME q >= r + 1 PROVE FALSE
    BY <1>1, SMT
  <2>2. c * q >= c * (r + 1)
    BY <1>1, <2>1, SMT
  <2> QED
    BY <1>2, <1>3, <2>2, SMT
<1>5. q <= r
  BY <1>1, <1>4, SMT
<1> QED
  BY <1>5 DEF q, r

\* Products grow with either factor.
LEMMA ProductGrows ==
  ASSUME NEW a \in Nat, NEW b \in Nat, a <= b, NEW c \in Nat
  PROVE  /\ c * a \in Nat /\ c * b \in Nat /\ c * a <= c * b
         /\ a * c \in Nat /\ b * c \in Nat /\ a * c <= b * c
BY SMT

\* Only one multiple of the divisor lies so close below the dividend.
LEMMA QuotientIsUnique ==
  ASSUME NEW a \in Nat, NEW b \in Nat \ {0}, NEW q \in Nat, b * q <= a, a < b * q + b
  PROVE  a \div b = q
<1> DEFINE r == a \div b
<1>1. r \in Nat /\ b * r <= a /\ a < b * r + b
  BY DivisionIsExact
<1> HIDE DEF r
<1>2. ASSUME NEW x \in Nat, NEW y \in Nat, b * x <= a, a < b * y + b PROVE x <= y
  <2>1. SUFFICES ASSUME y + 1 <= x PROVE FALSE
    BY <1>2, SMT
  <2>2. b * (y + 1) <= b * x /\ b * (y + 1) \in Nat
    BY <1>2, <2>1, ProductGrows
  <2>3. b * (y + 1) = b * y + b
    BY <1>2, SMT
  <2>4. b * x \in Int /\ b * y \in Int
    BY <1>2, SMT
  <2> QED
    BY <1>2, <2>2, <2>3, <2>4, SMT
<1>3. q <= r /\ r <= q
  BY <1>1, <1>2
<1> QED
  BY <1>1, <1>3, SMT DEF r

\* A common factor of dividend and divisor cancels.
LEMMA QuotientCancels ==
  ASSUME NEW a \in Nat, NEW b \in Nat \ {0}, NEW c \in Nat \ {0}
  PROVE  (a * c) \div (b * c) = a \div b
<1> DEFINE q == a \div b
<1>1. q \in Nat /\ b * q <= a /\ a < b * q + b
  BY DivisionIsExact
<1> HIDE DEF q
<1>2. b * c \in Nat \ {0} /\ a * c \in Nat /\ b * q \in Nat
  BY <1>1, SMT
<1>3. (b * c) * q = (b * q) * c /\ (b * q + b) * c = (b * q) * c + b * c
  BY <1>1, <1>2, SMT
<1>4. (b * q) * c <= a * c
  BY <1>1, <1>2, ProductGrows
<1>5. a * c < (b * q + b) * c
  <2>1. a + 1 <= b * q + b /\ b * q + b \in Nat
    BY <1>1, <1>2, SMT
  <2>2. (a + 1) * c <= (b * q + b) * c /\ (b * q + b) * c \in Nat
    BY <2>1, ProductGrows
  <2>3. (a + 1) * c = a * c + c
    BY SMT
  <2> QED
    BY <1>2, <2>2, <2>3, SMT
<1>6. (a * c) \div (b * c) = q
  BY <1>1, <1>2, <1>3, <1>4, <1>5, QuotientIsUnique
<1> QED
  BY <1>6 DEF q

\* Dividing twice is dividing once by the product.
LEMMA QuotientOfQuotient ==
  ASSUME NEW a \in Nat, NEW b \in Nat \ {0}, NEW c \in Nat \ {0}
  PROVE  (a \div b) \div c = a \div (b * c)
<1> DEFINE q == a \div b
           r == q \div c
<1>1. q \in Nat /\ b * q <= a /\ a < b * q + b
  BY DivisionIsExact
<1>2. r \in Nat /\ c * r <= q /\ q < c * r + c
  BY <1>1, DivisionIsExact
<1> HIDE DEF q, r
<1>3. b * c \in Nat \ {0} /\ c * r \in Nat /\ b * q \in Nat
  BY <1>1, <1>2, SMT
<1>4. b * (c * r) = (b * c) * r /\ b * (c * r + c) = (b * c) * r + b * c
  BY <1>2, <1>3, SMT
<1>5. b * (c * r) <= b * q
  BY <1>1, <1>2, <1>3, ProductGrows
<1>6. b * (q + 1) <= b * (c * r + c)
  <2>1. q + 1 \in Nat /\ c * r + c \in Nat /\ q + 1 <= c * r + c
    BY <1>1, <1>2, <1>3, SMT
  <2> QED
    BY <2>1, ProductGrows
<1>7. b * (q + 1) = b * q + b
  BY <1>1, SMT
<1>8. (b * c) * r \in Nat
  BY <1>2, <1>3, SMT
<1>9. (b * c) * r <= a /\ a < (b * c) * r + b * c
  BY <1>1, <1>3, <1>4, <1>5, <1>6, <1>7, <1>8, SMT
<1>10. a \div (b * c) = r
  BY <1>2, <1>3, <1>9, QuotientIsUnique
<1> QED
  BY <1>10 DEF q, r
=============================================================================
