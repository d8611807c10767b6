--------------------------- MODULE LegacyDecProofs ---------------------------
(* Facts about the decimals of LegacyDec. *)
EXTENDS LegacyDec, TLAPS

\* Division with a positive divisor: quotient and remainder are integers, the
\* remainder is less than the divisor.
LEMMA Division ==
    ASSUME NEW a \in Int, NEW b \in Nat \ {0}
    PROVE  /\ a \div b \in Int
           /\ a % b \in 0..(b - 1)
           /\ a = b * (a \div b) + (a % b)
           /\ a >= 0 => a \div b >= 0
  OBVIOUS

\* A rounded quotient of naturals is a natural.
LEMMA RoundHalfEvenNat ==
    ASSUME NEW a \in Nat, NEW b \in Nat \ {0}
    PROVE  RoundHalfEven(a, b) \in Nat
  BY Division DEF RoundHalfEven

\* A rounded quotient is a nearest integer: twice the error is at most b.
LEMMA RoundHalfEvenNearest ==
    ASSUME NEW a \in Nat, NEW b \in Nat \ {0}
    PROVE  2 * (b * RoundHalfEven(a, b) - a) \in -b..b
<1> DEFINE q == a \div b
           r == a % b
<1>1. /\ q \in Int
      /\ r \in 0..(b - 1)
      /\ a = b * q + r
  BY Division
<1>2. CASE RoundHalfEven(a, b) = q
  <2>1. 2 * r <= b \/ r = b
    BY <1>1, <1>2 DEF RoundHalfEven
  <2>. QED
    BY <1>1, <1>2, <2>1
<1>3. CASE RoundHalfEven(a, b) = q + 1
  <2>1. 2 * r >= b
    BY <1>1, <1>3 DEF RoundHalfEven
  <2>2. b * (q + 1) = b * q + b
    BY <1>1
  <2>. QED
    BY <1>1, <1>3, <2>1, <2>2
<1>. QED
  BY <1>2, <1>3 DEF RoundHalfEven

\* The product of decimals is a decimal, of naturals a natural.
LEMMA DecMulInt ==
    ASSUME NEW x \in Int, NEW y \in Int
    PROVE  /\ DecMul(x, y) \in Int
           /\ x >= 0 /\ y >= 0 => DecMul(x, y) \in Nat
<1> DEFINE n == Magnitude(x * y)
<1>1. x * y \in Int /\ (x >= 0 /\ y >= 0 => x * y >= 0)
  OBVIOUS
<1>2. n \in Nat
  BY <1>1 DEF Magnitude
<1>3. RoundHalfEven(n, One) \in Nat
  BY <1>2, RoundHalfEvenNat, OneAssumption
<1>. QED
  BY <1>1, <1>3 DEF DecMul, Signed

\* The quotient of a decimal by a positive one is a decimal, natural if the
\* dividend is.
LEMMA DecQuoInt ==
    ASSUME NEW x \in Int, NEW y \in Nat \ {0}
    PROVE  /\ DecQuo(x, y) \in Int
           /\ x >= 0 => DecQuo(x, y) \in Nat
<1> DEFINE a == Magnitude(x) * One * One
           n == a \div y
<1>1. a \in Nat
  BY OneAssumption DEF Magnitude
<1>2. n \in Nat
  BY <1>1, Division
<1>3. RoundHalfEven(n, One) \in Nat
  BY <1>2, RoundHalfEvenNat, OneAssumption
<1>. QED
  BY <1>3 DEF DecQuo, Signed

\* Truncating a decimal that is not negative leaves a fraction of one unit,
\* and at least one unit is whole when the decimal reaches One.
LEMMA TruncateIntWhole ==
    ASSUME NEW x \in Nat
    PROVE  /\ TruncateInt(x) \in Nat
           /\ x - DecFromInt(TruncateInt(x)) \in 0..(One - 1)
           /\ x >= One => TruncateInt(x) >= 1
  BY OneAssumption, Division DEF TruncateInt, Signed, Magnitude, DecFromInt

\* Less than One has no whole unit.
LEMMA TruncateIntFraction ==
    ASSUME NEW x \in Int, x < One
    PROVE  /\ TruncateInt(x) \in Int
           /\ TruncateInt(x) <= 0
<1>1. CASE x < 0
  BY <1>1, OneAssumption, Division DEF TruncateInt, Signed, Magnitude
<1>2. CASE x >= 0
  <2>1. /\ TruncateInt(x) \in Nat
        /\ x - TruncateInt(x) * One \in 0..(One - 1)
    BY <1>2, TruncateIntWhole DEF DecFromInt
  <2>2. TruncateInt(x) >= 1 => TruncateInt(x) * One >= One
    BY <2>1, OneAssumption
  <2>. QED
    BY <2>1, <2>2, OneAssumption
<1>. QED
  BY <1>1, <1>2

\* A sum of whole units and a fraction splits in one way only.
LEMMA WholeAndFraction ==
    ASSUME NEW w \in Int, NEW f \in 0..(One - 1)
    PROVE  /\ (w * One + f) \div One = w
           /\ (w * One) % One = 0
<1>1. ASSUME NEW g \in 0..(One - 1)
      PROVE  (w * One + g) \div One = w
  <2> DEFINE a == w * One + g
             q == a \div One
             r == a % One
  <2>1. /\ q \in Int
        /\ r \in 0..(One - 1)
        /\ a = One * q + r
    <3>1. a \in Int
      BY OneAssumption
    <3>. HIDE DEF a
    <3>. QED
      BY <3>1, OneAssumption, Division
  <2>2. One * (q - w) = g - r
    BY <2>1, OneAssumption
  <2>3. q - w <= 0
    <3>1. q - w >= 1 => One * (q - w) >= One
      BY <2>1, OneAssumption
    <3>. QED
      BY <2>1, <2>2, <3>1, OneAssumption
  <2>4. q - w >= 0
    <3>1. q - w <= -1 => One * (q - w) <= -One
      BY <2>1, OneAssumption
    <3>. QED
      BY <2>1, <2>2, <3>1, OneAssumption
  <2>. QED
    BY <2>1, <2>3, <2>4
<1>2. (w * One) % One = 0
  <2>1. w * One + 0 = w * One /\ w * One \in Int /\ 0 \in 0..(One - 1)
    BY OneAssumption
  <2>2. (w * One) \div One = w
    BY <1>1, <2>1
  <2>3. w * One = One * ((w * One) \div One) + ((w * One) % One)
    BY <2>1, OneAssumption, Division
  <2>4. (w * One) % One \in Int /\ One * w = w * One
    BY <2>1, OneAssumption, Division
  <2>. QED
    BY <2>1, <2>2, <2>3, <2>4
<1>. QED
  BY <1>1, <1>2

=============================================================================
