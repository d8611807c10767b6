------------------------------ MODULE LegacyDec ------------------------------
(***************************************************************************)
(* The fixed-point decimals of cosmossdk.io/math that x/td computes with.  *)
(* A LegacyDec is an integer count of units of 1/One: One is 10^18 on the  *)
(* chain and a small number in the model-checking runs.                    *)
(***************************************************************************)
EXTENDS Integers

CONSTANT One

ASSUME OneAssumption == One \in Nat \ {0}

Magnitude(n) == IF n < 0 THEN -n ELSE n

\* n with the sign of s, as big.Int carries the sign through a rounding.
Signed(s, n) == IF s < 0 THEN -n ELSE n

\* The integer nearest to a/b, a tie going to the even neighbour
\* (chopPrecisionAndRound), for a natural a and a positive b.
RoundHalfEven(a, b) ==
    LET q == a \div b
        r == a % b
    IN  IF 2 * r < b \/ (2 * r = b /\ q % 2 = 0) THEN q ELSE q + 1

DecFromInt(n) == n * One

DecMul(x, y) == Signed(x * y, RoundHalfEven(Magnitude(x * y), One))

\* x / y for a positive y: the quotient is cut to twice the precision before
\* it is rounded to One.
DecQuo(x, y) ==
    Signed(x, RoundHalfEven((Magnitude(x) * One * One) \div y, One))

TruncateInt(x) == Signed(x, Magnitude(x) \div One)

=============================================================================
