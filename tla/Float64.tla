------------------------------- MODULE Float64 -------------------------------
(***************************************************************************)
(* Go's float64 arithmetic, as calculateAtomicGroupsAverageFee            *)
(* (src/unnamed/part_002) uses it: IEEE 754 binary floating point, where  *)
(* every + and / yields its exact result rounded to the nearest value     *)
(* with Precision significant bits, ties to the even mantissa.  float64   *)
(* has Precision = 53; a model checks a smaller one, under which the same *)
(* rounding happens with small fees.  Values are non-negative and far     *)
(* from overflow and subnormals (fees), so neither is modelled.           *)
(*                                                                         *)
(* A value is a dyadic rational [num, den] (den a power of two, or the    *)
(* exact divisor before rounding); integers are [num |-> n, den |-> 1].   *)
(***************************************************************************)
EXTENDS Integers

CONSTANT Precision   \* significant bits of the mantissa

ASSUME Precision \in Nat \ {0}

F(n) == [num |-> n, den |-> 1]

\* a < b and a > b for values of different denominators.
FLess(a, b) == a.num * b.den < b.num * a.den
FGreater(a, b) == FLess(b, a)

\* The k with 2^k <= num/den < 2^(k+1), for num, den > 0.
RECURSIVE Log2Floor(_, _)
Log2Floor(num, den) ==
  IF num >= 2 * den THEN Log2Floor(num, 2 * den) + 1
  ELSE IF num < den THEN Log2Floor(2 * num, den) - 1
  ELSE 0

\* a/b rounded to an integer, ties to even.
RoundHalfEven(a, b) ==
  LET q == a \div b
      r == a % b
  IN  IF 2 * r > b \/ (2 * r = b /\ q % 2 = 1) THEN q + 1 ELSE q

\* The float nearest to num/den: its mantissa has Precision bits, so its
\* last bit weighs 2^e with e = Log2Floor - Precision + 1.  The arguments
\* are bound through a function on the one-point set {<<num, den>>}, so
\* that TLC evaluates them once, also where it evaluates ENABLED.
Round(num, den) ==
  LET r[q \in {<<num, den>>}] ==
        IF q[1] = 0 THEN F(0)
        ELSE LET e == Log2Floor(q[1], q[2]) - Precision + 1
             IN  IF e >= 0 THEN F(RoundHalfEven(q[1], q[2] * 2^e) * 2^e)
                 ELSE [num |-> RoundHalfEven(q[1] * 2^(-e), q[2]), den |-> 2^(-e)]
  IN  r[<<num, den>>]

\* x + y and x / float64(n) in float64.
FAdd(x, y) ==
  LET add[p \in {<<x, y>>}] ==
        Round(p[1].num * p[2].den + p[2].num * p[1].den, p[1].den * p[2].den)
  IN  add[<<x, y>>]

FDiv(x, n) == Round(x.num, x.den * n)

=============================================================================
