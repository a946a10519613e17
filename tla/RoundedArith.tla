----------------------------- MODULE RoundedArith ------------------------------
(***************************************************************************)
(* Binary floating-point arithmetic on data with one feature, to give the  *)
(* constants of KMeansTest a value: every sum, quotient, difference and    *)
(* product is rounded to PRECISION significant bits, ties to even, as the  *)
(* doubles of the program are to 53.  A number x is kept as the natural    *)
(* UNIT * x; what is below 1 / UNIT is rounded off as well.                *)
(***************************************************************************)
EXTENDS Integers, Sequences, SequencesExt

CONSTANTS PRECISION, UNIT   \* two positive numbers

\* The floating-point number nearest to a / b, for naturals a and b # 0.
Round(a, b) ==
  LET exponent == CHOOSE e \in 0 .. 31 :
                    /\ a < b * 2^(PRECISION + e)
                    /\ e > 0 => a >= b * 2^(PRECISION + e - 1)
      ulp == b * 2^exponent
      significand == a \div ulp
      rest == a % ulp
      up == 2 * rest > ulp \/ (2 * rest = ulp /\ significand % 2 = 1)
  IN  (significand + IF up THEN 1 ELSE 0) * 2^exponent

RoundedCenterAt(v) == Round(UNIT * v, 1)

\* The sum is rounded after every addition, in the order of the list.
RoundedMeanOf(s) ==
  LET sum == FoldLeft(LAMBDA acc, v : Round(acc + UNIT * v, 1), 0, s)
  IN  Round(sum, Len(s))

Difference(c, v) ==
  Round(IF c >= UNIT * v THEN c - UNIT * v ELSE UNIT * v - c, 1)

\* The parallel program compares the squares, and the serial one their square
\* roots: the root of a rounded square is the number that was squared.
RoundedSquare(c, v) == Round(Difference(c, v) * Difference(c, v), UNIT)
RoundedRoot(c, v)   == Difference(c, v)

===============================================================================
