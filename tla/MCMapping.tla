------------------------------ MODULE MCMapping ------------------------------
(***************************************************************************)
(* Mapping over the field of 509 elements, a prime three below a power of  *)
(* two and, like 2^255 - 19, 5 modulo 8: halves of five bits, blocks of    *)
(* ten.  The curve has 8 * 59 points, a cyclic group of order eight in it, *)
(* and, like Curve25519, -A is no square.                                  *)
(***************************************************************************)
EXTENDS Mapping, Bitwise

MCHalf == 0..31
MCXorHalf(a, b) == a ^^ b
\* Some function of a key and a half that is far from linear.
MCAes(k, x) == ((5 * x * x * x + 7 * (k + 3) * x * x + 11 * k * k + 13 * x + 17) % 101) % 32
MCCounter(n) == n
\* The multiples of a point of order eight.
MCTorsion == LET T[j \in 0..7] == IF j = 0 THEN <<0, 1>> ELSE AddPoints(T[j - 1], <<30, 132>>)
             IN  T

=============================================================================
