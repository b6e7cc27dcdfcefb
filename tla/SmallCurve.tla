----------------------------- MODULE SmallCurve -----------------------------
(***************************************************************************)
(* A curve small enough for TLC, Z_11 x Z_8: a point is a discrete logarithm *)
(* and a torsion component, items hash to points with different torsion, and *)
(* recovering an item tries the eight translates, as mapping.rs does.        *)
(***************************************************************************)
EXTENDS Integers

q == 11
Tor == 0..7
MCPoint == [log : 0 .. q - 1, tor : Tor]
MCGroup == [log : 0 .. q - 1, tor : {0}]
MCScalar == 0 .. q - 1
MCBase == [log |-> 1, tor |-> 0]
MCEighth == 7
MCMul(s, P) == [log |-> (s * P.log) % q, tor |-> (s * P.tor) % 8]
MCMulClamped(k, P) == [log |-> (8 * k * P.log) % q, tor |-> 0]
InvTable == [k \in 1 .. q - 1 |-> CHOOSE j \in MCScalar : (j * k) % q = 1]
MCInv(k) == InvTable[k]
Plus(P, t) == [P EXCEPT !.tor = (@ + t) % 8]

(* Items are numbers; item x hashes to x times a generator, with torsion. *)
MCItem == 0..3
MCHash(x) == [log |-> x + 1, tor |-> (3 * x + 2) % 8]
RecoverTable ==
  [P \in MCGroup |->
     LET found == {x \in MCItem : \E t \in Tor : MCHash(x) = Plus(P, t)}
     IN IF found = {} THEN 0 ELSE CHOOSE x \in found : TRUE]
MCRecover(P) == RecoverTable[P]
=============================================================================
