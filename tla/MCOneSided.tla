----------------------------- MODULE MCOneSided -----------------------------
(***************************************************************************)
(* Instances of OneSided for TLC, over the small curve.  A block is a number *)
(* below q, a scalar's bytes are two digits in base 4.                       *)
(***************************************************************************)
EXTENDS OneSidedInv, SmallCurve

MCBlock == 0 .. q - 1
MCChallenge(P, Q, R) == (P.log + 2 * P.tor + 3 * Q.log + 5 * R.log) % q
MCRespond(r, ch, k) == (r - ch * k) % q
MCMultiscalar(s, P, t, Q) ==
  [log |-> (s * P.log + t * Q.log) % q, tor |-> (s * P.tor + t * Q.tor) % 8]
MCCofactor(P) == [log |-> (8 * P.log) % q, tor |-> 0]
MCLow(s) == s % 4
MCHigh(s) == s \div 4
MCCombine(lo, hi) == lo + 4 * hi

(* Vectors in both orders and with repetitions, so that the receiver has all,
   one or none of the sender's items; item 0 is left to the zero block. *)
SenderPairs == {<<1, 2>>, <<1, 1>>, <<3, 2>>}
ReceiverTriples == {<<1, 2, 1>>, <<3, 3, 3>>}
=============================================================================
