----------------------------- MODULE MCTwoSided -----------------------------
(***************************************************************************)
(* Instances of TwoSided for TLC, over the small curve.                      *)
(***************************************************************************)
EXTENDS TwoSidedInv, SmallCurve, TLC

(* The runs' input vectors: every vector of two of three items, repetitions
   included, and two that share an item. *)
AllPairs == [1..2 -> 0..2]
TwoPairs == {<<0, 1>>, <<1, 2>>}

(* What a deviating party may send: digests and openings of one other input
   (under the right and the wrong public key), points that do not decode, false
   shuffles, and in round 4 an unproved answer and answers of one point (the
   entries of both inputs and a point of no entry), of none, of one out of range,
   of an index without a point, and of one entry listed twice.  The neutral
   public key comes with one neutral and one other point, and a shuffle of two
   neutral points. *)
NotAPoint == [log |-> 0, tor |-> 8]
Pt(n) == [log |-> n, tor |-> 0]
OtherPts == {[i \in 1..2 |-> Pt(i + 2)], [i \in 1..2 |-> NotAPoint]}
NeutralPts == <<Pt(0), Pt(0)>>
OtherOpening ==
  [pk : {Pt(3)}, pts : OtherPts] \cup [pk : {Pt(0)}, pts : {<<Pt(0), Pt(3)>>}]
Answer(js, us) == [tag |-> 4, proof |-> TRUE, ind |-> js, unblinded |-> us]
Answers ==
  {Answer(<<1>>, <<Pt(n)>>) : n \in {1, 2, 3, 7}}
    \cup {Answer(<<1, 1>>, <<Pt(n), Pt(n)>>) : n \in {2, 7}}
    \cup {Answer(<<3>>, <<Pt(1)>>), Answer(<<1>>, <<NotAPoint>>),
          Answer(<<1>>, <<>>), Answer(<<>>, <<>>)}
    \cup {[Answer(<<>>, <<>>) EXCEPT !.proof = FALSE]}
SomeForged ==
  [tag : {1}, sigma : OtherOpening] \cup [tag : {2}, open : OtherOpening]
    \cup [tag : {3}, proof : {TRUE}, pts : OtherPts \cup {NeutralPts}]
    \cup Answers
=============================================================================
