------------------------- MODULE MCShuffleArgument -------------------------
(***************************************************************************)
(* Instances of ShuffleArgument for TLC, with Q = 5.                         *)
(***************************************************************************)
EXTENDS ShuffleArgument

Ix(n) == 0 .. n - 1
Vec(n) == [Ix(n) -> Field]
Ramp(n) == [i \in Ix(n) |-> i + 1]

(* A few draws of the prover's randomness, with different values everywhere. *)
MCHints(n) ==
  {[d |-> Ramp(n), r_d |-> 1, r_pi |-> 2, r_z |-> 4, u |-> 3, u2 |-> 1,
    hint2 |-> [d |-> b, delta |-> [i \in Ix(n) |-> (i + 2) % Q],
               r_d |-> 3, r_delta |-> 1, r_a |-> 2]] :
     b \in {[i \in Ix(n) |-> (2 * i + 1) % Q], [i \in Ix(n) |-> (3 * i + 4) % Q]}}

(* Up to two entries: every map, every h, all challenges x and z[0].  Three:
   every map, the h of every permutation and one that is none. *)
Of(n, hs) == [g : {Ramp(n)}, h : hs, s : {2}, pi : [Ix(n) -> Ix(n)]]
Three == {[j \in Ix(3) |-> (2 * (Inverse(t, Ix(3), Ix(3))[j] + 1)) % Q] : t \in Bijection(Ix(3), Ix(3))}
           \cup {[i \in Ix(3) |-> 1]}
MCStatements == Of(2, Vec(2)) \cup Of(3, Three)
OneEntry == Of(1, Vec(1))
MCChallenges(n) ==
  IF n = 3 THEN [z : {[i \in Ix(n) |-> (2 * i + 1) % Q], [i \in Ix(n) |-> (i * i + 4) % Q]},
                 delta : {1, 3}, x : {0, 1, 4}, e : {2}]
  ELSE [z : {v \in Vec(n) : \A i \in Ix(n) : i > 0 => v[i] = 3},
        delta : {2}, x : Field, e : {1, 3}]

(* Batches of up to two entries, the empty one included. *)
MCBatches == UNION {[g : Vec(n), h : Vec(n), s : {2, 3}] : n \in 0..1}
               \cup [g : Vec(2), h : {v \in Vec(2) : v[0] \in {1, 2}}, s : {2}]
=============================================================================
