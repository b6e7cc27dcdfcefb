----------------------------- MODULE BatchedDDH -----------------------------
(***************************************************************************)
(* src/src/aok.rs, batched_ddh_prove and batched_ddh_verify: an argument     *)
(* that every h[i] is g[i] raised to the secret s of the public key, and the  *)
(* scalars that both arguments of aok.rs compute with.  They are the integers *)
(* modulo a small prime Q; a point of g or h is its logarithm; the hash is a   *)
(* random oracle, whose answers are the arguments ws (a weight for each       *)
(* entry) and d.                                                             *)
(***************************************************************************)
EXTENDS Integers, Functions

CONSTANT Q     \* the order of the group

Field == 0 .. Q - 1

ASSUME FieldAssumption ==
  /\ Q \in Nat /\ Q > 1
  /\ \A a \in Field \ {0} : \E b \in Field : (a * b) % Q = 1

invert(a) == IF a % Q = 0 THEN 0 ELSE CHOOSE b \in Field : (a * b) % Q = 1
Sum(v) == FoldFunction(LAMBDA a, b : (a + b) % Q, 0, v)
Prod(v) == FoldFunction(LAMBDA a, b : (a * b) % Q, 1, v)
Dot(v, w) == Sum([i \in DOMAIN v |-> v[i] * w[i]])
Scale(k, v) == [i \in DOMAIN v |-> (k * v[i]) % Q]

\* Mutant: the weights are not multiplied by the nonce.
batched_ddh_prove_mutant(r, g, s, ws, d) == [c |-> (Dot(ws, g) + r) % Q, z |-> (d * s + r) % Q]
batched_ddh_prove(r, g, s, ws, d) ==
  [c |-> (Dot(Scale(r, ws), g) + r) % Q, z |-> (d * s + r) % Q]

(* The public key is the logarithm s of the prover's. *)
batched_ddh_verify(proof, g, h, s, ws, d) ==
  (proof.c + s * d - proof.z) % Q
    = (Dot(Scale(proof.z, ws), g) - Dot(Scale(d, ws), h)) % Q
=============================================================================
