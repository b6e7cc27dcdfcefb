------------------------------- MODULE Curve -------------------------------
(***************************************************************************)
(* The algebra the two-sided protocol computes with, as src/src/twosided.rs *)
(* and src/src/mapping.rs use it: points of Curve25519 with their torsion,  *)
(* the prime-order group, and the item <-> point mapping.                   *)
(*                                                                          *)
(* The operators are constants and the laws the protocol relies on are      *)
(* assumptions.  The model-checked instances give them a small group        *)
(* Z_11 x Z_8 (SmallCurve) and TLC evaluates the laws there; the proofs     *)
(* use nothing but the laws.                                                *)
(***************************************************************************)

CONSTANTS
  Item,                   \* the 128-bit items
  Point,                  \* the points of the curve, torsion included
  Group,                  \* its prime-order subgroup
  Scalar,                 \* integers modulo the order of Group
  Key,                    \* the secret keys Party::new can draw (never 0)
  Base,                   \* the base point
  Eighth,                 \* Scalar::from(8).invert()
  Mul(_, _),              \* Mul(s, P): point * scalar
  MulClamped(_, _),       \* MulClamped(k, P): P.mul_clamped(8k), which clears torsion
  Inv(_),                 \* Scalar::invert
  hash_to_point(_),       \* item -> point, torsion not cleared
  recover_from_point(_)   \* torsion-free point -> item, trying all 8 translates

ASSUME CurveSets ==
  /\ Group \subseteq Point
  /\ 0 \in Scalar
  /\ Key \subseteq Scalar \ {0}
  /\ Base \in Group
  /\ Eighth \in Scalar
  /\ \A x \in Item : hash_to_point(x) \in Point
  /\ \A P \in Group : recover_from_point(P) \in Item
  /\ \A k \in Scalar \ {0} : Inv(k) \in Scalar

(* The neutral element of Group: a public key the verifiers take like any other. *)
Neutral == Mul(0, Base)

(* Scalar multiplication is an action of the scalars on Group, and only 0 cannot
   be undone. *)
ASSUME GroupLaws ==
  /\ \A s \in Scalar, P \in Group : Mul(s, P) \in Group
  /\ \A s, t \in Scalar, P \in Group : Mul(s, Mul(t, P)) = Mul(t, Mul(s, P))
  /\ \A k \in Scalar \ {0}, P \in Group : Mul(Inv(k), Mul(k, P)) = P
  /\ \A P \in Group : Mul(0, P) = Neutral

(* Public keys are k * Base, and Base has prime order. *)
ASSUME KeysDistinct ==
  \A j, k \in Scalar : Mul(j, Base) = Mul(k, Base) => j = k

(* Multiplying by the clamped integer 8k leaves no torsion, and is k times a
   value that depends on the point alone. *)
ASSUME ClampedLaws ==
  /\ \A k \in Key, P \in Point : MulClamped(k, P) \in Group
  /\ \A j, k \in Key, P \in Point :
       Mul(j, MulClamped(k, P)) = Mul(k, MulClamped(j, P))

(* Multiplication by sk_8inv = 1/(8k). *)
MulInv8(k, P) == Mul(Eighth, Mul(Inv(k), P))

(* What mapping.rs promises the protocol: an item hashed to a point, blinded by
   a clamped key and unblinded by 1/(8k) is recovered, whatever torsion its
   point had. *)
ASSUME RecoverInvertsHash ==
  \A x \in Item, k \in Key :
    recover_from_point(MulInv8(k, MulClamped(k, hash_to_point(x)))) = x
=============================================================================
