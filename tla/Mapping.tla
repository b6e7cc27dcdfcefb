------------------------------- MODULE Mapping -------------------------------
(***************************************************************************)
(* Items to curve points and back (mapping.rs).  hash_to_point pads an     *)
(* item with a zero half, permutes the block, reads it as a field element  *)
(* (the top bit is dropped and the rest reduced) and maps it to the curve  *)
(* with Elligator 2; the protocol then leaves only the prime-order part of *)
(* the point, and recover_from_point tries its eight translates.           *)
(* hash_to_curve maps a digest and never goes back.  The field and the     *)
(* curve are those of the code for any prime P and coefficient A.          *)
(***************************************************************************)
EXTENDS Feistel

CONSTANTS P,             \* the prime 2^255 - 19
          A,             \* the Montgomery coefficient 486662
          SQRT_M1,       \* the even root of -1
          EDWARDS_D,     \* the coefficient of the twisted Edwards form
          EIGHT_TORSION, \* the eight points of small order, 0..7 -> Points
          HalfSize,      \* 2^128: a half is one of as many values
          Keys           \* the master keys tried

VARIABLES at,      \* the step that is next
          key,     \* the master key of the permutation
          input,   \* the block that is hashed: <<item, 0>>, or a digest
          r,       \* the field element of the block
          point,   \* the Edwards point
          tried,   \* the translates tried
          result   \* what recover_from_point returned: <<>> or <<found, item>>

mapVars == <<at, key, input, r, point, tried, result>>

Field == 0..(P - 1)
None == <<>>

Mul(a, b) == (a * b) % P
Square(a) == (a * a) % P
Neg(a) == (P - a) % P
is_negative(a) == a % 2 = 1
\* x.invert(), 0 for 0.
Inv == [a \in Field |-> IF a = 0 THEN 0 ELSE CHOOSE b \in Field : Mul(a, b) = 1]
\* The even square root of a, None when a has none.
Root == [a \in Field |-> LET s == {b \in Field : Square(b) = a /\ ~is_negative(b)}
                         IN  IF s = {} THEN None ELSE <<CHOOSE b \in s : TRUE>>]

(* P is an odd prime, and of a and SQRT_M1 a exactly one is a square: what P = 5
   modulo 8 means for squares. *)
ASSUME PrimeAssumption ==
  /\ P \in Nat /\ P > 2 /\ P % 2 = 1
  /\ \A a \in Field \ {0} : \E b \in Field : Mul(a, b) = 1
  /\ SQRT_M1 \in Field /\ Square(SQRT_M1) = P - 1
  /\ \A a \in Field \ {0} : Root[a] = None <=> Root[Mul(SQRT_M1, a)] # None

(* The two forms are of one curve, and their conversions and addition laws have
   no exceptions beside the ones of to_edwards and to_montgomery. *)
ASSUME CoefficientAssumption ==
  /\ A \in Field \ {0} /\ EDWARDS_D \in Field
  /\ (A + 2) % P # 0 /\ Root[(A + 2) % P] # None /\ Root[(A + P - 2) % P] = None
  /\ Mul(EDWARDS_D, A + 2) = (P + 2 - A) % P

\* FieldElement::sqrt_ratio_i(1, a): whether 1/a is a square, and the even root
\* of 1/a or of sqrt(-1)/a.
sqrt_ratio_one(a) ==
  IF a = 0 THEN [is_sq |-> FALSE, root |-> 0]
  ELSE IF Root[Inv[a]] # None THEN [is_sq |-> TRUE, root |-> Root[Inv[a]][1]]
  ELSE [is_sq |-> FALSE, root |-> Root[Mul(SQRT_M1, Inv[a])][1]]

TopBit == HalfSize \div 2

(* A half is a number of so many bits that a block but for its top bit holds the
   elements of the field. *)
ASSUME BytesAssumption ==
  /\ HalfSize \in Nat \ {0} /\ HalfSize % 2 = 0 /\ Half = 0..(HalfSize - 1)
  /\ P <= HalfSize * TopBit
  /\ Keys \subseteq Half /\ Keys # {}

\* FieldElement::from_bytes ignores the top bit and accepts values above P.
from_bytes(b) == (b[1] + HalfSize * (b[2] % TopBit)) % P
\* as_bytes gives the canonical encoding.
as_bytes(a) == <<a % HalfSize, a \div HalfSize>>

-----------------------------------------------------------------------------
\* The direct map of Elligator 2, to the u-coordinate.
\* Mutant: the branch for non-squares is missing.
field_to_mont_mutant(x) ==
  LET zu == Mul(2, Square(x))
      v  == (zu + 1) % P
      t3 == Mul(A, (Mul(Square(A), zu) + Neg(Square(v))) % P)
      sq == sqrt_ratio_one(Mul(t3, Mul(Square(v), v)))
  IN  Mul(Mul(Mul(Neg(1), A), Mul(t3, Square(v))), Square(sq.root))
field_to_mont(x) ==
  LET zu == Mul(2, Square(x))
      v  == (zu + 1) % P
      t3 == Mul(A, (Mul(Square(A), zu) + Neg(Square(v))) % P)
      sq == sqrt_ratio_one(Mul(t3, Mul(Square(v), v)))
      u  == IF sq.is_sq THEN 1 ELSE Mul(Square(x), Mul(Neg(2), SQRT_M1))
  IN  Mul(Mul(Mul(Neg(u), A), Mul(t3, Square(v))), Square(sq.root))

\* Its inverse: the two representatives up to sign, or None.
abs(a) == IF is_negative(a) THEN Neg(a) ELSE a
mont_to_field(u) ==
  LET t  == (u + A) % P
      sq == sqrt_ratio_one(Mul(Mul(Neg(2), u), t))
  IN  IF u = Neg(A) \/ ~sq.is_sq THEN None
      ELSE <<abs(Mul(t, sq.root)), abs(Mul(u, sq.root))>>

\* MontgomeryPoint::to_edwards(0): None for u = -1 and for a u of the twist.
to_edwards(u) ==
  LET y  == Mul((u + P - 1) % P, Inv[(u + 1) % P])
      x2 == Mul((Square(y) + P - 1) % P, Inv[(Mul(EDWARDS_D, Square(y)) + 1) % P])
  IN  IF u = P - 1 \/ Root[x2] = None THEN None ELSE <<Root[x2][1], y>>

\* EdwardsPoint::to_montgomery; the identity goes to 0.
to_montgomery(q) == Mul((1 + q[2]) % P, Inv[(1 + P - q[2]) % P])

field_to_edwards(x) == to_edwards(field_to_mont(x))
edwards_to_field(q) == mont_to_field(to_montgomery(q))

\* The group law of the twisted Edwards curve.
AddPoints(q, s) ==
  LET c == Mul(EDWARDS_D, Mul(Mul(q[1], s[1]), Mul(q[2], s[2])))
  IN  << Mul((q[1] * s[2] + q[2] * s[1]) % P, Inv[(1 + c) % P]),
         Mul((q[2] * s[2] + q[1] * s[1]) % P, Inv[(1 + P - c) % P]) >>
NegPoint(q) == <<Neg(q[1]), q[2]>>
Double(q) == AddPoints(q, q)
Points == {q \in Field \X Field : (Square(q[2]) + Neg(Square(q[1]))) % P
                           = (1 + Mul(EDWARDS_D, Mul(Square(q[1]), Square(q[2])))) % P}
PrimeOrder == {Double(Double(Double(q))) : q \in Points}

Translates(q) == {AddPoints(q, EIGHT_TORSION[j]) : j \in 0..7}

(* The group is that of curve25519-dalek: the eight points of small order are a
   subgroup, and each of its cosets has one point of the prime-order group. *)
ASSUME TorsionAssumption ==
  /\ EIGHT_TORSION \in [0..7 -> Points] /\ EIGHT_TORSION[0] = <<0, 1>>
  /\ \A j \in 0..7 : \E k \in 0..7 : NegPoint(EIGHT_TORSION[j]) = EIGHT_TORSION[k]
  /\ \A q \in Points : /\ \A t \in Translates(q) : t \in Points /\ Translates(t) = Translates(q)
                       /\ \E s \in PrimeOrder : PrimeOrder \cap Translates(q) = {s}

\* What is left of a point once the masks are off: times eight by the clamped
\* keys, times 1/8 by sk_8inv.
PrimePart(q) == CHOOSE s \in PrimeOrder : s \in Translates(q)

-----------------------------------------------------------------------------
\* check_bytes: the block of an encoding and of the same encoding with the top
\* bit set are decrypted; the first whose high half is zero gives the item.
\* Mutant: the encoding with the top bit set is not tried.
check_bytes_mutant(k, b) ==
  LET c == decrypt_block(k, b)
  IN  IF c[2] = 0 THEN <<c[1]>> ELSE None
check_bytes(k, b) ==
  LET c  == decrypt_block(k, b)
      nc == decrypt_block(k, <<b[1], b[2] + TopBit>>)
  IN  IF c[2] = 0 THEN <<c[1]>> ELSE IF nc[2] = 0 THEN <<nc[1]>> ELSE None

\* check_item: r0, -r0, r1, -r1 in this order.
check_item(k, pair) ==
  LET elems == <<pair[1], Neg(pair[1]), pair[2], Neg(pair[2])>>
      tries == [j \in 1..4 |-> check_bytes(k, as_bytes(elems[j]))]
      hits  == {j \in 1..4 : tries[j] # None}
  IN  IF hits = {} THEN None ELSE tries[CHOOSE j \in hits : \A l \in hits : j <= l]

-----------------------------------------------------------------------------
MapInit ==
  /\ \/ /\ at = "item"
        /\ \E item \in Half : input = <<item, 0>>
        /\ key \in Keys
     \/ /\ at = "digest"
        /\ input \in Block
        /\ key = CHOOSE k \in Keys : TRUE
  /\ r = 0 /\ point = None /\ tried = 0 /\ result = None

\* hash_to_point: unwrap panics when the point cannot be converted.
HashToPoint ==
  /\ at = "item"
  /\ r' = from_bytes(encrypt_block(key, input))
  /\ point' = field_to_edwards(r')
  /\ at' = IF point' = None THEN "panic" ELSE "masked"
  /\ UNCHANGED <<key, input, tried, result>>

\* hash_to_curve and the conversion the one-sided parties make of it.
HashToCurve ==
  /\ at = "digest"
  /\ r' = from_bytes(input)
  /\ point' = to_edwards(field_to_mont(r'))
  /\ at' = IF point' = None THEN "panic" ELSE "hashed"
  /\ UNCHANGED <<key, input, tried, result>>

\* The protocol masks the point with both keys and takes the masks off.
Unmask ==
  /\ at = "masked"
  /\ point' = PrimePart(point)
  /\ at' = "scan"
  /\ UNCHANGED <<key, input, r, tried, result>>

\* One translate of recover_from_point.
Attempt(j) == LET pair == edwards_to_field(AddPoints(point, EIGHT_TORSION[j]))
              IN  IF pair = None THEN None ELSE check_item(key, pair)
TryTranslate ==
  /\ at = "scan" /\ tried < 8
  /\ LET hit == Attempt(tried)
     IN  IF hit = None THEN /\ tried' = tried + 1
                            /\ UNCHANGED <<at, result>>
                       ELSE /\ at' = "done" /\ result' = <<TRUE, hit[1]>>
                            /\ UNCHANGED tried
  /\ UNCHANGED <<key, input, r, point>>

\* No translate gave an item: the array that was zeroed at the start.
ReturnZero ==
  /\ at = "scan" /\ tried = 8
  /\ at' = "done" /\ result' = <<FALSE, 0>>
  /\ UNCHANGED <<key, input, r, point, tried>>

MapNext == HashToPoint \/ HashToCurve \/ Unmask \/ TryTranslate \/ ReturnZero

MapSpec == MapInit /\ [][MapNext]_mapVars /\ WF_mapVars(MapNext)

-----------------------------------------------------------------------------
\* The items whose block is read as a field element it is not the encoding of
\* (of 255 bits, but not below P), and the item that goes to zero, which has
\* no preimage under mont_to_field.
Exceptional(b) == LET e == encrypt_block(key, b)
                  IN  \/ e[1] + HalfSize * (e[2] % TopBit) >= P
                      \/ from_bytes(e) = 0

\* The point recover_from_point is given for an item.
Image(item) == PrimePart(field_to_edwards(from_bytes(encrypt_block(key, <<item, 0>>))))

\* Neither unwrap of to_edwards panics: Elligator never leaves the curve and
\* never gives u = -1 (mapping.rs:289, onesided.rs:172, 210).
UnwrapsSucceed == at # "panic"

\* What recover_from_point finds is an item of that very point, up to the sign
\* the Montgomery form forgets: no translate, no sign and no top bit makes up
\* an item that was not hashed there.
FoundIsPreimage ==
  at = "done" /\ result[1] => Image(result[2]) \in {point, NegPoint(point)}

\* The sixteen zero bytes of a failed recovery are returned for an exceptional
\* item only, never in silence for an ordinary one (mapping.rs:62).
ZeroOnlyIfExceptional ==
  at = "done" /\ ~result[1] => Exceptional(input)

=============================================================================
