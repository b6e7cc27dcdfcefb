---------------------------- MODULE ShuffleProofs ----------------------------
(***************************************************************************)
(* Proofs about the arguments of src/src/aok.rs, for every number of entries,  *)
(* every field and every draw: what verify_shuffle_adapted and                *)
(* batched_ddh_verify accept is exactly what their equations are meant to say, *)
(* a response that is off by one is refused, and the copy of the known-content *)
(* check is as strict as its original.                                       *)
(*                                                                          *)
(* The order of the argument: congruence modulo Q, with the remainder kept    *)
(* behind Mod; commitments as vectors of integers that matter modulo Q; what  *)
(* an honest proof opens; the stages of the specification (SInv); folds, which *)
(* do not depend on the order they take entries in; the batched argument; the  *)
(* recomputed product; true statements.  Inductions are by the smallest       *)
(* counterexample (Least, FewestElements).                                   *)
(***************************************************************************)
EXTENDS ShuffleArgument, FiniteSetTheorems, WellFoundedInduction, TLAPS

-----------------------------------------------------------------------------
(* Arithmetic modulo Q. *)

Div(a, n) == a \div n
Rem(a, n) == a % n
Mod(a) == Rem(a, Q)
Cong(a, b) == Mod(a) = Mod(b)

LEMMA QFacts == Q \in Nat /\ Q > 1 /\ Q \in Nat \ {0} /\ Q \in Int
BY FieldAssumption

LEMMA DivMod ==
  ASSUME NEW a \in Int, NEW n \in Nat \ {0}
  PROVE  a = Div(a, n) * n + Rem(a, n) /\ Rem(a, n) \in 0..(n - 1) /\ Div(a, n) \in Int
BY DEF Div, Rem

\* A number and its remainder.
LEMMA Remainder ==
  ASSUME NEW a \in Int
  PROVE  /\ Mod(a) \in Field /\ Mod(a) \in 0..(Q - 1) /\ Mod(a) \in Int
         /\ \E k \in Int : a = k * Q + Mod(a)
<1>1. Q \in Nat \ {0}
  BY QFacts
<1>2. Rem(a, Q) \in 0..(Q - 1) /\ Div(a, Q) \in Int /\ a = Div(a, Q) * Q + Rem(a, Q)
  BY <1>1, DivMod
<1>3. Mod(a) \in 0..(Q - 1) /\ \E k \in Int : a = k * Q + Mod(a)
  BY <1>2 DEF Mod
<1> QED BY <1>3, QFacts DEF Field

LEMMA RemainderOfField ==
  ASSUME NEW a \in Field
  PROVE  Mod(a) = a /\ a \in Int
BY QFacts DEF Field, Mod, Rem

LEMMA CongMultiple ==
  ASSUME NEW a \in Int, NEW k \in Int
  PROVE  Mod(k * Q + a) = Mod(a)
<1>b. PICK b \in Int : b = k * Q + a
  BY QFacts
<1>1. PICK j \in Int : a = j * Q + Mod(a)
  BY Remainder
<1>2. PICK l \in Int : b = l * Q + Mod(b)
  BY Remainder
<1>r. Mod(a) \in 0..(Q - 1) /\ Mod(b) \in 0..(Q - 1)
  BY Remainder
<1>3. k * Q \in Int /\ j * Q \in Int /\ l * Q \in Int /\ Q \in Int
  BY QFacts
<1>4. PICK m \in Int : m = l - k - j
  OBVIOUS
<1>5. m * Q = Mod(a) - Mod(b)
  <2>1. m * Q = l * Q - k * Q - j * Q
    BY <1>4, QFacts
  <2>2. PICK kq, jq, lq \in Int : kq = k * Q /\ jq = j * Q /\ lq = l * Q
    BY <1>3
  <2>3. b = kq + a /\ a = jq + Mod(a) /\ b = lq + Mod(b) /\ m * Q = lq - kq - jq
    BY <1>b, <1>1, <1>2, <2>1, <2>2
  <2>4. Mod(a) \in Int /\ Mod(b) \in Int
    BY Remainder
  <2>5. lq - kq - jq = Mod(a) - Mod(b)
    BY <2>3, <2>4
  <2> QED BY <2>3, <2>5
<1>6. ASSUME m >= 1 PROVE FALSE
  <2>1. m * Q >= Q
    BY <1>6, QFacts
  <2> QED BY <2>1, <1>5, <1>r, QFacts
<1>7. ASSUME m <= -1 PROVE FALSE
  <2>1. (0 - m) * Q >= Q
    BY <1>7, QFacts
  <2>2. (0 - m) * Q = Mod(b) - Mod(a)
    BY <1>5, <1>r, QFacts
  <2> QED BY <2>1, <2>2, <1>r, QFacts
<1>8. m = 0
  BY <1>6, <1>7
<1>9. Mod(a) = Mod(b)
  BY <1>5, <1>8, <1>r, QFacts
<1> QED BY <1>b, <1>9

LEMMA CongDifference ==
  ASSUME NEW a \in Int, NEW b \in Int
  PROVE  Cong(a, b) <=> \E k \in Int : a = k * Q + b
<1>1. ASSUME NEW k \in Int, a = k * Q + b PROVE Cong(a, b)
  BY <1>1, CongMultiple DEF Cong
<1>2. ASSUME Cong(a, b) PROVE \E k \in Int : a = k * Q + b
  <2>1. PICK j \in Int : a = j * Q + Mod(a)
    BY Remainder
  <2>2. PICK l \in Int : b = l * Q + Mod(b)
    BY Remainder
  <2>3. Mod(a) = Mod(b) /\ Mod(a) \in Int
    BY <1>2, Remainder DEF Cong
  <2>4. a = (j - l) * Q + b
    <3>1. (j - l) * Q = j * Q - l * Q /\ j * Q \in Int /\ l * Q \in Int
      BY QFacts
    <3> QED BY <2>1, <2>2, <2>3, <3>1
  <2> QED BY <2>4
<1> QED BY <1>1, <1>2

LEMMA CongMod ==
  ASSUME NEW a \in Int
  PROVE  Cong(Mod(a), a) /\ Mod(Mod(a)) = Mod(a)
BY Remainder, RemainderOfField DEF Cong

LEMMA CongAdd ==
  ASSUME NEW a \in Int, NEW b \in Int, NEW c \in Int, NEW d \in Int, Cong(a, b), Cong(c, d)
  PROVE  Cong(a + c, b + d)
<1>1. PICK j \in Int : a = j * Q + b
  BY CongDifference
<1>2. PICK l \in Int : c = l * Q + d
  BY CongDifference
<1>3. a + c = (j + l) * Q + (b + d)
  BY <1>1, <1>2, QFacts
<1>4. a + c \in Int /\ b + d \in Int /\ j + l \in Int
  OBVIOUS
<1> QED BY <1>3, <1>4, CongDifference

LEMMA CongMul ==
  ASSUME NEW a \in Int, NEW b \in Int, NEW c \in Int, NEW d \in Int, Cong(a, b), Cong(c, d)
  PROVE  Cong(a * c, b * d)
<1>1. PICK j \in Int : a = j * Q + b
  BY CongDifference
<1>2. PICK l \in Int : c = l * Q + d
  BY CongDifference
<1>3. a * c = (j * c + b * l) * Q + b * d
  <2>1. a * c = (j * Q + b) * c
    BY <1>1
  <2>2. (j * Q + b) * c = (j * c) * Q + b * c
    BY QFacts
  <2>3. b * c = b * (l * Q + d)
    BY <1>2
  <2>4. b * (l * Q + d) = (b * l) * Q + b * d
    BY QFacts
  <2>5. (j * c + b * l) * Q = (j * c) * Q + (b * l) * Q
    BY QFacts
  <2>6. (j * c) * Q \in Int /\ (b * l) * Q \in Int /\ b * d \in Int /\ b * c \in Int
    BY QFacts
  <2> QED BY <2>1, <2>2, <2>3, <2>4, <2>5, <2>6
<1>4. a * c \in Int /\ b * d \in Int /\ j * c + b * l \in Int
  OBVIOUS
<1> QED BY <1>3, <1>4, CongDifference

LEMMA CongNeg ==
  ASSUME NEW a \in Int, NEW b \in Int, Cong(a, b)
  PROVE  Cong(-a, -b)
<1>1. PICK j \in Int : a = j * Q + b
  BY CongDifference
<1>2. -a = (-j) * Q + (-b)
  BY <1>1, QFacts
<1>3. -a \in Int /\ -b \in Int /\ -j \in Int
  OBVIOUS
<1> QED BY <1>2, <1>3, CongDifference

LEMMA CongTrans ==
  ASSUME NEW a, NEW b, NEW c, Cong(a, b), Cong(b, c)
  PROVE  Cong(a, c) /\ Cong(b, a)
BY DEF Cong

\* A factor that is not zero can be cancelled.
LEMMA Cancel ==
  ASSUME NEW k \in Field \ {0}, NEW a \in Int, NEW b \in Int, Cong(k * a, k * b)
  PROVE  Cong(a, b)
<1>1. PICK j \in Field : (k * j) % Q = 1
  BY FieldAssumption
<1>2. k \in Int /\ j \in Int /\ k * j \in Int /\ k * a \in Int /\ k * b \in Int
  BY QFacts DEF Field
<1>3. Cong(k * j, 1)
  <2>1. Mod(k * j) = 1
    BY <1>1 DEF Mod, Rem
  <2>2. 1 \in Field
    BY QFacts DEF Field
  <2> QED BY <2>1, <2>2, RemainderOfField DEF Cong
<1>4. ASSUME NEW x \in Int PROVE Cong(x, j * (k * x))
  <2>1. Cong((k * j) * x, 1 * x)
    <3>1. Cong(x, x) /\ 1 \in Int
      BY DEF Cong
    <3> QED BY <1>2, <1>3, <3>1, CongMul
  <2>2. (k * j) * x = j * (k * x) /\ 1 * x = x
    BY <1>2
  <2> QED BY <2>1, <2>2 DEF Cong
<1>5. Cong(j * (k * a), j * (k * b))
  <2>1. Cong(j, j)
    BY DEF Cong
  <2> QED BY <1>2, <2>1, CongMul
<1> QED BY <1>4, <1>5 DEF Cong

-----------------------------------------------------------------------------
(* Commitments, as vectors of integers that matter modulo Q only. *)

LEMMA CommitFields ==
  ASSUME NEW m, NEW r
  PROVE  /\ commit(m, r).base = Mod(r)
         /\ \A i \in Idx : commit(m, r).f[i] = Mod(m[i])
BY DEF commit, Mod, Rem

LEMMA CommitEqual ==
  ASSUME NEW m, NEW r, NEW k, NEW t
  PROVE  commit(m, r) = commit(k, t) <=> Cong(r, t) /\ \A i \in Idx : Cong(m[i], k[i])
<1>1. ASSUME commit(m, r) = commit(k, t)
      PROVE  Cong(r, t) /\ \A i \in Idx : Cong(m[i], k[i])
  <2>1. Mod(r) = Mod(t)
    BY <1>1, CommitFields
  <2>2. ASSUME NEW i \in Idx PROVE Mod(m[i]) = Mod(k[i])
    BY <1>1, CommitFields
  <2> QED BY <2>1, <2>2 DEF Cong
<1>2. ASSUME Cong(r, t), \A i \in Idx : Cong(m[i], k[i])
      PROVE  commit(m, r) = commit(k, t)
  <2>1. [i \in Idx |-> Mod(m[i])] = [i \in Idx |-> Mod(k[i])]
    BY <1>2 DEF Cong
  <2>2. Mod(r) = Mod(t)
    BY <1>2 DEF Cong
  <2>3. /\ commit(m, r) = [f |-> [i \in Idx |-> Mod(m[i])], base |-> Mod(r)]
        /\ commit(k, t) = [f |-> [i \in Idx |-> Mod(k[i])], base |-> Mod(t)]
    BY DEF commit, Mod, Rem
  <2> QED BY <2>1, <2>2, <2>3
<1> QED BY <1>1, <1>2

LEMMA CommitPlus ==
  ASSUME NEW m \in [Idx -> Int], NEW k \in [Idx -> Int], NEW r \in Int, NEW t \in Int
  PROVE  Plus(commit(m, r), commit(k, t)) = commit([i \in Idx |-> m[i] + k[i]], r + t)
<1> DEFINE mk == [i \in Idx |-> m[i] + k[i]]
           sum == [i \in Idx |-> commit(m, r).f[i] + commit(k, t).f[i]]
<1>1. ASSUME NEW i \in Idx PROVE Cong(sum[i], mk[i])
  <2>1. sum[i] = Mod(m[i]) + Mod(k[i]) /\ mk[i] = m[i] + k[i]
    BY CommitFields
  <2>2. m[i] \in Int /\ k[i] \in Int
    OBVIOUS
  <2>3. /\ Cong(Mod(m[i]), m[i]) /\ Cong(Mod(k[i]), k[i])
        /\ Mod(m[i]) \in Int /\ Mod(k[i]) \in Int
    BY <2>2, CongMod, Remainder
  <2>4. Cong(Mod(m[i]) + Mod(k[i]), m[i] + k[i])
    BY <2>2, <2>3, CongAdd
  <2> QED BY <2>1, <2>4
<1>2. Cong(commit(m, r).base + commit(k, t).base, r + t)
  <2>1. Cong(Mod(r), r) /\ Cong(Mod(t), t) /\ Mod(r) \in Int /\ Mod(t) \in Int
    BY CongMod, Remainder
  <2>2. Cong(Mod(r) + Mod(t), r + t)
    BY <2>1, CongAdd
  <2> QED BY <2>2, CommitFields
<1>3. Plus(commit(m, r), commit(k, t)) = commit(sum, commit(m, r).base + commit(k, t).base)
  BY DEF Plus
<1> HIDE DEF mk, sum
<1>4. commit(sum, commit(m, r).base + commit(k, t).base) = commit(mk, r + t)
  BY <1>1, <1>2, CommitEqual
<1> QED BY <1>3, <1>4 DEF mk

LEMMA CommitTimes ==
  ASSUME NEW c \in Int, NEW m \in [Idx -> Int], NEW r \in Int
  PROVE  Times(c, commit(m, r)) = commit([i \in Idx |-> c * m[i]], c * r)
<1> DEFINE cm == [i \in Idx |-> c * m[i]]
           prd == [i \in Idx |-> c * commit(m, r).f[i]]
<1>0. ASSUME NEW a \in Int PROVE Cong(c * Mod(a), c * a)
  <2>1. Cong(Mod(a), a) /\ Mod(a) \in Int /\ Cong(c, c)
    BY CongMod, Remainder DEF Cong
  <2> QED BY <2>1, CongMul
<1>1. ASSUME NEW i \in Idx PROVE Cong(prd[i], cm[i])
  <2>1. prd[i] = c * Mod(m[i]) /\ cm[i] = c * m[i]
    BY CommitFields
  <2>2. m[i] \in Int
    OBVIOUS
  <2> QED BY <1>0, <2>1, <2>2
<1>2. Cong(c * commit(m, r).base, c * r)
  BY <1>0, CommitFields
<1>3. Times(c, commit(m, r)) = commit(prd, c * commit(m, r).base)
  BY DEF Times
<1> HIDE DEF cm, prd
<1>4. commit(prd, c * commit(m, r).base) = commit(cm, c * r)
  BY <1>1, <1>2, CommitEqual
<1> QED BY <1>3, <1>4 DEF cm

-----------------------------------------------------------------------------
(* Products of the first entries of a vector. *)

\* A set of numbers has a least one, the form induction takes here.
LEMMA Least ==
  ASSUME NEW T, T \subseteq Nat, T # {}
  PROVE  \E m \in T : \A k \in T : m <= k
<1>1. PICK m \in T : \A k \in T : ~(<<k, m>> \in OpToRel(<, Nat))
  BY NatLessThanWellFounded, WFMin
<1>2. ASSUME NEW k \in T, k < m PROVE FALSE
  <2>1. <<k, m>> \in OpToRel(<, Nat)
    BY <1>2 DEF OpToRel
  <2> QED BY <1>1, <2>1
<1> QED BY <1>2

\* What a vector of running products of c satisfies.
Running(a, c) ==
  a = [i \in Idx |-> (c[i] * IF i = 0 THEN 1 ELSE a[i - 1]) % Q]

\* Up to an entry n.
RunningTo(a, c, n) ==
  \A i \in Idx : i < n => a[i] = (c[i] * IF i = 0 THEN 1 ELSE a[i - 1]) % Q

LEMMA RunningExists ==
  ASSUME N \in Nat, Idx = 0..(N - 1), NEW c
  PROVE  \E a : Running(a, c)
<1> DEFINE Bad == {n \in Nat : ~ \E a : DOMAIN a = Idx /\ RunningTo(a, c, n)}
<1>1. ASSUME Bad # {} PROVE FALSE
  <2>1. PICK n \in Bad : \A k \in Bad : n <= k
    <3>1. Bad \in SUBSET Nat
      OBVIOUS
    <3> HIDE DEF Bad
    <3> QED BY <1>1, <3>1, Least
  <2>2. n # 0
    <3>1. DOMAIN [i \in Idx |-> 0] = Idx /\ RunningTo([i \in Idx |-> 0], c, 0)
      BY DEF RunningTo
    <3> QED BY <2>1, <3>1
  <2>3. n - 1 \in Nat /\ n - 1 \notin Bad
    <3>1. n \in Nat /\ n - 1 \in Nat /\ ~(n <= n - 1)
      BY <2>2
    <3> QED BY <2>1, <3>1
  <2>4. PICK b : DOMAIN b = Idx /\ RunningTo(b, c, n - 1)
    BY <2>3
  <2> DEFINE d == [i \in Idx |-> (c[i] * IF i = 0 THEN 1 ELSE b[i - 1]) % Q]
  <2>5. ASSUME NEW i \in Idx, i < n - 1 PROVE d[i] = b[i]
    BY <2>4, <2>5 DEF RunningTo
  <2>6. ASSUME NEW i \in Idx, i < n PROVE d[i] = (c[i] * IF i = 0 THEN 1 ELSE d[i - 1]) % Q
    <3>1. CASE i = 0
      BY <3>1
    <3>2. CASE i # 0
      <4>1. i - 1 \in Idx /\ i - 1 < n - 1
        BY <2>6, <3>2
      <4>2. d[i - 1] = b[i - 1]
        BY <4>1, <2>5
      <4> HIDE DEF d
      <4>3. d[i] = (c[i] * b[i - 1]) % Q
        BY <3>2 DEF d
      <4> QED BY <3>2, <4>2, <4>3
    <3> QED BY <3>1, <3>2
  <2>7. DOMAIN d = Idx
    OBVIOUS
  <2> HIDE DEF d
  <2>8. RunningTo(d, c, n)
    BY <2>6 DEF RunningTo
  <2> QED BY <2>1, <2>7, <2>8
<1>2. PICK a : DOMAIN a = Idx /\ RunningTo(a, c, N)
  BY <1>1
<1> DEFINE b == [i \in Idx |-> a[i]]
<1>3. ASSUME NEW i \in Idx PROVE b[i] = (c[i] * IF i = 0 THEN 1 ELSE b[i - 1]) % Q
  <2>1. a[i] = (c[i] * IF i = 0 THEN 1 ELSE a[i - 1]) % Q
    BY <1>2 DEF RunningTo
  <2>2. i # 0 => i - 1 \in Idx
    OBVIOUS
  <2> QED BY <2>1, <2>2
<1>4. b = [i \in Idx |-> b[i]]
  OBVIOUS
<1> HIDE DEF b
<1>5. b = [i \in Idx |-> (c[i] * IF i = 0 THEN 1 ELSE b[i - 1]) % Q]
  BY <1>3, <1>4
<1> QED BY <1>5 DEF Running

LEMMA RunningType ==
  ASSUME N \in Nat, Idx = 0..(N - 1), NEW c \in [Idx -> Int], NEW a, Running(a, c)
  PROVE  a \in [Idx -> Field]
<1>1. ASSUME NEW i \in Idx PROVE a[i] = Mod(c[i] * IF i = 0 THEN 1 ELSE a[i - 1])
  BY DEF Running, Mod, Rem
<1> DEFINE Bad == {i \in Idx : a[i] \notin Field}
<1>2. ASSUME Bad # {} PROVE FALSE
  <2>1. PICK i \in Bad : \A k \in Bad : i <= k
    <3>1. Bad \in SUBSET Nat
      OBVIOUS
    <3> HIDE DEF Bad
    <3> QED BY <1>2, <3>1, Least
  <2>2. PICK y : y = IF i = 0 THEN 1 ELSE a[i - 1]
    OBVIOUS
  <2>3. y \in Int
    <3>1. CASE i = 0
      BY <2>2, <3>1
    <3>2. CASE i # 0
      <4>1. i - 1 \in Idx /\ ~(i <= i - 1)
        BY <3>2
      <4>2. a[i - 1] \in Field
        BY <2>1, <4>1
      <4> QED BY <2>2, <3>2, <4>2, QFacts DEF Field
    <3> QED BY <3>1, <3>2
  <2>4. c[i] * y \in Int
    BY <2>3
  <2>5. a[i] = Mod(c[i] * y)
    BY <1>1, <2>2
  <2> QED BY <2>4, <2>5, Remainder
<1>3. a = [i \in Idx |-> a[i]]
  BY DEF Running
<1> QED BY <1>2, <1>3

\* The vector a of prove_shuffle_known.
LEMMA ProductsRunning ==
  ASSUME N \in Nat, Idx = 0..(N - 1), NEW m, NEW p, NEW x
  PROVE  Running(Products(m, p, x), [i \in Idx |-> m[p[i]] - x])
<1> DEFINE c == [i \in Idx |-> m[p[i]] - x]
<1>1. PICK b : Running(b, c)
  BY RunningExists
<1>2. ASSUME NEW a
      PROVE  Running(a, c) <=>
             a = [i \in Idx |-> ((m[p[i]] - x) * IF i = 0 THEN 1 ELSE a[i - 1]) % Q]
  <2>1. [i \in Idx |-> (c[i] * IF i = 0 THEN 1 ELSE a[i - 1]) % Q]
        = [i \in Idx |-> ((m[p[i]] - x) * IF i = 0 THEN 1 ELSE a[i - 1]) % Q]
    OBVIOUS
  <2> QED BY <2>1 DEF Running
<1>3. \E a : a = [i \in Idx |-> ((m[p[i]] - x) * IF i = 0 THEN 1 ELSE a[i - 1]) % Q]
  BY <1>1, <1>2
<1>4. Products(m, p, x)
      = [i \in Idx |-> ((m[p[i]] - x) * IF i = 0 THEN 1 ELSE Products(m, p, x)[i - 1]) % Q]
  BY <1>3 DEF Products
<1> HIDE DEF c
<1>5. Running(Products(m, p, x), c)
  BY <1>2, <1>4
<1> QED BY <1>5 DEF c

-----------------------------------------------------------------------------
(* What a commitment holds: a vector and its randomness, before reduction. *)

VPlus(m, k) == [i \in Idx |-> m[i] + k[i]]
VTimes(c, m) == [i \in Idx |-> c * m[i]]

Holds(A, m, r) == A = commit(m, r) /\ m \in [Idx -> Int] /\ r \in Int

LEMMA HoldsPlus ==
  ASSUME NEW A, NEW B, NEW m, NEW k, NEW r, NEW t, Holds(A, m, r), Holds(B, k, t)
  PROVE  Holds(Plus(A, B), VPlus(m, k), r + t)
<1>1. m \in [Idx -> Int] /\ k \in [Idx -> Int] /\ r \in Int /\ t \in Int
  BY DEF Holds
<1>2. VPlus(m, k) \in [Idx -> Int] /\ r + t \in Int
  BY <1>1 DEF VPlus
<1>3. Plus(commit(m, r), commit(k, t)) = commit(VPlus(m, k), r + t)
  BY <1>1, CommitPlus DEF VPlus
<1> QED BY <1>2, <1>3 DEF Holds

LEMMA HoldsTimes ==
  ASSUME NEW c \in Int, NEW A, NEW m, NEW r, Holds(A, m, r)
  PROVE  Holds(Times(c, A), VTimes(c, m), c * r)
<1>1. m \in [Idx -> Int] /\ r \in Int
  BY DEF Holds
<1>2. VTimes(c, m) \in [Idx -> Int] /\ c * r \in Int
  BY <1>1 DEF VTimes
<1>3. Times(c, commit(m, r)) = commit(VTimes(c, m), c * r)
  BY <1>1, CommitTimes DEF VTimes
<1> QED BY <1>2, <1>3 DEF Holds

LEMMA HoldsBase ==
  ASSUME NEW k \in Int
  PROVE  Holds(mul_base(k), Zero, k)
BY DEF Holds, mul_base, Zero

\* Two ways to hold the same.
LEMMA HoldsEqual ==
  ASSUME NEW A, NEW m, NEW r, Holds(A, m, r), NEW k, NEW t
  PROVE  A = commit(k, t) <=> Cong(r, t) /\ \A i \in Idx : Cong(m[i], k[i])
BY CommitEqual DEF Holds

-----------------------------------------------------------------------------
(* A proof made by the prover's code, before it is judged. *)

Vectors == [Idx -> Field]

Setting ==
  /\ N \in Nat /\ N >= 1 /\ Idx = 0..(N - 1)
  /\ g \in Vectors /\ h \in Vectors /\ s \in Field \ {0} /\ pi \in [Idx -> Idx]
  /\ hint \in [d : Vectors, r_d : Field, r_pi : Field, r_z : Field, u : Field, u2 : Field,
               hint2 : [d : Vectors, delta : Vectors, r_d : Field, r_delta : Field, r_a : Field]]
  /\ chal \in [z : Vectors, delta : Field \ {0}, x : Field, e : Field \ {0}]

Honest == prove_shuffle_adapted(chal)
K == preprocess(hint.hint2)
Da == a2(K, z_rho(chal), pi, chal.x)

LEMMA SettingTypes ==
  ASSUME Setting
  PROVE  /\ K.d \in Vectors /\ K.delta \in Vectors
         /\ K.r_d \in Field /\ K.r_delta \in Field /\ K.r_a \in Field
         /\ z_rho(chal) \in Vectors /\ d2(K) \in [Idx -> Int] /\ Da \in [Idx -> Int]
         /\ Products(z_rho(chal), pi, chal.x) \in Vectors
<1>0. ASSUME NEW a \in Field PROVE a \in Int
  BY QFacts DEF Field
<1>1. hint.hint2 \in [d : Vectors, delta : Vectors, r_d : Field, r_delta : Field, r_a : Field]
  BY DEF Setting
<1>2. /\ K.d = hint.hint2.d /\ K.r_d = hint.hint2.r_d
      /\ K.r_delta = hint.hint2.r_delta /\ K.r_a = hint.hint2.r_a
  BY <1>1 DEF K, preprocess
<1>3. K.delta = [i \in Idx |-> IF i = N - 1 THEN 0
                               ELSE IF i = 0 THEN hint.hint2.d[0] ELSE hint.hint2.delta[i]]
  BY <1>1 DEF K, preprocess
<1>4. K.delta \in Vectors
  <2>1. 0 \in Field /\ 0 \in Idx
    BY QFacts DEF Field, Setting
  <2>2. hint.hint2.d \in [Idx -> Field] /\ hint.hint2.delta \in [Idx -> Field]
    BY <1>1 DEF Vectors
  <2> QED BY <1>3, <2>1, <2>2 DEF Vectors
<1>5. z_rho(chal) \in Vectors
  <2>1. ASSUME NEW i \in Idx PROVE (chal.z[i] + chal.delta * i) % Q \in Field
    <3>a. chal.z \in [Idx -> Field] /\ chal.delta \in Field /\ i \in Int
      BY DEF Setting, Vectors
    <3>1. chal.z[i] \in Int /\ chal.delta \in Int /\ i \in Int
      BY <1>0, <3>a
    <3>2. PICK b \in Int : b = chal.z[i] + chal.delta * i
      BY <3>1
    <3>3. Mod(b) \in Field
      BY Remainder
    <3> QED BY <3>2, <3>3 DEF Mod, Rem
  <2> QED BY <2>1 DEF z_rho, Vectors
<1>6. d2(K) \in [Idx -> Int]
  <2>1. ASSUME NEW i \in Idx PROVE (IF Last(i) THEN 0 ELSE -(K.delta[i] * K.d[i + 1])) \in Int
    <3>1. CASE Last(i)
      BY <3>1
    <3>2. CASE ~Last(i)
      <4>1. i + 1 \in Idx
        BY <3>2 DEF Setting, Last
      <4>2. K.delta[i] \in Int /\ K.d[i + 1] \in Int
        BY <1>0, <1>1, <1>2, <1>4, <4>1 DEF Vectors
      <4> QED BY <3>2, <4>2
    <3> QED BY <3>1, <3>2
  <2> QED BY <2>1 DEF d2
<1>7. Products(z_rho(chal), pi, chal.x) \in Vectors
  <2> DEFINE c == [i \in Idx |-> z_rho(chal)[pi[i]] - chal.x]
  <2>1. ASSUME NEW i \in Idx PROVE z_rho(chal)[pi[i]] - chal.x \in Int
    <3>1. pi[i] \in Idx /\ chal.x \in Int
      BY <1>0 DEF Setting
    <3>2. z_rho(chal)[pi[i]] \in Int
      BY <1>0, <1>5, <3>1 DEF Vectors
    <3> QED BY <3>1, <3>2
  <2>2. c \in [Idx -> Int]
    BY <2>1
  <2>3. Running(Products(z_rho(chal), pi, chal.x), c)
    BY ProductsRunning DEF Setting
  <2> HIDE DEF c
  <2> QED BY <2>2, <2>3, RunningType DEF Setting, Vectors
<1>8. Da \in [Idx -> Int]
  <2> DEFINE A == Products(z_rho(chal), pi, chal.x)
  <2>1. ASSUME NEW i \in Idx
        PROVE  (IF Last(i) THEN 0
                ELSE (K.delta[i + 1] - (z_rho(chal)[pi[i + 1]] - chal.x) * K.delta[i]
                        - A[i] * K.d[i + 1]) % Q) \in Int
    <3>1. CASE Last(i)
      BY <3>1
    <3>2. CASE ~Last(i)
      <4>1. i + 1 \in Idx /\ pi[i + 1] \in Idx
        BY <3>2 DEF Setting, Last
      <4>2. /\ K.delta[i + 1] \in Int /\ K.delta[i] \in Int /\ K.d[i + 1] \in Int
            /\ z_rho(chal)[pi[i + 1]] \in Int /\ chal.x \in Int
        BY <1>0, <1>1, <1>2, <1>4, <1>5, <4>1 DEF Vectors, Setting
      <4>3. A[i] \in Int
        BY <1>0, <1>7 DEF Vectors
      <4> HIDE DEF A
      <4>4. PICK b \in Int :
              b = K.delta[i + 1] - (z_rho(chal)[pi[i + 1]] - chal.x) * K.delta[i] - A[i] * K.d[i + 1]
        BY <4>2, <4>3
      <4>5. Mod(b) \in Int
        BY Remainder
      <4> QED BY <3>2, <4>4, <4>5 DEF Mod, Rem
    <3> QED BY <3>1, <3>2
  <2> QED BY <2>1 DEF Da, a2
<1> QED BY <1>1, <1>2, <1>4, <1>5, <1>6, <1>7, <1>8

\* A proof that differs from the honest one in the responses only that are not
\* hashed.
Kept ==
  /\ proof.c_pi = Honest.c_pi /\ proof.c_d = Honest.c_d /\ proof.c_z = Honest.c_z
  /\ proof.c_u = Honest.c_u /\ proof.g_d = Honest.g_d /\ proof.g_u = Honest.g_u
  /\ proof.x = Honest.x
  /\ proof.psi.c_d = Honest.psi.c_d /\ proof.psi.c_delta = Honest.psi.c_delta
  /\ proof.psi.c_a = Honest.psi.c_a

ZPi == [i \in Idx |-> chal.z[pi[i]]]

\* The fields of the honest proof.
LEMMA HonestFields ==
  ASSUME Setting
  PROVE  /\ Honest.c_pi = commit(pi, hint.r_pi) /\ Honest.c_d = commit(hint.d, hint.r_d)
         /\ Honest.c_z = commit(ZPi, hint.r_z)
         /\ Honest.c_u = Plus(Times(-hint.u, Honest.c_z), mul_base(hint.u2))
         /\ Honest.g_d = Dot(hint.d, g) /\ Honest.g_u = hint.u
         /\ Honest.x = [i \in Idx |-> (s * chal.z[pi[i]] + hint.d[i]) % Q]
         /\ Honest.v = (s * chal.delta + hint.u) % Q
         /\ Honest.v2 = ((s * hint.r_z + hint.r_d) * chal.delta + hint.u2) % Q
         /\ Honest.psi.c_d = commit(K.d, K.r_d)
         /\ Honest.psi.c_delta = commit(d2(K), K.r_delta)
         /\ Honest.psi.c_a = commit(Da, K.r_a)
         /\ Honest.psi.f = [i \in Idx |-> (chal.e * z_rho(chal)[pi[i]] + K.d[i]) % Q]
         /\ Honest.psi.f_delta = [i \in Idx |-> IF Last(i) THEN 0
                                                ELSE (chal.e * Da[i] + d2(K)[i]) % Q]
         /\ Honest.psi.z = (chal.e * (hint.r_z + hint.r_pi * chal.delta) + K.r_d) % Q
         /\ Honest.psi.z_delta = (chal.e * K.r_a + K.r_delta) % Q
<1> DEFINE P == prove_shuffle_known(hint.hint2, z_rho(chal), pi,
                                    hint.r_z + hint.r_pi * chal.delta, chal.x, chal.e)
<1>1. /\ P.c_d = commit(K.d, K.r_d)
      /\ P.c_delta = commit(d2(K), K.r_delta)
      /\ P.c_a = commit(Da, K.r_a)
      /\ P.f = [i \in Idx |-> (chal.e * z_rho(chal)[pi[i]] + K.d[i]) % Q]
      /\ P.f_delta = [i \in Idx |-> IF Last(i) THEN 0 ELSE (chal.e * Da[i] + d2(K)[i]) % Q]
      /\ P.z = (chal.e * (hint.r_z + hint.r_pi * chal.delta) + K.r_d) % Q
      /\ P.z_delta = (chal.e * K.r_a + K.r_delta) % Q
  BY Zenon DEF prove_shuffle_known, K, Da
<1>2. Honest.psi = P
  BY DEF Honest, prove_shuffle_adapted
<1> HIDE DEF P
<1>3. /\ Honest.c_pi = commit(pi, hint.r_pi) /\ Honest.c_d = commit(hint.d, hint.r_d)
      /\ Honest.c_z = commit(ZPi, hint.r_z)
      /\ Honest.c_u = Plus(Times(-hint.u, Honest.c_z), mul_base(hint.u2))
      /\ Honest.g_d = Dot(hint.d, g) /\ Honest.g_u = hint.u
      /\ Honest.x = [i \in Idx |-> (s * chal.z[pi[i]] + hint.d[i]) % Q]
      /\ Honest.v = (s * chal.delta + hint.u) % Q
      /\ Honest.v2 = ((s * hint.r_z + hint.r_d) * chal.delta + hint.u2) % Q
  BY Zenon DEF Honest, prove_shuffle_adapted, ZPi
<1> QED BY <1>1, <1>2, <1>3

LEMMA SettingInts ==
  ASSUME Setting
  PROVE  /\ s \in Int /\ chal.delta \in Int /\ chal.x \in Int /\ chal.e \in Int
         /\ hint.r_d \in Int /\ hint.r_pi \in Int /\ hint.r_z \in Int
         /\ hint.u \in Int /\ hint.u2 \in Int
         /\ K.r_d \in Int /\ K.r_delta \in Int /\ K.r_a \in Int
         /\ hint.d \in [Idx -> Int] /\ pi \in [Idx -> Int] /\ ZPi \in [Idx -> Int]
         /\ K.d \in [Idx -> Int] /\ K.delta \in [Idx -> Int] /\ z_rho(chal) \in [Idx -> Int]
         /\ chal.z \in [Idx -> Int] /\ g \in [Idx -> Int] /\ h \in [Idx -> Int]
<1>0. Field \subseteq Int
  BY QFacts DEF Field
<1>1. [Idx -> Field] \subseteq [Idx -> Int]
  BY <1>0
<1>2. /\ s \in Field /\ chal.delta \in Field /\ chal.x \in Field /\ chal.e \in Field
      /\ chal.z \in [Idx -> Field] /\ g \in [Idx -> Field] /\ h \in [Idx -> Field]
  BY DEF Setting, Vectors
<1>3. /\ hint.r_d \in Field /\ hint.r_pi \in Field /\ hint.r_z \in Field
      /\ hint.u \in Field /\ hint.u2 \in Field /\ hint.d \in [Idx -> Field]
  BY DEF Setting, Vectors
<1>4. /\ K.r_d \in Field /\ K.r_delta \in Field /\ K.r_a \in Field
      /\ K.d \in [Idx -> Field] /\ K.delta \in [Idx -> Field] /\ z_rho(chal) \in [Idx -> Field]
  BY SettingTypes DEF Vectors
<1>5. pi \in [Idx -> Int]
  <2>1. Idx \subseteq Int /\ pi \in [Idx -> Idx]
    BY DEF Setting
  <2> QED BY <2>1
<1>6. ZPi \in [Idx -> Int]
  <2>1. ASSUME NEW i \in Idx PROVE chal.z[pi[i]] \in Int
    <3>1. pi[i] \in Idx
      BY DEF Setting
    <3> QED BY <1>0, <1>2, <3>1
  <2> QED BY <2>1 DEF ZPi
<1>7. /\ s \in Int /\ chal.delta \in Int /\ chal.x \in Int /\ chal.e \in Int
      /\ hint.r_d \in Int /\ hint.r_pi \in Int /\ hint.r_z \in Int
      /\ hint.u \in Int /\ hint.u2 \in Int
      /\ K.r_d \in Int /\ K.r_delta \in Int /\ K.r_a \in Int
  BY <1>0, <1>2, <1>3, <1>4
<1> QED BY <1>1, <1>2, <1>3, <1>4, <1>5, <1>6, <1>7

\* What the three commitments of CommitmentsMatch hold.
MRho == VPlus(ZPi, VTimes(chal.delta, pi))
RRho == hint.r_z + chal.delta * hint.r_pi
F1 == VPlus(VTimes(chal.e, MRho), K.d)
R1 == chal.e * RRho + K.r_d
F2 == VPlus(VTimes(chal.e, Da), d2(K))
R2 == chal.e * K.r_a + K.r_delta
F3 == VPlus(VPlus(VTimes(proof.v, ZPi), VTimes(chal.delta, hint.d)),
            VPlus(VPlus(VTimes(-hint.u, ZPi), Zero), Zero))
R3 == (proof.v * hint.r_z + chal.delta * hint.r_d)
        + (((-hint.u) * hint.r_z + hint.u2) + (-proof.v2))
Com1 == Plus(Times(chal.e, c_rho), proof.psi.c_d)
Com2 == Plus(Times(chal.e, proof.psi.c_a), proof.psi.c_delta)
Com3 == Plus(Plus(Times(proof.v, proof.c_z), Times(chal.delta, proof.c_d)),
             Plus(proof.c_u, mul_base(-proof.v2)))

LEMMA ComsHold ==
  ASSUME Setting, Kept, proof.v \in Int, proof.v2 \in Int
  PROVE  Holds(Com1, F1, R1) /\ Holds(Com2, F2, R2) /\ Holds(Com3, F3, R3)
<1>1. /\ Holds(proof.c_z, ZPi, hint.r_z) /\ Holds(proof.c_pi, pi, hint.r_pi)
      /\ Holds(proof.c_d, hint.d, hint.r_d)
  BY SettingInts, HonestFields DEF Holds, Kept
<1>2. /\ Holds(proof.psi.c_d, K.d, K.r_d) /\ Holds(proof.psi.c_delta, d2(K), K.r_delta)
      /\ Holds(proof.psi.c_a, Da, K.r_a)
  BY SettingInts, SettingTypes, HonestFields DEF Holds, Kept
<1>3. chal.e \in Int /\ chal.delta \in Int /\ hint.u \in Int /\ hint.u2 \in Int
  BY SettingInts
<1>4. Holds(c_rho, MRho, RRho)
  BY <1>1, <1>3, HoldsPlus, HoldsTimes DEF c_rho, MRho, RRho
<1>5. Holds(Com1, F1, R1)
  BY <1>2, <1>3, <1>4, HoldsPlus, HoldsTimes DEF Com1, F1, R1
<1>6. Holds(Com2, F2, R2)
  BY <1>2, <1>3, HoldsPlus, HoldsTimes DEF Com2, F2, R2
<1>7. Holds(proof.c_u, VPlus(VTimes(-hint.u, ZPi), Zero), (-hint.u) * hint.r_z + hint.u2)
  <2>1. proof.c_u = Plus(Times(-hint.u, proof.c_z), mul_base(hint.u2))
    BY HonestFields DEF Kept
  <2>2. -hint.u \in Int
    BY <1>3
  <2>3. Holds(Times(-hint.u, proof.c_z), VTimes(-hint.u, ZPi), (-hint.u) * hint.r_z)
    BY <1>1, <2>2, HoldsTimes
  <2>4. Holds(mul_base(hint.u2), Zero, hint.u2)
    BY <1>3, HoldsBase
  <2> QED BY <2>1, <2>3, <2>4, HoldsPlus
<1>8. Holds(Com3, F3, R3)
  <2>1. -proof.v2 \in Int
    OBVIOUS
  <2>2. Holds(mul_base(-proof.v2), Zero, -proof.v2)
    BY <2>1, HoldsBase
  <2>3. Holds(Plus(proof.c_u, mul_base(-proof.v2)), VPlus(VPlus(VTimes(-hint.u, ZPi), Zero), Zero),
              ((-hint.u) * hint.r_z + hint.u2) + (-proof.v2))
    BY <1>7, <2>2, HoldsPlus
  <2>4. Holds(Plus(Times(proof.v, proof.c_z), Times(chal.delta, proof.c_d)),
              VPlus(VTimes(proof.v, ZPi), VTimes(chal.delta, hint.d)),
              proof.v * hint.r_z + chal.delta * hint.r_d)
    BY <1>1, <1>3, HoldsPlus, HoldsTimes
  <2> QED BY <2>3, <2>4, HoldsPlus DEF Com3, F3, R3
<1> QED BY <1>5, <1>6, <1>8

\* The batched equation, coefficient by coefficient.
MatchBase(alpha1, alpha2) ==
  Cong((alpha1 * R1 + alpha2 * R2) + R3, alpha1 * proof.psi.z + alpha2 * proof.psi.z_delta)
MatchAt(alpha1, alpha2, i) ==
  Cong((alpha1 * F1[i] + alpha2 * F2[i]) + F3[i],
       alpha1 * proof.psi.f[i] + alpha2 * proof.psi.f_delta[i] + chal.delta * proof.x[i])

LEMMA MatchMeans ==
  ASSUME Setting, Kept, proof.v \in Int, proof.v2 \in Int, NEW a1 \in Int, NEW a2_ \in Int
  PROVE  CommitmentsMatch(a1, a2_) <=> MatchBase(a1, a2_) /\ \A i \in Idx : MatchAt(a1, a2_, i)
<1> DEFINE A == Plus(Plus(Times(a1, Com1), Times(a2_, Com2)), Com3)
           L == VPlus(VPlus(VTimes(a1, F1), VTimes(a2_, F2)), F3)
           R == [i \in Idx |-> a1 * proof.psi.f[i] + a2_ * proof.psi.f_delta[i]
                                 + chal.delta * proof.x[i]]
<1>1. Holds(A, L, (a1 * R1 + a2_ * R2) + R3)
  BY ComsHold, HoldsPlus, HoldsTimes
<1>2. CommitmentsMatch(a1, a2_) <=> A = commit(R, a1 * proof.psi.z + a2_ * proof.psi.z_delta)
  BY DEF CommitmentsMatch, Com1, Com2, Com3
<1>3. ASSUME NEW i \in Idx
      PROVE  /\ L[i] = (a1 * F1[i] + a2_ * F2[i]) + F3[i]
             /\ R[i] = a1 * proof.psi.f[i] + a2_ * proof.psi.f_delta[i] + chal.delta * proof.x[i]
  BY DEF VPlus, VTimes
<1> HIDE DEF A, L, R
<1>4. A = commit(R, a1 * proof.psi.z + a2_ * proof.psi.z_delta) <=>
        MatchBase(a1, a2_) /\ \A i \in Idx : Cong(L[i], R[i])
  BY <1>1, HoldsEqual DEF MatchBase
<1>5. ASSUME NEW i \in Idx PROVE Cong(L[i], R[i]) <=> MatchAt(a1, a2_, i)
  BY <1>3 DEF MatchAt
<1> QED BY <1>2, <1>4, <1>5

\* Congruence under a constant factor and with a constant summand.
LEMMA CongScale ==
  ASSUME NEW k \in Int, NEW a \in Int, NEW b \in Int, Cong(a, b)
  PROVE  Cong(k * a, k * b) /\ Cong(a * k, b * k) /\ Cong(k + a, k + b) /\ Cong(a + k, b + k)
<1>1. Cong(k, k)
  BY DEF Cong
<1> QED BY <1>1, CongMul, CongAdd

\* The honest responses are what the commitments hold.
LEMMA HonestOpens ==
  ASSUME Setting, NEW i \in Idx
  PROVE  /\ Cong(Honest.psi.f[i], F1[i]) /\ Honest.psi.f[i] \in Int /\ F1[i] \in Int
         /\ Cong(Honest.psi.f_delta[i], F2[i]) /\ Honest.psi.f_delta[i] \in Int /\ F2[i] \in Int
<1>1. /\ chal.e \in Int /\ chal.delta \in Int /\ ZPi[i] \in Int /\ pi[i] \in Int
      /\ K.d[i] \in Int /\ Da[i] \in Int /\ d2(K)[i] \in Int /\ pi[i] \in Idx
  BY SettingInts, SettingTypes DEF Setting
<1>2. PICK y \in Int : y = ZPi[i] + chal.delta * pi[i]
  BY <1>1
<1>3. F1[i] = chal.e * y + K.d[i]
  BY <1>2 DEF F1, MRho, VPlus, VTimes
<1>4. z_rho(chal)[pi[i]] = Mod(y)
  <2>1. z_rho(chal)[pi[i]] = (chal.z[pi[i]] + chal.delta * pi[i]) % Q
    BY <1>1 DEF z_rho
  <2>2. ZPi[i] = chal.z[pi[i]]
    BY DEF ZPi
  <2> QED BY <1>2, <2>1, <2>2 DEF Mod, Rem
<1>5. Honest.psi.f[i] = Mod(chal.e * Mod(y) + K.d[i])
  <2>1. Honest.psi.f[i] = (chal.e * z_rho(chal)[pi[i]] + K.d[i]) % Q
    BY HonestFields
  <2> QED BY <1>4, <2>1 DEF Mod, Rem
<1>6. Mod(y) \in Int /\ Cong(Mod(y), y)
  BY Remainder, CongMod
<1>7. PICK w \in Int : w = chal.e * Mod(y) + K.d[i]
  BY <1>1, <1>6
<1>8. Cong(w, chal.e * y + K.d[i])
  <2>1. chal.e * Mod(y) \in Int /\ chal.e * y \in Int
    BY <1>1, <1>6
  <2>2. Cong(chal.e * Mod(y), chal.e * y)
    BY <1>1, <1>6, CongScale
  <2> QED BY <1>1, <1>7, <2>1, <2>2, CongScale
<1>9. Cong(Mod(w), w) /\ Mod(w) \in Int
  BY CongMod, Remainder
<1>10. Cong(Honest.psi.f[i], F1[i]) /\ Honest.psi.f[i] \in Int /\ F1[i] \in Int
  <2>1. chal.e * y + K.d[i] \in Int
    BY <1>1
  <2> QED BY <1>3, <1>5, <1>7, <1>8, <1>9, <2>1, CongTrans
<1>11. F2[i] = chal.e * Da[i] + d2(K)[i] /\ F2[i] \in Int
  BY <1>1 DEF F2, VPlus, VTimes
<1>12. Honest.psi.f_delta[i] = IF Last(i) THEN 0 ELSE Mod(F2[i])
  <2>1. Honest.psi.f_delta[i] = IF Last(i) THEN 0 ELSE (chal.e * Da[i] + d2(K)[i]) % Q
    BY HonestFields
  <2> QED BY <1>11, <2>1 DEF Mod, Rem
<1>13. Last(i) => F2[i] = 0
  <2>1. Last(i) => Da[i] = 0 /\ d2(K)[i] = 0
    BY DEF Da, a2, d2
  <2> QED BY <1>1, <1>11, <2>1
<1>14. Cong(Honest.psi.f_delta[i], F2[i]) /\ Honest.psi.f_delta[i] \in Int
  <2>1. Cong(Mod(F2[i]), F2[i]) /\ Mod(F2[i]) \in Int
    BY <1>11, CongMod, Remainder
  <2>2. CASE Last(i)
    BY <1>12, <1>13, <2>2 DEF Cong
  <2>3. CASE ~Last(i)
    BY <1>12, <2>1, <2>3
  <2> QED BY <2>2, <2>3
<1> QED BY <1>10, <1>11, <1>14

LEMMA HonestBases ==
  ASSUME Setting
  PROVE  /\ Cong(Honest.psi.z, R1) /\ Honest.psi.z \in Int /\ R1 \in Int
         /\ Cong(Honest.psi.z_delta, R2) /\ Honest.psi.z_delta \in Int /\ R2 \in Int
<1>1. /\ chal.e \in Int /\ chal.delta \in Int /\ hint.r_z \in Int /\ hint.r_pi \in Int
      /\ K.r_d \in Int /\ K.r_a \in Int /\ K.r_delta \in Int
  BY SettingInts
<1>2. R1 \in Int /\ R2 \in Int
  BY <1>1 DEF R1, R2, RRho
<1>3. hint.r_z + hint.r_pi * chal.delta = RRho
  BY <1>1 DEF RRho
<1>4. Honest.psi.z = Mod(R1)
  <2>1. Honest.psi.z = (chal.e * (hint.r_z + hint.r_pi * chal.delta) + K.r_d) % Q
    BY HonestFields
  <2> QED BY <1>3, <2>1 DEF R1, Mod, Rem
<1>5. Honest.psi.z_delta = Mod(R2)
  BY HonestFields DEF R2, Mod, Rem
<1> QED BY <1>2, <1>4, <1>5, CongMod, Remainder

\* The third commitment holds x, whatever the nonces were.
LEMMA ThirdOpens ==
  ASSUME Setting, proof.v = Honest.v, proof.x = Honest.x, proof.v2 \in Int
  PROVE  /\ proof.v \in Int
         /\ \A i \in Idx : Cong(F3[i], chal.delta * proof.x[i]) /\ F3[i] \in Int /\ proof.x[i] \in Int
         /\ Cong(R3, Honest.v2 - proof.v2) /\ R3 \in Int /\ Honest.v2 \in Int
<1>1. /\ s \in Int /\ chal.delta \in Int /\ hint.u \in Int /\ hint.u2 \in Int
      /\ hint.r_z \in Int /\ hint.r_d \in Int
  BY SettingInts
<1>2. PICK w \in Int : w = s * chal.delta + hint.u
  BY <1>1
<1>3. proof.v = Mod(w)
  BY <1>2, HonestFields DEF Mod, Rem
<1>4. proof.v \in Int /\ Cong(proof.v, w)
  BY <1>3, CongMod, Remainder
<1>5. ASSUME NEW i \in Idx
      PROVE  Cong(F3[i], chal.delta * proof.x[i]) /\ F3[i] \in Int /\ proof.x[i] \in Int
  <2>1. ZPi[i] \in Int /\ hint.d[i] \in Int
    BY SettingInts
  <2>2. PICK x \in Int : x = s * ZPi[i] + hint.d[i]
    BY <1>1, <2>1
  <2>3. proof.x[i] = Mod(x)
    <3>1. proof.x[i] = (s * chal.z[pi[i]] + hint.d[i]) % Q
      BY HonestFields
    <3>2. ZPi[i] = chal.z[pi[i]]
      BY DEF ZPi
    <3> QED BY <2>2, <3>1, <3>2 DEF Mod, Rem
  <2>4. proof.x[i] \in Int /\ Cong(proof.x[i], x)
    BY <2>3, CongMod, Remainder
  <2>5. F3[i] = (proof.v * ZPi[i] + chal.delta * hint.d[i]) + (((-hint.u) * ZPi[i] + 0) + 0)
    BY DEF F3, VPlus, VTimes, Zero
  <2> DEFINE t == chal.delta * hint.d[i] + (((-hint.u) * ZPi[i] + 0) + 0)
  <2>6. t \in Int /\ F3[i] = proof.v * ZPi[i] + t /\ F3[i] \in Int
    BY <1>1, <1>4, <2>1, <2>5
  <2>7. w * ZPi[i] + t = chal.delta * x
    BY <1>1, <1>2, <2>1, <2>2
  <2> HIDE DEF t
  <2>8. Cong(F3[i], chal.delta * x)
    <3>1. Cong(proof.v * ZPi[i], w * ZPi[i])
      BY <1>4, <2>1, CongScale
    <3>2. proof.v * ZPi[i] \in Int /\ w * ZPi[i] \in Int
      BY <1>4, <2>1
    <3> QED BY <2>6, <2>7, <3>1, <3>2, CongScale
  <2>9. Cong(chal.delta * proof.x[i], chal.delta * x)
    BY <1>1, <2>4, CongScale
  <2> QED BY <2>4, <2>6, <2>8, <2>9 DEF Cong
<1>6. PICK v2 \in Int : v2 = (s * hint.r_z + hint.r_d) * chal.delta + hint.u2
  BY <1>1
<1>7. Honest.v2 = Mod(v2)
  BY <1>6, HonestFields DEF Mod, Rem
<1>8. Honest.v2 \in Int /\ Cong(Honest.v2, v2)
  BY <1>7, CongMod, Remainder
<1>9. Cong(R3, Honest.v2 - proof.v2) /\ R3 \in Int
  <2> DEFINE t == chal.delta * hint.r_d + (((-hint.u) * hint.r_z + hint.u2) + (-proof.v2))
  <2>1. t \in Int /\ R3 = proof.v * hint.r_z + t /\ R3 \in Int
    BY <1>1, <1>4 DEF R3
  <2>2. w * hint.r_z + t = (-proof.v2) + v2
    <3>1. (s * chal.delta + hint.u) * hint.r_z
            + (chal.delta * hint.r_d + (((-hint.u) * hint.r_z + hint.u2) + (-proof.v2)))
          = (-proof.v2) + ((s * hint.r_z + hint.r_d) * chal.delta + hint.u2)
      BY <1>1
    <3> QED BY <1>2, <1>6, <3>1
  <2> HIDE DEF t
  <2>3. Cong(R3, (-proof.v2) + v2)
    <3>1. Cong(proof.v * hint.r_z, w * hint.r_z)
      BY <1>1, <1>4, CongScale
    <3>2. proof.v * hint.r_z \in Int /\ w * hint.r_z \in Int
      BY <1>1, <1>4
    <3> QED BY <2>1, <2>2, <3>1, <3>2, CongScale
  <2>4. -proof.v2 \in Int
    OBVIOUS
  <2>5. Cong((-proof.v2) + Honest.v2, (-proof.v2) + v2)
    BY <1>8, <2>4, CongScale
  <2>6. (-proof.v2) + Honest.v2 = Honest.v2 - proof.v2
    BY <1>8
  <2> QED BY <2>1, <2>3, <2>5, <2>6 DEF Cong
<1> QED BY <1>4, <1>5, <1>8, <1>9

LEMMA CongShift ==
  ASSUME NEW a \in Int, NEW b \in Int, NEW c \in Int
  PROVE  Cong(a + c, b + c) <=> Cong(a, b)
<1>1. Cong(a, b) => Cong(a + c, b + c)
  BY CongScale
<1>2. ASSUME Cong(a + c, b + c) PROVE Cong(a, b)
  <2>1. a + c \in Int /\ b + c \in Int /\ -c \in Int
    OBVIOUS
  <2>2. Cong((a + c) + (-c), (b + c) + (-c))
    BY <1>2, <2>1, CongScale
  <2>3. (a + c) + (-c) = a /\ (b + c) + (-c) = b
    OBVIOUS
  <2> QED BY <2>2, <2>3
<1> QED BY <1>1, <1>2

\* A coefficient of the batched equation fits if the responses add up to
\* what the honest ones add up to.
LEMMA MatchAtMeans ==
  ASSUME Setting, proof.v = Honest.v, proof.x = Honest.x, proof.v2 \in Int,
         NEW a1 \in Int, NEW b1 \in Int, NEW i \in Idx,
         proof.psi.f[i] \in Int, proof.psi.f_delta[i] \in Int
  PROVE  MatchAt(a1, b1, i) <=>
           Cong(a1 * Honest.psi.f[i] + b1 * Honest.psi.f_delta[i],
                a1 * proof.psi.f[i] + b1 * proof.psi.f_delta[i])
<1>1. /\ Cong(Honest.psi.f[i], F1[i]) /\ Honest.psi.f[i] \in Int /\ F1[i] \in Int
      /\ Cong(Honest.psi.f_delta[i], F2[i]) /\ Honest.psi.f_delta[i] \in Int /\ F2[i] \in Int
  BY HonestOpens
<1>2. Cong(F3[i], chal.delta * proof.x[i]) /\ F3[i] \in Int /\ proof.x[i] \in Int
  BY ThirdOpens
<1>3. chal.delta \in Int
  BY SettingInts
<1>a. /\ a1 * F1[i] + b1 * F2[i] \in Int /\ chal.delta * proof.x[i] \in Int
      /\ a1 * Honest.psi.f[i] + b1 * Honest.psi.f_delta[i] \in Int
      /\ a1 * proof.psi.f[i] + b1 * proof.psi.f_delta[i] \in Int
  BY <1>1, <1>2, <1>3
<1>4. PICK p, q, y, l, r \in Int :
        /\ p = a1 * F1[i] + b1 * F2[i] /\ q = F3[i] /\ y = chal.delta * proof.x[i]
        /\ l = a1 * Honest.psi.f[i] + b1 * Honest.psi.f_delta[i]
        /\ r = a1 * proof.psi.f[i] + b1 * proof.psi.f_delta[i]
  BY <1>2, <1>a, Zenon
<1>5. Cong(l, p)
  <2>1. Cong(a1 * Honest.psi.f[i], a1 * F1[i]) /\ Cong(b1 * Honest.psi.f_delta[i], b1 * F2[i])
    BY <1>1, CongScale
  <2>2. /\ a1 * Honest.psi.f[i] \in Int /\ a1 * F1[i] \in Int
        /\ b1 * Honest.psi.f_delta[i] \in Int /\ b1 * F2[i] \in Int
    BY <1>1
  <2> QED BY <1>4, <2>1, <2>2, CongAdd
<1>6. Cong(l + y, p + q)
  <2>1. Cong(y, q)
    BY <1>2, <1>4 DEF Cong
  <2> QED BY <1>5, <2>1, CongAdd
<1>7. MatchAt(a1, b1, i) <=> Cong(p + q, r + y)
  BY <1>4 DEF MatchAt
<1>8. Cong(p + q, r + y) <=> Cong(l + y, r + y)
  BY <1>6 DEF Cong
<1>9. Cong(l + y, r + y) <=> Cong(l, r)
  BY CongShift
<1> QED BY <1>4, <1>7, <1>8, <1>9

LEMMA MatchBaseMeans ==
  ASSUME Setting, proof.v = Honest.v, proof.x = Honest.x, proof.v2 \in Int,
         NEW a1 \in Int, NEW b1 \in Int, proof.psi.z \in Int, proof.psi.z_delta \in Int
  PROVE  MatchBase(a1, b1) <=>
           Cong((a1 * Honest.psi.z + b1 * Honest.psi.z_delta) + (Honest.v2 - proof.v2),
                a1 * proof.psi.z + b1 * proof.psi.z_delta)
<1>1. /\ Cong(Honest.psi.z, R1) /\ Honest.psi.z \in Int /\ R1 \in Int
      /\ Cong(Honest.psi.z_delta, R2) /\ Honest.psi.z_delta \in Int /\ R2 \in Int
  BY HonestBases
<1>2. Cong(R3, Honest.v2 - proof.v2) /\ R3 \in Int /\ Honest.v2 \in Int
  BY ThirdOpens
<1>4. PICK p, y, l \in Int :
        /\ p = a1 * R1 + b1 * R2 /\ y = Honest.v2 - proof.v2
        /\ l = a1 * Honest.psi.z + b1 * Honest.psi.z_delta
  BY <1>1, <1>2
<1>5. Cong(l, p)
  <2>1. Cong(a1 * Honest.psi.z, a1 * R1) /\ Cong(b1 * Honest.psi.z_delta, b1 * R2)
    BY <1>1, CongScale
  <2>2. /\ a1 * Honest.psi.z \in Int /\ a1 * R1 \in Int
        /\ b1 * Honest.psi.z_delta \in Int /\ b1 * R2 \in Int
    BY <1>1
  <2> QED BY <1>4, <2>1, <2>2, CongAdd
<1>6. Cong(l + y, p + R3)
  <2>1. Cong(y, R3)
    BY <1>2, <1>4 DEF Cong
  <2> QED BY <1>2, <1>5, <2>1, CongAdd
<1>7. MatchBase(a1, b1) <=> Cong(p + R3, a1 * proof.psi.z + b1 * proof.psi.z_delta)
  BY <1>4 DEF MatchBase
<1> QED BY <1>4, <1>6, <1>7 DEF Cong

\* One more is another number, and a factor that is not zero does not hide it.
LEMMA OffByOne ==
  ASSUME NEW a \in Int
  PROVE  /\ Inc(a) \in Int /\ ~Cong(a, Inc(a)) /\ Cong(Inc(a), a + 1)
         /\ \A k \in Field \ {0} : ~Cong(k * a, k * Inc(a))
<1>1. Inc(a) = Mod(a + 1)
  BY DEF Inc, Mod, Rem
<1>2. Inc(a) \in Int /\ Cong(Inc(a), a + 1)
  BY <1>1, CongMod, Remainder
<1>3. ~Cong(a, a + 1)
  <2>1. SUFFICES ASSUME Cong(a, a + 1) PROVE FALSE
    OBVIOUS
  <2>2. 0 + a = a /\ 1 + a = a + 1
    OBVIOUS
  <2>3. Cong(0, 1)
    <3>1. PICK z, o \in Int : z = 0 /\ o = 1
      OBVIOUS
    <3>2. Cong(z + a, o + a)
      BY <2>1, <2>2, <3>1
    <3>3. Cong(z, o)
      BY <3>2, CongShift
    <3> QED BY <3>1, <3>3
  <2>4. 0 \in Field /\ 1 \in Field
    BY QFacts DEF Field
  <2> QED BY <2>3, <2>4, RemainderOfField DEF Cong
<1>4. ~Cong(a, Inc(a))
  BY <1>2, <1>3 DEF Cong
<1>5. ASSUME NEW k \in Field \ {0}, Cong(k * a, k * Inc(a)) PROVE FALSE
  BY <1>2, <1>4, <1>5, Cancel
<1> QED BY <1>2, <1>4, <1>5

-----------------------------------------------------------------------------
(* What the verifiers make of it. *)

LEMMA HonestTypes ==
  ASSUME Setting
  PROVE  /\ Honest.v \in Int /\ Honest.v2 \in Int /\ Honest.psi.z \in Int
         /\ Honest.psi.z_delta \in Int
         /\ \A i \in Idx : Honest.psi.f[i] \in Int /\ Honest.psi.f_delta[i] \in Int
<1>1. s \in Int /\ chal.delta \in Int /\ hint.u \in Int /\ hint.u2 \in Int
      /\ hint.r_z \in Int /\ hint.r_d \in Int
  BY SettingInts
<1>2. PICK v, w \in Int : /\ v = s * chal.delta + hint.u
                          /\ w = (s * hint.r_z + hint.r_d) * chal.delta + hint.u2
  BY <1>1
<1>3. Honest.v = Mod(v) /\ Honest.v2 = Mod(w)
  BY <1>2, HonestFields DEF Mod, Rem
<1> QED BY <1>3, Remainder, HonestBases, HonestOpens

\* The commitments of an honest proof match, with any weights.
LEMMA HonestMatches ==
  ASSUME Setting, proof = Honest, NEW a1 \in Int, NEW b1 \in Int
  PROVE  CommitmentsMatch(a1, b1)
<1>1. Kept /\ proof.v \in Int /\ proof.v2 \in Int
  BY HonestTypes DEF Kept
<1>2. ASSUME NEW i \in Idx PROVE MatchAt(a1, b1, i)
  <2>1. Cong(a1 * Honest.psi.f[i] + b1 * Honest.psi.f_delta[i],
             a1 * proof.psi.f[i] + b1 * proof.psi.f_delta[i])
    BY DEF Cong
  <2> QED BY <1>1, <2>1, HonestTypes, MatchAtMeans
<1>3. MatchBase(a1, b1)
  <2>1. Honest.psi.z \in Int /\ Honest.psi.z_delta \in Int /\ Honest.v2 \in Int
    BY HonestTypes
  <2>2. PICK t \in Int : t = a1 * Honest.psi.z + b1 * Honest.psi.z_delta
    BY <2>1
  <2>3. t + (Honest.v2 - proof.v2) = t
    BY <2>1
  <2>4. Cong((a1 * Honest.psi.z + b1 * Honest.psi.z_delta) + (Honest.v2 - proof.v2),
             a1 * proof.psi.z + b1 * proof.psi.z_delta)
    BY <2>2, <2>3 DEF Cong
  <2> QED BY <1>1, <2>1, <2>4, MatchBaseMeans
<1> QED BY <1>1, <1>2, <1>3, MatchMeans

\* A proof one of whose responses is off by one.
OffBy1(p, q) ==
  \/ q = [p EXCEPT !.v = Inc(@)]
  \/ q = [p EXCEPT !.v2 = Inc(@)]
  \/ q = [p EXCEPT !.psi.z = Inc(@)]
  \/ q = [p EXCEPT !.psi.z_delta = Inc(@)]
  \/ \E i \in Idx : q = [p EXCEPT !.psi.f[i] = Inc(@)]
  \/ \E i \in Idx : q = [p EXCEPT !.psi.f_delta[i] = Inc(@)]

LEMMA OffBy1Rejected ==
  ASSUME Setting, OffBy1(Honest, proof), NEW a1 \in Field \ {0}, NEW b1 \in Field \ {0}
  PROVE  ~verify_shuffle_adapted(a1, b1)
<1>a. a1 \in Int /\ b1 \in Int
  BY QFacts DEF Field
<1>t. /\ Honest.v \in Int /\ Honest.v2 \in Int /\ Honest.psi.z \in Int /\ Honest.psi.z_delta \in Int
      /\ \A i \in Idx : Honest.psi.f[i] \in Int /\ Honest.psi.f_delta[i] \in Int
  BY HonestTypes
<1>d. /\ DOMAIN Honest = {"c_pi", "c_d", "c_z", "g_d", "g_u", "c_u", "x", "v", "v2", "psi"}
      /\ DOMAIN Honest.psi = {"c_d", "c_delta", "c_a", "f", "f_delta", "z", "z_delta"}
      /\ DOMAIN Honest.psi.f = Idx /\ DOMAIN Honest.psi.f_delta = Idx
  <2>1. DOMAIN Honest = {"c_pi", "c_d", "c_z", "g_d", "g_u", "c_u", "x", "v", "v2", "psi"}
    BY DEF Honest, prove_shuffle_adapted
  <2>2. DOMAIN Honest.psi = {"c_d", "c_delta", "c_a", "f", "f_delta", "z", "z_delta"}
    <3>1. Honest.psi = prove_shuffle_known(hint.hint2, z_rho(chal), pi,
                                    hint.r_z + hint.r_pi * chal.delta, chal.x, chal.e)
      BY DEF Honest, prove_shuffle_adapted
    <3> QED BY <3>1 DEF prove_shuffle_known
  <2>3. DOMAIN Honest.psi.f = Idx /\ DOMAIN Honest.psi.f_delta = Idx
    BY HonestFields
  <2> QED BY <2>1, <2>2, <2>3
<1>1. CASE proof = [Honest EXCEPT !.v = Inc(@)]
  <2>1. proof.v = Inc(Honest.v) /\ proof.g_u = Honest.g_u
    BY <1>1, <1>d
  <2>2. (proof.g_u + s * chal.delta) % Q = Honest.v
    <3>1. s \in Int /\ chal.delta \in Int /\ hint.u \in Int
      BY SettingInts
    <3>2. hint.u + s * chal.delta = s * chal.delta + hint.u
      BY <3>1
    <3> QED BY <2>1, <3>2, HonestFields
  <2>3. Inc(Honest.v) # Honest.v
    BY <1>t, OffByOne DEF Cong
  <2> QED BY <2>1, <2>2, <2>3 DEF verify_shuffle_adapted
<1>2. CASE proof = [Honest EXCEPT !.v2 = Inc(@)]
  <2>1. Kept /\ proof.v = Honest.v /\ proof.v2 = Inc(Honest.v2) /\ proof.psi = Honest.psi
    BY <1>2, <1>d DEF Kept
  <2>2. proof.v2 \in Int /\ ~Cong(Honest.v2, proof.v2)
    BY <1>t, <2>1, OffByOne
  <2>3. PICK t \in Int : t = a1 * Honest.psi.z + b1 * Honest.psi.z_delta
    BY <1>a, <1>t
  <2>4. ASSUME MatchBase(a1, b1) PROVE FALSE
    <3>1. Cong(t + (Honest.v2 - proof.v2), t)
      BY <1>a, <1>t, <2>1, <2>2, <2>3, <2>4, MatchBaseMeans DEF Kept
    <3>2. PICK c, p, q \in Int : c = t - proof.v2 /\ p = Honest.v2 /\ q = proof.v2
      BY <1>t, <2>2
    <3>3. t + (Honest.v2 - proof.v2) = p + c /\ t = q + c
      BY <3>2
    <3>4. Cong(p + c, q + c)
      BY <3>1, <3>3
    <3>5. Cong(p, q)
      BY <3>4, CongShift
    <3> QED BY <2>2, <3>2, <3>5
  <2>5. ~CommitmentsMatch(a1, b1)
    BY <1>a, <1>t, <2>1, <2>2, <2>4, MatchMeans
  <2> QED BY <2>5 DEF verify_shuffle_adapted
<1>3. CASE proof = [Honest EXCEPT !.psi.z = Inc(@)]
  <2>1. /\ Kept /\ proof.v = Honest.v /\ proof.v2 = Honest.v2
        /\ proof.psi.z = Inc(Honest.psi.z) /\ proof.psi.z_delta = Honest.psi.z_delta
    BY <1>3, <1>d DEF Kept
  <2>2. proof.psi.z \in Int /\ ~Cong(a1 * Honest.psi.z, a1 * proof.psi.z)
    BY <1>t, <2>1, OffByOne
  <2>3. PICK p, q, c \in Int : /\ p = a1 * Honest.psi.z /\ q = a1 * proof.psi.z
                               /\ c = b1 * Honest.psi.z_delta
    BY <1>a, <1>t, <2>2
  <2>4. ASSUME MatchBase(a1, b1) PROVE FALSE
    <3>1. Cong((p + c) + (Honest.v2 - proof.v2), q + c)
      BY <1>a, <1>t, <2>1, <2>2, <2>3, <2>4, MatchBaseMeans DEF Kept
    <3>2. (p + c) + (Honest.v2 - proof.v2) = p + c
      BY <1>t, <2>1
    <3>3. Cong(p, q)
      BY <3>1, <3>2, CongShift
    <3> QED BY <2>2, <2>3, <3>3
  <2>5. ~CommitmentsMatch(a1, b1)
    BY <1>a, <1>t, <2>1, <2>4, MatchMeans
  <2> QED BY <2>5 DEF verify_shuffle_adapted
<1>4. CASE proof = [Honest EXCEPT !.psi.z_delta = Inc(@)]
  <2>1. /\ Kept /\ proof.v = Honest.v /\ proof.v2 = Honest.v2
        /\ proof.psi.z = Honest.psi.z /\ proof.psi.z_delta = Inc(Honest.psi.z_delta)
    BY <1>4, <1>d DEF Kept
  <2>2. proof.psi.z_delta \in Int /\ ~Cong(b1 * Honest.psi.z_delta, b1 * proof.psi.z_delta)
    BY <1>t, <2>1, OffByOne
  <2>3. PICK p, q, c \in Int : /\ p = b1 * Honest.psi.z_delta /\ q = b1 * proof.psi.z_delta
                               /\ c = a1 * Honest.psi.z
    BY <1>a, <1>t, <2>2
  <2>4. ASSUME MatchBase(a1, b1) PROVE FALSE
    <3>1. Cong((c + p) + (Honest.v2 - proof.v2), c + q)
      BY <1>a, <1>t, <2>1, <2>2, <2>3, <2>4, MatchBaseMeans DEF Kept
    <3>2. (c + p) + (Honest.v2 - proof.v2) = p + c /\ c + q = q + c
      BY <1>t, <2>1
    <3>3. Cong(p, q)
      BY <3>1, <3>2, CongShift
    <3> QED BY <2>2, <2>3, <3>3
  <2>5. ~CommitmentsMatch(a1, b1)
    BY <1>a, <1>t, <2>1, <2>4, MatchMeans
  <2> QED BY <2>5 DEF verify_shuffle_adapted
<1>5. ASSUME NEW i \in Idx, proof = [Honest EXCEPT !.psi.f[i] = Inc(@)]
      PROVE  ~verify_shuffle_adapted(a1, b1)
  <2>1. /\ Kept /\ proof.v = Honest.v /\ proof.v2 = Honest.v2
        /\ proof.psi.f[i] = Inc(Honest.psi.f[i]) /\ proof.psi.f_delta = Honest.psi.f_delta
    BY <1>5, <1>d DEF Kept
  <2>2. /\ Honest.psi.f[i] \in Int /\ Honest.psi.f_delta[i] \in Int
        /\ proof.psi.f[i] \in Int /\ ~Cong(a1 * Honest.psi.f[i], a1 * proof.psi.f[i])
    BY <1>t, <2>1, OffByOne
  <2>3. PICK p, q, c \in Int : /\ p = a1 * Honest.psi.f[i] /\ q = a1 * proof.psi.f[i]
                               /\ c = b1 * Honest.psi.f_delta[i]
    BY <1>a, <2>2
  <2>4. ASSUME MatchAt(a1, b1, i) PROVE FALSE
    <3>1. Cong(p + c, q + c)
      BY <1>a, <1>t, <2>1, <2>2, <2>3, <2>4, MatchAtMeans DEF Kept
    <3>2. Cong(p, q)
      BY <3>1, CongShift
    <3> QED BY <2>2, <2>3, <3>2
  <2>5. ~CommitmentsMatch(a1, b1)
    BY <1>a, <1>t, <2>1, <2>4, MatchMeans
  <2> QED BY <2>5 DEF verify_shuffle_adapted
<1>6. ASSUME NEW i \in Idx, proof = [Honest EXCEPT !.psi.f_delta[i] = Inc(@)]
      PROVE  ~verify_shuffle_adapted(a1, b1)
  <2>1. /\ Kept /\ proof.v = Honest.v /\ proof.v2 = Honest.v2
        /\ proof.psi.f_delta[i] = Inc(Honest.psi.f_delta[i]) /\ proof.psi.f = Honest.psi.f
    BY <1>6, <1>d DEF Kept
  <2>2. /\ Honest.psi.f[i] \in Int /\ Honest.psi.f_delta[i] \in Int
        /\ proof.psi.f_delta[i] \in Int /\ ~Cong(b1 * Honest.psi.f_delta[i], b1 * proof.psi.f_delta[i])
    BY <1>t, <2>1, OffByOne
  <2>3. PICK p, q, c \in Int : /\ p = b1 * Honest.psi.f_delta[i] /\ q = b1 * proof.psi.f_delta[i]
                               /\ c = a1 * Honest.psi.f[i]
    BY <1>a, <2>2
  <2>4. ASSUME MatchAt(a1, b1, i) PROVE FALSE
    <3>1. Cong(c + p, c + q)
      BY <1>a, <1>t, <2>1, <2>2, <2>3, <2>4, MatchAtMeans DEF Kept
    <3>2. c + p = p + c /\ c + q = q + c
      OBVIOUS
    <3>3. Cong(p, q)
      BY <3>1, <3>2, CongShift
    <3> QED BY <2>2, <2>3, <3>3
  <2>5. ~CommitmentsMatch(a1, b1)
    BY <1>a, <1>t, <2>1, <2>4, MatchMeans
  <2> QED BY <2>5 DEF verify_shuffle_adapted
<1> QED BY <1>1, <1>2, <1>3, <1>4, <1>5, <1>6 DEF OffBy1

\* The equation of verify_shuffle_known holds for an honest proof as well.
LEMMA KnownMatches ==
  ASSUME Setting, proof = Honest, NEW a1 \in Int,
         ProductMatches(proof.psi, z_rho(chal), chal.x, chal.e)
  PROVE  verify_shuffle_known(z_rho(chal), c_rho, proof.psi, chal.x, chal.e, a1)
<1> DEFINE A == Plus(Times(a1, Com1), Com2)
           L == VPlus(VTimes(a1, F1), F2)
           R == [i \in Idx |-> a1 * proof.psi.f[i] + proof.psi.f_delta[i]]
<1>1. Kept /\ proof.v \in Int /\ proof.v2 \in Int
  BY HonestTypes DEF Kept
<1>2. Holds(A, L, a1 * R1 + R2)
  BY <1>1, ComsHold, HoldsPlus, HoldsTimes
<1>3. ASSUME NEW i \in Idx PROVE Cong(L[i], R[i])
  <2>1. L[i] = a1 * F1[i] + F2[i] /\ R[i] = a1 * proof.psi.f[i] + proof.psi.f_delta[i]
    BY DEF VPlus, VTimes
  <2>2. /\ Cong(F1[i], proof.psi.f[i]) /\ proof.psi.f[i] \in Int /\ F1[i] \in Int
        /\ Cong(F2[i], proof.psi.f_delta[i]) /\ proof.psi.f_delta[i] \in Int /\ F2[i] \in Int
    BY HonestOpens DEF Cong
  <2>3. a1 * F1[i] \in Int /\ a1 * proof.psi.f[i] \in Int
    BY <2>2
  <2>4. Cong(a1 * F1[i], a1 * proof.psi.f[i])
    BY <2>2, CongScale
  <2> HIDE DEF L, R
  <2> QED BY <2>1, <2>2, <2>3, <2>4, CongAdd
<1>4. Cong(a1 * R1 + R2, a1 * proof.psi.z + proof.psi.z_delta)
  <2>1. /\ Cong(R1, proof.psi.z) /\ proof.psi.z \in Int /\ R1 \in Int
        /\ Cong(R2, proof.psi.z_delta) /\ proof.psi.z_delta \in Int /\ R2 \in Int
    BY HonestBases DEF Cong
  <2>2. a1 * R1 \in Int /\ a1 * proof.psi.z \in Int
    BY <2>1
  <2>3. Cong(a1 * R1, a1 * proof.psi.z)
    BY <2>1, CongScale
  <2> QED BY <2>1, <2>2, <2>3, CongAdd
<1> HIDE DEF L, R
<1>5. A = commit(R, a1 * proof.psi.z + proof.psi.z_delta)
  <2> HIDE DEF A
  <2> QED BY <1>2, <1>3, <1>4, HoldsEqual
<1> QED BY <1>5 DEF verify_shuffle_known, Com1, Com2, R

-----------------------------------------------------------------------------
(* The behaviours of the specification. *)

Stated ==
  /\ N \in Nat /\ N >= 1 /\ Idx = 0..(N - 1)
  /\ g \in Vectors /\ h \in Vectors /\ s \in Field \ {0} /\ pi \in [Idx -> Idx]
  /\ hint \in [d : Vectors, r_d : Field, r_pi : Field, r_z : Field, u : Field, u2 : Field,
               hint2 : [d : Vectors, delta : Vectors, r_d : Field, r_delta : Field, r_a : Field]]

\* The batched proof's part.
Batched ==
  /\ IsFiniteSet(Idx) /\ g \in Vectors /\ h \in Vectors /\ s \in Field

BatchProof(r) == batched_ddh_prove(r, g, s, chal.a, chal.delta)
BatchDrawn == chal \in [a : Vectors, delta : Deltas]

\* What each stage has left behind.
SInv ==
  /\ kind \in {"shuffle", "ddh"} /\ stage \in {"prove", "verify", "over"} /\ tampered \in BOOLEAN
  /\ stage = "prove" => ~tampered
  /\ kind = "shuffle" =>
       /\ Stated /\ hint \in Hints(N) /\ Challenges(N) \subseteq [z : Vectors, delta : Field \ {0}, x : Field, e : Field \ {0}]
       /\ stage # "prove" => Setting /\ IF tampered THEN OffBy1(Honest, proof) ELSE proof = Honest
       /\ stage = "over" =>
            \E alpha1, alpha2 \in Alphas :
              verdict = [adapted |-> verify_shuffle_adapted(alpha1, alpha2),
                         known |-> verify_shuffle_known(z_rho(chal), c_rho, proof.psi,
                                                        chal.x, chal.e, alpha1)]
  /\ kind = "ddh" =>
       /\ Batched
       /\ stage # "prove" => /\ BatchDrawn
                             /\ \E r \in Nonces :
                                  proof = IF tampered THEN [BatchProof(r) EXCEPT !.z = Inc(@)]
                                                      ELSE BatchProof(r)
       /\ stage = "over" => verdict = [batch |-> batched_ddh_verify(proof, g, h, s, chal.a, chal.delta)]

\* The prover's code depends on the statement and the hint only.
LEMMA SameStatement ==
  ASSUME statement' = statement
  PROVE  /\ kind' = kind /\ g' = g /\ h' = h /\ s' = s /\ pi' = pi /\ hint' = hint
         /\ Idx' = Idx /\ N' = N /\ Vectors' = Vectors /\ Stated' = Stated /\ Batched' = Batched
<1>1. kind' = kind /\ g' = g /\ h' = h /\ s' = s /\ pi' = pi /\ hint' = hint
  BY DEF statement
<1>2. Idx' = Idx
  BY <1>1 DEF Idx
<1>3. N' = N /\ Vectors' = Vectors
  BY <1>2 DEF N, Vectors
<1>4. Stated' = Stated
  BY <1>1, <1>2, <1>3 DEF Stated
<1>5. Batched' = Batched
  BY <1>1, <1>2, <1>3 DEF Batched
<1> QED BY <1>1, <1>2, <1>3, <1>4, <1>5

LEMMA SameHonest ==
  ASSUME statement' = statement
  PROVE  Honest' = prove_shuffle_adapted(chal')
<1>1. /\ g' = g /\ s' = s /\ pi' = pi /\ hint' = hint /\ Idx' = Idx /\ N' = N
  BY SameStatement
<1> QED BY <1>1 DEF Honest, prove_shuffle_adapted, prove_shuffle_known, preprocess, z_rho, d2, a2, Products, Last, commit, Plus, Times, mul_base, Zero

LEMMA SameSetting ==
  ASSUME statement' = statement, chal' = chal
  PROVE  Honest' = Honest /\ Setting' = Setting /\ BatchDrawn' = BatchDrawn
         /\ \A r : BatchProof(r)' = BatchProof(r)
<1>1. /\ g' = g /\ h' = h /\ s' = s /\ pi' = pi /\ hint' = hint /\ Idx' = Idx /\ N' = N
      /\ Vectors' = Vectors
  BY SameStatement
<1>2. Honest' = Honest
  BY SameHonest DEF Honest
<1>3. Setting' = Setting
  BY <1>1 DEF Setting
<1>4. BatchDrawn' = BatchDrawn
  BY <1>1 DEF BatchDrawn
<1>5. ASSUME NEW r PROVE BatchProof(r)' = BatchProof(r)
  BY <1>1 DEF BatchProof
<1> QED BY <1>2, <1>3, <1>4, <1>5

LEMMA SameVerdict ==
  ASSUME statement' = statement, chal' = chal, proof' = proof, NEW a, NEW b
  PROVE  /\ verify_shuffle_adapted(a, b)' = verify_shuffle_adapted(a, b)
         /\ verify_shuffle_known(z_rho(chal), c_rho, proof.psi, chal.x, chal.e, a)'
              = verify_shuffle_known(z_rho(chal), c_rho, proof.psi, chal.x, chal.e, a)
         /\ batched_ddh_verify(proof, g, h, s, chal.a, chal.delta)'
              = batched_ddh_verify(proof, g, h, s, chal.a, chal.delta)
<1>1. /\ g' = g /\ h' = h /\ s' = s /\ pi' = pi /\ hint' = hint /\ Idx' = Idx /\ N' = N
  BY SameStatement
<1>2. verify_shuffle_adapted(a, b)' = verify_shuffle_adapted(a, b)
  <2>1. ProductMatches(proof.psi, z_rho(chal), chal.x, chal.e)'
          = ProductMatches(proof.psi, z_rho(chal), chal.x, chal.e)
    BY <1>1 DEF ProductMatches, Recomputed, z_rho
  <2>2. CommitmentsMatch(a, b)' <=> CommitmentsMatch(a, b)
    <3> DEFINE L == Plus(Times(a, Com1), Times(b, Com2))
               R == commit([i \in Idx |-> a * proof.psi.f[i] + b * proof.psi.f_delta[i]
                                            + chal.delta * proof.x[i]],
                           a * proof.psi.z + b * proof.psi.z_delta)
    <3>1. Com1' = Com1
      BY <1>1 DEF Com1, c_rho, commit, Plus, Times
    <3>2. Com2' = Com2
      BY <1>1 DEF Com2, commit, Plus, Times
    <3>3. Com3' = Com3
      BY <1>1 DEF Com3, commit, Plus, Times, mul_base, Zero
    <3>4. L' = L
      BY <1>1, <3>1, <3>2 DEF commit, Plus, Times
    <3>5. R' = R
      BY <1>1 DEF commit
    <3>6. CommitmentsMatch(a, b) <=> Plus(L, Com3) = R
      BY DEF CommitmentsMatch, Com1, Com2, Com3
    <3>7. CommitmentsMatch(a, b)' <=> Plus(L', Com3') = R'
      BY <1>1 DEF CommitmentsMatch, Com1, Com2, Com3, Plus, commit
    <3> HIDE DEF L, R
    <3> QED BY <3>3, <3>4, <3>5, <3>6, <3>7
  <2> QED BY <1>1, <2>1, <2>2 DEF verify_shuffle_adapted
<1>3. verify_shuffle_known(z_rho(chal), c_rho, proof.psi, chal.x, chal.e, a)'
              = verify_shuffle_known(z_rho(chal), c_rho, proof.psi, chal.x, chal.e, a)
  BY <1>1 DEF verify_shuffle_known, ProductMatches, Recomputed, c_rho, z_rho,
              commit, Plus, Times, mul_base, Zero
<1>4. batched_ddh_verify(proof, g, h, s, chal.a, chal.delta)'
              = batched_ddh_verify(proof, g, h, s, chal.a, chal.delta)
  BY <1>1
<1> QED BY <1>2, <1>3, <1>4

LEMMA InitSInv == Init => SInv
<1> SUFFICES ASSUME Init PROVE SInv
  OBVIOUS
<1>1. stage = "prove" /\ tampered = FALSE
  BY DEF Init
<1>2. ASSUME kind = "shuffle",
             \E st \in Statements :
                /\ g = st.g /\ h = st.h /\ s = st.s /\ pi = st.pi
                /\ hint \in Hints(Cardinality(DOMAIN st.g))
      PROVE  SInv
  <2>1. PICK st \in Statements :
          /\ g = st.g /\ h = st.h /\ s = st.s /\ pi = st.pi
          /\ hint \in Hints(Cardinality(DOMAIN st.g))
    BY <1>2
  <2>2. N = Cardinality(DOMAIN st.g)
    BY <2>1 DEF N, Idx
  <2> DEFINE V == [0 .. N - 1 -> Field]
  <2>3. /\ N >= 1 /\ Q > N
        /\ st.g \in V /\ st.h \in V /\ st.s \in Field \ {0}
        /\ st.pi \in [0 .. N - 1 -> 0 .. N - 1]
        /\ Hints(N) \subseteq [d : V, r_d : Field, r_pi : Field, r_z : Field,
                                  u : Field, u2 : Field,
                                  hint2 : [d : V, delta : V, r_d : Field,
                                           r_delta : Field, r_a : Field]]
        /\ Challenges(N) \subseteq [z : V, delta : Field \ {0}, x : Field, e : Field \ {0}]
    BY <2>2, ShuffleAssumption
  <2>4. Idx = 0..(N - 1)
    BY <2>1, <2>3 DEF Idx
  <2>5. V = Vectors
    BY <2>4 DEF Vectors
  <2>6. N \in Nat
    <3>1. IsFiniteSet(DOMAIN st.g)
      BY ShuffleAssumption
    <3> QED BY <2>2, <3>1, FS_CardinalityType
  <2> HIDE DEF V
  <2>7. Stated
    BY <2>1, <2>2, <2>3, <2>4, <2>5, <2>6 DEF Stated
  <2> QED BY <1>1, <1>2, <2>1, <2>2, <2>3, <2>5, <2>7 DEF SInv
<1>3. ASSUME kind = "ddh", \E b \in Batches : g = b.g /\ h = b.h /\ s = b.s
      PROVE  SInv
  <2>1. PICK b \in Batches : g = b.g /\ h = b.h /\ s = b.s
    BY <1>3
  <2>2. Batched
    BY <2>1, ShuffleAssumption DEF Batched, Vectors, Idx
  <2> QED BY <1>1, <1>3, <2>2 DEF SInv
<1> QED BY <1>2, <1>3 DEF Init

LEMMA NextSInv == SInv /\ [Next]_vars => SInv'
<1> SUFFICES ASSUME SInv, [Next]_vars PROVE SInv'
  OBVIOUS
<1>0. /\ kind \in {"shuffle", "ddh"} /\ stage \in {"prove", "verify", "over"} /\ tampered \in BOOLEAN
      /\ stage = "prove" => ~tampered
  BY DEF SInv
<1>s. /\ statement' = statement =>
           /\ kind' = kind /\ g' = g /\ h' = h /\ s' = s /\ pi' = pi /\ hint' = hint
           /\ Idx' = Idx /\ N' = N /\ Vectors' = Vectors /\ Stated' = Stated /\ Batched' = Batched
  BY SameStatement
<1>b. kind = "shuffle" =>
        /\ Stated /\ hint \in Hints(N)
        /\ Challenges(N) \subseteq [z : Vectors, delta : Field \ {0}, x : Field, e : Field \ {0}]
  BY DEF SInv
<1>k. kind = "ddh" => Batched
  BY DEF SInv
<1>1. CASE Prove
  <2>1. /\ kind = "shuffle" /\ statement' = statement /\ stage' = "verify" /\ tampered' = tampered
        /\ chal' \in Challenges(N) /\ proof' = prove_shuffle_adapted(chal') /\ stage = "prove"
    BY <1>1 DEF Prove
  <2>2. chal' \in [z : Vectors, delta : Field \ {0}, x : Field, e : Field \ {0}]
    BY <1>b, <2>1
  <2>3. Setting'
    BY <1>b, <1>s, <2>1, <2>2 DEF Setting, Stated
  <2>4. proof' = Honest'
    BY <2>1, SameHonest
  <2> QED BY <1>0, <1>b, <1>s, <2>1, <2>3, <2>4 DEF SInv
<1>2. CASE ProveBatch
  <2>1. /\ kind = "ddh" /\ statement' = statement /\ stage' = "verify" /\ tampered' = tampered
        /\ chal' \in [a : [Idx -> Field], delta : Deltas] /\ stage = "prove"
        /\ \E r \in Nonces : proof' = batched_ddh_prove(r, g, s, chal'.a, chal'.delta)
    BY <1>2 DEF ProveBatch
  <2>2. BatchDrawn'
    BY <1>s, <2>1 DEF BatchDrawn, Vectors
  <2>3. PICK r \in Nonces : proof' = batched_ddh_prove(r, g, s, chal'.a, chal'.delta)
    BY <2>1
  <2>4. proof' = BatchProof(r)'
    BY <1>s, <2>1, <2>3 DEF BatchProof
  <2>5. ~tampered' /\ kind' = "ddh" /\ Batched'
    BY <1>0, <1>k, <1>s, <2>1
  <2>6. \E t \in Nonces : proof' = IF tampered' THEN [BatchProof(t)' EXCEPT !.z = Inc(@)]
                                                ELSE BatchProof(t)'
    BY <2>4, <2>5
  <2> QED BY <1>0, <2>1, <2>2, <2>5, <2>6 DEF SInv
<1>3. CASE Tamper
  <2>1. /\ stage = "verify" /\ ~tampered /\ tampered' /\ tampered' \in BOOLEAN
        /\ statement' = statement /\ chal' = chal /\ stage' = stage /\ verdict' = verdict
    BY <1>3 DEF Tamper
  <2>2. /\ Honest' = Honest /\ Setting' = Setting /\ BatchDrawn' = BatchDrawn
        /\ \A r : BatchProof(r)' = BatchProof(r)
    BY <2>1, SameSetting
  <2>3. CASE kind = "shuffle"
    <3>1. Setting /\ proof = Honest
      BY <2>1, <2>3 DEF SInv
    <3>2. OffBy1(proof, proof')
      BY <1>3, <2>3 DEF Tamper, OffBy1
    <3>3. OffBy1(Honest, proof)'
      BY <1>s, <2>1, <2>2, <3>1, <3>2 DEF OffBy1
    <3> QED BY <1>0, <1>b, <1>s, <2>1, <2>2, <2>3, <3>1, <3>3 DEF SInv
  <2>4. CASE kind = "ddh"
    <3>1. PICK r \in Nonces : proof = BatchProof(r)
      BY <2>1, <2>4 DEF SInv
    <3>2. proof' = [BatchProof(r) EXCEPT !.z = Inc(@)]
      BY <1>3, <2>4, <3>1 DEF Tamper
    <3>3. \E t \in Nonces : proof' = IF tampered' THEN [BatchProof(t)' EXCEPT !.z = Inc(@)]
                                                  ELSE BatchProof(t)'
      BY <2>1, <2>2, <3>2
    <3>4. BatchDrawn'
      BY <2>1, <2>2, <2>4 DEF SInv
    <3> QED BY <1>0, <1>k, <1>s, <2>1, <2>4, <3>3, <3>4 DEF SInv
  <2> QED BY <1>0, <2>3, <2>4
<1>4. CASE Verify
  <2>1. /\ stage = "verify" /\ kind = "shuffle" /\ stage' = "over" /\ tampered' = tampered
        /\ statement' = statement /\ chal' = chal /\ proof' = proof
    BY <1>4 DEF Verify
  <2>2. Honest' = Honest /\ Setting' = Setting
    BY <2>1, SameSetting
  <2>3. PICK alpha1, alpha2 \in Alphas :
          verdict' = [adapted |-> verify_shuffle_adapted(alpha1, alpha2),
                      known |-> verify_shuffle_known(z_rho(chal), c_rho, proof.psi,
                                                     chal.x, chal.e, alpha1)]
    BY <1>4 DEF Verify
  <2>4. verdict' = [adapted |-> verify_shuffle_adapted(alpha1, alpha2)',
                    known |-> verify_shuffle_known(z_rho(chal), c_rho, proof.psi,
                                                   chal.x, chal.e, alpha1)']
    BY <2>1, <2>3, SameVerdict
  <2>5. Setting /\ IF tampered THEN OffBy1(Honest, proof) ELSE proof = Honest
    BY <2>1 DEF SInv
  <2>6. OffBy1(Honest, proof)' <=> OffBy1(Honest, proof)
    BY <1>s, <2>1, <2>2 DEF OffBy1
  <2> QED BY <1>0, <1>b, <1>s, <2>1, <2>2, <2>4, <2>5, <2>6 DEF SInv
<1>5. CASE VerifyBatch
  <2>1. /\ stage = "verify" /\ kind = "ddh" /\ stage' = "over" /\ tampered' = tampered
        /\ statement' = statement /\ chal' = chal /\ proof' = proof
        /\ verdict' = [batch |-> batched_ddh_verify(proof, g, h, s, chal.a, chal.delta)]
    BY <1>5 DEF VerifyBatch
  <2>2. /\ BatchDrawn' = BatchDrawn /\ \A r : BatchProof(r)' = BatchProof(r)
    BY <2>1, SameSetting
  <2>3. verdict' = [batch |-> batched_ddh_verify(proof, g, h, s, chal.a, chal.delta)']
    BY <2>1, SameVerdict
  <2>4. /\ BatchDrawn
        /\ \E r \in Nonces : proof = IF tampered THEN [BatchProof(r) EXCEPT !.z = Inc(@)]
                                                 ELSE BatchProof(r)
    BY <2>1 DEF SInv
  <2>5. \E r \in Nonces : proof' = IF tampered' THEN [BatchProof(r)' EXCEPT !.z = Inc(@)]
                                                ELSE BatchProof(r)'
    BY <2>1, <2>2, <2>4
  <2> QED BY <1>0, <1>k, <1>s, <2>1, <2>2, <2>3, <2>4, <2>5 DEF SInv
<1>6. CASE Over \/ UNCHANGED vars
  <2>1. /\ stage' = stage /\ tampered' = tampered /\ verdict' = verdict
        /\ statement' = statement /\ chal' = chal /\ proof' = proof
    BY <1>6 DEF Over, vars
  <2>2. /\ Honest' = Honest /\ Setting' = Setting /\ BatchDrawn' = BatchDrawn
        /\ \A r : BatchProof(r)' = BatchProof(r)
    BY <2>1, SameSetting
  <2>3. CASE kind = "shuffle"
    <3>1. OffBy1(Honest, proof)' <=> OffBy1(Honest, proof)
      BY <1>s, <2>1, <2>2 DEF OffBy1
    <3>2. stage # "prove" => Setting' /\ IF tampered' THEN OffBy1(Honest, proof)' ELSE proof' = Honest'
      BY <2>1, <2>2, <2>3, <3>1 DEF SInv
    <3>3. ASSUME stage = "over"
          PROVE \E alpha1, alpha2 \in Alphas :
                  verdict' = [adapted |-> verify_shuffle_adapted(alpha1, alpha2)',
                              known |-> verify_shuffle_known(z_rho(chal), c_rho, proof.psi,
                                                             chal.x, chal.e, alpha1)']
      <4>1. PICK alpha1, alpha2 \in Alphas :
              verdict = [adapted |-> verify_shuffle_adapted(alpha1, alpha2),
                         known |-> verify_shuffle_known(z_rho(chal), c_rho, proof.psi,
                                                        chal.x, chal.e, alpha1)]
        BY <2>3, <3>3 DEF SInv
      <4>2. verdict' = [adapted |-> verify_shuffle_adapted(alpha1, alpha2)',
                        known |-> verify_shuffle_known(z_rho(chal), c_rho, proof.psi,
                                                       chal.x, chal.e, alpha1)']
        BY <2>1, <4>1, SameVerdict
      <4> QED BY <4>2
    <3> QED BY <1>0, <1>b, <1>s, <2>1, <2>3, <3>2, <3>3 DEF SInv
  <2>4. CASE kind = "ddh"
    <3>1. stage # "prove" =>
            /\ BatchDrawn'
            /\ \E r \in Nonces : proof' = IF tampered' THEN [BatchProof(r)' EXCEPT !.z = Inc(@)]
                                                       ELSE BatchProof(r)'
      BY <2>1, <2>2, <2>4 DEF SInv
    <3>2. stage = "over" => verdict' = [batch |-> batched_ddh_verify(proof, g, h, s, chal.a, chal.delta)']
      BY <2>1, <2>4, SameVerdict DEF SInv
    <3> QED BY <1>0, <1>k, <1>s, <2>1, <2>4, <3>1, <3>2 DEF SInv
  <2> QED BY <1>0, <2>3, <2>4
<1> QED BY <1>1, <1>2, <1>3, <1>4, <1>5, <1>6 DEF Next

\* Every state of a run of the arguments of aok.rs is one of the stages of SInv:
\* the proof that is judged is what the prover's code makes of its statement and
\* the challenges, or that with one response off by one.
THEOREM ProofStages == Spec => []SInv
BY InitSInv, NextSInv, PTL DEF Spec

\* No response of verify_shuffle_adapted can be off by one unnoticed, for every
\* number of entries, every field and every draw of the weights.
THEOREM TamperingShows == Spec => []TamperedFails
<1>1. SInv => TamperedFails
  <2> SUFFICES ASSUME SInv, stage = "over", kind = "shuffle", tampered
               PROVE  ~verdict.adapted
    BY DEF TamperedFails, Judged
  <2>1. Setting /\ OffBy1(Honest, proof)
    BY DEF SInv
  <2>2. PICK alpha1, alpha2 \in Alphas :
          verdict = [adapted |-> verify_shuffle_adapted(alpha1, alpha2),
                     known |-> verify_shuffle_known(z_rho(chal), c_rho, proof.psi,
                                                    chal.x, chal.e, alpha1)]
    BY DEF SInv
  <2>3. alpha1 \in Field \ {0} /\ alpha2 \in Field \ {0}
    BY ShuffleAssumption
  <2>4. ~verify_shuffle_adapted(alpha1, alpha2)
    BY <2>1, <2>3, OffBy1Rejected
  <2> QED BY <2>2, <2>4
<1> QED BY <1>1, ProofStages, PTL

\* What verify_shuffle_adapted accepts its original, verify_shuffle_known,
\* accepts too, for every number of entries and every field.
THEOREM CopyIsAsStrict == Spec => []CopiesAgree
<1>1. SInv => CopiesAgree
  <2> SUFFICES ASSUME SInv, stage = "over", kind = "shuffle", verdict.adapted
               PROVE  verdict.known
    BY DEF CopiesAgree, Judged
  <2>1. Setting /\ IF tampered THEN OffBy1(Honest, proof) ELSE proof = Honest
    BY DEF SInv
  <2>2. PICK alpha1, alpha2 \in Alphas :
          verdict = [adapted |-> verify_shuffle_adapted(alpha1, alpha2),
                     known |-> verify_shuffle_known(z_rho(chal), c_rho, proof.psi,
                                                    chal.x, chal.e, alpha1)]
    BY DEF SInv
  <2>3. alpha1 \in Field \ {0} /\ alpha2 \in Field \ {0} /\ alpha1 \in Int
    BY ShuffleAssumption, QFacts DEF Field
  <2>4. verify_shuffle_adapted(alpha1, alpha2)
    BY <2>2
  <2>5. ~tampered /\ proof = Honest
    BY <2>1, <2>3, <2>4, OffBy1Rejected
  <2>6. ProductMatches(proof.psi, z_rho(chal), chal.x, chal.e)
    BY <2>4 DEF verify_shuffle_adapted
  <2>7. verify_shuffle_known(z_rho(chal), c_rho, proof.psi, chal.x, chal.e, alpha1)
    BY <2>1, <2>3, <2>5, <2>6, KnownMatches
  <2> QED BY <2>2, <2>7
<1> QED BY <1>1, ProofStages, PTL

-----------------------------------------------------------------------------
(* Folds.  Sum and Prod take the entries of a vector in an order nobody knows;
   o says which of the two is meant. *)

Unit(o) == IF o = "sum" THEN 0 ELSE 1
Op(o, a, b) == IF o = "sum" THEN Mod(a + b) ELSE Mod(a * b)
Pick(t) == CHOOSE x \in t : TRUE

Folds(f, o, v, D) ==
  f = [t \in SUBSET D |-> IF t = {} THEN Unit(o) ELSE Op(o, v[Pick(t)], f[t \ {Pick(t)}])]

FoldsTo(f, o, v, D, n) ==
  \A t \in SUBSET D : Cardinality(t) <= n =>
    f[t] = IF t = {} THEN Unit(o) ELSE Op(o, v[Pick(t)], f[t \ {Pick(t)}])

LEMMA Removed ==
  ASSUME NEW D, IsFiniteSet(D), NEW t \in SUBSET D, NEW x \in t
  PROVE  /\ IsFiniteSet(t) /\ t \ {x} \in SUBSET D /\ IsFiniteSet(t \ {x})
         /\ Cardinality(t) \in Nat /\ Cardinality(t \ {x}) = Cardinality(t) - 1
<1>1. IsFiniteSet(t)
  BY FS_Subset
<1> QED BY <1>1, FS_RemoveElement, FS_CardinalityType

LEMMA PickIn ==
  ASSUME NEW t, t # {}
  PROVE  Pick(t) \in t
BY DEF Pick

LEMMA FoldExists ==
  ASSUME NEW D, IsFiniteSet(D), NEW o, NEW v
  PROVE  \E f : Folds(f, o, v, D)
<1> DEFINE Bad == {n \in Nat : ~ \E f : DOMAIN f = SUBSET D /\ FoldsTo(f, o, v, D, n)}
<1>1. ASSUME Bad # {} PROVE FALSE
  <2>1. PICK n \in Bad : \A k \in Bad : n <= k
    <3>1. Bad \subseteq Nat
      OBVIOUS
    <3> HIDE DEF Bad
    <3> QED BY <1>1, <3>1, Least
  <2>2. n # 0
    <3>1. SUFFICES ASSUME n = 0 PROVE FALSE
      OBVIOUS
    <3> DEFINE f == [t \in SUBSET D |-> Unit(o)]
    <3>2. ASSUME NEW t \in SUBSET D, Cardinality(t) <= 0 PROVE t = {}
      <4>1. IsFiniteSet(t)
        BY FS_Subset
      <4>2. Cardinality(t) \in Nat
        BY <4>1, FS_CardinalityType
      <4> QED BY <3>2, <4>1, <4>2, FS_EmptySet
    <3>3. DOMAIN f = SUBSET D /\ FoldsTo(f, o, v, D, 0)
      BY <3>2 DEF FoldsTo
    <3> HIDE DEF f
    <3> QED BY <2>1, <3>1, <3>3
  <2>3. n - 1 \in Nat /\ n - 1 \notin Bad
    <3>1. n \in Nat /\ n - 1 \in Nat /\ ~(n <= n - 1)
      BY <2>2
    <3> QED BY <2>1, <3>1
  <2>4. PICK f : DOMAIN f = SUBSET D /\ FoldsTo(f, o, v, D, n - 1)
    BY <2>3
  <2> DEFINE e == [t \in SUBSET D |-> IF t = {} THEN Unit(o)
                                      ELSE Op(o, v[Pick(t)], f[t \ {Pick(t)}])]
  <2>5. ASSUME NEW t \in SUBSET D, Cardinality(t) <= n - 1 PROVE e[t] = f[t]
    BY <2>4, <2>5 DEF FoldsTo
  <2>6. ASSUME NEW t \in SUBSET D, Cardinality(t) <= n
        PROVE  e[t] = IF t = {} THEN Unit(o) ELSE Op(o, v[Pick(t)], e[t \ {Pick(t)}])
    <3>1. CASE t = {}
      BY <3>1
    <3>2. CASE t # {}
      <4>1. Pick(t) \in t
        BY <3>2, PickIn
      <4>2. /\ t \ {Pick(t)} \in SUBSET D
            /\ Cardinality(t) \in Nat /\ Cardinality(t \ {Pick(t)}) = Cardinality(t) - 1
        <5>1. PICK x \in t : x = Pick(t)
          BY <4>1
        <5>2. /\ t \ {x} \in SUBSET D
              /\ Cardinality(t) \in Nat /\ Cardinality(t \ {x}) = Cardinality(t) - 1
          BY Removed
        <5> QED BY <5>1, <5>2
      <4>3. Cardinality(t \ {Pick(t)}) <= n - 1
        BY <2>6, <4>2
      <4>4. e[t \ {Pick(t)}] = f[t \ {Pick(t)}]
        BY <4>2, <4>3, <2>5
      <4>5. e[t] = Op(o, v[Pick(t)], f[t \ {Pick(t)}])
        BY <3>2
      <4> HIDE DEF e
      <4> QED BY <3>2, <4>4, <4>5
    <3> QED BY <3>1, <3>2
  <2>7. DOMAIN e = SUBSET D
    OBVIOUS
  <2> HIDE DEF e
  <2>8. FoldsTo(e, o, v, D, n)
    BY <2>6 DEF FoldsTo
  <2> QED BY <2>1, <2>7, <2>8
<1>2. Cardinality(D) \in Nat
  BY FS_CardinalityType
<1>3. PICK f : DOMAIN f = SUBSET D /\ FoldsTo(f, o, v, D, Cardinality(D))
  BY <1>1, <1>2
<1> DEFINE e == [t \in SUBSET D |-> f[t]]
<1>4. ASSUME NEW t \in SUBSET D
      PROVE  e[t] = IF t = {} THEN Unit(o) ELSE Op(o, v[Pick(t)], e[t \ {Pick(t)}])
  <2>1. Cardinality(t) <= Cardinality(D)
    BY FS_Subset
  <2>2. f[t] = IF t = {} THEN Unit(o) ELSE Op(o, v[Pick(t)], f[t \ {Pick(t)}])
    BY <1>3, <2>1 DEF FoldsTo
  <2>3. t \ {Pick(t)} \in SUBSET D
    OBVIOUS
  <2> QED BY <2>2, <2>3
<1>5. e = [t \in SUBSET D |-> e[t]]
  OBVIOUS
<1> HIDE DEF e
<1>6. e = [t \in SUBSET D |-> IF t = {} THEN Unit(o) ELSE Op(o, v[Pick(t)], e[t \ {Pick(t)}])]
  BY <1>4, <1>5
<1> QED BY <1>6 DEF Folds

LEMMA FoldValue ==
  ASSUME NEW f, NEW o, NEW v, NEW D, Folds(f, o, v, D), NEW t \in SUBSET D
  PROVE  f[t] = IF t = {} THEN Unit(o) ELSE Op(o, v[Pick(t)], f[t \ {Pick(t)}])
BY DEF Folds

\* Sum and Prod are such folds.
LEMMA SumFolds ==
  ASSUME NEW v, IsFiniteSet(DOMAIN v)
  PROVE  \E f : Folds(f, "sum", v, DOMAIN v) /\ Sum(v) = f[DOMAIN v]
<1> DEFINE S == DOMAIN v
<1>1. ASSUME NEW f
      PROVE  Folds(f, "sum", v, S) <=>
             f = [t \in SUBSET S |-> IF t = {} THEN 0
                    ELSE (v[CHOOSE x \in t : TRUE] + f[t \ {CHOOSE x \in t : TRUE}]) % Q]
  BY DEF Folds, Op, Unit, Pick, Mod, Rem
<1>2. PICK e : Folds(e, "sum", v, S)
  BY FoldExists
<1>3. PICK f : f = CHOOSE it : it = [t \in SUBSET S |-> IF t = {} THEN 0
                    ELSE (v[CHOOSE x \in t : TRUE] + it[t \ {CHOOSE x \in t : TRUE}]) % Q]
  OBVIOUS
<1>d. e = [t \in SUBSET S |-> IF t = {} THEN 0
                    ELSE (v[CHOOSE x \in t : TRUE] + e[t \ {CHOOSE x \in t : TRUE}]) % Q]
  BY <1>2 DEF Folds, Op, Unit, Pick, Mod, Rem
<1>e. \E it : it = [t \in SUBSET S |-> IF t = {} THEN 0
                    ELSE (v[CHOOSE x \in t : TRUE] + it[t \ {CHOOSE x \in t : TRUE}]) % Q]
  BY <1>d
<1>4. f = [t \in SUBSET S |-> IF t = {} THEN 0
                    ELSE (v[CHOOSE x \in t : TRUE] + f[t \ {CHOOSE x \in t : TRUE}]) % Q]
  BY <1>3, <1>e
<1>5. Sum(v) = f[S]
  BY <1>3 DEF Sum, FoldFunction, FoldFunctionOnSet, MapThenFoldSet
<1> QED BY <1>1, <1>4, <1>5
LEMMA ProdFolds ==
  ASSUME NEW v, IsFiniteSet(DOMAIN v)
  PROVE  \E f : Folds(f, "prod", v, DOMAIN v) /\ Prod(v) = f[DOMAIN v]
<1> DEFINE S == DOMAIN v
<1>1. ASSUME NEW f
      PROVE  Folds(f, "prod", v, S) <=>
             f = [t \in SUBSET S |-> IF t = {} THEN 1
                    ELSE (v[CHOOSE x \in t : TRUE] * f[t \ {CHOOSE x \in t : TRUE}]) % Q]
  BY DEF Folds, Op, Unit, Pick, Mod, Rem
<1>2. PICK e : Folds(e, "prod", v, S)
  BY FoldExists
<1>3. PICK f : f = CHOOSE it : it = [t \in SUBSET S |-> IF t = {} THEN 1
                    ELSE (v[CHOOSE x \in t : TRUE] * it[t \ {CHOOSE x \in t : TRUE}]) % Q]
  OBVIOUS
<1>d. e = [t \in SUBSET S |-> IF t = {} THEN 1
                    ELSE (v[CHOOSE x \in t : TRUE] * e[t \ {CHOOSE x \in t : TRUE}]) % Q]
  BY <1>2 DEF Folds, Op, Unit, Pick, Mod, Rem
<1>e. \E it : it = [t \in SUBSET S |-> IF t = {} THEN 1
                    ELSE (v[CHOOSE x \in t : TRUE] * it[t \ {CHOOSE x \in t : TRUE}]) % Q]
  BY <1>d
<1>4. f = [t \in SUBSET S |-> IF t = {} THEN 1
                    ELSE (v[CHOOSE x \in t : TRUE] * f[t \ {CHOOSE x \in t : TRUE}]) % Q]
  BY <1>3, <1>e
<1>5. Prod(v) = f[S]
  BY <1>3 DEF Prod, FoldFunction, FoldFunctionOnSet, MapThenFoldSet
<1> QED BY <1>1, <1>4, <1>5

\* A set of subsets has one with the fewest elements, the form induction over
\* a fold takes here.
LEMMA FewestElements ==
  ASSUME NEW D, IsFiniteSet(D), NEW B, B \subseteq SUBSET D, B # {}
  PROVE  \E t \in B : \A r \in SUBSET D : Cardinality(r) < Cardinality(t) => r \notin B
<1> DEFINE T == {Cardinality(r) : r \in B}
<1>1. ASSUME NEW r \in SUBSET D PROVE Cardinality(r) \in Nat
  BY FS_Subset, FS_CardinalityType
<1>2. T \subseteq Nat /\ T # {}
  BY <1>1
<1>3. PICK m \in T : \A k \in T : m <= k
  <2> HIDE DEF T
  <2> QED BY <1>2, Least
<1>4. PICK t \in B : m = Cardinality(t)
  BY <1>3
<1>5. ASSUME NEW r \in SUBSET D, Cardinality(r) < Cardinality(t), r \in B PROVE FALSE
  <2>1. Cardinality(r) \in T /\ Cardinality(r) \in Nat /\ m \in Nat
    BY <1>1, <1>2, <1>5
  <2> QED BY <1>3, <1>4, <1>5, <2>1
<1> QED BY <1>5

LEMMA OpType ==
  ASSUME NEW o, NEW a \in Int, NEW b \in Int
  PROVE  Op(o, a, b) \in Field /\ Op(o, a, b) \in Int
<1>1. PICK c, d \in Int : c = a + b /\ d = a * b
  OBVIOUS
<1> QED BY <1>1, Remainder DEF Op

LEMMA FoldType ==
  ASSUME NEW D, IsFiniteSet(D), NEW o, NEW v \in [D -> Int], NEW f, Folds(f, o, v, D)
  PROVE  \A t \in SUBSET D : f[t] \in Field /\ f[t] \in Int
<1> DEFINE B == {t \in SUBSET D : ~(f[t] \in Field /\ f[t] \in Int)}
<1>1. ASSUME B # {} PROVE FALSE
  <2>1. B \subseteq SUBSET D
    OBVIOUS
  <2>2. PICK t \in B : \A r \in SUBSET D : Cardinality(r) < Cardinality(t) => r \notin B
    <3> HIDE DEF B
    <3> QED BY <1>1, <2>1, FewestElements
  <2>3. CASE t = {}
    <3>1. f[t] = Unit(o)
      BY <2>3, FoldValue
    <3>2. Unit(o) \in Field /\ Unit(o) \in Int
      BY QFacts DEF Unit, Field
    <3> QED BY <3>1, <3>2
  <2>4. CASE t # {}
    <3>1. PICK x \in t : x = Pick(t)
      BY <2>4, PickIn
    <3>2. /\ t \ {x} \in SUBSET D
          /\ Cardinality(t) \in Nat /\ Cardinality(t \ {x}) = Cardinality(t) - 1
      BY <2>1, Removed
    <3>3. Cardinality(t \ {x}) < Cardinality(t)
      BY <3>2
    <3>4. f[t \ {x}] \in Int
      BY <2>2, <3>2, <3>3
    <3>5. f[t] = Op(o, v[x], f[t \ {x}])
      BY <2>4, <3>1, FoldValue
    <3>6. v[x] \in Int
      BY <2>1
    <3> QED BY <3>4, <3>5, <3>6, OpType
  <2> QED BY <2>3, <2>4
<1> QED BY <1>1

\* The two operations may swap their first arguments.
LEMMA OpSwap ==
  ASSUME NEW o, NEW a \in Int, NEW b \in Int, NEW c \in Int
  PROVE  Op(o, a, Op(o, b, c)) = Op(o, b, Op(o, a, c))
<1>1. CASE o = "sum"
  <2>1. ASSUME NEW p \in Int, NEW q \in Int PROVE Cong(p + Mod(q + c), p + (q + c))
    <3>1. PICK r \in Int : r = q + c
      OBVIOUS
    <3>2. Mod(r) \in Int /\ Cong(Mod(r), r)
      BY Remainder, CongMod
    <3> QED BY <3>1, <3>2, CongScale
  <2>2. a + (b + c) = b + (a + c)
    OBVIOUS
  <2>3. Cong(a + Mod(b + c), b + Mod(a + c))
    BY <2>1, <2>2 DEF Cong
  <2> QED BY <1>1, <2>3 DEF Op, Cong
<1>2. CASE o # "sum"
  <2>1. ASSUME NEW p \in Int, NEW q \in Int PROVE Cong(p * Mod(q * c), p * (q * c))
    <3>1. PICK r \in Int : r = q * c
      OBVIOUS
    <3>2. Mod(r) \in Int /\ Cong(Mod(r), r)
      BY Remainder, CongMod
    <3> QED BY <3>1, <3>2, CongScale
  <2>2. a * (b * c) = b * (a * c)
    OBVIOUS
  <2>3. Cong(a * Mod(b * c), b * Mod(a * c))
    BY <2>1, <2>2 DEF Cong
  <2> QED BY <1>2, <2>3 DEF Op, Cong
<1> QED BY <1>1, <1>2

\* The order does not matter: any element may be taken first.
LEMMA FoldRemove ==
  ASSUME NEW D, IsFiniteSet(D), NEW o, NEW v \in [D -> Int], NEW f, Folds(f, o, v, D)
  PROVE  \A t \in SUBSET D : \A x \in t : f[t] = Op(o, v[x], f[t \ {x}])
<1> DEFINE B == {t \in SUBSET D : ~ \A x \in t : f[t] = Op(o, v[x], f[t \ {x}])}
<1>1. ASSUME B # {} PROVE FALSE
  <2>1. B \subseteq SUBSET D
    OBVIOUS
  <2>2. PICK t \in B : \A r \in SUBSET D : Cardinality(r) < Cardinality(t) => r \notin B
    <3> HIDE DEF B
    <3> QED BY <1>1, <2>1, FewestElements
  <2>3. PICK x \in t : f[t] # Op(o, v[x], f[t \ {x}])
    BY <2>2
  <2>4. PICK y \in t : y = Pick(t)
    BY PickIn
  <2>5. f[t] = Op(o, v[y], f[t \ {y}])
    BY <2>1, <2>4, FoldValue
  <2>6. x # y
    BY <2>3, <2>5
  <2>7. /\ t \ {x} \in SUBSET D /\ t \ {y} \in SUBSET D /\ Cardinality(t) \in Nat
        /\ Cardinality(t \ {x}) = Cardinality(t) - 1 /\ Cardinality(t \ {y}) = Cardinality(t) - 1
    BY <2>1, Removed
  <2>8. Cardinality(t \ {x}) < Cardinality(t) /\ Cardinality(t \ {y}) < Cardinality(t)
    BY <2>7
  <2>9. f[t \ {y}] = Op(o, v[x], f[(t \ {y}) \ {x}])
    BY <2>2, <2>6, <2>7, <2>8
  <2>10. f[t \ {x}] = Op(o, v[y], f[(t \ {x}) \ {y}])
    BY <2>2, <2>6, <2>7, <2>8
  <2>11. PICK r \in SUBSET D : r = (t \ {y}) \ {x} /\ r = (t \ {x}) \ {y}
    BY <2>1
  <2>12. f[r] \in Int /\ v[x] \in Int /\ v[y] \in Int
    BY <2>1, FoldType
  <2>13. Op(o, v[y], Op(o, v[x], f[r])) = Op(o, v[x], Op(o, v[y], f[r]))
    BY <2>12, OpSwap
  <2>14. f[t \ {y}] = Op(o, v[x], f[r]) /\ f[t \ {x}] = Op(o, v[y], f[r])
    BY <2>9, <2>10, <2>11
  <2> QED BY <2>3, <2>5, <2>13, <2>14
<1> QED BY <1>1

-----------------------------------------------------------------------------
(* Sums are linear. *)

LEMMA LinearStep ==
  ASSUME NEW a \in Int, NEW b \in Int, NEW p \in Int, NEW q \in Int, NEW r \in Int,
         NEW p1 \in Int, NEW q1 \in Int, NEW r1 \in Int,
         Cong(p, a * q + b * r), Cong(p1, a * q1 + b * r1)
  PROVE  Cong(Mod(p + p1), a * Mod(q + q1) + b * Mod(r + r1))
<1>1. PICK x, y, z \in Int : x = p + p1 /\ y = q + q1 /\ z = r + r1
  OBVIOUS
<1>2. /\ Cong(Mod(x), x) /\ Cong(Mod(y), y) /\ Cong(Mod(z), z)
      /\ Mod(x) \in Int /\ Mod(y) \in Int /\ Mod(z) \in Int
  BY CongMod, Remainder
<1>3. Cong(a * Mod(y), a * y) /\ Cong(b * Mod(z), b * z)
  BY <1>2, CongScale
<1>4. PICK m, n, ay, bz \in Int : m = a * Mod(y) /\ n = b * Mod(z) /\ ay = a * y /\ bz = b * z
  BY <1>2
<1>5. Cong(m + n, ay + bz)
  BY <1>3, <1>4, CongAdd
<1>6. PICK k, l \in Int : k = a * q + b * r /\ l = a * q1 + b * r1
  OBVIOUS
<1>7. Cong(x, k + l)
  BY <1>1, <1>6, CongAdd
<1>8. k + l = ay + bz
  <2>1. (a * q + b * r) + (a * q1 + b * r1) = a * (q + q1) + b * (r + r1)
    OBVIOUS
  <2> QED BY <1>1, <1>4, <1>6, <2>1
<1>9. Cong(Mod(x), m + n)
  BY <1>2, <1>5, <1>7, <1>8 DEF Cong
<1> QED BY <1>1, <1>4, <1>9

LEMMA SumType ==
  ASSUME NEW D, IsFiniteSet(D), NEW v \in [D -> Int]
  PROVE  Sum(v) \in Field /\ Sum(v) \in Int
<1>1. DOMAIN v = D /\ D \in SUBSET D
  OBVIOUS
<1>2. PICK f : Folds(f, "sum", v, D) /\ Sum(v) = f[D]
  BY <1>1, SumFolds
<1> QED BY <1>1, <1>2, FoldType

LEMMA SumLinear ==
  ASSUME NEW D, IsFiniteSet(D), NEW a \in Int, NEW b \in Int,
         NEW u \in [D -> Int], NEW v \in [D -> Int], NEW w \in [D -> Int],
         \A i \in D : Cong(u[i], a * v[i] + b * w[i])
  PROVE  Cong(Sum(u), a * Sum(v) + b * Sum(w))
<1>1. DOMAIN u = D /\ DOMAIN v = D /\ DOMAIN w = D
  OBVIOUS
<1>2. PICK fu : Folds(fu, "sum", u, D) /\ Sum(u) = fu[D]
  BY <1>1, SumFolds
<1>3. PICK fv : Folds(fv, "sum", v, D) /\ Sum(v) = fv[D]
  BY <1>1, SumFolds
<1>4. PICK fw : Folds(fw, "sum", w, D) /\ Sum(w) = fw[D]
  BY <1>1, SumFolds
<1>5. \A t \in SUBSET D : fu[t] \in Int /\ fv[t] \in Int /\ fw[t] \in Int
  BY <1>2, <1>3, <1>4, FoldType
<1> DEFINE B == {t \in SUBSET D : ~Cong(fu[t], a * fv[t] + b * fw[t])}
<1>6. ASSUME B # {} PROVE FALSE
  <2>1. B \subseteq SUBSET D
    OBVIOUS
  <2>2. PICK t \in B : \A r \in SUBSET D : Cardinality(r) < Cardinality(t) => r \notin B
    <3> HIDE DEF B
    <3> QED BY <1>6, <2>1, FewestElements
  <2>3. CASE t = {}
    <3>1. fu[t] = 0 /\ fv[t] = 0 /\ fw[t] = 0
      BY <1>2, <1>3, <1>4, <2>3, FoldValue DEF Unit
    <3>2. a * 0 + b * 0 = 0
      OBVIOUS
    <3> QED BY <3>1, <3>2 DEF Cong
  <2>4. CASE t # {}
    <3>1. PICK x \in t : x = Pick(t)
      BY <2>4, PickIn
    <3>2. /\ t \ {x} \in SUBSET D
          /\ Cardinality(t) \in Nat /\ Cardinality(t \ {x}) = Cardinality(t) - 1
      BY <2>1, Removed
    <3>3. Cardinality(t \ {x}) < Cardinality(t)
      BY <3>2
    <3>4. PICK r \in SUBSET D : r = t \ {x}
      BY <3>2
    <3>5. Cong(fu[r], a * fv[r] + b * fw[r])
      BY <2>2, <3>3, <3>4
    <3>6. /\ fu[t] = Op("sum", u[x], fu[r]) /\ fv[t] = Op("sum", v[x], fv[r])
          /\ fw[t] = Op("sum", w[x], fw[r])
      <4>1. t \in SUBSET D /\ r = t \ {Pick(t)}
        BY <3>1, <3>4
      <4>2. fu[t] = IF t = {} THEN Unit("sum") ELSE Op("sum", u[Pick(t)], fu[t \ {Pick(t)}])
        BY <1>2, <4>1, FoldValue
      <4>3. fv[t] = IF t = {} THEN Unit("sum") ELSE Op("sum", v[Pick(t)], fv[t \ {Pick(t)}])
        BY <1>3, <4>1, FoldValue
      <4>4. fw[t] = IF t = {} THEN Unit("sum") ELSE Op("sum", w[Pick(t)], fw[t \ {Pick(t)}])
        BY <1>4, <4>1, FoldValue
      <4> QED BY <2>4, <3>1, <4>1, <4>2, <4>3, <4>4
    <3>7. /\ fu[t] = Mod(u[x] + fu[r]) /\ fv[t] = Mod(v[x] + fv[r]) /\ fw[t] = Mod(w[x] + fw[r])
      BY <3>6 DEF Op
    <3>8. x \in D /\ u[x] \in Int /\ v[x] \in Int /\ w[x] \in Int
      BY <2>1
    <3>9. fu[r] \in Int /\ fv[r] \in Int /\ fw[r] \in Int
      BY <1>5
    <3>10. Cong(u[x], a * v[x] + b * w[x])
      BY <3>8
    <3>11. Cong(Mod(u[x] + fu[r]), a * Mod(v[x] + fv[r]) + b * Mod(w[x] + fw[r]))
      BY <3>5, <3>8, <3>9, <3>10, LinearStep
    <3> QED BY <3>7, <3>11
  <2> QED BY <2>3, <2>4
<1>7. D \in SUBSET D
  OBVIOUS
<1> QED BY <1>2, <1>3, <1>4, <1>6, <1>7

LEMMA DotType ==
  ASSUME NEW D, IsFiniteSet(D), NEW x \in [D -> Int], NEW w \in [D -> Int]
  PROVE  Dot(x, w) \in Field /\ Dot(x, w) \in Int
<1>1. PICK v \in [D -> Int] : v = [i \in DOMAIN x |-> x[i] * w[i]]
  <2>1. [i \in D |-> x[i] * w[i]] \in [D -> Int]
    OBVIOUS
  <2> QED BY <2>1
<1>2. Dot(x, w) = Sum(v)
  BY <1>1 DEF Dot
<1> QED BY <1>2, SumType

LEMMA DotLinear ==
  ASSUME NEW D, IsFiniteSet(D), NEW a \in Int, NEW b \in Int,
         NEW x \in [D -> Int], NEW y \in [D -> Int], NEW z \in [D -> Int], NEW w \in [D -> Int],
         \A i \in D : Cong(x[i], a * y[i] + b * z[i])
  PROVE  Cong(Dot(x, w), a * Dot(y, w) + b * Dot(z, w))
<1>1. PICK xw \in [D -> Int] : xw = [i \in D |-> x[i] * w[i]]
  <2>1. [i \in D |-> x[i] * w[i]] \in [D -> Int]
    OBVIOUS
  <2> QED BY <2>1
<1>2. PICK yw \in [D -> Int] : yw = [i \in D |-> y[i] * w[i]]
  <2>1. [i \in D |-> y[i] * w[i]] \in [D -> Int]
    OBVIOUS
  <2> QED BY <2>1
<1>3. PICK zw \in [D -> Int] : zw = [i \in D |-> z[i] * w[i]]
  <2>1. [i \in D |-> z[i] * w[i]] \in [D -> Int]
    OBVIOUS
  <2> QED BY <2>1
<1>4. Dot(x, w) = Sum(xw) /\ Dot(y, w) = Sum(yw) /\ Dot(z, w) = Sum(zw)
  <2>1. DOMAIN x = D /\ DOMAIN y = D /\ DOMAIN z = D
    OBVIOUS
  <2> QED BY <1>1, <1>2, <1>3, <2>1 DEF Dot
<1>5. ASSUME NEW i \in D PROVE Cong(xw[i], a * yw[i] + b * zw[i])
  <2>1. x[i] \in Int /\ y[i] \in Int /\ z[i] \in Int /\ w[i] \in Int
    OBVIOUS
  <2>2. PICK k \in Int : k = a * y[i] + b * z[i]
    BY <2>1
  <2>3. Cong(x[i] * w[i], k * w[i])
    BY <2>1, <2>2, CongScale
  <2>4. k * w[i] = a * (y[i] * w[i]) + b * (z[i] * w[i])
    <3>1. (a * y[i] + b * z[i]) * w[i] = a * (y[i] * w[i]) + b * (z[i] * w[i])
      BY <2>1
    <3> QED BY <2>2, <3>1
  <2>5. xw[i] = x[i] * w[i] /\ yw[i] = y[i] * w[i] /\ zw[i] = z[i] * w[i]
    BY <1>1, <1>2, <1>3
  <2> QED BY <2>3, <2>4, <2>5
<1>6. Cong(Sum(xw), a * Sum(yw) + b * Sum(zw))
  BY <1>5, SumLinear
<1> QED BY <1>4, <1>6

LEMMA DotScale ==
  ASSUME NEW D, IsFiniteSet(D), NEW k \in Int, NEW x \in [D -> Int], NEW w \in [D -> Int]
  PROVE  Cong(Dot(Scale(k, x), w), k * Dot(x, w)) /\ Dot(Scale(k, x), w) \in Int
<1>1. ASSUME NEW i \in D PROVE Mod(k * x[i]) \in Int /\ Cong(Mod(k * x[i]), k * x[i] + 0 * x[i])
  <2>1. PICK y \in Int : y = k * x[i]
    OBVIOUS
  <2>2. Mod(y) \in Int /\ Cong(Mod(y), y)
    BY Remainder, CongMod
  <2>3. y + 0 * x[i] = y
    BY <2>1
  <2> QED BY <2>1, <2>2, <2>3
<1>2. PICK kx \in [D -> Int] : kx = Scale(k, x)
  <2>1. Scale(k, x) = [i \in D |-> Mod(k * x[i])]
    BY DEF Scale, Mod, Rem
  <2> QED BY <1>1, <2>1
<1>3. ASSUME NEW i \in D PROVE Cong(kx[i], k * x[i] + 0 * x[i])
  <2>1. kx[i] = Mod(k * x[i])
    BY <1>2 DEF Scale, Mod, Rem
  <2> QED BY <1>1, <2>1
<1>4. 0 \in Int /\ Dot(x, w) \in Int /\ Dot(kx, w) \in Int
  BY DotType
<1>5. PICK o \in Int : o = 0
  OBVIOUS
<1>6. Cong(Dot(kx, w), k * Dot(x, w) + o * Dot(x, w))
  BY <1>3, <1>5, DotLinear
<1>7. k * Dot(x, w) + o * Dot(x, w) = k * Dot(x, w)
  BY <1>4, <1>5
<1> QED BY <1>2, <1>4, <1>6, <1>7

-----------------------------------------------------------------------------
(* The batched argument. *)

LEMMA CongSub ==
  ASSUME NEW a \in Int, NEW b \in Int, NEW c \in Int, NEW d \in Int, Cong(a, b), Cong(c, d)
  PROVE  Cong(a - c, b - d)
<1>1. PICK m, n \in Int : m = -c /\ n = -d
  OBVIOUS
<1>2. Cong(m, n)
  BY <1>1, CongNeg
<1>3. Cong(a + m, b + n)
  BY <1>2, CongAdd
<1>4. a + m = a - c /\ b + n = b - d
  BY <1>1
<1> QED BY <1>3, <1>4

LEMMA CongZero ==
  ASSUME NEW a \in Int, NEW b \in Int
  PROVE  Cong(a, b) <=> Cong(b - a, 0)
<1>1. PICK p, q \in Int : p = b - a /\ q = 0
  OBVIOUS
<1>2. Cong(p + a, q + a) <=> Cong(p, q)
  BY CongShift
<1>3. p + a = b /\ q + a = a
  BY <1>1
<1> QED BY <1>1, <1>2, <1>3 DEF Cong

\* The equation of batched_ddh_verify, for a response z that is off by t, comes
\* down to the errors E of the entries.
LEMMA BatchEquation ==
  ASSUME NEW r \in Int, NEW k \in Int, NEW d \in Int, NEW G \in Int, NEW H \in Int,
         NEW c \in Int, NEW z \in Int, NEW zg \in Int, NEW dh \in Int, NEW E \in Int, NEW t \in Int,
         Cong(c, r * G + r), Cong(z, (d * k + r) + t), Cong(zg, z * G), Cong(dh, d * H),
         Cong(E, H - k * G)
  PROVE  Cong((c + k * d) - z, zg - dh) <=> Cong(t * (G + 1) - d * E, 0)
<1>1. PICK c1, z1, e1, kd \in Int :
        c1 = r * G + r /\ z1 = (d * k + r) + t /\ e1 = H - k * G /\ kd = k * d
  OBVIOUS
<1>2. PICK L, L1 \in Int : L = (c + kd) - z /\ L1 = (c1 + kd) - z1
  OBVIOUS
<1>3. Cong(L, L1)
  <2>1. PICK x, y \in Int : x = c + kd /\ y = c1 + kd
    OBVIOUS
  <2>2. Cong(x, y)
    BY <1>1, <2>1, CongScale
  <2> QED BY <1>1, <1>2, <2>1, <2>2, CongSub
<1>4. PICK zG, z1G, dH \in Int : zG = z * G /\ z1G = z1 * G /\ dH = d * H
  OBVIOUS
<1>5. PICK R, R1_ \in Int : R = zg - dh /\ R1_ = z1G - dH
  OBVIOUS
<1>6. Cong(R, R1_)
  <2>1. Cong(zG, z1G)
    BY <1>1, <1>4, CongScale
  <2>2. Cong(zg, z1G) /\ Cong(dh, dH)
    BY <1>4, <2>1 DEF Cong
  <2> QED BY <1>5, <2>2, CongSub
<1>7. PICK de, de1, tg \in Int : de = d * E /\ de1 = d * e1 /\ tg = t * (G + 1)
  OBVIOUS
<1>8. Cong(tg - de, tg - de1)
  <2>1. Cong(E, e1) /\ Cong(tg, tg)
    BY <1>1 DEF Cong
  <2>2. Cong(d * E, d * e1)
    BY <2>1, CongScale
  <2> QED BY <1>7, <2>1, <2>2, CongSub
<1>9. R1_ - L1 = tg - de1
  <2>1. (((d * k + r) + t) * G - d * H) - (((r * G + r) + k * d) - ((d * k + r) + t))
          = t * (G + 1) - d * (H - k * G)
    OBVIOUS
  <2> QED BY <1>1, <1>2, <1>4, <1>5, <1>7, <2>1
<1>10. Cong(L1, R1_) <=> Cong(R1_ - L1, 0)
  BY CongZero
<1>11. Cong(L, R) <=> Cong(L1, R1_)
  BY <1>3, <1>6 DEF Cong
<1>12. Cong(L, R) <=> Cong(tg - de, 0)
  BY <1>8, <1>9, <1>10, <1>11 DEF Cong
<1> QED BY <1>1, <1>2, <1>5, <1>7, <1>12

\* The weighted errors.
Errors == Dot(chal.a, [i \in Idx |-> (h[i] - s * g[i]) % Q])

LEMMA ErrorsSum ==
  ASSUME IsFiniteSet(Idx), g \in Vectors, h \in Vectors, s \in Field, chal.a \in Vectors
  PROVE  Cong(Errors, Dot(chal.a, h) - s * Dot(chal.a, g)) /\ Errors \in Int
<1>0. Field \subseteq Int
  BY QFacts DEF Field
<1>1. g \in [Idx -> Int] /\ h \in [Idx -> Int] /\ chal.a \in [Idx -> Int] /\ s \in Int
  BY <1>0 DEF Vectors
<1>2. ASSUME NEW i \in Idx
      PROVE  Mod(h[i] - s * g[i]) \in Int /\ Cong(Mod(h[i] - s * g[i]), h[i] - s * g[i])
  <2>1. PICK y \in Int : y = h[i] - s * g[i]
    BY <1>1
  <2> QED BY <2>1, Remainder, CongMod
<1>3. PICK e \in [Idx -> Int] : e = [i \in Idx |-> Mod(h[i] - s * g[i])]
  BY <1>2
<1>4. PICK A \in [Idx -> Int] : A = chal.a
  BY <1>1
<1>5. Errors = Dot(A, e)
  BY <1>3, <1>4 DEF Errors, Mod, Rem
<1>6. PICK u \in [Idx -> Int] : u = [i \in Idx |-> A[i] * e[i]]
  <2>1. [i \in Idx |-> A[i] * e[i]] \in [Idx -> Int]
    OBVIOUS
  <2> QED BY <2>1
<1>7. PICK v \in [Idx -> Int] : v = [i \in Idx |-> A[i] * h[i]]
  <2>1. [i \in Idx |-> A[i] * h[i]] \in [Idx -> Int]
    BY <1>1
  <2> QED BY <2>1
<1>8. PICK w \in [Idx -> Int] : w = [i \in Idx |-> A[i] * g[i]]
  <2>1. [i \in Idx |-> A[i] * g[i]] \in [Idx -> Int]
    BY <1>1
  <2> QED BY <2>1
<1>9. DOMAIN A = Idx /\ Dot(A, e) = Sum(u) /\ Dot(A, h) = Sum(v) /\ Dot(A, g) = Sum(w)
  BY <1>6, <1>7, <1>8 DEF Dot
<1>10. PICK o, n \in Int : o = 1 /\ n = -s
  BY <1>1
<1>11. ASSUME NEW i \in Idx PROVE Cong(u[i], o * v[i] + n * w[i])
  <2>1. h[i] \in Int /\ g[i] \in Int /\ A[i] \in Int /\ e[i] \in Int
    BY <1>1
  <2>2. PICK y \in Int : y = h[i] - s * g[i]
    BY <1>1, <2>1
  <2>3. Cong(e[i], y)
    BY <1>2, <1>3, <2>2
  <2>4. Cong(A[i] * e[i], A[i] * y)
    BY <2>1, <2>3, CongScale
  <2>5. A[i] * y = o * (A[i] * h[i]) + n * (A[i] * g[i])
    <3>1. A[i] * (h[i] - s * g[i]) = 1 * (A[i] * h[i]) + (-s) * (A[i] * g[i])
      BY <1>1, <2>1
    <3> QED BY <1>10, <2>2, <3>1
  <2>6. u[i] = A[i] * e[i] /\ v[i] = A[i] * h[i] /\ w[i] = A[i] * g[i]
    BY <1>6, <1>7, <1>8
  <2> QED BY <2>4, <2>5, <2>6
<1>12. Cong(Sum(u), o * Sum(v) + n * Sum(w)) /\ Sum(u) \in Int /\ Sum(v) \in Int /\ Sum(w) \in Int
  BY <1>11, SumLinear, SumType
<1>13. o * Sum(v) + n * Sum(w) = Sum(v) - s * Sum(w)
  BY <1>1, <1>10, <1>12
<1> QED BY <1>4, <1>5, <1>9, <1>12, <1>13

\* batched_ddh_verify accepts exactly if the errors cancel, for every number of
\* entries, none included, every field and every draw.
THEOREM BatchJudgedByErrors == Spec => []BatchAcceptsExactly
<1>1. SInv => BatchAcceptsExactly
  <2> SUFFICES ASSUME SInv, stage = "over", kind = "ddh" PROVE BatchAcceptsExactly
    BY DEF BatchAcceptsExactly, Judged
  <2> DEFINE G == Dot(chal.a, g)
             H == Dot(chal.a, h)
             off == IF tampered THEN G + 1 ELSE 0
  <2>0. Field \subseteq Int
    BY QFacts DEF Field
  <2>1. /\ IsFiniteSet(Idx) /\ g \in Vectors /\ h \in Vectors /\ s \in Field
        /\ chal.a \in Vectors /\ chal.delta \in Field /\ tampered \in BOOLEAN
    BY ShuffleAssumption DEF SInv, Batched, BatchDrawn
  <2>2. /\ g \in [Idx -> Int] /\ h \in [Idx -> Int] /\ chal.a \in [Idx -> Int]
        /\ s \in Int /\ chal.delta \in Int
    BY <2>0, <2>1 DEF Vectors
  <2>3. PICK r \in Nonces : proof = IF tampered THEN [BatchProof(r) EXCEPT !.z = Inc(@)]
                                                ELSE BatchProof(r)
    BY DEF SInv
  <2>4. r \in Int
    BY <2>0, ShuffleAssumption
  <2>5. PICK z0 \in Int : z0 = chal.delta * s + r
    BY <2>2, <2>4
  <2>6. BatchProof(r) = [c |-> Mod(Dot(Scale(r, chal.a), g) + r), z |-> Mod(z0)]
    BY <2>5 DEF BatchProof, batched_ddh_prove, Mod, Rem
  <2>7. proof.c = Mod(Dot(Scale(r, chal.a), g) + r)
        /\ proof.z = IF tampered THEN Inc(Mod(z0)) ELSE Mod(z0)
    BY <2>1, <2>3, <2>6
  <2>8. G \in Int /\ H \in Int
    BY <2>1, <2>2, DotType
  <2>9. proof.c \in Int /\ Cong(proof.c, r * G + r)
    <3>1. PICK rg \in Int : rg = Dot(Scale(r, chal.a), g)
      BY <2>1, <2>2, <2>4, DotScale
    <3>2. Cong(rg, r * G)
      BY <2>1, <2>2, <2>4, <3>1, DotScale
    <3>3. PICK x, y \in Int : x = r * G /\ y = rg + r
      BY <2>4, <2>8
    <3>4. Cong(y, x + r)
      BY <2>4, <3>2, <3>3, CongScale
    <3>5. proof.c = Mod(y)
      BY <2>7, <3>1, <3>3
    <3>6. proof.c \in Int /\ Cong(proof.c, y)
      BY <3>5, CongMod, Remainder
    <3> QED BY <3>3, <3>4, <3>6 DEF Cong
  <2>10. PICK t \in Int : t = IF tampered THEN 1 ELSE 0
    OBVIOUS
  <2>11. proof.z \in Int /\ Cong(proof.z, z0 + t)
    <3>1. Mod(z0) \in Int /\ Cong(Mod(z0), z0)
      BY Remainder, CongMod
    <3>2. CASE tampered
      <4>1. Inc(Mod(z0)) \in Int /\ Cong(Inc(Mod(z0)), Mod(z0) + 1)
        BY <3>1, OffByOne
      <4>2. Cong(Mod(z0) + 1, z0 + 1)
        <5>1. PICK o \in Int : o = 1
          OBVIOUS
        <5>2. Cong(Mod(z0) + o, z0 + o)
          BY <3>1, CongScale
        <5> QED BY <5>1, <5>2
      <4> QED BY <2>7, <2>10, <3>2, <4>1, <4>2 DEF Cong
    <3>3. CASE ~tampered
      <4>1. z0 + 0 = z0
        OBVIOUS
      <4> QED BY <2>7, <2>10, <3>1, <3>3, <4>1
    <3> QED BY <3>2, <3>3
  <2>12. PICK zg \in Int : zg = Dot(Scale(proof.z, chal.a), g)
    BY <2>1, <2>2, <2>11, DotScale
  <2>13. Cong(zg, proof.z * G)
    BY <2>1, <2>2, <2>11, <2>12, DotScale
  <2>14. PICK dh \in Int : dh = Dot(Scale(chal.delta, chal.a), h)
    BY <2>1, <2>2, DotScale
  <2>15. Cong(dh, chal.delta * H)
    BY <2>1, <2>2, <2>14, DotScale
  <2>16. Cong(Errors, H - s * G) /\ Errors \in Int
    BY <2>1, ErrorsSum
  <2>17. verdict.batch <=> Cong((proof.c + s * chal.delta) - proof.z, zg - dh)
    <3>1. verdict.batch = batched_ddh_verify(proof, g, h, s, chal.a, chal.delta)
      BY DEF SInv
    <3>2. batched_ddh_verify(proof, g, h, s, chal.a, chal.delta)
            <=> (proof.c + s * chal.delta - proof.z) % Q = (zg - dh) % Q
      BY <2>12, <2>14 DEF batched_ddh_verify
    <3>3. verdict.batch <=> (proof.c + s * chal.delta - proof.z) % Q = (zg - dh) % Q
      BY <3>1, <3>2
    <3>4. PICK l, m \in Int : l = (proof.c + s * chal.delta) - proof.z /\ m = zg - dh
      BY <2>2, <2>9, <2>11
    <3>5. l % Q = Mod(l) /\ m % Q = Mod(m)
      BY DEF Mod, Rem
    <3>6. l % Q = m % Q <=> Cong(l, m)
      BY <3>5 DEF Cong
    <3>7. verdict.batch <=> l % Q = m % Q
      BY <3>3, <3>4, <2>2, <2>9, <2>11, QFacts
    <3> QED BY <3>4, <3>6, <3>7
  <2>18. PICK G1, H1 \in Int : G1 = G /\ H1 = H
    BY <2>8
  <2> HIDE DEF G, H
  <2>19. verdict.batch <=> Cong(t * (G1 + 1) - chal.delta * Errors, 0)
    <3>1. Cong((proof.c + s * chal.delta) - proof.z, zg - dh)
            <=> Cong(t * (G1 + 1) - chal.delta * Errors, 0)
      <4>1. Cong(proof.z, (chal.delta * s + r) + t)
        BY <2>5, <2>11
      <4>2. PICK k, d, c, z, E \in Int : /\ k = s /\ d = chal.delta /\ c = proof.c /\ z = proof.z
                                         /\ E = Errors
        BY <2>2, <2>9, <2>11, <2>16
      <4>3. /\ Cong(c, r * G1 + r) /\ Cong(z, (d * k + r) + t) /\ Cong(zg, z * G1)
            /\ Cong(dh, d * H1) /\ Cong(E, H1 - k * G1)
        BY <2>9, <2>13, <2>15, <2>16, <2>18, <4>1, <4>2
      <4>4. Cong((c + k * d) - z, zg - dh) <=> Cong(t * (G1 + 1) - d * E, 0)
        BY <2>4, <4>3, BatchEquation
      <4> QED BY <4>2, <4>4
    <3> QED BY <2>17, <3>1
  <2>20. t * (G1 + 1) = off
    BY <2>1, <2>10, <2>18
  <2>21. Mod(0) = 0
    <3>1. 0 \in Field
      BY QFacts DEF Field
    <3> QED BY <3>1, RemainderOfField
  <2>22. verdict.batch <=> (off - chal.delta * Errors) % Q = 0
    BY <2>19, <2>20, <2>21 DEF Cong, Mod, Rem
  <2> QED BY <2>22 DEF BatchAcceptsExactly, Errors, G
<1> QED BY <1>1, ProofStages, PTL

-----------------------------------------------------------------------------
(* The product the verifiers recompute. *)

\* What is needed of a fold: the element that goes last may be any.
Steps(f, o, v, D) ==
  /\ f[{}] = Unit(o)
  /\ \A t \in SUBSET D :
       f[t] \in Field /\ f[t] \in Int /\ \A x \in t : f[t] = Op(o, v[x], f[t \ {x}])

LEMMA FoldSteps ==
  ASSUME NEW D, IsFiniteSet(D), NEW o, NEW v \in [D -> Int], NEW f, Folds(f, o, v, D)
  PROVE  Steps(f, o, v, D)
<1>1. PICK t \in SUBSET D : t = {}
  OBVIOUS
<1>2. f[t] = IF t = {} THEN Unit(o) ELSE Op(o, v[Pick(t)], f[t \ {Pick(t)}])
  BY FoldValue
<1>3. f[{}] = Unit(o)
  BY <1>1, <1>2
<1>4. \A r \in SUBSET D : f[r] \in Field /\ f[r] \in Int
  BY FoldType
<1>5. \A r \in SUBSET D : \A x \in r : f[r] = Op(o, v[x], f[r \ {x}])
  <2>1. \A r : r \in SUBSET D => \A x : x \in r => f[r] = Op(o, v[x], f[r \ {x}])
    BY FoldRemove, Z3
  <2> QED BY <2>1
<1> QED BY <1>3, <1>4, <1>5 DEF Steps

LEMMA ProdSteps ==
  ASSUME NEW D, IsFiniteSet(D), NEW v \in [D -> Int]
  PROVE  \E f : Steps(f, "prod", v, D) /\ Prod(v) = f[D]
<1>1. DOMAIN v = D
  OBVIOUS
<1>2. PICK f : Folds(f, "prod", v, D) /\ Prod(v) = f[D]
  BY <1>1, ProdFolds
<1> QED BY <1>2, FoldSteps

LEMMA SumSteps ==
  ASSUME NEW D, IsFiniteSet(D), NEW v \in [D -> Int]
  PROVE  \E f : Steps(f, "sum", v, D) /\ Sum(v) = f[D]
<1>1. DOMAIN v = D
  OBVIOUS
<1>2. PICK f : Folds(f, "sum", v, D) /\ Sum(v) = f[D]
  BY <1>1, SumFolds
<1> QED BY <1>2, FoldSteps

\* A running product ends in the product.
LEMMA ProdRunning ==
  ASSUME N \in Nat, N >= 1, Idx = 0..(N - 1), NEW c \in [Idx -> Int], NEW a, Running(a, c)
  PROVE  Prod(c) = a[N - 1] /\ Prod(c) \in Field
<1>1. IsFiniteSet(Idx) /\ DOMAIN c = Idx
  BY FS_Interval
<1>2. PICK f : Steps(f, "prod", c, Idx) /\ Prod(c) = f[Idx]
  BY <1>1, ProdSteps
<1>3. \A t \in SUBSET Idx : f[t] \in Field
  BY <1>2 DEF Steps
<1>4. \A t \in SUBSET Idx : \A x \in t : f[t] = Op("prod", c[x], f[t \ {x}])
  BY <1>2 DEF Steps
<1> DEFINE Bad == {i \in Idx : f[0..i] # a[i]}
<1>5. ASSUME Bad # {} PROVE FALSE
  <2>1. PICK i \in Bad : \A k \in Bad : i <= k
    <3>1. Bad \in SUBSET Nat
      OBVIOUS
    <3> HIDE DEF Bad
    <3> QED BY <1>5, <3>1, Least
  <2>2. i \in Nat /\ 0..i \in SUBSET Idx /\ i \in 0..i /\ (0..i) \ {i} = 0..(i - 1)
    OBVIOUS
  <2>3. f[0..i] = Op("prod", c[i], f[0..(i - 1)])
    <3>1. f[0..i] = Op("prod", c[i], f[(0..i) \ {i}])
      BY <1>4, <2>2
    <3> QED BY <2>2, <3>1
  <2>4. f[0..i] = Mod(c[i] * f[0..(i - 1)])
    BY <2>3 DEF Op
  <2>5. a[i] = Mod(c[i] * IF i = 0 THEN 1 ELSE a[i - 1])
    BY DEF Running, Mod, Rem
  <2>6. CASE i = 0
    <3>1. 0..(i - 1) = {} /\ {} \in SUBSET Idx
      BY <2>6
    <3>2. f[{}] = 1
      BY <1>2 DEF Steps, Unit
    <3>3. f[0..(i - 1)] = 1
      BY <3>1, <3>2
    <3> QED BY <2>1, <2>4, <2>5, <2>6, <3>3
  <2>7. CASE i # 0
    <3>1. i - 1 \in Idx /\ ~(i <= i - 1)
      BY <2>7
    <3>2. f[0..(i - 1)] = a[i - 1]
      BY <2>1, <3>1
    <3> QED BY <2>1, <2>4, <2>5, <2>7, <3>2
  <2> QED BY <2>6, <2>7
<1>6. N - 1 \in Idx /\ Idx \in SUBSET Idx
  OBVIOUS
<1> QED BY <1>2, <1>3, <1>5, <1>6

\* One step of Recomputed.
Step(F, psi, x, e, i) ==
  IF i = 0 THEN (psi.f[0] - e * x) % Q
  ELSE ((F[i - 1] * (psi.f[i] - e * x) + psi.f_delta[i - 1]) * invert(e)) % Q

\* What takes these steps is the recomputed product.
LEMMA RecomputedIs ==
  ASSUME N \in Nat, Idx = 0..(N - 1), NEW psi, NEW x, NEW e, NEW C, DOMAIN C = Idx,
         \A i \in Idx : C[i] = Step(C, psi, x, e, i), C = [i \in Idx |-> C[i]]
  PROVE  \A i \in Idx : Recomputed(psi, x, e)[i] = C[i]
<1>1. C = [i \in Idx |-> IF i = 0 THEN (psi.f[0] - e * x) % Q
                         ELSE ((C[i - 1] * (psi.f[i] - e * x) + psi.f_delta[i - 1]) * invert(e)) % Q]
  BY DEF Step
<1>2. \E F : F = [i \in Idx |-> IF i = 0 THEN (psi.f[0] - e * x) % Q
                         ELSE ((F[i - 1] * (psi.f[i] - e * x) + psi.f_delta[i - 1]) * invert(e)) % Q]
  BY <1>1
<1>3. PICK F : F = Recomputed(psi, x, e)
  OBVIOUS
<1>4. F = [i \in Idx |-> IF i = 0 THEN (psi.f[0] - e * x) % Q
                         ELSE ((F[i - 1] * (psi.f[i] - e * x) + psi.f_delta[i - 1]) * invert(e)) % Q]
  BY <1>2, <1>3 DEF Recomputed
<1>5. ASSUME NEW i \in Idx PROVE F[i] = Step(F, psi, x, e, i)
  BY <1>4 DEF Step
<1> DEFINE Bad == {i \in Idx : F[i] # C[i]}
<1>6. ASSUME Bad # {} PROVE FALSE
  <2>1. PICK i \in Bad : \A k \in Bad : i <= k
    <3>1. Bad \in SUBSET Nat
      OBVIOUS
    <3> HIDE DEF Bad
    <3> QED BY <1>6, <3>1, Least
  <2>2. i # 0 => F[i - 1] = C[i - 1]
    <3>1. i # 0 => i - 1 \in Idx /\ ~(i <= i - 1)
      OBVIOUS
    <3> QED BY <2>1, <3>1
  <2>3. Step(F, psi, x, e, i) = Step(C, psi, x, e, i)
    BY <2>2 DEF Step
  <2> QED BY <1>5, <2>1, <2>3
<1> QED BY <1>3, <1>6

LEMMA Inverse1 ==
  ASSUME NEW e \in Field \ {0}
  PROVE  invert(e) \in Int /\ Cong(e * invert(e), 1)
<1>1. e % Q # 0
  <2>1. Mod(e) = e
    BY RemainderOfField
  <2> QED BY <2>1 DEF Mod, Rem
<1>2. \E b \in Field : (e * b) % Q = 1
  BY FieldAssumption
<1>3. invert(e) = CHOOSE b \in Field : (e * b) % Q = 1
  BY <1>1 DEF invert
<1>4. invert(e) \in Field /\ (e * invert(e)) % Q = 1
  BY <1>2, <1>3
<1>5. Mod(e * invert(e)) = 1
  BY <1>4 DEF Mod, Rem
<1>6. 1 \in Field
  BY QFacts DEF Field
<1>7. Mod(1) = 1 /\ invert(e) \in Int
  BY <1>4, <1>6, RemainderOfField
<1> QED BY <1>5, <1>7 DEF Cong

\* The algebra of one step: with C1 the value before it, p the response less
\* e times x and q the correction, the blinding terms cancel.
LEMMA StepAlgebra ==
  ASSUME NEW e \in Int, NEW y \in Int, NEW c \in Int, NEW d \in Int, NEW l1 \in Int, NEW l \in Int,
         NEW a1 \in Int, NEW a \in Int, NEW C1 \in Int, NEW p \in Int, NEW q \in Int,
         Cong(e * y, 1), Cong(a, c * a1), Cong(C1, e * a1 + l1), Cong(p, e * c + d),
         Cong(q, e * ((l - c * l1) - a1 * d) + (-(l1 * d)))
  PROVE  Cong((C1 * p + q) * y, e * a + l)
<1>1. PICK C2, p2, q2 \in Int :
        C2 = e * a1 + l1 /\ p2 = e * c + d /\ q2 = e * ((l - c * l1) - a1 * d) + (-(l1 * d))
  OBVIOUS
<1>2. PICK cp, cp2 \in Int : cp = C1 * p /\ cp2 = C2 * p2
  OBVIOUS
<1>3. Cong(cp, cp2)
  BY <1>1, <1>2, CongMul
<1>4. PICK b, b2 \in Int : b = cp + q /\ b2 = cp2 + q2
  OBVIOUS
<1>5. Cong(b, b2)
  <2>1. Cong(q, q2)
    BY <1>1
  <2> QED BY <1>3, <1>4, <2>1, CongAdd
<1>6. Cong(b * y, b2 * y)
  BY <1>5, CongScale
<1>7. PICK w, ca, ey, o \in Int : w = e * ca + l /\ ca = c * a1 /\ ey = e * y /\ o = 1
  <2>1. PICK ca \in Int : ca = c * a1
    OBVIOUS
  <2>2. e * ca + l \in Int /\ e * y \in Int /\ 1 \in Int
    OBVIOUS
  <2> QED BY <2>1, <2>2
<1>8. b2 * y = ey * w
  <2>1. ((e * a1 + l1) * (e * c + d) + (e * ((l - c * l1) - a1 * d) + (-(l1 * d)))) * y
          = (e * y) * (e * (c * a1) + l)
    OBVIOUS
  <2> QED BY <1>1, <1>2, <1>4, <1>7, <2>1
<1>9. Cong(ey * w, w)
  <2>1. Cong(ey, o)
    BY <1>7
  <2>2. Cong(ey * w, o * w)
    BY <2>1, CongScale
  <2>3. o * w = w
    BY <1>7
  <2> QED BY <2>2, <2>3
<1>10. Cong(w, e * a + l)
  <2>1. Cong(a, ca)
    BY <1>7
  <2>2. PICK ea, eca \in Int : ea = e * a /\ eca = e * ca
    OBVIOUS
  <2>3. Cong(ea, eca)
    BY <2>1, <2>2, CongScale
  <2>4. Cong(ea + l, eca + l)
    BY <2>3, CongScale
  <2> QED BY <1>7, <2>2, <2>4 DEF Cong
<1> QED BY <1>2, <1>4, <1>6, <1>8, <1>9, <1>10 DEF Cong

\* The first entry of delta opens the chain, the last one closes it; with one
\* entry they would be the same.
LEMMA Delta ==
  ASSUME Setting, N >= 2
  PROVE  K.delta[0] = K.d[0] /\ K.delta[N - 1] = 0
<1>1. hint.hint2 \in [d : Vectors, delta : Vectors, r_d : Field, r_delta : Field, r_a : Field]
  BY DEF Setting
<1>2. /\ K.d = hint.hint2.d
      /\ K.delta = [i \in Idx |-> IF i = N - 1 THEN 0
                               ELSE IF i = 0 THEN hint.hint2.d[0] ELSE hint.hint2.delta[i]]
  BY <1>1 DEF K, preprocess
<1>3. 0 \in Idx /\ N - 1 \in Idx /\ 0 # N - 1
  BY DEF Setting
<1> QED BY <1>2, <1>3

\* What is multiplied up: the differences of the committed scalars and x.
Diff(i) == z_rho(chal)[pi[i]] - chal.x
A == Products(z_rho(chal), pi, chal.x)

LEMMA DiffRunning ==
  ASSUME Setting
  PROVE  /\ [i \in Idx |-> Diff(i)] \in [Idx -> Int] /\ Running(A, [i \in Idx |-> Diff(i)])
         /\ A \in [Idx -> Field] /\ \A i \in Idx : A[i] \in Int /\ Diff(i) \in Int
<1>0. Field \subseteq Int
  BY QFacts DEF Field
<1>1. ASSUME NEW i \in Idx PROVE Diff(i) \in Int
  <2>1. pi[i] \in Idx /\ chal.x \in Int
    BY SettingInts DEF Setting
  <2>2. z_rho(chal)[pi[i]] \in Int
    BY <2>1, SettingInts
  <2> QED BY <2>1, <2>2 DEF Diff
<1>2. Running(A, [i \in Idx |-> Diff(i)])
  BY ProductsRunning DEF Setting, A, Diff
<1>3. A \in [Idx -> Field]
  BY SettingTypes DEF A, Vectors
<1> QED BY <1>0, <1>1, <1>2, <1>3

\* What each entry of the recomputed product is for an honest proof.
Chain == [i \in Idx |-> Mod(chal.e * A[i] + K.delta[i])]

LEMMA ChainInts ==
  ASSUME Setting, NEW i \in Idx
  PROVE  /\ Chain[i] \in Int /\ Cong(Chain[i], chal.e * A[i] + K.delta[i])
         /\ chal.e * A[i] + K.delta[i] \in Int
<1>1. chal.e \in Int /\ A[i] \in Int /\ K.delta[i] \in Int
  BY SettingInts, DiffRunning
<1>2. PICK y \in Int : y = chal.e * A[i] + K.delta[i]
  BY <1>1
<1>3. Chain[i] = Mod(y)
  BY <1>2 DEF Chain
<1> QED BY <1>2, <1>3, CongMod, Remainder

\* The response f[i] less e times x.
LEMMA ResponseLess ==
  ASSUME Setting, NEW i \in Idx
  PROVE  /\ Cong(Honest.psi.f[i] - chal.e * chal.x, chal.e * Diff(i) + K.d[i])
         /\ Honest.psi.f[i] - chal.e * chal.x \in Int
<1>1. /\ chal.e \in Int /\ chal.x \in Int /\ K.d[i] \in Int /\ Diff(i) \in Int /\ pi[i] \in Idx
  BY SettingInts, DiffRunning DEF Setting
<1>2. z_rho(chal)[pi[i]] \in Int
  BY <1>1, SettingInts
<1>3. PICK m \in Int : m = z_rho(chal)[pi[i]]
  BY <1>2
<1>4. PICK y, ex \in Int : y = chal.e * m + K.d[i] /\ ex = chal.e * chal.x
  BY <1>1
<1>5. Honest.psi.f[i] = Mod(y)
  <2>1. Honest.psi.f[i] = (chal.e * z_rho(chal)[pi[i]] + K.d[i]) % Q
    BY HonestFields
  <2> QED BY <1>3, <1>4, <2>1 DEF Mod, Rem
<1>6. Mod(y) \in Int /\ Cong(Mod(y), y) /\ Cong(ex, ex)
  BY Remainder, CongMod DEF Cong
<1>7. Cong(Mod(y) - ex, y - ex)
  BY <1>6, CongSub
<1>8. y - ex = chal.e * Diff(i) + K.d[i]
  <2>1. (chal.e * m + K.d[i]) - chal.e * chal.x = chal.e * (m - chal.x) + K.d[i]
    BY <1>1
  <2> QED BY <1>3, <1>4, <2>1 DEF Diff
<1> QED BY <1>4, <1>5, <1>6, <1>7, <1>8

\* The correction f_delta[i - 1].
LEMMA CorrectionIs ==
  ASSUME Setting, NEW i \in Idx, i # 0
  PROVE  /\ Honest.psi.f_delta[i - 1] \in Int
         /\ Cong(Honest.psi.f_delta[i - 1],
                 chal.e * ((K.delta[i] - Diff(i) * K.delta[i - 1]) - A[i - 1] * K.d[i])
                   + (-(K.delta[i - 1] * K.d[i])))
<1>1. i - 1 \in Idx /\ ~Last(i - 1) /\ i \in Int /\ (i - 1) + 1 = i
  BY DEF Setting, Last
<1>2. /\ chal.e \in Int /\ K.delta[i] \in Int /\ K.delta[i - 1] \in Int /\ K.d[i] \in Int
      /\ Diff(i) \in Int /\ A[i - 1] \in Int
  BY <1>1, SettingInts, DiffRunning
<1>3. PICK j \in Idx : j = i - 1
  BY <1>1
<1>4. PICK b, t \in Int : /\ b = (K.delta[i] - Diff(i) * K.delta[j]) - A[j] * K.d[i]
                          /\ t = -(K.delta[j] * K.d[i])
  BY <1>2, <1>3
<1>5. Da[j] = Mod(b)
  <2>1. Da[j] = (K.delta[j + 1] - (z_rho(chal)[pi[j + 1]] - chal.x) * K.delta[j]
                   - Products(z_rho(chal), pi, chal.x)[j] * K.d[j + 1]) % Q
    BY <1>1, <1>3 DEF Da, a2
  <2>2. j + 1 = i
    BY <1>1, <1>3
  <2> QED BY <1>4, <2>1, <2>2 DEF Diff, A, Mod, Rem
<1>6. d2(K)[j] = t
  <2>1. d2(K)[j] = -(K.delta[j] * K.d[j + 1])
    BY <1>1, <1>3 DEF d2
  <2> QED BY <1>1, <1>3, <1>4, <2>1
<1>7. Honest.psi.f_delta[j] = Mod(chal.e * Mod(b) + t)
  <2>1. Honest.psi.f_delta[j] = (chal.e * Da[j] + d2(K)[j]) % Q
    BY <1>1, <1>3, HonestFields
  <2> QED BY <1>5, <1>6, <2>1 DEF Mod, Rem
<1>8. Mod(b) \in Int /\ Cong(Mod(b), b)
  BY Remainder, CongMod
<1>9. PICK eb, eb1, y \in Int : eb = chal.e * b /\ eb1 = chal.e * Mod(b) /\ y = eb1 + t
  <2>1. PICK eb, eb1 \in Int : eb = chal.e * b /\ eb1 = chal.e * Mod(b)
    BY <1>2, <1>8
  <2>2. eb1 + t \in Int
    OBVIOUS
  <2> QED BY <2>1, <2>2
<1>10. Cong(eb1, eb)
  BY <1>2, <1>8, <1>9, CongScale
<1>11. Cong(y, eb + t)
  BY <1>9, <1>10, CongScale
<1>12. Honest.psi.f_delta[j] = Mod(y)
  BY <1>7, <1>9
<1>13. Honest.psi.f_delta[j] \in Int /\ Cong(Honest.psi.f_delta[j], y)
  BY <1>12, Remainder, CongMod
<1>14. Cong(Honest.psi.f_delta[j], eb + t)
  BY <1>11, <1>13 DEF Cong
<1> QED BY <1>3, <1>4, <1>9, <1>13, <1>14

\* An honest proof is recomputed to e times the product of the differences.
LEMMA HonestRecomputed ==
  ASSUME Setting, N >= 2
  PROVE  Recomputed(Honest.psi, chal.x, chal.e)[N - 1] = Mod(chal.e * A[N - 1])
<1>1. N \in Nat /\ Idx = 0..(N - 1) /\ N - 1 \in Idx /\ 0 \in Idx
  BY DEF Setting
<1>2. ASSUME NEW i \in Idx PROVE Chain[i] = Step(Chain, Honest.psi, chal.x, chal.e, i)
  <2>1. PICK p \in Int : p = Honest.psi.f[i] - chal.e * chal.x
    BY ResponseLess
  <2>2. Cong(p, chal.e * Diff(i) + K.d[i])
    BY <2>1, ResponseLess
  <2>3. A[i] = Mod(Diff(i) * IF i = 0 THEN 1 ELSE A[i - 1])
    <3>1. A = [j \in Idx |-> ([k \in Idx |-> Diff(k)][j] * IF j = 0 THEN 1 ELSE A[j - 1]) % Q]
      BY DiffRunning DEF Running
    <3>2. A[i] = (Diff(i) * IF i = 0 THEN 1 ELSE A[i - 1]) % Q
      BY <3>1
    <3> QED BY <3>2 DEF Mod, Rem
  <2>4. /\ chal.e \in Int /\ Diff(i) \in Int /\ K.d[i] \in Int /\ K.delta[i] \in Int /\ A[i] \in Int
    BY SettingInts, DiffRunning
  <2>5. CASE i = 0
    <3>1. Cong(A[i], Diff(i))
      <4>1. Diff(i) * 1 = Diff(i)
        BY <2>4
      <4> QED BY <2>3, <2>4, <2>5, <4>1, CongMod
    <3>2. PICK ea, ed \in Int : ea = chal.e * A[i] /\ ed = chal.e * Diff(i)
      BY <2>4
    <3>3. Cong(ea, ed)
      BY <2>4, <3>1, <3>2, CongScale
    <3>4. Cong(ea + K.d[i], ed + K.d[i])
      BY <2>4, <3>3, CongScale
    <3>5. K.delta[i] = K.d[i]
      BY <2>5, Delta
    <3>6. Cong(chal.e * A[i] + K.delta[i], p)
      BY <2>2, <3>2, <3>4, <3>5 DEF Cong
    <3>7. Chain[i] = Mod(p)
      BY <3>6 DEF Chain, Cong
    <3>8. Step(Chain, Honest.psi, chal.x, chal.e, i) = Mod(p)
      BY <2>1, <2>5 DEF Step, Mod, Rem
    <3> QED BY <3>7, <3>8
  <2>6. CASE i # 0
    <3>1. i - 1 \in Idx
      BY <1>1, <2>6
    <3>2. PICK C1, a1, l1 \in Int : C1 = Chain[i - 1] /\ a1 = A[i - 1] /\ l1 = K.delta[i - 1]
      BY <3>1, ChainInts, DiffRunning, SettingInts
    <3>3. Cong(C1, chal.e * a1 + l1)
      BY <3>1, <3>2, ChainInts
    <3>4. Cong(A[i], Diff(i) * a1)
      <4>1. A[i] = Mod(Diff(i) * a1) /\ Diff(i) * a1 \in Int
        BY <2>3, <2>4, <2>6, <3>2
      <4> QED BY <4>1, CongMod
    <3>5. PICK q \in Int : q = Honest.psi.f_delta[i - 1]
      BY <2>6, CorrectionIs
    <3>6. Cong(q, chal.e * ((K.delta[i] - Diff(i) * l1) - a1 * K.d[i]) + (-(l1 * K.d[i])))
      BY <2>6, <3>2, <3>5, CorrectionIs
    <3>7. PICK y \in Int : y = invert(chal.e)
      <4>1. chal.e \in Field \ {0}
        BY DEF Setting
      <4> QED BY <4>1, Inverse1
    <3>8. Cong(chal.e * y, 1)
      <4>1. chal.e \in Field \ {0}
        BY DEF Setting
      <4> QED BY <3>7, <4>1, Inverse1
    <3>9. PICK e, c, d, l, a \in Int : e = chal.e /\ c = Diff(i) /\ d = K.d[i] /\ l = K.delta[i] /\ a = A[i]
      BY <2>4
    <3>10. Cong((C1 * p + q) * y, e * a + l)
      <4>1. /\ Cong(e * y, 1) /\ Cong(a, c * a1) /\ Cong(C1, e * a1 + l1) /\ Cong(p, e * c + d)
            /\ Cong(q, e * ((l - c * l1) - a1 * d) + (-(l1 * d)))
        BY <2>2, <3>3, <3>4, <3>6, <3>8, <3>9
      <4> QED BY <4>1, StepAlgebra
    <3>11. Chain[i] = Mod(e * a + l)
      BY <3>9 DEF Chain
    <3>12. Step(Chain, Honest.psi, chal.x, chal.e, i) = Mod((C1 * p + q) * y)
      BY <2>1, <2>6, <3>2, <3>5, <3>7 DEF Step, Mod, Rem
    <3> QED BY <3>10, <3>11, <3>12 DEF Cong
  <2> QED BY <2>5, <2>6
<1>3. DOMAIN Chain = Idx /\ Chain = [i \in Idx |-> Chain[i]]
  BY DEF Chain
<1>4. Recomputed(Honest.psi, chal.x, chal.e)[N - 1] = Chain[N - 1]
  BY <1>1, <1>2, <1>3, RecomputedIs
<1>5. Chain[N - 1] = Mod(chal.e * A[N - 1])
  <2>0. chal.e \in Int /\ A[N - 1] \in Int
    BY <1>1, SettingInts, DiffRunning
  <2>1. chal.e * A[N - 1] + 0 = chal.e * A[N - 1]
    BY <2>0
  <2> QED BY <1>1, <2>1, Delta DEF Chain
<1> QED BY <1>4, <1>5

-----------------------------------------------------------------------------
(* What an honest proof is accepted for. *)

\* The products of the two sides of the known-content argument.
Committed == Prod([i \in Idx |-> z_rho(chal)[pi[i]] - chal.x])
Public == Prod([i \in Idx |-> z_rho(chal)[i] - chal.x])

LEMMA ProductMatchesMeans ==
  ASSUME Setting, N >= 2
  PROVE  ProductMatches(Honest.psi, z_rho(chal), chal.x, chal.e) <=> Committed = Public
<1>1. N \in Nat /\ N >= 1 /\ Idx = 0..(N - 1) /\ IsFiniteSet(Idx)
  BY FS_Interval DEF Setting
<1>2. Committed = A[N - 1] /\ Committed \in Field
  <2>1. PICK c \in [Idx -> Int] : c = [i \in Idx |-> Diff(i)]
    BY DiffRunning
  <2>2. Running(A, c)
    BY <2>1, DiffRunning
  <2>3. Prod(c) = A[N - 1] /\ Prod(c) \in Field
    BY <1>1, <2>2, ProdRunning
  <2> QED BY <2>1, <2>3 DEF Committed, Diff
<1>3. Public \in Field
  <2>1. z_rho(chal) \in [Idx -> Int] /\ chal.x \in Int
    BY SettingInts
  <2>2. PICK c \in [Idx -> Int] : c = [i \in Idx |-> z_rho(chal)[i] - chal.x]
    <3>1. [i \in Idx |-> z_rho(chal)[i] - chal.x] \in [Idx -> Int]
      BY <2>1
    <3> QED BY <3>1
  <2>3. PICK f : Steps(f, "prod", c, Idx) /\ Prod(c) = f[Idx]
    BY <1>1, ProdSteps
  <2>4. Prod(c) \in Field
    BY <2>3 DEF Steps
  <2> QED BY <2>2, <2>4 DEF Public
<1>4. ProductMatches(Honest.psi, z_rho(chal), chal.x, chal.e)
        <=> Mod(chal.e * Committed) = Mod(chal.e * Public)
  <2>1. Recomputed(Honest.psi, chal.x, chal.e)[N - 1] = Mod(chal.e * Committed)
    BY <1>2, HonestRecomputed
  <2>2. (chal.e * Public) % Q = Mod(chal.e * Public)
    BY DEF Mod, Rem
  <2> QED BY <2>1, <2>2 DEF ProductMatches, Public
<1>5. PICK e \in Field \ {0} : e = chal.e
  BY DEF Setting
<1>6. Committed \in Int /\ Public \in Int /\ Mod(Committed) = Committed /\ Mod(Public) = Public
  BY <1>2, <1>3, RemainderOfField
<1>7. Cong(e * Committed, e * Public) => Cong(Committed, Public)
  BY <1>6, Cancel
<1> QED BY <1>4, <1>5, <1>6, <1>7 DEF Cong

LEMMA PointsMatchMeans ==
  ASSUME Setting
  PROVE  Honest.g_d = (Dot(Honest.x, g) - Dot(chal.z, h)) % Q
           <=> Dot(chal.z, h) = (s * Dot(ZPi, g)) % Q
<1>0. N \in Nat /\ Idx = 0..(N - 1) /\ IsFiniteSet(Idx)
  BY FS_Interval DEF Setting
<1>1. /\ s \in Int /\ hint.d \in [Idx -> Int] /\ ZPi \in [Idx -> Int] /\ chal.z \in [Idx -> Int]
      /\ g \in [Idx -> Int] /\ h \in [Idx -> Int]
  BY SettingInts
<1>2. ASSUME NEW i \in Idx
      PROVE  Honest.x[i] \in Int /\ Cong(Honest.x[i], s * ZPi[i] + 1 * hint.d[i])
  <2>1. ZPi[i] \in Int /\ hint.d[i] \in Int
    BY <1>1
  <2>2. PICK y \in Int : y = s * ZPi[i] + hint.d[i]
    BY <1>1, <2>1
  <2>3. Honest.x[i] = Mod(y)
    <3>1. Honest.x[i] = (s * chal.z[pi[i]] + hint.d[i]) % Q
      BY HonestFields
    <3>2. ZPi[i] = chal.z[pi[i]]
      BY DEF ZPi
    <3> QED BY <2>2, <3>1, <3>2 DEF Mod, Rem
  <2>4. s * ZPi[i] + 1 * hint.d[i] = y
    BY <2>1, <2>2
  <2> QED BY <2>3, <2>4, CongMod, Remainder
<1>3. PICK x \in [Idx -> Int] : x = Honest.x
  <2>1. Honest.x = [i \in Idx |-> Honest.x[i]]
    BY HonestFields
  <2> QED BY <1>2, <2>1
<1>4. PICK o \in Int : o = 1
  OBVIOUS
<1>5. /\ Dot(x, g) \in Int /\ Dot(ZPi, g) \in Int /\ Dot(hint.d, g) \in Int /\ Dot(chal.z, h) \in Int
      /\ Dot(hint.d, g) \in Field /\ Dot(chal.z, h) \in Field
  BY <1>0, <1>1, DotType
<1>6. Cong(Dot(x, g), s * Dot(ZPi, g) + o * Dot(hint.d, g))
  <2>1. \A i \in Idx : Cong(x[i], s * ZPi[i] + o * hint.d[i])
    BY <1>2, <1>3, <1>4
  <2>2. PICK y \in [Idx -> Int] : y = hint.d
    BY <1>1
  <2>3. PICK w \in [Idx -> Int] : w = ZPi
    BY <1>1
  <2>4. \A i \in Idx : Cong(x[i], s * w[i] + o * y[i])
    BY <2>1, <2>2, <2>3
  <2>5. Cong(Dot(x, g), s * Dot(w, g) + o * Dot(y, g))
    BY <1>0, <1>1, <2>4, DotLinear
  <2> QED BY <2>2, <2>3, <2>5
<1>7. PICK X, D, Z, S \in Int :
        X = Dot(x, g) /\ D = Dot(hint.d, g) /\ Z = Dot(chal.z, h) /\ S = s * Dot(ZPi, g)
  BY <1>1, <1>5
<1>8. Cong(X, S + D)
  <2>1. o * D = D
    BY <1>4
  <2> QED BY <1>6, <1>7, <2>1
<1>9. Honest.g_d = D
  BY <1>7, HonestFields
<1>10. D = Mod(X - Z) <=> Cong(D, X - Z)
  BY <1>5, <1>7, RemainderOfField DEF Cong
<1>11. Cong(X - Z, (S + D) - Z)
  BY <1>8, CongSub DEF Cong
<1>12. Cong(D, (S + D) - Z) <=> Cong(Z, S)
  <2>1. PICK m \in Int : m = D - Z
    OBVIOUS
  <2>2. D = Z + m /\ (S + D) - Z = S + m
    BY <2>1
  <2>3. Cong(Z + m, S + m) <=> Cong(Z, S)
    BY CongShift
  <2> QED BY <2>2, <2>3
<1>13. Cong(Z, S) <=> Z = Mod(S)
  BY <1>5, <1>7, RemainderOfField DEF Cong
<1>14. D = Mod(X - Z) <=> Z = Mod(S)
  BY <1>10, <1>11, <1>12, <1>13 DEF Cong
<1>15. Mod(X - Z) = (X - Z) % Q /\ Mod(S) = S % Q
  BY DEF Mod, Rem
<1> QED BY <1>3, <1>7, <1>9, <1>14, <1>15

LEMMA HonestAccepted ==
  ASSUME Setting, N >= 2, proof = Honest, NEW a1 \in Int, NEW b1 \in Int
  PROVE  verify_shuffle_adapted(a1, b1) <=>
           Committed = Public /\ Dot(chal.z, h) = (s * Dot(ZPi, g)) % Q
<1>1. proof.v = (proof.g_u + s * chal.delta) % Q
  <2>1. s \in Int /\ chal.delta \in Int /\ hint.u \in Int
    BY SettingInts
  <2>2. hint.u + s * chal.delta = s * chal.delta + hint.u
    BY <2>1
  <2> QED BY <2>2, HonestFields
<1>2. CommitmentsMatch(a1, b1)
  BY HonestMatches
<1>3. ProductMatches(proof.psi, z_rho(chal), chal.x, chal.e) <=> Committed = Public
  BY ProductMatchesMeans
<1>4. proof.g_d = (Dot(proof.x, g) - Dot(chal.z, h)) % Q
        <=> Dot(chal.z, h) = (s * Dot(ZPi, g)) % Q
  BY PointsMatchMeans
<1> QED BY <1>1, <1>2, <1>3, <1>4 DEF verify_shuffle_adapted

\* Statements of at least two entries; preprocess does not work for one.
Larger == \A st \in Statements : Cardinality(DOMAIN st.g) >= 2

NInv == kind = "shuffle" => N >= 2

LEMMA InitNInv == Larger /\ Init => NInv
BY DEF Larger, Init, NInv, N, Idx

LEMMA NextNInv == NInv /\ [Next]_vars => NInv'
<1>1. [Next]_vars => statement' = statement
  BY DEF Next, Prove, ProveBatch, Tamper, Verify, VerifyBatch, Over, vars
<1>2. statement' = statement => kind' = kind /\ N' = N
  BY SameStatement
<1> QED BY <1>1, <1>2 DEF NInv

\* The verifier accepts what the prover's code makes of a statement of two
\* entries or more exactly if the map permutes the scalars at the random point
\* and h is g^s in that order at the random weights, whatever the map and the
\* vectors are, for every number of entries and every field.
THEOREM ShuffleJudgedByContent == Larger => (Spec => []AcceptsExactly)
<1>1. SInv /\ NInv => AcceptsExactly
  <2> SUFFICES ASSUME SInv, NInv, stage = "over", kind = "shuffle", ~tampered
               PROVE  AcceptsExactly
    BY DEF AcceptsExactly, Judged
  <2>1. Setting /\ proof = Honest /\ N >= 2
    BY DEF SInv, NInv
  <2>2. PICK alpha1, alpha2 \in Alphas :
          verdict = [adapted |-> verify_shuffle_adapted(alpha1, alpha2),
                     known |-> verify_shuffle_known(z_rho(chal), c_rho, proof.psi,
                                                    chal.x, chal.e, alpha1)]
    BY DEF SInv
  <2>3. alpha1 \in Int /\ alpha2 \in Int
    BY ShuffleAssumption, QFacts DEF Field
  <2>4. verdict.adapted <=> verify_shuffle_adapted(alpha1, alpha2)
    BY <2>2
  <2>5. verify_shuffle_adapted(alpha1, alpha2) <=>
           Committed = Public /\ Dot(chal.z, h) = (s * Dot(ZPi, g)) % Q
    BY <2>1, <2>3, HonestAccepted
  <2> QED BY <2>4, <2>5 DEF AcceptsExactly, Committed, Public, ZPi
<1>2. Larger /\ Spec => []NInv
  BY InitNInv, NextNInv, PTL DEF Spec
<1> QED BY <1>1, <1>2, ProofStages, PTL

-----------------------------------------------------------------------------
(* A true statement: a fold does not depend on the order of the vector. *)

Im(p, t) == {p[i] : i \in t}

LEMMA Reindexed ==
  ASSUME NEW D, IsFiniteSet(D), NEW p \in [D -> D],
         \A i \in D : \A j \in D : p[i] = p[j] => i = j,
         NEW v \in [D -> Int], NEW w \in [D -> Int], \A i \in D : w[i] = v[p[i]],
         NEW o, NEW f, NEW e, Steps(f, o, v, D), Steps(e, o, w, D)
  PROVE  e[D] = f[Im(p, D)]
<1> DEFINE B == {t \in SUBSET D : e[t] # f[Im(p, t)]}
<1>1. ASSUME B # {} PROVE FALSE
  <2>1. B \subseteq SUBSET D
    OBVIOUS
  <2>2. PICK t \in B : \A r \in SUBSET D : Cardinality(r) < Cardinality(t) => r \notin B
    <3> HIDE DEF B
    <3> QED BY <1>1, <2>1, FewestElements
  <2>3. CASE t = {}
    <3>1. Im(p, t) = {}
      BY <2>3 DEF Im
    <3>2. e[{}] = f[{}]
      BY DEF Steps
    <3> QED BY <2>2, <2>3, <3>1, <3>2
  <2>4. CASE t # {}
    <3>1. PICK x \in t : TRUE
      BY <2>4
    <3>2. /\ t \ {x} \in SUBSET D
          /\ Cardinality(t) \in Nat /\ Cardinality(t \ {x}) = Cardinality(t) - 1
      BY <2>1, Removed
    <3>3. Cardinality(t \ {x}) < Cardinality(t)
      BY <3>2
    <3>4. PICK r \in SUBSET D : r = t \ {x}
      BY <3>2
    <3>5. e[r] = f[Im(p, r)]
      BY <2>2, <3>3, <3>4
    <3>6. Im(p, t) \in SUBSET D /\ p[x] \in Im(p, t) /\ Im(p, t) \ {p[x]} = Im(p, r)
      BY <2>1, <3>4 DEF Im
    <3>7. PICK y \in Int : y = v[p[x]] /\ y = w[x]
      BY <2>1
    <3> HIDE DEF B
    <3>8. e[t] = Op(o, w[x], e[r])
      BY <2>1, <3>4 DEF Steps
    <3>9. f[Im(p, t)] = Op(o, v[p[x]], f[Im(p, t) \ {p[x]}])
      BY <3>6 DEF Steps
    <3>10. e[t] = f[Im(p, t)]
      BY <3>5, <3>6, <3>7, <3>8, <3>9
    <3> QED BY <2>2, <3>10 DEF B
  <2> QED BY <2>3, <2>4
<1>2. D \in SUBSET D
  OBVIOUS
<1> QED BY <1>1, <1>2

\* A permutation maps onto.
LEMMA PermutesOnto ==
  ASSUME NEW D, NEW p \in Bijection(D, D)
  PROVE  /\ p \in [D -> D] /\ \A i \in D : \A j \in D : p[i] = p[j] => i = j
         /\ Im(p, D) = D
BY DEF Im, Bijection, Injection, Surjection, IsInjective

LEMMA ProdPermuted ==
  ASSUME NEW D, IsFiniteSet(D), NEW p \in Bijection(D, D),
         NEW v \in [D -> Int], NEW w \in [D -> Int], \A i \in D : w[i] = v[p[i]]
  PROVE  Prod(w) = Prod(v)
<1>1. /\ p \in [D -> D] /\ \A i \in D : \A j \in D : p[i] = p[j] => i = j
      /\ Im(p, D) = D
  BY PermutesOnto
<1>2. PICK f : Steps(f, "prod", v, D) /\ Prod(v) = f[D]
  BY ProdSteps
<1>3. PICK e : Steps(e, "prod", w, D) /\ Prod(w) = e[D]
  BY ProdSteps
<1>4. e[D] = f[Im(p, D)]
  BY <1>1, <1>2, <1>3, Reindexed
<1> QED BY <1>1, <1>2, <1>3, <1>4

LEMMA SumPermuted ==
  ASSUME NEW D, IsFiniteSet(D), NEW p \in Bijection(D, D),
         NEW v \in [D -> Int], NEW w \in [D -> Int], \A i \in D : w[i] = v[p[i]]
  PROVE  Sum(w) = Sum(v)
<1>1. /\ p \in [D -> D] /\ \A i \in D : \A j \in D : p[i] = p[j] => i = j
      /\ Im(p, D) = D
  BY PermutesOnto
<1>2. PICK f : Steps(f, "sum", v, D) /\ Sum(v) = f[D]
  BY SumSteps
<1>3. PICK e : Steps(e, "sum", w, D) /\ Sum(w) = e[D]
  BY SumSteps
<1>4. e[D] = f[Im(p, D)]
  BY <1>1, <1>2, <1>3, Reindexed
<1> QED BY <1>1, <1>2, <1>3, <1>4

LEMMA ShuffledHolds ==
  ASSUME Setting, Shuffled
  PROVE  Committed = Public /\ Dot(chal.z, h) = (s * Dot(ZPi, g)) % Q
<1>0. IsFiniteSet(Idx) /\ pi \in Bijection(Idx, Idx) /\ pi \in [Idx -> Idx]
  <2>1. N \in Nat /\ Idx = 0..(N - 1) /\ pi \in [Idx -> Idx]
    BY DEF Setting
  <2>2. IsFiniteSet(Idx)
    BY <2>1, FS_Interval
  <2>3. pi \in Bijection(Idx, Idx)
    BY DEF Shuffled, Perms
  <2> QED BY <2>1, <2>2, <2>3
<1>1. /\ s \in Int /\ chal.x \in Int /\ z_rho(chal) \in [Idx -> Int] /\ ZPi \in [Idx -> Int]
      /\ chal.z \in [Idx -> Int] /\ g \in [Idx -> Int] /\ h \in [Idx -> Int]
  BY SettingInts
<1>2. Committed = Public
  <2>1. PICK v \in [Idx -> Int] : v = [i \in Idx |-> z_rho(chal)[i] - chal.x]
    <3>1. [i \in Idx |-> z_rho(chal)[i] - chal.x] \in [Idx -> Int]
      BY <1>1
    <3> QED BY <3>1
  <2>2. PICK w \in [Idx -> Int] : w = [i \in Idx |-> z_rho(chal)[pi[i]] - chal.x]
    <3>1. [i \in Idx |-> z_rho(chal)[pi[i]] - chal.x] \in [Idx -> Int]
      BY <1>0, <1>1
    <3> QED BY <3>1
  <2>3. ASSUME NEW i \in Idx PROVE w[i] = v[pi[i]]
    BY <1>0, <2>1, <2>2
  <2>4. Prod(w) = Prod(v)
    BY <1>0, <2>3, ProdPermuted
  <2> QED BY <2>1, <2>2, <2>4 DEF Committed, Public
<1>3. PICK v \in [Idx -> Int] : v = [i \in Idx |-> chal.z[i] * h[i]]
  <2>1. [i \in Idx |-> chal.z[i] * h[i]] \in [Idx -> Int]
    BY <1>1
  <2> QED BY <2>1
<1>4. PICK w \in [Idx -> Int] : w = [i \in Idx |-> chal.z[pi[i]] * h[pi[i]]]
  <2>1. [i \in Idx |-> chal.z[pi[i]] * h[pi[i]]] \in [Idx -> Int]
    BY <1>0, <1>1
  <2> QED BY <2>1
<1>5. PICK u \in [Idx -> Int] : u = [i \in Idx |-> ZPi[i] * g[i]]
  <2>1. [i \in Idx |-> ZPi[i] * g[i]] \in [Idx -> Int]
    BY <1>1
  <2> QED BY <2>1
<1>6. Dot(chal.z, h) = Sum(v) /\ Dot(ZPi, g) = Sum(u)
  <2>1. DOMAIN chal.z = Idx /\ DOMAIN ZPi = Idx
    BY <1>1
  <2> QED BY <1>3, <1>5, <2>1 DEF Dot
<1>7. Sum(w) = Sum(v)
  <2>1. ASSUME NEW i \in Idx PROVE w[i] = v[pi[i]]
    BY <1>0, <1>3, <1>4
  <2> QED BY <1>0, <2>1, SumPermuted
<1>8. PICK o \in Int : o = 0
  OBVIOUS
<1>9. ASSUME NEW i \in Idx PROVE Cong(w[i], s * u[i] + o * u[i])
  <2>1. g[i] \in Int /\ ZPi[i] \in Int /\ u[i] = ZPi[i] * g[i]
    BY <1>1, <1>5
  <2>2. PICK y \in Int : y = s * g[i]
    BY <1>1, <2>1
  <2>3. w[i] = ZPi[i] * Mod(y)
    <3>1. h[pi[i]] = (s * g[i]) % Q
      BY DEF Shuffled
    <3>2. h[pi[i]] = Mod(y)
      BY <2>2, <3>1 DEF Mod, Rem
    <3> QED BY <1>4, <3>2 DEF ZPi
  <2>4. Mod(y) \in Int /\ Cong(Mod(y), y)
    BY Remainder, CongMod
  <2>5. Cong(ZPi[i] * Mod(y), ZPi[i] * y)
    BY <2>1, <2>4, CongScale
  <2>6. ZPi[i] * y = s * u[i] + o * u[i]
    <3>1. ZPi[i] * (s * g[i]) = s * (ZPi[i] * g[i]) + 0 * (ZPi[i] * g[i])
      BY <1>1, <2>1
    <3> QED BY <1>8, <2>1, <2>2, <3>1
  <2> QED BY <2>3, <2>5, <2>6
<1>10. Cong(Sum(w), s * Sum(u) + o * Sum(u)) /\ Sum(u) \in Int /\ Sum(v) \in Field
  BY <1>0, <1>1, <1>9, SumLinear, SumType
<1>11. s * Sum(u) + o * Sum(u) = s * Sum(u)
  BY <1>1, <1>8, <1>10
<1>12. Sum(v) = Mod(s * Sum(u))
  BY <1>7, <1>10, <1>11, RemainderOfField DEF Cong
<1>13. Dot(chal.z, h) = (s * Dot(ZPi, g)) % Q
  BY <1>6, <1>12 DEF Mod, Rem
<1> QED BY <1>2, <1>13

\* verify_shuffle_adapted accepts what prove_shuffle_adapted makes of every true
\* statement of two entries or more: test_adapted_shuffle for every number of
\* entries, every permutation, every field and every draw.
THEOREM TrueStatementsPass == Larger => (Spec => []ValidProofVerifies)
<1>1. SInv /\ AcceptsExactly => ValidProofVerifies
  <2> SUFFICES ASSUME SInv, AcceptsExactly, Judged("shuffle"), ~tampered, Shuffled
               PROVE  verdict.adapted
    BY DEF ValidProofVerifies
  <2>1. Setting
    BY DEF SInv, Judged
  <2>2. Committed = Public /\ Dot(chal.z, h) = (s * Dot(ZPi, g)) % Q
    BY <2>1, ShuffledHolds
  <2> QED BY <2>2 DEF AcceptsExactly, Committed, Public, ZPi
<1> QED BY <1>1, ProofStages, ShuffleJudgedByContent, PTL


=============================================================================
