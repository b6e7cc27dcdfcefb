-------------------------- MODULE OTExtensionProofs --------------------------
(***************************************************************************)
(* The transfer extension, for every number of rows, columns, batches and  *)
(* pairs, every group and all generators: the columns of the two ends are  *)
(* correlated, honest ends pass the checks, and what receive returns is    *)
(* what the ideal transfers return.                                        *)
(***************************************************************************)
EXTENDS OTExtension, FiniteSetTheorems, TLAPS

-----------------------------------------------------------------------------
(* The inductive invariant. *)

Types ==
  /\ kos \in BOOLEAN
  /\ secret \in [s : ColumnSet, x : [RowSet -> Scalars]]
  /\ base \in [y : Scalars, S : Nat]
  /\ pos \in [{"S", "R"} -> Nat]
  /\ matrix = [S |-> matrix["S"], R |-> matrix["R"]]
  /\ coin = [S |-> coin.S, R |-> coin.R, com |-> coin.com, toss |-> coin.toss]
  /\ coin.S \in BitSet /\ coin.R \in BitSet
  /\ sent \in Nat
  /\ choice \in [0..(M - 1) -> BitSet]
  /\ results \in Seq([0..(M - 1) -> Nat \X Nat \X BitSet])

\* What the messages mean for the one who reads them.  The sealed seeds: the
\* sender's key opens the seed its bit names.
SeedsSealed(m) ==
  \A j \in RowSet : Open(<<j, (secret.x[j] * base.y) % Order>>, m[j][secret.s[j] + 1])
                      = <<j, secret.s[j]>>

\* The rows: both generators at the position the sender's generators are at.
RowsMasked(u) ==
  /\ matrix["R"] = [j \in RowSet |-> [i \in Cols |-> G(<<j, 0>>, pos["S"] + i)]]
  /\ u = [j \in RowSet |-> [i \in Cols |->
            XorBit(XorBit(G(<<j, 1>>, pos["S"] + i), G(<<j, 0>>, pos["S"] + i)), bits[i])]]

\* The sealed pairs: the receiver's column opens the message it chose.
PairsSealed(y) ==
  \A j \in 0..(M - 1) : Open(<<j, Column(matrix["R"], j)>>, y[j][choice[j] + 1])
                          = Ideal!Plain(sent, j, choice[j])

\* The seeds the sender has once the base transfers are over.
Seeded == seeds = [j \in RowSet |-> <<j, secret.s[j]>>]

\* The bits of a batch: the choices, then padding.
BitsChosen == bits \in [Cols -> BitSet] /\ \A i \in 0..(M - 1) : bits[i] = choice[i]

\* The relation of the two matrices.
Correlated ==
  /\ matrix["R"] \in [RowSet -> [Cols -> BitSet]]
  /\ \A i \in Cols : Column(matrix["S"], i) =
       IF bits[i] = 1 THEN XorCol(Column(matrix["R"], i), secret.s) ELSE Column(matrix["R"], i)

ToSender(m) == net = [S |-> <<m>>, R |-> <<>>]
ToReceiver(m) == net = [S |-> <<>>, R |-> <<m>>]
Silent == net = [S |-> <<>>, R |-> <<>>]
Where(s, r) == pc = [S |-> s, R |-> r]
AfterRows == IF kos THEN "readCom" ELSE "readY"
TCols == [i \in Cols |-> Column(matrix["R"], i)]

\* The stages of the base transfers.
BaseStage ==
  /\ sent = 0 /\ results = <<>> /\ pos["S"] = 0
  /\ \/ Where("readS", "writeS") /\ Silent /\ pos["R"] = 0
     \/ Where("readS", "readR") /\ ToSender(base.y) /\ pos["R"] = 0
     \/ /\ Where("readC", "readR") /\ ToReceiver(blinded(base.y)) /\ pos["R"] = 0
        /\ base.S = base.y
     \/ /\ Where("readC", "writeU") /\ ToSender(net["S"][1]) /\ pos["R"] = 0
        /\ base.S = base.y /\ SeedsSealed(net["S"][1])
     \/ /\ Where("readC", AfterRows)
        /\ net = [S |-> <<net["S"][1], net["S"][2]>>, R |-> <<>>] /\ pos["R"] = ncols
        /\ base.S = base.y /\ SeedsSealed(net["S"][1]) /\ RowsMasked(net["S"][2]) /\ BitsChosen

\* The stages of a batch before the sender has turned its matrix.
RowsStage ==
  /\ Seeded /\ sent = Len(results) /\ sent < Batches /\ pos["S"] = sent * ncols
  /\ \/ Where("readU", "writeU") /\ Silent /\ pos["R"] = pos["S"]
     \/ /\ Where("readU", AfterRows) /\ ToSender(net["S"][1]) /\ pos["R"] = pos["S"] + ncols
        /\ RowsMasked(net["S"][1]) /\ BitsChosen

\* Those after it, the check of Kos among them.
CheckStage ==
  /\ Seeded /\ BitsChosen /\ Correlated
  /\ sent = Len(results) /\ sent < Batches
  /\ pos["S"] = (sent + 1) * ncols /\ pos["R"] = pos["S"]
  /\ \/ kos /\ Where("readCoin", "readCom") /\ ToReceiver(Commitment(coin.S))
     \/ /\ kos /\ Where("readCoin", "readCoin") /\ ToSender(coin.R)
        /\ coin.com = Commitment(coin.S)
     \/ /\ kos /\ Where("readCheck", "readCoin") /\ ToReceiver(coin.S)
        /\ coin.com = Commitment(coin.S) /\ coin.toss = XorBit(coin.S, coin.R)
     \/ /\ kos /\ Where("readCheck", "readY")
        /\ ToSender(<<Combined(coin.toss), Products(Cols, TCols, Blocks(coin.toss))>>)
     \/ Where("writeY", "readY") /\ Silent

\* Those after the pairs have been sent.
PairsStage ==
  /\ Seeded /\ pos["S"] = sent * ncols /\ pos["R"] = pos["S"]
  /\ \/ /\ sent = Len(results) + 1 /\ sent <= Batches
        /\ Where(IF sent < Batches THEN "readU" ELSE "end", "readY")
        /\ ToReceiver(net["R"][1]) /\ PairsSealed(net["R"][1])
     \/ /\ sent = Len(results) /\ sent = Batches
        /\ Where("end", "join") \/ Where("end", "end")
        /\ Silent

\* The two ends are at one of these stages, and the messages on their way are
\* the ones of that stage.
IInv == Types /\ (BaseStage \/ RowsStage \/ CheckStage \/ PairsStage)

-----------------------------------------------------------------------------
(* Remainders. *)

\* Division with remainder.
LEMMA DivMod ==
  ASSUME NEW a \in Int, NEW n \in Nat \ {0}
  PROVE  a = n * (a \div n) + (a % n) /\ a % n \in 0..(n - 1) /\ a \div n \in Int
OBVIOUS

\* There is one remainder.
LEMMA ModUnique ==
  ASSUME NEW n \in Nat \ {0}, NEW q \in Int, NEW p \in Int,
         NEW r \in 0..(n - 1), NEW s \in 0..(n - 1), n * q + r = n * p + s
  PROVE  r = s
<1>1. CASE q = p
  BY <1>1
<1>2. CASE q < p
  <2>1. n * (p - q) >= n
    BY <1>2
  <2>2. n * (p - q) = r - s
    OBVIOUS
  <2> QED BY <2>1, <2>2
<1>3. CASE q > p
  <2>1. n * (q - p) >= n
    BY <1>3
  <2>2. n * (q - p) = s - r
    OBVIOUS
  <2> QED BY <2>1, <2>2
<1> QED BY <1>1, <1>2, <1>3

\* Multiples of the modulus do not change a remainder.
LEMMA ModShift ==
  ASSUME NEW n \in Nat \ {0}, NEW a \in Int, NEW k \in Int
  PROVE  (a + n * k) % n = a % n
<1> DEFINE b == a + n * k
<1>1. b \in Int
  OBVIOUS
<1>2. a = n * (a \div n) + (a % n) /\ a % n \in 0..(n - 1) /\ a \div n \in Int
  BY DivMod
<1>3. b = n * (b \div n) + (b % n) /\ b % n \in 0..(n - 1) /\ b \div n \in Int
  BY DivMod, <1>1
<1>4. b = n * (a \div n + k) + (a % n)
  BY <1>2
<1> HIDE DEF b
<1>5. (a \div n) + k \in Int
  BY <1>2
<1>6. b % n = a % n
  BY <1>2, <1>3, <1>4, <1>5, ModUnique
<1> QED BY <1>6 DEF b

-----------------------------------------------------------------------------
(* Counting modulo two. *)

\* A set of finite sets has a smallest one: the induction principle of finite
\* sets, stated without a predicate.
LEMMA Smallest ==
  ASSUME NEW S, NEW T, T \subseteq FiniteSubsetsOf(S), T # {}
  PROVE  \E m \in T : \A k \in T : k \subseteq m => k = m
<1>1. PICK m \in T : \A k \in T : ~(<<k, m>> \in StrictSubsetOrdering(S))
  <2>1. IsWellFoundedOn(StrictSubsetOrdering(S), FiniteSubsetsOf(S))
    BY FS_StrictSubsetOrderingWellFounded
  <2> QED BY <2>1, WFMin
<1>2. ASSUME NEW k \in T, k \subseteq m, k # m PROVE FALSE
  <2>1. k \in SUBSET S /\ m \in SUBSET S
    BY DEF FiniteSubsetsOf
  <2>2. <<k, m>> \in StrictSubsetOrdering(S)
    BY <2>1, <1>2 DEF StrictSubsetOrdering
  <2> QED BY <1>1, <2>2
<1> QED BY <1>2

\* Whether the number of elements is odd.
Parity(S) == Cardinality(S) % 2

\* The parities of disjoint sets add up.
LEMMA ParityUnion ==
  ASSUME NEW A, NEW B, IsFiniteSet(A), IsFiniteSet(B), A \cap B = {}
  PROVE  IsFiniteSet(A \cup B) /\ Parity(A \cup B) = (Parity(A) + Parity(B)) % 2
<1>1. /\ IsFiniteSet(A \cup B) /\ Cardinality(A) \in Nat /\ Cardinality(B) \in Nat
      /\ Cardinality(A \cup B) = Cardinality(A) + Cardinality(B)
  <2>1. Cardinality(A) \in Nat /\ Cardinality(B) \in Nat /\ Cardinality({}) = 0
    BY FS_CardinalityType, FS_EmptySet
  <2>2. /\ IsFiniteSet(A \cup B)
        /\ Cardinality(A \cup B) = Cardinality(A) + Cardinality(B) - Cardinality(A \cap B)
    BY FS_Union
  <2>3. Cardinality(A \cap B) = 0
    BY <2>1
  <2> QED BY <2>1, <2>2, <2>3
<1> QED BY <1>1 DEF Parity

\* Those of any two sets add up to that of their symmetric difference.
LEMMA ParityDifference ==
  ASSUME NEW A, NEW B, NEW C, IsFiniteSet(A), IsFiniteSet(B), C = (A \ B) \cup (B \ A)
  PROVE  Parity(C) = (Parity(A) + Parity(B)) % 2
<1>1. /\ IsFiniteSet(A \ B) /\ IsFiniteSet(B \ A) 
      /\ Cardinality(A \ B) = Cardinality(A) - Cardinality(A \cap B)
      /\ Cardinality(B \ A) = Cardinality(B) - Cardinality(A \cap B)
  <2>1. B \cap A = A \cap B
    OBVIOUS
  <2> QED BY <2>1, FS_Difference
<1>2. Cardinality(A) \in Nat /\ Cardinality(B) \in Nat /\ Cardinality(A \cap B) \in Nat
  BY FS_CardinalityType, FS_Intersection
<1>3. (A \ B) \cap (B \ A) = {}
  OBVIOUS
<1>4. Parity(C) = (Parity(A \ B) + Parity(B \ A)) % 2
  BY <1>1, <1>3, ParityUnion
<1> QED BY <1>1, <1>2, <1>4 DEF Parity

LEMMA ParityBit ==
  ASSUME NEW A, IsFiniteSet(A)
  PROVE  Parity(A) \in {0, 1}
BY FS_CardinalityType DEF Parity

\* If f takes each value an odd number of times exactly when the value is in
\* X, its domain is even or odd with X.  The smallest set of values for which
\* this fails would not be empty, and would fail without one of its values.
LEMMA ParityFibres ==
  ASSUME NEW R, IsFiniteSet(R), NEW D, IsFiniteSet(D), NEW X \in SUBSET R, 
         NEW f \in [D -> R],
         \A b \in R : Parity({d \in D : f[d] = b}) = IF b \in X THEN 1 ELSE 0
  PROVE Parity(D) = Parity(X)
<1> DEFINE DD(S) == {d \in D : f[d] \in S}
           XX(S) == X \cap S
           Bad == {S \in SUBSET R : Parity(DD(S)) # Parity(XX(S))}
<1>1. \A S \in SUBSET R : IsFiniteSet(DD(S)) /\ IsFiniteSet(XX(S))
  <2>1. \A S : DD(S) \subseteq D /\ XX(S) \subseteq R
    OBVIOUS
  <2> QED BY <2>1, FS_Subset
<1>2. Bad = {}
  <2> SUFFICES ASSUME Bad # {} PROVE FALSE
    OBVIOUS
  <2>1. Bad \subseteq FiniteSubsetsOf(R)
    BY FS_FiniteSubsetsOfFinite
  <2> HIDE DEF Bad
  <2>2. PICK m \in Bad : \A k \in Bad : k \subseteq m => k = m
    BY <2>1, Smallest
  <2>3. m \in SUBSET R /\ Parity(DD(m)) # Parity(XX(m))
    BY DEF Bad
  <2>4. m # {}
    <3>1. DD({}) = {} /\ XX({}) = {}
      OBVIOUS
    <3> QED BY <2>3, <3>1
  <2>5. PICK b \in m : TRUE
    BY <2>4
  <2> DEFINE k == m \ {b}
  <2>6. k \in SUBSET R /\ k \subseteq m /\ k # m
    BY <2>3
  <2>7. Parity(DD(k)) = Parity(XX(k))
    BY <2>2, <2>6 DEF Bad
  <2>8. DD(m) = DD(k) \cup {d \in D : f[d] = b} /\ DD(k) \cap {d \in D : f[d] = b} = {}
    OBVIOUS
  <2>9. XX(m) = XX(k) \cup (X \cap {b}) /\ XX(k) \cap (X \cap {b}) = {}
    OBVIOUS
  <2>10. IsFiniteSet({d \in D : f[d] = b}) /\ IsFiniteSet(X \cap {b})
    <3>1. {d \in D : f[d] = b} \subseteq D /\ (X \cap {b}) \subseteq R
      OBVIOUS
    <3> QED BY <3>1, FS_Subset
  <2>11. IsFiniteSet(DD(k)) /\ IsFiniteSet(XX(k))
    BY <1>1, <2>6
  <2>12. Parity({d \in D : f[d] = b}) = Parity(X \cap {b})
    <3>1. CASE b \in X
      <4>1. X \cap {b} = {b}
        BY <3>1
      <4>2. Parity({b}) = 1
        BY FS_Singleton DEF Parity
      <4>3. Parity({d \in D : f[d] = b}) = 1
        BY <2>3, <3>1
      <4> QED BY <4>1, <4>2, <4>3
    <3>2. CASE b \notin X
      <4>1. X \cap {b} = {}
        BY <3>2
      <4>2. Parity({}) = 0
        BY FS_EmptySet DEF Parity
      <4>3. Parity({d \in D : f[d] = b}) = 0
        BY <2>3, <3>2
      <4> QED BY <4>1, <4>2, <4>3
    <3> QED BY <3>1, <3>2
  <2> HIDE DEF k, DD, XX
  <2>13. Parity(DD(m)) = (Parity(DD(k)) + Parity({d \in D : f[d] = b})) % 2
    BY <2>8, <2>10, <2>11, ParityUnion
  <2>14. Parity(XX(m)) = (Parity(XX(k)) + Parity(X \cap {b})) % 2
    BY <2>9, <2>10, <2>11, ParityUnion
  <2> QED BY <2>3, <2>7, <2>12, <2>13, <2>14
<1>3. R \in SUBSET R /\ DD(R) = D /\ XX(R) = X
  OBVIOUS
<1> QED BY <1>2, <1>3

\* One-to-one sets have the same parity.
LEMMA SameParity ==
  ASSUME NEW S, NEW T, IsFiniteSet(S), NEW f \in [S -> T],
         \A a, b \in S : f[a] = f[b] => a = b,
         \A v \in T : \E a \in S : f[a] = v
  PROVE  IsFiniteSet(T) /\ Parity(T) = Parity(S)
<1>1. f \in Bijection(S, T)
  BY DEF Bijection, Injection, Surjection, IsInjective
<1>2. ExistsBijection(S, T)
  BY <1>1 DEF ExistsBijection
<1> QED BY <1>2, FS_Bijection DEF Parity

\* The triples whose number modulo two is entry n of Products.
Terms(I, f, g, n) == {p \in I \X RowSet \X RowSet :
                        p[2] + p[3] = n /\ f[p[1]][p[2]] = 1 /\ g[p[1]][p[3]] = 1}

LEMMA TermsFinite ==
  ASSUME NEW I, IsFiniteSet(I), NEW A, A \subseteq I \X RowSet \X RowSet
  PROVE  IsFiniteSet(A)
<1>1. IsFiniteSet(RowSet)
  BY SizeAssumption, FS_Interval DEF RowSet
<1>2. IsFiniteSet((I \X RowSet) \X RowSet)
  BY <1>1, FS_Product
<1> DEFINE f == [p \in A |-> << <<p[1], p[2]>>, p[3] >>]
<1>4. f \in Injection(A, (I \X RowSet) \X RowSet)
  BY DEF Injection, IsInjective
<1> QED BY <1>2, <1>4, FS_Injection

\* The sum of the blocks g_i of the indices whose bit c_i is set.
Sum(I, c, g) == [k \in RowSet |-> Cardinality({i \in I : c[i] = 1 /\ g[i][k] = 1}) % 2]

\* Entry n of the equation the sender checks.
CheckHolds(I, q, t, c, s, g, n) ==
  XorBit(Products(I, q, g)[n],
         Products({0}, [m \in {0} |-> Sum(I, c, g)], [m \in {0} |-> s])[n]) = Products(I, t, g)[n]

\* The check of Kos: if every column q_i is t_i, plus s where bit c_i is set,
\* and x is the sum of the blocks g_i with that bit, then the products of the q_i
\* with the g_i, plus the product of x and s, are those of the t_i.
LEMMA CheckPasses ==
  ASSUME NEW I, IsFiniteSet(I), NEW t \in [I -> ColumnSet], NEW q \in [I -> ColumnSet],
         NEW c, NEW s \in ColumnSet, NEW g,
         \A i \in I : q[i] = IF c[i] = 1 THEN XorCol(t[i], s) ELSE t[i],
         NEW n \in 0..(2 * K - 2)
  PROVE  CheckHolds(I, q, t, c, s, g, n)
<1> DEFINE x == Sum(I, c, g)
<1> HIDE DEF x
<1> DEFINE T == Terms(I, t, g, n)
           Q == Terms(I, q, g, n)
           D == {p \in I \X RowSet \X RowSet :
                   p[2] + p[3] = n /\ c[p[1]] = 1 /\ s[p[2]] = 1 /\ g[p[1]][p[3]] = 1}
           X == {b \in RowSet : n - b \in RowSet /\ s[n - b] = 1 /\ x[b] = 1}
           Y == Terms({0}, [m \in {0} |-> x], [m \in {0} |-> s], n)
<1>1. IsFiniteSet(T) /\ IsFiniteSet(Q) /\ IsFiniteSet(D)
  <2>1. T \subseteq I \X RowSet \X RowSet /\ Q \subseteq I \X RowSet \X RowSet
    BY DEF Terms
  <2>2. D \subseteq I \X RowSet \X RowSet
    OBVIOUS
  <2> QED BY <2>1, <2>2, TermsFinite
<1>2. T = (Q \ D) \cup (D \ Q)
  <2>1. ASSUME NEW p \in I \X RowSet \X RowSet
        PROVE  q[p[1]][p[2]] = IF c[p[1]] = 1 THEN (t[p[1]][p[2]] + s[p[2]]) % 2
                                              ELSE t[p[1]][p[2]]
    BY DEF XorCol, XorBit, ColumnSet
  <2>2. ASSUME NEW p \in I \X RowSet \X RowSet
        PROVE  q[p[1]][p[2]] \in {0, 1} /\ t[p[1]][p[2]] \in {0, 1} /\ s[p[2]] \in {0, 1}
    BY DEF ColumnSet, BitSet
  <2>3. ASSUME NEW p \in I \X RowSet \X RowSet
        PROVE  t[p[1]][p[2]] = 1 <=> (IF c[p[1]] = 1 /\ s[p[2]] = 1 THEN q[p[1]][p[2]] # 1
                                                                ELSE q[p[1]][p[2]] = 1)
    BY <2>1, <2>2
  <2> QED BY <2>3 DEF Terms
<1>3. Parity(T) = (Parity(Q) + Parity(D)) % 2
  BY <1>1, <1>2, ParityDifference
<1>4. IsFiniteSet(RowSet)
  BY SizeAssumption, FS_Interval DEF RowSet
<1>5. Parity(D) = Parity(X)
  <2> DEFINE f == [p \in D |-> p[3]]
  <2>1. X \in SUBSET RowSet /\ f \in [D -> RowSet]
    OBVIOUS
  <2>2. ASSUME NEW b \in RowSet
        PROVE  Parity({d \in D : f[d] = b}) = IF b \in X THEN 1 ELSE 0
    <3> DEFINE F == {d \in D : f[d] = b}
               C == {i \in I : c[i] = 1 /\ g[i][b] = 1}
    <3>1. ASSUME n - b \in RowSet /\ s[n - b] = 1
          PROVE  Parity(F) = IF b \in X THEN 1 ELSE 0
      <4> DEFINE h == [i \in C |-> <<i, n - b, b>>]
      <4>1. n - b + b = n
        BY DEF RowSet
      <4>2. \A i \in C : <<i, n - b, b>> \in F
        BY <3>1, <4>1
      <4>3. \A a1, a2 \in C : h[a1] = h[a2] => a1 = a2
        OBVIOUS
      <4>4. ASSUME NEW v \in F PROVE \E a \in C : h[a] = v
        <5>1. v[1] \in C /\ v = <<v[1], v[2], v[3]>> /\ v[3] = b /\ v[2] + v[3] = n /\ v[2] \in RowSet
          OBVIOUS
        <5>2. v[2] = n - b
          BY <5>1, SizeAssumption DEF RowSet
        <5> QED BY <5>1, <5>2
      <4>5. IsFiniteSet(C)
        BY FS_Subset
      <4>6. h \in [C -> F]
        BY <4>2
      <4> HIDE DEF h, F, C
      <4>7. Parity(F) = Parity(C)
        BY <4>3, <4>4, <4>5, <4>6, SameParity
      <4>8. Parity(C) = x[b]
        BY DEF Parity, C, x, Sum
      <4>9. b \in X <=> x[b] = 1
        BY <3>1
      <4>10. Parity(C) \in {0, 1}
        BY <4>5, ParityBit
      <4> QED BY <4>7, <4>8, <4>9, <4>10
    <3>2. ASSUME ~(n - b \in RowSet /\ s[n - b] = 1)
          PROVE  Parity(F) = IF b \in X THEN 1 ELSE 0
      <4>1. F = {}
        <5> SUFFICES ASSUME NEW v \in F PROVE FALSE
          OBVIOUS
        <5>1. v[3] = b /\ v[2] + v[3] = n /\ v[2] \in RowSet /\ s[v[2]] = 1
          OBVIOUS
        <5>2. v[2] = n - b
          BY <5>1, SizeAssumption DEF RowSet
        <5> QED BY <5>1, <5>2, <3>2
      <4>2. b \notin X
        BY <3>2
      <4>3. Parity({}) = 0
        BY FS_EmptySet DEF Parity
      <4> HIDE DEF F, X
      <4> QED BY <4>1, <4>2, <4>3
    <3> QED BY <3>1, <3>2
  <2> HIDE DEF f, D, X
  <2> QED BY <1>1, <1>4, <2>1, <2>2, ParityFibres
<1>6. Parity(Y) = Parity(X)
  <2> DEFINE h == [b \in X |-> <<0, b, n - b>>]
  <2>1. ASSUME NEW b \in X PROVE <<0, b, n - b>> \in Y
    <3>1. b + (n - b) = n
      BY SizeAssumption DEF RowSet
    <3>2. b \in RowSet /\ n - b \in RowSet /\ x[b] = 1 /\ s[n - b] = 1
      OBVIOUS
    <3> QED BY <3>1, <3>2 DEF Terms
  <2>2. \A a, b \in X : h[a] = h[b] => a = b
    OBVIOUS
  <2>3. ASSUME NEW v \in Y PROVE \E b \in X : h[b] = v
    <3>1. /\ v = <<v[1], v[2], v[3]>> /\ v[1] = 0 /\ v[2] \in RowSet /\ v[3] \in RowSet
          /\ v[2] + v[3] = n /\ x[v[2]] = 1 /\ s[v[3]] = 1
      BY DEF Terms
    <3>2. v[3] = n - v[2]
      BY <3>1, SizeAssumption DEF RowSet
    <3>3. v[2] \in X
      BY <3>1, <3>2
    <3> QED BY <3>1, <3>2, <3>3
  <2>4. IsFiniteSet(X)
    BY <1>4, FS_Subset
  <2>5. h \in [X -> Y]
    BY <2>1
  <2> HIDE DEF h, X, Y
  <2> QED BY <2>2, <2>3, <2>4, <2>5, SameParity
<1>7. /\ Products(I, q, g)[n] = Parity(Q) /\ Products(I, t, g)[n] = Parity(T)
      /\ Products({0}, [m \in {0} |-> x], [m \in {0} |-> s])[n] = Parity(Y)
  BY DEF Products, Parity, Terms
<1>8. Parity(Q) \in {0, 1} /\ Parity(T) \in {0, 1} /\ Parity(D) \in {0, 1}
  BY <1>1, ParityBit
<1> QED BY <1>3, <1>5, <1>6, <1>7, <1>8 DEF XorBit, CheckHolds, x

-----------------------------------------------------------------------------
(* Sizes, generators and keys. *)

LEMMA ColumnCount ==
  /\ padded(M) \in Nat /\ M <= padded(M)
  /\ ncols \in Nat /\ M <= ncols /\ ncols <= M + Octet + Extra
  /\ ~kos => ncols = padded(M)
  /\ kos => ncols = padded(M) + Extra
<1>1. M % Octet \in 0..(Octet - 1)
  BY SizeAssumption, DivMod
<1>2. padded(M) \in Nat /\ M <= padded(M) /\ padded(M) <= M + Octet
  BY <1>1, SizeAssumption DEF padded
<1> QED BY <1>2, SizeAssumption DEF ncols

\* As long as a batch is left, the generators are at positions where they give
\* bits.
LEMMA GeneratorBits ==
  ASSUME NEW b \in Nat, b < Batches, NEW i \in Cols, NEW j \in RowSet, NEW c \in BitSet
  PROVE  G(<<j, c>>, b * ncols + i) \in BitSet
<1> DEFINE w == M + Octet + Extra
<1>1. /\ ncols \in Nat /\ w \in Nat /\ ncols <= w /\ i \in Nat /\ i < ncols
      /\ Batches \in Nat
  BY ColumnCount, SizeAssumption DEF Cols
<1> HIDE DEF w
<1>2. b * ncols \in Nat /\ Batches * w \in Nat
  BY <1>1
<1>3. b * ncols + ncols <= Batches * ncols
  <2>1. PICK d \in Nat : Batches = b + 1 + d
    <3>1. Batches - b - 1 \in Nat /\ Batches = b + 1 + (Batches - b - 1)
      BY <1>1
    <3> QED BY <3>1
  <2>2. Batches * ncols = b * ncols + ncols + d * ncols /\ d * ncols \in Nat
    BY <1>1, <2>1
  <2> QED BY <1>1, <1>2, <2>2
<1>4. Batches * ncols <= Batches * w
  <2>1. PICK d \in Nat : w = ncols + d
    <3>1. w - ncols \in Nat /\ w = ncols + (w - ncols)
      BY <1>1
    <3> QED BY <3>1, Zenon
  <2>2. Batches * w = Batches * ncols + Batches * d /\ Batches * d \in Nat
    BY <1>1, <2>1
  <2>3. Batches * ncols \in Nat
    BY <1>1
  <2> QED BY <2>2, <2>3
<1>5. Batches * ncols \in Nat
  BY <1>1
<1>6. b * ncols + i \in 0..(Batches * w)
  BY <1>1, <1>2, <1>3, <1>4, <1>5
<1> QED BY <1>6, BitAssumption DEF w, RowSet, BitSet

LEMMA Ring ==
  ASSUME NEW a \in Int, NEW b \in Int, NEW c \in Int
  PROVE  /\ a * b \in Int /\ a * b = b * a
         /\ a * (b + c) = a * b + a * c
         /\ a * (b - c) = a * b - a * c
         /\ a * (b * c) = b * (a * c)
OBVIOUS

\* y * (y + x) without y * y is x * y, also when y + x has been reduced.
LEMMA SecondKey ==
  ASSUME NEW o \in Nat \ {0}, NEW x \in Int, NEW y \in Int
  PROVE  (y * ((y + x) % o) + o * o - y * y) % o = (x * y) % o
<1> DEFINE r == (y + x) % o
           k == (y + x) \div o
<1>0. r \in Int /\ k \in Int /\ y + x = o * k + r
  <2>1. y + x \in Int
    OBVIOUS
  <2> QED BY <2>1, DivMod
<1> HIDE DEF r, k
<1> DEFINE xy == x * y    yy == y * y    yr == y * r    oo == o * o    oyk == o * (y * k)
<1>1. xy \in Int /\ yy \in Int /\ yr \in Int /\ oo \in Int /\ oyk \in Int /\ y * k \in Int
  BY <1>0, Ring
<1>2. y * (y + x) = yy + xy
  BY <1>0, Ring
<1>3. y * (o * k + r) = oyk + yr
  <2>1. y * (o * k) = o * (y * k) /\ o * k \in Int
    BY <1>0, Ring
  <2> QED BY <1>0, <2>1, Ring
<1>4. yy + xy = oyk + yr
  BY <1>0, <1>2, <1>3
<1>5. o * (o - y * k) = oo - oyk
  BY <1>0, <1>1, Ring
<1>6. (xy + o * (o - y * k)) % o = xy % o
  <2>1. o - y * k \in Int
    BY <1>0, <1>1
  <2> QED BY <1>1, <2>1, ModShift
<1> HIDE DEF xy, yy, yr, oo, oyk
<1>7. yr + oo - yy = xy + (oo - oyk)
  BY <1>1, <1>4
<1>8. (yr + oo - yy) % o = xy % o
  BY <1>5, <1>6, <1>7
<1> QED BY <1>8 DEF xy, yy, yr, oo, r

\* The two ends of a base transfer agree on the key of the bit asked for:
\* y * (s * y + x) is x * y for s = 0, and after y * y is taken off for s = 1.
LEMMA KeysAgree ==
  ASSUME NEW y \in Scalars, NEW x \in Scalars, NEW s \in BitSet
  PROVE  LET r == (s * y + x) % Order
         IN  /\ s = 0 => (y * r) % Order = (x * y) % Order
             /\ s = 1 => (y * r + Order * Order - y * y) % Order = (x * y) % Order
<1> DEFINE r == (s * y + x) % Order
<1>1. Order \in Nat \ {0} /\ y \in Int /\ x \in Int /\ x \in 0..(Order - 1)
  BY SizeAssumption
<1>2. ASSUME s = 0 PROVE (y * r) % Order = (x * y) % Order
  <2>1. s * y + x = x
    BY <1>1, <1>2
  <2>2. x = Order * 0 + x
    BY <1>1
  <2>3. x = Order * (x \div Order) + (x % Order) /\ x % Order \in 0..(Order - 1) /\ x \div Order \in Int
    BY <1>1, DivMod
  <2>4. x % Order = x
    BY <1>1, <2>2, <2>3, ModUnique
  <2>5. r = x
    BY <2>1, <2>4
  <2>6. y * x = x * y
    BY <1>1, Ring
  <2> QED BY <2>5, <2>6
<1>3. ASSUME s = 1 PROVE (y * r + Order * Order - y * y) % Order = (x * y) % Order
  <2>1. s * y + x = y + x
    BY <1>1, <1>3
  <2>2. r = (y + x) % Order
    BY <2>1
  <2> HIDE DEF r
  <2> QED BY <1>1, <2>2, SecondKey
<1> QED BY <1>2, <1>3

\* Adding a column twice changes nothing.
LEMMA XorTwice ==
  ASSUME NEW a \in ColumnSet, NEW b \in ColumnSet
  PROVE  XorCol(a, b) \in ColumnSet /\ XorCol(XorCol(a, b), b) = a
<1>1. \A j \in RowSet : a[j] \in {0, 1} /\ b[j] \in {0, 1}
  BY DEF ColumnSet, BitSet
<1>2. \A j \in RowSet : (a[j] + b[j]) % 2 \in {0, 1} /\ (((a[j] + b[j]) % 2) + b[j]) % 2 = a[j]
  BY <1>1
<1>3. XorCol(a, b) \in ColumnSet
  BY <1>2 DEF XorCol, XorBit, ColumnSet, BitSet
<1>4. XorCol(XorCol(a, b), b) = [j \in RowSet |-> a[j]]
  BY <1>2 DEF XorCol, XorBit
<1> QED BY <1>3, <1>4 DEF ColumnSet

-----------------------------------------------------------------------------
(* What the messages mean. *)

\* The sender's key opens the seed it asked for.
LEMMA SeedsOpen ==
  ASSUME Types, NEW m,
         m = [j \in RowSet |->
               << Seal(<<j, (base.y * blinded(base.y)[j]) % Order>>, <<j, 0>>),
                  Seal(<<j, (base.y * blinded(base.y)[j] + Order * Order - base.y * base.y) % Order>>,
                       <<j, 1>>) >>]
  PROVE  SeedsSealed(m)
<1> SUFFICES ASSUME NEW j \in RowSet
             PROVE  Open(<<j, (secret.x[j] * base.y) % Order>>, m[j][secret.s[j] + 1])
                      = <<j, secret.s[j]>>
  BY DEF SeedsSealed
<1> DEFINE r == (secret.s[j] * base.y + secret.x[j]) % Order
           k0 == (base.y * r) % Order
           k1 == (base.y * r + Order * Order - base.y * base.y) % Order
           k == (secret.x[j] * base.y) % Order
<1>1. base.y \in Scalars /\ secret.x[j] \in Scalars /\ secret.s[j] \in BitSet
  BY DEF Types, ColumnSet
<1>2. (secret.s[j] = 0 => k0 = k) /\ (secret.s[j] = 1 => k1 = k)
  BY <1>1, KeysAgree
<1>3. m[j] = << Seal(<<j, k0>>, <<j, 0>>), Seal(<<j, k1>>, <<j, 1>>) >>
  BY DEF blinded
<1> HIDE DEF k0, k1, k, r
<1>4. CASE secret.s[j] = 0
  <2>1. m[j][secret.s[j] + 1] = Seal(<<j, k>>, <<j, 0>>)
    BY <1>2, <1>3, <1>4
  <2> QED BY <1>4, <2>1 DEF Open, Seal, k
<1>5. CASE secret.s[j] = 1
  <2>1. m[j][secret.s[j] + 1] = Seal(<<j, k>>, <<j, 1>>)
    BY <1>2, <1>3, <1>5
  <2> QED BY <1>5, <2>1 DEF Open, Seal, k
<1> QED BY <1>1, <1>4, <1>5 DEF BitSet

\* The masked rows give the sender the receiver's row, or that row plus the
\* choice bits.
LEMMA RowsCorrelate ==
  ASSUME Types, Seeded, BitsChosen, sent < Batches, pos["S"] = sent * ncols,
         NEW u, RowsMasked(u), NEW q, q = send_setup(u)
  PROVE  /\ matrix["R"] \in [RowSet -> [Cols -> BitSet]]
         /\ \A i \in Cols : Column(q, i) =
              IF bits[i] = 1 THEN XorCol(Column(matrix["R"], i), secret.s)
                             ELSE Column(matrix["R"], i)
<1> DEFINE g(j, c, i) == G(<<j, c>>, pos["S"] + i)
<1>1. \A j \in RowSet, i \in Cols : g(j, 0, i) \in {0, 1} /\ g(j, 1, i) \in {0, 1}
  <2>1. sent \in Nat /\ 0 \in BitSet /\ 1 \in BitSet
    BY DEF Types, BitSet
  <2> QED BY <2>1, GeneratorBits DEF BitSet
<1> HIDE DEF g
<1>2. matrix["R"] = [j \in RowSet |-> [i \in Cols |-> g(j, 0, i)]]
  BY DEF RowsMasked, g
<1>3. matrix["R"] \in [RowSet -> [Cols -> BitSet]]
  BY <1>1, <1>2 DEF BitSet
<1>4. ASSUME NEW j \in RowSet, NEW i \in Cols
      PROVE  q[j][i] = IF bits[i] = 1 THEN (g(j, 0, i) + secret.s[j]) % 2 ELSE g(j, 0, i)
  <2>1. q[j][i] = XorBit(G(<<j, secret.s[j]>>, pos["S"] + i), secret.s[j] * u[j][i])
    BY DEF send_setup, Seeded
  <2>2. u[j][i] = XorBit(XorBit(g(j, 1, i), g(j, 0, i)), bits[i])
    BY DEF RowsMasked, g
  <2>3. secret.s[j] \in {0, 1} /\ bits[i] \in {0, 1}
    BY DEF Types, ColumnSet, BitsChosen, BitSet
  <2>4. G(<<j, secret.s[j]>>, pos["S"] + i) = IF secret.s[j] = 0 THEN g(j, 0, i) ELSE g(j, 1, i)
    BY <2>3 DEF g
  <2>5. g(j, 0, i) \in {0, 1} /\ g(j, 1, i) \in {0, 1}
    BY <1>1
  <2>6. CASE secret.s[j] = 0
    <3>1. secret.s[j] * u[j][i] = 0
      BY <2>2, <2>3, <2>5, <2>6 DEF XorBit
    <3> QED BY <2>1, <2>3, <2>4, <2>5, <2>6, <3>1 DEF XorBit
  <2>7. CASE secret.s[j] = 1
    <3>1. secret.s[j] * u[j][i] = (((g(j, 1, i) + g(j, 0, i)) % 2) + bits[i]) % 2
      BY <2>2, <2>3, <2>5, <2>7 DEF XorBit
    <3>2. q[j][i] = (g(j, 1, i) + ((((g(j, 1, i) + g(j, 0, i)) % 2) + bits[i]) % 2)) % 2
      BY <2>1, <2>4, <2>7, <3>1 DEF XorBit
    <3> QED BY <2>3, <2>5, <2>7, <3>2
  <2> QED BY <2>3, <2>6, <2>7
<1>5. ASSUME NEW i \in Cols
      PROVE  Column(q, i) = IF bits[i] = 1 THEN XorCol(Column(matrix["R"], i), secret.s)
                                           ELSE Column(matrix["R"], i)
  BY <1>2, <1>4 DEF Column, XorCol, XorBit
<1> QED BY <1>3, <1>5

LEMMA ColumnType ==
  ASSUME Correlated, NEW i \in Cols
  PROVE  Column(matrix["R"], i) \in ColumnSet
BY DEF Correlated, Column, ColumnSet

\* The receiver's column opens the message it chose.
LEMMA PairsOpen ==
  ASSUME Types, BitsChosen, Correlated, NEW b, NEW y,
         y = [j \in 0..(M - 1) |->
               << Seal(<<j, Column(matrix["S"], j)>>, Ideal!Plain(b, j, 0)),
                  Seal(<<j, XorCol(Column(matrix["S"], j), secret.s)>>, Ideal!Plain(b, j, 1)) >>],
         NEW j \in 0..(M - 1)
  PROVE  Open(<<j, Column(matrix["R"], j)>>, y[j][choice[j] + 1]) = Ideal!Plain(b, j, choice[j])
<1>1. j \in Cols /\ bits[j] = choice[j] /\ choice[j] \in {0, 1} /\ secret.s \in ColumnSet
  <2>1. j \in Cols
    BY ColumnCount, SizeAssumption DEF Cols
  <2>2. choice[j] \in BitSet /\ secret.s \in ColumnSet
    BY DEF Types
  <2> QED BY <2>1, <2>2 DEF BitsChosen, BitSet
<1> DEFINE t == Column(matrix["R"], j)
           q == Column(matrix["S"], j)
<1>2. q = IF choice[j] = 1 THEN XorCol(t, secret.s) ELSE t
  BY <1>1 DEF Correlated
<1>3. XorCol(XorCol(t, secret.s), secret.s) = t
  BY <1>1, ColumnType, XorTwice
<1>4. y[j] = << Seal(<<j, q>>, Ideal!Plain(b, j, 0)),
                Seal(<<j, XorCol(q, secret.s)>>, Ideal!Plain(b, j, 1)) >>
  OBVIOUS
<1> HIDE DEF t, q
<1>5. CASE choice[j] = 0
  <2>1. y[j][choice[j] + 1] = Seal(<<j, t>>, Ideal!Plain(b, j, 0))
    BY <1>2, <1>4, <1>5
  <2> QED BY <1>5, <2>1 DEF Open, Seal, t
<1>6. CASE choice[j] = 1
  <2>1. y[j][choice[j] + 1] = Seal(<<j, t>>, Ideal!Plain(b, j, 1))
    BY <1>2, <1>3, <1>4, <1>6
  <2> QED BY <1>6, <2>1 DEF Open, Seal, t
<1> QED BY <1>1, <1>5, <1>6

\* What the receiver sends for the check satisfies the sender's equation.
LEMMA Consistent ==
  ASSUME Types, BitsChosen, Correlated, NEW seed, NEW n \in 0..(2 * K - 2)
  PROVE  XorBit(Products(Cols, [i \in Cols |-> Column(matrix["S"], i)], Blocks(seed))[n],
                Products({0}, [k \in {0} |-> Combined(seed)], [k \in {0} |-> secret.s])[n])
           = Products(Cols, TCols, Blocks(seed))[n]
<1> DEFINE q == [i \in Cols |-> Column(matrix["S"], i)]
<1>1. IsFiniteSet(Cols)
  BY ColumnCount, FS_Interval DEF Cols
<1>2. secret.s \in ColumnSet
  BY DEF Types
<1>3. TCols \in [Cols -> ColumnSet]
  BY ColumnType DEF TCols
<1>4. \A i \in Cols : q[i] = IF bits[i] = 1 THEN XorCol(TCols[i], secret.s) ELSE TCols[i]
  BY DEF Correlated, TCols
<1>5. q \in [Cols -> ColumnSet]
  <2>1. \A i \in Cols : q[i] \in ColumnSet
    BY <1>2, <1>3, <1>4, XorTwice
  <2> QED BY <2>1
<1>6. Combined(seed) = Sum(Cols, bits, Blocks(seed))
  BY DEF Combined, Sum
<1> HIDE DEF q
<1>7. CheckHolds(Cols, q, TCols, bits, secret.s, Blocks(seed), n)
  BY <1>1, <1>2, <1>3, <1>4, <1>5, CheckPasses
<1> QED BY <1>6, <1>7 DEF CheckHolds, q

-----------------------------------------------------------------------------
(* The invariant is inductive. *)

LEMMA AppendSecond ==
  ASSUME NEW m, NEW k
  PROVE  Append(<<m>>, k) = <<m, k>>
<1> DEFINE U == {m, k}
<1>1. <<m>> \in Seq(U) /\ k \in U /\ <<m, k>> \in Seq(U)
  OBVIOUS
<1>2. /\ Append(<<m>>, k) \in Seq(U) /\ Len(Append(<<m>>, k)) = 2
      /\ Append(<<m>>, k)[1] = m /\ Append(<<m>>, k)[2] = k
  BY <1>1
<1>3. Len(<<m, k>>) = 2 /\ <<m, k>>[1] = m /\ <<m, k>>[2] = k
  OBVIOUS
<1> HIDE DEF U
<1> DEFINE a == Append(<<m>>, k)
           b == <<m, k>>
<1>4. a \in Seq(U) /\ b \in Seq(U) /\ Len(a) = 2 /\ Len(b) = 2 /\ a[1] = b[1] /\ a[2] = b[2]
  BY <1>1, <1>2, <1>3
<1> HIDE DEF a, b
<1>5. \A i \in 1..2 : a[i] = b[i]
  BY <1>4
<1>6. a = b
  BY <1>4, <1>5
<1> QED BY <1>6 DEF a, b

\* The messages on their way after a step, for those that were before it.
LEMMA Moves ==
  ASSUME NEW m, NEW k
  PROVE  /\ Silent /\ Send("S", m) => net' = [S |-> <<m>>, R |-> <<>>]
         /\ Silent /\ Send("R", m) => net' = [S |-> <<>>, R |-> <<m>>]
         /\ ToSender(k) /\ Send("S", m) => net' = [S |-> <<k, m>>, R |-> <<>>]
         /\ ToSender(k) /\ Reply("S", "R", m) => net' = [S |-> <<>>, R |-> <<m>>]
         /\ ToReceiver(k) /\ Reply("R", "S", m) => net' = [S |-> <<m>>, R |-> <<>>]
         /\ ToSender(k) /\ Take("S") => net' = [S |-> <<>>, R |-> <<>>]
         /\ ToReceiver(k) /\ Take("R") => net' = [S |-> <<>>, R |-> <<>>]
         /\ net = [S |-> <<k, m>>, R |-> <<>>] /\ Take("S") => net' = [S |-> <<m>>, R |-> <<>>]
<1>1. /\ Append(<<>>, m) = <<m>> /\ Append(<<k>>, m) = <<k, m>>
      /\ Tail(<<k>>) = <<>> /\ Tail(<<k, m>>) = <<m>>
  BY AppendSecond
<1>2. ASSUME NEW a, NEW b, net = [S |-> a, R |-> b]
      PROVE  /\ Send("S", m) => net' = [S |-> Append(a, m), R |-> b]
             /\ Send("R", m) => net' = [S |-> a, R |-> Append(b, m)]
             /\ Reply("S", "R", m) => net' = [S |-> Tail(a), R |-> Append(b, m)]
             /\ Reply("R", "S", m) => net' = [S |-> Append(a, m), R |-> Tail(b)]
             /\ Take("S") => net' = [S |-> Tail(a), R |-> b]
             /\ Take("R") => net' = [S |-> a, R |-> Tail(b)]
  BY <1>2 DEF Send, Reply, Take
<1>3. CASE net = [S |-> <<>>, R |-> <<>>]
  <2>1. /\ Send("S", m) => net' = [S |-> Append(<<>>, m), R |-> <<>>]
        /\ Send("R", m) => net' = [S |-> <<>>, R |-> Append(<<>>, m)]
    BY <1>2, <1>3
  <2>2. ~ToSender(k) /\ ~ToReceiver(k)
    BY <1>3 DEF ToSender, ToReceiver
  <2> QED BY <1>1, <1>3, <2>1, <2>2
<1>4. CASE net = [S |-> <<k>>, R |-> <<>>]
  <2>1. /\ Send("S", m) => net' = [S |-> Append(<<k>>, m), R |-> <<>>]
        /\ Reply("S", "R", m) => net' = [S |-> Tail(<<k>>), R |-> Append(<<>>, m)]
        /\ Take("S") => net' = [S |-> Tail(<<k>>), R |-> <<>>]
    BY <1>2, <1>4
  <2>2. ~Silent /\ ~ToReceiver(k)
    BY <1>4 DEF Silent, ToReceiver
  <2> QED BY <1>1, <1>4, <2>1, <2>2
<1>5. CASE net = [S |-> <<>>, R |-> <<k>>]
  <2>1. /\ Reply("R", "S", m) => net' = [S |-> Append(<<>>, m), R |-> Tail(<<k>>)]
        /\ Take("R") => net' = [S |-> <<>>, R |-> Tail(<<k>>)]
    BY <1>2, <1>5
  <2>2. ~Silent /\ ~ToSender(k)
    BY <1>5 DEF Silent, ToSender
  <2> QED BY <1>1, <1>5, <2>1, <2>2
<1>6. CASE net = [S |-> <<k, m>>, R |-> <<>>]
  <2>1. Take("S") => net' = [S |-> Tail(<<k, m>>), R |-> <<>>]
    BY <1>2, <1>6
  <2>2. ~Silent /\ ~ToSender(k) /\ ~ToReceiver(k)
    BY <1>6 DEF Silent, ToSender, ToReceiver
  <2> QED BY <1>1, <1>6, <2>1, <2>2
<1> QED BY <1>3, <1>4, <1>5, <1>6 DEF Silent, ToSender, ToReceiver

LEMMA InitIInv == Init => IInv
<1> SUFFICES ASSUME Init PROVE IInv
  OBVIOUS
<1>1. Types
  BY DEF Init, Types, BitSet
<1>2. BaseStage
  BY DEF Init, BaseStage, Where, Silent
<1> QED BY <1>1, <1>2 DEF IInv

\* Where the two ends can be when one of them is at a given place.
LEMMA Places ==
  ASSUME IInv
  PROVE  /\ At("R", "writeS") \/ At("R", "readR") \/ At("S", "readS") \/ At("S", "readC") => BaseStage
         /\ At("R", "writeU") \/ At("R", "readCom") => BaseStage \/ RowsStage \/ CheckStage
         /\ At("S", "readU") => RowsStage \/ PairsStage
         /\ At("S", "readCoin") \/ At("S", "readCheck") \/ At("S", "writeY") => CheckStage
         /\ At("R", "readCoin") => CheckStage
         /\ At("R", "join") => PairsStage
         /\ pc["S"] # "panic" /\ pc["R"] # "panic"
BY DEF IInv, BaseStage, RowsStage, CheckStage, PairsStage, At, Where, AfterRows

LEMMA StepBaseSenderInit == ASSUME IInv, BaseSenderInit PROVE IInv'
<1>1. BaseStage /\ Where("readS", "writeS") /\ Silent /\ pos["R"] = 0
  BY Places DEF BaseSenderInit, BaseStage, At, Where, AfterRows
<1>2. Where("readS", "readR")' /\ ToSender(base.y)'
  <2>1. net' = [S |-> <<base.y>>, R |-> <<>>]
    BY <1>1, Moves DEF BaseSenderInit
  <2> QED BY <1>1, <2>1 DEF BaseSenderInit, Where, Goto, ToSender
<1>3. Types'
  BY DEF IInv, Types, BaseSenderInit
<1>4. BaseStage'
  BY <1>1, <1>2 DEF BaseSenderInit, BaseStage
<1> QED BY <1>3, <1>4 DEF IInv

LEMMA StepBaseReceive == ASSUME IInv, BaseReceive PROVE IInv'
<1>1. BaseStage /\ Where("readS", "readR") /\ ToSender(base.y) /\ pos["R"] = 0
  BY Places DEF BaseReceive, BaseStage, At, Has, Where, Silent
<1>2. Head(net["S"]) = base.y /\ base' = [base EXCEPT !.S = base.y]
  BY <1>1 DEF BaseReceive, ToSender
<1>3. base'.y = base.y /\ base'.S = base.y
  BY <1>2 DEF IInv, Types
<1>4. Where("readC", "readR")'
  BY <1>1 DEF BaseReceive, Where, Goto
<1>5. ToReceiver(blinded(base.y))'
  <2>1. net' = [S |-> <<>>, R |-> <<blinded(base.y)>>]
    BY <1>1, <1>2, Moves DEF BaseReceive
  <2> QED BY <1>3, <2>1 DEF BaseReceive, ToReceiver, blinded
<1>6. Types'
  <2>1. base.y \in Scalars /\ Scalars \subseteq Nat
    BY SizeAssumption DEF IInv, Types
  <2> QED BY <1>2, <2>1 DEF IInv, Types, BaseReceive
<1>7. BaseStage'
  BY <1>1, <1>3, <1>4, <1>5 DEF BaseReceive, BaseStage
<1> QED BY <1>6, <1>7 DEF IInv

LEMMA StepBaseSend == ASSUME IInv, BaseSend PROVE IInv'
<1>1. /\ BaseStage /\ Where("readC", "readR") /\ ToReceiver(blinded(base.y))
      /\ pos["R"] = 0 /\ base.S = base.y
  BY Places DEF BaseSend, BaseStage, At, Has, Where, ToSender, AfterRows
<1>2. Head(net["R"]) = blinded(base.y)
  BY <1>1 DEF ToReceiver
<1> DEFINE m == [j \in RowSet |->
               << Seal(<<j, (base.y * blinded(base.y)[j]) % Order>>, <<j, 0>>),
                  Seal(<<j, (base.y * blinded(base.y)[j] + Order * Order - base.y * base.y) % Order>>,
                       <<j, 1>>) >>]
<1>3. Reply("R", "S", m)
  BY <1>2, Zenon DEF BaseSend
<1>4. SeedsSealed(m)
  BY SeedsOpen DEF IInv
<1> HIDE DEF m
<1>5. net' = [S |-> <<m>>, R |-> <<>>] /\ net'["S"][1] = m
  <2>1. net' = [S |-> <<m>>, R |-> <<>>]
    BY <1>1, <1>3, Moves
  <2> QED BY <2>1
<1>6. Where("readC", "writeU")'
  BY <1>1 DEF BaseSend, Where, Goto
<1>7. SeedsSealed(m)' /\ m' = m
  BY <1>4 DEF BaseSend, SeedsSealed, m, blinded
<1>8. Types'
  BY DEF IInv, Types, BaseSend
<1>9. BaseStage'
  BY <1>1, <1>5, <1>6, <1>7 DEF BaseSend, BaseStage, ToSender, SeedsSealed
<1> QED BY <1>8, <1>9 DEF IInv

LEMMA StepBaseFinish == ASSUME IInv, BaseFinish PROVE IInv'
<1>1. /\ BaseStage /\ base.S = base.y /\ SeedsSealed(net["S"][1])
      /\ \/ Where("readC", "writeU") /\ ToSender(net["S"][1]) /\ pos["R"] = 0
         \/ /\ Where("readC", AfterRows)
            /\ net = [S |-> <<net["S"][1], net["S"][2]>>, R |-> <<>>] /\ pos["R"] = ncols
            /\ RowsMasked(net["S"][2]) /\ BitsChosen
  BY Places DEF BaseFinish, BaseStage, At, Has, Where, Silent, ToReceiver
<1>2. Head(net["S"]) = net["S"][1]
  BY <1>1 DEF ToSender
<1>3. seeds' = [j \in RowSet |-> <<j, secret.s[j]>>]
  <2>1. \A j \in RowSet : Open(<<j, (secret.x[j] * base.S) % Order>>, Head(net["S"])[j][secret.s[j] + 1])
                            = <<j, secret.s[j]>>
    BY <1>1, <1>2 DEF SeedsSealed
  <2> QED BY <2>1 DEF BaseFinish
<1>4. Seeded'
  BY <1>3 DEF Seeded, BaseFinish
<1>5. Types'
  BY DEF IInv, Types, BaseFinish
<1>6. sent = 0 /\ results = <<>> /\ pos["S"] = 0 /\ Batches > 0 /\ ncols \in Nat /\ Len(results) = 0
  BY <1>1, SizeAssumption, ColumnCount DEF BaseStage
<1>7. sent' = Len(results') /\ sent' < Batches /\ pos'["S"] = sent' * ncols' /\ ncols' = ncols
  BY <1>6 DEF BaseFinish, ncols
<1>8. CASE Where("readC", "writeU") /\ ToSender(net["S"][1]) /\ pos["R"] = 0
  <2>1. Where("readU", "writeU")' /\ Silent'
    <3>1. net' = [S |-> <<>>, R |-> <<>>]
      BY <1>8, Moves DEF BaseFinish
    <3> QED BY <1>8, <3>1 DEF BaseFinish, Where, Goto, Silent
  <2>2. pos'["R"] = pos'["S"]
    BY <1>6, <1>8 DEF BaseFinish
  <2> QED BY <1>4, <1>5, <1>7, <2>1, <2>2 DEF IInv, RowsStage
<1>9. CASE /\ Where("readC", AfterRows)
           /\ net = [S |-> <<net["S"][1], net["S"][2]>>, R |-> <<>>] /\ pos["R"] = ncols
           /\ RowsMasked(net["S"][2]) /\ BitsChosen
  <2>1. Where("readU", AfterRows)'
    BY <1>9 DEF BaseFinish, Where, Goto, AfterRows
  <2>2. ToSender(net["S"][1])' /\ net'["S"][1] = net["S"][2]
    <3>1. net' = [S |-> <<net["S"][2]>>, R |-> <<>>]
      BY <1>9, Moves DEF BaseFinish
    <3> QED BY <3>1 DEF ToSender
  <2>3. RowsMasked(net["S"][1])' /\ BitsChosen'
    BY <1>9, <2>2 DEF BaseFinish, RowsMasked, BitsChosen, Cols, ncols
  <2>4. pos'["R"] = pos'["S"] + ncols'
    BY <1>6, <1>7, <1>9 DEF BaseFinish
  <2> QED BY <1>4, <1>5, <1>7, <2>1, <2>2, <2>3, <2>4 DEF IInv, RowsStage
<1> QED BY <1>1, <1>8, <1>9

LEMMA StepReceiveSetup == ASSUME IInv, ReceiveSetup PROVE IInv'
<1> DEFINE t == [j \in RowSet |-> [i \in Cols |-> G(<<j, 0>>, pos["R"] + i)]]
<1>0. PICK u : u = [j \in RowSet |-> [i \in Cols |->
                   XorBit(XorBit(G(<<j, 1>>, pos["R"] + i), G(<<j, 0>>, pos["R"] + i)), bits'[i])]]
  OBVIOUS
<1>1. /\ pos["R"] = pos["S"]
      /\ \/ /\ BaseStage /\ Where("readC", "writeU") /\ ToSender(net["S"][1]) /\ pos["R"] = 0
            /\ base.S = base.y /\ SeedsSealed(net["S"][1])
         \/ RowsStage /\ Where("readU", "writeU") /\ Silent
  BY Places DEF ReceiveSetup, BaseStage, RowsStage, CheckStage, At, Where, AfterRows
<1>2. /\ matrix' = [matrix EXCEPT !["R"] = t] /\ Send("S", u)
      /\ pos' = [pos EXCEPT !["R"] = @ + ncols] /\ kos' = kos /\ choice' = choice
  BY <1>0, Zenon DEF ReceiveSetup
<1>3. pos'["S"] = pos["S"] /\ pos'["R"] = pos["S"] + ncols /\ ncols' = ncols /\ Cols' = Cols
  BY <1>1, <1>2 DEF IInv, Types, ncols, Cols
<1>4. BitsChosen'
  <2>1. PICK pad \in Pads :
          bits' = [i \in Cols |-> IF i < M THEN choice[i]
                                  ELSE IF i < padded(M) THEN 0 ELSE pad[i - padded(M)]]
    BY DEF ReceiveSetup
  <2>2. pad \in [0..(Extra - 1) -> {0, 1}]
    BY BitAssumption
  <2>3. ASSUME NEW i \in Cols PROVE bits'[i] \in BitSet
    <3>1. i \in Nat /\ i < ncols /\ M \in Nat /\ padded(M) \in Nat
      BY ColumnCount, SizeAssumption DEF Cols
    <3>2. CASE i < M
      BY <2>1, <3>1, <3>2 DEF IInv, Types
    <3>3. CASE ~(i < M) /\ i < padded(M)
      BY <2>1, <3>3 DEF BitSet
    <3>4. CASE ~(i < M) /\ ~(i < padded(M))
      <4>1. i - padded(M) \in 0..(Extra - 1)
        BY <3>1, <3>4, ColumnCount, SizeAssumption
      <4>2. bits'[i] = pad[i - padded(M)]
        BY <2>1, <3>4
      <4> QED BY <2>2, <4>1, <4>2 DEF BitSet
    <3> QED BY <3>2, <3>3, <3>4
  <2>4. bits' \in [Cols -> BitSet]
    BY <2>1, <2>3
  <2>5. \A i \in 0..(M - 1) : i \in Cols /\ i < M
    BY ColumnCount, SizeAssumption DEF Cols
  <2>6. \A i \in 0..(M - 1) : bits'[i] = choice[i]
    BY <2>1, <2>5
  <2> QED BY <1>2, <1>3, <2>4, <2>6 DEF BitsChosen
<1>5. RowsMasked(u)'
  <2>1. matrix'["R"] = [j \in RowSet |-> [i \in Cols |-> G(<<j, 0>>, pos["S"] + i)]]
    BY <1>1, <1>2 DEF IInv, Types
  <2> QED BY <1>0, <1>1, <1>3, <2>1 DEF RowsMasked
<1>6. Types'
  <2>1. pos' \in [{"S", "R"} -> Nat]
    BY <1>2, ColumnCount DEF IInv, Types
  <2>2. matrix' = [S |-> matrix'["S"], R |-> matrix'["R"]]
    BY <1>2 DEF IInv, Types
  <2> QED BY <2>1, <2>2 DEF IInv, Types, ReceiveSetup
<1>8. CASE /\ BaseStage /\ Where("readC", "writeU") /\ ToSender(net["S"][1]) /\ pos["R"] = 0
           /\ base.S = base.y /\ SeedsSealed(net["S"][1])
  <2>1. net' = [S |-> <<net["S"][1], u>>, R |-> <<>>]
    BY <1>2, <1>8, Moves
  <2>2. net'["S"][1] = net["S"][1] /\ net'["S"][2] = u
    BY <2>1
  <2>3. Where("readC", AfterRows)'
    BY <1>8 DEF ReceiveSetup, Where, Goto, AfterRows
  <2>4. SeedsSealed(net["S"][1])'
    BY <1>8, <2>2 DEF SeedsSealed, ReceiveSetup
  <2>5. RowsMasked(net["S"][2])'
    BY <1>5, <2>2 DEF RowsMasked
  <2>6. sent' = 0 /\ results' = <<>> /\ pos'["S"] = 0 /\ pos'["R"] = ncols' /\ base'.S = base'.y
    BY <1>3, <1>8, ColumnCount DEF BaseStage, ReceiveSetup
  <2>7. net' = [S |-> <<net'["S"][1], net'["S"][2]>>, R |-> <<>>]
    BY <2>1, <2>2
  <2> QED BY <1>4, <1>6, <2>3, <2>4, <2>5, <2>6, <2>7 DEF IInv, BaseStage
<1>9. CASE RowsStage /\ Where("readU", "writeU") /\ Silent
  <2>1. net' = [S |-> <<u>>, R |-> <<>>]
    BY <1>2, <1>9, Moves
  <2>2. net'["S"][1] = u /\ ToSender(net["S"][1])'
    BY <2>1 DEF ToSender
  <2>3. Where("readU", AfterRows)'
    BY <1>9 DEF ReceiveSetup, Where, Goto, AfterRows
  <2>4. RowsMasked(net["S"][1])'
    BY <1>5, <2>2 DEF RowsMasked
  <2>5. /\ Seeded' /\ sent' = Len(results') /\ sent' < Batches /\ pos'["S"] = sent' * ncols'
        /\ pos'["R"] = pos'["S"] + ncols'
    BY <1>3, <1>9 DEF RowsStage, Seeded, ReceiveSetup
  <2> QED BY <1>4, <1>6, <2>2, <2>3, <2>4, <2>5 DEF IInv, RowsStage
<1> QED BY <1>1, <1>8, <1>9

LEMMA StepSendSetup == ASSUME IInv, SendSetup PROVE IInv'
<1> DEFINE u == net["S"][1]
<1>1. /\ RowsStage /\ Where("readU", AfterRows) /\ ToSender(u) /\ pos["R"] = pos["S"] + ncols
      /\ RowsMasked(u) /\ BitsChosen
  BY Places DEF SendSetup, RowsStage, PairsStage, At, Has, Where, Silent, ToReceiver
<1>2. Head(net["S"]) = u
  BY <1>1 DEF ToSender
<1>3. matrix' = [matrix EXCEPT !["S"] = send_setup(u)]
  BY <1>2 DEF SendSetup
<1>a. pos' \in [{"S", "R"} -> Nat]
  <2>1. pos' = [pos EXCEPT !["S"] = @ + ncols]
    BY DEF SendSetup
  <2> QED BY <2>1, ColumnCount DEF IInv, Types
<1>b. matrix' = [S |-> matrix'["S"], R |-> matrix'["R"]]
  <2>1. matrix = [S |-> matrix["S"], R |-> matrix["R"]]
    BY DEF IInv, Types
  <2> HIDE DEF u
  <2> QED BY <1>3, <2>1
<1>4. matrix'["S"] = send_setup(u) /\ matrix'["R"] = matrix["R"]
  BY <1>3 DEF IInv, Types
<1>5. /\ matrix["R"] \in [RowSet -> [Cols -> BitSet]]
      /\ \A i \in Cols : Column(send_setup(u), i) =
           IF bits[i] = 1 THEN XorCol(Column(matrix["R"], i), secret.s) ELSE Column(matrix["R"], i)
  <2>1. Types /\ Seeded /\ sent < Batches /\ pos["S"] = sent * ncols
    BY <1>1 DEF IInv, RowsStage
  <2> HIDE DEF u
  <2> QED BY <1>1, <2>1, RowsCorrelate
<1>6. ncols' = ncols /\ Cols' = Cols /\ pos'["S"] = pos["S"] + ncols /\ pos'["R"] = pos["R"]
  BY DEF IInv, Types, SendSetup, ncols, Cols
<1>7. Seeded' /\ BitsChosen' /\ Correlated'
  BY <1>1, <1>4, <1>5, <1>6 DEF RowsStage, Seeded, BitsChosen, Correlated, SendSetup
<1>8. /\ sent' = Len(results') /\ sent' < Batches
      /\ pos'["S"] = (sent' + 1) * ncols' /\ pos'["R"] = pos'["S"]
  <2>1. sent \in Nat /\ ncols \in Nat /\ pos["S"] = sent * ncols
    BY <1>1, ColumnCount DEF IInv, Types, RowsStage
  <2>2. (sent + 1) * ncols = sent * ncols + ncols
    BY <2>1
  <2> QED BY <1>1, <1>6, <2>1, <2>2 DEF RowsStage, SendSetup
<1>9. CASE kos
  <2>1. PICK c \in BitSet : coin' = [coin EXCEPT !.S = c] /\ Reply("S", "R", Commitment(c))
    BY <1>9 DEF SendSetup
  <2>2. coin'.S = c /\ coin'.R = coin.R /\ coin' = [S |-> c, R |-> coin.R, com |-> coin.com, toss |-> coin.toss]
    BY <2>1 DEF IInv, Types
  <2>3. net' = [S |-> <<>>, R |-> <<Commitment(c)>>]
    BY <1>1, <2>1, Moves
  <2>4. Where("readCoin", "readCom")'
    BY <1>1, <1>9 DEF SendSetup, Where, Goto, AfterRows
  <2>5. ToReceiver(Commitment(coin.S))'
    BY <2>2, <2>3 DEF ToReceiver, Commitment
  <2>6. Types'
    <3>2. /\ coin' = [S |-> coin'.S, R |-> coin'.R, com |-> coin'.com, toss |-> coin'.toss]
          /\ coin'.S \in BitSet /\ coin'.R \in BitSet
      BY <2>2 DEF IInv, Types
    <3> QED BY <1>a, <1>b, <3>2 DEF IInv, Types, SendSetup
  <2>7. kos'
    BY <1>9 DEF SendSetup
  <2> QED BY <1>7, <1>8, <2>4, <2>5, <2>6, <2>7 DEF IInv, CheckStage
<1>10. CASE ~kos
  <2>1. coin' = coin /\ net' = [S |-> <<>>, R |-> <<>>]
    BY <1>1, <1>10, Moves DEF SendSetup
  <2>2. Where("writeY", "readY")' /\ Silent'
    BY <1>1, <1>10, <2>1 DEF SendSetup, Where, Goto, AfterRows, Silent
  <2>3. Types'
    BY <1>a, <1>b, <2>1 DEF IInv, Types, SendSetup
  <2> QED BY <1>7, <1>8, <2>2, <2>3 DEF IInv, CheckStage
<1> QED BY <1>9, <1>10

\* What the steps of the check leave alone.
LEMMA CheckKept ==
  ASSUME IInv, CheckStage,
         UNCHANGED <<kos, secret, base, seeds, pos, matrix, bits, sent, choice, results>>
  PROVE  /\ Seeded' /\ BitsChosen' /\ Correlated'
         /\ sent' = Len(results') /\ sent' < Batches
         /\ pos'["S"] = (sent' + 1) * ncols' /\ pos'["R"] = pos'["S"]
         /\ ncols' = ncols /\ Cols' = Cols
<1>1. ncols' = ncols /\ Cols' = Cols
  BY DEF ncols, Cols
<1> QED BY <1>1 DEF CheckStage, Seeded, BitsChosen, Correlated

LEMMA StepTossReceive == ASSUME IInv, TossReceive PROVE IInv'
<1>1. CheckStage /\ kos /\ Where("readCoin", "readCom") /\ ToReceiver(Commitment(coin.S))
  BY Places DEF TossReceive, BaseStage, RowsStage, CheckStage, At, Has, Where, AfterRows, ToSender
<1>2. Head(net["R"]) = Commitment(coin.S)
  BY <1>1 DEF ToReceiver
<1>3. PICK c \in BitSet : /\ Reply("R", "S", c)
                          /\ coin' = [coin EXCEPT !.R = c, !.com = Commitment(coin.S)]
  BY <1>2 DEF TossReceive
<1>4. coin' = [S |-> coin.S, R |-> c, com |-> Commitment(coin.S), toss |-> coin.toss]
  BY <1>3 DEF IInv, Types
<1>5. net' = [S |-> <<c>>, R |-> <<>>]
  BY <1>1, <1>3, Moves
<1>6. Where("readCoin", "readCoin")' /\ ToSender(coin.R)' /\ (coin.com = Commitment(coin.S))'
  BY <1>1, <1>4, <1>5 DEF TossReceive, Where, Goto, ToSender, Commitment
<1>7. Types'
  <2>1. /\ coin' = [S |-> coin'.S, R |-> coin'.R, com |-> coin'.com, toss |-> coin'.toss]
        /\ coin'.S \in BitSet /\ coin'.R \in BitSet
    BY <1>4 DEF IInv, Types
  <2> QED BY <2>1 DEF IInv, Types, TossReceive
<1>8. kos'
  BY <1>1 DEF TossReceive
<1>9. UNCHANGED <<kos, secret, base, seeds, pos, matrix, bits, sent, choice, results>>
  BY DEF TossReceive
<1> QED BY <1>1, <1>6, <1>7, <1>8, <1>9, CheckKept DEF IInv, CheckStage

LEMMA StepTossSend == ASSUME IInv, TossSend PROVE IInv'
<1>1. /\ CheckStage /\ kos /\ Where("readCoin", "readCoin") /\ ToSender(coin.R)
      /\ coin.com = Commitment(coin.S)
  BY Places DEF TossSend, CheckStage, At, Has, Where, ToReceiver
<1>2. Head(net["S"]) = coin.R
  BY <1>1 DEF ToSender
<1>3. coin' = [coin EXCEPT !.toss = XorBit(coin.S, coin.R)] /\ Reply("S", "R", coin.S)
  BY <1>2 DEF TossSend
<1>4. coin' = [S |-> coin.S, R |-> coin.R, com |-> coin.com, toss |-> XorBit(coin.S, coin.R)]
  BY <1>3 DEF IInv, Types
<1>5. net' = [S |-> <<>>, R |-> <<coin.S>>]
  BY <1>1, <1>3, Moves
<1>6. /\ Where("readCheck", "readCoin")' /\ ToReceiver(coin.S)'
      /\ (coin.com = Commitment(coin.S))' /\ (coin.toss = XorBit(coin.S, coin.R))'
  <2>1. /\ coin'.S = coin.S /\ coin'.R = coin.R /\ coin'.com = coin.com
        /\ coin'.toss = XorBit(coin.S, coin.R)
    BY <1>4
  <2>2. Where("readCheck", "readCoin")'
    BY <1>1 DEF TossSend, Where, Goto
  <2>3. ToReceiver(coin.S)' /\ (coin.com = Commitment(coin.S))'
    BY <1>1, <1>5, <2>1 DEF ToReceiver, Commitment
  <2>4. (coin.toss = XorBit(coin.S, coin.R))'
    BY <2>1 DEF XorBit
  <2> QED BY <2>2, <2>3, <2>4
<1>7. Types'
  <2>1. /\ coin' = [S |-> coin'.S, R |-> coin'.R, com |-> coin'.com, toss |-> coin'.toss]
        /\ coin'.S \in BitSet /\ coin'.R \in BitSet
    BY <1>4 DEF IInv, Types
  <2> QED BY <2>1 DEF IInv, Types, TossSend
<1>8. kos'
  BY <1>1 DEF TossSend
<1>9. UNCHANGED <<kos, secret, base, seeds, pos, matrix, bits, sent, choice, results>>
  BY DEF TossSend
<1> QED BY <1>1, <1>6, <1>7, <1>8, <1>9, CheckKept DEF IInv, CheckStage

LEMMA StepSendCheck == ASSUME IInv, SendCheck PROVE IInv'
<1>1. /\ CheckStage /\ kos /\ Where("readCheck", "readCoin") /\ ToReceiver(coin.S)
      /\ coin.com = Commitment(coin.S) /\ coin.toss = XorBit(coin.S, coin.R)
  BY Places DEF SendCheck, CheckStage, At, Has, Where, ToSender
<1>2. Head(net["R"]) = coin.S
  BY <1>1 DEF ToReceiver
<1>3. XorBit(coin.R, coin.S) = coin.toss
  BY <1>1 DEF XorBit, IInv, Types, BitSet
<1> DEFINE m == <<Combined(coin.toss), Products(Cols, TCols, Blocks(coin.toss))>>
<1>4. Reply("R", "S", m) /\ Goto("R", "readY")
  BY <1>1, <1>2, <1>3 DEF SendCheck, TCols
<1>5. UNCHANGED <<kos, secret, base, seeds, pos, matrix, bits, coin, sent, choice, results>>
  BY DEF SendCheck
<1>6. m' = m
  BY <1>5 DEF Combined, Products, TCols, Blocks, Cols, ncols
<1> HIDE DEF m
<1>7. net' = [S |-> <<m>>, R |-> <<>>]
  BY <1>1, <1>4, Moves
<1>8. Where("readCheck", "readY")' /\ ToSender(m)'
  BY <1>1, <1>4, <1>6, <1>7 DEF Where, Goto, ToSender
<1>9. Types' /\ kos'
  BY <1>1, <1>5 DEF IInv, Types
<1> QED BY <1>1, <1>5, <1>8, <1>9, CheckKept DEF IInv, CheckStage, m

LEMMA StepReadCheck == ASSUME IInv, ReadCheck PROVE IInv'
<1> DEFINE x == Combined(coin.toss)
           t == Products(Cols, TCols, Blocks(coin.toss))
<1>1. CheckStage /\ kos /\ Where("readCheck", "readY") /\ ToSender(<<x, t>>)
  BY Places DEF ReadCheck, CheckStage, At, Has, Where, ToReceiver
<1>2. Head(net["S"])[1] = x /\ Head(net["S"])[2] = t
  <2>1. Head(net["S"]) = <<x, t>>
    BY <1>1 DEF ToSender
  <2> QED BY <2>1
<1>3. DOMAIN t = 0..(2 * K - 2)
  BY DEF Products
<1>4. \A n \in DOMAIN t :
        XorBit(Products(Cols, [i \in Cols |-> Column(matrix["S"], i)], Blocks(coin.toss))[n],
               Products({0}, [n_1 \in {0} |-> x], [n_1 \in {0} |-> secret.s])[n]) = t[n]
  BY <1>1, <1>3, Consistent DEF IInv, CheckStage
<1>5. Goto("S", "writeY")
  BY <1>2, <1>4 DEF ReadCheck
<1>6. net' = [S |-> <<>>, R |-> <<>>]
  <2> HIDE DEF x, t
  <2> QED BY <1>1, Moves DEF ReadCheck
<1>7. Where("writeY", "readY")' /\ Silent'
  BY <1>1, <1>5, <1>6 DEF Where, Goto, Silent
<1>8. UNCHANGED <<kos, secret, base, seeds, pos, matrix, bits, coin, sent, choice, results>>
  BY DEF ReadCheck
<1>9. Types'
  BY <1>8 DEF IInv, Types
<1> QED BY <1>1, <1>7, <1>8, <1>9, CheckKept DEF IInv, CheckStage

LEMMA StepSendPairs == ASSUME IInv, SendPairs PROVE IInv'
<1>1. CheckStage /\ Where("writeY", "readY") /\ Silent
  BY Places DEF SendPairs, CheckStage, At, Where
<1>2. PICK y : y = [j \in 0..(M - 1) |->
          << Seal(<<j, Column(matrix["S"], j)>>, Ideal!Plain(sent', j, 0)),
             Seal(<<j, XorCol(Column(matrix["S"], j), secret.s)>>, Ideal!Plain(sent', j, 1)) >>]
  OBVIOUS
<1>3. Send("R", y)
  BY <1>2, Zenon DEF SendPairs
<1>4. net' = [S |-> <<>>, R |-> <<y>>]
  BY <1>1, <1>3, Moves
<1>5. net'["R"][1] = y /\ ToReceiver(net["R"][1])'
  BY <1>4 DEF ToReceiver
<1>6. PairsSealed(y)'
  <2>1. \A j \in 0..(M - 1) : Open(<<j, Column(matrix["R"], j)>>, y[j][choice[j] + 1])
                                = Ideal!Plain(sent', j, choice[j])
    BY <1>1, <1>2, PairsOpen DEF IInv, CheckStage
  <2>2. matrix' = matrix /\ choice' = choice
    BY DEF SendPairs
  <2> QED BY <2>1, <2>2 DEF PairsSealed
<1>7. /\ sent' = sent + 1 /\ sent' \in Nat /\ sent' <= Batches
      /\ UNCHANGED <<kos, secret, base, seeds, pos, matrix, bits, coin, choice, results>>
  BY <1>1, SizeAssumption DEF SendPairs, CheckStage, IInv, Types
<1>8. Where(IF sent < Batches THEN "readU" ELSE "end", "readY")'
  BY <1>1 DEF SendPairs, Where, Goto
<1>9. Types'
  BY <1>7 DEF IInv, Types
<1>10. Seeded' /\ sent' = Len(results') + 1 /\ pos'["S"] = sent' * ncols' /\ pos'["R"] = pos'["S"]
  BY <1>1, <1>7 DEF CheckStage, Seeded, ncols
<1> QED BY <1>5, <1>6, <1>7, <1>8, <1>9, <1>10 DEF IInv, PairsStage, PairsSealed

\* receive returns the messages of the batch that its choice bits name.
LEMMA ReceivesChosen ==
  ASSUME IInv, Receive
  PROVE  /\ PairsStage /\ sent = Len(results) + 1 /\ sent <= Batches
         /\ Where(IF sent < Batches THEN "readU" ELSE "end", "readY")
         /\ ToReceiver(net["R"][1])
         /\ results' = Append(results, [j \in 0..(M - 1) |-> Ideal!Plain(sent, j, choice[j])])
<1>1. /\ PairsStage /\ sent = Len(results) + 1 /\ sent <= Batches
      /\ Where(IF sent < Batches THEN "readU" ELSE "end", "readY")
      /\ ToReceiver(net["R"][1]) /\ PairsSealed(net["R"][1])
  BY DEF Receive, IInv, BaseStage, RowsStage, CheckStage, PairsStage, At, Has, Where, AfterRows,
         Silent, ToSender
<1>2. Head(net["R"]) = net["R"][1]
  BY <1>1 DEF ToReceiver
<1>3. \A j \in 0..(M - 1) : Open(<<j, Column(matrix["R"], j)>>, Head(net["R"])[j][choice[j] + 1])
                              = Ideal!Plain(sent, j, choice[j])
  BY <1>1, <1>2 DEF PairsSealed
<1>4. results' = Append(results, [j \in 0..(M - 1) |-> Ideal!Plain(sent, j, choice[j])])
  BY <1>3 DEF Receive
<1> QED BY <1>1, <1>4

LEMMA StepReceive == ASSUME IInv, Receive PROVE IInv'
<1> DEFINE r == [j \in 0..(M - 1) |-> Ideal!Plain(sent, j, choice[j])]
<1>1. /\ PairsStage /\ sent = Len(results) + 1 /\ sent <= Batches
      /\ Where(IF sent < Batches THEN "readU" ELSE "end", "readY")
      /\ ToReceiver(net["R"][1])
      /\ results' = Append(results, r)
  BY ReceivesChosen
<1>2. UNCHANGED <<kos, secret, base, seeds, pos, matrix, bits, coin, sent, choice>>
  BY DEF Receive
<1>3. r \in [0..(M - 1) -> Nat \X Nat \X BitSet]
  <2>1. ASSUME NEW j \in 0..(M - 1) PROVE Ideal!Plain(sent, j, choice[j]) \in Nat \X Nat \X BitSet
    <3>1. sent \in Nat /\ choice[j] \in BitSet /\ j \in Nat
      BY SizeAssumption DEF IInv, Types
    <3> QED BY <3>1 DEF Ideal!Plain
  <2> QED BY <2>1
<1> HIDE DEF r
<1>4. /\ results' \in Seq([0..(M - 1) -> Nat \X Nat \X BitSet])
      /\ Len(results') = Len(results) + 1 /\ Len(results) \in Nat
  BY <1>1, <1>3 DEF IInv, Types
<1>5. Types'
  BY <1>2, <1>4 DEF IInv, Types
<1>6. net' = [S |-> <<>>, R |-> <<>>]
  BY <1>1, Moves DEF Receive
<1>7. Silent' /\ sent' = Len(results')
  BY <1>1, <1>2, <1>4, <1>6 DEF Silent
<1>8. Seeded' /\ pos'["S"] = sent' * ncols' /\ pos'["R"] = pos'["S"]
  BY <1>1, <1>2 DEF PairsStage, Seeded, ncols
<1>9. CASE sent < Batches
  <2>1. Where("readU", "writeU")'
    BY <1>1, <1>9 DEF Receive, Where, Goto
  <2> QED BY <1>2, <1>5, <1>7, <1>8, <1>9, <2>1 DEF IInv, RowsStage
<1>10. CASE ~(sent < Batches)
  <2>1. sent' = Batches
    BY <1>1, <1>2, <1>10, SizeAssumption DEF IInv, Types
  <2>2. Where("end", "join")'
    BY <1>1, <1>10 DEF Receive, Where, Goto
  <2> QED BY <1>5, <1>7, <1>8, <2>1, <2>2 DEF IInv, PairsStage
<1> QED BY <1>9, <1>10

LEMMA StepJoin == ASSUME IInv, Join PROVE IInv'
<1>1. PairsStage /\ sent = Len(results) /\ sent = Batches /\ Where("end", "join") /\ Silent
  BY Places DEF Join, PairsStage, At, Where
<1>2. Where("end", "end")'
  BY <1>1 DEF Join, Where, Goto
<1>3. Types'
  BY DEF Join, IInv, Types
<1> QED BY <1>1, <1>2, <1>3 DEF IInv, PairsStage, Join, Seeded, Silent, ncols

LEMMA Stutter == ASSUME IInv, UNCHANGED vars PROVE IInv'
<1>1. Types'
  BY DEF IInv, Types, vars
<1>2. ncols' = ncols /\ Cols' = Cols /\ AfterRows' = AfterRows /\ TCols' = TCols
  BY DEF vars, ncols, Cols, AfterRows, TCols
<1>3. CASE BaseStage
  <2>1. BaseStage'
    BY <1>2, <1>3 DEF vars, BaseStage, Where, Silent, ToSender, ToReceiver, blinded, SeedsSealed,
          RowsMasked, BitsChosen
  <2> QED BY <1>1, <2>1 DEF IInv
<1>4. CASE RowsStage
  <2>1. RowsStage'
    BY <1>2, <1>4 DEF vars, RowsStage, Where, Silent, ToSender, RowsMasked, BitsChosen, Seeded
  <2> QED BY <1>1, <2>1 DEF IInv
<1>5. CASE CheckStage
  <2>1. /\ Combined(coin.toss)' = Combined(coin.toss)
        /\ Products(Cols, TCols, Blocks(coin.toss))' = Products(Cols, TCols, Blocks(coin.toss))
    BY <1>2 DEF vars, Combined, Products, Blocks
  <2>2. Seeded' /\ BitsChosen' /\ Correlated'
    BY <1>2, <1>5 DEF vars, CheckStage, BitsChosen, Seeded, Correlated
  <2>3. CheckStage'
    BY <1>2, <1>5, <2>1, <2>2 DEF vars, CheckStage, Where, Silent, ToSender, ToReceiver, Commitment, XorBit
  <2> QED BY <1>1, <2>3 DEF IInv
<1>6. CASE PairsStage
  <2>1. PairsStage'
    BY <1>2, <1>6 DEF vars, PairsStage, Where, Silent, ToReceiver, PairsSealed, Seeded
  <2> QED BY <1>1, <2>1 DEF IInv
<1> QED BY <1>3, <1>4, <1>5, <1>6 DEF IInv

LEMMA NextIInv == IInv /\ [Next]_vars => IInv'
<1> SUFFICES ASSUME IInv, [Next]_vars PROVE IInv'
  OBVIOUS
<1>1. CASE SenderNext
  BY <1>1, StepBaseReceive, StepBaseFinish, StepSendSetup, StepTossSend, StepReadCheck, StepSendPairs
     DEF SenderNext
<1>2. CASE ReceiverNext
  BY <1>2, StepBaseSenderInit, StepBaseSend, StepReceiveSetup, StepTossReceive, StepSendCheck,
     StepReceive, StepJoin DEF ReceiverNext
<1>3. CASE Returned \/ UNCHANGED vars
  BY <1>3, Stutter DEF Returned
<1> QED BY <1>1, <1>2, <1>3 DEF Next

-----------------------------------------------------------------------------
(* The theorems. *)

\* The two ends of otext.rs are always at one of the stages, with the messages
\* of that stage on their way.
THEOREM Stages == Spec => []IInv
BY InitIInv, NextIInv, PTL DEF Spec

\* Column i of the sender is that of the receiver, plus s if choice bit i is
\* set, in every batch and with the padding (alsz.rs, kos.rs).
THEOREM Correlation == Spec => []ColumnsCorrelated
<1>1. IInv => ColumnsCorrelated
  <2> SUFFICES ASSUME IInv, pc["S"] \in {"readCoin", "readCheck", "writeY"} PROVE Correlated
    BY DEF ColumnsCorrelated, Correlated
  <2> QED BY Places DEF At, CheckStage
<1> QED BY <1>1, Stages, PTL

\* The commitment and the consistency check never refuse honest ends, whose
\* callers unwrap the result.
THEOREM ChecksPass == Spec => []NeverPanics
<1>1. IInv => NeverPanics
  BY Places DEF NeverPanics
<1> QED BY <1>1, Stages, PTL

\* Every step of the two ends is a step of the ideal transfers or changes
\* nothing of them: what receive returns in batch b is, for each pair, the
\* message of that batch that the choice bit names.
THEOREM TransfersIdeal == Spec => Ideal!Init /\ [][Ideal!Receive]_<<choice, results>>
<1>1. Init => Ideal!Init
  BY DEF Init, Ideal!Init, BitSet
<1>2. IInv /\ [Next]_vars => [Ideal!Receive]_<<choice, results>>
  <2> SUFFICES ASSUME IInv, [Next]_vars PROVE [Ideal!Receive]_<<choice, results>>
    OBVIOUS
  <2>1. CASE Receive
    <3>1. /\ sent = Len(results) + 1 /\ sent <= Batches
          /\ results' = Append(results, [j \in 0..(M - 1) |-> Ideal!Plain(sent, j, choice[j])])
      BY <2>1, ReceivesChosen
    <3>2. Len(results) \in Nat /\ Batches \in Nat
      BY SizeAssumption DEF IInv, Types
    <3>3. Len(results) < Batches
      BY <3>1, <3>2
    <3>4. choice' = choice
      BY <2>1 DEF Receive
    <3> QED BY <3>1, <3>3, <3>4 DEF Ideal!Receive
  <2>2. CASE ~Receive
    <3>1. choice' = choice /\ results' = results
      BY <2>2 DEF Next, SenderNext, ReceiverNext, Returned, vars, BaseReceive, BaseFinish, SendSetup,
         TossSend, ReadCheck, SendPairs, BaseSenderInit, BaseSend, ReceiveSetup, TossReceive,
         SendCheck, Join
    <3> QED BY <3>1
  <2> QED BY <2>1, <2>2
<1> QED BY <1>1, <1>2, Stages, PTL DEF Spec

=============================================================================
