--------------------------- MODULE TransposeProofs ---------------------------
(***************************************************************************)
(* sse_trans stays inside its arrays, and computes the transposition, for  *)
(* every shape that has no narrow remainder: the loop invariant, and what  *)
(* it says of byte addresses.                                              *)
(***************************************************************************)
EXTENDS Transpose, TLAPS

\* What the loops keep: the position of the block that is next.
IInv ==
  /\ shape \in Shapes
  /\ pc \in {"main", "pairs", "rest", "done"}
  /\ rr \in Nat /\ rr % 16 = 0 /\ rr <= nrows
  /\ cc \in Nat /\ cc % 8 = 0 /\ cc <= ncols
  /\ pc \in {"pairs", "rest"} => rr + 8 = nrows
  /\ pc = "pairs" => cc % 16 = 0
  /\ pc = "rest" => cc + 8 = ncols

Size == nrows \in Nat /\ ncols \in Nat /\ nrows % 8 = 0 /\ ncols % 8 = 0

\* The byte that holds bit (x, y) of a matrix of n bits a row, and its
\* address: row by row, n / 8 bytes each.
LEMMA ByteInside ==
  ASSUME NEW m \in Nat, NEW n \in Nat, n % 8 = 0,
         NEW x \in Nat, NEW y \in Nat, x < m, y < n
  PROVE  (x * n) \div 8 + y \div 8 \in 0..((m * n) \div 8 - 1)
<1> DEFINE k == n \div 8
<1>1. k \in Nat /\ n = 8 * k
  OBVIOUS
<1> HIDE DEF k
<1>2. x * n = 8 * (x * k) /\ m * n = 8 * (m * k)
  BY <1>1
<1>3. x * k \in Nat /\ m * k \in Nat
  BY <1>1
<1>4. (x * n) \div 8 = x * k /\ (m * n) \div 8 = m * k
  BY <1>2, <1>3
<1>5. y \div 8 \in Nat /\ y \div 8 <= k - 1
  BY <1>1
<1>6. (x + 1) * k <= m * k
  <2>1. \E d \in Nat : m = x + 1 + d
    <3> WITNESS m - x - 1 \in Nat
    <3> QED OBVIOUS
  <2>2. PICK d \in Nat : m = x + 1 + d
    BY <2>1
  <2>3. m * k = (x + 1) * k + d * k /\ d * k \in Nat
    BY <2>2, <1>1
  <2> QED BY <2>3, <1>1
<1>7. (x + 1) * k = x * k + k
  BY <1>1
<1> QED BY <1>1, <1>3, <1>4, <1>5, <1>6, <1>7

\* Both arrays have nrows * ncols / 8 bytes.
LEMMA InpInside ==
  ASSUME Size, NEW x \in Nat, NEW y \in Nat, x < nrows, y < ncols
  PROVE  INP(x, y) \in Bytes
BY ByteInside DEF Size, INP, Bytes

LEMMA OutInside ==
  ASSUME Size, NEW x \in Nat, NEW y \in Nat, x < nrows, y < ncols
  PROVE  OUT(x, y) \in Bytes
<1>1. (y * nrows) \div 8 + x \div 8 \in 0..((ncols * nrows) \div 8 - 1)
  BY ByteInside DEF Size
<1>2. ncols * nrows = nrows * ncols
  BY DEF Size
<1> QED BY <1>1, <1>2 DEF OUT, Bytes

\* The second byte of a sixteen-bit access is the byte of the next eight bits
\* of the row.
LEMMA NextByte ==
  ASSUME Size, NEW x \in Nat, NEW y \in Nat
  PROVE  INP(x, y) + 1 = INP(x, y + 8) /\ OUT(x, y) + 1 = OUT(x + 8, y)
<1>1. (y + 8) \div 8 = y \div 8 + 1 /\ (x + 8) \div 8 = x \div 8 + 1
  OBVIOUS
<1>2. (x * ncols) \div 8 \in Int /\ (y * nrows) \div 8 \in Int
  <2>1. x * ncols \in Int /\ y * nrows \in Int
    BY DEF Size
  <2> QED BY <2>1
<1>3. x \div 8 \in Int /\ y \div 8 \in Int
  OBVIOUS
<1> QED BY <1>1, <1>2, <1>3 DEF INP, OUT

\* The three kinds of block, at a position the loops give them.
LEMMA MainInside ==
  ASSUME Size, rr \in Nat, cc \in Nat, rr + 16 <= nrows, cc + 8 <= ncols
  PROVE  Inside(MainReads, MainWrites)
<1>1. ASSUME NEW k \in 0..15 PROVE INP(rr + k, cc) \in Bytes
  BY InpInside DEF Size
<1>2. ASSUME NEW i \in Bit PROVE OUT(rr, cc + i) \in Bytes /\ OUT(rr, cc + i) + 1 \in Bytes
  <2>1. cc + i \in Nat /\ cc + i < ncols /\ rr + 8 \in Nat /\ rr + 8 < nrows /\ rr < nrows
    BY DEF Size, Bit
  <2>2. OUT(rr, cc + i) + 1 = OUT(rr + 8, cc + i)
    BY <2>1, NextByte
  <2> QED BY <2>1, <2>2, OutInside
<1> QED BY <1>1, <1>2 DEF Inside, MainReads, MainWrites

LEMMA PairInside ==
  ASSUME Size, rr \in Nat, cc \in Nat, rr + 8 <= nrows, cc + 16 <= ncols
  PROVE  Inside(PairReads, PairWrites)
<1>1. ASSUME NEW k \in Bit PROVE INP(rr + k, cc) \in Bytes /\ INP(rr + k, cc) + 1 \in Bytes
  <2>1. rr + k \in Nat /\ rr + k < nrows /\ cc + 8 \in Nat /\ cc + 8 < ncols /\ cc < ncols
    BY DEF Size, Bit
  <2>2. INP(rr + k, cc) + 1 = INP(rr + k, cc + 8)
    BY <2>1, NextByte
  <2> QED BY <2>1, <2>2, InpInside
<1>2. ASSUME NEW i \in Bit PROVE OUT(rr, cc + i) \in Bytes /\ OUT(rr, cc + i + 8) \in Bytes
  <2>1. cc + i \in Nat /\ cc + i < ncols /\ cc + i + 8 \in Nat /\ cc + i + 8 < ncols /\ rr < nrows
    BY DEF Size, Bit
  <2> QED BY <2>1, OutInside
<1>3. PairReads \subseteq Bytes
  <2>1. SUFFICES ASSUME NEW k \in Bit, NEW b \in {0, 1}
                 PROVE  INP(rr + k, cc) + b \in Bytes
    BY DEF PairReads
  <2>2. INP(rr + k, cc) \in Int
    BY <1>1 DEF Bytes
  <2> QED BY <1>1, <2>2
<1> QED BY <1>2, <1>3 DEF Inside, PairWrites

LEMMA RestInside ==
  ASSUME Size, rr \in Nat, cc \in Nat, rr + 8 <= nrows, cc + 8 <= ncols
  PROVE  Inside(RestReads, RestWrites)
<1>1. ASSUME NEW k \in Bit PROVE INP(rr + k, cc) \in Bytes
  BY InpInside DEF Size, Bit
<1>2. ASSUME NEW i \in Bit PROVE OUT(rr, cc + i) \in Bytes
  BY OutInside DEF Size, Bit
<1> QED BY <1>1, <1>2 DEF Inside, RestReads, RestWrites

-----------------------------------------------------------------------------
LEMMA ShapeFacts ==
  ASSUME shape \in Shapes
  PROVE  /\ Size /\ nrows >= 16 /\ nrows + 16 < Word /\ ncols + 16 < Word /\ Word \in Nat
         /\ Supported => ncols >= 16 \/ nrows % 16 = 0
<1>1. shape[1] = nrows /\ shape[2] = ncols
  BY DEF shape
<1> QED BY <1>1, ShapeAssumption DEF Size, Supported

LEMMA InitIInv == Init => IInv
<1> SUFFICES ASSUME Init PROVE IInv
  OBVIOUS
<1>1. PICK s \in Shapes : nrows = s[1] /\ ncols = s[2]
  BY DEF Init
<1>2. s = <<s[1], s[2]>> /\ s[1] \in Nat /\ s[2] \in Nat
  BY <1>1, ShapeAssumption
<1>3. shape \in Shapes
  BY <1>1, <1>2 DEF shape
<1> QED BY <1>1, <1>2, <1>3 DEF Init, IInv

\* Every block the loops reach is inside the matrix, so that none of them
\* faults, and its successor position satisfies the invariant again.
LEMMA NextIInv == Supported /\ IInv /\ [Next]_vars => IInv'
<1> SUFFICES ASSUME Supported, IInv, [Next]_vars PROVE IInv'
  OBVIOUS
<1>0. /\ Size /\ nrows >= 16 /\ nrows + 16 < Word /\ ncols + 16 < Word /\ Word \in Nat
      /\ ncols >= 16 \/ nrows % 16 = 0
  BY ShapeFacts DEF IInv
<1>s. shape' = shape => nrows' = nrows /\ ncols' = ncols
  BY DEF shape
<1>1. CASE MainBlock
  <2>1. rr + 16 <= nrows /\ cc + 8 <= ncols
    BY <1>0, <1>1 DEF MainBlock, Minus16, IInv, Size
  <2>2. Inside(MainReads, MainWrites)
    BY <1>0, <2>1, MainInside DEF IInv
  <2> QED BY <1>0, <1>1, <1>s, <2>1, <2>2 DEF MainBlock, Block, IInv, Size
<1>2. CASE NextRows
  <2>1. rr + 16 <= nrows
    BY <1>0, <1>2 DEF NextRows, Minus16, IInv, Size
  <2> QED BY <1>0, <1>2, <1>s, <2>1 DEF NextRows, IInv, Size
<1>3. CASE MainEnds
  <2>1. rr = nrows \/ rr + 8 = nrows
    BY <1>0, <1>3 DEF MainEnds, Minus16, IInv, Size
  <2> QED BY <1>0, <1>3, <1>s, <2>1 DEF MainEnds, IInv, Size
<1>4. CASE PairBlock
  <2>1. ncols >= 16
    BY <1>0, <1>4 DEF PairBlock, IInv, Size
  <2>2. cc + 16 <= ncols
    BY <1>0, <1>4, <2>1 DEF PairBlock, Minus16, IInv, Size
  <2>3. Inside(PairReads, PairWrites)
    BY <1>0, <1>4, <2>2, PairInside DEF PairBlock, IInv, Size
  <2> QED BY <1>0, <1>4, <1>s, <2>2, <2>3 DEF PairBlock, Block, IInv, Size
<1>5. CASE PairsEnd
  <2>1. ncols >= 16
    BY <1>0, <1>5 DEF PairsEnd, IInv, Size
  <2>2. cc = ncols \/ cc + 8 = ncols
    BY <1>0, <1>5, <2>1 DEF PairsEnd, Minus16, IInv, Size
  <2> QED BY <1>0, <1>5, <1>s, <2>2 DEF PairsEnd, IInv, Size
<1>6. CASE RestBlock
  <2>1. Inside(RestReads, RestWrites)
    BY <1>0, <1>6, RestInside DEF RestBlock, IInv, Size
  <2> QED BY <1>0, <1>6, <1>s, <2>1 DEF RestBlock, Block, IInv, Size
<1>7. CASE UNCHANGED vars
  BY <1>7 DEF vars, IInv, shape
<1> QED BY <1>1, <1>2, <1>3, <1>4, <1>5, <1>6, <1>7 DEF Next

\* sse_trans touches no byte outside its arrays, and its loop variables stay
\* within the matrix, for every number of rows and columns that are multiples
\* of eight, sixteen rows or more, unless there is one column of bytes
\* and a remainder of eight rows.
THEOREM InsideForEveryShape == Supported => (Spec => [](TypeOK /\ InBounds))
<1> SUFFICES ASSUME Supported PROVE Spec => [](TypeOK /\ InBounds)
  OBVIOUS
<1>1. IInv => TypeOK /\ InBounds
  BY ShapeFacts DEF IInv, TypeOK, InBounds, Size
<1>2. IInv /\ [Next]_vars => IInv'
  BY NextIInv
<1> QED BY <1>1, <1>2, InitIInv, PTL DEF Spec

-----------------------------------------------------------------------------
(* What the blocks compute.  Byte a of the output holds eight rows of one
   column: Row(a) is the first of the rows and Col(a) the column. *)

Row(a) == 8 * (a % (nrows \div 8))
Col(a) == a \div (nrows \div 8)

\* Division with remainder, and that there is one way to divide.
LEMMA DivMod ==
  ASSUME NEW a \in Int, NEW n \in Nat \ {0}
  PROVE  a = n * (a \div n) + (a % n) /\ a % n \in 0..(n - 1) /\ a \div n \in Int
OBVIOUS

LEMMA DivUnique ==
  ASSUME NEW n \in Nat \ {0}, NEW q \in Int, NEW r \in 0..(n - 1)
  PROVE  (n * q + r) \div n = q /\ (n * q + r) % n = r
<1> DEFINE a == n * q + r    p == a \div n    s == a % n
<1>1. a \in Int /\ p \in Int /\ s \in 0..(n - 1) /\ n * q + r = n * p + s
  <2>1. a \in Int
    OBVIOUS
  <2> HIDE DEF a
  <2>2. p \in Int /\ s \in 0..(n - 1) /\ a = n * p + s
    BY <2>1, DivMod
  <2> QED BY <2>1, <2>2 DEF a
<1> HIDE DEF p, s
<1>2. ASSUME q < p PROVE FALSE
  <2>1. n * (p - q) >= n
    BY <1>1, <1>2
  <2>2. n * (p - q) = r - s
    BY <1>1
  <2> QED BY <1>1, <2>1, <2>2
<1>3. ASSUME q > p PROVE FALSE
  <2>1. n * (q - p) >= n
    BY <1>1, <1>3
  <2>2. n * (q - p) = s - r
    BY <1>1
  <2> QED BY <1>1, <2>1, <2>2
<1>4. p = q
  BY <1>1, <1>2, <1>3
<1>5. s = r
  BY <1>1, <1>4
<1> QED BY <1>4, <1>5 DEF p, s, a

\* OUT and the pair of Row and Col are inverse to each other.
LEMMA OutAddress ==
  ASSUME Size, NEW x \in Nat, NEW y \in Nat, x % 8 = 0, x < nrows
  PROVE  /\ OUT(x, y) = (nrows \div 8) * y + x \div 8
         /\ Row(OUT(x, y)) = x /\ Col(OUT(x, y)) = y
         /\ 8 * OUT(x, y) = nrows * y + x
<1> DEFINE n == nrows \div 8    q == x \div 8
<1>1. /\ n \in Nat /\ nrows = 8 * n /\ q \in Nat /\ x = 8 * q /\ q < n
      /\ n \in Nat \ {0} /\ q \in 0..(n - 1)
  BY DEF Size
<1> HIDE DEF n, q
<1>2. y * nrows = 8 * (n * y) /\ n * y \in Nat /\ nrows * y = 8 * (n * y)
  BY <1>1
<1>3. (y * nrows) \div 8 = n * y
  BY <1>2
<1>4. OUT(x, y) = n * y + q
  BY <1>3 DEF OUT, q
<1>5. OUT(x, y) \div n = y /\ OUT(x, y) % n = q
  <2>1. y \in Int /\ n \in Nat \ {0} /\ q \in 0..(n - 1)
    BY <1>1
  <2>2. (n * y + q) \div n = y /\ (n * y + q) % n = q
    BY <2>1, DivUnique
  <2> QED BY <1>4, <2>2
<1>6. 8 * OUT(x, y) = nrows * y + x
  BY <1>1, <1>2, <1>4
<1> QED BY <1>1, <1>4, <1>5, <1>6 DEF Row, Col, n, q

LEMMA RowCol ==
  ASSUME Size, nrows >= 8, NEW a \in Bytes
  PROVE  /\ Row(a) \in Nat /\ Row(a) % 8 = 0 /\ Row(a) < nrows
         /\ Col(a) \in Nat /\ Col(a) < ncols
         /\ OUT(Row(a), Col(a)) = a
<1> DEFINE n == nrows \div 8    x == a % n    y == a \div n
<1>1. n \in Nat \ {0} /\ nrows = 8 * n
  BY DEF Size
<1>2. nrows * ncols = 8 * (n * ncols) /\ n * ncols \in Nat
  BY <1>1 DEF Size
<1>3. (nrows * ncols) \div 8 = n * ncols
  BY <1>2
<1>4. a \in Nat /\ a < n * ncols
  BY <1>2, <1>3 DEF Bytes
<1> HIDE DEF n
<1>5. a = n * y + x /\ x \in 0..(n - 1) /\ y \in Int
  <2>1. a \in Int
    BY <1>4
  <2>2. ASSUME NEW m \in Nat \ {0}
        PROVE  a = m * (a \div m) + (a % m) /\ a % m \in 0..(m - 1) /\ a \div m \in Int
    BY <2>1, DivMod
  <2> QED BY <1>1, <2>2
<1> HIDE DEF x, y
<1>6. y >= 0
  <2> SUFFICES ASSUME y <= -1 PROVE FALSE
    BY <1>5
  <2>1. n * (0 - y) >= n
    BY <1>1, <1>5
  <2>2. n * (0 - y) = x - a
    BY <1>1, <1>4, <1>5
  <2> QED BY <1>1, <1>4, <1>5, <2>1, <2>2
<1>7. y < ncols
  <2> SUFFICES ASSUME y >= ncols PROVE FALSE
    BY <1>5 DEF Size
  <2>1. n * (y - ncols) >= 0
    BY <1>1, <1>5 DEF Size
  <2>2. n * (y - ncols) = n * y - n * ncols
    BY <1>1, <1>5 DEF Size
  <2>3. n * y \in Int
    BY <1>1, <1>5
  <2> QED BY <1>2, <1>4, <1>5, <2>1, <2>2, <2>3
<1>8. Row(a) = 8 * x /\ Col(a) = y
  BY DEF Row, Col, x, y, n
<1>9. 8 * x \in Nat /\ (8 * x) % 8 = 0 /\ 8 * x < nrows /\ (8 * x) \div 8 = x /\ y \in Nat
  BY <1>1, <1>5, <1>6
<1>10. OUT(8 * x, y) = n * y + (8 * x) \div 8
  BY <1>9, OutAddress DEF n
<1> QED BY <1>5, <1>7, <1>8, <1>9, <1>10

\* The byte of the portable code: bits y of eight consecutive rows.
LEMMA NaiveByte ==
  ASSUME Size, NEW x \in Nat, NEW y \in Nat, x % 8 = 0, x < nrows, y < ncols
  PROVE  transpose_naive[OUT(x, y)] = [k \in Bit |-> (x + k) * ncols + y]
<1>1. OUT(x, y) \in Bytes /\ 8 * OUT(x, y) = nrows * y + x
  BY OutInside, OutAddress
<1>2. ASSUME NEW k \in Bit
      PROVE  (8 * OUT(x, y) + k) % nrows = x + k /\ (8 * OUT(x, y) + k) \div nrows = y
  <2>1. x + k \in 0..(nrows - 1) /\ nrows \in Nat \ {0} /\ k \in Nat
    BY DEF Size, Bit
  <2>2. nrows * y \in Int
    BY <2>1
  <2>3. 8 * OUT(x, y) + k = nrows * y + (x + k)
    BY <1>1, <2>1, <2>2
  <2>4. (nrows * y + (x + k)) \div nrows = y /\ (nrows * y + (x + k)) % nrows = x + k
    <3>1. PICK r \in 0..(nrows - 1) : r = x + k
      BY <2>1
    <3>2. y \in Int
      OBVIOUS
    <3>3. (nrows * y + r) \div nrows = y /\ (nrows * y + r) % nrows = r
      BY <2>1, <3>2, DivUnique
    <3> QED BY <3>1, <3>3
  <2> QED BY <2>3, <2>4
<1>3. transpose_naive[OUT(x, y)] = [k \in Bit |->
        ((8 * OUT(x, y) + k) % nrows) * ncols + (8 * OUT(x, y) + k) \div nrows]
  BY <1>1 DEF transpose_naive
<1> QED BY <1>2, <1>3

\* Bit i of the byte of the input that holds columns c to c + 7 of row x.
LEMMA InputBit ==
  ASSUME Size, NEW x \in Nat, NEW c \in Nat, c % 8 = 0, NEW i \in Bit
  PROVE  Input(INP(x, c))[i] = x * ncols + (c + i)
<1> DEFINE n == ncols \div 8
<1>1. n \in Nat /\ ncols = 8 * n /\ c = 8 * (c \div 8) /\ c \div 8 \in Nat
  BY DEF Size
<1> HIDE DEF n
<1>2. x * ncols = 8 * (x * n) /\ x * n \in Nat
  BY <1>1
<1>3. (x * ncols) \div 8 = x * n
  BY <1>2
<1>4. 8 * INP(x, c) = x * ncols + c /\ INP(x, c) \in Nat
  BY <1>1, <1>2, <1>3 DEF INP
<1>5. Input(INP(x, c))[i] = 8 * INP(x, c) + i
  BY DEF Input
<1> QED BY <1>2, <1>4, <1>5 DEF Bit

-----------------------------------------------------------------------------
(* The output so far: the bytes of D as the portable code leaves them, the
   others still blank. *)

Blank == [k \in Bit |-> Zero]
Partial(D) == [a \in Bytes |-> IF a \in D THEN transpose_naive[a] ELSE Blank]

\* A block that stores the right bytes, and where it stores them.
Right(writes) == \A w \in writes : w[2] = transpose_naive[w[1]]
Area(rows, cols) == {a \in Bytes : Row(a) \in rows /\ Col(a) \in cols}
Fills(writes, area) == \A a \in Bytes : a \in area <=> \E w \in writes : w[1] = a

LEMMA BlockStores ==
  ASSUME NEW reads, NEW writes, NEW next, NEW D, NEW E,
         Block(reads, writes, next), Inside(reads, writes), Right(writes),
         Fills(writes, E), out = Partial(D)
  PROVE  out' = Partial(D \cup E)
<1>1. out' = [a \in Bytes |-> IF \E w \in writes : w[1] = a
                              THEN (CHOOSE w \in writes : w[1] = a)[2] ELSE out[a]]
  BY DEF Block
<1>2. ASSUME NEW a \in Bytes, \E w \in writes : w[1] = a
      PROVE  (CHOOSE w \in writes : w[1] = a)[2] = transpose_naive[a]
  <2>1. PICK v : v = CHOOSE w \in writes : w[1] = a
    OBVIOUS
  <2>2. v \in writes /\ v[1] = a
    BY <1>2, <2>1
  <2> QED BY <2>1, <2>2 DEF Right
<1>3. ASSUME NEW a \in Bytes PROVE out[a] = IF a \in D THEN transpose_naive[a] ELSE Blank
  BY DEF Partial
<1>4. ASSUME NEW a \in Bytes
      PROVE  (IF \E w \in writes : w[1] = a
              THEN (CHOOSE w \in writes : w[1] = a)[2] ELSE out[a])
             = IF a \in D \cup E THEN transpose_naive[a] ELSE Blank
  <2>1. CASE \E w \in writes : w[1] = a
    <3>1. a \in E
      BY <2>1 DEF Fills
    <3> QED BY <1>2, <2>1, <3>1
  <2>2. CASE ~ \E w \in writes : w[1] = a
    <3>1. a \notin E
      BY <2>2 DEF Fills
    <3> QED BY <1>3, <2>2, <3>1
  <2> QED BY <2>1, <2>2
<1> QED BY <1>1, <1>4 DEF Partial

\* Eight stores of one block: at row x, one byte for each of the columns from c,
\* with the bits of eight rows of the input.
Slab(x, c) == {<<OUT(x, c + i), [k \in Bit |-> (x + k) * ncols + (c + i)]>> : i \in Bit}

LEMMA SlabRight ==
  ASSUME Size, NEW x \in Nat, NEW c \in Nat, x % 8 = 0, x < nrows, c + 8 <= ncols
  PROVE  Right(Slab(x, c)) /\ Fills(Slab(x, c), Area({x}, c..(c + 7)))
<1>1. ASSUME NEW i \in Bit
      PROVE  /\ c + i \in Nat /\ c + i < ncols
             /\ OUT(x, c + i) \in Bytes
             /\ Row(OUT(x, c + i)) = x /\ Col(OUT(x, c + i)) = c + i
             /\ transpose_naive[OUT(x, c + i)] = [k \in Bit |-> (x + k) * ncols + (c + i)]
  <2>1. PICK y \in Nat : y = c + i /\ y < ncols
    BY DEF Bit, Size
  <2>2. /\ OUT(x, y) \in Bytes /\ Row(OUT(x, y)) = x /\ Col(OUT(x, y)) = y
        /\ transpose_naive[OUT(x, y)] = [k \in Bit |-> (x + k) * ncols + y]
    BY <2>1, OutInside, OutAddress, NaiveByte
  <2> QED BY <2>1, <2>2
<1>2. Right(Slab(x, c))
  BY <1>1 DEF Right, Slab
<1>3. ASSUME NEW a \in Bytes, a \in Area({x}, c..(c + 7))
      PROVE  \E w \in Slab(x, c) : w[1] = a
  <2>1. nrows >= 8
    BY DEF Size
  <2>2. Row(a) = x /\ Col(a) \in c..(c + 7) /\ OUT(Row(a), Col(a)) = a
    BY <1>3, <2>1, RowCol DEF Area
  <2>3. PICK i \in Bit : Col(a) = c + i
    <3>1. Col(a) - c \in Bit /\ Col(a) = c + (Col(a) - c)
      BY <2>2 DEF Bit
    <3> QED BY <3>1
  <2>4. <<OUT(x, c + i), [k \in Bit |-> (x + k) * ncols + (c + i)]>> \in Slab(x, c)
    BY DEF Slab
  <2>5. OUT(x, c + i) = a
    BY <2>2, <2>3
  <2> QED BY <2>4, <2>5
<1>4. ASSUME NEW a \in Bytes, NEW w \in Slab(x, c), w[1] = a
      PROVE  a \in Area({x}, c..(c + 7))
  <2>1. PICK i \in Bit : w = <<OUT(x, c + i), [k \in Bit |-> (x + k) * ncols + (c + i)]>>
    BY DEF Slab
  <2>2. a = OUT(x, c + i)
    BY <1>4, <2>1
  <2>3. c + i \in c..(c + 7)
    BY DEF Bit
  <2> QED BY <1>1, <2>2, <2>3 DEF Area
<1> QED BY <1>2, <1>3, <1>4 DEF Fills

\* The bytes the mask instruction gives are those of the slabs.
LEMMA MainSlabs ==
  ASSUME Size, rr \in Nat, cc \in Nat, cc % 8 = 0
  PROVE  MainWrites = Slab(rr, cc) \cup Slab(rr + 8, cc)
<1>1. ASSUME NEW i \in Bit, NEW k \in 0..15
      PROVE  Movemask(Column, i)[k] = (rr + k) * ncols + (cc + i)
  <2>1. PICK x \in Nat : x = rr + k
    OBVIOUS
  <2>2. Input(INP(x, cc))[i] = x * ncols + (cc + i)
    BY InputBit
  <2> QED BY <2>1, <2>2 DEF Movemask, Column
<1>2. ASSUME NEW i \in Bit
      PROVE  LowByte(Movemask(Column, i)) = [k \in Bit |-> (rr + k) * ncols + (cc + i)]
  <2>1. ASSUME NEW k \in Bit PROVE Movemask(Column, i)[k] = (rr + k) * ncols + (cc + i)
    BY <1>1 DEF Bit
  <2> QED BY <2>1 DEF LowByte
<1>3. ASSUME NEW i \in Bit
      PROVE  HighByte(Movemask(Column, i)) = [k \in Bit |-> ((rr + 8) + k) * ncols + (cc + i)]
  <2>1. ASSUME NEW k \in Bit
        PROVE  Movemask(Column, i)[k + 8] = ((rr + 8) + k) * ncols + (cc + i)
    <3>1. k + 8 \in 0..15 /\ rr + (k + 8) = (rr + 8) + k
      BY DEF Bit
    <3>2. Movemask(Column, i)[k + 8] = (rr + (k + 8)) * ncols + (cc + i)
      BY <1>1, <3>1
    <3> QED BY <3>1, <3>2
  <2> QED BY <2>1 DEF HighByte
<1>4. ASSUME NEW i \in Bit PROVE OUT(rr, cc + i) + 1 = OUT(rr + 8, cc + i)
  <2>1. PICK y \in Nat : y = cc + i
    BY DEF Bit
  <2> QED BY <2>1, NextByte
<1>5. {<<OUT(rr, cc + i), LowByte(Movemask(Column, i))>> : i \in Bit} = Slab(rr, cc)
  BY <1>2 DEF Slab
<1>6. {<<OUT(rr, cc + i) + 1, HighByte(Movemask(Column, i))>> : i \in Bit} = Slab(rr + 8, cc)
  BY <1>3, <1>4 DEF Slab
<1> QED BY <1>5, <1>6 DEF MainWrites

LEMMA PairSlabs ==
  ASSUME Size, rr \in Nat, cc \in Nat, cc % 8 = 0, nrows % 16 # 0
  PROVE  PairWrites = Slab(rr, cc) \cup Slab(rr, cc + 8)
<1>1. Simple
  BY DEF Simple, Size
<1>2. ASSUME NEW k \in Bit
      PROVE  /\ Pair[k] = Input(INP(rr + k, cc))
             /\ Pair[k + 8] = Input(INP(rr + k, cc + 8))
  <2>1. /\ k \in 0..15 /\ k % 8 = k /\ k \div 8 = 0
        /\ k + 8 \in 0..15 /\ (k + 8) % 8 = k /\ (k + 8) \div 8 = 1
    BY DEF Bit
  <2>2. PICK x \in Nat : x = rr + k
    BY DEF Bit
  <2>3. INP(x, cc) + 1 = INP(x, cc + 8)
    BY NextByte
  <2>4. INP(x, cc) + 0 = INP(x, cc)
    <3>1. x * ncols \in Int
      BY DEF Size
    <3>2. (x * ncols) \div 8 \in Int /\ cc \div 8 \in Int
      BY <3>1
    <3> QED BY <3>2 DEF INP
  <2>5. Pair[k] = Input(INP(rr + (k % 8), cc) + k \div 8)
    BY <1>1, <2>1 DEF Pair
  <2>6. Pair[k + 8] = Input(INP(rr + ((k + 8) % 8), cc) + (k + 8) \div 8)
    BY <1>1, <2>1 DEF Pair
  <2>7. Pair[k] = Input(INP(x, cc) + 0) /\ Pair[k + 8] = Input(INP(x, cc) + 1)
    BY <2>1, <2>2, <2>5, <2>6
  <2> QED BY <2>2, <2>3, <2>4, <2>7
<1>3. ASSUME NEW i \in Bit, NEW k \in Bit
      PROVE  /\ Movemask(Pair, i)[k] = (rr + k) * ncols + (cc + i)
             /\ Movemask(Pair, i)[k + 8] = (rr + k) * ncols + ((cc + 8) + i)
  <2>1. PICK x \in Nat : x = rr + k
    BY DEF Bit
  <2>2. cc + 8 \in Nat /\ (cc + 8) % 8 = 0
    OBVIOUS
  <2>3. /\ Input(INP(x, cc))[i] = x * ncols + (cc + i)
        /\ Input(INP(x, cc + 8))[i] = x * ncols + ((cc + 8) + i)
    BY <2>2, InputBit
  <2>4. k \in DOMAIN Pair /\ k + 8 \in DOMAIN Pair
    BY DEF Pair, Bit
  <2>5. Movemask(Pair, i)[k] = Pair[k][i] /\ Movemask(Pair, i)[k + 8] = Pair[k + 8][i]
    BY <2>4 DEF Movemask
  <2> QED BY <1>2, <2>1, <2>3, <2>5
<1>4. ASSUME NEW i \in Bit
      PROVE  /\ LowByte(Movemask(Pair, i)) = [k \in Bit |-> (rr + k) * ncols + (cc + i)]
             /\ HighByte(Movemask(Pair, i)) = [k \in Bit |-> (rr + k) * ncols + ((cc + 8) + i)]
             /\ cc + i + 8 = (cc + 8) + i
  <2>1. cc + i + 8 = (cc + 8) + i
    BY DEF Bit
  <2> QED BY <1>3, <2>1 DEF LowByte, HighByte
<1>5. {<<OUT(rr, cc + i), LowByte(Movemask(Pair, i))>> : i \in Bit} = Slab(rr, cc)
  BY <1>4 DEF Slab
<1>6. {<<OUT(rr, cc + i + 8), HighByte(Movemask(Pair, i))>> : i \in Bit} = Slab(rr, cc + 8)
  BY <1>4 DEF Slab
<1> QED BY <1>5, <1>6 DEF PairWrites

LEMMA RestSlab ==
  ASSUME Size, rr \in Nat, cc \in Nat, cc % 8 = 0
  PROVE  RestWrites = Slab(rr, cc)
<1>1. ASSUME NEW i \in Bit, NEW k \in Bit
      PROVE  Movemask(Rest, i)[k] = (rr + k) * ncols + (cc + i)
  <2>1. PICK x \in Nat : x = rr + k
    BY DEF Bit
  <2>2. Input(INP(x, cc))[i] = x * ncols + (cc + i)
    BY InputBit
  <2> QED BY <2>1, <2>2 DEF Movemask, Rest, Bit
<1>2. ASSUME NEW i \in Bit
      PROVE  LowByte(Movemask(Rest, i)) = [k \in Bit |-> (rr + k) * ncols + (cc + i)]
  BY <1>1 DEF LowByte
<1> QED BY <1>2 DEF RestWrites, Slab

\* Two slabs, each of them right, make a right block.
LEMMA TwoSlabs ==
  ASSUME NEW A, NEW B, NEW E, NEW F, Right(A), Right(B), Fills(A, E), Fills(B, F)
  PROVE  Right(A \cup B) /\ Fills(A \cup B, E \cup F)
<1>1. Right(A \cup B)
  BY DEF Right
<1> QED BY <1>1 DEF Fills

-----------------------------------------------------------------------------
\* The bytes stored so far: all of the rows before rr, and of the sixteen rows
\* from rr the columns before cc.
Done == {a \in Bytes : \/ pc = "done"
                       \/ Row(a) < rr
                       \/ Row(a) < rr + 16 /\ Col(a) < cc}

\* The loop invariant of the whole function.  Between the main loop and
\* the remaining rows nothing of those has been stored.
OInv == /\ IInv
        /\ pc = "main" /\ rr + 16 > nrows => cc = 0
        /\ out = Partial(Done)

\* What each kind of block adds, as an area of the output.
LEMMA MainAdds ==
  ASSUME IInv, pc = "main", rr + 16 <= nrows, cc + 8 <= ncols
  PROVE  Right(MainWrites)
         /\ Fills(MainWrites, Area({rr}, cc..(cc + 7)) \cup Area({rr + 8}, cc..(cc + 7)))
<1>1. Size
  BY ShapeFacts DEF IInv
<1>2. MainWrites = Slab(rr, cc) \cup Slab(rr + 8, cc)
  BY <1>1, MainSlabs DEF IInv
<1>3. Right(Slab(rr, cc)) /\ Fills(Slab(rr, cc), Area({rr}, cc..(cc + 7)))
  <2>1. rr % 8 = 0 /\ rr < nrows
    BY <1>1 DEF IInv, Size
  <2> QED BY <1>1, <2>1, SlabRight DEF IInv
<1>4. Right(Slab(rr + 8, cc)) /\ Fills(Slab(rr + 8, cc), Area({rr + 8}, cc..(cc + 7)))
  <2>1. PICK x \in Nat : x = rr + 8 /\ x % 8 = 0 /\ x < nrows
    BY <1>1 DEF IInv, Size
  <2>2. Right(Slab(x, cc)) /\ Fills(Slab(x, cc), Area({x}, cc..(cc + 7)))
    BY <1>1, <2>1, SlabRight DEF IInv
  <2> QED BY <2>1, <2>2
<1> QED BY <1>2, <1>3, <1>4, TwoSlabs

LEMMA PairAdds ==
  ASSUME IInv, pc = "pairs", cc + 16 <= ncols
  PROVE  Right(PairWrites)
         /\ Fills(PairWrites, Area({rr}, cc..(cc + 7)) \cup Area({rr}, (cc + 8)..(cc + 15)))
<1>1. Size
  BY ShapeFacts DEF IInv
<1>2. PairWrites = Slab(rr, cc) \cup Slab(rr, cc + 8)
  <2>1. nrows % 16 # 0
    BY <1>1 DEF IInv, Size
  <2> QED BY <1>1, <2>1, PairSlabs DEF IInv
<1>a. rr % 8 = 0 /\ rr < nrows /\ cc + 8 <= ncols
  BY <1>1 DEF IInv, Size
<1>3. Right(Slab(rr, cc)) /\ Fills(Slab(rr, cc), Area({rr}, cc..(cc + 7)))
  BY <1>1, <1>a, SlabRight DEF IInv
<1>4. Right(Slab(rr, cc + 8)) /\ Fills(Slab(rr, cc + 8), Area({rr}, (cc + 8)..(cc + 15)))
  <2>1. PICK y \in Nat : y = cc + 8 /\ y + 8 <= ncols /\ y + 7 = cc + 15
    BY <1>1 DEF IInv, Size
  <2>2. Right(Slab(rr, y)) /\ Fills(Slab(rr, y), Area({rr}, y..(y + 7)))
    BY <1>1, <1>a, <2>1, SlabRight DEF IInv
  <2> QED BY <2>1, <2>2
<1> QED BY <1>2, <1>3, <1>4, TwoSlabs

LEMMA RestAdds ==
  ASSUME IInv, pc = "rest"
  PROVE  Right(RestWrites) /\ Fills(RestWrites, Area({rr}, cc..(cc + 7)))
<1>1. Size
  BY ShapeFacts DEF IInv
<1>2. rr % 8 = 0 /\ rr < nrows /\ cc + 8 <= ncols
  BY <1>1 DEF IInv, Size
<1>3. RestWrites = Slab(rr, cc)
  BY <1>1, RestSlab DEF IInv
<1> QED BY <1>1, <1>2, <1>3, SlabRight DEF IInv

LEMMA SameMatrix ==
  ASSUME nrows' = nrows, ncols' = ncols
  PROVE  /\ Bytes' = Bytes /\ transpose_naive' = transpose_naive /\ Blank' = Blank
         /\ \A a : a \in Done' <=> a \in Bytes /\ \/ pc' = "done"
                                                  \/ Row(a) < rr'
                                                  \/ Row(a) < rr' + 16 /\ Col(a) < cc'
<1>1. Bytes' = Bytes
  BY DEF Bytes
<1>2. transpose_naive' = transpose_naive
  BY <1>1 DEF transpose_naive, Bit
<1>3. Blank' = Blank
  BY DEF Blank, Bit, Zero
<1> QED BY <1>1, <1>2, <1>3 DEF Done, Row, Col

LEMMA Carry ==
  ASSUME nrows' = nrows, ncols' = ncols, NEW E, out' = Partial(Done \cup E),
         \A a \in Bytes : a \in Done' <=> a \in Done \/ a \in E
  PROVE  (out = Partial(Done))'
<1>1. out' = [a \in Bytes |-> IF a \in Done \cup E THEN transpose_naive[a] ELSE Blank]
  BY DEF Partial
<1>2. out' = [a \in Bytes |-> IF a \in Done' THEN transpose_naive[a] ELSE Blank]
  BY <1>1
<1>3. out' = [a \in Bytes' |-> IF a \in Done' THEN transpose_naive'[a] ELSE Blank']
  BY <1>2, SameMatrix
<1> QED BY <1>3 DEF Partial

LEMMA InitOInv == Init => OInv
<1> SUFFICES ASSUME Init PROVE OInv
  OBVIOUS
<1>1. IInv /\ pc = "main" /\ rr = 0 /\ cc = 0
  BY InitIInv DEF Init
<1>2. Size /\ nrows >= 16
  BY <1>1, ShapeFacts DEF IInv
<1>3. ASSUME NEW a \in Bytes PROVE a \notin Done
  <2>1. Row(a) \in Nat /\ Col(a) \in Nat
    BY <1>2, RowCol DEF Size
  <2> QED BY <1>1, <2>1 DEF Done
<1>4. out = [a \in Bytes |-> Blank]
  BY DEF Init, Blank
<1> QED BY <1>1, <1>3, <1>4 DEF OInv, Partial

\* Each step stores what it adds to the area that is done, and nothing else.
LEMMA NextOInv == Supported /\ OInv /\ [Next]_vars => OInv'
<1> SUFFICES ASSUME Supported, OInv, [Next]_vars PROVE OInv'
  OBVIOUS
<1>i. IInv /\ IInv'
  BY NextIInv DEF OInv
<1>0. /\ Size /\ nrows >= 16 /\ nrows + 16 < Word /\ ncols + 16 < Word /\ Word \in Nat
      /\ ncols >= 16 \/ nrows % 16 = 0
      /\ nrows \in Nat /\ ncols \in Nat /\ rr \in Nat /\ cc \in Nat
  BY <1>i, ShapeFacts DEF IInv, Size
<1>s. shape' = shape => nrows' = nrows /\ ncols' = ncols
  BY DEF shape
<1>a. ASSUME NEW a \in Bytes
      PROVE  /\ Row(a) \in Nat /\ Row(a) % 8 = 0 /\ Row(a) < nrows
             /\ Col(a) \in Nat /\ Col(a) < ncols
             /\ a \in Done <=> \/ pc = "done"
                               \/ Row(a) < rr
                               \/ Row(a) < rr + 16 /\ Col(a) < cc
  BY <1>0, RowCol DEF Size, Done
<1>o. out = Partial(Done)
  BY DEF OInv
<1>1. CASE MainBlock
  <2>1. pc = "main" /\ rr + 16 <= nrows /\ cc + 8 <= ncols
    BY <1>0, <1>1, <1>i DEF MainBlock, Minus16, IInv, Size
  <2>2. Inside(MainReads, MainWrites)
    BY <1>0, <2>1, MainInside DEF IInv
  <2> DEFINE E == Area({rr}, cc..(cc + 7)) \cup Area({rr + 8}, cc..(cc + 7))
  <2>3. Right(MainWrites) /\ Fills(MainWrites, E)
    BY <1>i, <2>1, MainAdds
  <2>4. pc' = "main" /\ nrows' = nrows /\ ncols' = ncols /\ rr' = rr /\ cc' = cc + 8
    BY <1>1, <1>s, <2>2 DEF MainBlock, Block
  <2>5. out' = Partial(Done \cup E)
    <3> HIDE DEF E
    <3> QED BY <1>1, <1>o, <2>2, <2>3, BlockStores DEF MainBlock
  <2>6. ASSUME NEW a \in Bytes PROVE a \in Done' <=> a \in Done \/ a \in E
    <3>1. a \in Done' <=> Row(a) < rr \/ (Row(a) < rr + 16 /\ Col(a) < cc + 8)
      BY <2>4, SameMatrix
    <3>2. a \in E <=> (Row(a) = rr \/ Row(a) = rr + 8) /\ Col(a) \in cc..(cc + 7)
      BY DEF Area
    <3>3. a \in Done <=> Row(a) < rr \/ (Row(a) < rr + 16 /\ Col(a) < cc)
      BY <1>a, <2>1
    <3>4. rr % 16 = 0
      BY <1>i DEF IInv
    <3> HIDE DEF E
    <3>5. PICK x, y \in Nat : x = Row(a) /\ y = Col(a) /\ x % 8 = 0
      BY <1>a
    <3>6. x < rr + 16 <=> x < rr \/ x = rr \/ x = rr + 8
      BY <1>0, <3>4, <3>5
    <3> QED BY <1>0, <3>1, <3>2, <3>3, <3>5, <3>6
  <2>7. (out = Partial(Done))'
    <3> HIDE DEF E
    <3> QED BY <2>4, <2>5, <2>6, Carry
  <2> QED BY <1>0, <1>i, <2>1, <2>4, <2>7 DEF OInv
<1>2. CASE NextRows
  <2>1. pc = "main" /\ rr + 16 <= nrows /\ cc >= ncols
    BY <1>0, <1>2, <1>i DEF NextRows, Minus16, IInv, Size
  <2>2. pc' = "main" /\ nrows' = nrows /\ ncols' = ncols /\ rr' = rr + 16 /\ cc' = 0 /\ out' = out
    BY <1>2, <1>s, <2>1 DEF NextRows
  <2>3. ASSUME NEW a \in Bytes PROVE a \in Done' <=> a \in Done \/ a \in {}
    <3>1. a \in Done' <=> Row(a) < rr + 16 \/ (Row(a) < rr + 16 + 16 /\ Col(a) < 0)
      BY <2>2, SameMatrix
    <3> QED BY <1>0, <1>a, <2>1, <3>1
  <2>4. (out = Partial(Done))'
    BY <1>o, <2>2, <2>3, Carry
  <2> QED BY <1>i, <2>2, <2>4 DEF OInv
<1>3. CASE MainEnds
  <2>1. pc = "main" /\ cc = 0 /\ (rr = nrows \/ rr + 8 = nrows)
    BY <1>0, <1>3, <1>i DEF MainEnds, Minus16, IInv, Size, OInv
  <2>2. /\ nrows' = nrows /\ ncols' = ncols /\ rr' = rr /\ cc' = 0 /\ out' = out
        /\ pc' = IF rr = nrows THEN "done" ELSE "pairs"
    BY <1>3, <1>s DEF MainEnds
  <2>3. ASSUME NEW a \in Bytes PROVE a \in Done' <=> a \in Done \/ a \in {}
    <3>1. a \in Done' <=> pc' = "done" \/ Row(a) < rr \/ (Row(a) < rr + 16 /\ Col(a) < 0)
      BY <2>2, SameMatrix
    <3> QED BY <1>0, <1>a, <2>1, <2>2, <3>1
  <2>4. (out = Partial(Done))'
    BY <1>o, <2>2, <2>3, Carry
  <2> QED BY <1>i, <2>2, <2>4 DEF OInv
<1>4. CASE PairBlock
  <2>1. pc = "pairs" /\ rr + 8 = nrows /\ ncols >= 16
    BY <1>0, <1>4, <1>i DEF PairBlock, IInv, Size
  <2>2. cc + 16 <= ncols
    BY <1>0, <1>4, <2>1 DEF PairBlock, Minus16
  <2>3. Inside(PairReads, PairWrites)
    BY <1>0, <2>1, <2>2, PairInside
  <2> DEFINE E == Area({rr}, cc..(cc + 7)) \cup Area({rr}, (cc + 8)..(cc + 15))
  <2>4. Right(PairWrites) /\ Fills(PairWrites, E)
    BY <1>i, <2>1, <2>2, PairAdds
  <2>5. pc' = "pairs" /\ nrows' = nrows /\ ncols' = ncols /\ rr' = rr /\ cc' = cc + 16
    BY <1>4, <1>s, <2>3 DEF PairBlock, Block
  <2>6. out' = Partial(Done \cup E)
    <3> HIDE DEF E
    <3> QED BY <1>4, <1>o, <2>3, <2>4, BlockStores DEF PairBlock
  <2>7. ASSUME NEW a \in Bytes PROVE a \in Done' <=> a \in Done \/ a \in E
    <3>1. a \in Done' <=> Row(a) < rr \/ (Row(a) < rr + 16 /\ Col(a) < cc + 16)
      BY <2>5, SameMatrix
    <3>2. a \in E <=> Row(a) = rr /\ (Col(a) \in cc..(cc + 7) \/ Col(a) \in (cc + 8)..(cc + 15))
      BY DEF Area
    <3>3. a \in Done <=> Row(a) < rr \/ (Row(a) < rr + 16 /\ Col(a) < cc)
      BY <1>a, <2>1
    <3>4. rr % 16 = 0
      BY <1>i DEF IInv
    <3> HIDE DEF E
    <3>5. PICK x, y \in Nat : x = Row(a) /\ y = Col(a) /\ x % 8 = 0 /\ x < nrows
      BY <1>a
    <3>6. x < rr \/ x = rr
      BY <1>0, <2>1, <3>4, <3>5
    <3> QED BY <1>0, <3>1, <3>2, <3>3, <3>5, <3>6
  <2>8. (out = Partial(Done))'
    <3> HIDE DEF E
    <3> QED BY <2>5, <2>6, <2>7, Carry
  <2> QED BY <1>i, <2>5, <2>8 DEF OInv
<1>5. CASE PairsEnd
  <2>1. pc = "pairs" /\ rr + 8 = nrows /\ ncols >= 16
    BY <1>0, <1>5, <1>i DEF PairsEnd, IInv, Size
  <2>2. /\ nrows' = nrows /\ ncols' = ncols /\ rr' = rr /\ cc' = cc /\ out' = out
        /\ pc' = IF cc = ncols THEN "done" ELSE "rest"
    BY <1>5, <1>s DEF PairsEnd
  <2>3. ASSUME NEW a \in Bytes PROVE a \in Done' <=> a \in Done \/ a \in {}
    <3>1. a \in Done' <=> pc' = "done" \/ Row(a) < rr \/ (Row(a) < rr + 16 /\ Col(a) < cc)
      BY <2>2, SameMatrix
    <3> QED BY <1>0, <1>a, <2>1, <2>2, <3>1
  <2>4. (out = Partial(Done))'
    BY <1>o, <2>2, <2>3, Carry
  <2> QED BY <1>i, <2>2, <2>4 DEF OInv
<1>6. CASE RestBlock
  <2>1. pc = "rest" /\ rr + 8 = nrows /\ cc + 8 = ncols
    BY <1>0, <1>6, <1>i DEF RestBlock, IInv, Size
  <2>2. Inside(RestReads, RestWrites)
    BY <1>0, <2>1, RestInside
  <2> DEFINE E == Area({rr}, cc..(cc + 7))
  <2>3. Right(RestWrites) /\ Fills(RestWrites, E)
    BY <1>i, <2>1, RestAdds
  <2>4. pc' = "done" /\ nrows' = nrows /\ ncols' = ncols
    BY <1>6, <1>s, <2>2 DEF RestBlock, Block
  <2>5. out' = Partial(Done \cup E)
    <3> HIDE DEF E
    <3> QED BY <1>6, <1>o, <2>2, <2>3, BlockStores DEF RestBlock
  <2>6. ASSUME NEW a \in Bytes PROVE a \in Done' <=> a \in Done \/ a \in E
    <3>1. a \in Done'
      BY <2>4, SameMatrix
    <3>2. a \in E <=> Row(a) = rr /\ Col(a) \in cc..(cc + 7)
      BY DEF Area
    <3>3. a \in Done <=> Row(a) < rr \/ (Row(a) < rr + 16 /\ Col(a) < cc)
      BY <1>a, <2>1
    <3>4. rr % 16 = 0
      BY <1>i DEF IInv
    <3> HIDE DEF E
    <3>5. PICK x, y \in Nat : x = Row(a) /\ y = Col(a) /\ x % 8 = 0 /\ x < nrows /\ y < ncols
      BY <1>a
    <3>6. x < rr \/ x = rr
      BY <1>0, <2>1, <3>4, <3>5
    <3> QED BY <1>0, <2>1, <3>1, <3>2, <3>3, <3>5, <3>6
  <2>7. (out = Partial(Done))'
    <3> HIDE DEF E
    <3> QED BY <2>4, <2>5, <2>6, Carry
  <2> QED BY <1>i, <2>4, <2>7 DEF OInv
<1>7. CASE UNCHANGED vars
  <2>1. nrows' = nrows /\ ncols' = ncols /\ rr' = rr /\ cc' = cc /\ pc' = pc /\ out' = out
    BY <1>7 DEF vars, shape
  <2>2. ASSUME NEW a \in Bytes PROVE a \in Done' <=> a \in Done \/ a \in {}
    BY <1>a, <2>1, SameMatrix
  <2>3. (out = Partial(Done))'
    BY <1>o, <2>1, <2>2, Carry
  <2> QED BY <1>i, <2>1, <2>3 DEF OInv
<1> QED BY <1>1, <1>2, <1>3, <1>4, <1>5, <1>6, <1>7 DEF Next

\* When sse_trans returns, its output is that of the portable code, for every
\* supported shape; until then a byte is either blank or final, so that no
\* block undoes the work of another.
THEOREM TransposesEveryShape == Supported => (Spec => []Transposed)
<1> SUFFICES ASSUME Supported PROVE Spec => []Transposed
  OBVIOUS
<1>1. OInv => Transposed
  <2> SUFFICES ASSUME OInv PROVE Transposed
    OBVIOUS
  <2>1. out = [a \in Bytes |-> IF a \in Done THEN transpose_naive[a] ELSE Blank]
    BY DEF OInv, Partial
  <2>2. ASSUME pc = "done" PROVE out = transpose_naive
    <3>1. \A a \in Bytes : a \in Done
      BY <2>2 DEF Done
    <3>2. out = [a \in Bytes |-> transpose_naive[a]]
      BY <2>1, <3>1
    <3>3. transpose_naive = [a \in Bytes |-> transpose_naive[a]]
      BY DEF transpose_naive
    <3> QED BY <3>2, <3>3
  <2>3. \A a \in Bytes : out[a] # transpose_naive[a] => out[a] = Blank
    BY <2>1
  <2> QED BY <2>2, <2>3 DEF Transposed, Blank
<1>2. OInv /\ [Next]_vars => OInv'
  BY NextOInv
<1> QED BY <1>1, <1>2, InitOInv, PTL DEF Spec

=============================================================================
