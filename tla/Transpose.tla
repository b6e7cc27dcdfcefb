------------------------------ MODULE Transpose ------------------------------
(***************************************************************************)
(* The bit-matrix transposition of the oblivious transfer library:         *)
(* sse_trans (cbits/transpose.c), called through utils::transpose with the *)
(* 128 rows of a transfer extension as nrows.  A bit of the input is its   *)
(* own number in the array, so that one behaviour stands for every matrix  *)
(* of that shape; addresses are the byte addresses the macros compute, and *)
(* the loop bounds are computed in 64-bit words, where nrows - 16 wraps.   *)
(***************************************************************************)
EXTENDS Integers

CONSTANTS Shapes,  \* the pairs <<nrows, ncols>> asked for
          Word     \* 2^64

\* utils::_transpose asserts that both sizes are multiples of eight and that
\* there are at least sixteen rows; the sizes of real arrays are far from 2^64.
ASSUME ShapeAssumption ==
  /\ Word \in Nat
  /\ \A s \in Shapes : /\ s = <<s[1], s[2]>>
                        /\ s[1] \in Nat /\ s[1] >= 16 /\ s[1] % 8 = 0
                        /\ s[2] \in Nat /\ s[2] % 8 = 0
                        /\ s[1] + 16 < Word /\ s[2] + 16 < Word

VARIABLES nrows, ncols,  \* the arguments
          pc,            \* the loop that runs, "done", or "fault" after an access outside the arrays
          rr, cc,        \* the loop variables
          out            \* the output: address -> its eight bits

shape == <<nrows, ncols>>
vars == <<nrows, ncols, pc, rr, cc, out>>

Zero == -1               \* the bits of vec![0u8; ..]
Bit == 0..7

Bytes == 0..((nrows * ncols) \div 8 - 1)

\* The byte of the input at address a.
Input(a) == [k \in Bit |-> 8 * a + k]

INP(x, y) == (x * ncols) \div 8 + y \div 8
OUT(x, y) == (y * nrows) \div 8 + x \div 8

\* n - 16 on uint64_t, the bound of every loop.
\* Mutant: the bound is taken eight too far.
Minus16_mutant(n) == n - 8
Minus16(n) == IF n >= 16 THEN n - 16 ELSE n - 16 + Word

\* What _mm_movemask_epi8 gives after v was shifted left 7 - i times: bit i
\* of each of the sixteen bytes.
Movemask(v, i) == [k \in DOMAIN v |-> v[k][i]]

LowByte(h) == [k \in Bit |-> h[k]]
HighByte(h) == [k \in Bit |-> h[k + 8]]

\* The sixteen rows of one column of bytes, the vector of the main body.
Column == [k \in 0..15 |-> Input(INP(rr + k, cc))]

\* The condition under which the pairs are put side by side; the other layout
\* interleaves them.
\* Mutant: the pairs are always interleaved.
Simple_mutant == FALSE
Simple == \/ ncols % 8 = 0 /\ ncols % 16 # 0
          \/ nrows % 8 = 0 /\ nrows % 16 # 0

\* Two columns of bytes of eight rows.
Pair == [k \in 0..15 |->
           IF Simple THEN Input(INP(rr + (k % 8), cc) + k \div 8)
                     ELSE Input(INP(rr + (k \div 2), cc) + (k % 2))]

\* The last eight rows of the last column of bytes; only the low byte of the
\* mask is stored.
Rest == [k \in 0..7 |-> Input(INP(rr + k, cc))]

MainReads == {INP(rr + k, cc) : k \in 0..15}
MainWrites == {<<OUT(rr, cc + i), LowByte(Movemask(Column, i))>> : i \in Bit}
        \cup  {<<OUT(rr, cc + i) + 1, HighByte(Movemask(Column, i))>> : i \in Bit}

PairReads == {INP(rr + k, cc) + b : k \in Bit, b \in {0, 1}}
PairWrites == {<<OUT(rr, cc + i), LowByte(Movemask(Pair, i))>> : i \in Bit}
        \cup  {<<OUT(rr, cc + i + 8), HighByte(Movemask(Pair, i))>> : i \in Bit}

RestReads == {INP(rr + k, cc) : k \in Bit}
RestWrites == {<<OUT(rr, cc + i), LowByte(Movemask(Rest, i))>> : i \in Bit}

Inside(reads, writes) == /\ reads \subseteq Bytes
                         /\ \A w \in writes : w[1] \in Bytes

\* One block: its loads and stores, or the first access outside the arrays,
\* after which the C standard says nothing.
Block(reads, writes, next) ==
  /\ out' = IF Inside(reads, writes)
            THEN [a \in Bytes |-> IF \E w \in writes : w[1] = a
                                  THEN (CHOOSE w \in writes : w[1] = a)[2]
                                  ELSE out[a]]
            ELSE out
  /\ pc' = IF Inside(reads, writes) THEN next ELSE "fault"
  /\ UNCHANGED <<shape, rr>>

Init == /\ \E s \in Shapes : nrows = s[1] /\ ncols = s[2]
        /\ pc = "main" /\ rr = 0 /\ cc = 0
        /\ out = [a \in Bytes |-> [k \in Bit |-> Zero]]

MainBlock == /\ pc = "main" /\ rr <= Minus16(nrows) /\ cc < ncols
             /\ Block(MainReads, MainWrites, "main")
             /\ cc' = cc + 8

NextRows == /\ pc = "main" /\ rr <= Minus16(nrows) /\ cc >= ncols
            /\ rr' = rr + 16 /\ cc' = 0
            /\ UNCHANGED <<shape, pc, out>>

MainEnds == /\ pc = "main" /\ rr > Minus16(nrows)
            /\ pc' = IF rr = nrows THEN "done" ELSE "pairs"
            /\ cc' = 0
            /\ UNCHANGED <<shape, rr, out>>

PairBlock == /\ pc = "pairs" /\ cc <= Minus16(ncols)
             /\ Block(PairReads, PairWrites, "pairs")
             /\ cc' = cc + 16

PairsEnd == /\ pc = "pairs" /\ cc > Minus16(ncols)
            /\ pc' = IF cc = ncols THEN "done" ELSE "rest"
            /\ UNCHANGED <<shape, rr, cc, out>>

RestBlock == /\ pc = "rest"
             /\ Block(RestReads, RestWrites, "done")
             /\ UNCHANGED cc

Next == \/ MainBlock \/ NextRows \/ MainEnds
        \/ PairBlock \/ PairsEnd \/ RestBlock

\* A call of a C function runs until it returns.
Spec == Init /\ [][Next]_vars /\ WF_vars(Next)

-----------------------------------------------------------------------------
\* transpose_naive_inplace, the code of the machines without SSE: bit
\* i of the input goes to bit (i % m) * n + i / m of the output.
transpose_naive == [a \in Bytes |-> [k \in Bit |->
                      ((8 * a + k) % nrows) * ncols + (8 * a + k) \div nrows]]

\* The loop variables of sse_trans stay within the matrix (one past its end
\* when a loop ends).
TypeOK == /\ shape \in Shapes
          /\ pc \in {"main", "pairs", "rest", "done", "fault"}
          /\ rr \in 0..nrows /\ cc \in 0..ncols

\* sse_trans touches no byte outside the two arrays, although its loop
\* bounds are differences of unsigned numbers (transpose.c:52, 73).
InBounds == pc # "fault"

\* When sse_trans returns, every bit has been stored and is where the
\* portable transposition puts it, and no block has undone the work of another.
Transposed == /\ pc = "done" => out = transpose_naive
              /\ \A a \in Bytes : out[a] # transpose_naive[a] => 
                                  out[a] = [k \in Bit |-> Zero]

\* The shapes that are safe: sixteen columns or more, or no rows left over
\* after the blocks of sixteen (as with the 128 rows of the transfers).  With
\* eight columns and eight rows left over ncols - 16 wraps around and the loop
\* over pairs runs, where the code says that n may be 0 (transpose.c:67).
Supported == \A s \in Shapes : s[2] >= 16 \/ s[1] % 16 = 0

=============================================================================
