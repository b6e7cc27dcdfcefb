----------------------------- MODULE MCTranspose -----------------------------
(***************************************************************************)
(* Shapes for Transpose: every remainder of the two sizes modulo sixteen,  *)
(* the sizes the library's own test uses that are small, and the 128 rows  *)
(* of the transfer extension with up to eight and with twenty-four columns.*)
(***************************************************************************)
EXTENDS Transpose

MCShapes == ({16, 24, 32, 40} \X {16, 24, 32, 40})
            \cup ({16, 32} \X {0, 8}) \cup {<<128, 8>>, <<128, 24>>}

=============================================================================
