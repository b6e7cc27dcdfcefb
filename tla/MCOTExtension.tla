---------------------------- MODULE MCOTExtension ----------------------------
(***************************************************************************)
(* Two rows, octets of two bits and batches of three pairs, so that every  *)
(* batch is padded.                                                        *)
(***************************************************************************)
EXTENDS OTExtension

\* Some bits that differ between seeds and do not repeat from batch to batch.
MCG(seed, n) == ((3 * n * n + 5 * seed[1] + 7 * seed[2] * (n + 1) + n * seed[1]) % 11) % 2
MCChi(seed, n) == [j \in RowSet |-> ((n * n + 3 * j + 5 * seed + n) % 7) % 2]
MCPads == {[i \in 0..(Extra - 1) |-> 1], [i \in 0..(Extra - 1) |-> i % 2]}

=============================================================================
