------------------------- MODULE RandomPermutation -------------------------
(***************************************************************************)
(* src/src/aok.rs, random_permutation: a Fisher-Yates shuffle that keeps the *)
(* inverse in step with the permutation.  Party::new takes both vectors and  *)
(* blind_shuffle, prove_shuffle_adapted and reveal_items rely on their being *)
(* inverse to each other; the hiding of the shuffle relies on no permutation *)
(* being favoured.  Vectors are indexed from 0, as in the code.              *)
(***************************************************************************)
EXTENDS Integers, Functions

CONSTANT Sizes   \* the lengths asked for

ASSUME SizesAssumption == Sizes \subseteq Nat

VARIABLES
  len,   \* the argument n
  perm,  \* the permutation
  inv,   \* its inverse
  i      \* the loop variable, counting down

permVars == <<len, perm, inv, i>>

Idx == 0 .. len - 1

PermInit ==
  /\ len \in Sizes
  /\ perm = [k \in Idx |-> k]
  /\ inv = [k \in Idx |-> k]
  /\ i = len - 1

(* rng.gen_range(0..=i) *)
\* Mutant: the range is exclusive.
gen_range_mutant == 0 .. i - 1
gen_range == 0 .. i

swap(f, a, b) == [f EXCEPT ![a] = f[b], ![b] = f[a]]

\* Mutant: the inverse is updated before the swap.
update_mutant(f, g, a, b) == [f EXCEPT ![perm[a]] = a, ![perm[b]] = b]
update(f, g, a, b) == [f EXCEPT ![g[a]] = a, ![g[b]] = b]

(* One turn of the loop: swap entries i and j, then point inv at them. *)
Swap ==
  /\ i >= 1
  /\ \E j \in gen_range :
       /\ perm' = swap(perm, i, j)
       /\ inv' = update(inv, perm', i, j)
  /\ i' = i - 1
  /\ UNCHANGED len

Return ==
  /\ i < 1
  /\ UNCHANGED permVars

PermNext == Swap \/ Return

PermSpec == PermInit /\ [][PermNext]_permVars

-----------------------------------------------------------------------------
(* The vectors of random_permutation hold indices, and the loop stays in them. *)
TypeOK ==
  /\ len \in Sizes
  /\ perm \in [Idx -> Idx]
  /\ inv \in [Idx -> Idx]
  /\ i \in Int /\ i < len

(* At every turn, so also when they are returned, inv and perm are inverse to
   each other: blind_shuffle's pi_inv undoes the pi the proof is made for. *)
InverseInStep == \A k \in Idx : inv[perm[k]] = k /\ perm[inv[k]] = k

(* The permutations that can still come out: swaps settle perm from the end. *)
StillPossible ==
  {t \in Bijection(Idx, Idx) : \A k \in Idx : k > i => t[k] = perm[k]}

(* No permutation is lost and none is favoured: for each of those still
   possible exactly one of gen_range's outcomes keeps it possible.  Every
   permutation of 0..len-1 is therefore drawn by exactly one run of the loop. *)
OneChoiceEach ==
  i >= 1 =>
    \A t \in StillPossible :
      \E j \in gen_range : /\ perm[j] = t[i]
                           /\ \A l \in gen_range : perm[l] = t[i] => l = j
=============================================================================
