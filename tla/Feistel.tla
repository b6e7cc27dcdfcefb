------------------------------- MODULE Feistel -------------------------------
(***************************************************************************)
(* The permutation of 256-bit blocks of mapping.rs (FeistelPrp256): three  *)
(* Feistel rounds over halves of sixteen bytes, round i being AES-128      *)
(* under its own subkey.  A block is the pair of its halves.  AES is any   *)
(* function of a key and a half: decryption never runs it backwards.       *)
(***************************************************************************)
EXTENDS Integers

CONSTANTS Half,        \* the values of sixteen bytes
          XorHalf(_, _), \* bytewise exclusive or
          Aes(_, _),   \* Aes(k, x): AES-128 of x under k
          Counter(_)   \* Counter(i): the half [i, 0, .., 0]

ASSUME HalfAssumption ==
  /\ \A a, b \in Half : XorHalf(a, b) \in Half /\ XorHalf(XorHalf(a, b), b) = a
  /\ \A k, x \in Half : Aes(k, x) \in Half
  /\ \A i \in 1..3 : Counter(i) \in Half

Block == Half \X Half

\* FeistelPrp256::new: K_i = AES_master([i || 0..0]).
round_key(master, i) == Aes(master, Counter(i))

\* (L, R) <- (R, L xor f) with f = AES_K(R xor K).
Round(k, b) == <<b[2], XorHalf(b[1], Aes(k, XorHalf(b[2], k)))>>

\* (L, R) <- (R xor f, L) with f = AES_K(L xor K).
Unround(k, b) == <<XorHalf(b[2], Aes(k, XorHalf(b[1], k))), b[1]>>

encrypt_block(master, b) ==
  Round(round_key(master, 3), Round(round_key(master, 2), Round(round_key(master, 1), b)))

\* Mutant: the round keys are taken in the order of encryption.
decrypt_block_mutant(master, b) ==
  Unround(round_key(master, 3), Unround(round_key(master, 2), Unround(round_key(master, 1), b)))
decrypt_block(master, b) ==
  Unround(round_key(master, 1), Unround(round_key(master, 2), Unround(round_key(master, 3), b)))

=============================================================================
