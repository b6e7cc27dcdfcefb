-------------------------- MODULE ShuffleArgument --------------------------
(***************************************************************************)
(* src/src/aok.rs: the argument that h is a permutation of g raised to a     *)
(* secret s (adapted shuffle), the argument it rests on, that a commitment    *)
(* holds a permutation of known scalars (known content), and, from            *)
(* BatchedDDH, the batched one, each run by a prover and checked by a         *)
(* verifier.  In final_response a batch is the entries the peer lacks, so it   *)
(* may be empty.                                                             *)
(*                                                                          *)
(* A commitment is the vector of its coefficients on the generators, which    *)
(* nobody can relate.  The challenges are chosen freely when the prover asks,  *)
(* and the verifier gets the same ones as long as what is hashed is the same.  *)
(* Compressing and decompressing points loses nothing here.  Vectors are      *)
(* indexed from 0.                                                           *)
(***************************************************************************)
EXTENDS BatchedDDH, FiniteSets

CONSTANTS
  Statements,    \* the g, h, s and index map pi the prover of a shuffle is run on
  Hints(_),      \* its randomness for n entries: what the preprocess functions draw
  Challenges(_), \* the oracle's answers for n entries
  Alphas,        \* the weights the verifier draws
  Batches,       \* the g, h and s the batched prover is run on
  Nonces,        \* its values of r
  Deltas         \* the oracle's second answers to it

(* Zero has a negligible chance of being drawn or hashed to. *)
ASSUME ShuffleAssumption ==
  /\ Alphas \subseteq Field \ {0}
  /\ \A st \in Statements :
       LET n == Cardinality(DOMAIN st.g)
           V == [0 .. n - 1 -> Field]
       IN  /\ IsFiniteSet(DOMAIN st.g) /\ n >= 1 /\ Q > n
           /\ st.g \in V /\ st.h \in V /\ st.s \in Field \ {0}
           /\ st.pi \in [0 .. n - 1 -> 0 .. n - 1]
           /\ Hints(n) \subseteq [d : V, r_d : Field, r_pi : Field, r_z : Field,
                                  u : Field, u2 : Field,
                                  hint2 : [d : V, delta : V, r_d : Field,
                                           r_delta : Field, r_a : Field]]
           /\ Challenges(n) \subseteq [z : V, delta : Field \ {0}, x : Field, e : Field \ {0}]
  /\ \A b \in Batches : /\ b.s \in Field /\ IsFiniteSet(DOMAIN b.g)
                        /\ b.g \in [DOMAIN b.g -> Field] /\ b.h \in [DOMAIN b.g -> Field]
  /\ Nonces \subseteq Field /\ Deltas \subseteq Field \ {0}

VARIABLES
  kind,         \* which argument: "shuffle" or "ddh"
  g, h, s, pi,  \* the statement and the prover's secrets
  hint,         \* AdaptedShuffleHint
  chal,         \* the challenges of this proof
  proof,        \* AdaptedShuffleProof, or BatchedDDHProof
  tampered,     \* whether a response has been changed since
  stage, verdict

statement == <<kind, g, h, s, pi, hint>>
vars == <<statement, chal, proof, tampered, stage, verdict>>

Idx == DOMAIN g
N == Cardinality(Idx)
Perms == Bijection(Idx, Idx)

-----------------------------------------------------------------------------
(* Commitments. *)

(* commit: \prod f_i^{m_i} * g^r; and the group operations on commitments. *)
commit(m, r) == [f |-> [i \in Idx |-> m[i] % Q], base |-> r % Q]
Zero == [i \in Idx |-> 0]
Plus(A, B) == commit([i \in Idx |-> A.f[i] + B.f[i]], A.base + B.base)
Times(k, A) == commit([i \in Idx |-> k * A.f[i]], k * A.base)
mul_base(k) == commit(Zero, k)

-----------------------------------------------------------------------------
(* The known-content argument: c holds m in the order of p. *)

(* prove_shuffle_known_preprocess: the assignments to delta, in their order. *)
\* Mutant: delta[0] is drawn like the others.
preprocess_mutant(rnd) ==
  [rnd EXCEPT !.delta = [i \in Idx |-> IF i = N - 1 THEN 0 ELSE rnd.delta[i]]]
preprocess(rnd) ==
  [rnd EXCEPT !.delta = [i \in Idx |-> IF i = N - 1 THEN 0
                                       ELSE IF i = 0 THEN rnd.d[0] ELSE rnd.delta[i]]]

Last(i) == i = N - 1

(* What the hint commits to beside d. *)
d2(k) == [i \in Idx |-> IF Last(i) THEN 0 ELSE -(k.delta[i] * k.d[i + 1])]

(* The products of the first differences m[p[j]] - x. *)
Products(m, p, x) ==
  LET a[i \in Idx] == ((m[p[i]] - x) * IF i = 0 THEN 1 ELSE a[i - 1]) % Q IN a

a2(k, m, p, x) ==
  [i \in Idx |->
     IF Last(i) THEN 0
     ELSE (k.delta[i + 1] - (m[p[i + 1]] - x) * k.delta[i] - Products(m, p, x)[i] * k.d[i + 1]) % Q]

prove_shuffle_known(rnd, m, p, r, x, e) ==
  LET k == preprocess(rnd)
  IN [c_d |-> commit(k.d, k.r_d),
      c_delta |-> commit(d2(k), k.r_delta),
      c_a |-> commit(a2(k, m, p, x), k.r_a),
      f |-> [i \in Idx |-> (e * m[p[i]] + k.d[i]) % Q],
      f_delta |-> [i \in Idx |-> IF Last(i) THEN 0 ELSE (e * a2(k, m, p, x)[i] + d2(k)[i]) % Q],
      z |-> (e * r + k.r_d) % Q,
      z_delta |-> (e * k.r_a + k.r_delta) % Q]

(* The product both verifiers recompute from the responses, step by step. *)
Recomputed(psi, x, e) ==
  LET F[i \in Idx] ==
        IF i = 0 THEN (psi.f[0] - e * x) % Q
        ELSE ((F[i - 1] * (psi.f[i] - e * x) + psi.f_delta[i - 1]) * invert(e)) % Q
  IN F

ProductMatches(psi, m, x, e) ==
  Recomputed(psi, x, e)[N - 1] = (e * Prod([i \in Idx |-> m[i] - x])) % Q

verify_shuffle_known(m, c, psi, x, e, alpha) ==
  /\ Plus(Times(alpha, Plus(Times(e, c), psi.c_d)), Plus(Times(e, psi.c_a), psi.c_delta))
       = commit([i \in Idx |-> alpha * psi.f[i] + psi.f_delta[i]],
                alpha * psi.z + psi.z_delta)
  /\ ProductMatches(psi, m, x, e)

-----------------------------------------------------------------------------
(* The adapted shuffle argument. *)

(* The scalars the known-content argument is about. *)
z_rho(ch) == [i \in Idx |-> (ch.z[i] + ch.delta * i) % Q]

prove_shuffle_adapted(ch) ==
  LET c_d == commit(hint.d, hint.r_d)
      c_pi == commit(pi, hint.r_pi)
      c_z == commit([i \in Idx |-> ch.z[pi[i]]], hint.r_z)
  IN [c_pi |-> c_pi, c_d |-> c_d, c_z |-> c_z,
      g_d |-> Dot(hint.d, g),
      g_u |-> hint.u,
      c_u |-> Plus(Times(-hint.u, c_z), mul_base(hint.u2)),
      x |-> [i \in Idx |-> (s * ch.z[pi[i]] + hint.d[i]) % Q],
      v |-> (s * ch.delta + hint.u) % Q,
      v2 |-> ((s * hint.r_z + hint.r_d) * ch.delta + hint.u2) % Q,
      psi |-> prove_shuffle_known(hint.hint2, z_rho(ch), pi,
                                  hint.r_z + hint.r_pi * ch.delta, ch.x, ch.e)]

c_rho == Plus(proof.c_z, Times(chal.delta, proof.c_pi))

(* Three commitment equations, checked at once with random weights. *)
\* Mutant: the randomness of the commitments is left out of the equation.
CommitmentsMatch_mutant(alpha1, alpha2) ==
  LET psi == proof.psi
      com1 == Plus(Times(chal.e, c_rho), psi.c_d)
  IN com1.f = [i \in Idx |-> psi.f[i]]
CommitmentsMatch(alpha1, alpha2) ==
  LET psi == proof.psi
      com1 == Plus(Times(chal.e, c_rho), psi.c_d)
      com2 == Plus(Times(chal.e, psi.c_a), psi.c_delta)
      com3 == Plus(Plus(Times(proof.v, proof.c_z), Times(chal.delta, proof.c_d)),
                   Plus(proof.c_u, mul_base(-proof.v2)))
  IN Plus(Plus(Times(alpha1, com1), Times(alpha2, com2)), com3)
       = commit([i \in Idx |-> alpha1 * psi.f[i] + alpha2 * psi.f_delta[i]
                                 + chal.delta * proof.x[i]],
                alpha1 * psi.z + alpha2 * psi.z_delta)

\* Mutant: the copy of the known-content check is left out.
verify_shuffle_adapted_mutant(alpha1, alpha2) ==
  /\ proof.v = (proof.g_u + s * chal.delta) % Q
  /\ CommitmentsMatch(alpha1, alpha2)
  /\ proof.g_d = (Dot(proof.x, g) - Dot(chal.z, h)) % Q
verify_shuffle_adapted(alpha1, alpha2) ==
  /\ ProductMatches(proof.psi, z_rho(chal), chal.x, chal.e)
  /\ proof.v = (proof.g_u + s * chal.delta) % Q
  /\ CommitmentsMatch(alpha1, alpha2)
  /\ proof.g_d = (Dot(proof.x, g) - Dot(chal.z, h)) % Q

-----------------------------------------------------------------------------
(* A prover, one that runs the code on whatever map and vectors it has; a proof
   that may be changed; a verifier. *)

Init ==
  /\ \/ /\ kind = "shuffle"
        /\ \E st \in Statements :
             /\ g = st.g /\ h = st.h /\ s = st.s /\ pi = st.pi
             /\ hint \in Hints(Cardinality(DOMAIN st.g))
     \/ /\ kind = "ddh"
        /\ \E b \in Batches : g = b.g /\ h = b.h /\ s = b.s
        /\ pi = <<>> /\ hint = <<>>
  /\ chal = <<>> /\ proof = <<>>
  /\ tampered = FALSE
  /\ stage = "prove" /\ verdict = <<>>

Prove ==
  /\ stage = "prove" /\ kind = "shuffle"
  /\ chal' \in Challenges(N)
  /\ proof' = prove_shuffle_adapted(chal')
  /\ stage' = "verify"
  /\ UNCHANGED <<statement, tampered, verdict>>

ProveBatch ==
  /\ stage = "prove" /\ kind = "ddh"
  /\ chal' \in [a : [Idx -> Field], delta : Deltas]
  /\ \E r \in Nonces : proof' = batched_ddh_prove(r, g, s, chal'.a, chal'.delta)
  /\ stage' = "verify"
  /\ UNCHANGED <<statement, tampered, verdict>>

(* One of the responses that are not hashed is off by one, as in the test of
   the known-content argument. *)
Inc(a) == (a + 1) % Q
Tamper ==
  /\ stage = "verify" /\ ~tampered
  /\ tampered' = TRUE
  /\ \/ kind = "ddh" /\ proof' = [proof EXCEPT !.z = Inc(@)]
     \/ /\ kind = "shuffle"
        /\ \/ proof' = [proof EXCEPT !.v = Inc(@)]
           \/ proof' = [proof EXCEPT !.v2 = Inc(@)]
           \/ proof' = [proof EXCEPT !.psi.z = Inc(@)]
           \/ proof' = [proof EXCEPT !.psi.z_delta = Inc(@)]
           \/ \E i \in Idx : proof' = [proof EXCEPT !.psi.f[i] = Inc(@)]
           \/ \E i \in Idx : proof' = [proof EXCEPT !.psi.f_delta[i] = Inc(@)]
  /\ UNCHANGED <<statement, chal, stage, verdict>>

Verify ==
  /\ stage = "verify" /\ kind = "shuffle"
  /\ \E alpha1, alpha2 \in Alphas :
       verdict' = [adapted |-> verify_shuffle_adapted(alpha1, alpha2),
                   known |-> verify_shuffle_known(z_rho(chal), c_rho, proof.psi,
                                                  chal.x, chal.e, alpha1)]
  /\ stage' = "over"
  /\ UNCHANGED <<statement, chal, proof, tampered>>

VerifyBatch ==
  /\ stage = "verify" /\ kind = "ddh"
  /\ verdict' = [batch |-> batched_ddh_verify(proof, g, h, s, chal.a, chal.delta)]
  /\ stage' = "over"
  /\ UNCHANGED <<statement, chal, proof, tampered>>

Over ==
  /\ stage = "over"
  /\ UNCHANGED vars

Next == Prove \/ ProveBatch \/ Tamper \/ Verify \/ VerifyBatch \/ Over

Spec == Init /\ [][Next]_vars

-----------------------------------------------------------------------------
Judged(k) == stage = "over" /\ kind = k

(* h is the image of g under pi and s, as blind_shuffle computes it. *)
Shuffled == pi \in Perms /\ \A i \in Idx : h[pi[i]] = (s * g[i]) % Q

(* verify_shuffle_adapted accepts what prove_shuffle_adapted makes of a true
   statement: the assertion of test_adapted_shuffle. *)
ValidProofVerifies ==
  Judged("shuffle") /\ ~tampered /\ Shuffled => verdict.adapted

(* Whatever index map and vectors the prover's code is run on, the verifier
   accepts exactly if, at the random points of the challenges, the map permutes
   the indices and h is g^s in that order: nothing else is let through by the
   batching, and nothing true is refused. *)
AcceptsExactly ==
  Judged("shuffle") /\ ~tampered =>
    (verdict.adapted <=>
       /\ Prod([i \in Idx |-> z_rho(chal)[pi[i]] - chal.x])
            = Prod([i \in Idx |-> z_rho(chal)[i] - chal.x])
       /\ Dot(chal.z, h) = (s * Dot([i \in Idx |-> chal.z[pi[i]]], g)) % Q)

(* No response can be off by one unnoticed, whatever the weights of the batched
   equation: "Tampered proof should fail" for every response, not only f[0]. *)
TamperedFails == Judged("shuffle") /\ tampered => ~verdict.adapted

(* The copy of the known-content check inside verify_shuffle_adapted is as
   strict as verify_shuffle_known. *)
CopiesAgree == Judged("shuffle") /\ verdict.adapted => verdict.known

(* Whatever vectors batched_ddh_prove is run on, batched_ddh_verify accepts
   exactly if the errors of the entries cancel under the oracle's weights: a
   true batch and an empty one always, a false one by luck only.  A response that
   is off by one is hidden by one value of the weighted sums only. *)
BatchAcceptsExactly ==
  Judged("ddh") =>
    LET errors == Dot(chal.a, [i \in Idx |-> (h[i] - s * g[i]) % Q])
        off    == IF tampered THEN Dot(chal.a, g) + 1 ELSE 0
    IN  verdict.batch <=> (off - chal.delta * errors) % Q = 0
=============================================================================
