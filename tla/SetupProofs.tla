---------------------------- MODULE SetupProofs ----------------------------
(***************************************************************************)
(* What is set up before the protocol runs: the permutation of the entries   *)
(* (random_permutation), for every length; that of the 256-bit blocks         *)
(* (FeistelPrp256), for every key and whatever function AES is; the sizes,    *)
(* the public parameters and the inputs of the tests, for every number of    *)
(* threads, with correctness_check at their end; and the map from items to   *)
(* points and back (mapping.rs), for every prime and curve of the kind.      *)
(***************************************************************************)
EXTENDS RandomPermutation, Mapping, Tests, TLAPS

-----------------------------------------------------------------------------
(* random_permutation: the two vectors it returns are inverse to each other
   and no permutation is favoured. *)

(* The inductive invariant: the loop of random_permutation keeps the types and
   the two vectors inverse to each other. *)
PInv == TypeOK /\ InverseInStep

(* Swapping two entries of perm and pointing inv at them, as one turn of the
   loop does, keeps the vectors inverse to each other. *)
LEMMA SwapKeeps ==
  ASSUME PInv, NEW j \in gen_range, i >= 1,
         NEW p, p = swap(perm, i, j),
         NEW v, v = update(inv, p, i, j)
  PROVE  /\ p \in [Idx -> Idx]
         /\ v \in [Idx -> Idx]
         /\ \A k \in Idx : v[p[k]] = k /\ p[v[k]] = k
<1>1. len \in Nat /\ i \in Idx /\ j \in Idx
  BY SizesAssumption DEF PInv, TypeOK, gen_range, Idx
<1>2. p \in [Idx -> Idx]
  BY <1>1 DEF PInv, TypeOK, swap
<1>3. /\ p[i] = perm[j]
      /\ p[j] = perm[i]
      /\ \A k \in Idx \ {i, j} : p[k] = perm[k]
  BY <1>1 DEF PInv, TypeOK, swap
<1>4. v \in [Idx -> Idx]
  BY <1>1, <1>2 DEF PInv, TypeOK, update
<1>5. /\ v[perm[j]] = i
      /\ v[perm[i]] = j
      /\ \A x \in Idx \ {perm[i], perm[j]} : v[x] = inv[x]
  BY <1>1, <1>2, <1>3 DEF PInv, TypeOK, InverseInStep, update
<1>6. /\ perm[i] \in Idx /\ perm[j] \in Idx
      /\ inv[perm[i]] = i /\ inv[perm[j]] = j
  BY <1>1 DEF PInv, TypeOK, InverseInStep
<1>7. ASSUME NEW k \in Idx PROVE v[p[k]] = k
  <2>1. CASE k \in {i, j}
    BY <2>1, <1>3, <1>5
  <2>2. CASE k \notin {i, j}
    <3>1. p[k] = perm[k] /\ perm[k] \in Idx /\ inv[perm[k]] = k
      BY <2>2, <1>3 DEF PInv, TypeOK, InverseInStep
    <3>2. perm[k] \notin {perm[i], perm[j]}
      BY <2>2, <3>1, <1>6
    <3> QED BY <3>1, <3>2, <1>5
  <2> QED BY <2>1, <2>2
<1>8. ASSUME NEW k \in Idx PROVE p[v[k]] = k
  <2>1. CASE k \in {perm[i], perm[j]}
    BY <2>1, <1>3, <1>5
  <2>2. CASE k \notin {perm[i], perm[j]}
    <3>1. v[k] = inv[k] /\ inv[k] \in Idx /\ perm[inv[k]] = k
      BY <2>2, <1>5 DEF PInv, TypeOK, InverseInStep
    <3>2. inv[k] \notin {i, j}
      BY <2>2, <3>1
    <3> QED BY <3>1, <3>2, <1>3
  <2> QED BY <2>1, <2>2
<1> QED BY <1>2, <1>4, <1>7, <1>8

(* random_permutation starts from the identity, its own inverse. *)
LEMMA InitPInv == PermInit => PInv
BY SizesAssumption DEF PermInit, PInv, TypeOK, InverseInStep, Idx

(* A turn of the loop preserves the invariant. *)
LEMMA NextPInv == PInv /\ [PermNext]_permVars => PInv'
<1> SUFFICES ASSUME PInv, [PermNext]_permVars PROVE PInv'
  OBVIOUS
<1>1. CASE Swap
  <2>1. PICK j \in gen_range : perm' = swap(perm, i, j) /\ inv' = update(inv, perm', i, j)
    BY <1>1 DEF Swap
  <2>2. i >= 1 /\ i' = i - 1 /\ len' = len /\ Idx' = Idx
    BY <1>1 DEF Swap, Idx
  <2>3. /\ perm' \in [Idx -> Idx] /\ inv' \in [Idx -> Idx]
        /\ \A k \in Idx : inv'[perm'[k]] = k /\ perm'[inv'[k]] = k
    BY <2>1, <2>2, SwapKeeps
  <2>4. len \in Nat /\ i' \in Int /\ i' < len
    BY <2>2, SizesAssumption DEF PInv, TypeOK
  <2> QED BY <2>2, <2>3, <2>4 DEF PInv, TypeOK, InverseInStep
<1>2. CASE Return
  BY <1>2 DEF Return, permVars, PInv, TypeOK, InverseInStep, Idx
<1>3. CASE UNCHANGED permVars
  BY <1>3 DEF permVars, PInv, TypeOK, InverseInStep, Idx
<1> QED BY <1>1, <1>2, <1>3 DEF PermNext

(* A still possible permutation t has its entry t[i] among the entries not yet
   settled: otherwise it would take the value of a settled one twice. *)
LEMMA PInvOneChoice == PInv => OneChoiceEach
<1> SUFFICES ASSUME PInv, i >= 1, NEW t \in StillPossible
             PROVE  \E j \in gen_range :
                      /\ perm[j] = t[i]
                      /\ \A l \in gen_range : perm[l] = t[i] => l = j
  BY DEF OneChoiceEach
<1>1. len \in Nat /\ i \in Idx /\ gen_range \subseteq Idx
  BY SizesAssumption DEF PInv, TypeOK, gen_range, Idx
<1>2. t \in [Idx -> Idx] /\ \A a, b \in Idx : t[a] = t[b] => a = b
  BY DEF StillPossible, Bijection, Injection, IsInjective
<1>3. inv[t[i]] \in Idx /\ perm[inv[t[i]]] = t[i]
  BY <1>1, <1>2 DEF PInv, TypeOK, InverseInStep
<1>4. inv[t[i]] \in gen_range
  <2>1. ASSUME inv[t[i]] > i PROVE FALSE
    <3>1. t[inv[t[i]]] = perm[inv[t[i]]]
      BY <2>1, <1>3 DEF StillPossible
    <3>2. inv[t[i]] = i
      BY <3>1, <1>1, <1>2, <1>3
    <3> QED BY <3>2, <2>1, <1>1 DEF Idx
  <2> QED BY <2>1, <1>1, <1>3 DEF gen_range, Idx
<1>5. \A l \in gen_range : perm[l] = t[i] => l = inv[t[i]]
  BY <1>1, <1>3 DEF PInv, TypeOK, InverseInStep
<1> QED BY <1>3, <1>4, <1>5

(* The invariant of the loop holds throughout random_permutation. *)
THEOREM LoopInvariant == PermSpec => []PInv
BY InitPInv, NextPInv, PTL DEF PermSpec

(* Every index random_permutation swaps or writes at is inside both vectors,
   and they hold indices only. *)
THEOREM IndicesInRange == PermSpec => []TypeOK
<1>1. PInv => TypeOK
  BY DEF PInv
<1> QED BY <1>1, LoopInvariant, PTL

(* random_permutation returns a permutation together with its inverse, for
   every length n, 0 and 1 included. *)
THEOREM ReturnsInverse == PermSpec => []InverseInStep
<1>1. PInv => InverseInStep
  BY DEF PInv
<1> QED BY <1>1, LoopInvariant, PTL

(* random_permutation favours no permutation: each is drawn by exactly one
   sequence of gen_range outcomes. *)
THEOREM FavoursNone == PermSpec => []OneChoiceEach
BY PInvOneChoice, LoopInvariant, PTL

-----------------------------------------------------------------------------
(* FeistelPrp256: its two directions are inverse to each other, so that two
   items are never sent to the same field element for want of injectivity. *)

LEMMA KeyType == ASSUME NEW master \in Half, NEW m \in 1..3
                 PROVE  round_key(master, m) \in Half
BY HalfAssumption DEF round_key

\* One round and its inverse.
LEMMA RoundInverse ==
  ASSUME NEW k \in Half, NEW b \in Block
  PROVE  /\ Round(k, b) \in Block /\ Unround(k, b) \in Block
         /\ Unround(k, Round(k, b)) = b
         /\ Round(k, Unround(k, b)) = b
<1>1. PICK l \in Half, m \in Half : b = <<l, m>>
  BY DEF Block
<1>2. XorHalf(m, k) \in Half /\ XorHalf(l, k) \in Half
  BY HalfAssumption
<1>3. Aes(k, XorHalf(m, k)) \in Half /\ Aes(k, XorHalf(l, k)) \in Half
  BY <1>2, HalfAssumption
<1>4. /\ XorHalf(l, Aes(k, XorHalf(m, k))) \in Half
      /\ XorHalf(XorHalf(l, Aes(k, XorHalf(m, k))), Aes(k, XorHalf(m, k))) = l
      /\ XorHalf(m, Aes(k, XorHalf(l, k))) \in Half
      /\ XorHalf(XorHalf(m, Aes(k, XorHalf(l, k))), Aes(k, XorHalf(l, k))) = m
  BY <1>3, HalfAssumption
<1>5. Round(k, b) = <<m, XorHalf(l, Aes(k, XorHalf(m, k)))>>
  BY <1>1 DEF Round
<1>6. Unround(k, b) = <<XorHalf(m, Aes(k, XorHalf(l, k))), l>>
  BY <1>1 DEF Unround
<1>7. Round(k, b) \in Block /\ Unround(k, b) \in Block
  BY <1>4, <1>5, <1>6 DEF Block
<1>8. Unround(k, Round(k, b)) = b
  BY <1>1, <1>4, <1>5 DEF Unround
<1>9. Round(k, Unround(k, b)) = b
  BY <1>1, <1>4, <1>6 DEF Round
<1> QED BY <1>7, <1>8, <1>9

\* decrypt_block undoes encrypt_block and encrypt_block undoes decrypt_block,
\* for every master key, every block and every round function.
THEOREM DecryptInverts ==
  ASSUME NEW master \in Half, NEW b \in Block
  PROVE  /\ encrypt_block(master, b) \in Block
         /\ decrypt_block(master, encrypt_block(master, b)) = b
         /\ decrypt_block(master, b) \in Block
         /\ encrypt_block(master, decrypt_block(master, b)) = b
<1> DEFINE k1 == round_key(master, 1)
           k2 == round_key(master, 2)
           k3 == round_key(master, 3)
<1>1. k1 \in Half /\ k2 \in Half /\ k3 \in Half
  BY KeyType
<1>2. /\ encrypt_block(master, b) = Round(k3, Round(k2, Round(k1, b)))
      /\ decrypt_block(master, b) = Unround(k1, Unround(k2, Unround(k3, b)))
      /\ decrypt_block(master, encrypt_block(master, b))
           = Unround(k1, Unround(k2, Unround(k3, encrypt_block(master, b))))
      /\ encrypt_block(master, decrypt_block(master, b))
           = Round(k3, Round(k2, Round(k1, decrypt_block(master, b))))
  BY DEF encrypt_block, decrypt_block
<1> HIDE DEF k1, k2, k3
<1> DEFINE e1 == Round(k1, b)      e2 == Round(k2, e1)
           d1 == Unround(k3, b)    d2 == Unround(k2, d1)
<1>3. e1 \in Block /\ Unround(k1, e1) = b /\ d1 \in Block /\ Round(k3, d1) = b
  BY <1>1, RoundInverse
<1>4. e2 \in Block /\ Unround(k2, e2) = e1 /\ d2 \in Block /\ Round(k2, d2) = d1
  BY <1>1, <1>3, RoundInverse
<1>5. /\ Round(k3, e2) \in Block /\ Unround(k3, Round(k3, e2)) = e2
      /\ Unround(k1, d2) \in Block /\ Round(k1, Unround(k1, d2)) = d2
  BY <1>1, <1>4, RoundInverse
<1> QED BY <1>2, <1>3, <1>4, <1>5

\* Encryption is injective: different blocks, and so different items padded
\* with a zero half, have different images.
THEOREM EncryptInjective ==
  ASSUME NEW master \in Half, NEW a \in Block, NEW b \in Block,
         encrypt_block(master, a) = encrypt_block(master, b)
  PROVE  a = b
BY DecryptInverts

-----------------------------------------------------------------------------
(* The tests: the sizes they parse, the cell of the public parameters they share
   and the judgement on the answer. *)

(* How far each test is says what it has; what is past the cell was made by the
   test whose parameters the cell holds. *)
TestInv ==
  /\ env \in Text \cup {Unset} /\ PP \in Test \cup {Unset}
  /\ DOMAIN pc = Test /\ DOMAIN n = Test /\ DOMAIN pp = Test
  /\ \A t \in Test :
       /\ pc[t] \notin {"parse", "panic"} => n[t] = Size(t) /\ Size(t) # Err
       /\ pc[t] = "get" => PP = t
       /\ pc[t] = "commit" \/ Past(t) => pp[t] = t

(* Until correctness_check has judged it, the blocks before the next one are right. *)
AnswerInv ==
  /\ DOMAIN pc = Test
  /\ DOMAIN answer = {"recovered", "i", "verdict"}
  /\ pc[Psu] \notin {"check", "passed", "failed"} => answer.i = 1 /\ answer.verdict = "none"
  /\ pc[Psu] = "check" =>
       /\ answer.verdict = "none"
       /\ \E m \in Nat : answer.recovered \in [1..m -> Blocks]
       /\ answer.i \in Nat \ {0}
       /\ \A j \in DOMAIN answer.recovered : j < answer.i => ~Bad(answer.recovered[j])
  /\ RefusesWrongBlocks

\* Every step of a test keeps what the tests have.
LEMMA TestStep ==
  ASSUME TestsAssumption, TestInv, [Next]_vars
  PROVE  TestInv'
<1>0. Psu \in Test /\ Unset \notin Test
  BY DEF TestsAssumption
<1>1. env' = env /\ \A t : Size(t)' = Size(t)
  <2>1. env' = env
    BY DEF Next, Finished, Step, Parse, Generate, Set, Get, Commit, generate_input, Recover, Check, vars
  <2> QED BY <2>1 DEF Size, parse_power_or_letter
<1>2. ASSUME NEW t \in Test, Parse(t) PROVE TestInv'
  BY <1>0, <1>1, <1>2 DEF TestInv, Parse, Panic, Goto, Past
<1>3. ASSUME NEW t \in Test, Generate(t) PROVE TestInv'
  BY <1>0, <1>1, <1>3 DEF TestInv, Generate, Goto, Past
<1>4. ASSUME NEW t \in Test, Set(t) PROVE TestInv'
  BY <1>0, <1>1, <1>4 DEF TestInv, Set, Panic, Goto, Past
<1>5. ASSUME NEW t \in Test, Get(t) PROVE TestInv'
  BY <1>0, <1>1, <1>5 DEF TestInv, Get, Panic, Goto, Past
<1>6. ASSUME NEW t \in Test, Commit(t) PROVE TestInv'
  BY <1>0, <1>1, <1>6 DEF TestInv, Commit, Panic, Goto, Past
<1>7. ASSUME generate_input PROVE TestInv'
  <2>1. /\ pc[Psu] = "inputs" /\ pc' = [pc EXCEPT ![Psu] = "setup"]
        /\ n' = n /\ PP' = PP /\ pp' = pp
    BY <1>7 DEF generate_input, Goto
  <2> QED BY <1>0, <1>1, <2>1 DEF TestInv, Past
<1>8. ASSUME Recover PROVE TestInv'
  <2>1. /\ pc[Psu] = "run" /\ n' = n /\ PP' = PP /\ pp' = pp
        /\ pc' = [pc EXCEPT ![Psu] = "check"] \/ pc' = [pc EXCEPT ![Psu] = "failed"]
    BY <1>8 DEF Recover, Goto
  <2> QED BY <1>0, <1>1, <2>1 DEF TestInv, Past
<1>9. ASSUME Check PROVE TestInv'
  <2>1. /\ pc[Psu] = "check" /\ n' = n /\ PP' = PP /\ pp' = pp
        /\ pc' = [pc EXCEPT ![Psu] = "passed"] \/ pc' = [pc EXCEPT ![Psu] = "failed"] \/ pc' = pc
    BY <1>9 DEF Check, Goto
  <2> QED BY <1>0, <1>1, <2>1 DEF TestInv, Past
<1>10. ASSUME UNCHANGED vars PROVE TestInv'
  BY <1>1, <1>10 DEF TestInv, Past, vars
<1> QED BY <1>2, <1>3, <1>4, <1>5, <1>6, <1>7, <1>8, <1>9, <1>10 DEF Next, Finished, Step

\* Every step of malicious_psu2_test keeps what is known of its answer, and the
\* other tests leave it alone.
LEMMA AnswerStep ==
  ASSUME TestsAssumption, AnswerInv, [Next]_vars
  PROVE  AnswerInv'
<1>0. Psu \in Test
  BY DEF TestsAssumption
<1>1. ASSUME inputs' = inputs, answer' = answer, DOMAIN pc' = Test,
             \/ pc'[Psu] = pc[Psu]
             \/ /\ pc[Psu] \notin {"check", "passed", "failed"}
                /\ pc'[Psu] \notin {"check", "passed"}
      PROVE  AnswerInv'
  BY <1>1 DEF AnswerInv, RefusesWrongBlocks, Bad
<1>2. ASSUME NEW t \in Test, Parse(t) \/ Generate(t) \/ Set(t) \/ Get(t) \/ Commit(t) PROVE AnswerInv'
  <2>1. inputs' = inputs /\ answer' = answer
    BY <1>2 DEF Parse, Generate, Set, Get, Commit
  <2>2. /\ pc[t] \in {"parse", "setup", "set", "get", "commit"}
        /\ \E l \in {"panic", "inputs", "setup", "set", "get", "commit", "run", "ready"} :
             pc' = [pc EXCEPT ![t] = l]
    BY <1>2 DEF Parse, Generate, Set, Get, Commit, Panic, Goto
  <2>3. DOMAIN pc' = Test
    BY <2>2 DEF AnswerInv
  <2>4. \/ pc'[Psu] = pc[Psu]
        \/ /\ pc[Psu] \notin {"check", "passed", "failed"}
           /\ pc'[Psu] \notin {"check", "passed"}
    BY <1>0, <2>2 DEF AnswerInv
  <2> QED BY <1>1, <2>1, <2>3, <2>4
<1>3. ASSUME generate_input PROVE AnswerInv'
  <2>1. pc[Psu] = "inputs" /\ pc' = [pc EXCEPT ![Psu] = "setup"] /\ answer' = answer
    BY <1>3 DEF generate_input, Goto
  <2> QED BY <1>0, <2>1 DEF AnswerInv, RefusesWrongBlocks
<1>4. ASSUME Recover PROVE AnswerInv'
  <2>1. pc[Psu] = "run" /\ inputs' = inputs /\ answer.i = 1 /\ answer.verdict = "none"
    BY <1>4 DEF Recover, AnswerInv
  <2>2. CASE pc' = [pc EXCEPT ![Psu] = "failed"] /\ answer' = answer
    BY <1>0, <2>1, <2>2 DEF AnswerInv, RefusesWrongBlocks
  <2>3. ASSUME NEW bs \in SeqOf(Blocks, MaxAnswer), answer' = [answer EXCEPT !.recovered = bs],
               pc' = [pc EXCEPT ![Psu] = "check"]
        PROVE  AnswerInv'
    <3>1. \E m \in Nat : bs \in [1..m -> Blocks]
      BY DEF SeqOf, TestsAssumption
    <3>2. /\ DOMAIN answer' = {"recovered", "i", "verdict"} /\ answer'.recovered = bs
          /\ answer'.i = 1 /\ answer'.verdict = "none"
      BY <2>1, <2>3 DEF AnswerInv
    <3>3. \A j \in DOMAIN bs : ~(j < 1)
      BY <3>1
    <3>4. DOMAIN pc' = Test /\ pc'[Psu] = "check"
      BY <1>0, <2>3 DEF AnswerInv
    <3> QED BY <3>1, <3>2, <3>3, <3>4 DEF AnswerInv, RefusesWrongBlocks
  <2> QED BY <1>4, <2>2, <2>3 DEF Recover, Goto
<1>5. ASSUME Check PROVE AnswerInv'
  <2>1. /\ pc[Psu] = "check" /\ inputs' = inputs /\ answer.verdict = "none"
        /\ answer.i \in Nat \ {0} /\ DOMAIN answer = {"recovered", "i", "verdict"}
        /\ \A j \in DOMAIN answer.recovered : j < answer.i => ~Bad(answer.recovered[j])
        /\ DOMAIN pc = Test
    BY <1>5 DEF Check, AnswerInv
  <2>2. PICK m \in Nat : answer.recovered \in [1..m -> Blocks]
    BY <2>1 DEF AnswerInv
  <2>3. Len(answer.recovered) = m /\ DOMAIN answer.recovered = 1..m
    BY <2>2
  <2>4. CASE answer.i > Len(answer.recovered)
    <3>1. /\ answer'.verdict = "accept" /\ answer'.recovered = answer.recovered
          /\ DOMAIN answer' = DOMAIN answer /\ pc' = [pc EXCEPT ![Psu] = "passed"]
      BY <1>5, <2>1, <2>4 DEF Check, Goto
    <3>2. \A j \in 1..m : answer.recovered[j] \in inputs.w \ inputs.v
      BY <2>1, <2>3, <2>4 DEF Bad
    <3>3. ToSet(answer.recovered) \subseteq inputs.w \ inputs.v
      BY <2>3, <3>2 DEF ToSet
    <3> QED BY <1>0, <2>1, <3>1, <3>3 DEF AnswerInv, RefusesWrongBlocks
  <2>5. CASE answer.i <= Len(answer.recovered) /\ Bad(answer.recovered[answer.i])
    <3>1. /\ answer'.verdict = "refuse" /\ answer'.recovered = answer.recovered
          /\ DOMAIN answer' = DOMAIN answer /\ pc' = [pc EXCEPT ![Psu] = "failed"]
      BY <1>5, <2>1, <2>3, <2>5 DEF Check, Goto
    <3>2. answer.i \in 1..m /\ answer.recovered[answer.i] \notin inputs.w \ inputs.v
      BY <2>1, <2>3, <2>5 DEF Bad
    <3>3. ~(ToSet(answer.recovered) \subseteq inputs.w \ inputs.v)
      BY <2>3, <3>2 DEF ToSet
    <3> QED BY <1>0, <2>1, <3>1, <3>3 DEF AnswerInv, RefusesWrongBlocks
  <2>6. CASE answer.i <= Len(answer.recovered) /\ ~Bad(answer.recovered[answer.i])
    <3>1. /\ answer' = [answer EXCEPT !.i = @ + 1] /\ pc' = pc
      BY <1>5, <2>1, <2>3, <2>6 DEF Check
    <3>2. /\ answer'.i = answer.i + 1 /\ answer'.recovered = answer.recovered
          /\ answer'.verdict = "none" /\ DOMAIN answer' = DOMAIN answer
      BY <2>1, <3>1
    <3>3. ASSUME NEW j \in DOMAIN answer.recovered, j < answer.i + 1
          PROVE  ~Bad(answer.recovered[j])
      BY <2>1, <2>3, <2>6, <3>3
    <3>4. \A b : Bad(b)' <=> Bad(b)
      BY <2>1 DEF Bad
    <3> QED BY <2>1, <2>2, <3>1, <3>2, <3>3, <3>4 DEF AnswerInv, RefusesWrongBlocks
  <2> QED BY <2>1, <2>3, <2>4, <2>5, <2>6
<1>6. ASSUME UNCHANGED vars PROVE AnswerInv'
  BY <1>1, <1>6 DEF vars, AnswerInv
<1> QED BY <1>2, <1>3, <1>4, <1>5, <1>6 DEF Next, Finished, Step

\* Whatever the threads of the other tests do in between, a test that gets
\* parameters gets its own, for every number of tests and every size.
THEOREM ParamsAreOwn == TestsAssumption => (Spec => []OwnParams)
<1> SUFFICES ASSUME TestsAssumption PROVE Spec => []OwnParams
  OBVIOUS
<1>1. Init => TestInv
  BY DEF Init, TestInv, Past
<1>2. TestInv => OwnParams
  BY DEF TestInv, OwnParams, Past
<1>3. TestInv /\ [Next]_vars => TestInv'
  BY TestStep
<1> QED BY <1>1, <1>2, <1>3, PTL DEF Spec

\* No exponent and no number is cut, for every width of the numbers.
THEOREM SizesAreMeant == TestsAssumption => (Spec => []SizeIsMeant)
<1> SUFFICES ASSUME TestsAssumption PROVE Spec => []SizeIsMeant
  OBVIOUS
<1>1. Init => TestInv
  BY DEF Init, TestInv, Past
<1>2. TestInv => SizeIsMeant
  <2> SUFFICES ASSUME TestInv, NEW t \in Test, pc[t] \notin {"parse", "panic"}, env # Unset
               PROVE  n[t] = Meaning(env) /\ env.form # "other"
    BY DEF SizeIsMeant
  <2>1. n[t] = parse_power_or_letter(env) /\ parse_power_or_letter(env) # Err
    BY DEF TestInv, Size
  <2> QED BY <2>1 DEF parse_power_or_letter, Meaning
<1>3. TestInv /\ [Next]_vars => TestInv'
  BY TestStep
<1> QED BY <1>1, <1>2, <1>3, PTL DEF Spec

\* correctness_check accepts exactly the answers made of blocks of the difference,
\* for answers of every length and every universe of blocks.
THEOREM WrongBlocksRefused == TestsAssumption => (Spec => []RefusesWrongBlocks)
<1> SUFFICES ASSUME TestsAssumption PROVE Spec => []RefusesWrongBlocks
  OBVIOUS
<1>1. Init => AnswerInv
  BY DEF Init, AnswerInv, RefusesWrongBlocks, TestsAssumption
<1>2. AnswerInv => RefusesWrongBlocks
  BY DEF AnswerInv
<1>3. AnswerInv /\ [Next]_vars => AnswerInv'
  BY AnswerStep
<1> QED BY <1>1, <1>2, <1>3, PTL DEF Spec
-----------------------------------------------------------------------------
(* mapping.rs: arithmetic modulo P, on integers.  An equation of the field is that
   P divides the difference of its sides, and follows from others by giving the
   factors that make the difference a combination of theirs. *)

Rem(a, m) == a % m
Quot(a, m) == a \div m

(* a is zero in the field *)
Z(a) == Rem(a, P) = 0

LEMMA PFacts == P \in Nat /\ P > 2 /\ P \in Nat \ {0} /\ P \in Int
BY PrimeAssumption

LEMMA QuotRem ==
  ASSUME NEW a \in Int, NEW m \in Nat \ {0}
  PROVE  a = Quot(a, m) * m + Rem(a, m) /\ Rem(a, m) \in 0..(m - 1) /\ Quot(a, m) \in Int
BY DEF Quot, Rem

\* A remainder is the only one.
LEMMA RemUnique ==
  ASSUME NEW m \in Nat \ {0}, NEW k \in Int, NEW c \in 0..(m - 1)
  PROVE  Rem(k * m + c, m) = c /\ Quot(k * m + c, m) = k
<1>1. PICK a \in Int : a = k * m + c
  OBVIOUS
<1>0. a = Quot(a, m) * m + Rem(a, m) /\ Rem(a, m) \in 0..(m - 1) /\ Quot(a, m) \in Int
  BY QuotRem
<1>2. PICK d \in Int, j \in Int : d = Rem(a, m) /\ j = Quot(a, m) /\ a = j * m + d /\ d \in 0..(m - 1)
  BY <1>0
<1>3. PICK l \in Int : l = j - k
  OBVIOUS
<1>4. l * m = c - d
  <2>1. l * m = j * m - k * m
    BY <1>3
  <2>2. PICK jm, km \in Int : jm = j * m /\ km = k * m
    OBVIOUS
  <2>3. a = km + c /\ a = jm + d /\ l * m = jm - km
    BY <1>1, <1>2, <2>1, <2>2
  <2> QED BY <2>3, <1>2
<1>5. ~(l >= 1)
  <2> SUFFICES ASSUME l >= 1 PROVE FALSE
    OBVIOUS
  <2>1. l * m >= m
    OBVIOUS
  <2> QED BY <2>1, <1>4, <1>2
<1>6. ~(l <= -1)
  <2> SUFFICES ASSUME l <= -1 PROVE FALSE
    OBVIOUS
  <2>1. (0 - l) * m >= m
    OBVIOUS
  <2>2. (0 - l) * m = d - c
    BY <1>4, <1>2
  <2> QED BY <2>1, <2>2, <1>2
<1>7. l = 0
  BY <1>5, <1>6
<1>8. d = c /\ j = k
  BY <1>7, <1>4, <1>3, <1>2
<1> QED BY <1>1, <1>2, <1>8

LEMMA ZMultiple ==
  ASSUME NEW a \in Int
  PROVE  Z(a) <=> \E k \in Int : a = k * P
<1>1. ASSUME Z(a) PROVE \E k \in Int : a = k * P
  <2>1. a = Quot(a, P) * P + Rem(a, P) /\ Quot(a, P) \in Int
    BY PFacts, QuotRem
  <2>2. PICK k \in Int : k = Quot(a, P)
    BY <2>1
  <2>3. a = k * P
    BY <1>1, <2>1, <2>2, PFacts DEF Z
  <2> QED BY <2>3
<1>2. ASSUME NEW k \in Int, a = k * P PROVE Z(a)
  <2>1. 0 \in 0..(P - 1) /\ k * P + 0 = a
    BY <1>2, PFacts
  <2> QED BY <2>1, PFacts, RemUnique DEF Z
<1> QED BY <1>1, <1>2

\* Combinations of numbers that are zero.
LEMMA Combine1 ==
  ASSUME NEW a \in Int, NEW c \in Int, Z(a)
  PROVE  Z(c * a)
<1>1. PICK k \in Int : a = k * P
  BY ZMultiple
<1>2. c * a = (c * k) * P
  BY <1>1, PFacts
<1> QED BY <1>2, ZMultiple

LEMMA ZAdd ==
  ASSUME NEW a \in Int, NEW b \in Int, Z(a), Z(b)
  PROVE  Z(a + b)
<1>1. PICK k \in Int : a = k * P
  BY ZMultiple
<1>2. PICK l \in Int : b = l * P
  BY ZMultiple
<1>3. a + b = (k + l) * P
  BY <1>1, <1>2, PFacts
<1> QED BY <1>3, ZMultiple

LEMMA Combine2 ==
  ASSUME NEW a \in Int, NEW b \in Int, NEW c \in Int, NEW d \in Int, Z(a), Z(b)
  PROVE  Z(c * a + d * b)
BY Combine1, ZAdd

LEMMA Combine3 ==
  ASSUME NEW a \in Int, NEW b \in Int, NEW c \in Int,
         NEW d \in Int, NEW e \in Int, NEW f \in Int, Z(a), Z(b), Z(c)
  PROVE  Z(d * a + e * b + f * c)
<1>1. Z(d * a + e * b) /\ d * a + e * b \in Int
  BY Combine2
<1>2. Z(f * c) /\ f * c \in Int
  BY Combine1
<1> QED BY <1>1, <1>2, ZAdd

LEMMA ModField ==
  ASSUME NEW a \in Int
  PROVE  a % P \in Field /\ Z((a % P) - a)
<1>1. a = Quot(a, P) * P + Rem(a, P) /\ Rem(a, P) \in 0..(P - 1) /\ Quot(a, P) \in Int
  BY PFacts, QuotRem
<1>2. PICK k \in Int, c \in 0..(P - 1) : k = Quot(a, P) /\ c = Rem(a, P)
  BY <1>1
<1>3. c - a = (0 - k) * P /\ c - a \in Int /\ 0 - k \in Int
  BY <1>1, <1>2, PFacts
<1>4. Z(c - a)
  BY <1>3, ZMultiple
<1>5. a % P = c
  BY <1>2 DEF Rem
<1> QED BY <1>4, <1>5 DEF Field

LEMMA FieldInt == ASSUME NEW a \in Field PROVE a \in Int /\ a >= 0 /\ a < P
BY PFacts DEF Field

LEMMA FieldZero == ASSUME NEW a \in Field, Z(a) PROVE a = 0
<1>1. a \in 0..(P - 1) /\ 0 * P + a = a
  BY PFacts DEF Field
<1> QED BY <1>1, PFacts, RemUnique DEF Z

\* Elements of the field are equal if their difference is zero.
LEMMA FieldEq == ASSUME NEW a \in Field, NEW b \in Field, Z(a - b) PROVE a = b
<1>0. a \in Int /\ b \in Int /\ a >= 0 /\ a < P /\ b >= 0 /\ b < P /\ a - b \in Int
  BY FieldInt
<1>1. CASE a >= b
  <2>1. a - b \in Field
    BY <1>0, <1>1, PFacts DEF Field
  <2>2. a - b = 0
    BY <2>1, FieldZero
  <2> QED BY <2>2, <1>0
<1>2. CASE b > a
  <2>1. b - a \in Field
    BY <1>0, <1>2, PFacts DEF Field
  <2>2. b - a = (-1) * (a - b) /\ -1 \in Int
    BY <1>0
  <2>3. Z((-1) * (a - b))
    BY <1>0, Combine1
  <2>4. b - a = 0
    BY <2>1, <2>2, <2>3, FieldZero
  <2> QED BY <2>4, <1>0
<1> QED BY <1>0, <1>1, <1>2

LEMMA ZConst == Z(0) /\ ~Z(1) /\ ~Z(2) /\ 0 \in Field /\ 1 \in Field /\ 2 \in Field
<1>1. 0 \in Field /\ 1 \in Field /\ 2 \in Field
  BY PFacts DEF Field
<1>2. 0 = 0 * P
  BY PFacts
<1> QED BY <1>1, <1>2, FieldZero, ZMultiple

\* The operations of the field.
LEMMA MulF ==
  ASSUME NEW a \in Int, NEW b \in Int
  PROVE  Mul(a, b) \in Field /\ Mul(a, b) \in Int /\ Z(Mul(a, b) - a * b)
<1>1. a * b \in Int
  OBVIOUS
<1>2. (a * b) % P \in Field /\ Z(((a * b) % P) - a * b)
  BY <1>1, ModField
<1> QED BY <1>2, FieldInt DEF Mul

LEMMA SquareF ==
  ASSUME NEW a \in Int
  PROVE  Square(a) \in Field /\ Square(a) \in Int /\ Z(Square(a) - a * a)
BY MulF DEF Square, Mul

LEMMA NegF ==
  ASSUME NEW a \in Field
  PROVE  Neg(a) \in Field /\ Neg(a) \in Int /\ Z(Neg(a) + a)
<1>0. a \in Int /\ P \in Int
  BY FieldInt, PFacts
<1>1. PICK b \in Int : b = P - a
  BY <1>0
<1>2. b % P \in Field /\ Z((b % P) - b)
  BY ModField
<1>3. PICK c \in Field : c = Neg(a) /\ Z(c - b)
  BY <1>1, <1>2 DEF Neg
<1>4. Z(P)
  <2>1. P = 1 * P
    BY <1>0
  <2> QED BY <1>0, <2>1, ZMultiple
<1>5. c + a = (c - b) + P /\ c \in Int /\ c - b \in Int
  BY <1>0, <1>1, FieldInt
<1>6. Z(c + a)
  BY <1>0, <1>3, <1>4, <1>5, ZAdd
<1> QED BY <1>3, <1>5, <1>6

\* The field has no zero divisors.
LEMMA ZProduct ==
  ASSUME NEW a \in Int, NEW b \in Int, Z(a * b)
  PROVE  Z(a) \/ Z(b)
<1> SUFFICES ASSUME ~Z(a) PROVE Z(b)
  OBVIOUS
<1>1. PICK c \in Field : c = a % P /\ Z(c - a)
  BY ModField
<1>2. c \in Int
  BY FieldInt
<1>3. c # 0
  <2> SUFFICES ASSUME c = 0 PROVE FALSE
    OBVIOUS
  <2>1. a = (-1) * (c - a) /\ -1 \in Int /\ c - a \in Int
    BY <1>2
  <2> QED BY <2>1, <1>1, Combine1
<1>4. PICK d \in Field : Mul(c, d) = 1
  BY <1>3, PrimeAssumption
<1>5. d \in Int /\ Z(1 - c * d)
  BY <1>2, <1>4, FieldInt, MulF
<1>6. b = b * (1 - c * d) + (b * d) * (c - a) + d * (a * b)
  BY <1>2, <1>5
<1>7. 1 - c * d \in Int /\ c - a \in Int /\ a * b \in Int /\ b * d \in Int
  BY <1>2, <1>5
<1>8. Z(b * (1 - c * d) + (b * d) * (c - a) + d * (a * b))
  BY <1>1, <1>5, <1>7, Combine3
<1> QED BY <1>6, <1>8

LEMMA InvF ==
  ASSUME NEW a \in Field
  PROVE  /\ Inv[a] \in Field /\ Inv[a] \in Int
         /\ a = 0 => Inv[a] = 0
         /\ ~Z(a) => Z(a * Inv[a] - 1)
<1>1. Inv[a] = IF a = 0 THEN 0 ELSE CHOOSE b \in Field : Mul(a, b) = 1
  BY DEF Inv
<1>2. CASE a = 0
  BY <1>1, <1>2, ZConst
<1>3. CASE a # 0
  <2>1. \E b \in Field : Mul(a, b) = 1
    BY <1>3, PrimeAssumption
  <2>2. PICK c \in Field : c = Inv[a] /\ Mul(a, c) = 1
    BY <1>1, <1>3, <2>1
  <2>3. a \in Int /\ c \in Int /\ a * c \in Int
    BY FieldInt
  <2>4. Z(1 - a * c)
    BY <2>2, <2>3, MulF
  <2>5. a * c - 1 = (-1) * (1 - a * c) /\ -1 \in Int /\ 1 - a * c \in Int
    BY <2>3
  <2>6. Z(a * c - 1)
    BY <2>4, <2>5, Combine1
  <2> QED BY <1>3, <2>2, <2>3, <2>6
<1> QED BY <1>2, <1>3

(* Squares, of integers modulo P. *)
Sq(a) == \E b \in Int : Z(b * b - a)

\* The sign that mapping.rs gives an element and its negative.
LEMMA NegParity ==
  ASSUME NEW a \in Field
  PROVE  /\ a = 0 => Neg(a) = 0
         /\ a # 0 => Neg(a) = P - a /\ (is_negative(Neg(a)) <=> ~is_negative(a))
<1>0. a \in Int /\ a >= 0 /\ a < P /\ P \in Nat \ {0}
  BY FieldInt, PFacts
<1>1. CASE a = 0
  <2>1. 0 \in 0..(P - 1) /\ 1 * P + 0 = P - a /\ 1 \in Int
    BY <1>0, <1>1
  <2>2. Rem(P - a, P) = 0
    BY <1>0, <2>1, RemUnique
  <2> QED BY <1>1, <2>2 DEF Neg, Rem
<1>2. CASE a # 0
  <2>1. P - a \in 0..(P - 1) /\ 0 * P + (P - a) = P - a /\ 0 \in Int
    BY <1>0, <1>2
  <2>2. PICK b \in 0..(P - 1) : b = P - a
    BY <2>1
  <2>3. Rem(P - a, P) = b
    BY <1>0, <2>1, <2>2, RemUnique
  <2>4. Neg(a) = P - a
    BY <2>2, <2>3 DEF Neg, Rem
  <2>5. P % 2 = 1
    BY PrimeAssumption
  <2>6. (P - a) % 2 = 1 <=> a % 2 # 1
    BY <1>0, <2>5
  <2> QED BY <1>2, <2>4, <2>6 DEF is_negative
<1> QED BY <1>1, <1>2

\* A square has two roots, and one of them is even.
LEMMA TwoRoots ==
  ASSUME NEW b \in Field, NEW c \in Field, Z(b * b - c * c)
  PROVE  b = c \/ b = Neg(c)
<1>0. b \in Int /\ c \in Int
  BY FieldInt
<1>1. (b - c) * (b + c) = b * b - c * c /\ b - c \in Int /\ b + c \in Int
  BY <1>0
<1>2. Z(b - c) \/ Z(b + c)
  BY <1>1, ZProduct
<1>3. CASE Z(b - c)
  BY <1>3, FieldEq
<1>4. CASE Z(b + c)
  <2>1. Neg(c) \in Field /\ Neg(c) \in Int /\ Z(Neg(c) + c)
    BY NegF
  <2>2. PICK d \in Int : d = Neg(c)
    BY <2>1
  <2>3. b - d = 1 * (b + c) + (-1) * (d + c) /\ 1 \in Int /\ -1 \in Int /\ b + c \in Int /\ d + c \in Int
    BY <1>0
  <2>4. Z(b - d)
    BY <1>4, <2>1, <2>2, <2>3, Combine2, ZenonT(40)
  <2> QED BY <2>1, <2>2, <2>4, FieldEq
<1> QED BY <1>2, <1>3, <1>4

LEMMA EvenRoots ==
  ASSUME NEW b \in Field, NEW c \in Field, Z(b * b - c * c), ~is_negative(b), ~is_negative(c)
  PROVE  b = c
BY TwoRoots, NegParity

LEMMA SqCong ==
  ASSUME NEW a \in Int, NEW b \in Int, Z(a - b), Sq(a)
  PROVE  Sq(b)
<1>1. PICK c \in Int : Z(c * c - a)
  BY DEF Sq
<1>2. c * c - b = (c * c - a) + (a - b) /\ c * c - a \in Int /\ a - b \in Int
  OBVIOUS
<1> QED BY <1>1, <1>2, ZAdd DEF Sq

LEMMA SqMul ==
  ASSUME NEW a \in Int, NEW b \in Int, Sq(a), Sq(b)
  PROVE  Sq(a * b)
<1>1. PICK c \in Int : Z(c * c - a)
  BY DEF Sq
<1>2. PICK d \in Int : Z(d * d - b)
  BY DEF Sq
<1>3. (c * d) * (c * d) - a * b = (d * d) * (c * c - a) + a * (d * d - b)
  OBVIOUS
<1>i. d * d \in Int /\ c * c - a \in Int /\ d * d - b \in Int
  OBVIOUS
<1>4. Z((d * d) * (c * c - a) + a * (d * d - b))
  BY <1>1, <1>2, <1>i, Combine2
<1>5. c * d \in Int
  OBVIOUS
<1> QED BY <1>3, <1>4, <1>5 DEF Sq

\* An inverse, of an integer.
LEMMA Inverted ==
  ASSUME NEW a \in Int, ~Z(a)
  PROVE  \E b \in Int : Z(a * b - 1)
<1>1. PICK c \in Field : c = a % P /\ Z(c - a)
  BY ModField
<1>2. c \in Int
  BY FieldInt
<1>3. ~Z(c)
  <2> SUFFICES ASSUME Z(c) PROVE FALSE
    OBVIOUS
  <2>1. a = 1 * c + (-1) * (c - a) /\ -1 \in Int /\ c - a \in Int /\ 1 \in Int
    BY <1>2
  <2> QED BY <1>1, <1>2, <2>1, Combine2
<1>4. Inv[c] \in Int /\ Z(c * Inv[c] - 1)
  BY <1>3, InvF
<1>5. PICK d \in Int : d = Inv[c]
  BY <1>4
<1>6. a * d - 1 = 1 * (c * d - 1) + (0 - d) * (c - a)
  BY <1>2
<1>7. 1 \in Int /\ c * d - 1 \in Int /\ 0 - d \in Int /\ c - a \in Int
  BY <1>2
<1>8. Z(1 * (c * d - 1) + (0 - d) * (c - a))
  BY <1>1, <1>4, <1>5, <1>7, Combine2
<1> QED BY <1>6, <1>8

LEMMA SqScale ==
  ASSUME NEW a \in Int, NEW c \in Int, ~Z(c), Sq(a * (c * c))
  PROVE  Sq(a)
<1>1. PICK b \in Int : Z(b * b - a * (c * c))
  BY DEF Sq
<1>2. PICK d \in Int : Z(c * d - 1)
  BY Inverted
<1>3. (b * d) * (b * d) - a = (d * d) * (b * b - a * (c * c)) + (a * (c * d + 1)) * (c * d - 1)
  OBVIOUS
<1>i. d * d \in Int /\ b * b - a * (c * c) \in Int /\ a * (c * d + 1) \in Int /\ c * d - 1 \in Int
  OBVIOUS
<1>4. Z((d * d) * (b * b - a * (c * c)) + (a * (c * d + 1)) * (c * d - 1))
  BY <1>1, <1>2, <1>i, Combine2
<1>5. b * d \in Int
  OBVIOUS
<1> QED BY <1>3, <1>4, <1>5 DEF Sq

LEMMA SqZero == ASSUME NEW a \in Int, Z(a) PROVE Sq(a)
<1>1. 0 * 0 - a = (-1) * a /\ -1 \in Int /\ 0 \in Int
  OBVIOUS
<1> QED BY <1>1, Combine1 DEF Sq

LEMMA SqSelf == ASSUME NEW a \in Int PROVE Sq(a * a)
<1>1. a * a - a * a = 0
  OBVIOUS
<1> QED BY <1>1, ZConst DEF Sq

\* A square that is not zero and a number that is no square.
LEMMA SqNon ==
  ASSUME NEW a \in Int, NEW b \in Int, Sq(a), ~Z(a), Sq(a * b)
  PROVE  Sq(b)
<1>1. PICK c \in Int : Z(c * c - a)
  BY DEF Sq
<1>2. ~Z(c)
  <2> SUFFICES ASSUME Z(c) PROVE FALSE
    OBVIOUS
  <2>1. a = c * c + (-1) * (c * c - a) /\ -1 \in Int /\ c * c - a \in Int
    OBVIOUS
  <2> QED BY <1>1, <2>1, Combine2
<1>3. a * b - b * (c * c) = (0 - b) * (c * c - a) /\ 0 - b \in Int /\ c * c - a \in Int
  OBVIOUS
<1>4. Z(a * b - b * (c * c))
  BY <1>1, <1>3, Combine1
<1>5. a * b \in Int /\ b * (c * c) \in Int
  OBVIOUS
<1>6. Sq(b * (c * c))
  BY <1>4, <1>5, SqCong
<1> QED BY <1>2, <1>6, SqScale

\* The function Root.
LEMMA RootF ==
  ASSUME NEW a \in Field
  PROVE  /\ Root[a] # None <=> Sq(a)
         /\ Root[a] # None => \E b \in Field : Root[a] = <<b>> /\ ~is_negative(b) /\ Z(b * b - a)
<1>0. a \in Int
  BY FieldInt
<1>1. PICK S : S = {b \in Field : Square(b) = a /\ ~is_negative(b)}
  OBVIOUS
<1>2. Root[a] = IF S = {} THEN None ELSE <<CHOOSE b \in S : TRUE>>
  BY <1>1 DEF Root
<1>3. ASSUME NEW b \in S PROVE b \in Field /\ ~is_negative(b) /\ Z(b * b - a)
  <2>1. b \in Field /\ b \in Int /\ Square(b) = a /\ ~is_negative(b)
    BY <1>1, <1>3, FieldInt
  <2>2. Z(a - b * b)
    BY <2>1, SquareF
  <2>3. b * b - a = (-1) * (a - b * b) /\ -1 \in Int /\ a - b * b \in Int
    BY <1>0, <2>1
  <2> QED BY <2>1, <2>2, <2>3, Combine1
<1>4. CASE S # {}
  <2>1. PICK b \in S : Root[a] = <<b>>
    BY <1>2, <1>4
  <2>2. Root[a] # None
    BY <2>1 DEF None
  <2>3. b \in Field /\ b \in Int /\ ~is_negative(b) /\ Z(b * b - a)
    BY <1>3, FieldInt
  <2> QED BY <2>1, <2>2, <2>3 DEF Sq
<1>5. CASE S = {}
  <2>1. Root[a] = None
    BY <1>2, <1>5
  <2>2. ASSUME Sq(a) PROVE FALSE
    <3>1. PICK b \in Int : Z(b * b - a)
      BY <2>2 DEF Sq
    <3>2. PICK c \in Field : c = b % P /\ Z(c - b)
      BY ModField
    <3>3. c \in Int
      BY FieldInt
    <3>4. c * c - a = (c + b) * (c - b) + 1 * (b * b - a)
      BY <1>0, <3>3
    <3>5. c + b \in Int /\ c - b \in Int /\ 1 \in Int /\ b * b - a \in Int
      BY <1>0, <3>3
    <3>6. Z(c * c - a)
      BY <3>1, <3>2, <3>4, <3>5, Combine2, ZenonT(40)
    <3>7. ASSUME NEW d \in Field, Z(d * d - a) PROVE Square(d) = a
      <4>1. d \in Int /\ Square(d) \in Field /\ Square(d) \in Int /\ Z(Square(d) - d * d)
        BY FieldInt, SquareF
      <4>2. PICK e \in Int : e = Square(d)
        BY <4>1
      <4>3. e - a = (e - d * d) + (d * d - a) /\ e - d * d \in Int /\ d * d - a \in Int
        BY <1>0, <4>1
      <4>4. Z(e - a)
        BY <3>7, <4>1, <4>2, <4>3, ZAdd
      <4> QED BY <4>1, <4>2, <4>4, FieldEq
    <3>8. CASE ~is_negative(c)
      BY <1>1, <1>5, <3>6, <3>7, <3>8
    <3>9. CASE is_negative(c)
      <4>1. c # 0
        BY <3>9 DEF is_negative
      <4>2. PICK d \in Field : d = Neg(c) /\ Z(d + c) /\ ~is_negative(d)
        BY <3>9, <4>1, NegF, NegParity
      <4>3. d \in Int
        BY FieldInt
      <4>4. d * d - a = (d - c) * (d + c) + 1 * (c * c - a)
        BY <1>0, <3>3, <4>3
      <4>5. d - c \in Int /\ d + c \in Int /\ 1 \in Int /\ c * c - a \in Int
        BY <1>0, <3>3, <4>3
      <4>6. Z(d * d - a)
        BY <3>6, <4>2, <4>4, <4>5, Combine2, ZenonT(40)
      <4> QED BY <1>1, <1>5, <3>7, <4>2, <4>6
    <3> QED BY <3>8, <3>9
  <2> QED BY <2>1, <2>2
<1> QED BY <1>4, <1>5

(* The root of -1, and which numbers are squares.  I is SQRT_M1. *)
LEMMA RootOfMinusOne ==
  SQRT_M1 \in Field /\ SQRT_M1 \in Int /\ Z(SQRT_M1 * SQRT_M1 + 1) /\ Sq(-1)
<1>1. PICK e \in Field : e = SQRT_M1
  BY PrimeAssumption
<1>2. e \in Int /\ Square(e) = P - 1 /\ P \in Int
  BY <1>1, PrimeAssumption, FieldInt
<1>3. Z(P - 1 - e * e)
  BY <1>2, SquareF
<1>4. Z(P)
  <2>1. P = 1 * P
    BY <1>2
  <2> QED BY <1>2, <2>1, ZMultiple
<1>5. e * e + 1 = 1 * P + (-1) * (P - 1 - e * e) /\ 1 \in Int /\ -1 \in Int /\ P - 1 - e * e \in Int
  BY <1>2
<1>6. Z(e * e + 1)
  BY <1>2, <1>3, <1>4, <1>5, Combine2
<1>7. e * e - (-1) = e * e + 1
  BY <1>2
<1> QED BY <1>1, <1>2, <1>6, <1>7 DEF Sq

LEMMA SqNeg == ASSUME NEW a \in Int, Sq(a) PROVE Sq(-a)
<1>1. (-1) * a = -a /\ -1 \in Int
  OBVIOUS
<1> QED BY <1>1, RootOfMinusOne, SqMul

\* Of a and SQRT_M1 a, exactly one is a square.
LEMMA SqTwist ==
  ASSUME NEW a \in Int, ~Z(a)
  PROVE  Sq(a) <=> ~Sq(SQRT_M1 * a)
<1>0. PICK e \in Int : e = SQRT_M1
  BY RootOfMinusOne
<1>1. PICK c \in Field : c = a % P /\ Z(c - a)
  BY ModField
<1>2. c \in Int /\ c - a \in Int /\ a - c \in Int /\ -1 \in Int
  BY FieldInt
<1>3. Z(a - c)
  <2>1. a - c = (-1) * (c - a)
    BY <1>2
  <2> QED BY <1>1, <1>2, <2>1, Combine1
<1>4. c # 0
  <2> SUFFICES ASSUME c = 0 PROVE FALSE
    OBVIOUS
  <2>1. a - c = a
    OBVIOUS
  <2> QED BY <1>3, <2>1
<1>5. PICK d \in Field : d = Mul(e, c) /\ Z(d - e * c)
  BY <1>2, MulF
<1>6. d \in Int /\ e * a \in Int /\ e * c \in Int /\ d - e * c \in Int
  BY <1>2, FieldInt
<1>7. Z(d - e * a)
  <2>1. d - e * a = 1 * (d - e * c) + e * (c - a) /\ 1 \in Int
    BY <1>2, <1>6
  <2> QED BY <1>1, <1>2, <1>5, <1>6, <2>1, Combine2
<1>8. Z(e * a - d)
  <2>1. e * a - d = (-1) * (d - e * a) /\ d - e * a \in Int
    BY <1>6
  <2> QED BY <1>2, <1>7, <2>1, Combine1
<1>9. Sq(c) <=> Sq(a)
  BY <1>1, <1>2, <1>3, SqCong
<1>10. Sq(d) <=> Sq(e * a)
  BY <1>6, <1>7, <1>8, SqCong
<1>11. Root[c] = None <=> Root[d] # None
  BY <1>0, <1>4, <1>5, PrimeAssumption
<1>12. (Root[c] # None <=> Sq(c)) /\ (Root[d] # None <=> Sq(d))
  BY RootF
<1> QED BY <1>0, <1>9, <1>10, <1>11, <1>12

LEMMA NonSquares ==
  ASSUME NEW a \in Int, NEW b \in Int, ~Sq(a), ~Sq(b)
  PROVE  Sq(a * b)
<1>0. PICK e \in Int : e = SQRT_M1 /\ Z(e * e + 1)
  BY RootOfMinusOne
<1>1. ~Z(a) /\ ~Z(b)
  BY SqZero
<1>2. Sq(e * a) /\ Sq(e * b)
  BY <1>0, <1>1, SqTwist
<1>3. e * a \in Int /\ e * b \in Int /\ a * b \in Int /\ e * e + 1 \in Int
  OBVIOUS
<1>4. Sq((e * a) * (e * b))
  BY <1>2, <1>3, SqMul
<1>5. (e * a) * (e * b) - (-(a * b)) = (a * b) * (e * e + 1)
  OBVIOUS
<1>6. Z((e * a) * (e * b) - (-(a * b)))
  BY <1>0, <1>3, <1>5, Combine1
<1>7. (e * a) * (e * b) \in Int /\ -(a * b) \in Int /\ -(-(a * b)) = a * b
  BY <1>3
<1>8. Sq(-(a * b))
  BY <1>4, <1>6, <1>7, SqCong
<1> QED BY <1>7, <1>8, SqNeg

LEMMA TwoNoSquare == ~Sq(2)
<1> SUFFICES ASSUME Sq(2) PROVE FALSE
  OBVIOUS
<1>0. PICK e \in Int : e = SQRT_M1 /\ Z(e * e + 1)
  BY RootOfMinusOne
<1>1. (1 + e) * (1 + e) - 2 * e = e * e + 1 /\ 1 + e \in Int /\ 2 * e \in Int /\ 2 \in Int
  OBVIOUS
<1>2. Sq(2 * e)
  BY <1>0, <1>1 DEF Sq
<1>3. Sq(e)
  BY <1>1, <1>2, ZConst, SqNon
<1>4. Sq(1)
  <2>1. 1 * 1 = 1 /\ 1 \in Int
    OBVIOUS
  <2> QED BY <2>1, SqSelf
<1>5. e * 1 = e /\ 1 \in Int
  OBVIOUS
<1> QED BY <1>0, <1>3, <1>4, <1>5, ZConst, SqTwist

LEMMA SqMod ==
  ASSUME NEW a \in Int
  PROVE  /\ Sq(a % P) <=> Sq(a)
         /\ Z(a % P) <=> Z(a)
<1>1. PICK c \in Field : c = a % P /\ Z(c - a)
  BY ModField
<1>2. c \in Int /\ c - a \in Int /\ a - c \in Int /\ -1 \in Int /\ 1 \in Int
  BY FieldInt
<1>3. a - c = (-1) * (c - a) /\ a = 1 * c + (-1) * (c - a) /\ c = 1 * a + 1 * (c - a)
  BY <1>2
<1>4. Z(a - c)
  BY <1>1, <1>2, <1>3, Combine1
<1>5. Z(c) <=> Z(a)
  <2>1. ASSUME Z(c) PROVE Z(a)
    <3>1. Z(1 * c + (-1) * (c - a))
      BY <1>1, <1>2, <2>1, Combine2
    <3> QED BY <1>3, <3>1
  <2>2. ASSUME Z(a) PROVE Z(c)
    <3>1. Z(1 * a + 1 * (c - a))
      BY <1>1, <1>2, <2>2, Combine2
    <3> QED BY <1>3, <3>1
  <2> QED BY <2>1, <2>2
<1>6. Sq(c) <=> Sq(a)
  BY <1>1, <1>2, <1>4, SqCong
<1> QED BY <1>1, <1>5, <1>6

(* The coefficients of the two forms: A + 2 is a square, A - 2 and the Edwards
   coefficient are not. *)
LEMMA Coefficients ==
  \E d \in Field : /\ d = EDWARDS_D /\ d \in Int /\ A \in Field /\ A \in Int /\ ~Z(A)
                   /\ ~Z(A + 2) /\ Sq(A + 2) /\ ~Sq(A - 2)
                   /\ Z(d * (A + 2) + (A - 2)) /\ ~Sq(d)
<1>1. PICK d \in Field : d = EDWARDS_D
  BY CoefficientAssumption
<1>2. A \in Field /\ A \in Int /\ d \in Int /\ A # 0 /\ P \in Int
  BY CoefficientAssumption, FieldInt, PFacts
<1>3. ~Z(A)
  BY <1>2, FieldZero
<1>4. A + 2 \in Int /\ A - 2 \in Int /\ A + P - 2 \in Int /\ P + 2 - A \in Int /\ -1 \in Int /\ 1 \in Int
  BY <1>2
<1>5. ~Z(A + 2) /\ Sq(A + 2)
  <2>1. (A + 2) % P \in Field /\ (A + 2) % P # 0 /\ Root[(A + 2) % P] # None
    BY <1>4, ModField, CoefficientAssumption
  <2>2. ~Z((A + 2) % P) /\ Sq((A + 2) % P)
    BY <2>1, FieldZero, RootF
  <2> QED BY <1>4, <2>2, SqMod
<1>p. Z(P)
  <2>1. P = 1 * P
    BY <1>2
  <2> QED BY <1>2, <1>4, <2>1, ZMultiple
<1>6. ~Sq(A - 2)
  <2>1. (A + P - 2) % P \in Field /\ Root[(A + P - 2) % P] = None
    BY <1>4, ModField, CoefficientAssumption
  <2>2. ~Sq(A + P - 2)
    BY <1>4, <2>1, RootF, SqMod
  <2>3. (A - 2) - (A + P - 2) = (-1) * P /\ (A - 2) - (A + P - 2) \in Int
    BY <1>2
  <2>4. Z((A - 2) - (A + P - 2))
    BY <1>2, <1>4, <1>p, <2>3, Combine1
  <2> QED BY <1>4, <2>2, <2>4, SqCong
<1>7. Z(d * (A + 2) + (A - 2))
  <2>1. PICK c \in Int : c = Mul(d, A + 2) /\ Z(c - d * (A + 2))
    BY <1>2, <1>4, MulF
  <2>2. c = (P + 2 - A) % P
    BY <1>1, <2>1, CoefficientAssumption
  <2>3. Z(c - (P + 2 - A))
    BY <1>4, <2>2, ModField
  <2>4. PICK g \in Int, h \in Int : g = c - d * (A + 2) /\ h = c - (P + 2 - A)
    BY <1>2
  <2>5. d * (A + 2) + (A - 2) = (-1) * g + 1 * h + 1 * P
    BY <1>2, <2>4
  <2>6. Z((-1) * g + 1 * h + 1 * P)
    BY <1>2, <1>4, <1>p, <2>1, <2>3, <2>4, Combine3
  <2> QED BY <2>5, <2>6
<1>8. ~Sq(d)
  <2> SUFFICES ASSUME Sq(d) PROVE FALSE
    OBVIOUS
  <2>1. Sq(d * (A + 2)) /\ d * (A + 2) \in Int
    BY <1>2, <1>4, <1>5, SqMul
  <2>2. d * (A + 2) - (-(A - 2)) = d * (A + 2) + (A - 2) /\ -(A - 2) \in Int /\ -(-(A - 2)) = A - 2
    BY <1>2
  <2>3. Sq(-(A - 2))
    BY <1>7, <2>1, <2>2, SqCong
  <2> QED BY <1>6, <2>2, <2>3, SqNeg
<1> QED BY <1>1, <1>2, <1>3, <1>5, <1>6, <1>7, <1>8

\* sqrt_ratio_i on one and a number that is not zero.
LEMMA SqrtRatio ==
  ASSUME NEW a \in Field
  PROVE  /\ sqrt_ratio_one(a).root \in Field
         /\ a = 0 => ~sqrt_ratio_one(a).is_sq
         /\ a # 0 => /\ sqrt_ratio_one(a).is_sq <=> Sq(a)
                     /\ LET s == sqrt_ratio_one(a).root
                        IN  IF sqrt_ratio_one(a).is_sq THEN Z(s * s * a - 1) ELSE Z(s * s * a - SQRT_M1)
<1>1. CASE a = 0
  BY <1>1, ZConst DEF sqrt_ratio_one
<1>2. CASE a # 0
  <2>0. a \in Int /\ ~Z(a)
    BY <1>2, FieldInt, FieldZero
  <2>1. PICK b \in Field : b = Inv[a] /\ b \in Int /\ Z(a * b - 1)
    BY <2>0, InvF
  <2>2. PICK e \in Field : e = SQRT_M1 /\ e \in Int /\ Z(e * e + 1)
    BY RootOfMinusOne
  <2>3. ~Z(b)
    <3> SUFFICES ASSUME Z(b) PROVE FALSE
      OBVIOUS
    <3>1. 1 = a * b + (-1) * (a * b - 1) /\ -1 \in Int /\ a * b - 1 \in Int
      BY <2>0, <2>1
    <3>2. Z(a * b + (-1) * (a * b - 1))
      BY <2>0, <2>1, <3>1, Combine2
    <3> QED BY <3>1, <3>2, ZConst
  <2>4. Sq(b) <=> Sq(a)
    <3>1. a * b - 1 \in Int /\ a * b \in Int /\ 1 \in Int /\ -1 \in Int /\ 1 - a * b = (-1) * (a * b - 1)
      BY <2>0, <2>1
    <3>2. Z(1 - a * b)
      BY <2>1, <3>1, Combine1
    <3>3. Sq(1)
      <4>1. 1 * 1 = 1 /\ 1 \in Int
        OBVIOUS
      <4> QED BY <4>1, SqSelf
    <3>4. Sq(a * b)
      BY <3>1, <3>2, <3>3, SqCong
    <3>5. b * a = a * b
      BY <2>0, <2>1
    <3> QED BY <2>0, <2>1, <2>3, <3>4, <3>5, SqNon
  <2>5. (Root[b] # None <=> Sq(b)) /\ sqrt_ratio_one(a) =
          IF Root[b] # None THEN [is_sq |-> TRUE, root |-> Root[b][1]]
          ELSE [is_sq |-> FALSE, root |-> Root[Mul(e, b)][1]]
    BY <1>2, <2>1, <2>2, RootF DEF sqrt_ratio_one
  <2>6. CASE Sq(b)
    <3>1. PICK s \in Field : Root[b] = <<s>> /\ Z(s * s - b)
      BY <2>5, <2>6, RootF
    <3>2. sqrt_ratio_one(a) = [is_sq |-> TRUE, root |-> s]
      BY <2>5, <2>6, <3>1
    <3>3. s \in Int
      BY FieldInt
    <3>4. s * s * a - 1 = a * (s * s - b) + 1 * (a * b - 1)
      BY <2>0, <2>1, <3>3
    <3>5. s * s - b \in Int /\ a * b - 1 \in Int /\ 1 \in Int
      BY <2>0, <2>1, <3>3
    <3>6. Z(s * s * a - 1)
      BY <2>0, <2>1, <3>1, <3>4, <3>5, Combine2
    <3> QED BY <1>2, <2>4, <2>6, <3>2, <3>6
  <2>7. CASE ~Sq(b)
    <3>1. PICK c \in Field : c = Mul(e, b) /\ Z(c - e * b)
      BY <2>1, <2>2, MulF
    <3>2. c \in Int /\ e * b \in Int /\ c - e * b \in Int /\ e * b - c \in Int /\ -1 \in Int
      BY <2>1, <2>2, FieldInt
    <3>3. Sq(e * b)
      BY <2>1, <2>2, <2>3, <2>7, SqTwist
    <3>4. Z(e * b - c)
      <4>1. e * b - c = (-1) * (c - e * b)
        BY <3>2
      <4> QED BY <3>1, <3>2, <4>1, Combine1
    <3>5. Sq(c)
      BY <3>2, <3>3, <3>4, SqCong
    <3>6. PICK s \in Field : Root[c] = <<s>> /\ Z(s * s - c)
      BY <3>5, RootF
    <3>7. sqrt_ratio_one(a) = [is_sq |-> FALSE, root |-> s]
      BY <2>5, <2>7, <3>1, <3>6
    <3>8. s \in Int
      BY FieldInt
    <3>9. s * s * a - e = a * (s * s - c) + a * (c - e * b) + e * (a * b - 1)
      BY <2>0, <2>1, <2>2, <3>2, <3>8
    <3>10. PICK f, g, h \in Int : f = s * s - c /\ g = c - e * b /\ h = a * b - 1
      BY <2>0, <2>1, <3>2, <3>8
    <3>i. a \in Int /\ e \in Int
      BY <2>0, <2>1, <2>2
    <3>z. Z(f) /\ Z(g) /\ Z(h)
      BY <2>0, <2>1, <2>2, <3>1, <3>6, <3>10
    <3>x. Z(a * f + a * g + e * h)
      BY <3>i, <3>z, <3>10, Combine3
    <3>11. Z(s * s * a - e)
      BY <3>9, <3>10, <3>x
    <3> QED BY <1>2, <2>2, <2>4, <2>7, <3>7, <3>11
  <2> QED BY <2>6, <2>7
<1> QED BY <1>1, <1>2

(* Equality in the field, and what the operations make of it. *)
Eq(a, b) == Z(a - b)

LEMMA EqRefl == ASSUME NEW a \in Int PROVE Eq(a, a)
<1>1. a - a = 0
  OBVIOUS
<1> QED BY <1>1, ZConst DEF Eq

LEMMA EqSym == ASSUME NEW a \in Int, NEW b \in Int, Eq(a, b) PROVE Eq(b, a)
<1>1. b - a = (-1) * (a - b) /\ -1 \in Int /\ a - b \in Int
  OBVIOUS
<1> QED BY <1>1, Combine1 DEF Eq

LEMMA EqTrans == ASSUME NEW a \in Int, NEW b \in Int, NEW c \in Int, Eq(a, b), Eq(b, c) PROVE Eq(a, c)
<1>1. a - c = (a - b) + (b - c) /\ a - b \in Int /\ b - c \in Int
  OBVIOUS
<1> QED BY <1>1, ZAdd DEF Eq

LEMMA EqZ == ASSUME NEW a \in Int, NEW b \in Int, Eq(a, b), Z(b) PROVE Z(a)
<1>1. a = (a - b) + b /\ a - b \in Int
  OBVIOUS
<1> QED BY <1>1, ZAdd DEF Eq

LEMMA EqTimes ==
  ASSUME NEW a \in Int, NEW b \in Int, NEW c \in Int, NEW d \in Int, Eq(a, b), Eq(c, d)
  PROVE  Eq(a * c, b * d)
<1>1. PICK g, h \in Int : g = a - b /\ h = c - d
  OBVIOUS
<1>2. a * c - b * d = c * g + b * h
  BY <1>1
<1>3. Z(c * g + b * h)
  BY <1>1, Combine2 DEF Eq
<1> QED BY <1>2, <1>3 DEF Eq

LEMMA EqPlus ==
  ASSUME NEW a \in Int, NEW b \in Int, NEW c \in Int, NEW d \in Int, Eq(a, b), Eq(c, d)
  PROVE  Eq(a + c, b + d)
<1>1. PICK g, h \in Int : g = a - b /\ h = c - d
  OBVIOUS
<1>2. (a + c) - (b + d) = g + h
  BY <1>1
<1>3. Z(g + h)
  BY <1>1, ZAdd DEF Eq
<1> QED BY <1>2, <1>3 DEF Eq

LEMMA EqMod ==
  ASSUME NEW a \in Int, NEW b \in Int, Eq(a, b)
  PROVE  a % P \in Field /\ a % P \in Int /\ Eq(a % P, b)
<1>1. a % P \in Field /\ Eq(a % P, a)
  BY ModField DEF Eq
<1>2. a % P \in Int
  BY <1>1, FieldInt
<1> QED BY <1>1, <1>2, EqTrans

LEMMA EqMul ==
  ASSUME NEW a \in Int, NEW b \in Int, NEW c \in Int, NEW d \in Int, Eq(a, b), Eq(c, d)
  PROVE  Mul(a, c) \in Field /\ Mul(a, c) \in Int /\ Eq(Mul(a, c), b * d)
<1>1. Eq(a * c, b * d) /\ a * c \in Int /\ b * d \in Int
  BY EqTimes
<1> QED BY <1>1, EqMod DEF Mul

LEMMA EqSquare ==
  ASSUME NEW a \in Int, NEW b \in Int, Eq(a, b)
  PROVE  Square(a) \in Field /\ Square(a) \in Int /\ Eq(Square(a), b * b)
BY EqMul DEF Square, Mul

LEMMA EqNeg ==
  ASSUME NEW a \in Field, NEW b \in Int, Eq(a, b)
  PROVE  Neg(a) \in Field /\ Neg(a) \in Int /\ Eq(Neg(a), -b)
<1>0. a \in Int
  BY FieldInt
<1>1. PICK c \in Field : c = Neg(a) /\ c \in Int /\ Z(c + a)
  BY NegF
<1>2. PICK g, h \in Int : g = c + a /\ h = a - b
  BY <1>0, <1>1
<1>3. c - (-b) = 1 * g + (-1) * h /\ 1 \in Int /\ -1 \in Int
  BY <1>0, <1>1, <1>2
<1>4. Z(1 * g + (-1) * h)
  BY <1>1, <1>2, <1>3, Combine2 DEF Eq
<1> QED BY <1>1, <1>3, <1>4 DEF Eq

LEMMA EqField == ASSUME NEW a \in Field, NEW b \in Field, Eq(a, b) PROVE a = b
BY FieldEq DEF Eq

\* A product of numbers that are not zero.
LEMMA NonZero == ASSUME NEW a \in Int, NEW b \in Int, ~Z(a), ~Z(b) PROVE ~Z(a * b)
BY ZProduct

\* What is a square times twice a square is no square, unless it is zero.
LEMMA TwiceSquare == ASSUME NEW x \in Int, Sq(2 * (x * x)) PROVE Z(x)
BY SqScale, TwoNoSquare

-----------------------------------------------------------------------------
(* Elligator's map: for x, with v = 1 + 2x^2 and t = A(2(Ax)^2 - v^2), the
   u-coordinate is -A/v if t v^3 is a square and -2x^2 A/v otherwise. *)

Ev(x) == 1 + 2 * (x * x)
Et(x) == A * (A * A * (2 * (x * x)) - Ev(x) * Ev(x))
Cube(a) == a * a * a

LEMMA EInt == ASSUME NEW x \in Int PROVE Ev(x) \in Int /\ Et(x) \in Int /\ Cube(x) \in Int
BY Coefficients DEF Ev, Et, Cube

\* Neither v nor t is ever zero, since 2 is no square and -1 is one.
LEMMA DenominatorsNotZero ==
  ASSUME NEW x \in Int
  PROVE  ~Z(Ev(x)) /\ ~Z(Et(x)) /\ ~Z(Cube(Ev(x))) /\ ~Z(Et(x) * Cube(Ev(x)))
<1>0. A \in Int /\ ~Z(A) /\ Ev(x) \in Int /\ Et(x) \in Int /\ -1 \in Int /\ 1 \in Int /\ 2 \in Int
  BY Coefficients, EInt
<1>1. PICK w \in Int : w = 2 * (x * x)
  OBVIOUS
<1>2. PICK v \in Int : v = Ev(x) /\ v = 1 + w
  BY <1>0, <1>1 DEF Ev
<1>3. ASSUME Z(x) PROVE Z(w)
  <2>1. w = (2 * x) * x /\ 2 * x \in Int
    BY <1>1
  <2> QED BY <1>3, <2>1, Combine1
<1>4. ~Z(v)
  <2> SUFFICES ASSUME Z(v) PROVE FALSE
    OBVIOUS
  <2>1. -1 - w = (-1) * v
    BY <1>2
  <2>2. Z(-1 - w)
    BY <1>0, <2>1, Combine1
  <2>3. Sq(w)
    BY <1>0, <2>2, RootOfMinusOne, SqCong
  <2>4. Z(w)
    BY <1>1, <1>3, <2>3, TwiceSquare
  <2>5. 1 = 1 * v + (-1) * w
    BY <1>2
  <2>6. Z(1 * v + (-1) * w)
    BY <1>0, <2>4, Combine2
  <2> QED BY <2>5, <2>6, ZConst
<1>5. ~Z(Et(x))
  <2> SUFFICES ASSUME Z(Et(x)) PROVE FALSE
    OBVIOUS
  <2>1. PICK g \in Int : g = A * A * w - v * v
    BY <1>0
  <2>2. Z(A * g)
    BY <1>1, <1>2, <2>1 DEF Et
  <2>3. Z(g)
    BY <1>0, <2>2, ZProduct
  <2>4. PICK y \in Int : y = A * x
    BY <1>0
  <2>5. v * v - 2 * (y * y) = (-1) * g /\ v * v \in Int /\ 2 * (y * y) \in Int
    BY <1>0, <1>1, <2>1, <2>4
  <2>6. Z(v * v - 2 * (y * y))
    BY <1>0, <2>3, <2>5, Combine1
  <2>7. Sq(2 * (y * y))
    BY <2>5, <2>6, SqSelf, SqCong
  <2>8. Z(y)
    BY <2>7, TwiceSquare
  <2>9. v * v = (2 * y) * y + (-1) * g /\ 2 * y \in Int
    BY <1>0, <1>1, <2>1, <2>4
  <2>10. Z((2 * y) * y + (-1) * g)
    BY <1>0, <2>3, <2>8, <2>9, Combine2
  <2> QED BY <1>4, <2>9, <2>10, ZProduct
<1>6. ~Z(Cube(v))
  <2>1. ~Z(v * v) /\ v * v \in Int
    BY <1>4, NonZero
  <2> QED BY <1>4, <2>1, NonZero DEF Cube
<1>7. Cube(v) \in Int
  BY EInt
<1> QED BY <1>0, <1>2, <1>4, <1>5, <1>6, <1>7, NonZero

\* The u-coordinate of x, and which of the two cases gave it.
DirectCase(x, u) ==
  \/ Sq(Et(x) * Cube(Ev(x))) /\ Z(u * Ev(x) + A)
  \/ ~Sq(Et(x) * Cube(Ev(x))) /\ Z(u * Ev(x) + A * (2 * (x * x)))

LEMMA DirectMap ==
  ASSUME NEW x \in Field
  PROVE  field_to_mont(x) \in Field /\ field_to_mont(x) \in Int /\ DirectCase(x, field_to_mont(x))
<1>0. x \in Int /\ A \in Field /\ A \in Int /\ 1 \in Field /\ 2 \in Field /\ 1 \in Int /\ 2 \in Int
      /\ SQRT_M1 \in Field /\ SQRT_M1 \in Int
  BY FieldInt, Coefficients, ZConst, RootOfMinusOne
<1>1. PICK e \in Int : e = SQRT_M1 /\ e \in Field /\ Z(e * e + 1)
  BY RootOfMinusOne
<1>2. PICK x2 \in Field : x2 = Square(x) /\ x2 \in Int /\ Eq(x2, x * x)
  BY <1>0, EqRefl, EqSquare
<1>3. PICK w \in Int : w = 2 * (x * x)
  BY <1>0
<1>4. PICK zu \in Field : zu = Mul(2, x2) /\ zu \in Int /\ Eq(zu, w)
  BY <1>0, <1>2, <1>3, EqRefl, EqMul
<1>5. PICK ev \in Int : ev = Ev(x) /\ ev = w + 1
  BY <1>0, <1>3, EInt DEF Ev
<1>6. PICK v \in Field : v = (zu + 1) % P /\ v \in Int /\ Eq(v, ev)
  <2>0. PICK one \in Int : one = 1 /\ Eq(one, one)
    BY <1>0, EqRefl
  <2>2. Eq(zu + one, w + one)
    BY <1>3, <1>4, <2>0, EqPlus
  <2>1. Eq(zu + 1, ev) /\ zu + 1 \in Int
    BY <1>4, <1>5, <2>0, <2>2
  <2> QED BY <1>5, <2>1, EqMod
<1>7. PICK v2 \in Field : v2 = Square(v) /\ v2 \in Int /\ Eq(v2, ev * ev)
  BY <1>5, <1>6, EqSquare
<1>8. PICK et \in Int : et = Et(x) /\ et = A * (A * A * w - ev * ev)
  BY <1>0, <1>3, <1>5, EInt DEF Et
<1>9. PICK t \in Field : t = Mul(A, (Mul(Square(A), zu) + Neg(v2)) % P) /\ t \in Int /\ Eq(t, et)
  <2>1. PICK a2 \in Field : a2 = Square(A) /\ a2 \in Int /\ Eq(a2, A * A)
    BY <1>0, EqRefl, EqSquare
  <2>2. A * A \in Int /\ ev * ev \in Int /\ A * A * w \in Int /\ -(ev * ev) \in Int
    BY <1>0, <1>3, <1>5
  <2>3. PICK m \in Int : m = Mul(a2, zu) /\ Eq(m, A * A * w)
    BY <1>3, <1>4, <2>1, <2>2, EqMul
  <2>4. PICK h \in Int : h = Neg(v2) /\ Eq(h, -(ev * ev))
    BY <1>7, <2>2, EqNeg
  <2>5. PICK f, g, l \in Int : f = A * A * w /\ g = -(ev * ev) /\ l = m + h
    BY <2>2, <2>3, <2>4
  <2>a. PICK o \in Int : o = f + g /\ Eq(l, o)
    BY <2>3, <2>4, <2>5, EqPlus
  <2>6. PICK k \in Int : k = l % P /\ Eq(k, o)
    BY <2>5, <2>a, EqMod
  <2>7. Mul(A, k) \in Field /\ Mul(A, k) \in Int /\ Eq(Mul(A, k), A * o)
    BY <1>0, <2>a, <2>6, EqRefl, EqMul
  <2>8. o = A * A * w - ev * ev
    BY <2>2, <2>5, <2>a
  <2> QED BY <1>8, <2>1, <2>3, <2>4, <2>5, <2>6, <2>7, <2>8
<1>10. PICK dd \in Int : dd = Et(x) * Cube(Ev(x)) /\ dd = et * (ev * ev * ev) /\ ~Z(dd)
  <2>1. ~Z(Et(x) * Cube(Ev(x)))
    BY <1>0, DenominatorsNotZero
  <2>2. Et(x) * Cube(Ev(x)) = et * (ev * ev * ev) /\ et * (ev * ev * ev) \in Int
    BY <1>5, <1>8 DEF Cube
  <2> QED BY <2>1, <2>2
<1>11. PICK q \in Field : q = Mul(t, Mul(v2, v)) /\ q \in Int /\ Eq(q, dd)
  <2>1. ev * ev \in Int /\ ev * ev * ev \in Int
    BY <1>5
  <2>2. Mul(v2, v) \in Int /\ Eq(Mul(v2, v), ev * ev * ev)
    BY <1>5, <1>6, <1>7, <2>1, EqMul
  <2>3. PICK g, h \in Int : g = Mul(v2, v) /\ h = ev * ev * ev
    BY <2>1, <2>2
  <2>4. Mul(t, g) \in Field /\ Mul(t, g) \in Int /\ Eq(Mul(t, g), et * h)
    BY <1>8, <1>9, <2>2, <2>3, EqMul
  <2> QED BY <1>10, <2>3, <2>4
<1>12. q # 0 /\ (Sq(q) <=> Sq(dd))
  <2>1. Eq(dd, q)
    BY <1>10, <1>11, EqSym
  <2>2. ~Z(q)
    BY <1>10, <1>11, <2>1, EqZ
  <2> QED BY <1>10, <1>11, <2>1, <2>2, ZConst, SqCong DEF Eq
<1>13. PICK s \in Field : s = sqrt_ratio_one(q).root /\ s \in Int
  BY SqrtRatio, FieldInt
<1>14. /\ sqrt_ratio_one(q).is_sq <=> Sq(dd)
       /\ IF sqrt_ratio_one(q).is_sq THEN Z(s * s * q - 1) ELSE Z(s * s * q - e)
  BY <1>1, <1>12, <1>13, SqrtRatio
<1>15. PICK u0 : u0 = IF sqrt_ratio_one(q).is_sq THEN 1 ELSE Mul(x2, Mul(Neg(2), e))
  OBVIOUS
<1>16. field_to_mont(x) = Mul(Mul(Mul(Neg(u0), A), Mul(t, v2)), Square(s))
  BY <1>1, <1>2, <1>4, <1>6, <1>7, <1>9, <1>11, <1>13, <1>15 DEF field_to_mont
<1>17. ASSUME NEW c \in Int, u0 \in Field, Eq(u0, c)
       PROVE  field_to_mont(x) \in Field /\ field_to_mont(x) \in Int
              /\ Eq(field_to_mont(x), (-c) * A * (et * (ev * ev)) * (s * s))
  <2>0. PICK nc, a1, v1, g1, k1, s1 \in Int :
          nc = -c /\ a1 = nc * A /\ v1 = ev * ev /\ g1 = et * v1 /\ k1 = a1 * g1 /\ s1 = s * s
    BY <1>0, <1>5, <1>8, <1>13, <1>17
  <2>1. PICK a \in Int : a = Neg(u0) /\ Eq(a, nc)
    BY <1>17, <2>0, EqNeg
  <2>2. PICK b \in Int : b = Mul(a, A) /\ Eq(b, a1)
    BY <1>0, <2>0, <2>1, EqRefl, EqMul
  <2>4. PICK g \in Int : g = Mul(t, v2) /\ Eq(g, g1)
    BY <1>7, <1>8, <1>9, <2>0, EqMul
  <2>5. PICK k \in Int : k = Mul(b, g) /\ Eq(k, k1)
    BY <2>0, <2>2, <2>4, EqMul
  <2>6. PICK h \in Int : h = Square(s) /\ Eq(h, s1)
    BY <1>13, <2>0, EqRefl, EqSquare
  <2>7. Mul(k, h) \in Field /\ Mul(k, h) \in Int /\ Eq(Mul(k, h), k1 * s1)
    BY <2>0, <2>5, <2>6, EqMul
  <2> QED BY <1>16, <2>0, <2>1, <2>2, <2>4, <2>5, <2>6, <2>7
<1>18. CASE Sq(dd)
  <2>1. u0 = 1 /\ Eq(1, 1) /\ Z(s * s * q - 1)
    BY <1>0, <1>14, <1>15, <1>18, EqRefl
  <2>2. PICK u \in Int : u = field_to_mont(x) /\ u \in Field /\ Eq(u, (-1) * A * (et * (ev * ev)) * (s * s))
    BY <1>0, <1>17, <2>1
  <2>3. PICK f, g, h \in Int : f = u - ((-1) * A * (et * (ev * ev)) * (s * s)) /\ g = s * s * q - 1 /\ h = q - dd
    BY <1>0, <1>5, <1>8, <1>10, <1>11, <1>13, <2>2
  <2>4. PICK k, m \in Int : k = -A /\ m = A * (s * s)
    BY <1>0, <1>13
  <2>5. u * ev + A = ev * f + k * g + m * h
    <3>1. h = q - et * (ev * ev * ev)
      BY <1>10, <2>3
    <3>2. ev * f = u * ev + A * (et * (ev * ev * ev)) * (s * s)
      <4>1. PICK b \in Int : b = A * (et * (ev * ev)) * (s * s)
        BY <1>0, <1>5, <1>8, <1>13
      <4>2. (-1) * A * (et * (ev * ev)) * (s * s) = -b
        BY <1>0, <1>5, <1>8, <1>13, <4>1
      <4>3. ev * f = u * ev + ev * b
        BY <1>5, <2>2, <2>3, <4>1, <4>2
      <4>4. ev * b = A * (et * (ev * ev * ev)) * (s * s)
        <5>1. A \in Int /\ ev \in Int /\ et \in Int /\ s \in Int
          BY <1>0, <1>5, <1>8, <1>13
        <5> QED BY <4>1, <5>1
      <4> QED BY <4>3, <4>4
    <3>3. k * g = A - A * (s * s) * q
      BY <1>0, <1>11, <1>13, <2>3, <2>4
    <3>4. m * h = A * (s * s) * q - A * (et * (ev * ev * ev)) * (s * s)
      BY <1>0, <1>5, <1>8, <1>11, <1>13, <2>4, <3>1
    <3>5. PICK a, b, c \in Int : a = A * (et * (ev * ev * ev)) * (s * s) /\ b = A * (s * s) * q /\ c = u * ev
      BY <1>0, <1>5, <1>8, <1>11, <1>13, <2>2
    <3>6. ev * f = c + a /\ k * g = A - b /\ m * h = b - a
      BY <3>2, <3>3, <3>4, <3>5
    <3> QED BY <1>0, <3>5, <3>6
  <2>6. Z(ev * f + k * g + m * h)
    BY <1>5, <1>11, <2>1, <2>2, <2>3, <2>4, Combine3 DEF Eq
  <2> QED BY <1>5, <1>10, <1>18, <2>2, <2>5, <2>6 DEF DirectCase
<1>19. CASE ~Sq(dd)
  <2>1. u0 = Mul(x2, Mul(Neg(2), e)) /\ Z(s * s * q - e)
    BY <1>0, <1>14, <1>15, <1>19
  <2>2. PICK m2 \in Int : m2 = Neg(2) /\ Eq(m2, -2)
    BY <1>0, EqRefl, EqNeg
  <2>a. PICK m1, xx \in Int : m1 = -2 /\ xx = x * x
    BY <1>0
  <2>b. Mul(m2, e) \in Int /\ Eq(Mul(m2, e), m1 * e)
    BY <1>1, <2>2, <2>a, EqRefl, EqMul
  <2>3. PICK m3 \in Int : m3 = Mul(m2, e) /\ Eq(m3, -2 * e)
    BY <1>1, <2>a, <2>b
  <2>4. x * x \in Int /\ -2 * e \in Int
    BY <1>0, <1>1
  <2>5. u0 \in Field /\ u0 \in Int /\ Eq(u0, x * x * (-2 * e))
    BY <1>2, <2>1, <2>2, <2>3, <2>4, EqMul
  <2>6. PICK c \in Int : c = x * x * (-2 * e)
    BY <2>4
  <2>7. PICK u \in Int : u = field_to_mont(x) /\ u \in Field /\ Eq(u, (-c) * A * (et * (ev * ev)) * (s * s))
    BY <1>17, <2>5, <2>6
  <2>8. PICK f, g, h, l \in Int : f = u - ((-c) * A * (et * (ev * ev)) * (s * s)) /\ g = s * s * q - e /\ h = q - dd
                               /\ l = e * e + 1
    BY <1>0, <1>1, <1>5, <1>8, <1>10, <1>11, <1>13, <2>6, <2>7
  <2>9. PICK k, m, o \in Int : k = w * e * A /\ m = -(w * e * A * (s * s)) /\ o = w * A
    BY <1>0, <1>1, <1>3, <1>13
  <2>10. u * ev + A * w = (ev * f + k * g + m * h) + o * l
    <3>1. h = q - et * (ev * ev * ev)
      BY <1>10, <2>8
    <3>2. -c = w * e
      BY <1>0, <1>1, <1>3, <2>6
    <3>3. f = u - w * e * A * (et * (ev * ev)) * (s * s)
      BY <2>8, <3>2
    <3>4. ev * f = u * ev - w * e * A * (et * (ev * ev * ev)) * (s * s)
      BY <1>0, <1>1, <1>3, <1>5, <1>8, <1>13, <2>7, <3>3
    <3>5. k * g = w * e * A * (s * s) * q - w * A * (e * e)
      BY <1>0, <1>1, <1>3, <1>11, <1>13, <2>8, <2>9
    <3>6. m * h = -(w * e * A * (s * s) * q) + w * e * A * (et * (ev * ev * ev)) * (s * s)
      BY <1>0, <1>1, <1>3, <1>5, <1>8, <1>11, <1>13, <2>9, <3>1
    <3>7. o * l = w * A * (e * e) + w * A
      BY <1>0, <1>1, <1>3, <2>8, <2>9
    <3>8. PICK a, b, y, z \in Int : a = w * e * A * (et * (ev * ev * ev)) * (s * s) /\ b = w * e * A * (s * s) * q
                                  /\ y = u * ev /\ z = w * A * (e * e)
      BY <1>0, <1>1, <1>3, <1>5, <1>8, <1>11, <1>13, <2>7
    <3>9. ev * f = y - a /\ k * g = b - z /\ m * h = -b + a /\ o * l = z + w * A
      BY <3>4, <3>5, <3>6, <3>7, <3>8
    <3> QED BY <1>0, <1>3, <3>8, <3>9
  <2>11. Z(ev * f + k * g + m * h) /\ Z(o * l)
    <3>1. Z(f) /\ Z(g) /\ Z(h) /\ Z(l)
      BY <1>1, <1>11, <2>1, <2>7, <2>8 DEF Eq
    <3> QED BY <1>5, <2>8, <2>9, <3>1, Combine3, Combine1
  <2>12. Z((ev * f + k * g + m * h) + o * l)
    <3>1. ev * f + k * g + m * h \in Int /\ o * l \in Int
      BY <1>5, <2>8, <2>9
    <3> QED BY <2>11, <3>1, ZAdd
  <2> QED BY <1>3, <1>5, <1>10, <1>19, <2>7, <2>10, <2>12 DEF DirectCase
<1> QED BY <1>18, <1>19

(* The Montgomery curve: u is the coordinate of a point if Mf(u) is a square. *)
Mg(u) == u * u + A * u + 1
Mf(u) == u * Mg(u)

LEMMA MInt == ASSUME NEW u \in Int PROVE Mg(u) \in Int /\ Mf(u) \in Int
BY Coefficients DEF Mg, Mf

\* The equation of the curve, cleared of the denominator v of u.
LEMMA Cleared ==
  ASSUME NEW u \in Int, NEW v \in Int, NEW b \in Int, Z(u * v + b)
  PROVE  Eq(Cube(v) * Mf(u), -Cube(b) + A * (b * b) * v - b * (v * v))
<1>0. PICK a \in Int : a = A
  BY Coefficients
<1>1. PICK s, c, k \in Int : s = u * v /\ c = s + b
                             /\ k = s * s - b * s + b * b + a * v * (s - b) + v * v
  BY <1>0
<1>2. Cube(v) * Mf(u) = Cube(s) + a * (s * s) * v + s * (v * v)
  BY <1>0, <1>1 DEF Cube, Mf, Mg
<1>5. PICK g, h \in Int : g = Cube(s) + a * (s * s) * v + s * (v * v) /\ h = -Cube(b) + a * (b * b) * v - b * (v * v)
  BY <1>0, <1>1 DEF Cube
<1>3. g - h = k * c
  BY <1>0, <1>1, <1>5 DEF Cube
<1>4. Z(k * c)
  BY <1>1, Combine1
<1>6. Z(g - h)
  BY <1>3, <1>4, <1>5
<1> QED BY <1>0, <1>2, <1>5, <1>6 DEF Eq

\* In the first case u is on the curve because t v^3 is a square, in the second
\* because both t v^3 and 2x^2 are not.
LEMMA CurveRelation ==
  ASSUME NEW x \in Int, NEW u \in Int
  PROVE  /\ Z(u * Ev(x) + A) => Eq(Cube(Ev(x)) * Mf(u), Et(x))
         /\ Z(u * Ev(x) + A * (2 * (x * x))) => Eq(Cube(Ev(x)) * Mf(u), 2 * (x * x) * Et(x))
<1>0. PICK a, w, v, t \in Int : a = A /\ w = 2 * (x * x) /\ v = Ev(x) /\ v = 1 + w
                            /\ t = Et(x) /\ t = a * (a * a * w - v * v)
  BY Coefficients, EInt DEF Ev, Et
<1>i. w \in Int /\ a \in Int /\ v \in Int /\ t \in Int
  BY <1>0
<1>1. ASSUME Z(u * v + a) PROVE Eq(Cube(v) * Mf(u), t)
  <2>1. Eq(Cube(v) * Mf(u), -Cube(a) + a * (a * a) * v - a * (v * v))
    BY <1>0, <1>1, Cleared
  <2>2. -Cube(a) + a * (a * a) * v - a * (v * v) = t
    BY <1>0 DEF Cube
  <2> QED BY <2>1, <2>2
<1>2. ASSUME Z(u * v + a * w) PROVE Eq(Cube(v) * Mf(u), w * t)
  <2>0. PICK b \in Int : b = a * w
    BY <1>i
  <2>1. Eq(Cube(v) * Mf(u), -Cube(b) + a * (b * b) * v - b * (v * v))
    BY <1>0, <1>2, <2>0, Cleared
  <2>2. -Cube(b) + a * (b * b) * v - b * (v * v) = w * t
    BY <1>0, <2>0 DEF Cube
  <2> QED BY <2>1, <2>2
<1> QED BY <1>0, <1>1, <1>2

LEMMA SixthPower ==
  ASSUME NEW f \in Int, NEW c \in Int, NEW g \in Int, Eq(c * f, g)
  PROVE  Eq(f * (c * c), g * c) /\ Eq(g * c, f * (c * c))
<1>1. PICK h \in Int : h = c * f - g /\ Z(h)
  BY DEF Eq
<1>2. f * (c * c) - g * c = c * h /\ f * (c * c) \in Int /\ g * c \in Int
  BY <1>1
<1>3. Eq(f * (c * c), g * c)
  BY <1>1, <1>2, Combine1 DEF Eq
<1> QED BY <1>2, <1>3, EqSym

\* Elligator never leaves the curve.
LEMMA MontOnCurve ==
  ASSUME NEW x \in Field
  PROVE  Sq(Mf(field_to_mont(x)))
<1>0. PICK u \in Int : u = field_to_mont(x) /\ u \in Field /\ DirectCase(x, u)
  BY DirectMap
<1>1. x \in Int
  BY FieldInt
<1>2. PICK c, t, w, f, b \in Int : c = Cube(Ev(x)) /\ t = Et(x) /\ w = 2 * (x * x) /\ f = Mf(u) /\ ~Z(c)
                                   /\ b = t * c
  <2>1. PICK c, v \in Int : v = Ev(x) /\ c = Cube(v) /\ ~Z(c)
    BY <1>1, EInt, DenominatorsNotZero
  <2>2. PICK t, f, w \in Int : t = Et(x) /\ f = Mf(u) /\ w = 2 * (x * x)
    BY <1>0, <1>1, EInt, MInt
  <2>3. PICK b \in Int : b = t * c
    BY <2>1, <2>2
  <2> QED BY <2>1, <2>2, <2>3
<1>3. CASE Sq(b) /\ Z(u * Ev(x) + A)
  <2>1. Eq(c * f, t)
    BY <1>0, <1>1, <1>2, <1>3, CurveRelation
  <2>2. Eq(t * c, f * (c * c)) /\ f * (c * c) \in Int
    BY <1>2, <2>1, SixthPower
  <2>3. Sq(f * (c * c))
    BY <1>2, <1>3, <2>2, SqCong DEF Eq
  <2> QED BY <1>0, <1>2, <2>3, SqScale
<1>4. CASE ~Sq(b) /\ Z(u * Ev(x) + A * (2 * (x * x)))
  <2>0. PICK g \in Int : g = w * t
    BY <1>2
  <2>1. Eq(c * f, g)
    BY <1>0, <1>1, <1>2, <1>4, <2>0, CurveRelation
  <2>2. Eq(g * c, f * (c * c)) /\ f * (c * c) \in Int /\ g * c \in Int
    BY <1>2, <2>0, <2>1, SixthPower
  <2>3. g * c = w * b
    BY <1>2, <2>0
  <2>4. Sq(w * b)
    <3>1. CASE ~Sq(w)
      BY <1>2, <1>4, <3>1, NonSquares
    <3>2. CASE Sq(w)
      <4>1. Z(x)
        BY <1>1, <1>2, <3>2, TwiceSquare
      <4>2. PICK k \in Int : k = 2 * x * b
        BY <1>1, <1>2
      <4>3. w * b = k * x /\ w * b \in Int
        BY <1>1, <1>2, <4>2
      <4> QED BY <1>1, <4>1, <4>2, <4>3, Combine1, SqZero
    <3> QED BY <3>1, <3>2
  <2>5. Sq(f * (c * c))
    BY <2>2, <2>3, <2>4, SqCong DEF Eq
  <2> QED BY <1>0, <1>2, <2>5, SqScale
<1> QED BY <1>0, <1>2, <1>3, <1>4 DEF DirectCase

-----------------------------------------------------------------------------
(* The two forms of the curve: y = (u - 1)/(u + 1), and x2 is the square of the
   other Edwards coordinate. *)

SameU(u, y) == Z(y * (u + 1) - (u - 1))
OnEdwards(x2, y) == Z(x2 * (EDWARDS_D * (y * y) + 1) - (y * y - 1))

LEMMA Birational ==
  ASSUME NEW u \in Int, NEW y \in Int, NEW e \in Int, SameU(u, y), OnEdwards(e, y)
  PROVE  /\ ~Z(Mg(u))
         /\ Eq(e * (Mg(u) * Mg(u)), -((A + 2) * Mf(u)))
         /\ Sq(e) <=> Sq(Mf(u))
<1>0. PICK d, a \in Int : d = EDWARDS_D /\ a = A /\ ~Z(a + 2) /\ Sq(a + 2) /\ Z(d * (a + 2) + (a - 2))
  BY Coefficients
<1>i. d \in Int /\ a \in Int /\ a + 2 \in Int /\ 4 \in Int /\ 2 \in Int
  BY <1>0
<1>1. PICK h1, h2, h3 \in Int : h1 = y * (u + 1) - (u - 1) /\ h2 = e * (d * (y * y) + 1) - (y * y - 1)
                                /\ h3 = d * (a + 2) + (a - 2)
  BY <1>i
<1>2. Z(h1) /\ Z(h2) /\ Z(h3)
  BY <1>0, <1>1 DEF SameU, OnEdwards
<1>3. PICK k, c1, c2 \in Int : k = e * (d * ((u - 1) * (u - 1)) + (u + 1) * (u + 1)) + 4 * u
                       /\ c1 = -((y * (u + 1) + (u - 1)) * (e * d - 1)) /\ c2 = (u + 1) * (u + 1)
  BY <1>i
<1>4. k = c1 * h1 + c2 * h2
  <2>1. PICK p, m \in Int : p = u + 1 /\ m = u - 1
    OBVIOUS
  <2>2. PICK o \in Int : o = e * d - 1
    BY <1>i
  <2>3. h1 = y * p - m /\ h2 = o * (y * y) + e + 1 /\ c1 = -((y * p + m) * o) /\ c2 = p * p
    BY <1>i, <1>1, <1>3, <2>1, <2>2
  <2>4. c1 * h1 = o * (m * m) - o * (y * y) * (p * p)
    BY <2>1, <2>2, <2>3
  <2>5. c2 * h2 = o * (y * y) * (p * p) + (e + 1) * (p * p)
    BY <2>1, <2>2, <2>3
  <2>6. k = o * (m * m) + (e + 1) * (p * p)
    <3>1. (e * d - 1) * (m * m) + (e + 1) * (p * p) = e * (d * (m * m) + p * p) + p * p - m * m
      BY <1>i, <2>1
    <3>2. p * p - m * m = 4 * u
      BY <2>1
    <3>3. k = e * (d * (m * m) + p * p) + 4 * u
      BY <1>3, <2>1
    <3> QED BY <1>i, <2>1, <2>2, <3>1, <3>2, <3>3
  <2> QED BY <2>1, <2>2, <2>4, <2>5, <2>6
<1>5. Z(c1 * h1 + c2 * h2)
  BY <1>1, <1>2, <1>3, Combine2
<1>6. Z(k)
  BY <1>4, <1>5
<1>7. PICK g, b, c \in Int : g = Mg(u) /\ b = e * g + u * (a + 2) /\ c = -(e * ((u - 1) * (u - 1)))
                             /\ g = u * u + a * u + 1
  BY <1>0, MInt DEF Mg
<1>8. 4 * b = (a + 2) * k + c * h3
  <2>1. PICK p, m \in Int : p = (u + 1) * (u + 1) /\ m = (u - 1) * (u - 1)
    OBVIOUS
  <2>2. k = e * (d * m + p) + 4 * u /\ c = -(e * m)
    BY <1>3, <1>7, <2>1
  <2>3. (a + 2) * k + c * h3 = e * ((a + 2) * p - (a - 2) * m) + 4 * (u * (a + 2))
    BY <1>i, <1>1, <2>1, <2>2
  <2>4. (a + 2) * p - (a - 2) * m = 4 * g
    BY <1>i, <1>7, <2>1
  <2>5. e * (4 * g) + 4 * (u * (a + 2)) = 4 * b
    BY <1>i, <1>7
  <2> QED BY <2>3, <2>4, <2>5
<1>9. Z((a + 2) * k + c * h3)
  BY <1>i, <1>1, <1>2, <1>3, <1>6, <1>7, Combine2
<1>10. Z(b)
  <2>1. 4 * b = 2 * (2 * b) /\ 2 * b \in Int
    BY <1>7
  <2>2. Z(2 * (2 * b))
    BY <1>8, <1>9, <2>1
  <2>3. Z(2 * b)
    BY <1>i, <2>1, <2>2, ZProduct, ZConst
  <2>4. b \in Int
    BY <1>7
  <2> QED BY <1>i, <2>3, <2>4, ZProduct, ZConst
<1>11. ~Z(g)
  <2> SUFFICES ASSUME Z(g) PROVE FALSE
    OBVIOUS
  <2>1. PICK m \in Int : m = u * (a + 2)
    BY <1>i
  <2>2. m = 1 * b + (-e) * g /\ 1 \in Int /\ -e \in Int
    BY <1>7, <2>1
  <2>3. Z(1 * b + (-e) * g)
    BY <1>7, <1>10, <2>2, Combine2
  <2>4. Z(u)
    BY <1>0, <1>i, <2>1, <2>2, <2>3, ZProduct
  <2>5. PICK c0 \in Int : c0 = -(u + a)
    BY <1>i
  <2>6. 1 = 1 * g + c0 * u
    BY <1>i, <1>7, <2>5
  <2>7. Z(1 * g + c0 * u)
    BY <1>7, <2>2, <2>4, <2>5, Combine2
  <2> QED BY <2>6, <2>7, ZConst
<1>12. PICK f, z \in Int : f = Mf(u) /\ f = u * g /\ z = -((a + 2) * f)
  BY <1>0, <1>7, MInt DEF Mf
<1>13. e * (g * g) - z = g * b /\ e * (g * g) \in Int
  BY <1>i, <1>7, <1>12
<1>14. Eq(e * (g * g), z)
  BY <1>7, <1>10, <1>13, Combine1 DEF Eq
<1>15. ASSUME Sq(e) PROVE Sq(f)
  <2>i. g \in Int /\ g * g \in Int
    BY <1>7
  <2>0. Sq(g * g)
    BY <2>i, SqSelf
  <2>1. Sq(e * (g * g))
    BY <1>15, <2>i, <2>0, SqMul
  <2>2. Sq(z)
    BY <1>12, <1>13, <1>14, <2>1, SqCong DEF Eq
  <2>3. Sq(-z) /\ -z = (a + 2) * f
    BY <1>i, <1>12, <2>2, SqNeg
  <2> QED BY <1>0, <1>i, <1>12, <2>3, SqNon
<1>16. ASSUME Sq(f) PROVE Sq(e)
  <2>1. Sq((a + 2) * f) /\ (a + 2) * f \in Int
    BY <1>0, <1>i, <1>12, <1>16, SqMul
  <2>2. Sq(z)
    BY <1>12, <2>1, SqNeg
  <2>3. Eq(z, e * (g * g))
    BY <1>12, <1>13, <1>14, EqSym
  <2>4. Sq(e * (g * g))
    BY <1>12, <1>13, <2>2, <2>3, SqCong DEF Eq
  <2> QED BY <1>7, <1>11, <2>4, SqScale
<1>17. -((A + 2) * Mf(u)) = z /\ Mg(u) = g /\ Mf(u) = f
  BY <1>0, <1>7, <1>12
<1> QED BY <1>11, <1>14, <1>15, <1>16, <1>17

LEMMA Quotient ==
  ASSUME NEW a \in Field, NEW b \in Field, ~Z(b)
  PROVE  Mul(a, Inv[b]) \in Field /\ Mul(a, Inv[b]) \in Int /\ Z(Mul(a, Inv[b]) * b - a)
<1>0. a \in Int /\ b \in Int
  BY FieldInt
<1>1. PICK c \in Int : c = Inv[b] /\ Z(b * c - 1)
  BY InvF
<1>2. PICK m \in Int : m = Mul(a, c) /\ m \in Field /\ Z(m - a * c)
  BY <1>0, <1>1, MulF
<1>3. PICK g, h \in Int : g = m - a * c /\ h = b * c - 1
  BY <1>0, <1>1, <1>2
<1>4. m * b - a = b * g + a * h
  BY <1>0, <1>1, <1>2, <1>3
<1>5. Z(b * g + a * h)
  BY <1>0, <1>1, <1>2, <1>3, Combine2
<1> QED BY <1>1, <1>2, <1>4, <1>5

LEMMA EdwardsDenominator ==
  ASSUME NEW y \in Int
  PROVE  ~Z(EDWARDS_D * (y * y) + 1)
<1>0. PICK d \in Int : d = EDWARDS_D /\ ~Sq(d)
  BY Coefficients
<1> SUFFICES ASSUME Z(d * (y * y) + 1) PROVE FALSE
  BY <1>0
<1>1. PICK b, c \in Int : b = d * (y * y) /\ c = b + 1
  BY <1>0
<1>2. -1 - b = (-1) * c /\ -1 \in Int
  BY <1>1
<1>3. Z(-1 - b)
  BY <1>1, <1>2, Combine1
<1>4. Sq(b)
  BY <1>1, <1>2, <1>3, RootOfMinusOne, SqCong
<1>5. Z(y)
  BY <1>0, <1>1, <1>4, SqScale
<1>6. PICK e \in Int : e = -(d * y)
  BY <1>0
<1>7. 1 = 1 * c + e * y /\ 1 \in Int
  BY <1>0, <1>1, <1>6
<1>8. Z(1 * c + e * y)
  BY <1>1, <1>5, <1>6, <1>7, Combine2
<1> QED BY <1>7, <1>8, ZConst

\* A point whose u is -1 is on the twist.
LEMMA NotMinusOne ==
  ASSUME NEW u \in Int, Sq(Mf(u))
  PROVE  ~Z(u + 1)
<1>0. PICK a \in Int : a = A /\ ~Sq(a - 2)
  BY Coefficients
<1> SUFFICES ASSUME Z(u + 1) PROVE FALSE
  OBVIOUS
<1>1. PICK f, b, k \in Int : f = Mf(u) /\ f = u * (u * u + a * u + 1) /\ b = a - 2
                             /\ k = u * u + (a - 1) * u + (2 - a)
  BY <1>0, MInt DEF Mf, Mg
<1>2. f - b = k * (u + 1) /\ u + 1 \in Int
  BY <1>0, <1>1
<1>3. Z(f - b)
  BY <1>1, <1>2, Combine1
<1> QED BY <1>0, <1>1, <1>3, SqCong

LEMMA InPoints ==
  ASSUME NEW x \in Field, NEW y \in Field
  PROVE  <<x, y>> \in Points <=> OnEdwards(x * x, y)
<1>0. x \in Int /\ y \in Int /\ 1 \in Int
  BY FieldInt
<1>1. PICK d \in Int : d = EDWARDS_D
  BY Coefficients
<1>2. PICK x1, y1, d1, xy1 \in Int : x1 = x * x /\ y1 = y * y /\ xy1 = x1 * y1 /\ d1 = d * xy1
  BY <1>0, <1>1
<1>3. PICK x2 \in Field : x2 = Square(x) /\ x2 \in Int /\ Eq(x2, x1)
  BY <1>0, <1>2, EqRefl, EqSquare
<1>4. PICK y2 \in Field : y2 = Square(y) /\ y2 \in Int /\ Eq(y2, y1)
  BY <1>0, <1>2, EqRefl, EqSquare
<1>5. PICK n2 \in Int : n2 = Neg(x2) /\ Eq(n2, -x1) /\ -x1 \in Int
  BY <1>2, <1>3, EqNeg
<1>6. PICK m2 \in Int : m2 = Mul(x2, y2) /\ Eq(m2, xy1)
  BY <1>2, <1>3, <1>4, EqMul
<1>7. PICK m3 \in Int : m3 = Mul(d, m2) /\ Eq(m3, d1)
  BY <1>1, <1>2, <1>6, EqRefl, EqMul
<1>8. PICK s, s1, t, t1 \in Int : s = y2 + n2 /\ s1 = y1 - x1 /\ t = 1 + m3 /\ t1 = 1 + d1
  BY <1>2, <1>4, <1>5, <1>7
<1>9. Eq(s, s1)
  <2>1. s1 = y1 + -x1
    BY <1>2, <1>8
  <2> QED BY <1>2, <1>4, <1>5, <1>8, <2>1, EqPlus
<1>10. Eq(t, t1)
  <2>1. t - t1 = m3 - d1
    BY <1>2, <1>7, <1>8
  <2> QED BY <1>7, <2>1 DEF Eq
<1>11. PICK k, l \in Field : k = s % P /\ l = t % P /\ k \in Int /\ l \in Int /\ Eq(k, s1) /\ Eq(l, t1)
  BY <1>8, <1>9, <1>10, EqMod
<1>12. <<x, y>> \in Points <=> k = l
  BY <1>1, <1>3, <1>4, <1>5, <1>6, <1>7, <1>8, <1>11 DEF Points
<1>13. k = l <=> Eq(s1, t1)
  <2>1. ASSUME k = l PROVE Eq(s1, t1)
    BY <1>8, <1>11, <2>1, EqSym, EqTrans
  <2>2. ASSUME Eq(s1, t1) PROVE k = l
    <3>1. Eq(k, t1) /\ Eq(t1, l)
      BY <1>8, <1>11, <2>2, EqSym, EqTrans
    <3> QED BY <1>8, <1>11, <3>1, EqTrans, EqField
  <2> QED BY <2>1, <2>2
<1>14. PICK b, c \in Int : b = s1 - t1 /\ c = (x * x) * (d * (y * y) + 1) - (y * y - 1)
  BY <1>0, <1>1, <1>8
<1>15. b = (-1) * c /\ c = (-1) * b /\ -1 \in Int
  BY <1>0, <1>1, <1>2, <1>8, <1>14
<1>16. Z(b) <=> Z(c)
  BY <1>14, <1>15, Combine1
<1> QED BY <1>1, <1>12, <1>13, <1>14, <1>16 DEF Eq, OnEdwards

\* Both unwraps: a u of the curve has an Edwards point with an even x.
LEMMA ToEdwards ==
  ASSUME NEW u \in Field, Sq(Mf(u))
  PROVE  \E x, y \in Field : /\ to_edwards(u) = <<x, y>> /\ ~is_negative(x)
                             /\ SameU(u, y) /\ OnEdwards(x * x, y)
<1>0. u \in Int /\ ~Z(u + 1) /\ P \in Int /\ 1 \in Int
  BY FieldInt, PFacts, NotMinusOne
<1>1. PICK d \in Int : d = EDWARDS_D
  BY Coefficients
<1>2. u # P - 1
  <2> SUFFICES ASSUME u = P - 1 PROVE FALSE
    OBVIOUS
  <2>1. u + 1 = 1 * P
    BY <1>0
  <2> QED BY <1>0, <2>1, ZMultiple
<1>3. PICK a, b, k \in Int : a = u + P - 1 /\ b = u + 1 /\ k = u - 1
  BY <1>0
<1>4. Eq(a, k) /\ Eq(b, b)
  <2>1. a - k = 1 * P
    BY <1>0, <1>3
  <2> QED BY <1>0, <1>3, <2>1, ZMultiple, EqRefl DEF Eq
<1>5. PICK s, t \in Field : s = a % P /\ t = b % P /\ s \in Int /\ t \in Int /\ Eq(s, k) /\ Eq(t, b)
  BY <1>3, <1>4, EqMod
<1>6. ~Z(t)
  <2>1. Eq(b, t)
    BY <1>3, <1>5, EqSym
  <2> QED BY <1>0, <1>3, <1>5, <2>1, EqZ
<1>7. PICK y \in Field : y = Mul(s, Inv[t]) /\ y \in Int /\ Z(y * t - s)
  BY <1>5, <1>6, Quotient
<1>8. Z(y * b - k)
  <2>1. PICK g, h, l \in Int : g = y * t - s /\ h = s - k /\ l = t - b
    BY <1>3, <1>5, <1>7
  <2>2. PICK m \in Int : m = -y
    BY <1>7
  <2>3. y * b - k = 1 * g + 1 * h + m * l
    BY <1>3, <1>5, <1>7, <2>1, <2>2
  <2>4. Z(1 * g + 1 * h + m * l)
    <3>1. Z(g) /\ Z(h) /\ Z(l)
      BY <1>5, <1>7, <2>1 DEF Eq
    <3> QED BY <1>0, <2>1, <2>2, <3>1, Combine3
  <2> QED BY <2>3, <2>4
<1>9. PICK y1, n1, e1, d1 \in Int : y1 = y * y /\ n1 = y1 - 1 /\ d1 = d * y1 /\ e1 = d1 + 1
  BY <1>1, <1>7
<1>10. PICK y2 \in Int : y2 = Square(y) /\ Eq(y2, y1)
  BY <1>7, <1>9, EqRefl, EqSquare
<1>11. PICK dy \in Int : dy = Mul(d, y2) /\ Eq(dy, d1)
  BY <1>1, <1>9, <1>10, EqRefl, EqMul
<1>12. PICK g, h \in Int : g = y2 + P - 1 /\ h = dy + 1
  BY <1>0, <1>10, <1>11
<1>13. Eq(g, n1) /\ Eq(h, e1)
  <2>1. PICK m \in Int : m = y2 - y1
    BY <1>9, <1>10
  <2>2. g - n1 = m + P /\ h - e1 = dy - d1
    BY <1>0, <1>9, <1>10, <1>11, <1>12, <2>1
  <2>3. Z(P)
    BY <1>0, ZMultiple
  <2> QED BY <1>0, <1>10, <1>11, <2>1, <2>2, <2>3, ZAdd DEF Eq
<1>14. PICK o, q \in Field : o = g % P /\ q = h % P /\ o \in Int /\ q \in Int /\ Eq(o, n1) /\ Eq(q, e1)
  BY <1>9, <1>12, <1>13, EqMod
<1>15. ~Z(q)
  <2>1. Eq(e1, q)
    BY <1>9, <1>14, EqSym
  <2>2. ~Z(e1)
    BY <1>1, <1>7, <1>9, EdwardsDenominator
  <2> QED BY <1>9, <1>14, <2>1, <2>2, EqZ
<1>16. PICK e \in Field : e = Mul(o, Inv[q]) /\ e \in Int /\ Z(e * q - o)
  BY <1>14, <1>15, Quotient
<1>17. Z(e * e1 - n1)
  <2>1. PICK g1, h1, l1 \in Int : g1 = e * q - o /\ h1 = o - n1 /\ l1 = q - e1
    BY <1>9, <1>14, <1>16
  <2>2. PICK m \in Int : m = -e
    BY <1>16
  <2>3. e * e1 - n1 = 1 * g1 + 1 * h1 + m * l1
    BY <1>9, <1>14, <1>16, <2>1, <2>2
  <2>4. Z(1 * g1 + 1 * h1 + m * l1)
    <3>1. Z(g1) /\ Z(h1) /\ Z(l1)
      BY <1>14, <1>16, <2>1 DEF Eq
    <3> QED BY <1>0, <2>1, <2>2, <3>1, Combine3
  <2> QED BY <2>3, <2>4
<1>18. SameU(u, y) /\ OnEdwards(e, y)
  BY <1>1, <1>3, <1>8, <1>9, <1>17 DEF SameU, OnEdwards
<1>19. Sq(e)
  BY <1>0, <1>7, <1>16, <1>18, Birational
<1>20. PICK x \in Field : Root[e] = <<x>> /\ ~is_negative(x) /\ Z(x * x - e)
  BY <1>16, <1>19, RootF
<1>21. to_edwards(u) = <<x, y>>
  <2>1. Root[e] # None /\ Root[e][1] = x
    BY <1>16, <1>19, <1>20, RootF
  <2>2. y = Mul((u + P - 1) % P, Inv[(u + 1) % P])
    BY <1>3, <1>5, <1>7
  <2>3. e = Mul((Square(y) + P - 1) % P, Inv[(Mul(EDWARDS_D, Square(y)) + 1) % P])
    BY <1>1, <1>10, <1>11, <1>12, <1>14, <1>16
  <2> QED BY <1>2, <2>1, <2>2, <2>3, Zenon DEF to_edwards
<1>22. OnEdwards(x * x, y)
  <2>0. x \in Int
    BY FieldInt
  <2>1. PICK g1, h1 \in Int : g1 = x * x - e /\ h1 = e * e1 - n1
    BY <1>9, <1>16, <2>0
  <2>2. x * x * e1 - n1 = e1 * g1 + 1 * h1
    BY <1>9, <1>16, <2>0, <2>1
  <2>3. Z(e1 * g1 + 1 * h1)
    BY <1>0, <1>9, <1>17, <1>20, <2>1, Combine2
  <2>4. Z(x * x * e1 - n1)
    BY <2>2, <2>3
  <2> QED BY <1>1, <1>9, <2>4 DEF OnEdwards
<1> QED BY <1>18, <1>20, <1>21, <1>22

LEMMA FieldToEdwards ==
  ASSUME NEW x \in Field
  PROVE  /\ field_to_edwards(x) \in Points
         /\ field_to_mont(x) \in Field /\ Sq(Mf(field_to_mont(x)))
<1>1. PICK u \in Field : u = field_to_mont(x) /\ Sq(Mf(u))
  BY DirectMap, MontOnCurve
<1>2. PICK b, y \in Field : to_edwards(u) = <<b, y>> /\ OnEdwards(b * b, y)
  BY <1>1, ToEdwards
<1> QED BY <1>1, <1>2, InPoints DEF field_to_edwards

\* A point of the Edwards form is a pair.
LEMMA PointPair ==
  ASSUME NEW q \in Points
  PROVE  \E x, y \in Field : q = <<x, y>> /\ q[1] = x /\ q[2] = y /\ OnEdwards(x * x, y)
<1>1. q \in Field \X Field
  BY DEF Points
<1>2. PICK x, y \in Field : q = <<x, y>>
  BY <1>1
<1> QED BY <1>2, InPoints

\* u and y determine each other.
LEMMA SameUniqueY ==
  ASSUME NEW u \in Int, NEW y \in Field, NEW z \in Field, SameU(u, y), SameU(u, z), ~Z(u + 1)
  PROVE  y = z
<1>0. y \in Int /\ z \in Int
  BY FieldInt
<1>1. PICK g, h, k, b \in Int : g = y * (u + 1) - (u - 1) /\ h = z * (u + 1) - (u - 1) /\ k = y - z /\ b = u + 1
  BY <1>0
<1>2. k * b = 1 * g + (-1) * h /\ 1 \in Int /\ -1 \in Int
  BY <1>0, <1>1
<1>3. Z(1 * g + (-1) * h)
  BY <1>1, <1>2, Combine2 DEF SameU
<1>4. Z(k)
  BY <1>1, <1>2, <1>3, ZProduct
<1> QED BY <1>1, <1>4, FieldEq

LEMMA SameUniqueU ==
  ASSUME NEW u \in Field, NEW z \in Field, NEW y \in Int, SameU(u, y), SameU(z, y), ~Z(1 - y)
  PROVE  u = z
<1>0. u \in Int /\ z \in Int
  BY FieldInt
<1>1. PICK g, h, k, b \in Int : g = y * (u + 1) - (u - 1) /\ h = y * (z + 1) - (z - 1) /\ k = u - z /\ b = 1 - y
  BY <1>0
<1>2. k * b = (-1) * g + 1 * h /\ 1 \in Int /\ -1 \in Int
  BY <1>0, <1>1
<1>3. Z((-1) * g + 1 * h)
  BY <1>1, <1>2, Combine2 DEF SameU
<1>4. Z(k)
  BY <1>1, <1>2, <1>3, ZProduct
<1> QED BY <1>1, <1>4, FieldEq

LEMMA ToMontgomery ==
  ASSUME NEW x, NEW y \in Field
  PROVE  /\ to_montgomery(<<x, y>>) \in Field
         /\ y = 1 => to_montgomery(<<x, y>>) = 0
         /\ y # 1 => ~Z(1 - y) /\ SameU(to_montgomery(<<x, y>>), y)
<1>0. y \in Int /\ P \in Int /\ 1 \in Int /\ 1 \in Field /\ 0 \in Field
  BY FieldInt, PFacts, ZConst
<1>1. PICK a, b, k, l \in Int : a = 1 + y /\ b = 1 - y /\ k = 1 + P - y /\ l = k
  BY <1>0
<1>2. Eq(a, a) /\ Eq(k, b)
  <2>1. k - b = 1 * P
    BY <1>0, <1>1
  <2> QED BY <1>0, <1>1, <2>1, ZMultiple, EqRefl DEF Eq
<1>3. PICK s, t \in Field : s = a % P /\ t = k % P /\ s \in Int /\ t \in Int /\ Eq(s, a) /\ Eq(t, b)
  BY <1>1, <1>2, EqMod
<1>4. PICK c \in Int : c = Inv[t] /\ c \in Field /\ (t = 0 => c = 0)
  BY <1>3, InvF
<1>5. PICK u \in Field : u = Mul(s, c) /\ u \in Int /\ Z(u - s * c)
  BY <1>3, <1>4, MulF
<1>6. u = to_montgomery(<<x, y>>)
  BY <1>1, <1>3, <1>4, <1>5 DEF to_montgomery
<1>7. ASSUME y = 1 PROVE u = 0
  <2>1. b = 0
    BY <1>0, <1>1, <1>7
  <2>2. t = 0
    BY <1>0, <1>3, <2>1, EqField
  <2>3. u - s * c = u
    BY <1>3, <1>4, <1>5, <2>2
  <2> QED BY <1>5, <2>3, FieldZero
<1>8. ASSUME y # 1 PROVE ~Z(b) /\ SameU(u, y)
  <2>1. ~Z(b)
    BY <1>0, <1>1, <1>8, FieldEq
  <2>2. ~Z(t)
    <3>1. Eq(b, t)
      BY <1>1, <1>3, EqSym
    <3> QED BY <1>1, <1>3, <2>1, <3>1, EqZ
  <2>3. Z(u * t - s)
    BY <1>3, <1>4, <1>5, <2>2, Quotient
  <2>i. s \in Int /\ t \in Int /\ u \in Int /\ y \in Int /\ a = 1 + y /\ b = 1 - y
    BY <1>0, <1>1, <1>3, <1>5
  <2>4. PICK g, h, m \in Int : g = u * t - s /\ h = s - a /\ m = t - b
    BY <1>1, <2>i
  <2>5. y * (u + 1) - (u - 1) = (-1) * g + (-1) * h + u * m /\ -1 \in Int
    BY <2>i, <2>4
  <2>6. Z((-1) * g + (-1) * h + u * m)
    BY <1>3, <1>5, <2>3, <2>4, <2>5, Combine3 DEF Eq
  <2> QED BY <2>1, <2>5, <2>6 DEF SameU
<1> QED BY <1>1, <1>5, <1>6, <1>7, <1>8

\* Back to the Montgomery form and forth again loses the sign only.
LEMMA EdwardsOfU ==
  ASSUME NEW x \in Field, NEW y \in Field, <<x, y>> \in Points, NEW u \in Field, SameU(u, y)
  PROVE  Sq(Mf(u)) /\ to_edwards(u) \in {<<x, y>>, NegPoint(<<x, y>>)}
<1>0. x \in Int /\ y \in Int /\ u \in Int
  BY FieldInt
<1>1. PICK e, d \in Int : e = x * x /\ OnEdwards(e, y) /\ d = EDWARDS_D
  BY <1>0, InPoints, Coefficients
<1>2. Sq(e)
  BY <1>0, <1>1, SqSelf
<1>3. Sq(Mf(u))
  BY <1>0, <1>1, <1>2, Birational
<1>4. PICK b, z \in Field : to_edwards(u) = <<b, z>> /\ SameU(u, z) /\ OnEdwards(b * b, z)
  BY <1>3, ToEdwards
<1>5. z = y
  BY <1>0, <1>3, <1>4, NotMinusOne, SameUniqueY
<1>6. b \in Int
  BY FieldInt
<1>7. PICK m, g, h, k \in Int : m = d * (y * y) + 1 /\ g = (b * b) * m - (y * y - 1)
                                /\ h = (x * x) * m - (y * y - 1) /\ k = b * b - x * x
  BY <1>0, <1>1, <1>6
<1>8. k * m = 1 * g + (-1) * h /\ 1 \in Int /\ -1 \in Int
  BY <1>0, <1>6, <1>7
<1>9. Z(g) /\ Z(h) /\ ~Z(m)
  BY <1>0, <1>1, <1>4, <1>5, <1>7, EdwardsDenominator DEF OnEdwards
<1>10. Z(1 * g + (-1) * h)
  BY <1>7, <1>8, <1>9, Combine2
<1>11. Z(k)
  BY <1>7, <1>8, <1>9, <1>10, ZProduct
<1>12. b = x \/ b = Neg(x)
  BY <1>7, <1>11, TwoRoots
<1>13. NegPoint(<<x, y>>) = <<Neg(x), y>>
  BY DEF NegPoint
<1> QED BY <1>3, <1>4, <1>5, <1>12, <1>13

LEMMA UOfEdwards ==
  ASSUME NEW u \in Field, Sq(Mf(u))
  PROVE  to_montgomery(to_edwards(u)) = u
<1>0. u \in Int /\ 1 \in Int
  BY FieldInt
<1>1. PICK b, y \in Field : to_edwards(u) = <<b, y>> /\ SameU(u, y)
  BY ToEdwards
<1>2. y # 1
  <2> SUFFICES ASSUME y = 1 PROVE FALSE
    OBVIOUS
  <2>1. y * (u + 1) - (u - 1) = 2
    BY <1>0
  <2> QED BY <1>1, <2>1, ZConst DEF SameU
<1>3. to_montgomery(<<b, y>>) \in Field /\ ~Z(1 - y) /\ SameU(to_montgomery(<<b, y>>), y)
  BY <1>2, ToMontgomery
<1> QED BY <1>0, <1>1, <1>3, FieldInt, SameUniqueU

-----------------------------------------------------------------------------
(* The inverse of Elligator's map: the x whose u is given are, up to sign, the
   two that mont_to_field returns. *)

Represents(u, x) == Z(2 * u * (x * x) + (u + A)) \/ Z(2 * (u + A) * (x * x) + u)

LEMMA AbsF ==
  ASSUME NEW a \in Field
  PROVE  abs(a) \in Field /\ abs(a) \in Int /\ Z(abs(a) * abs(a) - a * a)
<1>0. a \in Int
  BY FieldInt
<1>1. CASE ~is_negative(a)
  BY <1>0, <1>1, EqRefl DEF abs, Eq
<1>2. CASE is_negative(a)
  <2>1. PICK b \in Field : b = Neg(a) /\ b = abs(a) /\ b \in Int /\ Z(b + a)
    BY <1>2, NegF DEF abs
  <2>2. b * b - a * a = (b - a) * (b + a) /\ b - a \in Int /\ b + a \in Int
    BY <1>0, <2>1
  <2> QED BY <2>1, <2>2, Combine1
<1> QED BY <1>1, <1>2

Norm(u) == -(2 * u * (u + A))

LEMMA MontToField ==
  ASSUME NEW u \in Field
  PROVE  /\ mont_to_field(u) # None <=> ~Z(Norm(u)) /\ Sq(Norm(u))
         /\ mont_to_field(u) # None =>
              \E r0, r1 \in Field : /\ mont_to_field(u) = <<r0, r1>>
                                    /\ Z(2 * u * (r0 * r0) + (u + A))
                                    /\ Z(2 * (u + A) * (r1 * r1) + u)
<1>0. u \in Int /\ A \in Field /\ A \in Int /\ 2 \in Field /\ 2 \in Int /\ 1 \in Int
  BY FieldInt, Coefficients, ZConst
<1>1. PICK t1 \in Int : t1 = u + A
  BY <1>0
<1>2. PICK t \in Field : t = t1 % P /\ t \in Int /\ Eq(t, t1)
  BY <1>1, EqRefl, EqMod
<1>3. PICK m2 \in Int : m2 = Neg(2) /\ Eq(m2, -2)
  BY <1>0, EqRefl, EqNeg
<1>4. PICK b1, k1 \in Int : b1 = (-2) * u /\ k1 = b1 * t1
  BY <1>0, <1>1
<1>5. PICK b \in Int : b = Mul(m2, u) /\ Eq(b, b1)
  <2>1. PICK m1 \in Int : m1 = -2
    OBVIOUS
  <2> QED BY <1>0, <1>3, <1>4, <2>1, EqRefl, EqMul
<1>6. PICK k \in Field : k = Mul(b, t) /\ k \in Int /\ Eq(k, k1)
  BY <1>1, <1>2, <1>4, <1>5, EqMul
<1>7. k1 = Norm(u)
  BY <1>0, <1>1, <1>4 DEF Norm
<1>8. (Z(k) <=> Z(k1)) /\ (Sq(k) <=> Sq(k1))
  <2>1. Eq(k1, k)
    BY <1>4, <1>6, EqSym
  <2>2. (Z(k) <=> Z(k1))
    BY <1>4, <1>6, <2>1, EqZ
  <2> QED BY <1>4, <1>6, <2>1, <2>2, SqCong DEF Eq
<1>9. u = Neg(A) => Z(k1)
  <2> SUFFICES ASSUME u = Neg(A) PROVE Z(k1)
    OBVIOUS
  <2>1. Z(t1)
    BY <1>0, <1>1, NegF
  <2> QED BY <1>1, <1>4, <2>1, Combine1
<1>10. k = 0 <=> Z(k)
  BY <1>6, ZConst, FieldZero
<1>11. sqrt_ratio_one(k).is_sq <=> ~Z(k1) /\ Sq(k1)
  BY <1>6, <1>8, <1>10, SqrtRatio
<1>12. PICK s \in Field : s = sqrt_ratio_one(k).root /\ s \in Int
  BY <1>6, SqrtRatio, FieldInt
<1>13. mont_to_field(u) = IF u = Neg(A) \/ ~sqrt_ratio_one(k).is_sq THEN None
                          ELSE <<abs(Mul(t, s)), abs(Mul(u, s))>>
  BY <1>1, <1>2, <1>3, <1>5, <1>6, <1>12 DEF mont_to_field
<1>14. PICK q0, q1 \in Field : q0 = Mul(t, s) /\ q1 = Mul(u, s) /\ q0 \in Int /\ q1 \in Int
                               /\ Eq(q0, t1 * s) /\ Eq(q1, u * s)
  BY <1>0, <1>1, <1>2, <1>12, EqRefl, EqMul
<1>15. PICK r0, r1 \in Field : r0 = abs(q0) /\ r1 = abs(q1) /\ r0 \in Int /\ r1 \in Int
                               /\ Z(r0 * r0 - q0 * q0) /\ Z(r1 * r1 - q1 * q1)
  BY <1>14, AbsF
<1>16. mont_to_field(u) # None <=> ~Z(k1) /\ Sq(k1)
  <2>1. <<r0, r1>> # None
    BY DEF None
  <2> QED BY <1>9, <1>11, <1>13, <1>14, <1>15, <2>1
<1>17. ASSUME mont_to_field(u) # None
       PROVE  mont_to_field(u) = <<r0, r1>> /\ Z(s * s * k1 - 1)
  <2>1. ~Z(k1) /\ Sq(k1)
    BY <1>16, <1>17
  <2>2. Z(s * s * k - 1)
    BY <1>6, <1>8, <1>10, <1>11, <1>12, <2>1, SqrtRatio
  <2>3. PICK g, h, c \in Int : g = s * s * k - 1 /\ h = k - k1 /\ c = -(s * s)
    BY <1>4, <1>6, <1>12
  <2>4. s * s * k1 - 1 = 1 * g + c * h
    BY <1>4, <1>6, <1>12, <2>3
  <2>5. Z(1 * g + c * h)
    BY <1>0, <1>6, <2>2, <2>3, Combine2 DEF Eq
  <2> QED BY <1>9, <1>11, <1>13, <1>14, <1>15, <2>1, <2>4, <2>5
<1>18. ASSUME Z(s * s * k1 - 1), NEW a \in Int, NEW c \in Int, k1 = -(2 * a * c),
              NEW q \in Int, NEW z \in Int, Eq(q, c * s), Z(z * z - q * q)
       PROVE  Z(2 * a * (z * z) + c)
  <2>1. PICK f, g, h \in Int : f = z * z - q * q /\ g = q - c * s /\ h = s * s * k1 - 1
    BY <1>4, <1>12, <1>18
  <2>2. PICK l, m, o \in Int : l = 2 * a /\ m = 2 * a * (q + c * s) /\ o = -c
    BY <1>12, <1>18
  <2>3. 2 * a * (z * z) + c = l * f + m * g + o * h
    <3>1. s \in Int /\ a \in Int /\ c \in Int /\ q \in Int /\ z \in Int
      BY <1>12, <1>18
    <3>2. l * f = 2 * a * (z * z) - 2 * a * (q * q)
      BY <2>1, <2>2, <3>1
    <3>3. m * g = 2 * a * (q * q) - 2 * a * ((c * s) * (c * s))
      BY <2>1, <2>2, <3>1
    <3>4. o * h = c * (s * s) * (2 * a * c) + c
      BY <1>4, <1>18, <2>1, <2>2, <3>1
    <3>5. c * (s * s) * (2 * a * c) = 2 * a * ((c * s) * (c * s))
      BY <3>1
    <3> QED BY <2>2, <3>1, <3>2, <3>3, <3>4, <3>5
  <2>4. Z(f) /\ Z(g) /\ Z(h)
    BY <1>18, <2>1 DEF Eq
  <2>5. Z(l * f + m * g + o * h)
    BY <2>1, <2>2, <2>4, Combine3
  <2> QED BY <2>3, <2>5
<1>19. ASSUME Z(s * s * k1 - 1)
       PROVE  Z(2 * u * (r0 * r0) + t1) /\ Z(2 * t1 * (r1 * r1) + u)
  <2>1. k1 = -(2 * u * t1) /\ k1 = -(2 * t1 * u)
    BY <1>0, <1>1, <1>4
  <2>2. Z(2 * u * (r0 * r0) + t1)
    BY <1>0, <1>1, <1>14, <1>15, <1>18, <1>19, <2>1
  <2>3. Z(2 * t1 * (r1 * r1) + u)
    BY <1>0, <1>1, <1>14, <1>15, <1>18, <1>19, <2>1
  <2> QED BY <2>2, <2>3
<1> QED BY <1>1, <1>7, <1>16, <1>17, <1>19

\* v = 1 + 2x^2 determines u in either case.
LEMMA SameImage ==
  ASSUME NEW u \in Field, NEW z \in Field, NEW v \in Int, NEW b \in Int,
         ~Z(v), Z(u * v + b), Z(z * v + b)
  PROVE  u = z
<1>0. u \in Int /\ z \in Int
  BY FieldInt
<1>1. PICK g, h, k \in Int : g = u * v + b /\ h = z * v + b /\ k = u - z
  BY <1>0
<1>2. k * v = 1 * g + (-1) * h /\ 1 \in Int /\ -1 \in Int
  BY <1>0, <1>1
<1>3. Z(1 * g + (-1) * h)
  BY <1>1, <1>2, Combine2
<1>4. Z(k)
  BY <1>1, <1>2, <1>3, ZProduct
<1> QED BY <1>1, <1>4, FieldEq

\* What represents a u of the curve is mapped to it.
LEMMA InverseCorrect ==
  ASSUME NEW u \in Field, Sq(Mf(u)), ~Z(Norm(u)), NEW x \in Field, Represents(u, x)
  PROVE  field_to_mont(x) = u
<1>0. u \in Int /\ x \in Int
  BY FieldInt
<1>1. PICK a, w, v, t, c, f, dd \in Int :
         /\ a = A /\ w = 2 * (x * x) /\ v = Ev(x) /\ v = 1 + w /\ t = Et(x) /\ c = Cube(v)
         /\ f = Mf(u) /\ dd = t * c /\ ~Z(v) /\ ~Z(c) /\ ~Z(dd)
  <2>1. PICK v, t, c, w \in Int : v = Ev(x) /\ w = 2 * (x * x) /\ v = 1 + w /\ t = Et(x) /\ c = Cube(v)
    BY <1>0, EInt DEF Ev
  <2>3. ~Z(Ev(x)) /\ ~Z(Cube(Ev(x))) /\ ~Z(Et(x) * Cube(Ev(x)))
    BY <1>0, DenominatorsNotZero
  <2>4. v \in Int /\ t \in Int /\ c \in Int
    BY <2>1
  <2>2. ~Z(v) /\ ~Z(c) /\ ~Z(t * c) /\ t * c \in Int
    BY <2>1, <2>3, <2>4
  <2> QED BY <1>0, <2>1, <2>2, Coefficients, MInt
<1>i. a \in Int /\ w \in Int /\ v \in Int /\ t \in Int /\ c \in Int /\ f \in Int /\ dd \in Int
  BY <1>1
<1>2. PICK z \in Field : z = field_to_mont(x) /\ DirectCase(x, z)
  BY DirectMap
<1>3. CASE Z(2 * u * (x * x) + (u + A))
  <2>1. 2 * u * (x * x) + (u + a) = u * v + a
    BY <1>0, <1>1
  <2>2. Z(u * v + a)
    BY <1>1, <1>3, <2>1
  <2>3. Eq(c * f, t)
    BY <1>0, <1>1, <2>2, CurveRelation
  <2>4. Eq(f * (c * c), dd) /\ f * (c * c) \in Int
    BY <1>1, <2>3, SixthPower
  <2>5. Sq(f * (c * c))
    <3>1. Sq(c * c) /\ c * c \in Int
      BY <1>i, SqSelf
    <3> QED BY <1>1, <1>i, <3>1, SqMul
  <2>6. Sq(dd)
    BY <1>i, <2>4, <2>5, SqCong DEF Eq
  <2>7. Z(z * v + a)
    BY <1>1, <1>2, <2>6 DEF DirectCase
  <2> QED BY <1>1, <1>2, <2>2, <2>7, SameImage
<1>4. CASE Z(2 * (u + A) * (x * x) + u)
  <2>0. PICK b \in Int : b = a * w
    BY <1>i
  <2>1. 2 * (u + a) * (x * x) + u = u * v + b
    BY <1>0, <1>1, <2>0
  <2>2. Z(u * v + b)
    BY <1>1, <1>4, <2>1
  <2>3. Eq(c * f, w * t)
    BY <1>0, <1>1, <2>0, <2>2, CurveRelation
  <2>4. PICK g \in Int : g = w * t
    BY <1>i
  <2>5. Eq(f * (c * c), g * c) /\ f * (c * c) \in Int /\ g * c \in Int
    <3>1. Eq(c * f, g)
      BY <2>3, <2>4
    <3>2. g \in Int
      BY <2>4
    <3>3. f * (c * c) \in Int /\ g * c \in Int
      BY <1>i, <3>2
    <3> QED BY <1>i, <3>1, <3>2, <3>3, SixthPower
  <2>6. Sq(f * (c * c))
    <3>1. Sq(c * c) /\ c * c \in Int
      BY <1>i, SqSelf
    <3> QED BY <1>1, <1>i, <3>1, SqMul
  <2>7. Sq(g * c)
    BY <2>5, <2>6, SqCong DEF Eq
  <2>8. g * c = dd * w
    BY <1>1, <1>i, <2>4
  <2>9. ~Z(x)
    <3> SUFFICES ASSUME Z(x) PROVE FALSE
      OBVIOUS
    <3>1. PICK h, k, l \in Int : h = 2 * (u + a) * (x * x) + u /\ k = -(2 * (u + a) * x) /\ l = -(2 * (u + a))
      BY <1>0, <1>i
    <3>2. u = 1 * h + k * x /\ 1 \in Int
      BY <1>0, <1>i, <3>1
    <3>3. Z(1 * h + k * x)
      BY <1>0, <1>1, <1>4, <3>1, <3>2, Combine2
    <3>4. Z(u)
      BY <3>2, <3>3
    <3>5. Z(l * u)
      BY <1>0, <3>1, <3>4, Combine1
    <3>6. l * u = Norm(u)
      BY <1>0, <1>1, <3>1 DEF Norm
    <3> QED BY <3>5, <3>6
  <2>10. ~Sq(w)
    BY <1>0, <1>1, <2>9, TwiceSquare
  <2>11. ~Sq(dd)
    BY <1>1, <1>i, <2>7, <2>8, <2>10, SqNon
  <2>12. Z(z * v + b)
    BY <1>1, <1>2, <2>0, <2>11 DEF DirectCase
  <2> QED BY <1>1, <1>2, <2>0, <2>2, <2>12, SameImage
<1> QED BY <1>3, <1>4 DEF Represents

\* Numbers with the same square times a number that is not zero.
LEMMA SameSquare ==
  ASSUME NEW x \in Field, NEW z \in Field, NEW b \in Int, NEW c \in Int,
         ~Z(b), Z(b * (x * x) + c), Z(b * (z * z) + c)
  PROVE  x = z \/ x = Neg(z)
<1>0. x \in Int /\ z \in Int
  BY FieldInt
<1>1. PICK g, h, k \in Int : g = b * (x * x) + c /\ h = b * (z * z) + c /\ k = x * x - z * z
  BY <1>0
<1>2. b * k = 1 * g + (-1) * h /\ 1 \in Int /\ -1 \in Int
  BY <1>0, <1>1
<1>3. Z(1 * g + (-1) * h)
  BY <1>1, <1>2, Combine2
<1>4. Z(k)
  BY <1>1, <1>2, <1>3, ZProduct
<1> QED BY <1>1, <1>4, TwoRoots

\* Every x but zero is found again.
LEMMA InverseComplete ==
  ASSUME NEW x \in Field, x # 0, NEW u \in Field, u = field_to_mont(x)
  PROVE  \E r0, r1 \in Field : /\ mont_to_field(u) = <<r0, r1>> /\ mont_to_field(u) # None
                               /\ x \in {r0, Neg(r0), r1, Neg(r1)}
<1>0. u \in Int /\ x \in Int /\ ~Z(x) /\ ~Z(2) /\ 2 \in Int
  BY FieldInt, FieldZero, ZConst
<1>1. PICK a, w, v, t \in Int : a = A /\ w = 2 * (x * x) /\ v = Ev(x) /\ v = 1 + w /\ ~Z(a) /\ t = u + a
  BY <1>0, Coefficients, EInt DEF Ev
<1>i. a \in Int /\ w \in Int /\ v \in Int /\ t \in Int
  BY <1>1
<1>2. DirectCase(x, u)
  BY DirectMap
<1>3. PICK k \in Int : k = Norm(u) /\ k = -(2 * u * t)
  BY <1>0, <1>1 DEF Norm
<1>4. ASSUME NEW b \in Int, ~Z(b), Z(k - (2 * b * x) * (2 * b * x))
      PROVE  ~Z(k) /\ Sq(k)
  <2>1. PICK h, m, g \in Int : h = 2 * b /\ m = h * x /\ g = m * m /\ ~Z(h) /\ ~Z(m)
    BY <1>0, <1>4, NonZero
  <2>2. ~Z(g) /\ Sq(g)
    BY <2>1, NonZero, SqSelf
  <2>3. Eq(k, g)
    BY <1>4, <2>1 DEF Eq
  <2>4. Eq(g, k)
    BY <1>3, <2>1, <2>3, EqSym
  <2> QED BY <1>3, <2>1, <2>2, <2>3, <2>4, EqZ, SqCong DEF Eq
<1>5. CASE Z(u * Ev(x) + A)
  <2>1. u * v + a = 2 * u * (x * x) + t
    BY <1>0, <1>1
  <2>2. PICK g \in Int : g = 2 * u * (x * x) + t /\ Z(g)
    BY <1>0, <1>1, <1>5, <2>1
  <2>3. ~Z(u)
    <3> SUFFICES ASSUME Z(u) PROVE FALSE
      OBVIOUS
    <3>1. PICK m \in Int : m = -v
      BY <1>i
    <3>2. a = 1 * g + m * u /\ 1 \in Int
      BY <1>0, <1>i, <2>1, <2>2, <3>1
    <3>3. Z(1 * g + m * u)
      BY <1>0, <2>2, <3>1, <3>2, Combine2
    <3> QED BY <1>1, <3>2, <3>3
  <2>4. PICK m \in Int : m = -(2 * u)
    BY <1>0
  <2>5. k - (2 * u * x) * (2 * u * x) = m * g
    BY <1>0, <1>i, <1>3, <2>2, <2>4
  <2>6. ~Z(k) /\ Sq(k)
    BY <1>0, <1>4, <2>2, <2>3, <2>4, <2>5, Combine1
  <2>7. PICK r0, r1 \in Field : mont_to_field(u) = <<r0, r1>> /\ mont_to_field(u) # None
                                /\ Z(2 * u * (r0 * r0) + (u + A))
    BY <1>3, <2>6, MontToField
  <2>8. PICK b \in Int : b = 2 * u /\ ~Z(b)
    BY <1>0, <2>3, NonZero
  <2>9. x = r0 \/ x = Neg(r0)
    BY <1>1, <2>2, <2>7, <2>8, SameSquare
  <2> QED BY <2>7, <2>9
<1>6. CASE Z(u * Ev(x) + A * (2 * (x * x)))
  <2>1. u * v + a * w = 2 * t * (x * x) + u
    BY <1>0, <1>1
  <2>2. PICK g \in Int : g = 2 * t * (x * x) + u /\ Z(g)
    BY <1>0, <1>1, <1>6, <2>1
  <2>3. ~Z(t)
    <3> SUFFICES ASSUME Z(t) PROVE FALSE
      OBVIOUS
    <3>1. PICK m \in Int : m = 1 + 2 * (x * x)
      BY <1>0
    <3>2. a = (-1) * g + m * t /\ -1 \in Int
      BY <1>0, <1>1, <2>2, <3>1
    <3>3. Z((-1) * g + m * t)
      BY <1>i, <2>2, <3>1, <3>2, Combine2
    <3> QED BY <1>1, <3>2, <3>3
  <2>4. PICK m \in Int : m = -(2 * t)
    BY <1>i
  <2>5. k - (2 * t * x) * (2 * t * x) = m * g
    BY <1>0, <1>i, <1>3, <2>2, <2>4
  <2>6. ~Z(k) /\ Sq(k)
    BY <1>i, <1>4, <2>2, <2>3, <2>4, <2>5, Combine1
  <2>7. PICK r0, r1 \in Field : mont_to_field(u) = <<r0, r1>> /\ mont_to_field(u) # None
                                /\ Z(2 * (u + A) * (r1 * r1) + u)
    BY <1>3, <2>6, MontToField
  <2>8. PICK b \in Int : b = 2 * t /\ ~Z(b)
    BY <1>0, <1>i, <2>3, NonZero
  <2>9. x = r1 \/ x = Neg(r1)
    BY <1>0, <1>1, <2>2, <2>7, <2>8, SameSquare
  <2> QED BY <2>7, <2>9
<1> QED BY <1>2, <1>5, <1>6 DEF DirectCase

\* A number and its opposite represent the same u.
LEMMA RepresentsNeg ==
  ASSUME NEW u \in Field, NEW x \in Field, Represents(u, x)
  PROVE  Represents(u, Neg(x))
<1>0. u \in Int /\ x \in Int
  BY FieldInt
<1>1. PICK a, t, b \in Int : a = A /\ t = u + a /\ b = Neg(x) /\ Z(b + x)
  BY <1>0, Coefficients, NegF
<1>2. ASSUME NEW c \in Int, NEW e \in Int, Z(2 * c * (x * x) + e)
      PROVE  Z(2 * c * (b * b) + e)
  <2>1. PICK g, h, m \in Int : g = 2 * c * (x * x) + e /\ h = b + x /\ m = 2 * c * (b - x)
    BY <1>0, <1>1, <1>2
  <2>2. 2 * c * (b * b) + e = 1 * g + m * h /\ 1 \in Int
    BY <1>0, <1>1, <1>2, <2>1
  <2>3. Z(1 * g + m * h)
    BY <1>1, <1>2, <2>1, <2>2, Combine2
  <2> QED BY <2>2, <2>3
<1> QED BY <1>0, <1>1, <1>2 DEF Represents

\* What edwards_to_field gives for a point is mapped to that point, up to sign.
LEMMA PointPreimage ==
  ASSUME NEW q \in Points, NEW r0 \in Field, NEW r1 \in Field, edwards_to_field(q) # None,
         edwards_to_field(q) = <<r0, r1>>, NEW x \in {r0, Neg(r0), r1, Neg(r1)}
  PROVE  x \in Field /\ field_to_edwards(x) \in {q, NegPoint(q)}
<1>1. PICK a, y \in Field : q = <<a, y>>
  BY PointPair
<1>2. PICK u \in Field : u = to_montgomery(q) /\ (y = 1 => u = 0) /\ (y # 1 => SameU(u, y))
  BY <1>1, ToMontgomery
<1>3. mont_to_field(u) = <<r0, r1>> /\ mont_to_field(u) # None
  BY <1>2 DEF edwards_to_field
<1>4. ~Z(Norm(u)) /\ Z(2 * u * (r0 * r0) + (u + A)) /\ Z(2 * (u + A) * (r1 * r1) + u)
  <2>1. PICK s0, s1 \in Field : /\ mont_to_field(u) = <<s0, s1>>
                                /\ Z(2 * u * (s0 * s0) + (u + A))
                                /\ Z(2 * (u + A) * (s1 * s1) + u)
    BY <1>3, MontToField
  <2>2. s0 = r0 /\ s1 = r1
    BY <1>3, <2>1
  <2> QED BY <1>3, <2>1, <2>2, MontToField
<1>5. Represents(u, r0) /\ Represents(u, r1)
  BY <1>4 DEF Represents
<1>6. x \in Field /\ Represents(u, x)
  BY <1>5, NegF, RepresentsNeg
<1>7. SameU(u, y)
  <2>1. u # 0
    <3> SUFFICES ASSUME u = 0 PROVE FALSE
      OBVIOUS
    <3>1. PICK c \in Int : c = A
      BY Coefficients
    <3>2. -(2 * 0 * (0 + c)) = 0
      BY <3>1
    <3> QED BY <1>4, <3>1, <3>2, ZConst DEF Norm
  <2> QED BY <1>2, <2>1
<1>8. Sq(Mf(u)) /\ to_edwards(u) \in {q, NegPoint(q)}
  BY <1>1, <1>7, EdwardsOfU
<1>9. field_to_mont(x) = u
  BY <1>4, <1>6, <1>8, InverseCorrect
<1> QED BY <1>6, <1>8, <1>9 DEF field_to_edwards

\* The image of x, of either sign, gives x back.
LEMMA PointComplete ==
  ASSUME NEW x \in Field, x # 0, NEW q \in {field_to_edwards(x), NegPoint(field_to_edwards(x))}
  PROVE  \E r0, r1 \in Field : /\ edwards_to_field(q) # None /\ edwards_to_field(q) = <<r0, r1>>
                               /\ x \in {r0, Neg(r0), r1, Neg(r1)}
<1>1. PICK u \in Field : u = field_to_mont(x) /\ Sq(Mf(u))
  BY FieldToEdwards
<1>2. PICK s : s = to_edwards(u) /\ s = field_to_edwards(x) /\ to_montgomery(s) = u
  BY <1>1, UOfEdwards DEF field_to_edwards
<1>3. to_montgomery(NegPoint(s)) = to_montgomery(s)
  BY DEF to_montgomery, NegPoint
<1>4. to_montgomery(q) = u
  BY <1>2, <1>3
<1>5. edwards_to_field(q) = mont_to_field(u)
  BY <1>4 DEF edwards_to_field
<1> QED BY <1>1, <1>5, InverseComplete

-----------------------------------------------------------------------------
(* The encodings: the thirty-two bytes of an element, and the same with the top
   bit, are the blocks below P that are read as that element. *)

LEMMA BytesFacts ==
  /\ HalfSize \in Nat \ {0} /\ TopBit \in Nat \ {0} /\ HalfSize = 2 * TopBit
  /\ Half = 0..(HalfSize - 1) /\ P <= HalfSize * TopBit
<1>1. HalfSize \in Nat \ {0} /\ HalfSize % 2 = 0 /\ Half = 0..(HalfSize - 1) /\ P <= HalfSize * TopBit
  BY BytesAssumption
<1>2. TopBit \in Int /\ HalfSize = 2 * TopBit
  BY <1>1 DEF TopBit
<1> QED BY <1>1, <1>2

LEMMA DivMod ==
  ASSUME NEW m \in Nat \ {0}, NEW k \in Int, NEW c \in 0..(m - 1), NEW a, a = k * m + c
  PROVE  a % m = c /\ a \div m = k
<1>1. Rem(a, m) = c /\ Quot(a, m) = k
  BY RemUnique
<1> QED BY <1>1 DEF Rem, Quot

LEMMA Below ==
  ASSUME NEW m \in Nat \ {0}, NEW a \in 0..(m - 1)
  PROVE  a % m = a
<1>1. a = 0 * m + a
  OBVIOUS
<1> QED BY <1>1, DivMod

LEMMA Monotone ==
  ASSUME NEW a \in Int, NEW b \in Int, NEW h \in Nat, a <= b
  PROVE  a * h <= b * h
<1>1. PICK c \in Nat : b = a + c
  OBVIOUS
<1>2. b * h = a * h + c * h /\ c * h \in Nat /\ a * h \in Int
  BY <1>1
<1> QED BY <1>2

WithTopBit(b) == <<b[1], b[2] + TopBit>>

LEMMA Encoding ==
  ASSUME NEW a \in Field
  PROVE  /\ as_bytes(a) \in Block /\ WithTopBit(as_bytes(a)) \in Block
         /\ from_bytes(as_bytes(a)) = a /\ from_bytes(WithTopBit(as_bytes(a))) = a
<1>0. a \in Int /\ a >= 0 /\ a < P /\ P \in Nat \ {0}
  BY FieldInt, PFacts
<1>1. PICK h, t \in Nat \ {0} : h = HalfSize /\ t = TopBit /\ h = 2 * t /\ Half = 0..(h - 1)
  BY BytesFacts
<1>p. P <= h * t
  BY <1>1, BytesFacts
<1>h. h \in Nat \ {0} /\ h \in Int /\ h > 0
  BY <1>1
<1>q. a = Quot(a, h) * h + Rem(a, h) /\ Rem(a, h) \in 0..(h - 1) /\ Quot(a, h) \in Int
  BY <1>0, <1>h, QuotRem
<1>r. PICK l \in 0..(h - 1), m \in Int : l = Rem(a, h) /\ m = Quot(a, h)
  BY <1>q
<1>2. a = m * h + l /\ l = a % h /\ m = a \div h
  BY <1>q, <1>r DEF Rem, Quot
<1>s. a = m * h + l /\ l \in Int /\ l >= 0 /\ l < h /\ m \in Int
  BY <1>q, <1>r, <1>h
<1>3. m >= 0 /\ m < t
  <2>1. m >= 0
    <3> SUFFICES ASSUME m <= -1 PROVE FALSE
      BY <1>s
    <3>0. PICK z \in Int : z = -1
      OBVIOUS
    <3>i. m \in Int /\ h \in Nat /\ m <= z
      BY <1>h, <1>s, <3>0
    <3>1. m * h <= (-1) * h
      BY <3>0, <3>i, Monotone
    <3>2. PICK c \in Int : c = m * h /\ (-1) * h = -h
      BY <1>h, <1>s
    <3>3. c <= -h /\ a = c + l
      BY <1>s, <3>1, <3>2
    <3> QED BY <1>0, <1>h, <1>s, <3>2, <3>3
  <2>2. m < t
    <3> SUFFICES ASSUME m >= t PROVE FALSE
      BY <1>1, <1>s
    <3>i. m \in Int /\ t \in Int /\ h \in Nat
      BY <1>1, <1>s
    <3>1. t * h <= m * h
      BY <3>i, Monotone
    <3>2. PICK c, d \in Int : c = m * h /\ d = t * h /\ d = h * t
      BY <3>i
    <3>3. d <= c /\ P <= d /\ a = c + l
      BY <1>p, <1>s, <3>1, <3>2
    <3> QED BY <1>0, <1>s, <3>2, <3>3
  <2> QED BY <2>1, <2>2
<1>4. as_bytes(a) = <<l, m>> /\ WithTopBit(as_bytes(a)) = <<l, m + t>>
  BY <1>1, <1>2 DEF as_bytes, WithTopBit
<1>t. t \in Int /\ t > 0 /\ h = 2 * t /\ Half = 0..(h - 1)
  BY <1>1
<1>5. l \in Half /\ m \in Half /\ m + t \in Half
  <2>1. l \in Int /\ l >= 0 /\ l < h /\ m \in Int
    BY <1>s
  <2> QED BY <1>3, <1>t, <2>1
<1>6. m % t = m /\ (m + t) % t = m
  <2>1. m \in 0..(t - 1) /\ t \in Nat \ {0}
    <3>1. m \in Int
      BY <1>s
    <3> QED BY <1>3, <1>t, <3>1
  <2>2. m + t = 1 * t + m
    BY <2>1
  <2> QED BY <2>1, <2>2, Below, DivMod
<1>7. a % P = a
  BY <1>0, Below
<1>8. l + h * m = a
  BY <1>h, <1>s
<1>9. as_bytes(a) \in Block /\ WithTopBit(as_bytes(a)) \in Block
  BY <1>4, <1>5 DEF Block
<1>10. \A c : from_bytes(<<l, c>>) = (l + h * (c % t)) % P
  BY <1>1 DEF from_bytes
<1>11. from_bytes(<<l, m>>) = a /\ from_bytes(<<l, m + t>>) = a
  BY <1>6, <1>7, <1>8, <1>10
<1> QED BY <1>4, <1>9, <1>11

LEMMA Canonical ==
  ASSUME NEW b \in Block, b[1] + HalfSize * (b[2] % TopBit) < P
  PROVE  b \in {as_bytes(from_bytes(b)), WithTopBit(as_bytes(from_bytes(b)))}
<1>0. P \in Nat \ {0}
  BY PFacts
<1>1. PICK h, t \in Nat \ {0} : h = HalfSize /\ t = TopBit /\ h = 2 * t /\ Half = 0..(h - 1)
  BY BytesFacts
<1>2. PICK l \in 0..(h - 1), m \in 0..(h - 1) : b = <<l, m>>
  BY <1>1 DEF Block
<1>3. PICK k \in 0..(t - 1) : k = m % t /\ (m = k \/ m = k + t)
  <2>1. CASE m < t
    <3>1. m \in 0..(t - 1)
      BY <1>1, <1>2, <2>1
    <3> QED BY <1>1, <3>1, Below
  <2>2. CASE m >= t
    <3>1. PICK k \in 0..(t - 1) : m = k + t /\ m = 1 * t + k
      BY <1>1, <1>2, <2>2
    <3>2. t \in Nat \ {0} /\ 1 \in Int
      BY <1>1
    <3>3. m % t = k
      BY <3>1, <3>2, DivMod
    <3> QED BY <3>1, <3>3
  <2> QED BY <1>1, <1>2, <2>1, <2>2
<1>4. PICK c \in Int : c = k * h + l /\ c = l + h * k /\ c >= 0 /\ c < P
  <2>1. l + h * k < P
    BY <1>1, <1>2, <1>3
  <2>2. k * h \in Nat /\ k * h = h * k /\ l \in Nat
    BY <1>1, <1>2, <1>3
  <2> QED BY <2>1, <2>2
<1>5. from_bytes(b) = c % P
  BY <1>1, <1>2, <1>3, <1>4 DEF from_bytes
<1>6. c % P = c
  BY <1>0, <1>4, Below
<1>7. c % h = l /\ c \div h = k
  <2>1. h \in Nat \ {0} /\ l \in 0..(h - 1) /\ k \in Int
    BY <1>1, <1>2, <1>3
  <2>2. c = k * h + l
    BY <1>4
  <2> QED BY <2>1, <2>2, DivMod
<1>8. as_bytes(c) = <<l, k>> /\ WithTopBit(as_bytes(c)) = <<l, k + t>>
  BY <1>1, <1>7 DEF as_bytes, WithTopBit
<1> QED BY <1>2, <1>3, <1>5, <1>6, <1>8

(* check_bytes and check_item: an item is found if and only if its block is one
   of the encodings of an element that is tried. *)

LEMMA CheckBytes ==
  ASSUME NEW k \in Half, NEW a \in Field
  PROVE  /\ check_bytes(k, as_bytes(a)) # None =>
              \E item \in Half : /\ check_bytes(k, as_bytes(a)) = <<item>>
                                 /\ from_bytes(encrypt_block(k, <<item, 0>>)) = a
         /\ \A item \in Half : encrypt_block(k, <<item, 0>>) \in {as_bytes(a), WithTopBit(as_bytes(a))}
                               => check_bytes(k, as_bytes(a)) # None
<1>1. PICK b \in Block, t \in Block : b = as_bytes(a) /\ t = WithTopBit(b) /\ from_bytes(b) = a /\ from_bytes(t) = a
  BY Encoding
<1>2. PICK c \in Block, d \in Block : c = decrypt_block(k, b) /\ d = decrypt_block(k, t)
                                      /\ encrypt_block(k, c) = b /\ encrypt_block(k, d) = t
  BY <1>1, DecryptInverts
<1>3. check_bytes(k, b) = IF c[2] = 0 THEN <<c[1]>> ELSE IF d[2] = 0 THEN <<d[1]>> ELSE None
  BY <1>1, <1>2 DEF check_bytes, WithTopBit
<1>4. ASSUME NEW e \in Block, e[2] = 0 PROVE e[1] \in Half /\ e = <<e[1], 0>>
  BY <1>4 DEF Block
<1>5. ASSUME check_bytes(k, b) # None
      PROVE  \E item \in Half : check_bytes(k, b) = <<item>> /\ from_bytes(encrypt_block(k, <<item, 0>>)) = a
  <2>1. CASE c[2] = 0
    <3>1. c[1] \in Half /\ c = <<c[1], 0>> /\ check_bytes(k, b) = <<c[1]>>
      BY <1>2, <1>3, <1>4, <2>1
    <3>2. from_bytes(encrypt_block(k, <<c[1], 0>>)) = a
      BY <1>1, <1>2, <3>1
    <3> QED BY <3>1, <3>2
  <2>2. CASE c[2] # 0 /\ d[2] = 0
    <3>1. d[1] \in Half /\ d = <<d[1], 0>> /\ check_bytes(k, b) = <<d[1]>>
      BY <1>2, <1>3, <1>4, <2>2
    <3>2. from_bytes(encrypt_block(k, <<d[1], 0>>)) = a
      BY <1>1, <1>2, <3>1
    <3> QED BY <3>1, <3>2
  <2> QED BY <1>3, <1>5, <2>1, <2>2
<1>6. ASSUME NEW item \in Half, encrypt_block(k, <<item, 0>>) \in {b, t}
      PROVE  check_bytes(k, b) # None
  <2>1. 0 \in Half
    BY BytesFacts
  <2>2. PICK m \in Block : m = <<item, 0>> /\ m[2] = 0
    BY <1>6, <2>1 DEF Block
  <2>3. decrypt_block(k, encrypt_block(k, m)) = m
    BY <2>2, DecryptInverts
  <2>4. m = c \/ m = d
    BY <1>2, <1>6, <2>2, <2>3
  <2>5. c[2] = 0 \/ d[2] = 0
    BY <2>2, <2>4
  <2>6. <<c[1]>> # None /\ <<d[1]>> # None
    BY DEF None
  <2> QED BY <1>3, <2>5, <2>6
<1> QED BY <1>1, <1>5, <1>6

LEMMA LeastHit == ASSUME NEW S, S \subseteq 1..4, S # {} PROVE \E j \in S : \A l \in S : j <= l
<1>1. CASE 1 \in S
  BY <1>1
<1>2. CASE 1 \notin S /\ 2 \in S
  BY <1>2
<1>3. CASE 1 \notin S /\ 2 \notin S /\ 3 \in S
  BY <1>3
<1>4. CASE 1 \notin S /\ 2 \notin S /\ 3 \notin S
  <2>1. \A j \in S : j = 4
    BY <1>4
  <2>2. PICK j \in S : TRUE
    OBVIOUS
  <2>3. \A l \in S : j <= l
    BY <2>1, <2>2
  <2> QED BY <2>2, <2>3
<1> QED BY <1>1, <1>2, <1>3, <1>4

LEMMA CheckItem ==
  ASSUME NEW k \in Half, NEW r0 \in Field, NEW r1 \in Field
  PROVE  /\ check_item(k, <<r0, r1>>) # None =>
              \E x \in {r0, Neg(r0), r1, Neg(r1)}, item \in Half :
                   /\ check_item(k, <<r0, r1>>) = <<item>>
                   /\ from_bytes(encrypt_block(k, <<item, 0>>)) = x
         /\ \A x \in {r0, Neg(r0), r1, Neg(r1)}, item \in Half :
              encrypt_block(k, <<item, 0>>) \in {as_bytes(x), WithTopBit(as_bytes(x))}
              => check_item(k, <<r0, r1>>) # None
<1> DEFINE pair == <<r0, r1>>
           elems == <<pair[1], Neg(pair[1]), pair[2], Neg(pair[2])>>
           tries == [j \in 1..4 |-> check_bytes(k, as_bytes(elems[j]))]
           hits == {j \in 1..4 : tries[j] # None}
<1>6. check_item(k, pair) = IF hits = {} THEN None ELSE tries[CHOOSE j \in hits : \A l \in hits : j <= l]
  BY Zenon DEF check_item
<1>1. elems = <<r0, Neg(r0), r1, Neg(r1)>>
  OBVIOUS
<1> HIDE DEF elems
<1>4. tries = [j \in 1..4 |-> check_bytes(k, as_bytes(elems[j]))]
  OBVIOUS
<1> HIDE DEF tries
<1>5. hits = {j \in 1..4 : tries[j] # None}
  OBVIOUS
<1> HIDE DEF hits
<1>2. \A j \in 1..4 : elems[j] \in Field /\ elems[j] \in {r0, Neg(r0), r1, Neg(r1)}
  BY <1>1, NegF
<1>3. \A x \in {r0, Neg(r0), r1, Neg(r1)} : \E j \in 1..4 : elems[j] = x
  BY <1>1
<1>7. ASSUME hits # {}
      PROVE  \E j \in hits : check_item(k, <<r0, r1>>) = tries[j]
  <2>1. \E j \in hits : \A l \in hits : j <= l
    BY <1>5, <1>7, LeastHit
  <2>2. PICK m : m = CHOOSE j \in hits : \A l \in hits : j <= l
    OBVIOUS
  <2>3. m \in hits
    BY <2>1, <2>2
  <2> QED BY <1>6, <1>7, <2>2, <2>3
<1>8. ASSUME check_item(k, <<r0, r1>>) # None
      PROVE  \E x \in {r0, Neg(r0), r1, Neg(r1)}, item \in Half :
                   /\ check_item(k, <<r0, r1>>) = <<item>>
                   /\ from_bytes(encrypt_block(k, <<item, 0>>)) = x
  <2>1. PICK j \in hits : check_item(k, <<r0, r1>>) = tries[j]
    BY <1>6, <1>7, <1>8
  <2>2. PICK x \in Field : x = elems[j] /\ x \in {r0, Neg(r0), r1, Neg(r1)} /\ j \in 1..4
    BY <1>2, <1>5
  <2>3. tries[j] = check_bytes(k, as_bytes(x)) /\ tries[j] # None
    BY <1>4, <1>5, <2>2
  <2>4. PICK item \in Half : check_bytes(k, as_bytes(x)) = <<item>> /\ from_bytes(encrypt_block(k, <<item, 0>>)) = x
    BY <2>3, CheckBytes
  <2> QED BY <2>1, <2>2, <2>3, <2>4
<1>9. ASSUME NEW x \in {r0, Neg(r0), r1, Neg(r1)}, NEW item \in Half,
             encrypt_block(k, <<item, 0>>) \in {as_bytes(x), WithTopBit(as_bytes(x))}
      PROVE  check_item(k, <<r0, r1>>) # None
  <2>1. PICK j \in 1..4 : elems[j] = x
    BY <1>3
  <2>2. x \in Field
    BY <1>2, <2>1
  <2>3. check_bytes(k, as_bytes(x)) # None
    BY <1>9, <2>2, CheckBytes
  <2>4. j \in hits
    BY <1>4, <1>5, <2>1, <2>3
  <2>5. PICK l \in hits : check_item(k, <<r0, r1>>) = tries[l]
    BY <1>7, <2>4
  <2> QED BY <1>5, <2>5
<1> QED BY <1>8, <1>9

-----------------------------------------------------------------------------
(* The points: the sign commutes with the group law, and a translate of a point
   of the prime-order group has that point as its prime part. *)

LEMMA AddType ==
  ASSUME NEW q \in Field \X Field, NEW s \in Field \X Field
  PROVE  AddPoints(q, s) \in Field \X Field /\ NegPoint(q) \in Field \X Field
<1>1. PICK x, y \in Field : q = <<x, y>> /\ x \in Int /\ y \in Int
  BY FieldInt
<1>2. PICK z, w \in Field : s = <<z, w>> /\ z \in Int /\ w \in Int
  BY FieldInt
<1>3. PICK c \in Field : c = Mul(EDWARDS_D, Mul(Mul(x, z), Mul(y, w))) /\ c \in Int
  BY <1>1, <1>2, MulF, Coefficients
<1>4. x * w + y * z \in Int /\ y * w + x * z \in Int /\ 1 + c \in Int /\ 1 + P - c \in Int
  BY <1>1, <1>2, <1>3, PFacts
<1>5. PICK a, b, f, g \in Field : a = (x * w + y * z) % P /\ b = (y * w + x * z) % P
                                 /\ f = (1 + c) % P /\ g = (1 + P - c) % P
  BY <1>4, ModField
<1>6. Mul(a, Inv[f]) \in Field /\ Mul(b, Inv[g]) \in Field
  BY FieldInt, InvF, MulF
<1>7. AddPoints(q, s) = <<Mul(a, Inv[f]), Mul(b, Inv[g])>>
  BY <1>1, <1>2, <1>3, <1>5 DEF AddPoints
<1>8. NegPoint(q) = <<Neg(x), y>> /\ Neg(x) \in Field
  BY <1>1, NegF DEF NegPoint
<1> QED BY <1>1, <1>6, <1>7, <1>8

LEMMA NegAdd ==
  ASSUME NEW q \in Field \X Field, NEW s \in Field \X Field
  PROVE  NegPoint(AddPoints(q, s)) = AddPoints(NegPoint(q), NegPoint(s))
<1>1. PICK x, y \in Field : q = <<x, y>> /\ x \in Int /\ y \in Int
  BY FieldInt
<1>2. PICK z, w \in Field : s = <<z, w>> /\ z \in Int /\ w \in Int
  BY FieldInt
<1>3. PICK nx, nz \in Field : nx = Neg(x) /\ nz = Neg(z) /\ nx \in Int /\ nz \in Int
                             /\ Eq(nx, -x) /\ Eq(nz, -z)
  BY <1>1, <1>2, EqRefl, EqNeg
<1>4. PICK mx, mz \in Int : mx = -x /\ mz = -z
  BY <1>1, <1>2
<1>5. Mul(nx, nz) = Mul(x, z) /\ Mul(x, z) \in Int
  <2>1. Mul(nx, nz) \in Field /\ Mul(nx, nz) \in Int /\ Eq(Mul(nx, nz), mx * mz)
    BY <1>3, <1>4, EqMul
  <2>2. Mul(x, z) \in Field /\ Mul(x, z) \in Int /\ Eq(Mul(x, z), x * z) /\ x * z \in Int
    BY <1>1, <1>2, EqRefl, EqMul
  <2>3. mx * mz = x * z
    BY <1>1, <1>2, <1>4
  <2>4. Eq(x * z, Mul(x, z))
    BY <2>2, EqSym
  <2> QED BY <2>1, <2>2, <2>3, <2>4, EqTrans, EqField
<1>6. PICK c \in Int : c = Mul(EDWARDS_D, Mul(Mul(x, z), Mul(y, w)))
  BY <1>1, <1>2, MulF, Coefficients
<1>7. PICK f, g \in Field : f = (1 + c) % P /\ g = (1 + P - c) % P
  <2>1. 1 + c \in Int /\ 1 + P - c \in Int
    BY <1>6, PFacts
  <2> QED BY <2>1, ModField
<1>8. PICK i1, i2 \in Int : i1 = Inv[f] /\ i2 = Inv[g]
  BY <1>7, InvF
<1>9. PICK a, b, k, l \in Int : a = x * w + y * z /\ b = y * w + x * z
                             /\ k = nx * w + y * nz /\ l = y * w + nx * nz
  BY <1>1, <1>2, <1>3
<1>10. AddPoints(q, s) = <<Mul(a % P, i1), Mul(b % P, i2)>>
  BY <1>1, <1>2, <1>6, <1>7, <1>8, <1>9 DEF AddPoints
<1>11. NegPoint(q) = <<nx, y>> /\ NegPoint(s) = <<nz, w>>
  BY <1>1, <1>2, <1>3 DEF NegPoint
<1>12. AddPoints(<<nx, y>>, <<nz, w>>) = <<Mul(k % P, i1), Mul(l % P, i2)>>
  BY <1>5, <1>6, <1>7, <1>8, <1>9 DEF AddPoints
<1>13. l % P = b % P
  <2>1. Eq(nx * nz, x * z) /\ nx * nz \in Int /\ x * z \in Int
    <3>1. Eq(nx * nz, mx * mz)
      BY <1>3, <1>4, EqTimes
    <3>2. mx * mz = x * z
      BY <1>1, <1>2, <1>4
    <3>3. nx * nz \in Int /\ x * z \in Int
      BY <1>1, <1>2, <1>3
    <3> QED BY <3>1, <3>2, <3>3
  <2>2. l - b = nx * nz - x * z
    BY <1>1, <1>2, <1>3, <1>9
  <2>3. Eq(l, b)
    BY <2>1, <2>2 DEF Eq
  <2>4. PICK l1, b1 \in Field : l1 = l % P /\ b1 = b % P /\ l1 \in Int /\ b1 \in Int /\ Eq(l1, b) /\ Eq(b1, b)
    BY <1>9, <2>3, EqRefl, EqMod
  <2> QED BY <1>9, <2>4, EqSym, EqTrans, EqField
<1>14. Mul(k % P, i1) = Neg(Mul(a % P, i1))
  <2>1. PICK na \in Int : na = -a
    BY <1>9
  <2>2. Eq(k, na)
    <3>1. PICK e1, e2 \in Int : e1 = nx - mx /\ e2 = nz - mz /\ Z(e1) /\ Z(e2)
      BY <1>3, <1>4 DEF Eq
    <3>2. k - na = w * e1 + y * e2
      BY <1>1, <1>2, <1>3, <1>4, <1>9, <2>1, <3>1
    <3>3. Z(w * e1 + y * e2)
      BY <1>1, <1>2, <3>1, Combine2
    <3> QED BY <3>2, <3>3 DEF Eq
  <2>3. PICK k1, a1 \in Field : k1 = k % P /\ a1 = a % P /\ k1 \in Int /\ a1 \in Int /\ Eq(k1, na) /\ Eq(a1, a)
    BY <1>9, <2>1, <2>2, EqRefl, EqMod
  <2>4. PICK m1 \in Field : m1 = Mul(k1, i1) /\ m1 \in Int /\ Eq(m1, na * i1)
    BY <1>8, <2>1, <2>3, EqRefl, EqMul
  <2>5. PICK m2 \in Field : m2 = Mul(a1, i1) /\ m2 \in Int /\ Eq(m2, a * i1)
    BY <1>8, <1>9, <2>3, EqRefl, EqMul
  <2>6. PICK p \in Int : p = a * i1
    BY <1>8, <1>9
  <2>7. PICK m3 \in Field : m3 = Neg(m2) /\ m3 \in Int /\ Eq(m3, -p) /\ -p \in Int
    BY <2>5, <2>6, EqNeg
  <2>8. na * i1 = -p
    BY <1>8, <1>9, <2>1, <2>6
  <2>9. Eq(m1, -p) /\ Eq(-p, m3)
    BY <2>4, <2>7, <2>8, EqSym
  <2>10. m1 = m3
    BY <2>4, <2>7, <2>9, EqTrans, EqField
  <2> QED BY <2>3, <2>4, <2>5, <2>7, <2>10
<1>15. NegPoint(AddPoints(q, s)) = <<Neg(Mul(a % P, i1)), Mul(b % P, i2)>>
  BY <1>10 DEF NegPoint
<1> QED BY <1>11, <1>12, <1>13, <1>14, <1>15

LEMMA NegInPoints ==
  ASSUME NEW q \in Points
  PROVE  NegPoint(q) \in Points
<1>1. PICK x, y \in Field : q = <<x, y>> /\ OnEdwards(x * x, y)
  BY PointPair
<1>2. PICK b \in Field : b = Neg(x) /\ b \in Int /\ Z(b + x)
  BY NegF
<1>3. x \in Int /\ y \in Int
  BY FieldInt
<1>4. PICK d \in Int : d = EDWARDS_D
  BY Coefficients
<1>5. PICK m, g, h, c \in Int : m = d * (y * y) + 1 /\ g = (x * x) * m - (y * y - 1) /\ h = b + x
                                /\ c = m * (b - x)
  BY <1>2, <1>3, <1>4
<1>6. (b * b) * m - (y * y - 1) = 1 * g + c * h /\ 1 \in Int
  BY <1>2, <1>3, <1>5
<1>7. Z(1 * g + c * h)
  BY <1>1, <1>2, <1>4, <1>5, <1>6, Combine2 DEF OnEdwards
<1>8. OnEdwards(b * b, y)
  BY <1>4, <1>5, <1>6, <1>7 DEF OnEdwards
<1> QED BY <1>1, <1>2, <1>8, InPoints DEF NegPoint

LEMMA NegInPrimeOrder ==
  ASSUME NEW s \in PrimeOrder
  PROVE  NegPoint(s) \in PrimeOrder
<1>1. PICK q \in Points : s = Double(Double(Double(q)))
  BY DEF PrimeOrder
<1>2. q \in Field \X Field
  BY DEF Points
<1>3. ASSUME NEW p \in Field \X Field
      PROVE  Double(p) \in Field \X Field /\ NegPoint(Double(p)) = Double(NegPoint(p))
  BY AddType, NegAdd DEF Double
<1>4. PICK d1, d2 \in Field \X Field : d1 = Double(q) /\ d2 = Double(d1)
  BY <1>2, <1>3
<1>5. NegPoint(s) = Double(Double(Double(NegPoint(q))))
  BY <1>1, <1>2, <1>3, <1>4
<1> QED BY <1>5, NegInPoints DEF PrimeOrder

LEMMA AddIdentity ==
  ASSUME NEW q \in Points
  PROVE  AddPoints(q, <<0, 1>>) = q
<1>1. PICK x, y \in Field : q = <<x, y>> /\ x \in Int /\ y \in Int
  BY PointPair, FieldInt
<1>0. 0 \in Field /\ 1 \in Field /\ 0 \in Int /\ 1 \in Int /\ P \in Nat \ {0} /\ P > 2
  BY ZConst, PFacts
<1>2. Mul(x, 0) = 0
  <2>1. PICK m \in Field : m = Mul(x, 0) /\ m \in Int /\ Z(m - x * 0)
    BY <1>0, <1>1, MulF
  <2>2. m - x * 0 = m
    BY <1>1, <2>1
  <2> QED BY <2>1, <2>2, FieldZero
<1>3. PICK k \in Int : k = Mul(y, 1)
  BY <1>0, <1>1, MulF
<1>4. Mul(0, k) = 0
  <2>1. PICK m \in Field : m = Mul(0, k) /\ m \in Int /\ Z(m - 0 * k)
    BY <1>0, <1>3, MulF
  <2>2. m - 0 * k = m
    BY <1>3, <2>1
  <2> QED BY <2>1, <2>2, FieldZero
<1>5. Mul(EDWARDS_D, 0) = 0
  <2>0. PICK d \in Int : d = EDWARDS_D
    BY Coefficients
  <2>1. PICK m \in Field : m = Mul(d, 0) /\ m \in Int /\ Z(m - d * 0)
    BY <1>0, <2>0, MulF
  <2>2. m - d * 0 = m
    BY <2>0, <2>1
  <2> QED BY <2>0, <2>1, <2>2, FieldZero
<1>6. (1 + 0) % P = 1 /\ (1 + P - 0) % P = 1
  <2>1. 1 \in 0..(P - 1) /\ 1 + 0 = 1 /\ 1 + P - 0 = 1 * P + 1
    BY <1>0
  <2> QED BY <1>0, <2>1, Below, DivMod
<1>7. PICK e \in Field : e = Inv[1] /\ e \in Int /\ e = 1
  <2>1. PICK e \in Field : e = Inv[1] /\ e \in Int /\ Z(1 * e - 1)
    BY <1>0, InvF, ZConst
  <2>2. 1 * e - 1 = e - 1
    BY <2>1
  <2> QED BY <1>0, <2>1, <2>2, FieldEq
<1>8. ASSUME NEW a \in Field, NEW b \in Int
      PROVE  Mul((a * 1 + b * 0) % P, 1) = a
  <2>1. a \in Int
    BY FieldInt
  <2>2. a * 1 + b * 0 = a
    BY <1>8, <2>1
  <2>3. a % P = a
    BY <1>0, Below DEF Field
  <2>4. PICK m \in Field : m = Mul(a, 1) /\ m \in Int /\ Z(m - a * 1)
    BY <1>0, <2>1, MulF
  <2>5. m - a * 1 = m - a
    BY <2>1, <2>4
  <2>6. m = a
    BY <2>4, <2>5, FieldEq
  <2> QED BY <2>2, <2>3, <2>4, <2>6
<1>9. AddPoints(<<x, y>>, <<0, 1>>) = <<Mul((x * 1 + y * 0) % P, 1), Mul((y * 1 + x * 0) % P, 1)>>
  BY <1>2, <1>3, <1>4, <1>5, <1>6, <1>7 DEF AddPoints
<1> QED BY <1>1, <1>8, <1>9

\* The translates of a point are points, it is one of them, and each has the same.
LEMMA TranslatesOf ==
  ASSUME NEW q \in Points
  PROVE  /\ q \in Translates(q)
         /\ \A t \in Translates(q) : t \in Points /\ Translates(t) = Translates(q) /\ q \in Translates(t)
<1>1. EIGHT_TORSION[0] = <<0, 1>> /\ 0 \in 0..7
  BY TorsionAssumption
<1>2. AddPoints(q, EIGHT_TORSION[0]) = q
  BY <1>1, AddIdentity
<1>3. q \in Translates(q)
  BY <1>1, <1>2 DEF Translates
<1> QED BY <1>3, TorsionAssumption

LEMMA PrimePartOf ==
  ASSUME NEW q \in Points
  PROVE  /\ PrimePart(q) \in PrimeOrder /\ PrimePart(q) \in Translates(q) /\ PrimePart(q) \in Points
         /\ \A s \in PrimeOrder : s \in Translates(q) => s = PrimePart(q)
<1>1. PICK s \in PrimeOrder : PrimeOrder \cap Translates(q) = {s}
  BY TorsionAssumption
<1>2. \A t : t \in PrimeOrder /\ t \in Translates(q) <=> t = s
  BY <1>1
<1>3. PrimePart(q) \in PrimeOrder /\ PrimePart(q) \in Translates(q)
  BY <1>2 DEF PrimePart
<1> QED BY <1>2, <1>3, TranslatesOf

\* What is found at a translate of s, with either sign, is found for s or -s.
LEMMA PrimePartOfTranslate ==
  ASSUME NEW s \in PrimeOrder, s \in Points, NEW q \in Translates(s)
  PROVE  q \in Points /\ PrimePart(q) = s /\ PrimePart(NegPoint(q)) = NegPoint(s)
<1>1. q \in Points /\ s \in Translates(q)
  BY TranslatesOf
<1>2. PrimePart(q) = s
  BY <1>1, PrimePartOf
<1>3. PICK j \in 0..7 : q = AddPoints(s, EIGHT_TORSION[j])
  BY DEF Translates
<1>4. PICK k \in 0..7 : NegPoint(EIGHT_TORSION[j]) = EIGHT_TORSION[k]
  BY TorsionAssumption
<1>5. EIGHT_TORSION[j] \in Field \X Field /\ s \in Field \X Field
  BY TorsionAssumption DEF Points
<1>6. NegPoint(q) = AddPoints(NegPoint(s), EIGHT_TORSION[k])
  BY <1>3, <1>4, <1>5, NegAdd
<1>7. NegPoint(q) \in Translates(NegPoint(s))
  BY <1>6 DEF Translates
<1>8. NegPoint(s) \in Points /\ NegPoint(s) \in PrimeOrder
  BY NegInPoints, NegInPrimeOrder
<1>9. NegPoint(q) \in Points /\ NegPoint(s) \in Translates(NegPoint(q))
  BY <1>7, <1>8, TranslatesOf
<1>10. PrimePart(NegPoint(q)) = NegPoint(s)
  BY <1>8, <1>9, PrimePartOf
<1> QED BY <1>1, <1>2, <1>10

-----------------------------------------------------------------------------
(* hash_to_point and recover_from_point.  The inductive invariant: the input of
   an item is the item padded with a zero half, point is what its block gives,
   the translates tried gave nothing, and the result is what one of them gave. *)

Element == from_bytes(encrypt_block(key, input))

MapInv ==
  /\ key \in Half
  /\ at \in {"item", "digest", "masked", "hashed", "scan", "done"}
  /\ at = "digest" => input \in Block
  /\ at \in {"item", "masked", "scan", "done"} => \E item \in Half : input = <<item, 0>>
  /\ at \in {"item", "masked"} => tried = 0
  /\ at = "masked" => point = field_to_edwards(Element)
  /\ at \in {"scan", "done"} => point = PrimePart(field_to_edwards(Element))
  /\ at = "scan" => tried \in 0..8 /\ \A j \in 0..7 : j < tried => Attempt(j) = None
  /\ at = "done" => \/ \E j \in 0..7 : Attempt(j) # None /\ result = <<TRUE, Attempt(j)[1]>>
                    \/ result = <<FALSE, 0>> /\ \A j \in 0..7 : Attempt(j) = None

LEMMA FromBytesF ==
  ASSUME NEW b \in Block
  PROVE  from_bytes(b) \in Field
<1>1. PICK h, t \in Nat \ {0} : h = HalfSize /\ t = TopBit /\ Half = 0..(h - 1)
  BY BytesFacts
<1>2. PICK l \in 0..(h - 1), m \in 0..(h - 1) : b = <<l, m>>
  BY <1>1 DEF Block
<1>3. PICK k \in Int : k = m % t
  <2>1. m \in Int /\ t \in Nat \ {0}
    BY <1>1, <1>2
  <2>2. Rem(m, t) \in 0..(t - 1)
    BY <2>1, QuotRem
  <2> QED BY <2>1, <2>2 DEF Rem
<1>4. PICK c \in Int : c = l + h * k
  BY <1>1, <1>2, <1>3
<1> QED BY <1>1, <1>2, <1>3, <1>4, ModField DEF from_bytes

LEMMA ItemBlock == ASSUME NEW item \in Half PROVE <<item, 0>> \in Block
BY BytesFacts DEF Block

LEMMA EveryBlockIsMapped ==
  ASSUME NEW b \in Block
  PROVE  field_to_edwards(from_bytes(b)) \in Points /\ field_to_edwards(from_bytes(b)) # None
<1>1. field_to_edwards(from_bytes(b)) \in Points
  BY FromBytesF, FieldToEdwards
<1> QED BY <1>1, PointPair DEF None

LEMMA MapInvInit == MapInit => MapInv
<1> SUFFICES ASSUME MapInit PROVE MapInv
  OBVIOUS
<1>1. Keys \subseteq Half /\ Keys # {}
  BY BytesAssumption
<1>2. (CHOOSE k \in Keys : TRUE) \in Keys
  BY <1>1
<1> QED BY <1>1, <1>2 DEF MapInit, MapInv

LEMMA MapInvNext == MapInv /\ [MapNext]_mapVars => MapInv'
<1> SUFFICES ASSUME MapInv, [MapNext]_mapVars PROVE MapInv'
  OBVIOUS
<1>k. key \in Half
  BY DEF MapInv
<1>1. ASSUME HashToPoint PROVE MapInv'
  <2>1. PICK item \in Half : input = <<item, 0>>
    BY <1>1 DEF HashToPoint, MapInv
  <2>2. PICK b \in Block : b = encrypt_block(key, input)
    BY <1>k, <2>1, ItemBlock, DecryptInverts
  <2>3. key' = key /\ input' = input /\ Element = from_bytes(b) /\ Element' = from_bytes(b)
    BY <1>1, <2>2 DEF HashToPoint, Element
  <2>4. point' = field_to_edwards(from_bytes(b))
    BY <1>1, <2>2 DEF HashToPoint
  <2>5. at' = "masked"
    BY <1>1, <2>4, EveryBlockIsMapped DEF HashToPoint
  <2>6. tried' = 0
    BY <1>1 DEF HashToPoint, MapInv
  <2> QED BY <1>k, <2>1, <2>3, <2>4, <2>5, <2>6 DEF MapInv
<1>2. ASSUME HashToCurve PROVE MapInv'
  <2>1. input \in Block
    BY <1>2 DEF HashToCurve, MapInv
  <2>2. point' = field_to_edwards(from_bytes(input))
    BY <1>2 DEF HashToCurve, field_to_edwards
  <2>3. at' = "hashed" /\ key' = key
    BY <1>2, <2>1, <2>2, EveryBlockIsMapped DEF HashToCurve
  <2> QED BY <1>k, <2>3 DEF MapInv
<1>3. ASSUME Unmask PROVE MapInv'
  <2>1. at' = "scan" /\ key' = key /\ input' = input /\ tried' = tried
        /\ point = field_to_edwards(Element) /\ point' = PrimePart(point)
    BY <1>3 DEF Unmask, MapInv
  <2>2. Element' = Element
    BY <2>1 DEF Element
  <2>3. \E item \in Half : input = <<item, 0>>
    BY <1>3 DEF Unmask, MapInv
  <2>4. tried = 0
    BY <1>3 DEF Unmask, MapInv
  <2> QED BY <1>k, <2>1, <2>2, <2>3, <2>4 DEF MapInv
<1>4. ASSUME TryTranslate PROVE MapInv'
  <2>1. key' = key /\ input' = input /\ point' = point /\ at = "scan" /\ tried \in 0..7
    BY <1>4 DEF TryTranslate, MapInv
  <2>2. Element' = Element /\ \A j : Attempt(j)' = Attempt(j)
    BY <2>1 DEF Element, Attempt
  <2>3. /\ \E item \in Half : input = <<item, 0>>
        /\ point = PrimePart(field_to_edwards(Element))
        /\ \A j \in 0..7 : j < tried => Attempt(j) = None
    BY <2>1 DEF MapInv
  <2>4. CASE Attempt(tried) = None
    <3>1. at' = "scan" /\ tried' = tried + 1
      BY <1>4, <2>1, <2>4 DEF TryTranslate
    <3>2. tried' \in 0..8 /\ \A j \in 0..7 : j < tried' => Attempt(j) = None
      <4>1. \A j \in 0..7 : j < tried + 1 => j < tried \/ j = tried
        BY <2>1
      <4> QED BY <2>1, <2>3, <2>4, <3>1, <4>1
    <3> QED BY <1>k, <2>1, <2>2, <2>3, <3>1, <3>2 DEF MapInv
  <2>5. CASE Attempt(tried) # None
    <3>1. at' = "done" /\ result' = <<TRUE, Attempt(tried)[1]>>
      BY <1>4, <2>5 DEF TryTranslate
    <3> QED BY <1>k, <2>1, <2>2, <2>3, <2>5, <3>1 DEF MapInv
  <2> QED BY <2>4, <2>5
<1>5. ASSUME ReturnZero PROVE MapInv'
  <2>1. key' = key /\ input' = input /\ point' = point /\ at = "scan" /\ tried = 8
        /\ at' = "done" /\ result' = <<FALSE, 0>>
    BY <1>5 DEF ReturnZero
  <2>2. Element' = Element /\ \A j : Attempt(j)' = Attempt(j)
    BY <2>1 DEF Element, Attempt
  <2>3. /\ \E item \in Half : input = <<item, 0>>
        /\ point = PrimePart(field_to_edwards(Element))
        /\ \A j \in 0..7 : Attempt(j) = None
    BY <2>1 DEF MapInv
  <2> QED BY <1>k, <2>1, <2>2, <2>3 DEF MapInv
<1>6. ASSUME UNCHANGED mapVars PROVE MapInv'
  <2>1. key' = key /\ input' = input /\ point' = point /\ at' = at /\ tried' = tried /\ result' = result
    BY <1>6 DEF mapVars
  <2>2. Element' = Element /\ \A j : Attempt(j)' = Attempt(j)
    BY <2>1 DEF Element, Attempt
  <2> QED BY <2>1, <2>2 DEF MapInv
<1> QED BY <1>1, <1>2, <1>3, <1>4, <1>5, <1>6 DEF MapNext

LEMMA MapInvHolds == MapSpec => []MapInv
<1>1. MapInit => MapInv
  BY MapInvInit
<1>2. MapInv /\ [MapNext]_mapVars => MapInv'
  BY MapInvNext
<1> QED BY <1>1, <1>2, PTL DEF MapSpec

\* UnwrapsSucceed: hash_to_point and hash_to_curve never panic, whatever the
\* key, the item or the digest: Elligator's u is on the curve and is not -1.
THEOREM UnwrapsNeverFail == MapSpec => []UnwrapsSucceed
<1>1. MapInv => UnwrapsSucceed
  BY DEF MapInv, UnwrapsSucceed
<1> QED BY <1>1, MapInvHolds, PTL

\* The point that is scanned is of prime order, and the image of the item is one
\* of its translates.
LEMMA ScannedPoint ==
  ASSUME MapInv, at \in {"scan", "done"}
  PROVE  \E item \in Half, e \in Block, x \in Field :
           /\ input = <<item, 0>> /\ e = encrypt_block(key, input) /\ x = from_bytes(e)
           /\ point \in PrimeOrder /\ point \in Points
           /\ \E j \in 0..7 : field_to_edwards(x) = AddPoints(point, EIGHT_TORSION[j])
<1>1. PICK item \in Half : input = <<item, 0>>
  BY DEF MapInv
<1>2. PICK e \in Block : e = encrypt_block(key, input)
  BY <1>1, ItemBlock, DecryptInverts DEF MapInv
<1>3. PICK x \in Field : x = from_bytes(e)
  BY FromBytesF
<1>4. PICK w \in Points : w = field_to_edwards(x) /\ point = PrimePart(w)
  BY <1>2, <1>3, FieldToEdwards DEF MapInv, Element
<1>5. point \in PrimeOrder /\ point \in Points /\ point \in Translates(w)
  BY <1>4, PrimePartOf
<1>6. w \in Translates(point)
  BY <1>5, TranslatesOf
<1>7. \E j \in 0..7 : w = AddPoints(point, EIGHT_TORSION[j])
  BY <1>6 DEF Translates
<1> QED BY <1>1, <1>2, <1>3, <1>4, <1>5, <1>7

\* A translate that gives something gives an item that has the point, or its
\* opposite, for an image.
LEMMA HitIsPreimage ==
  ASSUME MapInv, at = "done", NEW j \in 0..7, Attempt(j) # None
  PROVE  \E item \in Half : Attempt(j) = <<item>> /\ Image(item) \in {point, NegPoint(point)}
<1>1. point \in PrimeOrder /\ point \in Points /\ key \in Half
  BY ScannedPoint DEF MapInv
<1>2. PICK q \in Translates(point) : q = AddPoints(point, EIGHT_TORSION[j])
  BY DEF Translates
<1>3. q \in Points /\ PrimePart(q) = point /\ PrimePart(NegPoint(q)) = NegPoint(point)
  BY <1>1, PrimePartOfTranslate
<1>4. edwards_to_field(q) # None /\ Attempt(j) = check_item(key, edwards_to_field(q))
  BY <1>2 DEF Attempt
<1>5. PICK r0, r1 \in Field : edwards_to_field(q) = <<r0, r1>>
  <2>1. PICK a, y \in Field : q = <<a, y>>
    BY <1>3, PointPair
  <2>2. to_montgomery(q) \in Field
    BY <2>1, ToMontgomery
  <2> QED BY <1>4, <2>2, MontToField DEF edwards_to_field
<1>a. check_item(key, <<r0, r1>>) # None
  BY <1>4, <1>5
<1>b. \E x \in {r0, Neg(r0), r1, Neg(r1)}, item \in Half :
         /\ check_item(key, <<r0, r1>>) = <<item>>
         /\ from_bytes(encrypt_block(key, <<item, 0>>)) = x
  BY <1>1, <1>5, <1>a, CheckItem
<1>6. PICK x \in {r0, Neg(r0), r1, Neg(r1)}, item \in Half :
         /\ check_item(key, <<r0, r1>>) = <<item>>
         /\ from_bytes(encrypt_block(key, <<item, 0>>)) = x
  BY <1>b
<1>7. field_to_edwards(x) \in {q, NegPoint(q)}
  BY <1>3, <1>4, <1>5, PointPreimage
<1>8. Image(item) = PrimePart(field_to_edwards(x))
  BY <1>6 DEF Image
<1> QED BY <1>3, <1>4, <1>5, <1>6, <1>7, <1>8

LEMMA PairFirst == \A a, b : <<a, b>>[1] = a
OBVIOUS

\* FoundIsPreimage: for every curve, key, permutation and item, what
\* recover_from_point returns as found is hashed to the point it was given, or
\* to its opposite.
THEOREM FoundWasHashed == MapSpec => []FoundIsPreimage
<1>1. ASSUME MapInv PROVE FoundIsPreimage
  <2> SUFFICES ASSUME at = "done", result[1] PROVE Image(result[2]) \in {point, NegPoint(point)}
    BY DEF FoundIsPreimage
  <2>0. ASSUME result = <<FALSE, 0>> PROVE FALSE
    <3>1. <<FALSE, 0>>[1] = FALSE
      BY PairFirst, Zenon
    <3>2. result[1] = FALSE
      BY <2>0, <3>1, Zenon
    <3> QED BY <3>2, Zenon
  <2>1. PICK j \in 0..7 : Attempt(j) # None /\ result = <<TRUE, Attempt(j)[1]>>
    BY <1>1, <2>0 DEF MapInv
  <2>2. PICK item \in Half : Attempt(j) = <<item>> /\ Image(item) \in {point, NegPoint(point)}
    BY <1>1, <2>1, HitIsPreimage
  <2>3. result[2] = item
    BY <2>1, <2>2
  <2> QED BY <2>2, <2>3
<1>2. MapInv => FoundIsPreimage
  BY <1>1
<1> QED BY <1>2, MapInvHolds, PTL

\* ZeroOnlyIfExceptional: recover_from_point fails for an item only if its block
\* is not below P or is read as zero; every other item is in one of the eight
\* translates, under one of the four elements and one of the two encodings.
THEOREM OrdinaryNeverLost == MapSpec => []ZeroOnlyIfExceptional
<1>1. ASSUME MapInv PROVE ZeroOnlyIfExceptional
  <2> SUFFICES ASSUME at = "done", ~result[1], ~Exceptional(input) PROVE FALSE
    BY DEF ZeroOnlyIfExceptional
  <2>0. ASSUME NEW y, result = <<TRUE, y>> PROVE FALSE
    <3>1. <<TRUE, y>>[1] = TRUE
      BY PairFirst, Zenon
    <3>2. result[1] = TRUE
      BY <2>0, <3>1, Zenon
    <3> QED BY <3>2, Zenon
  <2>1. \A j \in 0..7 : Attempt(j) = None
    BY <1>1, <2>0 DEF MapInv
  <2>2. PICK item \in Half, e \in Block, x \in Field :
           /\ input = <<item, 0>> /\ e = encrypt_block(key, input) /\ x = from_bytes(e)
           /\ \E j \in 0..7 : field_to_edwards(x) = AddPoints(point, EIGHT_TORSION[j])
    BY <1>1, ScannedPoint
  <2>3. PICK j \in 0..7 : field_to_edwards(x) = AddPoints(point, EIGHT_TORSION[j])
    BY <2>2
  <2>4. x # 0 /\ ~(e[1] + HalfSize * (e[2] % TopBit) >= P)
    BY <2>2 DEF Exceptional
  <2>5. e[1] + HalfSize * (e[2] % TopBit) < P
    <3>1. PICK h, t \in Nat \ {0} : h = HalfSize /\ t = TopBit /\ Half = 0..(h - 1)
      BY BytesFacts
    <3>2. PICK l, m \in 0..(h - 1) : e[1] = l /\ e[2] = m
      BY <2>2, <3>1 DEF Block
    <3>3. PICK k \in Int : k = m % t
      <4>1. m \in Int /\ t \in Nat \ {0}
        BY <3>1, <3>2
      <4>2. Rem(m, t) \in 0..(t - 1)
        BY <4>1, QuotRem
      <4> QED BY <4>1, <4>2 DEF Rem
    <3>4. PICK c \in Int : c = l + h * k
      <4>1. l \in Int /\ h \in Int /\ k \in Int
        BY <3>1, <3>2, <3>3
      <4> QED BY <4>1
    <3> QED BY <2>4, <3>1, <3>2, <3>3, <3>4, PFacts
  <2>6. e \in {as_bytes(x), WithTopBit(as_bytes(x))}
    BY <2>2, <2>5, Canonical
  <2>7. PICK q : q = field_to_edwards(x)
    OBVIOUS
  <2>8. PICK r0, r1 \in Field : /\ edwards_to_field(q) # None /\ edwards_to_field(q) = <<r0, r1>>
                                /\ x \in {r0, Neg(r0), r1, Neg(r1)}
    BY <2>4, <2>7, PointComplete
  <2>9. check_item(key, <<r0, r1>>) # None
    BY <1>1, <2>2, <2>6, <2>8, CheckItem DEF MapInv
  <2>10. Attempt(j) # None
    BY <2>3, <2>7, <2>8, <2>9 DEF Attempt
  <2> QED BY <2>1, <2>10
<1>2. MapInv => ZeroOnlyIfExceptional
  BY <1>1
<1> QED BY <1>2, MapInvHolds, PTL

=============================================================================
