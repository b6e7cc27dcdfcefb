-------------------------------- MODULE Tests --------------------------------
(***************************************************************************)
(* The tests of aok.rs and twosided.rs that need the public parameters, as   *)
(* the threads of one process that the harness makes of them.  Each parses   *)
(* the size in the environment (or takes its own), calls setup_params,       *)
(* fetches the parameters again with pub_params and makes the hints of its   *)
(* proofs with them; the cell is a OnceLock, and a panic ends the thread of  *)
(* the test that panics only.  malicious_psu2_test also draws its two sets    *)
(* with generate_input before, and has correctness_check judge what the      *)
(* protocol returns after.  A percentage is a number of quarters.            *)
(***************************************************************************)
EXTENDS Integers, SequencesExt

CONSTANTS Test,        \* the tests that use the parameters
          Psu,         \* malicious_psu2_test, one of them
          Default,     \* the size each takes when N is not set
          Bits,        \* 32
          Text,        \* the values N may have
          Unset,       \* no value: of the cell, or of N
          Blocks,      \* the blocks of sixteen bytes
          Percentages, \* the first arguments of generate_input
          MaxAnswer    \* bounds the blocks the protocol returns

(* A value of N: its form, the number behind the form's prefix, and whether
   blanks precede it.  "other" is what is no number in any form. *)
TextType == [form : {"pow", "hex", "dec", "other"}, num : Nat, blank : BOOLEAN]

ASSUME TestsAssumption ==
  /\ Psu \in Test /\ Unset \notin Test
  /\ Bits \in Nat \ {0}
  /\ Default \in [Test -> 1..(2^Bits - 1)]
  /\ Text \subseteq TextType /\ Unset \notin TextType
  /\ Percentages \subseteq 0..4 /\ MaxAnswer \in Nat

VARIABLES env,     \* the value of N
          PP,      \* the cell: the test whose parameters it holds
          pc,      \* where each test is
          n,       \* the size it works with
          pp,      \* whose parameters it got from the cell
          inputs,  \* the sets v and w of malicious_psu2_test
          answer   \* its recovered blocks, the next of them, and the verdict

vars == <<env, PP, pc, n, pp, inputs, answer>>

-----------------------------------------------------------------------------
(* The number a value of N stands for. *)
Meaning(s) == IF s.form = "pow" THEN 2^s.num ELSE s.num

Err == -1

(* parse_power_or_letter.  The prefix 2^ is looked for before blanks are
   trimmed, so blanks before it make the text no number; an exponent of 32 or
   more and a number of more than 32 bits are errors. *)
\* Mutant: the shift is not checked, and takes the exponent modulo its width.
parse_power_or_letter_mutant(s) ==
  IF s.form = "pow" /\ ~s.blank THEN 2^(s.num % Bits)
  ELSE IF s.form \in {"hex", "dec"} /\ s.num < 2^Bits THEN s.num ELSE Err
parse_power_or_letter(s) ==
  IF s.form = "pow" /\ ~s.blank THEN IF s.num < Bits THEN 2^s.num ELSE Err
  ELSE IF s.form \in {"hex", "dec"} /\ s.num < 2^Bits THEN s.num ELSE Err

Goto(t, l) == pc' = [pc EXCEPT ![t] = l]
Panic(t) == Goto(t, "panic")

(* The test's first lines: the size, or a panic on one that is no number. *)
Size(t) == IF env = Unset THEN Default[t] ELSE parse_power_or_letter(env)
Parse(t) ==
  /\ pc[t] = "parse"
  /\ IF Size(t) = Err THEN Panic(t) /\ UNCHANGED n
     ELSE Goto(t, IF t = Psu THEN "inputs" ELSE "setup") /\ n' = [n EXCEPT ![t] = Size(t)]
  /\ UNCHANGED <<env, PP, pp, inputs, answer>>

(* (intersection_percentage * n).round().min(n), halves rounded up *)
common_count(percentage, k) == Min({(2 * percentage * k + 4) \div 8, k})

(* What k random blocks are as a set: any of them may be one drawn before. *)
gen_blocks(k) == {B \in SUBSET Blocks : Cardinality(B) <= k /\ (k > 0 => B # {})}

(* generate_input: the blocks both get, and as many more as are missing.  Their
   order is lost in the sets of correctness_check. *)
generate_input ==
  /\ pc[Psu] = "inputs"
  /\ \E percentage \in Percentages :
       LET c == common_count(percentage, n[Psu])
       IN  \E common \in gen_blocks(c), unique_v, unique_w \in gen_blocks(n[Psu] - c) :
             inputs' = [v |-> common \cup unique_v, w |-> common \cup unique_w]
  /\ Goto(Psu, "setup")
  /\ UNCHANGED <<env, PP, n, pp, answer>>

(* setup_params: n random points, and then the cell, which is set once. *)
Generate(t) ==
  /\ pc[t] = "setup"
  /\ Goto(t, "set")
  /\ UNCHANGED <<env, PP, n, pp, inputs, answer>>

\* Mutant: that the cell was set before is not looked at.
Set_mutant(t) ==
  /\ pc[t] = "set"
  /\ PP' = IF PP = Unset THEN t ELSE PP
  /\ Goto(t, "get")
  /\ UNCHANGED <<env, n, pp, inputs, answer>>
\* Mutant: the expectation is the wrong way round.
Set_swapped(t) ==
  /\ pc[t] = "set"
  /\ PP' = IF PP = Unset THEN t ELSE PP
  /\ IF PP # Unset THEN Goto(t, "get") ELSE Panic(t)
  /\ UNCHANGED <<env, n, pp, inputs, answer>>
Set(t) ==
  /\ pc[t] = "set"
  /\ PP' = IF PP = Unset THEN t ELSE PP
  /\ IF PP = Unset THEN Goto(t, "get") ELSE Panic(t)
  /\ UNCHANGED <<env, n, pp, inputs, answer>>

(* pub_params *)
Get(t) ==
  /\ pc[t] = "get"
  /\ IF PP = Unset THEN Panic(t) /\ UNCHANGED pp
     ELSE Goto(t, "commit") /\ pp' = [pp EXCEPT ![t] = PP]
  /\ UNCHANGED <<env, PP, n, inputs, answer>>

(* The hints of the test's proofs, in Party::new for malicious_psu2_test: commit
   takes as many scalars as points, and delta[0] needs an entry (aok.rs:154). *)
Commit(t) ==
  /\ pc[t] = "commit"
  /\ IF n[t] = n[pp[t]] /\ n[t] > 0 THEN Goto(t, IF t = Psu THEN "run" ELSE "ready") ELSE Panic(t)
  /\ UNCHANGED <<env, PP, n, pp, inputs, answer>>

(* malicious_psu2: any blocks at all, or none, which is unwrapped. *)
Recover ==
  /\ pc[Psu] = "run"
  /\ \/ /\ \E bs \in SeqOf(Blocks, MaxAnswer) : answer' = [answer EXCEPT !.recovered = bs]
        /\ Goto(Psu, "check")
     \/ Goto(Psu, "failed") /\ UNCHANGED answer
  /\ UNCHANGED <<env, PP, n, pp, inputs>>

(* correctness_check: chunk by chunk, up to the first that is not in the set of w
   or is in the set of v; and the assertion on what it returns. *)
\* Mutant: the second test is left out.
Bad_mutant(block) == block \notin inputs.w
Bad(block) == block \notin inputs.w \/ block \in inputs.v

Check ==
  /\ pc[Psu] = "check"
  /\ IF answer.i > Len(answer.recovered)
     THEN answer' = [answer EXCEPT !.verdict = "accept"] /\ Goto(Psu, "passed")
     ELSE IF Bad(answer.recovered[answer.i])
     THEN answer' = [answer EXCEPT !.verdict = "refuse"] /\ Goto(Psu, "failed")
     ELSE answer' = [answer EXCEPT !.i = @ + 1] /\ UNCHANGED pc
  /\ UNCHANGED <<env, PP, n, pp, inputs>>

Init ==
  /\ env \in Text \cup {Unset}
  /\ PP = Unset
  /\ pc = [t \in Test |-> "parse"]
  /\ n = [t \in Test |-> 0]
  /\ pp = [t \in Test |-> Unset]
  /\ inputs = [v |-> {}, w |-> {}]
  /\ answer = [recovered |-> <<>>, i |-> 1, verdict |-> "none"]

Step(t) == \/ Parse(t) \/ Generate(t) \/ Set(t) \/ Get(t) \/ Commit(t)
           \/ t = Psu /\ (generate_input \/ Recover \/ Check)

(* How far a test that has got its hints can be, and where a test ends. *)
Past(t) == pc[t] \in {"ready", "run", "check", "passed", "failed"}
Ended(t) == pc[t] \in {"panic", "ready", "passed", "failed"}
Finished == (\A t \in Test : Ended(t)) /\ UNCHANGED vars

Next == Finished \/ \E t \in Test : Step(t)

\* The harness runs every test to its end.
Spec == Init /\ [][Next]_vars /\ \A t \in Test : WF_vars(Step(t))

-----------------------------------------------------------------------------
\* A test that gets parameters gets the ones it made, of its own size, whatever
\* the other threads do between its setup_params and its pub_params.
OwnParams == \A t \in Test : pc[t] = "commit" \/ Past(t) => pp[t] = t /\ n[t] = Size(t)

\* A size taken from the environment is the number its text stands for: no
\* exponent and no number is cut to 32 bits (aok.rs:41).
SizeIsMeant ==
  \A t \in Test :
    pc[t] \notin {"parse", "panic"} /\ env # Unset => n[t] = Meaning(env) /\ env.form # "other"

\* With a size that parses and is not zero, exactly one of the tests gets as far
\* as its proofs, whichever was the first to set the cell; the others panic, and
\* so does every one with another size.
OneSurvivor ==
  IF \A t \in Test : Size(t) > 0
  THEN <>(\E t \in Test : \A u \in Test : IF u = t THEN Ended(u) /\ Past(u) ELSE pc[u] = "panic")
  ELSE <>(\A t \in Test : pc[t] = "panic")

\* correctness_check accepts exactly the answers without a block that is not in
\* the difference of the two sets, wherever in the answer the block is and
\* whatever blocks the sets have drawn twice.
RefusesWrongBlocks ==
  answer.verdict # "none" =>
    (answer.verdict = "accept" <=> ToSet(answer.recovered) \subseteq inputs.w \ inputs.v)

=============================================================================
