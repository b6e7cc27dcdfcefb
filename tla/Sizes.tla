-------------------------------- MODULE Sizes --------------------------------
(***************************************************************************)
(* The lengths of the vectors of the two-sided protocol (twosided.rs and the *)
(* shuffle argument of aok.rs).  The caller gives the size of the public     *)
(* parameters to setup_params, n and n_other to Party::new and a set to each *)
(* party, and nothing compares them: a length that does not fit is met by an *)
(* index out of range or by the assertion in vartime_multiscalar_mul that    *)
(* there are as many scalars as points, in a thread and a round far from the *)
(* caller.  The values of the vectors are left out; both parties follow the  *)
(* code.                                                                     *)
(***************************************************************************)
EXTENDS Integers, Sequences

CONSTANT Max   \* bounds the sizes

ASSUME SizesAssumption == Max \in Nat

Party == {"L", "R"}
Server == "R"
Peer(p) == IF p = "L" THEN "R" ELSE "L"
Size == 0..Max

VARIABLES
  pp,     \* the length of the public parameters
  n,      \* what Party::new is told of the party's own set
  other,  \* and of its peer's: n_other
  items,  \* the items in the party's input
  pc,     \* where each thread is
  step,   \* the step of protocol it takes next
  sent,   \* the messages it has written
  got     \* and those it has read

sizes == <<pp, n, other, items>>
vars == <<pp, n, other, items, pc, step, sent, got>>

Over == {"done", "none", "panic"}
Ended(p) == pc[p] \in Over

(* A panic ends the thread and drops its stream, as in the tests' builds; with
   panic = "abort" it would end the other thread too. *)
Panic(p) == pc' = [pc EXCEPT ![p] = "panic"]

-----------------------------------------------------------------------------
(* commit: as many scalars as generators. *)
\* Mutant: the generators there are more than scalars are left out.
commit_mutant(len) == len <= pp
commit(len) == len = pp

(* Party::new: the vector d of the hint has n entries and the permutation
   n_other, and both are committed to; then delta[0] needs an entry. *)
new(p) == commit(n[p]) /\ commit(other[p]) /\ n[p] > 0

(* blind_shuffle on as many points as the peer's input has items: an index into
   pi_inv for every point and into the points for every entry, as many d as
   points (g_d), and z permuted committed to. *)
\* Mutant: g_d is made of the pairs there are, as a zip would.
blind_shuffle_mutant(p) == items[Peer(p)] <= other[p] /\ commit(other[p])
blind_shuffle(p) ==
  LET m == items[Peer(p)]
  IN  m <= other[p] /\ m >= other[p] /\ n[p] = m /\ commit(other[p])

(* The lengths of the third message of p: the shuffled points h and the vectors
   x, f and f_delta of the proof. *)
Shuffle(p) == LET m == items[Peer(p)] IN [h |-> m, x |-> m, f |-> other[p], f_delta |-> m]

Shortest(a, b) == IF a < b THEN a ELSE b

(* verify_shuffle_adapted on the party's own points: an f for every one and an
   f_delta for every one but the last, as many sums as generators, and as many
   scalars (x and z) as points (g and h). *)
verify_fits(p) ==
  LET s == Shuffle(Peer(p))
      g == items[p]
  IN  /\ s.f >= 1 /\ s.f >= g /\ s.f_delta >= g - 1
      /\ commit(Shortest(s.f, Shortest(s.f_delta, s.x)))
      /\ g + s.h = s.x + g

(* A proof for one entry does not verify (ShuffleArgument). *)
verifies(p) == items[p] >= 2

(* final_response: the first n of the shuffled points. *)
response_fits(p) == Shuffle(Peer(p)).h >= n[p]

-----------------------------------------------------------------------------
(* The caller makes the client's party, then the server's, and runs both; there
   is no thread yet when one cannot be made. *)
New ==
  /\ pc["L"] = "new"
  /\ pc' = [p \in Party |-> IF new("L") /\ new("R") THEN "run" ELSE "panic"]
  /\ UNCHANGED <<sizes, step, sent, got>>

Program(p) ==
  IF p = Server
  THEN <<"write", "read", "write", "read", "blind", "write", "read", "final", "write", "read", "reveal">>
  ELSE <<"read", "write", "read", "write", "blind", "read", "write", "final", "read", "write", "reveal">>

At(p, s) == pc[p] = "run" /\ Program(p)[step[p]] = s
GoOn(p) == step' = [step EXCEPT ![p] = @ + 1] /\ UNCHANGED pc

(* protocol returns None: malicious_psu2 unwraps it on the client's thread. *)
ReturnNone(p) == IF p = "L" THEN Panic(p) ELSE pc' = [pc EXCEPT ![p] = "none"]

Write(p) ==
  /\ At(p, "write")
  /\ sent' = [sent EXCEPT ![p] = @ + 1]
  /\ GoOn(p)
  /\ UNCHANGED <<sizes, got>>

Read(p) ==
  /\ At(p, "read") /\ got[p] < sent[Peer(p)]
  /\ got' = [got EXCEPT ![p] = @ + 1]
  /\ GoOn(p)
  /\ UNCHANGED <<sizes, sent>>

(* The peer is gone: the write, or the read with nothing left to read, fails. *)
\* Mutant: end of stream is taken for "no data yet".
IOFails_mutant(p) ==
  /\ At(p, "write") \/ (At(p, "read") /\ got[p] = sent[Peer(p)])
  /\ Ended(Peer(p))
  /\ UNCHANGED vars
IOFails(p) ==
  /\ At(p, "write") \/ (At(p, "read") /\ got[p] = sent[Peer(p)])
  /\ Ended(Peer(p))
  /\ Panic(p)
  /\ UNCHANGED <<sizes, step, sent, got>>

BlindShuffle(p) ==
  /\ At(p, "blind")
  /\ IF blind_shuffle(p) THEN GoOn(p) ELSE Panic(p) /\ UNCHANGED step
  /\ UNCHANGED <<sizes, sent, got>>

FinalResponse(p) ==
  /\ At(p, "final")
  /\ IF verify_fits(p) /\ verifies(p) /\ response_fits(p) THEN GoOn(p)
     ELSE /\ IF verify_fits(p) /\ ~verifies(p) THEN ReturnNone(p) ELSE Panic(p)
          /\ UNCHANGED step
  /\ UNCHANGED <<sizes, sent, got>>

(* The fourth messages of both fit each other: one vector is made with the other. *)
RevealItems(p) ==
  /\ At(p, "reveal")
  /\ pc' = [pc EXCEPT ![p] = "done"]
  /\ UNCHANGED <<sizes, step, sent, got>>

Init ==
  /\ pp \in Size
  /\ n \in [Party -> Size] /\ other \in [Party -> Size] /\ items \in [Party -> Size]
  /\ pc = [p \in Party |-> "new"]
  /\ step = [p \in Party |-> 1]
  /\ sent = [p \in Party |-> 0] /\ got = [p \in Party |-> 0]

Step(p) == \/ Write(p) \/ Read(p) \/ IOFails(p) \/ BlindShuffle(p)
           \/ FinalResponse(p) \/ RevealItems(p)
Finished == (\A p \in Party : Ended(p)) /\ UNCHANGED vars

Next == New \/ (\E p \in Party : Step(p)) \/ Finished

\* The threads run while they are not blocked.
Spec == Init /\ [][Next]_vars /\ WF_vars(New) /\ \A p \in Party : WF_vars(Step(p))

-----------------------------------------------------------------------------
TypeOK ==
  /\ pp \in Size
  /\ n \in [Party -> Size] /\ other \in [Party -> Size] /\ items \in [Party -> Size]
  /\ pc \in [Party -> Over \cup {"new", "run"}]
  /\ step \in [Party -> 1..11]
  /\ sent \in [Party -> 0..4] /\ got \in [Party -> 0..4]

AllAgree == \A p \in Party : n[p] = pp /\ other[p] = pp /\ items[p] = pp

\* Lengths that do not fit never lead to an output: a party that reaches its
\* fourth round, or has its items, worked on sets, hints, permutations and
\* parameters of one and the same length, its own and its peer's, although a
\* wrong length of its own input is met by its peer only (twosided.rs:56, 131).
OutputMeansFit == \A p \in Party : (step[p] > 8 \/ pc[p] = "done") => AllAgree /\ pp >= 2

\* A length that does not fit is met before the party has sent anything made with
\* its key and permutation: the third message is never of a wrong length.
ShufflesFit == \A p \in Party : sent[p] >= 3 => n[p] = pp /\ items[Peer(p)] = pp

\* Whatever the sizes, empty sets included, both threads end, and with sizes that
\* agree both have their items.
BothEnd ==
  /\ <>(\A p \in Party : Ended(p))
  /\ (AllAgree /\ pp >= 2) => <>(\A p \in Party : pc[p] = "done")

=============================================================================
