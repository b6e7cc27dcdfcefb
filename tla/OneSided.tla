------------------------------ MODULE OneSided ------------------------------
(***************************************************************************)
(* src/src/onesided.rs: private set union where only the receiver learns the *)
(* union.  semi_honest_psu1 and sender_malicious_psu1 run the sender "S" on a *)
(* spawned thread behind a listener and the receiver "R" on the caller's      *)
(* thread.  Three Diffie-Hellman messages tell the receiver which of the      *)
(* sender's entries it has; oblivious transfers then give it the others.      *)
(* sender_malicious_psu1 sends with each item a proof, challenge and two      *)
(* halves of the response, that the item is the one in the first message.     *)
(*                                                                          *)
(* The semi-honest protocol transfers with Alsz, the other with Kos, which    *)
(* adds a coin toss and a check of the choices to every batch.  The transfers *)
(* are ideal: the receiver's choices are sealed and it keeps one of the two   *)
(* blocks of every pair; a commitment is what it commits to, and a check      *)
(* stands for the choices and the coins it was computed from.                 *)
(*                                                                          *)
(* Both parties run the code as it is, but for a deviating one's coin tosses  *)
(* and checks (the program's own check on the sender, line 457, is commented  *)
(* out), so the if lets on the message's tag succeed and are left out.        *)
(***************************************************************************)
EXTENDS Curve, Integers, Sequences, Functions

CONSTANTS
  NS, NR,                 \* sizes of the two input vectors
  SenderInputs, ReceiverInputs,
  WithProofs,             \* sender_malicious_psu1 rather than semi_honest_psu1
  Block, Perp,            \* 16-byte blocks, and the zero block
  Nonce,                  \* the scalars r of the proofs
  hash_to_curve(_),       \* mapping.rs, item -> point
  challenge(_, _, _),     \* half of the hash of three points
  respond(_, _, _),       \* respond(r, c, k): r - c * k
  multiscalar_mul(_, _, _, _),  \* multiscalar_mul(z, P, c, Q): z * P + c * Q
  mul_by_cofactor(_),
  Low(_), High(_), combine_array(_, _),  \* halves of a scalar's bytes
  Deviating,              \* parties that may send false commitments and checks
  ResetAllowed, PanicAborts

ASSUME OneSidedAssumption ==
  /\ NS \in Nat /\ NR \in Nat
  /\ Item \subseteq Block /\ Perp \in Block
  /\ SenderInputs \subseteq [1..NS -> Item]
  /\ ReceiverInputs \subseteq [1..NR -> Item]
  /\ WithProofs \in BOOLEAN /\ ResetAllowed \in BOOLEAN /\ PanicAborts \in BOOLEAN
  /\ Deviating \subseteq {"S", "R"}
  /\ \A x \in Item : hash_to_curve(x) \in Point

(* Items do not collide as points, torsion removed. *)
ASSUME HashInjective ==
  \A x, y \in Item, k \in Key :
    MulClamped(k, hash_to_curve(x)) = MulClamped(k, hash_to_curve(y)) => x = y

(* The algebra of the proofs. *)
ASSUME ProofLaws ==
  /\ \A P, Q, R \in Point : challenge(P, Q, R) \in Scalar \cap Block
  /\ \A r \in Nonce, c \in Scalar, k \in Key : respond(r, c, k) \in Scalar
  /\ \A z \in Scalar : /\ Low(z) \in Block /\ High(z) \in Block
                       /\ combine_array(Low(z), High(z)) = z
  /\ \A r \in Nonce, P \in Point : MulClamped(r, P) \in Group
  /\ \A r \in Nonce, c \in Scalar, k \in Key, P \in Point :
       multiscalar_mul(respond(r, c, k), mul_by_cofactor(P), c, MulClamped(k, P))
         = MulClamped(r, P)

VARIABLES
  input, key, pi, nonce,  \* PartySender, PartyReceiver; fixed when they are built
  mode,    \* whether each thread is opening, running, flushing or over
  at,      \* the step of its script it is at
  sent,    \* messages each party has put on its half of the connection
  got,     \* how many of its peer's messages it has read
  up,      \* the connection has not been reset
  result   \* whether the call has returned

vars == <<input, key, pi, nonce, mode, at, sent, got, up, result>>

Party == {"S", "R"}
Peer(p) == IF p = "S" THEN "R" ELSE "S"
Over == {"done", "panic", "killed"}
Ended(p) == mode[p] \in Over
Got(p, r) == sent[Peer(p)][r]

-----------------------------------------------------------------------------
(* The order of reads and writes in each thread. *)

Batches == IF WithProofs THEN 4 ELSE 1

(* The messages of a batch in each direction, and the place of step k in it. *)
Turns == IF WithProofs THEN 3 ELSE 1
InBatch(k) == ((k - 4) % (2 * Turns)) + 1

(* send, of Alsz: the receiver's columns, the pairs.  Kos has between them the
   commitment to the seed, the receiver's coin, the seed and the check. *)
SendIO ==
  IF WithProofs THEN <<"read", "write", "read", "write", "read", "write">>
                ELSE <<"read", "write">>
(* receive, of Alsz and of Kos. *)
ReceiveIO ==
  IF WithProofs THEN <<"write", "read", "write", "read", "write", "read">>
                ELSE <<"write", "read">>

(* The oblivious transfer library: init with its base transfers, then batches. *)
OTSenderIO(k) ==
  IF k <= 3 THEN <<"read", "write", "read">>[k] ELSE SendIO[InBatch(k)]

\* Mutant: the coin is sent without waiting for the commitment to the seed.
OTReceiverIO_mutant(k) ==
  IF k <= 3 THEN <<"write", "read", "write">>[k]
  ELSE <<"write", "write", "read", "read", "write", "read">>[InBatch(k)]
OTReceiverIO(k) ==
  IF k <= 3 THEN <<"write", "read", "write">>[k] ELSE ReceiveIO[InBatch(k)]

sender_io(k) ==
  IF k <= 3 THEN <<"write", "read", "write">>[k] ELSE OTSenderIO(k - 3)
receiver_io(k) ==
  IF k <= 3 THEN <<"read", "write", "read">>[k] ELSE OTReceiverIO(k - 3)

IO(p) == IF p = "S" THEN sender_io(at[p]) ELSE receiver_io(at[p])
Last == 6 + 2 * Turns * Batches

-----------------------------------------------------------------------------
(* The contents of the messages. *)

(* gen, of either party *)
gen(p) == [i \in DOMAIN input[p] |-> MulClamped(key[p], hash_to_curve(input[p][i]))]

blind_and_shuffle == [i \in 1..NR |-> Mul(key["S"], Got("S", 1).pts[pi[i]])]

(* The proof for entry i: challenge c and response z. *)
c(i) ==
  LET P == hash_to_curve(input["S"][i])
  IN challenge(P, gen("S")[i], MulClamped(nonce[i], P))
z(i) == respond(nonce[i], c(i), key["S"])

(* The pairs of batch b: the sender's entry, or its proof, or nothing. *)
\* Mutant: the halves of the response are sent in the other order.
chunk_mutant(b) ==
  [i \in 1..NS |-> << <<input["S"][i], c(i), High(z(i)), Low(z(i))>>[b], Perp>>]
chunk(b) ==
  [i \in 1..NS |-> << <<input["S"][i], c(i), Low(z(i)), High(z(i))>>[b], Perp>>]

blind == [i \in DOMAIN Got("R", 1).pts |-> Mul(key["R"], Got("R", 1).pts[i])]

(* compare: which of the sender's entries the receiver has. *)
\* Mutant: the indicator has the opposite sense.
compare_mutant == [i \in DOMAIN blind |-> blind[i] \notin Range(Got("R", 2).pts)]
compare == [i \in DOMAIN blind |-> blind[i] \in Range(Got("R", 2).pts)]

(* The seed p draws in batch b; each draw gives another one.  No party draws one
   of batch 0. *)
seed(p, b) == <<p, b>>
Seed == Party \X (0 .. Batches)
Check == [x : [1..NS -> BOOLEAN], chi : Seed \X Seed]

(* channel.rs, HashDH and HashDH2; and the messages of the transfers. *)
Message ==
       [pts : [1..NS -> Group] \cup [1..NR -> Group]]
  \cup [ot : {"base"}]
  \cup [choices : [1..NS -> BOOLEAN]]
  \cup [com : Seed] \cup [coin : Seed] \cup [seed : Seed] \cup [check : Check]
  \cup [pairs : [1..NS -> Block \X Block]]

(* Message r > 3 of either party: its batch and, of Kos, which of three it is. *)
Batch(r) == ((r - 4) \div Turns) + 1
KosTurn(r) == IF WithProofs THEN ((r - 4) % 3) + 1 ELSE 0

(* The r-th message of each thread. *)
Base_OT == [ot |-> "base"]
SenderMsg(r) ==
  CASE r = 1 -> [pts |-> gen("S")]
    [] r = 2 -> [pts |-> blind_and_shuffle]
    [] r = 3 -> Base_OT
    [] r > 3 /\ KosTurn(r) = 1 -> [com |-> seed("S", Batch(r))]
    [] r > 3 /\ KosTurn(r) = 2 -> [seed |-> seed("S", Batch(r))]
    [] r > 3 /\ KosTurn(r) \in {0, 3} -> [pairs |-> chunk(Batch(r))]
ReceiverMsg(r) ==
  CASE r = 1 -> [pts |-> gen("R")]
    [] r \in {2, 3} -> Base_OT
    [] r > 3 /\ KosTurn(r) \in {0, 1} -> [choices |-> compare]
    [] r > 3 /\ KosTurn(r) = 2 -> [coin |-> seed("R", Batch(r))]
    [] r > 3 /\ KosTurn(r) = 3 ->
         [check |-> [x |-> compare, chi |-> <<Got("R", r - 1).seed, seed("R", Batch(r))>>]]
Msg(p, r) == IF p = "S" THEN SenderMsg(r) ELSE ReceiverMsg(r)

(* What a deviating party may send instead: a commitment that its seed does not
   open, a check that does not go with the coins. *)
Forged(p, r) ==
  IF p = "S" /\ r > 3 /\ KosTurn(r) = 1 THEN {[com |-> seed("S", 0)]}
  ELSE IF p = "R" /\ r > 3 /\ KosTurn(r) = 3
  THEN {[check |-> [x |-> compare, chi |-> <<seed("S", 0), seed("R", 0)>>]]}
  ELSE {}

(* cointoss receive, "committment check failed"; send_setup of Kos, "Consistency
   check failed".  Message r, being read by p, makes it panic. *)
Refused(p, r) ==
  \/ /\ p = "R" /\ r > 3 /\ KosTurn(r) = 2
     /\ Got("R", r).seed # Got("R", r - 1).com
  \/ /\ p = "S" /\ r > 3 /\ KosTurn(r) = 3
     /\ Got("S", r).check # [x |-> Got("S", r - 2).choices,
                             chi |-> <<seed("S", Batch(r)), Got("S", r - 1).coin>>]

(* What the receiver has after batch b, and the check it computes with it. *)
receive(b) ==
  LET pairs == Got("R", 3 + Turns * b).pairs
  IN [i \in DOMAIN pairs |-> pairs[i][IF compare[i] THEN 2 ELSE 1]]
hc(i) ==
  LET g == hash_to_curve(receive(1)[i])
      h == Got("R", 1).pts[i]
      zs == combine_array(receive(3)[i], receive(4)[i])
  IN challenge(g, h, multiscalar_mul(zs, mul_by_cofactor(g), receive(2)[i], h))

-----------------------------------------------------------------------------
(* Steps of a thread. *)

(* A panic ends the thread, and with panic = "abort" the process; the caller is
   on R's thread. *)
Panic(p) ==
  /\ mode' = [q \in Party |-> IF q = p THEN "panic"
                              ELSE IF PanicAborts /\ ~Ended(q) THEN "killed"
                              ELSE mode[q]]
  /\ result' = IF p = "R" \/ PanicAborts THEN "panic" ELSE result

(* On to the next read or write.  After its last batch the sender's thread ends;
   so does the receiver's part, its checks done but not acted on. *)
Advance(p) ==
  /\ at' = [at EXCEPT ![p] = @ + 1]
  /\ mode' = [mode EXCEPT ![p] = IF at[p] = Last THEN "done" ELSE "run"]

(* connect on R's thread, the listener being bound before; accept on S's. *)
Open(p) ==
  /\ mode[p] = "open"
  /\ p = "S" => mode["R"] # "open"
  /\ mode' = [mode EXCEPT ![p] = "run"]
  /\ UNCHANGED <<input, key, pi, nonce, at, sent, got, up, result>>

(* write_msg, or the library's writes up to a flush. *)
Write(p) ==
  /\ mode[p] = "run" /\ IO(p) = "write"
  /\ LET r == Len(sent[p]) + 1
     IN \E m \in {Msg(p, r)} \cup (IF p \in Deviating THEN Forged(p, r) ELSE {}) :
          sent' = [sent EXCEPT ![p] = Append(@, m)]
  /\ mode' = [mode EXCEPT ![p] = "flush"]
  /\ UNCHANGED <<input, key, pi, nonce, at, got, up, result>>

(* The flush returns: the message fits the socket buffers or has been read. *)
Flush(p) ==
  /\ mode[p] = "flush"
  /\ Advance(p)
  /\ UNCHANGED <<input, key, pi, nonce, sent, got, up, result>>

WriteFails(p) ==
  /\ \/ mode[p] = "run" /\ IO(p) = "write"
     \/ mode[p] = "flush" /\ got[Peer(p)] < Len(sent[p])
  /\ Ended(Peer(p)) \/ ~up
  /\ Panic(p)
  /\ UNCHANGED <<input, key, pi, nonce, at, sent, got, up>>

(* read_msg, or the library's reads of one flush of its peer and what it checks
   of them, whose failure send or receive returns and the thread unwraps. *)
Read(p) ==
  /\ mode[p] = "run" /\ IO(p) = "read"
  /\ got[p] < Len(sent[Peer(p)])
  /\ got' = [got EXCEPT ![p] = @ + 1]
  /\ IF Refused(p, got[p] + 1)
     THEN Panic(p) /\ at' = [at EXCEPT ![p] = @ + 1]
     ELSE Advance(p) /\ UNCHANGED result
  /\ UNCHANGED <<input, key, pi, nonce, sent, up>>

\* Mutant: end of stream is taken for "no data yet" and the read is tried again.
ReadFails_mutant(p) ==
  /\ mode[p] = "run" /\ IO(p) = "read"
  /\ ~up \/ Ended(Peer(p))
  /\ UNCHANGED vars

(* End of stream, or a reset: also what closing with data unread causes. *)
ReadFails(p) ==
  /\ mode[p] = "run" /\ IO(p) = "read"
  /\ \/ ~up
     \/ /\ Ended(Peer(p))
        /\ got[p] = Len(sent[Peer(p)]) \/ got[Peer(p)] < Len(sent[p])
  /\ Panic(p)
  /\ UNCHANGED <<input, key, pi, nonce, at, sent, got, up>>

\* Mutant: the sender's thread is detached rather than joined.
Join_mutant ==
  /\ mode["R"] = "done" /\ result = "pending"
  /\ result' = "returned"
  /\ UNCHANGED <<input, key, pi, nonce, mode, at, sent, got, up>>

(* s_handle.join().unwrap(), on the caller's thread. *)
Join ==
  /\ mode["R"] = "done" /\ Ended("S") /\ result = "pending"
  /\ result' = IF mode["S"] = "done" THEN "returned" ELSE "panic"
  /\ UNCHANGED <<input, key, pi, nonce, mode, at, sent, got, up>>

(* The environment resets the connection. *)
Reset ==
  /\ ResetAllowed /\ up /\ \A p \in Party : mode[p] # "open"
  /\ up' = FALSE
  /\ UNCHANGED <<input, key, pi, nonce, mode, at, sent, got, result>>

Finished ==
  /\ \A p \in Party : Ended(p)
  /\ result # "pending"
  /\ UNCHANGED vars

Inputs == [S : SenderInputs, R : ReceiverInputs]

Init ==
  /\ input \in Inputs
  /\ key \in [Party -> Key]
  /\ pi \in Bijection(1..NR, 1..NR)
  /\ nonce \in [1..NS -> Nonce]
  /\ mode = [p \in Party |-> "open"]
  /\ at = [p \in Party |-> 1]
  /\ sent = [p \in Party |-> <<>>]
  /\ got = [p \in Party |-> 0]
  /\ up = TRUE
  /\ result = "pending"

Step(p) == Open(p) \/ Write(p) \/ WriteFails(p) \/ Read(p) \/ ReadFails(p)

Next ==
  \/ \E p \in Party : Step(p) \/ Flush(p)
  \/ Join \/ Reset \/ Finished

Spec == Init /\ [][Next]_vars

(* Both threads keep running; a flush is only sure to return once its message
   has been read. *)
Fairness ==
  /\ \A p \in Party :
       WF_vars(Step(p) \/ (Flush(p) /\ got[Peer(p)] = Len(sent[p])))
  /\ WF_vars(Join)

FairSpec == Spec /\ Fairness

-----------------------------------------------------------------------------
(* Properties. *)

(* Every variable has its type; a thread is over once it is past its script. *)
TypeOK ==
  /\ input \in Inputs
  /\ key \in [Party -> Key]
  /\ pi \in Bijection(1..NR, 1..NR)
  /\ nonce \in [1..NS -> Nonce]
  /\ mode \in [Party -> {"open", "run", "flush"} \cup Over]
  /\ at \in [Party -> 1 .. Last + 1]
  /\ \A p \in Party : mode[p] = "done" <=> at[p] = Last + 1
  /\ sent \in [Party -> Seq(Message)]
  /\ got \in [Party -> 0 .. Last]
  /\ up \in BOOLEAN
  /\ result \in {"pending", "returned", "panic"}

(* The receiver ends with exactly the union: the entries that the transfers
   give it are the sender's items it lacks, each at its place, and it gets the
   zero block, not the item, for those it has.  (The code drops _results, so no
   test looks at them.) *)
UnionExact ==
  mode["R"] = "done" =>
    \A i \in 1..NS :
      receive(1)[i] = IF input["S"][i] \in Range(input["R"]) THEN Perp
                                                             ELSE input["S"][i]

(* For every item the receiver learns, the challenge it recomputes from the four
   transfers is the one the sender sent: the assertion commented out at the end
   of sender_malicious_psu1 would hold for a sender that runs the code. *)
ProofsVerify ==
  mode["R"] = "done" /\ WithProofs =>
    \A i \in 1..NS : ~compare[i] => hc(i) = receive(2)[i]

InFlight(p) == Len(sent[p]) - got[Peer(p)]

(* The threads, and Alsz or Kos under them with their coin tosses and checks,
   never have messages in flight both ways: blocking writes cannot wait for each
   other. *)
OneWayAtATime == InFlight("S") = 0 \/ InFlight("R") = 0

(* The call returns only when both threads have run to their end, even when the
   connection is reset around the last batch. *)
ReturnMeansBoth == result = "returned" => \A p \in Party : mode[p] = "done"

(* Each party has sent what its code computes. *)
AsCoded == \A p \in Party : \A r \in DOMAIN sent[p] : sent[p][r] \notin Forged(p, r)

(* Between parties that run the code the call returns unless the connection is
   reset, even if no message ever fits the socket buffers: no turn of a batch is
   waited for by both, no coin toss or check is refused.  After a reset, or a
   panic on a false commitment or check in the middle of a batch, every thread
   ends: none is left in a read or a write. *)
CallReturns ==
  /\ [](up /\ AsCoded) => <>(result = "returned")
  /\ <>(\A p \in Party : Ended(p))
=============================================================================
