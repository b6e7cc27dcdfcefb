------------------------------ MODULE TwoSided ------------------------------
(***************************************************************************)
(* src/src/twosided.rs: the maliciously secure private set union with       *)
(* two-sided output.  malicious_psu2 runs two copies of protocol(): "R" is   *)
(* the server, on a spawned thread behind a listener; "L" is the client, on  *)
(* the caller's thread.  They exchange four rounds of messages over one TCP  *)
(* connection (channel.rs), the server writing first and the client reading  *)
(* first in every round.                                                    *)
(*                                                                          *)
(* Hashes and zero-knowledge proofs are ideal: a digest is the value hashed, *)
(* and a proof verifies iff it was produced by the prover (proof |-> TRUE)   *)
(* for a statement that is true.  Vectors of a message are functions on      *)
(* 1..N (Sizes.tla is about the lengths the code's own vectors have).  The   *)
(* positions in the two vectors of round 4 are labels: an honest party's are *)
(* the indices it lists.                                                     *)
(***************************************************************************)
EXTENDS Curve, Integers, Sequences, Functions

CONSTANTS
  N,            \* number of items of each party (n = n_other)
  Inputs,       \* the input vectors the caller may pass
  Deviating,    \* parties that may send other messages than the code does
  Forged,       \* the messages such a party may send instead
  Undecodable,  \* a compressed point that does not decompress
  ResetAllowed, \* may the connection be reset?
  PanicAborts   \* panic = "abort" (the build profiles) or unwinding (tests)

Party == {"L", "R"}
Server == "R"
Peer(p) == IF p = "L" THEN "R" ELSE "L"
Idx == 1..N
Perms == Bijection(Idx, Idx)

(* channel.rs, enum Message.  Compressed points may fail to decompress; those
   that do are taken to be free of torsion, as the code's own are. *)
Enc == Group \cup {Undecodable}
Slot == 1 .. N + 1   \* bounds a deviating party's answer: one entry too many
ListsOf(S) == UNION {[I -> S] : I \in SUBSET Slot}
Opening == [pk : Group, pts : [Idx -> Enc]]
Message ==
       [tag : {1}, sigma : Opening]
  \cup [tag : {2}, open : Opening]
  \cup [tag : {3}, proof : BOOLEAN, pts : [Idx -> Enc]]
  \cup [tag : {4}, proof : BOOLEAN, ind : ListsOf(Slot), unblinded : ListsOf(Enc)]

(* One item is excluded: the shuffle argument has no valid proof for n = 1 (nor
   a prover for n = 0), see the README. *)
ASSUME TwoSidedAssumption ==
  /\ N \in Nat /\ N >= 2
  /\ Inputs \subseteq [Idx -> Item]
  /\ Deviating \subseteq Party
  /\ Forged \subseteq Message
  /\ Undecodable \notin Point
  /\ ResetAllowed \in BOOLEAN
  /\ PanicAborts \in BOOLEAN

VARIABLES
  input, key, pi,  \* Party: its items, secret key and permutation, fixed by new
  pc,              \* where each thread is
  round,           \* the round it is in
  sent,            \* messages each party has put on its half of the connection
  got,             \* how many of its peer's messages it has read
  out,             \* recovered items: position in the peer's answer -> item
  up,              \* the connection has not been reset
  result           \* what malicious_psu2 has returned to its caller

secrets == <<input, key, pi>>
vars == <<input, key, pi, pc, round, sent, got, out, up, result>>

Over == {"done", "none", "panic", "killed"}
Ended(p) == pc[p] \in Over

-----------------------------------------------------------------------------
(* The messages of an honest party. *)

pi_inv(p) == Inverse(pi[p], Idx, Idx)
pk(p) == Mul(key[p], Base)

(* The r-th message p has read. *)
Got(p, r) == sent[Peer(p)][r]

(* gen: p's items as points blinded by p's key, and the digest binding them. *)
points(p) == [i \in Idx |-> MulClamped(key[p], hash_to_point(input[p][i]))]
\* Mutant: the loop pushes the first item's point every time.
gen_mutant(p) == [pk |-> pk(p), pts |-> [i \in Idx |-> points(p)[1]]]
gen(p) == [pk |-> pk(p), pts |-> points(p)]

(* blind_shuffle: the peer's points blinded by p's key too, in pi's order. *)
shuffled(p) == [i \in Idx |-> Mul(key[p], Got(p, 2).open.pts[pi_inv(p)[i]])]

(* final_response: p takes its own key off the points its peer shuffled and
   hands back those that are not among the peer's points. *)
\* Mutant: the blinding key is applied once more instead of taken off.
unblinded_mutant(p) == [i \in Idx |-> Mul(key[p], Got(p, 3).pts[i])]
unblinded(p) == [i \in Idx |-> Mul(Inv(key[p]), Got(p, 3).pts[i])]
\* Mutant: the membership test on the peer's points is dropped.
ind_mutant(p) == Idx
ind(p) == {i \in Idx : unblinded(p)[i] \notin Range(Got(p, 2).open.pts)}
final_response(p) == [i \in ind(p) |-> unblinded(p)[i]]

(* The message p's code writes in round r. *)
Msg(p, r) ==
  CASE r = 1 -> [tag |-> 1, sigma |-> gen(p)]
    [] r = 2 -> [tag |-> 2, open |-> gen(p)]
    [] r = 3 -> [tag |-> 3, proof |-> TRUE, pts |-> shuffled(p)]
    [] r = 4 -> [tag |-> 4, proof |-> TRUE,
                 ind |-> [i \in ind(p) |-> i], unblinded |-> final_response(p)]

-----------------------------------------------------------------------------
(* What a party checks. *)

verify_sigma(p) == Got(p, 1).sigma = Got(p, 2).open

(* The statement of the shuffle argument: es is a permutation of xs raised to
   the secret key of pub.  Nothing excludes the key 0, whose public key is the
   neutral element and which raises every point to it. *)
ShuffleHolds(pub, xs, es) ==
  \E k \in Scalar, s \in Perms :
    /\ pub = Mul(k, Base)
    /\ \A i \in Idx : es[i] = Mul(k, xs[s[i]])

verify_shuffle_adapted(p) ==
  /\ Got(p, 3).proof
  /\ ShuffleHolds(Got(p, 2).open.pk, points(p), Got(p, 3).pts)

(* The statement of the batched DDH proof: every point listed, raised to the
   secret key of pub, is the shuffled point of its index.  For the key 0 that
   says nothing of the points listed. *)
DDHHolds(pub, js, us, hs) ==
  \E k \in Scalar :
    /\ pub = Mul(k, Base)
    /\ \A i \in DOMAIN js : hs[js[i]] = Mul(k, us[i])

\* Mutant: the verifier does not recompute the statement.
batched_ddh_verify_mutant(p) == Got(p, 4).proof
batched_ddh_verify(p) ==
  /\ Got(p, 4).proof
  /\ DDHHolds(Got(p, 2).open.pk, Got(p, 4).ind, Got(p, 4).unblinded, shuffled(p))

-----------------------------------------------------------------------------
(* Ways a thread leaves the protocol. *)

(* A panic ends the thread and drops its stream; with panic = "abort" it ends
   the process.  The caller of malicious_psu2 runs on L's thread. *)
Panic(p) ==
  /\ pc' = [q \in Party |-> IF q = p THEN "panic"
                            ELSE IF PanicAborts /\ ~Ended(q) THEN "killed"
                            ELSE pc[q]]
  /\ result' = IF p = "L" \/ PanicAborts THEN "panic" ELSE result

(* protocol returns None: malicious_psu2 unwraps it on L's thread and drops it
   on R's. *)
ReturnNone(p) ==
  IF p = "L" THEN Panic(p)
  ELSE /\ pc' = [pc EXCEPT ![p] = "none"]
       /\ UNCHANGED result

-----------------------------------------------------------------------------
(* Steps of a thread. *)

\* Mutant: the client writes before it reads, too.
FirstIO_mutant(p) == "write"
FirstIO(p) == IF p = Server THEN "write" ELSE "read"

NextRound(p) ==
  /\ round' = [round EXCEPT ![p] = @ + 1]
  /\ pc' = [pc EXCEPT ![p] = FirstIO(p)]

(* Both messages of the round are exchanged; round 1 has nothing to check. *)
EndOfRound(p) ==
  IF round[p] = 1 THEN NextRound(p)
  ELSE /\ pc' = [pc EXCEPT ![p] = "check"]
       /\ UNCHANGED round

(* connect on L's thread succeeds at once, the listener being bound before
   either thread starts; accept on R's waits for it. *)
Open(p) ==
  /\ pc[p] = "open"
  /\ p = Server => pc[Peer(p)] # "open"
  /\ pc' = [pc EXCEPT ![p] = FirstIO(p)]
  /\ UNCHANGED <<input, key, pi, round, sent, got, out, up, result>>

(* write_msg: serialise the round's message and push it into the socket. *)
Write(p) ==
  /\ pc[p] = "write"
  /\ \E m \in {Msg(p, round[p])} \cup (IF p \in Deviating THEN Forged ELSE {}) :
       sent' = [sent EXCEPT ![p] = Append(@, m)]
  /\ pc' = [pc EXCEPT ![p] = "flush"]
  /\ UNCHANGED <<input, key, pi, round, got, out, up, result>>

(* ... which returns when the message fits the socket buffers or its peer has
   read it. *)
Flush(p) ==
  /\ pc[p] = "flush"
  /\ IF p = Server THEN pc' = [pc EXCEPT ![p] = "read"] /\ UNCHANGED round
                   ELSE EndOfRound(p)
  /\ UNCHANGED <<input, key, pi, sent, got, out, up, result>>

(* ... or fails on a connection that is closed or reset: unwrap panics. *)
WriteFails(p) ==
  /\ \/ pc[p] = "write"
     \/ pc[p] = "flush" /\ got[Peer(p)] < Len(sent[p])
  /\ Ended(Peer(p)) \/ ~up
  /\ Panic(p)
  /\ UNCHANGED <<input, key, pi, round, sent, got, out, up>>

(* read_msg, and the match on its result: another tag than the round's makes
   protocol return None. *)
Read(p) ==
  /\ pc[p] = "read"
  /\ got[p] < Len(sent[Peer(p)])
  /\ got' = [got EXCEPT ![p] = @ + 1]
  /\ IF Got(p, got[p] + 1).tag # round[p]
     THEN ReturnNone(p) /\ UNCHANGED round
     ELSE /\ IF p = Server THEN EndOfRound(p)
                           ELSE pc' = [pc EXCEPT ![p] = "write"] /\ UNCHANGED round
          /\ UNCHANGED result
  /\ UNCHANGED <<input, key, pi, sent, out, up>>

\* Mutant: end of stream is taken for "no data yet" and the read is tried again.
ReadFails_mutant(p) ==
  /\ pc[p] = "read"
  /\ ~up \/ Ended(Peer(p))
  /\ UNCHANGED vars

(* read_msg meets end of stream, or a reset: the kernel resets a connection
   closed with data unread, and then drops what it had not delivered. *)
ReadFails(p) ==
  /\ pc[p] = "read"
  /\ \/ ~up
     \/ /\ Ended(Peer(p))
        /\ got[p] = Len(sent[Peer(p)]) \/ got[Peer(p)] < Len(sent[p])
  /\ Panic(p)
  /\ UNCHANGED <<input, key, pi, round, sent, got, out, up>>

\* Mutant: the outcome of verify_sigma is not looked at.
VerifySigma_mutant(p) ==
  /\ pc[p] = "check" /\ round[p] = 2
  /\ IF Undecodable \in Range(Got(p, 2).open.pts)
     THEN Panic(p) /\ UNCHANGED round
     ELSE NextRound(p) /\ UNCHANGED result
  /\ UNCHANGED <<input, key, pi, sent, got, out, up>>

(* After round 2: verify_sigma decompresses the peer's points as it hashes
   them, then the digest decides (a deviating party goes on in any case).
   blind_shuffle computes Msg(p, 3). *)
VerifySigma(p) ==
  /\ pc[p] = "check" /\ round[p] = 2
  /\ \/ /\ Undecodable \in Range(Got(p, 2).open.pts)
        /\ Panic(p)
        /\ UNCHANGED round
     \/ /\ Undecodable \notin Range(Got(p, 2).open.pts)
        /\ IF verify_sigma(p) \/ p \in Deviating
           THEN NextRound(p) /\ UNCHANGED result
           ELSE ReturnNone(p) /\ UNCHANGED round
  /\ UNCHANGED <<input, key, pi, sent, got, out, up>>

(* After round 3: decompress, verify the shuffle; the response is Msg(p, 4).  Of
   a deviating party it is one of the messages it may send. *)
FinalResponse(p) ==
  /\ pc[p] = "check" /\ round[p] = 3
  /\ \/ /\ Undecodable \in Range(Got(p, 3).pts)
        /\ Panic(p)
        /\ UNCHANGED round
     \/ /\ Undecodable \notin Range(Got(p, 3).pts)
        /\ IF verify_shuffle_adapted(p) \/ p \in Deviating
           THEN NextRound(p) /\ UNCHANGED result
           ELSE ReturnNone(p) /\ UNCHANGED round
  /\ UNCHANGED <<input, key, pi, sent, got, out, up>>

(* After round 4: index p's own shuffled points by the peer's indices, verify
   the DDH proof and recover the items.  Fewer points than indices, an index out
   of range, a point that does not decompress and a proof that does not verify
   all panic; points without an index are left alone, repetitions accepted. *)
RevealItems(p) ==
  /\ pc[p] = "check" /\ round[p] = 4
  /\ LET js == Got(p, 4).ind
         us == Got(p, 4).unblinded
         ok == /\ DOMAIN js \subseteq DOMAIN us
               /\ Range(js) \subseteq Idx
               /\ \A i \in DOMAIN js : us[i] # Undecodable
               /\ batched_ddh_verify(p)
     IN IF ok
        THEN /\ out' = [out EXCEPT ![p] =
                          [i \in DOMAIN js |-> recover_from_point(MulInv8(key[p], us[i]))]]
             /\ pc' = [pc EXCEPT ![p] = "done"]
             /\ UNCHANGED result
        ELSE Panic(p) /\ UNCHANGED out
  /\ UNCHANGED <<input, key, pi, round, sent, got, up>>

\* Mutant: the panic of the joined thread is ignored.
Join_mutant ==
  /\ pc["L"] = "done" /\ Ended("R") /\ result = "pending"
  /\ result' = "some"
  /\ UNCHANGED <<input, key, pi, pc, round, sent, got, out, up>>

(* malicious_psu2 once protocol has returned on L's thread: join R's thread,
   whose panic is passed on; its value is dropped. *)
Join ==
  /\ pc["L"] = "done" /\ Ended("R") /\ result = "pending"
  /\ result' = IF pc["R"] \in {"panic", "killed"} THEN "panic" ELSE "some"
  /\ UNCHANGED <<input, key, pi, pc, round, sent, got, out, up>>

(* The environment: a deviating party gives up; the connection is reset. *)
Quit(p) ==
  /\ p \in Deviating /\ ~Ended(p) /\ pc[p] # "open"
  /\ ReturnNone(p)
  /\ UNCHANGED <<input, key, pi, round, sent, got, out, up>>

Reset ==
  /\ ResetAllowed /\ up /\ \A p \in Party : pc[p] # "open"
  /\ up' = FALSE
  /\ UNCHANGED <<input, key, pi, pc, round, sent, got, out, result>>

Finished ==
  /\ \A p \in Party : Ended(p)
  /\ result # "pending"
  /\ UNCHANGED vars

-----------------------------------------------------------------------------
Init ==
  /\ input \in [Party -> Inputs]
  /\ key \in [Party -> Key]
  /\ pi \in [Party -> Perms]
  /\ pc = [p \in Party |-> "open"]
  /\ round = [p \in Party |-> 1]
  /\ sent = [p \in Party |-> <<>>]
  /\ got = [p \in Party |-> 0]
  /\ out = [p \in Party |-> <<>>]
  /\ up = TRUE
  /\ result = "pending"

Step(p) ==
  \/ Open(p) \/ Write(p) \/ WriteFails(p) \/ Read(p) \/ ReadFails(p)
  \/ VerifySigma(p) \/ FinalResponse(p) \/ RevealItems(p)

Next ==
  \/ \E p \in Party : Step(p) \/ Flush(p) \/ Quit(p)
  \/ Join \/ Reset \/ Finished

Spec == Init /\ [][Next]_vars

(* Both threads keep running.  A write is only sure to return once its peer has
   read the message: nothing is assumed of the socket buffers. *)
Fairness ==
  /\ \A p \in Party :
       WF_vars(Step(p) \/ (Flush(p) /\ got[Peer(p)] = Len(sent[p])))
  /\ WF_vars(Join)

FairSpec == Spec /\ Fairness

-----------------------------------------------------------------------------
(* Properties. *)

Honest == Party \ Deviating

(* Every variable has its type: pc, rounds and counts are in range, and both
   streams carry messages of channel.rs's enum. *)
TypeOK ==
  /\ input \in [Party -> Inputs]
  /\ key \in [Party -> Key]
  /\ pi \in [Party -> Perms]
  /\ pc \in [Party -> {"open", "write", "flush", "read", "check"} \cup Over]
  /\ round \in [Party -> 1..4]
  /\ sent \in [Party -> Seq(Message)]
  /\ got \in [Party -> 0..4]
  /\ out \in [Party -> ListsOf(Item)]
  /\ up \in BOOLEAN
  /\ result \in {"pending", "some", "panic"}

(* p's answer lists, up to order, exactly the peer's entries whose item p does
   not have: none lost, repeated or invented.  (correctness_check in
   twosided.rs tests only that nothing is invented.) *)
ExactDifference(p) ==
  \E s \in Perms :
    /\ DOMAIN out[p] = {i \in Idx : input[Peer(p)][s[i]] \notin Range(input[p])}
    /\ \A i \in DOMAIN out[p] : out[p][i] = input[Peer(p)][s[i]]

(* Between honest parties every answer protocol returns is the exact
   difference, on both sides, whatever happens to the connection. *)
OutputExact ==
  Deviating = {} => \A p \in Party : pc[p] = "done" => ExactDifference(p)

(* Entry i of the points hashed into a digest stands for item x: unblinded by
   1/(8k), k the secret key of the public key hashed with them, it is x. *)
BindsTo(o, i, x) ==
  \E k \in Scalar \ {0} : /\ o.pk = Mul(k, Base)
                          /\ o.pts[i] \in Group
                          /\ x = recover_from_point(MulInv8(k, o.pts[i]))

(* Entry i stands for no item: under the neutral public key, which protocol does
   not refuse, the neutral point satisfies both proofs with every item. *)
Unbound(o, i) == o.pk = Neutral /\ o.pts[i] = Neutral

(* Each entry of an honest party's answer is, under one matching of the indices
   of round 4, an entry of the digest of round 1, whatever the peer sent later.
   Unless the digest has the neutral element both as public key and there, the
   item is the one the digest binds: reveal_items does not return an item chosen
   after round 1.  An entry comes twice only if the peer lists its index twice. *)
AnswersAreBound ==
  \A p \in Honest : pc[p] = "done" =>
    LET o == Got(p, 1).sigma
    IN \E s \in Perms : \A i \in DOMAIN out[p] :
         \/ BindsTo(o, s[Got(p, 4).ind[i]], out[p][i])
         \/ Unbound(o, s[Got(p, 4).ind[i]])

(* An honest party opens its points only to a peer already bound by its own
   digest, lends its key to the peer's points only after verify_sigma, and
   unblinds its own only after verify_shuffle_adapted. *)
CheckedBeforeSent ==
  \A p \in Honest :
    /\ Len(sent[p]) >= 2 => got[p] >= 1
    /\ Len(sent[p]) >= 3 => got[p] >= 2 /\ verify_sigma(p)
    /\ Len(sent[p]) >= 4 => got[p] >= 3 /\ verify_shuffle_adapted(p)

(* The two threads never have messages in flight both ways: protocol's
   write-read / read-write order is what makes blocking writes safe. *)
HalfDuplex ==
  (Len(sent["L"]) - got["R"]) + (Len(sent["R"]) - got["L"]) <= 1

(* With honest parties and a sound connection no check of protocol fails and
   nothing panics: each of the verifications accepts what the code sends. *)
NoFalseAlarm ==
  Deviating = {} /\ up =>
    /\ \A p \in Party : pc[p] \notin {"none", "panic", "killed"}
    /\ result # "panic"

(* malicious_psu2 gives its caller a value only if the server's protocol ran to
   its end too, even when the connection is reset between their last steps. *)
SomeMeansBoth ==
  Deviating = {} /\ result = "some" => \A p \in Party : pc[p] = "done"

(* Honest parties finish and malicious_psu2 returns Some unless the connection
   is reset, even if no message ever fits the socket buffers; it returns or
   panics in any case, once no thread runs any more. *)
HonestRunSucceeds ==
  /\ []up => <>(result = "some")
  /\ <>(result # "pending" /\ \A p \in Party : Ended(p))

(* No thread is left waiting: after any failure or deviation, as long as the
   peer's thread keeps running, every thread ends. *)
EveryThreadEnds == <>(\A p \in Party : Ended(p))

(* The refinement mapping to the ideal functionality: a party is committed when
   its digest has been read, to every item if an entry of it stands for none;
   only honest parties' answers are mapped. *)
setM == [p \in Party |-> Range(input[p])]
BoundItems(o) ==
  {recover_from_point(MulInv8(k, P)) :
     k \in {k \in Scalar \ {0} : o.pk = Mul(k, Base)}, P \in Range(o.pts) \cap Group}
CommittedItems(o) == IF \E i \in Idx : Unbound(o, i) THEN Item ELSE BoundItems(o)
committedM ==
  [p \in Party |-> IF got[Peer(p)] >= 1 /\ Got(Peer(p), 1).tag = 1
                    THEN {CommittedItems(Got(Peer(p), 1).sigma)} ELSE {}]
answerM ==
  [p \in Party |->
     IF p \in Honest /\ pc[p] = "done" THEN <<"answer", Range(out[p])>>
     ELSE IF p \in Honest /\ Ended(p) THEN <<"abort", {}>>
     ELSE <<"pending", {}>>]

Ideal == INSTANCE PSU WITH set <- setM, committed <- committedM, answer <- answerM,
                           Size <- N

(* The protocol implements the ideal set union: commitments before answers,
   answers that depend on the committed sets only, and no commitment to more than
   N items that is not visibly one to all: that needs the neutral public key. *)
ImplementsPSU == Ideal!IdealSpec
=============================================================================
