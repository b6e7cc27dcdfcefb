--------------------------- MODULE TwoSidedProofs ---------------------------
(***************************************************************************)
(* Proofs about TwoSided, for every curve satisfying the laws of Curve and   *)
(* every number of items N >= 2, set of inputs, set of deviating parties and *)
(* set of messages they may send.                                           *)
(***************************************************************************)
EXTENDS TwoSidedInv, FunctionTheorems, TLAPS

(* The inverse kept by random_permutation is a permutation too. *)
LEMMA PiInvPerm ==
  ASSUME TypeOK, NEW p \in Party
  PROVE  /\ pi_inv(p) \in Perms
         /\ pi_inv(p) \in [Idx -> Idx]
         /\ \A i \in Idx : \E j \in Idx : pi_inv(p)[j] = i
<1>1. pi[p] \in Bijection(Idx, Idx)
  BY DEF TypeOK, Perms
<1>2. pi_inv(p) \in Bijection(Idx, Idx)
  BY <1>1, Fun_BijInverse DEF pi_inv
<1> QED
  BY <1>2, Fun_BijectionProperties, Fun_SurjectionProperties DEF Perms

-----------------------------------------------------------------------------
(* Algebra of blinding. *)

(* Blinded points of gen are equal only for equal items. *)
LEMMA BlindInjective ==
  ASSUME NEW k \in Key, NEW x \in Item, NEW y \in Item,
         MulClamped(k, hash_to_point(x)) = MulClamped(k, hash_to_point(y))
  PROVE  x = y
BY RecoverInvertsHash

(* final_response takes its own key off: what is left is the point under the
   other party's key alone. *)
LEMMA TakeKeyOff ==
  ASSUME NEW j \in Key, NEW k \in Key, NEW x \in Item
  PROVE  Mul(Inv(k), Mul(j, MulClamped(k, hash_to_point(x))))
           = MulClamped(j, hash_to_point(x))
<1>1. hash_to_point(x) \in Point
  BY CurveSets
<1>2. Mul(j, MulClamped(k, hash_to_point(x))) = Mul(k, MulClamped(j, hash_to_point(x)))
  BY <1>1, ClampedLaws
<1>3. MulClamped(j, hash_to_point(x)) \in Group
  BY <1>1, ClampedLaws
<1>4. j \in Scalar /\ k \in Scalar \ {0}
  BY CurveSets
<1> QED
  BY <1>2, <1>3, <1>4, GroupLaws

(* A point u that, raised to the peer's key k, is the peer's committed point y
   raised to p's key j, unblinds to the same value under j as y does under k. *)
LEMMA UnblindsToCommitted ==
  ASSUME NEW j \in Key, NEW k \in Scalar \ {0}, NEW u \in Group, NEW y \in Group,
         Mul(j, y) = Mul(k, u)
  PROVE  MulInv8(j, u) = MulInv8(k, y)
<1>0. j \in Scalar \ {0}
  BY CurveSets
<1>1. Inv(j) \in Scalar /\ Inv(k) \in Scalar /\ j \in Scalar /\ k \in Scalar
  BY <1>0, CurveSets
<1>2. u = Mul(Inv(k), Mul(j, y))
  BY GroupLaws
<1>3. Mul(j, y) \in Group
  BY <1>1, GroupLaws
<1>4. Mul(Inv(j), u) = Mul(Inv(k), Mul(Inv(j), Mul(j, y)))
  BY <1>1, <1>2, <1>3, GroupLaws
<1>5. Mul(Inv(j), Mul(j, y)) = y
  BY <1>0, GroupLaws
<1> QED
  BY <1>4, <1>5 DEF MulInv8

(* Under the neutral public key only a neutral point can be answered for: the
   key j of an honest party never makes another one neutral. *)
LEMMA OnlyNeutral ==
  ASSUME NEW j \in Key, NEW y \in Group, NEW u \in Group, Mul(j, y) = Mul(0, u)
  PROVE  y = Neutral
<1>1. j \in Scalar \ {0} /\ Inv(j) \in Scalar /\ 0 \in Scalar /\ Base \in Group
  BY CurveSets
<1>2. y = Mul(Inv(j), Neutral)
  BY <1>1, GroupLaws
<1>3. Mul(Inv(j), Mul(0, Base)) = Mul(0, Mul(Inv(j), Base)) /\ Mul(Inv(j), Base) \in Group
  BY <1>1, GroupLaws
<1> QED
  BY <1>2, <1>3, GroupLaws DEF Neutral

-----------------------------------------------------------------------------
(* Messages. *)

(* The points of gen are decodable group elements, and so is the public key. *)
LEMMA GenTyped ==
  ASSUME TypeOK, NEW p \in Party
  PROVE  /\ points(p) \in [Idx -> Group]
         /\ pk(p) \in Group
         /\ gen(p) \in Opening
<1>1. key[p] \in Key /\ key[p] \in Scalar
  BY CurveSets DEF TypeOK
<1>2. \A i \in Idx : input[p][i] \in Item
  BY TwoSidedAssumption DEF TypeOK
<1>3. points(p) \in [Idx -> Group]
  BY <1>1, <1>2, CurveSets, ClampedLaws DEF points
<1>4. pk(p) \in Group
  BY <1>1, CurveSets, GroupLaws DEF pk
<1> QED
  BY <1>3, <1>4 DEF gen, Opening, Enc

(* What a party writes in the round it is in is a well-formed message. *)
LEMMA MsgTyped ==
  ASSUME IInv, NEW p \in Party, pc[p] = "write"
  PROVE  Msg(p, round[p]) \in Message
<1>0. round[p] \in 1..4 /\ key[p] \in Key /\ key[p] \in Scalar /\ Inv(key[p]) \in Scalar
  BY CurveSets DEF IInv, TypeOK
<1>1. CASE round[p] = 1
  BY <1>1, GenTyped DEF IInv, Msg, Message
<1>2. CASE round[p] = 2
  BY <1>2, GenTyped DEF IInv, Msg, Message
<1>3. CASE round[p] = 3
  <2>0. Passed(p)
    BY DEF IInv
  <2>1. Got(p, 2).open.pts \in [Idx -> Group]
    BY <1>3, <2>0 DEF Passed
  <2>2. shuffled(p) \in [Idx -> Group]
    BY <2>1, <1>0, PiInvPerm, GroupLaws DEF IInv, shuffled
  <2> QED
    BY <2>2, <1>3 DEF Msg, Message, Enc
<1>4. CASE round[p] = 4
  <2>0. Passed(p)
    BY DEF IInv
  <2>1. Got(p, 3).pts \in [Idx -> Group]
    BY <1>4, <2>0 DEF Passed
  <2>2. unblinded(p) \in [Idx -> Group]
    BY <2>1, <1>0, GroupLaws DEF unblinded
  <2>3. ind(p) \in SUBSET Slot
    BY TwoSidedAssumption DEF ind, Idx, Slot
  <2>4. final_response(p) \in [ind(p) -> Enc]
    BY <2>2 DEF final_response, Enc, ind
  <2>5. final_response(p) \in ListsOf(Enc)
    BY <2>3, <2>4 DEF ListsOf
  <2>6. [i \in ind(p) |-> i] \in ListsOf(Slot)
    <3>1. [i \in ind(p) |-> i] \in [ind(p) -> Slot]
      BY <2>3
    <3> QED
      BY <2>3, <3>1 DEF ListsOf
  <2> QED
    BY <2>5, <2>6, <1>4 DEF Msg, Message
<1> QED
  BY <1>0, <1>1, <1>2, <1>3, <1>4

(* Neither stream is ever rewritten, and secrets are fixed. *)
LEMMA StreamsGrow ==
  ASSUME IInv, [Next]_vars
  PROVE  /\ UNCHANGED secrets
         /\ sent' \in [Party -> Seq(Message)]
         /\ \A p \in Party : /\ Len(sent[p]) <= Len(sent'[p])
                             /\ \A r \in 1..Len(sent[p]) : sent'[p][r] = sent[p][r]
<1>0. sent \in [Party -> Seq(Message)]
  BY DEF IInv, TypeOK
<1>1. ASSUME NEW p \in Party, Write(p)
      PROVE  /\ UNCHANGED secrets
             /\ sent' \in [Party -> Seq(Message)]
             /\ \A q \in Party : /\ Len(sent[q]) <= Len(sent'[q])
                                 /\ \A r \in 1..Len(sent[q]) : sent'[q][r] = sent[q][r]
  <2>1. PICK m \in Message : sent' = [sent EXCEPT ![p] = Append(@, m)]
    BY <1>1, MsgTyped, TwoSidedAssumption DEF Write
  <2>2. UNCHANGED secrets
    BY <1>1 DEF Write, secrets
  <2> QED
    BY <1>0, <2>1, <2>2
<1>2. CASE UNCHANGED <<input, key, pi, sent>>
  BY <1>0, <1>2 DEF secrets
<1> QED
  BY <1>1, <1>2 DEF Next, Step, vars, Open, Flush, WriteFails, Read, ReadFails,
     VerifySigma, FinalResponse, RevealItems, Quit, Join, Reset, Finished

(* What a party has read, and all it computes from it, stays as it was. *)
LEMMA ReadStable ==
  ASSUME IInv, [Next]_vars, NEW p \in Party
  PROVE  /\ \A r \in 1..got[p] : Got(p, r)' = Got(p, r)
         /\ points(p)' = points(p) /\ pi_inv(p)' = pi_inv(p) /\ key'[p] = key[p]
         /\ got[p] >= 2 => verify_sigma(p)' = verify_sigma(p)
         /\ got[p] >= 3 => verify_shuffle_adapted(p)' = verify_shuffle_adapted(p)
         /\ got[p] >= 4 => batched_ddh_verify(p)' = batched_ddh_verify(p)
         /\ \A r \in 1..4 : r <= got[p] + 1 => Msg(p, r)' = Msg(p, r)
<1>1. UNCHANGED <<input, key, pi>>
  BY StreamsGrow DEF secrets
<1>2. Peer(p) \in Party /\ got[p] \in 0..4 /\ got[p] <= Len(sent[Peer(p)])
  BY DEF IInv, TypeOK, Counts, Peer, Party
<1>3. \A r \in 1..got[p] : Got(p, r)' = Got(p, r)
  BY <1>2, StreamsGrow DEF Got
<1>4. points(p)' = points(p) /\ pi_inv(p)' = pi_inv(p) /\ gen(p)' = gen(p)
  BY <1>1 DEF points, pi_inv, gen, pk
<1>5. ASSUME got[p] >= 2
      PROVE  /\ Got(p, 1)' = Got(p, 1) /\ Got(p, 2)' = Got(p, 2)
             /\ shuffled(p)' = shuffled(p)
  <2>1. Got(p, 1)' = Got(p, 1) /\ Got(p, 2)' = Got(p, 2)
    BY <1>2, <1>3, <1>5
  <2> QED
    BY <1>1, <1>4, <2>1 DEF shuffled
<1>6. ASSUME got[p] >= 3
      PROVE  /\ Got(p, 3)' = Got(p, 3)
             /\ final_response(p)' = final_response(p)
             /\ ind(p)' = ind(p)
  <2>1. Got(p, 3)' = Got(p, 3) /\ Got(p, 2)' = Got(p, 2)
    BY <1>2, <1>3, <1>6
  <2> QED
    BY <1>1, <2>1 DEF final_response, unblinded, ind
<1>7. got[p] >= 2 => verify_sigma(p)' = verify_sigma(p)
  BY <1>5 DEF verify_sigma
<1>8. got[p] >= 3 => verify_shuffle_adapted(p)' = verify_shuffle_adapted(p)
  BY <1>2, <1>4, <1>5, <1>6 DEF verify_shuffle_adapted, ShuffleHolds
<1>9. got[p] >= 4 => batched_ddh_verify(p)' = batched_ddh_verify(p)
  <2>1. SUFFICES ASSUME got[p] >= 4
                 PROVE  batched_ddh_verify(p)' = batched_ddh_verify(p)
    OBVIOUS
  <2>2. Got(p, 4)' = Got(p, 4)
    BY <1>2, <1>3, <2>1
  <2> QED
    BY <1>2, <1>5, <2>1, <2>2 DEF batched_ddh_verify, DDHHolds
<1>10. \A r \in 1..4 : r <= got[p] + 1 => Msg(p, r)' = Msg(p, r)
  <2>1. Msg(p, 1)' = Msg(p, 1) /\ Msg(p, 2)' = Msg(p, 2)
    BY <1>4 DEF Msg
  <2>2. ASSUME got[p] >= 2 PROVE Msg(p, 3)' = Msg(p, 3)
    <3>1. shuffled(p)' = shuffled(p)
      BY <1>5, <2>2
    <3> QED
      BY <3>1 DEF Msg
  <2>3. ASSUME got[p] >= 3 PROVE Msg(p, 4)' = Msg(p, 4)
    <3>1. final_response(p)' = final_response(p) /\ ind(p)' = ind(p)
      BY <1>6, <2>3
    <3> QED
      BY <3>1 DEF Msg
  <2> QED
    BY <1>2, <2>1, <2>2, <2>3
<1> QED
  BY <1>1, <1>3, <1>4, <1>7, <1>8, <1>9, <1>10

-----------------------------------------------------------------------------
(* Steps preserve the invariant, part by part. *)

(* Every step keeps the number of messages each thread of protocol has written
   and read in line with its place in the code. *)
LEMMA CountsStep ==
  ASSUME IInv, [Next]_vars
  PROVE  \A q \in Party : Counts(q)'
<1>0. /\ pc \in [Party -> {"open", "write", "flush", "read", "check"} \cup Over]
      /\ round \in [Party -> 1..4]
      /\ sent \in [Party -> Seq(Message)]
      /\ got \in [Party -> 0..4]
      /\ \A q \in Party : Counts(q)
  BY DEF IInv, TypeOK
<1> USE DEF Party, Peer, Server, Over
<1>1. ASSUME NEW p \in Party, Open(p) PROVE \A q \in Party : Counts(q)'
  BY <1>0, <1>1 DEF Open, FirstIO, Counts
<1>2. ASSUME NEW p \in Party, Write(p) PROVE \A q \in Party : Counts(q)'
  <2>1. PICK m \in Message : sent' = [sent EXCEPT ![p] = Append(@, m)]
    BY <1>2, MsgTyped, TwoSidedAssumption DEF Write
  <2>2. Len(sent'[p]) = Len(sent[p]) + 1 /\ sent'[Peer(p)] = sent[Peer(p)]
    BY <1>0, <2>1
  <2>3. /\ pc[p] = "write" /\ pc' = [pc EXCEPT ![p] = "flush"]
        /\ round' = round /\ got' = got
    BY <1>2 DEF Write
  <2>4. Counts(p)'
    BY <1>0, <2>2, <2>3 DEF Counts
  <2>5. Counts(Peer(p))'
    BY <1>0, <2>2, <2>3 DEF Counts
  <2> QED
    BY <2>4, <2>5
<1>3. ASSUME NEW p \in Party, Flush(p) PROVE \A q \in Party : Counts(q)'
  BY <1>0, <1>3 DEF Flush, EndOfRound, NextRound, FirstIO, Counts
<1>4. ASSUME NEW p \in Party, Panic(p), UNCHANGED <<round, sent, got>>
      PROVE  \A q \in Party : Counts(q)'
  BY <1>0, <1>4 DEF Panic, Ended, Counts
<1>5. ASSUME NEW p \in Party, ReturnNone(p), UNCHANGED <<round, sent, got>>
      PROVE  \A q \in Party : Counts(q)'
  BY <1>0, <1>4, <1>5 DEF ReturnNone, Counts
<1>6. ASSUME NEW p \in Party, Read(p) PROVE \A q \in Party : Counts(q)'
  <2>1. CASE ReturnNone(p) /\ UNCHANGED round
    BY <1>0, <1>6, <2>1 DEF Read, ReturnNone, Panic, Ended, Counts
  <2>2. CASE ~(ReturnNone(p) /\ UNCHANGED round)
    BY <1>0, <1>6, <2>2 DEF Read, EndOfRound, NextRound, FirstIO, Counts
  <2> QED
    BY <2>1, <2>2
<1>7. ASSUME NEW p \in Party, pc[p] = "check", round[p] \in {2, 3}, NextRound(p),
             UNCHANGED <<sent, got>>
      PROVE  \A q \in Party : Counts(q)'
  BY <1>0, <1>7 DEF NextRound, FirstIO, Counts
<1>8. ASSUME NEW p \in Party, VerifySigma(p) PROVE \A q \in Party : Counts(q)'
  BY <1>4, <1>5, <1>7, <1>8 DEF VerifySigma
<1>9. ASSUME NEW p \in Party, FinalResponse(p) PROVE \A q \in Party : Counts(q)'
  BY <1>4, <1>5, <1>7, <1>9 DEF FinalResponse
<1>10. ASSUME NEW p \in Party, RevealItems(p) PROVE \A q \in Party : Counts(q)'
  <2>1. CASE Panic(p)
    BY <1>4, <1>10, <2>1 DEF RevealItems
  <2>2. CASE pc' = [pc EXCEPT ![p] = "done"]
    BY <1>0, <1>10, <2>2 DEF RevealItems, Counts
  <2> QED
    BY <1>10, <2>1, <2>2 DEF RevealItems
<1>11. ASSUME NEW p \in Party, WriteFails(p) \/ ReadFails(p) \/ Quit(p)
       PROVE  \A q \in Party : Counts(q)'
  BY <1>4, <1>5, <1>11 DEF WriteFails, ReadFails, Quit
<1>12. CASE UNCHANGED <<pc, round, sent, got>>
  BY <1>0, <1>12 DEF Counts
<1> QED
  BY <1>1, <1>2, <1>3, <1>6, <1>8, <1>9, <1>10, <1>11, <1>12
  DEF Next, Step, Join, Reset, Finished, vars

(* The message of a round a party has acted on has that round's fields. *)
LEMMA GotTyped ==
  ASSUME IInv, NEW p \in Party, NEW r \in 1..got[p]
  PROVE  /\ Got(p, r) \in Message
         /\ Got(p, r).tag = 1 => Got(p, r).sigma \in Opening
         /\ Got(p, r).tag = 2 => Got(p, r).open \in Opening
         /\ Got(p, r).tag = 3 => Got(p, r).pts \in [Idx -> Enc]
         /\ Got(p, r).tag = 4 =>
              Got(p, r).ind \in ListsOf(Slot) /\ Got(p, r).unblinded \in ListsOf(Enc)
<1>1. sent[Peer(p)] \in Seq(Message) /\ r \in 1..Len(sent[Peer(p)])
  BY DEF IInv, TypeOK, Counts, Peer, Party
<1>2. Got(p, r) \in Message
  BY <1>1 DEF Got
<1> QED
  BY <1>2 DEF Message

(* A decodable answer whose indices are in range unblinds to items. *)
LEMMA AnswerTyped ==
  ASSUME IInv, NEW p \in Party, pc[p] = "check", round[p] = 4,
         DOMAIN Got(p, 4).ind \subseteq DOMAIN Got(p, 4).unblinded,
         \A i \in DOMAIN Got(p, 4).ind : Got(p, 4).unblinded[i] # Undecodable
  PROVE  /\ DOMAIN Got(p, 4).ind \subseteq Slot
         /\ \A i \in DOMAIN Got(p, 4).ind :
              /\ Got(p, 4).unblinded[i] \in Group
              /\ recover_from_point(MulInv8(key[p], Got(p, 4).unblinded[i])) \in Item
<1>1. got[p] = 4 /\ Got(p, 4).tag = 4
  BY DEF IInv, Counts, Tags, HasRead
<1>2. PICK I \in SUBSET Slot : Got(p, 4).unblinded \in [I -> Enc]
  BY <1>1, GotTyped DEF ListsOf
<1>3. \A i \in DOMAIN Got(p, 4).ind : Got(p, 4).unblinded[i] \in Group
  BY <1>2 DEF Enc
<1>4. key[p] \in Key /\ Inv(key[p]) \in Scalar /\ Eighth \in Scalar
  BY CurveSets DEF IInv, TypeOK
<1>5. \A P \in Group : recover_from_point(MulInv8(key[p], P)) \in Item
  BY <1>4, CurveSets, GroupLaws DEF MulInv8
<1> QED
  BY <1>2, <1>3, <1>5

(* Every step of the two threads keeps the variables in their types: what is
   written is a message of the enum, what is recovered are items. *)
LEMMA TypeStep ==
  ASSUME IInv, [Next]_vars
  PROVE  TypeOK'
<1>0. TypeOK /\ \A q \in Party : Counts(q)
  BY DEF IInv
<1>1. /\ input' = input /\ key' = key /\ pi' = pi
      /\ sent' \in [Party -> Seq(Message)]
  BY StreamsGrow DEF secrets
<1> USE DEF Party, Peer, Server, Over
<1> DEFINE PC == {"open", "write", "flush", "read", "check"} \cup Over
           Rest == /\ pc' \in [Party -> PC]
                   /\ round' \in [Party -> 1..4]
                   /\ got' \in [Party -> 0..4]
                   /\ out' \in [Party -> ListsOf(Item)]
                   /\ up' \in BOOLEAN
                   /\ result' \in {"pending", "some", "panic"}
<1> SUFFICES Rest
  BY <1>0, <1>1 DEF TypeOK
<1>2. ASSUME NEW p \in Party, Panic(p) \/ ReturnNone(p)
      PROVE  pc' \in [Party -> PC] /\ result' \in {"pending", "some", "panic"}
  BY <1>0, <1>2 DEF TypeOK, Panic, ReturnNone
<1>3. ASSUME NEW p \in Party, NextRound(p), round[p] <= 3
      PROVE  pc' \in [Party -> PC] /\ round' \in [Party -> 1..4]
  BY <1>0, <1>3 DEF TypeOK, NextRound, FirstIO
<1>4. ASSUME NEW p \in Party, EndOfRound(p)
      PROVE  pc' \in [Party -> PC] /\ round' \in [Party -> 1..4]
  BY <1>0, <1>3, <1>4 DEF TypeOK, EndOfRound
<1>5. ASSUME NEW p \in Party, Open(p) \/ Write(p) PROVE Rest
  BY <1>0, <1>5 DEF TypeOK, Open, Write, FirstIO
<1>6. ASSUME NEW p \in Party, Flush(p) PROVE Rest
  BY <1>0, <1>4, <1>6 DEF TypeOK, Flush
<1>7. ASSUME NEW p \in Party, WriteFails(p) \/ ReadFails(p) \/ Quit(p) PROVE Rest
  BY <1>0, <1>2, <1>7 DEF TypeOK, WriteFails, ReadFails, Quit
<1>8. ASSUME NEW p \in Party, Read(p) PROVE Rest
  <2>1. got[p] \in 0..3
    BY <1>0, <1>8 DEF Read, Counts, TypeOK
  <2>2. got' \in [Party -> 0..4]
    BY <1>0, <1>8, <2>1 DEF Read, TypeOK
  <2>3. CASE ReturnNone(p) /\ UNCHANGED round
    BY <1>0, <1>2, <1>8, <2>2, <2>3 DEF Read, TypeOK
  <2>4. CASE EndOfRound(p) /\ UNCHANGED result
    BY <1>0, <1>4, <1>8, <2>2, <2>4 DEF Read, TypeOK
  <2>5. CASE pc' = [pc EXCEPT ![p] = "write"] /\ UNCHANGED <<round, result>>
    BY <1>0, <1>8, <2>2, <2>5 DEF Read, TypeOK
  <2> QED
    BY <1>8, <2>3, <2>4, <2>5 DEF Read
<1>9. ASSUME NEW p \in Party, VerifySigma(p) PROVE Rest
  BY <1>0, <1>2, <1>3, <1>9 DEF TypeOK, VerifySigma
<1>10. ASSUME NEW p \in Party, FinalResponse(p) PROVE Rest
  BY <1>0, <1>2, <1>3, <1>10 DEF TypeOK, FinalResponse
<1>11. ASSUME NEW p \in Party, RevealItems(p) PROVE Rest
  <2> DEFINE js == Got(p, 4).ind
             us == Got(p, 4).unblinded
             ans == [i \in DOMAIN js |-> recover_from_point(MulInv8(key[p], us[i]))]
  <2>1. CASE Panic(p) /\ UNCHANGED out
    BY <1>0, <1>2, <1>11, <2>1 DEF TypeOK, RevealItems
  <2>2. CASE ~(Panic(p) /\ UNCHANGED out)
    <3>1. /\ pc[p] = "check" /\ round[p] = 4
          /\ DOMAIN js \subseteq DOMAIN us /\ \A i \in DOMAIN js : us[i] # Undecodable
          /\ out' = [out EXCEPT ![p] = ans]
          /\ pc' = [pc EXCEPT ![p] = "done"]
          /\ UNCHANGED <<round, got, up, result>>
      BY <1>11, <2>2 DEF RevealItems
    <3>2. DOMAIN js \in SUBSET Slot /\ ans \in [DOMAIN js -> Item]
      BY <3>1, AnswerTyped
    <3>3. ans \in ListsOf(Item)
      BY <3>2 DEF ListsOf
    <3> HIDE DEF ans, us, js
    <3> QED
      BY <1>0, <3>1, <3>3 DEF TypeOK
  <2> QED
    BY <2>1, <2>2
<1>12. CASE Join \/ Reset \/ Finished \/ UNCHANGED vars
  BY <1>0, <1>12 DEF TypeOK, Join, Reset, Finished, vars
<1> HIDE DEF Rest
<1> QED
  BY <1>5, <1>6, <1>7, <1>8, <1>9, <1>10, <1>11, <1>12 DEF Next, Step

(* got never decreases. *)
LEMMA GotGrows ==
  ASSUME IInv, [Next]_vars, NEW q \in Party
  PROVE  got'[q] >= got[q]
<1>1. got \in [Party -> 0..4]
  BY DEF IInv, TypeOK
<1> QED
  BY <1>1 DEF Next, Step, vars, Open, Write, Flush, WriteFails, Read, ReadFails,
     VerifySigma, FinalResponse, RevealItems, Quit, Join, Reset, Finished

(* A thread that stays in its round and reads nothing keeps its tags ... *)
LEMMA TagsKept ==
  ASSUME IInv, [Next]_vars, NEW q \in Party,
         round'[q] = round[q], HasRead(q)' => HasRead(q)
  PROVE  Tags(q)'
<1>1. Tags(q) /\ round[q] \in 1..4 /\ got[q] \in 0..4 /\ got'[q] \in 0..4
  BY TypeStep DEF IInv, TypeOK
<1>2. \A r \in 1..got[q] : Got(q, r)' = Got(q, r)
  BY ReadStable
<1> QED
  BY <1>1, <1>2, GotGrows DEF Tags

(* ... and one that has just read its round's message, or leaves the round
   having read it, has one tag more. *)
LEMMA TagsMore ==
  ASSUME IInv, [Next]_vars, NEW q \in Party,
         NEW n \in 1..4, n = round[q], n <= got'[q], Got(q, n)'.tag = n,
         \/ round'[q] = round[q]
         \/ round'[q] = round[q] + 1 /\ ~HasRead(q)'
  PROVE  Tags(q)'
<1>1. Tags(q) /\ round[q] \in 1..4 /\ got[q] \in 0..4 /\ got'[q] \in 0..4
  BY TypeStep DEF IInv, TypeOK
<1>2. \A r \in 1..got[q] : Got(q, r)' = Got(q, r)
  BY ReadStable
<1>3. \A r \in 1..4 : r < round[q] => r <= got'[q] /\ Got(q, r)'.tag = r
  BY <1>1, <1>2, GotGrows DEF Tags
<1> QED
  BY <1>1, <1>3 DEF Tags

(* Every step keeps the tags right: protocol goes on only with a message of its
   round. *)
LEMMA TagsStep ==
  ASSUME IInv, [Next]_vars
  PROVE  \A q \in Party : Tags(q)'
<1>0. /\ pc \in [Party -> {"open", "write", "flush", "read", "check"} \cup Over]
      /\ round \in [Party -> 1..4] /\ got \in [Party -> 0..4]
      /\ \A q \in Party : Counts(q) /\ Tags(q)
  BY DEF IInv, TypeOK
<1> USE DEF Party, Server
<1>1. ASSUME NEW p \in Party, NEW q \in Party, p # q,
             pc'[q] = pc[q] \/ pc'[q] = "killed", round'[q] = round[q]
      PROVE  Tags(q)'
  BY <1>1, TagsKept DEF HasRead
<1>2. ASSUME NEW p \in Party, Panic(p), UNCHANGED round
      PROVE  \A q \in Party : Tags(q)'
  BY <1>0, <1>2, TagsKept DEF Panic, HasRead
<1>3. ASSUME NEW p \in Party, ReturnNone(p), UNCHANGED round
      PROVE  \A q \in Party : Tags(q)'
  BY <1>0, <1>2, <1>3, TagsKept DEF ReturnNone, HasRead
<1>4. ASSUME NEW p \in Party, Open(p) \/ Write(p)
      PROVE  \A q \in Party : Tags(q)'
  BY <1>0, <1>4, TagsKept DEF Open, Write, FirstIO, HasRead
<1>5. ASSUME NEW p \in Party, HasRead(p), NextRound(p)
      PROVE  \A q \in Party : Tags(q)'
  <2>1. PICK n \in 1..4 : n = round[p]
    BY <1>0
  <2>3. n <= got'[p] /\ Got(p, n)'.tag = n
    BY <1>0, <1>5, <2>1, ReadStable, GotGrows, TypeStep DEF Tags, TypeOK
  <2>2. Tags(p)'
    BY <1>0, <1>5, <2>1, <2>3, TagsMore DEF NextRound, FirstIO, HasRead
  <2> QED
    BY <1>0, <1>1, <1>5, <2>2 DEF NextRound
<1>6. ASSUME NEW p \in Party, Flush(p) PROVE \A q \in Party : Tags(q)'
  <2>1. CASE NextRound(p) /\ p # Server
    BY <1>5, <1>6, <2>1 DEF Flush, HasRead
  <2>2. CASE UNCHANGED round
    BY <1>0, <1>6, <2>2, TagsKept DEF Flush, EndOfRound, NextRound, HasRead
  <2> QED
    BY <1>6, <2>1, <2>2 DEF Flush, EndOfRound
<1>7. ASSUME NEW p \in Party, Read(p) PROVE \A q \in Party : Tags(q)'
  <2>1. CASE ReturnNone(p) /\ UNCHANGED round
    BY <1>3, <2>1
  <2>2. CASE ~(ReturnNone(p) /\ UNCHANGED round)
    <3>1. /\ pc[p] = "read" /\ got' = [got EXCEPT ![p] = @ + 1]
          /\ Got(p, got[p] + 1).tag = round[p] /\ sent' = sent
          /\ EndOfRound(p) \/ (p # Server /\ pc' = [pc EXCEPT ![p] = "write"] /\ UNCHANGED round)
          /\ p # Server \/ EndOfRound(p)
      BY <1>7, <2>2 DEF Read
    <3>2. got[p] = round[p] - 1
      BY <1>0, <3>1 DEF Counts
    <3> PICK n \in 1..4 : n = round[p]
      BY <1>0
    <3>3. n <= got'[p] /\ Got(p, n)'.tag = n
      BY <1>0, <3>1, <3>2 DEF Got
    <3>4. \/ round'[p] = round[p]
          \/ round'[p] = round[p] + 1 /\ ~HasRead(p)'
      BY <1>0, <3>1 DEF EndOfRound, NextRound, FirstIO, HasRead
    <3>5. Tags(p)'
      BY <3>3, <3>4, TagsMore
    <3>6. \A q \in Party : q # p => pc'[q] = pc[q] /\ round'[q] = round[q]
      BY <1>0, <3>1 DEF EndOfRound, NextRound
    <3> QED
      BY <1>1, <3>5, <3>6
  <2> QED
    BY <2>1, <2>2
<1>8. ASSUME NEW p \in Party, VerifySigma(p) \/ FinalResponse(p)
      PROVE  \A q \in Party : Tags(q)'
  <2>1. HasRead(p)
    BY <1>8 DEF VerifySigma, FinalResponse, HasRead
  <2> QED
    BY <1>2, <1>3, <1>5, <1>8, <2>1 DEF VerifySigma, FinalResponse
<1>9. ASSUME NEW p \in Party, RevealItems(p) PROVE \A q \in Party : Tags(q)'
  <2>1. CASE Panic(p)
    BY <1>2, <1>9, <2>1 DEF RevealItems
  <2>2. CASE pc' = [pc EXCEPT ![p] = "done"]
    BY <1>0, <1>9, <2>2, TagsKept DEF RevealItems, HasRead
  <2> QED
    BY <1>9, <2>1, <2>2 DEF RevealItems
<1>10. ASSUME NEW p \in Party, WriteFails(p) \/ ReadFails(p) \/ Quit(p)
       PROVE  \A q \in Party : Tags(q)'
  BY <1>2, <1>3, <1>10 DEF WriteFails, ReadFails, Quit
<1>11. CASE UNCHANGED <<pc, round>>
  BY <1>11, TagsKept DEF HasRead
<1> QED
  BY <1>4, <1>6, <1>7, <1>8, <1>9, <1>10, <1>11
  DEF Next, Step, Join, Reset, Finished, vars

(* A thread that stays in its round has passed the same checks. *)
LEMMA PassedKept ==
  ASSUME IInv, [Next]_vars, NEW q \in Party,
         round'[q] = round[q], pc'[q] = "done" => pc[q] = "done", out'[q] = out[q]
  PROVE  Passed(q)'
<1>0. /\ Passed(q) /\ round[q] \in 1..4 /\ got[q] \in 0..4
      /\ round[q] >= 3 => got[q] >= 2
      /\ round[q] >= 4 => got[q] >= 3
      /\ pc[q] = "done" => got[q] >= 4
  BY DEF IInv, TypeOK, Tags, Counts
<1>1. /\ got[q] >= 2 => Got(q, 2)' = Got(q, 2)
      /\ got[q] >= 3 => Got(q, 3)' = Got(q, 3)
      /\ got[q] >= 4 => Got(q, 4)' = Got(q, 4)
  BY <1>0, ReadStable
<1> QED
  BY <1>0, <1>1, ReadStable DEF Passed

(* Points that all decompress are group elements. *)
LEMMA Decoded ==
  ASSUME NEW f \in [Idx -> Enc], Undecodable \notin Range(f)
  PROVE  f \in [Idx -> Group]
BY DEF Enc, Range

(* Every step keeps the checks a thread has passed true: the messages they are
   about are never changed. *)
LEMMA PassedStep ==
  ASSUME IInv, [Next]_vars
  PROVE  \A q \in Party : Passed(q)'
<1>0. /\ pc \in [Party -> {"open", "write", "flush", "read", "check"} \cup Over]
      /\ round \in [Party -> 1..4] /\ got \in [Party -> 0..4]
      /\ out \in [Party -> ListsOf(Item)]
      /\ \A q \in Party : Counts(q) /\ Tags(q) /\ Passed(q)
  BY DEF IInv, TypeOK
<1>1. ASSUME NEW p \in Party, Panic(p) \/ ReturnNone(p), UNCHANGED <<round, out>>
      PROVE  \A q \in Party : Passed(q)'
  BY <1>0, <1>1, PassedKept DEF Panic, ReturnNone
<1>2. ASSUME NEW p \in Party, Open(p) \/ Write(p)
      PROVE  \A q \in Party : Passed(q)'
  BY <1>0, <1>2, PassedKept DEF Open, Write, FirstIO
<1>3. ASSUME NEW p \in Party, EndOfRound(p), UNCHANGED out
      PROVE  \A q \in Party : Passed(q)'
  <2>1. CASE UNCHANGED round
    BY <1>0, <1>3, <2>1, PassedKept DEF EndOfRound, NextRound, FirstIO
  <2>2. CASE round[p] = 1 /\ NextRound(p)
    <3>1. \A q \in Party : q # p => Passed(q)'
      BY <1>0, <1>3, <2>2, PassedKept DEF NextRound
    <3>2. round'[p] = 2 /\ pc'[p] # "done"
      BY <1>0, <2>2 DEF NextRound, FirstIO
    <3> QED
      BY <3>1, <3>2 DEF Passed
  <2> QED
    BY <1>3, <2>1, <2>2 DEF EndOfRound
<1>4. ASSUME NEW p \in Party, Flush(p) PROVE \A q \in Party : Passed(q)'
  <2>1. CASE pc' = [pc EXCEPT ![p] = "read"] /\ UNCHANGED round
    BY <1>0, <1>4, <2>1, PassedKept DEF Flush
  <2> QED
    BY <1>3, <1>4, <2>1 DEF Flush
<1>5. ASSUME NEW p \in Party, Read(p) PROVE \A q \in Party : Passed(q)'
  <2>1. CASE pc' = [pc EXCEPT ![p] = "write"] /\ UNCHANGED round
    BY <1>0, <1>5, <2>1, PassedKept DEF Read
  <2> QED
    BY <1>1, <1>3, <1>5, <2>1 DEF Read
<1>6. ASSUME NEW p \in Party, VerifySigma(p) PROVE \A q \in Party : Passed(q)'
  <2>1. CASE (Panic(p) \/ ReturnNone(p)) /\ UNCHANGED round
    BY <1>1, <1>6, <2>1 DEF VerifySigma
  <2>2. CASE ~((Panic(p) \/ ReturnNone(p)) /\ UNCHANGED round)
    <3>1. /\ pc[p] = "check" /\ round[p] = 2 /\ NextRound(p)
          /\ p \in Honest => verify_sigma(p)
          /\ Undecodable \notin Range(Got(p, 2).open.pts) /\ UNCHANGED out
      BY <1>6, <2>2 DEF VerifySigma, Honest
    <3>2. got[p] = 2 /\ Got(p, 2).tag = 2
      BY <1>0, <3>1 DEF Counts, Tags, HasRead
    <3>3. Got(p, 2).open \in Opening
      BY <3>2, GotTyped
    <3>4. Got(p, 2).open.pts \in [Idx -> Group]
      BY <3>1, <3>3, Decoded DEF Opening
    <3>5. verify_sigma(p)' = verify_sigma(p) /\ Got(p, 2)' = Got(p, 2)
      BY <3>1, <3>2, ReadStable
    <3>6. round'[p] = 3 /\ pc'[p] # "done"
      BY <1>0, <3>1 DEF NextRound, FirstIO
    <3>7. Passed(p)'
      BY <3>1, <3>4, <3>5, <3>6 DEF Passed
    <3>8. \A q \in Party : q # p => Passed(q)'
      BY <1>0, <3>1, PassedKept DEF NextRound
    <3> QED
      BY <3>7, <3>8
  <2> QED
    BY <2>1, <2>2
<1>7. ASSUME NEW p \in Party, FinalResponse(p) PROVE \A q \in Party : Passed(q)'
  <2>1. CASE (Panic(p) \/ ReturnNone(p)) /\ UNCHANGED round
    BY <1>1, <1>7, <2>1 DEF FinalResponse
  <2>2. CASE ~((Panic(p) \/ ReturnNone(p)) /\ UNCHANGED round)
    <3>1. /\ pc[p] = "check" /\ round[p] = 3 /\ NextRound(p)
          /\ p \in Honest => verify_shuffle_adapted(p)
          /\ Undecodable \notin Range(Got(p, 3).pts) /\ UNCHANGED out
      BY <1>7, <2>2 DEF FinalResponse, Honest
    <3>2. got[p] = 3 /\ Got(p, 3).tag = 3
      BY <1>0, <3>1 DEF Counts, Tags, HasRead
    <3>3. Got(p, 3).pts \in [Idx -> Group]
      BY <3>1, <3>2, GotTyped, Decoded
    <3>4. /\ verify_shuffle_adapted(p)' = verify_shuffle_adapted(p)
          /\ verify_sigma(p)' = verify_sigma(p)
          /\ Got(p, 3)' = Got(p, 3) /\ Got(p, 2)' = Got(p, 2)
      BY <3>1, <3>2, ReadStable
    <3>5. round'[p] = 4 /\ pc'[p] # "done"
      BY <1>0, <3>1 DEF NextRound, FirstIO
    <3>6. Passed(p)'
      BY <1>0, <3>1, <3>3, <3>4, <3>5 DEF Passed
    <3>7. \A q \in Party : q # p => Passed(q)'
      BY <1>0, <3>1, PassedKept DEF NextRound
    <3> QED
      BY <3>6, <3>7
  <2> QED
    BY <2>1, <2>2
<1>8. ASSUME NEW p \in Party, RevealItems(p) PROVE \A q \in Party : Passed(q)'
  <2>1. CASE Panic(p) /\ UNCHANGED out
    BY <1>1, <1>8, <2>1 DEF RevealItems
  <2>2. CASE ~(Panic(p) /\ UNCHANGED out)
    <3> DEFINE js == Got(p, 4).ind
               us == Got(p, 4).unblinded
               ans == [i \in DOMAIN js |-> recover_from_point(MulInv8(key[p], us[i]))]
    <3>1. /\ pc[p] = "check" /\ round[p] = 4 /\ batched_ddh_verify(p)
          /\ DOMAIN js \subseteq DOMAIN us /\ \A i \in DOMAIN js : us[i] # Undecodable
          /\ Range(js) \subseteq Idx
          /\ out' = [out EXCEPT ![p] = ans] /\ pc' = [pc EXCEPT ![p] = "done"]
          /\ round' = round
      BY <1>8, <2>2 DEF RevealItems
    <3>2. got[p] = 4
      BY <1>0, <3>1 DEF Counts
    <3>3. \A i \in DOMAIN js : js[i] \in Idx /\ us[i] \in Group
      BY <3>1, AnswerTyped DEF Range
    <3>4. /\ Got(p, 4)' = Got(p, 4) /\ Got(p, 3)' = Got(p, 3) /\ Got(p, 2)' = Got(p, 2)
          /\ batched_ddh_verify(p)' /\ key'[p] = key[p]
          /\ verify_sigma(p)' = verify_sigma(p)
          /\ verify_shuffle_adapted(p)' = verify_shuffle_adapted(p)
      BY <3>1, <3>2, ReadStable
    <3>5. out'[p] = ans /\ round'[p] = 4
      BY <1>0, <3>1
    <3>6. Passed(p)'
      BY <1>0, <3>1, <3>3, <3>4, <3>5 DEF Passed
    <3>7. \A q \in Party : q # p => Passed(q)'
      BY <1>0, <3>1, PassedKept
    <3> QED
      BY <3>6, <3>7
  <2> QED
    BY <2>1, <2>2
<1>9. ASSUME NEW p \in Party, WriteFails(p) \/ ReadFails(p) \/ Quit(p)
      PROVE  \A q \in Party : Passed(q)'
  BY <1>1, <1>9 DEF WriteFails, ReadFails, Quit
<1>10. CASE UNCHANGED <<pc, round, out>>
  BY <1>10, PassedKept
<1> QED
  BY <1>2, <1>4, <1>5, <1>6, <1>7, <1>8, <1>9, <1>10
  DEF Next, Step, Join, Reset, Finished, vars

(* How far the two threads can be apart. *)
LEMMA InStep ==
  ASSUME IInv, NEW p \in Party
  PROVE  /\ Peer(p) \in Party /\ Peer(Peer(p)) = p
         /\ got[p] \in 0..4 /\ Len(sent[p]) \in 0..4
         /\ got[p] <= Len(sent[Peer(p)])
         /\ Len(sent[p]) <= got[p] + 1
         /\ got[Peer(p)] >= got[p] - 1
<1>1. Peer(p) \in Party /\ Peer(Peer(p)) = p
  BY DEF Peer, Party
<1>2. \A q \in Party : /\ Counts(q) /\ sent[q] \in Seq(Message)
                       /\ got[q] \in 0..4 /\ round[q] \in 1..4
  BY DEF IInv, TypeOK
<1>3. ASSUME NEW q \in Party
      PROVE  /\ Len(sent[q]) <= got[q] + 1 /\ Len(sent[q]) \in 0..4
             /\ got[q] <= Len(sent[Peer(q)])
  <2>1. Counts(q) /\ Len(sent[q]) \in Nat /\ got[q] \in 0..4 /\ round[q] \in 1..4
    BY <1>2
  <2>2. /\ Len(sent[q]) <= round[q] /\ got[q] <= Len(sent[Peer(q)])
        /\ Len(sent[q]) <= IF q = Server THEN got[q] + 1 ELSE got[q]
    BY <2>1 DEF Counts
  <2>3. Len(sent[q]) <= got[q] + 1
    BY <2>1, <2>2
  <2>4. Len(sent[q]) \in 0..4
    <3> DEFINE w == Len(sent[q])
    <3>1. w \in Nat /\ w <= round[q] /\ round[q] \in 1..4
      BY <2>1, <2>2
    <3> HIDE DEF w
    <3>2. w \in 0..4
      BY <3>1
    <3> QED
      BY <3>2 DEF w
  <2> QED
    BY <2>2, <2>3, <2>4
<1> QED
  BY <1>1, <1>2, <1>3

(* Every write of an honest party is the message its code computes, and stays
   so while its peer sends more. *)
LEMMA AsCodedStep ==
  ASSUME IInv, [Next]_vars
  PROVE  \A q \in Party : AsCoded(q)'
<1>0. /\ sent \in [Party -> Seq(Message)] /\ got \in [Party -> 0..4]
      /\ round \in [Party -> 1..4]
      /\ \A q \in Party : Counts(q) /\ AsCoded(q)
  BY DEF IInv, TypeOK
<1>1. \A q \in Party : Len(sent[q]) <= got[q] + 1 /\ Len(sent[q]) \in 0..4
  BY InStep
<1>2. \A q \in Party : q \in Honest =>
        \A r \in 1..Len(sent[q]) : sent'[q][r] = Msg(q, r)'
  <2> SUFFICES ASSUME NEW q \in Party, q \in Honest, NEW r \in 1..Len(sent[q])
               PROVE  sent'[q][r] = Msg(q, r)'
    OBVIOUS
  <2>0. Len(sent[q]) \in 0..4 /\ Len(sent[q]) <= got[q] + 1 /\ got[q] \in 0..4
    BY InStep
  <2>1. r \in 1..4 /\ r <= got[q] + 1
    <3> DEFINE w == Len(sent[q])
    <3>1. r \in 1..w /\ w \in 0..4 /\ w <= got[q] + 1 /\ got[q] \in 0..4
      BY <2>0
    <3> HIDE DEF w
    <3> QED
      BY <3>1
  <2>2. Msg(q, r)' = Msg(q, r)
    BY <2>1, ReadStable
  <2>3. sent'[q][r] = sent[q][r]
    BY StreamsGrow
  <2> QED
    BY <1>0, <2>2, <2>3 DEF AsCoded
<1>3. ASSUME NEW p \in Party, Write(p)
      PROVE  \A q \in Party : AsCoded(q)'
  <2> PICK n \in 1..4 : n = round[p]
    BY <1>0
  <2>1. PICK m \in Message : /\ sent' = [sent EXCEPT ![p] = Append(@, m)]
                             /\ p \in Honest => m = Msg(p, n)
    BY <1>3, MsgTyped, TwoSidedAssumption DEF Write, Honest
  <2>2. Len(sent[p]) = n - 1 /\ n <= got[p] + 1
    BY <1>0, <1>3 DEF Write, Counts
  <2>3. Msg(p, n)' = Msg(p, n)
    BY <2>2, ReadStable
  <2>4. Len(sent'[p]) = n /\ sent'[p][n] = m
    BY <1>0, <2>1, <2>2
  <2>5. AsCoded(p)'
    <3>1. SUFFICES ASSUME p \in Honest, NEW r \in 1..n
                   PROVE  sent'[p][r] = Msg(p, r)'
      BY <2>4 DEF AsCoded
    <3>2. CASE r = n
      BY <2>1, <2>3, <2>4, <3>1, <3>2
    <3>3. CASE r < n
      BY <1>2, <2>2, <3>1, <3>3
    <3> QED
      BY <3>2, <3>3
  <2>6. \A q \in Party : q # p => sent'[q] = sent[q]
    BY <1>0, <2>1
  <2> QED
    BY <1>2, <2>5, <2>6 DEF AsCoded
<1>4. CASE UNCHANGED sent
  BY <1>2, <1>4 DEF AsCoded
<1> QED
  BY <1>3, <1>4 DEF Next, Step, vars, Open, Flush, WriteFails, Read, ReadFails,
     VerifySigma, FinalResponse, RevealItems, Quit, Join, Reset, Finished

-----------------------------------------------------------------------------
(* Honest parties accept each other. *)

(* Between honest parties, what is read is what the peer's code computes. *)
LEMMA HonestGot ==
  ASSUME IInv, Deviating = {}, NEW p \in Party, NEW r \in 1..got[p]
  PROVE  Got(p, r) = Msg(Peer(p), r)
<1>1. Peer(p) \in Party /\ Peer(p) \in Honest
  BY DEF Peer, Party, Honest
<1>2. got[p] \in 0..4 /\ got[p] <= Len(sent[Peer(p)]) /\ sent[Peer(p)] \in Seq(Message)
  BY <1>1 DEF IInv, TypeOK, Counts
<1> QED
  BY <1>1, <1>2 DEF IInv, AsCoded, Got

(* verify_sigma accepts an honest peer's opening. *)
LEMMA SigmaAccepts ==
  ASSUME IInv, Deviating = {}, NEW p \in Party, got[p] >= 2
  PROVE  /\ verify_sigma(p)
         /\ Got(p, 2).open = gen(Peer(p))
         /\ Got(p, 2).open.pts = points(Peer(p))
         /\ Got(p, 2).open.pk = Mul(key[Peer(p)], Base)
         /\ Got(p, 2).open.pts \in [Idx -> Group]
<1>1. Got(p, 1) = Msg(Peer(p), 1) /\ Got(p, 2) = Msg(Peer(p), 2)
  BY HonestGot, InStep
<1>2. Got(p, 1).sigma = gen(Peer(p)) /\ Got(p, 2).open = gen(Peer(p))
  BY <1>1 DEF Msg
<1>3. Peer(p) \in Party
  BY DEF Peer, Party
<1> QED
  BY <1>2, <1>3, GenTyped DEF IInv, verify_sigma, gen, pk

(* shuffled(p) in terms of the peer's items. *)
LEMMA HonestShuffled ==
  ASSUME IInv, Deviating = {}, NEW p \in Party, got[p] >= 2, NEW i \in Idx
  PROVE  /\ shuffled(p)[i] = Mul(key[p], points(Peer(p))[pi_inv(p)[i]])
         /\ shuffled(p) \in [Idx -> Group]
<1>1. Got(p, 2).open.pts = points(Peer(p)) /\ points(Peer(p)) \in [Idx -> Group]
  BY SigmaAccepts
<1>2. pi_inv(p) \in [Idx -> Idx] /\ key[p] \in Scalar
  BY PiInvPerm, CurveSets DEF IInv, TypeOK
<1> QED
  BY <1>1, <1>2, GroupLaws DEF shuffled

(* verify_shuffle_adapted accepts an honest peer's shuffle: blind_shuffle
   uses the inverse of the permutation the statement is about. *)
LEMMA ShuffleAccepts ==
  ASSUME IInv, Deviating = {}, NEW p \in Party, got[p] >= 3
  PROVE  /\ verify_shuffle_adapted(p)
         /\ Got(p, 3).pts = shuffled(Peer(p))
         /\ Got(p, 3).pts \in [Idx -> Group]
         /\ got[Peer(p)] >= 2
<1> DEFINE q == Peer(p)
<1>0. q \in Party /\ Peer(q) = p /\ key[q] \in Scalar
  BY CurveSets DEF Peer, Party, IInv, TypeOK
<1>1. Got(p, 3) = Msg(q, 3)
  BY HonestGot, InStep
<1>2. Got(p, 3).pts = shuffled(q) /\ Got(p, 3).proof
  BY <1>1 DEF Msg
<1>3. got[q] >= 2
  BY InStep
<1>4. /\ \A i \in Idx : shuffled(q)[i] = Mul(key[q], points(p)[pi_inv(q)[i]])
      /\ shuffled(q) \in [Idx -> Group]
  <2>1. 1 \in Idx
    BY TwoSidedAssumption DEF Idx
  <2> QED
    BY <1>0, <1>3, <2>1, HonestShuffled
<1>5. Got(p, 2).open.pk = Mul(key[q], Base)
  BY SigmaAccepts, InStep
<1>6. pi_inv(q) \in Perms
  BY <1>0, PiInvPerm DEF IInv
<1>7. ShuffleHolds(Got(p, 2).open.pk, points(p), Got(p, 3).pts)
  BY <1>0, <1>2, <1>4, <1>5, <1>6 DEF ShuffleHolds
<1> QED
  BY <1>2, <1>3, <1>4, <1>7 DEF verify_shuffle_adapted

(* batched_ddh_verify accepts an honest peer's response, and its indices and
   points are usable. *)
LEMMA RevealAccepts ==
  ASSUME IInv, Deviating = {}, NEW p \in Party, got[p] >= 4
  PROVE  /\ batched_ddh_verify(p)
         /\ Got(p, 4).unblinded = final_response(Peer(p))
         /\ Got(p, 4).ind = [i \in ind(Peer(p)) |-> i]
         /\ DOMAIN Got(p, 4).ind \subseteq DOMAIN Got(p, 4).unblinded
         /\ Range(Got(p, 4).ind) \subseteq Idx
         /\ \A i \in DOMAIN Got(p, 4).ind : Got(p, 4).unblinded[i] # Undecodable
         /\ got[Peer(p)] >= 3
<1> DEFINE q == Peer(p)
<1>0. /\ q \in Party /\ Peer(q) = p /\ key[q] \in Scalar \ {0}
      /\ Inv(key[q]) \in Scalar
  BY CurveSets DEF Peer, Party, IInv, TypeOK
<1>1. Got(p, 4) = Msg(q, 4)
  BY HonestGot, InStep
<1>2. /\ Got(p, 4).unblinded = final_response(q) /\ Got(p, 4).proof
      /\ Got(p, 4).ind = [i \in ind(q) |-> i]
  BY <1>1 DEF Msg
<1>3. got[q] >= 3 /\ got[p] \in 0..4
  BY InStep
<1>4. Got(q, 3).pts = shuffled(p) /\ shuffled(p) \in [Idx -> Group]
  BY <1>0, <1>3, ShuffleAccepts
<1>5. \A i \in Idx : /\ unblinded(q)[i] \in Group
                     /\ shuffled(p)[i] = Mul(key[q], unblinded(q)[i])
  BY <1>0, <1>4, GroupLaws DEF unblinded
<1>6. /\ DOMAIN final_response(q) = ind(q) /\ ind(q) \subseteq Idx
      /\ \A i \in ind(q) : final_response(q)[i] = unblinded(q)[i]
  BY DEF final_response, ind
<1>7. Got(p, 2).open.pk = Mul(key[q], Base)
  BY <1>3, SigmaAccepts
<1>8. DDHHolds(Got(p, 2).open.pk, Got(p, 4).ind, Got(p, 4).unblinded, shuffled(p))
  BY <1>0, <1>2, <1>5, <1>6, <1>7 DEF DDHHolds
<1>9. \A i \in DOMAIN Got(p, 4).ind : Got(p, 4).unblinded[i] # Undecodable
  BY <1>2, <1>5, <1>6, TwoSidedAssumption, CurveSets
<1>10. /\ DOMAIN Got(p, 4).ind \subseteq DOMAIN Got(p, 4).unblinded
       /\ Range(Got(p, 4).ind) \subseteq Idx
  BY <1>2, <1>6 DEF Range
<1> QED
  BY <1>2, <1>3, <1>8, <1>9, <1>10 DEF batched_ddh_verify

(* The message protocol writes in round r has the tag of round r. *)
LEMMA MsgTag == ASSUME NEW p, NEW r \in 1..4 PROVE Msg(p, r).tag = r
BY DEF Msg

(* With honest parties no check refuses, and no tag is wrong. *)
LEMMA NoRefusal ==
  ASSUME IInv, Deviating = {}, NEW p \in Party
  PROVE  /\ Read(p) => (\E w \in {"read", "write", "check"} : pc' = [pc EXCEPT ![p] = w])
                       /\ UNCHANGED result
         /\ VerifySigma(p) \/ FinalResponse(p) => NextRound(p) /\ UNCHANGED result
         /\ RevealItems(p) => pc' = [pc EXCEPT ![p] = "done"] /\ UNCHANGED result
<1>0. Counts(p) /\ got[p] \in 0..4 /\ round[p] \in 1..4
  BY DEF IInv, TypeOK
<1>1. ASSUME Read(p)
      PROVE  (\E w \in {"read", "write", "check"} : pc' = [pc EXCEPT ![p] = w])
             /\ UNCHANGED result
  <2>1. got[p] = round[p] - 1 /\ got[p] + 1 <= Len(sent[Peer(p)])
    BY <1>0, <1>1, InStep DEF Read, Counts
  <2>2. Peer(p) \in Honest /\ Peer(p) \in Party
    BY InStep DEF Honest
  <2>3. Got(p, round[p]) = Msg(Peer(p), round[p])
    <3> PICK n \in 1..4 : n = round[p]
      BY <1>0
    <3>1. AsCoded(Peer(p))
      BY <2>2 DEF IInv
    <3>2. n \in 1..Len(sent[Peer(p)])
      BY <1>0, <2>1, <2>2, InStep
    <3> QED
      BY <2>2, <3>1, <3>2 DEF AsCoded, Got
  <2>4. Got(p, got[p] + 1).tag = round[p]
    BY <1>0, <2>1, <2>3, MsgTag
  <2> QED
    BY <1>1, <2>4 DEF Read, EndOfRound, NextRound, FirstIO
<1>2. ASSUME VerifySigma(p) PROVE NextRound(p) /\ UNCHANGED result
  <2>1. got[p] >= 2
    BY <1>0, <1>2 DEF VerifySigma, Counts
  <2>2. verify_sigma(p) /\ Got(p, 2).open.pts \in [Idx -> Group]
    BY <2>1, SigmaAccepts
  <2>3. Undecodable \notin Range(Got(p, 2).open.pts)
    BY <2>2, TwoSidedAssumption, CurveSets DEF Range
  <2> QED
    BY <1>2, <2>2, <2>3 DEF VerifySigma
<1>3. ASSUME FinalResponse(p) PROVE NextRound(p) /\ UNCHANGED result
  <2>1. got[p] >= 3
    BY <1>0, <1>3 DEF FinalResponse, Counts
  <2>2. verify_shuffle_adapted(p) /\ Got(p, 3).pts \in [Idx -> Group]
    BY <2>1, ShuffleAccepts
  <2>3. Undecodable \notin Range(Got(p, 3).pts)
    BY <2>2, TwoSidedAssumption, CurveSets DEF Range
  <2> QED
    BY <1>3, <2>2, <2>3 DEF FinalResponse
<1>4. ASSUME RevealItems(p)
      PROVE  pc' = [pc EXCEPT ![p] = "done"] /\ UNCHANGED result
  <2>1. got[p] >= 4
    BY <1>0, <1>4 DEF RevealItems, Counts
  <2> QED
    BY <1>4, <2>1, RevealAccepts DEF RevealItems
<1> QED
  BY <1>1, <1>2, <1>3, <1>4

(* With honest parties a sound connection never fails: a thread is done only
   when its peer has nothing left to write or to read. *)
LEMMA NoFailure ==
  ASSUME IInv, Deviating = {}, up, NEW p \in Party
  PROVE  ~WriteFails(p) /\ ~ReadFails(p)
<1>1. /\ Peer(p) \in Party /\ pc[Peer(p)] \notin Failed
      /\ Counts(p) /\ Counts(Peer(p)) /\ Peer(Peer(p)) = p
  BY InStep DEF IInv, Fine
<1>2. /\ got[p] \in 0..4 /\ round[p] \in 1..4 /\ Len(sent[p]) \in 0..4
      /\ got[Peer(p)] \in 0..4 /\ Len(sent[Peer(p)]) \in 0..4
  BY <1>1, InStep DEF IInv, TypeOK
<1>3. SUFFICES ASSUME WriteFails(p) \/ ReadFails(p), Ended(Peer(p))
               PROVE  FALSE
  BY DEF WriteFails, ReadFails
<1>4. pc[Peer(p)] = "done"
  BY <1>1, <1>3 DEF Ended, Over, Failed
<1>5. got[Peer(p)] = 4 /\ Len(sent[Peer(p)]) = 4
  BY <1>1, <1>4 DEF Counts
<1> DEFINE w == Len(sent[p])
           v == Len(sent[Peer(p)])
           h == got[Peer(p)]
<1>6. w \in 0..4 /\ h <= w /\ h = 4 /\ v = 4
  BY <1>1, <1>2, <1>5, InStep
<1>7. /\ pc[p] = "write" => w = round[p] - 1
      /\ pc[p] = "read" => got[p] = round[p] - 1
  BY <1>1 DEF Counts
<1>8. \/ pc[p] = "write"
      \/ h < w
      \/ pc[p] = "read" /\ (got[p] = v \/ h < w)
  BY <1>3 DEF WriteFails, ReadFails
<1> HIDE DEF w, v, h
<1> QED
  BY <1>2, <1>6, <1>7, <1>8

(* A thread that has ended stays as it is. *)
LEMMA EndedStays ==
  ASSUME TypeOK, [Next]_vars, NEW q \in Party, Ended(q)
  PROVE  pc'[q] = pc[q]
<1>0. pc[q] \in Over /\ pc \in [Party -> {"open", "write", "flush", "read", "check"} \cup Over]
  BY DEF TypeOK, Ended
<1>1. ASSUME NEW p \in Party, ~Ended(p),
             \/ Panic(p) \/ ReturnNone(p) \/ NextRound(p) \/ EndOfRound(p)
             \/ \E w : pc' = [pc EXCEPT ![p] = w]
      PROVE  pc'[q] = pc[q]
  BY <1>0, <1>1 DEF Panic, ReturnNone, NextRound, EndOfRound
<1>2. ASSUME NEW p \in Party, Step(p) \/ Flush(p) \/ Quit(p)
      PROVE  pc'[q] = pc[q]
  <2>1. ~Ended(p)
    BY <1>2 DEF Step, Open, Write, Flush, WriteFails, Read, ReadFails,
       VerifySigma, FinalResponse, RevealItems, Quit, Ended, Over
  <2>2. \/ Panic(p) \/ ReturnNone(p) \/ NextRound(p) \/ EndOfRound(p)
        \/ \E w : pc' = [pc EXCEPT ![p] = w]
    BY <1>2 DEF Step, Open, Write, Flush, WriteFails, Read, ReadFails,
       VerifySigma, FinalResponse, RevealItems, Quit
  <2> QED
    BY <1>1, <2>1, <2>2
<1>3. CASE UNCHANGED pc
  BY <1>3
<1> QED
  BY <1>2, <1>3 DEF Next, Join, Reset, Finished, vars

(* Between honest parties no step fails unless the connection is reset, and
   malicious_psu2 returns a value only after both threads. *)
LEMMA FineStep ==
  ASSUME IInv, [Next]_vars
  PROVE  Fine'
<1>0. TypeOK /\ Fine
  BY DEF IInv
<1>1. ASSUME Deviating = {}, up',
             \A p \in Party : pc[p] \notin Failed, result # "panic", up
      PROVE  (\A p \in Party : pc'[p] \notin Failed) /\ result' # "panic"
  <2>1. ASSUME NEW p \in Party, Step(p) \/ Flush(p) \/ Quit(p)
        PROVE  (\A q \in Party : pc'[q] \notin Failed) /\ result' # "panic"
    <3>1. CASE Open(p) \/ Write(p) \/ Flush(p)
      BY <1>0, <1>1, <3>1 DEF TypeOK, Open, Write, Flush, EndOfRound, NextRound, FirstIO, Failed
    <3>2. CASE Read(p) \/ VerifySigma(p) \/ FinalResponse(p) \/ RevealItems(p)
      BY <1>0, <1>1, <3>2, NoRefusal DEF TypeOK, NextRound, FirstIO, Failed
    <3>3. ~WriteFails(p) /\ ~ReadFails(p) /\ ~Quit(p)
      BY <1>1, NoFailure DEF Quit
    <3> QED
      BY <2>1, <3>1, <3>2, <3>3 DEF Step
  <2>2. CASE Join \/ Reset \/ Finished \/ UNCHANGED vars
    BY <1>0, <1>1, <2>2 DEF Join, Reset, Finished, vars, Failed, Party
  <2> QED
    BY <2>1, <2>2 DEF Next
<1>2. up' => up
  BY <1>0 DEF TypeOK, Next, Step, vars, Open, Write, Flush, WriteFails, Read, ReadFails,
     VerifySigma, FinalResponse, RevealItems, Quit, Join, Reset, Finished
<1>3. ASSUME Deviating = {}, pc["R"] # "none"
      PROVE  pc'["R"] # "none"
  <2>1. ASSUME NEW p \in Party, Step(p) \/ Flush(p) \/ Quit(p)
        PROVE  pc'["R"] # "none"
    <3>1. CASE Open(p) \/ Write(p) \/ Flush(p)
      BY <1>0, <1>3, <3>1 DEF TypeOK, Open, Write, Flush, EndOfRound, NextRound, FirstIO, Party
    <3>2. CASE Read(p) \/ VerifySigma(p) \/ FinalResponse(p) \/ RevealItems(p)
      BY <1>0, <1>3, <3>2, NoRefusal DEF TypeOK, NextRound, FirstIO, Party
    <3>3. CASE WriteFails(p) \/ ReadFails(p)
      BY <1>0, <1>3, <3>3 DEF TypeOK, WriteFails, ReadFails, Panic, Party
    <3>4. ~Quit(p)
      BY <1>3 DEF Quit
    <3> QED
      BY <2>1, <3>1, <3>2, <3>3, <3>4 DEF Step
  <2>2. CASE UNCHANGED pc
    BY <1>3, <2>2
  <2> QED
    BY <2>1, <2>2 DEF Next, Join, Reset, Finished, vars
<1>4. ASSUME result' = "some"
      PROVE  pc'["L"] = "done" /\ pc'["R"] \in {"done", "none"}
  <2>1. CASE Join
    BY <1>0, <1>4, <2>1 DEF Join, Ended, Over, TypeOK, Party
  <2>2. CASE ~Join
    <3>1. result = "some"
      BY <1>4, <2>2 DEF Next, Step, vars, Open, Write, Flush, WriteFails, Read, ReadFails,
         VerifySigma, FinalResponse, RevealItems, Quit, Reset, Finished, Panic, ReturnNone
    <3>2. pc["L"] = "done" /\ pc["R"] \in {"done", "none"}
      BY <1>0, <3>1 DEF Fine
    <3> QED
      BY <1>0, <3>2, EndedStays DEF Ended, Over, Party
  <2> QED
    BY <2>1, <2>2
<1> QED
  BY <1>0, <1>1, <1>2, <1>3, <1>4 DEF Fine

-----------------------------------------------------------------------------
(* Two new parties that have sent nothing satisfy the invariant. *)
LEMMA InitIInv == Init => IInv
<1> SUFFICES ASSUME Init PROVE IInv
  OBVIOUS
<1>1. TypeOK
  <2>1. <<>> \in [{} -> Item] /\ {} \in SUBSET Slot
    OBVIOUS
  <2>2. <<>> \in ListsOf(Item)
    BY <2>1 DEF ListsOf
  <2>3. out \in [Party -> ListsOf(Item)]
    BY <2>2 DEF Init
  <2>4. sent \in [Party -> Seq(Message)]
    BY DEF Init
  <2>5. /\ pc \in [Party -> {"open", "write", "flush", "read", "check"} \cup Over]
        /\ round \in [Party -> 1..4] /\ got \in [Party -> 0..4]
        /\ up \in BOOLEAN /\ result \in {"pending", "some", "panic"}
    BY DEF Init
  <2>6. input \in [Party -> Inputs] /\ key \in [Party -> Key] /\ pi \in [Party -> Perms]
    BY DEF Init
  <2> QED
    BY <2>3, <2>4, <2>5, <2>6 DEF TypeOK
<1>2. ASSUME NEW p \in Party PROVE Counts(p) /\ Tags(p) /\ Passed(p) /\ AsCoded(p)
  <2>1. /\ pc[p] = "open" /\ round[p] = 1 /\ got[p] = 0 /\ Len(sent[p]) = 0
        /\ Len(sent[Peer(p)]) = 0
    BY DEF Init, Peer, Party
  <2>2. Counts(p)
    BY <2>1 DEF Counts
  <2>3. Tags(p)
    BY <2>1 DEF Tags, HasRead
  <2>4. Passed(p)
    BY <2>1 DEF Passed
  <2>5. AsCoded(p)
    BY <2>1 DEF AsCoded
  <2> QED
    BY <2>2, <2>3, <2>4, <2>5
<1>3. Fine
  BY DEF Init, Fine, Failed, Party
<1> QED
  BY <1>1, <1>2, <1>3 DEF IInv

(* Every step of malicious_psu2 preserves the invariant. *)
LEMMA NextIInv == IInv /\ [Next]_vars => IInv'
BY TypeStep, CountsStep, TagsStep, PassedStep, AsCodedStep, FineStep DEF IInv

(* Every state of the protocol, with any peer and any connection, satisfies the
   inductive invariant. *)
THEOREM Invariance == Spec => []IInv
BY InitIInv, NextIInv, PTL DEF Spec

(* The program counters, counts and messages of protocol are well typed: in
   particular both streams only ever carry well-formed messages. *)
THEOREM TypeCorrect == Spec => []TypeOK
<1>1. IInv => TypeOK
  BY DEF IInv
<1> QED
  BY <1>1, Invariance, PTL

(* At most one message is in flight, whatever a deviating peer sends: the
   blocking writes of protocol never face each other. *)
THEOREM NeverBothInFlight == Spec => []HalfDuplex
<1>1. IInv => HalfDuplex
  <2> SUFFICES ASSUME IInv PROVE HalfDuplex
    OBVIOUS
  <2>1. Counts("L") /\ Counts("R")
    BY DEF IInv, Party
  <2> DEFINE wl == Len(sent["L"])
             wr == Len(sent["R"])
  <2>2. wl <= got["L"] /\ wr <= got["R"] + 1
    BY <2>1 DEF Counts, Server
  <2>3. got["L"] \in 0..4 /\ got["R"] \in 0..4 /\ wl \in 0..4 /\ wr \in 0..4
    BY InStep DEF Party
  <2>4. SUFFICES (wl - got["R"]) + (wr - got["L"]) <= 1
    BY DEF HalfDuplex
  <2> HIDE DEF wl, wr
  <2> QED
    BY <2>2, <2>3
<1> QED
  BY <1>1, Invariance, PTL

(* Against any peer, an honest party opens its points, lends its key and
   unblinds only after the checks of protocol that come before. *)
THEOREM ChecksComeFirst == Spec => []CheckedBeforeSent
<1>1. IInv => CheckedBeforeSent
  <2> SUFFICES ASSUME IInv, NEW p \in Honest
               PROVE  /\ Len(sent[p]) >= 2 => got[p] >= 1
                      /\ Len(sent[p]) >= 3 => got[p] >= 2 /\ verify_sigma(p)
                      /\ Len(sent[p]) >= 4 => got[p] >= 3 /\ verify_shuffle_adapted(p)
    BY DEF CheckedBeforeSent
  <2>0. p \in Party
    BY DEF Honest
  <2> DEFINE w == Len(sent[p])
  <2>1. w \in 0..4 /\ w <= got[p] + 1 /\ got[p] \in 0..4
    BY <2>0, InStep
  <2>2. w <= round[p] /\ round[p] \in 1..4
    BY <2>0 DEF IInv, Counts, TypeOK
  <2>3. /\ round[p] >= 3 => verify_sigma(p)
        /\ round[p] >= 4 => verify_shuffle_adapted(p)
    BY <2>0 DEF IInv, Passed
  <2>4. SUFFICES /\ w >= 2 => got[p] >= 1
                 /\ w >= 3 => got[p] >= 2 /\ verify_sigma(p)
                 /\ w >= 4 => got[p] >= 3 /\ verify_shuffle_adapted(p)
    OBVIOUS
  <2> HIDE DEF w
  <2> QED
    BY <2>1, <2>2, <2>3
<1> QED
  BY <1>1, Invariance, PTL

(* Honest parties on a sound connection never refuse each other and never
   panic, for every input, key, permutation and interleaving. *)
THEOREM HonestPartiesAccept == Spec => []NoFalseAlarm
<1>1. IInv => NoFalseAlarm
  BY DEF IInv, Fine, NoFalseAlarm, Failed
<1> QED
  BY <1>1, Invariance, PTL

(* malicious_psu2 returns a value only when both protocols have completed. *)
THEOREM SomeOnlyFromBoth == Spec => []SomeMeansBoth
<1>1. IInv => SomeMeansBoth
  BY DEF IInv, Fine, SomeMeansBoth, Party
<1> QED
  BY <1>1, Invariance, PTL

(* State-level half of OnlyCommittedItems. *)
LEMMA AnswerIsBound ==
  ASSUME IInv, NEW p \in Honest, pc[p] = "done"
  PROVE  \E s \in Perms : \A i \in DOMAIN out[p] :
           \/ BindsTo(Got(p, 1).sigma, s[Got(p, 4).ind[i]], out[p][i])
           \/ Unbound(Got(p, 1).sigma, s[Got(p, 4).ind[i]])
<1> DEFINE js == Got(p, 4).ind
           us == Got(p, 4).unblinded
           ys == Got(p, 2).open.pts
           s == pi_inv(p)
<1>0. p \in Party
  BY DEF Honest
<1>1. key[p] \in Key /\ round[p] = 4 /\ Passed(p)
  BY <1>0 DEF IInv, TypeOK, Counts
<1>2. /\ verify_sigma(p) /\ ys \in [Idx -> Group] /\ batched_ddh_verify(p)
      /\ \A i \in DOMAIN js : js[i] \in Idx /\ us[i] \in Group
      /\ out[p] = [i \in DOMAIN js |-> recover_from_point(MulInv8(key[p], us[i]))]
  BY <1>1 DEF Passed
<1>3. s \in Perms /\ s \in [Idx -> Idx]
  BY <1>0, PiInvPerm DEF IInv
<1>4. PICK k \in Scalar : /\ Got(p, 2).open.pk = Mul(k, Base)
                          /\ \A i \in DOMAIN js : shuffled(p)[js[i]] = Mul(k, us[i])
  BY <1>2 DEF batched_ddh_verify, DDHHolds
<1>5. ASSUME NEW i \in DOMAIN js
      PROVE  BindsTo(Got(p, 2).open, s[js[i]], out[p][i]) \/ Unbound(Got(p, 2).open, s[js[i]])
  <2>1. /\ js[i] \in Idx /\ s[js[i]] \in Idx
        /\ ys[s[js[i]]] \in Group /\ us[i] \in Group
    BY <1>2, <1>3
  <2>2. Mul(key[p], ys[s[js[i]]]) = Mul(k, us[i])
    BY <1>4, <2>1 DEF shuffled
  <2>3. CASE k # 0
    <3>1. MulInv8(key[p], us[i]) = MulInv8(k, ys[s[js[i]]])
      BY <1>1, <2>1, <2>2, <2>3, UnblindsToCommitted
    <3>2. out[p][i] = recover_from_point(MulInv8(k, ys[s[js[i]]]))
      BY <1>2, <3>1
    <3> QED
      BY <1>4, <2>1, <2>3, <3>2 DEF BindsTo
  <2>4. CASE k = 0
    <3>1. ys[s[js[i]]] = Neutral
      BY <1>1, <2>1, <2>2, <2>4, OnlyNeutral
    <3> QED
      BY <1>4, <2>4, <3>1 DEF Unbound, Neutral
  <2> QED
    BY <2>3, <2>4
<1>6. Got(p, 1).sigma = Got(p, 2).open /\ DOMAIN out[p] = DOMAIN js
  BY <1>2 DEF verify_sigma
<1> QED
  BY <1>3, <1>5, <1>6

(* reveal_items returns only items the peer was bound to by its round-1 digest,
   whatever it sent afterwards, unless that digest is one of the neutral public
   key: then it may return any item, for the entries that are neutral too. *)
THEOREM OnlyCommittedItems == Spec => []AnswersAreBound
<1>1. IInv => AnswersAreBound
  BY AnswerIsBound DEF AnswersAreBound
<1> QED
  BY <1>1, Invariance, PTL

(* State-level half of AnswersAreExact. *)
LEMMA AnswerIsExact ==
  ASSUME IInv, Deviating = {}, NEW p \in Party, pc[p] = "done"
  PROVE  ExactDifference(p)
<1> DEFINE q == Peer(p)
           js == Got(p, 4).ind
           us == Got(p, 4).unblinded
           s == pi_inv(p)
           x(i) == input[q][s[i]]
<1>0. q \in Party /\ Peer(q) = p
  BY InStep
<1>1. /\ key[p] \in Key /\ key[q] \in Key /\ got[p] = 4 /\ Passed(p)
      /\ \A i \in Idx : input[p][i] \in Item /\ input[q][i] \in Item
      /\ DOMAIN input[p] = Idx
  BY <1>0, TwoSidedAssumption DEF IInv, TypeOK, Counts
<1>2. out[p] = [i \in DOMAIN js |-> recover_from_point(MulInv8(key[p], us[i]))]
  BY <1>1 DEF Passed
<1>3. s \in Perms /\ s \in [Idx -> Idx]
  BY PiInvPerm DEF IInv
<1>4. us = final_response(q) /\ DOMAIN js = ind(q) /\ got[q] >= 3
  <2>1. us = final_response(q) /\ js = [i \in ind(q) |-> i] /\ got[q] >= 3
    BY <1>1, RevealAccepts
  <2> QED
    BY <2>1
<1>5. Got(q, 3).pts = shuffled(p) /\ Got(q, 2).open.pts = points(p)
  BY <1>0, <1>4, ShuffleAccepts, SigmaAccepts, InStep
<1>6. ASSUME NEW i \in Idx
      PROVE  unblinded(q)[i] = MulClamped(key[p], hash_to_point(x(i)))
  <2>0. s[i] \in Idx /\ got[p] >= 2
    BY <1>1, <1>3
  <2>3. shuffled(p)[i] = Mul(key[p], points(q)[s[i]])
    BY <2>0, HonestShuffled
  <2>1. shuffled(p)[i] = Mul(key[p], MulClamped(key[q], hash_to_point(x(i))))
    BY <2>0, <2>3 DEF points
  <2>2. x(i) \in Item
    BY <1>1, <1>3
  <2> QED
    BY <1>1, <1>5, <2>1, <2>2, TakeKeyOff DEF unblinded
<1>7. ASSUME NEW i \in Idx
      PROVE  unblinded(q)[i] \in Range(points(p)) <=> x(i) \in Range(input[p])
  <2>1. x(i) \in Item
    BY <1>1, <1>3
  <2>2. \A j \in Idx : points(p)[j] = unblinded(q)[i] <=> input[p][j] = x(i)
    BY <1>1, <1>6, <2>1, BlindInjective DEF points
  <2>3. DOMAIN points(p) = Idx
    BY DEF points
  <2> QED
    BY <1>1, <2>2, <2>3 DEF Range
<1>8. DOMAIN js = {i \in Idx : x(i) \notin Range(input[p])}
  BY <1>4, <1>5, <1>7 DEF ind
<1>9. ASSUME NEW i \in DOMAIN js PROVE out[p][i] = x(i)
  <2>1. i \in Idx /\ us[i] = MulClamped(key[p], hash_to_point(x(i)))
    BY <1>4, <1>6, <1>8 DEF final_response
  <2>2. x(i) \in Item
    BY <1>1, <1>3, <2>1
  <2> QED
    BY <1>1, <1>2, <2>1, <2>2, RecoverInvertsHash
<1>10. DOMAIN out[p] = DOMAIN js
  BY <1>2
<1> QED
  BY <1>3, <1>8, <1>9, <1>10 DEF ExactDifference

(* Between honest parties both answers are exactly the peer's items one lacks,
   for every input, key, permutation and interleaving. *)
THEOREM AnswersAreExact == Spec => []OutputExact
<1>1. IInv => OutputExact
  BY AnswerIsExact DEF OutputExact
<1> QED
  BY <1>1, Invariance, PTL

-----------------------------------------------------------------------------
(* TwoSided implements PSU: the initial states map to initial states of the
   ideal set union, and every step to one of its steps or to a stutter. *)

(* The items a digest binds its sender to are items, and for the digest of gen
   they are the party's input. *)
LEMMA BoundAreItems ==
  ASSUME NEW o PROVE BoundItems(o) \in SUBSET Item
<1>1. ASSUME NEW k \in Scalar \ {0}, NEW P \in Group
      PROVE  recover_from_point(MulInv8(k, P)) \in Item
  BY CurveSets, GroupLaws DEF MulInv8
<1> QED
  BY <1>1 DEF BoundItems

(* An honest party's digest, made by gen, binds it to exactly its input set. *)
LEMMA BoundOfGen ==
  ASSUME TypeOK, NEW p \in Party
  PROVE  BoundItems(gen(p)) = Range(input[p])
<1>1. key[p] \in Key /\ DOMAIN input[p] = Idx /\ \A i \in Idx : input[p][i] \in Item
  BY TwoSidedAssumption DEF TypeOK
<1>2. points(p) \in [Idx -> Group] /\ gen(p).pk = Mul(key[p], Base) /\ gen(p).pts = points(p)
  BY GenTyped DEF gen, pk
<1>3. {k \in Scalar \ {0} : gen(p).pk = Mul(k, Base)} = {key[p]}
  BY <1>1, <1>2, KeysDistinct, CurveSets
<1>4. \A i \in Idx : recover_from_point(MulInv8(key[p], points(p)[i])) = input[p][i]
  BY <1>1, RecoverInvertsHash DEF points
<1>5. Range(points(p)) \cap Group = {points(p)[i] : i \in Idx}
  BY <1>2 DEF Range
<1>6. BoundItems(gen(p)) = {recover_from_point(MulInv8(key[p], P)) : P \in {points(p)[i] : i \in Idx}}
  BY <1>2, <1>3, <1>5 DEF BoundItems
<1> QED
  BY <1>1, <1>4, <1>6 DEF Range

(* The digest of gen has a public key that is not neutral, so that the party is
   committed to its input. *)
LEMMA CommittedOfGen ==
  ASSUME TypeOK, NEW p \in Party
  PROVE  CommittedItems(gen(p)) = Range(input[p])
<1>1. key[p] \in Scalar \ {0} /\ 0 \in Scalar /\ gen(p).pk = Mul(key[p], Base)
  BY CurveSets DEF TypeOK, gen, pk
<1>2. gen(p).pk # Neutral
  BY <1>1, KeysDistinct DEF Neutral
<1> QED
  BY <1>2, BoundOfGen DEF CommittedItems, Unbound

(* A digest commits to no more than N items, or to all of them. *)
LEMMA CommittedTyped ==
  ASSUME NEW o \in Opening
  PROVE  CommittedItems(o) \in Ideal!Sized \cup {Item}
<1>1. CASE \E i \in Idx : Unbound(o, i)
  BY <1>1 DEF CommittedItems
<1>2. CASE ~\E i \in Idx : Unbound(o, i)
  <2>1. CommittedItems(o) = BoundItems(o) /\ BoundItems(o) \in SUBSET Item
    BY <1>2, BoundAreItems DEF CommittedItems
  <2>2. recover_from_point(Base) \in Item /\ o.pts \in [Idx -> Enc]
    BY CurveSets DEF Opening
  <2>3. \E v \in [Idx -> Item] : BoundItems(o) \subseteq {v[i] : i \in Idx}
    <3>1. CASE ~\E k \in Scalar \ {0} : o.pk = Mul(k, Base)
      <4> DEFINE v == [i \in Idx |-> recover_from_point(Base)]
      <4>1. BoundItems(o) = {}
        BY <3>1 DEF BoundItems
      <4>2. v \in [Idx -> Item]
        BY <2>2
      <4> QED
        BY <4>1, <4>2
    <3>2. ASSUME NEW k \in Scalar \ {0}, o.pk = Mul(k, Base)
          PROVE  \E v \in [Idx -> Item] : BoundItems(o) \subseteq {v[i] : i \in Idx}
      <4> DEFINE v == [i \in Idx |-> IF o.pts[i] \in Group
                                      THEN recover_from_point(MulInv8(k, o.pts[i]))
                                      ELSE recover_from_point(Base)]
      <4>1. v \in [Idx -> Item]
        <5>1. \A P \in Group : recover_from_point(MulInv8(k, P)) \in Item
          BY CurveSets, GroupLaws DEF MulInv8
        <5> QED
          BY <2>2, <5>1
      <4>2. {j \in Scalar \ {0} : o.pk = Mul(j, Base)} = {k}
        BY <3>2, KeysDistinct
      <4>3. ASSUME NEW x \in BoundItems(o) PROVE \E i \in Idx : x = v[i]
        <5>1. PICK P \in Range(o.pts) \cap Group : x = recover_from_point(MulInv8(k, P))
          BY <4>2, <4>3 DEF BoundItems
        <5>2. PICK i \in Idx : P = o.pts[i]
          BY <2>2, <5>1 DEF Range
        <5> QED
          BY <5>1, <5>2
      <4> HIDE DEF v
      <4> QED
        BY <4>1, <4>3
    <3> QED
      BY <3>1, <3>2
  <2> QED
    BY <2>1, <2>3 DEF Ideal!Sized, Idx
<1> QED
  BY <1>1, <1>2

(* The answer of an honest party comes from the set its peer is committed to,
   and is the difference when the peer is honest too. *)
LEMMA AnswerFromCommitted ==
  ASSUME IInv, NEW p \in Honest, pc[p] = "done"
  PROVE  /\ Range(out[p]) \subseteq CommittedItems(Got(p, 1).sigma)
         /\ Deviating = {} => Range(out[p]) = Range(input[Peer(p)]) \ Range(input[p])
<1> DEFINE js == Got(p, 4).ind
<1>0. p \in Party
  BY DEF Honest
<1>1. PICK s \in Perms : \A i \in DOMAIN out[p] :
        \/ BindsTo(Got(p, 1).sigma, s[js[i]], out[p][i])
        \/ Unbound(Got(p, 1).sigma, s[js[i]])
  BY AnswerIsBound
<1>2. \A i \in DOMAIN out[p] : js[i] \in Idx
  BY <1>0 DEF IInv, Passed
<1>3. /\ Got(p, 1).tag = 1 /\ got[p] \in 1..4
  BY <1>0 DEF IInv, Tags, Counts, TypeOK
<1>4. DOMAIN Got(p, 1).sigma.pts = Idx
  BY <1>0, <1>3, GotTyped DEF Opening
<1>5. \A i \in DOMAIN out[p] : s[js[i]] \in Idx
  BY <1>2, Fun_BijectionProperties DEF Perms
<1>6. ASSUME NEW i \in DOMAIN out[p], ~\E l \in Idx : Unbound(Got(p, 1).sigma, l)
      PROVE  out[p][i] \in CommittedItems(Got(p, 1).sigma)
  <2>1. PICK k \in Scalar \ {0} : /\ Got(p, 1).sigma.pk = Mul(k, Base)
                         /\ Got(p, 1).sigma.pts[s[js[i]]] \in Group
                         /\ out[p][i] = recover_from_point(MulInv8(k, Got(p, 1).sigma.pts[s[js[i]]]))
    BY <1>1, <1>5, <1>6 DEF BindsTo
  <2>2. Got(p, 1).sigma.pts[s[js[i]]] \in Range(Got(p, 1).sigma.pts) \cap Group
    BY <1>4, <1>5, <2>1 DEF Range
  <2> QED
    BY <1>6, <2>1, <2>2 DEF CommittedItems, BoundItems
<1>7. ASSUME Deviating = {}
      PROVE  Range(out[p]) = Range(input[Peer(p)]) \ Range(input[p])
  <2>1. PICK t \in Perms :
          /\ DOMAIN out[p] = {i \in Idx : input[Peer(p)][t[i]] \notin Range(input[p])}
          /\ \A i \in DOMAIN out[p] : out[p][i] = input[Peer(p)][t[i]]
    BY <1>0, <1>7, AnswerIsExact DEF ExactDifference
  <2>2. t \in [Idx -> Idx] /\ \A j \in Idx : \E i \in Idx : t[i] = j
    BY Fun_BijectionProperties, Fun_SurjectionProperties DEF Perms
  <2>3. DOMAIN input[Peer(p)] = Idx
    BY <1>0, InStep, TwoSidedAssumption DEF IInv, TypeOK
  <2> QED
    BY <2>1, <2>2, <2>3 DEF Range
<1>8. ASSUME \E l \in Idx : Unbound(Got(p, 1).sigma, l)
      PROVE  CommittedItems(Got(p, 1).sigma) = Item
  BY <1>8 DEF CommittedItems
<1>9. \A i \in DOMAIN out[p] : out[p][i] \in Item
  BY <1>0 DEF IInv, TypeOK, ListsOf
<1> QED
  BY <1>6, <1>7, <1>8, <1>9 DEF Range

-----------------------------------------------------------------------------
(* The mapped state after a step. *)

(* No step of protocol changes the input sets. *)
LEMMA SetSame ==
  ASSUME IInv, [Next]_vars PROVE setM' = setM
BY StreamsGrow DEF secrets, setM

(* A party whose digest has been read stays committed to the same set; one
   whose peer reads nothing stays uncommitted. *)
LEMMA CommittedSame ==
  ASSUME IInv, [Next]_vars, NEW p \in Party,
         \/ got[Peer(p)] >= 1
         \/ got'[Peer(p)] = got[Peer(p)]
  PROVE  committedM'[p] = committedM[p]
<1>0. Peer(p) \in Party /\ got[Peer(p)] \in 0..4 /\ got'[Peer(p)] \in 0..4
  BY InStep, TypeStep DEF TypeOK
<1>1. got[Peer(p)] >= 1 => Got(Peer(p), 1)' = Got(Peer(p), 1) /\ got'[Peer(p)] >= 1
  BY <1>0, ReadStable, GotGrows
<1>2. CASE got[Peer(p)] >= 1
  <2>1. CommittedItems(Got(Peer(p), 1).sigma)' = CommittedItems(Got(Peer(p), 1).sigma)
    <3>1. CommittedItems(Got(Peer(p), 1).sigma)' = CommittedItems(Got(Peer(p), 1)'.sigma)
      BY DEF CommittedItems, BoundItems, Unbound
    <3> QED
      BY <1>1, <1>2, <3>1
  <2>2. Got(Peer(p), 1)'.tag = Got(Peer(p), 1).tag
    BY <1>1, <1>2
  <2> QED
    BY <1>1, <1>2, <2>1, <2>2 DEF committedM
<1>3. CASE got[Peer(p)] = 0 /\ got'[Peer(p)] = 0
  BY <1>3 DEF committedM
<1> QED
  BY <1>0, <1>2, <1>3

(* A step in which nobody reads changes no commitment. *)
LEMMA AllCommittedSame ==
  ASSUME IInv, [Next]_vars, UNCHANGED got
  PROVE  committedM' = committedM
<1>1. \A p \in Party : committedM'[p] = committedM[p]
  BY CommittedSame
<1> QED
  BY <1>1 DEF committedM

(* Answers change only when a thread ends. *)
LEMMA AnswersSame ==
  ASSUME IInv, [Next]_vars, UNCHANGED out,
         \A q \in Party : pc'[q] # pc[q] => pc[q] \notin Over /\ pc'[q] \notin Over
  PROVE  answerM' = answerM
<1>1. \A q \in Party : answerM'[q] = answerM[q]
  BY DEF answerM, Ended, Over
<1> QED
  BY <1>1 DEF answerM

(* A step of the threads that changes no commitment and no answer is a
   stuttering step of the ideal functionality. *)
LEMMA Stutters ==
  ASSUME IInv, [Next]_vars, committedM' = committedM, answerM' = answerM
  PROVE  [Ideal!IdealNext]_(Ideal!idealVars)
BY SetSame DEF Ideal!idealVars

(* A thread that fails maps to an abort of the honest parties it ends. *)
LEMMA FailureAborts ==
  ASSUME IInv, [Next]_vars, NEW p \in Party, ~Ended(p), Panic(p) \/ ReturnNone(p),
         UNCHANGED out, committedM' = committedM
  PROVE  \E P \in SUBSET Honest : Ideal!Abort(P)
<1> DEFINE P == {q \in Honest : ~Ended(q) /\ pc'[q] \in Over}
<1>0. pc \in [Party -> {"open", "write", "flush", "read", "check"} \cup Over]
  BY DEF IInv, TypeOK
<1>1. \A q \in Party : \/ pc'[q] = pc[q]
                       \/ ~Ended(q) /\ pc'[q] \in {"none", "panic", "killed"}
  BY <1>0 DEF Panic, ReturnNone, Ended
<1>2. \A q \in P : answerM[q] = <<"pending", {}>>
  BY DEF answerM, Ended, Over, Honest
<1>3. \A q \in Party : answerM'[q] = IF q \in P THEN <<"abort", {}>> ELSE answerM[q]
  <2> SUFFICES ASSUME NEW q \in Party
               PROVE  answerM'[q] = IF q \in P THEN <<"abort", {}>> ELSE answerM[q]
    OBVIOUS
  <2>1. CASE q \in P
    <3>1. pc'[q] \in {"none", "panic", "killed"} /\ q \in Honest
      BY <1>1, <2>1 DEF Ended
    <3> QED
      BY <2>1, <3>1 DEF answerM, Ended, Over
  <2>2. CASE q \notin P
    BY <1>1, <2>2 DEF answerM, Ended, Over
  <2> QED
    BY <2>1, <2>2
<1>4. answerM' = [q \in Party |-> IF q \in P THEN <<"abort", {}>> ELSE answerM[q]]
  BY <1>3 DEF answerM
<1>5. P \in SUBSET Honest
  OBVIOUS
<1> HIDE DEF P
<1>6. Ideal!Abort(P)
  BY <1>2, <1>4, SetSame DEF Ideal!Abort
<1> QED
  BY <1>5, <1>6

(* The first message read, if it has its tag, carries the digest of an opening. *)
DigestTyped ==
  \A p \in Party : got[p] >= 1 /\ Got(p, 1).tag = 1 => Got(p, 1).sigma \in Opening

(* The streams carry messages of the enum, so that every digest is one. *)
LEMMA DigestIsTyped == IInv => DigestTyped
<1> SUFFICES ASSUME IInv, NEW p \in Party, got[p] >= 1, Got(p, 1).tag = 1
             PROVE  Got(p, 1).sigma \in Opening
  BY DEF DigestTyped
<1>1. got[p] \in 0..4
  BY DEF IInv, TypeOK
<1> QED
  BY <1>1, GotTyped

(* The same, of the state after a step. *)
LEMMA PrimedDigest == IInv' => DigestTyped'
BY DigestIsTyped, PTL

(* The same, of one party. *)
LEMMA PrimedSigma ==
  ASSUME IInv', NEW p \in Party, got'[p] = 1, Got(p, 1)'.tag = 1
  PROVE  Got(p, 1)'.sigma \in Opening
<1>1. got'[p] >= 1
  OBVIOUS
<1> QED
  BY <1>1, PrimedDigest DEF DigestTyped

(* Reading the first message of a stream commits its sender. *)
LEMMA FirstReadCommits ==
  ASSUME IInv, [Next]_vars, NEW p \in Party, got[p] = 0, got'[p] = 1,
         Got(p, 1)'.tag = 1, answerM' = answerM,
         \A q \in Party : q # p => got'[q] = got[q]
  PROVE  Ideal!Commit(Peer(p))
<1> DEFINE S == CommittedItems(Got(p, 1)'.sigma)
<1>0. Peer(p) \in Party /\ Peer(Peer(p)) = p /\ TypeOK' /\ IInv'
  BY InStep, TypeStep, NextIInv
<1>1. committedM[Peer(p)] = {}
  BY <1>0 DEF committedM
<1>2. committedM'[Peer(p)] = {S}
  BY <1>0 DEF committedM, CommittedItems, BoundItems, Unbound
<1>3. \A q \in Party : q # Peer(p) => committedM'[q] = committedM[q]
  <2> SUFFICES ASSUME NEW q \in Party, q # Peer(p) PROVE committedM'[q] = committedM[q]
    OBVIOUS
  <2>1. Peer(q) \in Party /\ Peer(q) # p
    BY <1>0, InStep
  <2> QED
    BY <2>1, CommittedSame
<1>4. committedM' = [committedM EXCEPT ![Peer(p)] = {S}]
  BY <1>2, <1>3 DEF committedM
<1>5. S \in Ideal!Sized \cup {Item}
  <2>1. Got(p, 1)'.sigma \in Opening
    BY <1>0, PrimedSigma
  <2> QED
    BY <2>1, CommittedTyped
<1>6. Peer(p) \in Honest => S = setM[Peer(p)]
  <2> SUFFICES ASSUME Peer(p) \in Honest PROVE S = setM[Peer(p)]
    OBVIOUS
  <2>1. AsCoded(Peer(p))' /\ 1 <= Len(sent'[Peer(p)]) /\ sent'[Peer(p)] \in Seq(Message)
    BY <1>0 DEF IInv, Counts, TypeOK
  <2>2. Got(p, 1)' = Msg(Peer(p), 1)'
    BY <2>1 DEF AsCoded, Got
  <2>3. Got(p, 1)'.sigma = gen(Peer(p))'
    BY <2>2 DEF Msg
  <2>4. gen(Peer(p))' = gen(Peer(p))
    BY StreamsGrow DEF secrets, gen, pk, points
  <2> QED
    BY <1>0, <2>3, <2>4, CommittedOfGen DEF setM, IInv
<1>7. S \in Ideal!Commitments(Peer(p))
  BY <1>5, <1>6 DEF Ideal!Commitments
<1> HIDE DEF S
<1> QED
  BY <1>1, <1>4, <1>7, SetSame DEF Ideal!Commit

(* AnswerFromCommitted, of the state after a step. *)
AnswersFromCommitted ==
  \A p \in Honest : pc[p] = "done" =>
    /\ Range(out[p]) \subseteq CommittedItems(Got(p, 1).sigma)
    /\ Deviating = {} => Range(out[p]) = Range(input[Peer(p)]) \ Range(input[p])

(* Every answer protocol has returned comes from the committed set. *)
LEMMA AllFromCommitted == IInv => AnswersFromCommitted
BY AnswerFromCommitted DEF AnswersFromCommitted

(* The same, of the state after a step. *)
LEMMA PrimedFromCommitted == IInv' => AnswersFromCommitted'
BY AllFromCommitted, PTL

(* The same, of one party whose reveal_items has just succeeded. *)
LEMMA PrimedAnswer ==
  ASSUME IInv', NEW p \in Honest, pc'[p] = "done"
  PROVE  /\ Range(out'[p]) \subseteq CommittedItems(Got(p, 1)'.sigma)
         /\ Deviating = {} => Range(out'[p]) = Range(input'[Peer(p)]) \ Range(input'[p])
<1>1. /\ Range(out[p])' \subseteq CommittedItems(Got(p, 1).sigma)'
      /\ Deviating = {} => Range(out[p])' = Range(input[Peer(p)])' \ Range(input[p])'
  BY PrimedFromCommitted DEF AnswersFromCommitted
<1>2. /\ Range(out[p])' = Range(out'[p])
      /\ Range(input[Peer(p)])' = Range(input'[Peer(p)])
      /\ Range(input[p])' = Range(input'[p])
  BY DEF Range
<1>3. CommittedItems(Got(p, 1).sigma)' = CommittedItems(Got(p, 1)'.sigma)
  BY DEF CommittedItems, BoundItems, Unbound
<1> QED
  BY <1>1, <1>2, <1>3

(* reveal_items returning maps to the ideal answer, for an honest party. *)
LEMMA RevealAnswers ==
  ASSUME IInv, [Next]_vars, UNCHANGED got, NEW p \in Honest,
         pc[p] = "check", pc' = [pc EXCEPT ![p] = "done"],
         \A q \in Party : q # p => out'[q] = out[q]
  PROVE  Ideal!Answer(p)
<1> DEFINE q == Peer(p)
           A == Range(out'[p])
           S == Range(input[p])
           T == CommittedItems(Got(p, 1).sigma)
<1>0. /\ p \in Party /\ q \in Party /\ Peer(q) = p /\ IInv' /\ TypeOK /\ TypeOK'
      /\ pc \in [Party -> {"open", "write", "flush", "read", "check"} \cup Over]
  BY InStep, NextIInv, TypeStep DEF Honest, IInv, TypeOK
<1>1. pc'[p] = "done" /\ got[p] = 4 /\ got[q] >= 3
  <2>1. pc'[p] = "done" /\ got'[p] = 4
    BY <1>0 DEF IInv, Counts
  <2>2. got[p] = 4
    BY <2>1
  <2> QED
    BY <1>0, <2>1, <2>2, InStep
<1>2. Got(p, 1).tag = 1 /\ Got(p, 1)' = Got(p, 1) /\ Got(q, 1)' = Got(q, 1)
  <2>1. Got(p, 1)' = Got(p, 1) /\ Got(q, 1)' = Got(q, 1)
    BY <1>0, <1>1, ReadStable, InStep
  <2>2. Tags(p) /\ round[p] \in 1..4 /\ Counts(p)
    BY <1>0 DEF IInv, TypeOK
  <2> QED
    BY <1>1, <2>1, <2>2 DEF Tags, Counts
<1>3. \A r \in 1..got[q] : Peer(q) \in Honest => Got(q, r) = Msg(p, r)
  BY <1>0, InStep DEF IInv, AsCoded, Got
<1>4. Got(q, 1).tag = 1 /\ Got(q, 1).sigma = gen(p)
  <2>1. Got(q, 1) = Msg(p, 1)
    BY <1>0, <1>1, <1>3, InStep
  <2> QED
    BY <2>1 DEF Msg
<1>5. committedM[p] = {S}
  <2>1. CommittedItems(Got(q, 1).sigma) = S
    BY <1>0, <1>4, CommittedOfGen
  <2>2. got[q] >= 1
    BY <1>0, <1>1, InStep
  <2> QED
    BY <1>0, <1>4, <2>1, <2>2 DEF committedM
<1>6. committedM[q] = {T}
  BY <1>0, <1>1, <1>2 DEF committedM
<1>7. A \subseteq T /\ (Deviating = {} => A = Range(input[q]) \ S)
  <2>1. UNCHANGED input
    BY StreamsGrow DEF secrets
  <2>2. /\ A \subseteq CommittedItems(Got(p, 1)'.sigma)
        /\ Deviating = {} => A = Range(input'[q]) \ Range(input'[p])
    BY <1>0, <1>1, PrimedAnswer
  <2> QED
    BY <1>2, <2>1, <2>2
<1>8. A \in Ideal!Answers(p, S, T)
  <2>1. CASE q \in Honest
    <3>1. Deviating = {}
      BY <1>0, <2>1, TwoSidedAssumption DEF Honest, Party, Peer
    <3>2. T = Range(input[q])
      <4>1. Got(p, 1) = Msg(q, 1)
        BY <1>0, <1>1, <3>1, HonestGot
      <4>2. Got(p, 1).sigma = gen(q)
        BY <4>1 DEF Msg
      <4> QED
        BY <1>0, <4>2, CommittedOfGen
    <3> QED
      BY <1>7, <2>1, <3>1, <3>2 DEF Ideal!Answers
  <2>2. CASE q \notin Honest
    BY <1>7, <2>2 DEF Ideal!Answers
  <2> QED
    BY <2>1, <2>2
<1>9. answerM[p] = <<"pending", {}>>
  BY <1>0 DEF answerM, Ended, Over
<1>10. answerM' = [answerM EXCEPT ![p] = <<"answer", A>>]
  <2>1. answerM'[p] = <<"answer", A>>
    BY <1>0, <1>1 DEF answerM
  <2>2. \A x \in Party : x # p => answerM'[x] = answerM[x]
    BY <1>0 DEF answerM, Ended
  <2> QED
    BY <2>1, <2>2 DEF answerM
<1>11. committedM' = committedM
  BY AllCommittedSame
<1> HIDE DEF A, S, T
<1> QED
  BY <1>0, <1>5, <1>6, <1>8, <1>9, <1>10, <1>11, SetSame DEF Ideal!Answer

-----------------------------------------------------------------------------
(* The initial states of malicious_psu2 map to initial states of the ideal
   functionality. *)
LEMMA MapsInit == Init => Ideal!IdealInit
<1> SUFFICES ASSUME Init PROVE Ideal!IdealInit
  OBVIOUS
<1>1. setM \in [Party -> SUBSET Item]
  BY TwoSidedAssumption DEF Init, setM, Range
<1>2. committedM = [p \in Party |-> {}]
  <2>1. \A p \in Party : ~(got[Peer(p)] >= 1)
    BY DEF Init, Party, Peer
  <2> QED
    BY <2>1 DEF committedM
<1>3. answerM = [p \in Party |-> <<"pending", {}>>]
  BY DEF Init, answerM, Ended, Over
<1> QED
  BY <1>1, <1>2, <1>3 DEF Ideal!IdealInit

(* Every step of the protocol is a step of the ideal set union, or none. *)
LEMMA MapsStep ==
  ASSUME IInv, [Next]_vars
  PROVE  [Ideal!IdealNext]_(Ideal!idealVars)
<1>0. /\ pc \in [Party -> {"open", "write", "flush", "read", "check"} \cup Over]
      /\ got \in [Party -> 0..4] /\ round \in [Party -> 1..4]
      /\ out \in [Party -> ListsOf(Item)]
      /\ \A p \in Party : Counts(p)
  BY DEF IInv, TypeOK
<1>1. ASSUME NEW p \in Party, ~Ended(p), Panic(p) \/ ReturnNone(p), UNCHANGED out,
             committedM' = committedM
      PROVE  [Ideal!IdealNext]_(Ideal!idealVars)
  BY <1>1, FailureAborts DEF Ideal!IdealNext
<1>2. ASSUME NEW p \in Party, ~Ended(p), NextRound(p) \/ EndOfRound(p), UNCHANGED out
      PROVE  answerM' = answerM
  BY <1>0, <1>2, AnswersSame DEF NextRound, EndOfRound, FirstIO, Ended, Over
<1>3. ASSUME NEW p \in Party, Open(p) \/ Write(p)
      PROVE  [Ideal!IdealNext]_(Ideal!idealVars)
  <2>1. answerM' = answerM
    BY <1>0, <1>3, AnswersSame DEF Open, Write, FirstIO, Over
  <2> QED
    BY <1>3, <2>1, AllCommittedSame, Stutters DEF Open, Write
<1>4. ASSUME NEW p \in Party, Flush(p)
      PROVE  [Ideal!IdealNext]_(Ideal!idealVars)
  <2>1. ~Ended(p) /\ UNCHANGED <<got, out>>
    BY <1>4 DEF Flush, Ended, Over
  <2>2. CASE pc' = [pc EXCEPT ![p] = "read"]
    BY <1>0, <1>4, <2>1, <2>2, AnswersSame, AllCommittedSame, Stutters DEF Flush, Over
  <2>3. CASE EndOfRound(p)
    BY <1>2, <2>1, <2>3, AllCommittedSame, Stutters
  <2> QED
    BY <1>4, <2>2, <2>3 DEF Flush
<1>5. ASSUME NEW p \in Party, WriteFails(p) \/ ReadFails(p) \/ Quit(p)
      PROVE  [Ideal!IdealNext]_(Ideal!idealVars)
  <2>1. ~Ended(p) /\ UNCHANGED <<got, out>> /\ (Panic(p) \/ ReturnNone(p))
    BY <1>5 DEF WriteFails, ReadFails, Quit, Ended, Over
  <2> QED
    BY <1>1, <2>1, AllCommittedSame
<1>6. ASSUME NEW p \in Party, VerifySigma(p) \/ FinalResponse(p)
      PROVE  [Ideal!IdealNext]_(Ideal!idealVars)
  <2>1. /\ ~Ended(p) /\ UNCHANGED <<got, out>>
        /\ Panic(p) \/ ReturnNone(p) \/ NextRound(p)
    BY <1>6 DEF VerifySigma, FinalResponse, Ended, Over
  <2> QED
    BY <1>1, <1>2, <2>1, AllCommittedSame, Stutters
<1>7. ASSUME NEW p \in Party, RevealItems(p)
      PROVE  [Ideal!IdealNext]_(Ideal!idealVars)
  <2>1. ~Ended(p) /\ pc[p] = "check" /\ UNCHANGED got
    BY <1>7 DEF RevealItems, Ended, Over
  <2>2. CASE Panic(p) /\ UNCHANGED out
    BY <1>1, <2>1, <2>2, AllCommittedSame
  <2>3. CASE ~(Panic(p) /\ UNCHANGED out)
    <3>1. /\ pc' = [pc EXCEPT ![p] = "done"]
          /\ \A q \in Party : q # p => out'[q] = out[q]
      BY <1>0, <1>7, <2>3 DEF RevealItems
    <3>2. CASE p \in Honest
      BY <2>1, <3>1, <3>2, RevealAnswers DEF Ideal!IdealNext
    <3>3. CASE p \notin Honest
      <4>1. \A q \in Party : answerM'[q] = answerM[q]
        BY <1>0, <3>1, <3>3 DEF answerM, Ended
      <4>2. answerM' = answerM
        BY <4>1 DEF answerM
      <4> QED
        BY <2>1, <4>2, AllCommittedSame, Stutters
    <3> QED
      BY <3>2, <3>3
  <2> QED
    BY <2>2, <2>3
<1>8. ASSUME NEW p \in Party, Read(p)
      PROVE  [Ideal!IdealNext]_(Ideal!idealVars)
  <2>0. Peer(p) \in Party /\ Peer(Peer(p)) = p
    BY InStep
  <2>1. /\ ~Ended(p) /\ pc[p] = "read" /\ UNCHANGED <<out, sent>>
        /\ got' = [got EXCEPT ![p] = @ + 1]
        /\ got[p] = round[p] - 1
    BY <1>0, <1>8 DEF Read, Ended, Over, Counts
  <2>2. \A q \in Party : q # p => got'[q] = got[q]
    BY <1>0, <2>1
  <2>3. committedM'[p] = committedM[p]
    <3>1. Peer(p) # p
      BY DEF Peer, Party
    <3> QED
      BY <2>0, <2>2, <3>1, CommittedSame
  <2>4. ASSUME got[p] >= 1 \/ Got(p, got[p] + 1).tag # round[p]
        PROVE  committedM' = committedM
    <3>1. CASE got[p] >= 1
      <4>1. \A q \in Party : committedM'[q] = committedM[q]
        BY <2>0, <2>3, <3>1, CommittedSame DEF Peer, Party
      <4> QED
        BY <4>1 DEF committedM
    <3>2. CASE got[p] = 0
      <4>1. Got(p, 1).tag # 1 /\ Got(p, 1)' = Got(p, 1)
        BY <1>0, <2>1, <2>4, <3>2 DEF Got
      <4>2. committedM'[Peer(p)] = {} /\ committedM[Peer(p)] = {}
        BY <2>0, <3>2, <4>1 DEF committedM
      <4>3. \A q \in Party : committedM'[q] = committedM[q]
        BY <2>0, <2>3, <4>2 DEF Peer, Party
      <4> QED
        BY <4>3 DEF committedM
    <3> QED
      BY <1>0, <3>1, <3>2
  <2>5. CASE Got(p, got[p] + 1).tag # round[p]
    <3>1. ReturnNone(p)
      BY <1>8, <2>5 DEF Read
    <3> QED
      BY <1>1, <2>1, <2>4, <2>5, <3>1
  <2>6. CASE Got(p, got[p] + 1).tag = round[p]
    <3>1. EndOfRound(p) \/ pc' = [pc EXCEPT ![p] = "write"]
      BY <1>8, <2>6 DEF Read
    <3>2. answerM' = answerM
      <4>1. CASE EndOfRound(p)
        BY <1>2, <2>1, <4>1
      <4>2. CASE pc' = [pc EXCEPT ![p] = "write"]
        BY <1>0, <2>1, <4>2, AnswersSame DEF Over
      <4> QED
        BY <3>1, <4>1, <4>2
    <3>3. CASE got[p] >= 1
      BY <2>4, <3>2, <3>3, Stutters
    <3>4. CASE got[p] = 0
      <4>1. Got(p, 1)'.tag = 1 /\ got'[p] = 1
        BY <1>0, <2>1, <2>6, <3>4 DEF Got
      <4>2. Ideal!Commit(Peer(p))
        BY <2>2, <3>2, <3>4, <4>1, FirstReadCommits
      <4> QED
        BY <2>0, <4>2 DEF Ideal!IdealNext
    <3> QED
      BY <1>0, <3>3, <3>4
  <2> QED
    BY <2>5, <2>6
<1>9. CASE UNCHANGED <<pc, got, out>>
  BY <1>9, AnswersSame, AllCommittedSame, Stutters
<1> QED
  BY <1>3, <1>4, <1>5, <1>6, <1>7, <1>8, <1>9
  DEF Next, Step, Join, Reset, Finished, vars

(* The four-round protocol of twosided.rs, over blocking sockets and against any
   peer, implements the ideal set union PSU. *)
THEOREM Refinement == Spec => ImplementsPSU
<1>1. IInv /\ [Next]_vars => [Ideal!IdealNext]_(Ideal!idealVars)
  BY MapsStep
<1> QED
  BY MapsInit, <1>1, Invariance, PTL DEF Spec, ImplementsPSU, Ideal!IdealSpec
=============================================================================
