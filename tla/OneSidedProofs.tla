--------------------------- MODULE OneSidedProofs ---------------------------
(***************************************************************************)
(* The safety of the one-sided protocols for every size, input, key,         *)
(* permutation and nonce, from the laws of the curve (Curve.tla) and of the  *)
(* proofs (OneSided.tla).                                                   *)
(***************************************************************************)
EXTENDS OneSidedInv, TLAPS

(* sender_malicious_psu1 runs four batches of Kos, semi_honest_psu1 one of Alsz. *)
LEMMA LastIs ==
  /\ Last = 6 + 2 * Turns * Batches /\ Last \in 1..30
  /\ \/ WithProofs /\ Turns = 3 /\ Batches = 4 /\ Last = 30
     \/ ~WithProofs /\ Turns = 1 /\ Batches = 1 /\ Last = 8
BY OneSidedAssumption DEF Last, Batches, Turns

(* A place in the script of at most Last steps. *)
LEMMA Places ==
  ASSUME NEW k \in 1 .. Last + 1
  PROVE  /\ k \in 1..31 /\ k - 1 \in 0..30 /\ k \in Nat
         /\ k # Last + 1 => k \in 1..Last /\ k \in 1..30 /\ k \in 0..30
<1>1. Last = 30 \/ Last = 8
  BY LastIs
<1>2. CASE Last = 30
  BY <1>2
<1>3. CASE Last = 8
  BY <1>3
<1> QED BY <1>1, <1>2, <1>3

(* In a batch, of Alsz and of Kos, the two parties take turns. *)
LEMMA TakeTurns ==
  ASSUME NEW k \in 4..27
  PROVE  /\ SendIO[InBatch(k)] = IF k % 2 = 0 THEN "read" ELSE "write"
         /\ ReceiveIO[InBatch(k)] = IF k % 2 = 0 THEN "write" ELSE "read"
<1>1. CASE WithProofs
  <2>1. InBatch(k) = ((k - 4) % 6) + 1
    BY <1>1 DEF InBatch, Turns
  <2>2. InBatch(k) \in 1..6 /\ InBatch(k) % 2 # k % 2
    BY <2>1
  <2>3. \/ k % 2 = 0 /\ InBatch(k) \in {1, 3, 5}
        \/ k % 2 = 1 /\ InBatch(k) \in {2, 4, 6}
    BY <2>2
  <2> QED BY <1>1, <2>3 DEF SendIO, ReceiveIO
<1>2. CASE ~WithProofs
  <2>1. InBatch(k) = ((k - 4) % 2) + 1
    BY <1>2 DEF InBatch, Turns
  <2>2. \/ k % 2 = 0 /\ InBatch(k) = 1
        \/ k % 2 = 1 /\ InBatch(k) = 2
    BY <2>1
  <2> QED BY <1>2, <2>2 DEF SendIO, ReceiveIO
<1> QED BY <1>1, <1>2

(* The scripts of both threads agree with the count of their writes. *)
LEMMA ScriptCounts ==
  ASSUME NEW k \in 1..30
  PROVE  /\ sender_io(k) \in {"read", "write"}
         /\ receiver_io(k) \in {"read", "write"}
         /\ Writes("S", k) = Writes("S", k - 1) + IF sender_io(k) = "write" THEN 1 ELSE 0
         /\ Writes("R", k) = Writes("R", k - 1) + IF receiver_io(k) = "write" THEN 1 ELSE 0
<1>1. CASE k <= 3
  <2>1. k = 1 \/ k = 2 \/ k = 3
    BY <1>1
  <2> QED BY <2>1 DEF sender_io, receiver_io, Writes
<1>2. CASE k > 3 /\ k <= 6
  <2>1. k = 4 \/ k = 5 \/ k = 6
    BY <1>2
  <2> QED BY <2>1 DEF sender_io, receiver_io, OTSenderIO, OTReceiverIO, Writes
<1>3. CASE k > 6
  <2>1. k - 3 \in 4..27 /\ ~(k - 3 <= 3) /\ ~(k <= 3)
    BY <1>3
  <2>2. /\ sender_io(k) = SendIO[InBatch(k - 3)]
        /\ receiver_io(k) = ReceiveIO[InBatch(k - 3)]
    BY <2>1 DEF sender_io, receiver_io, OTSenderIO, OTReceiverIO
  <2>3. /\ sender_io(k) = IF k % 2 = 0 THEN "write" ELSE "read"
        /\ receiver_io(k) = IF k % 2 = 0 THEN "read" ELSE "write"
    <3>1. (k - 3) % 2 = 0 <=> k % 2 # 0
      BY <1>3
    <3> QED BY <2>1, <2>2, <3>1, TakeTurns
  <2> QED BY <1>3, <2>3 DEF Writes
<1> QED BY <1>1, <1>2, <1>3

(* The messages of the batches: their batch, and where its pairs are. *)
LEMMA BatchOf ==
  ASSUME NEW r \in 4 .. 3 + Turns * Batches
  PROVE  /\ Batch(r) \in 1..Batches /\ Batch(r) \in 1..4
         /\ KosTurn(r) \in 0..3
<1>1. CASE WithProofs
  <2>1. Batch(r) = ((r - 4) \div 3) + 1 /\ KosTurn(r) = ((r - 4) % 3) + 1 /\ r \in 4..15
    BY <1>1, LastIs DEF Batch, KosTurn
  <2> QED BY <1>1, <2>1, LastIs
<1>2. CASE ~WithProofs
  BY <1>2, LastIs DEF Batch, KosTurn
<1> QED BY <1>1, <1>2

(* The last message of every batch holds its pairs. *)
LEMMA PairsAt ==
  ASSUME NEW b \in 1..Batches
  PROVE  /\ 3 + Turns * b \in 4 .. 3 + Turns * Batches
         /\ Batch(3 + Turns * b) = b /\ KosTurn(3 + Turns * b) \in {0, 3}
<1>1. CASE WithProofs
  <2>1. Turns = 3 /\ Batches = 4 /\ b \in 1..4
    BY <1>1, LastIs
  <2>2. /\ Batch(3 + 3 * b) = (((3 + 3 * b) - 4) \div 3) + 1
        /\ KosTurn(3 + 3 * b) = (((3 + 3 * b) - 4) % 3) + 1
    BY <1>1, <2>1 DEF Batch, KosTurn
  <2> QED BY <2>1, <2>2
<1>2. CASE ~WithProofs
  BY <1>2, LastIs DEF Batch, KosTurn
<1> QED BY <1>1, <1>2

(* How far a thread can write ahead of what it has read: the sender is one
   ahead until the transfers begin, the receiver from then on. *)
LEMMA WritesBound ==
  ASSUME NEW k \in 0..30
  PROVE  /\ Writes("S", k) \in 0..k /\ Writes("R", k) \in 0..k
         /\ Writes("S", k) \in 0..15 /\ Writes("R", k) \in 0..15
         /\ Writes("S", k) <= IF k - Writes("S", k) <= 2 THEN k - Writes("S", k) + 1
                                                         ELSE k - Writes("S", k)
         /\ Writes("R", k) <= IF k - Writes("R", k) <= 2 THEN k - Writes("R", k)
                                                         ELSE k - Writes("R", k) + 1
BY DEF Writes

-----------------------------------------------------------------------------
(* What messages are made of. *)

(* Both parties' blinded points are in the prime-order group. *)
LEMMA GenType ==
  ASSUME TypeOK
  PROVE  gen("S") \in [1..NS -> Group] /\ gen("R") \in [1..NR -> Group]
<1>1. input["S"] \in [1..NS -> Item] /\ input["R"] \in [1..NR -> Item]
  BY OneSidedAssumption DEF TypeOK, Inputs
<1>2. \A p \in Party : key[p] \in Key
  BY DEF TypeOK
<1>3. \A p \in Party, x \in Item : MulClamped(key[p], hash_to_curve(x)) \in Group
  BY <1>2, ClampedLaws, OneSidedAssumption
<1>4. /\ gen("S") = [i \in 1..NS |-> MulClamped(key["S"], hash_to_curve(input["S"][i]))]
      /\ gen("R") = [i \in 1..NR |-> MulClamped(key["R"], hash_to_curve(input["R"][i]))]
  BY <1>1 DEF gen
<1> QED BY <1>1, <1>3, <1>4 DEF Party

(* The sender's proof of an entry: the challenge is a scalar and a block, the
   response a scalar. *)
LEMMA ProofType ==
  ASSUME TypeOK, NEW i \in 1..NS
  PROVE  c(i) \in Scalar \cap Block /\ z(i) \in Scalar
<1> DEFINE P == hash_to_curve(input["S"][i])
<1>1. P \in Point /\ key["S"] \in Key /\ nonce[i] \in Nonce
  BY OneSidedAssumption DEF TypeOK, Inputs, Party
<1>2. gen("S")[i] \in Point /\ MulClamped(nonce[i], P) \in Point
  BY <1>1, GenType, CurveSets, ProofLaws
<1>3. c(i) \in Scalar \cap Block
  BY <1>1, <1>2, ProofLaws DEF c
<1>4. z(i) \in Scalar
  BY <1>1, <1>3, ProofLaws DEF z
<1> QED BY <1>3, <1>4

(* A batch of pairs is made of blocks. *)
LEMMA ChunkType ==
  ASSUME TypeOK, NEW b \in 1..4
  PROVE  chunk(b) \in [1..NS -> Block \X Block]
<1> SUFFICES ASSUME NEW i \in 1..NS
             PROVE  << <<input["S"][i], c(i), Low(z(i)), High(z(i))>>[b], Perp>> \in Block \X Block
  BY DEF chunk
<1>1. input["S"][i] \in Block /\ Perp \in Block
  BY OneSidedAssumption DEF TypeOK, Inputs
<1>2. c(i) \in Block /\ Low(z(i)) \in Block /\ High(z(i)) \in Block
  BY ProofType, ProofLaws
<1>3. <<input["S"][i], c(i), Low(z(i)), High(z(i))>>[b] \in Block
  <2>1. b = 1 \/ b = 2 \/ b = 3 \/ b = 4
    OBVIOUS
  <2> QED BY <2>1, <1>1, <1>2
<1> QED BY <1>1, <1>3

(* The receiver's points blinded twice are in the group. *)
LEMMA DoubleType ==
  ASSUME TypeOK
  PROVE  double_blinded \in [1..NR -> Group]
<1>1. pi \in [1..NR -> 1..NR] /\ key["S"] \in Scalar
  BY CurveSets DEF TypeOK, Bijection, Injection, Party
<1> QED BY <1>1, GenType, GroupLaws DEF double_blinded

-----------------------------------------------------------------------------
(* What a thread writes. *)

(* A running thread that is at a write has read enough for the message. *)
LEMMA AtWrite ==
  ASSUME IInv, NEW p \in Party, mode[p] = "run", IO(p) = "write"
  PROVE  LET r == Len(sent[p]) + 1
         IN /\ r \in 1 .. 3 + Turns * Batches
            /\ at[p] \in 1..Last
            /\ p = "S" /\ r = 2 => got["S"] >= 1
            /\ p = "R" /\ r > 3 => got["R"] >= r - 1
<1> DEFINE k == at[p]
           r == Len(sent[p]) + 1
           w == Writes(p, k)
<1>1. k \in 1..Last /\ k \in 1..30 /\ k \in 0..30
  <2>1. at[p] \in 1 .. Last + 1 /\ (mode[p] = "done" <=> at[p] = Last + 1)
    BY DEF IInv, TypeOK
  <2>2. at[p] # Last + 1
    BY <2>1
  <2> QED BY <2>1, <2>2, LastIs
<1>2. Counts(p)
  BY DEF IInv
<1>3. Len(sent[p]) = Writes(p, k - 1) /\ got[p] = k - 1 - Writes(p, k - 1)
  BY <1>2 DEF Counts
<1>4. w = Writes(p, k - 1) + 1 /\ Writes(p, k - 1) \in 0..k-1
  <2>1. k - 1 \in 0..30
    BY <1>1
  <2> QED BY <1>1, <2>1, ScriptCounts, WritesBound DEF IO, Party
<1>5. r = w /\ r \in 1..k /\ got[p] = k - r
  BY <1>1, <1>3, <1>4
<1>6. r <= 3 + Turns * Batches
  <2>1. \/ Turns * Batches = 12 /\ k \in 1..30
        \/ Turns * Batches = 1 /\ k \in 1..8
    BY <1>1, LastIs
  <2>2. w <= 3 + Turns * Batches
    BY <2>1 DEF Writes
  <2> QED BY <2>2, <1>5
<1>7. /\ p = "S" => w <= IF k - w <= 2 THEN k - w + 1 ELSE k - w
      /\ p = "R" => w <= IF k - w <= 2 THEN k - w ELSE k - w + 1
  BY <1>1, WritesBound
<1>8. r \in 1 .. 3 + Turns * Batches
  BY <1>1, <1>5, <1>6, LastIs
<1>9. /\ p = "S" /\ r = 2 => got[p] >= 1
      /\ p = "R" /\ r > 3 => got[p] >= r - 1
  <2> HIDE DEF k, r, w
  <2> QED BY <1>1, <1>5, <1>7
<1> QED BY <1>1, <1>8, <1>9

(* What the receiver marks, once it has read the sender's points. *)
LEMMA CompareType ==
  ASSUME IInv, Len(sent["S"]) >= 1
  PROVE  compare \in [1..NS -> BOOLEAN]
<1>1. Got("R", 1).pts = gen("S") /\ DOMAIN gen("S") = 1..NS
  BY GenType DEF IInv, Contents, Got, Peer
<1> QED BY <1>1 DEF compare, blind

(* It is a message, and the sender's depend on the inputs as Contents says, also
   when a deviating party writes it. *)
LEMMA WhatIsWritten ==
  ASSUME IInv, NEW p \in Party, mode[p] = "run", IO(p) = "write",
         NEW m \in {Msg(p, Len(sent[p]) + 1)} \cup Forged(p, Len(sent[p]) + 1)
  PROVE  LET r == Len(sent[p]) + 1
         IN /\ m \in Message
            /\ r = 1 => m = [pts |-> gen(p)]
            /\ p = "S" /\ r = 2 => m = [pts |-> double_blinded]
            /\ p = "S" /\ r > 3 /\ KosTurn(r) \in {0, 3} => m = [pairs |-> chunk(Batch(r))]
            /\ p = "S" /\ r > 3 /\ KosTurn(r) = 2 => m.seed \in Seed
<1> DEFINE r == Len(sent[p]) + 1
<1>0. r \in 1 .. 3 + Turns * Batches /\ r \in 1..15 /\ TypeOK /\ Contents
  <2>1. r \in 1 .. 3 + Turns * Batches
    BY AtWrite
  <2>2. 3 + Turns * Batches \in 1..15
    BY LastIs
  <2> QED BY <2>1, <2>2 DEF IInv
<1>1. /\ p = "S" /\ r = 2 => got["S"] >= 1
      /\ p = "R" /\ r > 3 => got["R"] >= r - 1
  BY AtWrite
<1>2. got["S"] <= Len(sent["R"]) /\ got["R"] <= Len(sent["S"])
  BY DEF IInv, Counts, Peer, Party
<1>3. /\ got["S"] \in Int /\ got["R"] \in Int
      /\ Len(sent["S"]) \in Nat /\ Len(sent["R"]) \in Nat
  BY <1>0 DEF TypeOK, Party
<1>4. m = Msg(p, r) \/ m \in Forged(p, r)
  OBVIOUS
<1> HIDE DEF r
<1>5. CASE r = 1
  <2>1. m = [pts |-> gen(p)]
    BY <1>4, <1>5 DEF Msg, SenderMsg, ReceiverMsg, Forged, Party
  <2> QED BY <2>1, <1>0, <1>5, GenType DEF Message, Party, r
<1>6. CASE p = "S" /\ r = 2
  <2>1. Len(sent["R"]) >= 1
    BY <1>1, <1>2, <1>3, <1>6
  <2>2. Got("S", 1).pts = gen("R")
    BY <2>1, <1>0 DEF Contents, Got, Peer
  <2>3. blind_and_shuffle = double_blinded
    BY <2>2 DEF blind_and_shuffle, double_blinded
  <2>4. m = [pts |-> double_blinded]
    BY <2>3, <1>4, <1>6 DEF Msg, SenderMsg, Forged
  <2> QED BY <2>4, <1>0, <1>6, DoubleType DEF Message, r
<1>7. CASE (p = "R" /\ r \in {2, 3}) \/ (p = "S" /\ r = 3)
  <2>1. m = Base_OT
    BY <1>4, <1>7 DEF Msg, SenderMsg, ReceiverMsg, Forged
  <2> QED BY <2>1, <1>7 DEF Message, Base_OT, r
<1>8. CASE r > 3
  <2>1. r \in 4 .. 3 + Turns * Batches
    BY <1>0, <1>8
  <2>2. Batch(r) \in 1..Batches /\ Batch(r) \in 1..4 /\ KosTurn(r) \in 0..3
    BY <2>1, BatchOf
  <2>3. seed("S", Batch(r)) \in Seed /\ seed("R", Batch(r)) \in Seed
        /\ seed("S", 0) \in Seed /\ seed("R", 0) \in Seed
    BY <2>2, LastIs DEF seed, Seed, Party
  <2>4. ~(r = 1) /\ ~(r = 2) /\ ~(r = 3) /\ r \notin {2, 3}
    BY <1>8, <1>0
  <2>5. CASE p = "S"
    <3>1. CASE KosTurn(r) \in {0, 3}
      <4>1. m = [pairs |-> chunk(Batch(r))]
        BY <1>4, <1>8, <2>4, <2>5, <3>1 DEF Msg, SenderMsg, Forged
      <4>2. m \in Message
        BY <4>1, <2>2, <1>0, ChunkType DEF Message
      <4> QED BY <4>1, <4>2, <3>1, <2>4 DEF r
    <3>2. CASE KosTurn(r) = 2
      <4>1. m = [seed |-> seed("S", Batch(r))]
        BY <1>4, <1>8, <2>4, <2>5, <3>2 DEF Msg, SenderMsg, Forged
      <4> QED BY <4>1, <2>3, <2>4, <3>2 DEF Message, r
    <3>3. CASE KosTurn(r) = 1
      <4>1. m = [com |-> seed("S", Batch(r))] \/ m = [com |-> seed("S", 0)]
        BY <1>4, <1>8, <2>4, <2>5, <3>3 DEF Msg, SenderMsg, Forged
      <4> QED BY <4>1, <2>3, <2>4, <3>3 DEF Message, r
    <3> QED BY <3>1, <3>2, <3>3, <2>2
  <2>6. CASE p = "R"
    <3>1. Len(sent["S"]) >= r - 1 /\ Len(sent["S"]) >= 1
      BY <1>0, <1>1, <1>2, <1>3, <1>8, <2>6
    <3>2. compare \in [1..NS -> BOOLEAN]
      BY <3>1, CompareType
    <3>3. CASE KosTurn(r) \in {0, 1}
      <4>1. m = [choices |-> compare]
        BY <1>4, <1>8, <2>4, <2>6, <3>3 DEF Msg, ReceiverMsg, Forged
      <4> QED BY <4>1, <3>2, <2>4, <2>6 DEF Message, r
    <3>4. CASE KosTurn(r) = 2
      <4>1. m = [coin |-> seed("R", Batch(r))]
        BY <1>4, <1>8, <2>4, <2>6, <3>4 DEF Msg, ReceiverMsg, Forged
      <4> QED BY <4>1, <2>3, <2>4, <2>6 DEF Message, r
    <3>5. CASE KosTurn(r) = 3
      <4>1. r - 1 \in 4..Len(sent["S"]) /\ KosTurn(r - 1) = 2
        <5>1. WithProofs /\ ((r - 4) % 3) + 1 = 3
          BY <3>5 DEF KosTurn
        <5>2. r - 1 \in 4..15 /\ (((r - 1) - 4) % 3) + 1 = 2
          BY <5>1, <1>0, <1>8
        <5> QED BY <5>1, <5>2, <3>1, <1>3 DEF KosTurn
      <4>2. Got("R", r - 1).seed \in Seed
        BY <4>1, <1>0 DEF Contents, Got, Peer
      <4>3. \/ m = [check |-> [x |-> compare,
                              chi |-> <<Got("R", r - 1).seed, seed("R", Batch(r))>>]]
            \/ m = [check |-> [x |-> compare, chi |-> <<seed("S", 0), seed("R", 0)>>]]
        BY <1>4, <1>8, <2>4, <2>6, <3>5 DEF Msg, ReceiverMsg, Forged
      <4>4. m \in [check : Check]
        BY <4>2, <4>3, <2>3, <3>2 DEF Check
      <4> QED BY <4>4, <2>4, <2>6 DEF Message, r
    <3> QED BY <3>3, <3>4, <3>5, <2>2
  <2> QED BY <2>5, <2>6 DEF Party
<1> QED BY <1>0, <1>5, <1>6, <1>7, <1>8 DEF Party

-----------------------------------------------------------------------------
(* The invariant is inductive. *)

(* Nothing a party computes from what it started with changes. *)
LEMMA SameValues ==
  ASSUME UNCHANGED <<input, key, pi, nonce>>
  PROVE  /\ \A p \in Party : gen(p)' = gen(p)
         /\ double_blinded' = double_blinded
         /\ \A b : chunk(b)' = chunk(b)
<1>1. \A p \in Party : gen(p)' = gen(p)
  BY DEF gen
<1>2. double_blinded' = double_blinded
  BY <1>1 DEF double_blinded, Party
<1>3. \A i \in 1..NS : c(i)' = c(i) /\ z(i)' = z(i)
  BY <1>1 DEF c, z, Party
<1>4. \A b : chunk(b)' = chunk(b)
  BY <1>3 DEF chunk
<1> QED BY <1>1, <1>2, <1>4

(* No thread writes more than fifteen messages. *)
LEMMA AtMostFifteen ==
  ASSUME IInv, NEW p \in Party
  PROVE  /\ Len(sent[p]) \in 0..15
         /\ at[p] \in 1..31 /\ Writes(p, at[p] - 1) \in 0..15
<1>0. Last \in 1..30
  BY LastIs
<1>1. /\ at[p] \in 1 .. Last + 1 /\ sent[p] \in Seq(Message)
      /\ at[p] \in 1..31 /\ at[p] - 1 \in 0..30
  <2>1. at[p] \in 1 .. Last + 1 /\ sent[p] \in Seq(Message)
    BY DEF IInv, TypeOK
  <2> QED BY <2>1, Places
<1>2. Writes(p, at[p] - 1) \in 0..15
  BY <1>1, WritesBound DEF Party
<1>3. Len(sent[p]) # Writes(p, at[p] - 1) =>
        /\ Len(sent[p]) = Writes(p, at[p] - 1) + 1
        /\ at[p] \in 1..Last /\ IO(p) = "write"
  BY <1>0, <1>1 DEF IInv, Counts
<1>4. ASSUME at[p] \in 1..Last, IO(p) = "write"
      PROVE  Writes(p, at[p] - 1) <= 14
  <2>1. at[p] \in 1..30
    BY <1>4, LastIs
  <2>2. Writes(p, at[p]) = Writes(p, at[p] - 1) + 1
    BY <2>1, <1>4, ScriptCounts DEF IO, Party
  <2>3. Writes(p, at[p]) \in 0..15
    BY <2>1 DEF Writes
  <2> QED BY <1>2, <2>2, <2>3
<1>5. Len(sent[p]) \in 0..15
  <2>1. CASE Len(sent[p]) = Writes(p, at[p] - 1)
    BY <2>1, <1>2
  <2>2. CASE Len(sent[p]) # Writes(p, at[p] - 1)
    <3>1. Len(sent[p]) = Writes(p, at[p] - 1) + 1 /\ Writes(p, at[p] - 1) <= 14
      BY <2>2, <1>3, <1>4
    <3> QED BY <3>1, <1>2
  <2> QED BY <2>1, <2>2
<1> QED BY <1>1, <1>2, <1>5

(* Steps that write nothing keep the contents of what was written. *)
LEMMA ContentsKept ==
  ASSUME IInv, UNCHANGED <<input, key, pi, nonce, sent>>
  PROVE  Contents'
BY SameValues DEF IInv, Contents, Party

(* Steps that neither write, read nor advance keep the counts of a thread that
   is not pushed out of its flush. *)
LEMMA CountsKept ==
  ASSUME IInv, UNCHANGED <<at, sent, got>>, NEW p \in Party,
         mode'[p] = mode[p] \/ mode'[p] \in {"panic", "killed"}
           \/ (mode[p] = "open" /\ mode'[p] = "run")
  PROVE  Counts(p)'
BY DEF IInv, Counts, IO

(* The listener's and the connecting thread's first step. *)
LEMMA OpenStep == ASSUME IInv, NEW p \in Party, Open(p) PROVE IInv'
<1>1. TypeOK'
  BY DEF IInv, TypeOK, Open
<1>2. Contents'
  BY ContentsKept DEF Open
<1>3. ASSUME NEW q \in Party PROVE Counts(q)'
  <2>1. mode'[q] = mode[q] \/ (mode[q] = "open" /\ mode'[q] = "run")
    BY DEF IInv, TypeOK, Open
  <2> QED BY <2>1, CountsKept DEF Open
<1>4. ReturnMeansBoth'
  BY DEF IInv, TypeOK, ReturnMeansBoth, Open
<1> QED BY <1>1, <1>2, <1>3, <1>4 DEF IInv

(* A panicking thread leaves the streams as they are. *)
LEMMA PanicStep ==
  ASSUME IInv, NEW p \in Party, ~Ended(p), Panic(p),
         UNCHANGED <<input, key, pi, nonce, at, sent, got, up>>
  PROVE  IInv'
<1>1. \A q \in Party : /\ mode'[q] = mode[q] \/ mode'[q] \in {"panic", "killed"}
                       /\ mode[q] = "done" => mode'[q] = "done"
  BY DEF Panic, Ended, Over
<1>2. TypeOK'
  <2>1. mode' \in [Party -> {"open", "run", "flush"} \cup Over]
    BY DEF IInv, TypeOK, Panic, Over
  <2>2. result' \in {"pending", "returned", "panic"}
    BY DEF IInv, TypeOK, Panic
  <2>3. ASSUME NEW q \in Party PROVE mode'[q] = "done" <=> at'[q] = Last + 1
    <3>1. mode[q] = "done" <=> at[q] = Last + 1
      BY DEF IInv, TypeOK
    <3>2. mode'[q] = "done" <=> mode[q] = "done"
      BY <1>1
    <3> QED BY <3>1, <3>2
  <2> QED BY <2>1, <2>2, <2>3 DEF IInv, TypeOK, Inputs
<1>3. Contents'
  BY ContentsKept
<1>4. ASSUME NEW q \in Party PROVE Counts(q)'
  <2>1. mode'[q] = mode[q] \/ mode'[q] \in {"panic", "killed"}
    BY <1>1
  <2> QED BY <2>1, CountsKept
<1>5. ReturnMeansBoth'
  BY <1>1 DEF IInv, ReturnMeansBoth, Panic, Ended, Over
<1> QED BY <1>2, <1>3, <1>4, <1>5 DEF IInv

(* A write appends the message of the thread's place in the code. *)
LEMMA WriteStep == ASSUME IInv, NEW p \in Party, Write(p) PROVE IInv'
<1> DEFINE r == Len(sent[p]) + 1
<1>1. mode[p] = "run" /\ IO(p) = "write"
  BY DEF Write
<1>a. PICK m \in {Msg(p, r)} \cup Forged(p, r) :
        sent' = [sent EXCEPT ![p] = Append(@, m)]
  BY DEF Write
<1>2. /\ sent' = [sent EXCEPT ![p] = Append(@, m)]
      /\ mode' = [mode EXCEPT ![p] = "flush"]
      /\ UNCHANGED <<input, key, pi, nonce, at, got, up, result>>
  BY <1>a DEF Write
<1>3. /\ m \in Message
      /\ r = 1 => m = [pts |-> gen(p)]
      /\ p = "S" /\ r = 2 => m = [pts |-> double_blinded]
      /\ p = "S" /\ r > 3 /\ KosTurn(r) \in {0, 3} => m = [pairs |-> chunk(Batch(r))]
      /\ p = "S" /\ r > 3 /\ KosTurn(r) = 2 => m.seed \in Seed
  BY <1>1, WhatIsWritten
<1>4. at[p] \in 1..Last
  BY <1>1, AtWrite
<1>5. sent \in [Party -> Seq(Message)] /\ mode \in [Party -> {"open", "run", "flush"} \cup Over]
  BY DEF IInv, TypeOK
<1>6. /\ sent' \in [Party -> Seq(Message)]
      /\ Len(sent'[p]) = r
      /\ sent'[p][r] = m
      /\ \A j \in 1..Len(sent[p]) : sent'[p][j] = sent[p][j]
      /\ \A q \in Party : q # p => sent'[q] = sent[q]
  BY <1>2, <1>3, <1>5
<1>7. TypeOK'
  <2>1. mode' \in [Party -> {"open", "run", "flush"} \cup Over]
    BY <1>2, <1>5
  <2>2. ASSUME NEW q \in Party PROVE mode'[q] = "done" <=> at'[q] = Last + 1
    <3>1. mode[q] = "done" <=> at[q] = Last + 1
      BY DEF IInv, TypeOK
    <3>2. mode'[q] = "done" <=> mode[q] = "done"
      BY <1>1, <1>2, <1>5
    <3> QED BY <3>1, <3>2, <1>2
  <2> QED BY <2>1, <2>2, <1>2, <1>6 DEF IInv, TypeOK, Inputs
<1>8. ASSUME NEW q \in Party PROVE Counts(q)'
  <2>1. Counts(q)
    BY DEF IInv
  <2>2. CASE q = p
    <3>1. Peer(p) \in Party /\ Peer(p) # p
      BY DEF Party, Peer
    <3>2. Len(sent[p]) = Writes(p, at[p] - 1)
      BY <2>1, <2>2, <1>1 DEF Counts
    <3>3. Len(sent'[p]) = Writes(p, at[p] - 1) + 1
      BY <3>2, <1>6
    <3>4. mode'[p] = "flush"
      BY <1>2, <1>5
    <3>5. at[p] <= Last
      BY <1>4
    <3> QED BY <2>1, <2>2, <3>1, <3>3, <3>4, <3>5, <1>1, <1>2, <1>6 DEF Counts, IO
  <2>3. CASE q # p
    <3>1. Peer(q) = p
      BY <2>3 DEF Party, Peer
    <3>2. Len(sent[p]) \in Nat /\ got[q] \in Int /\ Len(sent'[p]) = Len(sent[p]) + 1
      BY <1>5, <1>6 DEF IInv, TypeOK
    <3>3. got'[q] <= Len(sent'[Peer(q)])
      BY <2>1, <3>1, <3>2, <1>2 DEF Counts
    <3>4. mode'[q] = mode[q] /\ sent'[q] = sent[q]
      BY <2>3, <1>2, <1>5, <1>6
    <3> QED BY <2>1, <3>3, <3>4, <1>2 DEF Counts, IO
  <2> QED BY <2>2, <2>3
<1>9. Contents'
  <2>1. \A b : chunk(b)' = chunk(b)
    BY <1>2, SameValues
  <2>2. gen("S")' = gen("S") /\ gen("R")' = gen("R") /\ double_blinded' = double_blinded
    BY <1>2, SameValues DEF Party
  <2>3. Contents
    BY DEF IInv
  <2>4. Len(sent[p]) \in Nat /\ r = Len(sent[p]) + 1
    BY <1>5
  <2> HIDE DEF r
  <2>5. CASE p = "S"
    <3>1. sent'["R"] = sent["R"]
      BY <2>5, <1>6 DEF Party
    <3>2. Len(sent'["S"]) >= 1 => sent'["S"][1] = [pts |-> gen("S")]
      BY <2>3, <2>4, <2>5, <1>3, <1>6 DEF Contents
    <3>3. Len(sent'["S"]) >= 2 => sent'["S"][2] = [pts |-> double_blinded]
      BY <2>3, <2>4, <2>5, <1>3, <1>6 DEF Contents
    <3>4. ASSUME NEW j \in 4..Len(sent'["S"])
          PROVE  /\ KosTurn(j) \in {0, 3} => sent'["S"][j] = [pairs |-> chunk(Batch(j))]
                 /\ KosTurn(j) = 2 => sent'["S"][j].seed \in Seed
      <4>1. j \in 4..r
        BY <1>6, <2>5
      <4>2. CASE j = r
        BY <4>1, <4>2, <1>3, <1>6, <2>5
      <4>3. CASE j # r
        <5>1. j \in 4..Len(sent["S"]) /\ j \in 1..Len(sent["S"])
          BY <4>1, <4>3, <2>4, <2>5
        <5> QED BY <5>1, <2>3, <2>5, <1>6 DEF Contents
      <4> QED BY <4>2, <4>3
    <3> QED BY <3>1, <3>2, <3>3, <3>4, <2>1, <2>2, <2>3 DEF Contents
  <2>6. CASE p = "R"
    <3>1. sent'["S"] = sent["S"]
      BY <2>6, <1>6 DEF Party
    <3>2. Len(sent'["R"]) >= 1 => sent'["R"][1] = [pts |-> gen("R")]
      BY <2>3, <2>4, <2>6, <1>3, <1>6 DEF Contents
    <3> QED BY <3>1, <3>2, <2>1, <2>2, <2>3 DEF Contents
  <2> QED BY <2>5, <2>6 DEF Party
<1>10. ReturnMeansBoth'
  BY <1>1, <1>2 DEF IInv, ReturnMeansBoth
<1> QED BY <1>7, <1>8, <1>9, <1>10 DEF IInv

(* A flush that returns, or a message read, takes the thread one step on, also
   when what it read makes it panic; its peer may be killed. *)
LEMMA OnePlaceOn ==
  ASSUME IInv, NEW p \in Party, mode[p] \in {"run", "flush"},
         at' = [at EXCEPT ![p] = @ + 1], mode'[p] # "flush",
         \A q \in Party : q # p => mode'[q] \in {mode[q], "killed"},
         UNCHANGED sent,
         \/ mode[p] = "flush" /\ got' = got
         \/ /\ mode[p] = "run" /\ IO(p) = "read"
            /\ got[p] < Len(sent[Peer(p)]) /\ got' = [got EXCEPT ![p] = @ + 1]
  PROVE  /\ at[p] \in 1..Last /\ at'[p] = at[p] + 1
         /\ at' \in [Party -> 1 .. Last + 1] /\ got' \in [Party -> 0..Last]
         /\ \A q \in Party : Counts(q)'
<1>2. /\ at \in [Party -> 1 .. Last + 1] /\ got \in [Party -> 0..Last]
      /\ \A q \in Party : Len(sent[q]) \in Nat
  BY DEF IInv, TypeOK
<1>3. at[p] \in 1..Last /\ at[p] \in 1..30
  <2>1. mode[p] = "done" <=> at[p] = Last + 1
    BY DEF IInv, TypeOK
  <2>2. at[p] # Last + 1 /\ at[p] \in 1 .. Last + 1
    BY <2>1, <1>2
  <2> QED BY <2>2, Places
<1>4. Counts(p) /\ Writes(p, at[p] - 1) \in 0..15 /\ Len(sent[p]) \in 0..15
  BY AtMostFifteen DEF IInv
<1>5. IO(p) \in {"read", "write"} /\
      Writes(p, at[p]) = Writes(p, at[p] - 1) + IF IO(p) = "write" THEN 1 ELSE 0
  BY <1>3, ScriptCounts DEF IO, Party
<1>6. at'[p] = at[p] + 1
  BY <1>2
<1>7. /\ Len(sent[p]) = Writes(p, at[p])
      /\ got'[p] = at[p] - Writes(p, at[p])
      /\ got'[p] <= Len(sent[Peer(p)])
  <2>1. CASE mode[p] = "flush" /\ got' = got
    <3>1. Len(sent[p]) = Writes(p, at[p] - 1) + 1 /\ IO(p) = "write"
      BY <2>1, <1>4 DEF Counts
    <3>2. Writes(p, at[p]) = Writes(p, at[p] - 1) + 1
      BY <3>1, <1>5
    <3> QED BY <2>1, <3>1, <3>2, <1>3, <1>4 DEF Counts
  <2>2. CASE /\ mode[p] = "run" /\ IO(p) = "read"
             /\ got[p] < Len(sent[Peer(p)]) /\ got' = [got EXCEPT ![p] = @ + 1]
    <3>1. Len(sent[p]) = Writes(p, at[p] - 1) /\ got[p] = at[p] - 1 - Writes(p, at[p] - 1)
      BY <2>2, <1>4 DEF Counts
    <3>2. Writes(p, at[p]) = Writes(p, at[p] - 1)
      BY <2>2, <1>4, <1>5
    <3>3. got'[p] = got[p] + 1 /\ got[p] \in Int /\ Len(sent[Peer(p)]) \in Nat
      BY <2>2, <1>2 DEF Peer, Party
    <3>4. got'[p] <= Len(sent[Peer(p)])
      BY <2>2, <3>3
    <3>5. got'[p] = at[p] - Writes(p, at[p])
      BY <3>1, <3>2, <3>3, <1>3, <1>4
    <3> QED BY <3>1, <3>2, <3>4, <3>5
  <2> QED BY <2>1, <2>2
<1>8. \A q \in Party : q # p => /\ at'[q] = at[q] /\ mode'[q] \in {mode[q], "killed"}
                               /\ got'[q] = got[q]
  BY <1>2
<1>9. at' \in [Party -> 1 .. Last + 1]
  BY <1>2, <1>3, LastIs
<1>10. got' \in [Party -> 0..Last]
  <2>1. got'[p] \in 0..Last
    <3>1. Writes(p, at[p]) \in 0..at[p]
      <4>1. at[p] \in 0..30
        BY <1>3
      <4> QED BY <4>1, WritesBound DEF Party
    <3> QED BY <3>1, <1>3, <1>7, LastIs
  <2> QED BY <1>2, <2>1
<1>11. ASSUME NEW q \in Party PROVE Counts(q)'
  <2>1. CASE q = p
    <3>1. at'[p] - 1 = at[p]
      BY <1>3, <1>6
    <3>2. mode'[p] # "flush" /\ Len(sent'[p]) = Writes(p, at'[p] - 1)
      BY <3>1, <1>7
    <3>3. got'[p] = at'[p] - 1 - Writes(p, at'[p] - 1) /\ got'[p] <= Len(sent'[Peer(p)])
      BY <3>1, <1>7
    <3> QED BY <2>1, <3>2, <3>3 DEF Counts
  <2>2. CASE q # p
    <3>1. Counts(q)
      BY DEF IInv
    <3> QED BY <2>2, <3>1, <1>8 DEF Counts, IO
  <2> QED BY <2>1, <2>2
<1> QED BY <1>3, <1>6, <1>9, <1>10, <1>11

(* A thread that goes on. *)
LEMMA AdvanceStep ==
  ASSUME IInv, NEW p \in Party, Advance(p), mode[p] \in {"run", "flush"},
         UNCHANGED <<input, key, pi, nonce, sent, up, result>>,
         \/ mode[p] = "flush" /\ got' = got
         \/ /\ mode[p] = "run" /\ IO(p) = "read"
            /\ got[p] < Len(sent[Peer(p)]) /\ got' = [got EXCEPT ![p] = @ + 1]
  PROVE  IInv'
<1>1. /\ at' = [at EXCEPT ![p] = @ + 1]
      /\ mode' = [mode EXCEPT ![p] = IF at[p] = Last THEN "done" ELSE "run"]
      /\ mode \in [Party -> {"open", "run", "flush"} \cup Over]
      /\ at \in [Party -> 1 .. Last + 1]
  BY DEF Advance, IInv, TypeOK
<1>2. /\ mode'[p] = IF at[p] = Last THEN "done" ELSE "run"
      /\ \A q \in Party : q # p => mode'[q] = mode[q] /\ at'[q] = at[q]
  BY <1>1
<1>3. /\ at[p] \in 1..Last /\ at'[p] = at[p] + 1
      /\ at' \in [Party -> 1 .. Last + 1] /\ got' \in [Party -> 0..Last]
      /\ \A q \in Party : Counts(q)'
  BY <1>1, <1>2, OnePlaceOn
<1>4. TypeOK'
  <2>1. mode' \in [Party -> {"open", "run", "flush"} \cup Over]
    BY <1>1 DEF Over
  <2>2. ASSUME NEW q \in Party PROVE mode'[q] = "done" <=> at'[q] = Last + 1
    <3>1. CASE q = p
      BY <3>1, <1>2, <1>3, LastIs
    <3>2. CASE q # p
      <4>1. mode[q] = "done" <=> at[q] = Last + 1
        BY DEF IInv, TypeOK
      <4> QED BY <4>1, <3>2, <1>2
    <3> QED BY <3>1, <3>2
  <2> QED BY <1>3, <2>1, <2>2 DEF IInv, TypeOK, Inputs
<1>5. Contents'
  BY ContentsKept
<1>6. ReturnMeansBoth'
  BY <1>2 DEF IInv, ReturnMeansBoth
<1> QED BY <1>3, <1>4, <1>5, <1>6 DEF IInv

(* No commitment and no check is the last message of a thread. *)
LEMMA RefusedBeforeLast ==
  ASSUME IInv, NEW p \in Party, mode[p] = "run", IO(p) = "read", Refused(p, got[p] + 1)
  PROVE  at[p] # Last
<1> SUFFICES ASSUME at[p] = Last PROVE FALSE
  OBVIOUS
<1>1. WithProofs /\ Last = 30
  BY LastIs DEF Refused, KosTurn
<1>2. CASE p = "S"
  <2>1. sender_io(30) = "write"
    <3>1. Writes("S", 30) = 15 /\ Writes("S", 29) = 14
      BY DEF Writes
    <3>2. 30 \in 1..30 /\ 30 - 1 = 29
      OBVIOUS
    <3> QED BY <3>1, <3>2, ScriptCounts
  <2> QED BY <1>1, <1>2, <2>1 DEF IO
<1>3. CASE p = "R"
  <2>1. got["R"] = 30 - 1 - Writes("R", 30 - 1)
    BY <1>1, <1>3 DEF IInv, Counts
  <2>2. got["R"] + 1 = 15
    BY <2>1 DEF Writes
  <2>3. KosTurn(got["R"] + 1) = 3
    BY <2>2, <1>1 DEF KosTurn
  <2> QED BY <2>3, <1>3 DEF Refused
<1> QED BY <1>2, <1>3 DEF Party

(* A thread that panics on a commitment or on a check. *)
LEMMA RefusedStep ==
  ASSUME IInv, NEW p \in Party, mode[p] = "run", IO(p) = "read",
         got[p] < Len(sent[Peer(p)]), got' = [got EXCEPT ![p] = @ + 1],
         Refused(p, got[p] + 1), Panic(p), at' = [at EXCEPT ![p] = @ + 1],
         UNCHANGED <<input, key, pi, nonce, sent, up>>
  PROVE  IInv'
<1>1. /\ at \in [Party -> 1 .. Last + 1]
      /\ mode'[p] = "panic"
      /\ \A q \in Party : q # p =>
           /\ mode'[q] \in {mode[q], "killed"} /\ at'[q] = at[q]
           /\ mode'[q] = "done" <=> mode[q] = "done"
  BY DEF Panic, Ended, Over, IInv, TypeOK
<1>2. /\ at[p] \in 1..Last /\ at'[p] = at[p] + 1
      /\ at' \in [Party -> 1 .. Last + 1] /\ got' \in [Party -> 0..Last]
      /\ \A q \in Party : Counts(q)'
  BY <1>1, OnePlaceOn
<1>3. TypeOK'
  <2>1. mode' \in [Party -> {"open", "run", "flush"} \cup Over]
    BY DEF IInv, TypeOK, Panic, Over
  <2>2. result' \in {"pending", "returned", "panic"}
    BY DEF IInv, TypeOK, Panic
  <2>3. ASSUME NEW q \in Party PROVE mode'[q] = "done" <=> at'[q] = Last + 1
    <3>1. CASE q = p
      BY <3>1, <1>1, <1>2, RefusedBeforeLast, LastIs
    <3>2. CASE q # p
      <4>1. mode[q] = "done" <=> at[q] = Last + 1
        BY DEF IInv, TypeOK
      <4> QED BY <4>1, <3>2, <1>1
    <3> QED BY <3>1, <3>2
  <2> QED BY <1>2, <2>1, <2>2, <2>3 DEF IInv, TypeOK, Inputs
<1>4. Contents'
  BY ContentsKept
<1>5. ReturnMeansBoth'
  BY <1>1 DEF IInv, ReturnMeansBoth, Panic
<1> QED BY <1>2, <1>3, <1>4, <1>5 DEF IInv

(* The two functions start with threads that have sent nothing. *)
LEMMA InitIInv == Init => IInv
<1> SUFFICES ASSUME Init PROVE IInv
  OBVIOUS
<1>1. TypeOK
  BY LastIs DEF Init, TypeOK, Over
<1>2. ASSUME NEW p \in Party PROVE Counts(p)
  <2>1. at[p] = 1 /\ got[p] = 0 /\ sent[p] = <<>> /\ sent[Peer(p)] = <<>>
    BY DEF Init, Party, Peer
  <2>2. Writes(p, at[p] - 1) = 0
    BY <2>1, WritesBound DEF Party, Writes
  <2> QED BY <2>1, <2>2 DEF Counts, Init
<1>3. Contents
  BY DEF Init, Contents, Party
<1> QED BY <1>1, <1>2, <1>3 DEF Init, IInv, ReturnMeansBoth

(* Every step of the two threads and of the connection preserves it. *)
LEMMA NextIInv == IInv /\ [Next]_vars => IInv'
<1> SUFFICES ASSUME IInv, [Next]_vars PROVE IInv'
  OBVIOUS
<1>1. ASSUME NEW p \in Party, Open(p) PROVE IInv'
  BY <1>1, OpenStep
<1>2. ASSUME NEW p \in Party, Write(p) PROVE IInv'
  BY <1>2, WriteStep
<1>3. ASSUME NEW p \in Party, Flush(p) PROVE IInv'
  BY <1>3, AdvanceStep DEF Flush
<1>4. ASSUME NEW p \in Party, Read(p) PROVE IInv'
  <2>1. CASE Refused(p, got[p] + 1)
    BY <1>4, <2>1, RefusedStep DEF Read
  <2>2. CASE ~Refused(p, got[p] + 1)
    BY <1>4, <2>2, AdvanceStep DEF Read
  <2> QED BY <2>1, <2>2
<1>5. ASSUME NEW p \in Party, WriteFails(p) PROVE IInv'
  BY <1>5, PanicStep DEF WriteFails, Ended, Over
<1>6. ASSUME NEW p \in Party, ReadFails(p) PROVE IInv'
  BY <1>6, PanicStep DEF ReadFails, Ended, Over
<1>7. CASE Join
  <2>1. TypeOK'
    BY <1>7 DEF IInv, TypeOK, Join
  <2>2. Contents' /\ \A p \in Party : Counts(p)'
    BY <1>7, ContentsKept, CountsKept DEF Join
  <2>3. ReturnMeansBoth'
    BY <1>7 DEF Join, ReturnMeansBoth, Party
  <2> QED BY <2>1, <2>2, <2>3 DEF IInv
<1>8. CASE Reset
  <2>1. TypeOK'
    BY <1>8 DEF IInv, TypeOK, Reset
  <2>2. Contents' /\ \A p \in Party : Counts(p)'
    BY <1>8, ContentsKept, CountsKept DEF Reset
  <2>3. ReturnMeansBoth'
    BY <1>8 DEF IInv, Reset, ReturnMeansBoth
  <2> QED BY <2>1, <2>2, <2>3 DEF IInv
<1>9. CASE Finished \/ UNCHANGED vars
  <2>1. UNCHANGED vars
    BY <1>9 DEF Finished
  <2>2. TypeOK'
    BY <2>1 DEF IInv, TypeOK, vars
  <2>3. Contents' /\ \A p \in Party : Counts(p)'
    BY <2>1, ContentsKept, CountsKept DEF vars
  <2>4. ReturnMeansBoth'
    BY <2>1 DEF IInv, ReturnMeansBoth, vars
  <2> QED BY <2>2, <2>3, <2>4 DEF IInv
<1> QED BY <1>1, <1>2, <1>3, <1>4, <1>5, <1>6, <1>7, <1>8, <1>9 DEF Next, Step

(* The inductive invariant holds throughout semi_honest_psu1 and
   sender_malicious_psu1. *)
THEOREM Invariance == Spec => []IInv
BY InitIInv, NextIInv, PTL DEF Spec

(* The messages, counters and results of semi_honest_psu1 and
   sender_malicious_psu1 keep their types: neither thread runs past the end of
   its script. *)
THEOREM TypeCorrect == Spec => []TypeOK
<1>1. IInv => TypeOK
  BY DEF IInv
<1> QED BY <1>1, Invariance, PTL

-----------------------------------------------------------------------------
(* What the invariant is for. *)

(* An entry blinded by both keys identifies its item, whichever key came
   first. *)
LEMMA BlindedTwice ==
  ASSUME NEW j \in Key, NEW k \in Key, NEW x \in Item, NEW y \in Item
  PROVE  Mul(j, MulClamped(k, hash_to_curve(x))) = Mul(k, MulClamped(j, hash_to_curve(y)))
           <=> x = y
<1>1. hash_to_curve(x) \in Point /\ hash_to_curve(y) \in Point
  BY OneSidedAssumption
<1>2. /\ MulClamped(k, hash_to_curve(x)) \in Group
      /\ MulClamped(k, hash_to_curve(y)) \in Group
      /\ Mul(k, MulClamped(j, hash_to_curve(y))) = Mul(j, MulClamped(k, hash_to_curve(y)))
  BY <1>1, ClampedLaws
<1>3. ASSUME Mul(j, MulClamped(k, hash_to_curve(x))) = Mul(j, MulClamped(k, hash_to_curve(y)))
      PROVE  x = y
  <2>1. MulClamped(k, hash_to_curve(x)) = MulClamped(k, hash_to_curve(y))
    BY <1>2, <1>3, GroupLaws, CurveSets
  <2> QED BY <2>1, HashInjective
<1> QED BY <1>2, <1>3

(* When the receiver's part is over it has read every message of the sender,
   and they are what Contents says. *)
LEMMA AllRead ==
  ASSUME IInv, mode["R"] = "done"
  PROVE  /\ Got("R", 1).pts = gen("S")
         /\ Got("R", 2).pts = double_blinded
         /\ \A b \in 1..Batches : Got("R", 3 + Turns * b).pairs = chunk(b)
<1>1. at["R"] = Last + 1
  BY DEF IInv, TypeOK, Party
<1>2. Len(sent["S"]) >= 3 + Turns * Batches
  <2>1. Counts("R") /\ Len(sent["S"]) \in Nat
    BY DEF IInv, TypeOK, Party
  <2>2. Writes("R", Last) = 3 + Turns * Batches
    BY LastIs DEF Writes
  <2>3. got["R"] = Last - Writes("R", Last) /\ got["R"] <= Len(sent["S"])
    BY <2>1, <1>1, LastIs DEF Counts, Peer
  <2> QED BY <2>1, <2>2, <2>3, LastIs
<1>3. Contents /\ Len(sent["S"]) \in 0..15
  BY AtMostFifteen DEF IInv, Party
<1>4. ASSUME NEW b \in 1..Batches PROVE Got("R", 3 + Turns * b).pairs = chunk(b)
  <2>1. /\ 3 + Turns * b \in 4 .. 3 + Turns * Batches
        /\ Batch(3 + Turns * b) = b /\ KosTurn(3 + Turns * b) \in {0, 3}
    BY PairsAt
  <2>2. 3 + Turns * b \in 4..Len(sent["S"])
    <3> DEFINE r == 3 + Turns * b
               l == 3 + Turns * Batches
    <3>1. r \in 4..l /\ l \in 4..15 /\ Len(sent["S"]) >= l
      BY <2>1, <1>2, LastIs
    <3> HIDE DEF r, l
    <3>2. r \in 4..Len(sent["S"])
      BY <3>1, <1>3
    <3> QED BY <3>2 DEF r
  <2>3. sent["S"][3 + Turns * b] = [pairs |-> chunk(b)]
    BY <2>1, <2>2, <1>3 DEF Contents
  <2> QED BY <2>3 DEF Got, Peer
<1>5. Len(sent["S"]) >= 2
  BY <1>2, <1>3, LastIs
<1> QED BY <1>3, <1>4, <1>5 DEF Contents, Got, Peer

(* compare marks exactly the entries whose item the receiver has. *)
LEMMA CompareExact ==
  ASSUME IInv, mode["R"] = "done", NEW i \in 1..NS
  PROVE  compare[i] <=> input["S"][i] \in Range(input["R"])
<1>1. /\ input["S"] \in [1..NS -> Item] /\ input["R"] \in [1..NR -> Item]
      /\ key["S"] \in Key /\ key["R"] \in Key
      /\ pi \in [1..NR -> 1..NR] /\ \A l \in 1..NR : \E j \in 1..NR : pi[j] = l
  BY OneSidedAssumption DEF IInv, TypeOK, Inputs, Party, Bijection, Injection, Surjection
<1>2. DOMAIN gen("S") = 1..NS /\ DOMAIN gen("R") = 1..NR
  BY <1>1 DEF gen
<1>3. compare[i] <=> \E j \in 1..NR : Mul(key["R"], gen("S")[i]) = double_blinded[j]
  <2>1. blind = [l \in 1..NS |-> Mul(key["R"], gen("S")[l])]
    BY <1>2, AllRead DEF blind
  <2>2. compare[i] = (blind[i] \in Range(double_blinded))
    BY <2>1, AllRead DEF compare
  <2>3. DOMAIN double_blinded = 1..NR
    BY DEF double_blinded
  <2> QED BY <2>1, <2>2, <2>3 DEF Range
<1>4. ASSUME NEW j \in 1..NR
      PROVE  Mul(key["R"], gen("S")[i]) = double_blinded[j] <=> input["S"][i] = input["R"][pi[j]]
  <2>1. double_blinded[j] = Mul(key["S"], MulClamped(key["R"], hash_to_curve(input["R"][pi[j]])))
    BY <1>1, <1>2 DEF double_blinded, gen
  <2>2. gen("S")[i] = MulClamped(key["S"], hash_to_curve(input["S"][i]))
    BY <1>1 DEF gen
  <2>3. input["S"][i] \in Item /\ input["R"][pi[j]] \in Item
    BY <1>1
  <2> QED BY <2>1, <2>2, <2>3, <1>1, BlindedTwice
<1>5. input["S"][i] \in Range(input["R"]) <=> \E l \in 1..NR : input["S"][i] = input["R"][l]
  BY <1>1 DEF Range
<1>6. compare[i] <=> \E j \in 1..NR : input["S"][i] = input["R"][pi[j]]
  BY <1>3, <1>4
<1>7. ASSUME NEW l \in 1..NR PROVE \E j \in 1..NR : pi[j] = l
  BY <1>1
<1>8. \A j \in 1..NR : pi[j] \in 1..NR
  BY <1>1
<1>9. (\E l \in 1..NR : input["S"][i] = input["R"][l])
        <=> (\E j \in 1..NR : input["S"][i] = input["R"][pi[j]])
  BY <1>7, <1>8
<1> QED BY <1>5, <1>6, <1>9

(* The receiver keeps the first block of a pair unless it has the item. *)
LEMMA Received ==
  ASSUME IInv, mode["R"] = "done", NEW b \in 1..Batches, NEW i \in 1..NS
  PROVE  receive(b)[i] =
           IF compare[i] THEN Perp ELSE <<input["S"][i], c(i), Low(z(i)), High(z(i))>>[b]
<1>1. Got("R", 3 + Turns * b).pairs = chunk(b)
  BY AllRead
<1>2. receive(b)[i] = chunk(b)[i][IF compare[i] THEN 2 ELSE 1]
  BY <1>1 DEF receive, chunk
<1> QED BY <1>2 DEF chunk

(* The receiver of both one-sided protocols ends with exactly the union, for
   all inputs, whatever happened to the connection. *)
THEOREM ReceiverGetsUnion == Spec => []UnionExact
<1>1. IInv => UnionExact
  <2> SUFFICES ASSUME IInv, mode["R"] = "done", NEW i \in 1..NS
               PROVE  receive(1)[i] = IF input["S"][i] \in Range(input["R"])
                                      THEN Perp ELSE input["S"][i]
    BY DEF UnionExact
  <2>1. 1 \in 1..Batches
    BY LastIs
  <2>2. receive(1)[i] = IF compare[i] THEN Perp ELSE input["S"][i]
    BY <2>1, Received
  <2> QED BY <2>2, CompareExact
<1> QED BY <1>1, Invariance, PTL

(* The check sender_malicious_psu1 computes on every item the receiver learns
   would pass: challenge and response arrive whole and in their order. *)
THEOREM ChecksWouldPass == Spec => []ProofsVerify
<1>1. IInv => ProofsVerify
  <2> SUFFICES ASSUME IInv, mode["R"] = "done", WithProofs, NEW i \in 1..NS, ~compare[i]
               PROVE  hc(i) = receive(2)[i]
    BY DEF ProofsVerify
  <2> DEFINE P == hash_to_curve(input["S"][i])
  <2>1. Batches = 4
    BY DEF Batches
  <2>2. /\ receive(1)[i] = input["S"][i] /\ receive(2)[i] = c(i)
        /\ receive(3)[i] = Low(z(i)) /\ receive(4)[i] = High(z(i))
    BY <2>1, Received
  <2>3. P \in Point /\ key["S"] \in Key /\ nonce[i] \in Nonce
    BY OneSidedAssumption DEF IInv, TypeOK, Inputs, Party
  <2>4. Got("R", 1).pts[i] = gen("S")[i] /\ gen("S")[i] = MulClamped(key["S"], P)
    BY AllRead, OneSidedAssumption DEF IInv, TypeOK, Inputs, gen
  <2>5. c(i) \in Scalar /\ z(i) \in Scalar
    BY ProofType DEF IInv
  <2>6. combine_array(receive(3)[i], receive(4)[i]) = z(i)
    BY <2>2, <2>5, ProofLaws
  <2>7. multiscalar_mul(z(i), mul_by_cofactor(P), c(i), gen("S")[i]) = MulClamped(nonce[i], P)
    BY <2>3, <2>4, <2>5, ProofLaws DEF z
  <2>8. hc(i) = challenge(P, gen("S")[i], MulClamped(nonce[i], P))
    BY <2>2, <2>4, <2>6, <2>7 DEF hc
  <2> QED BY <2>2, <2>8 DEF c
<1> QED BY <1>1, Invariance, PTL

(* The threads of both functions, through the base transfers and every turn of an
   Alsz or a Kos batch, never have messages in flight both ways, whatever a
   deviating party commits to or checks. *)
THEOREM NeverBothWays == Spec => []OneWayAtATime
<1>1. IInv => OneWayAtATime
  <2> SUFFICES ASSUME IInv PROVE OneWayAtATime
    OBVIOUS
  <2>1. ASSUME NEW p \in Party
        PROVE  /\ got[p] \in Nat /\ Len(sent[p]) \in Nat
               /\ got[p] <= Len(sent[Peer(p)])
               /\ p = "S" => Len(sent[p]) <= IF got[p] <= 2 THEN got[p] + 1 ELSE got[p]
               /\ p = "R" => Len(sent[p]) <= IF got[p] <= 2 THEN got[p] ELSE got[p] + 1
    <3>1. /\ Counts(p) /\ got[p] \in Nat /\ Len(sent[p]) \in Nat
          /\ at[p] \in 1..31 /\ Writes(p, at[p] - 1) \in 0..15
      <4>1. got[p] \in 0..Last /\ sent[p] \in Seq(Message) /\ Counts(p)
        BY DEF IInv, TypeOK
      <4>2. at[p] \in 1..31 /\ Writes(p, at[p] - 1) \in 0..15
        BY AtMostFifteen
      <4> QED BY <4>1, <4>2, LastIs
    <3>2. CASE Len(sent[p]) = Writes(p, at[p] - 1)
      <4>1. at[p] - 1 \in 0..30
        BY <3>1
      <4> QED BY <3>1, <3>2, <4>1, WritesBound DEF Counts, Party
    <3>3. CASE Len(sent[p]) # Writes(p, at[p] - 1)
      <4>1. at[p] \in 0..30 /\ at[p] \in 1..30 /\ IO(p) = "write"
            /\ Len(sent[p]) = Writes(p, at[p] - 1) + 1
        BY <3>1, <3>3, LastIs DEF Counts
      <4>2. Writes(p, at[p]) = Len(sent[p]) /\ at[p] - Writes(p, at[p]) = got[p]
        <5>1. Writes(p, at[p]) = Writes(p, at[p] - 1) + 1
          BY <4>1, ScriptCounts DEF IO, Party
        <5>2. got[p] = at[p] - 1 - Writes(p, at[p] - 1)
          BY <3>1 DEF Counts
        <5>3. at[p] - Writes(p, at[p]) = got[p]
          <6> DEFINE w == Writes(p, at[p] - 1)
                     v == Writes(p, at[p])
          <6>1. w \in 0..15 /\ at[p] \in 1..31 /\ v = w + 1 /\ got[p] = at[p] - 1 - w
            BY <5>1, <5>2, <3>1
          <6> HIDE DEF w, v
          <6>2. at[p] - v = got[p]
            BY <6>1
          <6> QED BY <6>2 DEF v
        <5> QED BY <5>1, <5>3, <4>1
      <4> QED BY <3>1, <4>1, <4>2, WritesBound DEF Counts, Party
    <3> QED BY <3>2, <3>3
  <2>2. /\ got["S"] \in Nat /\ Len(sent["S"]) \in Nat
        /\ got["S"] <= Len(sent["R"])
        /\ Len(sent["S"]) <= IF got["S"] <= 2 THEN got["S"] + 1 ELSE got["S"]
    BY <2>1 DEF Party, Peer
  <2>3. /\ got["R"] \in Nat /\ Len(sent["R"]) \in Nat
        /\ got["R"] <= Len(sent["S"])
        /\ Len(sent["R"]) <= IF got["R"] <= 2 THEN got["R"] ELSE got["R"] + 1
    BY <2>1 DEF Party, Peer
  <2> QED BY <2>2, <2>3 DEF OneWayAtATime, InFlight, Peer
<1> QED BY <1>1, Invariance, PTL

(* Neither function returns before both threads have run to their end. *)
THEOREM ReturnsAfterBoth == Spec => []ReturnMeansBoth
<1>1. IInv => ReturnMeansBoth
  BY DEF IInv
<1> QED BY <1>1, Invariance, PTL
=============================================================================
