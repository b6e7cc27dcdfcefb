----------------------------- MODULE SizesProofs -----------------------------
(***************************************************************************)
(* The lengths of the two-sided protocol, for sizes without bound: vectors   *)
(* that do not fit never lead to an output.                                  *)
(***************************************************************************)
EXTENDS Sizes, TLAPS

(* The writes among the first k steps of a thread: one's reads are its peer's
   writes, step by step. *)
Writes(p, k) ==
  IF p = Server THEN IF k < 1 THEN 0 ELSE IF k < 3 THEN 1 ELSE IF k < 6 THEN 2 ELSE IF k < 9 THEN 3 ELSE 4
  ELSE IF k < 2 THEN 0 ELSE IF k < 4 THEN 1 ELSE IF k < 7 THEN 2 ELSE IF k < 10 THEN 3 ELSE 4

(* Messages are counted by the steps taken, and read after they were written. *)
Counted ==
  \A p \in Party : /\ sent[p] = Writes(p, step[p] - 1)
                   /\ got[p] = Writes(Peer(p), step[p] - 1)
                   /\ got[p] <= sent[Peer(p)]

(* Threads run once both parties are made; one past blind_shuffle has found its
   lengths to fit, one past final_response has verified its peer's proof. *)
Passed ==
  \A p \in Party : /\ pc[p] = "new" => step[p] = 1
                   /\ (pc[p] = "run" \/ step[p] > 1) => new("L") /\ new("R")
                   /\ step[p] > 5 => blind_shuffle(p)
                   /\ step[p] > 8 => verifies(p)
                   /\ pc[p] = "done" => step[p] = 11

IInv == TypeOK /\ Counted /\ Passed

\* The programs of the two threads read and write as counted.
LEMMA ProgramCounts ==
  ASSUME NEW p \in Party, NEW k \in 1..11
  PROVE  /\ Program(p)[k] \in {"write", "read", "blind", "final", "reveal"}
         /\ Writes(p, k) = Writes(p, k - 1) + IF Program(p)[k] = "write" THEN 1 ELSE 0
         /\ Writes(Peer(p), k) = Writes(Peer(p), k - 1) + IF Program(p)[k] = "read" THEN 1 ELSE 0
         /\ Program(p)[k] = "blind" <=> k = 5
         /\ Program(p)[k] = "final" <=> k = 8
         /\ Program(p)[k] = "reveal" <=> k = 11
         /\ Writes(p, k) \in 0..4
<1>1. k = 1 \/ k = 2 \/ k = 3 \/ k = 4 \/ k = 5 \/ k = 6 \/ k = 7 \/ k = 8 \/ k = 9 \/ k = 10 \/ k = 11
  OBVIOUS
<1>2. CASE p = "R"
  BY <1>1, <1>2 DEF Program, Writes, Server, Peer
<1>3. CASE p = "L"
  BY <1>1, <1>3 DEF Program, Writes, Server, Peer
<1> QED
  BY <1>2, <1>3 DEF Party

\* A call starts with nothing sent.
LEMMA InitIInv == Init => IInv
  BY DEF Init, IInv, TypeOK, Counted, Passed, Writes, Party, Over, Server, Peer

\* What the sizes decide does not change.
LEMMA SizesKept ==
  ASSUME UNCHANGED sizes
  PROVE  /\ \A p \in Party : new(p)' = new(p) /\ blind_shuffle(p)' = blind_shuffle(p)
                             /\ verifies(p)' = verifies(p)
         /\ TypeOK => (pp' \in Size /\ n' \in [Party -> Size] /\ other' \in [Party -> Size]
                       /\ items' \in [Party -> Size])
  BY DEF sizes, new, blind_shuffle, verifies, commit, TypeOK

\* A step that only ends a thread keeps the counts.
LEMMA EndStep ==
  ASSUME IInv, UNCHANGED <<sizes, step, sent, got>>,
         NEW p \in Party, NEW e \in {"panic", "none"}, pc' = [pc EXCEPT ![p] = e]
  PROVE  IInv'
<1>1. TypeOK'
  BY SizesKept DEF IInv, TypeOK, Over
<1>2. Counted'
  BY DEF IInv, Counted
<1>3. Passed'
  BY SizesKept DEF IInv, Passed, TypeOK, Over, Party
<1> QED
  BY <1>1, <1>2, <1>3 DEF IInv

\* A thread that goes on past step k, having met what that step checks.
LEMMA GoOnStep ==
  ASSUME IInv, UNCHANGED sizes, NEW p \in Party, pc[p] = "run", GoOn(p),
         sent' = [sent EXCEPT ![p] = Writes(p, step[p])],
         got' = [got EXCEPT ![p] = Writes(Peer(p), step[p])],
         Writes(Peer(p), step[p]) <= sent[Peer(p)],
         step[p] # 11,
         step[p] = 5 => blind_shuffle(p),
         step[p] = 8 => verifies(p)
  PROVE  IInv'
<1> USE DEF IInv
<1>1. step[p] \in 1..10 /\ step'[p] = step[p] + 1 /\ step' \in [Party -> 1..11] /\ pc' = pc
      /\ \A q \in Party : q # p => step'[q] = step[q]
  BY DEF TypeOK, GoOn
<1>2. Peer(p) \in Party /\ Peer(p) # p /\ Peer(Peer(p)) = p
  BY DEF Party, Peer
<1>3. Writes(p, step[p]) \in 0..4 /\ Writes(Peer(p), step[p]) \in 0..4
      /\ Writes(p, step[p]) >= Writes(p, step[p] - 1)
  BY <1>1, <1>2, ProgramCounts DEF Writes
<1>4. TypeOK'
  BY <1>1, <1>3, SizesKept DEF TypeOK
<1>5. Counted'
  <2>1. ASSUME NEW q \in Party
        PROVE  /\ sent'[q] = Writes(q, step'[q] - 1) /\ got'[q] = Writes(Peer(q), step'[q] - 1)
               /\ got'[q] <= sent'[Peer(q)]
    <3>1. CASE q = p
      BY <3>1, <1>1, <1>2, <1>3 DEF TypeOK
    <3>2. CASE q # p
      <4>1. q = Peer(p) /\ Peer(q) = p
        BY <3>2 DEF Party, Peer
      <4>2. sent'[q] = sent[q] /\ got'[q] = got[q] /\ step'[q] = step[q]
        BY <3>2, <1>1 DEF TypeOK
      <4>3. got[q] <= sent[p] /\ sent[p] = Writes(p, step[p] - 1) /\ sent'[p] = Writes(p, step[p])
        BY <4>1 DEF Counted, TypeOK
      <4>4. got[q] \in 0..4
        BY DEF TypeOK
      <4>5. Writes(p, step[p] - 1) \in 0..4
        BY <4>3 DEF TypeOK
      <4> QED
        BY <4>1, <4>2, <4>3, <4>4, <4>5, <1>3 DEF Counted
    <3> QED
      BY <3>1, <3>2
  <2> QED
    BY <2>1 DEF Counted
<1>6. Passed'
  <2>1. ASSUME NEW q \in Party
        PROVE  /\ pc'[q] = "new" => step'[q] = 1
               /\ (pc'[q] = "run" \/ step'[q] > 1) => new("L") /\ new("R")
               /\ step'[q] > 5 => blind_shuffle(q)
               /\ step'[q] > 8 => verifies(q)
               /\ pc'[q] = "done" => step'[q] = 11
    <3>1. CASE q = p
      BY <3>1, <1>1 DEF Passed
    <3>2. CASE q # p
      BY <3>2, <1>1 DEF Passed
    <3> QED
      BY <3>1, <3>2
  <2>2. \A q \in Party : (new(q) <=> new(q)') /\ (blind_shuffle(q) <=> blind_shuffle(q)')
                         /\ (verifies(q) <=> verifies(q)')
    BY SizesKept
  <2>3. "L" \in Party /\ "R" \in Party
    BY DEF Party
  <2> QED
    BY <2>1, <2>2, <2>3 DEF Passed
<1> QED
  BY <1>4, <1>5, <1>6

\* Every action keeps the invariant.
LEMMA NextIInv == IInv /\ [Next]_vars => IInv'
<1> SUFFICES ASSUME IInv, [Next]_vars PROVE IInv'
  OBVIOUS
<1>0. /\ TypeOK /\ Counted /\ Passed
      /\ \A p \in Party : step[p] \in 1..11 /\ sent[p] \in 0..4 /\ got[p] \in 0..4
  BY DEF IInv, TypeOK
<1>1. CASE New
  <2>1. /\ UNCHANGED <<sizes, step, sent, got>>
        /\ \/ pc' = [q \in Party |-> "run"] /\ new("L") /\ new("R")
           \/ pc' = [q \in Party |-> "panic"]
    BY <1>1 DEF New
  <2>2. TypeOK' /\ Counted'
    BY <2>1, <1>0, SizesKept DEF TypeOK, Counted, Over
  <2>3. \A q \in Party : (new(q) <=> new(q)') /\ (blind_shuffle(q) <=> blind_shuffle(q)')
                         /\ (verifies(q) <=> verifies(q)')
    BY <2>1, SizesKept
  <2>4. Passed'
    BY <2>1, <2>3, <1>0 DEF Passed, Party
  <2> QED
    BY <2>2, <2>4 DEF IInv
<1>2. ASSUME NEW p \in Party, Write(p) PROVE IInv'
  <2>1. pc[p] = "run" /\ Program(p)[step[p]] = "write" /\ GoOn(p) /\ UNCHANGED <<sizes, got>>
        /\ sent' = [sent EXCEPT ![p] = @ + 1]
    BY <1>2 DEF Write, At
  <2>2. /\ Writes(p, step[p]) = Writes(p, step[p] - 1) + 1
        /\ Writes(Peer(p), step[p]) = Writes(Peer(p), step[p] - 1) + 0
        /\ step[p] # 5 /\ step[p] # 8 /\ step[p] # 11
    BY <2>1, <1>0, ProgramCounts
  <2>3. sent[p] = Writes(p, step[p] - 1) /\ got[p] = Writes(Peer(p), step[p] - 1)
        /\ got[p] <= sent[Peer(p)]
    BY <1>0 DEF Counted
  <2>4. Writes(Peer(p), step[p]) = got[p]
    BY <2>2, <2>3, <1>0
  <2>5. got' = [got EXCEPT ![p] = Writes(Peer(p), step[p])]
    BY <2>1, <2>4, <1>0 DEF TypeOK
  <2> QED
    BY <2>1, <2>2, <2>3, <2>4, <2>5, GoOnStep
<1>3. ASSUME NEW p \in Party, Read(p) PROVE IInv'
  <2>1. pc[p] = "run" /\ Program(p)[step[p]] = "read" /\ GoOn(p) /\ UNCHANGED <<sizes, sent>>
        /\ got' = [got EXCEPT ![p] = @ + 1] /\ got[p] < sent[Peer(p)]
    BY <1>3 DEF Read, At
  <2>2. /\ Writes(p, step[p]) = Writes(p, step[p] - 1) + 0
        /\ Writes(Peer(p), step[p]) = Writes(Peer(p), step[p] - 1) + 1
        /\ step[p] # 5 /\ step[p] # 8 /\ step[p] # 11
    BY <2>1, <1>0, ProgramCounts
  <2>3. sent[p] = Writes(p, step[p] - 1) /\ got[p] = Writes(Peer(p), step[p] - 1)
    BY <1>0 DEF Counted
  <2>4. Writes(p, step[p]) = sent[p] /\ Writes(Peer(p), step[p]) = got[p] + 1
    BY <2>2, <2>3, <1>0
  <2>5. sent' = [sent EXCEPT ![p] = Writes(p, step[p])]
    BY <2>1, <2>4, <1>0 DEF TypeOK
  <2>6. Peer(p) \in Party
    BY DEF Party, Peer
  <2>7. Writes(Peer(p), step[p]) <= sent[Peer(p)]
    BY <2>1, <2>4, <2>6, <1>0
  <2> QED
    BY <2>1, <2>2, <2>4, <2>5, <2>7, GoOnStep
<1>4. ASSUME NEW p \in Party, IOFails(p) PROVE IInv'
  BY <1>4, EndStep DEF IOFails, Panic
<1>5. ASSUME NEW p \in Party, BlindShuffle(p) \/ FinalResponse(p) PROVE IInv'
  <2>1. \/ pc' = [pc EXCEPT ![p] = "panic"] /\ UNCHANGED <<sizes, step, sent, got>>
        \/ pc' = [pc EXCEPT ![p] = "none"] /\ UNCHANGED <<sizes, step, sent, got>>
        \/ /\ GoOn(p) /\ UNCHANGED <<sizes, sent, got>> /\ pc[p] = "run"
           /\ \/ Program(p)[step[p]] = "blind" /\ blind_shuffle(p)
              \/ Program(p)[step[p]] = "final" /\ verifies(p)
    <3>1. CASE BlindShuffle(p)
      BY <3>1 DEF BlindShuffle, Panic, At
    <3>2. CASE FinalResponse(p)
      BY <3>2 DEF FinalResponse, Panic, ReturnNone, At
    <3> QED
      BY <1>5, <3>1, <3>2
  <2>2. CASE /\ GoOn(p) /\ UNCHANGED <<sizes, sent, got>> /\ pc[p] = "run"
             /\ \/ Program(p)[step[p]] = "blind" /\ blind_shuffle(p)
                \/ Program(p)[step[p]] = "final" /\ verifies(p)
    <3>2. /\ Writes(p, step[p]) = Writes(p, step[p] - 1) + 0
          /\ Writes(Peer(p), step[p]) = Writes(Peer(p), step[p] - 1) + 0
          /\ (step[p] = 5 /\ blind_shuffle(p)) \/ (step[p] = 8 /\ verifies(p))
      BY <2>2, <1>0, ProgramCounts
    <3>3. sent[p] = Writes(p, step[p] - 1) /\ got[p] = Writes(Peer(p), step[p] - 1)
          /\ got[p] <= sent[Peer(p)]
      BY <1>0 DEF Counted
    <3>4. Writes(p, step[p]) = sent[p] /\ Writes(Peer(p), step[p]) = got[p]
      BY <3>2, <3>3, <1>0
    <3>5. sent' = [sent EXCEPT ![p] = Writes(p, step[p])] /\ got' = [got EXCEPT ![p] = Writes(Peer(p), step[p])]
      BY <2>2, <3>4, <1>0 DEF TypeOK
    <3>6. step[p] # 11 /\ (step[p] = 5 => blind_shuffle(p)) /\ (step[p] = 8 => verifies(p))
      BY <3>2
    <3> QED
      BY <2>2, <3>3, <3>4, <3>5, <3>6, GoOnStep
  <2> QED
    BY <2>1, <2>2, EndStep
<1>6. ASSUME NEW p \in Party, RevealItems(p) PROVE IInv'
  <2>1. pc[p] = "run" /\ step[p] = 11 /\ pc' = [pc EXCEPT ![p] = "done"] /\ UNCHANGED <<sizes, step, sent, got>>
    BY <1>6, <1>0, ProgramCounts DEF RevealItems, At
  <2>2. TypeOK' /\ Counted'
    BY <2>1, <1>0, SizesKept DEF TypeOK, Counted, Over
  <2>3. \A q \in Party : (new(q) <=> new(q)') /\ (blind_shuffle(q) <=> blind_shuffle(q)')
                         /\ (verifies(q) <=> verifies(q)')
    BY <2>1, SizesKept
  <2>4. Passed'
    BY <2>1, <2>3, <1>0 DEF Passed, Party, TypeOK
  <2> QED
    BY <2>2, <2>4 DEF IInv
<1>7. CASE UNCHANGED vars
  BY <1>7, <1>0 DEF vars, IInv, TypeOK, Counted, Passed, new, blind_shuffle, verifies, commit
<1> QED
  BY <1>1, <1>2, <1>3, <1>4, <1>5, <1>6, <1>7 DEF Next, Step, Finished

\* The invariant holds throughout.
LEMMA Inductive == Spec => []IInv
<1>1. Init => IInv
  BY InitIInv
<1>2. IInv /\ [Next]_vars => IInv'
  BY NextIInv
<1> QED
  BY <1>1, <1>2, PTL DEF Spec

\* OutputMeansFit: whatever lengths the caller passes to setup_params and to both
\* calls of Party::new, and whatever the sets hold, a party of protocol that has
\* its items, or is in the last round, had lengths that all agree.
THEOREM FitForEverySize == Spec => []OutputMeansFit
<1>1. IInv => OutputMeansFit
  <2> SUFFICES ASSUME IInv, NEW p \in Party, step[p] > 8 \/ pc[p] = "done"
               PROVE  AllAgree /\ pp >= 2
    BY DEF OutputMeansFit
  <2>0. TypeOK /\ Counted /\ Passed /\ Peer(p) \in Party /\ p \in Party /\ Peer(Peer(p)) = p
    BY DEF IInv, Party, Peer
  <2>1. step[p] \in 9..11 /\ step[Peer(p)] \in 1..11
    BY <2>0 DEF Passed, TypeOK
  <2>2. new("L") /\ new("R") /\ blind_shuffle(p) /\ verifies(p)
    BY <2>0, <2>1 DEF Passed
  <2>3. blind_shuffle(Peer(p))
    <3>1. got[p] >= 3 /\ got[p] <= sent[Peer(p)] /\ sent[Peer(p)] = Writes(Peer(p), step[Peer(p)] - 1)
      BY <2>0, <2>1 DEF Counted, Writes
    <3>2. got[p] \in 0..4 /\ sent[Peer(p)] \in 0..4
      BY <2>0 DEF TypeOK
    <3>3. step[Peer(p)] > 5
      BY <3>1, <3>2, <2>1 DEF Writes
    <3> QED
      BY <3>3, <2>0 DEF Passed
  <2>4. items[p] \in Nat /\ items[Peer(p)] \in Nat /\ pp \in Nat
    BY <2>0, SizesAssumption DEF TypeOK, Size
  <2>5. items[Peer(p)] = n[p] /\ items[p] = n[Peer(p)] /\ items[p] >= 2
    BY <2>0, <2>2, <2>3 DEF blind_shuffle, verifies
  <2>6. n["L"] = pp /\ n["R"] = pp /\ other["L"] = pp /\ other["R"] = pp
    BY <2>2 DEF new, commit
  <2> QED
    BY <2>0, <2>4, <2>5, <2>6 DEF AllAgree, Party, Peer
<1> QED
  BY <1>1, Inductive, PTL

\* ShufflesFit: no third message of a wrong length is ever sent.
THEOREM ShufflesFitForEverySize == Spec => []ShufflesFit
<1>1. IInv => ShufflesFit
  <2> SUFFICES ASSUME IInv, NEW p \in Party, sent[p] >= 3
               PROVE  n[p] = pp /\ items[Peer(p)] = pp
    BY DEF ShufflesFit
  <2>1. step[p] \in 1..11 /\ sent[p] = Writes(p, step[p] - 1)
    BY DEF IInv, TypeOK, Counted
  <2>2. step[p] > 5
    BY <2>1 DEF Writes
  <2>3. new("L") /\ new("R") /\ blind_shuffle(p)
    BY <2>1, <2>2 DEF IInv, Passed
  <2> QED
    BY <2>3 DEF new, blind_shuffle, commit, Party
<1> QED
  BY <1>1, Inductive, PTL

=============================================================================
