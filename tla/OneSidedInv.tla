---------------------------- MODULE OneSidedInv ----------------------------
(***************************************************************************)
(* The inductive invariant behind OneSided's safety properties.              *)
(***************************************************************************)
EXTENDS OneSided

(* How many of the first k steps of p's script are writes. *)
Writes(p, k) ==
  IF (p = "S") = (k <= 6) THEN (k + 1) \div 2 ELSE k \div 2

(* How many messages p has written and read, from where its thread is. *)
Counts(p) ==
  LET w == Writes(p, at[p] - 1)
  IN /\ got[p] = at[p] - 1 - w
     /\ got[p] <= Len(sent[Peer(p)])
     /\ mode[p] \in {"open", "run", "done"} => Len(sent[p]) = w
     /\ mode[p] = "flush" => Len(sent[p]) = w + 1
     /\ Len(sent[p]) # w => Len(sent[p]) = w + 1 /\ at[p] <= Last /\ IO(p) = "write"

(* The sender's messages and the receiver's first, in terms of what the parties
   started with, whatever commitments the sender sent; what the sender opens is a
   seed. *)
double_blinded == [i \in 1..NR |-> Mul(key["S"], gen("R")[pi[i]])]
Contents ==
  /\ Len(sent["S"]) >= 1 => sent["S"][1] = [pts |-> gen("S")]
  /\ Len(sent["R"]) >= 1 => sent["R"][1] = [pts |-> gen("R")]
  /\ Len(sent["S"]) >= 2 => sent["S"][2] = [pts |-> double_blinded]
  /\ \A r \in 4..Len(sent["S"]) :
       /\ KosTurn(r) \in {0, 3} => sent["S"][r] = [pairs |-> chunk(Batch(r))]
       /\ KosTurn(r) = 2 => sent["S"][r].seed \in Seed

(* The inductive invariant of the one-sided protocols: each party has sent what
   its place in the code and its inputs say, but for a deviating one's commitments
   and checks. *)
IInv ==
  /\ TypeOK
  /\ \A p \in Party : Counts(p)
  /\ Contents
  /\ ReturnMeansBoth
=============================================================================
