---------------------------- MODULE TwoSidedInv ----------------------------
(***************************************************************************)
(* The inductive invariant behind TwoSided's safety properties.  TLC checks  *)
(* it on the small instances; TwoSidedProofs proves it inductive.            *)
(***************************************************************************)
EXTENDS TwoSided

Failed == {"none", "panic", "killed"}

(* The places of p's code where the message of the current round is read. *)
HasRead(p) ==
  pc[p] \in IF p = Server THEN {"check", "done"}
            ELSE {"write", "flush", "check", "done"}

(* How many messages p has written and read, from where its thread is. *)
Counts(p) ==
  LET w == Len(sent[p])
      g == got[p]
      r == round[p]
  IN /\ pc[p] = "open" => r = 1 /\ w = 0 /\ g = 0
     /\ pc[p] = "write" => w = r - 1 /\ g = IF p = Server THEN r - 1 ELSE r
     /\ pc[p] = "flush" => w = r /\ g = IF p = Server THEN r - 1 ELSE r
     /\ pc[p] = "read" => g = r - 1 /\ w = IF p = Server THEN r ELSE r - 1
     /\ pc[p] = "check" => w = r /\ g = r /\ r >= 2
     /\ pc[p] = "done" => w = 4 /\ g = 4 /\ r = 4
     /\ w <= r
     /\ w <= IF p = Server THEN g + 1 ELSE g
     /\ g <= Len(sent[Peer(p)])

(* Every message p has acted on has the tag of its round. *)
Tags(p) ==
  \A r \in 1..4 :
    r < round[p] \/ (r = round[p] /\ HasRead(p))
      => r <= got[p] /\ Got(p, r).tag = r

(* p has decoded what it read and, unless it deviates, passed every check of the
   rounds behind it. *)
Passed(p) ==
  /\ round[p] >= 3 => /\ p \in Honest => verify_sigma(p)
                      /\ Got(p, 2).open.pts \in [Idx -> Group]
  /\ round[p] >= 4 => /\ p \in Honest => verify_shuffle_adapted(p)
                      /\ Got(p, 3).pts \in [Idx -> Group]
  /\ pc[p] = "done" =>
       LET js == Got(p, 4).ind
           us == Got(p, 4).unblinded
       IN /\ batched_ddh_verify(p)
          /\ \A i \in DOMAIN js : js[i] \in Idx /\ us[i] \in Group
          /\ out[p] = [i \in DOMAIN js |-> recover_from_point(MulInv8(key[p], us[i]))]

(* An honest party has sent what its code computes from what it has read. *)
AsCoded(p) == p \in Honest => \A r \in 1..Len(sent[p]) : sent[p][r] = Msg(p, r)

(* Between honest parties None is never returned, and only a reset makes a
   thread panic.  A value is returned only after both threads. *)
Fine ==
  /\ Deviating = {} => pc["R"] # "none"
  /\ Deviating = {} /\ up => \A p \in Party : pc[p] \notin Failed
  /\ Deviating = {} /\ up => result # "panic"
  /\ result = "some" => pc["L"] = "done" /\ pc["R"] \in {"done", "none"}

(* The inductive invariant of the two-sided protocol: it ties what each party
   sent and accepted to its place in the code. *)
IInv ==
  /\ TypeOK
  /\ \A p \in Party : Counts(p) /\ Tags(p) /\ Passed(p) /\ AsCoded(p)
  /\ Fine
=============================================================================
