-------------------------------- MODULE PSU --------------------------------
(***************************************************************************)
(* What the two-sided protocol promises, with the cryptography and the      *)
(* network taken away.  Each party commits to a set once; an honest one to   *)
(* its input.  Afterwards each honest party gets its own answer or aborts:   *)
(* between honest parties the answer is exactly what its peer has and it     *)
(* lacks, and a deviating peer can do no more than withhold items it is      *)
(* committed to, or show some that are common.  Such a peer commits to no    *)
(* more than Size items, or openly to all there are, which binds it to none. *)
(***************************************************************************)
EXTENDS Integers

CONSTANTS Item, Party, Honest, Peer(_), Size

VARIABLES
  set,        \* the input set of each party
  committed,  \* {} or {S}: the set a party is bound to
  answer      \* <<"pending", {}>>, <<"abort", {}>> or <<"answer", S>>

idealVars == <<set, committed, answer>>

IdealInit ==
  /\ set \in [Party -> SUBSET Item]
  /\ committed = [p \in Party |-> {}]
  /\ answer = [p \in Party |-> <<"pending", {}>>]

(* The sets p may commit to, and the answers its peer may let it have. *)
Sized ==
  {S \in SUBSET Item : \E v \in [1..Size -> Item] : S \subseteq {v[i] : i \in 1..Size}}
Commitments(p) == IF p \in Honest THEN {set[p]} ELSE Sized \cup {Item}
Answers(p, S, T) == IF Peer(p) \in Honest THEN {T \ S} ELSE SUBSET T

Commit(p) ==
  /\ UNCHANGED answer
  /\ committed[p] = {}
  /\ \E S \in Commitments(p) : committed' = [committed EXCEPT ![p] = {S}]
  /\ UNCHANGED set

Answer(p) ==
  /\ p \in Honest
  /\ answer[p] = <<"pending", {}>>
  /\ \E S \in committed[p], T \in committed[Peer(p)] : \E A \in Answers(p, S, T) :
       answer' = [answer EXCEPT ![p] = <<"answer", A>>]
  /\ UNCHANGED <<set, committed>>

(* Any number of parties at once: a panic may take the process down. *)
Abort(P) ==
  /\ \A p \in P : answer[p] = <<"pending", {}>>
  /\ answer' = [p \in Party |-> IF p \in P THEN <<"abort", {}>> ELSE answer[p]]
  /\ UNCHANGED <<set, committed>>

IdealNext ==
  \/ \E P \in SUBSET Honest : Abort(P)
  \/ \E p \in Party : Commit(p) \/ Answer(p)

IdealSpec == IdealInit /\ [][IdealNext]_idealVars
=============================================================================
