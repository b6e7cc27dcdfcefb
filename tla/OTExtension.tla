----------------------------- MODULE OTExtension -----------------------------
(***************************************************************************)
(* The oblivious transfer extension that the one-sided protocols call      *)
(* (ocelot: chou_orlandi.rs, alsz.rs, kos.rs; cointoss.rs), with its two   *)
(* ends as the two threads of otext.rs.  init runs K base transfers in the *)
(* other direction, which leave one of two seeds of every row with the     *)
(* sender; then each batch sends the rows the receiver masks, turns the    *)
(* two bit matrices to columns, and seals the messages under the hashes of *)
(* the columns.  The generators of the seeds live on from batch to batch.  *)
(* Kos, which the malicious protocol uses in place of Alsz, adds the coin   *)
(* toss and the correlation check.  A one-time pad is a                    *)
(* seal: it opens under the same hash only.                                *)
(***************************************************************************)
EXTENDS Integers, Sequences, FiniteSets

CONSTANTS K,         \* rows: the 128 base transfers
          Octet,     \* eight: batches are padded to a multiple of it
          Extra,     \* the 128 + 40 columns that Kos adds, a multiple of Octet
          Batches,   \* how often send and receive are called
          M,         \* the pairs of a batch
          Order,     \* the order of the group of the base transfers
          Scalars,   \* the scalars drawn in it
          G(_, _),   \* G(seed, n): bit n of the generator of a seed
          Chi(_, _), \* Chi(seed, n): block n of the generator of the coin
          Pads       \* the random bits that Kos appends to the choices

ASSUME SizeAssumption == /\ K \in Nat \ {0} /\ Octet \in Nat \ {0} /\ Extra \in Nat
                         /\ Batches \in Nat \ {0} /\ M \in Nat /\ Order \in Nat \ {0}
                         /\ Extra % Octet = 0 /\ Scalars \subseteq 0..(Order - 1)

\* As far as the batches go, a generator gives bits; a padding is one bit for
\* each of the columns Kos adds.
ASSUME BitAssumption == /\ \A j \in 0..(K - 1), c \in {0, 1},
                              n \in 0..(Batches * (M + Octet + Extra)) : G(<<j, c>>, n) \in {0, 1}
                        /\ Pads \subseteq [0..(Extra - 1) -> {0, 1}]

VARIABLES kos,     \* whether the two ends are those of Kos
          pc,      \* the next step of the sender "S" and the receiver "R"
          net,     \* the messages on their way to either
          secret,  \* the sender's bits s, and its base scalars x
          base,    \* the receiver's base scalar y and the point S the sender has of it
          seeds,   \* the seed of each row the sender has
          pos,     \* how many bits each end has drawn from its generators
          matrix,  \* qs of the sender, ts of the receiver: row -> column -> bit
          bits,    \* the receiver's choice bits with their padding
          coin,    \* the coin of each end, the commitment, and the seed tossed
          sent,    \* the batches the sender has sent
          choice,  \* the argument of receive
          results  \* what receive returned, batch by batch

vars == <<kos, pc, net, secret, base, seeds, pos, matrix, bits, coin, sent, choice, results>>

Ideal == INSTANCE IdealOT

RowSet == 0..(K - 1)
BitSet == {0, 1}
ColumnSet == [RowSet -> BitSet]
XorBit(a, b) == (a + b) % 2
XorCol(a, b) == [j \in RowSet |-> XorBit(a[j], b[j])]

padded(m) == IF m % Octet # 0 THEN m + (Octet - (m % Octet)) ELSE m
ncols == IF kos THEN padded(M) + Extra ELSE padded(M)
Cols == 0..(ncols - 1)

\* A pad opens under the hash it was made with; anything else is noise.
Noise == <<-1, -1>>
Seal(k, m) == [key |-> k, msg |-> m]
Open(k, c) == IF c.key = k THEN c.msg ELSE Noise

\* Column i of a matrix: the block that the transposition leaves at i.
Column(mat, i) == [j \in RowSet |-> mat[j][i]]

\* The carry-less products of the columns f and the blocks g over a set of
\* indices, added up.
Products(I, f, g) == [n \in 0..(2 * K - 2) |->
  Cardinality({p \in I \X RowSet \X RowSet :
                 p[2] + p[3] = n /\ f[p[1]][p[2]] = 1 /\ g[p[1]][p[3]] = 1}) % 2]

Send(p, m) == net' = [net EXCEPT ![p] = Append(@, m)]
Reply(p, q, m) == net' = [net EXCEPT ![p] = Tail(@), ![q] = Append(@, m)]
Take(p) == net' = [net EXCEPT ![p] = Tail(@)]
At(p, l) == pc[p] = l
Has(p) == net[p] # <<>>
Goto(p, l) == pc' = [pc EXCEPT ![p] = l]

-----------------------------------------------------------------------------
(* init: Chou-Orlandi transfers of the seeds <<j, 0>> and <<j, 1>>.        *)

Init ==
  /\ kos \in BOOLEAN
  /\ pc = [S |-> "readS", R |-> "writeS"]
  /\ net = [S |-> <<>>, R |-> <<>>]
  /\ secret \in [s : ColumnSet, x : [RowSet -> Scalars]]
  /\ base \in [y : Scalars, S : {0}]
  /\ seeds = <<>>
  /\ pos = [S |-> 0, R |-> 0]
  /\ matrix = [S |-> <<>>, R |-> <<>>]
  /\ bits = <<>>
  /\ coin = [S |-> 0, R |-> 0, com |-> 0, toss |-> 0]
  /\ sent = 0
  /\ choice \in [0..(M - 1) -> BitSet]
  /\ results = <<>>

BaseSenderInit ==
  /\ At("R", "writeS")
  /\ Send("S", base.y)
  /\ Goto("R", "readR")
  /\ UNCHANGED <<kos, secret, base, seeds, pos, matrix, bits, coin, sent, choice, results>>

\* Receiver::init reads S; receive writes one point for every bit of s.
blinded(S) == [j \in RowSet |-> (secret.s[j] * S + secret.x[j]) % Order]
BaseReceive ==
  /\ At("S", "readS") /\ Has("S")
  /\ LET S == Head(net["S"])
     IN  /\ Reply("S", "R", blinded(S))
         /\ base' = [base EXCEPT !.S = S]
  /\ Goto("S", "readC")
  /\ UNCHANGED <<kos, secret, seeds, pos, matrix, bits, coin, sent, choice, results>>

\* send: k0 and k1 of row j hash y * R and y * R - y * S.
BaseSend ==
  /\ At("R", "readR") /\ Has("R")
  /\ LET k0(j) == <<j, (base.y * Head(net["R"])[j]) % Order>>
         k1(j) == <<j, (base.y * Head(net["R"])[j] + Order * Order - base.y * base.y) % Order>>
     IN  Reply("R", "S", [j \in RowSet |-> << Seal(k0(j), <<j, 0>>), Seal(k1(j), <<j, 1>>) >>])
  /\ Goto("R", "writeU")
  /\ UNCHANGED <<kos, secret, base, seeds, pos, matrix, bits, coin, sent, choice, results>>

BaseFinish ==
  /\ At("S", "readC") /\ Has("S")
  /\ seeds' = [j \in RowSet |-> Open(<<j, (secret.x[j] * base.S) % Order>>,
                                     Head(net["S"])[j][secret.s[j] + 1])]
  /\ Take("S")
  /\ Goto("S", "readU")
  /\ UNCHANGED <<kos, secret, base, pos, matrix, bits, coin, sent, choice, results>>

-----------------------------------------------------------------------------
(* A batch.                                                                *)

\* receive_setup: the rows t of the first seeds, sent masked by those of the
\* second seeds and the choice bits.
ReceiveSetup ==
  /\ At("R", "writeU")
  /\ \E pad \in Pads :
       bits' = [i \in Cols |-> IF i < M THEN choice[i]
                               ELSE IF i < padded(M) THEN 0 ELSE pad[i - padded(M)]]
  /\ LET t(j, i) == G(<<j, 0>>, pos["R"] + i)
         u(j, i) == XorBit(XorBit(G(<<j, 1>>, pos["R"] + i), t(j, i)), bits'[i])
     IN  /\ matrix' = [matrix EXCEPT !["R"] = [j \in RowSet |-> [i \in Cols |-> t(j, i)]]]
         /\ Send("S", [j \in RowSet |-> [i \in Cols |-> u(j, i)]])
  /\ pos' = [pos EXCEPT !["R"] = @ + ncols]
  /\ Goto("R", IF kos THEN "readCom" ELSE "readY")
  /\ UNCHANGED <<kos, secret, base, seeds, coin, sent, choice, results>>

\* send_setup: the row of the seed it has, and the received row if s_j is set.
\* Mutant: the generators start over in every batch.
send_setup_mutant(u) == [j \in RowSet |-> [i \in Cols |->
                    XorBit(G(seeds[j], i), secret.s[j] * u[j][i])]]
send_setup(u) == [j \in RowSet |-> [i \in Cols |->
                    XorBit(G(seeds[j], pos["S"] + i), secret.s[j] * u[j][i])]]
Commitment(c) == <<"PRG", c>>
SendSetup ==
  /\ At("S", "readU") /\ Has("S")
  /\ matrix' = [matrix EXCEPT !["S"] = send_setup(Head(net["S"]))]
  /\ pos' = [pos EXCEPT !["S"] = @ + ncols]
  /\ IF kos
     THEN \E c \in BitSet : /\ coin' = [coin EXCEPT !.S = c]
                            /\ Reply("S", "R", Commitment(c))
                            /\ Goto("S", "readCoin")
     ELSE Take("S") /\ Goto("S", "writeY") /\ UNCHANGED coin
  /\ UNCHANGED <<kos, secret, base, seeds, bits, sent, choice, results>>

\* cointoss: the receiver answers the commitment with its coin, the sender
\* opens, the receiver checks the opening.
TossReceive ==
  /\ At("R", "readCom") /\ Has("R")
  /\ \E c \in BitSet : Reply("R", "S", c) /\ coin' = [coin EXCEPT !.R = c, !.com = Head(net["R"])]
  /\ Goto("R", "readCoin")
  /\ UNCHANGED <<kos, secret, base, seeds, pos, matrix, bits, sent, choice, results>>

TossSend ==
  /\ At("S", "readCoin") /\ Has("S")
  /\ Reply("S", "R", coin.S)
  /\ coin' = [coin EXCEPT !.toss = XorBit(coin.S, Head(net["S"]))]
  /\ Goto("S", "readCheck")
  /\ UNCHANGED <<kos, secret, base, seeds, pos, matrix, bits, sent, choice, results>>

\* The rest of Kos's receive_setup: x and t of the check.
Blocks(seed) == [i \in Cols |-> Chi(seed, i)]
\* Mutant: the padding is left out of the check.
Combined_mutant(seed) == [n \in RowSet |->
  Cardinality({i \in 0..(M - 1) : bits[i] = 1 /\ Blocks(seed)[i][n] = 1}) % 2]
Combined(seed) == [n \in RowSet |->
  Cardinality({i \in Cols : bits[i] = 1 /\ Blocks(seed)[i][n] = 1}) % 2]
SendCheck ==
  /\ At("R", "readCoin") /\ Has("R")
  /\ LET seed == XorBit(coin.R, Head(net["R"]))
         ok   == coin.com = Commitment(Head(net["R"]))
         t    == [i \in Cols |-> Column(matrix["R"], i)]
     IN  IF ok THEN /\ Reply("R", "S", <<Combined(seed), Products(Cols, t, Blocks(seed))>>)
                    /\ Goto("R", "readY")
               ELSE Take("R") /\ Goto("R", "panic")
  /\ UNCHANGED <<kos, secret, base, seeds, pos, matrix, bits, coin, sent, choice, results>>

\* The rest of Kos's send_setup: "Consistency check failed" is unwrapped.
ReadCheck ==
  /\ At("S", "readCheck") /\ Has("S")
  /\ LET x == Head(net["S"])[1]
         t == Head(net["S"])[2]
         q == [i \in Cols |-> Column(matrix["S"], i)]
         check == Products(Cols, q, Blocks(coin.toss))
         xs == Products({0}, [n \in {0} |-> x], [n \in {0} |-> secret.s])
     IN  Goto("S", IF \A n \in DOMAIN t : XorBit(check[n], xs[n]) = t[n] THEN "writeY" ELSE "panic")
  /\ Take("S")
  /\ UNCHANGED <<kos, secret, base, seeds, pos, matrix, bits, coin, sent, choice, results>>

\* send: pair j sealed under the hashes of q_j and of q_j xor s.
\* Mutant: both messages are sealed under the same column.
SendPairs_mutant ==
  /\ At("S", "writeY")
  /\ sent' = sent + 1
  /\ Send("R", [j \in 0..(M - 1) |->
       LET q == Column(matrix["S"], j)
       IN  << Seal(<<j, q>>, Ideal!Plain(sent', j, 0)),
              Seal(<<j, q>>, Ideal!Plain(sent', j, 1)) >>])
  /\ Goto("S", IF sent' < Batches THEN "readU" ELSE "end")
  /\ UNCHANGED <<kos, secret, base, seeds, pos, matrix, bits, coin, choice, results>>
SendPairs ==
  /\ At("S", "writeY")
  /\ sent' = sent + 1
  /\ Send("R", [j \in 0..(M - 1) |->
       LET q == Column(matrix["S"], j)
       IN  << Seal(<<j, q>>, Ideal!Plain(sent', j, 0)),
              Seal(<<j, XorCol(q, secret.s)>>, Ideal!Plain(sent', j, 1)) >>])
  /\ Goto("S", IF sent' < Batches THEN "readU" ELSE "end")
  /\ UNCHANGED <<kos, secret, base, seeds, pos, matrix, bits, coin, choice, results>>

\* receive: the pad of column t_j opens the message of bit j.
Receive ==
  /\ At("R", "readY") /\ Has("R")
  /\ results' = Append(results, [j \in 0..(M - 1) |->
                  Open(<<j, Column(matrix["R"], j)>>, Head(net["R"])[j][choice[j] + 1])])
  /\ Take("R")
  /\ Goto("R", IF Len(results) + 1 < Batches THEN "writeU" ELSE "join")
  /\ UNCHANGED <<kos, secret, base, seeds, pos, matrix, bits, coin, sent, choice>>

\* otext returns once the sender's thread has ended.
Join ==
  /\ At("R", "join") /\ At("S", "end")
  /\ Goto("R", "end")
  /\ UNCHANGED <<kos, net, secret, base, seeds, pos, matrix, bits, coin, sent, choice, results>>

SenderNext == \/ BaseReceive \/ BaseFinish \/ SendSetup \/ TossSend \/ ReadCheck \/ SendPairs
ReceiverNext == \/ BaseSenderInit \/ BaseSend \/ ReceiveSetup \/ TossReceive \/ SendCheck
                \/ Receive \/ Join

Returned == pc = [S |-> "end", R |-> "end"] /\ UNCHANGED vars

Next == SenderNext \/ ReceiverNext \/ Returned

\* Each thread keeps running as long as it is not waiting for the other.
Spec == Init /\ [][Next]_vars /\ WF_vars(SenderNext) /\ WF_vars(ReceiverNext)

-----------------------------------------------------------------------------
\* The transfers are those of the ideal: each result is the chosen message of
\* its own batch, and every batch is delivered.
ImplementsIdeal == Ideal!Spec

\* Honest ends never fail the commitment or the consistency check
\* (kos.rs:61, cointoss.rs:84), whose errors the callers unwrap.
NeverPanics == pc["S"] # "panic" /\ pc["R"] # "panic"

\* The relation the transfers rest on: once both ends have turned their
\* matrices, column i of the sender is that of the receiver, plus s if the
\* i-th choice bit is set.
ColumnsCorrelated ==
  pc["S"] \in {"readCoin", "readCheck", "writeY"} =>
    \A i \in Cols : Column(matrix["S"], i) =
       IF bits[i] = 1 THEN XorCol(Column(matrix["R"], i), secret.s) ELSE Column(matrix["R"], i)

=============================================================================
