------------------------------- MODULE IdealOT -------------------------------
(***************************************************************************)
(* What oblivious transfer promises its receiver: batch after batch, of    *)
(* each pair of messages the one that its choice bit names, and nothing    *)
(* else.                                                                   *)
(***************************************************************************)
EXTENDS Integers, Sequences

CONSTANTS Batches,  \* how often send and receive are called
          M         \* the pairs of a batch

VARIABLES choice,   \* the choice bits, the same in every batch
          results   \* what receive returned, batch by batch

\* The message of pair j of batch b for bit c.
Plain(b, j, c) == <<b, j, c>>

Init == /\ choice \in [0..(M - 1) -> {0, 1}]
        /\ results = <<>>

Receive == /\ Len(results) < Batches
           /\ results' = Append(results, [j \in 0..(M - 1) |->
                                  Plain(Len(results) + 1, j, choice[j])])
           /\ UNCHANGED choice

Spec == Init /\ [][Receive]_<<choice, results>> /\ WF_<<choice, results>>(Receive)

=============================================================================
