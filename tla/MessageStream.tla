---------------------------- MODULE MessageStream ----------------------------
(***************************************************************************)
(* What read_msg and write_msg promise together: the reader gets the       *)
(* messages the writer has begun to write, one by one and in order, until  *)
(* it has all of them or the connection breaks.                            *)
(***************************************************************************)
EXTENDS Integers

CONSTANT N         \* the messages of the conversation

VARIABLES begun,   \* messages the writer has begun
          got,     \* messages the reader has
          broken   \* whether an end has failed

Init == begun = 0 /\ got = 0 /\ broken = FALSE

Begin == /\ begun < N
         /\ begun' = begun + 1
         /\ UNCHANGED <<got, broken>>

Deliver == /\ got < begun
           /\ got' = got + 1
           /\ UNCHANGED <<begun, broken>>

Break == /\ ~broken
         /\ broken' = TRUE
         /\ UNCHANGED <<begun, got>>

Next == Begin \/ Deliver \/ Break

Spec == Init /\ [][Next]_<<begun, got, broken>>

=============================================================================
