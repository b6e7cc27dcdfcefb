------------------------------ MODULE MCTests ------------------------------
(***************************************************************************)
(* The two tests that set the parameters, with sizes of their own, numbers   *)
(* of two bits and three blocks.                                            *)
(***************************************************************************)
EXTENDS Tests

CONSTANT Adapted   \* test_adapted_shuffle

MCDefault == [t \in Test |-> IF t = Psu THEN 3 ELSE 2]
MCText == [form : {"pow", "hex", "dec"}, num : {0, 1, 2, 3, 4}, blank : BOOLEAN]
            \cup [form : {"other"}, num : {0}, blank : {FALSE}]

=============================================================================
