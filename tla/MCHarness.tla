------------------------------ MODULE MCHarness ------------------------------
(* Instances of Harness for TLC. *)
EXTENDS Harness, FiniteSets

UpToTwoFaults == {F \in SUBSET Faults : Cardinality(F) <= 2}

=============================================================================
