------------------------------ MODULE MCPmpTests ------------------------------
(* Instances of PmpTests for TLC. *)
EXTENDS PmpGuarded

AllPlatforms == PmpPlatformType

StrictPlatforms == {p \in PmpPlatformType : p.pmp = "strict"}

=============================================================================
