------------------------------ MODULE MCMmuTests ------------------------------
(* Instances of MmuTests for TLC. *)
EXTENDS MmuTests

AllPlatforms == MmuPlatformType

SimpleProgram == {mmu_simple}

=============================================================================
