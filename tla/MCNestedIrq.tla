----------------------------- MODULE MCNestedIrq -----------------------------
(* Instances of NestedIrq for TLC. *)
EXTENDS NestedIrq

AllPlatforms == IrqPlatformType

NestedEcallProgram == {irq_test_irq_ecall_nested}

=============================================================================
