----------------------------- MODULE MCPrivTests -----------------------------
(* The programs on which TLC checks PrivTests and PrivLadder, beside          *)
(* AllPrograms of PrivPrograms.                                               *)
EXTENDS PrivLadder

NestedProgram == {priv_nested_deleg_ecall_irq}

TimerProgram == {priv_irq_deleg}

=============================================================================
