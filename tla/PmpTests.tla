------------------------------- MODULE PmpTests -------------------------------
(***************************************************************************)
(* A PMP test program (src/pmp/*.c) running on a hart: main opens regions   *)
(* in the PMP, leaves machine mode (or applies MPRV to itself), and the     *)
(* user program makes its accesses until one is refused or it ecalls; any   *)
(* trap ends in pmp_interrupt_handler, which calls pass() whatever the      *)
(* cause.  One action is one CSR set-up of main, one memory access, one     *)
(* trap return or one run of the handler's prologue.                        *)
(***************************************************************************)
EXTENDS PmpPrograms

CONSTANTS PmpTestPrograms,  \* the programs (records of PmpPrograms) to run
          PmpPlatforms      \* the platforms to run them on

Regions == [a : Matchings, base : Nat, size : Nat \ {0}, perms : SUBSET Kinds, locked : BOOLEAN]
Accesses == [kind : Kinds, word : Nat]

PmpProgramType ==
    [regions : [0 .. 3 -> Regions], mpp : Modes, mprv : BOOLEAN, direct : BOOLEAN,
     user : Seq(Accesses), trap : Causes]

ASSUME PmpTestProgramsAssumption == PmpTestPrograms \subseteq PmpProgramType

\* pmp "absent": the PMP registers are illegal; "strict": what no entry covers is
\* refused below machine mode; "lenient": unless no entry is on, then nothing is;
\* "qemu6": the same, but then an mret to below machine mode is illegal.
\* dropsW: an entry with W and not R, a reserved combination, is kept with
\* neither.  mretClears: mret to below machine mode resets MPRV, as newer
\* versions of the privileged architecture have it.
PmpPlatformType ==
    [pmp : {"absent", "strict", "lenient", "qemu6"}, dropsW : BOOLEAN, mretClears : BOOLEAN]

ASSUME PmpPlatformsAssumption == PmpPlatforms \subseteq PmpPlatformType

VARIABLES prog,      \* the program that runs
          platform,  \* the platform it runs on
          hart,      \* the hart, see Hart
          pmp,       \* the PMP entries in force
          todo       \* the accesses the running code is still to make

vars == <<prog, platform, hart, pmp, todo>>

Pcs == {"main", "main_mstatus", "main_locals", "user", "handler", "pass"}

Harts == [prv : Modes, pc : Pcs, on : SUBSET Flags, mpp : Modes,
          mepc : Pcs, mcause : Causes, sepc : Pcs, scause : Causes,
          medeleg : SUBSET Codes, mideleg : SUBSET Codes,
          mie : SUBSET Codes, mip : SUBSET Codes]

TypeOK ==
    /\ prog \in PmpTestPrograms
    /\ platform \in PmpPlatforms
    /\ hart \in Harts
    /\ pmp \in [0 .. 3 -> Entries]
    /\ todo \in Seq(Accesses)

-----------------------------------------------------------------------------
(* The hart on this platform. *)

\* Below machine mode, or as if below it: MPRV makes loads and stores, not
\* fetches, those of MPP.
Machine(kind) ==
    IF kind # "X" /\ "MPRV" \in hart.on THEN hart.mpp = M ELSE hart.prv = M

Allowed(access) ==
    \/ platform.pmp \in {"lenient", "qemu6"} /\ NoEntryOn(pmp)
    \/ Grants(pmp, Machine(access.kind), access.kind, access.word)

AccessFault(kind) ==
    CASE kind = "X" -> FetchFault
      [] kind = "R" -> ReadFault
      [] kind = "W" -> StoreFault

DoMret(h) ==
    IF platform.pmp = "qemu6" /\ NoEntryOn(pmp) /\ h.mpp # M
    THEN Trap(h, IllegalInstruction)
    ELSE IF platform.mretClears /\ h.mpp # M
    THEN Mret([h EXCEPT !.on = @ \ {"MPRV"}])
    ELSE Mret(h)

-----------------------------------------------------------------------------
(* main *)

ResetHart ==
    [prv |-> M, pc |-> "main", on |-> {}, mpp |-> U,
     mepc |-> "main", mcause |-> NoTrap, sepc |-> "main", scause |-> NoTrap,
     medeleg |-> {}, mideleg |-> {}, mie |-> {}, mip |-> {}]

Init ==
    /\ prog \in PmpTestPrograms
    /\ platform \in PmpPlatforms
    /\ hart = ResetHart
    /\ pmp = [i \in 0 .. 3 |-> [a |-> "OFF", perms |-> {}, locked |-> FALSE, addr |-> 0]]
    /\ todo = <<>>

\* What the write of a region to pmpcfg0 and pmpaddr leaves in them.
Encoded(region) ==
    [a |-> region.a, locked |-> region.locked,
     perms |-> IF platform.dropsW /\ "R" \notin region.perms
               THEN region.perms \ {"W"} ELSE region.perms,
     addr |-> CASE region.a \in {"NAPOT", "OFF"} -> pmp_get_napot_addr(region.base, region.size)
                [] region.a = "NA4" -> pmp_get_na_tor_addr(region.base)
                [] region.a = "TOR" -> pmp_get_na_tor_addr(region.base + region.size)]

\* The PMP writes; also a main that writes none reads pmpcfg0.
MainPmp ==
    /\ hart.pc = "main"
    /\ IF platform.pmp = "absent"
       THEN /\ hart' = Trap(hart, IllegalInstruction)
            /\ UNCHANGED pmp
       ELSE /\ hart' = [hart EXCEPT !.pc = "main_mstatus"]
            /\ pmp' = [i \in 0 .. 3 |-> Encoded(prog.regions[i])]
    /\ UNCHANGED <<prog, platform, todo>>

MainMstatusReserved ==      \* a variant with a mistake: the reserved MPP 2
    /\ hart.pc = "main_mstatus"
    /\ hart' = [hart EXCEPT !.pc = "main_locals", !.on = {"MPRV"}, !.mpp = 2]
    /\ todo' = <<Access("R", Stack), Access("W", Stack)>>
    /\ UNCHANGED <<prog, platform, pmp>>

\* From here on main's own loads and stores are those of MPP if MPRV is set: the
\* next ones are to its locals on the stack, or to the frame of pass().
MainMstatus ==
    /\ hart.pc = "main_mstatus"
    /\ hart' = [hart EXCEPT !.pc = "main_locals",
                            !.on = IF prog.mprv THEN {"MPRV"} ELSE {},
                            !.mpp = prog.mpp]
    /\ todo' = IF prog.direct THEN <<Access("W", Stack)>>
               ELSE <<Access("R", Stack), Access("W", Stack)>>
    /\ UNCHANGED <<prog, platform, pmp>>

MainMret ==
    /\ hart.pc = "main_locals" /\ todo = <<>> /\ ~prog.direct
    /\ hart' = DoMret([hart EXCEPT !.mepc = "user"])
    /\ todo' = prog.user
    /\ UNCHANGED <<prog, platform, pmp>>

MainPass ==
    /\ hart.pc = "main_locals" /\ todo = <<>> /\ prog.direct
    /\ hart' = [hart EXCEPT !.pc = "pass"]
    /\ UNCHANGED <<prog, platform, pmp, todo>>

-----------------------------------------------------------------------------
(* The accesses, the user program's ecall, and the handler. *)

Granted ==
    /\ hart.pc \in {"main_locals", "user"} /\ todo # <<>> /\ Allowed(Head(todo))
    /\ todo' = Tail(todo)
    /\ UNCHANGED <<prog, platform, hart, pmp>>

Refused ==
    /\ hart.pc \in {"main_locals", "user"} /\ todo # <<>> /\ ~Allowed(Head(todo))
    /\ hart' = Trap(hart, AccessFault(Head(todo).kind))
    /\ UNCHANGED <<prog, platform, pmp, todo>>

UserEcall ==
    /\ hart.pc = "user" /\ todo = <<>>
    /\ hart' = Trap(hart, EcallFrom(hart.prv))
    /\ UNCHANGED <<prog, platform, pmp, todo>>

HandlerReturns ==           \* a variant with a mistake: mepc is not advanced
    /\ hart.pc = "handler"
    /\ hart' = DoMret(hart)
    /\ UNCHANGED <<prog, platform, pmp, todo>>

\* The prologue saves registers on the stack, with MPRV as it is; a fault there
\* enters the handler again.
Handler ==
    /\ hart.pc = "handler"
    /\ hart' = IF Allowed(Access("W", Stack)) THEN [hart EXCEPT !.pc = "pass"]
               ELSE Trap(hart, StoreFault)
    /\ UNCHANGED <<prog, platform, pmp, todo>>

-----------------------------------------------------------------------------
Next ==
    \/ MainPmp \/ MainMstatus \/ MainMret \/ MainPass
    \/ Granted \/ Refused \/ UserEcall \/ Handler

\* The hart keeps executing.
Spec == Init /\ [][Next]_vars /\ WF_vars(Next)

-----------------------------------------------------------------------------
(* Properties *)

\* Any trap ends in pass(), so only the register trace tells a test that went
\* right from one that went wrong.  Where main opened regions every test arrives
\* there with the trap its name promises as the last one: *_err with the fault of
\* its kind, the others with the ecall; pmp_do_nothing, which opens none, does so on
\* a PMP that checks nothing while no entry is on.  (pmp_mprv_s_mode promises none:
\* the access its line 77 expects to "throw an exception" is a PMP_DEBUG, which
\* is compiled out.)
TrapAsNamed ==
    /\ platform.pmp # "absent" /\ (NoEntryOn(pmp) => platform.pmp = "lenient")
    /\ hart.pc = "pass"
    => hart.mcause = prog.trap

\* The words at the borders of a region.
Borders(region) ==
    {w \in {region.base - 1, region.base, region.base + region.size - 1,
            region.base + region.size} : w >= 0}

\* Once main has written them, the NAPOT and NA4 entries cover the regions it asked
\* for and not a word more: the helpers' encoding and the hart's decoding agree.
EntriesCoverTheirRegions ==
    hart.pc \in {"main_mstatus", "main_locals", "user"} =>
        \A i \in 0 .. 3 : prog.regions[i].a \in {"NAPOT", "NA4"} =>
            \A w \in Borders(prog.regions[i]) :
                Covers(pmp, i, w) <=> w \in prog.regions[i].base ..
                                           prog.regions[i].base + prog.regions[i].size - 1

\* pmp_tor_ok.c:15: the test region of the TOR tests starts at
\* TEST_ACCESS_LOCATION_START: entry 3 covers nothing below.
TorStartsAtStart ==
    hart.pc = "user" /\ pmp[3].a = "TOR" => ~Covers(pmp, 3, TestStart - 1)

\* Every test reaches pass(), which the harness waits for, on every platform.
PmpTestsPass == <>(hart.pc = "pass")

=============================================================================
