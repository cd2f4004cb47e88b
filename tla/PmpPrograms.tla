----------------------------- MODULE PmpPrograms -----------------------------
(***************************************************************************)
(* The programs of src/pmp as data: the PMP entries and the mstatus each    *)
(* main writes, and the memory accesses of the user program it then runs    *)
(* (src/pmp/userspace_test_programs).  The control flow is in PmpTests.     *)
(***************************************************************************)
EXTENDS Pmp, Sequences

INSTANCE Hart WITH Mtvec <- "handler", Stvec <- "handler"

\* The memory map, in words (0x80000000 is word 0x20000000).
Ram == \h20000000
RamSize == \h2000                  \* 0x8000 bytes
Stack == Ram + RamSize - 2         \* below the symbol _stack
UserRam == \h20020000              \* 0x80080000
UserRamSize == \h1000              \* 0x4000 bytes
Uart == \h4000000                  \* 0x10000000
UartSize == \h40                   \* 0x100 bytes
TestStart == \h20021800            \* TEST_ACCESS_LOCATION_START, 0x80086000
TestEnd == \h20021C00              \* TEST_ACCESS_LOCATION_END, 0x80087000

\* A region main opens: [base, base + size), how it is encoded, and for what.
Region(a, base, size, perms) ==
    [a |-> a, base |-> base, size |-> size, perms |-> perms, locked |-> FALSE]

RWX == Kinds

\* Entries that are off: never written, or only the pmpaddr of the UART written.
Unwritten == Region("OFF", 0, 2, {})
UartOff == Region("OFF", Uart, UartSize, {})

UsualRegions ==
    [i \in 0 .. 3 |-> CASE i = 0 -> Region("NAPOT", Ram, RamSize, RWX)
                        [] i = 1 -> Region("NAPOT", UserRam, UserRamSize, RWX)
                        [] i = 2 -> Region("NAPOT", Uart, UartSize, RWX)
                        [] i = 3 -> Unwritten]

\* The test region: one word, or START .. END encoded as top of range.
TestWord == Region("NA4", TestStart, 1, RWX)
TestRange(perms) == Region("TOR", TestStart, TestEnd - TestStart, perms)

\* main of tor_first_entry opens everything below END with entry 0.
OnlyFirst == [[i \in 0 .. 3 |-> Unwritten] EXCEPT ![0] = Region("TOR", 0, TestEnd, RWX)]

-----------------------------------------------------------------------------
(* The user programs: the accesses up to the ecall, repeated ones once. *)

Access(kind, w) == [kind |-> kind, word |-> w]

Start == <<Access("X", UserRam), Access("W", Stack)>>
PutChar == <<Access("W", Uart)>>

pmp_user_simple_program == Start \o PutChar
pmp_user_na4_access_ok == Start \o PutChar \o <<Access("W", TestStart)>>
pmp_user_na4_access_err == Start \o PutChar \o <<Access("W", TestStart + 1)>>

\* END - 1 is the last byte of the word before END, END + 1 is in the word at END.
pmp_user_tor_access_ok ==
    Start \o <<Access("R", TestStart), Access("W", TestStart)>> \o PutChar
          \o <<Access("W", TestStart), Access("W", TestEnd - 1)>>
pmp_user_tor_access_err ==
    Start \o PutChar \o <<Access("W", TestStart), Access("W", TestEnd)>>

-----------------------------------------------------------------------------
(* The programs.  Fields: the regions main opens; the MPP it writes with or   *)
(* without MPRV; whether it calls pass() instead of mret; the user program;   *)
(* the trap its name promises (NoTrap: main calls pass() with no trap before). *)

NoTrap == Exception(0)
ReadFault == Exception(5)

pmp_everything_ok ==
    [regions |-> UsualRegions, mpp |-> S, mprv |-> TRUE, direct |-> FALSE,
     user |-> pmp_user_simple_program, trap |-> EcallFrom(S)]

\* Its user program differs only in a test of sstatus that holds on both widths.
pmp_mprv_bit == pmp_everything_ok

pmp_do_nothing == [pmp_everything_ok EXCEPT !.regions = [i \in 0 .. 3 |-> Unwritten]]

pmp_mprv_s_mode ==
    [pmp_everything_ok EXCEPT !.regions[2] = UartOff, !.direct = TRUE,
                              !.user = <<>>, !.trap = NoTrap]
pmp_mprv_m_mode == [pmp_mprv_s_mode EXCEPT !.mpp = M]

pmp_locked_bit_m_mode ==
    [pmp_everything_ok EXCEPT !.regions[1].perms = {"R", "W"},
                              !.regions[1].locked = TRUE,
                              !.mpp = M, !.mprv = FALSE, !.trap = FetchFault]

pmp_na4_ok ==
    [pmp_everything_ok EXCEPT !.regions[3] = TestWord, !.user = pmp_user_na4_access_ok]
pmp_na4_err ==
    [pmp_na4_ok EXCEPT !.user = pmp_user_na4_access_err, !.trap = StoreFault]

pmp_tor_ok ==
    [pmp_everything_ok EXCEPT !.regions[3] = TestRange(RWX),
                              !.user = pmp_user_tor_access_ok]
pmp_tor_err == [pmp_tor_ok EXCEPT !.user = pmp_user_tor_access_err, !.trap = StoreFault]
pmp_tor_read_err ==
    [pmp_tor_ok EXCEPT !.regions[3] = TestRange({"W", "X"}), !.trap = ReadFault]
pmp_tor_write_err ==
    [pmp_tor_ok EXCEPT !.regions[3] = TestRange({"R", "X"}), !.trap = StoreFault]

pmp_tor_exec_err ==
    [pmp_everything_ok EXCEPT !.regions[1].perms = {"R", "W"},
                              !.user = pmp_user_tor_access_ok, !.trap = FetchFault]

pmp_tor_first_entry ==
    [pmp_everything_ok EXCEPT !.regions = OnlyFirst, !.user = pmp_user_tor_access_ok]
pmp_tor_first_entry_err ==
    [pmp_tor_first_entry EXCEPT !.user = pmp_user_tor_access_err, !.trap = StoreFault]

-----------------------------------------------------------------------------
EncodingTests ==
    {pmp_everything_ok, pmp_na4_ok, pmp_na4_err, pmp_tor_ok, pmp_tor_err,
     pmp_tor_read_err, pmp_tor_write_err, pmp_tor_exec_err,
     pmp_tor_first_entry, pmp_tor_first_entry_err}
ModeTests == {pmp_mprv_s_mode, pmp_mprv_m_mode, pmp_mprv_bit, pmp_locked_bit_m_mode}

AllPmpPrograms == EncodingTests \cup ModeTests \cup {pmp_do_nothing}

=============================================================================
