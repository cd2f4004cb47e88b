------------------------------ MODULE PmpProofs ------------------------------
(***************************************************************************)
(* TLAPS proofs about PmpTests, for every platform and every PMP program of *)
(* the declared type, with what each theorem asks of the programs beside    *)
(* it: types; the entries cover what main meant; the tests implement        *)
(* PmpGuard; each stops in the trap of its name. The last two follow from   *)
(* one fact: in regions that decide an access, the entry that matches it    *)
(* first has the rights of the regions that open it. The fifteen programs   *)
(* of the repository meet what is asked (RepositoryFine).                   *)
(***************************************************************************)
EXTENDS PmpGuarded, PmpAddrProofs, SequenceTheorems

\* The events of a hart keep it a hart.
LEMMA TrapType ==
    ASSUME NEW h \in Harts, NEW cause \in Causes
    PROVE  Trap(h, cause) \in Harts
<1>1. EnterM(h, cause) \in Harts
  <2>1. CopyFlag(h.on, "MIE", "MPIE") \ {"MIE"} \in SUBSET Flags
    BY DEF Harts, CopyFlag, Flags
  <2>2. M \in Modes /\ "handler" \in Pcs
    BY DEF Modes, Pcs
  <2>. QED  BY <2>1, <2>2 DEF Harts, EnterM
<1>2. EnterS(h, cause) \in Harts
  <2>1. (CopyFlag(h.on, "SIE", "SPIE") \ {"SIE", "SPP"})
            \cup (IF h.prv = U THEN {} ELSE {"SPP"}) \in SUBSET Flags
    BY DEF Harts, CopyFlag, Flags
  <2>2. S \in Modes /\ "handler" \in Pcs
    BY DEF Modes, Pcs
  <2>. QED  BY <2>1, <2>2 DEF Harts, EnterS
<1>. QED  BY <1>1, <1>2 DEF Trap

LEMMA MretType ==
    ASSUME NEW h \in Harts
    PROVE  Mret(h) \in Harts
BY DEF Harts, Mret, CopyFlag, Flags, Modes, U, S, M

LEMMA CauseTypes ==
    /\ IllegalInstruction \in Causes /\ StoreFault \in Causes
    /\ \A kind \in Kinds : AccessFault(kind) \in Causes
    /\ \A prv \in Modes : EcallFrom(prv) \in Causes
BY DEF FetchFault, ReadFault, IllegalInstruction, StoreFault, AccessFault, Kinds,
       EcallFrom, Exception, Causes, Codes, Modes, U, S, M

LEMMA DoMretType ==
    ASSUME NEW h \in Harts
    PROVE  DoMret(h) \in Harts
<1>1. [h EXCEPT !.on = @ \ {"MPRV"}] \in Harts
  BY DEF Harts
<1>. QED  BY <1>1, TrapType, MretType, CauseTypes DEF DoMret

-----------------------------------------------------------------------------
(* Type correctness. *)

\* Both helpers return a number, so a region is encoded as an entry.
LEMMA AddrType ==
    ASSUME NEW base \in Nat, NEW size \in Nat \ {0}
    PROVE  /\ pmp_get_napot_addr(base, size) \in Nat
           /\ pmp_get_na_tor_addr(base) \in Nat
<1>1. 2 * size - 1 \in Nat
  OBVIOUS
<1>2. (2 * size - 1) \div 4 \in Nat
  <2>. HIDE <1>1
  <2>. DEFINE n == 2 * size - 1
  <2>1. n \in Nat
    BY <1>1
  <2>. HIDE DEF n
  <2>2. n \div 4 \in Nat
    BY <2>1
  <2>. QED  BY <2>2 DEF n
<1>. QED  BY <1>2 DEF pmp_get_napot_addr, pmp_get_na_tor_addr

LEMMA EncodedType ==
    ASSUME NEW region \in Regions
    PROVE  Encoded(region) \in Entries
<1>1. /\ region.a \in Matchings /\ region.base \in Nat /\ region.size \in Nat \ {0}
      /\ region.perms \in SUBSET Kinds /\ region.locked \in BOOLEAN
  BY DEF Regions
<1>2. region.base + region.size \in Nat
  BY <1>1
<1>3. Encoded(region).addr \in Nat
  BY <1>1, <1>2, AddrType DEF Encoded, Matchings
<1>. QED  BY <1>1, <1>3 DEF Encoded, Entries

LEMMA TypeInit == Init => TypeOK
BY DEF Init, TypeOK, ResetHart, Harts, Pcs, Modes, U, S, M, NoTrap, Exception, Causes,
       Codes, Entries, Matchings

LEMMA HartStaysTyped ==
    ASSUME TypeOK, Next
    PROVE  hart' \in Harts
<1>. USE DEF TypeOK
<1>p. prog \in PmpProgramType
  BY PmpTestProgramsAssumption
<1>1. CASE MainPmp
  BY <1>1, TrapType, CauseTypes DEF MainPmp, Harts, Pcs
<1>2. CASE MainMstatus
  BY <1>2, <1>p DEF MainMstatus, Harts, Pcs, Flags, PmpProgramType
<1>3. CASE MainMret
  <2>1. [hart EXCEPT !.mepc = "user"] \in Harts
    BY DEF Harts, Pcs
  <2>. QED  BY <1>3, <2>1, DoMretType DEF MainMret
<1>4. CASE MainPass
  BY <1>4 DEF MainPass, Harts, Pcs
<1>5. CASE Granted
  BY <1>5 DEF Granted
<1>6. CASE Refused
  <2>1. Head(todo) \in Accesses
    BY <1>6 DEF Refused
  <2>. QED  BY <1>6, <2>1, TrapType, CauseTypes DEF Refused, Accesses
<1>7. CASE UserEcall
  <2>1. EcallFrom(hart.prv) \in Causes
    BY CauseTypes DEF Harts
  <2>. QED  BY <1>7, <2>1, TrapType DEF UserEcall
<1>8. CASE Handler
  BY <1>8, TrapType, CauseTypes DEF Handler, Harts, Pcs
<1>. QED
  BY <1>1, <1>2, <1>3, <1>4, <1>5, <1>6, <1>7, <1>8 DEF Next

LEMMA OthersStayTyped ==
    ASSUME TypeOK, Next
    PROVE  /\ prog' = prog /\ platform' = platform
           /\ pmp' \in [0 .. 3 -> Entries]
           /\ todo' \in Seq(Accesses)
<1>. USE DEF TypeOK
<1>p. prog \in PmpProgramType
  BY PmpTestProgramsAssumption
<1>1. prog' = prog /\ platform' = platform
  BY DEF Next, MainPmp, MainMstatus, MainMret, MainPass, Granted, Refused,
         UserEcall, Handler
<1>2. pmp' \in [0 .. 3 -> Entries]
  <2>1. CASE MainPmp
    BY <1>p, <2>1, EncodedType DEF MainPmp, PmpProgramType
  <2>2. CASE ~MainPmp
    BY <2>2 DEF Next, MainMstatus, MainMret, MainPass, Granted, Refused,
                UserEcall, Handler
  <2>. QED  BY <2>1, <2>2
<1>3. todo' \in Seq(Accesses)
  <2>1. CASE MainMstatus
    <3>1. Access("R", Stack) \in Accesses /\ Access("W", Stack) \in Accesses
      BY SMT DEF Access, Accesses, Kinds, Stack, Ram, RamSize
    <3>. QED  BY <2>1, <3>1 DEF MainMstatus
  <2>2. CASE MainMret
    BY <1>p, <2>2 DEF MainMret, PmpProgramType
  <2>3. CASE Granted
    BY <2>3 DEF Granted
  <2>4. CASE MainPmp \/ MainPass \/ Refused \/ UserEcall \/ Handler
    BY <2>4 DEF MainPmp, MainPass, Refused, UserEcall, Handler
  <2>. QED  BY <2>1, <2>2, <2>3, <2>4 DEF Next
<1>. QED  BY <1>1, <1>2, <1>3

LEMMA TypeStep == TypeOK /\ [Next]_vars => TypeOK'
<1>. SUFFICES ASSUME TypeOK, [Next]_vars PROVE TypeOK'
  OBVIOUS
<1>1. CASE Next
  BY <1>1, HartStaysTyped, OthersStayTyped DEF TypeOK
<1>2. CASE UNCHANGED vars
  BY <1>2 DEF TypeOK, vars
<1>. QED  BY <1>1, <1>2

\* Every variable keeps its type, whatever programs of this type are run: no trap,
\* no return from one and no region of any size takes hart or PMP out of theirs.
THEOREM TypeCorrect == Spec => []TypeOK
BY TypeInit, TypeStep, PTL DEF Spec

-----------------------------------------------------------------------------
(* The entries in force are the ones main wrote, and cover what it meant.    *)

\* The regions the encodings can express.
WellFormed(p) ==
    \A i \in 0 .. 3 :
        /\ p.regions[i].a = "NAPOT" => /\ p.regions[i].size \in NapotSizes
                                       /\ p.regions[i].base % p.regions[i].size = 0
        /\ p.regions[i].a = "NA4" => p.regions[i].size = 1

AfterPmp == {"main_mstatus", "main_locals", "user"}

PmpAsWritten ==
    /\ TypeOK
    /\ hart.pc \in AfterPmp => pmp = [i \in 0 .. 3 |-> Encoded(prog.regions[i])]

\* A trap goes to the handler, from where no mret leads back.
LEMMA TrapGoesToHandler ==
    ASSUME NEW h \in Harts, NEW cause \in Causes
    PROVE  Trap(h, cause).pc = "handler"
BY DEF Trap, EnterM, EnterS, Harts

LEMMA PmpAsWrittenStep == PmpAsWritten /\ [Next]_vars => PmpAsWritten'
<1>. SUFFICES ASSUME PmpAsWritten, [Next]_vars PROVE PmpAsWritten'
  OBVIOUS
<1>. USE DEF PmpAsWritten, AfterPmp
<1>t. TypeOK'
  BY TypeStep
<1>. SUFFICES ASSUME hart.pc' \in AfterPmp
              PROVE  pmp' = [i \in 0 .. 3 |-> Encoded(prog.regions[i])']
  BY <1>t
<1>h. hart \in Harts
  BY DEF TypeOK
<1>1. CASE MainPmp
  <2>1. hart' # Trap(hart, IllegalInstruction)
    BY <1>h, TrapGoesToHandler, CauseTypes
  <2>. QED  BY <1>1, <2>1 DEF MainPmp, Encoded
<1>2. CASE MainMstatus \/ MainMret \/ MainPass \/ Granted
  BY <1>2 DEF MainMstatus, MainMret, MainPass, Granted, Encoded
<1>3. CASE Refused
  <2>1. Head(todo) \in Accesses
    BY <1>3 DEF Refused, TypeOK
  <2>2. hart'.pc = "handler"
    BY <1>3, <1>h, <2>1, TrapGoesToHandler, CauseTypes DEF Refused, Accesses
  <2>. QED  BY <2>2
<1>4. CASE UserEcall
  <2>1. EcallFrom(hart.prv) \in Causes
    BY <1>h, CauseTypes DEF Harts
  <2>2. hart'.pc = "handler"
    BY <1>4, <1>h, <2>1, TrapGoesToHandler DEF UserEcall
  <2>. QED  BY <2>2
<1>5. CASE Handler
  <2>1. hart'.pc \in {"handler", "pass"}
    BY <1>5, <1>h, TrapGoesToHandler, CauseTypes DEF Handler, Harts
  <2>. QED  BY <2>1
<1>6. CASE UNCHANGED vars
  BY <1>6 DEF vars, Encoded
<1>. QED
  BY <1>1, <1>2, <1>3, <1>4, <1>5, <1>6 DEF Next

LEMMA EncodedCovers ==
    ASSUME NEW p \in PmpProgramType, WellFormed(p), NEW i \in 0 .. 3, NEW w \in Nat,
           p.regions[i].a \in {"NAPOT", "NA4"}, NEW entries,
           entries = [j \in 0 .. 3 |-> Encoded(p.regions[j])]
    PROVE  Covers(entries, i, w) <=> w \in p.regions[i].base ..
                                           p.regions[i].base + p.regions[i].size - 1
<1>. DEFINE r == p.regions[i]
<1>1. r.base \in Nat /\ r.size \in Nat \ {0} /\ r.a \in {"NAPOT", "NA4"}
  BY DEF PmpProgramType, Regions
<1>2. entries[i].a = r.a
  BY DEF Encoded
<1>3. CASE r.a = "NAPOT"
  <2>1. entries[i].addr = pmp_get_napot_addr(r.base, r.size)
    BY <1>3 DEF Encoded
  <2>2. r.size \in NapotSizes /\ r.base % r.size = 0
    BY <1>3 DEF WellFormed
  <2>3. Covers(entries, i, w) <=> InNapot(pmp_get_napot_addr(r.base, r.size), w)
    BY <1>2, <1>3, <2>1 DEF Covers
  <2>. QED  BY <1>1, <2>2, <2>3, NapotExact
<1>4. CASE r.a = "NA4"
  <2>1. entries[i].addr = r.base
    BY <1>4 DEF Encoded, pmp_get_na_tor_addr
  <2>2. r.size = 1
    BY <1>4 DEF WellFormed
  <2>3. Covers(entries, i, w) <=> w = r.base
    BY <1>2, <1>4, <2>1 DEF Covers
  <2>. QED  BY <1>1, <2>2, <2>3
<1>. QED  BY <1>1, <1>3, <1>4

\* Whatever programs of well-formed regions run, the NAPOT and NA4 entries cover
\* exactly the regions main asked for, from its PMP writes to the end of the user
\* program.
THEOREM EntriesCorrect ==
    ASSUME \A p \in PmpTestPrograms : WellFormed(p)
    PROVE  Spec => []EntriesCoverTheirRegions
<1>1. Init => PmpAsWritten
  BY TypeInit DEF Init, ResetHart, PmpAsWritten, AfterPmp
<1>2. PmpAsWritten => EntriesCoverTheirRegions
  <2>. SUFFICES ASSUME PmpAsWritten, hart.pc \in AfterPmp,
                       NEW i \in 0 .. 3, prog.regions[i].a \in {"NAPOT", "NA4"},
                       NEW w \in Borders(prog.regions[i])
                PROVE  Covers(pmp, i, w) <=> w \in prog.regions[i].base ..
                                     prog.regions[i].base + prog.regions[i].size - 1
    BY DEF EntriesCoverTheirRegions, AfterPmp
  <2>1. prog \in PmpProgramType /\ WellFormed(prog)
    BY PmpTestProgramsAssumption DEF PmpAsWritten, TypeOK
  <2>2. w \in Nat
    <3>1. prog.regions[i].base \in Nat /\ prog.regions[i].size \in Nat \ {0}
      BY <2>1 DEF PmpProgramType, Regions
    <3>. QED  BY <3>1 DEF Borders
  <2>. QED  BY <2>1, <2>2, EncodedCovers DEF PmpAsWritten
<1>. QED  BY <1>1, <1>2, PmpAsWrittenStep, PTL DEF Spec

\* The hypothesis is met by the programs of the repository.
Fits(r) ==
    /\ r.a = "NAPOT" => r.size \in NapotSizes /\ r.base % r.size = 0
    /\ r.a = "NA4" => r.size = 1

LEMMA RepositoryWellFormed == \A p \in AllPmpPrograms : WellFormed(p)
<1>1. /\ RamSize \in NapotSizes /\ Ram % RamSize = 0
      /\ UserRamSize \in NapotSizes /\ UserRam % UserRamSize = 0
      /\ UartSize \in NapotSizes /\ Uart % UartSize = 0
  BY SMTT(30) DEF NapotSizes, Ram, RamSize, UserRam, UserRamSize, Uart, UartSize
<1>2. \A perms \in SUBSET Kinds :
          /\ Fits(Region("NAPOT", Ram, RamSize, perms))
          /\ Fits(Region("NAPOT", UserRam, UserRamSize, perms))
          /\ Fits([Region("NAPOT", UserRam, UserRamSize, perms) EXCEPT !.perms = {"R", "W"}])
          /\ Fits([[Region("NAPOT", UserRam, UserRamSize, perms) EXCEPT !.perms = {"R", "W"}]
                     EXCEPT !.locked = TRUE])
          /\ Fits(Region("NAPOT", Uart, UartSize, perms))
          /\ Fits(Region("TOR", 0, TestEnd, perms))
          /\ Fits(TestRange(perms))
  BY <1>1 DEF Fits, Region, TestRange
<1>3. Fits(Unwritten) /\ Fits(UartOff) /\ Fits(TestWord)
  BY DEF Fits, Region, Unwritten, UartOff, TestWord
<1>4. \A p : (\A i \in 0 .. 3 : Fits(p.regions[i])) => WellFormed(p)
  BY DEF Fits, WellFormed
<1>5. {"R", "W"} \in SUBSET Kinds /\ {"R", "X"} \in SUBSET Kinds /\ {"W", "X"} \in SUBSET Kinds
      /\ RWX \in SUBSET Kinds
  BY DEF Kinds, RWX
<1>6. /\ DOMAIN UsualRegions = 0 .. 3
      /\ UsualRegions[0] = Region("NAPOT", Ram, RamSize, RWX)
      /\ UsualRegions[1] = Region("NAPOT", UserRam, UserRamSize, RWX)
      /\ UsualRegions[2] = Region("NAPOT", Uart, UartSize, RWX)
      /\ UsualRegions[3] = Unwritten
  BY DEF UsualRegions
<1>7. \A i \in 0 .. 3 : Fits(UsualRegions[i])
  <2>1. \A i \in 0 .. 3 : i = 0 \/ i = 1 \/ i = 2 \/ i = 3
    OBVIOUS
  <2>. QED  BY <1>2, <1>3, <1>5, <1>6, <2>1
<1>8. \A r, i : Fits(r) => \A j \in 0 .. 3 : Fits([UsualRegions EXCEPT ![i] = r][j])
  BY <1>6, <1>7
<1>. QED
  <2>1. pmp_everything_ok.regions = UsualRegions
    BY DEF pmp_everything_ok
  <2>2. \A i \in 0 .. 3 : Fits(pmp_do_nothing.regions[i])
    BY <1>3 DEF pmp_do_nothing, pmp_everything_ok
  <2>3. pmp_mprv_s_mode.regions = [UsualRegions EXCEPT ![2] = UartOff]
    BY DEF pmp_mprv_s_mode, pmp_everything_ok
  <2>4. pmp_mprv_m_mode.regions = pmp_mprv_s_mode.regions
    BY DEF pmp_mprv_m_mode, pmp_mprv_s_mode, pmp_everything_ok
  <2>. DEFINE DataOnly == [UsualRegions[1] EXCEPT !.perms = {"R", "W"}]
              Locked == [DataOnly EXCEPT !.locked = TRUE]
  <2>d. Fits(DataOnly) /\ Fits(Locked)
    BY <1>2, <1>5, <1>6
  <2>5. \A j \in 0 .. 3 : Fits(pmp_locked_bit_m_mode.regions[j])
    <3>1. pmp_locked_bit_m_mode.regions =
              [[UsualRegions EXCEPT ![1] = DataOnly] EXCEPT ![1] = Locked]
      BY <1>6 DEF pmp_locked_bit_m_mode, pmp_everything_ok
    <3>. QED  BY <1>6, <1>7, <2>d, <3>1
  <2>6. pmp_na4_ok.regions = [UsualRegions EXCEPT ![3] = TestWord]
    BY DEF pmp_na4_ok, pmp_everything_ok
  <2>7. pmp_na4_err.regions = pmp_na4_ok.regions
    BY DEF pmp_na4_err, pmp_na4_ok, pmp_everything_ok
  <2>8. pmp_tor_ok.regions = [UsualRegions EXCEPT ![3] = TestRange(RWX)]
    BY DEF pmp_tor_ok, pmp_everything_ok
  <2>9. pmp_tor_err.regions = pmp_tor_ok.regions
    BY DEF pmp_tor_err, pmp_tor_ok, pmp_everything_ok
  <2>10. pmp_tor_read_err.regions = [UsualRegions EXCEPT ![3] = TestRange({"W", "X"})]
    <3>1. pmp_tor_read_err.regions = [pmp_tor_ok.regions EXCEPT ![3] = TestRange({"W", "X"})]
      BY DEF pmp_tor_read_err, pmp_tor_ok, pmp_everything_ok
    <3>. QED  BY <1>6, <2>8, <3>1
  <2>11. pmp_tor_write_err.regions = [UsualRegions EXCEPT ![3] = TestRange({"R", "X"})]
    <3>1. pmp_tor_write_err.regions = [pmp_tor_ok.regions EXCEPT ![3] = TestRange({"R", "X"})]
      BY DEF pmp_tor_write_err, pmp_tor_ok, pmp_everything_ok
    <3>. QED  BY <1>6, <2>8, <3>1
  <2>12. pmp_tor_exec_err.regions = [UsualRegions EXCEPT ![1] = DataOnly]
    BY <1>6 DEF pmp_tor_exec_err, pmp_everything_ok
  <2>13. \A i \in 0 .. 3 : Fits(pmp_tor_first_entry.regions[i])
    BY <1>2, <1>3, <1>5 DEF pmp_tor_first_entry, pmp_everything_ok, OnlyFirst
  <2>14. pmp_tor_first_entry_err.regions = pmp_tor_first_entry.regions
    BY DEF pmp_tor_first_entry_err, pmp_tor_first_entry, pmp_everything_ok
  <2>15. pmp_mprv_bit = pmp_everything_ok
    BY DEF pmp_mprv_bit
  <2>. DEFINE AllFit(p) == \A i \in 0 .. 3 : Fits(p.regions[i])
  <2>16. AllFit(pmp_everything_ok) /\ AllFit(pmp_mprv_bit) /\ AllFit(pmp_do_nothing)
    BY <1>7, <2>1, <2>2, <2>15
  <2>17. AllFit(pmp_mprv_s_mode) /\ AllFit(pmp_mprv_m_mode)
    BY <1>3, <1>8, <2>3, <2>4
  <2>18. AllFit(pmp_locked_bit_m_mode) /\ AllFit(pmp_tor_exec_err)
    BY <1>8, <2>d, <2>5, <2>12
  <2>19. AllFit(pmp_na4_ok) /\ AllFit(pmp_na4_err)
    BY <1>3, <1>8, <2>6, <2>7
  <2>20. AllFit(pmp_tor_ok) /\ AllFit(pmp_tor_err)
         /\ AllFit(pmp_tor_read_err) /\ AllFit(pmp_tor_write_err)
    <3>1. /\ Fits(TestRange(RWX)) /\ Fits(TestRange({"W", "X"}))
          /\ Fits(TestRange({"R", "X"}))
      BY <1>2, <1>5
    <3>2. AllFit(pmp_tor_ok) /\ AllFit(pmp_tor_err)
      BY <1>8, <2>8, <2>9, <3>1
    <3>3. AllFit(pmp_tor_read_err) /\ AllFit(pmp_tor_write_err)
      BY <1>8, <2>10, <2>11, <3>1
    <3>. QED  BY <3>2, <3>3
  <2>21. AllFit(pmp_tor_first_entry) /\ AllFit(pmp_tor_first_entry_err)
    BY <2>13, <2>14
  <2>. HIDE DEF AllFit
  <2>22. \A p \in AllPmpPrograms : AllFit(p)
    BY <2>16, <2>17, <2>18, <2>19, <2>20, <2>21
       DEF AllPmpPrograms, EncodingTests, ModeTests
  <2>. QED  BY <1>4, <2>22 DEF AllFit

\* So the helpers encode the regions of the repository's own tests exactly.
THEOREM RepositoryEntriesCorrect ==
    ASSUME PmpTestPrograms \subseteq AllPmpPrograms
    PROVE  Spec => []EntriesCoverTheirRegions
BY RepositoryWellFormed, EntriesCorrect

-----------------------------------------------------------------------------
(* What the entries in force grant is what the regions open.  The operators  *)
(* below speak of intervals only; Placed and Kept say when the lowest        *)
(* matching entry and the region an access lies in are the same.             *)

Holds(region, w) == w >= region.base /\ w < region.base + region.size

IsOn(region) == region.a # "OFF"

Meets(p, i, w) == IsOn(p.regions[i]) /\ Holds(p.regions[i], w)

\* What pmpaddr holds for a region, and where a TOR entry starts.
AddrOf(region) ==
    CASE region.a \in {"NAPOT", "OFF"} -> pmp_get_napot_addr(region.base, region.size)
      [] region.a = "NA4" -> pmp_get_na_tor_addr(region.base)
      [] region.a = "TOR" -> pmp_get_na_tor_addr(region.base + region.size)

TorFrom(p, i) == IF i = 0 THEN 0 ELSE AddrOf(p.regions[i - 1])

\* The regions that are on do not overlap at w, and a TOR entry that starts below
\* its region (pmp_tor_ok.c sets no entry 2 for TEST_ACCESS_LOCATION_START) leaves
\* w to a lower entry if it lies in the gap.
Placed(p, w) ==
    /\ \A i, j \in 0 .. 3 : Meets(p, i, w) /\ Meets(p, j, w) => i = j
    /\ \A i \in 0 .. 3 : p.regions[i].a = "TOR" =>
          /\ TorFrom(p, i) <= p.regions[i].base
          /\ TorFrom(p, i) <= w /\ w < p.regions[i].base =>
                \E j \in 0 .. 3 : j < i /\ Meets(p, j, w)

\* No write is made where a platform may have dropped W.
Kept(p, access) ==
    access.kind = "W" =>
        \A i \in 0 .. 3 : Meets(p, i, access.word) /\ "W" \in p.regions[i].perms
                            => "R" \in p.regions[i].perms

Decided(p, access) == Placed(p, access.word) /\ Kept(p, access)

\* Opened for code that all regions bind, and for code that only locked ones do.
BoundOpens(p, access) ==
    \E i \in 0 .. 3 : /\ Holds(p.regions[i], access.word)
                      /\ access.kind \in p.regions[i].perms

LockedOpens(p, access) ==
    \A i \in 0 .. 3 : Holds(p.regions[i], access.word) /\ p.regions[i].locked
                        => access.kind \in p.regions[i].perms

\* A region that is off opens and locks nothing.
OffIsOff(p) ==
    \A i \in 0 .. 3 : ~IsOn(p.regions[i]) => /\ p.regions[i].perms = {}
                                             /\ p.regions[i].locked = FALSE

LEMMA RegionTypes ==
    ASSUME NEW p \in PmpProgramType, NEW i \in 0 .. 3
    PROVE  /\ p.regions[i] \in Regions /\ p.regions[i].a \in Matchings
           /\ p.regions[i].base \in Nat /\ p.regions[i].size \in Nat \ {0}
           /\ p.regions[i].perms \in SUBSET Kinds /\ p.regions[i].locked \in BOOLEAN
           /\ DOMAIN p.regions = 0 .. 3
BY DEF PmpProgramType, Regions

LEMMA EncodedFields ==
    ASSUME NEW region \in Regions
    PROVE  /\ Encoded(region).a = region.a /\ Encoded(region).locked = region.locked
           /\ Encoded(region).addr = AddrOf(region)
           /\ \A kind \in Kinds :
                 (kind = "W" /\ "W" \in region.perms => "R" \in region.perms) =>
                 (kind \in Encoded(region).perms <=> kind \in region.perms)
BY DEF Encoded, AddrOf, Kinds, Regions

LEMMA TorCovers ==
    ASSUME NEW p \in PmpProgramType, NEW i \in 0 .. 3, NEW w \in Nat,
           p.regions[i].a = "TOR", NEW entries,
           entries = [j \in 0 .. 3 |-> Encoded(p.regions[j])]
    PROVE  Covers(entries, i, w) <=> /\ TorFrom(p, i) <= w
                                     /\ w < p.regions[i].base + p.regions[i].size
<1>1. entries[i].a = "TOR"
  BY RegionTypes, EncodedFields
<1>2. entries[i].addr = p.regions[i].base + p.regions[i].size
  BY RegionTypes, EncodedFields DEF AddrOf, pmp_get_na_tor_addr
<1>3. i # 0 => i - 1 \in 0 .. 3 /\ entries[i - 1].addr = AddrOf(p.regions[i - 1])
  BY RegionTypes, EncodedFields
<1>. QED  BY <1>1, <1>2, <1>3 DEF Covers, TorFrom

\* An entry that covers a word outside its region is not the lowest to do so.
LEMMA CoversMeets ==
    ASSUME NEW p \in PmpProgramType, WellFormed(p), NEW w \in Nat, Placed(p, w),
           NEW i \in 0 .. 3, NEW entries,
           entries = [j \in 0 .. 3 |-> Encoded(p.regions[j])]
    PROVE  /\ Meets(p, i, w) => Covers(entries, i, w)
           /\ Covers(entries, i, w) =>
                 Meets(p, i, w) \/ \E j \in 0 .. 3 : j < i /\ Meets(p, j, w)
<1>. USE RegionTypes
<1>1. CASE p.regions[i].a \in {"NAPOT", "NA4"}
  <2>1. Covers(entries, i, w) <=> w \in p.regions[i].base ..
                                        p.regions[i].base + p.regions[i].size - 1
    BY <1>1, EncodedCovers
  <2>. QED  BY <1>1, <2>1 DEF Meets, IsOn, Holds
<1>2. CASE p.regions[i].a = "TOR"
  <2>1. Covers(entries, i, w) <=> /\ TorFrom(p, i) <= w
                                  /\ w < p.regions[i].base + p.regions[i].size
    BY <1>2, TorCovers
  <2>2. /\ TorFrom(p, i) <= p.regions[i].base
        /\ TorFrom(p, i) <= w /\ w < p.regions[i].base =>
              \E j \in 0 .. 3 : j < i /\ Meets(p, j, w)
    BY <1>2 DEF Placed
  <2>3. TorFrom(p, i) \in Nat
    <3>1. i # 0 => i - 1 \in 0 .. 3 /\ AddrOf(p.regions[i - 1]) \in Nat
      <4>1. i # 0 => i - 1 \in 0 .. 3
        OBVIOUS
      <4>2. \A region \in Regions : AddrOf(region) \in Nat
        BY EncodedFields, EncodedType DEF Entries
      <4>. QED  BY <4>1, <4>2
    <3>. QED  BY <3>1 DEF TorFrom
  <2>. QED  BY <1>2, <2>1, <2>2, <2>3 DEF Meets, IsOn, Holds
<1>3. CASE p.regions[i].a = "OFF"
  <2>1. entries[i].a = "OFF"
    BY <1>3, EncodedFields
  <2>. QED  BY <1>3, <2>1 DEF Covers, Meets, IsOn
<1>. QED  BY <1>1, <1>2, <1>3 DEF Matchings

\* The lowest-match rule over the encoded entries, and the regions.
LEMMA GrantsOpens ==
    ASSUME NEW p \in PmpProgramType, WellFormed(p), OffIsOff(p),
           NEW access \in Accesses, Decided(p, access), NEW entries,
           entries = [j \in 0 .. 3 |-> Encoded(p.regions[j])]
    PROVE  /\ Grants(entries, FALSE, access.kind, access.word) <=> BoundOpens(p, access)
           /\ Grants(entries, TRUE, access.kind, access.word) <=> LockedOpens(p, access)
           /\ BoundOpens(p, access) => LockedOpens(p, access)
<1>. USE RegionTypes
<1>. DEFINE w == access.word
            hits == {i \in DOMAIN entries : Covers(entries, i, w)}
<1>1. w \in Nat /\ access.kind \in Kinds /\ Placed(p, w) /\ DOMAIN entries = 0 .. 3
  BY DEF Accesses, Decided
<1>2. \A i \in 0 .. 3 :
        /\ Meets(p, i, w) => i \in hits
        /\ i \in hits => Meets(p, i, w) \/ \E j \in 0 .. 3 : j < i /\ Meets(p, j, w)
  BY <1>1, CoversMeets
<1>3. \A i, j \in 0 .. 3 : Meets(p, i, w) /\ Meets(p, j, w) => i = j
  BY <1>1 DEF Placed
<1>o. \A i \in 0 .. 3 : Holds(p.regions[i], w) =>
          \/ Meets(p, i, w)
          \/ p.regions[i].perms = {} /\ p.regions[i].locked = FALSE
  BY DEF OffIsOff, Meets
<1>g. \A machine \in BOOLEAN : Grants(entries, machine, access.kind, w) <=>
          IF hits = {} THEN machine
          ELSE \E i \in hits :
                  /\ \A j \in hits : i <= j
                  /\ access.kind \in entries[i].perms \/ (machine /\ ~entries[i].locked)
  BY DEF Grants
<1>. HIDE DEF hits
<1>4. CASE \A i \in 0 .. 3 : ~Meets(p, i, w)
  <2>1. hits = {}
    <3>1. hits \subseteq 0 .. 3
      BY <1>1 DEF hits
    <3>. QED  BY <1>2, <1>4, <3>1
  <2>2. ~BoundOpens(p, access) /\ LockedOpens(p, access)
    BY <1>4, <1>o DEF BoundOpens, LockedOpens
  <2>. QED  BY <1>g, <2>1, <2>2
<1>5. ASSUME NEW i \in 0 .. 3, Meets(p, i, w)
      PROVE  /\ Grants(entries, FALSE, access.kind, w) <=> BoundOpens(p, access)
             /\ Grants(entries, TRUE, access.kind, w) <=> LockedOpens(p, access)
             /\ BoundOpens(p, access) => LockedOpens(p, access)
  <2>1. i \in hits /\ hits \subseteq 0 .. 3
    BY <1>1, <1>2, <1>5 DEF hits
  <2>2. \A j \in hits : i <= j
    <3>. TAKE j \in hits
    <3>1. j \in 0 .. 3
      BY <2>1
    <3>2. Meets(p, j, w) => i = j
      BY <1>3, <1>5, <3>1
    <3>3. (\E k \in 0 .. 3 : k < j /\ Meets(p, k, w)) => i < j
      BY <1>3, <1>5, <3>1
    <3>. QED  BY <1>2, <3>1, <3>2, <3>3
  <2>3. \A j \in hits : (\A k \in hits : j <= k) => j = i
    BY <2>1, <2>2
  <2>4. \A machine \in BOOLEAN : Grants(entries, machine, access.kind, w) <=>
            access.kind \in entries[i].perms \/ (machine /\ ~entries[i].locked)
    BY <1>g, <2>1, <2>2, <2>3
  <2>5. /\ entries[i].locked = p.regions[i].locked
        /\ access.kind \in entries[i].perms <=> access.kind \in p.regions[i].perms
    <3>1. access.kind = "W" /\ "W" \in p.regions[i].perms => "R" \in p.regions[i].perms
      BY <1>5 DEF Decided, Kept
    <3>2. entries[i] = Encoded(p.regions[i]) /\ p.regions[i] \in Regions
      OBVIOUS
    <3>. QED  BY <1>1, <3>1, <3>2, EncodedFields
  <2>6. BoundOpens(p, access) <=> access.kind \in p.regions[i].perms
    BY <1>3, <1>5, <1>o DEF BoundOpens, Meets
  <2>7. LockedOpens(p, access) <=>
            access.kind \in p.regions[i].perms \/ ~p.regions[i].locked
    <3>1. \A j \in 0 .. 3 : Holds(p.regions[j], w) /\ p.regions[j].locked => j = i
      BY <1>3, <1>5, <1>o
    <3>. QED  BY <1>5, <3>1 DEF LockedOpens, Meets
  <2>. QED  BY <2>4, <2>5, <2>6, <2>7
<1>. QED  BY <1>4, <1>5

-----------------------------------------------------------------------------
(* The programs the refinement is about, and what May be accessed.           *)

Opens(p, access) ==
    IF p.mpp # M THEN BoundOpens(p, access) ELSE LockedOpens(p, access)

NothingOn(p) == \A i \in 0 .. 3 : ~IsOn(p.regions[i])

\* main makes its own accesses as the user program will, a test that runs none of
\* its user program has none, and one that opens nothing leaves machine mode.
OneMode(p) ==
    /\ p.mprv \/ p.mpp = M
    /\ p.mpp = M /\ ~p.direct => ~p.mprv
    /\ p.direct => p.user = <<>>
    /\ NothingOn(p) => p.mpp # M

Reaches(p, k) == \A j \in 1 .. Len(p.user) : j < k => Opens(p, p.user[j])

\* The accesses that are made, if those before them are, are decided alike by the
\* entries and by the regions.
Decides(p) ==
    /\ Decided(p, Access("R", Stack)) /\ Decided(p, Access("W", Stack))
    /\ \A k \in 1 .. Len(p.user) : Reaches(p, k) => Decided(p, p.user[k])

Checked(p) == WellFormed(p) /\ OffIsOff(p) /\ OneMode(p) /\ Decides(p)

\* The platform checks nothing while the test opens nothing.
Free == NothingOn(prog) /\ platform.pmp # "strict"

May(access) == Free \/ Opens(prog, access)

Written == pmp = [i \in 0 .. 3 |-> Encoded(prog.regions[i])]

Allows(machine, access) ==
    \/ platform.pmp \in {"lenient", "qemu6"} /\ NoEntryOn(pmp)
    \/ Grants(pmp, machine, access.kind, access.word)

Running == TypeOK /\ Checked(prog)

Present == Running /\ Written /\ platform.pmp # "absent"

LEMMA ProgType == TypeOK => prog \in PmpProgramType /\ platform \in PmpPlatformType
BY PmpTestProgramsAssumption, PmpPlatformsAssumption DEF TypeOK

LEMMA NothingIsOff ==
    /\ NothingOpened <=> NothingOn(prog)
    /\ Present => (NoEntryOn(pmp) <=> NothingOn(prog))
<1>1. NothingOpened <=> NothingOn(prog)
  BY DEF NothingOpened, NothingOn, IsOn
<1>2. ASSUME Present PROVE NoEntryOn(pmp) <=> NothingOn(prog)
  <2>1. \A i \in 0 .. 3 : pmp[i].a = prog.regions[i].a
    BY <1>2, ProgType, RegionTypes, EncodedFields DEF Present, Running, Written
  <2>2. DOMAIN pmp = 0 .. 3
    BY <1>2 DEF Present, Written
  <2>. QED  BY <2>1, <2>2 DEF NoEntryOn, NothingOn, IsOn
<1>. QED  BY <1>1, <1>2

\* The abstract specification opens what may be accessed.
LEMMA OpenedIsMay ==
    ASSUME Running, NEW access
    PROVE  Guard!Opened(access) <=> May(access)
<1>1. prog \in PmpProgramType /\ OffIsOff(prog)
  BY ProgType DEF Running, Checked
<1>2. DOMAIN prog.regions = 0 .. 3
  BY <1>1, RegionTypes
<1>3. Guard!Opened(access) <=>
          IF Bound THEN BoundOpens(prog, access) ELSE LockedOpens(prog, access)
  BY <1>2 DEF Guard!Opened, Guard!Inside, BoundOpens, LockedOpens, Holds
<1>4. CASE Free
  <2>1. ~Bound
    BY <1>4, NothingIsOff DEF Free, Bound
  <2>2. LockedOpens(prog, access)
    BY <1>1, <1>4 DEF Free, NothingOn, OffIsOff, LockedOpens
  <2>. QED  BY <1>3, <1>4, <2>1, <2>2 DEF May
<1>5. CASE ~Free
  <2>1. Bound <=> prog.mpp # M
    BY <1>5, NothingIsOff DEF Free, Bound
  <2>. QED  BY <1>3, <1>5, <2>1 DEF May, Opens
<1>. QED  BY <1>4, <1>5

\* The hart allows it: as the code the test is about, and in machine mode too.
LEMMA AllowsMay ==
    ASSUME Present, NEW access \in Accesses, Free \/ Decided(prog, access)
    PROVE  /\ Allows(prog.mpp = M, access) <=> May(access)
           /\ prog.mpp # M /\ May(access) => Allows(TRUE, access)
<1>1. prog \in PmpProgramType /\ WellFormed(prog) /\ OffIsOff(prog)
  BY ProgType DEF Present, Running, Checked
<1>2. platform.pmp \in {"strict", "lenient", "qemu6"}
  BY ProgType DEF Present, Running, PmpPlatformType
<1>3. CASE Free
  BY <1>2, <1>3, NothingIsOff DEF Free, May, Allows
<1>4. CASE ~Free
  <2>1. ~(platform.pmp \in {"lenient", "qemu6"} /\ NoEntryOn(pmp))
    BY <1>4, NothingIsOff DEF Free
  <2>2. Decided(prog, access) /\ pmp = [j \in 0 .. 3 |-> Encoded(prog.regions[j])]
    BY <1>4 DEF Present, Written
  <2>3. /\ Grants(pmp, FALSE, access.kind, access.word) <=> BoundOpens(prog, access)
        /\ Grants(pmp, TRUE, access.kind, access.word) <=> LockedOpens(prog, access)
        /\ BoundOpens(prog, access) => LockedOpens(prog, access)
    BY <1>1, <2>2, GrantsOpens
  <2>4. CASE prog.mpp = M
    BY <1>4, <2>1, <2>3, <2>4 DEF Allows, May, Opens
  <2>5. CASE prog.mpp # M
    BY <1>4, <2>1, <2>3, <2>5 DEF Allows, May, Opens
  <2>. QED  BY <2>4, <2>5
<1>. QED  BY <1>3, <1>4

LEMMA StackTypes ==
    /\ Access("R", Stack) \in Accesses /\ Access("W", Stack) \in Accesses
    /\ Access("R", Stack).kind = "R" /\ Access("W", Stack).kind = "W"
BY SMT DEF Access, Accesses, Kinds, Stack, Ram, RamSize

-----------------------------------------------------------------------------
(* The invariant of the refinement: where the test is, with what mstatus, and *)
(* which of its accesses are still to be made.                                *)

AtMain ==
    /\ hart.pc = "main" /\ hart.prv = M /\ hart.on = {} /\ hart.mcause = NoTrap
    /\ NoEntryOn(pmp)

InMain ==
    /\ hart.prv = M /\ hart.mcause = NoTrap
    /\ Written /\ platform.pmp # "absent"

AtLocals ==
    /\ hart.pc = "main_locals" /\ InMain
    /\ hart.mpp = prog.mpp /\ ("MPRV" \in hart.on <=> prog.mprv)
    /\ \/ todo = <<Access("R", Stack), Access("W", Stack)>> /\ ~prog.direct
       \/ todo = <<Access("W", Stack)>> /\ (prog.direct \/ May(Access("R", Stack)))
       \/ /\ todo = <<>> /\ May(Access("W", Stack))
          /\ prog.direct \/ May(Access("R", Stack))

\* The first access of the user program that is still to be made.
Made == Len(prog.user) - Len(todo)

AtUser ==
    /\ hart.pc = "user" /\ hart.mcause = NoTrap /\ ~prog.direct
    /\ Written /\ platform.pmp # "absent"
    /\ platform.pmp = "qemu6" => ~NothingOn(prog)
    /\ hart.prv = prog.mpp /\ hart.mpp = U /\ ("MPRV" \in hart.on => prog.mprv)
    /\ May(Access("W", Stack)) /\ May(Access("R", Stack))
    /\ Len(todo) <= Len(prog.user)
    /\ \A j \in 1 .. Len(todo) : todo[j] = prog.user[Made + j]
    /\ Free \/ Reaches(prog, Made + 1)

\* The handler's own frame is refused, if at all, only when main was stopped at its
\* locals: then it is entered again.
AtHandler ==
    /\ hart.pc = "handler" /\ hart.prv = M
    /\ \/ hart.mcause = IllegalInstruction /\ Allowed(Access("W", Stack))
       \/ /\ hart.mcause # IllegalInstruction /\ hart.mepc = "user"
          /\ Allowed(Access("W", Stack))
       \/ hart.mcause # IllegalInstruction /\ hart.mepc # "user"

Undelegated == hart.medeleg = {} /\ hart.mideleg = {}

GuardInv ==
    /\ TypeOK /\ Undelegated
    /\ \/ AtMain
       \/ hart.pc = "main_mstatus" /\ InMain /\ hart.on = {}
       \/ AtLocals \/ AtUser \/ AtHandler \/ hart.pc = "pass"

\* A step of the test, as the abstract specification sees it.
Stopped == hart.pc \in {"handler", "pass"}

Stays == Left' = Left /\ (Stopped' <=> Stopped)

Makes ==
    /\ ~Stopped /\ ~Stopped'
    /\ Left # <<>> /\ May(Head(Left)) /\ Left' = Tail(Left)

Stops ==
    /\ ~Stopped /\ Stopped' /\ Left' = Left
    /\ Left # <<>> => ~May(Head(Left))

Constant == prog' = prog /\ platform' = platform

LEMMA AbstractStep ==
    ASSUME Running, Constant, Stays \/ Makes \/ Stops
    PROVE  [Guard!Next]_Guard!guard
<1>1. Bound' = Bound /\ prog.regions' = prog.regions
  BY DEF Constant, Bound, NothingOpened
<1>2. Stopped' \in BOOLEAN /\ Stopped \in BOOLEAN
  BY DEF Stopped
<1>3. CASE Stays
  BY <1>1, <1>2, <1>3 DEF Stays, Guard!guard, Stopped
<1>4. CASE Makes
  BY <1>1, <1>2, <1>4, OpenedIsMay DEF Makes, Guard!Next, Guard!Make, Stopped
<1>5. CASE Stops
  BY <1>1, <1>2, <1>5, OpenedIsMay DEF Stops, Guard!Next, Guard!Stop, Stopped
<1>. QED  BY <1>3, <1>4, <1>5

LEMMA CausesDiffer ==
    /\ \A kind \in Kinds : AccessFault(kind) # IllegalInstruction
    /\ \A prv \in Modes : EcallFrom(prv) # IllegalInstruction
    /\ StoreFault # IllegalInstruction /\ NoTrap # IllegalInstruction
BY DEF AccessFault, FetchFault, ReadFault, StoreFault, IllegalInstruction, EcallFrom,
       NoTrap, Exception, Kinds, Modes, U, S, M

\* A trap that nothing delegates.
LEMMA TrapFields ==
    ASSUME NEW h \in Harts, h.medeleg = {}, h.mideleg = {}, NEW cause \in Causes
    PROVE  LET g == Trap(h, cause)
           IN  /\ g.pc = "handler" /\ g.prv = M /\ g.mepc = h.pc /\ g.mcause = cause
               /\ g.mpp = h.prv /\ g.medeleg = {} /\ g.mideleg = {}
               /\ "MPRV" \in g.on <=> "MPRV" \in h.on
<1>1. Trap(h, cause) = EnterM(h, cause)
  BY DEF Trap, Delegated
<1>. QED  BY <1>1 DEF EnterM, CopyFlag, Harts

\* Taking an access from the front of what is left.
LEMMA FrontOfRest ==
    ASSUME NEW X, NEW s \in Seq(X), s # <<>>, NEW t \in Seq(X)
    PROVE  /\ s \o t # <<>> /\ Head(s \o t) = Head(s) /\ Tail(s \o t) = Tail(s) \o t
           /\ Tail(s) \in Seq(X) /\ Head(s) \in X
<1>1. Len(s) \in Nat \ {0} /\ Len(t) \in Nat
  BY EmptySeq
<1>2. /\ Len(s \o t) = Len(s) + Len(t) /\ s \o t \in Seq(X)
      /\ \A i \in 1 .. Len(s) : (s \o t)[i] = s[i]
      /\ \A i \in 1 .. Len(t) : (s \o t)[Len(s) + i] = t[i]
  BY ConcatProperties
<1>3. s \o t # <<>>
  BY <1>1, <1>2, EmptySeq
<1>4. Head(s \o t) = Head(s)
  BY <1>1, <1>2, <1>3
<1>5. /\ Tail(s) \in Seq(X) /\ Len(Tail(s)) = Len(s) - 1
      /\ \A i \in 1 .. Len(s) - 1 : Tail(s)[i] = s[i + 1]
      /\ Head(s) \in X
  BY HeadTailProperties
<1>6. Tail(s \o t) = Tail(s) \o t
  <2>1. Len(Tail(s \o t)) = Len(s) + Len(t) - 1 /\ Tail(s \o t) \in Seq(X)
        /\ \A i \in 1 .. Len(s) + Len(t) - 1 : Tail(s \o t)[i] = (s \o t)[i + 1]
    BY <1>2, <1>3, HeadTailProperties
  <2>2. /\ Len(Tail(s) \o t) = Len(s) + Len(t) - 1 /\ Tail(s) \o t \in Seq(X)
        /\ \A i \in 1 .. Len(s) - 1 : (Tail(s) \o t)[i] = Tail(s)[i]
        /\ \A i \in 1 .. Len(t) : (Tail(s) \o t)[Len(s) - 1 + i] = t[i]
    BY <1>1, <1>5, ConcatProperties
  <2>3. \A i \in 1 .. Len(s) + Len(t) - 1 : Tail(s \o t)[i] = (Tail(s) \o t)[i]
    <3>. TAKE i \in 1 .. Len(s) + Len(t) - 1
    <3>1. CASE i \in 1 .. Len(s) - 1
      BY <1>1, <1>2, <1>5, <2>1, <2>2, <3>1
    <3>2. CASE i \notin 1 .. Len(s) - 1
      <4>. DEFINE j == i - (Len(s) - 1)
      <4>1. j \in 1 .. Len(t) /\ i = Len(s) - 1 + j /\ i + 1 = Len(s) + j
        BY <1>1, <3>2
      <4>. HIDE DEF j
      <4>. QED  BY <1>1, <1>2, <2>1, <2>2, <4>1
    <3>. QED  BY <3>1, <3>2
  <2>. QED  BY <2>1, <2>2, <2>3, SeqEqual
<1>. QED  BY <1>3, <1>4, <1>5, <1>6

\* What a step that writes no region leaves as it was.
LEMMA RegionsKept ==
    ASSUME Constant, pmp' = pmp
    PROVE  /\ Written' <=> Written
           /\ NoEntryOn(pmp)' <=> NoEntryOn(pmp)
           /\ \A access : May(access)' <=> May(access)
           /\ UserAccesses' = UserAccesses /\ AllAccesses' = AllAccesses
           /\ Allowed(Access("W", Stack))' <=> Allows(Machine("W")', Access("W", Stack))
<1>1. Written' <=> Written
  BY DEF Constant, Written, Encoded
<1>2. NoEntryOn(pmp)' <=> NoEntryOn(pmp)
  BY DEF NoEntryOn
<1>3. \A access : May(access)' <=> May(access)
  BY DEF Constant, May, Free
<1>4. UserAccesses' = UserAccesses
  BY DEF Constant, UserAccesses, NothingOpened
<1>5. AllAccesses' = AllAccesses
  BY <1>4 DEF Constant, AllAccesses
<1>6. Allowed(Access("W", Stack))' <=> Allows(Machine("W")', Access("W", Stack))
  <2>1. Allowed(Access("W", Stack)) <=> Allows(Machine("W"), Access("W", Stack))
    BY StackTypes DEF Allowed, Allows
  <2>. QED  BY StackTypes DEF Constant, Allowed, Allows
<1>. QED  BY <1>1, <1>2, <1>3, <1>4, <1>5, <1>6

LEMMA LocalsMachine ==
    ASSUME Running, AtLocals, NEW kind \in {"R", "W"}
    PROVE  Machine(kind) <=> prog.mpp = M
BY DEF Running, Checked, OneMode, AtLocals, InMain, Machine

LEMMA UserMachine ==
    ASSUME Running, AtUser, NEW kind \in Kinds
    PROVE  Machine(kind) <=> prog.mpp = M
BY DEF Running, Checked, OneMode, AtUser, Machine, U, M

LEMMA AllowedIsMay ==
    ASSUME Present, NEW access \in Accesses, Free \/ Decided(prog, access),
           Machine(access.kind) <=> prog.mpp = M
    PROVE  Allowed(access) <=> May(access)
<1>1. Machine(access.kind) \in BOOLEAN /\ (prog.mpp = M) \in BOOLEAN
  BY DEF Machine
<1>2. Machine(access.kind) = (prog.mpp = M)
  BY <1>1
<1>3. Allowed(access) <=> Allows(prog.mpp = M, access)
  BY <1>2 DEF Allowed, Allows
<1>. QED  BY <1>3, AllowsMay

\* A frame that may be pushed where the test ran can be pushed by its handler.
LEMMA HandlerFrame ==
    ASSUME Present, May(Access("W", Stack)), Constant, pmp' = pmp,
           hart'.prv = M, hart'.mpp = prog.mpp, "MPRV" \in hart'.on => prog.mprv
    PROVE  Allowed(Access("W", Stack))'
<1>1. Decided(prog, Access("W", Stack))
  BY DEF Present, Running, Checked, Decides
<1>2. /\ Allows(prog.mpp = M, Access("W", Stack))
      /\ prog.mpp # M => Allows(TRUE, Access("W", Stack))
  BY <1>1, AllowsMay, StackTypes
<1>3. Machine("W")' \in BOOLEAN /\ (prog.mpp = M) \in BOOLEAN
  BY DEF Machine
<1>4. Machine("W")' = TRUE \/ Machine("W")' = (prog.mpp = M)
  BY <1>3 DEF Machine
<1>5. Allows(Machine("W")', Access("W", Stack))
  <2>1. CASE prog.mpp = M
    <3>1. Machine("W")' = TRUE /\ (prog.mpp = M) = TRUE
      BY <1>3, <1>4, <2>1
    <3>. QED  BY <1>2, <3>1
  <2>2. CASE prog.mpp # M
    BY <1>2, <1>4, <2>2
  <2>. QED  BY <2>1, <2>2
<1>. QED  BY <1>5, RegionsKept

LEMMA PresentIn ==
    ASSUME GuardInv, Checked(prog)
    PROVE  /\ Running /\ hart \in Harts /\ Undelegated
           /\ AtLocals \/ AtUser \/ hart.pc = "main_mstatus" => Present
BY DEF GuardInv, Running, Present, TypeOK, AtLocals, AtUser, AtMain, AtHandler, InMain

-----------------------------------------------------------------------------
(* The steps.  Each keeps the invariant and is a step of PmpGuard.            *)

Sound == GuardInv' /\ (Stays \/ Makes \/ Stops)

LEMMA MainPmpSound ==
    ASSUME GuardInv, Checked(prog), MainPmp, TypeOK'
    PROVE  Sound
<1>1. /\ hart.pc = "main" /\ hart \in Harts /\ Undelegated /\ AtMain
      /\ Constant /\ todo' = todo
  BY PresentIn DEF GuardInv, AtMain, AtLocals, AtUser, AtHandler, MainPmp, Constant
<1>2. Left = AllAccesses /\ ~Stopped
  BY <1>1 DEF Left, Stopped
<1>3. CASE platform.pmp = "absent"
  <2>1. hart' = Trap(hart, IllegalInstruction) /\ pmp' = pmp
    BY <1>3 DEF MainPmp
  <2>2. /\ hart'.pc = "handler" /\ hart'.prv = M /\ hart'.mcause = IllegalInstruction
        /\ Undelegated' /\ "MPRV" \notin hart'.on
    BY <1>1, <2>1, TrapFields, CauseTypes DEF Undelegated, AtMain
  <2>3. Allowed(Access("W", Stack))'
    <3>1. Machine("W")' = TRUE
      BY <2>2 DEF Machine
    <3>2. {i \in DOMAIN pmp : Covers(pmp, i, Access("W", Stack).word)} = {}
      BY <1>1 DEF AtMain, NoEntryOn, Covers
    <3>3. Allows(TRUE, Access("W", Stack))
      BY <3>2 DEF Allows, Grants
    <3>. QED  BY <1>1, <2>1, <3>1, <3>3, RegionsKept
  <2>4. GuardInv'
    BY <2>2, <2>3 DEF GuardInv, AtHandler
  <2>5. Left = <<>> /\ Left' = <<>> /\ Stopped'
    BY <1>2, <1>3, <2>2 DEF AllAccesses, Left, Stopped
  <2>. QED  BY <1>2, <2>4, <2>5 DEF Sound, Stops
<1>4. CASE platform.pmp # "absent"
  <2>1. /\ hart' = [hart EXCEPT !.pc = "main_mstatus"]
        /\ pmp' = [i \in 0 .. 3 |-> Encoded(prog.regions[i])]
    BY <1>4 DEF MainPmp
  <2>2. /\ hart'.pc = "main_mstatus" /\ hart'.prv = M /\ hart'.on = {}
        /\ hart'.mcause = NoTrap /\ Undelegated'
    BY <1>1, <2>1 DEF AtMain, Undelegated, Harts
  <2>3. Written'
    BY <1>1, <2>1 DEF Written, Encoded, Constant
  <2>4. GuardInv'
    BY <1>1, <1>4, <2>2, <2>3 DEF GuardInv, InMain, Constant
  <2>5. AllAccesses' = AllAccesses
    BY <1>1 DEF AllAccesses, UserAccesses, NothingOpened, Constant
  <2>6. Stays
    BY <1>2, <2>2, <2>5 DEF Stays, Left, Stopped
  <2>. QED  BY <2>4, <2>6 DEF Sound
<1>. QED  BY <1>3, <1>4

LEMMA MainMstatusSound ==
    ASSUME GuardInv, Checked(prog), MainMstatus, TypeOK'
    PROVE  Sound
<1>1. /\ hart.pc = "main_mstatus" /\ hart \in Harts /\ Undelegated
      /\ InMain /\ hart.on = {} /\ Constant /\ pmp' = pmp
  BY PresentIn DEF GuardInv, AtMain, AtLocals, AtUser, AtHandler, MainMstatus, Constant
<1>2. /\ hart'.pc = "main_locals" /\ hart'.prv = M /\ hart'.mcause = NoTrap
      /\ hart'.mpp = prog.mpp /\ ("MPRV" \in hart'.on <=> prog.mprv) /\ Undelegated'
  BY <1>1 DEF MainMstatus, InMain, Undelegated, Harts
<1>3. todo' = IF prog.direct THEN <<Access("W", Stack)>>
              ELSE <<Access("R", Stack), Access("W", Stack)>>
  BY DEF MainMstatus
<1>4. AtLocals'
  BY <1>1, <1>2, <1>3, RegionsKept DEF AtLocals, InMain, Constant
<1>5. Left = AllAccesses /\ Left' = todo' \o UserAccesses
  BY <1>1, <1>2, RegionsKept DEF Left
<1>6. AllAccesses = todo' \o UserAccesses
  <2>1. CASE prog.direct
    <3>1. prog.user = <<>>
      BY <2>1 DEF Checked, OneMode
    <3>2. UserAccesses = <<>>
      BY <3>1 DEF UserAccesses
    <3>3. <<Access("W", Stack)>> \in Seq(Accesses)
      BY StackTypes
    <3>4. <<Access("W", Stack)>> \o <<>> = <<Access("W", Stack)>>
      BY <3>3, ConcatEmptySeq
    <3>. QED  BY <1>1, <1>3, <2>1, <3>2, <3>4 DEF AllAccesses, InMain
  <2>2. CASE ~prog.direct
    BY <1>1, <1>3, <2>2 DEF AllAccesses, InMain
  <2>. QED  BY <2>1, <2>2
<1>7. Stays
  BY <1>1, <1>2, <1>5, <1>6 DEF Stays, Stopped
<1>. QED  BY <1>2, <1>4, <1>7 DEF Sound, GuardInv

LEMMA UserAccessesType == Running => UserAccesses \in Seq(Accesses)
<1>1. <<>> \in Seq(Accesses)
  BY EmptySeq
<1>. QED  BY <1>1, ProgType DEF Running, UserAccesses, PmpProgramType

\* QEMU 6 refuses the mret of a test that opened nothing.
LEMMA MainMretSound ==
    ASSUME GuardInv, Checked(prog), MainMret, TypeOK'
    PROVE  Sound
<1>. DEFINE h == [hart EXCEPT !.mepc = "user"]
<1>1. /\ hart.pc = "main_locals" /\ hart \in Harts /\ Undelegated /\ AtLocals
      /\ todo = <<>> /\ ~prog.direct /\ hart' = DoMret(h) /\ todo' = prog.user
      /\ Constant /\ pmp' = pmp /\ Running /\ Present
  BY PresentIn DEF GuardInv, AtMain, AtLocals, AtUser, AtHandler, MainMret, Constant
<1>2. /\ h \in Harts /\ h.pc = "main_locals" /\ h.prv = M /\ h.mpp = prog.mpp
      /\ h.mepc = "user" /\ h.mcause = NoTrap /\ h.medeleg = {} /\ h.mideleg = {}
      /\ "MPRV" \in h.on <=> prog.mprv
  BY <1>1 DEF AtLocals, InMain, Undelegated, Harts, Pcs
<1>. HIDE DEF h
<1>3. Left = UserAccesses /\ ~Stopped
  <2>1. <<>> \o UserAccesses = UserAccesses
    BY <1>1, UserAccessesType, ConcatEmptySeq
  <2>. QED  BY <1>1, <2>1 DEF Left, Stopped
<1>4. May(Access("W", Stack)) /\ May(Access("R", Stack))
  BY <1>1, StackTypes DEF AtLocals
<1>5. NoEntryOn(pmp) <=> NothingOn(prog)
  BY <1>1, NothingIsOff
<1>6. CASE platform.pmp = "qemu6" /\ NothingOn(prog)
  <2>1. prog.mpp # M
    BY <1>6 DEF Checked, OneMode
  <2>2. hart' = Trap(h, IllegalInstruction)
    BY <1>1, <1>2, <1>5, <1>6, <2>1 DEF DoMret
  <2>3. /\ hart'.pc = "handler" /\ hart'.prv = M /\ hart'.mcause = IllegalInstruction
        /\ Undelegated'
    BY <1>2, <2>2, TrapFields, CauseTypes DEF Undelegated
  <2>4. Allows(Machine("W")', Access("W", Stack))
    BY <1>5, <1>6 DEF Allows
  <2>5. AtHandler'
    BY <1>1, <2>3, <2>4, RegionsKept DEF AtHandler
  <2>6. UserAccesses = <<>>
    BY <1>6, NothingIsOff DEF UserAccesses
  <2>7. Left' = <<>> /\ Stopped'
    BY <2>3 DEF Left, Stopped
  <2>. QED  BY <1>3, <2>3, <2>5, <2>6, <2>7 DEF Sound, GuardInv, Stops
<1>7. CASE ~(platform.pmp = "qemu6" /\ NothingOn(prog))
  <2>1. \E g \in Harts : /\ hart' = Mret(g) /\ g.mpp = prog.mpp /\ g.mepc = "user"
                         /\ g.mcause = NoTrap /\ g.medeleg = {} /\ g.mideleg = {}
                         /\ "MPRV" \in g.on => prog.mprv
    <3>1. CASE platform.mretClears /\ h.mpp # M
      <4>. DEFINE g == [h EXCEPT !.on = @ \ {"MPRV"}]
      <4>1. hart' = Mret(g)
        BY <1>1, <1>5, <1>7, <3>1 DEF DoMret
      <4>2. /\ g \in Harts /\ g.mpp = prog.mpp /\ g.mepc = "user"
            /\ g.mcause = NoTrap /\ g.medeleg = {} /\ g.mideleg = {}
            /\ "MPRV" \notin g.on
        BY <1>2 DEF Harts
      <4>. QED  BY <4>1, <4>2
    <3>2. CASE ~(platform.mretClears /\ h.mpp # M)
      <4>1. hart' = Mret(h)
        BY <1>1, <1>5, <1>7, <3>2 DEF DoMret
      <4>. QED  BY <1>2, <4>1
    <3>. QED  BY <3>1, <3>2
  <2>2. PICK g \in Harts : /\ hart' = Mret(g) /\ g.mpp = prog.mpp /\ g.mepc = "user"
                           /\ g.mcause = NoTrap /\ g.medeleg = {} /\ g.mideleg = {}
                           /\ "MPRV" \in g.on => prog.mprv
    BY <2>1
  <2>3. /\ hart'.pc = "user" /\ hart'.prv = prog.mpp /\ hart'.mpp = U
        /\ hart'.mcause = NoTrap /\ Undelegated'
        /\ "MPRV" \in hart'.on => prog.mprv
    BY <2>2 DEF Mret, CopyFlag, Undelegated, Harts
  <2>4. UserAccesses = prog.user
    BY <1>7, NothingIsOff DEF UserAccesses
  <2>5. /\ Len(todo') <= Len(prog.user)
        /\ \A j \in 1 .. Len(todo') : todo'[j] = prog.user[Made' + j]
        /\ Reaches(prog, Made' + 1)
    <3>1. Len(prog.user) \in Nat
      BY <1>1, ProgType, LenProperties DEF Running, PmpProgramType
    <3>2. todo' = prog.user /\ Made' = 0
      BY <1>1, <3>1 DEF Made, Constant
    <3>. QED  BY <3>1, <3>2 DEF Reaches
  <2>6. AtUser'
    <3>1. /\ Written' /\ platform'.pmp # "absent" /\ prog' = prog
          /\ May(Access("W", Stack))' /\ May(Access("R", Stack))'
      BY <1>1, <1>4, RegionsKept DEF Constant, Present
    <3>. QED  BY <1>1, <1>7, <2>3, <2>5, <3>1 DEF AtUser, Constant
  <2>7. Left' = prog.user /\ ~Stopped'
    <3>1. hart'.mcause # IllegalInstruction
      BY <2>3, CausesDiffer
    <3>. QED  BY <1>1, <2>3, <3>1 DEF Left, Stopped
  <2>. QED  BY <1>3, <2>3, <2>4, <2>6, <2>7 DEF Sound, GuardInv, Stays
<1>. QED  BY <1>6, <1>7

LEMMA MainPassSound ==
    ASSUME GuardInv, Checked(prog), MainPass, TypeOK'
    PROVE  Sound
<1>1. /\ hart.pc = "main_locals" /\ hart \in Harts /\ Undelegated /\ AtLocals
      /\ todo = <<>> /\ prog.direct /\ hart' = [hart EXCEPT !.pc = "pass"] /\ todo' = todo
      /\ Constant /\ pmp' = pmp /\ Running
  BY PresentIn DEF GuardInv, AtMain, AtLocals, AtUser, AtHandler, MainPass, Constant
<1>2. hart'.pc = "pass" /\ hart'.mcause = NoTrap /\ Undelegated'
  BY <1>1 DEF AtLocals, InMain, Undelegated, Harts
<1>3. UserAccesses = <<>>
  BY <1>1 DEF Running, Checked, OneMode, UserAccesses
<1>4. Left = <<>>
  <2>1. <<>> \o UserAccesses = UserAccesses
    BY <1>1, UserAccessesType, ConcatEmptySeq
  <2>. QED  BY <1>1, <1>3, <2>1 DEF Left
<1>5. Left' = <<>>
  <2>1. hart'.mcause # IllegalInstruction
    BY <1>2, CausesDiffer
  <2>. QED  BY <1>1, <1>2, <2>1 DEF Left, Constant
<1>. QED  BY <1>1, <1>2, <1>4, <1>5 DEF Sound, GuardInv, Stops, Stopped

\* An access of the user program that is still to be made is one the invariant
\* knows to be decided.
LEMMA UserNext ==
    ASSUME Running, AtUser, todo # <<>>
    PROVE  /\ Head(todo) \in Accesses /\ Head(todo) = prog.user[Made + 1]
           /\ Made + 1 \in 1 .. Len(prog.user) /\ Made \in Nat
           /\ Len(todo) \in Nat \ {0} /\ Len(prog.user) \in Nat
           /\ Len(Tail(todo)) = Len(todo) - 1
           /\ \A j \in 1 .. Len(todo) - 1 : Tail(todo)[j] = todo[j + 1]
           /\ Free \/ Decided(prog, Head(todo))
<1>1. todo \in Seq(Accesses) /\ prog.user \in Seq(Accesses)
  BY ProgType DEF Running, TypeOK, PmpProgramType
<1>2. Len(todo) \in Nat \ {0} /\ Len(prog.user) \in Nat
  BY <1>1, EmptySeq, LenProperties
<1>3. /\ Head(todo) \in Accesses /\ Head(todo) = todo[1]
      /\ Len(Tail(todo)) = Len(todo) - 1
      /\ \A j \in 1 .. Len(todo) - 1 : Tail(todo)[j] = todo[j + 1]
  BY <1>1, HeadTailProperties
<1>4. Len(todo) <= Len(prog.user) /\ todo[1] = prog.user[Made + 1]
  BY <1>2 DEF AtUser
<1>5. Made + 1 \in 1 .. Len(prog.user) /\ Made \in Nat
  BY <1>2, <1>4 DEF Made
<1>6. Free \/ Decided(prog, Head(todo))
  BY <1>3, <1>4, <1>5 DEF AtUser, Running, Checked, Decides
<1>. QED  BY <1>2, <1>3, <1>4, <1>5, <1>6

LEMMA UserAllowed ==
    ASSUME Running, Present, AtUser, todo # <<>>
    PROVE  Allowed(Head(todo)) <=> May(Head(todo))
<1>1. Head(todo) \in Accesses /\ (Free \/ Decided(prog, Head(todo)))
  BY UserNext
<1>2. Machine(Head(todo).kind) <=> prog.mpp = M
  BY <1>1, UserMachine DEF Accesses
<1>. QED  BY <1>1, <1>2, AllowedIsMay

LEMMA LocalsAllowed ==
    ASSUME Running, Present, AtLocals, todo # <<>>
    PROVE  /\ Allowed(Head(todo)) <=> May(Head(todo))
           /\ Head(todo) \in {Access("R", Stack), Access("W", Stack)}
<1>1. Head(todo) \in {Access("R", Stack), Access("W", Stack)}
  BY DEF AtLocals
<1>2. Head(todo) \in Accesses /\ Head(todo).kind \in {"R", "W"}
  BY <1>1, StackTypes
<1>3. Decided(prog, Head(todo))
  BY <1>1 DEF Running, Checked, Decides
<1>4. Machine(Head(todo).kind) <=> prog.mpp = M
  BY <1>2, LocalsMachine
<1>. QED  BY <1>1, <1>2, <1>3, <1>4, AllowedIsMay

LEMMA GrantedSound ==
    ASSUME GuardInv, Checked(prog), Granted, TypeOK'
    PROVE  Sound
<1>1. /\ hart.pc \in {"main_locals", "user"} /\ todo # <<>> /\ Allowed(Head(todo))
      /\ todo' = Tail(todo) /\ hart' = hart /\ Constant /\ pmp' = pmp
      /\ Running
      /\ AtLocals \/ AtUser
      /\ hart \in Harts /\ Undelegated
  BY PresentIn DEF GuardInv, AtMain, AtHandler, Granted, Constant
<1>2. Present /\ todo \in Seq(Accesses) /\ UserAccesses \in Seq(Accesses)
  BY <1>1, PresentIn, UserAccessesType DEF Running, TypeOK
<1>3. ~Stopped /\ ~Stopped' /\ Undelegated'
  BY <1>1 DEF Stopped, Undelegated
<1>4. CASE AtLocals
  <2>1. May(Head(todo)) /\ Head(todo) \in {Access("R", Stack), Access("W", Stack)}
    BY <1>1, <1>2, <1>4, LocalsAllowed
  <2>2. \/ /\ todo = <<Access("R", Stack), Access("W", Stack)>> /\ todo' = <<Access("W", Stack)>>
           /\ ~prog.direct /\ May(Access("R", Stack))
        \/ /\ todo = <<Access("W", Stack)>> /\ todo' = <<>> /\ May(Access("W", Stack))
           /\ prog.direct \/ May(Access("R", Stack))
    <3>1. \A r, w : /\ Head(<<r, w>>) = r /\ Tail(<<r, w>>) = <<w>>
                   /\ Head(<<w>>) = w /\ Tail(<<w>>) = <<>>
      OBVIOUS
    <3>2. CASE todo = <<Access("R", Stack), Access("W", Stack)>> /\ ~prog.direct
      BY <1>1, <2>1, <3>1, <3>2
    <3>3. CASE todo = <<Access("W", Stack)>> /\ (prog.direct \/ May(Access("R", Stack)))
      BY <1>1, <2>1, <3>1, <3>3
    <3>. QED  BY <1>1, <1>4, <3>2, <3>3 DEF AtLocals
  <2>3. AtLocals'
    BY <1>1, <1>4, <2>2, RegionsKept DEF AtLocals, InMain, Constant
  <2>4. Left = todo \o UserAccesses /\ Left' = Tail(todo) \o UserAccesses
    BY <1>1, <1>4, RegionsKept DEF Left, AtLocals
  <2>5. Makes
    <3>1. Left # <<>> /\ Head(Left) = Head(todo) /\ Left' = Tail(Left)
      <4>1. /\ todo # <<>> /\ todo' = Tail(todo)
            /\ todo \in Seq(Accesses) /\ UserAccesses \in Seq(Accesses)
        BY <1>1, <1>2
      <4>2. /\ todo \o UserAccesses # <<>>
            /\ Head(todo \o UserAccesses) = Head(todo)
            /\ Tail(todo \o UserAccesses) = Tail(todo) \o UserAccesses
        BY <4>1, FrontOfRest, SMTT(30)
      <4>. QED  BY <2>4, <4>1, <4>2
    <3>. QED  BY <1>3, <2>1, <3>1 DEF Makes
  <2>6. GuardInv'
    BY <1>3, <2>3 DEF GuardInv
  <2>. QED  BY <2>5, <2>6 DEF Sound
<1>5. CASE AtUser
  <2>1. May(Head(todo))
    BY <1>1, <1>2, <1>5, UserAllowed
  <2>0. /\ Head(todo) = prog.user[Made + 1] /\ Made \in Nat
        /\ Len(todo) \in Nat \ {0} /\ Len(prog.user) \in Nat
        /\ Len(todo') = Len(todo) - 1
        /\ \A j \in 1 .. Len(todo) - 1 : todo'[j] = todo[j + 1]
    BY <1>1, <1>5, UserNext
  <2>2. Made' = Made + 1 /\ Len(todo') <= Len(prog.user)
    <3>1. prog' = prog /\ Len(todo) <= Len(prog.user)
      BY <1>1, <1>5 DEF AtUser, Constant
    <3>. QED  BY <2>0, <3>1 DEF Made
  <2>3. \A j \in 1 .. Len(todo') : todo'[j] = prog.user[Made' + j]
    <3>. TAKE j \in 1 .. Len(todo')
    <3>1. j \in 1 .. Len(todo) - 1 /\ j + 1 \in 1 .. Len(todo)
      BY <2>0
    <3>2. Made' + j = Made + (j + 1)
      BY <2>0, <2>2, <3>1
    <3>3. todo'[j] = todo[j + 1]
      BY <2>0, <3>1
    <3>4. todo[j + 1] = prog.user[Made + (j + 1)]
      BY <1>5, <3>1 DEF AtUser
    <3>. QED  BY <3>2, <3>3, <3>4
  <2>4. Free \/ Reaches(prog, Made' + 1)
    <3>. SUFFICES ASSUME ~Free, NEW j \in 1 .. Len(prog.user), j < Made' + 1
                  PROVE  Opens(prog, prog.user[j])
      BY DEF Reaches
    <3>1. j < Made + 1 \/ j = Made + 1
      BY <2>0, <2>2
    <3>2. CASE j < Made + 1
      BY <1>5, <3>2 DEF AtUser, Reaches
    <3>3. CASE j = Made + 1
      BY <2>0, <2>1, <3>3 DEF May
    <3>. QED  BY <3>1, <3>2, <3>3
  <2>5. /\ Written' /\ May(Access("W", Stack))' /\ May(Access("R", Stack))'
        /\ (Free' <=> Free)
    BY <1>1, <1>5, RegionsKept DEF AtUser, Constant, Free
  <2>6. AtUser'
    BY <1>1, <1>5, <2>2, <2>3, <2>4, <2>5 DEF AtUser, Constant
  <2>7. Left = todo /\ Left' = Tail(todo)
    BY <1>1, <1>5, CausesDiffer DEF Left, AtUser
  <2>8. Makes
    BY <1>1, <1>3, <2>1, <2>7 DEF Makes
  <2>. QED  BY <1>3, <2>6, <2>8 DEF Sound, GuardInv
<1>. QED  BY <1>1, <1>4, <1>5

\* The trap that ends a user program: its handler can push its frame.
LEMMA UserTraps ==
    ASSUME GuardInv, Running, AtUser, Constant, pmp' = pmp, todo' = todo,
           NEW cause \in Causes, cause # IllegalInstruction, hart' = Trap(hart, cause),
           TypeOK'
    PROVE  GuardInv' /\ Stopped' /\ Left' = Left /\ Left = todo
<1>1. Present /\ hart \in Harts /\ Undelegated
  BY PresentIn DEF Running
<1>2. /\ hart'.pc = "handler" /\ hart'.prv = M /\ hart'.mepc = "user"
      /\ hart'.mcause = cause /\ hart'.mpp = prog.mpp /\ Undelegated'
      /\ "MPRV" \in hart'.on => prog.mprv
  BY <1>1, TrapFields DEF AtUser, Undelegated
<1>3. Allowed(Access("W", Stack))'
  BY <1>1, <1>2, HandlerFrame DEF AtUser
<1>4. AtHandler'
  BY <1>2, <1>3 DEF AtHandler
<1>5. Left = todo
  BY CausesDiffer DEF Left, AtUser
<1>6. Left' = todo
  BY <1>2 DEF Left
<1>. QED  BY <1>2, <1>4, <1>5, <1>6 DEF GuardInv, Stopped

LEMMA RefusedSound ==
    ASSUME GuardInv, Checked(prog), Refused, TypeOK'
    PROVE  Sound
<1>1. /\ hart.pc \in {"main_locals", "user"} /\ todo # <<>> /\ ~Allowed(Head(todo))
      /\ hart' = Trap(hart, AccessFault(Head(todo).kind))
      /\ todo' = todo /\ Constant /\ pmp' = pmp
      /\ Running
      /\ AtLocals \/ AtUser
      /\ hart \in Harts /\ Undelegated
  BY PresentIn DEF GuardInv, AtMain, AtHandler, Refused, Constant
<1>2. Present /\ todo \in Seq(Accesses) /\ UserAccesses \in Seq(Accesses)
  BY <1>1, PresentIn, UserAccessesType DEF Running, TypeOK
<1>3. /\ AccessFault(Head(todo).kind) \in Causes
      /\ AccessFault(Head(todo).kind) # IllegalInstruction
  <2>1. Head(todo).kind \in Kinds
    <3>1. Head(todo) \in Accesses
      BY <1>1, <1>2, FrontOfRest
    <3>. QED  BY <3>1 DEF Accesses
  <2>. QED  BY <2>1, CauseTypes, CausesDiffer
<1>4. ~Stopped
  BY <1>1 DEF Stopped
<1>5. CASE AtLocals
  <2>1. ~May(Head(todo))
    BY <1>1, <1>2, <1>5, LocalsAllowed
  <2>2. /\ hart'.pc = "handler" /\ hart'.prv = M /\ hart'.mepc = "main_locals"
        /\ hart'.mcause # IllegalInstruction /\ Undelegated'
    BY <1>1, <1>3, <1>5, TrapFields DEF AtLocals, Undelegated
  <2>3. GuardInv'
    BY <2>2 DEF GuardInv, AtHandler
  <2>4. Left = todo \o UserAccesses
    BY <1>5 DEF Left, AtLocals
  <2>5. Left' = todo \o UserAccesses
    <3>1. CASE prog.direct
      <4>1. UserAccesses = <<>>
        BY <1>1, <3>1 DEF Running, Checked, OneMode, UserAccesses
      <4>2. todo \o <<>> = todo
        BY <1>2, ConcatEmptySeq
      <4>3. Left' = todo
        BY <1>1, <2>2, <3>1 DEF Left, Constant
      <4>. QED  BY <4>1, <4>2, <4>3
    <3>2. CASE ~prog.direct
      BY <1>1, <2>2, <3>2, RegionsKept DEF Left, Constant
    <3>. QED  BY <3>1, <3>2
  <2>6. Stops
    BY <1>1, <1>2, <1>4, <2>1, <2>2, <2>4, <2>5, FrontOfRest DEF Stops, Stopped
  <2>. QED  BY <2>3, <2>6 DEF Sound
<1>6. CASE AtUser
  <2>1. ~May(Head(todo))
    BY <1>1, <1>2, <1>6, UserAllowed
  <2>2. GuardInv' /\ Stopped' /\ Left' = Left /\ Left = todo
    BY <1>1, <1>3, <1>6, UserTraps
  <2>. QED  BY <1>4, <2>1, <2>2 DEF Sound, Stops
<1>. QED  BY <1>1, <1>5, <1>6

LEMMA UserEcallSound ==
    ASSUME GuardInv, Checked(prog), UserEcall, TypeOK'
    PROVE  Sound
<1>1. /\ hart.pc = "user" /\ todo = <<>> /\ hart' = Trap(hart, EcallFrom(hart.prv))
      /\ todo' = todo /\ Constant /\ pmp' = pmp
      /\ Running /\ AtUser /\ hart \in Harts
  BY PresentIn DEF GuardInv, AtMain, AtLocals, AtHandler, UserEcall, Constant
<1>2. /\ EcallFrom(hart.prv) \in Causes
      /\ EcallFrom(hart.prv) # IllegalInstruction
  BY <1>1, CauseTypes, CausesDiffer DEF Harts
<1>3. GuardInv' /\ Stopped' /\ Left' = Left /\ Left = <<>>
  BY <1>1, <1>2, UserTraps
<1>. QED  BY <1>1, <1>3 DEF Sound, Stops, Stopped

LEMMA HandlerSound ==
    ASSUME GuardInv, Checked(prog), Handler, TypeOK'
    PROVE  Sound
<1>1. /\ hart.pc = "handler" /\ AtHandler /\ hart \in Harts /\ Undelegated
      /\ todo' = todo /\ Constant /\ pmp' = pmp
  BY PresentIn DEF GuardInv, AtMain, AtLocals, AtUser, Handler, Constant
<1>2. CASE Allowed(Access("W", Stack))
  <2>1. hart' = [hart EXCEPT !.pc = "pass"]
    BY <1>2 DEF Handler
  <2>2. /\ hart'.pc = "pass" /\ hart'.mepc = hart.mepc /\ hart'.mcause = hart.mcause
        /\ Undelegated'
    BY <1>1, <2>1 DEF Undelegated, Harts
  <2>3. Left' = Left
    BY <1>1, <2>2, RegionsKept DEF Left, Constant
  <2>. QED  BY <1>1, <2>2, <2>3 DEF Sound, GuardInv, Stays, Stopped
<1>3. CASE ~Allowed(Access("W", Stack))
  <2>1. hart' = Trap(hart, StoreFault)
    BY <1>3 DEF Handler
  <2>2. hart.mcause # IllegalInstruction /\ hart.mepc # "user"
    BY <1>1, <1>3 DEF AtHandler
  <2>3. /\ hart'.pc = "handler" /\ hart'.prv = M /\ hart'.mepc = "handler"
        /\ hart'.mcause # IllegalInstruction /\ Undelegated'
    BY <1>1, <2>1, TrapFields, CauseTypes, CausesDiffer DEF Undelegated
  <2>4. Left' = Left
    BY <1>1, <2>2, <2>3, RegionsKept DEF Left, Constant
  <2>. QED  BY <1>1, <2>3, <2>4 DEF Sound, GuardInv, AtHandler, Stays, Stopped
<1>. QED  BY <1>2, <1>3

LEMMA GuardStep ==
    ASSUME GuardInv, Checked(prog), [Next]_vars
    PROVE  GuardInv' /\ Checked(prog)' /\ [Guard!Next]_Guard!guard
<1>1. TypeOK'
  BY TypeStep DEF GuardInv
<1>2. CASE Next
  <2>1. Sound
    BY <1>1, <1>2, MainPmpSound, MainMstatusSound, MainMretSound, MainPassSound,
       GrantedSound, RefusedSound, UserEcallSound, HandlerSound DEF Next
  <2>2. Constant
    BY <1>2, OthersStayTyped DEF GuardInv, Constant
  <2>3. Running
    BY PresentIn
  <2>4. [Guard!Next]_Guard!guard
    BY <2>1, <2>2, <2>3, AbstractStep DEF Sound
  <2>. QED  BY <2>1, <2>2, <2>4 DEF Sound, Constant
<1>3. CASE UNCHANGED vars
  <2>1. Constant /\ pmp' = pmp /\ todo' = todo /\ hart' = hart
    BY <1>3 DEF vars, Constant
  <2>2. /\ AtMain => AtMain'
        /\ hart.pc = "main_mstatus" /\ InMain /\ hart.on = {} =>
              hart'.pc = "main_mstatus" /\ InMain' /\ hart'.on = {}
        /\ AtLocals => AtLocals'
    BY <2>1, RegionsKept DEF AtMain, InMain, AtLocals, Constant
  <2>3. AtUser => AtUser'
    BY <2>1, RegionsKept DEF AtUser, Made, Free, Constant
  <2>4. AtHandler => AtHandler'
    <3>1. Machine("W")' = Machine("W")
      BY <2>1 DEF Machine
    <3>2. Allowed(Access("W", Stack))' <=> Allowed(Access("W", Stack))
      BY <2>1, <3>1, RegionsKept, StackTypes DEF Allowed, Allows
    <3>. QED  BY <2>1, <3>2 DEF AtHandler
  <2>5. GuardInv' /\ Checked(prog)'
    BY <1>1, <2>1, <2>2, <2>3, <2>4 DEF GuardInv, Undelegated, Constant
  <2>6. Stays
    BY <2>1, RegionsKept DEF Stays, Left, Stopped, Constant
  <2>. QED  BY <2>1, <2>5, <2>6, PresentIn, AbstractStep
<1>. QED  BY <1>2, <1>3

LEMMA GuardInit == Init => GuardInv /\ Guard!Init
<1>. SUFFICES ASSUME Init PROVE GuardInv /\ Guard!Init
  OBVIOUS
<1>1. /\ hart.pc = "main" /\ hart.prv = M /\ hart.on = {} /\ hart.mcause = NoTrap
      /\ Undelegated
  BY DEF Init, ResetHart, Undelegated
<1>2. NoEntryOn(pmp)
  BY DEF Init, NoEntryOn
<1>. QED  BY <1>1, <1>2, TypeInit DEF GuardInv, AtMain, Guard!Init

\* The encoding of the regions, the lowest-match rule and MPRV together implement
\* PmpGuard, for every program of this shape on every platform: a test makes exactly
\* the accesses it opened a region for and stops at the first it did not.
THEOREM GuardImplemented ==
    ASSUME \A p \in PmpTestPrograms : Checked(p)
    PROVE  Spec => PmpGuarded
<1>1. GuardInv => Checked(prog)
  BY DEF GuardInv, TypeOK
<1>2. GuardInv /\ [Next]_vars => GuardInv' /\ [Guard!Next]_Guard!guard
  BY <1>1, GuardStep
<1>. QED  BY <1>2, GuardInit, PTL DEF Spec, PmpGuarded, Guard!Spec

-----------------------------------------------------------------------------
(* The trap a test's name promises is the one its regions and its accesses    *)
(* determine, where the platform checks what main opened.                     *)

Passes(p, access) == NothingOn(p) \/ Opens(p, access)

\* What the name promises, read off the regions: the fault of the first access of the
\* user program that no region opens, else its ecall; main itself gets that far.
TrapNamed(p) ==
    IF p.direct THEN p.trap = NoTrap /\ Passes(p, Access("W", Stack))
    ELSE /\ Passes(p, Access("R", Stack)) /\ Passes(p, Access("W", Stack))
         /\ \A k \in 1 .. Len(p.user) :
              /\ \A j \in 1 .. Len(p.user) : j < k => Passes(p, p.user[j])
              /\ ~Passes(p, p.user[k])
              => p.trap = AccessFault(p.user[k].kind)
         /\ (\A j \in 1 .. Len(p.user) : Passes(p, p.user[j])) => p.trap = EcallFrom(p.mpp)

Comparable ==
    platform.pmp # "absent" /\ (NothingOn(prog) => platform.pmp = "lenient")

TrapInv ==
    /\ GuardInv
    /\ NothingOn(prog) => NoEntryOn(pmp)
    /\ Comparable =>
          /\ hart.pc = "handler" => hart.mepc = "user" /\ hart.mcause = prog.trap
          /\ hart.pc = "pass" => hart.mcause = prog.trap

LEMMA MayPasses ==
    ASSUME Comparable, NEW access
    PROVE  May(access) <=> Passes(prog, access)
BY DEF Comparable, May, Free, Passes

\* main is not stopped at its locals.
LEMMA LocalsNotRefused ==
    ASSUME GuardInv, Checked(prog), TrapNamed(prog), Comparable, AtLocals, Refused
    PROVE  FALSE
<1>1. /\ todo # <<>> /\ ~Allowed(Head(todo)) /\ Running /\ Present
  BY PresentIn DEF Refused
<1>2. ~May(Head(todo)) /\ Head(todo) \in {Access("R", Stack), Access("W", Stack)}
  BY <1>1, LocalsAllowed
<1>3. prog.direct => Head(todo) = Access("W", Stack)
  <2>1. \A w : Head(<<w>>) = w
    OBVIOUS
  <2>. QED  BY <1>1, <2>1 DEF AtLocals
<1>. QED  BY <1>2, <1>3, MayPasses DEF TrapNamed

LEMMA UserTrapNamed ==
    ASSUME GuardInv, Checked(prog), TrapNamed(prog), Comparable, AtUser,
           Refused \/ UserEcall
    PROVE  hart'.pc = "handler" /\ hart'.mepc = "user" /\ hart'.mcause = prog.trap
<1>1. Running /\ Present /\ hart \in Harts /\ Undelegated
  BY PresentIn
<1>2. ~prog.direct /\ Len(prog.user) \in Nat /\ todo \in Seq(Accesses)
  BY <1>1, ProgType, LenProperties DEF AtUser, Running, TypeOK, PmpProgramType
<1>3. \A j \in 1 .. Len(prog.user) : j < Made + 1 => Passes(prog, prog.user[j])
  BY MayPasses DEF AtUser, Reaches, Passes, May
<1>4. CASE Refused
  <2>1. /\ todo # <<>> /\ ~Allowed(Head(todo))
        /\ hart' = Trap(hart, AccessFault(Head(todo).kind))
    BY <1>4 DEF Refused
  <2>2. /\ Head(todo) \in Accesses /\ Head(todo) = prog.user[Made + 1]
        /\ Made + 1 \in 1 .. Len(prog.user)
    BY <1>1, <2>1, UserNext
  <2>3. ~Passes(prog, prog.user[Made + 1])
    BY <1>1, <2>1, <2>2, UserAllowed, MayPasses
  <2>4. prog.trap = AccessFault(Head(todo).kind)
    BY <1>2, <1>3, <2>2, <2>3 DEF TrapNamed
  <2>5. AccessFault(Head(todo).kind) \in Causes
    BY <2>2, CauseTypes DEF Accesses
  <2>. QED  BY <1>1, <2>1, <2>4, <2>5, TrapFields DEF AtUser, Undelegated
<1>5. CASE UserEcall
  <2>1. todo = <<>> /\ hart' = Trap(hart, EcallFrom(hart.prv))
    BY <1>5 DEF UserEcall
  <2>2. Made = Len(prog.user)
    BY <1>2, <2>1 DEF Made
  <2>3. \A j \in 1 .. Len(prog.user) : Passes(prog, prog.user[j])
    BY <1>2, <1>3, <2>2
  <2>4. prog.trap = EcallFrom(hart.prv)
    BY <1>2, <2>3 DEF TrapNamed, AtUser
  <2>5. EcallFrom(hart.prv) \in Causes
    BY <1>1, CauseTypes DEF Harts
  <2>. QED  BY <1>1, <2>1, <2>4, <2>5, TrapFields DEF AtUser, Undelegated
<1>. QED  BY <1>4, <1>5

LEMMA TrapStep ==
    ASSUME TrapInv, Checked(prog), TrapNamed(prog), [Next]_vars
    PROVE  TrapInv'
<1>1. GuardInv /\ GuardInv' /\ hart \in Harts
  BY GuardStep, PresentIn DEF TrapInv
<1>2. Constant
  BY <1>1, OthersStayTyped DEF GuardInv, Constant, vars
<1>3. Comparable' <=> Comparable
  BY <1>2 DEF Constant, Comparable
<1>4. NothingOn(prog)' => NoEntryOn(pmp)'
  <2>1. CASE MainPmp
    <3>1. CASE pmp' = pmp
      BY <1>2, <3>1 DEF TrapInv, NoEntryOn, Constant
    <3>2. CASE pmp' = [i \in 0 .. 3 |-> Encoded(prog.regions[i])]
      <4>1. \A i \in 0 .. 3 : Encoded(prog.regions[i]).a = prog.regions[i].a
        BY DEF Encoded
      <4>. QED  BY <1>2, <3>2, <4>1 DEF NoEntryOn, NothingOn, IsOn, Constant
    <3>. QED  BY <2>1, <3>1, <3>2 DEF MainPmp
  <2>2. CASE ~MainPmp
    <3>1. pmp' = pmp
      BY <2>2 DEF Next, vars, MainMstatus, MainMret, MainPass, Granted, Refused,
                  UserEcall, Handler
    <3>. QED  BY <1>2, <3>1 DEF TrapInv, NoEntryOn, Constant
  <2>. QED  BY <2>1, <2>2
<1>. SUFFICES ASSUME Comparable
              PROVE  /\ hart'.pc = "handler" =>
                           hart'.mepc = "user" /\ hart'.mcause = prog.trap
                     /\ hart'.pc = "pass" => hart'.mcause = prog.trap
  BY <1>1, <1>2, <1>3, <1>4 DEF TrapInv, Constant
<1>5. CASE MainPmp
  BY <1>1, <1>5 DEF MainPmp, Comparable, Harts
<1>6. CASE MainMstatus
  BY <1>1, <1>6 DEF MainMstatus, Harts
<1>7. CASE MainMret
  <2>. DEFINE h == [hart EXCEPT !.mepc = "user"]
  <2>1. /\ AtLocals /\ hart' = DoMret(h) /\ Present
    BY <1>1, <1>7, PresentIn DEF TrapInv, GuardInv, AtMain, AtUser, AtHandler, MainMret
  <2>2. h \in Harts /\ h.mepc = "user"
    BY <1>1 DEF Harts, Pcs
  <2>. HIDE DEF h
  <2>3. ~(platform.pmp = "qemu6" /\ NoEntryOn(pmp))
    BY <2>1, NothingIsOff DEF Comparable
  <2>4. \E g \in Harts : hart' = Mret(g) /\ g.mepc = "user"
    <3>1. [h EXCEPT !.on = @ \ {"MPRV"}] \in Harts
          /\ [h EXCEPT !.on = @ \ {"MPRV"}].mepc = "user"
      BY <2>2 DEF Harts
    <3>. QED  BY <2>1, <2>2, <2>3, <3>1 DEF DoMret
  <2>5. hart'.pc = "user"
    BY <2>4 DEF Mret, Harts
  <2>. QED  BY <2>5
<1>8. CASE MainPass
  <2>1. AtLocals /\ prog.direct /\ hart' = [hart EXCEPT !.pc = "pass"]
    BY <1>1, <1>8 DEF GuardInv, AtMain, AtUser, AtHandler, MainPass
  <2>. QED  BY <1>1, <2>1 DEF AtLocals, InMain, TrapNamed, Harts
<1>9. CASE Granted
  BY <1>9 DEF Granted
<1>10. CASE Refused \/ UserEcall
  <2>1. AtLocals \/ AtUser
    BY <1>1, <1>10 DEF GuardInv, AtMain, AtHandler, Refused, UserEcall
  <2>2. ~AtLocals
    BY <1>1, <1>10, LocalsNotRefused DEF UserEcall, AtLocals
  <2>. QED  BY <1>1, <1>10, <2>1, <2>2, UserTrapNamed
<1>11. CASE Handler
  <2>1. AtHandler /\ hart.mepc = "user" /\ hart.mcause = prog.trap
    BY <1>1, <1>11 DEF TrapInv, GuardInv, AtMain, AtLocals, AtUser, Handler
  <2>2. hart' = [hart EXCEPT !.pc = "pass"]
    BY <1>11, <2>1 DEF AtHandler, Handler
  <2>. QED  BY <1>1, <2>1, <2>2 DEF Harts
<1>12. CASE UNCHANGED vars
  BY <1>12 DEF vars, TrapInv
<1>. QED
  BY <1>5, <1>6, <1>7, <1>8, <1>9, <1>10, <1>11, <1>12 DEF Next

\* Wherever the platform checks what main opened, a test arrives at pass() with the
\* trap its name promises as the last one.
THEOREM NamedTraps ==
    ASSUME \A p \in PmpTestPrograms : Checked(p) /\ TrapNamed(p)
    PROVE  Spec => []TrapAsNamed
<1>1. Init => TrapInv
  <2>. SUFFICES ASSUME Init PROVE TrapInv
    OBVIOUS
  <2>1. GuardInv
    BY GuardInit
  <2>2. hart.pc = "main"
    BY DEF Init, ResetHart
  <2>3. NoEntryOn(pmp)
    BY DEF Init, NoEntryOn
  <2>. QED  BY <2>1, <2>2, <2>3 DEF TrapInv
<1>2. TrapInv => Checked(prog) /\ TrapNamed(prog)
  BY DEF TrapInv, GuardInv, TypeOK
<1>3. TrapInv /\ [Next]_vars => TrapInv'
  BY <1>2, TrapStep
<1>4. TrapInv => TrapAsNamed
  BY DEF TrapInv, TrapAsNamed, Comparable
<1>. QED  BY <1>1, <1>3, <1>4, PTL DEF Spec

-----------------------------------------------------------------------------
(* The repository's programs are of that shape.  Their regions, in order, and *)
(* the places their accesses are to.                                          *)

RamRegion == Region("NAPOT", Ram, RamSize, RWX)
UserRegion(perms) == Region("NAPOT", UserRam, UserRamSize, perms)
LockedRegion == [UserRegion({"R", "W"}) EXCEPT !.locked = TRUE]
UartRegion == Region("NAPOT", Uart, UartSize, RWX)
FirstRegion == Region("TOR", 0, TestEnd, RWX)

Laid(p, r0, r1, r2, r3) ==
    p.regions[0] = r0 /\ p.regions[1] = r1 /\ p.regions[2] = r2 /\ p.regions[3] = r3

Places == {Stack, UserRam, Uart, TestStart, TestStart + 1, TestEnd - 1, TestEnd}

LEMMA PlacesDiffer ==
    /\ Places \subseteq Nat
    /\ Stack # UserRam /\ Stack # Uart /\ UserRam # Uart
    /\ \A w \in {TestStart, TestStart + 1, TestEnd - 1, TestEnd} :
          w # Stack /\ w # UserRam /\ w # Uart
    /\ TestStart # TestEnd
BY SMT DEF Places, Stack, Ram, RamSize, UserRam, Uart, TestStart, TestEnd

\* Which places a region holds.
LEMMA PlacesHeld ==
    ASSUME NEW perms, NEW w \in Places
    PROVE  /\ Holds(RamRegion, w) <=> w = Stack
           /\ Holds(UserRegion(perms), w) <=> w = UserRam
           /\ Holds(LockedRegion, w) <=> w = UserRam
           /\ Holds(UartRegion, w) <=> w = Uart
           /\ Holds(UartOff, w) <=> w = Uart
           /\ Holds(TestWord, w) <=> w = TestStart
           /\ Holds(TestRange(perms), w) <=> w \in {TestStart, TestStart + 1, TestEnd - 1}
           /\ Holds(FirstRegion, w) <=> w # TestEnd
           /\ ~Holds(Unwritten, w)
<1>. USE DEF Holds, Region, Places
<1>1. /\ Holds(RamRegion, w) <=> w = Stack
  BY SMT DEF RamRegion, Stack, Ram, RamSize, UserRam, Uart, TestStart, TestEnd
<1>2. Holds(UserRegion(perms), w) <=> w = UserRam
  BY SMT DEF UserRegion, Stack, Ram, RamSize, UserRam, UserRamSize, Uart, TestStart, TestEnd
<1>3. Holds(LockedRegion, w) <=> w = UserRam
  BY SMT DEF LockedRegion, UserRegion, Stack, Ram, RamSize, UserRam, UserRamSize, Uart,
             TestStart, TestEnd
<1>4. Holds(UartRegion, w) <=> w = Uart
  BY SMT DEF UartRegion, Stack, Ram, RamSize, UserRam, Uart, UartSize, TestStart, TestEnd
<1>5. Holds(UartOff, w) <=> w = Uart
  BY SMT DEF UartOff, Stack, Ram, RamSize, UserRam, Uart, UartSize, TestStart, TestEnd
<1>6. Holds(TestWord, w) <=> w = TestStart
  BY SMT DEF TestWord, Stack, Ram, RamSize, UserRam, Uart, TestStart, TestEnd
<1>7. Holds(TestRange(perms), w) <=> w \in {TestStart, TestStart + 1, TestEnd - 1}
  BY SMT DEF TestRange, Stack, Ram, RamSize, UserRam, Uart, TestStart, TestEnd
<1>8. Holds(FirstRegion, w) <=> w # TestEnd
  BY SMT DEF FirstRegion, Stack, Ram, RamSize, UserRam, Uart, TestStart, TestEnd
<1>9. ~Holds(Unwritten, w)
  BY SMT DEF Unwritten, Stack, Ram, RamSize, UserRam, Uart, TestStart, TestEnd
<1>. QED  BY <1>1, <1>2, <1>3, <1>4, <1>5, <1>6, <1>7, <1>8, <1>9

UserRegions == {UserRegion(RWX), UserRegion({"R", "W"}), LockedRegion}
UartRegions == {UartRegion, UartOff}
TestRegions ==
    {Unwritten, TestWord, TestRange(RWX), TestRange({"R", "X"}), TestRange({"W", "X"})}

LEMMA RegionFields ==
    /\ \A a, base, size, perms :
          LET r == Region(a, base, size, perms)
          IN  /\ r.a = a /\ r.base = base /\ r.size = size
              /\ r.perms = perms /\ r.locked = FALSE
    /\ LockedRegion.a = "NAPOT" /\ LockedRegion.base = UserRam
    /\ LockedRegion.size = UserRamSize /\ LockedRegion.perms = {"R", "W"}
    /\ LockedRegion.locked = TRUE
BY DEF Region, LockedRegion, UserRegion

\* The usual layout decides every place: the gap that entry 3 of the TOR tests opens
\* below its region begins in the UART, and what is used of it is in entries 0 and 1.
LEMMA UsualPlaced ==
    ASSUME NEW p, NEW r1 \in UserRegions, NEW r2 \in UartRegions, NEW r3 \in TestRegions,
           Laid(p, RamRegion, r1, r2, r3), NEW w \in Places
    PROVE  Placed(p, w)
<1>1. /\ Meets(p, 0, w) <=> w = Stack
      /\ Meets(p, 1, w) <=> w = UserRam
      /\ Meets(p, 2, w) => w = Uart
      /\ Meets(p, 3, w) => w \in {TestStart, TestStart + 1, TestEnd - 1}
  <2>1. RamRegion.a = "NAPOT" /\ r1.a = "NAPOT"
    BY RegionFields DEF RamRegion, UserRegions, UserRegion
  <2>2. Holds(r1, w) <=> w = UserRam
    BY PlacesHeld DEF UserRegions
  <2>3. Holds(r2, w) => w = Uart
    BY PlacesHeld DEF UartRegions
  <2>4. Holds(r3, w) => w \in {TestStart, TestStart + 1, TestEnd - 1}
    BY PlacesHeld DEF TestRegions
  <2>5. Holds(RamRegion, w) <=> w = Stack
    BY PlacesHeld
  <2>. QED  BY <2>1, <2>2, <2>3, <2>4, <2>5 DEF Laid, Meets, IsOn
<1>2. \A i \in 0 .. 3 : i = 0 \/ i = 1 \/ i = 2 \/ i = 3
  OBVIOUS
<1>3. \A i, j \in 0 .. 3 : Meets(p, i, w) /\ Meets(p, j, w) => i = j
  BY <1>1, <1>2, PlacesDiffer
<1>4. ASSUME NEW i \in 0 .. 3, p.regions[i].a = "TOR"
      PROVE  /\ TorFrom(p, i) <= p.regions[i].base
             /\ TorFrom(p, i) <= w /\ w < p.regions[i].base =>
                   \E j \in 0 .. 3 : j < i /\ Meets(p, j, w)
  <2>1. i = 3
    <3>1. RamRegion.a # "TOR" /\ r1.a # "TOR" /\ r2.a # "TOR"
      BY RegionFields DEF RamRegion, UserRegions, UserRegion, UartRegions, UartRegion, UartOff
    <3>. QED  BY <1>2, <1>4, <3>1 DEF Laid
  <2>2. r3.base = TestStart
    BY <1>4, <2>1, RegionFields DEF Laid, TestRegions, TestRange, TestWord, Unwritten
  <2>3. TorFrom(p, 3) = Uart + 31
    <3>1. r2.a \in {"NAPOT", "OFF"} /\ r2.base = Uart /\ r2.size = UartSize
      BY RegionFields DEF UartRegions, UartRegion, UartOff
    <3>2. pmp_get_napot_addr(Uart, UartSize) = Uart + 31
      BY SMT DEF pmp_get_napot_addr, Uart, UartSize
    <3>3. TorFrom(p, 3) = AddrOf(r2)
      BY DEF TorFrom, Laid
    <3>. QED  BY <3>1, <3>2, <3>3 DEF AddrOf
  <2>4. Uart + 31 <= TestStart
    BY SMT DEF Uart, TestStart
  <2>5. w < TestStart /\ Uart + 31 <= w => w = Stack \/ w = UserRam
    BY SMT DEF Places, Stack, Ram, RamSize, UserRam, Uart, TestStart, TestEnd
  <2>. QED  BY <1>1, <2>1, <2>2, <2>3, <2>4, <2>5 DEF Laid
<1>. QED  BY <1>3, <1>4 DEF Placed

\* So do a first entry that opens everything below TEST_ACCESS_LOCATION_END, and
\* no entry at all.
LEMMA FirstPlaced ==
    ASSUME NEW p, NEW r0 \in {FirstRegion, Unwritten},
           Laid(p, r0, Unwritten, Unwritten, Unwritten), NEW w \in Places
    PROVE  Placed(p, w)
<1>1. /\ Unwritten.a = "OFF" /\ FirstRegion.base = 0
  BY RegionFields DEF Unwritten, FirstRegion
<1>2. \A i \in 0 .. 3 : i = 0 \/ i = 1 \/ i = 2 \/ i = 3
  OBVIOUS
<1>3. \A i \in 0 .. 3 : Meets(p, i, w) => i = 0
  BY <1>1, <1>2 DEF Laid, Meets, IsOn
<1>4. \A i \in 0 .. 3 : p.regions[i].a = "TOR" =>
          i = 0 /\ p.regions[i].base = 0 /\ TorFrom(p, i) = 0
  BY <1>1, <1>2 DEF Laid, TorFrom
<1>5. w \in Nat
  BY PlacesDiffer
<1>. QED  BY <1>3, <1>4, <1>5 DEF Placed

\* What each place is opened for.
UsualBound(p, r1, r2, r3, kind, w) ==
    BoundOpens(p, Access(kind, w)) <=>
       \/ w = Stack \/ (w = UserRam /\ kind \in r1.perms)
       \/ (w = Uart /\ kind \in r2.perms) \/ (Holds(r3, w) /\ kind \in r3.perms)

LEMMA UsualOpens ==
    ASSUME NEW p, NEW r1 \in UserRegions, NEW r2 \in UartRegions, NEW r3 \in TestRegions,
           Laid(p, RamRegion, r1, r2, r3), NEW w \in Places, NEW kind \in Kinds
    PROVE  /\ UsualBound(p, r1, r2, r3, kind, w)
           /\ LockedOpens(p, Access(kind, w)) <=>
                 (w = UserRam /\ r1.locked => kind \in r1.perms)
           /\ OffIsOff(p) /\ ~NothingOn(p)
<1>1. Access(kind, w).word = w /\ Access(kind, w).kind = kind
  BY DEF Access
<1>2. \A i \in 0 .. 3 : i = 0 \/ i = 1 \/ i = 2 \/ i = 3
  OBVIOUS
<1>3. /\ Holds(RamRegion, w) <=> w = Stack
      /\ Holds(r1, w) <=> w = UserRam
      /\ Holds(r2, w) <=> w = Uart
  BY PlacesHeld DEF UserRegions, UartRegions
<1>4. /\ RamRegion.perms = Kinds /\ RamRegion.locked = FALSE /\ RamRegion.a = "NAPOT"
      /\ r1.a = "NAPOT"
      /\ r2.locked = FALSE /\ (r2.a = "OFF" => r2.perms = {})
      /\ r3.locked = FALSE /\ (r3.a = "OFF" => r3.perms = {})
  BY RegionFields DEF RamRegion, UserRegions, UserRegion, UartRegions, UartRegion, UartOff,
                      TestRegions, TestRange, TestWord, Unwritten, RWX
<1>5. OffIsOff(p) /\ ~NothingOn(p)
  BY <1>2, <1>4 DEF Laid, OffIsOff, NothingOn, IsOn
<1>6. UsualBound(p, r1, r2, r3, kind, w)
  BY <1>1, <1>2, <1>3, <1>4 DEF Laid, BoundOpens, UsualBound
<1>7. LockedOpens(p, Access(kind, w)) <=> (w = UserRam /\ r1.locked => kind \in r1.perms)
  BY <1>1, <1>2, <1>3, <1>4 DEF Laid, LockedOpens
<1>. QED  BY <1>5, <1>6, <1>7

LEMMA FirstOpens ==
    ASSUME NEW p, NEW r0 \in {FirstRegion, Unwritten},
           Laid(p, r0, Unwritten, Unwritten, Unwritten), NEW w \in Places, NEW kind \in Kinds
    PROVE  /\ r0 = FirstRegion => (BoundOpens(p, Access(kind, w)) <=> w # TestEnd)
           /\ OffIsOff(p) /\ (NothingOn(p) <=> r0 = Unwritten)
<1>1. Access(kind, w).word = w /\ Access(kind, w).kind = kind
  BY DEF Access
<1>2. \A i \in 0 .. 3 : i = 0 \/ i = 1 \/ i = 2 \/ i = 3
  OBVIOUS
<1>3. /\ FirstRegion.perms = Kinds /\ FirstRegion.a = "TOR" /\ Unwritten.a = "OFF"
      /\ Unwritten.perms = {} /\ Unwritten.locked = FALSE
  BY RegionFields DEF FirstRegion, Unwritten, RWX
<1>4. Holds(FirstRegion, w) <=> w # TestEnd
  BY PlacesHeld
<1>. QED
  BY <1>1, <1>2, <1>3, <1>4 DEF Laid, BoundOpens, OffIsOff, NothingOn, IsOn

\* No region that is opened for writing is closed for reading.
KeepsWrites(p) ==
    \A i \in 0 .. 3 : "W" \in p.regions[i].perms => "R" \in p.regions[i].perms

\* A program whose first e - 1 accesses pass and whose e-th does not.
Fine(p) == Checked(p) /\ TrapNamed(p)

LEMMA FineUpTo ==
    ASSUME NEW p, WellFormed(p), OffIsOff(p), OneMode(p), ~p.direct,
           \A w \in Places : Placed(p, w), Len(p.user) \in Nat,
           \A j \in 1 .. Len(p.user) : p.user[j].word \in Places,
           Passes(p, Access("R", Stack)), Passes(p, Access("W", Stack)),
           Kept(p, Access("W", Stack)),
           NEW e \in 1 .. Len(p.user) + 1,
           \A j \in 1 .. Len(p.user) : j < e => Passes(p, p.user[j]),
           \A j \in 1 .. Len(p.user) : j <= e => Kept(p, p.user[j]),
           IF e = Len(p.user) + 1 THEN p.trap = EcallFrom(p.mpp)
           ELSE ~Passes(p, p.user[e]) /\ p.trap = AccessFault(p.user[e].kind)
    PROVE  Fine(p)
<1>1. Decided(p, Access("R", Stack)) /\ Decided(p, Access("W", Stack))
  BY DEF Decided, Kept, Access, Places
<1>2. ASSUME NEW k \in 1 .. Len(p.user), Reaches(p, k)
      PROVE  Decided(p, p.user[k])
  <2>1. k <= e
    BY <1>2 DEF Reaches, Passes
  <2>. QED  BY <2>1 DEF Decided
<1>3. TrapNamed(p)
  <2>1. ASSUME NEW k \in 1 .. Len(p.user), ~Passes(p, p.user[k]),
               \A j \in 1 .. Len(p.user) : j < k => Passes(p, p.user[j])
        PROVE  p.trap = AccessFault(p.user[k].kind)
    <3>1. k = e
      BY <2>1
    <3>. QED  BY <3>1
  <2>2. (\A j \in 1 .. Len(p.user) : Passes(p, p.user[j])) => p.trap = EcallFrom(p.mpp)
    OBVIOUS
  <2>. QED  BY <2>1, <2>2 DEF TrapNamed
<1>. QED  BY <1>1, <1>2, <1>3 DEF Fine, Checked, Decides

LEMMA ConcatOneTwo ==
    ASSUME NEW X, NEW s \in Seq(X), NEW a \in X, NEW b \in X
    PROVE  s \o <<a>> = Append(s, a) /\ s \o <<a, b>> = Append(Append(s, a), b)
<1>1. Len(s) \in Nat /\ <<a>> \in Seq(X) /\ <<a, b>> \in Seq(X)
  BY LenProperties
<1>2. s \o <<a>> = Append(s, a)
  <2>1. /\ s \o <<a>> \in Seq(X) /\ Len(s \o <<a>>) = Len(s) + 1
        /\ \A i \in 1 .. Len(s) : (s \o <<a>>)[i] = s[i]
        /\ (s \o <<a>>)[Len(s) + 1] = a
    BY <1>1, ConcatProperties
  <2>2. /\ Append(s, a) \in Seq(X) /\ Len(Append(s, a)) = Len(s) + 1
        /\ \A i \in 1 .. Len(s) : Append(s, a)[i] = s[i]
        /\ Append(s, a)[Len(s) + 1] = a
    BY AppendProperties
  <2>3. \A i \in 1 .. Len(s) + 1 : i \in 1 .. Len(s) \/ i = Len(s) + 1
    BY <1>1
  <2>. QED  BY <2>1, <2>2, <2>3, SeqEqual
<1>3. s \o <<a, b>> = Append(Append(s, a), b)
  <2>1. /\ s \o <<a, b>> \in Seq(X) /\ Len(s \o <<a, b>>) = Len(s) + 2
        /\ \A i \in 1 .. Len(s) : (s \o <<a, b>>)[i] = s[i]
        /\ (s \o <<a, b>>)[Len(s) + 1] = a /\ (s \o <<a, b>>)[Len(s) + 2] = b
    BY <1>1, ConcatProperties
  <2>2. /\ Append(Append(s, a), b) \in Seq(X) /\ Len(Append(Append(s, a), b)) = Len(s) + 2
        /\ \A i \in 1 .. Len(s) : Append(Append(s, a), b)[i] = s[i]
        /\ Append(Append(s, a), b)[Len(s) + 1] = a
        /\ Append(Append(s, a), b)[Len(s) + 2] = b
    BY <1>1, AppendProperties
  <2>3. \A i \in 1 .. Len(s) + 2 : i \in 1 .. Len(s) \/ i = Len(s) + 1 \/ i = Len(s) + 2
    BY <1>1
  <2>. QED  BY <2>1, <2>2, <2>3, SeqEqual
<1>. QED  BY <1>2, <1>3

\* A tuple is the one before it with an element appended (no prover sees it).
LEMMA AppendIs ==
    ASSUME NEW X, NEW s \in Seq(X), NEW t \in Seq(X), NEW x \in X,
           Len(t) = Len(s) + 1, \A i \in 1 .. Len(s) : t[i] = s[i], t[Len(s) + 1] = x
    PROVE  Append(s, x) = t
<1>1. /\ Append(s, x) \in Seq(X) /\ Len(Append(s, x)) = Len(t)
      /\ \A i \in 1 .. Len(s) : Append(s, x)[i] = t[i]
      /\ Append(s, x)[Len(s) + 1] = t[Len(s) + 1]
  BY AppendProperties
<1>2. Len(s) \in Nat /\ \A i \in 1 .. Len(t) : i \in 1 .. Len(s) \/ i = Len(s) + 1
  BY LenProperties
<1>. QED  BY <1>1, <1>2, SeqEqual

AppendsIn(X) ==
    /\ \A a, b, c \in X : Append(<<a, b>>, c) = <<a, b, c>>
    /\ \A a, b, c, d \in X : Append(<<a, b, c>>, d) = <<a, b, c, d>>
    /\ \A a, b, c, d, e \in X :
           Append(<<a, b, c, d>>, e) = <<a, b, c, d, e>>
    /\ \A a, b, c, d, e, f \in X :
           Append(<<a, b, c, d, e>>, f) = <<a, b, c, d, e, f>>
    /\ \A a, b, c, d, e, f, g \in X :
           Append(<<a, b, c, d, e, f>>, g) = <<a, b, c, d, e, f, g>>

LEMMA AppendTuples == ASSUME NEW X PROVE AppendsIn(X)
<1>2. ASSUME NEW a \in X, NEW b \in X, NEW c \in X
     PROVE  Append(<<a, b>>, c) = <<a, b, c>>
  <2>. DEFINE s == <<a, b>>
              t == <<a, b, c>>
  <2>0. s \in Seq(X) /\ t \in Seq(X)
    OBVIOUS
  <2>1. /\ Len(s) = 2
        /\ s[1] = a /\ s[2] = b
    OBVIOUS
  <2>2. /\ Len(t) = 3
        /\ t[1] = a /\ t[2] = b /\ t[3] = c
    OBVIOUS
  <2>. SUFFICES Append(s, c) = t
    OBVIOUS
  <2>. HIDE DEF s, t
  <2>3. \A i \in 1 .. 2 : i = 1 \/ i = 2
    OBVIOUS
  <2>4. \A i \in 1 .. Len(s) : t[i] = s[i]
    BY <2>1, <2>2, <2>3
  <2>5. Len(t) = Len(s) + 1 /\ t[Len(s) + 1] = c
    BY <2>1, <2>2
  <2>. QED  BY <2>0, <2>4, <2>5, AppendIs
<1>3. ASSUME NEW a \in X, NEW b \in X, NEW c \in X, NEW d \in X
     PROVE  Append(<<a, b, c>>, d) = <<a, b, c, d>>
  <2>. DEFINE s == <<a, b, c>>
              t == <<a, b, c, d>>
  <2>0. s \in Seq(X) /\ t \in Seq(X)
    OBVIOUS
  <2>1. /\ Len(s) = 3
        /\ s[1] = a /\ s[2] = b /\ s[3] = c
    OBVIOUS
  <2>2. /\ Len(t) = 4
        /\ t[1] = a /\ t[2] = b /\ t[3] = c /\ t[4] = d
    OBVIOUS
  <2>. SUFFICES Append(s, d) = t
    OBVIOUS
  <2>. HIDE DEF s, t
  <2>3. \A i \in 1 .. 3 : i = 1 \/ i = 2 \/ i = 3
    OBVIOUS
  <2>4. \A i \in 1 .. Len(s) : t[i] = s[i]
    BY <2>1, <2>2, <2>3
  <2>5. Len(t) = Len(s) + 1 /\ t[Len(s) + 1] = d
    BY <2>1, <2>2
  <2>. QED  BY <2>0, <2>4, <2>5, AppendIs
<1>4. ASSUME NEW a \in X, NEW b \in X, NEW c \in X, NEW d \in X, NEW e \in X
     PROVE  Append(<<a, b, c, d>>, e) = <<a, b, c, d, e>>
  <2>. DEFINE s == <<a, b, c, d>>
              t == <<a, b, c, d, e>>
  <2>0. s \in Seq(X) /\ t \in Seq(X)
    OBVIOUS
  <2>1. /\ Len(s) = 4
        /\ s[1] = a /\ s[2] = b /\ s[3] = c /\ s[4] = d
    OBVIOUS
  <2>2. /\ Len(t) = 5
        /\ t[1] = a /\ t[2] = b /\ t[3] = c /\ t[4] = d /\ t[5] = e
    OBVIOUS
  <2>. SUFFICES Append(s, e) = t
    OBVIOUS
  <2>. HIDE DEF s, t
  <2>3. \A i \in 1 .. 4 : i = 1 \/ i = 2 \/ i = 3 \/ i = 4
    OBVIOUS
  <2>4. \A i \in 1 .. Len(s) : t[i] = s[i]
    BY <2>1, <2>2, <2>3
  <2>5. Len(t) = Len(s) + 1 /\ t[Len(s) + 1] = e
    BY <2>1, <2>2
  <2>. QED  BY <2>0, <2>4, <2>5, AppendIs
<1>5. ASSUME NEW a \in X, NEW b \in X, NEW c \in X, NEW d \in X, NEW e \in X, NEW f \in X
     PROVE  Append(<<a, b, c, d, e>>, f) = <<a, b, c, d, e, f>>
  <2>. DEFINE s == <<a, b, c, d, e>>
              t == <<a, b, c, d, e, f>>
  <2>0. s \in Seq(X) /\ t \in Seq(X)
    OBVIOUS
  <2>1. /\ Len(s) = 5
        /\ s[1] = a /\ s[2] = b /\ s[3] = c /\ s[4] = d /\ s[5] = e
    OBVIOUS
  <2>2. /\ Len(t) = 6
        /\ t[1] = a /\ t[2] = b /\ t[3] = c /\ t[4] = d /\ t[5] = e /\ t[6] = f
    OBVIOUS
  <2>. SUFFICES Append(s, f) = t
    OBVIOUS
  <2>. HIDE DEF s, t
  <2>3. \A i \in 1 .. 5 : i = 1 \/ i = 2 \/ i = 3 \/ i = 4 \/ i = 5
    OBVIOUS
  <2>4. \A i \in 1 .. Len(s) : t[i] = s[i]
    BY <2>1, <2>2, <2>3
  <2>5. Len(t) = Len(s) + 1 /\ t[Len(s) + 1] = f
    BY <2>1, <2>2
  <2>. QED  BY <2>0, <2>4, <2>5, AppendIs
<1>6. ASSUME NEW a \in X, NEW b \in X, NEW c \in X, NEW d \in X, NEW e \in X,
             NEW f \in X, NEW g \in X
     PROVE  Append(<<a, b, c, d, e, f>>, g) = <<a, b, c, d, e, f, g>>
  <2>. DEFINE s == <<a, b, c, d, e, f>>
              t == <<a, b, c, d, e, f, g>>
  <2>0. s \in Seq(X) /\ t \in Seq(X)
    OBVIOUS
  <2>1. /\ Len(s) = 6
        /\ s[1] = a /\ s[2] = b /\ s[3] = c /\ s[4] = d /\ s[5] = e /\ s[6] = f
    OBVIOUS
  <2>2. /\ Len(t) = 7
        /\ t[1] = a /\ t[2] = b /\ t[3] = c /\ t[4] = d /\ t[5] = e /\ t[6] = f /\ t[7] = g
    OBVIOUS
  <2>. SUFFICES Append(s, g) = t
    OBVIOUS
  <2>. HIDE DEF s, t
  <2>3. \A i \in 1 .. 6 : i = 1 \/ i = 2 \/ i = 3 \/ i = 4 \/ i = 5 \/ i = 6
    OBVIOUS
  <2>4. \A i \in 1 .. Len(s) : t[i] = s[i]
    BY <2>1, <2>2, <2>3
  <2>5. Len(t) = Len(s) + 1 /\ t[Len(s) + 1] = g
    BY <2>1, <2>2
  <2>. QED  BY <2>0, <2>4, <2>5, AppendIs
<1>. QED  BY <1>2, <1>3, <1>4, <1>5, <1>6 DEF AppendsIn

\* The user programs, access by access.
LEMMA UserPrograms ==
    ASSUME NEW x, x = Access("X", UserRam), NEW stack, stack = Access("W", Stack),
           NEW uart, uart = Access("W", Uart), NEW read, read = Access("R", TestStart),
           NEW start, start = Access("W", TestStart),
           NEW next, next = Access("W", TestStart + 1),
           NEW last, last = Access("W", TestEnd - 1), NEW end, end = Access("W", TestEnd)
    PROVE  /\ pmp_user_simple_program = <<x, stack, uart>>
           /\ pmp_user_na4_access_ok = <<x, stack, uart, start>>
           /\ pmp_user_na4_access_err = <<x, stack, uart, next>>
           /\ pmp_user_tor_access_ok = <<x, stack, read, start, uart, start, last>>
           /\ pmp_user_tor_access_err = <<x, stack, uart, start, end>>
<1>. DEFINE A == {x, stack, uart, read, start, next, last, end}
<1>1. /\ x \in A /\ stack \in A /\ uart \in A /\ read \in A /\ start \in A
      /\ next \in A /\ last \in A /\ end \in A
  OBVIOUS
<1>. HIDE DEF A
<1>2. \A s \in Seq(A), a, b \in A :
          s \o <<a>> = Append(s, a) /\ s \o <<a, b>> = Append(Append(s, a), b)
  BY ConcatOneTwo
<1>3. <<x, stack>> \in Seq(A) /\ <<x, stack, uart>> \in Seq(A)
  BY <1>1
<1>4. AppendsIn(A)
  BY AppendTuples
<1>5. \A a, b, c \in A :
            Append(<<a, b>>, c) = <<a, b, c>>
  BY <1>4 DEF AppendsIn
<1>6. \A a, b, c, d \in A :
            Append(<<a, b, c>>, d) = <<a, b, c, d>>
  BY <1>4 DEF AppendsIn
<1>7. \A a, b, c, d, e \in A :
            Append(<<a, b, c, d>>, e) = <<a, b, c, d, e>>
  BY <1>4 DEF AppendsIn
<1>8. \A a, b, c, d, e, f \in A :
            Append(<<a, b, c, d, e>>, f) = <<a, b, c, d, e, f>>
  BY <1>4 DEF AppendsIn
<1>. DEFINE Seventh(a, b, c, d, e, f, g) ==
              Append(<<a, b, c, d, e, f>>, g) = <<a, b, c, d, e, f, g>>
<1>9. \A a, b, c, d, e, f, g \in A : Seventh(a, b, c, d, e, f, g)
  BY <1>4 DEF AppendsIn
<1>. HIDE DEF Seventh
<1>10. Start = <<x, stack>> /\ PutChar = <<uart>>
  BY DEF Start, PutChar
<1>11. pmp_user_simple_program = <<x, stack, uart>>
  <2>1. <<x, stack>> \o <<uart>> = Append(<<x, stack>>, uart)
    BY <1>1, <1>2, <1>3
  <2>2. Append(<<x, stack>>, uart) = <<x, stack, uart>>
    BY <1>1, <1>5
  <2>. QED  BY <1>10, <2>1, <2>2 DEF pmp_user_simple_program
<1>12. Start \o PutChar = <<x, stack, uart>>
  BY <1>11 DEF pmp_user_simple_program
<1>13. pmp_user_na4_access_ok = <<x, stack, uart, start>>
  <2>1. <<x, stack, uart>> \o <<start>> = Append(<<x, stack, uart>>, start)
    BY <1>1, <1>2, <1>3
  <2>2. Append(<<x, stack, uart>>, start) = <<x, stack, uart, start>>
    BY <1>1, <1>6
  <2>3. pmp_user_na4_access_ok = <<x, stack, uart>> \o <<start>>
    BY <1>12 DEF pmp_user_na4_access_ok
  <2>. QED  BY <2>1, <2>2, <2>3
<1>14. pmp_user_na4_access_err = <<x, stack, uart, next>>
  <2>1. <<x, stack, uart>> \o <<next>> = Append(<<x, stack, uart>>, next)
    BY <1>1, <1>2, <1>3
  <2>2. Append(<<x, stack, uart>>, next) = <<x, stack, uart, next>>
    BY <1>1, <1>6
  <2>3. pmp_user_na4_access_err = <<x, stack, uart>> \o <<next>>
    BY <1>12 DEF pmp_user_na4_access_err
  <2>. QED  BY <2>1, <2>2, <2>3
<1>15. pmp_user_tor_access_err = <<x, stack, uart, start, end>>
  <2>1. <<x, stack, uart>> \o <<start, end>> = Append(Append(<<x, stack, uart>>, start), end)
    BY <1>1, <1>2, <1>3
  <2>2. pmp_user_tor_access_err = <<x, stack, uart>> \o <<start, end>>
    BY <1>12 DEF pmp_user_tor_access_err
  <2>3. Append(<<x, stack, uart, start>>, end) = <<x, stack, uart, start, end>>
    BY <1>1, <1>7
  <2>4. Append(<<x, stack, uart>>, start) = <<x, stack, uart, start>>
    BY <1>1, <1>6
  <2>. QED  BY <2>4, <2>1, <2>2, <2>3
<1>16. pmp_user_tor_access_ok = <<x, stack, read, start, uart, start, last>>
  <2>1. Start \o <<read, start>> = <<x, stack, read, start>>
    <3>1. <<x, stack>> \o <<read, start>> = Append(Append(<<x, stack>>, read), start)
      BY <1>1, <1>2, <1>3
    <3>2. Append(<<x, stack, read>>, start) = <<x, stack, read, start>>
      BY <1>1, <1>6
    <3>3. Append(<<x, stack>>, read) = <<x, stack, read>>
      BY <1>1, <1>5
    <3>. QED  BY <1>10, <3>1, <3>2, <3>3
  <2>2. <<x, stack, read, start>> \o PutChar = <<x, stack, read, start, uart>>
    <3>1. <<x, stack, read, start>> \in Seq(A)
      BY <1>1
    <3>2. <<x, stack, read, start>> \o <<uart>> = Append(<<x, stack, read, start>>, uart)
      BY <1>1, <1>2, <3>1
    <3>3. Append(<<x, stack, read, start>>, uart) = <<x, stack, read, start, uart>>
      BY <1>1, <1>7
    <3>. QED  BY <1>10, <3>2, <3>3
  <2>3. <<x, stack, read, start, uart>> \o <<start, last>>
            = <<x, stack, read, start, uart, start, last>>
    <3>1. <<x, stack, read, start, uart>> \in Seq(A)
      BY <1>1
    <3>2. <<x, stack, read, start, uart>> \o <<start, last>>
              = Append(Append(<<x, stack, read, start, uart>>, start), last)
      BY <1>1, <1>2, <3>1
    <3>3. Append(<<x, stack, read, start, uart>>, start)
              = <<x, stack, read, start, uart, start>>
      <4>1. x \in A /\ stack \in A /\ read \in A /\ start \in A /\ uart \in A
        BY <1>1
      <4>. QED  BY <4>1, <1>8, SMTT(30)
    <3>4. Append(<<x, stack, read, start, uart, start>>, last)
              = <<x, stack, read, start, uart, start, last>>
      <4>1. Seventh(x, stack, read, start, uart, start, last)
        BY <1>1, <1>9
      <4>. QED  BY <4>1 DEF Seventh
    <3>. QED  BY <3>2, <3>3, <3>4
  <2>. QED  BY <2>1, <2>2, <2>3 DEF pmp_user_tor_access_ok
<1>. QED  BY <1>11, <1>13, <1>14, <1>15, <1>16

\* Programs that leave for supervisor mode, and the accesses to the places.
Leaves(p, user, trap) ==
    /\ p.mpp = S /\ p.mprv = TRUE /\ p.direct = FALSE
    /\ p.user = user /\ p.trap = trap

ToPlaces == {Access(kind, w) : kind \in Kinds, w \in Places}

\* What the usual layout opens below machine mode, and where W needs R.
UsualPasses(r1, r3, a) ==
    \/ a.word = Stack
    \/ a.word = UserRam /\ a.kind \in r1.perms
    \/ a.word = Uart
    \/ Holds(r3, a.word) /\ a.kind \in r3.perms

UsualKept(r3, a) ==
    a.kind = "W" /\ Holds(r3, a.word) /\ "W" \in r3.perms => "R" \in r3.perms

UsualUpTo(p, r1, r3, user, trap, e) ==
    /\ r1 \in {UserRegion(RWX), UserRegion({"R", "W"})} /\ r3 \in TestRegions
    /\ Laid(p, RamRegion, r1, UartRegion, r3) /\ Leaves(p, user, trap)
    /\ Len(user) \in Nat /\ e \in 1 .. Len(user) + 1
    /\ \A j \in 1 .. Len(user) : /\ user[j] \in ToPlaces
                                 /\ j < e => UsualPasses(r1, r3, user[j])
                                 /\ j <= e => UsualKept(r3, user[j])
    /\ IF e = Len(user) + 1 THEN trap = EcallFrom(S)
       ELSE ~UsualPasses(r1, r3, user[e]) /\ trap = AccessFault(user[e].kind)

LEMMA UsualFine ==
    ASSUME NEW p, NEW r1, NEW r3, NEW user, NEW trap, NEW e,
           UsualUpTo(p, r1, r3, user, trap, e), WellFormed(p)
    PROVE  Fine(p)
<1>. USE DEF UsualUpTo
<1>1. r1 \in UserRegions /\ UartRegion \in UartRegions
  BY DEF UserRegions, UartRegions
<1>2. \A w \in Places : Placed(p, w)
  BY <1>1, UsualPlaced
<1>3. OffIsOff(p) /\ ~NothingOn(p)
  BY <1>1, UsualOpens DEF Places, Kinds
<1>4. S # M
  BY DEF S, M
<1>5. ASSUME NEW a \in ToPlaces
      PROVE  /\ a.word \in Places
             /\ Passes(p, a) <=> UsualPasses(r1, r3, a)
             /\ UsualKept(r3, a) => Kept(p, a)
  <2>1. PICK kind \in Kinds, w \in Places : a = Access(kind, w)
    BY DEF ToPlaces
  <2>2. a.kind = kind /\ a.word = w
    BY <2>1 DEF Access
  <2>3. UartRegion.perms = Kinds /\ RamRegion.perms = Kinds /\ "R" \in r1.perms
    BY RegionFields DEF UartRegion, RamRegion, UserRegion, RWX, Kinds
  <2>4. BoundOpens(p, a) <=> UsualPasses(r1, r3, a)
    <3>1. UsualBound(p, r1, UartRegion, r3, kind, w)
      BY <1>1, UsualOpens
    <3>. QED  BY <2>1, <2>2, <2>3, <3>1 DEF UsualBound, UsualPasses
  <2>5. Passes(p, a) <=> UsualPasses(r1, r3, a)
    BY <1>3, <1>4, <2>4 DEF Passes, Opens, Leaves
  <2>6. ASSUME UsualKept(r3, a) PROVE Kept(p, a)
    <3>1. \A i \in 0 .. 3 : i = 0 \/ i = 1 \/ i = 2 \/ i = 3
      OBVIOUS
    <3>2. "R" \in Kinds
      BY DEF Kinds
    <3>. QED  BY <2>2, <2>3, <2>6, <3>1, <3>2 DEF Kept, UsualKept, Meets, Laid
  <2>. QED  BY <2>2, <2>5, <2>6
<1>6. /\ Access("R", Stack) \in ToPlaces /\ Access("W", Stack) \in ToPlaces
      /\ Access("R", Stack).word = Stack /\ Access("W", Stack).word = Stack
  BY DEF ToPlaces, Access, Places, Kinds
<1>7. Passes(p, Access("R", Stack)) /\ Passes(p, Access("W", Stack))
  BY <1>5, <1>6 DEF UsualPasses
<1>8. Kept(p, Access("W", Stack))
  <2>1. ~Holds(r3, Stack)
    BY PlacesHeld, PlacesDiffer DEF TestRegions, Places
  <2>. QED  BY <1>5, <1>6, <2>1 DEF UsualKept
<1>9. OneMode(p)
  BY <1>3, <1>4 DEF OneMode, Leaves
<1>10. p.user = user /\ p.trap = trap /\ p.mpp = S /\ ~p.direct
  BY DEF Leaves
<1>11. \A j \in 1 .. Len(p.user) : p.user[j] \in ToPlaces
  BY <1>10
<1>12. /\ \A j \in 1 .. Len(p.user) : p.user[j].word \in Places
       /\ \A j \in 1 .. Len(p.user) : j < e => Passes(p, p.user[j])
       /\ \A j \in 1 .. Len(p.user) : j <= e => Kept(p, p.user[j])
  BY <1>5, <1>10, <1>11
<1>13. IF e = Len(p.user) + 1 THEN p.trap = EcallFrom(p.mpp)
       ELSE ~Passes(p, p.user[e]) /\ p.trap = AccessFault(p.user[e].kind)
  BY <1>5, <1>10, <1>11
<1>. QED  BY <1>2, <1>3, <1>7, <1>8, <1>9, <1>10, <1>12, <1>13, FineUpTo

\* The same for a first entry that opens everything below TEST_ACCESS_LOCATION_END,
\* and for no entry.
FirstPasses(r0, a) == r0 = Unwritten \/ a.word # TestEnd

FirstUpTo(p, r0, user, trap, e) ==
    /\ r0 \in {FirstRegion, Unwritten} /\ Laid(p, r0, Unwritten, Unwritten, Unwritten)
    /\ Leaves(p, user, trap) /\ Len(user) \in Nat /\ e \in 1 .. Len(user) + 1
    /\ \A j \in 1 .. Len(user) : user[j] \in ToPlaces /\ (j < e => FirstPasses(r0, user[j]))
    /\ IF e = Len(user) + 1 THEN trap = EcallFrom(S)
       ELSE ~FirstPasses(r0, user[e]) /\ trap = AccessFault(user[e].kind)

LEMMA FirstFine ==
    ASSUME NEW p, NEW r0, NEW user, NEW trap, NEW e,
           FirstUpTo(p, r0, user, trap, e), WellFormed(p)
    PROVE  Fine(p)
<1>. USE DEF FirstUpTo
<1>1. \A w \in Places : Placed(p, w)
  BY FirstPlaced
<1>2. OffIsOff(p) /\ (NothingOn(p) <=> r0 = Unwritten)
  BY FirstOpens DEF Places, Kinds
<1>3. S # M
  BY DEF S, M
<1>4. ASSUME NEW a \in ToPlaces
      PROVE  a.word \in Places /\ (Passes(p, a) <=> FirstPasses(r0, a)) /\ Kept(p, a)
  <2>1. PICK kind \in Kinds, w \in Places : a = Access(kind, w)
    BY DEF ToPlaces
  <2>2. a.kind = kind /\ a.word = w
    BY <2>1 DEF Access
  <2>3. r0 = FirstRegion => (BoundOpens(p, a) <=> w # TestEnd)
    BY <2>1, FirstOpens
  <2>4. Passes(p, a) <=> FirstPasses(r0, a)
    BY <1>2, <1>3, <2>2, <2>3 DEF Passes, Opens, Leaves, FirstPasses
  <2>5. FirstRegion.perms = Kinds /\ Unwritten.perms = {} /\ "R" \in Kinds
    BY RegionFields DEF FirstRegion, Unwritten, RWX, Kinds
  <2>6. \A i \in 0 .. 3 : i = 0 \/ i = 1 \/ i = 2 \/ i = 3
    OBVIOUS
  <2>7. Kept(p, a)
    BY <2>5, <2>6 DEF Kept, Laid
  <2>. QED  BY <2>2, <2>4, <2>7
<1>5. /\ Access("R", Stack) \in ToPlaces /\ Access("W", Stack) \in ToPlaces
      /\ Access("R", Stack).word = Stack /\ Access("W", Stack).word = Stack
  BY DEF ToPlaces, Access, Places, Kinds
<1>6. /\ Passes(p, Access("R", Stack)) /\ Passes(p, Access("W", Stack))
      /\ Kept(p, Access("W", Stack))
  <2>1. Stack # TestEnd
    BY PlacesDiffer
  <2>. QED  BY <1>4, <1>5, <2>1 DEF FirstPasses
<1>7. OneMode(p)
  BY <1>3 DEF OneMode, Leaves
<1>8. p.user = user /\ p.trap = trap /\ p.mpp = S /\ ~p.direct
  BY DEF Leaves
<1>9. \A j \in 1 .. Len(p.user) : p.user[j] \in ToPlaces
  BY <1>8
<1>10. /\ \A j \in 1 .. Len(p.user) : p.user[j].word \in Places
       /\ \A j \in 1 .. Len(p.user) : j < e => Passes(p, p.user[j])
       /\ \A j \in 1 .. Len(p.user) : j <= e => Kept(p, p.user[j])
  BY <1>4, <1>8, <1>9
<1>11. IF e = Len(p.user) + 1 THEN p.trap = EcallFrom(p.mpp)
       ELSE ~Passes(p, p.user[e]) /\ p.trap = AccessFault(p.user[e].kind)
  BY <1>4, <1>8, <1>9
<1>. QED  BY <1>1, <1>2, <1>6, <1>7, <1>8, <1>10, <1>11, FineUpTo

\* main calls pass(), with the mstatus it wrote: below machine mode (pmp_mprv_s_mode)
\* or not (pmp_mprv_m_mode), its stack is opened.
LEMMA DirectFine ==
    ASSUME NEW p, Laid(p, RamRegion, UserRegion(RWX), UartOff, Unwritten), WellFormed(p),
           p.mpp \in {S, M}, p.mprv = TRUE, p.direct = TRUE, p.user = <<>>, p.trap = NoTrap
    PROVE  Fine(p)
<1>1. /\ UserRegion(RWX) \in UserRegions /\ UartOff \in UartRegions /\ Unwritten \in TestRegions
      /\ Stack \in Places /\ "R" \in Kinds /\ "W" \in Kinds
  BY DEF UserRegions, UartRegions, TestRegions, Places, Kinds
<1>2. Placed(p, Stack)
  BY <1>1, UsualPlaced
<1>3. ASSUME NEW kind \in Kinds
      PROVE  /\ UsualBound(p, UserRegion(RWX), UartOff, Unwritten, kind, Stack)
             /\ LockedOpens(p, Access(kind, Stack))
             /\ OffIsOff(p) /\ ~NothingOn(p)
  BY <1>1, UsualOpens, PlacesDiffer
<1>4. Opens(p, Access("R", Stack)) /\ Opens(p, Access("W", Stack))
  BY <1>1, <1>3 DEF UsualBound, Opens
<1>5. Kept(p, Access("W", Stack))
  <2>1. /\ RamRegion.perms = Kinds /\ UserRegion(RWX).perms = Kinds
        /\ UartOff.perms = {} /\ Unwritten.perms = {}
    BY RegionFields DEF RamRegion, UserRegion, UartOff, Unwritten, RWX
  <2>2. \A i \in 0 .. 3 : i = 0 \/ i = 1 \/ i = 2 \/ i = 3
    OBVIOUS
  <2>. QED  BY <1>1, <2>1, <2>2 DEF Kept, Laid
<1>6. Decides(p)
  <2>1. Len(p.user) = 0
    OBVIOUS
  <2>2. \A k \in 1 .. Len(p.user) : FALSE
    BY <2>1
  <2>3. Decided(p, Access("R", Stack)) /\ Decided(p, Access("W", Stack))
    BY <1>2, <1>5 DEF Decided, Kept, Access
  <2>. QED  BY <2>2, <2>3 DEF Decides
<1>7. OffIsOff(p) /\ ~NothingOn(p)
  BY <1>1, <1>3
<1>8. OneMode(p)
  BY <1>7 DEF OneMode
<1>9. TrapNamed(p)
  BY <1>4 DEF TrapNamed, Passes
<1>. QED  BY <1>6, <1>7, <1>8, <1>9 DEF Fine, Checked

\* main locks the user program's region without X and stays in machine mode: the
\* first fetch of the user program is refused.
LEMMA LockedFine ==
    ASSUME NEW p, Laid(p, RamRegion, LockedRegion, UartRegion, Unwritten), WellFormed(p),
           p.mpp = M, p.mprv = FALSE, p.direct = FALSE, p.trap = FetchFault,
           Len(p.user) \in Nat \ {0}, p.user[1] = Access("X", UserRam),
           \A j \in 1 .. Len(p.user) : p.user[j] \in ToPlaces
    PROVE  Fine(p)
<1>1. /\ LockedRegion \in UserRegions /\ UartRegion \in UartRegions
      /\ Unwritten \in TestRegions /\ Stack \in Places /\ UserRam \in Places
      /\ "R" \in Kinds /\ "W" \in Kinds /\ "X" \in Kinds
  BY DEF UserRegions, UartRegions, TestRegions, Places, Kinds
<1>2. \A w \in Places : Placed(p, w)
  BY <1>1, UsualPlaced
<1>3. ASSUME NEW kind \in Kinds, NEW w \in Places
      PROVE  /\ LockedOpens(p, Access(kind, w)) <=>
                   (w = UserRam /\ LockedRegion.locked => kind \in LockedRegion.perms)
             /\ OffIsOff(p) /\ ~NothingOn(p)
  BY <1>1, UsualOpens
<1>4. OffIsOff(p) /\ ~NothingOn(p)
  BY <1>1, <1>3
<1>5. Passes(p, Access("R", Stack)) /\ Passes(p, Access("W", Stack))
  BY <1>1, <1>3, PlacesDiffer DEF Passes, Opens
<1>6. ~Passes(p, Access("X", UserRam))
  <2>1. LockedRegion.locked = TRUE /\ "X" \notin LockedRegion.perms
    BY RegionFields
  <2>. QED  BY <1>1, <1>3, <1>4, <2>1 DEF Passes, Opens
<1>7. OneMode(p)
  BY <1>4 DEF OneMode
<1>8. \A a \in ToPlaces : a.word \in Places /\ Kept(p, a)
  <2>1. /\ RamRegion.perms = Kinds /\ LockedRegion.perms = {"R", "W"}
        /\ UartRegion.perms = Kinds /\ Unwritten.perms = {}
    BY RegionFields DEF RamRegion, UartRegion, Unwritten, RWX
  <2>2. \A i \in 0 .. 3 : i = 0 \/ i = 1 \/ i = 2 \/ i = 3
    OBVIOUS
  <2>3. \A a \in ToPlaces : a.word \in Places
    BY DEF ToPlaces, Access
  <2>. QED  BY <1>1, <2>1, <2>2, <2>3 DEF Kept, Laid
<1>9. /\ Access("W", Stack) \in ToPlaces
      /\ Access("X", UserRam).kind = "X"
  BY DEF ToPlaces, Access, Places, Kinds
<1>10. AccessFault("X") = FetchFault
  BY DEF AccessFault
<1>11. /\ 1 \in 1 .. Len(p.user) + 1 /\ 1 # Len(p.user) + 1
       /\ \A j \in 1 .. Len(p.user) : ~(j < 1)
  OBVIOUS
<1>. QED
  BY <1>2, <1>4, <1>5, <1>6, <1>7, <1>8, <1>9, <1>10, <1>11, FineUpTo

\* The programs' fields.
LEMMA RegionPerms ==
    ASSUME NEW a, NEW base, NEW size, NEW perms, NEW others
    PROVE  [Region(a, base, size, perms) EXCEPT !.perms = others] = Region(a, base, size, others)
<1>. DEFINE s == [Region(a, base, size, perms) EXCEPT !.perms = others]
            t == Region(a, base, size, others)
<1>1. /\ s = [x \in DOMAIN s |-> s[x]] /\ DOMAIN s = {"a", "base", "size", "perms", "locked"}
      /\ t = [x \in DOMAIN t |-> t[x]] /\ DOMAIN t = {"a", "base", "size", "perms", "locked"}
  BY DEF Region
<1>2. /\ s.a = t.a /\ s.base = t.base /\ s.size = t.size
      /\ s.perms = t.perms /\ s.locked = t.locked
  BY DEF Region
<1>. SUFFICES s = t
  OBVIOUS
<1>. HIDE DEF s, t
<1>3. DOMAIN s = DOMAIN t /\ \A x \in DOMAIN t : s[x] = t[x]
  BY <1>1, <1>2
<1>4. [x \in DOMAIN s |-> s[x]] = [x \in DOMAIN t |-> t[x]]
  BY <1>3
<1>. QED  BY <1>1, <1>4, Zenon

LEMMA UsualPrograms ==
    /\ Laid(pmp_everything_ok, RamRegion, UserRegion(RWX), UartRegion, Unwritten)
    /\ Leaves(pmp_everything_ok, pmp_user_simple_program, EcallFrom(S))
    /\ Laid(pmp_na4_ok, RamRegion, UserRegion(RWX), UartRegion, TestWord)
    /\ Leaves(pmp_na4_ok, pmp_user_na4_access_ok, EcallFrom(S))
    /\ Laid(pmp_na4_err, RamRegion, UserRegion(RWX), UartRegion, TestWord)
    /\ Leaves(pmp_na4_err, pmp_user_na4_access_err, StoreFault)
    /\ Laid(pmp_tor_ok, RamRegion, UserRegion(RWX), UartRegion, TestRange(RWX))
    /\ Leaves(pmp_tor_ok, pmp_user_tor_access_ok, EcallFrom(S))
    /\ Laid(pmp_tor_err, RamRegion, UserRegion(RWX), UartRegion, TestRange(RWX))
    /\ Leaves(pmp_tor_err, pmp_user_tor_access_err, StoreFault)
    /\ Laid(pmp_tor_read_err, RamRegion, UserRegion(RWX), UartRegion, TestRange({"W", "X"}))
    /\ Leaves(pmp_tor_read_err, pmp_user_tor_access_ok, ReadFault)
    /\ Laid(pmp_tor_write_err, RamRegion, UserRegion(RWX), UartRegion, TestRange({"R", "X"}))
    /\ Leaves(pmp_tor_write_err, pmp_user_tor_access_ok, StoreFault)
    /\ Laid(pmp_tor_exec_err, RamRegion, UserRegion({"R", "W"}), UartRegion, Unwritten)
    /\ Leaves(pmp_tor_exec_err, pmp_user_tor_access_ok, FetchFault)
<1>1. /\ DOMAIN UsualRegions = 0 .. 3
      /\ UsualRegions[0] = RamRegion /\ UsualRegions[1] = UserRegion(RWX)
      /\ UsualRegions[2] = UartRegion /\ UsualRegions[3] = Unwritten
  BY DEF UsualRegions, RamRegion, UserRegion, UartRegion
<1>2. /\ pmp_everything_ok.regions = UsualRegions
      /\ Leaves(pmp_everything_ok, pmp_user_simple_program, EcallFrom(S))
  BY DEF pmp_everything_ok, Leaves
<1>3. /\ pmp_na4_ok.regions = [UsualRegions EXCEPT ![3] = TestWord]
      /\ Leaves(pmp_na4_ok, pmp_user_na4_access_ok, EcallFrom(S))
  BY DEF pmp_na4_ok, pmp_everything_ok, Leaves
<1>4. /\ pmp_na4_err.regions = pmp_na4_ok.regions
      /\ Leaves(pmp_na4_err, pmp_user_na4_access_err, StoreFault)
  BY DEF pmp_na4_err, pmp_na4_ok, pmp_everything_ok, Leaves
<1>5. /\ pmp_tor_ok.regions = [UsualRegions EXCEPT ![3] = TestRange(RWX)]
      /\ Leaves(pmp_tor_ok, pmp_user_tor_access_ok, EcallFrom(S))
  BY DEF pmp_tor_ok, pmp_everything_ok, Leaves
<1>6. /\ pmp_tor_err.regions = pmp_tor_ok.regions
      /\ Leaves(pmp_tor_err, pmp_user_tor_access_err, StoreFault)
  BY DEF pmp_tor_err, pmp_tor_ok, pmp_everything_ok, Leaves
<1>7. /\ pmp_tor_read_err.regions = [pmp_tor_ok.regions EXCEPT ![3] = TestRange({"W", "X"})]
      /\ Leaves(pmp_tor_read_err, pmp_user_tor_access_ok, ReadFault)
  BY DEF pmp_tor_read_err, pmp_tor_ok, pmp_everything_ok, Leaves
<1>8. /\ pmp_tor_write_err.regions = [pmp_tor_ok.regions EXCEPT ![3] = TestRange({"R", "X"})]
      /\ Leaves(pmp_tor_write_err, pmp_user_tor_access_ok, StoreFault)
  BY DEF pmp_tor_write_err, pmp_tor_ok, pmp_everything_ok, Leaves
<1>9. /\ pmp_tor_exec_err.regions =
             [UsualRegions EXCEPT ![1] = [UsualRegions[1] EXCEPT !.perms = {"R", "W"}]]
      /\ Leaves(pmp_tor_exec_err, pmp_user_tor_access_ok, FetchFault)
  BY <1>1 DEF pmp_tor_exec_err, pmp_everything_ok, Leaves
<1>10. [UserRegion(RWX) EXCEPT !.perms = {"R", "W"}] = UserRegion({"R", "W"})
  <2>1. \A perms : UserRegion(perms) = Region("NAPOT", UserRam, UserRamSize, perms)
    BY DEF UserRegion
  <2>2. [Region("NAPOT", UserRam, UserRamSize, RWX) EXCEPT !.perms = {"R", "W"}]
            = Region("NAPOT", UserRam, UserRamSize, {"R", "W"})
    BY RegionPerms, SMTT(30)
  <2>. QED  BY <2>1, <2>2
<1>. QED
  BY <1>1, <1>2, <1>3, <1>4, <1>5, <1>6, <1>7, <1>8, <1>9, <1>10 DEF Laid

LEMMA OtherPrograms ==
    /\ Laid(pmp_do_nothing, Unwritten, Unwritten, Unwritten, Unwritten)
    /\ Leaves(pmp_do_nothing, pmp_user_simple_program, EcallFrom(S))
    /\ Laid(pmp_tor_first_entry, FirstRegion, Unwritten, Unwritten, Unwritten)
    /\ Leaves(pmp_tor_first_entry, pmp_user_tor_access_ok, EcallFrom(S))
    /\ Laid(pmp_tor_first_entry_err, FirstRegion, Unwritten, Unwritten, Unwritten)
    /\ Leaves(pmp_tor_first_entry_err, pmp_user_tor_access_err, StoreFault)
    /\ \A p \in {pmp_mprv_s_mode, pmp_mprv_m_mode} :
          /\ Laid(p, RamRegion, UserRegion(RWX), UartOff, Unwritten)
          /\ p.mpp \in {S, M} /\ p.mprv = TRUE /\ p.direct = TRUE
          /\ p.user = <<>> /\ p.trap = NoTrap
    /\ Laid(pmp_locked_bit_m_mode, RamRegion, LockedRegion, UartRegion, Unwritten)
    /\ pmp_locked_bit_m_mode.mpp = M /\ pmp_locked_bit_m_mode.mprv = FALSE
    /\ pmp_locked_bit_m_mode.direct = FALSE /\ pmp_locked_bit_m_mode.trap = FetchFault
    /\ pmp_locked_bit_m_mode.user = pmp_user_simple_program
<1>1. /\ DOMAIN UsualRegions = 0 .. 3
      /\ UsualRegions[0] = RamRegion /\ UsualRegions[1] = UserRegion(RWX)
      /\ UsualRegions[2] = UartRegion /\ UsualRegions[3] = Unwritten
  BY DEF UsualRegions, RamRegion, UserRegion, UartRegion
<1>2. /\ Laid(pmp_do_nothing, Unwritten, Unwritten, Unwritten, Unwritten)
      /\ Leaves(pmp_do_nothing, pmp_user_simple_program, EcallFrom(S))
  BY DEF pmp_do_nothing, pmp_everything_ok, Leaves, Laid
<1>3. /\ Laid(pmp_tor_first_entry, FirstRegion, Unwritten, Unwritten, Unwritten)
      /\ Leaves(pmp_tor_first_entry, pmp_user_tor_access_ok, EcallFrom(S))
  BY DEF pmp_tor_first_entry, pmp_everything_ok, OnlyFirst, FirstRegion, Leaves, Laid
<1>4. /\ Laid(pmp_tor_first_entry_err, FirstRegion, Unwritten, Unwritten, Unwritten)
      /\ Leaves(pmp_tor_first_entry_err, pmp_user_tor_access_err, StoreFault)
  BY DEF pmp_tor_first_entry_err, pmp_tor_first_entry, pmp_everything_ok, OnlyFirst,
         FirstRegion, Leaves, Laid
<1>5. /\ pmp_mprv_s_mode.regions = [UsualRegions EXCEPT ![2] = UartOff]
      /\ pmp_mprv_s_mode.mpp = S /\ pmp_mprv_s_mode.mprv = TRUE
      /\ pmp_mprv_s_mode.direct = TRUE
      /\ pmp_mprv_s_mode.user = <<>> /\ pmp_mprv_s_mode.trap = NoTrap
  BY DEF pmp_mprv_s_mode, pmp_everything_ok
<1>6. /\ pmp_mprv_m_mode.regions = pmp_mprv_s_mode.regions
      /\ pmp_mprv_m_mode.mpp = M /\ pmp_mprv_m_mode.mprv = TRUE
      /\ pmp_mprv_m_mode.direct = TRUE
      /\ pmp_mprv_m_mode.user = <<>> /\ pmp_mprv_m_mode.trap = NoTrap
  BY DEF pmp_mprv_m_mode, pmp_mprv_s_mode, pmp_everything_ok
<1>7. Laid(pmp_locked_bit_m_mode, RamRegion, LockedRegion, UartRegion, Unwritten)
  <2>. DEFINE DataOnly == [UsualRegions[1] EXCEPT !.perms = {"R", "W"}]
  <2>1. pmp_locked_bit_m_mode.regions =
            [[UsualRegions EXCEPT ![1] = DataOnly] EXCEPT ![1] = [DataOnly EXCEPT !.locked = TRUE]]
    BY <1>1 DEF pmp_locked_bit_m_mode, pmp_everything_ok
  <2>2. DataOnly = UserRegion({"R", "W"})
    BY <1>1, RegionPerms DEF UserRegion
  <2>. HIDE DEF DataOnly
  <2>. QED  BY <1>1, <2>1, <2>2 DEF Laid, LockedRegion
<1>8. /\ pmp_locked_bit_m_mode.mpp = M /\ pmp_locked_bit_m_mode.mprv = FALSE
      /\ pmp_locked_bit_m_mode.direct = FALSE /\ pmp_locked_bit_m_mode.trap = FetchFault
      /\ pmp_locked_bit_m_mode.user = pmp_user_simple_program
  BY DEF pmp_locked_bit_m_mode, pmp_everything_ok
<1>9. \A p : p.regions = [UsualRegions EXCEPT ![2] = UartOff]
               => Laid(p, RamRegion, UserRegion(RWX), UartOff, Unwritten)
  BY <1>1 DEF Laid
<1>10. \A p \in {pmp_mprv_s_mode, pmp_mprv_m_mode} :
          /\ Laid(p, RamRegion, UserRegion(RWX), UartOff, Unwritten)
          /\ p.mpp \in {S, M} /\ p.mprv = TRUE /\ p.direct = TRUE
          /\ p.user = <<>> /\ p.trap = NoTrap
  BY <1>5, <1>6, <1>9
<1>. QED  BY <1>2, <1>3, <1>4, <1>7, <1>8, <1>10

\* Every program of the repository is of that shape.
LEMMA RepositoryFine == \A p \in AllPmpPrograms : Fine(p)
<1>1. PICK x, stack, uart, read, start, next, last, end :
         /\ x = Access("X", UserRam) /\ stack = Access("W", Stack) /\ uart = Access("W", Uart)
         /\ read = Access("R", TestStart) /\ start = Access("W", TestStart)
         /\ next = Access("W", TestStart + 1) /\ last = Access("W", TestEnd - 1)
         /\ end = Access("W", TestEnd)
  OBVIOUS
<1>2. /\ pmp_user_simple_program = <<x, stack, uart>>
      /\ pmp_user_na4_access_ok = <<x, stack, uart, start>>
      /\ pmp_user_na4_access_err = <<x, stack, uart, next>>
      /\ pmp_user_tor_access_ok = <<x, stack, read, start, uart, start, last>>
      /\ pmp_user_tor_access_err = <<x, stack, uart, start, end>>
  BY <1>1, UserPrograms
<1>3. /\ x \in ToPlaces /\ stack \in ToPlaces /\ uart \in ToPlaces /\ read \in ToPlaces
      /\ start \in ToPlaces /\ next \in ToPlaces /\ last \in ToPlaces /\ end \in ToPlaces
  BY <1>1 DEF ToPlaces, Places, Kinds
<1>4. ASSUME NEW r1, NEW r3 \in TestRegions
      PROVE  /\ UsualPasses(r1, r3, x) <=> "X" \in r1.perms
             /\ UsualPasses(r1, r3, stack) /\ UsualPasses(r1, r3, uart)
             /\ \A perms : r3 = TestRange(perms) =>
                   /\ UsualPasses(r1, r3, read) <=> "R" \in perms
                   /\ UsualPasses(r1, r3, start) <=> "W" \in perms
                   /\ UsualPasses(r1, r3, last) <=> "W" \in perms
                   /\ ~UsualPasses(r1, r3, end)
             /\ r3 = TestWord => UsualPasses(r1, r3, start) /\ ~UsualPasses(r1, r3, next)
             /\ UsualKept(r3, x) /\ UsualKept(r3, stack) /\ UsualKept(r3, uart)
             /\ UsualKept(r3, read)
             /\ r3 # TestRange({"W", "X"}) => /\ UsualKept(r3, start) /\ UsualKept(r3, next)
                                              /\ UsualKept(r3, last) /\ UsualKept(r3, end)
             /\ "X" \in UserRegion(RWX).perms /\ "X" \notin UserRegion({"R", "W"}).perms
             /\ "R" \in RWX /\ "W" \in RWX
  <2>1. /\ x.word = UserRam /\ stack.word = Stack /\ uart.word = Uart
        /\ read.word = TestStart /\ start.word = TestStart /\ next.word = TestStart + 1
        /\ last.word = TestEnd - 1 /\ end.word = TestEnd
        /\ x.kind = "X" /\ stack.kind = "W" /\ uart.kind = "W" /\ read.kind = "R"
        /\ start.kind = "W" /\ next.kind = "W" /\ last.kind = "W" /\ end.kind = "W"
    BY <1>1 DEF Access
  <2>2. /\ UserRam # Stack /\ UserRam # Uart
        /\ \A w \in {TestStart, TestStart + 1, TestEnd - 1, TestEnd} :
              w # Stack /\ w # UserRam /\ w # Uart
        /\ TestEnd \notin {TestStart, TestStart + 1, TestEnd - 1} /\ TestStart + 1 # TestStart
    BY PlacesDiffer DEF TestStart, TestEnd
  <2>3. \A w \in {Stack, UserRam, Uart} : ~Holds(r3, w)
    BY <2>2, PlacesHeld DEF TestRegions, Places
  <2>4. \A perms, w : w \in {TestStart, TestEnd - 1} => Holds(TestRange(perms), w)
    BY PlacesHeld DEF Places
  <2>5. /\ Holds(TestWord, TestStart) /\ ~Holds(TestWord, TestStart + 1)
        /\ \A perms : ~Holds(TestRange(perms), TestEnd)
    BY <2>2, PlacesHeld DEF Places
  <2>6. /\ \A perms : TestRange(perms).perms = perms /\ UserRegion(perms).perms = perms
        /\ TestWord.perms = RWX /\ Unwritten.perms = {}
    BY RegionFields DEF TestRange, UserRegion, TestWord, Unwritten
  <2>7. "R" \in RWX /\ "W" \in RWX /\ "X" \in RWX
    BY DEF RWX, Kinds
  <2>8. r3 # TestRange({"W", "X"}) /\ "W" \in r3.perms => "R" \in r3.perms
    BY <2>6, <2>7 DEF TestRegions
  <2>9. /\ UsualPasses(r1, r3, x) <=> "X" \in r1.perms
        /\ UsualPasses(r1, r3, stack) /\ UsualPasses(r1, r3, uart)
    BY <2>1, <2>2, <2>3 DEF UsualPasses
  <2>10. ASSUME NEW perms, r3 = TestRange(perms)
         PROVE  /\ UsualPasses(r1, r3, read) <=> "R" \in perms
                /\ UsualPasses(r1, r3, start) <=> "W" \in perms
                /\ UsualPasses(r1, r3, last) <=> "W" \in perms
                /\ ~UsualPasses(r1, r3, end)
    BY <2>1, <2>2, <2>4, <2>5, <2>6, <2>10 DEF UsualPasses
  <2>11. r3 = TestWord => UsualPasses(r1, r3, start) /\ ~UsualPasses(r1, r3, next)
    BY <2>1, <2>2, <2>5, <2>6, <2>7 DEF UsualPasses
  <2>12. /\ UsualKept(r3, x) /\ UsualKept(r3, stack) /\ UsualKept(r3, uart)
         /\ UsualKept(r3, read)
         /\ r3 # TestRange({"W", "X"}) => /\ UsualKept(r3, start) /\ UsualKept(r3, next)
                                          /\ UsualKept(r3, last) /\ UsualKept(r3, end)
    BY <2>1, <2>3, <2>8 DEF UsualKept
  <2>. QED  BY <2>6, <2>7, <2>9, <2>10, <2>11, <2>12
<1>5. /\ FirstPasses(FirstRegion, x) /\ FirstPasses(FirstRegion, stack)
      /\ FirstPasses(FirstRegion, uart) /\ FirstPasses(FirstRegion, read)
      /\ FirstPasses(FirstRegion, start) /\ FirstPasses(FirstRegion, last)
      /\ ~FirstPasses(FirstRegion, end)
      /\ \A a : FirstPasses(Unwritten, a)
  <2>1. /\ TestEnd # UserRam /\ TestEnd # Stack /\ TestEnd # Uart /\ TestEnd # TestStart
        /\ TestEnd # TestEnd - 1
    BY PlacesDiffer DEF TestEnd
  <2>2. FirstRegion # Unwritten
    BY RegionFields DEF FirstRegion, Unwritten
  <2>. QED  BY <1>1, <2>1, <2>2 DEF FirstPasses, Access
<1>6. /\ x.kind = "X" /\ read.kind = "R" /\ start.kind = "W" /\ next.kind = "W"
      /\ end.kind = "W"
      /\ AccessFault("X") = FetchFault /\ AccessFault("R") = ReadFault
      /\ AccessFault("W") = StoreFault
  BY <1>1 DEF Access, AccessFault
<1>7. TestWord # TestRange({"W", "X"})
  BY RegionFields DEF TestWord, TestRange
<1>8. Fine(pmp_everything_ok)
  <2>. DEFINE u == pmp_user_simple_program
  <2>1. /\ Len(u) = 3 /\ u[1] = x /\ u[2] = stack /\ u[3] = uart
    BY <1>2
  <2>2. \A j \in 1 .. 3 : j = 1 \/ j = 2 \/ j = 3
    OBVIOUS
  <2>3. UsualUpTo(pmp_everything_ok, UserRegion(RWX), Unwritten, u, EcallFrom(S), 4)
    <3>1. /\ Unwritten \in TestRegions
          /\ Laid(pmp_everything_ok, RamRegion, UserRegion(RWX), UartRegion, Unwritten)
          /\ Leaves(pmp_everything_ok, u, EcallFrom(S))
      BY UsualPrograms DEF TestRegions
    <3>2. /\ UsualPasses(UserRegion(RWX), Unwritten, x)
          /\ UsualPasses(UserRegion(RWX), Unwritten, stack)
          /\ UsualPasses(UserRegion(RWX), Unwritten, uart) /\ UsualKept(Unwritten, x)
          /\ UsualKept(Unwritten, stack) /\ UsualKept(Unwritten, uart)
      BY <1>4, <1>6, <3>1
    <3>. HIDE DEF u
    <3>3. \A j \in 1 .. Len(u) : u[j] \in ToPlaces
      BY <1>3, <2>1, <2>2
    <3>. QED  BY <1>6, <2>1, <2>2, <3>1, <3>2, <3>3 DEF UsualUpTo
  <2>. QED
    BY <2>3, UsualFine, RepositoryWellFormed DEF AllPmpPrograms, EncodingTests, ModeTests
<1>9. Fine(pmp_na4_ok)
  <2>. DEFINE u == pmp_user_na4_access_ok
  <2>1. /\ Len(u) = 4 /\ u[1] = x /\ u[2] = stack /\ u[3] = uart /\ u[4] = start
    BY <1>2
  <2>2. \A j \in 1 .. 4 : j = 1 \/ j = 2 \/ j = 3 \/ j = 4
    OBVIOUS
  <2>3. UsualUpTo(pmp_na4_ok, UserRegion(RWX), TestWord, u, EcallFrom(S), 5)
    <3>1. /\ TestWord \in TestRegions
          /\ Laid(pmp_na4_ok, RamRegion, UserRegion(RWX), UartRegion, TestWord)
          /\ Leaves(pmp_na4_ok, u, EcallFrom(S))
      BY UsualPrograms DEF TestRegions
    <3>2. /\ UsualPasses(UserRegion(RWX), TestWord, x)
          /\ UsualPasses(UserRegion(RWX), TestWord, stack)
          /\ UsualPasses(UserRegion(RWX), TestWord, uart)
          /\ UsualPasses(UserRegion(RWX), TestWord, start) /\ UsualKept(TestWord, x)
          /\ UsualKept(TestWord, stack) /\ UsualKept(TestWord, uart)
          /\ UsualKept(TestWord, start)
      BY <1>4, <1>7, <3>1
    <3>. HIDE DEF u
    <3>3. \A j \in 1 .. Len(u) : u[j] \in ToPlaces
      BY <1>3, <2>1, <2>2
    <3>. QED  BY <1>6, <2>1, <2>2, <3>1, <3>2, <3>3 DEF UsualUpTo
  <2>. QED
    BY <2>3, UsualFine, RepositoryWellFormed DEF AllPmpPrograms, EncodingTests, ModeTests
<1>10. Fine(pmp_na4_err)
  <2>. DEFINE u == pmp_user_na4_access_err
  <2>1. /\ Len(u) = 4 /\ u[1] = x /\ u[2] = stack /\ u[3] = uart /\ u[4] = next
    BY <1>2
  <2>2. \A j \in 1 .. 4 : j = 1 \/ j = 2 \/ j = 3 \/ j = 4
    OBVIOUS
  <2>3. UsualUpTo(pmp_na4_err, UserRegion(RWX), TestWord, u, StoreFault, 4)
    <3>1. /\ TestWord \in TestRegions
          /\ Laid(pmp_na4_err, RamRegion, UserRegion(RWX), UartRegion, TestWord)
          /\ Leaves(pmp_na4_err, u, StoreFault)
      BY UsualPrograms DEF TestRegions
    <3>2. /\ UsualPasses(UserRegion(RWX), TestWord, x)
          /\ UsualPasses(UserRegion(RWX), TestWord, stack)
          /\ UsualPasses(UserRegion(RWX), TestWord, uart)
          /\ ~UsualPasses(UserRegion(RWX), TestWord, next) /\ UsualKept(TestWord, x)
          /\ UsualKept(TestWord, stack) /\ UsualKept(TestWord, uart)
          /\ UsualKept(TestWord, next)
      BY <1>4, <1>7, <3>1
    <3>. HIDE DEF u
    <3>3. \A j \in 1 .. Len(u) : u[j] \in ToPlaces
      BY <1>3, <2>1, <2>2
    <3>. QED  BY <1>6, <2>1, <2>2, <3>1, <3>2, <3>3 DEF UsualUpTo
  <2>. QED
    BY <2>3, UsualFine, RepositoryWellFormed DEF AllPmpPrograms, EncodingTests, ModeTests
<1>11. Fine(pmp_tor_ok)
  <2>. DEFINE u == pmp_user_tor_access_ok
  <2>1. /\ Len(u) = 7 /\ u[1] = x /\ u[2] = stack /\ u[3] = read /\ u[4] = start
      /\ u[5] = uart /\ u[6] = start /\ u[7] = last
    BY <1>2
  <2>2. \A j \in 1 .. 7 : j = 1 \/ j = 2 \/ j = 3 \/ j = 4 \/ j = 5 \/ j = 6 \/ j = 7
    OBVIOUS
  <2>3. UsualUpTo(pmp_tor_ok, UserRegion(RWX), TestRange(RWX), u, EcallFrom(S), 8)
    <3>1. /\ TestRange(RWX) \in TestRegions
          /\ Laid(pmp_tor_ok, RamRegion, UserRegion(RWX), UartRegion, TestRange(RWX))
          /\ Leaves(pmp_tor_ok, u, EcallFrom(S))
      BY UsualPrograms DEF TestRegions
    <3>2. /\ UsualPasses(UserRegion(RWX), TestRange(RWX), x)
          /\ UsualPasses(UserRegion(RWX), TestRange(RWX), stack)
          /\ UsualPasses(UserRegion(RWX), TestRange(RWX), read)
          /\ UsualPasses(UserRegion(RWX), TestRange(RWX), start)
          /\ UsualPasses(UserRegion(RWX), TestRange(RWX), uart)
          /\ UsualPasses(UserRegion(RWX), TestRange(RWX), last)
          /\ UsualKept(TestRange(RWX), x) /\ UsualKept(TestRange(RWX), stack)
          /\ UsualKept(TestRange(RWX), read) /\ UsualKept(TestRange(RWX), start)
          /\ UsualKept(TestRange(RWX), uart) /\ UsualKept(TestRange(RWX), last)
      BY <1>4, <1>6, <3>1
    <3>. HIDE DEF u
    <3>3. \A j \in 1 .. Len(u) : u[j] \in ToPlaces
      BY <1>3, <2>1, <2>2
    <3>. QED  BY <1>6, <2>1, <2>2, <3>1, <3>2, <3>3 DEF UsualUpTo
  <2>. QED
    BY <2>3, UsualFine, RepositoryWellFormed DEF AllPmpPrograms, EncodingTests, ModeTests
<1>12. Fine(pmp_tor_err)
  <2>. DEFINE u == pmp_user_tor_access_err
  <2>1. /\ Len(u) = 5 /\ u[1] = x /\ u[2] = stack /\ u[3] = uart /\ u[4] = start /\ u[5] = end
    BY <1>2
  <2>2. \A j \in 1 .. 5 : j = 1 \/ j = 2 \/ j = 3 \/ j = 4 \/ j = 5
    OBVIOUS
  <2>3. UsualUpTo(pmp_tor_err, UserRegion(RWX), TestRange(RWX), u, StoreFault, 5)
    <3>1. /\ TestRange(RWX) \in TestRegions
          /\ Laid(pmp_tor_err, RamRegion, UserRegion(RWX), UartRegion, TestRange(RWX))
          /\ Leaves(pmp_tor_err, u, StoreFault)
      BY UsualPrograms DEF TestRegions
    <3>2. /\ UsualPasses(UserRegion(RWX), TestRange(RWX), x)
          /\ UsualPasses(UserRegion(RWX), TestRange(RWX), stack)
          /\ UsualPasses(UserRegion(RWX), TestRange(RWX), uart)
          /\ UsualPasses(UserRegion(RWX), TestRange(RWX), start)
          /\ ~UsualPasses(UserRegion(RWX), TestRange(RWX), end)
          /\ UsualKept(TestRange(RWX), x) /\ UsualKept(TestRange(RWX), stack)
          /\ UsualKept(TestRange(RWX), uart) /\ UsualKept(TestRange(RWX), start)
          /\ UsualKept(TestRange(RWX), end)
      BY <1>4, <1>6, <3>1
    <3>. HIDE DEF u
    <3>3. \A j \in 1 .. Len(u) : u[j] \in ToPlaces
      BY <1>3, <2>1, <2>2
    <3>. QED  BY <1>6, <2>1, <2>2, <3>1, <3>2, <3>3 DEF UsualUpTo
  <2>. QED
    BY <2>3, UsualFine, RepositoryWellFormed DEF AllPmpPrograms, EncodingTests, ModeTests
<1>13. Fine(pmp_tor_read_err)
  <2>. DEFINE u == pmp_user_tor_access_ok
  <2>1. /\ Len(u) = 7 /\ u[1] = x /\ u[2] = stack /\ u[3] = read /\ u[4] = start
      /\ u[5] = uart /\ u[6] = start /\ u[7] = last
    BY <1>2
  <2>2. \A j \in 1 .. 7 : j = 1 \/ j = 2 \/ j = 3 \/ j = 4 \/ j = 5 \/ j = 6 \/ j = 7
    OBVIOUS
  <2>3. UsualUpTo(pmp_tor_read_err, UserRegion(RWX), TestRange({"W", "X"}), u, ReadFault, 3)
    <3>1. /\ TestRange({"W", "X"}) \in TestRegions
          /\ Laid(pmp_tor_read_err, RamRegion, UserRegion(RWX), UartRegion, TestRange({"W", "X"}))
          /\ Leaves(pmp_tor_read_err, u, ReadFault)
      BY UsualPrograms DEF TestRegions
    <3>2. /\ UsualPasses(UserRegion(RWX), TestRange({"W", "X"}), x)
          /\ UsualPasses(UserRegion(RWX), TestRange({"W", "X"}), stack)
          /\ ~UsualPasses(UserRegion(RWX), TestRange({"W", "X"}), read)
          /\ UsualKept(TestRange({"W", "X"}), x) /\ UsualKept(TestRange({"W", "X"}), stack)
          /\ UsualKept(TestRange({"W", "X"}), read)
      BY <1>4, <1>6, <3>1
    <3>. HIDE DEF u
    <3>3. \A j \in 1 .. Len(u) : u[j] \in ToPlaces
      BY <1>3, <2>1, <2>2
    <3>. QED  BY <1>6, <2>1, <2>2, <3>1, <3>2, <3>3 DEF UsualUpTo
  <2>. QED
    BY <2>3, UsualFine, RepositoryWellFormed DEF AllPmpPrograms, EncodingTests, ModeTests
<1>14. Fine(pmp_tor_write_err)
  <2>. DEFINE u == pmp_user_tor_access_ok
  <2>1. /\ Len(u) = 7 /\ u[1] = x /\ u[2] = stack /\ u[3] = read /\ u[4] = start
      /\ u[5] = uart /\ u[6] = start /\ u[7] = last
    BY <1>2
  <2>2. \A j \in 1 .. 7 : j = 1 \/ j = 2 \/ j = 3 \/ j = 4 \/ j = 5 \/ j = 6 \/ j = 7
    OBVIOUS
  <2>3. UsualUpTo(pmp_tor_write_err, UserRegion(RWX), TestRange({"R", "X"}), u, StoreFault, 4)
    <3>1. /\ TestRange({"R", "X"}) \in TestRegions
          /\ Laid(pmp_tor_write_err, RamRegion, UserRegion(RWX), UartRegion, TestRange({"R", "X"}))
          /\ Leaves(pmp_tor_write_err, u, StoreFault)
      BY UsualPrograms DEF TestRegions
    <3>2. /\ UsualPasses(UserRegion(RWX), TestRange({"R", "X"}), x)
          /\ UsualPasses(UserRegion(RWX), TestRange({"R", "X"}), stack)
          /\ UsualPasses(UserRegion(RWX), TestRange({"R", "X"}), read)
          /\ ~UsualPasses(UserRegion(RWX), TestRange({"R", "X"}), start)
          /\ UsualKept(TestRange({"R", "X"}), x) /\ UsualKept(TestRange({"R", "X"}), stack)
          /\ UsualKept(TestRange({"R", "X"}), read)
          /\ UsualKept(TestRange({"R", "X"}), start)
      BY <1>4, <1>6, <3>1
    <3>. HIDE DEF u
    <3>3. \A j \in 1 .. Len(u) : u[j] \in ToPlaces
      BY <1>3, <2>1, <2>2
    <3>. QED  BY <1>6, <2>1, <2>2, <3>1, <3>2, <3>3 DEF UsualUpTo
  <2>. QED
    BY <2>3, UsualFine, RepositoryWellFormed DEF AllPmpPrograms, EncodingTests, ModeTests
<1>15. Fine(pmp_tor_exec_err)
  <2>. DEFINE u == pmp_user_tor_access_ok
  <2>1. /\ Len(u) = 7 /\ u[1] = x /\ u[2] = stack /\ u[3] = read /\ u[4] = start
      /\ u[5] = uart /\ u[6] = start /\ u[7] = last
    BY <1>2
  <2>2. \A j \in 1 .. 7 : j = 1 \/ j = 2 \/ j = 3 \/ j = 4 \/ j = 5 \/ j = 6 \/ j = 7
    OBVIOUS
  <2>3. UsualUpTo(pmp_tor_exec_err, UserRegion({"R", "W"}), Unwritten, u, FetchFault, 1)
    <3>1. /\ Unwritten \in TestRegions
          /\ Laid(pmp_tor_exec_err, RamRegion, UserRegion({"R", "W"}), UartRegion, Unwritten)
          /\ Leaves(pmp_tor_exec_err, u, FetchFault)
      BY UsualPrograms DEF TestRegions
    <3>2. /\ ~UsualPasses(UserRegion({"R", "W"}), Unwritten, x) /\ UsualKept(Unwritten, x)
      BY <1>4, <1>6, <3>1
    <3>. HIDE DEF u
    <3>3. \A j \in 1 .. Len(u) : u[j] \in ToPlaces
      BY <1>3, <2>1, <2>2
    <3>. QED  BY <1>6, <2>1, <2>2, <3>1, <3>2, <3>3 DEF UsualUpTo
  <2>. QED
    BY <2>3, UsualFine, RepositoryWellFormed DEF AllPmpPrograms, EncodingTests, ModeTests
<1>16. Fine(pmp_do_nothing)
  <2>. DEFINE u == pmp_user_simple_program
  <2>1. /\ Len(u) = 3 /\ u[1] = x /\ u[2] = stack /\ u[3] = uart
    BY <1>2
  <2>2. \A j \in 1 .. 3 : j = 1 \/ j = 2 \/ j = 3
    OBVIOUS
  <2>3. FirstUpTo(pmp_do_nothing, Unwritten, u, EcallFrom(S), 4)
    <3>1. /\ Laid(pmp_do_nothing, Unwritten, Unwritten, Unwritten, Unwritten)
          /\ Leaves(pmp_do_nothing, u, EcallFrom(S))
      BY OtherPrograms
    <3>2. /\ FirstPasses(Unwritten, x) /\ FirstPasses(Unwritten, stack)
          /\ FirstPasses(Unwritten, uart)
      BY <1>5
    <3>. HIDE DEF u
    <3>3. \A j \in 1 .. Len(u) : u[j] \in ToPlaces
      BY <1>3, <2>1, <2>2
    <3>. QED  BY <1>6, <2>1, <2>2, <3>1, <3>2, <3>3 DEF FirstUpTo
  <2>. QED
    BY <2>3, FirstFine, RepositoryWellFormed DEF AllPmpPrograms, EncodingTests, ModeTests
<1>17. Fine(pmp_tor_first_entry)
  <2>. DEFINE u == pmp_user_tor_access_ok
  <2>1. /\ Len(u) = 7 /\ u[1] = x /\ u[2] = stack /\ u[3] = read /\ u[4] = start
      /\ u[5] = uart /\ u[6] = start /\ u[7] = last
    BY <1>2
  <2>2. \A j \in 1 .. 7 : j = 1 \/ j = 2 \/ j = 3 \/ j = 4 \/ j = 5 \/ j = 6 \/ j = 7
    OBVIOUS
  <2>3. FirstUpTo(pmp_tor_first_entry, FirstRegion, u, EcallFrom(S), 8)
    <3>1. /\ Laid(pmp_tor_first_entry, FirstRegion, Unwritten, Unwritten, Unwritten)
          /\ Leaves(pmp_tor_first_entry, u, EcallFrom(S))
      BY OtherPrograms
    <3>2. /\ FirstPasses(FirstRegion, x) /\ FirstPasses(FirstRegion, stack)
          /\ FirstPasses(FirstRegion, read) /\ FirstPasses(FirstRegion, start)
          /\ FirstPasses(FirstRegion, uart) /\ FirstPasses(FirstRegion, last)
      BY <1>5
    <3>. HIDE DEF u
    <3>3. \A j \in 1 .. Len(u) : u[j] \in ToPlaces
      BY <1>3, <2>1, <2>2
    <3>. QED  BY <1>6, <2>1, <2>2, <3>1, <3>2, <3>3 DEF FirstUpTo
  <2>. QED
    BY <2>3, FirstFine, RepositoryWellFormed DEF AllPmpPrograms, EncodingTests, ModeTests
<1>18. Fine(pmp_tor_first_entry_err)
  <2>. DEFINE u == pmp_user_tor_access_err
  <2>1. /\ Len(u) = 5 /\ u[1] = x /\ u[2] = stack /\ u[3] = uart /\ u[4] = start /\ u[5] = end
    BY <1>2
  <2>2. \A j \in 1 .. 5 : j = 1 \/ j = 2 \/ j = 3 \/ j = 4 \/ j = 5
    OBVIOUS
  <2>3. FirstUpTo(pmp_tor_first_entry_err, FirstRegion, u, StoreFault, 5)
    <3>1. /\ Laid(pmp_tor_first_entry_err, FirstRegion, Unwritten, Unwritten, Unwritten)
          /\ Leaves(pmp_tor_first_entry_err, u, StoreFault)
      BY OtherPrograms
    <3>2. /\ FirstPasses(FirstRegion, x) /\ FirstPasses(FirstRegion, stack)
          /\ FirstPasses(FirstRegion, uart) /\ FirstPasses(FirstRegion, start)
          /\ ~FirstPasses(FirstRegion, end)
      BY <1>5
    <3>. HIDE DEF u
    <3>3. \A j \in 1 .. Len(u) : u[j] \in ToPlaces
      BY <1>3, <2>1, <2>2
    <3>. QED  BY <1>6, <2>1, <2>2, <3>1, <3>2, <3>3 DEF FirstUpTo
  <2>. QED
    BY <2>3, FirstFine, RepositoryWellFormed DEF AllPmpPrograms, EncodingTests, ModeTests
<1>19. Fine(pmp_mprv_s_mode) /\ Fine(pmp_mprv_m_mode)
  BY OtherPrograms, DirectFine, RepositoryWellFormed DEF AllPmpPrograms, ModeTests
<1>20. Fine(pmp_locked_bit_m_mode)
  <2>. DEFINE u == pmp_user_simple_program
  <2>1. Len(u) = 3 /\ u[1] = x /\ u[2] = stack /\ u[3] = uart
    BY <1>2
  <2>2. \A j \in 1 .. 3 : j = 1 \/ j = 2 \/ j = 3
    OBVIOUS
  <2>3. WellFormed(pmp_locked_bit_m_mode)
    BY RepositoryWellFormed DEF AllPmpPrograms, ModeTests
  <2>. HIDE DEF u
  <2>4. \A j \in 1 .. Len(u) : u[j] \in ToPlaces
    BY <1>3, <2>1, <2>2
  <2>5. /\ pmp_locked_bit_m_mode.user = u /\ u[1] = Access("X", UserRam)
        /\ Len(u) \in Nat \ {0}
    BY <1>1, <2>1, OtherPrograms DEF u
  <2>. QED  BY <2>3, <2>4, <2>5, OtherPrograms, LockedFine
<1>21. pmp_mprv_bit = pmp_everything_ok
  BY DEF pmp_mprv_bit
<1>. QED
  BY <1>8, <1>9, <1>10, <1>11, <1>12, <1>13, <1>14, <1>15, <1>16, <1>17, <1>18, <1>19, <1>20,
     <1>21 DEF AllPmpPrograms, EncodingTests, ModeTests


\* So every PMP test of the repository implements PmpGuard: where its regions bind it,
\* its first access outside them is refused and none before it; where they do not,
\* none is.
THEOREM RepositoryGuardImplemented ==
    ASSUME PmpTestPrograms \subseteq AllPmpPrograms
    PROVE  Spec => PmpGuarded
<1>1. \A p \in PmpTestPrograms : Checked(p)
  BY RepositoryFine DEF Fine
<1>. QED  BY <1>1, GuardImplemented

\* And each arrives at pass() with the trap its name promises, where the platform
\* checks what main opened.
THEOREM RepositoryNamedTraps ==
    ASSUME PmpTestPrograms \subseteq AllPmpPrograms
    PROVE  Spec => []TrapAsNamed
<1>1. \A p \in PmpTestPrograms : Checked(p) /\ TrapNamed(p)
  BY RepositoryFine DEF Fine
<1>. QED  BY <1>1, NamedTraps

=============================================================================
