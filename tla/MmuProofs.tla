------------------------------ MODULE MmuProofs ------------------------------
(***************************************************************************)
(* TLAPS proofs about MmuTests, for every set of programs of its shape,     *)
(* every platform, every size of the page table and every number of RAM     *)
(* pages up to the frame of the supervisor program: types; what the         *)
(* requests leave in the table and the accesses reach; the trap a test ends *)
(* in, as its rights and the flags SUM and MXR decide it.                   *)
(***************************************************************************)
EXTENDS MmuTests, TLAPS

Asked == [virt : Nat, pte : Ptes]

LEMMA RequestsType ==
    ASSUME NEW p \in MmuPrograms
    PROVE  /\ RequestsOf[p] \in Seq(Asked)
           /\ Len(RequestsOf[p]) \in Nat
<1>. USE RamPagesAssumption
<1>0. p.rights \subseteq Rights /\ p.user \in BOOLEAN
  BY MmuProgramsAssumption DEF MmuProgramType
<1>1. ASSUME NEW virt \in Nat, NEW phys \in Nat, NEW rights \in SUBSET Rights
      PROVE  Request(virt, phys, rights) \in Asked
  BY <1>1 DEF Request, Asked, Ptes
<1>2. ReadWriteExec \cup User \in SUBSET Rights
  BY DEF ReadWriteExec, User, Rights
<1>3. /\ RamBase \in Nat /\ SuperPage \in Nat /\ SuperFrame \in Nat
      /\ UserPage \in Nat /\ UserFrame \in Nat /\ UartPage \in Nat
  BY SMT DEF RamBase, SuperPage, SuperFrame, UserPage, UserFrame, UartPage
<1>4. RamRequests \in Seq(Asked)
  <2>1. \A j \in 1 .. RamPages : RamBase + (j - 1) \in Nat
    BY <1>3
  <2>2. \A j \in 1 .. RamPages : RamRequests[j] \in Asked
    BY <1>1, <1>2, <2>1 DEF RamRequests
  <2>3. RamPages \in Nat
    BY SMT
  <2>. QED  BY <2>2, <2>3 DEF RamRequests
<1>5. /\ <<Request(SuperPage, SuperFrame, p.rights)>> \in Seq(Asked)
      /\ <<Request(UserPage, UserFrame, ReadWriteExec \cup User)>> \in Seq(Asked)
      /\ <<Request(UartPage, UartPage, ReadWriteExec \cup User)>> \in Seq(Asked)
  BY <1>0, <1>1, <1>2, <1>3
<1>6. RequestsOf[p] = Requests(p)
  BY DEF RequestsOf
<1>7. Requests(p) \in Seq(Asked)
  BY <1>4, <1>5 DEF Requests
<1>. QED  BY <1>6, <1>7

-----------------------------------------------------------------------------
(* The page table. *)

LEMMA MapEffect ==
    ASSUME NEW t, NEW virt, NEW pte
    PROVE  LET m == Map(t, virt, pte) IN
               /\ Present(m, virt) /\ Walk(m, virt) = pte
               /\ \A v : Lo(v) # Lo(virt) /\ Present(t, v)
                         => Present(m, v) /\ Walk(m, v) = Walk(t, v)
BY DEF Map, Present, Walk

LEMMA MapType ==
    ASSUME NEW t, IsTable(t), NEW virt \in Nat, NEW pte \in Ptes
    PROVE  IsTable(Map(t, virt, pte))
<1>1. Hi(virt) \in Nat /\ Lo(virt) \in 0 .. Entries - 1
  BY EntriesAssumption DEF Hi, Lo
<1>. QED  BY <1>1 DEF Map, IsTable

-----------------------------------------------------------------------------
(* What the steps do to the table. *)

\* Every other step leaves the table and the requests made alone.
LEMMA OnlyMapVirtMaps ==
    ASSUME [Next]_vars
    PROVE  prog' = prog /\ (MapVirt \/ UNCHANGED <<mapped, table>>)
BY DEF vars, Next, MapVirt, KmainMret, RefuseAccess, MakeAccess,
       SupervisorSret, Ecall, MachineTrap

TableOK ==
    /\ prog \in MmuPrograms
    /\ mapped \in 0 .. Len(RequestsOf[prog])
    /\ IsTable(table)

LEMMA TableInit == Init => TableOK
<1>. SUFFICES ASSUME Init PROVE TableOK
  OBVIOUS
<1>1. Len(RequestsOf[prog]) \in Nat
  BY RequestsType DEF Init
<1>2. IsTable(EmptyTable)
  BY DEF IsTable, EmptyTable
<1>. QED  BY <1>1, <1>2 DEF Init, TableOK

LEMMA NextRequest ==
    ASSUME TableOK, MapVirt
    PROVE  LET r == RequestsOf[prog][mapped + 1] IN
               /\ mapped' = mapped + 1 /\ mapped' \in 1 .. Len(RequestsOf[prog])
               /\ r \in Asked /\ table' = Map(table, r.virt, r.pte)
<1>1. RequestsOf[prog] \in Seq(Asked) /\ Len(RequestsOf[prog]) \in Nat
  BY RequestsType DEF TableOK
<1>2. mapped + 1 \in 1 .. Len(RequestsOf[prog])
  BY <1>1 DEF TableOK, MapVirt
<1>. QED  BY <1>1, <1>2 DEF MapVirt

LEMMA TableStep == TableOK /\ [Next]_vars => TableOK'
<1>. SUFFICES ASSUME TableOK, [Next]_vars PROVE TableOK'
  OBVIOUS
<1>1. CASE MapVirt
  BY <1>1, NextRequest, MapType, OnlyMapVirtMaps DEF TableOK, Asked
<1>2. CASE UNCHANGED <<mapped, table>>
  BY <1>2, OnlyMapVirtMaps DEF TableOK
<1>. QED  BY <1>1, <1>2, OnlyMapVirtMaps

\* A page stays mapped as it was asked for until a later request has its index,
\* whatever pages a program asks for and however large the table is.
THEOREM LastRequestAlwaysWins == Spec => []LastRequestWins
<1>1. Init => LastRequestWins
  BY DEF Init, LastRequestWins
<1>2. TableOK /\ LastRequestWins /\ [Next]_vars => LastRequestWins'
  <2>. SUFFICES ASSUME TableOK, LastRequestWins, [Next]_vars PROVE LastRequestWins'
    OBVIOUS
  <2>1. CASE MapVirt
    <3>. DEFINE n == RequestsOf[prog][mapped + 1]
    <3>. SUFFICES ASSUME NEW j \in 1 .. mapped'
                  PROVE  LET r == RequestsOf[prog][j] IN
                         \/ Present(table', r.virt) /\ Walk(table', r.virt) = r.pte
                         \/ \E k \in (j + 1) .. mapped' :
                                Lo(RequestsOf[prog][k].virt) = Lo(r.virt)
      BY OnlyMapVirtMaps DEF LastRequestWins, Present, Walk
    <3>0. mapped \in Nat /\ mapped' = mapped + 1 /\ table' = Map(table, n.virt, n.pte)
      BY <2>1, NextRequest, RequestsType DEF TableOK
    <3>1. CASE j = mapped + 1
      BY <3>0, <3>1, MapEffect
    <3>2. CASE j # mapped + 1 /\ Lo(n.virt) = Lo(RequestsOf[prog][j].virt)
      <4>1. mapped + 1 \in (j + 1) .. mapped'
        BY <3>0, <3>2
      <4>. QED  BY <3>2, <4>1
    <3>3. CASE j # mapped + 1 /\ Lo(n.virt) # Lo(RequestsOf[prog][j].virt)
      <4>1. j \in 1 .. mapped /\ \A k \in (j + 1) .. mapped : k \in (j + 1) .. mapped'
        BY <3>0, <3>3
      <4>2. LET r == RequestsOf[prog][j] IN
            \/ Present(table, r.virt) /\ Walk(table, r.virt) = r.pte
            \/ \E k \in (j + 1) .. mapped : Lo(RequestsOf[prog][k].virt) = Lo(r.virt)
        BY <4>1 DEF LastRequestWins
      <4>. QED  BY <3>0, <3>3, <4>1, <4>2, MapEffect
    <3>. QED  BY <3>1, <3>2, <3>3
  <2>2. CASE UNCHANGED <<mapped, table>>
    BY <2>2, OnlyMapVirtMaps DEF LastRequestWins
  <2>. QED  BY <2>1, <2>2, OnlyMapVirtMaps
<1>. QED  BY <1>1, <1>2, TableInit, TableStep, PTL DEF Spec

-----------------------------------------------------------------------------
(* What the requests are, one by one. *)

Ram(j) == Request(RamBase + (j - 1), RamBase + (j - 1), ReadWriteExec \cup User)
Super(p) == Request(SuperPage, SuperFrame, p.rights)
UserProgram == Request(UserPage, UserFrame, ReadWriteExec \cup User)
Uart == Request(UartPage, UartPage, ReadWriteExec \cup User)

LEMMA Pushed ==
    ASSUME NEW X, NEW s \in Seq(X), NEW x \in X
    PROVE  /\ s \o <<x>> \in Seq(X)
           /\ Len(s \o <<x>>) = Len(s) + 1
           /\ (s \o <<x>>)[Len(s) + 1] = x
           /\ \A i \in 1 .. Len(s) : (s \o <<x>>)[i] = s[i]
OBVIOUS

LEMMA RequestAt ==
    ASSUME NEW p \in MmuPrograms
    PROVE  /\ \A j \in 1 .. RamPages : RequestsOf[p][j] = Ram(j)
           /\ RequestsOf[p][RamPages + 1] = Super(p)
           /\ p.user => /\ Len(RequestsOf[p]) = RamPages + 3
                        /\ RequestsOf[p][RamPages + 2] = UserProgram
                        /\ RequestsOf[p][RamPages + 3] = Uart
           /\ ~p.user => /\ Len(RequestsOf[p]) = RamPages + 2
                         /\ RequestsOf[p][RamPages + 2] = Uart
<1>. DEFINE Any == {Ram(j) : j \in 1 .. RamPages} \cup {Super(p), UserProgram, Uart}
<1>1. RamPages \in Nat
  BY RamPagesAssumption
<1>2. /\ RamRequests \in Seq(Any) /\ Len(RamRequests) = RamPages
      /\ \A j \in 1 .. RamPages : RamRequests[j] = Ram(j)
  <2>1. RamRequests = [j \in 1 .. RamPages |-> Ram(j)]
    BY DEF RamRequests, Ram
  <2>2. \A j \in 1 .. RamPages : Ram(j) \in Any
    OBVIOUS
  <2>. HIDE DEF Any
  <2>. QED  BY <1>1, <2>1, <2>2
<1>3. Super(p) \in Any /\ UserProgram \in Any /\ Uart \in Any
  OBVIOUS
<1>. HIDE DEF Any
<1>. DEFINE s1 == RamRequests \o <<Super(p)>>
            s2 == s1 \o <<UserProgram>>
<1>4. /\ s1 \in Seq(Any) /\ Len(s1) = RamPages + 1 /\ s1[RamPages + 1] = Super(p)
      /\ \A j \in 1 .. RamPages : s1[j] = Ram(j)
  BY <1>2, <1>3, Pushed
<1>. HIDE DEF s1
<1>5. /\ s2 \in Seq(Any) /\ Len(s2) = RamPages + 2 /\ s2[RamPages + 2] = UserProgram
      /\ s2[RamPages + 1] = Super(p) /\ \A j \in 1 .. RamPages : s2[j] = Ram(j)
  <2>1. \A j \in 1 .. RamPages + 1 : s2[j] = s1[j]
    BY <1>3, <1>4, Pushed
  <2>2. s2 \in Seq(Any) /\ Len(s2) = RamPages + 2 /\ s2[RamPages + 2] = UserProgram
    BY <1>1, <1>3, <1>4, Pushed
  <2>. HIDE DEF s2
  <2>. QED  BY <1>1, <1>4, <2>1, <2>2
<1>. HIDE DEF s2
<1>6. CASE p.user
  <2>1. RequestsOf[p] = s2 \o <<Uart>>
    BY <1>6 DEF RequestsOf, Requests, Super, UserProgram, Uart, s1, s2
  <2>2. \A j \in 1 .. RamPages + 2 : RequestsOf[p][j] = s2[j]
    BY <1>3, <1>5, <2>1, Pushed
  <2>3. Len(RequestsOf[p]) = RamPages + 3 /\ RequestsOf[p][RamPages + 3] = Uart
    BY <1>1, <1>3, <1>5, <2>1, Pushed
  <2>. QED  BY <1>1, <1>5, <1>6, <2>2, <2>3
<1>7. CASE ~p.user
  <2>1. RequestsOf[p] = s1 \o <<Uart>>
    <3>1. RequestsOf[p] = s1 \o <<>> \o <<Uart>>
      BY <1>7 DEF RequestsOf, Requests, Super, Uart, s1
    <3>2. s1 \o <<>> = s1
      BY <1>4
    <3>. QED  BY <3>1, <3>2
  <2>2. \A j \in 1 .. RamPages + 1 : RequestsOf[p][j] = s1[j]
    BY <1>3, <1>4, <2>1, Pushed
  <2>3. Len(RequestsOf[p]) = RamPages + 2 /\ RequestsOf[p][RamPages + 2] = Uart
    BY <1>1, <1>3, <1>4, <2>1, Pushed
  <2>. QED  BY <1>1, <1>4, <1>7, <2>2, <2>3
<1>. QED  BY <1>6, <1>7

LEMMA RequestCases ==
    ASSUME NEW p \in MmuPrograms, NEW j \in 1 .. Len(RequestsOf[p])
    PROVE  \/ j \in 1 .. RamPages /\ RequestsOf[p][j] = Ram(j)
           \/ j = RamPages + 1 /\ RequestsOf[p][j] = Super(p)
           \/ p.user /\ j = RamPages + 2 /\ RequestsOf[p][j] = UserProgram
           \/ j = Len(RequestsOf[p]) /\ RequestsOf[p][j] = Uart
<1>1. RamPages \in Nat
  BY RamPagesAssumption
<1>2. p.user \in BOOLEAN
  BY MmuProgramsAssumption DEF MmuProgramType
<1>3. CASE p.user
  <2>1. Len(RequestsOf[p]) = RamPages + 3
    BY <1>3, RequestAt
  <2>2. j \in 1 .. RamPages \/ j = RamPages + 1 \/ j = RamPages + 2 \/ j = RamPages + 3
    BY <1>1, <2>1
  <2>. QED  BY <1>3, <2>1, <2>2, RequestAt
<1>4. CASE ~p.user
  <2>1. Len(RequestsOf[p]) = RamPages + 2
    BY <1>4, RequestAt
  <2>2. j \in 1 .. RamPages \/ j = RamPages + 1 \/ j = RamPages + 2
    BY <1>1, <2>1
  <2>. QED  BY <2>1, <2>2, RequestAt
<1>. QED  BY <1>2, <1>3, <1>4

-----------------------------------------------------------------------------
(* The supervisor program is closed to user mode. *)

LEMMA SuperFrameIsAskedOnce ==
    ASSUME NEW p \in MmuPrograms, NEW j \in 1 .. Len(RequestsOf[p]),
           RequestsOf[p][j].pte.ppn = SuperFrame
    PROVE  RequestsOf[p][j].pte.rights = p.rights
<1>1. ASSUME NEW k \in 1 .. RamPages PROVE Ram(k).pte.ppn # SuperFrame
  BY SMT, RamPagesAssumption DEF Ram, Request, SuperFrame, RamBase
<1>2. UserProgram.pte.ppn # SuperFrame /\ Uart.pte.ppn # SuperFrame
  BY SMT DEF UserProgram, Uart, Request, SuperFrame, UserFrame, UartPage, RamBase
<1>3. Super(p).pte.rights = p.rights
  BY DEF Super, Request
<1>. QED  BY <1>1, <1>2, <1>3, RequestCases

\* No page of a user program is the frame of the supervisor program, unless the test
\* gives that page to user mode: none of the RAM pages reaches so far.
THEOREM SupervisorProgramStaysClosed == Spec => []SupervisorProgramIsClosed
<1>1. Init => SupervisorProgramIsClosed
  BY DEF Init, EmptyTable, SupervisorProgramIsClosed
<1>2. TableOK /\ SupervisorProgramIsClosed /\ [Next]_vars => SupervisorProgramIsClosed'
  <2>. SUFFICES ASSUME TableOK, SupervisorProgramIsClosed, [Next]_vars
                PROVE  SupervisorProgramIsClosed'
    OBVIOUS
  <2>1. CASE MapVirt
    <3>. DEFINE n == RequestsOf[prog][mapped + 1]
    <3>1. table' = Map(table, n.virt, n.pte) /\ prog' = prog
      BY <2>1, NextRequest, OnlyMapVirtMaps
    <3>2. n.pte.ppn = SuperFrame => n.pte.rights = prog.rights
      BY <2>1, NextRequest, SuperFrameIsAskedOnce DEF TableOK
    <3>. HIDE DEF n
    <3>. QED  BY <3>1, <3>2 DEF SupervisorProgramIsClosed, Map
  <2>2. CASE UNCHANGED <<mapped, table>>
    BY <2>2, OnlyMapVirtMaps DEF SupervisorProgramIsClosed
  <2>. QED  BY <2>1, <2>2, OnlyMapVirtMaps
<1>. QED  BY <1>1, <1>2, TableInit, TableStep, PTL DEF Spec

-----------------------------------------------------------------------------
(* Type correctness. *)

LEMMA TrapType ==
    ASSUME NEW h \in Harts, NEW cause \in Causes
    PROVE  Trap(h, cause) \in Harts /\ Trap(h, cause).pc = "machine_trap"
<1>1. EnterM(h, cause) \in Harts /\ EnterM(h, cause).pc = "machine_trap"
  BY DEF Harts, EnterM, CopyFlag, Flags, Modes, U, S, M, Pcs
<1>2. EnterS(h, cause) \in Harts /\ EnterS(h, cause).pc = "machine_trap"
  BY DEF Harts, EnterS, CopyFlag, Flags, Modes, U, S, M, Pcs
<1>. QED  BY <1>1, <1>2 DEF Trap

LEMMA MretType ==
    ASSUME NEW h \in Harts
    PROVE  Mret(h) \in Harts /\ Mret(h).pc = h.mepc
BY DEF Harts, Mret, CopyFlag, Flags, Modes, U, S, M

LEMMA SretType ==
    ASSUME NEW h \in Harts
    PROVE  Sret(h) \in Harts /\ Sret(h).pc = h.sepc
BY DEF Harts, Sret, CopyFlag, Flags, Modes, U, S, M

LEMMA CauseTypes ==
    /\ \A prv \in Modes : EcallFrom(prv) \in Causes
    /\ IllegalInstruction \in Causes
    /\ \A n \in Codes : Exception(n) \in Causes
BY DEF IllegalInstruction, EcallFrom, Exception, Causes, Codes, Modes, U, S, M

LEMMA AccessesType ==
    \A i \in 1 .. Len(Accesses) :
        /\ Accesses[i].access \in {"X", "R", "W"}
        /\ Accesses[i].page \in {StackPage, UartPage, SuperPage}
BY DEF Accesses, Access

LEMMA FaultsType ==
    ASSUME NEW page, NEW access \in {"X", "R", "W"}, platform \in MmuPlatforms,
           satp \in BOOLEAN
    PROVE  Faults(page, access) \subseteq Causes
<1>1. platform.pmp \in {"absent", "strict", "qemu6"}
  BY MmuPlatformsAssumption DEF MmuPlatformType
<1>2. PageFault(access) \in Causes /\ AccessFault(access) \in Causes
  BY CauseTypes DEF PageFault, AccessFault, Codes
<1>. QED  BY <1>2, CauseTypes DEF Faults

\* The hart and step: what the type invariant says beside the table.
HartOK == platform \in MmuPlatforms /\ hart \in Harts /\ satp \in BOOLEAN /\ step \in Nat \ {0}

LEMMA HartInit == Init => HartOK
<1>1. ResetHart \in Harts
  <2>1. Exception(0) \in Causes
    BY DEF Exception, Causes, Codes
  <2>2. "kmain" \in Pcs /\ U \in Modes /\ M \in Modes
    BY DEF Pcs, Modes, U, M
  <2>. QED  BY <2>1, <2>2 DEF ResetHart, Harts
<1>2. Init => hart \in Harts
  BY <1>1, Zenon DEF Init
<1>3. Init => satp \in BOOLEAN
  BY Zenon DEF Init
<1>4. Init => step \in Nat \ {0}
  BY SMT DEF Init
<1>5. Init => platform \in MmuPlatforms
  BY Zenon DEF Init
<1>. QED  BY <1>2, <1>3, <1>4, <1>5, Zenon DEF HartOK

LEMMA MretPrepared ==
    ASSUME TableOK, HartOK, KmainMret
    PROVE  hart' \in Harts /\ hart'.pc \in {"supervisor", "machine_trap"}
<1>. DEFINE h == [hart EXCEPT !.on = prog.on, !.mpp = S, !.mepc = "supervisor"]
<1>1. prog.on \in SUBSET Flags
  BY MmuProgramsAssumption DEF TableOK, MmuProgramType
<1>2. h \in Harts /\ h.mepc = "supervisor"
  BY <1>1 DEF HartOK, Harts, Modes, Pcs, S
<1>3. hart' = Trap(h, IllegalInstruction) \/ hart' = Mret(h)
  BY DEF KmainMret, DoMret
<1>. HIDE DEF h
<1>. QED  BY <1>2, <1>3, TrapType, MretType, CauseTypes

LEMMA SretPrepared ==
    ASSUME HartOK, SupervisorSret
    PROVE  hart' \in Harts /\ hart'.pc = "user"
<1>. DEFINE h == [WriteSstatus(hart, {"SUM"}) EXCEPT !.sepc = "user"]
<1>1. WriteSstatus(hart, {"SUM"}) \in Harts
  BY DEF HartOK, WriteSstatus, Harts, Flags, SFlags
<1>2. h \in Harts /\ h.sepc = "user"
  BY <1>1 DEF Harts, Pcs
<1>3. hart' = Sret(h)
  BY DEF SupervisorSret
<1>. HIDE DEF h
<1>. QED  BY <1>2, <1>3, SretType

LEMMA TrapStep ==
    ASSUME HartOK, RefuseAccess \/ Ecall
    PROVE  hart' \in Harts /\ hart'.pc = "machine_trap"
<1>1. CASE RefuseAccess
  <2>1. CASE Faults(CodePage, "X") # {}
    <3>1. NextAccess = [access |-> "X", page |-> CodePage]
      BY <2>1 DEF NextAccess, Access
    <3>2. Faults(NextAccess.page, NextAccess.access) \subseteq Causes
      BY <3>1, FaultsType DEF HartOK
    <3>. QED  BY <1>1, <3>2, TrapType DEF RefuseAccess, HartOK
  <2>2. CASE Faults(CodePage, "X") = {}
    <3>1. step \in 1 .. Len(Accesses)
      BY <1>1 DEF RefuseAccess, HartOK, Accesses
    <3>2. NextAccess = Accesses[step]
      BY <2>2 DEF NextAccess
    <3>3. Faults(NextAccess.page, NextAccess.access) \subseteq Causes
      BY <3>1, <3>2, AccessesType, FaultsType DEF HartOK
    <3>. QED  BY <1>1, <3>3, TrapType DEF RefuseAccess, HartOK
  <2>. QED  BY <2>1, <2>2
<1>2. CASE Ecall
  <2>1. EcallFrom(hart.prv) \in Causes
    BY CauseTypes DEF HartOK, Harts
  <2>. QED  BY <1>2, <2>1, TrapType DEF Ecall, HartOK
<1>. QED  BY <1>1, <1>2

LEMMA HartStep == TableOK /\ HartOK /\ [Next]_vars => HartOK'
<1>. SUFFICES ASSUME TableOK, HartOK, [Next]_vars PROVE HartOK'
  OBVIOUS
<1>1. CASE MapVirt
  BY <1>1 DEF MapVirt, HartOK
<1>2. CASE KmainMret
  BY <1>2, MretPrepared DEF KmainMret, HartOK
<1>3. CASE RefuseAccess \/ Ecall
  BY <1>3, TrapStep DEF RefuseAccess, Ecall, HartOK
<1>4. CASE MakeAccess
  BY <1>4 DEF MakeAccess, HartOK
<1>5. CASE SupervisorSret
  BY <1>5, SretPrepared DEF SupervisorSret, HartOK
<1>6. CASE MachineTrap
  BY <1>6 DEF MachineTrap, HartOK, Harts, Pcs
<1>7. CASE UNCHANGED vars
  BY <1>7 DEF vars, HartOK
<1>. QED  BY <1>1, <1>2, <1>3, <1>4, <1>5, <1>6, <1>7 DEF Next

-----------------------------------------------------------------------------
(* What is accessed below machine mode is what kmain meant, with the real    *)
(* table of 1024 entries.                                                    *)

\* Below machine mode the table is complete, and user mode has its program.
Complete ==
    /\ hart.pc # "kmain" => mapped = Len(RequestsOf[prog])
    /\ hart.pc = "user" => prog.user

LEMMA CompleteInit == Init => Complete
BY DEF Init, ResetHart, Complete

LEMMA CompleteStep == TableOK /\ HartOK /\ Complete /\ [Next]_vars => Complete'
<1>. SUFFICES ASSUME TableOK, HartOK, Complete, [Next]_vars PROVE Complete'
  OBVIOUS
<1>0. prog' = prog
  BY OnlyMapVirtMaps
<1>1. CASE MapVirt
  BY <1>1 DEF MapVirt, Complete
<1>2. CASE KmainMret
  BY <1>0, <1>2, MretPrepared DEF KmainMret, Complete
<1>3. CASE RefuseAccess \/ Ecall
  BY <1>0, <1>3, TrapStep DEF RefuseAccess, Ecall, Running, Complete
<1>4. CASE MakeAccess
  BY <1>0, <1>4 DEF MakeAccess, Complete
<1>5. CASE SupervisorSret
  BY <1>0, <1>5, SretPrepared DEF SupervisorSret, Complete
<1>6. CASE MachineTrap
  BY <1>0, <1>6 DEF MachineTrap, HartOK, Harts, Complete
<1>7. CASE UNCHANGED vars
  BY <1>7 DEF vars, Complete
<1>. QED  BY <1>1, <1>2, <1>3, <1>4, <1>5, <1>6, <1>7 DEF Next

\* The indices of the pages that are accessed.
LEMMA Indices ==
    ASSUME Entries = 1024
    PROVE  /\ Lo(SuperPage) = 2 /\ Lo(UserPage) = 12 /\ Lo(UartPage) = 0
           /\ \A j \in 1 .. RamPages : Lo(RamBase + (j - 1)) = j - 1
<1>1. /\ Lo(SuperPage) = 2 /\ Lo(UserPage) = 12 /\ Lo(UartPage) = 0
  BY SMT DEF Lo, SuperPage, UserPage, UartPage
<1>2. \A j \in 1 .. RamPages : Lo(RamBase + (j - 1)) = j - 1
  BY SMTT(30), RamPagesAssumption DEF Lo, RamBase
<1>. QED  BY <1>1, <1>2

\* The table has the entry a request asked for.
Holds(r) == Present(table, r.virt) /\ Walk(table, r.virt) = r.pte

LEMMA CompleteTable ==
    ASSUME Entries = 1024, TableOK, LastRequestWins, mapped = Len(RequestsOf[prog])
    PROVE  /\ Holds(Super(prog)) /\ Holds(Uart) /\ Holds(Ram(8))
           /\ prog.user => Holds(UserProgram)
<1>. DEFINE R == RequestsOf[prog]
<1>. USE RamPagesAssumption
<1>0. prog \in MmuPrograms /\ prog.user \in BOOLEAN
  BY MmuProgramsAssumption DEF TableOK, MmuProgramType
<1>1. mapped = IF prog.user THEN RamPages + 3 ELSE RamPages + 2
  BY <1>0, RequestAt
<1>2. \A k \in 1 .. mapped :
          \/ k \in 1 .. RamPages /\ R[k] = Ram(k)
          \/ k = RamPages + 1 /\ R[k] = Super(prog)
          \/ prog.user /\ k = RamPages + 2 /\ R[k] = UserProgram
          \/ k = mapped /\ R[k] = Uart
  BY <1>0, RequestCases
<1>3. \A k \in 1 .. mapped : Lo(R[k].virt) \in {0, 2, 12} \/ Lo(R[k].virt) = k - 1
  <2>1. /\ Super(prog).virt = SuperPage /\ UserProgram.virt = UserPage
        /\ Uart.virt = UartPage /\ \A k \in 1 .. RamPages : Ram(k).virt = RamBase + (k - 1)
    BY DEF Ram, Super, UserProgram, Uart, Request
  <2>. HIDE DEF R
  <2>. SUFFICES ASSUME NEW k \in 1 .. mapped
                PROVE  Lo(R[k].virt) \in {0, 2, 12} \/ Lo(R[k].virt) = k - 1
    OBVIOUS
  <2>2. CASE k \in 1 .. RamPages /\ R[k] = Ram(k)
    BY <2>1, <2>2, Indices
  <2>3. CASE R[k] \in {Super(prog), UserProgram, Uart}
    BY <2>1, <2>3, Indices
  <2>. QED  BY <1>2, <2>2, <2>3
<1>. HIDE DEF R
<1>4. ASSUME NEW j \in 1 .. mapped, \A k \in (j + 1) .. mapped : Lo(R[k].virt) # Lo(R[j].virt)
      PROVE  Holds(R[j])
  BY <1>4 DEF LastRequestWins, Holds, R
<1>5. Holds(Super(prog))
  <2>1. RamPages + 1 \in 1 .. mapped /\ R[RamPages + 1] = Super(prog)
    BY <1>0, <1>1, RequestAt DEF R
  <2>2. Super(prog).virt = SuperPage
    BY DEF Super, Request
  <2>3. \A k \in (RamPages + 2) .. mapped : Lo(R[k].virt) \in {0, 12}
    BY <1>1, <1>2, Indices DEF UserProgram, Uart, Request
  <2>4. \A k \in ((RamPages + 1) + 1) .. mapped : Lo(R[k].virt) # Lo(SuperPage)
    BY <2>3, Indices
  <2>. QED  BY <1>4, <2>1, <2>2, <2>4
<1>6. Holds(Uart)
  <2>1. mapped \in 1 .. mapped /\ R[mapped] = Uart
    BY <1>0, <1>1, RequestAt DEF R
  <2>2. \A k \in (mapped + 1) .. mapped : Lo(R[k].virt) # Lo(R[mapped].virt)
    BY <1>1
  <2>. QED  BY <1>4, <2>1, <2>2
<1>7. Holds(Ram(8))
  <2>1. 8 \in 1 .. mapped /\ R[8] = Ram(8)
    BY <1>0, <1>1, RequestAt DEF R
  <2>2. Ram(8).virt = StackPage
    BY SMT DEF Ram, Request, StackPage
  <2>3. Lo(StackPage) = 7
    BY SMT DEF Lo, StackPage, RamBase
  <2>4. \A k \in (8 + 1) .. mapped : Lo(R[k].virt) # 7
    BY <1>1, <1>3
  <2>. QED  BY <1>4, <2>1, <2>2, <2>3, <2>4
<1>8. ASSUME prog.user PROVE Holds(UserProgram)
  <2>1. RamPages + 2 \in 1 .. mapped /\ R[RamPages + 2] = UserProgram
    BY <1>0, <1>1, <1>8, RequestAt DEF R
  <2>2. UserProgram.virt = UserPage
    BY DEF UserProgram, Request
  <2>3. \A k \in ((RamPages + 2) + 1) .. mapped : Lo(R[k].virt) = 0
    BY <1>1, <1>2, <1>8, Indices DEF Uart, Request
  <2>. QED  BY <1>4, <2>1, <2>2, <2>3, Indices
<1>. QED  BY <1>5, <1>6, <1>7, <1>8

LEMMA CompleteFrames ==
    ASSUME Entries = 1024, TableOK, LastRequestWins, mapped = Len(RequestsOf[prog])
    PROVE  /\ Walk(table, SuperPage).ppn = SuperFrame
           /\ Walk(table, UartPage).ppn = UartPage
           /\ Walk(table, StackPage).ppn = StackPage
           /\ prog.user => Walk(table, UserPage).ppn = UserFrame
<1>1. Ram(8).virt = StackPage /\ Ram(8).pte.ppn = StackPage
  BY SMT DEF Ram, Request, StackPage
<1>. QED  BY <1>1, CompleteTable DEF Holds, Super, UserProgram, Uart, Request

LEMMA MeantPages ==
    /\ Meant(SuperPage) = SuperFrame /\ Meant(UserPage) = UserFrame
    /\ Meant(UartPage) = UartPage /\ Meant(StackPage) = StackPage
BY SMT DEF Meant, SuperPage, SuperFrame, UserPage, UserFrame, UartPage, StackPage, RamBase

LEMMA AccessMeant ==
    ASSUME Entries = 1024, TableOK, HartOK, LastRequestWins, Complete,
           AccessesReachWhatIsMeant, MakeAccess
    PROVE  AccessesReachWhatIsMeant'
<1>1. hart.pc \in {"supervisor", "user"} /\ mapped = Len(RequestsOf[prog])
  BY DEF MakeAccess, Running, Complete
<1>2. Walk(table, CodePage).ppn = Meant(CodePage)
  BY <1>1, CompleteFrames, MeantPages DEF CodePage, Complete
<1>3. step \in 1 .. Len(Accesses)
  BY DEF MakeAccess, HartOK, Accesses
<1>4. Walk(table, Accesses[step].page).ppn = Meant(Accesses[step].page)
  BY <1>1, <1>3, AccessesType, CompleteFrames, MeantPages
<1>. QED  BY <1>2, <1>4 DEF MakeAccess, AccessesReachWhatIsMeant

\* Below machine mode every access of every such program reaches the memory kmain
\* meant, on every platform: the shared second-level array does no harm to them.
THEOREM AccessesAlwaysReachWhatIsMeant ==
    ASSUME Entries = 1024
    PROVE  Spec => []AccessesReachWhatIsMeant
<1>1. Init => AccessesReachWhatIsMeant
  BY DEF Init, AccessesReachWhatIsMeant
<1>2. /\ TableOK /\ HartOK /\ LastRequestWins /\ Complete
      /\ AccessesReachWhatIsMeant /\ [Next]_vars
      => AccessesReachWhatIsMeant'
  <2>. SUFFICES ASSUME TableOK, HartOK, LastRequestWins, Complete,
                       AccessesReachWhatIsMeant, [Next]_vars
                PROVE  AccessesReachWhatIsMeant'
    OBVIOUS
  <2>1. CASE MakeAccess
    BY <2>1, AccessMeant
  <2>2. CASE reached' = reached
    BY <2>2 DEF AccessesReachWhatIsMeant
  <2>. QED  BY <2>1, <2>2 DEF vars, Next, MapVirt, KmainMret, RefuseAccess,
                              SupervisorSret, Ecall, MachineTrap
<1>. QED
  BY <1>1, <1>2, TableInit, TableStep, HartInit, HartStep, CompleteInit, CompleteStep,
     LastRequestAlwaysWins, PTL DEF Spec

LEMMA AccessedIsPresent ==
    ASSUME TableOK, HartOK, NEW page, NEW access \in {"X", "R", "W"},
           Faults(page, access) = {}
    PROVE  Walk(table, page).ppn \in Nat
<1>1. platform.pmp = "absent"
  BY DEF Faults
<1>2. Present(table, page)
  BY <1>1 DEF Faults, Allowed, HartOK
<1>. QED  BY <1>2 DEF Present, Walk, TableOK, IsTable, Ptes

\* Every variable keeps its type.
THEOREM TypeCorrect == Spec => []TypeOK
<1>. DEFINE ReachedOK == \A a \in reached : a \in [page : Nat, frame : Nat]
<1>1. Init => ReachedOK
  BY DEF Init
<1>2. TableOK /\ HartOK /\ ReachedOK /\ [Next]_vars => ReachedOK'
  <2>. SUFFICES ASSUME TableOK, HartOK, ReachedOK, [Next]_vars PROVE ReachedOK'
    OBVIOUS
  <2>1. CASE MakeAccess
    <3>1. step \in 1 .. Len(Accesses)
      BY <2>1 DEF MakeAccess, HartOK, Accesses
    <3>2. /\ Walk(table, CodePage).ppn \in Nat
          /\ Walk(table, Accesses[step].page).ppn \in Nat
      BY <2>1, <3>1, AccessesType, AccessedIsPresent DEF MakeAccess, Running
    <3>3. CodePage \in Nat /\ Accesses[step].page \in Nat
      BY <3>1, AccessesType, SMT
         DEF CodePage, SuperPage, UserPage, UartPage, StackPage, RamBase
    <3>. QED  BY <2>1, <3>2, <3>3 DEF MakeAccess
  <2>2. CASE reached' = reached
    BY <2>2
  <2>. QED  BY <2>1, <2>2 DEF vars, Next, MapVirt, KmainMret, RefuseAccess,
                              SupervisorSret, Ecall, MachineTrap
<1>3. TableOK /\ HartOK /\ ReachedOK => TypeOK
  BY DEF TableOK, HartOK, TypeOK
<1>. QED  BY <1>1, <1>2, <1>3, TableInit, TableStep, HartInit, HartStep, PTL DEF Spec


-----------------------------------------------------------------------------
(* The trap a test ends with, on a platform with Sv32, no PMP and A and D     *)
(* bits set by the hart, follows from the rights of the supervisor program's  *)
(* page and the flags of mstatus.                                            *)

\* Supervisor mode fetches from a page with X and without U, writes to the stack of
\* kmain, which user mode may use, with SUM only, and reads its own code with R or MXR.
Fetches(p) == "X" \in p.rights /\ "U" \notin p.rights
Writes(p) == "SUM" \in p.on
Reads(p) == p.user \/ "R" \in p.rights \/ "MXR" \in p.on

Outcome(p) ==
    IF ~Fetches(p) THEN PageFault("X")
    ELSE IF ~Writes(p) THEN PageFault("W")
    ELSE IF ~Reads(p) THEN PageFault("R")
    ELSE IF p.user THEN EcallFrom(U) ELSE EcallFrom(S)

\* Nothing is delegated; supervisor mode runs its program with the flags kmain wrote,
\* user mode one whose supervisor program got through; the first write decides; and a
\* trap has come for the right reason.
NamedInv ==
    /\ hart.medeleg = {} /\ hart.mideleg = {}
    /\ hart.pc = "kmain" => step = 1
    /\ hart.pc \in {"supervisor", "user"} => satp = (platform.xlen = 32)
    /\ hart.pc = "supervisor" => /\ hart.prv = S
                                 /\ "SUM" \in hart.on <=> "SUM" \in prog.on
                                 /\ "MXR" \in hart.on <=> "MXR" \in prog.on
                                 /\ Ideal /\ ~Writes(prog) => step = 1
                                 /\ Ideal /\ step > 3 => Reads(prog)
    /\ hart.pc = "user" => /\ hart.prv = U
                           /\ Ideal => prog.user /\ Fetches(prog) /\ Writes(prog)
    /\ hart.pc \in {"machine_trap", "spin"} /\ Ideal => hart.mcause = Outcome(prog)

\* What a supervisor or user program may do there.
LEMMA IdealFaults ==
    ASSUME Ideal, satp,
           NEW page, NEW access \in {"X", "R", "W"}
    PROVE  Faults(page, access) =
              IF /\ Present(table, page)
                 /\ Permitted(Walk(table, page), access, hart.prv = U, hart.on)
              THEN {} ELSE {PageFault(access)}
BY DEF Ideal, Faults, Allowed

LEMMA IdealAccesses ==
    ASSUME Entries = 1024,
           TableOK, HartOK, LastRequestWins, Complete, NamedInv, Ideal,
           hart.pc \in {"supervisor", "user"}
    PROVE  /\ hart.pc = "supervisor" =>
                 /\ Faults(CodePage, "X") = IF Fetches(prog) THEN {} ELSE {PageFault("X")}
                 /\ \A page \in {StackPage, UartPage} :
                       Faults(page, "W") = IF Writes(prog) THEN {} ELSE {PageFault("W")}
                 /\ Fetches(prog) /\ ~prog.user =>
                       Faults(SuperPage, "R") = IF Reads(prog) THEN {} ELSE {PageFault("R")}
           /\ hart.pc = "user" =>
                 /\ Faults(CodePage, "X") = {}
                 /\ Faults(StackPage, "W") = {} /\ Faults(UartPage, "W") = {}
<1>1. satp
  BY DEF NamedInv, Ideal
<1>2. /\ Holds(Super(prog)) /\ Holds(Uart) /\ Holds(Ram(8))
      /\ prog.user => Holds(UserProgram)
  BY CompleteTable DEF Complete
<1>3. /\ Super(prog).virt = SuperPage /\ Super(prog).pte.rights = prog.rights
      /\ Uart.virt = UartPage /\ Uart.pte.rights = ReadWriteExec \cup User
      /\ Ram(8).virt = StackPage /\ Ram(8).pte.rights = ReadWriteExec \cup User
      /\ UserProgram.virt = UserPage /\ UserProgram.pte.rights = ReadWriteExec \cup User
  BY SMT DEF Super, Uart, Ram, UserProgram, Request, StackPage
<1>4. /\ Present(table, SuperPage) /\ Walk(table, SuperPage).rights = prog.rights
      /\ Present(table, UartPage) /\ Walk(table, UartPage).rights = ReadWriteExec \cup User
      /\ Present(table, StackPage) /\ Walk(table, StackPage).rights = ReadWriteExec \cup User
      /\ prog.user => /\ Present(table, UserPage)
                      /\ Walk(table, UserPage).rights = ReadWriteExec \cup User
  BY <1>2, <1>3 DEF Holds
<1>5. "X" \in ReadWriteExec /\ "W" \in ReadWriteExec /\ "U" \in User
  BY DEF ReadWriteExec, User
<1>6. CASE hart.pc = "supervisor"
  <2>1. (hart.prv = U) = FALSE /\ CodePage = SuperPage
    BY <1>6 DEF NamedInv, S, U, CodePage
  <2>2. Permitted(Walk(table, SuperPage), "X", FALSE, hart.on) <=> Fetches(prog)
    BY <1>4 DEF Permitted, Fetches
  <2>3. \A page \in {StackPage, UartPage} :
           /\ Present(table, page)
           /\ Permitted(Walk(table, page), "W", FALSE, hart.on) <=> Writes(prog)
    BY <1>4, <1>5, <1>6 DEF Permitted, Writes, NamedInv
  <2>4. Fetches(prog) /\ ~prog.user =>
           (Permitted(Walk(table, SuperPage), "R", FALSE, hart.on) <=> Reads(prog))
    BY <1>4, <1>6 DEF Permitted, Fetches, Reads, NamedInv
  <2>5. Faults(CodePage, "X") = IF Fetches(prog) THEN {} ELSE {PageFault("X")}
    BY <1>1, <1>4, <2>1, <2>2, IdealFaults
  <2>6. \A page \in {StackPage, UartPage} :
           Faults(page, "W") = IF Writes(prog) THEN {} ELSE {PageFault("W")}
    BY <1>1, <2>1, <2>3, IdealFaults
  <2>7. Fetches(prog) /\ ~prog.user =>
           Faults(SuperPage, "R") = IF Reads(prog) THEN {} ELSE {PageFault("R")}
    BY <1>1, <1>4, <2>1, <2>4, IdealFaults
  <2>. QED  BY <1>6, <2>5, <2>6, <2>7
<1>7. CASE hart.pc = "user"
  <2>1. (hart.prv = U) = TRUE /\ CodePage = UserPage /\ prog.user
    BY <1>7 DEF NamedInv, CodePage
  <2>2. /\ Permitted(Walk(table, UserPage), "X", TRUE, hart.on)
        /\ Permitted(Walk(table, StackPage), "W", TRUE, hart.on)
        /\ Permitted(Walk(table, UartPage), "W", TRUE, hart.on)
    BY <1>4, <1>5, <2>1 DEF Permitted
  <2>3. /\ Faults(CodePage, "X") = {}
        /\ Faults(StackPage, "W") = {} /\ Faults(UartPage, "W") = {}
    BY <1>1, <1>4, <2>1, <2>2, IdealFaults
  <2>. QED  BY <1>7, <2>3
<1>. QED  BY <1>6, <1>7

\* Which access is made at which step.
LEMMA AccessAt ==
    /\ Len(Accesses) \in {2, 4}
    /\ Accesses[1] = Access("W", StackPage) /\ Accesses[2] = Access("W", UartPage)
    /\ Len(Accesses) = 4 =>
          /\ hart.pc = "supervisor" /\ ~prog.user
          /\ Accesses[3] = Access("R", SuperPage) /\ Accesses[4] = Access("W", UartPage)
    /\ Len(Accesses) = 2 => hart.pc # "supervisor" \/ prog.user
<1>1. CASE hart.pc = "supervisor" /\ ~prog.user
  BY <1>1 DEF Accesses
<1>2. CASE ~(hart.pc = "supervisor" /\ ~prog.user)
  BY <1>2 DEF Accesses
<1>. QED  BY <1>1, <1>2

LEMMA TrapNotDelegated ==
    ASSUME NEW h \in Harts, h.medeleg = {}, h.mideleg = {}, NEW cause
    PROVE  /\ Trap(h, cause).mcause = cause /\ Trap(h, cause).pc = "machine_trap"
           /\ Trap(h, cause).medeleg = {} /\ Trap(h, cause).mideleg = {}
BY DEF Harts, Trap, Delegated, EnterM

LEMMA RefusedForItsReason ==
    ASSUME Entries = 1024, TableOK, HartOK, LastRequestWins, Complete, NamedInv, Ideal,
           RefuseAccess, NEW cause \in Faults(NextAccess.page, NextAccess.access)
    PROVE  cause = Outcome(prog)
<1>1. hart.pc \in {"supervisor", "user"} /\ step \in 1 .. Len(Accesses)
  BY AccessAt DEF RefuseAccess, HartOK
<1>2. step \in {1, 2} \/ (Len(Accesses) = 4 /\ step \in {3, 4})
  <2>1. Len(Accesses) = 2 \/ Len(Accesses) = 4
    BY AccessAt
  <2>2. \A n : step \in 1 .. n /\ n = 2 => step \in {1, 2}
    OBVIOUS
  <2>3. \A n : step \in 1 .. n /\ n = 4 => step \in {1, 2, 3, 4}
    OBVIOUS
  <2>. QED  BY <1>1, <2>1, <2>2, <2>3
<1>3. CASE hart.pc = "supervisor" /\ ~Fetches(prog)
  <2>1. Faults(CodePage, "X") = {PageFault("X")}
    BY <1>3, IdealAccesses
  <2>. QED  BY <1>3, <2>1 DEF NextAccess, Access, Outcome
<1>4. CASE hart.pc = "supervisor" /\ Fetches(prog)
  <2>1. Faults(CodePage, "X") = {} /\ NextAccess = Accesses[step]
    BY <1>4, IdealAccesses DEF NextAccess
  <2>2. /\ Faults(StackPage, "W") = IF Writes(prog) THEN {} ELSE {PageFault("W")}
        /\ Faults(UartPage, "W") = IF Writes(prog) THEN {} ELSE {PageFault("W")}
        /\ ~prog.user =>
              Faults(SuperPage, "R") = IF Reads(prog) THEN {} ELSE {PageFault("R")}
    BY <1>4, IdealAccesses
  <2>3. ~Writes(prog) => step = 1
    BY <1>4 DEF NamedInv
  <2>4. CASE step \in {1, 2, 4}
    <3>1. NextAccess.access = "W" /\ NextAccess.page \in {StackPage, UartPage}
      BY <1>2, <2>1, <2>4, AccessAt DEF Access
    <3>. QED  BY <1>4, <2>2, <3>1 DEF Outcome
  <2>5. CASE step = 3
    <3>1. NextAccess.access = "R" /\ NextAccess.page = SuperPage /\ ~prog.user
      BY <1>2, <2>1, <2>5, AccessAt DEF Access
    <3>. QED  BY <1>4, <2>2, <2>3, <2>5, <3>1 DEF Outcome
  <2>. QED  BY <1>2, <2>4, <2>5
<1>5. CASE hart.pc = "user"
  <2>1. Faults(CodePage, "X") = {} /\ NextAccess = Accesses[step]
    BY <1>5, IdealAccesses DEF NextAccess
  <2>2. NextAccess.access = "W" /\ NextAccess.page \in {StackPage, UartPage}
    BY <1>2, <1>5, <2>1, AccessAt DEF Access
  <2>3. Faults(NextAccess.page, NextAccess.access) = {}
    BY <1>5, <2>2, IdealAccesses
  <2>. QED  BY <2>3
<1>. QED  BY <1>1, <1>3, <1>4, <1>5

LEMMA MadeInOrder ==
    ASSUME Entries = 1024, TableOK, HartOK, LastRequestWins, Complete, NamedInv, Ideal,
           MakeAccess, hart.pc = "supervisor"
    PROVE  Writes(prog) /\ (step' > 3 => Reads(prog))
<1>1. step \in 1 .. Len(Accesses) /\ step' = step + 1
  BY AccessAt DEF MakeAccess, HartOK
<1>2. step \in {1, 2} \/ (Len(Accesses) = 4 /\ step \in {3, 4})
  <2>1. Len(Accesses) = 2 \/ Len(Accesses) = 4
    BY AccessAt
  <2>2. \A n : step \in 1 .. n /\ n = 2 => step \in {1, 2}
    OBVIOUS
  <2>3. \A n : step \in 1 .. n /\ n = 4 => step \in {1, 2, 3, 4}
    OBVIOUS
  <2>. QED  BY <1>1, <2>1, <2>2, <2>3
<1>3. /\ Faults(CodePage, "X") = {}
      /\ Faults(Accesses[step].page, Accesses[step].access) = {}
  BY DEF MakeAccess, Running
<1>4. Fetches(prog)
  BY <1>3, IdealAccesses
<1>5. Writes(prog)
  <2>1. ~Writes(prog) => step = 1
    BY DEF NamedInv
  <2>2. step = 1 => Faults(StackPage, "W") = {}
    BY <1>3, AccessAt DEF Access
  <2>3. Faults(StackPage, "W") = {} => Writes(prog)
    BY IdealAccesses
  <2>. QED  BY <2>1, <2>2, <2>3
<1>6. ASSUME step' > 3 PROVE Reads(prog)
  <2>1. step \in {3, 4} /\ ~prog.user
    BY <1>1, <1>2, <1>6, AccessAt
  <2>2. CASE step = 3
    <3>1. Faults(SuperPage, "R") = {}
      BY <1>2, <1>3, <2>2, AccessAt DEF Access
    <3>. QED  BY <1>4, <2>1, <3>1, IdealAccesses
  <2>3. CASE step = 4
    BY <2>3 DEF NamedInv
  <2>. QED  BY <2>1, <2>2, <2>3
<1>. QED  BY <1>5, <1>6

LEMMA ThroughSupervisor ==
    ASSUME Entries = 1024, TableOK, HartOK, LastRequestWins, Complete, NamedInv, Ideal,
           Running, hart.pc = "supervisor", step > Len(Accesses)
    PROVE  Fetches(prog) /\ Writes(prog) /\ Reads(prog)
<1>1. Fetches(prog)
  BY IdealAccesses DEF Running
<1>2. Writes(prog)
  BY AccessAt DEF NamedInv
<1>3. Reads(prog)
  <2>1. CASE prog.user
    BY <2>1 DEF Reads
  <2>2. CASE ~prog.user
    <3>1. step > 3
      BY <2>2, AccessAt DEF HartOK
    <3>. QED  BY <3>1 DEF NamedInv
  <2>. QED  BY <2>1, <2>2
<1>. QED  BY <1>1, <1>2, <1>3

\* mstatus gets no flag that would bind the accesses otherwise (MPRV).
OnlySumMxr(p) == p.on \subseteq {"SUM", "MXR"}

LEMMA NamedStep ==
    ASSUME \A p \in MmuPrograms : OnlySumMxr(p), Entries = 1024,
           TableOK, HartOK, LastRequestWins, Complete, NamedInv, [Next]_vars
    PROVE  NamedInv'
<1>0. prog' = prog /\ platform' = platform /\ prog \in MmuPrograms
  BY DEF TableOK, vars, Next, MapVirt, KmainMret, RefuseAccess, MakeAccess,
         SupervisorSret, Ecall, MachineTrap
<1>. USE DEF HartOK
<1>1. CASE MapVirt
  BY <1>0, <1>1 DEF MapVirt, NamedInv, Ideal
<1>2. CASE KmainMret
  <2>. DEFINE h == [hart EXCEPT !.on = prog.on, !.mpp = S, !.mepc = "supervisor"]
  <2>1. prog.on \in SUBSET Flags /\ "MPIE" \notin prog.on
    BY <1>0, MmuProgramsAssumption DEF MmuProgramType, OnlySumMxr
  <2>2. /\ h \in Harts /\ h.mepc = "supervisor" /\ h.on = prog.on /\ h.mpp = S
        /\ h.medeleg = {} /\ h.mideleg = {}
    BY <2>1 DEF Harts, Modes, Pcs, S, NamedInv
  <2>3. hart' = DoMret(h) /\ satp' = (platform.xlen = 32) /\ step' = 1
    BY <1>2 DEF KmainMret, NamedInv
  <2>. HIDE DEF h
  <2>4. CASE hart' = Mret(h)
    <3>1. /\ Mret(h).pc = "supervisor" /\ Mret(h).prv = S
          /\ Mret(h).on = CopyFlag(h.on, "MPIE", "MIE") \cup {"MPIE"}
          /\ Mret(h).medeleg = {} /\ Mret(h).mideleg = {}
      BY <2>2 DEF Mret, Harts
    <3>2. /\ "SUM" \in Mret(h).on <=> "SUM" \in prog.on
          /\ "MXR" \in Mret(h).on <=> "MXR" \in prog.on
      BY <2>2, <3>1 DEF CopyFlag
    <3>. QED  BY <1>0, <2>3, <2>4, <3>1, <3>2 DEF NamedInv
  <2>5. CASE hart' = Trap(h, IllegalInstruction) /\ ~Ideal
    BY <1>0, <2>2, <2>5, TrapNotDelegated DEF NamedInv, Ideal
  <2>. QED  BY <2>3, <2>4, <2>5 DEF DoMret, Ideal
<1>3. CASE RefuseAccess
  <2>1. PICK cause \in Faults(NextAccess.page, NextAccess.access) : hart' = Trap(hart, cause)
    BY <1>3 DEF RefuseAccess
  <2>2. Ideal => cause = Outcome(prog)
    BY <1>3, RefusedForItsReason
  <2>3. /\ hart'.mcause = cause /\ hart'.pc = "machine_trap"
        /\ hart'.medeleg = {} /\ hart'.mideleg = {}
    BY <2>1, TrapNotDelegated DEF NamedInv
  <2>. QED  BY <1>0, <2>2, <2>3 DEF NamedInv, Ideal
<1>4. CASE MakeAccess
  <2>1. /\ UNCHANGED <<hart, satp>> /\ hart.pc \in {"supervisor", "user"}
    BY <1>4 DEF MakeAccess, Running
  <2>2. Ideal /\ hart.pc = "supervisor" => Writes(prog) /\ (step' > 3 => Reads(prog))
    BY <1>4, MadeInOrder
  <2>. QED  BY <1>0, <2>1, <2>2 DEF NamedInv, Ideal
<1>5. CASE SupervisorSret
  <2>. DEFINE h == [WriteSstatus(hart, {"SUM"}) EXCEPT !.sepc = "user"]
  <2>1. /\ h.sepc = "user" /\ h.medeleg = {} /\ h.mideleg = {} /\ "SPP" \notin h.on
    BY DEF WriteSstatus, Harts, SFlags, NamedInv
  <2>2. hart' = Sret(h)
    BY <1>5 DEF SupervisorSret
  <2>3. Ideal => prog.user /\ Fetches(prog) /\ Writes(prog)
    BY <1>5, ThroughSupervisor DEF SupervisorSret
  <2>. HIDE DEF h
  <2>4. hart'.pc = "user" /\ hart'.prv = U /\ hart'.medeleg = {} /\ hart'.mideleg = {}
    BY <2>1, <2>2 DEF Sret
  <2>5. satp' = satp /\ satp = (platform.xlen = 32)
    BY <1>5 DEF SupervisorSret, Running, NamedInv
  <2>. QED  BY <1>0, <2>3, <2>4, <2>5 DEF NamedInv, Ideal
<1>6. CASE Ecall
  <2>1. hart.pc \in {"supervisor", "user"} /\ (hart.pc = "user" \/ ~prog.user)
    BY <1>6 DEF Ecall, Running
  <2>2. hart' = Trap(hart, EcallFrom(hart.prv))
    BY <1>6 DEF Ecall
  <2>3. Ideal => EcallFrom(hart.prv) = Outcome(prog)
    <3>1. CASE hart.pc = "user"
      BY <3>1 DEF NamedInv, Outcome, Reads
    <3>2. CASE hart.pc = "supervisor"
      <4>1. hart.prv = S /\ ~prog.user
        BY <2>1, <3>2 DEF NamedInv
      <4>2. Ideal => Fetches(prog) /\ Writes(prog) /\ Reads(prog)
        BY <1>6, <3>2, ThroughSupervisor DEF Ecall
      <4>. QED  BY <4>1, <4>2 DEF Outcome
    <3>. QED  BY <2>1, <3>1, <3>2
  <2>4. /\ hart'.mcause = EcallFrom(hart.prv) /\ hart'.pc = "machine_trap"
        /\ hart'.medeleg = {} /\ hart'.mideleg = {}
    BY <2>2, TrapNotDelegated DEF NamedInv
  <2>. QED  BY <1>0, <2>3, <2>4 DEF NamedInv, Ideal
<1>7. CASE MachineTrap
  BY <1>0, <1>7 DEF MachineTrap, NamedInv, Ideal, Harts
<1>8. CASE UNCHANGED vars
  BY <1>8 DEF vars, NamedInv, Ideal
<1>. QED  BY <1>1, <1>2, <1>3, <1>4, <1>5, <1>6, <1>7, <1>8 DEF Next

\* Every MMU test that sets no flag but SUM and MXR ends with the trap its page's rights
\* and those flags call for, with the real table of 1024 entries and however much RAM
\* kmain maps, where the hart has Sv32 and no PMP and sets the A and D bits itself.
THEOREM TrapsFollowRights ==
    ASSUME \A p \in MmuPrograms : OnlySumMxr(p), Entries = 1024
    PROVE  Spec => [](hart.pc \in {"machine_trap", "spin"} /\ Ideal
                          => hart.mcause = Outcome(prog))
<1>1. Init => NamedInv
  BY DEF Init, ResetHart, NamedInv
<1>2. TableOK /\ HartOK /\ LastRequestWins /\ Complete /\ NamedInv /\ [Next]_vars => NamedInv'
  BY NamedStep
<1>3. NamedInv => (hart.pc \in {"machine_trap", "spin"} /\ Ideal => hart.mcause = Outcome(prog))
  BY DEF NamedInv
<1>. QED
  BY <1>1, <1>2, <1>3, TableInit, TableStep, HartInit, HartStep, CompleteInit, CompleteStep,
     LastRequestAlwaysWins, PTL DEF Spec

\* Each of the repository's MMU tests ends with the trap it is named for there.
THEOREM RepositoryEndsInNamedTrap ==
    ASSUME MmuPrograms \subseteq AllMmuPrograms, Entries = 1024
    PROVE  Spec => []EndsInNamedTrap
<1>1. /\ mmu_simple.rights = ReadWriteExec /\ mmu_simple.user = TRUE
      /\ mmu_simple.on = {"SUM"}
  BY DEF mmu_simple
<1>2. mmu_mxr.rights = ExecOnly /\ mmu_mxr.user = FALSE /\ mmu_mxr.on = {"MXR", "SUM"}
  BY DEF mmu_mxr
<1>3. /\ mmu_sum.rights = ReadWriteExec \cup User /\ mmu_sum.user = TRUE
      /\ mmu_sum.on = {}
  BY DEF mmu_sum, mmu_simple
<1>4. \A p \in MmuPrograms : OnlySumMxr(p)
  BY <1>1, <1>2, <1>3 DEF AllMmuPrograms, OnlySumMxr
<1>5. /\ Outcome(mmu_simple) = EcallFrom(U) /\ Outcome(mmu_mxr) = EcallFrom(S)
      /\ Outcome(mmu_sum) = PageFault("X")
  BY <1>1, <1>2, <1>3 DEF Outcome, Fetches, Writes, Reads, ReadWriteExec, ExecOnly, User
<1>6. mmu_simple # mmu_mxr /\ mmu_simple # mmu_sum /\ mmu_mxr # mmu_sum
  BY <1>1, <1>2, <1>3
<1>7. TableOK /\ (hart.pc \in {"machine_trap", "spin"} /\ Ideal => hart.mcause = Outcome(prog))
      => EndsInNamedTrap
  BY <1>5, <1>6 DEF TableOK, EndsInNamedTrap, AllMmuPrograms
<1>. QED  BY <1>4, <1>7, TrapsFollowRights, TableInit, TableStep, PTL DEF Spec

=============================================================================
