--------------------------------- MODULE Pmp ---------------------------------
(***************************************************************************)
(* Physical memory protection: the address encodings of                     *)
(* src/helper/pmp_helper.c, and the check the hart makes against the        *)
(* entries they are written to (external: modelled from the pmpcfg and      *)
(* pmpaddr values the tests write and the outcomes they expect).            *)
(*                                                                          *)
(* Addresses and sizes are in words of 4 bytes, the granularity of the PMP  *)
(* and of the pmpaddr registers: a word holds the bytes 4*w .. 4*w+3.       *)
(***************************************************************************)
EXTENDS Naturals

Kinds == {"R", "W", "X"}
Matchings == {"OFF", "TOR", "NA4", "NAPOT"}

\* What one field of pmpcfg0 and the pmpaddr register beside it hold.
Entries == [a : Matchings, perms : SUBSET Kinds, locked : BOOLEAN, addr : Nat]

\* (base + (size/2 - 1)) >> 2 on bytes, and base >> 2.  Before each, variants with
\* a mistake: the size not halved, not decremented; an inclusive upper bound.
NapotOfWholeSize(base, size) == base + (4 * size - 1) \div 4
NapotNotDecremented(base, size) == base + (2 * size) \div 4
pmp_get_napot_addr(base, size) == base + (2 * size - 1) \div 4
NaTorInclusive(base) == base + 1
pmp_get_na_tor_addr(base) == base

-----------------------------------------------------------------------------
(* The hart's side. *)

\* The sizes a NAPOT entry can have: powers of two from 8 bytes.
NapotSizes ==
    {2, 4, 8, 16, 32, 64, 128, 256, 512, 1024, 2048, 4096, 8192, 16384,
     32768, 65536, 131072, 262144, 524288, 1048576, 2097152, 4194304,
     8388608, 16777216, 33554432, 67108864, 134217728, 268435456, 536870912}

\* The low bits of addr are a 0 followed by as many 1s as the size has bits.
NapotSize(addr) == CHOOSE s \in NapotSizes : addr % s = s \div 2 - 1

InNapot(addr, w) == w \div NapotSize(addr) = addr \div NapotSize(addr)

\* Entry i covers word w; a TOR entry starts at the address of the entry before.
Covers(pmp, i, w) ==
    \/ pmp[i].a = "NAPOT" /\ InNapot(pmp[i].addr, w)
    \/ pmp[i].a = "NA4" /\ w = pmp[i].addr
    \/ /\ pmp[i].a = "TOR"
       /\ i = 0 \/ pmp[i - 1].addr <= w
       /\ w < pmp[i].addr

NoEntryOn(pmp) == \A i \in DOMAIN pmp : pmp[i].a = "OFF"

\* The lowest-numbered entry that covers a word decides; machine mode (machine =
\* TRUE) is bound by locked entries only, and needs none.
Grants(pmp, machine, kind, w) ==
    LET hits == {i \in DOMAIN pmp : Covers(pmp, i, w)}
    IN  IF hits = {} THEN machine
        ELSE \E i \in hits :
                /\ \A j \in hits : i <= j
                /\ kind \in pmp[i].perms \/ (machine /\ ~pmp[i].locked)

=============================================================================
