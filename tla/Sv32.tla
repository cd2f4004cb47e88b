-------------------------------- MODULE Sv32 --------------------------------
(***************************************************************************)
(* The page table of the MMU tests (src/mmu): Sv32_mmu_map_virt and the     *)
(* translation the hart makes with what it wrote.  Addresses are page       *)
(* numbers.  The table has two levels, but only one second-level array: all *)
(* entries of the root point to it.                                         *)
(***************************************************************************)
EXTENDS Naturals

CONSTANT Entries   \* SV32_PAGE_TABLE_ENTRIES

ASSUME EntriesAssumption == Entries \in Nat \ {0}

Hi(page) == page \div Entries

LoUnmasked(page) == page              \* a variant with a mistake: & 0x3ff is missing

Lo(page) == page % Entries

Rights == {"R", "W", "X", "U"}
Ptes == [ppn : Nat, rights : SUBSET Rights]

\* The rights Sv32_mmu_map_virt gives a page, and its exec_only sister.
ReadWriteExec == {"R", "W", "X"}
ExecOnly == {"X"}
User == {"U"}

\* root: the valid entries of the first level; leaf: the valid ones of the second.
EmptyTable == [root |-> {}, leaf |-> [lo \in {} |-> 0]]

IsTable(t) ==
    /\ t = [root |-> t.root, leaf |-> [lo \in DOMAIN t.leaf |-> t.leaf[lo]]]
    /\ t.root \subseteq Nat /\ DOMAIN t.leaf \subseteq 0 .. Entries - 1
    /\ \A lo \in DOMAIN t.leaf : t.leaf[lo] \in Ptes

MapKeepsFirst(table, virt, pte) ==    \* a variant with a mistake: a valid entry stays
    [root |-> table.root \cup {Hi(virt)},
     leaf |-> [lo \in DOMAIN table.leaf \cup {Lo(virt)} |->
                   IF lo = Lo(virt) /\ lo \notin DOMAIN table.leaf
                   THEN pte ELSE table.leaf[lo]]]

\* Sv32_mmu_map_virt: the entry the index has is overwritten, whoever asked for it.
Map(table, virt, pte) ==
    [root |-> table.root \cup {Hi(virt)},
     leaf |-> [lo \in DOMAIN table.leaf \cup {Lo(virt)} |->
                   IF lo = Lo(virt) THEN pte ELSE table.leaf[lo]]]

\* The walk of the hart.
Present(table, virt) == Hi(virt) \in table.root /\ Lo(virt) \in DOMAIN table.leaf
Walk(table, virt) == table.leaf[Lo(virt)]

\* Whether the mode may make this access ("X", "R" or "W") with these flags of mstatus.
Permitted(pte, access, userMode, on) ==
    /\ \/ access \in pte.rights
       \/ access = "R" /\ "MXR" \in on /\ "X" \in pte.rights
    /\ IF userMode THEN "U" \in pte.rights
       ELSE "U" \notin pte.rights \/ (access # "X" /\ "SUM" \in on)

=============================================================================
