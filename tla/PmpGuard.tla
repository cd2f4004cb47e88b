------------------------------- MODULE PmpGuard -------------------------------
(***************************************************************************)
(* What a PMP test promises: its accesses are made one after the other for  *)
(* as long as each lies in a region that was opened for its kind, and none  *)
(* is made that does not.  Regions are intervals here: no pmpaddr encoding, *)
(* no matching order, no MPRV.                                              *)
(***************************************************************************)
EXTENDS Naturals, Sequences

VARIABLES regions,   \* the regions opened, see Region of PmpPrograms
          guarded,   \* the accesses are bound by all regions, not only locked ones
          left,      \* the accesses not yet made
          stopped    \* an access was refused, or all were made

guard == <<regions, guarded, left, stopped>>

Inside(region, access) ==
    access.word >= region.base /\ access.word < region.base + region.size

Opened(access) ==
    IF guarded
    THEN \E i \in DOMAIN regions :
            Inside(regions[i], access) /\ access.kind \in regions[i].perms
    ELSE \A i \in DOMAIN regions :
            Inside(regions[i], access) /\ regions[i].locked
                => access.kind \in regions[i].perms

Init ==
    /\ stopped = FALSE

Make ==
    /\ ~stopped /\ left # <<>> /\ Opened(Head(left))
    /\ left' = Tail(left)
    /\ UNCHANGED <<regions, guarded, stopped>>

Stop ==
    /\ ~stopped
    /\ left # <<>> => ~Opened(Head(left))
    /\ stopped' = TRUE
    /\ UNCHANGED <<regions, guarded, left>>

Next == Make \/ Stop

Spec == Init /\ [][Next]_guard

=============================================================================
