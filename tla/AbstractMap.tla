---------------------------- MODULE AbstractMap ----------------------------
(***************************************************************************)
(* What page tables promise: each address is mapped to one place, or not,  *)
(* and an operation changes the addresses it is about and no other.        *)
(***************************************************************************)
CONSTANTS VAs, PAs, Unmapped

VARIABLE map

Init == map = [va \in VAs |-> Unmapped]

Map(va, pa) == map' = [map EXCEPT ![va] = pa]
Unmap(va) == map' = [map EXCEPT ![va] = Unmapped]

Next == \E va \in VAs : Unmap(va) \/ \E pa \in PAs : Map(va, pa)

Spec == Init /\ [][Next]_map
=============================================================================
