------------------------------ MODULE MCMemory ------------------------------
(***************************************************************************)
(* The page allocator with small pages and, in behaviours of their own     *)
(* (`subject`), the page tables with two entries per table.                *)
(***************************************************************************)
EXTENDS PageAllocator

\* With pages of 4 bytes and Zones of 2: 6 pages and 3 pages to hand out.
TwoRegions == {[start |-> 1, pages |-> 8], [start |-> 9, pages |-> 5]}

\* Two pages of one table, and a third that shares only the root with them.
ThreePages == {<<0, 0, 0, 0>>, <<0, 0, 0, 1>>, <<1, 0, 0, 0>>}

VARIABLES subject, tables, unallocated, root, id_root, old_root

Mapper ==
    INSTANCE PageMapper
    WITH Tables <- 1 .. 13, Entries <- 2, VAs <- ThreePages, PAs <- {1, 2}, mem <- tables, free <- unallocated

mapperVars == <<tables, unallocated, root, id_root, old_root>>

MCInit ==
    /\ subject \in {"allocator", "mapper"}
    /\ Init
    /\ Mapper!Init

AllocatorNext == subject = "allocator" /\ Next /\ UNCHANGED <<subject, mapperVars>>
MapperNext == subject = "mapper" /\ Mapper!Next /\ UNCHANGED <<subject, vars>>

all == <<subject, vars, mapperVars>>

MCSpec == MCInit /\ [][AllocatorNext \/ MapperNext]_all
-----------------------------------------------------------------------------
\* The tables that are allocated are those of the trees, each reached once; no
\* table is left empty, and none is used after it was freed.
MapperInv == subject = "mapper" => Mapper!MapperInv

\* The page tables implement the abstract map from addresses to places.
ImplementsMap == Mapper!ImplementsMap
=============================================================================
