--------------------------- MODULE PageAllocator ---------------------------
(***************************************************************************)
(* klib::pm::page::PageAllocator: a buddy allocator whose free blocks are  *)
(* doubly linked lists threaded through the free pages themselves.         *)
(*                                                                         *)
(* Addresses count pages.  A pointer is a physical page or, DMAP_START     *)
(* above it, the same page in the direct map; 0 is null.  Each operation   *)
(* runs under the allocator's TicketLock and is one step.  Zones, linked   *)
(* through Zone.next, are the sequence from zone_head.  A page that heads  *)
(* no free block belongs to a caller, or is never read before it is        *)
(* written again: its words are Garbage.                                   *)
(***************************************************************************)
EXTENDS Integers, FiniteSetsExt, SequencesExt

CONSTANTS PageSize,    \* PAGE_SIZE in bytes
          ZoneSize,    \* size_of::<Zone>() in bytes
          MAX_ORDER,   \* orders 0 .. MAX_ORDER - 1
          DMAP_START,  \* the offset of the direct map, in pages
          Regions      \* the regions that may be added, [start, pages]

ASSUME SizesAssumption ==
    PageSize \in Nat /\ ZoneSize \in Nat /\ 0 < ZoneSize /\ ZoneSize < PageSize
ASSUME OrderAssumption == MAX_ORDER \in Nat \ {0}
ASSUME RegionsAssumption ==
    \A r \in Regions : 0 < r.start /\ 0 < r.pages /\ r.start + r.pages < DMAP_START

VARIABLES zones,            \* [ptr, meta_array, data_base, total_pages], zone_head first
          free_area,        \* the head of the list of each order
          node,             \* the FreeBlock at the start of each page
          meta,             \* the metadata byte of each page: [order, free]
          total_pages, allocated_pages,
          lowest_address, is_dmap,
          live              \* the blocks handed out, [page, order]

vars == <<zones, free_area, node, meta, total_pages, allocated_pages, lowest_address,
          is_dmap, live>>

\* The loop of add_range, of which only the arithmetic is used.
Loop == INSTANCE ReserveLoop WITH Totals <- {}, total_pages_reg <- 0, reserved_pages <- 0, pc <- "done"

Orders == 0 .. MAX_ORDER - 1
Null == 0
Garbage == [next |-> -1, prev |-> -1, zone |-> -1, page_index |-> -1]
Memory == UNION {r.start .. r.start + r.pages - 1 : r \in Regions}

phys_to_dmap(a) == IF a >= DMAP_START THEN a ELSE a + DMAP_START
dmap_to_phys(a) == IF a >= DMAP_START THEN a - DMAP_START ELSE a
to_dmap(p) == IF p = Null THEN p ELSE phys_to_dmap(p)

\* The pointer by which free_phys_page, free_dmap_page and the slab allocator
\* name a page to free_pages.
Current(page) == IF is_dmap THEN phys_to_dmap(page) ELSE page

PagesOf(b) == b.page .. b.page + 2^b.order - 1

Init ==
    /\ zones = <<>>
    /\ free_area = [k \in Orders |-> Null]
    /\ node = [p \in Memory |-> Garbage]
    /\ meta = [p \in Memory |-> [order |-> 0, free |-> FALSE]]
    /\ total_pages = 0 /\ allocated_pages = 0
    /\ lowest_address = 0 /\ is_dmap = FALSE
    /\ live = {}
-----------------------------------------------------------------------------
(* Operations on the lists: h is [area, node]. *)

Lists == [area |-> free_area, node |-> node]

SetPrev(nodes, p, prev) ==
    IF p = Null THEN nodes ELSE [nodes EXCEPT ![dmap_to_phys(p)].prev = prev]

\* Put the block at `index` of `zone` at the head of list k.
Push(h, k, zone, index) ==
    LET block == zone.data_base + index
        new == [next |-> h.area[k], prev |-> Null, zone |-> zone.ptr, page_index |-> index]
    IN  [area |-> [h.area EXCEPT ![k] = block],
         node |-> SetPrev([h.node EXCEPT ![dmap_to_phys(block)] = new], h.area[k], block)]

\* Mutant: the successor of an unlinked block keeps its prev.
UnlinkOneWay(h, k, block) ==
    LET n == h.node[dmap_to_phys(block)]
        gone == [h.node EXCEPT ![dmap_to_phys(block)] = Garbage]
    IN  [area |-> IF n.prev = Null THEN [h.area EXCEPT ![k] = n.next] ELSE h.area,
         node |-> IF n.prev = Null THEN gone
                  ELSE [gone EXCEPT ![dmap_to_phys(n.prev)].next = n.next]]

\* Take `block` out of list k, wherever it is in it.
Unlink(h, k, block) ==
    LET n == h.node[dmap_to_phys(block)]
        gone == [h.node EXCEPT ![dmap_to_phys(block)] = Garbage]
    IN  [area |-> IF n.prev = Null THEN [h.area EXCEPT ![k] = n.next] ELSE h.area,
         node |-> SetPrev(IF n.prev = Null THEN gone
                          ELSE [gone EXCEPT ![dmap_to_phys(n.prev)].next = n.next],
                          n.next, n.prev)]

\* The block at `index` and its 2^k pages get the byte [order k, free].
Mark(bytes, zone, index, k, isFree) ==
    LET from == dmap_to_phys(zone.data_base) + index
    IN  [p \in Memory |->
            IF p \in from .. from + 2^k - 1 THEN [order |-> k, free |-> isFree] ELSE bytes[p]]
-----------------------------------------------------------------------------
(* add_range *)

Ilog2(n) == CHOOSE k \in 0 .. n : 2^k <= n /\ n < 2^(k + 1)
TrailingZeros(n) == CHOOSE k \in 0 .. n : n % 2^k = 0 /\ n % 2^(k + 1) # 0

\* The order of the block carved at `index` of a zone of `usable` pages.
CarveOrder(index, usable) ==
    LET align_order == IF index = 0 THEN MAX_ORDER - 1 ELSE TrailingZeros(index)
    IN  Min({align_order, Ilog2(usable - index), MAX_ORDER - 1})

\* The blocks carved from a zone of `usable` pages, in the order of the loop.
Carved(usable) ==
    LET from[i \in 0 .. usable] ==
            IF i = usable THEN <<>>
            ELSE LET k == CarveOrder(i, usable)
                 IN  <<[index |-> i, order |-> k]>> \o from[i + 2^k]
    IN  from[0]

ZonePages(z) == dmap_to_phys(z.meta_array) .. dmap_to_phys(z.data_base) + z.total_pages - 1
DataPages(z) == dmap_to_phys(z.data_base) .. dmap_to_phys(z.data_base) + z.total_pages - 1

\* Only the first case of the reserve loop that agrees with itself is
\* modelled here: ReserveLoop treats the loop.
AddRange(region) ==
    /\ \A i \in DOMAIN zones :
          ZonePages(zones[i]) \cap (region.start .. region.start + region.pages - 1) = {}
    /\ \E reserved \in 0 .. region.pages - 1 :
          /\ Loop!Needed(region.pages, reserved) = reserved
          /\ LET usable == region.pages - reserved
                 data_base == Current(region.start) + reserved
                 zone == [ptr |-> data_base - 1, meta_array |-> Current(region.start),
                          data_base |-> data_base, total_pages |-> usable]
                 pushed == FoldLeft(LAMBDA h, b : Push(h, b.order, zone, b.index),
                                    Lists, Carved(usable))
             IN  /\ zones' = <<zone>> \o zones
                 /\ free_area' = pushed.area
                 /\ node' = pushed.node
                 /\ meta' = FoldLeft(LAMBDA m, b : Mark(m, zone, b.index, b.order, TRUE),
                                     meta, Carved(usable))
                 /\ total_pages' = total_pages + usable
                 /\ lowest_address' = IF lowest_address = 0 \/ data_base < lowest_address
                                      THEN data_base ELSE lowest_address
    /\ UNCHANGED <<allocated_pages, is_dmap, live>>
-----------------------------------------------------------------------------
(* alloc_pages and free_pages *)

\* The upper half, of order k, split off the block at `index`.
SplitIndex(index, k) == index + 2^k

\* The first list from `target` up that is not empty.
FirstOrder(target) == Min({k \in target .. MAX_ORDER - 1 : free_area[k] # Null})

AllocPages(target) ==
    /\ \E k \in target .. MAX_ORDER - 1 : free_area[k] # Null
    /\ LET order == FirstOrder(target)
           head == free_area[order]
           index == node[dmap_to_phys(head)].page_index
           zone == CHOOSE z \in ToSet(zones) : z.ptr = node[dmap_to_phys(head)].zone
           halves == [i \in 1 .. order - target |-> order - i]
           popped == Unlink(Lists, order, head)
           split == FoldLeft(LAMBDA h, k : Push(h, k, zone, SplitIndex(index, k)), popped, halves)
           block == [page |-> dmap_to_phys(zone.data_base) + index, order |-> target]
       IN  /\ free_area' = split.area
           /\ node' = split.node
           /\ meta' = FoldLeft(LAMBDA m, k : Mark(m, zone, SplitIndex(index, k), k, TRUE),
                               Mark(meta, zone, index, target, FALSE), halves)
           /\ allocated_pages' = allocated_pages + 2^target
           /\ live' = live \cup {block}
    /\ UNCHANGED <<zones, total_pages, lowest_address, is_dmap>>

\* No list serves the order, or there is none of it: null, and nothing changes.
AllocFails(target) ==
    /\ \A k \in target .. MAX_ORDER - 1 : free_area[k] = Null
    /\ UNCHANGED vars

\* page_index once the bits below order k are cleared, and its buddy.
IndexAt(index, k) == index - (index % 2^k)
Buddy(index, k) ==
    LET i == IndexAt(index, k) IN IF (i \div 2^k) % 2 = 0 THEN i + 2^k ELSE i - 2^k

\* Mutant: a buddy of any order will do.
MergesAny(zone, index, k) ==
    /\ k < MAX_ORDER - 1
    /\ Buddy(index, k) + 2^k <= zone.total_pages
    /\ meta[dmap_to_phys(zone.data_base) + Buddy(index, k)].free

\* The loop of free_block_in_zone goes on at order k.
Merges(zone, index, k) ==
    /\ k < MAX_ORDER - 1
    /\ Buddy(index, k) + 2^k <= zone.total_pages
    /\ meta[dmap_to_phys(zone.data_base) + Buddy(index, k)] = [order |-> k, free |-> TRUE]

\* The pages taken off allocated_pages when a block of order k is freed.
Discount(k) == 2^k

\* free_pages on a block that alloc_pages returned.  Its order comes from the
\* metadata, not from the caller.
FreePages(block) ==
    /\ LET addr == Current(block.page)
           zone == CHOOSE z \in ToSet(zones) :
                       addr \in z.data_base .. z.data_base + z.total_pages - 1
           index == addr - zone.data_base
           order == meta[block.page].order
           final == Min({k \in order .. MAX_ORDER - 1 : ~Merges(zone, index, k)})
           buddies == [i \in 1 .. final - order |-> order + i - 1]
           merged == FoldLeft(LAMBDA h, k : Unlink(h, k, zone.data_base + Buddy(index, k)),
                              Lists, buddies)
           pushed == Push(merged, final, zone, IndexAt(index, final))
       IN  /\ ~meta[block.page].free
           /\ free_area' = pushed.area
           /\ node' = pushed.node
           /\ meta' = Mark(meta, zone, IndexAt(index, final), final, TRUE)
           /\ allocated_pages' = allocated_pages - Discount(order)
    /\ live' = live \ {block}
    /\ UNCHANGED <<zones, total_pages, lowest_address, is_dmap>>
-----------------------------------------------------------------------------
(* transition_dmap and wipe *)

\* The blocks met when list k is walked from its head.
Walk(k) ==
    LET at[n \in 0 .. Cardinality(Memory)] ==
            IF n = 0 THEN free_area[k]
            ELSE IF at[n - 1] = Null THEN Null ELSE node[dmap_to_phys(at[n - 1])].next
    IN  {at[n] : n \in 0 .. Cardinality(Memory)} \ {Null}

Walked == UNION {{dmap_to_phys(p) : p \in Walk(k)} : k \in Orders}

NodeToDmap(n) == [n EXCEPT !.next = to_dmap(@), !.prev = to_dmap(@), !.zone = to_dmap(@)]

TransitionDmap ==
    /\ ~is_dmap
    /\ lowest_address' = to_dmap(lowest_address)
    /\ zones' = [i \in DOMAIN zones |->
                    [zones[i] EXCEPT !.ptr = to_dmap(@), !.meta_array = to_dmap(@),
                                     !.data_base = to_dmap(@)]]
    /\ free_area' = [k \in Orders |-> to_dmap(free_area[k])]
    /\ node' = [p \in Memory |-> IF p \in Walked THEN NodeToDmap(node[p]) ELSE node[p]]
    /\ is_dmap' = TRUE
    /\ UNCHANGED <<meta, total_pages, allocated_pages, live>>

\* "previously allocated memory must not be accessed" (mod.rs:279); add_range
\* writes every byte and every FreeBlock anew before it is read.
Wipe ==
    /\ zones' = <<>>
    /\ lowest_address' = 0
    /\ free_area' = [k \in Orders |-> Null]
    /\ total_pages' = 0 /\ allocated_pages' = 0
    /\ live' = {}
    /\ node' = [p \in Memory |-> Garbage]
    /\ meta' = [p \in Memory |-> [order |-> 0, free |-> FALSE]]
    /\ UNCHANGED is_dmap

Next ==
    \/ \E r \in Regions : AddRange(r)
    \/ \E k \in Orders : AllocPages(k)
    \/ \E k \in 0 .. MAX_ORDER : AllocFails(k)
    \/ \E b \in live : FreePages(b)
    \/ TransitionDmap
    \/ Wipe

Spec == Init /\ [][Next]_vars
-----------------------------------------------------------------------------
FreeBlocks == UNION {{[page |-> dmap_to_phys(p), order |-> k] : p \in Walk(k)} : k \in Orders}

\* The zone of a block, and where the block starts in it.
ZoneOf(b) == CHOOSE z \in ToSet(zones) : b.page \in DataPages(z)
IndexIn(b) == b.page - dmap_to_phys(ZoneOf(b).data_base)

\* Every page of a zone is in exactly one block, free or live: no page is
\* lost and none is handed out twice, by any sequence of splits and merges.
\* Blocks lie in one zone and start at a multiple of their size.
Partition ==
    /\ \A b \in FreeBlocks \cup live :
          /\ \E z \in ToSet(zones) : PagesOf(b) \subseteq DataPages(z)
          /\ IndexIn(b) % 2^b.order = 0
    /\ \A z \in ToSet(zones) : \A p \in DataPages(z) :
          Cardinality({b \in FreeBlocks \cup live : p \in PagesOf(b)}) = 1
    /\ FreeBlocks \cap live = {}

\* The lists are well formed in the address space in use: null-terminated,
\* linked both ways, and every FreeBlock names its own zone and index.
ListsInv ==
    \A k \in Orders : \A p \in Walk(k) :
        LET n == node[dmap_to_phys(p)]
        IN  /\ p = Current(dmap_to_phys(p))
            /\ (n.prev = Null) <=> (p = free_area[k])
            /\ n.prev # Null => n.prev \in Walk(k) /\ node[dmap_to_phys(n.prev)].next = p
            /\ n.next # Null => n.next \in Walk(k) /\ node[dmap_to_phys(n.next)].prev = p
            /\ \E z \in ToSet(zones) : n.zone = z.ptr /\ p = z.data_base + n.page_index

\* The metadata of every page tells the state and the order of its block, so
\* free_pages finds the order and sees a double free.
MetaInv ==
    /\ \A b \in FreeBlocks : \A p \in PagesOf(b) : meta[p] = [order |-> b.order, free |-> TRUE]
    /\ \A b \in live : \A p \in PagesOf(b) : meta[p] = [order |-> b.order, free |-> FALSE]

\* A request fails only when the pages are not there: whenever the lists from
\* order k up are empty, no aligned run of 2^k free pages exists in any zone.
NoFalseOutOfMemory ==
    \A k \in Orders : (\A o \in k .. MAX_ORDER - 1 : free_area[o] = Null) =>
        \A z \in ToSet(zones) : \A i \in 0 .. z.total_pages - 2^k :
            i % 2^k = 0 =>
                \E b \in live : PagesOf(b) \cap PagesOf([page |-> dmap_to_phys(z.data_base) + i,
                                                         order |-> k]) # {}

\* The counters are the pages of the live blocks and of the zones, and
\* min_address is the first page that can be handed out.
Accounting ==
    /\ allocated_pages = MapThenSumSet(LAMBDA b : 2^b.order, live)
    /\ total_pages = MapThenSumSet(LAMBDA z : z.total_pages, ToSet(zones))
    /\ lowest_address = IF zones = <<>> THEN 0 ELSE Min({z.data_base : z \in ToSet(zones)})

\* Once everything is freed the free blocks are those add_range carved:
\* merging undoes every split.
FreedMeansCarved ==
    live = {} =>
        FreeBlocks = UNION {{[page |-> dmap_to_phys(z.data_base) + b.index, order |-> b.order]
                                : b \in ToSet(Carved(z.total_pages))} : z \in ToSet(zones)}

\* Pages, lists, metadata and counters describe the same blocks after any
\* sequence of calls, before and after the move to the direct map, and buddies
\* are merged whenever both are free.
Inv == Partition /\ ListsInv /\ MetaInv /\ Accounting /\ NoFalseOutOfMemory /\ FreedMeansCarved

Abstract == INSTANCE AbstractPageAllocator
                WITH owned <- UNION {DataPages(z) : z \in ToSet(zones)}, live <- live

\* The buddy allocator implements the abstract page allocator.
ImplementsAllocator == Abstract!Spec
=============================================================================
