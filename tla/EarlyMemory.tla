---------------------------- MODULE EarlyMemory ----------------------------
(***************************************************************************)
(* How the kernel takes over the firmware's memory map                     *)
(* (kernel/src/earlyinit/mem.rs, called in order by uefi_arm64_bootstrap): *)
(* it copies the map into the first usable memory, gives the page          *)
(* allocator one region, builds the direct map, and gives the allocator    *)
(* the rest.  Addresses are numbers of the firmware's pages; a page of the *)
(* kernel is Ratio of them.                                                *)
(*                                                                         *)
(* A descriptor is [start, count, kind].  The kinds that differ in type or *)
(* attributes: "conventional" stands for boot services code and loader     *)
(* data as well, which are retyped to it; "runtime" memory is cacheable    *)
(* and in use by the firmware; "mmio" is UNCACHEABLE.                      *)
(***************************************************************************)
EXTENDS Naturals, FiniteSets, Sequences, SequencesExt, FiniteSetsExt

CONSTANTS Ratio,       \* PAGE_SIZE / UEFI_PS
          PerPage,     \* how many descriptors fit into a page of the firmware
          MinPages,    \* the 4 of `4 * PAGE_SIZE`
          Top,         \* the last page of the kernel that a map may reach
          Maps         \* the memory maps, sorted: uefi_mmap.sort()

VARIABLES firmware,    \* the map the loader passed on
          mmap,        \* the map in use
          copied,      \* the pages of the firmware the copy of the map occupies
          zones,       \* what the allocator was given, in pages of the kernel
          dmap,        \* how the direct map maps each page of the kernel
          described,   \* the pages that have a PageDescriptor
          pc

vars == <<firmware, mmap, copied, zones, dmap, described, pc>>

End(d) == d.start + d.count
Span(d) == d.start .. End(d) - 1
AlignUp(a) == (a + Ratio - 1) \div Ratio
AlignDown(a) == a \div Ratio

is_normal_desc(d) == d.kind \in {"conventional", "boot_data"}
Uncacheable(d) == d.kind = "mmio"
-----------------------------------------------------------------------------
can_merge(a, b) == End(a) = b.start /\ a.kind = b.kind

MergeInto(ds, d) ==
    IF ds # <<>> /\ can_merge(Last(ds), d)
    THEN [ds EXCEPT ![Len(ds)].count = @ + d.count]
    ELSE Append(ds, d)

\* The loader's code (the kernel and its tables among it) leaves the map.
Kept(map) == SelectSeq(map, LAMBDA d : d.kind # "loader_code")
Merged(map) == FoldLeft(MergeInto, <<>>, Kept(map))

Usable(map) == SelectSeq(Kept(map), LAMBDA d : d.kind = "conventional")
first_normal_start(map) == Usable(map)[1].start

\* final_count descriptors, in whole pages
map_pages(map) == (Len(Merged(map)) + PerPage - 1) \div PerPage

\* The descriptor the copy is written to loses its first pages, or vanishes.
punch(d, dest, pages) ==
    LET total_needed == dest - d.start + pages
    IN IF ~(d.start <= dest /\ dest < End(d)) THEN <<d>>
       ELSE IF d.count <= total_needed THEN <<>>
       ELSE <<[d EXCEPT !.start = @ + total_needed, !.count = @ - total_needed]>>

clone_and_process_mmap(map) ==
    LET dest == first_normal_start(map)
    IN FlattenSeq([i \in 1 .. Len(Merged(map)) |-> punch(Merged(map)[i], dest, map_pages(map))])
-----------------------------------------------------------------------------
\* populate_alloc_stage0: the largest region, the last of several.
BigEnough(d) == d.kind = "conventional" /\ d.count >= MinPages * Ratio
Stage0Entries(map) == {i \in 1 .. Len(map) : BigEnough(map[i])}
Largest(map) ==
    Max({i \in Stage0Entries(map) : \A j \in Stage0Entries(map) : map[j].count <= map[i].count})
Range0(d) == [start |-> AlignUp(d.start), end |-> AlignDown(End(d))]

populate_alloc_stage0(map) ==
    IF Stage0Entries(map) = {} THEN {} ELSE {Range0(map[Largest(map)])}

\* A range of the allocator for firmware pages a .. b - 1, if it is worth it.
add_subrange(a, b) ==
    IF AlignDown(b) >= AlignUp(a) + MinPages
    THEN {[start |-> AlignUp(a), end |-> AlignDown(b)]} ELSE {}

overlapping_range(zs, a, b) == {z \in zs : a < z.end * Ratio /\ z.start * Ratio < b}

\* Mutant: what the allocator already has is not left out.
flush_all(zs, r) == zs \cup add_subrange(r.start, r.end)

flush(zs, r) ==
    LET over == overlapping_range(zs, r.start, r.end)
        z == CHOOSE z \in over : TRUE
    IN zs \cup IF over = {} THEN add_subrange(r.start, r.end)
               ELSE (IF z.start * Ratio > r.start THEN add_subrange(r.start, z.start * Ratio) ELSE {})
                    \cup (IF z.end * Ratio < r.end THEN add_subrange(z.end * Ratio, r.end) ELSE {})

\* current_start, current_end: neighbours are joined whatever their types.
Joined(rs, d) ==
    IF rs # <<>> /\ Last(rs).end = d.start
    THEN [rs EXCEPT ![Len(rs)].end = End(d)]
    ELSE Append(rs, [start |-> d.start, end |-> End(d)])

populate_alloc_stage1(map, zs) ==
    FoldLeft(flush, zs, FoldLeft(Joined, <<>>, SelectSeq(map, is_normal_desc)))
-----------------------------------------------------------------------------
\* map_all_dmap: the ranges of pages to map, widened to whole pages and merged,
\* `last.1 >= r.0`.
Widened(rs, d) ==
    IF rs # <<>> /\ Last(rs).end >= AlignDown(d.start)
    THEN [rs EXCEPT ![Len(rs)].end = IF AlignUp(End(d)) > @ THEN AlignUp(End(d)) ELSE @]
    ELSE Append(rs, [start |-> AlignDown(d.start), end |-> AlignUp(End(d))])
PagesOf(r) == [i \in 1 .. r.end - r.start |-> r.start + i - 1]
PagesToMap(map) ==
    LET rs == FoldLeft(Widened, <<>>, map)
    IN FlattenSeq([i \in 1 .. Len(rs) |-> PagesOf(rs[i])])

\* The first active descriptor, or the first UNCACHEABLE one.
optimal(active) ==
    LET strict == SelectSeq(active, Uncacheable)
    IN IF strict # <<>> THEN Head(strict) ELSE Head(active)

\* One page of the sweep: `next` is the descriptor descs.peek() sees.
MapOne(map, s, page) ==
    LET lo == page * Ratio
        hi == lo + Ratio
        taken == SelectSeq(SubSeq(map, s.next, Len(map)), LAMBDA d : d.start < hi)
        active == SelectSeq(s.active \o taken, LAMBDA d : End(d) > lo)
    IN [next |-> s.next + Len(taken), active |-> active,
        dmap |-> IF active = <<>> THEN s.dmap
                 ELSE [s.dmap EXCEPT ![page] = IF Uncacheable(optimal(active)) THEN "device" ELSE "normal"]]

map_all_dmap(map, none) ==
    FoldLeft(LAMBDA s, page : MapOne(map, s, page),
             [next |-> 1, active |-> <<>>, dmap |-> none],
             PagesToMap(map)).dmap
-----------------------------------------------------------------------------
Frames == 0 .. Top
PagesIn(zs) == UNION {z.start .. z.end - 1 : z \in zs}

Init ==
    /\ firmware \in Maps
    /\ mmap = firmware
    /\ copied = {} /\ zones = {} /\ described = {}
    /\ dmap = [p \in Frames |-> "unmapped"]
    /\ pc = "clone"

\* expect("no suitable memory found")
CloneAndProcess ==
    /\ pc = "clone"
    /\ IF Usable(firmware) = <<>>
       THEN pc' = "panicked" /\ UNCHANGED <<mmap, copied>>
       ELSE /\ pc' = "stage0"
            /\ mmap' = clone_and_process_mmap(firmware)
            /\ LET dest == first_normal_start(firmware)
               IN copied' = dest .. dest + map_pages(firmware) - 1
    /\ UNCHANGED <<firmware, zones, dmap, described>>

Stage0 ==
    /\ pc = "stage0" /\ pc' = "tables"
    /\ zones' = populate_alloc_stage0(mmap)
    /\ UNCHANGED <<firmware, mmap, copied, dmap, described>>

\* The tables come from the allocator: expect("OOM in boot alloc").
SwitchTables ==
    /\ pc = "tables"
    /\ IF zones = {}
       THEN pc' = "panicked" /\ UNCHANGED dmap
       ELSE pc' = "stage1" /\ dmap' = map_all_dmap(mmap, dmap)
    /\ UNCHANGED <<firmware, mmap, copied, zones, described>>

Stage1 ==
    /\ pc = "stage1" /\ pc' = "describe"
    /\ zones' = populate_alloc_stage1(mmap, zones)
    /\ UNCHANGED <<firmware, mmap, copied, dmap, described>>

\* The pages of a zone that are handed out: with the zones of these maps, all
\* but the first, which holds the metadata.
Data(z) == z.start + 1 .. z.end - 1

\* create_page_descriptors: from min_address, the lowest data_base, to
\* max_address.
Describe ==
    /\ pc = "describe" /\ pc' = "done"
    /\ described' = Min(UNION {Data(z) : z \in zones}) .. Max({z.end : z \in zones}) - 1
    /\ UNCHANGED <<firmware, mmap, copied, zones, dmap>>

Next == CloneAndProcess \/ Stage0 \/ SwitchTables \/ Stage1 \/ Describe

Spec == Init /\ [][Next]_vars
-----------------------------------------------------------------------------
Whole(p) == p * Ratio .. (p + 1) * Ratio - 1
Touching(map, p) == {d \in ToSet(map) : Span(d) \cap Whole(p) # {}}
UsableMemory(map) == UNION {Span(d) : d \in {e \in ToSet(map) : is_normal_desc(e)}}

\* The region the copy is written to.  punch takes the pages of the copy from
\* this region alone; whether they fit into it nobody asks.
Room ==
    UNION {Span(d) : d \in {e \in ToSet(Merged(firmware)) : first_normal_start(firmware) \in Span(e)}}

\* What the allocator was given are whole pages of usable memory, given once,
\* which hold neither the kernel, nor the firmware's runtime, nor what of the copy
\* of the memory map is in the region chosen for it; and each that is handed out has a page descriptor.
AllocatorOwns ==
    /\ \A y, z \in zones : y # z => PagesIn({y}) \cap PagesIn({z}) = {}
    /\ \A p \in PagesIn(zones) : Whole(p) \subseteq UsableMemory(firmware)
    /\ \A p \in PagesIn(zones) : Whole(p) \cap copied \cap Room = {}
    /\ pc = "done" => \A z \in zones : Data(z) \subseteq described

\* In the end no MinPages pages in a row of usable memory are left out.
NothingLost ==
    pc = "done" =>
        \A p \in Frames :
            (\A i \in 0 .. MinPages - 1 : Whole(p + i) \subseteq UsableMemory(mmap))
                => \E i \in 0 .. MinPages - 1 : p + i \in PagesIn(zones)

\* The direct map covers exactly the pages some descriptor touches, and a page
\* that registers of a device share is never mapped cacheable.
DmapExact ==
    pc \in {"stage1", "describe", "done"} =>
        \A p \in Frames :
            dmap[p] = IF Touching(mmap, p) = {} THEN "unmapped"
                      ELSE IF \E d \in Touching(mmap, p) : Uncacheable(d) THEN "device"
                      ELSE "normal"

\* The allocator and the direct map get what the firmware's map says, no more
\* and no less.
EarlyInv == AllocatorOwns /\ NothingLost /\ DmapExact
=============================================================================
