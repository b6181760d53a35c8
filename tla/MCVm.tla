-------------------------------- MODULE MCVm --------------------------------
(***************************************************************************)
(* The slab allocator and, in behaviours of their own (`subject`), cursors *)
(* on an address space, the loop of add_range with the kernel's sizes, the *)
(* loading of the kernel and the taking over of the firmware's memory map. *)
(***************************************************************************)
EXTENDS MemoryProofs, Sequences

CONSTANTS MaxRegion,   \* bound on the size of a region, in pages
          Ratio, PerPage, MinPages, Top,
          UEFI_PAGE_SIZE, PAGE_SIZE, Places, PhysTop

VARIABLES subject,
          firmware, mmap, copied, zones, dmap, described, early_pc,
          image, total_read, alloc_ptr, ph_i, mem, execute_protect, map, image_pc

\* A leaf's two pages, pages of two leaves, and a page far from both.
Address(n) == [l \in 0 .. max_level |-> (n \div Cardinality(Index) ^ l) % Cardinality(Index)]
PagesFrom(first, end) == [k \in 1 .. end - first |-> Address(first + k - 1)]
ThreeRanges == {PagesFrom(0, 2), PagesFrom(1, 3), PagesFrom(4, 5)}

ASSUME CursorAssumption == Cursor!Assumptions

\* All regions but those whose last metadata page would hold exactly the byte of
\* the page that reserving it takes away: no number of pages agrees with itself.
Unlucky(t) ==
    \E r \in 2 .. MaxRegion \div PageSize + 2 : t = (r - 1) * PageSize + r - ZoneSize
Lucky == {t \in 1 .. MaxRegion : ~Unlucky(t)}

ASSUME ReserveAssumption == Reserve!Assumptions

\* Memory maps of up to five regions.  The first three begin or end within a
\* page of the kernel; two are large enough for the allocator.
Cuts == <<1, 2, 4, 14, 15, 25>>
Kinds == {"conventional", "boot_data", "loader_code", "runtime", "mmio", "gap"}
MapOf(kinds) ==
    SelectSeq([i \in 1 .. 5 |-> [start |-> Cuts[i], count |-> Cuts[i + 1] - Cuts[i], kind |-> kinds[i]]],
              LAMBDA d : d.kind # "gap")
FirmwareMaps == {MapOf(kinds) : kinds \in [1 .. 5 -> Kinds]}

Early == INSTANCE EarlyMemory WITH Maps <- FirmwareMaps, pc <- early_pc

\* Kernels of three segments as aarch64.lds lays them out, of several sizes,
\* and files that are wrong in one way.
Linked(t, d, b, wrong) ==
    LET up(n) == ((n + PAGE_SIZE - 1) \div PAGE_SIZE) * PAGE_SIZE
        start == 2 * PAGE_SIZE
        load == wrong # "no segments"
        text == [load |-> load, exec |-> TRUE, write |-> wrong = "w and x",
                 offset |-> 1, vaddr |-> start, filesz |-> t, memsz |-> t]
        rodata == [load |-> load, exec |-> FALSE, write |-> FALSE,
                   offset |-> 1 + t, vaddr |-> up(start + t), filesz |-> 1, memsz |-> 1]
        note == [rodata EXCEPT !.load = FALSE]
        data == [load |-> load, exec |-> FALSE, write |-> TRUE, offset |-> 2 + t,
                 vaddr |-> rodata.vaddr + PAGE_SIZE, filesz |-> d, memsz |-> d + b]
    IN [valid |-> wrong # "not ELF", len |-> 2 + t + d - IF wrong = "too short" THEN 1 ELSE 0,
        entry |-> IF wrong = "entry" THEN start - 1 ELSE start, phdrs |-> <<note, text, rodata, data>>]
Kernels ==
    {Linked(t, d, b, "nothing") : t \in {1, 4, 5}, d \in {0, 2, 4}, b \in {0, 1, 5}}
        \cup {Linked(4, 2, 1, w) : w \in {"no segments", "w and x", "not ELF", "too short", "entry"}}

Image == INSTANCE KernelImage WITH Images <- Kernels, pc <- image_pc

cursorVars == <<present, pte, meta, readers, writer, range, cur, cursor_pc,
                at, current_pa, lvl>>
reserveVars == <<total_pages_reg, reserved_pages, reserve_pc>>
earlyVars == <<firmware, mmap, copied, zones, dmap, described, early_pc>>
imageVars == <<image, total_read, alloc_ptr, ph_i, mem, execute_protect, map, image_pc>>
all == <<subject, vars, cursorVars, reserveVars, earlyVars, imageVars>>

MCInit ==
    /\ subject \in {"slab", "cursor", "reserve", "early", "image"}
    /\ Init
    /\ Cursor!Init
    /\ IF subject = "reserve" THEN Reserve!Init
       ELSE total_pages_reg = 1 /\ reserved_pages = 0 /\ reserve_pc = "loop"
    /\ IF subject = "early" THEN Early!Init
       ELSE /\ firmware = <<>> /\ mmap = <<>> /\ copied = {} /\ zones = {}
            /\ dmap = <<>> /\ described = {} /\ early_pc = "clone"
    /\ IF subject = "image" THEN Image!Init
       ELSE /\ image = <<>> /\ total_read = 0 /\ alloc_ptr = 0 /\ ph_i = 0 /\ mem = <<>>
            /\ execute_protect = {} /\ map = <<>> /\ image_pc = "read"

SlabNext == subject = "slab" /\ Next /\ UNCHANGED <<subject, cursorVars, reserveVars, earlyVars, imageVars>>
CursorNext == subject = "cursor" /\ Cursor!Next /\ UNCHANGED <<subject, vars, reserveVars, earlyVars, imageVars>>
ReserveNext == subject = "reserve" /\ Reserve!Next /\ UNCHANGED <<subject, vars, cursorVars, earlyVars, imageVars>>
EarlyNext == subject = "early" /\ Early!Next /\ UNCHANGED <<subject, vars, cursorVars, reserveVars, imageVars>>
ImageNext == subject = "image" /\ Image!Next /\ UNCHANGED <<subject, vars, cursorVars, reserveVars, earlyVars>>

MCSpec ==
    /\ MCInit /\ [][SlabNext \/ CursorNext \/ ReserveNext \/ EarlyNext \/ ImageNext]_all
    /\ WF_all(ReserveNext)
-----------------------------------------------------------------------------
\* The loop of add_range ends, for every region but the unlucky ones.
ReserveTerminates == subject # "reserve" \/ Reserve!Terminates

\* The page allocator gets all the usable memory of the firmware's map and
\* nothing else, and the direct map covers that map exactly; the kernel that
\* the loader enters is the one that was linked.
EarlyInv ==
    /\ subject = "early" => Early!EarlyInv
    /\ subject = "image" => Image!ImageInv
=============================================================================
