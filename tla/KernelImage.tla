---------------------------- MODULE KernelImage ----------------------------
(***************************************************************************)
(* How the boot loader brings the kernel into memory: load_kernel          *)
(* (bootloader/src/elf.rs) and the mapping main() makes of the result.     *)
(* Addresses count units of which UEFI_PAGE_SIZE make a page of the        *)
(* firmware and PAGE_SIZE one of the kernel.                               *)
(*                                                                         *)
(* An image is [valid, len, entry, phdrs]: whether the file is an ELF file *)
(* of the right kind with its headers inside, its length, its entry point  *)
(* and its program headers [load, exec, write, offset, vaddr, filesz,      *)
(* memsz].  aarch64.lds aligns every segment to PAGE_SIZE.                 *)
(***************************************************************************)
EXTENDS Integers, Sequences, FiniteSets, FiniteSetsExt, SequencesExt

CONSTANTS UEFI_PAGE_SIZE, PAGE_SIZE,
          Images,     \* the files there may be
          Places,     \* what allocate_pages may return
          PhysTop     \* the last address of the memory

VARIABLES image,
          total_read,
          alloc_ptr,      \* the pages that were allocated, -1 before
          ph_i,           \* the program header at hand
          mem,            \* what is at an address: 0, byte n - 1 of the file, or Old
          execute_protect,   \* the pages with EXECUTE_PROTECT
          map,            \* the kernel's mapping, page by page
          pc

vars == <<image, total_read, alloc_ptr, ph_i, mem, execute_protect, map, pc>>

Old == -1
align_down(a) == (a \div PAGE_SIZE) * PAGE_SIZE
align_up(a, n) == ((a + n - 1) \div n) * n

Loads == {p \in ToSet(image.phdrs) : p.load}
min_vaddr == Min({p.vaddr : p \in Loads})
max_vaddr == Max({p.vaddr + p.memsz : p \in Loads})
load_size == align_up(max_vaddr - min_vaddr, UEFI_PAGE_SIZE)
\* one page of the kernel more than the image needs, so that it can be aligned
Allocated == alloc_ptr .. alloc_ptr + load_size + PAGE_SIZE - 1
base_phys == align_up(alloc_ptr, PAGE_SIZE)

Init ==
    /\ image \in Images
    /\ total_read = 0 /\ alloc_ptr = -1 /\ ph_i = 1
    /\ mem = [a \in 0 .. PhysTop |-> Old]
    /\ execute_protect = {} /\ map = <<>>
    /\ pc = "read"

Goto(from, to) == pc = from /\ pc' = to
-----------------------------------------------------------------------------
\* kernel.read may return less than was asked for.
Read ==
    /\ pc = "read" /\ total_read < image.len
    /\ \E r \in 1 .. image.len - total_read : total_read' = total_read + r
    /\ UNCHANGED <<image, alloc_ptr, ph_i, mem, execute_protect, map, pc>>

\* It returns 0, or an error.
ReadFails ==
    /\ total_read < image.len /\ Goto("read", "failed")
    /\ UNCHANGED <<image, total_read, alloc_ptr, ph_i, mem, execute_protect, map>>

ParseHeaders ==
    /\ pc = "read" /\ total_read = image.len
    /\ pc' = IF image.valid /\ Loads # {} THEN "allocate" ELSE "failed"
    /\ UNCHANGED <<image, total_read, alloc_ptr, ph_i, mem, execute_protect, map>>

AllocatePages ==
    /\ Goto("allocate", "zero")
    /\ \E ptr \in Places : alloc_ptr' = ptr
    /\ UNCHANGED <<image, total_read, ph_i, mem, execute_protect, map>>

AllocateFails ==
    /\ Goto("allocate", "failed")
    /\ UNCHANGED <<image, total_read, alloc_ptr, ph_i, mem, execute_protect, map>>

Fill(from, count, Value(_)) ==
    mem' = [a \in DOMAIN mem |-> IF a \in from .. from + count - 1 THEN Value(a - from) ELSE mem[a]]
Zero(k) == 0

ZeroImage ==
    /\ Goto("zero", "segment")
    /\ Fill(base_phys, load_size, Zero)
    /\ UNCHANGED <<image, total_read, alloc_ptr, ph_i, execute_protect, map>>
-----------------------------------------------------------------------------
ph == image.phdrs[ph_i]
dst == base_phys + align_down(ph.vaddr) - min_vaddr
HasSegment == pc = "segment" /\ ph_i <= Len(image.phdrs)

Skip ==
    /\ HasSegment /\ ~ph.load
    /\ ph_i' = ph_i + 1
    /\ UNCHANGED <<image, total_read, alloc_ptr, mem, execute_protect, map, pc>>

\* "Kernel must be W^X"; "Segment file data out of bounds!"
Refuse ==
    /\ HasSegment /\ ph.load
    /\ \/ ph.write /\ ph.exec /\ pc' = "panicked"
       \/ ~(ph.write /\ ph.exec) /\ ph.offset + ph.filesz > image.len /\ pc' = "failed"
    /\ UNCHANGED <<image, total_read, alloc_ptr, ph_i, mem, execute_protect, map>>

Copy ==
    /\ HasSegment /\ ph.load /\ ~(ph.write /\ ph.exec)
    /\ ph.offset + ph.filesz <= image.len
    /\ pc' = "tail"
    /\ LET Byte(k) == ph.offset + k + 1 IN Fill(dst, ph.filesz, Byte)
    /\ UNCHANGED <<image, total_read, alloc_ptr, ph_i, execute_protect, map>>

ZeroTail ==
    /\ Goto("tail", "protect")
    /\ Fill(dst + ph.filesz, ph.memsz - ph.filesz, Zero)
    /\ UNCHANGED <<image, total_read, alloc_ptr, ph_i, execute_protect, map>>

\* set_memory_attributes refuses an empty range: expect("unable to set memory
\* protections").
Protect ==
    LET start_align == align_up(dst, PAGE_SIZE) \div PAGE_SIZE
        end_align == align_up(dst + ph.filesz, PAGE_SIZE) \div PAGE_SIZE
    IN /\ pc = "protect"
       /\ IF start_align = end_align
          THEN pc' = "panicked" /\ UNCHANGED <<ph_i, execute_protect>>
          ELSE /\ pc' = "segment" /\ ph_i' = ph_i + 1
               /\ execute_protect' = execute_protect \cup
                      IF ph.exec THEN {} ELSE start_align .. end_align - 1
       /\ UNCHANGED <<image, total_read, alloc_ptr, mem, map>>

CheckEntry ==
    /\ pc = "segment" /\ ph_i > Len(image.phdrs)
    /\ pc' = IF min_vaddr <= image.entry /\ image.entry < max_vaddr THEN "map" ELSE "failed"
    /\ UNCHANGED <<image, total_read, alloc_ptr, ph_i, mem, execute_protect, map>>

\* main: map_region from base_virt_align to base_phys_align.
MapKernel ==
    /\ Goto("map", "enter")
    /\ LET first == align_down(min_vaddr) \div PAGE_SIZE
           count == align_up(load_size, PAGE_SIZE) \div PAGE_SIZE
       IN map' = [v \in first .. first + count - 1 |-> align_down(base_phys) \div PAGE_SIZE + v - first]
    /\ UNCHANGED <<image, total_read, alloc_ptr, ph_i, mem, execute_protect>>

Next ==
    \/ Read \/ ReadFails \/ ParseHeaders \/ AllocatePages \/ AllocateFails \/ ZeroImage
    \/ Skip \/ Refuse \/ Copy \/ ZeroTail \/ Protect \/ CheckEntry \/ MapKernel

Spec == Init /\ [][Next]_vars
-----------------------------------------------------------------------------
\* The loader writes only to the pages it allocated.
WritesOwnPages == \A a \in DOMAIN mem : mem[a] # Old => a \in Allocated

\* When the kernel is entered, every segment is where it is linked: its bytes
\* of the file, and zeros up to its size in memory.
Translate(v) == map[v \div PAGE_SIZE] * PAGE_SIZE + (v % PAGE_SIZE)
SegmentsInPlace ==
    pc = "enter" =>
        \A p \in Loads : \A k \in 0 .. p.memsz - 1 :
            mem[Translate(p.vaddr + k)] = IF k < p.filesz THEN p.offset + k + 1 ELSE 0

\* And the firmware's attributes of the pages with bytes of the file: those of
\* code are executable, the others are not.
AttributesMatch ==
    pc = "enter" =>
        \A p \in Loads : \A k \in 0 .. p.filesz - 1 :
            (map[(p.vaddr + k) \div PAGE_SIZE] \in execute_protect) <=> ~p.exec

\* The kernel that is entered is the one that was linked.
ImageInv == WritesOwnPages /\ SegmentsInPlace /\ AttributesMatch
=============================================================================
