# Mars: TLA+ models and proofs

Mars is an ARMv8-A kernel in Rust with its own UEFI boot loader. This directory holds TLA+ models
of its concurrent and stateful parts, the TLC configurations that check them on small instances,
and proofs that TLAPS checks for all instances. `PROJECT.json` lists every run, property, mutant,
theorem, finding and hazard, and maps each definition to the source lines it stands for.

Contents: [the system](#the-system) · [how it is modelled](#how-the-models-are-written) ·
[modules](#modules) · [runs](#runs) · [proofs](#proofs) · [findings](#findings) ·
[observations](#observations) · [not modelled](#not-modelled) · [plan](#plan)

## The system

One kernel runs on several cores. The boot loader loads it, the boot core takes over the firmware's
memory, brings up the GIC and the other cores, and every core ends in its idle thread, from which
interrupts take it. What devices and cores there are comes from the firmware's ACPI tables. There are
no processes yet.

| part (source) | state it keeps | operations | what makes it correct |
|---|---|---|---|
| Locks (`klib/src/sync.rs`) | ticket and user counters; a flag; an `i32` of readers and writer | lock, unlock, steal, read, write; WFE and SEV | exclusion across wrap-around; order of service; no core sleeps through its wake-up |
| Sleeping mutex (`sync.rs`, `scheduler.rs`) | flag, wait queue | lock, unlock, block_current | exclusion; a waiter is queued and woken |
| Page allocator (`klib/src/pm/page/mod.rs`) | zones, free lists inside the free pages, a metadata byte per page | add_range, alloc, free, transition_dmap, wipe | blocks partition the zones; lists, links and metadata agree; buddies merge |
| Page-table mapper (`pm/page/mapper.rs`) | four levels of tables | map, unmap with pruning, clone, free, identity map | each call changes one translation; no table leaks or is used after it was freed |
| Slab allocator (`klib/src/vm/slab.rs`) | per class a list of pages with free objects, linked through page headers | alloc, free | no object is handed out twice; no page leaves with an object in use |
| Address space (`klib/src/vm/user/`) | page tables with an RwLock and PteMeta for each | lock a range, map, unmap, mark, query, drop | a cursor has its subtree to itself; cursors do not wait in a circle |
| Early memory (`kernel/src/earlyinit/mem.rs`) | firmware's map, its copy, zones, direct map | merge and copy, two stages, map_all_dmap, page descriptors | the allocator gets all usable memory and nothing else; device memory is never mapped cacheable |
| Boot loader (`bootloader/src/elf.rs`, `main.rs`) | file buffer, image, attributes, mapping | read, check, place segments, map | every segment is where it was linked |
| SMP bring-up (`earlyinit/smp.rs`, `idle.rs`, `platform.rs`) | boot stacks and arguments, `ready` flags | boot_secondary, secondary_init, idle_init, idle_entry | a boot stack is freed only when its core has left it; all cores come up |
| Scheduler (`klib/src/scheduler.rs`, `thread.rs`) | run queues, current threads, spawn counter | register_cpu, spawn, schedule | a thread is in one place and on one core; indices and assertions hold |
| Timer (`kernel/drivers/generic-timer`) | enable, mask, compare | set-up, disarm, re-arm, schedule | a tick is taken once and the next one comes |
| Exceptions (`klib/src/exception.rs`, `kernel/src/earlyinit/exception.rs`) | register frames on the stack | entry and return macros, el1_load_register_file | a thread gets back every register and its stack |
| ACPI, devices (`kernel/drivers/acpi`, `earlyinit/acpi.rs`, `gicv3.rs`, `platform.rs`, `lut.rs`, `klib/src/hardware/device.rs`) | device tree, per-core records, core numbers, interrupt controller, PSCI conduit | acpi_init, driver passes on every core | nodes, numbers and redistributors fit together; a complete firmware boots |
| AML (`kernel/drivers/acpi-aml`) | parsers of nested blocks; a cursor over resource descriptors | format_aml_stream, CrsIter, into_rss | no read outside a block; what was encoded is what is reported |
| LPI allocator (`gicv3/lpi_alloc.rs`) | bitmap and hint | alloc, reserve, free | `None` only when all LPIs are taken; none is given out twice |
| ITS (`gicv3/mod.rs`) | command ring, device tables, two maps of events, handlers, init state | push_cmd, MAPD/MAPTI/DISCARD/SYNC/MAPC, register, map, unmap, init | the ring is a queue; late commands do no harm; no core enters before the global set-up |
| Single interrupts (`gicv3/mod.rs`) | enable registers, LPI property bytes and their cached copies, handlers | enable_interrupt, disable_interrupt, set_priority, register_handler, on_interrupt | an interrupt is as its driver was told; a handler stays while it runs |
| PCIe (`kernel/drivers/pcie`) | configuration space, BARs, MSI-X table | scan, probe_bars, capability walk, enable_msix | every endpoint once; registers restored; no vector without an LPI |
| Block layer (`klib/src/block`) | r/w/e counts of each provider and consumer | access, request, drop | counts along a chain agree; requests stay inside partitions |
| VFS (`klib/src/vfs`) | offsets, sizes, tree of directory entries | read, write, lookup, open, create_file | sizes follow every write; the cache answers as the file system would |

Who calls whom: the slab allocator takes pages from the page allocator, the mapper takes tables from
it; address spaces use the mapper below their locks; `schedule()` is reached from the interrupt
handler that the timer triggers; `enable_msix` registers a device and maps events with the GIC
driver; `acpi_init` fills the tree whose nodes the drivers are started from, on the boot core first
and then on each core that `boot_secondary` starts; everything uses the locks.

What is hard here, and where the models put their effort: sleeping in WFE against SEVs that come too
early; operations that drop a lock half-way (slab refill, `msi_unmap_event`, path lookup); commands
to the ITS that time out and are executed later; links kept inside memory that changes owner;
rounding between the firmware's 4 KiB pages and the kernel's 16 KiB pages; and start-up, where one
core frees what another still stands on. `PROJECT.json` has them as `hazards`, each at its line.

## How the models are written

* Lock-free code has one action per atomic access. Code under a lock is one action per critical
  section: the lock modules justify that, and a step that happens after the lock is dropped is an
  action of its own (`FreePage` of `Slab`, `FreeLpi` and `RemoveHandler` of `GicMsi`).
* `pc[c]` says where core `c` is in its call; a thread may start any call whenever it is idle.
* WFE and SEV are modelled with the architecture's event register, which also other events may set
  (`OtherEvent`).
* The memory model is sequentially consistent. The lock modules follow the acquire/release order of
  the code; what weaker orders would allow is not modelled.
* Hardware and firmware (the ITS, PSCI, the MMU's walk, devices, file systems, UEFI) do whatever the
  code must cope with; their actions are marked external in the map.
* A line `\* Mutant: ...` introduces a faulty version of the definition below it; each property is
  known to fail with one of them.
* Several parts that do not interact share a run: a variable `subject` (`lock_kind` for the locks),
  chosen at the start, says which part a behaviour is about, and the others stay as they are. The
  parts' properties are checked under `subject = ...`, or hold in the state the part stays in, so
  nothing is lost by it.

## Modules

**Locks.** `AbstractFairLock` (holders in the order of their requests) and `AbstractRwLock` are what
the locks promise; a lock without readers implements the latter as one that is only ever written. `TicketLock` is `TicketLock` and
`FairSpinlock` (counters modulo `Modulus`, one action each for the fetch_add, the load, WFE, the
unlock and SEV); `FairSpinlock` adds the panic handler's `steal()`; `UnfairSpinlock` has the compare_exchange and
the two SEVs; `RwLock` has the reader count and the writer's claim bit of the `i32`, claim before
drain, and spurious failures of compare_exchange_weak; `SleepingMutex` has both attempts, the wait
queue and `block_current`. `LockProofs`: theorems about all five, over `MCLocks`.

**Memory.** `ReserveLoop` is the loop of `add_range` that iterates the number of metadata pages, and its
arithmetic. `PageAllocator` keeps pointers as numbers in two address spaces (physical, and
`DMAP_START` above it), list nodes inside pages, the metadata byte of every page; it implements
`AbstractPageAllocator` (disjoint live blocks inside owned memory). `PageMapper` keeps tables as
arrays of entries with their valid and table bits, since the code tests different bits in different
places; it implements `AbstractMap`. `Slab` has one size class plus large objects, the page's header
(`next`, `prev`, `free_count`), and one action for each stretch between lock and unlock; a large object
is one page of the model that adds `LargeSize` to `used_bytes`, in a step after the allocation, and takes it
off in a step after the release. It implements `AbstractHeap`. `UserSpace` has the descent with read guards, the claim and the drain of
the write guard, map, unmap and mark page by page, the tables unmap frees one by one, and the release of
the guards one by one. A guard a cursor already holds and asks for again is a deadlock with itself: pc
`"stuck"`; the other guards it takes below its table are never contended (`Exclusive`). `KernelImage` and
`EarlyMemory` are boot-time code of one core: their difficulty is in the data, so runs give them many
inputs and few steps. `MemoryProofs`: theorems about `Slab`, `UserSpace` and `ReserveLoop`.

**Cores.** `Scheduler` has `register_cpu`, `spawn` and `schedule` as operators on run queues;
`SmpBoot` composes them with the boot of every core and with interrupts, each handler step by step.
`timer_irq` says whether `TIMER.set_irq` was called: nothing in the kernel does, so `TimerIrqs =
{FALSE}` is the kernel as it stands and `TRUE` what it is built for. `Timer` is one core's timer at
the level of register writes: the handler's writes are a sequence `todo`, time passes between any two.
`Exceptions` executes the macros of the vector table instruction by instruction: a macro is a sequence
of instructions (store or load at an offset from a base register, move to or from a special register),
the stack a function from words, and the thread's registers are told apart from each other and from
those of earlier exceptions. `BootProofs`: theorems about `SmpBoot`, `Timer`, `PcieMsix` and `PcieBars`.

**Platform.** `AcpiDevices` goes from the firmware's tables to running drivers: the walk over the XSDT and
the entries of the MADT, the nodes each table adds, the numbering of the cores, and the two passes over
the nodes that every core makes, with each early return and panic on the way. A table is a record of
what the kernel reads of it. `Aml` has the parser's readers as operators on positions of the
table and its nested calls as a stack of slices; inputs are encoded declarations, so what the parser
reports can be compared with what was encoded.

**GIC.** `LpiAllocator` has alloc's loop one word per step, with the hint it moves while it counts
from it. `ItsQueue` is push_cmd with its retries and both error exits against an ITS that executes
and stalls when it likes; it implements `ItsCommands`, the queue as the callers see it (a command is
executed in order, perhaps after push_cmd has given up). On that are built `GicMsi` (events, LPIs,
handlers), `GicItt` (device tables), `GicInit` (global set-up by one core, the others waiting in WFE) and
`GicIrq` (single interrupts). Its behaviours have one `part` each, since the three share nothing. "registers":
writes to the enable registers take effect late, and RWP tells only of those that disable, so an enable may
return before the interrupt is on. "lpi": the read-modify-write of a property byte in two steps, and its INV
and SYNC, which may fail; the redistributor reads the byte whenever it likes. `mapped` is `lpi_to_event`,
which decides whether an INV is sent, and `events` what the ITS knows; they differ after an msi_unmap_event that failed.
`confirmed` has the drivers that were told Ok with an event mapped: an Ok without one says nothing about
caches, as nothing was invalidated. "handlers": the table of private and shared interrupts, an AtomicRefCell that
stays borrowed while a handler runs, and that of LPIs, an RwLock whose guard is dropped first; an interrupt may
arrive inside the calls that write either. `Gic` puts all of these side by side. It has the lemmas about `LpiAllocator`, `ItsQueue`, `GicItt` and
`GicInit` (those about `GicMsi` and `GicIrq` are at their ends), the specification of the whole and the theorems.

**PCIe.** `PcieScan` has the recursion of scan_bus as an explicit stack over every small topology,
`PcieBars` the register writes of probe_bars, registers being sets of bits with read-only ones,
`PcieMsix` the capability walk over any linked list (circular ones included) and enable_msix.

**Storage.** `BlockLayer` has counts along chains of partitions, failing flushes, drops and requests
in machine words that end at `MaxWord`. `VfsFile` has threads that share open files
of an inode and the size grown by its compare_exchange loop. `VfsLookup` has the tree of directory entries
over a file system that other threads change through create_file. `StorageProofs`: theorems about
`VfsFile` and `VfsLookup`.

`MCLocks`, `MCMemory`, `MCVm`, `MCBoot`, `MCStorage` instantiate these for TLC; `Gic` needs no such module. `MCVm`,
`MCBoot` and `MCStorage` extend `MemoryProofs`, `BootProofs` and `StorageProofs`, so that the properties a run checks
are the ones the theorems name. Where a module is instantiated, what its proofs assume of its constants is
its definition `Assumptions`, a hypothesis of the theorem and an ASSUME of the MC module.

## Runs

Start one with `tlc -config <cfg> <module>` in this directory.

| run (module, cfg) | instance | properties |
|---|---|---|
| `locks` (`MCLocks`) | three cores; counters modulo 4, so they wrap; one panic; at most two readers | `TicketsInv`, `StateInv`, `ImplementsFairLock`, `NoLostWakeup`, `EveryLockIsALock`, `WriterPreference` |
| `memory` (`MCMemory`) | zones of 6 and 3 pages, orders 0 to 2; a page-table tree with two entries a table | `Inv`, `ImplementsAllocator`, `MapperInv`, `ImplementsMap` |
| `vm` (`MCVm`) | slab: two cores, three pages of three objects; cursors: two threads, three levels of two entries, three ranges, two of which overlap; every region of up to 33000 pages with the kernel's sizes, but the two of finding 1; 32 images; 7776 firmware maps | `Inv`, `NotStranded`, `UsedExact`, `ImplementsHeap`, `CursorInv`, `ReservationExact`, `ReserveTerminates`, `EarlyInv` |
| `storage` (`MCStorage`) | two consumers of a partition and one of the disk; nested partitions for requests; two threads on two open files; two threads looking up and creating | `BlockInv`, `FileSizeExact`, `CacheInv`, `AnswersRight`, `EntriesStay` |
| `boot` (`MCBoot`) | four cores, a spawn counter that wraps at 3; one timer with frequencies that are zero, too low, usual and overflowing; every segment of three buses, BAR layouts of three registers, capability lists of three; 521 firmwares of up to three cores; 720 encoded AML tables, each prefix of those up to 60 bytes, 16105 byte strings of up to four bytes, 182 lists of up to two resource descriptors; a thread at EL0 and EL1, at three depths of its stack, that changes all its registers twice | `BootInv`, `TimerInv`, `PcieInv`, `MsixInv`, `AcpiInv`, `AmlInv`, `ContextInv`, `CoresUp` |
| `gic` (`Gic`, `MCGic.cfg`) | eight LPIs in words of three bits; a ring of three slots and one retry; three drivers and two LPIs; two devices and four tables; three cores in init; two drivers with three interrupts each and a priority whose low bits are dropped | `Inv`, `NoneMeansFull`, `LpiExclusive`, `IttInv`, `InitInv`, `IrqInv`, `RingIsQueue`, `MsiCorrect`, `InitReturns` |
| `reserve_loop_unlucky` (`ReserveLoop`) | regions of 16353 to 16355 pages | violated: `Terminates` |
| `smp_no_preemption` (`SmpBoot`, `MCSmpBootPreempt.cfg`) | two cores | violated: `Preempts` |
| `smp_context_panic` (`SmpBoot`, `MCSmpBootPanic.cfg`) | two cores | violated: `NoContextPanic` |
| `sleeping_mutex_blocks` (`SleepingMutex`) | two cores | violated: `BlocksOrEnters` |
| `gic_msi_handler` (`GicMsi`) | two drivers, two LPIs | violated: `HandlerFound` |

**What the passing runs show.**

* `locks`: tickets stay a contiguous range from `users` to `ticket` with the holder first, although the
  counters wrap; cores enter in the order of their fetch_add; with each lock no core stays in WFE
  while the lock is free, and every lock is the abstract lock, the stolen one (no other core at it)
  and the sleeping mutex (both ways in) included. The word of the RwLock always encodes guards and claim;
  after a claim no reader enters; the writer that has claimed is served and guards keep being handed out.
* `memory`: after any sequence of calls, in either address space, every page is in exactly one block,
  lists and metadata describe the same blocks, buddies are merged and an allocation fails only when
  no aligned run is free. The mapper's trees own exactly the allocated tables and each call changes
  exactly one translation.
* `vm`: the slab list reaches exactly the pages with free objects although refill and give-back happen
  outside the lock; `used_bytes` is what is in use, large objects included, and never wraps. What a cursor covers is its own, no table a thread is
  about to lock is freed, cursors never wait for each other in a circle. `add_range`
  reserves exactly the pages the metadata needs. The image the loader enters
  is the linked one, and it writes only to its allocation. No run of usable pages as long as
  the allocator's minimum is passed over, none is given to it twice, and it gets nothing of the kernel's,
  the firmware's or the map's copy; a page shared with device registers is mapped as device memory.
* `storage`: counts of providers and consumers agree through refused opens, failed flushes and drops; an
  exclusive open is alone; requests stay inside every partition of their path; racing writes never
  shrink a file; the cache of directory entries says what the file system says, and a lookup answers as
  it would, although others look up and create.
* `boot`: no core is on a freed boot stack, `spawn` and `schedule` index existing queues, no idle thread
  is lost or on two cores, and (as long as nothing calls `set_irq`) all cores come up. The timer's
  line is down when its interrupt is ended and a deadline lies ahead afterwards. A scan adds every
  endpoint it can reach, once if no two bridges lead to one bus, and only descends; BARs are restored and
  sized exactly, with decoding off meanwhile; MSI-X is enabled only over entries that are masked or have
  an LPI. Whatever the order of the tables and of the MADT's entries, nodes, core numbers and the
  controller's resources agree, and a core that is up has called every handler once. The AML parser never
  leaves the block it is in, reports what was encoded, in its nesting, and fails on what is cut short.
  Every exception that returns restores all registers and leaves the stack above (and, at EL1, the red
  zone below) alone; a new thread starts with the registers it was created with.
* `gic`: see the properties' comments. The interesting part is what stays true when a command times out
  and is executed later: no LPI for two events, no table freed that the ITS may still use, `Ok` only
  for an executed command. Private and shared interrupts are off when disable_interrupt has returned and
  on, or about to be, when enable_interrupt has, although other cores write the same registers. An LPI's
  byte has both fields as last asked, and once a call with an event mapped succeeded, whatever failed before,
  no redistributor has an older one. No handler of a private or shared interrupt is replaced while it runs.

**Bounds.** They are the smallest at which the hard cases occur: three cores so that a third can
slip in between two; counters that wrap within a behaviour; zones whose sizes are no powers of two,
so that buddies fall off the end; an LPI range with a partial last word; a ring small enough to fill
with abandoned commands; words of memory small enough that `lba + blocks` passes the end. Where a
guard caps something the code does not, it is a named constant: `MaxPanics`, `MaxCmds`, `QueueLimit`,
`InitQueueLimit` (commands in flight), `MaxOpen`, `MaxBuffer`, `MaxOffset`, `LastTime`, `CutUpTo`, `Generations`.
The stack of `Exceptions` (`StackTop`) holds a frame below the deepest thread (`Depths`); registers all change
between exceptions, so two generations tell every stale value from the right one. Symmetry is used
in `storage` only, over the threads and the inodes not yet created, with no liveness property.

**Deadlock** is checked in `gic_msi_handler`. The other runs contain parts that really end
(a boot, a scan, an init, a call that panics) and switch it off; that nobody waits for ever is stated
by the liveness properties and, for cursors, by `NoCircle`.

**Fairness.** Weak fairness of a core that has begun a call (`Step(c)`): cores execute instructions, and
critical sections are finite. No core has to start a call, and no event other than SEV is promised to
WFE. `GicInit` also assumes that the ITS executes commands. `SmpBoot` assumes strong fairness for what
a core runs between interrupts, since interrupts disable it again and again without using up its
time; `TicksFairness`, used only for `Preempts`, says that the timer's interrupt keeps coming, which is
what `irq_current` arms it for. `SleepingMutex`, used only for a violation, has
strong fairness for taking the wait queue's lock. That is more than an UnfairSpinlock gives, so the
counterexample is no matter of starvation.

## Proofs

TLAPS proves the following for every finite set of cores and every value of the other constants
(`tlapm <module>.tla`). Each proof has the same shape: an invariant, that Init implies it, one lemma
per action that keeps it, and the property as a consequence.

* `LockProofs`, about `MCLocks`: `TicketDiscipline`, `MutualExclusionHolds`, `TicketLockIsFair`,
  `LockWordsAreExact`, `WriterPreferenceHolds`, `LocksAreLocks`. Assumes fewer cores than values of a
  counter. Mutual exclusion alone is not inductive: two equal tickets would break it two steps later.
  `TicketsInv` says where the outstanding tickets lie (distance from `users`, modulo the width); `DistInc`
  and `DistInjective` are the modular arithmetic it needs. Fairness in the abstract lock is a queue of
  cores; the mapping puts a core at the distance of its ticket, and an unlock moves every distance down by
  one (`ImplementsFairLock`). For the RwLock exclusion needs the exact meaning of the word (`StateInv`): that
  the drained writer sees no readers, and that its store of 0 discards none. A stolen ticket lock is
  covered as long as no other core is at it when it is stolen (`QuietPanic`, a hypothesis of
  `LocksAreLocks`, as the runs have it: without it two cores have the console, see the observations).
* `Gic`: nine theorems, over its own lemmas and those of `GicMsi` and `GicIrq`. Assumes that no core, driver or
  device is called Nobody and no block, driver or LPI None.
  * `InvHolds`, `HintHolds`, `NoneMeansFullHolds`, for every range and word size. The loop of alloc adds its
    index to a hint that it moves itself; `LoopInv` says that everything below their sum is taken, which
    holds because only the last word can have bits beyond the range (`TailIsLast`).
  * `RingIsAQueue`: push_cmd with its wrapping offsets, retries and both error exits implements `ItsCommands`.
    The commands not yet executed are the slots from `creadr` to `cwriter`; one slot always stays free, so
    that equal offsets mean an empty ring, and only the core in its spin waits for one.
  * `LpisAreExclusive`, `MsiIsCorrect`, for any number of drivers, LPIs and events. An LPI is named by the
    allocator, by the ITS, by commands still in the queue and in the two tables, and msi_unmap_event undoes
    these one by one: the invariant (`IInv` of `GicMsi`) says for each place of a call which of them name
    its LPI, and that a command given up keeps its LPI from the allocator.
  * `IttsAreLive`: a block is named by the ITS, by a command in the queue, in `device_itts` and by a call under
    way (`Refs`). `RefsInv` keeps these allocated and apart; freeing is safe because `CallsInv` says that a
    driver whose command has been executed has no other command left in the queue.
  * `InitIsOrdered`: that nobody is early follows from who may lead. `OrderInv` says that one core is between
    the exchange and the store of 2, and reads off its place what it has set up; `QueueInv` ties the
    command in the queue to the core that waits for it.
  * `IrqHolds`, by parts: a write without effect is the last to its interrupt, and one that disables is its
    driver's current call (`RegistersInv`); the byte holds what was asked, and a call under way has read the
    current one (`BytesInv`; `ByteFacts` is the arithmetic of the two fields); a cached byte is old only where no
    invalidation was confirmed, or until the one at the end of the queue is executed (`CacheInv`). Assumes
    that priorities are bytes.
* `MemoryProofs`:
  * About `Slab`, for any number of cores, pages and objects per page: `InvHolds`, `ListHolds`, `ObjectsHold`,
    `HeapImplemented`, `UsedIsExact`, `NoneStranded`. List, objects and the pages cores have in hand need each
    other: the links are right only for settled pages (`HandInv` says which those are), and a page that is
    given back has no object in use only because `free_count` is the size of its free list. `used_bytes` lags
    behind: it counts the objects in use and those that a core has given back without having got to the
    counter, and `LargeSize` for each large object that is in use or was just given back. That no page is stranded says that a list can be followed to its end, which is an induction;
    it is stated by closed sets instead (a page is in every set that has `plist` and, with a page, its `next`),
    and follows because no pages are linked in a circle (`ListEnds`: of any of them, one has its `prev`
    outside).
  * `CursorsAreSafe`, about `UserSpace` and from the lemmas of `UserSpaceProofs`, for any number of threads,
    any ranges and tables of any depth and width.
    What a cursor has to itself is not inductive: it follows from which guards each thread holds. `LockInv`
    gives every thread exactly the read guards on the path to its table and the write guard of that table;
    two cursors with one table above the other would then need a guard that is both read and claimed.
    `PathInv` says that all pages of a range are below the table a thread has come to, `TreeInv` that a table
    has the tables above it. Cursors do not wait in a circle because they lock downwards: of the threads
    that are not idle, one at the lowest level can wait only for a claim on its own table, and who has that
    claim waits for nobody, since read guards belong to threads further down. Assumes that the pages of a
    range lie between its first and its last.
  * `Reserves`, about `ReserveLoop`, for pages, Zones and regions of any size: what the loop leaves with is
    exact (that it leaves is not always so, see finding 1). Assumes that a Zone is smaller than a page.
* `BootProofs`:
  * `CoresBootSafely`, about `SmpBoot`, for any number of cores. That a stack is free only when its
    core has left it, and that every queue `spawn` and `schedule` index exists, follow from `ProgressInv`,
    which reads off a core's place where it stands and what it has done. `ThreadPlacedOnce` says where idle
    threads are without counting them (counting would need induction): no two places hold the same, and
    exactly the spawned ones have a place. It needs both directions, since schedule() moves two threads at
    once.
  * `TimerTicks`, about `Timer`, for every frequency and period. The invariant lists what may be left of the
    set-up and of the handler, and says from which write on the deadline is out of reach, and from which it
    is due within a period. Assumes that the counter is read before it reaches the largest number.
  * `MsixEnables`, about `PcieMsix`, for any list of capabilities and any size of the table. `FindInv`: a visited
    capability leads to a visited one or to the current one, so that a walk that ends has seen the whole
    list, and one that comes back to where it was has too. `TableInv`: entries before the current one are
    done with, those after it are masked.
  * `BarsRestored`, about `PcieBars`, for any registers: at most one does not hold its address, its
    first value is kept, and decoding is off from the first write to the last.
* `StorageProofs`:
  * `SizeIsExact`, about `VfsFile`, for any number of threads, open files and bytes. `SizeExact` needs that no
    write under way ends beyond what the file system took, or its exchange would carry the size past that.
  * `CacheIsCoherent`, `RacingWalksAgree`, about `VfsLookup`, for any tree, names and paths. The cache is right only
    because what a walk was told while it held no lock stays true: `CallsInv` says so for every call
    between its question and its insert, and holds because files are only added.
  * `AnswersAreRight`: a call that ends has the answer the file system alone would give. The reference is
    a recursive function over the path (`Steps`). `WalkInv` says that a walk is where `Steps` is after the parts
    that are done with; another thread's create may change only values that were None (`StepsGrow`). Facts
    about all of a path are proved with `Inductive`, induction over a set of numbers: the library's `WFMin` takes
    a set, not an operator, so the provers can use it. Where the walk of create_file ends, what open()
    found missing is still missing or was created meanwhile. Assumes `NamedLast`: a path with ".." before its last part
    ends with a name. Without it the statement is false, see the observations.

Only model-checked: everything else. Liveness under fairness and ENABLED (`NoLostWakeup`, `InitReturns`,
`CoresUp`, `ReserveTerminates`) are out of the prover's reach. What folds and
recursive operators compute would need an induction for each of them, over the library's definitions:
`BlockInv` (sums over consumers), `AmlInv`, `AcpiInv` and `EarlyInv` (parsers and loops over tables), the
page allocator's `Inv` (lists, carving and merging, powers of two), `MapperInv` and `ImplementsMap` (a
tree is followed through four levels of memory and its tables are counted), and of `PcieInv` the scan and
the sizes of BARs. `ContextInv` is a symbolic execution of fixed length whose every instance is the same.
The invariants the proofs use are checked by the runs too, or were when they were written: `Inv`,
`TicketsInv`, `StateInv`, `BootInv` and `CacheInv` are inductive as they stand or nearly so,
`FileSizeExact`, `LpiExclusive`, `IttInv`, `InitInv` and `IrqInv` contain the invariant of their part,
and the `IInv` of `UserSpace`, `ReserveLoop`, `Timer`, `PcieMsix` and `PcieBars` and `LookInv` of
`VfsLookup` hold on the instances of the runs.

## Findings

Each is shown by a run whose property states what the repository says.

1. **`add_range` may not return** (`pm/page/mod.rs:114`). The number of metadata pages is iterated to a
   fixed point that need not exist: for 16354 pages it alternates between 2 and 1. (`ReserveTerminates`
   shows that up to 33000 pages only two sizes do.)
2. **No preemption** (`earlyinit/exception.rs:94`). `README.md` lists preemptive scheduling, but nothing calls
   `Timer::set_irq`, so no interrupt is recognised as the timer's and `schedule()` is never called.
3. **`schedule()` panics on its first switch** (`scheduler.rs:162`): it marks the next thread Running and then
   uses `with_ctx_mut`, which asserts that it is not. It does so with the queues' lock held.
4. **A contended `SleepingMutex` hangs** (`sync.rs:70`): lock() holds the wait queue's guard while
   `block_current` locks the same queue.
5. **A new LPI handler can be lost** (`gicv3/mod.rs:886`): `msi_unmap_event` frees the LPI before it removes
   the LPI's handler, so it may remove the handler of the LPI's next user.

## Observations

Behaviour met while modelling for which there is no run. The models include what is marked (M).

* (M) A cursor whose range lies in one leaf waits for itself in `map`, `mark`, `unmap` and `query`:
  `update_leaf_meta` and `query` lock the leaf the cursor holds (`cursor.rs:163`, `:108`), and unmap's
  `free_table` may lock a table on the cursor's path. The driver's cursors on the kernel's address
  space escape this, because `entry_index` masks kernel addresses differently and they cover the root.
* (M) `query` reports a page that was marked but not mapped as Invalid: the entry's valid bit is tested
  before PteMeta (`cursor.rs:102`).
* (M) The copy of the memory map is put at the start of the first usable region whatever its size
  (`mem.rs:141`). What does not fit lies over the regions behind it, which the allocator may be given:
  `AllocatorOwns` therefore speaks of the part inside that region (`Room`). The run has maps where it does
  not fit. `map_all_dmap` relies on the sorted map.
* `descriptor_to_meta` has `todo!()` for several memory types and attribute combinations; `EarlyMemory`
  has only kinds it handles. `populate_alloc_stage1` does not wipe, although its comment says so.
* (M) `load_kernel` aligns `p_vaddr` down but copies to the aligned address, and a segment without file
  bytes panics in `set_memory_attributes`; `aarch64.lds` aligns all segments. The firmware's execute
  protection ends with the loader: main() maps the whole image writable and executable at EL1.
* (M) Two `File` calls on one `File` use the same offset and both advance it (`file.rs:45`). `create_file`
  may replace a cached entry (`vfs/mod.rs:133`).
* open() with the flag create of a path such as `x/../` takes the empty part for the name of the new file.
  The first walk has to miss `x` and somebody to create it before create_file walks to `x/..`, so it is
  rare; the paths of the run do not have it, and `AnswersAreRight` excludes it (`NamedLast`).
* (M) A failed MAPTI leaves its LPI taken for ever (`gicv3/mod.rs:853`), which is what keeps a late command
  harmless. Two cores that register devices at once meet in `borrow_mut` and one panics (`:806`).
* (M) Every device interrupt disarms and re-arms the timer (`exception.rs:67`), so frequent interrupts
  postpone the tick; if CNTFRQ is 0, `arm_after` fails, the error is dropped and no tick comes.
* `steal()` while another core prints gives two cores the console (`sync.rs:243`); the models let a core
  steal only when no other is at the lock. `alloc_phys_page` returns `Ok(0)` when memory is short.
* `enable_msix` leaves the device registered and bus-mastering when it fails. (M) Endpoints
  behind two bridges with the same secondary bus are added twice.
* (M) The handler of an exception is chosen by where it came from, and restore_regs takes that level also
  for the frame it restores: once `schedule()` works, a switch between a kernel and a user thread would
  restore at the wrong one. `schedule()` would also save the old thread's frame at the top of its stack
  instead of where it is; both are behind finding 3. `yield_now` executes `svc` at EL1, whose handler,
  `sync_current`, panics.
* (M) Cores are numbered in the order of the MADT and redistributors in the order of the GICR entries; no
  code compares affinities, so both orders must agree (`platform.rs`). The enabled flag of a GICC is not
  looked at. Two equal MPIDRs share a number. A DSDT that does not parse stops the boot.
* `set_affinity` indexes `irouter` by the interrupt's id although the array begins at id 32, and
  `rdbase_for_redist` turns an address that is already virtual into a virtual one; nothing
  calls `set_affinity`, `set_priority`, `on_interrupt`, `register_handler` or `disable_interrupt`, and nothing
  enables an LPI, so no MSI can be taken yet.
* (M) `update_lpi_prop` is a read-modify-write without a lock: two cores that change one LPI could lose a
  change; in `GicIrq` each LPI has one owner. An LPI's byte is not reset when it is freed. A core that
  takes an interrupt inside `register_handler` panics in `on_interrupt`.
* (M) The comment at `gicv3/mod.rs:766`, copied from the other branch, says that `on_interrupt` panics if the
  handlers of LPIs are being written. `RwLock::read` waits: a core that takes an LPI while it is itself inside
  `lpi_handlers.write()` waits for ever (`OnLpiStuck`). A handler of an LPI may be replaced or removed by
  another core while it runs.
* `descriptor_to_meta` has `todo!()` for memory that is write-through, write-combined or several of these,
  and for kinds of memory it does not list; the firmware maps of the run have none.
* `AddressSpace::drop_table` frees every page that is mapped, one that is mapped twice also twice, and no
  table (`address_space.rs:126`).
* AML: EISA ids are decoded without the byte swap; the parser's nesting is bounded by its input only.
* `delete_blocks` returns NotSupported, its comment says no-op (`block/mod.rs:62`).

## Not modelled

`PROJECT.json` gives the reason for each part. Cache maintenance and CPU-interface functions are an
instruction each; byte-layout macros, console output and the QEMU runner keep no state of interest;
processes are records around an address space that nothing creates. Code nobody calls and that would
be checked against nothing: the AML `TreeBuilder`, `DriverManager`, extended PCIe capabilities, the
timer's `sleep` and `wait`, `kernel/src/acpi`. Within modelled parts: attributes of page-table entries,
`transition_dmap` of the slab allocator, over-aligned slab objects, dropping an address space, system
registers set at boot, checksums (a verdict on a table), single-register GIC accessors, weak memory
order.

## Plan

The order was: locks first, since every other module relies on their atomicity; then the allocators,
where an error shows only much later; then the GIC and SMP start-up, which combine interrupts, cores
and a device; then storage, address spaces, boot-time memory and PCIe. Modules that are to be proved
about keep their constants behind named assumptions, have one action per operation, split their
invariants into named parts and use no recursive operators.

Then the platform: tables, AML, exceptions and single interrupts.

Next:

1. Proofs: `MapperInv`, over tables as a function instead of nested sequences; the scan of `PcieScan`.
2. Composition: `GicMsi` over `ItsQueue` instead of `ItsCommands`; `Slab` over `PageAllocator`;
   `PcieMsix` over `GicMsi`, with several devices; `Exceptions` with `Scheduler`, once a switch gets past
   finding 3.
3. Models: `transition_dmap` of the slab allocator, dropping an address space.
