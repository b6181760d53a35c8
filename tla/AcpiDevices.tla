----------------------------- MODULE AcpiDevices -----------------------------
(***************************************************************************)
(* From the firmware's tables to running drivers: acpi_init walks the XSDT *)
(* and fills DEVICE_TREE, PerCpu and TPIDR; uefi_arm64_bootstrap then      *)
(* calls the handlers of the devices, numbers the cores and starts them    *)
(* one by one, and each calls the handlers again for itself (SmpBoot is    *)
(* what happens in boot_secondary; here a core is ready when its handlers  *)
(* have returned).  A firmware is the number of ACPI2 entries in the       *)
(* configuration table, whether the XSDP and the XSDT pass their checks,   *)
(* and the tables.  Reading a null TPIDR ends in a panic (debug_assert).   *)
(***************************************************************************)
EXTENDS Integers, Sequences, SequencesExt

CONSTANTS CPUs,        \* CpuTopologyId
          Current,     \* the boot core
          Firmwares

VARIABLES firmware,
          curr,          \* XsdtIter.curr
          nodes,         \* DEVICE_TREE.nodes
          use_hvc,       \* USE_HVC
          registry,      \* REGISTRY_LEN, or None while REGISTRY_PTR is null
          tpidr,         \* the PerCpuData, by index, of each core
          controller,    \* INTERRUPT_CONTROLLER
          id_map,        \* CPU_ID_MAP
          pc, at,        \* where each core is, and at which node
          used           \* the handlers each core has called, with the redistributor they used

vars == <<firmware, curr, nodes, use_hvc, registry, tpidr, controller, id_map, pc, at, used>>

None == -1

Init ==
    /\ firmware \in Firmwares
    /\ curr = 0
    /\ nodes = <<>>
    /\ use_hvc = FALSE
    /\ registry = None
    /\ tpidr = [c \in CPUs |-> None]
    /\ controller = <<>>
    /\ id_map = <<>>
    /\ pc = [c \in CPUs |-> IF c = Current THEN "rsdp" ELSE "off"]
    /\ at = [c \in CPUs |-> 1]
    /\ used = [c \in CPUs |-> <<>>]

Goto(c, to) == pc' = [pc EXCEPT ![c] = to]
-----------------------------------------------------------------------------
(* acpi_init *)

FindXsdt ==
    /\ pc[Current] = "rsdp"
    /\ Goto(Current, IF firmware.acpi2 = 1 /\ firmware.checked THEN "tables" ELSE "panic")
    /\ UNCHANGED <<firmware, curr, nodes, use_hvc, registry, tpidr, controller, id_map, at, used>>

\* DeviceNode; count is the redistributor_count of a GicV3, cpu the id of a Cpu.
Node(class, cpu, count, compatible, resources, fundamental) ==
    [class |-> class, cpu |-> cpu, count |-> count, compatible |-> compatible,
     resources |-> resources, fundamental |-> fundamental]

\* MadtIter ends at an entry that is shorter than its own header.
Entries(madt) ==
    LET short == {k \in DOMAIN madt.entries : madt.entries[k].type = "short"}
    IN  IF short = {} THEN madt.entries ELSE SubSeq(madt.entries, 1, Min(short) - 1)

OfType(madt, type) == SelectSeq(Entries(madt), LAMBDA e : e.type = type)

\* Mutant: the frames behind the last redistributor are taken too.
FramesAll(gicr) == gicr.frames

\* The frames of a GICR entry, up to the one with LastRedistributor.
Frames(gicr) ==
    LET last == {k \in DOMAIN gicr.frames : gicr.frames[k].last}
    IN  IF last = {} THEN gicr.frames ELSE SubSeq(gicr.frames, 1, Min(last))

Redistributors(madt) ==
    FlattenSeq([k \in DOMAIN OfType(madt, "GICR") |-> Frames(OfType(madt, "GICR")[k])])

ItsBases(madt) == SelectSeq(OfType(madt, "ITS"), LAMBDA e : e.base # 0)

\* handle_madt and handle_gicv3.
HandleMadt(madt) ==
    LET giccs == OfType(madt, "GICC")
        gicds == OfType(madt, "GICD")
        gicrs == OfType(madt, "GICR")
        here == {k \in DOMAIN giccs : giccs[k].cpu = Current}
        gic == Node("GicV3", Current, Len(Redistributors(madt)), "arm,gic-v3",
                    <<gicds[1]>> \o Redistributors(madt) \o ItsBases(madt), TRUE)
        CpuNode(e) == Node("Cpu", e.cpu, 0, "", <<>>, TRUE)
    IN  IF giccs \o gicds \o gicrs = <<>>
        THEN UNCHANGED <<nodes, use_hvc, registry, tpidr, pc>>
        ELSE /\ registry' = Len(giccs)
             /\ tpidr' = [tpidr EXCEPT ![Current] = IF here = {} THEN @ ELSE Min(here) - 1]
             /\ IF /\ gicds # <<>> /\ gicds[1].version = 3 /\ gicds[1].base # 0
                   /\ \A k \in DOMAIN gicrs : gicrs[k].frames # <<>>
                THEN /\ nodes' = nodes \o [k \in DOMAIN giccs |-> CpuNode(giccs[k])] \o <<gic>>
                     /\ UNCHANGED pc
                ELSE Goto(Current, "panic") /\ UNCHANGED nodes
             /\ UNCHANGED use_hvc

HandleGtdt(gtdt) ==
    /\ nodes' = Append(nodes, Node("Timer", Current, 0, "arm,armv8-timer", <<gtdt>>, FALSE))
    /\ UNCHANGED <<use_hvc, registry, tpidr, pc>>

\* handle_mcfg: a node for each endpoint that PcieScan finds.
HandleMcfg(mcfg) ==
    /\ nodes' = nodes \o [k \in 1 .. mcfg.endpoints |-> Node("Other", Current, 0, "", <<>>, FALSE)]
    /\ UNCHANGED <<use_hvc, registry, tpidr, pc>>

\* handle_fadt: the DSDT is printed, and an error of its parser is unwrapped.
HandleFadt(fadt) ==
    /\ Goto(Current, IF fadt.dsdt_parses THEN "tables" ELSE "panic")
    /\ use_hvc' = fadt.hvc
    /\ UNCHANGED <<nodes, registry, tpidr>>

NextTable ==
    /\ pc[Current] = "tables"
    /\ curr < Len(firmware.tables)
    /\ curr' = curr + 1
    /\ LET table == firmware.tables[curr + 1]
       IN  \/ table.sig = "APIC" /\ HandleMadt(table)
           \/ table.sig = "GTDT" /\ HandleGtdt(table)
           \/ table.sig = "MCFG" /\ HandleMcfg(table)
           \/ table.sig = "FACP" /\ HandleFadt(table)
           \/ table.sig \in {"null", "other"} /\ UNCHANGED <<nodes, use_hvc, registry, tpidr, pc>>
    /\ UNCHANGED <<firmware, controller, id_map, at, used>>

TablesDone ==
    /\ pc[Current] = "tables"
    /\ curr = Len(firmware.tables)
    /\ Goto(Current, "fundamental")
    /\ UNCHANGED <<firmware, curr, nodes, use_hvc, registry, tpidr, controller, id_map, at, used>>
-----------------------------------------------------------------------------
(* init_devices, on the boot core and on the others *)

Filter(n, phase) == n.fundamental <=> phase = "fundamental"

\* gicv3::handle takes apart the resources of the node: resources[0]; skip(1).take(count);
\* the first after skip(1 + count), if any.  (The mapping of each is Map of UserSpace.)
Gic(n) ==
    [distributor |-> n.resources[1],
     redistributors |-> SubSeq(n.resources, 2, 1 + n.count),
     its |-> IF Len(n.resources) > 1 + n.count THEN <<n.resources[2 + n.count]>> ELSE <<>>]

\* redistributors[this_cpu!().id], in init() and in enable_interrupt of a PPI.
HasRedistributor(c, ctl) == tpidr[c] # None /\ tpidr[c] < Len(ctl.redistributors)

Uses(c, n, ctl) ==
    used' = [used EXCEPT ![c] = Append(@, <<n.compatible, ctl.redistributors[tpidr[c] + 1]>>)]

CallHandler(c, n) ==
    LET ctl == IF n.compatible = "arm,gic-v3" /\ c = Current THEN <<Gic(n)>> ELSE controller
        twice == n.compatible = "arm,gic-v3" /\ c = Current /\ controller # <<>>
    IN  IF ctl # <<>> /\ ~twice /\ HasRedistributor(c, ctl[1])
        THEN /\ controller' = ctl
             /\ Uses(c, n, ctl[1])
             /\ at' = [at EXCEPT ![c] = @ + 1]
             /\ UNCHANGED pc
        ELSE Goto(c, "panic") /\ UNCHANGED <<controller, used, at>>

Visit(c) ==
    /\ pc[c] \in {"fundamental", "others"}
    /\ at[c] <= Len(nodes)
    /\ LET n == nodes[at[c]]
       IN  IF Filter(n, pc[c]) /\ n.compatible # ""
           THEN CallHandler(c, n)
           ELSE at' = [at EXCEPT ![c] = @ + 1] /\ UNCHANGED <<pc, controller, used>>
    /\ UNCHANGED <<firmware, curr, nodes, use_hvc, registry, tpidr, id_map>>

PhaseDone(c) ==
    /\ pc[c] \in {"fundamental", "others"}
    /\ at[c] = Len(nodes) + 1
    /\ at' = [at EXCEPT ![c] = 1]
    /\ Goto(c, IF pc[c] = "fundamental" THEN "others" ELSE IF c = Current THEN "maps" ELSE "ready")
    /\ UNCHANGED <<firmware, curr, nodes, use_hvc, registry, tpidr, controller, id_map, used>>
-----------------------------------------------------------------------------
(* The cores *)

Madts == SelectSeq(firmware.tables, LAMBDA t : t.sig = "APIC")
Giccs == OfType(Madts[1], "GICC")

\* PSCI starts a core that is there, when it is called the way the platform has it.
CpuOn(c) ==
    /\ use_hvc = firmware.hvc
    /\ \E k \in DOMAIN Giccs : Giccs[k].cpu = c /\ Giccs[k].enabled

CpuNodes == SelectSeq(nodes, LAMBDA n : n.class = "Cpu")

Numbered ==
    [c \in {CpuNodes[k].cpu : k \in DOMAIN CpuNodes} |->
        Max({k \in DOMAIN CpuNodes : CpuNodes[k].cpu = c}) - 1]

InitCpuMaps ==
    /\ pc[Current] = "maps"
    /\ id_map' = Numbered
    /\ Goto(Current, "wake")
    /\ UNCHANGED <<firmware, curr, nodes, use_hvc, registry, tpidr, controller, at, used>>

\* The next core of the tree is started, and boot_secondary waits for it.
BootSecondary ==
    /\ pc[Current] = "wake"
    /\ at[Current] <= Len(CpuNodes)
    /\ LET n == CpuNodes[at[Current]]
       IN  pc' = CASE n.cpu = Current -> pc
                   [] n.cpu # Current /\ ~CpuOn(n.cpu) -> [pc EXCEPT ![Current] = "panic"]
                   [] OTHER -> [pc EXCEPT ![Current] = "wait", ![n.cpu] = "register"]
    /\ at' = [at EXCEPT ![Current] = @ + 1]
    /\ UNCHANGED <<firmware, curr, nodes, use_hvc, registry, tpidr, controller, id_map, used>>

\* secondary_init: register_local of the id that boot_secondary passed.
RegisterLocal(c) ==
    /\ pc[c] = "register"
    /\ IF id_map[c] < registry
       THEN tpidr' = [tpidr EXCEPT ![c] = id_map[c]] /\ Goto(c, "fundamental")
       ELSE Goto(c, "panic") /\ UNCHANGED tpidr
    /\ UNCHANGED <<firmware, curr, nodes, use_hvc, registry, controller, id_map, at, used>>

SeesReady ==
    /\ pc[Current] = "wait"
    /\ pc[CpuNodes[at[Current] - 1].cpu] = "ready"
    /\ Goto(Current, "wake")
    /\ UNCHANGED <<firmware, curr, nodes, use_hvc, registry, tpidr, controller, id_map, at, used>>

\* register_cpu(this_cpu!().id) ends the bootstrap.
Booted ==
    /\ pc[Current] = "wake"
    /\ at[Current] = Len(CpuNodes) + 1
    /\ Goto(Current, IF tpidr[Current] = None THEN "panic" ELSE "ready")
    /\ UNCHANGED <<firmware, curr, nodes, use_hvc, registry, tpidr, controller, id_map, at, used>>

Next ==
    \/ FindXsdt \/ NextTable \/ TablesDone
    \/ InitCpuMaps \/ BootSecondary \/ SeesReady \/ Booted
    \/ \E c \in CPUs : Visit(c) \/ PhaseDone(c) \/ RegisterLocal(c)
-----------------------------------------------------------------------------
\* The k-th redistributor listed belongs to the k-th core listed.
FramesInOrder ==
    \A k \in DOMAIN Giccs :
        k \in DOMAIN Redistributors(Madts[1]) /\ Redistributors(Madts[1])[k].cpu = Giccs[k].cpu

\* What the kernel needs of a firmware to come up.
Bootable ==
    /\ firmware.acpi2 = 1 /\ firmware.checked
    /\ Len(Madts) = 1
    /\ Current \in {Giccs[k].cpu : k \in DOMAIN Giccs}
    /\ \A k \in DOMAIN Giccs : Giccs[k].cpu = Current \/ Giccs[k].enabled
    /\ OfType(Madts[1], "GICD") # <<>>
    /\ OfType(Madts[1], "GICD")[1].version = 3 /\ OfType(Madts[1], "GICD")[1].base # 0
    /\ \A k \in DOMAIN OfType(Madts[1], "GICR") : OfType(Madts[1], "GICR")[k].frames # <<>>
    /\ Len(Redistributors(Madts[1])) >= Len(Giccs)
    /\ LET fadts == SelectSeq(firmware.tables, LAMBDA t : t.sig = "FACP")
       IN  /\ \A k \in DOMAIN fadts : fadts[k].dsdt_parses
           /\ firmware.hvc /\ Len(Giccs) > 1 => fadts # <<>>

\* The three numberings of the cores are one: the index under which a core finds
\* its PerCpuData, its id in CPU_ID_MAP, and no two cores share one ("contiguous;
\* the highest ID is the total core count - 1", cpu_interface.rs:168).
IdsAgree ==
    \A c \in CPUs :
        tpidr[c] # None =>
            /\ tpidr[c] \in 0 .. registry - 1
            /\ \A d \in CPUs : tpidr[d] = tpidr[c] => c = d
            /\ id_map # <<>> => id_map[c] = tpidr[c]

\* gicv3::handle takes apart what handle_gicv3 put together: distributor,
\* redistributors and ITS end up in their roles, no frame behind the last one
\* among them, and each core is given its own, when the firmware lists the
\* frames in the order of the cores (nothing compares their affinities).
OwnRedistributor ==
    controller # <<>> =>
        /\ controller[1].distributor.type = "GICD"
        /\ \A k \in DOMAIN controller[1].redistributors :
              controller[1].redistributors[k].type = "frame" /\ controller[1].redistributors[k].cpu # "nobody"
        /\ \A k \in DOMAIN controller[1].its : controller[1].its[k].type = "ITS"
        /\ controller[1].its = <<>> <=> ItsBases(Madts[1]) = <<>>
        /\ FramesInOrder => \A c \in CPUs : \A k \in DOMAIN used[c] : used[c][k][2].cpu = c

\* Whatever the order of the tables, every core calls the GIC's handler once,
\* before the timer's, which enables an interrupt on it.
GicFirst ==
    \A c \in CPUs :
        /\ used[c] # <<>> => used[c][1][1] = "arm,gic-v3"
        /\ \A j, k \in DOMAIN used[c] : used[c][j][1] = used[c][k][1] => j = k

\* None of the expects, unwraps and assertions on the way fails on a firmware
\* that is complete, and boot ends only when every core listed is ready.
BootsIfComplete ==
    /\ (\E c \in CPUs : pc[c] = "panic") => ~Bootable
    /\ pc[Current] = "ready" => Bootable /\ \A k \in DOMAIN Giccs : pc[Giccs[k].cpu] = "ready"

AcpiInv == IdsAgree /\ OwnRedistributor /\ GicFirst /\ BootsIfComplete
=============================================================================
