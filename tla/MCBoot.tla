------------------------------- MODULE MCBoot -------------------------------
(***************************************************************************)
(* What happens at boot: the cores come up and, in behaviours of their own *)
(* (`subject`), a core's timer is started and its interrupts handled, a    *)
(* PCIe segment is scanned, the BARs of a function are probed, MSI-X is    *)
(* enabled for one, the ACPI tables are turned into devices, the AML of    *)
(* one of them is parsed, and a thread is started and takes exceptions.    *)
(***************************************************************************)
EXTENDS BootProofs

CONSTANTS DeviceCount, FunctionCount, start_bus, end_bus,
          CutUpTo,
          StackTop, Depths, Generations

VARIABLES subject,
          config, stack, added,
          firmware, curr, nodes, use_hvc, registry, tpidr, controller, id_map, acpi_pc, at, used,
          source, bytes, streams, terms, rest, resources, aml_result,
          el, gpr, sys, mem, exc_code, ip, exc_kind, age, interrupted

timerVars == <<ENABLE, IMASK, cval, counter, freq, deadline, todo>>
scanVars == <<config, stack, added>>
barVars == <<fn, regs, bar_command, bar_i, original, mask, original_high, bars, bar_pc>>
msixVars == <<head, id, next, visited, cap, found, table_size, vector_count, table, mapped,
              msix_command, enabled, entry, msix_pc>>
acpiVars == <<firmware, curr, nodes, use_hvc, registry, tpidr, controller, id_map, acpi_pc, at, used>>
amlVars == <<source, bytes, streams, terms, rest, resources, aml_result>>
excVars == <<el, gpr, sys, mem, exc_code, ip, exc_kind, age, interrupted>>
all == <<subject, vars, timerVars, scanVars, barVars, msixVars, acpiVars, amlVars, excVars>>

\* Configuration spaces of three buses: functions of one device and of two, on
\* bus 0, and one on each of the other buses.  Bridges lead down, up, to their
\* own bus, to the same bus as another one, or outside of the segment.
Places == {<<0, 0, 0>>, <<0, 0, 1>>, <<0, 1, 0>>, <<1, 0, 0>>, <<2, 1, 0>>}
Function(kind, multi, sec, sub) == [kind |-> kind, multi |-> multi, sec |-> sec, sub |-> sub]
Contents ==
    {Function("endpoint", TRUE, 0, 0), Function("endpoint", FALSE, 0, 0), Function("other", FALSE, 0, 0),
     Function("bridge", TRUE, 1, 2), Function("bridge", FALSE, 2, 2), Function("bridge", FALSE, 3, 3)}
Segments == UNION {[P -> Contents] : P \in SUBSET Places}

\* BARs of every type and of several sizes, in every order; a 64-bit one may
\* begin in the last register.
Register1(writable, value) == [writable |-> writable, value |-> value]
From(k) == k .. Width - 1
BarKinds ==
    {<<Register1({}, {})>>, <<Register1(From(4), {5})>>, <<Register1(From(5), {3})>>,
     <<Register1(From(2), {0, 4})>>, <<Register1(From(4), {1, 4})>>,
     <<Register1(From(5), {2, 3, 5}), Register1(From(0), {1})>>,
     <<Register1({}, {2}), Register1(From(1), {3})>>}
BarFunctions ==
    {[writable |-> [i \in 0 .. Count - 1 |-> l[i + 1].writable],
      value |-> [i \in 0 .. Count - 1 |-> l[i + 1].value],
      command |-> {"memory", "bus_master"}] :
        l \in {i \o j \o k : i, j, k \in BarKinds}}

Lists == INSTANCE SequencesExt

\* Firmwares for up to three cores, "b" the boot core.  The cores are listed in
\* several orders, once without the boot core; their redistributors in one GICR
\* entry or in one each, followed by a frame that is none, in another order, or
\* not all of them; ITSs with and without an address.
Gicc(core, there) == [type |-> "GICC", cpu |-> core, enabled |-> there]
Gicd(version, base) == [type |-> "GICD", version |-> version, base |-> base]
Gicr(frames) == [type |-> "GICR", frames |-> frames]
Its(base) == [type |-> "ITS", base |-> base]
Frame(core, last) == [type |-> "frame", cpu |-> core, last |-> last]
CoreLists == {<<"b">>, <<"a", "b">>, <<"b", "a", "c">>, <<"c", "a", "b">>, <<"a", "c">>}
OneBlock(cores) == [k \in DOMAIN cores |-> Frame(cores[k], k = Len(cores))]
Blocks(cores) ==
    {<<Gicr(OneBlock(cores) \o <<Frame("nobody", FALSE)>>)>>,
     <<Gicr([k \in DOMAIN cores |-> Frame(cores[k], FALSE)])>>,
     [k \in DOMAIN cores |-> Gicr(<<Frame(cores[k], TRUE), Frame("nobody", TRUE)>>)],
     <<Gicr(OneBlock(Lists!Reverse(cores)))>>,
     <<Gicr(OneBlock(Tail(cores)))>>}
ItsLists == {<<>>, <<Its(0)>>, <<Its(0), Its(1)>>, <<Its(1), Its(2)>>}
Short == <<[type |-> "short"]>>
Apic(entries) == [sig |-> "APIC", entries |-> entries]
Listed(cores) == [k \in DOMAIN cores |-> Gicc(cores[k], TRUE)]
Madt(cores, gicd, blocks, itses) == Apic(Listed(cores) \o gicd \o blocks \o itses)
Good == <<Gicd(3, 1)>>
TheMadt == Madt(<<"a", "b">>, Good, <<Gicr(OneBlock(<<"a", "b">>))>>, <<Its(1)>>)
MadtVariants ==
    UNION {{Madt(cores, Good, blocks, itses), Madt(cores, Good, itses, blocks \o Short \o itses)} :
              <<cores, blocks, itses>> \in UNION {{cs} \X Blocks(cs) \X ItsLists : cs \in CoreLists}}
    \cup {Madt(<<"a", "b">>, gicd, <<Gicr(OneBlock(<<"a", "b">>))>>, <<>>) :
              gicd \in {<<>>, Short, <<Gicd(2, 1)>>, <<Gicd(3, 0)>>, <<Gicd(3, 1), Gicd(2, 0)>>}}
    \cup {Apic(<<Gicc("a", there), Gicc("b", ~there)>> \o Good \o <<Gicr(OneBlock(<<"a", "b">>))>>) :
              there \in BOOLEAN}
    \cup {Apic(<<>>), Apic(<<Its(1)>>)}
Gtdt == [sig |-> "GTDT"]
Mcfg == [sig |-> "MCFG", endpoints |-> 2]
Fadt(hvc, parses) == [sig |-> "FACP", hvc |-> hvc, dsdt_parses |-> parses]
Table(sig) == [sig |-> sig]
Acpi(tables, hvc) == [acpi2 |-> 1, checked |-> TRUE, tables |-> tables, hvc |-> hvc]
Firmwares ==
    UNION {{Acpi(<<Gtdt, madt>>, FALSE), Acpi(<<madt, Table("other"), Mcfg, Gtdt>>, FALSE)} : madt \in MadtVariants}
    \cup UNION {{Acpi(<<Table("null")>> \o ts, FALSE), Acpi(ts, FALSE), Acpi(ts, TRUE)} :
                   ts \in Lists!SetToAllKPermutations({TheMadt, Gtdt, Mcfg})}
    \cup UNION {{Acpi(ts, TRUE)} : ts \in Lists!SetToAllKPermutations({TheMadt, Gtdt, Mcfg, Fadt(TRUE, TRUE)})}
    \cup {Acpi(<<Fadt(FALSE, FALSE), TheMadt, Gtdt>>, FALSE)}
    \cup {[acpi2 |-> n, checked |-> ok, tables |-> <<TheMadt>>, hvc |-> FALSE] : n \in 0 .. 2, ok \in BOOLEAN}

\* Declarations: every form of a name and of a value, lengths of every width
\* over blocks in blocks, the code of a method that is no sequence of
\* declarations, and bodies whose length needs one or two more bytes.
Decl(kind, more, header, code, body) ==
    [kind |-> kind, more |-> more, head |-> header, code |-> code, body |-> body]
Seg == <<65, 95, 66, 48>>
Names == {Seg, <<92, 0>>, <<0>>, <<92>> \o Seg, <<94, 94>> \o Seg, <<46>> \o Seg \o Seg, <<47, 3>> \o Seg \o Seg \o Seg}
Values == {<<0>>, <<255>>, <<10, 8>>, <<11, 8, 16>>, <<12, 8, 0, 0, 91>>, <<14, 1, 2, 3, 4, 5, 6, 7, 8>>,
           <<13, 0>>, <<13, 65, 16, 0>>, <<17, 5, 10, 2, 8, 16>>, <<17, 70, 0, 11, 0, 0, 8>>,
           <<18, 4, 2, 0, 1>>, <<19, 4, 10, 1, 0>>} \cup (Names \ {<<0>>})
NameDecl(called, v) == Decl("Name", -1, called \o v, <<>>, <<>>)
MethodDecl(more, code) == Decl("Method", more, Seg \o <<9>>, code, <<>>)
Nested(w, x, y, z) ==
    <<Decl("Scope", w, <<92>> \o Seg, <<>>,
           <<Decl("Device", x, Seg, <<>>, <<NameDecl(Seg, <<10, 16>>), MethodDecl(y, <<16, 255, 8>>)>>),
             Decl("Device", y, Seg, <<>>, <<>>),
             Decl("Field", z, Seg \o <<1>>, <<8, 8>>, <<>>)>>),
      NameDecl(Seg, <<1>>)>>
Declarations ==
    {<<NameDecl(called, v), NameDecl(Seg, <<0>>)>> : called \in Names, v \in Values}
    \cup {<<Decl("OpRegion", -1, Seg \o <<0>> \o v1 \o v2, <<>>, <<>>), NameDecl(Seg, v1)>> : v1, v2 \in Values}
    \cup {Nested(w, x, y, z) : w, x, y, z \in 0 .. 3}
    \cup {<<MethodDecl(w, [k \in 1 .. n |-> k % 251]), NameDecl(Seg, <<0>>)>> : w \in 1 .. 3, n \in {57, 58, 80, 250}}
    \cup {<<MethodDecl(w, [k \in 1 .. 4200 |-> 16]), NameDecl(Seg, <<0>>)>> : w \in 2 .. 3}
NotAml == UNION {[1 .. n -> {0, 1, 5, 8, 13, 16, 18, 65, 66, 91, 130}] : n \in 0 .. 4}

\* Resource descriptors of every type that is decoded, and two that are not.
\* The numbers of a memory descriptor are four, or eight, bytes each.
Descriptor(data, decoded) == [bytes |-> data, resources |-> decoded]
Number(n, width) == [k \in 1 .. width |-> IF k = 2 THEN n ELSE 0]
Large(tag, data) == <<128 + tag, Len(data), 0>> \o data
Zeros(n) == [k \in 1 .. n |-> 0]
CrsIrq(n) == [type |-> "Irq", irq |-> <<n, 0, 0, 0>>]
Memory(base, len) == IF len[2] = 0 THEN <<>> ELSE <<[type |-> "Mmio", base |-> base, len |-> len]>>
Crs ==
    {Descriptor(<<34, 17, 128>>, <<CrsIrq(0), CrsIrq(4), CrsIrq(15)>>), Descriptor(<<35, 0, 0, 1>>, <<>>),
     Descriptor(<<71, 1, 2, 3, 4, 5, 6, 7>>, <<>>), Descriptor(Large(4, <<1, 121>>), <<>>),
     Descriptor(Large(9, <<3, 2, 7, 0, 0, 0, 9, 0, 0, 0>>), <<CrsIrq(7), CrsIrq(9)>>),
     Descriptor(Large(9, <<3, 2, 7, 0, 0, 0, 9, 0>>), <<CrsIrq(7)>>),
     Descriptor(Large(7, <<1>> \o Zeros(6) \o Number(1, 4) \o Zeros(8) \o Number(1, 4)), <<>>)}
    \cup {Descriptor(Large(5, <<1>> \o Number(1, 4) \o Zeros(8) \o Number(n, 4)), Memory(Number(1, 4), Number(n, 4))) : n \in {0, 3}}
    \cup {Descriptor(Large(6, <<1>> \o Number(1, 4) \o Number(n, 4)), Memory(Number(1, 4), Number(n, 4))) : n \in {0, 3}}
    \cup {Descriptor(Large(7, Zeros(7) \o Number(2, 4) \o Zeros(8) \o Number(4, 4)), Memory(Number(2, 4), Number(4, 4)))}
    \cup {Descriptor(Large(10, Zeros(11) \o Number(2, 8) \o Zeros(16) \o Number(4, 8)), Memory(Number(2, 8), Number(4, 8)))}
CrsLists == UNION {[1 .. n -> Crs] : n \in 1 .. 2}

Scan == INSTANCE PcieScan WITH Configs <- Segments
Tables == INSTANCE AcpiDevices WITH CPUs <- {"a", "b", "c"}, Current <- "b", pc <- acpi_pc
Dsdt == INSTANCE Aml WITH Documents <- Declarations, Junk <- NotAml, Descriptors <- CrsLists, result <- aml_result
Exc == INSTANCE Exceptions WITH x <- gpr, code <- exc_code, kind <- exc_kind

ASSUME DevicesAssumption == Tick!Assumptions /\ Bars!Assumptions /\ Msix!Assumptions

\* The parts a behaviour is not about stay in one initial state.
MCInit ==
    /\ subject \in {"cores", "timer", "scan", "bars", "msix", "acpi", "aml", "exception"}
    /\ Init /\ (subject # "cores" => ~timer_irq)
    /\ IF subject = "timer" THEN Tick!Init
       ELSE /\ ENABLE = FALSE /\ IMASK = FALSE /\ cval = 0 /\ counter = 0 /\ freq = 0 /\ deadline = 0 /\ todo = <<>>
    /\ IF subject = "scan" THEN Scan!Init ELSE config = <<>> /\ stack = <<>> /\ added = <<>>
    /\ IF subject = "bars" THEN Bars!Init
       ELSE /\ fn = <<>> /\ regs = <<>> /\ bar_command = {} /\ bar_i = 0 /\ original = {} /\ mask = {}
            /\ original_high = {} /\ bars = <<>> /\ bar_pc = "decode"
    /\ IF subject = "msix" THEN Msix!Init
       ELSE /\ head = 0 /\ id = <<>> /\ next = <<>> /\ visited = {} /\ cap = 0 /\ found = 0
            /\ table_size = 1 /\ vector_count = 0 /\ table = <<>> /\ mapped = {}
            /\ msix_command = {} /\ enabled = FALSE /\ entry = 0 /\ msix_pc = "find"
    /\ IF subject = "acpi" THEN Tables!Init
       ELSE /\ firmware = <<>> /\ curr = 0 /\ nodes = <<>> /\ use_hvc = FALSE /\ registry = 0 /\ tpidr = <<>>
            /\ controller = <<>> /\ id_map = <<>> /\ acpi_pc = <<>> /\ at = <<>> /\ used = <<>>
    /\ IF subject = "aml" THEN Dsdt!Init
       ELSE /\ source = <<>> /\ bytes = <<>> /\ streams = <<>> /\ terms = <<>> /\ rest = 0 /\ resources = <<>>
            /\ aml_result = "ok"
    /\ IF subject = "exception" THEN Exc!Init
       ELSE /\ el = 0 /\ gpr = <<>> /\ sys = <<>> /\ mem = <<>> /\ exc_code = <<>> /\ ip = 0 /\ exc_kind = "none"
            /\ age = 0 /\ interrupted = <<>>

MCNext ==
    /\ \/ subject = "cores" /\ Next /\ UNCHANGED <<timerVars, scanVars, barVars, msixVars, acpiVars, amlVars, excVars>>
       \/ subject = "timer" /\ Tick!Next /\ UNCHANGED <<vars, scanVars, barVars, msixVars, acpiVars, amlVars, excVars>>
       \/ subject = "scan" /\ Scan!Next /\ UNCHANGED <<vars, timerVars, barVars, msixVars, acpiVars, amlVars, excVars>>
       \/ subject = "bars" /\ Bars!Next /\ UNCHANGED <<vars, timerVars, scanVars, msixVars, acpiVars, amlVars, excVars>>
       \/ subject = "msix" /\ Msix!Next /\ UNCHANGED <<vars, timerVars, scanVars, barVars, acpiVars, amlVars, excVars>>
       \/ subject = "acpi" /\ Tables!Next /\ UNCHANGED <<vars, timerVars, scanVars, barVars, msixVars, amlVars, excVars>>
       \/ subject = "aml" /\ Dsdt!Next /\ UNCHANGED <<vars, timerVars, scanVars, barVars, msixVars, acpiVars, excVars>>
       \/ subject = "exception" /\ Exc!Next /\ UNCHANGED <<vars, timerVars, scanVars, barVars, msixVars, acpiVars, amlVars>>
    /\ UNCHANGED subject

MCSpec == MCInit /\ [][MCNext]_all /\ (subject = "cores" => Fairness)
-----------------------------------------------------------------------------
\* Every endpoint of a segment is found, and its BARs with their sizes, without
\* disturbing what the firmware set up.
PcieInv ==
    /\ subject = "scan" => Scan!ScanInv
    /\ subject = "bars" => Bars!BarsInv

\* The firmware's tables become devices, core numbers and an interrupt
\* controller that fit together, and a complete firmware boots.
AcpiInv == subject = "acpi" => Tables!AcpiInv

\* The parser stays within its bytes and reports what was encoded in them.
AmlInv == subject = "aml" => Dsdt!AmlInv

\* A thread starts with the registers it was created with, and an exception
\* that returns leaves its registers and its stack as they were.
ContextInv == subject = "exception" => Exc!ContextInv

\* The boot core gets every other core up and reaches its idle thread.
CoresUp == subject = "cores" => BootCompletes
=============================================================================
