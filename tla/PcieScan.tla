------------------------------ MODULE PcieScan ------------------------------
(***************************************************************************)
(* The enumeration of a PCIe segment (kernel/drivers/pcie/src/scan.rs):    *)
(* scan_bus looks at every device and function of a bus, and scan_function *)
(* adds an endpoint to the device tree or scans the bus behind a bridge.   *)
(* The calls of scan_bus that have not returned are a stack of positions.  *)
(*                                                                         *)
(* `config` is the configuration space as the firmware left it, bus        *)
(* numbers of bridges included.  A function is a record [kind, multi, sec, *)
(* sub]; a place without one reads as absent (vendor !0).                  *)
(***************************************************************************)
EXTENDS Naturals, Sequences, FiniteSets, FiniteSetsExt, SequencesExt

CONSTANTS DeviceCount, FunctionCount,   \* 32 and 8
          start_bus, end_bus,           \* of the Ecam
          Configs                       \* functions from places to records

VARIABLES config, stack,
          added         \* what add_device was called with, in order

vars == <<config, stack, added>>

\* A place is <<bus, device, function>>.
Bdf(p) == <<p.bus, p.device, p.function>>
First(bus) == [bus |-> bus, device |-> 0, function |-> 0]

\* Ecam::offset_ptr: other buses read as all ones.
Present(bdf) == bdf[1] \in start_bus .. end_bus /\ bdf \in DOMAIN config

Init ==
    /\ config \in Configs
    /\ stack = <<First(start_bus)>>
    /\ added = <<>>

\* The function that is looked at after p: functions 1 to 7 only of a device
\* whose function 0 says so.
After(p) ==
    IF /\ p.function + 1 < FunctionCount
       /\ p.function > 0 \/ (Present(Bdf(p)) /\ config[Bdf(p)].multi)
    THEN [p EXCEPT !.function = @ + 1]
    ELSE [p EXCEPT !.device = @ + 1, !.function = 0]

Top == Last(stack)
Advanced == [stack EXCEPT ![Len(stack)] = After(Top)]
AtFunction == stack # <<>> /\ Top.device < DeviceCount

Absent ==
    /\ AtFunction /\ ~Present(Bdf(Top))
    /\ stack' = Advanced
    /\ UNCHANGED <<config, added>>

Endpoint ==
    /\ AtFunction /\ Present(Bdf(Top)) /\ config[Bdf(Top)].kind = "endpoint"
    /\ added' = Append(added, Bdf(Top))
    /\ stack' = Advanced
    /\ UNCHANGED config

\* Mutant: the bus behind a bridge may be the bridge's own or an earlier one.
LeadsDownLoose(bdf) == config[bdf].sec <= config[bdf].sub

LeadsDown(bdf) == config[bdf].sec > bdf[1] /\ config[bdf].sec <= config[bdf].sub

Bridge ==
    /\ AtFunction /\ Present(Bdf(Top)) /\ config[Bdf(Top)].kind = "bridge"
    /\ stack' = IF LeadsDown(Bdf(Top)) THEN Append(Advanced, First(config[Bdf(Top)].sec)) ELSE Advanced
    /\ UNCHANGED <<config, added>>

\* Another header type.
OtherHeader ==
    /\ AtFunction /\ Present(Bdf(Top)) /\ config[Bdf(Top)].kind = "other"
    /\ stack' = Advanced
    /\ UNCHANGED <<config, added>>

ReturnFromBus ==
    /\ stack # <<>> /\ Top.device = DeviceCount
    /\ stack' = Front(stack)
    /\ UNCHANGED <<config, added>>

Next == Absent \/ Endpoint \/ Bridge \/ OtherHeader \/ ReturnFromBus

Spec == Init /\ [][Next]_vars
-----------------------------------------------------------------------------
\* A function that software can address: its device has a function 0 and, for
\* the others, says that it has several.
Visible(bdf) ==
    /\ Present(bdf) /\ Present(<<bdf[1], bdf[2], 0>>)
    /\ bdf[3] > 0 => config[<<bdf[1], bdf[2], 0>>].multi

BridgesTo(bus) ==
    {b \in DOMAIN config : Visible(b) /\ config[b].kind = "bridge" /\ config[b].sec = bus /\ LeadsDown(b)}

Behind(buses) == {config[b].sec : b \in {b \in UNION {BridgesTo(s) : s \in start_bus + 1 .. end_bus} : b[1] \in buses}}
Reachable == FoldSet(LAMBDA i, buses : buses \cup Behind(buses), {start_bus}, start_bus .. end_bus)

Endpoints == {b \in DOMAIN config : Visible(b) /\ config[b].kind = "endpoint" /\ b[1] \in Reachable}

\* The scan goes down the hierarchy only, whatever numbers the bridges have,
\* and therefore ends.
Descends == \A i \in 1 .. Len(stack) - 1 : stack[i].bus < stack[i + 1].bus

\* In the end every endpoint that can be reached is in the device tree, and
\* once if no two bridges lead to one bus.
EachOnce ==
    stack = <<>> =>
        /\ ToSet(added) = Endpoints
        /\ (\A bus \in start_bus .. end_bus : Cardinality(BridgesTo(bus)) <= 1)
               => Len(added) = Cardinality(Endpoints)

ScanInv == Descends /\ EachOnce
=============================================================================
