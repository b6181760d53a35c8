------------------------------- MODULE GicItt -------------------------------
(***************************************************************************)
(* The interrupt translation tables (ITTs) that the ITS reads and writes   *)
(* by itself: msi_register_device and msi_unregister_device, each device   *)
(* by one driver.  alloc_zeroed returns any free block; blocks are also    *)
(* used by the rest of the kernel, which is why the ITS must never be left *)
(* with a block that has been freed.  device_itts is an AtomicRefCell:     *)
(* borrow_mut panics while another core has it.                            *)
(***************************************************************************)
EXTENDS ItsCommands

CONSTANTS Drivers, Blocks

None == "none"

VARIABLES allocated,     \* the blocks in use as ITTs
          device_itts,   \* the block recorded for each device (named after its driver)
          borrower,      \* the driver that has device_itts, or None
          hw,            \* the block that the ITS uses for each device
          pc, block      \* of each driver's call

vars == <<its, allocated, device_itts, borrower, hw, pc, block>>

Init ==
    /\ ItsInit
    /\ allocated = {}
    /\ device_itts = [d \in Drivers |-> None]
    /\ borrower = None
    /\ hw = [d \in Drivers |-> None]
    /\ pc = [d \in Drivers |-> "idle"]
    /\ block = [d \in Drivers |-> None]

Goto(d, from, to) == pc[d] = from /\ pc' = [pc EXCEPT ![d] = to]

\* alloc_zeroed; a null block is an error that changes nothing.
RegisterAlloc(d) ==
    /\ Goto(d, "idle", "register")
    /\ \E b \in Blocks \ allocated :
          allocated' = allocated \cup {b} /\ block' = [block EXCEPT ![d] = b]
    /\ UNCHANGED <<its, device_itts, borrower, hw>>

\* MAPD with the block that the ITS is to use.
PushMapd(d) ==
    /\ Goto(d, "register", "mapd")
    /\ Push(d, [device |-> d, itt |-> block[d]])
    /\ UNCHANGED <<allocated, device_itts, borrower, hw, block>>

\* Mutant: the block is freed when the command is given up.
RegisterFailsFree(d) ==
    /\ \/ Goto(d, "register", "idle") /\ PushFull
       \/ Goto(d, "mapd", "idle") /\ PushGivesUp(d)
    /\ allocated' = allocated \ {block[d]}
    /\ block' = [block EXCEPT ![d] = None]
    /\ UNCHANGED <<device_itts, borrower, hw>>

\* The block is neither recorded nor freed.
RegisterFails(d) ==
    /\ \/ Goto(d, "register", "idle") /\ PushFull
       \/ Goto(d, "mapd", "idle") /\ PushGivesUp(d)
    /\ block' = [block EXCEPT ![d] = None]
    /\ UNCHANGED <<allocated, device_itts, borrower, hw>>

\* msi_unregister_device: MAPD with V = 0.
PushUnmapd(d) ==
    /\ Goto(d, "idle", "unmapd")
    /\ Push(d, [device |-> d, itt |-> None])
    /\ UNCHANGED <<allocated, device_itts, borrower, hw, block>>

UnregisterFails(d) ==
    /\ Goto(d, "unmapd", "idle")
    /\ PushGivesUp(d)
    /\ UNCHANGED <<allocated, device_itts, borrower, hw, block>>

\* Both: the command has been executed; block[d] is what will be recorded.
MapdOk(d) ==
    /\ Goto(d, "mapd", "borrow") \/ Goto(d, "unmapd", "borrow")
    /\ PushOk(d)
    /\ UNCHANGED <<allocated, device_itts, borrower, hw, block>>

Borrow(d) ==
    /\ borrower = None
    /\ Goto(d, "borrow", "record")
    /\ borrower' = d
    /\ UNCHANGED <<its, allocated, device_itts, hw, block>>

BorrowPanics(d) ==
    /\ borrower # None
    /\ Goto(d, "borrow", "panicked")
    /\ UNCHANGED <<its, allocated, device_itts, borrower, hw, block>>

\* insert or remove, and dealloc of what was recorded before.
Record(d) ==
    /\ Goto(d, "record", "idle")
    /\ allocated' = allocated \ {device_itts[d]}
    /\ device_itts' = [device_itts EXCEPT ![d] = block[d]]
    /\ block' = [block EXCEPT ![d] = None]
    /\ borrower' = None
    /\ UNCHANGED <<its, hw>>

ItsExecutes ==
    /\ ItsTakes
    /\ hw' = [hw EXCEPT ![Head(queue).device] = Head(queue).itt]
    /\ UNCHANGED <<allocated, device_itts, borrower, pc, block>>

Next ==
    \/ ItsExecutes
    \/ \E d \in Drivers :
          \/ RegisterAlloc(d) \/ PushMapd(d) \/ RegisterFails(d)
          \/ PushUnmapd(d) \/ UnregisterFails(d)
          \/ MapdOk(d) \/ Borrow(d) \/ BorrowPanics(d) \/ Record(d)

Spec == Init /\ [][Next]_vars
-----------------------------------------------------------------------------
\* The ITS only ever uses tables that are allocated, one for each device,
\* whatever commands were given up and are executed late.
IttLive ==
    \A d \in Drivers : hw[d] # None => hw[d] \in allocated /\ \A e \in Drivers \ {d} : hw[e] # hw[d]

\* A table that is recorded is allocated and no other device's: dealloc, whose
\* argument it will be, never frees a block twice.
RecordedOnce ==
    \A d \in Drivers : device_itts[d] # None =>
       /\ device_itts[d] \in allocated
       /\ \A e \in Drivers \ {d} : device_itts[d] \notin {device_itts[e], block[e]}
-----------------------------------------------------------------------------
TypeOK ==
    /\ queue \in Seq([device : Drivers, itt : Blocks \cup {None}])
    /\ device_itts \in [Drivers -> Blocks \cup {None}]
    /\ hw \in [Drivers -> Blocks \cup {None}]
    /\ block \in [Drivers -> Blocks \cup {None}]
    /\ pc \in [Drivers -> {"idle", "register", "mapd", "unmapd", "borrow", "record", "panicked"}]

\* The places where a device's table is named, the commands still to be executed
\* among them.
Refs(d) ==
    {hw[d], device_itts[d], block[d]} \cup
    {queue[i].itt : i \in {j \in 1 .. Len(queue) : queue[j].device = d}}

\* The tables named anywhere are allocated, and each is of one device.
RefsInv ==
    /\ \A d \in Drivers : Refs(d) \subseteq allocated \cup {None}
    /\ \A d, e \in Drivers : d # e => Refs(d) \cap Refs(e) \subseteq {None}

\* A driver that waits has its command last in the queue; one whose command has
\* been executed has none left there, and the ITS uses what will be recorded.
CallsInv ==
    /\ \A d \in Drivers : pc[d] \in {"mapd", "unmapd"} <=> pusher = d
    /\ \A d \in Drivers : pusher = d /\ queue = <<>> => hw[d] = block[d]
    /\ \A d \in Drivers : pusher = d /\ queue # <<>> =>
          queue[Len(queue)].device = d /\ queue[Len(queue)].itt = block[d]
    /\ \A d \in Drivers : pc[d] \in {"borrow", "record"} =>
          hw[d] = block[d] /\ \A i \in 1 .. Len(queue) : queue[i].device # d
    /\ \A d \in Drivers : pc[d] \in {"idle", "unmapd"} => block[d] = None
    /\ \A d \in Drivers : block[d] # None => block[d] # device_itts[d]

IInv == TypeOK /\ RefsInv /\ CallsInv
=============================================================================
