------------------------------ MODULE PcieMsix ------------------------------
(***************************************************************************)
(* enable_msix (kernel/drivers/pcie/src/interrupt.rs): find the MSI-X      *)
(* capability, mask the whole table, map an event to an LPI for each       *)
(* vector, and turn MSI-X on.  One step is one write to the table or one   *)
(* call of the interrupt controller (see GicMsi), which may fail; the two  *)
(* halves of an address are written in one step, for the entry is masked.  *)
(*                                                                         *)
(* Capabilities are a list through the configuration space, which a broken *)
(* device may tie into a knot.  Offset 0 stands for any below 0x40.        *)
(***************************************************************************)
EXTENDS Naturals, Sequences

CONSTANTS Offsets,       \* where capabilities can be: numbers above 0
          Sizes,         \* what table_size may be: numbers above 0
          Lens           \* what the length of the MsixTable may be

\* What the proofs need of the constants.
Assumptions == Offsets \subseteq Nat \ {0} /\ Sizes \subseteq Nat \ {0} /\ Lens \subseteq Nat

VARIABLES head, id, next,       \* the list: head, and of each offset
          visited, current, found,
          table_size, vector_count,
          table,                \* the entries: [address, data, masked]
          mapped,               \* mapped_lpis, by event
          command, enabled, entry, pc

vars == <<head, id, next, visited, current, found, table_size, vector_count, table, mapped, command, enabled, entry, pc>>
device == <<head, id, next, table_size, vector_count>>

Entries == 0 .. vector_count - 1
num_vectors == IF table_size < vector_count THEN table_size ELSE vector_count

Init ==
    /\ head \in Offsets \cup {0}
    /\ id \in [Offsets -> {"msix", "other"}]
    /\ next \in [Offsets -> Offsets \cup {0}]
    /\ visited = {} /\ current = head /\ found = 0
    /\ table_size \in Sizes /\ vector_count \in Lens
    /\ table \in [Entries -> {[address |-> "stale", data |-> <<>>, masked |-> m] : m \in BOOLEAN}]
    /\ mapped = {}
    /\ command = {}
    /\ enabled = FALSE
    /\ entry = 0
    /\ pc = "find"

Goto(from, to) == pc = from /\ pc' = to

\* StandardCapIter::next, until find_capability has what it looks for.
Visit ==
    /\ pc = "find" /\ current # 0 /\ current \notin visited
    /\ visited' = visited \cup {current}
    /\ IF id[current] = "msix"
       THEN found' = current /\ pc' = "command" /\ UNCHANGED current
       ELSE current' = next[current] /\ UNCHANGED <<found, pc>>
    /\ UNCHANGED <<device, table, mapped, command, enabled, entry>>

NotFound ==
    /\ current = 0 \/ current \in visited
    /\ Goto("find", "err")
    /\ UNCHANGED <<device, visited, current, found, table, mapped, command, enabled, entry>>

\* "MSI-X table capacity is 0"
NoCapacity ==
    /\ num_vectors = 0
    /\ Goto("command", "err")
    /\ UNCHANGED <<device, visited, current, found, table, mapped, command, enabled, entry>>

EnableCommand ==
    /\ num_vectors > 0
    /\ Goto("command", "register")
    /\ command' = command \cup {"memory", "bus_master"}
    /\ UNCHANGED <<device, visited, current, found, table, mapped, enabled, entry>>

\* msi_register_device, then msi_get_doorbell
Register ==
    /\ Goto("register", "mask") \/ Goto("register", "err")
    /\ UNCHANGED <<device, visited, current, found, table, mapped, command, enabled, entry>>

\* Mutant: only the entries that will be used are masked.
MaskUsed ==
    /\ Goto("mask", IF entry + 1 < num_vectors THEN "mask" ELSE "map")
    /\ table' = [table EXCEPT ![entry].masked = TRUE]
    /\ entry' = (entry + 1) % num_vectors
    /\ UNCHANGED <<device, visited, current, found, mapped, command, enabled>>

Mask ==
    /\ Goto("mask", IF entry + 1 < vector_count THEN "mask" ELSE "map")
    /\ table' = [table EXCEPT ![entry].masked = TRUE]
    /\ entry' = (entry + 1) % vector_count
    /\ UNCHANGED <<device, visited, current, found, mapped, command, enabled>>

MapEvent ==
    /\ entry < num_vectors
    /\ Goto("map", "address")
    /\ mapped' = mapped \cup {entry}
    /\ UNCHANGED <<device, visited, current, found, table, command, enabled, entry>>

\* The entry remains masked.
MapEventFails ==
    /\ entry < num_vectors
    /\ Goto("map", "map")
    /\ entry' = entry + 1
    /\ UNCHANGED <<device, visited, current, found, table, mapped, command, enabled>>

\* configure: the address, the datum, and only then the mask.
SetAddress ==
    /\ Goto("address", "data")
    /\ table' = [table EXCEPT ![entry].address = "doorbell"]
    /\ UNCHANGED <<device, visited, current, found, mapped, command, enabled, entry>>

SetData ==
    /\ Goto("data", "unmask")
    /\ table' = [table EXCEPT ![entry].data = <<entry>>]
    /\ UNCHANGED <<device, visited, current, found, mapped, command, enabled, entry>>

Unmask ==
    /\ Goto("unmask", "map")
    /\ table' = [table EXCEPT ![entry].masked = FALSE]
    /\ entry' = entry + 1
    /\ UNCHANGED <<device, visited, current, found, mapped, command, enabled>>

NoneMapped ==
    /\ entry = num_vectors /\ mapped = {}
    /\ Goto("map", "err")
    /\ UNCHANGED <<device, visited, current, found, table, mapped, command, enabled, entry>>

EnableMsix ==
    /\ entry = num_vectors /\ mapped # {}
    /\ Goto("map", "ok")
    /\ enabled' = TRUE
    /\ UNCHANGED <<device, visited, current, found, table, mapped, command, entry>>

Next ==
    \/ Visit \/ NotFound \/ NoCapacity \/ EnableCommand \/ Register \/ Mask
    \/ MapEvent \/ MapEventFails \/ SetAddress \/ SetData \/ Unmask \/ NoneMapped \/ EnableMsix

Spec == Init /\ [][Next]_vars
-----------------------------------------------------------------------------
\* The capabilities the list leads to: they are in every set that the list, once
\* in it, does not leave.
Closed(S) == head \in S \cup {0} /\ \A o \in S : next[o] \in S \cup {0}
Listed == {o \in Offsets : \A S \in SUBSET Offsets : Closed(S) => o \in S}

\* find_capability finds the capability if and only if the list has it, even
\* if the list has no end.
FoundIfListed ==
    /\ found # 0 => found \in Listed /\ id[found] = "msix"
    /\ pc = "err" /\ found = 0 => \A o \in Listed : id[o] # "msix"

\* Once the table has been masked, an entry that is not masked signals an event
\* that has an LPI, by its own number; when MSI-X is on these are the events
\* that were mapped, and entries beyond num_vectors stay masked.
Signals(v) == ~table[v].masked
MsixSafe ==
    /\ pc \in {"map", "address", "data", "unmask", "ok"} =>
           \A v \in Entries :
               Signals(v) => v \in mapped /\ table[v].address = "doorbell" /\ table[v].data = <<v>>
    /\ enabled => {v \in Entries : Signals(v)} = mapped /\ command = {"memory", "bus_master"}

MsixInv == FoundIfListed /\ MsixSafe

PCs == {"find", "command", "register", "mask", "map", "address", "data", "unmask", "ok", "err"}

TypeOK ==
    /\ head \in Offsets \cup {0}
    /\ id \in [Offsets -> {"msix", "other"}]
    /\ next \in [Offsets -> Offsets \cup {0}]
    /\ visited \subseteq Offsets
    /\ current \in Offsets \cup {0} /\ found \in Offsets \cup {0}
    /\ table_size \in Nat \ {0} /\ vector_count \in Nat /\ entry \in Nat
    /\ table \in [Entries -> [address : {"stale", "doorbell"}, data : Seq(Nat), masked : BOOLEAN]]
    /\ mapped \subseteq Entries
    /\ enabled \in BOOLEAN
    /\ pc \in PCs

\* What was visited is listed, and what is listed was visited or is still to
\* come, for a visited capability leads to a visited one or to the current one.
FindInv ==
    /\ visited \subseteq Listed /\ current \in Listed \cup {0}
    /\ pc = "find" =>
           /\ found = 0 /\ \A o \in visited : id[o] # "msix"
           /\ head \in visited \cup {0, current}
           /\ \A o \in visited : next[o] \in visited \cup {0, current}
    /\ found = 0 => pc \in {"find", "err"}

\* The entries up to the current one are done with, those after it are masked.
TableInv ==
    /\ pc \in {"find", "command", "register"} => entry = 0 /\ mapped = {}
    /\ pc \in {"register", "mask", "map", "address", "data", "unmask", "ok"} =>
           vector_count > 0 /\ command = {"memory", "bus_master"}
    /\ pc \in {"find", "command"} => command = {}
    /\ pc = "mask" => entry < vector_count /\ mapped = {} /\ \A v \in Entries : v < entry => table[v].masked
    /\ pc \in {"map", "address", "data", "unmask", "ok"} =>
           /\ entry <= num_vectors
           /\ \A v \in Entries : v >= entry \/ v \notin mapped => table[v].masked
           /\ \A v \in mapped : v < entry => ~table[v].masked /\ table[v].address = "doorbell" /\ table[v].data = <<v>>
    /\ pc \in {"map", "ok"} => \A v \in mapped : v < entry
    /\ pc \in {"address", "data", "unmask"} => entry < num_vectors /\ entry \in mapped /\ \A v \in mapped : v <= entry
    /\ pc \in {"data", "unmask"} => table[entry].address = "doorbell"
    /\ pc = "unmask" => table[entry].data = <<entry>>
    /\ enabled => pc = "ok"

\* The inductive invariant.
IInv == TypeOK /\ FindInv /\ TableInv /\ FoundIfListed
=============================================================================
