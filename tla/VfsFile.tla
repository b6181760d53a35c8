------------------------------ MODULE VfsFile ------------------------------
(***************************************************************************)
(* File::read and File::write (klib/src/vfs/file.rs): several threads      *)
(* share open files of one inode.  The read lock on the directory entry    *)
(* excludes nobody, since no code takes it for writing, so every access to *)
(* an atomic is a step of its own.  A call on a file opened without the    *)
(* permission returns at once and changes nothing.  read_at and write_at   *)
(* belong to the file system: they transfer up to the bytes asked for, or  *)
(* fail.                                                                   *)
(***************************************************************************)
EXTENDS Integers

CONSTANTS Threads, Files,
          MaxBuffer,      \* the longest buffer of a call
          MaxOffset       \* the file system is out of space beyond this byte

Assumptions == Files # {} /\ MaxBuffer \in Nat

VARIABLES offset,         \* File::offset
          size,           \* Inode::size
          stored,         \* the furthest end of a write that write_at took (external)
          pc, file,
          current, count, old_size   \* the locals of a call

vars == <<offset, size, stored, pc, file, current, count, old_size>>

Init ==
    /\ offset = [f \in Files |-> 0]
    /\ size \in {0, 1}
    /\ stored = size
    /\ pc = [t \in Threads |-> "idle"]
    /\ file \in [Threads -> {CHOOSE f \in Files : TRUE}]
    /\ current = [t \in Threads |-> 0]
    /\ count = [t \in Threads |-> 0]
    /\ old_size = [t \in Threads |-> 0]

\* A call returns; its locals are gone.
Return(t) ==
    /\ pc' = [pc EXCEPT ![t] = "idle"]
    /\ current' = [current EXCEPT ![t] = 0]
    /\ count' = [count EXCEPT ![t] = 0]
    /\ old_size' = [old_size EXCEPT ![t] = 0]
    /\ UNCHANGED file

Goto(t, from, to) == pc[t] = from /\ pc' = [pc EXCEPT ![t] = to]

\* self.offset.load(Acquire), in read and in write
Load(t, f, to) ==
    /\ Goto(t, "idle", to)
    /\ file' = [file EXCEPT ![t] = f]
    /\ current' = [current EXCEPT ![t] = offset[f]]
    /\ UNCHANGED <<offset, size, stored, count, old_size>>

Read(t, f) == Load(t, f, "read_at")
Write(t, f) == Load(t, f, "write_at")

Max2(a, b) == IF a > b THEN a ELSE b

\* operations.read_at: as many bytes as there are, or fewer
ReadAt(t, n) ==
    /\ Goto(t, "read_at", "advance_read")
    /\ n = 0 \/ current[t] + n <= stored
    /\ count' = [count EXCEPT ![t] = n]
    /\ UNCHANGED <<offset, size, stored, file, current, old_size>>

\* operations.write_at: the data are the file system's from here on
WriteAt(t, n) ==
    /\ Goto(t, "write_at", "advance_write")
    /\ current[t] + n <= MaxOffset
    /\ count' = [count EXCEPT ![t] = n]
    /\ stored' = Max2(stored, current[t] + n)
    /\ UNCHANGED <<offset, size, file, current, old_size>>

\* `?`: an error of the file system ends the call.
TransferFails(t) ==
    /\ pc[t] \in {"read_at", "write_at"}
    /\ Return(t)
    /\ UNCHANGED <<offset, size, stored>>

\* self.offset.fetch_add(bytes_count)
FetchAdd(t) == offset' = [offset EXCEPT ![file[t]] = @ + count[t]]

AdvanceRead(t) ==
    /\ pc[t] = "advance_read"
    /\ FetchAdd(t)
    /\ Return(t)
    /\ UNCHANGED <<size, stored>>

AdvanceWrite(t) ==
    /\ Goto(t, "advance_write", "load_size")
    /\ FetchAdd(t)
    /\ UNCHANGED <<size, stored, file, current, count, old_size>>

new_size(t) == current[t] + count[t]

\* inode.size.load(Acquire)
LoadSize(t) ==
    /\ Goto(t, "load_size", "grow")
    /\ old_size' = [old_size EXCEPT ![t] = size]
    /\ UNCHANGED <<offset, size, stored, file, current, count>>

\* while new_size > old_size
GrowDone(t) ==
    /\ pc[t] = "grow"
    /\ new_size(t) <= old_size[t]
    /\ Return(t)
    /\ UNCHANGED <<offset, size, stored>>

\* Mutant: a store where the code compares and exchanges.
GrowStore(t) ==
    /\ pc[t] = "grow"
    /\ new_size(t) > old_size[t]
    /\ size' = new_size(t)
    /\ Return(t)
    /\ UNCHANGED <<offset, stored>>

\* compare_exchange_weak succeeds
Grow(t) ==
    /\ pc[t] = "grow"
    /\ new_size(t) > old_size[t]
    /\ size = old_size[t]
    /\ size' = new_size(t)
    /\ Return(t)
    /\ UNCHANGED <<offset, stored>>

\* It fails: the size has changed, or the exchange failed for no reason.
GrowFails(t) ==
    /\ pc[t] = "grow"
    /\ new_size(t) > old_size[t]
    /\ old_size' = [old_size EXCEPT ![t] = size]
    /\ UNCHANGED <<offset, size, stored, pc, file, current, count>>

Next ==
    \E t \in Threads :
       \/ \E f \in Files : Read(t, f) \/ Write(t, f)
       \/ \E n \in 0 .. MaxBuffer : ReadAt(t, n) \/ WriteAt(t, n)
       \/ TransferFails(t) \/ AdvanceRead(t) \/ AdvanceWrite(t)
       \/ LoadSize(t) \/ GrowDone(t) \/ Grow(t) \/ GrowFails(t)

Spec == Init /\ [][Next]_vars
-----------------------------------------------------------------------------
TypeOK ==
    /\ offset \in [Files -> Nat]
    /\ size \in Nat
    /\ stored \in Nat
    /\ pc \in [Threads -> {"idle", "read_at", "write_at", "advance_read", "advance_write", "load_size", "grow"}]
    /\ file \in [Threads -> Files]
    /\ current \in [Threads -> Nat]
    /\ count \in [Threads -> Nat]
    /\ old_size \in [Threads -> Nat]

\* The writes that the file system took and the size does not show yet.
Ends == {new_size(t) : t \in {u \in Threads : pc[u] \in {"advance_write", "load_size", "grow"}}}

\* The size of the inode is the furthest end of all writes, but for the writes
\* still under way: no write's growth is lost to another that raced with it.
SizeExact ==
    /\ size <= stored
    /\ size # stored => stored \in Ends
    /\ \A t \in Threads : pc[t] = "grow" => old_size[t] <= size
-----------------------------------------------------------------------------
Writing == {"advance_write", "load_size", "grow"}

\* What the steps preserve together: besides SizeExact, no write under way ends
\* beyond what the file system took, or its exchange would carry the size
\* past `stored`.
IInv ==
    /\ TypeOK
    /\ SizeExact
    /\ \A t \in Threads : pc[t] \in Writing => new_size(t) <= stored
=============================================================================
