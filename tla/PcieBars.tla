------------------------------ MODULE PcieBars ------------------------------
(***************************************************************************)
(* probe_bars (kernel/drivers/pcie/src/bar.rs): the size of a base address *)
(* register (BAR) is what it reads back after all ones were written to it. *)
(* Memory decoding is turned off meanwhile.  One step is one write, with   *)
(* the reads before it.                                                    *)
(*                                                                         *)
(* A register is the set of its bits that are 1.  Registers have Width     *)
(* bits here instead of 32; the lowest ones have their real meaning: bit 0 *)
(* I/O, bits 1 and 2 the type (2 is 64-bit), bit 3 prefetchable.           *)
(***************************************************************************)
EXTENDS Naturals, Sequences, FiniteSets, FiniteSetsExt, SequencesExt

CONSTANTS Width,
          Count,        \* 6
          Functions     \* [writable, value, command]: two sets of bits per register, one set of bits

Indices == 0 .. Count - 1

\* What the proofs need of the constants.
Assumptions ==
    /\ Count \in Nat
    /\ \A f \in Functions : f.value \in [Indices -> SUBSET Nat] /\ f.writable \in [Indices -> SUBSET Nat]

VARIABLES fn,           \* the function: the bits of it that can be written, and what it held at first
          regs, command,
          bar_i, original, mask, original_high,
          bars, pc

vars == <<fn, regs, command, bar_i, original, mask, original_high, bars, pc>>
locals == <<bar_i, original, mask, original_high>>

Bits == 0 .. Width - 1
Ones == Bits
Num(bits) == SumSet({2 ^ b : b \in bits})
Decoding == {"io", "memory"}     \* command & 3

\* What a register holds after v is written to it: hardwired bits stay.
Written(i, v) == (v \cap fn.writable[i]) \cup (fn.value[i] \ fn.writable[i])

Init ==
    /\ fn \in Functions
    /\ regs = fn.value
    /\ command = fn.command
    /\ bar_i = 0
    /\ original = {} /\ mask = {} /\ original_high = {}
    /\ bars = <<>>
    /\ pc = "decode"

Goto(from, to) == pc = from /\ pc' = to

DecodeOff ==
    /\ Goto("decode", "write")
    /\ command' = command \ Decoding
    /\ UNCHANGED <<fn, regs, locals, bars>>

WriteOnes ==
    /\ bar_i < Count /\ Goto("write", "restore")
    /\ original' = regs[bar_i]
    /\ regs' = [regs EXCEPT ![bar_i] = Written(bar_i, Ones)]
    /\ UNCHANGED <<fn, command, bar_i, mask, original_high, bars>>

Restore ==
    /\ Goto("restore", "decide")
    /\ mask' = regs[bar_i]
    /\ regs' = [regs EXCEPT ![bar_i] = Written(bar_i, original)]
    /\ UNCHANGED <<fn, command, bar_i, original, original_high, bars>>

is_io == 0 \in original
type_bits == original \cap {1, 2}
Is64 == ~is_io /\ type_bits = {2}
Reserved == ~is_io /\ 1 \in type_bits
FlagBits == IF is_io THEN {0, 1} ELSE {0, 1, 2, 3}

\* (!(mask & !flags)).wrapping_add(1), for registers of n bits in all
SizeOf(m, n) == (Num((0 .. n - 1) \ m) + 1) % 2 ^ n

\* A BAR of one register: reported if it is there.
Bar32 ==
    /\ ~Is64 /\ Goto("decide", "write")
    /\ bars' = IF Reserved \/ mask \in {{}, Ones} THEN bars
               ELSE Append(bars, [kind |-> IF is_io THEN "io" ELSE "memory32",
                                  address |-> Num(original \ FlagBits),
                                  size |-> SizeOf(mask \ FlagBits, Width)])
    /\ bar_i' = bar_i + 1
    /\ UNCHANGED <<fn, regs, command, original, mask, original_high>>

\* The last register cannot be the lower half of anything.
Invalid64 ==
    /\ Is64 /\ bar_i >= Count - 1 /\ Goto("decide", "write")
    /\ bar_i' = bar_i + 1
    /\ UNCHANGED <<fn, regs, command, original, mask, original_high, bars>>

WriteHigh ==
    /\ Is64 /\ bar_i < Count - 1 /\ Goto("decide", "restore_high")
    /\ original_high' = regs[bar_i + 1]
    /\ regs' = [regs EXCEPT ![bar_i + 1] = Written(bar_i + 1, Ones)]
    /\ UNCHANGED <<fn, command, bar_i, original, mask, bars>>

Shifted(bits) == {b + Width : b \in bits}

RestoreHigh ==
    LET raw_mask == Shifted(regs[bar_i + 1]) \cup (mask \ {0, 1, 2, 3})
    IN /\ Goto("restore_high", "write")
       /\ regs' = [regs EXCEPT ![bar_i + 1] = Written(bar_i + 1, original_high)]
       /\ bars' = IF raw_mask = {} THEN bars
                  ELSE Append(bars, [kind |-> "memory64",
                                     address |-> Num(Shifted(original_high) \cup (original \ {0, 1, 2, 3})),
                                     size |-> SizeOf(raw_mask, 2 * Width)])
       /\ bar_i' = bar_i + 2
       /\ UNCHANGED <<fn, command, original, mask, original_high>>

\* CommandRegGuard::drop
RestoreCommand ==
    /\ bar_i >= Count /\ Goto("write", "done")
    /\ command' = fn.command
    /\ UNCHANGED <<fn, regs, locals, bars>>

Next ==
    \/ DecodeOff \/ WriteOnes \/ Restore \/ Bar32 \/ Invalid64 \/ WriteHigh \/ RestoreHigh
    \/ RestoreCommand

Spec == Init /\ [][Next]_vars
-----------------------------------------------------------------------------
\* What the function has, from how it is built: a BAR is as large as the
\* lowest address bit it can hold.
BarsOf(i) ==
    LET flags == fn.value[i] \ fn.writable[i]
        lowest(w) == 2 ^ Min(w)
    IN IF 0 \in flags /\ fn.writable[i] # {}
       THEN <<[kind |-> "io", address |-> Num(fn.value[i] \ {0}), size |-> lowest(fn.writable[i])]>>
       ELSE IF flags \cap {0, 1, 2} = {} /\ fn.writable[i] # {}
       THEN <<[kind |-> "memory32", address |-> Num(fn.value[i] \ {3}), size |-> lowest(fn.writable[i])]>>
       ELSE IF flags \cap {0, 1, 2} = {2} /\ i + 1 < Count
       THEN <<[kind |-> "memory64",
               address |-> Num((fn.value[i] \ {2, 3}) \cup Shifted(fn.value[i + 1])),
               size |-> lowest(fn.writable[i] \cup Shifted(fn.writable[i + 1]))]>>
       ELSE <<>>

\* Registers that are the upper half of a BAR.
Upper(i) == i > 0 /\ i < Count /\ fn.value[i - 1] \cap {0, 1, 2} = {2}

\* A BAR that does not hold its address is not decoded: neither memory nor I/O
\* of others is claimed while sizes are probed.
NotDecodedMoved == regs # fn.value => command \cap Decoding = {}

\* In the end the function is as it was,
Restored == pc = "done" => regs = fn.value /\ command = fn.command

\* and its BARs are known with their addresses and sizes.
BarsExact ==
    pc = "done" =>
        bars = FlattenSeq([j \in 1 .. Count |-> IF Upper(j - 1) THEN <<>> ELSE BarsOf(j - 1)])

BarsInv == NotDecodedMoved /\ Restored /\ BarsExact

\* The inductive invariant of the first two: at most one register does not hold
\* its address, its first value is kept, and decoding is off from the first
\* write to the last.
MovedOnly(i) == \A j \in Indices : j # i => regs[j] = fn.value[j]
IInv ==
    /\ fn \in Functions /\ bar_i \in Nat
    /\ regs \in [Indices -> SUBSET Nat]
    /\ pc \in {"decode", "write", "restore", "decide", "restore_high", "done"}
    /\ command = IF pc \in {"decode", "done"} THEN fn.command ELSE fn.command \ Decoding
    /\ pc \in {"decode", "write", "decide", "done"} => regs = fn.value
    /\ pc = "restore" => bar_i \in Indices /\ original = fn.value[bar_i] /\ MovedOnly(bar_i)
    /\ pc = "restore_high" =>
           bar_i + 1 \in Indices /\ original_high = fn.value[bar_i + 1] /\ MovedOnly(bar_i + 1)
=============================================================================
