----------------------------- MODULE Exceptions -----------------------------
(***************************************************************************)
(* Exception entry and return (the macros of klib/src/exception.rs), and   *)
(* the start of a thread by el1_load_register_file, instruction by         *)
(* instruction on one core.  The core runs a thread at exception level     *)
(* `el`; its stack is `mem`, counted in words of 8 bytes.                  *)
(*                                                                         *)
(* An instruction stores or loads registers at an offset from a base       *)
(* register, or moves between a general and a special register.  All       *)
(* exceptions are masked from the entry to the ERET, so that nothing comes *)
(* between two of these instructions.                                      *)
(***************************************************************************)
EXTENDS Integers, Sequences

CONSTANTS StackTop,      \* the size of the stack, in words
          Depths,        \* how deep a thread may be in its stack, in words
          Generations    \* bound: how often a thread changes its registers

VARIABLES el,        \* the level of the thread: 0 or 1
          x,         \* the general registers
          sys,       \* the special registers, with the program counter
          mem,       \* the stack
          code, ip,  \* what runs: a sequence of instructions and the next of them
          kind,      \* the exception taken, or "none"
          age,       \* how often the thread has changed its registers
          interrupted    \* what the thread has to find when it runs again

vars == <<el, x, sys, mem, code, ip, kind, age, interrupted>>

X == 0 .. 30
FrameWords == 36     \* RegisterFile: registers[31], sp, elr, spsr, esr, far
RedZone == 16
Junk == -1
Masked == 8

\* The level's part of the stack that an exception has to leave alone.
Reserved(level) == IF level = 1 THEN RedZone ELSE 0
-----------------------------------------------------------------------------
(* Instructions *)

Store(rs, base, off) == [op |-> "store", regs |-> rs, base |-> base, off |-> off]
Load(rs, base, off) == [op |-> "load", regs |-> rs, base |-> base, off |-> off]
Push(rs, size) == [op |-> "push", regs |-> rs, size |-> size]
Pop(rs, size) == [op |-> "pop", regs |-> rs, size |-> size]
Get(r, special, plus) == [op |-> "get", reg |-> r, special |-> special, plus |-> plus]
Set(special, r) == [op |-> "set", reg |-> r, special |-> special]
Bl == [op |-> "bl"]
Eret == [op |-> "eret"]

StorePairs == [k \in 1 .. 14 |-> Store(<<2 * k, 2 * k + 1>>, "sp", 2 * k)]
LoadPairs == [k \in 1 .. 14 |-> Load(<<2 * k, 2 * k + 1>>, "sp", 2 * k)]

save_regs(level) ==
    <<Push(<<0, 1>>, Reserved(level) + FrameWords)>>
    \o StorePairs \o <<Store(<<30>>, "sp", 30)>>
    \o <<IF level = 0 THEN Get(16, "sp_el0", 0) ELSE Get(16, "sp", RedZone + FrameWords),
         Store(<<16>>, "sp", 31),
         Get(16, "elr", 0), Get(17, "spsr", 0), Store(<<16, 17>>, "sp", 32),
         Get(16, "esr", 0), Get(17, "far", 0), Store(<<16, 17>>, "sp", 34)>>

\* Mutant: the registers used to restore the special ones are restored first.
restore_regs_early(level) ==
    LoadPairs \o <<Load(<<30>>, "sp", 30)>>
    \o <<Load(<<16, 17>>, "sp", 32), Set("elr", 16), Set("spsr", 17),
         Load(<<16, 17>>, "sp", 34), Set("esr", 16), Set("far", 17)>>
    \o IF level = 0
       THEN <<Load(<<0>>, "sp", 31), Set("sp_el0", 0), Pop(<<0, 1>>, FrameWords)>>
       ELSE <<Load(<<0>>, "sp", 31), Get(1, "sp", 0), Set("sp", 0), Load(<<0, 1>>, "x1", 0)>>

restore_regs(level) ==
    <<Load(<<16, 17>>, "sp", 32), Set("elr", 16), Set("spsr", 17),
      Load(<<16, 17>>, "sp", 34), Set("esr", 16), Set("far", 17)>>
    \o LoadPairs \o <<Load(<<30>>, "sp", 30)>>
    \o IF level = 0
       THEN <<Load(<<0>>, "sp", 31), Set("sp_el0", 0), Pop(<<0, 1>>, FrameWords)>>
       ELSE <<Load(<<0>>, "sp", 31), Get(1, "sp", 0), Set("sp", 0), Load(<<0, 1>>, "x1", 0)>>

current_exception(level) ==
    save_regs(level) \o <<Get(0, "sp", 0), Bl, Set("sp", 0)>> \o restore_regs(level) \o <<Eret>>

el1_load_register_file == <<Set("sp", 0)>> \o restore_regs(1) \o <<Eret>>
-----------------------------------------------------------------------------
(* A new thread *)

\* Thread::new_kernel: the frame at the top of the stack.
ctx_ptr == StackTop - FrameWords
NewFrame == [k \in 0 .. FrameWords - 1 |->
                CASE k < 31 -> 0 [] k = 31 -> StackTop [] k = 32 -> 1000 [] k = 33 -> 5 [] OTHER -> Junk]

Context == [x |-> x, sys |-> sys, mem |-> mem]

Init ==
    /\ el \in {0, 1}
    /\ mem = [a \in 0 .. StackTop - 1 |-> IF a >= ctx_ptr THEN NewFrame[a - ctx_ptr] ELSE Junk]
    /\ kind = "none" /\ age = 0
    /\ LET start == [sp |-> StackTop, sp_el0 |-> 700, elr |-> Junk, spsr |-> Junk, esr |-> Junk, far |-> Junk,
                     pc |-> 1000, pstate |-> 5]
       IN IF el = 1    \* idle_init, on the boot stack
          THEN /\ x = [i \in X |-> IF i = 0 THEN ctx_ptr ELSE Junk]
               /\ sys = [start EXCEPT !.sp = Junk, !.pc = Junk, !.pstate = Masked]
               /\ code = el1_load_register_file /\ ip = 1
               /\ interrupted = [x |-> [i \in X |-> 0], sys |-> start, mem |-> mem]
          ELSE /\ x = [i \in X |-> 0] /\ sys = start
               /\ code = <<>> /\ ip = 0
               /\ interrupted = Context
-----------------------------------------------------------------------------
(* Steps *)

Is(op) == ip \in DOMAIN code /\ code[ip].op = op
Base(i) == IF i.base = "x1" THEN x[1] ELSE sys.sp
Next1 == ip' = ip + 1 /\ UNCHANGED <<el, code, kind, age, interrupted>>

\* Where register rs[k] goes: word k of the range that begins at a.
Written(rs, a) == [b \in DOMAIN mem |-> IF b - a + 1 \in DOMAIN rs THEN x[rs[b - a + 1]] ELSE mem[b]]
Loaded(rs, a) == [r \in X |-> IF \E k \in DOMAIN rs : rs[k] = r
                              THEN mem[a + (CHOOSE k \in DOMAIN rs : rs[k] = r) - 1] ELSE x[r]]

Transfer ==
    LET i == code[ip] IN
    \/ /\ Is("store") /\ Next1
       /\ mem' = Written(i.regs, Base(i) + i.off)
       /\ UNCHANGED <<x, sys>>
    \/ /\ Is("load") /\ Next1
       /\ x' = Loaded(i.regs, Base(i) + i.off)
       /\ UNCHANGED <<sys, mem>>
    \/ /\ Is("push") /\ Next1
       /\ mem' = Written(i.regs, sys.sp - i.size)
       /\ sys' = [sys EXCEPT !.sp = @ - i.size]
       /\ UNCHANGED x
    \/ /\ Is("pop") /\ Next1
       /\ x' = Loaded(i.regs, sys.sp)
       /\ sys' = [sys EXCEPT !.sp = @ + i.size]
       /\ UNCHANGED mem
    \/ /\ Is("get") /\ Next1
       /\ x' = [x EXCEPT ![i.reg] = sys[i.special] + i.plus]
       /\ UNCHANGED <<sys, mem>>
    \/ /\ Is("set") /\ Next1
       /\ sys' = [sys EXCEPT ![i.special] = x[i.reg]]
       /\ UNCHANGED <<x, mem>>

\* irq_current returns the frame it was given: schedule() panics before it
\* returns another one (NoContextPanic, in SmpBoot).  It keeps x19 to x29.
HandlerReturns ==
    /\ Is("bl") /\ kind = "irq"
    /\ x' = [r \in X |-> IF r \in {0} \cup (19 .. 29) THEN x[r] ELSE Junk]
    /\ mem' = [a \in DOMAIN mem |-> IF a < sys.sp THEN Junk ELSE mem[a]]
    /\ Next1
    /\ UNCHANGED sys

\* Every other handler panics, or spins, and irq_current may.
HandlerStops ==
    /\ Is("bl")
    /\ code' = <<>> /\ ip' = 1
    /\ UNCHANGED <<el, x, sys, mem, kind, age, interrupted>>

ReturnToThread ==
    /\ Is("eret")
    /\ sys' = [sys EXCEPT !.pc = sys.elr, !.pstate = sys.spsr]
    /\ code' = <<>> /\ ip' = 0 /\ kind' = "none"
    /\ UNCHANGED <<el, x, mem, age, interrupted>>

\* The core takes an exception: the processor saves where it was.
Take(k) ==
    /\ ip = 0
    /\ interrupted' = Context
    /\ sys' = [sys EXCEPT !.elr = sys.pc, !.spsr = sys.pstate, !.pc = Junk, !.pstate = Masked,
                          !.esr = IF k \in {"sync", "serror"} THEN 800 + age ELSE @,
                          !.far = IF k = "sync" THEN 900 + age ELSE @]
    /\ code' = current_exception(el) /\ ip' = 1 /\ kind' = k
    /\ UNCHANGED <<el, x, mem, age>>

\* The thread goes on: other registers, another depth in its stack, whose words
\* (at EL1 also those of the red zone) it has written.
Run(depth) ==
    LET g == 100 * (age + 1) IN
    /\ ip = 0 /\ age < Generations
    /\ age' = age + 1
    /\ x' = [r \in X |-> g + r]
    /\ sys' = [sys EXCEPT ![IF el = 1 THEN "sp" ELSE "sp_el0"] = StackTop - depth, !.pc = 1000 + g]
    /\ mem' = [a \in DOMAIN mem |-> IF el = 1 /\ a >= StackTop - depth - RedZone THEN g + 50 ELSE mem[a]]
    /\ interrupted' = [x |-> x', sys |-> sys', mem |-> mem']
    /\ UNCHANGED <<el, code, ip, kind>>

Next ==
    \/ Transfer \/ HandlerReturns \/ HandlerStops \/ ReturnToThread
    \/ \E k \in {"sync", "irq", "fiq", "serror"} : Take(k)
    \/ \E depth \in Depths : Run(depth)

Spec == Init /\ [][Next]_vars
-----------------------------------------------------------------------------
\* The general registers, the stack pointers, the program counter and PSTATE:
\* not ESR and FAR, which no thread reads.
Visible(c) == [x |-> c.x, special |-> [s \in {"sp", "sp_el0", "pc", "pstate"} |-> c.sys[s]]]

\* A thread that runs again, or for the first time, finds all of its registers,
\* and of its stack what it had there, the red zone of a leaf function included.
Resumes ==
    ip = 0 =>
        /\ Visible(Context) = Visible(interrupted)
        /\ \A a \in DOMAIN mem : a >= interrupted.sys.sp - Reserved(el) => mem[a] = interrupted.mem[a]

\* What a handler gets as its RegisterFileRef is the interrupted context, field
\* by field, and the frame lies within the stack.
FrameIsContext ==
    Is("bl") =>
        LET f == x[0]
            was == interrupted.sys
        IN /\ 0 <= f /\ f + FrameWords + Reserved(el) <= StackTop
           /\ \A r \in X : mem[f + r] = interrupted.x[r]
           /\ mem[f + 31] = IF el = 1 THEN was.sp ELSE was.sp_el0
           /\ mem[f + 32] = was.pc /\ mem[f + 33] = was.pstate
           /\ mem[f + 34] = sys.esr /\ mem[f + 35] = sys.far

ContextInv == Resumes /\ FrameIsContext
=============================================================================
