------------------------------ MODULE SmpBoot -------------------------------
(***************************************************************************)
(* Bringing up the cores: the boot core (BSP) starts the others one after  *)
(* another, lends each a stack and a block of arguments and takes them     *)
(* back when that core's `ready` is set; every core registers with the     *)
(* scheduler, spawns its idle thread and enters it directly.  From then on *)
(* it takes interrupts; the timer's calls schedule() if Timer::set_irq has *)
(* told the driver which one that is.  Nothing in the kernel calls it, so  *)
(* the kernel as it stands is TimerIrqs = {FALSE}; TRUE stands for one     *)
(* whose timer driver does, the only caller schedule() has.                *)
(***************************************************************************)
EXTENDS Scheduler

CONSTANTS BSP,
          TimerIrqs     \* whether timer_irq has been set: one or both of FALSE and TRUE

ASSUME BSPAssumption == BSP \in CPUs
ASSUME TimerIrqsAssumption == TimerIrqs \subseteq BOOLEAN

VARIABLES pc,        \* where each core is
          irq,       \* where each core is in irq_current
          timer_irq, \* whether TIMER knows its interrupt
          target,    \* cpu_i of spawn()
          ready,     \* PerCpuData.ready
          lent,      \* the cores whose boot stack and arguments are allocated
          on         \* the stack each core is on: BootStack or a thread's

BootStack == -1

vars == <<queues, current, state, spawn_counter, readers, holders, pc, irq, timer_irq, target, ready, lent, on>>

PC == {"off", "trampoline", "register", "write", "devices", "spawn", "pick", "push", "eret",
       "entry", "idle", "boot", "wait", "panic", "halt"}

TypeOK ==
    /\ queues \in Seq(Seq(Threads))
    /\ current \in [CPUs -> Threads \cup {None}]
    /\ state \in [Threads -> {"Running", "Ready", "Blocked", "Dead"}]
    /\ spawn_counter \in 0 .. CounterMod - 1
    /\ readers \subseteq CPUs /\ holders \subseteq CPUs
    /\ pc \in [CPUs -> PC]
    /\ irq \in [CPUs -> {"none", "ack", "read", "schedule", "eoi"}]
    /\ timer_irq \in TimerIrqs
    /\ target \in [CPUs -> CPUs]
    /\ ready \subseteq CPUs
    /\ lent \subseteq CPUs
    /\ on \in [CPUs -> Threads \cup {BootStack}]

Init ==
    /\ SchedInit
    /\ pc = [c \in CPUs |-> IF c = BSP THEN "boot" ELSE "off"]
    /\ irq = [c \in CPUs |-> "none"]
    /\ timer_irq \in TimerIrqs
    /\ target = [c \in CPUs |-> 0]
    /\ ready = {}
    /\ lent = {}
    /\ on = [c \in CPUs |-> BootStack]

Goto(c, from, to) == irq[c] = "none" /\ pc[c] = from /\ pc' = [pc EXCEPT ![c] = to]

\* A core in write() has announced itself and keeps new readers out.
WriterWaits == \E c \in CPUs : pc[c] = "write"
-----------------------------------------------------------------------------
(* The boot core *)

Secondaries == CPUs \ {BSP}
Started(c) == pc[c] # "off"

\* boot_secondary up to cpu_on, for the next core of the device tree.
CpuOn(c) ==
    /\ \A d \in Secondaries : Started(d) <=> d < c
    /\ pc[BSP] = "boot"
    /\ pc' = [pc EXCEPT ![BSP] = "wait", ![c] = "trampoline"]
    /\ lent' = lent \cup {c}
    /\ UNCHANGED <<schedVars, timer_irq, irq, target, ready, on>>

\* cpu_on returns a PsciError, on which the caller panics.
CpuOnFails(c) ==
    /\ \A d \in Secondaries : Started(d) <=> d < c
    /\ Goto(BSP, "boot", "halt")
    /\ UNCHANGED <<schedVars, timer_irq, irq, target, ready, lent, on>>

\* The spin on pcpu.ready ends; boot_secondary returns and drops args and stack.
SeesReady ==
    /\ Goto(BSP, "wait", "boot")
    /\ lent \subseteq ready
    /\ lent' = {}
    /\ UNCHANGED <<schedVars, timer_irq, irq, target, ready, on>>

\* All are up: the boot core goes on to its own register_cpu.
AllStarted ==
    /\ \A c \in Secondaries : Started(c)
    /\ Goto(BSP, "boot", "register")
    /\ UNCHANGED <<schedVars, timer_irq, irq, target, ready, lent, on>>
-----------------------------------------------------------------------------
(* Every core *)

\* The trampoline has read its arguments, secondary_init has set TPIDR.
Trampoline(c) ==
    /\ Goto(c, "trampoline", "register")
    /\ UNCHANGED <<schedVars, timer_irq, irq, target, ready, lent, on>>

\* write() announces itself, and gets the lock when the readers have gone.
WaitToRegister(c) ==
    /\ ~WriterWaits
    /\ Goto(c, "register", "write")
    /\ UNCHANGED <<schedVars, timer_irq, irq, target, ready, lent, on>>

Register(c) ==
    /\ Goto(c, "write", IF c = BSP THEN "spawn" ELSE "devices")
    /\ RegisterCpu(c)
    /\ UNCHANGED <<irq, timer_irq, target, ready, lent, on>>

\* secondary_main: the timer of this core is on, its interrupts are masked.
Devices(c) ==
    /\ Goto(c, "devices", "spawn")
    /\ UNCHANGED <<schedVars, timer_irq, irq, target, ready, lent, on>>

\* idle_init: GLOBAL_SCHEDULER.spawn(idle_thread).
SpawnRead(c) ==
    /\ ~WriterWaits
    /\ Goto(c, "spawn", "pick")
    /\ ReadQueues(c)
    /\ UNCHANGED <<irq, timer_irq, target, ready, lent, on>>

SpawnPick(c) ==
    /\ HasCPUs
    /\ Goto(c, "pick", "push")
    /\ target' = [target EXCEPT ![c] = Target]
    /\ PickTarget
    /\ UNCHANGED <<irq, timer_irq, ready, lent, on>>

SpawnPush(c) ==
    /\ Goto(c, "push", "eret")
    /\ PushThread(c, c, target[c])
    /\ UNCHANGED <<irq, timer_irq, target, ready, lent, on>>

\* Mutant: a core reports ready while it is still on its boot stack.
EretEarlyReady(c) ==
    /\ Goto(c, "eret", "entry")
    /\ ready' = ready \cup {c}
    /\ UNCHANGED <<schedVars, timer_irq, irq, target, lent, on>>

\* el1_load_register_file: the core is on the idle stack, interrupts unmasked.
Eret(c) ==
    /\ Goto(c, "eret", "entry")
    /\ on' = [on EXCEPT ![c] = c]
    /\ UNCHANGED <<schedVars, timer_irq, irq, target, ready, lent>>

\* Mutant: a core that forgets to report.
EntrySilent(c) ==
    /\ Goto(c, "entry", "idle")
    /\ UNCHANGED <<schedVars, timer_irq, irq, target, ready, lent, on>>

\* idle_entry.
Entry(c) ==
    /\ Goto(c, "entry", "idle")
    /\ ready' = ready \cup {c}
    /\ UNCHANGED <<schedVars, timer_irq, irq, target, lent, on>>
-----------------------------------------------------------------------------
(* Timer interrupts: irq_current *)

IrqGoto(c, from, to) == irq[c] = from /\ irq' = [irq EXCEPT ![c] = to]

Irq(c) ==
    /\ pc[c] \in {"entry", "idle"}
    /\ IrqGoto(c, "none", "ack")
    /\ UNCHANGED <<schedVars, timer_irq, pc, target, ready, lent, on>>

\* acknowledge_interrupt finds nothing pending, or the interrupt of a device.
IrqAck(c) ==
    /\ IrqGoto(c, "ack", "none") \/ IrqGoto(c, "ack", "eoi")
    /\ UNCHANGED <<schedVars, timer_irq, pc, target, ready, lent, on>>

\* It returns the timer's interrupt, which is_timer compares with get_irq().
IrqAckTimer(c) ==
    /\ IrqGoto(c, "ack", IF timer_irq THEN "read" ELSE "eoi")
    /\ UNCHANGED <<schedVars, timer_irq, pc, target, ready, lent, on>>

IrqRead(c) ==
    /\ ~WriterWaits
    /\ IrqGoto(c, "read", "schedule")
    /\ ReadQueues(c)
    /\ UNCHANGED <<pc, timer_irq, target, ready, lent, on>>

\* schedule() returns the registers to load, or panics.
IrqSchedule(c) ==
    /\ IrqGoto(c, "schedule", IF CtxBusy(c) THEN "none" ELSE "eoi")
    /\ Registered(c)
    /\ Schedule(c)
    /\ pc' = IF CtxBusy(c) THEN [pc EXCEPT ![c] = "panic"] ELSE pc
    /\ on' = IF Switches(c) /\ ~CtxBusy(c) THEN [on EXCEPT ![c] = NextThread(c)] ELSE on
    /\ UNCHANGED <<timer_irq, target, ready, lent>>

EndOfInterrupt(c) ==
    /\ IrqGoto(c, "eoi", "none")
    /\ UNCHANGED <<schedVars, timer_irq, pc, target, ready, lent, on>>

Thread(c) == SpawnRead(c) \/ SpawnPick(c) \/ SpawnPush(c) \/ Eret(c) \/ Entry(c)
Handler(c) == IrqAck(c) \/ IrqAckTimer(c) \/ IrqRead(c) \/ IrqSchedule(c) \/ EndOfInterrupt(c)

Next ==
    \/ \E c \in Secondaries : CpuOn(c) \/ CpuOnFails(c) \/ Trampoline(c) \/ Devices(c)
    \/ SeesReady \/ AllStarted
    \/ \E c \in CPUs :
          \/ WaitToRegister(c) \/ Register(c)
          \/ Thread(c) \/ Irq(c) \/ Handler(c)

Spec == Init /\ [][Next]_vars

\* Cores keep executing: the boot code, a handler that has been entered, and
\* what a core runs between two interrupts.
Fairness ==
    /\ WF_vars(SeesReady) /\ WF_vars(AllStarted)
    /\ \A c \in Secondaries : WF_vars(CpuOn(c)) /\ WF_vars(Trampoline(c)) /\ WF_vars(Devices(c))
    /\ \A c \in CPUs :
          /\ WF_vars(WaitToRegister(c)) /\ WF_vars(Register(c))
          /\ SF_vars(Thread(c)) /\ WF_vars(Handler(c))

\* irq_current arms the timer each time it returns: interrupts keep coming, and
\* the timer's is among them.
TicksFairness == \A c \in CPUs : WF_vars(Irq(c)) /\ SF_vars(IrqAckTimer(c))

FairSpec == Spec /\ Fairness
TicksSpec == FairSpec /\ TicksFairness
-----------------------------------------------------------------------------
\* A core that is on its boot stack, or still reads its arguments, has them:
\* boot_secondary drops both when it returns, and returns on `ready`
\* ("owning core must set to true before BSP can continue", per_cpu/mod.rs:14).
StackSafe == \A c \in Secondaries : Started(c) /\ on[c] = BootStack => c \in lent

\* No two cores are on the stack of one thread, although idle_init both spawns
\* the idle thread for any core to pick up and enters it itself: schedule()
\* never completes a switch to it ("nothing else should mutate the `ctx`",
\* scheduler.rs:164).
ThreadOnOneCore ==
    \A c, d \in CPUs : c # d /\ on[c] = on[d] => on[c] = BootStack

\* Whatever order the cores register and spawn in, the index expressions of
\* schedule() and the assertion of spawn() never fail: a core that takes a tick
\* has a queue, one that spawns finds a queue.
QueuesReady ==
    /\ \A c \in CPUs : irq[c] = "schedule" => Registered(c)
    /\ \A c \in CPUs : pc[c] = "pick" => HasCPUs

Spawned == {"eret", "entry", "idle", "panic"}
InQueue(t) == \E i \in DOMAIN queues : \E j \in DOMAIN queues[i] : queues[i][j] = t

\* A spawned idle thread is never lost or queued twice: it is in one place of
\* one queue, or is the current thread of the core that panicked when it picked
\* it up.
ThreadPlacedOnce ==
    /\ \A i, k \in DOMAIN queues : \A j \in DOMAIN queues[i], l \in DOMAIN queues[k] :
          queues[i][j] = queues[k][l] => i = k /\ j = l
    /\ \A c \in CPUs : current[c] # None => ~InQueue(current[c])
    /\ \A c, d \in CPUs : current[c] # None /\ current[c] = current[d] => c = d
    /\ \A t \in Threads : pc[t] \in Spawned <=> InQueue(t) \/ \E c \in CPUs : current[c] = t

\* How far a core is tells which stack it is on, whether it has reported and
\* whether it has a queue; only a core that is past its boot takes interrupts.
ProgressInv ==
    /\ Len(queues) <= N
    /\ \A c \in CPUs : on[c] = IF pc[c] \in {"entry", "idle", "panic"} THEN c ELSE BootStack
    /\ \A c \in ready : pc[c] \in {"idle", "panic"}
    /\ \A c \in CPUs : pc[c] \in {"devices", "spawn", "pick", "push"} \cup Spawned => Registered(c)
    /\ \A c \in CPUs : pc[c] = "push" => target[c] < Len(queues)
    /\ \A c \in CPUs : irq[c] # "none" => pc[c] \in {"entry", "idle"}
    /\ \A c \in CPUs : current[c] # None => pc[c] = "panic"

\* The cores come up safely: no core is on a stack that was freed, every index
\* and assertion of the queues holds, an idle thread is on one core and in one
\* place.
BootInv == TypeOK /\ ProgressInv /\ StackSafe /\ QueuesReady /\ ThreadOnOneCore /\ ThreadPlacedOnce

\* The boot core always gets every other core up and reaches its own idle
\* thread, whatever interrupts come in between, unless cpu_on fails.  (With
\* timer_irq set, a core that panics in schedule() with the queues' lock held
\* keeps the next one from registering.)
BootCompletes == ~timer_irq => <>(on[BSP] = BSP \/ pc[BSP] = "halt")

\* "Preemptive Scheduling" (README.md:15): a core that runs its thread gets to
\* schedule() again and again, for the timer interrupts it.
Preempts == \A c \in CPUs : pc[c] = "idle" ~> irq[c] = "schedule"

\* The assertion of with_ctx_mut, "can't access context of a running thread"
\* (thread.rs:178), holds when schedule() uses it.
NoContextPanic == \A c \in CPUs : pc[c] # "panic"
=============================================================================
