----------------------------- MODULE Scheduler ------------------------------
(***************************************************************************)
(* klib::scheduler: the per-core run queues behind GLOBAL_SCHEDULER.queues *)
(* (a writer-preferring RwLock) and one UnfairSpinlock each.  The locks    *)
(* are abstracted to who holds them; what is done inside a run queue's     *)
(* lock is one step.  A core that panics keeps the locks it holds, for the *)
(* kernel aborts on panic without unwinding.                               *)
(*                                                                         *)
(* The only threads the kernel creates are the idle threads: thread t is   *)
(* the one that core t creates in idle_init.                               *)
(***************************************************************************)
EXTENDS Integers, Sequences, FiniteSets

CONSTANTS N,            \* the number of cores
          CounterMod    \* 2^8, the size of spawn_counter

ASSUME NAssumption == N \in Nat \ {0}
ASSUME CounterAssumption == CounterMod \in Nat \ {0}

CPUs == 0 .. N - 1    \* CpuIdLogical
Threads == CPUs
None == -1

VARIABLES queues,          \* thread_queue of every registered core, by logical id
          current,         \* current_thread of every core
          state,           \* ThreadInner.state of every thread
          spawn_counter,
          readers,         \* the cores that hold queues.read()
          holders          \* the cores that hold the lock of their own run queue

schedVars == <<queues, current, state, spawn_counter, readers, holders>>

SchedInit ==
    /\ queues = <<>>
    /\ current = [c \in CPUs |-> None]
    /\ state = [t \in Threads |-> "Ready"]
    /\ spawn_counter = 0
    /\ readers = {}
    /\ holders = {}

\* queues is a sequence: core i's queue is its element i + 1.
Registered(c) == c < Len(queues)

\* resize_with of register_cpu.
Resized(q, c) == IF c >= Len(q) THEN q \o [i \in 1 .. c + 1 - Len(q) |-> <<>>] ELSE q

\* register_cpu, once the core has the write lock.
RegisterCpu(c) ==
    /\ readers = {}
    /\ queues' = Resized(queues, c)
    /\ UNCHANGED <<current, state, spawn_counter, readers, holders>>

\* self.queues.read(), when no writer waits.
ReadQueues(c) ==
    /\ readers' = readers \cup {c}
    /\ UNCHANGED <<queues, current, state, spawn_counter, holders>>

\* The assertion of spawn().
HasCPUs == queues # <<>>

\* The fetch_add of spawn(): the queue the thread will go to.
Target == spawn_counter % Len(queues)

PickTarget ==
    /\ spawn_counter' = (spawn_counter + 1) % CounterMod
    /\ UNCHANGED <<queues, current, state, readers, holders>>

\* The rest of spawn(): thread t goes to the queue of core `target`.
PushThread(c, t, target) ==
    /\ target \notin holders
    /\ state' = [state EXCEPT ![t] = "Ready"]
    /\ queues' = [queues EXCEPT ![target + 1] = Append(@, t)]
    /\ readers' = readers \ {c}
    /\ UNCHANGED <<current, spawn_counter, holders>>

\* What schedule() does to the state of core c's queue: the thread it puts
\* aside (requeued if it was running), the thread that is next, whether this
\* is a switch, and whether with_ctx_mut finds its thread Running.
Prev(c) == current[c]
PrevRuns(c) == Prev(c) # None /\ state[Prev(c)] = "Running"
Requeued(c) == IF PrevRuns(c) THEN Append(queues[c + 1], Prev(c)) ELSE queues[c + 1]
NextThread(c) == IF Requeued(c) = <<>> THEN Prev(c) ELSE Head(Requeued(c))

Remaining(c) == IF Requeued(c) = <<>> THEN <<>> ELSE Tail(Requeued(c))
Switches(c) == NextThread(c) \notin {None, Prev(c)}

\* The assertion of with_ctx_mut fails: for prev, which is still Running when
\* its registers are saved, or for next, which is Running since the line above.
CtxBusy(c) == PrevRuns(c) \/ Switches(c)

\* schedule() under the lock of core c's queue.
Schedule(c) ==
    /\ c \notin holders
    /\ current' = [current EXCEPT ![c] = IF PrevRuns(c) /\ CtxBusy(c) THEN None ELSE NextThread(c)]
    /\ IF PrevRuns(c) /\ CtxBusy(c)
       THEN UNCHANGED <<queues, state>>
       ELSE /\ queues' = [queues EXCEPT ![c + 1] = Remaining(c)]
            /\ state' = [t \in Threads |->
                            IF Switches(c) /\ t = NextThread(c) THEN "Running"
                            ELSE IF PrevRuns(c) /\ t = Prev(c) THEN "Ready" ELSE state[t]]
    /\ readers' = IF CtxBusy(c) THEN readers ELSE readers \ {c}
    /\ holders' = IF CtxBusy(c) THEN holders \cup {c} ELSE holders
    /\ UNCHANGED spawn_counter
=============================================================================
