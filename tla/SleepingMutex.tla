--------------------------- MODULE SleepingMutex ----------------------------
(***************************************************************************)
(* klib::sync::SleepingMutex, as cores use it from threads: a flag taken   *)
(* by compare_exchange, and a wait queue behind an UnfairSpinlock.  lock() *)
(* needs a running thread on the core when the flag is taken and panics    *)
(* without one.                                                            *)
(***************************************************************************)
EXTENDS Integers, Sequences

CONSTANT CPUs

VARIABLES locked,       \* SleepingMutex.locked
          wait_queue,   \* the threads (named by their core) in the wait queue
          holders,      \* the core that holds the spinlock of wait_queue, if any
          current,      \* the cores that run a thread
          pc

vars == <<locked, wait_queue, holders, current, pc>>

Init ==
    /\ locked = FALSE
    /\ wait_queue = <<>>
    /\ holders = {}
    /\ current \in SUBSET CPUs
    /\ pc = [c \in CPUs |-> "idle"]

Goto(c, from, to) == pc[c] = from /\ pc' = [pc EXCEPT ![c] = to]

Call(c) == Goto(c, "idle", "try") /\ UNCHANGED <<locked, wait_queue, holders, current>>

\* The first compare_exchange.
Try(c) ==
    /\ Goto(c, "try", IF locked THEN "current" ELSE "cs")
    /\ locked' = TRUE
    /\ UNCHANGED <<wait_queue, holders, current>>

\* scheduler.current_thread().expect(..)
CurrentThread(c) ==
    /\ Goto(c, "current", IF c \in current THEN "queue" ELSE "panic")
    /\ UNCHANGED <<locked, wait_queue, holders, current>>

LockQueue(c) ==
    /\ holders = {}
    /\ Goto(c, "queue", "retry")
    /\ holders' = {c}
    /\ UNCHANGED <<locked, wait_queue, current>>

\* The second compare_exchange; on success the guard of the queue is dropped.
Retry(c) ==
    /\ Goto(c, "retry", IF locked THEN "block" ELSE "cs")
    /\ locked' = TRUE
    /\ holders' = IF locked THEN holders ELSE {}
    /\ UNCHANGED <<wait_queue, current>>

\* block_current locks the wait queue again, whose guard lock() still holds:
\* the core spins on a lock it owns, and what follows (Blocked, push_back,
\* yield_now) is never reached.
BlockCurrent(c) ==
    /\ Goto(c, "block", "spin")
    /\ UNCHANGED <<locked, wait_queue, holders, current>>

Leave(c) == Goto(c, "cs", "unlock") /\ UNCHANGED <<locked, wait_queue, holders, current>>

\* unlock(): under the queue's lock the flag is cleared and one waiter spawned.
Unlock(c) ==
    /\ holders = {}
    /\ Goto(c, "unlock", "idle")
    /\ locked' = FALSE
    /\ wait_queue' = IF wait_queue = <<>> THEN wait_queue ELSE Tail(wait_queue)
    /\ UNCHANGED <<holders, current>>

Next ==
    \E c \in CPUs :
        \/ Call(c) \/ Try(c) \/ CurrentThread(c) \/ LockQueue(c) \/ Retry(c) \/ BlockCurrent(c)
        \/ Leave(c) \/ Unlock(c)

Spec == Init /\ [][Next]_vars

\* Cores keep executing, and the spinlock of the queue is won now and then.
Fairness ==
    \A c \in CPUs :
        /\ WF_vars(Try(c)) /\ WF_vars(CurrentThread(c)) /\ SF_vars(LockQueue(c)) /\ WF_vars(Retry(c))
        /\ WF_vars(BlockCurrent(c)) /\ WF_vars(Leave(c)) /\ SF_vars(Unlock(c))

FairSpec == Spec /\ Fairness
-----------------------------------------------------------------------------
Holders == {c \in CPUs : pc[c] \in {"cs", "unlock"}}

PC == {"idle", "try", "current", "queue", "panic", "retry", "block", "spin", "cs", "unlock"}

\* The flag is set exactly while one core has the mutex.
FlagInv ==
    /\ locked \in BOOLEAN
    /\ pc \in [CPUs -> PC]
    /\ locked <=> Holders # {}
    /\ \A c, d \in Holders : c = d

Lock == INSTANCE AbstractRwLock WITH readers <- {}, writers <- Holders

\* The two compare_exchanges of lock() and the store of unlock() make one lock:
\* whichever of them a core gets in through, it is alone.
ImplementsLock == Lock!Spec

\* "if locked, marks `current` as blocked and enqueues it" (sync.rs:38): a
\* thread that finds the mutex taken gets it or ends up in the wait queue.
BlocksOrEnters ==
    \A c \in CPUs :
        (pc[c] = "queue") ~> (pc[c] = "cs" \/ \E i \in DOMAIN wait_queue : wait_queue[i] = c)
=============================================================================
