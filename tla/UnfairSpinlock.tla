--------------------------- MODULE UnfairSpinlock ---------------------------
(***************************************************************************)
(* klib::sync::UnfairSpinlock: a flag taken by compare_exchange in a WFE   *)
(* loop.  Dropping the guard stores false and executes SEV twice, once in  *)
(* unlock() and once in the guard's drop().                                *)
(***************************************************************************)
EXTENDS Integers, FiniteSets

CONSTANT CPUs

VARIABLES lock,    \* UnfairSpinlock.lock
          pc,      \* where each core is in lock() or in the guard's drop()
          event    \* the event register of each core

vars == <<lock, pc, event>>

PC == {"idle", "try", "wfe", "cs", "sev1", "sev2"}

TypeOK ==
    /\ lock \in BOOLEAN
    /\ pc \in [CPUs -> PC]
    /\ event \in [CPUs -> BOOLEAN]

Init ==
    /\ lock = FALSE
    /\ pc = [c \in CPUs |-> "idle"]
    /\ event = [c \in CPUs |-> FALSE]

Goto(c, from, to) == pc[c] = from /\ pc' = [pc EXCEPT ![c] = to]

Ask(c) == Goto(c, "idle", "try") /\ UNCHANGED <<lock, event>>

\* The compare_exchange of lock(), successful or not.
Acquire(c) ==
    /\ lock = FALSE
    /\ Goto(c, "try", "cs")
    /\ lock' = TRUE
    /\ UNCHANGED event

Busy(c) ==
    /\ lock = TRUE
    /\ Goto(c, "try", "wfe")
    /\ UNCHANGED <<lock, event>>

Wfe(c) ==
    /\ event[c]
    /\ Goto(c, "wfe", "try")
    /\ event' = [event EXCEPT ![c] = FALSE]
    /\ UNCHANGED lock

Unlock(c) ==
    /\ Goto(c, "cs", "sev1")
    /\ lock' = FALSE
    /\ UNCHANGED event

\* Mutant: the guard's drop() forgets the SEVs.
SevMissing(c) ==
    /\ Goto(c, "sev1", "sev2") \/ Goto(c, "sev2", "idle")
    /\ UNCHANGED <<lock, event>>

Sev(c) ==
    /\ Goto(c, "sev1", "sev2") \/ Goto(c, "sev2", "idle")
    /\ event' = [d \in CPUs |-> TRUE]
    /\ UNCHANGED lock

Next ==
    \E c \in CPUs :
        Ask(c) \/ Acquire(c) \/ Busy(c) \/ Wfe(c) \/ Unlock(c) \/ Sev(c)

Spec == Init /\ [][Next]_vars

\* Cores keep executing and critical sections end.
Step(c) == Acquire(c) \/ Busy(c) \/ Wfe(c) \/ Unlock(c) \/ Sev(c)

Fairness == \A c \in CPUs : WF_vars(Step(c))

FairSpec == Spec /\ Fairness
-----------------------------------------------------------------------------
Holders == {c \in CPUs : pc[c] = "cs"}

\* The flag is set exactly while one core is inside: no store of false by one
\* core frees a lock that another has taken ("only 1 core can access `data` at
\* a time", sync.rs:145).
FlagInv ==
    /\ lock <=> Holders # {}
    /\ \A c, d \in Holders : c = d

\* The lock makes no promise to an individual core, but while cores wait some
\* core gets in: no SEV is lost between a failed compare_exchange and the WFE.
Progress == (\E c \in CPUs : pc[c] \in {"try", "wfe"}) ~> (\E c \in CPUs : pc[c] = "cs")

Lock == INSTANCE AbstractRwLock WITH readers <- {}, writers <- Holders

\* The UnfairSpinlock implements the abstract lock.
ImplementsLock == Lock!Spec
=============================================================================
