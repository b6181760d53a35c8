------------------------------ MODULE MCLocks ------------------------------
(***************************************************************************)
(* The locks of klib::sync side by side.  A behaviour is about one of      *)
(* them, `lock_kind`, and leaves the state of the ticket lock, or the      *)
(* state the others share here, as it was initially.                       *)
(***************************************************************************)
EXTENDS TicketLock, Sequences

CONSTANTS QuietPanic,   \* TRUE: a core panics only while no other core uses the lock it steals
          MaxPanics,    \* bound on the cores that panic
          MaxReaders    \* i32::MAX

ASSUME PanicAssumption == QuietPanic \in BOOLEAN /\ MaxPanics \in Nat
ASSUME MaxReadersAssumption == MaxReaders \in Nat \ {0}

VARIABLES lock_kind,
          pc2, event2,              \* of the locks other than the plain TicketLock
          lock,                     \* UnfairSpinlock
          ticket2, users2, my2,     \* FairSpinlock with steal()
          panic,
          locked, wait_queue,       \* SleepingMutex
          holders, current,
          state, seen               \* RwLock

Unfair == INSTANCE UnfairSpinlock WITH pc <- pc2, event <- event2

Steal ==
    INSTANCE FairSpinlock
    WITH ticket <- ticket2, users <- users2, my <- my2, pc <- pc2, event <- event2

Sleeping == INSTANCE SleepingMutex WITH pc <- pc2
RW == INSTANCE RwLock WITH pc <- pc2, event <- event2

sharedVars == <<pc2, event2>>
unfairVars == <<lock>>
stealVars == <<ticket2, users2, my2, panic>>
sleepingVars == <<locked, wait_queue, holders, current>>
rwVars == <<state, seen>>
otherVars == <<sharedVars, unfairVars, stealVars, sleepingVars, rwVars>>
locksVars == <<lock_kind, vars, otherVars>>

LocksInit ==
    /\ lock_kind \in {"ticket", "unfair", "steal", "sleeping", "rw"}
    /\ Init
    /\ Unfair!Init
    /\ Steal!StealInit
    /\ Sleeping!Init
    /\ RW!Init
    /\ lock_kind # "sleeping" => current = {}

\* A is a step of the lock `kind`, whose variables exclude `rest`.
StepOf(kind, A, rest) == lock_kind = kind /\ A /\ UNCHANGED <<lock_kind, rest>>

TicketNext == StepOf("ticket", Next, otherVars)
UnfairNext == StepOf("unfair", Unfair!Next, <<vars, stealVars, sleepingVars, rwVars>>)
StealNext == StepOf("steal", Steal!StealNext, <<vars, unfairVars, sleepingVars, rwVars>>)
SleepingNext == StepOf("sleeping", Sleeping!Next, <<vars, event2, unfairVars, stealVars, rwVars>>)
RwNext == StepOf("rw", RW!Next, <<vars, unfairVars, stealVars, sleepingVars>>)

LocksNext == TicketNext \/ UnfairNext \/ StealNext \/ SleepingNext \/ RwNext

\* The fairness of each lock's own specification.
FairStep(c) ==
    \/ StepOf("ticket", Step(c), otherVars)
    \/ StepOf("unfair", Unfair!Step(c), <<vars, stealVars, sleepingVars, rwVars>>)
    \/ StepOf("steal", Steal!StealStep(c), <<vars, unfairVars, sleepingVars, rwVars>>)
    \/ StepOf("rw", RW!Step(c), <<vars, unfairVars, stealVars, sleepingVars>>)

LocksSpec ==
    LocksInit /\ [][LocksNext]_locksVars /\ \A c \in CPUs : WF_locksVars(FairStep(c))
-----------------------------------------------------------------------------
\* No core waits for ever in WFE: with the TicketLock every core that has drawn
\* a ticket gets in, with the UnfairSpinlock some core does, a FairSpinlock that
\* a panicking core has stolen, no other core being at it, serves the panic
\* message and every later user, and with the RwLock neither a writer that has
\* claimed it is left behind nor, as a group, those that ask for it.
NoLostWakeup ==
    /\ StarvationFree
    /\ lock_kind # "unfair" \/ Unfair!Progress
    /\ lock_kind # "steal" \/ Steal!StealStarvationFree
    /\ lock_kind # "rw" \/ RW!Served

\* The cores that own a guard of the lock in question, or a read guard.
Guards ==
    CASE lock_kind = "ticket" -> Holders
      [] lock_kind = "unfair" -> Unfair!Holders
      [] lock_kind = "steal" -> Steal!Holders
      [] lock_kind = "sleeping" -> Sleeping!Holders
      [] lock_kind = "rw" -> RW!Writers
ReadGuards == IF lock_kind = "rw" THEN RW!Readers ELSE {}

OneLock == INSTANCE AbstractRwLock WITH readers <- ReadGuards, writers <- Guards

\* Every one of them is the abstract lock: the ticket lock, the UnfairSpinlock,
\* a stolen FairSpinlock, the SleepingMutex, which a core can take through
\* either compare_exchange, and, with its read guards, the RwLock.
EveryLockIsALock == OneLock!Spec

\* The words of a lock say who has it: the i32 of a RwLock is exactly its guards,
\* the flag of an UnfairSpinlock and of a SleepingMutex its one guard, and the
\* tickets of a FairSpinlock stay without a gap through a quiet steal().
StateInv ==
    /\ lock_kind = "unfair" => Unfair!TypeOK /\ Unfair!FlagInv
    /\ lock_kind = "steal" => Steal!StealTypeOK /\ (QuietPanic => Steal!StealInv)
    /\ lock_kind = "sleeping" => Sleeping!FlagInv
    /\ lock_kind = "rw" => RW!TypeOK /\ RW!StateInv

\* A claimed RwLock admits no new reader until the writer has come and gone.
WriterPreference == RW!WriterPreference
=============================================================================
