------------------------------- MODULE RwLock -------------------------------
(***************************************************************************)
(* klib::sync::RwLock.  One i32 holds both the number of read guards and,  *)
(* as its sign bit, a writer's claim: WRITER = i32::MIN, READERS =         *)
(* i32::MAX.  MaxReaders stands for i32::MAX, so i32::MIN is               *)
(* -(MaxReaders + 1), `s & WRITER == 0` is s >= 0 and `s | WRITER` of such *)
(* an s is s + WRITER.                                                     *)
(*                                                                         *)
(* A step is one atomic access.  compare_exchange_weak may fail although   *)
(* the value matches.                                                      *)
(***************************************************************************)
EXTENDS Integers, FiniteSets

CONSTANTS CPUs, MaxReaders

VARIABLES state,   \* RwLock.state
          seen,    \* the local `state` of read() and write() on each core
          pc,      \* where each core is
          event    \* the event register of each core

vars == <<state, seen, pc, event>>

READERS == MaxReaders
WRITER == -(MaxReaders + 1)
LockState == WRITER .. READERS

\* "r..." is inside read(), "w..." inside write(); "drain" and "drainWfe" are
\* the loop of a writer that has claimed the lock and waits for the readers;
\* "sev" is between the release and its SEV.
PC == {"idle", "rload", "rtry", "rwfe", "reading",
       "wload", "wtry", "drain", "drainWfe", "writing", "sev"}

TypeOK ==
    /\ state \in LockState
    /\ seen \in [CPUs -> LockState]
    /\ pc \in [CPUs -> PC]
    /\ event \in [CPUs -> BOOLEAN]

Init ==
    /\ state = 0
    /\ seen = [c \in CPUs |-> 0]
    /\ pc = [c \in CPUs |-> "idle"]
    /\ event = [c \in CPUs |-> FALSE]

Goto(c, from, to) == pc[c] = from /\ pc' = [pc EXCEPT ![c] = to]

Read(c) == Goto(c, "idle", "rload") /\ UNCHANGED <<state, seen, event>>

Write(c) == Goto(c, "idle", "wload") /\ UNCHANGED <<state, seen, event>>

\* The relaxed loads at the head of read() and write() and in their loops.
Load(c) ==
    /\ Goto(c, "rload", "rtry") \/ Goto(c, "wload", "wtry")
    /\ seen' = [seen EXCEPT ![c] = state]
    /\ UNCHANGED <<state, event>>

ReadAcquireClaimed(c) ==
    /\ seen[c] # READERS
    /\ state = seen[c]
    /\ Goto(c, "rtry", "reading")
    /\ state' = seen[c] + 1
    /\ UNCHANGED <<seen, event>>

\* read(): the compare_exchange_weak succeeds.
ReadAcquire(c) ==
    /\ seen[c] >= 0 /\ seen[c] # READERS
    /\ state = seen[c]
    /\ Goto(c, "rtry", "reading")
    /\ state' = seen[c] + 1
    /\ UNCHANGED <<seen, event>>

\* read(): it fails, spuriously or not, and hands back the current value.
ReadRetry(c) ==
    /\ pc[c] = "rtry" /\ seen[c] >= 0 /\ seen[c] # READERS
    /\ seen' = [seen EXCEPT ![c] = state]
    /\ UNCHANGED <<state, pc, event>>

\* read(): a writer has claimed the lock, or the count is at its limit.
ReadBlocked(c) ==
    /\ seen[c] < 0 \/ seen[c] = READERS
    /\ Goto(c, "rtry", "rwfe")
    /\ UNCHANGED <<state, seen, event>>

\* Mutants: the claim does not wait for the readers, or overwrites their count.
WriteClaimNoDrain(c) ==
    /\ seen[c] >= 0
    /\ state = seen[c]
    /\ Goto(c, "wtry", "writing")
    /\ state' = seen[c] + WRITER
    /\ UNCHANGED <<seen, event>>

WriteClaimStore(c) ==
    /\ seen[c] >= 0
    /\ state = seen[c]
    /\ Goto(c, "wtry", IF seen[c] = 0 THEN "writing" ELSE "drain")
    /\ state' = WRITER
    /\ UNCHANGED <<seen, event>>

\* write(): the compare_exchange_weak claims the lock.
WriteClaim(c) ==
    /\ seen[c] >= 0
    /\ state = seen[c]
    /\ Goto(c, "wtry", IF seen[c] = 0 THEN "writing" ELSE "drain")
    /\ state' = seen[c] + WRITER
    /\ UNCHANGED <<seen, event>>

WriteRetry(c) ==
    /\ pc[c] = "wtry" /\ seen[c] >= 0
    /\ seen' = [seen EXCEPT ![c] = state]
    /\ UNCHANGED <<state, pc, event>>

\* write(): another writer has claimed the lock; reload, without WFE.
WriteBlocked(c) ==
    /\ seen[c] < 0
    /\ Goto(c, "wtry", "wload")
    /\ UNCHANGED <<state, seen, event>>

\* write(): the load in the loop that waits for the readers to leave.
Drained(c) ==
    /\ state = WRITER
    /\ Goto(c, "drain", "writing")
    /\ UNCHANGED <<state, seen, event>>

NotDrained(c) ==
    /\ state # WRITER
    /\ Goto(c, "drain", "drainWfe")
    /\ UNCHANGED <<state, seen, event>>

Wfe(c) ==
    /\ event[c]
    /\ Goto(c, "rwfe", "rload") \/ Goto(c, "drainWfe", "drain")
    /\ event' = [event EXCEPT ![c] = FALSE]
    /\ UNCHANGED <<state, seen>>

WriteUnlockSilent(c) ==
    /\ Goto(c, "writing", "idle")
    /\ state' = 0
    /\ UNCHANGED <<seen, event>>

\* Drop of the read guard and of the write guard, and the SEV after either.
ReadUnlock(c) ==
    /\ Goto(c, "reading", "sev")
    /\ state' = state - 1
    /\ UNCHANGED <<seen, event>>

WriteUnlock(c) ==
    /\ Goto(c, "writing", "sev")
    /\ state' = 0
    /\ UNCHANGED <<seen, event>>

Sev(c) ==
    /\ Goto(c, "sev", "idle")
    /\ event' = [d \in CPUs |-> TRUE]
    /\ UNCHANGED <<state, seen>>

ReadStep(c) == ReadAcquire(c) \/ ReadRetry(c) \/ ReadBlocked(c) \/ ReadUnlock(c)

WriteStep(c) ==
    WriteClaim(c) \/ WriteRetry(c) \/ WriteBlocked(c) \/ Drained(c) \/ NotDrained(c)
        \/ WriteUnlock(c)

Step(c) == Load(c) \/ ReadStep(c) \/ WriteStep(c) \/ Wfe(c) \/ Sev(c)

Next == \E c \in CPUs : Read(c) \/ Write(c) \/ Step(c)

Spec == Init /\ [][Next]_vars

\* Cores keep executing and guards are dropped.  A spurious failure of the
\* compare_exchange_weak changes nothing, so a core's fair step is one that
\* sees the real value; a core may still lose every race against another.
Fairness == \A c \in CPUs : WF_vars(Step(c))

FairSpec == Spec /\ Fairness
-----------------------------------------------------------------------------
Readers == {c \in CPUs : pc[c] = "reading"}
Writers == {c \in CPUs : pc[c] = "writing"}

\* The writers that have set the WRITER bit and not yet cleared it.
Claimants == {c \in CPUs : pc[c] \in {"drain", "drainWfe", "writing"}}

\* A write guard excludes every other guard; read guards exclude none.
Exclusion == \A c \in Writers : Writers = {c} /\ Readers = {}

\* state is the exact number of read guards, plus WRITER while one writer has
\* claimed the lock: neither `state + 1` nor `fetch_sub(1)` ever runs into
\* the sign bit, and the write guard's store of 0 discards no reader.
StateInv ==
    /\ Cardinality(Readers) <= READERS
    /\ state = Cardinality(Readers) + (IF Claimants = {} THEN 0 ELSE WRITER)
    /\ \A c, d \in Claimants : c = d
    /\ Writers # {} => Readers = {}

\* A claimed lock admits no new reader until the writer has come and gone.
WriterPreference == [][Claimants # {} => Readers' \subseteq Readers]_vars

\* A writer that has claimed the lock gets it: the readers drain and the SEV
\* of the last one is not missed.
ClaimServed == \A c \in CPUs : (pc[c] = "drain") ~> (pc[c] = "writing")

\* While the lock is asked for, guards keep being handed out.
Progress ==
    (\E c \in CPUs : pc[c] \in {"rload", "rtry", "rwfe", "wload", "wtry"})
        ~> (\E c \in CPUs : pc[c] \in {"reading", "writing"})

\* Nobody is left behind in WFE: neither a writer that has claimed the lock nor,
\* as a group, those that ask for it.
Served == ClaimServed /\ Progress

Rw == INSTANCE AbstractRwLock WITH readers <- Readers, writers <- Writers

\* The RwLock implements the abstract reader-writer lock.
ImplementsRwLock == Rw!Spec
=============================================================================
