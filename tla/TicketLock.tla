----------------------------- MODULE TicketLock -----------------------------
(***************************************************************************)
(* klib::sync::TicketLock, and FairSpinlock, which is a TicketLock around  *)
(* the data it protects.  A step is one atomic access of a core: the       *)
(* fetch_add that draws a ticket, one load of `users`, one WFE, the        *)
(* fetch_add that releases the lock, the SEV after it.                     *)
(*                                                                         *)
(* `ticket` and `users` are usize and wrap; Modulus stands for 2^64.       *)
(* event[c] is the event register of core c: SEV sets it on every core,    *)
(* WFE waits until it is set and clears it.                                *)
(***************************************************************************)
EXTENDS Integers, FiniteSets

CONSTANTS CPUs,     \* the cores that contend for the lock
          Modulus   \* the number of values of a usize

ASSUME CPUsAssumption == IsFiniteSet(CPUs)
ASSUME ModulusAssumption == Modulus \in Nat /\ Cardinality(CPUs) < Modulus

VARIABLES ticket,   \* TicketLock.ticket
          users,    \* TicketLock.users
          my,       \* the local `ticket` of each core
          pc,       \* where each core is in lock() or unlock()
          event     \* the event register of each core

vars == <<ticket, users, my, pc, event>>

Word == 0 .. Modulus - 1

\* fetch_add(1) on a wrapping counter, and the wrapping difference a - b.
Inc(x) == IF x = Modulus - 1 THEN 0 ELSE x + 1
Dist(a, b) == IF b <= a THEN a - b ELSE a - b + Modulus

\* "spin": before the load of `users`; "wfe": waiting in WFE; "cs": the guard
\* is held; "sev": `users` is advanced and the SEV is still to come.
PC == {"idle", "spin", "wfe", "cs", "sev"}

TypeOK ==
    /\ ticket \in Word
    /\ users \in Word
    /\ my \in [CPUs -> Word]
    /\ pc \in [CPUs -> PC]
    /\ event \in [CPUs -> BOOLEAN]

Init ==
    /\ ticket = 0
    /\ users = 0
    /\ my = [c \in CPUs |-> 0]
    /\ pc = [c \in CPUs |-> "idle"]
    /\ event = [c \in CPUs |-> FALSE]

Goto(c, from, to) == pc[c] = from /\ pc' = [pc EXCEPT ![c] = to]

TakeTicket(c) ==
    /\ Goto(c, "idle", "spin")
    /\ my' = [my EXCEPT ![c] = ticket]
    /\ ticket' = Inc(ticket)
    /\ UNCHANGED <<users, event>>

\* Mutant: tickets compared by order instead of by equality.
EnterOrdered(c) ==
    /\ my[c] <= users
    /\ Goto(c, "spin", "cs")
    /\ UNCHANGED <<ticket, users, my, event>>

\* The load of `users` in lock()'s loop.
Enter(c) ==
    /\ users = my[c]
    /\ Goto(c, "spin", "cs")
    /\ UNCHANGED <<ticket, users, my, event>>

NotYet(c) ==
    /\ users # my[c]
    /\ Goto(c, "spin", "wfe")
    /\ UNCHANGED <<ticket, users, my, event>>

Wfe(c) ==
    /\ event[c]
    /\ Goto(c, "wfe", "spin")
    /\ event' = [event EXCEPT ![c] = FALSE]
    /\ UNCHANGED <<ticket, users, my>>

\* Mutant: both unlock() and the guard's drop() advance `users`.
UnlockTwice(c) ==
    /\ Goto(c, "cs", "sev")
    /\ users' = Inc(Inc(users))
    /\ UNCHANGED <<ticket, my, event>>

Unlock(c) ==
    /\ Goto(c, "cs", "sev")
    /\ users' = Inc(users)
    /\ UNCHANGED <<ticket, my, event>>

Sev(c) ==
    /\ Goto(c, "sev", "idle")
    /\ event' = [d \in CPUs |-> TRUE]
    /\ UNCHANGED <<ticket, users, my>>

\* The event register is also set by the SEV of any other lock, by an
\* interrupt and by an exception return.
OtherEvent(c) ==
    /\ event' = [event EXCEPT ![c] = TRUE]
    /\ UNCHANGED <<ticket, users, my, pc>>

Next ==
    \E c \in CPUs :
        \/ TakeTicket(c) \/ Enter(c) \/ NotYet(c) \/ Wfe(c)
        \/ Unlock(c) \/ Sev(c) \/ OtherEvent(c)

Spec == Init /\ [][Next]_vars

\* A core that has drawn a ticket keeps executing, and a critical section
\* ends.  Nothing obliges a core to ask for the lock, and no other event is
\* promised.
Step(c) == Enter(c) \/ NotYet(c) \/ Wfe(c) \/ Unlock(c) \/ Sev(c)

Fairness == \A c \in CPUs : WF_vars(Step(c))

FairSpec == Spec /\ Fairness
-----------------------------------------------------------------------------
Holders == {c \in CPUs : pc[c] = "cs"}

\* The cores whose ticket has been drawn and not yet been passed by `users`.
Tickets == {c \in CPUs : pc[c] \in {"spin", "wfe", "cs"}}

\* A TicketLock admits one core at a time: lock() returns on no core while
\* another holds the guard, also across the wrap-around of the counters.
MutualExclusion == \A c, d \in CPUs : pc[c] = "cs" /\ pc[d] = "cs" => c = d

\* The outstanding tickets are the values from `users` up to `ticket`, one
\* core each, and a core inside the critical section has the first of them.
TicketsInv ==
    /\ Dist(ticket, users) = Cardinality(Tickets)
    /\ \A c \in Tickets : Dist(my[c], users) < Cardinality(Tickets)
    /\ \A c, d \in Tickets : my[c] = my[d] => c = d
    /\ \A c \in Holders : my[c] = users

\* Every core that has drawn a ticket enters the critical section: the WFE
\* loop of lock() misses no SEV of unlock() and no core overtakes for ever.
StarvationFree == \A c \in CPUs : (pc[c] = "spin") ~> (pc[c] = "cs")

Lock == INSTANCE AbstractRwLock WITH readers <- {}, writers <- Holders

\* The TicketLock implements the abstract lock.
ImplementsLock == Lock!Spec

\* The waiting cores in the order of their tickets.
WaitQueue ==
    LET held == Cardinality(Holders)
        At(i) == CHOOSE c \in Tickets : Dist(my[c], users) = i
    IN  [i \in 1 .. Cardinality(Tickets) - held |-> At(i - 1 + held)]

FairLock == INSTANCE AbstractFairLock WITH queue <- WaitQueue, holder <- Holders

\* Cores enter in the order in which their fetch_add on `ticket` took effect.
ImplementsFairLock == FairLock!Spec
=============================================================================
