---------------------------- MODULE FairSpinlock ----------------------------
(***************************************************************************)
(* FairSpinlock::steal, as the panic handler of a release build uses it on *)
(* EARLYCON: the stolen guard is dropped at once, the panicking core then  *)
(* takes the lock in the ordinary way to print its message, and stops.     *)
(* The guard the core may itself have held is never dropped.               *)
(***************************************************************************)
EXTENDS TicketLock

CONSTANTS QuietPanic,   \* TRUE: a core panics only while no other core uses the lock
          MaxPanics     \* bound on the cores that panic

\* How far each core is in the panic handler.
VARIABLE panic

stealVars == <<vars, panic>>

StealTypeOK ==
    /\ ticket \in Word /\ users \in Word /\ my \in [CPUs -> Word]
    /\ pc \in [CPUs -> PC \cup {"steal", "drop"}]
    /\ event \in [CPUs -> BOOLEAN]
    /\ panic \in [CPUs -> {"no", "stealing", "printing"}]

StealInit == Init /\ panic = [c \in CPUs |-> "no"]

MayPanic(c) ==
    /\ panic[c] = "no"
    /\ Cardinality({d \in CPUs : panic[d] # "no"}) < MaxPanics
    /\ QuietPanic => \A d \in CPUs \ {c} : pc[d] \in {"idle", "sev"}

\* steal(): the fetch_add on `ticket`, from outside or inside the lock.
StealTicket(c) ==
    /\ MayPanic(c)
    /\ pc[c] \in {"idle", "cs"}
    /\ panic' = [panic EXCEPT ![c] = "stealing"]
    /\ pc' = [pc EXCEPT ![c] = "steal"]
    /\ my' = [my EXCEPT ![c] = ticket]
    /\ ticket' = Inc(ticket)
    /\ UNCHANGED <<users, event>>

\* steal(): the store to `users`.
StealUsers(c) ==
    /\ Goto(c, "steal", "drop")
    /\ users' = my[c]
    /\ UNCHANGED <<ticket, my, event, panic>>

\* The drop of the stolen guard, up to its SEV.
StealDrop(c) ==
    /\ Goto(c, "drop", "sev")
    /\ users' = Inc(users)
    /\ UNCHANGED <<ticket, my, event, panic>>

\* lock() in earlycon_writeln!, of a core that runs and of one that panics.
LogMessage(c) ==
    /\ panic[c] = "no"
    /\ TakeTicket(c)
    /\ UNCHANGED panic

PanicMessage(c) ==
    /\ panic[c] = "stealing"
    /\ TakeTicket(c)
    /\ panic' = [panic EXCEPT ![c] = "printing"]

LockStep(c) == Step(c) /\ UNCHANGED panic

StealNext ==
    \E c \in CPUs :
        \/ StealTicket(c) \/ StealUsers(c) \/ StealDrop(c)
        \/ LogMessage(c) \/ PanicMessage(c) \/ LockStep(c)

StealStep(c) == StealUsers(c) \/ StealDrop(c) \/ PanicMessage(c) \/ LockStep(c)

StealFairness == \A c \in CPUs : WF_stealVars(StealStep(c))

StealSpec == StealInit /\ [][StealNext]_stealVars /\ StealFairness
-----------------------------------------------------------------------------
\* The cores with a ticket drawn and not yet passed, a stealing one included
\* and a guard it has abandoned excluded.
Out == {c \in CPUs : pc[c] \in {"spin", "wfe", "cs", "steal", "drop"}}

\* Their tickets are the values from `base` up to `ticket`, one core each.  base
\* is `users`, or the ticket of the core in steal(), which `users`, the ticket of
\* the guard that core abandoned, can be one behind.  Nobody is inside meanwhile.
TicketsFrom(base) ==
    /\ Dist(ticket, base) = Cardinality(Out)
    /\ \A c \in Out : Dist(my[c], base) < Cardinality(Out)
    /\ \A c, d \in Out : my[c] = my[d] => c = d
    /\ (\A c \in CPUs : pc[c] # "steal") => users = base
    /\ \A c \in CPUs : pc[c] = "steal" => my[c] = base /\ base \in {users, Inc(users)}
    /\ \A c \in CPUs :
        pc[c] \in {"cs", "drop"} => my[c] = users /\ \A d \in CPUs : pc[d] # "steal"

\* steal() leaves no gap in the tickets and repeats none.
StealInv == StealTypeOK /\ \E base \in Word : TicketsFrom(base)

\* A panic that finds no other core at the lock keeps the lock sound: the
\* guard the core abandons is reclaimed and the others still exclude each
\* other ("only 1 core can access `data` at a time", sync.rs:217).
StealExclusion == \A c, d \in CPUs : pc[c] = "cs" /\ pc[d] = "cs" => c = d

\* The panicking core gets to print its message, and cores that log after
\* the steal still enter.
StealStarvationFree ==
    /\ \A c \in CPUs : (panic[c] = "stealing") ~> (panic[c] = "printing" /\ pc[c] = "cs")
    /\ \A c \in CPUs : (pc[c] = "spin") ~> (pc[c] = "cs")
=============================================================================
