-------------------------- MODULE AbstractFairLock --------------------------
(***************************************************************************)
(* What a FIFO lock promises: cores enter the critical section one at a    *)
(* time, in the order in which they asked.  queue lists the cores that     *)
(* have asked and not yet entered; holder is the set of cores inside.      *)
(***************************************************************************)
EXTENDS Sequences

CONSTANT CPUs

VARIABLES queue, holder

Init == queue = << >> /\ holder = {}

Request(c) ==
    /\ queue' = Append(queue, c)
    /\ UNCHANGED holder

Acquire ==
    /\ queue # << >>
    /\ holder = {}
    /\ holder' = {Head(queue)}
    /\ queue' = Tail(queue)

Release(c) ==
    /\ holder = {c}
    /\ holder' = {}
    /\ UNCHANGED queue

Next == Acquire \/ \E c \in CPUs : Request(c) \/ Release(c)

Spec == Init /\ [][Next]_<<queue, holder>>
=============================================================================
