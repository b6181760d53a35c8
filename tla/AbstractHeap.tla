---------------------------- MODULE AbstractHeap -----------------------------
(***************************************************************************)
(* What a heap promises its callers: alloc takes an object that nobody has *)
(* and is not on its way to anybody, and returns it.                       *)
(***************************************************************************)
CONSTANTS CPUs, Objects, NoObject

VARIABLES out,      \* the object that each core's alloc is about to return
          live      \* the objects callers have

vars == <<out, live>>

Init == out = [c \in CPUs |-> NoObject] /\ live = {}

Take(c, o) ==
    /\ out[c] = NoObject
    /\ o \notin live /\ \A d \in CPUs : out[d] # o
    /\ out' = [out EXCEPT ![c] = o]
    /\ UNCHANGED live

Return(c) ==
    /\ out[c] # NoObject
    /\ live' = live \cup {out[c]}
    /\ out' = [out EXCEPT ![c] = NoObject]

Free(o) ==
    /\ o \in live
    /\ live' = live \ {o}
    /\ UNCHANGED out

Next ==
    \/ \E c \in CPUs : Return(c) \/ \E o \in Objects : Take(c, o)
    \/ \E o \in Objects : Free(o)

Spec == Init /\ [][Next]_vars
=============================================================================
