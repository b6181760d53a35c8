--------------------------- MODULE AbstractRwLock ---------------------------
(***************************************************************************)
(* What the locks of klib::sync promise.  A reader-writer lock admits any  *)
(* number of read guards, or one write guard.  A lock without readers is a *)
(* spin lock: "only 1 core can access `data` at a time" (sync.rs:145 and   *)
(* sync.rs:217).                                                           *)
(***************************************************************************)
CONSTANT CPUs

VARIABLES readers, writers

Init == readers = {} /\ writers = {}

BeginRead(c) ==
    /\ writers = {}
    /\ c \notin readers
    /\ readers' = readers \cup {c}
    /\ UNCHANGED writers

EndRead(c) ==
    /\ c \in readers
    /\ readers' = readers \ {c}
    /\ UNCHANGED writers

BeginWrite(c) ==
    /\ readers = {}
    /\ writers = {}
    /\ writers' = {c}
    /\ UNCHANGED readers

EndWrite(c) ==
    /\ writers = {c}
    /\ writers' = {}
    /\ UNCHANGED readers

Next == \E c \in CPUs : BeginRead(c) \/ EndRead(c) \/ BeginWrite(c) \/ EndWrite(c)

Spec == Init /\ [][Next]_<<readers, writers>>
=============================================================================
