----------------------- MODULE AbstractPageAllocator -----------------------
(***************************************************************************)
(* What a page allocator promises: it owns pages, hands out blocks of      *)
(* owned pages that no live block touches, and takes back only blocks it   *)
(* handed out.  A block is [page, order]: 2^order pages from `page`.       *)
(***************************************************************************)
EXTENDS Integers

VARIABLES owned,  \* the pages the allocator manages
          live    \* the blocks its callers hold

PagesOf(b) == b.page .. b.page + 2^b.order - 1

Init == owned = {} /\ live = {}

Add ==
    /\ owned \subseteq owned'
    /\ \A b \in live : PagesOf(b) \cap (owned' \ owned) = {}
    /\ UNCHANGED live

Alloc ==
    /\ \E b \in live' \ live :
          /\ live' = live \cup {b}
          /\ PagesOf(b) \subseteq owned
          /\ \A other \in live : PagesOf(b) \cap PagesOf(other) = {}
    /\ UNCHANGED owned

Free ==
    /\ \E b \in live : live' = live \ {b}
    /\ UNCHANGED owned

\* Everything is given up at once; the callers' blocks are void.
Wipe == owned' = {} /\ live' = {}

Next == Add \/ Alloc \/ Free \/ Wipe

Spec == Init /\ [][Next]_<<owned, live>>
=============================================================================
