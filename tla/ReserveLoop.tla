----------------------------- MODULE ReserveLoop -----------------------------
(***************************************************************************)
(* The loop at the head of PageAllocator::add_range that looks for a       *)
(* number of reserved pages that agrees with itself, iteration by          *)
(* iteration, for every size of region in Totals.                          *)
(***************************************************************************)
EXTENDS Integers

CONSTANTS PageSize,  \* PAGE_SIZE in bytes
          ZoneSize,  \* size_of::<Zone>() in bytes
          Totals     \* the sizes of the regions, in pages

\* What the proofs need of the constants.
Assumptions ==
    /\ PageSize \in Nat \ {0} /\ ZoneSize \in Nat /\ ZoneSize < PageSize
    /\ Totals \subseteq Nat \ {0}

VARIABLES total_pages_reg,   \* one of Totals
          reserved_pages,
          pc   \* "loop", "done", or "panic" when the assertion on usable_pages fails

vars == <<total_pages_reg, reserved_pages, pc>>

\* Mutant: the last page is not rounded up.
NeededFloor(total, reserved) == (total - reserved + ZoneSize) \div PageSize

\* needed_reserved for a region of `total` pages of which `reserved` are taken:
\* one byte per usable page, and one Zone.
Needed(total, reserved) == (total - reserved + ZoneSize + PageSize - 1) \div PageSize

Init ==
    /\ total_pages_reg \in Totals
    /\ reserved_pages = 0
    /\ pc = "loop"

\* Mutant: the loop ends only when nothing more is needed.
BreakNothingNeeded ==
    /\ pc = "loop"
    /\ Needed(total_pages_reg, reserved_pages) = 0
    /\ pc' = IF total_pages_reg - reserved_pages > 0 THEN "done" ELSE "panic"
    /\ UNCHANGED <<total_pages_reg, reserved_pages>>

\* The exit of the loop and the assertion after it.
Break ==
    /\ pc = "loop"
    /\ Needed(total_pages_reg, reserved_pages) = reserved_pages
    /\ pc' = IF total_pages_reg - reserved_pages > 0 THEN "done" ELSE "panic"
    /\ UNCHANGED <<total_pages_reg, reserved_pages>>

Iterate ==
    /\ pc = "loop"
    /\ Needed(total_pages_reg, reserved_pages) # reserved_pages
    /\ reserved_pages' = Needed(total_pages_reg, reserved_pages)
    /\ UNCHANGED <<total_pages_reg, pc>>

Next == Break \/ Iterate

Spec == Init /\ [][Next]_vars /\ WF_vars(Next)
-----------------------------------------------------------------------------
\* The checked_sub in the loop never finds more pages reserved than there are
\* ("reserved > total", mod.rs:108), and a region is refused only when a
\* single page is all there is.
NeverOverReserved ==
    /\ reserved_pages <= total_pages_reg
    /\ pc = "panic" => total_pages_reg = 1

\* The metadata bytes and the Zone fit into the reserved pages without
\* overlap, and one page fewer would not do.
ReservationExact ==
    pc = "done" =>
        LET usable == total_pages_reg - reserved_pages
        IN  /\ usable + ZoneSize <= reserved_pages * PageSize
            /\ usable + 1 + ZoneSize > (reserved_pages - 1) * PageSize

\* The inductive invariant: as many pages are reserved as the loop found needed,
\* and it leaves when that number needs itself.
IInv ==
    /\ total_pages_reg \in Nat \ {0}
    /\ reserved_pages \in Nat /\ reserved_pages <= total_pages_reg
    /\ pc \in {"loop", "done", "panic"}
    /\ pc = "panic" => total_pages_reg = 1
    /\ pc = "done" => Needed(total_pages_reg, reserved_pages) = reserved_pages

\* add_range returns for every page-aligned region of usable memory: the loop
\* ends.
Terminates == <>(pc \in {"done", "panic"})
=============================================================================
