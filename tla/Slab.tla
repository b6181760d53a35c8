-------------------------------- MODULE Slab ---------------------------------
(***************************************************************************)
(* SlabAllocator: objects of one size class (the classes share nothing but *)
(* the lock) and large allocations, by any number of cores.  A slab page   *)
(* starts with a Header; pages with free objects are linked through next   *)
(* and prev, from plist.  What is done under the lock is one step.  The    *)
(* order of a page's free objects is left open.  The page allocator        *)
(* (PageAllocator) returns any free page.                                  *)
(***************************************************************************)
EXTENDS Integers, FiniteSets

CONSTANTS CPUs, Pages, Cap, Null,
          LargeSize    \* the size of a large object, in objects of the class

\* Every class has more than one object: the largest is 2048 of 16384 bytes.
ASSUME CapAssumption == Cap \in Nat /\ Cap > 1
ASSUME NullAssumption == Null \notin Pages
ASSUME FiniteAssumption == IsFiniteSet(CPUs)
ASSUME LargeAssumption == LargeSize \in Nat

Objects == Pages \X (1 .. Cap)
ObjectsOf(p) == {p} \X (1 .. Cap)
NoObject == <<Null, 0>>

VARIABLES owner,                   \* who has each page: "free", "slab" or "large"
          plist,                   \* Cache.plist
          next, prev,              \* the Header of each page
          free_list, free_count,
          used,                    \* used_bytes, in objects
          live,                    \* the objects callers have
          pc, obj, page            \* of each core's call

header == <<plist, next, prev, free_list, free_count>>
vars == <<owner, plist, next, prev, free_list, free_count, used, live, pc, obj, page>>

Init ==
    /\ owner = [p \in Pages |-> "free"]
    /\ plist = Null
    /\ next = [p \in Pages |-> Null]
    /\ prev = [p \in Pages |-> Null]
    /\ free_list = [p \in Pages |-> {}]
    /\ free_count = [p \in Pages |-> 0]
    /\ used = 0
    /\ live = {}
    /\ pc = [c \in CPUs |-> "idle"]
    /\ obj = [c \in CPUs |-> NoObject]
    /\ page = [c \in CPUs |-> Null]

Goto(c, from, to) == pc[c] = from /\ pc' = [pc EXCEPT ![c] = to]

\* (*x).field = v, where x is not null.
Set(f, x, v) == IF x = Null THEN f ELSE [f EXCEPT ![x] = v]

\* The first page of the list leaves it.
PopPage ==
    /\ plist' = next[plist]
    /\ next' = [next EXCEPT ![plist] = Null]
    /\ prev' = [Set(prev, next[plist], Null) EXCEPT ![plist] = Null]

\* Mutant: the page that was first is not told.
PushPageOneWay(p) ==
    /\ plist' = p
    /\ next' = [next EXCEPT ![p] = plist]
    /\ UNCHANGED prev

\* A page that was full, and so has no prev, becomes the first of the list.
PushPage(p) ==
    /\ plist' = p
    /\ next' = [next EXCEPT ![p] = plist]
    /\ prev' = Set(prev, plist, p)

\* Mutant: plist is taken to be null still.
PushNewPageAlone(p) ==
    /\ plist' = p
    /\ next' = [next EXCEPT ![p] = Null]
    /\ prev' = [prev EXCEPT ![p] = Null]

\* A new page does, whose prev is whatever the memory held.
PushNewPage(p) ==
    /\ plist' = p
    /\ next' = [next EXCEPT ![p] = plist]
    /\ prev' = Set([prev EXCEPT ![p] = Null], plist, p)

UnlinkPage(p) ==
    /\ plist' = IF prev[p] = Null THEN next[p] ELSE plist
    /\ next' = Set(next, prev[p], next[p])
    /\ prev' = Set(prev, next[p], prev[p])
-----------------------------------------------------------------------------
(* alloc_impl, for a size class *)

TakeObject(c) ==
    /\ \E o \in free_list[plist] :
          /\ free_list' = [free_list EXCEPT ![plist] = @ \ {o}]
          /\ obj' = [obj EXCEPT ![c] = o]
    /\ free_count' = [free_count EXCEPT ![plist] = @ - 1]
    /\ Goto(c, "idle", "add")

AllocFast(c) ==
    /\ plist # Null
    /\ free_count[plist] # 1
    /\ TakeObject(c)
    /\ UNCHANGED <<owner, plist, next, prev, used, live, page>>

AllocLast(c) ==
    /\ plist # Null
    /\ free_count[plist] = 1
    /\ TakeObject(c)
    /\ PopPage
    /\ UNCHANGED <<owner, used, live, page>>

\* The lock is released before a page is asked for.
AllocNone(c) ==
    /\ plist = Null
    /\ Goto(c, "idle", "new")
    /\ UNCHANGED <<owner, header, used, live, obj, page>>

NewPage(c) ==
    /\ Goto(c, "new", "fill")
    /\ \E p \in Pages :
          /\ owner[p] = "free"
          /\ owner' = [owner EXCEPT ![p] = "slab"]
          /\ page' = [page EXCEPT ![c] = p]
    /\ UNCHANGED <<header, used, live, obj>>

\* expect() on the page allocator's error.
OutOfMemory(c) ==
    /\ \A p \in Pages : owner[p] # "free"
    /\ Goto(c, "new", "panicked")
    /\ UNCHANGED <<owner, header, used, live, obj, page>>

\* Mutant: the first object is left in the list as well.
FillPageAll(c) ==
    LET p == page[c] IN
    /\ Goto(c, "fill", "add")
    /\ free_list' = [free_list EXCEPT ![p] = {p} \X (1 .. Cap)]
    /\ free_count' = [free_count EXCEPT ![p] = Cap]
    /\ PushNewPage(p)
    /\ obj' = [obj EXCEPT ![c] = <<p, 1>>]
    /\ page' = [page EXCEPT ![c] = Null]
    /\ UNCHANGED <<owner, used, live>>

\* The header is written and the page put into the list, in front of pages
\* that others have added since plist was null.
FillPage(c) ==
    LET p == page[c] IN
    /\ Goto(c, "fill", "add")
    /\ free_list' = [free_list EXCEPT ![p] = {p} \X (2 .. Cap)]
    /\ free_count' = [free_count EXCEPT ![p] = Cap - 1]
    /\ PushNewPage(p)
    /\ obj' = [obj EXCEPT ![c] = <<p, 1>>]
    /\ page' = [page EXCEPT ![c] = Null]
    /\ UNCHANGED <<owner, used, live>>

\* used_bytes.fetch_add, and return.
AddUsed(c) ==
    /\ Goto(c, "add", "idle")
    /\ used' = used + 1
    /\ live' = live \cup {obj[c]}
    /\ obj' = [obj EXCEPT ![c] = NoObject]
    /\ UNCHANGED <<owner, header, page>>
-----------------------------------------------------------------------------
(* free_impl, for a size class *)

PutObject(o) ==
    /\ o \in live
    /\ live' = live \ {o}
    /\ free_list' = [free_list EXCEPT ![o[1]] = @ \cup {o}]
    /\ free_count' = [free_count EXCEPT ![o[1]] = @ + 1]

FreeKeeps(c, o) ==
    /\ free_count[o[1]] # 0
    /\ free_count[o[1]] + 1 # Cap
    /\ Goto(c, "idle", "sub")
    /\ PutObject(o)
    /\ UNCHANGED <<owner, plist, next, prev, used, obj, page>>

FreeRelists(c, o) ==
    /\ free_count[o[1]] = 0
    /\ Goto(c, "idle", "sub")
    /\ PutObject(o)
    /\ PushPage(o[1])
    /\ UNCHANGED <<owner, used, obj, page>>

\* The page's last object: the page leaves the list, and the lock is released
\* before the page is freed.
FreeEmpties(c, o) ==
    /\ free_count[o[1]] + 1 = Cap
    /\ Goto(c, "idle", "free_page")
    /\ PutObject(o)
    /\ UnlinkPage(o[1])
    /\ page' = [page EXCEPT ![c] = o[1]]
    /\ UNCHANGED <<owner, used, obj>>

\* Mutant: the call returns from here.
FreePageReturns(c) ==
    /\ Goto(c, "free_page", "idle")
    /\ owner' = [owner EXCEPT ![page[c]] = "free"]
    /\ page' = [page EXCEPT ![c] = Null]
    /\ UNCHANGED <<header, used, live, obj>>

FreePage(c) ==
    /\ Goto(c, "free_page", "sub")
    /\ owner' = [owner EXCEPT ![page[c]] = "free"]
    /\ page' = [page EXCEPT ![c] = Null]
    /\ UNCHANGED <<header, used, live, obj>>

\* used_bytes.fetch_sub, and return.
SubUsed(c) ==
    /\ Goto(c, "sub", "idle")
    /\ used' = used - 1
    /\ UNCHANGED <<owner, header, live, obj, page>>
-----------------------------------------------------------------------------
(* Large objects are pages of the page allocator, and are counted like the  *)
(* others: by a step that follows the allocation, or the free.             *)

AllocLarge(c) ==
    /\ Goto(c, "idle", "add_large")
    /\ \E p \in Pages :
          /\ owner[p] = "free"
          /\ owner' = [owner EXCEPT ![p] = "large"]
          /\ page' = [page EXCEPT ![c] = p]
    /\ UNCHANGED <<header, used, live, obj>>

\* alloc_pages has no block of the order, though it may have smaller ones: null
\* is returned, and not counted.
AllocLargeNull(c) ==
    /\ pc[c] = "idle"
    /\ UNCHANGED vars

AddLarge(c) ==
    /\ Goto(c, "add_large", "idle")
    /\ used' = used + LargeSize
    /\ page' = [page EXCEPT ![c] = Null]
    /\ UNCHANGED <<owner, header, live, obj>>

\* The pages of the large objects callers have.
Large == {p \in Pages : owner[p] = "large" /\ \A c \in CPUs : page[c] # p}

FreeLarge(c) ==
    /\ Goto(c, "idle", "sub_large")
    /\ \E p \in Large : owner' = [owner EXCEPT ![p] = "free"]
    /\ UNCHANGED <<header, used, live, obj, page>>

SubLarge(c) ==
    /\ Goto(c, "sub_large", "idle")
    /\ used' = used - LargeSize
    /\ UNCHANGED <<owner, header, live, obj, page>>

Next ==
    \E c \in CPUs :
       \/ AllocFast(c) \/ AllocLast(c) \/ AllocNone(c) \/ NewPage(c) \/ OutOfMemory(c) \/ FillPage(c)
       \/ AddUsed(c) \/ FreePage(c) \/ SubUsed(c)
       \/ AllocLarge(c) \/ AllocLargeNull(c) \/ AddLarge(c) \/ FreeLarge(c) \/ SubLarge(c)
       \/ \E o \in Objects : FreeKeeps(c, o) \/ FreeRelists(c, o) \/ FreeEmpties(c, o)

Spec == Init /\ [][Next]_vars
-----------------------------------------------------------------------------
PCs == {"idle", "new", "fill", "add", "free_page", "sub", "add_large", "sub_large", "panicked"}

TypeOK ==
    /\ owner \in [Pages -> {"free", "slab", "large"}]
    /\ plist \in Pages \cup {Null}
    /\ next \in [Pages -> Pages \cup {Null}]
    /\ prev \in [Pages -> Pages \cup {Null}]
    /\ free_list \in [Pages -> SUBSET Objects]
    /\ free_count \in [Pages -> 0 .. Cap]
    /\ used \in Int
    /\ live \subseteq Objects
    /\ pc \in [CPUs -> PCs]
    /\ obj \in [CPUs -> Objects \cup {NoObject}]
    /\ page \in [CPUs -> Pages \cup {Null}]

\* The pages a core is about to put into the list, or to free.
InHand(p) == \E c \in CPUs : page[c] = p
Listed == {p \in Pages : owner[p] = "slab" /\ ~InHand(p) /\ free_count[p] # 0}

\* The list's pointers lead from listed page to listed page, the same way back,
\* and to nothing else: not to a page that is full, or that has gone back to
\* the page allocator, whose header somebody else may be writing over.
ListHead == plist # Null => plist \in Listed /\ prev[plist] = Null
ListLinks ==
    \A p \in Listed :
       /\ prev[p] = Null => plist = p
       /\ next[p] # Null => next[p] \in Listed /\ prev[next[p]] = p
       /\ prev[p] # Null => prev[p] \in Listed /\ next[prev[p]] = p
ListFull == \A p \in Pages : owner[p] = "slab" /\ ~InHand(p) /\ free_count[p] = 0 => prev[p] = Null
\* No pages are linked in a circle.
ListEnds == \A S \in SUBSET Listed : S # {} => \E p \in S : prev[p] \notin S
ListInv == ListHead /\ ListLinks /\ ListFull /\ ListEnds

\* Every object of a slab page is free in its page, at one core on its way out,
\* or at one caller; a page that leaves takes no caller's object along.
Outgoing(o) == \E c \in CPUs : obj[c] = o
ObjectInv ==
    /\ \A o \in Objects : o \in live \/ Outgoing(o) => owner[o[1]] = "slab" /\ ~InHand(o[1])
    /\ \A p \in Pages : owner[p] = "slab" /\ ~InHand(p) =>
          free_list[p] = {o \in ObjectsOf(p) : o \notin live /\ ~Outgoing(o)}
    /\ \A o \in live : ~Outgoing(o)
    /\ \A c, d \in CPUs : obj[c] # NoObject /\ obj[c] = obj[d] => c = d

\* A core has a page exactly while it fills or frees it or is about to return it,
\* no two the same one; a settled page counts its free objects, and is never
\* without an object in use.
OwnerOf(k) == IF k = "add_large" THEN "large" ELSE "slab"
HandInv ==
    /\ \A c \in CPUs : page[c] # Null <=> pc[c] \in {"fill", "free_page", "add_large"}
    /\ \A c \in CPUs : obj[c] # NoObject <=> pc[c] = "add"
    /\ \A c \in CPUs : page[c] # Null => owner[page[c]] = OwnerOf(pc[c])
    /\ \A c, d \in CPUs : page[c] # Null /\ page[c] = page[d] => c = d
    /\ \A p \in Pages : owner[p] = "slab" /\ ~InHand(p) =>
          free_count[p] = Cardinality(free_list[p]) /\ free_count[p] < Cap

\* The inductive invariant: list, objects and what the cores have in hand
\* agree after every step of every core.
Inv == TypeOK /\ ListInv /\ ObjectInv /\ HandInv

\* Every page with a free object can be reached from plist: it is in every set
\* that holds plist and, with a page, the page next to it.
NotStranded ==
    \A S \in SUBSET (Pages \cup {Null}) :
       plist \in S /\ (\A p \in S \ {Null} : next[p] \in S) => Listed \subseteq S

Freeing == {c \in CPUs : pc[c] \in {"free_page", "sub"}}
FreeingLarge == {c \in CPUs : pc[c] = "sub_large"}

\* heap_usage() is the size of the objects, small and large, that callers have
\* and of the frees not yet through, whatever the order in which the cores'
\* additions and subtractions reach it, and so never wraps below zero.
UsedExact ==
    used = Cardinality(live) + Cardinality(Freeing)
              + LargeSize * (Cardinality(Large) + Cardinality(FreeingLarge))

Heap == INSTANCE AbstractHeap WITH out <- obj

\* alloc_impl never takes an object that somebody has or is being given.
ImplementsHeap == Heap!Spec
=============================================================================
