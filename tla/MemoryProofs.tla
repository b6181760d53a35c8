----------------------------- MODULE MemoryProofs -----------------------------
(***************************************************************************)
(* Proofs for the memory of the kernel and of user space, for any number   *)
(* of cores, threads, pages and objects.                                   *)
(*                                                                         *)
(* The slab allocator's lists and objects are right, and it implements     *)
(* AbstractHeap.  Inv is inductive: ListInv needs HandInv to tell settled  *)
(* pages from those on their way, ObjectInv needs the count of HandInv to  *)
(* know that a page that is given back has no object in use, and ListEnds, *)
(* that the list has no circles, is what makes every page reachable.       *)
(*                                                                         *)
(* The pages that add_range reserves are enough, and not too many.         *)
(*                                                                         *)
(* Cursors on an address space are alone below the tables they cover, by   *)
(* the lemmas of UserSpaceProofs.                                          *)
(***************************************************************************)
EXTENDS Slab, FiniteSetTheorems, TLAPS

\* A page has Cap objects, the new page's first one is not among the others.
LEMMA PageObjects ==
    ASSUME NEW p \in Pages
    PROVE  /\ IsFiniteSet(ObjectsOf(p)) /\ Cardinality(ObjectsOf(p)) = Cap
           /\ IsFiniteSet({p} \X (2 .. Cap)) /\ Cardinality({p} \X (2 .. Cap)) = Cap - 1
<1>1. ObjectsOf(p) = ({p} \X (2 .. Cap)) \cup {<<p, 1>>} /\ <<p, 1>> \notin {p} \X (2 .. Cap)
    BY CapAssumption DEF ObjectsOf
<1>2. IsFiniteSet(1 .. Cap) /\ Cardinality(1 .. Cap) = Cap
    BY FS_Interval, CapAssumption
<1>3. [k \in 1 .. Cap |-> <<p, k>>] \in Bijection(1 .. Cap, ObjectsOf(p))
    BY DEF Bijection, Injection, IsInjective, Surjection, ObjectsOf
<1>4. IsFiniteSet(ObjectsOf(p)) /\ Cardinality(ObjectsOf(p)) = Cap
    BY <1>2, <1>3, FS_Bijection DEF ExistsBijection
<1>5. {p} \X (2 .. Cap) = ObjectsOf(p) \ {<<p, 1>>} /\ <<p, 1>> \in ObjectsOf(p)
    BY <1>1, CapAssumption DEF ObjectsOf
<1> QED BY <1>4, <1>5, FS_RemoveElement

Settled(p) == owner[p] = "slab" /\ ~InHand(p)

\* The parts of HandInv and ObjectInv that speak of one page.
LEMMA SettledPage ==
    ASSUME Inv, NEW p \in Pages, Settled(p)
    PROVE  /\ free_list[p] \in SUBSET ObjectsOf(p)
           /\ IsFiniteSet(free_list[p])
           /\ free_count[p] = Cardinality(free_list[p])
           /\ free_count[p] \in Nat /\ free_count[p] < Cap
<1>1. free_list[p] \in SUBSET ObjectsOf(p)
    BY DEF Inv, ObjectInv, Settled
<1>2. free_count[p] = Cardinality(free_list[p]) /\ free_count[p] < Cap
    BY DEF Inv, HandInv, Settled
<1>3. IsFiniteSet(free_list[p])
    BY <1>1, FS_Subset, PageObjects
<1>4. free_count[p] \in Nat
    BY DEF Inv, TypeOK
<1> QED BY <1>1, <1>2, <1>3, <1>4

\* What is left of a page's free objects when one is taken.
LEMMA CountTaken ==
    ASSUME Inv, NEW p \in Pages, Settled(p), NEW o \in free_list[p]
    PROVE  /\ Cardinality(free_list[p] \ {o}) = free_count[p] - 1
           /\ free_count[p] > 0
<1>1. Cardinality(free_list[p] \ {o}) = free_count[p] - 1 /\ IsFiniteSet(free_list[p] \ {o})
    BY SettledPage, FS_RemoveElement
<1>2. Cardinality(free_list[p] \ {o}) \in Nat
    BY <1>1, FS_CardinalityType
<1> QED BY <1>1, <1>2, SettledPage

LEMMA CountPut ==
    ASSUME Inv, NEW p \in Pages, Settled(p), NEW o \in ObjectsOf(p), o \notin free_list[p]
    PROVE  /\ Cardinality(free_list[p] \cup {o}) = free_count[p] + 1
           /\ free_count[p] + 1 = Cap => free_list[p] \cup {o} = ObjectsOf(p)
<1>1. Cardinality(free_list[p] \cup {o}) = free_count[p] + 1
    BY SettledPage, FS_AddElement
<1>2. free_list[p] \cup {o} \in SUBSET ObjectsOf(p)
    BY SettledPage
<1> QED BY <1>1, <1>2, PageObjects, FS_Subset

LEMMA ObjectPage ==
    ASSUME NEW o \in Objects
    PROVE  o[1] \in Pages /\ o \in ObjectsOf(o[1]) /\ o # NoObject
BY NullAssumption DEF Objects, ObjectsOf, NoObject

LEMMA ObjectsOfPage ==
    ASSUME NEW p \in Pages, NEW o \in ObjectsOf(p)
    PROVE  o \in Objects /\ o[1] = p
BY DEF Objects, ObjectsOf

\* A caller's object belongs to a settled page and is not free.
LEMMA LiveObject ==
    ASSUME Inv, NEW o \in live
    PROVE  o \in Objects /\ Settled(o[1]) /\ o \notin free_list[o[1]]
<1>1. o \in Objects
    BY DEF Inv, TypeOK
<1>2. Settled(o[1])
    BY <1>1 DEF Inv, ObjectInv, Settled
<1> QED BY <1>1, <1>2, ObjectPage DEF Inv, ObjectInv, Settled
-----------------------------------------------------------------------------
LEMMA InitInv == Init => Inv
<1> SUFFICES ASSUME Init PROVE Inv
    OBVIOUS
<1>1. TypeOK
    BY CapAssumption DEF Init, TypeOK, PCs
<1>2. ListInv
    BY DEF Init, ListInv, ListHead, ListLinks, ListFull, ListEnds, Listed
<1>3. ObjectInv
    <2>1. \A o \in Objects : ~Outgoing(o)
        BY ObjectPage DEF Init, Outgoing
    <2> QED BY <2>1 DEF Init, ObjectInv
<1>4. HandInv
    BY DEF Init, HandInv
<1> QED BY <1>1, <1>2, <1>3, <1>4 DEF Inv

\* What taking an object does, in both actions that do.
LEMMA TakeObjectInv ==
    ASSUME Inv, NEW c \in CPUs, TakeObject(c), plist # Null,
           UNCHANGED <<owner, used, live, page>>
    PROVE  /\ plist \in Listed /\ Settled(plist)
           /\ free_list' \in [Pages -> SUBSET Objects]
           /\ free_count' \in [Pages -> 0 .. Cap]
           /\ pc' \in [CPUs -> PCs]
           /\ obj' \in [CPUs -> Objects \cup {NoObject}]
           /\ ObjectInv'
           /\ HandInv'
<1> USE DEF Inv
<1>1. plist \in Listed /\ Settled(plist) /\ plist \in Pages
    BY DEF ListInv, ListHead, ListLinks, ListFull, Listed, Settled
<1>2. PICK o \in free_list[plist] :
         /\ free_list' = [free_list EXCEPT ![plist] = @ \ {o}]
         /\ obj' = [obj EXCEPT ![c] = o]
    BY DEF TakeObject
<1>3. o \in ObjectsOf(plist) /\ o \in Objects /\ o[1] = plist /\ o # NoObject
    BY <1>1, SettledPage, ObjectsOfPage, ObjectPage
<1>4. o \notin live /\ ~Outgoing(o)
    BY <1>1, <1>3 DEF ObjectInv, Settled
<1>5. Cardinality(free_list[plist] \ {o}) = free_count[plist] - 1 /\ free_count[plist] > 0
    BY <1>1, CountTaken
<1>6. free_count' = [free_count EXCEPT ![plist] = @ - 1] /\ pc[c] = "idle" /\ pc' = [pc EXCEPT ![c] = "add"]
    BY DEF TakeObject, Goto
<1>7. free_list' \in [Pages -> SUBSET Objects] /\ free_count' \in [Pages -> 0 .. Cap]
    <2>1. free_count[plist] - 1 \in 0 .. Cap
        BY <1>1, <1>5, CapAssumption DEF TypeOK
    <2> QED BY <1>1, <1>2, <1>6, <2>1 DEF TypeOK
<1>8. pc' \in [CPUs -> PCs] /\ obj' \in [CPUs -> Objects \cup {NoObject}]
    BY <1>2, <1>3, <1>6 DEF TypeOK, PCs
<1>9. obj[c] = NoObject /\ page[c] = Null
    BY <1>6 DEF HandInv
<1>10. \A x \in Objects : Outgoing(x)' <=> Outgoing(x) \/ x = o
    BY <1>2, <1>3, <1>9, ObjectPage DEF Outgoing, TypeOK
<1>11. \A p : InHand(p)' <=> InHand(p)
    BY DEF InHand
<1>12. ObjectInv'
    <2>1. \A x \in Objects : x \in live' \/ Outgoing(x)' => owner'[x[1]] = "slab" /\ ~InHand(x[1])'
        BY <1>1, <1>3, <1>10, <1>11 DEF ObjectInv, Settled
    <2>2. \A p \in Pages : owner'[p] = "slab" /\ ~InHand(p)' =>
             free_list'[p] = {x \in ObjectsOf(p) : x \notin live' /\ ~Outgoing(x)'}
        <3> SUFFICES ASSUME NEW p \in Pages, owner[p] = "slab", ~InHand(p)
                     PROVE  free_list'[p] = {x \in ObjectsOf(p) : x \notin live /\ ~Outgoing(x)'}
            BY <1>11
        <3>1. free_list[p] = {x \in ObjectsOf(p) : x \notin live /\ ~Outgoing(x)}
            BY DEF ObjectInv
        <3>2. \A x \in ObjectsOf(p) : Outgoing(x)' <=> Outgoing(x) \/ x = o
            BY <1>10, ObjectsOfPage
        <3>3. p # plist => o \notin ObjectsOf(p)
            BY <1>3, ObjectsOfPage
        <3>4. free_list'[p] = free_list[p] \ {o}
            BY <1>1, <1>2, <3>1, <3>3 DEF TypeOK
        <3> QED BY <3>1, <3>2, <3>4
    <2>3. \A x \in live' : ~Outgoing(x)'
        BY <1>4, <1>10 DEF ObjectInv, TypeOK
    <2>4. \A d, e \in CPUs : obj'[d] # NoObject /\ obj'[d] = obj'[e] => d = e
        BY <1>2, <1>4 DEF ObjectInv, Outgoing, TypeOK
    <2> QED BY <2>1, <2>2, <2>3, <2>4 DEF ObjectInv
<1>13. HandInv'
    <2>1. \A d \in CPUs : page'[d] # Null <=> pc'[d] \in {"fill", "free_page", "add_large"}
        BY <1>6 DEF HandInv, TypeOK
    <2>2. \A d \in CPUs : obj'[d] # NoObject <=> pc'[d] = "add"
        BY <1>2, <1>3, <1>6 DEF HandInv, TypeOK
    <2>3. \A p \in Pages : owner'[p] = "slab" /\ ~InHand(p)' =>
             free_count'[p] = Cardinality(free_list'[p]) /\ free_count'[p] < Cap
        <3> SUFFICES ASSUME NEW p \in Pages, Settled(p)
                     PROVE  free_count'[p] = Cardinality(free_list'[p]) /\ free_count'[p] < Cap
            BY <1>11 DEF Settled
        <3>1. free_count[p] = Cardinality(free_list[p]) /\ free_count[p] \in Nat /\ free_count[p] < Cap
            BY SettledPage
        <3>2. CASE p = plist
            BY <1>1, <1>2, <1>5, <1>6, <3>1, <3>2, CapAssumption DEF TypeOK
        <3>3. CASE p # plist
            BY <1>2, <1>6, <3>1, <3>3 DEF TypeOK
        <3> QED BY <3>2, <3>3
    <2>4. \A d \in CPUs : page'[d] # Null => owner'[page'[d]] = OwnerOf(pc'[d])
        BY <1>6 DEF HandInv, TypeOK, OwnerOf
    <2> QED BY <2>1, <2>2, <2>3, <2>4 DEF HandInv
<1> QED BY <1>1, <1>7, <1>8, <1>12, <1>13

\* Settled pages are listed, or full and without a prev.
LEMMA ListedOrFull ==
    ASSUME NEW p \in Pages
    PROVE  p \in Listed <=> Settled(p) /\ free_count[p] # 0
BY DEF Listed, Settled

\* A step that leaves the links, and the pages that are listed or full, as they
\* are preserves ListInv.
LEMMA ListKept ==
    ASSUME ListInv, UNCHANGED <<plist, next, prev>>,
           Listed' = Listed,
           \A p \in Pages : Settled(p)' => Settled(p)
    PROVE  ListInv'
<1>1. \A p \in Pages : Settled(p)' /\ free_count'[p] = 0 => Settled(p) /\ free_count[p] = 0
    BY DEF Listed, Settled
<1>2. \A p \in Pages : owner'[p] = "slab" /\ ~InHand(p)' /\ free_count'[p] = 0 => prev'[p] = Null
    BY <1>1 DEF ListInv, ListHead, ListLinks, ListFull, Settled
<1>3. ListEnds'
    BY DEF ListInv, ListEnds
<1> QED BY <1>2, <1>3 DEF ListInv, ListHead, ListLinks, ListFull

LEMMA AllocFastInv == ASSUME Inv, NEW c \in CPUs, AllocFast(c) PROVE Inv'
<1> USE DEF Inv
<1>1. TakeObject(c) /\ plist # Null /\ free_count[plist] # 1 /\ UNCHANGED <<owner, plist, next, prev, used, live, page>>
    BY DEF AllocFast
<1>2. /\ plist \in Listed /\ plist \in Pages
      /\ free_list' \in [Pages -> SUBSET Objects] /\ free_count' \in [Pages -> 0 .. Cap]
      /\ pc' \in [CPUs -> PCs] /\ obj' \in [CPUs -> Objects \cup {NoObject}]
      /\ ObjectInv' /\ HandInv'
    BY <1>1, TakeObjectInv DEF Listed
<1>3. TypeOK'
    BY <1>1, <1>2 DEF TypeOK
<1>4. Listed' = Listed
    BY <1>1, <1>2 DEF TakeObject, Listed, InHand, TypeOK
<1>5. \A p \in Pages : Settled(p)' => Settled(p)
    BY <1>1 DEF Settled, InHand
<1>6. ListInv'
    BY <1>1, <1>4, <1>5, ListKept
<1> QED BY <1>2, <1>3, <1>6

LEMMA AllocLastInv == ASSUME Inv, NEW c \in CPUs, AllocLast(c) PROVE Inv'
<1> USE DEF Inv
<1>1. TakeObject(c) /\ plist # Null /\ free_count[plist] = 1 /\ PopPage /\ UNCHANGED <<owner, used, live, page>>
    BY DEF AllocLast
<1>2. /\ plist \in Listed /\ plist \in Pages
      /\ free_list' \in [Pages -> SUBSET Objects] /\ free_count' \in [Pages -> 0 .. Cap]
      /\ pc' \in [CPUs -> PCs] /\ obj' \in [CPUs -> Objects \cup {NoObject}]
      /\ ObjectInv' /\ HandInv'
    BY <1>1, TakeObjectInv DEF Listed
<1>3. TypeOK'
    <2>1. plist' \in Pages \cup {Null} /\ next' \in [Pages -> Pages \cup {Null}] /\ prev' \in [Pages -> Pages \cup {Null}]
        BY <1>1, <1>2 DEF PopPage, Set, TypeOK
    <2> QED BY <1>1, <1>2, <2>1 DEF TypeOK
<1>4. Listed' = Listed \ {plist}
    BY <1>1, <1>2 DEF TakeObject, Listed, InHand, TypeOK
<1>5. \A p \in Pages : Settled(p)' <=> Settled(p)
    BY <1>1 DEF Settled, InHand
<1>6. \A p \in Pages : Settled(p)' /\ free_count'[p] = 0 => prev'[p] = Null
    BY <1>1, <1>2, <1>5 DEF ListInv, ListHead, ListLinks, ListFull, Settled, TakeObject, PopPage, Set, TypeOK
<1>7. plist' # Null => plist' \in Listed' /\ prev'[plist'] = Null
    BY <1>1, <1>2, <1>4 DEF ListInv, ListHead, ListLinks, ListFull, PopPage, Set, TypeOK
<1>8. \A p \in Listed' :
          /\ prev'[p] = Null => plist' = p
          /\ next'[p] # Null => next'[p] \in Listed' /\ prev'[next'[p]] = p
          /\ prev'[p] # Null => prev'[p] \in Listed' /\ next'[prev'[p]] = p
    <2> SUFFICES ASSUME NEW p \in Listed, p # plist
                 PROVE  /\ prev'[p] = Null => plist' = p
                        /\ next'[p] # Null => next'[p] \in Listed' /\ prev'[next'[p]] = p
                        /\ prev'[p] # Null => prev'[p] \in Listed' /\ next'[prev'[p]] = p
        BY <1>4
    <2>1. p \in Pages
        BY DEF Listed
    <2>2. next'[p] = next[p] /\ prev'[p] = IF p = next[plist] THEN Null ELSE prev[p]
        BY <1>1, <1>2, <2>1, NullAssumption DEF PopPage, Set, TypeOK
    <2>3. prev'[p] = Null => plist' = p
        BY <1>1, <2>2 DEF ListInv, ListHead, ListLinks, ListFull, PopPage
    <2>4. next'[p] # Null => next'[p] \in Listed' /\ prev'[next'[p]] = p
        <3> SUFFICES ASSUME next[p] # Null PROVE next[p] \in Listed' /\ prev'[next[p]] = p
            BY <2>2
        <3>1. next[p] \in Listed /\ next[p] \in Pages /\ prev[next[p]] = p
            BY DEF ListInv, ListHead, ListLinks, ListFull, Listed
        <3>2. next[p] # plist /\ next[p] # next[plist]
            BY <1>1, <1>2, <2>1, <3>1, NullAssumption DEF ListInv, ListHead, ListLinks, ListFull
        <3>3. prev'[next[p]] = prev[next[p]]
            BY <1>1, <1>2, <3>1, <3>2 DEF PopPage, Set, TypeOK
        <3> QED BY <1>4, <3>1, <3>2, <3>3
    <2>5. prev'[p] # Null => prev'[p] \in Listed' /\ next'[prev'[p]] = p
        BY <1>1, <1>2, <1>4, <2>1, <2>2 DEF ListInv, ListHead, ListLinks, ListFull, PopPage, TypeOK
    <2> QED BY <2>3, <2>4, <2>5
<1>9. ListEnds'
    <2> SUFFICES ASSUME NEW S \in SUBSET Listed', S # {} PROVE \E p \in S : prev'[p] \notin S
        BY DEF ListEnds
    <2>1. S \in SUBSET Listed /\ Null \notin S
        BY <1>4, NullAssumption DEF Listed
    <2>2. PICK p \in S : prev[p] \notin S
        BY <2>1 DEF ListInv, ListEnds
    <2>3. p \in Pages /\ prev'[p] \in {prev[p], Null}
        BY <1>1, <1>2, <2>1 DEF PopPage, Set, TypeOK, Listed
    <2> QED BY <2>1, <2>2, <2>3
<1>10. ListInv'
    BY <1>6, <1>7, <1>8, <1>9 DEF ListInv, ListHead, ListLinks, ListFull, Settled
<1> QED BY <1>2, <1>3, <1>10

LEMMA AllocNoneInv ==
    ASSUME Inv, NEW c \in CPUs, AllocNone(c) \/ OutOfMemory(c) \/ SubUsed(c) \/ SubLarge(c)
    PROVE  Inv'
<1> USE DEF Inv
<1>1. /\ UNCHANGED <<owner, plist, next, prev, free_list, free_count, live, obj, page>>
      /\ \E x \in {"idle", "new", "sub", "sub_large"}, y \in {"new", "panicked", "idle"} : pc[c] = x /\ pc' = [pc EXCEPT ![c] = y]
      /\ used' \in Int
    BY LargeAssumption DEF AllocNone, OutOfMemory, SubUsed, SubLarge, header, Goto, TypeOK
<1>2. TypeOK'
    BY <1>1 DEF TypeOK, PCs
<1>3. ListInv' /\ ObjectInv'
    BY <1>1 DEF ListInv, ListHead, ListLinks, ListFull, ListEnds, Listed, InHand, ObjectInv, Outgoing
<1>4. HandInv'
    <2>1. \A d \in CPUs : /\ page'[d] # Null <=> pc'[d] \in {"fill", "free_page", "add_large"}
                          /\ obj'[d] # NoObject <=> pc'[d] = "add"
        BY <1>1 DEF HandInv, TypeOK
    <2> QED BY <1>1, <2>1 DEF HandInv, InHand
<1> QED BY <1>2, <1>3, <1>4

\* Lists and objects do not depend on the pages of large objects.
LEMMA SlabsKept ==
    ASSUME Inv, UNCHANGED <<plist, next, prev, free_list, free_count, live, obj>>,
           \A p \in Pages : Settled(p)' <=> Settled(p)
    PROVE  /\ ListInv' /\ ObjectInv'
           /\ \A p \in Pages : Settled(p)' => free_count'[p] = Cardinality(free_list'[p]) /\ free_count'[p] < Cap
<1> USE DEF Inv
<1>1. Listed' = Listed
    BY DEF Listed, Settled
<1>2. ListInv'
    BY <1>1, ListKept
<1>3. ObjectInv'
    <2>1. \A o \in Objects : Outgoing(o)' <=> Outgoing(o)
        BY DEF Outgoing
    <2>2. \A o \in Objects : o \in live' \/ Outgoing(o)' => Settled(o[1])'
        BY <2>1, ObjectPage DEF ObjectInv, Settled
    <2>3. \A p \in Pages : Settled(p)' => free_list'[p] = {o \in ObjectsOf(p) : o \notin live' /\ ~Outgoing(o)'}
        BY <2>1, ObjectsOfPage DEF ObjectInv, Settled
    <2> QED BY <2>1, <2>2, <2>3 DEF ObjectInv, Settled, TypeOK
<1>4. \A p \in Pages : Settled(p)' => free_count'[p] = Cardinality(free_list'[p]) /\ free_count'[p] < Cap
    BY DEF HandInv, Settled
<1> QED BY <1>2, <1>3, <1>4

LEMMA AllocLargeInv == ASSUME Inv, NEW c \in CPUs, AllocLarge(c) PROVE Inv'
<1> USE DEF Inv
<1>1. PICK q \in Pages : owner[q] = "free" /\ owner' = [owner EXCEPT ![q] = "large"] /\ page' = [page EXCEPT ![c] = q]
    BY DEF AllocLarge
<1>2. /\ UNCHANGED <<plist, next, prev, free_list, free_count, used, live, obj>>
      /\ pc[c] = "idle" /\ pc' = [pc EXCEPT ![c] = "add_large"]
    BY DEF AllocLarge, header, Goto
<1>3. TypeOK'
    BY <1>1, <1>2 DEF TypeOK, PCs
<1>4. page[c] = Null /\ \A d \in CPUs : page[d] # q
    BY <1>1, <1>2, NullAssumption DEF HandInv, OwnerOf
<1>5. \A p \in Pages : InHand(p)' <=> InHand(p) \/ p = q
    BY <1>1, <1>4, NullAssumption DEF InHand, TypeOK
<1>6. \A p \in Pages : Settled(p)' <=> Settled(p)
    BY <1>1, <1>5 DEF Settled, TypeOK
<1>7. /\ ListInv' /\ ObjectInv'
      /\ \A p \in Pages : Settled(p)' => free_count'[p] = Cardinality(free_list'[p]) /\ free_count'[p] < Cap
    BY <1>2, <1>6, SlabsKept
<1>8. HandInv'
    <2>1. \A d \in CPUs : /\ page'[d] # Null <=> pc'[d] \in {"fill", "free_page", "add_large"}
                          /\ obj'[d] # NoObject <=> pc'[d] = "add"
        BY <1>1, <1>2, NullAssumption DEF HandInv, TypeOK
    <2>2. \A d \in CPUs : page'[d] # Null => owner'[page'[d]] = OwnerOf(pc'[d])
        BY <1>1, <1>2, <1>4 DEF HandInv, TypeOK, OwnerOf
    <2>3. \A d, e \in CPUs : page'[d] # Null /\ page'[d] = page'[e] => d = e
        BY <1>1, <1>4 DEF HandInv, TypeOK
    <2> QED BY <1>7, <2>1, <2>2, <2>3 DEF HandInv, Settled
<1> QED BY <1>3, <1>7, <1>8

LEMMA AddLargeInv == ASSUME Inv, NEW c \in CPUs, AddLarge(c) PROVE Inv'
<1> USE DEF Inv
<1>1. /\ UNCHANGED <<owner, plist, next, prev, free_list, free_count, live, obj>>
      /\ pc[c] = "add_large" /\ pc' = [pc EXCEPT ![c] = "idle"]
      /\ page' = [page EXCEPT ![c] = Null] /\ used' \in Int
    BY LargeAssumption DEF AddLarge, header, Goto, TypeOK
<1>2. page[c] \in Pages /\ owner[page[c]] = "large"
    BY <1>1, NullAssumption DEF HandInv, TypeOK, OwnerOf
<1>3. TypeOK'
    BY <1>1 DEF TypeOK, PCs
<1>4. \A p \in Pages : p # page[c] => (InHand(p)' <=> InHand(p))
    BY <1>1, NullAssumption DEF InHand, TypeOK
<1>5. \A p \in Pages : Settled(p)' <=> Settled(p)
    BY <1>1, <1>2, <1>4 DEF Settled
<1>6. /\ ListInv' /\ ObjectInv'
      /\ \A p \in Pages : Settled(p)' => free_count'[p] = Cardinality(free_list'[p]) /\ free_count'[p] < Cap
    BY <1>1, <1>5, SlabsKept
<1>7. HandInv'
    <2>1. \A d \in CPUs : /\ page'[d] # Null <=> pc'[d] \in {"fill", "free_page", "add_large"}
                          /\ obj'[d] # NoObject <=> pc'[d] = "add"
        BY <1>1 DEF HandInv, TypeOK
    <2>2. \A d \in CPUs : page'[d] # Null => owner'[page'[d]] = OwnerOf(pc'[d])
        BY <1>1 DEF HandInv, TypeOK
    <2>3. \A d, e \in CPUs : page'[d] # Null /\ page'[d] = page'[e] => d = e
        BY <1>1 DEF HandInv, TypeOK
    <2> QED BY <1>6, <2>1, <2>2, <2>3 DEF HandInv, Settled
<1> QED BY <1>3, <1>6, <1>7

LEMMA FreeLargeInv == ASSUME Inv, NEW c \in CPUs, FreeLarge(c) PROVE Inv'
<1> USE DEF Inv
<1>1. PICK q \in Pages : /\ owner[q] = "large" /\ owner' = [owner EXCEPT ![q] = "free"]
                         /\ \A d \in CPUs : page[d] # q
    BY DEF FreeLarge, Large
<1>2. /\ UNCHANGED <<plist, next, prev, free_list, free_count, used, live, obj, page>>
      /\ pc[c] = "idle" /\ pc' = [pc EXCEPT ![c] = "sub_large"]
    BY DEF FreeLarge, header, Goto
<1>3. TypeOK'
    BY <1>1, <1>2 DEF TypeOK, PCs
<1>4. \A p \in Pages : Settled(p)' <=> Settled(p)
    BY <1>1, <1>2 DEF Settled, InHand, TypeOK
<1>5. /\ ListInv' /\ ObjectInv'
      /\ \A p \in Pages : Settled(p)' => free_count'[p] = Cardinality(free_list'[p]) /\ free_count'[p] < Cap
    BY <1>2, <1>4, SlabsKept
<1>6. HandInv'
    <2>1. \A d \in CPUs : /\ page'[d] # Null <=> pc'[d] \in {"fill", "free_page", "add_large"}
                          /\ obj'[d] # NoObject <=> pc'[d] = "add"
        BY <1>2 DEF HandInv, TypeOK
    <2>2. \A d \in CPUs : page'[d] # Null => owner'[page'[d]] = OwnerOf(pc'[d])
        <3> SUFFICES ASSUME NEW d \in CPUs, page[d] # Null PROVE owner'[page[d]] = OwnerOf(pc'[d])
            BY <1>2
        <3>1. d # c /\ pc'[d] = pc[d]
            BY <1>2 DEF HandInv, TypeOK
        <3>2. owner'[page[d]] = owner[page[d]]
            BY <1>1 DEF TypeOK
        <3> QED BY <3>1, <3>2 DEF HandInv
    <2> QED BY <1>2, <1>5, <2>1, <2>2 DEF HandInv, Settled
<1> QED BY <1>3, <1>5, <1>6

LEMMA NewPageInv == ASSUME Inv, NEW c \in CPUs, NewPage(c) PROVE Inv'
<1> USE DEF Inv
<1>1. PICK q \in Pages : owner[q] = "free" /\ owner' = [owner EXCEPT ![q] = "slab"] /\ page' = [page EXCEPT ![c] = q]
    BY DEF NewPage
<1>2. /\ UNCHANGED <<plist, next, prev, free_list, free_count, used, live, obj>>
      /\ pc[c] = "new" /\ pc' = [pc EXCEPT ![c] = "fill"]
    BY DEF NewPage, header, Goto
<1>3. TypeOK'
    BY <1>1, <1>2 DEF TypeOK, PCs
<1>4. page[c] = Null /\ \A d \in CPUs : page[d] # q
    BY <1>1, <1>2, NullAssumption DEF HandInv, OwnerOf
<1>5. \A p \in Pages : InHand(p)' <=> InHand(p) \/ p = q
    BY <1>1, <1>4, NullAssumption DEF InHand, TypeOK
<1>6. \A p \in Pages : Settled(p)' <=> Settled(p)
    BY <1>1, <1>5 DEF Settled, TypeOK
<1>7. Listed' = Listed
    BY <1>2, <1>6 DEF Listed, Settled
<1>8. ListInv'
    BY <1>2, <1>6, <1>7, ListKept
<1>9. ObjectInv'
    <2>1. \A o \in Objects : Outgoing(o)' <=> Outgoing(o)
        BY <1>2 DEF Outgoing
    <2>2. \A o \in Objects : o \in live' \/ Outgoing(o)' => Settled(o[1])'
        BY <1>2, <1>6, <2>1, ObjectPage DEF ObjectInv, Settled
    <2>3. \A p \in Pages : Settled(p)' => free_list'[p] = {o \in ObjectsOf(p) : o \notin live' /\ ~Outgoing(o)'}
        BY <1>2, <1>6, <2>1, ObjectsOfPage DEF ObjectInv, Settled
    <2> QED BY <1>2, <2>1, <2>2, <2>3 DEF ObjectInv, Settled, TypeOK
<1>10. HandInv'
    <2>1. \A d \in CPUs : /\ page'[d] # Null <=> pc'[d] \in {"fill", "free_page", "add_large"}
                          /\ obj'[d] # NoObject <=> pc'[d] = "add"
        BY <1>1, <1>2, NullAssumption DEF HandInv, TypeOK
    <2>2. \A d \in CPUs : page'[d] # Null => owner'[page'[d]] = OwnerOf(pc'[d])
        BY <1>1, <1>2, <1>4 DEF HandInv, TypeOK, OwnerOf
    <2>3. \A d, e \in CPUs : page'[d] # Null /\ page'[d] = page'[e] => d = e
        BY <1>1, <1>4 DEF HandInv, TypeOK
    <2>4. \A p \in Pages : Settled(p)' => free_count'[p] = Cardinality(free_list'[p]) /\ free_count'[p] < Cap
        BY <1>2, <1>6 DEF HandInv, Settled
    <2> QED BY <2>1, <2>2, <2>3, <2>4 DEF HandInv, Settled
<1> QED BY <1>3, <1>8, <1>9, <1>10

LEMMA FreePageInv == ASSUME Inv, NEW c \in CPUs, FreePage(c) PROVE Inv'
<1> USE DEF Inv
<1> DEFINE q == page[c]
<1>1. /\ UNCHANGED <<plist, next, prev, free_list, free_count, used, live, obj>>
      /\ pc[c] = "free_page" /\ pc' = [pc EXCEPT ![c] = "sub"]
      /\ owner' = [owner EXCEPT ![q] = "free"] /\ page' = [page EXCEPT ![c] = Null]
    BY DEF FreePage, header, Goto
<1>2. q \in Pages /\ \A d \in CPUs : d # c => page[d] # q
    BY <1>1, NullAssumption DEF HandInv, TypeOK
<1>3. TypeOK'
    BY <1>1 DEF TypeOK, PCs
<1>4. \A p \in Pages : InHand(p)' <=> InHand(p) /\ p # q
    BY <1>1, <1>2, NullAssumption DEF InHand, TypeOK
<1>5. \A p \in Pages : Settled(p)' <=> Settled(p)
    <2>1. InHand(q)
        BY DEF InHand
    <2> QED BY <1>1, <1>2, <1>4, <2>1 DEF Settled, TypeOK
<1>6. Listed' = Listed
    BY <1>1, <1>5 DEF Listed, Settled
<1>7. ListInv'
    BY <1>1, <1>5, <1>6, ListKept
<1>8. ObjectInv'
    <2>1. \A o \in Objects : Outgoing(o)' <=> Outgoing(o)
        BY <1>1 DEF Outgoing
    <2>2. \A o \in Objects : o \in live' \/ Outgoing(o)' => Settled(o[1])'
        BY <1>1, <1>5, <2>1, ObjectPage DEF ObjectInv, Settled
    <2>3. \A p \in Pages : Settled(p)' => free_list'[p] = {o \in ObjectsOf(p) : o \notin live' /\ ~Outgoing(o)'}
        BY <1>1, <1>5, <2>1, ObjectsOfPage DEF ObjectInv, Settled
    <2> QED BY <1>1, <2>1, <2>2, <2>3 DEF ObjectInv, Settled, TypeOK
<1>9. HandInv'
    <2>1. \A d \in CPUs : /\ page'[d] # Null <=> pc'[d] \in {"fill", "free_page", "add_large"}
                          /\ obj'[d] # NoObject <=> pc'[d] = "add"
        BY <1>1 DEF HandInv, TypeOK
    <2>2. \A d \in CPUs : page'[d] # Null => owner'[page'[d]] = OwnerOf(pc'[d])
        BY <1>1, <1>2 DEF HandInv, TypeOK
    <2>3. \A d, e \in CPUs : page'[d] # Null /\ page'[d] = page'[e] => d = e
        BY <1>1, <1>2 DEF HandInv, TypeOK
    <2>4. \A p \in Pages : Settled(p)' => free_count'[p] = Cardinality(free_list'[p]) /\ free_count'[p] < Cap
        BY <1>1, <1>5 DEF HandInv, Settled
    <2> QED BY <2>1, <2>2, <2>3, <2>4 DEF HandInv, Settled
<1> QED BY <1>3, <1>7, <1>8, <1>9

LEMMA AddUsedInv == ASSUME Inv, NEW c \in CPUs, AddUsed(c) PROVE Inv'
<1> USE DEF Inv
<1> DEFINE o == obj[c]
<1>1. /\ UNCHANGED <<owner, plist, next, prev, free_list, free_count, page>>
      /\ pc[c] = "add" /\ pc' = [pc EXCEPT ![c] = "idle"]
      /\ used' = used + 1 /\ live' = live \cup {o} /\ obj' = [obj EXCEPT ![c] = NoObject]
    BY DEF AddUsed, header, Goto
<1>2. o \in Objects /\ Outgoing(o) /\ \A d \in CPUs : d # c => obj[d] # o
    BY <1>1 DEF HandInv, TypeOK, Outgoing, ObjectInv
<1>3. TypeOK'
    BY <1>1, <1>2 DEF TypeOK, PCs
<1>4. ListInv'
    <2>1. Listed' = Listed /\ \A p : InHand(p)' <=> InHand(p)
        BY <1>1 DEF Listed, InHand
    <2> QED BY <1>1, <2>1 DEF ListInv, ListHead, ListLinks, ListFull, ListEnds
<1>5. \A x \in Objects : Outgoing(x)' <=> Outgoing(x) /\ x # o
    BY <1>1, <1>2, ObjectPage DEF Outgoing, TypeOK
<1>6. ObjectInv'
    <2>1. \A x \in Objects : x \in live' \/ Outgoing(x)' <=> x \in live \/ Outgoing(x)
        BY <1>1, <1>2, <1>5
    <2>2. \A p \in Pages : InHand(p)' <=> InHand(p)
        BY <1>1 DEF InHand
    <2>3. \A x \in Objects : x \in live' \/ Outgoing(x)' => owner'[x[1]] = "slab" /\ ~InHand(x[1])'
        BY <1>1, <2>1, <2>2, ObjectPage DEF ObjectInv
    <2>4. \A p \in Pages : owner'[p] = "slab" /\ ~InHand(p)' =>
             free_list'[p] = {x \in ObjectsOf(p) : x \notin live' /\ ~Outgoing(x)'}
        BY <1>1, <2>1, <2>2, ObjectsOfPage DEF ObjectInv
    <2>5. \A x \in live' : ~Outgoing(x)'
        BY <1>1, <1>2, <1>5 DEF ObjectInv, TypeOK
    <2>6. \A d, e \in CPUs : obj'[d] # NoObject /\ obj'[d] = obj'[e] => d = e
        BY <1>1 DEF ObjectInv, TypeOK
    <2> QED BY <2>3, <2>4, <2>5, <2>6 DEF ObjectInv
<1>7. HandInv'
    <2>1. \A d \in CPUs : /\ page'[d] # Null <=> pc'[d] \in {"fill", "free_page", "add_large"}
                          /\ obj'[d] # NoObject <=> pc'[d] = "add"
        BY <1>1 DEF HandInv, TypeOK
    <2> QED BY <1>1, <2>1 DEF HandInv, InHand
<1> QED BY <1>3, <1>4, <1>6, <1>7

\* Putting an object into a settled page that stays settled.
LEMMA PutObjectInv ==
    ASSUME Inv, NEW c \in CPUs, NEW o \in Objects, PutObject(o), Goto(c, "idle", "sub"),
           free_count[o[1]] + 1 # Cap, UNCHANGED <<owner, used, obj, page>>
    PROVE  /\ o[1] \in Pages /\ Settled(o[1])
           /\ free_list' \in [Pages -> SUBSET Objects]
           /\ free_count' \in [Pages -> 0 .. Cap]
           /\ live' \subseteq Objects
           /\ pc' \in [CPUs -> PCs]
           /\ ObjectInv'
           /\ HandInv'
<1> USE DEF Inv
<1> DEFINE q == o[1]
<1>1. /\ o \in live /\ live' = live \ {o}
      /\ free_list' = [free_list EXCEPT ![q] = @ \cup {o}]
      /\ free_count' = [free_count EXCEPT ![q] = @ + 1]
      /\ pc[c] = "idle" /\ pc' = [pc EXCEPT ![c] = "sub"]
    BY DEF PutObject, Goto
<1>2. q \in Pages /\ Settled(q) /\ o \in ObjectsOf(q) /\ o \notin free_list[q]
    BY <1>1, LiveObject, ObjectPage
<1>3. Cardinality(free_list[q] \cup {o}) = free_count[q] + 1 /\ free_count[q] \in Nat /\ free_count[q] + 1 < Cap
    <2>1. free_count[q] \in Nat /\ free_count[q] < Cap
        BY <1>2, SettledPage
    <2>2. Cardinality(free_list[q] \cup {o}) = free_count[q] + 1
        BY <1>2, CountPut
    <2> QED BY <2>1, <2>2, CapAssumption
<1>4. /\ free_list' \in [Pages -> SUBSET Objects] /\ free_count' \in [Pages -> 0 .. Cap]
      /\ live' \subseteq Objects /\ pc' \in [CPUs -> PCs]
    <2>1. free_count[q] + 1 \in 0 .. Cap
        BY <1>3, CapAssumption
    <2> QED BY <1>1, <2>1 DEF TypeOK, PCs
<1>5. \A x : Outgoing(x)' <=> Outgoing(x)
    BY DEF Outgoing
<1>6. \A p : InHand(p)' <=> InHand(p)
    BY DEF InHand
<1>7. ObjectInv'
    <2>1. \A x \in Objects : x \in live' \/ Outgoing(x)' => owner'[x[1]] = "slab" /\ ~InHand(x[1])'
        BY <1>1, <1>5, <1>6 DEF ObjectInv
    <2>2. \A p \in Pages : owner'[p] = "slab" /\ ~InHand(p)' =>
             free_list'[p] = {x \in ObjectsOf(p) : x \notin live' /\ ~Outgoing(x)'}
        <3> SUFFICES ASSUME NEW p \in Pages, owner[p] = "slab", ~InHand(p)
                     PROVE  free_list'[p] = {x \in ObjectsOf(p) : x \notin live' /\ ~Outgoing(x)}
            BY <1>5, <1>6
        <3>1. free_list[p] = {x \in ObjectsOf(p) : x \notin live /\ ~Outgoing(x)}
            BY DEF ObjectInv
        <3>2. CASE p = q
            <4>1. free_list'[p] = free_list[p] \cup {o}
                BY <1>1, <1>2, <3>2 DEF TypeOK
            <4>2. ~Outgoing(o)
                BY <1>1 DEF ObjectInv
            <4> QED BY <1>1, <1>2, <3>1, <3>2, <4>1, <4>2
        <3>3. CASE p # q
            <4>1. free_list'[p] = free_list[p] /\ o \notin ObjectsOf(p)
                BY <1>1, <3>3, ObjectsOfPage DEF TypeOK
            <4> QED BY <1>1, <3>1, <4>1
        <3> QED BY <3>2, <3>3
    <2>3. \A x \in live' : ~Outgoing(x)'
        BY <1>1, <1>5 DEF ObjectInv
    <2> QED BY <2>1, <2>2, <2>3 DEF ObjectInv
<1>8. HandInv'
    <2>1. \A d \in CPUs : /\ page'[d] # Null <=> pc'[d] \in {"fill", "free_page", "add_large"}
                          /\ obj'[d] # NoObject <=> pc'[d] = "add"
        BY <1>1 DEF HandInv, TypeOK
    <2>2. \A p \in Pages : owner'[p] = "slab" /\ ~InHand(p)' =>
             free_count'[p] = Cardinality(free_list'[p]) /\ free_count'[p] < Cap
        <3> SUFFICES ASSUME NEW p \in Pages, Settled(p)
                     PROVE  free_count'[p] = Cardinality(free_list'[p]) /\ free_count'[p] < Cap
            BY <1>6 DEF Settled
        <3>1. CASE p = q
            BY <1>1, <1>2, <1>3, <3>1 DEF TypeOK
        <3>2. CASE p # q
            BY <1>1, <3>2, SettledPage DEF TypeOK
        <3> QED BY <3>1, <3>2
    <2>3. \A d \in CPUs : page'[d] # Null => owner'[page'[d]] = OwnerOf(pc'[d])
        BY <1>1 DEF HandInv, TypeOK, OwnerOf
    <2> QED BY <2>1, <2>2, <2>3 DEF HandInv
<1> QED BY <1>2, <1>4, <1>7, <1>8

LEMMA FreeKeepsInv == ASSUME Inv, NEW c \in CPUs, NEW o \in Objects, FreeKeeps(c, o) PROVE Inv'
<1> USE DEF Inv
<1> DEFINE q == o[1]
<1>1. /\ PutObject(o) /\ Goto(c, "idle", "sub") /\ free_count[q] # 0 /\ free_count[q] + 1 # Cap
      /\ UNCHANGED <<owner, plist, next, prev, used, obj, page>>
    BY DEF FreeKeeps
<1>2. /\ q \in Pages /\ Settled(q)
      /\ free_list' \in [Pages -> SUBSET Objects] /\ free_count' \in [Pages -> 0 .. Cap]
      /\ live' \subseteq Objects /\ pc' \in [CPUs -> PCs] /\ ObjectInv' /\ HandInv'
    BY <1>1, PutObjectInv
<1>3. TypeOK'
    BY <1>1, <1>2 DEF TypeOK
<1>4. Listed' = Listed
    BY <1>1, <1>2 DEF Listed, InHand, PutObject, TypeOK
<1>5. \A p \in Pages : Settled(p)' => Settled(p)
    BY <1>1 DEF Settled, InHand
<1>6. ListInv'
    BY <1>1, <1>4, <1>5, ListKept
<1> QED BY <1>2, <1>3, <1>6

\* A page that is not listed becomes the first of the list.
LEMMA PushInv ==
    ASSUME TypeOK, ListInv, NEW q \in Pages, q \notin Listed,
           plist' = q,
           next' = [next EXCEPT ![q] = plist],
           prev' = Set([prev EXCEPT ![q] = Null], plist, q),
           Listed' = Listed \cup {q},
           \A p \in Pages : p # q /\ Settled(p)' => Settled(p)
    PROVE  /\ ListInv'
           /\ next' \in [Pages -> Pages \cup {Null}] /\ prev' \in [Pages -> Pages \cup {Null}]
<1>1. plist # q
    BY NullAssumption DEF ListInv, ListHead
<1>2. /\ next' \in [Pages -> Pages \cup {Null}] /\ prev' \in [Pages -> Pages \cup {Null}]
      /\ next'[q] = plist /\ prev'[q] = Null
      /\ plist # Null => prev'[plist] = q
      /\ \A p \in Pages : p # q => next'[p] = next[p] /\ (p # plist => prev'[p] = prev[p])
    BY <1>1 DEF Set, TypeOK
<1>3. \A p \in Pages : Settled(p)' /\ free_count'[p] = 0 => prev'[p] = Null
    <2> SUFFICES ASSUME NEW p \in Pages, Settled(p)', free_count'[p] = 0 PROVE prev'[p] = Null
        OBVIOUS
    <2>1. p \notin Listed'
        BY DEF Listed
    <2>2. p # q /\ Settled(p) /\ free_count[p] = 0
        BY <2>1 DEF Listed, Settled
    <2>3. p # plist
        BY <2>2, NullAssumption DEF ListInv, ListHead, ListLinks, ListFull, Listed
    <2> QED BY <1>2, <2>2, <2>3 DEF ListInv, ListHead, ListLinks, ListFull, Settled
<1>4. \A p \in Listed' :
          /\ prev'[p] = Null => plist' = p
          /\ next'[p] # Null => next'[p] \in Listed' /\ prev'[next'[p]] = p
          /\ prev'[p] # Null => prev'[p] \in Listed' /\ next'[prev'[p]] = p
    <2> SUFFICES ASSUME NEW p \in Listed'
                 PROVE  /\ prev'[p] = Null => plist' = p
                        /\ next'[p] # Null => next'[p] \in Listed' /\ prev'[next'[p]] = p
                        /\ prev'[p] # Null => prev'[p] \in Listed' /\ next'[prev'[p]] = p
        OBVIOUS
    <2>1. CASE p = q
        BY <1>2, <2>1 DEF ListInv, ListHead, ListLinks, ListFull
    <2>2. CASE p # q
        <3>1. p \in Listed /\ p \in Pages
            BY <2>2 DEF Listed
        <3>2. prev'[p] = Null => plist' = p
            <4>1. CASE p = plist
                BY <1>2, <3>1, <4>1, NullAssumption
            <4>2. CASE p # plist
                BY <1>2, <2>2, <3>1, <4>2 DEF ListInv, ListHead, ListLinks, ListFull
            <4> QED BY <4>1, <4>2
        <3>3. next'[p] # Null => next'[p] \in Listed' /\ prev'[next'[p]] = p
            <4> SUFFICES ASSUME next[p] # Null PROVE next[p] \in Listed' /\ prev'[next[p]] = p
                BY <1>2, <2>2, <3>1
            <4>1. next[p] \in Listed /\ next[p] \in Pages /\ prev[next[p]] = p
                BY <3>1 DEF ListInv, ListHead, ListLinks, ListFull, Listed
            <4>2. next[p] # plist /\ next[p] # q
                BY <3>1, <4>1, NullAssumption DEF ListInv, ListHead, ListLinks, ListFull
            <4> QED BY <1>2, <4>1, <4>2
        <3>4. prev'[p] # Null => prev'[p] \in Listed' /\ next'[prev'[p]] = p
            <4>1. CASE p = plist
                BY <1>2, <3>1, <4>1, NullAssumption
            <4>2. CASE p # plist
                <5>1. prev'[p] = prev[p] /\ prev[p] # Null
                    BY <1>2, <2>2, <3>1, <4>2 DEF ListInv, ListHead, ListLinks, ListFull
                <5>2. prev[p] \in Listed /\ prev[p] \in Pages /\ next[prev[p]] = p
                    BY <3>1, <5>1 DEF ListInv, ListHead, ListLinks, ListFull, Listed
                <5> QED BY <1>2, <5>1, <5>2
            <4> QED BY <4>1, <4>2
        <3> QED BY <3>2, <3>3, <3>4
    <2> QED BY <2>1, <2>2
<1>5. ListEnds'
    <2> SUFFICES ASSUME NEW S \in SUBSET Listed', S # {} PROVE \E p \in S : prev'[p] \notin S
        BY DEF ListEnds
    <2>1. Null \notin S /\ S \subseteq Pages
        BY NullAssumption DEF Listed
    <2>2. CASE q \in S
        <3>1. prev'[q] = Null
            BY <1>2
        <3> QED BY <2>1, <2>2, <3>1
    <2>3. CASE q \notin S
        <3>1. PICK p \in S : prev[p] \notin S
            BY <2>3 DEF ListInv, ListEnds
        <3>2. prev'[p] \in {prev[p], q}
            BY <1>2, <2>1, <2>3, NullAssumption
        <3> QED BY <2>3, <3>1, <3>2
    <2> QED BY <2>2, <2>3
<1> QED BY <1>2, <1>3, <1>4, <1>5 DEF ListInv, ListHead, ListLinks, ListFull, Settled

LEMMA FreeRelistsInv == ASSUME Inv, NEW c \in CPUs, NEW o \in Objects, FreeRelists(c, o) PROVE Inv'
<1> USE DEF Inv
<1> DEFINE q == o[1]
<1>1. /\ PutObject(o) /\ Goto(c, "idle", "sub") /\ free_count[q] = 0 /\ PushPage(q)
      /\ UNCHANGED <<owner, used, obj, page>>
    BY DEF FreeRelists
<1>2. /\ q \in Pages /\ Settled(q)
      /\ free_list' \in [Pages -> SUBSET Objects] /\ free_count' \in [Pages -> 0 .. Cap]
      /\ live' \subseteq Objects /\ pc' \in [CPUs -> PCs] /\ ObjectInv' /\ HandInv'
    <2>1. free_count[o[1]] + 1 # Cap
        BY <1>1, CapAssumption
    <2> QED BY <1>1, <2>1, PutObjectInv
<1>3. q \notin Listed /\ Listed' = Listed \cup {q}
    BY <1>1, <1>2 DEF Listed, Settled, InHand, PutObject, TypeOK
<1>4. \A p \in Pages : p # q /\ Settled(p)' => Settled(p)
    BY <1>1 DEF Settled, InHand
<1>5. prev[q] = Null
    BY <1>1, <1>2 DEF ListInv, ListHead, ListLinks, ListFull, Settled
<1>6. prev = [prev EXCEPT ![q] = Null]
    BY <1>2, <1>5 DEF TypeOK
<1>7. plist' = q /\ next' = [next EXCEPT ![q] = plist] /\ prev' = Set([prev EXCEPT ![q] = Null], plist, q)
    BY <1>1, <1>6 DEF PushPage
<1>8. ListInv' /\ next' \in [Pages -> Pages \cup {Null}] /\ prev' \in [Pages -> Pages \cup {Null}]
    BY <1>2, <1>3, <1>4, <1>7, PushInv
<1>9. TypeOK'
    BY <1>1, <1>2, <1>7, <1>8 DEF TypeOK
<1> QED BY <1>2, <1>8, <1>9

LEMMA FillPageInv == ASSUME Inv, NEW c \in CPUs, FillPage(c) PROVE Inv'
<1> USE DEF Inv
<1> DEFINE q == page[c]
           o == <<q, 1>>
<1>1. /\ pc[c] = "fill" /\ pc' = [pc EXCEPT ![c] = "add"]
      /\ free_list' = [free_list EXCEPT ![q] = {q} \X (2 .. Cap)]
      /\ free_count' = [free_count EXCEPT ![q] = Cap - 1]
      /\ PushNewPage(q)
      /\ obj' = [obj EXCEPT ![c] = o] /\ page' = [page EXCEPT ![c] = Null]
      /\ UNCHANGED <<owner, used, live>>
    BY DEF FillPage, Goto
<1>2. q \in Pages /\ owner[q] = "slab" /\ InHand(q) /\ obj[c] = NoObject /\ \A d \in CPUs : d # c => page[d] # q
    BY <1>1, NullAssumption DEF HandInv, TypeOK, InHand, OwnerOf
<1>3. /\ o \in Objects /\ o \in ObjectsOf(q) /\ o # NoObject /\ o[1] = q
      /\ {q} \X (2 .. Cap) = ObjectsOf(q) \ {o} /\ {q} \X (2 .. Cap) \subseteq Objects
    BY <1>2, CapAssumption, NullAssumption DEF Objects, ObjectsOf, NoObject
<1>4. \A x \in ObjectsOf(q) : x \notin live /\ ~Outgoing(x)
    BY <1>2, ObjectsOfPage DEF ObjectInv
<1>5. \A p \in Pages : InHand(p)' <=> InHand(p) /\ p # q
    BY <1>1, <1>2, NullAssumption DEF InHand, TypeOK
<1>6. \A p \in Pages : Settled(p)' <=> Settled(p) \/ p = q
    BY <1>1, <1>2, <1>5 DEF Settled
<1>7. Cap - 1 \in 0 .. Cap /\ Cap - 1 # 0 /\ Cap - 1 < Cap
    BY CapAssumption
<1>8. free_list' \in [Pages -> SUBSET Objects] /\ free_count' \in [Pages -> 0 .. Cap]
    BY <1>1, <1>2, <1>3, <1>7 DEF TypeOK
<1>9. free_count'[q] = Cap - 1 /\ free_list'[q] = {q} \X (2 .. Cap)
    BY <1>1, <1>2 DEF TypeOK
<1>10. \A p \in Pages : p # q => free_count'[p] = free_count[p] /\ free_list'[p] = free_list[p]
    BY <1>1 DEF TypeOK
<1>11. q \notin Listed /\ Listed' = Listed \cup {q}
    <2>1. q \notin Listed
        BY <1>2 DEF Listed
    <2>2. \A p \in Pages : p \in Listed' <=> p \in Listed \/ p = q
        BY <1>6, <1>7, <1>9, <1>10 DEF Listed, Settled
    <2> QED BY <1>2, <2>1, <2>2 DEF Listed
<1>12. plist' = q /\ next' = [next EXCEPT ![q] = plist] /\ prev' = Set([prev EXCEPT ![q] = Null], plist, q)
    BY <1>1 DEF PushNewPage
<1>13. ListInv' /\ next' \in [Pages -> Pages \cup {Null}] /\ prev' \in [Pages -> Pages \cup {Null}]
    BY <1>2, <1>6, <1>11, <1>12, PushInv
<1>14. TypeOK'
    BY <1>1, <1>2, <1>3, <1>8, <1>12, <1>13 DEF TypeOK, PCs
<1>15. \A x \in Objects : Outgoing(x)' <=> Outgoing(x) \/ x = o
    BY <1>1, <1>2, <1>3, ObjectPage DEF Outgoing, TypeOK
<1>16. ObjectInv'
    <2>1. \A x \in Objects : x \in live' \/ Outgoing(x)' => Settled(x[1])'
        BY <1>1, <1>2, <1>3, <1>6, <1>15, ObjectPage DEF ObjectInv, Settled
    <2>2. \A p \in Pages : Settled(p)' => free_list'[p] = {x \in ObjectsOf(p) : x \notin live' /\ ~Outgoing(x)'}
        <3> SUFFICES ASSUME NEW p \in Pages, Settled(p)'
                     PROVE  free_list'[p] = {x \in ObjectsOf(p) : x \notin live /\ ~Outgoing(x)'}
            BY <1>1
        <3>1. \A x \in ObjectsOf(p) : Outgoing(x)' <=> Outgoing(x) \/ x = o
            BY <1>15, ObjectsOfPage
        <3>2. CASE p = q
            BY <1>3, <1>4, <1>9, <3>1, <3>2
        <3>3. CASE p # q
            <4>1. free_list[p] = {x \in ObjectsOf(p) : x \notin live /\ ~Outgoing(x)}
                BY <1>6, <3>3 DEF ObjectInv, Settled
            <4>2. o \notin ObjectsOf(p)
                BY <1>3, <3>3, ObjectsOfPage
            <4> QED BY <1>10, <3>1, <3>3, <4>1, <4>2
        <3> QED BY <3>2, <3>3
    <2>3. \A x \in live' : ~Outgoing(x)'
        BY <1>1, <1>3, <1>4, <1>15 DEF ObjectInv, TypeOK
    <2>4. \A d, e \in CPUs : obj'[d] # NoObject /\ obj'[d] = obj'[e] => d = e
        BY <1>1, <1>3, <1>4 DEF ObjectInv, Outgoing, TypeOK
    <2> QED BY <2>1, <2>2, <2>3, <2>4 DEF ObjectInv, Settled
<1>17. HandInv'
    <2>1. \A d \in CPUs : /\ page'[d] # Null <=> pc'[d] \in {"fill", "free_page", "add_large"}
                          /\ obj'[d] # NoObject <=> pc'[d] = "add"
        BY <1>1, <1>3 DEF HandInv, TypeOK
    <2>2. \A d \in CPUs : page'[d] # Null => owner'[page'[d]] = OwnerOf(pc'[d])
        BY <1>1 DEF HandInv, TypeOK
    <2>3. \A d, e \in CPUs : page'[d] # Null /\ page'[d] = page'[e] => d = e
        BY <1>1 DEF HandInv, TypeOK
    <2>4. \A p \in Pages : Settled(p)' => free_count'[p] = Cardinality(free_list'[p]) /\ free_count'[p] < Cap
        <3> SUFFICES ASSUME NEW p \in Pages, Settled(p)'
                     PROVE  free_count'[p] = Cardinality(free_list'[p]) /\ free_count'[p] < Cap
            OBVIOUS
        <3>1. CASE p = q
            BY <1>7, <1>9, <3>1, PageObjects
        <3>2. CASE p # q
            BY <1>6, <1>10, <3>2, SettledPage
        <3> QED BY <3>1, <3>2
    <2> QED BY <2>1, <2>2, <2>3, <2>4 DEF HandInv, Settled
<1> QED BY <1>13, <1>14, <1>16, <1>17

\* A listed page leaves the list from wherever it is.
LEMMA UnlinkInv ==
    ASSUME TypeOK, ListInv, NEW q \in Listed, UnlinkPage(q),
           Listed' = Listed \ {q},
           \A p \in Pages : Settled(p)' => p # q /\ Settled(p)
    PROVE  /\ ListInv'
           /\ plist' \in Pages \cup {Null}
           /\ next' \in [Pages -> Pages \cup {Null}] /\ prev' \in [Pages -> Pages \cup {Null}]
<1> DEFINE a == prev[q]
           b == next[q]
<1>1. q \in Pages /\ q # Null /\ a \in Pages \cup {Null} /\ b \in Pages \cup {Null}
    BY NullAssumption DEF Listed, TypeOK
<1>2. /\ a = Null => plist = q
      /\ a # Null => a \in Listed /\ next[a] = q /\ plist # q
      /\ b # Null => b \in Listed /\ prev[b] = q
    <2>1. ListHead /\ ListLinks
        BY DEF ListInv
    <2>2. /\ a = Null => plist = q
          /\ a # Null => a \in Listed /\ next[a] = q
          /\ b # Null => b \in Listed /\ prev[b] = q
        BY <2>1 DEF ListLinks
    <2>3. a # Null => plist # q
        BY <1>1, <2>1 DEF ListHead
    <2> QED BY <2>2, <2>3
<1>3. /\ plist' \in Pages \cup {Null}
      /\ next' \in [Pages -> Pages \cup {Null}] /\ prev' \in [Pages -> Pages \cup {Null}]
      /\ plist' = IF a = Null THEN b ELSE plist
      /\ a # Null => next'[a] = b
      /\ b # Null => prev'[b] = a
      /\ \A p \in Pages : p # a => next'[p] = next[p]
      /\ \A p \in Pages : p # b => prev'[p] = prev[p]
    BY <1>1 DEF UnlinkPage, Set, TypeOK
<1>4. \A p \in Pages : Settled(p)' /\ free_count'[p] = 0 => prev'[p] = Null
    <2> SUFFICES ASSUME NEW p \in Pages, Settled(p)', free_count'[p] = 0 PROVE prev'[p] = Null
        OBVIOUS
    <2>1. Settled(p) /\ p \notin Listed' /\ p # q
        BY DEF Listed
    <2>2. p \notin Listed
        BY <2>1
    <2>3. prev[p] = Null
        BY <2>1, <2>2 DEF ListInv, ListHead, ListLinks, ListFull, Listed, Settled
    <2> QED BY <1>2, <1>3, <2>2, <2>3, NullAssumption
<1>5. plist' # Null => plist' \in Listed' /\ prev'[plist'] = Null
    <2>1. CASE a = Null
        <3>1. plist = q /\ plist' = b
            BY <1>2, <1>3, <2>1
        <3>2. b # Null => b # q
            BY <1>1, <1>2, <2>1
        <3> QED BY <1>2, <1>3, <2>1, <3>1, <3>2
    <2>2. CASE a # Null
        <3>1. plist # q /\ plist' = plist
            BY <1>2, <1>3, <2>2
        <3>2. plist # Null => plist \in Listed /\ plist \in Pages /\ prev[plist] = Null
            BY DEF ListInv, ListHead, ListLinks, ListFull, Listed
        <3>3. plist # Null => plist # b
            BY <1>1, <1>2, <3>2
        <3> QED BY <1>3, <3>1, <3>2, <3>3
    <2> QED BY <2>1, <2>2
<1>6. \A p \in Listed' :
          /\ prev'[p] = Null => plist' = p
          /\ next'[p] # Null => next'[p] \in Listed' /\ prev'[next'[p]] = p
          /\ prev'[p] # Null => prev'[p] \in Listed' /\ next'[prev'[p]] = p
    <2> SUFFICES ASSUME NEW p \in Listed, p # q
                 PROVE  /\ prev'[p] = Null => plist' = p
                        /\ next'[p] # Null => next'[p] \in Listed' /\ prev'[next'[p]] = p
                        /\ prev'[p] # Null => prev'[p] \in Listed' /\ next'[prev'[p]] = p
        OBVIOUS
    <2>1. /\ p \in Pages /\ p # Null
          /\ prev[p] = Null => plist = p
          /\ next[p] # Null => next[p] \in Listed /\ next[p] \in Pages /\ prev[next[p]] = p
          /\ prev[p] # Null => prev[p] \in Listed /\ prev[p] \in Pages /\ next[prev[p]] = p
        <3>1. Listed \subseteq Pages
            BY DEF Listed
        <3>2. ListLinks
            BY DEF ListInv
        <3> QED BY <3>1, <3>2, NullAssumption DEF ListLinks
    <2>2. prev'[p] = Null => plist' = p
        <3>1. CASE p = b
            BY <1>3, <2>1, <3>1
        <3>2. CASE p # b
            <4> SUFFICES ASSUME prev'[p] = Null PROVE plist' = p
                OBVIOUS
            <4>1. plist = p
                BY <1>3, <2>1, <3>2
            <4>2. a # Null
                BY <1>2, <4>1
            <4> QED BY <1>3, <4>1, <4>2
        <3> QED BY <3>1, <3>2
    <2>3. next'[p] # Null => next'[p] \in Listed' /\ prev'[next'[p]] = p
        <3>1. CASE p = a
            <4>1. next'[p] = b
                BY <1>3, <2>1, <3>1
            <4>2. b # Null => b # q
                BY <1>2, <3>1
            <4> QED BY <1>2, <1>3, <3>1, <4>1, <4>2
        <3>2. CASE p # a
            <4> SUFFICES ASSUME next[p] # Null PROVE next[p] \in Listed' /\ prev'[next[p]] = p
                BY <1>3, <2>1, <3>2
            <4>1. next[p] # q /\ next[p] # b
                BY <1>1, <1>2, <2>1, <3>2
            <4> QED BY <1>3, <2>1, <4>1
        <3> QED BY <3>1, <3>2
    <2>4. prev'[p] # Null => prev'[p] \in Listed' /\ next'[prev'[p]] = p
        <3>1. CASE p = b
            <4>1. prev'[p] = a
                BY <1>3, <2>1, <3>1
            <4>2. a # Null => a # q
                BY <1>2, <3>1
            <4> QED BY <1>2, <1>3, <3>1, <4>1, <4>2
        <3>2. CASE p # b
            <4> SUFFICES ASSUME prev[p] # Null PROVE prev[p] \in Listed' /\ next'[prev[p]] = p
                BY <1>3, <2>1, <3>2
            <4>1. prev[p] # q /\ prev[p] # a
                BY <1>1, <1>2, <2>1, <3>2
            <4> QED BY <1>3, <2>1, <4>1
        <3> QED BY <3>1, <3>2
    <2> QED BY <2>2, <2>3, <2>4
<1>7. ListEnds'
    <2> SUFFICES ASSUME NEW S \in SUBSET Listed', S # {} PROVE \E p \in S : prev'[p] \notin S
        BY DEF ListEnds
    <2>1. Null \notin S /\ S \subseteq Pages /\ S \cup {q} \in SUBSET Listed /\ S \in SUBSET Listed
        BY NullAssumption DEF Listed
    <2>2. CASE a \in S
        <3>1. PICK p \in S \cup {q} : prev[p] \notin S \cup {q}
            BY <2>1 DEF ListInv, ListEnds
        <3>2. p \in S /\ p # b
            BY <1>2, <2>1, <2>2, <3>1
        <3> QED BY <1>3, <2>1, <3>1, <3>2
    <2>3. CASE a \notin S
        <3>1. PICK p \in S : prev[p] \notin S
            BY <2>1 DEF ListInv, ListEnds
        <3>2. prev'[p] \in {prev[p], a}
            BY <1>3, <2>1, <3>1
        <3> QED BY <2>3, <3>1, <3>2
    <2> QED BY <2>2, <2>3
<1> QED BY <1>3, <1>4, <1>5, <1>6, <1>7 DEF ListInv, ListHead, ListLinks, ListFull, Settled

LEMMA FreeEmptiesInv == ASSUME Inv, NEW c \in CPUs, NEW o \in Objects, FreeEmpties(c, o) PROVE Inv'
<1> USE DEF Inv
<1> DEFINE q == o[1]
<1>1. /\ o \in live /\ live' = live \ {o}
      /\ free_list' = [free_list EXCEPT ![q] = @ \cup {o}]
      /\ free_count' = [free_count EXCEPT ![q] = @ + 1]
      /\ pc[c] = "idle" /\ pc' = [pc EXCEPT ![c] = "free_page"]
      /\ free_count[q] + 1 = Cap /\ UnlinkPage(q)
      /\ page' = [page EXCEPT ![c] = q] /\ UNCHANGED <<owner, used, obj>>
    BY DEF FreeEmpties, PutObject, Goto
<1>2. q \in Pages /\ q # Null /\ Settled(q) /\ o \in ObjectsOf(q) /\ o \notin free_list[q]
    BY <1>1, LiveObject, ObjectPage, NullAssumption
<1>3. free_list[q] \cup {o} = ObjectsOf(q)
    BY <1>1, <1>2, CountPut
<1>4. free_count[q] # 0 /\ q \in Listed
    BY <1>1, <1>2, CapAssumption DEF Listed, Settled
<1>5. page[c] = Null /\ \A d \in CPUs : page[d] # q
    BY <1>1, <1>2 DEF HandInv, Settled, InHand
<1>6. \A p \in Pages : InHand(p)' <=> InHand(p) \/ p = q
    BY <1>1, <1>2, <1>5, NullAssumption DEF InHand, TypeOK
<1>7. \A p \in Pages : Settled(p)' <=> Settled(p) /\ p # q
    BY <1>1, <1>6 DEF Settled
<1>8. \A p \in Pages : p # q => free_count'[p] = free_count[p] /\ free_list'[p] = free_list[p]
    BY <1>1 DEF TypeOK
<1>9. Listed' = Listed \ {q}
    BY <1>7, <1>8 DEF Listed, Settled
<1>10. /\ ListInv' /\ plist' \in Pages \cup {Null}
       /\ next' \in [Pages -> Pages \cup {Null}] /\ prev' \in [Pages -> Pages \cup {Null}]
    BY <1>1, <1>4, <1>7, <1>9, UnlinkInv
<1>11. TypeOK'
    <2>1. free_count[q] + 1 \in 0 .. Cap
        BY <1>1, CapAssumption
    <2>2. free_list' \in [Pages -> SUBSET Objects] /\ free_count' \in [Pages -> 0 .. Cap]
        BY <1>1, <2>1 DEF TypeOK
    <2> QED BY <1>1, <1>2, <1>10, <2>2 DEF TypeOK, PCs
<1>12. \A x : Outgoing(x)' <=> Outgoing(x)
    BY <1>1 DEF Outgoing
<1>13. ObjectInv'
    <2>1. \A x \in ObjectsOf(q) : x # o => x \notin live /\ ~Outgoing(x)
        BY <1>2, <1>3 DEF ObjectInv, Settled
    <2>2. \A x \in Objects : x \in live' \/ Outgoing(x)' => Settled(x[1])'
        <3> SUFFICES ASSUME NEW x \in Objects, x \in live' \/ Outgoing(x)' PROVE Settled(x[1])'
            OBVIOUS
        <3>1. x # o
            BY <1>1, <1>12 DEF ObjectInv
        <3>2. x[1] \in Pages /\ x \in ObjectsOf(x[1])
            BY ObjectPage
        <3>3. x[1] # q
            BY <1>1, <1>12, <2>1, <3>1, <3>2
        <3>4. Settled(x[1])
            BY <1>1, <1>12 DEF ObjectInv, Settled
        <3> QED BY <1>7, <3>2, <3>3, <3>4
    <2>3. \A p \in Pages : Settled(p)' => free_list'[p] = {x \in ObjectsOf(p) : x \notin live' /\ ~Outgoing(x)'}
        <3> SUFFICES ASSUME NEW p \in Pages, Settled(p), p # q
                     PROVE  free_list'[p] = {x \in ObjectsOf(p) : x \notin live' /\ ~Outgoing(x)}
            BY <1>7, <1>12
        <3>1. free_list[p] = {x \in ObjectsOf(p) : x \notin live /\ ~Outgoing(x)}
            BY DEF ObjectInv, Settled
        <3>2. o \notin ObjectsOf(p)
            BY ObjectsOfPage
        <3> QED BY <1>1, <1>8, <3>1, <3>2
    <2>4. \A x \in live' : ~Outgoing(x)'
        BY <1>1, <1>12 DEF ObjectInv
    <2> QED BY <1>1, <2>2, <2>3, <2>4 DEF ObjectInv, Settled
<1>14. HandInv'
    <2>1. \A d \in CPUs : /\ page'[d] # Null <=> pc'[d] \in {"fill", "free_page", "add_large"}
                          /\ obj'[d] # NoObject <=> pc'[d] = "add"
        BY <1>1, <1>2 DEF HandInv, TypeOK
    <2>2. \A d \in CPUs : page'[d] # Null => owner'[page'[d]] = OwnerOf(pc'[d])
        BY <1>1, <1>2 DEF HandInv, TypeOK, Settled, OwnerOf
    <2>3. \A d, e \in CPUs : page'[d] # Null /\ page'[d] = page'[e] => d = e
        BY <1>1, <1>5 DEF HandInv, TypeOK
    <2>4. \A p \in Pages : Settled(p)' => free_count'[p] = Cardinality(free_list'[p]) /\ free_count'[p] < Cap
        BY <1>7, <1>8 DEF HandInv, Settled
    <2> QED BY <2>1, <2>2, <2>3, <2>4 DEF HandInv, Settled
<1> QED BY <1>10, <1>11, <1>13, <1>14
-----------------------------------------------------------------------------
LEMMA NextInv == Inv /\ [Next]_vars => Inv'
<1> SUFFICES ASSUME Inv, [Next]_vars PROVE Inv'
    OBVIOUS
<1>1. ASSUME UNCHANGED vars PROVE Inv'
    <2>1. TypeOK'
        BY <1>1 DEF vars, Inv, TypeOK
    <2>2. /\ Listed' = Listed
          /\ \A p : InHand(p)' <=> InHand(p)
          /\ \A o : Outgoing(o)' <=> Outgoing(o)
        BY <1>1 DEF vars, Listed, InHand, Outgoing
    <2>3. ListInv'
        BY <1>1, <2>2 DEF vars, Inv, ListInv, ListHead, ListLinks, ListFull, ListEnds
    <2>4. ObjectInv'
        BY <1>1, <2>2 DEF vars, Inv, ObjectInv
    <2>5. HandInv'
        BY <1>1, <2>2 DEF vars, Inv, HandInv
    <2> QED BY <2>1, <2>3, <2>4, <2>5 DEF Inv
<1>2. CASE Next
    <2> PICK c \in CPUs :
           \/ AllocFast(c) \/ AllocLast(c) \/ AllocNone(c) \/ NewPage(c) \/ OutOfMemory(c) \/ FillPage(c)
           \/ AddUsed(c) \/ FreePage(c) \/ SubUsed(c)
           \/ AllocLarge(c) \/ AllocLargeNull(c) \/ AddLarge(c) \/ FreeLarge(c) \/ SubLarge(c)
           \/ \E o \in Objects : FreeKeeps(c, o) \/ FreeRelists(c, o) \/ FreeEmpties(c, o)
        BY <1>2 DEF Next
    <2>1. CASE AllocFast(c)
        BY <2>1, AllocFastInv
    <2>2. CASE AllocLast(c)
        BY <2>2, AllocLastInv
    <2>3. CASE AllocNone(c) \/ OutOfMemory(c) \/ SubUsed(c) \/ SubLarge(c)
        BY <2>3, AllocNoneInv
    <2>4. CASE NewPage(c)
        BY <2>4, NewPageInv
    <2>5. CASE FillPage(c)
        BY <2>5, FillPageInv
    <2>6. CASE AddUsed(c)
        BY <2>6, AddUsedInv
    <2>7. CASE FreePage(c)
        BY <2>7, FreePageInv
    <2>8. CASE AllocLarge(c) \/ AddLarge(c) \/ FreeLarge(c)
        BY <2>8, AllocLargeInv, AddLargeInv, FreeLargeInv
    <2>10. CASE AllocLargeNull(c)
        BY <1>1, <2>10 DEF AllocLargeNull
    <2>9. CASE \E o \in Objects : FreeKeeps(c, o) \/ FreeRelists(c, o) \/ FreeEmpties(c, o)
        BY <2>9, FreeKeepsInv, FreeRelistsInv, FreeEmptiesInv
    <2> QED BY <2>1, <2>2, <2>3, <2>4, <2>5, <2>6, <2>7, <2>8, <2>9, <2>10
<1> QED BY <1>1, <1>2

\* Types, lists, objects and the pages on their way are right in every state.
THEOREM InvHolds == Spec => []Inv
BY InitInv, NextInv, PTL DEF Spec

\* The list of alloc_impl and free_impl never leads to a page that is full or
\* has been given back.
THEOREM ListHolds == Spec => []ListInv
BY InvHolds, PTL DEF Inv

\* Every object is free, on its way to one caller, or at one caller; a page is
\* given back only when no caller has an object of it.
THEOREM ObjectsHold == Spec => []ObjectInv
BY InvHolds, PTL DEF Inv

\* The object new_slab hands out is an object of the new page.
LEMMA FirstObject ==
    ASSUME NEW p \in Pages
    PROVE  <<p, 1>> \in Objects /\ <<p, 1>>[1] = p
BY CapAssumption DEF Objects

\* SlabAllocator implements the abstract heap: alloc_impl never takes an object
\* that somebody has or is being given.
THEOREM HeapImplemented == Spec => ImplementsHeap
<1>1. Init => Heap!Init
    BY DEF Init, Heap!Init
<1>2. Inv /\ [Next]_vars => [Heap!Next]_(Heap!vars)
    <2> SUFFICES ASSUME Inv, [Next]_vars PROVE [Heap!Next]_(Heap!vars)
        OBVIOUS
    <2>1. CASE UNCHANGED vars
        BY <2>1 DEF vars, Heap!vars
    <2>2. CASE Next
        <3> PICK c \in CPUs :
               \/ AllocFast(c) \/ AllocLast(c) \/ AllocNone(c) \/ NewPage(c) \/ OutOfMemory(c) \/ FillPage(c)
               \/ AddUsed(c) \/ FreePage(c) \/ SubUsed(c)
               \/ AllocLarge(c) \/ AllocLargeNull(c) \/ AddLarge(c) \/ FreeLarge(c) \/ SubLarge(c)
               \/ \E o \in Objects : FreeKeeps(c, o) \/ FreeRelists(c, o) \/ FreeEmpties(c, o)
            BY <2>2 DEF Next
        <3>1. CASE AllocFast(c) \/ AllocLast(c)
            <4>1. plist \in Pages /\ Settled(plist) /\ TakeObject(c) /\ UNCHANGED live
                BY <3>1 DEF Inv, ListInv, ListHead, ListLinks, ListFull, Listed, Settled, AllocFast, AllocLast
            <4>2. PICK o \in free_list[plist] : obj' = [obj EXCEPT ![c] = o]
                BY <4>1 DEF TakeObject
            <4>3. o \in Objects /\ o \notin live /\ ~Outgoing(o)
                <5>1. owner[plist] = "slab" /\ ~InHand(plist)
                    BY <4>1 DEF Settled
                <5>2. free_list[plist] = {x \in ObjectsOf(plist) : x \notin live /\ ~Outgoing(x)}
                    BY <4>1, <5>1 DEF Inv, ObjectInv
                <5>3. o \in ObjectsOf(plist) /\ o \notin live /\ ~Outgoing(o)
                    BY <5>2
                <5> QED BY <4>1, <5>3, ObjectsOfPage
            <4>4. obj[c] = NoObject
                BY <4>1 DEF Inv, HandInv, TakeObject, Goto
            <4>5. Heap!Take(c, o)
                BY <4>1, <4>2, <4>3, <4>4 DEF Heap!Take, Outgoing
            <4> QED BY <4>3, <4>5 DEF Heap!Next
        <3>2. CASE FillPage(c)
            <4> DEFINE o == <<page[c], 1>>
            <4>1. pc[c] = "fill" /\ obj' = [obj EXCEPT ![c] = o] /\ UNCHANGED live
                BY <3>2 DEF FillPage, Goto
            <4>2. page[c] \in Pages /\ InHand(page[c]) /\ obj[c] = NoObject
                BY <4>1 DEF Inv, HandInv, TypeOK, InHand
            <4>3. o \in Objects /\ o[1] = page[c]
                BY <4>2, FirstObject
            <4>4. o \notin live /\ ~Outgoing(o)
                <5>1. o \in live \/ Outgoing(o) => ~InHand(o[1])
                    BY <4>3 DEF Inv, ObjectInv
                <5> QED BY <4>2, <4>3, <5>1
            <4>5. Heap!Take(c, o)
                BY <4>1, <4>2, <4>4 DEF Heap!Take, Outgoing
            <4> QED BY <4>3, <4>5 DEF Heap!Next
        <3>3. CASE AddUsed(c)
            <4>1. Heap!Return(c)
                BY <3>3 DEF AddUsed, Goto, Heap!Return, Inv, HandInv
            <4> QED BY <4>1 DEF Heap!Next
        <3>4. CASE \E o \in Objects : FreeKeeps(c, o) \/ FreeRelists(c, o) \/ FreeEmpties(c, o)
            <4>1. \E o \in Objects : Heap!Free(o)
                BY <3>4 DEF FreeKeeps, FreeRelists, FreeEmpties, PutObject, Heap!Free
            <4> QED BY <4>1 DEF Heap!Next
        <3>5. CASE AllocNone(c) \/ NewPage(c) \/ OutOfMemory(c) \/ FreePage(c) \/ SubUsed(c)
            BY <3>5 DEF AllocNone, NewPage, OutOfMemory, FreePage, SubUsed, Heap!vars
        <3>6. CASE AllocLarge(c) \/ AllocLargeNull(c) \/ AddLarge(c) \/ FreeLarge(c) \/ SubLarge(c)
            BY <3>6 DEF AllocLarge, AllocLargeNull, AddLarge, FreeLarge, SubLarge, vars, Heap!vars
        <3> QED BY <3>1, <3>2, <3>3, <3>4, <3>5, <3>6
    <2> QED BY <2>1, <2>2
<1> QED BY <1>1, <1>2, InvHolds, PTL DEF Spec, ImplementsHeap, Heap!Spec

\* A core joins the ones that are freeing, or leaves them, by its own steps.
LEMMA FreeingMoves ==
    ASSUME Inv, NEW c \in CPUs, NEW to, pc' = [pc EXCEPT ![c] = to]
    PROVE  /\ Freeing' = IF to \in {"free_page", "sub"} THEN Freeing \cup {c} ELSE Freeing \ {c}
           /\ FreeingLarge' = IF to = "sub_large" THEN FreeingLarge \cup {c} ELSE FreeingLarge \ {c}
BY DEF Inv, TypeOK, Freeing, FreeingLarge

\* A step of a core that deals with slab pages leaves the large ones alone.
LEMMA LargeKept ==
    ASSUME Inv, NEW c \in CPUs, NEW q \in Pages, owner[q] # "large", pc[c] # "add_large",
           owner' = owner \/ \E x \in {"free", "slab"} : owner' = [owner EXCEPT ![q] = x],
           page' = page \/ \E y \in {q, Null} : page' = [page EXCEPT ![c] = y]
    PROVE  Large' = Large
<1>1. \A p \in Pages : owner'[p] = "large" <=> owner[p] = "large"
    BY DEF Inv, TypeOK
<1>2. ASSUME NEW p \in Pages, owner[p] = "large", NEW d \in CPUs PROVE page'[d] = p <=> page[d] = p
    <2>1. p # q /\ p # Null
        BY <1>2, NullAssumption
    <2>2. CASE d = c
        <3>1. page[c] # p
            BY <1>2, <2>1 DEF Inv, HandInv, OwnerOf
        <3> QED BY <2>1, <2>2, <3>1 DEF Inv, TypeOK
    <2>3. CASE d # c
        BY <2>3 DEF Inv, TypeOK
    <2> QED BY <2>2, <2>3
<1> QED BY <1>1, <1>2 DEF Large

\* What callers have (A) and what is being freed (B), of small or large objects:
\* nothing happens, an object is handed out, one is freed, a free is through.
Moves(A, B, A1, B1, k) ==
    \/ k = 0 /\ A1 = A /\ B1 = B
    \/ k = 1 /\ B1 = B /\ \E a : a \notin A /\ A1 = A \cup {a}
    \/ k = 0 /\ \E a \in A : \E b : b \notin B /\ A1 = A \ {a} /\ B1 = B \cup {b}
    \/ k = -1 /\ A1 = A /\ \E b \in B : B1 = B \ {b}

\* By which the number of both together changes by k.
LEMMA Counted ==
    ASSUME NEW A, NEW B, NEW A1, NEW B1, NEW k, Moves(A, B, A1, B1, k), IsFiniteSet(A), IsFiniteSet(B)
    PROVE  /\ IsFiniteSet(A1) /\ k \in {-1, 0, 1}
           /\ Cardinality(A) \in Nat /\ Cardinality(B) \in Nat
           /\ Cardinality(A1) + Cardinality(B1) = Cardinality(A) + Cardinality(B) + k
<1>1. Cardinality(A) \in Nat /\ Cardinality(B) \in Nat
    BY FS_CardinalityType
<1>2. CASE k = 0 /\ A1 = A /\ B1 = B
    BY <1>1, <1>2
<1>3. \A a : a \notin A => IsFiniteSet(A \cup {a}) /\ Cardinality(A \cup {a}) = Cardinality(A) + 1
    BY FS_AddElement
<1>4. \A a \in A : IsFiniteSet(A \ {a}) /\ Cardinality(A \ {a}) = Cardinality(A) - 1
    BY FS_RemoveElement
<1>5. /\ \A b : b \notin B => Cardinality(B \cup {b}) = Cardinality(B) + 1
      /\ \A b \in B : Cardinality(B \ {b}) = Cardinality(B) - 1
    BY FS_AddElement, FS_RemoveElement
<1>6. CASE k = 1 /\ B1 = B /\ \E a : a \notin A /\ A1 = A \cup {a}
    <2>1. IsFiniteSet(A1) /\ Cardinality(A1) = Cardinality(A) + 1
        BY <1>3, <1>6
    <2> QED BY <1>1, <1>6, <2>1
<1>7. CASE k = 0 /\ \E a \in A : \E b : b \notin B /\ A1 = A \ {a} /\ B1 = B \cup {b}
    <2>1. IsFiniteSet(A1) /\ Cardinality(A1) = Cardinality(A) - 1 /\ Cardinality(B1) = Cardinality(B) + 1
        BY <1>4, <1>5, <1>7
    <2> QED BY <1>1, <1>7, <2>1
<1>8. CASE k = -1 /\ A1 = A /\ \E b \in B : B1 = B \ {b}
    <2>1. Cardinality(B1) = Cardinality(B) - 1
        BY <1>5, <1>8
    <2> QED BY <1>1, <1>8, <2>1
<1> QED BY <1>2, <1>6, <1>7, <1>8 DEF Moves

\* What each step does to what UsedExact relates.
LEMMA UsedStep ==
    ASSUME Inv, [Next]_vars
    PROVE  \E j, k \in {-1, 0, 1} :
              /\ Moves(live, Freeing, live', Freeing', j)
              /\ Moves(Large, FreeingLarge, Large', FreeingLarge', k)
              /\ used' = used + j + LargeSize * k
<1> DEFINE Small(j) == Moves(live, Freeing, live', Freeing', j)
           Big(k) == Moves(Large, FreeingLarge, Large', FreeingLarge', k)
<1>0. used \in Int /\ LargeSize \in Nat
    BY LargeAssumption DEF Inv, TypeOK
<1>1. ASSUME UNCHANGED <<used, live, Freeing, Large, FreeingLarge>>
      PROVE  Small(0) /\ Big(0) /\ used' = used + 0 + LargeSize * 0
    BY <1>0, <1>1 DEF Moves
<1>2. ASSUME UNCHANGED vars PROVE UNCHANGED <<used, live, Freeing, Large, FreeingLarge>>
    BY <1>2 DEF vars, Freeing, Large, FreeingLarge
<1>3. CASE Next
    <2> PICK c \in CPUs :
           \/ AllocFast(c) \/ AllocLast(c) \/ AllocNone(c) \/ NewPage(c) \/ OutOfMemory(c) \/ FillPage(c)
           \/ AddUsed(c) \/ FreePage(c) \/ SubUsed(c)
           \/ AllocLarge(c) \/ AllocLargeNull(c) \/ AddLarge(c) \/ FreeLarge(c) \/ SubLarge(c)
           \/ \E o \in Objects : FreeKeeps(c, o) \/ FreeRelists(c, o) \/ FreeEmpties(c, o)
        BY <1>3 DEF Next
    <2>1. CASE AllocFast(c) \/ AllocLast(c) \/ AllocNone(c) \/ NewPage(c) \/ OutOfMemory(c) \/ FillPage(c)
        <3>1. /\ UNCHANGED <<used, live>> /\ pc[c] \in {"idle", "new", "fill"}
              /\ \E to \in {"add", "new", "fill", "panicked"} : pc' = [pc EXCEPT ![c] = to]
            <4>1. CASE AllocFast(c) \/ AllocLast(c)
                BY <4>1 DEF AllocFast, AllocLast, TakeObject, Goto
            <4>2. CASE AllocNone(c) \/ NewPage(c) \/ OutOfMemory(c)
                BY <4>2 DEF AllocNone, NewPage, OutOfMemory, Goto
            <4>3. CASE FillPage(c)
                BY <4>3 DEF FillPage, Goto
            <4> QED BY <2>1, <4>1, <4>2, <4>3
        <3>2. c \notin Freeing /\ c \notin FreeingLarge
            BY <3>1 DEF Freeing, FreeingLarge
        <3>3. Freeing' = Freeing \ {c} /\ FreeingLarge' = FreeingLarge \ {c}
            BY <3>1, FreeingMoves, Zenon
        <3>4. UNCHANGED <<Freeing, FreeingLarge>>
            BY <3>2, <3>3
        <3>5. UNCHANGED Large
            <4>1. CASE AllocFast(c) \/ AllocLast(c) \/ AllocNone(c) \/ OutOfMemory(c)
                BY <4>1 DEF AllocFast, AllocLast, AllocNone, OutOfMemory, Large
            <4>2. CASE NewPage(c)
                <5>1. PICK q \in Pages : /\ owner[q] = "free" /\ owner' = [owner EXCEPT ![q] = "slab"]
                                         /\ page' = [page EXCEPT ![c] = q]
                    BY <4>2 DEF NewPage
                <5>2. owner[q] # "large" /\ pc[c] # "add_large"
                    BY <3>1, <5>1
                <5> QED BY <5>1, <5>2, LargeKept
            <4>3. CASE FillPage(c)
                <5>1. pc[c] = "fill" /\ owner' = owner /\ page' = [page EXCEPT ![c] = Null]
                    BY <4>3 DEF FillPage, Goto
                <5>2. page[c] \in Pages /\ owner[page[c]] # "large"
                    BY <5>1 DEF Inv, HandInv, TypeOK, OwnerOf
                <5> QED BY <5>1, <5>2, LargeKept
            <4> QED BY <2>1, <4>1, <4>2, <4>3
        <3> QED BY <1>1, <3>1, <3>4, <3>5
    <2>2. CASE AddUsed(c)
        <3>1. /\ pc[c] = "add" /\ pc' = [pc EXCEPT ![c] = "idle"]
              /\ live' = live \cup {obj[c]} /\ used' = used + 1 /\ UNCHANGED <<owner, page>>
            BY <2>2 DEF AddUsed, Goto
        <3>2. obj[c] \notin live
            BY <3>1 DEF Inv, ObjectInv, Outgoing
        <3>3. UNCHANGED <<Freeing, FreeingLarge>>
            BY <3>1, FreeingMoves DEF Freeing, FreeingLarge
        <3>4. UNCHANGED Large
            BY <3>1 DEF Large
        <3>5. Small(1) /\ Big(0) /\ used' = used + 1 + LargeSize * 0
            BY <1>0, <3>1, <3>2, <3>3, <3>4 DEF Moves
        <3> QED BY <3>5
    <2>3. CASE FreePage(c)
        <3>1. /\ pc[c] = "free_page" /\ pc' = [pc EXCEPT ![c] = "sub"] /\ UNCHANGED <<used, live>>
              /\ owner' = [owner EXCEPT ![page[c]] = "free"] /\ page' = [page EXCEPT ![c] = Null]
            BY <2>3 DEF FreePage, Goto
        <3>2. UNCHANGED <<Freeing, FreeingLarge>>
            BY <3>1, FreeingMoves DEF Freeing, FreeingLarge
        <3>3. page[c] \in Pages /\ owner[page[c]] # "large"
            BY <3>1 DEF Inv, HandInv, TypeOK, OwnerOf
        <3>4. UNCHANGED Large
            BY <3>1, <3>3, LargeKept
        <3> QED BY <1>1, <3>1, <3>2, <3>4
    <2>4. CASE SubUsed(c)
        <3>1. /\ pc[c] = "sub" /\ pc' = [pc EXCEPT ![c] = "idle"] /\ used' = used - 1
              /\ UNCHANGED <<live, owner, page>>
            BY <2>4 DEF SubUsed, Goto
        <3>2. c \in Freeing /\ Freeing' = Freeing \ {c}
            BY <3>1, FreeingMoves, Zenon DEF Freeing
        <3>3. UNCHANGED <<Large, FreeingLarge>>
            BY <3>1, FreeingMoves DEF Large, FreeingLarge
        <3>4. Small(-1) /\ Big(0) /\ used' = used + (-1) + LargeSize * 0
            BY <1>0, <3>1, <3>2, <3>3 DEF Moves
        <3> QED BY <3>4
    <2>5. CASE \E o \in Objects : FreeKeeps(c, o) \/ FreeRelists(c, o) \/ FreeEmpties(c, o)
        <3>1. PICK o \in live :
                 /\ live' = live \ {o} /\ pc[c] = "idle" /\ UNCHANGED <<used, owner>>
                 /\ \E to \in {"free_page", "sub"} : pc' = [pc EXCEPT ![c] = to]
                 /\ page' = page \/ page' = [page EXCEPT ![c] = o[1]]
            BY <2>5 DEF FreeKeeps, FreeRelists, FreeEmpties, PutObject, Goto
        <3>2. c \notin Freeing /\ Freeing' = Freeing \cup {c}
            BY <3>1, FreeingMoves, Zenon DEF Freeing
        <3>3. c \notin FreeingLarge /\ FreeingLarge' = FreeingLarge \ {c}
            BY <3>1, FreeingMoves DEF FreeingLarge
        <3>4. o[1] \in Pages /\ owner[o[1]] # "large"
            BY ObjectPage DEF Inv, ObjectInv, TypeOK
        <3>5. UNCHANGED Large
            BY <3>1, <3>4, LargeKept
        <3>6. UNCHANGED <<Large, FreeingLarge>>
            BY <3>3, <3>5
        <3>7. Small(0) /\ Big(0) /\ used' = used + 0 + LargeSize * 0
            BY <1>0, <3>1, <3>2, <3>6 DEF Moves
        <3> QED BY <3>7
    <2>6. CASE AllocLarge(c)
        <3>1. PICK q \in Pages : /\ owner[q] = "free" /\ owner' = [owner EXCEPT ![q] = "large"]
                                 /\ page' = [page EXCEPT ![c] = q]
            BY <2>6 DEF AllocLarge
        <3>2. pc[c] = "idle" /\ pc' = [pc EXCEPT ![c] = "add_large"] /\ UNCHANGED <<used, live>>
            BY <2>6 DEF AllocLarge, Goto
        <3>3. UNCHANGED <<Freeing, FreeingLarge>>
            BY <3>2, FreeingMoves DEF Freeing, FreeingLarge
        <3>4. page[c] = Null
            BY <3>2 DEF Inv, HandInv
        <3>5. UNCHANGED Large
            BY <3>1, <3>4, NullAssumption DEF Large, Inv, TypeOK
        <3> QED BY <1>1, <3>2, <3>3, <3>5
    <2>7. CASE AllocLargeNull(c)
        BY <1>1, <1>2, <2>7 DEF AllocLargeNull
    <2>8. CASE AddLarge(c)
        <3> DEFINE q == page[c]
        <3>1. /\ pc[c] = "add_large" /\ pc' = [pc EXCEPT ![c] = "idle"] /\ used' = used + LargeSize
              /\ page' = [page EXCEPT ![c] = Null] /\ UNCHANGED <<owner, live>>
            BY <2>8 DEF AddLarge, Goto
        <3>2. UNCHANGED <<Freeing, FreeingLarge>>
            BY <3>1, FreeingMoves DEF Freeing, FreeingLarge
        <3>3. q \in Pages /\ owner[q] = "large" /\ \A d \in CPUs : d # c => page[d] # q
            BY <3>1, NullAssumption DEF Inv, HandInv, TypeOK, OwnerOf
        <3>4. q \notin Large /\ Large' = Large \cup {q}
            BY <3>1, <3>3, NullAssumption DEF Large, Inv, TypeOK
        <3>5. Small(0) /\ Big(1) /\ used' = used + 0 + LargeSize * 1
            BY <1>0, <3>1, <3>2, <3>4 DEF Moves
        <3> QED BY <3>5
    <2>9. CASE FreeLarge(c)
        <3>1. PICK q \in Large : owner' = [owner EXCEPT ![q] = "free"]
            BY <2>9 DEF FreeLarge
        <3>2. pc[c] = "idle" /\ pc' = [pc EXCEPT ![c] = "sub_large"] /\ UNCHANGED <<used, live, page>>
            BY <2>9 DEF FreeLarge, Goto
        <3>3. UNCHANGED Freeing /\ c \notin FreeingLarge /\ FreeingLarge' = FreeingLarge \cup {c}
            BY <3>2, FreeingMoves DEF Freeing, FreeingLarge
        <3>4. Large' = Large \ {q}
            BY <3>1, <3>2 DEF Large, Inv, TypeOK
        <3>5. Small(0) /\ Big(0) /\ used' = used + 0 + LargeSize * 0
            BY <1>0, <3>2, <3>3, <3>4 DEF Moves
        <3> QED BY <3>5
    <2>10. CASE SubLarge(c)
        <3>1. /\ pc[c] = "sub_large" /\ pc' = [pc EXCEPT ![c] = "idle"] /\ used' = used - LargeSize
              /\ UNCHANGED <<live, owner, page>>
            BY <2>10 DEF SubLarge, Goto
        <3>2. UNCHANGED <<Freeing, Large>>
            BY <3>1, FreeingMoves DEF Freeing, Large
        <3>3. c \in FreeingLarge /\ FreeingLarge' = FreeingLarge \ {c}
            BY <3>1, FreeingMoves DEF FreeingLarge
        <3>4. Small(0) /\ Big(-1) /\ used' = used + 0 + LargeSize * (-1)
            BY <1>0, <3>1, <3>2, <3>3 DEF Moves
        <3> QED BY <3>4
    <2> QED BY <2>1, <2>2, <2>3, <2>4, <2>5, <2>6, <2>7, <2>8, <2>9, <2>10
<1> QED BY <1>1, <1>2, <1>3

\* heap_usage() counts the objects, small and large, that callers have and the
\* frees not yet through, whatever the order in which the cores' additions and
\* subtractions reach it.
THEOREM UsedIsExact == Spec => []UsedExact
<1> DEFINE s == Cardinality(live) + Cardinality(Freeing)
           l == Cardinality(Large) + Cardinality(FreeingLarge)
           UsedInv == IsFiniteSet(live) /\ IsFiniteSet(Large) /\ UsedExact
<1>1. Init => UsedInv
    <2> SUFFICES ASSUME Init PROVE UsedInv
        OBVIOUS
    <2>1. live = {} /\ Freeing = {} /\ Large = {} /\ FreeingLarge = {} /\ used = 0
        BY DEF Init, Freeing, Large, FreeingLarge
    <2> QED BY <2>1, FS_EmptySet, LargeAssumption DEF UsedExact
<1>2. Inv /\ UsedInv /\ [Next]_vars => UsedInv'
    <2> SUFFICES ASSUME Inv, UsedInv, [Next]_vars PROVE UsedInv'
        OBVIOUS
    <2>1. IsFiniteSet(Freeing) /\ IsFiniteSet(FreeingLarge)
        <3>1. Freeing \subseteq CPUs /\ FreeingLarge \subseteq CPUs
            BY DEF Freeing, FreeingLarge
        <3> QED BY <3>1, FiniteAssumption, FS_Subset
    <2>2. PICK j, k \in {-1, 0, 1} :
              /\ Moves(live, Freeing, live', Freeing', j)
              /\ Moves(Large, FreeingLarge, Large', FreeingLarge', k)
              /\ used' = used + j + LargeSize * k
        BY UsedStep
    <2>3. IsFiniteSet(live') /\ s \in Nat /\ s' = s + j
        BY <2>1, <2>2, Counted
    <2>4. IsFiniteSet(Large') /\ l \in Nat /\ l' = l + k
        BY <2>1, <2>2, Counted
    <2>5. used = s + LargeSize * l
        BY DEF UsedExact
    <2> HIDE DEF s, l
    <2>6. used' = s' + LargeSize * l'
        BY <2>2, <2>3, <2>4, <2>5, LargeAssumption
    <2> USE DEF s, l
    <2> QED BY <2>3, <2>4, <2>6 DEF UsedExact
<1>3. UsedInv => UsedExact
    OBVIOUS
<1> QED BY <1>1, <1>2, <1>3, InvHolds, PTL DEF Spec

\* Every page with a free object stays within reach of alloc: from plist, next
\* leads to it, whatever pages left the list or came back to it.  The pages a
\* walk would miss would have a first one; nothing leads to that one, so it is
\* plist, which the walk begins with.
THEOREM NoneStranded == Spec => []NotStranded
<1>1. Inv => NotStranded
    <2> SUFFICES ASSUME Inv, NEW S \in SUBSET (Pages \cup {Null}), plist \in S,
                        \A p \in S \ {Null} : next[p] \in S
                 PROVE  Listed \ S = {}
        BY DEF NotStranded
    <2> SUFFICES ASSUME Listed \ S # {} PROVE FALSE
        OBVIOUS
    <2>1. PICK p \in Listed \ S : prev[p] \notin Listed \ S
        BY DEF Inv, ListInv, ListEnds
    <2>2. CASE prev[p] = Null
        BY <2>1, <2>2 DEF Inv, ListInv, ListLinks
    <2>3. CASE prev[p] # Null
        <3>1. prev[p] \in Listed /\ next[prev[p]] = p
            BY <2>1, <2>3 DEF Inv, ListInv, ListLinks
        <3> QED BY <2>1, <2>3, <3>1
    <2> QED BY <2>2, <2>3
<1> QED BY <1>1, InvHolds, PTL
-----------------------------------------------------------------------------
(* The pages add_range reserves *)

CONSTANTS PageSize, ZoneSize, Totals
VARIABLES total_pages_reg, reserved_pages, reserve_pc

Reserve == INSTANCE ReserveLoop WITH pc <- reserve_pc

\* Division rounded up.
LEMMA Ceiling ==
    ASSUME NEW a \in Nat, NEW p \in Nat \ {0}
    PROVE  LET q == (a + p - 1) \div p
           IN  q \in Nat /\ a <= q * p /\ q * p < a + p
<1> DEFINE b == a + p - 1
           q == b \div p
<1>1. b \in Nat
    OBVIOUS
<1>2. q \in Nat /\ p * q <= b /\ b < p * q + p
    BY <1>1
<1>3. p * q \in Nat /\ q * p = p * q
    BY <1>2
<1> QED BY <1>2, <1>3

\* Never more pages are needed than there are.
LEMMA NeededFits ==
    ASSUME Reserve!Assumptions, NEW t \in Nat \ {0}, NEW r \in Nat, r <= t
    PROVE  Reserve!Needed(t, r) \in Nat /\ Reserve!Needed(t, r) <= t
<1> DEFINE n == Reserve!Needed(t, r)
           a == t - r + ZoneSize
<1>1. a \in Nat /\ PageSize \in Nat \ {0}
    BY DEF Reserve!Assumptions
<1>2. n = (a + PageSize - 1) \div PageSize
    BY DEF Reserve!Needed
<1> HIDE DEF n, a
<1>3. n \in Nat /\ n * PageSize < a + PageSize
    BY <1>1, <1>2, Ceiling
<1>4. a <= t + PageSize - 1
    BY DEF a, Reserve!Assumptions
<1>5. t + PageSize - 1 <= t * PageSize
    <2>1. (t - 1) * (PageSize - 1) >= 0
        BY <1>1
    <2>2. (t - 1) * (PageSize - 1) = t * PageSize - t - PageSize + 1
        BY <1>1
    <2>3. t * PageSize \in Nat
        BY <1>1
    <2> QED BY <1>1, <2>1, <2>2, <2>3
<1>6. n * PageSize < (t + 1) * PageSize
    BY <1>1, <1>3, <1>4, <1>5
<1>7. n < t + 1
    <2> SUFFICES ASSUME n >= t + 1 PROVE FALSE
        BY <1>3
    <2>1. n * PageSize >= (t + 1) * PageSize
        BY <1>1, <1>3
    <2> QED BY <1>1, <1>3, <1>6, <2>1
<1> QED BY <1>3, <1>7 DEF n

\* Only of a single page nothing is left.
LEMMA NothingLeft ==
    ASSUME Reserve!Assumptions, NEW t \in Nat \ {0}, Reserve!Needed(t, t) = t
    PROVE  t = 1
<1>1. ZoneSize \in Nat /\ PageSize \in Nat \ {0} /\ ZoneSize < PageSize
    BY DEF Reserve!Assumptions
<1>2. t = (ZoneSize + PageSize - 1) \div PageSize
    BY <1>1 DEF Reserve!Needed
<1>3. t * PageSize < ZoneSize + PageSize
    BY <1>1, <1>2, Ceiling
<1> SUFFICES ASSUME t >= 2 PROVE FALSE
    OBVIOUS
<1>4. t * PageSize >= 2 * PageSize
    BY <1>1
<1> QED BY <1>1, <1>3, <1>4

\* The pages add_range reserves are never more than the region has, and when
\* the loop ends the metadata and the Zone fit into them, but only just; only
\* a region of a single page is refused.
ReservationExact == Reserve!NeverOverReserved /\ Reserve!ReservationExact

\* The loop of add_range, for pages and Zones of any size and any region: it never
\* reserves more pages than the region has (the checked_sub at mod.rs:108), and
\* what it leaves with holds the metadata of the other pages and the Zone, but
\* would not with one page less.  That the loop ends is not so for every region
\* (ReserveTerminates).
THEOREM Reserves == Reserve!Assumptions /\ Reserve!Spec => []ReservationExact
<1> SUFFICES ASSUME Reserve!Assumptions PROVE Reserve!Spec => []ReservationExact
    OBVIOUS
<1>1. Reserve!Init => Reserve!IInv
    BY DEF Reserve!Init, Reserve!IInv, Reserve!Assumptions
<1>2. Reserve!IInv /\ [Reserve!Next]_(Reserve!vars) => Reserve!IInv'
    <2> SUFFICES ASSUME Reserve!IInv, [Reserve!Next]_(Reserve!vars) PROVE Reserve!IInv'
        OBVIOUS
    <2>1. CASE Reserve!Break
        <3>1. CASE total_pages_reg - reserved_pages > 0
            BY <2>1, <3>1 DEF Reserve!Break, Reserve!IInv, Reserve!Needed
        <3>2. CASE ~(total_pages_reg - reserved_pages > 0)
            <4>1. reserved_pages = total_pages_reg
                BY <3>2 DEF Reserve!IInv
            <4>2. total_pages_reg = 1
                BY <2>1, <4>1, NothingLeft DEF Reserve!Break, Reserve!IInv
            <4> QED BY <2>1, <3>2, <4>2 DEF Reserve!Break, Reserve!IInv
        <3> QED BY <3>1, <3>2
    <2>2. CASE Reserve!Iterate
        <3>1. Reserve!Needed(total_pages_reg, reserved_pages) \in Nat
              /\ Reserve!Needed(total_pages_reg, reserved_pages) <= total_pages_reg
            BY NeededFits DEF Reserve!IInv
        <3> QED BY <2>2, <3>1 DEF Reserve!Iterate, Reserve!IInv
    <2>3. CASE UNCHANGED Reserve!vars
        BY <2>3 DEF Reserve!vars, Reserve!IInv, Reserve!Needed
    <2> QED BY <2>1, <2>2, <2>3 DEF Reserve!Next
<1>3. Reserve!IInv => ReservationExact
    <2> SUFFICES ASSUME Reserve!IInv PROVE Reserve!NeverOverReserved /\ Reserve!ReservationExact
        BY DEF ReservationExact
    <2>1. Reserve!NeverOverReserved
        BY DEF Reserve!IInv, Reserve!NeverOverReserved
    <2>2. ASSUME reserve_pc = "done" PROVE Reserve!ReservationExact
        <3> DEFINE u == total_pages_reg - reserved_pages
        <3>1. u + ZoneSize \in Nat /\ u \in Nat /\ PageSize \in Nat \ {0} /\ ZoneSize \in Nat /\ reserved_pages \in Nat
            BY DEF Reserve!IInv, Reserve!Assumptions
        <3>2. reserved_pages = (u + ZoneSize + PageSize - 1) \div PageSize
            BY <2>2 DEF Reserve!IInv, Reserve!Needed
        <3> HIDE DEF u
        <3>3. u + ZoneSize <= reserved_pages * PageSize /\ reserved_pages * PageSize < u + ZoneSize + PageSize
            BY <3>1, <3>2, Ceiling
        <3>4. (reserved_pages - 1) * PageSize = reserved_pages * PageSize - PageSize /\ reserved_pages * PageSize \in Nat
            BY <3>1
        <3>5. u + 1 + ZoneSize > (reserved_pages - 1) * PageSize
            BY <3>1, <3>3, <3>4
        <3> QED BY <3>3, <3>5 DEF Reserve!ReservationExact, u
    <2> QED BY <2>1, <2>2 DEF Reserve!ReservationExact
<1> QED BY <1>1, <1>2, <1>3, PTL DEF Reserve!Spec
-----------------------------------------------------------------------------
(* Cursors on an address space *)

CONSTANTS Threads, Index, max_level, Ranges, PAs, None
VARIABLES present, pte, meta, readers, writer, range, cur, cursor_pc, at, current_pa, lvl

Cursor == INSTANCE UserSpaceProofs WITH pc <- cursor_pc

\* What a cursor works on is its own and exists, what it reports is mapped is
\* mapped, and no two cursors wait for each other.
CursorInv == Cursor!CursorInv

\* For any number of threads, levels and entries and any ranges, a cursor is
\* alone below the table it covers, works on tables that exist, reports only
\* mappings that the tables have, is stuck only by itself and only where it
\* covers a leaf or has emptied its table, and no two wait for each other.
THEOREM CursorsAreSafe == Cursor!Assumptions /\ Cursor!Spec => []CursorInv
<1>1. Cursor!Assumptions /\ Cursor!Init => Cursor!IInv
    BY Cursor!InitIInv
<1>2. Cursor!Assumptions /\ Cursor!IInv /\ [Cursor!Next]_(Cursor!vars) => Cursor!IInv'
    BY Cursor!NextIInv
<1>3. Cursor!Assumptions /\ Cursor!IInv => CursorInv
    BY Cursor!IInvImplies DEF CursorInv
<1>4. Cursor!Assumptions => []Cursor!Assumptions
    OBVIOUS
<1> QED BY <1>1, <1>2, <1>3, <1>4, PTL DEF Cursor!Spec
=============================================================================
