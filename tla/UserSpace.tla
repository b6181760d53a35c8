----------------------------- MODULE UserSpace -----------------------------
(***************************************************************************)
(* The locking of an address space (klib/src/vm/user): AddressSpace::lock  *)
(* descends the page tables with a read guard on every table it passes and *)
(* ends with a write guard on the lowest one that covers the range; the    *)
(* Cursor it returns changes the tables below.  Every table has an RwLock  *)
(* in its PageDescriptor, which also protects what is known of its pages   *)
(* (PteMeta).  A writer's claim keeps new readers out (see RwLock).        *)
(*                                                                         *)
(* The guards are not reentrant.  A cursor that needs a guard it already   *)
(* holds waits for itself: pc "stuck".  The other guards that it takes are *)
(* of tables below its own, where nobody else has one (Exclusive).         *)
(*                                                                         *)
(* The address of a page is its index at every level; addresses are those  *)
(* of user space, where entry_index agrees with the indices of map_page.   *)
(* A table is its level, 0 for a leaf and max_level for the root, and the  *)
(* indices that lead to it.                                                *)
(***************************************************************************)
EXTENDS Naturals, Sequences

CONSTANTS Threads,
          Index,        \* 0 .. TABLE_ENTRIES - 1
          max_level,
          Ranges,       \* the ranges that are locked, each the sequence of its pages
          PAs,          \* what pages are mapped to: numbers other than 0
          None

Levels == 0 .. max_level
VPages == [Levels -> Index]
entry_index(v, l) == v[l]
Table(v, l) == <<l, [i \in l + 1 .. max_level |-> entry_index(v, i)]>>
Root == Table(CHOOSE v \in VPages : TRUE, max_level)
Tables == {Table(v, l) : v \in VPages, l \in Levels}

\* s is table t or below it
Under(s, t) == s[1] <= t[1] /\ \A i \in t[1] + 1 .. max_level : s[2][i] = t[2][i]

\* What the proofs need of the constants: addresses exist, and the pages of a
\* range lie between its first and its last.
Assumptions ==
    /\ max_level \in Nat /\ VPages # {}
    /\ None \notin Threads /\ PAs \subseteq Nat
    /\ \A r \in Ranges :
        /\ r \in Seq(VPages) /\ r # <<>>
        /\ \A l \in Levels :
            (\A i \in l .. max_level : r[1][i] = r[Len(r)][i])
                => \A k \in DOMAIN r : \A i \in l .. max_level : r[k][i] = r[1][i]

VARIABLES present,      \* the tables there are
          pte,          \* the entries of the leaves: where a page is, 0 if not valid
          meta,         \* PteMeta: the Status of each page
          readers, writer,   \* the lock of each table: read guards, and the writer's claim
          range, cur, pc,    \* of each thread
          at, current_pa,    \* the page of the range that the cursor is at, and its place
          lvl                \* the level of the table that is to be freed, or unlocked

Invalid == <<"Invalid">>
PrivateAnonymous == <<"PrivateAnonymous">>
Mapped(pa) == <<"Mapped", pa>>

tree == <<present, pte, meta>>
locks == <<readers, writer>>
work == <<at, current_pa>>
vars == <<tree, locks, range, cur, pc, work, lvl>>

Init ==
    /\ present = {Root}
    /\ pte = [v \in VPages |-> 0]
    /\ meta = [v \in VPages |-> Invalid]
    /\ readers = [t \in Tables |-> {}]
    /\ writer = [t \in Tables |-> None]
    /\ range = [th \in Threads |-> <<>>]
    /\ cur = [th \in Threads |-> Root]
    /\ pc = [th \in Threads |-> "idle"]
    /\ at = [th \in Threads |-> 0]
    /\ current_pa = [th \in Threads |-> 0]
    /\ lvl = [th \in Threads |-> 0]

Goto(th, from, to) == pc[th] = from /\ pc' = [pc EXCEPT ![th] = to]
-----------------------------------------------------------------------------
\* AddressSpace::lock
Lock(th, r) ==
    /\ Goto(th, "idle", "walk")
    /\ range' = [range EXCEPT ![th] = r]
    /\ cur' = [cur EXCEPT ![th] = Root]
    /\ UNCHANGED <<tree, locks, work, lvl>>

start(th) == range[th][1]
last(th) == range[th][Len(range[th])]     \* the page that ends the range
level(th) == cur[th][1]
Child(th) == Table(start(th), level(th) - 1)
OneEntry(th) == entry_index(start(th), level(th)) = entry_index(last(th), level(th))

\* Mutant: the guard is dropped on the way down.
DescendUnguarded(th) ==
    /\ pc[th] = "walk" /\ level(th) > 0 /\ OneEntry(th)
    /\ writer[cur[th]] = None
    /\ Child(th) \in present
    /\ cur' = [cur EXCEPT ![th] = Child(th)]
    /\ UNCHANGED <<tree, locks, range, pc, work, lvl>>

\* The entry is read under a read guard, which is kept if it leads on.
Descend(th) ==
    /\ pc[th] = "walk" /\ level(th) > 0 /\ OneEntry(th)
    /\ writer[cur[th]] = None
    /\ Child(th) \in present
    /\ readers' = [readers EXCEPT ![cur[th]] = @ \cup {th}]
    /\ cur' = [cur EXCEPT ![th] = Child(th)]
    /\ UNCHANGED <<tree, writer, range, pc, work, lvl>>

\* This table covers the range: a leaf, or the range has several entries of
\* it, or its entry is empty.  The read guard is gone before write() is called.
Covers(th) ==
    /\ Goto(th, "walk", "write")
    /\ \/ level(th) = 0 \/ ~OneEntry(th)
       \/ writer[cur[th]] = None /\ Child(th) \notin present
    /\ UNCHANGED <<tree, locks, range, cur, work, lvl>>

Claim(th) ==
    /\ Goto(th, "write", "drain")
    /\ writer[cur[th]] = None
    /\ writer' = [writer EXCEPT ![cur[th]] = th]
    /\ UNCHANGED <<tree, readers, range, cur, work, lvl>>

Drain(th) ==
    /\ Goto(th, "drain", "held")
    /\ readers[cur[th]] = {}
    /\ UNCHANGED <<tree, locks, range, cur, work, lvl>>
-----------------------------------------------------------------------------
\* map, unmap and mark go through the range page by page.
Begin(th, op, pa) ==
    /\ Goto(th, "held", op)
    /\ at' = [at EXCEPT ![th] = 1]
    /\ current_pa' = [current_pa EXCEPT ![th] = pa]
    /\ UNCHANGED <<tree, locks, range, cur, lvl>>

Map(th, pa) == Begin(th, "map", pa)
Unmap(th) == Begin(th, "unmap", 0)
Mark(th) == Begin(th, "mark", 0)

va(th) == range[th][at[th]]

NextPage(th, op) ==
    IF at[th] = Len(range[th])
    THEN /\ pc' = [pc EXCEPT ![th] = "held"]
         /\ at' = [at EXCEPT ![th] = 0]
         /\ current_pa' = [current_pa EXCEPT ![th] = 0]
    ELSE /\ pc' = [pc EXCEPT ![th] = op]
         /\ at' = [at EXCEPT ![th] = @ + 1]
         /\ current_pa' = [current_pa EXCEPT ![th] = IF op = "map" THEN @ + 1 ELSE 0]

Wait(th) == pc' = [pc EXCEPT ![th] = "stuck"] /\ UNCHANGED work

\* alloc_table starts with no PteMeta: m without what it has of v's leaf
Forget(m, v) == [w \in VPages |-> IF Table(w, 0) = Table(v, 0) THEN Invalid ELSE m[w]]

\* The tables of a page, made where they are missing.
ensure_leaf_table(v) == present' = present \cup {Table(v, l) : l \in Levels}
FreshMeta(v) == IF Table(v, 0) \in present THEN meta ELSE Forget(meta, v)

\* The leaf's lock is taken for writing: the cursor has it already if the leaf
\* is what it covers.  Without a leaf there is nothing to do.
update_leaf_meta(th, op, m, status) ==
    IF level(th) = 0 THEN meta' = m /\ Wait(th)
    ELSE /\ meta' = IF Table(va(th), 0) \in present' THEN [m EXCEPT ![va(th)] = status] ELSE m
         /\ NextPage(th, op)

\* Cursor::map: map_page, then the meta of the leaf
MapPage(th) ==
    /\ pc[th] = "map"
    /\ ensure_leaf_table(va(th))
    /\ pte' = [pte EXCEPT ![va(th)] = current_pa[th]]
    /\ update_leaf_meta(th, "map", FreshMeta(va(th)), Mapped(current_pa[th]))
    /\ UNCHANGED <<locks, range, cur, lvl>>

MarkPage(th) ==
    /\ pc[th] = "mark"
    /\ ensure_leaf_table(va(th))
    /\ update_leaf_meta(th, "mark", FreshMeta(va(th)), PrivateAnonymous)
    /\ UNCHANGED <<pte, locks, range, cur, lvl>>

\* unmap_page: nothing if the page is not mapped
UnmapPage(th) ==
    /\ pc[th] = "unmap"
    /\ IF Table(va(th), 0) \notin present \/ pte[va(th)] = 0
       THEN /\ UNCHANGED <<present, pte, lvl>>
            /\ update_leaf_meta(th, "unmap", meta, Invalid)
       ELSE /\ pte' = [pte EXCEPT ![va(th)] = 0]
            /\ pc' = [pc EXCEPT ![th] = "prune"]
            /\ lvl' = [lvl EXCEPT ![th] = 0]
            /\ UNCHANGED <<present, meta, work>>
    /\ UNCHANGED <<locks, range, cur>>

\* No entry of v's table at level l is valid.
is_table_empty(v, l) ==
    \A w \in VPages : Table(w, l) = Table(v, l) =>
        IF l = 0 THEN pte[w] = 0 ELSE Table(w, l - 1) \notin present

\* unmap_page frees what it empties, but never the root.  free_table waits for
\* the table's lock, which the cursor holds itself if it covers that table.
Prune(th) ==
    /\ pc[th] = "prune" /\ lvl[th] < max_level /\ is_table_empty(va(th), lvl[th])
    /\ IF lvl[th] >= level(th)
       THEN Wait(th) /\ UNCHANGED <<tree, lvl>>
       ELSE /\ present' = present \ {Table(va(th), lvl[th])}
            /\ meta' = IF lvl[th] = 0 THEN Forget(meta, va(th)) ELSE meta
            /\ lvl' = [lvl EXCEPT ![th] = @ + 1]
            /\ UNCHANGED <<pte, pc, work>>
    /\ UNCHANGED <<locks, range, cur>>

Pruned(th) ==
    /\ pc[th] = "prune" /\ (lvl[th] = max_level \/ ~is_table_empty(va(th), lvl[th]))
    /\ lvl' = [lvl EXCEPT ![th] = 0]
    /\ UNCHANGED <<present, pte, locks, range, cur>>
    /\ update_leaf_meta(th, "unmap", meta, Invalid)

\* Cursor::query changes nothing, but it reads under the leaf's lock.
Query(th) ==
    /\ Goto(th, "held", "stuck")
    /\ level(th) = 0
    /\ \E k \in DOMAIN range[th] : pte[range[th][k]] # 0
    /\ UNCHANGED <<tree, locks, range, cur, work, lvl>>

\* What it answers.
query(v) == IF Table(v, 0) \notin present \/ pte[v] = 0 THEN Invalid ELSE meta[v]
-----------------------------------------------------------------------------
\* Drop for Cursor: the write guard, then the read guards, the lowest first.
DropWrite(th) ==
    /\ Goto(th, "held", "drop")
    /\ writer' = [writer EXCEPT ![cur[th]] = None]
    /\ lvl' = [lvl EXCEPT ![th] = level(th) + 1]
    /\ UNCHANGED <<tree, readers, range, cur, work>>

DropRead(th) ==
    /\ pc[th] = "drop"
    /\ IF lvl[th] > max_level
       THEN /\ pc' = [pc EXCEPT ![th] = "idle"]
            /\ range' = [range EXCEPT ![th] = <<>>]
            /\ cur' = [cur EXCEPT ![th] = Root]
            /\ lvl' = [lvl EXCEPT ![th] = 0]
            /\ UNCHANGED readers
       ELSE /\ readers' = [readers EXCEPT ![Table(start(th), lvl[th])] = @ \ {th}]
            /\ lvl' = [lvl EXCEPT ![th] = @ + 1]
            /\ UNCHANGED <<pc, range, cur>>
    /\ UNCHANGED <<tree, writer, work>>
-----------------------------------------------------------------------------
Next ==
    \E th \in Threads :
        \/ \E r \in Ranges : Lock(th, r)
        \/ Descend(th) \/ Covers(th) \/ Claim(th) \/ Drain(th)
        \/ \E pa \in PAs : Map(th, pa)
        \/ Unmap(th) \/ Mark(th) \/ Query(th)
        \/ MapPage(th) \/ MarkPage(th) \/ UnmapPage(th) \/ Prune(th) \/ Pruned(th)
        \/ DropWrite(th) \/ DropRead(th)

Spec == Init /\ [][Next]_vars
-----------------------------------------------------------------------------
Working == {"held", "map", "mark", "unmap", "prune", "stuck"}
Cursors == {th \in Threads : pc[th] \in Working}

\* Below the table a cursor covers there are no read guards, and nobody else has
\* or claims a write guard: no other cursor covers anything there.
Exclusive ==
    \A th \in Cursors : \A t \in Tables :
        Under(t, cur[th]) => readers[t] = {} /\ writer[t] \in {None, th}

\* A table that somebody holds, or is about to lock, exists.
NoneFreed ==
    \A th \in Threads : pc[th] \notin {"idle", "drop"} => cur[th] \in present

\* A query never reports a mapping that the tables do not have, unless a
\* cursor is stuck half-way.
QueryTruthful ==
    \A v \in VPages :
        query(v)[1] = "Mapped" => \/ query(v) = Mapped(pte[v])
                                  \/ \E th \in Threads : pc[th] = "stuck" /\ Under(Table(v, 0), cur[th])

\* A thread waits for another one: to read an entry, or for its write guard.
Waits(th) ==
    \/ pc[th] = "walk" /\ level(th) > 0 /\ OneEntry(th) /\ writer[cur[th]] # None
    \/ pc[th] = "write" /\ writer[cur[th]] # None
    \/ pc[th] = "drain" /\ readers[cur[th]] # {}

\* Cursors never wait for each other in a circle: while no cursor is stuck by
\* itself, one that is not idle can go on.
NoCircle ==
    (\A th \in Threads : pc[th] # "stuck") /\ (\E th \in Threads : pc[th] # "idle")
        => \E th \in Threads : pc[th] # "idle" /\ ~Waits(th)

\* A cursor waits for itself only where it covers a leaf, or has unmapped all
\* that was below the table it covers: any other work on an inner table ends.
StuckOnlyAtOwnTable ==
    \A th \in Threads :
        pc[th] = "stuck" => level(th) = 0 \/ ~\E t \in present : t # cur[th] /\ Under(t, cur[th])

\* What a cursor works on is its own and exists, what it reports is there, no two
\* wait for each other, and one waits for itself only in the two cases known.
CursorInv == Exclusive /\ NoneFreed /\ QueryTruthful /\ NoCircle /\ StuckOnlyAtOwnTable
-----------------------------------------------------------------------------
\* The inductive invariant: of each thread the path it has gone and what it
\* holds, of the tree that what is reachable is there.
TypeOK ==
    /\ present \subseteq Tables
    /\ pte \in [VPages -> Nat] /\ meta = [v \in VPages |-> meta[v]]
    /\ readers \in [Tables -> SUBSET Threads]
    /\ writer \in [Tables -> Threads \cup {None}]
    /\ range \in [Threads -> Ranges \cup {<<>>}]
    /\ cur \in [Threads -> Tables]
    /\ pc \in [Threads -> Working \cup {"idle", "walk", "write", "drain", "drop"}]
    /\ at \in [Threads -> Nat] /\ current_pa \in [Threads -> Nat] /\ lvl \in [Threads -> Nat]

\* All pages of the range are below the table that the thread has come to.
OnPath(th) ==
    /\ range[th] \in Ranges
    /\ \A k \in DOMAIN range[th] : Table(range[th][k], level(th)) = cur[th]
    /\ pc[th] \in {"map", "mark", "unmap", "prune"} => at[th] \in DOMAIN range[th]
    /\ pc[th] = "prune" => lvl[th] <= level(th)
    /\ pc[th] = "drop" => lvl[th] > level(th)
PathInv == \A th \in Threads : pc[th] # "idle" => OnPath(th)

\* The read guards of a thread: the tables above the one it has come to.
Guards(th, t) ==
    /\ pc[th] # "idle" /\ level(th) < t[1]
    /\ Table(start(th), t[1]) = t
    /\ pc[th] = "drop" => lvl[th] <= t[1]

LockInv ==
    /\ \A th \in Threads, t \in Tables :
        /\ th \in readers[t] <=> Guards(th, t)
        /\ writer[t] = th <=> pc[th] \in Working \cup {"drain"} /\ cur[th] = t
    /\ \A th \in Cursors : readers[cur[th]] = {}

TreeInv ==
    /\ Root \in present
    /\ \A v \in VPages, k, l \in Levels : k <= l /\ Table(v, k) \in present => Table(v, l) \in present
    /\ \A v \in VPages : pte[v] # 0 => Table(v, 0) \in present

IInv == TypeOK /\ PathInv /\ LockInv /\ TreeInv /\ NoneFreed /\ QueryTruthful /\ StuckOnlyAtOwnTable
=============================================================================
