----------------------------- MODULE PageMapper -----------------------------
(***************************************************************************)
(* The page tables (klib/src/pm/page/mapper.rs): four levels of tables in  *)
(* physical memory.  An operation has the tree to itself (`&mut root`), so *)
(* each is one step.  The loader builds an identity map of blocks under    *)
(* one root and maps the kernel page by page under another, which the      *)
(* kernel later clones; blocks and pages are never mixed under one root.   *)
(* Permissions and other attributes of an entry are left out.              *)
(***************************************************************************)
EXTENDS Naturals, FiniteSets, FiniteSetsExt, Functions

CONSTANTS Tables,     \* the pages that hold tables: numbers other than 0
          Entries,    \* TABLE_ENTRIES
          VAs,        \* the addresses in use: <<i0, i1, i2, i3>>
          PAs         \* what they are mapped to: numbers other than 0

Index == 0 .. Entries - 1

VARIABLES mem,        \* the contents of every table
          free,       \* the tables nobody has allocated
          root,       \* the root of the pages: TTBR1
          id_root,    \* the root of the identity map of blocks: TTBR0
          old_root    \* the root that was cloned, 0 before

vars == <<mem, free, root, id_root, old_root>>

Zeroed == [i \in Index |-> [valid |-> FALSE, table |-> FALSE, addr |-> 0]]
ToTable(t) == [valid |-> TRUE, table |-> TRUE, addr |-> t]
ToBlock(pa) == [valid |-> TRUE, table |-> FALSE, addr |-> pa]

\* set_is_valid(false), set_address(0): the table bit stays
Cleared(e) == [e EXCEPT !.valid = FALSE, !.addr = 0]

\* What others may have made of a free page.
Garbage == [i \in Index |-> ToTable(1)]

\* A heap is the tables and which of them are free; the table allocator hands
\* out zeroed tables.
heap == [mem |-> mem, free |-> free]
NewTable(h) == Min(h.free)
alloc_table(h) == [mem |-> [h.mem EXCEPT ![NewTable(h)] = Zeroed], free |-> h.free \ {NewTable(h)}]
free_table(h, t) == [mem |-> [h.mem EXCEPT ![t] = Garbage], free |-> h.free \cup {t}]

\* map_page and map_l2_block: a new table where the entry has none.
AddTable(h, t, i) ==
    LET n == NewTable(h)
    IN [alloc_table(h) EXCEPT !.mem[t][i] = ToTable(n)]

\* address() != 0 && is_table(), at levels 0 and 1
HasTable(e) == e.addr # 0 /\ e.table

Descend(h, t, i) == IF HasTable(h.mem[t][i]) THEN h ELSE AddTable(h, t, i)

\* The tables of the first three levels, made where they are missing.
WithL2(h, r, va) ==
    LET h1 == Descend(h, r, va[1])
        l1 == h1.mem[r][va[1]].addr
        h2 == Descend(h1, l1, va[2])
    IN [heap |-> h2, l2 |-> h2.mem[l1][va[2]].addr]

\* At level 2 is_valid() alone decides.
L3Table(h, l2, i) == IF h.mem[l2][i].valid THEN h ELSE AddTable(h, l2, i)

\* Mutant: the index of level 2 is used at level 3.
map_page_index(h, r, va, pa) ==
    LET top == WithL2(h, r, va)
        h3 == L3Table(top.heap, top.l2, va[3])
        l3 == h3.mem[top.l2][va[3]].addr
    IN [h3 EXCEPT !.mem[l3][va[3]] = ToTable(pa)]

map_page(h, r, va, pa) ==
    LET top == WithL2(h, r, va)
        h3 == L3Table(top.heap, top.l2, va[3])
        l3 == h3.mem[top.l2][va[3]].addr
    IN [h3 EXCEPT !.mem[l3][va[4]] = ToTable(pa)]

map_l2_block(h, r, va, pa) ==
    LET top == WithL2(h, r, va)
    IN [top.heap EXCEPT !.mem[top.l2][va[3]] = ToBlock(pa)]

is_table_empty(h, t) == \A i \in Index : ~h.mem[t][i].valid
Clear(h, t, i) == [h EXCEPT !.mem[t][i] = Cleared(@)]
Followed(h, t, i) == h.mem[t][i].valid /\ h.mem[t][i].table

\* Mutant: an empty table is freed, but the entry still leads to it.
PruneDangling(h, parent, i, t) == IF is_table_empty(h, t) THEN free_table(h, t) ELSE h

\* An empty table is freed and its entry cleared.
Prune(h, parent, i, t) == IF is_table_empty(h, t) THEN Clear(free_table(h, t), parent, i) ELSE h

unmap_page(h, r, va) ==
    LET l1 == h.mem[r][va[1]].addr
        l2 == h.mem[l1][va[2]].addr
        l3 == h.mem[l2][va[3]].addr
        h3 == Prune(Clear(h, l3, va[4]), l2, va[3], l3)
        h2 == IF l3 \in h3.free THEN Prune(h3, l1, va[2], l2) ELSE h3
        h1 == IF l2 \in h2.free THEN Prune(h2, r, va[1], l1) ELSE h2
    IN IF Followed(h, r, va[1]) /\ Followed(h, l1, va[2]) /\ Followed(h, l2, va[3]) /\ h.mem[l3][va[4]].valid
       THEN h1 ELSE h

\* The tables under a root, level by level.
Below(h, S) == {h.mem[p[1]][p[2]].addr : p \in {q \in S \X Index : Followed(h, q[1], q[2])}}
Level(h, r, l) ==
    LET Lower[k \in 0 .. 3] == IF k = 0 THEN {r} ELSE Below(h, Lower[k - 1])
    IN Lower[l]
Upper(h, r) == UNION {Level(h, r, l) : l \in 0 .. 2}
Links(h, r) == {p \in Upper(h, r) \X Index : Followed(h, p[1], p[2])}
Tree(h, r) == UNION {Level(h, r, l) : l \in 0 .. 3}
-----------------------------------------------------------------------------
\* clone_page_tables: every table gets a copy, whose entries lead to copies;
\* the entries of level 3 are copied as they are.
Rank(S, x) == Cardinality({y \in S : y < x})
clone_page_tables(h, r) ==
    LET tree == Tree(h, r)
        copy == [t \in tree |-> CHOOSE n \in h.free : Rank(h.free, n) = Rank(tree, t)]
        Copied(t, e) == IF t \in Upper(h, r) /\ e.valid /\ e.table THEN [e EXCEPT !.addr = copy[@]]
                        ELSE IF t \in Upper(h, r) /\ ~e.valid THEN Zeroed[0] ELSE e
        new == Range(copy)
    IN [heap |-> [mem |-> [n \in Tables |->
                              IF n \notin new THEN h.mem[n]
                              ELSE LET t == CHOOSE x \in tree : copy[x] = n
                                   IN [i \in Index |-> Copied(t, h.mem[t][i])]],
                  free |-> h.free \ new],
        root |-> copy[r]]

\* free_tables: all four levels, the root last.
free_tables(h, r) ==
    [mem |-> [t \in Tables |-> IF t \in Tree(h, r) THEN Garbage ELSE h.mem[t]],
     free |-> h.free \cup Tree(h, r)]
-----------------------------------------------------------------------------
Becomes(h) == mem' = h.mem /\ free' = h.free

\* The loader's roots, and id_map: one table of blocks, each where it maps to.
IdentityMap ==
    LET h == alloc_table(alloc_table([mem |-> [t \in Tables |-> Garbage], free |-> Tables]))
        r == Min(Tables \ {Min(Tables)})
        Block(g, i) == map_l2_block(g, r, <<0, 0, i, 0>>, i + 1)
    IN FoldFunction(LAMBDA i, g : Block(g, i), h, [i \in Index |-> i])

Init ==
    /\ mem = IdentityMap.mem
    /\ free = IdentityMap.free
    /\ root = Min(Tables)
    /\ id_root = Min(Tables \ {Min(Tables)})
    /\ old_root = 0

\* There is always memory for tables: the allocators panic where there is not.
Enough == Cardinality(free) >= 3

MapPage(va, pa) ==
    /\ Enough
    /\ Becomes(map_page(heap, root, va, pa))
    /\ UNCHANGED <<root, id_root, old_root>>

UnmapPage(va) ==
    /\ Becomes(unmap_page(heap, root, va))
    /\ UNCHANGED <<root, id_root, old_root>>

\* switch_to_new_page_tables goes on with a clone of the tables.
ClonePageTables ==
    /\ old_root = 0
    /\ Cardinality(free) >= Cardinality(Tree(heap, root))
    /\ LET c == clone_page_tables(heap, root)
       IN Becomes(c.heap) /\ root' = c.root
    /\ old_root' = root
    /\ UNCHANGED id_root

FreeTables ==
    /\ old_root # 0
    /\ Becomes(free_tables(heap, old_root))
    /\ old_root' = 0
    /\ UNCHANGED <<root, id_root>>

Next ==
    \/ \E va \in VAs : UnmapPage(va) \/ \E pa \in PAs : MapPage(va, pa)
    \/ ClonePageTables \/ FreeTables

Spec == Init /\ [][Next]_vars
-----------------------------------------------------------------------------
\* The memory-management unit's walk (external).
Unmapped == 0
Translate(h, r, va) ==
    LET l1 == h.mem[r][va[1]].addr
        l2 == h.mem[l1][va[2]].addr
        e2 == h.mem[l2][va[3]]
        e3 == h.mem[e2.addr][va[4]]
    IN IF ~Followed(h, r, va[1]) \/ ~Followed(h, l1, va[2]) \/ ~e2.valid THEN Unmapped
       ELSE IF ~e2.table THEN e2.addr
       ELSE IF e3.valid /\ e3.table THEN e3.addr ELSE Unmapped

Roots == {root, id_root, old_root} \ {0}

\* The trees under the roots share no table, no table is reached twice, and
\* what is allocated is in a tree: nothing leaks, and nothing freed is in use.
TreesInv ==
    /\ Tables \ free = UNION {Tree(heap, r) : r \in Roots}
    /\ \A r, s \in Roots : r # s => Tree(heap, r) \cap Tree(heap, s) = {}
    /\ \A r \in Roots : Cardinality(Links(heap, r)) = Cardinality(Tree(heap, r)) - 1

\* unmap_page leaves no empty table behind but the root.
Pruned == \A t \in Tree(heap, root) \ {root} : ~is_table_empty(heap, t)

\* The identity map of blocks stays as the loader made it.
IdentityKept == \A i \in Index : Translate(heap, id_root, <<0, 0, i, 0>>) = i + 1

MapperInv == TreesInv /\ Pruned /\ IdentityKept

mapped == [va \in VAs |-> Translate(heap, root, va)]
Map == INSTANCE AbstractMap WITH map <- mapped

\* map_page and unmap_page change the translation of their own address as asked
\* and of no other, and a clone translates as the original did.
ImplementsMap ==
    /\ Map!Init
    /\ [][mem' # mem =>
            /\ \A va \in VAs : UnmapPage(va) => Map!Unmap(va)
            /\ \A va \in VAs, pa \in PAs : MapPage(va, pa) => Map!Map(va, pa)
            /\ ClonePageTables \/ FreeTables => UNCHANGED mapped]_vars
=============================================================================
