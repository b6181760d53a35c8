--------------------------- MODULE UserSpaceProofs ---------------------------
(***************************************************************************)
(* Cursors on an address space are alone below the tables they cover, for  *)
(* any number of threads, any ranges and page tables of any depth and      *)
(* width.  IInv is inductive: LockInv says that a thread's read guards are *)
(* exactly the tables above the one it has come to, so that whoever is     *)
(* below a table has a guard on it; TreeInv that a table's tables above    *)
(* are present.                                                            *)
(***************************************************************************)
EXTENDS UserSpace, WellFoundedInduction, TLAPS

\* Facts of tables: a page has one table at each level, and a table's pages have
\* their tables above it in common.
TableFacts ==
    /\ Root \in Tables /\ Root[1] = max_level
    /\ \A v \in VPages, l \in Levels : Table(v, l) \in Tables /\ Table(v, l)[1] = l
    /\ \A v \in VPages : Table(v, max_level) = Root
    /\ \A t \in Tables : t[1] \in Levels /\ \E v \in VPages : t = Table(v, t[1])
    /\ \A v, w \in VPages, k, l \in Levels :
        k <= l /\ Table(v, k) = Table(w, k) => Table(v, l) = Table(w, l)
    /\ \A v, w \in VPages, k, l \in Levels :
        Under(Table(v, k), Table(w, l)) <=> k <= l /\ Table(v, l) = Table(w, l)

LEMMA TableLemma == ASSUME Assumptions PROVE TableFacts
<1> USE DEF Levels
<1>0. max_level \in Nat /\ max_level \in Levels
    BY DEF Assumptions
<1>1. \A v \in VPages, l \in Levels : Table(v, l) \in Tables /\ Table(v, l)[1] = l
    BY DEF Tables, Table
<1>2. ASSUME NEW v \in VPages, NEW w \in VPages, NEW l \in Levels
      PROVE Table(v, l) = Table(w, l) <=> \A i \in l + 1 .. max_level : v[i] = w[i]
    <2>1. Table(v, l) = Table(w, l)
           <=> [i \in l + 1 .. max_level |-> v[i]] = [i \in l + 1 .. max_level |-> w[i]]
        BY DEF Table, entry_index
    <2>2. ASSUME \A i \in l + 1 .. max_level : v[i] = w[i]
          PROVE [i \in l + 1 .. max_level |-> v[i]] = [i \in l + 1 .. max_level |-> w[i]]
        BY <2>2
    <2>3. ASSUME [i \in l + 1 .. max_level |-> v[i]] = [i \in l + 1 .. max_level |-> w[i]],
                 NEW i \in l + 1 .. max_level
          PROVE v[i] = w[i]
        <3>1. [j \in l + 1 .. max_level |-> v[j]][i] = [j \in l + 1 .. max_level |-> w[j]][i]
            BY <2>3
        <3> QED BY <3>1
    <2> QED BY <2>1, <2>2, <2>3
<1>3. \A v \in VPages : Table(v, max_level) = Root
    <2>1. (CHOOSE v \in VPages : TRUE) \in VPages
        BY DEF Assumptions
    <2> QED BY <1>0, <1>2, <2>1 DEF Root
<1>4. Root \in Tables /\ Root[1] = max_level
    <2>1. PICK v \in VPages : TRUE
        BY DEF Assumptions
    <2>2. Root = Table(v, max_level)
        BY <1>3
    <2> QED BY <1>0, <1>1, <2>2
<1>5. \A t \in Tables : t[1] \in Levels /\ \E v \in VPages : t = Table(v, t[1])
    <2> SUFFICES ASSUME NEW t \in Tables PROVE t[1] \in Levels /\ \E v \in VPages : t = Table(v, t[1])
        OBVIOUS
    <2>1. PICK v \in VPages, l \in Levels : t = Table(v, l)
        BY DEF Tables
    <2>2. t[1] = l
        BY <1>1, <2>1
    <2> QED BY <2>1, <2>2
<1>6. \A v, w \in VPages, k, l \in Levels :
        k <= l /\ Table(v, k) = Table(w, k) => Table(v, l) = Table(w, l)
    <2> SUFFICES ASSUME NEW v \in VPages, NEW w \in VPages, NEW k \in Levels, NEW l \in Levels,
                        k <= l, Table(v, k) = Table(w, k)
                 PROVE Table(v, l) = Table(w, l)
        OBVIOUS
    <2>1. \A i \in k + 1 .. max_level : v[i] = w[i]
        BY <1>2
    <2>2. \A i \in l + 1 .. max_level : v[i] = w[i]
        BY <1>0, <2>1
    <2> QED BY <1>2, <2>2
<1>7. \A v, w \in VPages, k, l \in Levels :
        Under(Table(v, k), Table(w, l)) <=> k <= l /\ Table(v, l) = Table(w, l)
    <2> SUFFICES ASSUME NEW v \in VPages, NEW w \in VPages, NEW k \in Levels, NEW l \in Levels
                 PROVE Under(Table(v, k), Table(w, l)) <=> k <= l /\ Table(v, l) = Table(w, l)
        OBVIOUS
    <2>1. Table(v, k)[1] = k /\ Table(w, l)[1] = l
        BY <1>1
    <2>2. Table(v, k)[2] = [i \in k + 1 .. max_level |-> v[i]]
        BY DEF Table, entry_index
    <2>3. Table(w, l)[2] = [i \in l + 1 .. max_level |-> w[i]]
        BY DEF Table, entry_index
    <2>4. ASSUME k <= l, NEW i \in l + 1 .. max_level
          PROVE Table(v, k)[2][i] = v[i] /\ Table(w, l)[2][i] = w[i]
        <3>1. i \in k + 1 .. max_level
            BY <1>0, <2>4
        <3> QED BY <2>2, <2>3, <3>1
    <2> QED BY <1>2, <2>1, <2>4 DEF Under
<1> QED BY <1>1, <1>3, <1>4, <1>5, <1>6, <1>7 DEF TableFacts

LEMMA LevelOf ==
  ASSUME Assumptions, NEW v \in VPages, NEW l \in Levels
  PROVE  Table(v, l) \in Tables /\ Table(v, l)[1] = l
BY TableLemma DEF TableFacts

\* Two pages of one table have the same tables above it.
LEMMA SameAbove ==
  ASSUME Assumptions, NEW v \in VPages, NEW w \in VPages, NEW k \in Levels, NEW l \in Levels,
         k <= l, Table(v, k) = Table(w, k)
  PROVE  Table(v, l) = Table(w, l)
BY TableLemma DEF TableFacts

\* A range whose pages have one table at a level, and one entry of it, has one
\* table below.
LEMMA RangeLemma ==
  ASSUME Assumptions, NEW r \in Ranges, NEW l \in Levels, l # 0,
         \A k \in DOMAIN r : Table(r[k], l) = Table(r[1], l),
         r[1][l] = r[Len(r)][l]
  PROVE  \A k \in DOMAIN r : Table(r[k], l - 1) = Table(r[1], l - 1)
<1> USE DEF Levels
<1>0. max_level \in Nat /\ l \in 1 .. max_level
    BY DEF Assumptions
<1>1. r \in Seq(VPages) /\ r # <<>>
    BY DEF Assumptions
<1>2. Len(r) \in DOMAIN r /\ 1 \in DOMAIN r /\ Len(r) \in Nat /\ DOMAIN r = 1 .. Len(r)
    BY <1>1
<1>3. \A i \in l + 1 .. max_level : r[Len(r)][i] = r[1][i]
    <2>1. Table(r[Len(r)], l) = Table(r[1], l)
        BY <1>2
    <2>2. [i \in l + 1 .. max_level |-> r[Len(r)][i]] = [i \in l + 1 .. max_level |-> r[1][i]]
        BY <2>1 DEF Table, entry_index
    <2> SUFFICES ASSUME NEW i \in l + 1 .. max_level PROVE r[Len(r)][i] = r[1][i]
        OBVIOUS
    <2>3. [j \in l + 1 .. max_level |-> r[Len(r)][j]][i] = [j \in l + 1 .. max_level |-> r[1][j]][i]
        BY <2>2
    <2> QED BY <2>3
<1>4. \A i \in l .. max_level : r[1][i] = r[Len(r)][i]
    BY <1>0, <1>3
<1>5. \A k \in DOMAIN r : \A i \in l .. max_level : r[k][i] = r[1][i]
    BY <1>4 DEF Assumptions
<1> SUFFICES ASSUME NEW k \in DOMAIN r PROVE Table(r[k], l - 1) = Table(r[1], l - 1)
    OBVIOUS
<1>6. (l - 1) + 1 = l
    BY <1>0
<1>7. [i \in l .. max_level |-> r[k][i]] = [i \in l .. max_level |-> r[1][i]]
    BY <1>5
<1> QED BY <1>6, <1>7 DEF Table, entry_index

LEMMA ThreadFacts ==
  ASSUME Assumptions, TypeOK, PathInv, NEW th \in Threads, pc[th] # "idle"
  PROVE  /\ range[th] \in Ranges /\ range[th] \in Seq(VPages) /\ 1 \in DOMAIN range[th]
         /\ \A k \in DOMAIN range[th] : range[th][k] \in VPages
         /\ start(th) \in VPages /\ cur[th] \in Tables
         /\ level(th) \in Levels /\ cur[th] = Table(start(th), level(th))
<1>1. range[th] \in Ranges /\ \A k \in DOMAIN range[th] : Table(range[th][k], level(th)) = cur[th]
    BY DEF PathInv, OnPath
<1>2. range[th] \in Seq(VPages) /\ range[th] # <<>>
    BY <1>1 DEF Assumptions
<1>3. 1 \in DOMAIN range[th] /\ \A k \in DOMAIN range[th] : range[th][k] \in VPages
    BY <1>2
<1>4. cur[th] \in Tables
    BY DEF TypeOK
<1>5. level(th) \in Levels
    BY <1>4, TableLemma DEF TableFacts, level
<1> QED BY <1>1, <1>2, <1>3, <1>4, <1>5 DEF start

\* Two threads on their way to a page: the one that covers a table keeps the
\* other one from going below it.
LEMMA Alone ==
  ASSUME Assumptions, TypeOK, PathInv, LockInv,
         NEW th \in Threads, NEW u \in Threads, th # u,
         pc[th] \in Working, pc[u] \notin {"idle", "drop"},
         NEW v \in VPages, Table(v, level(th)) = cur[th], Table(v, level(u)) = cur[u]
  PROVE  level(th) <= level(u) /\ pc[u] \notin Working
<1>1. pc[th] # "idle" /\ pc[th] # "drop"
    BY DEF Working
<1>2. /\ start(th) \in VPages /\ cur[th] \in Tables /\ level(th) \in Levels
      /\ cur[th] = Table(start(th), level(th))
    BY <1>1, ThreadFacts
<1>3. /\ start(u) \in VPages /\ cur[u] \in Tables /\ level(u) \in Levels
      /\ cur[u] = Table(start(u), level(u))
    BY ThreadFacts
<1>4. level(th) = cur[th][1] /\ level(u) = cur[u][1] /\ level(th) \in Nat /\ level(u) \in Nat
    BY <1>2, <1>3 DEF level, Levels, Assumptions
<1>5. readers[cur[th]] = {}
    BY DEF LockInv, Cursors
<1>6. level(th) <= level(u)
    <2> SUFFICES ASSUME level(u) < level(th) PROVE FALSE
        BY <1>4
    <2>0. Table(start(u), level(u)) = Table(v, level(u)) /\ level(u) <= level(th)
        BY <1>3, <1>4
    <2>1. Table(start(u), level(th)) = cur[th]
        BY <1>2, <1>3, <2>0, SameAbove
    <2>2. Guards(u, cur[th])
        BY <1>4, <2>1 DEF Guards
    <2> QED BY <1>2, <1>5, <2>2 DEF LockInv
<1>7. ASSUME pc[u] \in Working PROVE FALSE
    <2>1. readers[cur[u]] = {}
        BY <1>7 DEF LockInv, Cursors
    <2>2. CASE level(u) = level(th)
        <3>1. cur[th] = cur[u]
            BY <2>2
        <3>2. writer[cur[th]] = th /\ writer[cur[u]] = u
            BY <1>2, <1>3, <1>7 DEF LockInv
        <3> QED BY <3>1, <3>2
    <2>3. CASE level(th) < level(u)
        <3>0. Table(start(th), level(th)) = Table(v, level(th)) /\ level(th) <= level(u)
            BY <1>2, <1>4, <2>3
        <3>1. Table(start(th), level(u)) = cur[u]
            BY <1>2, <1>3, <3>0, SameAbove
        <3>2. Guards(th, cur[u])
            BY <1>1, <1>4, <2>3, <3>1 DEF Guards
        <3> QED BY <1>3, <2>1, <3>2 DEF LockInv
    <2> QED BY <1>4, <1>6, <2>2, <2>3
<1> QED BY <1>6, <1>7

\* Work below a write guard does not touch the locks.
LEMMA WorkKeepsLocks ==
  ASSUME Assumptions, TypeOK, PathInv, LockInv, NEW th \in Threads, NEW x \in Working,
         pc[th] \in Working, pc' = [pc EXCEPT ![th] = x], UNCHANGED <<locks, range, cur>>,
         \A u \in Threads \ {th} : lvl'[u] = lvl[u]
  PROVE  LockInv'
<1>1. \A u \in Threads : (pc'[u] = pc[u] \/ u = th)
    BY DEF TypeOK
<1>2. pc'[th] = x
    BY DEF TypeOK
<1>3. x # "idle" /\ x # "drop" /\ pc[th] # "idle" /\ pc[th] # "drop"
    BY DEF Working
<1>4. \A u \in Threads : start(u)' = start(u) /\ level(u)' = level(u)
    BY DEF start, level
<1>5. \A u \in Threads, t \in Tables : Guards(u, t)' <=> Guards(u, t)
    BY <1>1, <1>2, <1>3, <1>4 DEF Guards
<1>6. \A u \in Threads : pc'[u] \in Working <=> pc[u] \in Working
    BY <1>1, <1>2
<1>7. \A u \in Threads : pc'[u] \in Working \cup {"drain"} <=> pc[u] \in Working \cup {"drain"}
    BY <1>1, <1>2
<1>8. readers' = readers /\ writer' = writer /\ cur' = cur
    BY DEF locks
<1>9. ASSUME NEW u \in Threads, NEW t \in Tables
      PROVE /\ u \in readers'[t] <=> Guards(u, t)'
            /\ writer'[t] = u <=> pc'[u] \in Working \cup {"drain"} /\ cur'[u] = t
    BY <1>5, <1>7, <1>8 DEF LockInv
<1>10. \A u \in Threads : pc'[u] \in Working => readers'[cur'[u]] = {}
    BY <1>6, <1>8 DEF LockInv, Cursors
<1> QED BY <1>9, <1>10 DEF LockInv, Cursors

LEMMA InitIInv == ASSUME Assumptions, Init PROVE IInv
<1>1. TableFacts
    BY TableLemma
<1>2. TypeOK
    <2>1. Root \in Tables
        BY <1>1 DEF TableFacts
    <2> QED BY <2>1 DEF Init, TypeOK
<1>3. PathInv
    BY DEF Init, PathInv
<1>4. LockInv
    <2>1. \A th \in Threads : pc[th] = "idle" /\ th # None
        BY DEF Init, Assumptions
    <2>2. \A t \in Tables : readers[t] = {} /\ writer[t] = None
        BY DEF Init
    <2> QED BY <2>1, <2>2 DEF LockInv, Guards, Cursors, Working
<1>5. TreeInv
    <2>1. present = {Root} /\ \A v \in VPages : pte[v] = 0
        BY DEF Init
    <2>2. ASSUME NEW v \in VPages, NEW k \in Levels, NEW l \in Levels, k <= l, Table(v, k) \in present
          PROVE Table(v, l) \in present
        <3>1. Table(v, k) = Root /\ Table(v, k)[1] = k /\ Root[1] = max_level
            BY <1>1, <2>1, <2>2 DEF TableFacts
        <3>2. k = l
            BY <2>2, <3>1 DEF Levels, Assumptions
        <3> QED BY <2>2, <3>2
    <2> QED BY <2>1, <2>2 DEF TreeInv
<1>6. NoneFreed /\ StuckOnlyAtOwnTable
    BY DEF Init, NoneFreed, StuckOnlyAtOwnTable
<1>7. QueryTruthful
    BY DEF Init, QueryTruthful, query, Invalid
<1> QED BY <1>2, <1>3, <1>4, <1>5, <1>6, <1>7 DEF IInv

\* A step of one thread leaves the others where they are.
Others(th) ==
    \A u \in Threads \ {th} :
        /\ pc'[u] = pc[u] /\ range'[u] = range[u] /\ cur'[u] = cur[u]
        /\ at'[u] = at[u] /\ lvl'[u] = lvl[u]

LEMMA OthersKeepPath ==
  ASSUME PathInv, NEW th \in Threads, Others(th), pc'[th] # "idle" => OnPath(th)'
  PROVE  PathInv'
<1> SUFFICES ASSUME NEW u \in Threads, pc'[u] # "idle" PROVE OnPath(u)'
    BY DEF PathInv
<1>1. CASE u = th
    BY <1>1
<1>2. CASE u # th
    <2>1. OnPath(u)
        BY <1>2 DEF PathInv, Others
    <2>2. /\ pc'[u] = pc[u] /\ range'[u] = range[u] /\ cur'[u] = cur[u]
          /\ at'[u] = at[u] /\ lvl'[u] = lvl[u]
        BY <1>2 DEF Others
    <2>3. level(u)' = level(u)
        BY <2>2 DEF level
    <2> QED BY <2>1, <2>2, <2>3 DEF OnPath
<1> QED BY <1>1, <1>2

\* A step on the locks alone.
LEMMA LocksKeepTree ==
  ASSUME Assumptions, IInv, NEW th \in Threads, UNCHANGED tree, Others(th),
         pc[th] # "stuck", pc'[th] # "stuck",
         pc'[th] \notin {"idle", "drop"} => cur'[th] \in present
  PROVE  TreeInv' /\ NoneFreed' /\ QueryTruthful' /\ StuckOnlyAtOwnTable'
<1>1. present' = present /\ pte' = pte /\ meta' = meta
    BY DEF tree
<1>2. \A u \in Threads : u # th => pc'[u] = pc[u] /\ cur'[u] = cur[u]
    BY DEF Others
<1>3. TreeInv'
    BY <1>1 DEF IInv, TreeInv
<1>4. NoneFreed'
    BY <1>1, <1>2 DEF IInv, NoneFreed
<1>5. \A u \in Threads : pc[u] = "stuck" => pc'[u] = "stuck" /\ cur'[u] = cur[u]
    BY <1>2
<1>6. QueryTruthful'
    <2>1. \A v \in VPages : query(v)' = query(v)
        BY <1>1 DEF query
    <2> QED BY <1>1, <1>5, <2>1 DEF IInv, QueryTruthful
<1>7. StuckOnlyAtOwnTable'
    <2> SUFFICES ASSUME NEW u \in Threads, pc'[u] = "stuck"
                 PROVE cur'[u][1] = 0 \/ ~\E t \in present : t # cur'[u] /\ Under(t, cur'[u])
        BY <1>1 DEF StuckOnlyAtOwnTable, level
    <2>1. pc[u] = "stuck" /\ cur'[u] = cur[u]
        BY <1>2
    <2> QED BY <2>1 DEF IInv, StuckOnlyAtOwnTable, level
<1> QED BY <1>3, <1>4, <1>6, <1>7

\* The guards of the others are what they were.
LEMMA OthersKeepGuards ==
  ASSUME NEW th \in Threads, Others(th), NEW u \in Threads, u # th, NEW t
  PROVE  Guards(u, t)' <=> Guards(u, t)
<1>1. pc'[u] = pc[u] /\ range'[u] = range[u] /\ cur'[u] = cur[u] /\ lvl'[u] = lvl[u]
    BY DEF Others
<1>2. start(u)' = start(u) /\ level(u)' = level(u)
    BY <1>1 DEF start, level
<1> QED BY <1>1, <1>2 DEF Guards

LEMMA LockStep == ASSUME Assumptions, IInv, NEW th \in Threads, NEW r \in Ranges, Lock(th, r) PROVE IInv'
<1> USE DEF Lock, Goto
<1>0. TypeOK /\ PathInv /\ LockInv /\ TableFacts
    BY TableLemma DEF IInv
<1>1. /\ pc[th] = "idle" /\ pc'[th] = "walk" /\ range'[th] = r /\ cur'[th] = Root
      /\ UNCHANGED <<present, pte, meta, readers, writer, at, current_pa, lvl>>
    BY <1>0 DEF TypeOK, tree, locks, work
<1>2. Others(th)
    BY <1>0, <1>1 DEF TypeOK, Others
<1>3. TypeOK'
    BY <1>0, <1>1 DEF TypeOK, TableFacts
<1>4. level(th)' = max_level
    BY <1>0, <1>1 DEF level, TableFacts
<1>5. PathInv'
    <2>1. \A k \in DOMAIN r : r[k] \in VPages
        BY DEF Assumptions
    <2>2. \A k \in DOMAIN r : Table(r[k], max_level) = Root
        BY <1>0, <2>1 DEF TableFacts
    <2>3. OnPath(th)'
        BY <1>1, <1>4, <2>2 DEF OnPath
    <2> QED BY <1>0, <1>2, <2>3, OthersKeepPath
<1>6. LockInv'
    <2>1. ASSUME NEW t \in Tables PROVE ~Guards(th, t) /\ ~Guards(th, t)'
        <3>1. t[1] \in 0 .. max_level /\ max_level \in Nat
            BY <1>0 DEF TableFacts, Levels, Assumptions
        <3> QED BY <1>1, <1>4, <3>1 DEF Guards
    <2>2. \A u \in Threads, t \in Tables : Guards(u, t)' <=> Guards(u, t)
        BY <1>2, <2>1, OthersKeepGuards
    <2>3. ASSUME NEW u \in Threads
          PROVE /\ (pc'[u] \in Working \cup {"drain"} <=> pc[u] \in Working \cup {"drain"})
                /\ (pc'[u] \in Working <=> pc[u] \in Working)
                /\ (pc[u] \in Working \cup {"drain"} => cur'[u] = cur[u])
        BY <1>1, <1>2 DEF Others, Working
    <2> QED BY <1>0, <1>1, <2>2, <2>3 DEF LockInv, Cursors
<1>7. TreeInv' /\ NoneFreed' /\ QueryTruthful' /\ StuckOnlyAtOwnTable'
    BY <1>1, <1>2, LocksKeepTree DEF IInv, TreeInv, tree
<1> QED BY <1>3, <1>5, <1>6, <1>7 DEF IInv

LEMMA DescendStep == ASSUME Assumptions, IInv, NEW th \in Threads, Descend(th) PROVE IInv'
<1> USE DEF Descend
<1>0. TypeOK /\ PathInv /\ LockInv /\ TableFacts
    BY TableLemma DEF IInv
<1>1. /\ pc[th] = "walk" /\ pc' = pc /\ range' = range /\ cur'[th] = Child(th)
      /\ readers' = [readers EXCEPT ![cur[th]] = @ \cup {th}] /\ Child(th) \in present
      /\ UNCHANGED <<present, pte, meta, writer, at, current_pa, lvl>>
    BY <1>0 DEF TypeOK, tree, work
<1>2. Others(th)
    BY <1>0, <1>1 DEF TypeOK, Others
<1>3. /\ range[th] \in Ranges /\ range[th] \in Seq(VPages) /\ 1 \in DOMAIN range[th]
      /\ \A k \in DOMAIN range[th] : range[th][k] \in VPages
      /\ start(th) \in VPages /\ cur[th] \in Tables
      /\ level(th) \in Levels /\ cur[th] = Table(start(th), level(th))
    BY <1>0, <1>1, ThreadFacts
<1>4. level(th) \in 1 .. max_level /\ level(th) - 1 \in Levels /\ max_level \in Nat
    BY <1>3 DEF Levels, Assumptions
<1>5. level(th)' = level(th) - 1
    BY <1>0, <1>1, <1>3, <1>4 DEF level, Child, TableFacts
<1>6. Child(th) \in Tables
    BY <1>0, <1>3, <1>4 DEF Child, TableFacts
<1>7. TypeOK'
    <2>1. cur' \in [Threads -> Tables]
        BY <1>0, <1>6 DEF TypeOK
    <2>2. readers' \in [Tables -> SUBSET Threads]
        BY <1>0, <1>1 DEF TypeOK
    <2> QED BY <1>0, <1>1, <2>1, <2>2 DEF TypeOK
<1>8. PathInv'
    <2>1. \A k \in DOMAIN range[th] : Table(range[th][k], level(th)) = Table(range[th][1], level(th))
        BY <1>0, <1>1, <1>3 DEF PathInv, OnPath
    <2>2. range[th][1][level(th)] = range[th][Len(range[th])][level(th)]
        BY DEF OneEntry, start, last, entry_index
    <2>3. \A k \in DOMAIN range[th] : Table(range[th][k], level(th) - 1) = Table(range[th][1], level(th) - 1)
        BY <1>3, <1>4, <2>1, <2>2, RangeLemma
    <2>4. OnPath(th)'
        BY <1>1, <1>3, <1>5, <2>3 DEF OnPath, Child, start
    <2> QED BY <1>0, <1>2, <2>4, OthersKeepPath
<1>9. LockInv'
    <2>1. ASSUME NEW t \in Tables PROVE Guards(th, t)' <=> Guards(th, t) \/ t = cur[th]
        <3>1. t[1] \in Nat
            BY <1>0 DEF TableFacts, Levels
        <3>2. start(th)' = start(th)
            BY <1>1 DEF start
        <3>3. Guards(th, t)' <=> level(th) <= t[1] /\ Table(start(th), t[1]) = t
            BY <1>1, <1>4, <1>5, <3>1, <3>2 DEF Guards
        <3>4. Guards(th, t) <=> level(th) < t[1] /\ Table(start(th), t[1]) = t
            BY <1>1 DEF Guards
        <3>5. t[1] = level(th) /\ Table(start(th), t[1]) = t <=> t = cur[th]
            BY <1>3 DEF level
        <3> QED BY <1>4, <3>1, <3>3, <3>4, <3>5
    <2>2. \A u \in Threads, t \in Tables : u # th => (Guards(u, t)' <=> Guards(u, t))
        BY <1>2, OthersKeepGuards
    <2>3. \A u \in Threads, t \in Tables : u \in readers'[t] <=> u \in readers[t] \/ (u = th /\ t = cur[th])
        BY <1>0, <1>1 DEF TypeOK
    <2>4. \A u \in Threads, t \in Tables : u \in readers'[t] <=> Guards(u, t)'
        BY <1>0, <2>1, <2>2, <2>3 DEF LockInv
    <2>5. \A u \in Threads : pc[u] \in Working \cup {"drain"} => u # th /\ cur'[u] = cur[u]
        BY <1>1, <1>2 DEF Others, Working
    <2>6. ASSUME NEW u \in Threads, pc[u] \in Working PROVE readers'[cur'[u]] = {}
        <3>1. cur'[u] = cur[u] /\ cur[u] \in Tables /\ readers[cur[u]] = {}
            BY <1>0, <2>5, <2>6 DEF LockInv, Cursors, TypeOK
        <3>2. writer[cur[u]] = u
            BY <1>0, <2>6, <3>1 DEF LockInv
        <3>3. cur[u] # cur[th]
            BY <3>2 DEF Assumptions
        <3>4. readers'[cur[u]] = readers[cur[u]]
            BY <1>0, <1>1, <3>1, <3>3 DEF TypeOK
        <3> QED BY <3>1, <3>4
    <2>7. ASSUME NEW u \in Threads, NEW t \in Tables
          PROVE writer'[t] = u <=> pc'[u] \in Working \cup {"drain"} /\ cur'[u] = t
        BY <1>0, <1>1, <2>5 DEF LockInv
    <2> QED BY <1>1, <2>4, <2>6, <2>7 DEF LockInv, Cursors
<1>10. TreeInv' /\ NoneFreed' /\ QueryTruthful' /\ StuckOnlyAtOwnTable'
    BY <1>1, <1>2, LocksKeepTree DEF tree
<1> QED BY <1>7, <1>8, <1>9, <1>10 DEF IInv

\* Steps on which only pc and the write guard of a thread change.
LEMMA ClaimStep ==
  ASSUME Assumptions, IInv, NEW th \in Threads, Covers(th) \/ Claim(th) \/ Drain(th)
  PROVE  IInv'
<1> USE DEF Covers, Claim, Drain, Goto
<1>0. TypeOK /\ PathInv /\ LockInv /\ TableFacts
    BY TableLemma DEF IInv
<1>1. /\ pc[th] \in {"walk", "write", "drain"} /\ pc'[th] \in {"write", "drain", "held"}
      /\ pc' = [pc EXCEPT ![th] = pc'[th]]
      /\ UNCHANGED <<present, pte, meta, readers, range, cur, at, current_pa, lvl>>
    BY <1>0 DEF TypeOK, tree, locks, work
<1>2. Others(th)
    BY <1>0, <1>1 DEF TypeOK, Others
<1>3. TypeOK'
    <2>1. pc' \in [Threads -> Working \cup {"idle", "walk", "write", "drain", "drop"}]
        BY <1>0, <1>1 DEF TypeOK, Working
    <2>2. writer' \in [Tables -> Threads \cup {None}]
        BY <1>0 DEF TypeOK, locks
    <2> QED BY <1>0, <1>1, <2>1, <2>2 DEF TypeOK
<1>4. PathInv'
    <2>1. OnPath(th)
        BY <1>0, <1>1 DEF PathInv
    <2>2. level(th)' = level(th)
        BY <1>1 DEF level
    <2>3. OnPath(th)'
        BY <1>1, <2>1, <2>2 DEF OnPath
    <2> QED BY <1>0, <1>2, <2>3, OthersKeepPath
<1>5. LockInv'
    <2>1. \A t \in Tables : Guards(th, t)' <=> Guards(th, t)
        <3>1. start(th)' = start(th) /\ level(th)' = level(th)
            BY <1>1 DEF start, level
        <3> QED BY <1>1, <3>1 DEF Guards
    <2>2. \A u \in Threads, t \in Tables : Guards(u, t)' <=> Guards(u, t)
        BY <1>2, <2>1, OthersKeepGuards
    <2>3. \A u \in Threads : u # th => pc'[u] = pc[u]
        BY <1>2 DEF Others
    <2>4. ASSUME NEW u \in Threads, NEW t \in Tables
          PROVE writer'[t] = u <=> pc'[u] \in Working \cup {"drain"} /\ cur'[u] = t
        <3>0. writer[t] = u <=> pc[u] \in Working \cup {"drain"} /\ cur[u] = t
            BY <1>0 DEF LockInv
        <3>1. CASE Covers(th)
            <4>1. writer' = writer /\ pc[th] = "walk" /\ pc'[th] = "write"
                BY <1>0, <3>1 DEF locks, TypeOK
            <4> QED BY <1>1, <2>3, <3>0, <4>1 DEF Working
        <3>2. CASE Claim(th)
            <4>1. /\ writer' = [writer EXCEPT ![cur[th]] = th] /\ writer[cur[th]] = None
                  /\ pc[th] = "write" /\ pc'[th] = "drain"
                BY <1>0, <3>2 DEF TypeOK
            <4>2. writer'[t] = IF t = cur[th] THEN th ELSE writer[t]
                BY <1>0, <4>1 DEF TypeOK
            <4>3. u # None
                BY DEF Assumptions
            <4>4. CASE u = th
                BY <1>1, <3>0, <4>1, <4>2, <4>4 DEF Working
            <4>5. CASE u # th
                BY <1>1, <2>3, <3>0, <4>1, <4>2, <4>3, <4>5
            <4> QED BY <4>4, <4>5
        <3>3. CASE Drain(th)
            <4>1. writer' = writer /\ pc[th] = "drain" /\ pc'[th] = "held"
                BY <1>0, <3>3 DEF locks, TypeOK
            <4> QED BY <1>1, <2>3, <3>0, <4>1 DEF Working
        <3> QED BY <3>1, <3>2, <3>3
    <2>5. ASSUME NEW u \in Threads, pc'[u] \in Working PROVE readers'[cur'[u]] = {}
        <3>1. CASE u # th
            BY <1>0, <1>1, <2>3, <2>5, <3>1 DEF LockInv, Cursors
        <3>2. CASE u = th
            <4>1. pc'[th] = "held"
                BY <1>1, <2>5, <3>2 DEF Working
            <4>2. Drain(th)
                BY <1>0, <4>1 DEF TypeOK
            <4> QED BY <1>1, <3>2, <4>2
        <3> QED BY <3>1, <3>2
    <2> QED BY <1>0, <1>1, <2>2, <2>4, <2>5 DEF LockInv, Cursors
<1>6. TreeInv' /\ NoneFreed' /\ QueryTruthful' /\ StuckOnlyAtOwnTable'
    <2>1. cur'[th] \in present
        BY <1>1 DEF IInv, NoneFreed
    <2>2. pc[th] # "stuck" /\ pc'[th] # "stuck"
        BY <1>1
    <2> QED BY <1>1, <1>2, <2>1, <2>2, LocksKeepTree DEF tree
<1> QED BY <1>3, <1>4, <1>5, <1>6 DEF IInv

LEMMA BeginStep ==
  ASSUME Assumptions, IInv, NEW th \in Threads, NEW op \in {"map", "mark", "unmap"}, NEW pa \in Nat,
         Begin(th, op, pa)
  PROVE  IInv'
<1> USE DEF Begin, Goto
<1>0. TypeOK /\ PathInv /\ LockInv
    BY DEF IInv
<1>1. /\ pc[th] = "held" /\ pc'[th] = op /\ at'[th] = 1
      /\ pc' = [pc EXCEPT ![th] = op]
      /\ UNCHANGED <<present, pte, meta, readers, writer, range, cur, lvl>>
    BY <1>0 DEF TypeOK, tree, locks
<1>2. Others(th)
    BY <1>0, <1>1 DEF TypeOK, Others
<1>3. TypeOK'
    <2>1. pc' \in [Threads -> Working \cup {"idle", "walk", "write", "drain", "drop"}]
        BY <1>0, <1>1 DEF TypeOK, Working
    <2>2. at' \in [Threads -> Nat] /\ current_pa' \in [Threads -> Nat]
        BY <1>0 DEF TypeOK
    <2> QED BY <1>0, <1>1, <2>1, <2>2 DEF TypeOK
<1>4. PathInv'
    <2>1. OnPath(th)
        BY <1>0, <1>1 DEF PathInv
    <2>2. level(th)' = level(th)
        BY <1>1 DEF level
    <2>3. 1 \in DOMAIN range[th]
        BY <1>0, <1>1, ThreadFacts
    <2>4. OnPath(th)'
        BY <1>1, <2>1, <2>2, <2>3 DEF OnPath
    <2> QED BY <1>0, <1>2, <2>4, OthersKeepPath
<1>5. LockInv'
    <2>1. op \in Working /\ pc[th] \in Working
        BY <1>1 DEF Working
    <2> QED BY <1>0, <1>1, <2>1, WorkKeepsLocks DEF locks
<1>6. TreeInv' /\ NoneFreed' /\ QueryTruthful' /\ StuckOnlyAtOwnTable'
    <2>1. cur'[th] \in present
        BY <1>1 DEF IInv, NoneFreed
    <2>2. pc[th] # "stuck" /\ pc'[th] # "stuck"
        BY <1>1
    <2> QED BY <1>1, <1>2, <2>1, <2>2, LocksKeepTree DEF tree
<1> QED BY <1>3, <1>4, <1>5, <1>6 DEF IInv

LEMMA DropWriteStep == ASSUME Assumptions, IInv, NEW th \in Threads, DropWrite(th) PROVE IInv'
<1> USE DEF DropWrite, Goto
<1>0. TypeOK /\ PathInv /\ LockInv /\ TableFacts
    BY TableLemma DEF IInv
<1>1. /\ pc[th] = "held" /\ pc'[th] = "drop" /\ lvl'[th] = level(th) + 1
      /\ writer' = [writer EXCEPT ![cur[th]] = None]
      /\ UNCHANGED <<present, pte, meta, readers, range, cur, at, current_pa>>
    BY <1>0 DEF TypeOK, tree, work
<1>2. Others(th)
    BY <1>0, <1>1 DEF TypeOK, Others
<1>3. level(th) \in Nat /\ cur[th] \in Tables
    BY <1>0, <1>1, ThreadFacts DEF Levels
<1>4. TypeOK'
    <2>1. pc' \in [Threads -> Working \cup {"idle", "walk", "write", "drain", "drop"}]
        BY <1>0 DEF TypeOK, Working
    <2>2. lvl' \in [Threads -> Nat] /\ writer' \in [Tables -> Threads \cup {None}]
        BY <1>0, <1>3 DEF TypeOK
    <2> QED BY <1>0, <1>1, <2>1, <2>2 DEF TypeOK
<1>5. level(th)' = level(th) /\ start(th)' = start(th)
    BY <1>1 DEF level, start
<1>6. PathInv'
    <2>1. OnPath(th)
        BY <1>0, <1>1 DEF PathInv
    <2>2. OnPath(th)'
        BY <1>1, <1>3, <1>5, <2>1 DEF OnPath
    <2> QED BY <1>0, <1>2, <2>2, OthersKeepPath
<1>7. LockInv'
    <2>1. ASSUME NEW t \in Tables PROVE Guards(th, t)' <=> Guards(th, t)
        <3>1. t[1] \in Nat
            BY <1>0 DEF TableFacts, Levels
        <3> QED BY <1>1, <1>3, <1>5, <3>1 DEF Guards
    <2>2. \A u \in Threads, t \in Tables : Guards(u, t)' <=> Guards(u, t)
        BY <1>2, <2>1, OthersKeepGuards
    <2>3. \A u \in Threads : u # th => pc'[u] = pc[u]
        BY <1>2 DEF Others
    <2>4. ASSUME NEW u \in Threads, NEW t \in Tables
          PROVE writer'[t] = u <=> pc'[u] \in Working \cup {"drain"} /\ cur'[u] = t
        <3>0. /\ writer[t] = u <=> pc[u] \in Working \cup {"drain"} /\ cur[u] = t
              /\ writer[t] = th <=> pc[th] \in Working \cup {"drain"} /\ cur[th] = t
            BY <1>0 DEF LockInv
        <3>1. writer'[t] = IF t = cur[th] THEN None ELSE writer[t]
            BY <1>0, <1>1 DEF TypeOK
        <3>2. u # None /\ th # None
            BY DEF Assumptions
        <3>3. pc[th] \in Working /\ pc'[th] \notin Working \cup {"drain"}
            BY <1>1 DEF Working
        <3> QED BY <1>1, <2>3, <3>0, <3>1, <3>2, <3>3
    <2>5. \A u \in Threads : pc'[u] \in Working => u # th /\ pc[u] \in Working
        BY <1>1, <2>3 DEF Working
    <2> QED BY <1>0, <1>1, <2>2, <2>4, <2>5 DEF LockInv, Cursors
<1>8. TreeInv' /\ NoneFreed' /\ QueryTruthful' /\ StuckOnlyAtOwnTable'
    <2>1. pc[th] # "stuck" /\ pc'[th] = "drop"
        BY <1>1
    <2> QED BY <1>1, <1>2, <2>1, LocksKeepTree DEF tree
<1> QED BY <1>4, <1>6, <1>7, <1>8 DEF IInv

LEMMA DropReadStep == ASSUME Assumptions, IInv, NEW th \in Threads, DropRead(th) PROVE IInv'
<1> USE DEF DropRead
<1>0. TypeOK /\ PathInv /\ LockInv /\ TableFacts
    BY TableLemma DEF IInv
<1>1. /\ pc[th] = "drop" /\ UNCHANGED <<present, pte, meta, writer, at, current_pa>>
      /\ pc'[th] \in {"drop", "idle"}
    BY <1>0 DEF TypeOK, tree, work
<1>2. Others(th)
    BY <1>0, <1>1 DEF TypeOK, Others
<1>3. /\ start(th) \in VPages /\ level(th) \in Nat /\ lvl[th] \in Nat /\ lvl[th] > level(th)
      /\ max_level \in Nat
    BY <1>0, <1>1, ThreadFacts DEF Levels, TypeOK, PathInv, OnPath, Assumptions
<1>4. TreeInv' /\ NoneFreed' /\ QueryTruthful' /\ StuckOnlyAtOwnTable'
    BY <1>1, <1>2, LocksKeepTree DEF tree
<1>5. ASSUME NEW u \in Threads
      PROVE pc'[u] \in Working \cup {"drain"} <=> u # th /\ pc[u] \in Working \cup {"drain"}
    BY <1>1, <1>2 DEF Others, Working
<1>6. CASE lvl[th] > max_level
    <2>1. /\ pc'[th] = "idle" /\ range'[th] = <<>> /\ cur'[th] = Root /\ lvl'[th] = 0
          /\ UNCHANGED readers
        BY <1>0, <1>6 DEF TypeOK
    <2>2. TypeOK'
        <3>1. pc' \in [Threads -> Working \cup {"idle", "walk", "write", "drain", "drop"}]
            BY <1>0, <1>6 DEF TypeOK
        <3>2. range' \in [Threads -> Ranges \cup {<<>>}]
            BY <1>0, <1>6 DEF TypeOK
        <3>3. cur' \in [Threads -> Tables]
            BY <1>0, <1>6 DEF TypeOK, TableFacts
        <3>4. lvl' \in [Threads -> Nat]
            <4>1. lvl \in [Threads -> Nat]
                BY <1>0 DEF TypeOK
            <4>2. lvl' = [lvl EXCEPT ![th] = 0]
                BY <1>6
            <4> QED BY ONLY <4>1, <4>2
        <3> QED BY <1>0, <1>1, <2>1, <3>1, <3>2, <3>3, <3>4 DEF TypeOK
    <2>3. PathInv'
        BY <1>0, <1>2, <2>1, OthersKeepPath
    <2>4. LockInv'
        <3>1. ASSUME NEW t \in Tables PROVE ~Guards(th, t) /\ ~Guards(th, t)'
            <4>1. t[1] \in Nat /\ t[1] <= max_level
                BY <1>0, <1>3 DEF TableFacts, Levels
            <4> QED BY <1>1, <1>3, <1>6, <2>1, <4>1 DEF Guards
        <3>2. \A u \in Threads, t \in Tables : Guards(u, t)' <=> Guards(u, t)
            BY <1>2, <3>1, OthersKeepGuards
        <3>3. \A u \in Threads : u # th => pc'[u] = pc[u] /\ cur'[u] = cur[u]
            BY <1>2 DEF Others
        <3>4. pc[th] \notin Working \cup {"drain"}
            BY <1>1 DEF Working
        <3>5. \A u \in Threads : pc'[u] \in Working => u # th
            BY <2>1 DEF Working
        <3> QED BY <1>0, <1>1, <1>5, <2>1, <3>2, <3>3, <3>4, <3>5 DEF LockInv, Cursors
    <2> QED BY <1>4, <2>2, <2>3, <2>4 DEF IInv
<1>7. CASE lvl[th] <= max_level
    <2> DEFINE low == Table(start(th), lvl[th])
    <2>0. lvl[th] \in Levels /\ low \in Tables /\ low[1] = lvl[th]
        BY <1>0, <1>3, <1>7 DEF TableFacts, Levels
    <2>1. /\ pc' = pc /\ range' = range /\ cur' = cur /\ lvl'[th] = lvl[th] + 1
          /\ readers' = [readers EXCEPT ![low] = @ \ {th}]
          /\ lvl' = [lvl EXCEPT ![th] = @ + 1]
        BY <1>0, <1>3, <1>7 DEF TypeOK
    <2> HIDE DEF low
    <2>2. TypeOK'
        <3>0. lvl \in [Threads -> Nat]
            BY <1>0 DEF TypeOK
        <3>1. lvl' \in [Threads -> Nat]
            BY ONLY <2>1, <3>0
        <3>2. readers' \in [Tables -> SUBSET Threads]
            BY <1>0, <2>0, <2>1 DEF TypeOK
        <3> QED BY <1>0, <1>1, <2>1, <3>1, <3>2 DEF TypeOK
    <2>3. level(th)' = level(th) /\ start(th)' = start(th)
        BY <2>1 DEF level, start
    <2>4. PathInv'
        <3>1. OnPath(th)
            BY <1>0, <1>1 DEF PathInv
        <3>2. OnPath(th)'
            BY <1>1, <1>3, <2>1, <2>3, <3>1 DEF OnPath
        <3> QED BY <1>0, <1>2, <3>2, OthersKeepPath
    <2>5. LockInv'
        <3>1. ASSUME NEW t \in Tables PROVE Guards(th, t)' <=> Guards(th, t) /\ t # low
            <4>1. t[1] \in Nat
                BY <1>0 DEF TableFacts, Levels
            <4>2. Guards(th, t) <=> lvl[th] <= t[1] /\ Table(start(th), t[1]) = t
                BY <1>1, <1>3, <4>1 DEF Guards
            <4>3. Guards(th, t)' <=> lvl[th] + 1 <= t[1] /\ Table(start(th), t[1]) = t
                BY <1>1, <1>3, <2>1, <2>3, <4>1 DEF Guards
            <4>4. t[1] = lvl[th] /\ Table(start(th), t[1]) = t <=> t = low
                BY <2>0 DEF low
            <4> QED BY <1>3, <4>1, <4>2, <4>3, <4>4
        <3>2. \A u \in Threads, t \in Tables : u # th => (Guards(u, t)' <=> Guards(u, t))
            BY <1>2, OthersKeepGuards
        <3>3. \A u \in Threads, t \in Tables : u \in readers'[t] <=> u \in readers[t] /\ ~(u = th /\ t = low)
            BY <1>0, <2>1 DEF TypeOK
        <3>4. \A u \in Threads, t \in Tables : u \in readers'[t] <=> Guards(u, t)'
            BY <1>0, <3>1, <3>2, <3>3 DEF LockInv
        <3>5. ASSUME NEW u \in Threads, pc[u] \in Working PROVE readers'[cur[u]] = {}
            <4>1. readers[cur[u]] = {} /\ cur[u] \in Tables
                BY <1>0, <3>5 DEF LockInv, Cursors, TypeOK
            <4>2. readers'[cur[u]] \subseteq readers[cur[u]]
                BY <1>0, <2>1, <4>1 DEF TypeOK
            <4> QED BY <4>1, <4>2
        <3> QED BY <1>0, <1>1, <2>1, <3>4, <3>5 DEF LockInv, Cursors
    <2> QED BY <1>4, <2>2, <2>4, <2>5 DEF IInv
<1> QED BY <1>3, <1>6, <1>7

\* What a cursor at work has before it: a page below the table it covers.
LEMMA AtPage ==
  ASSUME Assumptions, TypeOK, PathInv, NEW th \in Threads, pc[th] \in {"map", "mark", "unmap", "prune"}
  PROVE  /\ va(th) \in VPages /\ level(th) \in Levels /\ cur[th] = Table(va(th), level(th))
         /\ range[th] \in Ranges /\ range[th] \in Seq(VPages) /\ at[th] \in DOMAIN range[th]
         /\ pc[th] \in Working
<1>1. OnPath(th)
    BY DEF PathInv
<1>2. at[th] \in DOMAIN range[th]
    BY <1>1 DEF OnPath
<1> QED BY <1>1, <1>2, ThreadFacts DEF OnPath, va, Working

\* How a page's step ends, with the next page or stuck.
LEMMA LeafUpdate ==
  ASSUME Assumptions, TypeOK, PathInv, LockInv, NEW th \in Threads,
         pc[th] \in {"map", "mark", "unmap", "prune"}, NEW op \in {"map", "mark", "unmap"},
         NEW m, m = [v \in VPages |-> m[v]], NEW status, update_leaf_meta(th, op, m, status),
         present' \subseteq Tables, pte' \in [VPages -> Nat],
         lvl' \in [Threads -> Nat], \A u \in Threads \ {th} : lvl'[u] = lvl[u],
         UNCHANGED <<readers, writer, range, cur>>
  PROVE  /\ TypeOK' /\ PathInv' /\ LockInv' /\ Others(th)
         /\ pc'[th] \in Working
         /\ pc'[th] = "stuck" <=> level(th) = 0
         /\ \A v \in VPages : v # va(th) => meta'[v] = m[v]
         /\ meta'[va(th)] = IF level(th) # 0 /\ Table(va(th), 0) \in present' THEN status ELSE m[va(th)]
<1>0. /\ va(th) \in VPages /\ level(th) \in Levels /\ cur[th] = Table(va(th), level(th))
      /\ range[th] \in Ranges /\ range[th] \in Seq(VPages) /\ at[th] \in DOMAIN range[th]
      /\ pc[th] \in Working
    BY AtPage
<1>1. PICK x \in {"held", op, "stuck"} :
        /\ pc' = [pc EXCEPT ![th] = x]
        /\ x = "stuck" <=> level(th) = 0
        /\ at' \in [Threads -> Nat] /\ current_pa' \in [Threads -> Nat]
        /\ \A u \in Threads \ {th} : at'[u] = at[u]
        /\ x = op => at'[th] \in DOMAIN range[th]
    <2>0. at \in [Threads -> Nat] /\ current_pa \in [Threads -> Nat]
        BY DEF TypeOK
    <2>1. CASE level(th) = 0
        <3>1. pc' = [pc EXCEPT ![th] = "stuck"] /\ at' = at /\ current_pa' = current_pa
            BY <2>1 DEF update_leaf_meta, Wait, work
        <3> QED BY <2>0, <2>1, <3>1
    <2>2. CASE level(th) # 0 /\ at[th] = Len(range[th])
        <3>1. /\ pc' = [pc EXCEPT ![th] = "held"] /\ at' = [at EXCEPT ![th] = 0]
              /\ current_pa' = [current_pa EXCEPT ![th] = 0]
            BY <2>2 DEF update_leaf_meta, NextPage
        <3> QED BY <2>0, <2>2, <3>1
    <2>3. CASE level(th) # 0 /\ at[th] # Len(range[th])
        <3>1. /\ pc' = [pc EXCEPT ![th] = op] /\ at' = [at EXCEPT ![th] = @ + 1]
              /\ current_pa' = [current_pa EXCEPT ![th] = IF op = "map" THEN @ + 1 ELSE 0]
            BY <2>3 DEF update_leaf_meta, NextPage
        <3>2. at' \in [Threads -> Nat] /\ \A u \in Threads \ {th} : at'[u] = at[u]
            BY ONLY <2>0, <3>1
        <3>3. current_pa' \in [Threads -> Nat]
            <4>1. (IF op = "map" THEN current_pa[th] + 1 ELSE 0) \in Nat
                BY <2>0
            <4> QED BY ONLY <2>0, <3>1, <4>1
        <3>4. at'[th] \in DOMAIN range[th]
            <4>1. Len(range[th]) \in Nat /\ DOMAIN range[th] = 1 .. Len(range[th])
                BY <1>0
            <4>2. at'[th] = at[th] + 1
                BY <2>0, <3>1
            <4> QED BY <1>0, <2>3, <4>1, <4>2
        <3> QED BY <2>3, <3>1, <3>2, <3>3, <3>4
    <2> QED BY <2>1, <2>2, <2>3
<1>2. x \in Working /\ x \notin {"prune", "drop", "idle"}
    BY DEF Working
<1>3. pc'[th] = x /\ \A u \in Threads \ {th} : pc'[u] = pc[u]
    BY <1>1 DEF TypeOK
<1>4. Others(th)
    BY <1>1, <1>3 DEF Others
<1>5. /\ \A v \in VPages : v # va(th) => meta'[v] = m[v]
      /\ meta'[va(th)] = IF level(th) # 0 /\ Table(va(th), 0) \in present' THEN status ELSE m[va(th)]
      /\ meta' = [v \in VPages |-> meta'[v]]
    <2>1. meta' = IF level(th) # 0 /\ Table(va(th), 0) \in present' THEN [m EXCEPT ![va(th)] = status] ELSE m
        BY DEF update_leaf_meta
    <2>2. CASE level(th) # 0 /\ Table(va(th), 0) \in present'
        <3>1. meta' = [m EXCEPT ![va(th)] = status]
            BY <2>1, <2>2
        <3>2. meta' = [v \in VPages |-> IF v = va(th) THEN status ELSE m[v]]
            BY <1>0, <3>1
        <3> HIDE DEF update_leaf_meta
        <3> QED BY <1>0, <2>2, <3>2
    <2>3. CASE ~(level(th) # 0 /\ Table(va(th), 0) \in present')
        <3>1. meta' = m
            BY <2>1, <2>3
        <3> QED BY <2>3, <3>1
    <2> QED BY <2>2, <2>3
<1>6. TypeOK'
    <2>1. pc' \in [Threads -> Working \cup {"idle", "walk", "write", "drain", "drop"}]
        BY <1>1, <1>2 DEF TypeOK
    <2> QED BY <1>1, <1>5, <2>1 DEF TypeOK
<1>7. PathInv'
    <2>1. OnPath(th)
        BY DEF PathInv
    <2>2. level(th)' = level(th)
        BY DEF level
    <2>3. OnPath(th)'
        BY <1>1, <1>2, <1>3, <2>1, <2>2 DEF OnPath
    <2> QED BY <1>4, <2>3, OthersKeepPath
<1>8. LockInv'
    BY <1>0, <1>1, <1>2, WorkKeepsLocks DEF locks
<1> QED BY <1>1, <1>2, <1>3, <1>4, <1>5, <1>6, <1>7, <1>8

\* A query of a page that is mapped reads the leaf's meta.
LEMMA QueryOf ==
  ASSUME TreeInv, QueryTruthful, NEW v \in VPages, pte[v] # 0, meta[v][1] = "Mapped"
  PROVE  \/ meta[v] = Mapped(pte[v])
         \/ \E u \in Threads : pc[u] = "stuck" /\ Under(Table(v, 0), cur[u])
<1>1. query(v) = meta[v]
    BY DEF TreeInv, query
<1> QED BY <1>1 DEF QueryTruthful

LEMMA QueryNext ==
  ASSUME \A v \in VPages : pte'[v] # 0 /\ meta'[v][1] = "Mapped" =>
            \/ meta'[v] = Mapped(pte'[v])
            \/ \E u \in Threads : pc'[u] = "stuck" /\ Under(Table(v, 0), cur'[u])
  PROVE  QueryTruthful'
<1> SUFFICES ASSUME NEW v \in VPages, query(v)'[1] = "Mapped"
             PROVE \/ query(v)' = Mapped(pte'[v])
                   \/ \E u \in Threads : pc'[u] = "stuck" /\ Under(Table(v, 0), cur'[u])
    BY DEF QueryTruthful, Mapped
<1>1. pte'[v] # 0 /\ query(v)' = meta'[v]
    BY DEF query, Invalid
<1> QED BY <1>1

\* map and mark make the tables of a page; nobody else is there.
LEMMA GrowKeepsTree ==
  ASSUME Assumptions, IInv, NEW th \in Threads, pc[th] \in {"map", "mark"},
         ensure_leaf_table(va(th)), UNCHANGED cur, Others(th),
         pc'[th] \in Working, pc'[th] = "stuck" => level(th) = 0,
         \A v \in VPages : v # va(th) => pte'[v] = pte[v]
  PROVE  TreeInv' /\ NoneFreed' /\ StuckOnlyAtOwnTable' /\ Table(va(th), 0) \in present'
         /\ present' \subseteq Tables
<1>0. TypeOK /\ PathInv /\ LockInv /\ TreeInv /\ TableFacts
    BY TableLemma DEF IInv
<1>1. /\ va(th) \in VPages /\ level(th) \in Levels /\ cur[th] = Table(va(th), level(th))
      /\ pc[th] \in Working
    BY <1>0, AtPage
<1>2. present' = present \cup {Table(va(th), l) : l \in Levels}
    BY DEF ensure_leaf_table
<1>3. 0 \in Levels
    BY DEF Levels, Assumptions
<1>4. Table(va(th), 0) \in present'
    BY <1>2, <1>3
<1>5. present' \subseteq Tables
    BY <1>0, <1>1, <1>2 DEF TypeOK, TableFacts
<1>6. TreeInv'
    <2>1. ASSUME NEW v \in VPages, NEW k \in Levels, NEW l \in Levels, k <= l, Table(v, k) \in present'
          PROVE Table(v, l) \in present'
        <3>1. CASE Table(v, k) \in present
            BY <1>0, <1>2, <2>1, <3>1 DEF TreeInv
        <3>2. CASE Table(v, k) \notin present
            <4>1. PICK j \in Levels : Table(v, k) = Table(va(th), j)
                BY <1>2, <2>1, <3>2
            <4>2. j = k
                <5>1. Table(v, k)[1] = k /\ Table(va(th), j)[1] = j
                    BY <1>1, LevelOf
                <5> QED BY <4>1, <5>1
            <4>3. Table(v, l) = Table(va(th), l)
                BY <1>1, <2>1, <4>1, <4>2, SameAbove
            <4> QED BY <1>2, <4>3
        <3> QED BY <3>1, <3>2
    <2>2. ASSUME NEW v \in VPages, pte'[v] # 0 PROVE Table(v, 0) \in present'
        BY <1>0, <1>2, <1>4, <2>2 DEF TreeInv
    <2>3. Root \in present'
        BY <1>0, <1>2 DEF TreeInv
    <2> QED BY <2>1, <2>2, <2>3 DEF TreeInv
<1>7. NoneFreed'
    <2>1. \A u \in Threads : pc'[u] \notin {"idle", "drop"} => pc[u] \notin {"idle", "drop"}
        BY <1>1 DEF Others, Working
    <2> QED BY <1>2, <2>1 DEF IInv, NoneFreed
<1>8. StuckOnlyAtOwnTable'
    <2> SUFFICES ASSUME NEW u \in Threads, pc'[u] = "stuck", level(u) # 0,
                        NEW t \in present', t # cur[u], Under(t, cur[u])
                 PROVE FALSE
        BY DEF StuckOnlyAtOwnTable, level
    <2>1. u # th /\ pc[u] = "stuck"
        BY DEF Others
    <2>2. t \notin present
        BY <2>1 DEF IInv, StuckOnlyAtOwnTable
    <2>3. PICK l \in Levels : t = Table(va(th), l)
        BY <1>2, <2>2
    <2>4. /\ start(u) \in VPages /\ level(u) \in Levels /\ cur[u] = Table(start(u), level(u))
        BY <1>0, <2>1, ThreadFacts
    <2>5. Table(va(th), level(u)) = cur[u]
        BY <1>0, <1>1, <2>3, <2>4 DEF TableFacts
    <2>6. pc[u] \in Working /\ pc[u] \notin {"idle", "drop"}
        BY <2>1 DEF Working
    <2> QED BY <1>0, <1>1, <2>1, <2>5, <2>6, Alone
<1> QED BY <1>4, <1>5, <1>6, <1>7, <1>8

LEMMA MapMarkStep ==
  ASSUME Assumptions, IInv, NEW th \in Threads, MapPage(th) \/ MarkPage(th)
  PROVE  IInv'
<1>0. TypeOK /\ PathInv /\ LockInv /\ TreeInv /\ QueryTruthful /\ TableFacts
    BY TableLemma DEF IInv
<1>1. PICK op \in {"map", "mark"}, status \in {Mapped(current_pa[th]), PrivateAnonymous} :
        /\ pc[th] = op /\ ensure_leaf_table(va(th))
        /\ update_leaf_meta(th, op, FreshMeta(va(th)), status)
        /\ op = "map" => pte' = [pte EXCEPT ![va(th)] = current_pa[th]] /\ status = Mapped(current_pa[th])
        /\ op = "mark" => pte' = pte /\ status = PrivateAnonymous
        /\ UNCHANGED <<readers, writer, range, cur, lvl>>
    BY DEF MapPage, MarkPage, locks
<1>2. /\ va(th) \in VPages /\ level(th) \in Levels /\ cur[th] = Table(va(th), level(th))
      /\ pc[th] \in Working
    BY <1>0, <1>1, AtPage
<1>3. pte' \in [VPages -> Nat] /\ \A v \in VPages : v # va(th) => pte'[v] = pte[v]
    <2>1. pte \in [VPages -> Nat] /\ current_pa[th] \in Nat
        BY <1>0 DEF TypeOK
    <2> QED BY <1>1, <2>1
<1> DEFINE m == FreshMeta(va(th))
<1>4. m = [v \in VPages |-> m[v]]
    <2>1. CASE Table(va(th), 0) \in present
        BY <1>0, <2>1 DEF TypeOK, FreshMeta
    <2>2. CASE Table(va(th), 0) \notin present
        BY <2>2 DEF FreshMeta, Forget
    <2> QED BY <2>1, <2>2
<1>5. ASSUME NEW v \in VPages, pte[v] # 0 PROVE m[v] = meta[v]
    <2>1. Table(v, 0) \in present
        BY <1>0, <1>5 DEF TreeInv
    <2>2. CASE Table(va(th), 0) \in present
        BY <2>2 DEF FreshMeta
    <2>3. CASE Table(va(th), 0) \notin present
        <3>1. Table(v, 0) # Table(va(th), 0)
            BY <2>1, <2>3
        <3> QED BY <2>3, <3>1 DEF FreshMeta, Forget
    <2> QED BY <2>2, <2>3
<1>6. present' \subseteq Tables
    BY <1>0, <1>1, <1>2 DEF ensure_leaf_table, TypeOK, TableFacts
<1>7. lvl' \in [Threads -> Nat] /\ \A u \in Threads \ {th} : lvl'[u] = lvl[u]
    BY <1>0, <1>1 DEF TypeOK
<1>8. update_leaf_meta(th, op, m, status)
    BY <1>1
<1> HIDE DEF m
<1>9. /\ TypeOK' /\ PathInv' /\ LockInv' /\ Others(th)
      /\ pc'[th] \in Working
      /\ pc'[th] = "stuck" <=> level(th) = 0
      /\ \A v \in VPages : v # va(th) => meta'[v] = m[v]
      /\ meta'[va(th)] = IF level(th) # 0 /\ Table(va(th), 0) \in present' THEN status ELSE m[va(th)]
    <2>1. pc[th] \in {"map", "mark", "unmap", "prune"} /\ op \in {"map", "mark", "unmap"}
        BY <1>1
    <2>2. UNCHANGED <<readers, writer, range, cur>>
        BY <1>1
    <2> QED BY <1>0, <1>3, <1>4, <1>6, <1>7, <1>8, <2>1, <2>2, LeafUpdate
<1>10. TreeInv' /\ NoneFreed' /\ StuckOnlyAtOwnTable' /\ Table(va(th), 0) \in present'
    <2>1. pc[th] \in {"map", "mark"} /\ UNCHANGED cur
        BY <1>1
    <2> QED BY <1>1, <1>3, <1>9, <2>1, GrowKeepsTree
<1>11. QueryTruthful'
    <2> SUFFICES ASSUME NEW v \in VPages, pte'[v] # 0, meta'[v][1] = "Mapped"
                 PROVE \/ meta'[v] = Mapped(pte'[v])
                       \/ \E u \in Threads : pc'[u] = "stuck" /\ Under(Table(v, 0), cur'[u])
        BY QueryNext
    <2>1. ASSUME pte[v] # 0, pte'[v] = pte[v], meta'[v] = m[v]
          PROVE \/ meta'[v] = Mapped(pte'[v])
                \/ \E u \in Threads : pc'[u] = "stuck" /\ Under(Table(v, 0), cur'[u])
        <3>1. meta'[v] = meta[v]
            BY <1>5, <2>1
        <3>2. \/ meta[v] = Mapped(pte[v])
              \/ \E u \in Threads : pc[u] = "stuck" /\ Under(Table(v, 0), cur[u])
            BY <1>0, <2>1, <3>1, QueryOf
        <3>3. \A u \in Threads : pc[u] = "stuck" => pc'[u] = "stuck" /\ cur'[u] = cur[u]
            BY <1>1, <1>9 DEF Others
        <3> QED BY <2>1, <3>1, <3>2, <3>3
    <2>2. CASE v # va(th)
        BY <1>3, <1>9, <2>1, <2>2
    <2>3. CASE v = va(th) /\ level(th) # 0
        <3>1. meta'[v] = status
            BY <1>9, <1>10, <2>3
        <3>2. op = "map"
            <4>1. CASE op = "mark"
                <5>1. meta'[v] = <<"PrivateAnonymous">>
                    BY <1>1, <3>1, <4>1, Zenon DEF PrivateAnonymous
                <5> QED BY <5>1
            <4> QED BY <1>1, <4>1, Zenon
        <3>3. pte'[v] = current_pa[th]
            BY <1>0, <1>1, <1>2, <2>3, <3>2 DEF TypeOK
        <3> QED BY <1>1, <3>1, <3>2, <3>3
    <2>4. CASE v = va(th) /\ level(th) = 0
        <3>1. pc'[th] = "stuck" /\ cur'[th] = Table(v, 0)
            <4>1. cur' = cur
                BY <1>1
            <4> QED BY <1>2, <1>9, <2>4, <4>1, Zenon
        <3>2. 0 \in Levels
            BY <1>2, <2>4
        <3>3. Under(Table(v, 0), Table(v, 0))
            BY <1>0, <3>2 DEF TableFacts
        <3> QED BY <3>1, <3>3
    <2> QED BY <2>2, <2>3, <2>4
<1> QED BY <1>9, <1>10, <1>11 DEF IInv

LEMMA UnmapStep ==
  ASSUME Assumptions, IInv, NEW th \in Threads, UnmapPage(th) \/ Pruned(th)
  PROVE  IInv'
<1>0. TypeOK /\ PathInv /\ LockInv /\ TreeInv /\ NoneFreed /\ QueryTruthful /\ StuckOnlyAtOwnTable
    BY DEF IInv
<1>1. /\ pc[th] \in {"map", "mark", "unmap", "prune"}
      /\ UNCHANGED <<present, readers, writer, range, cur>>
      /\ lvl' \in [Threads -> Nat] /\ \A u \in Threads \ {th} : lvl'[u] = lvl[u]
    <2>1. lvl \in [Threads -> Nat]
        BY <1>0 DEF TypeOK
    <2>2. UNCHANGED lvl \/ lvl' = [lvl EXCEPT ![th] = 0]
        BY DEF UnmapPage, Pruned
    <2>3. lvl' \in [Threads -> Nat] /\ \A u \in Threads \ {th} : lvl'[u] = lvl[u]
        BY ONLY <2>1, <2>2
    <2>4. pc[th] \in {"unmap", "prune"} /\ UNCHANGED <<present, readers, writer, range, cur>>
        BY DEF UnmapPage, Pruned, locks
    <2> QED BY <2>3, <2>4
<1>2. /\ va(th) \in VPages /\ level(th) \in Levels /\ cur[th] = Table(va(th), level(th))
      /\ pc[th] \in Working
    BY <1>0, <1>1, AtPage
<1>3. level(th)' = level(th)
    BY <1>1 DEF level
\* the page is done
<1>4. CASE update_leaf_meta(th, "unmap", meta, Invalid) /\ UNCHANGED pte
    <2>1. pte' \in [VPages -> Nat] /\ meta = [v \in VPages |-> meta[v]] /\ present' \subseteq Tables
        BY <1>0, <1>1, <1>4 DEF TypeOK
    <2>2. /\ TypeOK' /\ PathInv' /\ LockInv' /\ Others(th)
          /\ pc'[th] \in Working
          /\ pc'[th] = "stuck" <=> level(th) = 0
          /\ \A v \in VPages : v # va(th) => meta'[v] = meta[v]
          /\ meta'[va(th)] = IF level(th) # 0 /\ Table(va(th), 0) \in present' THEN Invalid ELSE meta[va(th)]
        BY <1>0, <1>1, <1>4, <2>1, LeafUpdate
    <2>3. TreeInv'
        BY <1>0, <1>1, <1>4 DEF TreeInv
    <2>4. NoneFreed'
        <3>1. \A u \in Threads : pc'[u] \notin {"idle", "drop"} => pc[u] \notin {"idle", "drop"}
            BY <1>2, <2>2 DEF Others, Working
        <3> QED BY <1>0, <1>1, <3>1 DEF NoneFreed
    <2>5. StuckOnlyAtOwnTable'
        <3>1. \A u \in Threads : pc'[u] = "stuck" => pc[u] = "stuck" \/ level(u) = 0
            BY <2>2 DEF Others
        <3> QED BY <1>0, <1>1, <3>1 DEF StuckOnlyAtOwnTable, level
    <2>6. QueryTruthful'
        <3> SUFFICES ASSUME NEW v \in VPages, pte'[v] # 0, meta'[v][1] = "Mapped"
                     PROVE \/ meta'[v] = Mapped(pte'[v])
                           \/ \E u \in Threads : pc'[u] = "stuck" /\ Under(Table(v, 0), cur'[u])
            BY QueryNext
        <3>1. meta'[v] = meta[v] \/ meta'[v] = Invalid
            BY <2>2
        <3>2. meta'[v] = meta[v] /\ pte'[v] = pte[v]
            BY <1>4, <3>1 DEF Invalid
        <3>3. \/ meta[v] = Mapped(pte[v])
              \/ \E u \in Threads : pc[u] = "stuck" /\ Under(Table(v, 0), cur[u])
            BY <1>0, <3>2, QueryOf
        <3>4. \A u \in Threads : pc[u] = "stuck" => pc'[u] = "stuck" /\ cur'[u] = cur[u]
            BY <1>1, <2>2 DEF Others
        <3> QED BY <3>2, <3>3, <3>4
    <2> QED BY <2>2, <2>3, <2>4, <2>5, <2>6 DEF IInv
  \* the entry is cleared
<1>5. CASE /\ pte' = [pte EXCEPT ![va(th)] = 0] /\ pc' = [pc EXCEPT ![th] = "prune"]
           /\ lvl' = [lvl EXCEPT ![th] = 0] /\ UNCHANGED <<meta, at, current_pa>>
    <2>1. pc'[th] = "prune" /\ lvl'[th] = 0
        BY <1>0, <1>5 DEF TypeOK
    <2>2. Others(th)
        BY <1>0, <1>1, <1>5 DEF Others, TypeOK
    <2>3. TypeOK'
        <3>1. pc' \in [Threads -> Working \cup {"idle", "walk", "write", "drain", "drop"}]
            BY <1>0, <1>5 DEF TypeOK, Working
        <3>2. pte' \in [VPages -> Nat]
            BY <1>0, <1>5 DEF TypeOK
        <3> QED BY <1>0, <1>1, <1>5, <3>1, <3>2 DEF TypeOK
    <2>4. PathInv'
        <3>1. OnPath(th)
            BY <1>0, <1>1 DEF PathInv
        <3>2. level(th) \in Nat
            BY <1>2 DEF Levels
        <3>3. OnPath(th)'
            <4>1. UNCHANGED <<range, cur, at>> /\ pc[th] \in {"map", "mark", "unmap", "prune"}
                BY <1>1, <1>5
            <4>2. range'[th] \in Ranges /\ (\A k \in DOMAIN range'[th] : Table(range'[th][k], level(th)) = cur'[th])
                  /\ at'[th] \in DOMAIN range'[th]
                BY <3>1, <4>1 DEF OnPath
            <4>3. pc'[th] # "drop" /\ lvl'[th] <= level(th)
                BY <2>1, <3>2
            <4> QED BY <1>3, <4>2, <4>3 DEF OnPath
        <3> QED BY <1>0, <2>2, <3>3, OthersKeepPath
    <2>5. LockInv'
        <3>1. "prune" \in Working
            BY DEF Working
        <3> QED BY <1>0, <1>1, <1>2, <1>5, <3>1, WorkKeepsLocks DEF locks
    <2>6. ASSUME NEW v \in VPages, pte'[v] # 0 PROVE pte'[v] = pte[v]
        BY <1>0, <1>2, <1>5, <2>6 DEF TypeOK
    <2>7. TreeInv'
        BY <1>0, <1>1, <2>6 DEF TreeInv
    <2>8. NoneFreed'
        <3>1. \A u \in Threads : pc'[u] \notin {"idle", "drop"} => pc[u] \notin {"idle", "drop"}
            BY <1>2, <2>2 DEF Others, Working
        <3> QED BY <1>0, <1>1, <3>1 DEF NoneFreed
    <2>9. \A u \in Threads : (pc'[u] = "stuck" <=> pc[u] = "stuck")
        BY <1>1, <2>1, <2>2 DEF Others
    <2>10. StuckOnlyAtOwnTable'
        BY <1>0, <1>1, <2>9 DEF StuckOnlyAtOwnTable, level
    <2>11. QueryTruthful'
        <3> SUFFICES ASSUME NEW v \in VPages, pte'[v] # 0, meta'[v][1] = "Mapped"
                     PROVE \/ meta'[v] = Mapped(pte'[v])
                           \/ \E u \in Threads : pc'[u] = "stuck" /\ Under(Table(v, 0), cur'[u])
            BY QueryNext
        <3>1. meta'[v] = meta[v] /\ pte'[v] = pte[v]
            BY <1>5, <2>6
        <3>2. \/ meta[v] = Mapped(pte[v])
              \/ \E u \in Threads : pc[u] = "stuck" /\ Under(Table(v, 0), cur[u])
            BY <1>0, <3>1, QueryOf
        <3> QED BY <1>1, <2>9, <3>1, <3>2
    <2> QED BY <2>3, <2>4, <2>5, <2>7, <2>8, <2>10, <2>11 DEF IInv
<1> QED BY <1>4, <1>5 DEF UnmapPage, Pruned, work

LEMMA QueryStep == ASSUME Assumptions, IInv, NEW th \in Threads, Query(th) PROVE IInv'
<1>0. TypeOK /\ PathInv /\ LockInv /\ TreeInv /\ NoneFreed /\ QueryTruthful /\ StuckOnlyAtOwnTable
    BY DEF IInv
<1>1. /\ pc[th] = "held" /\ pc' = [pc EXCEPT ![th] = "stuck"] /\ level(th) = 0
      /\ UNCHANGED <<present, pte, meta, readers, writer, range, cur, at, current_pa, lvl>>
    BY DEF Query, Goto, tree, locks, work
<1>2. pc'[th] = "stuck" /\ \A u \in Threads : u # th => pc'[u] = pc[u]
    BY <1>0, <1>1 DEF TypeOK
<1>3. Others(th)
    BY <1>1, <1>2 DEF Others
<1>4. TypeOK'
    <2>1. pc' \in [Threads -> Working \cup {"idle", "walk", "write", "drain", "drop"}]
        BY <1>0, <1>1 DEF TypeOK, Working
    <2> QED BY <1>0, <1>1, <2>1 DEF TypeOK
<1>5. PathInv'
    <2>1. OnPath(th)
        BY <1>0, <1>1 DEF PathInv
    <2>2. level(th)' = level(th)
        BY <1>1 DEF level
    <2>3. OnPath(th)'
        BY <1>1, <1>2, <2>1, <2>2 DEF OnPath
    <2> QED BY <1>0, <1>3, <2>3, OthersKeepPath
<1>6. LockInv'
    <2>1. "stuck" \in Working /\ pc[th] \in Working
        BY <1>1 DEF Working
    <2> QED BY <1>0, <1>1, <2>1, WorkKeepsLocks DEF locks
<1>7. TreeInv' /\ NoneFreed' /\ StuckOnlyAtOwnTable'
    BY <1>0, <1>1, <1>2 DEF TreeInv, NoneFreed, StuckOnlyAtOwnTable, level
<1>8. QueryTruthful'
    <2>1. \A v \in VPages : query(v)' = query(v)
        BY <1>1 DEF query
    <2>2. \A u \in Threads : pc[u] = "stuck" => pc'[u] = "stuck" /\ cur'[u] = cur[u]
        BY <1>1, <1>2
    <2> QED BY <1>0, <1>1, <2>1, <2>2 DEF QueryTruthful
<1> QED BY <1>4, <1>5, <1>6, <1>7, <1>8 DEF IInv

LEMMA PruneStep == ASSUME Assumptions, IInv, NEW th \in Threads, Prune(th) PROVE IInv'
<1>0. /\ TypeOK /\ PathInv /\ LockInv /\ TreeInv /\ NoneFreed /\ QueryTruthful /\ StuckOnlyAtOwnTable
      /\ TableFacts
    BY TableLemma DEF IInv
<1>1. /\ pc[th] = "prune" /\ lvl[th] < max_level /\ is_table_empty(va(th), lvl[th])
      /\ UNCHANGED <<pte, readers, writer, range, cur, at, current_pa>>
    BY DEF Prune, locks, tree, work, Wait
<1>2. /\ va(th) \in VPages /\ level(th) \in Levels /\ cur[th] = Table(va(th), level(th))
      /\ pc[th] \in Working
    BY <1>0, <1>1, AtPage
<1>3. /\ lvl[th] \in Nat /\ lvl[th] <= level(th) /\ level(th) \in Nat /\ max_level \in Nat
      /\ lvl[th] \in Levels /\ lvl \in [Threads -> Nat]
    BY <1>0, <1>1, <1>2 DEF TypeOK, PathInv, OnPath, Levels, Assumptions
<1>4. level(th)' = level(th)
    BY <1>1 DEF level
\* the table is freed
<1>5. CASE lvl[th] < level(th)
    <2> DEFINE T == Table(va(th), lvl[th])
    <2>0. T \in Tables /\ T[1] = lvl[th]
        BY <1>2, <1>3, LevelOf
    <2>1. /\ present' = present \ {T} /\ pc' = pc
          /\ meta' = IF lvl[th] = 0 THEN Forget(meta, va(th)) ELSE meta
          /\ lvl' = [lvl EXCEPT ![th] = @ + 1]
        BY <1>3, <1>5 DEF Prune
    <2>2. T = Table(va(th), lvl[th])
        OBVIOUS
    <2> HIDE DEF T
    <2>3. lvl' \in [Threads -> Nat] /\ lvl'[th] = lvl[th] + 1 /\ \A u \in Threads \ {th} : lvl'[u] = lvl[u]
        BY ONLY <1>3, <2>1
    <2>4. Others(th)
        BY <1>1, <2>1, <2>3 DEF Others
    <2>5. TypeOK'
        <3>1. meta' = [v \in VPages |-> meta'[v]]
            <4>1. CASE lvl[th] = 0
                <5>1. meta' = Forget(meta, va(th))
                    BY <2>1, <4>1
                <5> QED BY <5>1 DEF Forget
            <4>2. CASE lvl[th] # 0
                <5>1. meta' = meta
                    BY <2>1, <4>2
                <5> QED BY <1>0, <5>1 DEF TypeOK
            <4> QED BY <4>1, <4>2
        <3> QED BY <1>0, <1>1, <2>1, <2>3, <3>1 DEF TypeOK
    <2>6. PathInv'
        <3>1. OnPath(th)
            BY <1>0, <1>1 DEF PathInv
        <3>2. OnPath(th)'
            <4>1. UNCHANGED <<range, cur, at>>
                BY <1>1
            <4>2. pc'[th] = "prune" /\ lvl'[th] <= level(th)
                <5>1. pc'[th] = "prune"
                    BY <1>1, <2>1
                <5> QED BY <1>3, <1>5, <2>3, <5>1
            <4>3. range'[th] \in Ranges /\ (\A k \in DOMAIN range'[th] : Table(range'[th][k], level(th)) = cur'[th])
                  /\ at'[th] \in DOMAIN range'[th]
                BY <1>1, <3>1, <4>1 DEF OnPath
            <4> QED BY <1>4, <4>2, <4>3 DEF OnPath
        <3> QED BY <1>0, <2>4, <3>2, OthersKeepPath
    <2>7. LockInv'
        <3>1. pc' = [pc EXCEPT ![th] = "prune"] /\ "prune" \in Working
            BY <1>0, <1>1, <2>1 DEF TypeOK, Working
        <3> QED BY <1>0, <1>1, <1>2, <2>3, <3>1, WorkKeepsLocks DEF locks
    <2>8. TreeInv'
        <3>1. Root \in present'
            <4>1. Root[1] = max_level
                BY <1>0 DEF TableFacts
            <4> QED BY <1>0, <1>1, <1>3, <2>0, <2>1, <4>1 DEF TreeInv
        <3>2. ASSUME NEW v \in VPages, NEW k \in Levels, NEW l \in Levels, k <= l, Table(v, k) \in present'
              PROVE Table(v, l) \in present'
            <4>1. Table(v, l) \in present
                BY <1>0, <2>1, <3>2 DEF TreeInv
            <4>2. ASSUME Table(v, l) = T PROVE FALSE
                <5>1. l = lvl[th]
                    BY <2>0, <4>2, LevelOf
                <5>2. k # l
                    BY <2>1, <3>2, <4>2
                <5>3. l \in Nat /\ k \in Nat /\ l - 1 \in Levels /\ k <= l - 1 /\ l # 0
                    BY <1>3, <3>2, <5>1, <5>2 DEF Levels
                <5>4. Table(v, l - 1) \in present
                    BY <1>0, <2>1, <3>2, <5>3 DEF TreeInv
                <5>5. Table(v, lvl[th]) = Table(va(th), lvl[th])
                    BY <2>2, <4>2, <5>1
                <5> QED BY <1>1, <5>1, <5>3, <5>4, <5>5 DEF is_table_empty
            <4> QED BY <2>1, <4>1, <4>2
        <3>3. ASSUME NEW v \in VPages, pte'[v] # 0 PROVE Table(v, 0) \in present'
            <4>1. pte[v] # 0 /\ Table(v, 0) \in present
                BY <1>0, <1>1, <3>3 DEF TreeInv
            <4>2. ASSUME Table(v, 0) = T PROVE FALSE
                <5>0. 0 \in Levels
                    BY <1>3 DEF Levels
                <5>1. lvl[th] = 0
                    BY <2>0, <4>2, <5>0, LevelOf
                <5> QED BY <1>1, <2>2, <4>1, <4>2, <5>1 DEF is_table_empty
            <4> QED BY <2>1, <4>1, <4>2
        <3> QED BY <3>1, <3>2, <3>3 DEF TreeInv
    <2>9. NoneFreed'
        <3> SUFFICES ASSUME NEW u \in Threads, pc[u] \notin {"idle", "drop"}, cur[u] = T PROVE FALSE
            BY <1>0, <1>1, <2>1 DEF NoneFreed
        <3>1. level(u) = lvl[th]
            BY <2>0 DEF level
        <3>2. u # th
            BY <1>3, <1>5, <3>1
        <3>3. Table(va(th), level(u)) = cur[u]
            BY <2>2, <3>1
        <3>4. level(th) <= level(u)
            BY <1>0, <1>2, <3>2, <3>3, Alone
        <3> QED BY <1>3, <1>5, <3>1, <3>4
    <2>10. StuckOnlyAtOwnTable'
        BY <1>0, <1>1, <2>1 DEF StuckOnlyAtOwnTable, level
    <2>11. QueryTruthful'
        <3> SUFFICES ASSUME NEW v \in VPages, pte'[v] # 0, meta'[v][1] = "Mapped"
                     PROVE \/ meta'[v] = Mapped(pte'[v])
                           \/ \E u \in Threads : pc'[u] = "stuck" /\ Under(Table(v, 0), cur'[u])
            BY QueryNext
        <3>1. meta'[v] = meta[v]
            <4>1. CASE lvl[th] = 0
                <5>1. Table(v, 0) # Table(va(th), 0)
                    BY <1>1, <4>1 DEF is_table_empty
                <5> QED BY <2>1, <4>1, <5>1 DEF Forget
            <4>2. CASE lvl[th] # 0
                BY <2>1, <4>2
            <4> QED BY <4>1, <4>2
        <3>2. \/ meta[v] = Mapped(pte[v])
              \/ \E u \in Threads : pc[u] = "stuck" /\ Under(Table(v, 0), cur[u])
            BY <1>0, <1>1, <3>1, QueryOf
        <3> QED BY <1>1, <2>1, <3>1, <3>2
    <2> QED BY <2>5, <2>6, <2>7, <2>8, <2>9, <2>10, <2>11 DEF IInv
  \* the cursor covers it
<1>6. CASE lvl[th] = level(th)
    <2>1. pc' = [pc EXCEPT ![th] = "stuck"] /\ UNCHANGED <<present, meta, lvl>>
        BY <1>3, <1>6 DEF Prune, Wait, tree
    <2>2. pc'[th] = "stuck" /\ \A u \in Threads : u # th => pc'[u] = pc[u]
        BY <1>0, <2>1 DEF TypeOK
    <2>3. Others(th)
        BY <1>1, <2>1, <2>2 DEF Others
    <2>4. TypeOK'
        <3>1. pc' \in [Threads -> Working \cup {"idle", "walk", "write", "drain", "drop"}]
            BY <1>0, <2>1 DEF TypeOK, Working
        <3> QED BY <1>0, <1>1, <2>1, <3>1 DEF TypeOK
    <2>5. PathInv'
        <3>1. OnPath(th)
            BY <1>0, <1>1 DEF PathInv
        <3>2. OnPath(th)'
            BY <1>1, <1>4, <2>2, <3>1 DEF OnPath
        <3> QED BY <1>0, <2>3, <3>2, OthersKeepPath
    <2>6. LockInv'
        <3>1. "stuck" \in Working
            BY DEF Working
        <3> QED BY <1>0, <1>1, <1>2, <2>1, <3>1, WorkKeepsLocks DEF locks
    <2>7. TreeInv' /\ NoneFreed'
        BY <1>0, <1>1, <2>1, <2>2 DEF TreeInv, NoneFreed
    <2>8. QueryTruthful'
        <3>1. \A v \in VPages : query(v)' = query(v)
            BY <1>1, <2>1 DEF query
        <3>2. \A u \in Threads : pc[u] = "stuck" => pc'[u] = "stuck" /\ cur'[u] = cur[u]
            BY <1>1, <2>2
        <3> QED BY <1>0, <1>1, <3>1, <3>2 DEF QueryTruthful
    <2>9. StuckOnlyAtOwnTable'
        <3>1. ASSUME level(th) # 0, NEW t \in present, t # cur[th], Under(t, cur[th]) PROVE FALSE
            <4>1. t \in Tables
                BY <1>0, <3>1 DEF TypeOK
            <4>2. PICK w \in VPages : t = Table(w, t[1])
                BY <1>0, <4>1 DEF TableFacts
            <4>3. t[1] \in Levels
                BY <1>0, <4>1 DEF TableFacts
            <4>4. Under(Table(w, t[1]), Table(va(th), level(th)))
                BY <1>2, <3>1, <4>2
            <4>5. t[1] <= level(th) /\ Table(w, level(th)) = Table(va(th), level(th))
                BY <1>0, <1>2, <4>3, <4>4 DEF TableFacts
            <4>6. t[1] # level(th)
                BY <1>2, <3>1, <4>2, <4>5
            <4>7. level(th) - 1 \in Levels /\ t[1] <= level(th) - 1
                BY <1>2, <1>3, <3>1, <4>3, <4>5, <4>6 DEF Levels
            <4>8. Table(w, t[1]) \in present
                BY <3>1, <4>2
            <4>9. Table(w, level(th) - 1) \in present
                BY <1>0, <4>3, <4>7, <4>8 DEF TreeInv
            <4> QED BY <1>1, <1>6, <3>1, <4>5, <4>9 DEF is_table_empty
        <3> QED BY <1>0, <1>1, <2>1, <2>2, <3>1 DEF StuckOnlyAtOwnTable, level
    <2> QED BY <2>4, <2>5, <2>6, <2>7, <2>8, <2>9 DEF IInv
<1> QED BY <1>3, <1>5, <1>6

LEMMA NextIInv == ASSUME Assumptions, IInv, [Next]_(vars) PROVE IInv'
<1>1. CASE UNCHANGED vars
    <2>1. UNCHANGED <<present, pte, meta, readers, writer, range, cur, pc, at, current_pa, lvl>>
        BY <1>1 DEF vars, tree, locks, work
    <2>2. \A th \in Threads : start(th)' = start(th) /\ level(th)' = level(th)
        BY <2>1 DEF start, level
    <2>3. TypeOK' /\ PathInv'
        BY <2>1, <2>2 DEF IInv, TypeOK, PathInv, OnPath
    <2>4. \A th \in Threads, t \in Tables : Guards(th, t)' <=> Guards(th, t)
        BY <2>1, <2>2 DEF Guards
    <2>5. LockInv'
        BY <2>1, <2>4 DEF IInv, LockInv, Cursors
    <2>6. TreeInv' /\ NoneFreed' /\ StuckOnlyAtOwnTable'
        BY <2>1, <2>2 DEF IInv, TreeInv, NoneFreed, StuckOnlyAtOwnTable
    <2>7. \A v \in VPages : query(v)' = query(v)
        BY <2>1 DEF query
    <2>8. QueryTruthful'
        BY <2>1, <2>7 DEF IInv, QueryTruthful
    <2> QED BY <2>3, <2>5, <2>6, <2>8 DEF IInv
<1>2. ASSUME NEW th \in Threads, NEW r \in Ranges, Lock(th, r) PROVE IInv'
    BY <1>2, LockStep
<1>3. ASSUME NEW th \in Threads, Descend(th) PROVE IInv'
    BY <1>3, DescendStep
<1>4. ASSUME NEW th \in Threads, Covers(th) \/ Claim(th) \/ Drain(th) PROVE IInv'
    BY <1>4, ClaimStep
<1>5. ASSUME NEW th \in Threads, NEW pa \in PAs, Map(th, pa) PROVE IInv'
    <2>1. pa \in Nat
        BY DEF Assumptions
    <2> QED BY <1>5, <2>1, BeginStep DEF Map
<1>6. ASSUME NEW th \in Threads, Unmap(th) PROVE IInv'
    BY <1>6, BeginStep DEF Unmap
<1>7. ASSUME NEW th \in Threads, Mark(th) PROVE IInv'
    BY <1>7, BeginStep DEF Mark
<1>8. ASSUME NEW th \in Threads, Query(th) PROVE IInv'
    BY <1>8, QueryStep
<1>9. ASSUME NEW th \in Threads, MapPage(th) \/ MarkPage(th) PROVE IInv'
    BY <1>9, MapMarkStep
<1>10. ASSUME NEW th \in Threads, UnmapPage(th) \/ Pruned(th) PROVE IInv'
    BY <1>10, UnmapStep
<1>11. ASSUME NEW th \in Threads, Prune(th) PROVE IInv'
    BY <1>11, PruneStep
<1>12. ASSUME NEW th \in Threads, DropWrite(th) PROVE IInv'
    BY <1>12, DropWriteStep
<1>13. ASSUME NEW th \in Threads, DropRead(th) PROVE IInv'
    BY <1>13, DropReadStep
<1> QED BY <1>1, <1>2, <1>3, <1>4, <1>5, <1>6, <1>7, <1>8, <1>9, <1>10, <1>11, <1>12, <1>13 DEF Next

\* Nobody is kept out of its own subtree, and of the threads that wait the one
\* that has come furthest down could only wait for one further down.
LEMMA IInvImplies == ASSUME Assumptions, IInv PROVE CursorInv
<1>0. /\ TypeOK /\ PathInv /\ LockInv /\ TreeInv /\ NoneFreed /\ QueryTruthful /\ StuckOnlyAtOwnTable
      /\ TableFacts
    BY TableLemma DEF IInv
<1>1. Exclusive
    <2> SUFFICES ASSUME NEW th \in Threads, pc[th] \in Working, NEW t \in Tables, Under(t, cur[th])
                 PROVE readers[t] = {} /\ writer[t] \in {None, th}
        BY DEF Exclusive, Cursors
    <2>1. pc[th] # "idle"
        BY DEF Working
    <2>2. /\ start(th) \in VPages /\ cur[th] \in Tables /\ level(th) \in Levels
          /\ cur[th] = Table(start(th), level(th))
        BY <1>0, <2>1, ThreadFacts
    <2>3. PICK w \in VPages : t = Table(w, t[1])
        BY <1>0 DEF TableFacts
    <2>4. t[1] \in Levels
        BY <1>0 DEF TableFacts
    <2>5. t[1] <= level(th) /\ Table(w, level(th)) = cur[th]
        BY <1>0, <2>2, <2>3, <2>4 DEF TableFacts
    <2>6. level(th) \in Nat /\ t[1] \in Nat
        BY <2>2, <2>4 DEF Levels
    <2>7. ASSUME NEW u \in Threads, u \in readers[t] PROVE FALSE
        <3>1. Guards(u, t)
            BY <1>0, <2>7 DEF LockInv
        <3>2. pc[u] # "idle" /\ level(u) < t[1] /\ Table(start(u), t[1]) = t
            BY <3>1 DEF Guards
        <3>3. start(u) \in VPages /\ level(u) \in Nat
            BY <1>0, <3>2, ThreadFacts DEF Levels
        <3>4. lvl[u] \in Nat
            BY <1>0 DEF TypeOK
        <3>5. Table(start(u), level(th)) = Table(w, level(th))
            BY <2>2, <2>3, <2>4, <2>5, <3>2, <3>3, SameAbove
        <3>6. cur[th][1] = level(th)
            BY DEF level
        <3>7. level(u) < cur[th][1] /\ Table(start(u), cur[th][1]) = cur[th]
            BY <2>5, <2>6, <3>2, <3>3, <3>5, <3>6
        <3>8. pc[u] = "drop" => lvl[u] <= t[1]
            BY <3>1 DEF Guards
        <3>9. pc[u] = "drop" => lvl[u] <= cur[th][1]
            BY <2>5, <2>6, <3>4, <3>6, <3>8
        <3>10. Guards(u, cur[th])
            BY <3>2, <3>7, <3>9 DEF Guards
        <3> QED BY <1>0, <2>2, <3>10 DEF LockInv, Cursors
    <2>8. readers[t] = {}
        BY <1>0, <2>7 DEF TypeOK
    <2>9. ASSUME NEW u \in Threads, writer[t] = u, u # th PROVE FALSE
        <3>1. pc[u] \in Working \cup {"drain"} /\ cur[u] = t
            BY <1>0, <2>9 DEF LockInv
        <3>2. pc[u] \notin {"idle", "drop"}
            BY <3>1 DEF Working
        <3>3. level(u) = t[1]
            BY <3>1 DEF level
        <3>4. level(th) <= level(u)
            BY <1>0, <2>3, <2>5, <2>9, <3>1, <3>2, <3>3, Alone
        <3>5. t[1] = level(th)
            BY <2>5, <2>6, <3>3, <3>4
        <3>6. t = cur[th]
            BY <2>3, <2>5, <3>5
        <3> QED BY <1>0, <2>9, <3>6 DEF LockInv
    <2> QED BY <1>0, <2>8, <2>9 DEF TypeOK
<1>2. NoCircle
    <2> SUFFICES ASSUME \A th \in Threads : pc[th] # "stuck", NEW th0 \in Threads, pc[th0] # "idle",
                        \A th \in Threads : pc[th] # "idle" => Waits(th)
                 PROVE FALSE
        BY DEF NoCircle
    <2> DEFINE S == {level(th) : th \in {u \in Threads : pc[u] # "idle"}}
               less == OpToRel(<, Nat)
    <2>1. S \subseteq Nat /\ S # {}
        <3>1. \A th \in Threads : pc[th] # "idle" => level(th) \in Nat
            BY <1>0, ThreadFacts DEF Levels
        <3> QED BY <3>1
    <2>2. IsWellFoundedOn(less, Nat)
        BY NatLessThanWellFounded, Zenon DEF OpToRel
    <2>3. \A a, c \in Nat : a < c => <<a, c>> \in less
        BY DEF OpToRel
    <2> HIDE DEF less
    <2>4. PICK n \in S : \A a \in S : ~(<<a, n>> \in less)
        <3> HIDE DEF S
        <3> QED BY <2>1, <2>2, WFMin, Zenon
    <2>5. PICK th \in Threads : pc[th] # "idle" /\ level(th) = n
        BY <2>4
    <2>6. ASSUME NEW u \in Threads, pc[u] # "idle" PROVE ~(level(u) < level(th))
        <3>1. level(u) \in S
            BY <2>6
        <3>2. level(u) \in Nat /\ level(th) \in Nat
            BY <2>1, <2>4, <2>5, <3>1
        <3> QED BY <2>3, <2>4, <2>5, <3>1, <3>2
    <2>7. ASSUME NEW u \in Threads, pc[u] = "drain", level(u) = level(th) PROVE FALSE
        <3>1. readers[cur[u]] # {} /\ cur[u] \in Tables
            BY <1>0, <2>7 DEF Waits, TypeOK
        <3>2. PICK w \in Threads : w \in readers[cur[u]]
            BY <1>0, <3>1 DEF TypeOK
        <3>3. Guards(w, cur[u])
            BY <1>0, <3>1, <3>2 DEF LockInv
        <3> QED BY <2>6, <2>7, <3>3 DEF Guards, level
    <2>8. Waits(th)
        BY <2>5
    <2>9. CASE pc[th] = "drain"
        BY <2>7, <2>9
    <2>10. CASE pc[th] # "drain"
        <3>1. writer[cur[th]] # None /\ cur[th] \in Tables
            BY <1>0, <2>8, <2>10 DEF Waits, TypeOK
        <3>2. PICK u \in Threads : writer[cur[th]] = u
            BY <1>0, <3>1 DEF TypeOK
        <3>3. pc[u] \in Working \cup {"drain"} /\ cur[u] = cur[th]
            BY <1>0, <3>1, <3>2, SMTT(20) DEF LockInv
        <3>4. Waits(u)
            BY <3>3 DEF Working
        <3>5. pc[u] = "drain"
            BY <3>3, <3>4 DEF Waits, Working
        <3> QED BY <2>7, <3>3, <3>5 DEF level
    <2> QED BY <2>9, <2>10
<1> QED BY <1>0, <1>1, <1>2 DEF CursorInv
==============================================================================
