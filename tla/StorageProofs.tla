--------------------------- MODULE StorageProofs ----------------------------
(***************************************************************************)
(* Proofs about File::write, the cache of directory entries and the        *)
(* answers of lookups, for any number of threads, any tree of directories, *)
(* any paths and any bound on the bytes of a file.                         *)
(***************************************************************************)
EXTENDS VfsLookup, Integers, WellFoundedInduction, TLAPS

(* The cache of directory entries *)

Entry(n) == [inode : Inodes, parent : 0 .. n]
Children(n) == [Names -> 0 .. n]
PCs == {"idle", "walk", "ask", "insert", "create", "link", "check"} \cup Answers
Call(n) ==
    [path : Seq(Parts) \ {<<>>}, rest : Seq(Parts), start : 1 .. n, current : 1 .. n,
     inode : Inodes \cup {None}, goal : {"lookup", "open", "create"},
     flags : SUBSET {"create", "writable"}, found : BOOLEAN]

\* What CacheInv says of the types.
LEMMA CacheFacts ==
    CacheInv =>
        /\ Len(entries) \in Nat \ {0} /\ DOMAIN entries = 1 .. Len(entries)
        /\ entries \in Seq(Entry(Len(entries)))
        /\ \A e \in 1 .. Len(entries) : entries[e] \in Entry(Len(entries))
        /\ children \in Seq(Children(Len(entries))) /\ Len(children) = Len(entries)
        /\ DOMAIN children = 1 .. Len(entries)
        /\ \A e \in 1 .. Len(entries) : children[e] \in Children(Len(entries))
        /\ pc \in [Threads -> PCs]
        /\ call \in [Threads -> Call(Len(entries))]
        /\ \A t \in Threads : call[t] \in Call(Len(entries))
<1> SUFFICES ASSUME CacheInv
             PROVE  /\ Len(entries) \in Nat \ {0} /\ DOMAIN entries = 1 .. Len(entries)
                    /\ entries \in Seq(Entry(Len(entries)))
                    /\ \A e \in 1 .. Len(entries) : entries[e] \in Entry(Len(entries))
                    /\ children \in Seq(Children(Len(entries))) /\ Len(children) = Len(entries)
                    /\ DOMAIN children = 1 .. Len(entries)
                    /\ \A e \in 1 .. Len(entries) : children[e] \in Children(Len(entries))
                    /\ pc \in [Threads -> PCs]
                    /\ call \in [Threads -> Call(Len(entries))]
                    /\ \A t \in Threads : call[t] \in Call(Len(entries))
  OBVIOUS
<1>1. /\ entries \in Seq(Entry(Len(entries))) /\ entries # <<>>
      /\ children \in Seq(Children(Len(entries))) /\ Len(children) = Len(entries)
      /\ pc \in [Threads -> PCs]
  BY DEF CacheInv, TypeOK, Inodes, Entry, Children, PCs
<1>2. Len(entries) \in Nat \ {0} /\ DOMAIN entries = 1 .. Len(entries)
  BY <1>1
<1>3. DOMAIN children = 1 .. Len(entries)
  BY <1>1
<1>4. \A e \in 1 .. Len(entries) : entries[e] \in Entry(Len(entries))
  BY <1>1
<1>5. \A e \in 1 .. Len(entries) : children[e] \in Children(Len(entries))
  BY <1>1
<1>6. call \in [Threads -> Call(Len(entries))]
  BY <1>2 DEF CacheInv, CallsInv, Call
<1> QED
  BY <1>1, <1>2, <1>3, <1>4, <1>5, <1>6

\* A new entry at the end changes none that is there, and of the children only
\* the one whose place it takes.
LEMMA AddEntryFacts ==
    ASSUME CacheInv, NEW p \in DOMAIN entries, NEW n, NEW i \in Inodes,
           AddEntry(p, n, i)
    PROVE  /\ Len(entries') = Len(entries) + 1
           /\ entries' \in Seq(Entry(Len(entries) + 1))
           /\ \A e \in DOMAIN entries : entries'[e] = entries[e]
           /\ entries'[Len(entries) + 1] = [inode |-> i, parent |-> p]
           /\ children' \in Seq(Children(Len(entries) + 1)) /\ Len(children') = Len(entries) + 1
           /\ \A e \in DOMAIN entries, m \in Names :
                 children'[e][m] = IF e = p /\ m = n THEN Len(entries) + 1 ELSE children[e][m]
           /\ \A m \in Names : children'[Len(entries) + 1][m] = 0
<1> DEFINE k == Len(entries) + 1
           new == [inode |-> i, parent |-> p]
           put == [e \in 1 .. Len(entries) |->
                      IF e = p THEN [m \in Names |-> IF m = n THEN k ELSE children[e][m]]
                               ELSE children[e]]
           none == [m \in Names |-> 0]
<1>1. Len(entries) \in Nat \ {0} /\ DOMAIN entries = 1 .. Len(entries) /\ p \in 1 .. Len(entries)
  BY CacheFacts
<1>2. entries \in Seq(Entry(k)) /\ new \in Entry(k)
  <2>1. entries \in Seq(Entry(Len(entries)))
    BY CacheFacts
  <2>2. Entry(Len(entries)) \subseteq Entry(k)
    BY <1>1 DEF Entry
  <2>3. entries \in Seq(Entry(k))
    <3> HIDE DEF k
    <3> QED
      BY <2>1, <2>2
  <2>4. new \in Entry(k)
    BY <1>1 DEF Entry
  <2> QED
    BY <2>3, <2>4
<1>3. put \in Seq(Children(k)) /\ Len(put) = Len(entries) /\ none \in Children(k)
  <2>1. \A e \in 1 .. Len(entries) : children[e] \in [Names -> 0 .. Len(entries)]
    BY CacheFacts DEF Children
  <2>2. \A e \in 1 .. Len(entries) : put[e] \in [Names -> 0 .. k]
    BY <1>1, <2>1
  <2> HIDE DEF k
  <2>3. put \in Seq([Names -> 0 .. k]) /\ Len(put) = Len(entries)
    BY <1>1, <2>2
  <2>4. none \in [Names -> 0 .. k]
    BY <1>1 DEF k
  <2> QED
    BY <2>3, <2>4 DEF Children
<1>4. [children EXCEPT ![p][n] = k] = put
  <2>1. DOMAIN children = 1 .. Len(entries) /\ \A e \in 1 .. Len(entries) : children[e] \in [Names -> 0 .. Len(entries)]
    BY CacheFacts DEF Children
  <2>2. children = [e \in 1 .. Len(entries) |-> children[e]]
    BY CacheFacts
  <2> HIDE DEF k
  <2>3. [children EXCEPT ![p][n] = k] =
            [e \in 1 .. Len(entries) |-> IF e = p THEN [children[p] EXCEPT ![n] = k] ELSE children[e]]
    BY <1>1, <2>2
  <2>4. [children[p] EXCEPT ![n] = k] = [m \in Names |-> IF m = n THEN k ELSE children[p][m]]
    BY <1>1, <2>1
  <2> QED
    BY <2>3, <2>4
<1>5. entries' = Append(entries, new) /\ children' = Append(put, none)
  BY <1>4 DEF AddEntry, NoChildren, NoEntry
<1> HIDE DEF new, none
<1>6. /\ Len(entries') = k /\ entries' \in Seq(Entry(k)) /\ entries'[k] = new
      /\ \A e \in 1 .. Len(entries) : entries'[e] = entries[e]
  BY <1>2, <1>5
<1>7. /\ Len(children') = k /\ children' \in Seq(Children(k)) /\ children'[k] = none
      /\ \A e \in 1 .. Len(entries) : children'[e] = put[e]
  <2> HIDE DEF put, k
  <2> QED
    BY <1>3, <1>5 DEF k
<1>8. \A e \in DOMAIN entries, m \in Names :
            children'[e][m] = IF e = p /\ m = n THEN k ELSE children[e][m]
  BY <1>1, <1>7, Zenon
<1> QED
  BY <1>1, <1>6, <1>7, <1>8 DEF new, none

\* A step of t that leaves the cache alone, and the file system no smaller.
LEMMA QuietStep ==
    ASSUME CacheInv, NEW t \in Threads, UNCHANGED <<entries, children>>,
           \A a \in DOMAIN tree : a \in DOMAIN tree' /\ tree'[a] = tree[a],
           \A a \in DOMAIN tree' : tree'[a] \in Inodes,
           pc' \in [Threads -> PCs],
           call' \in [Threads -> Call(Len(entries))],
           \A u \in Threads \ {t} : pc'[u] = pc[u] /\ call'[u] = call[u],
           pc'[t] \in {"ask", "insert"} => call'[t].rest # <<>> /\ Part(t)' \in Names,
           pc'[t] = "insert" => Told(t, Part(t))',
           pc'[t] = "link" => Told(t, NewName(t))'
    PROVE  CacheInv'
<1>1. TypeOK'
  BY DEF CacheInv, TypeOK, PCs
<1>2. Coherent'
  BY DEF CacheInv, Coherent
<1>3. call' \in [Threads -> [path : Seq(Parts) \ {<<>>}, rest : Seq(Parts), start : DOMAIN entries',
                            current : DOMAIN entries', inode : Inodes \cup {None},
                            goal : {"lookup", "open", "create"},
                            flags : SUBSET {"create", "writable"}, found : BOOLEAN]]
  BY CacheFacts DEF Call
<1>4. ASSUME NEW u \in Threads
      PROVE  /\ pc'[u] \in {"ask", "insert"} => call'[u].rest # <<>> /\ Part(u)' \in Names
             /\ pc'[u] = "insert" => Told(u, Part(u))'
             /\ pc'[u] = "link" => Told(u, NewName(u))'
  <2>1. CASE u = t
    BY <2>1
  <2>2. CASE u # t
    <3>1. pc'[u] = pc[u] /\ call'[u] = call[u]
      BY <2>2
    <3>2. \A n : Told(u, n) => Told(u, n)'
      BY <3>1 DEF Told
    <3> QED
      BY <3>1, <3>2 DEF CacheInv, CallsInv, Part, NewName
  <2> QED
    BY <2>1, <2>2
<1> QED
  BY <1>1, <1>2, <1>3, <1>4 DEF CacheInv, CallsInv, Inodes

\* A step of t that adds an entry for what the file system has told it.
LEMMA AddStep ==
    ASSUME CacheInv, NEW t \in Threads, NEW n, Told(t, n),
           AddEntry(call[t].current, n, call[t].inode), UNCHANGED tree,
           pc' \in [Threads -> PCs], pc'[t] \notin {"ask", "insert", "link"},
           call' \in [Threads -> Call(Len(entries) + 1)],
           \A u \in Threads \ {t} : pc'[u] = pc[u] /\ call'[u] = call[u]
    PROVE  CacheInv'
<1> DEFINE p == call[t].current
           i == call[t].inode
<1>1. /\ Len(entries) \in Nat \ {0} /\ DOMAIN entries = 1 .. Len(entries)
      /\ p \in DOMAIN entries /\ i \in Inodes
      /\ \A u \in Threads : call[u].current \in DOMAIN entries
      /\ \A e \in 1 .. Len(entries), m \in Names : children[e][m] \in 0 .. Len(entries)
  <2>1. i \in Inodes
    BY DEF CacheInv, CallsInv, Told
  <2>2. \A u \in Threads : call[u].current \in DOMAIN entries
    BY CacheFacts DEF Call
  <2> QED
    BY CacheFacts, <2>1, <2>2 DEF Children
<1> HIDE DEF p, i
<1>2. /\ Len(entries') = Len(entries) + 1
      /\ entries' \in Seq(Entry(Len(entries) + 1))
      /\ \A e \in DOMAIN entries : entries'[e] = entries[e]
      /\ entries'[Len(entries) + 1] = [inode |-> i, parent |-> p]
      /\ children' \in Seq(Children(Len(entries) + 1)) /\ Len(children') = Len(entries) + 1
      /\ \A e \in DOMAIN entries, m \in Names :
            children'[e][m] = IF e = p /\ m = n THEN Len(entries) + 1 ELSE children[e][m]
      /\ \A m \in Names : children'[Len(entries) + 1][m] = 0
  <2>1. AddEntry(p, n, i)
    BY DEF p, i
  <2> QED
    BY ONLY <1>1, <2>1, AddEntryFacts, CacheInv
<1>3. DOMAIN entries' = 1 .. Len(entries) + 1
  BY <1>2
<1>4. TypeOK'
  <2>1. entries' # <<>>
    BY <1>1, <1>2
  <2> QED
    BY <1>2, <2>1 DEF TypeOK, Inodes, Entry, Children, PCs
<1>5. Coherent'
  <2> SUFFICES ASSUME NEW e \in 1 .. Len(entries) + 1, NEW m \in Names, children'[e][m] # 0
               PROVE  /\ entries'[children'[e][m]].parent = e
                      /\ <<entries'[e].inode, m>> \in DOMAIN tree
                      /\ tree[<<entries'[e].inode, m>>] = entries'[children'[e][m]].inode
    BY <1>3 DEF Coherent, NoEntry
  <2>1. e \in 1 .. Len(entries)
    BY <1>1, <1>2
  <2>2. CASE e = p /\ m = n
    <3>1. children'[e][m] = Len(entries) + 1
      BY <1>1, <1>2, <2>1, <2>2
    <3>2. entries'[children'[e][m]] = [inode |-> i, parent |-> p]
      BY <1>2, <3>1
    <3>3. <<entries[p].inode, n>> \in DOMAIN tree /\ tree[<<entries[p].inode, n>>] = i
      BY DEF Told, p, i
    <3>4. entries'[e] = entries[p]
      BY <1>1, <1>2, <2>2
    <3> QED
      BY <2>2, <3>2, <3>3, <3>4
  <2>3. CASE ~(e = p /\ m = n)
    <3>1. children'[e][m] = children[e][m] /\ entries'[e] = entries[e]
      BY <1>1, <1>2, <2>1, <2>3
    <3>2. children[e][m] \in DOMAIN entries /\ entries'[children[e][m]] = entries[children[e][m]]
      BY <1>1, <1>2, <2>1, <3>1
    <3>3. /\ entries[children[e][m]].parent = e
          /\ <<entries[e].inode, m>> \in DOMAIN tree
          /\ tree[<<entries[e].inode, m>>] = entries[children[e][m]].inode
      BY <1>1, <2>1, <3>1 DEF CacheInv, Coherent, NoEntry
    <3> QED
      BY <3>1, <3>2, <3>3
  <2> QED
    BY <2>2, <2>3
<1>6. call' \in [Threads -> [path : Seq(Parts) \ {<<>>}, rest : Seq(Parts), start : DOMAIN entries',
                            current : DOMAIN entries', inode : Inodes \cup {None},
                            goal : {"lookup", "open", "create"},
                            flags : SUBSET {"create", "writable"}, found : BOOLEAN]]
  BY <1>3 DEF Call
<1>7. ASSUME NEW u \in Threads
      PROVE  /\ pc'[u] \in {"ask", "insert"} => call'[u].rest # <<>> /\ Part(u)' \in Names
             /\ pc'[u] = "insert" => Told(u, Part(u))'
             /\ pc'[u] = "link" => Told(u, NewName(u))'
  <2>1. CASE u = t
    BY <2>1
  <2>2. CASE u # t
    <3>1. pc'[u] = pc[u] /\ call'[u] = call[u]
      BY <2>2
    <3>2. entries'[call'[u].current] = entries[call[u].current]
      BY <1>1, <1>2, <3>1
    <3>3. \A m : Told(u, m) => Told(u, m)'
      BY <3>1, <3>2 DEF Told
    <3> QED
      BY <3>1, <3>3 DEF CacheInv, CallsInv, Part, NewName
  <2> QED
    BY <2>1, <2>2
<1>8. \A a \in DOMAIN tree' : tree'[a] \in Inodes
  BY DEF CacheInv, CallsInv
<1> QED
  BY <1>4, <1>5, <1>6, <1>7, <1>8 DEF CacheInv, CallsInv, Inodes

LEMMA NoCallFact ==
    ASSUME NEW n \in Nat \ {0}
    PROVE  NoCall \in Call(n)
<1> DEFINE Shape(p) ==
           [path |-> p, rest |-> <<>>, start |-> 1, current |-> 1, inode |-> None,
              goal |-> "lookup", flags |-> {}, found |-> FALSE]
<1>1. ASSUME NEW c \in Parts
      PROVE  Shape(<<c, c>>) \in Call(n)
  BY DEF Call
<1>2. NoCall = Shape(<<"", "">>)
  BY Zenon DEF NoCall, Slash, Root
<1>3. "" \in Parts
  BY Zenon DEF Parts
<1> HIDE DEF Shape
<1> QED
  BY <1>1, <1>2, <1>3, Zenon

\* The directory of a path is a path.
LEMMA DirPathFact ==
    ASSUME NEW p \in Seq(Parts) \ {<<>>}
    PROVE  DirPath(p) \in Seq(Parts)
<1>1. Slash \in Seq(Parts)
  <2>1. \A c \in Parts : <<c, c>> \in Seq(Parts)
    OBVIOUS
  <2>2. "" \in Parts
    BY Zenon DEF Parts
  <2> QED
    BY <2>1, <2>2, Zenon DEF Slash
<1>2. Len(p) \in Nat \ {0}
  OBVIOUS
<1>3. SubSeq(p, 1, Len(p) - 1) \in Seq(Parts)
  BY <1>2
<1>4. DirPath(p) = Slash \/ DirPath(p) = SubSeq(p, 1, Len(p) - 1)
  BY Zenon DEF DirPath
<1> QED
  BY <1>1, <1>3, <1>4

LEMMA CacheInit ==
    Init => CacheInv
<1> SUFFICES ASSUME Init PROVE CacheInv
  OBVIOUS
<1>1. entries \in Seq(Entry(1)) /\ Len(entries) = 1 /\ entries # <<>> /\ DOMAIN entries = {1}
  BY TreeAssumption DEF Init, NoEntry, Entry, Inodes
<1>2. children \in Seq(Children(1)) /\ Len(children) = 1
      /\ \A n \in Names : children[1][n] = 0
  BY DEF Init, NoChildren, NoEntry, Children
<1>3. TypeOK
  BY <1>1, <1>2 DEF TypeOK, Init, Entry, Children, Inodes
<1>4. Coherent
  BY <1>1, <1>2 DEF Coherent, NoEntry
<1>5. NoCall \in Call(1)
  BY NoCallFact
<1>6. call \in [Threads -> Call(1)] /\ pc = [t \in Threads |-> "idle"]
  BY <1>5 DEF Init
<1>7. \A a \in DOMAIN tree : tree[a] \in Inodes
  BY TreeAssumption DEF Init, IsTree
<1>8. CallsInv
  BY <1>1, <1>6, <1>7 DEF CallsInv, Call
<1> QED
  BY <1>3, <1>4, <1>8 DEF CacheInv


\* What a step may do to the record of a call.
LEMMA CallUpdate ==
    ASSUME NEW n \in Nat, NEW c \in Call(n)
    PROVE  /\ \A r \in Seq(Parts) : [c EXCEPT !.rest = r] \in Call(n)
           /\ \A e \in 1 .. n : [c EXCEPT !.current = e] \in Call(n)
           /\ \A i \in Inodes : [c EXCEPT !.inode = i] \in Call(n)
           /\ [c EXCEPT !.goal = "create"] \in Call(n)
<1>1. \A r \in Seq(Parts) : [c EXCEPT !.rest = r] \in Call(n)
  BY Zenon DEF Call
<1>2. \A e \in 1 .. n : [c EXCEPT !.current = e] \in Call(n)
  BY Zenon DEF Call
<1>3. \A i \in Inodes : [c EXCEPT !.inode = i] \in Call(n)
  BY Zenon DEF Call
<1>4. [c EXCEPT !.goal = "create"] \in Call(n)
  BY Zenon DEF Call
<1> QED
  BY <1>1, <1>2, <1>3, <1>4, Zenon

LEMMA CallWider ==
    ASSUME NEW n \in Nat, NEW k \in Nat, n =< k
    PROVE  Call(n) \subseteq Call(k)
<1>1. 1 .. n \subseteq 1 .. k
  OBVIOUS
<1> QED
  BY <1>1, Zenon DEF Call

LEMMA CallRestart ==
    ASSUME NEW n \in Nat \ {0}, NEW c \in Call(n), NEW r \in Seq(Parts)
    PROVE  [c EXCEPT !.rest = r, !.current = 1, !.goal = "create"] \in Call(n)
<1>1. 1 \in 1 .. n
  OBVIOUS
<1>2. [[[c EXCEPT !.rest = r] EXCEPT !.current = 1] EXCEPT !.goal = "create"] \in Call(n)
  BY <1>1, CallUpdate, Zenon
<1> QED
  BY <1>2, Zenon

\* Of two entries the walk goes on with the right one: it stays in the cache.
LEMMA EnterFacts ==
    ASSUME NEW n \in Nat, call \in [Threads -> Call(n)], NEW t \in Threads, call[t].rest # <<>>,
           NEW k \in Nat, n =< k, NEW e \in 1 .. k,
           pc \in [Threads -> PCs], Enter(t, e)
    PROVE  /\ call' \in [Threads -> Call(k)]
           /\ pc' \in [Threads -> PCs] /\ pc'[t] = "walk"
           /\ \A u \in Threads \ {t} : pc'[u] = pc[u] /\ call'[u] = call[u]
<1>0. call[t] \in Call(n) /\ call[t].rest \in Seq(Parts)
  BY DEF Call
<1>1. Tail(call[t].rest) \in Seq(Parts)
  <2>1. \A s \in Seq(Parts) : s # <<>> => Tail(s) \in Seq(Parts)
    OBVIOUS
  <2> QED
    BY <1>0, <2>1, Zenon
<1>2. Call(n) \subseteq Call(k)
  BY CallWider
<1>3. [call[t] EXCEPT !.rest = Tail(@), !.current = e] \in Call(k)
  <2>1. [[call[t] EXCEPT !.rest = Tail(call[t].rest)] EXCEPT !.current = e] \in Call(k)
    BY <1>0, <1>1, <1>2, CallUpdate, Zenon
  <2> QED
    BY <2>1, Zenon
<1>4. call' = [call EXCEPT ![t] = [call[t] EXCEPT !.rest = Tail(@), !.current = e]]
  BY Zenon DEF Enter
<1>5. pc' = [pc EXCEPT ![t] = "walk"]
  BY DEF Enter
<1>6. call' \in [Threads -> Call(k)] /\ \A u \in Threads \ {t} : call'[u] = call[u]
  BY <1>2, <1>3, <1>4, Zenon
<1> QED
  BY <1>5, <1>6, Zenon DEF PCs

\* A step of t that leaves the cache and the file system alone and is not an
\* answer of the file system.
LEMMA WalkStep ==
    ASSUME CacheInv, NEW t \in Threads, UNCHANGED <<tree, entries, children>>,
           pc' \in [Threads -> PCs], pc'[t] \notin {"ask", "insert", "link"},
           call' \in [Threads -> Call(Len(entries))],
           \A u \in Threads \ {t} : pc'[u] = pc[u] /\ call'[u] = call[u]
    PROVE  CacheInv'
<1>1. \A a \in DOMAIN tree' : tree'[a] \in Inodes
  BY DEF CacheInv, CallsInv
<1>2. \A a \in DOMAIN tree : a \in DOMAIN tree' /\ tree'[a] = tree[a]
  OBVIOUS
<1> QED
  BY <1>1, <1>2, QuietStep

LEMMA ReturnStep ==
    ASSUME CacheInv, NEW t \in Threads, NEW to \in PCs \ {"ask", "insert", "link"},
           UNCHANGED <<tree, entries, children, call>>, pc' = [pc EXCEPT ![t] = to]
    PROVE  CacheInv'
<1>1. pc \in [Threads -> PCs] /\ call \in [Threads -> Call(Len(entries))]
  BY CacheFacts
<1>2. /\ pc' \in [Threads -> PCs] /\ pc'[t] = to
      /\ \A u \in Threads \ {t} : pc'[u] = pc[u] /\ call'[u] = call[u]
  BY <1>1
<1> QED
  BY <1>1, <1>2, WalkStep

LEMMA CallStep ==
    ASSUME CacheInv, NEW t \in Threads, NEW to \in PCs \ {"ask", "insert", "link"},
           NEW c \in Call(Len(entries)), UNCHANGED <<tree, entries, children>>,
           pc' = [pc EXCEPT ![t] = to], call' = [call EXCEPT ![t] = c]
    PROVE  CacheInv'
<1>1. pc \in [Threads -> PCs] /\ call \in [Threads -> Call(Len(entries))]
  BY CacheFacts
<1>2. /\ pc' \in [Threads -> PCs] /\ pc'[t] = to
      /\ call' \in [Threads -> Call(Len(entries))]
      /\ \A u \in Threads \ {t} : pc'[u] = pc[u] /\ call'[u] = call[u]
  BY <1>1
<1> QED
  BY <1>2, WalkStep

\* One part of the path is done with, by an entry that was in the cache.
LEMMA EnterStep ==
    ASSUME CacheInv, NEW t \in Threads, NEW e \in 1 .. Len(entries), call[t].rest # <<>>,
           Enter(t, e), UNCHANGED <<tree, entries, children>>
    PROVE  CacheInv'
<1>1. /\ Len(entries) \in Nat /\ call \in [Threads -> Call(Len(entries))]
      /\ pc \in [Threads -> PCs]
  BY CacheFacts
<1>2. /\ call' \in [Threads -> Call(Len(entries))]
      /\ pc' \in [Threads -> PCs] /\ pc'[t] = "walk"
      /\ \A u \in Threads \ {t} : pc'[u] = pc[u] /\ call'[u] = call[u]
  <2>1. PICK n \in Nat : n = Len(entries)
    BY <1>1
  <2>2. n =< n
    OBVIOUS
  <2> QED
    BY <1>1, <2>1, <2>2, EnterFacts
<1> QED
  BY <1>2, WalkStep

LEMMA CacheStep ==
    ASSUME CacheInv, Next
    PROVE  CacheInv'
<1>1. PICK t \in Threads :
        \/ \E p \in Paths : \/ \E d \in DOMAIN entries : Lookup(t, p, d)
                            \/ \E fs \in SUBSET {"create", "writable"} : Open(t, p, fs)
        \/ Skip(t) \/ Up(t) \/ Hit(t) \/ Miss(t) \/ Ask(t)
        \/ Insert(t) \/ CreateFile(t) \/ WalkFails(t) \/ WalkDone(t)
        \/ \E i \in Files : Create(t, i)
        \/ CreateFails(t) \/ Link(t) \/ Check(t) \/ Answered(t)
  BY Zenon DEF Next
<1> DEFINE n == Len(entries)
           c == call[t].current
<1>2. /\ n \in Nat \ {0} /\ DOMAIN entries = 1 .. n
      /\ pc \in [Threads -> PCs] /\ call \in [Threads -> Call(n)] /\ call[t] \in Call(n)
      /\ \A e \in 1 .. n : children[e] \in Children(n) /\ entries[e] \in Entry(n)
  BY CacheFacts
<1>3. c \in 1 .. n /\ call[t].rest \in Seq(Parts) /\ call[t].path \in Seq(Parts) \ {<<>>}
  BY <1>2 DEF Call
<1>4. /\ pc[t] \in {"ask", "insert"} => call[t].rest # <<>> /\ Part(t) \in Names
      /\ pc[t] = "insert" => Told(t, Part(t))
      /\ pc[t] = "link" => Told(t, NewName(t))
      /\ \A a \in DOMAIN tree : tree[a] \in Inodes
  BY DEF CacheInv, CallsInv
<1>5. ASSUME NEW p \in Paths, NEW d \in DOMAIN entries, NEW g \in {"lookup", "open"},
             NEW fs \in SUBSET {"create", "writable"}, Begin(t, p, g, fs, d)
      PROVE  CacheInv'
  <2> DEFINE new == [path |-> p, rest |-> p, start |-> d, current |-> Start(p, d), inode |-> None,
                     goal |-> g, flags |-> fs, found |-> Target(p, d) # None]
  <2>1. p \in Seq(Parts) \ {<<>>}
    BY PathsAssumption, Zenon DEF Parts
  <2>2. Start(p, d) = 1 \/ Start(p, d) = d
    BY Zenon DEF Start, Root
  <2>3. new \in Call(n)
    <3>1. (Target(p, d) # None) \in BOOLEAN
      BY Zenon
    <3>2. Start(p, d) \in 1 .. n /\ d \in 1 .. n
      BY <1>2, <2>2
    <3> HIDE DEF n
    <3> QED
      BY <2>1, <3>1, <3>2 DEF Call
  <2>4. /\ pc' = [pc EXCEPT ![t] = "walk"] /\ call' = [call EXCEPT ![t] = new]
        /\ UNCHANGED <<tree, entries, children>>
    BY <1>5, Zenon DEF Begin, Goto, cache
  <2>5. "walk" \in PCs \ {"ask", "insert", "link"}
    BY DEF PCs
  <2> HIDE DEF new
  <2> QED
    BY <2>3, <2>4, <2>5, CallStep, Zenon
<1>6. ASSUME NEW p \in Paths, NEW d \in DOMAIN entries, Lookup(t, p, d)
      PROVE  CacheInv'
  BY <1>5, <1>6 DEF Lookup
<1>7. ASSUME NEW p \in Paths, NEW fs \in SUBSET {"create", "writable"}, Open(t, p, fs)
      PROVE  CacheInv'
  <2>1. 1 \in DOMAIN entries
    BY <1>2
  <2> QED
    BY <1>5, <1>7, <2>1 DEF Open, Root
<1>8. CASE Skip(t)
  <2>1. call[t].rest # <<>> /\ Enter(t, c) /\ UNCHANGED <<tree, entries, children>>
    BY <1>8, Zenon DEF Skip, Walking, cache
  <2> QED
    BY <1>3, <2>1, EnterStep
<1>9. CASE Up(t)
  <2> DEFINE up == entries[c].parent
             e == IF up = 0 THEN c ELSE up
  <2>1. call[t].rest # <<>> /\ Enter(t, e) /\ UNCHANGED <<tree, entries, children>>
    BY <1>9, Zenon DEF Up, Walking, cache, NoEntry
  <2>2. e \in 1 .. n
    BY <1>2, <1>3 DEF Entry
  <2> HIDE DEF e
  <2> QED
    BY <2>1, <2>2, EnterStep
<1>10. CASE Hit(t)
  <2> DEFINE e == children[c][Part(t)]
  <2>1. /\ call[t].rest # <<>> /\ Part(t) \in Names /\ e # 0 /\ Enter(t, e)
        /\ UNCHANGED <<tree, entries, children>>
    BY <1>10, Zenon DEF Hit, Named, Walking, cache, NoEntry
  <2>2. e \in 1 .. n
    BY <1>2, <1>3, <2>1 DEF Children
  <2> HIDE DEF e
  <2> QED
    BY <2>1, <2>2, EnterStep
<1>11. CASE Miss(t)
  <2>1. /\ call[t].rest # <<>> /\ Part(t) \in Names
        /\ pc' = [pc EXCEPT ![t] = "ask"] /\ UNCHANGED <<tree, entries, children, call>>
    BY <1>11, Zenon DEF Miss, Goto, Named, Walking, cache
  <2>2. /\ pc' \in [Threads -> PCs] /\ pc'[t] = "ask"
        /\ \A u \in Threads \ {t} : pc'[u] = pc[u] /\ call'[u] = call[u]
    BY <1>2, <2>1 DEF PCs
  <2>3. Part(t)' \in Names
    BY <2>1 DEF Part
  <2>4. /\ \A a \in DOMAIN tree : a \in DOMAIN tree' /\ tree'[a] = tree[a]
        /\ \A a \in DOMAIN tree' : tree'[a] \in Inodes
    BY <1>4, <2>1
  <2> QED
    BY <1>2, <2>1, <2>2, <2>3, <2>4, QuietStep
<1>12. CASE Ask(t)
  <2> DEFINE at == <<entries[c].inode, Part(t)>>
  <2>1. /\ pc[t] = "ask" /\ pc' = [pc EXCEPT ![t] = "insert"]
        /\ at \in DOMAIN tree /\ call' = [call EXCEPT ![t].inode = tree[at]]
        /\ UNCHANGED <<tree, entries, children>>
    BY <1>12, Zenon DEF Ask, Goto, cache
  <2>2. tree[at] \in Inodes
    BY <1>4, <2>1
  <2>3. /\ pc' \in [Threads -> PCs] /\ pc'[t] = "insert"
        /\ \A u \in Threads \ {t} : pc'[u] = pc[u]
    BY <1>2, <2>1 DEF PCs
  <2> HIDE DEF n
  <2>4. [call[t] EXCEPT !.inode = tree[at]] \in Call(n)
    BY <1>2, <2>2, CallUpdate, Zenon
  <2>5. /\ call' \in [Threads -> Call(n)] /\ call'[t] = [call[t] EXCEPT !.inode = tree[at]]
        /\ \A u \in Threads \ {t} : call'[u] = call[u]
    BY <1>2, <2>1, <2>4
  <2>6. call'[t].rest = call[t].rest /\ call'[t].current = c /\ call'[t].inode = tree[at]
    BY <1>2, <2>5 DEF Call
  <2>7. call'[t].rest # <<>> /\ Part(t)' = Part(t) /\ Part(t) \in Names
    BY <1>4, <2>1, <2>6 DEF Part
  <2>8. Told(t, Part(t))'
    BY <2>1, <2>6, <2>7 DEF Told
  <2>9. /\ \A a \in DOMAIN tree : a \in DOMAIN tree' /\ tree'[a] = tree[a]
        /\ \A a \in DOMAIN tree' : tree'[a] \in Inodes
    BY <1>4, <2>1
  <2> QED
    BY <2>1, <2>3, <2>5, <2>7, <2>8, <2>9, QuietStep DEF n
<1>13. CASE Insert(t)
  <2> DEFINE e == children[c][Part(t)]
  <2>1. /\ pc[t] = "insert" /\ UNCHANGED tree
        /\ \/ e # 0 /\ Enter(t, e) /\ UNCHANGED <<entries, children>>
           \/ AddEntry(c, Part(t), call[t].inode) /\ Enter(t, n + 1)
    BY <1>13, Zenon DEF Insert, NoEntry
  <2>2. call[t].rest # <<>> /\ Part(t) \in Names /\ Told(t, Part(t))
    BY <1>4, <2>1
  <2>3. CASE e # 0 /\ Enter(t, e) /\ UNCHANGED <<entries, children>>
    <3>1. e \in 1 .. n
      BY <1>2, <1>3, <2>2, <2>3 DEF Children
    <3> HIDE DEF e
    <3> QED
      BY <2>1, <2>2, <2>3, <3>1, EnterStep
  <2>4. CASE AddEntry(c, Part(t), call[t].inode) /\ Enter(t, n + 1)
    <3>1. /\ call' \in [Threads -> Call(n + 1)]
          /\ pc' \in [Threads -> PCs] /\ pc'[t] = "walk"
          /\ \A u \in Threads \ {t} : pc'[u] = pc[u] /\ call'[u] = call[u]
      <4>1. PICK k \in Nat : k = n + 1
        BY <1>2
      <4>2. n \in Nat /\ n =< k /\ k \in 1 .. k
        BY <1>2, <4>1
      <4> HIDE DEF n
      <4> QED
        BY <1>2, <2>2, <2>4, <4>1, <4>2, EnterFacts
    <3> QED
      BY <2>1, <2>2, <2>4, <3>1, AddStep
  <2> QED
    BY <2>1, <2>3, <2>4
<1>14. CASE CreateFile(t)
  <2> DEFINE new == [call[t] EXCEPT !.rest = DirPath(call[t].path), !.current = 1, !.goal = "create"]
  <2>1. /\ pc' = [pc EXCEPT ![t] = "walk"] /\ UNCHANGED <<tree, entries, children>>
        /\ call' = [call EXCEPT ![t].rest = DirPath(call[t].path), ![t].current = 1, ![t].goal = "create"]
    BY <1>14, Zenon DEF CreateFile, cache, Root
  <2>2. call' = [call EXCEPT ![t] = new]
    BY <1>2, <2>1, Zenon
  <2>3. DirPath(call[t].path) \in Seq(Parts)
    BY <1>3, DirPathFact
  <2>4. new \in Call(n)
    BY <1>2, <2>3, CallRestart, Zenon
  <2>5. "walk" \in PCs \ {"ask", "insert", "link"}
    BY DEF PCs
  <2> HIDE DEF new
  <2> QED
    BY <2>1, <2>2, <2>4, <2>5, CallStep, Zenon
<1>15. CASE WalkFails(t)
  <2>1. PICK a \in {"NotADirectory", "NotFound", "Io"} : Return(t, a)
    BY <1>15, Zenon DEF WalkFails
  <2>2. a \in PCs \ {"ask", "insert", "link"}
    BY DEF PCs, Answers, Errors
  <2> QED
    BY <2>1, <2>2, ReturnStep, Zenon DEF Return, cache
<1>16. CASE WalkDone(t)
  <2>1. PICK a : /\ a = [lookup |-> "Ok", open |-> "check", create |-> "create"][call[t].goal]
                 /\ pc' = [pc EXCEPT ![t] = a] /\ UNCHANGED <<tree, entries, children, call>>
    BY <1>16, Zenon DEF WalkDone, Goto, cache
  <2>2. call[t].goal \in {"lookup", "open", "create"}
    BY <1>2 DEF Call
  <2>3. a \in PCs \ {"ask", "insert", "link"}
    BY <2>1, <2>2 DEF PCs, Answers, Errors
  <2> QED
    BY <2>1, <2>3, ReturnStep, Zenon
<1>17. ASSUME NEW i \in Files, Create(t, i)
       PROVE  CacheInv'
  <2> DEFINE at == <<entries[c].inode, NewName(t)>>
  <2>1. /\ pc' = [pc EXCEPT ![t] = "link"] /\ at \notin DOMAIN tree
        /\ tree' = [a \in DOMAIN tree \cup {at} |-> IF a = at THEN i ELSE tree[a]]
        /\ call' = [call EXCEPT ![t].inode = i] /\ UNCHANGED <<entries, children>>
    BY <1>17, Zenon DEF Create, Goto
  <2>2. /\ \A a \in DOMAIN tree : a \in DOMAIN tree' /\ tree'[a] = tree[a]
        /\ \A a \in DOMAIN tree' : tree'[a] \in Inodes
        /\ at \in DOMAIN tree' /\ tree'[at] = i
    <3> HIDE DEF at
    <3> QED
      BY <1>4, <2>1 DEF Inodes
  <2>3. /\ pc' \in [Threads -> PCs] /\ pc'[t] = "link"
        /\ \A u \in Threads \ {t} : pc'[u] = pc[u]
    BY <1>2, <2>1 DEF PCs
  <2> HIDE DEF n
  <2>4. [call[t] EXCEPT !.inode = i] \in Call(n)
    BY <1>2, CallUpdate, Zenon DEF Inodes
  <2>5. /\ call' \in [Threads -> Call(n)] /\ call'[t] = [call[t] EXCEPT !.inode = i]
        /\ \A u \in Threads \ {t} : call'[u] = call[u]
    BY <1>2, <2>1, <2>4
  <2>6. call'[t].path = call[t].path /\ call'[t].current = c /\ call'[t].inode = i
    BY <1>2, <2>5 DEF Call
  <2>7. NewName(t)' = NewName(t)
    BY <2>6, Zenon DEF NewName
  <2>8. Told(t, NewName(t))'
    BY <2>1, <2>2, <2>6, <2>7 DEF Told
  <2> QED
    BY <2>1, <2>2, <2>3, <2>5, <2>8, QuietStep, Zenon DEF n
<1>18. CASE CreateFails(t)
  <2>1. PICK a \in {"NotADirectory", "ExistsAlready", "OutOfSpace"} : Return(t, a)
    BY <1>18, Zenon DEF CreateFails
  <2>2. a \in PCs \ {"ask", "insert", "link"}
    BY DEF PCs, Answers, Errors
  <2> QED
    BY <2>1, <2>2, ReturnStep, Zenon DEF Return, cache
<1>19. CASE Link(t)
  <2>1. /\ pc[t] = "link" /\ pc' = [pc EXCEPT ![t] = "check"] /\ UNCHANGED tree
        /\ AddEntry(c, NewName(t), call[t].inode)
        /\ call' = [call EXCEPT ![t].current = n + 1]
    BY <1>19, Zenon DEF Link, Goto
  <2>2. /\ pc' \in [Threads -> PCs] /\ pc'[t] = "check"
        /\ \A u \in Threads \ {t} : pc'[u] = pc[u]
    BY <1>2, <2>1 DEF PCs
  <2>3. [call[t] EXCEPT !.current = n + 1] \in Call(n + 1) /\ Call(n) \subseteq Call(n + 1)
    <3>1. n + 1 \in Nat /\ n =< n + 1 /\ n + 1 \in 1 .. n + 1
      BY <1>2
    <3>2. Call(n) \subseteq Call(n + 1)
      BY <1>2, <3>1, CallWider
    <3> QED
      BY <1>2, <3>1, <3>2, CallUpdate, Zenon
  <2>4. /\ call' \in [Threads -> Call(n + 1)]
        /\ \A u \in Threads \ {t} : call'[u] = call[u]
    <3>1. call' = [call EXCEPT ![t] = [call[t] EXCEPT !.current = n + 1]]
      BY <2>1
    <3> HIDE DEF n
    <3> QED
      BY <1>2, <2>3, <3>1, Zenon
  <2> QED
    BY <1>4, <2>1, <2>2, <2>4, AddStep
<1>20. CASE Check(t)
  <2>1. PICK a \in {"IsADirectory", "Ok"} : Return(t, a)
    BY <1>20, Zenon DEF Check
  <2>2. a \in PCs \ {"ask", "insert", "link"}
    BY DEF PCs, Answers, Errors
  <2> QED
    BY <2>1, <2>2, ReturnStep, Zenon DEF Return, cache
<1>21. CASE Answered(t)
  <2>1. /\ pc' = [pc EXCEPT ![t] = "idle"] /\ call' = [call EXCEPT ![t] = NoCall]
        /\ UNCHANGED <<tree, entries, children>>
    BY <1>21, Zenon DEF Answered, cache
  <2>2. "idle" \in PCs \ {"ask", "insert", "link"} /\ NoCall \in Call(n)
    BY <1>2, NoCallFact DEF PCs
  <2> QED
    BY <2>1, <2>2, CallStep, Zenon
<1> QED
  BY <1>1, <1>6, <1>7, <1>8, <1>9, <1>10, <1>11, <1>12, <1>13, <1>14, <1>15, <1>16, <1>17, <1>18,
     <1>19, <1>20, <1>21, Zenon

\* Which children a step can change.
LEMMA EntriesStayStep ==
    ASSUME CacheInv, Next, NEW e \in DOMAIN entries, NEW m \in Names,
           children[e][m] # 0, children'[e][m] # children[e][m]
    PROVE  \E t \in Threads : Link(t)
<1>1. CASE UNCHANGED children
  BY <1>1
<1>2. CASE children' # children
  <2>1. PICK t \in Threads : Insert(t) \/ Link(t)
    BY <1>2, Zenon DEF Next, Lookup, Open, Begin, Skip, Up,
       Hit, Miss, Ask, CreateFile, WalkFails, WalkDone,
       Create, CreateFails, Check, Answered, Return, cache
  <2>2. ASSUME Insert(t)
        PROVE  FALSE
    <3>1. /\ pc[t] = "insert" /\ children[call[t].current][Part(t)] = 0
          /\ AddEntry(call[t].current, Part(t), call[t].inode)
      BY <1>2, <2>2, Zenon DEF Insert, NoEntry
    <3>2. call[t].current \in DOMAIN entries
      BY CacheFacts DEF Call
    <3>3. call[t].inode \in Inodes
      BY <3>1, Zenon DEF CacheInv, CallsInv, Told
    <3> DEFINE p == call[t].current
               n == Part(t)
               i == call[t].inode
    <3>4. p \in DOMAIN entries /\ i \in Inodes /\ AddEntry(p, n, i) /\ children[p][n] = 0
      BY <3>1, <3>2, <3>3
    <3> HIDE DEF p, n, i
    <3>5. /\ Len(entries') = Len(entries) + 1
          /\ entries' \in Seq(Entry(Len(entries) + 1))
          /\ \A x \in DOMAIN entries : entries'[x] = entries[x]
          /\ entries'[Len(entries) + 1] = [inode |-> i, parent |-> p]
          /\ children' \in Seq(Children(Len(entries) + 1)) /\ Len(children') = Len(entries) + 1
          /\ \A x \in DOMAIN entries, y \in Names :
                children'[x][y] = IF x = p /\ y = n THEN Len(entries) + 1 ELSE children[x][y]
          /\ \A y \in Names : children'[Len(entries) + 1][y] = 0
      BY ONLY <3>4, AddEntryFacts, CacheInv
    <3> QED
      BY <3>4, <3>5, Zenon
  <2> QED
    BY <2>1, <2>2
<1> QED
  BY <1>1, <1>2
-----------------------------------------------------------------------------
(* Vfs::lookup and Vfs::open: answers *)

\* Induction on the parts of a path, for a set of numbers of them.
LEMMA Inductive ==
    ASSUME NEW n \in Nat, NEW S, 0 \in S, \A k \in 0 .. n - 1 : k \in S => k + 1 \in S
    PROVE  \A k \in 0 .. n : k \in S
<1> DEFINE T == {k \in 0 .. n : k \notin S}
           less == OpToRel(<, Nat)
<1>1. SUFFICES ASSUME T # {}
               PROVE  FALSE
  OBVIOUS
<1>2. T \subseteq Nat
  OBVIOUS
<1>3. IsWellFoundedOn(less, Nat)
  BY NatLessThanWellFounded, Zenon DEF OpToRel
<1>4. \A a, b \in Nat : a < b => <<a, b>> \in less
  BY DEF OpToRel
<1>5. PICK m \in T : \A a \in T : ~(<<a, m>> \in less)
  <2> HIDE DEF T, less
  <2> QED
    BY <1>1, <1>2, <1>3, WFMin, Zenon
<1> HIDE DEF less
<1>6. m \in 1 .. n /\ m - 1 \in 0 .. n - 1 /\ m - 1 \in Nat /\ m - 1 < m /\ (m - 1) + 1 = m
  OBVIOUS
<1>7. m - 1 \notin T
  BY <1>2, <1>4, <1>5, <1>6, Zenon
<1>8. m - 1 \in S
  BY <1>6, <1>7
<1> QED
  BY <1>5, <1>6, <1>8

\* The parts of a path are names, or mean nothing, or lead up.
LEMMA PartKinds ==
    ASSUME NEW x \in Parts
    PROVE  /\ x \in Skipped \/ x = ".." \/ x \in Names
           /\ x \in Names => x # ".." /\ x \notin Skipped
           /\ x = ".." => x \notin Skipped
<1>1. x \in Skipped \/ x = ".." \/ x \in Names
  BY Zenon DEF Parts, Skipped
<1>2. ".." # "." /\ ".." # ""
  BY Zenon
<1>3. x = ".." => x \notin Skipped
  BY <1>2, Zenon DEF Skipped
<1>4. x \in Names => x # ".." /\ x \notin Skipped
  BY PathsAssumption, Zenon DEF Skipped
<1> QED
  BY <1>1, <1>3, <1>4, Zenon

LEMMA FollowNone ==
    ASSUME NEW tr, NEW x
    PROVE  Follow(tr, None, x) = None
BY Zenon DEF Follow

LEMMA FollowSkipped ==
    ASSUME NEW tr, NEW i, NEW x \in Skipped
    PROVE  Follow(tr, i, x) = i
BY Zenon DEF Follow

LEMMA FollowUp ==
    ASSUME NEW tr, NEW i, i # None
    PROVE  Follow(tr, i, "..") = ParentOf(tr, i)
<1>1. ".." \notin Skipped
  BY PartKinds, Zenon DEF Parts
<1> QED
  BY <1>1, Zenon DEF Follow

LEMMA FollowName ==
    ASSUME NEW tr, NEW i, i # None, NEW x \in Names
    PROVE  Follow(tr, i, x) = IF <<i, x>> \in DOMAIN tr THEN tr[<<i, x>>] ELSE None
<1>1. x # ".." /\ x \notin Skipped
  BY PartKinds, Zenon DEF Parts
<1> QED
  BY <1>1, Zenon DEF Follow

LEMMA StepsFacts ==
    ASSUME NEW tr, NEW p \in Seq(Parts), NEW i
    PROVE  /\ Steps(tr, p, i)[0] = i
           /\ \A k \in 1 .. Len(p) :
                 Steps(tr, p, i)[k] = Follow(tr, Steps(tr, p, i)[k - 1], p[k])
<1> DEFINE n == Len(p)
           F(a, k) == Follow(tr, a, p[k])
           Is(f, m) == /\ f = [k \in 0 .. m |-> f[k]]
                       /\ f[0] = i /\ \A k \in 1 .. m : f[k] = F(f[k - 1], k)
           S == {m \in 0 .. n : \E f : Is(f, m)}
<1>0. n \in Nat
  OBVIOUS
<1> HIDE DEF n
<1>1. 0 \in S
  <2> DEFINE f == [k \in 0 .. 0 |-> i]
  <2>1. Is(f, 0)
    <3> HIDE DEF F
    <3> QED OBVIOUS
  <2>2. 0 \in 0 .. n
    BY <1>0
  <2> HIDE DEF f, Is
  <2> QED
    BY <2>1, <2>2
<1>2. ASSUME NEW m \in 0 .. n - 1, m \in S
      PROVE  m + 1 \in S
  <2>1. PICK f : Is(f, m)
    BY <1>2
  <2> DEFINE g == [k \in 0 .. m + 1 |-> IF k = m + 1 THEN F(f[m], k) ELSE f[k]]
  <2> HIDE DEF F
  <2>2. g = [k \in 0 .. m + 1 |-> g[k]] /\ g[0] = i
    BY <1>0, <2>1
  <2>3. ASSUME NEW k \in 1 .. m + 1
        PROVE  g[k] = F(g[k - 1], k)
    <3>1. CASE k = m + 1
      BY <1>0, <3>1
    <3>2. CASE k # m + 1
      <4>1. k \in 1 .. m /\ k - 1 \in 0 .. m + 1 /\ k - 1 # m + 1 /\ k \in 0 .. m + 1
        BY <1>0, <3>2
      <4>2. f[k] = F(f[k - 1], k)
        BY <2>1, <4>1
      <4>3. g[k] = f[k] /\ g[k - 1] = f[k - 1]
        BY <3>2, <4>1
      <4> QED
        BY <4>2, <4>3
    <3> QED
      BY <3>1, <3>2
  <2>4. m + 1 \in 0 .. n
    BY <1>0
  <2> HIDE DEF g
  <2>5. Is(g, m + 1)
    BY <2>2, <2>3, Zenon
  <2> HIDE DEF Is
  <2> QED
    BY <2>4, <2>5
<1>3. n \in S
  <2> HIDE DEF S
  <2>1. \A k \in 0 .. n - 1 : k \in S => k + 1 \in S
    BY <1>2
  <2>2. \A k \in 0 .. n : k \in S
    BY ONLY <1>0, <1>1, <2>1, Inductive, Zenon
  <2> QED
    BY <1>0, <2>2
<1>4. PICK f : Is(f, n)
  BY <1>3
<1>5. f = [k \in 0 .. n |-> IF k = 0 THEN i ELSE F(f[k - 1], k)]
  <2> HIDE DEF F
  <2>1. f = [k \in 0 .. n |-> f[k]] /\ f[0] = i /\ \A k \in 1 .. n : f[k] = F(f[k - 1], k)
    BY <1>4
  <2>2. \A k \in 0 .. n : f[k] = IF k = 0 THEN i ELSE F(f[k - 1], k)
    BY ONLY <1>0, <2>1
  <2> QED
    BY ONLY <2>1, <2>2, Zenon
<1>6. PICK g : g = Steps(tr, p, i) /\ g = [k \in 0 .. n |-> IF k = 0 THEN i ELSE F(g[k - 1], k)]
  BY <1>5, Zenon DEF Steps, n
<1>7. g[0] = i /\ \A k \in 1 .. n : g[k] = F(g[k - 1], k)
  <2> HIDE DEF F
  <2> QED
    BY <1>0, <1>6
<1> QED
  BY <1>6, <1>7 DEF n

\* Where a path leads is in the tree, or nowhere.
LEMMA FollowRooted ==
    ASSUME NEW tr, IsTree(tr), NEW i, i = None \/ Rooted(tr, i), NEW x \in Parts
    PROVE  Follow(tr, i, x) = None \/ Rooted(tr, Follow(tr, i, x))
<1>0. i # None => Rooted(tr, i)
  OBVIOUS
<1>1. CASE i = None \/ x \in Skipped
  BY <1>0, <1>1, FollowNone, FollowSkipped
<1>2. CASE i # None /\ x = ".."
  <2>1. Follow(tr, i, x) = ParentOf(tr, i)
    BY <1>2, FollowUp
  <2>2. CASE i = RootInode
    BY <2>1, <2>2, Zenon DEF ParentOf, Rooted
  <2>3. CASE i # RootInode
    <3>1. \E a \in DOMAIN tr : tr[a] = i
      BY <1>0, <1>2, <2>3, Zenon DEF Rooted
    <3>2. PICK a \in DOMAIN tr : a = CHOOSE b \in DOMAIN tr : tr[b] = i
      BY <3>1, Zenon
    <3>3. ParentOf(tr, i) = a[1]
      BY <2>3, <3>2, Zenon DEF ParentOf
    <3> QED
      BY <2>1, <3>2, <3>3, Zenon DEF IsTree
  <2> QED
    BY <2>2, <2>3
<1>3. CASE i # None /\ x \in Names
  <2>1. Follow(tr, i, x) = IF <<i, x>> \in DOMAIN tr THEN tr[<<i, x>>] ELSE None
    BY <1>3, FollowName
  <2> QED
    BY <2>1, Zenon DEF Rooted
<1> QED
  BY <1>1, <1>2, <1>3, PartKinds

\* The directory an inode is in is unique.
LEMMA ParentUnique ==
    ASSUME NEW tr, IsTree(tr), NEW a \in DOMAIN tr
    PROVE  ParentOf(tr, tr[a]) = a[1]
<1>1. tr[a] # RootInode
  BY Zenon DEF IsTree
<1>2. PICK b \in DOMAIN tr : b = CHOOSE c \in DOMAIN tr : tr[c] = tr[a]
  BY Zenon
<1>3. tr[b] = tr[a]
  BY <1>2, Zenon
<1>4. a = b
  BY <1>3, Zenon DEF IsTree
<1> QED
  BY <1>1, <1>2, <1>4, Zenon DEF ParentOf

Grows(tr, tr2) == \A a \in DOMAIN tr : a \in DOMAIN tr2 /\ tr2[a] = tr[a]

\* What leads somewhere leads to the same when the tree has grown.
LEMMA FollowGrows ==
    ASSUME NEW tr, NEW tr2, IsTree(tr), IsTree(tr2), Grows(tr, tr2),
           NEW i, Rooted(tr, i), i # None, NEW x \in Parts,
           Follow(tr, i, x) # None
    PROVE  Follow(tr2, i, x) = Follow(tr, i, x)
<1>1. CASE x \in Skipped
  BY <1>1, FollowSkipped
<1>2. CASE x = ".."
  <2>1. Follow(tr, i, x) = ParentOf(tr, i) /\ Follow(tr2, i, x) = ParentOf(tr2, i)
    BY <1>2, FollowUp
  <2>2. CASE i = RootInode
    BY <2>1, <2>2, Zenon DEF ParentOf
  <2>3. CASE i # RootInode
    <3>1. PICK a \in DOMAIN tr : tr[a] = i
      BY <2>3, Zenon DEF Rooted
    <3>2. a \in DOMAIN tr2 /\ tr2[a] = i
      BY <3>1, Zenon DEF Grows
    <3> QED
      BY <2>1, <3>1, <3>2, ParentUnique, Zenon
  <2> QED
    BY <2>2, <2>3
<1>3. CASE x \in Names
  <2>1. /\ Follow(tr, i, x) = IF <<i, x>> \in DOMAIN tr THEN tr[<<i, x>>] ELSE None
        /\ Follow(tr2, i, x) = IF <<i, x>> \in DOMAIN tr2 THEN tr2[<<i, x>>] ELSE None
    BY <1>3, FollowName
  <2> QED
    BY <2>1, Zenon DEF Grows
<1>4. x \in Skipped \/ x = ".." \/ x \in Names
  BY PartKinds
<1> QED
  BY <1>1, <1>2, <1>3, <1>4, Zenon

LEMMA StepsRooted ==
    ASSUME NEW tr, IsTree(tr), NEW p \in Seq(Parts), NEW i, Rooted(tr, i)
    PROVE  \A k \in 0 .. Len(p) : Steps(tr, p, i)[k] = None \/ Rooted(tr, Steps(tr, p, i)[k])
<1> DEFINE n == Len(p)
           at == Steps(tr, p, i)
           S == {k \in 0 .. n : at[k] = None \/ Rooted(tr, at[k])}
<1>0. n \in Nat /\ at[0] = i /\ \A k \in 1 .. n : at[k] = Follow(tr, at[k - 1], p[k]) /\ p[k] \in Parts
  BY StepsFacts
<1> HIDE DEF n, at
<1>1. 0 \in S
  BY <1>0
<1>2. ASSUME NEW k \in 0 .. n - 1, k \in S
      PROVE  k + 1 \in S
  <2>1. k + 1 \in 1 .. n /\ k + 1 \in 0 .. n /\ (k + 1) - 1 = k
    BY <1>0
  <2>2. at[k + 1] = Follow(tr, at[k], p[k + 1]) /\ p[k + 1] \in Parts
    BY <1>0, <2>1
  <2>3. at[k] = None \/ Rooted(tr, at[k])
    BY <1>2
  <2>4. at[k + 1] = None \/ Rooted(tr, at[k + 1])
    BY <2>2, <2>3, FollowRooted, Zenon
  <2> QED
    BY <2>1, <2>4
<1>3. \A k \in 0 .. n : k \in S
  <2> HIDE DEF S
  <2>1. \A k \in 0 .. n - 1 : k \in S => k + 1 \in S
    BY <1>2
  <2> QED
    BY ONLY <1>0, <1>1, <2>1, Inductive, Zenon
<1> QED
  BY <1>3 DEF at, n

LEMMA StepsGrow ==
    ASSUME NEW tr, NEW tr2, IsTree(tr), IsTree(tr2), Grows(tr, tr2),
           NEW p \in Seq(Parts), NEW i, Rooted(tr, i)
    PROVE  \A k \in 0 .. Len(p) : Steps(tr, p, i)[k] # None => Steps(tr2, p, i)[k] = Steps(tr, p, i)[k]
<1> DEFINE n == Len(p)
           at == Steps(tr, p, i)
           at2 == Steps(tr2, p, i)
           S == {k \in 0 .. n : at[k] # None => at2[k] = at[k]}
<1>0. /\ n \in Nat /\ at[0] = i /\ at2[0] = i
      /\ \A k \in 1 .. n : /\ at[k] = Follow(tr, at[k - 1], p[k])
                           /\ at2[k] = Follow(tr2, at2[k - 1], p[k])
                           /\ p[k] \in Parts
  BY StepsFacts
<1>r. \A k \in 0 .. n : at[k] = None \/ Rooted(tr, at[k])
  BY StepsRooted
<1> HIDE DEF n, at, at2
<1>1. 0 \in S
  BY <1>0
<1>2. ASSUME NEW k \in 0 .. n - 1, k \in S
      PROVE  k + 1 \in S
  <2>1. k + 1 \in 1 .. n /\ k + 1 \in 0 .. n /\ (k + 1) - 1 = k /\ k \in 0 .. n
    BY <1>0
  <2>2. /\ at[k + 1] = Follow(tr, at[k], p[k + 1]) /\ p[k + 1] \in Parts
        /\ at2[k + 1] = Follow(tr2, at2[k], p[k + 1])
    BY <1>0, <2>1
  <2>3. /\ at[k] # None => at2[k] = at[k]
        /\ at[k] = None \/ Rooted(tr, at[k])
    BY <1>2, <1>r, <2>1
  <2>4. at[k] = None => at[k + 1] = None
    BY <2>2, FollowNone
  <2>5. at[k + 1] # None => at2[k + 1] = at[k + 1]
    BY <2>2, <2>3, <2>4, FollowGrows
  <2> QED
    BY <2>1, <2>5
<1>3. \A k \in 0 .. n : k \in S
  <2> HIDE DEF S
  <2>1. \A k \in 0 .. n - 1 : k \in S => k + 1 \in S
    BY <1>2
  <2> QED
    BY ONLY <1>0, <1>1, <2>1, Inductive, Zenon
<1> QED
  BY <1>3 DEF at, at2, n

\* Files that are created make no way into a directory where there was none,
\* but by a path that leads up again.
LEMMA StepsNotInto ==
    ASSUME NEW tr, NEW tr2, IsTree(tr2), Grows(tr, tr2),
           \A a \in DOMAIN tr2 : a \in DOMAIN tr \/ tr2[a] \notin Directories,
           NEW p \in Seq(Parts), NEW i, NEW m \in 0 .. Len(p), \A k \in 1 .. m : p[k] # "..",
           Steps(tr, p, i)[m] \notin Directories
    PROVE  Steps(tr2, p, i)[m] \notin Directories
<1> DEFINE at == Steps(tr, p, i)
           at2 == Steps(tr2, p, i)
           S == {k \in 0 .. m : at[k] = at2[k] \/ at2[k] \notin Directories}
<1>0. /\ m \in Nat /\ at[0] = i /\ at2[0] = i
      /\ \A k \in 1 .. m : /\ at[k] = Follow(tr, at[k - 1], p[k])
                           /\ at2[k] = Follow(tr2, at2[k - 1], p[k])
                           /\ p[k] \in Parts /\ p[k] # ".."
  <2>1. m \in Nat /\ \A k \in 1 .. m : k \in 1 .. Len(p) /\ p[k] \in Parts
    OBVIOUS
  <2>2. /\ at[0] = i /\ at2[0] = i
        /\ \A k \in 1 .. Len(p) : /\ at[k] = Follow(tr, at[k - 1], p[k])
                                  /\ at2[k] = Follow(tr2, at2[k - 1], p[k])
    BY StepsFacts
  <2> QED
    BY <2>1, <2>2, Zenon
<1>d. at[m] \notin Directories
  OBVIOUS
<1> HIDE DEF at, at2
<1>1. 0 \in S
  BY <1>0
<1>2. ASSUME NEW k \in 0 .. m - 1, k \in S
      PROVE  k + 1 \in S
  <2>1. k + 1 \in 1 .. m /\ k + 1 \in 0 .. m /\ (k + 1) - 1 = k
    BY <1>0
  <2> DEFINE x == p[k + 1]
  <2>2. /\ at[k + 1] = Follow(tr, at[k], x) /\ x \in Parts /\ x # ".."
        /\ at2[k + 1] = Follow(tr2, at2[k], x)
    BY <1>0, <2>1
  <2> HIDE DEF x
  <2>3. at[k] = at2[k] \/ at2[k] \notin Directories
    BY <1>2
  <2>4. None \notin Directories
    BY TreeAssumption, Zenon
  <2>5. CASE at2[k] = None \/ x \in Skipped
    BY <2>2, <2>3, <2>4, <2>5, FollowNone, FollowSkipped
  <2>6. CASE at2[k] # None /\ x \in Names
    <3>1. at2[k + 1] = IF <<at2[k], x>> \in DOMAIN tr2 THEN tr2[<<at2[k], x>>] ELSE None
      BY <2>2, <2>6, FollowName
    <3>2. CASE at[k] = at2[k]
      <4>1. at[k + 1] = IF <<at2[k], x>> \in DOMAIN tr THEN tr[<<at2[k], x>>] ELSE None
        BY <2>2, <2>6, <3>2, FollowName
      <4> QED
        BY <2>4, <3>1, <4>1 DEF Grows
    <3>3. CASE at2[k] \notin Directories
      <4>1. <<at2[k], x>> \notin DOMAIN tr2
        BY <3>3 DEF IsTree
      <4> QED
        BY <2>4, <3>1, <4>1
    <3> QED
      BY <2>3, <3>2, <3>3
  <2>7. at[k + 1] = at2[k + 1] \/ at2[k + 1] \notin Directories
    BY <2>2, <2>5, <2>6, PartKinds
  <2> QED
    BY <2>1, <2>7
<1>3. \A k \in 0 .. m : k \in S
  <2> HIDE DEF S
  <2>1. \A k \in 0 .. m - 1 : k \in S => k + 1 \in S
    BY <1>2
  <2> QED
    BY ONLY <1>0, <1>1, <2>1, Inductive, Zenon
<1>4. at[m] = at2[m] \/ at2[m] \notin Directories
  BY <1>0, <1>3
<1>5. at2[m] \notin Directories
  BY <1>d, <1>4
<1> QED
  BY <1>5 DEF at2

\* Nothing leads on from nowhere.
LEMMA StepsNone ==
    ASSUME NEW tr, NEW p \in Seq(Parts), NEW i, NEW m \in 0 .. Len(p),
           Steps(tr, p, i)[m] = None
    PROVE  \A k \in m .. Len(p) : Steps(tr, p, i)[k] = None
<1> DEFINE n == Len(p)
           at == Steps(tr, p, i)
           S == {k \in 0 .. n : k >= m => at[k] = None}
<1>0. /\ n \in Nat /\ m \in 0 .. n /\ at[m] = None
      /\ \A k \in 1 .. n : at[k] = Follow(tr, at[k - 1], p[k])
  BY StepsFacts
<1> HIDE DEF n, at
<1>1. 0 \in S
  BY <1>0
<1>2. ASSUME NEW k \in 0 .. n - 1, k \in S
      PROVE  k + 1 \in S
  <2>1. k + 1 \in 1 .. n /\ k + 1 \in 0 .. n /\ (k + 1) - 1 = k
    BY <1>0
  <2>2. at[k + 1] = Follow(tr, at[k], p[k + 1])
    BY <1>0, <2>1
  <2>3. k >= m => at[k + 1] = None
    BY <1>2, <2>2, FollowNone
  <2>4. k + 1 >= m => k + 1 = m \/ k >= m
    BY <1>0
  <2> QED
    BY <1>0, <2>1, <2>3, <2>4
<1>3. \A k \in 0 .. n : k \in S
  <2> HIDE DEF S
  <2>1. \A k \in 0 .. n - 1 : k \in S => k + 1 \in S
    BY <1>2
  <2> QED
    BY ONLY <1>0, <1>1, <2>1, Inductive, Zenon
<1>4. \A k \in m .. n : at[k] = None
  BY <1>0, <1>3
<1> QED
  BY <1>4 DEF at, n
\* What LookInv says of one call.
LEMMA LookFacts ==
    ASSUME LookInv, NEW t \in Threads
    PROVE  /\ CacheInv /\ IsTree(tree) /\ ParentsInv
           /\ WalkInv(t) /\ AnswerRight(t)
           /\ call[t].path \in Seq(Parts) /\ Len(call[t].path) \in Nat \ {0}
           /\ call[t].rest \in Seq(Parts) /\ Len(call[t].rest) \in Nat
           /\ call[t].current \in DOMAIN entries /\ call[t].start \in DOMAIN entries
           /\ call[t].goal \in {"lookup", "open", "create"} /\ call[t].found \in BOOLEAN
           /\ Here(t) \in Inodes /\ Here(t) # None
           /\ \A e \in DOMAIN entries : Rooted(tree, entries[e].inode)
           /\ \A d \in DOMAIN entries : Rooted(tree, From(call[t].path, d))
<1>1. /\ CacheInv /\ IsTree(tree) /\ ParentsInv
      /\ WalkInv(t) /\ AnswerRight(t)
  BY Zenon DEF LookInv, AnswersRight
<1>2. /\ DOMAIN entries = 1 .. Len(entries) /\ call[t] \in Call(Len(entries))
      /\ \A e \in DOMAIN entries : entries[e] \in Entry(Len(entries))
  BY <1>1, CacheFacts
<1>3. /\ call[t].path \in Seq(Parts) \ {<<>>}
      /\ call[t].rest \in Seq(Parts)
      /\ call[t].current \in DOMAIN entries /\ call[t].start \in DOMAIN entries
      /\ call[t].goal \in {"lookup", "open", "create"} /\ call[t].found \in BOOLEAN
  BY <1>2 DEF Call
<1>4. Len(call[t].path) \in Nat \ {0} /\ Len(call[t].rest) \in Nat
  BY <1>3
<1>5. Here(t) \in Inodes
  BY <1>2, <1>3 DEF Here, Entry
<1>6. None \notin Inodes
  BY TreeAssumption DEF Inodes
<1>7. \A e \in DOMAIN entries : Rooted(tree, entries[e].inode)
  <2>1. ASSUME NEW e \in DOMAIN entries, e # 1
        PROVE  Rooted(tree, entries[e].inode)
    <3>1. Hangs(e)
      BY <1>1, <2>1 DEF ParentsInv, Root
    <3> QED
      BY <3>1, Zenon DEF Hangs, Rooted
  <2>2. Rooted(tree, entries[1].inode)
    BY <1>1 DEF ParentsInv, Root, Rooted
  <2> QED
    BY <2>1, <2>2
<1>8. \A d \in DOMAIN entries : Rooted(tree, From(call[t].path, d))
  <2>1. Rooted(tree, RootInode)
    BY Zenon DEF Rooted
  <2> QED
    BY <1>7, <2>1, Zenon DEF From
<1> QED
  BY <1>1, <1>3, <1>4, <1>5, <1>6, <1>7, <1>8

\* What the threads do to the file system and to the entries: they grow.
Growth ==
    /\ IsTree(tree') /\ Grows(tree, tree')
    /\ \A a \in DOMAIN tree' : a \in DOMAIN tree \/ tree'[a] \notin Directories
    /\ \A e \in DOMAIN entries : e \in DOMAIN entries' /\ entries'[e] = entries[e]

LEMMA WayGrows ==
    ASSUME LookInv, Growth, NEW t \in Threads,
           call'[t].path = call[t].path, call'[t].start = call[t].start
    PROVE  /\ \A k \in 0 .. Len(call[t].path) : Way(t)[k] # None => Way(t)'[k] = Way(t)[k]
           /\ \A m \in 0 .. Len(call[t].path) :
                 (\A k \in 1 .. m : call[t].path[k] # "..") /\ Way(t)[m] \notin Directories
                    => Way(t)'[m] \notin Directories
<1> DEFINE p == call[t].path
           i == From(p, call[t].start)
<1>1. /\ IsTree(tree) /\ p \in Seq(Parts) /\ call[t].start \in DOMAIN entries
      /\ Rooted(tree, i)
  BY LookFacts
<1>2. IF Absolute(p) THEN i = RootInode ELSE i = entries[call[t].start].inode
  BY Zenon DEF From
<1>3. From(call[t].path, call[t].start)' = i
  <2>1. entries'[call[t].start] = entries[call[t].start]
    BY <1>1 DEF Growth
  <2>2. From(call[t].path, call[t].start)'
           = IF Absolute(p) THEN RootInode ELSE entries'[call[t].start].inode
    <3> DEFINE q == call'[t].path
               d == call'[t].start
    <3>1. From(call[t].path, call[t].start)' = IF Absolute(q) THEN RootInode ELSE entries'[d].inode
      BY Zenon DEF From
    <3>2. q = p /\ d = call[t].start
      OBVIOUS
    <3> HIDE DEF q, d, p
    <3> QED
      BY <3>1, <3>2
  <2> HIDE DEF i, p
  <2> QED
    BY <1>2, <2>1, <2>2
<1>4. Way(t) = Steps(tree, p, i)
  BY Zenon DEF Way
<1>5. Way(t)' = Steps(tree', p, i)
  BY <1>3, Zenon DEF Way
<1> HIDE DEF p, i
<1>6. \A k \in 0 .. Len(p) : Steps(tree, p, i)[k] # None => Steps(tree', p, i)[k] = Steps(tree, p, i)[k]
  BY <1>1, StepsGrow DEF Growth
<1>7. ASSUME NEW m \in 0 .. Len(p), \A k \in 1 .. m : p[k] # "..", Steps(tree, p, i)[m] \notin Directories
      PROVE  Steps(tree', p, i)[m] \notin Directories
  BY <1>1, <1>7, StepsNotInto, Zenon DEF Growth
<1> QED
  BY <1>4, <1>5, <1>6, <1>7, Zenon DEF p

\* The way of a call, part by part.
LEMMA WayFacts ==
    ASSUME LookInv, NEW t \in Threads
    PROVE  /\ Way(t)[0] = From(call[t].path, call[t].start)
           /\ \A k \in 1 .. Len(call[t].path) :
                 /\ Way(t)[k] = Follow(tree, Way(t)[k - 1], call[t].path[k])
                 /\ call[t].path[k] \in Parts
           /\ \A m \in 0 .. Len(call[t].path) : Way(t)[m] = None =>
                 \A k \in m .. Len(call[t].path) : Way(t)[k] = None
           /\ Target(call[t].path, call[t].start) = Way(t)[Len(call[t].path)]
<1> DEFINE p == call[t].path
           i == From(p, call[t].start)
<1>1. p \in Seq(Parts)
  BY LookFacts
<1>2. Way(t) = Steps(tree, p, i)
  BY Zenon DEF Way
<1>3. Target(p, call[t].start) = Way(t)[Len(p)]
  BY Zenon DEF Way, Target
<1> HIDE DEF p, i
<1>4. /\ Way(t)[0] = i
      /\ \A k \in 1 .. Len(p) : Way(t)[k] = Follow(tree, Way(t)[k - 1], p[k])
  BY <1>1, <1>2, StepsFacts
<1>5. \A m \in 0 .. Len(p) : Way(t)[m] = None => \A k \in m .. Len(p) : Way(t)[k] = None
  <2>1. ASSUME NEW m \in 0 .. Len(p), Steps(tree, p, i)[m] = None
        PROVE  \A k \in m .. Len(p) : Steps(tree, p, i)[k] = None
    BY ONLY <1>1, <2>1, StepsNone, Zenon
  <2> QED
    BY <1>2, <2>1, Zenon
<1>6. \A k \in 1 .. Len(p) : p[k] \in Parts
  BY <1>1
<1> QED
  BY <1>3, <1>4, <1>5, <1>6 DEF p, i

\* What a call keeps while its arguments and its goal stay.
LEMMA SameCall ==
    ASSUME LookInv, Growth, NEW t \in Threads, pc[t] # "idle",
           call'[t].path = call[t].path, call'[t].start = call[t].start,
           call'[t].goal = call[t].goal, call'[t].found = call[t].found
    PROVE  /\ call'[t].path \in Paths
           /\ call'[t].goal # "lookup" => call'[t].start = 1
           /\ NewName(t)' = NewName(t)
           /\ call[t].goal = "create" =>
                 ~call[t].found /\ (NewName(t) \in Names \/ Way(t)'[Len(call[t].path) - 1] \notin Directories)
           /\ call[t].found => Way(t)'[Len(call[t].path)] # None
<1> DEFINE n == Len(call[t].path)
<1>1. WalkInv(t) /\ n \in Nat \ {0}
  BY LookFacts
<1>2. /\ call[t].path \in Paths
      /\ call[t].goal # "lookup" => call[t].start = 1
      /\ call[t].goal = "create" =>
            ~call[t].found /\ (NewName(t) \in Names \/ Way(t)[n - 1] \notin Directories)
      /\ call[t].found => Way(t)[n] # None
  BY <1>1, Zenon DEF WalkInv, Root
<1>3. /\ \A k \in 0 .. n : Way(t)[k] # None => Way(t)'[k] = Way(t)[k]
      /\ \A m \in 0 .. n : (\A k \in 1 .. m : call[t].path[k] # "..") /\ Way(t)[m] \notin Directories
                              => Way(t)'[m] \notin Directories
  BY WayGrows
<1>4. NewName(t)' = NewName(t) /\ NewName(t) = call[t].path[n]
  BY DEF NewName
<1>5. call[t].path[n] \in Names \/ \A k \in 1 .. n - 1 : call[t].path[k] # ".."
  BY <1>2, Zenon DEF LookInv, NamedLast
<1>6. n - 1 \in 0 .. n /\ n \in 0 .. n
  BY <1>1
<1> HIDE DEF n
<1>7. Way(t)[n - 1] \notin Directories =>
         NewName(t) \in Names \/ Way(t)'[n - 1] \notin Directories
  BY <1>3, <1>4, <1>5, <1>6
<1>8. call[t].found => Way(t)'[n] # None
  BY <1>2, <1>3, <1>6
<1> QED
  BY <1>2, <1>4, <1>7, <1>8 DEF n

\* A walk that stays where it is stays on its way.
LEMMA SamePlace ==
    ASSUME LookInv, Growth, NEW t \in Threads,
           call'[t].path = call[t].path, call'[t].start = call[t].start, call'[t].goal = call[t].goal,
           call'[t].current = call[t].current
    PROVE  /\ Here(t)' = Here(t)
           /\ \A k \in 0 .. Len(call[t].path) : Here(t) = Way(t)[k] => Here(t) = Way(t)'[k]
           /\ call'[t].rest = call[t].rest /\ OnTheWay(t) => OnTheWay(t)'
           /\ call'[t].rest = call[t].rest /\ AtTheRoot(t) => AtTheRoot(t)'
<1>1. /\ call[t].current \in DOMAIN entries /\ Here(t) # None
      /\ Len(call[t].path) \in Nat \ {0} /\ Len(call[t].rest) \in Nat
  BY LookFacts
<1>2. Here(t)' = Here(t)
  BY <1>1 DEF Growth, Here
<1>3. \A k \in 0 .. Len(call[t].path) : Here(t) = Way(t)[k] => Here(t) = Way(t)'[k]
  BY <1>1, WayGrows
<1>4. ASSUME call'[t].rest = call[t].rest, OnTheWay(t)
      PROVE  OnTheWay(t)'
  <2> DEFINE done == Whole(t) - Len(call[t].rest)
  <2>1. /\ done >= 0 /\ Here(t) = Way(t)[done]
        /\ \A j \in 1 .. Len(call[t].rest) : call[t].rest[j] = call[t].path[done + j]
    BY <1>4, Zenon DEF OnTheWay
  <2>2. Whole(t)' = Whole(t) /\ Whole(t) \in 0 .. Len(call[t].path)
    BY <1>1 DEF Whole
  <2>3. done \in 0 .. Len(call[t].path) /\ done' = done
    BY <1>1, <1>4, <2>1, <2>2
  <2>4. Here(t)' = Way(t)'[done]
    BY <1>2, <1>3, <2>1, <2>3
  <2> QED
    BY <1>4, <2>1, <2>2, <2>3, <2>4 DEF OnTheWay
<1>5. ASSUME call'[t].rest = call[t].rest, AtTheRoot(t)
      PROVE  AtTheRoot(t)'
  <2>1. /\ call[t].goal = "create" /\ Len(call[t].path) = 1 /\ Here(t) = Way(t)[0]
        /\ \A j \in 1 .. Len(call[t].rest) : call[t].rest[j] \in Skipped
    BY <1>5, Zenon DEF AtTheRoot
  <2>2. Here(t)' = Way(t)'[0]
    BY <1>2, <1>3, <2>1
  <2> QED
    BY <1>5, <2>1, <2>2 DEF AtTheRoot
<1> QED
  BY <1>2, <1>3, <1>4, <1>5

\* A call that somebody else's step leaves alone.
LEMMA OtherKeeps ==
    ASSUME LookInv, Growth, NEW t \in Threads, pc'[t] = pc[t], call'[t] = call[t],
           pc[t] # "idle"
    PROVE  WalkInv(t)' /\ AnswerRight(t)'
<1> DEFINE n == Len(call[t].path)
<1>1. WalkInv(t) /\ AnswerRight(t) /\ n \in Nat \ {0} /\ Here(t) # None
  BY LookFacts
<1>2. /\ call'[t].path = call[t].path /\ call'[t].start = call[t].start /\ call'[t].goal = call[t].goal
      /\ call'[t].found = call[t].found /\ call'[t].current = call[t].current /\ call'[t].rest = call[t].rest
  OBVIOUS
<1>3. /\ call'[t].path \in Paths
      /\ call'[t].goal # "lookup" => call'[t].start = 1
      /\ NewName(t)' = NewName(t)
      /\ call[t].goal = "create" =>
            ~call[t].found /\ (NewName(t) \in Names \/ Way(t)'[n - 1] \notin Directories)
      /\ call[t].found => Way(t)'[n] # None
  BY <1>2, SameCall
<1>4. /\ Here(t)' = Here(t)
      /\ \A k \in 0 .. n : Here(t) = Way(t)[k] => Here(t) = Way(t)'[k]
      /\ OnTheWay(t) => OnTheWay(t)'
      /\ AtTheRoot(t) => AtTheRoot(t)'
  BY <1>2, SamePlace
<1>5. n - 1 \in 0 .. n /\ n \in 0 .. n
  BY <1>1
<1>6. WalkInv(t)'
  BY <1>1, <1>2, <1>3, <1>4, <1>5 DEF WalkInv, Root
<1>7. \A k \in 0 .. n : Way(t)[k] # None => Way(t)'[k] = Way(t)[k]
  BY <1>2, WayGrows
<1>8. /\ Target(call[t].path, call[t].start) = Way(t)[n]
      /\ Target(call[t].path, call[t].start)' = Way(t)'[n]
  BY <1>2, Zenon DEF Target, Way
<1>9. None \notin Directories
  BY TreeAssumption
<1>10. AnswerRight(t)'
  BY <1>1, <1>2, <1>4, <1>5, <1>7, <1>8, <1>9 DEF AnswerRight, Here
<1> QED
  BY <1>6, <1>10

LEMMA IdleKeeps ==
    ASSUME NEW t \in Threads, pc'[t] = "idle", call'[t].goal = "lookup", ~call'[t].found
    PROVE  WalkInv(t)' /\ AnswerRight(t)'
<1>1. WalkInv(t)'
  BY DEF WalkInv
<1>2. AnswerRight(t)'
  BY DEF AnswerRight
<1> QED
  BY <1>1, <1>2

LEMMA ParentsKept ==
    ASSUME ParentsInv, Growth, 1 \in DOMAIN entries,
           \A e \in DOMAIN entries' : e \in DOMAIN entries \/ Hangs(e)'
    PROVE  ParentsInv'
<1>1. entries'[1] = entries[1]
  BY DEF Growth
<1>2. ASSUME NEW e \in DOMAIN entries', e # 1
      PROVE  Hangs(e)'
  <2>1. CASE e \in DOMAIN entries
    <3>1. Hangs(e)
      BY <1>2, <2>1 DEF ParentsInv, Root
    <3> DEFINE d == entries[e].parent
    <3>2. d \in DOMAIN entries /\ \E m \in Names : <<entries[d].inode, m>> \in DOMAIN tree /\ tree[<<entries[d].inode, m>>] = entries[e].inode
      BY <3>1, Zenon DEF Hangs
    <3>3. PICK m \in Names : <<entries[d].inode, m>> \in DOMAIN tree /\ tree[<<entries[d].inode, m>>] = entries[e].inode
      BY <3>2
    <3>4. d \in DOMAIN entries' /\ entries'[d] = entries[d] /\ entries'[e] = entries[e]
      BY <2>1, <3>2 DEF Growth
    <3>5. <<entries'[d].inode, m>> \in DOMAIN tree' /\ tree'[<<entries'[d].inode, m>>] = entries'[e].inode
      BY <3>3, <3>4 DEF Growth, Grows
    <3>6. entries'[e].parent = d
      BY <3>4
    <3> HIDE DEF d
    <3> QED
      BY <3>4, <3>5, <3>6 DEF Hangs
  <2> QED
    BY <1>2, <2>1
<1> QED
  BY <1>1, <1>2 DEF ParentsInv, Root

\* The calls that a step leaves alone.
LEMMA Untouched ==
    ASSUME LookInv, Growth, NEW u \in Threads, pc'[u] = pc[u], call'[u] = call[u]
    PROVE  WalkInv(u)' /\ AnswerRight(u)'
<1>1. CASE pc[u] # "idle"
  BY <1>1, OtherKeeps
<1>2. CASE pc[u] = "idle"
  <2>1. call[u].goal = "lookup" /\ ~call[u].found
    BY <1>2, Zenon DEF LookInv, WalkInv
  <2> QED
    BY <1>2, <2>1, IdleKeeps
<1> QED
  BY <1>1, <1>2

\* A step of thread t.
LEMMA StepOf ==
    ASSUME LookInv, Next, Growth, NEW t \in Threads,
           \A e \in DOMAIN entries' : e \in DOMAIN entries \/ Hangs(e)',
           \A u \in Threads \ {t} : pc'[u] = pc[u] /\ call'[u] = call[u],
           WalkInv(t)', AnswerRight(t)'
    PROVE  LookInv'
<1>1. CacheInv /\ ParentsInv
  BY Zenon DEF LookInv
<1>2. CacheInv'
  BY <1>1, CacheStep
<1>3. 1 \in DOMAIN entries
  BY <1>1, CacheFacts
<1>4. ParentsInv'
  BY <1>1, <1>3, ParentsKept
<1>5. IsTree(tree)'
  BY Zenon DEF Growth
<1>6. ASSUME NEW u \in Threads, u # t
      PROVE  WalkInv(u)' /\ AnswerRight(u)'
  BY <1>6, Untouched
<1>7. \A u \in Threads : WalkInv(u)' /\ AnswerRight(u)'
  BY <1>6
<1>8. NamedLast'
  BY Zenon DEF LookInv, NamedLast
<1> QED
  BY <1>2, <1>4, <1>5, <1>7, <1>8, Zenon DEF LookInv, AnswersRight

LEMMA QuietGrowth ==
    ASSUME LookInv, UNCHANGED <<tree, entries>>
    PROVE  Growth
BY DEF Growth, Grows, LookInv

\* A step of thread t that leaves the file system and the cache alone.
LEMMA QuietStepOf ==
    ASSUME LookInv, Next, NEW t \in Threads, UNCHANGED <<tree, entries>>,
           \A u \in Threads \ {t} : pc'[u] = pc[u] /\ call'[u] = call[u],
           WalkInv(t)', AnswerRight(t)'
    PROVE  LookInv'
BY QuietGrowth, StepOf

\* A call that goes on with the same arguments.
LEMMA MoveKeeps ==
    ASSUME LookInv, Growth, NEW t \in Threads, pc[t] # "idle", pc'[t] # "idle",
           call'[t].path = call[t].path, call'[t].start = call[t].start,
           call'[t].goal = call[t].goal, call'[t].found = call[t].found,
           pc'[t] \in {"walk", "ask", "insert"} => OnTheWay(t)' \/ AtTheRoot(t)',
           pc'[t] \in {"create", "link"} =>
              call[t].goal = "create" /\ Here(t)' = Way(t)'[Len(call[t].path) - 1],
           pc'[t] = "link" => NewName(t) \in Names,
           pc'[t] = "check" => Here(t)' = Way(t)'[Len(call[t].path)]
    PROVE  WalkInv(t)'
<1> DEFINE n == Len(call[t].path)
<1>1. /\ call'[t].path \in Paths
      /\ call'[t].goal # "lookup" => call'[t].start = 1
      /\ NewName(t)' = NewName(t)
      /\ call[t].goal = "create" =>
            ~call[t].found /\ (NewName(t) \in Names \/ Way(t)'[n - 1] \notin Directories)
      /\ call[t].found => Way(t)'[n] # None
  BY SameCall
<1> QED
  BY <1>1 DEF WalkInv, Root

\* The next part of a walk that is on its way.
LEMMA NextPart ==
    ASSUME LookInv, NEW t \in Threads, OnTheWay(t), call[t].rest # <<>>
    PROVE  LET d == Whole(t) - Len(call[t].rest)
           IN /\ d \in 0 .. Whole(t) - 1 /\ Whole(t) \in 0 .. Len(call[t].path)
              /\ Part(t) = call[t].path[d + 1] /\ Part(t) \in Parts
              /\ Way(t)[d + 1] = Follow(tree, Here(t), Part(t))
<1> DEFINE d == Whole(t) - Len(call[t].rest)
           n == Len(call[t].path)
<1>1. /\ n \in Nat \ {0} /\ call[t].rest \in Seq(Parts)
  BY LookFacts
<1>2. Len(call[t].rest) \in Nat \ {0} /\ Part(t) = call[t].rest[1]
  BY <1>1 DEF Part
<1>3. Whole(t) \in 0 .. n
  BY <1>1 DEF Whole
<1>4. /\ d >= 0 /\ Here(t) = Way(t)[d]
      /\ \A j \in 1 .. Len(call[t].rest) : call[t].rest[j] = call[t].path[d + j]
  BY Zenon DEF OnTheWay
<1>5. d \in 0 .. Whole(t) - 1 /\ d + 1 \in 1 .. n /\ (d + 1) - 1 = d
  <2>1. \A w \in 0 .. n, l \in Nat \ {0} :
           w - l >= 0 => w - l \in 0 .. w - 1 /\ (w - l) + 1 \in 1 .. n /\ ((w - l) + 1) - 1 = w - l
    BY ONLY <1>1
  <2> QED
    BY <1>2, <1>3, <1>4, <2>1, Zenon
<1>6. Part(t) = call[t].path[d + 1]
  BY <1>2, <1>4
<1>7. \A k \in 1 .. n : /\ Way(t)[k] = Follow(tree, Way(t)[k - 1], call[t].path[k])
                        /\ call[t].path[k] \in Parts
  BY WayFacts
<1> HIDE DEF d
<1>8. /\ Way(t)[d + 1] = Follow(tree, Way(t)[d], call[t].path[d + 1])
      /\ call[t].path[d + 1] \in Parts
  BY <1>5, <1>7
<1> QED
  BY <1>3, <1>4, <1>5, <1>6, <1>8 DEF d

\* One part is done with, by the entry of the inode it leads to.
LEMMA Advance ==
    ASSUME LookInv, Growth, tree' = tree, NEW t \in Threads,
           pc[t] \in {"walk", "ask", "insert"}, call[t].rest # <<>>,
           NEW e \in DOMAIN entries', Enter(t, e),
           entries'[e].inode = Follow(tree, Here(t), Part(t)),
           entries'[e].inode # None
    PROVE  WalkInv(t)' /\ AnswerRight(t)'
<1> DEFINE n == Len(call[t].path)
           r == call[t].rest
<1>1. /\ n \in Nat \ {0} /\ r \in Seq(Parts) /\ CacheInv /\ WalkInv(t)
      /\ Here(t) # None
  BY LookFacts
<1>2. call[t] \in Call(Len(entries)) /\ call \in [Threads -> Call(Len(entries))] /\ pc \in [Threads -> PCs]
  BY <1>1, CacheFacts
<1>3. call'[t] = [call[t] EXCEPT !.rest = Tail(r), !.current = e] /\ pc'[t] = "walk"
  BY <1>2 DEF Enter
<1>4. /\ call'[t].path = call[t].path /\ call'[t].start = call[t].start /\ call'[t].goal = call[t].goal
      /\ call'[t].found = call[t].found /\ call'[t].current = e /\ call'[t].rest = Tail(r)
  BY <1>2, <1>3 DEF Call
<1>5. /\ Len(Tail(r)) = Len(r) - 1 /\ Len(r) \in Nat \ {0}
      /\ \A j \in 1 .. Len(r) - 1 : Tail(r)[j] = r[j + 1] /\ j + 1 \in 1 .. Len(r)
  BY <1>1
<1>6. OnTheWay(t) \/ AtTheRoot(t)
  BY <1>1, Zenon DEF WalkInv
<1>7. Here(t)' = Follow(tree, Here(t), Part(t))
  BY <1>4 DEF Here
<1>8. Whole(t)' = Whole(t)
  BY <1>4 DEF Whole
<1>9. \A k \in 0 .. n : Way(t)[k] # None => Way(t)'[k] = Way(t)[k]
  BY <1>4, WayGrows
<1>10. CASE OnTheWay(t)
  <2> DEFINE d == Whole(t) - Len(r)
  <2>1. /\ d \in 0 .. Whole(t) - 1 /\ Whole(t) \in 0 .. n
        /\ Way(t)[d + 1] = Follow(tree, Here(t), Part(t))
    BY <1>10, NextPart
  <2>2. \A j \in 1 .. Len(r) : r[j] = call[t].path[d + j]
    BY <1>10, Zenon DEF OnTheWay
  <2>3. Whole(t)' - Len(call'[t].rest) = d + 1 /\ d + 1 \in 0 .. n
    <3>1. Len(call'[t].rest) = Len(r) - 1 /\ Len(r) \in Nat /\ n \in Nat
      BY <1>1, <1>4, <1>5
    <3>2. \A w, l, m \in Nat : w - l \in 0 .. w - 1 /\ w \in 0 .. m
                                => w - (l - 1) = (w - l) + 1 /\ (w - l) + 1 \in 0 .. m
      OBVIOUS
    <3>3. Whole(t) \in Nat
      BY <1>1, <2>1
    <3> QED
      BY ONLY <1>8, <2>1, <3>1, <3>2, <3>3, Zenon
  <2>4. Way(t)'[d + 1] = Here(t)'
    <3>1. Way(t)[d + 1] # None
      BY <1>7, <1>4, <2>1
    <3> QED
      BY <1>7, <1>9, <2>1, <2>3, <3>1
  <2>5. ASSUME NEW j \in 1 .. Len(r) - 1
        PROVE  Tail(r)[j] = call[t].path[(d + 1) + j]
    <3>1. Tail(r)[j] = r[j + 1] /\ r[j + 1] = call[t].path[d + (j + 1)]
      BY <1>5, <2>2
    <3>2. d \in Nat => d + (j + 1) = (d + 1) + j
      BY ONLY <1>5
    <3>3. d \in Nat
      BY <2>1
    <3> QED
      BY <3>1, <3>2, <3>3, Zenon
  <2> HIDE DEF d
  <2>6. OnTheWay(t)'
    <3> DEFINE w == Whole(t)'
               q == call'[t].rest
    <3>1. w - Len(q) = d + 1 /\ d + 1 >= 0
      BY <1>1, <2>3
    <3>2. \A j \in 1 .. Len(q) : q[j] = call'[t].path[(w - Len(q)) + j]
      BY <1>4, <1>5, <2>5, <3>1
    <3>3. Here(t)' = Way(t)'[w - Len(q)]
      BY <2>4, <3>1
    <3> QED
      BY <3>1, <3>2, <3>3, Zenon DEF OnTheWay
  <2>7. WalkInv(t)'
    BY <1>3, <1>4, <2>6, MoveKeeps, Zenon
  <2> QED
    BY <1>3, <2>7 DEF AnswerRight
<1>11. CASE AtTheRoot(t)
  <2>1. /\ call[t].goal = "create" /\ n = 1 /\ Here(t) = Way(t)[0]
        /\ \A j \in 1 .. Len(r) : r[j] \in Skipped
    BY <1>11, Zenon DEF AtTheRoot
  <2>2. Part(t) = r[1]
    BY <1>1 DEF Part
  <2>3. Here(t)' = Here(t)
    BY <1>5, <1>7, <2>1, <2>2, FollowSkipped
  <2>4. Here(t)' = Way(t)'[0]
    BY <1>1, <1>9, <2>1, <2>3
  <2>5. \A j \in 1 .. Len(r) - 1 : Tail(r)[j] \in Skipped
    BY <1>5, <2>1
  <2>6. AtTheRoot(t)'
    BY <1>4, <1>5, <2>1, <2>4, <2>5 DEF AtTheRoot
  <2>7. WalkInv(t)'
    BY <1>3, <1>4, <2>6, MoveKeeps, Zenon
  <2> QED
    BY <1>3, <2>7 DEF AnswerRight
<1> QED
  BY <1>6, <1>10, <1>11

\* The file system has no such name: the path led nowhere when the call began.
LEMMA Missed ==
    ASSUME LookInv, NEW t \in Threads, pc[t] = "ask",
           <<Here(t), Part(t)>> \notin DOMAIN tree
    PROVE  /\ ~call[t].found
           /\ call[t].goal # "create" =>
                 \E m \in 1 .. Len(call[t].path) : call[t].path[m] \in Names /\ Way(t)[m] = None
<1> DEFINE n == Len(call[t].path)
           d == Whole(t) - Len(call[t].rest)
<1>1. /\ n \in Nat \ {0} /\ CacheInv /\ WalkInv(t) /\ Here(t) # None
      /\ call[t].found \in BOOLEAN
  BY LookFacts
<1>2. call[t].rest # <<>> /\ Part(t) \in Names
  BY <1>1, Zenon DEF CacheInv, CallsInv
<1>3. CASE call[t].goal = "create"
  BY <1>1, <1>3, Zenon DEF WalkInv
<1>4. CASE call[t].goal # "create"
  <2>1. OnTheWay(t)
    BY <1>1, <1>4, Zenon DEF WalkInv, AtTheRoot
  <2>2. /\ d \in 0 .. Whole(t) - 1 /\ Whole(t) \in 0 .. n
        /\ Part(t) = call[t].path[d + 1]
        /\ Way(t)[d + 1] = Follow(tree, Here(t), Part(t))
    BY <1>2, <2>1, NextPart
  <2>3. Follow(tree, Here(t), Part(t)) = None
    BY <1>1, <1>2, FollowName
  <2>4. d + 1 \in 1 .. n /\ d + 1 \in 0 .. n /\ n \in d + 1 .. n
    BY <1>1, <2>2
  <2> HIDE DEF d
  <2>5. Way(t)[n] = None
    BY <2>2, <2>3, <2>4, WayFacts
  <2>6. ~call[t].found
    BY <1>1, <2>5, Zenon DEF WalkInv
  <2> QED
    BY <1>2, <2>2, <2>3, <2>4, <2>6
<1> QED
  BY <1>3, <1>4

\* What the threads that do not step keep.
LEMMA Others ==
    ASSUME LookInv, NEW t \in Threads, NEW to, NEW c,
           pc' = [pc EXCEPT ![t] = to], call' = [call EXCEPT ![t] = c]
    PROVE  /\ pc'[t] = to /\ call'[t] = c
           /\ \A u \in Threads \ {t} : pc'[u] = pc[u] /\ call'[u] = call[u]
<1>1. call \in [Threads -> Call(Len(entries))] /\ pc \in [Threads -> PCs]
  BY CacheFacts DEF LookInv
<1> QED
  BY <1>1

LEMMA EnterOthers ==
    ASSUME LookInv, NEW t \in Threads, NEW e, Enter(t, e)
    PROVE  \A u \in Threads \ {t} : pc'[u] = pc[u] /\ call'[u] = call[u]
<1>1. call \in [Threads -> Call(Len(entries))] /\ pc \in [Threads -> PCs]
  BY CacheFacts DEF LookInv
<1> QED
  BY <1>1 DEF Enter

\* The walk goes on with an entry of the cache.
LEMMA WalkOn ==
    ASSUME LookInv, Next, NEW t \in Threads, UNCHANGED <<tree, entries>>,
           pc[t] \in {"walk", "insert"}, call[t].rest # <<>>,
           NEW e \in DOMAIN entries, Enter(t, e),
           entries[e].inode = Follow(tree, Here(t), Part(t))
    PROVE  LookInv'
<1>1. CacheInv
  BY DEF LookInv
<1>2. entries[e] \in Entry(Len(entries))
  BY <1>1, CacheFacts
<1>3. entries[e].inode # None
  BY <1>2, TreeAssumption DEF Entry, Inodes
<1>4. Growth
  BY QuietGrowth
<1>5. WalkInv(t)' /\ AnswerRight(t)'
  BY <1>3, <1>4, Advance
<1> QED
  BY <1>5, EnterOthers, QuietStepOf

LEMMA LookSkip ==
    ASSUME LookInv, Next, NEW t \in Threads, Skip(t)
    PROVE  LookInv'
<1>1. /\ pc[t] = "walk" /\ call[t].rest # <<>> /\ Part(t) \in Skipped
      /\ Enter(t, call[t].current) /\ UNCHANGED <<tree, entries, children>>
  BY Zenon DEF Skip, Walking, cache
<1>2. call[t].current \in DOMAIN entries
  BY LookFacts
<1>3. entries[call[t].current].inode = Follow(tree, Here(t), Part(t))
  BY <1>1, FollowSkipped DEF Here
<1> QED
  BY <1>1, <1>2, <1>3, WalkOn

LEMMA LookUp ==
    ASSUME LookInv, Next, NEW t \in Threads, Up(t)
    PROVE  LookInv'
<1> DEFINE c == call[t].current
           up == entries[c].parent
           e == IF up = 0 THEN c ELSE up
<1>1. /\ pc[t] = "walk" /\ call[t].rest # <<>> /\ Part(t) = ".."
      /\ Enter(t, e) /\ UNCHANGED <<tree, entries, children>>
  BY Zenon DEF Up, Walking, cache, NoEntry
<1>2. /\ c \in DOMAIN entries /\ ParentsInv /\ IsTree(tree) /\ Here(t) # None
      /\ Here(t) = entries[c].inode /\ CacheInv
  BY LookFacts DEF Here
<1>3. Follow(tree, Here(t), Part(t)) = ParentOf(tree, Here(t))
  BY <1>1, <1>2, FollowUp
<1>4. CASE c = 1
  <2>1. entries[c].inode = RootInode /\ up = 0
    BY <1>2, <1>4 DEF ParentsInv, Root, NoEntry
  <2>2. ParentOf(tree, RootInode) = RootInode
    BY Zenon DEF ParentOf
  <2>3. e = c /\ entries[e].inode = Follow(tree, Here(t), Part(t))
    BY <1>2, <1>3, <2>1, <2>2
  <2> HIDE DEF e
  <2> QED
    BY <1>1, <1>2, <2>3, WalkOn, Zenon
<1>5. CASE c # 1
  <2>1. Hangs(c)
    BY <1>2, <1>5 DEF ParentsInv, Root
  <2>2. up \in DOMAIN entries
    BY <2>1, Zenon DEF Hangs
  <2>3. PICK m \in Names : <<entries[up].inode, m>> \in DOMAIN tree /\ tree[<<entries[up].inode, m>>] = entries[c].inode
    BY <2>1, Zenon DEF Hangs
  <2>4. ParentOf(tree, entries[c].inode) = <<entries[up].inode, m>>[1]
    BY <1>2, <2>3, ParentUnique, Zenon
  <2>5. up # 0
    BY <1>2, <2>2, CacheFacts
  <2>6. e = up /\ entries[e].inode = Follow(tree, Here(t), Part(t))
    BY <1>2, <1>3, <2>4, <2>5
  <2> HIDE DEF e
  <2> QED
    BY <1>1, <2>2, <2>6, WalkOn
<1> QED
  BY <1>4, <1>5

\* What the cache has is what the file system leads to.
LEMMA CachedRight ==
    ASSUME LookInv, NEW t \in Threads, NEW m \in Names, children[call[t].current][m] # 0
    PROVE  /\ children[call[t].current][m] \in DOMAIN entries
           /\ entries[children[call[t].current][m]].inode = Follow(tree, Here(t), m)
<1> DEFINE c == call[t].current
<1>1. c \in DOMAIN entries /\ Here(t) # None /\ Here(t) = entries[c].inode /\ CacheInv
  BY LookFacts DEF Here
<1>2. children[c] \in Children(Len(entries)) /\ DOMAIN entries = 1 .. Len(entries)
  BY <1>1, CacheFacts
<1>3. children[c][m] \in DOMAIN entries
  BY <1>2 DEF Children
<1>4. <<entries[c].inode, m>> \in DOMAIN tree /\ tree[<<entries[c].inode, m>>] = entries[children[c][m]].inode
  BY <1>1 DEF CacheInv, Coherent, NoEntry
<1> QED
  BY <1>1, <1>3, <1>4, FollowName

LEMMA LookHit ==
    ASSUME LookInv, Next, NEW t \in Threads, Hit(t)
    PROVE  LookInv'
<1> DEFINE e == children[call[t].current][Part(t)]
<1>1. /\ pc[t] = "walk" /\ call[t].rest # <<>> /\ Part(t) \in Names /\ e # 0
      /\ Enter(t, e) /\ UNCHANGED <<tree, entries, children>>
  BY Zenon DEF Hit, Named, Walking, cache, NoEntry
<1>2. e \in DOMAIN entries /\ entries[e].inode = Follow(tree, Here(t), Part(t))
  BY <1>1, CachedRight
<1> HIDE DEF e
<1> QED
  BY <1>1, <1>2, WalkOn

\* A walk that waits for the file system, or has its answer.
LEMMA WaitRight ==
    ASSUME LookInv, Next, NEW t \in Threads, UNCHANGED <<tree, entries>>,
           pc[t] \in {"walk", "ask"}, NEW to \in {"ask", "insert"},
           pc' = [pc EXCEPT ![t] = to],
           NEW i, call' = [call EXCEPT ![t] = [call[t] EXCEPT !.inode = i]]
    PROVE  LookInv'
<1>1. Growth
  BY QuietGrowth
<1>2. /\ pc'[t] = to /\ call'[t] = [call[t] EXCEPT !.inode = i]
      /\ \A u \in Threads \ {t} : pc'[u] = pc[u] /\ call'[u] = call[u]
  BY Others, Zenon
<1>3. call[t] \in Call(Len(entries)) /\ WalkInv(t)
  BY LookFacts, CacheFacts
<1>4. /\ call'[t].path = call[t].path /\ call'[t].start = call[t].start /\ call'[t].goal = call[t].goal
      /\ call'[t].found = call[t].found /\ call'[t].current = call[t].current /\ call'[t].rest = call[t].rest
  BY <1>2, <1>3 DEF Call
<1>5. OnTheWay(t) \/ AtTheRoot(t)
  BY <1>3 DEF WalkInv
<1>6. OnTheWay(t)' \/ AtTheRoot(t)'
  BY <1>1, <1>4, <1>5, SamePlace
<1>7. WalkInv(t)'
  BY <1>1, <1>2, <1>4, <1>6, MoveKeeps
<1>8. AnswerRight(t)'
  BY <1>2 DEF AnswerRight
<1> QED
  BY <1>2, <1>7, <1>8, QuietStepOf

LEMMA LookMiss ==
    ASSUME LookInv, Next, NEW t \in Threads, Miss(t)
    PROVE  LookInv'
<1>1. /\ pc[t] = "walk" /\ pc' = [pc EXCEPT ![t] = "ask"]
      /\ UNCHANGED <<tree, entries, children, call>>
  BY Zenon DEF Miss, Goto, cache
<1>2. call \in [Threads -> Call(Len(entries))]
  BY CacheFacts DEF LookInv
<1>3. [call[t] EXCEPT !.inode = call[t].inode] = call[t]
  BY <1>2 DEF Call
<1>4. call' = [call EXCEPT ![t] = [call[t] EXCEPT !.inode = call[t].inode]]
  BY <1>1, <1>2, <1>3
<1> QED
  BY <1>1, <1>4, WaitRight, Zenon

LEMMA LookAsk ==
    ASSUME LookInv, Next, NEW t \in Threads, Ask(t)
    PROVE  LookInv'
<1> DEFINE i == tree[<<entries[call[t].current].inode, Part(t)>>]
<1>1. /\ pc[t] = "ask" /\ pc' = [pc EXCEPT ![t] = "insert"]
      /\ call' = [call EXCEPT ![t].inode = i]
      /\ UNCHANGED <<tree, entries, children>>
  BY Zenon DEF Ask, Goto, cache
<1> HIDE DEF i
<1>2. call' = [call EXCEPT ![t] = [call[t] EXCEPT !.inode = i]]
  BY <1>1
<1> QED
  BY <1>1, <1>2, WaitRight, Zenon

\* What a new entry adds.
LEMMA NewEntry ==
    ASSUME LookInv, NEW t \in Threads, NEW m \in Names, Told(t, m), tree' = tree,
           AddEntry(call[t].current, m, call[t].inode)
    PROVE  /\ Growth /\ Len(entries) + 1 \in DOMAIN entries'
           /\ entries'[Len(entries) + 1].inode = Follow(tree, Here(t), m)
           /\ call[t].inode # None
           /\ \A e \in DOMAIN entries' : e \in DOMAIN entries \/ Hangs(e)'
<1> DEFINE c == call[t].current
           i == call[t].inode
           at == <<entries[c].inode, m>>
<1>1. /\ c \in DOMAIN entries /\ Here(t) # None /\ Here(t) = entries[c].inode /\ CacheInv
      /\ IsTree(tree)
  BY LookFacts DEF Here
<1>2. at \in DOMAIN tree /\ i = tree[at]
  BY Zenon DEF Told
<1>3. i \in Inodes
  BY <1>1, <1>2, Zenon DEF CacheInv, CallsInv
<1>4. AddEntry(c, m, i)
  OBVIOUS
<1>5. DOMAIN entries = 1 .. Len(entries) /\ Len(entries) \in Nat
  BY <1>1, CacheFacts
<1>l. PICK l \in Nat : l = Len(entries) + 1
  BY <1>5
<1>6. i # None
  BY <1>3, TreeAssumption DEF Inodes
<1>7. i = Follow(tree, Here(t), m)
  BY <1>1, <1>2, FollowName
<1> HIDE DEF c, i
<1>8. /\ Len(entries') = Len(entries) + 1
      /\ entries' \in Seq(Entry(Len(entries) + 1))
      /\ \A x \in DOMAIN entries : entries'[x] = entries[x]
      /\ entries'[Len(entries) + 1] = [inode |-> i, parent |-> c]
      /\ children' \in Seq(Children(Len(entries) + 1)) /\ Len(children') = Len(entries) + 1
      /\ \A x \in DOMAIN entries, y \in Names :
            children'[x][y] = IF x = c /\ y = m THEN Len(entries) + 1 ELSE children[x][y]
      /\ \A y \in Names : children'[Len(entries) + 1][y] = 0
  BY ONLY <1>1, <1>3, <1>4, AddEntryFacts, Zenon
<1>9. DOMAIN entries' = 1 .. l
  BY <1>5, <1>l, <1>8
<1>10. \A e \in DOMAIN entries : e \in DOMAIN entries' /\ entries'[e] = entries[e]
  BY <1>5, <1>l, <1>8, <1>9
<1>11. Growth
  BY <1>1, <1>10 DEF Growth, Grows
<1>12. l \in DOMAIN entries' /\ entries'[l].inode = i /\ entries'[l].parent = c
  BY <1>l, <1>8, <1>9
<1>13. c \in DOMAIN entries' /\ entries'[c].inode = entries[c].inode
  BY <1>1, <1>10
<1>14. Hangs(l)'
  <2>1. <<entries'[c].inode, m>> \in DOMAIN tree' /\ tree'[<<entries'[c].inode, m>>] = entries'[l].inode
    BY <1>2, <1>12, <1>13
  <2> HIDE DEF at
  <2> QED
    BY <1>12, <1>13, <2>1 DEF Hangs
<1>15. \A e \in DOMAIN entries' : e \in DOMAIN entries \/ e = l
  BY <1>5, <1>l, <1>9
<1>16. \A e \in DOMAIN entries' : e \in DOMAIN entries \/ Hangs(e)'
  BY <1>14, <1>15
<1> QED
  BY <1>6, <1>7, <1>l, <1>11, <1>12, <1>16 DEF i

LEMMA LookInsert ==
    ASSUME LookInv, Next, NEW t \in Threads, Insert(t)
    PROVE  LookInv'
<1> DEFINE e == children[call[t].current][Part(t)]
           l == Len(entries) + 1
<1>1. /\ pc[t] = "insert" /\ tree' = tree
      /\ \/ e # 0 /\ Enter(t, e) /\ UNCHANGED <<entries, children>>
         \/ AddEntry(call[t].current, Part(t), call[t].inode) /\ Enter(t, l)
  BY Zenon DEF Insert, NoEntry
<1>2. call[t].rest # <<>> /\ Part(t) \in Names /\ Told(t, Part(t))
  BY <1>1, Zenon DEF LookInv, CacheInv, CallsInv
<1>3. CASE e # 0 /\ Enter(t, e) /\ UNCHANGED <<entries, children>>
  <2>1. e \in DOMAIN entries /\ entries[e].inode = Follow(tree, Here(t), Part(t))
    BY <1>2, <1>3, CachedRight
  <2> HIDE DEF e
  <2> QED
    BY <1>1, <1>2, <1>3, <2>1, WalkOn
<1>4. CASE AddEntry(call[t].current, Part(t), call[t].inode) /\ Enter(t, l)
  <2>1. /\ Growth /\ l \in DOMAIN entries'
        /\ entries'[l].inode = Follow(tree, Here(t), Part(t))
        /\ call[t].inode # None
        /\ \A x \in DOMAIN entries' : x \in DOMAIN entries \/ Hangs(x)'
    BY <1>1, <1>2, <1>4, NewEntry
  <2>2. entries'[l].inode # None
    <3>1. /\ Here(t) # None /\ Told(t, Part(t)) /\ Here(t) = entries[call[t].current].inode
      BY <1>2, LookFacts DEF Here
    <3>2. Follow(tree, Here(t), Part(t)) = call[t].inode
      BY <1>2, <3>1, FollowName DEF Told
    <3> QED
      BY <2>1, <3>2
  <2> HIDE DEF l
  <2>3. WalkInv(t)' /\ AnswerRight(t)'
    BY <1>1, <1>2, <1>4, <2>1, <2>2, Advance
  <2>4. \A u \in Threads \ {t} : pc'[u] = pc[u] /\ call'[u] = call[u]
    BY <1>4, EnterOthers
  <2> QED
    BY <2>1, <2>3, <2>4, StepOf
<1> QED
  BY <1>1, <1>3, <1>4

\* The call is over, with an answer that is right.
LEMMA ReturnRight ==
    ASSUME LookInv, Next, NEW t \in Threads, pc[t] # "idle",
           NEW a \in Answers, Return(t, a),
           a = "Ok" => Here(t) = Way(t)[Len(call[t].path)],
           a = "NotFound" => ~call[t].found,
           a = "ExistsAlready" => ~call[t].found /\ Way(t)[Len(call[t].path)] # None,
           a = "IsADirectory" => Way(t)[Len(call[t].path)] \in Directories
    PROVE  LookInv'
<1> DEFINE n == Len(call[t].path)
<1>1. pc' = [pc EXCEPT ![t] = a] /\ UNCHANGED <<tree, entries, children, call>>
  BY Zenon DEF Return, cache
<1>2. Growth
  BY <1>1, QuietGrowth
<1>3. pc \in [Threads -> PCs] /\ n \in Nat /\ n \in 0 .. n /\ Here(t) # None
  <2>1. n \in Nat /\ Here(t) # None
    BY LookFacts
  <2>2. pc \in [Threads -> PCs]
    BY CacheFacts DEF LookInv
  <2> QED
    BY ONLY <2>1, <2>2
<1>4. pc'[t] = a /\ \A u \in Threads \ {t} : pc'[u] = pc[u] /\ call'[u] = call[u]
  BY <1>1, <1>3
<1>5. a \notin {"idle", "walk", "ask", "insert", "create", "link", "check"}
  BY DEF Answers, Errors
<1>6. WalkInv(t)'
  BY <1>1, <1>2, <1>4, <1>5, MoveKeeps
<1>7. Way(t)[n] # None => Way(t)'[n] = Way(t)[n]
  BY <1>1, <1>2, <1>3, WayGrows
<1>8. Target(call[t].path, call[t].start)' = Way(t)'[n]
  BY <1>1, Zenon DEF Target, Way
<1>9. Here(t)' = Here(t)
  BY <1>1 DEF Here
<1>10. None \notin Directories
  BY TreeAssumption
<1>11. AnswerRight(t)'
  BY <1>1, <1>3, <1>4, <1>7, <1>8, <1>9, <1>10 DEF AnswerRight, Here
<1> QED
  BY <1>1, <1>4, <1>6, <1>11, QuietStepOf

LEMMA LookWalkFails ==
    ASSUME LookInv, Next, NEW t \in Threads, WalkFails(t)
    PROVE  LookInv'
<1>1. PICK a \in {"NotADirectory", "NotFound", "Io"} : WalkError(t, a) /\ Return(t, a)
  BY Zenon DEF WalkFails
<1>2. a \in Answers /\ a \notin {"Ok", "ExistsAlready", "IsADirectory"}
  BY DEF Answers, Errors
<1>3. pc[t] \in {"walk", "ask"}
  BY <1>1 DEF WalkError, Named, Walking
<1>4. ASSUME a = "NotFound"
      PROVE  ~call[t].found
  <2>1. pc[t] = "ask" /\ <<Here(t), Part(t)>> \notin DOMAIN tree
    BY <1>1, <1>4 DEF WalkError, Here
  <2> QED
    BY <2>1, Missed
<1> QED
  BY <1>1, <1>2, <1>3, <1>4, ReturnRight

LEMMA LookWalkDone ==
    ASSUME LookInv, Next, NEW t \in Threads, WalkDone(t)
    PROVE  LookInv'
<1> DEFINE n == Len(call[t].path)
           g == call[t].goal
<1>1. PICK a : /\ a = [lookup |-> "Ok", open |-> "check", create |-> "create"][g]
               /\ pc' = [pc EXCEPT ![t] = a] /\ UNCHANGED <<tree, entries, children, call>>
               /\ pc[t] = "walk" /\ call[t].rest = <<>>
  BY Zenon DEF WalkDone, Goto, cache
<1>2. /\ g \in {"lookup", "open", "create"} /\ n \in Nat \ {0} /\ WalkInv(t)
  BY LookFacts
<1>3. /\ g = "lookup" => a = "Ok"
      /\ g = "open" => a = "check"
      /\ g = "create" => a = "create"
  BY <1>1
<1>4. OnTheWay(t) \/ AtTheRoot(t)
  BY <1>1, <1>2 DEF WalkInv
<1>5. Here(t) = Way(t)[Whole(t)] /\ Whole(t) = IF g = "create" THEN n - 1 ELSE n
  <2>1. Whole(t) = IF g = "create" THEN n - 1 ELSE n
    BY Zenon DEF Whole
  <2>2. Len(call[t].rest) = 0
    BY <1>1
  <2>3. CASE OnTheWay(t)
    <3>1. Here(t) = Way(t)[Whole(t) - Len(call[t].rest)]
      BY <2>3, Zenon DEF OnTheWay
    <3>2. Whole(t) - Len(call[t].rest) = Whole(t)
      BY <1>2, <2>1, <2>2
    <3> QED
      BY <2>1, <3>1, <3>2, Zenon
  <2>4. CASE AtTheRoot(t)
    <3>1. g = "create" /\ n = 1 /\ Here(t) = Way(t)[0]
      BY <2>4, Zenon DEF AtTheRoot
    <3>2. Whole(t) = 0
      BY <2>1, <3>1
    <3> QED
      BY <2>1, <3>1, <3>2
  <2> QED
    BY <1>4, <2>3, <2>4
<1>6. CASE g = "lookup"
  <2>1. Return(t, "Ok") /\ "Ok" \in Answers
    BY <1>1, <1>3, <1>6 DEF Return, cache, Answers
  <2>2. Here(t) = Way(t)[n]
    BY <1>5, <1>6
  <2> QED
    BY <1>1, <2>1, <2>2, ReturnRight
<1>7. CASE g # "lookup"
  <2>1. Growth
    BY <1>1, QuietGrowth
  <2>2. pc \in [Threads -> PCs]
    BY CacheFacts DEF LookInv
  <2>3. pc'[t] = a /\ \A u \in Threads \ {t} : pc'[u] = pc[u] /\ call'[u] = call[u]
    BY <1>1, <2>2
  <2>4. /\ Here(t)' = Here(t)
        /\ \A k \in 0 .. n : Here(t) = Way(t)[k] => Here(t) = Way(t)'[k]
    BY <1>1, <2>1, SamePlace
  <2>5. n - 1 \in 0 .. n /\ n \in 0 .. n
    BY <1>2
  <2>6. /\ a = "create" => g = "create" /\ Here(t)' = Way(t)'[n - 1]
        /\ a = "check" => Here(t)' = Way(t)'[n]
        /\ a \in {"create", "check"}
    BY <1>2, <1>3, <1>5, <1>7, <2>4, <2>5
  <2>7. WalkInv(t)'
    BY <1>1, <2>1, <2>3, <2>6, MoveKeeps
  <2>8. AnswerRight(t)'
    BY <2>3, <2>6 DEF AnswerRight
  <2> QED
    BY <1>1, <2>3, <2>7, <2>8, QuietStepOf
<1> QED
  BY <1>6, <1>7

LEMMA LookCheck ==
    ASSUME LookInv, Next, NEW t \in Threads, Check(t)
    PROVE  LookInv'
<1>1. PICK a \in {"IsADirectory", "Ok"} :
         /\ pc[t] = "check" /\ Return(t, a)
         /\ a = "IsADirectory" => entries[call[t].current].inode \in Directories
  BY Zenon DEF Check, IsDirectory
<1>2. WalkInv(t)
  BY LookFacts
<1>3. Here(t) = Way(t)[Len(call[t].path)]
  BY <1>1, <1>2 DEF WalkInv
<1>4. a \in Answers /\ a \notin {"NotFound", "ExistsAlready"}
  BY DEF Answers, Errors
<1>5. a = "IsADirectory" => Way(t)[Len(call[t].path)] \in Directories
  BY <1>1, <1>3 DEF Here
<1> QED
  BY <1>1, <1>3, <1>4, <1>5, ReturnRight

LEMMA LookAnswered ==
    ASSUME LookInv, Next, NEW t \in Threads, Answered(t)
    PROVE  LookInv'
<1>1. /\ pc' = [pc EXCEPT ![t] = "idle"] /\ call' = [call EXCEPT ![t] = NoCall]
      /\ UNCHANGED <<tree, entries, children>>
  BY Zenon DEF Answered, cache
<1>2. /\ pc'[t] = "idle" /\ call'[t] = NoCall
      /\ \A u \in Threads \ {t} : pc'[u] = pc[u] /\ call'[u] = call[u]
  BY <1>1, Others, Zenon
<1>3. NoCall.goal = "lookup" /\ ~NoCall.found
  BY Zenon DEF NoCall
<1>4. WalkInv(t)' /\ AnswerRight(t)'
  BY <1>2, <1>3, IdleKeeps
<1> QED
  BY <1>1, <1>2, <1>4, QuietStepOf

LEMMA LookCreateFails ==
    ASSUME LookInv, Next, NEW t \in Threads, CreateFails(t)
    PROVE  LookInv'
<1> DEFINE n == Len(call[t].path)
<1>1. PICK a \in {"NotADirectory", "ExistsAlready", "OutOfSpace"} :
         /\ pc[t] = "create" /\ Return(t, a)
         /\ a = "ExistsAlready" => <<entries[call[t].current].inode, NewName(t)>> \in DOMAIN tree
  BY Zenon DEF CreateFails
<1>2. /\ WalkInv(t) /\ n \in Nat \ {0} /\ Here(t) # None /\ IsTree(tree)
      /\ call[t].path \in Seq(Parts)
  BY LookFacts
<1>3. call[t].goal = "create" /\ ~call[t].found /\ Here(t) = Way(t)[n - 1]
  BY <1>1, <1>2 DEF WalkInv
<1>4. a \in Answers /\ a \notin {"Ok", "NotFound", "IsADirectory"}
  BY DEF Answers, Errors
<1>5. ASSUME a = "ExistsAlready"
      PROVE  Way(t)[n] # None
  <2> DEFINE at == <<Here(t), NewName(t)>>
  <2>1. at \in DOMAIN tree
    BY <1>1, <1>5 DEF Here
  <2>2. NewName(t) \in Names /\ tree[at] \in Inodes
    BY <1>2, <2>1 DEF IsTree
  <2>3. n \in 1 .. n /\ NewName(t) = call[t].path[n]
    BY <1>2 DEF NewName
  <2>4. Way(t)[n] = Follow(tree, Here(t), NewName(t))
    BY <1>3, <2>3, WayFacts, Zenon
  <2>5. Way(t)[n] = tree[at]
    BY <1>2, <2>1, <2>2, <2>4, FollowName
  <2> QED
    BY <2>2, <2>5, TreeAssumption DEF Inodes
<1> QED
  BY <1>1, <1>3, <1>4, <1>5, ReturnRight

\* create_file begins a walk from the root, whatever the path begins with.
LEMMA DirPathParts ==
    ASSUME NEW p \in Seq(Parts), p # <<>>
    PROVE  /\ Len(p) = 1 => \A j \in 1 .. Len(DirPath(p)) : DirPath(p)[j] \in Skipped
           /\ Len(p) # 1 => /\ Len(DirPath(p)) = Len(p) - 1
                            /\ \A j \in 1 .. Len(p) - 1 : DirPath(p)[j] = p[j]
<1>1. ASSUME Len(p) = 1
      PROVE  \A j \in 1 .. Len(DirPath(p)) : DirPath(p)[j] \in Skipped
  <2>1. PICK x \in Skipped : Slash = <<x, x>>
    BY Zenon DEF Slash, Skipped
  <2>2. DirPath(p) = <<x, x>>
    BY <1>1, <2>1, Zenon DEF DirPath
  <2> QED
    BY <2>2
<1>2. ASSUME Len(p) # 1
      PROVE  /\ Len(DirPath(p)) = Len(p) - 1
             /\ \A j \in 1 .. Len(p) - 1 : DirPath(p)[j] = p[j]
  <2>1. DirPath(p) = SubSeq(p, 1, Len(p) - 1)
    BY <1>2, Zenon DEF DirPath
  <2>2. 1 \in 1 .. Len(p) + 1 /\ Len(p) - 1 \in 0 .. Len(p) /\ (Len(p) - 1 - 1) + 1 = Len(p) - 1
    BY <1>2
  <2>3. /\ Len(SubSeq(p, 1, Len(p) - 1)) = Len(p) - 1
        /\ \A j \in 1 .. Len(p) - 1 : SubSeq(p, 1, Len(p) - 1)[j] = p[j]
    BY <1>2, <2>2
  <2> QED
    BY <2>1, <2>3
<1> QED
  BY <1>1, <1>2

LEMMA LookCreateFile ==
    ASSUME LookInv, Next, NEW t \in Threads, CreateFile(t)
    PROVE  LookInv'
<1> DEFINE p == call[t].path
           n == Len(p)
           q == DirPath(p)
           c == [call[t] EXCEPT !.rest = q, !.current = 1, !.goal = "create"]
<1>1. /\ pc[t] = "ask" /\ <<Here(t), Part(t)>> \notin DOMAIN tree /\ call[t].goal = "open"
      /\ pc' = [pc EXCEPT ![t] = "walk"]
      /\ UNCHANGED <<tree, entries, children>>
      /\ call' = [call EXCEPT ![t].rest = q, ![t].current = 1, ![t].goal = "create"]
  BY Zenon DEF CreateFile, WalkError, Here, Root, cache
<1>2. /\ WalkInv(t) /\ p \in Seq(Parts) /\ n \in Nat \ {0} /\ p # <<>>
      /\ ParentsInv /\ CacheInv
  BY LookFacts
<1>3. call \in [Threads -> Call(Len(entries))] /\ call[t] \in Call(Len(entries)) /\ 1 \in DOMAIN entries
      /\ pc \in [Threads -> PCs]
  BY <1>2, CacheFacts
<1>4. call' = [call EXCEPT ![t] = c]
  BY <1>1, <1>3, Zenon
<1>5. /\ pc'[t] = "walk" /\ call'[t] = c
      /\ \A u \in Threads \ {t} : pc'[u] = pc[u] /\ call'[u] = call[u]
  <2> HIDE DEF c
  <2> QED
    BY <1>1, <1>4, Others, Zenon
<1>6. /\ call'[t].path = p /\ call'[t].start = call[t].start /\ call'[t].goal = "create"
      /\ call'[t].found = call[t].found /\ call'[t].current = 1 /\ call'[t].rest = q
  <2> HIDE DEF q
  <2> QED
    BY <1>3, <1>5 DEF Call
<1>7. p \in Paths /\ call[t].start = 1 /\ (call[t].found => Way(t)[n] # None)
  BY <1>1, <1>2 DEF WalkInv, Root
<1>8. ~call[t].found
  BY <1>1, Missed
<1>9. PICK m \in 1 .. n : p[m] \in Names /\ Way(t)[m] = None
  BY <1>1, Missed
<1>10. Way(t)' = Way(t)
  <2>1. From(call[t].path, call[t].start)' = From(call[t].path, call[t].start)
    <3> DEFINE a == call'[t].path
               b == call'[t].start
    <3>1. From(call[t].path, call[t].start)' = IF Absolute(a) THEN RootInode ELSE entries'[b].inode
      BY Zenon DEF From
    <3>2. From(call[t].path, call[t].start)
             = IF Absolute(call[t].path) THEN RootInode ELSE entries[call[t].start].inode
      BY Zenon DEF From
    <3>3. a = call[t].path /\ b = call[t].start
      BY <1>6
    <3> HIDE DEF a, b
    <3> QED
      BY <1>1, <3>1, <3>2, <3>3
  <2> QED
    BY <1>1, <1>6, <2>1, Zenon DEF Way
<1>11. p[n] \in Names \/ Way(t)[n - 1] \notin Directories
  <2>1. CASE m = n
    BY <1>9, <2>1
  <2>2. CASE m # n
    <3>1. m \in 0 .. n /\ n - 1 \in m .. n
      BY <1>2, <2>2
    <3>2. Way(t)[n - 1] = None
      BY <1>9, <3>1, WayFacts
    <3> QED
      BY <3>2, TreeAssumption
  <2> QED
    BY <2>1, <2>2
<1>12. Here(t)' = RootInode /\ Way(t)[0] = RootInode
  <2>1. entries[1].inode = RootInode
    BY <1>2 DEF ParentsInv, Root
  <2>2. From(p, 1) = RootInode
    BY <2>1, Zenon DEF From
  <2>3. Way(t)[0] = RootInode
    BY <1>7, <2>2, WayFacts
  <2> QED
    BY <1>1, <1>6, <2>1, <2>3 DEF Here
<1>13. OnTheWay(t)' \/ AtTheRoot(t)'
  <2>1. CASE n = 1
    <3>1. \A j \in 1 .. Len(q) : q[j] \in Skipped
      BY <1>2, <2>1, DirPathParts
    <3> HIDE DEF q
    <3> QED
      BY <1>6, <1>10, <1>12, <2>1, <3>1 DEF AtTheRoot
  <2>2. CASE n # 1
    <3>1. Len(q) = n - 1 /\ \A j \in 1 .. n - 1 : q[j] = p[j]
      BY <1>2, <2>2, DirPathParts
    <3>2. Whole(t)' = n - 1
      BY <1>6 DEF Whole
    <3>3. Whole(t)' - Len(call'[t].rest) = 0
      BY <1>2, <1>6, <3>1, <3>2
    <3> HIDE DEF q
    <3>4. \A j \in 1 .. Len(call'[t].rest) : call'[t].rest[j] = call'[t].path[0 + j]
      BY <1>2, <1>6, <3>1
    <3>5. Here(t)' = Way(t)'[0]
      BY <1>10, <1>12
    <3>6. 0 >= 0
      OBVIOUS
    <3>7. OnTheWay(t)'
      <4> DEFINE w == Whole(t)' - Len(call'[t].rest)
      <4>1. /\ w >= 0 /\ Here(t)' = Way(t)'[w]
            /\ \A j \in 1 .. Len(call'[t].rest) : call'[t].rest[j] = call'[t].path[w + j]
        BY <3>3, <3>4, <3>5
      <4> QED
        BY <4>1, Zenon DEF OnTheWay
    <3> QED
      BY <3>7
  <2> QED
    BY <2>1, <2>2
<1>14. NewName(t)' = p[n]
  BY <1>6 DEF NewName
<1>15. WalkInv(t)'
  <2> HIDE DEF p, q, c
  <2> QED
    BY <1>5, <1>6, <1>7, <1>8, <1>10, <1>11, <1>13, <1>14 DEF WalkInv, Root
<1>16. AnswerRight(t)'
  BY <1>5 DEF AnswerRight
<1> QED
  BY <1>1, <1>5, <1>15, <1>16, QuietStepOf, Zenon

\* The file system has one more file.
LEMMA CreateGrows ==
    ASSUME NEW tr, IsTree(tr), NEW d \in Directories, Rooted(tr, d), NEW m \in Names,
           <<d, m>> \notin DOMAIN tr, NEW i \in Files, \A a \in DOMAIN tr : tr[a] # i,
           NEW tr2, DOMAIN tr2 = DOMAIN tr \cup {<<d, m>>}, tr2[<<d, m>>] = i,
           \A a \in DOMAIN tr : tr2[a] = tr[a]
    PROVE  /\ IsTree(tr2) /\ Grows(tr, tr2)
           /\ \A a \in DOMAIN tr2 : a \in DOMAIN tr \/ tr2[a] \notin Directories
<1>1. i \notin Directories /\ i # RootInode /\ i \in Inodes
  BY TreeAssumption DEF Inodes
<1> DEFINE at == <<d, m>>
<1>2. /\ DOMAIN tr2 = DOMAIN tr \cup {at} /\ tr2[at] = i
      /\ \A a \in DOMAIN tr : a # at /\ tr2[a] = tr[a]
  OBVIOUS
<1>3. at \in Directories \X Names /\ at[1] = d
  OBVIOUS
<1> HIDE DEF at
<1>4. Grows(tr, tr2)
  BY <1>2 DEF Grows
<1>5. \A a \in DOMAIN tr2 : a \in DOMAIN tr \/ tr2[a] \notin Directories
  BY <1>1, <1>2
<1>6. \A x : Rooted(tr, x) => Rooted(tr2, x)
  BY <1>2 DEF Rooted
<1>7. DOMAIN tr2 \subseteq Directories \X Names
  BY <1>2, <1>3 DEF IsTree
<1>8. \A a \in DOMAIN tr2 : tr2[a] \in Inodes \ {RootInode} /\ Rooted(tr2, a[1])
  <2>1. \A a \in DOMAIN tr : tr[a] \in Inodes \ {RootInode} /\ Rooted(tr, a[1])
    BY DEF IsTree
  <2> QED
    BY <1>1, <1>2, <1>3, <1>6, <2>1
<1>9. \A a, b \in DOMAIN tr2 : tr2[a] = tr2[b] => a = b
  <2>1. \A a, b \in DOMAIN tr : tr[a] = tr[b] => a = b
    BY DEF IsTree
  <2> QED
    BY <1>2, <2>1
<1>10. IsTree(tr2)
  BY <1>7, <1>8, <1>9, Zenon DEF IsTree
<1> QED
  BY <1>4, <1>5, <1>10

LEMMA LookCreate ==
    ASSUME LookInv, Next, NEW t \in Threads, NEW i \in Files, Create(t, i)
    PROVE  LookInv'
<1> DEFINE n == Len(call[t].path)
           d == entries[call[t].current].inode
           x == NewName(t)
<1>1. /\ pc[t] = "create" /\ pc' = [pc EXCEPT ![t] = "link"]
      /\ d \in Directories /\ <<d, x>> \notin DOMAIN tree /\ \A a \in DOMAIN tree : tree[a] # i
      /\ tree' = [a \in DOMAIN tree \cup {<<d, x>>} |-> IF a = <<d, x>> THEN i ELSE tree[a]]
      /\ call' = [call EXCEPT ![t].inode = i] /\ UNCHANGED <<entries, children>>
  BY Zenon DEF Create, Goto, IsDirectory
<1>2. /\ WalkInv(t) /\ n \in Nat \ {0} /\ IsTree(tree) /\ Rooted(tree, d)
      /\ Here(t) # None /\ Here(t) = d
  BY LookFacts DEF Here
<1>3. call[t].goal = "create" /\ Here(t) = Way(t)[n - 1]
  BY <1>1, <1>2 DEF WalkInv
<1>4. x \in Names \/ Way(t)[n - 1] \notin Directories
  BY <1>2, <1>3 DEF WalkInv
<1>5. x \in Names
  BY <1>1, <1>2, <1>3, <1>4
<1>6. /\ IsTree(tree') /\ Grows(tree, tree')
      /\ \A a \in DOMAIN tree' : a \in DOMAIN tree \/ tree'[a] \notin Directories
  <2> HIDE DEF d, x
  <2>1. /\ IsTree(tree) /\ d \in Directories /\ Rooted(tree, d) /\ x \in Names
        /\ <<d, x>> \notin DOMAIN tree /\ i \in Files /\ \A a \in DOMAIN tree : tree[a] # i
        /\ tree' = [a \in DOMAIN tree \cup {<<d, x>>} |-> IF a = <<d, x>> THEN i ELSE tree[a]]
    BY <1>1, <1>2, <1>5
  <2> DEFINE at == <<d, x>>
  <2>2. at \notin DOMAIN tree /\ tree' = [a \in DOMAIN tree \cup {at} |-> IF a = at THEN i ELSE tree[a]]
    BY <2>1
  <2> HIDE DEF at
  <2>3. DOMAIN tree' = DOMAIN tree \cup {at} /\ tree'[at] = i /\ \A a \in DOMAIN tree : tree'[a] = tree[a]
    BY <2>2
  <2>4. DOMAIN tree' = DOMAIN tree \cup {<<d, x>>} /\ tree'[<<d, x>>] = i
    BY <2>3, Zenon DEF at
  <2> QED
    BY <2>1, <2>3, <2>4, CreateGrows
<1>7. Growth
  BY <1>1, <1>6 DEF Growth
<1>8. call' = [call EXCEPT ![t] = [call[t] EXCEPT !.inode = i]]
  BY <1>1
<1>9. /\ pc'[t] = "link" /\ call'[t] = [call[t] EXCEPT !.inode = i]
      /\ \A u \in Threads \ {t} : pc'[u] = pc[u] /\ call'[u] = call[u]
  BY <1>1, <1>8, Others, Zenon
<1>10. call[t] \in Call(Len(entries))
  BY CacheFacts DEF LookInv
<1>11. /\ call'[t].path = call[t].path /\ call'[t].start = call[t].start /\ call'[t].goal = call[t].goal
       /\ call'[t].found = call[t].found /\ call'[t].current = call[t].current
  BY <1>9, <1>10 DEF Call
<1>12. Here(t)' = Way(t)'[n - 1]
  <2>1. n \in Nat \ {0}
    BY <1>2
  <2>2. n - 1 \in 0 .. n
    BY ONLY <2>1
  <2> QED
    BY <1>3, <1>7, <1>11, <2>2, SamePlace
<1>13. WalkInv(t)'
  BY <1>1, <1>3, <1>5, <1>7, <1>9, <1>11, <1>12, MoveKeeps
<1>14. AnswerRight(t)'
  BY <1>9 DEF AnswerRight
<1> QED
  BY <1>1, <1>7, <1>9, <1>13, <1>14, StepOf

LEMMA LookLink ==
    ASSUME LookInv, Next, NEW t \in Threads, Link(t)
    PROVE  LookInv'
<1> DEFINE n == Len(call[t].path)
           x == NewName(t)
<1>0. Len(entries) \in Nat
  BY CacheFacts DEF LookInv
<1>l. PICK l \in Nat : l = Len(entries) + 1
  BY <1>0
<1>1. /\ pc[t] = "link" /\ pc' = [pc EXCEPT ![t] = "check"] /\ tree' = tree
      /\ AddEntry(call[t].current, x, call[t].inode) /\ call' = [call EXCEPT ![t].current = l]
  BY <1>l, Zenon DEF Link, Goto
<1>2. /\ WalkInv(t) /\ n \in Nat \ {0} /\ CacheInv /\ Here(t) # None
      /\ call[t].path \in Seq(Parts)
  BY LookFacts
<1>3. /\ call[t].goal = "create" /\ Here(t) = Way(t)[n - 1] /\ x \in Names
  BY <1>1, <1>2 DEF WalkInv
<1>4. Told(t, x)
  BY <1>1, <1>2, Zenon DEF CacheInv, CallsInv
<1>5. /\ Growth /\ l \in DOMAIN entries' /\ entries'[l].inode = Follow(tree, Here(t), x)
      /\ \A e \in DOMAIN entries' : e \in DOMAIN entries \/ Hangs(e)'
  <2> HIDE DEF x
  <2> QED
    BY <1>l, <1>1, <1>3, <1>4, NewEntry
<1>6. call' = [call EXCEPT ![t] = [call[t] EXCEPT !.current = l]]
  BY <1>1
<1>7. /\ pc'[t] = "check" /\ call'[t] = [call[t] EXCEPT !.current = l]
      /\ \A u \in Threads \ {t} : pc'[u] = pc[u] /\ call'[u] = call[u]
  BY <1>1, <1>6, Others, Zenon
<1>8. call[t] \in Call(Len(entries))
  BY <1>2, CacheFacts
<1>9. /\ call'[t].path = call[t].path /\ call'[t].start = call[t].start /\ call'[t].goal = call[t].goal
      /\ call'[t].found = call[t].found /\ call'[t].current = l
  BY <1>7, <1>8 DEF Call
<1>10. Way(t)[n] = Follow(tree, Here(t), x) /\ n \in 0 .. n
  <2>1. n \in 1 .. n /\ n \in 0 .. n /\ x = call[t].path[n]
    BY <1>2 DEF NewName
  <2> QED
    BY <1>3, <2>1, WayFacts
<1>11. Follow(tree, Here(t), x) # None
  <2>1. /\ <<Here(t), x>> \in DOMAIN tree /\ tree[<<Here(t), x>>] \in Inodes
    BY <1>2, <1>4 DEF Told, Here, CacheInv, CallsInv
  <2> HIDE DEF x
  <2>2. Follow(tree, Here(t), x) = tree[<<Here(t), x>>]
    BY <1>2, <1>3, <2>1, FollowName
  <2> QED
    BY <2>1, <2>2, TreeAssumption DEF Inodes
<1>12. Way(t)'[n] = Way(t)[n]
  BY <1>5, <1>9, <1>10, <1>11, WayGrows
<1>13. Here(t)' = Way(t)'[n]
  BY <1>5, <1>9, <1>10, <1>12 DEF Here
<1>14. WalkInv(t)'
  BY <1>1, <1>5, <1>7, <1>9, <1>13, MoveKeeps
<1>15. AnswerRight(t)'
  BY <1>7 DEF AnswerRight
<1> QED
  BY <1>5, <1>7, <1>14, <1>15, StepOf

LEMMA LookBegin ==
    ASSUME LookInv, Next, NEW t \in Threads, NEW p \in Paths, NEW d \in DOMAIN entries,
           NEW g \in {"lookup", "open"}, NEW fs, g # "lookup" => d = 1, Begin(t, p, g, fs, d)
    PROVE  LookInv'
<1> DEFINE n == Len(p)
           s == Start(p, d)
           f == Target(p, d) # None
           c == [path |-> p, rest |-> p, start |-> d, current |-> s, inode |-> None,
                 goal |-> g, flags |-> fs, found |-> f]
<1>1. /\ pc' = [pc EXCEPT ![t] = "walk"] /\ call' = [call EXCEPT ![t] = c]
      /\ UNCHANGED <<tree, entries, children>>
  BY Zenon DEF Begin, Goto, cache
<1>2. p \in Seq(Parts) \ {<<>>}
  BY PathsAssumption, Zenon DEF Parts
<1>3. n \in Nat \ {0}
  BY <1>2
<1>4. /\ pc'[t] = "walk" /\ call'[t] = c
      /\ \A u \in Threads \ {t} : pc'[u] = pc[u] /\ call'[u] = call[u]
  <2> HIDE DEF c
  <2> QED
    BY <1>1, Others, Zenon
<1>5. /\ call'[t].path = p /\ call'[t].rest = p /\ call'[t].start = d /\ call'[t].current = s
      /\ call'[t].goal = g /\ call'[t].found = f
  <2> HIDE DEF s, f
  <2>1. c.path = p /\ c.rest = p /\ c.start = d /\ c.current = s /\ c.goal = g
    BY Zenon
  <2>2. c.found = f
    BY Zenon
  <2> HIDE DEF c
  <2> QED
    BY <1>4, <2>1, <2>2, Zenon
<1>6. entries[s].inode = From(p, d)
  <2>1. entries[1].inode = RootInode
    BY DEF LookInv, ParentsInv, Root
  <2>2. s = IF Absolute(p) THEN 1 ELSE d
    BY Zenon DEF Start, Root
  <2>3. From(p, d) = IF Absolute(p) THEN RootInode ELSE entries[d].inode
    BY Zenon DEF From
  <2> HIDE DEF s
  <2> QED
    BY <2>1, <2>2, <2>3
<1>7. Way(t)' = Steps(tree, p, From(p, d))
  <2> DEFINE a == call'[t].path
             b == call'[t].start
  <2>1. From(call[t].path, call[t].start)' = IF Absolute(a) THEN RootInode ELSE entries'[b].inode
    BY Zenon DEF From
  <2>2. From(p, d) = IF Absolute(p) THEN RootInode ELSE entries[d].inode
    BY Zenon DEF From
  <2>3. a = p /\ b = d
    BY <1>5
  <2>4. Way(t)' = Steps(tree', a, From(call[t].path, call[t].start)')
    BY Zenon DEF Way
  <2> HIDE DEF a, b, c
  <2>5. From(call[t].path, call[t].start)' = From(p, d)
    BY <1>1, <2>1, <2>2, <2>3
  <2> QED
    BY <1>1, <2>3, <2>4, <2>5
<1>8. Way(t)'[0] = From(p, d)
  <2>1. Steps(tree, p, From(p, d))[0] = From(p, d)
    BY <1>2, StepsFacts, Zenon
  <2> QED
    BY ONLY <1>7, <2>1, Zenon
<1>9. f => Way(t)'[n] # None
  BY <1>7, Zenon DEF Target
<1> HIDE DEF c, f, s
<1>10. Here(t)' = Way(t)'[0]
  BY <1>1, <1>5, <1>6, <1>8 DEF Here
<1>11. OnTheWay(t)'
  <2> DEFINE w == Whole(t)' - Len(call'[t].rest)
  <2>1. Whole(t)' = n
    BY <1>5 DEF Whole
  <2>2. w = 0
    BY <1>3, <1>5, <2>1
  <2>3. /\ w >= 0 /\ Here(t)' = Way(t)'[w]
        /\ \A j \in 1 .. Len(call'[t].rest) : call'[t].rest[j] = call'[t].path[w + j]
    BY <1>3, <1>5, <1>10, <2>2
  <2> QED
    BY <2>3, Zenon DEF OnTheWay
<1>12. WalkInv(t)'
  BY <1>4, <1>5, <1>9, <1>11, Zenon DEF WalkInv, Root
<1>13. AnswerRight(t)'
  BY <1>4 DEF AnswerRight
<1> QED
  BY <1>1, <1>4, <1>12, <1>13, QuietStepOf

LEMMA LookInit ==
    NamedLast /\ Init => LookInv
<1> SUFFICES ASSUME NamedLast, Init
             PROVE  LookInv
  OBVIOUS
<1>1. CacheInv
  BY CacheInit
<1>2. /\ tree = Tree /\ entries = <<[inode |-> RootInode, parent |-> 0]>>
      /\ pc = [t \in Threads |-> "idle"] /\ call = [t \in Threads |-> NoCall]
  BY Zenon DEF Init, NoEntry
<1>3. IsTree(tree)
  BY <1>2, TreeAssumption
<1>4. ParentsInv
  BY <1>2 DEF ParentsInv, Root, NoEntry
<1>5. NoCall.goal = "lookup" /\ ~NoCall.found
  BY Zenon DEF NoCall
<1>6. ASSUME NEW t \in Threads
      PROVE  WalkInv(t) /\ AnswerRight(t)
  <2>1. pc[t] = "idle" /\ call[t].goal = "lookup" /\ ~call[t].found
    BY <1>2, <1>5
  <2>2. WalkInv(t)
    BY <2>1 DEF WalkInv
  <2>3. AnswerRight(t)
    BY <2>1 DEF AnswerRight
  <2> QED
    BY <2>2, <2>3
<1> QED
  BY <1>1, <1>3, <1>4, <1>6, Zenon DEF LookInv, AnswersRight

LEMMA LookNext ==
    ASSUME LookInv, Next
    PROVE  LookInv'
<1>1. PICK t \in Threads :
        \/ \E p \in Paths : \/ \E d \in DOMAIN entries : Lookup(t, p, d)
                            \/ \E fs \in SUBSET {"create", "writable"} : Open(t, p, fs)
        \/ Skip(t) \/ Up(t) \/ Hit(t) \/ Miss(t) \/ Ask(t)
        \/ Insert(t) \/ CreateFile(t) \/ WalkFails(t) \/ WalkDone(t)
        \/ \E i \in Files : Create(t, i)
        \/ CreateFails(t) \/ Link(t) \/ Check(t) \/ Answered(t)
  BY Zenon DEF Next
<1>2. ASSUME NEW p \in Paths, NEW d \in DOMAIN entries, Lookup(t, p, d)
      PROVE  LookInv'
  BY <1>2, LookBegin DEF Lookup
<1>3. ASSUME NEW p \in Paths, NEW fs \in SUBSET {"create", "writable"}, Open(t, p, fs)
      PROVE  LookInv'
  <2>1. 1 \in DOMAIN entries
    BY CacheFacts DEF LookInv
  <2> QED
    BY <1>3, <2>1, LookBegin DEF Open, Root
<1> QED
  BY <1>1, <1>2, <1>3, LookSkip, LookUp, LookHit, LookMiss, LookAsk, LookInsert, LookCreateFile,
     LookWalkFails, LookWalkDone, LookCreate, LookCreateFails, LookLink, LookCheck, LookAnswered, Zenon
-----------------------------------------------------------------------------
(* The theorems *)

LEMMA CacheKept ==
    ASSUME CacheInv, UNCHANGED vars
    PROVE  CacheInv'
<1>1. UNCHANGED <<tree, entries, children, pc, call>>
  BY DEF vars
<1>2. TypeOK'
  BY <1>1 DEF CacheInv, TypeOK
<1>3. Coherent'
  BY <1>1 DEF CacheInv, Coherent
<1>4. CallsInv'
  BY <1>1 DEF CacheInv, CallsInv, Told, Part, NewName
<1> QED
  BY <1>2, <1>3, <1>4 DEF CacheInv

\* Whatever walks race, the cache of directory entries says what the file
\* system says, and every entry's parent is the one it is a child of
\* (Vfs::lookup, DirEntry::lookup_child, Vfs::create_file).
THEOREM CacheIsCoherent == Spec => []CacheInv
<1>1. ASSUME CacheInv, [Next]_vars
      PROVE  CacheInv'
  <2>1. CASE Next
    BY <1>1, <2>1, CacheStep
  <2>2. CASE UNCHANGED vars
    BY <1>1, <2>2, CacheKept
  <2> QED
    BY <1>1, <2>1, <2>2
<1> QED
  BY CacheInit, <1>1, PTL DEF Spec

\* Walks that race for the same name end with the same entry: the one that
\* finds the name taken under the write lock uses what is there
\* (DirEntry::lookup_child).  Only create_file replaces an entry.
THEOREM RacingWalksAgree == Spec => EntriesStay
<1>1. ASSUME CacheInv, [Next]_vars
      PROVE  [\A e \in DOMAIN entries, n \in Names :
                 children[e][n] # NoEntry /\ children'[e][n] # children[e][n]
                    => \E t \in Threads : Link(t)]_vars
  <2>1. CASE Next
    BY <1>1, <2>1, EntriesStayStep DEF NoEntry
  <2> QED
    BY <1>1, <2>1
<1> QED
  BY <1>1, CacheIsCoherent, PTL DEF Spec, EntriesStay

\* Whatever the cache holds and whoever races, a call of Vfs::lookup or Vfs::open
\* answers as the file system alone would.
THEOREM AnswersAreRight == NamedLast => (Spec => []AnswersRight)
<1> SUFFICES ASSUME NamedLast
             PROVE  Spec => []AnswersRight
  OBVIOUS
<1>1. ASSUME LookInv, [Next]_vars
      PROVE  LookInv'
  <2>1. CASE Next
    BY <1>1, <2>1, LookNext
  <2>2. CASE UNCHANGED vars
    <3>1. Growth /\ UNCHANGED <<tree, entries, children, pc, call>>
      BY <1>1, <2>2, QuietGrowth DEF vars
    <3>2. CacheInv'
      BY <1>1, <2>2, CacheKept DEF LookInv
    <3>3. ParentsInv'
      BY <1>1, <3>1 DEF LookInv, ParentsInv, Hangs
    <3>4. IsTree(tree)'
      BY <3>1, Zenon DEF Growth
    <3>5. \A u \in Threads : WalkInv(u)' /\ AnswerRight(u)'
      BY <1>1, <3>1, Untouched
    <3>6. NamedLast'
      BY <1>1, Zenon DEF LookInv, NamedLast
    <3> QED
      BY <3>2, <3>3, <3>4, <3>5, <3>6, Zenon DEF LookInv, AnswersRight
  <2> QED
    BY <1>1, <2>1, <2>2
<1>2. LookInv => AnswersRight
  BY DEF LookInv
<1> QED
  BY LookInit, <1>1, <1>2, PTL DEF Spec
-----------------------------------------------------------------------------
(* File::write *)

CONSTANTS OpenFiles, MaxBuffer, MaxOffset
VARIABLES offset, size, stored, file_pc, file, current, count, old_size

File == INSTANCE VfsFile WITH Files <- OpenFiles, pc <- file_pc

\* A step that keeps `stored` and the size, and ends no write that the size
\* does not cover yet, keeps SizeExact's second conjunct.
LEMMA FileEndsStay ==
    ASSUME File!IInv, stored' = stored, size' = size,
           \A t \in Threads : file_pc[t] \in File!Writing /\ size < File!new_size(t)
                                 => file_pc'[t] \in File!Writing /\ File!new_size(t)' = File!new_size(t)
    PROVE  size' # stored' => stored' \in File!Ends'
<1> SUFFICES ASSUME size' # stored'
             PROVE  stored' \in File!Ends'
    OBVIOUS
<1>1. size # stored /\ size < stored
    BY DEF File!IInv, File!TypeOK, File!SizeExact
<1>2. PICK t \in Threads : file_pc[t] \in File!Writing /\ stored = File!new_size(t)
    BY <1>1 DEF File!IInv, File!SizeExact, File!Ends, File!Writing
<1>3. file_pc'[t] \in File!Writing /\ File!new_size(t)' = stored'
    BY <1>1, <1>2
<1> QED BY <1>3 DEF File!Ends, File!Writing

LEMMA FileIInvInit ==
    ASSUME OpenFiles # {}, File!Init
    PROVE  File!IInv
BY DEF File!Init, File!IInv, File!TypeOK, File!SizeExact, File!Writing, File!new_size

\* A return from a call of which nothing is pending.
LEMMA FileReturnKeeps ==
    ASSUME File!IInv, NEW t \in Threads, File!Return(t), UNCHANGED <<size, stored>>, offset' \in [OpenFiles -> Nat],
           file_pc[t] \in File!Writing => File!new_size(t) <= size
    PROVE  File!IInv'
<1>1. File!TypeOK'
    BY DEF File!IInv, File!TypeOK, File!Return
<1>2. \A u \in Threads : u # t => file_pc'[u] = file_pc[u] /\ File!new_size(u)' = File!new_size(u) /\ old_size'[u] = old_size[u]
    BY DEF File!IInv, File!TypeOK, File!Return, File!new_size
<1>3. file_pc'[t] = "idle"
    BY DEF File!IInv, File!TypeOK, File!Return
<1>4. size' # stored' => stored' \in File!Ends'
  <2>1. \A u \in Threads : file_pc[u] \in File!Writing /\ size < File!new_size(u) => u # t
      BY DEF File!IInv, File!TypeOK, File!new_size
  <2> QED BY <1>2, <2>1, FileEndsStay
<1>5. File!SizeExact'
    BY <1>2, <1>3, <1>4 DEF File!IInv, File!SizeExact
<1>6. \A u \in Threads : file_pc'[u] \in File!Writing => File!new_size(u)' <= stored'
    BY <1>2, <1>3 DEF File!IInv, File!Writing
<1> QED BY <1>1, <1>5, <1>6 DEF File!IInv

LEMMA FileIInvNext ==
    ASSUME MaxBuffer \in Nat, File!IInv, [File!Next]_(File!vars)
    PROVE  File!IInv'
<1>1. CASE UNCHANGED File!vars
    BY <1>1 DEF File!IInv, File!vars, File!TypeOK, File!SizeExact, File!Ends, File!new_size, File!Writing
<1>2. ASSUME NEW t \in Threads, NEW f \in OpenFiles, File!Read(t, f) \/ File!Write(t, f)
      PROVE  File!IInv'
  <2>1. File!TypeOK'
      BY <1>2 DEF File!Read, File!Write, File!Load, File!Goto, File!IInv, File!TypeOK
  <2>2. file_pc[t] = "idle" /\ file_pc'[t] \notin File!Writing
      BY <1>2 DEF File!Read, File!Write, File!Load, File!Goto, File!IInv, File!TypeOK, File!Writing
  <2>3. UNCHANGED <<size, stored, old_size>> /\ \A u \in Threads : u # t => file_pc'[u] = file_pc[u] /\ File!new_size(u)' = File!new_size(u)
      BY <1>2 DEF File!Read, File!Write, File!Load, File!Goto, File!IInv, File!TypeOK, File!new_size
  <2>4. size' # stored' => stored' \in File!Ends'
      BY <2>2, <2>3, FileEndsStay DEF File!Writing
  <2>5. File!SizeExact'
      BY <2>2, <2>3, <2>4 DEF File!IInv, File!SizeExact, File!Writing
  <2> QED BY <2>1, <2>2, <2>3, <2>5 DEF File!IInv
<1>3. ASSUME NEW t \in Threads, NEW n \in 0 .. MaxBuffer, File!ReadAt(t, n)
      PROVE  File!IInv'
  <2>1. File!TypeOK'
      BY <1>3 DEF File!ReadAt, File!Goto, File!IInv, File!TypeOK
  <2>2. file_pc[t] = "read_at" /\ file_pc'[t] = "advance_read"
      BY <1>3 DEF File!ReadAt, File!Goto, File!IInv, File!TypeOK
  <2>3. UNCHANGED <<size, stored, old_size>> /\ \A u \in Threads : u # t => file_pc'[u] = file_pc[u] /\ File!new_size(u)' = File!new_size(u)
      BY <1>3 DEF File!ReadAt, File!Goto, File!IInv, File!TypeOK, File!new_size
  <2>4. size' # stored' => stored' \in File!Ends'
      BY <2>2, <2>3, FileEndsStay DEF File!Writing
  <2>5. File!SizeExact'
      BY <2>2, <2>3, <2>4 DEF File!IInv, File!SizeExact, File!Writing
  <2> QED BY <2>1, <2>2, <2>3, <2>5 DEF File!IInv, File!Writing
<1>4. ASSUME NEW t \in Threads, NEW n \in 0 .. MaxBuffer, File!WriteAt(t, n)
      PROVE  File!IInv'
  <2>1. File!TypeOK'
      BY <1>4 DEF File!WriteAt, File!Goto, File!IInv, File!TypeOK, File!Max2
  <2>2. file_pc[t] = "write_at" /\ file_pc'[t] = "advance_write" /\ File!new_size(t)' = current[t] + n
      BY <1>4 DEF File!WriteAt, File!Goto, File!IInv, File!TypeOK, File!new_size
  <2>3. UNCHANGED <<size, old_size>> /\ \A u \in Threads : u # t => file_pc'[u] = file_pc[u] /\ File!new_size(u)' = File!new_size(u)
      BY <1>4 DEF File!WriteAt, File!Goto, File!IInv, File!TypeOK, File!new_size
  <2>4. stored' >= stored /\ stored' >= current[t] + n /\ stored' \in {stored, current[t] + n}
      BY <1>4 DEF File!WriteAt, File!IInv, File!TypeOK, File!Max2
  <2>5. size' # stored' => stored' \in File!Ends'
    <3>1. CASE stored' = current[t] + n
        BY <2>2, <3>1 DEF File!Ends
    <3>2. CASE stored' = stored
        BY <2>2, <2>3, <3>2, FileEndsStay DEF File!Writing
    <3> QED BY <2>4, <3>1, <3>2
  <2>6. File!SizeExact'
      BY <2>1, <2>2, <2>3, <2>4, <2>5 DEF File!IInv, File!SizeExact, File!TypeOK
  <2>7. \A u \in Threads : file_pc'[u] \in File!Writing => File!new_size(u)' <= stored'
    <3> SUFFICES ASSUME NEW u \in Threads, file_pc'[u] \in File!Writing
                 PROVE  File!new_size(u)' <= stored'
        OBVIOUS
    <3>1. CASE u = t
        BY <2>2, <2>4, <3>1 DEF File!TypeOK
    <3>2. CASE u # t
        BY <2>1, <2>3, <2>4, <3>2 DEF File!IInv, File!TypeOK, File!new_size
    <3> QED BY <3>1, <3>2
  <2> QED BY <2>1, <2>6, <2>7 DEF File!IInv
<1>5. ASSUME NEW t \in Threads, File!TransferFails(t)
      PROVE  File!IInv'
    BY <1>5, FileReturnKeeps DEF File!TransferFails, File!IInv, File!TypeOK, File!Writing
<1>6. ASSUME NEW t \in Threads, File!AdvanceRead(t)
      PROVE  File!IInv'
  <2>1. offset' \in [OpenFiles -> Nat]
      BY <1>6 DEF File!AdvanceRead, File!FetchAdd, File!IInv, File!TypeOK
  <2> QED BY <1>6, <2>1, FileReturnKeeps DEF File!AdvanceRead, File!Writing
<1>7. ASSUME NEW t \in Threads, File!AdvanceWrite(t) \/ File!LoadSize(t)
      PROVE  File!IInv'
  <2>1. File!TypeOK'
      BY <1>7 DEF File!AdvanceWrite, File!LoadSize, File!FetchAdd, File!Goto, File!IInv, File!TypeOK
  <2>2. file_pc[t] \in File!Writing /\ file_pc'[t] \in File!Writing /\ (file_pc'[t] = "grow" => old_size'[t] = size)
      BY <1>7 DEF File!AdvanceWrite, File!LoadSize, File!Goto, File!IInv, File!TypeOK, File!Writing
  <2>3. /\ UNCHANGED <<size, stored, current, count>>
        /\ \A u \in Threads : u # t => file_pc'[u] = file_pc[u] /\ old_size'[u] = old_size[u]
      BY <1>7 DEF File!AdvanceWrite, File!LoadSize, File!Goto, File!IInv, File!TypeOK
  <2>4. \A u \in Threads : (file_pc'[u] \in File!Writing <=> file_pc[u] \in File!Writing) /\ File!new_size(u)' = File!new_size(u)
      BY <2>2, <2>3 DEF File!new_size
  <2>5. size' # stored' => stored' \in File!Ends'
      BY <2>3, <2>4, FileEndsStay
  <2>6. File!SizeExact'
      BY <2>1, <2>2, <2>3, <2>5 DEF File!IInv, File!SizeExact, File!TypeOK
  <2> QED BY <2>1, <2>3, <2>4, <2>6 DEF File!IInv
<1>8. ASSUME NEW t \in Threads, File!GrowDone(t)
      PROVE  File!IInv'
  <2>1. File!new_size(t) <= size
      BY <1>8 DEF File!GrowDone, File!IInv, File!TypeOK, File!SizeExact, File!new_size
  <2> QED BY <1>8, <2>1, FileReturnKeeps DEF File!GrowDone, File!IInv, File!TypeOK
<1>9. ASSUME NEW t \in Threads, File!Grow(t)
      PROVE  File!IInv'
  <2>1. File!TypeOK'
      BY <1>9 DEF File!Grow, File!Return, File!IInv, File!TypeOK, File!new_size
  <2>2. file_pc[t] = "grow" /\ size < size' /\ size' = File!new_size(t) /\ stored' = stored /\ file_pc'[t] = "idle"
      BY <1>9 DEF File!Grow, File!Return, File!IInv, File!TypeOK, File!new_size
  <2>3. \A u \in Threads : u # t => file_pc'[u] = file_pc[u] /\ File!new_size(u)' = File!new_size(u) /\ old_size'[u] = old_size[u]
      BY <1>9 DEF File!Grow, File!Return, File!IInv, File!TypeOK, File!new_size
  <2>4. size' # stored' => stored' \in File!Ends'
    <3> SUFFICES ASSUME size' # stored'
                 PROVE  stored' \in File!Ends'
        OBVIOUS
    <3>1. size # stored
        BY <2>1, <2>2 DEF File!IInv, File!TypeOK, File!Writing
    <3>2. PICK u \in Threads : file_pc[u] \in File!Writing /\ stored = File!new_size(u)
        BY <3>1 DEF File!IInv, File!SizeExact, File!Ends, File!Writing
    <3>3. u # t
        BY <2>2, <3>2
    <3> QED BY <2>2, <2>3, <3>2, <3>3 DEF File!Ends, File!Writing
  <2>5. \A u \in Threads : file_pc'[u] \in File!Writing => File!new_size(u)' <= stored'
      BY <2>2, <2>3 DEF File!IInv, File!Writing
  <2>6. File!SizeExact'
    <3>1. size' <= stored'
        BY <2>2 DEF File!IInv, File!Writing
    <3>2. \A u \in Threads : file_pc'[u] = "grow" => old_size'[u] <= size'
        BY <2>1, <2>2, <2>3 DEF File!IInv, File!TypeOK, File!SizeExact
    <3> QED BY <2>4, <3>1, <3>2 DEF File!SizeExact
  <2> QED BY <2>1, <2>5, <2>6 DEF File!IInv
<1>10. ASSUME NEW t \in Threads, File!GrowFails(t)
       PROVE  File!IInv'
  <2>1. File!TypeOK'
      BY <1>10 DEF File!GrowFails, File!IInv, File!TypeOK
  <2>2. /\ UNCHANGED <<size, stored, file_pc, current, count>>
        /\ \A u \in Threads : old_size'[u] \in {old_size[u], size}
      BY <1>10 DEF File!GrowFails, File!IInv, File!TypeOK
  <2>3. size' # stored' => stored' \in File!Ends'
      BY <2>2, FileEndsStay DEF File!new_size
  <2>4. File!SizeExact'
      BY <2>1, <2>2, <2>3 DEF File!IInv, File!SizeExact, File!TypeOK
  <2> QED BY <2>1, <2>2, <2>4 DEF File!IInv, File!new_size
<1> QED BY <1>1, <1>2, <1>3, <1>4, <1>5, <1>6, <1>7, <1>8, <1>9, <1>10 DEF File!Next

\* The inode's size follows every write of every thread (File::write): SizeExact,
\* with what the proof of it needs.
FileSizeExact == File!IInv

\* The size of an inode is what the file system stores, or somebody is about to
\* bring it there, however the writes of threads interleave (File::write).
THEOREM SizeIsExact == File!Assumptions => (File!Spec => []FileSizeExact)
<1> SUFFICES ASSUME File!Assumptions
             PROVE  File!Spec => []FileSizeExact
  OBVIOUS
<1>1. File!Init => FileSizeExact
  BY FileIInvInit DEF FileSizeExact, File!Assumptions
<1>2. FileSizeExact /\ [File!Next]_(File!vars) => FileSizeExact'
  BY FileIInvNext DEF FileSizeExact, File!Assumptions
<1> QED
  BY <1>1, <1>2, PTL DEF File!Spec
=============================================================================
