----------------------------- MODULE VfsLookup -----------------------------
(***************************************************************************)
(* Vfs::lookup and Vfs::open (klib/src/vfs/mod.rs): threads walk paths and *)
(* create files, sharing the directory entries that cache what the file    *)
(* system answered.  A path is the sequence of its parts between slashes.  *)
(* The read and write locks of `children` make each access to it one step; *)
(* nobody takes the lock of a directory entry for writing.  The file       *)
(* system behind InodeOperations is external: a tree that only grows.      *)
(***************************************************************************)
EXTENDS Naturals, Sequences

CONSTANTS Threads, Names,
          RootInode,
          Tree,           \* the file system at the start: [<<directory, name>> -> inode]
          Directories,    \* its directories
          Files,          \* the inodes that create() may hand out
          Paths,          \* the paths the threads ask for
          None            \* no inode

Inodes == Directories \cup Files

\* The file system is a tree, whose names are in directories.
Rooted(tr, i) == i = RootInode \/ \E a \in DOMAIN tr : tr[a] = i
IsTree(tr) ==
    /\ DOMAIN tr \subseteq Directories \X Names
    /\ \A a \in DOMAIN tr : tr[a] \in Inodes \ {RootInode} /\ Rooted(tr, a[1])
    /\ \A a, b \in DOMAIN tr : tr[a] = tr[b] => a = b

ASSUME TreeAssumption ==
    /\ RootInode \in Directories /\ Files \cap Directories = {} /\ None \notin Directories \cup Files
    /\ IsTree(Tree)
ASSUME PathsAssumption ==
    /\ Names \cap {"", ".", ".."} = {}
    /\ Paths \subseteq Seq(Names \cup {"", ".", ".."}) \ {<<>>}

\* What open() may create is named by the last part of its path, unless the path
\* leads up on its way: with "x/../" it would create a file without a name, if
\* somebody creates x after the first walk has missed it.
NamedLast ==
    \A p \in Paths : p[Len(p)] \in Names \/ \A k \in 1 .. Len(p) - 1 : p[k] # ".."

Parts == Names \cup {"", ".", ".."}
Slash == <<"", "">>
NoEntry == 0
Root == 1

VARIABLES tree,           \* the file system (external)
          entries,        \* the directory entries: a sequence of [inode, parent]
          children,       \* of each entry: name -> entry, or NoEntry
          pc,             \* where each thread is; its answer when a call is over
          call            \* the arguments and locals of its call

vars == <<tree, entries, children, pc, call>>

NoChildren == [n \in Names |-> NoEntry]
IsDirectory(e) == entries[e].inode \in Directories
Errors == {"NotADirectory", "NotFound", "Io", "ExistsAlready", "OutOfSpace", "IsADirectory"}
Answers == {"Ok"} \cup Errors

\* What a path stands for: the inodes that the file system tr alone would lead
\* to from inode i, part by part, None where there is nothing.
Skipped == {"", "."}
ParentOf(tr, i) == IF i = RootInode THEN i ELSE (CHOOSE a \in DOMAIN tr : tr[a] = i)[1]
Follow(tr, i, n) ==
    IF i = None \/ n \in Skipped THEN i
    ELSE IF n = ".." THEN ParentOf(tr, i)
    ELSE IF <<i, n>> \in DOMAIN tr THEN tr[<<i, n>>] ELSE None
Steps(tr, p, i) ==
    LET at[k \in 0 .. Len(p)] == IF k = 0 THEN i ELSE Follow(tr, at[k - 1], p[k])
    IN at

Absolute(p) == Len(p) > 1 /\ p[1] = ""
From(p, pwd) == IF Absolute(p) THEN RootInode ELSE entries[pwd].inode
Target(p, pwd) == Steps(tree, p, From(p, pwd))[Len(p)]

NoCall == [path |-> Slash, rest |-> <<>>, start |-> Root, current |-> Root, inode |-> None,
           goal |-> "lookup", flags |-> {}, found |-> FALSE]

Init ==
    /\ tree = Tree
    /\ entries = <<[inode |-> RootInode, parent |-> NoEntry]>>
    /\ children = <<NoChildren>>
    /\ pc = [t \in Threads |-> "idle"]
    /\ call = [t \in Threads |-> NoCall]

Goto(t, from, to) == pc[t] = from /\ pc' = [pc EXCEPT ![t] = to]
cache == <<tree, entries, children>>

\* Mutant: a path from the root starts at the working directory too.
StartPwd(p, pwd) == pwd

\* path.starts_with("/") || pwd.is_none(): pwd is the root where there is none
Start(p, pwd) == IF Absolute(p) THEN Root ELSE pwd

Begin(t, p, g, fs, pwd) ==
    /\ Goto(t, "idle", "walk")
    /\ call' = [call EXCEPT ![t] =
          [path |-> p, rest |-> p, start |-> pwd, current |-> Start(p, pwd), inode |-> None, goal |-> g,
           flags |-> fs, found |-> Target(p, pwd) # None]]
    /\ UNCHANGED cache

\* lookup(path, pwd) and open(path, create, _, writable)
Lookup(t, p, pwd) == Begin(t, p, "lookup", {}, pwd)
Open(t, p, fs) == Begin(t, p, "open", fs, Root)

\* The call is over; then the caller has the answer.
Return(t, answer) ==
    /\ pc' = [pc EXCEPT ![t] = answer]
    /\ UNCHANGED <<cache, call>>

Answered(t) ==
    /\ pc[t] \in Answers
    /\ pc' = [pc EXCEPT ![t] = "idle"]
    /\ call' = [call EXCEPT ![t] = NoCall]
    /\ UNCHANGED cache

Part(t) == Head(call[t].rest)
Walking(t) == pc[t] = "walk" /\ call[t].rest # <<>>

\* One part of the path is done with.
Enter(t, e) ==
    /\ call' = [call EXCEPT ![t].rest = Tail(@), ![t].current = e]
    /\ pc' = [pc EXCEPT ![t] = "walk"]

\* An empty part, and "."
Skip(t) ==
    /\ Walking(t) /\ Part(t) \in Skipped
    /\ Enter(t, call[t].current)
    /\ UNCHANGED cache

\* "..": the weak reference to the parent always leads to one but at the root:
\* a directory's entry stays among its parent's children.
Up(t) ==
    /\ Walking(t) /\ Part(t) = ".."
    /\ LET up == entries[call[t].current].parent
       IN Enter(t, IF up = NoEntry THEN call[t].current ELSE up)
    /\ UNCHANGED cache

Named(t) == Walking(t) /\ Part(t) \in Names

\* lookup_child: the cache knows the name
Hit(t) ==
    /\ Named(t) /\ IsDirectory(call[t].current)
    /\ children[call[t].current][Part(t)] # NoEntry
    /\ Enter(t, children[call[t].current][Part(t)])
    /\ UNCHANGED cache

Miss(t) ==
    /\ Named(t) /\ IsDirectory(call[t].current)
    /\ children[call[t].current][Part(t)] = NoEntry
    /\ Goto(t, "walk", "ask")
    /\ UNCHANGED <<cache, call>>

\* operations.lookup_child(name)?
Ask(t) ==
    /\ Goto(t, "ask", "insert")
    /\ <<entries[call[t].current].inode, Part(t)>> \in DOMAIN tree
    /\ call' = [call EXCEPT ![t].inode = tree[<<entries[call[t].current].inode, Part(t)>>]]
    /\ UNCHANGED cache

\* A new directory entry, put among the children of its parent.
AddEntry(parent, n, i) ==
    /\ entries' = Append(entries, [inode |-> i, parent |-> parent])
    /\ children' = Append([children EXCEPT ![parent][n] = Len(entries) + 1], NoChildren)

\* Mutant: the children are not looked at again under the write lock.
InsertUnchecked(t) ==
    /\ pc[t] = "insert"
    /\ AddEntry(call[t].current, Part(t), call[t].inode)
    /\ Enter(t, Len(entries) + 1)
    /\ UNCHANGED tree

\* With children.write(): somebody else may have been faster.
Insert(t) ==
    /\ pc[t] = "insert"
    /\ LET child == children[call[t].current][Part(t)]
       IN IF child # NoEntry
          THEN Enter(t, child) /\ UNCHANGED <<entries, children>>
          ELSE AddEntry(call[t].current, Part(t), call[t].inode) /\ Enter(t, Len(entries) + 1)
    /\ UNCHANGED tree

\* A walk that fails: NotADirectory from lookup_child, NotFound or another
\* error from the file system.
WalkError(t, e) ==
    \/ e = "NotADirectory" /\ Named(t) /\ ~IsDirectory(call[t].current)
    \/ e = "NotFound" /\ pc[t] = "ask" /\ <<entries[call[t].current].inode, Part(t)>> \notin DOMAIN tree
    \/ e = "Io" /\ pc[t] = "ask"

\* rfind("/"): the directory, and the name in it
DirPath(p) == IF Len(p) = 1 THEN Slash ELSE SubSeq(p, 1, Len(p) - 1)

\* Err(NotFound) if create => create_file(path), which begins with another walk
CreateFile(t) ==
    /\ WalkError(t, "NotFound") /\ call[t].goal = "open" /\ "create" \in call[t].flags
    /\ pc' = [pc EXCEPT ![t] = "walk"]
    /\ call' = [call EXCEPT ![t].rest = DirPath(call[t].path), ![t].current = Root, ![t].goal = "create"]
    /\ UNCHANGED cache

WalkFails(t) ==
    \E e \in {"NotADirectory", "NotFound", "Io"} :
       /\ WalkError(t, e)
       /\ ~(e = "NotFound" /\ call[t].goal = "open" /\ "create" \in call[t].flags)
       /\ Return(t, e)

\* The walk is the whole of lookup, and the first part of open and create_file.
WalkDone(t) ==
    /\ call[t].rest = <<>>
    /\ Goto(t, "walk", [lookup |-> "Ok", open |-> "check", create |-> "create"][call[t].goal])
    /\ UNCHANGED <<cache, call>>

NewName(t) == call[t].path[Len(call[t].path)]

\* operations.create(name, Normal)?
Create(t, i) ==
    LET at == <<entries[call[t].current].inode, NewName(t)>>
    IN /\ Goto(t, "create", "link")
       /\ IsDirectory(call[t].current) /\ at \notin DOMAIN tree
       /\ \A a \in DOMAIN tree : tree[a] # i
       /\ tree' = [a \in DOMAIN tree \cup {at} |-> IF a = at THEN i ELSE tree[a]]
       /\ call' = [call EXCEPT ![t].inode = i]
       /\ UNCHANGED <<entries, children>>

CreateFails(t) ==
    /\ pc[t] = "create"
    /\ \/ ~IsDirectory(call[t].current) /\ Return(t, "NotADirectory")
       \/ <<entries[call[t].current].inode, NewName(t)>> \in DOMAIN tree /\ Return(t, "ExistsAlready")
       \/ Return(t, "OutOfSpace")

\* Mutant: the entry of a new file goes among the children of the root.
LinkAtRoot(t) ==
    /\ Goto(t, "link", "check")
    /\ AddEntry(Root, NewName(t), call[t].inode)
    /\ call' = [call EXCEPT ![t].current = Len(entries) + 1]
    /\ UNCHANGED tree

\* children.write().insert(name, new_dir_entry): whatever is there
Link(t) ==
    /\ Goto(t, "link", "check")
    /\ AddEntry(call[t].current, NewName(t), call[t].inode)
    /\ call' = [call EXCEPT ![t].current = Len(entries) + 1]
    /\ UNCHANGED tree

\* A directory cannot be opened for writing.
Check(t) ==
    /\ pc[t] = "check"
    /\ Return(t, IF IsDirectory(call[t].current) /\ "writable" \in call[t].flags THEN "IsADirectory" ELSE "Ok")

Next ==
    \E t \in Threads :
       \/ \E p \in Paths : \/ \E d \in DOMAIN entries : Lookup(t, p, d)
                           \/ \E fs \in SUBSET {"create", "writable"} : Open(t, p, fs)
       \/ Skip(t) \/ Up(t) \/ Hit(t) \/ Miss(t) \/ Ask(t) \/ Insert(t)
       \/ CreateFile(t) \/ WalkFails(t) \/ WalkDone(t)
       \/ \E i \in Files : Create(t, i)
       \/ CreateFails(t) \/ Link(t) \/ Check(t) \/ Answered(t)

Spec == Init /\ [][Next]_vars
-----------------------------------------------------------------------------
TypeOK ==
    /\ entries \in Seq([inode : Directories \cup Files, parent : 0 .. Len(entries)]) \ {<<>>}
    /\ children \in Seq([Names -> 0 .. Len(entries)])
    /\ Len(children) = Len(entries)
    /\ pc \in [Threads -> {"idle", "walk", "ask", "insert", "create", "link", "check"} \cup Answers]

\* What the cache says, the file system says too.
Coherent ==
    \A e \in DOMAIN entries, n \in Names : children[e][n] # NoEntry =>
       /\ entries[children[e][n]].parent = e
       /\ <<entries[e].inode, n>> \in DOMAIN tree
       /\ tree[<<entries[e].inode, n>>] = entries[children[e][n]].inode

\* The file system has n in the directory thread t is in, as t believes it.
Told(t, n) ==
    /\ <<entries[call[t].current].inode, n>> \in DOMAIN tree
    /\ call[t].inode = tree[<<entries[call[t].current].inode, n>>]

\* The walk of a call is at an entry of the cache, and what the file system has
\* told it is still true when it puts that in the cache.
CallsInv ==
    /\ \A a \in DOMAIN tree : tree[a] \in Inodes
    /\ call \in [Threads -> [path : Seq(Parts) \ {<<>>}, rest : Seq(Parts), start : DOMAIN entries,
                            current : DOMAIN entries, inode : Inodes \cup {None},
                            goal : {"lookup", "open", "create"},
                            flags : SUBSET {"create", "writable"}, found : BOOLEAN]]
    /\ \A t \in Threads :
         /\ pc[t] \in {"ask", "insert"} => call[t].rest # <<>> /\ Part(t) \in Names
         /\ pc[t] = "insert" => Told(t, Part(t))
         /\ pc[t] = "link" => Told(t, NewName(t))

CacheInv == TypeOK /\ Coherent /\ CallsInv

\* The answer of thread t's call is that of the file system alone.
AnswerRight(t) ==
    /\ pc[t] = "Ok" => entries[call[t].current].inode = Target(call[t].path, call[t].start)
    /\ pc[t] = "NotFound" => ~call[t].found
    /\ pc[t] = "ExistsAlready" => ~call[t].found /\ Target(call[t].path, call[t].start) # None
    /\ pc[t] = "IsADirectory" => Target(call[t].path, call[t].start) \in Directories

\* Whatever the cache held and whoever raced, a call answers as the file system
\* would: Ok with the inode the path resolves to, NotFound only for a path that
\* led nowhere when the call began, ExistsAlready only for a file that somebody
\* else created during the call.
AnswersRight == \A t \in Threads : AnswerRight(t)

\* An entry's parent is the entry of the directory it is in.
Hangs(e) ==
    /\ entries[e].parent \in DOMAIN entries
    /\ \E n \in Names :
          /\ <<entries[entries[e].parent].inode, n>> \in DOMAIN tree
          /\ tree[<<entries[entries[e].parent].inode, n>>] = entries[e].inode
ParentsInv ==
    /\ entries[Root] = [inode |-> RootInode, parent |-> NoEntry]
    /\ \A e \in DOMAIN entries : e # Root => Hangs(e)

\* Where a call is, and where the file system would be after each part.
Here(t) == entries[call[t].current].inode
Way(t) == Steps(tree, call[t].path, From(call[t].path, call[t].start))

\* A walk, of the path or of its directory, is where the file system leads by
\* the parts that are done with.
Whole(t) == IF call[t].goal = "create" THEN Len(call[t].path) - 1 ELSE Len(call[t].path)
OnTheWay(t) ==
    LET done == Whole(t) - Len(call[t].rest)
    IN /\ done >= 0 /\ Here(t) = Way(t)[done]
       /\ \A j \in 1 .. Len(call[t].rest) : call[t].rest[j] = call[t].path[done + j]
\* A name without a slash is created in the root, DirPath is "/".
AtTheRoot(t) ==
    /\ call[t].goal = "create" /\ Len(call[t].path) = 1 /\ Here(t) = Way(t)[0]
    /\ \A j \in 1 .. Len(call[t].rest) : call[t].rest[j] \in Skipped

WalkInv(t) ==
    /\ IF pc[t] = "idle" THEN call[t].goal = "lookup" /\ ~call[t].found ELSE call[t].path \in Paths
    /\ call[t].goal # "lookup" => call[t].start = Root
    /\ call[t].goal = "create" =>
           ~call[t].found /\ (NewName(t) \in Names \/ Way(t)[Len(call[t].path) - 1] \notin Directories)
    /\ call[t].found => Way(t)[Len(call[t].path)] # None
    /\ pc[t] \in {"walk", "ask", "insert"} => OnTheWay(t) \/ AtTheRoot(t)
    /\ pc[t] \in {"create", "link"} => call[t].goal = "create" /\ Here(t) = Way(t)[Len(call[t].path) - 1]
    /\ pc[t] = "link" => NewName(t) \in Names
    /\ pc[t] = "check" => Here(t) = Way(t)[Len(call[t].path)]

\* The inductive invariant of AnswersRight.
LookInv ==
    /\ NamedLast
    /\ CacheInv /\ IsTree(tree) /\ ParentsInv
    /\ \A t \in Threads : WalkInv(t)
    /\ AnswersRight

\* An entry, once cached, stays: lookups that race for the same name end with
\* the same entry.  Only create_file puts its own in the place of another's.
EntriesStay ==
    [][\A e \in DOMAIN entries, n \in Names :
          children[e][n] # NoEntry /\ children'[e][n] # children[e][n] => \E t \in Threads : Link(t)]_vars
=============================================================================
