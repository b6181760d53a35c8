----------------------------- MODULE MCStorage -----------------------------
(***************************************************************************)
(* The storage stack, one part at a time, as `subject` says: in "access"   *)
(* two consumers share a partition, a third has the disk itself, and       *)
(* everything is opened, closed and dropped in every order; in "request" a *)
(* partition lies in a partition, for every geometry, and the arguments of *)
(* requests cover a whole word; in "file" threads read and write open      *)
(* files of one inode; in "lookup" they walk paths and create files.       *)
(***************************************************************************)
EXTENDS StorageProofs, TLC

CONSTANTS c1, c2, c3, p1, p2, Disk, BlockSize, dir

Shared == (c1 :> p1) @@ (c2 :> p1) @@ (c3 :> Disk) @@ (p1 :> Disk)

Nested == (c1 :> p1) @@ (c2 :> Disk) @@ (p1 :> p2) @@ (p2 :> Disk)

D(r, w, e) == [r |-> r, w |-> w, e |-> e]

OpensAndCloses ==
    {D(1, 0, 0), D(1, 1, 0), D(0, 1, 1), D(-1, 0, 0), D(0, -1, 0), D(0, -1, -1), D(-1, 0, 1)}

VARIABLES subject,
          counts, attached, part, fails, dirty, res, io

Accesses ==
    INSTANCE BlockLayer
    WITH Consumers <- {c1, c2, c3}, Partitions <- {p1}, provider <- Shared, Capacity <- 1,
         MaxWord <- 3, Deltas <- OpensAndCloses, Lbas <- {0}, Lens <- {2}, MaxOpen <- 2

Requests ==
    INSTANCE BlockLayer
    WITH Consumers <- {c1, c2}, Partitions <- {p1, p2}, provider <- Nested, Capacity <- 3,
         MaxWord <- 5, Deltas <- {D(1, 1, 0)}, Lbas <- 0 .. 5, Lens <- {0, 1, 2, 4}, MaxOpen <- 1

ASSUME BlockAssumption == Accesses!Assumptions /\ Requests!Assumptions

ASSUME FileAssumption == File!Assumptions

ASSUME NamesAssumption == NamedLast

\* "/d/f" and "../f" create a file in either directory; the others meet a file
\* where a directory should be, and a directory that cannot be written.
FourPaths == {<<"", "d", "f">>, <<"..", "f">>, <<"f", ".", "d">>, <<"d", "..">>}
OneDirectory == <<RootInode, "d">> :> dir

blocks == <<counts, attached, part, fails, dirty, res, io>>
file_state == <<offset, size, stored, file_pc, file, current, count, old_size>>

MCInit ==
    /\ \/ subject = "access" /\ Accesses!Init
       \/ subject = "request" /\ Requests!Init /\ ~fails
       \/ subject \in {"file", "lookup"} /\ Accesses!Init /\ ~fails /\ part = [p \in {p1} |-> [start |-> 0, count |-> 1]]
    /\ File!Init /\ (subject # "file" => size = 0)
    /\ Init

MCNext ==
    /\ \/ subject = "access" /\ Accesses!Next /\ UNCHANGED <<file_state, vars>>
       \/ subject = "request" /\ Requests!Next /\ UNCHANGED <<file_state, vars>>
       \/ subject = "file" /\ File!Next /\ UNCHANGED <<blocks, vars>>
       \/ subject = "lookup" /\ Next /\ UNCHANGED <<blocks, file_state>>
    /\ UNCHANGED subject

MCSpec == MCInit /\ [][MCNext]_<<subject, blocks, file_state, vars>>
\* The threads, and the inodes not yet created, are alike.
Alike == Permutations(Threads) \cup Permutations(Files)
-----------------------------------------------------------------------------
\* The counts along every chain of providers agree, through refused opens,
\* failed flushes and drops; an exclusive open of the device is alone;
\* unflushed data has a writer; closing leaves nothing behind when flushing
\* works; and requests stay inside every partition they come through.
BlockInv ==
    /\ subject = "access" =>
          Accesses!CountsAgree /\ Accesses!Exclusivity /\ Accesses!DirtyHasWriter /\ Accesses!CleanShutdown
    /\ subject = "request" => Requests!WithinPartition
=============================================================================
