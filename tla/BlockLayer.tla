----------------------------- MODULE BlockLayer -----------------------------
(***************************************************************************)
(* klib::block: consumers open a provider for reading, writing or          *)
(* exclusively and send it requests.  The leaf provider is a               *)
(* HardwareAdapter (Disk); a Partition is a provider that passes           *)
(* everything on through a consumer of its own, its `parent`.              *)
(*                                                                         *)
(* Each provider is behind a SleepingMutex that a call holds all the way   *)
(* down, and a Consumer is called through &mut: a call is one step.  The   *)
(* device is external; on some devices operations may fail.                *)
(***************************************************************************)
EXTENDS Integers, FiniteSets, FiniteSetsExt, Sequences

CONSTANTS Consumers,    \* the consumers of the layer's users
          Partitions,   \* the partitions; each stands for its parent consumer too
          Disk,         \* the HardwareAdapter
          provider,     \* the provider of each consumer and of each partition
          Capacity,     \* the blocks of the device
          MaxWord,      \* the largest u64
          Deltas,       \* the arguments of access(), [r, w, e]
          Lbas, Lens,   \* the arguments of requests: first block, bytes or blocks to delete
          BlockSize,    \* the block size of the device, in bytes
          MaxOpen       \* bound on the opens for reading and for writing

Handles == Consumers \cup Partitions
Word == 0 .. MaxWord

Assumptions ==
    /\ provider \in [Handles -> Partitions \cup {Disk}]
    /\ MaxWord \in Nat /\ Capacity \in Word /\ BlockSize \in Nat /\ MaxOpen \in Nat

VARIABLES counts,    \* read_count, write_count, exclusive_count of each handle and of Disk
          attached,  \* the handles not yet dropped, and Disk
          part,      \* start_lba and block_count of each partition
          fails,     \* whether operations on the device may fail
          dirty,     \* the device holds written data that is not flushed
          res,       \* the result of the last call
          io         \* the last request that reached the device

vars == <<counts, attached, part, fails, dirty, res, io>>

Zero == [r |-> 0, w |-> 0, e |-> 0]
Plus(a, b) == [r |-> a.r + b.r, w |-> a.w + b.w, e |-> a.e + b.e]
Minus(a) == [r |-> -a.r, w |-> -a.w, e |-> -a.e]
Positive(a) == a.r > 0 \/ a.w > 0 \/ a.e > 0
Negative(a) == a.r < 0 \/ a.w < 0 \/ a.e < 0

BlockCount(p) == IF p = Disk THEN Capacity ELSE part[p].count

\* The handles a call made at h passes through, h first.
Path(h) ==
    LET down[n \in 0 .. Cardinality(Partitions), x \in Handles] ==
            IF provider[x] = Disk \/ n = 0 THEN <<x>> ELSE <<x>> \o down[n - 1, provider[x]]
    IN  down[Cardinality(Partitions), h]

\* Partition::new, on partitions whose capacity below is known.
Fits(g, cap) == g.start <= cap /\ g.start + g.count <= cap

Init ==
    /\ counts = [h \in Handles \cup {Disk} |-> Zero]
    /\ attached = Handles \cup {Disk}
    /\ part \in [Partitions -> [start : 0 .. Capacity, count : 0 .. Capacity]]
    /\ \A p \in Partitions : Fits(part[p], BlockCount(provider[p]))
    /\ fails \in BOOLEAN
    /\ dirty = FALSE
    /\ res = "Ok"
    /\ io = [lba |-> 0, blocks |-> 0, from |-> Disk]
-----------------------------------------------------------------------------
(* Opening and closing *)

\* HardwareAdapter::access refuses.
AdapterInUse(d) ==
    \/ d.e > 0 /\ Positive(counts[Disk])
    \/ counts[Disk].e > 0 /\ Positive(d)

\* The last writer goes: HardwareAdapter::access flushes the device.
LastWriter(d) == counts[Disk].w > 0 /\ counts[Disk].w + d.w <= 0

\* The result of access(d) passed through `nodes` to Disk, when a flush would
\* have the outcome `flushed`.
AccessResult(nodes, d, flushed) ==
    IF \E n \in nodes \cup {Disk} : Negative(Plus(counts[n], d)) THEN "AccessUnderflow"
    ELSE IF AdapterInUse(d) THEN "InUse"
    ELSE IF LastWriter(d) /\ ~flushed THEN "HardwareError"
    ELSE "Ok"

FlushOutcomes == IF fails THEN BOOLEAN ELSE {TRUE}

Nodes(h) == {Path(h)[i] : i \in DOMAIN Path(h)}

\* Mutant: the counts of the consumer are raised before the provider agrees.
CountedEarly(nodes, d, result) ==
    [n \in DOMAIN counts |-> IF n \in nodes \/ (n = Disk /\ result = "Ok")
                             THEN Plus(counts[n], d) ELSE counts[n]]

\* The counts of a chain after access(d): every node or none.
Counted(nodes, d, result) ==
    [n \in DOMAIN counts |-> IF n \in nodes \cup {Disk} /\ result = "Ok"
                             THEN Plus(counts[n], d) ELSE counts[n]]

Access(c, d) ==
    /\ c \in attached
    /\ counts[Disk].r + d.r <= MaxOpen /\ counts[Disk].w + d.w <= MaxOpen
    /\ \E flushed \in FlushOutcomes :
          LET result == AccessResult(Nodes(c), d, flushed)
          IN  /\ counts' = Counted(Nodes(c), d, result)
              /\ dirty' = (dirty /\ ~(result = "Ok" /\ LastWriter(d)))
              /\ res' = result
    /\ UNCHANGED <<attached, part, fails, io>>

\* What Drop for Consumer passes to access().
Closed(h) == Minus(counts[h])

\* A dropped consumer closes what it has open at its provider and ignores the
\* result.  If the close fails, counts[h] keeps what is left behind until a
\* partition on the way closes for it.  A partition goes once nothing is
\* attached to it.
Drop(h) ==
    /\ h \in attached \ {Disk}
    /\ \A x \in attached \cap Handles : provider[x] # h
    /\ attached' = attached \ {h}
    /\ IF Positive(counts[h])
       THEN \E flushed \in FlushOutcomes :
               LET d == Closed(h)
                   above == Nodes(h) \ {h}
                   result == AccessResult(above, d, flushed)
                   counted == Counted(above, d, result)
               IN  /\ counts' = [n \in DOMAIN counts |->
                                    IF result = "Ok" /\ n \in Handles /\ h \in Nodes(n)
                                    THEN Zero ELSE counted[n]]
                   /\ dirty' = (dirty /\ ~(result = "Ok" /\ LastWriter(d)))
       ELSE UNCHANGED <<counts, dirty>>
    /\ res' = "Ok"
    /\ UNCHANGED <<part, fails, io>>

\* Drop of the HardwareAdapter flushes what a leaked writer left behind.
DropAdapter ==
    /\ attached = {Disk}
    /\ attached' = {}
    /\ \E flushed \in FlushOutcomes : dirty' = (dirty /\ ~(counts[Disk].w > 0 /\ flushed))
    /\ res' = "Ok"
    /\ UNCHANGED <<counts, part, fails, io>>
-----------------------------------------------------------------------------
(* Requests *)

\* req.lba as the i-th handle of a path sees it.
LbaAt(path, lba, i) == lba + MapThenSumSet(LAMBDA j : part[path[j]].start, 2 .. i)

\* The bounds checks of Consumer::request and Partition::request.
InBounds(path, lba, n, i) ==
    LET at == LbaAt(path, lba, i)
        cap == BlockCount(provider[path[i]])
    IN  /\ cap # 0
        /\ at <= cap
        /\ at + n <= MaxWord
        /\ at + n <= cap

\* IoRequest::blocks.
NumBlocks(cmd, len) ==
    CASE cmd \in {"Read", "Write"} -> len \div BlockSize
      [] cmd = "Delete" -> len
      [] OTHER -> 0

\* The result of Consumer::request at the i-th handle, before it goes down.
RequestCheck(path, cmd, lba, len, i) ==
    LET c == counts[path[i]]
    IN  IF BlockSize = 0 THEN "InvalidBlockSize"
        ELSE IF cmd \in {"Read", "Write"} /\ len % BlockSize # 0 THEN "UnalignedBuffer"
        ELSE IF cmd # "Flush" /\ ~InBounds(path, lba, NumBlocks(cmd, len), i) THEN "OutOfBounds"
        ELSE IF cmd = "Read" /\ c.r <= 0 THEN "NotReady"
        ELSE IF cmd \in {"Write", "Delete"} /\ c.w <= 0 THEN "ReadOnly"
        ELSE "Ok"

\* A request that some handle on the way refuses.
RequestRefused(c, cmd, lba, len) ==
    /\ c \in attached
    /\ LET refusals == {i \in DOMAIN Path(c) : RequestCheck(Path(c), cmd, lba, len, i) # "Ok"}
       IN  /\ refusals # {}
           /\ res' = RequestCheck(Path(c), cmd, lba, len, Min(refusals))
    /\ UNCHANGED <<counts, attached, part, fails, dirty, io>>

\* What the device does: flush cleans it, a write dirties it, and deleting is
\* not supported by the default implementation.
Device(cmd, ok) ==
    /\ dirty' = ((dirty \/ cmd = "Write") /\ ~(cmd = "Flush" /\ ok))
    /\ res' = IF cmd = "Delete" THEN "NotSupported" ELSE IF ok THEN "Ok" ELSE "HardwareError"

RequestServed(c, cmd, lba, len) ==
    /\ c \in attached
    /\ \A i \in DOMAIN Path(c) : RequestCheck(Path(c), cmd, lba, len, i) = "Ok"
    /\ \E ok \in FlushOutcomes : Device(cmd, ok)
    /\ io' = IF cmd = "Flush" THEN io
             ELSE [lba |-> LbaAt(Path(c), lba, Len(Path(c))), blocks |-> NumBlocks(cmd, len),
                   from |-> provider[c]]
    /\ UNCHANGED <<counts, attached, part, fails>>

Next ==
    \/ \E c \in Consumers, d \in Deltas : Access(c, d)
    \/ \E h \in Handles : Drop(h)
    \/ DropAdapter
    \/ \E c \in Consumers, cmd \in {"Read", "Write", "Delete", "Flush"}, lba \in Lbas, len \in Lens :
          RequestRefused(c, cmd, lba, len) \/ RequestServed(c, cmd, lba, len)

Spec == Init /\ [][Next]_vars
-----------------------------------------------------------------------------
Sum(hs) ==
    [r |-> MapThenSumSet(LAMBDA h : counts[h].r, hs),
     w |-> MapThenSumSet(LAMBDA h : counts[h].w, hs),
     e |-> MapThenSumSet(LAMBDA h : counts[h].e, hs)]

\* The counts of every provider are those of the consumers below it, dropped
\* ones with a failed close included: neither a refused open, nor a failed
\* flush, nor a drop in the middle of a chain leaves part of a chain counted.
CountsAgree ==
    \A p \in Partitions \cup {Disk} :
        p \in attached => counts[p] = Sum({h \in Handles : provider[h] = p})

\* While the device is open exclusively, one consumer has everything that is
\* open, through whatever partitions ("can't request an exclusive lock if any
\* other lock is being held", mod.rs:287).
Exclusivity ==
    counts[Disk].e > 0 => Cardinality({c \in Consumers : counts[c] # Zero}) = 1

\* Written data waits in the device only while somebody has it open for
\* writing: the last close flushes, or fails and stays open.
DirtyHasWriter == dirty /\ Disk \in attached => counts[Disk].w > 0

\* When flushing works, closing leaves nothing behind: no counts without a
\* consumer and no unwritten data.
CleanShutdown ==
    ~fails =>
        /\ \A p \in Partitions \cup {Disk} :
              (\A h \in attached \cap Handles : provider[h] # p) => counts[p] = Zero
        /\ attached \subseteq {Disk} => ~dirty

\* A request that reaches the device stays inside the device and inside
\* every partition it came through, whatever u64 the caller passed.
WithinPartition ==
    /\ io.lba + io.blocks <= Capacity
    /\ io.from # Disk => \A i \in DOMAIN Path(io.from) :
          LET path == Path(io.from)
              start == MapThenSumSet(LAMBDA j : part[path[j]].start, i .. Len(path))
          IN  start <= io.lba /\ io.lba + io.blocks <= start + part[path[i]].count
=============================================================================
