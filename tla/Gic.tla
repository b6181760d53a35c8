-------------------------------- MODULE Gic ---------------------------------
(***************************************************************************)
(* The parts of the GICv3 driver side by side: the LPI allocator, the ITS  *)
(* command queue, the MSI tables, the translation tables, the operations   *)
(* on single interrupts and init().  A behaviour is about one of them,     *)
(* `subject`, and leaves the others in their initial state.  For any       *)
(* number of cores, drivers, devices, LPIs and blocks and any length of    *)
(* the queue, each keeps its inductive invariant: the lemmas about a part  *)
(* come first, or are at the end of GicMsi and GicIrq.                     *)
(***************************************************************************)
EXTENDS LpiAllocator, Sequences, WellFoundedInduction, TLAPS

CONSTANTS CPUs, Devices, Blocks,
          num_entries, MAX_RETRIES, MaxCmds,
          QueueLimit, InitQueueLimit

ASSUME QueueAssumption ==
    /\ num_entries \in Nat \ {0, 1} /\ MAX_RETRIES \in Nat /\ MaxCmds \in Nat
    /\ {QueueLimit, InitQueueLimit} \subseteq Nat \ {0}

VARIABLES ring, write_offset, cwriter, creadr, stalled, executed, count, queue_pc, retries,
          next, result,
          queue, pusher, fails,
          allocated, device_itts, borrower, hw, itt_pc, block,
          INIT_STATE, event, distributor, prop_table, its_enabled, redist, collections, init_pc

Queue == INSTANCE ItsQueue WITH pc <- queue_pc
Itt == INSTANCE GicItt WITH Drivers <- Devices, pc <- itt_pc
Start == INSTANCE GicInit WITH QueueLimit <- InitQueueLimit, pc <- init_pc
-----------------------------------------------------------------------------
(* The LPI allocator *)

\* Only the last word has bits beyond max_id: an id beyond it that belongs to
\* word w puts every word after w beyond it too.
LEMMA TailIsLast ==
    ASSUME NEW w \in Words, NEW b \in Bits, Id(w, b) > max_id
    PROVE  w = words - 1
<1> DEFINE span == max_id - base_id
<1>1. span \in Nat /\ words \in Int /\ w \in Nat /\ b \in Nat /\ b < WordBits /\ WordBits \in Nat /\ WordBits > 0
    BY IdsAssumption, WordAssumption DEF Words, Bits, words
<1>2. w * WordBits \in Nat /\ words * WordBits \in Int /\ (w + 2) * WordBits \in Nat
    BY <1>1
<1>3. words * WordBits <= span + WordBits
    BY <1>1 DEF words
<1>4. w * WordBits + b > span
    BY <1>1, <1>2, IdsAssumption DEF Id
<1>5. SUFFICES ASSUME w + 2 <= words PROVE FALSE
    BY <1>1 DEF Words
<1>6. (w + 2) * WordBits <= words * WordBits
    BY <1>1, <1>5
<1>7. (w + 2) * WordBits = w * WordBits + 2 * WordBits
    BY <1>1
<1> QED BY <1>1, <1>2, <1>3, <1>4, <1>6, <1>7

LEMMA WordsPositive == words \in Nat \ {0}
<1>1. max_id - base_id + WordBits >= WordBits /\ WordBits > 0
    BY IdsAssumption, WordAssumption
<1> QED BY <1>1, IdsAssumption, WordAssumption DEF words

\* The scanned word is a word, and it is hint + i until the loop wraps.
LEMMA ScannedWord ==
    ASSUME TypeOK
    PROVE  Scanned \in Words /\ (hint + i < words => Scanned = hint + i)
BY WordsPositive DEF TypeOK, Scanned, Words

LEMMA WordOfId ==
    ASSUME NEW id \in Ids
    PROVE  WordOf(id) \in Words /\ BitOf(id) \in Bits
<1>1. id - base_id \in 0 .. max_id - base_id
    BY IdsAssumption DEF Ids
<1>2. (id - base_id) \div WordBits < (max_id - base_id + WordBits) \div WordBits
    BY <1>1, IdsAssumption, WordAssumption
<1> QED BY <1>1, <1>2, IdsAssumption, WordAssumption DEF WordOf, BitOf, Words, Bits, words

LEMMA LowestZeroBit ==
    ASSUME NEW word \in SUBSET Bits, word # Full
    PROVE  /\ LowestZero(word) \in Bits \ word
           /\ \A a \in Bits \ word : LowestZero(word) <= a
<1>1. Bits \ word # {}
    BY Zenon DEF Full
<1>2. Bits \subseteq Nat
    BY WordAssumption DEF Bits
<1> DEFINE less == {ss \in Nat \X Nat : ss[1] < ss[2]}
<1>3. IsWellFoundedOn(less, Nat)
    BY NatLessThanWellFounded, Zenon DEF OpToRel
<1> HIDE DEF less
<1>4. PICK b \in Bits \ word : \A a \in Bits \ word : ~(<<a, b>> \in less)
    BY <1>1, <1>2, <1>3, WFMin, Zenon
<1>5. \A a, c \in Nat : a < c => <<a, c>> \in less
    BY DEF less
<1>6. ASSUME NEW a \in Bits \ word PROVE b <= a
  <2>1. a \in Nat /\ b \in Nat /\ ~(<<a, b>> \in less)
    BY <1>2, <1>4, Zenon
  <2>2. ~(a < b)
    BY <1>5, <2>1, Zenon
  <2> QED BY <2>1, <2>2
<1> QED BY <1>6 DEF LowestZero

\* A word that alloc() passes over has no free id, whether it is full or its
\* first free bit lies beyond max_id.
LEMMA PassedIsExhausted ==
    ASSUME TypeOK, NEW w \in Words,
           bitmap[w] = Full \/ Id(w, LowestZero(bitmap[w])) > max_id
    PROVE  Exhausted(w)
<1>1. CASE bitmap[w] = Full
    BY <1>1 DEF Exhausted, Full
<1>2. CASE bitmap[w] # Full /\ Id(w, LowestZero(bitmap[w])) > max_id
  <2>1. bitmap[w] \in SUBSET Bits
    BY DEF TypeOK
  <2>2. SUFFICES ASSUME NEW b \in Bits \ bitmap[w] PROVE Id(w, b) > max_id
    BY IdsAssumption, WordAssumption DEF Exhausted, Id, Bits, Words
  <2>3. LowestZero(bitmap[w]) <= b /\ LowestZero(bitmap[w]) \in Bits
    BY <1>2, <2>1, LowestZeroBit
  <2>4. w * WordBits \in Int
    BY WordAssumption, WordsPositive DEF Words
  <2> QED BY <1>2, <2>3, <2>4, IdsAssumption, WordAssumption DEF Id, Bits
<1> QED BY <1>1, <1>2

LEMMA LpiInvInit == Init => Inv
BY WordsPositive DEF Init, Inv, TypeOK, HintInv, LoopInv, Words, None

LEMMA LpiInvNext == Inv /\ [Next]_vars => Inv'
<1> SUFFICES ASSUME Inv, [Next]_vars PROVE Inv'
    OBVIOUS
<1> USE DEF Inv
<1>1. CASE Alloc
    BY <1>1, WordsPositive DEF Alloc, TypeOK, HintInv, LoopInv, Exhausted, Words
<1>2. CASE Skip
  <2>1. Scanned \in Words /\ Exhausted(Scanned) /\ (hint + i < words => Scanned = hint + i)
    BY <1>2, ScannedWord, PassedIsExhausted DEF Skip
  <2>2. TypeOK' /\ HintInv'
    BY <1>2, WordsPositive DEF Skip, TypeOK, HintInv, Exhausted
  <2>3. LoopInv'
    BY <1>2, <2>1, WordsPositive DEF Skip, TypeOK, LoopInv, Exhausted, Words
  <2> QED BY <2>2, <2>3
<1>3. CASE SkipTail
  <2>1. /\ Scanned \in Words /\ Exhausted(Scanned)
        /\ hint + i < words => Scanned = hint + i
    BY <1>3, ScannedWord, PassedIsExhausted DEF SkipTail
  <2>2. Scanned = words - 1
    BY <1>3, <2>1, TailIsLast, LowestZeroBit DEF SkipTail, TypeOK
  <2>3. \A w \in Words : Exhausted(w)
    BY <1>3, <2>1, <2>2, WordsPositive DEF SkipTail, LoopInv, TypeOK, Words
  <2> QED BY <1>3, <2>1, <2>3, WordsPositive DEF SkipTail, TypeOK, HintInv, LoopInv, Exhausted
<1>4. CASE Found
  <2>1. Scanned \in Words /\ (hint + i < words => Scanned = hint + i)
    BY ScannedWord
  <2>2. PICK b \in Bits : /\ bitmap' = [bitmap EXCEPT ![Scanned] = @ \cup {b}]
                         /\ ret' = Id(Scanned, b)
                         /\ live' = live \cup {Id(Scanned, b)}
    BY <1>4, <2>1, LowestZeroBit, Zenon DEF Found, TypeOK
  <2>3. Id(Scanned, b) \in Int
    BY <2>1, IdsAssumption, WordAssumption, WordsPositive DEF Id, Words, Bits
  <2>4. TypeOK' /\ LoopInv'
    <3>1. bitmap' \in [Words -> SUBSET Bits]
        BY <2>1, <2>2 DEF TypeOK
    <3>2. live' \subseteq Int /\ ret' \in Int
        BY <2>2, <2>3, Zenon DEF TypeOK
    <3>3. hint' \in Words /\ op' = "idle" /\ i' = 0 /\ 0 \in 0 .. words
        BY <1>4, <2>1, WordsPositive DEF Found
    <3> QED BY <3>1, <3>2, <3>3 DEF TypeOK, LoopInv
  <2>5. \A w \in Words : w < Scanned => Exhausted(w)
    BY <1>4, <2>1, WordsPositive DEF Found, LoopInv, TypeOK, Words
  <2>6. \A w \in Words : bitmap[w] \subseteq bitmap'[w]
    BY <2>1, <2>2 DEF TypeOK
  <2> QED BY <1>4, <2>4, <2>5, <2>6 DEF Found, HintInv, Exhausted
<1>5. CASE NotFound
    BY <1>5, WordsPositive DEF NotFound, TypeOK, HintInv, LoopInv, Exhausted, None
<1>6. ASSUME NEW id \in Ids, Reserve(id) PROVE Inv'
  <2>1. WordOf(id) \in Words /\ BitOf(id) \in Bits
    BY WordOfId
  <2>2. TypeOK' /\ LoopInv'
    BY <1>6, <2>1 DEF Reserve, TypeOK, LoopInv, Ids
  <2>3. \A w \in Words : bitmap[w] \subseteq bitmap'[w]
    BY <1>6, <2>1 DEF Reserve, TypeOK
  <2> QED BY <1>6, <2>2, <2>3 DEF Reserve, HintInv, Exhausted
<1>7. ASSUME NEW id \in Ids, Free(id) PROVE Inv'
  <2>1. WordOf(id) \in Words /\ BitOf(id) \in Bits
    BY WordOfId
  <2>2. hint' \in Words /\ hint' <= WordOf(id) /\ hint' <= hint
    BY <1>7, <2>1 DEF Free, Lowered, TypeOK, Words
  <2>3. TypeOK' /\ LoopInv'
    BY <1>7, <2>1, <2>2 DEF Free, TypeOK, LoopInv
  <2>4. \A w \in Words : w < hint' => bitmap'[w] = bitmap[w] /\ w < hint
    BY <1>7, <2>1, <2>2 DEF Free, TypeOK, Words
  <2> QED BY <1>7, <2>3, <2>4 DEF Free, HintInv, Exhausted
<1>8. CASE UNCHANGED vars
    BY <1>8 DEF vars, TypeOK, HintInv, LoopInv, Exhausted
<1> QED BY <1>1, <1>2, <1>3, <1>4, <1>5, <1>6, <1>7, <1>8 DEF Next

\* An id has one bit, and a bit one id.
LEMMA Decompose ==
    ASSUME NEW B \in Nat \ {0}, NEW n \in Nat
    PROVE  n = (n \div B) * B + (n % B) /\ n \div B \in Nat /\ n % B \in 0 .. B - 1
OBVIOUS

LEMMA Unique ==
    ASSUME NEW B \in Nat \ {0}, NEW w \in Nat, NEW v \in Nat, NEW b \in 0 .. B - 1, NEW a \in 0 .. B - 1,
           w * B + b = v * B + a
    PROVE  w = v /\ b = a
<1>1. ASSUME w < v PROVE FALSE
  <2>1. w + 1 <= v
    BY <1>1
  <2>2. (w + 1) * B <= v * B
    BY <2>1
  <2>3. (w + 1) * B = w * B + B
    OBVIOUS
  <2> QED BY <2>2, <2>3
<1>2. ASSUME v < w PROVE FALSE
  <2>1. v + 1 <= w
    BY <1>2
  <2>2. (v + 1) * B <= w * B
    BY <2>1
  <2>3. (v + 1) * B = v * B + B
    OBVIOUS
  <2> QED BY <2>2, <2>3
<1>3. w = v
    BY <1>1, <1>2
<1> QED BY <1>3

LEMMA IdOfBit ==
    ASSUME NEW w \in Words, NEW b \in Bits
    PROVE  /\ WordOf(Id(w, b)) = w /\ BitOf(Id(w, b)) = b
           /\ Id(w, b) \in Int /\ Id(w, b) >= base_id
<1> DEFINE n == w * WordBits + b
<1>1. w \in Nat /\ b \in 0 .. WordBits - 1 /\ WordBits \in Nat \ {0} /\ base_id \in Nat
    BY WordsPositive, IdsAssumption, WordAssumption DEF Words, Bits
<1>2. n \in Nat /\ Id(w, b) = base_id + n /\ Id(w, b) - base_id = n
    BY <1>1 DEF Id
<1>3. n = (n \div WordBits) * WordBits + (n % WordBits) /\ n \div WordBits \in Nat /\ n % WordBits \in 0 .. WordBits - 1
    BY <1>1, <1>2, Decompose, Zenon
<1> DEFINE q == n \div WordBits
           r == n % WordBits
<1>4. q \in Nat /\ r \in 0 .. WordBits - 1 /\ w * WordBits + b = q * WordBits + r
    BY <1>3
<1> HIDE DEF q, r
<1>5. q = w /\ r = b
    BY <1>1, <1>4, Unique
<1> QED BY <1>1, <1>2, <1>5 DEF WordOf, BitOf, q, r

LEMMA LiveNext ==
    ASSUME Inv, LiveAreBits, [Next]_vars
    PROVE  LiveAreBits'
<1>0. \A id \in Ids : WordOf(id) \in Words /\ BitOf(id) \in Bits /\ Id(WordOf(id), BitOf(id)) = id
  <2> SUFFICES ASSUME NEW id \in Ids PROVE Id(WordOf(id), BitOf(id)) = id
      BY WordOfId
  <2>1. id - base_id \in Nat /\ id \in Int /\ base_id \in Int /\ WordBits \in Nat \ {0}
      BY IdsAssumption, WordAssumption DEF Ids
  <2>2. id - base_id = ((id - base_id) \div WordBits) * WordBits + ((id - base_id) % WordBits)
      BY <2>1, Decompose
  <2>3. ((id - base_id) \div WordBits) * WordBits \in Int /\ (id - base_id) % WordBits \in Int
      BY <2>1
  <2> QED BY <2>1, <2>2, <2>3 DEF Id, WordOf, BitOf
<1>1. ASSUME NEW w \in Words, NEW b \in Bits, Id(w, b) <= max_id,
             bitmap' = [bitmap EXCEPT ![w] = @ \cup {b}], live' = live \cup {Id(w, b)}
      PROVE  LiveAreBits'
  <2>1. Id(w, b) \in Ids /\ WordOf(Id(w, b)) = w /\ BitOf(Id(w, b)) = b
      BY <1>1, IdOfBit, IdsAssumption DEF Ids
  <2>2. \A id \in Ids : BitOf(id) \in bitmap'[WordOf(id)] <=> BitOf(id) \in bitmap[WordOf(id)] \/ id = Id(w, b)
      BY <1>0, <1>1, <2>1 DEF Inv, TypeOK
  <2> QED BY <1>1, <2>1, <2>2 DEF LiveAreBits
<1>2. CASE Found
  <2>1. Scanned \in Words
      BY ScannedWord DEF Inv
  <2>2. LowestZero(bitmap[Scanned]) \in Bits
      BY <1>2, <2>1, LowestZeroBit DEF Found, Inv, TypeOK
  <2> QED BY <1>1, <1>2, <2>1, <2>2, Zenon DEF Found
<1>3. ASSUME NEW id \in Ids, Reserve(id)
      PROVE  LiveAreBits'
  <2>1. WordOf(id) \in Words /\ BitOf(id) \in Bits /\ Id(WordOf(id), BitOf(id)) = id /\ id <= max_id
      BY <1>0, IdsAssumption DEF Ids
  <2> QED BY <1>1, <1>3, <2>1, Zenon DEF Reserve
<1>4. ASSUME NEW id \in Ids, Free(id)
      PROVE  LiveAreBits'
  <2>1. \A k \in Ids : WordOf(k) = WordOf(id) /\ BitOf(k) = BitOf(id) => k = id
      BY <1>0
  <2>2. \A k \in Ids : BitOf(k) \in bitmap'[WordOf(k)] <=> BitOf(k) \in bitmap[WordOf(k)] /\ k # id
      BY <1>0, <1>4, <2>1 DEF Free, Inv, TypeOK
  <2> QED BY <1>4, <2>2 DEF Free, LiveAreBits
<1>5. CASE Alloc \/ Skip \/ SkipTail \/ NotFound \/ UNCHANGED vars
    BY <1>5 DEF Alloc, Skip, SkipTail, NotFound, vars, LiveAreBits
<1> QED BY <1>2, <1>3, <1>4, <1>5 DEF Next
-----------------------------------------------------------------------------
(* The ITS command queue *)

\* Offsets into the ring wrap at most once.
LEMMA Wrap ==
    ASSUME NEW n \in Nat \ {0}, NEW x \in 0 .. 2 * n - 1
    PROVE  x % n = IF x < n THEN x ELSE x - n
<1> DEFINE q == x \div n
           r == x % n
<1>1. q \in Nat /\ r \in 0 .. n - 1 /\ x = n * q + r
    OBVIOUS
<1> HIDE DEF q, r
<1>2. q < 2
  <2> SUFFICES ASSUME q >= 2 PROVE FALSE
      BY <1>1
  <2>1. n * q >= n * 2
      BY <1>1
  <2> QED BY <1>1, <2>1
<1>3. r = IF x < n THEN x ELSE x - n
  <2>1. CASE q = 0
      BY <1>1, <2>1
  <2>2. CASE q = 1
      BY <1>1, <2>2
  <2> QED BY <1>1, <1>2, <2>1, <2>2
<1> QED BY <1>3 DEF r

\* The number of commands that wait, and where the one after them goes.
LEMMA RingDistance ==
    ASSUME NEW n \in Nat \ {0, 1}, NEW a \in 0 .. n - 1, NEW b \in 0 .. n - 1
    PROVE  /\ (a - b + n) % n = IF b <= a THEN a - b ELSE a - b + n
           /\ (a + 1) % n = IF a + 1 < n THEN a + 1 ELSE 0
           /\ \A k \in 1 .. n : (b + k - 1) % n = IF b + k - 1 < n THEN b + k - 1 ELSE b + k - 1 - n
<1>1. (a - b + n) % n = IF b <= a THEN a - b ELSE a - b + n
  <2> DEFINE x == a - b + n
  <2>1. x \in 0 .. 2 * n - 1
      OBVIOUS
  <2>2. (x < n <=> ~(b <= a)) /\ x - n = a - b
      OBVIOUS
  <2> HIDE DEF x
  <2>3. x % n = IF x < n THEN x ELSE x - n
      BY <2>1, Wrap, Zenon
  <2> QED BY <2>2, <2>3 DEF x
<1>2. (a + 1) % n = IF a + 1 < n THEN a + 1 ELSE 0
  <2> DEFINE x == a + 1
  <2>1. x \in 0 .. 2 * n - 1 /\ (~(x < n) => x - n = 0)
      OBVIOUS
  <2> HIDE DEF x
  <2>2. x % n = IF x < n THEN x ELSE 0
      BY <2>1, Wrap, Zenon
  <2> QED BY <2>2 DEF x
<1>3. ASSUME NEW k \in 1 .. n
      PROVE  (b + k - 1) % n = IF b + k - 1 < n THEN b + k - 1 ELSE b + k - 1 - n
  <2> DEFINE x == b + k - 1
  <2>1. x \in 0 .. 2 * n - 1
      OBVIOUS
  <2> HIDE DEF x
  <2>2. x % n = IF x < n THEN x ELSE x - n
      BY <2>1, Wrap, Zenon
  <2> QED BY <2>2 DEF x
<1> QED BY <1>1, <1>2, <1>3

RingCount == IF creadr <= cwriter THEN cwriter - creadr ELSE cwriter - creadr + num_entries
RingPlace(k) == IF creadr + k - 1 < num_entries THEN creadr + k - 1 ELSE creadr + k - 1 - num_entries

\* The commands that wait, in the order they are executed.
WaitingFacts ==
    /\ RingCount \in 0 .. num_entries - 1
    /\ Queue!Waiting \in Seq(Queue!Commands \cup {Queue!Nothing}) /\ Len(Queue!Waiting) = RingCount
    /\ \A k \in 1 .. RingCount : Queue!Waiting[k] = ring[RingPlace(k)]

LEMMA WaitingIs == Queue!TypeOK => WaitingFacts
<1> SUFFICES ASSUME Queue!TypeOK PROVE WaitingFacts
    OBVIOUS
<1>1. creadr \in 0 .. num_entries - 1 /\ cwriter \in 0 .. num_entries - 1
    BY DEF Queue!TypeOK, Queue!Slots
<1>2. RingCount \in 0 .. num_entries - 1 /\ RingCount = (cwriter - creadr + num_entries) % num_entries
    BY <1>1, RingDistance, QueueAssumption DEF RingCount
<1>3. \A k \in 1 .. RingCount : RingPlace(k) = (creadr + k - 1) % num_entries /\ RingPlace(k) \in Queue!Slots
    BY <1>1, <1>2, RingDistance, QueueAssumption DEF RingPlace, Queue!Slots
<1>4. Queue!Waiting = [k \in 1 .. RingCount |-> ring[RingPlace(k)]]
    BY <1>2, <1>3 DEF Queue!Waiting
<1>5. \A k \in 1 .. RingCount : ring[RingPlace(k)] \in Queue!Commands \cup {Queue!Nothing}
    BY <1>3 DEF Queue!TypeOK
<1> QED BY <1>2, <1>4, <1>5 DEF WaitingFacts

LEMMA WaitingIsNext == Queue!TypeOK' => WaitingFacts'
BY WaitingIs, PTL

LEMMA QueueIInvInit ==
    ASSUME Queue!Init
    PROVE  Queue!IInv
<1>1. 0 \in Queue!Slots /\ 0 \in 0 .. MaxCmds
    BY QueueAssumption DEF Queue!Slots
<1>2. Queue!TypeOK
  <2>1. /\ executed = <<>> /\ executed \in Seq(Queue!Commands \cup {Queue!Nothing})
        /\ ring \in [Queue!Slots -> Queue!Commands \cup {Queue!Nothing}]
      BY DEF Queue!Init
  <2> QED BY <1>1, <2>1, Zenon DEF Queue!Init, Queue!TypeOK
<1>3. Queue!RingInv
    BY DEF Queue!Init, Queue!RingInv
<1> QED BY <1>2, <1>3 DEF Queue!IInv

LEMMA QueueIInvNext ==
    ASSUME Queue!IInv, [Queue!Next]_(Queue!vars)
    PROVE  Queue!IInv'
<1> DEFINE succ(x) == (x + 1) % num_entries
<1>1. \A x \in Queue!Slots : succ(x) \in Queue!Slots /\ succ(x) # x /\ \A y \in Queue!Slots : succ(x) = succ(y) => x = y
  <2>1. \A x \in Queue!Slots : succ(x) = IF x + 1 < num_entries THEN x + 1 ELSE 0
      BY RingDistance, QueueAssumption DEF Queue!Slots
  <2> HIDE DEF succ
  <2> QED BY <2>1, QueueAssumption DEF Queue!Slots
<1>2. /\ write_offset = cwriter
      /\ \A c \in CPUs : queue_pc[c] # "idle" => count[c] > 0
      /\ \A c \in CPUs : queue_pc[c] = "publish" => next[c] = succ(write_offset) /\ next[c] # creadr
    BY DEF Queue!IInv, Queue!RingInv
<1> USE DEF Queue!Goto, Queue!Return, Queue!Cmd
<1>3. CASE UNCHANGED Queue!vars
    BY <1>3 DEF Queue!IInv, Queue!TypeOK, Queue!RingInv, Queue!vars
<1>4. CASE Queue!ItsExecutes
  <2>1. creadr' = succ(creadr) /\ creadr # cwriter
      BY <1>4 DEF Queue!ItsExecutes
  <2>2. executed' \in Seq(Queue!Commands \cup {Queue!Nothing})
      BY <1>4 DEF Queue!ItsExecutes, Queue!IInv, Queue!TypeOK
  <2> HIDE DEF succ
  <2>3. Queue!TypeOK'
      BY <1>1, <1>4, <2>1, <2>2 DEF Queue!ItsExecutes, Queue!IInv, Queue!TypeOK
  <2>4. \A c \in CPUs : queue_pc[c] = "publish" => next[c] # creadr'
      BY <1>1, <1>2, <2>1 DEF Queue!IInv, Queue!TypeOK
  <2> QED BY <1>4, <2>3, <2>4 DEF Queue!ItsExecutes, Queue!IInv, Queue!RingInv
<1>5. CASE Queue!ItsStalls
    BY <1>5 DEF Queue!ItsStalls, Queue!IInv, Queue!TypeOK, Queue!RingInv
<1>6. ASSUME NEW c \in CPUs, Queue!Begin(c)
      PROVE  Queue!IInv'
  <2>1. next' = [next EXCEPT ![c] = succ(write_offset)] /\ succ(write_offset) \in Queue!Slots
      BY <1>1, <1>6 DEF Queue!Begin, Queue!IInv, Queue!TypeOK
  <2>2. /\ UNCHANGED <<ring, write_offset, cwriter, creadr, stalled, executed>>
        /\ \A e \in CPUs : queue_pc[e] = "idle"
        /\ queue_pc' = [queue_pc EXCEPT ![c] = "check"]
        /\ count[c] < MaxCmds /\ count' = [count EXCEPT ![c] = @ + 1]
      BY <1>6 DEF Queue!Begin, Queue!Locked, Queue!IInv, Queue!TypeOK
  <2>3. count' \in [CPUs -> 0 .. MaxCmds] /\ count'[c] > 0
      BY <2>2, QueueAssumption DEF Queue!IInv, Queue!TypeOK
  <2>4. Queue!TypeOK'
      BY <2>1, <2>2, <2>3 DEF Queue!IInv, Queue!TypeOK
  <2>5. next'[c] = succ(write_offset)
      BY <2>1 DEF Queue!IInv, Queue!TypeOK
  <2> QED BY <2>2, <2>3, <2>4, <2>5 DEF Queue!IInv, Queue!TypeOK, Queue!RingInv
<1>7. ASSUME NEW c \in CPUs, Queue!CommandQueueFull(c) \/ Queue!SpinDone(c) \/ Queue!HardwareStalled(c) \/ Queue!CommandTimeout(c)
      PROVE  Queue!IInv'
  <2>1. /\ queue_pc' = [queue_pc EXCEPT ![c] = "idle"]
        /\ UNCHANGED <<ring, write_offset, cwriter, creadr, stalled, executed, count, next>>
      BY <1>7 DEF Queue!CommandQueueFull, Queue!SpinDone, Queue!HardwareStalled, Queue!CommandTimeout
  <2> QED BY <2>1 DEF Queue!IInv, Queue!TypeOK, Queue!RingInv
<1>8. ASSUME NEW c \in CPUs, Queue!Write(c)
      PROVE  Queue!IInv'
  <2>1. Queue!Cmd(c) \in Queue!Commands
    <3>1. count[c] \in 1 .. MaxCmds
      <4>1. count[c] \in 0 .. MaxCmds /\ count[c] > 0
          BY <1>2, <1>8 DEF Queue!Write, Queue!IInv, Queue!TypeOK
      <4> QED BY <4>1, QueueAssumption
    <3> QED BY <3>1, QueueAssumption DEF Queue!Commands
  <2>2. Queue!TypeOK'
      BY <1>8, <2>1 DEF Queue!Write, Queue!IInv, Queue!TypeOK
  <2> QED BY <1>8, <2>2 DEF Queue!Write, Queue!IsFull, Queue!IInv, Queue!TypeOK, Queue!RingInv
<1>9. ASSUME NEW c \in CPUs, Queue!Publish(c)
      PROVE  Queue!IInv'
  <2>1. Queue!TypeOK'
      BY <1>9 DEF Queue!Publish, Queue!IInv, Queue!TypeOK
  <2>2. stalled' => creadr' # cwriter'
      BY <1>9 DEF Queue!Publish, Queue!IInv, Queue!RingInv
  <2> QED BY <1>9, <2>1, <2>2 DEF Queue!Publish, Queue!IInv, Queue!TypeOK, Queue!RingInv
<1>10. ASSUME NEW c \in CPUs, Queue!SpinRetry(c)
      PROVE  Queue!IInv'
    BY <1>10, Zenon DEF Queue!SpinRetry, Queue!IInv, Queue!TypeOK, Queue!RingInv
<1> QED BY <1>3, <1>4, <1>5, <1>6, <1>7, <1>8, <1>9, <1>10 DEF Queue!Next

PusherFacts ==
    /\ \A c \in CPUs : queue_pc[c] = "spin" => Queue!Pusher = c
    /\ (\A c \in CPUs : queue_pc[c] # "spin") => Queue!Pusher = "nobody"

LEMMA PusherIs == Queue!IInv => PusherFacts
BY DEF Queue!IInv, Queue!RingInv, Queue!Pusher, PusherFacts

LEMMA PusherIsNext == Queue!IInv' => PusherFacts'
BY PusherIs, PTL

LEMMA SameSeq ==
    ASSUME NEW S, NEW p \in Seq(S), NEW q \in Seq(S), Len(p) = Len(q), \A k \in 1 .. Len(p) : p[k] = q[k]
    PROVE  p = q
OBVIOUS

LEMMA RingStep ==
    ASSUME Queue!IInv, Queue!IInv', [Queue!Next]_(Queue!vars)
    PROVE  [Queue!ItsNext]_<<Queue!Waiting, Queue!Pusher, executed, result>>
<1> DEFINE Cmds == Queue!Commands \cup {Queue!Nothing}
<1>1. WaitingFacts /\ WaitingFacts' /\ PusherFacts /\ PusherFacts'
    BY WaitingIs, WaitingIsNext, PusherIs, PusherIsNext DEF Queue!IInv
<1>2. /\ creadr \in 0 .. num_entries - 1 /\ cwriter \in 0 .. num_entries - 1 /\ num_entries \in Nat \ {0, 1}
      /\ write_offset = cwriter
    BY QueueAssumption DEF Queue!IInv, Queue!TypeOK, Queue!RingInv, Queue!Slots
<1>3. Queue!Waiting = <<>> <=> RingCount = 0
    BY <1>1 DEF WaitingFacts
<1>4. RingCount = 0 <=> creadr = cwriter
    BY <1>2 DEF RingCount
<1>5. Queue!Its!Nobody = "nobody"
    BY DEF Queue!Its!Nobody
<1>6. ASSUME UNCHANGED <<ring, cwriter, creadr>>
      PROVE  UNCHANGED Queue!Waiting
    BY <1>6 DEF Queue!Waiting
<1>7. ASSUME NEW c \in CPUs, queue_pc[c] # "idle"
      PROVE  \A d \in CPUs : d # c => queue_pc[d] = "idle"
    BY <1>7 DEF Queue!IInv, Queue!TypeOK, Queue!RingInv
<1>8. CASE UNCHANGED Queue!vars
    BY <1>8 DEF Queue!vars, Queue!Waiting, Queue!Pusher
<1>9. CASE Queue!ItsExecutes
  <2>1. creadr # cwriter /\ creadr' = (creadr + 1) % num_entries /\ UNCHANGED <<ring, cwriter, queue_pc, result>>
      BY <1>9 DEF Queue!ItsExecutes
  <2>2. creadr' = IF creadr + 1 < num_entries THEN creadr + 1 ELSE 0
      BY <1>2, <2>1, RingDistance
  <2>3. RingCount # 0 /\ RingCount' = RingCount - 1 /\ RingPlace(1) = creadr
      BY <1>2, <2>1, <2>2 DEF RingCount, RingPlace
  <2>4. \A k \in 1 .. RingCount' : RingPlace(k)' = RingPlace(k + 1)
    <3>1. RingCount' \in 0 .. num_entries - 1
        BY <1>1 DEF WaitingFacts
    <3> SUFFICES ASSUME NEW k \in 1 .. RingCount'
                 PROVE  RingPlace(k)' = RingPlace(k + 1)
        OBVIOUS
    <3>2. k \in Nat /\ k <= num_entries
        BY <1>2, <3>1
    <3> QED BY <1>2, <2>2, <3>2 DEF RingPlace
  <2>5. Queue!Waiting # <<>> /\ Head(Queue!Waiting) = ring[creadr]
      BY <1>1, <1>3, <2>3 DEF WaitingFacts
  <2>6. Queue!Waiting' = Tail(Queue!Waiting)
    <3>1. Tail(Queue!Waiting) \in Seq(Cmds) /\ Len(Tail(Queue!Waiting)) = RingCount - 1
        BY <1>1, <2>5 DEF WaitingFacts
    <3>2. \A k \in 1 .. RingCount - 1 : Tail(Queue!Waiting)[k] = Queue!Waiting[k + 1]
        BY <1>1, <2>5 DEF WaitingFacts
    <3>3. \A k \in 1 .. RingCount - 1 : Queue!Waiting'[k] = Queue!Waiting[k + 1]
        BY <1>1, <2>1, <2>3, <2>4 DEF WaitingFacts
    <3> QED BY <1>1, <2>3, <3>1, <3>2, <3>3, SameSeq DEF WaitingFacts
  <2>7. Queue!Pusher' = Queue!Pusher
      BY <2>1 DEF Queue!Pusher
  <2> QED BY <1>9, <2>5, <2>6, <2>7 DEF Queue!ItsExecutes, Queue!ItsNext, Queue!Its!ItsTakes
<1>10. CASE Queue!ItsStalls
    BY <1>10, <1>6 DEF Queue!ItsStalls, Queue!Pusher
<1>11. ASSUME NEW c \in CPUs, Queue!Begin(c)
      PROVE  Queue!ItsNext
  <2>1. \A d \in CPUs : queue_pc[d] # "spin" /\ queue_pc'[d] # "spin"
      BY <1>11 DEF Queue!Begin, Queue!Locked, Queue!Goto, Queue!IInv, Queue!TypeOK
  <2>2. UNCHANGED <<Queue!Waiting, Queue!Pusher, executed>>
      BY <1>1, <1>6, <1>11, <2>1 DEF Queue!Begin, PusherFacts
  <2> QED BY <1>11, <2>2 DEF Queue!Begin, Queue!ItsNext
<1>12. ASSUME NEW c \in CPUs, Queue!CommandQueueFull(c)
      PROVE  Queue!ItsNext
  <2>1. \A d \in CPUs : queue_pc[d] # "spin" /\ queue_pc'[d] # "spin"
      BY <1>7, <1>12 DEF Queue!CommandQueueFull, Queue!Goto, Queue!IInv, Queue!TypeOK
  <2>2. UNCHANGED <<Queue!Waiting, Queue!Pusher, executed>> /\ Queue!Pusher = "nobody"
      BY <1>1, <1>6, <1>12, <2>1 DEF Queue!CommandQueueFull, PusherFacts
  <2>3. creadr = (cwriter + 1) % num_entries
      BY <1>12 DEF Queue!CommandQueueFull, Queue!IsFull, Queue!Goto, Queue!IInv, Queue!RingInv
  <2>4. creadr = IF cwriter + 1 < num_entries THEN cwriter + 1 ELSE 0
      BY <1>2, <2>3, RingDistance
  <2>5. Len(Queue!Waiting) = num_entries - 1
      BY <1>1, <1>2, <2>4 DEF WaitingFacts, RingCount
  <2> QED BY <1>5, <1>12, <2>2, <2>5 DEF Queue!CommandQueueFull, Queue!ItsNext, Queue!Its!PushFull
<1>13. ASSUME NEW c \in CPUs, Queue!Write(c)
      PROVE  UNCHANGED <<Queue!Waiting, Queue!Pusher, executed, result>>
  <2>1. UNCHANGED <<cwriter, creadr, executed, result>> /\ ring' = [ring EXCEPT ![cwriter] = Queue!Cmd(c)]
      BY <1>2, <1>13 DEF Queue!Write
  <2>2. RingCount' = RingCount /\ \A k \in 1 .. RingCount : RingPlace(k)' = RingPlace(k) /\ RingPlace(k) # cwriter /\ RingPlace(k) \in Queue!Slots
      BY <1>1, <1>2, <2>1 DEF RingCount, RingPlace, Queue!Slots, WaitingFacts
  <2>3. \A k \in 1 .. RingCount : Queue!Waiting'[k] = Queue!Waiting[k]
      BY <1>1, <2>1, <2>2 DEF WaitingFacts, Queue!IInv, Queue!TypeOK
  <2>4. Queue!Waiting' = Queue!Waiting
      BY <1>1, <2>2, <2>3, SameSeq DEF WaitingFacts
  <2>5. \A d \in CPUs : queue_pc[d] # "spin" /\ queue_pc'[d] # "spin"
      BY <1>7, <1>13 DEF Queue!Write, Queue!Goto, Queue!IInv, Queue!TypeOK
  <2> QED BY <1>1, <2>1, <2>4, <2>5 DEF PusherFacts
<1>14. ASSUME NEW c \in CPUs, Queue!Publish(c)
      PROVE  Queue!ItsNext
  <2>1. /\ cwriter' = (cwriter + 1) % num_entries /\ cwriter' # creadr /\ ring[cwriter] = Queue!Cmd(c)
        /\ UNCHANGED <<ring, creadr, executed, result, count>>
        /\ queue_pc[c] = "publish" /\ queue_pc' = [queue_pc EXCEPT ![c] = "spin"]
      BY <1>2, <1>14 DEF Queue!Publish, Queue!Goto, Queue!IInv, Queue!RingInv
  <2>2. cwriter' = IF cwriter + 1 < num_entries THEN cwriter + 1 ELSE 0
      BY <1>2, <2>1, RingDistance
  <2>3. RingCount' = RingCount + 1 /\ RingCount < num_entries - 1 /\ RingPlace(RingCount') = cwriter
    <3>1. RingCount' = RingCount + 1 /\ RingCount < num_entries - 1 /\ RingCount \in Nat
        BY <1>2, <2>1, <2>2 DEF RingCount
    <3>2. RingPlace(RingCount + 1) = cwriter
        BY <1>2 DEF RingCount, RingPlace
    <3> QED BY <3>1, <3>2
  <2>4. \A k \in 1 .. RingCount' : RingPlace(k)' = RingPlace(k)
      BY <2>1 DEF RingPlace
  <2>5. Queue!Cmd(c) \in Cmds
    <3>1. cwriter \in Queue!Slots
        BY DEF Queue!IInv, Queue!TypeOK
    <3> QED BY <2>1, <3>1 DEF Queue!IInv, Queue!TypeOK
  <2>6. Queue!Waiting' = Append(Queue!Waiting, Queue!Cmd(c))
    <3>1. Append(Queue!Waiting, Queue!Cmd(c)) \in Seq(Cmds) /\ Len(Append(Queue!Waiting, Queue!Cmd(c))) = RingCount + 1
        BY <1>1, <2>5 DEF WaitingFacts
    <3>2. \A k \in 1 .. RingCount + 1 : Append(Queue!Waiting, Queue!Cmd(c))[k] = IF k = RingCount + 1 THEN Queue!Cmd(c) ELSE Queue!Waiting[k]
        BY <1>1, <2>5 DEF WaitingFacts
    <3>3. \A k \in 1 .. RingCount + 1 : Queue!Waiting'[k] = IF k = RingCount + 1 THEN Queue!Cmd(c) ELSE Queue!Waiting[k]
      <4> SUFFICES ASSUME NEW k \in 1 .. RingCount + 1
                   PROVE  Queue!Waiting'[k] = IF k = RingCount + 1 THEN Queue!Cmd(c) ELSE Queue!Waiting[k]
          OBVIOUS
      <4>1. Queue!Waiting'[k] = ring[RingPlace(k)]
          BY <1>1, <2>1, <2>3, <2>4 DEF WaitingFacts
      <4>2. k # RingCount + 1 => Queue!Waiting[k] = ring[RingPlace(k)]
          BY <1>1 DEF WaitingFacts
      <4> QED BY <2>1, <2>3, <4>1, <4>2
    <3> QED BY <1>1, <2>3, <3>1, <3>2, <3>3, SameSeq DEF WaitingFacts
  <2>7. Queue!Pusher = "nobody" /\ Queue!Pusher' = c
    <3>1. (\A d \in CPUs : queue_pc[d] # "spin") /\ queue_pc'[c] = "spin"
        BY <1>7, <2>1, Zenon DEF Queue!IInv, Queue!TypeOK
    <3> QED BY <1>1, <3>1 DEF PusherFacts
  <2>8. Queue!Its!Push(c, Queue!Cmd(c))
      BY <1>1, <1>5, <2>3, <2>6, <2>7 DEF Queue!Its!Push, WaitingFacts
  <2> QED BY <2>1, <2>8 DEF Queue!ItsNext
<1>15. ASSUME NEW c \in CPUs, Queue!SpinDone(c) \/ Queue!HardwareStalled(c) \/ Queue!CommandTimeout(c)
      PROVE  Queue!ItsNext
  <2>1. /\ UNCHANGED <<ring, cwriter, creadr, executed>> /\ queue_pc[c] = "spin" /\ queue_pc' = [queue_pc EXCEPT ![c] = "idle"]
        /\ next[c] = cwriter
      BY <1>15 DEF Queue!SpinDone, Queue!HardwareStalled, Queue!CommandTimeout, Queue!Goto, Queue!IInv, Queue!RingInv
  <2>2. Queue!Waiting' = Queue!Waiting /\ Queue!Pusher = c
      BY <1>1, <1>6, <2>1 DEF PusherFacts
  <2>3. Queue!Pusher' = "nobody"
    <3>1. \A d \in CPUs : queue_pc'[d] # "spin"
        BY <1>7, <2>1, Zenon DEF Queue!IInv, Queue!TypeOK
    <3> QED BY <1>1, <3>1 DEF PusherFacts
  <2>4. CASE Queue!SpinDone(c)
    <3>1. Queue!Waiting = <<>> /\ Queue!Return(c, "Ok")
        BY <1>3, <1>4, <2>1, <2>4 DEF Queue!SpinDone, Queue!Completed
    <3> QED BY <1>5, <2>1, <2>2, <2>3, <3>1 DEF Queue!ItsNext, Queue!Its!PushOk
  <2>5. CASE Queue!HardwareStalled(c) \/ Queue!CommandTimeout(c)
    <3>1. Queue!Waiting # <<>> /\ (Queue!Return(c, "CommandTimeout") \/ Queue!Return(c, "HardwareStalled"))
        BY <1>3, <1>4, <2>1, <2>5 DEF Queue!HardwareStalled, Queue!CommandTimeout, Queue!Completed, Queue!IInv, Queue!RingInv
    <3>2. Queue!Its!PushGivesUp(c)
        BY <1>5, <2>2, <2>3, <3>1 DEF Queue!Its!PushGivesUp
    <3> QED BY <2>1, <3>1, <3>2 DEF Queue!ItsNext
  <2> QED BY <1>15, <2>4, <2>5
<1>16. ASSUME NEW c \in CPUs, Queue!SpinRetry(c)
      PROVE  UNCHANGED <<Queue!Waiting, Queue!Pusher, executed, result>>
    BY <1>6, <1>16 DEF Queue!SpinRetry, Queue!Pusher
<1> QED BY <1>8, <1>9, <1>10, <1>11, <1>12, <1>13, <1>14, <1>15, <1>16 DEF Queue!Next

LEMMA RingStart ==
    ASSUME Queue!Init
    PROVE  Queue!Its!ItsInit /\ executed = <<>>
<1>1. Queue!IInv
    BY QueueIInvInit, QueueAssumption
<1>2. WaitingFacts /\ PusherFacts
    BY <1>1, WaitingIs, PusherIs DEF Queue!IInv
<1>3. RingCount = 0 /\ \A c \in CPUs : queue_pc[c] # "spin"
    BY DEF Queue!Init, RingCount
<1>4. Queue!Waiting = <<>> /\ Queue!Pusher = "nobody"
    BY <1>2, <1>3 DEF WaitingFacts, PusherFacts
<1> QED BY <1>4 DEF Queue!Init, Queue!Its!ItsInit, Queue!Its!Nobody
-----------------------------------------------------------------------------
(* What the commands of the parts that use the queue have in common *)

LEMMA TailFacts ==
    ASSUME NEW S, NEW q \in Seq(S), q # <<>>
    PROVE  /\ Head(q) = q[1]
           /\ Len(q) \in Nat \ {0} /\ Len(Tail(q)) = Len(q) - 1
           /\ \A n \in 1 .. Len(q) : q[n] \in S
           /\ \A n \in 1 .. Len(Tail(q)) : Tail(q)[n] = q[n + 1]
<1>1. Len(q) \in Nat \ {0}
    OBVIOUS
<1> QED BY <1>1
-----------------------------------------------------------------------------
(* The translation tables *)

LEMMA IttIInvInit ==
    ASSUME Itt!None \notin Blocks, Itt!Nobody \notin Devices, Itt!Init
    PROVE  Itt!IInv
<1>1. queue = <<>> /\ Len(queue) = 0
    BY DEF Itt!Init, Itt!ItsInit
<1> QED BY <1>1 DEF Itt!Init, Itt!ItsInit, Itt!IInv, Itt!TypeOK, Itt!RefsInv, Itt!CallsInv, Itt!Refs

\* A step that names no table anew and frees none keeps RefsInv.
LEMMA IttRefsShrink ==
    ASSUME Itt!RefsInv, allocated \subseteq allocated',
           \A d \in Devices : Itt!Refs(d)' \subseteq Itt!Refs(d) \cup {Itt!None}
    PROVE  Itt!RefsInv'
BY DEF Itt!RefsInv

LEMMA IttPushKeeps ==
    ASSUME Itt!IInv, NEW d \in Devices, NEW to \in {"mapd", "unmapd"},
           Itt!Nobody \notin Devices,
           itt_pc[d] \in {"register", "idle"}, itt_pc' = [itt_pc EXCEPT ![d] = to],
           to = "unmapd" => block[d] = Itt!None,
           Itt!Push(d, [device |-> d, itt |-> block[d]]),
           UNCHANGED <<allocated, device_itts, borrower, hw, block>>
    PROVE  Itt!IInv'
<1> DEFINE cmd == [device |-> d, itt |-> block[d]]
<1>1. cmd \in [device : Devices, itt : Blocks \cup {Itt!None}]
    BY DEF Itt!IInv, Itt!TypeOK
<1>2. queue' = Append(queue, cmd) /\ pusher = Itt!Nobody /\ pusher' = d
    BY DEF Itt!Push
<1>3. Itt!TypeOK'
    BY <1>1, <1>2 DEF Itt!IInv, Itt!TypeOK
<1>4. /\ Len(queue') = Len(queue) + 1 /\ Len(queue) \in Nat
      /\ queue'[Len(queue')] = cmd
      /\ \A n \in 1 .. Len(queue) : queue'[n] = queue[n]
    BY <1>1, <1>2 DEF Itt!IInv, Itt!TypeOK
<1>5. Itt!RefsInv'
  <2>1. \A e \in Devices : Itt!Refs(e)' \subseteq Itt!Refs(e)
    <3> SUFFICES ASSUME NEW e \in Devices, NEW n \in 1 .. Len(queue'), queue'[n].device = e
                 PROVE  queue'[n].itt \in Itt!Refs(e)
        BY DEF Itt!Refs
    <3>1. CASE n \in 1 .. Len(queue)
        BY <1>4, <3>1 DEF Itt!Refs
    <3>2. CASE n = Len(queue')
        BY <1>4, <3>2 DEF Itt!Refs
    <3> QED BY <1>4, <3>1, <3>2
  <2> QED BY <2>1, IttRefsShrink DEF Itt!IInv
<1>6. Itt!CallsInv'
  <2>0. Len(queue') # 0
      BY <1>4
  <2>1. queue' # <<>>
      BY <2>0
  <2>2. \A e \in Devices : itt_pc[e] \notin {"mapd", "unmapd"}
      BY <1>2 DEF Itt!IInv, Itt!CallsInv
  <2>3. \A e \in Devices : itt_pc'[e] \in {"mapd", "unmapd"} <=> pusher' = e
      BY <1>2, <2>2 DEF Itt!IInv, Itt!TypeOK
  <2>4. \A e \in Devices : itt_pc'[e] \in {"borrow", "record"} =>
            hw'[e] = block'[e] /\ \A n \in 1 .. Len(queue') : queue'[n].device # e
    <3> SUFFICES ASSUME NEW e \in Devices, itt_pc'[e] \in {"borrow", "record"}
                 PROVE  hw'[e] = block'[e] /\ \A n \in 1 .. Len(queue') : queue'[n].device # e
        OBVIOUS
    <3>1. e # d /\ itt_pc[e] = itt_pc'[e]
        BY DEF Itt!IInv, Itt!TypeOK
    <3>2. hw[e] = block[e] /\ \A n \in 1 .. Len(queue) : queue[n].device # e
        BY <3>1 DEF Itt!IInv, Itt!CallsInv
    <3>3. \A n \in 1 .. Len(queue') : n \in 1 .. Len(queue) \/ n = Len(queue')
        BY <1>4
    <3> QED BY <1>4, <3>1, <3>2, <3>3
  <2>5. \A e \in Devices : itt_pc'[e] \in {"idle", "unmapd"} => block'[e] = Itt!None
      BY DEF Itt!IInv, Itt!TypeOK, Itt!CallsInv
  <2> QED BY <1>2, <1>4, <2>1, <2>3, <2>4, <2>5 DEF Itt!IInv, Itt!CallsInv
<1> QED BY <1>3, <1>5, <1>6 DEF Itt!IInv

LEMMA IttRegisterAllocKeeps ==
    ASSUME Itt!IInv, Itt!None \notin Blocks, NEW d \in Devices, Itt!RegisterAlloc(d)
    PROVE  Itt!IInv'
<1>1. PICK b \in Blocks \ allocated : allocated' = allocated \cup {b} /\ block' = [block EXCEPT ![d] = b]
    BY Zenon DEF Itt!RegisterAlloc
<1>2. itt_pc[d] = "idle" /\ itt_pc' = [itt_pc EXCEPT ![d] = "register"] /\ UNCHANGED <<queue, pusher, device_itts, hw>>
    BY DEF Itt!RegisterAlloc, Itt!Goto, Itt!its
<1>3. Itt!TypeOK'
    BY <1>1, <1>2 DEF Itt!IInv, Itt!TypeOK
<1>4. \A e \in Devices : b \notin Itt!Refs(e) /\ Itt!Refs(e)' \subseteq Itt!Refs(e) \cup (IF e = d THEN {b} ELSE {})
    BY <1>1, <1>2 DEF Itt!IInv, Itt!TypeOK, Itt!RefsInv, Itt!Refs
<1>5. Itt!RefsInv'
    BY <1>1, <1>4 DEF Itt!IInv, Itt!RefsInv
<1>6. b # device_itts[d]
    BY <1>4 DEF Itt!Refs
<1>7. pusher # d
    BY <1>2 DEF Itt!IInv, Itt!CallsInv
<1>8. Itt!CallsInv'
    BY <1>1, <1>2, <1>6, <1>7 DEF Itt!IInv, Itt!TypeOK, Itt!CallsInv
<1> QED BY <1>3, <1>5, <1>8 DEF Itt!IInv

\* An error: the call is over, its block neither recorded nor freed.
LEMMA IttErrorKeeps ==
    ASSUME Itt!IInv, Itt!Nobody \notin Devices, NEW d \in Devices, Itt!RegisterFails(d) \/ Itt!UnregisterFails(d)
    PROVE  Itt!IInv'
<1>1. /\ itt_pc' = [itt_pc EXCEPT ![d] = "idle"]
      /\ UNCHANGED <<queue, allocated, device_itts, hw>>
      /\ \A e \in Devices : e # d => pusher' = e <=> pusher = e
      /\ pusher' = Itt!Nobody
    BY DEF Itt!RegisterFails, Itt!UnregisterFails, Itt!Goto, Itt!PushFull, Itt!PushGivesUp, Itt!IInv, Itt!CallsInv
<1>2. block' = [block EXCEPT ![d] = Itt!None]
  <2>1. CASE Itt!RegisterFails(d)
      BY <2>1 DEF Itt!RegisterFails
  <2>2. CASE Itt!UnregisterFails(d)
      BY <2>2 DEF Itt!UnregisterFails, Itt!Goto, Itt!IInv, Itt!TypeOK, Itt!CallsInv
  <2> QED BY <2>1, <2>2
<1>3. Itt!TypeOK'
    BY <1>1, <1>2 DEF Itt!IInv, Itt!TypeOK
<1>4. \A e \in Devices : Itt!Refs(e)' \subseteq Itt!Refs(e) \cup {Itt!None}
    BY <1>1, <1>2 DEF Itt!IInv, Itt!TypeOK, Itt!Refs
<1>5. Itt!RefsInv'
    BY <1>1, <1>4, IttRefsShrink DEF Itt!IInv
<1>6. Itt!CallsInv'
    BY <1>1, <1>2 DEF Itt!IInv, Itt!TypeOK, Itt!CallsInv
<1> QED BY <1>3, <1>5, <1>6 DEF Itt!IInv

LEMMA IttMapdOkKeeps ==
    ASSUME Itt!IInv, Itt!Nobody \notin Devices, NEW d \in Devices, Itt!MapdOk(d)
    PROVE  Itt!IInv'
<1>1. /\ itt_pc[d] \in {"mapd", "unmapd"} /\ itt_pc' = [itt_pc EXCEPT ![d] = "borrow"]
      /\ queue = <<>> /\ pusher = d /\ pusher' = Itt!Nobody
      /\ UNCHANGED <<queue, allocated, device_itts, hw, block>>
    BY DEF Itt!MapdOk, Itt!Goto, Itt!PushOk
<1>2. Itt!TypeOK'
    BY <1>1 DEF Itt!IInv, Itt!TypeOK
<1>3. Itt!RefsInv'
    BY <1>1, IttRefsShrink DEF Itt!IInv, Itt!Refs
<1>4. hw[d] = block[d] /\ Len(queue) = 0
    BY <1>1 DEF Itt!IInv, Itt!CallsInv
<1>5. Itt!CallsInv'
    BY <1>1, <1>4 DEF Itt!IInv, Itt!TypeOK, Itt!CallsInv
<1> QED BY <1>2, <1>3, <1>5 DEF Itt!IInv

LEMMA IttBorrowKeeps ==
    ASSUME Itt!IInv, NEW d \in Devices, Itt!Borrow(d) \/ Itt!BorrowPanics(d)
    PROVE  Itt!IInv'
<1>1. /\ itt_pc[d] = "borrow" /\ \E to \in {"record", "panicked"} : itt_pc' = [itt_pc EXCEPT ![d] = to]
      /\ UNCHANGED <<queue, pusher, allocated, device_itts, hw, block>>
    BY DEF Itt!Borrow, Itt!BorrowPanics, Itt!Goto, Itt!its
<1>2. Itt!TypeOK'
    BY <1>1 DEF Itt!IInv, Itt!TypeOK
<1>3. Itt!RefsInv'
    BY <1>1, IttRefsShrink DEF Itt!IInv, Itt!Refs
<1>4. Itt!CallsInv'
    BY <1>1 DEF Itt!IInv, Itt!TypeOK, Itt!CallsInv
<1> QED BY <1>2, <1>3, <1>4 DEF Itt!IInv

\* The only step that frees: nothing names the freed table any more.
LEMMA IttRecordKeeps ==
    ASSUME Itt!IInv, NEW d \in Devices, Itt!Record(d)
    PROVE  Itt!IInv'
<1>1. /\ itt_pc[d] = "record" /\ itt_pc' = [itt_pc EXCEPT ![d] = "idle"]
      /\ allocated' = allocated \ {device_itts[d]}
      /\ device_itts' = [device_itts EXCEPT ![d] = block[d]]
      /\ block' = [block EXCEPT ![d] = Itt!None]
      /\ UNCHANGED <<queue, pusher, hw>>
    BY DEF Itt!Record, Itt!Goto, Itt!its
<1>2. Itt!TypeOK'
    BY <1>1 DEF Itt!IInv, Itt!TypeOK
<1>3. hw[d] = block[d] /\ \A n \in 1 .. Len(queue) : queue[n].device # d
    BY <1>1 DEF Itt!IInv, Itt!CallsInv
<1>4. Itt!Refs(d)' \subseteq {block[d], Itt!None}
    BY <1>1, <1>3 DEF Itt!IInv, Itt!TypeOK, Itt!Refs
<1>5. \A e \in Devices : e # d => Itt!Refs(e)' = Itt!Refs(e)
    BY <1>1 DEF Itt!IInv, Itt!TypeOK, Itt!Refs
<1>6. block[d] \in Itt!Refs(d) /\ device_itts[d] \in Itt!Refs(d)
    BY DEF Itt!Refs
<1>7. block[d] # Itt!None => block[d] # device_itts[d]
    BY DEF Itt!IInv, Itt!CallsInv
<1>8. Itt!RefsInv'
  <2>1. \A e \in Devices : Itt!Refs(e)' \subseteq allocated' \cup {Itt!None}
      BY <1>1, <1>4, <1>5, <1>6, <1>7 DEF Itt!IInv, Itt!RefsInv
  <2>2. \A e \in Devices : Itt!Refs(e)' \subseteq Itt!Refs(e) \cup {Itt!None}
      BY <1>4, <1>5, <1>6
  <2> QED BY <2>1, <2>2 DEF Itt!IInv, Itt!RefsInv
<1>9. Itt!CallsInv'
    BY <1>1 DEF Itt!IInv, Itt!TypeOK, Itt!CallsInv
<1> QED BY <1>2, <1>8, <1>9 DEF Itt!IInv

LEMMA IttItsExecutesKeeps ==
    ASSUME Itt!IInv, Itt!ItsExecutes
    PROVE  Itt!IInv'
<1> DEFINE d == queue[1].device
<1>1. /\ queue # <<>> /\ queue' = Tail(queue)
      /\ hw' = [hw EXCEPT ![d] = queue[1].itt]
      /\ UNCHANGED <<pusher, allocated, device_itts, block, itt_pc>>
    BY TailFacts, Zenon DEF Itt!ItsExecutes, Itt!ItsTakes, Itt!IInv, Itt!TypeOK
<1>2. /\ Len(queue) \in Nat \ {0} /\ Len(queue') = Len(queue) - 1
      /\ \A n \in 1 .. Len(queue') : queue'[n] = queue[n + 1]
      /\ \A n \in 1 .. Len(queue) : queue[n] \in [device : Devices, itt : Blocks \cup {Itt!None}]
    BY <1>1, TailFacts, Zenon DEF Itt!IInv, Itt!TypeOK
<1>3. d \in Devices /\ queue[1].itt \in Itt!Refs(d) /\ queue[1].itt \in Blocks \cup {Itt!None}
    BY <1>2 DEF Itt!Refs
<1>4. Itt!TypeOK'
    BY <1>1, <1>3 DEF Itt!IInv, Itt!TypeOK
<1>5. Itt!RefsInv'
  <2>1. \A e \in Devices : Itt!Refs(e)' \subseteq Itt!Refs(e)
    <3> SUFFICES ASSUME NEW e \in Devices
                 PROVE  Itt!Refs(e)' \subseteq Itt!Refs(e)
        OBVIOUS
    <3>1. hw'[e] \in Itt!Refs(e)
        BY <1>1, <1>3 DEF Itt!IInv, Itt!TypeOK, Itt!Refs
    <3>2. \A n \in 1 .. Len(queue') : queue'[n].device = e => queue'[n].itt \in Itt!Refs(e)
        BY <1>2 DEF Itt!Refs
    <3> QED BY <1>1, <3>1, <3>2 DEF Itt!Refs
  <2> QED BY <1>1, <2>1, IttRefsShrink DEF Itt!IInv
<1>6. Itt!CallsInv'
  <2>1. ASSUME NEW e \in Devices, pusher = e, queue' = <<>>
        PROVE  hw'[e] = block'[e]
    <3>1. Len(queue) = 1
        BY <1>2, <2>1
    <3>2. queue[1].device = e /\ queue[1].itt = block[e]
        BY <1>1, <2>1, <3>1 DEF Itt!IInv, Itt!CallsInv
    <3> QED BY <1>1, <3>2 DEF Itt!IInv, Itt!TypeOK
  <2>2. ASSUME NEW e \in Devices, pusher = e, queue' # <<>>
        PROVE  queue'[Len(queue')].device = e /\ queue'[Len(queue')].itt = block'[e]
    <3>1. Len(queue') \in 1 .. Len(queue')
        BY <1>2, <1>4, <2>2 DEF Itt!TypeOK
    <3>2. queue'[Len(queue')] = queue[Len(queue)]
        BY <1>2, <3>1
    <3> QED BY <1>1, <2>2, <3>2 DEF Itt!IInv, Itt!CallsInv
  <2>3. ASSUME NEW e \in Devices, itt_pc[e] \in {"borrow", "record"}
        PROVE  hw'[e] = block'[e] /\ \A n \in 1 .. Len(queue') : queue'[n].device # e
    <3>1. hw[e] = block[e] /\ \A n \in 1 .. Len(queue) : queue[n].device # e
        BY <2>3 DEF Itt!IInv, Itt!CallsInv
    <3>2. e # d
        BY <1>2, <3>1
    <3>3. hw'[e] = hw[e]
        BY <1>1, <3>2 DEF Itt!IInv, Itt!TypeOK
    <3>4. \A n \in 1 .. Len(queue') : queue'[n].device # e
        BY <1>2, <3>1
    <3>5. block'[e] = block[e]
        BY <1>1
    <3> QED BY <3>1, <3>3, <3>4, <3>5
  <2> QED BY <1>1, <2>1, <2>2, <2>3 DEF Itt!IInv, Itt!CallsInv
<1> QED BY <1>4, <1>5, <1>6 DEF Itt!IInv

LEMMA IttIInvNext ==
    ASSUME Itt!None \notin Blocks, Itt!Nobody \notin Devices, Itt!IInv, [Itt!Next]_(Itt!vars)
    PROVE  Itt!IInv'
<1>1. CASE UNCHANGED Itt!vars
  <2>1. UNCHANGED <<queue, pusher, allocated, device_itts, hw, block, itt_pc>>
      BY <1>1 DEF Itt!vars, Itt!its
  <2>2. \A d \in Devices : Itt!Refs(d)' = Itt!Refs(d)
      BY <2>1 DEF Itt!Refs
  <2>3. Itt!TypeOK'
      BY <2>1 DEF Itt!IInv, Itt!TypeOK
  <2>4. Itt!RefsInv'
      BY <2>1, <2>2 DEF Itt!IInv, Itt!RefsInv
  <2>5. Itt!CallsInv'
      BY <2>1 DEF Itt!IInv, Itt!CallsInv
  <2> QED BY <2>3, <2>4, <2>5 DEF Itt!IInv
<1>2. CASE Itt!ItsExecutes
    BY <1>2, IttItsExecutesKeeps
<1>3. ASSUME NEW d \in Devices, Itt!RegisterAlloc(d)
      PROVE  Itt!IInv'
    BY <1>3, IttRegisterAllocKeeps
<1>4. ASSUME NEW d \in Devices, Itt!PushMapd(d)
      PROVE  Itt!IInv'
    BY <1>4, IttPushKeeps, Zenon DEF Itt!PushMapd, Itt!Goto
<1>5. ASSUME NEW d \in Devices, Itt!PushUnmapd(d)
      PROVE  Itt!IInv'
  <2>1. block[d] = Itt!None
      BY <1>5 DEF Itt!PushUnmapd, Itt!Goto, Itt!IInv, Itt!CallsInv
  <2> QED BY <1>5, <2>1, IttPushKeeps, Zenon DEF Itt!PushUnmapd, Itt!Goto
<1>6. ASSUME NEW d \in Devices, Itt!RegisterFails(d) \/ Itt!UnregisterFails(d)
      PROVE  Itt!IInv'
    BY <1>6, IttErrorKeeps
<1>7. ASSUME NEW d \in Devices, Itt!MapdOk(d)
      PROVE  Itt!IInv'
    BY <1>7, IttMapdOkKeeps
<1>8. ASSUME NEW d \in Devices, Itt!Borrow(d) \/ Itt!BorrowPanics(d)
      PROVE  Itt!IInv'
    BY <1>8, IttBorrowKeeps
<1>9. ASSUME NEW d \in Devices, Itt!Record(d)
      PROVE  Itt!IInv'
    BY <1>9, IttRecordKeeps
<1> QED BY <1>1, <1>2, <1>3, <1>4, <1>5, <1>6, <1>7, <1>8, <1>9 DEF Itt!Next

LEMMA IttIInvImplies ==
    ASSUME Itt!IInv
    PROVE  Itt!IttLive /\ Itt!RecordedOnce
<1>1. \A d \in Devices : {hw[d], device_itts[d], block[d]} \subseteq Itt!Refs(d)
    BY DEF Itt!Refs
<1> QED BY <1>1 DEF Itt!IInv, Itt!RefsInv, Itt!IttLive, Itt!RecordedOnce
-----------------------------------------------------------------------------
(* init() *)

LEMMA StartIInvInit ==
    ASSUME Start!Nobody \notin CPUs, Start!Init
    PROVE  Start!IInv
BY DEF Start!Init, Start!ItsInit, Start!IInv, Start!TypeOK, Start!OrderInv, Start!QueueInv, Start!Leading, Start!Late, Start!Mapping, Start!Mapped, Start!Spins

LEMMA StartSetupTypes ==
    ASSUME Start!IInv, NEW c \in CPUs, Start!Setup(c)
    PROVE  Start!TypeOK'
BY DEF Start!Setup, Start!CasWins, Start!CasFails, Start!DistributorOff, Start!DistributorAre, Start!PropTable, Start!InitIts, Start!DistributorOn, Start!Store, Start!Sev,
       Start!LoadReady, Start!LoadNotReady, Start!Wfe, Start!WfeSpurious, Start!Wake, Start!EnableLpis, Start!Goto, Start!IInv, Start!TypeOK, Start!Leading, Start!Late, Start!Mapping, Start!Mapped

\* None of these steps touches the queue or starts or ends a wait for it.
LEMMA StartSetupQueue ==
    ASSUME Start!IInv, NEW c \in CPUs, Start!Setup(c)
    PROVE  Start!QueueInv'
<1>1. UNCHANGED <<queue, pusher, collections>>
    BY DEF Start!Setup, Start!CasWins, Start!CasFails, Start!DistributorOff, Start!DistributorAre, Start!PropTable, Start!InitIts, Start!DistributorOn, Start!Store, Start!Sev,
           Start!LoadReady, Start!LoadNotReady, Start!Wfe, Start!WfeSpurious, Start!Wake, Start!EnableLpis, Start!its
<1>2. \A d \in CPUs : d # c => init_pc'[d] = init_pc[d]
    BY DEF Start!Setup, Start!CasWins, Start!CasFails, Start!DistributorOff, Start!DistributorAre, Start!PropTable, Start!InitIts, Start!DistributorOn, Start!Store, Start!Sev,
           Start!LoadReady, Start!LoadNotReady, Start!Wfe, Start!WfeSpurious, Start!Wake, Start!EnableLpis, Start!Goto, Start!IInv, Start!TypeOK
<1>3. init_pc[c] \notin Start!Spins \cup Start!Mapped /\ init_pc'[c] \notin Start!Spins \cup Start!Mapped
    BY DEF Start!Setup, Start!CasWins, Start!CasFails, Start!DistributorOff, Start!DistributorAre, Start!PropTable, Start!InitIts, Start!DistributorOn, Start!Store, Start!Sev,
           Start!LoadReady, Start!LoadNotReady, Start!Wfe, Start!WfeSpurious, Start!Wake, Start!EnableLpis, Start!Goto, Start!IInv, Start!TypeOK, Start!Spins, Start!Mapped
<1>4. \A cmd \in Start!Cmds : Start!Spinning[cmd] \in Start!Spins
    BY DEF Start!Cmds, Start!Spinning, Start!Spins
<1> QED BY <1>1, <1>2, <1>3, <1>4 DEF Start!IInv, Start!QueueInv, Start!Spins

LEMMA StartSetupOrder ==
    ASSUME Start!IInv, NEW c \in CPUs, Start!Setup(c)
    PROVE  Start!OrderInv'
<1> USE DEF Start!IInv, Start!TypeOK, Start!OrderInv, Start!Goto, Start!dist, Start!Leading, Start!Late, Start!Mapping, Start!Mapped
<1>1. CASE Start!CasWins(c)
    BY <1>1 DEF Start!CasWins
<1>2. CASE Start!CasFails(c)
    BY <1>2 DEF Start!CasFails
<1>3. CASE Start!DistributorOff(c)
    BY <1>3 DEF Start!DistributorOff
<1>4. CASE Start!DistributorAre(c)
    BY <1>4 DEF Start!DistributorAre
<1>5. CASE Start!PropTable(c)
    BY <1>5 DEF Start!PropTable
<1>6. CASE Start!InitIts(c)
    BY <1>6 DEF Start!InitIts
<1>7. CASE Start!DistributorOn(c)
    BY <1>7 DEF Start!DistributorOn
<1>8. CASE Start!Store(c)
    BY <1>8 DEF Start!Store
<1>9. CASE Start!Sev(c)
    BY <1>9 DEF Start!Sev
<1>10. CASE Start!LoadReady(c)
    BY <1>10 DEF Start!LoadReady, Start!IsReady
<1>11. CASE Start!LoadNotReady(c)
    BY <1>11 DEF Start!LoadNotReady
<1>12. CASE Start!Wfe(c)
    BY <1>12 DEF Start!Wfe
<1>13. CASE Start!WfeSpurious(c)
    BY <1>13 DEF Start!WfeSpurious
<1>14. CASE Start!Wake(c)
    BY <1>14 DEF Start!Wake
<1>15. CASE Start!EnableLpis(c)
    BY <1>15 DEF Start!EnableLpis
<1> QED BY <1>1, <1>2, <1>3, <1>4, <1>5, <1>6, <1>7, <1>8,
           <1>9, <1>10, <1>11, <1>12, <1>13, <1>14, <1>15 DEF Start!Setup

\* A core that moves on among the commands of init() is as far as before.
LEMMA StartMappingMoves ==
    ASSUME Start!IInv, NEW c \in CPUs, NEW p \in Start!Mapping, init_pc[c] \in Start!Mapping,
           init_pc' = [init_pc EXCEPT ![c] = p],
           UNCHANGED <<INIT_STATE, event, Start!dist, redist>>
    PROVE  Start!OrderInv'
<1>1. \A q \in Start!Mapping :
         q \in Start!Late /\ q \notin Start!Leading /\ q \notin {"start", "its", "enable", "store"}
    BY DEF Start!Mapping, Start!Mapped, Start!Late, Start!Leading
<1>2. \A d \in CPUs :
         init_pc'[d] = init_pc[d] \/ (init_pc'[d] \in Start!Mapping /\ init_pc[d] \in Start!Mapping)
    BY DEF Start!IInv, Start!TypeOK
<1>3. UNCHANGED <<distributor, prop_table, its_enabled>>
    BY DEF Start!dist
<1> QED BY <1>1, <1>2, <1>3 DEF Start!IInv, Start!OrderInv

LEMMA StartPushCmdKeeps ==
    ASSUME Start!IInv, Start!Nobody \notin CPUs, NEW c \in CPUs, Start!PushCmd(c)
    PROVE  Start!IInv'
<1>1. PICK cmd \in Start!Cmds : /\ Start!Goto(c, cmd, Start!Spinning[cmd])
                          /\ Start!Push(c, [cmd |-> cmd, cpu |-> c])
                          /\ UNCHANGED <<INIT_STATE, event, Start!dist, redist, collections>>
    BY DEF Start!PushCmd
<1>2. cmd \in Start!Mapping \ Start!Spins /\ Start!Spinning[cmd] \in Start!Mapping \cap Start!Spins /\ (Start!Spinning[cmd] \in Start!Mapped => cmd \in Start!Mapped)
    BY DEF Start!Cmds, Start!Spinning, Start!Mapping, Start!Mapped, Start!Spins
<1>3. init_pc[c] = cmd /\ init_pc' = [init_pc EXCEPT ![c] = Start!Spinning[cmd]]
    BY <1>1 DEF Start!Goto
<1>4. Start!TypeOK'
    BY <1>1, <1>2, <1>3 DEF Start!IInv, Start!TypeOK, Start!Late
<1>5. Start!OrderInv'
    BY <1>1, <1>2, <1>3, StartMappingMoves
<1>6. Start!QueueInv'
  <2>1. queue = <<>>
      BY <1>1 DEF Start!Push, Start!IInv, Start!QueueInv
  <2>2. queue' = <<[cmd |-> cmd, cpu |-> c]>> /\ pusher' = c
      BY <1>1, <2>1 DEF Start!Push
  <2>3. \A d \in CPUs : init_pc'[d] \in Start!Spins <=> pusher' = d
    <3>1. \A d \in CPUs : init_pc[d] \notin Start!Spins
        BY <1>1 DEF Start!Push, Start!IInv, Start!QueueInv
    <3> QED BY <1>2, <1>3, <2>2, <3>1 DEF Start!IInv, Start!TypeOK
  <2>4. init_pc'[c] = Start!Spinning[cmd] /\ queue' # <<>>
      BY <1>3, <2>2 DEF Start!IInv, Start!TypeOK
  <2>5. \A d \in CPUs : init_pc'[d] \in Start!Mapped => d \in collections'
      BY <1>1, <1>2, <1>3 DEF Start!IInv, Start!TypeOK, Start!QueueInv
  <2> QED BY <2>2, <2>3, <2>4, <2>5 DEF Start!QueueInv
<1> QED BY <1>4, <1>5, <1>6 DEF Start!IInv

LEMMA StartCmdOkKeeps ==
    ASSUME Start!IInv, Start!Nobody \notin CPUs, NEW c \in CPUs, Start!CmdOk(c)
    PROVE  Start!IInv'
<1>1. PICK cmd \in Start!Cmds : /\ Start!Goto(c, Start!Spinning[cmd], Start!Following[cmd])
                          /\ Start!PushOk(c)
                          /\ UNCHANGED <<INIT_STATE, event, Start!dist, redist, collections>>
    BY DEF Start!CmdOk
<1>2. /\ Start!Spinning[cmd] \in Start!Spins \cap Start!Mapping
      /\ Start!Following[cmd] \in Start!Mapped \ Start!Spins
      /\ Start!Spinning[cmd] \in Start!Mapped \cup {"mapc_spin"}
    BY DEF Start!Cmds, Start!Spinning, Start!Following, Start!Mapping, Start!Mapped, Start!Spins
<1>3. init_pc[c] = Start!Spinning[cmd] /\ init_pc' = [init_pc EXCEPT ![c] = Start!Following[cmd]]
    BY <1>1 DEF Start!Goto
<1>4. Start!TypeOK'
    BY <1>1, <1>2, <1>3 DEF Start!IInv, Start!TypeOK, Start!Late, Start!Mapping
<1>5. Start!OrderInv'
  <2>1. Start!Following[cmd] \in Start!Mapping
      BY <1>2 DEF Start!Mapping
  <2> QED BY <1>1, <1>2, <1>3, <2>1, StartMappingMoves
<1>6. Start!QueueInv'
  <2>1. queue' = <<>> /\ queue = <<>> /\ pusher = c /\ pusher' = Start!Nobody
      BY <1>1 DEF Start!PushOk
  <2>2. \A d \in CPUs : init_pc'[d] \notin Start!Spins
      BY <1>2, <1>3, <2>1 DEF Start!IInv, Start!TypeOK, Start!QueueInv
  <2>3. c \in collections
      BY <1>2, <1>3, <2>1 DEF Start!IInv, Start!QueueInv
  <2>4. \A d \in CPUs : init_pc'[d] \in Start!Mapped => d \in collections'
      BY <1>1, <1>3, <2>3 DEF Start!IInv, Start!TypeOK, Start!QueueInv
  <2> QED BY <2>1, <2>2, <2>4 DEF Start!QueueInv, Start!Spins
<1> QED BY <1>4, <1>5, <1>6 DEF Start!IInv

LEMMA StartItsExecutesKeeps ==
    ASSUME Start!IInv, Start!ItsExecutes
    PROVE  Start!IInv'
<1>1. PICK c \in CPUs, cmd \in Start!Cmds :
          queue = <<[cmd |-> cmd, cpu |-> c]>> /\ pusher = c /\ init_pc[c] = Start!Spinning[cmd]
    BY DEF Start!ItsExecutes, Start!ItsTakes, Start!IInv, Start!QueueInv
<1>2. queue' = <<>> /\ UNCHANGED <<pusher, init_pc, redist, INIT_STATE, Start!dist>>
    BY <1>1, SMTT(30) DEF Start!ItsExecutes, Start!ItsTakes
<1>3. collections' = IF cmd = "mapc" THEN collections \cup {c} ELSE collections
    BY <1>1 DEF Start!ItsExecutes
<1>4. Start!TypeOK' /\ Start!OrderInv'
    BY <1>2 DEF Start!IInv, Start!TypeOK, Start!OrderInv, Start!dist
<1>5. \A d \in CPUs : init_pc'[d] = "mapc_spin" => d \in collections'
  <2> SUFFICES ASSUME NEW d \in CPUs, init_pc[d] = "mapc_spin"
               PROVE  d \in collections'
      BY <1>2
  <2>1. d = c
      BY <1>1 DEF Start!IInv, Start!QueueInv, Start!Spins
  <2>2. cmd = "mapc"
      BY <1>1, <2>1 DEF Start!Cmds, Start!Spinning
  <2> QED BY <1>3, <2>1, <2>2
<1>6. Start!QueueInv'
    BY <1>2, <1>3, <1>5 DEF Start!IInv, Start!QueueInv
<1> QED BY <1>4, <1>6 DEF Start!IInv

LEMMA StartIInvNext ==
    ASSUME Start!Nobody \notin CPUs, Start!IInv, [Start!Next]_(Start!vars)
    PROVE  Start!IInv'
<1>1. CASE UNCHANGED Start!vars
    BY <1>1 DEF Start!IInv, Start!TypeOK, Start!OrderInv, Start!QueueInv, Start!vars, Start!its, Start!dist
<1>2. CASE Start!ItsExecutes
    BY <1>2, StartItsExecutesKeeps
<1>3. ASSUME NEW c \in CPUs, Start!Setup(c)
      PROVE  Start!IInv'
    BY <1>3, StartSetupTypes, StartSetupOrder, StartSetupQueue DEF Start!IInv
<1>4. ASSUME NEW c \in CPUs, Start!PushCmd(c) \/ Start!CmdOk(c)
      PROVE  Start!IInv'
    BY <1>4, StartPushCmdKeeps, StartCmdOkKeeps
<1> QED BY <1>1, <1>2, <1>3, <1>4 DEF Start!Next, Start!CoreNext, Start!Setup, Start!Stay

LEMMA StartIInvImplies ==
    ASSUME Start!IInv
    PROVE  Start!GlobalFirst /\ Start!InitMeansMapped
BY DEF Start!IInv, Start!TypeOK, Start!OrderInv, Start!QueueInv, Start!GlobalFirst, Start!InitMeansMapped,
       Start!Late, Start!Mapping, Start!Mapped
-----------------------------------------------------------------------------
(* All parts side by side *)

CONSTANTS Drivers, LPIs, Priorities

ASSUME PrioritiesAssumption == Priorities \subseteq 0 .. 255

\* None and Nobody are nobody's name.
ASSUME NamesAssumption ==
    /\ "none" \notin Drivers \cup LPIs \cup Blocks
    /\ "nobody" \notin CPUs \cup Drivers \cup Devices

VARIABLES subject,
          used, holder, event_mappings, lpi_to_event, lpi_handlers, itt, msi_pc, lpi, owned,
          registered,
          part, irq_pc, request, enabled, pending, wanted_on, prop, cached, mapped, events, old, wanted, confirmed,
          handlers, writer, irq_lpi_handlers, lpi_writer, running

Msi == INSTANCE GicMsi WITH pc <- msi_pc
Irq == INSTANCE GicIrq WITH Drivers <- Devices, pc <- irq_pc, lpi_handlers <- irq_lpi_handlers

\* What each part has to itself.
queueVars == <<ring, write_offset, cwriter, creadr, stalled, executed, count, queue_pc, retries,
               next, result>>
itsVars == <<queue, pusher, fails>>
msiVars == <<used, holder, event_mappings, lpi_to_event, lpi_handlers, itt, msi_pc, lpi, owned,
             registered>>
ittVars == <<allocated, device_itts, borrower, hw, itt_pc, block>>
startVars == <<INIT_STATE, event, distributor, prop_table, its_enabled, redist, collections, init_pc>>
irqVars == <<part, irq_pc, request, enabled, pending, wanted_on, prop, cached, mapped, events, old, wanted, confirmed,
             handlers, writer, irq_lpi_handlers, lpi_writer, running>>
gicVars == <<subject, vars, queueVars, itsVars, msiVars, ittVars, startVars, irqVars>>

Subjects == {"lpi", "queue", "msi", "itt", "init", "irq"}

GicInit ==
    /\ subject \in Subjects
    /\ Init
    /\ Queue!Init
    /\ fails \in (IF subject \in {"msi", "itt", "irq"} THEN BOOLEAN ELSE {FALSE})
    /\ Msi!Init
    /\ Itt!Init
    /\ Start!Init
    /\ Irq!Init /\ (subject # "irq" => part = "registers")
    /\ subject = "irq" => fails = (part = "lpi")     \* commands may fail, none has to
    /\ subject # "init" => \A c \in CPUs : ~event[c]

StepOf(which, A, rest) == subject = which /\ A /\ UNCHANGED <<subject, rest>>

LpiNext == StepOf("lpi", Next, <<queueVars, itsVars, msiVars, ittVars, startVars, irqVars>>)
QueueNext == StepOf("queue", Queue!Next, <<vars, itsVars, msiVars, ittVars, startVars, irqVars>>)
MsiNext == StepOf("msi", Msi!Next, <<vars, queueVars, ittVars, startVars, irqVars>>)
IttNext == StepOf("itt", Itt!Next, <<vars, queueVars, msiVars, startVars, irqVars>>)
StartStep(A) == StepOf("init", A, <<vars, queueVars, msiVars, ittVars, irqVars>>)
StartNext == StartStep(Start!Next)
IrqNext == StepOf("irq", Irq!Next, <<vars, queueVars, msiVars, ittVars, startVars>>)

GicNext == LpiNext \/ QueueNext \/ MsiNext \/ IttNext \/ StartNext \/ IrqNext

\* The fairness of GicInit: cores keep running, the ITS keeps executing.
GicSpec ==
    /\ GicInit /\ [][GicNext]_gicVars
    /\ WF_gicVars(StartStep(Start!ItsExecutes))
    /\ \A c \in CPUs : WF_gicVars(StartStep(Start!CoreNext(c)))
-----------------------------------------------------------------------------
\* push_cmd is the command queue the other parts build on: no command is
\* overwritten, lost, executed twice or overtaken, and Ok means executed; with
\* what the proof of it needs.
RingIsQueue == Queue!ImplementsIts /\ [](subject = "queue" => Queue!IInv)

\* No LPI has two owners: the allocator's bits are the ids handed out, and none
\* is raised for two events, even by commands executed late; with what the proof
\* of it needs.
LpiExclusive == LiveAreBits /\ (subject = "msi" => Msi!LpiExclusive /\ Msi!IInv)

\* The tables and the allocator know a driver's LPI as its own, its event raises
\* that LPI, and none once unmapped; msi_map_event finds no LPI only when every
\* LPI is some driver's.
MsiCorrect ==
    /\ [](subject = "msi" => Msi!TablesAgree /\ Msi!EventsRaised)
    /\ Msi!NoLpiMeansAllTaken

\* The ITS has only translation tables that are allocated, whatever commands
\* are executed late, and a recorded one is no other device's; with what the
\* proof of it needs.
IttInv == subject = "itt" => Itt!IttLive /\ Itt!RecordedOnce /\ Itt!IInv

\* No core's init() gets ahead of the distributor and the ITS, and a core that
\* has returned from it is known to the ITS; with what the proof of it needs.
InitInv == subject = "init" => Start!GlobalFirst /\ Start!InitMeansMapped /\ Start!IInv

\* When disable_interrupt has returned, a private or shared interrupt is off; when
\* enable_interrupt has, it is on or about to be.  An LPI's byte has the last
\* state and priority its driver asked for, also after a failed call, and once an
\* update or msi_invall returned Ok with an event mapped, the redistributor caches
\* no older byte.  The handler of a private or shared interrupt is not replaced
\* while it runs.  With what the proof of these needs.
IrqInv == subject = "irq" => Irq!IrqInv /\ Irq!IInv

\* Every core returns from init().
InitReturns == subject # "init" \/ Start!InitReturns
-----------------------------------------------------------------------------
(* The theorems *)

\* What the hint and the loop of alloc() skip is never free, however calls of
\* alloc() and free() interleave (lpi_alloc.rs:26).
THEOREM InvHolds == Spec => []Inv
BY LpiInvInit, LpiInvNext, PTL DEF Spec

\* The hint never passes a word that has a free id (lpi_alloc.rs:32, 75).
THEOREM HintHolds == Spec => []HintInv
BY InvHolds, PTL DEF Inv

\* alloc() returns None only when every id of the range is in use
\* (lpi_alloc.rs:42).
THEOREM NoneMeansFullHolds == Spec => []NoneMeansFull
<1>1. Inv => NoneMeansFull
    BY WordsPositive DEF Inv, LoopInv, NoneMeansFull, TypeOK, Words
<1> QED BY <1>1, InvHolds, PTL

\* The bits of the bitmap are the ids handed out (lpi_alloc.rs:9).
LEMMA LiveInit == Init => LiveAreBits
<1> SUFFICES ASSUME Init PROVE LiveAreBits
    OBVIOUS
<1>1. \A id \in Ids : WordOf(id) \in Words
    BY WordOfId
<1> QED BY <1>1 DEF Init, LiveAreBits

\* A step of the composition, as the parts see it.
LEMMA PartSteps ==
    ASSUME [GicNext]_gicVars
    PROVE  /\ subject' = subject
           /\ [Next]_vars
           /\ [Queue!Next]_(Queue!vars)
           /\ subject = "msi" => [Msi!Next]_(Msi!vars)
           /\ subject = "itt" => [Itt!Next]_(Itt!vars)
           /\ subject = "init" => [Start!Next]_(Start!vars)
           /\ subject # "msi" => UNCHANGED msiVars
<1>1. CASE UNCHANGED gicVars
    BY <1>1 DEF gicVars, queueVars, itsVars, msiVars, ittVars, startVars, Queue!vars, Msi!vars, Msi!its, Msi!tables,
                Itt!vars, Itt!its, Start!vars, Start!its, Start!dist
<1>2. CASE LpiNext
    BY <1>2 DEF LpiNext, StepOf, queueVars, Queue!vars
<1>3. CASE QueueNext
    BY <1>3 DEF QueueNext, StepOf
<1>4. CASE MsiNext
    BY <1>4 DEF MsiNext, StepOf, queueVars, Queue!vars
<1>5. CASE IttNext
    BY <1>5 DEF IttNext, StepOf, queueVars, Queue!vars
<1>6. CASE StartNext
    BY <1>6 DEF StartNext, StartStep, StepOf, queueVars, Queue!vars
<1>7. CASE IrqNext
    BY <1>7 DEF IrqNext, StepOf, queueVars, Queue!vars
<1> QED BY <1>1, <1>2, <1>3, <1>4, <1>5, <1>6, <1>7 DEF GicNext

LEMMA Names ==
    /\ Msi!None \notin Drivers \cup LPIs /\ Msi!Nobody \notin Drivers
    /\ Itt!None \notin Blocks /\ Itt!Nobody \notin Devices
    /\ Start!Nobody \notin CPUs /\ Irq!Nobody \notin Devices
BY NamesAssumption DEF Msi!None, Msi!Nobody, Itt!None, Itt!Nobody, Start!Nobody, Irq!Nobody

\* What is invariant of the LPIs, the allocator's and the tables'.
LpisInv == Inv /\ LiveAreBits /\ (subject = "msi" => Msi!IInv)

LEMMA LpisHold == GicSpec => []LpisInv
<1>1. GicInit => LpisInv
    BY LpiInvInit, LiveInit, Msi!IInvInit, Names DEF GicInit, LpisInv
<1>2. LpisInv /\ [GicNext]_gicVars => LpisInv'
  <2> SUFFICES ASSUME LpisInv, [GicNext]_gicVars PROVE LpisInv'
      OBVIOUS
  <2>1. Inv' /\ LiveAreBits'
      BY PartSteps, LpiInvNext, LiveNext DEF LpisInv
  <2>2. subject' = "msi" => Msi!IInv'
      BY PartSteps, Msi!IInvNext, Names, QueueAssumption DEF LpisInv
  <2> QED BY <2>1, <2>2 DEF LpisInv
<1> QED BY <1>1, <1>2, PTL DEF GicSpec

\* No LPI has two owners, whatever commands of msi_map_event and msi_unmap_event
\* are given up and executed late.
THEOREM LpisAreExclusive == GicSpec => []LpiExclusive
<1>1. LpisInv => LpiExclusive
    BY Msi!IInvImplies DEF LpisInv, LpiExclusive
<1> QED BY <1>1, LpisHold, PTL

\* msi_map_event, msi_unmap_event: the tables agree with what each driver was
\* told, its event raises its LPI, and NoAvailableLpi means that none is left.
THEOREM MsiIsCorrect == GicSpec => MsiCorrect
<1>1. LpisInv => (subject = "msi" => Msi!TablesAgree /\ Msi!EventsRaised)
    BY Msi!IInvImplies DEF LpisInv
<1> DEFINE A == \A d \in Drivers : ~fails /\ msi_pc[d] # "no_lpi" /\ msi_pc'[d] = "no_lpi"
                   => \A l \in LPIs : \E e \in Drivers : l \in {owned[e], lpi[e]}
<1>2. LpisInv /\ [GicNext]_gicVars => [A]_(Msi!vars)
  <2> SUFFICES ASSUME LpisInv, [GicNext]_gicVars PROVE A
      OBVIOUS
  <2>1. CASE subject = "msi"
      BY <2>1, PartSteps, Msi!NoLpiStep, Names DEF LpisInv
  <2>2. CASE subject # "msi"
      BY <2>2, PartSteps DEF msiVars
  <2> QED BY <2>1, <2>2
<1> QED BY <1>1, <1>2, LpisHold, PTL DEF GicSpec, MsiCorrect, Msi!NoLpiMeansAllTaken

\* push_cmd is the queue of ItsCommands: no command is overwritten, lost,
\* executed twice or overtaken, and Ok means executed, whatever stalls, timeouts
\* and aborts.
THEOREM RingIsAQueue == GicSpec => RingIsQueue
<1>1. GicInit => Queue!IInv /\ Queue!Its!ItsInit /\ executed = <<>>
    BY QueueIInvInit, RingStart DEF GicInit
<1>2. Queue!IInv /\ [GicNext]_gicVars => Queue!IInv'
    BY PartSteps, QueueIInvNext
<1>3. Queue!IInv /\ Queue!IInv' /\ [GicNext]_gicVars
          => [Queue!ItsNext]_<<Queue!Waiting, Queue!Pusher, executed, result>>
    BY PartSteps, RingStep
<1> QED BY <1>1, <1>2, <1>3, PTL DEF GicSpec, RingIsQueue, Queue!ImplementsIts

\* The ITS has only translation tables that are allocated, and dealloc never
\* frees one twice (register_device, unregister_device).
THEOREM IttsAreLive == GicSpec => []IttInv
<1> DEFINE I == subject = "itt" => Itt!IInv
<1>1. GicInit => I
    BY IttIInvInit, Names DEF GicInit
<1>2. I /\ [GicNext]_gicVars => I'
    BY PartSteps, IttIInvNext, Names
<1>3. I => IttInv
    BY IttIInvImplies DEF IttInv
<1> QED BY <1>1, <1>2, <1>3, PTL DEF GicSpec

\* No core touches a redistributor or the command queue before GicV3::init's
\* first caller has set up the distributor and the ITS, and a core that has
\* returned from init can be the target of MSIs.
THEOREM InitIsOrdered == GicSpec => []InitInv
<1> DEFINE I == subject = "init" => Start!IInv
<1>1. GicInit => I
    BY StartIInvInit, Names DEF GicInit
<1>2. I /\ [GicNext]_gicVars => I'
    BY PartSteps, StartIInvNext, Names
<1>3. I => InitInv
    BY StartIInvImplies DEF InitInv
<1> QED BY <1>1, <1>2, <1>3, PTL DEF GicSpec

\* For any number of drivers and whatever priorities they ask for: a private or
\* shared interrupt is enabled or disabled as its owner last asked, an LPI's byte
\* is as asked and not cached in an older form once an invalidation is confirmed,
\* and no handler of a private or shared interrupt is replaced while it runs
\* (enable_interrupt, disable_interrupt, set_priority of LPIs, register_handler
\* and on_interrupt).
THEOREM IrqHolds == GicSpec => []IrqInv
<1> DEFINE I == subject = "irq" => Irq!IInv
<1>1. GicInit => I
  <2> SUFFICES ASSUME GicInit PROVE Irq!IInv
      OBVIOUS
  <2> QED BY Irq!IInvInit, Names DEF GicInit
<1>2. I /\ [GicNext]_gicVars => I'
  <2> SUFFICES ASSUME I, [GicNext]_gicVars, subject' = "irq" PROVE Irq!IInv'
      OBVIOUS
  <2>1. subject' = subject
      BY DEF GicNext, LpiNext, QueueNext, MsiNext, IttNext, StartNext, StartStep, IrqNext, StepOf, gicVars
  <2>2. [Irq!Next]_(Irq!vars)
    <3>1. CASE GicNext
        BY <2>1, <3>1 DEF GicNext, LpiNext, QueueNext, MsiNext, IttNext, StartNext, StartStep, IrqNext, StepOf
    <3>2. CASE UNCHANGED gicVars
        BY <3>2 DEF gicVars, itsVars, irqVars, Irq!vars, Irq!its, Irq!irqVars, Irq!registers, Irq!lpis, Irq!tables
    <3> QED BY <3>1, <3>2
  <2> QED BY <2>1, <2>2, Irq!IInvNext, Names, PrioritiesAssumption
<1>3. I => IrqInv
    BY Irq!IInvImplies DEF IrqInv
<1> QED BY <1>1, <1>2, <1>3, PTL DEF GicSpec
=============================================================================
