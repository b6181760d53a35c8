---------------------------- MODULE LpiAllocator ----------------------------
(***************************************************************************)
(* klib::interrupt::gicv3::lpi_alloc: LPI numbers from a bitmap with a     *)
(* hint at the word to search first.  A word is the set of its 1 bits.     *)
(* alloc()'s loop takes one step per iteration: it moves the hint while it *)
(* uses it.                                                                *)
(***************************************************************************)
EXTENDS Integers

CONSTANTS base_id, max_id,
          WordBits      \* 64

ASSUME IdsAssumption == base_id \in Nat /\ max_id \in Nat /\ base_id <= max_id
ASSUME WordAssumption == WordBits \in Nat \ {0}

Ids == base_id .. max_id
words == (max_id - base_id + WordBits) \div WordBits
Words == 0 .. words - 1
Bits == 0 .. WordBits - 1

VARIABLES bitmap, hint,
          op,        \* "idle", or "scan" inside alloc()
          i,         \* the loop counter of alloc()
          ret,       \* what the last alloc() returned, or None
          live       \* the ids handed out and not given back

vars == <<bitmap, hint, op, i, ret, live>>

None == -1
Full == Bits
Id(w, b) == base_id + w * WordBits + b
WordOf(id) == (id - base_id) \div WordBits
BitOf(id) == (id - base_id) % WordBits

Init ==
    /\ bitmap = [w \in Words |-> {}]
    /\ hint = 0
    /\ op = "idle" /\ i = 0 /\ ret = None
    /\ live = {}

Alloc ==
    /\ op = "idle"
    /\ op' = "scan" /\ i' = 0
    /\ UNCHANGED <<bitmap, hint, ret, live>>

\* (!word).trailing_zeros()
LowestZero(word) == CHOOSE b \in Bits \ word : \A a \in Bits \ word : b <= a

Scanned == (hint + i) % words

\* The word has no bit left.
Skip ==
    /\ op = "scan" /\ i < words
    /\ bitmap[Scanned] = Full
    /\ i' = i + 1
    /\ UNCHANGED <<bitmap, hint, op, ret, live>>

\* Its first free bit lies beyond max_id: the bit is set and cleared again,
\* and the hint has moved.
SkipTail ==
    /\ op = "scan" /\ i < words
    /\ bitmap[Scanned] # Full
    /\ Id(Scanned, LowestZero(bitmap[Scanned])) > max_id
    /\ hint' = Scanned
    /\ i' = i + 1
    /\ UNCHANGED <<bitmap, op, ret, live>>

Found ==
    /\ op = "scan" /\ i < words
    /\ bitmap[Scanned] # Full
    /\ LET b == LowestZero(bitmap[Scanned])
       IN  /\ Id(Scanned, b) <= max_id
           /\ bitmap' = [bitmap EXCEPT ![Scanned] = @ \cup {b}]
           /\ ret' = Id(Scanned, b)
           /\ live' = live \cup {Id(Scanned, b)}
    /\ hint' = Scanned
    /\ op' = "idle" /\ i' = 0

NotFound ==
    /\ op = "scan" /\ i = words
    /\ ret' = None
    /\ op' = "idle" /\ i' = 0
    /\ UNCHANGED <<bitmap, hint, live>>

\* reserve(), when it succeeds; otherwise nothing changes.
Reserve(id) ==
    /\ op = "idle"
    /\ id \in Ids
    /\ BitOf(id) \notin bitmap[WordOf(id)]
    /\ bitmap' = [bitmap EXCEPT ![WordOf(id)] = @ \cup {BitOf(id)}]
    /\ live' = live \cup {id}
    /\ UNCHANGED <<hint, op, i, ret>>

\* Mutant: the hint stays where it is.
LoweredNot(h, w) == h

\* "move hint backwards for denser packing"
Lowered(h, w) == IF w < h THEN w ELSE h

\* free() of an id that the caller owns.
Free(id) ==
    /\ op = "idle"
    /\ id \in live
    /\ bitmap' = [bitmap EXCEPT ![WordOf(id)] = @ \ {BitOf(id)}]
    /\ hint' = Lowered(hint, WordOf(id))
    /\ live' = live \ {id}
    /\ UNCHANGED <<op, i, ret>>

Next ==
    \/ Alloc \/ Skip \/ SkipTail \/ Found \/ NotFound
    \/ \E id \in Ids : Reserve(id) \/ Free(id)

Spec == Init /\ [][Next]_vars
-----------------------------------------------------------------------------
TypeOK ==
    /\ bitmap \in [Words -> SUBSET Bits]
    /\ hint \in Words
    /\ op \in {"idle", "scan"}
    /\ i \in 0 .. words
    /\ ret \in Int
    /\ live \subseteq Int

\* No id of word w is free.
Exhausted(w) == \A b \in Bits : Id(w, b) <= max_id => b \in bitmap[w]

\* No free id is below the hint, although the hint moves inside the loop that
\* counts from it, reserve() ignores it and only free() moves it back.
HintInv == \A w \in Words : w < hint => Exhausted(w)

\* The words the loop has passed have no free id, also when the hint has moved
\* to the last word in the middle of it.
LoopInv == op = "scan" => \A w \in Words : w < hint + i => Exhausted(w)

\* The inductive invariant: what the hint and the loop skip is never free.
Inv == TypeOK /\ HintInv /\ LoopInv

\* alloc() gives up only when every id is in use ("no free LPI numbers remain",
\* interrupt/mod.rs:31).
NoneMeansFull == op = "scan" /\ i = words => \A w \in Words : Exhausted(w)

\* The bits set are the ids handed out: no id is handed out twice, nor one
\* outside the range.
LiveAreBits == live = {id \in Ids : BitOf(id) \in bitmap[WordOf(id)]}
=============================================================================
