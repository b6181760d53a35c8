----------------------------- MODULE LockProofs -----------------------------
(***************************************************************************)
(* Proofs about the locks of klib::sync, for every finite set of cores,    *)
(* every width of the ticket counters that exceeds their number and every  *)
(* limit on the number of readers.                                         *)
(***************************************************************************)
EXTENDS MCLocks, FiniteSetTheorems, SequenceTheorems, TLAPS

(* TicketLock *)

\* Every step of lock() and unlock() keeps the lock words and the local
\* state of each core within their types.
LEMMA TypeStep == TypeOK /\ [Next]_vars => TypeOK'
<1>1. Modulus \in Nat /\ Modulus > 0
  BY ModulusAssumption, CPUsAssumption, FS_CardinalityType
<1>3. TypeOK /\ [Next]_vars => TypeOK'
  <2> SUFFICES ASSUME TypeOK, [Next]_vars PROVE TypeOK'
    OBVIOUS
  <2> USE <1>1 DEF TypeOK, Word, PC, Inc, Goto
  <2>1. ASSUME NEW c \in CPUs, TakeTicket(c) PROVE TypeOK'
    BY <2>1 DEF TakeTicket
  <2>2. ASSUME NEW c \in CPUs, Enter(c) \/ NotYet(c) PROVE TypeOK'
    BY <2>2 DEF Enter, NotYet
  <2>3. ASSUME NEW c \in CPUs, Wfe(c) \/ OtherEvent(c) PROVE TypeOK'
    BY <2>3 DEF Wfe, OtherEvent
  <2>4. ASSUME NEW c \in CPUs, Unlock(c) PROVE TypeOK'
    BY <2>4 DEF Unlock
  <2>5. ASSUME NEW c \in CPUs, Sev(c) PROVE TypeOK'
    BY <2>5 DEF Sev
  <2>6. CASE UNCHANGED vars
    BY <2>6 DEF vars
  <2> QED
    BY <2>1, <2>2, <2>3, <2>4, <2>5, <2>6 DEF Next
<1> QED
  BY <1>3
-----------------------------------------------------------------------------
\* The set of outstanding tickets is finite and no larger than the set of cores.
LEMMA TicketsFinite ==
    /\ IsFiniteSet(Tickets)
    /\ Cardinality(Tickets) \in Nat
    /\ Cardinality(Tickets) <= Cardinality(CPUs)
    /\ Cardinality(CPUs) \in Nat
BY CPUsAssumption, FS_Subset, FS_CardinalityType DEF Tickets

\* Advancing `users` past the first of n outstanding tickets brings every
\* other one closer by one.
LEMMA DistInc ==
    ASSUME NEW a \in Word, NEW b \in Word, Modulus \in Nat
    PROVE  /\ Dist(a, b) \in 0 .. Modulus - 1
           /\ Dist(a, b) = 0 <=> a = b
           /\ a # b => Dist(a, Inc(b)) = Dist(a, b) - 1
           /\ Dist(a, b) < Modulus - 1 => Dist(Inc(a), b) = Dist(a, b) + 1
           /\ Inc(b) \in Word
BY DEF Dist, Inc, Word

\* Two words at the same distance from a third are the same word.
LEMMA DistInjective ==
    ASSUME NEW a \in Word, NEW b \in Word, NEW d \in Word, Modulus \in Nat,
           Dist(a, d) = Dist(b, d)
    PROVE  a = b
BY DEF Dist, Word
-----------------------------------------------------------------------------
IInv == TypeOK /\ TicketsInv

\* With the outstanding tickets distinct and the first of them inside, only
\* one core is inside.
LEMMA IInvExclusion == TicketsInv => MutualExclusion
BY DEF TicketsInv, MutualExclusion, Holders, Tickets

\* The fetch_add of lock() gives the new core the ticket after the last one.
LEMMA TakeTicketInv ==
    ASSUME IInv, TypeOK', NEW c \in CPUs, TakeTicket(c)
    PROVE  TicketsInv'
<1> DEFINE n == Cardinality(Tickets)
<1>1. Modulus \in Nat
  BY ModulusAssumption
<1>2. c \notin Tickets /\ Tickets' = Tickets \cup {c} /\ Holders' = Holders
  BY DEF TakeTicket, Goto, Tickets, Holders, IInv, TypeOK
<1>3. Cardinality(Tickets') = n + 1
  BY <1>2, TicketsFinite, FS_AddElement
<1>4. n + 1 <= Cardinality(CPUs) /\ n \in Nat
  <2>1. Tickets' \subseteq CPUs
    BY DEF Tickets
  <2> QED
    BY <2>1, <1>3, TicketsFinite, CPUsAssumption, FS_Subset
<1>5. n < Modulus - 1
  BY <1>1, <1>4, ModulusAssumption, TicketsFinite
<1>6. ticket' = Inc(ticket) /\ users' = users /\ my' = [my EXCEPT ![c] = ticket]
  BY DEF TakeTicket
<1>7. Dist(ticket, users) = n
  BY DEF IInv, TicketsInv
<1>8. Dist(ticket', users') = n + 1
  BY <1>1, <1>5, <1>6, <1>7, DistInc DEF IInv, TypeOK
<1>9. my'[c] = ticket /\ \A d \in Tickets : my'[d] = my[d]
  BY <1>2, <1>6 DEF IInv, TypeOK
<1>10. \A d \in Tickets : Dist(my[d], users) < n /\ my[d] # ticket
  BY <1>7, <1>4 DEF IInv, TicketsInv
<1>11. \A d \in Tickets : Dist(my[d], users) \in Int
  BY <1>1, DistInc DEF IInv, TypeOK, Tickets
<1>12. \A d \in Tickets' : Dist(my'[d], users') < n + 1
  BY <1>2, <1>4, <1>6, <1>7, <1>9, <1>10, <1>11
<1>13. \A d, e \in Tickets' : my'[d] = my'[e] => d = e
  BY <1>2, <1>9, <1>10 DEF IInv, TicketsInv
<1>14. \A d \in Holders' : my'[d] = users'
  <2>1. Holders \subseteq Tickets
    BY DEF Holders, Tickets
  <2> QED
    BY <2>1, <1>2, <1>6, <1>9 DEF IInv, TicketsInv
<1> QED
  BY <1>3, <1>8, <1>12, <1>13, <1>14 DEF TicketsInv

\* The fetch_add of unlock() retires the first ticket and makes the next
\* one the first.
LEMMA UnlockInv ==
    ASSUME IInv, TypeOK', NEW c \in CPUs, Unlock(c)
    PROVE  TicketsInv'
<1> DEFINE n == Cardinality(Tickets)
<1>1. Modulus \in Nat
  BY ModulusAssumption
<1>2. c \in Holders /\ c \in Tickets /\ Tickets' = Tickets \ {c}
      /\ Holders' = Holders \ {c}
  BY DEF Unlock, Goto, Tickets, Holders, IInv, TypeOK
<1>3. Cardinality(Tickets') = n - 1 /\ n \in Nat
  BY <1>2, TicketsFinite, FS_RemoveElement
<1>4. users' = Inc(users) /\ ticket' = ticket /\ my' = my
  BY DEF Unlock
<1>5. my[c] = users
  BY <1>2 DEF IInv, TicketsInv
<1>6. Dist(ticket, users) = n /\ n >= 1
  <2>1. Dist(ticket, users) = n /\ Dist(my[c], users) < n /\ Dist(my[c], users) = 0
    BY <1>1, <1>2, <1>5, DistInc DEF IInv, TicketsInv, TypeOK
  <2> QED
    BY <2>1, <1>3
<1>7. Dist(ticket', users') = n - 1
  <2>1. ticket # users
    BY <1>1, <1>6, DistInc DEF IInv, TypeOK
  <2> QED
    BY <2>1, <1>1, <1>4, <1>6, DistInc DEF IInv, TypeOK
<1>8. \A d \in Tickets' : Dist(my'[d], users') < n - 1
  <2> SUFFICES ASSUME NEW d \in Tickets' PROVE Dist(my[d], Inc(users)) < n - 1
    BY <1>4
  <2>1. d \in Tickets /\ d # c /\ d \in CPUs
    BY <1>2 DEF Tickets
  <2>2. my[d] # users
    BY <2>1, <1>2, <1>5 DEF IInv, TicketsInv
  <2>3. Dist(my[d], users) < n
    BY <2>1 DEF IInv, TicketsInv
  <2>4. Dist(my[d], Inc(users)) = Dist(my[d], users) - 1 /\ Dist(my[d], users) \in Int
    BY <2>1, <2>2, <1>1, DistInc DEF IInv, TypeOK
  <2> QED
    BY <2>3, <2>4, <1>3
<1>9. \A d, e \in Tickets' : my'[d] = my'[e] => d = e
  BY <1>2, <1>4 DEF IInv, TicketsInv
<1>10. Holders' = {}
  <2>1. MutualExclusion
    BY IInvExclusion DEF IInv
  <2> QED
    BY <2>1, <1>2 DEF MutualExclusion, Holders
<1> QED
  BY <1>3, <1>7, <1>8, <1>9, <1>10 DEF TicketsInv

\* A core enters only with the first ticket; the other steps touch neither
\* the tickets nor the counters.
LEMMA OtherInv ==
    ASSUME IInv, TypeOK', NEW c \in CPUs,
           Enter(c) \/ NotYet(c) \/ Wfe(c) \/ Sev(c) \/ OtherEvent(c)
    PROVE  TicketsInv'
<1>1. Tickets' = Tickets /\ UNCHANGED <<ticket, users, my>>
  BY DEF Enter, NotYet, Wfe, Sev, OtherEvent, Goto, Tickets, IInv, TypeOK
<1>2. \A d \in Holders' : my[d] = users
  BY DEF Enter, NotYet, Wfe, Sev, OtherEvent, Goto, Holders, IInv, TypeOK, TicketsInv
<1> QED
  BY <1>1, <1>2 DEF IInv, TicketsInv

LEMMA InitIInv == Init => IInv
<1> SUFFICES ASSUME Init PROVE IInv
  OBVIOUS
<1>1. Tickets = {} /\ Holders = {}
  BY DEF Init, Tickets, Holders
<1>2. Dist(ticket, users) = 0
  BY DEF Init, Dist
<1>3. TicketsInv
  BY <1>1, <1>2, FS_EmptySet DEF TicketsInv
<1>4. Modulus \in Nat /\ Modulus > 0
  BY ModulusAssumption, CPUsAssumption, FS_CardinalityType
<1>5. TypeOK
  BY <1>4 DEF Init, TypeOK, Word, PC
<1> QED
  BY <1>3, <1>5 DEF IInv

LEMMA StepIInv == IInv /\ [Next]_vars => IInv'
<1> SUFFICES ASSUME IInv, [Next]_vars PROVE IInv'
  OBVIOUS
<1>1. TypeOK'
  BY TypeStep DEF IInv
<1>2. CASE Next
  BY <1>1, <1>2, TakeTicketInv, UnlockInv, OtherInv DEF Next, IInv
<1>3. CASE UNCHANGED vars
  BY <1>1, <1>3 DEF vars, IInv, TicketsInv, Tickets, Holders
<1> QED
  BY <1>2, <1>3

LEMMA AppendIs ==
    ASSUME NEW S, NEW q \in Seq(S), NEW e \in S
    PROVE  Append(q, e) = [i \in 1 .. Len(q) + 1 |-> IF i = Len(q) + 1 THEN e ELSE q[i]]
<1> DEFINE f == [i \in 1 .. Len(q) + 1 |-> IF i = Len(q) + 1 THEN e ELSE q[i]]
<1>1. Len(q) \in Nat /\ \A i \in 1 .. Len(q) : q[i] \in S
  OBVIOUS
<1>2. f \in Seq(S) /\ Len(f) = Len(q) + 1
  BY <1>1
<1>3. Append(q, e) \in Seq(S) /\ Len(Append(q, e)) = Len(q) + 1
  BY AppendProperties
<1>4. \A i \in 1 .. Len(q) + 1 : Append(q, e)[i] = f[i]
  BY <1>1, AppendProperties
<1> HIDE DEF f
<1>5. Append(q, e) = f
  BY <1>2, <1>3, <1>4, SeqEqual
<1> QED
  BY <1>5 DEF f

LEMMA TailIs ==
    ASSUME NEW S, NEW q \in Seq(S), q # << >>
    PROVE  Tail(q) = [i \in 1 .. Len(q) - 1 |-> q[i + 1]]
<1> DEFINE f == [i \in 1 .. Len(q) - 1 |-> q[i + 1]]
<1>1. Len(q) \in Nat \ {0} /\ \A i \in 1 .. Len(q) : q[i] \in S
  OBVIOUS
<1>2. f \in Seq(S) /\ Len(f) = Len(q) - 1
  BY <1>1
<1>3. Tail(q) \in Seq(S) /\ Len(Tail(q)) = Len(q) - 1
  BY HeadTailProperties
<1>4. \A i \in 1 .. Len(q) - 1 : Tail(q)[i] = f[i]
  BY <1>3, HeadTailProperties
<1> HIDE DEF f
<1>5. Tail(q) = f
  BY <1>2, <1>3, <1>4, SeqEqual
<1> QED
  BY <1>5 DEF f

\* The number of tickets before each core's, and the core of each number.
Position == [c \in Tickets |-> Dist(my[c], users)]
Order == [i \in 0 .. Cardinality(Tickets) - 1 |-> CHOOSE c \in Tickets : Position[c] = i]

\* The two are inverse to each other, and WaitQueue lists the cores in Order.
Ordered ==
    /\ Cardinality(Tickets) \in Nat
    /\ Position \in [Tickets -> 0 .. Cardinality(Tickets) - 1]
    /\ Order \in [0 .. Cardinality(Tickets) - 1 -> Tickets]
    /\ \A i \in 0 .. Cardinality(Tickets) - 1 : Position[Order[i]] = i
    /\ \A c \in Tickets : Order[Position[c]] = c
    /\ Cardinality(Holders) \in 0 .. 1
    /\ Cardinality(Holders) = 0 <=> Holders = {}
    /\ Cardinality(Tickets) - Cardinality(Holders) \in Nat
    /\ WaitQueue = [i \in 1 .. Cardinality(Tickets) - Cardinality(Holders)
                        |-> Order[i - 1 + Cardinality(Holders)]]

\* The outstanding tickets are as many as their possible positions, and no two
\* cores share one.
LEMMA IInvOrdered == IInv => Ordered
<1> SUFFICES ASSUME IInv PROVE Ordered
  OBVIOUS
<1> DEFINE n == Cardinality(Tickets)
<1>1. Modulus \in Nat /\ n \in Nat
  BY ModulusAssumption, TicketsFinite
<1>2. \A c \in Tickets : Dist(my[c], users) \in 0 .. n - 1
  <2> SUFFICES ASSUME NEW c \in Tickets PROVE Dist(my[c], users) \in 0 .. n - 1
    OBVIOUS
  <2>1. my[c] \in Word /\ users \in Word /\ Dist(my[c], users) < n
    BY DEF IInv, TypeOK, TicketsInv, Tickets
  <2> QED
    BY <2>1, <1>1, DistInc
<1>3. \A c, d \in Tickets : Dist(my[c], users) = Dist(my[d], users) => c = d
  BY <1>1, DistInjective DEF IInv, TypeOK, TicketsInv, Tickets
<1>4. Position \in Injection(Tickets, 0 .. n - 1)
  BY <1>2, <1>3 DEF Position, Injection, IsInjective
<1>5. IsFiniteSet(0 .. n - 1) /\ Cardinality(0 .. n - 1) = n
  BY <1>1, FS_Interval
<1>6. Position \in Surjection(Tickets, 0 .. n - 1)
  BY <1>4, <1>5, FS_Injection
<1>7. \A i \in 0 .. n - 1 : \E c \in Tickets : Position[c] = i
  BY <1>6 DEF Surjection
<1>8. /\ Order \in [0 .. n - 1 -> Tickets]
      /\ \A i \in 0 .. n - 1 : Position[Order[i]] = i
  BY <1>7 DEF Order
<1>9. Position \in [Tickets -> 0 .. n - 1] /\ \A c, d \in Tickets : Position[c] = Position[d] => c = d
  BY <1>4 DEF Injection, IsInjective
<1>10. \A c \in Tickets : Order[Position[c]] = c
  BY <1>8, <1>9
<1>11. Holders = {} \/ \E c \in CPUs : Holders = {c}
  BY IInvExclusion DEF IInv, MutualExclusion, Holders
<1>12. Cardinality(Holders) \in 0 .. 1 /\ (Cardinality(Holders) = 0 <=> Holders = {})
  <2>1. CASE Holders = {}
    BY <2>1, FS_EmptySet
  <2>2. CASE \E c \in CPUs : Holders = {c}
    <3>1. Cardinality(Holders) = 1 /\ Holders # {}
      BY <2>2, FS_Singleton
    <3> QED
      BY <3>1
  <2> QED
    BY <2>1, <2>2, <1>11
<1>13. n - Cardinality(Holders) \in Nat
  <2>1. Holders \subseteq Tickets
    BY DEF Holders, Tickets
  <2>2. Cardinality(Holders) <= n
    BY <2>1, TicketsFinite, FS_Subset
  <2> QED
    BY <2>2, <1>1, <1>12
<1>14. WaitQueue = [i \in 1 .. n - Cardinality(Holders) |-> Order[i - 1 + Cardinality(Holders)]]
  <2>1. \A i \in 1 .. n - Cardinality(Holders) : i - 1 + Cardinality(Holders) \in 0 .. n - 1
    BY <1>1, <1>12
  <2>2. \A j \in 0 .. n - 1 : Order[j] = CHOOSE c \in Tickets : Dist(my[c], users) = j
    BY DEF Order, Position
  <2> QED
    BY <2>1, <2>2 DEF WaitQueue
<1> QED
  BY <1>1, <1>8, <1>9, <1>10, <1>12, <1>13, <1>14 DEF Ordered

\* The fetch_add of lock() puts the core at the end of the queue.
LEMMA TakeTicketQueues ==
    ASSUME IInv, Ordered, Ordered', NEW c \in CPUs, TakeTicket(c)
    PROVE  FairLock!Request(c)
<1> DEFINE n == Cardinality(Tickets)
           h == Cardinality(Holders)
<1>1. c \notin Tickets /\ Tickets' = Tickets \cup {c} /\ Holders' = Holders
  BY DEF TakeTicket, Goto, Tickets, Holders, IInv, TypeOK
<1>2. Cardinality(Tickets)' = n + 1 /\ Cardinality(Holders)' = h
  BY <1>1, TicketsFinite, FS_AddElement
<1>3. n \in Nat /\ h \in 0 .. 1 /\ n - h \in Nat
  BY DEF Ordered
<1>4. /\ users' = users /\ my'[c] = ticket /\ \A d \in Tickets : my'[d] = my[d]
      /\ Dist(ticket, users) = n
  BY <1>1 DEF TakeTicket, IInv, TypeOK, TicketsInv, Tickets
<1>5. Position'[c] = n /\ \A d \in Tickets : Position'[d] = Position[d]
  BY <1>1, <1>4 DEF Position, Dist
<1>6. Order'[n] = c /\ \A i \in 0 .. n - 1 : Order'[i] = Order[i]
  <2>1. \A d \in Tickets' : Order'[Position'[d]] = d
    BY DEF Ordered
  <2>2. \A i \in 0 .. n - 1 : Order[i] \in Tickets /\ Position[Order[i]] = i
    BY DEF Ordered
  <2> QED
    BY <2>1, <2>2, <1>1, <1>5
<1> DEFINE q == [i \in 1 .. n - h |-> Order[i - 1 + h]]
<1>7. q \in Seq(CPUs) /\ Len(q) = n - h
  <2>1. \A i \in 1 .. n - h : Order[i - 1 + h] \in CPUs
    BY <1>3 DEF Ordered, Tickets
  <2> QED
    BY <2>1, <1>3
<1>8. WaitQueue = q
  BY DEF Ordered
<1>9. WaitQueue' = [i \in 1 .. n + 1 - h |-> Order'[i - 1 + h]]
  BY <1>2 DEF Ordered
<1>10. Append(q, c) = [i \in 1 .. n - h + 1 |-> IF i = n - h + 1 THEN c ELSE q[i]]
  <2> HIDE DEF q, n, h
  <2> QED
    BY <1>7, AppendIs
<1>11. \A i \in 1 .. n - h + 1 :
            Order'[i - 1 + h] = IF i = n - h + 1 THEN c ELSE q[i]
  <2> SUFFICES ASSUME NEW i \in 1 .. n - h + 1
               PROVE  Order'[i - 1 + h] = IF i = n - h + 1 THEN c ELSE q[i]
    OBVIOUS
  <2>1. CASE i = n - h + 1
    BY <2>1, <1>3, <1>6
  <2>2. CASE i # n - h + 1
    <3>1. i \in 1 .. n - h /\ i - 1 + h \in 0 .. n - 1
      BY <2>2, <1>3
    <3> QED
      BY <3>1, <2>2, <1>6
  <2> QED
    BY <2>1, <2>2
<1>12. n + 1 - h = n - h + 1
  BY <1>3
<1> HIDE DEF q, n, h
<1>13. WaitQueue' = Append(WaitQueue, c)
  BY <1>8, <1>9, <1>10, <1>11, <1>12
<1> QED
  BY <1>13, <1>1 DEF FairLock!Request

\* The core whose ticket is served is the first of the queue.
LEMMA EnterDequeues ==
    ASSUME IInv, Ordered, Ordered', NEW c \in CPUs, Enter(c)
    PROVE  FairLock!Acquire
<1> DEFINE n == Cardinality(Tickets)
<1>1. /\ c \in Tickets /\ Tickets' = Tickets /\ my[c] = users
      /\ UNCHANGED <<ticket, users, my>>
      /\ Holders' = Holders \cup {c} /\ c \notin Holders
  BY DEF Enter, Goto, Tickets, Holders, IInv, TypeOK
<1>2. Holders = {}
  <2>1. \A d \in Holders : d \in Tickets /\ my[d] = users
    BY DEF IInv, TicketsInv, Holders, Tickets
  <2> QED
    BY <2>1, <1>1 DEF IInv, TicketsInv
<1>3. Holders' = {c} /\ Cardinality(Holders)' = 1 /\ Cardinality(Holders) = 0
  BY <1>1, <1>2, FS_Singleton, FS_EmptySet
<1>4. Order' = Order /\ Cardinality(Tickets)' = n
  BY <1>1 DEF Order, Position, Dist
<1>5. Position[c] = 0
  <2>1. users \in Word /\ Modulus \in Nat
    BY ModulusAssumption DEF IInv, TypeOK
  <2>2. Dist(users, users) = 0
    BY <2>1, DistInc
  <2> QED
    BY <2>2, <1>1 DEF Position
<1>6. Order[0] = c /\ n \in Nat \ {0}
  <2>1. Position[c] \in 0 .. n - 1 /\ Order[Position[c]] = c /\ n \in Nat
    BY <1>1 DEF Ordered
  <2> QED
    BY <2>1, <1>5
<1>7. WaitQueue = [i \in 1 .. n |-> Order[i - 1]]
  <2>1. WaitQueue = [i \in 1 .. n - 0 |-> Order[i - 1 + 0]]
    BY <1>3 DEF Ordered
  <2>2. n - 0 = n /\ \A i \in 1 .. n : i - 1 + 0 = i - 1
    BY <1>6
  <2> HIDE DEF n
  <2> QED
    BY <2>1, <2>2
<1>8. WaitQueue' = [i \in 1 .. n - 1 |-> Order[i]]
  <2>1. WaitQueue' = [i \in 1 .. n - 1 |-> Order[i - 1 + 1]]
    BY <1>3, <1>4 DEF Ordered
  <2>2. \A i \in 1 .. n - 1 : i - 1 + 1 = i
    BY <1>6
  <2> HIDE DEF n
  <2> QED
    BY <2>1, <2>2
<1>9. WaitQueue \in Seq(CPUs) /\ Len(WaitQueue) = n
  <2>1. \A i \in 1 .. n : Order[i - 1] \in CPUs
    BY <1>6 DEF Ordered, Tickets
  <2> QED
    BY <2>1, <1>6, <1>7
<1>10. WaitQueue # << >> /\ Head(WaitQueue) = c
  BY <1>6, <1>7, <1>9
<1>11. Tail(WaitQueue) = [i \in 1 .. n - 1 |-> Order[i]]
  <2>1. Tail(WaitQueue) = [i \in 1 .. Len(WaitQueue) - 1 |-> WaitQueue[i + 1]]
    BY <1>9, <1>10, TailIs
  <2>2. \A i \in 1 .. n - 1 : WaitQueue[i + 1] = Order[i]
    BY <1>6, <1>7
  <2> HIDE DEF n
  <2> QED
    BY <2>1, <2>2, <1>9
<1> QED
  BY <1>2, <1>3, <1>8, <1>10, <1>11 DEF FairLock!Acquire

\* The fetch_add of unlock() moves no core in the queue.
LEMMA UnlockKeepsQueue ==
    ASSUME IInv, Ordered, Ordered', NEW c \in CPUs, Unlock(c)
    PROVE  FairLock!Release(c)
<1> DEFINE n == Cardinality(Tickets)
<1>1. /\ c \in Holders /\ c \in Tickets /\ Tickets' = Tickets \ {c} /\ Holders' = Holders \ {c}
      /\ users' = Inc(users) /\ my' = my
  BY DEF Unlock, Goto, Tickets, Holders, IInv, TypeOK
<1>2. Holders = {c}
  BY <1>1, IInvExclusion DEF IInv, MutualExclusion, Holders
<1>3. Cardinality(Holders) = 1 /\ Cardinality(Holders)' = 0 /\ Holders' = {}
  BY <1>1, <1>2, FS_Singleton, FS_EmptySet
<1>4. Cardinality(Tickets)' = n - 1 /\ n \in Nat
  BY <1>1, TicketsFinite, FS_RemoveElement
<1>5. \A d \in Tickets' : Position'[d] = Position[d] - 1
  <2> SUFFICES ASSUME NEW d \in Tickets' PROVE Position'[d] = Position[d] - 1
    OBVIOUS
  <2>1. d \in Tickets /\ d # c /\ my[c] = users
    BY <1>1 DEF IInv, TicketsInv
  <2>2. my[d] # users /\ my[d] \in Word /\ users \in Word /\ Modulus \in Nat
    BY <2>1, <1>1, ModulusAssumption DEF IInv, TicketsInv, TypeOK, Tickets
  <2>3. Dist(my[d], Inc(users)) = Dist(my[d], users) - 1
    BY <2>2, DistInc
  <2>4. Position'[d] = Dist(my[d], Inc(users)) /\ Position[d] = Dist(my[d], users)
    BY <2>1, <1>1 DEF Position, Dist, Inc
  <2> QED
    BY <2>3, <2>4
<1>6. \A i \in 0 .. n - 2 : Order'[i] = Order[i + 1]
  <2> SUFFICES ASSUME NEW i \in 0 .. n - 2 PROVE Order'[i] = Order[i + 1]
    OBVIOUS
  <2>1. i \in 0 .. (n - 1) - 1
    BY <1>4
  <2>2. Order'[i] \in Tickets' /\ Position'[Order'[i]] = i
    BY <2>1, <1>4 DEF Ordered
  <2>3. PICK d \in Tickets' : d = Order'[i]
    BY <2>2
  <2>4. Position[d] - 1 = i
    BY <2>2, <2>3, <1>5
  <2>5. Position[d] \in 0 .. n - 1 /\ Order[Position[d]] = d
    BY <2>3, <1>1 DEF Ordered
  <2>6. Position[d] = i + 1
    BY <2>4, <2>5, <1>4
  <2> QED
    BY <2>3, <2>5, <2>6
<1>7. WaitQueue = [i \in 1 .. n - 1 |-> Order[i]]
  <2>1. WaitQueue = [i \in 1 .. n - 1 |-> Order[i - 1 + 1]]
    BY <1>3 DEF Ordered
  <2>2. \A i \in 1 .. n - 1 : i - 1 + 1 = i
    BY <1>4
  <2> HIDE DEF n
  <2> QED
    BY <2>1, <2>2
<1>8. WaitQueue' = [i \in 1 .. n - 1 |-> Order[i]]
  <2>1. WaitQueue' = [i \in 1 .. (n - 1) - 0 |-> Order'[i - 1 + 0]]
    BY <1>3, <1>4 DEF Ordered
  <2>2. (n - 1) - 0 = n - 1
    BY <1>4
  <2>3. \A i \in 1 .. n - 1 : Order'[i - 1 + 0] = Order[i]
    <3> SUFFICES ASSUME NEW i \in 1 .. n - 1 PROVE Order'[i - 1 + 0] = Order[i]
      OBVIOUS
    <3>1. i - 1 \in 0 .. n - 2 /\ i - 1 + 0 = i - 1 /\ (i - 1) + 1 = i
      BY <1>4
    <3> QED
      BY <3>1, <1>6
  <2> HIDE DEF n
  <2> QED
    BY <2>1, <2>2, <2>3
<1> QED
  BY <1>2, <1>3, <1>7, <1>8 DEF FairLock!Release

\* Each step of the ticket lock is one of the FIFO lock or moves no core.
LEMMA FairLockStep ==
    ASSUME IInv, Ordered, Ordered', [Next]_vars
    PROVE  [FairLock!Next]_<<WaitQueue, Holders>>
<1>1. ASSUME NEW c \in CPUs, NotYet(c) \/ Wfe(c) \/ Sev(c) \/ OtherEvent(c)
      PROVE  UNCHANGED <<WaitQueue, Holders>>
  <2>1. Tickets' = Tickets /\ Holders' = Holders /\ UNCHANGED <<users, my>>
    BY <1>1 DEF NotYet, Wfe, Sev, OtherEvent, Goto, Tickets, Holders, IInv, TypeOK
  <2> QED
    BY <2>1 DEF WaitQueue, Dist
<1>2. CASE UNCHANGED vars
  BY <1>2 DEF vars, WaitQueue, Dist, Tickets, Holders
<1> QED
  BY <1>1, <1>2, TakeTicketQueues, EnterDequeues, UnlockKeepsQueue DEF Next, FairLock!Next

LEMMA FairInit == Init => FairLock!Init
<1> SUFFICES ASSUME Init PROVE FairLock!Init
  OBVIOUS
<1>1. Tickets = {} /\ Holders = {}
  BY DEF Init, Tickets, Holders
<1>2. Cardinality(Tickets) = 0 /\ Cardinality(Holders) = 0
  BY <1>1, FS_EmptySet
<1>3. 1 .. Cardinality(Tickets) - Cardinality(Holders) = {}
  BY <1>2
<1> QED
  BY <1>1, <1>3 DEF FairLock!Init, WaitQueue
-----------------------------------------------------------------------------
(* UnfairSpinlock *)

UnfairIInv == Unfair!TypeOK /\ Unfair!FlagInv

LEMMA UnfairStepInv == ASSUME UnfairIInv, [Unfair!Next]_(Unfair!vars) PROVE UnfairIInv'
<1> USE DEF UnfairIInv, Unfair!TypeOK, Unfair!FlagInv, Unfair!Holders, Unfair!Goto
<1>1. ASSUME NEW c \in CPUs, Unfair!Acquire(c) PROVE UnfairIInv'
  BY <1>1 DEF Unfair!Acquire, Unfair!PC
<1>2. ASSUME NEW c \in CPUs, Unfair!Unlock(c) PROVE UnfairIInv'
  BY <1>2 DEF Unfair!Unlock, Unfair!PC
<1>3. ASSUME NEW c \in CPUs, Unfair!Ask(c) \/ Unfair!Busy(c) PROVE UnfairIInv'
  BY <1>3 DEF Unfair!Ask, Unfair!Busy, Unfair!PC
<1>4. ASSUME NEW c \in CPUs, Unfair!Wfe(c) \/ Unfair!Sev(c) PROVE UnfairIInv'
  <2>1. Unfair!TypeOK'
    BY <1>4 DEF Unfair!Wfe, Unfair!Sev, Unfair!PC
  <2>2. Unfair!Holders' = Unfair!Holders /\ lock' = lock
    BY <1>4 DEF Unfair!Wfe, Unfair!Sev
  <2> QED
    BY <2>1, <2>2
<1>5. CASE UNCHANGED Unfair!vars
  BY <1>5 DEF Unfair!vars
<1> QED
  BY <1>1, <1>2, <1>3, <1>4, <1>5 DEF Unfair!Next
-----------------------------------------------------------------------------
(* SleepingMutex *)

\* Both compare_exchanges find the flag clear only when no core has the mutex,
\* and only its holder clears the flag.
LEMMA SleepingStepInv ==
    ASSUME Sleeping!FlagInv, [Sleeping!Next]_(Sleeping!vars)
    PROVE  Sleeping!FlagInv'
<1> USE DEF Sleeping!FlagInv, Sleeping!Holders, Sleeping!Goto, Sleeping!PC
<1>1. ASSUME NEW c \in CPUs, Sleeping!Try(c) PROVE Sleeping!FlagInv'
  BY <1>1 DEF Sleeping!Try
<1>2. ASSUME NEW c \in CPUs, Sleeping!Retry(c) PROVE Sleeping!FlagInv'
  BY <1>2 DEF Sleeping!Retry
<1>3. ASSUME NEW c \in CPUs, Sleeping!Unlock(c) PROVE Sleeping!FlagInv'
  BY <1>3 DEF Sleeping!Unlock
<1>4. ASSUME NEW c \in CPUs, Sleeping!Leave(c) PROVE Sleeping!FlagInv'
  BY <1>4 DEF Sleeping!Leave
<1>5. ASSUME NEW c \in CPUs, Sleeping!Call(c) \/ Sleeping!CurrentThread(c) \/ Sleeping!LockQueue(c)
                                \/ Sleeping!BlockCurrent(c)
      PROVE  Sleeping!FlagInv'
  BY <1>5 DEF Sleeping!Call, Sleeping!CurrentThread, Sleeping!LockQueue, Sleeping!BlockCurrent
<1>6. CASE UNCHANGED Sleeping!vars
  BY <1>6 DEF Sleeping!vars
<1> QED
  BY <1>1, <1>2, <1>3, <1>4, <1>5, <1>6 DEF Sleeping!Next
-----------------------------------------------------------------------------
(* FairSpinlock with steal() *)

\* The Cardinality of the module that FairSpinlock extends is this module's.
LEMMA StealCardinality == ASSUME NEW S PROVE Steal!Cardinality(S) = Cardinality(S)
BY Zenon DEF Steal!Cardinality, Cardinality

\* The distances of steal()'s lock words, as DistInc has them.
LEMMA StealDist ==
    ASSUME NEW a \in Steal!Word, NEW b \in Steal!Word
    PROVE  /\ Modulus \in Nat
           /\ Steal!Dist(a, b) \in 0 .. Modulus - 1
           /\ Steal!Dist(a, b) = 0 <=> a = b
           /\ a # b => Steal!Dist(a, Steal!Inc(b)) = Steal!Dist(a, b) - 1
           /\ Steal!Dist(a, b) < Modulus - 1 => Steal!Dist(Steal!Inc(a), b) = Steal!Dist(a, b) + 1
           /\ Steal!Inc(a) = b => Steal!Dist(a, b) = Modulus - 1
           /\ Steal!Inc(b) \in Steal!Word
BY ModulusAssumption DEF Steal!Dist, Steal!Inc, Steal!Word

LEMMA StealOutFinite ==
    /\ IsFiniteSet(Steal!Out)
    /\ Cardinality(Steal!Out) \in Nat
    /\ Cardinality(Steal!Out) <= Cardinality(CPUs)
    /\ Cardinality(CPUs) \in Nat
    /\ Cardinality(CPUs) < Modulus /\ Modulus \in Nat
BY CPUsAssumption, ModulusAssumption, FS_Subset, FS_CardinalityType DEF Steal!Out

\* At most one core is in steal(), and while one is, no other core's ticket is
\* the one `users` shows.
LEMMA StealAlone ==
    ASSUME Steal!StealTypeOK, NEW b \in Steal!Word, Steal!TicketsFrom(b),
           NEW c \in CPUs, pc2[c] = "steal", NEW d \in Steal!Out, d # c
    PROVE  pc2[d] # "steal" /\ my2[d] # users2
<1>1. c \in Steal!Out /\ my2[c] = b /\ my2[d] # b /\ d \in CPUs
  BY DEF Steal!TicketsFrom, Steal!Out
<1>2. pc2[d] # "steal"
  BY <1>1 DEF Steal!TicketsFrom
<1>3. my2[d] \in Steal!Word /\ users2 \in Steal!Word
  BY <1>1 DEF Steal!StealTypeOK
<1>4. Steal!Dist(my2[d], b) < Modulus - 1
  <2>1. Steal!Dist(my2[d], b) < Cardinality(Steal!Out)
    BY StealCardinality DEF Steal!TicketsFrom
  <2> QED
    BY <2>1, <1>3, StealDist, StealOutFinite
<1>5. b = users2 \/ b = Steal!Inc(users2)
  BY DEF Steal!TicketsFrom
<1>6. CASE b = Steal!Inc(users2)
  <2>1. Steal!Dist(users2, b) = Modulus - 1
    BY <1>3, <1>6, StealDist
  <2> QED
    BY <2>1, <1>2, <1>3, <1>4, StealDist
<1> QED
  BY <1>1, <1>2, <1>5, <1>6

\* The fetch_add of lock() draws the ticket after the last one.
LEMMA StealTake ==
    ASSUME Steal!StealInv, Steal!StealTypeOK', NEW c \in CPUs, Steal!TakeTicket(c)
    PROVE  Steal!StealInv'
<1> DEFINE n == Cardinality(Steal!Out)
<1>0. Steal!StealTypeOK
  BY DEF Steal!StealInv
<1>1. PICK b \in Steal!Word : Steal!TicketsFrom(b)
  BY DEF Steal!StealInv
<1>2. c \notin Steal!Out /\ Steal!Out' = Steal!Out \cup {c}
  BY <1>0 DEF Steal!TakeTicket, Steal!Goto, Steal!Out, Steal!StealTypeOK
<1>3. Cardinality(Steal!Out') = n + 1 /\ n \in Nat
  BY <1>2, StealOutFinite, FS_AddElement
<1>4. n < Modulus - 1
  <2>1. Steal!Out' \subseteq CPUs
    BY DEF Steal!Out
  <2>2. n + 1 <= Cardinality(CPUs)
    BY <2>1, <1>3, CPUsAssumption, FS_Subset
  <2> QED
    BY <2>2, <1>3, StealOutFinite
<1>5. /\ ticket2' = Steal!Inc(ticket2) /\ users2' = users2
      /\ ticket2 \in Steal!Word /\ users2 \in Steal!Word
      /\ my2'[c] = ticket2 /\ \A d \in CPUs \ {c} : my2'[d] = my2[d]
      /\ pc2'[c] = "spin" /\ pc2[c] = "idle" /\ \A d \in CPUs \ {c} : pc2'[d] = pc2[d]
  BY <1>0 DEF Steal!TakeTicket, Steal!Goto, Steal!StealTypeOK
<1>6. Steal!Dist(ticket2, b) = n /\ \A d \in Steal!Out : Steal!Dist(my2[d], b) < n
  BY <1>1, StealCardinality DEF Steal!TicketsFrom
<1>7. Steal!Dist(ticket2', b) = n + 1
  BY <1>4, <1>5, <1>6, StealDist
<1>8. \A d \in Steal!Out : my2[d] # ticket2 /\ d \in CPUs \ {c} /\ my2'[d] = my2[d]
  <2> SUFFICES ASSUME NEW d \in Steal!Out
               PROVE  my2[d] # ticket2 /\ d \in CPUs \ {c} /\ my2'[d] = my2[d]
    OBVIOUS
  <2>1. d \in CPUs \ {c}
    BY <1>2 DEF Steal!Out
  <2>2. my2[d] # ticket2
    BY <1>3, <1>6
  <2> QED
    BY <2>1, <2>2, <1>5
<1>9. \A d \in Steal!Out' : Steal!Dist(my2'[d], b) < n + 1
  <2>1. \A d \in Steal!Out : Steal!Dist(my2[d], b) \in Int
    BY <1>0, <1>8, StealDist DEF Steal!StealTypeOK
  <2> QED
    BY <2>1, <1>2, <1>3, <1>5, <1>6, <1>8
<1>10. \A d, e \in Steal!Out' : my2'[d] = my2'[e] => d = e
  BY <1>1, <1>2, <1>5, <1>8 DEF Steal!TicketsFrom
<1>11. (\A d \in CPUs : pc2'[d] # "steal") => users2' = b
  BY <1>1, <1>5 DEF Steal!TicketsFrom
<1>12. \A d \in CPUs : pc2'[d] = "steal" => my2'[d] = b /\ b \in {users2', Steal!Inc(users2)'}
  BY <1>1, <1>5 DEF Steal!TicketsFrom, Steal!Inc
<1>13. \A d \in CPUs : pc2'[d] \in {"cs", "drop"}
            => my2'[d] = users2' /\ \A e \in CPUs : pc2'[e] # "steal"
  BY <1>1, <1>5 DEF Steal!TicketsFrom
<1> HIDE DEF n
<1>14. Steal!TicketsFrom(b)'
  BY <1>3, <1>7, <1>9, <1>10, <1>11, <1>12, <1>13, StealCardinality DEF Steal!TicketsFrom, Steal!Dist, n
<1> QED
  BY <1>14 DEF Steal!StealInv, Steal!Word

\* The drop of a guard, stolen or not, retires the first ticket.
LEMMA StealRelease ==
    ASSUME Steal!StealInv, Steal!StealTypeOK', NEW c \in CPUs,
           Steal!StealDrop(c) \/ Steal!Unlock(c)
    PROVE  Steal!StealInv'
<1> DEFINE n == Cardinality(Steal!Out)
<1>0. Steal!StealTypeOK
  BY DEF Steal!StealInv
<1>1. PICK b \in Steal!Word : Steal!TicketsFrom(b)
  BY DEF Steal!StealInv
<1>2. /\ pc2[c] \in {"cs", "drop"} /\ pc2'[c] = "sev" /\ \A d \in CPUs \ {c} : pc2'[d] = pc2[d]
      /\ users2' = Steal!Inc(users2) /\ ticket2' = ticket2 /\ my2' = my2
      /\ ticket2 \in Steal!Word /\ users2 \in Steal!Word /\ my2 \in [CPUs -> Steal!Word]
  BY <1>0 DEF Steal!StealDrop, Steal!Unlock, Steal!Goto, Steal!StealTypeOK
<1>3. c \in Steal!Out /\ Steal!Out' = Steal!Out \ {c}
  BY <1>2 DEF Steal!Out
<1>4. Cardinality(Steal!Out') = n - 1 /\ n \in Nat
  BY <1>3, StealOutFinite, FS_RemoveElement
<1>5. /\ my2[c] = users2 /\ b = users2
      /\ \A d \in CPUs : pc2[d] # "steal"
  BY <1>1, <1>2 DEF Steal!TicketsFrom
<1>6. /\ Steal!Dist(ticket2, b) = n
      /\ \A d \in Steal!Out : Steal!Dist(my2[d], b) < n
  BY <1>1, StealCardinality DEF Steal!TicketsFrom
<1>7. ticket2 # b
  <2>1. Steal!Dist(my2[c], b) < n /\ Steal!Dist(my2[c], b) = 0
    BY <1>2, <1>3, <1>5, <1>6, StealDist
  <2> QED
    BY <2>1, <1>2, <1>6, StealDist
<1>8. Steal!Dist(ticket2, Steal!Inc(b)) = n - 1
  BY <1>2, <1>6, <1>7, StealDist
<1>9. \A d \in Steal!Out' : Steal!Dist(my2[d], Steal!Inc(b)) < n - 1
  <2> SUFFICES ASSUME NEW d \in Steal!Out' PROVE Steal!Dist(my2[d], Steal!Inc(b)) < n - 1
    OBVIOUS
  <2>1. d \in Steal!Out /\ d # c /\ d \in CPUs /\ my2[d] \in Steal!Word
    BY <1>2, <1>3 DEF Steal!Out
  <2>2. my2[d] # b
    BY <2>1, <1>1, <1>3, <1>5 DEF Steal!TicketsFrom
  <2> QED
    BY <2>1, <2>2, <1>4, <1>6, StealDist
<1>10. \A d, e \in Steal!Out' : my2'[d] = my2'[e] => d = e
  BY <1>1, <1>2, <1>3 DEF Steal!TicketsFrom
<1>11. \A d \in CPUs : pc2'[d] # "steal"
  BY <1>2, <1>5
<1>12. \A d \in CPUs : pc2'[d] \notin {"cs", "drop"}
  <2> SUFFICES ASSUME NEW d \in CPUs, d # c, pc2[d] \in {"cs", "drop"} PROVE FALSE
    BY <1>2
  <2>1. d \in Steal!Out /\ my2[d] = users2
    BY <1>1 DEF Steal!Out, Steal!TicketsFrom
  <2> QED
    BY <2>1, <1>1, <1>3, <1>5 DEF Steal!TicketsFrom
<1>13. Steal!Inc(b) \in Steal!Word
  BY <1>1, StealDist
<1> HIDE DEF n
<1>14. Steal!TicketsFrom(users2)'
  BY <1>2, <1>4, <1>5, <1>8, <1>9, <1>10, <1>11, <1>12, StealCardinality
  DEF Steal!TicketsFrom, Steal!Dist, n
<1> QED
  BY <1>14 DEF Steal!StealInv, Steal!StealTypeOK, Steal!Word

\* The fetch_add of steal(), while no other core is at the lock: the ticket it
\* draws becomes the only one that is outstanding.
LEMMA StealTicketInv ==
    ASSUME Steal!StealInv, Steal!StealTypeOK', QuietPanic, NEW c \in CPUs, Steal!StealTicket(c)
    PROVE  Steal!StealInv'
<1>0. Steal!StealTypeOK
  BY DEF Steal!StealInv
<1>1. PICK b \in Steal!Word : Steal!TicketsFrom(b)
  BY DEF Steal!StealInv
<1>2. /\ pc2[c] \in {"idle", "cs"} /\ pc2'[c] = "steal"
      /\ \A d \in CPUs \ {c} : pc2'[d] = pc2[d] /\ pc2[d] \in {"idle", "sev"}
      /\ users2' = users2 /\ ticket2' = Steal!Inc(ticket2) /\ my2'[c] = ticket2
      /\ ticket2 \in Steal!Word /\ users2 \in Steal!Word
  BY <1>0 DEF Steal!StealTicket, Steal!MayPanic, Steal!StealTypeOK
<1>3. Steal!Out' = {c} /\ users2 = b /\ Steal!Out \subseteq {c}
  BY <1>1, <1>2 DEF Steal!Out, Steal!TicketsFrom
<1>4. ticket2 \in {users2, Steal!Inc(users2)}
  <2>1. CASE Steal!Out = {}
    <3>1. Steal!Dist(ticket2, b) = 0
      BY <1>1, <2>1, FS_EmptySet, StealCardinality DEF Steal!TicketsFrom
    <3> QED
      BY <3>1, <1>2, <1>3, StealDist
  <2>2. CASE Steal!Out = {c}
    <3>1. Steal!Dist(ticket2, b) = 1
      BY <1>1, <2>2, FS_Singleton, StealCardinality DEF Steal!TicketsFrom
    <3> QED
      BY <3>1, <1>2, <1>3, ModulusAssumption DEF Steal!Dist, Steal!Inc, Steal!Word
  <2> QED
    BY <2>1, <2>2, <1>3
<1>5. Cardinality(Steal!Out') = 1
  BY <1>3, FS_Singleton
<1>6. Modulus \in Nat /\ Modulus > 1
  <2>1. {c} \subseteq CPUs /\ Cardinality({c}) = 1
    BY FS_Singleton
  <2>2. 1 <= Cardinality(CPUs)
    BY <2>1, CPUsAssumption, FS_Subset
  <2> QED
    BY <2>2, StealOutFinite
<1>7. Steal!Dist(ticket2', ticket2) = 1 /\ Steal!Dist(ticket2, ticket2) = 0
  BY <1>2, <1>6, StealDist
<1>8. \A d \in CPUs : pc2'[d] \notin {"cs", "drop"} /\ (pc2'[d] = "steal" => d = c)
  BY <1>2
<1>9. \E d \in CPUs : pc2'[d] = "steal"
  BY <1>2
<1>10. \A d \in CPUs : pc2'[d] = "steal" => my2'[d] = ticket2 /\ ticket2 \in {users2', Steal!Inc(users2)'}
  BY <1>2, <1>4, <1>8 DEF Steal!Inc
<1>11. PICK t \in Steal!Word : t = ticket2
  BY <1>2
<1>12. Steal!TicketsFrom(t)'
  BY <1>2, <1>3, <1>5, <1>7, <1>8, <1>9, <1>10, <1>11, StealCardinality DEF Steal!TicketsFrom, Steal!Dist
<1> QED
  BY <1>12 DEF Steal!StealInv, Steal!Word

\* The store of steal() to `users` makes its ticket the first one.
LEMMA StealUsersInv ==
    ASSUME Steal!StealInv, Steal!StealTypeOK', NEW c \in CPUs, Steal!StealUsers(c)
    PROVE  Steal!StealInv'
<1>0. Steal!StealTypeOK
  BY DEF Steal!StealInv
<1>1. PICK b \in Steal!Word : Steal!TicketsFrom(b)
  BY DEF Steal!StealInv
<1>2. /\ pc2[c] = "steal" /\ pc2'[c] = "drop" /\ \A d \in CPUs \ {c} : pc2'[d] = pc2[d]
      /\ users2' = my2[c] /\ ticket2' = ticket2 /\ my2' = my2
  BY <1>0 DEF Steal!StealUsers, Steal!Goto, Steal!StealTypeOK
<1>3. Steal!Out' = Steal!Out /\ c \in Steal!Out
  BY <1>2 DEF Steal!Out
<1>4. my2[c] = b /\ \A d \in CPUs : pc2[d] \notin {"cs", "drop"}
  BY <1>1, <1>2 DEF Steal!TicketsFrom
<1>5. \A d \in CPUs : pc2'[d] # "steal"
  <2> SUFFICES ASSUME NEW d \in CPUs, d # c, pc2[d] = "steal" PROVE FALSE
    BY <1>2
  <2>1. d \in Steal!Out
    BY DEF Steal!Out
  <2> QED
    BY <2>1, <1>0, <1>1, <1>2, StealAlone
<1>6. \A d \in CPUs : pc2'[d] \in {"cs", "drop"} => d = c
  BY <1>2, <1>4
<1>7. Steal!TicketsFrom(b)'
  BY <1>1, <1>2, <1>3, <1>4, <1>5, <1>6 DEF Steal!TicketsFrom, Steal!Dist
<1> QED
  BY <1>7 DEF Steal!StealInv, Steal!Word

\* A core that finds its ticket served finds the lock free, also while another
\* core is between the two accesses of steal().
LEMMA StealEnterFree ==
    ASSUME Steal!StealInv, NEW c \in CPUs, Steal!Enter(c)
    PROVE  \A d \in CPUs : pc2[d] \notin {"cs", "steal", "drop"}
<1>0. Steal!StealTypeOK
  BY DEF Steal!StealInv
<1>1. PICK b \in Steal!Word : Steal!TicketsFrom(b)
  BY DEF Steal!StealInv
<1>2. c \in Steal!Out /\ my2[c] = users2 /\ pc2[c] = "spin"
  BY DEF Steal!Enter, Steal!Goto, Steal!Out
<1> SUFFICES ASSUME NEW d \in CPUs, pc2[d] \in {"cs", "steal", "drop"} PROVE FALSE
  OBVIOUS
<1>3. CASE pc2[d] = "steal"
  BY <1>0, <1>1, <1>2, <1>3, StealAlone
<1>4. CASE pc2[d] # "steal"
  <2>1. d \in Steal!Out /\ my2[d] = users2
    BY <1>1, <1>4 DEF Steal!Out, Steal!TicketsFrom
  <2>2. d = c
    BY <2>1, <1>1, <1>2 DEF Steal!TicketsFrom
  <2> QED
    BY <2>2, <1>2, <1>4
<1> QED
  BY <1>3, <1>4

\* The other steps leave the lock words and the tickets alone.
LEMMA StealOther ==
    ASSUME Steal!StealInv, Steal!StealTypeOK', NEW c \in CPUs,
           Steal!Enter(c) \/ Steal!NotYet(c) \/ Steal!Wfe(c) \/ Steal!Sev(c)
    PROVE  Steal!StealInv'
<1>0. Steal!StealTypeOK
  BY DEF Steal!StealInv
<1>1. PICK b \in Steal!Word : Steal!TicketsFrom(b)
  BY DEF Steal!StealInv
<1>2. Steal!Out' = Steal!Out /\ UNCHANGED <<ticket2, users2, my2>>
  BY <1>0 DEF Steal!Enter, Steal!NotYet, Steal!Wfe, Steal!Sev, Steal!Goto, Steal!Out, Steal!StealTypeOK
<1>3. \A d \in CPUs : (pc2'[d] = "steal") <=> (pc2[d] = "steal")
  BY <1>0 DEF Steal!Enter, Steal!NotYet, Steal!Wfe, Steal!Sev, Steal!Goto, Steal!StealTypeOK
<1>4. \A d \in CPUs : pc2'[d] \in {"cs", "drop"}
            => my2[d] = users2 /\ \A e \in CPUs : pc2[e] # "steal"
  <2>1. CASE Steal!Enter(c)
    <3>1. \A d \in CPUs : pc2[d] \notin {"cs", "steal", "drop"}
      BY <2>1, StealEnterFree
    <3>2. my2[c] = users2 /\ \A d \in CPUs \ {c} : pc2'[d] = pc2[d]
      BY <2>1, <1>0 DEF Steal!Enter, Steal!Goto, Steal!StealTypeOK
    <3> QED
      BY <3>1, <3>2
  <2>2. CASE Steal!NotYet(c) \/ Steal!Wfe(c) \/ Steal!Sev(c)
    <3>1. \A d \in CPUs : pc2'[d] \in {"cs", "drop"} => pc2[d] \in {"cs", "drop"}
      BY <2>2, <1>0 DEF Steal!NotYet, Steal!Wfe, Steal!Sev, Steal!Goto, Steal!StealTypeOK
    <3> QED
      BY <3>1, <1>1 DEF Steal!TicketsFrom
  <2> QED
    BY <2>1, <2>2
<1>5. Steal!TicketsFrom(b)'
  BY <1>1, <1>2, <1>3, <1>4 DEF Steal!TicketsFrom, Steal!Dist, Steal!Inc
<1> QED
  BY <1>5 DEF Steal!StealInv, Steal!Word

LEMMA StealTypes ==
    ASSUME Steal!StealTypeOK, Steal!StealNext
    PROVE  Steal!StealTypeOK'
<1>1. Modulus \in Nat /\ Modulus > 0
  BY StealOutFinite
<1> USE <1>1 DEF Steal!StealTypeOK, Steal!Word, Steal!PC, Steal!Inc, Steal!Goto
<1>2. PICK c \in CPUs :
        \/ Steal!StealTicket(c) \/ Steal!StealUsers(c) \/ Steal!StealDrop(c)
        \/ Steal!LogMessage(c) \/ Steal!PanicMessage(c) \/ Steal!LockStep(c)
  BY DEF Steal!StealNext
<1>3. CASE Steal!StealTicket(c)
  BY <1>3 DEF Steal!StealTicket
<1>4. CASE Steal!StealUsers(c) \/ Steal!StealDrop(c)
  BY <1>4 DEF Steal!StealUsers, Steal!StealDrop
<1>5. CASE Steal!LogMessage(c) \/ Steal!PanicMessage(c)
  BY <1>5 DEF Steal!LogMessage, Steal!PanicMessage, Steal!TakeTicket
<1>6. CASE Steal!LockStep(c)
  <2>1. CASE Steal!Enter(c) \/ Steal!NotYet(c) \/ Steal!Unlock(c)
    BY <1>6, <2>1 DEF Steal!LockStep, Steal!Enter, Steal!NotYet, Steal!Unlock
  <2>2. CASE Steal!Wfe(c) \/ Steal!Sev(c)
    BY <1>6, <2>2 DEF Steal!LockStep, Steal!Wfe, Steal!Sev
  <2> QED
    BY <1>6, <2>1, <2>2 DEF Steal!LockStep, Steal!Step
<1> QED
  BY <1>2, <1>3, <1>4, <1>5, <1>6

LEMMA StealStepInv ==
    ASSUME Steal!StealInv, QuietPanic, [Steal!StealNext]_(Steal!stealVars)
    PROVE  Steal!StealInv'
<1>1. CASE Steal!StealNext
  <2>1. Steal!StealTypeOK'
    BY <1>1, StealTypes DEF Steal!StealInv
  <2> QED
    BY <1>1, <2>1, StealTake, StealRelease, StealTicketInv, StealUsersInv, StealOther
    DEF Steal!StealNext, Steal!LogMessage, Steal!PanicMessage, Steal!LockStep, Steal!Step
<1>2. CASE UNCHANGED Steal!stealVars
  BY <1>2
  DEF Steal!stealVars, Steal!vars, Steal!StealInv, Steal!StealTypeOK, Steal!TicketsFrom, Steal!Out,
      Steal!Dist, Steal!Inc, Steal!Word
<1> QED
  BY <1>1, <1>2

LEMMA StealInitInv == Steal!StealInit => Steal!StealInv
<1> SUFFICES ASSUME Steal!StealInit PROVE Steal!StealInv
  OBVIOUS
<1>1. Modulus \in Nat /\ Modulus > 0
  BY StealOutFinite
<1>2. Steal!StealTypeOK
  BY <1>1 DEF Steal!StealInit, Steal!Init, Steal!StealTypeOK, Steal!Word, Steal!PC
<1>3. Steal!Out = {}
  BY DEF Steal!StealInit, Steal!Init, Steal!Out
<1>4. Steal!TicketsFrom(0)
  BY <1>3, FS_EmptySet, StealCardinality DEF Steal!StealInit, Steal!Init, Steal!TicketsFrom, Steal!Dist
<1> QED
  BY <1>1, <1>2, <1>4 DEF Steal!StealInv, Steal!Word
-----------------------------------------------------------------------------
(* RwLock *)

RwIInv == RW!TypeOK /\ RW!StateInv

\* The Cardinality of the module that RwLock extends is this module's.
LEMMA RwCardinality == ASSUME NEW S PROVE RW!Cardinality(S) = Cardinality(S)
BY Zenon DEF RW!Cardinality, Cardinality

LEMMA RwReadersFinite ==
    /\ IsFiniteSet(RW!Readers)
    /\ Cardinality(RW!Readers) \in Nat
    /\ Cardinality(RW!Readers) = 0 <=> RW!Readers = {}
BY CPUsAssumption, FS_Subset, FS_CardinalityType, FS_EmptySet DEF RW!Readers

\* A non-negative state means that no writer has claimed the lock; a state
\* equal to WRITER means that a writer has and no reader is left.
LEMMA RwStateMeaning ==
    ASSUME RwIInv
    PROVE  /\ state >= 0 => RW!Claimants = {} /\ state = Cardinality(RW!Readers)
           /\ state = RW!WRITER => RW!Readers = {}
           /\ RW!Writers \subseteq RW!Claimants
<1>1. RW!Writers \subseteq RW!Claimants
  BY DEF RW!Writers, RW!Claimants
<1>2. /\ state >= 0 => RW!Claimants = {} /\ state = Cardinality(RW!Readers)
      /\ state = RW!WRITER => RW!Readers = {}
  BY RwCardinality, RwReadersFinite, MaxReadersAssumption DEF RwIInv, RW!StateInv, RW!WRITER, RW!READERS
<1> QED
  BY <1>1, <1>2

\* ReadAcquire adds one read guard to an unclaimed lock that is not full.
LEMMA RwReadAcquireInv ==
    ASSUME RwIInv, NEW c \in CPUs, RW!ReadAcquire(c)
    PROVE  RwIInv'
<1>1. /\ RW!Readers' = RW!Readers \cup {c} /\ c \notin RW!Readers
      /\ RW!Claimants' = RW!Claimants /\ RW!Writers' = RW!Writers
  BY DEF RW!ReadAcquire, RW!Goto, RW!Readers, RW!Claimants, RW!Writers, RwIInv, RW!TypeOK
<1>2. Cardinality(RW!Readers') = Cardinality(RW!Readers) + 1
  BY <1>1, RwReadersFinite, FS_AddElement
<1>3. state >= 0 /\ state # RW!READERS /\ state' = state + 1
  BY DEF RW!ReadAcquire
<1>4. RW!Claimants = {} /\ state = Cardinality(RW!Readers) /\ RW!Writers = {}
  BY <1>3, RwStateMeaning
<1>5. RW!TypeOK'
  BY <1>3, MaxReadersAssumption
  DEF RW!ReadAcquire, RW!Goto, RwIInv, RW!TypeOK, RW!LockState, RW!WRITER, RW!READERS, RW!PC
<1>6. state < RW!READERS
  BY <1>3, MaxReadersAssumption DEF RwIInv, RW!TypeOK, RW!LockState, RW!WRITER, RW!READERS
<1>7. RW!READERS \in Int
  BY MaxReadersAssumption DEF RW!READERS
<1>8. Cardinality(RW!Readers') <= RW!READERS' /\ state' = Cardinality(RW!Readers')
  BY <1>2, <1>3, <1>4, <1>6, <1>7, RwReadersFinite DEF RW!READERS
<1> QED
  BY RwCardinality, <1>1, <1>4, <1>5, <1>8 DEF RwIInv, RW!StateInv

\* WriteClaim makes the core the only claimant; with no reader it also
\* becomes the writer.
LEMMA RwWriteClaimInv ==
    ASSUME RwIInv, NEW c \in CPUs, RW!WriteClaim(c)
    PROVE  RwIInv'
<1>1. state >= 0 /\ state' = state + RW!WRITER /\ state = seen[c]
  BY DEF RW!WriteClaim
<1>2. RW!Claimants = {} /\ state = Cardinality(RW!Readers) /\ RW!Writers = {}
  BY <1>1, RwStateMeaning
<1>3. RW!Readers' = RW!Readers /\ RW!Claimants' = RW!Claimants \cup {c}
  BY DEF RW!WriteClaim, RW!Goto, RW!Readers, RW!Claimants, RwIInv, RW!TypeOK
<1>4. RW!Writers' # {} => RW!Readers' = {}
  <2>1. RW!Writers' # {} => seen[c] = 0
    BY <1>2 DEF RW!WriteClaim, RW!Goto, RW!Writers, RwIInv, RW!TypeOK
  <2> QED
    BY <2>1, <1>1, <1>2, <1>3, RwReadersFinite
<1>5. RW!TypeOK'
  BY <1>1, MaxReadersAssumption
  DEF RW!WriteClaim, RW!Goto, RwIInv, RW!TypeOK, RW!LockState, RW!WRITER, RW!READERS, RW!PC
<1>6. state' = Cardinality(RW!Readers') + RW!WRITER' /\ Cardinality(RW!Readers') <= RW!READERS'
  BY RwCardinality, <1>1, <1>2, <1>3 DEF RwIInv, RW!StateInv, RW!WRITER, RW!READERS
<1> QED
  BY RwCardinality, <1>2, <1>3, <1>4, <1>5, <1>6 DEF RwIInv, RW!StateInv

\* The drop of a read guard takes one off the count, claimed or not.
LEMMA RwReadUnlockInv ==
    ASSUME RwIInv, NEW c \in CPUs, RW!ReadUnlock(c)
    PROVE  RwIInv'
<1>1. /\ c \in RW!Readers /\ RW!Readers' = RW!Readers \ {c}
      /\ RW!Claimants' = RW!Claimants /\ RW!Writers' = RW!Writers
  BY DEF RW!ReadUnlock, RW!Goto, RW!Readers, RW!Claimants, RW!Writers, RwIInv, RW!TypeOK
<1>2. Cardinality(RW!Readers') = Cardinality(RW!Readers) - 1
  BY <1>1, RwReadersFinite, FS_RemoveElement
<1>3. state' = state - 1
  BY DEF RW!ReadUnlock
<1>4. Cardinality(RW!Readers) >= 1
  BY <1>1, RwReadersFinite
<1>5. state' = Cardinality(RW!Readers') + (IF RW!Claimants' = {} THEN 0 ELSE RW!WRITER')
  BY RwCardinality, <1>1, <1>2, <1>3, RwReadersFinite, MaxReadersAssumption
  DEF RwIInv, RW!StateInv, RW!WRITER
<1>6. Cardinality(RW!Readers') <= RW!READERS' /\ state' \in RW!LockState
  BY RwCardinality, <1>1, <1>2, <1>4, <1>5, RwReadersFinite, MaxReadersAssumption
  DEF RwIInv, RW!StateInv, RW!WRITER, RW!READERS, RW!LockState
<1>7. RW!TypeOK'
  BY <1>6 DEF RW!ReadUnlock, RW!Goto, RwIInv, RW!TypeOK, RW!PC, RW!LockState
<1> QED
  BY RwCardinality, <1>1, <1>5, <1>6, <1>7 DEF RwIInv, RW!StateInv

\* The drop of the write guard finds no reader and no other claimant.
LEMMA RwWriteUnlockInv ==
    ASSUME RwIInv, NEW c \in CPUs, RW!WriteUnlock(c)
    PROVE  RwIInv'
<1>1. c \in RW!Writers /\ c \in RW!Claimants
  BY DEF RW!WriteUnlock, RW!Goto, RW!Writers, RW!Claimants
<1>2. RW!Readers = {} /\ RW!Claimants = {c}
  BY RwCardinality, <1>1 DEF RwIInv, RW!StateInv
<1>3. RW!Readers' = {} /\ RW!Claimants' = {} /\ RW!Writers' = {}
  BY <1>2 DEF RW!WriteUnlock, RW!Goto, RW!Readers, RW!Claimants, RW!Writers, RwIInv, RW!TypeOK
<1>4. state' = 0
  BY DEF RW!WriteUnlock
<1>5. RW!TypeOK'
  BY <1>4, MaxReadersAssumption
  DEF RW!WriteUnlock, RW!Goto, RwIInv, RW!TypeOK, RW!LockState, RW!WRITER, RW!READERS, RW!PC
<1> QED
  BY RwCardinality, <1>3, <1>4, <1>5, FS_EmptySet, MaxReadersAssumption DEF RwIInv, RW!StateInv, RW!READERS

\* A claimant becomes the writer only when no reader is left.
LEMMA RwDrainedInv ==
    ASSUME RwIInv, NEW c \in CPUs, RW!Drained(c)
    PROVE  RwIInv'
<1>1. RW!Readers' = RW!Readers /\ RW!Claimants' = RW!Claimants /\ state' = state
  BY DEF RW!Drained, RW!Goto, RW!Readers, RW!Claimants, RwIInv, RW!TypeOK
<1>2. RW!Readers = {}
  BY RwStateMeaning DEF RW!Drained
<1>3. RW!TypeOK'
  BY DEF RW!Drained, RW!Goto, RwIInv, RW!TypeOK, RW!PC, RW!LockState
<1> QED
  BY RwCardinality, <1>1, <1>2, <1>3 DEF RwIInv, RW!StateInv, RW!WRITER, RW!READERS

\* The remaining steps change neither the state nor the guards.
LEMMA RwQuietInv ==
    ASSUME RwIInv, NEW c \in CPUs,
           \/ RW!Read(c) \/ RW!Write(c) \/ RW!Load(c) \/ RW!ReadRetry(c) \/ RW!ReadBlocked(c)
           \/ RW!WriteRetry(c) \/ RW!WriteBlocked(c) \/ RW!NotDrained(c) \/ RW!Wfe(c) \/ RW!Sev(c)
    PROVE  /\ RwIInv'
           /\ RW!Readers' = RW!Readers /\ RW!Writers' = RW!Writers /\ RW!Claimants' = RW!Claimants
<1> USE DEF RW!Goto, RwIInv, RW!TypeOK
<1>1. /\ RW!Readers' = RW!Readers /\ RW!Writers' = RW!Writers /\ RW!Claimants' = RW!Claimants
      /\ state' = state
  BY DEF RW!Read, RW!Write, RW!Load, RW!ReadRetry, RW!ReadBlocked, RW!WriteRetry, RW!WriteBlocked,
         RW!NotDrained, RW!Wfe, RW!Sev, RW!Readers, RW!Writers, RW!Claimants
<1>2. RW!TypeOK'
  <2>1. CASE RW!Read(c) \/ RW!Write(c) \/ RW!ReadBlocked(c) \/ RW!WriteBlocked(c) \/ RW!NotDrained(c)
    BY <2>1 DEF RW!Read, RW!Write, RW!ReadBlocked, RW!WriteBlocked, RW!NotDrained, RW!PC, RW!LockState
  <2>2. CASE RW!Load(c) \/ RW!ReadRetry(c) \/ RW!WriteRetry(c)
    BY <2>2 DEF RW!Load, RW!ReadRetry, RW!WriteRetry, RW!PC, RW!LockState
  <2>3. CASE RW!Wfe(c) \/ RW!Sev(c)
    BY <2>3 DEF RW!Wfe, RW!Sev, RW!PC, RW!LockState
  <2> QED
    BY <2>1, <2>2, <2>3
<1> QED
  BY RwCardinality, <1>1, <1>2 DEF RW!StateInv, RW!WRITER, RW!READERS

LEMMA RwStepInv == ASSUME RwIInv, [RW!Next]_(RW!vars) PROVE RwIInv'
<1>1. CASE RW!Next
  BY <1>1, RwReadAcquireInv, RwWriteClaimInv, RwReadUnlockInv, RwWriteUnlockInv, RwDrainedInv,
     RwQuietInv
  DEF RW!Next, RW!Step, RW!ReadStep, RW!WriteStep
<1>2. CASE UNCHANGED RW!vars
  BY RwCardinality, <1>2 DEF RW!vars, RwIInv, RW!TypeOK, RW!StateInv, RW!Readers, RW!Writers, RW!Claimants, RW!LockState,
              RW!WRITER, RW!READERS
<1> QED
  BY <1>1, <1>2

LEMMA RwInitInv == RW!Init => RwIInv
<1> SUFFICES ASSUME RW!Init PROVE RwIInv
  OBVIOUS
<1>1. RW!Readers = {} /\ RW!Writers = {} /\ RW!Claimants = {}
  BY DEF RW!Init, RW!Readers, RW!Writers, RW!Claimants
<1> QED
  BY RwCardinality, <1>1, FS_EmptySet, MaxReadersAssumption
  DEF RW!Init, RwIInv, RW!TypeOK, RW!StateInv, RW!LockState, RW!WRITER, RW!READERS, RW!PC
-----------------------------------------------------------------------------
(* The locks side by side *)

\* A step of MCLocks is a step of the lock in question and of no other.
LEMMA KindStep ==
    ASSUME [LocksNext]_locksVars
    PROVE  /\ lock_kind' = lock_kind
           /\ [Next]_vars
           /\ lock_kind = "ticket" => UNCHANGED pc2
           /\ lock_kind # "ticket" => UNCHANGED vars
           /\ lock_kind = "unfair" => [Unfair!Next]_(Unfair!vars)
           /\ lock_kind = "steal" => [Steal!StealNext]_(Steal!stealVars)
           /\ lock_kind = "sleeping" => [Sleeping!Next]_(Sleeping!vars)
           /\ lock_kind = "rw" => [RW!Next]_(RW!vars)
<1> USE DEF StepOf, locksVars, otherVars, sharedVars, unfairVars, stealVars, sleepingVars, rwVars
<1>1. CASE TicketNext
  BY <1>1 DEF TicketNext
<1>2. CASE UnfairNext
  BY <1>2 DEF UnfairNext
<1>3. CASE StealNext
  BY <1>3 DEF StealNext
<1>4. CASE SleepingNext
  BY <1>4 DEF SleepingNext
<1>5. CASE RwNext
  BY <1>5 DEF RwNext
<1>6. CASE UNCHANGED locksVars
  BY <1>6 DEF Unfair!vars, Steal!stealVars, Steal!vars, Sleeping!vars, RW!vars
<1> QED
  BY <1>1, <1>2, <1>3, <1>4, <1>5, <1>6 DEF LocksNext

Kinds == {"ticket", "unfair", "steal", "sleeping", "rw"}

LocksIInv == lock_kind \in Kinds /\ IInv /\ StateInv

LEMMA LocksInitInv == LocksInit => LocksIInv
<1> SUFFICES ASSUME LocksInit PROVE LocksIInv
  OBVIOUS
<1>1. IInv
  BY InitIInv DEF LocksInit
<1>2. UnfairIInv
  BY DEF LocksInit, Unfair!Init, UnfairIInv, Unfair!TypeOK, Unfair!FlagInv, Unfair!Holders, Unfair!PC
<1>3. Steal!StealInv
  BY StealInitInv DEF LocksInit
<1>4. Sleeping!FlagInv
  BY DEF LocksInit, Sleeping!Init, Sleeping!FlagInv, Sleeping!Holders, Sleeping!PC
<1>5. RwIInv
  BY RwInitInv DEF LocksInit
<1>6. lock_kind \in Kinds
  BY DEF LocksInit, Kinds
<1> QED
  BY <1>1, <1>2, <1>3, <1>4, <1>5, <1>6
  DEF LocksIInv, StateInv, UnfairIInv, RwIInv, Steal!StealInv

LEMMA LocksStepInv == LocksIInv /\ [LocksNext]_locksVars => LocksIInv'
<1> SUFFICES ASSUME LocksIInv, [LocksNext]_locksVars PROVE LocksIInv'
  OBVIOUS
<1>1. IInv'
  BY KindStep, StepIInv DEF LocksIInv
<1>2. lock_kind = "unfair" => (Unfair!TypeOK /\ Unfair!FlagInv)'
  BY KindStep, UnfairStepInv DEF LocksIInv, StateInv, UnfairIInv
<1>3. lock_kind = "steal" => (Steal!StealTypeOK /\ (QuietPanic => Steal!StealInv))'
  <2> SUFFICES ASSUME lock_kind = "steal"
               PROVE  Steal!StealTypeOK' /\ (QuietPanic => Steal!StealInv')
    OBVIOUS
  <2>1. [Steal!StealNext]_(Steal!stealVars) /\ Steal!StealTypeOK /\ (QuietPanic => Steal!StealInv)
    BY KindStep DEF LocksIInv, StateInv
  <2>2. Steal!StealTypeOK'
    BY <2>1, StealTypes DEF Steal!stealVars, Steal!vars, Steal!StealTypeOK, Steal!Word
  <2> QED
    BY <2>1, <2>2, StealStepInv
<1>4. lock_kind = "sleeping" => Sleeping!FlagInv'
  BY KindStep, SleepingStepInv DEF LocksIInv, StateInv
<1>5. lock_kind = "rw" => (RW!TypeOK /\ RW!StateInv)'
  BY KindStep, RwStepInv DEF LocksIInv, StateInv, RwIInv
<1>6. lock_kind' = lock_kind
  BY KindStep
<1> QED
  BY <1>1, <1>2, <1>3, <1>4, <1>5, <1>6 DEF LocksIInv, StateInv

LEMMA LocksAlways == LocksSpec => []LocksIInv
BY LocksInitInv, LocksStepInv, PTL DEF LocksSpec

\* The ticket discipline holds in every reachable state, wrap-around included.
THEOREM TicketDiscipline == LocksSpec => []TicketsInv
<1>1. LocksIInv => TicketsInv
  BY DEF LocksIInv, IInv
<1> QED
  BY <1>1, LocksAlways, PTL

\* A TicketLock admits one core at a time (sync.rs:217).
THEOREM MutualExclusionHolds == LocksSpec => []MutualExclusion
BY TicketDiscipline, IInvExclusion, PTL

\* Cores enter in the order in which their fetch_add on `ticket` took effect: the
\* queue that the lock words encode is a FIFO queue.
THEOREM TicketLockIsFair == LocksSpec => ImplementsFairLock
<1>1. LocksInit => FairLock!Init
  BY FairInit DEF LocksInit
<1>2. ASSUME LocksIInv, LocksIInv', [LocksNext]_locksVars
      PROVE  [FairLock!Next]_<<WaitQueue, Holders>>
  <2>1. Ordered
    BY <1>2, IInvOrdered DEF LocksIInv
  <2>2. IInv' => Ordered'
    BY IInvOrdered, PTL
  <2>3. Ordered' /\ IInv
    BY <1>2, <2>2 DEF LocksIInv
  <2>4. [Next]_vars
    BY <1>2, KindStep
  <2> QED
    BY <2>1, <2>3, <2>4, FairLockStep
<1> QED
  BY <1>1, <1>2, LocksAlways, PTL DEF LocksSpec, ImplementsFairLock, FairLock!Spec

\* The words of a lock say who has it, whatever the interleaving of the accesses
\* to them: the flag of an UnfairSpinlock (sync.rs:145) and of a SleepingMutex, the
\* i32 of a RwLock, the tickets of a FairSpinlock that a panicking core steals.
THEOREM LockWordsAreExact == LocksSpec => []StateInv
<1>1. LocksIInv => StateInv
  BY DEF LocksIInv
<1> QED
  BY <1>1, LocksAlways, PTL

\* A claimed RwLock admits no new reader.
THEOREM WriterPreferenceHolds == LocksSpec => WriterPreference
<1>1. ASSUME LocksIInv, LocksIInv', [LocksNext]_locksVars
      PROVE  [RW!Claimants # {} => RW!Readers' \subseteq RW!Readers]_(RW!vars)
  <2> SUFFICES ASSUME RW!Claimants # {} PROVE RW!Readers' \subseteq RW!Readers
    OBVIOUS
  <2>0. lock_kind \in Kinds /\ lock_kind' = lock_kind
    BY <1>1, KindStep DEF LocksIInv
  <2>1. CASE lock_kind = "ticket"
    BY <2>1, <1>1, KindStep DEF RW!Readers
  <2>2. CASE lock_kind = "unfair"
    BY <2>0, <2>2, <1>1 DEF LocksIInv, StateInv, Unfair!TypeOK, Unfair!PC, RW!Readers
  <2>3. CASE lock_kind = "steal"
    BY <2>0, <2>3, <1>1 DEF LocksIInv, StateInv, Steal!StealTypeOK, Steal!PC, RW!Readers
  <2>4. CASE lock_kind = "sleeping"
    BY <2>0, <2>4, <1>1 DEF LocksIInv, StateInv, Sleeping!FlagInv, Sleeping!PC, RW!Readers
  <2>5. CASE lock_kind = "rw"
    <3>1. RwIInv /\ [RW!Next]_(RW!vars)
      BY <2>5, <1>1, KindStep DEF LocksIInv, StateInv, RwIInv
    <3>2. \A c \in CPUs : ~RW!ReadAcquire(c)
      BY <3>1, RwStateMeaning DEF RW!ReadAcquire
    <3>3. CASE RW!Next
      BY <3>1, <3>2, <3>3
      DEF RW!Next, RwIInv, RW!TypeOK, RW!Step, RW!ReadStep, RW!WriteStep, RW!Readers, RW!Goto,
          RW!Read, RW!Write, RW!Load, RW!ReadRetry, RW!ReadBlocked, RW!ReadUnlock,
          RW!WriteClaim, RW!WriteRetry, RW!WriteBlocked, RW!Drained, RW!NotDrained,
          RW!WriteUnlock, RW!Wfe, RW!Sev
    <3>4. CASE UNCHANGED RW!vars
      BY <3>4 DEF RW!vars, RW!Readers
    <3> QED
      BY <3>1, <3>3, <3>4
  <2> QED
    BY <2>0, <2>1, <2>2, <2>3, <2>4, <2>5 DEF Kinds
<1> QED
  BY <1>1, LocksAlways, PTL DEF LocksSpec, WriterPreference, RW!WriterPreference
-----------------------------------------------------------------------------
\* What a step of the abstract lock looks like, whichever lock takes it.
LEMMA AbstractStep ==
    ASSUME \/ \E c \in CPUs : /\ Guards = {} /\ ReadGuards = {} /\ Guards' = {c}
                              /\ ReadGuards' = ReadGuards
           \/ \E c \in CPUs : /\ Guards = {c} /\ Guards' = {} /\ ReadGuards' = ReadGuards
           \/ \E c \in CPUs : /\ Guards = {} /\ Guards' = Guards /\ c \notin ReadGuards
                              /\ ReadGuards' = ReadGuards \cup {c}
           \/ \E c \in CPUs : /\ Guards' = Guards /\ c \in ReadGuards
                              /\ ReadGuards' = ReadGuards \ {c}
           \/ Guards' = Guards /\ ReadGuards' = ReadGuards
    PROVE  [OneLock!Next]_<<ReadGuards, Guards>>
BY DEF OneLock!Next, OneLock!BeginRead, OneLock!EndRead, OneLock!BeginWrite, OneLock!EndWrite

LEMMA TicketIsALock ==
    ASSUME IInv, [Next]_vars, lock_kind = "ticket", lock_kind' = "ticket"
    PROVE  [OneLock!Next]_<<ReadGuards, Guards>>
<1>1. /\ Guards = Holders /\ Guards' = Holders' /\ ReadGuards = {} /\ ReadGuards' = {}
  BY DEF Guards, ReadGuards
<1>2. ASSUME NEW c \in CPUs, Enter(c) PROVE Holders = {} /\ Holders' = {c}
  <2>1. Holders = {}
    BY <1>2 DEF Enter, Goto, Holders, Tickets, IInv, TicketsInv
  <2>2. Holders' = Holders \cup {c}
    BY <1>2 DEF Enter, Goto, Holders, IInv, TypeOK
  <2> QED
    BY <2>1, <2>2
<1>3. ASSUME NEW c \in CPUs, Unlock(c) PROVE Holders = {c} /\ Holders' = {}
  <2>1. Holders = {c}
    BY <1>3, IInvExclusion DEF IInv, Unlock, Goto, Holders, MutualExclusion
  <2>2. Holders' = Holders \ {c}
    BY <1>3 DEF Unlock, Goto, Holders, IInv, TypeOK
  <2> QED
    BY <2>1, <2>2
<1>4. ASSUME NEW c \in CPUs, TakeTicket(c) \/ NotYet(c) \/ Wfe(c) \/ Sev(c) \/ OtherEvent(c)
      PROVE  Holders' = Holders
  BY <1>4 DEF TakeTicket, NotYet, Wfe, Sev, OtherEvent, Goto, Holders, IInv, TypeOK
<1>5. CASE UNCHANGED vars
  <2>1. Holders' = Holders
    BY <1>5 DEF vars, Holders
  <2> QED
    BY <2>1, <1>1, AbstractStep
<1>6. CASE Next
  <2>1. PICK c \in CPUs : \/ TakeTicket(c) \/ Enter(c) \/ NotYet(c) \/ Wfe(c)
                          \/ Unlock(c) \/ Sev(c) \/ OtherEvent(c)
    BY <1>6 DEF Next
  <2>2. \/ Holders = {} /\ Holders' = {c}
        \/ Holders = {c} /\ Holders' = {}
        \/ Holders' = Holders
    BY <2>1, <1>2, <1>3, <1>4
  <2> QED
    BY <2>2, <1>1, AbstractStep
<1> QED
  BY <1>5, <1>6

LEMMA UnfairIsALock ==
    ASSUME UnfairIInv, [Unfair!Next]_(Unfair!vars), lock_kind = "unfair", lock_kind' = "unfair"
    PROVE  [OneLock!Next]_<<ReadGuards, Guards>>
<1>1. /\ Guards = Unfair!Holders /\ Guards' = Unfair!Holders'
      /\ ReadGuards = {} /\ ReadGuards' = {}
  BY DEF Guards, ReadGuards
<1>2. \/ \E c \in CPUs : Unfair!Holders = {} /\ Unfair!Holders' = {c}
      \/ \E c \in CPUs : Unfair!Holders = {c} /\ Unfair!Holders' = {}
      \/ Unfair!Holders' = Unfair!Holders
  <2> USE DEF UnfairIInv, Unfair!TypeOK, Unfair!FlagInv, Unfair!Holders, Unfair!Goto
  <2>1. ASSUME NEW c \in CPUs, Unfair!Acquire(c) PROVE Unfair!Holders = {} /\ Unfair!Holders' = {c}
    BY <2>1 DEF Unfair!Acquire
  <2>2. ASSUME NEW c \in CPUs, Unfair!Unlock(c) PROVE Unfair!Holders = {c} /\ Unfair!Holders' = {}
    BY <2>2 DEF Unfair!Unlock
  <2>3. ASSUME NEW c \in CPUs, Unfair!Ask(c) \/ Unfair!Busy(c) \/ Unfair!Wfe(c) \/ Unfair!Sev(c)
        PROVE  Unfair!Holders' = Unfair!Holders
    BY <2>3 DEF Unfair!Ask, Unfair!Busy, Unfair!Wfe, Unfair!Sev
  <2>4. CASE UNCHANGED Unfair!vars
    BY <2>4 DEF Unfair!vars
  <2> HIDE DEF Unfair!Holders, UnfairIInv
  <2> QED
    BY <2>1, <2>2, <2>3, <2>4 DEF Unfair!Next
<1> QED
  BY <1>1, <1>2, AbstractStep

LEMMA StealIsALock ==
    ASSUME Steal!StealInv, Steal!StealInv', [Steal!StealNext]_(Steal!stealVars),
           lock_kind = "steal", lock_kind' = "steal"
    PROVE  [OneLock!Next]_<<ReadGuards, Guards>>
<1>1. /\ Guards = Steal!Holders /\ Guards' = Steal!Holders'
      /\ ReadGuards = {} /\ ReadGuards' = {}
  BY DEF Guards, ReadGuards
<1>0. pc2 \in [CPUs -> Steal!PC \cup {"steal", "drop"}]
  BY DEF Steal!StealInv, Steal!StealTypeOK
<1>2. ASSUME NEW c \in CPUs, pc2[c] = "cs" PROVE Steal!Holders = {c}
  <2>1. PICK b \in Steal!Word : Steal!TicketsFrom(b)
    BY DEF Steal!StealInv
  <2>2. \A d \in CPUs : pc2[d] = "cs" => d \in Steal!Out /\ my2[d] = users2
    BY <2>1 DEF Steal!Out, Steal!TicketsFrom
  <2> QED
    BY <2>1, <2>2, <1>2 DEF Steal!Holders, Steal!TicketsFrom
<1>3. \/ \E c \in CPUs : Steal!Holders = {} /\ Steal!Holders' = {c}
      \/ \E c \in CPUs : Steal!Holders = {c} /\ Steal!Holders' = {}
      \/ Steal!Holders' = Steal!Holders
  <2>1. ASSUME NEW c \in CPUs, Steal!Enter(c) PROVE Steal!Holders = {} /\ Steal!Holders' = {c}
    <3>1. Steal!Holders = {}
      BY <2>1, StealEnterFree DEF Steal!Holders
    <3>2. Steal!Holders' = Steal!Holders \cup {c}
      BY <2>1, <1>0 DEF Steal!Enter, Steal!Goto, Steal!Holders
    <3> QED
      BY <3>1, <3>2
  <2>2. ASSUME NEW c \in CPUs, Steal!Unlock(c) PROVE Steal!Holders = {c} /\ Steal!Holders' = {}
    <3>1. Steal!Holders = {c}
      BY <2>2, <1>2 DEF Steal!Unlock, Steal!Goto
    <3>2. Steal!Holders' = Steal!Holders \ {c}
      BY <2>2, <1>0 DEF Steal!Unlock, Steal!Goto, Steal!Holders
    <3> QED
      BY <3>1, <3>2
  <2>3. ASSUME NEW c \in CPUs, Steal!StealTicket(c)
        PROVE  Steal!Holders' = Steal!Holders \/ (Steal!Holders = {c} /\ Steal!Holders' = {})
    <3>1. Steal!Holders' = Steal!Holders \ {c} /\ pc2[c] \in {"idle", "cs"}
      BY <2>3, <1>0 DEF Steal!StealTicket, Steal!Holders
    <3>2. CASE pc2[c] = "cs"
      BY <3>1, <3>2, <1>2
    <3>3. CASE pc2[c] = "idle"
      BY <3>1, <3>3 DEF Steal!Holders
    <3> QED
      BY <3>1, <3>2, <3>3
  <2>4. ASSUME NEW c \in CPUs,
               \/ Steal!StealUsers(c) \/ Steal!StealDrop(c) \/ Steal!TakeTicket(c)
               \/ Steal!NotYet(c) \/ Steal!Wfe(c) \/ Steal!Sev(c)
        PROVE  Steal!Holders' = Steal!Holders
    BY <2>4, <1>0
    DEF Steal!StealUsers, Steal!StealDrop, Steal!TakeTicket, Steal!NotYet, Steal!Wfe, Steal!Sev,
        Steal!Goto, Steal!Holders
  <2>5. CASE UNCHANGED Steal!stealVars
    BY <2>5 DEF Steal!stealVars, Steal!vars, Steal!Holders
  <2> QED
    BY <2>1, <2>2, <2>3, <2>4, <2>5
    DEF Steal!StealNext, Steal!LogMessage, Steal!PanicMessage, Steal!LockStep, Steal!Step
<1> QED
  BY <1>1, <1>3, AbstractStep

LEMMA SleepingIsALock ==
    ASSUME Sleeping!FlagInv, [Sleeping!Next]_(Sleeping!vars),
           lock_kind = "sleeping", lock_kind' = "sleeping"
    PROVE  [OneLock!Next]_<<ReadGuards, Guards>>
<1>1. /\ Guards = Sleeping!Holders /\ Guards' = Sleeping!Holders'
      /\ ReadGuards = {} /\ ReadGuards' = {}
  BY DEF Guards, ReadGuards
<1>2. \/ \E c \in CPUs : Sleeping!Holders = {} /\ Sleeping!Holders' = {c}
      \/ \E c \in CPUs : Sleeping!Holders = {c} /\ Sleeping!Holders' = {}
      \/ Sleeping!Holders' = Sleeping!Holders
  <2> USE DEF Sleeping!FlagInv, Sleeping!Holders, Sleeping!Goto
  <2>1. ASSUME NEW c \in CPUs, Sleeping!Try(c) \/ Sleeping!Retry(c)
        PROVE  \/ Sleeping!Holders = {} /\ Sleeping!Holders' = {c}
               \/ Sleeping!Holders' = Sleeping!Holders
    BY <2>1 DEF Sleeping!Try, Sleeping!Retry
  <2>2. ASSUME NEW c \in CPUs, Sleeping!Unlock(c)
        PROVE  Sleeping!Holders = {c} /\ Sleeping!Holders' = {}
    BY <2>2 DEF Sleeping!Unlock
  <2>3. ASSUME NEW c \in CPUs,
               \/ Sleeping!Call(c) \/ Sleeping!CurrentThread(c) \/ Sleeping!LockQueue(c)
               \/ Sleeping!BlockCurrent(c) \/ Sleeping!Leave(c)
        PROVE  Sleeping!Holders' = Sleeping!Holders
    BY <2>3 DEF Sleeping!Call, Sleeping!CurrentThread, Sleeping!LockQueue, Sleeping!BlockCurrent,
                Sleeping!Leave
  <2>4. CASE UNCHANGED Sleeping!vars
    BY <2>4 DEF Sleeping!vars
  <2> HIDE DEF Sleeping!Holders, Sleeping!FlagInv
  <2> QED
    BY <2>1, <2>2, <2>3, <2>4 DEF Sleeping!Next
<1> QED
  BY <1>1, <1>2, AbstractStep

LEMMA RwIsALock ==
    ASSUME RwIInv, [RW!Next]_(RW!vars), lock_kind = "rw", lock_kind' = "rw"
    PROVE  [OneLock!Next]_<<ReadGuards, Guards>>
<1>1. /\ Guards = RW!Writers /\ Guards' = RW!Writers'
      /\ ReadGuards = RW!Readers /\ ReadGuards' = RW!Readers'
  BY DEF Guards, ReadGuards
<1> USE DEF RwIInv
<1>2. ASSUME NEW c \in CPUs, RW!ReadAcquire(c)
      PROVE  /\ RW!Writers = {} /\ RW!Writers' = RW!Writers /\ c \notin RW!Readers
             /\ RW!Readers' = RW!Readers \cup {c}
  <2>1. RW!Readers' = RW!Readers \cup {c} /\ c \notin RW!Readers /\ RW!Writers' = RW!Writers
    BY <1>2 DEF RW!ReadAcquire, RW!Goto, RW!Readers, RW!Writers, RW!TypeOK
  <2>2. RW!Writers = {}
    BY <1>2, RwStateMeaning DEF RW!ReadAcquire
  <2> QED
    BY <2>1, <2>2
<1>3. ASSUME NEW c \in CPUs, RW!ReadUnlock(c)
      PROVE  /\ RW!Writers' = RW!Writers /\ c \in RW!Readers
             /\ RW!Readers' = RW!Readers \ {c}
  BY <1>3 DEF RW!ReadUnlock, RW!Goto, RW!Readers, RW!Writers, RW!TypeOK
<1>4. ASSUME NEW c \in CPUs, RW!WriteClaim(c)
      PROVE  /\ RW!Readers' = RW!Readers
             /\ \/ RW!Writers = {} /\ RW!Readers = {} /\ RW!Writers' = {c}
                \/ RW!Writers' = RW!Writers
  <2>1. RW!Writers = {} /\ state = Cardinality(RW!Readers)
    BY <1>4, RwStateMeaning DEF RW!WriteClaim
  <2>2. RW!Readers' = RW!Readers
    BY <1>4 DEF RW!WriteClaim, RW!Goto, RW!Readers, RW!TypeOK
  <2>3. CASE seen[c] = 0
    <3>1. RW!Writers' = RW!Writers \cup {c}
      BY <1>4, <2>3 DEF RW!WriteClaim, RW!Goto, RW!Writers, RW!TypeOK
    <3>2. RW!Readers = {}
      BY <1>4, <2>1, <2>3, RwReadersFinite DEF RW!WriteClaim
    <3> QED
      BY <2>1, <2>2, <3>1, <3>2
  <2>4. CASE seen[c] # 0
    <3>1. RW!Writers' = RW!Writers
      BY <1>4, <2>4 DEF RW!WriteClaim, RW!Goto, RW!Writers, RW!TypeOK
    <3> QED
      BY <3>1, <2>2
  <2> QED
    BY <2>3, <2>4
<1>5. ASSUME NEW c \in CPUs, RW!Drained(c)
      PROVE  /\ RW!Writers = {} /\ RW!Readers = {} /\ RW!Writers' = {c}
             /\ RW!Readers' = RW!Readers
  <2>1. RW!Readers = {} /\ RW!Writers \subseteq RW!Claimants
    BY <1>5, RwStateMeaning DEF RW!Drained
  <2>2. RW!Writers = {}
    BY <1>5, <2>1 DEF RW!Drained, RW!Goto, RW!Claimants, RW!Writers, RW!StateInv
  <2>3. RW!Writers' = RW!Writers \cup {c} /\ RW!Readers' = RW!Readers
    BY <1>5 DEF RW!Drained, RW!Goto, RW!Writers, RW!Readers, RW!TypeOK
  <2> QED
    BY <2>1, <2>2, <2>3
<1>6. ASSUME NEW c \in CPUs, RW!WriteUnlock(c)
      PROVE  RW!Writers = {c} /\ RW!Writers' = {} /\ RW!Readers' = RW!Readers
  <2>1. RW!Writers = {c}
    BY <1>6 DEF RW!WriteUnlock, RW!Goto, RW!Writers, RW!Claimants, RW!StateInv
  <2>2. RW!Writers' = RW!Writers \ {c} /\ RW!Readers' = RW!Readers
    BY <1>6 DEF RW!WriteUnlock, RW!Goto, RW!Writers, RW!Readers, RW!TypeOK
  <2> QED
    BY <2>1, <2>2
<1>7. CASE UNCHANGED RW!vars
  <2>1. RW!Readers' = RW!Readers /\ RW!Writers' = RW!Writers
    BY <1>7 DEF RW!vars, RW!Readers, RW!Writers
  <2> QED
    BY <2>1, <1>1, AbstractStep
<1>8. CASE RW!Next
  <2>1. PICK c \in CPUs : RW!Read(c) \/ RW!Write(c) \/ RW!Step(c)
    BY <1>8 DEF RW!Next
  <2>2. CASE RW!ReadAcquire(c)
    BY <2>2, <1>1, <1>2, AbstractStep
  <2>3. CASE RW!ReadUnlock(c)
    BY <2>3, <1>1, <1>3, AbstractStep
  <2>4. CASE RW!WriteClaim(c)
    BY <2>4, <1>1, <1>4, AbstractStep
  <2>5. CASE RW!Drained(c)
    BY <2>5, <1>1, <1>5, AbstractStep
  <2>6. CASE RW!WriteUnlock(c)
    BY <2>6, <1>1, <1>6, AbstractStep
  <2>7. CASE \/ RW!Read(c) \/ RW!Write(c) \/ RW!Load(c) \/ RW!ReadRetry(c) \/ RW!ReadBlocked(c)
             \/ RW!WriteRetry(c) \/ RW!WriteBlocked(c) \/ RW!NotDrained(c) \/ RW!Wfe(c)
             \/ RW!Sev(c)
    <3>1. RW!Readers' = RW!Readers /\ RW!Writers' = RW!Writers
      BY <2>7, RwQuietInv
    <3> QED
      BY <3>1, <1>1, AbstractStep
  <2> QED
    BY <2>1, <2>2, <2>3, <2>4, <2>5, <2>6, <2>7 DEF RW!Step, RW!ReadStep, RW!WriteStep
<1> QED
  BY <1>7, <1>8

\* Each step of each lock acquires or releases the abstract lock, or leaves its
\* guards alone; for a FairSpinlock whose steal() finds no other core at the lock.
THEOREM LocksAreLocks == ASSUME QuietPanic PROVE LocksSpec => EveryLockIsALock
<1>1. LocksInit => OneLock!Init
  BY DEF LocksInit, OneLock!Init, Guards, ReadGuards, Init, Holders, Unfair!Init, Unfair!Holders,
         Steal!StealInit, Steal!Init, Steal!Holders, Sleeping!Init, Sleeping!Holders, RW!Init,
         RW!Writers, RW!Readers
<1>2. ASSUME LocksIInv, LocksIInv', [LocksNext]_locksVars
      PROVE  [OneLock!Next]_<<ReadGuards, Guards>>
  <2>1. lock_kind \in Kinds /\ lock_kind' = lock_kind
    BY <1>2, KindStep DEF LocksIInv
  <2>2. CASE lock_kind = "ticket"
    BY <1>2, <2>1, <2>2, KindStep, TicketIsALock DEF LocksIInv
  <2>3. CASE lock_kind = "unfair"
    BY <1>2, <2>1, <2>3, KindStep, UnfairIsALock DEF LocksIInv, StateInv, UnfairIInv
  <2>4. CASE lock_kind = "steal"
    BY <1>2, <2>1, <2>4, KindStep, StealIsALock DEF LocksIInv, StateInv
  <2>5. CASE lock_kind = "sleeping"
    BY <1>2, <2>1, <2>5, KindStep, SleepingIsALock DEF LocksIInv, StateInv
  <2>6. CASE lock_kind = "rw"
    BY <1>2, <2>1, <2>6, KindStep, RwIsALock DEF LocksIInv, StateInv, RwIInv
  <2> QED
    BY <2>1, <2>2, <2>3, <2>4, <2>5, <2>6 DEF Kinds
<1> QED
  BY <1>1, <1>2, LocksAlways, PTL DEF LocksSpec, EveryLockIsALock, OneLock!Spec
=============================================================================
