----------------------------- MODULE BootProofs -----------------------------
(***************************************************************************)
(* Any number of cores come up safely, whatever the order in which they    *)
(* register and spawn and whatever interrupts come in between.  BootInv is *)
(* inductive: StackSafe and QueuesReady need ProgressInv, which ties what  *)
(* a core has (its stack, its queue, its report) to how far it is.         *)
(*                                                                         *)
(* Then, each for its own instance, what a core does once it is up: its    *)
(* timer, MSI-X of a function, and the sizing of a function's BARs.        *)
(***************************************************************************)
EXTENDS SmpBoot, TLAPS

\* None and BootStack are no core's number.
LEMMA NotCores == None \notin CPUs /\ BootStack \notin CPUs /\ 0 \in CPUs
BY NAssumption DEF CPUs, None, BootStack

\* The elements of a concatenation.
LEMMA Concatenation ==
    ASSUME NEW S, NEW s \in Seq(S), NEW t \in Seq(S)
    PROVE  /\ s \o t \in Seq(S) /\ Len(s \o t) = Len(s) + Len(t)
           /\ \A i \in 1 .. Len(s) + Len(t) : (s \o t)[i] = IF i <= Len(s) THEN s[i] ELSE t[i - Len(s)]
OBVIOUS

\* What TypeOK says of the queues, in terms of their elements.
LEMMA QueueFacts ==
    ASSUME NEW q \in Seq(Seq(Threads))
    PROVE  /\ Len(q) \in Nat /\ DOMAIN q = 1 .. Len(q)
           /\ \A i \in 1 .. Len(q) : /\ q[i] \in Seq(Threads) /\ Len(q[i]) \in Nat
                                     /\ DOMAIN q[i] = 1 .. Len(q[i])
                                     /\ \A j \in 1 .. Len(q[i]) : q[i][j] \in Threads
OBVIOUS

\* register_cpu adds empty queues and leaves the others alone.
LEMMA ResizedFacts ==
    ASSUME NEW q \in Seq(Seq(Threads)), NEW c \in CPUs
    PROVE  /\ Resized(q, c) \in Seq(Seq(Threads))
           /\ Len(q) <= Len(Resized(q, c)) /\ c < Len(Resized(q, c))
           /\ Len(q) <= N => Len(Resized(q, c)) <= N
           /\ \A i \in 1 .. Len(q) : Resized(q, c)[i] = q[i]
           /\ \A i \in 1 .. Len(Resized(q, c)) : i > Len(q) => Resized(q, c)[i] = <<>>
<1>1. c \in Nat /\ c < N /\ N \in Nat /\ Len(q) \in Nat
  BY NAssumption DEF CPUs
<1>2. CASE c < Len(q)
  <2>1. Resized(q, c) = q
    BY <1>1, <1>2 DEF Resized
  <2> QED
    BY <1>1, <1>2, <2>1
<1>3. CASE c >= Len(q)
  <2> DEFINE k == c + 1 - Len(q)
             more == [i \in 1 .. k |-> <<>>]
  <2>1. Resized(q, c) = q \o more
    BY <1>1, <1>3 DEF Resized
  <2>2. k \in Nat /\ k = c + 1 - Len(q)
    BY <1>1, <1>3
  <2> HIDE DEF k
  <2>3. more \in Seq(Seq(Threads)) /\ Len(more) = k /\ \A i \in 1 .. k : more[i] = <<>>
    <3>1. <<>> \in Seq(Threads)
      OBVIOUS
    <3>2. more \in [1 .. k -> Seq(Threads)] /\ \A i \in 1 .. k : more[i] = <<>>
      BY ONLY <3>1, Zenon
    <3> HIDE DEF more
    <3>3. more \in Seq(Seq(Threads)) /\ Len(more) = k
      BY ONLY <2>2, <3>2
    <3> QED
      BY <3>2, <3>3
  <2> HIDE DEF more
  <2>4. /\ q \o more \in Seq(Seq(Threads)) /\ Len(q \o more) = Len(q) + Len(more)
        /\ \A i \in 1 .. Len(q) + Len(more) :
              (q \o more)[i] = IF i <= Len(q) THEN q[i] ELSE more[i - Len(q)]
    BY <2>3, Concatenation
  <2>5. Len(q \o more) = c + 1
    BY <1>1, <2>2, <2>3, <2>4
  <2>6. \A i \in 1 .. Len(q) : (q \o more)[i] = q[i]
    BY <1>1, <2>3, <2>4
  <2>7. \A i \in 1 .. c + 1 : i > Len(q) => (q \o more)[i] = <<>>
    <3> SUFFICES ASSUME NEW i \in 1 .. c + 1, i > Len(q)
                 PROVE  (q \o more)[i] = <<>>
      BY Zenon
    <3>1. i - Len(q) \in 1 .. k /\ i \in 1 .. Len(q) + Len(more)
      BY <1>1, <2>2, <2>3
    <3> QED
      BY <1>1, <2>3, <2>4, <3>1
  <2> QED
    BY <1>1, <1>3, <2>1, <2>4, <2>5, <2>6, <2>7
<1> QED
  BY <1>1, <1>2, <1>3
-----------------------------------------------------------------------------
(* Where the threads are *)

\* A core that is where its thread is spawned or not, as before, moves no thread.
LEMMA PlacesKept ==
    ASSUME ThreadPlacedOnce, UNCHANGED <<queues, current>>,
           \A t \in CPUs : pc'[t] \in Spawned <=> pc[t] \in Spawned
    PROVE  ThreadPlacedOnce'
BY DEF ThreadPlacedOnce, InQueue, Threads

\* New queues are empty.
LEMMA PlacesRegistered ==
    ASSUME TypeOK, ThreadPlacedOnce, NEW c \in CPUs, queues' = Resized(queues, c), UNCHANGED current,
           \A t \in CPUs : pc'[t] \in Spawned <=> pc[t] \in Spawned
    PROVE  ThreadPlacedOnce'
<1>1. /\ queues \in Seq(Seq(Threads)) /\ queues' \in Seq(Seq(Threads))
      /\ Len(queues) <= Len(queues')
      /\ \A i \in 1 .. Len(queues) : queues'[i] = queues[i]
      /\ \A i \in 1 .. Len(queues') : i > Len(queues) => queues'[i] = <<>>
  BY ResizedFacts, Zenon DEF TypeOK
<1>2. DOMAIN queues = 1 .. Len(queues) /\ DOMAIN queues' = 1 .. Len(queues')
      /\ Len(queues) \in Nat /\ Len(queues') \in Nat
  BY <1>1
<1>3. \A i \in DOMAIN queues' : \A j \in DOMAIN queues'[i] : i \in DOMAIN queues /\ queues'[i] = queues[i]
  BY <1>1, <1>2
<1>4. \A i \in DOMAIN queues : i \in DOMAIN queues' /\ queues'[i] = queues[i]
  BY <1>1, <1>2
<1>5. \A t : InQueue(t)' <=> InQueue(t)
  BY <1>3, <1>4, Zenon DEF InQueue
<1>6. \A i, k \in DOMAIN queues' : \A j \in DOMAIN queues'[i], l \in DOMAIN queues'[k] :
          queues'[i][j] = queues'[k][l] => i = k /\ j = l
  BY ONLY <1>3, ThreadPlacedOnce DEF ThreadPlacedOnce
<1> QED
  BY <1>5, <1>6 DEF ThreadPlacedOnce, Threads

\* spawn() puts a thread that is nowhere at the end of a queue.
LEMMA PlacesSpawned ==
    ASSUME TypeOK, ThreadPlacedOnce, NEW t \in CPUs, NEW q \in DOMAIN queues,
           queues' = [queues EXCEPT ![q] = Append(@, t)], UNCHANGED current,
           pc[t] \notin Spawned, pc'[t] \in Spawned,
           \A u \in CPUs \ {t} : pc'[u] \in Spawned <=> pc[u] \in Spawned
    PROVE  ThreadPlacedOnce'
<1> DEFINE end == Len(queues[q]) + 1
<1>1. /\ queues \in Seq(Seq(Threads)) /\ DOMAIN queues' = DOMAIN queues
      /\ queues[q] \in Seq(Threads) /\ end \in Nat /\ DOMAIN queues[q] = 1 .. end - 1
      /\ \A i \in DOMAIN queues \ {q} : queues'[i] = queues[i]
      /\ queues'[q] = Append(queues[q], t)
  BY DEF TypeOK
<1>2. /\ DOMAIN queues'[q] = 1 .. end /\ queues'[q][end] = t
      /\ \A j \in 1 .. end - 1 : queues'[q][j] = queues[q][j]
  <2>1. t \in Threads
    BY DEF Threads
  <2>2. /\ Append(queues[q], t) \in Seq(Threads) /\ Len(Append(queues[q], t)) = Len(queues[q]) + 1
        /\ \A i \in 1 .. Len(queues[q]) : Append(queues[q], t)[i] = queues[q][i]
        /\ Append(queues[q], t)[Len(queues[q]) + 1] = t
    BY <1>1, <2>1
  <2> QED
    BY <1>1, <2>2
<1>3. ~InQueue(t) /\ \A c \in CPUs : current[c] # t
  BY DEF ThreadPlacedOnce, Threads
<1> HIDE DEF end
<1>4. \A i \in DOMAIN queues' : \A j \in DOMAIN queues'[i] :
         \/ i = q /\ j = end /\ queues'[i][j] = t
         \/ j \in DOMAIN queues[i] /\ queues'[i][j] = queues[i][j] /\ queues[i][j] # t
  <2> SUFFICES ASSUME NEW i \in DOMAIN queues, NEW j \in DOMAIN queues'[i], ~(i = q /\ j = end)
               PROVE  j \in DOMAIN queues[i] /\ queues'[i][j] = queues[i][j]
    BY <1>1, <1>2, <1>3 DEF InQueue
  <2>1. CASE i = q
    BY <1>1, <1>2, <2>1
  <2>2. CASE i # q
    BY <1>1, <2>2
  <2> QED
    BY <2>1, <2>2
<1>5. \A i \in DOMAIN queues : \A j \in DOMAIN queues[i] :
         i \in DOMAIN queues' /\ j \in DOMAIN queues'[i] /\ queues'[i][j] = queues[i][j]
  <2> SUFFICES ASSUME NEW i \in DOMAIN queues, NEW j \in DOMAIN queues[i]
               PROVE  i \in DOMAIN queues' /\ j \in DOMAIN queues'[i] /\ queues'[i][j] = queues[i][j]
    OBVIOUS
  <2>1. CASE i = q
    BY <1>1, <1>2, <2>1
  <2>2. CASE i # q
    BY <1>1, <2>2
  <2> QED
    BY <2>1, <2>2
<1>6. InQueue(t)'
  BY <1>1, <1>2 DEF InQueue
<1>7. \A u : u # t => (InQueue(u)' <=> InQueue(u))
  <2>1. ASSUME NEW u, u # t, InQueue(u)
        PROVE  InQueue(u)'
    BY ONLY <1>5, <2>1 DEF InQueue
  <2>2. ASSUME NEW u, u # t, InQueue(u)'
        PROVE  InQueue(u)
    BY ONLY <1>1, <1>4, <2>2 DEF InQueue
  <2> QED
    BY <2>1, <2>2
<1>8. \A i, k \in DOMAIN queues' : \A j \in DOMAIN queues'[i], l \in DOMAIN queues'[k] :
          queues'[i][j] = queues'[k][l] => i = k /\ j = l
  <2> SUFFICES ASSUME NEW i \in DOMAIN queues', NEW k \in DOMAIN queues',
                      NEW j \in DOMAIN queues'[i], NEW l \in DOMAIN queues'[k], queues'[i][j] = queues'[k][l]
               PROVE  i = k /\ j = l
    OBVIOUS
  <2>1. CASE queues'[i][j] = t
    BY <1>4, <2>1
  <2>2. CASE queues'[i][j] # t
    <3>1. /\ i \in DOMAIN queues /\ k \in DOMAIN queues
          /\ j \in DOMAIN queues[i] /\ l \in DOMAIN queues[k] /\ queues[i][j] = queues[k][l]
      BY <1>1, <1>4, <2>2, Zenon
    <3> QED
      BY ONLY <3>1, ThreadPlacedOnce DEF ThreadPlacedOnce
  <2> QED
    BY <2>1, <2>2
<1> QED
  BY <1>3, <1>6, <1>7, <1>8 DEF ThreadPlacedOnce, Threads

\* schedule() takes the first thread of a core's queue as the core's current one.
LEMMA PlacesSwitched ==
    ASSUME TypeOK, ThreadPlacedOnce, NEW c \in CPUs, NEW q \in DOMAIN queues, queues[q] # <<>>,
           current[c] = None,
           queues' = [queues EXCEPT ![q] = Tail(queues[q])], current' = [current EXCEPT ![c] = Head(queues[q])],
           \A u \in CPUs : pc'[u] \in Spawned <=> pc[u] \in Spawned
    PROVE  ThreadPlacedOnce'
<1> DEFINE n == Len(queues[q])
<1>0. PICK h : h = Head(queues[q])
  OBVIOUS
<1>1. /\ queues \in Seq(Seq(Threads)) /\ DOMAIN queues' = DOMAIN queues
      /\ queues[q] \in Seq(Threads) /\ n \in Nat \ {0} /\ DOMAIN queues[q] = 1 .. n
      /\ \A i \in DOMAIN queues \ {q} : queues'[i] = queues[i]
      /\ queues'[q] = Tail(queues[q])
  BY DEF TypeOK
<1>2. /\ DOMAIN queues'[q] = 1 .. n - 1 /\ h = queues[q][1] /\ h \in Threads
      /\ \A j \in 1 .. n - 1 : queues'[q][j] = queues[q][j + 1]
  BY <1>0, <1>1
<1>3. /\ current'[c] = h /\ \A d \in CPUs \ {c} : current'[d] = current[d]
  BY <1>0 DEF TypeOK
<1>4. InQueue(h) /\ \A d \in CPUs : current[d] # h
  <2>1. InQueue(h)
    BY <1>1, <1>2 DEF InQueue
  <2>2. h # None
    BY <1>2, NotCores DEF Threads
  <2> QED
    BY <2>1, <2>2 DEF ThreadPlacedOnce
<1> HIDE DEF n
\* Where place j of queue i was.
<1> DEFINE was(i, j) == IF i = q THEN j + 1 ELSE j
<1>5. \A i \in DOMAIN queues' : \A j \in DOMAIN queues'[i] :
         was(i, j) \in DOMAIN queues[i] /\ queues'[i][j] = queues[i][was(i, j)] /\ ~(i = q /\ was(i, j) = 1)
  <2> SUFFICES ASSUME NEW i \in DOMAIN queues, NEW j \in DOMAIN queues'[i]
               PROVE  was(i, j) \in DOMAIN queues[i] /\ queues'[i][j] = queues[i][was(i, j)] /\ ~(i = q /\ was(i, j) = 1)
    BY <1>1
  <2>1. CASE i = q
    BY <1>1, <1>2, <2>1
  <2>2. CASE i # q
    BY <1>1, <2>2
  <2> QED
    BY <2>1, <2>2
<1>6. \A i \in DOMAIN queues : \A k \in DOMAIN queues[i] : ~(i = q /\ k = 1) =>
         \E j \in DOMAIN queues'[i] : queues'[i][j] = queues[i][k]
  <2> SUFFICES ASSUME NEW i \in DOMAIN queues, NEW k \in DOMAIN queues[i], ~(i = q /\ k = 1)
               PROVE  \E j \in DOMAIN queues'[i] : queues'[i][j] = queues[i][k]
    OBVIOUS
  <2>1. CASE i = q
    <3>1. k - 1 \in 1 .. n - 1 /\ (k - 1) + 1 = k
      BY <1>1, <2>1
    <3> QED
      BY <1>2, <2>1, <3>1
  <2>2. CASE i # q
    BY <1>1, <2>2
  <2> QED
    BY <2>1, <2>2
<1>7. \A i, k \in DOMAIN queues' : \A j \in DOMAIN queues'[i], l \in DOMAIN queues'[k] :
          queues'[i][j] = queues'[k][l] => i = k /\ j = l
  <2> SUFFICES ASSUME NEW i \in DOMAIN queues', NEW k \in DOMAIN queues',
                      NEW j \in DOMAIN queues'[i], NEW l \in DOMAIN queues'[k], queues'[i][j] = queues'[k][l]
               PROVE  i = k /\ j = l
    OBVIOUS
  <2>1. i = k /\ was(i, j) = was(k, l)
    <3> HIDE DEF was
    <3> QED
      BY <1>1, <1>5 DEF ThreadPlacedOnce
  <2>2. \A x \in DOMAIN queues' : \A y \in DOMAIN queues'[x] : y \in Nat
    <3> SUFFICES ASSUME NEW x \in DOMAIN queues, NEW y \in DOMAIN queues'[x]
                 PROVE  y \in Nat
      BY <1>1
    <3>1. CASE x = q
      BY <1>1, <1>2, <3>1
    <3>2. CASE x # q
      BY <1>1, <3>2, QueueFacts
    <3> QED
      BY <3>1, <3>2
  <2> QED
    BY <2>1, <2>2
<1>8. ~InQueue(h)'
  <2> SUFFICES ASSUME NEW i \in DOMAIN queues', NEW j \in DOMAIN queues'[i], queues'[i][j] = h
               PROVE  FALSE
    BY DEF InQueue
  <2>1. queues[i][was(i, j)] = queues[q][1] /\ 1 \in DOMAIN queues[q]
    BY <1>1, <1>2, <1>5
  <2>2. i = q /\ was(i, j) = 1
    <3> HIDE DEF was
    <3> QED
      BY <1>1, <1>5, <2>1 DEF ThreadPlacedOnce
  <2> QED
    BY <1>5, <2>2
<1>9. \A u : u # h => (InQueue(u)' <=> InQueue(u))
  <2>1. ASSUME NEW u, u # h, InQueue(u)
        PROVE  InQueue(u)'
    BY <1>1, <1>2, <1>6, <2>1 DEF InQueue
  <2>2. ASSUME NEW u, u # h, InQueue(u)'
        PROVE  InQueue(u)
    <3> HIDE DEF was
    <3> QED
      BY <1>1, <1>5, <2>2 DEF InQueue
  <2> QED
    BY <2>1, <2>2
<1>10. \A d \in CPUs : current'[d] # None => ~InQueue(current[d])'
  <2> SUFFICES ASSUME NEW d \in CPUs, current'[d] # None
               PROVE  ~InQueue(current[d])'
    OBVIOUS
  <2>1. CASE d = c
    <3>1. current'[d] = h
      BY <1>3, <2>1
    <3> QED
      BY ONLY <1>8, <3>1 DEF InQueue
  <2>2. CASE d # c
    <3>1. PICK u : u = current[d] /\ u = current'[d]
      BY <1>3, <2>2
    <3>2. u # h /\ ~InQueue(u)
      BY <1>3, <1>4, <2>2, <3>1 DEF ThreadPlacedOnce
    <3>3. ~InQueue(u)'
      BY <1>9, <3>2
    <3> QED
      BY ONLY <3>1, <3>3 DEF InQueue
  <2> QED
    BY <2>1, <2>2
<1>11. \A d, e \in CPUs : current'[d] # None /\ current'[d] = current'[e] => d = e
  BY <1>3, <1>4 DEF ThreadPlacedOnce
<1>12. \A t \in Threads : pc'[t] \in Spawned <=> InQueue(t)' \/ \E d \in CPUs : current'[d] = t
  <2> SUFFICES ASSUME NEW t \in CPUs
               PROVE  pc'[t] \in Spawned <=> InQueue(t)' \/ \E d \in CPUs : current'[d] = t
    BY DEF Threads
  <2>1. pc[t] \in Spawned <=> InQueue(t) \/ \E d \in CPUs : current[d] = t
    BY DEF ThreadPlacedOnce, Threads
  <2>2. CASE t = h
    BY <1>3, <1>4, <2>1, <2>2
  <2>3. CASE t # h
    <3>1. t # None
      BY NotCores
    <3>2. (\E d \in CPUs : current'[d] = t) <=> (\E d \in CPUs : current[d] = t)
      BY <1>3, <2>3, <3>1
    <3> QED
      BY <1>9, <2>1, <2>3, <3>2
  <2> QED
    BY <2>2, <2>3
<1> QED
  BY <1>7, <1>10, <1>11, <1>12 DEF ThreadPlacedOnce
-----------------------------------------------------------------------------
(* The steps *)

\* BootInv without what follows from the rest.
IInv == TypeOK /\ ProgressInv /\ StackSafe /\ ThreadPlacedOnce

\* What a core is tells which stack it is on, and that it has a queue when it needs one.
LEMMA IInvBoot == IInv => BootInv
<1> SUFFICES ASSUME IInv
             PROVE  ThreadOnOneCore /\ QueuesReady
  BY DEF IInv, BootInv
<1>1. ThreadOnOneCore
  BY DEF IInv, ProgressInv, ThreadOnOneCore
<1>2. \A c \in CPUs : irq[c] = "schedule" => Registered(c)
  BY DEF IInv, ProgressInv, Spawned
<1>3. \A c \in CPUs : pc[c] = "pick" => HasCPUs
  <2> SUFFICES ASSUME NEW c \in CPUs, pc[c] = "pick"
               PROVE  HasCPUs
    OBVIOUS
  <2>1. c < Len(queues) /\ c \in Nat
    BY NAssumption DEF IInv, ProgressInv, Registered, CPUs
  <2> QED
    BY <2>1 DEF HasCPUs, IInv, TypeOK
<1> QED
  BY <1>1, <1>2, <1>3 DEF QueuesReady

\* A core that is still booting goes on, to a place before its thread is spawned.
LEMMA BootMoves ==
    ASSUME IInv, NEW c \in CPUs, NEW to, irq[c] = "none",
           pc[c] \notin {"off"} \cup Spawned, to \notin Spawned, pc' = [pc EXCEPT ![c] = to],
           to \in {"devices", "spawn", "pick", "push"} => Registered(c),
           to = "push" => target'[c] < Len(queues),
           \A d \in CPUs \ {c} : target'[d] = target[d],
           UNCHANGED <<queues, current, irq, ready, on>>
    PROVE  ProgressInv' /\ ThreadPlacedOnce' /\ (lent \subseteq lent' => StackSafe')
<1>1. /\ pc'[c] = to /\ \A d \in CPUs \ {c} : pc'[d] = pc[d]
  BY DEF IInv, TypeOK
<1>2. ThreadPlacedOnce'
  BY <1>1, PlacesKept DEF IInv
<1>3. \A d \in CPUs : Registered(d)' <=> Registered(d)
  BY DEF Registered
<1>4. Len(queues') <= N /\ \A d \in CPUs : pc'[d] = "push" => target'[d] < Len(queues')
  BY <1>1 DEF IInv, ProgressInv
<1>5. \A d \in CPUs : on'[d] = IF pc'[d] \in {"entry", "idle", "panic"} THEN d ELSE BootStack
  BY <1>1 DEF IInv, ProgressInv, Spawned
<1>6. \A d \in ready' : pc'[d] \in {"idle", "panic"}
  BY <1>1 DEF IInv, ProgressInv, Spawned, TypeOK
<1>7. \A d \in CPUs : pc'[d] \in {"devices", "spawn", "pick", "push"} \cup Spawned => Registered(d)'
  BY <1>1, <1>3 DEF IInv, ProgressInv
<1>8. \A d \in CPUs : /\ irq'[d] # "none" => pc'[d] \in {"entry", "idle"}
                      /\ current'[d] # None => pc'[d] = "panic"
  BY <1>1 DEF IInv, ProgressInv, Spawned
<1>9. lent \subseteq lent' => StackSafe'
  BY <1>1 DEF IInv, StackSafe, Started, Secondaries
<1> QED
  BY <1>2, <1>4, <1>5, <1>6, <1>7, <1>8, <1>9 DEF ProgressInv

\* A handler moves on.
LEMMA HandlerMoves ==
    ASSUME IInv, NEW c \in CPUs, pc[c] \in {"entry", "idle"},
           \A d \in CPUs \ {c} : irq'[d] = irq[d],
           UNCHANGED <<queues, current, pc, target, ready, lent, on>>
    PROVE  ProgressInv' /\ ThreadPlacedOnce' /\ StackSafe'
<1>1. ThreadPlacedOnce'
  BY PlacesKept DEF IInv
<1>2. StackSafe'
  BY DEF IInv, StackSafe, Started
<1>3. ProgressInv'
  BY DEF IInv, ProgressInv, Registered
<1> QED
  BY <1>1, <1>2, <1>3

\* What a core in schedule() finds: it has no current thread, so it either
\* leaves all as it is or takes the first thread of its queue and panics.
LEMMA ScheduleFacts ==
    ASSUME IInv, NEW c \in CPUs, IrqSchedule(c)
    PROVE  /\ pc[c] \in {"entry", "idle"} /\ current[c] = None /\ c + 1 \in DOMAIN queues
           /\ queues[c + 1] = <<>> =>
                 /\ UNCHANGED <<queues, current, pc, on>>
                 /\ irq' = [irq EXCEPT ![c] = "eoi"]
                 /\ state' = state
           /\ queues[c + 1] # <<>> =>
                 /\ queues' = [queues EXCEPT ![c + 1] = Tail(queues[c + 1])]
                 /\ current' = [current EXCEPT ![c] = Head(queues[c + 1])]
                 /\ pc' = [pc EXCEPT ![c] = "panic"] /\ on' = on
                 /\ irq' = [irq EXCEPT ![c] = "none"]
                 /\ state' = [t \in Threads |-> IF t = Head(queues[c + 1]) THEN "Running" ELSE state[t]]
           /\ readers' \subseteq CPUs /\ holders' \subseteq CPUs /\ spawn_counter' = spawn_counter
<1>1. pc[c] \in {"entry", "idle"}
  BY DEF IInv, ProgressInv, IrqSchedule, IrqGoto
<1>2. current[c] = None
  BY <1>1 DEF IInv, ProgressInv
<1>3. queues \in Seq(Seq(Threads)) /\ c < Len(queues) /\ c \in Nat
  BY NAssumption DEF IInv, TypeOK, IrqSchedule, Registered, CPUs
<1>4. c + 1 \in DOMAIN queues /\ queues[c + 1] \in Seq(Threads)
  BY <1>3
<1>5. ~PrevRuns(c) /\ Requeued(c) = queues[c + 1] /\ Prev(c) = None
  BY <1>2 DEF PrevRuns, Prev, Requeued
<1>6. readers' \subseteq CPUs /\ holders' \subseteq CPUs /\ spawn_counter' = spawn_counter
  BY DEF IInv, TypeOK, IrqSchedule, Schedule
<1>7. CASE queues[c + 1] = <<>>
  <2>1. NextThread(c) = None /\ Remaining(c) = <<>> /\ ~Switches(c) /\ ~CtxBusy(c)
    BY <1>5, <1>7 DEF NextThread, Remaining, Switches, CtxBusy
  <2>2. /\ current' = [current EXCEPT ![c] = None] /\ queues' = [queues EXCEPT ![c + 1] = <<>>]
        /\ state' = [t \in Threads |-> state[t]]
        /\ irq' = [irq EXCEPT ![c] = "eoi"] /\ pc' = pc /\ on' = on
    BY <1>5, <2>1, Zenon DEF IrqSchedule, IrqGoto, Schedule
  <2>3. current' = current /\ queues' = queues /\ state' = state
    BY <1>2, <1>3, <1>4, <1>7, <2>2 DEF IInv, TypeOK
  <2> QED
    BY <1>1, <1>2, <1>4, <1>6, <1>7, <2>2, <2>3
<1>8. CASE queues[c + 1] # <<>>
  <2>1. Head(queues[c + 1]) \in Threads /\ Head(queues[c + 1]) # None
    BY <1>4, <1>8, NotCores DEF Threads
  <2>2. NextThread(c) = Head(queues[c + 1]) /\ Remaining(c) = Tail(queues[c + 1]) /\ Switches(c) /\ CtxBusy(c)
    BY <1>5, <1>8, <2>1 DEF NextThread, Remaining, Switches, CtxBusy
  <2>3. /\ current' = [current EXCEPT ![c] = Head(queues[c + 1])]
        /\ queues' = [queues EXCEPT ![c + 1] = Tail(queues[c + 1])]
        /\ irq' = [irq EXCEPT ![c] = "none"] /\ pc' = [pc EXCEPT ![c] = "panic"] /\ on' = on
    BY <1>5, <2>2, Zenon DEF IrqSchedule, IrqGoto, Schedule
  <2>4. state' = [t \in Threads |-> IF t = Head(queues[c + 1]) THEN "Running" ELSE state[t]]
    BY <1>5, <2>2 DEF IrqSchedule, Schedule
  <2> QED
    BY <1>1, <1>2, <1>4, <1>6, <1>8, <2>3, <2>4
<1> QED
  BY <1>7, <1>8

\* The boot core starts one that is off and lends it a stack.
LEMMA CpuOnStep ==
    ASSUME IInv, NEW c \in Secondaries, CpuOn(c)
    PROVE  IInv'
<1>1. c \in CPUs /\ c \in Nat /\ c # BSP /\ BSP \in CPUs
  BY NAssumption, BSPAssumption DEF Secondaries, CPUs
<1>2. pc[c] = "off" /\ pc[BSP] = "boot"
  BY <1>1 DEF CpuOn, Started
<1>3. /\ pc'[BSP] = "wait" /\ pc'[c] = "trampoline"
      /\ \A d \in CPUs \ {BSP, c} : pc'[d] = pc[d]
  BY <1>1 DEF CpuOn, IInv, TypeOK
<1>4. UNCHANGED <<queues, current, state, spawn_counter, readers, holders, timer_irq, irq, target, ready, on>>
      /\ lent' = lent \cup {c}
  BY DEF CpuOn, schedVars
<1>5. TypeOK'
  <2>1. pc' \in [CPUs -> PC]
    BY Zenon DEF CpuOn, IInv, TypeOK, PC
  <2> QED
    BY <1>1, <1>4, <2>1 DEF IInv, TypeOK
<1>6. ThreadPlacedOnce'
  BY <1>2, <1>3, <1>4, PlacesKept DEF IInv, Spawned
<1>7. StackSafe'
  BY <1>3, <1>4 DEF IInv, StackSafe, Started, Secondaries
<1>8. ProgressInv'
  <2>1. \A d \in CPUs : Registered(d)' <=> Registered(d)
    BY <1>4 DEF Registered
  <2>2. \A d \in CPUs : on'[d] = IF pc'[d] \in {"entry", "idle", "panic"} THEN d ELSE BootStack
    BY <1>2, <1>3, <1>4 DEF IInv, ProgressInv
  <2>3. \A d \in ready' : pc'[d] \in {"idle", "panic"}
    BY <1>2, <1>3, <1>4 DEF IInv, ProgressInv, TypeOK
  <2>4. \A d \in CPUs : pc'[d] \in {"devices", "spawn", "pick", "push"} \cup Spawned => Registered(d)'
    BY <1>3, <2>1 DEF IInv, ProgressInv, Spawned
  <2>5. \A d \in CPUs : /\ pc'[d] = "push" => target'[d] < Len(queues')
                        /\ irq'[d] # "none" => pc'[d] \in {"entry", "idle"}
                        /\ current'[d] # None => pc'[d] = "panic"
    BY <1>2, <1>3, <1>4 DEF IInv, ProgressInv
  <2> QED
    BY <1>4, <2>2, <2>3, <2>4, <2>5 DEF IInv, ProgressInv
<1> QED
  BY <1>5, <1>6, <1>7, <1>8 DEF IInv

\* register_cpu.
LEMMA RegisterStep ==
    ASSUME IInv, NEW c \in CPUs, Register(c)
    PROVE  IInv'
<1> DEFINE to == IF c = BSP THEN "spawn" ELSE "devices"
<1>1. /\ pc[c] = "write" /\ irq[c] = "none" /\ pc'[c] = to
      /\ \A d \in CPUs \ {c} : pc'[d] = pc[d]
  BY DEF Register, Goto, IInv, TypeOK
<1>2. /\ queues' = Resized(queues, c)
      /\ UNCHANGED <<current, state, spawn_counter, readers, holders, irq, timer_irq, target, ready, lent, on>>
  BY DEF Register, RegisterCpu
<1>3. /\ queues' \in Seq(Seq(Threads)) /\ Len(queues') <= N
      /\ Len(queues) <= Len(queues') /\ c < Len(queues')
  BY <1>2, ResizedFacts DEF IInv, TypeOK, ProgressInv
<1>4. TypeOK'
  <2>1. pc' \in [CPUs -> PC]
    BY DEF Register, Goto, IInv, TypeOK, PC
  <2> QED
    BY <1>2, <1>3, <2>1 DEF IInv, TypeOK
<1>5. ThreadPlacedOnce'
  <2>1. \A t \in CPUs : pc'[t] \in Spawned <=> pc[t] \in Spawned
    BY <1>1 DEF Spawned
  <2> QED
    BY <1>2, <2>1, PlacesRegistered DEF IInv
<1>6. StackSafe'
  BY <1>1, <1>2 DEF IInv, StackSafe, Started, Secondaries
<1>7. ProgressInv'
  <2>1. \A d \in CPUs : d \in Nat /\ target[d] \in Nat /\ Len(queues) \in Nat /\ Len(queues') \in Nat
    BY <1>3, NAssumption DEF IInv, TypeOK, CPUs
  <2>2. \A d \in CPUs : Registered(d) \/ d = c => Registered(d)'
    BY <1>3, <2>1 DEF Registered
  <2>3. \A d \in CPUs : on'[d] = IF pc'[d] \in {"entry", "idle", "panic"} THEN d ELSE BootStack
    BY <1>1, <1>2 DEF IInv, ProgressInv
  <2>4. \A d \in ready' : pc'[d] \in {"idle", "panic"}
    BY <1>1, <1>2 DEF IInv, ProgressInv, TypeOK
  <2>5. \A d \in CPUs : pc'[d] \in {"devices", "spawn", "pick", "push"} \cup Spawned => Registered(d)'
    BY <1>1, <2>2 DEF IInv, ProgressInv, Spawned
  <2>6. \A d \in CPUs : pc'[d] = "push" => target'[d] < Len(queues')
    BY <1>1, <1>2, <1>3, <2>1 DEF IInv, ProgressInv
  <2>7. \A d \in CPUs : /\ irq'[d] # "none" => pc'[d] \in {"entry", "idle"}
                        /\ current'[d] # None => pc'[d] = "panic"
    BY <1>1, <1>2 DEF IInv, ProgressInv
  <2> QED
    BY <1>3, <2>3, <2>4, <2>5, <2>6, <2>7 DEF ProgressInv
<1> QED
  BY <1>4, <1>5, <1>6, <1>7 DEF IInv

\* The end of spawn().
LEMMA SpawnPushStep ==
    ASSUME IInv, NEW c \in CPUs, SpawnPush(c)
    PROVE  IInv'
<1>1. /\ pc[c] = "push" /\ irq[c] = "none" /\ pc'[c] = "eret"
      /\ \A d \in CPUs \ {c} : pc'[d] = pc[d]
  BY DEF SpawnPush, Goto, IInv, TypeOK
<1> DEFINE q == target[c] + 1
<1>2. /\ queues' = [queues EXCEPT ![q] = Append(@, c)]
      /\ state' = [state EXCEPT ![c] = "Ready"] /\ readers' = readers \ {c}
      /\ UNCHANGED <<current, spawn_counter, holders, irq, timer_irq, target, ready, lent, on>>
  BY DEF SpawnPush, PushThread
<1>3. queues \in Seq(Seq(Threads)) /\ q \in DOMAIN queues /\ queues[q] \in Seq(Threads) /\ c \in Threads
  <2>1. queues \in Seq(Seq(Threads)) /\ target[c] \in Nat /\ target[c] < Len(queues)
    BY <1>1, NAssumption DEF IInv, TypeOK, ProgressInv, CPUs
  <2> QED
    BY <2>1 DEF Threads
<1>4. queues' \in Seq(Seq(Threads)) /\ Len(queues') = Len(queues)
  <2> HIDE DEF q
  <2>1. Append(queues[q], c) \in Seq(Threads)
    BY <1>3
  <2> QED
    BY <1>2, <1>3, <2>1
<1>5. TypeOK'
  <2>1. pc' \in [CPUs -> PC]
    BY DEF SpawnPush, Goto, IInv, TypeOK, PC
  <2>2. state' \in [Threads -> {"Running", "Ready", "Blocked", "Dead"}]
    BY <1>2, Zenon DEF IInv, TypeOK
  <2> QED
    BY <1>2, <1>4, <2>1, <2>2 DEF IInv, TypeOK
<1>6. ThreadPlacedOnce'
  <2>1. /\ pc[c] \notin Spawned /\ pc'[c] \in Spawned
        /\ \A u \in CPUs \ {c} : pc'[u] \in Spawned <=> pc[u] \in Spawned
    BY <1>1 DEF Spawned
  <2>2. PICK r \in DOMAIN queues : r = q
    BY <1>3
  <2>3. queues' = [queues EXCEPT ![r] = Append(@, c)] /\ UNCHANGED current
    BY <1>2, <2>2
  <2> QED
    BY <2>1, <2>3, PlacesSpawned, Zenon DEF IInv
<1>7. StackSafe'
  BY <1>1, <1>2 DEF IInv, StackSafe, Started, Secondaries
<1>8. ProgressInv'
  <2>2. \A d \in CPUs : Registered(d) <=> Registered(d)'
    BY <1>4 DEF Registered
  <2>3. \A d \in CPUs : on'[d] = IF pc'[d] \in {"entry", "idle", "panic"} THEN d ELSE BootStack
    BY <1>1, <1>2 DEF IInv, ProgressInv
  <2>4. \A d \in ready' : pc'[d] \in {"idle", "panic"}
    BY <1>1, <1>2, Zenon DEF IInv, ProgressInv, TypeOK
  <2>5. \A d \in CPUs : pc'[d] \in {"devices", "spawn", "pick", "push"} \cup Spawned => Registered(d)'
    BY <1>1, <2>2 DEF IInv, ProgressInv, Spawned
  <2>6. Len(queues') <= N /\ \A d \in CPUs : pc'[d] = "push" => target'[d] < Len(queues')
    BY <1>1, <1>2, <1>4 DEF IInv, ProgressInv
  <2>7. \A d \in CPUs : /\ irq'[d] # "none" => pc'[d] \in {"entry", "idle"}
                        /\ current'[d] # None => pc'[d] = "panic"
    BY <1>1, <1>2 DEF IInv, ProgressInv
  <2> QED
    BY <2>3, <2>4, <2>5, <2>6, <2>7 DEF ProgressInv
<1> QED
  BY <1>5, <1>6, <1>7, <1>8 DEF IInv

\* The core enters its idle thread, on the thread's stack.
LEMMA EretStep ==
    ASSUME IInv, NEW c \in CPUs, Eret(c)
    PROVE  IInv'
<1>1. /\ pc[c] = "eret" /\ irq[c] = "none" /\ pc'[c] = "entry" /\ on'[c] = c
      /\ \A d \in CPUs \ {c} : pc'[d] = pc[d] /\ on'[d] = on[d]
  BY DEF Eret, Goto, IInv, TypeOK
<1>2. UNCHANGED <<queues, current, state, spawn_counter, readers, holders, irq, timer_irq, target, ready, lent>>
  BY DEF Eret, schedVars
<1>3. TypeOK'
  <2>1. pc' \in [CPUs -> PC] /\ on' \in [CPUs -> Threads \cup {BootStack}]
    BY DEF Eret, Goto, IInv, TypeOK, PC, Threads
  <2> QED
    BY <1>2, <2>1 DEF IInv, TypeOK
<1>4. ThreadPlacedOnce'
  BY <1>1, <1>2, PlacesKept DEF IInv, Spawned
<1>5. StackSafe'
  BY <1>1, <1>2, NotCores DEF IInv, StackSafe, Started, Secondaries
<1>6. ProgressInv'
  <2>1. \A d \in CPUs : Registered(d)' <=> Registered(d)
    BY <1>2 DEF Registered
  <2>2. \A d \in CPUs : on'[d] = IF pc'[d] \in {"entry", "idle", "panic"} THEN d ELSE BootStack
    BY <1>1 DEF IInv, ProgressInv
  <2>3. \A d \in ready' : pc'[d] \in {"idle", "panic"}
    BY <1>1, <1>2 DEF IInv, ProgressInv, TypeOK
  <2>4. \A d \in CPUs : pc'[d] \in {"devices", "spawn", "pick", "push"} \cup Spawned => Registered(d)'
    BY <1>1, <2>1 DEF IInv, ProgressInv, Spawned
  <2>5. \A d \in CPUs : /\ pc'[d] = "push" => target'[d] < Len(queues')
                        /\ irq'[d] # "none" => pc'[d] \in {"entry", "idle"}
                        /\ current'[d] # None => pc'[d] = "panic"
    BY <1>1, <1>2 DEF IInv, ProgressInv
  <2> QED
    BY <1>2, <2>2, <2>3, <2>4, <2>5 DEF IInv, ProgressInv
<1> QED
  BY <1>3, <1>4, <1>5, <1>6 DEF IInv

\* The idle thread reports that its core is up.
LEMMA EntryStep ==
    ASSUME IInv, NEW c \in CPUs, Entry(c)
    PROVE  IInv'
<1>1. /\ pc[c] = "entry" /\ irq[c] = "none" /\ pc'[c] = "idle" /\ ready' = ready \cup {c}
      /\ \A d \in CPUs \ {c} : pc'[d] = pc[d]
  BY DEF Entry, Goto, IInv, TypeOK
<1>2. UNCHANGED <<queues, current, state, spawn_counter, readers, holders, irq, timer_irq, target, lent, on>>
  BY DEF Entry, schedVars
<1>3. TypeOK'
  <2>1. pc' \in [CPUs -> PC]
    BY DEF Entry, Goto, IInv, TypeOK, PC
  <2> QED
    BY <1>1, <1>2, <2>1 DEF IInv, TypeOK
<1>4. ThreadPlacedOnce'
  BY <1>1, <1>2, PlacesKept DEF IInv, Spawned
<1>5. StackSafe'
  BY <1>1, <1>2 DEF IInv, StackSafe, Started, Secondaries
<1>6. ProgressInv'
  <2>1. \A d \in CPUs : Registered(d)' <=> Registered(d)
    BY <1>2 DEF Registered
  <2>2. \A d \in CPUs : on'[d] = IF pc'[d] \in {"entry", "idle", "panic"} THEN d ELSE BootStack
    BY <1>1, <1>2 DEF IInv, ProgressInv
  <2>3. \A d \in ready' : pc'[d] \in {"idle", "panic"}
    BY <1>1, <1>2 DEF IInv, ProgressInv, TypeOK
  <2>4. \A d \in CPUs : pc'[d] \in {"devices", "spawn", "pick", "push"} \cup Spawned => Registered(d)'
    BY <1>1, <2>1 DEF IInv, ProgressInv, Spawned
  <2>5. \A d \in CPUs : /\ pc'[d] = "push" => target'[d] < Len(queues')
                        /\ irq'[d] # "none" => pc'[d] \in {"entry", "idle"}
                        /\ current'[d] # None => pc'[d] = "panic"
    BY <1>1, <1>2 DEF IInv, ProgressInv
  <2> QED
    BY <1>2, <2>2, <2>3, <2>4, <2>5 DEF IInv, ProgressInv
<1> QED
  BY <1>3, <1>4, <1>5, <1>6 DEF IInv

\* schedule().
LEMMA IrqScheduleStep ==
    ASSUME IInv, NEW c \in CPUs, IrqSchedule(c)
    PROVE  IInv'
<1> DEFINE q == c + 1
<1>1. UNCHANGED <<timer_irq, target, ready, lent>>
  BY DEF IrqSchedule
<1>2. /\ pc[c] \in {"entry", "idle"} /\ current[c] = None /\ q \in DOMAIN queues
      /\ readers' \subseteq CPUs /\ holders' \subseteq CPUs /\ spawn_counter' = spawn_counter
  BY ScheduleFacts
<1>3. CASE queues[q] = <<>>
  <2>1. UNCHANGED <<queues, current, pc, on, state>> /\ irq' = [irq EXCEPT ![c] = "eoi"]
    BY <1>3, ScheduleFacts
  <2>2. TypeOK'
    BY <1>1, <1>2, <2>1 DEF IInv, TypeOK
  <2>3. \A d \in CPUs \ {c} : irq'[d] = irq[d]
    BY <2>1 DEF IInv, TypeOK
  <2> QED
    BY <1>1, <1>2, <2>1, <2>2, <2>3, HandlerMoves DEF IInv
<1>4. CASE queues[q] # <<>>
  <2>1. /\ queues' = [queues EXCEPT ![q] = Tail(queues[q])]
        /\ current' = [current EXCEPT ![c] = Head(queues[q])]
        /\ pc' = [pc EXCEPT ![c] = "panic"] /\ on' = on
        /\ irq' = [irq EXCEPT ![c] = "none"]
        /\ state' = [t \in Threads |-> IF t = Head(queues[q]) THEN "Running" ELSE state[t]]
    BY <1>4, ScheduleFacts
  <2> HIDE DEF q
  <2>2. queues \in Seq(Seq(Threads)) /\ queues[q] \in Seq(Threads)
    BY <1>2 DEF IInv, TypeOK
  <2>3. Tail(queues[q]) \in Seq(Threads) /\ Head(queues[q]) \in Threads
    BY <1>4, <2>2
  <2>4. queues' \in Seq(Seq(Threads)) /\ Len(queues') = Len(queues)
    BY <1>2, <2>1, <2>2, <2>3
  <2>5. /\ pc'[c] = "panic" /\ irq'[c] = "none"
        /\ \A d \in CPUs \ {c} : pc'[d] = pc[d] /\ irq'[d] = irq[d] /\ current'[d] = current[d]
    BY <2>1 DEF IInv, TypeOK
  <2>6. TypeOK'
    <3>1. pc' \in [CPUs -> PC]
      BY <2>1 DEF IInv, TypeOK, PC
    <3>2. irq' \in [CPUs -> {"none", "ack", "read", "schedule", "eoi"}]
      BY <2>1 DEF IInv, TypeOK
    <3>3. current' \in [CPUs -> Threads \cup {None}]
      BY <2>1, <2>3 DEF IInv, TypeOK
    <3>4. state' \in [Threads -> {"Running", "Ready", "Blocked", "Dead"}]
      BY <2>1 DEF IInv, TypeOK
    <3> QED
      BY <1>1, <1>2, <2>1, <2>4, <3>1, <3>2, <3>3, <3>4 DEF IInv, TypeOK
  <2>7. ThreadPlacedOnce'
    <3>1. \A t \in CPUs : pc'[t] \in Spawned <=> pc[t] \in Spawned
      BY <1>2, <2>5 DEF Spawned
    <3>2. PICK r \in DOMAIN queues : r = q
      BY <1>2
    <3>3. /\ queues[r] # <<>> /\ queues' = [queues EXCEPT ![r] = Tail(queues[r])]
          /\ current' = [current EXCEPT ![c] = Head(queues[r])]
      BY <1>4, <2>1, <3>2
    <3> QED
      BY <1>2, <3>1, <3>3, PlacesSwitched, Zenon DEF IInv
  <2>8. StackSafe'
    BY <1>1, <1>2, <2>1, <2>5 DEF IInv, StackSafe, Started, Secondaries
  <2>9. ProgressInv'
    <3>1. \A d \in CPUs : Registered(d)' <=> Registered(d)
      BY <2>4 DEF Registered
    <3>2. \A d \in CPUs : on'[d] = IF pc'[d] \in {"entry", "idle", "panic"} THEN d ELSE BootStack
      BY <1>2, <2>1, <2>5 DEF IInv, ProgressInv
    <3>3. \A d \in ready' : pc'[d] \in {"idle", "panic"}
      BY <1>1, <2>5 DEF IInv, ProgressInv, TypeOK
    <3>4. \A d \in CPUs : pc'[d] \in {"devices", "spawn", "pick", "push"} \cup Spawned => Registered(d)'
      BY <1>2, <2>5, <3>1 DEF IInv, ProgressInv, Spawned
    <3>5. \A d \in CPUs : /\ pc'[d] = "push" => target'[d] < Len(queues')
                          /\ irq'[d] # "none" => pc'[d] \in {"entry", "idle"}
                          /\ current'[d] # None => pc'[d] = "panic"
      BY <1>1, <2>4, <2>5 DEF IInv, ProgressInv
    <3> QED
      BY <2>4, <3>2, <3>3, <3>4, <3>5 DEF IInv, ProgressInv
  <2> QED
    BY <2>6, <2>7, <2>8, <2>9 DEF IInv
<1> QED
  BY <1>3, <1>4

\* Steps of a core that is still booting and touches nothing but its place.
LEMMA BootStep ==
    ASSUME IInv, NEW c \in CPUs, NEW from \in PC \ ({"off"} \cup Spawned), NEW to \in PC \ Spawned,
           Goto(c, from, to),
           to \in {"devices", "spawn", "pick"} => Registered(c), to # "push",
           UNCHANGED <<schedVars, timer_irq, irq, target, ready, lent, on>>
    PROVE  IInv'
<1>1. UNCHANGED <<queues, current, state, spawn_counter, readers, holders, timer_irq, irq, target, ready, lent, on>>
  BY DEF schedVars
<1>2. pc[c] = from /\ irq[c] = "none" /\ pc' = [pc EXCEPT ![c] = to]
  BY DEF Goto
<1>3. TypeOK'
  <2>1. pc' \in [CPUs -> PC]
    BY <1>2 DEF IInv, TypeOK
  <2> QED
    BY <1>1, <2>1 DEF IInv, TypeOK
<1>4. ProgressInv' /\ ThreadPlacedOnce' /\ (lent \subseteq lent' => StackSafe')
  BY <1>1, <1>2, BootMoves, Zenon
<1> QED
  BY <1>1, <1>3, <1>4 DEF IInv

\* The boot core takes stacks back from cores that have left theirs.
LEMMA SeesReadyStep ==
    ASSUME IInv, SeesReady
    PROVE  IInv'
<1>1. /\ UNCHANGED <<queues, current, state, spawn_counter, readers, holders, timer_irq, irq, target, ready, on>>
      /\ lent' = {} /\ lent \subseteq ready
      /\ pc[BSP] = "wait" /\ irq[BSP] = "none" /\ pc' = [pc EXCEPT ![BSP] = "boot"]
  BY DEF SeesReady, Goto, schedVars
<1>2. TypeOK'
  <2>1. pc' \in [CPUs -> PC]
    BY <1>1, Zenon DEF IInv, TypeOK, PC
  <2> QED
    BY <1>1, <2>1 DEF IInv, TypeOK
<1>3. ProgressInv' /\ ThreadPlacedOnce' /\ (lent \subseteq lent' => StackSafe')
  <2>1. "wait" \notin {"off"} \cup Spawned /\ "boot" \notin Spawned
    BY DEF Spawned
  <2> QED
    BY <1>1, <2>1, BSPAssumption, BootMoves, Zenon
<1>4. StackSafe'
  <2>1. \A c \in lent : pc[c] \in {"idle", "panic"} /\ c \in CPUs
    BY <1>1 DEF IInv, ProgressInv, TypeOK
  <2>2. \A c \in lent : on[c] # BootStack
    BY <2>1, NotCores DEF IInv, ProgressInv
  <2>3. \A c \in Secondaries : pc'[c] = pc[c]
    BY <1>1 DEF IInv, TypeOK, Secondaries
  <2> QED
    BY <1>1, <2>2, <2>3 DEF IInv, StackSafe, Started
<1> QED
  BY <1>2, <1>3, <1>4 DEF IInv

\* spawn() gets the read lock.
LEMMA SpawnReadStep ==
    ASSUME IInv, NEW c \in CPUs, SpawnRead(c)
    PROVE  IInv'
<1>1. /\ UNCHANGED <<queues, current, state, spawn_counter, holders, timer_irq, irq, target, ready, lent, on>>
      /\ readers' = readers \cup {c}
      /\ pc[c] = "spawn" /\ irq[c] = "none" /\ pc' = [pc EXCEPT ![c] = "pick"]
  BY DEF SpawnRead, Goto, ReadQueues
<1>2. TypeOK'
  <2>1. pc' \in [CPUs -> PC]
    BY <1>1 DEF IInv, TypeOK, PC
  <2> QED
    BY <1>1, <2>1 DEF IInv, TypeOK
<1>3. "spawn" \notin {"off"} \cup Spawned /\ "pick" \notin Spawned /\ Registered(c)
  BY <1>1 DEF IInv, ProgressInv, Spawned
<1>4. ProgressInv' /\ ThreadPlacedOnce' /\ (lent \subseteq lent' => StackSafe')
  BY <1>1, <1>3, BootMoves, Zenon
<1> QED
  BY <1>1, <1>2, <1>4 DEF IInv

\* spawn() picks a queue that exists.
LEMMA SpawnPickStep ==
    ASSUME IInv, NEW c \in CPUs, SpawnPick(c)
    PROVE  IInv'
<1>1. /\ UNCHANGED <<queues, current, state, readers, holders, timer_irq, irq, ready, lent, on>>
      /\ target' = [target EXCEPT ![c] = Target] /\ spawn_counter' = (spawn_counter + 1) % CounterMod
      /\ pc[c] = "pick" /\ irq[c] = "none" /\ pc' = [pc EXCEPT ![c] = "push"] /\ queues # <<>>
  BY DEF SpawnPick, Goto, PickTarget, HasCPUs
<1>2. Target \in CPUs /\ Target < Len(queues)
  <2>1. Len(queues) \in Nat \ {0} /\ Len(queues) <= N /\ spawn_counter \in Nat
    BY <1>1, CounterAssumption DEF IInv, TypeOK, ProgressInv
  <2> QED
    BY <2>1, NAssumption DEF Target, CPUs
<1>3. TypeOK'
  <2>1. pc' \in [CPUs -> PC] /\ target' \in [CPUs -> CPUs]
    BY <1>1, <1>2 DEF IInv, TypeOK, PC
  <2>2. spawn_counter' \in 0 .. CounterMod - 1
    BY <1>1, CounterAssumption DEF IInv, TypeOK
  <2> QED
    BY <1>1, <2>1, <2>2 DEF IInv, TypeOK
<1>4. "pick" \notin {"off"} \cup Spawned /\ "push" \notin Spawned /\ Registered(c)
  BY <1>1 DEF IInv, ProgressInv, Spawned
<1>5. target'[c] < Len(queues) /\ \A d \in CPUs \ {c} : target'[d] = target[d]
  BY <1>1, <1>2 DEF IInv, TypeOK
<1>6. ProgressInv' /\ ThreadPlacedOnce' /\ (lent \subseteq lent' => StackSafe')
  BY <1>1, <1>4, <1>5, BootMoves, Zenon
<1> QED
  BY <1>1, <1>3, <1>6 DEF IInv

\* A core enters, goes on with or leaves its interrupt handler.
LEMMA HandlerStep ==
    ASSUME IInv, NEW c \in CPUs, NEW to \in {"none", "ack", "read", "schedule", "eoi"},
           pc[c] \in {"entry", "idle"}, irq' = [irq EXCEPT ![c] = to],
           readers' \subseteq CPUs,
           UNCHANGED <<queues, current, state, spawn_counter, holders, timer_irq, pc, target, ready, lent, on>>
    PROVE  IInv'
<1>1. TypeOK'
  BY DEF IInv, TypeOK
<1>2. \A d \in CPUs \ {c} : irq'[d] = irq[d]
  BY DEF IInv, TypeOK
<1> QED
  BY <1>1, <1>2, HandlerMoves DEF IInv
-----------------------------------------------------------------------------
LEMMA InitBoot == Init => IInv
<1> SUFFICES ASSUME Init
             PROVE  IInv
  OBVIOUS
<1>1. /\ queues = <<>> /\ current = [c \in CPUs |-> None] /\ readers = {} /\ holders = {}
      /\ state = [t \in Threads |-> "Ready"] /\ spawn_counter = 0
      /\ pc = [c \in CPUs |-> IF c = BSP THEN "boot" ELSE "off"]
      /\ irq = [c \in CPUs |-> "none"] /\ timer_irq \in TimerIrqs
      /\ target = [c \in CPUs |-> 0] /\ ready = {} /\ lent = {} /\ on = [c \in CPUs |-> BootStack]
  BY DEF Init, SchedInit
<1>2. TypeOK
  <2>1. queues \in Seq(Seq(Threads)) /\ spawn_counter \in 0 .. CounterMod - 1
    BY <1>1, CounterAssumption
  <2>2. pc \in [CPUs -> PC]
    BY <1>1 DEF PC
  <2>3. target \in [CPUs -> CPUs]
    BY <1>1, NotCores
  <2> QED
    BY <1>1, <2>1, <2>2, <2>3 DEF TypeOK
<1>3. ProgressInv
  <2>1. Len(queues) <= N
    BY <1>1, NAssumption
  <2>2. \A c \in CPUs : pc[c] \in {"boot", "off"} /\ irq[c] = "none" /\ current[c] = None /\ on[c] = BootStack
    BY <1>1
  <2> QED
    BY <1>1, <2>1, <2>2 DEF ProgressInv, Spawned
<1>4. StackSafe
  BY <1>1 DEF StackSafe, Started, Secondaries
<1>5. ThreadPlacedOnce
  <2>1. DOMAIN queues = {} /\ \A c \in CPUs : current[c] = None /\ pc[c] \notin Spawned
    BY <1>1 DEF Spawned
  <2> QED
    BY <2>1, NotCores DEF ThreadPlacedOnce, InQueue, Threads
<1> QED
  BY <1>2, <1>3, <1>4, <1>5 DEF IInv

LEMMA NextBoot == IInv /\ [Next]_vars => IInv'
<1> SUFFICES ASSUME IInv, [Next]_vars
             PROVE  IInv'
  OBVIOUS
<1> USE DEF PC, Spawned
<1>1. CASE UNCHANGED vars
  <2>1. UNCHANGED <<queues, current, pc, irq, target, ready, lent, on>>
    BY <1>1 DEF vars
  <2>2. TypeOK'
    BY <1>1 DEF vars, IInv, TypeOK
  <2>3. ProgressInv' /\ StackSafe'
    BY <2>1 DEF IInv, ProgressInv, StackSafe, Started, Registered
  <2> QED
    BY <2>1, <2>2, <2>3, PlacesKept DEF IInv
<1>2. ASSUME NEW c \in Secondaries, CpuOn(c) \/ CpuOnFails(c) \/ Trampoline(c) \/ Devices(c)
      PROVE  IInv'
  <2>1. CASE CpuOn(c)
    BY <2>1, CpuOnStep
  <2>2. CASE CpuOnFails(c)
    BY <2>2, BootStep, BSPAssumption DEF CpuOnFails
  <2>3. CASE Trampoline(c)
    BY <2>3, BootStep DEF Trampoline, Secondaries
  <2>4. CASE Devices(c)
    <3>1. c \in CPUs /\ Registered(c)
      BY <2>4 DEF Devices, Goto, Secondaries, IInv, ProgressInv
    <3> QED
      BY <2>4, <3>1, BootStep DEF Devices
  <2> QED
    BY <1>2, <2>1, <2>2, <2>3, <2>4
<1>3. CASE SeesReady
  BY <1>3, SeesReadyStep
<1>4. CASE AllStarted
  BY <1>4, BootStep, BSPAssumption DEF AllStarted
<1>5. ASSUME NEW c \in CPUs, WaitToRegister(c) \/ Register(c)
      PROVE  IInv'
  <2>1. CASE WaitToRegister(c)
    BY <2>1, BootStep DEF WaitToRegister
  <2> QED
    BY <1>5, <2>1, RegisterStep
<1>6. ASSUME NEW c \in CPUs, Thread(c)
      PROVE  IInv'
  BY <1>6, SpawnReadStep, SpawnPickStep, SpawnPushStep, EretStep, EntryStep DEF Thread
<1>7. ASSUME NEW c \in CPUs, Irq(c) \/ Handler(c)
      PROVE  IInv'
  <2>1. CASE IrqSchedule(c)
    BY <2>1, IrqScheduleStep
  <2>2. CASE IrqRead(c)
    <3>1. /\ irq[c] = "read" /\ irq' = [irq EXCEPT ![c] = "schedule"] /\ readers' = readers \cup {c}
          /\ UNCHANGED <<queues, current, state, spawn_counter, holders, timer_irq, pc, target, ready, lent, on>>
      BY <2>2 DEF IrqRead, IrqGoto, ReadQueues
    <3>2. pc[c] \in {"entry", "idle"} /\ readers' \subseteq CPUs
      BY <3>1 DEF IInv, ProgressInv, TypeOK
    <3> QED
      BY <3>1, <3>2, HandlerStep, Zenon
  <2>3. CASE Irq(c) \/ IrqAck(c) \/ IrqAckTimer(c) \/ EndOfInterrupt(c)
    <3>1. UNCHANGED <<queues, current, state, spawn_counter, readers, holders, timer_irq, pc, target, ready, lent, on>>
      BY <2>3 DEF Irq, IrqAck, IrqAckTimer, EndOfInterrupt, schedVars
    <3>2. PICK to \in {"none", "ack", "read", "schedule", "eoi"} : irq' = [irq EXCEPT ![c] = to]
      BY <2>3 DEF Irq, IrqAck, IrqAckTimer, EndOfInterrupt, IrqGoto
    <3>3. pc[c] \in {"entry", "idle"}
      BY <2>3 DEF Irq, IrqAck, IrqAckTimer, EndOfInterrupt, IrqGoto, IInv, ProgressInv
    <3>4. readers' \subseteq CPUs
      BY <3>1 DEF IInv, TypeOK
    <3> QED
      BY <3>1, <3>2, <3>3, <3>4, HandlerStep, Zenon
  <2> QED
    BY <1>7, <2>1, <2>2, <2>3 DEF Handler
<1> QED
  BY <1>1, <1>2, <1>3, <1>4, <1>5, <1>6, <1>7 DEF Next

\* Every core that is on its boot stack still has it, each idle thread is on one
\* core and in one queue or with the core that took it, and the indexing and the
\* assertion of schedule() and spawn() never fail, for any number of cores
\* (klib/scheduler.rs, kmain.rs and boot_secondary).
THEOREM CoresBootSafely == Spec => []BootInv
<1>1. Init => IInv
  BY InitBoot
<1>2. IInv /\ [Next]_vars => IInv'
  BY NextBoot
<1>3. IInv => BootInv
  BY IInvBoot
<1> QED
  BY <1>1, <1>2, <1>3, PTL DEF Spec
-----------------------------------------------------------------------------
(* The timer of a core *)

CONSTANTS Frequencies, Second, Nanos, Largest, LastTime
VARIABLES ENABLE, IMASK, cval, counter, freq, deadline, todo

Tick == INSTANCE Timer

TimerOps == {"mask", "max", "disable", "unmask", "enable", "eoi", "enable_irq", "count", "compare"}

\* Two programs, one after the other.
LEMMA Joined ==
  ASSUME NEW p \in Seq(TimerOps), NEW q \in Seq(TimerOps), NEW r \in Seq(TimerOps),
         Len(r) = Len(p) + Len(q),
         \A i \in 1 .. Len(p) : r[i] = p[i],
         \A i \in 1 .. Len(q) : r[Len(p) + i] = q[i]
  PROVE  p \o q = r
<1>1. p \o q \in Seq(TimerOps) /\ Len(p \o q) = Len(r)
    OBVIOUS
<1>2. Len(p) \in Nat /\ Len(q) \in Nat
    OBVIOUS
<1>3. ASSUME NEW i \in 1 .. Len(r) PROVE (p \o q)[i] = r[i]
    <2>1. (p \o q)[i] = IF i <= Len(p) THEN p[i] ELSE q[i - Len(p)]
        OBVIOUS
    <2>2. CASE i <= Len(p)
        BY <1>2, <2>1, <2>2
    <2>3. CASE i > Len(p)
        <3>1. i - Len(p) \in 1 .. Len(q) /\ Len(p) + (i - Len(p)) = i
            BY <1>2, <2>3
        <3> QED BY <2>1, <2>3, <3>1
    <2> QED BY <1>2, <2>2, <2>3
<1> QED BY <1>1, <1>3

\* The programs of secondary_handle and irq_current, joined part by part.
LEMMA Join1 == <<"mask", "max", "disable">> \o <<"unmask">>
    = <<"mask", "max", "disable", "unmask">>
<1> DEFINE p == <<"mask", "max", "disable">>
           q == <<"unmask">>
           r == <<"mask", "max", "disable", "unmask">>
<1>1. p \in Seq(TimerOps) /\ q \in Seq(TimerOps) /\ r \in Seq(TimerOps)
    BY DEF TimerOps
<1>2. Len(p) = 3 /\ Len(q) = 1 /\ Len(r) = 4
    OBVIOUS
<1>3. \A i \in 1 .. 3 : r[i] = p[i]
    OBVIOUS
<1>4. \A i \in 1 .. 1 : r[3 + i] = q[i]
    OBVIOUS
<1> HIDE DEF p, q, r
<1>5. \A i \in 1 .. Len(p) : r[i] = p[i]
    BY <1>2, <1>3
<1>6. \A i \in 1 .. Len(q) : r[Len(p) + i] = q[i]
    BY <1>2, <1>4
<1>7. Len(r) = Len(p) + Len(q)
    BY <1>2
<1>8. p \o q = r
    BY <1>1, <1>5, <1>6, <1>7, Joined, Zenon
<1> QED BY <1>8 DEF p, q, r

LEMMA Join2 == <<"mask", "max", "disable", "unmask">> \o <<"enable_irq">>
    = <<"mask", "max", "disable", "unmask", "enable_irq">>
<1> DEFINE p == <<"mask", "max", "disable", "unmask">>
           q == <<"enable_irq">>
           r == <<"mask", "max", "disable", "unmask", "enable_irq">>
<1>1. p \in Seq(TimerOps) /\ q \in Seq(TimerOps) /\ r \in Seq(TimerOps)
    BY DEF TimerOps
<1>2. Len(p) = 4 /\ Len(q) = 1 /\ Len(r) = 5
    OBVIOUS
<1>3. \A i \in 1 .. 4 : r[i] = p[i]
    OBVIOUS
<1>4. \A i \in 1 .. 1 : r[4 + i] = q[i]
    OBVIOUS
<1> HIDE DEF p, q, r
<1>5. \A i \in 1 .. Len(p) : r[i] = p[i]
    BY <1>2, <1>3
<1>6. \A i \in 1 .. Len(q) : r[Len(p) + i] = q[i]
    BY <1>2, <1>4
<1>7. Len(r) = Len(p) + Len(q)
    BY <1>2
<1>8. p \o q = r
    BY <1>1, <1>5, <1>6, <1>7, Joined, Zenon
<1> QED BY <1>8 DEF p, q, r

LEMMA Join3 == <<"mask", "max", "disable", "unmask", "enable_irq">> \o <<"unmask", "enable">>
    = <<"mask", "max", "disable", "unmask", "enable_irq", "unmask", "enable">>
<1> DEFINE p == <<"mask", "max", "disable", "unmask", "enable_irq">>
           q == <<"unmask", "enable">>
           r == <<"mask", "max", "disable", "unmask", "enable_irq", "unmask", "enable">>
<1>1. p \in Seq(TimerOps) /\ q \in Seq(TimerOps) /\ r \in Seq(TimerOps)
    BY DEF TimerOps
<1>2. Len(p) = 5 /\ Len(q) = 2 /\ Len(r) = 7
    OBVIOUS
<1>3. \A i \in 1 .. 5 : r[i] = p[i]
    OBVIOUS
<1>4. \A i \in 1 .. 2 : r[5 + i] = q[i]
    OBVIOUS
<1> HIDE DEF p, q, r
<1>5. \A i \in 1 .. Len(p) : r[i] = p[i]
    BY <1>2, <1>3
<1>6. \A i \in 1 .. Len(q) : r[Len(p) + i] = q[i]
    BY <1>2, <1>4
<1>7. Len(r) = Len(p) + Len(q)
    BY <1>2
<1>8. p \o q = r
    BY <1>1, <1>5, <1>6, <1>7, Joined, Zenon
<1> QED BY <1>8 DEF p, q, r

LEMMA Join4 == <<"mask", "max", "disable", "unmask", "enable_irq", "unmask", "enable">> \o <<"count", "compare", "enable">>
    = <<"mask", "max", "disable", "unmask", "enable_irq", "unmask", "enable", "count", "compare", "enable">>
<1> DEFINE p == <<"mask", "max", "disable", "unmask", "enable_irq", "unmask", "enable">>
           q == <<"count", "compare", "enable">>
           r == <<"mask", "max", "disable", "unmask", "enable_irq", "unmask", "enable", "count", "compare", "enable">>
<1>1. p \in Seq(TimerOps) /\ q \in Seq(TimerOps) /\ r \in Seq(TimerOps)
    BY DEF TimerOps
<1>2. Len(p) = 7 /\ Len(q) = 3 /\ Len(r) = 10
    OBVIOUS
<1>3. \A i \in 1 .. 7 : r[i] = p[i]
    OBVIOUS
<1>4. \A i \in 1 .. 3 : r[7 + i] = q[i]
    OBVIOUS
<1> HIDE DEF p, q, r
<1>5. \A i \in 1 .. Len(p) : r[i] = p[i]
    BY <1>2, <1>3
<1>6. \A i \in 1 .. Len(q) : r[Len(p) + i] = q[i]
    BY <1>2, <1>4
<1>7. Len(r) = Len(p) + Len(q)
    BY <1>2
<1>8. p \o q = r
    BY <1>1, <1>5, <1>6, <1>7, Joined, Zenon
<1> QED BY <1>8 DEF p, q, r

LEMMA Join5 == <<"mask", "max", "disable">> \o <<"unmask", "enable">>
    = <<"mask", "max", "disable", "unmask", "enable">>
<1> DEFINE p == <<"mask", "max", "disable">>
           q == <<"unmask", "enable">>
           r == <<"mask", "max", "disable", "unmask", "enable">>
<1>1. p \in Seq(TimerOps) /\ q \in Seq(TimerOps) /\ r \in Seq(TimerOps)
    BY DEF TimerOps
<1>2. Len(p) = 3 /\ Len(q) = 2 /\ Len(r) = 5
    OBVIOUS
<1>3. \A i \in 1 .. 3 : r[i] = p[i]
    OBVIOUS
<1>4. \A i \in 1 .. 2 : r[3 + i] = q[i]
    OBVIOUS
<1> HIDE DEF p, q, r
<1>5. \A i \in 1 .. Len(p) : r[i] = p[i]
    BY <1>2, <1>3
<1>6. \A i \in 1 .. Len(q) : r[Len(p) + i] = q[i]
    BY <1>2, <1>4
<1>7. Len(r) = Len(p) + Len(q)
    BY <1>2
<1>8. p \o q = r
    BY <1>1, <1>5, <1>6, <1>7, Joined, Zenon
<1> QED BY <1>8 DEF p, q, r

LEMMA Join6 == <<"mask", "max", "disable", "unmask", "enable">> \o <<"eoi">>
    = <<"mask", "max", "disable", "unmask", "enable", "eoi">>
<1> DEFINE p == <<"mask", "max", "disable", "unmask", "enable">>
           q == <<"eoi">>
           r == <<"mask", "max", "disable", "unmask", "enable", "eoi">>
<1>1. p \in Seq(TimerOps) /\ q \in Seq(TimerOps) /\ r \in Seq(TimerOps)
    BY DEF TimerOps
<1>2. Len(p) = 5 /\ Len(q) = 1 /\ Len(r) = 6
    OBVIOUS
<1>3. \A i \in 1 .. 5 : r[i] = p[i]
    OBVIOUS
<1>4. \A i \in 1 .. 1 : r[5 + i] = q[i]
    OBVIOUS
<1> HIDE DEF p, q, r
<1>5. \A i \in 1 .. Len(p) : r[i] = p[i]
    BY <1>2, <1>3
<1>6. \A i \in 1 .. Len(q) : r[Len(p) + i] = q[i]
    BY <1>2, <1>4
<1>7. Len(r) = Len(p) + Len(q)
    BY <1>2
<1>8. p \o q = r
    BY <1>1, <1>5, <1>6, <1>7, Joined, Zenon
<1> QED BY <1>8 DEF p, q, r

LEMMA Join7 == <<"mask", "max", "disable", "unmask", "enable", "eoi">> \o <<"count", "compare", "enable">>
    = <<"mask", "max", "disable", "unmask", "enable", "eoi", "count", "compare", "enable">>
<1> DEFINE p == <<"mask", "max", "disable", "unmask", "enable", "eoi">>
           q == <<"count", "compare", "enable">>
           r == <<"mask", "max", "disable", "unmask", "enable", "eoi", "count", "compare", "enable">>
<1>1. p \in Seq(TimerOps) /\ q \in Seq(TimerOps) /\ r \in Seq(TimerOps)
    BY DEF TimerOps
<1>2. Len(p) = 6 /\ Len(q) = 3 /\ Len(r) = 9
    OBVIOUS
<1>3. \A i \in 1 .. 6 : r[i] = p[i]
    OBVIOUS
<1>4. \A i \in 1 .. 3 : r[6 + i] = q[i]
    OBVIOUS
<1> HIDE DEF p, q, r
<1>5. \A i \in 1 .. Len(p) : r[i] = p[i]
    BY <1>2, <1>3
<1>6. \A i \in 1 .. Len(q) : r[Len(p) + i] = q[i]
    BY <1>2, <1>4
<1>7. Len(r) = Len(p) + Len(q)
    BY <1>2
<1>8. p \o q = r
    BY <1>1, <1>5, <1>6, <1>7, Joined, Zenon
<1> QED BY <1>8 DEF p, q, r

LEMMA Programs ==
    /\ Tick!secondary_handle = <<"mask", "max", "disable", "unmask", "enable_irq", "unmask", "enable", "count", "compare", "enable">>
    /\ Tick!irq_current(TRUE) = <<"mask", "max", "disable", "unmask", "enable", "eoi", "count", "compare", "enable">>
    /\ Tick!irq_current(FALSE) = <<"count", "compare", "enable">>
<1>1. Tick!irq_current(FALSE) = <<"count", "compare", "enable">>
    <2>1. Tick!timer_schedule \in Seq(TimerOps)
        BY DEF Tick!timer_schedule, TimerOps
    <2>2. <<>> \o Tick!timer_schedule = Tick!timer_schedule
        BY <2>1
    <2> QED BY <2>2 DEF Tick!irq_current, Tick!timer_schedule
<1> QED BY <1>1, Join1, Join2, Join3, Join4, Join5, Join6, Join7, Zenon
      DEF Tick!secondary_handle, Tick!irq_current, Tick!init_timer, Tick!disarm, Tick!timer_rearm, Tick!timer_schedule

\* A period is a number of ticks, or None.
LEMMA TickFacts ==
    ASSUME Tick!Assumptions, freq \in Frequencies
    PROVE  Tick!to_ticks(Nanos, freq) \in Nat
<1>1. freq \in Nat /\ Nanos * freq \in Nat
    BY DEF Tick!Assumptions
<1>2. (Nanos * freq) \div Second \in Nat
    BY <1>1 DEF Tick!Assumptions
<1> QED BY <1>1, <1>2 DEF Tick!to_ticks, Tick!None, Tick!Assumptions

\* Time passes: what is due within a period remains so.
LEMMA TimeStep ==
    ASSUME Tick!Assumptions, Tick!IInv, Tick!Time
    PROVE  Tick!IInv'
<1> DEFINE ticks == Tick!to_ticks(Nanos, freq)
<1>1. ticks \in Nat /\ ticks' = ticks
    BY TickFacts DEF Tick!IInv, Tick!TypeOK, Tick!Time, Tick!to_ticks
<1>2. counter \in Nat /\ counter' = counter + 1 /\ counter' <= LastTime
    BY DEF Tick!IInv, Tick!TypeOK, Tick!Time, Tick!Assumptions
<1>3. cval' = cval /\ deadline' = deadline /\ ENABLE' = ENABLE /\ IMASK' = IMASK /\ todo' = todo /\ freq' = freq /\ cval \in Nat /\ deadline \in Nat
    BY DEF Tick!Time, Tick!IInv, Tick!TypeOK
<1> HIDE DEF ticks
<1>4. Tick!TypeOK'
    BY <1>2, <1>3 DEF Tick!IInv, Tick!TypeOK, Tick!Assumptions
<1>5. (Tick!Due(cval) => Tick!Due(cval)') /\ (Tick!Due(deadline) => Tick!Due(deadline)')
    BY <1>1, <1>2, <1>3 DEF Tick!Due, ticks, Tick!None
<1>6. Tick!Armed' 
    <2>1. Tick!Armed
        BY DEF Tick!IInv
    <2> QED BY <2>1, <1>1, <1>2, <1>3 DEF Tick!Armed, ticks, Tick!None, Tick!Assumptions
<1> QED BY <1>3, <1>4, <1>5, <1>6 DEF Tick!IInv

LEMMA IrqStep ==
    ASSUME Tick!Assumptions, Tick!IInv, Tick!Irq
    PROVE  Tick!IInv'
<1>1. todo' \in {<<"mask", "max", "disable", "unmask", "enable", "eoi", "count", "compare", "enable">>, <<"count", "compare", "enable">>}
    BY Programs DEF Tick!Irq
<1>2. Tick!TypeOK' /\ ENABLE' = ENABLE /\ cval' = cval
    BY DEF Tick!Irq, Tick!IInv, Tick!TypeOK
<1>3. todo' \in Tick!Stopping \cup Tick!Scheduling
    BY <1>1, Zenon DEF Tick!Stopping, Tick!Scheduling
<1>4. /\ todo' # <<"enable_irq", "unmask", "enable", "count", "compare", "enable">> /\ todo' \notin Tick!Stopped
      /\ todo' # <<"compare", "enable">> /\ todo' # <<"enable">> /\ todo' # <<>>
    BY <1>1 DEF Tick!Stopped
<1>5. Tick!Armed'
    BY <1>4 DEF Tick!Armed
<1> QED
    BY <1>2, <1>3, <1>4, <1>5, Zenon DEF Tick!IInv

LEMMA TypeStep ==
    ASSUME Tick!Assumptions, Tick!IInv, Tick!Control \/ Tick!Compare \/ Tick!Deadline \/ Tick!Gic
    PROVE  Tick!TypeOK' /\ counter' = counter /\ freq' = freq
<1>1. Tick!TypeOK
    BY DEF Tick!IInv
<1>2. CASE Tick!Control
    BY <1>1, <1>2 DEF Tick!Control, Tick!TypeOK
<1>3. CASE Tick!Compare
    BY <1>1, <1>3 DEF Tick!Compare, Tick!TypeOK, Tick!Assumptions
<1>4. CASE Tick!Gic
    BY <1>1, <1>4 DEF Tick!Gic, Tick!TypeOK
<1>5. CASE Tick!Deadline
    BY <1>1, <1>5, TickFacts DEF Tick!Deadline, Tick!TypeOK, Tick!Assumptions, Tick!Checked, Tick!None
<1> QED BY <1>2, <1>3, <1>4, <1>5

\* The next write of a program, by what is left of it.
LEMMA WriteStep ==
    ASSUME Tick!Assumptions, Tick!IInv, Tick!Control \/ Tick!Compare \/ Tick!Deadline \/ Tick!Gic
    PROVE  Tick!IInv'
<1>1. Tick!TypeOK' /\ counter' = counter /\ freq' = freq
    BY TypeStep
<1>2. Tick!to_ticks(Nanos, freq) \in Nat /\ counter \in Nat
    BY TickFacts DEF Tick!IInv, Tick!TypeOK
<1>3. todo # <<>>
    BY DEF Tick!Control, Tick!Compare, Tick!Deadline, Tick!Gic, Tick!Doing
<1>4. CASE todo = <<"mask", "max", "disable", "unmask", "enable_irq", "unmask", "enable", "count", "compare", "enable">>
    <2>1. todo # <<>> /\ Head(todo) = "mask" /\ Tail(todo) = <<"max", "disable", "unmask", "enable_irq", "unmask", "enable", "count", "compare", "enable">>
        BY <1>4
    <2>2. todo' = <<"max", "disable", "unmask", "enable_irq", "unmask", "enable", "count", "compare", "enable">> /\ deadline' = deadline /\ ENABLE' = FALSE /\ cval' = cval
        BY <2>1 DEF Tick!Control, Tick!Compare, Tick!Deadline, Tick!Gic, Tick!Doing
    <2>3. todo' \in Tick!Starting
        BY <2>2, Zenon DEF Tick!Starting
    <2>4. todo' # <<"enable_irq", "unmask", "enable", "count", "compare", "enable">> /\ todo' \notin Tick!Stopped
          /\ todo' # <<"compare", "enable">> /\ todo' # <<"enable">> /\ todo' # <<>>
        BY <2>2 DEF Tick!Stopped
    <2> QED BY <1>1, <2>2, <2>3, <2>4, Zenon DEF Tick!IInv, Tick!Armed
<1>5. CASE todo = <<"max", "disable", "unmask", "enable_irq", "unmask", "enable", "count", "compare", "enable">>
    <2>1. todo # <<>> /\ Head(todo) = "max" /\ Tail(todo) = <<"disable", "unmask", "enable_irq", "unmask", "enable", "count", "compare", "enable">>
        BY <1>5
    <2>2. todo' = <<"disable", "unmask", "enable_irq", "unmask", "enable", "count", "compare", "enable">> /\ deadline' = deadline /\ ENABLE' = ENABLE /\ cval' = Largest
        BY <2>1 DEF Tick!Control, Tick!Compare, Tick!Deadline, Tick!Gic, Tick!Doing
    <2>3. todo' \in Tick!Starting
        BY <2>2, Zenon DEF Tick!Starting
    <2>4. todo' # <<"enable_irq", "unmask", "enable", "count", "compare", "enable">> /\ todo' \notin Tick!Stopped
          /\ todo' # <<"compare", "enable">> /\ todo' # <<"enable">> /\ todo' # <<>>
        BY <2>2 DEF Tick!Stopped
    <2> QED BY <1>1, <2>2, <2>3, <2>4, Zenon DEF Tick!IInv, Tick!Armed
<1>6. CASE todo = <<"disable", "unmask", "enable_irq", "unmask", "enable", "count", "compare", "enable">>
    <2>1. todo # <<>> /\ Head(todo) = "disable" /\ Tail(todo) = <<"unmask", "enable_irq", "unmask", "enable", "count", "compare", "enable">>
        BY <1>6
    <2>2. todo' = <<"unmask", "enable_irq", "unmask", "enable", "count", "compare", "enable">> /\ deadline' = deadline /\ ENABLE' = FALSE /\ IMASK' = FALSE /\ cval' = cval
        BY <2>1 DEF Tick!Control, Tick!Compare, Tick!Deadline, Tick!Gic, Tick!Doing
    <2>3. todo' \in Tick!Starting
        BY <2>2, Zenon DEF Tick!Starting
    <2>4. todo' # <<"enable_irq", "unmask", "enable", "count", "compare", "enable">> /\ todo' \notin Tick!Stopped
          /\ todo' # <<"compare", "enable">> /\ todo' # <<"enable">> /\ todo' # <<>>
        BY <2>2 DEF Tick!Stopped
    <2> QED BY <1>1, <2>2, <2>3, <2>4, Zenon DEF Tick!IInv, Tick!Armed
<1>7. CASE todo = <<"unmask", "enable_irq", "unmask", "enable", "count", "compare", "enable">>
    <2>1. todo # <<>> /\ Head(todo) = "unmask" /\ Tail(todo) = <<"enable_irq", "unmask", "enable", "count", "compare", "enable">>
        BY <1>7
    <2>2. todo' = <<"enable_irq", "unmask", "enable", "count", "compare", "enable">> /\ deadline' = deadline /\ ENABLE' = FALSE /\ IMASK' = FALSE /\ cval' = cval
        BY <2>1 DEF Tick!Control, Tick!Compare, Tick!Deadline, Tick!Gic, Tick!Doing
    <2>3. todo' \in Tick!Starting
        BY <2>2, Zenon DEF Tick!Starting
    <2>4. todo' \notin Tick!Stopped /\ todo' # <<"compare", "enable">>
          /\ todo' # <<"enable">> /\ todo' # <<>>
        BY <2>2 DEF Tick!Stopped
    <2>6. ~ENABLE'
        BY <2>2
    <2> QED BY <1>1, <2>2, <2>3, <2>4, <2>6, Zenon DEF Tick!IInv, Tick!Armed
<1>8. CASE todo = <<"enable_irq", "unmask", "enable", "count", "compare", "enable">>
    <2>1. todo # <<>> /\ Head(todo) = "enable_irq" /\ Tail(todo) = <<"unmask", "enable", "count", "compare", "enable">>
        BY <1>8
    <2>2. todo' = <<"unmask", "enable", "count", "compare", "enable">> /\ deadline' = deadline /\ ENABLE' = ENABLE /\ cval' = cval
        BY <2>1 DEF Tick!Control, Tick!Compare, Tick!Deadline, Tick!Gic, Tick!Doing
    <2>3. todo' \in Tick!Starting
        BY <2>2, Zenon DEF Tick!Starting
    <2>4. todo' # <<"enable_irq", "unmask", "enable", "count", "compare", "enable">> /\ todo' \notin Tick!Stopped
          /\ todo' # <<"compare", "enable">> /\ todo' # <<"enable">> /\ todo' # <<>>
        BY <2>2 DEF Tick!Stopped
    <2> QED BY <1>1, <2>2, <2>3, <2>4, Zenon DEF Tick!IInv, Tick!Armed
<1>9. CASE todo = <<"unmask", "enable", "count", "compare", "enable">>
    <2>1. todo # <<>> /\ Head(todo) = "unmask" /\ Tail(todo) = <<"enable", "count", "compare", "enable">>
        BY <1>9
    <2>2. todo' = <<"enable", "count", "compare", "enable">> /\ deadline' = deadline /\ ENABLE' = FALSE /\ IMASK' = FALSE /\ cval' = cval
        BY <2>1 DEF Tick!Control, Tick!Compare, Tick!Deadline, Tick!Gic, Tick!Doing
    <2>3. todo' \in Tick!Starting
        BY <2>2, Zenon DEF Tick!Starting
    <2>4. todo' # <<"enable_irq", "unmask", "enable", "count", "compare", "enable">> /\ todo' \notin Tick!Stopped
          /\ todo' # <<"compare", "enable">> /\ todo' # <<"enable">> /\ todo' # <<>>
        BY <2>2 DEF Tick!Stopped
    <2> QED BY <1>1, <2>2, <2>3, <2>4, Zenon DEF Tick!IInv, Tick!Armed
<1>10. CASE todo = <<"enable", "count", "compare", "enable">>
    <2>1. todo # <<>> /\ Head(todo) = "enable" /\ Tail(todo) = <<"count", "compare", "enable">>
        BY <1>10
    <2>2. todo' = <<"count", "compare", "enable">> /\ deadline' = deadline /\ ENABLE' = TRUE /\ IMASK' = FALSE /\ cval' = cval
        BY <2>1 DEF Tick!Control, Tick!Compare, Tick!Deadline, Tick!Gic, Tick!Doing
    <2>3. todo' \in Tick!Scheduling
        BY <2>2, Zenon DEF Tick!Scheduling
    <2>4. todo' # <<"enable_irq", "unmask", "enable", "count", "compare", "enable">> /\ todo' \notin Tick!Stopped
          /\ todo' # <<"compare", "enable">> /\ todo' # <<"enable">> /\ todo' # <<>>
        BY <2>2 DEF Tick!Stopped
    <2> QED BY <1>1, <2>2, <2>3, <2>4, Zenon DEF Tick!IInv, Tick!Armed
<1>11. CASE todo = <<"mask", "max", "disable", "unmask", "enable", "eoi", "count", "compare", "enable">>
    <2>1. todo # <<>> /\ Head(todo) = "mask" /\ Tail(todo) = <<"max", "disable", "unmask", "enable", "eoi", "count", "compare", "enable">>
        BY <1>11
    <2>2. todo' = <<"max", "disable", "unmask", "enable", "eoi", "count", "compare", "enable">> /\ deadline' = deadline /\ ENABLE' = FALSE /\ cval' = cval
        BY <2>1 DEF Tick!Control, Tick!Compare, Tick!Deadline, Tick!Gic, Tick!Doing
    <2>3. todo' \in Tick!Stopping
        BY <2>2, Zenon DEF Tick!Stopping
    <2>4. todo' # <<"enable_irq", "unmask", "enable", "count", "compare", "enable">> /\ todo' \notin Tick!Stopped
          /\ todo' # <<"compare", "enable">> /\ todo' # <<"enable">> /\ todo' # <<>>
        BY <2>2 DEF Tick!Stopped
    <2> QED BY <1>1, <2>2, <2>3, <2>4, Zenon DEF Tick!IInv, Tick!Armed
<1>12. CASE todo = <<"max", "disable", "unmask", "enable", "eoi", "count", "compare", "enable">>
    <2>1. todo # <<>> /\ Head(todo) = "max" /\ Tail(todo) = <<"disable", "unmask", "enable", "eoi", "count", "compare", "enable">>
        BY <1>12
    <2>2. todo' = <<"disable", "unmask", "enable", "eoi", "count", "compare", "enable">> /\ deadline' = deadline /\ ENABLE' = ENABLE /\ cval' = Largest
        BY <2>1 DEF Tick!Control, Tick!Compare, Tick!Deadline, Tick!Gic, Tick!Doing
    <2>3. todo' \in Tick!Stopped
        BY <2>2, Zenon DEF Tick!Stopped
    <2>4. todo' # <<"enable_irq", "unmask", "enable", "count", "compare", "enable">> /\ todo' # <<"compare", "enable">>
          /\ todo' # <<"enable">> /\ todo' # <<>>
        BY <2>2 DEF Tick!Stopped
    <2>6. cval' = Largest
        BY <2>2
    <2> QED BY <1>1, <2>2, <2>3, <2>4, <2>6, Zenon DEF Tick!IInv, Tick!Armed
<1>13. CASE todo = <<"disable", "unmask", "enable", "eoi", "count", "compare", "enable">>
    <2>1. todo # <<>> /\ Head(todo) = "disable" /\ Tail(todo) = <<"unmask", "enable", "eoi", "count", "compare", "enable">>
        BY <1>13
    <2>2. todo' = <<"unmask", "enable", "eoi", "count", "compare", "enable">> /\ deadline' = deadline /\ ENABLE' = FALSE /\ IMASK' = FALSE /\ cval' = cval
        BY <2>1 DEF Tick!Control, Tick!Compare, Tick!Deadline, Tick!Gic, Tick!Doing
    <2>3. todo' \in Tick!Stopped
        BY <2>2, Zenon DEF Tick!Stopped
    <2>4. todo' # <<"enable_irq", "unmask", "enable", "count", "compare", "enable">> /\ todo' # <<"compare", "enable">>
          /\ todo' # <<"enable">> /\ todo' # <<>>
        BY <2>2 DEF Tick!Stopped
    <2>5. todo \in Tick!Stopped
        BY <1>13, Zenon DEF Tick!Stopped
    <2>6. cval' = Largest
        BY <2>2, <2>5 DEF Tick!IInv
    <2> QED BY <1>1, <2>2, <2>3, <2>4, <2>6, Zenon DEF Tick!IInv, Tick!Armed
<1>14. CASE todo = <<"unmask", "enable", "eoi", "count", "compare", "enable">>
    <2>1. todo # <<>> /\ Head(todo) = "unmask" /\ Tail(todo) = <<"enable", "eoi", "count", "compare", "enable">>
        BY <1>14
    <2>2. todo' = <<"enable", "eoi", "count", "compare", "enable">> /\ deadline' = deadline /\ ENABLE' = FALSE /\ IMASK' = FALSE /\ cval' = cval
        BY <2>1 DEF Tick!Control, Tick!Compare, Tick!Deadline, Tick!Gic, Tick!Doing
    <2>3. todo' \in Tick!Stopped
        BY <2>2, Zenon DEF Tick!Stopped
    <2>4. todo' # <<"enable_irq", "unmask", "enable", "count", "compare", "enable">> /\ todo' # <<"compare", "enable">>
          /\ todo' # <<"enable">> /\ todo' # <<>>
        BY <2>2 DEF Tick!Stopped
    <2>5. todo \in Tick!Stopped
        BY <1>14, Zenon DEF Tick!Stopped
    <2>6. cval' = Largest
        BY <2>2, <2>5 DEF Tick!IInv
    <2> QED BY <1>1, <2>2, <2>3, <2>4, <2>6, Zenon DEF Tick!IInv, Tick!Armed
<1>15. CASE todo = <<"enable", "eoi", "count", "compare", "enable">>
    <2>1. todo # <<>> /\ Head(todo) = "enable" /\ Tail(todo) = <<"eoi", "count", "compare", "enable">>
        BY <1>15
    <2>2. todo' = <<"eoi", "count", "compare", "enable">> /\ deadline' = deadline /\ ENABLE' = TRUE /\ IMASK' = FALSE /\ cval' = cval
        BY <2>1 DEF Tick!Control, Tick!Compare, Tick!Deadline, Tick!Gic, Tick!Doing
    <2>3. todo' \in Tick!Stopped
        BY <2>2, Zenon DEF Tick!Stopped
    <2>4. todo' # <<"enable_irq", "unmask", "enable", "count", "compare", "enable">> /\ todo' # <<"compare", "enable">>
          /\ todo' # <<"enable">> /\ todo' # <<>>
        BY <2>2 DEF Tick!Stopped
    <2>5. todo \in Tick!Stopped
        BY <1>15, Zenon DEF Tick!Stopped
    <2>6. cval' = Largest
        BY <2>2, <2>5 DEF Tick!IInv
    <2> QED BY <1>1, <2>2, <2>3, <2>4, <2>6, Zenon DEF Tick!IInv, Tick!Armed
<1>16. CASE todo = <<"eoi", "count", "compare", "enable">>
    <2>1. todo # <<>> /\ Head(todo) = "eoi" /\ Tail(todo) = <<"count", "compare", "enable">>
        BY <1>16
    <2>2. todo' = <<"count", "compare", "enable">> /\ deadline' = deadline /\ ENABLE' = ENABLE /\ cval' = cval
        BY <2>1 DEF Tick!Control, Tick!Compare, Tick!Deadline, Tick!Gic, Tick!Doing
    <2>3. todo' \in Tick!Scheduling
        BY <2>2, Zenon DEF Tick!Scheduling
    <2>4. todo' # <<"enable_irq", "unmask", "enable", "count", "compare", "enable">> /\ todo' \notin Tick!Stopped
          /\ todo' # <<"compare", "enable">> /\ todo' # <<"enable">> /\ todo' # <<>>
        BY <2>2 DEF Tick!Stopped
    <2> QED BY <1>1, <2>2, <2>3, <2>4, Zenon DEF Tick!IInv, Tick!Armed
<1>17. CASE todo = <<"count", "compare", "enable">>
    <2>1. todo # <<>> /\ Head(todo) = "count" /\ Tail(todo) = <<"compare", "enable">>
        BY <1>17
    <2>2. Tick!Deadline
        BY <2>1 DEF Tick!Control, Tick!Compare, Tick!Gic, Tick!Doing
    <2>5. Tick!to_ticks(Nanos, freq)' = Tick!to_ticks(Nanos, freq)
        BY <1>1 DEF Tick!to_ticks
    <2>6. Tail(todo) # <<>>
        BY <2>1
    <2>3. CASE todo' = <<>>
        <3>1. Tick!Armed'
            BY <2>1, <2>2, <2>3, <2>5, <2>6, <1>1, <1>2 DEF Tick!Deadline, Tick!Armed, Tick!Checked, Tick!Assumptions, Tick!None
        <3>2. /\ todo' # <<"enable_irq", "unmask", "enable", "count", "compare", "enable">> /\ todo' \notin Tick!Stopped
              /\ todo' # <<"compare", "enable">> /\ todo' # <<"enable">>
            BY <2>3 DEF Tick!Stopped
        <3> QED BY <1>1, <2>3, <3>1, <3>2, Zenon DEF Tick!IInv
    <2>4. CASE todo' # <<>>
        <3>4. /\ todo' = Tail(todo) /\ Tick!to_ticks(Nanos, freq) # Tick!None
              /\ deadline' = Tick!Checked(counter + Tick!to_ticks(Nanos, freq)) /\ deadline' # Tick!None
            BY <2>2, <2>4 DEF Tick!Deadline
        <3>5. deadline' <= counter + Tick!to_ticks(Nanos, freq)
            BY <3>4, <1>2 DEF Tick!Checked, Tick!None, Tick!Assumptions
        <3>1. todo' = <<"compare", "enable">> /\ Tick!Due(deadline)'
            BY <2>1, <2>5, <3>4, <3>5, <1>1 DEF Tick!Due, Tick!None
        <3>2. todo' \in Tick!Scheduling
            BY <3>1, Zenon DEF Tick!Scheduling
        <3>3. todo' \notin Tick!Stopped /\ todo' # <<"enable_irq", "unmask", "enable", "count", "compare", "enable">> /\ todo' # <<"enable">>
            BY <3>1 DEF Tick!Stopped
        <3> QED BY <1>1, <3>1, <3>2, <3>3, <2>4, Zenon DEF Tick!IInv, Tick!Armed
    <2> QED BY <2>3, <2>4
<1>18. CASE todo = <<"compare", "enable">>
    <2>1. todo # <<>> /\ Head(todo) = "compare" /\ Tail(todo) = <<"enable">>
        BY <1>18
    <2>2. todo' = <<"enable">> /\ deadline' = deadline /\ ENABLE' = ENABLE /\ cval' = deadline
        BY <2>1 DEF Tick!Control, Tick!Compare, Tick!Deadline, Tick!Gic, Tick!Doing
    <2>3. todo' \in Tick!Scheduling
        BY <2>2, Zenon DEF Tick!Scheduling
    <2>4. todo' # <<"enable_irq", "unmask", "enable", "count", "compare", "enable">> /\ todo' \notin Tick!Stopped
          /\ todo' # <<"compare", "enable">> /\ todo' # <<>>
        BY <2>2 DEF Tick!Stopped
    <2>5. Tick!Due(deadline)
        BY <1>18 DEF Tick!IInv
    <2>6. Tick!Due(cval)'
        BY <1>1, <2>2, <2>5 DEF Tick!Due, Tick!to_ticks
    <2> QED BY <1>1, <2>2, <2>3, <2>4, <2>6, Zenon DEF Tick!IInv, Tick!Armed
<1>19. CASE todo = <<"enable">>
    <2>1. todo # <<>> /\ Head(todo) = "enable" /\ Tail(todo) = <<>>
        BY <1>19
    <2>2. todo' = <<>> /\ deadline' = deadline /\ ENABLE' = TRUE /\ IMASK' = FALSE /\ cval' = cval
        BY <2>1 DEF Tick!Control, Tick!Compare, Tick!Deadline, Tick!Gic, Tick!Doing
    <2>4. todo' # <<"enable_irq", "unmask", "enable", "count", "compare", "enable">> /\ todo' \notin Tick!Stopped
          /\ todo' # <<"compare", "enable">> /\ todo' # <<"enable">>
        BY <2>2 DEF Tick!Stopped
    <2>5. Tick!Due(cval)
        BY <1>19 DEF Tick!IInv
    <2>6. Tick!Armed'
        BY <1>1, <2>2, <2>5 DEF Tick!Due, Tick!Armed, Tick!to_ticks
    <2> QED BY <1>1, <2>2, <2>4, <2>6, Zenon DEF Tick!IInv, Tick!Armed
<1> QED BY <1>3, <1>4, <1>5, <1>6, <1>7, <1>8, <1>9, <1>10, <1>11, <1>12, <1>13, <1>14, <1>15, <1>16, <1>17, <1>18, <1>19, Zenon DEF Tick!IInv, Tick!Starting, Tick!Stopping, Tick!Stopped, Tick!Scheduling

LEMMA TimerInitIInv == Tick!Assumptions /\ Tick!Init => Tick!IInv
<1> SUFFICES ASSUME Tick!Assumptions, Tick!Init PROVE Tick!IInv
    OBVIOUS
<1>1. todo = <<"mask", "max", "disable", "unmask", "enable_irq", "unmask", "enable", "count", "compare", "enable">>
    BY Programs DEF Tick!Init
<1>2. Tick!TypeOK
    BY DEF Tick!Init, Tick!TypeOK, Tick!Assumptions
<1>3. todo \in Tick!Starting
    BY <1>1, Zenon DEF Tick!Starting
<1>4. todo # <<"enable_irq", "unmask", "enable", "count", "compare", "enable">> /\ todo \notin Tick!Stopped
        /\ todo # <<"compare", "enable">> /\ todo # <<"enable">> /\ todo # <<>>
    BY <1>1 DEF Tick!Stopped
<1> QED BY <1>2, <1>3, <1>4, Zenon DEF Tick!IInv, Tick!Armed

LEMMA TimerIInvImplies == Tick!Assumptions /\ Tick!IInv => Tick!TimerInv
<1> SUFFICES ASSUME Tick!Assumptions, Tick!IInv PROVE Tick!TakenOnce
    BY DEF Tick!TimerInv, Tick!IInv
<1>1. CASE todo \in Tick!Starting
    <2>1. CASE todo = <<"enable_irq", "unmask", "enable", "count", "compare", "enable">>
        BY <2>1, Zenon DEF Tick!IInv, Tick!TakenOnce, Tick!Line
    <2>2. CASE todo # <<"enable_irq", "unmask", "enable", "count", "compare", "enable">>
        <3>1. Head(todo) \notin {"enable_irq", "eoi"}
            BY <1>1, <2>2 DEF Tick!Starting
        <3> QED BY <3>1 DEF Tick!TakenOnce
    <2> QED BY <2>1, <2>2
<1>2. CASE todo \in Tick!Stopped
    BY <1>2 DEF Tick!IInv, Tick!TypeOK, Tick!TakenOnce, Tick!Line, Tick!Assumptions
<1>3. CASE todo \in Tick!Stopping \cup Tick!Scheduling
    <2>1. Head(todo) \notin {"enable_irq", "eoi"}
        BY <1>3 DEF Tick!Stopping, Tick!Scheduling
    <2> QED BY <2>1 DEF Tick!TakenOnce
<1> QED BY <1>1, <1>2, <1>3 DEF Tick!IInv, Tick!TakenOnce

\* A tick of the timer is taken once, and ticks keep coming, whatever other
\* interrupts there are.
TimerInv == Tick!TimerInv

\* Whatever the frequency and whenever interrupts come, the timer's line is low
\* when the controller is told of it and when an interrupt ends, and a core that
\* handles no interrupt has a timer that is due within a period
\* (secondary_handle, irq_current).
THEOREM TimerTicks == Tick!Assumptions /\ Tick!Spec => []TimerInv
<1> SUFFICES ASSUME Tick!Assumptions PROVE Tick!Spec => []TimerInv
    OBVIOUS
<1>1. Tick!IInv /\ [Tick!Next]_(Tick!vars) => Tick!IInv'
    <2>1. Tick!Assumptions /\ Tick!IInv /\ UNCHANGED Tick!vars => Tick!IInv'
        <3> SUFFICES ASSUME Tick!IInv, UNCHANGED Tick!vars PROVE Tick!IInv'
            OBVIOUS
        <3>1. /\ ENABLE' = ENABLE /\ IMASK' = IMASK /\ cval' = cval /\ counter' = counter
              /\ freq' = freq /\ deadline' = deadline /\ todo' = todo
            BY DEF Tick!vars
        <3> QED BY <3>1 DEF Tick!IInv, Tick!TypeOK, Tick!Due, Tick!Armed, Tick!to_ticks
    <2> QED BY <2>1, TimeStep, IrqStep, WriteStep DEF Tick!Next
<1>2. Tick!Init => Tick!IInv
    BY TimerInitIInv
<1>3. Tick!IInv => TimerInv
    BY TimerIInvImplies DEF TimerInv
<1> QED BY <1>1, <1>2, <1>3, PTL DEF Tick!Spec
-----------------------------------------------------------------------------
(* MSI-X *)

CONSTANTS Offsets, Sizes, Lens
VARIABLES head, id, next, visited, cap, found, table_size, vector_count, table, mapped,
          msix_command, enabled, entry, msix_pc

Msix == INSTANCE PcieMsix WITH current <- cap, command <- msix_command, pc <- msix_pc

\* The list begins and stays in Listed, the smallest set of that kind.
LEMMA ListedClosed ==
    ASSUME Msix!Assumptions, Msix!TypeOK
    PROVE  /\ Msix!Listed \subseteq Offsets /\ 0 \notin Msix!Listed
           /\ head \in Msix!Listed \cup {0}
           /\ \A o \in Msix!Listed : next[o] \in Msix!Listed \cup {0}
           /\ \A S \in SUBSET Offsets : Msix!Closed(S) => Msix!Listed \subseteq S
<1>1. Msix!Listed \subseteq Offsets /\ 0 \notin Msix!Listed
    BY DEF Msix!Listed, Msix!Assumptions
<1>2. head \in Msix!Listed \cup {0}
    BY DEF Msix!Listed, Msix!Closed, Msix!TypeOK
<1>3. ASSUME NEW o \in Msix!Listed, next[o] # 0 PROVE next[o] \in Msix!Listed
    <2>1. o \in Offsets /\ next[o] \in Offsets
        BY <1>1, <1>3 DEF Msix!TypeOK
    <2>2. ASSUME NEW S \in SUBSET Offsets, Msix!Closed(S) PROVE next[o] \in S
        <3>1. o \in S
            BY <2>2 DEF Msix!Listed
        <3> QED BY <1>3, <2>2, <3>1 DEF Msix!Closed
    <2> QED BY <2>1, <2>2 DEF Msix!Listed
<1>4. \A S \in SUBSET Offsets : Msix!Closed(S) => Msix!Listed \subseteq S
    BY DEF Msix!Listed
<1> QED BY <1>1, <1>2, <1>3, <1>4

\* The device does not change.
LEMMA DeviceKept ==
    ASSUME UNCHANGED Msix!device
    PROVE  /\ head' = head /\ id' = id /\ next' = next
           /\ table_size' = table_size /\ vector_count' = vector_count
           /\ Msix!Listed' = Msix!Listed /\ Msix!Entries' = Msix!Entries /\ Msix!num_vectors' = Msix!num_vectors
BY DEF Msix!device, Msix!Listed, Msix!Closed, Msix!Entries, Msix!num_vectors

\* After the search, what it found stays.
LEMMA FoundStays ==
    ASSUME Msix!IInv, msix_pc # "find", msix_pc # "err", msix_pc' # "find", UNCHANGED <<Msix!device, visited, cap, found>>
    PROVE  Msix!FindInv' /\ Msix!FoundIfListed'
<1>1. /\ head' = head /\ id' = id /\ next' = next /\ Msix!Listed' = Msix!Listed
      /\ visited' = visited /\ cap' = cap /\ found' = found
    BY DeviceKept
<1>2. found # 0
    BY DEF Msix!IInv, Msix!FindInv
<1> QED BY <1>1, <1>2 DEF Msix!IInv, Msix!FindInv, Msix!FoundIfListed

LEMMA VisitKeeps ==
    ASSUME Msix!Assumptions, Msix!IInv, Msix!Visit
    PROVE  Msix!IInv'
<1>1. /\ head' = head /\ id' = id /\ next' = next /\ table_size' = table_size /\ vector_count' = vector_count
      /\ Msix!Listed' = Msix!Listed /\ Msix!Entries' = Msix!Entries /\ Msix!num_vectors' = Msix!num_vectors
      /\ table' = table /\ mapped' = mapped /\ msix_command' = msix_command /\ enabled' = enabled /\ entry' = entry
    BY DeviceKept DEF Msix!Visit
<1>2. /\ msix_pc = "find" /\ cap \in Offsets /\ cap \in Msix!Listed /\ visited' = visited \cup {cap}
      /\ visited \subseteq Msix!Listed /\ cap # 0
    BY DEF Msix!Visit, Msix!IInv, Msix!TypeOK, Msix!FindInv
<1>3. next[cap] \in Msix!Listed \cup {0} /\ next[cap] \in Offsets \cup {0} /\ Msix!Listed \subseteq Offsets
    BY <1>2, ListedClosed DEF Msix!IInv, Msix!TypeOK
<1>4. CASE id[cap] = "msix"
    <2>1. found' = cap /\ msix_pc' = "command" /\ cap' = cap
        BY <1>4 DEF Msix!Visit
    <2>2. Msix!TypeOK'
        BY <1>1, <1>2, <2>1 DEF Msix!IInv, Msix!TypeOK, Msix!PCs
    <2>3. Msix!FindInv' /\ Msix!FoundIfListed'
        BY <1>1, <1>2, <1>4, <2>1 DEF Msix!FindInv, Msix!FoundIfListed
    <2>4. Msix!TableInv'
        BY <1>1, <1>2, <2>1 DEF Msix!IInv, Msix!TableInv
    <2> QED BY <2>2, <2>3, <2>4 DEF Msix!IInv
<1>5. CASE id[cap] # "msix"
    <2>1. found' = found /\ msix_pc' = msix_pc /\ cap' = next[cap]
        BY <1>5 DEF Msix!Visit
    <2>2. Msix!TypeOK'
        BY <1>1, <1>2, <1>3, <2>1 DEF Msix!IInv, Msix!TypeOK
    <2>3. Msix!FindInv' /\ Msix!FoundIfListed'
        BY <1>1, <1>2, <1>3, <1>5, <2>1 DEF Msix!IInv, Msix!FindInv, Msix!FoundIfListed
    <2>4. Msix!TableInv'
        BY <1>1, <1>2, <2>1 DEF Msix!IInv, Msix!TableInv
    <2> QED BY <2>2, <2>3, <2>4 DEF Msix!IInv
<1> QED BY <1>4, <1>5

\* The search ends without a result only when nothing is left to visit.
LEMMA NotFoundKeeps ==
    ASSUME Msix!Assumptions, Msix!IInv, Msix!NotFound
    PROVE  Msix!IInv'
<1>1. /\ head' = head /\ id' = id /\ next' = next /\ table_size' = table_size /\ vector_count' = vector_count
      /\ Msix!Listed' = Msix!Listed /\ Msix!Entries' = Msix!Entries /\ Msix!num_vectors' = Msix!num_vectors
      /\ table' = table /\ mapped' = mapped /\ msix_command' = msix_command /\ enabled' = enabled /\ entry' = entry
      /\ visited' = visited /\ cap' = cap /\ found' = found
    BY DeviceKept DEF Msix!NotFound
<1>2. msix_pc = "find" /\ msix_pc' = "err" /\ cap \in visited \cup {0}
    BY DEF Msix!NotFound, Msix!Goto
<1>3. Msix!Listed \subseteq visited
    <2>1. Msix!Closed(visited) /\ visited \in SUBSET Offsets
        BY <1>2 DEF Msix!IInv, Msix!FindInv, Msix!TypeOK, Msix!Closed
    <2> QED BY <2>1, ListedClosed DEF Msix!IInv
<1>4. Msix!TypeOK'
    BY <1>1, <1>2 DEF Msix!IInv, Msix!TypeOK, Msix!PCs
<1>5. Msix!FindInv' /\ Msix!FoundIfListed'
    BY <1>1, <1>2, <1>3 DEF Msix!IInv, Msix!FindInv, Msix!FoundIfListed
<1>6. Msix!TableInv'
    BY <1>1, <1>2 DEF Msix!IInv, Msix!TableInv
<1> QED BY <1>4, <1>5, <1>6 DEF Msix!IInv

\* The steps that leave the table and its entries alone.
LEMMA MsixQuietKeeps ==
    ASSUME Msix!Assumptions, Msix!IInv, Msix!NoCapacity \/ Msix!EnableCommand \/ Msix!Register \/ Msix!NoneMapped \/ Msix!EnableMsix
    PROVE  Msix!IInv'
<1>1. /\ head' = head /\ id' = id /\ next' = next /\ table_size' = table_size /\ vector_count' = vector_count
      /\ Msix!Listed' = Msix!Listed /\ Msix!Entries' = Msix!Entries /\ Msix!num_vectors' = Msix!num_vectors
      /\ table' = table /\ mapped' = mapped /\ entry' = entry
      /\ visited' = visited /\ cap' = cap /\ found' = found
    BY DeviceKept DEF Msix!NoCapacity, Msix!EnableCommand, Msix!Register, Msix!NoneMapped, Msix!EnableMsix
<1>2. msix_pc \in {"command", "register", "map"} /\ msix_pc' \in {"register", "mask", "err", "ok"} /\ enabled' \in BOOLEAN
    BY DEF Msix!NoCapacity, Msix!EnableCommand, Msix!Register, Msix!NoneMapped, Msix!EnableMsix, Msix!Goto, Msix!IInv, Msix!TypeOK
<1>3. Msix!TypeOK'
    BY <1>1, <1>2 DEF Msix!IInv, Msix!TypeOK, Msix!PCs
<1>4. Msix!FindInv' /\ Msix!FoundIfListed'
    BY <1>1, <1>2, FoundStays DEF Msix!device
<1>5. vector_count \in Nat /\ table_size \in Nat
    BY DEF Msix!IInv, Msix!TypeOK
<1>6. Msix!TableInv'
    <2>1. CASE Msix!NoCapacity
        BY <1>1, <2>1 DEF Msix!NoCapacity, Msix!Goto, Msix!IInv, Msix!TableInv
    <2>2. CASE Msix!EnableCommand
        <3>1. msix_pc = "command" /\ msix_pc' = "register" /\ vector_count > 0
            BY <1>5, <2>2 DEF Msix!EnableCommand, Msix!Goto, Msix!num_vectors
        <3>2. msix_command = {} /\ msix_command' = msix_command \cup {"memory", "bus_master"} /\ enabled' = enabled
            BY <2>2, <3>1 DEF Msix!EnableCommand, Msix!IInv, Msix!TableInv
        <3>3. msix_command' = {"memory", "bus_master"}
            BY <3>2
        <3> QED BY <1>1, <3>1, <3>2, <3>3 DEF Msix!IInv, Msix!TableInv
    <2>3. CASE Msix!Register
        <3>1. msix_pc = "register" /\ msix_pc' \in {"mask", "err"} /\ msix_command' = msix_command /\ enabled' = enabled
            BY <2>3 DEF Msix!Register, Msix!Goto
        <3>2. entry = 0 /\ \A v \in Msix!Entries : ~(v < entry)
            BY <1>5, <3>1 DEF Msix!IInv, Msix!TableInv, Msix!Entries
        <3> QED BY <1>1, <3>1, <3>2 DEF Msix!IInv, Msix!TableInv
    <2>4. CASE Msix!NoneMapped
        BY <1>1, <2>4 DEF Msix!NoneMapped, Msix!Goto, Msix!IInv, Msix!TableInv
    <2>5. CASE Msix!EnableMsix
        BY <1>1, <2>5 DEF Msix!EnableMsix, Msix!Goto, Msix!IInv, Msix!TableInv
    <2> QED BY <2>1, <2>2, <2>3, <2>4, <2>5
<1> QED BY <1>3, <1>4, <1>6 DEF Msix!IInv

LEMMA MaskKeeps ==
    ASSUME Msix!Assumptions, Msix!IInv, Msix!Mask
    PROVE  Msix!IInv'
<1>1. /\ head' = head /\ id' = id /\ next' = next /\ table_size' = table_size /\ vector_count' = vector_count
      /\ Msix!Listed' = Msix!Listed /\ Msix!Entries' = Msix!Entries /\ Msix!num_vectors' = Msix!num_vectors
      /\ mapped' = mapped /\ msix_command' = msix_command /\ enabled' = enabled
      /\ visited' = visited /\ cap' = cap /\ found' = found
    BY DeviceKept DEF Msix!Mask
<1>2. /\ msix_pc = "mask" /\ msix_pc' = IF entry + 1 < vector_count THEN "mask" ELSE "map"
      /\ vector_count \in Nat \ {0} /\ entry \in Nat /\ entry < vector_count /\ table_size \in Nat \ {0}
      /\ mapped = {} /\ ~enabled /\ msix_command = {"memory", "bus_master"}
      /\ \A v \in Msix!Entries : v < entry => table[v].masked
    BY DEF Msix!Mask, Msix!Goto, Msix!IInv, Msix!TypeOK, Msix!TableInv
<1>3. entry' = IF entry + 1 < vector_count THEN entry + 1 ELSE 0
    <2>1. CASE entry + 1 < vector_count
        BY <1>2, <2>1 DEF Msix!Mask
    <2>2. CASE ~(entry + 1 < vector_count)
        <3>1. entry + 1 = vector_count
            BY <1>2, <2>2
        <3>2. vector_count % vector_count = 0
            BY <1>2
        <3> QED BY <2>2, <3>1, <3>2 DEF Msix!Mask
    <2> QED BY <2>1, <2>2
<1>4. entry \in Msix!Entries /\ Msix!Entries \subseteq Nat
    BY <1>2 DEF Msix!Entries
<1>5. table \in [Msix!Entries -> [address : {"stale", "doorbell"}, data : Seq(Nat), masked : BOOLEAN]]
    BY DEF Msix!IInv, Msix!TypeOK
<1>6. table' = [table EXCEPT ![entry].masked = TRUE]
    BY DEF Msix!Mask
<1>7. /\ table' \in [Msix!Entries -> [address : {"stale", "doorbell"}, data : Seq(Nat), masked : BOOLEAN]]
      /\ table'[entry].masked /\ \A v \in Msix!Entries : v # entry => table'[v] = table[v]
    BY ONLY <1>4, <1>5, <1>6
<1>8. Msix!TypeOK'
    BY <1>1, <1>2, <1>3, <1>7 DEF Msix!IInv, Msix!TypeOK, Msix!PCs
<1>9. Msix!FindInv' /\ Msix!FoundIfListed'
    BY <1>1, <1>2, FoundStays DEF Msix!device
<1>10. \A v \in Msix!Entries : v <= entry => table'[v].masked
    <2>1. \A v \in Msix!Entries : v <= entry => v = entry \/ (v < entry /\ v # entry)
        BY ONLY <1>4
    <2> QED BY <1>2, <1>7, <2>1, Zenon
<1>11. Msix!TableInv'
    <2>1. CASE entry + 1 < vector_count
        <3>1. msix_pc' = "mask" /\ entry' = entry + 1
            BY <1>2, <1>3, <2>1
        <3>2. \A v \in Msix!Entries : v < entry + 1 => table'[v].masked
            BY <1>2, <1>4, <1>10
        <3> QED BY <1>1, <1>2, <2>1, <3>1, <3>2 DEF Msix!TableInv
    <2>2. CASE ~(entry + 1 < vector_count)
        <3>1. msix_pc' = "map" /\ entry' = 0
            BY <1>2, <1>3, <2>2
        <3>2. \A v \in Msix!Entries : table'[v].masked
            BY <1>2, <1>4, <1>10, <2>2 DEF Msix!Entries
        <3>3. 0 <= Msix!num_vectors
            BY <1>2 DEF Msix!num_vectors
        <3> QED BY <1>1, <1>2, <3>1, <3>2, <3>3 DEF Msix!TableInv
    <2> QED BY <2>1, <2>2
<1> QED BY <1>8, <1>9, <1>11 DEF Msix!IInv

LEMMA MapKeeps ==
    ASSUME Msix!Assumptions, Msix!IInv, Msix!MapEvent \/ Msix!MapEventFails
    PROVE  Msix!IInv'
<1>1. /\ head' = head /\ id' = id /\ next' = next /\ table_size' = table_size /\ vector_count' = vector_count
      /\ Msix!Listed' = Msix!Listed /\ Msix!Entries' = Msix!Entries /\ Msix!num_vectors' = Msix!num_vectors
      /\ table' = table /\ msix_command' = msix_command /\ enabled' = enabled
      /\ visited' = visited /\ cap' = cap /\ found' = found
    BY DeviceKept DEF Msix!MapEvent, Msix!MapEventFails
<1>2. /\ msix_pc = "map" /\ msix_pc' \in {"map", "address"} /\ entry \in Nat /\ entry < Msix!num_vectors
      /\ vector_count \in Nat /\ table_size \in Nat
    BY DEF Msix!MapEvent, Msix!MapEventFails, Msix!Goto, Msix!IInv, Msix!TypeOK
<1>3. Msix!num_vectors \in Nat /\ Msix!num_vectors <= vector_count /\ entry \in Msix!Entries /\ Msix!Entries \subseteq Nat
    BY <1>2 DEF Msix!num_vectors, Msix!Entries
<1>4. Msix!TypeOK'
    <2>1. mapped' \subseteq Msix!Entries /\ entry' \in Nat
        <3>1. CASE Msix!MapEvent
            BY <1>2, <1>3, <3>1 DEF Msix!MapEvent, Msix!IInv, Msix!TypeOK
        <3>2. CASE Msix!MapEventFails
            BY <1>2, <3>2 DEF Msix!MapEventFails, Msix!IInv, Msix!TypeOK
        <3> QED BY <3>1, <3>2
    <2> QED BY <1>1, <1>2, <2>1 DEF Msix!IInv, Msix!TypeOK, Msix!PCs
<1>5. Msix!FindInv' /\ Msix!FoundIfListed'
    BY <1>1, <1>2, FoundStays DEF Msix!device
<1>6. /\ vector_count > 0 /\ msix_command = {"memory", "bus_master"} /\ ~enabled
      /\ \A v \in Msix!Entries : v >= entry \/ v \notin mapped => table[v].masked
      /\ \A v \in mapped : v < entry => ~table[v].masked /\ table[v].address = "doorbell" /\ table[v].data = <<v>>
      /\ \A v \in mapped : v < entry
      /\ mapped \subseteq Msix!Entries
    BY <1>2 DEF Msix!IInv, Msix!TypeOK, Msix!TableInv
<1>7. CASE Msix!MapEvent
    <2>1. mapped' = mapped \cup {entry} /\ entry' = entry /\ msix_pc' = "address"
        BY <1>7 DEF Msix!MapEvent, Msix!Goto
    <2>2. Msix!TableInv'
        BY <1>1, <1>2, <1>3, <1>6, <2>1 DEF Msix!TableInv
    <2> QED BY <1>4, <1>5, <2>2 DEF Msix!IInv
<1>8. CASE Msix!MapEventFails
    <2>1. mapped' = mapped /\ entry' = entry + 1 /\ msix_pc' = "map"
        BY <1>8 DEF Msix!MapEventFails, Msix!Goto
    <2>2. Msix!TableInv'
        BY <1>1, <1>2, <1>3, <1>6, <2>1 DEF Msix!TableInv
    <2> QED BY <1>4, <1>5, <2>2 DEF Msix!IInv
<1> QED BY <1>7, <1>8

\* The writes of configure: a masked entry gets its address, its datum, and is
\* then unmasked.
LEMMA ConfigureKeeps ==
    ASSUME Msix!Assumptions, Msix!IInv, Msix!SetAddress \/ Msix!SetData \/ Msix!Unmask
    PROVE  Msix!IInv'
<1>1. /\ head' = head /\ id' = id /\ next' = next /\ table_size' = table_size /\ vector_count' = vector_count
      /\ Msix!Listed' = Msix!Listed /\ Msix!Entries' = Msix!Entries /\ Msix!num_vectors' = Msix!num_vectors
      /\ mapped' = mapped /\ msix_command' = msix_command /\ enabled' = enabled
      /\ visited' = visited /\ cap' = cap /\ found' = found
    BY DeviceKept DEF Msix!SetAddress, Msix!SetData, Msix!Unmask
<1>2. msix_pc \in {"address", "data", "unmask"} /\ msix_pc' \in {"data", "unmask", "map"}
    BY DEF Msix!SetAddress, Msix!SetData, Msix!Unmask, Msix!Goto
<1>3. /\ entry \in Nat /\ entry < Msix!num_vectors /\ entry \in mapped /\ mapped \subseteq Msix!Entries
      /\ vector_count \in Nat /\ table_size \in Nat
      /\ vector_count > 0 /\ msix_command = {"memory", "bus_master"} /\ ~enabled
      /\ \A v \in Msix!Entries : v >= entry \/ v \notin mapped => table[v].masked
      /\ \A v \in mapped : v < entry => ~table[v].masked /\ table[v].address = "doorbell" /\ table[v].data = <<v>>
      /\ \A v \in mapped : v <= entry
    BY <1>2 DEF Msix!IInv, Msix!TypeOK, Msix!TableInv
<1>4. Msix!num_vectors \in Nat /\ entry \in Msix!Entries /\ Msix!Entries \subseteq Nat
    BY <1>3 DEF Msix!num_vectors, Msix!Entries
<1>5. table \in [Msix!Entries -> [address : {"stale", "doorbell"}, data : Seq(Nat), masked : BOOLEAN]]
    BY DEF Msix!IInv, Msix!TypeOK
<1>6. Msix!FindInv' /\ Msix!FoundIfListed'
    BY <1>1, <1>2, FoundStays DEF Msix!device
<1>7. CASE Msix!SetAddress
    <2>1. /\ table' = [table EXCEPT ![entry].address = "doorbell"]
          /\ entry' = entry /\ msix_pc = "address" /\ msix_pc' = "data"
        BY <1>7 DEF Msix!SetAddress, Msix!Goto
    <2>2. /\ table' \in [Msix!Entries -> [address : {"stale", "doorbell"}, data : Seq(Nat), masked : BOOLEAN]]
          /\ table'[entry].address = "doorbell" /\ table'[entry].masked = table[entry].masked
          /\ \A v \in Msix!Entries : v # entry => table'[v] = table[v]
        BY ONLY <1>4, <1>5, <2>1
    <2>3. Msix!TypeOK'
        BY <1>1, <2>1, <2>2 DEF Msix!IInv, Msix!TypeOK, Msix!PCs
    <2>4. Msix!TableInv'
        BY <1>1, <1>3, <1>4, <2>1, <2>2 DEF Msix!TableInv
    <2> QED BY <1>6, <2>3, <2>4 DEF Msix!IInv
<1>8. CASE Msix!SetData
    <2>1. /\ table' = [table EXCEPT ![entry].data = <<entry>>]
          /\ entry' = entry /\ msix_pc = "data" /\ msix_pc' = "unmask" /\ table[entry].address = "doorbell"
        BY <1>8 DEF Msix!SetData, Msix!Goto, Msix!IInv, Msix!TableInv
    <2>2. <<entry>> \in Seq(Nat)
        BY <1>3
    <2>3. /\ table' \in [Msix!Entries -> [address : {"stale", "doorbell"}, data : Seq(Nat), masked : BOOLEAN]]
          /\ table'[entry].data = <<entry>> /\ table'[entry].masked = table[entry].masked
          /\ table'[entry].address = table[entry].address
          /\ \A v \in Msix!Entries : v # entry => table'[v] = table[v]
        BY ONLY <1>4, <1>5, <2>1, <2>2
    <2>4. Msix!TypeOK'
        BY <1>1, <2>1, <2>3 DEF Msix!IInv, Msix!TypeOK, Msix!PCs
    <2>5. Msix!TableInv'
        BY <1>1, <1>3, <1>4, <2>1, <2>3 DEF Msix!TableInv
    <2> QED BY <1>6, <2>4, <2>5 DEF Msix!IInv
<1>9. CASE Msix!Unmask
    <2>1. /\ table' = [table EXCEPT ![entry].masked = FALSE]
          /\ entry' = entry + 1 /\ msix_pc = "unmask" /\ msix_pc' = "map"
          /\ table[entry].address = "doorbell" /\ table[entry].data = <<entry>>
        BY <1>9 DEF Msix!Unmask, Msix!Goto, Msix!IInv, Msix!TableInv
    <2>2. /\ table' \in [Msix!Entries -> [address : {"stale", "doorbell"}, data : Seq(Nat), masked : BOOLEAN]]
          /\ ~table'[entry].masked
          /\ table'[entry].address = table[entry].address /\ table'[entry].data = table[entry].data
          /\ \A v \in Msix!Entries : v # entry => table'[v] = table[v]
        BY ONLY <1>4, <1>5, <2>1
    <2>3. Msix!TypeOK'
        BY <1>1, <1>3, <2>1, <2>2 DEF Msix!IInv, Msix!TypeOK, Msix!PCs
    <2>4. Msix!TableInv'
        BY <1>1, <1>3, <1>4, <2>1, <2>2 DEF Msix!TableInv
    <2> QED BY <1>6, <2>3, <2>4 DEF Msix!IInv
<1> QED BY <1>7, <1>8, <1>9

LEMMA MsixInitIInv ==
    ASSUME Msix!Assumptions, Msix!Init
    PROVE  Msix!IInv
<1>1. Msix!TypeOK
    <2>1. <<>> \in Seq(Nat)
        OBVIOUS
    <2>2. table \in [Msix!Entries -> {[address |-> "stale", data |-> <<>>, masked |-> m] : m \in BOOLEAN}]
        BY DEF Msix!Init
    <2>3. table \in [Msix!Entries -> [address : {"stale", "doorbell"}, data : Seq(Nat), masked : BOOLEAN]]
        <3>1. \A m \in BOOLEAN : [address |-> "stale", data |-> <<>>, masked |-> m]
                                    \in [address : {"stale", "doorbell"}, data : Seq(Nat), masked : BOOLEAN]
            BY ONLY <2>1
        <3>2. ASSUME NEW v \in Msix!Entries PROVE table[v] \in [address : {"stale", "doorbell"}, data : Seq(Nat), masked : BOOLEAN]
            <4>1. PICK m \in BOOLEAN : table[v] = [address |-> "stale", data |-> <<>>, masked |-> m]
                BY <2>2
            <4> QED BY ONLY <3>1, <4>1
        <3>3. table = [v \in Msix!Entries |-> table[v]]
            BY ONLY <2>2
        <3> QED BY ONLY <3>2, <3>3, Zenon
    <2> QED BY <2>3 DEF Msix!Init, Msix!TypeOK, Msix!Assumptions, Msix!PCs
<1>2. head \in Msix!Listed \cup {0}
    BY <1>1, ListedClosed
<1>3. Msix!FindInv /\ Msix!FoundIfListed
    BY <1>2 DEF Msix!Init, Msix!FindInv, Msix!FoundIfListed
<1>4. Msix!TableInv
    BY DEF Msix!Init, Msix!TableInv
<1> QED BY <1>1, <1>3, <1>4 DEF Msix!IInv

\* The MSI-X capability is found if the list has it, and MSI-X is on only for
\* vectors that have an LPI.
MsixInv == Msix!MsixInv

\* enable_msix, for any list of capabilities, knotted or not, and tables of any
\* length: it finds the capability if the list has one, and once the table has
\* been masked no entry ever signals an event that has no LPI.
THEOREM MsixEnables == Msix!Assumptions /\ Msix!Spec => []MsixInv
<1> SUFFICES ASSUME Msix!Assumptions PROVE Msix!Spec => []MsixInv
    OBVIOUS
<1>1. Msix!Init => Msix!IInv
    BY MsixInitIInv
<1>2. Msix!IInv /\ [Msix!Next]_(Msix!vars) => Msix!IInv'
    <2> SUFFICES ASSUME Msix!IInv, [Msix!Next]_(Msix!vars) PROVE Msix!IInv'
        OBVIOUS
    <2>1. CASE UNCHANGED Msix!vars
        BY <2>1 DEF Msix!vars, Msix!IInv, Msix!TypeOK, Msix!FindInv, Msix!TableInv, Msix!FoundIfListed, Msix!Listed, Msix!Closed, Msix!Entries, Msix!num_vectors
    <2> QED BY <2>1, VisitKeeps, NotFoundKeeps, MsixQuietKeeps, MaskKeeps, MapKeeps, ConfigureKeeps DEF Msix!Next
<1>3. Msix!IInv => MsixInv
    <2> SUFFICES ASSUME Msix!IInv PROVE Msix!MsixSafe
        BY DEF MsixInv, Msix!MsixInv, Msix!IInv
    <2>1. mapped \subseteq Msix!Entries /\ Msix!Entries \subseteq Nat /\ entry \in Nat
        BY DEF Msix!IInv, Msix!TypeOK, Msix!Entries
    <2>2. CASE msix_pc \in {"map", "address", "data", "unmask", "ok"}
        <3>1. \A v \in Msix!Entries : ~table[v].masked => v \in mapped /\ v < entry
            BY <2>1, <2>2 DEF Msix!IInv, Msix!TableInv
        <3>2. \A v \in Msix!Entries : Msix!Signals(v) => v \in mapped /\ table[v].address = "doorbell" /\ table[v].data = <<v>>
            BY <2>2, <3>1 DEF Msix!IInv, Msix!TableInv, Msix!Signals
        <3>3. msix_pc = "ok" => \A v \in mapped : Msix!Signals(v)
            BY DEF Msix!IInv, Msix!TableInv, Msix!Signals
        <3>4. enabled => {v \in Msix!Entries : Msix!Signals(v)} = mapped /\ msix_command = {"memory", "bus_master"}
            BY <2>1, <3>2, <3>3 DEF Msix!IInv, Msix!TableInv
        <3> QED BY <3>2, <3>4 DEF Msix!MsixSafe
    <2>3. CASE msix_pc \notin {"map", "address", "data", "unmask", "ok"}
        BY <2>3 DEF Msix!IInv, Msix!TableInv, Msix!MsixSafe
    <2> QED BY <2>2, <2>3
<1> QED BY <1>1, <1>2, <1>3, PTL DEF Msix!Spec
-----------------------------------------------------------------------------
(* BARs *)

CONSTANTS Width, Count, Functions
VARIABLES fn, regs, bar_command, bar_i, original, mask, original_high, bars, bar_pc

Bars == INSTANCE PcieBars WITH command <- bar_command, pc <- bar_pc

\* What was read from a register can be written to it again.
LEMMA WrittenBack ==
    ASSUME NEW i \in Bars!Indices
    PROVE  Bars!Written(i, fn.value[i]) = fn.value[i]
BY DEF Bars!Written

\* A function whose registers hold what they held at first is as it was.
LEMMA SameRegs ==
    ASSUME NEW f \in [Bars!Indices -> SUBSET Nat], NEW g \in [Bars!Indices -> SUBSET Nat],
           \A j \in Bars!Indices : f[j] = g[j]
    PROVE  f = g
OBVIOUS

\* One register is overwritten, or gets its value back.
LEMMA WriteRegister ==
    ASSUME Bars!Assumptions, Bars!IInv, NEW i \in Bars!Indices, NEW v \in SUBSET Nat,
           regs' = [regs EXCEPT ![i] = Bars!Written(i, v)]
    PROVE  /\ regs' \in [Bars!Indices -> SUBSET Nat]
           /\ \A j \in Bars!Indices : j # i => regs'[j] = regs[j]
           /\ regs'[i] = Bars!Written(i, v)
<1>1. fn.value \in [Bars!Indices -> SUBSET Nat] /\ fn.writable \in [Bars!Indices -> SUBSET Nat]
    BY DEF Bars!Assumptions, Bars!IInv
<1>2. Bars!Written(i, v) \in SUBSET Nat
    BY <1>1 DEF Bars!Written
<1>3. regs \in [Bars!Indices -> SUBSET Nat]
    BY DEF Bars!IInv
<1> QED BY ONLY <1>2, <1>3, regs' = [regs EXCEPT ![i] = Bars!Written(i, v)], i \in Bars!Indices

LEMMA BarsInitIInv ==
    ASSUME Bars!Assumptions, Bars!Init
    PROVE  Bars!IInv
BY DEF Bars!Assumptions, Bars!Init, Bars!IInv

\* The steps that write ones: the register's value has just been read.
LEMMA ProbeKeeps ==
    ASSUME Bars!Assumptions, Bars!IInv, Bars!WriteOnes \/ Bars!WriteHigh
    PROVE  Bars!IInv'
<1>1. fn' = fn /\ fn \in Functions /\ Count \in Nat /\ bar_i \in Nat /\ regs = fn.value /\ bar_command' = bar_command /\ bar_i' = bar_i
    BY DEF Bars!WriteOnes, Bars!WriteHigh, Bars!Goto, Bars!Assumptions, Bars!IInv
<1>2. Bars!Ones \in SUBSET Nat
    BY DEF Bars!Ones, Bars!Bits
<1>3. CASE Bars!WriteOnes
    <2>1. /\ bar_pc = "write" /\ bar_pc' = "restore" /\ original' = fn.value[bar_i] /\ bar_i \in Bars!Indices
          /\ regs' = [regs EXCEPT ![bar_i] = Bars!Written(bar_i, Bars!Ones)]
        BY <1>1, <1>3 DEF Bars!WriteOnes, Bars!Goto, Bars!Indices
    <2>2. regs' \in [Bars!Indices -> SUBSET Nat] /\ \A j \in Bars!Indices : j # bar_i => regs'[j] = fn.value[j]
        BY <1>1, <1>2, <2>1, WriteRegister
    <2> QED BY <1>1, <2>1, <2>2 DEF Bars!IInv, Bars!MovedOnly
<1>4. CASE Bars!WriteHigh
    <2>1. /\ bar_pc = "decide" /\ bar_pc' = "restore_high" /\ original_high' = fn.value[bar_i + 1] /\ bar_i + 1 \in Bars!Indices
          /\ regs' = [regs EXCEPT ![bar_i + 1] = Bars!Written(bar_i + 1, Bars!Ones)]
        BY <1>1, <1>4 DEF Bars!WriteHigh, Bars!Goto, Bars!Indices
    <2>2. regs' \in [Bars!Indices -> SUBSET Nat] /\ \A j \in Bars!Indices : j # bar_i + 1 => regs'[j] = fn.value[j]
        BY <1>1, <1>2, <2>1, WriteRegister
    <2> QED BY <1>1, <2>1, <2>2 DEF Bars!IInv, Bars!MovedOnly
<1> QED BY <1>3, <1>4

\* The steps that write back what was read.
LEMMA RestoreKeeps ==
    ASSUME Bars!Assumptions, Bars!IInv, Bars!Restore \/ Bars!RestoreHigh
    PROVE  Bars!IInv'
<1>1. fn' = fn /\ fn \in Functions /\ bar_i \in Nat /\ bar_command' = bar_command /\ bar_i' \in Nat
    BY DEF Bars!Restore, Bars!RestoreHigh, Bars!IInv
<1>2. fn.value \in [Bars!Indices -> SUBSET Nat]
    BY <1>1 DEF Bars!Assumptions
<1>3. CASE Bars!Restore
    <2>1. /\ bar_pc = "restore" /\ bar_pc' = "decide" /\ bar_i \in Bars!Indices /\ original = fn.value[bar_i]
          /\ regs' = [regs EXCEPT ![bar_i] = Bars!Written(bar_i, fn.value[bar_i])] /\ Bars!MovedOnly(bar_i)
        BY <1>3 DEF Bars!Restore, Bars!Goto, Bars!IInv
    <2>2. /\ regs' \in [Bars!Indices -> SUBSET Nat] /\ \A j \in Bars!Indices : j # bar_i => regs'[j] = regs[j]
          /\ regs'[bar_i] = fn.value[bar_i]
        BY <1>2, <2>1, WriteRegister, WrittenBack
    <2>3. regs' = fn.value
        BY <1>2, <2>1, <2>2, SameRegs DEF Bars!MovedOnly
    <2> QED BY <1>1, <2>1, <2>2, <2>3 DEF Bars!IInv
<1>4. CASE Bars!RestoreHigh
    <2>1. /\ bar_pc = "restore_high" /\ bar_pc' = "write" /\ bar_i + 1 \in Bars!Indices /\ original_high = fn.value[bar_i + 1]
          /\ regs' = [regs EXCEPT ![bar_i + 1] = Bars!Written(bar_i + 1, fn.value[bar_i + 1])] /\ Bars!MovedOnly(bar_i + 1)
        BY <1>4 DEF Bars!RestoreHigh, Bars!Goto, Bars!IInv
    <2>2. /\ regs' \in [Bars!Indices -> SUBSET Nat] /\ \A j \in Bars!Indices : j # bar_i + 1 => regs'[j] = regs[j]
          /\ regs'[bar_i + 1] = fn.value[bar_i + 1]
        BY <1>2, <2>1, WriteRegister, WrittenBack
    <2>3. regs' = fn.value
        BY <1>2, <2>1, <2>2, SameRegs DEF Bars!MovedOnly
    <2> QED BY <1>1, <2>1, <2>2, <2>3 DEF Bars!IInv
<1> QED BY <1>3, <1>4

\* The steps that write no register.
LEMMA BarsQuietKeeps ==
    ASSUME Bars!Assumptions, Bars!IInv, Bars!DecodeOff \/ Bars!Bar32 \/ Bars!Invalid64 \/ Bars!RestoreCommand
    PROVE  Bars!IInv'
<1>1. CASE Bars!DecodeOff
    BY <1>1 DEF Bars!DecodeOff, Bars!Goto, Bars!IInv, Bars!locals
<1>2. CASE Bars!Bar32
    BY <1>2 DEF Bars!Bar32, Bars!Goto, Bars!IInv
<1>3. CASE Bars!Invalid64
    BY <1>3 DEF Bars!Invalid64, Bars!Goto, Bars!IInv
<1>4. CASE Bars!RestoreCommand
    BY <1>4 DEF Bars!RestoreCommand, Bars!Goto, Bars!IInv, Bars!locals
<1> QED BY <1>1, <1>2, <1>3, <1>4

\* probe_bars, for functions with any number of registers of any width, whatever
\* is in them: no register that does not hold its address is ever decoded, and
\* in the end the function is as it was found.
THEOREM BarsRestored == Bars!Assumptions /\ Bars!Spec => [](Bars!NotDecodedMoved /\ Bars!Restored)
<1> SUFFICES ASSUME Bars!Assumptions PROVE Bars!Spec => [](Bars!NotDecodedMoved /\ Bars!Restored)
    OBVIOUS
<1>1. Bars!Init => Bars!IInv
    BY BarsInitIInv
<1>2. Bars!IInv /\ [Bars!Next]_(Bars!vars) => Bars!IInv'
    <2> SUFFICES ASSUME Bars!IInv, [Bars!Next]_(Bars!vars) PROVE Bars!IInv'
        OBVIOUS
    <2>1. CASE UNCHANGED Bars!vars
        BY <2>1 DEF Bars!vars, Bars!IInv, Bars!MovedOnly
    <2> QED BY <2>1, ProbeKeeps, RestoreKeeps, BarsQuietKeeps DEF Bars!Next
<1>3. Bars!IInv => Bars!NotDecodedMoved /\ Bars!Restored
    BY DEF Bars!IInv, Bars!NotDecodedMoved, Bars!Restored
<1> QED BY <1>1, <1>2, <1>3, PTL DEF Bars!Spec
=============================================================================
