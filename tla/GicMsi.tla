------------------------------- MODULE GicMsi -------------------------------
(***************************************************************************)
(* GicV3's tables of message-signalled interrupts: msi_map_event,          *)
(* msi_unmap_event and register_handler, and what on_interrupt finds.      *)
(* Every driver runs on a core of its own and owns one event, which it     *)
(* maps and unmaps in turn.  The LPI numbers and the tables are shared,    *)
(* each behind its own lock; what is done under one lock is one step,      *)
(* except that msi_map_event holds the lock of lpi_alloc throughout.       *)
(* alloc() returns any free LPI (LpiAllocator); reserve() of a free one is *)
(* the same step, and of a used one changes nothing.                       *)
(***************************************************************************)
EXTENDS ItsCommands, TLAPS

CONSTANTS Drivers, LPIs

None == "none"

VARIABLES used,             \* the LPIs taken from lpi_alloc
          holder,           \* the driver that holds the lock of lpi_alloc, or None
          event_mappings,   \* the LPI of each event (named after its driver)
          lpi_to_event,     \* the event of each LPI
          lpi_handlers,     \* the driver whose handler each LPI has
          itt,              \* the LPI the ITS raises for each event
          pc, lpi,          \* of each driver's call
          owned,            \* the LPI msi_map_event has returned to each driver
          registered        \* the drivers that have registered a handler for theirs

tables == <<event_mappings, lpi_to_event, lpi_handlers>>
vars == <<its, used, holder, tables, itt, pc, lpi, owned, registered>>

Init ==
    /\ ItsInit
    /\ used = {} /\ holder = None
    /\ event_mappings = [d \in Drivers |-> None]
    /\ lpi_to_event = [l \in LPIs |-> None]
    /\ lpi_handlers = [l \in LPIs |-> None]
    /\ itt = [d \in Drivers |-> None]
    /\ pc = [d \in Drivers |-> "idle"]
    /\ lpi = [d \in Drivers |-> None]
    /\ owned = [d \in Drivers |-> None]
    /\ registered = {}

Goto(d, from, to) == pc[d] = from /\ pc' = [pc EXCEPT ![d] = to]
-----------------------------------------------------------------------------
(* msi_map_event *)

MapAlloc(d) ==
    /\ owned[d] = None
    /\ holder = None
    /\ Goto(d, "idle", "map")
    /\ \E l \in LPIs \ used : used' = used \cup {l} /\ lpi' = [lpi EXCEPT ![d] = l]
    /\ holder' = d
    /\ UNCHANGED <<its, tables, itt, owned, registered>>

NoAvailableLpi(d) ==
    /\ owned[d] = None
    /\ holder = None
    /\ used = LPIs
    /\ Goto(d, "idle", "no_lpi")
    /\ UNCHANGED <<its, used, holder, tables, itt, lpi, owned, registered>>

\* The driver has seen the error and may call again.
SeeError(d) ==
    /\ Goto(d, "no_lpi", "idle")
    /\ UNCHANGED <<its, used, holder, tables, itt, lpi, owned, registered>>

PushMapti(d) ==
    /\ Goto(d, "map", "mapti")
    /\ Push(d, [event |-> d, lpi |-> lpi[d]])
    /\ UNCHANGED <<used, holder, tables, itt, lpi, owned, registered>>

\* Mutant: the LPI is given back when its command is given up.
MapFailsFree(d) ==
    /\ \/ Goto(d, "map", "idle") /\ PushFull
       \/ Goto(d, "mapti", "idle") /\ PushGivesUp(d)
    /\ used' = used \ {lpi[d]}
    /\ holder' = None
    /\ lpi' = [lpi EXCEPT ![d] = None]
    /\ UNCHANGED <<tables, itt, owned, registered>>

\* push_mapti's error is returned; the LPI stays taken.
MapFails(d) ==
    /\ \/ Goto(d, "map", "idle") /\ PushFull
       \/ Goto(d, "mapti", "idle") /\ PushGivesUp(d)
    /\ holder' = None
    /\ lpi' = [lpi EXCEPT ![d] = None]
    /\ UNCHANGED <<used, tables, itt, owned, registered>>

MapOk(d) ==
    /\ Goto(d, "mapti", "insert_event")
    /\ PushOk(d)
    /\ UNCHANGED <<used, holder, tables, itt, lpi, owned, registered>>

MapInsertEvent(d) ==
    /\ Goto(d, "insert_event", "insert_lpi")
    /\ event_mappings' = [event_mappings EXCEPT ![d] = lpi[d]]
    /\ UNCHANGED <<its, used, holder, lpi_to_event, lpi_handlers, itt, lpi, owned, registered>>

MapInsertLpi(d) ==
    /\ Goto(d, "insert_lpi", "idle")
    /\ lpi_to_event' = [lpi_to_event EXCEPT ![lpi[d]] = d]
    /\ holder' = None
    /\ owned' = [owned EXCEPT ![d] = lpi[d]]
    /\ lpi' = [lpi EXCEPT ![d] = None]
    /\ UNCHANGED <<its, used, event_mappings, lpi_handlers, itt, registered>>
-----------------------------------------------------------------------------
(* register_handler, for the LPI that the driver was given *)

RegisterHandler(d) ==
    /\ pc[d] = "idle" /\ owned[d] # None
    /\ lpi_handlers' = [lpi_handlers EXCEPT ![owned[d]] = d]
    /\ registered' = registered \cup {d}
    /\ UNCHANGED <<its, used, holder, event_mappings, lpi_to_event, itt, pc, lpi, owned>>
-----------------------------------------------------------------------------
(* msi_unmap_event.  The syncs, one for each redistributor, are one.       *)

PushDiscard(d) ==
    /\ owned[d] # None
    /\ Goto(d, "idle", "discard")
    /\ Push(d, [event |-> d, lpi |-> None])
    /\ registered' = registered \ {d}
    /\ UNCHANGED <<used, holder, tables, itt, lpi, owned>>

DiscardOk(d) ==
    /\ Goto(d, "discard", "discarded")
    /\ PushOk(d)
    /\ UNCHANGED <<used, holder, tables, itt, lpi, owned, registered>>

PushSync(d) ==
    /\ Goto(d, "discarded", "sync")
    /\ Push(d, [event |-> None])
    /\ UNCHANGED <<used, holder, tables, itt, lpi, owned, registered>>

SyncOk(d) ==
    /\ Goto(d, "sync", "remove_event")
    /\ PushOk(d)
    /\ UNCHANGED <<used, holder, tables, itt, lpi, owned, registered>>

\* An error leaves the tables as they are; the driver may unmap again.
UnmapFails(d) ==
    /\ \/ Goto(d, "discarded", "idle") /\ PushFull
       \/ (Goto(d, "discard", "idle") \/ Goto(d, "sync", "idle")) /\ PushGivesUp(d)
    /\ UNCHANGED <<used, holder, tables, itt, lpi, owned, registered>>

\* Mutant: the LPI is freed before its entries are removed.
RemoveEventFrees(d) ==
    /\ holder = None
    /\ Goto(d, "remove_event", "remove_lpi")
    /\ lpi' = [lpi EXCEPT ![d] = event_mappings[d]]
    /\ used' = used \ {event_mappings[d]}
    /\ event_mappings' = [event_mappings EXCEPT ![d] = None]
    /\ UNCHANGED <<its, holder, lpi_to_event, lpi_handlers, itt, owned, registered>>

RemoveEvent(d) ==
    /\ Goto(d, "remove_event", "remove_lpi")
    /\ lpi' = [lpi EXCEPT ![d] = event_mappings[d]]
    /\ event_mappings' = [event_mappings EXCEPT ![d] = None]
    /\ UNCHANGED <<its, used, holder, lpi_to_event, lpi_handlers, itt, owned, registered>>

RemoveLpi(d) ==
    /\ Goto(d, "remove_lpi", "free")
    /\ lpi_to_event' = [lpi_to_event EXCEPT ![lpi[d]] = None]
    /\ UNCHANGED <<its, used, holder, event_mappings, lpi_handlers, itt, lpi, owned, registered>>

FreeLpi(d) ==
    /\ holder = None
    /\ Goto(d, "free", "remove_handler")
    /\ used' = used \ {lpi[d]}
    /\ UNCHANGED <<its, holder, tables, itt, lpi, owned, registered>>

RemoveHandler(d) ==
    /\ Goto(d, "remove_handler", "idle")
    /\ lpi_handlers' = [lpi_handlers EXCEPT ![lpi[d]] = None]
    /\ lpi' = [lpi EXCEPT ![d] = None]
    /\ owned' = [owned EXCEPT ![d] = None]
    /\ UNCHANGED <<its, used, holder, event_mappings, lpi_to_event, itt, registered>>
-----------------------------------------------------------------------------
\* The ITS executes MAPTI and DISCARD by setting the event's entry.
ItsExecutes ==
    /\ ItsTakes
    /\ LET cmd == Head(queue)
       IN  itt' = IF cmd.event = None THEN itt ELSE [itt EXCEPT ![cmd.event] = cmd.lpi]
    /\ UNCHANGED <<used, holder, tables, pc, lpi, owned, registered>>

Next ==
    \/ ItsExecutes
    \/ \E d \in Drivers :
          \/ MapAlloc(d) \/ NoAvailableLpi(d) \/ SeeError(d) \/ PushMapti(d) \/ MapFails(d)
          \/ MapOk(d) \/ MapInsertEvent(d) \/ MapInsertLpi(d)
          \/ RegisterHandler(d)
          \/ PushDiscard(d) \/ DiscardOk(d) \/ PushSync(d) \/ SyncOk(d) \/ UnmapFails(d)
          \/ RemoveEvent(d) \/ RemoveLpi(d) \/ FreeLpi(d) \/ RemoveHandler(d)

Spec == Init /\ [][Next]_vars
-----------------------------------------------------------------------------
\* No LPI is raised for two events, even when commands that were given up are
\* executed late, after msi_map_event and msi_unmap_event have returned.
LpiExclusive ==
    \A d, e \in Drivers : itt[d] # None /\ itt[d] = itt[e] => d = e

\* Between its calls, both maps and the allocator know a driver's LPI as its
\* own, although another driver's unmapping of the LPI may still be under way.
TablesAgree ==
    \A d \in Drivers :
       pc[d] = "idle" /\ owned[d] # None =>
          /\ event_mappings[d] = owned[d]
          /\ lpi_to_event[owned[d]] = d
          /\ owned[d] \in used

\* Between its calls, a driver's event raises exactly the LPI that msi_map_event
\* returned, and none once msi_unmap_event has returned (when no command fails).
EventsRaised ==
    \A d \in Drivers : pc[d] = "idle" /\ ~fails => itt[d] = owned[d]

\* msi_map_event returns NoAvailableLpi only when "no free LPI numbers remain"
\* (interrupt/mod.rs:31): every LPI is some driver's (when no command fails).
NoLpiMeansAllTaken ==
    [][\A d \in Drivers : ~fails /\ pc[d] # "no_lpi" /\ pc'[d] = "no_lpi"
          => \A l \in LPIs : \E e \in Drivers : l \in {owned[e], lpi[e]}]_vars

\* on_interrupt returns HandlerNotFound when "no handler was registed for the
\* dispatched interrupt" (interrupt/mod.rs:27): a registered handler is found.
HandlerFound == \A d \in registered : lpi_handlers[owned[d]] = d
-----------------------------------------------------------------------------
Unmapping == {"discarded", "sync", "remove_event", "remove_lpi", "free", "remove_handler"}

TypeOK ==
    /\ queue \in Seq([event : Drivers, lpi : LPIs \cup {None}] \cup [event : {None}])
    /\ used \subseteq LPIs
    /\ event_mappings \in [Drivers -> LPIs \cup {None}]
    /\ lpi_to_event \in [LPIs -> Drivers \cup {None}]
    /\ itt \in [Drivers -> LPIs \cup {None}]
    /\ pc \in [Drivers -> {"idle", "no_lpi", "map", "mapti", "insert_event", "insert_lpi", "discard"} \cup Unmapping]
    /\ lpi \in [Drivers -> LPIs \cup {None}]
    /\ owned \in [Drivers -> LPIs \cup {None}]

\* The LPIs that a driver's call or the driver itself has and has not given back.
Held(d) == IF pc[d] = "remove_handler" THEN {} ELSE {lpi[d], owned[d]}

\* The LPIs the ITS raises for a driver's event or will, when it executes what
\* is in the queue.
Raised(d) ==
    {itt[d]} \cup {queue[i].lpi : i \in {j \in 1 .. Len(queue) : queue[j].event = d}}

\* An LPI named by a driver or by the ITS is taken, and is of one driver.
RefsInv ==
    /\ \A d \in Drivers : Held(d) \cup Raised(d) \subseteq used \cup {None}
    /\ \A d, e \in Drivers : d # e => (Held(d) \cup Raised(d)) \cap (Held(e) \cup Raised(e)) \subseteq {None}

\* How far each call is: what it still has to enter in the tables, or to remove.
CallsInv ==
    /\ \A d \in Drivers : pc[d] \in {"idle", "no_lpi", "discard", "discarded", "sync", "remove_event"} => lpi[d] = None
    /\ \A d \in Drivers : pc[d] \in {"no_lpi", "map", "mapti", "insert_event", "insert_lpi"} => owned[d] = None
    /\ \A d \in Drivers : pc[d] \in {"map", "mapti", "insert_event", "insert_lpi"} => lpi[d] # None
    /\ \A d \in Drivers : pc[d] \in {"discard"} \cup Unmapping => owned[d] # None
    /\ \A d \in Drivers : pc[d] = "insert_lpi" => event_mappings[d] = lpi[d]
    /\ \A d \in Drivers : pc[d] \in {"remove_lpi", "free", "remove_handler"} =>
          lpi[d] = owned[d] /\ event_mappings[d] = None
    /\ \A d \in Drivers : pc[d] \notin {"insert_lpi", "remove_lpi", "free", "remove_handler"} =>
          event_mappings[d] = owned[d]
    /\ \A d \in Drivers : pc[d] \in {"idle", "discard", "discarded", "sync", "remove_event", "remove_lpi"}
                          /\ owned[d] # None => lpi_to_event[owned[d]] = d

\* A driver that waits has its command last in the queue, or the ITS has done it;
\* once a DISCARD is done nothing is left that would raise an LPI for the event.
QueueInv ==
    /\ \A d \in Drivers : pc[d] \in {"mapti", "discard", "sync"} <=> pusher = d
    /\ \A d \in Drivers : pc[d] \in {"mapti", "discard"} =>
          IF queue = <<>> THEN itt[d] = lpi[d]
          ELSE queue[Len(queue)] = [event |-> d, lpi |-> lpi[d]]
    /\ \A d \in Drivers : pc[d] = "sync" /\ queue # <<>> => queue[Len(queue)] = [event |-> None]
    /\ \A d \in Drivers : pc[d] \in Unmapping => Raised(d) = {None}

\* When no command fails, only the pusher's is in the queue, an event that is not
\* being mapped or unmapped raises its driver's LPI, and no LPI is lost.
NoFailInv ==
    ~fails =>
       /\ queue # <<>> => Len(queue) = 1 /\ pusher \in Drivers
       /\ \A d \in Drivers : pc[d] \in {"idle", "no_lpi", "map"} => itt[d] = owned[d]
       /\ \A d \in Drivers : pc[d] \in {"insert_event", "insert_lpi"} => itt[d] = lpi[d]
       /\ \A l \in used : \E d \in Drivers : l \in Held(d)

IInv == TypeOK /\ RefsInv /\ CallsInv /\ QueueInv /\ NoFailInv

-----------------------------------------------------------------------------
LEMMA IInvInit ==
    ASSUME None \notin Drivers \cup LPIs, Nobody \notin Drivers, Init
    PROVE  IInv
<1>1. queue = <<>> /\ Len(queue) = 0
    BY DEF Init, ItsInit
<1>2. \A d \in Drivers : Held(d) = {None} /\ Raised(d) = {None}
    BY <1>1 DEF Init, Held, Raised
<1> QED BY <1>1, <1>2 DEF Init, ItsInit, IInv, TypeOK, RefsInv, CallsInv, QueueInv, NoFailInv, Unmapping

\* A step that takes no LPI, gives none back and names none anew keeps RefsInv.
LEMMA RefsShrink ==
    ASSUME RefsInv, used \subseteq used',
           \A d \in Drivers : Held(d)' \cup Raised(d)' \subseteq Held(d) \cup Raised(d) \cup {None}
    PROVE  RefsInv'
BY DEF RefsInv

LEMMA RaisedSame ==
    ASSUME UNCHANGED <<queue, itt>>
    PROVE  \A d \in Drivers : Raised(d)' = Raised(d)
BY DEF Raised

LEMMA AllocKeeps ==
    ASSUME IInv, None \notin Drivers \cup LPIs, Nobody \notin Drivers, NEW d \in Drivers,
           MapAlloc(d) \/ NoAvailableLpi(d) \/ SeeError(d)
    PROVE  IInv'
<1>1. CASE MapAlloc(d)
  <2>1. PICK l \in LPIs \ used : used' = used \cup {l} /\ lpi' = [lpi EXCEPT ![d] = l]
      BY <1>1 DEF MapAlloc
  <2>2. /\ owned[d] = None /\ pc[d] = "idle" /\ pc' = [pc EXCEPT ![d] = "map"]
        /\ UNCHANGED <<queue, pusher, fails, event_mappings, lpi_to_event, itt, owned>>
      BY <1>1 DEF MapAlloc, Goto, its, tables
  <2>3. TypeOK'
      BY <2>1, <2>2 DEF IInv, TypeOK
  <2>4. \A e \in Drivers : Raised(e)' = Raised(e)
      BY <2>2, RaisedSame
  <2>5. Held(d)' = {l, None} /\ \A e \in Drivers : e # d => Held(e)' = Held(e)
      BY <2>1, <2>2 DEF IInv, TypeOK, Held
  <2>6. \A e \in Drivers : l \notin Held(e) \cup Raised(e)
      BY <2>1 DEF IInv, RefsInv
  <2>7. RefsInv'
      BY <2>1, <2>4, <2>5, <2>6 DEF IInv, RefsInv
  <2>8. CallsInv'
      BY <2>1, <2>2 DEF IInv, TypeOK, CallsInv, Unmapping
  <2>9. QueueInv'
      BY <2>1, <2>2, <2>4 DEF IInv, TypeOK, QueueInv, Unmapping
  <2>10. Held(d) = {None}
      BY <2>2 DEF IInv, CallsInv, Held
  <2>11. NoFailInv'
    <3> SUFFICES ASSUME ~fails PROVE NoFailInv'
        BY <2>2 DEF NoFailInv
    <3>1. \A k \in used' : \E e \in Drivers : k \in Held(e)'
        BY <2>1, <2>5, <2>10 DEF IInv, NoFailInv, TypeOK
    <3> QED BY <2>1, <2>2, <3>1 DEF IInv, TypeOK, NoFailInv
  <2> QED BY <2>3, <2>7, <2>8, <2>9, <2>11 DEF IInv
<1>2. CASE NoAvailableLpi(d) \/ SeeError(d)
  <2>1. /\ pc[d] \in {"idle", "no_lpi"} /\ \E to \in {"idle", "no_lpi"} : pc' = [pc EXCEPT ![d] = to]
        /\ owned[d] = None
        /\ UNCHANGED <<queue, pusher, fails, used, event_mappings, lpi_to_event, itt, owned, lpi>>
      BY <1>2 DEF NoAvailableLpi, SeeError, Goto, its, tables, IInv, CallsInv
  <2>2. TypeOK'
      BY <2>1 DEF IInv, TypeOK
  <2>3. \A e \in Drivers : Raised(e)' = Raised(e)
      BY <2>1, RaisedSame
  <2>4. \A e \in Drivers : Held(e)' = Held(e)
      BY <2>1 DEF IInv, TypeOK, Held
  <2>5. RefsInv'
      BY <2>1, <2>3, <2>4 DEF IInv, RefsInv
  <2>6. CallsInv'
      BY <2>1 DEF IInv, TypeOK, CallsInv, Unmapping
  <2>7. QueueInv'
      BY <2>1, <2>3 DEF IInv, TypeOK, QueueInv, Unmapping
  <2>8. NoFailInv'
      BY <2>1, <2>4 DEF IInv, TypeOK, NoFailInv
  <2> QED BY <2>2, <2>5, <2>6, <2>7, <2>8 DEF IInv
<1> QED BY <1>1, <1>2

\* PushMapti, PushDiscard and PushSync: a command is added and waited for.
LEMMA PushKeeps ==
    ASSUME IInv, None \notin Drivers \cup LPIs, Nobody \notin Drivers, NEW d \in Drivers,
           PushMapti(d) \/ PushDiscard(d) \/ PushSync(d)
    PROVE  IInv'
<1> DEFINE Cmds == [event : Drivers, lpi : LPIs \cup {None}] \cup [event : {None}]
<1>1. PICK cmd \in Cmds, to \in {"mapti", "discard", "sync"} :
        /\ queue' = Append(queue, cmd) /\ pc' = [pc EXCEPT ![d] = to]
        /\ to \in {"mapti", "discard"} => cmd = [event |-> d, lpi |-> lpi[d]]
        /\ to = "sync" => cmd = [event |-> None] /\ pc[d] = "discarded"
        /\ to = "mapti" => pc[d] = "map"
        /\ to = "discard" => pc[d] = "idle" /\ owned[d] # None
    BY DEF PushMapti, PushDiscard, PushSync, Push, Goto, IInv, TypeOK, CallsInv
<1>2. /\ pusher = Nobody /\ pusher' = d
      /\ UNCHANGED <<used, event_mappings, lpi_to_event, itt, lpi, owned, fails>>
    BY DEF PushMapti, PushDiscard, PushSync, Push, tables
<1>3. queue \in Seq(Cmds) /\ queue' \in Seq(Cmds)
    BY <1>1 DEF IInv, TypeOK
<1>4. /\ Len(queue') = Len(queue) + 1 /\ Len(queue) \in Nat
      /\ queue'[Len(queue')] = cmd /\ queue' # <<>>
      /\ \A i \in 1 .. Len(queue) : queue'[i] = queue[i]
    BY <1>1, <1>3
<1>5. TypeOK'
    BY <1>1, <1>2, <1>3 DEF IInv, TypeOK, Unmapping
<1>6. \A e \in Drivers : Held(e)' = Held(e)
    BY <1>1, <1>2 DEF IInv, TypeOK, Held
<1>7. \A e \in Drivers : Raised(e)' \subseteq Raised(e) \cup (IF cmd.event = e THEN {cmd.lpi} ELSE {})
  <2> SUFFICES ASSUME NEW e \in Drivers, NEW i \in 1 .. Len(queue'), queue'[i].event = e
               PROVE  queue'[i].lpi \in Raised(e) \cup (IF cmd.event = e THEN {cmd.lpi} ELSE {})
      BY <1>2 DEF Raised
  <2>1. CASE i \in 1 .. Len(queue)
      BY <1>4, <2>1 DEF Raised
  <2>2. CASE i = Len(queue')
      BY <1>4, <2>2
  <2> QED BY <1>4, <2>1, <2>2
<1>8. \A e \in Drivers : cmd.event = e => e = d /\ cmd.lpi = lpi[d] /\ to # "sync"
    BY <1>1
<1>9. RefsInv'
  <2>1. lpi[d] \in Held(d)
      BY <1>1 DEF Held
  <2>2. \A e \in Drivers : Raised(e)' \subseteq Held(e) \cup Raised(e)
      BY <1>7, <1>8, <2>1
  <2> QED BY <1>2, <1>6, <2>2, RefsShrink DEF IInv
<1>10. CallsInv'
    BY <1>1, <1>2 DEF IInv, TypeOK, CallsInv, Unmapping
<1>11. \A e \in Drivers : pc[e] \notin {"mapti", "discard", "sync"}
    BY <1>2 DEF IInv, QueueInv
<1>12. QueueInv'
  <2>1. \A e \in Drivers : pc'[e] \in {"mapti", "discard", "sync"} <=> pusher' = e
      BY <1>1, <1>2, <1>11 DEF IInv, TypeOK
  <2>2. \A e \in Drivers : pc'[e] \in {"mapti", "discard"} => queue'[Len(queue')] = [event |-> e, lpi |-> lpi'[e]]
      BY <1>1, <1>2, <1>4, <1>11 DEF IInv, TypeOK
  <2>3. \A e \in Drivers : pc'[e] \in Unmapping => pc[e] \in Unmapping /\ cmd.event # e
      BY <1>1, <1>8 DEF IInv, TypeOK, Unmapping
  <2>4. \A e \in Drivers : itt[e] \in Raised(e)'
      BY <1>2 DEF Raised
  <2>5. \A e \in Drivers : pc'[e] \in Unmapping => Raised(e)' = {None}
      BY <1>7, <2>3, <2>4 DEF IInv, QueueInv
  <2>6. \A e \in Drivers : pc'[e] = "sync" => queue'[Len(queue')] = [event |-> None]
      BY <1>1, <1>4, <1>11 DEF IInv, TypeOK
  <2> QED BY <1>4, <2>1, <2>2, <2>5, <2>6 DEF QueueInv
<1>13. NoFailInv'
  <2> SUFFICES ASSUME ~fails PROVE NoFailInv'
      BY <1>2 DEF NoFailInv
  <2>1. queue = <<>> /\ Len(queue) = 0
      BY <1>2 DEF IInv, NoFailInv
  <2> QED BY <1>1, <1>2, <1>4, <1>6, <2>1 DEF IInv, TypeOK, NoFailInv
<1> QED BY <1>5, <1>9, <1>10, <1>12, <1>13 DEF IInv

\* MapOk, DiscardOk and SyncOk: the ITS has executed the command.
LEMMA OkKeeps ==
    ASSUME IInv, Nobody \notin Drivers, NEW d \in Drivers,
           MapOk(d) \/ DiscardOk(d) \/ SyncOk(d)
    PROVE  IInv'
<1>1. PICK to \in {"insert_event", "discarded", "remove_event"} :
        /\ pc' = [pc EXCEPT ![d] = to]
        /\ to = "insert_event" => pc[d] = "mapti"
        /\ to = "discarded" => pc[d] = "discard"
        /\ to = "remove_event" => pc[d] = "sync"
    BY DEF MapOk, DiscardOk, SyncOk, Goto
<1>2. /\ pusher = d /\ pusher' = Nobody /\ queue = <<>>
      /\ UNCHANGED <<queue, used, event_mappings, lpi_to_event, itt, lpi, owned, fails>>
    BY DEF MapOk, DiscardOk, SyncOk, PushOk, tables
<1>3. TypeOK'
    BY <1>1, <1>2 DEF IInv, TypeOK, Unmapping
<1>4. \A e \in Drivers : Held(e)' = Held(e) /\ Raised(e)' = Raised(e)
    BY <1>1, <1>2, RaisedSame DEF IInv, TypeOK, Held
<1>5. RefsInv'
    BY <1>2, <1>4, RefsShrink DEF IInv
<1>6. CallsInv'
    BY <1>1, <1>2 DEF IInv, TypeOK, CallsInv, Unmapping
<1>7. Len(queue) = 0 /\ \A e \in Drivers : Raised(e) = {itt[e]}
    BY <1>2 DEF Raised
<1>8. QueueInv'
    BY <1>1, <1>2, <1>4, <1>7 DEF IInv, TypeOK, QueueInv, CallsInv, Unmapping
<1>9. NoFailInv'
    BY <1>1, <1>2, <1>4 DEF IInv, TypeOK, NoFailInv, QueueInv, CallsInv
<1> QED BY <1>3, <1>5, <1>6, <1>8, <1>9 DEF IInv

\* MapFails and UnmapFails: the command may be executed at any time later.
LEMMA FailKeeps ==
    ASSUME IInv, None \notin Drivers \cup LPIs, Nobody \notin Drivers, QueueLimit \in Nat \ {0}, NEW d \in Drivers,
           MapFails(d) \/ UnmapFails(d)
    PROVE  IInv'
<1>1. fails
  <2>1. fails \/ (pusher = Nobody /\ Len(queue) = QueueLimit)
      BY DEF MapFails, UnmapFails, PushGivesUp, PushFull
  <2>2. pusher = Nobody /\ ~fails => queue = <<>>
      BY DEF IInv, NoFailInv
  <2> QED BY <2>1, <2>2
<1>2. /\ pc[d] \in {"map", "mapti", "discard", "discarded", "sync"} /\ pc' = [pc EXCEPT ![d] = "idle"]
      /\ pusher' = Nobody /\ pusher \in {d, Nobody}
      /\ UNCHANGED <<queue, used, event_mappings, lpi_to_event, itt, owned, fails>>
      /\ lpi' = [lpi EXCEPT ![d] = None]
    BY DEF MapFails, UnmapFails, Goto, PushGivesUp, PushFull, tables, IInv, TypeOK, CallsInv
<1>3. TypeOK'
    BY <1>2 DEF IInv, TypeOK
<1>4. \A e \in Drivers : Raised(e)' = Raised(e)
    BY <1>2, RaisedSame
<1>5. \A e \in Drivers : Held(e)' \subseteq Held(e) \cup {None}
    BY <1>2 DEF IInv, TypeOK, Held
<1>6. RefsInv'
    BY <1>2, <1>4, <1>5, RefsShrink DEF IInv
<1>7. CallsInv'
    BY <1>2 DEF IInv, TypeOK, CallsInv, Unmapping
<1>8. QueueInv'
    BY <1>2, <1>4 DEF IInv, TypeOK, QueueInv, Unmapping
<1>9. NoFailInv'
    BY <1>1, <1>2 DEF NoFailInv
<1> QED BY <1>3, <1>6, <1>7, <1>8, <1>9 DEF IInv

LEMMA InsertKeeps ==
    ASSUME IInv, None \notin Drivers \cup LPIs, NEW d \in Drivers,
           MapInsertEvent(d) \/ MapInsertLpi(d)
    PROVE  IInv'
<1>1. UNCHANGED <<queue, pusher, fails, used, itt>>
    BY DEF MapInsertEvent, MapInsertLpi, its
<1>2. \A e \in Drivers : Raised(e)' = Raised(e)
    BY <1>1, RaisedSame
<1>3. lpi[d] \in LPIs /\ owned[d] = None /\ lpi[d] \in Held(d)
    BY DEF MapInsertEvent, MapInsertLpi, Goto, IInv, TypeOK, CallsInv, Held
<1>4. CASE MapInsertEvent(d)
  <2>1. /\ pc[d] = "insert_event" /\ pc' = [pc EXCEPT ![d] = "insert_lpi"]
        /\ event_mappings' = [event_mappings EXCEPT ![d] = lpi[d]]
        /\ UNCHANGED <<lpi_to_event, lpi, owned>>
      BY <1>4 DEF MapInsertEvent, Goto
  <2>2. TypeOK'
      BY <1>1, <2>1 DEF IInv, TypeOK
  <2>3. \A e \in Drivers : Held(e)' = Held(e)
      BY <2>1 DEF IInv, TypeOK, Held
  <2>4. RefsInv'
      BY <1>1, <1>2, <2>3, RefsShrink DEF IInv
  <2>5. CallsInv'
      BY <2>1 DEF IInv, TypeOK, CallsInv, Unmapping
  <2>6. QueueInv'
      BY <1>1, <1>2, <2>1 DEF IInv, TypeOK, QueueInv, Unmapping
  <2>7. NoFailInv'
      BY <1>1, <2>1, <2>3 DEF IInv, TypeOK, NoFailInv
  <2> QED BY <2>2, <2>4, <2>5, <2>6, <2>7 DEF IInv
<1>5. CASE MapInsertLpi(d)
  <2>1. /\ pc[d] = "insert_lpi" /\ pc' = [pc EXCEPT ![d] = "idle"]
        /\ lpi_to_event' = [lpi_to_event EXCEPT ![lpi[d]] = d]
        /\ owned' = [owned EXCEPT ![d] = lpi[d]]
        /\ lpi' = [lpi EXCEPT ![d] = None]
        /\ UNCHANGED event_mappings
      BY <1>5 DEF MapInsertLpi, Goto
  <2>2. TypeOK'
      BY <1>1, <1>3, <2>1 DEF IInv, TypeOK
  <2>3. \A e \in Drivers : Held(e)' = Held(e)
      BY <1>3, <2>1 DEF IInv, TypeOK, Held
  <2>4. RefsInv'
      BY <1>1, <1>2, <2>3, RefsShrink DEF IInv
  <2>5. \A e \in Drivers : e # d /\ pc[e] # "remove_handler" => owned[e] # lpi[d]
      BY <1>3 DEF IInv, RefsInv, Held
  <2>6. CallsInv'
      BY <1>3, <2>1, <2>5 DEF IInv, TypeOK, CallsInv, Unmapping
  <2>7. QueueInv'
      BY <1>1, <1>2, <2>1 DEF IInv, TypeOK, QueueInv, Unmapping
  <2>8. NoFailInv'
      BY <1>1, <2>1, <2>3 DEF IInv, TypeOK, NoFailInv
  <2> QED BY <2>2, <2>4, <2>6, <2>7, <2>8 DEF IInv
<1> QED BY <1>4, <1>5

LEMMA RemoveKeeps ==
    ASSUME IInv, None \notin Drivers \cup LPIs, NEW d \in Drivers,
           RemoveEvent(d) \/ RemoveLpi(d) \/ RemoveHandler(d)
    PROVE  IInv'
<1>1. UNCHANGED <<queue, pusher, fails, used, itt>>
    BY DEF RemoveEvent, RemoveLpi, RemoveHandler, its
<1>2. \A e \in Drivers : Raised(e)' = Raised(e)
    BY <1>1, RaisedSame
<1>3. CASE RemoveEvent(d)
  <2>1. /\ pc[d] = "remove_event" /\ pc' = [pc EXCEPT ![d] = "remove_lpi"]
        /\ lpi' = [lpi EXCEPT ![d] = owned[d]]
        /\ event_mappings' = [event_mappings EXCEPT ![d] = None]
        /\ UNCHANGED <<lpi_to_event, owned>> /\ lpi[d] = None
      BY <1>3 DEF RemoveEvent, Goto, IInv, CallsInv
  <2>2. TypeOK'
      BY <1>1, <2>1 DEF IInv, TypeOK, Unmapping
  <2>3. \A e \in Drivers : Held(e)' \subseteq Held(e) /\ Held(e) \subseteq Held(e)' \cup {None}
      BY <2>1 DEF IInv, TypeOK, Held
  <2>4. RefsInv'
      BY <1>1, <1>2, <2>3, RefsShrink DEF IInv
  <2>5. CallsInv'
      BY <2>1 DEF IInv, TypeOK, CallsInv, Unmapping
  <2>6. QueueInv'
      BY <1>1, <1>2, <2>1 DEF IInv, TypeOK, QueueInv, Unmapping
  <2>7. NoFailInv'
      BY <1>1, <2>1, <2>3 DEF IInv, TypeOK, NoFailInv
  <2> QED BY <2>2, <2>4, <2>5, <2>6, <2>7 DEF IInv
<1>4. CASE RemoveLpi(d)
  <2>1. /\ pc[d] = "remove_lpi" /\ pc' = [pc EXCEPT ![d] = "free"]
        /\ lpi_to_event' = [lpi_to_event EXCEPT ![lpi[d]] = None]
        /\ lpi[d] = owned[d] /\ owned[d] # None
        /\ UNCHANGED <<event_mappings, lpi, owned>>
      BY <1>4 DEF RemoveLpi, Goto, IInv, CallsInv, Unmapping
  <2>2. TypeOK'
      BY <1>1, <2>1 DEF IInv, TypeOK, Unmapping
  <2>3. \A e \in Drivers : Held(e)' = Held(e)
      BY <2>1 DEF IInv, TypeOK, Held
  <2>4. RefsInv'
      BY <1>1, <1>2, <2>3, RefsShrink DEF IInv
  <2>5. \A e \in Drivers : e # d /\ pc[e] # "remove_handler" => owned[e] # lpi[d]
      BY <2>1 DEF IInv, RefsInv, Held
  <2>6. CallsInv'
      BY <2>1, <2>5 DEF IInv, TypeOK, CallsInv, Unmapping
  <2>7. QueueInv'
      BY <1>1, <1>2, <2>1 DEF IInv, TypeOK, QueueInv, Unmapping
  <2>8. NoFailInv'
      BY <1>1, <2>1, <2>3 DEF IInv, TypeOK, NoFailInv
  <2> QED BY <2>2, <2>4, <2>6, <2>7, <2>8 DEF IInv
<1>5. CASE RemoveHandler(d)
  <2>1. /\ pc[d] = "remove_handler" /\ pc' = [pc EXCEPT ![d] = "idle"]
        /\ lpi' = [lpi EXCEPT ![d] = None]
        /\ owned' = [owned EXCEPT ![d] = None]
        /\ UNCHANGED <<event_mappings, lpi_to_event>>
      BY <1>5 DEF RemoveHandler, Goto
  <2>2. TypeOK'
      BY <1>1, <2>1 DEF IInv, TypeOK, Unmapping
  <2>3. \A e \in Drivers : Held(e)' \subseteq Held(e) \cup {None} /\ Held(e) \subseteq Held(e)'
      BY <2>1 DEF IInv, TypeOK, Held
  <2>4. RefsInv'
      BY <1>1, <1>2, <2>3, RefsShrink DEF IInv
  <2>5. CallsInv'
      BY <2>1 DEF IInv, TypeOK, CallsInv, Unmapping
  <2>6. QueueInv'
      BY <1>1, <1>2, <2>1 DEF IInv, TypeOK, QueueInv, Unmapping
  <2>7. itt[d] = None
      BY <2>1 DEF IInv, QueueInv, Raised, Unmapping
  <2>8. NoFailInv'
      BY <1>1, <2>1, <2>3, <2>7 DEF IInv, TypeOK, NoFailInv
  <2> QED BY <2>2, <2>4, <2>5, <2>6, <2>8 DEF IInv
<1> QED BY <1>3, <1>4, <1>5

\* The only step that gives an LPI back: nothing names it any more.
LEMMA FreeKeeps ==
    ASSUME IInv, None \notin Drivers \cup LPIs, NEW d \in Drivers, FreeLpi(d)
    PROVE  IInv'
<1>1. /\ pc[d] = "free" /\ pc' = [pc EXCEPT ![d] = "remove_handler"]
      /\ used' = used \ {lpi[d]}
      /\ UNCHANGED <<queue, pusher, fails, itt, lpi, owned, event_mappings, lpi_to_event>>
    BY DEF FreeLpi, Goto, its, tables
<1>2. lpi[d] = owned[d] /\ lpi[d] # None /\ Raised(d) = {None} /\ Held(d) = {lpi[d]}
    BY <1>1 DEF IInv, CallsInv, QueueInv, Unmapping, Held
<1>3. TypeOK'
    BY <1>1 DEF IInv, TypeOK, Unmapping
<1>4. \A e \in Drivers : Raised(e)' = Raised(e)
    BY <1>1, RaisedSame
<1>5. Held(d)' = {} /\ \A e \in Drivers : e # d => Held(e)' = Held(e)
    BY <1>1 DEF IInv, TypeOK, Held
<1>6. RefsInv'
    BY <1>1, <1>2, <1>4, <1>5 DEF IInv, RefsInv
<1>7. CallsInv'
    BY <1>1 DEF IInv, TypeOK, CallsInv, Unmapping
<1>8. QueueInv'
    BY <1>1, <1>4 DEF IInv, TypeOK, QueueInv, Unmapping
<1>9. NoFailInv'
    BY <1>1, <1>2, <1>5 DEF IInv, TypeOK, NoFailInv
<1> QED BY <1>3, <1>6, <1>7, <1>8, <1>9 DEF IInv

LEMMA RegisterKeeps ==
    ASSUME IInv, NEW d \in Drivers, RegisterHandler(d)
    PROVE  IInv'
<1>1. UNCHANGED <<queue, pusher, fails, used, itt, lpi, owned, pc, event_mappings, lpi_to_event>>
    BY DEF RegisterHandler, its
<1>2. \A e \in Drivers : Raised(e)' = Raised(e) /\ Held(e)' = Held(e)
    BY <1>1, RaisedSame DEF Held
<1> QED BY <1>1, <1>2 DEF IInv, TypeOK, RefsInv, CallsInv, QueueInv, NoFailInv

LEMMA TailFacts ==
    ASSUME NEW S, NEW q \in Seq(S), q # <<>>
    PROVE  /\ Head(q) = q[1]
           /\ Len(q) \in Nat \ {0} /\ Len(Tail(q)) = Len(q) - 1
           /\ \A i \in 1 .. Len(q) : q[i] \in S
           /\ \A i \in 1 .. Len(Tail(q)) : Tail(q)[i] = q[i + 1]
<1>1. Len(q) \in Nat \ {0}
    OBVIOUS
<1> QED BY <1>1

LEMMA ItsExecutesKeeps ==
    ASSUME IInv, None \notin Drivers \cup LPIs, Nobody \notin Drivers, ItsExecutes
    PROVE  IInv'
<1> DEFINE Cmds == [event : Drivers, lpi : LPIs \cup {None}] \cup [event : {None}]
           cmd == queue[1]
<1>1. /\ queue # <<>> /\ queue' = Tail(queue)
      /\ itt' = IF cmd.event = None THEN itt ELSE [itt EXCEPT ![cmd.event] = cmd.lpi]
      /\ UNCHANGED <<pusher, fails, used, event_mappings, lpi_to_event, lpi, owned, pc>>
    BY TailFacts DEF ItsExecutes, ItsTakes, IInv, TypeOK, tables
<1>2. /\ Len(queue) \in Nat \ {0} /\ Len(queue') = Len(queue) - 1
      /\ \A i \in 1 .. Len(queue') : queue'[i] = queue[i + 1]
      /\ \A i \in 1 .. Len(queue) : queue[i] \in Cmds
    BY <1>1, TailFacts DEF IInv, TypeOK
<1>3. cmd.event # None => cmd.event \in Drivers /\ cmd.lpi \in Raised(cmd.event) /\ cmd.lpi \in LPIs \cup {None}
    BY <1>2 DEF Raised
<1>4. TypeOK'
    BY <1>1, <1>3 DEF IInv, TypeOK
<1>5. \A e \in Drivers : itt'[e] = IF cmd.event = e THEN cmd.lpi ELSE itt[e]
    BY <1>1, <1>3 DEF IInv, TypeOK
<1>6. \A e \in Drivers : Raised(e)' \subseteq Raised(e) /\ Held(e)' = Held(e)
  <2> SUFFICES ASSUME NEW e \in Drivers PROVE Raised(e)' \subseteq Raised(e)
      BY <1>1 DEF Held
  <2>1. itt'[e] \in Raised(e)
      BY <1>3, <1>5 DEF Raised
  <2>2. \A i \in 1 .. Len(queue') : queue'[i].event = e => queue'[i].lpi \in Raised(e)
      BY <1>2 DEF Raised
  <2> QED BY <2>1, <2>2 DEF Raised
<1>7. RefsInv'
    BY <1>1, <1>6, RefsShrink DEF IInv
<1>8. CallsInv'
    BY <1>1 DEF IInv, CallsInv
<1>9. queue' = <<>> <=> Len(queue) = 1
    BY <1>2, <1>4 DEF TypeOK
<1>10. QueueInv'
  <2>1. \A e \in Drivers : pc'[e] \in {"mapti", "discard", "sync"} <=> pusher' = e
      BY <1>1 DEF IInv, QueueInv
  <2>2. \A e \in Drivers : pc[e] \in {"mapti", "discard"} => queue[Len(queue)] = [event |-> e, lpi |-> lpi[e]]
      BY <1>1 DEF IInv, QueueInv
  <2>3. Len(queue) # 1 => queue'[Len(queue')] = queue[Len(queue)]
      BY <1>2
  <2>4. \A e \in Drivers : itt'[e] \in Raised(e)'
      BY DEF Raised
  <2>5. \A e \in Drivers : pc'[e] \in Unmapping => Raised(e)' = {None}
      BY <1>1, <1>6, <2>4 DEF IInv, QueueInv
  <2>6. \A e \in Drivers : pc'[e] \in {"mapti", "discard"} =>
           IF queue' = <<>> THEN itt'[e] = lpi'[e] ELSE queue'[Len(queue')] = [event |-> e, lpi |-> lpi'[e]]
      BY <1>1, <1>5, <1>9, <2>2, <2>3
  <2>7. \A e \in Drivers : pc'[e] = "sync" /\ queue' # <<>> => queue'[Len(queue')] = [event |-> None]
      BY <1>1, <1>9, <2>3 DEF IInv, QueueInv
  <2> QED BY <2>1, <2>5, <2>6, <2>7 DEF QueueInv
<1>11. NoFailInv'
  <2> SUFFICES ASSUME ~fails PROVE NoFailInv'
      BY <1>1 DEF NoFailInv
  <2>1. Len(queue) = 1 /\ pusher \in Drivers /\ queue' = <<>>
      BY <1>1, <1>9 DEF IInv, NoFailInv
  <2>2. pc[pusher] \in {"mapti", "discard", "sync"}
      BY <2>1 DEF IInv, QueueInv
  <2>3. \A e \in Drivers : pc[e] \notin {"mapti", "discard", "sync"} => cmd.event # e
    <3>1. CASE pc[pusher] \in {"mapti", "discard"}
        BY <2>1, <3>1, <1>1 DEF IInv, QueueInv
    <3>2. CASE pc[pusher] = "sync"
        BY <1>1, <2>1, <3>2 DEF IInv, QueueInv
    <3> QED BY <2>2, <3>1, <3>2
  <2> QED BY <1>1, <1>5, <1>6, <2>1, <2>3 DEF IInv, NoFailInv
<1> QED BY <1>4, <1>7, <1>8, <1>10, <1>11 DEF IInv

LEMMA IInvNext ==
    ASSUME None \notin Drivers \cup LPIs, Nobody \notin Drivers, QueueLimit \in Nat \ {0}, IInv, [Next]_vars
    PROVE  IInv'
<1>1. CASE UNCHANGED vars
  <2>1. UNCHANGED <<queue, pusher, fails, used, itt, lpi, owned, pc, event_mappings, lpi_to_event>>
      BY <1>1 DEF vars, its, tables
  <2>2. \A e \in Drivers : Raised(e)' = Raised(e) /\ Held(e)' = Held(e)
      BY <2>1, RaisedSame DEF Held
  <2> QED BY <2>1, <2>2 DEF IInv, TypeOK, RefsInv, CallsInv, QueueInv, NoFailInv
<1>2. CASE ItsExecutes
    BY <1>2, ItsExecutesKeeps
<1>3. ASSUME NEW d \in Drivers, MapAlloc(d) \/ NoAvailableLpi(d) \/ SeeError(d)
      PROVE  IInv'
    BY <1>3, AllocKeeps
<1>4. ASSUME NEW d \in Drivers, PushMapti(d) \/ PushDiscard(d) \/ PushSync(d)
      PROVE  IInv'
    BY <1>4, PushKeeps
<1>5. ASSUME NEW d \in Drivers, MapOk(d) \/ DiscardOk(d) \/ SyncOk(d)
      PROVE  IInv'
    BY <1>5, OkKeeps
<1>6. ASSUME NEW d \in Drivers, MapFails(d) \/ UnmapFails(d)
      PROVE  IInv'
    BY <1>6, FailKeeps
<1>7. ASSUME NEW d \in Drivers, MapInsertEvent(d) \/ MapInsertLpi(d) \/ RegisterHandler(d)
      PROVE  IInv'
    BY <1>7, InsertKeeps, RegisterKeeps
<1>8. ASSUME NEW d \in Drivers, RemoveEvent(d) \/ RemoveLpi(d) \/ RemoveHandler(d) \/ FreeLpi(d)
      PROVE  IInv'
    BY <1>8, RemoveKeeps, FreeKeeps
<1> QED BY <1>1, <1>2, <1>3, <1>4, <1>5, <1>6, <1>7, <1>8 DEF Next

\* What the invariant says of the tables, the events and the LPIs.
LEMMA IInvImplies ==
    ASSUME IInv
    PROVE  LpiExclusive /\ TablesAgree /\ EventsRaised
<1>1. \A d \in Drivers : itt[d] \in Raised(d)
    BY DEF Raised
<1>2. LpiExclusive
    BY <1>1 DEF IInv, RefsInv, LpiExclusive
<1>3. TablesAgree
    BY DEF IInv, CallsInv, RefsInv, Held, TablesAgree
<1>4. EventsRaised
    BY DEF IInv, NoFailInv, EventsRaised
<1> QED BY <1>2, <1>3, <1>4

LEMMA NoLpiStep ==
    ASSUME None \notin Drivers \cup LPIs, IInv, [Next]_vars, NEW d \in Drivers, ~fails, pc[d] # "no_lpi", pc'[d] = "no_lpi"
    PROVE  \A l \in LPIs : \E e \in Drivers : l \in {owned[e], lpi[e]}
<1>1. NoAvailableLpi(d)
  <2>1. pc' # pc
      BY DEF IInv, TypeOK
  <2>2. CASE ItsExecutes \/ UNCHANGED vars
      BY <2>1, <2>2 DEF ItsExecutes, vars
  <2>3. ASSUME NEW e \in Drivers, RegisterHandler(e)
        PROVE FALSE
      BY <2>1, <2>3 DEF RegisterHandler
  <2>4. ASSUME NEW e \in Drivers,
               \/ MapAlloc(e) \/ SeeError(e) \/ PushMapti(e) \/ MapFails(e)
               \/ MapOk(e) \/ MapInsertEvent(e) \/ MapInsertLpi(e)
               \/ PushDiscard(e) \/ DiscardOk(e) \/ PushSync(e) \/ SyncOk(e) \/ UnmapFails(e)
               \/ RemoveEvent(e) \/ RemoveLpi(e) \/ FreeLpi(e) \/ RemoveHandler(e)
        PROVE  FALSE
    <3>1. \E to \in {"idle", "map", "mapti", "insert_event", "insert_lpi", "discard"} \cup Unmapping :
             pc' = [pc EXCEPT ![e] = to]
        BY <2>4 DEF MapAlloc, SeeError, PushMapti, MapFails, MapOk, MapInsertEvent, MapInsertLpi, PushDiscard,
             DiscardOk, PushSync, SyncOk, UnmapFails, RemoveEvent, RemoveLpi, FreeLpi, RemoveHandler, Goto, Unmapping
    <3> QED BY <3>1 DEF IInv, TypeOK, Unmapping
  <2>6. PICK e \in Drivers : NoAvailableLpi(e)
      BY <2>2, <2>3, <2>4 DEF Next
  <2> QED BY <2>6 DEF NoAvailableLpi, Goto, IInv, TypeOK
<1>2. used = LPIs
    BY <1>1 DEF NoAvailableLpi
<1> QED BY <1>2 DEF IInv, NoFailInv, Held
=============================================================================
