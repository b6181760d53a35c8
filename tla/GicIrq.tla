------------------------------- MODULE GicIrq -------------------------------
(***************************************************************************)
(* Single interrupts of GicV3: enable_interrupt and disable_interrupt, for *)
(* LPIs set_priority as well, and register_handler and on_interrupt.       *)
(* Every driver runs on a core of its own, makes one call at a time and    *)
(* owns three interrupts: a private one (in the core's redistributor), a   *)
(* shared one (in the distributor) and an LPI: a byte of the property      *)
(* table in memory, which a redistributor may cache whenever it likes.     *)
(*                                                                         *)
(* A write to an enable register takes effect some time later.             *)
(* RegisterWritePending of its bank tells only of the writes that disable. *)
(* A bit that is written as 0 leaves its interrupt alone.                  *)
(*                                                                         *)
(* The operations on the registers, on the property table and on the       *)
(* handlers share nothing, so a behaviour has those of one `part`.         *)
(***************************************************************************)
EXTENDS ItsCommands, FiniteSets, TLAPS

CONSTANTS Drivers,
          Priorities    \* numbers of one byte

VARIABLES part,         \* which operations are called: "registers", "lpi" or "handlers"
          pc, request,  \* of each driver's call
          enabled,      \* the private and shared interrupts that are enabled
          pending,      \* of each bank, the writes that have no effect yet
          wanted_on,    \* the private and shared interrupts whose owner last enabled them
          prop,         \* the byte of each driver's LPI in lpi_prop_table
          cached,       \* what the redistributor has cached of it, or NotCached
          mapped,       \* the drivers whose LPI is in lpi_to_event
          events,       \* the drivers whose LPI the ITS has an event for
          old,          \* the byte a call has read
          wanted,       \* what each driver last asked for of its LPI
          confirmed,    \* the drivers told, since their byte was written, that it
                        \* was invalidated for an event
          handlers,     \* interrupt_handlers, by the owner of the interrupt
          writer,       \* the driver that holds interrupt_handlers for writing, or Nobody
          lpi_handlers, \* by the owner of the LPI
          lpi_writer,   \* the driver that holds lpi_handlers for writing, or Nobody
          running       \* the handler each core is in: <<kind, owner, version>>, or <<>>

registers == <<enabled, pending, wanted_on>>
lpis == <<prop, cached, mapped, events, old, wanted, confirmed>>
tables == <<handlers, writer, lpi_handlers, lpi_writer, running>>
irqVars == <<part, pc, request, registers, lpis, tables>>
vars == <<its, irqVars>>

NotCached == -1
NoHandler == 0
Private(d) == <<"private", d>>
Shared(d) == <<"shared", d>>
Registers(d) == {Private(d), Shared(d)}
Bank(i) == IF i[1] = "private" THEN i[2] ELSE "distributor"
Banks == Drivers \cup {"distributor"}
Idle == <<>>

Init ==
    /\ ItsInit
    /\ part \in {"registers", "lpi", "handlers"}
    /\ pc = [d \in Drivers |-> "idle"]
    /\ request = [d \in Drivers |-> Idle]
    /\ enabled = {}
    /\ pending = [b \in Banks |-> {}]
    /\ wanted_on = {}
    /\ prop = [d \in Drivers |-> 160]
    /\ cached = [d \in Drivers |-> NotCached]
    /\ mapped = {}
    /\ events = {}
    /\ old = [d \in Drivers |-> 0]
    /\ wanted = [d \in Drivers |-> [enabled |-> FALSE, priority |-> 160]]
    /\ confirmed = {}
    /\ handlers = [d \in Drivers |-> NoHandler]
    /\ writer = Nobody
    /\ lpi_handlers = [d \in Drivers |-> NoHandler]
    /\ lpi_writer = Nobody
    /\ running = [d \in Drivers |-> <<>>]

Goto(d, from, to) == pc[d] = from /\ pc' = [pc EXCEPT ![d] = to]
-----------------------------------------------------------------------------
(* enable_interrupt and disable_interrupt of a private or a shared interrupt *)

\* Of two writes to one interrupt the later decides.
WriteEnable(d, i, on) ==
    /\ Goto(d, "idle", "rwp")
    /\ request' = [request EXCEPT ![d] = <<i, on>>]
    /\ pending' = [pending EXCEPT ![Bank(i)] = {w \in @ : w[1] # i} \cup {<<i, on>>}]
    /\ UNCHANGED <<its, enabled, wanted_on, lpis, tables>>

RegisterWritePending(b) == \E w \in pending[b] : ~w[2]

\* wait_for_redistributor_rwp, wait_for_distributor_rwp
WaitForRwp(d) ==
    LET i == request[d][1] IN
    /\ Goto(d, "rwp", "idle")
    /\ ~RegisterWritePending(Bank(i))
    /\ wanted_on' = IF request[d][2] THEN wanted_on \cup {i} ELSE wanted_on \ {i}
    /\ request' = [request EXCEPT ![d] = Idle]
    /\ UNCHANGED <<its, enabled, pending, lpis, tables>>

TakesEffect(b) ==
    \E w \in pending[b] :
        /\ pending' = [pending EXCEPT ![b] = @ \ {w}]
        /\ enabled' = IF w[2] THEN enabled \cup {w[1]} ELSE enabled \ {w[1]}
        /\ UNCHANGED <<its, pc, request, wanted_on, lpis, tables>>
-----------------------------------------------------------------------------
(* The three operations for an LPI: update_lpi_prop *)

\* Field::lower and modify_field, of a field that takes N values and whose
\* lowest bit counts M.
Lower(M, N, v) == (v % N) * M
Lift(M, N, raw) == (raw \div M) % N

ModifyField(M, N, byte, v) == byte - Lower(M, N, Lift(M, N, byte)) + Lower(M, N, v)

\* The bit that enables the LPI, and the six of its priority.
EnableBit(byte) == Lift(1, 2, byte)
PriorityBits(byte) == Lift(4, 64, byte)

UpdatedEnabled(byte, on) == ModifyField(1, 2, byte, IF on THEN 1 ELSE 0)
UpdatedPriority(byte, p) == ModifyField(4, 64, byte, p \div 4)
Updated(byte, r) ==
    IF r.field = "enabled" THEN UpdatedEnabled(byte, r.value) ELSE UpdatedPriority(byte, r.value)

ReadProp(d, field, v) ==
    /\ Goto(d, "idle", "write")
    /\ request' = [request EXCEPT ![d] = [field |-> field, value |-> v]]
    /\ old' = [old EXCEPT ![d] = prop[d]]
    /\ UNCHANGED <<its, registers, prop, cached, mapped, events, wanted, confirmed, tables>>

\* The byte is written and cleaned to memory.  For an LPI without an event that
\* is all: Ok is returned and nothing invalidated.
WriteProp(d) ==
    /\ Goto(d, "write", IF d \in mapped THEN "inv" ELSE "idle")
    /\ prop' = [prop EXCEPT ![d] = Updated(old[d], request[d])]
    /\ wanted' = [wanted EXCEPT ![d] = [@ EXCEPT ![request[d].field] = request[d].value]]
    /\ confirmed' = confirmed \ {d}
    /\ old' = [old EXCEPT ![d] = 0]
    /\ request' = [request EXCEPT ![d] = Idle]
    /\ UNCHANGED <<its, registers, cached, mapped, events, tables>>

\* msi_invall, of the collection of the driver's core.
PushInvall(d) ==
    /\ Goto(d, "idle", "inv_sent")
    /\ Push(d, [invalidate |-> {d}])
    /\ UNCHANGED <<request, registers, lpis, tables>>

\* Mutant: SYNC alone.
PushInvNot(d) ==
    /\ Goto(d, "inv", "inv_sent")
    /\ Push(d, [invalidate |-> {}])
    /\ UNCHANGED <<request, registers, lpis, tables>>

PushInv(d) ==
    /\ Goto(d, "inv", "inv_sent")
    /\ Push(d, [invalidate |-> {d}])
    /\ UNCHANGED <<request, registers, lpis, tables>>

InvOk(d) ==
    /\ Goto(d, "inv_sent", "sync")
    /\ PushOk(d)
    /\ UNCHANGED <<request, registers, lpis, tables>>

\* rdbase_for_redist knows the redistributor of every core.
PushSync(d) ==
    /\ Goto(d, "sync", "sync_sent")
    /\ Push(d, [invalidate |-> {}])
    /\ UNCHANGED <<request, registers, lpis, tables>>

\* The call returns Ok.
SyncOk(d) ==
    /\ Goto(d, "sync_sent", "idle")
    /\ PushOk(d)
    /\ confirmed' = confirmed \cup ({d} \cap events)
    /\ UNCHANGED <<request, registers, prop, cached, mapped, events, old, wanted, tables>>

\* A push fails: the call returns the error, and the byte stays as it was
\* written.  The driver may make any call next.
UpdateFails(d) ==
    /\ \/ (Goto(d, "inv", "idle") \/ Goto(d, "sync", "idle")) /\ PushFull
       \/ (Goto(d, "inv_sent", "idle") \/ Goto(d, "sync_sent", "idle")) /\ PushGivesUp(d)
    /\ UNCHANGED <<request, registers, lpis, tables>>

\* What msi_map_event and msi_unmap_event (GicMsi) do to lpi_to_event, and their
\* commands to the ITS.  An msi_unmap_event that fails leaves lpi_to_event as it
\* is, though the ITS may execute its DISCARD.
MapEvent(d) ==
    /\ pc[d] = "idle" /\ d \notin mapped
    /\ mapped' = mapped \cup {d}
    /\ events' = events \cup {d}
    /\ UNCHANGED <<its, pc, request, registers, prop, cached, old, wanted, confirmed, tables>>

UnmapEvent(d) ==
    /\ pc[d] = "idle" /\ d \in mapped
    /\ mapped' = mapped \ {d}
    /\ events' = events \ {d}
    /\ UNCHANGED <<its, pc, request, registers, prop, cached, old, wanted, confirmed, tables>>

UnmapFails(d) ==
    /\ fails
    /\ pc[d] = "idle" /\ d \in mapped
    /\ events' = events \ {d}
    /\ UNCHANGED <<its, pc, request, registers, prop, cached, mapped, old, wanted, confirmed, tables>>

\* The redistributor reads the byte of an LPI, at any time.
CacheFill(d) ==
    /\ cached' = [cached EXCEPT ![d] = prop[d]]
    /\ UNCHANGED <<its, pc, request, registers, prop, mapped, events, old, wanted, confirmed, tables>>

\* An invalidation names an event: without one the ITS cannot carry it out.
ItsExecutes ==
    /\ ItsTakes
    /\ cached' = [d \in Drivers |-> IF d \in Head(queue).invalidate \cap events THEN NotCached ELSE cached[d]]
    /\ UNCHANGED <<pc, request, registers, prop, mapped, events, old, wanted, confirmed, tables>>
-----------------------------------------------------------------------------
(* register_handler and on_interrupt *)

\* The cores that have interrupt_handlers borrowed.
Readers == {d \in Drivers : running[d] # <<>> /\ running[d][1] = "shared"}

\* try_borrow_mut; where it fails the call returns NotSupported and does nothing.
RegisterHandler(d) ==
    /\ writer = Nobody /\ Readers = {}
    /\ Goto(d, "idle", "registering")
    /\ writer' = d
    /\ UNCHANGED <<its, request, registers, lpis, handlers, lpi_handlers, lpi_writer, running>>

HandlerSet(d) ==
    /\ Goto(d, "registering", "idle")
    /\ handlers' = [handlers EXCEPT ![d] = IF @ = 1 THEN 2 ELSE 1]
    /\ writer' = Nobody
    /\ UNCHANGED <<its, request, registers, lpis, lpi_handlers, lpi_writer, running>>

\* Core d takes the shared interrupt of e: the table stays borrowed while the
\* handler runs.  (Without one the call returns HandlerNotFound.)
OnInterrupt(d, e) ==
    /\ pc[d] \notin {"panic", "stuck"} /\ running[d] = <<>>
    /\ writer = Nobody /\ handlers[e] # NoHandler
    /\ running' = [running EXCEPT ![d] = <<"shared", e, handlers[e]>>]
    /\ UNCHANGED <<its, pc, request, registers, lpis, handlers, writer, lpi_handlers, lpi_writer>>

\* "that's a bigger problem. panic.": borrow() finds the table being written.
\* A writer that panics keeps it.
OnInterruptPanics(d) ==
    /\ running[d] = <<>>
    /\ writer # Nobody
    /\ pc[d] \notin {"panic", "stuck"} /\ pc' = [pc EXCEPT ![d] = "panic"]
    /\ UNCHANGED <<its, request, registers, lpis, tables>>

\* lpi_handlers.write(), in register_handler and at the end of msi_unmap_event.
WriteLpiHandlers(d) ==
    /\ lpi_writer = Nobody
    /\ Goto(d, "idle", "lpi_writing")
    /\ lpi_writer' = d
    /\ UNCHANGED <<its, request, registers, lpis, handlers, writer, lpi_handlers, running>>

LpiHandlerSet(d) ==
    /\ Goto(d, "lpi_writing", "idle")
    /\ lpi_handlers' = [lpi_handlers EXCEPT ![d] = IF @ = 1 THEN 2 ELSE 1]
    /\ lpi_writer' = Nobody
    /\ UNCHANGED <<its, request, registers, lpis, handlers, writer, running>>

LpiHandlerRemoved(d) ==
    /\ Goto(d, "lpi_writing", "idle")
    /\ lpi_handlers' = [lpi_handlers EXCEPT ![d] = NoHandler]
    /\ lpi_writer' = Nobody
    /\ UNCHANGED <<its, request, registers, lpis, handlers, writer, running>>

\* Core d takes the LPI of e.  The guard is dropped before the handler runs, so
\* the handler may be replaced or removed meanwhile.
OnLpi(d, e) ==
    /\ pc[d] \notin {"panic", "stuck"} /\ running[d] = <<>>
    /\ lpi_writer = Nobody /\ lpi_handlers[e] # NoHandler
    /\ running' = [running EXCEPT ![d] = <<"lpi", e, lpi_handlers[e]>>]
    /\ UNCHANGED <<its, pc, request, registers, lpis, handlers, writer, lpi_handlers, lpi_writer>>

\* Unlike borrow(), read() waits for the writer; when that is the core's own
\* interrupted call, it waits for ever.
OnLpiStuck(d) ==
    /\ running[d] = <<>>
    /\ lpi_writer = d
    /\ Goto(d, "lpi_writing", "stuck")
    /\ UNCHANGED <<its, request, registers, lpis, tables>>

HandlerReturns(d) ==
    /\ running[d] # <<>>
    /\ running' = [running EXCEPT ![d] = <<>>]
    /\ UNCHANGED <<its, pc, request, registers, lpis, handlers, writer, lpi_handlers, lpi_writer>>

RegistersCall(d) ==
    \/ \E i \in Registers(d), on \in BOOLEAN : WriteEnable(d, i, on)
    \/ WaitForRwp(d)

LpiCall(d) ==
    \/ \E on \in BOOLEAN : ReadProp(d, "enabled", on)
    \/ \E p \in Priorities : ReadProp(d, "priority", p)
    \/ WriteProp(d) \/ CacheFill(d)
    \/ PushInvall(d) \/ PushInv(d) \/ InvOk(d) \/ PushSync(d) \/ SyncOk(d) \/ UpdateFails(d)
    \/ MapEvent(d) \/ UnmapEvent(d) \/ UnmapFails(d)

HandlersCall(d) ==
    \/ running[d] = <<>> /\ (RegisterHandler(d) \/ HandlerSet(d))
    \/ running[d] = <<>> /\ (WriteLpiHandlers(d) \/ LpiHandlerSet(d) \/ LpiHandlerRemoved(d))
    \/ \E e \in Drivers : OnInterrupt(d, e) \/ OnLpi(d, e)
    \/ OnInterruptPanics(d) \/ OnLpiStuck(d) \/ HandlerReturns(d)

RegistersNext == (\E b \in Banks : TakesEffect(b)) \/ (\E d \in Drivers : RegistersCall(d))
LpiNext == ItsExecutes \/ \E d \in Drivers : LpiCall(d)
HandlersNext == \E d \in Drivers : HandlersCall(d)

Next ==
    /\ \/ part = "registers" /\ RegistersNext
       \/ part = "lpi" /\ LpiNext
       \/ part = "handlers" /\ HandlersNext
    /\ UNCHANGED part

Spec == Init /\ [][Next]_vars
-----------------------------------------------------------------------------
\* When disable_interrupt has returned, the interrupt is off and stays off; when
\* enable_interrupt has, it is on or will be, whatever other cores write to the
\* same register.
EnabledAsAsked ==
    \A d \in Drivers : pc[d] = "idle" => \A i \in Registers(d) :
        IF i \in wanted_on THEN i \in enabled \/ <<i, TRUE>> \in pending[Bank(i)]
        ELSE i \notin enabled /\ <<i, TRUE>> \notin pending[Bank(i)]

\* Both fields of an LPI's byte are what is wanted.
ByteIs(byte, w) ==
    /\ w.enabled <=> EnableBit(byte) = 1
    /\ w.priority \div 4 = PriorityBits(byte)

Fresh(d) == cached[d] \in {NotCached, prop[d]}

\* When a call of a driver has returned, both fields of its LPI's byte are the
\* last that were asked for, whichever was written last, and even if the call
\* failed.  Once it was told Ok with an event mapped, the redistributor has no
\* older byte, whenever it reads it, whatever failed before.
PropAsAsked ==
    \A d \in Drivers : pc[d] = "idle" =>
        /\ ByteIs(prop[d], wanted[d])
        /\ d \in confirmed => Fresh(d)

\* The handler of a private or shared interrupt is the one registered for it
\* until it returns: nobody can replace it while it runs.
HandlerStays ==
    \A d \in Readers : handlers[running[d][2]] = running[d][3] /\ writer = Nobody

\* Each of these for the operations it is about.
IrqInv ==
    /\ part = "registers" => EnabledAsAsked
    /\ part = "lpi" => PropAsAsked
    /\ part = "handlers" => HandlerStays
-----------------------------------------------------------------------------
(* The inductive invariant, of each part.                                  *)

\* What the owner of an interrupt has written last.
Target(d, i) ==
    IF pc[d] = "rwp" /\ request[d][1] = i THEN request[d] = <<i, TRUE>> ELSE i \in wanted_on

\* A write without effect is the last to its interrupt, and disables only while
\* its driver waits; an interrupt without such a write is as was written.
RegistersInv ==
    /\ pc \in [Drivers -> {"idle", "rwp"}]
    /\ DOMAIN request = Drivers
    /\ \A d \in Drivers : pc[d] = "rwp" => request[d] \in Registers(d) \X BOOLEAN
    /\ pending \in [Banks -> SUBSET (({"private", "shared"} \X Drivers) \X BOOLEAN)]
    /\ \A b \in Banks : \A w \in pending[b] : Bank(w[1]) = b
    /\ \A d \in Drivers : \A i \in Registers(d) :
          /\ <<i, FALSE>> \in pending[Bank(i)] => pc[d] = "rwp" /\ request[d] = <<i, FALSE>>
          /\ <<i, TRUE>> \in pending[Bank(i)] => Target(d, i)
          /\ Target(d, i) => i \in enabled \/ <<i, TRUE>> \in pending[Bank(i)]
          /\ ~Target(d, i) => i \notin enabled \/ <<i, FALSE>> \in pending[Bank(i)]

LpiRequests ==
    [field : {"enabled"}, value : BOOLEAN] \cup [field : {"priority"}, value : Priorities]
Wishes == [enabled : BOOLEAN, priority : 0 .. 255]

LpiTypes ==
    /\ queue \in Seq([invalidate : SUBSET Drivers])
    /\ pc \in [Drivers -> {"idle", "write", "inv", "inv_sent", "sync", "sync_sent"}]
    /\ DOMAIN request = Drivers
    /\ \A d \in Drivers : pc[d] = "write" => request[d] \in LpiRequests
    /\ prop \in [Drivers -> 0 .. 255]
    /\ cached \in [Drivers -> -1 .. 255]
    /\ old \in [Drivers -> 0 .. 255]
    /\ wanted \in [Drivers -> Wishes]

\* A redistributor has an old byte only where no invalidation was confirmed, or
\* until one that is under way is executed.
CacheInv ==
    /\ \A d \in Drivers : pc[d] \in {"inv_sent", "sync_sent"} <=> pusher = d
    /\ \A d \in Drivers : d \in confirmed => Fresh(d)
    /\ \A d \in Drivers : d \in events /\ pc[d] \in {"sync", "sync_sent"} => Fresh(d)
    /\ \A d \in Drivers : d \in events /\ pc[d] = "inv_sent" =>
          Fresh(d) \/ (queue # <<>> /\ d \in queue[Len(queue)].invalidate)

BytesInv ==
    \A d \in Drivers : ByteIs(prop[d], wanted[d]) /\ (pc[d] = "write" => old[d] = prop[d])

LpiInv == LpiTypes /\ CacheInv /\ BytesInv

HandlersInv ==
    /\ pc \in [Drivers -> {"idle", "registering", "lpi_writing", "panic", "stuck"}]
    /\ handlers \in [Drivers -> 0 .. 2] /\ lpi_handlers \in [Drivers -> 0 .. 2]
    /\ running \in [Drivers -> {<<>>} \cup ({"shared", "lpi"} \X Drivers \X (0 .. 2))]
    /\ HandlerStays
    /\ \A d \in Drivers : pc[d] = "registering" => writer = d

IInv ==
    \/ part = "registers" /\ RegistersInv
    \/ part = "lpi" /\ LpiInv
    \/ part = "handlers" /\ HandlersInv
-----------------------------------------------------------------------------
\* Writing one field of the byte leaves the other.
LEMMA ByteFacts ==
    ASSUME Priorities \subseteq 0 .. 255,
           NEW byte \in 0 .. 255, NEW r \in LpiRequests
    PROVE  /\ Updated(byte, r) \in 0 .. 255
           /\ r.field = "enabled" => /\ EnableBit(Updated(byte, r)) = 1 <=> r.value
                                     /\ PriorityBits(Updated(byte, r)) = PriorityBits(byte)
           /\ r.field = "priority" => /\ EnableBit(Updated(byte, r)) = EnableBit(byte)
                                      /\ PriorityBits(Updated(byte, r)) = r.value \div 4
<1>0. \A x \in 0 .. 255 : EnableBit(x) = x % 2 /\ PriorityBits(x) = x \div 4
    BY DEF EnableBit, PriorityBits, Lift
<1>1. CASE r.field = "enabled"
  <2>1. r.value \in BOOLEAN
      BY <1>1 DEF LpiRequests
  <2>2. PICK v \in {0, 1} : Updated(byte, r) = byte - (byte % 2) + v /\ (v = 1 <=> r.value)
      BY <1>1, <2>1 DEF Updated, UpdatedEnabled, UpdatedPriority, ModifyField, Lower, Lift
  <2>3. byte - (byte % 2) + v \in 0 .. 255 /\ (byte - (byte % 2) + v) % 2 = v /\ (byte - (byte % 2) + v) \div 4 = byte \div 4
      OBVIOUS
  <2>4. Updated(byte, r) \in 0 .. 255 /\ Updated(byte, r) % 2 = v /\ Updated(byte, r) \div 4 = byte \div 4
      BY <2>2, <2>3
  <2> QED BY <1>0, <1>1, <2>2, <2>4
<1>2. CASE r.field = "priority"
  <2>1. r.value \in 0 .. 255
      BY <1>2 DEF LpiRequests
  <2>2. PICK v \in 0 .. 63 : v = r.value \div 4 /\ Updated(byte, r) = byte - (byte \div 4) * 4 + v * 4
      BY <1>2, <2>1 DEF Updated, UpdatedEnabled, UpdatedPriority, ModifyField, Lower, Lift
  <2>3. /\ byte - (byte \div 4) * 4 + v * 4 \in 0 .. 255
        /\ (byte - (byte \div 4) * 4 + v * 4) % 2 = byte % 2
        /\ (byte - (byte \div 4) * 4 + v * 4) \div 4 = v
      OBVIOUS
  <2>4. Updated(byte, r) \in 0 .. 255 /\ Updated(byte, r) % 2 = byte % 2 /\ Updated(byte, r) \div 4 = v
      BY <2>2, <2>3
  <2> QED BY <1>0, <1>2, <2>2, <2>4
<1> QED BY <1>1, <1>2 DEF LpiRequests

\* The banks and the owners of interrupts.
LEMMA InterruptFacts ==
    ASSUME NEW d \in Drivers, NEW i \in Registers(d)
    PROVE  /\ Bank(i) \in Banks /\ i \in {"private", "shared"} \X Drivers
           /\ \A e \in Drivers : i \in Registers(e) => e = d
BY DEF Private, Shared, Registers, Bank, Banks

LEMMA OwnerOfInterrupt ==
    ASSUME NEW i \in {"private", "shared"} \X Drivers
    PROVE  \E d \in Drivers : i \in Registers(d)
BY DEF Private, Shared, Registers

LEMMA IInvInit ==
    ASSUME Nobody \notin Drivers, Init
    PROVE  IInv
<1>1. RegistersInv
    BY DEF Init, RegistersInv, Target, Registers, Private, Shared, Bank, Banks
<1>2. LpiTypes
  <2>1. queue \in Seq([invalidate : SUBSET Drivers])
      BY DEF Init, ItsInit
  <2>2. wanted \in [Drivers -> Wishes]
      BY DEF Init, Wishes
  <2> QED BY <2>1, <2>2 DEF Init, LpiTypes, NotCached
<1>3. CacheInv
    BY DEF Init, ItsInit, CacheInv
<1>4. BytesInv
    BY DEF Init, BytesInv, ByteIs, EnableBit, PriorityBits, Lift
<1>5. HandlersInv
    BY DEF Init, HandlersInv, HandlerStays, Readers, NoHandler
<1> QED BY <1>1, <1>2, <1>3, <1>4, <1>5 DEF IInv, LpiInv, Init
-----------------------------------------------------------------------------
(* The registers *)

LEMMA WriteEnableKeeps ==
    ASSUME RegistersInv, NEW d \in Drivers, NEW i \in Registers(d), NEW on \in BOOLEAN, WriteEnable(d, i, on)
    PROVE  RegistersInv'
<1>1. /\ pc[d] = "idle" /\ pc' = [pc EXCEPT ![d] = "rwp"]
      /\ request' = [request EXCEPT ![d] = <<i, on>>]
      /\ pending' = [pending EXCEPT ![Bank(i)] = {w \in @ : w[1] # i} \cup {<<i, on>>}]
      /\ UNCHANGED <<enabled, wanted_on>>
    BY DEF WriteEnable, Goto
<1>2. /\ Bank(i) \in Banks /\ i \in {"private", "shared"} \X Drivers
      /\ \A e \in Drivers : i \in Registers(e) => e = d
    BY InterruptFacts
<1>3. /\ pc' \in [Drivers -> {"idle", "rwp"}] /\ DOMAIN request' = Drivers
      /\ pc'[d] = "rwp" /\ request'[d] = <<i, on>>
      /\ \A e \in Drivers : e # d => pc'[e] = pc[e] /\ request'[e] = request[e]
    BY <1>1 DEF RegistersInv
<1>4. /\ pending' \in [Banks -> SUBSET (({"private", "shared"} \X Drivers) \X BOOLEAN)]
      /\ \A b \in Banks : \A w \in pending'[b] : w \in pending[b] \/ (b = Bank(i) /\ w = <<i, on>>)
    BY <1>1, <1>2 DEF RegistersInv
<1>5. /\ \A x : <<i, x>> \in pending'[Bank(i)] <=> x = on
      /\ \A b \in Banks : \A k, x : k # i => (<<k, x>> \in pending'[b] <=> <<k, x>> \in pending[b])
    BY <1>1, <1>2 DEF RegistersInv
<1>6. \A b \in Banks : \A w \in pending'[b] : Bank(w[1]) = b
    BY <1>4 DEF RegistersInv
<1>7. \A e \in Drivers : pc'[e] = "rwp" => request'[e] \in Registers(e) \X BOOLEAN
  <2>1. \A e \in Drivers : pc[e] = "rwp" => request[e] \in Registers(e) \X BOOLEAN
      BY DEF RegistersInv
  <2>2. request'[d] \in Registers(d) \X BOOLEAN
      BY <1>3
  <2> QED BY <1>3, <2>1, <2>2
<1>8. ASSUME NEW e \in Drivers, NEW k \in Registers(e)
      PROVE  /\ <<k, FALSE>> \in pending'[Bank(k)] => pc'[e] = "rwp" /\ request'[e] = <<k, FALSE>>
             /\ <<k, TRUE>> \in pending'[Bank(k)] => Target(e, k)'
             /\ Target(e, k)' => k \in enabled' \/ <<k, TRUE>> \in pending'[Bank(k)]
             /\ ~Target(e, k)' => k \notin enabled' \/ <<k, FALSE>> \in pending'[Bank(k)]
  <2>1. CASE k = i
    <3>1. e = d
        BY <1>2, <2>1
    <3>2. CASE on = TRUE
      <4>1. /\ request'[d] = <<i, TRUE>> /\ request'[d][1] = i
            /\ <<i, TRUE>> \in pending'[Bank(i)] /\ <<i, FALSE>> \notin pending'[Bank(i)]
        <5>1. request'[d] = <<i, TRUE>> /\ request'[d][1] = i
            BY <1>3, <3>2
        <5>2. <<i, TRUE>> \in pending'[Bank(i)]
            BY <1>5, <3>2
        <5>3. <<i, FALSE>> \in pending'[Bank(i)] <=> FALSE = on
            BY <1>5, Zenon
        <5>4. FALSE # TRUE
            OBVIOUS
        <5>5. <<i, FALSE>> \notin pending'[Bank(i)]
            BY <5>3, <5>4, <3>2, Zenon
        <5> QED BY <5>1, <5>2, <5>5
      <4>2. Target(d, i)'
          BY <1>3, <4>1 DEF Target
      <4> QED BY <2>1, <3>1, <4>1, <4>2
    <3>3. CASE on = FALSE
      <4>1. /\ request'[d] = <<i, FALSE>> /\ request'[d][1] = i
            /\ <<i, FALSE>> \in pending'[Bank(i)] /\ <<i, TRUE>> \notin pending'[Bank(i)]
        <5>1. request'[d] = <<i, FALSE>> /\ request'[d][1] = i
          <6>1. request'[d] = <<i, FALSE>>
              BY <1>3, <3>3, Zenon
          <6> QED BY <6>1
        <5>2. <<i, FALSE>> \in pending'[Bank(i)]
            BY <1>5, <3>3
        <5>3. <<i, TRUE>> \in pending'[Bank(i)] <=> TRUE = on
            BY <1>5, Zenon
        <5>4. TRUE # FALSE
            OBVIOUS
        <5>5. <<i, TRUE>> \notin pending'[Bank(i)]
            BY <5>3, <5>4, <3>3, Zenon
        <5> QED BY <5>1, <5>2, <5>5
      <4>2. ~Target(d, i)'
          BY <1>3, <4>1 DEF Target
      <4> QED BY <1>3, <2>1, <3>1, <4>1, <4>2
    <3> QED BY <3>2, <3>3
  <2>2. CASE k # i
    <3>1. Bank(k) \in Banks
        BY InterruptFacts
    <3>2. Target(e, k)' <=> Target(e, k)
        BY <1>1, <1>3, <2>2 DEF Target
    <3>3. pc[e] = "rwp" => e # d
        BY <1>1
    <3> QED BY <1>1, <1>3, <1>5, <2>2, <3>1, <3>2, <3>3 DEF RegistersInv
  <2> QED BY <2>1, <2>2
<1> QED BY <1>3, <1>4, <1>6, <1>7, <1>8 DEF RegistersInv

LEMMA WaitForRwpKeeps ==
    ASSUME RegistersInv, NEW d \in Drivers, WaitForRwp(d)
    PROVE  RegistersInv'
<1> DEFINE i == request[d][1]
<1>1. /\ pc[d] = "rwp" /\ pc' = [pc EXCEPT ![d] = "idle"]
      /\ wanted_on' = IF request[d][2] THEN wanted_on \cup {i} ELSE wanted_on \ {i}
      /\ request' = [request EXCEPT ![d] = Idle]
      /\ UNCHANGED <<enabled, pending>>
      /\ \A w \in pending[Bank(i)] : w[2]
    BY DEF WaitForRwp, Goto, RegisterWritePending
<1>2. request[d] \in Registers(d) \X BOOLEAN /\ i \in Registers(d) /\ request[d] = <<i, request[d][2]>>
    BY <1>1 DEF RegistersInv
<1>3. \A e \in Drivers : i \in Registers(e) => e = d
    BY <1>2, InterruptFacts
<1>4. /\ pc' \in [Drivers -> {"idle", "rwp"}] /\ DOMAIN request' = Drivers
      /\ pc'[d] = "idle" /\ \A e \in Drivers : e # d => pc'[e] = pc[e] /\ request'[e] = request[e]
    BY <1>1 DEF RegistersInv
<1>5. i \in wanted_on' <=> request[d] = <<i, TRUE>>
  <2>1. CASE request[d][2] = TRUE
      BY <1>1, <1>2, <2>1
  <2>2. CASE request[d][2] = FALSE
    <3>1. request[d] = <<i, FALSE>> /\ i \notin wanted_on'
        BY <1>1, <1>2, <2>2
    <3>2. <<i, FALSE>> # <<i, TRUE>>
        OBVIOUS
    <3> QED BY <3>1, <3>2
  <2> QED BY <1>2, <2>1, <2>2
<1>6. \A k : k # i => (k \in wanted_on' <=> k \in wanted_on)
    BY <1>1
<1>7. ASSUME NEW e \in Drivers, NEW k \in Registers(e)
      PROVE  /\ <<k, FALSE>> \in pending'[Bank(k)] => pc'[e] = "rwp" /\ request'[e] = <<k, FALSE>>
             /\ Target(e, k)' <=> Target(e, k)
  <2>1. Target(e, k)' <=> Target(e, k)
    <3>1. CASE e = d /\ k = i
        BY <1>1, <1>4, <1>5, <3>1 DEF Target
    <3>2. CASE ~(e = d /\ k = i)
      <4>1. k # i
          BY <1>3, <3>2
      <4> QED BY <1>1, <1>4, <1>6, <4>1 DEF Target
    <3> QED BY <3>1, <3>2
  <2>2. ASSUME <<k, FALSE>> \in pending[Bank(k)] PROVE pc'[e] = "rwp" /\ request'[e] = <<k, FALSE>>
    <3>1. pc[e] = "rwp" /\ request[e] = <<k, FALSE>>
        BY <2>2 DEF RegistersInv
    <3>2. SUFFICES ASSUME e = d PROVE FALSE
        BY <1>4, <3>1
    <3>3. k = i
        BY <3>1, <3>2
    <3>4. <<k, FALSE>>[2]
        BY <1>1, <2>2, <3>3
    <3> QED BY <3>4
  <2> QED BY <1>1, <2>1, <2>2
<1>8. \A e \in Drivers : pc'[e] = "rwp" => request'[e] \in Registers(e) \X BOOLEAN
  <2>1. \A e \in Drivers : pc[e] = "rwp" => request[e] \in Registers(e) \X BOOLEAN
      BY DEF RegistersInv
  <2>2. pc'[d] # "rwp"
      BY <1>4
  <2> QED BY <1>4, <2>1, <2>2
<1> QED BY <1>1, <1>4, <1>7, <1>8 DEF RegistersInv

LEMMA TakesEffectKeeps ==
    ASSUME RegistersInv, NEW b \in Banks, TakesEffect(b)
    PROVE  RegistersInv'
<1>1. PICK w \in pending[b] :
         /\ pending' = [pending EXCEPT ![b] = @ \ {w}]
         /\ enabled' = IF w[2] THEN enabled \cup {w[1]} ELSE enabled \ {w[1]}
         /\ UNCHANGED <<pc, request, wanted_on>>
    BY DEF TakesEffect
<1> DEFINE i == w[1]
<1>2. /\ Bank(i) = b /\ i \in {"private", "shared"} \X Drivers /\ w[2] \in BOOLEAN /\ w = <<i, w[2]>>
    BY <1>1 DEF RegistersInv
<1>3. PICK d \in Drivers : i \in Registers(d)
    BY <1>2, OwnerOfInterrupt
<1>4. /\ pending' \in [Banks -> SUBSET (({"private", "shared"} \X Drivers) \X BOOLEAN)]
      /\ \A c \in Banks : pending'[c] \subseteq pending[c]
      /\ \A c \in Banks : \A k, x : k # i => (<<k, x>> \in pending'[c] <=> <<k, x>> \in pending[c])
    BY <1>1, <1>2 DEF RegistersInv
<1>5. \A e \in Drivers : \A k \in Registers(e) : Target(e, k)' <=> Target(e, k)
    BY <1>1 DEF Target
<1>6. w[2] <=> Target(d, i)
  <2>1. CASE w[2] = TRUE
    <3>1. <<i, TRUE>> \in pending[Bank(i)]
        BY <1>2, <2>1
    <3> QED BY <1>3, <2>1, <3>1 DEF RegistersInv
  <2>2. CASE w[2] = FALSE
    <3>1. <<i, FALSE>> \in pending[Bank(i)]
        BY <1>2, <2>2
    <3>2. pc[d] = "rwp" /\ request[d] = <<i, FALSE>>
        BY <1>3, <3>1 DEF RegistersInv
    <3> QED BY <2>2, <3>2 DEF Target
  <2> QED BY <1>2, <2>1, <2>2
<1>7. i \in enabled' <=> Target(d, i)
    BY <1>1, <1>6
<1>8. \A k : k # i => (k \in enabled' <=> k \in enabled)
    BY <1>1
<1>9. ASSUME NEW e \in Drivers, NEW k \in Registers(e)
      PROVE  /\ <<k, FALSE>> \in pending'[Bank(k)] => pc'[e] = "rwp" /\ request'[e] = <<k, FALSE>>
             /\ <<k, TRUE>> \in pending'[Bank(k)] => Target(e, k)'
             /\ Target(e, k)' => k \in enabled' \/ <<k, TRUE>> \in pending'[Bank(k)]
             /\ ~Target(e, k)' => k \notin enabled' \/ <<k, FALSE>> \in pending'[Bank(k)]
  <2>1. Bank(k) \in Banks
      BY InterruptFacts
  <2>2. /\ <<k, FALSE>> \in pending'[Bank(k)] => pc'[e] = "rwp" /\ request'[e] = <<k, FALSE>>
        /\ <<k, TRUE>> \in pending'[Bank(k)] => Target(e, k)'
      BY <1>1, <1>4, <1>5, <2>1 DEF RegistersInv
  <2>3. CASE k = i
    <3>1. e = d
        BY <1>3, <2>3, InterruptFacts
    <3> QED BY <1>5, <1>7, <2>2, <2>3, <3>1
  <2>4. CASE k # i
      BY <1>4, <1>5, <1>8, <2>1, <2>2, <2>4 DEF RegistersInv
  <2> QED BY <2>3, <2>4
<1>10. \A c \in Banks : \A x \in pending'[c] : Bank(x[1]) = c
    BY <1>4 DEF RegistersInv
<1> QED BY <1>1, <1>4, <1>9, <1>10 DEF RegistersInv
-----------------------------------------------------------------------------
(* The property table *)

LEMMA AppendFacts ==
    ASSUME NEW S, NEW q \in Seq(S), NEW x \in S
    PROVE  /\ Append(q, x) \in Seq(S) /\ Append(q, x) # <<>>
           /\ Append(q, x)[Len(Append(q, x))] = x
    OBVIOUS

LEMMA EmptyFacts ==
    ASSUME NEW S, NEW q \in Seq(S)
    PROVE  q = <<>> <=> Len(q) = 0
    OBVIOUS

LEMMA TailFacts ==
    ASSUME NEW S, NEW q \in Seq(S), q # <<>>
    PROVE  /\ Head(q) \in S /\ Tail(q) \in Seq(S)
           /\ IF Len(q) = 1 THEN Tail(q) = <<>> /\ Head(q) = q[Len(q)]
              ELSE Tail(q) # <<>> /\ Tail(q)[Len(Tail(q))] = q[Len(q)]
<1>1. Len(q) \in Nat \ {0} /\ Len(Tail(q)) = Len(q) - 1
    OBVIOUS
<1>2. Head(q) \in S /\ Tail(q) \in Seq(S) /\ Head(q) = q[1]
    OBVIOUS
<1>3. \A i \in 1 .. Len(q) - 1 : Tail(q)[i] = q[i + 1]
    BY <1>1
<1>4. CASE Len(q) = 1
  <2>1. Len(Tail(q)) = 0
      BY <1>1, <1>4
  <2> DEFINE t == Tail(q)
  <2>2. t \in Seq(S) /\ Len(t) = 0
      BY <1>2, <2>1
  <2> HIDE DEF t
  <2>3. t = <<>>
      BY <2>2, EmptyFacts
  <2> QED BY <1>2, <1>4, <2>3 DEF t
<1>5. CASE Len(q) # 1
  <2>1. Len(q) - 1 \in 1 .. Len(q) - 1
      BY <1>1, <1>5
  <2>2. Tail(q)[Len(q) - 1] = q[Len(q)]
      BY <1>1, <1>3, <2>1
  <2>3. Tail(q) # <<>>
      BY <1>1, <1>2, <1>5, EmptyFacts
  <2> QED BY <1>1, <1>2, <1>5, <2>2, <2>3
<1> QED BY <1>4, <1>5


\* A step that pushes a command, or ends a push.
LEMMA PushStep ==
    ASSUME Nobody \notin Drivers, LpiInv, NEW d \in Drivers,
           NEW to \in {"idle", "inv_sent", "sync", "sync_sent"}, pc' = [pc EXCEPT ![d] = to],
           UNCHANGED <<prop, old, wanted, request, cached, events>>,
           queue' \in Seq([invalidate : SUBSET Drivers]),
           pusher \in {Nobody, d},
           pusher' = IF to \in {"inv_sent", "sync_sent"} THEN d ELSE Nobody,
           confirmed' \ {d} \subseteq confirmed,
           d \in confirmed' => Fresh(d),
           d \in events /\ to \in {"sync", "sync_sent"} => Fresh(d),
           to = "inv_sent" => queue' # <<>> /\ d \in queue'[Len(queue')].invalidate
    PROVE  LpiInv'
<1>1. /\ pc' \in [Drivers -> {"idle", "write", "inv", "inv_sent", "sync", "sync_sent"}]
      /\ pc'[d] = to /\ \A e \in Drivers : e # d => pc'[e] = pc[e]
    BY DEF LpiInv, LpiTypes
<1>2. LpiTypes'
    BY <1>1 DEF LpiInv, LpiTypes
<1>3. BytesInv'
    BY <1>1 DEF LpiInv, BytesInv
<1>4. \A e \in Drivers : Fresh(e)' <=> Fresh(e)
    BY DEF Fresh
<1>5. \A e \in Drivers : e # d => pc[e] \notin {"inv_sent", "sync_sent"}
    BY DEF LpiInv, CacheInv
<1>6. \A e \in Drivers : pc'[e] \in {"inv_sent", "sync_sent"} <=> pusher' = e
    BY <1>1, <1>5
<1>7. \A e \in Drivers : e \in confirmed' => Fresh(e)'
    BY <1>4 DEF LpiInv, CacheInv
<1>8. \A e \in Drivers : e \in events' /\ pc'[e] \in {"sync", "sync_sent"} => Fresh(e)'
    BY <1>1, <1>4 DEF LpiInv, CacheInv
<1>9. \A e \in Drivers : pc'[e] = "inv_sent" => queue' # <<>> /\ e \in queue'[Len(queue')].invalidate
    BY <1>1, <1>5
<1> QED BY <1>2, <1>3, <1>6, <1>7, <1>8, <1>9 DEF LpiInv, CacheInv

LEMMA PushFacts ==
    ASSUME LpiTypes, NEW d, NEW S \in SUBSET Drivers, Push(d, [invalidate |-> S])
    PROVE  /\ pusher = Nobody /\ pusher' = d
           /\ queue' \in Seq([invalidate : SUBSET Drivers])
           /\ queue' # <<>> /\ queue'[Len(queue')].invalidate = S
<1>1. queue' = Append(queue, [invalidate |-> S]) /\ pusher = Nobody /\ pusher' = d
    BY DEF Push
<1>2. [invalidate |-> S] \in [invalidate : SUBSET Drivers] /\ queue \in Seq([invalidate : SUBSET Drivers])
    BY DEF LpiTypes
<1>3. queue' \in Seq([invalidate : SUBSET Drivers]) /\ queue' # <<>> /\ queue'[Len(queue')] = [invalidate |-> S]
    BY <1>1, <1>2, AppendFacts
<1>4. [invalidate |-> S].invalidate = S
    OBVIOUS
<1> QED BY <1>1, <1>3, <1>4, Zenon

LEMMA PushesKeep ==
    ASSUME Nobody \notin Drivers, LpiInv, NEW d \in Drivers,
           PushInvall(d) \/ PushInv(d) \/ InvOk(d) \/ PushSync(d) \/ SyncOk(d) \/ UpdateFails(d)
    PROVE  LpiInv'
<1>1. /\ UNCHANGED <<prop, old, wanted, request, cached, events>>
      /\ confirmed' = confirmed \/ SyncOk(d)
    BY DEF PushInvall, PushInv, InvOk, PushSync, SyncOk, UpdateFails, registers, lpis
<1>2. /\ queue \in Seq([invalidate : SUBSET Drivers]) /\ LpiTypes
      /\ d \in confirmed => Fresh(d)
      /\ d \in events /\ pc[d] \in {"sync", "sync_sent"} => Fresh(d)
      /\ d \in events /\ pc[d] = "inv_sent" => Fresh(d) \/ queue # <<>>
      /\ {d} \in SUBSET Drivers /\ {} \in SUBSET Drivers
    BY DEF LpiInv, LpiTypes, CacheInv
<1>3. CASE PushInvall(d) \/ PushInv(d)
  <2>1. pc' = [pc EXCEPT ![d] = "inv_sent"] /\ Push(d, [invalidate |-> {d}]) /\ confirmed' = confirmed
      BY <1>3 DEF PushInvall, PushInv, Goto, lpis
  <2>2. /\ pusher = Nobody /\ pusher' = d /\ queue' \in Seq([invalidate : SUBSET Drivers])
        /\ queue' # <<>> /\ queue'[Len(queue')].invalidate = {d}
      BY <1>2, <2>1, PushFacts
  <2> QED BY <1>1, <1>2, <2>1, <2>2, PushStep
<1>4. CASE InvOk(d)
  <2>1. /\ pc[d] = "inv_sent" /\ pc' = [pc EXCEPT ![d] = "sync"] /\ confirmed' = confirmed
        /\ pusher = d /\ queue = <<>> /\ pusher' = Nobody /\ queue' = queue
      BY <1>4 DEF InvOk, Goto, PushOk, lpis
  <2> QED BY <1>1, <1>2, <2>1, PushStep
<1>5. CASE PushSync(d)
  <2>1. /\ pc[d] = "sync" /\ pc' = [pc EXCEPT ![d] = "sync_sent"] /\ confirmed' = confirmed
        /\ Push(d, [invalidate |-> {}])
      BY <1>5 DEF PushSync, Goto, lpis
  <2>2. pusher = Nobody /\ pusher' = d /\ queue' \in Seq([invalidate : SUBSET Drivers])
      BY <1>2, <2>1, PushFacts
  <2> QED BY <1>1, <1>2, <2>1, <2>2, PushStep
<1>6. CASE SyncOk(d)
  <2>1. /\ pc[d] = "sync_sent" /\ pc' = [pc EXCEPT ![d] = "idle"]
        /\ confirmed' = confirmed \cup ({d} \cap events)
        /\ pusher = d /\ pusher' = Nobody /\ queue' = queue
      BY <1>6 DEF SyncOk, Goto, PushOk
  <2> QED BY <1>1, <1>2, <2>1, PushStep
<1>7. CASE UpdateFails(d)
  <2>1. pc' = [pc EXCEPT ![d] = "idle"] /\ confirmed' = confirmed /\ queue' = queue
      BY <1>7 DEF UpdateFails, Goto, PushFull, PushGivesUp, lpis
  <2>2. pusher \in {Nobody, d} /\ pusher' = Nobody
      BY <1>7 DEF UpdateFails, PushFull, PushGivesUp
  <2> QED BY <1>1, <1>2, <2>1, <2>2, PushStep
<1> QED BY <1>3, <1>4, <1>5, <1>6, <1>7

\* A step that leaves the queue and the caches alone.
LEMMA MemoryStep ==
    ASSUME LpiInv, LpiTypes', BytesInv', NEW d \in Drivers,
           UNCHANGED <<queue, pusher, cached>>,
           pc[d] \notin {"inv_sent", "sync", "sync_sent"}, pc'[d] \notin {"inv_sent", "sync", "sync_sent"},
           \A e \in Drivers : e # d => pc'[e] = pc[e] /\ prop'[e] = prop[e],
           confirmed' \subseteq confirmed, d \notin confirmed' \/ prop'[d] = prop[d],
           events' \ {d} \subseteq events
    PROVE  LpiInv'
<1>1. \A e \in Drivers : e # d => (Fresh(e)' <=> Fresh(e))
    BY DEF Fresh
<1>2. d \in confirmed' => Fresh(d)'
    BY DEF Fresh, LpiInv, CacheInv
<1>3. \A e \in Drivers : pc'[e] \in {"inv_sent", "sync_sent"} <=> pusher' = e
    BY DEF LpiInv, CacheInv
<1>4. \A e \in Drivers : e \in confirmed' => Fresh(e)'
    BY <1>1, <1>2 DEF LpiInv, CacheInv
<1>5. \A e \in Drivers : e \in events' /\ pc'[e] \in {"sync", "sync_sent"} => Fresh(e)'
    BY <1>1 DEF LpiInv, CacheInv
<1>6. \A e \in Drivers : e \in events' /\ pc'[e] = "inv_sent" =>
          Fresh(e)' \/ (queue' # <<>> /\ e \in queue'[Len(queue')].invalidate)
    BY <1>1 DEF LpiInv, CacheInv
<1> QED BY <1>3, <1>4, <1>5, <1>6 DEF LpiInv, CacheInv

LEMMA ReadPropKeeps ==
    ASSUME LpiInv, NEW d \in Drivers, NEW f, NEW v, [field |-> f, value |-> v] \in LpiRequests, ReadProp(d, f, v)
    PROVE  LpiInv'
<1>1. /\ pc[d] = "idle" /\ pc' = [pc EXCEPT ![d] = "write"]
      /\ request' = [request EXCEPT ![d] = [field |-> f, value |-> v]]
      /\ old' = [old EXCEPT ![d] = prop[d]]
      /\ UNCHANGED <<queue, pusher, prop, cached, events, wanted, confirmed>>
    BY DEF ReadProp, Goto, its
<1>2. /\ pc'[d] = "write" /\ request'[d] \in LpiRequests /\ old'[d] = prop[d]
      /\ \A e \in Drivers : e # d => pc'[e] = pc[e] /\ request'[e] = request[e] /\ old'[e] = old[e]
    BY <1>1 DEF LpiInv, LpiTypes
<1>3. LpiTypes'
    BY <1>1, <1>2 DEF LpiInv, LpiTypes
<1>4. BytesInv'
    BY <1>1, <1>2 DEF LpiInv, BytesInv
<1> QED BY <1>1, <1>2, <1>3, <1>4, MemoryStep

LEMMA WritePropKeeps ==
    ASSUME Priorities \subseteq 0 .. 255, LpiInv, NEW d \in Drivers, WriteProp(d)
    PROVE  LpiInv'
<1> DEFINE q == request[d]
           w == [wanted[d] EXCEPT ![q.field] = q.value]
<1>1. /\ pc[d] = "write" /\ pc' = [pc EXCEPT ![d] = IF d \in mapped THEN "inv" ELSE "idle"]
      /\ prop' = [prop EXCEPT ![d] = Updated(old[d], q)]
      /\ wanted' = [wanted EXCEPT ![d] = w]
      /\ confirmed' = confirmed \ {d}
      /\ old' = [old EXCEPT ![d] = 0]
      /\ request' = [request EXCEPT ![d] = Idle]
      /\ UNCHANGED <<queue, pusher, cached, events>>
    BY DEF WriteProp, Goto, its
<1>2. /\ q \in LpiRequests /\ old[d] \in 0 .. 255 /\ old[d] = prop[d]
      /\ wanted[d] \in Wishes /\ ByteIs(prop[d], wanted[d])
    BY <1>1 DEF LpiInv, LpiTypes, BytesInv
<1>3. /\ Updated(old[d], q) \in 0 .. 255
      /\ q.field = "enabled" => /\ EnableBit(Updated(old[d], q)) = 1 <=> q.value
                                /\ PriorityBits(Updated(old[d], q)) = PriorityBits(prop[d])
      /\ q.field = "priority" => /\ EnableBit(Updated(old[d], q)) = EnableBit(prop[d])
                                 /\ PriorityBits(Updated(old[d], q)) = q.value \div 4
  <2>1. PICK y \in 0 .. 255 : y = old[d] /\ y = prop[d]
      BY <1>2
  <2>2. PICK r \in LpiRequests : r = q
      BY <1>2
  <2>3. /\ Updated(y, r) \in 0 .. 255
        /\ r.field = "enabled" => /\ EnableBit(Updated(y, r)) = 1 <=> r.value
                                  /\ PriorityBits(Updated(y, r)) = PriorityBits(y)
        /\ r.field = "priority" => /\ EnableBit(Updated(y, r)) = EnableBit(y)
                                   /\ PriorityBits(Updated(y, r)) = r.value \div 4
      BY ByteFacts
  <2> QED BY <2>1, <2>2, <2>3
<1>4. /\ w \in Wishes /\ q.field \in {"enabled", "priority"}
      /\ q.field = "enabled" => w.enabled = q.value /\ w.priority = wanted[d].priority
      /\ q.field = "priority" => w.enabled = wanted[d].enabled /\ w.priority = q.value
    BY <1>2 DEF LpiRequests, Wishes
<1>5. ByteIs(Updated(old[d], q), w)
  <2>1. CASE q.field = "enabled"
      BY <1>2, <1>3, <1>4, <2>1 DEF ByteIs
  <2>2. CASE q.field = "priority"
      BY <1>2, <1>3, <1>4, <2>2 DEF ByteIs
  <2> QED BY <1>4, <2>1, <2>2
<1>6. /\ pc'[d] \in {"inv", "idle"} /\ prop'[d] = Updated(old[d], q) /\ wanted'[d] = w
      /\ \A e \in Drivers : e # d => /\ pc'[e] = pc[e] /\ request'[e] = request[e] /\ old'[e] = old[e]
                                     /\ prop'[e] = prop[e] /\ wanted'[e] = wanted[e]
    BY <1>1 DEF LpiInv, LpiTypes
<1>7. LpiTypes'
  <2>1. wanted' \in [Drivers -> Wishes]
      BY <1>1, <1>4 DEF LpiInv, LpiTypes
  <2>2. prop' \in [Drivers -> 0 .. 255] /\ old' \in [Drivers -> 0 .. 255]
    <3>1. 0 \in 0 .. 255
        OBVIOUS
    <3> QED BY <1>1, <1>3, <3>1 DEF LpiInv, LpiTypes
  <2>3. /\ pc' \in [Drivers -> {"idle", "write", "inv", "inv_sent", "sync", "sync_sent"}]
        /\ DOMAIN request' = Drivers
      BY <1>1 DEF LpiInv, LpiTypes
  <2>4. \A e \in Drivers : pc'[e] = "write" => request'[e] \in LpiRequests
      BY <1>6 DEF LpiInv, LpiTypes
  <2> QED BY <1>1, <2>1, <2>2, <2>3, <2>4 DEF LpiInv, LpiTypes
<1>8. BytesInv'
  <2>1. ASSUME NEW e \in Drivers
        PROVE  ByteIs(prop'[e], wanted'[e]) /\ (pc'[e] = "write" => old'[e] = prop'[e])
    <3>1. CASE e = d
        BY <1>5, <1>6, <3>1
    <3>2. CASE e # d
        BY <1>6, <3>2 DEF LpiInv, BytesInv
    <3> QED BY <3>1, <3>2
  <2> QED BY <2>1 DEF BytesInv, ByteIs
<1> QED BY <1>1, <1>6, <1>7, <1>8, MemoryStep

LEMMA EventsKeep ==
    ASSUME LpiInv, NEW d \in Drivers, MapEvent(d) \/ UnmapEvent(d) \/ UnmapFails(d)
    PROVE  LpiInv'
<1>1. /\ pc[d] = "idle" /\ events' \ {d} \subseteq events
      /\ UNCHANGED <<queue, pusher, pc, request, prop, cached, old, wanted, confirmed>>
    BY DEF MapEvent, UnmapEvent, UnmapFails, its
<1>2. LpiTypes' /\ BytesInv'
    BY <1>1 DEF LpiInv, LpiTypes, BytesInv
<1> QED BY <1>1, <1>2, MemoryStep

LEMMA CacheFillKeeps ==
    ASSUME LpiInv, NEW d \in Drivers, CacheFill(d)
    PROVE  LpiInv'
<1>1. /\ cached' = [cached EXCEPT ![d] = prop[d]]
      /\ UNCHANGED <<queue, pusher, pc, request, prop, events, old, wanted, confirmed>>
    BY DEF CacheFill, its
<1>2. LpiTypes' /\ BytesInv'
  <2>1. cached' \in [Drivers -> -1 .. 255]
    <3>1. prop \in [Drivers -> 0 .. 255] /\ cached \in [Drivers -> -1 .. 255]
        BY DEF LpiInv, LpiTypes
    <3>2. prop[d] \in -1 .. 255
        BY <3>1
    <3> QED BY <1>1, <3>1, <3>2
  <2>2. LpiTypes'
      BY <1>1, <2>1 DEF LpiInv, LpiTypes
  <2>3. BytesInv'
      BY <1>1 DEF LpiInv, BytesInv
  <2> QED BY <2>2, <2>3
<1>3. \A e \in Drivers : Fresh(e) => Fresh(e)'
    BY <1>1 DEF Fresh, LpiInv, LpiTypes
<1>4. Fresh(d)'
    BY <1>1 DEF Fresh, LpiInv, LpiTypes
<1> QED BY <1>1, <1>2, <1>3, <1>4 DEF LpiInv, CacheInv

LEMMA ItsExecutesKeeps ==
    ASSUME LpiInv, ItsExecutes
    PROVE  LpiInv'
<1>1. /\ UNCHANGED <<pusher, pc, request, prop, events, old, wanted, confirmed>>
      /\ queue # <<>> /\ queue' = Tail(queue)
      /\ cached' = [d \in Drivers |-> IF d \in Head(queue).invalidate \cap events THEN NotCached ELSE cached[d]]
    BY DEF ItsExecutes, ItsTakes
<1>2. queue \in Seq([invalidate : SUBSET Drivers])
    BY DEF LpiInv, LpiTypes
<1>3. /\ queue' \in Seq([invalidate : SUBSET Drivers])
      /\ Len(queue) = 1 => Head(queue) = queue[Len(queue)]
      /\ Len(queue) # 1 => queue' # <<>> /\ queue'[Len(queue')] = queue[Len(queue)]
    BY <1>1, <1>2, TailFacts
<1>4. \A d \in Drivers : /\ cached'[d] \in {NotCached, cached[d]}
                         /\ d \in Head(queue).invalidate \cap events => cached'[d] = NotCached
    BY <1>1
<1>5. \A d \in Drivers : Fresh(d) => Fresh(d)'
    BY <1>1, <1>4 DEF Fresh
<1>6. cached' \in [Drivers -> -1 .. 255]
    BY <1>1 DEF LpiInv, LpiTypes, NotCached
<1>7. LpiTypes' /\ BytesInv'
    BY <1>1, <1>3, <1>6 DEF LpiInv, LpiTypes, BytesInv
<1>8. ASSUME NEW d \in Drivers, d \in events, pc[d] = "inv_sent"
      PROVE  Fresh(d)' \/ (queue' # <<>> /\ d \in queue'[Len(queue')].invalidate)
  <2>1. CASE Fresh(d)
      BY <1>5, <2>1
  <2>2. CASE d \in queue[Len(queue)].invalidate /\ Len(queue) = 1
      BY <1>3, <1>4, <1>8, <2>2 DEF Fresh
  <2>3. CASE d \in queue[Len(queue)].invalidate /\ Len(queue) # 1
      BY <1>3, <2>3
  <2> QED BY <1>8, <2>1, <2>2, <2>3 DEF LpiInv, CacheInv
<1> QED BY <1>1, <1>5, <1>7, <1>8 DEF LpiInv, CacheInv

LEMMA LpiNextKeeps ==
    ASSUME Nobody \notin Drivers, Priorities \subseteq 0 .. 255, LpiInv, LpiNext
    PROVE  LpiInv'
<1>1. CASE ItsExecutes
    BY <1>1, ItsExecutesKeeps
<1>2. ASSUME NEW d \in Drivers, LpiCall(d) PROVE LpiInv'
  <2>1. ASSUME NEW on \in BOOLEAN, ReadProp(d, "enabled", on) PROVE LpiInv'
    <3>1. [field |-> "enabled", value |-> on] \in LpiRequests
        BY DEF LpiRequests
    <3> QED BY <2>1, <3>1, ReadPropKeeps
  <2>2. ASSUME NEW p \in Priorities, ReadProp(d, "priority", p) PROVE LpiInv'
    <3>1. [field |-> "priority", value |-> p] \in LpiRequests
        BY DEF LpiRequests
    <3> QED BY <2>2, <3>1, ReadPropKeeps
  <2>3. CASE WriteProp(d)
      BY <2>3, WritePropKeeps
  <2>4. CASE CacheFill(d)
      BY <2>4, CacheFillKeeps
  <2>5. CASE PushInvall(d) \/ PushInv(d) \/ InvOk(d) \/ PushSync(d) \/ SyncOk(d) \/ UpdateFails(d)
      BY <2>5, PushesKeep
  <2>6. CASE MapEvent(d) \/ UnmapEvent(d) \/ UnmapFails(d)
      BY <2>6, EventsKeep
  <2> QED BY <1>2, <2>1, <2>2, <2>3, <2>4, <2>5, <2>6 DEF LpiCall
<1> QED BY <1>1, <1>2 DEF LpiNext
-----------------------------------------------------------------------------
(* The handlers *)

LEMMA HandlersNextKeeps ==
    ASSUME Nobody \notin Drivers, HandlersInv, HandlersNext
    PROVE  HandlersInv'
<1>1. PICK d \in Drivers : HandlersCall(d)
    BY DEF HandlersNext
<1>2. CASE running[d] = <<>> /\ RegisterHandler(d)
  <2>1. /\ writer = Nobody /\ Readers = {} /\ pc[d] = "idle" /\ pc' = [pc EXCEPT ![d] = "registering"]
        /\ writer' = d /\ UNCHANGED <<handlers, lpi_handlers, running>>
      BY <1>2 DEF RegisterHandler, Goto
  <2>2. \A e \in Drivers : pc[e] # "registering"
      BY <2>1 DEF HandlersInv
  <2>3. HandlerStays'
      BY <2>1 DEF HandlerStays, Readers
  <2> QED BY <2>1, <2>2, <2>3 DEF HandlersInv
<1>3. CASE running[d] = <<>> /\ HandlerSet(d)
  <2>1. /\ pc[d] = "registering" /\ pc' = [pc EXCEPT ![d] = "idle"]
        /\ handlers' = [handlers EXCEPT ![d] = IF @ = 1 THEN 2 ELSE 1]
        /\ writer' = Nobody /\ UNCHANGED <<lpi_handlers, running>>
      BY <1>3 DEF HandlerSet, Goto
  <2>2. writer = d /\ Readers = {}
      BY <2>1 DEF HandlersInv, HandlerStays
  <2>3. HandlerStays'
      BY <2>1, <2>2 DEF HandlerStays, Readers
  <2>4. \A e \in Drivers : pc'[e] # "registering"
      BY <2>1, <2>2 DEF HandlersInv
  <2>5. pc' \in [Drivers -> {"idle", "registering", "lpi_writing", "panic", "stuck"}] /\ handlers' \in [Drivers -> 0 .. 2]
      BY <2>1 DEF HandlersInv
  <2> QED BY <2>1, <2>3, <2>4, <2>5 DEF HandlersInv
<1>4. CASE WriteLpiHandlers(d) \/ LpiHandlerSet(d) \/ LpiHandlerRemoved(d) \/ OnLpiStuck(d) \/ OnInterruptPanics(d)
  <2>1. /\ UNCHANGED <<handlers, writer, running>>
        /\ \E to \in {"idle", "lpi_writing", "stuck", "panic"} : pc' = [pc EXCEPT ![d] = to]
      BY <1>4 DEF WriteLpiHandlers, LpiHandlerSet, LpiHandlerRemoved, OnLpiStuck, OnInterruptPanics, Goto, tables
  <2>2. HandlerStays'
      BY <2>1 DEF HandlersInv, HandlerStays, Readers
  <2>3. lpi_handlers' \in [Drivers -> 0 .. 2]
      BY <1>4 DEF HandlersInv, WriteLpiHandlers, LpiHandlerSet, LpiHandlerRemoved, OnLpiStuck, OnInterruptPanics, tables, NoHandler
  <2> QED BY <2>1, <2>2, <2>3 DEF HandlersInv
<1>5. ASSUME NEW e \in Drivers, OnInterrupt(d, e) PROVE HandlersInv'
  <2>1. /\ running[d] = <<>> /\ writer = Nobody
        /\ running' = [running EXCEPT ![d] = <<"shared", e, handlers[e]>>]
        /\ UNCHANGED <<pc, handlers, lpi_handlers, writer>>
      BY <1>5 DEF OnInterrupt
  <2>2. /\ running' \in [Drivers -> {<<>>} \cup ({"shared", "lpi"} \X Drivers \X (0 .. 2))]
        /\ running'[d] = <<"shared", e, handlers[e]>> /\ \A c \in Drivers : c # d => running'[c] = running[c]
      BY <2>1 DEF HandlersInv
  <2>3. HandlerStays'
      BY <2>1, <2>2 DEF HandlersInv, HandlerStays, Readers
  <2> QED BY <2>1, <2>2, <2>3 DEF HandlersInv
<1>6. ASSUME NEW e \in Drivers, OnLpi(d, e) PROVE HandlersInv'
  <2>1. /\ running' = [running EXCEPT ![d] = <<"lpi", e, lpi_handlers[e]>>]
        /\ UNCHANGED <<pc, handlers, lpi_handlers, writer>>
      BY <1>6 DEF OnLpi
  <2>2. /\ running' \in [Drivers -> {<<>>} \cup ({"shared", "lpi"} \X Drivers \X (0 .. 2))]
        /\ running'[d] = <<"lpi", e, lpi_handlers[e]>> /\ \A c \in Drivers : c # d => running'[c] = running[c]
      BY <2>1 DEF HandlersInv
  <2>3. Readers' \subseteq Readers /\ \A c \in Readers' : running'[c] = running[c]
      BY <2>2 DEF Readers
  <2>4. HandlerStays'
      BY <2>1, <2>3 DEF HandlersInv, HandlerStays
  <2> QED BY <2>1, <2>2, <2>4 DEF HandlersInv
<1>7. CASE HandlerReturns(d)
  <2>1. running' = [running EXCEPT ![d] = <<>>] /\ UNCHANGED <<pc, handlers, lpi_handlers, writer>>
      BY <1>7 DEF HandlerReturns
  <2>2. /\ running' \in [Drivers -> {<<>>} \cup ({"shared", "lpi"} \X Drivers \X (0 .. 2))]
        /\ running'[d] = <<>> /\ \A c \in Drivers : c # d => running'[c] = running[c]
      BY <2>1 DEF HandlersInv
  <2>3. Readers' \subseteq Readers /\ \A c \in Readers' : running'[c] = running[c]
      BY <2>2 DEF Readers
  <2>4. HandlerStays'
      BY <2>1, <2>3 DEF HandlersInv, HandlerStays
  <2> QED BY <2>1, <2>2, <2>4 DEF HandlersInv
<1> QED BY <1>1, <1>2, <1>3, <1>4, <1>5, <1>6, <1>7 DEF HandlersCall
-----------------------------------------------------------------------------
LEMMA IInvNext ==
    ASSUME Nobody \notin Drivers, Priorities \subseteq 0 .. 255,
           IInv, [Next]_vars
    PROVE  IInv'
<1>1. CASE Next
  <2>1. part' = part
      BY <1>1 DEF Next
  <2>2. CASE part = "registers"
    <3>1. RegistersInv /\ RegistersNext
        BY <1>1, <2>2 DEF IInv, Next
    <3>2. RegistersInv'
        BY <3>1, WriteEnableKeeps, WaitForRwpKeeps, TakesEffectKeeps DEF RegistersNext, RegistersCall
    <3> QED BY <2>1, <2>2, <3>2 DEF IInv
  <2>3. CASE part = "lpi"
    <3>1. LpiInv /\ LpiNext
        BY <1>1, <2>3 DEF IInv, Next
    <3> QED BY <2>1, <2>3, <3>1, LpiNextKeeps DEF IInv
  <2>4. CASE part = "handlers"
    <3>1. HandlersInv /\ HandlersNext
        BY <1>1, <2>4 DEF IInv, Next
    <3> QED BY <2>1, <2>4, <3>1, HandlersNextKeeps DEF IInv
  <2> QED BY <2>2, <2>3, <2>4 DEF IInv
<1>2. CASE UNCHANGED vars
  <2>1. /\ UNCHANGED <<queue, pusher, part, pc, request, enabled, pending, wanted_on>>
        /\ UNCHANGED <<prop, cached, mapped, events, old, wanted, confirmed, handlers, lpi_handlers, writer, running>>
      BY <1>2 DEF vars, its, irqVars, registers, lpis, tables
  <2>2. ASSUME RegistersInv PROVE RegistersInv'
    <3>1. \A d, i : Target(d, i)' <=> Target(d, i)
        BY <2>1 DEF Target
    <3> QED BY <2>1, <2>2, <3>1 DEF RegistersInv
  <2>3. LpiInv => LpiInv'
      BY <2>1 DEF LpiInv, LpiTypes, CacheInv, BytesInv, Fresh
  <2>4. HandlersInv => HandlersInv'
      BY <2>1 DEF HandlersInv, HandlerStays, Readers
  <2> QED BY <2>1, <2>2, <2>3, <2>4 DEF IInv
<1> QED BY <1>1, <1>2

\* The invariant implies what is claimed.
LEMMA IInvImplies ==
    ASSUME IInv
    PROVE  IrqInv
<1>1. ASSUME RegistersInv PROVE EnabledAsAsked
  <2>1. ASSUME NEW d \in Drivers, pc[d] = "idle", NEW i \in Registers(d)
        PROVE  IF i \in wanted_on THEN i \in enabled \/ <<i, TRUE>> \in pending[Bank(i)]
               ELSE i \notin enabled /\ <<i, TRUE>> \notin pending[Bank(i)]
    <3>1. Target(d, i) <=> i \in wanted_on
        BY <2>1 DEF Target
    <3>2. <<i, FALSE>> \notin pending[Bank(i)]
        BY <1>1, <2>1 DEF RegistersInv
    <3> QED BY <1>1, <3>1, <3>2 DEF RegistersInv
  <2> QED BY <2>1 DEF EnabledAsAsked
<1>2. ASSUME LpiInv PROVE PropAsAsked
    BY <1>2 DEF LpiInv, CacheInv, BytesInv, PropAsAsked
<1>3. ASSUME HandlersInv PROVE HandlerStays
    BY <1>3 DEF HandlersInv
<1> QED BY <1>1, <1>2, <1>3 DEF IInv, IrqInv
=============================================================================
