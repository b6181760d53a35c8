------------------------------ MODULE ItsQueue ------------------------------
(***************************************************************************)
(* GicV3::push_cmd: cores put commands into a ring that the ITS reads.     *)
(* its_cmd_queue's lock is held for the whole of push_cmd, interrupts off. *)
(* The ITS (external) executes from CREADR to CWRITER and may stall on a   *)
(* command; writing CWRITER.Retry makes it try again.  A wait of MAX_SPINS *)
(* may end at any time.                                                    *)
(***************************************************************************)
EXTENDS Integers, Sequences

CONSTANTS CPUs,
          num_entries,    \* the slots of the ring
          MAX_RETRIES,
          MaxCmds         \* bound on the commands of each core

Slots == 0 .. num_entries - 1
Commands == CPUs \X (1 .. MaxCmds)

VARIABLES ring,           \* the commands in memory
          write_offset,   \* ItsCmdQueue.write_offset
          cwriter, creadr, stalled,
          executed,       \* the commands the ITS has executed
          count,          \* the commands each core has begun
          pc, retries, next,
          result          \* what push_cmd last returned to each core

vars == <<ring, write_offset, cwriter, creadr, stalled, executed, count, pc, retries, next, result>>

Nothing == <<>>

Init ==
    /\ ring = [s \in Slots |-> Nothing]
    /\ write_offset = 0 /\ cwriter = 0 /\ creadr = 0
    /\ stalled = FALSE
    /\ executed = <<>>
    /\ count = [c \in CPUs |-> 0]
    /\ pc = [c \in CPUs |-> "idle"]
    /\ retries = [c \in CPUs |-> 0]
    /\ next = [c \in CPUs |-> 0]
    /\ result = [c \in CPUs |-> "none"]

Goto(c, from, to) == pc[c] = from /\ pc' = [pc EXCEPT ![c] = to]
Cmd(c) == <<c, count[c]>>
Return(c, r) == result' = [result EXCEPT ![c] = r]
Locked == \E c \in CPUs : pc[c] # "idle"

\* The lock is taken and CREADR read.
Begin(c) ==
    /\ ~Locked
    /\ count[c] < MaxCmds
    /\ Goto(c, "idle", "check")
    /\ count' = [count EXCEPT ![c] = @ + 1]
    /\ retries' = [retries EXCEPT ![c] = 0]
    /\ next' = [next EXCEPT ![c] = (write_offset + 1) % num_entries]
    /\ Return(c, "none")
    /\ UNCHANGED <<ring, write_offset, cwriter, creadr, stalled, executed>>

\* Mutant: the ring is used to its last slot.
IsFullLate(c) == FALSE

IsFull(c) == next[c] = creadr

CommandQueueFull(c) ==
    /\ IsFull(c)
    /\ Goto(c, "check", "idle")
    /\ Return(c, "CommandQueueFull")
    /\ UNCHANGED <<ring, write_offset, cwriter, creadr, stalled, executed, count, retries, next>>

\* The command is written to memory.
Write(c) ==
    /\ ~IsFull(c)
    /\ Goto(c, "check", "publish")
    /\ ring' = [ring EXCEPT ![write_offset] = Cmd(c)]
    /\ UNCHANGED <<write_offset, cwriter, creadr, stalled, executed, count, retries, next, result>>

Publish(c) ==
    /\ Goto(c, "publish", "spin")
    /\ write_offset' = next[c]
    /\ cwriter' = next[c]
    /\ UNCHANGED <<ring, creadr, stalled, executed, count, retries, next, result>>

\* CREADR has reached the command's end.
Completed(c) == creadr = next[c]

SpinDone(c) ==
    /\ Completed(c)
    /\ Goto(c, "spin", "idle")
    /\ Return(c, "Ok")
    /\ UNCHANGED <<ring, write_offset, cwriter, creadr, stalled, executed, count, retries, next>>

SpinRetry(c) ==
    /\ stalled
    /\ pc[c] = "spin"
    /\ retries[c] < MAX_RETRIES
    /\ retries' = [retries EXCEPT ![c] = @ + 1]
    /\ stalled' = FALSE
    /\ UNCHANGED <<ring, write_offset, cwriter, creadr, executed, count, pc, next, result>>

HardwareStalled(c) ==
    /\ stalled
    /\ retries[c] = MAX_RETRIES
    /\ Goto(c, "spin", "idle")
    /\ Return(c, "HardwareStalled")
    /\ UNCHANGED <<ring, write_offset, cwriter, creadr, stalled, executed, count, retries, next>>

CommandTimeout(c) ==
    /\ ~Completed(c)
    /\ Goto(c, "spin", "idle")
    /\ Return(c, "CommandTimeout")
    /\ UNCHANGED <<ring, write_offset, cwriter, creadr, stalled, executed, count, retries, next>>

\* The ITS.
ItsExecutes ==
    /\ ~stalled /\ creadr # cwriter
    /\ executed' = Append(executed, ring[creadr])
    /\ creadr' = (creadr + 1) % num_entries
    /\ UNCHANGED <<ring, write_offset, cwriter, stalled, count, pc, retries, next, result>>

ItsStalls ==
    /\ ~stalled /\ creadr # cwriter
    /\ stalled' = TRUE
    /\ UNCHANGED <<ring, write_offset, cwriter, creadr, executed, count, pc, retries, next, result>>

Next ==
    \/ ItsExecutes \/ ItsStalls
    \/ \E c \in CPUs :
          \/ Begin(c) \/ CommandQueueFull(c) \/ Write(c) \/ Publish(c)
          \/ SpinDone(c) \/ SpinRetry(c) \/ HardwareStalled(c) \/ CommandTimeout(c)

Spec == Init /\ [][Next]_vars
-----------------------------------------------------------------------------
\* The commands between CREADR and CWRITER.
Waiting ==
    [k \in 1 .. (cwriter - creadr + num_entries) % num_entries |-> ring[(creadr + k - 1) % num_entries]]

\* The core whose command has been put into the ring and that waits for it.
Pusher ==
    IF \E c \in CPUs : pc[c] = "spin" THEN CHOOSE c \in CPUs : pc[c] = "spin" ELSE "nobody"

Its == INSTANCE ItsCommands
          WITH QueueLimit <- num_entries - 1, queue <- Waiting, pusher <- Pusher, fails <- TRUE

\* A step of ItsCommands, with what push_cmd then returns: nothing yet when it
\* is called, Ok only once the ITS has executed all there was.
ItsNext ==
    \/ \E c \in CPUs :
          \/ UNCHANGED <<Waiting, Pusher, executed>> /\ Return(c, "none")
          \/ Its!Push(c, Cmd(c)) /\ UNCHANGED <<executed, result>>
          \/ Its!PushFull /\ UNCHANGED executed /\ Return(c, "CommandQueueFull")
          \/ Its!PushOk(c) /\ UNCHANGED executed /\ Return(c, "Ok")
          \/ /\ Its!PushGivesUp(c) /\ UNCHANGED executed
             /\ Return(c, "CommandTimeout") \/ Return(c, "HardwareStalled")
    \/ Its!ItsTakes /\ executed' = Append(executed, Head(Waiting)) /\ UNCHANGED result

\* push_cmd is what the MSI tables, the translation tables and init() take it
\* for (ItsCommands): whatever stalls, timeouts and aborts, no command that
\* waits is overwritten, lost, executed twice or overtaken, and Ok means that
\* the caller's command, and all given up before it, have been executed.
ImplementsIts == Its!ItsInit /\ executed = <<>> /\ [][ItsNext]_<<Waiting, Pusher, executed, result>>
-----------------------------------------------------------------------------
TypeOK ==
    /\ ring \in [Slots -> Commands \cup {Nothing}]
    /\ {write_offset, cwriter, creadr} \subseteq Slots
    /\ stalled \in BOOLEAN
    /\ executed \in Seq(Commands \cup {Nothing})
    /\ count \in [CPUs -> 0 .. MaxCmds]
    /\ pc \in [CPUs -> {"idle", "check", "publish", "spin"}]
    /\ next \in [CPUs -> Slots]

\* One core is in push_cmd, and what it has read of the ring still holds,
\* although the ITS goes on; the ITS stalls only on a command.
RingInv ==
    /\ \A c, d \in CPUs : pc[c] # "idle" /\ pc[d] # "idle" => c = d
    /\ write_offset = cwriter
    /\ stalled => creadr # cwriter
    /\ \A c \in CPUs : pc[c] # "idle" => count[c] > 0
    /\ \A c \in CPUs : pc[c] \in {"check", "publish"} => next[c] = (write_offset + 1) % num_entries
    /\ \A c \in CPUs : pc[c] = "publish" => next[c] # creadr /\ ring[write_offset] = Cmd(c)
    /\ \A c \in CPUs : pc[c] = "spin" => next[c] = cwriter

IInv == TypeOK /\ RingInv
=============================================================================
