----------------------------- MODULE ItsCommands -----------------------------
(***************************************************************************)
(* push_cmd as its callers see it (ItsQueue is push_cmd itself): one core  *)
(* at a time, the lock's owner, adds a command and waits until the queue   *)
(* is empty; if `fails` the wait may also end with an error, and the       *)
(* command stays in the queue.  A command is a record with what its effect *)
(* on the ITS depends on.                                                  *)
(***************************************************************************)
EXTENDS Integers, Sequences

CONSTANT QueueLimit     \* the commands the ring can hold

VARIABLES queue,     \* the commands the ITS has not executed
          pusher,    \* the owner of its_cmd_queue's lock, or Nobody
          fails      \* whether commands may fail

its == <<queue, pusher, fails>>

Nobody == "nobody"

ItsInit == queue = <<>> /\ pusher = Nobody /\ fails \in BOOLEAN

Push(c, cmd) ==
    /\ pusher = Nobody
    /\ Len(queue) < QueueLimit
    /\ queue' = Append(queue, cmd)
    /\ pusher' = c
    /\ UNCHANGED fails

\* CommandQueueFull: push_cmd returns at once.
PushFull ==
    /\ pusher = Nobody
    /\ Len(queue) = QueueLimit
    /\ UNCHANGED <<queue, pusher, fails>>

PushOk(c) ==
    /\ pusher = c
    /\ queue = <<>>
    /\ pusher' = Nobody
    /\ UNCHANGED <<queue, fails>>

\* CommandTimeout or HardwareStalled.
PushGivesUp(c) ==
    /\ fails
    /\ pusher = c
    /\ queue # <<>>
    /\ pusher' = Nobody
    /\ UNCHANGED <<queue, fails>>

\* The ITS removes the next command, whose effect the caller states.
ItsTakes ==
    /\ queue # <<>>
    /\ queue' = Tail(queue)
    /\ UNCHANGED <<pusher, fails>>
=============================================================================
