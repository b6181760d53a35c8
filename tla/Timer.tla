------------------------------- MODULE Timer --------------------------------
(***************************************************************************)
(* The generic timer of one core (kernel/drivers/generic-timer): the       *)
(* writes of secondary_handle, which starts it, and of irq_current, which  *)
(* stops it on every interrupt and arms it again on the way out.  Both run *)
(* with the core's interrupts masked, but time goes on between two writes. *)
(*                                                                         *)
(* Every write of the control register sets all of it: set_masked clears   *)
(* ENABLE, enable and disable clear IMASK.                                 *)
(***************************************************************************)
EXTENDS Naturals, Sequences

CONSTANTS Frequencies,   \* CNTFRQ_EL0, 0 if the firmware has not set it
          Second,        \* nanoseconds in a second
          Nanos,         \* TIMER_DURATION, less than a second
          Largest,       \* u64::MAX
          LastTime       \* bound on the counter

VARIABLES ENABLE, IMASK, cval,   \* CNTV_CTL_EL0, CNTV_CVAL_EL0
          counter, freq,         \* CNTVCT_EL0, CNTFRQ_EL0
          deadline,              \* local to arm_after
          todo                   \* the writes and calls that are left

vars == <<ENABLE, IMASK, cval, counter, freq, deadline, todo>>

\* The timer's interrupt is asserted.
Line == ENABLE /\ ~IMASK /\ counter >= cval

None == Largest + 1
Checked(n) == IF n > Largest THEN None ELSE n

\* For a duration of less than a second.
to_ticks(ns, hz) == IF hz = 0 \/ Checked(ns * hz) = None THEN None ELSE (ns * hz) \div Second

\* Mutant: the old deadline stays.
disarm_keeps == <<"mask", "disable">>

disarm == <<"mask", "max", "disable">>
init_timer == disarm \o <<"unmask">>
timer_rearm == <<"unmask", "enable">>
timer_schedule == <<"count", "compare", "enable">>
secondary_handle == init_timer \o <<"enable_irq">> \o timer_rearm \o timer_schedule
irq_current(acknowledged) ==
    (IF acknowledged THEN disarm \o timer_rearm \o <<"eoi">> ELSE <<>>) \o timer_schedule

Init ==
    /\ ENABLE \in BOOLEAN /\ IMASK \in BOOLEAN /\ cval \in {0, Largest}
    /\ counter = 0
    /\ freq \in Frequencies
    /\ deadline = 0
    /\ todo = secondary_handle

Time ==
    /\ counter < LastTime
    /\ counter' = counter + 1
    /\ UNCHANGED <<ENABLE, IMASK, cval, freq, deadline, todo>>

Doing(op) == todo # <<>> /\ Head(todo) = op /\ todo' = Tail(todo)

Control ==
    /\ \/ Doing("mask") /\ ENABLE' = FALSE /\ IMASK' = TRUE
       \/ Doing("unmask") /\ ENABLE' = FALSE /\ IMASK' = FALSE
       \/ Doing("enable") /\ ENABLE' = TRUE /\ IMASK' = FALSE
       \/ Doing("disable") /\ ENABLE' = FALSE /\ IMASK' = FALSE
    /\ UNCHANGED <<cval, counter, freq, deadline>>

Compare ==
    /\ \/ Doing("max") /\ cval' = Largest
       \/ Doing("compare") /\ cval' = deadline
    /\ UNCHANGED <<ENABLE, IMASK, counter, freq, deadline>>

\* arm_after; timer_schedule drops its DurationTooLarge.
Deadline ==
    LET ticks == to_ticks(Nanos, freq)
        sum == IF ticks = None THEN None ELSE Checked(counter + ticks)
    IN /\ todo # <<>> /\ Head(todo) = "count"
       /\ IF sum = None THEN todo' = <<>> /\ UNCHANGED deadline
          ELSE todo' = Tail(todo) /\ deadline' = sum
       /\ UNCHANGED <<ENABLE, IMASK, cval, counter, freq>>

\* What concerns the interrupt controller.
Gic ==
    /\ Doing("enable_irq") \/ Doing("eoi")
    /\ UNCHANGED <<ENABLE, IMASK, cval, counter, freq, deadline>>

\* An interrupt: the timer's or a device's, or one that is gone when it is to
\* be acknowledged.
Irq ==
    /\ todo = <<>>
    /\ \E acknowledged \in BOOLEAN : todo' = irq_current(acknowledged)
    /\ UNCHANGED <<ENABLE, IMASK, cval, counter, freq, deadline>>

Next == Time \/ Control \/ Compare \/ Deadline \/ Gic \/ Irq

Spec == Init /\ [][Next]_vars
-----------------------------------------------------------------------------
\* The timer does not interrupt while the driver has it stopped: its line is
\* low when the controller is told of it and when an interrupt ends, so that a
\* tick is taken once.
TakenOnce == todo # <<>> /\ Head(todo) \in {"enable_irq", "eoi"} => ~Line

\* Whatever interrupts there were, a core on which it is not being handled has
\* its timer running and due within a period, if its frequency is known.
Armed ==
    todo = <<>> /\ to_ticks(Nanos, freq) # None /\ counter + to_ticks(Nanos, freq) <= Largest =>
        ENABLE /\ ~IMASK /\ cval <= counter + to_ticks(Nanos, freq)

\* Ticks are taken once and keep coming.
TimerInv == TakenOnce /\ Armed
-----------------------------------------------------------------------------
\* The bounds and the frequencies are numbers, and the counter is read before it
\* reaches u64::MAX.
Assumptions ==
    /\ Frequencies \subseteq Nat /\ Second \in Nat \ {0} /\ Nanos \in Nat
    /\ LastTime \in Nat /\ Largest \in Nat /\ LastTime < Largest

TypeOK ==
    /\ ENABLE \in BOOLEAN /\ IMASK \in BOOLEAN
    /\ cval \in Nat /\ deadline \in Nat
    /\ counter \in Nat /\ counter <= LastTime
    /\ freq \in Frequencies

\* What is left of secondary_handle before the first timer_schedule.
Starting ==
    {<<"mask", "max", "disable", "unmask", "enable_irq", "unmask", "enable", "count", "compare", "enable">>,
     <<"max", "disable", "unmask", "enable_irq", "unmask", "enable", "count", "compare", "enable">>,
     <<"disable", "unmask", "enable_irq", "unmask", "enable", "count", "compare", "enable">>,
     <<"unmask", "enable_irq", "unmask", "enable", "count", "compare", "enable">>,
     <<"enable_irq", "unmask", "enable", "count", "compare", "enable">>,
     <<"unmask", "enable", "count", "compare", "enable">>,
     <<"enable", "count", "compare", "enable">>}

\* ... of irq_current before the deadline is out of reach,
Stopping ==
    {<<"mask", "max", "disable", "unmask", "enable", "eoi", "count", "compare", "enable">>,
     <<"max", "disable", "unmask", "enable", "eoi", "count", "compare", "enable">>}

\* ... and from then on.
Stopped ==
    {<<"disable", "unmask", "enable", "eoi", "count", "compare", "enable">>,
     <<"unmask", "enable", "eoi", "count", "compare", "enable">>,
     <<"enable", "eoi", "count", "compare", "enable">>,
     <<"eoi", "count", "compare", "enable">>}

\* ... of timer_schedule.
Scheduling ==
    {<<"count", "compare", "enable">>,
     <<"compare", "enable">>,
     <<"enable">>}

\* Due within a period.
Due(time) == to_ticks(Nanos, freq) # None /\ time <= counter + to_ticks(Nanos, freq)

\* What is known between the writes.
IInv ==
    /\ TypeOK
    /\ todo \in Starting \cup Stopping \cup Stopped \cup Scheduling \cup {<<>>}
    /\ todo = <<"enable_irq", "unmask", "enable", "count", "compare", "enable">> => ~ENABLE
    /\ todo \in Stopped => cval = Largest
    /\ todo = <<"compare", "enable">> => Due(deadline)
    /\ todo = <<"enable">> => Due(cval)
    /\ Armed
=============================================================================
