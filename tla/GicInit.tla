------------------------------- MODULE GicInit -------------------------------
(***************************************************************************)
(* GicV3::init, called once on every core.  The first core initialises the *)
(* distributor and the ITS, the others sleep in wfe until INIT_STATE is 2; *)
(* then each initialises its redistributor and tells the ITS about it.     *)
(* Each core's event register is set by sev and cleared by wfe, which      *)
(* sleeps only while it is clear; wfe may also return for other reasons.   *)
(* A command that fails makes init() return an error and its caller panic; *)
(* the commands of this module do not fail.                                *)
(***************************************************************************)
EXTENDS ItsCommands

CONSTANT CPUs

VARIABLES INIT_STATE,
          event,         \* the event register of each core
          distributor,   \* the distributor: "off", "routing" (ARE set) or "on"
          prop_table,    \* lpi_prop_table is Some
          its_enabled,   \* the ITS has its tables and its_cmd_queue is Some
          redist,        \* each core's redistributor: "asleep", "awake" or "lpis" (EnableLPIs)
          collections,   \* the cores that the ITS knows (MAPC)
          pc

dist == <<distributor, prop_table, its_enabled>>
vars == <<its, INIT_STATE, event, dist, redist, collections, pc>>

Init ==
    /\ ItsInit
    /\ INIT_STATE = 0
    /\ event \in [CPUs -> BOOLEAN]
    /\ distributor = "off" /\ prop_table = FALSE /\ its_enabled = FALSE
    /\ redist = [c \in CPUs |-> "asleep"]
    /\ collections = {}
    /\ pc = [c \in CPUs |-> "start"]

Goto(c, from, to) == pc[c] = from /\ pc' = [pc EXCEPT ![c] = to]

CasWins(c) ==
    /\ INIT_STATE = 0
    /\ Goto(c, "start", "disable")
    /\ INIT_STATE' = 1
    /\ UNCHANGED <<its, event, dist, redist, collections>>

CasFails(c) ==
    /\ INIT_STATE # 0
    /\ Goto(c, "start", "load")
    /\ UNCHANGED <<its, INIT_STATE, event, dist, redist, collections>>

\* EnableGroup1 is cleared, then ARE is set and every interrupt disabled.
DistributorOff(c) ==
    /\ Goto(c, "disable", "are")
    /\ distributor' = "off"
    /\ UNCHANGED <<its, INIT_STATE, event, prop_table, its_enabled, redist, collections>>

DistributorAre(c) ==
    /\ Goto(c, "are", "prop")
    /\ distributor' = "routing"
    /\ UNCHANGED <<its, INIT_STATE, event, prop_table, its_enabled, redist, collections>>

PropTable(c) ==
    /\ Goto(c, "prop", "its")
    /\ prop_table' = TRUE
    /\ UNCHANGED <<its, INIT_STATE, event, distributor, its_enabled, redist, collections>>

InitIts(c) ==
    /\ Goto(c, "its", "enable")
    /\ its_enabled' = TRUE
    /\ UNCHANGED <<its, INIT_STATE, event, distributor, prop_table, redist, collections>>

DistributorOn(c) ==
    /\ Goto(c, "enable", "store")
    /\ distributor' = "on"
    /\ UNCHANGED <<its, INIT_STATE, event, prop_table, its_enabled, redist, collections>>

Store(c) ==
    /\ Goto(c, "store", "sev")
    /\ INIT_STATE' = 2
    /\ UNCHANGED <<its, event, dist, redist, collections>>

\* Mutant: the event is not sent.
SevNot(c) ==
    /\ Goto(c, "sev", "redist")
    /\ UNCHANGED <<its, INIT_STATE, event, dist, redist, collections>>

Sev(c) ==
    /\ Goto(c, "sev", "redist")
    /\ event' = [d \in CPUs |-> TRUE]
    /\ UNCHANGED <<its, INIT_STATE, dist, redist, collections>>

\* Mutant: any value but 0 ends the wait.
IsReadyEarly(s) == s # 0

IsReady(s) == s = 2

LoadReady(c) ==
    /\ IsReady(INIT_STATE)
    /\ Goto(c, "load", "redist")
    /\ UNCHANGED <<its, INIT_STATE, event, dist, redist, collections>>

LoadNotReady(c) ==
    /\ ~IsReady(INIT_STATE)
    /\ Goto(c, "load", "wfe")
    /\ UNCHANGED <<its, INIT_STATE, event, dist, redist, collections>>

Wfe(c) ==
    /\ event[c]
    /\ Goto(c, "wfe", "load")
    /\ event' = [event EXCEPT ![c] = FALSE]
    /\ UNCHANGED <<its, INIT_STATE, dist, redist, collections>>

WfeSpurious(c) ==
    /\ ~event[c]
    /\ Goto(c, "wfe", "load")
    /\ UNCHANGED <<its, INIT_STATE, event, dist, redist, collections>>

Wake(c) ==
    /\ Goto(c, "redist", "lpis")
    /\ redist' = [redist EXCEPT ![c] = "awake"]
    /\ UNCHANGED <<its, INIT_STATE, event, dist, collections>>

\* The tables of the LPIs are set (prop_table.unwrap()) and EnableLPIs.
EnableLpis(c) ==
    /\ Goto(c, "lpis", "mapc")
    /\ redist' = [redist EXCEPT ![c] = "lpis"]
    /\ UNCHANGED <<its, INIT_STATE, event, dist, collections>>

\* MAPC, INVALL and SYNC, one after another.
Cmds == {"mapc", "invall", "sync"}
Spinning == [mapc |-> "mapc_spin", invall |-> "invall_spin", sync |-> "sync_spin"]
Following == [mapc |-> "invall", invall |-> "sync", sync |-> "done"]

PushCmd(c) ==
    \E cmd \in Cmds :
       /\ Goto(c, cmd, Spinning[cmd])
       /\ Push(c, [cmd |-> cmd, cpu |-> c])
       /\ UNCHANGED <<INIT_STATE, event, dist, redist, collections>>

CmdOk(c) ==
    \E cmd \in Cmds :
       /\ Goto(c, Spinning[cmd], Following[cmd])
       /\ PushOk(c)
       /\ UNCHANGED <<INIT_STATE, event, dist, redist, collections>>

ItsExecutes ==
    /\ ItsTakes
    /\ collections' = IF Head(queue).cmd = "mapc" THEN collections \cup {Head(queue).cpu} ELSE collections
    /\ UNCHANGED <<INIT_STATE, event, dist, redist, pc>>

CoreNext(c) ==
    \/ CasWins(c) \/ CasFails(c) \/ DistributorOff(c) \/ DistributorAre(c) \/ PropTable(c) \/ InitIts(c)
    \/ DistributorOn(c) \/ Store(c) \/ Sev(c) \/ LoadReady(c) \/ LoadNotReady(c) \/ Wfe(c)
    \/ Wake(c) \/ EnableLpis(c) \/ PushCmd(c) \/ CmdOk(c)

\* Every core has returned from init.
Finished == \A c \in CPUs : pc[c] = "done"
Stay == Finished /\ UNCHANGED vars

Next == ItsExecutes \/ Stay \/ \E c \in CPUs : CoreNext(c) \/ WfeSpurious(c)

Spec == Init /\ [][Next]_vars

\* The cores keep running and the ITS keeps executing; nothing else is relied
\* on to wake a core from wfe, and a core pushes too few commands to keep the
\* others from its_cmd_queue's lock.
FairSpec ==
    /\ Spec
    /\ WF_vars(ItsExecutes)
    /\ \A c \in CPUs : WF_vars(CoreNext(c))
-----------------------------------------------------------------------------
\* No core touches a redistributor or the command queue before the distributor
\* routes by affinity, the property table exists and the ITS is enabled; in
\* particular lpi_prop_table's unwrap() and the its_cmd_queue's ok_or() hold.
GlobalFirst ==
    \A c \in CPUs : redist[c] # "asleep" => distributor = "on" /\ prop_table /\ its_enabled

\* A core that has returned from init() can be the target of MSIs: the ITS
\* knows its collection and its redistributor takes LPIs.
InitMeansMapped ==
    \A c \in CPUs : pc[c] = "done" => c \in collections /\ redist[c] = "lpis"

\* Every core returns from init(): none misses the event and sleeps for ever.
InitReturns == <>Finished
-----------------------------------------------------------------------------
Leading == {"disable", "are", "prop", "its", "enable", "store"}
Spins == {"mapc_spin", "invall_spin", "sync_spin"}
Mapped == {"invall", "invall_spin", "sync", "sync_spin", "done"}
Mapping == {"mapc", "mapc_spin"} \cup Mapped
Late == {"redist", "lpis"} \cup Mapping

TypeOK ==
    /\ INIT_STATE \in 0 .. 2
    /\ redist \in [CPUs -> {"asleep", "awake", "lpis"}]
    /\ pc \in [CPUs -> {"start", "load", "wfe", "sev"} \cup Leading \cup Late]

\* One core leads, from the exchange to the store of 2; what it has set up so
\* far is told by where it is, and a core goes on only after the store.
OrderInv ==
    /\ INIT_STATE = 0 => \A c \in CPUs : pc[c] = "start"
    /\ \A c \in CPUs : pc[c] \in Leading => INIT_STATE = 1
    /\ \A c, d \in CPUs : pc[c] \in Leading /\ pc[d] \in Leading => c = d
    /\ \A c \in CPUs : pc[c] \in {"its", "enable", "store"} => prop_table
    /\ \A c \in CPUs : pc[c] \in {"enable", "store"} => its_enabled
    /\ \A c \in CPUs : pc[c] = "store" => distributor = "on"
    /\ INIT_STATE = 2 => distributor = "on" /\ prop_table /\ its_enabled
    /\ \A c \in CPUs : pc[c] \in {"sev"} \cup Late => INIT_STATE = 2
    /\ \A c \in CPUs : redist[c] # "asleep" => pc[c] \in Late
    /\ \A c \in CPUs : pc[c] \in Mapping => redist[c] = "lpis"

\* The command in the queue is the one its pusher waits for, and a core that is
\* past its MAPC, or waits for it with the queue empty, has its collection.
QueueInv ==
    /\ \A c \in CPUs : pc[c] \in Spins <=> pusher = c
    /\ \/ queue = <<>>
       \/ \E c \in CPUs, cmd \in Cmds :
             queue = <<[cmd |-> cmd, cpu |-> c]>> /\ pusher = c /\ pc[c] = Spinning[cmd]
    /\ \A c \in CPUs : pc[c] \in Mapped => c \in collections
    /\ \A c \in CPUs : pc[c] = "mapc_spin" /\ queue = <<>> => c \in collections

IInv == TypeOK /\ OrderInv /\ QueueInv

\* The steps of a core before it has a command to push.
Setup(c) ==
    \/ CasWins(c) \/ CasFails(c) \/ DistributorOff(c) \/ DistributorAre(c) \/ PropTable(c) \/ InitIts(c)
    \/ DistributorOn(c) \/ Store(c) \/ Sev(c) \/ LoadReady(c) \/ LoadNotReady(c) \/ Wfe(c) \/ WfeSpurious(c)
    \/ Wake(c) \/ EnableLpis(c)
=============================================================================
