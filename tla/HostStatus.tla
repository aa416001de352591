----------------------------- MODULE HostStatus -----------------------------
(***************************************************************************)
(* The status of a host: heartbeats of its agent, the monitor that looks   *)
(* for silent hosts, the reservation requests that put it in use or free   *)
(* it, and the events that announce a change.                              *)
(*                                                                         *)
(* A heartbeat is one transaction.  It reads the row when it authenticates *)
(* the agent, writes last_heartbeat_at when it looks for a reservation     *)
(* (autoflush) and holds the row from there until its commit, which writes *)
(* the status only if it differs from the one it read.  The monitor reads  *)
(* without a lock and writes when the row is free; so do an instant use    *)
(* and a cancellation.                                                     *)
(*                                                                         *)
(* Rows of different hosts do not interact: one host is modelled.          *)
(***************************************************************************)
EXTENDS HostEvents

CONSTANTS
    Beats,          \* heartbeat requests that may be under way at once
    OfflineAfter,   \* host_offline_after_seconds, in ticks
    Samples         \* what an agent may find of its machine

ASSUME HostAssumption ==
    /\ OfflineAfter \in Nat \ {0}
    /\ Samples # {} /\ Samples \subseteq [sunshine: BOOLEAN, busy: BOOLEAN]

HostStates == {"OFFLINE", "IDLE", "IN_USE", "DEGRADED"}

VARIABLES
    status,    \* hosts.status
    age,       \* ticks since hosts.last_heartbeat_at
    inUse,     \* whether a CONFIRMED reservation is in progress on the host
    request,   \* what the instant use or cancellation under way has decided
    machine,   \* whether Sunshine runs on the host, and whether it is overloaded
    alive,     \* whether the agent is running
    hb,        \* the heartbeat requests under way
    monitor,   \* "sleep", or "write" once its SELECT has returned the host
    raced      \* history: the last heartbeat to commit overlapped a monitor tick

row  == <<status, age>>
use  == <<inUse, request>>
vars == <<row, use, machine, alive, hb, monitor, raced, events>>

\* A clock reading OfflineAfter + 1 ticks old, or older, or never made, is stale.
Ages     == 0..OfflineAfter + 1
Never    == OfflineAfter + 1
Older(a) == IF a = Never THEN a ELSE a + 1

\* Faulty variant: a heartbeat of exactly OfflineAfter ticks counts as missed.
StaleOrDue(a) == a >= OfflineAfter

Stale(a) == a > OfflineAfter

\* A heartbeat: where it stands, the status it read, how long ago it took the time,
\* what it reports or the status that follows from it, and whether it overlapped a
\* monitor tick.
NoBeat == [pc |-> "none"]
Beat ==
    [pc: {"read"}, saw: HostStates, age: Ages, met: BOOLEAN, sample: Samples]
      \cup
    [pc: {"written"}, saw: HostStates, age: Ages, met: BOOLEAN, next: HostStates]

\* "take" is an instant use that has found the host IDLE; "end" and "free" are
\* cancellations that will set it to IDLE, of the reservation in progress or of
\* another one.
UseRequests == {"none", "take", "end", "free"}

Free == \A b \in Beats : hb[b].pc # "written"     \* nobody holds the row

TypeOK ==
    /\ status \in HostStates /\ age \in Ages
    /\ inUse \in BOOLEAN /\ request \in UseRequests
    /\ machine \in Samples /\ alive \in BOOLEAN /\ raced \in BOOLEAN
    /\ hb \in [Beats -> Beat \cup {NoBeat}]
    /\ monitor \in {"sleep", "write"}
    /\ DOMAIN queue \subseteq Subscribers
    /\ DOMAIN shown = DOMAIN queue /\ DOMAIN newest = DOMAIN queue
    /\ \A s \in DOMAIN queue :
          /\ queue[s] \in Seq(HostStates) /\ Len(queue[s]) <= QueueMax
          /\ {shown[s], newest[s]} \subseteq HostStates \cup {Nothing}
    /\ \A a, b \in Beats : hb[a].pc = "written" /\ hb[b].pc = "written" => a = b

\* A host as POST /hosts creates it.
Init ==
    /\ status = "OFFLINE" /\ age = Never
    /\ inUse = FALSE /\ request = "none"
    /\ machine \in Samples /\ alive = FALSE
    /\ hb = [b \in Beats |-> NoBeat]
    /\ monitor = "sleep" /\ raced = FALSE
    /\ EventsInit

-----------------------------------------------------------------------------
\* Faulty variant: only the load decides.
EvaluateLoad(a, active, sunshine, busy) ==
    IF Stale(a) THEN "OFFLINE" ELSE IF busy THEN "DEGRADED" ELSE "IDLE"

\* evaluate_host_status.
Evaluate(a, active, sunshine, busy) ==
    IF Stale(a) THEN "OFFLINE"
    ELSE IF active THEN IF sunshine THEN "IN_USE" ELSE "DEGRADED"
    ELSE IF busy THEN "DEGRADED" ELSE "IDLE"

\* The event of transition_host; nothing is said when the status stays.
Announce(old, new) == IF old = new THEN UNCHANGED events ELSE Publish(new)

\* What the collectors find (sunshine_running; cpu_pct and mem_pct as a verdict).
Collected == machine

\* The agent posts what the collectors have found, get_agent_host loads
\* the row, and the handler takes the time.
Arrive(b) ==
    /\ alive /\ hb[b] = NoBeat
    /\ hb' = [hb EXCEPT ![b] = [pc |-> "read", saw |-> status, age |-> 0,
                                met |-> monitor = "write", sample |-> Collected]]
    /\ UNCHANGED <<row, use, machine, alive, monitor, raced, events>>

\* The UPDATE of last_heartbeat_at, the SELECT of the reservation, and with its
\* answer the verdict and the event.  (The verdict takes the time as it was read,
\* so the heartbeat is never late.)
Decide(b) ==
    /\ hb[b].pc = "read" /\ Free
    /\ LET next == Evaluate(0, inUse, hb[b].sample.sunshine, hb[b].sample.busy) IN
       /\ hb' = [hb EXCEPT ![b] = [pc |-> "written", saw |-> hb[b].saw, age |-> hb[b].age,
                                   met |-> hb[b].met, next |-> next]]
       /\ Announce(hb[b].saw, next)
    /\ UNCHANGED <<row, use, machine, alive, monitor, raced>>

\* Faulty variant: the commit forgets the status.
CommitTimeOnly(b) ==
    /\ hb[b].pc = "written"
    /\ age' = hb[b].age
    /\ raced' = hb[b].met
    /\ hb' = [hb EXCEPT ![b] = NoBeat]
    /\ UNCHANGED <<status, use, machine, alive, monitor, events>>

Commit(b) ==
    /\ hb[b].pc = "written"
    /\ age' = hb[b].age
    /\ status' = IF hb[b].next = hb[b].saw THEN status ELSE hb[b].next
    /\ raced' = hb[b].met
    /\ hb' = [hb EXCEPT ![b] = NoBeat]
    /\ UNCHANGED <<use, machine, alive, monitor, events>>

\* The request is refused, times out or loses its connection; the agent logs it and
\* goes on.
Lose(b) ==
    /\ hb[b] # NoBeat
    /\ hb' = [hb EXCEPT ![b] = NoBeat]
    /\ UNCHANGED <<row, use, machine, alive, monitor, raced, events>>

-----------------------------------------------------------------------------
\* _run_one_tick: the SELECT, and the event of the transition it will write.
Scan ==
    /\ monitor = "sleep"
    /\ status # "OFFLINE" /\ Stale(age)
    /\ monitor' = "write"
    /\ hb' = [b \in Beats |-> IF hb[b] = NoBeat THEN NoBeat ELSE [hb[b] EXCEPT !.met = TRUE]]
    /\ Announce(status, "OFFLINE")
    /\ UNCHANGED <<row, use, machine, alive, raced>>

\* Faulty variant: the transition is not committed.
WriteUncommitted ==
    /\ monitor = "write" /\ Free
    /\ monitor' = "sleep"
    /\ UNCHANGED <<row, use, machine, alive, hb, raced, events>>

WriteOffline ==
    /\ monitor = "write" /\ Free
    /\ status' = "OFFLINE"
    /\ monitor' = "sleep"
    /\ UNCHANGED <<age, use, machine, alive, hb, raced, events>>

\* run_monitor_loop logs a failed tick and goes on.
TickFails ==
    /\ monitor = "write"
    /\ monitor' = "sleep"
    /\ UNCHANGED <<row, use, machine, alive, hb, raced, events>>

-----------------------------------------------------------------------------
\* A booked reservation begins and ends by the clock, which writes nothing.  (A
\* cancellation of a reservation that leaves the host alone is an end of this kind.)
Begins ==
    /\ ~inUse /\ inUse' = TRUE
    /\ UNCHANGED <<row, request, machine, alive, hb, monitor, raced, events>>

Ends ==
    /\ inUse /\ inUse' = FALSE
    /\ request' = IF request = "end" THEN "free" ELSE request
    /\ UNCHANGED <<row, machine, alive, hb, monitor, raced, events>>

\* instant_reservation_endpoint: the host was IDLE when it was loaded, and the
\* INSERT has met no other reservation.
FindsIdle ==
    /\ request = "none"
    /\ status = "IDLE" /\ ~inUse
    /\ request' = "take"
    /\ UNCHANGED <<row, inUse, machine, alive, hb, monitor, raced, events>>

Take ==
    /\ request = "take" /\ Free
    /\ request' = "none"
    /\ inUse' = TRUE /\ status' = "IN_USE"
    /\ UNCHANGED <<age, machine, alive, hb, monitor, raced, events>>

\* cancel_reservation_endpoint: the host is loaded, and is IN_USE; the reservation
\* that is cancelled, if any is in progress, is the one.  (Two SELECTs in one step.)
FindsUnused ==
    /\ request = "none"
    /\ status = "IN_USE"
    /\ request' = IF inUse THEN "end" ELSE "free"
    /\ UNCHANGED <<row, inUse, machine, alive, hb, monitor, raced, events>>

\* It commits, with the status it has decided on.
Vacate ==
    /\ request \in {"end", "free"} /\ Free
    /\ request' = "none"
    /\ inUse' = (inUse /\ request = "free")
    /\ status' = "IDLE"
    /\ UNCHANGED <<age, machine, alive, hb, monitor, raced, events>>

RequestFails ==
    /\ request # "none" /\ request' = "none"
    /\ UNCHANGED <<row, inUse, machine, alive, hb, monitor, raced, events>>

\* Sunshine stops or starts, or the load changes.
MachineChanges ==
    /\ machine' \in Samples \ {machine}
    /\ UNCHANGED <<row, use, alive, hb, monitor, raced, events>>

AgentStarts == ~alive /\ alive' = TRUE  /\ UNCHANGED <<row, use, machine, hb, monitor, raced, events>>
AgentStops  == alive  /\ alive' = FALSE /\ UNCHANGED <<row, use, machine, hb, monitor, raced, events>>

\* The Broker stops and starts again: what was not committed is gone, and so are
\* the subscribers.
Restart ==
    /\ hb' = [b \in Beats |-> NoBeat]
    /\ monitor' = "sleep" /\ request' = "none"
    /\ CloseBroker
    /\ UNCHANGED <<row, inUse, machine, alive, raced>>

Tick ==
    /\ age' = Older(age)
    /\ hb' = [b \in Beats |-> IF hb[b] = NoBeat THEN NoBeat ELSE [hb[b] EXCEPT !.age = Older(@)]]
    /\ UNCHANGED <<status, use, machine, alive, monitor, raced, events>>

Listen(s) ==
    /\ Subscribe(s) \/ Receive(s) \/ Unsubscribe(s)
    /\ UNCHANGED <<row, use, machine, alive, hb, monitor, raced>>

Next ==
    \/ \E b \in Beats : Arrive(b) \/ Decide(b) \/ Commit(b) \/ Lose(b)
    \/ Scan \/ WriteOffline \/ TickFails
    \/ Begins \/ Ends \/ FindsIdle \/ Take \/ FindsUnused \/ Vacate \/ RequestFails
    \/ MachineChanges \/ AgentStarts \/ AgentStops \/ Restart \/ Tick
    \/ \E s \in Subscribers : Listen(s)

\* A running agent keeps sending (run_heartbeat_loop never gives up), time passes
\* and the monitor keeps looking; PostgreSQL serves the waiters of a row in turn,
\* and not every attempt is lost.
Fairness ==
    /\ \A b \in Beats : WF_vars(Arrive(b)) /\ SF_vars(Decide(b)) /\ SF_vars(Commit(b))
    /\ WF_vars(Tick) /\ WF_vars(Scan) /\ SF_vars(WriteOffline)

Spec     == Init /\ [][Next]_vars
FairSpec == Spec /\ Fairness

-----------------------------------------------------------------------------
(* Properties.                                                             *)

\* A host that has just been heard of is OFFLINE only because that heartbeat
\* overlapped a monitor tick: then the tick's UPDATE overwrites the status, or
\* the heartbeat, having read the status before, sees no change to write.
FreshOfflineOnlyIfRaced ==
    status = "OFFLINE" /\ age <= OfflineAfter => raced

\* The monitor finds the host of an agent that has stopped, again and again if
\* requests that read its status before undo that; with no such request under way,
\* it is OFFLINE in the end and stays so.
DeadHostGoesOffline ==
    /\ <>[]~alive => []<>(status = "OFFLINE")
    /\ <>[](~alive /\ request = "none") => <>[](status = "OFFLINE")

\* While its agent runs, a host is never OFFLINE for good: the next heartbeat
\* repairs what a race has left.
LiveHostComesBack == <>[]alive => []<>(status # "OFFLINE")

\* The heartbeats also repair what requests have left: a host that is in use and
\* well is not shown as IDLE for good, though a cancellation has set it so after an
\* older read; and a host that nobody uses is not shown as IN_USE for good.
StatusFollowsUse ==
    /\ <>[](alive /\ inUse /\ machine.sunshine) => []<>(status = "IN_USE")
    /\ <>[](alive /\ ~inUse /\ ~machine.busy) => []<>(status = "IDLE")
=============================================================================
