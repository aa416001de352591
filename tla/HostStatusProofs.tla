--------------------------- MODULE HostStatusProofs ---------------------------
(***************************************************************************)
(* Proofs about HostStatus, for any number of heartbeats under way, any    *)
(* number of subscribers, every queue size and every silence after which a *)
(* host counts as offline.                                                 *)
(***************************************************************************)
EXTENDS HostStatus, SequenceTheorems, TLAPS

-----------------------------------------------------------------------------
(* The queues of the subscribers.                                          *)

\* What HostStatus says of the queues in TypeOK.
QueuesOK ==
    /\ DOMAIN queue \subseteq Subscribers
    /\ DOMAIN shown = DOMAIN queue /\ DOMAIN newest = DOMAIN queue
    /\ \A s \in DOMAIN queue :
          /\ queue[s] \in Seq(HostStates) /\ Len(queue[s]) <= QueueMax
          /\ {shown[s], newest[s]} \subseteq HostStates \cup {Nothing}

\* A sequence is empty exactly if its length is zero.
LEMMA EmptyByLength ==
    ASSUME NEW S, NEW q \in Seq(S)
    PROVE  q = <<>> <=> Len(q) = 0
<1>1. q = <<>> => Len(q) = 0
  BY EmptySeq, Zenon
<1>2. q # <<>> => Len(q) \in Nat \ {0}
  BY EmptySeq
<1> QED BY <1>1, <1>2

\* A push, full queue or not, keeps the bound and ends with the event pushed.
LEMMA PushKeepsNewest ==
    ASSUME NEW q \in Seq(HostStates), Len(q) <= QueueMax, NEW e \in HostStates
    PROVE  /\ Push(q, e) \in Seq(HostStates)
           /\ Len(Push(q, e)) <= QueueMax
           /\ Push(q, e) # <<>> /\ Last(Push(q, e)) = e
<1>1. QueueMax \in Nat /\ QueueMax > 0 /\ Len(q) \in Nat
  BY EventsAssumption DEF EventsAssumption
<1>2. ASSUME NEW r \in Seq(HostStates)
      PROVE  /\ Append(r, e) \in Seq(HostStates) /\ Len(Append(r, e)) = Len(r) + 1
             /\ Append(r, e) # <<>> /\ Last(Append(r, e)) = e
  BY DEF Last
<1>3. CASE Len(q) = QueueMax
  <2>1. q # <<>>
    <3>1. Len(q) # 0
      BY <1>1, <1>3
    <3> QED BY <3>1, EmptyByLength, Zenon
  <2>2. Tail(q) \in Seq(HostStates) /\ Len(Tail(q)) = Len(q) - 1
    BY <2>1
  <2>3. Push(q, e) = Append(Tail(q), e)
    BY <1>3 DEF Push
  <2>4. /\ Push(q, e) \in Seq(HostStates) /\ Len(Push(q, e)) = Len(Tail(q)) + 1
        /\ Push(q, e) # <<>> /\ Last(Push(q, e)) = e
    BY <1>2, <2>2, <2>3, Zenon
  <2>5. Len(Push(q, e)) <= QueueMax
    BY <1>1, <1>3, <2>2, <2>4
  <2> QED BY <2>4, <2>5
<1>4. CASE Len(q) # QueueMax
  <2>1. Push(q, e) = Append(q, e)
    BY <1>4 DEF Push
  <2>2. /\ Push(q, e) \in Seq(HostStates) /\ Len(Push(q, e)) = Len(q) + 1
        /\ Push(q, e) # <<>> /\ Last(Push(q, e)) = e
    BY <1>2, <2>1, Zenon
  <2>3. Len(Push(q, e)) <= QueueMax
    BY <1>1, <1>4, <2>2
  <2> QED BY <2>2, <2>3
<1> QED BY <1>3, <1>4

\* The queues, and the newest event of each, across an announcement,
LEMMA PublishKeeps ==
    ASSUME QueuesOK, NEW e \in HostStates, Publish(e)
    PROVE  QueuesOK' /\ NewestKept'
<1>1. /\ DOMAIN queue' = DOMAIN queue /\ DOMAIN shown' = DOMAIN queue
      /\ DOMAIN newest' = DOMAIN queue
      /\ \A s \in DOMAIN queue : /\ queue'[s] = Push(queue[s], e)
                                 /\ shown'[s] = Nothing /\ newest'[s] = e
  BY DEF Publish
<1>2. \A s \in DOMAIN queue : /\ queue'[s] \in Seq(HostStates) /\ Len(queue'[s]) <= QueueMax
                              /\ queue'[s] # <<>> /\ Last(queue'[s]) = e
  BY <1>1, PushKeepsNewest DEF QueuesOK
<1> QED BY <1>1, <1>2 DEF QueuesOK, NewestKept

\* ... when a subscriber comes, receives an event or leaves,
LEMMA ListenKeeps ==
    ASSUME QueuesOK, NewestKept, NEW s \in Subscribers,
           Subscribe(s) \/ Receive(s) \/ Unsubscribe(s)
    PROVE  QueuesOK' /\ NewestKept'
<1>1. CASE Subscribe(s)
  <2>1. /\ DOMAIN queue' = DOMAIN queue \cup {s}
        /\ DOMAIN shown' = DOMAIN queue \cup {s} /\ DOMAIN newest' = DOMAIN queue \cup {s}
        /\ \A x \in DOMAIN queue : x # s /\ queue'[x] = queue[x] /\ shown'[x] = shown[x]
                                   /\ newest'[x] = newest[x]
        /\ queue'[s] = <<>> /\ shown'[s] = Nothing /\ newest'[s] = Nothing
    BY <1>1 DEF Subscribe, With, QueuesOK
  <2>2. <<>> \in Seq(HostStates) /\ Len(<<>>) <= QueueMax
    BY EventsAssumption DEF EventsAssumption
  <2>3. QueuesOK'
    BY <2>1, <2>2 DEF QueuesOK
  <2>4. NewestKept'
    BY <2>1 DEF NewestKept
  <2> QED BY <2>3, <2>4
<1>2. CASE Receive(s)
  <2> DEFINE q == queue[s]
             v == IF Len(q) = 1 THEN Head(q) ELSE Nothing
  <2>1. /\ s \in DOMAIN queue /\ q # <<>>
        /\ shown' = [shown EXCEPT ![s] = v] /\ queue' = [queue EXCEPT ![s] = Tail(q)]
        /\ newest' = newest
    BY <1>2 DEF Receive
  <2>2. q \in Seq(HostStates) /\ Len(q) <= QueueMax /\ newest[s] = Last(q)
    BY <2>1 DEF QueuesOK, NewestKept
  <2> HIDE DEF q
  <2>3. /\ Tail(q) \in Seq(HostStates) /\ Len(Tail(q)) = Len(q) - 1
        /\ Len(q) \in Nat /\ Len(q) >= 1 /\ Head(q) \in HostStates
    BY <2>1, <2>2
  <2>4. Len(Tail(q)) <= QueueMax
    BY <2>2, <2>3, EventsAssumption DEF EventsAssumption
  <2>5. Last(q) = IF Tail(q) = <<>> THEN v ELSE Last(Tail(q))
    <3>1. CASE Len(q) = 1
      <4>0. Len(Tail(q)) = 0
        BY <2>3, <3>1
      <4>1. Tail(q) = <<>>
        BY <2>3, <4>0, EmptyByLength, Zenon
      <4>2. v = q[1] /\ Last(q) = q[1]
        BY <2>2, <3>1 DEF Last
      <4> QED BY <4>1, <4>2
    <3>2. CASE Len(q) > 1
      <4>0. Len(Tail(q)) # 0 /\ Len(Tail(q)) >= 1
        BY <2>3, <3>2
      <4>1. Tail(q) # <<>>
        BY <2>3, <4>0, EmptyByLength, Zenon
      <4>2. Tail(q)[Len(q) - 1] = q[Len(q)]
        BY <2>2, <2>3, <3>2
      <4> QED BY <2>3, <4>0, <4>1, <4>2 DEF Last
    <3> QED BY <2>3, <3>1, <3>2
  <2>6. v \in HostStates \cup {Nothing}
    BY <2>3
  <2> HIDE DEF v
  <2>7. /\ DOMAIN queue' = DOMAIN queue /\ DOMAIN shown' = DOMAIN shown
        /\ queue'[s] = Tail(q) /\ shown'[s] = v
        /\ \A x \in DOMAIN queue : x # s => queue'[x] = queue[x] /\ shown'[x] = shown[x]
    BY <2>1 DEF QueuesOK, q
  <2>8. QueuesOK'
    BY <2>1, <2>3, <2>4, <2>6, <2>7 DEF QueuesOK, q
  <2>9. NewestKept'
    BY <2>1, <2>2, <2>5, <2>7 DEF NewestKept, q
  <2> QED BY <2>8, <2>9
<1>3. CASE Unsubscribe(s)
  BY <1>3 DEF Unsubscribe, Without, QueuesOK, NewestKept
<1> QED BY <1>1, <1>2, <1>3

\* ... and when the broker closes.
LEMMA CloseKeeps ==
    ASSUME CloseBroker
    PROVE  QueuesOK' /\ NewestKept'
BY DEF CloseBroker, QueuesOK, NewestKept

\* A step that announces nothing.
LEMMA SilentKeeps ==
    ASSUME QueuesOK, NewestKept, UNCHANGED events
    PROVE  QueuesOK' /\ NewestKept'
BY DEF events, QueuesOK, NewestKept

\* The verdict of a heartbeat is a status, and never OFFLINE: the time it judges
\* by is its own.
LEMMA Verdict ==
    ASSUME NEW active, NEW sunshine, NEW busy
    PROVE  /\ Evaluate(0, active, sunshine, busy) \in HostStates
           /\ Evaluate(0, active, sunshine, busy) # "OFFLINE"
<1>1. ~Stale(0)
  BY HostAssumption DEF HostAssumption, Stale
<1> QED BY <1>1 DEF Evaluate, HostStates

\* What a step does to the queues: it announces a status, serves a subscriber,
\* closes the broker or leaves them alone.
LEMMA EventsStep ==
    ASSUME QueuesOK, NewestKept, [Next]_vars
    PROVE  QueuesOK' /\ NewestKept'
<1>1. ASSUME NEW old, NEW new \in HostStates, Announce(old, new)
      PROVE  QueuesOK' /\ NewestKept'
  BY <1>1, PublishKeeps, SilentKeeps DEF Announce
<1>2. ASSUME NEW b \in Beats, Decide(b)
      PROVE  QueuesOK' /\ NewestKept'
  BY <1>1, <1>2, Verdict DEF Decide
<1>3. CASE Scan
  BY <1>1, <1>3 DEF Scan, HostStates
<1>4. CASE Restart
  BY <1>4, CloseKeeps DEF Restart
<1>5. ASSUME NEW s \in Subscribers, Listen(s)
      PROVE  QueuesOK' /\ NewestKept'
  BY <1>5, ListenKeeps DEF Listen
<1>6. ASSUME NEW b \in Beats, Arrive(b) \/ Commit(b) \/ Lose(b)
      PROVE  UNCHANGED events
  BY <1>6 DEF Arrive, Commit, Lose
<1>7. ASSUME \/ WriteOffline \/ TickFails \/ Begins \/ Ends \/ FindsIdle \/ Take
             \/ FindsUnused \/ Vacate \/ RequestFails
             \/ MachineChanges \/ AgentStarts \/ AgentStops \/ Tick
      PROVE  UNCHANGED events
  BY <1>7 DEF WriteOffline, TickFails, Begins, Ends, FindsIdle, Take, FindsUnused, Vacate,
              RequestFails, MachineChanges, AgentStarts, AgentStops, Tick
<1>8. UNCHANGED vars => UNCHANGED events
  BY DEF vars
<1> QED BY <1>2, <1>3, <1>4, <1>5, <1>6, <1>7, <1>8, SilentKeeps DEF Next

\* The last event a subscriber has been sent or has waiting is the last one
\* published, whatever a full queue has cost it.
THEOREM NewestAlwaysKept == Spec => []NewestKept
<1>1. Init => QueuesOK /\ NewestKept
  BY DEF Init, EventsInit, QueuesOK, NewestKept
<1>2. QueuesOK /\ NewestKept /\ [Next]_vars => QueuesOK' /\ NewestKept'
  BY EventsStep
<1> QED BY <1>1, <1>2, PTL DEF Spec

-----------------------------------------------------------------------------
(* Type correctness.                                                       *)

\* The heartbeats under way.
BeatsOK ==
    /\ hb \in [Beats -> Beat \cup {NoBeat}]
    /\ \A a, b \in Beats : hb[a].pc = "written" /\ hb[b].pc = "written" => a = b

\* The other variables.
RowOK ==
    /\ status \in HostStates /\ age \in Ages
    /\ inUse \in BOOLEAN /\ request \in UseRequests
    /\ machine \in Samples /\ alive \in BOOLEAN /\ raced \in BOOLEAN
    /\ monitor \in {"sleep", "write"}

\* A clock reading grows older and stays one.
LEMMA OlderAge ==
    ASSUME NEW a \in Ages
    PROVE  Older(a) \in Ages /\ a <= Older(a)
BY HostAssumption DEF HostAssumption, Ages, Older, Never

\* A heartbeat that a monitor tick or time passes by is the same heartbeat.
LEMMA BeatKept ==
    ASSUME NEW h \in Beat, NEW a \in Ages
    PROVE  /\ h # NoBeat /\ h.pc # "none" /\ h.met \in BOOLEAN /\ h.age \in Ages
           /\ h.saw \in HostStates
           /\ LET m == [h EXCEPT !.met = TRUE] IN
              /\ m \in Beat /\ m.pc = h.pc /\ m.saw = h.saw /\ m.met
              /\ (h.pc = "written" => m.next = h.next)
           /\ LET m == [h EXCEPT !.age = a] IN
              /\ m \in Beat /\ m.pc = h.pc /\ m.saw = h.saw /\ m.met = h.met
              /\ (h.pc = "written" => m.next = h.next)
<1>1. CASE h \in [pc: {"read"}, saw: HostStates, age: Ages, met: BOOLEAN, sample: Samples]
  <2>1. /\ h.pc = "read" /\ h.met \in BOOLEAN /\ h.age \in Ages /\ h.saw \in HostStates
    BY <1>1
  <2>2. h # NoBeat
    BY <2>1 DEF NoBeat
  <2> DEFINE m == [h EXCEPT !.met = TRUE]
             o == [h EXCEPT !.age = a]
  <2>3. m \in Beat /\ m.pc = h.pc /\ m.saw = h.saw /\ m.met
    BY <1>1 DEF Beat
  <2>4. o \in Beat /\ o.pc = h.pc /\ o.saw = h.saw /\ o.met = h.met
    BY <1>1 DEF Beat
  <2> QED BY <2>1, <2>2, <2>3, <2>4
<1>2. CASE h \in [pc: {"written"}, saw: HostStates, age: Ages, met: BOOLEAN, next: HostStates]
  <2>1. /\ h.pc = "written" /\ h.met \in BOOLEAN /\ h.age \in Ages /\ h.saw \in HostStates
        /\ h.next \in HostStates
    BY <1>2
  <2>2. h # NoBeat
    BY <2>1 DEF NoBeat
  <2> DEFINE m == [h EXCEPT !.met = TRUE]
             o == [h EXCEPT !.age = a]
  <2>3. m \in Beat /\ m.pc = h.pc /\ m.saw = h.saw /\ m.met /\ m.next = h.next
    BY <1>2 DEF Beat
  <2>4. o \in Beat /\ o.pc = h.pc /\ o.saw = h.saw /\ o.met = h.met /\ o.next = h.next
    BY <1>2 DEF Beat
  <2> QED BY <2>1, <2>2, <2>3, <2>4
<1> QED BY <1>1, <1>2 DEF Beat

\* The heartbeats across the steps of one of them, ...
LEMMA BeatsStep ==
    ASSUME BeatsOK, RowOK, NEW b \in Beats, Arrive(b) \/ Decide(b) \/ Commit(b) \/ Lose(b)
    PROVE  BeatsOK'
<1>1. CASE Arrive(b)
  <2> DEFINE h == [pc |-> "read", saw |-> status, age |-> 0,
                   met |-> monitor = "write", sample |-> machine]
  <2>1. 0 \in Ages /\ (monitor = "write") \in BOOLEAN
    BY HostAssumption DEF HostAssumption, Ages
  <2>2. h \in Beat /\ h.pc = "read"
    BY <2>1 DEF Beat, RowOK
  <2>3. hb' = [hb EXCEPT ![b] = h]
    BY <1>1 DEF Arrive, Collected
  <2> HIDE DEF h
  <2> QED BY <2>2, <2>3 DEF BeatsOK
<1>2. CASE Decide(b)
  <2> DEFINE next == Evaluate(0, inUse, hb[b].sample.sunshine, hb[b].sample.busy)
             h == [pc |-> "written", saw |-> hb[b].saw, age |-> hb[b].age,
                   met |-> hb[b].met, next |-> next]
  <2>1. hb' = [hb EXCEPT ![b] = h] /\ hb[b].pc = "read" /\ Free
    BY <1>2 DEF Decide
  <2>2. next \in HostStates
    BY Verdict
  <2> HIDE DEF next
  <2>3. hb[b] \in Beat
    BY <2>1 DEF BeatsOK, NoBeat
  <2>4. h \in Beat /\ h.pc = "written"
    BY <2>2, <2>3 DEF Beat
  <2> HIDE DEF h
  <2> QED BY <2>1, <2>4 DEF BeatsOK, Free
<1>3. CASE Commit(b) \/ Lose(b)
  <2>1. hb' = [hb EXCEPT ![b] = NoBeat]
    BY <1>3 DEF Commit, Lose
  <2> QED BY <2>1 DEF BeatsOK, NoBeat
<1> QED BY <1>1, <1>2, <1>3

\* ... and when the monitor or time passes them by, or the Broker stops.
LEMMA BeatsPassed ==
    ASSUME BeatsOK, Scan \/ Restart \/ Tick
    PROVE  BeatsOK'
<1>1. CASE Scan
  <2>1. hb' = [b \in Beats |-> IF hb[b] = NoBeat THEN NoBeat ELSE [hb[b] EXCEPT !.met = TRUE]]
    BY <1>1 DEF Scan
  <2>2. 0 \in Ages
    BY HostAssumption DEF HostAssumption, Ages
  <2>3. ASSUME NEW b \in Beats
        PROVE  hb'[b] \in Beat \cup {NoBeat} /\ hb'[b].pc = hb[b].pc
    <3>1. CASE hb[b] = NoBeat
      BY <2>1, <3>1
    <3>2. CASE hb[b] # NoBeat
      <4>1. hb[b] \in Beat
        BY <3>2 DEF BeatsOK
      <4> QED BY <2>1, <2>2, <3>2, <4>1, BeatKept
    <3> QED BY <3>1, <3>2
  <2>4. hb' \in [Beats -> Beat \cup {NoBeat}]
    BY <2>1, <2>3
  <2> QED BY <2>3, <2>4 DEF BeatsOK
<1>2. CASE Restart
  BY <1>2 DEF Restart, BeatsOK, NoBeat
<1>3. CASE Tick
  <2>1. hb' = [b \in Beats |-> IF hb[b] = NoBeat THEN NoBeat
                               ELSE [hb[b] EXCEPT !.age = Older(hb[b].age)]]
    BY <1>3 DEF Tick
  <2>2. \A b \in Beats : hb[b] # NoBeat => hb[b] \in Beat
    BY DEF BeatsOK
  <2>3. \A b \in Beats : hb[b] # NoBeat => Older(hb[b].age) \in Ages
    <3>1. 0 \in Ages
      BY HostAssumption DEF HostAssumption, Ages
    <3> QED BY <2>2, <3>1, BeatKept, OlderAge
  <2>4. ASSUME NEW b \in Beats
        PROVE  hb'[b] \in Beat \cup {NoBeat} /\ hb'[b].pc = hb[b].pc
    <3>1. CASE hb[b] = NoBeat
      BY <2>1, <3>1
    <3>2. CASE hb[b] # NoBeat
      <4> DEFINE a == Older(hb[b].age)
      <4>1. hb[b] \in Beat /\ a \in Ages
        BY <2>2, <2>3, <3>2
      <4>2. hb'[b] = [hb[b] EXCEPT !.age = a]
        BY <2>1, <3>2
      <4> HIDE DEF a
      <4>3. [hb[b] EXCEPT !.age = a] \in Beat /\ [hb[b] EXCEPT !.age = a].pc = hb[b].pc
        BY <4>1, BeatKept
      <4> QED BY <4>2, <4>3
    <3> QED BY <3>1, <3>2
  <2>5. hb' \in [Beats -> Beat \cup {NoBeat}]
    BY <2>1, <2>4
  <2> QED BY <2>4, <2>5 DEF BeatsOK
<1> QED BY <1>1, <1>2, <1>3

\* The steps that leave the heartbeats alone.
LEMMA BeatsElsewhere ==
    ASSUME [Next]_vars, \A b \in Beats : ~Arrive(b) /\ ~Decide(b) /\ ~Commit(b) /\ ~Lose(b),
           ~Scan, ~Restart, ~Tick
    PROVE  hb' = hb
BY DEF Next, vars, WriteOffline, TickFails, Begins, Ends, FindsIdle, Take, FindsUnused,
       Vacate, RequestFails, MachineChanges, AgentStarts, AgentStops, Listen

\* The row of the host, the monitor and the requests.
LEMMA RowStep ==
    ASSUME BeatsOK, RowOK, [Next]_vars
    PROVE  RowOK'
<1>0. 0 \in Ages
  BY HostAssumption DEF HostAssumption, Ages
<1>1. ASSUME NEW b \in Beats, Arrive(b) \/ Decide(b) \/ Lose(b)
      PROVE  RowOK'
  BY <1>1 DEF Arrive, Decide, Lose, row, use, RowOK
<1>2. ASSUME NEW b \in Beats, Commit(b)
      PROVE  RowOK'
  <2>1. /\ hb[b].pc = "written" /\ age' = hb[b].age /\ raced' = hb[b].met
        /\ status' = IF hb[b].next = hb[b].saw THEN status ELSE hb[b].next
        /\ UNCHANGED <<inUse, request, machine, alive, monitor>>
    BY <1>2 DEF Commit, use
  <2>2. hb[b] \in [pc: {"written"}, saw: HostStates, age: Ages, met: BOOLEAN, next: HostStates]
    BY <2>1 DEF BeatsOK, Beat, NoBeat
  <2> QED BY <2>1, <2>2 DEF RowOK
<1>3. CASE Scan \/ TickFails \/ WriteOffline
  BY <1>3 DEF Scan, TickFails, WriteOffline, row, use, RowOK, HostStates
<1>4. CASE Begins \/ Ends
  BY <1>4 DEF Begins, Ends, row, RowOK, UseRequests
<1>5. CASE FindsIdle \/ Take \/ FindsUnused \/ RequestFails
  BY <1>5 DEF FindsIdle, Take, FindsUnused, RequestFails, row, RowOK, UseRequests, HostStates
<1>6. CASE Vacate
  <2>1. (inUse /\ request = "free") \in BOOLEAN
    BY DEF RowOK
  <2>2. /\ request' = "none" /\ status' = "IDLE"
        /\ UNCHANGED <<age, machine, alive, monitor, raced>>
    BY <1>6 DEF Vacate
  <2>3. inUse' \in BOOLEAN
    BY <1>6, <2>1 DEF Vacate
  <2> QED BY <2>2, <2>3 DEF RowOK, UseRequests, HostStates
<1>7. CASE MachineChanges \/ AgentStarts \/ AgentStops
  BY <1>7 DEF MachineChanges, AgentStarts, AgentStops, row, use, RowOK
<1>8. CASE Restart
  BY <1>8 DEF Restart, row, RowOK, UseRequests
<1>9. CASE Tick
  <2>1. age' \in Ages
    BY <1>9, OlderAge DEF Tick, RowOK
  <2> QED BY <1>9, <2>1 DEF Tick, use, RowOK
<1>10. ASSUME NEW s \in Subscribers, Listen(s)
       PROVE  RowOK'
  BY <1>10 DEF Listen, row, use, RowOK
<1>11. CASE UNCHANGED vars
  BY <1>11 DEF vars, row, use, RowOK
<1> QED
  BY <1>1, <1>2, <1>3, <1>4, <1>5, <1>6, <1>7, <1>8, <1>9, <1>10, <1>11 DEF Next

\* The types hold of every reachable state; with them every queue stays within
\* its bound and no two heartbeats hold the row.
THEOREM HostTypes == Spec => []TypeOK
<1>1. Init => BeatsOK /\ RowOK /\ QueuesOK /\ NewestKept
  <2> SUFFICES ASSUME Init PROVE BeatsOK /\ RowOK /\ QueuesOK /\ NewestKept
    OBVIOUS
  <2>1. Never \in Ages
    BY HostAssumption DEF HostAssumption, Ages, Never
  <2>2. BeatsOK
    BY DEF Init, BeatsOK, NoBeat
  <2>3. RowOK
    BY <2>1 DEF Init, RowOK, HostStates, UseRequests
  <2>4. QueuesOK /\ NewestKept
    BY DEF Init, EventsInit, QueuesOK, NewestKept
  <2> QED BY <2>2, <2>3, <2>4
<1>2. BeatsOK /\ RowOK /\ QueuesOK /\ NewestKept /\ [Next]_vars
        => BeatsOK' /\ RowOK' /\ QueuesOK' /\ NewestKept'
  <2> SUFFICES ASSUME BeatsOK, RowOK, QueuesOK, NewestKept, [Next]_vars
               PROVE  BeatsOK' /\ RowOK' /\ QueuesOK' /\ NewestKept'
    OBVIOUS
  <2>1. hb' = hb => BeatsOK'
    BY DEF BeatsOK
  <2>2. BeatsOK'
    BY <2>1, BeatsStep, BeatsPassed, BeatsElsewhere
  <2> QED BY <2>2, RowStep, EventsStep
<1>3. BeatsOK /\ RowOK /\ QueuesOK => TypeOK
  BY DEF BeatsOK, RowOK, QueuesOK, TypeOK
<1> QED BY <1>1, <1>2, <1>3, PTL DEF Spec

-----------------------------------------------------------------------------
(* A fresh host is OFFLINE only through a race.                            *)

InFlight(b) == hb[b] # NoBeat

\* While the monitor is about to write, every heartbeat under way has met it, and
\* so has the one that made the host fresh again.
TickMeets ==
    monitor = "write" => /\ age <= OfflineAfter => raced
                         /\ \A b \in Beats : InFlight(b) => hb[b].met

\* A heartbeat that read another status than the OFFLINE it would leave has met
\* the tick that wrote it; and its own verdict is never OFFLINE.
OverwrittenMet ==
    \A b \in Beats :
        /\ InFlight(b) /\ status = "OFFLINE" /\ hb[b].saw # "OFFLINE" => hb[b].met
        /\ hb[b].pc = "written" => hb[b].next # "OFFLINE"

RaceInv == FreshOfflineOnlyIfRaced /\ TickMeets /\ OverwrittenMet

\* The steps of a heartbeat.
LEMMA RaceBeat ==
    ASSUME TypeOK, RaceInv, NEW b \in Beats, Arrive(b) \/ Decide(b) \/ Commit(b) \/ Lose(b)
    PROVE  RaceInv'
<1>b. /\ \A c \in Beats : InFlight(c) => hb[c] \in Beat
      /\ DOMAIN hb = Beats
  BY DEF TypeOK, InFlight
<1>1. CASE Arrive(b)
  <2> DEFINE h == [pc |-> "read", saw |-> status, age |-> 0,
                   met |-> monitor = "write", sample |-> machine]
  <2>1. hb' = [hb EXCEPT ![b] = h]
    BY <1>1 DEF Arrive, Collected
  <2>2. h.pc = "read" /\ h.saw = status /\ (monitor = "write" => h.met)
    OBVIOUS
  <2> HIDE DEF h
  <2>3. UNCHANGED <<status, age, monitor, raced>>
    BY <1>1 DEF Arrive, row
  <2> QED BY <1>b, <2>1, <2>2, <2>3 DEF RaceInv, FreshOfflineOnlyIfRaced, TickMeets,
                                        OverwrittenMet, InFlight
<1>2. CASE Decide(b)
  <2> DEFINE next == Evaluate(0, inUse, hb[b].sample.sunshine, hb[b].sample.busy)
             h == [pc |-> "written", saw |-> hb[b].saw, age |-> hb[b].age,
                   met |-> hb[b].met, next |-> next]
  <2>1. hb' = [hb EXCEPT ![b] = h] /\ hb[b].pc = "read"
    BY <1>2 DEF Decide
  <2>2. next # "OFFLINE"
    BY Verdict
  <2>3. InFlight(b)
    BY <2>1 DEF InFlight, NoBeat
  <2> HIDE DEF next
  <2>4. h.pc = "written" /\ h.saw = hb[b].saw /\ h.met = hb[b].met /\ h.next # "OFFLINE"
    BY <2>2
  <2> HIDE DEF h
  <2>5. UNCHANGED <<status, age, monitor, raced>>
    BY <1>2 DEF Decide, row
  <2> QED BY <1>b, <2>1, <2>3, <2>4, <2>5 DEF RaceInv, FreshOfflineOnlyIfRaced, TickMeets,
                                              OverwrittenMet, InFlight
<1>3. CASE Commit(b)
  <2>1. /\ hb[b].pc = "written" /\ age' = hb[b].age /\ raced' = hb[b].met
        /\ status' = IF hb[b].next = hb[b].saw THEN status ELSE hb[b].next
        /\ hb' = [hb EXCEPT ![b] = NoBeat] /\ monitor' = monitor
    BY <1>3 DEF Commit
  <2>2. InFlight(b) /\ hb[b].next # "OFFLINE"
    BY <2>1 DEF InFlight, NoBeat, RaceInv, OverwrittenMet
  <2>3. status' = "OFFLINE" => status = "OFFLINE" /\ hb[b].saw # "OFFLINE"
    BY <2>1, <2>2
  <2>4. status' = "OFFLINE" => raced'
    BY <2>1, <2>2, <2>3 DEF RaceInv, OverwrittenMet
  <2>5. monitor = "write" => raced'
    BY <2>1, <2>2 DEF RaceInv, TickMeets
  <2>6. \A c \in Beats : c # b => hb'[c] = hb[c]
    BY <1>b, <2>1
  <2>7. hb'[b] = NoBeat /\ hb'[b].pc # "written"
    BY <1>b, <2>1 DEF NoBeat
  <2>8. TickMeets'
    BY <2>1, <2>5, <2>6, <2>7 DEF RaceInv, TickMeets, InFlight
  <2>9. OverwrittenMet'
    BY <2>3, <2>6, <2>7 DEF RaceInv, OverwrittenMet, InFlight
  <2> QED BY <2>4, <2>8, <2>9 DEF RaceInv, FreshOfflineOnlyIfRaced
<1>4. CASE Lose(b)
  <2>1. hb' = [hb EXCEPT ![b] = NoBeat] /\ UNCHANGED <<status, age, monitor, raced>>
    BY <1>4 DEF Lose, row
  <2>2. /\ \A c \in Beats : c # b => hb'[c] = hb[c]
        /\ hb'[b] = NoBeat /\ hb'[b].pc # "written"
    BY <1>b, <2>1 DEF NoBeat
  <2> QED BY <2>1, <2>2 DEF RaceInv, FreshOfflineOnlyIfRaced, TickMeets, OverwrittenMet, InFlight
<1> QED BY <1>1, <1>2, <1>3, <1>4

\* The steps of the monitor and of the clock.
LEMMA RaceMonitor ==
    ASSUME TypeOK, RaceInv, Scan \/ WriteOffline \/ TickFails \/ Tick \/ Restart
    PROVE  RaceInv'
<1>0. 0 \in Ages /\ OfflineAfter \in Nat /\ age \in Ages
  BY HostAssumption DEF HostAssumption, Ages, TypeOK
<1>a. Ages \subseteq Int
  BY HostAssumption DEF HostAssumption, Ages
<1>b. \A c \in Beats : InFlight(c) => hb[c] \in Beat
  BY DEF TypeOK, InFlight
<1>1. CASE Scan
  <2>1. /\ age > OfflineAfter /\ monitor' = "write"
        /\ hb' = [b \in Beats |-> IF hb[b] = NoBeat THEN NoBeat ELSE [hb[b] EXCEPT !.met = TRUE]]
        /\ UNCHANGED <<status, age, raced>>
    BY <1>1 DEF Scan, Stale, row
  <2>2. ASSUME NEW c \in Beats
        PROVE  /\ InFlight(c)' => hb'[c].met
               /\ hb'[c].pc = "written" => hb'[c].next # "OFFLINE"
    <3>1. CASE InFlight(c)
      <4>1. hb'[c] = [hb[c] EXCEPT !.met = TRUE] /\ hb[c] \in Beat
        BY <1>b, <2>1, <3>1 DEF InFlight
      <4> QED BY <1>0, <4>1, BeatKept DEF RaceInv, OverwrittenMet
    <3>2. CASE ~InFlight(c)
      BY <2>1, <3>2 DEF InFlight, NoBeat
    <3> QED BY <3>1, <3>2
  <2>3. ~(age <= OfflineAfter)
    BY <1>0, <1>a, <2>1
  <2> QED BY <2>1, <2>2, <2>3 DEF RaceInv, FreshOfflineOnlyIfRaced, TickMeets, OverwrittenMet
<1>2. CASE WriteOffline
  <2>1. /\ monitor = "write" /\ monitor' = "sleep" /\ status' = "OFFLINE"
        /\ UNCHANGED <<age, hb, raced>>
    BY <1>2 DEF WriteOffline
  <2> QED BY <2>1 DEF RaceInv, FreshOfflineOnlyIfRaced, TickMeets, OverwrittenMet, InFlight
<1>3. CASE TickFails
  <2>1. monitor' = "sleep" /\ UNCHANGED <<status, age, hb, raced>>
    BY <1>3 DEF TickFails, row
  <2> QED BY <2>1 DEF RaceInv, FreshOfflineOnlyIfRaced, TickMeets, OverwrittenMet, InFlight
<1>4. CASE Tick
  <2>1. /\ age' = Older(age) /\ UNCHANGED <<status, monitor, raced>>
        /\ hb' = [b \in Beats |-> IF hb[b] = NoBeat THEN NoBeat
                                  ELSE [hb[b] EXCEPT !.age = Older(hb[b].age)]]
    BY <1>4 DEF Tick
  <2>2. age' <= OfflineAfter => age <= OfflineAfter
    BY <1>0, <1>a, <2>1, OlderAge
  <2>3. ASSUME NEW c \in Beats
        PROVE  /\ InFlight(c)' => InFlight(c)
               /\ InFlight(c) => hb'[c].met = hb[c].met /\ hb'[c].saw = hb[c].saw
               /\ hb'[c].pc = "written" => hb[c].pc = "written" /\ hb'[c].next = hb[c].next
    <3>1. CASE InFlight(c)
      <4>1. hb'[c] = [hb[c] EXCEPT !.age = Older(hb[c].age)] /\ hb[c] \in Beat
        BY <1>b, <2>1, <3>1 DEF InFlight
      <4>2. Older(hb[c].age) \in Ages
        BY <1>0, <4>1, BeatKept, OlderAge
      <4> QED BY <3>1, <4>1, <4>2, BeatKept
    <3>2. CASE ~InFlight(c)
      BY <2>1, <3>2 DEF InFlight, NoBeat
    <3> QED BY <3>1, <3>2
  <2> QED BY <2>1, <2>2, <2>3 DEF RaceInv, FreshOfflineOnlyIfRaced, TickMeets, OverwrittenMet
<1>5. CASE Restart
  <2>1. /\ monitor' = "sleep" /\ UNCHANGED <<status, age, raced>>
        /\ \A b \in Beats : hb'[b] = NoBeat /\ hb'[b].pc # "written"
    BY <1>5 DEF Restart, row, NoBeat
  <2> QED BY <2>1 DEF RaceInv, FreshOfflineOnlyIfRaced, TickMeets, OverwrittenMet, InFlight
<1> QED BY <1>1, <1>2, <1>3, <1>4, <1>5

\* The steps of everybody else: none of them makes a host OFFLINE.
LEMMA RaceOther ==
    ASSUME RaceInv, UNCHANGED <<age, hb, monitor, raced>>,
           status' = status \/ status' # "OFFLINE"
    PROVE  RaceInv'
BY DEF RaceInv, FreshOfflineOnlyIfRaced, TickMeets, OverwrittenMet, InFlight

\* A host that has just been heard of is OFFLINE only if that heartbeat overlapped
\* a tick of the monitor.
THEOREM FreshOfflineRaced == Spec => []FreshOfflineOnlyIfRaced
<1>1. Init => RaceInv
  <2>1. ~(Never <= OfflineAfter)
    BY HostAssumption DEF HostAssumption, Never
  <2> QED BY <2>1 DEF Init, RaceInv, FreshOfflineOnlyIfRaced, TickMeets, OverwrittenMet,
                      InFlight, NoBeat
<1>2. TypeOK /\ RaceInv /\ [Next]_vars => RaceInv'
  <2> SUFFICES ASSUME TypeOK, RaceInv, [Next]_vars PROVE RaceInv'
    OBVIOUS
  <2>1. CASE Begins \/ Ends \/ FindsIdle \/ Take \/ FindsUnused \/ Vacate \/ RequestFails
    <3>1. /\ UNCHANGED <<age, hb, monitor, raced>>
          /\ status' = status \/ status' # "OFFLINE"
      BY <2>1 DEF Begins, Ends, FindsIdle, Take, FindsUnused, Vacate, RequestFails, row
    <3> QED BY <3>1, RaceOther
  <2>2. CASE MachineChanges \/ AgentStarts \/ AgentStops \/ UNCHANGED vars
    <3>1. UNCHANGED <<status, age, hb, monitor, raced>>
      BY <2>2 DEF MachineChanges, AgentStarts, AgentStops, vars, row
    <3> QED BY <3>1, RaceOther
  <2>3. ASSUME NEW s \in Subscribers, Listen(s)
        PROVE  RaceInv'
    <3>1. UNCHANGED <<status, age, hb, monitor, raced>>
      BY <2>3 DEF Listen, row
    <3> QED BY <3>1, RaceOther
  <2> QED BY <2>1, <2>2, <2>3, RaceBeat, RaceMonitor DEF Next
<1>3. RaceInv => FreshOfflineOnlyIfRaced
  BY DEF RaceInv
<1> QED BY <1>1, <1>2, <1>3, HostTypes, PTL DEF Spec
=============================================================================
