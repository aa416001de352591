----------------------------- MODULE HostEvents -----------------------------
(***************************************************************************)
(* HostEventBroker: the in-process fan-out of host status changes to the   *)
(* administrators that listen on GET /events/hosts.                        *)
(*                                                                         *)
(* The broker runs on one event loop and neither publish nor the           *)
(* registration of a queue awaits anything, so each is one step.           *)
(***************************************************************************)
EXTENDS Naturals, Sequences, SequencesExt

CONSTANTS
    Subscribers,   \* connections of administrators
    QueueMax       \* QUEUE_MAXSIZE

ASSUME EventsAssumption == QueueMax \in Nat \ {0}

VARIABLES
    queue,    \* the queue of each registered subscriber
    shown,    \* the event each subscriber was last sent, while none waits
    newest    \* history: the event last published since each one subscribed

events == <<queue, shown, newest>>

Nothing == "nothing"

EventsInit == queue = <<>> /\ shown = <<>> /\ newest = <<>>

\* Faulty variants: what does not fit is dropped; the queue has no limit.
PushUnbounded(s, e) == Append(s, e)

PushIfRoom(s, e) == IF Len(s) = QueueMax THEN s ELSE Append(s, e)

\* put_nowait; on QueueFull the oldest event makes room.
Push(s, e) == IF Len(s) = QueueMax THEN Append(Tail(s), e) ELSE Append(s, e)

Publish(e) ==
    /\ queue'  = [s \in DOMAIN queue |-> Push(queue[s], e)]
    /\ newest' = [s \in DOMAIN queue |-> e]
    /\ shown'  = [s \in DOMAIN queue |-> Nothing]

With(f, s, v) == [x \in DOMAIN f \cup {s} |-> IF x = s THEN v ELSE f[x]]
Without(f, s) == [x \in DOMAIN f \ {s} |-> f[x]]

Subscribe(s) ==
    /\ s \notin DOMAIN queue
    /\ queue'  = With(queue, s, <<>>)
    /\ shown'  = With(shown, s, Nothing)
    /\ newest' = With(newest, s, Nothing)

\* queue.get and the chunk that carries the event.
Receive(s) ==
    /\ s \in DOMAIN queue /\ queue[s] # <<>>
    /\ shown' = [shown EXCEPT ![s] = IF Len(queue[s]) = 1 THEN Head(queue[s]) ELSE Nothing]
    /\ queue' = [queue EXCEPT ![s] = Tail(@)]
    /\ UNCHANGED newest

\* The client goes away: the generator is closed and its queue removed.
Unsubscribe(s) ==
    /\ s \in DOMAIN queue
    /\ queue'  = Without(queue, s)
    /\ shown'  = Without(shown, s)
    /\ newest' = Without(newest, s)

\* close, at the shutdown of the process, and a new broker at its start.
CloseBroker == queue' = <<>> /\ shown' = <<>> /\ newest' = <<>>

\* However slow a subscriber is, and whatever it has lost, the last event it has
\* been sent or has waiting is the last one published: a full queue never costs
\* it the newest news.
NewestKept ==
    \A s \in DOMAIN queue :
        newest[s] = IF queue[s] = <<>> THEN shown[s] ELSE Last(queue[s])
=============================================================================
