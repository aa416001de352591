---------------------------- MODULE AutoConnect ----------------------------
(***************************************************************************)
(* The automatic connection of the Moonlight client (patches 0003, 0009    *)
(* and 0010): a moonlight:// URL leaves a connect token on a computer;     *)
(* once the computer is online the client pairs with it, its local         *)
(* handshake and the Broker's relay of the PIN running side by side, waits *)
(* for its list of applications and starts to stream.                      *)
(*                                                                         *)
(* Everything runs on the main thread and one slot runs at a time, with    *)
(* the slots its signals call: each action is one of them, written as a    *)
(* function of the state m of the ComputerManager.  A token is named by    *)
(* the URL that brought it.                                                *)
(***************************************************************************)
EXTENDS Naturals, Sequences, SequencesExt

CONSTANTS
    Computers,
    Urls,          \* the moonlight:// URLs opened, each with a token of its own
    Known,         \* m_KnownHosts when the client starts
    Paired,        \* the hosts that have the client's certificate then
    None

ASSUME ComputersAssumption ==
    /\ Known \subseteq Computers /\ Paired \subseteq Computers
    /\ None \notin Computers \cup Urls

VARIABLES
    m,         \* the ComputerManager
    certified, \* the hosts that have the client's certificate
    opened,    \* the URLs opened so far
    running,   \* s_ActiveInstance is set
    stash      \* s_StashedConnects

vars == <<m, certified, opened, running, stash>>

\* The broker parameter of a URL: absent, not a URL of a host, or one.
Brokers == {"missing", "bad", "good"}

Target == [url: Urls, computer: Computers]

\* A handshake or a relay in flight, of the URL whose token began it; relayed says
\* whether the PIN was sent to the Broker at all.
Leg == [url: Urls, computer: Computers, relayed: BOOLEAN]

\* What polling last saw of a computer.
View == [online: BOOLEAN, paired: BOOLEAN, apps: BOOLEAN]

Manager ==
    [known:      SUBSET Computers,                  \* m_KnownHosts
     seen:       [Computers -> View],
     token:      [Computers -> Urls \cup {None}],   \* pendingConnectToken
     queued:     [Computers -> Urls \cup {None}],   \* m_PendingTokensByAddress
     flow:       {"idle", "pairing", "apps"},       \* m_AutoConnectState
     computer:   Computers \cup {None},             \* m_AutoConnectComputer
     timer:      BOOLEAN,                           \* m_AutoConnectTimer is active
     pairing:    Computers \cup {None},             \* m_AutoPairingComputer
     handshakes: SUBSET Leg,                        \* PendingPairingTasks running
     relays:     SUBSET Leg,                        \* POST /pairing without an answer
     attempt:    Urls \cup {None},                  \* history: whose pairing it is
     ended:      SUBSET Urls,                       \* history: streamed, failed, dropped
     foreign:    SUBSET Urls]                       \* history: ended by another's leg

Init ==
    /\ m = [known |-> Known,
            seen |-> [c \in Computers |-> [online |-> FALSE, paired |-> FALSE, apps |-> FALSE]],
            token |-> [c \in Computers |-> None], queued |-> [c \in Computers |-> None],
            flow |-> "idle", computer |-> None, timer |-> FALSE, pairing |-> None,
            handshakes |-> {}, relays |-> {}, attempt |-> None,
            ended |-> {}, foreign |-> {}]
    /\ certified = Paired
    /\ opened = {} /\ running = FALSE /\ stash = <<>>

-----------------------------------------------------------------------------
(* The flow.  x is the ComputerManager, c a computer.                      *)

\* Faulty variant: the token stays on the computer.
FinishKeepToken(x) ==
    [x EXCEPT !.flow = "idle", !.computer = None, !.timer = FALSE,
              !.ended = @ \cup {x.token[x.computer]}]

\* What scStartAutoStream, scFailAutoConnect and cancelAutoConnect have in common:
\* the timer stops, the flow is over and the token is dropped, whichever URL it
\* has come from by now.
Finish(x) ==
    [x EXCEPT !.flow = "idle", !.computer = None, !.timer = FALSE,
              !.token[x.computer] = None,
              !.ended = @ \cup {x.token[x.computer]}]

\* The last part of scEvaluateAutoConnect: stream once there is an application.
Advance(x, c) ==
    IF /\ x.token[c] # None /\ x.computer = c /\ x.flow = "apps"
       /\ x.seen[c].online /\ x.seen[c].apps
    THEN Finish(x) ELSE x

\* scHandleAutoPairingCompleted, on account of a leg of URL u.
PairingCompleted(x, c, u, success) ==
    IF x.flow # "pairing" \/ x.computer # c THEN x
    ELSE LET y == [x EXCEPT !.foreign = IF u = x.attempt THEN @ ELSE @ \cup {x.attempt}]
         IN  IF success THEN Advance([y EXCEPT !.flow = "apps"], c) ELSE Finish(y)

\* beginHeadlessPairing.  A bad broker URL fails within the call, when the handshake
\* has begun.
BeginPairing(x, c, broker) ==
    LET u   == x.token[c]
        leg == [url |-> u, computer |-> c, relayed |-> broker = "good"]
        y   == [x EXCEPT !.attempt = u]
        z   == [y EXCEPT !.handshakes = @ \cup {leg}]
    IN  IF broker = "missing" \/ x.pairing # None THEN PairingCompleted(y, c, u, FALSE)
        ELSE IF broker = "bad" THEN PairingCompleted(z, c, u, FALSE)
        ELSE [z EXCEPT !.pairing = c, !.relays = @ \cup {leg}]

\* Faulty variant: the guard timer is not started.
StartFlowUnguarded(x, c) == [x EXCEPT !.computer = c]

StartFlow(x, c) == [x EXCEPT !.computer = c, !.timer = TRUE]

\* scEvaluateAutoConnect.
Evaluate(x, c, broker) ==
    IF \/ x.token[c] = None
       \/ x.computer \notin {None, c}
       \/ ~x.seen[c].online
    THEN x
    ELSE IF x.flow # "idle" THEN Advance(x, c)
    ELSE LET y == StartFlow(x, c) IN
         IF x.seen[c].paired THEN Advance([y EXCEPT !.flow = "apps"], c)
         ELSE BeginPairing([y EXCEPT !.flow = "pairing"], c, broker)

\* A token put on a computer takes the place of the one that was there.
Stamp(x, u, c) == [x EXCEPT !.token[c] = u, !.ended = @ \cup ({x.token[c]} \ {None})]

\* requestConnect: a computer not known yet gets its token when polling finds it.
RequestConnect(x, u, c, broker) ==
    IF c \in x.known THEN Evaluate(Stamp(x, u, c), c, broker)
    ELSE [x EXCEPT !.queued[c] = u, !.ended = @ \cup ({x.queued[c]} \ {None})]

\* onPendingConnectStateChanged: the token queued for the computer's address moves
\* to the computer.
Resolve(x, c) ==
    IF x.queued[c] = None THEN x
    ELSE [Stamp(x, x.queued[c], c) EXCEPT !.queued[c] = None]

-----------------------------------------------------------------------------
(* The events.                                                             *)

\* stashPendingConnect: the URL waits for the ComputerManager if there is none.
Open(u) ==
    /\ u \notin opened /\ opened' = opened \cup {u}
    /\ \E c \in Computers :
          \/ /\ ~running
             /\ stash' = Append(stash, [url |-> u, computer |-> c])
             /\ UNCHANGED m
          \/ /\ running
             /\ \E broker \in Brokers : m' = RequestConnect(m, u, c, broker)
             /\ UNCHANGED stash
    /\ UNCHANGED <<certified, running>>

\* flushStashedConnects: the URLs are taken in the order they were opened in.
Flush(x, urls) ==
    FoldLeft(LAMBDA y, t : RequestConnect(y, t.url, t.computer, "good"), x, urls)

\* The constructor.  Polling has not begun, so no computer is online and no flow
\* starts.
Launch ==
    /\ ~running /\ running' = TRUE
    /\ m' = Flush(m, stash)
    /\ stash' = <<>>
    /\ UNCHANGED <<certified, opened>>

\* A poll, or the addition of a host that answered, finds the computer changed
\* (handleComputerStateChanged).  The list of applications comes only from a host
\* that is online and paired, and the last one is kept.
Poll(c) ==
    /\ running
    /\ c \in m.known \/ m.queued[c] # None
    /\ \E view \in View :
          /\ view # m.seen[c]
          /\ view.online => view.paired = (c \in certified)
          /\ ~view.online => c \in m.known /\ view.paired = m.seen[c].paired
          /\ view.apps = m.seen[c].apps
                \/ (view.apps /\ view.online /\ view.paired)
          /\ \E broker \in Brokers :
                m' = Evaluate(Resolve([m EXCEPT !.known = @ \cup {c}, !.seen[c] = view], c),
                              c, broker)
    /\ UNCHANGED <<certified, opened, running, stash>>

\* Faulty variant: the slot is not freed when the handshake has failed.
HandshakeResultKeepSlot(x, leg, ok) ==
    IF x.pairing # leg.computer THEN x
    ELSE PairingCompleted([x EXCEPT !.pairing = IF ok THEN None ELSE @], leg.computer, leg.url, ok)

\* scHandleHeadlessPairingResult.
HandshakeResult(x, leg, ok) ==
    IF x.pairing # leg.computer THEN x
    ELSE PairingCompleted([x EXCEPT !.pairing = None], leg.computer, leg.url, ok)

\* A handshake ends; it cannot succeed when its PIN was never sent to the Broker.
HandshakeDone(leg, ok) ==
    /\ leg \in m.handshakes
    /\ ok => leg.relayed
    /\ certified' = IF ok THEN certified \cup {leg.computer} ELSE certified
    /\ m' = HandshakeResult([m EXCEPT !.handshakes = @ \ {leg}], leg, ok)
    /\ UNCHANGED <<opened, running, stash>>

\* scHandleBrokerPairingRelayed: the answer of the Broker, an error or a timeout.
RelayResult(x, leg, ok) ==
    IF x.pairing = None \/ ok THEN x
    ELSE PairingCompleted([x EXCEPT !.pairing = None], x.pairing, leg.url, FALSE)

RelayDone(leg, ok) ==
    /\ leg \in m.relays
    /\ m' = RelayResult([m EXCEPT !.relays = @ \ {leg}], leg, ok)
    /\ UNCHANGED <<certified, opened, running, stash>>

\* scHandleAutoConnectTimeout.
Timeout == m.timer /\ m' = Finish(m) /\ UNCHANGED <<certified, opened, running, stash>>

\* cancelAutoConnect.  Like the timeout, it leaves m_AutoPairingComputer as it is.
Cancel == m.flow # "idle" /\ m' = Finish(m) /\ UNCHANGED <<certified, opened, running, stash>>

Next ==
    \/ \E u \in Urls : Open(u)
    \/ Launch
    \/ \E c \in Computers : Poll(c)
    \/ \E leg \in m.handshakes, ok \in BOOLEAN : HandshakeDone(leg, ok)
    \/ \E leg \in m.relays, ok \in BOOLEAN : RelayDone(leg, ok)
    \/ Timeout
    \/ Cancel

Spec == Init /\ [][Next]_vars

\* The guard timer of 90 s fires; nothing else need ever happen.
FairSpec == Spec /\ WF_vars(Timeout)

-----------------------------------------------------------------------------
\* The members have their types, and the three that say whether a flow runs agree
\* (the state, the computer and the guard timer of ComputerManager).
TypeOK ==
    /\ m \in Manager
    /\ certified \subseteq Computers /\ opened \subseteq Urls
    /\ running \in BOOLEAN /\ stash \in Seq(Target) /\ (running => stash = <<>>)
    /\ (m.flow = "idle") = (m.computer = None)
    /\ m.timer = (m.flow # "idle")

\* No URL is lost and none is used twice: the token of an opened URL is in exactly
\* one place, stashed, queued for an address or put on one computer, until it has
\* ended, and then in none (requestConnect, onPendingConnectStateChanged and
\* scClearPendingConnect).
Places(u) ==
    {<<"stash", i>> : i \in {j \in DOMAIN stash : stash[j].url = u}}
      \cup {<<"queued", c>> : c \in {d \in Computers : m.queued[d] = u}}
      \cup {<<"token", c>> : c \in {d \in Computers : m.token[d] = u}}
      \cup {<<"ended", u>> : v \in {u} \cap m.ended}

TokenAccounted ==
    \A u \in Urls : \/ u \notin opened /\ Places(u) = {}
                    \/ u \in opened /\ \E p \in Places(u) : Places(u) = {p}

\* A flow that pairs owns m_AutoPairingComputer, and whoever owns it has a handshake
\* in flight whose result will free it: no result is dropped that the flow, or the
\* next one, waits for (scHandleHeadlessPairingResult's early return).
PairingBacked ==
    /\ m.flow = "pairing" => m.pairing = m.computer
    /\ m.pairing # None => \E leg \in m.handshakes : leg.computer = m.pairing

\* The automatic connection always comes to an end, and leaves the client free for
\* the next one (SC_AUTOCONNECT_TIMEOUT_MS).
FlowEnds == m.flow # "idle" ~> m.flow = "idle"

\* "The orphaned pairing handshake will fail on its own and its later completion is
\* ignored because m_AutoPairingComputer is cleared here" (patch 0010, line 341): a
\* pairing is ended by its own handshake or relay, never by those of an earlier one.
EndedByItsOwnLeg == m.foreign = {}
=============================================================================
