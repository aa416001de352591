---------------------------- MODULE PairingRelay ----------------------------
(***************************************************************************)
(* The relay of a pairing PIN through the Broker: POST /pairing verifies   *)
(* the connect token once and posts the PIN to the host's Sunshine server, *)
(* again and again after a pause that doubles, until it is accepted        *)
(* (services/pairing_service.py, api/v1/pairing.py).  Meanwhile the        *)
(* Moonlight client waits for the answer, for a shorter time, and for its  *)
(* own handshake with Sunshine, for a longer one (patches 0009 and 0010).  *)
(*                                                                         *)
(* One host; an attempt to pair with it is named by its request r, and so  *)
(* are its PIN, client and pairing session.  Sunshine is not part of the   *)
(* repository: Serve and HandshakeEnds say what the code expects of it,    *)
(* including that it cannot tell whose session a PIN is meant for.         *)
(***************************************************************************)
EXTENDS Naturals

CONSTANTS
    Requests,
    MaxAttempts,       \* sunshine_pair_max_attempts
    RequestTimeout,    \* the longest a post may take, in ticks
    BackoffBase,       \* sunshine_pair_backoff_base_seconds
    ClientTimeout,     \* SC_BROKER_TIMEOUT_MS
    HandshakeTimeout,  \* SC_HEADLESS_GETSERVERCERT_TIMEOUT_MS
    None

\* The answers of the endpoint: HTTP 200; 401, 404, 409 and 422, the Broker or Sunshine
\* refuses; 502, Sunshine cannot be reached; 500.
Answers == {"paired_pending", "rejected", "unreachable", "internal_error"}

ASSUME ConstantsAssumption ==
    /\ MaxAttempts \in Nat /\ BackoffBase \in Nat
    /\ RequestTimeout \in Nat \ {0} /\ ClientTimeout \in Nat \ {0}
    /\ HandshakeTimeout \in Nat \ {0}
    /\ None \notin Answers

VARIABLES
    relay,      \* the Broker's coroutine that serves a request
    client,     \* what the client knows of the relay
    handshake,  \* the client's handshake with Sunshine
    age,        \* ticks since the client began, while it waits for anything
    session,    \* the request's pairing session at Sunshine
    stray,      \* posts the Broker no longer waits for, not yet read by Sunshine
    delivered   \* history: the requests whose sessions were given r's PIN

vars == <<relay, client, handshake, age, session, stray, delivered>>

\* What Sunshine may say to a post: {"status": true}, another 2xx, a 4xx.
Results == {"accepted", "refused", "denied"}

Relay ==
    [phase:   {"none", "sent", "post", "pause", "done"},
     attempt: Nat,
     left:    Nat,                     \* ticks the post or pause may still last
     busy:    Nat,                     \* history: ticks since the token was verified
     lost:    BOOLEAN,                 \* history: a post got no answer, or a 5xx
     served:  {"no"} \cup Results,     \* what Sunshine has said to the post
     answer:  Answers \cup {None}]

Idle == [phase |-> "none", attempt |-> 0, left |-> 0, busy |-> 0, lost |-> FALSE,
         served |-> "no", answer |-> None]

Init ==
    /\ relay = [r \in Requests |-> Idle]
    /\ client = [r \in Requests |-> "idle"]
    /\ handshake = [r \in Requests |-> "idle"]
    /\ age = [r \in Requests |-> 0]
    /\ session = [r \in Requests |-> "none"]
    /\ stray = {}
    /\ delivered = [r \in Requests |-> {}]

-----------------------------------------------------------------------------
(* The Broker.  x is the state of a relay.                                 *)

Limit == IF MaxAttempts > 1 THEN MaxAttempts ELSE 1

\* The pause after an attempt.
Delay(attempt) == BackoffBase * 2 ^ (attempt - 1)

Post(x) == [x EXCEPT !.phase = "post", !.attempt = @ + 1, !.left = RequestTimeout]

Pause(x) == [x EXCEPT !.phase = "pause", !.served = "no", !.left = Delay(x.attempt)]

\* The end of the endpoint: the audit row is written and committed, then the answer
\* goes out; if that fails the answer is an internal error.
Ends(x, answer) ==
    {[Idle EXCEPT !.phase = "done", !.lost = x.lost, !.answer = a] :
        a \in {answer, "internal_error"}}

\* Faulty variant: the last attempt is followed by another one.
RetryOnceMore(x, reason) ==
    IF x.attempt <= Limit THEN {Pause(x)} ELSE Ends(x, reason)

\* Faulty variant: nothing is raised after the last attempt.
RetryNoRaise(x, reason) ==
    IF x.attempt < Limit THEN {Pause(x)}
    ELSE {[Idle EXCEPT !.phase = "done", !.lost = x.lost]}

\* An attempt has failed for a passing reason: another one after a pause, or the end.
Retry(x, reason) ==
    IF x.attempt < Limit THEN {Pause(x)} ELSE Ends(x, reason)

\* Faulty variant: a 2xx answer is a success whatever its body says.
Outcomes2xx(x) ==
    CASE x.served \in {"accepted", "refused"} -> Ends(x, "paired_pending")
      [] x.served = "denied" -> Ends(x, "rejected")
      [] x.served = "no" -> {}

\* Faulty variant: an accepted PIN is not told from a refused one, and is posted again.
OutcomesAllRetried(x) ==
    CASE x.served \in {"accepted", "refused"} -> Retry(x, "rejected")
      [] x.served = "denied" -> Ends(x, "rejected")
      [] x.served = "no" -> {}

\* What push_pin makes of the answer to its post.
Outcomes(x) ==
    CASE x.served = "accepted" -> Ends(x, "paired_pending")
      [] x.served = "refused" -> Retry(x, "rejected")
      [] x.served = "denied" -> Ends(x, "rejected")
      [] x.served = "no" -> {}

\* pairing_endpoint up to the first post.  A token that is unknown, expired, revoked or
\* consumed is refused; the host may lack the address or the token that push_pin needs.
Verify(r) ==
    /\ relay[r].phase = "sent"
    /\ \E x \in {Post(relay[r])} \cup Ends(relay[r], "rejected") :
          relay' = [relay EXCEPT ![r] = x]
    /\ UNCHANGED <<client, handshake, age, session, stray, delivered>>

Receive(r) ==
    /\ relay[r].phase = "post"
    /\ \E x \in Outcomes(relay[r]) : relay' = [relay EXCEPT ![r] = x]
    /\ UNCHANGED <<client, handshake, age, session, stray, delivered>>

\* A transport error, the timeout or a 5xx answer of a post, which Sunshine may have
\* read or may still read.
PostFails(r) ==
    /\ relay[r].phase = "post"
    /\ \E x \in Retry([relay[r] EXCEPT !.lost = TRUE], "unreachable") :
          relay' = [relay EXCEPT ![r] = x]
    /\ stray' = IF relay[r].served = "no" THEN stray \cup {r} ELSE stray
    /\ UNCHANGED <<client, handshake, age, session, delivered>>

Resume(r) ==
    /\ relay[r].phase = "pause" /\ relay[r].left = 0
    /\ relay' = [relay EXCEPT ![r] = Post(@)]
    /\ UNCHANGED <<client, handshake, age, session, stray, delivered>>

\* The Broker's process dies: a relay under way ends without an answer.
Restart(r) ==
    /\ relay[r].phase \in {"sent", "post", "pause"}
    /\ relay' = [relay EXCEPT ![r] = [Idle EXCEPT !.phase = "done", !.answer = "internal_error"]]
    /\ stray' = IF relay[r].phase = "post" /\ relay[r].served = "no" THEN stray \cup {r}
                ELSE stray
    /\ UNCHANGED <<client, handshake, age, session, delivered>>

-----------------------------------------------------------------------------
(* The client and Sunshine.                                                *)

\* beginHeadlessPairing: the handshake and the relay begin together.
Begin(r) ==
    /\ client[r] = "idle"
    /\ client' = [client EXCEPT ![r] = "waiting"]
    /\ handshake' = [handshake EXCEPT ![r] = "running"]
    /\ relay' = [relay EXCEPT ![r].phase = "sent"]
    /\ UNCHANGED <<age, session, stray, delivered>>

\* Sunshine learns of the handshake, before or after the PIN comes.
OpenSession(r) ==
    /\ handshake[r] = "running" /\ session[r] = "none"
    /\ session' = [session EXCEPT ![r] = "waiting"]
    /\ UNCHANGED <<relay, client, handshake, age, stray, delivered>>

\* Sunshine gives the PIN of r to a waiting session; if that is another's, the PIN is
\* wrong there, and Sunshine may notice.
Give(r, s, result) ==
    /\ session[s] = "waiting"
    /\ result = "accepted" \/ (result = "refused" /\ s # r)
    /\ session' = [session EXCEPT ![s] = IF s = r THEN "paired" ELSE "spoiled"]
    /\ delivered' = [delivered EXCEPT ![r] = @ \cup {s}]

\* It gives it to none.
GiveNone(result) ==
    /\ \/ result = "refused" /\ \A s \in Requests : session[s] # "waiting"
       \/ result = "denied"
    /\ UNCHANGED <<session, delivered>>

\* Sunshine reads a post, for which the Broker may no longer wait.
Serve(r, result) ==
    /\ GiveNone(result) \/ \E s \in Requests : Give(r, s, result)
    /\ \/ /\ relay[r].phase = "post" /\ relay[r].served = "no"
          /\ relay' = [relay EXCEPT ![r].served = result]
          /\ UNCHANGED stray
       \/ /\ r \in stray /\ stray' = stray \ {r}
          /\ UNCHANGED relay
    /\ UNCHANGED <<client, handshake, age>>

\* The answer of the Broker reaches the client, if it still waits.
Answer(r) ==
    /\ relay[r].phase = "done"
    /\ relay' = [relay EXCEPT ![r] = Idle]
    /\ client' = [client EXCEPT ![r] =
                    IF @ # "waiting" THEN @
                    ELSE IF relay[r].answer = "paired_pending" THEN "relayed" ELSE "failed"]
    /\ UNCHANGED <<handshake, age, session, stray, delivered>>

\* broker_unreachable: the transfer timeout, or an error on the way.  The Broker goes on.
NoAnswer(r) ==
    /\ client[r] = "waiting"
    /\ client' = [client EXCEPT ![r] = "failed"]
    /\ UNCHANGED <<relay, handshake, age, session, stray, delivered>>

\* The handshake ends with the PIN it was given, or at its timeout, which Sunshine may
\* not notice.
HandshakeEnds(r) ==
    /\ handshake[r] = "running"
    /\ \/ /\ session[r] \in {"paired", "spoiled"}
          /\ handshake' = [handshake EXCEPT ![r] =
                             IF session[r] = "paired" THEN "paired" ELSE "failed"]
          /\ UNCHANGED session
       \/ /\ session[r] \in {"none", "waiting"} /\ age[r] >= HandshakeTimeout
          /\ handshake' = [handshake EXCEPT ![r] = "failed"]
          /\ \E s \in {session[r], "none"} : session' = [session EXCEPT ![r] = s]
    /\ UNCHANGED <<relay, client, age, stray, delivered>>

-----------------------------------------------------------------------------
(* Time passes, but not past a timeout.                                    *)

Running(r)  == relay[r].phase \in {"post", "pause"}
Awaiting(r) == client[r] = "waiting" \/ handshake[r] = "running"

Due(r) == \/ Running(r) /\ relay[r].left = 0
          \/ client[r] = "waiting" /\ age[r] >= ClientTimeout
          \/ handshake[r] = "running" /\ age[r] >= HandshakeTimeout

Tick ==
    /\ \E r \in Requests : Running(r) \/ Awaiting(r)
    /\ \A r \in Requests : ~Due(r)
    /\ relay' = [r \in Requests |->
                   IF Running(r) THEN [relay[r] EXCEPT !.left = @ - 1, !.busy = @ + 1]
                   ELSE relay[r]]
    /\ age' = [r \in Requests |-> IF Awaiting(r) THEN age[r] + 1 ELSE 0]
    /\ UNCHANGED <<client, handshake, session, stray, delivered>>

Next ==
    \/ \E r \in Requests :
          \/ Begin(r) \/ Verify(r) \/ Receive(r) \/ PostFails(r) \/ Resume(r) \/ Restart(r)
          \/ OpenSession(r) \/ Answer(r) \/ NoAnswer(r) \/ HandshakeEnds(r)
          \/ \E result \in Results : Serve(r, result)
    \/ Tick

Spec == Init /\ [][Next]_vars

-----------------------------------------------------------------------------
\* The variables have their types, and a relay has an answer when it is done
\* (pairing_endpoint returns or raises on every path).
TypeOK ==
    /\ relay \in [Requests -> Relay]
    /\ client \in [Requests -> {"idle", "waiting", "relayed", "failed"}]
    /\ handshake \in [Requests -> {"idle", "running", "paired", "failed"}]
    /\ age \in [Requests -> Nat]
    /\ session \in [Requests -> {"none", "waiting", "paired", "spoiled"}]
    /\ stray \subseteq Requests
    /\ delivered \in [Requests -> SUBSET Requests]
    /\ \A r \in Requests : (relay[r].answer = None) = (relay[r].phase # "done")

\* A relay that reports a failure has not paired its client behind its own back: the PIN
\* was given to its own session, and yet push_pin raised, only if an answer of Sunshine
\* was lost (the next attempt then finds no session) or the Broker itself failed.
RefusalTruthful ==
    \A r \in Requests :
        relay[r].phase = "done" /\ r \in delivered[r] /\ ~relay[r].lost
            => relay[r].answer \in {"paired_pending", "internal_error"}

\* A client that was told "paired_pending" has a session with its PIN, unless PINs and
\* sessions of different clients have crossed: the Broker never reports a success for a
\* PIN that Sunshine did not take.
SuccessTruthful ==
    \A r \in Requests : client[r] = "relayed" =>
        \/ session[r] = "paired"
        \/ \E s \in Requests \ {r} : r \in delivered[s] \/ s \in delivered[r]

\* The longest a relay goes on after the only look at its token: all attempts and the
\* pauses between them (the loop of push_pin).
Budget == Limit * RequestTimeout + BackoffBase * (2 ^ (Limit - 1) - 1)

\* No PIN is posted for longer than that, whatever has become of the token.
WithinBudget ==
    \A r \in Requests : Running(r) => relay[r].busy + relay[r].left <= Budget
=============================================================================
