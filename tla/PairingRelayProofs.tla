------------------------- MODULE PairingRelayProofs -------------------------
(***************************************************************************)
(* Theorems about PairingRelay for any number of attempts, any limits and  *)
(* any timeouts: what the Broker answers agrees with what Sunshine did.    *)
(* For that nothing depends on time, and the numbers in a relay need no    *)
(* type.  They do for how long a relay goes on, the second part.           *)
(***************************************************************************)
EXTENDS PairingRelay, FunctionTheorems, FiniteSetTheorems, TLAPS

\* The variables are functions of requests, and a relay is a record.
Shape ==
    /\ DOMAIN relay = Requests
    /\ \A r \in Requests : /\ DOMAIN relay[r] = DOMAIN Idle
                           /\ relay[r].served \in {"no"} \cup Results
    /\ client \in [Requests -> {"idle", "waiting", "relayed", "failed"}]
    /\ DOMAIN session = Requests
    /\ delivered \in [Requests -> SUBSET Requests]
    /\ stray \subseteq Requests

\* Why a refusal is truthful: as long as no post was lost, a session gets its own PIN
\* only from the post that is answered next, and no post is left for Sunshine to read.
Undisclosed(r) ==
    /\ client[r] = "idle" => relay[r].phase = "none"
    /\ client[r] = "idle" \/ relay[r].phase = "sent" => r \notin stray /\ delivered[r] = {}
    /\ relay[r].phase \in {"post", "pause"} /\ r \in stray => relay[r].lost
    /\ relay[r].phase = "post" /\ r \in delivered[r] /\ ~relay[r].lost
          => relay[r].served = "accepted"
    /\ relay[r].phase = "pause" /\ r \in delivered[r] => relay[r].lost
    /\ relay[r].phase = "done" /\ r \in stray
          => relay[r].lost \/ relay[r].answer = "internal_error"
    /\ relay[r].phase = "done" /\ r \in delivered[r] /\ ~relay[r].lost
          => relay[r].answer \in {"paired_pending", "internal_error"}

\* Why a success is truthful: Sunshine has taken the PIN before it says so, and neither
\* the pairing of a session nor the delivery of a PIN is undone.
Took(r) ==
    \/ session[r] = "paired"
    \/ \E s \in Requests \ {r} : r \in delivered[s] \/ s \in delivered[r]

Backed(r) ==
    /\ relay[r].phase \in {"none", "sent", "pause"} => relay[r].served = "no"
    /\ relay[r].phase = "post" /\ relay[r].served = "accepted" => Took(r)
    /\ relay[r].phase = "done" /\ relay[r].answer = "paired_pending" => Took(r)
    /\ client[r] = "relayed" => Took(r)

IInv == Shape /\ \A r \in Requests : Undisclosed(r) /\ Backed(r)

-----------------------------------------------------------------------------
\* The states a relay may be in when it ends, and when it is tried again or ends.
LEMMA EndsOutcome ==
    ASSUME NEW x, NEW answer, NEW y \in Ends(x, answer)
    PROVE  /\ DOMAIN y = DOMAIN Idle /\ y.phase = "done" /\ y.lost = x.lost /\ y.served = "no"
           /\ y.answer \in {answer, "internal_error"}
  BY DEF Ends, Idle

LEMMA RetryOutcome ==
    ASSUME NEW x, NEW reason, NEW y \in Retry(x, reason), DOMAIN x = DOMAIN Idle
    PROVE  /\ DOMAIN y = DOMAIN Idle /\ y.lost = x.lost /\ y.served = "no"
           /\ \/ y.phase = "pause"
              \/ y.phase = "done" /\ y.answer \in {reason, "internal_error"}
  <1>1. CASE y \in Ends(x, reason)
    BY <1>1, EndsOutcome
  <1>2. CASE y = Pause(x)
    BY <1>2 DEF Pause, Idle
  <1>3. QED
    BY <1>1, <1>2 DEF Retry

LEMMA PostOutcome ==
    ASSUME NEW x, DOMAIN x = DOMAIN Idle
    PROVE  /\ DOMAIN Post(x) = DOMAIN Idle /\ Post(x).phase = "post"
           /\ Post(x).lost = x.lost /\ Post(x).served = x.served
  BY DEF Post, Idle

\* What push_pin makes of an answer: a success of an accepted post only, and nothing of
\* a post without answer.
LEMMA ReceiveOutcome ==
    ASSUME NEW x, DOMAIN x = DOMAIN Idle, x.served \in {"no"} \cup Results,
           NEW y \in Outcomes(x)
    PROVE  /\ DOMAIN y = DOMAIN Idle /\ y.lost = x.lost /\ y.served = "no"
           /\ \/ x.served # "accepted" /\ y.phase = "pause"
              \/ x.served # "accepted" /\ y.phase = "done"
                 /\ y.answer \in {"rejected", "internal_error"}
              \/ x.served = "accepted" /\ y.phase = "done"
                 /\ y.answer \in {"paired_pending", "internal_error"}
  <1>1. CASE x.served = "accepted"
    BY <1>1, EndsOutcome DEF Outcomes
  <1>2. CASE x.served = "refused"
    BY <1>2, RetryOutcome DEF Outcomes
  <1>3. CASE x.served = "denied"
    BY <1>3, EndsOutcome DEF Outcomes
  <1>4. CASE x.served = "no"
    BY <1>4 DEF Outcomes
  <1>5. QED
    BY <1>1, <1>2, <1>3, <1>4 DEF Results

\* Deliveries and pairings are never undone.
LEMMA TookStable ==
    ASSUME NEW r \in Requests, Took(r),
           session[r] = "paired" => session'[r] = "paired",
           \A s \in Requests : delivered[s] \subseteq delivered'[s]
    PROVE  Took(r)'
  BY DEF Took

-----------------------------------------------------------------------------
\* IInv is an invariant: one step for each action.
LEMMA IInvInit == Init => IInv
  BY DEF Init, IInv, Shape, Undisclosed, Backed, Idle

LEMMA IInvStep == IInv /\ [Next]_vars => IInv'
  <1> SUFFICES ASSUME IInv, [Next]_vars PROVE IInv'
    OBVIOUS
  <1> USE DEF IInv
  <1>1. ASSUME NEW r \in Requests, Verify(r) PROVE IInv'
    <2>1. PICK x \in {Post(relay[r])} \cup Ends(relay[r], "rejected") :
             relay' = [relay EXCEPT ![r] = x]
      BY <1>1 DEF Verify
    <2>2. /\ DOMAIN x = DOMAIN Idle /\ x.served = "no"
          /\ \/ x.phase = "post"
             \/ x.phase = "done" /\ x.answer \in {"rejected", "internal_error"}
      BY <1>1, <2>1, PostOutcome, EndsOutcome DEF Verify, Shape, Backed
    <2>3. QED
      BY <1>1, <2>1, <2>2 DEF Verify, Shape, Undisclosed, Backed, Took
  <1>2. ASSUME NEW r \in Requests, Receive(r) PROVE IInv'
    <2>1. PICK x \in Outcomes(relay[r]) : relay' = [relay EXCEPT ![r] = x]
      BY <1>2 DEF Receive
    <2>2. /\ DOMAIN x = DOMAIN Idle /\ x.lost = relay[r].lost /\ x.served = "no"
          /\ \/ relay[r].served # "accepted" /\ x.phase = "pause"
             \/ relay[r].served # "accepted" /\ x.phase = "done"
                /\ x.answer \in {"rejected", "internal_error"}
             \/ relay[r].served = "accepted" /\ x.phase = "done"
                /\ x.answer \in {"paired_pending", "internal_error"}
      BY <1>2, <2>1, ReceiveOutcome DEF Receive, Shape
    <2>3. QED
      BY <1>2, <2>1, <2>2 DEF Receive, Shape, Undisclosed, Backed, Took
  <1>3. ASSUME NEW r \in Requests, PostFails(r) PROVE IInv'
    <2> DEFINE y == [relay[r] EXCEPT !.lost = TRUE]
    <2>1. PICK x \in Retry(y, "unreachable") : relay' = [relay EXCEPT ![r] = x]
      BY <1>3 DEF PostFails
    <2>2. DOMAIN y = DOMAIN Idle /\ y.lost = TRUE
      BY DEF Shape, Idle
    <2> HIDE DEF y
    <2>3. /\ DOMAIN x = DOMAIN Idle /\ x.lost = TRUE /\ x.served = "no"
          /\ \/ x.phase = "pause"
             \/ x.phase = "done" /\ x.answer \in {"unreachable", "internal_error"}
      BY <2>1, <2>2, RetryOutcome
    <2>4. QED
      BY <1>3, <2>1, <2>3 DEF PostFails, Shape, Undisclosed, Backed, Took
  <1>4. ASSUME NEW r \in Requests, Resume(r) PROVE IInv'
    <2>1. relay' = [relay EXCEPT ![r] = Post(relay[r])]
      BY <1>4 DEF Resume
    <2>2. /\ DOMAIN relay'[r] = DOMAIN Idle /\ relay'[r].phase = "post"
          /\ relay'[r].lost = relay[r].lost /\ relay'[r].served = "no"
      BY <1>4, <2>1, PostOutcome DEF Resume, Shape, Backed
    <2>3. QED
      BY <1>4, <2>1, <2>2 DEF Resume, Shape, Undisclosed, Backed, Took
  <1>5. ASSUME NEW r \in Requests, Restart(r) PROVE IInv'
    BY <1>5 DEF Restart, Shape, Undisclosed, Backed, Took, Idle
  <1>6. ASSUME NEW r \in Requests, Begin(r) PROVE IInv'
    BY <1>6 DEF Begin, Shape, Undisclosed, Backed, Took
  <1>7. ASSUME NEW r \in Requests, OpenSession(r) PROVE IInv'
    BY <1>7 DEF OpenSession, Shape, Undisclosed, Backed, Took
  <1>8. ASSUME NEW r \in Requests, NEW result \in Results, Serve(r, result) PROVE IInv'
    <2>1. CASE GiveNone(result)
      BY <1>8, <2>1 DEF Serve, GiveNone, Shape, Undisclosed, Backed, Took, Results, Idle
    <2>2. ASSUME NEW s \in Requests, Give(r, s, result) PROVE IInv'
      <3>1. Shape'
        BY <1>8, <2>2 DEF Serve, Give, Shape, Idle
      <3>2. ASSUME NEW q \in Requests PROVE Undisclosed(q)'
        BY <1>8, <2>2, <3>2 DEF Serve, Give, Shape, Undisclosed, Idle
      <3>3. result = "accepted" => Took(r)'
        BY <2>2 DEF Give, Shape, Took
      <3>4. ASSUME NEW q \in Requests, Took(q) PROVE Took(q)'
        BY <2>2, <3>4, TookStable DEF Give, Shape
      <3>5. ASSUME NEW q \in Requests PROVE Backed(q)'
        BY <1>8, <3>3, <3>4, <3>5 DEF Serve, Shape, Backed, Idle
      <3>6. QED
        BY <3>1, <3>2, <3>5
    <2>3. QED
      BY <1>8, <2>1, <2>2 DEF Serve
  <1>9. ASSUME NEW r \in Requests, Answer(r) PROVE IInv'
    BY <1>9 DEF Answer, Shape, Undisclosed, Backed, Took, Idle
  <1>10. ASSUME NEW r \in Requests, NoAnswer(r) PROVE IInv'
    BY <1>10 DEF NoAnswer, Shape, Undisclosed, Backed, Took
  <1>11. ASSUME NEW r \in Requests, HandshakeEnds(r) PROVE IInv'
    BY <1>11 DEF HandshakeEnds, Shape, Undisclosed, Backed, Took
  <1>12. CASE Tick
    <2>1. ASSUME NEW r \in Requests
          PROVE  /\ DOMAIN relay'[r] = DOMAIN Idle
                 /\ relay'[r].phase = relay[r].phase /\ relay'[r].lost = relay[r].lost
                 /\ relay'[r].served = relay[r].served /\ relay'[r].answer = relay[r].answer
      BY <1>12, <2>1 DEF Tick, Shape, Idle
    <2>2. DOMAIN relay' = Requests
      BY <1>12 DEF Tick
    <2>3. UNCHANGED <<client, session, stray, delivered>>
      BY <1>12 DEF Tick
    <2>4. QED
      BY <2>1, <2>2, <2>3 DEF Shape, Undisclosed, Backed, Took
  <1>13. CASE UNCHANGED vars
    BY <1>13 DEF vars, Shape, Undisclosed, Backed, Took
  <1>14. QED
    BY <1>1, <1>2, <1>3, <1>4, <1>5, <1>6, <1>7, <1>8, <1>9, <1>10, <1>11, <1>12, <1>13
       DEF Next

THEOREM Invariance == Spec => []IInv
  BY IInvInit, IInvStep, PTL DEF Spec

\* A relay reports a failure although its client's session has its PIN only after a lost
\* answer or a failure of the Broker itself (push_pin and pairing_endpoint).
THEOREM Refusals == Spec => []RefusalTruthful
  <1>1. IInv => RefusalTruthful
    BY DEF IInv, Undisclosed, RefusalTruthful
  <1>2. QED
    BY <1>1, Invariance, PTL

\* A client that was told "paired_pending" has a session with its PIN, unless PINs have
\* crossed.
THEOREM Successes == Spec => []SuccessTruthful
  <1>1. IInv => SuccessTruthful
    BY DEF IInv, Backed, Took, SuccessTruthful
  <1>2. QED
    BY <1>1, Invariance, PTL

-----------------------------------------------------------------------------
(* Powers of two.  Nothing is known of them to start from but how many     *)
(* subsets a finite set has.                                               *)

\* Powers of two are natural numbers that double and grow: 2^n counts the subsets of 1..n.
LEMMA PowerCounts ==
    ASSUME NEW n \in Nat
    PROVE  IsFiniteSet(SUBSET (1..n)) /\ Cardinality(SUBSET (1..n)) = 2 ^ n
<1>1. IsFiniteSet(1..n) /\ Cardinality(1..n) = n
  BY FS_Interval
<1> QED BY <1>1, FS_SUBSET

LEMMA PowerZero == 2 ^ 0 = 1
  OBVIOUS

LEMMA PowerType == \A n \in Nat : 2 ^ n \in Nat
  BY PowerCounts, FS_CardinalityType

LEMMA PowerGrows ==
    ASSUME NEW m \in Nat, NEW n \in Nat, m <= n
    PROVE  2 ^ m <= 2 ^ n
<1>1. SUBSET (1..m) \in SUBSET (SUBSET (1..n))
  BY SMT
<1>2. Cardinality(SUBSET (1..m)) <= Cardinality(SUBSET (1..n))
  BY <1>1, PowerCounts, FS_Subset
<1> QED BY <1>2, PowerCounts, Zenon

LEMMA PowerDoubles ==
    ASSUME NEW n \in Nat
    PROVE  2 ^ (n + 1) = 2 ^ n + 2 ^ n
<1> DEFINE S == SUBSET (1..n)
           T == (SUBSET (1..(n + 1))) \ S
           f == [s \in S |-> s \cup {n + 1}]
<1>1. /\ IsFiniteSet(S) /\ Cardinality(S) = 2 ^ n
      /\ IsFiniteSet(SUBSET (1..(n + 1))) /\ Cardinality(SUBSET (1..(n + 1))) = 2 ^ (n + 1)
  BY PowerCounts
<1>2. S \subseteq SUBSET (1..(n + 1))
  OBVIOUS
<1>3. f \in Bijection(S, T)
  <2>1. \A s \in S : f[s] \in T
    OBVIOUS
  <2>2. \A s, t \in S : f[s] = f[t] => s = t
    <3>1. ASSUME NEW s \in S, NEW t \in S, s \cup {n + 1} = t \cup {n + 1}
          PROVE  s = t
      <4>1. n + 1 \notin s /\ n + 1 \notin t
        OBVIOUS
      <4> QED BY <3>1, <4>1
    <3> QED BY <3>1
  <2>3. \A t \in T : \E s \in S : f[s] = t
    <3>1. ASSUME NEW t \in T
          PROVE  \E s \in S : f[s] = t
      <4>1. t \ {n + 1} \in S /\ n + 1 \in t
        BY <3>1
      <4>2. (t \ {n + 1}) \cup {n + 1} = t
        BY <4>1
      <4>3. f[t \ {n + 1}] = t
        BY <4>1, <4>2
      <4> QED BY <4>1, <4>3
    <3> QED BY <3>1
  <2> QED BY <2>1, <2>2, <2>3, Fun_IsBij
<1>4. IsFiniteSet(T) /\ Cardinality(T) = 2 ^ n
  <2> HIDE DEF S, T, f
  <2> QED BY <1>1, <1>3, FS_Bijection DEF ExistsBijection
<1>5. S \cup T = SUBSET (1..(n + 1)) /\ S \cap T = {}
  BY <1>2
<1>6. Cardinality(S \cup T) = Cardinality(S) + Cardinality(T) - Cardinality(S \cap T)
  <2> HIDE DEF S, T
  <2> QED BY <1>1, <1>4, FS_Union
<1>7. PICK p \in Nat : p = 2 ^ n
  BY PowerType
<1>8. Cardinality(S \cup T) = p + p
  <2> HIDE DEF S, T
  <2>1. Cardinality(S) = p /\ Cardinality(T) = p
    BY <1>1, <1>4, <1>7, Zenon
  <2>2. Cardinality(S \cap T) = 0
    BY <1>5, FS_EmptySet, Zenon
  <2> QED BY <1>6, <2>1, <2>2
<1> QED BY <1>1, <1>5, <1>7, <1>8, Zenon

-----------------------------------------------------------------------------
(* How long a relay goes on.                                               *)

\* The longest that attempts 1 to a and the pauses between them may take.
Spent(a) == a * RequestTimeout + BackoffBase * (2 ^ (a - 1) - 1)

\* A relay's numbers: the attempts it has made, and that the time since its token was
\* verified and what is left of its post or pause are within what those may take.
Bounded(x) ==
    /\ x \in Relay /\ (x.answer = None) = (x.phase # "done")
    /\ x.phase \notin {"post", "pause"} => x.attempt = 0 /\ x.left = 0 /\ x.busy = 0
    /\ x.phase = "post" => /\ x.attempt \in 1..Limit
                           /\ x.busy + x.left <= Spent(x.attempt)
    /\ x.phase = "pause" => /\ x.attempt \in 1..(Limit - 1)
                            /\ x.busy + x.left <= Spent(x.attempt) + Delay(x.attempt)

BudgetInv == TypeOK /\ \A r \in Requests : Bounded(relay[r])

LEMMA Limits == Limit \in Nat \ {0} /\ Budget = Spent(Limit)
  BY ConstantsAssumption DEF ConstantsAssumption, Limit, Budget, Spent

LEMMA SpentFirst == Spent(1) = RequestTimeout
<1>1. 1 - 1 = 0 /\ 2 ^ 0 - 1 = 0 /\ BackoffBase * 0 = 0
  BY PowerZero, ConstantsAssumption DEF ConstantsAssumption
<1>2. Spent(1) = 1 * RequestTimeout + 0
  BY <1>1, Zenon DEF Spent
<1> QED BY <1>2, ConstantsAssumption DEF ConstantsAssumption

LEMMA SpentTypes ==
    ASSUME NEW a \in Nat \ {0}
    PROVE  Spent(a) \in Int /\ Delay(a) \in Nat
<1>1. PICK p \in Nat : p = 2 ^ (a - 1)
  BY PowerType
<1>2. Spent(a) = a * RequestTimeout + BackoffBase * (p - 1) /\ Delay(a) = BackoffBase * p
  BY <1>1, Zenon DEF Spent, Delay
<1> QED BY <1>2, ConstantsAssumption DEF ConstantsAssumption

\* One more attempt adds the pause before it and its post.
LEMMA SpentStep ==
    ASSUME NEW a \in Nat \ {0}
    PROVE  Spent(a + 1) = Spent(a) + Delay(a) + RequestTimeout
<1>1. PICK p \in Nat : p = 2 ^ (a - 1)
  BY PowerType
<1>2. 2 ^ a = p + p
  <2>1. a - 1 \in Nat /\ (a - 1) + 1 = a
    OBVIOUS
  <2> QED BY <1>1, <2>1, PowerDoubles, Zenon
<1>3. (a + 1) - 1 = a
  OBVIOUS
<1>4. /\ Spent(a) = a * RequestTimeout + BackoffBase * (p - 1) /\ Delay(a) = BackoffBase * p
      /\ Spent(a + 1) = (a + 1) * RequestTimeout + BackoffBase * ((p + p) - 1)
  BY <1>1, <1>2, <1>3, Zenon DEF Spent, Delay
<1> QED BY <1>4, ConstantsAssumption DEF ConstantsAssumption

LEMMA SpentGrows ==
    ASSUME NEW a \in Nat \ {0}, NEW b \in Nat, a <= b
    PROVE  Spent(a) <= Spent(b)
<1>1. PICK p \in Nat, q \in Nat : p = 2 ^ (a - 1) /\ q = 2 ^ (b - 1)
  BY PowerType
<1>2. p <= q
  <2>1. a - 1 \in Nat /\ b - 1 \in Nat /\ a - 1 <= b - 1
    OBVIOUS
  <2> QED BY <1>1, <2>1, PowerGrows, Zenon
<1>3. /\ Spent(a) = a * RequestTimeout + BackoffBase * (p - 1)
      /\ Spent(b) = b * RequestTimeout + BackoffBase * (q - 1)
  BY <1>1, Zenon DEF Spent
<1>4. a * RequestTimeout <= b * RequestTimeout /\ BackoffBase * (p - 1) <= BackoffBase * (q - 1)
  BY <1>2, ConstantsAssumption DEF ConstantsAssumption
<1> QED BY <1>3, <1>4, ConstantsAssumption DEF ConstantsAssumption

\* The ends of a relay, and another attempt or the end.
LEMMA EndsBounded ==
    ASSUME NEW x \in Relay, NEW answer \in Answers, NEW y \in Ends(x, answer)
    PROVE  Bounded(y)
<1>1. PICK a \in {answer, "internal_error"} :
        y = [Idle EXCEPT !.phase = "done", !.lost = x.lost, !.answer = a]
  BY DEF Ends
<1>2. a \in Answers /\ a # None
  BY ConstantsAssumption DEF ConstantsAssumption, Answers
<1>3. y = [phase |-> "done", attempt |-> 0, left |-> 0, busy |-> 0, lost |-> x.lost,
           served |-> "no", answer |-> a]
  BY <1>1 DEF Idle
<1> QED BY <1>2, <1>3 DEF Bounded, Relay

LEMMA PauseBounded ==
    ASSUME NEW x, Bounded(x), x.phase = "post", x.attempt < Limit
    PROVE  Bounded(Pause(x))
<1>1. /\ x \in Relay /\ x.answer = None /\ x.attempt \in Nat \ {0} /\ x.busy \in Nat
      /\ x.left \in Nat /\ x.busy + x.left <= Spent(x.attempt)
  BY DEF Bounded, Relay
<1>2. Spent(x.attempt) \in Int /\ Delay(x.attempt) \in Nat
  BY <1>1, SpentTypes
<1>3. /\ Pause(x) \in Relay /\ Pause(x).phase = "pause" /\ Pause(x).answer = None
      /\ Pause(x).attempt = x.attempt /\ Pause(x).busy = x.busy
      /\ Pause(x).left = Delay(x.attempt)
  BY <1>1, <1>2 DEF Pause, Relay
<1>4. x.attempt \in 1..(Limit - 1)
  BY <1>1, Limits
<1>5. x.busy + Delay(x.attempt) <= Spent(x.attempt) + Delay(x.attempt)
  BY <1>1, <1>2
<1> QED BY <1>3, <1>4, <1>5 DEF Bounded

LEMMA RetryBounded ==
    ASSUME NEW x, Bounded(x), x.phase = "post", NEW reason \in Answers, NEW y \in Retry(x, reason)
    PROVE  Bounded(y)
<1>1. x \in Relay
  BY DEF Bounded
<1> QED BY <1>1, PauseBounded, EndsBounded DEF Retry

LEMMA ReceiveBounded ==
    ASSUME NEW x, Bounded(x), x.phase = "post", NEW y \in Outcomes(x)
    PROVE  Bounded(y)
<1>1. x \in Relay /\ x.served \in {"no"} \cup Results
  BY DEF Bounded, Relay
<1>2. {"paired_pending", "rejected"} \subseteq Answers
  BY DEF Answers
<1>3. \/ y \in Ends(x, "paired_pending") \/ y \in Ends(x, "rejected")
      \/ y \in Retry(x, "rejected")
  BY <1>1 DEF Outcomes, Results
<1> QED BY <1>1, <1>2, <1>3, EndsBounded, RetryBounded

\* A post begins after the token was verified, or when a pause is over.
LEMMA PostBounded ==
    ASSUME NEW x, Bounded(x), x.phase = "sent" \/ (x.phase = "pause" /\ x.left = 0)
    PROVE  Bounded(Post(x))
<1>1. /\ x \in Relay /\ x.answer = None /\ x.attempt \in Nat /\ x.busy \in Nat
      /\ RequestTimeout \in Nat
  BY ConstantsAssumption DEF Bounded, Relay, ConstantsAssumption
<1>2. /\ Post(x) \in Relay /\ Post(x).phase = "post" /\ Post(x).answer = None
      /\ Post(x).attempt = x.attempt + 1 /\ Post(x).busy = x.busy
      /\ Post(x).left = RequestTimeout
  <2>1. PICK n \in Nat : n = x.attempt + 1
    BY <1>1
  <2>2. Post(x) = [x EXCEPT !.phase = "post", !.attempt = n, !.left = RequestTimeout]
    BY <1>1, <2>1 DEF Post, Relay
  <2> QED BY <1>1, <2>1, <2>2 DEF Relay
<1>3. x.attempt + 1 \in 1..Limit /\ x.busy + RequestTimeout <= Spent(x.attempt + 1)
  <2>1. CASE x.phase = "sent"
    <3>1. x.attempt = 0 /\ x.busy = 0
      BY <2>1 DEF Bounded
    <3> QED BY <1>1, <3>1, SpentFirst, Limits
  <2>2. CASE x.phase = "pause" /\ x.left = 0
    <3>1. /\ x.attempt \in 1..(Limit - 1)
          /\ x.busy <= Spent(x.attempt) + Delay(x.attempt)
      BY <1>1, <2>2 DEF Bounded
    <3>2. /\ Spent(x.attempt) \in Int /\ Delay(x.attempt) \in Nat
          /\ Spent(x.attempt + 1) = Spent(x.attempt) + Delay(x.attempt) + RequestTimeout
      BY <3>1, Limits, SpentTypes, SpentStep
    <3> QED BY <1>1, <3>1, <3>2, Limits
  <2> QED BY <2>1, <2>2
<1> QED BY <1>2, <1>3 DEF Bounded

\* A tick takes from what is left what it adds to what is past.
LEMMA TickBounded ==
    ASSUME NEW x, Bounded(x), x.phase \in {"post", "pause"}, x.left # 0
    PROVE  Bounded([x EXCEPT !.left = @ - 1, !.busy = @ + 1])
<1> DEFINE y == [x EXCEPT !.left = @ - 1, !.busy = @ + 1]
<1>1. x \in Relay /\ x.left \in Nat /\ x.busy \in Nat
  BY DEF Bounded, Relay
<1>2. x.left - 1 \in Nat /\ x.busy + 1 \in Nat /\ (x.busy + 1) + (x.left - 1) = x.busy + x.left
  BY <1>1
<1>3. /\ y \in Relay /\ y.phase = x.phase /\ y.answer = x.answer /\ y.attempt = x.attempt
      /\ y.left = x.left - 1 /\ y.busy = x.busy + 1
  BY <1>1, <1>2 DEF Relay
<1> HIDE DEF y
<1>4. Bounded(y)
  BY <1>2, <1>3 DEF Bounded
<1> QED BY <1>4 DEF y

\* What a relay is told, and that it begins, changes none of its numbers.
LEMMA SameNumbers ==
    ASSUME NEW x, Bounded(x)
    PROVE  /\ \A result \in Results : Bounded([x EXCEPT !.served = result])
           /\ Bounded([x EXCEPT !.lost = TRUE])
           /\ x.phase = "none" => Bounded([x EXCEPT !.phase = "sent"])
<1>1. x \in Relay
  BY DEF Bounded
<1>2. ASSUME NEW y \in Relay, y.phase = x.phase, y.answer = x.answer, y.attempt = x.attempt,
             y.left = x.left, y.busy = x.busy
      PROVE  Bounded(y)
  BY <1>2 DEF Bounded
<1>3. ASSUME NEW result \in Results
      PROVE  Bounded([x EXCEPT !.served = result])
  <2> DEFINE y == [x EXCEPT !.served = result]
  <2>1. /\ y \in Relay /\ y.phase = x.phase /\ y.answer = x.answer /\ y.attempt = x.attempt
        /\ y.left = x.left /\ y.busy = x.busy
    BY <1>1 DEF Relay
  <2> HIDE DEF y
  <2>2. Bounded(y)
    BY <1>2, <2>1
  <2> QED BY <2>2 DEF y
<1>4. Bounded([x EXCEPT !.lost = TRUE])
  <2> DEFINE y == [x EXCEPT !.lost = TRUE]
  <2>1. /\ y \in Relay /\ y.phase = x.phase /\ y.answer = x.answer /\ y.attempt = x.attempt
        /\ y.left = x.left /\ y.busy = x.busy
    BY <1>1 DEF Relay
  <2> HIDE DEF y
  <2>2. Bounded(y)
    BY <1>2, <2>1
  <2> QED BY <2>2 DEF y
<1>5. x.phase = "none" => Bounded([x EXCEPT !.phase = "sent"])
  BY <1>1 DEF Bounded, Relay
<1> QED BY <1>3, <1>4, <1>5

\* The relays of a state, and those after a step of one of them.
Relays == relay \in [Requests -> Relay] /\ \A r \in Requests : Bounded(relay[r])

LEMMA RelayStep ==
    ASSUME Relays, NEW r \in Requests, NEW x, Bounded(x), relay' = [relay EXCEPT ![r] = x]
    PROVE  Relays'
<1>1. x \in Relay
  BY DEF Bounded
<1>2. \A q \in Requests : relay'[q] = IF q = r THEN x ELSE relay[q]
  BY DEF Relays
<1> QED BY <1>1, <1>2 DEF Relays

\* The types of what is not the Broker's.
OthersTyped ==
    /\ client \in [Requests -> {"idle", "waiting", "relayed", "failed"}]
    /\ handshake \in [Requests -> {"idle", "running", "paired", "failed"}]
    /\ age \in [Requests -> Nat]
    /\ session \in [Requests -> {"none", "waiting", "paired", "spoiled"}]
    /\ stray \subseteq Requests
    /\ delivered \in [Requests -> SUBSET Requests]

LEMMA InvParts == BudgetInv <=> Relays /\ OthersTyped
BY DEF BudgetInv, TypeOK, Relays, OthersTyped, Bounded

LEMMA RelaysKept ==
    ASSUME IInv, Relays, OthersTyped, [Next]_vars
    PROVE  Relays'
<1>0. \A r \in Requests : Bounded(relay[r]) /\ relay[r] \in Relay
  BY DEF Relays
<1>1. ASSUME NEW r \in Requests, Verify(r) PROVE Relays'
  <2>1. PICK x \in {Post(relay[r])} \cup Ends(relay[r], "rejected") :
          relay' = [relay EXCEPT ![r] = x]
    BY <1>1 DEF Verify
  <2>2. relay[r].phase = "sent" /\ "rejected" \in Answers
    BY <1>1 DEF Verify, Answers
  <2>3. Bounded(x)
    BY <1>0, <2>1, <2>2, PostBounded, EndsBounded
  <2> QED BY <2>1, <2>3, RelayStep
<1>2. ASSUME NEW r \in Requests, Receive(r) PROVE Relays'
  <2>1. PICK x \in Outcomes(relay[r]) : relay' = [relay EXCEPT ![r] = x]
    BY <1>2 DEF Receive
  <2>2. Bounded(x)
    BY <1>0, <1>2, <2>1, ReceiveBounded DEF Receive
  <2> QED BY <2>1, <2>2, RelayStep
<1>3. ASSUME NEW r \in Requests, PostFails(r) PROVE Relays'
  <2> DEFINE y == [relay[r] EXCEPT !.lost = TRUE]
  <2>1. PICK x \in Retry(y, "unreachable") : relay' = [relay EXCEPT ![r] = x]
    BY <1>3 DEF PostFails
  <2>2. Bounded(y) /\ y.phase = "post" /\ "unreachable" \in Answers
    BY <1>0, <1>3, SameNumbers DEF PostFails, Relay, Answers
  <2> HIDE DEF y
  <2>3. Bounded(x)
    BY <2>1, <2>2, RetryBounded
  <2> QED BY <2>1, <2>3, RelayStep
<1>4. ASSUME NEW r \in Requests, Resume(r) PROVE Relays'
  <2>1. relay' = [relay EXCEPT ![r] = Post(relay[r])]
    BY <1>4 DEF Resume
  <2>2. Bounded(Post(relay[r]))
    BY <1>0, <1>4, PostBounded DEF Resume
  <2> QED BY <2>1, <2>2, RelayStep
<1>5. ASSUME NEW r \in Requests, Restart(r) PROVE Relays'
  <2> DEFINE x == [Idle EXCEPT !.phase = "done", !.answer = "internal_error"]
  <2>1. relay' = [relay EXCEPT ![r] = x]
    BY <1>5 DEF Restart
  <2>2. "internal_error" # None
    BY ConstantsAssumption DEF ConstantsAssumption, Answers
  <2>3. Bounded(x)
    BY <2>2 DEF Bounded, Idle, Relay, Answers
  <2> HIDE DEF x
  <2> QED BY <2>1, <2>3, RelayStep
<1>6. ASSUME NEW r \in Requests, Begin(r) PROVE Relays'
  <2> DEFINE x == [relay[r] EXCEPT !.phase = "sent"]
  <2>1. relay' = [relay EXCEPT ![r] = x]
    BY <1>6 DEF Begin
  <2>2. relay[r].phase = "none"
    BY <1>6 DEF Begin, IInv, Undisclosed
  <2>3. Bounded(x)
    BY <1>0, <2>2, SameNumbers
  <2> HIDE DEF x
  <2> QED BY <2>1, <2>3, RelayStep
<1>7. ASSUME NEW r \in Requests, NEW result \in Results, Serve(r, result) PROVE Relays'
  <2>1. CASE relay' = [relay EXCEPT ![r].served = result]
    <3> DEFINE x == [relay[r] EXCEPT !.served = result]
    <3>1. relay' = [relay EXCEPT ![r] = x]
      BY <2>1
    <3>2. Bounded(x)
      BY <1>0, SameNumbers
    <3> HIDE DEF x
    <3> QED BY <3>1, <3>2, RelayStep
  <2>2. CASE relay' = relay
    BY <2>2 DEF Relays
  <2> QED BY <1>7, <2>1, <2>2 DEF Serve
<1>8. ASSUME NEW r \in Requests, Answer(r) PROVE Relays'
  <2>1. relay' = [relay EXCEPT ![r] = Idle]
    BY <1>8 DEF Answer
  <2>2. Bounded(Idle)
    BY DEF Bounded, Idle, Relay
  <2> QED BY <2>1, <2>2, RelayStep
<1>9. CASE Tick
  <2>1. ASSUME NEW r \in Requests
        PROVE  Bounded(relay'[r])
    <3>1. CASE Running(r)
      <4>1. relay'[r] = [relay[r] EXCEPT !.left = @ - 1, !.busy = @ + 1]
        BY <1>9, <3>1 DEF Tick
      <4>2. relay[r].phase \in {"post", "pause"} /\ relay[r].left # 0
        BY <1>9, <3>1 DEF Tick, Running, Due
      <4> QED BY <1>0, <4>1, <4>2, TickBounded
    <3>2. CASE ~Running(r)
      <4>1. relay'[r] = relay[r]
        BY <1>9, <3>2 DEF Tick
      <4> QED BY <1>0, <4>1
    <3> QED BY <3>1, <3>2
  <2>2. relay' = [r \in Requests |-> relay'[r]]
    BY <1>9 DEF Tick
  <2> QED BY <2>1, <2>2 DEF Relays, Bounded
<1>10. CASE \/ UNCHANGED vars
            \/ \E r \in Requests : OpenSession(r) \/ NoAnswer(r) \/ HandshakeEnds(r)
  <2>1. relay' = relay
    BY <1>10 DEF vars, OpenSession, NoAnswer, HandshakeEnds
  <2> QED BY <2>1 DEF Relays
<1> QED BY <1>1, <1>2, <1>3, <1>4, <1>5, <1>6, <1>7, <1>8, <1>9, <1>10 DEF Next

LEMMA OthersTypesKept ==
    ASSUME OthersTyped, [Next]_vars
    PROVE  OthersTyped'
<1> USE DEF OthersTyped
<1>1. ASSUME NEW r \in Requests,
             \/ Begin(r) \/ Verify(r) \/ Receive(r) \/ PostFails(r) \/ Resume(r) \/ Restart(r)
             \/ OpenSession(r) \/ Answer(r) \/ NoAnswer(r)
      PROVE  OthersTyped'
  BY <1>1 DEF Begin, Verify, Receive, PostFails, Resume, Restart, OpenSession, Answer, NoAnswer
<1>2. ASSUME NEW r \in Requests, HandshakeEnds(r)
      PROVE  OthersTyped'
  <2>1. PICK s \in {session[r], "none"} : session' \in {session, [session EXCEPT ![r] = s]}
    BY <1>2 DEF HandshakeEnds
  <2> QED BY <1>2, <2>1 DEF HandshakeEnds
<1>3. ASSUME NEW r \in Requests, NEW result \in Results, Serve(r, result)
      PROVE  OthersTyped'
  <2>1. stray' \subseteq Requests
    BY <1>3 DEF Serve
  <2>2. /\ session' \in [Requests -> {"none", "waiting", "paired", "spoiled"}]
        /\ delivered' \in [Requests -> SUBSET Requests]
    BY <1>3 DEF Serve, Give, GiveNone
  <2> QED BY <1>3, <2>1, <2>2 DEF Serve
<1>4. CASE Tick
  <2>1. age' = [r \in Requests |-> IF Awaiting(r) THEN age[r] + 1 ELSE 0]
    BY <1>4 DEF Tick
  <2>2. \A r \in Requests : (IF Awaiting(r) THEN age[r] + 1 ELSE 0) \in Nat
    OBVIOUS
  <2>3. age' \in [Requests -> Nat]
    BY <2>1, <2>2, Zenon
  <2> QED BY <1>4, <2>3 DEF Tick
<1>5. CASE UNCHANGED vars
  BY <1>5 DEF vars
<1> QED BY <1>1, <1>2, <1>3, <1>4, <1>5 DEF Next

LEMMA BudgetInvariant == Spec => []BudgetInv
<1>1. Init => Relays /\ OthersTyped
  <2>1. Bounded(Idle)
    BY DEF Bounded, Idle, Relay
  <2>2. Idle \in Relay
    BY <2>1 DEF Bounded
  <2> QED BY <2>1, <2>2 DEF Init, Relays, OthersTyped
<1>2. IInv /\ Relays /\ OthersTyped /\ [Next]_vars => (Relays /\ OthersTyped)'
  BY RelaysKept, OthersTypesKept
<1>3. Relays /\ OthersTyped => BudgetInv
  BY InvParts
<1> QED BY <1>1, <1>2, <1>3, Invariance, PTL DEF Spec

\* Every reachable state of the relay is well typed, and a relay has an answer exactly
\* when it is done: push_pin and pairing_endpoint return or raise on every path.
THEOREM RelayTypes == Spec => []TypeOK
<1>1. BudgetInv => TypeOK
  BY DEF BudgetInv
<1> QED BY <1>1, BudgetInvariant, PTL

\* No PIN is posted for longer after the token was verified than all attempts and the
\* pauses between them may take, for any number of attempts, timeout and first pause.
THEOREM BudgetHolds == Spec => []WithinBudget
<1>1. BudgetInv => WithinBudget
  <2> SUFFICES ASSUME BudgetInv, NEW r \in Requests, Running(r)
               PROVE  relay[r].busy + relay[r].left <= Budget
    BY DEF WithinBudget
  <2> DEFINE x == relay[r]
  <2>1. Bounded(x) /\ x.busy \in Nat /\ x.left \in Nat /\ x.attempt \in Nat
    BY DEF BudgetInv, TypeOK, Relay
  <2>2. Limit \in Nat \ {0} /\ Budget = Spent(Limit) /\ Spent(Limit) \in Int
    BY Limits, SpentTypes
  <2>3. CASE x.phase = "post"
    <3>1. x.attempt \in 1..Limit /\ x.busy + x.left <= Spent(x.attempt)
      BY <2>1, <2>3 DEF Bounded
    <3>2. Spent(x.attempt) <= Spent(Limit) /\ Spent(x.attempt) \in Int
      BY <2>2, <3>1, SpentGrows, SpentTypes
    <3> HIDE DEF x
    <3>3. x.busy + x.left <= Budget
      BY <2>1, <2>2, <3>1, <3>2
    <3> QED BY <3>3 DEF x
  <2>4. CASE x.phase = "pause"
    <3>1. /\ x.attempt \in 1..(Limit - 1)
          /\ x.busy + x.left <= Spent(x.attempt) + Delay(x.attempt)
      BY <2>1, <2>4 DEF Bounded
    <3>2. x.attempt \in Nat \ {0} /\ x.attempt + 1 \in Nat \ {0} /\ x.attempt + 1 <= Limit
      BY <2>2, <3>1
    <3>3. /\ Spent(x.attempt) \in Int /\ Delay(x.attempt) \in Nat /\ RequestTimeout \in Nat
          /\ Spent(x.attempt) + Delay(x.attempt) + RequestTimeout <= Spent(Limit)
      BY <2>2, <3>2, SpentTypes, SpentStep, SpentGrows, ConstantsAssumption
         DEF ConstantsAssumption
    <3> HIDE DEF x
    <3>4. x.busy + x.left <= Budget
      BY <2>1, <2>2, <3>1, <3>3
    <3> QED BY <3>4 DEF x
  <2> QED BY <2>3, <2>4 DEF Running
<1> QED BY <1>1, BudgetInvariant, PTL
=============================================================================
