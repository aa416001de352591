------------------------- MODULE AutoConnectProofs -------------------------
(***************************************************************************)
(* Theorems about AutoConnect.  Each slot is a function of the state of    *)
(* the ComputerManager, and slots are put together from smaller ones, so   *)
(* what is proved of an operator here is what it makes of a state x that   *)
(* is Sound; the steps follow from that.                                   *)
(***************************************************************************)
EXTENDS AutoConnect, SequenceTheorems, WellFoundedInduction, TLAPS

\* A flow that runs has a computer, the guard timer and a token to end with; one
\* that pairs knows whose attempt it is.
Sound(x) ==
    /\ x \in Manager
    /\ (x.flow = "idle") = (x.computer = None)
    /\ x.timer = (x.flow # "idle")
    /\ x.flow # "idle" => x.token[x.computer] # None
    /\ x.flow = "pairing" => x.attempt # None

\* PairingBacked, of a state x.
Backed(x) ==
    /\ x.flow = "pairing" => x.pairing = x.computer
    /\ x.pairing # None => \E leg \in x.handshakes : leg.computer = x.pairing

\* The tokens are where they were, or one of them, on a computer, has ended.
Kept(x, y) == y.token = x.token /\ y.queued = x.queued /\ y.ended = x.ended

Ends(x, y) ==
    \/ Kept(x, y)
    \/ \E c \in Computers : /\ x.token[c] # None
                            /\ y.token = [x.token EXCEPT ![c] = None]
                            /\ y.queued = x.queued
                            /\ y.ended = x.ended \cup {x.token[c]}

\* A state that differs elsewhere stands for x.
LEMMA EndsFrom ==
    ASSUME NEW x, NEW z, Kept(x, z), NEW y, Ends(z, y)
    PROVE  Ends(x, y)
BY DEF Ends, Kept

-----------------------------------------------------------------------------
(* What the operators keep.                                                *)

\* The end of a flow.
LEMMA FinishSound ==
    ASSUME NEW x, Sound(x), x.flow # "idle"
    PROVE  /\ Sound(Finish(x)) /\ Finish(x).flow = "idle"
           /\ Finish(x).pairing = x.pairing /\ Finish(x).handshakes = x.handshakes
           /\ Ends(x, Finish(x))
<1>1. x.computer \in Computers /\ x.token[x.computer] \in Urls
  BY DEF Sound, Manager
<1>2. Finish(x) \in Manager
  BY <1>1 DEF Finish, Sound, Manager
<1>3. /\ Finish(x).flow = "idle" /\ Finish(x).computer = None
      /\ Finish(x).timer = FALSE
      /\ Finish(x).pairing = x.pairing /\ Finish(x).handshakes = x.handshakes
  BY DEF Finish, Sound, Manager
<1>4. /\ Finish(x).token = [x.token EXCEPT ![x.computer] = None]
      /\ Finish(x).queued = x.queued
      /\ Finish(x).ended = x.ended \cup {x.token[x.computer]}
  BY DEF Finish, Sound, Manager
<1>5. Ends(x, Finish(x))
  BY <1>1, <1>4 DEF Ends, Sound
<1> QED BY <1>2, <1>3, <1>5 DEF Sound

\* The last part of the evaluation.
LEMMA AdvanceSound ==
    ASSUME NEW x, Sound(x), NEW c \in Computers
    PROVE  /\ Sound(Advance(x, c))
           /\ Advance(x, c).flow \in {"idle", x.flow}
           /\ Advance(x, c).computer \in {None, x.computer}
           /\ Advance(x, c).pairing = x.pairing /\ Advance(x, c).handshakes = x.handshakes
           /\ Ends(x, Advance(x, c))
<1>1. CASE Advance(x, c) = x
  BY <1>1 DEF Ends, Kept
<1>2. CASE Advance(x, c) = Finish(x) /\ x.flow = "apps"
  <2>1. Finish(x).computer = None
    BY <1>2, FinishSound DEF Sound
  <2> QED BY <1>2, <2>1, FinishSound
<1> QED BY <1>1, <1>2 DEF Advance

\* A flow that pairs, when its attempt is noted as ended by a leg of URL u.
LEMMA NotedSound ==
    ASSUME NEW x, Sound(x), x.flow = "pairing", NEW u
    PROVE  LET z == [x EXCEPT !.foreign = IF u = x.attempt THEN @ ELSE @ \cup {x.attempt}]
           IN  /\ Sound(z) /\ z.flow = "pairing" /\ z.computer = x.computer
               /\ z.pairing = x.pairing /\ z.handshakes = x.handshakes /\ Kept(x, z)
<1> DEFINE z == [x EXCEPT !.foreign = IF u = x.attempt THEN @ ELSE @ \cup {x.attempt}]
<1>1. x.attempt \in Urls /\ x.foreign \subseteq Urls
  BY DEF Sound, Manager
<1>2. z \in Manager
  BY <1>1 DEF Sound, Manager
<1>3. /\ z.flow = "pairing" /\ z.computer = x.computer /\ z.timer = x.timer
      /\ z.token = x.token /\ z.attempt = x.attempt
      /\ z.pairing = x.pairing /\ z.handshakes = x.handshakes /\ Kept(x, z)
  BY DEF Sound, Manager, Kept
<1> HIDE DEF z
<1>4. Sound(z)
  BY <1>2, <1>3 DEF Sound
<1> QED BY <1>3, <1>4 DEF z

Failed(x, c, u) == PairingCompleted(x, c, u, FALSE)

\* A pairing that has failed ends the flow that waits for it.
LEMMA FailedSound ==
    ASSUME NEW x, Sound(x), NEW c, NEW u
    PROVE  LET y == Failed(x, c, u) IN
           /\ Sound(y) /\ y.pairing = x.pairing /\ y.handshakes = x.handshakes
           /\ y.flow = "pairing" => x.flow = "pairing" /\ x.computer # c /\ y = x
           /\ Ends(x, y)
<1>1. CASE x.flow # "pairing" \/ x.computer # c
  BY <1>1 DEF Failed, PairingCompleted, Ends, Kept
<1>2. CASE x.flow = "pairing" /\ x.computer = c
  <2> DEFINE z == [x EXCEPT !.foreign = IF u = x.attempt THEN @ ELSE @ \cup {x.attempt}]
  <2>1. Failed(x, c, u) = Finish(z)
    BY <1>2 DEF Failed, PairingCompleted
  <2>2. /\ Sound(z) /\ z.flow = "pairing"
        /\ z.pairing = x.pairing /\ z.handshakes = x.handshakes /\ Kept(x, z)
    BY <1>2, NotedSound
  <2> HIDE DEF z
  <2>3. /\ Sound(Finish(z)) /\ Finish(z).flow = "idle" /\ Finish(z).pairing = x.pairing
        /\ Finish(z).handshakes = x.handshakes /\ Ends(z, Finish(z))
    BY <2>2, FinishSound
  <2>4. Ends(x, Finish(z))
    BY <2>2, <2>3, EndsFrom
  <2> QED BY <2>1, <2>3, <2>4
<1> QED BY <1>1, <1>2

\* One that has succeeded lets it go on.
LEMMA CompletedSound ==
    ASSUME NEW x, Sound(x), NEW c \in Computers, NEW u, NEW ok \in BOOLEAN
    PROVE  LET y == PairingCompleted(x, c, u, ok) IN
           /\ Sound(y) /\ y.pairing = x.pairing /\ y.handshakes = x.handshakes
           /\ y.flow = "pairing" => x.flow = "pairing" /\ x.computer # c /\ y = x
           /\ Ends(x, y)
<1>1. CASE x.flow # "pairing" \/ x.computer # c
  BY <1>1 DEF PairingCompleted, Ends, Kept
<1>2. CASE x.flow = "pairing" /\ x.computer = c
  <2> DEFINE z == [x EXCEPT !.foreign = IF u = x.attempt THEN @ ELSE @ \cup {x.attempt}]
             a == [z EXCEPT !.flow = "apps"]
  <2>1. PairingCompleted(x, c, u, ok) = IF ok THEN Advance(a, c) ELSE Finish(z)
    BY <1>2 DEF PairingCompleted
  <2>2. /\ Sound(z) /\ z.flow = "pairing" /\ z.computer = x.computer
        /\ z.pairing = x.pairing /\ z.handshakes = x.handshakes /\ Kept(x, z)
    BY <1>2, NotedSound
  <2> HIDE DEF z
  <2>3. /\ a \in Manager /\ a.flow = "apps" /\ a.computer = z.computer /\ a.timer = z.timer
        /\ a.pairing = z.pairing /\ a.handshakes = z.handshakes /\ Kept(z, a)
    BY <2>2 DEF Sound, Manager, Kept
  <2> HIDE DEF a
  <2>4. Sound(a)
    BY <2>2, <2>3 DEF Sound, Kept
  <2>5. CASE ok
    <3> DEFINE r == Advance(a, c)
    <3>1. /\ Sound(r) /\ r.flow \in {"idle", "apps"} /\ r.pairing = x.pairing
          /\ r.handshakes = x.handshakes /\ Ends(a, r)
      BY <2>2, <2>3, <2>4, AdvanceSound
    <3> HIDE DEF r
    <3>2. Kept(x, a)
      BY <2>2, <2>3 DEF Kept
    <3>3. Ends(x, r)
      BY <3>1, <3>2, EndsFrom
    <3>4. PairingCompleted(x, c, u, ok) = r
      BY <2>1, <2>5 DEF r
    <3> QED BY <3>1, <3>3, <3>4
  <2>6. CASE ~ok
    <3>1. /\ Sound(Finish(z)) /\ Finish(z).flow = "idle" /\ Finish(z).pairing = x.pairing
          /\ Finish(z).handshakes = x.handshakes /\ Ends(z, Finish(z))
      BY <2>2, FinishSound
    <3>2. Ends(x, Finish(z))
      BY <2>2, <3>1, EndsFrom
    <3> QED BY <2>1, <2>6, <3>1, <3>2
  <2> QED BY <2>5, <2>6
<1> QED BY <1>1, <1>2

\* A pairing begins, from a state y whose flow is at that stage: it has failed when
\* the call returns, or the computer has the slot and a handshake.
LEMMA BeginSound ==
    ASSUME NEW x, Backed(x), NEW y, NEW c \in Computers, NEW broker \in Brokers,
           y \in Manager, y.flow = "pairing", y.computer = c, y.timer = TRUE,
           y.token[c] # None, y.pairing = x.pairing, y.handshakes = x.handshakes
    PROVE  /\ Sound(BeginPairing(y, c, broker)) /\ Backed(BeginPairing(y, c, broker))
           /\ Ends(y, BeginPairing(y, c, broker))
<1> DEFINE u   == y.token[c]
           leg == [url |-> u, computer |-> c, relayed |-> broker = "good"]
           a   == [y EXCEPT !.attempt = u]
           z   == [a EXCEPT !.handshakes = @ \cup {leg}]
           w   == [z EXCEPT !.pairing = c, !.relays = @ \cup {leg}]
<1>1. u \in Urls /\ leg \in Leg /\ leg.computer = c
  BY DEF Manager, Leg
<1>2. a \in Manager /\ z \in Manager /\ w \in Manager
  <2> HIDE DEF u, leg
  <2>1. a \in Manager
    BY <1>1 DEF Manager
  <2> HIDE DEF a
  <2>2. z \in Manager
    BY <1>1, <2>1 DEF Manager
  <2> HIDE DEF z
  <2>3. w \in Manager
    BY <1>1, <2>2 DEF Manager
  <2> QED BY <2>1, <2>2, <2>3
<1>3. /\ a.flow = "pairing" /\ a.computer = c /\ a.timer = TRUE /\ a.attempt = u
      /\ a.pairing = x.pairing /\ a.handshakes = x.handshakes /\ Kept(y, a)
  BY DEF Manager, Kept
<1>4. /\ z.flow = "pairing" /\ z.computer = c /\ z.timer = TRUE /\ z.attempt = u
      /\ z.pairing = x.pairing /\ z.handshakes = x.handshakes \cup {leg} /\ Kept(y, z)
  BY DEF Manager, Kept
<1>5. /\ w.flow = "pairing" /\ w.computer = c /\ w.timer = TRUE /\ w.attempt = u
      /\ w.pairing = c /\ w.handshakes = x.handshakes \cup {leg} /\ Kept(y, w)
  BY DEF Manager, Kept
<1>6. BeginPairing(y, c, broker) =
          IF broker = "missing" \/ y.pairing # None THEN Failed(a, c, u)
          ELSE IF broker = "bad" THEN Failed(z, c, u) ELSE w
  BY DEF BeginPairing, Failed
<1> HIDE DEF u, leg, a, z, w
<1>7. c # None /\ u # None
  BY <1>1, ComputersAssumption
<1>8. Sound(a) /\ Sound(z) /\ Sound(w)
  BY <1>2, <1>3, <1>4, <1>5, <1>7 DEF Sound, Kept, u
<1>9. ASSUME NEW v \in {a, z}
      PROVE  Sound(Failed(v, c, u)) /\ Backed(Failed(v, c, u)) /\ Ends(y, Failed(v, c, u))
  <2> DEFINE r == Failed(v, c, u)
  <2>1. /\ Sound(v) /\ v.computer = c
        /\ v.pairing = x.pairing /\ x.handshakes \subseteq v.handshakes /\ Kept(y, v)
    BY <1>3, <1>4, <1>8
  <2>2. /\ Sound(r) /\ r.pairing = v.pairing /\ r.handshakes = v.handshakes
        /\ r.flow = "pairing" => v.flow = "pairing" /\ v.computer # c /\ r = v
        /\ Ends(v, r)
    BY <2>1, FailedSound
  <2> HIDE DEF r
  <2>3. Backed(r)
    BY <2>1, <2>2 DEF Backed
  <2>4. Ends(y, r)
    BY <2>1, <2>2, EndsFrom
  <2> QED BY <2>2, <2>3, <2>4 DEF r
<1>10. Sound(w) /\ Backed(w) /\ Ends(y, w)
  BY <1>1, <1>5, <1>8 DEF Backed, Ends
<1> QED BY <1>6, <1>9, <1>10

\* An evaluation.
LEMMA EvaluateSound ==
    ASSUME NEW x, Sound(x), Backed(x), NEW c \in Computers, NEW broker \in Brokers
    PROVE  /\ Sound(Evaluate(x, c, broker)) /\ Backed(Evaluate(x, c, broker))
           /\ Ends(x, Evaluate(x, c, broker))
<1> DEFINE y == StartFlow(x, c)
           a == [y EXCEPT !.flow = "apps"]
           b == [y EXCEPT !.flow = "pairing"]
<1>1. CASE Evaluate(x, c, broker) = x
  BY <1>1 DEF Ends, Kept
<1>2. CASE Evaluate(x, c, broker) = Advance(x, c)
  <2> DEFINE r == Advance(x, c)
  <2>1. /\ Sound(r) /\ r.flow \in {"idle", x.flow} /\ r.computer \in {None, x.computer}
        /\ r.pairing = x.pairing /\ r.handshakes = x.handshakes /\ Ends(x, r)
    BY AdvanceSound
  <2> HIDE DEF r
  <2>2. r.flow = "pairing" => x.flow = "pairing" /\ r.computer = x.computer
    BY <2>1 DEF Sound
  <2>3. Backed(r)
    BY <2>1, <2>2 DEF Backed
  <2> QED BY <1>2, <2>1, <2>3 DEF r
<1>3. CASE x.flow = "idle" /\ x.token[c] # None
  <2>1. /\ a \in Manager /\ a.flow = "apps" /\ a.computer = c /\ a.timer = TRUE
        /\ a.pairing = x.pairing /\ a.handshakes = x.handshakes /\ Kept(x, a)
    BY DEF StartFlow, Sound, Manager, Kept
  <2>2. /\ b \in Manager /\ b.flow = "pairing" /\ b.computer = c /\ b.timer = TRUE
        /\ b.pairing = x.pairing /\ b.handshakes = x.handshakes /\ Kept(x, b)
    BY DEF StartFlow, Sound, Manager, Kept
  <2>3. Evaluate(x, c, broker) \in {x, Advance(a, c), BeginPairing(b, c, broker)}
    BY <1>3 DEF Evaluate
  <2> HIDE DEF y, a, b
  <2>4. c # None
    BY ComputersAssumption
  <2>5. Sound(a)
    BY <1>3, <2>1, <2>4 DEF Sound, Kept
  <2>6. Sound(Advance(a, c)) /\ Backed(Advance(a, c)) /\ Ends(x, Advance(a, c))
    <3> DEFINE r == Advance(a, c)
    <3>1. /\ Sound(r) /\ r.flow # "pairing" /\ r.pairing = x.pairing
          /\ r.handshakes = x.handshakes /\ Ends(a, r)
      BY <2>1, <2>5, AdvanceSound
    <3> HIDE DEF r
    <3>2. Backed(r)
      BY <3>1 DEF Backed
    <3>3. Ends(x, r)
      BY <2>1, <3>1, EndsFrom
    <3> QED BY <3>1, <3>2, <3>3 DEF r
  <2>7. /\ Sound(BeginPairing(b, c, broker)) /\ Backed(BeginPairing(b, c, broker))
        /\ Ends(b, BeginPairing(b, c, broker))
    BY <1>3, <2>2, BeginSound DEF Kept
  <2>8. Ends(x, BeginPairing(b, c, broker))
    BY <2>2, <2>7, EndsFrom
  <2>9. Ends(x, x)
    BY DEF Ends, Kept
  <2> QED BY <2>3, <2>6, <2>7, <2>8, <2>9
<1> QED BY <1>1, <1>2, <1>3 DEF Evaluate

\* A token put on a computer.
LEMMA StampSound ==
    ASSUME NEW x, Sound(x), Backed(x), NEW c \in Computers, NEW u \in Urls
    PROVE  Sound(Stamp(x, u, c)) /\ Backed(Stamp(x, u, c))
<1> DEFINE y == Stamp(x, u, c)
<1>1. x.token[c] \in Urls \cup {None}
  BY DEF Sound, Manager
<1>2. y \in Manager
  BY <1>1 DEF Stamp, Sound, Manager
<1>3. /\ y.flow = x.flow /\ y.computer = x.computer /\ y.timer = x.timer
      /\ y.token = [x.token EXCEPT ![c] = u] /\ y.attempt = x.attempt
      /\ y.pairing = x.pairing /\ y.handshakes = x.handshakes
  BY DEF Stamp, Sound, Manager
<1> HIDE DEF y
<1>4. \A d \in Computers : x.token[d] # None => y.token[d] # None
  BY <1>3, ComputersAssumption DEF Sound, Manager
<1>5. Sound(y)
  BY <1>2, <1>3, <1>4 DEF Sound, Manager
<1> QED BY <1>3, <1>5 DEF Backed, y

\* Members that neither the flow nor the slot of the pairing have to do with.
LEMMA BesideSound ==
    ASSUME NEW x, Sound(x), Backed(x), NEW y \in Manager,
           y.flow = x.flow, y.computer = x.computer, y.timer = x.timer, y.token = x.token,
           y.attempt = x.attempt, y.pairing = x.pairing, y.handshakes = x.handshakes
    PROVE  Sound(y) /\ Backed(y)
BY DEF Sound, Backed

\* A URL that arrives.
LEMMA RequestSound ==
    ASSUME NEW x, Sound(x), Backed(x), NEW u \in Urls, NEW c \in Computers,
           NEW broker \in Brokers
    PROVE  /\ Sound(RequestConnect(x, u, c, broker))
           /\ Backed(RequestConnect(x, u, c, broker))
<1> DEFINE y == [x EXCEPT !.queued[c] = u, !.ended = @ \cup ({x.queued[c]} \ {None})]
<1>1. /\ y \in Manager /\ y.flow = x.flow /\ y.computer = x.computer /\ y.timer = x.timer
      /\ y.token = x.token /\ y.attempt = x.attempt
      /\ y.pairing = x.pairing /\ y.handshakes = x.handshakes
  BY DEF Sound, Manager
<1> HIDE DEF y
<1>2. Sound(y) /\ Backed(y)
  BY <1>1, BesideSound
<1>3. /\ Sound(Evaluate(Stamp(x, u, c), c, broker))
      /\ Backed(Evaluate(Stamp(x, u, c), c, broker))
  BY StampSound, EvaluateSound
<1> QED BY <1>2, <1>3 DEF RequestConnect, y

\* A token that moves from its address to the computer.
LEMMA ResolveSound ==
    ASSUME NEW x, Sound(x), Backed(x), NEW c \in Computers
    PROVE  Sound(Resolve(x, c)) /\ Backed(Resolve(x, c))
<1>1. CASE x.queued[c] = None
  BY <1>1 DEF Resolve
<1>2. CASE x.queued[c] # None
  <2> DEFINE s == Stamp(x, x.queued[c], c)
             y == [s EXCEPT !.queued[c] = None]
  <2>1. x.queued[c] \in Urls
    BY <1>2 DEF Sound, Manager
  <2>2. Sound(s) /\ Backed(s)
    BY <2>1, StampSound
  <2>3. Resolve(x, c) = y
    BY <1>2 DEF Resolve
  <2> HIDE DEF s
  <2>4. /\ y \in Manager /\ y.flow = s.flow /\ y.computer = s.computer
        /\ y.timer = s.timer /\ y.token = s.token /\ y.attempt = s.attempt
        /\ y.pairing = s.pairing /\ y.handshakes = s.handshakes
    BY <2>2 DEF Sound, Manager
  <2> HIDE DEF y
  <2> QED BY <2>2, <2>3, <2>4, BesideSound
<1> QED BY <1>1, <1>2

-----------------------------------------------------------------------------
(* The stash.  Flush is a fold; what it computes is found by induction over *)
(* the number of URLs, which is a set of numbers here.                      *)

\* A set of numbers with 0 and the successor of each of its members has them all.
LEMMA SetInduction ==
    ASSUME NEW S \in SUBSET Nat, 0 \in S, \A n \in S : n + 1 \in S
    PROVE  S = Nat
<1> DEFINE T == Nat \ S
           R == OpToRel(<, Nat)
<1>1. IsWellFoundedOn(R, Nat)
  BY NatLessThanWellFounded, Zenon
<1>2. ASSUME T # {} PROVE FALSE
  <2> HIDE DEF R
  <2>1. PICK k \in T : \A j \in T : ~(<<j, k>> \in R)
    BY <1>1, <1>2, WFMin
  <2>2. k # 0 /\ k - 1 \in Nat /\ k - 1 \notin S
    OBVIOUS
  <2>3. <<k - 1, k>> \in R
    BY <2>2 DEF R, OpToRel
  <2> QED BY <2>1, <2>2, <2>3
<1> QED BY <1>2

\* Max finds the largest number of an interval's part.
LEMMA MaxOfSome ==
    ASSUME NEW n \in Nat, NEW S \in SUBSET (1..n), S # {}
    PROVE  Max(S) \in S /\ \A k \in S : k <= Max(S)
<1> DEFINE I == {k \in Nat : \A T \in SUBSET (1..k) :
                                T # {} => \E j \in T : \A i \in T : j >= i}
<1>1. 0 \in I
  <2>1. 1..0 = {}
    OBVIOUS
  <2> QED BY <2>1
<1>2. ASSUME NEW k \in I
      PROVE  k + 1 \in I
  <2> SUFFICES ASSUME NEW T \in SUBSET (1..k + 1), T # {}
               PROVE  \E j \in T : \A i \in T : j >= i
    OBVIOUS
  <2>1. CASE k + 1 \in T
    BY <2>1
  <2>2. CASE k + 1 \notin T
    <3>1. T \in SUBSET (1..k)
      BY <2>2
    <3> QED BY <3>1
  <2> QED BY <2>1, <2>2
<1> HIDE DEF I
<1>3. I = Nat
  <2>1. I \in SUBSET Nat
    BY DEF I
  <2> QED BY <1>1, <1>2, <2>1, SetInduction
<1>4. \E j \in S : \A i \in S : j >= i
  BY <1>3 DEF I
<1>5. Max(S) \in S /\ \A i \in S : Max(S) >= i
  BY <1>4 DEF Max
<1> QED BY <1>5

\* What each URL of a stash makes of the state it finds.
Takes(acc, x, urls) ==
    /\ acc[0] = x
    /\ \A i \in 1..Len(urls) :
          acc[i] = RequestConnect(acc[i - 1], urls[i].url, urls[i].computer, "good")

\* The recursion Flush stands for, up to the k-th URL.
Iterates(f, x, urls, k) ==
    f = [S \in SUBSET (1..k) |->
            IF S = {} THEN x
            ELSE RequestConnect(f[S \ {Max(S)}], urls[Max(S)].url, urls[Max(S)].computer,
                                "good")]

\* It has a solution, for any number of URLs.
LEMMA IterationExists ==
    ASSUME NEW x, NEW urls
    PROVE  \A k \in Nat : \E f : Iterates(f, x, urls, k)
<1> DEFINE I == {k \in Nat : \E f : Iterates(f, x, urls, k)}
<1>1. 0 \in I
  <2>1. Iterates([S \in SUBSET (1..0) |-> x], x, urls, 0)
    BY DEF Iterates
  <2> QED BY <2>1
<1>2. ASSUME NEW k \in I
      PROVE  k + 1 \in I
  <2>1. PICK f : Iterates(f, x, urls, k)
    OBVIOUS
  <2> DEFINE Then(h, S) == IF S = {} THEN x
                           ELSE RequestConnect(h[S \ {Max(S)}], urls[Max(S)].url,
                                               urls[Max(S)].computer, "good")
             g == [S \in SUBSET (1..k + 1) |-> Then(f, S)]
  <2>0. k \in Nat /\ k + 1 \in Nat /\ SUBSET (1..k) \subseteq SUBSET (1..k + 1)
    OBVIOUS
  <2>2. ASSUME NEW S \in SUBSET (1..k + 1), S # {}
        PROVE  S \ {Max(S)} \in SUBSET (1..k)
    <3>1. Max(S) \in S /\ \A j \in S : j <= Max(S)
      BY <2>0, <2>2, MaxOfSome
    <3>2. ASSUME NEW j \in S \ {Max(S)}
          PROVE  j \in 1..k
      <4>1. /\ Max(S) \in 1..k + 1 /\ j \in 1..k + 1
            /\ j # Max(S) /\ j <= Max(S)
        BY <3>1
      <4> HIDE DEF I
      <4> QED BY <2>0, <4>1
    <3> QED BY <3>2
  <2>3. \A S \in SUBSET (1..k) : f[S] = Then(f, S)
    BY <2>1 DEF Iterates
  <2>4. \A S \in SUBSET (1..k) : g[S] = f[S]
    BY <2>0, <2>3
  <2>5. \A S \in SUBSET (1..k + 1) : Then(f, S) = Then(g, S)
    BY <2>2, <2>4
  <2>6. g = [S \in SUBSET (1..k + 1) |-> Then(g, S)]
    BY <2>5
  <2>7. Iterates(g, x, urls, k + 1)
    BY <2>6 DEF Iterates
  <2> QED BY <2>7
<1> HIDE DEF I
<1>3. I = Nat
  <2>1. I \in SUBSET Nat
    BY DEF I
  <2> QED BY <1>1, <1>2, <2>1, SetInduction
<1> QED BY <1>3 DEF I

\* So Flush takes the URLs of the stash one after the other.
LEMMA FlushTakes ==
    ASSUME NEW x, NEW urls \in Seq(Target)
    PROVE  \E acc : Takes(acc, x, urls) /\ Flush(x, urls) = acc[Len(urls)]
<1> DEFINE n == Len(urls)
           f == CHOOSE g : Iterates(g, x, urls, n)
           acc == [i \in 0..n |-> f[1..i]]
<1>1. n \in Nat /\ DOMAIN urls = 1..n
  OBVIOUS
<1>2. Flush(x, urls) = f[1..n]
  BY <1>1, Zenon DEF Flush, FoldLeft, MapThenFoldSet, Iterates
<1>3. Iterates(f, x, urls, n)
  BY <1>1, IterationExists
<1> HIDE DEF n, f
<1>4. acc[0] = x
  BY <1>1, <1>3 DEF Iterates
<1>5. ASSUME NEW i \in 1..n
      PROVE  acc[i] = RequestConnect(acc[i - 1], urls[i].url, urls[i].computer, "good")
  <2>1. Max(1..i) = i
    <3>0. i \in Nat /\ 1 <= i
      BY <1>1
    <3>1. i \in 1..i /\ 1..i \in SUBSET (1..i)
      BY <3>0
    <3>2. Max(1..i) \in 1..i /\ \A k \in 1..i : k <= Max(1..i)
      BY <3>0, <3>1, MaxOfSome, Zenon
    <3> QED BY <3>0, <3>1, <3>2
  <2>2. (1..i) \ {i} = 1..(i - 1) /\ 1..i # {} /\ 1..i \in SUBSET (1..n)
    BY <1>1
  <2>3. f[1..i] = RequestConnect(f[(1..i) \ {Max(1..i)}], urls[Max(1..i)].url,
                                 urls[Max(1..i)].computer, "good")
    BY <1>3, <2>2 DEF Iterates
  <2>4. f[1..i] = RequestConnect(f[1..(i - 1)], urls[i].url, urls[i].computer, "good")
    BY <2>1, <2>2, <2>3
  <2>5. acc[i] = f[1..i] /\ acc[i - 1] = f[1..(i - 1)]
    BY <1>1
  <2> QED BY <2>4, <2>5
<1>6. acc[n] = f[1..n]
  BY <1>1
<1>7. Takes(acc, x, urls) /\ Flush(x, urls) = acc[Len(urls)]
  BY <1>2, <1>4, <1>5, <1>6 DEF Takes, n
<1> QED BY <1>7

\* So a flush keeps what each of them keeps.
LEMMA FlushSound ==
    ASSUME NEW x, Sound(x), Backed(x), NEW urls \in Seq(Target)
    PROVE  Sound(Flush(x, urls)) /\ Backed(Flush(x, urls))
<1>1. PICK acc : Takes(acc, x, urls) /\ Flush(x, urls) = acc[Len(urls)]
  BY FlushTakes
<1> DEFINE I == {k \in Nat : k <= Len(urls) => Sound(acc[k]) /\ Backed(acc[k])}
<1>2. 0 \in I
  BY <1>1 DEF Takes
<1>3. ASSUME NEW k \in I
      PROVE  k + 1 \in I
  <2>1. SUFFICES ASSUME k + 1 <= Len(urls)
                 PROVE  Sound(acc[k + 1]) /\ Backed(acc[k + 1])
    OBVIOUS
  <2>2. k \in Nat /\ k <= Len(urls) /\ k + 1 \in 1..Len(urls) /\ (k + 1) - 1 = k
    BY <2>1
  <2>3. Sound(acc[k]) /\ Backed(acc[k])
    BY <2>2
  <2>4. urls[k + 1].url \in Urls /\ urls[k + 1].computer \in Computers
    <3>1. urls[k + 1] \in Target
      BY <2>2
    <3> QED BY <3>1 DEF Target
  <2>5. acc[k + 1] = RequestConnect(acc[k], urls[k + 1].url, urls[k + 1].computer, "good")
    BY <1>1, <2>2 DEF Takes
  <2>6. "good" \in Brokers
    BY DEF Brokers
  <2> QED BY <2>3, <2>4, <2>5, <2>6, RequestSound
<1> HIDE DEF I
<1>4. I = Nat
  <2>1. I \in SUBSET Nat
    BY DEF I
  <2> QED BY <1>2, <1>3, <2>1, SetInduction
<1>5. Len(urls) \in I
  BY <1>4
<1> QED BY <1>1, <1>5 DEF I

-----------------------------------------------------------------------------
(* The steps.                                                              *)

\* The rest of the type, and the two predicates of the ComputerManager.
FlowInv ==
    /\ Sound(m) /\ Backed(m)
    /\ certified \subseteq Computers /\ opened \subseteq Urls
    /\ running \in BOOLEAN /\ stash \in Seq(Target) /\ (running => stash = <<>>)

\* It holds of a client that starts.
LEMMA FlowInit == Init => FlowInv
<1> SUFFICES ASSUME Init PROVE FlowInv
  OBVIOUS
<1>1. /\ m.flow = "idle" /\ m.computer = None /\ m.timer = FALSE
      /\ m.pairing = None
  BY DEF Init
<1>2. m \in Manager
  BY ComputersAssumption DEF Init, Manager, View
<1>3. Sound(m) /\ Backed(m)
  BY <1>1, <1>2 DEF Sound, Backed
<1>4. stash \in Seq(Target)
  <2>1. stash = <<>>
    BY DEF Init
  <2> QED BY <2>1, EmptySeq, Zenon
<1> QED BY <1>3, <1>4, ComputersAssumption DEF Init, FlowInv

\* A handshake that ends, whoever waits for it.
LEMMA HandshakeSound ==
    ASSUME NEW x, Sound(x), Backed(x), NEW leg \in x.handshakes, NEW ok \in BOOLEAN
    PROVE  LET y == HandshakeResult([x EXCEPT !.handshakes = @ \ {leg}], leg, ok)
           IN  Sound(y) /\ Backed(y) /\ Ends(x, y)
<1> DEFINE z == [x EXCEPT !.handshakes = @ \ {leg}]
           a == [z EXCEPT !.pairing = None]
           r == PairingCompleted(a, leg.computer, leg.url, ok)
<1>1. leg.computer \in Computers /\ leg \in Leg
  BY DEF Sound, Manager, Leg
<1>2. /\ z \in Manager /\ z.flow = x.flow /\ z.computer = x.computer /\ z.timer = x.timer
      /\ z.token = x.token /\ z.attempt = x.attempt
      /\ z.pairing = x.pairing /\ z.handshakes = x.handshakes \ {leg} /\ Kept(x, z)
  BY DEF Sound, Manager, Kept
<1>3. /\ a \in Manager /\ a.flow = x.flow /\ a.computer = x.computer /\ a.timer = x.timer
      /\ a.token = x.token /\ a.attempt = x.attempt
      /\ a.pairing = None /\ a.handshakes = x.handshakes \ {leg} /\ Kept(x, a)
  BY DEF Sound, Manager, Kept
<1>4. HandshakeResult(z, leg, ok) = IF x.pairing # leg.computer THEN z ELSE r
  BY <1>2 DEF HandshakeResult
<1> HIDE DEF z, a
<1>5. Sound(z) /\ Sound(a)
  BY <1>2, <1>3 DEF Sound
<1>6. CASE x.pairing # leg.computer
  <2>1. Backed(z)
    BY <1>2, <1>6 DEF Backed
  <2>2. Ends(x, z)
    BY <1>2 DEF Ends
  <2> QED BY <1>4, <1>5, <1>6, <2>1, <2>2 DEF z
<1>7. CASE x.pairing = leg.computer
  <2>1. /\ Sound(r) /\ r.pairing = None
        /\ r.flow = "pairing" => x.flow = "pairing" /\ x.computer # leg.computer
        /\ Ends(a, r)
    BY <1>1, <1>3, <1>5, CompletedSound
  <2> HIDE DEF r
  <2>2. Backed(r)
    BY <1>7, <2>1 DEF Backed
  <2>3. Ends(x, r)
    BY <1>3, <2>1, EndsFrom
  <2> QED BY <1>4, <1>7, <2>1, <2>2, <2>3 DEF z
<1> QED BY <1>6, <1>7

\* A relay that is answered; an error ends whatever pairing there is.
LEMMA RelaySound ==
    ASSUME NEW x, Sound(x), Backed(x), NEW leg \in x.relays, NEW ok \in BOOLEAN
    PROVE  LET y == RelayResult([x EXCEPT !.relays = @ \ {leg}], leg, ok)
           IN  Sound(y) /\ Backed(y) /\ Ends(x, y)
<1> DEFINE z == [x EXCEPT !.relays = @ \ {leg}]
           a == [z EXCEPT !.pairing = None]
           r == Failed(a, x.pairing, leg.url)
<1>1. /\ z \in Manager /\ z.flow = x.flow /\ z.computer = x.computer /\ z.timer = x.timer
      /\ z.token = x.token /\ z.attempt = x.attempt
      /\ z.pairing = x.pairing /\ z.handshakes = x.handshakes /\ Kept(x, z)
  BY DEF Sound, Manager, Kept
<1>2. /\ a \in Manager /\ a.flow = x.flow /\ a.computer = x.computer /\ a.timer = x.timer
      /\ a.token = x.token /\ a.attempt = x.attempt
      /\ a.pairing = None /\ a.handshakes = x.handshakes /\ Kept(x, a)
  BY DEF Sound, Manager, Kept
<1>3. RelayResult(z, leg, ok) = IF x.pairing = None \/ ok THEN z ELSE r
  BY <1>1 DEF RelayResult, Failed
<1> HIDE DEF z, a
<1>4. Sound(z) /\ Backed(z) /\ Sound(a)
  <2>1. Sound(z) /\ Backed(z)
    BY <1>1, BesideSound
  <2>2. Sound(a)
    BY <1>2 DEF Sound
  <2> QED BY <2>1, <2>2
<1>5. /\ Sound(r) /\ r.pairing = None
      /\ r.flow = "pairing" => x.flow = "pairing" /\ x.computer # x.pairing
      /\ Ends(a, r)
  BY <1>2, <1>4, FailedSound
<1> HIDE DEF r
<1>6. Backed(r)
  BY <1>5 DEF Backed
<1>7. Ends(x, z) /\ Ends(x, r)
  <2>1. Ends(x, z)
    BY <1>1 DEF Ends
  <2> QED BY <1>2, <1>5, <2>1, EndsFrom
<1> QED BY <1>3, <1>4, <1>5, <1>6, <1>7 DEF z

\* The end of a flow leaves the slot and its handshake as they are.
LEMMA FinishBacked ==
    ASSUME NEW x, Sound(x), Backed(x), x.flow # "idle"
    PROVE  Sound(Finish(x)) /\ Backed(Finish(x))
<1> DEFINE r == Finish(x)
<1>1. /\ Sound(r) /\ r.flow = "idle"
      /\ r.pairing = x.pairing /\ r.handshakes = x.handshakes
  BY FinishSound
<1> HIDE DEF r
<1>2. Backed(r)
  BY <1>1 DEF Backed
<1> QED BY <1>1, <1>2 DEF r

\* A poll.
LEMMA PollSound ==
    ASSUME NEW x, Sound(x), Backed(x), NEW c \in Computers, NEW view \in View,
           NEW broker \in Brokers
    PROVE  LET y == Evaluate(Resolve([x EXCEPT !.known = @ \cup {c}, !.seen[c] = view], c),
                             c, broker)
           IN  Sound(y) /\ Backed(y)
<1> DEFINE z == [x EXCEPT !.known = @ \cup {c}, !.seen[c] = view]
<1>1. /\ z \in Manager /\ z.flow = x.flow /\ z.computer = x.computer /\ z.timer = x.timer
      /\ z.token = x.token /\ z.attempt = x.attempt
      /\ z.pairing = x.pairing /\ z.handshakes = x.handshakes
  BY DEF Sound, Manager
<1> HIDE DEF z
<1>2. Sound(z) /\ Backed(z)
  BY <1>1, BesideSound
<1>3. Sound(Resolve(z, c)) /\ Backed(Resolve(z, c))
  BY <1>2, ResolveSound
<1> QED BY <1>3, EvaluateSound DEF z

\* Every step keeps it.
LEMMA FlowStep == FlowInv /\ [Next]_vars => FlowInv'
<1> SUFFICES ASSUME FlowInv, [Next]_vars PROVE FlowInv'
  OBVIOUS
<1> USE DEF FlowInv
<1>1. ASSUME NEW u \in Urls, Open(u)
      PROVE  FlowInv'
  <2>1. PICK c \in Computers :
            \/ /\ ~running /\ m' = m
               /\ stash' = Append(stash, [url |-> u, computer |-> c])
            \/ /\ running /\ stash' = stash
               /\ \E broker \in Brokers : m' = RequestConnect(m, u, c, broker)
    BY <1>1 DEF Open
  <2>2. opened' \subseteq Urls /\ certified' = certified /\ running' = running
    BY <1>1 DEF Open
  <2>3. Sound(m') /\ Backed(m')
    BY <2>1, RequestSound
  <2>4. stash' \in Seq(Target)
    <3>1. [url |-> u, computer |-> c] \in Target
      BY DEF Target
    <3> QED BY <2>1, <3>1
  <2> QED BY <2>1, <2>2, <2>3, <2>4
<1>2. CASE Launch
  BY <1>2, FlushSound DEF Launch
<1>3. ASSUME NEW c \in Computers, Poll(c)
      PROVE  FlowInv'
  <2>1. PICK view \in View, broker \in Brokers :
            m' = Evaluate(Resolve([m EXCEPT !.known = @ \cup {c}, !.seen[c] = view], c),
                          c, broker)
    BY <1>3 DEF Poll
  <2>2. UNCHANGED <<certified, opened, running, stash>>
    BY <1>3 DEF Poll
  <2>3. Sound(m') /\ Backed(m')
    BY <2>1, PollSound
  <2> QED BY <2>2, <2>3
<1>4. ASSUME NEW leg \in m.handshakes, NEW ok \in BOOLEAN, HandshakeDone(leg, ok)
      PROVE  FlowInv'
  <2>1. /\ m' = HandshakeResult([m EXCEPT !.handshakes = @ \ {leg}], leg, ok)
        /\ UNCHANGED <<opened, running, stash>>
        /\ certified' \subseteq certified \cup {leg.computer}
    BY <1>4 DEF HandshakeDone
  <2>2. leg.computer \in Computers
    BY DEF Sound, Manager, Leg
  <2>3. Sound(m') /\ Backed(m')
    BY <2>1, HandshakeSound
  <2> QED BY <2>1, <2>2, <2>3
<1>5. ASSUME NEW leg \in m.relays, NEW ok \in BOOLEAN, RelayDone(leg, ok)
      PROVE  FlowInv'
  <2>1. /\ m' = RelayResult([m EXCEPT !.relays = @ \ {leg}], leg, ok)
        /\ UNCHANGED <<certified, opened, running, stash>>
    BY <1>5 DEF RelayDone
  <2>2. Sound(m') /\ Backed(m')
    BY <2>1, RelaySound
  <2> QED BY <2>1, <2>2
<1>6. CASE Timeout \/ Cancel
  <2>1. m' = Finish(m) /\ UNCHANGED <<certified, opened, running, stash>>
    BY <1>6 DEF Timeout, Cancel
  <2>2. m.flow # "idle"
    BY <1>6 DEF Timeout, Cancel, Sound
  <2>3. Sound(m') /\ Backed(m')
    BY <2>1, <2>2, FinishBacked
  <2> QED BY <2>1, <2>3
<1>7. CASE UNCHANGED vars
  BY <1>7 DEF vars
<1> QED BY <1>1, <1>2, <1>3, <1>4, <1>5, <1>6, <1>7 DEF Next

\* The invariant of the flow.
LEMMA FlowKept == Spec => []FlowInv
BY FlowInit, FlowStep, PTL DEF Spec

\* The members keep their types, and the state, the computer and the guard timer of
\* the ComputerManager always agree on whether a flow runs.
THEOREM AutoTypes == Spec => []TypeOK
<1>1. FlowInv => TypeOK
  BY DEF FlowInv, Sound, TypeOK
<1> QED BY <1>1, FlowKept, PTL

\* Whoever owns m_AutoPairingComputer has a handshake in flight that will free it, and
\* a flow that pairs owns it, whatever is cancelled, timed out or answered late.
THEOREM PairingAlwaysBacked == Spec => []PairingBacked
<1>1. FlowInv => PairingBacked
  BY DEF FlowInv, Backed, PairingBacked
<1> QED BY <1>1, FlowKept, PTL

-----------------------------------------------------------------------------
(* The tokens.  Q is what waits in the stash, as pairs of a position and a  *)
(* URL, and O the URLs opened.                                              *)

Somewhere(x, Q, u) ==
    \/ \E i \in Nat : <<i, u>> \in Q
    \/ \E c \in Computers : x.queued[c] = u \/ x.token[c] = u
    \/ u \in x.ended

\* u is not in two places.
Single(x, Q, u) ==
    /\ \A i, j \in Nat : <<i, u>> \in Q /\ <<j, u>> \in Q => i = j
    /\ \A c, d \in Computers : x.queued[c] = u /\ x.queued[d] = u => c = d
    /\ \A c, d \in Computers : x.token[c] = u /\ x.token[d] = u => c = d
    /\ \A c, d \in Computers : ~(x.queued[c] = u /\ x.token[d] = u)
    /\ u \in x.ended => \A c \in Computers : x.queued[c] # u /\ x.token[c] # u
    /\ \A i \in Nat : <<i, u>> \in Q =>
          /\ u \notin x.ended
          /\ \A c \in Computers : x.queued[c] # u /\ x.token[c] # u

Placed(x, Q, O) == \A u \in Urls : Single(x, Q, u) /\ (u \in O <=> Somewhere(x, Q, u))

\* What is left of the stash after k URLs.
Left(urls, k) == {<<i, urls[i].url>> : i \in k + 1..Len(urls)}

\* Where the tokens are kept.
Holds(x) ==
    /\ x.token \in [Computers -> Urls \cup {None}]
    /\ x.queued \in [Computers -> Urls \cup {None}]

\* The end of a flow moves its token to the ended ones.
LEMMA EndsPlaced ==
    ASSUME NEW x, Holds(x), NEW y, Ends(x, y), NEW Q, NEW O, Placed(x, Q, O)
    PROVE  Placed(y, Q, O)
<1>1. CASE Kept(x, y)
  BY <1>1 DEF Kept, Placed, Single, Somewhere
<1>2. ASSUME NEW c \in Computers, x.token[c] # None,
             y.token = [x.token EXCEPT ![c] = None], y.queued = x.queued,
             y.ended = x.ended \cup {x.token[c]}
      PROVE  Placed(y, Q, O)
  <2> SUFFICES ASSUME NEW u \in Urls
               PROVE  Single(y, Q, u) /\ (u \in O <=> Somewhere(y, Q, u))
    BY DEF Placed
  <2>1. Single(x, Q, u) /\ (u \in O <=> Somewhere(x, Q, u))
    BY DEF Placed
  <2>2. \A d \in Computers : y.token[d] = IF d = c THEN None ELSE x.token[d]
    BY <1>2 DEF Holds
  <2>3. u # None
    BY ComputersAssumption
  <2>4. Single(y, Q, u)
    BY <1>2, <2>1, <2>2, <2>3 DEF Single
  <2>5. Somewhere(x, Q, u) <=> Somewhere(y, Q, u)
    BY <1>2, <2>2, <2>3 DEF Somewhere
  <2> QED BY <2>1, <2>4, <2>5
<1> QED BY <1>1, <1>2 DEF Ends

\* A URL that is nowhere yet is put on a computer, in the place of what was there.
LEMMA StampPlaced ==
    ASSUME NEW x \in Manager, NEW c \in Computers, NEW u \in Urls, NEW Q, NEW O,
           Placed(x, Q, O), u \notin O
    PROVE  Placed(Stamp(x, u, c), Q, O \cup {u})
<1> DEFINE y == Stamp(x, u, c)
<1>1. /\ y.token = [x.token EXCEPT ![c] = u] /\ y.queued = x.queued
      /\ y.ended = x.ended \cup ({x.token[c]} \ {None})
  BY DEF Stamp, Manager
<1>2. Holds(x)
  BY DEF Manager, Holds
<1> HIDE DEF y
<1> SUFFICES ASSUME NEW v \in Urls
             PROVE  Single(y, Q, v) /\ (v \in O \cup {u} <=> Somewhere(y, Q, v))
  BY DEF Placed, y
<1>3. /\ Single(x, Q, v) /\ (v \in O <=> Somewhere(x, Q, v))
      /\ ~Somewhere(x, Q, u)
  BY DEF Placed
<1>4. \A d \in Computers : y.token[d] = IF d = c THEN u ELSE x.token[d]
  BY <1>1, <1>2 DEF Holds
<1>5. v # None /\ u # None
  BY ComputersAssumption
<1>6. CASE v = u
  <2>1. Single(y, Q, v)
    BY <1>1, <1>3, <1>4, <1>5, <1>6 DEF Single, Somewhere
  <2>2. Somewhere(y, Q, v)
    BY <1>4, <1>6 DEF Somewhere
  <2> QED BY <1>6, <2>1, <2>2
<1>7. CASE v # u
  <2>1. Single(y, Q, v)
    BY <1>1, <1>3, <1>4, <1>5, <1>7 DEF Single
  <2>2. Somewhere(x, Q, v) <=> Somewhere(y, Q, v)
    BY <1>1, <1>4, <1>5, <1>7 DEF Somewhere
  <2> QED BY <1>3, <1>7, <2>1, <2>2
<1> QED BY <1>6, <1>7

\* Or it waits for an address, in the place of the one that did.
LEMMA QueuePlaced ==
    ASSUME NEW x, Holds(x), NEW c \in Computers, NEW u \in Urls, NEW Q, NEW O,
           Placed(x, Q, O), u \notin O, NEW y,
           y.queued = [x.queued EXCEPT ![c] = u], y.token = x.token,
           y.ended = x.ended \cup ({x.queued[c]} \ {None})
    PROVE  Placed(y, Q, O \cup {u})
<1> SUFFICES ASSUME NEW v \in Urls
             PROVE  Single(y, Q, v) /\ (v \in O \cup {u} <=> Somewhere(y, Q, v))
  BY DEF Placed
<1>3. /\ Single(x, Q, v) /\ (v \in O <=> Somewhere(x, Q, v))
      /\ ~Somewhere(x, Q, u)
  BY DEF Placed
<1>4. \A d \in Computers : y.queued[d] = IF d = c THEN u ELSE x.queued[d]
  BY DEF Holds
<1>5. v # None /\ u # None
  BY ComputersAssumption
<1>6. CASE v = u
  <2>1. Single(y, Q, v)
    BY <1>3, <1>4, <1>5, <1>6 DEF Single, Somewhere
  <2>2. Somewhere(y, Q, v)
    BY <1>4, <1>6 DEF Somewhere
  <2> QED BY <1>6, <2>1, <2>2
<1>7. CASE v # u
  <2>1. Single(y, Q, v)
    BY <1>3, <1>4, <1>5, <1>7 DEF Single
  <2>2. Somewhere(x, Q, v) <=> Somewhere(y, Q, v)
    BY <1>4, <1>5, <1>7 DEF Somewhere
  <2> QED BY <1>3, <1>7, <2>1, <2>2
<1> QED BY <1>6, <1>7

\* A URL that arrives.
LEMMA RequestPlaced ==
    ASSUME NEW x, Sound(x), Backed(x), NEW c \in Computers, NEW u \in Urls,
           NEW broker \in Brokers, NEW Q, NEW O, Placed(x, Q, O), u \notin O
    PROVE  Placed(RequestConnect(x, u, c, broker), Q, O \cup {u})
<1>1. x \in Manager /\ Holds(x)
  BY DEF Sound, Manager, Holds
<1>2. CASE c \in x.known
  <2> DEFINE s == Stamp(x, u, c)
  <2>1. Placed(s, Q, O \cup {u})
    BY <1>1, StampPlaced
  <2>2. Sound(s) /\ Backed(s)
    BY StampSound
  <2>3. RequestConnect(x, u, c, broker) = Evaluate(s, c, broker)
    BY <1>2 DEF RequestConnect
  <2> HIDE DEF s
  <2>4. Ends(s, Evaluate(s, c, broker)) /\ Holds(s)
    BY <2>2, EvaluateSound DEF Sound, Manager, Holds
  <2> QED BY <2>1, <2>3, <2>4, EndsPlaced
<1>3. CASE c \notin x.known
  <2> DEFINE y == [x EXCEPT !.queued[c] = u, !.ended = @ \cup ({x.queued[c]} \ {None})]
  <2>1. /\ y.queued = [x.queued EXCEPT ![c] = u] /\ y.token = x.token
        /\ y.ended = x.ended \cup ({x.queued[c]} \ {None})
    BY <1>1 DEF Manager
  <2>2. RequestConnect(x, u, c, broker) = y
    BY <1>3 DEF RequestConnect
  <2> HIDE DEF y
  <2> QED BY <1>1, <2>1, <2>2, QueuePlaced
<1> QED BY <1>2, <1>3

\* A URL that is taken out of the stash is nowhere for a moment.
LEMMA TakenPlaced ==
    ASSUME NEW x, NEW Q, NEW O, Placed(x, Q, O), NEW i \in Nat, NEW u \in Urls,
           <<i, u>> \in Q
    PROVE  u \in O /\ Placed(x, Q \ {<<i, u>>}, O \ {u})
<1> DEFINE R == Q \ {<<i, u>>}
<1>1. u \in O
  BY DEF Placed, Somewhere
<1>2. ASSUME NEW v \in Urls
      PROVE  Single(x, R, v) /\ (v \in O \ {u} <=> Somewhere(x, R, v))
  <2>1. Single(x, Q, v) /\ (v \in O <=> Somewhere(x, Q, v))
    BY DEF Placed
  <2>2. \A j \in Nat : <<j, v>> \in R <=> <<j, v>> \in Q /\ ~(j = i /\ v = u)
    OBVIOUS
  <2> HIDE DEF R
  <2>3. Single(x, R, v)
    BY <2>1, <2>2 DEF Single
  <2>4. CASE v = u
    BY <2>1, <2>2, <2>4 DEF Single, Somewhere
  <2>5. CASE v # u
    BY <2>1, <2>2, <2>3, <2>5 DEF Somewhere
  <2> QED BY <2>3, <2>4, <2>5
<1> QED BY <1>1, <1>2 DEF Placed

\* One that is put into it is there and nowhere else.
LEMMA StashedPlaced ==
    ASSUME NEW x, NEW Q, NEW O, Placed(x, Q, O), NEW i \in Nat, NEW u \in Urls, u \notin O
    PROVE  Placed(x, Q \cup {<<i, u>>}, O \cup {u})
<1> DEFINE R == Q \cup {<<i, u>>}
<1>1. ASSUME NEW v \in Urls
      PROVE  Single(x, R, v) /\ (v \in O \cup {u} <=> Somewhere(x, R, v))
  <2>1. /\ Single(x, Q, v) /\ (v \in O <=> Somewhere(x, Q, v))
        /\ ~Somewhere(x, Q, u)
    BY DEF Placed
  <2>2. \A j \in Nat : <<j, v>> \in R <=> <<j, v>> \in Q \/ (j = i /\ v = u)
    OBVIOUS
  <2> HIDE DEF R
  <2>3. CASE v = u
    BY <2>1, <2>2, <2>3 DEF Single, Somewhere
  <2>4. CASE v # u
    BY <2>1, <2>2, <2>4 DEF Single, Somewhere
  <2> QED BY <2>3, <2>4
<1> QED BY <1>1 DEF Placed

\* Only the three members count.
LEMMA KeptPlaced ==
    ASSUME NEW x, NEW y, Kept(x, y), NEW Q, NEW O, Placed(x, Q, O)
    PROVE  Placed(y, Q, O)
BY DEF Kept, Placed, Single, Somewhere

\* A token that moves from its address to the computer.
LEMMA ResolvePlaced ==
    ASSUME NEW x, Sound(x), NEW c \in Computers, NEW Q, NEW O, Placed(x, Q, O)
    PROVE  Placed(Resolve(x, c), Q, O)
<1>1. CASE x.queued[c] = None
  BY <1>1 DEF Resolve
<1>2. CASE x.queued[c] # None
  <2> DEFINE u == x.queued[c]
             y == [x EXCEPT !.queued[c] = None]
  <2>1. u \in Urls /\ u # None
    BY <1>2 DEF Sound, Manager
  <2>2. /\ y \in Manager /\ y.token = x.token /\ y.ended = x.ended
        /\ y.queued = [x.queued EXCEPT ![c] = None]
    BY DEF Sound, Manager
  <2>3. /\ Resolve(x, c).token = Stamp(y, u, c).token
        /\ Resolve(x, c).queued = Stamp(y, u, c).queued
        /\ Resolve(x, c).ended = Stamp(y, u, c).ended
    BY <1>2 DEF Resolve, Stamp, Sound, Manager
  <2> HIDE DEF y
  <2>4. u \in O
    BY <2>1 DEF Placed, Somewhere
  <2>5. Placed(y, Q, O \ {u})
    <3> SUFFICES ASSUME NEW v \in Urls
                 PROVE  Single(y, Q, v) /\ (v \in O \ {u} <=> Somewhere(y, Q, v))
      BY DEF Placed
    <3>1. Single(x, Q, v) /\ (v \in O <=> Somewhere(x, Q, v))
      BY DEF Placed
    <3>2. \A d \in Computers : y.queued[d] = IF d = c THEN None ELSE x.queued[d]
      BY <2>2 DEF Sound, Manager
    <3>3. v # None
      BY ComputersAssumption
    <3>4. Single(y, Q, v)
      BY <2>2, <3>1, <3>2, <3>3 DEF Single
    <3>5. CASE v = u
      <4>1. ~Somewhere(y, Q, v)
        BY <2>2, <3>1, <3>2, <3>3, <3>5 DEF Single, Somewhere
      <4> QED BY <3>4, <3>5, <4>1
    <3>6. CASE v # u
      <4>1. Somewhere(x, Q, v) <=> Somewhere(y, Q, v)
        BY <2>2, <3>2, <3>3, <3>6 DEF Somewhere
      <4> QED BY <3>1, <3>4, <3>6, <4>1
    <3> QED BY <3>5, <3>6
  <2>6. Placed(Stamp(y, u, c), Q, (O \ {u}) \cup {u})
    BY <2>1, <2>2, <2>5, StampPlaced
  <2>7. (O \ {u}) \cup {u} = O
    BY <2>4
  <2> DEFINE s == Stamp(y, u, c)
  <2>8. Kept(s, Resolve(x, c)) /\ Placed(s, Q, O)
    BY <2>3, <2>6, <2>7 DEF Kept
  <2> HIDE DEF s, u
  <2> QED BY <2>8, KeptPlaced
<1> QED BY <1>1, <1>2

\* The stash of a client that starts.
LEMMA FlushPlaced ==
    ASSUME NEW x, Sound(x), Backed(x), NEW urls \in Seq(Target), NEW O,
           Placed(x, Left(urls, 0), O)
    PROVE  Placed(Flush(x, urls), {}, O)
<1>1. PICK acc : Takes(acc, x, urls) /\ Flush(x, urls) = acc[Len(urls)]
  BY FlushTakes
<1> DEFINE I == {k \in Nat : k <= Len(urls) => /\ Sound(acc[k]) /\ Backed(acc[k])
                                               /\ Placed(acc[k], Left(urls, k), O)}
<1>2. 0 \in I
  BY <1>1 DEF Takes
<1>3. ASSUME NEW k \in I
      PROVE  k + 1 \in I
  <2>1. SUFFICES ASSUME k + 1 <= Len(urls)
                 PROVE  /\ Sound(acc[k + 1]) /\ Backed(acc[k + 1])
                        /\ Placed(acc[k + 1], Left(urls, k + 1), O)
    OBVIOUS
  <2> DEFINE u == urls[k + 1].url
             c == urls[k + 1].computer
             y == acc[k]
  <2>2. k \in Nat /\ k <= Len(urls) /\ k + 1 \in 1..Len(urls) /\ (k + 1) - 1 = k
    BY <2>1
  <2>3. Sound(y) /\ Backed(y) /\ Placed(y, Left(urls, k), O)
    BY <2>2
  <2>4. u \in Urls /\ c \in Computers
    <3>1. urls[k + 1] \in Target
      BY <2>2
    <3> QED BY <3>1 DEF Target
  <2>5. acc[k + 1] = RequestConnect(y, u, c, "good")
    BY <1>1, <2>2 DEF Takes
  <2>6. "good" \in Brokers
    BY DEF Brokers
  <2>7. /\ <<k + 1, u>> \in Left(urls, k)
        /\ Left(urls, k) \ {<<k + 1, u>>} = Left(urls, k + 1)
    <3>1. k + 1..Len(urls) = {k + 1} \cup (k + 2..Len(urls)) /\ (k + 1) + 1 = k + 2
      BY <2>2
    <3>2. k + 1 \notin k + 2..Len(urls)
      BY <2>2
    <3> QED BY <3>1, <3>2 DEF Left
  <2> HIDE DEF u, c, y, I
  <2>8. u \in O /\ Placed(y, Left(urls, k + 1), O \ {u})
    <3> DEFINE R == Left(urls, k)
    <3>1. Placed(y, R, O) /\ k + 1 \in Nat /\ <<k + 1, u>> \in R
      BY <2>2, <2>3, <2>7
    <3> HIDE DEF R
    <3>2. u \in O /\ Placed(y, R \ {<<k + 1, u>>}, O \ {u})
      BY <2>4, <3>1, TakenPlaced
    <3> QED BY <2>7, <3>2 DEF R
  <2>9. Placed(RequestConnect(y, u, c, "good"), Left(urls, k + 1), (O \ {u}) \cup {u})
    BY <2>3, <2>4, <2>6, <2>8, RequestPlaced
  <2>10. (O \ {u}) \cup {u} = O
    BY <2>8
  <2> QED BY <2>3, <2>4, <2>5, <2>6, <2>9, <2>10, RequestSound
<1> HIDE DEF I
<1>4. I = Nat
  <2>1. I \in SUBSET Nat
    BY DEF I
  <2> QED BY <1>2, <1>3, <2>1, SetInduction
<1>5. Len(urls) \in I
  BY <1>4
<1>6. Placed(acc[Len(urls)], Left(urls, Len(urls)), O)
  BY <1>5 DEF I
<1>7. Left(urls, Len(urls)) = {}
  <2>1. Len(urls) + 1..Len(urls) = {}
    BY EmptySeq
  <2> QED BY <2>1 DEF Left
<1> QED BY <1>1, <1>6, <1>7

\* Each URL opened is in one place, and the others are nowhere.
TokenInv == Placed(m, Left(stash, 0), opened)

\* It holds of a client that starts.
LEMMA TokenInit == Init => TokenInv
<1> SUFFICES ASSUME Init PROVE TokenInv
  OBVIOUS
<1>1. Left(stash, 0) = {}
  BY EmptySeq DEF Init, Left
<1>2. ASSUME NEW u \in Urls
      PROVE  ~Somewhere(m, {}, u) /\ Single(m, {}, u)
  BY ComputersAssumption DEF Init, Somewhere, Single
<1> QED BY <1>1, <1>2 DEF Init, TokenInv, Placed

\* Every step keeps it.
LEMMA TokenStep == FlowInv /\ TokenInv /\ [Next]_vars => TokenInv'
<1> SUFFICES ASSUME FlowInv, TokenInv, [Next]_vars PROVE TokenInv'
  OBVIOUS
<1>0. Sound(m) /\ Backed(m) /\ stash \in Seq(Target) /\ Holds(m)
  BY DEF FlowInv, Sound, Manager, Holds
<1>1. ASSUME NEW u \in Urls, Open(u)
      PROVE  TokenInv'
  <2>1. PICK c \in Computers :
            \/ m' = m /\ stash' = Append(stash, [url |-> u, computer |-> c])
            \/ /\ stash' = stash
               /\ \E broker \in Brokers : m' = RequestConnect(m, u, c, broker)
    BY <1>1 DEF Open
  <2>2. u \notin opened /\ opened' = opened \cup {u}
    BY <1>1 DEF Open
  <2>3. CASE m' = m /\ stash' = Append(stash, [url |-> u, computer |-> c])
    <3> DEFINE t == [url |-> u, computer |-> c]
               n == Len(stash)
    <3>1. n \in Nat /\ t.url = u
      BY <1>0
    <3>2. /\ Len(stash') = n + 1 /\ stash'[n + 1] = t
          /\ \A i \in 1..n : stash'[i] = stash[i]
      BY <1>0, <2>3
    <3>3. 1..n + 1 = 1..n \cup {n + 1} /\ n + 1 \notin 1..n /\ 0 + 1 = 1
      BY <3>1
    <3> HIDE DEF n, t
    <3>4. Left(stash', 0) = Left(stash, 0) \cup {<<n + 1, u>>}
      BY <3>1, <3>2, <3>3 DEF Left, n
    <3>5. Placed(m, Left(stash, 0) \cup {<<n + 1, u>>}, opened \cup {u})
      BY <2>2, <3>1, StashedPlaced DEF TokenInv
    <3> QED BY <2>2, <2>3, <3>4, <3>5 DEF TokenInv
  <2>4. ASSUME NEW broker \in Brokers, m' = RequestConnect(m, u, c, broker),
               stash' = stash
        PROVE  TokenInv'
    BY <1>0, <2>2, <2>4, RequestPlaced DEF TokenInv
  <2> QED BY <2>1, <2>3, <2>4
<1>2. CASE Launch
  <2>1. m' = Flush(m, stash) /\ stash' = <<>> /\ opened' = opened
    BY <1>2 DEF Launch
  <2>2. Placed(m', {}, opened)
    BY <1>0, <2>1, FlushPlaced DEF TokenInv
  <2>3. Left(<<>>, 0) = {}
    BY EmptySeq DEF Left
  <2> QED BY <2>1, <2>2, <2>3 DEF TokenInv
<1>3. ASSUME NEW c \in Computers, Poll(c)
      PROVE  TokenInv'
  <2>1. PICK view \in View, broker \in Brokers :
            m' = Evaluate(Resolve([m EXCEPT !.known = @ \cup {c}, !.seen[c] = view], c),
                          c, broker)
    BY <1>3 DEF Poll
  <2> DEFINE z == [m EXCEPT !.known = @ \cup {c}, !.seen[c] = view]
             r == Resolve(z, c)
  <2>2. stash' = stash /\ opened' = opened
    BY <1>3 DEF Poll
  <2>3. /\ z \in Manager /\ z.flow = m.flow /\ z.computer = m.computer /\ z.timer = m.timer
        /\ z.attempt = m.attempt /\ z.pairing = m.pairing /\ z.handshakes = m.handshakes
        /\ Kept(m, z)
    BY <1>0 DEF Sound, Manager, Kept
  <2>4. m' = Evaluate(r, c, broker)
    BY <2>1
  <2> HIDE DEF z
  <2>5. Sound(z) /\ Backed(z) /\ Placed(z, Left(stash, 0), opened)
    BY <1>0, <2>3, BesideSound, KeptPlaced DEF Kept, TokenInv
  <2>6. Sound(r) /\ Backed(r) /\ Placed(r, Left(stash, 0), opened)
    BY <2>5, ResolveSound, ResolvePlaced
  <2> HIDE DEF r
  <2>7. Ends(r, m') /\ Holds(r)
    BY <2>4, <2>6, EvaluateSound DEF Sound, Manager, Holds
  <2> QED BY <2>2, <2>6, <2>7, EndsPlaced DEF TokenInv
<1>4. ASSUME NEW leg \in m.handshakes, NEW ok \in BOOLEAN, HandshakeDone(leg, ok)
      PROVE  TokenInv'
  <2>1. /\ m' = HandshakeResult([m EXCEPT !.handshakes = @ \ {leg}], leg, ok)
        /\ stash' = stash /\ opened' = opened
    BY <1>4 DEF HandshakeDone
  <2>2. Ends(m, m')
    BY <1>0, <2>1, HandshakeSound
  <2> QED BY <1>0, <2>1, <2>2, EndsPlaced DEF TokenInv
<1>5. ASSUME NEW leg \in m.relays, NEW ok \in BOOLEAN, RelayDone(leg, ok)
      PROVE  TokenInv'
  <2>1. /\ m' = RelayResult([m EXCEPT !.relays = @ \ {leg}], leg, ok)
        /\ stash' = stash /\ opened' = opened
    BY <1>5 DEF RelayDone
  <2>2. Ends(m, m')
    BY <1>0, <2>1, RelaySound
  <2> QED BY <1>0, <2>1, <2>2, EndsPlaced DEF TokenInv
<1>6. CASE Timeout \/ Cancel
  <2>1. m' = Finish(m) /\ stash' = stash /\ opened' = opened
    BY <1>6 DEF Timeout, Cancel
  <2>2. m.flow # "idle"
    BY <1>0, <1>6 DEF Timeout, Cancel, Sound
  <2>3. Ends(m, m')
    BY <1>0, <2>1, <2>2, FinishSound
  <2> QED BY <1>0, <2>1, <2>3, EndsPlaced DEF TokenInv
<1>7. CASE UNCHANGED vars
  BY <1>7 DEF vars, TokenInv
<1> QED BY <1>1, <1>2, <1>3, <1>4, <1>5, <1>6, <1>7 DEF Next

\* The two ways to say that each URL is in one place agree.
LEMMA PlacedAccounted == FlowInv /\ TokenInv => TokenAccounted
<1> SUFFICES ASSUME FlowInv, TokenInv, NEW u \in Urls
             PROVE  \/ u \notin opened /\ Places(u) = {}
                    \/ u \in opened /\ \E p \in Places(u) : Places(u) = {p}
  BY DEF TokenAccounted
<1> DEFINE Q == Left(stash, 0)
<1>1. Single(m, Q, u) /\ (u \in opened <=> Somewhere(m, Q, u))
  BY DEF TokenInv, Placed
<1>2. \A i \in DOMAIN stash : i \in Nat /\ (stash[i].url = u <=> <<i, u>> \in Q)
  <2>1. DOMAIN stash = 0 + 1..Len(stash)
    BY DEF FlowInv
  <2> QED BY <2>1 DEF Left
<1>3. \A i \in Nat : <<i, u>> \in Q => i \in DOMAIN stash
  <2>1. DOMAIN stash = 0 + 1..Len(stash)
    BY DEF FlowInv
  <2> QED BY <2>1 DEF Left
<1> HIDE DEF Q
<1>4. \A p : p \in Places(u) <=>
          \/ \E i \in DOMAIN stash : stash[i].url = u /\ p = <<"stash", i>>
          \/ \E c \in Computers : m.queued[c] = u /\ p = <<"queued", c>>
          \/ \E c \in Computers : m.token[c] = u /\ p = <<"token", c>>
          \/ u \in m.ended /\ p = <<"ended", u>>
  BY DEF Places
<1>5. u \in opened <=> Places(u) # {}
  BY <1>1, <1>2, <1>3, <1>4 DEF Somewhere
<1>6. ASSUME NEW p \in Places(u), NEW q \in Places(u)
      PROVE  p = q
  <2>1. CASE \E i \in DOMAIN stash : stash[i].url = u /\ p = <<"stash", i>>
    <3>1. PICK i \in DOMAIN stash : stash[i].url = u /\ p = <<"stash", i>>
      BY <2>1
    <3>2. /\ u \notin m.ended /\ \A c \in Computers : m.queued[c] # u /\ m.token[c] # u
          /\ \A j \in DOMAIN stash : stash[j].url = u => j = i
      BY <1>1, <1>2, <3>1 DEF Single
    <3> QED BY <1>4, <3>1, <3>2
  <2>2. CASE \E c \in Computers : m.queued[c] = u /\ p = <<"queued", c>>
    <3>1. PICK c \in Computers : m.queued[c] = u /\ p = <<"queued", c>>
      BY <2>2
    <3>2. /\ u \notin m.ended /\ \A d \in Computers : m.token[d] # u
          /\ \A d \in Computers : m.queued[d] = u => d = c
          /\ \A j \in DOMAIN stash : stash[j].url # u
      BY <1>1, <1>2, <3>1 DEF Single
    <3> QED BY <1>4, <3>1, <3>2
  <2>3. CASE \E c \in Computers : m.token[c] = u /\ p = <<"token", c>>
    <3>1. PICK c \in Computers : m.token[c] = u /\ p = <<"token", c>>
      BY <2>3
    <3>2. /\ u \notin m.ended /\ \A d \in Computers : m.queued[d] # u
          /\ \A d \in Computers : m.token[d] = u => d = c
          /\ \A j \in DOMAIN stash : stash[j].url # u
      BY <1>1, <1>2, <3>1 DEF Single
    <3> QED BY <1>4, <3>1, <3>2
  <2>4. CASE u \in m.ended /\ p = <<"ended", u>>
    <3>1. /\ \A c \in Computers : m.queued[c] # u /\ m.token[c] # u
          /\ \A j \in DOMAIN stash : stash[j].url # u
      BY <1>1, <1>2, <2>4 DEF Single
    <3> QED BY <1>4, <2>4, <3>1
  <2> QED BY <1>4, <2>1, <2>2, <2>3, <2>4
<1> QED BY <1>5, <1>6

\* The token of an opened URL is always in exactly one place: stashed, queued for an
\* address, on one computer, or ended; none is lost between the slots, and none is
\* left behind where another flow would use it again.
THEOREM TokensAccounted == Spec => []TokenAccounted
<1>1. Spec => []TokenInv
  BY TokenInit, TokenStep, FlowKept, PTL DEF Spec
<1> QED BY <1>1, FlowKept, PlacedAccounted, PTL
=============================================================================
