------------------------- MODULE CredentialsProofs -------------------------
(***************************************************************************)
(* Proofs about Credentials, for every set of requests, persons, host      *)
(* names and secrets, and whatever fails.                                  *)
(*                                                                         *)
(* TypeInv is the inductive form of TypeOK.  Ledger says what the rows and *)
(* the open transactions have to do with the requests: a row has the id of *)
(* an answered request, an open one has in hand what its call is about.    *)
(* Each property then has an invariant of its own, inductive given both.   *)
(***************************************************************************)
EXTENDS Credentials, FiniteSetTheorems, TLAPS

-----------------------------------------------------------------------------
(* Type correctness.                                                       *)

\* The statements and answers a request can move to.
Stage == {"idle"} \cup Steps \cup Answers

\* What a request r of a user must be to stand at a step with the writes x.
Fits(r, user, step, x) ==
    /\ step = "upsert" => r \in LoginRequest
    /\ step = "end" => r \in CookieRequest
    /\ step = "host" => r \in CreateRequest
    /\ step = "scan" => r \in RotateRequest
    /\ step = "mint" => r \in CreateRequest \cup RotateRequest
    /\ step \in {"host", "scan", "mint"} => user \in Ids
    /\ step \in {"load", "update"} => r \in SecretRequest
    /\ x.users # {} => r \in LoginRequest
    /\ step \notin Steps => x = NoWrites

TypeInv ==
    /\ TypeOK
    /\ \A q \in Requests : Fits(req[q], who[q], pc[q], w[q])

\* The arrival of a request keeps the types.
LEMMA BeginType ==
    ASSUME TypeInv, NEW q \in Requests, NEW r \in Request, NEW user \in Ids \cup {Nobody},
           NEW step \in Stage, Fits(r, user, step, w[q]), Begin(q, r, user, step)
    PROVE  TypeInv'
<1>1. /\ pc' \in [Requests -> Stage]
      /\ req' \in [Requests -> Request \cup {NoRequest}]
      /\ who' \in [Requests -> Ids \cup {Nobody}]
      /\ prior' \in [Requests -> SUBSET Requests]
  BY DEF TypeInv, TypeOK, Begin, Stage
<1>2. UNCHANGED <<users, tokens, hosts, audit, scan, w, granted>>
  BY DEF Begin, database
<1>3. \A p \in Requests : Fits(req'[p], who'[p], pc'[p], w'[p])
  BY <1>2 DEF TypeInv, TypeOK, Begin
<1> QED BY <1>1, <1>2, <1>3 DEF TypeInv, TypeOK, Stage

\* So does a statement that leaves its effect in the transaction,
LEMMA WriteType ==
    ASSUME TypeInv, NEW q \in Requests, NEW step \in Stage, NEW writes \in Writes,
           Fits(req[q], who[q], step, writes), Write(q, step, writes)
    PROVE  TypeInv'
<1>1. pc' \in [Requests -> Stage] /\ w' \in [Requests -> Writes]
  BY DEF TypeInv, TypeOK, Write, Stage
<1>2. UNCHANGED <<users, tokens, hosts, audit, req, who, scan, prior, granted>>
  BY DEF Write, database
<1>3. \A p \in Requests : Fits(req'[p], who'[p], pc'[p], w'[p])
  BY <1>2 DEF TypeInv, TypeOK, Write
<1> QED BY <1>1, <1>2, <1>3 DEF TypeInv, TypeOK, Stage

\* ... and the end of a transaction that is not committed.
LEMMA RollbackType ==
    ASSUME TypeInv, NEW q \in Requests, NEW answer \in Answers, Rollback(q, answer)
    PROVE  TypeInv'
<1>1. /\ pc' \in [Requests -> Stage]
      /\ scan' \in [Requests -> SUBSET Jti]
      /\ w' \in [Requests -> Writes]
  BY DEF TypeInv, TypeOK, Rollback, Stage, Writes, NoWrites
<1>2. UNCHANGED <<users, tokens, hosts, audit, req, who, prior, granted>>
  BY DEF Rollback, database
<1>3. \A p \in Requests : Fits(req'[p], who'[p], pc'[p], w'[p])
  BY <1>2 DEF TypeInv, TypeOK, Rollback, Fits, Answers, NoWrites
<1> QED BY <1>1, <1>2, <1>3 DEF TypeInv, TypeOK, Stage

\* A cookie names a token, and identifies a user or nobody.
LEMMA CookieType ==
    ASSUME TypeOK, NEW c
    PROVE  /\ Cookies \subseteq Ids
           /\ Identified(c) \in Ids \cup {Nobody}
           /\ SessionUsers(c) # {} => Identified(c) \in Ids
<1>1. SessionUsers(c) \subseteq User
  BY DEF TypeOK, SessionUsers
<1> QED BY <1>1 DEF TypeOK, Cookies, Identified, User, Token

\* A request of an administrator goes on as one of a user.
LEMMA AdminType ==
    ASSUME TypeInv, NEW q \in Requests, NEW step \in {"host", "scan", "load"},
           NEW r \in Request, BeginAdmin(q, r, step),
           step = "host" => r \in CreateRequest,
           step = "scan" => r \in RotateRequest,
           step = "load" => r \in SecretRequest
    PROVE  TypeInv'
<1> DEFINE to == IF \E u \in SessionUsers(r.cookie) : u.role = "admin"
                 THEN step ELSE "refused"
<1>1. Identified(r.cookie) \in Ids \cup {Nobody} /\ to \in Stage
  BY CookieType DEF TypeInv, Stage, Steps, Answers
<1>2. to = step => Identified(r.cookie) \in Ids
  BY CookieType DEF TypeInv
<1>3. w[q] = NoWrites
  BY DEF TypeInv, Fits, BeginAdmin, Begin, Steps
<1>4. to \in {step, "refused"}
  OBVIOUS
<1>5. Fits(r, Identified(r.cookie), to, w[q])
  <2> HIDE DEF to
  <2> QED BY <1>2, <1>3, <1>4 DEF Fits, NoWrites
<1> QED BY <1>1, <1>5, BeginType DEF BeginAdmin

\* Every way a request can begin keeps the types,
LEMMA ArriveType ==
    ASSUME TypeInv, NEW q \in Requests, Arrive(q)
    PROVE  TypeInv'
<1>1. pc[q] = "idle" => w[q] = NoWrites
  BY DEF TypeInv, Fits, Steps
<1>2. CASE BeginLogin(q)
  <2>1. PICK x \in People, r \in Roles :
           Begin(q, [kind |-> "login", person |-> x, role |-> r, valid |-> TRUE],
                 Nobody, "upsert")
    BY <1>2 DEF BeginLogin
  <2> DEFINE form == [kind |-> "login", person |-> x, role |-> r, valid |-> TRUE]
  <2>2. form \in LoginRequest /\ form \in Request
    BY DEF LoginRequest, Request
  <2>3. Fits(form, Nobody, "upsert", w[q])
    BY <1>1, <2>1, <2>2 DEF Fits, NoWrites, Steps, Begin
  <2> QED BY <2>1, <2>2, <2>3, BeginType DEF Stage, Steps
<1>3. CASE BeginBadLogin(q)
  <2> DEFINE form == [kind |-> "login", person |-> Root, role |-> "user", valid |-> FALSE]
  <2>1. form \in LoginRequest /\ form \in Request
    BY CredentialsAssumption DEF LoginRequest, Request, Roles
  <2>2. Fits(form, Nobody, "upsert", w[q])
    BY <1>1, <1>3, <2>1 DEF Fits, NoWrites, Steps, Begin, BeginBadLogin
  <2> QED BY <1>3, <2>1, <2>2, BeginType DEF Stage, Steps, BeginBadLogin
<1>4. CASE BeginMe(q)
  <2>1. PICK c \in Cookies :
           Begin(q, [kind |-> "me", cookie |-> c], Identified(c),
                 IF Identified(c) = Nobody THEN "refused" ELSE "ok")
    BY <1>4 DEF BeginMe
  <2> DEFINE step == IF Identified(c) = Nobody THEN "refused" ELSE "ok"
  <2>2. [kind |-> "me", cookie |-> c] \in Request
    BY CookieType DEF TypeInv, Request, CookieRequest
  <2>3. Fits([kind |-> "me", cookie |-> c], Identified(c), step, w[q]) /\ step \in Stage
    BY <1>1, <2>1 DEF Fits, NoWrites, Begin, Stage, Answers
  <2> HIDE DEF step
  <2>4. Begin(q, [kind |-> "me", cookie |-> c], Identified(c), step)
    BY <2>1 DEF step
  <2> QED BY <2>2, <2>3, <2>4, CookieType, BeginType DEF TypeInv
<1>5. CASE BeginLogout(q)
  <2>1. PICK c \in Cookies :
           Begin(q, [kind |-> "logout", cookie |-> c], Identified(c), "end")
    BY <1>5 DEF BeginLogout
  <2>2. /\ [kind |-> "logout", cookie |-> c] \in CookieRequest
        /\ [kind |-> "logout", cookie |-> c] \in Request
    BY CookieType DEF TypeInv, Request, CookieRequest
  <2>3. Fits([kind |-> "logout", cookie |-> c], Identified(c), "end", w[q])
    BY <1>1, <2>1, <2>2 DEF Fits, NoWrites, Begin, Steps
  <2> QED BY <2>1, <2>2, <2>3, CookieType, BeginType DEF TypeInv, Stage, Steps
<1>6. CASE BeginHeartbeat(q)
  <2>1. PICK t \in {x \in tokens : x.purpose = "agent"} :
           Begin(q, [kind |-> "heartbeat", bearer |-> t.id], Nobody,
                 IF Valid(t) THEN "commit" ELSE "refused")
    BY <1>6 DEF BeginHeartbeat
  <2> DEFINE step == IF Valid(t) THEN "commit" ELSE "refused"
  <2>2. [kind |-> "heartbeat", bearer |-> t.id] \in Request
    BY DEF TypeInv, TypeOK, Token, Request, BeatRequest
  <2>3. /\ Fits([kind |-> "heartbeat", bearer |-> t.id], Nobody, step, w[q])
        /\ step \in Stage
    BY <1>1, <2>1 DEF Fits, NoWrites, Begin, Stage, Answers, Steps
  <2> HIDE DEF step
  <2>4. Begin(q, [kind |-> "heartbeat", bearer |-> t.id], Nobody, step)
    BY <2>1 DEF step
  <2> QED BY <2>2, <2>3, <2>4, BeginType
<1>7. CASE BeginCreate(q)
  <2>1. PICK c \in Cookies, n \in Hostnames, s \in Secrets :
           BeginAdmin(q, [kind |-> "create", cookie |-> c, name |-> n, secret |-> s], "host")
    BY <1>7 DEF BeginCreate
  <2> DEFINE form == [kind |-> "create", cookie |-> c, name |-> n, secret |-> s]
  <2>2. form \in CreateRequest /\ form \in Request
    BY CookieType DEF TypeInv, CreateRequest, Request
  <2> HIDE DEF form
  <2> QED BY <2>1, <2>2, AdminType DEF form
<1>8. CASE BeginRotate(q)
  <2>1. PICK c \in Cookies, h \in hosts :
           BeginAdmin(q, [kind |-> "rotate", cookie |-> c, host |-> h.id], "scan")
    BY <1>8 DEF BeginRotate
  <2> DEFINE form == [kind |-> "rotate", cookie |-> c, host |-> h.id]
  <2>2. form \in RotateRequest /\ form \in Request
    BY CookieType DEF TypeInv, TypeOK, Host, RotateRequest, Request
  <2> HIDE DEF form
  <2> QED BY <2>1, <2>2, AdminType DEF form
<1>9. CASE BeginSecret(q)
  <2>1. PICK c \in Cookies, h \in hosts, s \in Secrets :
           BeginAdmin(q, [kind |-> "sunshine", cookie |-> c, host |-> h.id, secret |-> s],
                      "load")
    BY <1>9 DEF BeginSecret
  <2> DEFINE form == [kind |-> "sunshine", cookie |-> c, host |-> h.id, secret |-> s]
  <2>2. form \in SecretRequest /\ form \in Request
    BY CookieType DEF TypeInv, TypeOK, Host, SecretRequest, Request
  <2> HIDE DEF form
  <2> QED BY <2>1, <2>2, AdminType DEF form
<1> QED BY <1>2, <1>3, <1>4, <1>5, <1>6, <1>7, <1>8, <1>9 DEF Arrive

\* ... so does every statement of a handler,
LEMMA StepType ==
    ASSUME TypeInv, NEW q \in Requests, Step(q), ~Commit(q)
    PROVE  TypeInv'
<1>1. /\ w[q] \in Writes /\ req[q] \in Request \cup {NoRequest}
      /\ q \in Ids /\ Fits(req[q], who[q], pc[q], w[q])
  BY DEF TypeInv, TypeOK, Ids
<1>2. {"commit", "mint", "update"} \subseteq Stage
  BY DEF Stage, Steps
<1>3. \A v : /\ Session(q, v).purpose = "session"
             /\ v \in Ids => Session(q, v) \in Token
             /\ \A h \in Ids : v \in Ids => AgentToken(q, v, h) \in Token
  BY <1>1 DEF Session, AgentToken, Token
<1>4. CASE Upsert(q)
  <2> DEFINE user == IF RowOf(req[q].person) = {} THEN q
                     ELSE (CHOOSE u \in RowOf(req[q].person) : TRUE).id
             rejected == [w[q] EXCEPT !.audit = {[by |-> q, action |-> "login_failure",
                                                  actor |-> Nobody]}]
             written == [w[q] EXCEPT
                           !.users = IF user = q
                                     THEN {[id |-> q, person |-> req[q].person,
                                            role |-> req[q].role, active |-> TRUE]} ELSE {},
                           !.tokens = {Session(q, user)},
                           !.audit = {[by |-> q, action |-> "login_success",
                                       actor |-> user]}]
  <2>1. pc[q] = "upsert" /\ req[q] \in LoginRequest
    BY <1>1, <1>4 DEF Upsert, Fits
  <2>2. user \in Ids
    BY <1>1 DEF RowOf, TypeInv, TypeOK, User
  <2>3. rejected \in Writes /\ rejected.users = w[q].users
    BY <1>1 DEF Writes, Audit
  <2>4. written \in Writes
    <3>1. [id |-> q, person |-> req[q].person, role |-> req[q].role, active |-> TRUE] \in User
      BY <1>1, <2>1 DEF User, LoginRequest
    <3> HIDE DEF user
    <3>2. Session(q, user) \in Token
      BY <1>3, <2>2
    <3>3. [by |-> q, action |-> "login_success", actor |-> user] \in Audit
      BY <2>2 DEF Audit
    <3> QED BY <1>1, <3>1, <3>2, <3>3 DEF Writes
  <2>5. Write(q, "commit", rejected) \/ Write(q, "commit", written)
    BY <1>4 DEF Upsert
  <2>6. /\ Fits(req[q], who[q], "commit", rejected)
        /\ Fits(req[q], who[q], "commit", written)
    BY <2>1 DEF Fits, Steps
  <2> HIDE DEF rejected, written
  <2> QED BY <1>2, <2>3, <2>4, <2>5, <2>6, WriteType
<1>5. CASE EndSession(q)
  <2> DEFINE written == [w[q] EXCEPT !.revokes = {<<"session", req[q].cookie>>},
                                     !.audit = {[by |-> q, action |-> "logout",
                                                 actor |-> who[q]]}]
  <2>1. pc[q] = "end" /\ req[q] \in CookieRequest
    BY <1>1, <1>5 DEF EndSession, Fits
  <2>2. <<"session", req[q].cookie>> \in Jti
    BY <2>1 DEF CookieRequest, Jti
  <2>3. [by |-> q, action |-> "logout", actor |-> who[q]] \in Audit
    BY DEF Audit, TypeInv, TypeOK
  <2>4. written \in Writes /\ written.users = w[q].users
    BY <1>1, <2>2, <2>3 DEF Writes
  <2>5. Write(q, "commit", written) \/ Rollback(q, "ok")
    BY <1>5 DEF EndSession
  <2>6. Fits(req[q], who[q], "commit", written)
    BY <1>1, <2>4 DEF Fits, Steps
  <2> HIDE DEF written
  <2> QED BY <1>2, <2>4, <2>5, <2>6, WriteType, RollbackType DEF Answers
<1>6. CASE InsertHost(q)
  <2> DEFINE written == [w[q] EXCEPT !.hosts = {[id |-> q, name |-> req[q].name,
                                                 secret |-> req[q].secret]}]
  <2>1. pc[q] = "host" /\ req[q] \in CreateRequest /\ who[q] \in Ids
    BY <1>1, <1>6 DEF InsertHost, Fits
  <2>2. [id |-> q, name |-> req[q].name, secret |-> req[q].secret] \in Host
    BY <1>1, <2>1 DEF CreateRequest, Host
  <2>3. written \in Writes /\ written.users = w[q].users
    BY <1>1, <2>2 DEF Writes
  <2>4. Write(q, "mint", written) \/ Rollback(q, "conflict")
    BY <1>6 DEF InsertHost
  <2>5. Fits(req[q], who[q], "mint", written)
    BY <1>1, <2>1, <2>3 DEF Fits, Steps
  <2> HIDE DEF written
  <2> QED BY <1>2, <2>3, <2>4, <2>5, WriteType, RollbackType DEF Answers
<1>7. CASE Scan(q)
  <2>1. {JtiOf(t) : t \in AgentTokensOf(req[q].host)} \subseteq Jti
    BY DEF JtiOf, AgentTokensOf, Jti, TypeInv, TypeOK, Token
  <2>2. scan' \in [Requests -> SUBSET Jti] /\ pc' \in [Requests -> Stage]
    BY <1>7, <2>1, <1>2 DEF Scan, TypeInv, TypeOK, Stage
  <2>3. UNCHANGED <<users, tokens, hosts, audit, req, who, w, prior, granted>>
    BY <1>7 DEF Scan, database
  <2>4. Fits(req[q], who[q], "mint", w[q])
    BY <1>1, <1>7 DEF Scan, Fits, Steps
  <2>5. \A p \in Requests : Fits(req'[p], who'[p], pc'[p], w'[p])
    BY <1>7, <2>3, <2>4 DEF TypeInv, TypeOK, Scan
  <2> QED BY <2>2, <2>3, <2>5 DEF TypeInv, TypeOK, Stage
<1>8. CASE RevokeAndMint(q)
  <2> DEFINE revoked == {k \in scan[q] : \E t \in tokens : JtiOf(t) = k /\ ~t.revoked}
             written == [w[q] EXCEPT !.revokes = revoked,
                                     !.tokens = {AgentToken(q, who[q], HostOf(q))}]
  <2>1. /\ pc[q] = "mint" /\ req[q] \in CreateRequest \cup RotateRequest
        /\ who[q] \in Ids
    BY <1>1, <1>8 DEF RevokeAndMint, Fits
  <2>2. HostOf(q) \in Ids
    BY <1>1, <2>1 DEF HostOf, CreateRequest, RotateRequest
  <2>3. AgentToken(q, who[q], HostOf(q)) \in Token
    BY <1>3, <2>1, <2>2
  <2>4. revoked \subseteq Jti
    BY DEF TypeInv, TypeOK
  <2>5. written \in Writes /\ written.users = w[q].users
    <3> HIDE DEF revoked
    <3> QED BY <1>1, <2>3, <2>4 DEF Writes
  <2>6. Write(q, "commit", written)
    BY <1>8 DEF RevokeAndMint
  <2>7. Fits(req[q], who[q], "commit", written)
    BY <1>1, <2>5 DEF Fits, Steps
  <2> HIDE DEF written
  <2> QED BY <1>2, <2>5, <2>6, <2>7, WriteType
<1>9. CASE LoadHost(q)
  <2>1. Write(q, "commit", w[q]) \/ Write(q, "update", w[q])
    BY <1>9 DEF LoadHost
  <2>2. Fits(req[q], who[q], "commit", w[q]) /\ Fits(req[q], who[q], "update", w[q])
    BY <1>1, <1>9 DEF Fits, Steps, LoadHost
  <2> QED BY <1>1, <1>2, <2>1, <2>2, WriteType
<1>10. CASE UpdateHost(q)
  <2> DEFINE written == [w[q] EXCEPT !.secrets = {<<req[q].host, req[q].secret>>}]
  <2>1. pc[q] = "update" /\ req[q] \in SecretRequest
    BY <1>1, <1>10 DEF UpdateHost, Fits
  <2>2. written \in Writes /\ written.users = w[q].users
    BY <1>1, <2>1 DEF Writes, SecretRequest
  <2>3. Fits(req[q], who[q], "commit", written)
    BY <1>1, <2>2 DEF Fits, Steps
  <2>4. Write(q, "commit", written)
    BY <1>10 DEF UpdateHost
  <2> HIDE DEF written
  <2> QED BY <1>2, <2>2, <2>3, <2>4, WriteType
<1> QED BY <1>4, <1>5, <1>6, <1>7, <1>8, <1>9, <1>10 DEF Step

\* ... and its commit.
LEMMA CommitType ==
    ASSUME TypeInv, NEW q \in Requests, Commit(q)
    PROVE  TypeInv'
<1>1. w[q] \in Writes /\ Fits(req[q], who[q], pc[q], w[q])
  BY DEF TypeInv, TypeOK
<1>2. users' \subseteq User
  BY <1>1 DEF Commit, Accounts, TypeInv, TypeOK, Writes
<1>3. tokens' \subseteq Token
  <2>1. \A t \in tokens : [t EXCEPT !.revoked = TRUE] \in Token
    BY DEF TypeInv, TypeOK, Token
  <2> QED BY <1>1, <2>1 DEF Commit, TypeInv, TypeOK, Writes
<1>4. hosts' \subseteq Host
  <2>1. \A h \in hosts, s \in Secrets : [h EXCEPT !.secret = s] \in Host
    BY DEF TypeInv, TypeOK, Host
  <2>2. \A h \in hosts : (\E s \in Secrets : <<h.id, s>> \in w[q].secrets) =>
           (CHOOSE s \in Secrets : <<h.id, s>> \in w[q].secrets) \in Secrets
    OBVIOUS
  <2> DEFINE changed(h) == [h EXCEPT !.secret = CHOOSE s \in Secrets :
                                                  <<h.id, s>> \in w[q].secrets]
             after(h) == IF \E s \in Secrets : <<h.id, s>> \in w[q].secrets
                         THEN changed(h) ELSE h
  <2>3. \A h \in hosts : after(h) \in Host
    BY <2>1, <2>2 DEF TypeInv, TypeOK
  <2>4. hosts' = {after(h) : h \in hosts} \cup w[q].hosts
    BY DEF Commit
  <2>5. w[q].hosts \subseteq Host
    BY <1>1 DEF Writes
  <2> HIDE DEF after
  <2> QED BY <2>3, <2>4, <2>5
<1>5. audit' \subseteq Audit
  BY <1>1 DEF Commit, TypeInv, TypeOK, Writes
<1>6. /\ pc' \in [Requests -> Stage]
      /\ scan' \in [Requests -> SUBSET Jti]
      /\ w' \in [Requests -> Writes]
  BY DEF Commit, TypeInv, TypeOK, Stage, Answers, Writes, NoWrites
<1>7. UNCHANGED <<req, who, prior>>
  BY DEF Commit
<1>8. DOMAIN granted' = {u.id : u \in users'}
  BY DEF Commit, Accounts
<1>9. \A i \in DOMAIN granted' : granted'[i] \in Standing
  <2> DEFINE fresh == [role |-> req[q].role, active |-> TRUE]
             ids == {u.id : u \in users \cup w[q].users}
  <2>1. granted' = [i \in ids |-> IF i \in DOMAIN granted THEN granted[i] ELSE fresh]
    BY DEF Commit
  <2>2. w[q].users # {} => fresh \in Standing
    BY <1>1 DEF Fits, LoginRequest, Standing
  <2>3. w[q].users = {} => ids = DOMAIN granted
    BY DEF TypeInv, TypeOK
  <2>4. \A i \in DOMAIN granted : granted[i] \in Standing
    BY DEF TypeInv, TypeOK
  <2> HIDE DEF fresh, ids
  <2> QED BY <2>1, <2>2, <2>3, <2>4
<1>10. \A p \in Requests : Fits(req'[p], who'[p], pc'[p], w'[p])
  BY <1>7 DEF Commit, TypeInv, TypeOK, Fits, Steps, NoWrites
<1> QED BY <1>2, <1>3, <1>4, <1>5, <1>6, <1>7, <1>8, <1>9, <1>10 DEF TypeInv, TypeOK, Stage

\* What an administrator does in the database, and the passing of a ttl, keep the types.
LEMMA OutsideType ==
    ASSUME TypeInv, (\E u \in users : Adjust(u)) \/ (\E t \in tokens : Expire(t))
    PROVE  TypeInv'
<1>1. CASE \E u \in users : Adjust(u)
  <2>1. PICK u \in users : Adjust(u)
    BY <1>1
  <2> PICK s \in Adjustments :
           /\ users' = (users \ {u}) \cup {[u EXCEPT !.role = s.role, !.active = s.active]}
           /\ granted' = [granted EXCEPT ![u.id] = s]
    BY <2>1 DEF Adjust
  <2>2. s \in Standing
    BY CredentialsAssumption
  <2>3. users' \subseteq User
    BY <2>1, <2>2 DEF TypeInv, TypeOK, User, Standing
  <2>4. {v.id : v \in users'} = {v.id : v \in users}
    <3> DEFINE v == [u EXCEPT !.role = s.role, !.active = s.active]
    <3>1. v.id = u.id
      BY DEF TypeInv, TypeOK, User
    <3>2. users' = (users \ {u}) \cup {v}
      BY <2>1
    <3> HIDE DEF v
    <3> QED BY <3>1, <3>2
  <2>5. DOMAIN granted' = DOMAIN granted
    BY <2>1
  <2>6. \A i \in DOMAIN granted' : granted'[i] \in Standing
    BY <2>1, <2>2 DEF TypeInv, TypeOK
  <2>7. UNCHANGED <<tokens, hosts, audit, pc, req, who, scan, w, prior>>
    BY <2>1 DEF Adjust
  <2> QED BY <2>3, <2>4, <2>5, <2>6, <2>7 DEF TypeInv, TypeOK
<1>2. CASE \E t \in tokens : Expire(t)
  <2>1. tokens' \subseteq Token
    BY <1>2 DEF Expire, TypeInv, TypeOK, Token
  <2> QED BY <1>2, <2>1 DEF Expire, TypeInv, TypeOK
<1> QED BY <1>1, <1>2

\* Every step keeps the types.
LEMMA NextType == TypeInv /\ [Next]_vars => TypeInv'
<1> SUFFICES ASSUME TypeInv, [Next]_vars
             PROVE  TypeInv'
  OBVIOUS
<1>1. ASSUME NEW q \in Requests, Fail(q)
      PROVE  TypeInv'
  BY <1>1, RollbackType DEF Fail, Answers
<1>2. CASE UNCHANGED vars
  BY <1>2 DEF vars, database, TypeInv, TypeOK
<1>3. \A q \in Requests : Arrive(q) \/ Step(q) => TypeInv'
  BY ArriveType, StepType, CommitType
<1> QED BY <1>1, <1>2, <1>3, OutsideType DEF Next

\* The initial state is well typed.
LEMMA InitType == Init => TypeInv
<1> SUFFICES ASSUME Init
             PROVE  TypeInv
  OBVIOUS
<1>1. users \subseteq User /\ tokens \subseteq Token /\ hosts \subseteq Host
  BY CredentialsAssumption
  DEF Init, User, Token, Host, Session, AgentToken, Ids, Roles
<1>2. NoWrites \in Writes
  BY DEF NoWrites, Writes
<1>3. /\ DOMAIN granted = {u.id : u \in users}
      /\ \A i \in DOMAIN granted : granted[i] \in Standing
  BY DEF Init, Standing, Roles
<1>4. TypeOK
  BY <1>1, <1>2, <1>3 DEF Init, TypeOK
<1>5. \A q \in Requests : Fits(req[q], who[q], pc[q], w[q])
  BY DEF Init, Fits, Steps, NoWrites
<1> QED BY <1>4, <1>5 DEF TypeInv

\* Every variable keeps its type: in particular a token, an account and a host are
\* never written by a request that has no right to be at that statement.
THEOREM TypeCorrect == Spec => []TypeOK
<1>1. Spec => []TypeInv
  BY InitType, NextType, PTL DEF Spec
<1>2. TypeInv => TypeOK
  BY DEF TypeInv
<1> QED BY <1>1, <1>2, PTL

-----------------------------------------------------------------------------
(* What the rows and the open transactions have to do with the requests.   *)

\* i is the id of rows that may be there: those of the start, or of a request that
\* has been answered.
Answered(i) == i = Seed \/ (i \in Requests /\ pc[i] = "ok")

\* Rows are of answered requests, one per request.
RowsOfAnswered ==
    /\ \A u \in users : Answered(u.id)
    /\ \A t \in tokens : Answered(t.id)
    /\ \A h \in hosts : Answered(h.id)
    /\ \A u, v \in users : u.id = v.id => u = v
    /\ \A s, t \in tokens : JtiOf(s) = JtiOf(t) => s = t
    /\ \A g, h \in hosts : g.id = h.id => g = h

\* What a request has in its transaction is what its call is about.
AccountWritten(q) ==
    /\ \A u \in w[q].users : u = [id |-> q, person |-> req[q].person,
                                  role |-> req[q].role, active |-> TRUE]
    /\ w[q].users # {} => req[q].kind = "login" /\ req[q].valid /\ pc[q] = "commit"

HostWritten(q) ==
    /\ \A h \in w[q].hosts : h = [id |-> q, name |-> req[q].name, secret |-> req[q].secret]
    /\ w[q].hosts # {} <=> req[q].kind = "create" /\ pc[q] \in {"mint", "commit"}

TokenWritten(q) ==
    /\ \A s, t \in w[q].tokens : s = t
    /\ \A t \in w[q].tokens : t.id = q /\ ~t.revoked /\ pc[q] = "commit"
    /\ \A t \in w[q].tokens : t.purpose = "session" => req[q].kind = "login" /\ req[q].valid
    /\ \A t \in w[q].tokens : t.purpose = "agent" =>
          req[q].kind \in {"create", "rotate"} /\ t.host = HostOf(q)
    /\ pc[q] = "commit" /\ req[q].kind \in {"create", "rotate"} => w[q].tokens # {}

\* The keys it revokes are those of its host, or the one of its cookie.
Revoking(q) ==
    /\ scan[q] # {} => req[q].kind = "rotate" /\ pc[q] \in {"mint", "commit"}
    /\ w[q].revokes # {} => req[q].kind \in {"rotate", "logout"} /\ pc[q] = "commit"
    /\ \A k \in scan[q] \cup w[q].revokes : Answered(k[2])
    /\ \A k \in scan[q] \cup w[q].revokes :
          req[q].kind = "rotate" =>
             k[1] = "agent" /\ \A t \in tokens : JtiOf(t) = k => t.host = req[q].host
    /\ req[q].kind = "logout" => w[q].revokes \subseteq {<<"session", req[q].cookie>>}

\* What a request has seen of the others when it came.
Came(q) ==
    /\ \A p \in prior[q] : pc[p] = "ok" /\ q \notin prior[p]
    /\ pc[q] = "idle" => prior[q] = {} /\ who[q] = Nobody /\ req[q] = NoRequest
    /\ req[q].kind = "rotate" => Before(req[q].host, q)
    /\ req[q].kind = "logout" => Answered(req[q].cookie)
    /\ req[q].kind = "heartbeat" => Answered(req[q].bearer)
    /\ req[q].kind = "sunshine" => Answered(req[q].host)
    /\ pc[q] = "end" => req[q].kind = "logout"
    /\ pc[q] = "scan" => req[q].kind = "rotate"
    /\ pc[q] = "host" => req[q].kind = "create"
    /\ pc[q] = "mint" => req[q].kind \in {"create", "rotate"}

Own(q) ==
    /\ AccountWritten(q) /\ HostWritten(q) /\ TokenWritten(q)
    /\ Revoking(q) /\ Came(q)

Ledger == RowsOfAnswered /\ \A q \in Requests : Own(q)

\* An open login has its person's row; an account belongs to one person, who is not
\* registered twice by two open logins.
Upserted(q) == pc[q] = "commit" /\ req[q].kind = "login" /\ req[q].valid

PersonsClaimed ==
    /\ \A u, v \in users : u.person = v.person => u = v
    /\ \A q \in Requests, u \in users : w[q].users # {} => u.person # req[q].person
    /\ \A p, q \in Requests :
          Upserted(p) /\ Upserted(q) /\ req[p].person = req[q].person => p = q

\* The sessions of a login are of its person.
SessionsOfPerson ==
    \A q \in Requests : req[q].kind = "login" =>
        /\ \A t \in w[q].tokens :
              \E u \in users \cup w[q].users : u.id = t.user /\ u.person = req[q].person
        /\ \A t \in Named("session", q) :
              \E u \in users : u.id = t.user /\ u.person = req[q].person

\* A host name is claimed by one committed host or one open registration.
NamesClaimed ==
    /\ \A g, h \in hosts : g.name = h.name => g = h
    /\ \A q \in Requests, h \in hosts : w[q].hosts # {} => h.name # req[q].name
    /\ \A p, q \in Requests : w[p].hosts # {} /\ w[q].hosts # {} /\ req[p].name = req[q].name
          => p = q

\* A logout that has found its session is about to end it, or has ended it.
LogoutsEnd ==
    \A l \in Requests : req[l].kind = "logout" =>
        /\ pc[l] = "commit" => <<"session", req[l].cookie>> \in w[l].revokes
        /\ pc[l] = "ok" => \A t \in Named("session", req[l].cookie) : t.revoked

\* A rotation has in hand every live token that was there when it came.
RotationsEnd ==
    \A r \in Requests : \A t \in tokens :
        t.purpose = "agent" /\ Before(t.id, r) =>
           /\ req[r].kind = "create" => t.host # r
           /\ req[r].kind = "rotate" /\ t.host = req[r].host =>
                 /\ pc[r] = "mint" => t.revoked \/ JtiOf(t) \in scan[r]
                 /\ pc[r] = "commit" => t.revoked \/ JtiOf(t) \in w[r].revokes
                 /\ pc[r] = "ok" => t.revoked

\* Heartbeats under way are as those that have been answered.
HeartbeatsBarred ==
    \A b \in Requests : req[b].kind = "heartbeat" /\ pc[b] \in {"commit", "ok"} =>
        \A r \in prior[b] : \A t \in Named("agent", req[b].bearer), n \in Named("agent", r) :
            t.host = n.host => ~Before(t.id, r)

\* An agent token is of the host its request was about.
TokensOfHost ==
    \A t \in tokens : t.purpose = "agent" =>
        \/ t.id = Seed /\ t.host = Seed
        \/ /\ t.id \in Requests /\ req[t.id].kind \in {"create", "rotate"}
           /\ t.host = HostOf(t.id)

\* Of two requests, the one that came later found all the answers of the other.
PriorsNested == \A p, q \in Requests : prior[p] \subseteq prior[q] \/ prior[q] \subseteq prior[p]

\* p's value is the secret of h, and no setter came after p was answered.
SetBy(p, h) == p \in LastSetters(h.id) /\ h.secret = req[p].secret

\* A setter that has found its value there, or has written it, may commit without
\* bringing back a value that was answered for before it came.
SecretsSet ==
    /\ \A h \in hosts : Setters(h.id) # {} => \E p \in Requests : SetBy(p, h)
    /\ \A q \in Requests : w[q].secrets # {} =>
          /\ req[q].kind = "sunshine" /\ pc[q] = "commit"
          /\ w[q].secrets = {<<req[q].host, req[q].secret>>}
    /\ \A q \in Requests, h \in hosts :
          /\ req[q].kind = "sunshine" /\ pc[q] = "commit" /\ w[q].secrets = {}
          /\ h.id = req[q].host
          => h.secret = req[q].secret \/ \E p \in Requests : SetBy(p, h) /\ ~Before(p, q)

\* An open login or logout has its audit row in hand with the session it starts, or
\* with a live one that it ends.
LoginRow(q)  == \E a \in w[q].audit : a.action = "login_success"
LogoutRow(q) == \E a \in w[q].audit : a.action = "logout"

AuditOpen(q) ==
    /\ \A a, b \in w[q].audit : a = b
    /\ \A a \in w[q].audit : a.by = q /\ pc[q] = "commit"
    /\ LoginRow(q) <=> \E t \in w[q].tokens : t.purpose = "session"
    /\ LogoutRow(q) <=> req[q].kind = "logout" /\ w[q].revokes # {}
    /\ LogoutRow(q) => /\ w[q].revokes = {<<"session", req[q].cookie>>}
                       /\ \E t \in Named("session", req[q].cookie) : ~t.revoked

\* Two of them do not end the same session.
LogoutsApart ==
    \A p, q \in Requests :
        LogoutRow(p) /\ LogoutRow(q) /\ req[p].cookie = req[q].cookie => p = q

\* a is the row of a logout of the session i.
Ends(a, i) == a.action = "logout" /\ req[a.by].cookie = i

\* A session has a row for its start, and one for its end when it is revoked.
AuditRows ==
    /\ \A a \in audit : a.action = "login_success" =>
          \E t \in tokens : t.purpose = "session" /\ t.id = a.by
    /\ \A t \in tokens : t.purpose = "session" =>
          t.id = Seed \/ \E a \in audit : a.action = "login_success" /\ a.by = t.id
    /\ \A a \in audit : a.action = "login_success" => a.by # Seed
    /\ \A a \in audit : a.action = "logout" =>
          Answered(a.by) /\ req[a.by].kind = "logout" /\ Answered(req[a.by].cookie)
    /\ \A a, b \in audit : \A i : Ends(a, i) /\ Ends(b, i) => a = b
    /\ \A t \in tokens : t.purpose = "session" =>
          (t.revoked <=> \E a \in audit : Ends(a, t.id))

AuditTrue == AuditRows /\ LogoutsApart /\ \A q \in Requests : AuditOpen(q)

-----------------------------------------------------------------------------
(* Ledger holds in every reachable state.                                  *)

\* What a call and the statement it begins at have to do with each other, and with
\* the rows that are there.
Arrival(r, user, step) ==
    /\ \/ r.kind = "login" /\ step = "upsert" /\ user = Nobody
       \/ r.kind = "me" /\ step \in {"ok", "refused"}
       \/ r.kind = "logout" /\ step = "end"
       \/ r.kind = "heartbeat" /\ step \in {"commit", "refused"} /\ user = Nobody
       \/ r.kind = "create" /\ step \in {"host", "refused"}
       \/ r.kind = "rotate" /\ step \in {"scan", "refused"}
       \/ r.kind = "sunshine" /\ step \in {"load", "refused"}
    /\ r.kind = "logout" => r.cookie \in Cookies
    /\ r.kind \in {"rotate", "sunshine"} => \E h \in hosts : h.id = r.host
    /\ r.kind = "heartbeat" =>
          \E t \in Named("agent", r.bearer) : step = "commit" => Valid(t)
    /\ user # Nobody => "cookie" \in DOMAIN r /\ SessionUsers(r.cookie) # {}

\* A request begins with a call that belongs to its first statement.
LEMMA ArriveForm ==
    ASSUME NEW q \in Requests, Arrive(q)
    PROVE  \E r, user, step : Begin(q, r, user, step) /\ Arrival(r, user, step)
<1>1. CASE BeginLogin(q) \/ BeginBadLogin(q)
  <2>1. PICK x, r, v : Begin(q, [kind |-> "login", person |-> x, role |-> r, valid |-> v],
                             Nobody, "upsert")
    BY <1>1 DEF BeginLogin, BeginBadLogin
  <2>2. Arrival([kind |-> "login", person |-> x, role |-> r, valid |-> v], Nobody, "upsert")
    BY DEF Arrival
  <2> QED BY <2>1, <2>2
<1>2. CASE BeginMe(q)
  <2>1. PICK c \in Cookies :
           Begin(q, [kind |-> "me", cookie |-> c], Identified(c),
                 IF Identified(c) = Nobody THEN "refused" ELSE "ok")
    BY <1>2 DEF BeginMe
  <2>2. Arrival([kind |-> "me", cookie |-> c], Identified(c),
                IF Identified(c) = Nobody THEN "refused" ELSE "ok")
    BY DEF Arrival, Identified
  <2> QED BY <2>1, <2>2
<1>3. CASE BeginLogout(q)
  <2>1. PICK c \in Cookies :
           Begin(q, [kind |-> "logout", cookie |-> c], Identified(c), "end")
    BY <1>3 DEF BeginLogout
  <2>2. Arrival([kind |-> "logout", cookie |-> c], Identified(c), "end")
    BY DEF Arrival, Identified
  <2> QED BY <2>1, <2>2
<1>4. CASE BeginHeartbeat(q)
  <2>1. PICK t \in {x \in tokens : x.purpose = "agent"} :
           Begin(q, [kind |-> "heartbeat", bearer |-> t.id], Nobody,
                 IF Valid(t) THEN "commit" ELSE "refused")
    BY <1>4 DEF BeginHeartbeat
  <2>2. Arrival([kind |-> "heartbeat", bearer |-> t.id], Nobody,
                IF Valid(t) THEN "commit" ELSE "refused")
    BY DEF Arrival, Named, JtiOf
  <2> QED BY <2>1, <2>2
<1>5. ASSUME NEW r, NEW step, BeginAdmin(q, r, step), "cookie" \in DOMAIN r,
             \/ r.kind = "create" /\ step = "host"
             \/ r.kind = "rotate" /\ step = "scan" /\ \E h \in hosts : h.id = r.host
             \/ r.kind = "sunshine" /\ step = "load" /\ \E h \in hosts : h.id = r.host
      PROVE  \E user, to : Begin(q, r, user, to) /\ Arrival(r, user, to)
  <2> DEFINE to == IF \E u \in SessionUsers(r.cookie) : u.role = "admin"
                   THEN step ELSE "refused"
  <2>1. Identified(r.cookie) # Nobody => SessionUsers(r.cookie) # {}
    BY DEF Identified
  <2>2. to \in {step, "refused"}
    OBVIOUS
  <2>3. Arrival(r, Identified(r.cookie), to)
    <3> HIDE DEF to
    <3> QED BY <1>5, <2>1, <2>2 DEF Arrival
  <2> QED BY <1>5, <2>3 DEF BeginAdmin
<1>6. CASE BeginCreate(q)
  <2>1. PICK c \in Cookies, n \in Hostnames, s \in Secrets :
           BeginAdmin(q, [kind |-> "create", cookie |-> c, name |-> n, secret |-> s], "host")
    BY <1>6 DEF BeginCreate
  <2> DEFINE form == [kind |-> "create", cookie |-> c, name |-> n, secret |-> s]
  <2>2. form.kind = "create" /\ "cookie" \in DOMAIN form
    OBVIOUS
  <2> HIDE DEF form
  <2> QED BY <2>1, <2>2, <1>5 DEF form
<1>7. CASE BeginRotate(q)
  <2>1. PICK c \in Cookies, h \in hosts :
           BeginAdmin(q, [kind |-> "rotate", cookie |-> c, host |-> h.id], "scan")
    BY <1>7 DEF BeginRotate
  <2> DEFINE form == [kind |-> "rotate", cookie |-> c, host |-> h.id]
  <2>2. form.kind = "rotate" /\ "cookie" \in DOMAIN form /\ form.host = h.id
    OBVIOUS
  <2> HIDE DEF form
  <2> QED BY <2>1, <2>2, <1>5 DEF form
<1>8. CASE BeginSecret(q)
  <2>1. PICK c \in Cookies, h \in hosts, s \in Secrets :
           BeginAdmin(q, [kind |-> "sunshine", cookie |-> c, host |-> h.id, secret |-> s],
                      "load")
    BY <1>8 DEF BeginSecret
  <2> DEFINE form == [kind |-> "sunshine", cookie |-> c, host |-> h.id, secret |-> s]
  <2>2. form.kind = "sunshine" /\ "cookie" \in DOMAIN form /\ form.host = h.id
    OBVIOUS
  <2> HIDE DEF form
  <2> QED BY <2>1, <2>2, <1>5 DEF form
<1> QED BY <1>1, <1>2, <1>3, <1>4, <1>6, <1>7, <1>8 DEF Arrive

\* A step changes the locals of one request, which it takes from a statement or from
\* its arrival: no answer is taken back.
LEMMA AnswersStand ==
    ASSUME TypeInv, Next
    PROVE  /\ \A p \in Requests : pc[p] = "ok" => pc'[p] = "ok" /\ prior'[p] = prior[p]
           /\ \A i : Answered(i) => Answered(i)'
<1>1. \A p \in Requests : pc[p] = "ok" => pc'[p] = "ok" /\ prior'[p] = prior[p]
  <2>1. ASSUME NEW q \in Requests, Arrive(q)
        PROVE  \A p \in Requests : pc[p] = "ok" => pc'[p] = "ok" /\ prior'[p] = prior[p]
    <3>1. PICK r, user, step : Begin(q, r, user, step)
      BY <2>1, ArriveForm
    <3> QED BY <3>1 DEF Begin, TypeInv, TypeOK
  <2>2. ASSUME NEW q \in Requests, Step(q) \/ Fail(q)
        PROVE  /\ prior' = prior /\ pc[q] # "ok"
               /\ \A p \in Requests \ {q} : pc'[p] = pc[p]
    <3>1. pc[q] # "ok" /\ prior' = prior
      BY <2>2
      DEF Step, Fail, Open, Steps, Upsert, EndSession, InsertHost, Scan, RevokeAndMint,
          LoadHost, UpdateHost, Commit, Write, Rollback
    <3>2. \E to : pc' = [pc EXCEPT ![q] = to]
      BY <2>2
      DEF Step, Fail, Upsert, EndSession, InsertHost, Scan, RevokeAndMint,
          LoadHost, UpdateHost, Commit, Write, Rollback
    <3> QED BY <3>1, <3>2 DEF TypeInv, TypeOK
  <2>3. ASSUME (\E u \in users : Adjust(u)) \/ (\E t \in tokens : Expire(t))
        PROVE  pc' = pc /\ prior' = prior
    BY <2>3 DEF Adjust, Expire
  <2> QED BY <2>1, <2>2, <2>3 DEF Next
<1> QED BY <1>1 DEF Answered

\* What a request has in hand is not touched by another's step, while answers stand
\* and tokens keep their hosts.
LEMMA OthersOwn ==
    ASSUME TypeInv, Next, NEW p \in Requests, Own(p),
           pc'[p] = pc[p], req'[p] = req[p], who'[p] = who[p], scan'[p] = scan[p],
           w'[p] = w[p], prior'[p] = prior[p],
           \A t \in tokens' : Answered(t.id) =>
              \E s \in tokens : JtiOf(s) = JtiOf(t) /\ s.host = t.host
    PROVE  Own(p)'
<1>1. /\ \A r \in Requests : pc[r] = "ok" => pc'[r] = "ok" /\ prior'[r] = prior[r]
      /\ \A i : Answered(i) => Answered(i)'
  BY AnswersStand
<1>2. AccountWritten(p)' /\ HostWritten(p)'
  BY DEF Own, AccountWritten, HostWritten
<1>3. TokenWritten(p)'
  BY DEF Own, TokenWritten, HostOf
<1>4. Revoking(p)'
  <2>1. ASSUME NEW k \in scan[p] \cup w[p].revokes, req[p].kind = "rotate",
               NEW t \in tokens', JtiOf(t) = k
        PROVE  t.host = req[p].host
    <3>1. Answered(k[2]) /\ k[2] = t.id
      BY <2>1 DEF Own, Revoking, JtiOf
    <3> QED BY <2>1, <3>1 DEF Own, Revoking
  <2> QED BY <1>1, <2>1 DEF Own, Revoking, JtiOf
<1>5. Came(p)'
  <2>1. prior[p] \subseteq Requests
    BY DEF TypeInv, TypeOK
  <2> QED BY <1>1, <2>1 DEF Own, Came, Before
<1> QED BY <1>2, <1>3, <1>4, <1>5 DEF Own

\* The rows of unchanged tables stay those of answered requests.
LEMMA RowsStand ==
    ASSUME TypeInv, Next, RowsOfAnswered, UNCHANGED <<users, tokens, hosts>>
    PROVE  RowsOfAnswered'
<1>1. \A i : Answered(i) => Answered(i)'
  BY AnswersStand
<1> QED BY <1>1 DEF RowsOfAnswered, JtiOf

\* The arrival of a request keeps the ledger,
LEMMA LedgerArrive ==
    ASSUME TypeInv, Ledger, NEW q \in Requests, Arrive(q)
    PROVE  Ledger'
<1>1. PICK r, user, step : Begin(q, r, user, step) /\ Arrival(r, user, step)
  BY ArriveForm
<1>2. Next
  BY DEF Next
<1>3. UNCHANGED <<users, tokens, hosts>>
  BY <1>1 DEF Begin, database
<1>4. /\ pc[q] = "idle" /\ pc'[q] = step /\ req'[q] = r
      /\ scan'[q] = scan[q] /\ w'[q] = w[q]
      /\ prior'[q] = {p \in Requests : pc[p] = "ok"}
  BY <1>1 DEF Begin, TypeInv, TypeOK
<1>5. \A p \in Requests \ {q} :
         /\ pc'[p] = pc[p] /\ req'[p] = req[p] /\ who'[p] = who[p] /\ scan'[p] = scan[p]
         /\ w'[p] = w[p] /\ prior'[p] = prior[p]
  BY <1>1 DEF Begin, TypeInv, TypeOK
<1>6. \A p \in Requests \ {q} : Own(p)'
  BY <1>2, <1>3, <1>5, OthersOwn DEF Ledger
<1>7. w[q] = NoWrites /\ scan[q] = {}
  BY <1>4 DEF Ledger, Own, Revoking, TypeInv, Fits, Steps
<1>8. AccountWritten(q)' /\ HostWritten(q)' /\ TokenWritten(q)' /\ Revoking(q)'
  BY <1>1, <1>4, <1>7
  DEF AccountWritten, HostWritten, TokenWritten, Revoking, NoWrites, Arrival
<1>9. Came(q)'
  <2>1. /\ r.kind \in {"rotate", "sunshine"} => Answered(r.host)
        /\ r.kind = "logout" => Answered(r.cookie)
        /\ r.kind = "heartbeat" => Answered(r.bearer)
    BY <1>1 DEF Arrival, Ledger, RowsOfAnswered, Cookies, Named, JtiOf
  <2>2. q # Seed
    BY CredentialsAssumption
  <2>3. \A p \in prior'[q] : pc'[p] = "ok" /\ q \notin prior'[p]
    BY <1>4, <1>5 DEF Ledger, Own, Came
  <2>4. r.kind = "rotate" => r.host = Seed \/ r.host \in prior'[q]
    BY <1>4, <2>1 DEF Answered
  <2>5. \A i : Answered(i) => Answered(i)'
    BY <1>2, AnswersStand
  <2>6. step # "idle" /\ step # "mint"
    BY <1>1 DEF Arrival
  <2>7. /\ step = "end" => r.kind = "logout"
        /\ step = "scan" => r.kind = "rotate"
        /\ step = "host" => r.kind = "create"
    BY <1>1 DEF Arrival
  <2> QED BY <1>4, <2>1, <2>2, <2>3, <2>4, <2>5, <2>6, <2>7 DEF Came, Before
<1>10. RowsOfAnswered'
  BY <1>2, <1>3, RowsStand DEF Ledger
<1> QED BY <1>6, <1>8, <1>9, <1>10 DEF Ledger, Own

\* A request that gives up has nothing in hand.
LEMMA LedgerRollback ==
    ASSUME TypeInv, Ledger, Next, NEW q \in Requests, NEW answer \in Answers,
           Rollback(q, answer)
    PROVE  Ledger'
<1>1. UNCHANGED <<users, tokens, hosts, req, who, prior>>
  BY DEF Rollback, database
<1>2. pc'[q] = answer /\ scan'[q] = {} /\ w'[q] = NoWrites
  BY DEF Rollback, TypeInv, TypeOK
<1>3. \A p \in Requests \ {q} : pc'[p] = pc[p] /\ scan'[p] = scan[p] /\ w'[p] = w[p]
  BY DEF Rollback, TypeInv, TypeOK
<1>4. \A p \in Requests \ {q} : Own(p)'
  BY <1>1, <1>3, OthersOwn DEF Ledger
<1>5. AccountWritten(q)' /\ HostWritten(q)' /\ TokenWritten(q)' /\ Revoking(q)'
  BY <1>2 DEF AccountWritten, HostWritten, TokenWritten, Revoking, NoWrites, Answers
<1>6. Came(q)'
  <2>1. /\ \A r \in Requests : pc[r] = "ok" => pc'[r] = "ok"
        /\ \A i : Answered(i) => Answered(i)'
    BY AnswersStand
  <2>2. prior[q] \subseteq Requests
    BY DEF TypeInv, TypeOK
  <2> QED BY <1>1, <1>2, <2>1, <2>2 DEF Ledger, Own, Came, Before, Answers
<1>7. RowsOfAnswered'
  BY <1>1, RowsStand DEF Ledger
<1> QED BY <1>4, <1>5, <1>6, <1>7 DEF Ledger, Own

\* A statement in an open transaction changes only what its request has in hand.
LEMMA LedgerWrite ==
    ASSUME TypeInv, Ledger, Next, NEW q \in Requests, NEW step \in Steps, NEW writes,
           pc[q] \in Steps, Write(q, step, writes),
           step \in {"upsert", "end", "scan", "host"} => FALSE,
           step = "mint" => req[q].kind \in {"create", "rotate"},
           (AccountWritten(q) /\ HostWritten(q) /\ TokenWritten(q) /\ Revoking(q))'
    PROVE  Ledger'
<1>1. UNCHANGED <<users, tokens, hosts, req, who, scan, prior>>
  BY DEF Write, database
<1>2. pc'[q] = step
  BY DEF Write, TypeInv, TypeOK
<1>3. \A p \in Requests \ {q} : pc'[p] = pc[p] /\ w'[p] = w[p]
  BY DEF Write, TypeInv, TypeOK
<1>4. \A p \in Requests \ {q} : Own(p)'
  BY <1>1, <1>3, OthersOwn DEF Ledger
<1>5. Came(q)'
  <2>1. /\ \A r \in Requests : pc[r] = "ok" => pc'[r] = "ok"
        /\ \A i : Answered(i) => Answered(i)'
    BY AnswersStand
  <2>2. prior[q] \subseteq Requests
    BY DEF TypeInv, TypeOK
  <2> QED BY <1>1, <1>2, <2>1, <2>2 DEF Ledger, Own, Came, Before, Steps
<1>6. RowsOfAnswered'
  BY <1>1, RowsStand DEF Ledger
<1> QED BY <1>4, <1>5, <1>6 DEF Ledger, Own

\* ... so does each statement of its handler,
LEMMA LedgerStep ==
    ASSUME TypeInv, Ledger, NEW q \in Requests, Step(q), ~Commit(q)
    PROVE  Ledger'
<1> USE DEF Ledger, Own
<1>1. Next
  BY DEF Next
<1>2. /\ AccountWritten(q) /\ HostWritten(q) /\ TokenWritten(q) /\ Revoking(q) /\ Came(q)
      /\ w[q] \in Writes
  BY DEF TypeInv, TypeOK
<1>3. \A step, writes : Write(q, step, writes) =>
         /\ pc'[q] = step /\ w'[q] = writes
         /\ UNCHANGED <<users, tokens, hosts, req, who, scan>>
  BY DEF Write, database, TypeInv, TypeOK
<1>4. CASE Upsert(q)
  <2>1. pc[q] = "upsert" /\ req[q].kind = "login"
    BY <1>4 DEF Upsert, TypeInv, Fits, LoginRequest
  <2>2. /\ w[q].users = {} /\ w[q].hosts = {} /\ w[q].tokens = {} /\ w[q].revokes = {}
        /\ scan[q] = {}
    BY <1>2, <2>1 DEF AccountWritten, HostWritten, TokenWritten, Revoking
  <2> DEFINE user == IF RowOf(req[q].person) = {} THEN q
                     ELSE (CHOOSE u \in RowOf(req[q].person) : TRUE).id
             account == IF user = q
                        THEN {[id |-> q, person |-> req[q].person,
                               role |-> req[q].role, active |-> TRUE]} ELSE {}
             rejected == [w[q] EXCEPT !.audit = {[by |-> q, action |-> "login_failure",
                                                  actor |-> Nobody]}]
             written == [w[q] EXCEPT
                           !.users = account,
                           !.tokens = {Session(q, user)},
                           !.audit = {[by |-> q, action |-> "login_success",
                                       actor |-> user]}]
  <2>3. \/ Write(q, "commit", rejected)
        \/ req[q].valid /\ Write(q, "commit", written)
    BY <1>4 DEF Upsert
  <2>4. /\ rejected.users = {} /\ rejected.hosts = {} /\ rejected.tokens = {}
        /\ rejected.revokes = {}
        /\ written.users = account /\ written.hosts = {} /\ written.revokes = {}
        /\ written.tokens = {Session(q, user)}
    BY <1>2, <2>2 DEF Writes
  <2>5. \A u \in account : u = [id |-> q, person |-> req[q].person,
                                role |-> req[q].role, active |-> TRUE]
    OBVIOUS
  <2>6. /\ Session(q, user).id = q /\ ~Session(q, user).revoked
        /\ Session(q, user).purpose = "session"
    BY DEF Session
  <2> HIDE DEF user, account, rejected, written
  <2>7. (AccountWritten(q) /\ HostWritten(q) /\ TokenWritten(q) /\ Revoking(q))'
    <3>1. CASE Write(q, "commit", rejected)
      BY <3>1, <1>3, <2>1, <2>2, <2>4
      DEF AccountWritten, HostWritten, TokenWritten, Revoking
    <3>2. CASE req[q].valid /\ Write(q, "commit", written)
      BY <3>2, <1>3, <2>1, <2>2, <2>4, <2>5, <2>6
      DEF AccountWritten, HostWritten, TokenWritten, Revoking
    <3> QED BY <2>3, <3>1, <3>2
  <2> QED BY <1>1, <2>1, <2>3, <2>7, LedgerWrite DEF Steps
<1>5. CASE EndSession(q)
  <2> DEFINE key == <<"session", req[q].cookie>>
             written == [w[q] EXCEPT !.revokes = {key},
                                     !.audit = {[by |-> q, action |-> "logout",
                                                 actor |-> who[q]]}]
  <2>1. pc[q] = "end" /\ req[q].kind = "logout" /\ Answered(key[2])
    BY <1>2, <1>5 DEF EndSession, Came
  <2>2. w[q].users = {} /\ w[q].hosts = {} /\ w[q].tokens = {} /\ scan[q] = {}
    BY <1>2, <2>1 DEF AccountWritten, HostWritten, TokenWritten, Revoking
  <2>3. Write(q, "commit", written) \/ Rollback(q, "ok")
    BY <1>5 DEF EndSession
  <2>4. /\ written.users = {} /\ written.hosts = {} /\ written.tokens = {}
        /\ written.revokes = {key}
    <3> HIDE DEF key
    <3> QED BY <1>2, <2>2 DEF Writes
  <2>5. \A i : Answered(i) => Answered(i)'
    BY <1>1, AnswersStand
  <2> HIDE DEF written
  <2>6. CASE Write(q, "commit", written)
    <3>1. req'[q] = req[q] /\ scan'[q] = {} /\ w'[q] = written /\ pc'[q] = "commit"
      BY <2>6, <1>3, <2>2
    <3>2. (AccountWritten(q) /\ HostWritten(q) /\ TokenWritten(q) /\ Revoking(q))'
      BY <3>1, <2>1, <2>4, <2>5
      DEF AccountWritten, HostWritten, TokenWritten, Revoking
    <3> QED BY <1>1, <2>1, <2>6, <3>2, LedgerWrite DEF Steps
  <2> QED BY <1>1, <2>3, <2>6, LedgerRollback DEF Answers
<1>6. CASE InsertHost(q)
  <2> DEFINE row == [id |-> q, name |-> req[q].name, secret |-> req[q].secret]
             written == [w[q] EXCEPT !.hosts = {row}]
  <2>1. pc[q] = "host" /\ req[q].kind = "create"
    BY <1>2, <1>6 DEF InsertHost, Came
  <2>2. w[q].users = {} /\ w[q].tokens = {} /\ w[q].revokes = {} /\ scan[q] = {}
    BY <1>2, <2>1 DEF AccountWritten, TokenWritten, Revoking
  <2>3. Write(q, "mint", written) \/ Rollback(q, "conflict")
    BY <1>6 DEF InsertHost
  <2>4. /\ written.users = {} /\ written.hosts = {row} /\ written.tokens = {}
        /\ written.revokes = {}
    BY <1>2, <2>2 DEF Writes
  <2> HIDE DEF written
  <2>5. CASE Write(q, "mint", written)
    <3>1. req'[q] = req[q] /\ scan'[q] = {} /\ w'[q] = written /\ pc'[q] = "mint"
      BY <2>5, <1>3, <2>2
    <3>2. (AccountWritten(q) /\ HostWritten(q) /\ TokenWritten(q) /\ Revoking(q))'
      BY <3>1, <2>1, <2>4 DEF AccountWritten, HostWritten, TokenWritten, Revoking
    <3> QED BY <1>1, <2>1, <2>5, <3>2, LedgerWrite DEF Steps
  <2> QED BY <1>1, <2>3, <2>5, LedgerRollback DEF Answers
<1>7. CASE Scan(q)
  <2> DEFINE found == {JtiOf(t) : t \in AgentTokensOf(req[q].host)}
  <2>1. pc[q] = "scan" /\ req[q].kind = "rotate"
    BY <1>2, <1>7 DEF Scan, Came
  <2>2. /\ UNCHANGED <<users, tokens, hosts, req, who, w, prior>>
        /\ pc'[q] = "mint" /\ scan'[q] = found
        /\ \A p \in Requests \ {q} : pc'[p] = pc[p] /\ scan'[p] = scan[p]
    BY <1>7 DEF Scan, database, TypeInv, TypeOK
  <2>3. w[q].users = {} /\ w[q].hosts = {} /\ w[q].tokens = {} /\ w[q].revokes = {}
    BY <1>2, <2>1 DEF AccountWritten, HostWritten, TokenWritten, Revoking
  <2>4. \A k \in found : /\ k[1] = "agent" /\ Answered(k[2])
                         /\ \A t \in tokens : JtiOf(t) = k => t.host = req[q].host
    <3>1. SUFFICES ASSUME NEW s \in AgentTokensOf(req[q].host)
                   PROVE  /\ JtiOf(s)[1] = "agent" /\ Answered(JtiOf(s)[2])
                          /\ \A t \in tokens : JtiOf(t) = JtiOf(s) => t.host = req[q].host
      OBVIOUS
    <3>2. s \in tokens /\ s.purpose = "agent" /\ s.host = req[q].host
      BY DEF AgentTokensOf
    <3>3. JtiOf(s)[1] = "agent" /\ JtiOf(s)[2] = s.id
      BY <3>2 DEF JtiOf
    <3> QED BY <3>2, <3>3 DEF RowsOfAnswered
  <2> HIDE DEF found
  <2>5. AccountWritten(q)' /\ HostWritten(q)' /\ TokenWritten(q)'
    BY <2>1, <2>2, <2>3 DEF AccountWritten, HostWritten, TokenWritten
  <2>6. Revoking(q)'
    <3>1. \A i : Answered(i) => Answered(i)'
      BY <1>1, AnswersStand
    <3> QED BY <2>1, <2>2, <2>3, <2>4, <3>1 DEF Revoking, JtiOf
  <2>7. Came(q)'
    <3>1. /\ \A r \in Requests : pc[r] = "ok" => pc'[r] = "ok"
          /\ \A i : Answered(i) => Answered(i)'
      BY <1>1, AnswersStand
    <3>2. prior[q] \subseteq Requests
      BY DEF TypeInv, TypeOK
    <3> QED BY <1>2, <2>1, <2>2, <3>1, <3>2 DEF Came, Before
  <2>8. \A p \in Requests \ {q} : Own(p)'
    <3> HIDE DEF Own
    <3> QED BY <1>1, <2>2, OthersOwn
  <2>9. RowsOfAnswered'
    BY <1>1, <2>2, RowsStand
  <2> QED BY <2>5, <2>6, <2>7, <2>8, <2>9
<1>8. CASE RevokeAndMint(q)
  <2> DEFINE revoked == {k \in scan[q] : \E t \in tokens : JtiOf(t) = k /\ ~t.revoked}
             minted == AgentToken(q, who[q], HostOf(q))
             written == [w[q] EXCEPT !.revokes = revoked, !.tokens = {minted}]
  <2>1. pc[q] = "mint" /\ req[q].kind \in {"create", "rotate"}
    BY <1>2, <1>8 DEF RevokeAndMint, Came
  <2>2. w[q].users = {} /\ (w[q].hosts # {} <=> req[q].kind = "create")
    BY <1>2, <2>1 DEF AccountWritten, HostWritten
  <2>3. Write(q, "commit", written)
    BY <1>8 DEF RevokeAndMint
  <2>4. /\ written.users = {} /\ written.hosts = w[q].hosts /\ written.tokens = {minted}
        /\ written.revokes = revoked
    BY <1>2, <2>2 DEF Writes
  <2>5. revoked \subseteq scan[q]
    OBVIOUS
  <2>6. /\ minted.id = q /\ ~minted.revoked /\ minted.purpose = "agent"
        /\ minted.host = HostOf(q)
    BY DEF AgentToken
  <2>7. HostOf(q)' = HostOf(q) /\ \A i : Answered(i) => Answered(i)'
    BY <1>1, <1>3, <2>3, AnswersStand DEF HostOf
  <2> HIDE DEF written, revoked, minted
  <2>8. AccountWritten(q)' /\ HostWritten(q)' /\ TokenWritten(q)'
    BY <1>2, <1>3, <2>1, <2>2, <2>3, <2>4, <2>6, <2>7
    DEF AccountWritten, HostWritten, TokenWritten
  <2>9. Revoking(q)'
    BY <1>2, <1>3, <2>1, <2>3, <2>4, <2>5, <2>7 DEF Revoking, JtiOf
  <2> QED BY <1>1, <2>1, <2>3, <2>8, <2>9, LedgerWrite DEF Steps
<1>9. CASE LoadHost(q) \/ UpdateHost(q)
  <2>1. req[q].kind = "sunshine" /\ pc[q] \in {"load", "update"}
    BY <1>9 DEF LoadHost, UpdateHost, TypeInv, Fits, SecretRequest
  <2>2. PICK step \in {"commit", "update"} : \E writes :
           /\ Write(q, step, writes)
           /\ writes.users = w[q].users /\ writes.hosts = w[q].hosts
           /\ writes.tokens = w[q].tokens /\ writes.revokes = w[q].revokes
    <3>1. [w[q] EXCEPT !.secrets = {<<req[q].host, req[q].secret>>}].users = w[q].users
      BY <1>2 DEF Writes
    <3>2. [w[q] EXCEPT !.secrets = {<<req[q].host, req[q].secret>>}].hosts = w[q].hosts
      BY <1>2 DEF Writes
    <3>3. [w[q] EXCEPT !.secrets = {<<req[q].host, req[q].secret>>}].tokens = w[q].tokens
      BY <1>2 DEF Writes
    <3>4. [w[q] EXCEPT !.secrets = {<<req[q].host, req[q].secret>>}].revokes = w[q].revokes
      BY <1>2 DEF Writes
    <3> QED BY <1>9, <3>1, <3>2, <3>3, <3>4 DEF LoadHost, UpdateHost
  <2> PICK writes :
           /\ Write(q, step, writes)
           /\ writes.users = w[q].users /\ writes.hosts = w[q].hosts
           /\ writes.tokens = w[q].tokens /\ writes.revokes = w[q].revokes
    BY <2>2
  <2>3. /\ w[q].users = {} /\ w[q].hosts = {} /\ w[q].tokens = {} /\ w[q].revokes = {}
        /\ scan[q] = {}
    BY <1>2, <2>1 DEF AccountWritten, HostWritten, TokenWritten, Revoking
  <2>4. (AccountWritten(q) /\ HostWritten(q) /\ TokenWritten(q) /\ Revoking(q))'
    BY <1>3, <2>1, <2>2, <2>3 DEF AccountWritten, HostWritten, TokenWritten, Revoking
  <2> QED BY <1>1, <2>1, <2>2, <2>4, LedgerWrite DEF Steps
<1> QED BY <1>4, <1>5, <1>6, <1>7, <1>8, <1>9 DEF Step

\* What a commit makes of the rows: those it revokes are marked, those of its host's
\* secret are changed, nothing else of them is.
Marked(s, t, keys) ==
    /\ JtiOf(t) = JtiOf(s) /\ t.purpose = s.purpose /\ t.id = s.id
    /\ t.host = s.host /\ t.user = s.user
    /\ t.revoked <=> s.revoked \/ JtiOf(s) \in keys

\* A commit marks the tokens it revokes and adds those it has issued.
LEMMA CommitTokens ==
    ASSUME TypeInv, NEW q \in Requests, Commit(q)
    PROVE  /\ \A t \in tokens' :
                 t \in w[q].tokens \/ \E s \in tokens : Marked(s, t, w[q].revokes)
           /\ \A s \in tokens : \E t \in tokens' : Marked(s, t, w[q].revokes)
           /\ w[q].tokens \subseteq tokens'
           /\ \A r, s \in tokens, t \in tokens' :
                 Marked(r, t, w[q].revokes) /\ Marked(s, t, w[q].revokes) => JtiOf(r) = JtiOf(s)
           /\ RowsOfAnswered => \A r \in tokens, s, t \in tokens' :
                 Marked(r, s, w[q].revokes) /\ Marked(r, t, w[q].revokes)
                   /\ s \notin w[q].tokens /\ t \notin w[q].tokens => s = t
<1> DEFINE after(t) == IF JtiOf(t) \in w[q].revokes THEN [t EXCEPT !.revoked = TRUE] ELSE t
<1>1. tokens' = {after(t) : t \in tokens} \cup w[q].tokens
  BY DEF Commit
<1>2. \A t \in tokens : Marked(t, after(t), w[q].revokes)
  <2>1. SUFFICES ASSUME NEW t \in tokens
                 PROVE  Marked(t, after(t), w[q].revokes)
    OBVIOUS
  <2>2. t \in Token
    BY DEF TypeInv, TypeOK
  <2>3. CASE JtiOf(t) \in w[q].revokes
    BY <2>2, <2>3 DEF Marked, Token, JtiOf
  <2>4. CASE JtiOf(t) \notin w[q].revokes
    BY <2>2, <2>4 DEF Marked, Token
  <2> QED BY <2>3, <2>4
<1> HIDE DEF after
<1>3. RowsOfAnswered => \A r \in tokens, s, t \in tokens' :
                 Marked(r, s, w[q].revokes) /\ Marked(r, t, w[q].revokes)
                   /\ s \notin w[q].tokens /\ t \notin w[q].tokens => s = t
  BY <1>1, <1>2 DEF Marked, RowsOfAnswered
<1> QED BY <1>1, <1>2, <1>3 DEF Marked

\* A commit keeps the ids and the names of the hosts and adds the one it registers.
LEMMA CommitHosts ==
    ASSUME TypeInv, NEW q \in Requests, Commit(q)
    PROVE  /\ \A g \in hosts' : \/ g \in w[q].hosts
                                \/ \E h \in hosts : g.id = h.id /\ g.name = h.name
           /\ \A h \in hosts : \E g \in hosts' : g.id = h.id /\ g.name = h.name
           /\ RowsOfAnswered => \A f, g \in hosts' :
                 f \notin w[q].hosts /\ g \notin w[q].hosts /\ f.id = g.id => f = g
<1> DEFINE after(h) == IF \E s \in Secrets : <<h.id, s>> \in w[q].secrets
                       THEN [h EXCEPT !.secret = CHOOSE s \in Secrets :
                                                    <<h.id, s>> \in w[q].secrets]
                       ELSE h
<1>1. hosts' = {after(h) : h \in hosts} \cup w[q].hosts
  BY DEF Commit
<1>2. \A h \in hosts : after(h).id = h.id /\ after(h).name = h.name
  <2>1. SUFFICES ASSUME NEW h \in hosts
                 PROVE  after(h).id = h.id /\ after(h).name = h.name
    OBVIOUS
  <2>2. h \in Host
    BY DEF TypeInv, TypeOK
  <2>3. \A s : [h EXCEPT !.secret = s].id = h.id /\ [h EXCEPT !.secret = s].name = h.name
    BY <2>2 DEF Host
  <2> QED BY <2>3
<1> HIDE DEF after
<1> QED BY <1>1, <1>2 DEF RowsOfAnswered

\* ... and its commit, which adds the rows that have its id,
LEMMA LedgerCommit ==
    ASSUME TypeInv, Ledger, NEW q \in Requests, Commit(q)
    PROVE  Ledger'
<1>1. Next
  BY DEF Next, Step
<1>2. /\ pc[q] = "commit" /\ q # Seed /\ ~Answered(q)
      /\ pc'[q] = IF req[q].kind = "login" /\ ~req[q].valid THEN "refused" ELSE "ok"
      /\ w'[q] = NoWrites /\ scan'[q] = {} /\ UNCHANGED <<req, who, prior>>
      /\ \A p \in Requests \ {q} : pc'[p] = pc[p] /\ w'[p] = w[p] /\ scan'[p] = scan[p]
  BY CredentialsAssumption DEF Commit, TypeInv, TypeOK, Answered
<1>3. /\ \A r \in Requests : pc[r] = "ok" => pc'[r] = "ok" /\ prior'[r] = prior[r]
      /\ \A i : Answered(i) => Answered(i)'
  BY <1>1, AnswersStand
<1>4. /\ AccountWritten(q) /\ HostWritten(q) /\ TokenWritten(q) /\ Came(q)
      /\ RowsOfAnswered
  BY DEF Ledger, Own
<1>5. \A t \in tokens' : Answered(t.id) =>
         \E s \in tokens : JtiOf(s) = JtiOf(t) /\ s.host = t.host
  BY <1>2, <1>4, CommitTokens DEF Marked, TokenWritten
<1>6. \A p \in Requests \ {q} : Own(p)'
  BY <1>1, <1>2, <1>5, OthersOwn DEF Ledger
<1>7. Own(q)'
  <2>1. AccountWritten(q)' /\ HostWritten(q)' /\ TokenWritten(q)' /\ Revoking(q)'
    BY <1>2 DEF AccountWritten, HostWritten, TokenWritten, Revoking, NoWrites
  <2>2. prior[q] \subseteq Requests
    BY DEF TypeInv, TypeOK
  <2>3. Came(q)'
    BY <1>2, <1>3, <1>4, <2>2 DEF Came, Before
  <2> QED BY <2>1, <2>3 DEF Own
<1>8. w[q].users # {} \/ w[q].hosts # {} \/ w[q].tokens # {} => Answered(q)'
  <2>1. w[q].users # {} \/ w[q].hosts # {} \/ w[q].tokens # {} =>
           ~(req[q].kind = "login" /\ ~req[q].valid)
    <3>1. \A t \in w[q].tokens : t.purpose \in {"session", "agent"}
      BY DEF TypeInv, TypeOK, Writes, Token
    <3> QED BY <1>4, <3>1 DEF AccountWritten, HostWritten, TokenWritten
  <2> QED BY <1>2, <2>1 DEF Answered
<1>9. /\ \A u \in users' : Answered(u.id)'
      /\ \A u, v \in users' : u.id = v.id => u = v
  <2>1. users' = users \cup w[q].users
    BY DEF Commit, Accounts
  <2>2. \A u \in w[q].users : u.id = q
    BY <1>4 DEF AccountWritten
  <2>3. \A u, v \in w[q].users : u = v
    BY <1>4 DEF AccountWritten
  <2>4. \A u \in users : Answered(u.id) /\ u.id # q
    BY <1>2, <1>4 DEF RowsOfAnswered
  <2>5. \A u \in users' : Answered(u.id)'
    BY <1>3, <1>8, <2>1, <2>2, <2>4
  <2> QED BY <1>4, <2>1, <2>2, <2>3, <2>4, <2>5 DEF RowsOfAnswered
<1>10. /\ \A t \in tokens' : Answered(t.id)'
       /\ \A s, t \in tokens' : JtiOf(s) = JtiOf(t) => s = t
  <2>1. \A t \in w[q].tokens : t.id = q
    BY <1>4 DEF TokenWritten
  <2>2. \A t \in tokens' : Answered(t.id)'
    BY <1>3, <1>4, <1>8, <2>1, CommitTokens DEF Marked, RowsOfAnswered
  <2>3. ASSUME NEW s \in tokens', NEW t \in tokens', JtiOf(s) = JtiOf(t)
        PROVE  s = t
    <3>1. s.id = t.id
      BY <2>3 DEF JtiOf
    <3>2. CASE s.id = q
      <4>1. \A r \in tokens : r.id # q
        BY <1>2, <1>4 DEF RowsOfAnswered
      <4>2. \A r \in tokens' : r.id = q => r \in w[q].tokens
        BY <4>1, CommitTokens DEF Marked
      <4>3. s \in w[q].tokens /\ t \in w[q].tokens
        BY <3>1, <3>2, <4>2
      <4> QED BY <1>4, <4>3 DEF TokenWritten
    <3>3. CASE s.id # q
      <4>1. s \notin w[q].tokens /\ t \notin w[q].tokens
        BY <2>1, <3>1, <3>3
      <4>2. PICK a \in tokens : Marked(a, s, w[q].revokes)
        BY <4>1, CommitTokens
      <4>3. PICK b \in tokens : Marked(b, t, w[q].revokes)
        BY <4>1, CommitTokens
      <4>4. a = b
        BY <1>4, <2>3, <4>2, <4>3 DEF RowsOfAnswered, Marked
      <4> QED BY <1>4, <4>1, <4>2, <4>3, <4>4, CommitTokens
    <3> QED BY <3>2, <3>3
  <2> QED BY <2>2, <2>3
<1>11. /\ \A h \in hosts' : Answered(h.id)'
       /\ \A g, h \in hosts' : g.id = h.id => g = h
  <2>1. \A h \in w[q].hosts : h.id = q
    BY <1>4 DEF HostWritten
  <2>2. \A g, h \in w[q].hosts : g = h
    BY <1>4 DEF HostWritten
  <2>3. \A h \in hosts' : h.id = q <=> h \in w[q].hosts
    BY <1>2, <1>4, <2>1, CommitHosts DEF RowsOfAnswered
  <2>4. \A h \in hosts' : Answered(h.id)'
    BY <1>3, <1>4, <1>8, <2>1, CommitHosts DEF RowsOfAnswered
  <2> QED BY <1>4, <2>2, <2>3, <2>4, CommitHosts
<1>12. RowsOfAnswered'
  BY <1>9, <1>10, <1>11 DEF RowsOfAnswered, JtiOf
<1> QED BY <1>6, <1>7, <1>12 DEF Ledger

\* What happens outside the requests changes no identity.
LEMMA OutsideForm ==
    ASSUME TypeInv, (\E u \in users : Adjust(u)) \/ (\E t \in tokens : Expire(t))
    PROVE  /\ UNCHANGED <<hosts, audit, pc, req, who, scan, w, prior>>
           /\ \/ UNCHANGED <<users, granted>>
              \/ /\ tokens' = tokens
                 /\ \E u \in users, s \in Standing :
                       /\ granted' = [granted EXCEPT ![u.id] = s]
                       /\ \E v : /\ users' = (users \ {u}) \cup {v}
                                 /\ v.id = u.id /\ v.person = u.person
                                 /\ v.role = s.role /\ v.active = s.active
           /\ \/ tokens' = tokens
              \/ \E s \in tokens : \E t :
                    /\ tokens' = (tokens \ {s}) \cup {t}
                    /\ Marked(s, t, {}) /\ s.purpose = "session"
<1>1. CASE \E u \in users : Adjust(u)
  <2>1. PICK u \in users : Adjust(u)
    BY <1>1
  <2>2. PICK s \in Adjustments \ {granted[u.id]} :
           /\ users' = (users \ {u}) \cup {[u EXCEPT !.role = s.role, !.active = s.active]}
           /\ granted' = [granted EXCEPT ![u.id] = s]
    BY <2>1 DEF Adjust
  <2> DEFINE v == [u EXCEPT !.role = s.role, !.active = s.active]
  <2>3. /\ v.id = u.id /\ v.person = u.person /\ v.role = s.role /\ v.active = s.active
        /\ users' = (users \ {u}) \cup {v}
    BY <2>2 DEF TypeInv, TypeOK, User
  <2>4. s \in Standing
    BY CredentialsAssumption
  <2>5. UNCHANGED <<tokens, hosts, audit, pc, req, who, scan, w, prior>>
    BY <2>1 DEF Adjust
  <2> HIDE DEF v
  <2> QED BY <2>2, <2>3, <2>4, <2>5
<1>2. CASE \E t \in tokens : Expire(t)
  <2>1. PICK s \in tokens : Expire(s)
    BY <1>2
  <2> DEFINE t == [s EXCEPT !.expired = TRUE]
  <2>2. Marked(s, t, {})
    BY DEF Marked, JtiOf, TypeInv, TypeOK, Token
  <2>3. s.purpose = "session" /\ tokens' = (tokens \ {s}) \cup {t}
    BY <2>1 DEF Expire
  <2> HIDE DEF t
  <2> QED BY <2>1, <2>2, <2>3 DEF Expire
<1> QED BY <1>1, <1>2

\* ... and what happens outside the requests.
LEMMA LedgerOutside ==
    ASSUME TypeInv, Ledger, (\E u \in users : Adjust(u)) \/ (\E t \in tokens : Expire(t))
    PROVE  Ledger'
<1>1. Next
  BY DEF Next
<1>2. UNCHANGED <<hosts, pc, req, who, scan, w, prior>>
  BY OutsideForm
<1>3. \A t \in tokens' : \E s \in tokens : JtiOf(s) = JtiOf(t) /\ s.id = t.id /\ s.host = t.host
  BY OutsideForm DEF Marked
<1>4. \A p \in Requests : Own(p)'
  BY <1>1, <1>2, <1>3, OthersOwn DEF Ledger
<1>5. RowsOfAnswered
  BY DEF Ledger
<1>6. \A u \in users' : \E v \in users : u.id = v.id
  BY OutsideForm
<1>7. \A u, v \in users' : u.id = v.id => u = v
  BY <1>5, OutsideForm DEF RowsOfAnswered
<1>8. \A s, t \in tokens' : JtiOf(s) = JtiOf(t) => s = t
  BY <1>5, OutsideForm DEF RowsOfAnswered, Marked
<1>9. \A i : Answered(i) => Answered(i)'
  BY <1>2 DEF Answered
<1>10. RowsOfAnswered'
  BY <1>2, <1>3, <1>5, <1>6, <1>7, <1>8, <1>9 DEF RowsOfAnswered, JtiOf
<1> QED BY <1>4, <1>10 DEF Ledger

\* Every step keeps the ledger.
LEMMA LedgerNext == TypeInv /\ Ledger /\ [Next]_vars => Ledger'
<1> SUFFICES ASSUME TypeInv, Ledger, [Next]_vars
             PROVE  Ledger'
  OBVIOUS
<1>1. ASSUME NEW q \in Requests, Fail(q)
      PROVE  Ledger'
  BY <1>1, LedgerRollback DEF Fail, Answers, Next
<1>2. CASE UNCHANGED vars
  BY <1>2 DEF vars, database, Ledger, Own, RowsOfAnswered, AccountWritten, HostWritten,
     TokenWritten, Revoking, Came, Answered, JtiOf, HostOf, Before
<1>3. \A q \in Requests : Arrive(q) \/ Step(q) => Ledger'
  BY LedgerArrive, LedgerStep, LedgerCommit
<1> QED BY <1>1, <1>2, <1>3, LedgerOutside DEF Next

\* The ledger holds at the start.
LEMMA LedgerInit == Init => Ledger
<1> SUFFICES ASSUME Init
             PROVE  Ledger
  OBVIOUS
<1>1. RowsOfAnswered
  BY DEF Init, RowsOfAnswered, Answered, JtiOf, Session, AgentToken
<1>2. ASSUME NEW q \in Requests
      PROVE  Own(q)
  <2>1. w[q] = NoWrites /\ scan[q] = {} /\ req[q] = NoRequest /\ prior[q] = {}
        /\ pc[q] = "idle" /\ who[q] = Nobody
    BY DEF Init
  <2> QED BY <2>1 DEF Own, AccountWritten, HostWritten, TokenWritten, Revoking, Came,
             NoWrites, NoRequest
<1> QED BY <1>1, <1>2 DEF Ledger

\* Rows and open transactions are those of the requests they are named after.
LEMMA LedgerKept == Spec => [](TypeInv /\ Ledger)
<1>1. Spec => []TypeInv
  BY InitType, NextType, PTL DEF Spec
<1> QED BY <1>1, LedgerInit, LedgerNext, PTL DEF Spec

-----------------------------------------------------------------------------
(* What follows for the users, the hosts and the tokens.                   *)

\* Tables change in a commit, by an administrator's hand or with the time alone.
LEMMA RowsMove ==
    ASSUME Next
    PROVE  \/ UNCHANGED <<database, granted>>
           \/ \E q \in Requests : Commit(q)
           \/ (\E u \in users : Adjust(u)) \/ (\E t \in tokens : Expire(t))
<1>1. ASSUME NEW q \in Requests, Arrive(q)
      PROVE  UNCHANGED <<database, granted>>
  BY <1>1, ArriveForm DEF Begin
<1>2. ASSUME NEW q \in Requests, Step(q), ~Commit(q)
      PROVE  UNCHANGED <<database, granted>>
  BY <1>2 DEF Step, Upsert, EndSession, InsertHost, Scan, RevokeAndMint, LoadHost,
     UpdateHost, Write, Rollback
<1>3. ASSUME NEW q \in Requests, Fail(q)
      PROVE  UNCHANGED <<database, granted>>
  BY <1>3 DEF Fail, Rollback
<1> QED BY <1>1, <1>2, <1>3 DEF Next

\* A step of a request leaves the others alone and writes what its statement is for.
LEMMA WritesMove ==
    ASSUME TypeInv, Ledger, NEW q \in Requests, Step(q) \/ Fail(q), ~Commit(q)
    PROVE  /\ UNCHANGED <<database, req, who, prior, granted>>
           /\ pc[q] \in Steps /\ pc'[q] # pc[q]
           /\ \A p \in Requests \ {q} : pc'[p] = pc[p] /\ w'[p] = w[p] /\ scan'[p] = scan[p]
           /\ w'[q].users \in {w[q].users, {}} \/ Upsert(q)
           /\ w'[q].tokens \in {w[q].tokens, {}} \/ Upsert(q) \/ RevokeAndMint(q)
           /\ w'[q].revokes \in {w[q].revokes, {}} \/ EndSession(q) \/ RevokeAndMint(q)
           /\ w'[q].hosts \in {w[q].hosts, {}} \/ InsertHost(q)
           /\ pc'[q] = "mint" => Scan(q) \/ InsertHost(q)
           /\ pc'[q] = "commit" => \/ Upsert(q) \/ EndSession(q) \/ RevokeAndMint(q)
                                   \/ req[q].kind = "sunshine"
           /\ pc'[q] = "ok" => EndSession(q)
           /\ pc'[q] = "conflict" => InsertHost(q)
           /\ scan'[q] \in {scan[q], {}} \/ Scan(q)
<1>1. w[q] \in Writes
  BY DEF TypeInv, TypeOK
<1>2. CASE \E answer \in Answers :
              /\ Rollback(q, answer) /\ pc[q] \in Steps
              /\ answer = "ok" => EndSession(q)
              /\ answer = "conflict" => InsertHost(q)
  <2>1. PICK answer \in Answers :
              /\ Rollback(q, answer) /\ pc[q] \in Steps
              /\ answer = "ok" => EndSession(q)
              /\ answer = "conflict" => InsertHost(q)
    BY <1>2
  <2>2. /\ UNCHANGED <<database, req, who, prior, granted>>
        /\ pc'[q] = answer /\ w'[q] = NoWrites /\ scan'[q] = {}
        /\ \A p \in Requests \ {q} : pc'[p] = pc[p] /\ w'[p] = w[p] /\ scan'[p] = scan[p]
    BY <2>1 DEF Rollback, TypeInv, TypeOK
  <2> QED BY <2>1, <2>2 DEF NoWrites, Answers, Steps
<1>3. ASSUME NEW step, NEW writes, Write(q, step, writes)
      PROVE  /\ UNCHANGED <<database, req, who, scan, prior, granted>>
             /\ pc'[q] = step /\ w'[q] = writes
             /\ \A p \in Requests \ {q} : pc'[p] = pc[p] /\ w'[p] = w[p]
  BY <1>3 DEF Write, TypeInv, TypeOK
<1>4. CASE Fail(q)
  BY <1>2, <1>4 DEF Fail, Open, Answers
<1>5. CASE Upsert(q)
  <2> DEFINE user == IF RowOf(req[q].person) = {} THEN q
                     ELSE (CHOOSE u \in RowOf(req[q].person) : TRUE).id
             rejected == [w[q] EXCEPT !.audit = {[by |-> q, action |-> "login_failure",
                                                  actor |-> Nobody]}]
             written == [w[q] EXCEPT
                           !.users = IF user = q
                                     THEN {[id |-> q, person |-> req[q].person,
                                            role |-> req[q].role, active |-> TRUE]} ELSE {},
                           !.tokens = {Session(q, user)},
                           !.audit = {[by |-> q, action |-> "login_success",
                                       actor |-> user]}]
  <2>1. /\ rejected.revokes = w[q].revokes /\ rejected.hosts = w[q].hosts
        /\ written.revokes = w[q].revokes /\ written.hosts = w[q].hosts
    BY <1>1 DEF Writes
  <2>2. /\ pc[q] = "upsert"
        /\ Write(q, "commit", rejected) \/ Write(q, "commit", written)
    BY <1>5 DEF Upsert
  <2> HIDE DEF rejected, written
  <2> QED BY <1>3, <1>5, <2>1, <2>2 DEF Steps
<1>6. CASE EndSession(q)
  <2> DEFINE written == [w[q] EXCEPT !.revokes = {<<"session", req[q].cookie>>},
                                     !.audit = {[by |-> q, action |-> "logout",
                                                 actor |-> who[q]]}]
  <2>1. /\ written.users = w[q].users /\ written.hosts = w[q].hosts
        /\ written.tokens = w[q].tokens
    BY <1>1 DEF Writes
  <2>2. pc[q] = "end" /\ (Write(q, "commit", written) \/ Rollback(q, "ok"))
    BY <1>6 DEF EndSession
  <2> HIDE DEF written
  <2> QED BY <1>2, <1>3, <1>6, <2>1, <2>2 DEF Steps, Answers
<1>7. CASE InsertHost(q)
  <2>1. /\ pc[q] = "host"
        /\ \/ Rollback(q, "conflict")
           \/ \E writes : /\ Write(q, "mint", writes) /\ writes.users = w[q].users
                          /\ writes.revokes = w[q].revokes /\ writes.tokens = w[q].tokens
    <3>1. \A a : /\ [w[q] EXCEPT !.hosts = a].users = w[q].users
                 /\ [w[q] EXCEPT !.hosts = a].revokes = w[q].revokes
                 /\ [w[q] EXCEPT !.hosts = a].tokens = w[q].tokens
      BY <1>1 DEF Writes
    <3>2. \/ Rollback(q, "conflict")
          \/ \E a : Write(q, "mint", [w[q] EXCEPT !.hosts = a])
      BY <1>7 DEF InsertHost
    <3> QED BY <1>7, <3>1, <3>2 DEF InsertHost
  <2> QED BY <1>2, <1>3, <1>7, <2>1 DEF Steps, Answers
<1>8. CASE Scan(q)
  BY <1>8 DEF Scan, Steps, TypeInv, TypeOK, database
<1>9. CASE RevokeAndMint(q)
  <2> DEFINE written == [w[q] EXCEPT
                           !.revokes = {k \in scan[q] : \E t \in tokens :
                                                           JtiOf(t) = k /\ ~t.revoked},
                           !.tokens = {AgentToken(q, who[q], HostOf(q))}]
  <2>1. written.users = w[q].users /\ written.hosts = w[q].hosts
    BY <1>1 DEF Writes
  <2>2. pc[q] = "mint" /\ Write(q, "commit", written)
    BY <1>9 DEF RevokeAndMint
  <2> HIDE DEF written
  <2> QED BY <1>3, <1>9, <2>1, <2>2 DEF Steps
<1>10. CASE LoadHost(q) \/ UpdateHost(q)
  <2>1. req[q].kind = "sunshine"
    BY <1>10 DEF LoadHost, UpdateHost, TypeInv, Fits, SecretRequest
  <2>2. PICK step \in {"commit", "update"} : \E writes :
           /\ Write(q, step, writes) /\ pc[q] \in {"load", "update"} \ {step}
           /\ writes.users = w[q].users /\ writes.tokens = w[q].tokens
           /\ writes.hosts = w[q].hosts /\ writes.revokes = w[q].revokes
    <3>1. \A a : /\ [w[q] EXCEPT !.secrets = a].users = w[q].users
                 /\ [w[q] EXCEPT !.secrets = a].tokens = w[q].tokens
                 /\ [w[q] EXCEPT !.secrets = a].hosts = w[q].hosts
                 /\ [w[q] EXCEPT !.secrets = a].revokes = w[q].revokes
      BY <1>1 DEF Writes
    <3> QED BY <1>10, <3>1 DEF LoadHost, UpdateHost
  <2> QED BY <1>3, <2>1, <2>2 DEF Steps
<1> QED BY <1>4, <1>5, <1>6, <1>7, <1>8, <1>9, <1>10 DEF Step

\* A commit adds accounts with the standing they are given; others keep theirs.
LEMMA StandingNext == TypeInv /\ Ledger /\ StandingKept /\ [Next]_vars => StandingKept'
<1> SUFFICES ASSUME TypeInv, Ledger, StandingKept, [Next]_vars
             PROVE  StandingKept'
  OBVIOUS
<1>1. CASE UNCHANGED <<database, granted>>
  BY <1>1 DEF database, StandingKept
<1>2. ASSUME NEW q \in Requests, Commit(q)
      PROVE  StandingKept'
  <2>1. users' = users \cup w[q].users
    BY <1>2 DEF Commit, Accounts
  <2>2. DOMAIN granted = {u.id : u \in users}
    BY DEF TypeInv, TypeOK
  <2>3. granted' = [i \in {u.id : u \in users'} |->
                      IF i \in DOMAIN granted THEN granted[i]
                      ELSE [role |-> req[q].role, active |-> TRUE]]
    BY <1>2, <2>1 DEF Commit
  <2>4. \A u \in users : u.id # q
    BY <1>2, CredentialsAssumption DEF Ledger, RowsOfAnswered, Answered, Commit
  <2>5. \A u \in users : granted'[u.id] = granted[u.id]
    BY <2>1, <2>2, <2>3
  <2>6. \A u \in w[q].users : u.id = q /\ u.role = req[q].role /\ u.active = TRUE
    BY DEF Ledger, Own, AccountWritten
  <2>7. q \notin DOMAIN granted
    BY <2>2, <2>4
  <2>8. \A u \in w[q].users : granted'[u.id] = [role |-> req[q].role, active |-> TRUE]
    BY <2>1, <2>3, <2>6, <2>7
  <2> QED BY <2>1, <2>5, <2>6, <2>8 DEF StandingKept
<1>3. CASE (\E u \in users : Adjust(u)) \/ (\E t \in tokens : Expire(t))
  <2>1. CASE UNCHANGED <<users, granted>>
    BY <2>1 DEF StandingKept
  <2>2. ASSUME NEW u \in users, NEW s \in Standing, granted' = [granted EXCEPT ![u.id] = s],
               NEW v, users' = (users \ {u}) \cup {v}, v.id = u.id,
               v.role = s.role, v.active = s.active
        PROVE  StandingKept'
    <3>1. s = [role |-> s.role, active |-> s.active]
      BY DEF Standing
    <3>2. u.id \in DOMAIN granted
      BY DEF TypeInv, TypeOK
    <3>3. granted'[v.id] = [role |-> v.role, active |-> v.active]
      BY <2>2, <3>1, <3>2
    <3>4. \A x \in users \ {u} : x.id # u.id
      BY DEF Ledger, RowsOfAnswered
    <3>5. \A x \in users \ {u} : granted'[x.id] = granted[x.id]
      BY <2>2, <3>4 DEF TypeInv, TypeOK
    <3> QED BY <2>2, <3>3, <3>5 DEF StandingKept
  <2> QED BY <1>3, <2>1, <2>2, OutsideForm
<1>4. UNCHANGED vars => UNCHANGED <<database, granted>>
  BY DEF vars
<1> QED BY <1>1, <1>2, <1>3, <1>4, RowsMove

\* A login never changes the role or the state that an administrator has given: what a
\* user may do is what he was last given, whatever logins are under way.
THEOREM StandingOfUsers == Spec => []StandingKept
<1>1. Init => StandingKept
  <2> SUFFICES ASSUME Init
               PROVE  StandingKept
    OBVIOUS
  <2>1. \A u \in users : u.id = Seed /\ u.role = "admin" /\ u.active = TRUE
    BY DEF Init
  <2>2. granted[Seed] = [role |-> "admin", active |-> TRUE]
    BY DEF Init
  <2> QED BY <2>1, <2>2 DEF StandingKept
<1> QED BY <1>1, LedgerKept, StandingNext, PTL DEF Spec

\* Every host keeps an agent token that works.
LEMMA AgentsNext == TypeInv /\ Ledger /\ NeverLockedOut /\ [Next]_vars => NeverLockedOut'
<1> SUFFICES ASSUME TypeInv, Ledger, NeverLockedOut, [Next]_vars
             PROVE  NeverLockedOut'
  OBVIOUS
<1>1. CASE UNCHANGED <<database, granted>>
  BY <1>1 DEF database, NeverLockedOut, AgentTokensOf
<1>2. ASSUME NEW q \in Requests, Commit(q)
      PROVE  NeverLockedOut'
  <2>1. SUFFICES ASSUME NEW g \in hosts'
                 PROVE  \E t \in tokens' : t.purpose = "agent" /\ t.host = g.id /\ ~t.revoked
    BY DEF NeverLockedOut, AgentTokensOf
  <2>2. HostWritten(q) /\ TokenWritten(q) /\ Revoking(q) /\ pc[q] = "commit"
    BY <1>2 DEF Ledger, Own, Commit
  <2>3. CASE req[q].kind \in {"create", "rotate"} /\ g.id = HostOf(q)
    <3>1. PICK t \in w[q].tokens : TRUE
      BY <2>2, <2>3 DEF TokenWritten
    <3>2. t \in tokens' /\ ~t.revoked
      BY <1>2, <2>2, CommitTokens DEF TokenWritten
    <3>3. t.purpose \in {"session", "agent"}
      BY DEF TypeInv, TypeOK, Writes, Token
    <3>4. t.purpose = "agent" /\ t.host = g.id
      BY <2>2, <2>3, <3>3 DEF TokenWritten
    <3> QED BY <3>2, <3>4
  <2>4. CASE ~(req[q].kind \in {"create", "rotate"} /\ g.id = HostOf(q))
    <3>1. g \notin w[q].hosts
      BY <2>2, <2>4 DEF HostWritten, HostOf
    <3>2. PICK h \in hosts : g.id = h.id
      BY <1>2, <3>1, CommitHosts
    <3>3. PICK s \in tokens : s.purpose = "agent" /\ s.host = g.id /\ ~s.revoked
      BY <3>2 DEF NeverLockedOut, AgentTokensOf
    <3>4. JtiOf(s) \notin w[q].revokes
      <4>1. CASE req[q].kind = "rotate"
        BY <2>2, <2>4, <3>3, <4>1 DEF Revoking, HostOf
      <4>2. CASE req[q].kind = "logout"
        BY <2>2, <3>3, <4>2 DEF Revoking, JtiOf
      <4>3. CASE req[q].kind \notin {"rotate", "logout"}
        BY <2>2, <4>3 DEF Revoking
      <4> QED BY <4>1, <4>2, <4>3
    <3>5. PICK t \in tokens' : Marked(s, t, w[q].revokes)
      BY <1>2, CommitTokens
    <3> QED BY <3>3, <3>4, <3>5 DEF Marked
  <2> QED BY <2>3, <2>4
<1>3. CASE (\E u \in users : Adjust(u)) \/ (\E t \in tokens : Expire(t))
  <2>1. hosts' = hosts
    BY <1>3, OutsideForm
  <2>2. \A t \in tokens : t.purpose = "agent" => t \in tokens'
    BY <1>3, OutsideForm
  <2> QED BY <2>1, <2>2 DEF NeverLockedOut, AgentTokensOf
<1>4. UNCHANGED vars => UNCHANGED <<database, granted>>
  BY DEF vars
<1> QED BY <1>1, <1>2, <1>3, <1>4, RowsMove

\* Whatever rotations race or fail half-way, the agent of a host is never left without
\* a token that is accepted.
THEOREM AgentsNeverLockedOut == Spec => []NeverLockedOut
<1>1. Init => NeverLockedOut
  <2> SUFFICES ASSUME Init
               PROVE  NeverLockedOut
    OBVIOUS
  <2>1. /\ AgentToken(Seed, Seed, Seed) \in tokens
        /\ \A h \in hosts : h.id = Seed
    BY DEF Init
  <2>2. AgentToken(Seed, Seed, Seed) \in AgentTokensOf(Seed)
    BY <2>1 DEF AgentTokensOf, AgentToken
  <2> QED BY <2>1, <2>2 DEF NeverLockedOut
<1> QED BY <1>1, LedgerKept, AgentsNext, PTL DEF Spec

\* An accepted login gives a session to the account of its person, which it creates if
\* there is none.
LEMMA UpsertForm ==
    ASSUME TypeInv, Ledger, NEW q \in Requests, Upsert(q)
    PROVE  /\ UNCHANGED <<users, tokens, req>>
           /\ pc[q] = "upsert" /\ pc'[q] = "commit" /\ req[q].kind = "login"
           /\ \A p \in Requests \ {q} : pc'[p] = pc[p] /\ w'[p] = w[p]
           /\ ~req[q].valid => w'[q].users = {} /\ w'[q].tokens = {}
           /\ req[q].valid =>
                 /\ ~PersonLocked(q, req[q].person)
                 /\ \E u : /\ w'[q].tokens = {Session(q, u.id)} /\ u.person = req[q].person
                           /\ \/ u \in users /\ w'[q].users = {}
                              \/ RowOf(req[q].person) = {} /\ w'[q].users = {u}
<1> DEFINE new == [id |-> q, person |-> req[q].person, role |-> req[q].role, active |-> TRUE]
           user == IF RowOf(req[q].person) = {} THEN q
                   ELSE (CHOOSE u \in RowOf(req[q].person) : TRUE).id
           account == IF user = q THEN {new} ELSE {}
           rejected == [w[q] EXCEPT !.audit = {[by |-> q, action |-> "login_failure",
                                                actor |-> Nobody]}]
           written == [w[q] EXCEPT
                         !.users = account,
                         !.tokens = {Session(q, user)},
                         !.audit = {[by |-> q, action |-> "login_success", actor |-> user]}]
<1>1. /\ UNCHANGED <<users, tokens, req>> /\ pc'[q] = "commit"
      /\ \A p \in Requests \ {q} : pc'[p] = pc[p] /\ w'[p] = w[p]
      /\ pc[q] = "upsert" /\ req[q].kind = "login"
  BY DEF Upsert, Write, database, TypeInv, TypeOK, Fits, LoginRequest
<1>2. w[q] \in Writes /\ w[q].users = {} /\ w[q].tokens = {}
  BY <1>1 DEF Ledger, Own, AccountWritten, TokenWritten, TypeInv, TypeOK
<1>3. /\ rejected.users = {} /\ rejected.tokens = {}
      /\ written.users = account /\ written.tokens = {Session(q, user)}
  BY <1>2 DEF Writes
<1>4. /\ ~req[q].valid => w'[q] = rejected
      /\ req[q].valid => w'[q] = written /\ ~PersonLocked(q, req[q].person)
  BY DEF Upsert, Write, TypeInv, TypeOK
<1>5. \/ RowOf(req[q].person) = {} /\ user = q /\ account = {new}
      \/ \E u \in RowOf(req[q].person) : user = u.id /\ account = {}
  <2>1. \A u \in users : u.id # q
    BY <1>1, CredentialsAssumption DEF Ledger, RowsOfAnswered, Answered
  <2> QED BY <2>1 DEF RowOf
<1>6. new.id = q /\ new.person = req[q].person
  OBVIOUS
<1> HIDE DEF new, user, account, rejected, written
<1> QED BY <1>1, <1>3, <1>4, <1>5, <1>6 DEF RowOf

\* Only the statement that writes an account can claim a person.
LEMMA PersonsNext ==
    TypeInv /\ Ledger /\ PersonsClaimed /\ [Next]_vars => PersonsClaimed'
<1> SUFFICES ASSUME TypeInv, Ledger, PersonsClaimed, [Next]_vars
             PROVE  PersonsClaimed'
  OBVIOUS
<1>1. \A q \in Requests : w[q].users # {} => Upserted(q)
  BY DEF Ledger, Own, AccountWritten, Upserted
<1>2. ASSUME users' = users,
             \A q \in Requests : Upserted(q)' => Upserted(q) /\ req'[q] = req[q],
             \A q \in Requests : w'[q].users # {} => w[q].users # {} /\ req'[q] = req[q]
      PROVE  PersonsClaimed'
  BY <1>2 DEF PersonsClaimed
<1>3. ASSUME NEW q \in Requests, Arrive(q)
      PROVE  PersonsClaimed'
  <2>1. PICK r, user, step : Begin(q, r, user, step) /\ Arrival(r, user, step)
    BY <1>3, ArriveForm
  <2>2. /\ users' = users /\ w' = w
        /\ pc'[q] = step /\ req'[q] = r /\ pc[q] = "idle"
        /\ \A p \in Requests \ {q} : pc'[p] = pc[p] /\ req'[p] = req[p]
    BY <2>1 DEF Begin, database, TypeInv, TypeOK
  <2>3. ~Upserted(q)'
    BY <2>1, <2>2 DEF Upserted, Arrival
  <2>4. w[q].users = {}
    BY <1>1, <2>2 DEF Upserted, TypeInv, TypeOK
  <2> QED BY <1>2, <2>2, <2>3, <2>4 DEF Upserted
<1>4. ASSUME NEW q \in Requests, Upsert(q)
      PROVE  PersonsClaimed'
  <2>1. \A p \in Requests \ {q} : Upserted(p)' <=> Upserted(p)
    BY <1>4, UpsertForm DEF Upserted
  <2>2. CASE ~req[q].valid
    BY <1>2, <1>4, <2>1, <2>2, UpsertForm DEF Upserted
  <2>3. CASE req[q].valid
    <3>1. w'[q].users # {} => \A u \in users : u.person # req[q].person
      BY <1>4, <2>3, UpsertForm DEF RowOf
    <3>2. \A p \in Requests \ {q} : Upserted(p) => req[p].person # req[q].person
      BY <1>4, <2>3, UpsertForm DEF PersonLocked, Others, Open, Upserted, Steps
    <3> QED BY <1>4, <2>1, <3>1, <3>2, UpsertForm DEF PersonsClaimed
  <2> QED BY <2>2, <2>3
<1>5. ASSUME NEW q \in Requests, Commit(q)
      PROVE  PersonsClaimed'
  <2>1. /\ users' = users \cup w[q].users /\ req' = req
        /\ pc[q] = "commit" /\ pc'[q] # "commit" /\ w'[q].users = {}
        /\ \A p \in Requests \ {q} : pc'[p] = pc[p] /\ w'[p] = w[p]
    BY <1>5 DEF Commit, Accounts, TypeInv, TypeOK, NoWrites
  <2>2. \A u \in w[q].users : u.person = req[q].person
    BY DEF Ledger, Own, AccountWritten
  <2>3. \A u, v \in w[q].users : u = v
    BY DEF Ledger, Own, AccountWritten
  <2>4. \A p \in Requests \ {q} : w[p].users # {} /\ w[q].users # {} =>
           req[p].person # req[q].person
    BY <1>1 DEF PersonsClaimed
  <2>5. \A p \in Requests : Upserted(p)' => Upserted(p)
    BY <2>1 DEF Upserted
  <2> QED BY <2>1, <2>2, <2>3, <2>4, <2>5 DEF PersonsClaimed
<1>6. ASSUME NEW q \in Requests, Step(q) \/ Fail(q), ~Upsert(q), ~Commit(q)
      PROVE  PersonsClaimed'
  <2>1. Came(q)
    BY DEF Ledger, Own
  <2>2. UNCHANGED <<users, req>>
    BY <1>6, WritesMove DEF database
  <2>3. ~Upserted(q)'
    BY <1>6, <2>1, <2>2, WritesMove DEF Upserted, EndSession, RevokeAndMint, Came
  <2>4. \A p \in Requests : Upserted(p)' => Upserted(p)
    BY <1>6, <2>2, <2>3, WritesMove DEF Upserted
  <2>5. \A p \in Requests : w'[p].users # {} => w[p].users # {}
    BY <1>6, WritesMove
  <2> QED BY <1>2, <2>2, <2>4, <2>5
<1>7. CASE (\E u \in users : Adjust(u)) \/ (\E t \in tokens : Expire(t))
  <2>1. UNCHANGED <<pc, req, w>>
    BY <1>7, OutsideForm
  <2>2. \A u \in users' : \E v \in users : u.person = v.person
    BY <1>7, OutsideForm
  <2>3. \A u, v \in users' : u.person = v.person => u = v
    BY <1>7, OutsideForm DEF PersonsClaimed
  <2> QED BY <2>1, <2>2, <2>3 DEF PersonsClaimed, Upserted
<1>8. CASE UNCHANGED vars
  BY <1>8 DEF vars, database, PersonsClaimed, Upserted
<1> QED BY <1>3, <1>4, <1>5, <1>6, <1>7, <1>8 DEF Next

\* An account is never removed, and stays that of its person.
LEMMA AccountsStand ==
    ASSUME TypeInv, Ledger, Next
    PROVE  \A u \in users : \E v \in users' : v.id = u.id /\ v.person = u.person
<1>1. CASE UNCHANGED <<database, granted>>
  BY <1>1 DEF database
<1>2. CASE \E q \in Requests : Commit(q)
  BY <1>2 DEF Commit, Accounts
<1>3. CASE (\E u \in users : Adjust(u)) \/ (\E t \in tokens : Expire(t))
  BY <1>3, OutsideForm
<1> QED BY <1>1, <1>2, <1>3, RowsMove

\* A session is of the account that its login has found or made.
LEMMA SessionsNext ==
    TypeInv /\ Ledger /\ SessionsOfPerson /\ [Next]_vars => SessionsOfPerson'
<1> SUFFICES ASSUME TypeInv, Ledger, SessionsOfPerson, [Next]_vars
             PROVE  SessionsOfPerson'
  OBVIOUS
<1> DEFINE OfPerson(t, x, rows) == \E u \in rows : u.id = t.user /\ u.person = x
<1>1. CASE UNCHANGED vars
  BY <1>1 DEF vars, database, SessionsOfPerson, Named, JtiOf
<1>2. SUFFICES ASSUME Next
               PROVE  SessionsOfPerson'
  BY <1>1
<1>4. SUFFICES ASSUME NEW p \in Requests, req'[p].kind = "login"
               PROVE  /\ \A t \in w'[p].tokens : OfPerson(t, req'[p].person, users' \cup w'[p].users)
                      /\ \A t \in tokens' : JtiOf(t) = <<"session", p>> =>
                            OfPerson(t, req'[p].person, users')
  BY DEF SessionsOfPerson, Named, JtiOf
<1>5. req[p].kind = "login" =>
         /\ \A t \in w[p].tokens : OfPerson(t, req[p].person, users \cup w[p].users)
         /\ \A t \in tokens : JtiOf(t) = <<"session", p>> => OfPerson(t, req[p].person, users)
  BY DEF SessionsOfPerson, Named
<1>6. ASSUME NEW q \in Requests, Arrive(q)
      PROVE  /\ \A t \in w'[p].tokens : OfPerson(t, req'[p].person, users' \cup w'[p].users)
             /\ \A t \in tokens' : JtiOf(t) = <<"session", p>> =>
                   OfPerson(t, req'[p].person, users')
  <2>1. PICK r, user, step : Begin(q, r, user, step) /\ Arrival(r, user, step)
    BY <1>6, ArriveForm
  <2>2. /\ UNCHANGED <<users, tokens, w>> /\ pc[q] = "idle"
        /\ p # q => req'[p] = req[p]
    BY <2>1 DEF Begin, database, TypeInv, TypeOK
  <2>3. CASE p = q
    <3>1. w[q].tokens = {} /\ \A t \in tokens : t.id # q
      BY <2>2, CredentialsAssumption DEF Ledger, Own, TokenWritten, RowsOfAnswered, Answered
    <3> QED BY <2>2, <2>3, <3>1 DEF JtiOf
  <2>4. CASE p # q
    BY <1>4, <1>5, <2>2, <2>4
  <2> QED BY <2>3, <2>4
<1>7. ASSUME NEW q \in Requests, Commit(q)
      PROVE  /\ \A t \in w'[p].tokens : OfPerson(t, req'[p].person, users' \cup w'[p].users)
             /\ \A t \in tokens' : JtiOf(t) = <<"session", p>> =>
                   OfPerson(t, req'[p].person, users')
  <2>1. /\ users' = users \cup w[q].users /\ req' = req /\ w'[q].tokens = {}
        /\ \A r \in Requests \ {q} : w'[r] = w[r]
    BY <1>7 DEF Commit, Accounts, NoWrites, TypeInv, TypeOK
  <2>2. \A t \in w'[p].tokens : OfPerson(t, req'[p].person, users' \cup w'[p].users)
    BY <1>4, <1>5, <2>1
  <2>3. ASSUME NEW t \in tokens', JtiOf(t) = <<"session", p>>
        PROVE  OfPerson(t, req'[p].person, users')
    <3>1. CASE t \in w[q].tokens
      <4>1. p = q
        BY <2>3, <3>1 DEF JtiOf, Ledger, Own, TokenWritten
      <4> QED BY <1>4, <1>5, <2>1, <3>1, <4>1
    <3>2. CASE \E s \in tokens : Marked(s, t, w[q].revokes)
      <4>1. PICK s \in tokens : Marked(s, t, w[q].revokes)
        BY <3>2
      <4>2. OfPerson(s, req[p].person, users)
        BY <1>4, <1>5, <2>1, <2>3, <4>1 DEF Marked
      <4> QED BY <2>1, <4>1, <4>2 DEF Marked
    <3> QED BY <1>7, <3>1, <3>2, CommitTokens
  <2> QED BY <2>2, <2>3
<1>8. ASSUME NEW q \in Requests, Step(q) \/ Fail(q), ~Commit(q)
      PROVE  /\ \A t \in w'[p].tokens : OfPerson(t, req'[p].person, users' \cup w'[p].users)
             /\ \A t \in tokens' : JtiOf(t) = <<"session", p>> =>
                   OfPerson(t, req'[p].person, users')
  <2>1. /\ UNCHANGED <<users, tokens, req>>
        /\ \A r \in Requests \ {q} : w'[r] = w[r]
    BY <1>8, WritesMove DEF database
  <2>2. CASE p # q
    BY <1>4, <1>5, <2>1, <2>2
  <2>3. CASE p = q /\ Upsert(q)
    <3>1. \A t \in w'[q].tokens : OfPerson(t, req[q].person, users \cup w'[q].users)
      BY <2>3, UpsertForm DEF Session
    <3> QED BY <1>4, <1>5, <2>1, <2>3, <3>1
  <2>4. CASE p = q /\ ~Upsert(q)
    <3>1. ~RevokeAndMint(q)
      BY <1>4, <2>1, <2>4 DEF RevokeAndMint, Ledger, Own, Came
    <3>2. w'[q].tokens \in {w[q].tokens, {}} /\ w'[q].users \in {w[q].users, {}}
      BY <1>8, <2>4, <3>1, WritesMove
    <3>3. w'[q].tokens = {} \/ w'[q].users = w[q].users
      <4>1. w[q].tokens # {} => pc[q] = "commit"
        BY DEF Ledger, Own, TokenWritten
      <4>2. pc[q] = "commit" => Fail(q)
        BY <1>8 DEF Step, Upsert, EndSession, InsertHost, Scan, RevokeAndMint, LoadHost,
           UpdateHost
      <4>3. Fail(q) => w'[q].tokens = {}
        BY DEF Fail, Rollback, NoWrites, TypeInv, TypeOK
      <4> QED BY <3>2, <4>1, <4>2, <4>3
    <3> QED BY <1>4, <1>5, <2>1, <2>4, <3>2, <3>3
  <2> QED BY <2>2, <2>3, <2>4
<1>9. CASE (\E u \in users : Adjust(u)) \/ (\E t \in tokens : Expire(t))
  <2>1. UNCHANGED <<req, w>>
    BY <1>9, OutsideForm
  <2>2. \A t \in tokens' : \E s \in tokens : JtiOf(s) = JtiOf(t) /\ s.user = t.user
    BY <1>9, OutsideForm DEF Marked
  <2>3. \A t \in tokens' : JtiOf(t) = <<"session", p>> => OfPerson(t, req'[p].person, users')
    BY <1>2, <1>4, <1>5, <2>1, <2>2, AccountsStand
  <2>4. \A t \in w'[p].tokens : OfPerson(t, req'[p].person, users' \cup w'[p].users)
    BY <1>2, <1>4, <1>5, <2>1, AccountsStand
  <2> QED BY <2>3, <2>4
<1> QED BY <1>2, <1>6, <1>7, <1>8, <1>9 DEF Next

\* However the first logins of a person race, the person has one account, and all of
\* his sessions are sessions of it.
THEOREM AccountsAreOne == Spec => []OneAccount
<1>1. Init => PersonsClaimed /\ SessionsOfPerson
  <2> SUFFICES ASSUME Init
               PROVE  PersonsClaimed /\ SessionsOfPerson
    OBVIOUS
  <2>1. /\ \A u, v \in users : u = v
        /\ \A q \in Requests : w[q].users = {} /\ pc[q] = "idle" /\ req[q].kind = "none"
    BY DEF Init, NoWrites, NoRequest
  <2> QED BY <2>1 DEF PersonsClaimed, Upserted, SessionsOfPerson
<1>2. PersonsClaimed /\ SessionsOfPerson => OneAccount
  <2> SUFFICES ASSUME PersonsClaimed, SessionsOfPerson
               PROVE  OneAccount
    OBVIOUS
  <2>1. ASSUME NEW a \in Ok("login"), NEW b \in Ok("login"),
               NEW s \in Named("session", a), NEW t \in Named("session", b),
               req[a].person = req[b].person
        PROVE  s.user = t.user
    <3>1. PICK u \in users : u.id = s.user /\ u.person = req[a].person
      BY DEF SessionsOfPerson, Ok
    <3>2. PICK v \in users : v.id = t.user /\ v.person = req[b].person
      BY DEF SessionsOfPerson, Ok
    <3>3. u = v
      BY <2>1, <3>1, <3>2 DEF PersonsClaimed
    <3> QED BY <3>1, <3>2, <3>3
  <2> QED BY <2>1 DEF OneAccount, PersonsClaimed
<1> QED BY <1>1, <1>2, LedgerKept, PersonsNext, SessionsNext, PTL DEF Spec

\* A 409 names a host that is there.
ConflictsTrue ==
    \A q \in Requests : pc[q] = "conflict" =>
        \E h \in hosts : h.name = req[q].name /\ h.id # q

\* A registration that is not refused has a name that no host has, and no other open
\* registration.
LEMMA InsertForm ==
    ASSUME TypeInv, Ledger, NEW q \in Requests, InsertHost(q)
    PROVE  /\ UNCHANGED <<hosts, req>> /\ pc[q] = "host"
           /\ \A p \in Requests \ {q} : pc'[p] = pc[p] /\ w'[p] = w[p]
           /\ \/ /\ pc'[q] = "conflict" /\ w'[q].hosts = {}
                 /\ \E h \in hosts : h.name = req[q].name
              \/ /\ pc'[q] = "mint"
                 /\ \A h \in hosts : h.name # req[q].name
                 /\ \A p \in Others(q) : \A h \in w[p].hosts : h.name # req[q].name
<1>1. CASE \E h \in hosts : h.name = req[q].name
  BY <1>1 DEF InsertHost, Rollback, database, NoWrites, TypeInv, TypeOK
<1>2. CASE ~\E h \in hosts : h.name = req[q].name
  BY <1>2 DEF InsertHost, Write, database, TypeInv, TypeOK
<1> QED BY <1>1, <1>2

\* A name is claimed by a registration that has found it free.
LEMMA NamesNext ==
    TypeInv /\ Ledger /\ NamesClaimed /\ ConflictsTrue /\ [Next]_vars
      => NamesClaimed' /\ ConflictsTrue'
<1> SUFFICES ASSUME TypeInv, Ledger, NamesClaimed, ConflictsTrue, [Next]_vars
             PROVE  NamesClaimed' /\ ConflictsTrue'
  OBVIOUS
<1>1. \A q \in Requests : /\ w[q].hosts # {} => pc[q] \in {"mint", "commit"}
                          /\ \A h \in w[q].hosts : h.id = q /\ h.name = req[q].name
                          /\ \A g, h \in w[q].hosts : g = h
  BY DEF Ledger, Own, HostWritten
<1>2. ASSUME NEW q \in Requests, Arrive(q)
      PROVE  NamesClaimed' /\ ConflictsTrue'
  <2>1. PICK r, user, step : Begin(q, r, user, step) /\ Arrival(r, user, step)
    BY <1>2, ArriveForm
  <2>2. /\ UNCHANGED <<hosts, w>> /\ pc[q] = "idle" /\ pc'[q] = step /\ step # "conflict"
        /\ \A p \in Requests \ {q} : pc'[p] = pc[p] /\ req'[p] = req[p]
    BY <2>1 DEF Begin, Arrival, database, TypeInv, TypeOK
  <2>3. w[q].hosts = {}
    BY <1>1, <2>2
  <2> QED BY <2>2, <2>3 DEF NamesClaimed, ConflictsTrue
<1>3. ASSUME NEW q \in Requests, InsertHost(q)
      PROVE  NamesClaimed' /\ ConflictsTrue'
  <2>1. \A h \in hosts : pc[q] = "host" => h.id # q
    BY CredentialsAssumption DEF Ledger, RowsOfAnswered, Answered
  <2>2. ConflictsTrue'
    BY <1>3, <2>1, InsertForm DEF ConflictsTrue
  <2>3. \A p \in Requests \ {q} : w[p].hosts # {} /\ pc'[q] = "mint" =>
           req[p].name # req[q].name
    BY <1>1, <1>3, InsertForm DEF Others, Open, Steps
  <2>4. NamesClaimed'
    BY <1>3, <2>3, InsertForm DEF NamesClaimed
  <2> QED BY <2>2, <2>4
<1>4. ASSUME NEW q \in Requests, Commit(q)
      PROVE  NamesClaimed' /\ ConflictsTrue'
  <2>1. /\ req' = req /\ w'[q].hosts = {} /\ pc'[q] # "conflict" /\ pc[q] = "commit"
        /\ \A p \in Requests \ {q} : pc'[p] = pc[p] /\ w'[p] = w[p]
    BY <1>4 DEF Commit, NoWrites, TypeInv, TypeOK
  <2>2. ConflictsTrue'
    BY <1>4, <2>1, CommitHosts DEF ConflictsTrue
  <2>3. ASSUME NEW g \in hosts', NEW h \in hosts', g.name = h.name
        PROVE  g = h
    <3>1. CASE g \in w[q].hosts /\ h \in w[q].hosts
      BY <1>1, <3>1
    <3>2. CASE g \notin w[q].hosts /\ h \notin w[q].hosts
      <4>1. g.id = h.id
        BY <1>4, <2>3, <3>2, CommitHosts DEF NamesClaimed
      <4> QED BY <1>4, <3>2, <4>1, CommitHosts DEF Ledger
    <3>3. ASSUME NEW a \in hosts', NEW b \in w[q].hosts, a \notin w[q].hosts
          PROVE  a.name # b.name
      BY <1>1, <1>4, <3>3, CommitHosts DEF NamesClaimed
    <3> QED BY <2>3, <3>1, <3>2, <3>3
  <2>4. \A p \in Requests, h \in hosts' : w'[p].hosts # {} => h.name # req[p].name
    BY <1>1, <1>4, <2>1, CommitHosts DEF NamesClaimed
  <2> QED BY <2>1, <2>2, <2>3, <2>4 DEF NamesClaimed
<1>5. ASSUME NEW q \in Requests, Step(q) \/ Fail(q), ~InsertHost(q), ~Commit(q)
      PROVE  NamesClaimed' /\ ConflictsTrue'
  <2>1. /\ UNCHANGED <<hosts, req>> /\ pc'[q] # "conflict"
        /\ \A p \in Requests \ {q} : pc'[p] = pc[p] /\ w'[p] = w[p]
        /\ w'[q].hosts \in {w[q].hosts, {}}
    BY <1>5, WritesMove DEF database
  <2> QED BY <2>1 DEF NamesClaimed, ConflictsTrue
<1>6. CASE (\E u \in users : Adjust(u)) \/ (\E t \in tokens : Expire(t))
  BY <1>6, OutsideForm DEF NamesClaimed, ConflictsTrue
<1>7. CASE UNCHANGED vars
  BY <1>7 DEF vars, database, NamesClaimed, ConflictsTrue
<1> QED BY <1>2, <1>3, <1>4, <1>5, <1>6, <1>7 DEF Next

\* Two registrations of one name at once make one host, and the other is told so: host
\* names are unique, and a 409 is never given for a name that is free.
THEOREM HostNamesUnique == Spec => []NamesUnique
<1>1. Init => NamesClaimed /\ ConflictsTrue
  BY DEF Init, NamesClaimed, ConflictsTrue, NoWrites
<1>2. NamesClaimed /\ ConflictsTrue => NamesUnique
  BY DEF NamesClaimed, ConflictsTrue, NamesUnique
<1> QED BY <1>1, <1>2, LedgerKept, NamesNext, PTL DEF Spec

-----------------------------------------------------------------------------
(* What an answered logout and an answered rotation put an end to.         *)

\* Keys of tokens, once revoked, stay revoked: tokens that come later have other keys.
LEMMA RevokedStays ==
    ASSUME TypeInv, Ledger, Next, NEW k, Answered(k[2]),
           \A t \in tokens : JtiOf(t) = k => t.revoked
    PROVE  \A t \in tokens' : JtiOf(t) = k => t.revoked
<1>1. CASE UNCHANGED <<database, granted>>
  BY <1>1 DEF database
<1>2. ASSUME NEW q \in Requests, Commit(q)
      PROVE  \A t \in tokens' : JtiOf(t) = k => t.revoked
  <2>1. \A t \in w[q].tokens : t.id = q
    BY DEF Ledger, Own, TokenWritten
  <2>2. ~Answered(q)
    BY <1>2, CredentialsAssumption DEF Commit, Answered
  <2>3. \A t \in w[q].tokens : JtiOf(t) # k
    BY <2>1, <2>2 DEF JtiOf
  <2> QED BY <1>2, <2>3, CommitTokens DEF Marked
<1>3. CASE (\E u \in users : Adjust(u)) \/ (\E t \in tokens : Expire(t))
  BY <1>3, OutsideForm DEF Marked
<1> QED BY <1>1, <1>2, <1>3, RowsMove

\* The keys that a commit revokes are revoked by it.
LEMMA CommitRevokes ==
    ASSUME TypeInv, Ledger, NEW q \in Requests, Commit(q), NEW k \in w[q].revokes
    PROVE  \A t \in tokens' : JtiOf(t) = k => t.revoked
<1>1. Answered(k[2]) /\ ~Answered(q)
  BY CredentialsAssumption DEF Ledger, Own, Revoking, Commit, Answered
<1>2. \A t \in w[q].tokens : t.id = q
  BY DEF Ledger, Own, TokenWritten
<1>3. \A t \in w[q].tokens : JtiOf(t) # k
  BY <1>1, <1>2 DEF JtiOf
<1> QED BY <1>3, CommitTokens DEF Marked

\* A cookie that identified somebody was of a session that no answered logout has ended.
LEMMA LogoutsNext ==
    TypeInv /\ Ledger /\ LogoutsEnd /\ LogoutFinal /\ [Next]_vars
      => LogoutsEnd' /\ LogoutFinal'
<1> SUFFICES ASSUME TypeInv, Ledger, LogoutsEnd, LogoutFinal, [Next]_vars
             PROVE  LogoutsEnd' /\ LogoutFinal'
  OBVIOUS
<1>1. CASE UNCHANGED vars
  BY <1>1 DEF vars, database, LogoutsEnd, LogoutFinal, Named, JtiOf
<1>2. SUFFICES ASSUME Next
               PROVE  LogoutsEnd' /\ LogoutFinal'
  BY <1>1
<1> DEFINE Ended(l) == \A t \in tokens : JtiOf(t) = <<"session", req[l].cookie>> => t.revoked
<1>3. \A l \in Requests : req[l].kind = "logout" =>
         /\ pc[l] = "commit" => <<"session", req[l].cookie>> \in w[l].revokes
         /\ pc[l] = "ok" => Ended(l)
  BY DEF LogoutsEnd, Named
<1>4. \A l \in Requests : req[l].kind = "logout" /\ pc[l] = "ok" =>
         \A t \in tokens' : JtiOf(t) = <<"session", req[l].cookie>> => t.revoked
  <2>1. SUFFICES ASSUME NEW l \in Requests, req[l].kind = "logout", pc[l] = "ok"
                 PROVE  \A t \in tokens' : JtiOf(t) = <<"session", req[l].cookie>> => t.revoked
    OBVIOUS
  <2> DEFINE k == <<"session", req[l].cookie>>
  <2>2. Answered(k[2]) /\ \A t \in tokens : JtiOf(t) = k => t.revoked
    BY <1>3, <2>1 DEF Ledger, Own, Came
  <2> HIDE DEF k
  <2>3. \A t \in tokens' : JtiOf(t) = k => t.revoked
    BY <1>2, <2>2, RevokedStays
  <2> QED BY <2>3 DEF k
<1>5. ASSUME NEW q \in Requests, Arrive(q)
      PROVE  LogoutsEnd' /\ LogoutFinal'
  <2>1. PICK r, user, step : Begin(q, r, user, step) /\ Arrival(r, user, step)
    BY <1>5, ArriveForm
  <2>2. /\ UNCHANGED <<tokens, w>> /\ pc[q] = "idle" /\ pc'[q] = step /\ req'[q] = r
        /\ who'[q] = user /\ prior'[q] = {p \in Requests : pc[p] = "ok"}
        /\ \A p \in Requests \ {q} : /\ pc'[p] = pc[p] /\ req'[p] = req[p]
                                     /\ who'[p] = who[p] /\ prior'[p] = prior[p]
    BY <2>1 DEF Begin, database, TypeInv, TypeOK
  <2>3. r.kind = "logout" => step = "end"
    BY <2>1 DEF Arrival
  <2>4. LogoutsEnd'
    BY <2>2, <2>3 DEF LogoutsEnd, Named, JtiOf
  <2>5. ASSUME user # Nobody, NEW l \in Requests, pc[l] = "ok", req[l].kind = "logout"
        PROVE  req[l].cookie # r.cookie
    <3>1. PICK t \in tokens : JtiOf(t) = <<"session", r.cookie>> /\ ~t.revoked
      BY <2>1, <2>5 DEF Arrival, SessionUsers, Named, Valid
    <3> QED BY <1>3, <2>5, <3>1
  <2>6. \A p \in Requests : q \notin prior[p]
    BY <2>2 DEF Ledger, Own, Came
  <2>7. \A p \in Requests : prior[p] \subseteq Requests
    BY DEF TypeInv, TypeOK
  <2>8. LogoutFinal'
    BY <2>2, <2>5, <2>6, <2>7 DEF LogoutFinal
  <2> QED BY <2>4, <2>8
<1>6. UNCHANGED <<req, who, prior>> => LogoutFinal'
  BY DEF LogoutFinal
<1>7. ASSUME NEW q \in Requests, EndSession(q)
      PROVE  LogoutsEnd' /\ LogoutFinal'
  <2>1. /\ UNCHANGED <<tokens, req, who, prior>> /\ pc[q] = "end" /\ req[q].kind = "logout"
        /\ \A p \in Requests \ {q} : pc'[p] = pc[p] /\ w'[p] = w[p]
    BY <1>2, <1>7, WritesMove DEF EndSession, Ledger, Own, Came, Step, Commit, database
  <2> DEFINE written == [w[q] EXCEPT !.revokes = {<<"session", req[q].cookie>>},
                                     !.audit = {[by |-> q, action |-> "logout",
                                                 actor |-> who[q]]}]
  <2>2. written.revokes = {<<"session", req[q].cookie>>}
    <3>1. w[q] \in Writes
      BY DEF TypeInv, TypeOK
    <3> QED BY <3>1 DEF Writes
  <2>3. \/ pc'[q] = "commit" /\ w'[q] = written
        \/ pc'[q] = "ok" /\ Ended(q)
    BY <1>7 DEF EndSession, Write, Rollback, Named, TypeInv, TypeOK
  <2> HIDE DEF written
  <2>4. LogoutsEnd'
    BY <1>3, <2>1, <2>2, <2>3 DEF LogoutsEnd, Named, JtiOf
  <2> QED BY <1>6, <2>1, <2>4
<1>8. ASSUME NEW q \in Requests, Commit(q)
      PROVE  LogoutsEnd' /\ LogoutFinal'
  <2>1. /\ UNCHANGED <<req, who, prior>> /\ pc[q] = "commit" /\ pc'[q] # "commit"
        /\ \A p \in Requests \ {q} : pc'[p] = pc[p] /\ w'[p] = w[p]
    BY <1>8 DEF Commit, TypeInv, TypeOK
  <2>2. req[q].kind = "logout" =>
           \A t \in tokens' : JtiOf(t) = <<"session", req[q].cookie>> => t.revoked
    BY <1>3, <1>8, <2>1, CommitRevokes
  <2>3. LogoutsEnd'
    BY <1>3, <1>4, <2>1, <2>2 DEF LogoutsEnd, Named, JtiOf
  <2> QED BY <1>6, <2>1, <2>3
<1>9. ASSUME NEW q \in Requests, Step(q) \/ Fail(q), ~EndSession(q), ~Commit(q)
      PROVE  LogoutsEnd' /\ LogoutFinal'
  <2>1. /\ UNCHANGED <<tokens, req, who, prior>> /\ pc'[q] # "ok"
        /\ \A p \in Requests \ {q} : pc'[p] = pc[p] /\ w'[p] = w[p]
        /\ pc'[q] = "commit" => Upsert(q) \/ RevokeAndMint(q) \/ req[q].kind = "sunshine"
    BY <1>9, WritesMove DEF database
  <2>2. Upsert(q) => req[q].kind = "login"
    BY UpsertForm
  <2>3. RevokeAndMint(q) => req[q].kind # "logout"
    BY DEF RevokeAndMint, Ledger, Own, Came
  <2>4. LogoutsEnd'
    BY <1>3, <2>1, <2>2, <2>3 DEF LogoutsEnd, Named, JtiOf
  <2> QED BY <1>6, <2>1, <2>4
<1>10. CASE (\E u \in users : Adjust(u)) \/ (\E t \in tokens : Expire(t))
  <2>1. UNCHANGED <<pc, req, who, w, prior>>
    BY <1>10, OutsideForm
  <2>2. LogoutsEnd'
    BY <1>3, <1>4, <2>1 DEF LogoutsEnd, Named, JtiOf
  <2> QED BY <1>6, <2>1, <2>2
<1> QED BY <1>2, <1>5, <1>7, <1>8, <1>9, <1>10 DEF Next

\* Once a logout has been answered, its cookie identifies nobody again.
THEOREM LogoutsFinal == Spec => []LogoutFinal
<1>1. Init => LogoutsEnd /\ LogoutFinal
  BY DEF Init, LogoutsEnd, LogoutFinal, NoRequest
<1> QED BY <1>1, LedgerKept, LogoutsNext, PTL DEF Spec

\* A token is issued for the host of its request.
LEMMA TokensOfHostNext ==
    TypeInv /\ Ledger /\ TokensOfHost /\ [Next]_vars => TokensOfHost'
<1> SUFFICES ASSUME TypeInv, Ledger, TokensOfHost, [Next]_vars
             PROVE  TokensOfHost'
  OBVIOUS
<1>1. ASSUME NEW q \in Requests, Arrive(q)
      PROVE  TokensOfHost'
  <2>1. PICK r, user, step : Begin(q, r, user, step)
    BY <1>1, ArriveForm
  <2>2. /\ tokens' = tokens /\ pc[q] = "idle"
        /\ \A p \in Requests \ {q} : req'[p] = req[p]
    BY <2>1 DEF Begin, database, TypeInv, TypeOK
  <2>3. \A t \in tokens : t.id # q
    BY <2>2, CredentialsAssumption DEF Ledger, RowsOfAnswered, Answered
  <2> QED BY <2>2, <2>3 DEF TokensOfHost, HostOf
<1>2. ASSUME NEW q \in Requests, Commit(q)
      PROVE  TokensOfHost'
  <2>1. req' = req
    BY <1>2 DEF Commit
  <2>2. \A t \in w[q].tokens : t.purpose = "agent" =>
           t.id = q /\ req[q].kind \in {"create", "rotate"} /\ t.host = HostOf(q)
    BY DEF Ledger, Own, TokenWritten
  <2>3. \A t \in tokens' : t \in w[q].tokens \/
           \E s \in tokens : s.purpose = t.purpose /\ s.id = t.id /\ s.host = t.host
    BY <1>2, CommitTokens DEF Marked
  <2> QED BY <2>1, <2>2, <2>3 DEF TokensOfHost, HostOf
<1>3. ASSUME NEW q \in Requests, Step(q) \/ Fail(q), ~Commit(q)
      PROVE  TokensOfHost'
  BY <1>3, WritesMove DEF TokensOfHost, HostOf, database
<1>4. CASE (\E u \in users : Adjust(u)) \/ (\E t \in tokens : Expire(t))
  <2>1. req' = req
    BY <1>4, OutsideForm
  <2>2. \A t \in tokens' :
           \E s \in tokens : s.purpose = t.purpose /\ s.id = t.id /\ s.host = t.host
    BY <1>4, OutsideForm DEF Marked
  <2> QED BY <2>1, <2>2 DEF TokensOfHost, HostOf
<1>5. CASE UNCHANGED vars
  BY <1>5 DEF vars, database, TokensOfHost, HostOf
<1> QED BY <1>1, <1>2, <1>3, <1>4, <1>5 DEF Next

\* A rotation finds the live tokens of its host, and gives up none of them before it has
\* seen to it that they are revoked.
LEMMA RotationsNext ==
    TypeInv /\ Ledger /\ TokensOfHost /\ RotationsEnd /\ [Next]_vars => RotationsEnd'
<1> SUFFICES ASSUME TypeInv, Ledger, TokensOfHost, RotationsEnd, [Next]_vars
             PROVE  RotationsEnd'
  OBVIOUS
<1>1. CASE UNCHANGED vars
  BY <1>1 DEF vars, database, RotationsEnd, Before, JtiOf
<1>2. \A r \in Requests, t \in tokens : t.purpose = "agent" /\ Before(t.id, r) =>
         /\ req[r].kind = "create" => t.host # r
         /\ req[r].kind = "rotate" /\ t.host = req[r].host =>
               /\ pc[r] = "mint" => t.revoked \/ JtiOf(t) \in scan[r]
               /\ pc[r] = "commit" => t.revoked \/ JtiOf(t) \in w[r].revokes
               /\ pc[r] = "ok" => t.revoked
  BY DEF RotationsEnd
<1>3. ASSUME NEW q \in Requests, Arrive(q)
      PROVE  RotationsEnd'
  <2>1. PICK r, user, step : Begin(q, r, user, step) /\ Arrival(r, user, step)
    BY <1>3, ArriveForm
  <2>2. /\ UNCHANGED <<tokens, scan, w>> /\ pc[q] = "idle" /\ pc'[q] = step /\ req'[q] = r
        /\ \A p \in Requests \ {q} : /\ pc'[p] = pc[p] /\ req'[p] = req[p]
                                     /\ prior'[p] = prior[p]
    BY <2>1 DEF Begin, database, TypeInv, TypeOK
  <2>3. r.kind = "rotate" => step \in {"scan", "refused"}
    BY <2>1 DEF Arrival
  <2>4. ASSUME NEW t \in tokens, t.purpose = "agent"
        PROVE  t.host # q
    <3>1. CASE t.id = Seed /\ t.host = Seed
      BY <3>1, CredentialsAssumption
    <3>2. CASE t.id \in Requests /\ req[t.id].kind = "create" /\ t.host = t.id
      BY <2>2, <3>2, CredentialsAssumption DEF Ledger, RowsOfAnswered, Answered
    <3>3. CASE t.id \in Requests /\ req[t.id].kind = "rotate" /\ t.host = req[t.id].host
      <4>1. Came(t.id)
        BY <3>3 DEF Ledger, Own
      <4>2. t.host = Seed \/ t.host \in prior[t.id]
        BY <3>3, <4>1 DEF Came, Before
      <4> QED BY <2>2, <4>1, <4>2, CredentialsAssumption DEF Came
    <3> QED BY <2>4, <3>1, <3>2, <3>3 DEF TokensOfHost, HostOf
  <2> QED BY <1>2, <2>2, <2>3, <2>4 DEF RotationsEnd, Before, JtiOf
<1>4. ASSUME NEW q \in Requests, Step(q) \/ Fail(q), ~Commit(q)
      PROVE  RotationsEnd'
  <2>1. /\ UNCHANGED <<tokens, req, prior>>
        /\ \A p \in Requests \ {q} : pc'[p] = pc[p] /\ w'[p] = w[p] /\ scan'[p] = scan[p]
    BY <1>4, WritesMove DEF database
  <2>2. ASSUME NEW t \in tokens, t.purpose = "agent", Before(t.id, q),
               req[q].kind = "rotate", t.host = req[q].host
        PROVE  /\ pc'[q] = "mint" => t.revoked \/ JtiOf(t) \in scan'[q]
               /\ pc'[q] = "commit" => t.revoked \/ JtiOf(t) \in w'[q].revokes
               /\ pc'[q] # "ok"
    <3>1. Came(q) /\ w[q] \in Writes
      BY DEF Ledger, Own, TypeInv, TypeOK
    <3>2. ~InsertHost(q) /\ ~EndSession(q) /\ ~Upsert(q)
      BY <2>2, <3>1, UpsertForm DEF InsertHost, EndSession, Came
    <3>3. CASE Scan(q)
      <4>1. scan'[q] = {JtiOf(s) : s \in AgentTokensOf(req[q].host)} /\ pc'[q] = "mint"
        BY <3>3 DEF Scan, TypeInv, TypeOK
      <4>2. ~t.revoked => t \in AgentTokensOf(req[q].host)
        BY <2>2 DEF AgentTokensOf
      <4> QED BY <4>1, <4>2
    <3>4. CASE RevokeAndMint(q)
      <4> DEFINE revoked == {k \in scan[q] : \E s \in tokens : JtiOf(s) = k /\ ~s.revoked}
                 written == [w[q] EXCEPT !.revokes = revoked,
                                         !.tokens = {AgentToken(q, who[q], HostOf(q))}]
      <4>1. pc[q] = "mint" /\ pc'[q] = "commit" /\ w'[q] = written
        BY <3>4 DEF RevokeAndMint, Write, TypeInv, TypeOK
      <4>2. written.revokes = revoked
        <5> HIDE DEF revoked
        <5> QED BY <3>1 DEF Writes
      <4>3. t.revoked \/ JtiOf(t) \in scan[q]
        BY <1>2, <2>2, <4>1
      <4>4. t.revoked \/ JtiOf(t) \in revoked
        BY <4>3
      <4> QED BY <4>1, <4>2, <4>4
    <3>5. CASE ~Scan(q) /\ ~RevokeAndMint(q)
      BY <1>4, <2>2, <3>2, <3>5, WritesMove
    <3> QED BY <1>4, <3>2, <3>3, <3>4, <3>5, WritesMove
  <2> QED BY <1>2, <2>1, <2>2 DEF RotationsEnd, Before, JtiOf
<1>5. ASSUME NEW q \in Requests, Commit(q)
      PROVE  RotationsEnd'
  <2>1. /\ UNCHANGED <<req, prior>> /\ pc[q] = "commit" /\ pc'[q] \in {"ok", "refused"}
        /\ \A p \in Requests \ {q} : pc'[p] = pc[p] /\ w'[p] = w[p] /\ scan'[p] = scan[p]
    BY <1>5 DEF Commit, TypeInv, TypeOK
  <2>2. \A r \in Requests : ~Before(q, r)
    BY <2>1, CredentialsAssumption DEF Ledger, Own, Came, Before
  <2>3. \A t \in w[q].tokens : t.id = q
    BY DEF Ledger, Own, TokenWritten
  <2>4. SUFFICES ASSUME NEW r \in Requests, NEW t \in tokens', t.purpose = "agent",
                        Before(t.id, r)
                 PROVE  /\ req[r].kind = "create" => t.host # r
                        /\ req[r].kind = "rotate" /\ t.host = req[r].host =>
                              /\ pc'[r] = "mint" => t.revoked \/ JtiOf(t) \in scan'[r]
                              /\ pc'[r] = "commit" => t.revoked \/ JtiOf(t) \in w'[r].revokes
                              /\ pc'[r] = "ok" => t.revoked
    BY <2>1 DEF RotationsEnd, Before, JtiOf
  <2>5. PICK s \in tokens : Marked(s, t, w[q].revokes)
    BY <1>5, <2>2, <2>3, <2>4, CommitTokens
  <2>6. s.purpose = "agent" /\ Before(s.id, r)
    BY <2>4, <2>5 DEF Marked
  <2>7. CASE r # q
    BY <1>2, <2>1, <2>5, <2>6, <2>7 DEF Marked
  <2>8. CASE r = q
    BY <1>2, <2>1, <2>5, <2>6, <2>8 DEF Marked
  <2> QED BY <2>7, <2>8
<1>6. CASE (\E u \in users : Adjust(u)) \/ (\E t \in tokens : Expire(t))
  <2>1. UNCHANGED <<pc, req, scan, w, prior>>
    BY <1>6, OutsideForm
  <2>2. \A t \in tokens' : t \in tokens \/ t.purpose # "agent"
    BY <1>6, OutsideForm DEF Marked
  <2> QED BY <1>2, <2>1, <2>2 DEF RotationsEnd, Before, JtiOf
<1> QED BY <1>1, <1>3, <1>4, <1>5, <1>6 DEF Next

\* A heartbeat that has been let in had a token that no answered rotation has put out of
\* use before it came.
LEMMA HeartbeatsNext ==
    TypeInv /\ Ledger /\ TokensOfHost /\ RotationsEnd /\ HeartbeatsBarred /\ [Next]_vars
      => HeartbeatsBarred'
<1> SUFFICES ASSUME TypeInv, Ledger, TokensOfHost, RotationsEnd, HeartbeatsBarred, [Next]_vars
             PROVE  HeartbeatsBarred'
  OBVIOUS
<1>1. CASE UNCHANGED vars
  BY <1>1 DEF vars, database, HeartbeatsBarred, Named, Before, JtiOf
<1>2. ASSUME NEW b \in Requests, req[b].kind = "heartbeat", pc[b] \in {"commit", "ok"},
             NEW r \in prior[b], NEW t \in tokens, NEW n \in tokens,
             JtiOf(t) = <<"agent", req[b].bearer>>, JtiOf(n) = <<"agent", r>>, t.host = n.host
      PROVE  ~Before(t.id, r)
  BY <1>2 DEF HeartbeatsBarred, Named
<1>3. \A b \in Requests : prior[b] \subseteq Requests
  BY DEF TypeInv, TypeOK
<1>4. ASSUME NEW q \in Requests, Arrive(q)
      PROVE  HeartbeatsBarred'
  <2>1. PICK r, user, step : Begin(q, r, user, step) /\ Arrival(r, user, step)
    BY <1>4, ArriveForm
  <2>2. /\ tokens' = tokens /\ pc[q] = "idle" /\ pc'[q] = step /\ req'[q] = r
        /\ prior'[q] = {p \in Requests : pc[p] = "ok"}
        /\ \A p \in Requests \ {q} : /\ pc'[p] = pc[p] /\ req'[p] = req[p]
                                     /\ prior'[p] = prior[p]
    BY <2>1 DEF Begin, database, TypeInv, TypeOK
  <2>3. \A b \in Requests : q \notin prior[b]
    BY <2>2 DEF Ledger, Own, Came
  <2>4. ASSUME r.kind = "heartbeat", step \in {"commit", "ok"}, NEW a \in Requests, pc[a] = "ok",
               NEW t \in tokens, NEW n \in tokens, JtiOf(t) = <<"agent", r.bearer>>,
               JtiOf(n) = <<"agent", a>>, t.host = n.host
        PROVE  ~Before(t.id, a)
    <3>1. ~t.revoked
      <4>1. PICK x \in tokens : JtiOf(x) = <<"agent", r.bearer>> /\ ~x.revoked
        BY <2>1, <2>4 DEF Arrival, Named, Valid
      <4> QED BY <2>4, <4>1 DEF Ledger, RowsOfAnswered
    <3>2. t.purpose = "agent" /\ n.purpose = "agent" /\ n.id = a
      BY <2>4 DEF JtiOf
    <3>3. req[a].kind \in {"create", "rotate"} /\ n.host = HostOf(a)
      BY <3>2, CredentialsAssumption DEF TokensOfHost
    <3> QED BY <2>4, <3>1, <3>2, <3>3 DEF RotationsEnd, HostOf
  <2>5. ASSUME NEW b \in Requests, req'[b].kind = "heartbeat", pc'[b] \in {"commit", "ok"},
               NEW a \in prior'[b], NEW t \in tokens, NEW n \in tokens,
               JtiOf(t) = <<"agent", req'[b].bearer>>, JtiOf(n) = <<"agent", a>>,
               t.host = n.host
        PROVE  ~Before(t.id, a)
    BY <1>2, <2>2, <2>4, <2>5
  <2>6. \A b \in Requests : \A a \in prior'[b] : a # q /\ a \in Requests
    BY <1>3, <2>2, <2>3
  <2>7. \A b \in Requests : \A a \in prior'[b] : \A i : Before(i, a)' <=> Before(i, a)
    BY <2>2, <2>6 DEF Before
  <2> QED BY <2>2, <2>5, <2>7 DEF HeartbeatsBarred, Named, JtiOf, Before
<1>5. ASSUME NEW q \in Requests, Step(q) \/ Fail(q), ~Commit(q)
      PROVE  HeartbeatsBarred'
  <2>1. /\ UNCHANGED <<tokens, req, prior>>
        /\ \A p \in Requests \ {q} : pc'[p] = pc[p]
    BY <1>5, WritesMove DEF database
  <2>2. Came(q)
    BY DEF Ledger, Own
  <2>3. req[q].kind = "heartbeat" => pc'[q] \notin {"commit", "ok"}
    BY <1>5, <2>2, WritesMove, UpsertForm DEF EndSession, RevokeAndMint, Came
  <2> QED BY <1>2, <2>1, <2>3 DEF HeartbeatsBarred, Named, JtiOf, Before
<1>6. ASSUME NEW q \in Requests, Commit(q)
      PROVE  HeartbeatsBarred'
  <2>1. /\ UNCHANGED <<req, prior>> /\ pc[q] = "commit"
        /\ \A p \in Requests \ {q} : pc'[p] = pc[p]
    BY <1>6 DEF Commit, TypeInv, TypeOK
  <2>2. \A t \in w[q].tokens : t.id = q
    BY DEF Ledger, Own, TokenWritten
  <2>3. ~Answered(q)
    BY <2>1, CredentialsAssumption DEF Answered
  <2>4. ASSUME NEW t \in tokens', NEW i, Answered(i), JtiOf(t) = <<"agent", i>>
        PROVE  \E s \in tokens : JtiOf(s) = <<"agent", i>> /\ s.host = t.host /\ s.id = t.id
    <3>1. t.id = i
      BY <2>4 DEF JtiOf
    <3>2. PICK s \in tokens : Marked(s, t, w[q].revokes)
      BY <1>6, <2>2, <2>3, <2>4, <3>1, CommitTokens
    <3> QED BY <2>4, <3>2 DEF Marked
  <2>5. SUFFICES ASSUME NEW b \in Requests, req[b].kind = "heartbeat",
                        pc'[b] \in {"commit", "ok"}, NEW r \in prior[b],
                        NEW t \in tokens', NEW n \in tokens',
                        JtiOf(t) = <<"agent", req[b].bearer>>, JtiOf(n) = <<"agent", r>>,
                        t.host = n.host
                 PROVE  ~Before(t.id, r)
    BY <2>1 DEF HeartbeatsBarred, Named, JtiOf, Before
  <2>6. pc[b] \in {"commit", "ok"}
    BY <2>1, <2>5
  <2>7. Answered(req[b].bearer) /\ Answered(r)
    BY <1>3, <2>5 DEF Ledger, Own, Came, Answered
  <2>8. PICK s \in tokens : /\ JtiOf(s) = <<"agent", req[b].bearer>>
                            /\ s.host = t.host /\ s.id = t.id
    BY <2>4, <2>5, <2>7
  <2>9. PICK m \in tokens : JtiOf(m) = <<"agent", r>> /\ m.host = n.host
    BY <2>4, <2>5, <2>7
  <2> QED BY <1>2, <2>5, <2>6, <2>8, <2>9
<1>7. CASE (\E u \in users : Adjust(u)) \/ (\E t \in tokens : Expire(t))
  <2>1. UNCHANGED <<pc, req, prior>>
    BY <1>7, OutsideForm
  <2>2. \A t \in tokens' : t \in tokens \/ t.purpose # "agent"
    BY <1>7, OutsideForm DEF Marked
  <2>3. \A t \in tokens' : \A i : JtiOf(t) = <<"agent", i>> => t \in tokens
    BY <2>2 DEF JtiOf
  <2> QED BY <1>2, <2>1, <2>3 DEF HeartbeatsBarred, Named, JtiOf, Before
<1> QED BY <1>1, <1>4, <1>5, <1>6, <1>7 DEF Next

\* Once a rotation has been answered, no heartbeat that comes later is accepted with a
\* token handed out before it came, however many rotations of the host raced.
THEOREM RotationsFinal == Spec => []RotatedOutRefused
<1>1. Init => TokensOfHost /\ RotationsEnd /\ HeartbeatsBarred
  <2> SUFFICES ASSUME Init
               PROVE  TokensOfHost /\ RotationsEnd /\ HeartbeatsBarred
    OBVIOUS
  <2>1. \A q \in Requests : req[q].kind = "none"
    BY DEF Init, NoRequest
  <2>2. \A t \in tokens : t.purpose = "agent" => t.id = Seed /\ t.host = Seed
    BY DEF Init, Session, AgentToken
  <2> QED BY <2>1, <2>2 DEF TokensOfHost, RotationsEnd, HeartbeatsBarred
<1>2. HeartbeatsBarred => RotatedOutRefused
  BY DEF HeartbeatsBarred, RotatedOutRefused, Ok
<1> QED BY <1>1, <1>2, LedgerKept, TokensOfHostNext, RotationsNext, HeartbeatsNext, PTL
        DEF Spec

-----------------------------------------------------------------------------
(* The Sunshine token of a host.                                           *)

\* Priors are snapshots of answers that are never taken back.
LEMMA PriorsNext == TypeInv /\ Ledger /\ PriorsNested /\ [Next]_vars => PriorsNested'
<1> SUFFICES ASSUME TypeInv, Ledger, PriorsNested, [Next]_vars
             PROVE  PriorsNested'
  OBVIOUS
<1>1. ASSUME NEW q \in Requests, Arrive(q)
      PROVE  PriorsNested'
  <2>1. PICK r, user, step : Begin(q, r, user, step)
    BY <1>1, ArriveForm
  <2>2. /\ prior'[q] = {p \in Requests : pc[p] = "ok"}
        /\ \A p \in Requests \ {q} : prior'[p] = prior[p]
    BY <2>1 DEF Begin, TypeInv, TypeOK
  <2>3. \A p \in Requests : prior[p] \subseteq {r1 \in Requests : pc[r1] = "ok"}
    BY DEF Ledger, Own, Came, TypeInv, TypeOK
  <2> QED BY <2>2, <2>3 DEF PriorsNested
<1>2. ASSUME NEW q \in Requests, Step(q) \/ Fail(q)
      PROVE  prior' = prior
  <2>1. Commit(q) => prior' = prior
    BY DEF Commit
  <2> QED BY <1>2, <2>1, WritesMove
<1>3. CASE (\E u \in users : Adjust(u)) \/ (\E t \in tokens : Expire(t))
  BY <1>3, OutsideForm DEF PriorsNested
<1>4. CASE UNCHANGED vars
  BY <1>4 DEF vars, PriorsNested
<1> QED BY <1>1, <1>2, <1>3, <1>4 DEF Next, PriorsNested

\* Only a request for a secret writes one.
LEMMA SecretsMove ==
    ASSUME TypeInv, Ledger, NEW q \in Requests, Step(q) \/ Fail(q), ~Commit(q)
    PROVE  \/ w'[q].secrets \in {w[q].secrets, {}} /\ ~LoadHost(q) /\ ~UpdateHost(q)
                /\ (pc'[q] = "commit" => req[q].kind # "sunshine")
           \/ /\ req[q].kind = "sunshine" /\ pc[q] = "load" /\ w'[q] = w[q]
              /\ \/ pc'[q] = "update"
                 \/ /\ pc'[q] = "commit"
                    /\ \E h \in hosts : h.id = req[q].host /\ h.secret = req[q].secret
           \/ /\ req[q].kind = "sunshine" /\ pc[q] = "update" /\ pc'[q] = "commit"
              /\ w'[q].secrets = {<<req[q].host, req[q].secret>>}
<1>1. w[q] \in Writes /\ Came(q)
  BY DEF TypeInv, TypeOK, Ledger, Own
<1>2. CASE LoadHost(q)
  <2>1. req[q].kind = "sunshine" /\ pc[q] = "load"
    BY <1>2 DEF LoadHost, TypeInv, Fits, SecretRequest
  <2>2. /\ w'[q] = w[q]
        /\ \/ pc'[q] = "update"
           \/ /\ pc'[q] = "commit"
              /\ \E h \in hosts : h.id = req[q].host /\ h.secret = req[q].secret
    BY <1>2 DEF LoadHost, Write, TypeInv, TypeOK
  <2> QED BY <2>1, <2>2
<1>3. CASE UpdateHost(q)
  <2>1. req[q].kind = "sunshine" /\ pc[q] = "update"
    BY <1>3 DEF UpdateHost, TypeInv, Fits, SecretRequest
  <2>2. /\ w'[q] = [w[q] EXCEPT !.secrets = {<<req[q].host, req[q].secret>>}]
        /\ pc'[q] = "commit"
    BY <1>3 DEF UpdateHost, Write, TypeInv, TypeOK
  <2>3. [w[q] EXCEPT !.secrets = {<<req[q].host, req[q].secret>>}].secrets
          = {<<req[q].host, req[q].secret>>}
    BY <1>1 DEF Writes
  <2> QED BY <2>1, <2>2, <2>3
<1>4. ASSUME ~LoadHost(q), ~UpdateHost(q)
      PROVE  pc'[q] = "commit" => req[q].kind # "sunshine"
  <2>1. pc'[q] = "commit" => Upsert(q) \/ EndSession(q) \/ RevokeAndMint(q)
    BY <1>4 DEF Step, Fail, Rollback, Scan, InsertHost, Write, Commit, TypeInv, TypeOK
  <2> QED BY <1>1, <2>1, UpsertForm DEF EndSession, RevokeAndMint, Came
<1>5. ASSUME ~LoadHost(q), ~UpdateHost(q)
      PROVE  w'[q].secrets \in {w[q].secrets, {}}
  <2>1. \A answer : Rollback(q, answer) => w'[q].secrets = {}
    BY DEF Rollback, NoWrites, TypeInv, TypeOK
  <2>2. \A step, writes : Write(q, step, writes) => w'[q] = writes
    BY DEF Write, TypeInv, TypeOK
  <2>3. CASE Upsert(q)
    <3> DEFINE user == IF RowOf(req[q].person) = {} THEN q
                       ELSE (CHOOSE u \in RowOf(req[q].person) : TRUE).id
               rejected == [w[q] EXCEPT !.audit = {[by |-> q, action |-> "login_failure",
                                                    actor |-> Nobody]}]
               written == [w[q] EXCEPT
                             !.users = IF user = q
                                       THEN {[id |-> q, person |-> req[q].person,
                                              role |-> req[q].role, active |-> TRUE]} ELSE {},
                             !.tokens = {Session(q, user)},
                             !.audit = {[by |-> q, action |-> "login_success",
                                         actor |-> user]}]
    <3>1. rejected.secrets = w[q].secrets /\ written.secrets = w[q].secrets
      BY <1>1 DEF Writes
    <3>2. Write(q, "commit", rejected) \/ Write(q, "commit", written)
      BY <2>3 DEF Upsert
    <3> HIDE DEF rejected, written
    <3> QED BY <2>2, <3>1, <3>2
  <2>4. CASE EndSession(q)
    <3> DEFINE written == [w[q] EXCEPT !.revokes = {<<"session", req[q].cookie>>},
                                       !.audit = {[by |-> q, action |-> "logout",
                                                   actor |-> who[q]]}]
    <3>1. written.secrets = w[q].secrets
      BY <1>1 DEF Writes
    <3>2. Write(q, "commit", written) \/ Rollback(q, "ok")
      BY <2>4 DEF EndSession
    <3> HIDE DEF written
    <3> QED BY <2>1, <2>2, <3>1, <3>2
  <2>5. CASE InsertHost(q)
    <3> DEFINE written == [w[q] EXCEPT !.hosts = {[id |-> q, name |-> req[q].name,
                                                   secret |-> req[q].secret]}]
    <3>1. written.secrets = w[q].secrets
      BY <1>1 DEF Writes
    <3>2. Write(q, "mint", written) \/ Rollback(q, "conflict")
      BY <2>5 DEF InsertHost
    <3> HIDE DEF written
    <3> QED BY <2>1, <2>2, <3>1, <3>2
  <2>6. CASE RevokeAndMint(q)
    <3> DEFINE written == [w[q] EXCEPT
                             !.revokes = {k \in scan[q] : \E t \in tokens :
                                                             JtiOf(t) = k /\ ~t.revoked},
                             !.tokens = {AgentToken(q, who[q], HostOf(q))}]
    <3>1. written.secrets = w[q].secrets
      BY <1>1 DEF Writes
    <3>2. Write(q, "commit", written)
      BY <2>6 DEF RevokeAndMint
    <3> HIDE DEF written
    <3> QED BY <2>2, <3>1, <3>2
  <2>7. CASE Scan(q)
    BY <2>7 DEF Scan
  <2>8. CASE Fail(q)
    BY <2>1, <2>8 DEF Fail
  <2> QED BY <1>5, <2>3, <2>4, <2>5, <2>6, <2>7, <2>8 DEF Step
<1> QED BY <1>2, <1>3, <1>4, <1>5

\* What the commit of q makes of the secrets, when it has written those of SecretsSet.
LEMMA CommitSecrets ==
    ASSUME TypeInv, NEW q \in Requests, Commit(q), NEW g \in hosts', g \notin w[q].hosts,
           w[q].secrets # {} => w[q].secrets = {<<req[q].host, req[q].secret>>}
                                  /\ req[q].secret \in Secrets
    PROVE  \E h \in hosts : /\ h.id = g.id
                            /\ g.secret = IF w[q].secrets # {} /\ h.id = req[q].host
                                          THEN req[q].secret ELSE h.secret
<1> DEFINE found(h) == CHOOSE s \in Secrets : <<h.id, s>> \in w[q].secrets
           written(h) == \E s \in Secrets : <<h.id, s>> \in w[q].secrets
<1>1. PICK h \in hosts : g = IF written(h) THEN [h EXCEPT !.secret = found(h)] ELSE h
  BY DEF Commit
<1>2. h \in Host
  BY DEF TypeInv, TypeOK
<1>3. CASE w[q].secrets # {} /\ h.id = req[q].host
  <2>1. written(h)
    BY <1>3
  <2>2. \A s : <<h.id, s>> \in w[q].secrets <=> s = req[q].secret
    BY <1>3
  <2>3. found(h) = req[q].secret
    <3>1. found(h) \in Secrets /\ <<h.id, found(h)>> \in w[q].secrets
      BY <2>1
    <3> HIDE DEF found
    <3> QED BY <2>2, <3>1
  <2> HIDE DEF found, written
  <2> QED BY <1>1, <1>2, <1>3, <2>1, <2>3 DEF Host
<1>4. CASE ~(w[q].secrets # {} /\ h.id = req[q].host)
  <2>1. ASSUME NEW s, <<h.id, s>> \in w[q].secrets
        PROVE  FALSE
    <3>1. <<h.id, s>> = <<req[q].host, req[q].secret>>
      BY <2>1
    <3> QED BY <1>4, <2>1, <3>1
  <2>2. ~written(h)
    BY <2>1
  <2> HIDE DEF found, written
  <2> QED BY <1>1, <1>4, <2>2
<1> QED BY <1>3, <1>4

\* The secret of a host stays that of a last setter, and open setters know it.
LEMMA SecretsNext ==
    TypeInv /\ Ledger /\ PriorsNested /\ SecretsSet /\ [Next]_vars => SecretsSet'
<1> SUFFICES ASSUME TypeInv, Ledger, PriorsNested, SecretsSet, [Next]_vars
             PROVE  SecretsSet'
  OBVIOUS
<1> DEFINE Setter(p, i) == p \in Requests /\ pc[p] = "ok" /\ req[p].kind = "sunshine"
                             /\ req[p].host = i
           Last(p, i) == Setter(p, i) /\ \A x : Setter(x, i) => ~Before(p, x)
           Silent(q) == req[q].kind = "sunshine" /\ pc[q] = "commit" /\ w[q].secrets = {}
           Written(q) == /\ req[q].kind = "sunshine" /\ pc[q] = "commit"
                         /\ w[q].secrets = {<<req[q].host, req[q].secret>>}
           Held(h) == (\E p : Setter(p, h.id)) => \E p : Last(p, h.id) /\ h.secret = req[p].secret
           Safe(q, h) == \/ h.secret = req[q].secret
                         \/ \E p : Last(p, h.id) /\ h.secret = req[p].secret /\ ~Before(p, q)
<1>1. SecretsSet <=> /\ \A h \in hosts : Held(h)
                     /\ \A q \in Requests : w[q].secrets # {} => Written(q)
                     /\ \A q \in Requests, h \in hosts :
                           Silent(q) /\ h.id = req[q].host => Safe(q, h)
  BY DEF SecretsSet, SetBy, LastSetters, Setters, Ok
<1>2. SecretsSet' <=> /\ \A h \in hosts' : Held(h)'
                      /\ \A q \in Requests : w'[q].secrets # {} => Written(q)'
                      /\ \A q \in Requests, h \in hosts' :
                            Silent(q)' /\ h.id = req'[q].host => Safe(q, h)'
  BY DEF SecretsSet, SetBy, LastSetters, Setters, Ok
<1>3. ASSUME UNCHANGED <<hosts>>,
             \A p \in Requests : pc[p] = "ok" /\ req[p].kind = "sunshine" <=>
                                 pc'[p] = "ok" /\ req'[p].kind = "sunshine",
             \A p \in Requests : pc[p] = "ok" =>
                req'[p] = req[p] /\ prior'[p] = prior[p]
      PROVE  /\ \A p, i : Setter(p, i)' <=> Setter(p, i)
             /\ \A p, i : Last(p, i)' <=> Last(p, i)
             /\ \A h \in hosts : Held(h)'
  <2>1. \A p, i : Setter(p, i)' <=> Setter(p, i)
    BY <1>3
  <2>2. \A p, x, i : Setter(x, i) => (Before(p, x)' <=> Before(p, x))
    BY <1>3 DEF Before
  <2>3. \A p, i : Last(p, i)' <=> Last(p, i)
    BY <2>1, <2>2
  <2>4. \A p, i : Last(p, i) => p \in Requests /\ req'[p] = req[p]
    BY <1>3
  <2>5. ASSUME NEW h \in hosts, Held(h)
        PROVE  Held(h)'
    <3> HIDE DEF Setter, Last
    <3> QED BY <2>1, <2>3, <2>4, <2>5
  <2>6. \A h \in hosts : Held(h)'
    <3> HIDE DEF Held
    <3> QED BY <1>1, <1>3, <2>5
  <2> QED BY <2>1, <2>3, <2>6
<1>4. ASSUME NEW q \in Requests, Arrive(q)
      PROVE  SecretsSet'
  <2>1. PICK r, user, step : Begin(q, r, user, step) /\ Arrival(r, user, step)
    BY <1>4, ArriveForm
  <2>2. /\ UNCHANGED <<hosts, w>> /\ pc[q] = "idle" /\ pc'[q] = step /\ req'[q] = r
        /\ \A p \in Requests \ {q} : /\ pc'[p] = pc[p] /\ req'[p] = req[p]
                                     /\ prior'[p] = prior[p]
    BY <2>1 DEF Begin, database, TypeInv, TypeOK
  <2>3. step \in {"ok", "commit"} => r.kind # "sunshine"
    BY <2>1 DEF Arrival
  <2>4. w[q].secrets = {}
    BY <2>2 DEF TypeInv, Fits, Steps, NoWrites
  <2>5. /\ \A p, i : Last(p, i)' <=> Last(p, i)
        /\ \A h \in hosts : Held(h)'
    <3>1. UNCHANGED <<hosts>>
      BY <2>2
    <3>2. \A p \in Requests : pc[p] = "ok" /\ req[p].kind = "sunshine" <=>
                              pc'[p] = "ok" /\ req'[p].kind = "sunshine"
      BY <2>2, <2>3
    <3>3. \A p \in Requests : pc[p] = "ok" => req'[p] = req[p] /\ prior'[p] = prior[p]
      BY <2>2
    <3> HIDE DEF Setter, Last, Held
    <3> QED BY <3>1, <3>2, <3>3, <1>3
  <2>6. ASSUME NEW p \in Requests \ {q}, NEW h \in hosts, Safe(p, h)
        PROVE  Safe(p, h)'
    <3>1. h.secret = req[p].secret => Safe(p, h)'
      BY <2>2
    <3>2. ASSUME NEW x, Last(x, h.id), h.secret = req[x].secret, ~Before(x, p)
          PROVE  Safe(p, h)'
      <4>1. req'[x] = req[x] /\ ~Before(x, p)'
        BY <2>2, <3>2 DEF Before
      <4>2. Last(x, h.id)'
        BY <2>5, <3>2
      <4> HIDE DEF Last
      <4> QED BY <3>2, <4>1, <4>2
    <3> QED BY <2>6, <3>1, <3>2
  <2>7. \A p \in Requests : w'[p].secrets # {} => Written(p)'
    BY <1>1, <2>2, <2>4
  <2>8. \A p \in Requests, h \in hosts' : Silent(p)' /\ h.id = req'[p].host => Safe(p, h)'
    <3>1. ~Silent(q)'
      BY <2>2, <2>3
    <3>2. \A p \in Requests \ {q} : (Silent(p)' <=> Silent(p)) /\ req'[p] = req[p]
      BY <2>2
    <3> HIDE DEF Silent, Safe
    <3> QED BY <1>1, <2>2, <2>6, <3>1, <3>2
  <2> HIDE DEF Held, Written, Silent, Safe
  <2> QED BY <1>2, <2>2, <2>5, <2>7, <2>8
<1>5. ASSUME NEW q \in Requests, Step(q) \/ Fail(q), ~Commit(q)
      PROVE  SecretsSet'
  <2>1. /\ UNCHANGED <<hosts, req, prior>>
        /\ \A p \in Requests \ {q} : pc'[p] = pc[p] /\ w'[p] = w[p]
        /\ pc[q] # "ok" /\ (pc'[q] = "ok" => req[q].kind = "logout")
    BY <1>5, WritesMove DEF database, Steps, EndSession, Ledger, Own, Came
  <2>2. /\ \A p, i : Last(p, i)' <=> Last(p, i)
        /\ \A h \in hosts : Held(h)'
    <3>1. \A p \in Requests : pc[p] = "ok" /\ req[p].kind = "sunshine" <=>
                              pc'[p] = "ok" /\ req'[p].kind = "sunshine"
      BY <2>1
    <3> HIDE DEF Setter, Last, Held
    <3> QED BY <2>1, <3>1, <1>3
  <2>3. \A p \in Requests, h \in hosts : Safe(p, h) => Safe(p, h)'
    <3> HIDE DEF Last
    <3> QED BY <2>1, <2>2 DEF Before
  <2>4. /\ w'[q].secrets # {} => Written(q)'
        /\ \A h \in hosts : Silent(q)' /\ h.id = req[q].host => h.secret = req[q].secret
    <3>1. pc[q] # "commit" => w[q].secrets = {}
      BY <1>1
    <3>2. pc[q] = "commit" => w'[q].secrets = {} /\ pc'[q] # "commit"
      <4>1. pc[q] = "commit" => Fail(q)
        BY <1>5 DEF Step, Upsert, EndSession, InsertHost, Scan, RevokeAndMint, LoadHost,
           UpdateHost
      <4> QED BY <4>1 DEF Fail, Rollback, NoWrites, Answers, TypeInv, TypeOK
    <3>3. CASE w'[q].secrets \in {w[q].secrets, {}}
                 /\ (pc'[q] = "commit" => req[q].kind # "sunshine")
      BY <2>1, <3>1, <3>2, <3>3
    <3>4. CASE /\ req[q].kind = "sunshine" /\ pc[q] = "load" /\ w'[q] = w[q]
               /\ \/ pc'[q] = "update"
                  \/ /\ pc'[q] = "commit"
                     /\ \E h \in hosts : h.id = req[q].host /\ h.secret = req[q].secret
      BY <3>1, <3>4 DEF Ledger, RowsOfAnswered
    <3>5. CASE /\ req[q].kind = "sunshine" /\ pc[q] = "update" /\ pc'[q] = "commit"
               /\ w'[q].secrets = {<<req[q].host, req[q].secret>>}
      BY <2>1, <3>5
    <3> QED BY <1>5, <3>3, <3>4, <3>5, SecretsMove
  <2>5. \A p \in Requests : w'[p].secrets # {} => Written(p)'
    BY <1>1, <2>1, <2>4
  <2>6. \A p \in Requests, h \in hosts' : Silent(p)' /\ h.id = req'[p].host => Safe(p, h)'
    <3>1. \A h \in hosts : h.secret = req[q].secret => Safe(q, h)'
      BY <2>1
    <3>2. \A p \in Requests \ {q} : Silent(p)' <=> Silent(p)
      BY <2>1
    <3> HIDE DEF Silent, Safe
    <3> QED BY <1>1, <2>1, <2>3, <2>4, <3>1, <3>2
  <2> HIDE DEF Held, Written, Silent, Safe
  <2> QED BY <1>2, <2>1, <2>2, <2>5, <2>6
<1>6. ASSUME NEW q \in Requests, Commit(q)
      PROVE  SecretsSet'
  <2>1. /\ UNCHANGED <<req, prior>> /\ pc[q] = "commit" /\ w'[q].secrets = {}
        /\ pc'[q] # "commit" /\ (req[q].kind = "sunshine" => pc'[q] = "ok")
        /\ \A p \in Requests \ {q} : pc'[p] = pc[p] /\ w'[p] = w[p]
    BY <1>6 DEF Commit, NoWrites, TypeInv, TypeOK
  <2>2. \A p, x : Before(p, x)' <=> Before(p, x)
    BY <2>1 DEF Before
  <2>3. \A p \in Requests : ~Before(q, p)
    BY <2>1, CredentialsAssumption DEF Ledger, Own, Came, Before
  <2>4. \A p, i : Setter(p, i)' <=>
           Setter(p, i) \/ (p = q /\ req[q].kind = "sunshine" /\ i = req[q].host)
    BY <2>1
  <2>5. \A h \in w[q].hosts : \A p \in Requests : req[p].kind = "sunshine" => req[p].host # h.id
    BY <2>1, CredentialsAssumption DEF Ledger, Own, HostWritten, Came, Answered
  <2>6. ASSUME NEW g \in hosts', g \notin w[q].hosts
        PROVE  \E h \in hosts : /\ h.id = g.id
                                /\ g.secret = IF w[q].secrets # {} /\ h.id = req[q].host
                                              THEN req[q].secret ELSE h.secret
    <3>1. w[q].secrets # {} => w[q].secrets = {<<req[q].host, req[q].secret>>}
      BY <1>1
    <3>2. w[q].secrets # {} => req[q].secret \in Secrets
      <4>1. w[q].secrets \subseteq Ids \X Secrets
        BY DEF TypeInv, TypeOK, Writes
      <4> QED BY <3>1, <4>1
    <3> QED BY <1>6, <2>6, <3>1, <3>2, CommitSecrets
  <2>7. ASSUME NEW g \in hosts', g.id # req[q].host \/ req[q].kind # "sunshine"
        PROVE  /\ Held(g)'
               /\ \A p \in Requests : Silent(p)' /\ g.id = req'[p].host => Safe(p, g)'
    <3>1. CASE g \in w[q].hosts
      BY <2>1, <2>4, <2>5, <3>1
    <3>2. CASE g \notin w[q].hosts
      <4>1. PICK h \in hosts : h.id = g.id /\ h.secret = g.secret
        BY <1>1, <2>6, <2>7, <3>2
      <4>2. \A p : (Setter(p, g.id)' <=> Setter(p, h.id)) /\ (Last(p, g.id)' <=> Last(p, h.id))
        BY <2>2, <2>4, <2>7, <4>1
      <4>3. Held(g)'
        BY <1>1, <2>1, <4>1, <4>2
      <4>4. \A p \in Requests : Safe(p, h) => Safe(p, g)'
        BY <2>1, <2>2, <4>1, <4>2
      <4>5. \A p \in Requests : Silent(p)' => Silent(p)
        BY <2>1
      <4> HIDE DEF Silent, Safe
      <4> QED BY <1>1, <2>1, <4>1, <4>3, <4>4, <4>5
    <3> QED BY <3>1, <3>2
  <2>8. ASSUME NEW g \in hosts', g.id = req[q].host, req[q].kind = "sunshine"
        PROVE  /\ Held(g)'
               /\ \A p \in Requests : Silent(p)' /\ g.id = req'[p].host => Safe(p, g)'
    <3>1. g \notin w[q].hosts
      BY <2>5, <2>8
    <3>2. PICK h \in hosts : /\ h.id = g.id
                             /\ g.secret = IF w[q].secrets # {} THEN req[q].secret ELSE h.secret
      BY <2>6, <2>8, <3>1
    <3>3. Last(q, g.id)' /\ req'[q] = req[q]
      BY <2>1, <2>2, <2>3, <2>4, <2>8
    <3>4. CASE g.secret = req[q].secret
      <4>1. Held(g)'
        <5> HIDE DEF Last
        <5> QED BY <3>3, <3>4
      <4>2. \A p \in Requests : Safe(p, g)'
        <5> HIDE DEF Last
        <5> QED BY <2>2, <2>3, <3>3, <3>4
      <4> QED BY <4>1, <4>2
    <3>5. CASE g.secret # req[q].secret
      <4>1. Silent(q) /\ g.secret = h.secret
        BY <2>1, <2>8, <3>2, <3>5
      <4>2. PICK x : Last(x, h.id) /\ h.secret = req[x].secret /\ ~Before(x, q)
        BY <1>1, <2>8, <3>2, <3>5, <4>1
      <4>3. \A p : Last(p, h.id) /\ ~Before(p, q) => Last(p, g.id)'
        <5>1. \A p : Setter(p, g.id)' <=> Setter(p, h.id) \/ p = q
          BY <2>4, <2>8, <3>2
        <5> HIDE DEF Setter
        <5> QED BY <2>2, <5>1
      <4>4. Held(g)'
        <5>1. Last(x, g.id)' /\ g.secret = req'[x].secret
          BY <2>1, <4>1, <4>2, <4>3
        <5> HIDE DEF Last
        <5> QED BY <5>1
      <4>5. ASSUME NEW p \in Requests, Silent(p)', g.id = req'[p].host
            PROVE  Safe(p, g)'
        <5>1. Silent(p) /\ h.id = req[p].host
          BY <2>1, <3>2, <4>5
        <5>2. CASE h.secret = req[p].secret
          BY <2>1, <4>1, <5>2
        <5>3. ASSUME NEW y, Last(y, h.id), h.secret = req[y].secret, ~Before(y, p)
              PROVE  Safe(p, g)'
          <6>1. CASE ~Before(y, q)
            <7>1. Last(y, g.id)' /\ g.secret = req'[y].secret /\ ~Before(y, p)'
              BY <2>1, <2>2, <4>1, <4>3, <5>3, <6>1
            <7> HIDE DEF Last
            <7> QED BY <7>1
          <6>2. CASE Before(y, q)
            \* y was answered before q came, and not before p did: what p has seen, q
            \* has seen.
            <7>1. x \in Requests /\ y \in Requests /\ x # Seed /\ y # Seed
              BY <4>2, <5>3, CredentialsAssumption
            <7>2. p # Seed /\ q # Seed
              BY CredentialsAssumption
            <7>3. y \in prior[q] /\ y \notin prior[p]
              BY <5>3, <6>2, <7>1, <7>2 DEF Before
            <7>4. prior[p] \subseteq prior[q]
              BY <7>3 DEF PriorsNested
            <7>5. ~Before(x, p)
              BY <4>2, <7>1, <7>2, <7>4 DEF Before
            <7>6. Last(x, g.id)' /\ g.secret = req'[x].secret /\ ~Before(x, p)'
              BY <2>1, <2>2, <4>1, <4>2, <4>3, <7>5
            <7> HIDE DEF Last
            <7> QED BY <7>6
          <6> QED BY <6>1, <6>2
        <5> QED BY <1>1, <5>1, <5>2, <5>3
      <4> QED BY <4>4, <4>5
    <3> QED BY <3>4, <3>5
  <2>9. \A p \in Requests : w'[p].secrets # {} => Written(p)'
    BY <1>1, <2>1
  <2> HIDE DEF Held, Written, Silent, Safe
  <2> QED BY <1>2, <2>7, <2>8, <2>9
<1>7. CASE (\E u \in users : Adjust(u)) \/ (\E t \in tokens : Expire(t))
  BY <1>7, OutsideForm DEF SecretsSet, SetBy, LastSetters, Setters, Ok, Before
<1>8. CASE UNCHANGED vars
  BY <1>8 DEF vars, database, SecretsSet, SetBy, LastSetters, Setters, Ok, Before
<1> QED BY <1>4, <1>5, <1>6, <1>7, <1>8 DEF Next

\* The Sunshine token of a host is one that was asked for by a request no other came
\* after: not writing a value that equals the one loaded loses nobody's later value.
THEOREM SecretsOfLast == Spec => []SecretOfLast
<1>1. Init => PriorsNested /\ SecretsSet
  <2> SUFFICES ASSUME Init
               PROVE  PriorsNested /\ SecretsSet
    OBVIOUS
  <2>1. \A q \in Requests : w[q].secrets = {} /\ prior[q] = {} /\ pc[q] = "idle"
    BY DEF Init, NoWrites
  <2> QED BY <2>1 DEF PriorsNested, SecretsSet, Setters, Ok
<1>2. SecretsSet => SecretOfLast
  BY DEF SecretsSet, SecretOfLast, SetBy
<1> QED BY <1>1, <1>2, LedgerKept, PriorsNext, SecretsNext, PTL DEF Spec

-----------------------------------------------------------------------------
(* What the audit log tells of the sessions.                               *)

\* What the statements of a handler have in hand for the audit log.
LEMMA AuditMove ==
    ASSUME TypeInv, Ledger, AuditTrue, NEW q \in Requests, Step(q) \/ Fail(q), ~Commit(q)
    PROVE  AuditOpen(q)' /\ (LogoutRow(q)' => EndSession(q))
<1>1. /\ w[q] \in Writes /\ AuditOpen(q)
      /\ Own(q) /\ Own(q)'
      /\ tokens' = tokens /\ req' = req
  <2>1. Next
    BY DEF Next
  <2>2. Ledger'
    BY <2>1, LedgerNext
  <2> QED BY <2>2, WritesMove DEF Ledger, AuditTrue, TypeInv, TypeOK, database
<1>2. w'[q].audit = {} /\ w'[q].revokes = {} /\ w'[q].tokens = {}
        => AuditOpen(q)' /\ ~LogoutRow(q)'
  BY DEF AuditOpen, LogoutRow, LoginRow
<1>3. \A answer : Rollback(q, answer) => AuditOpen(q)' /\ ~LogoutRow(q)'
  BY <1>2 DEF Rollback, NoWrites, TypeInv, TypeOK
<1>4. w'[q].audit = {} /\ req[q].kind \notin {"login", "logout"}
        => AuditOpen(q)' /\ ~LogoutRow(q)'
  <2>1. req[q].kind # "login" => \A t \in w'[q].tokens : t.purpose # "session"
    BY <1>1 DEF Own, TokenWritten
  <2> QED BY <1>1, <2>1 DEF AuditOpen, LogoutRow, LoginRow
<1>5. pc[q] # "commit" => w[q].audit = {}
  BY <1>1 DEF AuditOpen
<1>6. \A step, writes : Write(q, step, writes) => pc'[q] = step /\ w'[q] = writes
  BY DEF Write, TypeInv, TypeOK
<1>7. CASE Upsert(q)
  <2> DEFINE user == IF RowOf(req[q].person) = {} THEN q
                     ELSE (CHOOSE u \in RowOf(req[q].person) : TRUE).id
             account == IF user = q
                        THEN {[id |-> q, person |-> req[q].person,
                               role |-> req[q].role, active |-> TRUE]} ELSE {}
             failure == [by |-> q, action |-> "login_failure", actor |-> Nobody]
             success == [by |-> q, action |-> "login_success", actor |-> user]
             rejected == [w[q] EXCEPT !.audit = {failure}]
             written == [w[q] EXCEPT !.users = account, !.tokens = {Session(q, user)},
                                     !.audit = {success}]
  <2>1. Write(q, "commit", rejected) \/ Write(q, "commit", written)
    BY <1>7 DEF Upsert
  <2>2. /\ pc[q] = "upsert" /\ req[q].kind = "login"
        /\ ~req[q].valid => Write(q, "commit", rejected)
        /\ req[q].valid => Write(q, "commit", written)
    BY <1>7 DEF Upsert, TypeInv, Fits, LoginRequest
  <2>3. /\ rejected.audit = {failure} /\ rejected.tokens = w[q].tokens
        /\ written.audit = {success} /\ written.tokens = {Session(q, user)}
    BY <1>1 DEF Writes
  <2>4. /\ failure.by = q /\ failure.action = "login_failure"
        /\ success.by = q /\ success.action = "login_success"
        /\ Session(q, user).purpose = "session"
    BY DEF Session
  <2>5. w[q].tokens = {}
    BY <1>1, <2>2 DEF Own, TokenWritten
  <2> HIDE DEF user, account, failure, success, rejected, written
  <2> QED BY <1>1, <1>6, <2>1, <2>2, <2>3, <2>4, <2>5 DEF AuditOpen, LoginRow, LogoutRow
<1>8. CASE EndSession(q)
  <2> DEFINE key == <<"session", req[q].cookie>>
             row == [by |-> q, action |-> "logout", actor |-> who[q]]
             written == [w[q] EXCEPT !.revokes = {key}, !.audit = {row}]
  <2>1. /\ pc[q] = "end" /\ req[q].kind = "logout"
        /\ \/ Rollback(q, "ok")
           \/ /\ Write(q, "commit", written)
              /\ \E t \in Named("session", req[q].cookie) : ~t.revoked
    BY <1>1, <1>8 DEF EndSession, Own, Came
  <2>2. /\ written.revokes = {key} /\ written.audit = {row}
        /\ written.tokens = {}
    <3>1. w[q].tokens = {}
      BY <1>1, <2>1 DEF Own, TokenWritten
    <3> HIDE DEF key
    <3> QED BY <1>1, <3>1 DEF Writes
  <2>3. row.by = q /\ row.action = "logout"
    OBVIOUS
  <2> HIDE DEF row, written
  <2>4. CASE Write(q, "commit", written)
    <3>1. pc'[q] = "commit" /\ w'[q] = written
      BY <1>6, <2>4
    <3>2. \A p : Named("session", p)' = Named("session", p)
      BY <1>1 DEF Named
    <3> QED BY <1>1, <1>3, <1>8, <2>1, <2>2, <2>3, <3>1, <3>2
        DEF AuditOpen, LoginRow, LogoutRow
  <2> QED BY <1>3, <1>8, <2>1, <2>4
<1>9. CASE Fail(q)
  BY <1>3, <1>9 DEF Fail
<1>10. CASE InsertHost(q)
  BY <1>1, <1>3, <1>4, <1>5, <1>6, <1>10 DEF InsertHost, Own, Came, Writes
<1>11. CASE Scan(q)
  BY <1>1, <1>4, <1>5, <1>11 DEF Scan, Own, Came
<1>12. CASE RevokeAndMint(q)
  BY <1>1, <1>4, <1>5, <1>6, <1>12 DEF RevokeAndMint, Own, Came, Writes
<1>13. CASE LoadHost(q) \/ UpdateHost(q)
  <2>1. req[q].kind = "sunshine" /\ pc[q] # "commit"
    BY <1>13 DEF LoadHost, UpdateHost, TypeInv, Fits, SecretRequest
  <2>2. w'[q].audit = w[q].audit
    BY <1>1, <1>6, <1>13 DEF LoadHost, UpdateHost, Writes
  <2> QED BY <1>4, <1>5, <2>1, <2>2
<1> QED BY <1>7, <1>8, <1>9, <1>10, <1>11, <1>12, <1>13 DEF Step

\* An open transaction that ends a session is the only one to do so, and nobody else
\* ends it meanwhile.
LEMMA AuditStands ==
    ASSUME TypeInv, Ledger, Next, NEW p \in Requests, AuditOpen(p),
           pc'[p] = pc[p], req'[p] = req[p], w'[p] = w[p],
           \A t \in tokens : LogoutRow(p) /\ JtiOf(t) = <<"session", req[p].cookie>>
              /\ ~t.revoked => \E s \in tokens' : JtiOf(s) = JtiOf(t) /\ ~s.revoked
    PROVE  AuditOpen(p)' /\ (LogoutRow(p)' <=> LogoutRow(p))
BY DEF AuditOpen, LogoutRow, LoginRow, Named

\* The committed rows tell the same while neither they nor the sessions change.
LEMMA AuditRowsStand ==
    ASSUME TypeInv, Ledger, Next, AuditRows, audit' = audit,
           \A p \in Requests : pc[p] = "ok" => req'[p] = req[p],
           \A t \in tokens' : \E s \in tokens : Marked(s, t, {}),
           \A s \in tokens : \E t \in tokens' : Marked(s, t, {})
    PROVE  AuditRows'
<1>1. \A i : Answered(i) => Answered(i)'
  BY AnswersStand
<1>2. \A a \in audit : a.by \in Requests
  BY DEF TypeInv, TypeOK, Audit
<1>3. \A a \in audit : a.action = "logout" => req'[a.by] = req[a.by]
  BY <1>2, CredentialsAssumption DEF AuditRows, Answered
<1>4. \A a \in audit : \A i : Ends(a, i)' <=> Ends(a, i)
  BY <1>3 DEF Ends
<1>5. \A t \in tokens' : \E s \in tokens :
         s.id = t.id /\ s.purpose = t.purpose /\ (s.revoked <=> t.revoked)
  BY DEF Marked
<1>6. \A s \in tokens : \E t \in tokens' :
         s.id = t.id /\ s.purpose = t.purpose /\ (s.revoked <=> t.revoked)
  BY DEF Marked
<1>7. /\ \A a \in audit' : a.action = "login_success" =>
            \E t \in tokens' : t.purpose = "session" /\ t.id = a.by
      /\ \A t \in tokens' : t.purpose = "session" =>
            t.id = Seed \/ \E a \in audit' : a.action = "login_success" /\ a.by = t.id
      /\ \A a \in audit' : a.action = "login_success" => a.by # Seed
  <2>1. /\ \A a \in audit : a.action = "login_success" =>
              \E t \in tokens : t.purpose = "session" /\ t.id = a.by
        /\ \A t \in tokens : t.purpose = "session" =>
              t.id = Seed \/ \E a \in audit : a.action = "login_success" /\ a.by = t.id
        /\ \A a \in audit : a.action = "login_success" => a.by # Seed
    BY DEF AuditRows
  <2>2. \A a \in audit' : a.action = "login_success" =>
           \E t \in tokens' : t.purpose = "session" /\ t.id = a.by
    BY <1>6, <2>1
  <2>3. \A t \in tokens' : t.purpose = "session" =>
           t.id = Seed \/ \E a \in audit' : a.action = "login_success" /\ a.by = t.id
    BY <1>5, <2>1
  <2> QED BY <2>1, <2>2, <2>3
<1>8. \A a \in audit' : a.action = "logout" =>
         (Answered(a.by) /\ req[a.by].kind = "logout" /\ Answered(req[a.by].cookie))'
  <2>1. SUFFICES ASSUME NEW a \in audit, a.action = "logout"
                 PROVE  (/\ Answered(a.by) /\ req[a.by].kind = "logout"
                         /\ Answered(req[a.by].cookie))'
    OBVIOUS
  <2>2. PICK c : c = req[a.by].cookie
    OBVIOUS
  <2>3. Answered(a.by) /\ req[a.by].kind = "logout" /\ Answered(c)
    BY <2>1, <2>2 DEF AuditRows
  <2>4. Answered(a.by)' /\ Answered(c)'
    BY <1>1, <2>3
  <2>5. req'[a.by].kind = "logout" /\ req'[a.by].cookie = c
    BY <1>3, <2>1, <2>2, <2>3
  <2> QED BY <2>4, <2>5 DEF Answered
<1>9. /\ \A a, b \in audit' : \A i : Ends(a, i)' /\ Ends(b, i)' => a = b
      /\ \A t \in tokens' : t.purpose = "session" =>
            (t.revoked <=> \E a \in audit' : Ends(a, t.id)')
  BY <1>4, <1>5 DEF AuditRows
<1> QED BY <1>7, <1>8, <1>9 DEF AuditRows, Ends

\* A session has a row for its start and, once it is revoked, one for its end, which
\* is that of the one logout that had it in hand.
LEMMA AuditCommit ==
    ASSUME TypeInv, Ledger, AuditTrue, NEW q \in Requests, Commit(q)
    PROVE  AuditTrue'
<1>1. /\ Next /\ AuditRows /\ LogoutsApart /\ AuditOpen(q)
      /\ Own(q) /\ req' = req /\ audit' = audit \cup w[q].audit
  BY DEF Next, Step, AuditTrue, Ledger, Commit
<1>2. \A i : Answered(i) => Answered(i)'
  BY <1>1, AnswersStand
<1>3. /\ ~Answered(q) /\ q # Seed
      /\ pc'[q] = IF req[q].kind = "login" /\ ~req[q].valid THEN "refused" ELSE "ok"
  BY CredentialsAssumption DEF Commit, Answered, TypeInv, TypeOK
<1>4. \A t \in w[q].tokens : t.id = q /\ ~t.revoked
  BY <1>1 DEF Own, TokenWritten
<1>5. \A t \in tokens' : t \in w[q].tokens \/ \E s \in tokens :
         /\ s.id = t.id /\ s.purpose = t.purpose
         /\ t.revoked <=> s.revoked \/ JtiOf(s) \in w[q].revokes
  BY CommitTokens DEF Marked
<1>6. \A s \in tokens : \E t \in tokens' :
         /\ t.id = s.id /\ t.purpose = s.purpose /\ JtiOf(t) = JtiOf(s)
         /\ t.revoked <=> s.revoked \/ JtiOf(s) \in w[q].revokes
  BY CommitTokens DEF Marked
<1>7. \A s \in tokens : s.purpose = "session" =>
         (JtiOf(s) \in w[q].revokes <=> LogoutRow(q) /\ s.id = req[q].cookie)
  <2>1. \A k \in w[q].revokes : k[1] = "agent" \/ req[q].kind = "logout"
    BY <1>1 DEF Own, Revoking
  <2> QED BY <1>1, <2>1 DEF AuditOpen, JtiOf
<1>8. LogoutRow(q) => /\ req[q].kind = "logout" /\ Answered(req[q].cookie)
                      /\ \E s \in tokens : /\ s.purpose = "session" /\ ~s.revoked
                                           /\ s.id = req[q].cookie
  BY <1>1 DEF AuditOpen, Own, Came, Named, JtiOf
<1>9. \A a \in w[q].audit : a.by = q /\ \A b \in w[q].audit : a = b
  BY <1>1 DEF AuditOpen
<1>10. \A a \in audit : a.action = "logout" =>
          Answered(a.by) /\ req[a.by].kind = "logout" /\ Answered(req[a.by].cookie)
  BY <1>1 DEF AuditRows
<1>11. \A t \in tokens : t.purpose = "session" =>
          (t.revoked <=> \E a \in audit : Ends(a, t.id))
  BY <1>1 DEF AuditRows
<1>12. \A a \in w[q].audit : \A i : Ends(a, i) <=> a.action = "logout" /\ req[q].cookie = i
  BY <1>9 DEF Ends
<1>13. \A a, i : Ends(a, i)' <=> Ends(a, i)
  BY <1>1 DEF Ends
<1>14. \A a \in audit' : \A i : Ends(a, i) => a \in audit \/ (LogoutRow(q) /\ i = req[q].cookie)
  BY <1>1, <1>12 DEF LogoutRow, Ends
<1>15. AuditRows'
  <2>1. \A a \in audit' : a.action = "login_success" =>
           \E t \in tokens' : t.purpose = "session" /\ t.id = a.by
    <3>1. SUFFICES ASSUME NEW a \in audit', a.action = "login_success"
                   PROVE  \E t \in tokens' : t.purpose = "session" /\ t.id = a.by
      OBVIOUS
    <3>2. CASE a \in audit
      <4>1. PICK s \in tokens : s.purpose = "session" /\ s.id = a.by
        BY <1>1, <3>1, <3>2 DEF AuditRows
      <4> QED BY <1>6, <4>1
    <3>3. CASE a \in w[q].audit
      <4>1. PICK t \in w[q].tokens : t.purpose = "session"
        BY <1>1, <3>1, <3>3 DEF AuditOpen, LoginRow
      <4> QED BY <1>4, <1>9, <3>3, <4>1, CommitTokens
    <3> QED BY <1>1, <3>2, <3>3
  <2>2. \A t \in tokens' : t.purpose = "session" =>
           t.id = Seed \/ \E a \in audit' : a.action = "login_success" /\ a.by = t.id
    <3>1. SUFFICES ASSUME NEW t \in tokens', t.purpose = "session", t.id # Seed
                   PROVE  \E a \in audit' : a.action = "login_success" /\ a.by = t.id
      OBVIOUS
    <3>2. CASE t \in w[q].tokens
      <4>1. LoginRow(q)
        BY <1>1, <3>1, <3>2 DEF AuditOpen
      <4> QED BY <1>1, <1>4, <1>9, <3>2, <4>1 DEF LoginRow
    <3>3. CASE \E s \in tokens : s.id = t.id /\ s.purpose = t.purpose
      BY <1>1, <3>1, <3>3 DEF AuditRows
    <3> QED BY <1>5, <3>2, <3>3
  <2>3. \A a \in audit' : a.action = "login_success" => a.by # Seed
    BY <1>1, <1>3, <1>9 DEF AuditRows
  <2>4. \A a \in audit' : a.action = "logout" =>
           (Answered(a.by) /\ req[a.by].kind = "logout" /\ Answered(req[a.by].cookie))'
    <3>1. SUFFICES ASSUME NEW a \in audit', a.action = "logout"
                   PROVE  (/\ Answered(a.by) /\ req[a.by].kind = "logout"
                           /\ Answered(req[a.by].cookie))'
      OBVIOUS
    <3>2. PICK c : c = req[a.by].cookie
      OBVIOUS
    <3>3. a \in w[q].audit => LogoutRow(q)
      BY <3>1 DEF LogoutRow
    <3>4. req[a.by].kind = "logout" /\ Answered(c)
      BY <1>1, <1>8, <1>9, <1>10, <3>1, <3>2, <3>3
    <3>5. Answered(a.by)'
      <4>1. CASE a \in audit
        BY <1>2, <1>10, <3>1, <4>1
      <4>2. CASE a \in w[q].audit
        BY <1>3, <1>9, <3>4, <4>2 DEF Answered
      <4> QED BY <1>1, <4>1, <4>2
    <3>6. Answered(c)'
      BY <1>2, <3>4
    <3> QED BY <1>1, <3>2, <3>4, <3>5, <3>6 DEF Answered
  <2>5. \A a, b \in audit' : \A i : Ends(a, i) /\ Ends(b, i) => a = b
    <3>1. SUFFICES ASSUME NEW a \in audit', NEW b \in audit', NEW i, Ends(a, i), Ends(b, i)
                   PROVE  a = b
      OBVIOUS
    <3>2. a \in audit /\ b \in audit => a = b
      BY <1>1, <3>1 DEF AuditRows
    <3>3. LogoutRow(q) => \A e \in audit : ~Ends(e, req[q].cookie)
      BY <1>8, <1>11
    <3> QED BY <1>1, <1>9, <1>12, <1>14, <3>1, <3>2, <3>3
  <2>6. \A t \in tokens' : t.purpose = "session" =>
           (t.revoked <=> \E a \in audit' : Ends(a, t.id))
    <3>1. SUFFICES ASSUME NEW t \in tokens', t.purpose = "session"
                   PROVE  t.revoked <=> \E a \in audit' : Ends(a, t.id)
      OBVIOUS
    <3>2. CASE t \in w[q].tokens
      <4>1. \A a \in audit : ~Ends(a, q)
        BY <1>3, <1>10 DEF Ends
      <4> QED BY <1>3, <1>4, <1>8, <1>14, <3>2, <4>1
    <3>3. ASSUME NEW s \in tokens, s.id = t.id, s.purpose = t.purpose,
                 t.revoked <=> s.revoked \/ JtiOf(s) \in w[q].revokes
          PROVE  t.revoked <=> \E a \in audit' : Ends(a, t.id)
      <4>1. LogoutRow(q) => \E a \in audit' : Ends(a, req[q].cookie)
        BY <1>1, <1>12 DEF LogoutRow
      <4>2. t.revoked <=> s.revoked \/ (LogoutRow(q) /\ t.id = req[q].cookie)
        BY <1>7, <3>1, <3>3
      <4>3. s.revoked <=> \E a \in audit : Ends(a, t.id)
        BY <1>11, <3>1, <3>3
      <4> QED BY <1>1, <1>14, <4>1, <4>2, <4>3
    <3> QED BY <1>5, <3>2, <3>3
  <2> QED BY <1>13, <2>1, <2>2, <2>3, <2>4, <2>5, <2>6 DEF AuditRows
<1>16. /\ AuditOpen(q)' /\ ~LogoutRow(q)'
       /\ \A p \in Requests \ {q} : pc'[p] = pc[p] /\ w'[p] = w[p]
  BY DEF Commit, TypeInv, TypeOK, AuditOpen, LogoutRow, LoginRow, NoWrites
<1>17. \A p \in Requests \ {q} : AuditOpen(p)' /\ (LogoutRow(p)' <=> LogoutRow(p))
  <2>1. SUFFICES ASSUME NEW p \in Requests \ {q}
                 PROVE  AuditOpen(p)' /\ (LogoutRow(p)' <=> LogoutRow(p))
    OBVIOUS
  <2>2. ASSUME NEW t \in tokens, LogoutRow(p), JtiOf(t) = <<"session", req[p].cookie>>,
               ~t.revoked
        PROVE  \E s \in tokens' : JtiOf(s) = JtiOf(t) /\ ~s.revoked
    <3>1. t.purpose = "session" /\ t.id = req[p].cookie
      BY <2>2 DEF JtiOf
    <3>2. JtiOf(t) \notin w[q].revokes
      BY <1>1, <1>7, <2>1, <2>2, <3>1 DEF LogoutsApart
    <3> QED BY <1>6, <2>2, <3>2
  <2>3. pc'[p] = pc[p] /\ req'[p] = req[p] /\ w'[p] = w[p] /\ AuditOpen(p)
    BY <1>1, <1>16, <2>1 DEF AuditTrue
  <2> QED BY <1>1, <2>1, <2>2, <2>3, AuditStands
<1>18. LogoutsApart'
  BY <1>1, <1>16, <1>17 DEF LogoutsApart
<1> QED BY <1>15, <1>16, <1>17, <1>18 DEF AuditTrue

\* Every step keeps what the audit log and the sessions tell of each other.
LEMMA AuditNext == TypeInv /\ Ledger /\ AuditTrue /\ [Next]_vars => AuditTrue'
<1> SUFFICES ASSUME TypeInv, Ledger, AuditTrue, [Next]_vars
             PROVE  AuditTrue'
  OBVIOUS
<1>1. CASE UNCHANGED vars
  BY <1>1
  DEF vars, database, AuditTrue, AuditRows, AuditOpen, LogoutsApart, LogoutRow, LoginRow,
      Ends, Answered, Named, JtiOf
<1>2. SUFFICES ASSUME Next
               PROVE  AuditTrue'
  BY <1>1
<1>3. AuditRows /\ LogoutsApart /\ \A p \in Requests : AuditOpen(p)
  BY DEF AuditTrue
<1>4. \A t \in tokens : Marked(t, t, {})
  BY DEF Marked
<1>5. ASSUME NEW q \in Requests, Arrive(q)
      PROVE  AuditTrue'
  <2>1. PICK r, user, step : Begin(q, r, user, step)
    BY <1>5, ArriveForm
  <2>2. /\ UNCHANGED <<tokens, audit, w>> /\ pc[q] = "idle"
        /\ \A p \in Requests \ {q} : pc'[p] = pc[p] /\ req'[p] = req[p]
    BY <2>1 DEF Begin, database, TypeInv, TypeOK
  <2>3. AuditRows'
    BY <1>2, <1>3, <1>4, <2>2, AuditRowsStand
  <2>4. \A p \in Requests \ {q} : AuditOpen(p)' /\ (LogoutRow(p)' <=> LogoutRow(p))
    BY <1>2, <1>3, <2>2, AuditStands
  <2>5. AuditOpen(q)' /\ ~LogoutRow(q)'
    <3>1. w'[q] = NoWrites
      BY <2>2 DEF TypeInv, Fits, Steps
    <3> QED BY <3>1 DEF AuditOpen, LogoutRow, LoginRow, NoWrites
  <2>6. LogoutsApart'
    BY <1>3, <2>2, <2>4, <2>5 DEF LogoutsApart
  <2> QED BY <2>3, <2>4, <2>5, <2>6 DEF AuditTrue
<1>6. ASSUME NEW q \in Requests, Step(q) \/ Fail(q), ~Commit(q)
      PROVE  AuditTrue'
  <2>1. /\ UNCHANGED <<tokens, audit, req>>
        /\ \A p \in Requests \ {q} : pc'[p] = pc[p] /\ w'[p] = w[p]
    BY <1>6, WritesMove DEF database
  <2>2. AuditRows'
    BY <1>2, <1>3, <1>4, <2>1, AuditRowsStand
  <2>3. \A p \in Requests \ {q} : AuditOpen(p)' /\ (LogoutRow(p)' <=> LogoutRow(p))
    BY <1>2, <1>3, <2>1, AuditStands
  <2>4. AuditOpen(q)' /\ (LogoutRow(q)' => EndSession(q))
    BY <1>6, AuditMove
  <2>5. ASSUME NEW p \in Requests \ {q}, LogoutRow(p), LogoutRow(q)'
        PROVE  req[p].cookie # req[q].cookie
    <3>1. pc[p] = "commit" /\ w[p].revokes = {<<"session", req[p].cookie>>}
      BY <1>3, <2>5 DEF AuditOpen, LogoutRow
    <3>2. ~TokensLocked(q, {<<"session", req[q].cookie>>})
      BY <2>4, <2>5 DEF EndSession
    <3>3. p \in Others(q)
      BY <3>1 DEF Others, Open, Steps
    <3>4. <<"session", req[q].cookie>> \notin w[p].revokes
      BY <3>2, <3>3 DEF TokensLocked
    <3> QED BY <3>1, <3>4
  <2>6. LogoutsApart'
    BY <1>3, <2>1, <2>3, <2>5 DEF LogoutsApart
  <2> QED BY <2>2, <2>3, <2>4, <2>6 DEF AuditTrue
<1>7. CASE (\E u \in users : Adjust(u)) \/ (\E t \in tokens : Expire(t))
  <2>1. UNCHANGED <<audit, pc, req, w>>
    BY <1>7, OutsideForm
  <2>2. /\ \A t \in tokens' : \E s \in tokens : Marked(s, t, {})
        /\ \A s \in tokens : \E t \in tokens' : Marked(s, t, {})
    BY <1>4, <1>7, OutsideForm
  <2>3. AuditRows'
    BY <1>2, <1>3, <2>1, <2>2, AuditRowsStand
  <2>4. \A s \in tokens : ~s.revoked => \E t \in tokens' : JtiOf(t) = JtiOf(s) /\ ~t.revoked
    BY <2>2 DEF Marked
  <2>5. \A p \in Requests : AuditOpen(p)' /\ (LogoutRow(p)' <=> LogoutRow(p))
    BY <1>2, <1>3, <2>1, <2>4, AuditStands
  <2>6. LogoutsApart'
    BY <1>3, <2>1, <2>5 DEF LogoutsApart
  <2> QED BY <2>3, <2>5, <2>6 DEF AuditTrue
<1> QED BY <1>2, <1>5, <1>6, <1>7, AuditCommit DEF Next

\* The audit log tells the story of the sessions: each has its login, and one logout,
\* however many raced for it, if and only if it was ended.
THEOREM SessionsAreRecorded == Spec => []SessionsRecorded
<1>1. Init => AuditTrue
  <2> SUFFICES ASSUME Init
               PROVE  AuditTrue
    OBVIOUS
  <2>1. /\ audit = {} /\ \A q \in Requests : w[q] = NoWrites
        /\ \A t \in tokens : t.purpose = "session" => t.id = Seed /\ ~t.revoked
    BY DEF Init, Session, AgentToken
  <2>2. AuditRows
    BY <2>1 DEF AuditRows
  <2>3. LogoutsApart /\ \A q \in Requests : AuditOpen(q)
    BY <2>1 DEF LogoutsApart, AuditOpen, LogoutRow, LoginRow, NoWrites
  <2> QED BY <2>2, <2>3 DEF AuditTrue
<1>2. AuditTrue => SessionsRecorded
  <2> SUFFICES ASSUME AuditRows
               PROVE  SessionsRecorded
    BY DEF AuditTrue
  <2>1. {a.by : a \in {x \in audit : x.action = "login_success"}} = Cookies \ {Seed}
    <3>1. \A a \in audit : a.action = "login_success" => a.by \in Cookies \ {Seed}
      BY DEF AuditRows, Cookies
    <3>2. \A t \in tokens : t.purpose = "session" =>
             t.id = Seed \/ \E a \in audit : a.action = "login_success" /\ a.by = t.id
      BY DEF AuditRows
    <3>3. \A i \in Cookies \ {Seed} :
             \E a \in audit : a.action = "login_success" /\ a.by = i
      BY <3>2 DEF Cookies
    <3> QED BY <3>1, <3>3
  <2>2. ASSUME NEW t \in tokens, t.purpose = "session"
        PROVE  Cardinality({a \in audit : a.action = "logout" /\ req[a.by].cookie = t.id})
                 = IF t.revoked THEN 1 ELSE 0
    <3> DEFINE rows == {a \in audit : a.action = "logout" /\ req[a.by].cookie = t.id}
    <3>1. \A a \in audit : a \in rows <=> Ends(a, t.id)
      BY DEF Ends
    <3>2. t.revoked <=> \E a \in audit : Ends(a, t.id)
      BY <2>2 DEF AuditRows
    <3>3. \A a, b \in rows : a = b
      BY <3>1 DEF AuditRows
    <3>4. rows \subseteq audit
      OBVIOUS
    <3> HIDE DEF rows
    <3>5. CASE t.revoked
      <4>1. PICK a : rows = {a}
        BY <3>1, <3>2, <3>3, <3>4, <3>5
      <4> QED BY <3>5, <4>1, FS_Singleton DEF rows
    <3>6. CASE ~t.revoked
      <4>1. rows = {}
        BY <3>1, <3>2, <3>4, <3>6
      <4> QED BY <3>6, <4>1, FS_EmptySet DEF rows
    <3> QED BY <3>5, <3>6
  <2> QED BY <2>1, <2>2 DEF SessionsRecorded
<1> QED BY <1>1, <1>2, LedgerKept, AuditNext, PTL DEF Spec
=============================================================================
