---------------------------- MODULE Credentials ----------------------------
(***************************************************************************)
(* Who a request speaks for: users and their login sessions, the agent     *)
(* tokens of hosts, and what administrators do to hosts.                   *)
(*                                                                         *)
(* A request q runs one handler of api/v1/auth.py, api/v1/hosts.py or      *)
(* api/v1/agents.py.  AuthSessionMiddleware identifies the user of a       *)
(* cookie in a transaction of its own before the handler starts; the       *)
(* handler then runs statement by statement under READ COMMITTED.  What q  *)
(* has written is private (w[q]) until Commit; a row q wrote is locked     *)
(* against other writers meanwhile.  A row has the id of the request that  *)
(* inserted it; the rows there at the start have the id Seed.              *)
(*                                                                         *)
(* Tokens are named by id: the cookie or bearer string and its sha256 are  *)
(* one to one.  A request comes when it is identified.  One for a host     *)
(* that is not there is answered 404 and writes nothing: it is not shown.  *)
(***************************************************************************)
EXTENDS FiniteSets

CONSTANTS
    Requests,        \* HTTP requests, each serving one call
    Seed,            \* the id of the first administrator, host and tokens
    People,          \* pairs (provider, external_id)
    Root,            \* the person who is the first administrator
    Hostnames,
    FirstName,       \* the name of the first host
    Secrets,         \* values of sunshine_broker_token
    Kinds,           \* the kinds of request that arrive
    Adjustments      \* what administrators set users' role and is_active to

Roles == {"user", "admin"}

Standing == [role: Roles, active: BOOLEAN]

ASSUME CredentialsAssumption ==
    /\ Seed \notin Requests
    /\ Root \in People /\ FirstName \in Hostnames /\ Secrets # {}
    /\ Kinds \subseteq {"login", "logout", "me", "create", "rotate", "sunshine", "heartbeat"}
    /\ Adjustments \subseteq Standing

VARIABLES
    users, tokens, hosts,  \* the committed rows of the tables
    audit,                 \* the committed rows of audit_logs
    pc,                    \* where each request stands: its next statement, or its answer
    req,                   \* its arguments
    who,                   \* request.state.user: the row id, or nobody
    scan,                  \* the tokens its revoking UPDATE has found
    w,                     \* what its open transaction has written
    prior,                 \* history: the requests answered "ok" before it came
    granted                \* history: the standing last given to each user

database == <<users, tokens, hosts, audit>>
vars     == <<database, pc, req, who, scan, w, prior, granted>>

-----------------------------------------------------------------------------
Ids == Requests \cup {Seed}

Nobody == "nobody"
NoHost == "no host"        \* host_id IS NULL: a session is of no host

User  == [id: Ids, person: People, role: Roles, active: BOOLEAN]
Token == [id: Ids, purpose: {"session", "agent"}, user: Ids, host: Ids \cup {NoHost},
          revoked: BOOLEAN, expired: BOOLEAN]
Host  == [id: Ids, name: Hostnames, secret: Secrets]
Audit == [by: Requests, action: {"login_success", "login_failure", "logout"},
          actor: Ids \cup {Nobody}]

\* valid: the identity provider accepts what the form carries.
LoginRequest  == [kind: {"login"}, person: People, role: Roles, valid: BOOLEAN]
CookieRequest == [kind: {"logout", "me"}, cookie: Ids]
CreateRequest == [kind: {"create"}, cookie: Ids, name: Hostnames, secret: Secrets]
RotateRequest == [kind: {"rotate"}, cookie: Ids, host: Ids]
SecretRequest == [kind: {"sunshine"}, cookie: Ids, host: Ids, secret: Secrets]
BeatRequest   == [kind: {"heartbeat"}, bearer: Ids]

Request == LoginRequest \cup CookieRequest \cup CreateRequest \cup RotateRequest
             \cup SecretRequest \cup BeatRequest

NoRequest == [kind |-> "none"]

\* A request inserts one token at most, so its purpose and its id name it.
Jti == {"session", "agent"} \X Ids

Writes == [users: SUBSET User, tokens: SUBSET Token, revokes: SUBSET Jti,
           hosts: SUBSET Host, secrets: SUBSET (Ids \X Secrets), audit: SUBSET Audit]

NoWrites == [users |-> {}, tokens |-> {}, revokes |-> {}, hosts |-> {},
             secrets |-> {}, audit |-> {}]

\* "ok" is a 2xx, "conflict" a 409, "refused" any other answer of the handler,
\* "failed" a request whose transaction was lost.
Answers == {"ok", "refused", "conflict", "failed"}
Steps   == {"upsert", "end", "host", "scan", "mint", "load", "update", "commit"}

TypeOK ==
    /\ users \subseteq User /\ tokens \subseteq Token
    /\ hosts \subseteq Host /\ audit \subseteq Audit
    /\ pc \in [Requests -> {"idle"} \cup Steps \cup Answers]
    /\ req \in [Requests -> Request \cup {NoRequest}]
    /\ who \in [Requests -> Ids \cup {Nobody}]
    /\ scan \in [Requests -> SUBSET Jti]
    /\ w \in [Requests -> Writes]
    /\ prior \in [Requests -> SUBSET Requests]
    /\ DOMAIN granted = {u.id : u \in users}
    /\ \A i \in DOMAIN granted : granted[i] \in Standing

Session(i, user) == [id |-> i, purpose |-> "session", user |-> user, host |-> NoHost,
                     revoked |-> FALSE, expired |-> FALSE]
AgentToken(i, user, h) == [id |-> i, purpose |-> "agent", user |-> user, host |-> h,
                           revoked |-> FALSE, expired |-> FALSE]

\* An administrator has logged in and has registered a host.
Init ==
    /\ users = {[id |-> Seed, person |-> Root, role |-> "admin", active |-> TRUE]}
    /\ tokens = {Session(Seed, Seed), AgentToken(Seed, Seed, Seed)}
    /\ \E s \in Secrets : hosts = {[id |-> Seed, name |-> FirstName, secret |-> s]}
    /\ audit = {}
    /\ pc = [q \in Requests |-> "idle"]
    /\ req = [q \in Requests |-> NoRequest]
    /\ who = [q \in Requests |-> Nobody]
    /\ scan = [q \in Requests |-> {}]
    /\ w = [q \in Requests |-> NoWrites]
    /\ prior = [q \in Requests |-> {}]
    /\ granted = [i \in {Seed} |-> [role |-> "admin", active |-> TRUE]]

-----------------------------------------------------------------------------
JtiOf(t) == <<t.purpose, t.id>>
Named(purpose, i) == {t \in tokens : JtiOf(t) = <<purpose, i>>}

\* Faulty variant: revoked_at is not looked at.
ValidUnrevoked(t) == ~t.expired

\* revoked_at IS NULL, expires_at > now; nobody consumes these tokens.
Valid(t) == ~t.revoked /\ ~t.expired

\* verify_session: the active user of a live session.
SessionUsers(i) ==
    {u \in users : u.active /\ \E t \in Named("session", i) : Valid(t) /\ t.user = u.id}

Open(q)   == pc[q] \in Steps
Others(q) == {p \in Requests : p # q /\ Open(p)}

\* Rows that other open transactions have written, hence locked.
TokensLocked(q, keys) == \E p \in Others(q) : w[p].revokes \cap keys # {}
SecretLocked(q, h)    == \E p \in Others(q) : \E s \in Secrets : <<h, s>> \in w[p].secrets

\* The row of a person is locked by the transaction that has upserted it.
PersonLocked(q, x) ==
    \E p \in Others(q) : req[p].kind = "login" /\ req[p].valid /\ req[p].person = x
                           /\ pc[p] = "commit"

Begin(q, r, user, step) ==
    /\ pc[q] = "idle"
    /\ r.kind \in Kinds
    /\ pc' = [pc EXCEPT ![q] = step]
    /\ req' = [req EXCEPT ![q] = r]
    /\ who' = [who EXCEPT ![q] = user]
    /\ prior' = [prior EXCEPT ![q] = {p \in Requests : pc[p] = "ok"}]
    /\ UNCHANGED <<database, scan, w, granted>>

Write(q, step, writes) ==
    /\ pc' = [pc EXCEPT ![q] = step]
    /\ w' = [w EXCEPT ![q] = writes]
    /\ UNCHANGED <<database, req, who, scan, prior, granted>>

\* The transaction ends without a commit and leaves nothing behind.
Rollback(q, answer) ==
    /\ pc' = [pc EXCEPT ![q] = answer]
    /\ w' = [w EXCEPT ![q] = NoWrites]
    /\ scan' = [scan EXCEPT ![q] = {}]
    /\ UNCHANGED <<database, req, who, prior, granted>>

-----------------------------------------------------------------------------
(* POST /auth/mock/callback.                                               *)

BeginLogin(q) ==
    \E x \in People, r \in Roles :
        Begin(q, [kind |-> "login", person |-> x, role |-> r, valid |-> TRUE], Nobody, "upsert")

\* A form the provider does not accept, whatever it carries, is answered 400 once
\* the failure has been written to the audit log and committed.
BeginBadLogin(q) ==
    Begin(q, [kind |-> "login", person |-> Root, role |-> "user", valid |-> FALSE],
          Nobody, "upsert")

RowOf(x) == {u \in users : u.person = x}

\* Faulty variant: SELECT, then INSERT, with no unique constraint in between.
UpsertUnlocked(q) ==
    /\ pc[q] = "upsert"
    /\ LET user == IF RowOf(req[q].person) = {} THEN q
                   ELSE (CHOOSE u \in RowOf(req[q].person) : TRUE).id
       IN Write(q, "commit",
                [w[q] EXCEPT
                   !.users = IF user = q
                             THEN {[id |-> q, person |-> req[q].person,
                                    role |-> req[q].role, active |-> TRUE]} ELSE {},
                   !.tokens = {Session(q, user)},
                   !.audit = {[by |-> q, action |-> "login_success", actor |-> user]}])

\* upsert_user: INSERT ... ON CONFLICT waits for whoever is inserting or updating
\* the row.  An existing row keeps its role and is_active (its name and e-mail are
\* not modelled).  issue_session and the audit row follow.
Upsert(q) ==
    /\ pc[q] = "upsert"
    /\ IF ~req[q].valid
       THEN Write(q, "commit",
                  [w[q] EXCEPT !.audit = {[by |-> q, action |-> "login_failure",
                                           actor |-> Nobody]}])
       ELSE /\ ~PersonLocked(q, req[q].person)
            /\ LET user == IF RowOf(req[q].person) = {} THEN q
                           ELSE (CHOOSE u \in RowOf(req[q].person) : TRUE).id
               IN Write(q, "commit",
                        [w[q] EXCEPT
                           !.users = IF user = q
                                     THEN {[id |-> q, person |-> req[q].person,
                                            role |-> req[q].role, active |-> TRUE]} ELSE {},
                           !.tokens = {Session(q, user)},
                           !.audit = {[by |-> q, action |-> "login_success",
                                       actor |-> user]}])

-----------------------------------------------------------------------------
(* Requests with a session cookie.                                         *)

Identified(i) == IF SessionUsers(i) = {} THEN Nobody
                 ELSE (CHOOSE u \in SessionUsers(i) : TRUE).id

Cookies == {t.id : t \in {x \in tokens : x.purpose = "session"}}

\* GET /auth/me, and whatever else only needs a user (get_current_user).
BeginMe(q) ==
    \E c \in Cookies :
        Begin(q, [kind |-> "me", cookie |-> c], Identified(c),
              IF Identified(c) = Nobody THEN "refused" ELSE "ok")

\* POST /auth/logout needs no user.
BeginLogout(q) ==
    \E c \in Cookies : Begin(q, [kind |-> "logout", cookie |-> c], Identified(c), "end")

\* Faulty variant: the UPDATE finds the session whether or not it is revoked.
EndAnySession(q) ==
    /\ pc[q] = "end"
    /\ ~TokensLocked(q, {<<"session", req[q].cookie>>})
    /\ Write(q, "commit",
             [w[q] EXCEPT !.revokes = {<<"session", req[q].cookie>>},
                          !.audit = {[by |-> q, action |-> "logout", actor |-> who[q]]}])

\* revoke_session waits for the row and re-checks it; only a session that it has
\* ended is recorded and committed.
EndSession(q) ==
    /\ pc[q] = "end"
    /\ ~TokensLocked(q, {<<"session", req[q].cookie>>})
    /\ IF \E t \in Named("session", req[q].cookie) : ~t.revoked
       THEN Write(q, "commit",
                  [w[q] EXCEPT !.revokes = {<<"session", req[q].cookie>>},
                               !.audit = {[by |-> q, action |-> "logout", actor |-> who[q]]}])
       ELSE Rollback(q, "ok")

-----------------------------------------------------------------------------
(* What administrators do to hosts (require_admin).                        *)

\* Faulty variant: the user is optional and his role is not asked for.
BeginAnybody(q, r, step) == Begin(q, r, Identified(r.cookie), step)

\* A request with r.cookie goes on at step if its user has the role.
BeginAdmin(q, r, step) ==
    Begin(q, r, Identified(r.cookie),
          IF \E u \in SessionUsers(r.cookie) : u.role = "admin" THEN step ELSE "refused")

BeginCreate(q) ==
    \E c \in Cookies, n \in Hostnames, s \in Secrets :
        BeginAdmin(q, [kind |-> "create", cookie |-> c, name |-> n, secret |-> s], "host")

BeginRotate(q) ==
    \E c \in Cookies, h \in hosts :
        BeginAdmin(q, [kind |-> "rotate", cookie |-> c, host |-> h.id], "scan")

BeginSecret(q) ==
    \E c \in Cookies, h \in hosts, s \in Secrets :
        BeginAdmin(q, [kind |-> "sunshine", cookie |-> c, host |-> h.id, secret |-> s], "load")

\* Faulty variant: the name is looked up before the INSERT, which waits for nobody.
InsertHostUnlocked(q) ==
    /\ pc[q] = "host"
    /\ IF \E h \in hosts : h.name = req[q].name
       THEN Rollback(q, "conflict")
       ELSE Write(q, "mint", [w[q] EXCEPT !.hosts = {[id |-> q, name |-> req[q].name,
                                                      secret |-> req[q].secret]}])

\* POST /hosts: the INSERT waits for an open one of the same name.  The revoking
\* UPDATE of issue_agent_token finds nothing on a host this new.
InsertHost(q) ==
    /\ pc[q] = "host"
    /\ IF \E h \in hosts : h.name = req[q].name
       THEN Rollback(q, "conflict")
       ELSE /\ \A p \in Others(q) : \A h \in w[p].hosts : h.name # req[q].name
            /\ Write(q, "mint", [w[q] EXCEPT !.hosts = {[id |-> q, name |-> req[q].name,
                                                         secret |-> req[q].secret]}])

HostOf(q) == IF req[q].kind = "create" THEN q ELSE req[q].host

AgentTokensOf(h) == {t \in tokens : t.purpose = "agent" /\ t.host = h /\ ~t.revoked}

\* Faulty variants: the older tokens are left alone; their revocation is committed
\* on its own.
ScanNothing(q) ==
    /\ pc[q] = "scan"
    /\ pc' = [pc EXCEPT ![q] = "mint"]
    /\ UNCHANGED <<database, req, who, scan, w, prior, granted>>

ScanAndRevoke(q) ==
    /\ pc[q] = "scan"
    /\ pc' = [pc EXCEPT ![q] = "mint"]
    /\ tokens' = {IF t \in AgentTokensOf(req[q].host) THEN [t EXCEPT !.revoked = TRUE] ELSE t :
                    t \in tokens}
    /\ UNCHANGED <<users, hosts, audit, req, who, scan, w, prior, granted>>

\* issue_agent_token: the revoking UPDATE works on the rows it finds when it
\* starts, waits for those that are locked, and re-checks each.
Scan(q) ==
    /\ pc[q] = "scan"
    /\ pc' = [pc EXCEPT ![q] = "mint"]
    /\ scan' = [scan EXCEPT ![q] = {JtiOf(t) : t \in AgentTokensOf(req[q].host)}]
    /\ UNCHANGED <<database, req, who, w, prior, granted>>

RevokeAndMint(q) ==
    /\ pc[q] = "mint"
    /\ ~TokensLocked(q, scan[q])
    /\ Write(q, "commit",
             [w[q] EXCEPT
                !.revokes = {k \in scan[q] : \E t \in tokens : JtiOf(t) = k /\ ~t.revoked},
                !.tokens = {AgentToken(q, who[q], HostOf(q))}])

\* PUT /hosts/{id}/sunshine-token: SQLAlchemy writes the column only if the value
\* differs from the one this session has loaded.
LoadHost(q) ==
    /\ pc[q] = "load"
    /\ IF \E h \in hosts : h.id = req[q].host /\ h.secret = req[q].secret
       THEN Write(q, "commit", w[q])
       ELSE Write(q, "update", w[q])

\* Faulty variant: the change is left unflushed.
UpdateNothing(q) ==
    /\ pc[q] = "update"
    /\ Write(q, "commit", w[q])

UpdateHost(q) ==
    /\ pc[q] = "update"
    /\ ~SecretLocked(q, req[q].host)
    /\ Write(q, "commit", [w[q] EXCEPT !.secrets = {<<req[q].host, req[q].secret>>}])

-----------------------------------------------------------------------------
(* POST /agents/heartbeat: get_agent_host; what it does then is in         *)
(* HostStatus.                                                             *)

BeginHeartbeat(q) ==
    \E t \in {x \in tokens : x.purpose = "agent"} :
        Begin(q, [kind |-> "heartbeat", bearer |-> t.id], Nobody,
              IF Valid(t) THEN "commit" ELSE "refused")

-----------------------------------------------------------------------------
\* Faulty variants of Accounts: a login gives the user the role of its form.
AccountsOverwritten(q) ==
    {IF req[q].kind = "login" /\ req[q].valid /\ u.person = req[q].person
     THEN [u EXCEPT !.role = req[q].role] ELSE u : u \in users} \cup w[q].users

\* The committed users, with what q has written.
Accounts(q) == users \cup w[q].users

Commit(q) ==
    /\ pc[q] = "commit"
    /\ pc' = [pc EXCEPT ![q] = IF req[q].kind = "login" /\ ~req[q].valid
                               THEN "refused" ELSE "ok"]
    /\ users' = Accounts(q)
    /\ tokens' = {IF JtiOf(t) \in w[q].revokes THEN [t EXCEPT !.revoked = TRUE] ELSE t :
                    t \in tokens} \cup w[q].tokens
    /\ hosts' = {IF \E s \in Secrets : <<h.id, s>> \in w[q].secrets
                 THEN [h EXCEPT !.secret = CHOOSE s \in Secrets : <<h.id, s>> \in w[q].secrets]
                 ELSE h : h \in hosts} \cup w[q].hosts
    /\ audit' = audit \cup w[q].audit
    /\ granted' = [i \in {u.id : u \in users \cup w[q].users} |->
                     IF i \in DOMAIN granted THEN granted[i]
                     ELSE [role |-> req[q].role, active |-> TRUE]]
    /\ w' = [w EXCEPT ![q] = NoWrites]
    /\ scan' = [scan EXCEPT ![q] = {}]
    /\ UNCHANGED <<req, who, prior>>

\* The process stops, or the connection breaks.
Fail(q) == Open(q) /\ Rollback(q, "failed")

\* An administrator sets the standing of a user in the database.
Adjust(u) ==
    /\ ~PersonLocked(Seed, u.person)
    /\ \E s \in Adjustments \ {granted[u.id]} :
          /\ users' = (users \ {u}) \cup {[u EXCEPT !.role = s.role, !.active = s.active]}
          /\ granted' = [granted EXCEPT ![u.id] = s]
    /\ UNCHANGED <<tokens, hosts, audit, pc, req, who, scan, w, prior>>

\* The ttl of a session passes.
Expire(t) ==
    /\ t.purpose = "session" /\ ~t.expired
    /\ tokens' = (tokens \ {t}) \cup {[t EXCEPT !.expired = TRUE]}
    /\ UNCHANGED <<users, hosts, audit, pc, req, who, scan, w, prior, granted>>

Arrive(q) ==
    \/ BeginLogin(q) \/ BeginBadLogin(q) \/ BeginMe(q) \/ BeginLogout(q) \/ BeginHeartbeat(q)
    \/ BeginCreate(q) \/ BeginRotate(q) \/ BeginSecret(q)

Step(q) ==
    \/ Upsert(q) \/ EndSession(q) \/ InsertHost(q) \/ Scan(q) \/ RevokeAndMint(q)
    \/ LoadHost(q) \/ UpdateHost(q) \/ Commit(q)

Next ==
    \/ \E q \in Requests : Arrive(q) \/ Step(q) \/ Fail(q)
    \/ \E u \in users : Adjust(u)
    \/ \E t \in tokens : Expire(t)

Spec == Init /\ [][Next]_vars

-----------------------------------------------------------------------------
(* Properties.                                                             *)

Before(a, b) == a = Seed \/ (b # Seed /\ a \in prior[b])

Ok(kind) == {q \in Requests : pc[q] = "ok" /\ req[q].kind = kind}

\* Two first logins of one person at once still make one account: a person has
\* one row, and all sessions of a person are sessions of that row
\* (uq_users_provider_external with ON CONFLICT).
OneAccount ==
    /\ \A u, v \in users : u.person = v.person => u = v
    /\ \A a, b \in Ok("login") : \A s \in Named("session", a), t \in Named("session", b) :
          req[a].person = req[b].person => s.user = t.user

\* Once a logout has been answered, no request that comes later with its cookie
\* is taken to be anybody's (revoke_session, verify_session).
LogoutFinal ==
    \A q \in Requests : who[q] # Nobody =>
        \A l \in prior[q] : req[l].kind = "logout" => req[l].cookie # req[q].cookie

\* The audit log tells the story of the sessions: a session has its login, and
\* exactly one logout if it was ended, however many logouts raced for it; a login
\* or logout that failed half-way is in neither (write_audit joins the transaction).
SessionsRecorded ==
    /\ {a.by : a \in {x \in audit : x.action = "login_success"}} = Cookies \ {Seed}
    /\ \A t \in tokens : t.purpose = "session" =>
          Cardinality({a \in audit : a.action = "logout" /\ req[a.by].cookie = t.id})
            = IF t.revoked THEN 1 ELSE 0

\* A user's role and is_active are what an administrator last set, or else those
\* of the first login; logging in again, also while they are being set, does not
\* bring the old ones back (upsert_user).
StandingKept == \A u \in users : granted[u.id] = [role |-> u.role, active |-> u.active]

\* Once a rotation has been answered, a token handed out before it came is of no
\* use to any heartbeat that comes later, whatever other rotations were under way.
RotatedOutRefused ==
    \A b \in Ok("heartbeat") : \A r \in prior[b] :
        \A t \in Named("agent", req[b].bearer), n \in Named("agent", r) :
            t.host = n.host => ~Before(t.id, r)

\* A host never loses its agent: registration and rotation commit the new token
\* with the end of the old ones, or nothing.
NeverLockedOut == \A h \in hosts : AgentTokensOf(h.id) # {}

\* Host names are unique, and a 409 is true: the name belongs to another host.
NamesUnique ==
    /\ \A g, h \in hosts : g.name = h.name => g = h
    /\ \A q \in Requests : pc[q] = "conflict" =>
          \E h \in hosts : h.name = req[q].name /\ h.id # q

\* The requests that have set the Sunshine token of h, and those of them that no
\* other one came after.
Setters(h) == {q \in Ok("sunshine") : req[q].host = h}
LastSetters(h) == {q \in Setters(h) : \A p \in Setters(h) : ~Before(q, p)}

\* The Sunshine token of a host is the one that the last answered request asked
\* for, or one of those that overlapped it: a value that equals the one loaded is
\* not written, yet nobody's later value is lost by that.
SecretOfLast ==
    \A h \in hosts : Setters(h.id) # {} =>
        \E q \in LastSetters(h.id) : h.secret = req[q].secret
=============================================================================
