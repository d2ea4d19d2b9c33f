----------------------------- MODULE AuthService -----------------------------
(***************************************************************************)
(* AuthService (service/auth.go) with the transactions it runs             *)
(* (storage/postgres/storage.go), the handlers that call it                *)
(* (controller/controller.go), the bearer half of the authenticator        *)
(* (api/middleware.go), the status codes of api/error_handler.go and the   *)
(* webhook goroutines of service/webhook.go.                               *)
(*                                                                         *)
(* Each HTTP request is served by a goroutine of its own.  An action is    *)
(* what one goroutine does between two accesses to shared state: it ends   *)
(* with one PostgreSQL statement or transaction, or one Redis command.     *)
(* What comes before the first access (parsing, choosing inputs) belongs   *)
(* to the action of that access.  A DELETE takes two actions, its snapshot *)
(* and its commit: rows committed in between are spared.                   *)
(***************************************************************************)
EXTENDS TokenService, FiniteSets

CONSTANTS
  Request,     \* goroutines serving requests: how many may overlap
  Unknown,     \* a selector, verifier or JTI the service never issued
  WebhookSet,  \* WEBHOOK_URL is not empty
  Faulty,      \* stores may fail, answers may be lost, the process may crash
  MaxTime      \* bound on the clock

ASSUME AuthAssumption ==
  /\ Unknown \notin Pair
  /\ WebhookSet \in BOOLEAN
  /\ Faulty \in BOOLEAN
  /\ MaxTime \in Nat

VARIABLES
  users,        \* table users
  sessions,     \* table sessions
  denylist,     \* keys of revoked access tokens in Redis
  tokens,       \* access tokens of the pairs whose session was committed
  delivered,    \* pairs a client has received
  req,          \* what each goroutine has read and does next
  hooks,        \* webhook goroutines whose request context is alive
  now,          \* the clock
  sent,         \* webhook calls the receiver got
  rotated,      \* history: <<old, new>> of every committed rotation
  invalidated   \* history: access tokens whose revocation was reported done

store   == <<users, sessions, tokens, rotated>>
redis   == <<denylist, invalidated>>
webhook == <<hooks, sent>>
vars    == <<store, redis, webhook, delivered, req, now>>

Idle == [pc |-> "idle"]

Op == {"issue", "refresh", "logout", "guid"}

\* What a goroutine remembers at each of its steps.
Local ==
  {Idle}
  \cup [pc : {"insert"}, guid : Guid, found : SUBSET UserID, meta : UserMetadata,
         at : Nat]
  \cup [pc : {"find"}, selector : Pair \cup {Unknown}]
  \cup [pc : {"revoke"}, user : UserID, reason : {"reuse", "ua"}, selector : Pair]
  \cup [pc : {"revoking"}, rows : SUBSET Pair]
  \cup [pc : {"rotate"}, selector : Pair, user : UserID, meta : UserMetadata,
         at : Nat]
  \cup [pc : {"validate"}, token : AccessToken]
  \cup [pc : {"invalidate", "delete"}, token : AccessToken]
  \cup [pc : {"deleting"}, token : AccessToken, rows : SUBSET Pair]
  \cup [pc : {"guid"}, user : UserID]
  \cup [pc : {"respond"}, op : Op, code : {200, 204, 401, 500}, pairs : SUBSET Pair]

Hook == [req : Request, user : UserID, old : IPAddress, new : IPAddress]

TypeOK ==
  /\ users \subseteq User
  /\ sessions \subseteq RefreshSession
  /\ denylist \subseteq DenylistEntry
  /\ tokens \subseteq AccessToken
  /\ delivered \subseteq Pair
  /\ req \in [Request -> Local]
  /\ hooks \subseteq Hook
  /\ now \in Nat
  /\ sent \subseteq [user : UserID, old : IPAddress, new : IPAddress]
  /\ rotated \subseteq Pair \X Pair
  /\ invalidated \subseteq Pair

Init ==
  /\ users = {} /\ sessions = {} /\ denylist = {} /\ tokens = {}
  /\ delivered = {} /\ hooks = {} /\ sent = {}
  /\ rotated = {} /\ invalidated = {}
  /\ req = [r \in Request |-> Idle]
  /\ now = 0

-----------------------------------------------------------------------------
Goto(r, local) == req' = [req EXCEPT ![r] = local]

Answer(r, op, code, pairs) ==
  Goto(r, [pc |-> "respond", op |-> op, code |-> code, pairs |-> pairs])

Issued == {t.jti : t \in tokens}

\* rand.Read and uuid.NewString never repeat a value.
Fresh == Pair \ Issued

\* Bound: a request is let in only while a fresh pair is left for it.
PairLeft ==
  Cardinality(Fresh) > Cardinality({r \in Request : req[r].pc \in {"insert", "rotate"}})

\* What a client can put into a request: what it received, or anything else.
Presentable == delivered \cup {Unknown}

\* A selector with its own verifier or with one that is not: another pair's is
\* as wrong as one never issued.
RefreshToken ==
  {t \in [selector : Presentable, verifier : Presentable] :
     t.verifier \in {t.selector, Unknown}}

-----------------------------------------------------------------------------
(* POST /auth/tokens (the API key has been accepted) *)

\* IssueTokens reads the clock; IssueTokensTx begins and looks the user up.
IssueLookup(r) ==
  /\ req[r] = Idle
  /\ PairLeft
  /\ \E guid \in Guid, meta \in UserMetadata :
       \/ Goto(r, [pc |-> "insert", guid |-> guid, meta |-> meta, at |-> now,
                   found |-> {u.id : u \in GetUserByGUID(users, guid)}])
       \/ Faulty /\ Answer(r, "issue", 500, {})
  /\ UNCHANGED <<store, redis, webhook, delivered, now>>

\* The rows the transaction leaves behind for user id.
IssueRows(id, p, q) ==
  /\ sessions' = CreateSession(sessions, NewSession(p, p, id, q.meta, q.at))
  /\ tokens' = tokens \cup {CreateAccessTokenWithJTI(id, q.at, p)}

\* The INSERTs and the COMMIT.  A user inserted by another transaction since
\* the lookup violates UNIQUE (guid): the transaction rolls back.
IssueTokensTx(r) ==
  LET q == req[r] IN
  /\ q.pc = "insert"
  /\ \/ \E p \in Fresh :
          /\ \/ \E id \in q.found : UNCHANGED users /\ IssueRows(id, p, q)
             \/ /\ q.found = {}
                /\ GetUserByGUID(users, q.guid) = {}
                /\ \E id \in UserID \ {u.id : u \in users} :
                     /\ users' = CreateUser(users, id, q.guid)
                     /\ IssueRows(id, p, q)
          /\ \/ Answer(r, "issue", 200, {p})
             \/ Faulty /\ Answer(r, "issue", 500, {})
     \/ /\ q.found = {} /\ GetUserByGUID(users, q.guid) # {}
        /\ Answer(r, "issue", 500, {})
        /\ UNCHANGED <<users, sessions, tokens>>
     \/ /\ Faulty
        /\ Answer(r, "issue", 500, {})
        /\ UNCHANGED <<users, sessions, tokens>>
  /\ UNCHANGED <<rotated, redis, webhook, delivered, now>>

-----------------------------------------------------------------------------
(* POST /auth/tokens/refresh *)

\* No cookie, no bearer header, an access token that does not parse or a
\* refresh token without its two parts: refused before any lookup.
RefreshMalformed(r) ==
  /\ req[r] = Idle
  /\ Answer(r, "refresh", 401, {})
  /\ UNCHANGED <<store, redis, webhook, delivered, now>>

\* NotifyIPChange starts a goroutine that holds the context of the request.
NotifyIPChange(r, s, meta) ==
  hooks' = IF s.meta.ip = meta.ip THEN hooks
           ELSE hooks \cup {[req |-> r, user |-> s.user,
                             old |-> s.meta.ip, new |-> meta.ip]}

\* What RefreshTokens does with the active row s it read, given the JTI, the
\* refresh token and the metadata of the request.
CheckSession(r, s, jti, token, meta) ==
  \/ /\ s.jti # jti
     /\ Answer(r, "refresh", 401, {})
     /\ UNCHANGED hooks
  \/ /\ s.jti = jti /\ s.meta.ua # meta.ua
     /\ Goto(r, [pc |-> "revoke", user |-> s.user, reason |-> "ua",
                 selector |-> token.selector])
     /\ UNCHANGED hooks
  \/ /\ s.jti = jti /\ s.meta.ua = meta.ua
     /\ NotifyIPChange(r, s, meta)
     /\ \/ /\ ~ValidateRefreshToken(token, s.verifierHash)
           /\ Answer(r, "refresh", 401, {})
        \/ /\ ValidateRefreshToken(token, s.verifierHash)
           /\ PairLeft
           /\ Goto(r, [pc |-> "rotate", selector |-> token.selector,
                       user |-> s.user, meta |-> meta, at |-> now])

\* RefreshTokens up to the lookup of the active session.  The access token is
\* parsed without being verified: only its JTI counts.
GetActiveSession(r) ==
  /\ req[r] = Idle
  /\ \E jti \in Presentable, token \in RefreshToken, meta \in UserMetadata :
       LET active == GetActiveSessionBySelector(sessions, token.selector) IN
       \/ /\ active = {}
          /\ Goto(r, [pc |-> "find", selector |-> token.selector])
          /\ UNCHANGED hooks
       \/ \E s \in active : CheckSession(r, s, jti, token, meta)
       \/ Faulty /\ Answer(r, "refresh", 401, {}) /\ UNCHANGED hooks
  /\ UNCHANGED <<store, redis, sent, delivered, now>>

\* detectTheftAndRevoke looks for a session of any status.  Every error of the
\* lookup counts as "not found".
DetectTheft(r) ==
  /\ req[r].pc = "find"
  /\ LET found == FindSessionBySelector(sessions, req[r].selector) IN
     \/ /\ found = {} \/ Faulty
        /\ Answer(r, "refresh", 401, {})
     \/ \E s \in found :
          Goto(r, [pc |-> "revoke", user |-> s.user, reason |-> "reuse",
                   selector |-> s.selector])
  /\ UNCHANGED <<store, redis, webhook, delivered, now>>

\* DeleteAllUserSessions after reuse or a changed User-Agent takes its snapshot.
RevokeSessions(r) ==
  /\ req[r].pc = "revoke"
  /\ Goto(r, [pc |-> "revoking", rows |-> UserSessions(sessions, req[r].user)])
  /\ UNCHANGED <<store, redis, webhook, delivered, now>>

\* The DELETE has committed, or failed: 401 either way.
RevokeCommit(r) ==
  /\ req[r].pc = "revoking"
  /\ \/ sessions' = DeleteAllUserSessions(sessions, req[r].rows)
     \/ Faulty /\ UNCHANGED sessions
  /\ Answer(r, "refresh", 401, {})
  /\ UNCHANGED <<users, tokens, rotated, redis, webhook, delivered, now>>

\* Mutant: the new row keeps the JTI of the old access token.
RotateTokensTxOldJTI(r) ==
  LET q == req[r] IN
  /\ q.pc = "rotate"
  /\ \E p \in Fresh, at \in q.at..now :
       /\ sessions' = CreateSession(MarkSessionAsUsed(sessions, q.selector),
                                    NewSession(p, q.selector, q.user, q.meta, at))
       /\ tokens' = tokens \cup {CreateAccessTokenWithJTI(q.user, at, p)}
       /\ rotated' = rotated \cup {<<q.selector, p>>}
       /\ Answer(r, "refresh", 200, {p})
  /\ UNCHANGED <<users, redis, webhook, delivered, now>>

\* The clock is read, some time after the lookup, the new pair is made, and
\* RotateTokensTx commits: UPDATE of the old row, INSERT of the new one, SELECT of
\* the user.  It rotates what was read by GetActiveSession without looking at the
\* old row again.
RotateTokensTx(r) ==
  LET q == req[r] IN
  /\ q.pc = "rotate"
  /\ \/ \E p \in Fresh, at \in q.at..now :
          /\ GetUserByID(users, q.user) # {}
          /\ sessions' = CreateSession(MarkSessionAsUsed(sessions, q.selector),
                                       NewSession(p, p, q.user, q.meta, at))
          /\ tokens' = tokens \cup {CreateAccessTokenWithJTI(q.user, at, p)}
          /\ rotated' = rotated \cup {<<q.selector, p>>}
          /\ \/ Answer(r, "refresh", 200, {p})
             \/ Faulty /\ Answer(r, "refresh", 401, {})
     \/ /\ GetUserByID(users, q.user) = {} \/ Faulty
        /\ Answer(r, "refresh", 401, {})
        /\ UNCHANGED <<sessions, tokens, rotated>>
  /\ UNCHANGED <<users, redis, webhook, delivered, now>>

-----------------------------------------------------------------------------
(* POST /auth/logout and GET /auth/user/guid *)

\* The authenticator validates the bearer token before the handler runs; every
\* error, of Redis too, becomes 401.
AuthenticateAccessToken(r) ==
  /\ req[r] = Idle
  /\ \E op \in {"logout", "guid"} :
       \/ \E t \in {t \in tokens : t.jti \in delivered} :
            \/ /\ ValidateAccessToken(denylist, t, now)
               /\ Goto(r, IF op = "logout"
                          THEN [pc |-> "validate", token |-> t]
                          ELSE [pc |-> "guid", user |-> t.user])
            \/ /\ ~ValidateAccessToken(denylist, t, now) \/ Faulty
               /\ Answer(r, op, 401, {})
       \/ Answer(r, op, 401, {})  \* no bearer header, or a token not ours
  /\ UNCHANGED <<store, redis, webhook, delivered, now>>

\* Logout validates the token once more.  ErrTokenRevoked, an expired token and
\* a Redis error are not among the errors ErrorHandler turns into 401.
LogoutValidate(r) ==
  LET t == req[r].token IN
  /\ req[r].pc = "validate"
  /\ \/ /\ ValidateAccessToken(denylist, t, now)
        /\ Goto(r, [pc |-> "invalidate", token |-> t])
     \/ /\ ~ValidateAccessToken(denylist, t, now) \/ Faulty
        /\ Answer(r, "logout", 500, {})
  /\ UNCHANGED <<store, redis, webhook, delivered, now>>

LogoutInvalidate(r) ==
  LET t == req[r].token IN
  /\ req[r].pc = "invalidate"
  /\ \/ /\ denylist' = InvalidateAccessToken(denylist, t, now)
        /\ invalidated' = invalidated \cup {t.jti}
        /\ Goto(r, [pc |-> "delete", token |-> t])
     \/ /\ Faulty
        /\ denylist' \in {denylist, InvalidateAccessToken(denylist, t, now)}
        /\ UNCHANGED invalidated
        /\ Answer(r, "logout", 500, {})
  /\ UNCHANGED <<store, webhook, delivered, now>>

\* DeleteAllUserSessions takes its snapshot, later than the denylist was set.
LogoutDelete(r) ==
  LET t == req[r].token IN
  /\ req[r].pc = "delete"
  /\ Goto(r, [pc |-> "deleting", token |-> t, rows |-> UserSessions(sessions, t.user)])
  /\ UNCHANGED <<store, redis, webhook, delivered, now>>

\* The DELETE has committed, or failed.
LogoutCommit(r) ==
  /\ req[r].pc = "deleting"
  /\ \/ /\ sessions' = DeleteAllUserSessions(sessions, req[r].rows)
        /\ \/ Answer(r, "logout", 204, {})
           \/ Faulty /\ Answer(r, "logout", 500, {})
     \/ /\ Faulty
        /\ UNCHANGED sessions
        /\ Answer(r, "logout", 500, {})
  /\ UNCHANGED <<users, tokens, rotated, redis, webhook, delivered, now>>

GetPublicGUID(r) ==
  /\ req[r].pc = "guid"
  /\ \/ /\ GetUserByID(users, req[r].user) # {}
        /\ Answer(r, "guid", 200, {})
     \/ /\ GetUserByID(users, req[r].user) = {} \/ Faulty
        /\ Answer(r, "guid", 500, {})
  /\ UNCHANGED <<store, redis, webhook, delivered, now>>

-----------------------------------------------------------------------------
(* The answer, the webhook goroutines, the clock, the process *)

\* The handler returns: the answer is written (and may be lost on its way), and
\* net/http cancels the context its webhook goroutines use.
Respond(r) ==
  /\ req[r].pc = "respond"
  /\ \/ delivered' = delivered \cup req[r].pairs
     \/ Faulty /\ UNCHANGED delivered
  /\ hooks' = {h \in hooks : h.req # r}
  /\ Goto(r, Idle)
  /\ UNCHANGED <<store, redis, sent, now>>

\* A webhook goroutine makes its call while its context is alive.
SendWebhook(h) ==
  /\ h \in hooks
  /\ hooks' = hooks \ {h}
  /\ \/ /\ WebhookSet
        /\ sent' = sent \cup {[user |-> h.user, old |-> h.old, new |-> h.new]}
     \/ /\ ~WebhookSet \/ Faulty
        /\ UNCHANGED sent
  /\ UNCHANGED <<store, redis, delivered, req, now>>

Tick ==
  /\ now < MaxTime
  /\ now' = now + 1
  /\ denylist' = Unexpired(denylist, now + 1)
  /\ UNCHANGED <<store, invalidated, webhook, delivered, req>>

\* The process dies and is started again: the goroutines and their open
\* transactions are gone, the stores keep what was committed.
Crash ==
  /\ Faulty
  /\ \E r \in Request : req[r] # Idle
  /\ req' = [r \in Request |-> Idle]
  /\ hooks' = {}
  /\ UNCHANGED <<store, redis, sent, delivered, now>>

-----------------------------------------------------------------------------
\* A request arrives.
Arrive(r) ==
  \/ IssueLookup(r)
  \/ RefreshMalformed(r)
  \/ GetActiveSession(r)
  \/ AuthenticateAccessToken(r)

\* The goroutine serving a request goes on.
Serve(r) ==
  \/ IssueTokensTx(r)
  \/ DetectTheft(r)
  \/ RevokeSessions(r)
  \/ RevokeCommit(r)
  \/ RotateTokensTx(r)
  \/ LogoutValidate(r)
  \/ LogoutInvalidate(r)
  \/ LogoutDelete(r)
  \/ LogoutCommit(r)
  \/ GetPublicGUID(r)
  \/ Respond(r)

Next ==
  \/ \E r \in Request : Arrive(r) \/ Serve(r)
  \/ \E h \in hooks : SendWebhook(h)
  \/ Tick
  \/ Crash

Spec == Init /\ [][Next]_vars

\* The scheduler runs every goroutine, and a call to a store returns.
FairSpec ==
  /\ Spec
  /\ \A r \in Request : WF_vars(Serve(r))
  /\ \A h \in Hook : WF_vars(SendWebhook(h))

-----------------------------------------------------------------------------
(* Safety that holds whatever overlaps and whatever fails *)

Successors(p) == {q \in Pair : <<p, q>> \in rotated}

HasRow(p) == \E s \in sessions : s.selector = p

\* Rotation is all or nothing: a row of sessions is marked used exactly when a
\* committed RotateTokensTx has replaced it by another one.  A failed or lost
\* rotation burns no token, and no exchanged token is active again.
StatusMatchesHistory ==
  \A s \in sessions : s.status = "used" <=> Successors(s.selector) # {}

\* detectTheftAndRevoke is right to call it reuse: when it is about to delete a
\* user's sessions, the refresh token presented had been exchanged before,
\* although its two lookups are separate statements.
TheftOnlyAfterExchange ==
  \A r \in Request :
    req[r].pc = "revoke" /\ req[r].reason = "reuse" => Successors(req[r].selector) # {}

\* The two tokens of a pair stay bound to each other and to one user: a row's
\* JTI, selector and verifier are those of one committed pair, whose access
\* token names the user the row belongs to, who exists; selectors are unique.
SessionBinding ==
  /\ \A s \in sessions :
       /\ s.jti = s.selector /\ s.verifierHash = Hash(s.selector)
       /\ \E t \in tokens : t.jti = s.jti /\ t.user = s.user
       /\ GetUserByID(users, s.user) # {}
  /\ \A s1, s2 \in sessions : s1.selector = s2.selector => s1 = s2

\* A refresh token is exchanged at most as often as requests overlap: the race
\* between GetActiveSessionBySelector and RotateTokensTx gives each request
\* that looked the row up in time one exchange, and no later request another.
ExchangesBoundedByOverlap ==
  \A p \in Pair : Cardinality(Successors(p)) <= Cardinality(Request)

\* README: a revoked token is refused although its exp is not reached: up to and
\* at its exp, however the denylist key's expiry and the clock interleave.  (The
\* parser's leeway after exp is not covered: the denylist key is gone by then.)
RevokedTokenRejected ==
  \A t \in tokens :
    t.jti \in invalidated /\ now <= t.exp => ~ValidateAccessToken(denylist, t, now)

\* A key of the denylist that Redis never drops belongs to a token revoked in the
\* leeway after its exp: the denylist grows by no token that was revoked in time.
PersistentOnlyExpired ==
  \A e \in denylist :
    e.persistent => \E t \in tokens : t.jti = e.jti /\ t.exp <= now

-----------------------------------------------------------------------------
(* The abstract specification of refresh sessions, and how the tables and the *)
(* goroutines implement it *)

\* A pair that was issued and has no row has been revoked.
Status ==
  [p \in Pair |->
     IF GetActiveSessionBySelector(sessions, p) # {} THEN "active"
     ELSE IF HasRow(p) THEN "used"
     ELSE IF p \in Issued THEN "revoked"
     ELSE "none"]

Owner == [p \in Pair |-> {t.user : t \in {x \in tokens : x.jti = p}}]

\* RefreshTokens has seen the row active and goes on to RotateTokensTx.
Granted == [r \in Request |-> IF req[r].pc = "rotate" THEN {req[r].selector} ELSE {}]

\* The rows of a DELETE that has not committed.
Scope ==
  [r \in Request |-> IF req[r].pc \in {"revoking", "deleting"} THEN req[r].rows ELSE {}]

Lineage == INSTANCE SessionLineage
  WITH Owners <- UserID, Client <- Request,
       status <- Status, owner <- Owner, grant <- Granted, scope <- Scope

\* The handlers, with their transactions, their failures and their crashes,
\* implement SessionLineage: nothing but a pair seen active is exchanged, each
\* exchange has a new pair of the same user, what is used or revoked stays so,
\* and a revocation takes with it all that the user had when it began.
ImplementsLineage == Lineage!Spec

-----------------------------------------------------------------------------
(* What the documentation says, which the code keeps only in part *)

\* README: the old refresh token is marked used at every refresh.  Hence a
\* refresh token is exchanged at most once.
SingleUse ==
  \A p, q1, q2 \in Pair : <<p, q1>> \in rotated /\ <<p, q2>> \in rotated => q1 = q2

\* README: Logout (and reuse, and a changed User-Agent) deletes all refresh
\* sessions of the user.  Hence no row descends from a row that was deleted.
RevocationEndsLineage ==
  \A e \in rotated : HasRow(e[2]) => HasRow(e[1])

\* README: Logout is complete, it revokes the access token and the refresh
\* tokens.  Once the access token is on the denylist and no Logout is still
\* working on it, the session it was issued with is gone.
LogoutIsComplete ==
  \A j \in invalidated :
    (\A r \in Request : ~(req[r].pc \in {"delete", "deleting"} /\ req[r].token.jti = j))
      => ~\E s \in sessions : s.jti = j

-----------------------------------------------------------------------------
(* Liveness, under FairSpec *)

\* README: a change of IP address is reported to the webhook.
WebhookReported ==
  \A h \in Hook :
    h \in hooks ~> [user |-> h.user, old |-> h.old, new |-> h.new] \in sent
=============================================================================
