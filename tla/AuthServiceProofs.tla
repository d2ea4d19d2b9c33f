-------------------------- MODULE AuthServiceProofs --------------------------
(***************************************************************************)
(* Proofs about AuthService, for any number of overlapping requests, of    *)
(* users, of token pairs and any lifetimes.                                *)
(***************************************************************************)
EXTENDS AuthService, TLAPS

USE DEF Idle

\* The UPDATE of MarkSessionAsUsed changes the status of the rows of one
\* selector and nothing else.
LEMMA MarkedRows ==
  ASSUME NEW S \in SUBSET RefreshSession, NEW sel
  PROVE  /\ MarkSessionAsUsed(S, sel) \subseteq RefreshSession
         /\ \A x \in MarkSessionAsUsed(S, sel) : \E s \in S :
              /\ x.selector = s.selector /\ x.verifierHash = s.verifierHash
              /\ x.jti = s.jti /\ x.user = s.user
              /\ x.meta = s.meta /\ x.expires = s.expires
              /\ x.status = IF s.selector = sel THEN "used" ELSE s.status
         /\ \A s \in S : \E x \in MarkSessionAsUsed(S, sel) : x.selector = s.selector
<1>1. ASSUME NEW s \in S
      PROVE  LET x == IF s.selector = sel THEN [s EXCEPT !.status = "used"] ELSE s
             IN  /\ x \in RefreshSession
                 /\ x.selector = s.selector /\ x.verifierHash = s.verifierHash
                 /\ x.jti = s.jti /\ x.user = s.user
                 /\ x.meta = s.meta /\ x.expires = s.expires
                 /\ x.status = IF s.selector = sel THEN "used" ELSE s.status
  BY DEF RefreshSession
<1> QED
  BY <1>1 DEF MarkSessionAsUsed

\* A row made for a new pair is well-formed.
LEMMA NewSessionType ==
  ASSUME NEW p \in Pair, NEW j \in Pair, NEW u \in UserID,
         NEW m \in UserMetadata, NEW at \in Nat
  PROVE  NewSession(p, j, u, m, at) \in RefreshSession
  BY TTLAssumption DEF NewSession, RefreshSession, CreateRefreshToken

LEMMA NewTokenType ==
  ASSUME NEW p \in Pair, NEW u \in UserID, NEW at \in Nat
  PROVE  CreateAccessTokenWithJTI(u, at, p) \in AccessToken
  BY TTLAssumption DEF CreateAccessTokenWithJTI, AccessToken

\* Every value Answer and Goto store is one of Local.
LEMMA AnswerType ==
  ASSUME TypeOK, NEW r \in Request, NEW op \in Op,
         NEW code \in {200, 204, 401, 500}, NEW pairs \in SUBSET Pair,
         Answer(r, op, code, pairs)
  PROVE  req' \in [Request -> Local]
<1>1. [pc |-> "respond", op |-> op, code |-> code, pairs |-> pairs] \in Local
  BY DEF Local
<1> QED
  BY <1>1 DEF TypeOK, Answer, Goto

LEMMA TypeInit == Init => TypeOK
  BY DEF Init, TypeOK, Local

\* The fields a goroutine holds, by the step it is at.
LEMMA LocalFields ==
  ASSUME TypeOK, NEW r \in Request
  PROVE  /\ req[r].pc = "insert" => /\ req[r].guid \in Guid
                                    /\ req[r].found \subseteq UserID
                                    /\ req[r].meta \in UserMetadata
                                    /\ req[r].at \in Nat
         /\ req[r].pc = "find" => req[r].selector \in Pair \cup {Unknown}
         /\ req[r].pc = "revoke" => req[r].user \in UserID /\ req[r].selector \in Pair
         /\ req[r].pc = "rotate" => /\ req[r].selector \in Pair
                                    /\ req[r].user \in UserID
                                    /\ req[r].meta \in UserMetadata
                                    /\ req[r].at \in Nat
         /\ req[r].pc = "revoking" => req[r].rows \in SUBSET Pair
         /\ req[r].pc \in {"validate", "invalidate", "delete", "deleting"} =>
              req[r].token \in AccessToken
         /\ req[r].pc = "deleting" => req[r].rows \in SUBSET Pair
         /\ req[r].pc = "guid" => req[r].user \in UserID
         /\ req[r].pc = "respond" => req[r].pairs \subseteq Pair
  BY DEF TypeOK, Local

\* The snapshot of a DELETE holds pairs.
LEMMA SnapshotType ==
  ASSUME TypeOK, NEW user
  PROVE  UserSessions(sessions, user) \in SUBSET Pair
  BY DEF TypeOK, UserSessions, RefreshSession

LEMMA GotoType ==
  ASSUME TypeOK, NEW r \in Request, NEW local \in Local, Goto(r, local)
  PROVE  req' \in [Request -> Local]
  BY DEF TypeOK, Goto

-----------------------------------------------------------------------------
(* Every step keeps the types: one lemma for each kind of request. *)

LEMMA TypeIssue ==
  ASSUME TypeOK, NEW r \in Request, IssueLookup(r) \/ IssueTokensTx(r)
  PROVE  TypeOK'
<1>1. CASE IssueLookup(r)
  <2>1. PICK guid \in Guid, meta \in UserMetadata :
           \/ Goto(r, [pc |-> "insert", guid |-> guid, meta |-> meta, at |-> now,
                       found |-> {u.id : u \in GetUserByGUID(users, guid)}])
           \/ Answer(r, "issue", 500, {})
    BY <1>1 DEF IssueLookup
  <2>2. {u.id : u \in GetUserByGUID(users, guid)} \subseteq UserID
    BY DEF TypeOK, GetUserByGUID, User
  <2>3. [pc |-> "insert", guid |-> guid, meta |-> meta, at |-> now,
         found |-> {u.id : u \in GetUserByGUID(users, guid)}] \in Local
    BY <2>2 DEF Local, TypeOK
  <2>4. req' \in [Request -> Local]
    BY <2>1, <2>3, GotoType, AnswerType DEF Op
  <2> QED
    BY <1>1, <2>4 DEF TypeOK, IssueLookup, store, redis, webhook
<1>2. CASE IssueTokensTx(r)
  <2> USE LocalFields
  <2>1. /\ UNCHANGED <<rotated, redis, webhook, delivered, now>>
        /\ req[r].pc = "insert"
    BY <1>2 DEF IssueTokensTx
  <2>2. req' \in [Request -> Local]
    <3>1. (\E p \in Pair : Answer(r, "issue", 200, {p})) \/ Answer(r, "issue", 500, {})
      BY <1>2 DEF IssueTokensTx, Fresh
    <3>2. ASSUME NEW p \in Pair, Answer(r, "issue", 200, {p})
          PROVE  req' \in [Request -> Local]
      <4>1. "issue" \in Op /\ {p} \in SUBSET Pair
        BY DEF Op
      <4> QED
        BY <3>2, <4>1, AnswerType
    <3>3. ASSUME Answer(r, "issue", 500, {})
          PROVE  req' \in [Request -> Local]
      BY <3>3, AnswerType DEF Op
    <3> QED
      BY <3>1, <3>2, <3>3
  <2>3. /\ users' \subseteq User
        /\ sessions' \subseteq RefreshSession
        /\ tokens' \subseteq AccessToken
    <3>1. CASE UNCHANGED <<users, sessions, tokens>>
      BY <3>1 DEF TypeOK
    <3>2. ASSUME NEW p \in Fresh, NEW id \in UserID, IssueRows(id, p, req[r])
          PROVE  sessions' \subseteq RefreshSession /\ tokens' \subseteq AccessToken
      BY <3>2, <2>1, NewSessionType, NewTokenType
         DEF TypeOK, IssueRows, CreateSession, Fresh
    <3>3. ASSUME NEW id \in UserID, users' = CreateUser(users, id, req[r].guid)
          PROVE  users' \subseteq User
      BY <3>3, <2>1 DEF TypeOK, CreateUser, User
    <3> QED
      BY <1>2, <2>1, <3>1, <3>2, <3>3 DEF IssueTokensTx, TypeOK
  <2> QED
    BY <2>1, <2>2, <2>3 DEF TypeOK, redis, webhook
<1> QED
  BY <1>1, <1>2

LEMMA TypeRefresh ==
  ASSUME TypeOK, NEW r \in Request,
         \/ RefreshMalformed(r) \/ GetActiveSession(r) \/ DetectTheft(r)
         \/ RevokeSessions(r) \/ RevokeCommit(r) \/ RotateTokensTx(r)
  PROVE  TypeOK'
<1> USE LocalFields
<1>1. CASE RefreshMalformed(r)
  BY <1>1, AnswerType DEF RefreshMalformed, Op, TypeOK, store, redis, webhook
<1>2. CASE GetActiveSession(r)
  <2> DEFINE Active(token) == GetActiveSessionBySelector(sessions, token.selector)
  <2>1. PICK jti \in Presentable, token \in RefreshToken, meta \in UserMetadata :
          \/ /\ Goto(r, [pc |-> "find", selector |-> token.selector])
             /\ UNCHANGED hooks
          \/ \E s \in Active(token) : CheckSession(r, s, jti, token, meta)
          \/ Answer(r, "refresh", 401, {}) /\ UNCHANGED hooks
    BY <1>2 DEF GetActiveSession
  <2>2. token.selector \in Pair \cup {Unknown}
    BY DEF RefreshToken, Presentable, TypeOK
  <2>3. CASE Goto(r, [pc |-> "find", selector |-> token.selector]) /\ UNCHANGED hooks
    <3>1. [pc |-> "find", selector |-> token.selector] \in Local
      BY <2>2 DEF Local
    <3> QED
      BY <1>2, <2>3, <3>1, GotoType DEF GetActiveSession, TypeOK, store, redis
  <2>4. CASE Answer(r, "refresh", 401, {}) /\ UNCHANGED hooks
    BY <1>2, <2>4, AnswerType DEF GetActiveSession, Op, TypeOK, store, redis
  <2>5. ASSUME NEW s \in Active(token), CheckSession(r, s, jti, token, meta)
        PROVE  TypeOK'
    <3>1. s \in RefreshSession /\ s.selector = token.selector
      BY DEF GetActiveSessionBySelector, TypeOK
    <3>2. /\ s.user \in UserID /\ token.selector \in Pair
          /\ s.meta.ip \in IPAddress /\ meta.ip \in IPAddress
      BY <3>1 DEF RefreshSession, UserMetadata
    <3>3. hooks' \subseteq Hook
      BY <2>5, <3>2 DEF CheckSession, NotifyIPChange, TypeOK, Hook
    <3>4. /\ [pc |-> "revoke", user |-> s.user, reason |-> "ua",
              selector |-> token.selector] \in Local
          /\ [pc |-> "rotate", selector |-> token.selector, user |-> s.user,
              meta |-> meta, at |-> now] \in Local
      BY <3>2 DEF Local, TypeOK
    <3>5. \/ Answer(r, "refresh", 401, {})
          \/ Goto(r, [pc |-> "revoke", user |-> s.user, reason |-> "ua",
                      selector |-> token.selector])
          \/ Goto(r, [pc |-> "rotate", selector |-> token.selector,
                      user |-> s.user, meta |-> meta, at |-> now])
      BY <2>5 DEF CheckSession
    <3>6. CASE Answer(r, "refresh", 401, {})
      BY <1>2, <3>3, <3>6, AnswerType DEF GetActiveSession, Op, TypeOK, store, redis
    <3>7. CASE ~Answer(r, "refresh", 401, {})
      <4>1. req' \in [Request -> Local]
        BY <3>4, <3>5, <3>7, GotoType
      <4> QED
        BY <1>2, <3>3, <4>1 DEF GetActiveSession, TypeOK, store, redis
    <3> QED
      BY <3>6, <3>7
  <2> QED
    BY <2>1, <2>3, <2>4, <2>5
<1>3. CASE DetectTheft(r)
  <2>1. ASSUME NEW s \in FindSessionBySelector(sessions, req[r].selector)
        PROVE  [pc |-> "revoke", user |-> s.user, reason |-> "reuse",
                selector |-> s.selector] \in Local
    BY DEF FindSessionBySelector, TypeOK, RefreshSession, Local
  <2>2. req' \in [Request -> Local]
    <3>1. CASE Answer(r, "refresh", 401, {})
      BY <3>1, AnswerType DEF Op
    <3>2. CASE ~Answer(r, "refresh", 401, {})
      BY <1>3, <2>1, <3>2, GotoType DEF DetectTheft
    <3> QED
      BY <3>1, <3>2
  <2> QED
    BY <1>3, <2>2 DEF DetectTheft, TypeOK, store, redis, webhook
<1>4. CASE RevokeSessions(r)
  <2>1. [pc |-> "revoking", rows |-> UserSessions(sessions, req[r].user)] \in Local
    BY SnapshotType DEF Local
  <2>2. req' \in [Request -> Local]
    BY <1>4, <2>1, GotoType DEF RevokeSessions
  <2> QED
    BY <1>4, <2>2 DEF RevokeSessions, TypeOK, store, redis, webhook
<1>6. CASE RevokeCommit(r)
  <2>1. req' \in [Request -> Local]
    BY <1>6, AnswerType DEF RevokeCommit, Op
  <2> QED
    BY <1>6, <2>1 DEF RevokeCommit, DeleteAllUserSessions, TypeOK, redis, webhook
<1>5. CASE RotateTokensTx(r)
  <2>1. /\ req[r].pc = "rotate"
        /\ UNCHANGED <<users, redis, webhook, delivered, now>>
    BY <1>5 DEF RotateTokensTx
  <2>2. req' \in [Request -> Local]
    <3>1. (\E p \in Pair : Answer(r, "refresh", 200, {p})) \/ Answer(r, "refresh", 401, {})
      BY <1>5 DEF RotateTokensTx, Fresh
    <3>2. ASSUME NEW p \in Pair, Answer(r, "refresh", 200, {p})
          PROVE  req' \in [Request -> Local]
      <4>1. "refresh" \in Op /\ {p} \in SUBSET Pair
        BY DEF Op
      <4> QED
        BY <3>2, <4>1, AnswerType
    <3>3. ASSUME Answer(r, "refresh", 401, {})
          PROVE  req' \in [Request -> Local]
      BY <3>3, AnswerType DEF Op
    <3> QED
      BY <3>1, <3>2, <3>3
  <2>3. /\ sessions' \subseteq RefreshSession
        /\ tokens' \subseteq AccessToken
        /\ rotated' \subseteq Pair \X Pair
    <3>1. CASE UNCHANGED <<sessions, tokens, rotated>>
      BY <3>1 DEF TypeOK
    <3>2. ASSUME NEW p \in Fresh, NEW at \in req[r].at..now,
                 sessions' = CreateSession(MarkSessionAsUsed(sessions, req[r].selector),
                                 NewSession(p, p, req[r].user, req[r].meta, at)),
                 tokens' = tokens \cup {CreateAccessTokenWithJTI(req[r].user, at, p)},
                 rotated' = rotated \cup {<<req[r].selector, p>>}
          PROVE  /\ sessions' \subseteq RefreshSession
                 /\ tokens' \subseteq AccessToken
                 /\ rotated' \subseteq Pair \X Pair
      <4>1. p \in Pair /\ sessions \in SUBSET RefreshSession
        BY DEF Fresh, TypeOK
      <4>5. at \in Nat
        <5>1. req[r].at \in Nat /\ now \in Nat
          BY <2>1, LocalFields DEF TypeOK
        <5> QED
          BY <5>1
      <4>2. NewSession(p, p, req[r].user, req[r].meta, at) \in RefreshSession
        BY <2>1, <4>1, <4>5, NewSessionType
      <4>3. MarkSessionAsUsed(sessions, req[r].selector) \subseteq RefreshSession
        BY <4>1, MarkedRows
      <4>4. CreateAccessTokenWithJTI(req[r].user, at, p) \in AccessToken
        BY <2>1, <4>1, <4>5, NewTokenType
      <4> QED
        BY <2>1, <3>2, <4>1, <4>2, <4>3, <4>4 DEF TypeOK, CreateSession
    <3> QED
      BY <1>5, <3>1, <3>2 DEF RotateTokensTx
  <2> QED
    BY <2>1, <2>2, <2>3 DEF TypeOK, redis, webhook
<1> QED
  BY <1>1, <1>2, <1>3, <1>4, <1>5, <1>6

LEMMA TypeBearer ==
  ASSUME TypeOK, NEW r \in Request,
         \/ AuthenticateAccessToken(r) \/ LogoutValidate(r) \/ LogoutInvalidate(r)
         \/ LogoutDelete(r) \/ LogoutCommit(r) \/ GetPublicGUID(r)
  PROVE  TypeOK'
<1> USE LocalFields
<1> DEFINE Known == req' \in [Request -> Local]
<1>a. ASSUME NEW op \in {"logout", "guid"}, NEW code \in {200, 204, 401, 500},
             Answer(r, op, code, {})
      PROVE  Known
  BY <1>a, AnswerType DEF Op
<1>1. CASE AuthenticateAccessToken(r)
  <2>1. PICK op \in {"logout", "guid"} :
          \/ \E t \in tokens :
               Goto(r, IF op = "logout" THEN [pc |-> "validate", token |-> t]
                                        ELSE [pc |-> "guid", user |-> t.user])
          \/ Answer(r, op, 401, {})
    BY <1>1 DEF AuthenticateAccessToken
  <2>2. ASSUME NEW t \in tokens
        PROVE  /\ [pc |-> "validate", token |-> t] \in Local
               /\ [pc |-> "guid", user |-> t.user] \in Local
    BY DEF TypeOK, AccessToken, Local
  <2>3. Known
    <3>1. CASE Answer(r, op, 401, {})
      BY <3>1, <1>a
    <3>2. ASSUME NEW t \in tokens,
                 Goto(r, IF op = "logout" THEN [pc |-> "validate", token |-> t]
                                          ELSE [pc |-> "guid", user |-> t.user])
          PROVE  Known
      BY <2>2, <3>2, GotoType
    <3> QED
      BY <2>1, <3>1, <3>2
  <2> QED
    BY <1>1, <2>3 DEF AuthenticateAccessToken, TypeOK, store, redis, webhook
<1>2. CASE LogoutValidate(r)
  <2>1. req[r].pc = "validate" => [pc |-> "invalidate", token |-> req[r].token] \in Local
    BY DEF Local
  <2>2. CASE Answer(r, "logout", 500, {})
    BY <1>2, <2>2, <1>a DEF LogoutValidate, TypeOK, store, redis, webhook
  <2>3. CASE Goto(r, [pc |-> "invalidate", token |-> req[r].token])
    <3>1. [pc |-> "invalidate", token |-> req[r].token] \in Local
      BY <1>2, <2>1 DEF LogoutValidate
    <3>2. Known
      BY <2>3, <3>1, GotoType
    <3> QED
      BY <1>2, <3>2 DEF LogoutValidate, TypeOK, store, redis, webhook
  <2> QED
    BY <1>2, <2>2, <2>3 DEF LogoutValidate
<1>3. CASE LogoutInvalidate(r)
  <2>1. req[r].token \in AccessToken
    BY <1>3 DEF LogoutInvalidate
  <2>2. [pc |-> "delete", token |-> req[r].token] \in Local
    BY <2>1 DEF Local
  <2>3. InvalidateAccessToken(denylist, req[r].token, now) \subseteq DenylistEntry
    <3> DEFINE left  == req[r].token.exp - now
               pers  == left <= 0
               until == IF left > 0 THEN now + left ELSE 0
    <3>1. left \in Int /\ until \in Nat /\ req[r].token.jti \in Pair
      BY <2>1 DEF AccessToken, TypeOK
    <3>2. pers \in BOOLEAN
      OBVIOUS
    <3> HIDE DEF left, pers, until
    <3>3. [jti |-> req[r].token.jti, persistent |-> pers, until |-> until] \in DenylistEntry
      BY <3>1, <3>2 DEF DenylistEntry
    <3> QED
      BY <3>3 DEF InvalidateAccessToken, InvalidateToken, TypeOK, left, pers, until
  <2>4. denylist' \subseteq DenylistEntry
    BY <1>3, <2>3 DEF LogoutInvalidate, TypeOK
  <2>5. invalidated' \subseteq Pair
    BY <1>3, <2>1 DEF LogoutInvalidate, TypeOK, AccessToken
  <2>6. Known
    <3>1. CASE Answer(r, "logout", 500, {})
      BY <3>1, <1>a
    <3>2. CASE Goto(r, [pc |-> "delete", token |-> req[r].token])
      BY <3>2, <2>2, GotoType
    <3> QED
      BY <1>3, <3>1, <3>2 DEF LogoutInvalidate
  <2> QED
    BY <1>3, <2>4, <2>5, <2>6 DEF LogoutInvalidate, TypeOK, store, webhook
<1>4. CASE LogoutDelete(r)
  <2> DEFINE rows == UserSessions(sessions, req[r].token.user)
  <2>1. req[r].token \in AccessToken /\ rows \in SUBSET Pair
    BY <1>4, SnapshotType DEF LogoutDelete
  <2>2. [pc |-> "deleting", token |-> req[r].token, rows |-> rows] \in Local
    BY <2>1 DEF Local
  <2>3. Known
    BY <1>4, <2>2, GotoType DEF LogoutDelete
  <2> QED
    BY <1>4, <2>3 DEF LogoutDelete, TypeOK, store, redis, webhook
<1>6. CASE LogoutCommit(r)
  <2>1. Known
    BY <1>6, <1>a DEF LogoutCommit
  <2> QED
    BY <1>6, <2>1 DEF LogoutCommit, DeleteAllUserSessions, TypeOK, redis, webhook
<1>5. CASE GetPublicGUID(r)
  <2>1. Known
    BY <1>5, <1>a DEF GetPublicGUID
  <2> QED
    BY <1>5, <2>1 DEF GetPublicGUID, TypeOK, store, redis, webhook
<1> QED
  BY <1>1, <1>2, <1>3, <1>4, <1>5, <1>6

\* The answer, the webhooks, the clock, a crash and stuttering.
LEMMA TypeOther ==
  ASSUME TypeOK,
         \/ \E r \in Request : Respond(r)
         \/ \E h \in hooks : SendWebhook(h)
         \/ Tick
         \/ Crash
         \/ UNCHANGED vars
  PROVE  TypeOK'
<1>0. Idle \in Local
  BY DEF Local
<1>1. ASSUME NEW r \in Request, Respond(r)
      PROVE  TypeOK'
  <2>1. req' \in [Request -> Local]
    BY <1>0, <1>1, GotoType DEF Respond
  <2>2. delivered' \subseteq Pair
    BY <1>1, LocalFields DEF Respond, TypeOK
  <2> QED
    BY <1>1, <2>1, <2>2 DEF Respond, TypeOK, store, redis
<1>2. ASSUME NEW h \in hooks, SendWebhook(h)
      PROVE  TypeOK'
  BY <1>2 DEF SendWebhook, TypeOK, Hook, store, redis
<1>3. CASE Tick
  BY <1>3 DEF Tick, Unexpired, TypeOK, store, webhook
<1>4. CASE Crash
  BY <1>0, <1>4 DEF Crash, TypeOK, store, redis
<1>5. CASE UNCHANGED vars
  BY <1>5 DEF vars, TypeOK, store, redis, webhook
<1> QED
  BY <1>1, <1>2, <1>3, <1>4, <1>5

LEMMA TypeNext == TypeOK /\ [Next]_vars => TypeOK'
<1> SUFFICES ASSUME TypeOK, [Next]_vars
             PROVE  TypeOK'
  OBVIOUS
<1>1. ASSUME NEW r \in Request, Arrive(r) \/ Serve(r)
      PROVE  TypeOK'
  BY <1>1, TypeIssue, TypeRefresh, TypeBearer, TypeOther DEF Arrive, Serve
<1> QED
  BY <1>1, TypeOther DEF Next

\* Every state of the service is well-formed, for any number of requests,
\* users and pairs and any lifetimes: no step of a handler, webhook goroutine,
\* clock or crash leaves the domain of a column, a key or a local variable.
THEOREM TypeCorrect == Spec => []TypeOK
  BY TypeInit, TypeNext, PTL DEF Spec
=============================================================================
