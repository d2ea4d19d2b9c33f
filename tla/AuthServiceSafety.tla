-------------------------- MODULE AuthServiceSafety --------------------------
(***************************************************************************)
(* The inductive invariant of AuthService, and the safety properties that  *)
(* follow from it for any number of requests, users and pairs.             *)
(***************************************************************************)
EXTENDS AuthServiceProofs

\* A JTI names one access token.
TokensDistinct == \A t1, t2 \in tokens : t1.jti = t2.jti => t1 = t2

\* What clients hold, what was rotated and what was revoked has been issued.
HistoryIssued ==
  /\ delivered \subseteq Issued
  /\ rotated \subseteq Issued \X Issued
  /\ invalidated \subseteq Issued

\* Until a revoked token's exp has passed, the denylist holds it, and will
\* until then.
RevokedListed ==
  \A t \in tokens :
    t.jti \in invalidated =>
      \/ t.exp < now
      \/ \E e \in denylist : e.jti = t.jti /\ (e.persistent \/ t.exp <= e.until)

\* What the tables, the denylist and the history say of each other.
Stored ==
  /\ TokensDistinct
  /\ HistoryIssued
  /\ StatusMatchesHistory
  /\ SessionBinding
  /\ RevokedListed

\* What a goroutine remembers of the tables is still so when it goes on.
Remembered(r) ==
  /\ req[r].pc = "insert" => \A id \in req[r].found : GetUserByID(users, id) # {}
  /\ req[r].pc = "find" =>
       /\ req[r].selector \in Issued \cup {Unknown}
       /\ \A s \in sessions : s.selector = req[r].selector => s.status = "used"
  /\ req[r].pc = "revoke" /\ req[r].reason = "reuse" => Successors(req[r].selector) # {}
  /\ req[r].pc = "rotate" =>
       \E t \in tokens : t.jti = req[r].selector /\ t.user = req[r].user
  /\ req[r].pc \in {"revoking", "deleting"} => req[r].rows \subseteq Issued
  /\ req[r].pc \in {"validate", "invalidate", "delete", "deleting"} =>
       req[r].token \in tokens
  /\ req[r].pc = "respond" => req[r].pairs \subseteq Issued

IInv == TypeOK /\ Stored /\ \A r \in Request : Remembered(r)

-----------------------------------------------------------------------------
(* Steps in which the tables only grow, as far as goroutines remember them *)

\* Users, tokens and rotations are never taken back, and no refresh token that
\* has been issued becomes active again.
Grows ==
  /\ users \subseteq users' /\ tokens \subseteq tokens' /\ rotated \subseteq rotated'
  /\ \A s \in sessions' :
       \/ s.status = "used"
       \/ s.selector \notin Issued \cup {Unknown}
       \/ \E s0 \in sessions : s0.selector = s.selector /\ s0.status # "used"

\* What a goroutine remembers survives the steps of the others.
LEMMA RememberedStable ==
  ASSUME NEW r \in Request, Remembered(r), Grows, req'[r] = req[r]
  PROVE  Remembered(r)'
<1>1. Issued \subseteq Issued'
  BY DEF Grows, Issued
<1>2. \A id : GetUserByID(users, id) # {} => GetUserByID(users', id) # {}
  BY DEF Grows, GetUserByID
<1>4. req'[r].pc = "insert" =>
        \A id \in req'[r].found : GetUserByID(users', id) # {}
  BY <1>2 DEF Remembered
<1>5. req'[r].pc = "find" =>
        /\ req'[r].selector \in Issued' \cup {Unknown}
        /\ \A s \in sessions' : s.selector = req'[r].selector => s.status = "used"
  BY <1>1 DEF Remembered, Grows
<1>6. req'[r].pc = "revoke" /\ req'[r].reason = "reuse" =>
        {q \in Pair : <<req'[r].selector, q>> \in rotated'} # {}
  BY DEF Remembered, Grows, Successors
<1>7. /\ req'[r].pc = "rotate" =>
           \E t \in tokens' : t.jti = req'[r].selector /\ t.user = req'[r].user
      /\ req'[r].pc \in {"revoking", "deleting"} => req'[r].rows \subseteq Issued'
  BY <1>1 DEF Remembered, Grows
<1>8. req'[r].pc \in {"validate", "invalidate", "delete", "deleting"} =>
        req'[r].token \in tokens'
  BY DEF Remembered, Grows
<1>9. req'[r].pc = "respond" => req'[r].pairs \subseteq Issued'
  BY <1>1 DEF Remembered
<1> QED
  BY <1>4, <1>5, <1>6, <1>7, <1>8, <1>9 DEF Remembered, Successors

\* Most steps leave the tables, the denylist and the clock alone.
LEMMA StoredKept ==
  ASSUME Stored, UNCHANGED <<store, redis, delivered, now>>
  PROVE  Stored' /\ Grows
<1>1. /\ users' = users /\ sessions' = sessions /\ tokens' = tokens
      /\ rotated' = rotated /\ denylist' = denylist /\ invalidated' = invalidated
      /\ delivered' = delivered /\ now' = now
  BY DEF store, redis
<1>2. TokensDistinct'
  BY <1>1 DEF Stored, TokensDistinct
<1>3. HistoryIssued'
  BY <1>1 DEF Stored, HistoryIssued, Issued
<1>4. StatusMatchesHistory'
  BY <1>1 DEF Stored, StatusMatchesHistory, Successors
<1>5. SessionBinding'
  BY <1>1 DEF Stored, SessionBinding
<1>6. RevokedListed'
  BY <1>1 DEF Stored, RevokedListed
<1>7. Grows
  BY <1>1 DEF Grows
<1> QED
  BY <1>2, <1>3, <1>4, <1>5, <1>6, <1>7 DEF Stored

\* Deleting rows leaves the other rows as they are.
LEMMA StoredDelete ==
  ASSUME Stored, NEW rows, sessions' = DeleteAllUserSessions(sessions, rows),
         UNCHANGED <<users, tokens, rotated, redis, delivered, now>>
  PROVE  Stored' /\ Grows
<1>1. /\ users' = users /\ sessions' \subseteq sessions /\ tokens' = tokens
      /\ rotated' = rotated /\ denylist' = denylist /\ invalidated' = invalidated
      /\ delivered' = delivered /\ now' = now
  BY DEF redis, DeleteAllUserSessions
<1>2. TokensDistinct'
  BY <1>1 DEF Stored, TokensDistinct
<1>3. HistoryIssued'
  BY <1>1 DEF Stored, HistoryIssued, Issued
<1>4. StatusMatchesHistory'
  BY <1>1 DEF Stored, StatusMatchesHistory, Successors
<1>5. SessionBinding'
  BY <1>1 DEF Stored, SessionBinding
<1>6. RevokedListed'
  BY <1>1 DEF Stored, RevokedListed
<1>7. Grows
  BY <1>1 DEF Grows
<1> QED
  BY <1>2, <1>3, <1>4, <1>5, <1>6, <1>7 DEF Stored

-----------------------------------------------------------------------------
(* A new pair *)

\* The access token of a new pair has a JTI of its own and is not revoked.
LEMMA NewToken ==
  ASSUME Stored, NEW p \in Fresh, NEW id, NEW at,
         tokens' = tokens \cup {CreateAccessTokenWithJTI(id, at, p)},
         UNCHANGED <<redis, now>>
  PROVE  /\ TokensDistinct' /\ RevokedListed'
         /\ Issued' = Issued \cup {p}
         /\ \E t \in tokens' : t.jti = p /\ t.user = id
<1> DEFINE n == CreateAccessTokenWithJTI(id, at, p)
<1>1. n.jti = p /\ n.user = id
  BY DEF CreateAccessTokenWithJTI
<1>2. tokens' = tokens \cup {n} /\ p \notin Issued
  BY DEF Fresh
<1>3. /\ denylist' = denylist /\ invalidated' = invalidated /\ now' = now
      /\ invalidated \subseteq Issued
  BY DEF redis, Stored, HistoryIssued
<1> HIDE DEF n
<1>4. \A t \in tokens : t.jti # p
  BY <1>2 DEF Issued
<1>5. TokensDistinct'
  BY <1>1, <1>2, <1>4 DEF Stored, TokensDistinct
<1>6. RevokedListed'
  BY <1>1, <1>2, <1>3 DEF Stored, RevokedListed
<1>7. Issued' = Issued \cup {p}
  BY <1>1, <1>2 DEF Issued
<1> QED
  BY <1>1, <1>2, <1>5, <1>6, <1>7

LEMMA NewRow ==
  ASSUME NEW p, NEW id, NEW m, NEW at
  PROVE  LET n == NewSession(p, p, id, m, at)
         IN  /\ n.selector = p /\ n.verifierHash = Hash(p) /\ n.jti = p
             /\ n.user = id /\ n.status = "active"
  BY DEF NewSession, CreateRefreshToken

\* A row's selector has been issued: it is not that of a pair yet to come.
LEMMA RowsIssued ==
  ASSUME Stored
  PROVE  \A s \in sessions : s.selector \in Issued
  BY DEF Stored, SessionBinding, Issued

\* Nor are those of a snapshot.
LEMMA SnapshotIssued ==
  ASSUME Stored, NEW user
  PROVE  UserSessions(sessions, user) \subseteq Issued
  BY RowsIssued DEF UserSessions

\* The commit of IssueTokensTx.
LEMMA StoredIssue ==
  ASSUME TypeOK, Stored, NEW r \in Request, NEW p \in Fresh, NEW id,
         IssueRows(id, p, req[r]),
         users \subseteq users', GetUserByID(users', id) # {},
         UNCHANGED <<rotated, redis, delivered, now>>
  PROVE  Stored' /\ Grows /\ p \in Issued'
<1> DEFINE n == NewSession(p, p, id, req[r].meta, req[r].at)
<1>1. /\ n.selector = p /\ n.verifierHash = Hash(p) /\ n.jti = p
      /\ n.user = id /\ n.status = "active"
  BY NewRow
<1>2. sessions' = sessions \cup {n}
  BY DEF IssueRows, CreateSession
<1> HIDE DEF n
<1>3. /\ TokensDistinct' /\ RevokedListed'
      /\ Issued' = Issued \cup {p}
      /\ \E t \in tokens' : t.jti = p /\ t.user = id
  BY NewToken DEF IssueRows
<1>4. tokens \subseteq tokens'
  BY DEF IssueRows
<1>5. p \in Pair /\ p \notin Issued /\ p # Unknown
  BY AuthAssumption DEF Fresh
<1>6. rotated' = rotated /\ invalidated' = invalidated /\ delivered' = delivered
  BY DEF redis
<1>7. HistoryIssued'
  BY <1>3, <1>6 DEF Stored, HistoryIssued
<1>8. StatusMatchesHistory'
  <2>1. Successors(p) = {}
    BY <1>5 DEF Stored, HistoryIssued, Successors
  <2>2. \A q : Successors(q)' = Successors(q)
    BY <1>6 DEF Successors
  <2>3. \A s \in sessions' : s.status = "used" <=> Successors(s.selector) # {}
    BY <1>1, <1>2, <2>1 DEF Stored, StatusMatchesHistory
  <2> QED
    BY <1>6, <2>3 DEF StatusMatchesHistory, Successors
<1>9. SessionBinding'
  <2>1. \A s \in sessions' :
          /\ s.jti = s.selector /\ s.verifierHash = Hash(s.selector)
          /\ \E t \in tokens' : t.jti = s.jti /\ t.user = s.user
          /\ GetUserByID(users', s.user) # {}
    BY <1>1, <1>2, <1>3, <1>4 DEF Stored, SessionBinding, GetUserByID
  <2>2. \A s1, s2 \in sessions' : s1.selector = s2.selector => s1 = s2
    BY <1>1, <1>2, <1>5, RowsIssued DEF Stored, SessionBinding
  <2> QED
    BY <2>1, <2>2 DEF SessionBinding
<1>10. Grows
  BY <1>1, <1>2, <1>4, <1>5, <1>6 DEF Grows
<1> QED
  BY <1>3, <1>7, <1>8, <1>9, <1>10 DEF Stored

\* The commit of RotateTokensTx.
LEMMA StoredRotate ==
  ASSUME TypeOK, Stored, NEW r \in Request, NEW p \in Fresh, NEW at,
         req[r].selector \in Issued,
         GetUserByID(users, req[r].user) # {},
         sessions' = CreateSession(MarkSessionAsUsed(sessions, req[r].selector),
                         NewSession(p, p, req[r].user, req[r].meta, at)),
         tokens' = tokens \cup {CreateAccessTokenWithJTI(req[r].user, at, p)},
         rotated' = rotated \cup {<<req[r].selector, p>>},
         UNCHANGED <<users, redis, delivered, now>>
  PROVE  Stored' /\ Grows /\ p \in Issued'
<1> DEFINE old == req[r].selector
           id  == req[r].user
           n   == NewSession(p, p, id, req[r].meta, at)
           M   == MarkSessionAsUsed(sessions, old)
<1>1. /\ n.selector = p /\ n.verifierHash = Hash(p) /\ n.jti = p
      /\ n.user = id /\ n.status = "active"
  BY NewRow
<1>2. /\ sessions' = M \cup {n}
      /\ rotated' = rotated \cup {<<old, p>>}
      /\ old \in Issued /\ GetUserByID(users, id) # {}
  BY DEF CreateSession
<1>3. /\ TokensDistinct' /\ RevokedListed'
      /\ Issued' = Issued \cup {p}
      /\ \E t \in tokens' : t.jti = p /\ t.user = id
  BY NewToken
<1>4. \A x \in M : \E s \in sessions :
        /\ x.selector = s.selector /\ x.verifierHash = s.verifierHash
        /\ x.jti = s.jti /\ x.user = s.user
        /\ x.status = IF s.selector = old THEN "used" ELSE s.status
  BY MarkedRows DEF TypeOK
<1>5. \A x1, x2 \in M : x1.selector = x2.selector => x1 = x2
  BY DEF Stored, SessionBinding, MarkSessionAsUsed, TypeOK, RefreshSession
<1> HIDE DEF n, M, old, id
<1>6. tokens \subseteq tokens'
  OBVIOUS
<1>7. p \in Pair /\ p \notin Issued /\ p # Unknown
  BY AuthAssumption DEF Fresh
<1>8. users' = users /\ invalidated' = invalidated /\ delivered' = delivered
  BY DEF redis
<1>9. HistoryIssued'
  BY <1>2, <1>3, <1>8 DEF Stored, HistoryIssued
<1>10. StatusMatchesHistory'
  <2>1. \A q : {x \in Pair : <<q, x>> \in rotated'}
                 = Successors(q) \cup (IF q = old THEN {p} ELSE {})
    BY <1>2, <1>7 DEF Successors
  <2>2. Successors(p) = {} /\ p # old
    BY <1>2, <1>7 DEF Stored, HistoryIssued, Successors
  <2>3. \A s \in sessions' :
          s.status = "used" <=> {x \in Pair : <<s.selector, x>> \in rotated'} # {}
    <3>1. ASSUME NEW x \in M
          PROVE  x.status = "used" <=> {y \in Pair : <<x.selector, y>> \in rotated'} # {}
      <4>1. PICK s \in sessions :
              /\ x.selector = s.selector
              /\ x.status = IF s.selector = old THEN "used" ELSE s.status
        BY <1>4
      <4>2. s.status = "used" <=> Successors(s.selector) # {}
        BY DEF Stored, StatusMatchesHistory
      <4> QED
        BY <2>1, <4>1, <4>2
    <3>2. {y \in Pair : <<n.selector, y>> \in rotated'} = {} /\ n.status # "used"
      BY <1>1, <2>1, <2>2
    <3> QED
      BY <1>2, <3>1, <3>2
  <2> QED
    BY <2>3 DEF StatusMatchesHistory, Successors
<1>11. SessionBinding'
  <2>1. \A s \in sessions' :
          /\ s.jti = s.selector /\ s.verifierHash = Hash(s.selector)
          /\ \E t \in tokens' : t.jti = s.jti /\ t.user = s.user
          /\ GetUserByID(users, s.user) # {}
    <3>1. \A s \in sessions :
            /\ s.jti = s.selector /\ s.verifierHash = Hash(s.selector)
            /\ \E t \in tokens' : t.jti = s.jti /\ t.user = s.user
            /\ GetUserByID(users, s.user) # {}
      BY <1>6 DEF Stored, SessionBinding
    <3> QED
      BY <1>1, <1>2, <1>3, <1>4, <3>1
  <2>2. \A x \in M : x.selector # p
    BY <1>4, <1>7, RowsIssued
  <2>3. \A s1, s2 \in sessions' : s1.selector = s2.selector => s1 = s2
    BY <1>1, <1>2, <1>5, <2>2
  <2> QED
    BY <1>8, <2>1, <2>3 DEF SessionBinding
<1>12. Grows
  <2>1. \A s \in sessions' :
          \/ s.status = "used"
          \/ s.selector \notin Issued \cup {Unknown}
          \/ \E s0 \in sessions : s0.selector = s.selector /\ s0.status # "used"
    BY <1>1, <1>2, <1>4, <1>7
  <2> QED
    BY <1>2, <1>6, <1>8, <2>1 DEF Grows
<1> QED
  BY <1>3, <1>9, <1>10, <1>11, <1>12 DEF Stored

\* Logout puts the token on the denylist, reported or not.
LEMMA StoredInvalidate ==
  ASSUME TypeOK, Stored, NEW t \in tokens,
         denylist' = InvalidateAccessToken(denylist, t, now),
         invalidated' \in {invalidated, invalidated \cup {t.jti}},
         UNCHANGED <<store, delivered, now>>
  PROVE  Stored' /\ Grows
<1>1. /\ users' = users /\ sessions' = sessions /\ tokens' = tokens
      /\ rotated' = rotated /\ delivered' = delivered /\ now' = now
  BY DEF store
<1>2. TokensDistinct'
  BY <1>1 DEF Stored, TokensDistinct
<1>3. HistoryIssued'
  BY <1>1 DEF Stored, HistoryIssued, Issued
<1>4. StatusMatchesHistory'
  BY <1>1 DEF Stored, StatusMatchesHistory, Successors
<1>5. SessionBinding'
  BY <1>1 DEF Stored, SessionBinding
<1>6. RevokedListed'
  <2>1. t.exp \in Nat /\ now \in Nat
    BY DEF TypeOK, AccessToken
  <2>2. \E e \in denylist' : e.jti = t.jti /\ (e.persistent \/ t.exp <= e.until)
    <3> DEFINE e == [jti |-> t.jti, persistent |-> t.exp - now <= 0,
                     until |-> IF t.exp - now > 0 THEN now + (t.exp - now) ELSE 0]
    <3>1. e \in denylist'
      BY DEF InvalidateAccessToken, InvalidateToken
    <3>2. t.exp - now <= 0 \/ t.exp <= e.until
      BY <2>1
    <3>3. e.persistent = (t.exp - now <= 0) /\ e.jti = t.jti
      OBVIOUS
    <3> QED
      BY <3>1, <3>2, <3>3
  <2>3. \A e \in denylist : e.jti # t.jti => e \in denylist'
    BY DEF InvalidateAccessToken, InvalidateToken
  <2>4. \A u \in tokens : u.jti = t.jti => u = t
    BY DEF Stored, TokensDistinct
  <2>5. \A u \in tokens : u.jti \in invalidated' =>
          \/ u.exp < now
          \/ \E e \in denylist' : e.jti = u.jti /\ (e.persistent \/ u.exp <= e.until)
    BY <2>2, <2>3, <2>4 DEF Stored, RevokedListed
  <2> QED
    BY <1>1, <2>5 DEF RevokedListed
<1>7. Grows
  BY <1>1 DEF Grows
<1> QED
  BY <1>2, <1>3, <1>4, <1>5, <1>6, <1>7 DEF Stored

\* Redis drops no entry of a token before its exp.
LEMMA StoredTick ==
  ASSUME TypeOK, Stored, Tick
  PROVE  Stored' /\ Grows
<1>1. /\ users' = users /\ sessions' = sessions /\ tokens' = tokens
      /\ rotated' = rotated /\ delivered' = delivered /\ now' = now + 1
      /\ invalidated' = invalidated /\ denylist' = Unexpired(denylist, now + 1)
  BY DEF Tick, store
<1>2. TokensDistinct'
  BY <1>1 DEF Stored, TokensDistinct
<1>3. HistoryIssued'
  BY <1>1 DEF Stored, HistoryIssued, Issued
<1>4. StatusMatchesHistory'
  BY <1>1 DEF Stored, StatusMatchesHistory, Successors
<1>5. SessionBinding'
  BY <1>1 DEF Stored, SessionBinding
<1>6. RevokedListed'
  <2>1. ASSUME NEW t \in tokens, t.jti \in invalidated, ~(t.exp < now + 1)
        PROVE  \E e \in denylist' : e.jti = t.jti /\ (e.persistent \/ t.exp <= e.until)
    <3>1. t.exp \in Nat /\ now \in Nat
      BY DEF TypeOK, AccessToken
    <3>2. PICK e \in denylist : e.jti = t.jti /\ (e.persistent \/ t.exp <= e.until)
      BY <2>1, <3>1 DEF Stored, RevokedListed
    <3>3. e.until \in Nat
      BY DEF TypeOK, DenylistEntry
    <3>4. e.persistent \/ now + 1 <= e.until
      BY <2>1, <3>1, <3>2, <3>3
    <3>5. e \in denylist'
      BY <1>1, <3>4 DEF Unexpired
    <3> QED
      BY <3>2, <3>5
  <2> QED
    BY <1>1, <2>1 DEF RevokedListed
<1>7. Grows
  BY <1>1 DEF Grows
<1> QED
  BY <1>2, <1>3, <1>4, <1>5, <1>6, <1>7 DEF Stored

-----------------------------------------------------------------------------
(* What the goroutine that takes a step remembers after it *)

LEMMA GotoReq ==
  ASSUME TypeOK, NEW r \in Request, NEW local, Goto(r, local)
  PROVE  req'[r] = local /\ \A q \in Request \ {r} : req'[q] = req[q]
  BY DEF TypeOK, Goto

\* The goroutines that took no step remember what they did.
LEMMA OthersRemember ==
  ASSUME Grows, NEW r \in Request,
         \A q \in Request : Remembered(q),
         \A q \in Request \ {r} : req'[q] = req[q],
         Remembered(r)'
  PROVE  \A q \in Request : Remembered(q)'
  BY RememberedStable

\* A goroutine that goes on with a local state of which Remembered holds.
LEMMA GotoStep ==
  ASSUME TypeOK, Grows, NEW r \in Request, NEW local, Goto(r, local),
         \A q \in Request : Remembered(q),
         req'[r] = local => Remembered(r)'
  PROVE  \A q \in Request : Remembered(q)'
  BY GotoReq, OthersRemember

\* An answer carries issued pairs only.
LEMMA AnswerStep ==
  ASSUME TypeOK, Grows, NEW r \in Request, NEW op, NEW code, NEW pairs,
         Answer(r, op, code, pairs), pairs \subseteq Issued',
         \A q \in Request : Remembered(q)
  PROVE  \A q \in Request : Remembered(q)'
<1>1. Goto(r, [pc |-> "respond", op |-> op, code |-> code, pairs |-> pairs])
  BY DEF Answer
<1>2. req'[r] = [pc |-> "respond", op |-> op, code |-> code, pairs |-> pairs]
      => Remembered(r)'
  BY DEF Remembered
<1> QED
  BY <1>1, <1>2, GotoStep

\* A refusal carries none.
LEMMA RefusalStep ==
  ASSUME TypeOK, Grows, NEW r \in Request, NEW op, NEW code, Answer(r, op, code, {}),
         \A q \in Request : Remembered(q)
  PROVE  \A q \in Request : Remembered(q)'
  BY AnswerStep

LEMMA InvIssue ==
  ASSUME IInv, NEW r \in Request, IssueLookup(r) \/ IssueTokensTx(r)
  PROVE  Stored' /\ \A q \in Request : Remembered(q)'
<1> USE DEF IInv
<1>1. CASE IssueLookup(r)
  <2>1. Stored' /\ Grows
    BY <1>1, StoredKept DEF IssueLookup
  <2>2. CASE Answer(r, "issue", 500, {})
    BY <2>1, <2>2, RefusalStep
  <2>3. ASSUME NEW guid \in Guid, NEW meta \in UserMetadata,
               Goto(r, [pc |-> "insert", guid |-> guid, meta |-> meta, at |-> now,
                        found |-> {u.id : u \in GetUserByGUID(users, guid)}])
        PROVE  \A q \in Request : Remembered(q)'
    <3> DEFINE found == {u.id : u \in GetUserByGUID(users, guid)}
               local == [pc |-> "insert", guid |-> guid, meta |-> meta, at |-> now,
                         found |-> found]
    <3>1. \A id \in found : GetUserByID(users', id) # {}
      BY <1>1 DEF IssueLookup, store, GetUserByGUID, GetUserByID
    <3>2. req'[r] = local => Remembered(r)'
      <4> SUFFICES ASSUME req'[r] = local  PROVE Remembered(r)'
        OBVIOUS
      <4>1. req'[r].pc = "insert" /\ req'[r].found = found
        OBVIOUS
      <4> HIDE DEF local, found
      <4> QED
        BY <3>1, <4>1 DEF Remembered
    <3> QED
      BY <2>1, <2>3, <3>2, GotoStep
  <2> QED
    BY <1>1, <2>1, <2>2, <2>3 DEF IssueLookup
<1>2. CASE IssueTokensTx(r)
  <2>1. /\ req[r].pc = "insert"
        /\ UNCHANGED <<rotated, redis, webhook, delivered, now>>
    BY <1>2 DEF IssueTokensTx
  <2>2. CASE /\ UNCHANGED <<users, sessions, tokens>>
             /\ Answer(r, "issue", 500, {})
    <3>1. Stored' /\ Grows
      BY <2>1, <2>2, StoredKept DEF store
    <3> QED
      BY <2>2, <3>1, RefusalStep
  <2>3. ASSUME NEW p \in Fresh, NEW id,
               IssueRows(id, p, req[r]),
               \/ UNCHANGED users /\ id \in req[r].found
               \/ users' = CreateUser(users, id, req[r].guid),
               Answer(r, "issue", 200, {p}) \/ Answer(r, "issue", 500, {})
        PROVE  Stored' /\ \A q \in Request : Remembered(q)'
    <3>1. users \subseteq users' /\ GetUserByID(users', id) # {}
      <4>1. CASE UNCHANGED users /\ id \in req[r].found
        BY <2>1, <4>1 DEF Remembered
      <4>2. CASE users' = CreateUser(users, id, req[r].guid)
        <5>1. /\ users' = users \cup {[id |-> id, guid |-> req[r].guid]}
              /\ [id |-> id, guid |-> req[r].guid].id = id
          BY <4>2 DEF CreateUser
        <5> QED
          BY <5>1 DEF GetUserByID
      <4> QED
        BY <2>3, <4>1, <4>2
    <3>2. Stored' /\ Grows /\ p \in Issued'
      BY <2>1, <2>3, <3>1, StoredIssue
    <3>3. CASE Answer(r, "issue", 500, {})
      BY <3>2, <3>3, RefusalStep
    <3>4. CASE Answer(r, "issue", 200, {p})
      <4>1. {p} \subseteq Issued'
        BY <3>2
      <4> QED
        BY <3>2, <3>4, <4>1, AnswerStep
    <3> QED
      BY <2>3, <3>2, <3>3, <3>4
  <2> QED
    BY <1>2, <2>2, <2>3 DEF IssueTokensTx
<1> QED
  BY <1>1, <1>2

LEMMA InvRefresh ==
  ASSUME IInv, NEW r \in Request,
         \/ RefreshMalformed(r) \/ GetActiveSession(r) \/ DetectTheft(r)
         \/ RevokeSessions(r) \/ RevokeCommit(r) \/ RotateTokensTx(r)
  PROVE  Stored' /\ \A q \in Request : Remembered(q)'
<1> USE DEF IInv
<1>1. CASE RefreshMalformed(r)
  <2>1. Stored' /\ Grows
    BY <1>1, StoredKept DEF RefreshMalformed
  <2> QED
    BY <1>1, <2>1, RefusalStep DEF RefreshMalformed
<1>2. CASE GetActiveSession(r)
  <2>1. Stored' /\ Grows
    BY <1>2, StoredKept DEF GetActiveSession
  <2>2. CASE Answer(r, "refresh", 401, {})
    BY <2>1, <2>2, RefusalStep
  <2>3. ASSUME NEW token \in RefreshToken,
               GetActiveSessionBySelector(sessions, token.selector) = {},
               Goto(r, [pc |-> "find", selector |-> token.selector])
        PROVE  \A q \in Request : Remembered(q)'
    <3>1. token.selector \in Issued \cup {Unknown}
      BY DEF RefreshToken, Presentable, Stored, HistoryIssued
    <3>2. \A s \in sessions : s.selector = token.selector => s.status = "used"
      BY <2>3 DEF GetActiveSessionBySelector, TypeOK, RefreshSession
    <3>3. sessions' = sessions /\ Issued' = Issued
      BY <1>2 DEF GetActiveSession, store, Issued
    <3>4. req'[r] = [pc |-> "find", selector |-> token.selector] => Remembered(r)'
      BY <3>1, <3>2, <3>3 DEF Remembered
    <3> QED
      BY <2>1, <2>3, <3>4, GotoStep
  <2>4. ASSUME NEW token \in RefreshToken, NEW user,
               Goto(r, [pc |-> "revoke", user |-> user, reason |-> "ua",
                        selector |-> token.selector])
        PROVE  \A q \in Request : Remembered(q)'
    <3>1. req'[r] = [pc |-> "revoke", user |-> user, reason |-> "ua",
                     selector |-> token.selector] => Remembered(r)'
      BY DEF Remembered
    <3> QED
      BY <2>1, <2>4, <3>1, GotoStep
  <2>5. ASSUME NEW token \in RefreshToken, NEW meta,
               NEW s \in GetActiveSessionBySelector(sessions, token.selector),
               Goto(r, [pc |-> "rotate", selector |-> token.selector,
                        user |-> s.user, meta |-> meta, at |-> now])
        PROVE  \A q \in Request : Remembered(q)'
    <3>1. \E t \in tokens' : t.jti = token.selector /\ t.user = s.user
      BY <2>1 DEF GetActiveSessionBySelector, Stored, SessionBinding, Grows
    <3>2. req'[r] = [pc |-> "rotate", selector |-> token.selector,
                     user |-> s.user, meta |-> meta, at |-> now] => Remembered(r)'
      BY <3>1 DEF Remembered
    <3> QED
      BY <2>1, <2>5, <3>2, GotoStep
  <2>6. PICK jti \in Presentable, token \in RefreshToken, meta \in UserMetadata :
          \/ /\ GetActiveSessionBySelector(sessions, token.selector) = {}
             /\ Goto(r, [pc |-> "find", selector |-> token.selector])
          \/ \E s \in GetActiveSessionBySelector(sessions, token.selector) :
               CheckSession(r, s, jti, token, meta)
          \/ Answer(r, "refresh", 401, {})
    BY <1>2 DEF GetActiveSession
  <2>7. ASSUME NEW s \in GetActiveSessionBySelector(sessions, token.selector),
               CheckSession(r, s, jti, token, meta)
        PROVE  \A q \in Request : Remembered(q)'
    BY <2>2, <2>4, <2>5, <2>7 DEF CheckSession
  <2> QED
    BY <2>1, <2>2, <2>3, <2>6, <2>7
<1>3. CASE DetectTheft(r)
  <2>1. Stored' /\ Grows
    BY <1>3, StoredKept DEF DetectTheft
  <2>2. CASE Answer(r, "refresh", 401, {})
    BY <2>1, <2>2, RefusalStep
  <2>3. ASSUME NEW s \in FindSessionBySelector(sessions, req[r].selector),
               Goto(r, [pc |-> "revoke", user |-> s.user, reason |-> "reuse",
                        selector |-> s.selector])
        PROVE  \A q \in Request : Remembered(q)'
    <3>1. s \in sessions /\ s.status = "used"
      BY <1>3 DEF FindSessionBySelector, Remembered, DetectTheft
    <3>2. Successors(s.selector) # {}
      BY <3>1 DEF Stored, StatusMatchesHistory
    <3>3. rotated' = rotated
      BY <1>3 DEF DetectTheft, store
    <3>4. {q \in Pair : <<s.selector, q>> \in rotated'} # {}
      BY <3>2, <3>3 DEF Successors
    <3>5. req'[r] = [pc |-> "revoke", user |-> s.user, reason |-> "reuse",
                     selector |-> s.selector] => Remembered(r)'
      BY <3>4 DEF Remembered, Successors
    <3> QED
      BY <2>1, <2>3, <3>5, GotoStep
  <2> QED
    BY <1>3, <2>1, <2>2, <2>3 DEF DetectTheft
<1>4. CASE RevokeSessions(r)
  <2> DEFINE rows == UserSessions(sessions, req[r].user)
  <2>1. Stored' /\ Grows
    BY <1>4, StoredKept DEF RevokeSessions
  <2>2. rows \subseteq Issued'
    BY <2>1, SnapshotIssued DEF Grows, Issued
  <2>3. req'[r] = [pc |-> "revoking", rows |-> rows] => Remembered(r)'
    BY <2>2 DEF Remembered
  <2> QED
    BY <1>4, <2>1, <2>3, GotoStep DEF RevokeSessions
<1>6. CASE RevokeCommit(r)
  <2>1. Stored' /\ Grows
    <3>1. CASE sessions' = DeleteAllUserSessions(sessions, req[r].rows)
      BY <1>6, <3>1, StoredDelete DEF RevokeCommit, webhook
    <3>2. CASE UNCHANGED sessions
      BY <1>6, <3>2, StoredKept DEF RevokeCommit, store
    <3> QED
      BY <1>6, <3>1, <3>2 DEF RevokeCommit
  <2> QED
    BY <1>6, <2>1, RefusalStep DEF RevokeCommit
<1>5. CASE RotateTokensTx(r)
  <2>1. /\ req[r].pc = "rotate" /\ req[r].selector \in Issued
        /\ UNCHANGED <<users, redis, webhook, delivered, now>>
    BY <1>5 DEF RotateTokensTx, Remembered, Issued
  <2>2. CASE /\ UNCHANGED <<sessions, tokens, rotated>>
             /\ Answer(r, "refresh", 401, {})
    <3>1. Stored' /\ Grows
      BY <2>1, <2>2, StoredKept DEF store
    <3> QED
      BY <2>2, <3>1, RefusalStep
  <2>3. ASSUME NEW p \in Fresh, NEW at \in req[r].at..now,
               GetUserByID(users, req[r].user) # {},
               sessions' = CreateSession(MarkSessionAsUsed(sessions, req[r].selector),
                               NewSession(p, p, req[r].user, req[r].meta, at)),
               tokens' = tokens \cup {CreateAccessTokenWithJTI(req[r].user, at, p)},
               rotated' = rotated \cup {<<req[r].selector, p>>},
               Answer(r, "refresh", 200, {p}) \/ Answer(r, "refresh", 401, {})
        PROVE  Stored' /\ \A q \in Request : Remembered(q)'
    <3>1. Stored' /\ Grows /\ p \in Issued'
      BY <2>1, <2>3, StoredRotate
    <3>2. CASE Answer(r, "refresh", 401, {})
      BY <3>1, <3>2, RefusalStep
    <3>3. CASE Answer(r, "refresh", 200, {p})
      <4>1. {p} \subseteq Issued'
        BY <3>1
      <4> QED
        BY <3>1, <3>3, <4>1, AnswerStep
    <3> QED
      BY <2>3, <3>1, <3>2, <3>3
  <2> QED
    BY <1>5, <2>2, <2>3 DEF RotateTokensTx
<1> QED
  BY <1>1, <1>2, <1>3, <1>4, <1>5, <1>6

LEMMA InvBearer ==
  ASSUME IInv, NEW r \in Request,
         \/ AuthenticateAccessToken(r) \/ LogoutValidate(r) \/ LogoutInvalidate(r)
         \/ LogoutDelete(r) \/ LogoutCommit(r) \/ GetPublicGUID(r)
  PROVE  Stored' /\ \A q \in Request : Remembered(q)'
<1> USE DEF IInv
\* The steps of Logout hold on to a token of the service.
<1>a. ASSUME NEW pc \in {"validate", "invalidate", "delete"}, NEW t \in tokens,
             Grows, Goto(r, [pc |-> pc, token |-> t])
      PROVE  \A q \in Request : Remembered(q)'
  <2>1. t \in tokens'
    BY <1>a DEF Grows
  <2>2. req'[r] = [pc |-> pc, token |-> t] => Remembered(r)'
    BY <2>1 DEF Remembered
  <2> QED
    BY <1>a, <2>2, GotoStep
<1>1. CASE AuthenticateAccessToken(r)
  <2>1. Stored' /\ Grows
    BY <1>1, StoredKept DEF AuthenticateAccessToken
  <2>2. ASSUME NEW op, Answer(r, op, 401, {})
        PROVE  \A q \in Request : Remembered(q)'
    BY <2>1, <2>2, RefusalStep
  <2>3. ASSUME NEW t \in tokens, Goto(r, [pc |-> "validate", token |-> t])
        PROVE  \A q \in Request : Remembered(q)'
    BY <2>1, <2>3, <1>a
  <2>4. ASSUME NEW t \in tokens, Goto(r, [pc |-> "guid", user |-> t.user])
        PROVE  \A q \in Request : Remembered(q)'
    <3>1. req'[r] = [pc |-> "guid", user |-> t.user] => Remembered(r)'
      BY DEF Remembered
    <3> QED
      BY <2>1, <2>4, <3>1, GotoStep
  <2>5. PICK op \in {"logout", "guid"} :
          \/ \E t \in tokens :
               Goto(r, IF op = "logout" THEN [pc |-> "validate", token |-> t]
                                        ELSE [pc |-> "guid", user |-> t.user])
          \/ Answer(r, op, 401, {})
    BY <1>1 DEF AuthenticateAccessToken
  <2> QED
    BY <2>1, <2>2, <2>3, <2>4, <2>5
<1>2. CASE LogoutValidate(r)
  <2>1. Stored' /\ Grows
    BY <1>2, StoredKept DEF LogoutValidate
  <2>2. req[r].token \in tokens
    BY <1>2 DEF LogoutValidate, Remembered
  <2>3. CASE Answer(r, "logout", 500, {})
    BY <2>1, <2>3, RefusalStep
  <2>4. CASE Goto(r, [pc |-> "invalidate", token |-> req[r].token])
    BY <2>1, <2>2, <2>4, <1>a
  <2> QED
    BY <1>2, <2>1, <2>3, <2>4 DEF LogoutValidate
<1>3. CASE LogoutInvalidate(r)
  <2>1. req[r].token \in tokens
    BY <1>3 DEF LogoutInvalidate, Remembered
  <2>2. UNCHANGED <<store, delivered, now>>
    BY <1>3 DEF LogoutInvalidate
  <2>3. Stored' /\ Grows
    <3>1. CASE denylist' = InvalidateAccessToken(denylist, req[r].token, now)
      <4>1. invalidated' \in {invalidated, invalidated \cup {req[r].token.jti}}
        BY <1>3 DEF LogoutInvalidate
      <4> QED
        BY <2>1, <2>2, <3>1, <4>1, StoredInvalidate
    <3>2. CASE denylist' = denylist /\ invalidated' = invalidated
      BY <2>2, <3>2, StoredKept DEF redis
    <3> QED
      BY <1>3, <3>1, <3>2 DEF LogoutInvalidate
  <2>4. CASE Answer(r, "logout", 500, {})
    BY <2>3, <2>4, RefusalStep
  <2>5. CASE Goto(r, [pc |-> "delete", token |-> req[r].token])
    BY <2>1, <2>3, <2>5, <1>a
  <2> QED
    BY <1>3, <2>3, <2>4, <2>5 DEF LogoutInvalidate
<1>4. CASE LogoutDelete(r)
  <2> DEFINE t    == req[r].token
             rows == UserSessions(sessions, t.user)
  <2>1. Stored' /\ Grows
    BY <1>4, StoredKept DEF LogoutDelete
  <2>2. t \in tokens' /\ rows \subseteq Issued'
    BY <1>4, <2>1, SnapshotIssued DEF LogoutDelete, Remembered, Grows, Issued
  <2>3. req'[r] = [pc |-> "deleting", token |-> t, rows |-> rows] => Remembered(r)'
    BY <2>2 DEF Remembered
  <2> QED
    BY <1>4, <2>1, <2>3, GotoStep DEF LogoutDelete
<1>6. CASE LogoutCommit(r)
  <2>1. Stored' /\ Grows
    <3>1. CASE sessions' = DeleteAllUserSessions(sessions, req[r].rows)
      BY <1>6, <3>1, StoredDelete DEF LogoutCommit
    <3>2. CASE UNCHANGED sessions
      BY <1>6, <3>2, StoredKept DEF LogoutCommit, store
    <3> QED
      BY <1>6, <3>1, <3>2 DEF LogoutCommit
  <2> QED
    BY <1>6, <2>1, RefusalStep DEF LogoutCommit
<1>5. CASE GetPublicGUID(r)
  <2>1. Stored' /\ Grows
    BY <1>5, StoredKept DEF GetPublicGUID
  <2> QED
    BY <1>5, <2>1, RefusalStep DEF GetPublicGUID
<1> QED
  BY <1>1, <1>2, <1>3, <1>4, <1>5, <1>6

LEMMA InvOther ==
  ASSUME IInv,
         \/ \E r \in Request : Respond(r)
         \/ \E h \in hooks : SendWebhook(h)
         \/ Tick
         \/ Crash
         \/ UNCHANGED vars
  PROVE  Stored' /\ \A q \in Request : Remembered(q)'
<1> USE DEF IInv
<1>1. ASSUME NEW r \in Request, Respond(r)
      PROVE  Stored' /\ \A q \in Request : Remembered(q)'
  <2>1. /\ users' = users /\ sessions' = sessions /\ tokens' = tokens
        /\ rotated' = rotated /\ denylist' = denylist /\ invalidated' = invalidated
        /\ now' = now
    BY <1>1 DEF Respond, store, redis
  <2>2. delivered' \subseteq Issued /\ Issued' = Issued
    BY <1>1, <2>1 DEF Respond, Remembered, Stored, HistoryIssued, Issued
  <2>3. TokensDistinct'
    BY <2>1 DEF Stored, TokensDistinct
  <2>4. HistoryIssued'
    BY <2>1, <2>2 DEF Stored, HistoryIssued
  <2>5. StatusMatchesHistory'
    BY <2>1 DEF Stored, StatusMatchesHistory, Successors
  <2>6. SessionBinding'
    BY <2>1 DEF Stored, SessionBinding
  <2>7. RevokedListed'
    BY <2>1 DEF Stored, RevokedListed
  <2>8. Grows
    BY <2>1 DEF Grows
  <2>9. req'[r] = Idle => Remembered(r)'
    BY DEF Remembered, Idle
  <2>10. Goto(r, Idle)
    BY <1>1 DEF Respond
  <2> QED
    BY <2>3, <2>4, <2>5, <2>6, <2>7, <2>8, <2>9, <2>10, GotoStep DEF Stored
<1>2. ASSUME NEW h \in hooks, SendWebhook(h)
      PROVE  Stored' /\ \A q \in Request : Remembered(q)'
  <2>1. Stored' /\ Grows
    BY <1>2, StoredKept DEF SendWebhook
  <2>2. req' = req
    BY <1>2 DEF SendWebhook
  <2> QED
    BY <2>1, <2>2, RememberedStable
<1>3. CASE Tick
  <2>1. Stored' /\ Grows
    BY <1>3, StoredTick
  <2>2. req' = req
    BY <1>3 DEF Tick
  <2> QED
    BY <2>1, <2>2, RememberedStable
<1>4. CASE Crash
  <2>1. Stored' /\ Grows
    BY <1>4, StoredKept DEF Crash
  <2>2. ASSUME NEW q \in Request  PROVE Remembered(q)'
    <3>1. req'[q].pc = "idle"
      BY <1>4 DEF Crash, Idle
    <3> QED
      BY <3>1 DEF Remembered
  <2> QED
    BY <2>1, <2>2
<1>5. CASE UNCHANGED vars
  <2>1. Stored' /\ Grows
    BY <1>5, StoredKept DEF vars
  <2>2. req' = req
    BY <1>5 DEF vars
  <2> QED
    BY <2>1, <2>2, RememberedStable
<1> QED
  BY <1>1, <1>2, <1>3, <1>4, <1>5

-----------------------------------------------------------------------------
(* The theorems *)

LEMMA InvInit == Init => IInv
<1> SUFFICES ASSUME Init  PROVE IInv
  OBVIOUS
<1>1. TypeOK
  BY TypeInit
<1>2. Stored
  BY DEF Init, Stored, TokensDistinct, HistoryIssued, StatusMatchesHistory,
         SessionBinding, RevokedListed
<1>3. \A r \in Request : Remembered(r)
  BY DEF Init, Remembered, Idle
<1> QED
  BY <1>1, <1>2, <1>3 DEF IInv

LEMMA InvNext == IInv /\ [Next]_vars => IInv'
<1> SUFFICES ASSUME IInv, [Next]_vars  PROVE IInv'
  OBVIOUS
<1>1. TypeOK'
  BY TypeNext DEF IInv
<1>2. Stored' /\ \A q \in Request : Remembered(q)'
  <2>1. ASSUME NEW r \in Request, Arrive(r) \/ Serve(r)
        PROVE  Stored' /\ \A q \in Request : Remembered(q)'
    BY <2>1, InvIssue, InvRefresh, InvBearer, InvOther DEF Arrive, Serve
  <2> QED
    BY <2>1, InvOther DEF Next
<1> QED
  BY <1>1, <1>2 DEF IInv

LEMMA Invariant == Spec => []IInv
  BY InvInit, InvNext, PTL DEF Spec

\* Rotation is all or nothing, and a token once exchanged is never active
\* again, for any number of overlapping refreshes, logouts and crashes.
THEOREM RotationRecorded == Spec => []StatusMatchesHistory
<1>1. IInv => StatusMatchesHistory
  BY DEF IInv, Stored
<1> QED
  BY <1>1, Invariant, PTL

\* The two tokens of a pair stay bound to each other and to one user, and a
\* selector names one row.
THEOREM PairsBound == Spec => []SessionBinding
<1>1. IInv => SessionBinding
  BY DEF IInv, Stored
<1> QED
  BY <1>1, Invariant, PTL

\* detectTheftAndRevoke never takes a token for reused that has not been
\* exchanged before, whatever happened between its two lookups.
THEOREM NoFalseAlarm == Spec => []TheftOnlyAfterExchange
<1>1. IInv => TheftOnlyAfterExchange
  BY DEF IInv, Remembered, TheftOnlyAfterExchange
<1> QED
  BY <1>1, Invariant, PTL

\* A token whose revocation was reported is refused until its exp, for any
\* lifetimes and leeway.
THEOREM RevocationHolds == Spec => []RevokedTokenRejected
<1>1. IInv => RevokedTokenRejected
  <2> SUFFICES ASSUME IInv, NEW t \in tokens, t.jti \in invalidated, now <= t.exp
               PROVE  ~ValidateAccessToken(denylist, t, now)
    BY DEF RevokedTokenRejected
  <2>1. t.exp \in Nat /\ now \in Nat
    BY DEF IInv, TypeOK, AccessToken
  <2>2. \E e \in denylist : e.jti = t.jti
    BY <2>1 DEF IInv, Stored, RevokedListed
  <2> QED
    BY <2>2 DEF ValidateAccessToken, IsTokenInvalidated
<1> QED
  BY <1>1, Invariant, PTL

\* InvalidateToken makes a key without expiry only of a token past its exp.
LEMMA PersistentInvalidate ==
  ASSUME TypeOK, PersistentOnlyExpired, NEW t \in tokens,
         denylist' = InvalidateAccessToken(denylist, t, now),
         UNCHANGED <<tokens, now>>
  PROVE  PersistentOnlyExpired'
<1> SUFFICES ASSUME NEW e \in denylist', e.persistent
             PROVE  \E u \in tokens : u.jti = e.jti /\ u.exp <= now
  BY DEF PersistentOnlyExpired
<1>1. CASE e \in denylist
  BY <1>1 DEF PersistentOnlyExpired
<1>2. CASE e \notin denylist
  <2> DEFINE n == [jti |-> t.jti, persistent |-> t.exp - now <= 0,
                   until |-> IF t.exp - now > 0 THEN now + (t.exp - now) ELSE 0]
  <2>1. e = n
    BY <1>2 DEF InvalidateAccessToken, InvalidateToken
  <2>2. n.jti = t.jti /\ n.persistent = (t.exp - now <= 0)
    OBVIOUS
  <2> HIDE DEF n
  <2>3. e.jti = t.jti /\ t.exp - now <= 0
    BY <2>1, <2>2
  <2>4. t.exp \in Nat /\ now \in Nat
    BY DEF TypeOK, AccessToken
  <2> QED
    BY <2>3, <2>4
<1> QED
  BY <1>1, <1>2

LEMMA PersistentNext ==
  ASSUME IInv, PersistentOnlyExpired, [Next]_vars
  PROVE  PersistentOnlyExpired'
<1>1. ASSUME denylist' = denylist, tokens \subseteq tokens', now' = now
      PROVE  PersistentOnlyExpired'
  BY <1>1 DEF PersistentOnlyExpired
<1>2. ASSUME NEW r \in Request, LogoutInvalidate(r)
      PROVE  PersistentOnlyExpired'
  <2>1. req[r].token \in tokens
    BY <1>2 DEF LogoutInvalidate, IInv, Remembered
  <2>2. UNCHANGED <<tokens, now>>
    BY <1>2 DEF LogoutInvalidate, store
  <2>3. CASE denylist' = InvalidateAccessToken(denylist, req[r].token, now)
    BY <2>1, <2>2, <2>3, PersistentInvalidate DEF IInv
  <2>4. CASE denylist' = denylist
    BY <1>1, <2>2, <2>4
  <2> QED
    BY <1>2, <2>3, <2>4 DEF LogoutInvalidate
<1>3. ASSUME NEW r \in Request,
             \/ Arrive(r) \/ IssueTokensTx(r) \/ DetectTheft(r) \/ RevokeSessions(r)
             \/ RevokeCommit(r) \/ RotateTokensTx(r) \/ LogoutValidate(r)
             \/ LogoutDelete(r) \/ LogoutCommit(r) \/ GetPublicGUID(r) \/ Respond(r)
      PROVE  PersistentOnlyExpired'
  <2>1. denylist' = denylist /\ now' = now
    BY <1>3 DEF Arrive, IssueLookup, RefreshMalformed, GetActiveSession,
         AuthenticateAccessToken, IssueTokensTx, DetectTheft, RevokeSessions,
         RevokeCommit, RotateTokensTx, LogoutValidate, LogoutDelete, LogoutCommit,
         GetPublicGUID, Respond, redis
  <2>2. tokens \subseteq tokens'
    BY <1>3 DEF Arrive, IssueLookup, RefreshMalformed, GetActiveSession,
         AuthenticateAccessToken, IssueTokensTx, IssueRows, DetectTheft,
         RevokeSessions, RevokeCommit, RotateTokensTx, LogoutValidate, LogoutDelete,
         LogoutCommit, GetPublicGUID, Respond, store
  <2> QED
    BY <1>1, <2>1, <2>2
<1>4. CASE Tick
  <2>1. now' = now + 1 /\ denylist' \subseteq denylist /\ tokens' = tokens
    BY <1>4 DEF Tick, Unexpired, store
  <2>2. now \in Nat /\ \A t \in tokens : t.exp \in Nat
    BY DEF IInv, TypeOK, AccessToken
  <2>3. \A t \in tokens : t.exp <= now => t.exp <= now + 1
    BY <2>2
  <2> QED
    BY <2>1, <2>3 DEF PersistentOnlyExpired
<1>5. CASE Crash \/ (\E h \in hooks : SendWebhook(h)) \/ UNCHANGED vars
  BY <1>1, <1>5 DEF Crash, SendWebhook, vars, store, redis
<1> QED
  BY <1>2, <1>3, <1>4, <1>5 DEF Next, Serve

\* Whatever fails and however late a Logout comes, a key of the denylist that Redis
\* never drops belongs to a token revoked after its exp: the denylist does not grow
\* by the tokens revoked in time.
THEOREM DenylistBounded == Spec => []PersistentOnlyExpired
<1>1. Init => PersistentOnlyExpired
  BY DEF Init, PersistentOnlyExpired
<1> QED
  BY <1>1, PersistentNext, Invariant, PTL DEF Spec
=============================================================================
