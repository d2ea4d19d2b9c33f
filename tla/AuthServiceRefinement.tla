------------------------- MODULE AuthServiceRefinement -------------------------
(***************************************************************************)
(* AuthService implements SessionLineage, for any number of requests,      *)
(* users and pairs: every step of a handler, the clock, the webhooks and a *)
(* crash is a step of SessionLineage or changes nothing that it has.       *)
(***************************************************************************)
EXTENDS AuthServiceSafety

\* A step of SessionLineage, or none.
LineageStep == [Lineage!Next]_(Lineage!vars)

USE DEF Idle

-----------------------------------------------------------------------------
(* The refinement mapping in terms of the tables *)

\* What the status of a pair says of the rows of sessions.
StatusFacts ==
  /\ Status \in [Pair -> {"none", "active", "used", "revoked"}]
  /\ \A p \in Pair :
       /\ Status[p] = "none" <=> p \notin Issued
       /\ Status[p] = "active" <=>
            \E s \in sessions : s.selector = p /\ s.status = "active"
       /\ Status[p] = "used" <=>
            \E s \in sessions : s.selector = p /\ s.status = "used"

\* A row has one selector, and a row that is not active is used.
LEMMA StatusIs == IInv => StatusFacts
<1> SUFFICES ASSUME IInv  PROVE StatusFacts
  OBVIOUS
<1>1. \A s \in sessions : s.selector \in Issued /\ s.status \in {"active", "used"}
  BY RowsIssued DEF IInv, TypeOK, RefreshSession
<1>2. \A s1, s2 \in sessions : s1.selector = s2.selector => s1 = s2
  BY DEF IInv, Stored, SessionBinding
<1>3. ASSUME NEW p \in Pair
      PROVE  /\ Status[p] \in {"none", "active", "used", "revoked"}
             /\ Status[p] = "none" <=> p \notin Issued
             /\ Status[p] = "active" <=>
                  \E s \in sessions : s.selector = p /\ s.status = "active"
             /\ Status[p] = "used" <=>
                  \E s \in sessions : s.selector = p /\ s.status = "used"
  <2>1. CASE \E s \in sessions : s.selector = p /\ s.status = "active"
    BY <1>1, <1>2, <2>1 DEF Status, GetActiveSessionBySelector
  <2>2. CASE ~\E s \in sessions : s.selector = p /\ s.status = "active"
    <3>1. GetActiveSessionBySelector(sessions, p) = {}
      BY <2>2 DEF GetActiveSessionBySelector
    <3>2. HasRow(p) <=> \E s \in sessions : s.selector = p /\ s.status = "used"
      BY <1>1, <2>2 DEF HasRow
    <3>3. HasRow(p) => p \in Issued
      BY <1>1 DEF HasRow
    <3>4. Status[p] = IF HasRow(p) THEN "used"
                      ELSE IF p \in Issued THEN "revoked" ELSE "none"
      BY <3>1 DEF Status
    <3> QED
      BY <2>2, <3>2, <3>3, <3>4
  <2> QED
    BY <2>1, <2>2
<1>4. Status \in [Pair -> {"none", "active", "used", "revoked"}]
  BY <1>3 DEF Status
<1> QED
  BY <1>3, <1>4 DEF StatusFacts

LEMMA StatusIsNext == IInv' => StatusFacts'
  BY StatusIs, PTL

\* The owner of a pair is the user its access token names.
LEMMA OwnerIs ==
  ASSUME IInv, NEW t \in tokens
  PROVE  t.jti \in Pair /\ Owner[t.jti] = {t.user}
<1>1. t.jti \in Pair
  BY DEF IInv, TypeOK, AccessToken
<1>2. {x \in tokens : x.jti = t.jti} = {t}
  BY DEF IInv, Stored, TokensDistinct
<1> QED
  BY <1>1, <1>2 DEF Owner

\* The snapshot of a DELETE is what its user has alive.
LEMMA SnapshotIsLive ==
  ASSUME IInv, NEW u
  PROVE  UserSessions(sessions, u) = {p \in Lineage!Live : Owner[p] = {u}}
<1>1. \A p : p \in Lineage!Live <=> p \in Pair /\ \E s \in sessions : s.selector = p
  BY StatusIs DEF Lineage!Live, StatusFacts, IInv, TypeOK, RefreshSession
<1>2. ASSUME NEW s \in sessions
      PROVE  s.selector \in Pair /\ Owner[s.selector] = {s.user}
  <2>1. PICK t \in tokens : t.jti = s.selector /\ t.user = s.user
    BY DEF IInv, Stored, SessionBinding
  <2> QED
    BY <2>1, OwnerIs
<1>3. \A p : p \in UserSessions(sessions, u) <=>
               \E s \in sessions : s.selector = p /\ s.user = u
  BY DEF UserSessions
<1> QED
  BY <1>1, <1>2, <1>3

-----------------------------------------------------------------------------
(* Steps of one goroutine that leave the tables alone *)

LEMMA TablesKept ==
  ASSUME UNCHANGED <<sessions, tokens, rotated>>
  PROVE  Status' = Status /\ Owner' = Owner
<1>1. sessions' = sessions /\ tokens' = tokens
  OBVIOUS
<1> QED
  BY <1>1 DEF Status, Owner, HasRow, Issued

\* What a goroutine may exchange or is about to revoke is in its local state.
LEMMA HeldByOne ==
  ASSUME TypeOK, NEW r \in Request, NEW local, Goto(r, local)
  PROVE  /\ Granted' = [Granted EXCEPT ![r] =
                          IF local.pc = "rotate" THEN {local.selector} ELSE {}]
         /\ Scope' = [Scope EXCEPT ![r] =
                        IF local.pc \in {"revoking", "deleting"} THEN local.rows ELSE {}]
<1>1. req'[r] = local /\ \A q \in Request \ {r} : req'[q] = req[q]
  BY GotoReq
<1> QED
  BY <1>1 DEF Granted, Scope

LEMMA HeldType ==
  ASSUME TypeOK
  PROVE  Granted \in [Request -> SUBSET Pair] /\ Scope \in [Request -> SUBSET Pair]
<1>1. \A r \in Request :
        /\ req[r].pc = "rotate" => req[r].selector \in Pair
        /\ req[r].pc \in {"revoking", "deleting"} => req[r].rows \in SUBSET Pair
  BY LocalFields
<1> QED
  BY <1>1 DEF Granted, Scope

\* A goroutine goes on with nothing to exchange or to revoke.
LEMMA StepDrop ==
  ASSUME TypeOK, NEW r \in Request, NEW local, Goto(r, local),
         local.pc \notin {"rotate", "revoking", "deleting"},
         UNCHANGED <<sessions, tokens, rotated>>
  PROVE  LineageStep
<1>1. Status' = Status /\ Owner' = Owner /\ rotated' = rotated
  BY TablesKept
<1>2. Granted' = [Granted EXCEPT ![r] = {}] /\ Scope' = [Scope EXCEPT ![r] = {}]
  BY HeldByOne
<1>3. Granted \in [Request -> SUBSET Pair] /\ Scope \in [Request -> SUBSET Pair]
  BY HeldType
<1>4. CASE r \in Lineage!Busy
  <2>1. Lineage!GiveUp({r})
    BY <1>1, <1>2, <1>3 DEF Lineage!GiveUp
  <2>2. {r} \in SUBSET Lineage!Busy
    BY <1>4
  <2> QED
    BY <2>1, <2>2 DEF LineageStep, Lineage!Next
<1>5. CASE r \notin Lineage!Busy
  <2>1. Granted[r] = {} /\ Scope[r] = {}
    BY <1>5 DEF Lineage!Busy
  <2>2. Granted' = Granted /\ Scope' = Scope
    BY <1>2, <1>3, <2>1
  <2> QED
    BY <1>1, <2>2 DEF LineageStep, Lineage!vars
<1> QED
  BY <1>4, <1>5

LEMMA StepAnswer ==
  ASSUME TypeOK, NEW r \in Request, NEW op, NEW code, NEW pairs,
         Answer(r, op, code, pairs),
         UNCHANGED <<sessions, tokens, rotated>>
  PROVE  LineageStep
<1> DEFINE local == [pc |-> "respond", op |-> op, code |-> code, pairs |-> pairs]
<1>1. Goto(r, local) /\ local.pc = "respond"
  BY DEF Answer
<1> HIDE DEF local
<1> QED
  BY <1>1, StepDrop

\* RefreshTokens has seen an active row that it may exchange.
LEMMA StepGrant ==
  ASSUME IInv, NEW r \in Request, req[r] = Idle, NEW p, NEW u, NEW m, NEW at,
         GetActiveSessionBySelector(sessions, p) # {},
         Goto(r, [pc |-> "rotate", selector |-> p, user |-> u, meta |-> m, at |-> at]),
         UNCHANGED <<sessions, tokens, rotated>>
  PROVE  LineageStep
<1>1. Status' = Status /\ Owner' = Owner /\ rotated' = rotated
  BY TablesKept
<1>2. Granted' = [Granted EXCEPT ![r] = {p}] /\ Scope' = [Scope EXCEPT ![r] = {}]
  BY HeldByOne DEF IInv
<1>3. Granted[r] = {} /\ Scope[r] = {}
  BY DEF Granted, Scope
<1>4. Scope' = Scope
  BY <1>2, <1>3, HeldType DEF IInv
<1>5. p \in Pair /\ Status[p] = "active"
  BY StatusIs DEF StatusFacts, GetActiveSessionBySelector, IInv, TypeOK, RefreshSession
<1>6. r \notin Lineage!Busy
  BY <1>3 DEF Lineage!Busy
<1>7. Lineage!Grant(r, p)
  BY <1>1, <1>2, <1>4, <1>5, <1>6 DEF Lineage!Grant
<1> QED
  BY <1>5, <1>7 DEF LineageStep, Lineage!Next

\* A DELETE has taken its snapshot.
LEMMA StepSnapshot ==
  ASSUME IInv, NEW r \in Request, req[r].pc \in {"revoke", "delete"},
         NEW u \in UserID, NEW local,
         local.pc \in {"revoking", "deleting"},
         local.rows = UserSessions(sessions, u),
         Goto(r, local),
         UNCHANGED <<sessions, tokens, rotated>>
  PROVE  LineageStep
<1>1. Status' = Status /\ Owner' = Owner /\ rotated' = rotated
  BY TablesKept
<1>2. /\ Granted' = [Granted EXCEPT ![r] = {}]
      /\ Scope' = [Scope EXCEPT ![r] = UserSessions(sessions, u)]
  BY HeldByOne DEF IInv
<1>3. Granted[r] = {} /\ Scope[r] = {}
  BY DEF Granted, Scope
<1>4. Granted' = Granted
  BY <1>2, <1>3, HeldType DEF IInv
<1>5. r \notin Lineage!Busy
  BY <1>3 DEF Lineage!Busy
<1>6. Scope' = [Scope EXCEPT ![r] = {p \in Lineage!Live : Owner[p] = {u}}]
  BY <1>2, SnapshotIsLive
<1>7. Lineage!RevokeBegin(r, u)
  BY <1>1, <1>4, <1>5, <1>6 DEF Lineage!RevokeBegin
<1> QED
  BY <1>7 DEF LineageStep, Lineage!Next

-----------------------------------------------------------------------------
(* Steps that change the tables *)

\* A DELETE commits: its rows are gone, whatever has become of them.
LEMMA StepDeleted ==
  ASSUME IInv, IInv', NEW r \in Request, req[r].pc \in {"revoking", "deleting"},
         NEW local, local.pc = "respond", Goto(r, local),
         sessions' = DeleteAllUserSessions(sessions, req[r].rows),
         UNCHANGED <<tokens, rotated>>
  PROVE  LineageStep
<1> DEFINE rows == req[r].rows
<1>1. Granted' = [Granted EXCEPT ![r] = {}] /\ Scope' = [Scope EXCEPT ![r] = {}]
  BY HeldByOne DEF IInv
<1>2. Granted[r] = {} /\ Scope[r] = rows
  BY DEF Granted, Scope
<1>3. Granted' = Granted
  BY <1>1, <1>2, HeldType DEF IInv
<1>4. tokens' = tokens /\ rotated' = rotated /\ Issued' = Issued /\ Owner' = Owner
  BY DEF Issued, Owner
<1>5. sessions' = {s \in sessions : s.selector \notin rows}
  BY DEF DeleteAllUserSessions
<1>6. rows \subseteq Issued
  BY DEF IInv, Remembered
<1> HIDE DEF rows
<1>7. Status' = [p \in Pair |-> IF p \in rows THEN "revoked" ELSE Status[p]]
  <2>1. ASSUME NEW p \in Pair
        PROVE  Status'[p] = IF p \in rows THEN "revoked" ELSE Status[p]
    BY <1>4, <1>5, <1>6, StatusIs, StatusIsNext DEF StatusFacts
  <2>2. Status' \in [Pair -> {"none", "active", "used", "revoked"}]
    BY StatusIsNext DEF StatusFacts
  <2> QED
    BY <2>1, <2>2
<1>8. CASE rows # {}
  <2>1. Lineage!RevokeEnd(r)
    BY <1>1, <1>2, <1>3, <1>4, <1>7, <1>8 DEF Lineage!RevokeEnd
  <2> QED
    BY <2>1 DEF LineageStep, Lineage!Next
<1>9. CASE rows = {}
  <2>1. Status' = Status
    BY <1>7, <1>9, StatusIs DEF StatusFacts
  <2>2. Scope' = Scope
    BY <1>1, <1>2, <1>9, HeldType DEF IInv
  <2> QED
    BY <1>3, <1>4, <2>1, <2>2 DEF LineageStep, Lineage!vars
<1> QED
  BY <1>8, <1>9

\* The owner of a new pair is the user of its access token.
LEMMA OwnerOfNew ==
  ASSUME NEW p \in Fresh, NEW u, NEW at,
         tokens' = tokens \cup {CreateAccessTokenWithJTI(u, at, p)}
  PROVE  Owner' = [Owner EXCEPT ![p] = {u}] /\ Issued' = Issued \cup {p}
<1> DEFINE n == CreateAccessTokenWithJTI(u, at, p)
<1>1. n.jti = p /\ n.user = u /\ tokens' = tokens \cup {n}
  BY DEF CreateAccessTokenWithJTI
<1>2. p \in Pair /\ \A t \in tokens : t.jti # p
  BY DEF Fresh, Issued
<1> HIDE DEF n
<1>3. \A q \in Pair : {t \in tokens' : t.jti = q}
                        = IF q = p THEN {n} ELSE {t \in tokens : t.jti = q}
  BY <1>1, <1>2
<1>4. Owner' = [q \in Pair |-> {t.user : t \in {x \in tokens' : x.jti = q}}]
  BY DEF Owner
<1>5. \A q \in Pair : Owner'[q] = IF q = p THEN {u} ELSE Owner[q]
  BY <1>1, <1>3, <1>4 DEF Owner
<1>6. Owner' = [Owner EXCEPT ![p] = {u}]
  BY <1>4, <1>5 DEF Owner
<1>7. Issued' = Issued \cup {p}
  BY <1>1 DEF Issued
<1> QED
  BY <1>6, <1>7

\* IssueTokensTx commits.
LEMMA StepIssue ==
  ASSUME IInv, IInv', NEW r \in Request, req[r].pc = "insert",
         NEW p \in Fresh, NEW u \in UserID, IssueRows(u, p, req[r]),
         NEW local, local.pc = "respond", Goto(r, local),
         UNCHANGED rotated
  PROVE  LineageStep
<1> DEFINE n == NewSession(p, p, u, req[r].meta, req[r].at)
<1>1. n.selector = p /\ n.status = "active" /\ sessions' = sessions \cup {n}
  BY NewRow DEF IssueRows, CreateSession
<1> HIDE DEF n
<1>2. Owner' = [Owner EXCEPT ![p] = {u}] /\ Issued' = Issued \cup {p}
  BY OwnerOfNew DEF IssueRows
<1>3. p \in Pair /\ p \notin Issued
  BY DEF Fresh
<1>4. Status[p] = "none" /\ Status' = [Status EXCEPT ![p] = "active"]
  <2>1. ASSUME NEW q \in Pair
        PROVE  Status'[q] = IF q = p THEN "active" ELSE Status[q]
    BY <1>1, <1>2, <1>3, StatusIs, StatusIsNext DEF StatusFacts
  <2> QED
    BY <1>3, <2>1, StatusIs, StatusIsNext DEF StatusFacts
<1>5. Granted' = Granted /\ Scope' = Scope
  <2>1. Granted[r] = {} /\ Scope[r] = {}
    BY DEF Granted, Scope
  <2>2. Granted' = [Granted EXCEPT ![r] = {}] /\ Scope' = [Scope EXCEPT ![r] = {}]
    BY HeldByOne DEF IInv
  <2> QED
    BY <2>1, <2>2, HeldType DEF IInv
<1>6. Lineage!Issue(u, p)
  BY <1>2, <1>4, <1>5 DEF Lineage!Issue
<1> QED
  BY <1>3, <1>6 DEF LineageStep, Lineage!Next

\* RotateTokensTx commits.
LEMMA StepExchange ==
  ASSUME IInv, IInv', NEW r \in Request, req[r].pc = "rotate", NEW p \in Fresh, NEW at,
         sessions' = CreateSession(MarkSessionAsUsed(sessions, req[r].selector),
                         NewSession(p, p, req[r].user, req[r].meta, at)),
         tokens' = tokens \cup {CreateAccessTokenWithJTI(req[r].user, at, p)},
         rotated' = rotated \cup {<<req[r].selector, p>>},
         NEW local, local.pc = "respond", Goto(r, local)
  PROVE  LineageStep
<1> DEFINE old == req[r].selector
           u   == req[r].user
           n   == NewSession(p, p, u, req[r].meta, at)
           M   == MarkSessionAsUsed(sessions, old)
<1>1. n.selector = p /\ n.status = "active" /\ sessions' = M \cup {n}
  BY NewRow DEF CreateSession
<1>2. /\ \A x \in M : \E s \in sessions :
           /\ x.selector = s.selector
           /\ x.status = IF s.selector = old THEN "used" ELSE s.status
      /\ \A s \in sessions : \E x \in M : x.selector = s.selector
  BY MarkedRows DEF IInv, TypeOK
<1>3. \A s1, s2 \in sessions : s1.selector = s2.selector => s1 = s2
  BY DEF IInv, Stored, SessionBinding
<1>4. Owner' = [Owner EXCEPT ![p] = {u}] /\ Issued' = Issued \cup {p}
  BY OwnerOfNew
<1>5. old \in Pair /\ Owner[old] = {u} /\ old \in Issued
  <2>1. PICK t \in tokens : t.jti = old /\ t.user = u
    BY DEF IInv, Remembered
  <2> QED
    BY <2>1, OwnerIs DEF Issued
<1>6. p \in Pair /\ p \notin Issued /\ p # old
  BY <1>5 DEF Fresh
<1>7. /\ Granted[r] = {old} /\ Scope[r] = {}
      /\ Granted' = [Granted EXCEPT ![r] = {}] /\ Scope' = [Scope EXCEPT ![r] = {}]
  BY HeldByOne DEF IInv, Granted, Scope
<1>8. Scope' = Scope
  BY <1>7, HeldType DEF IInv
<1>9. rotated' = rotated \cup {<<old, p>>}
  OBVIOUS
<1> HIDE DEF n, M, old, u
<1>10. \A s \in sessions : s.status \in {"active", "used"}
  BY DEF IInv, TypeOK, RefreshSession
<1>11. ASSUME NEW q \in Pair
       PROVE  Status'[q] = IF q = p THEN "active"
                           ELSE IF q = old /\ Status[q] = "active" THEN "used"
                           ELSE Status[q]
  <2>1. CASE q = p
    BY <1>1, <2>1, StatusIsNext DEF StatusFacts
  <2>2. CASE q = old
    <3>1. Status'[q] = "used" <=> \E s \in sessions : s.selector = q
      BY <1>1, <1>2, <1>6, <2>2, StatusIsNext DEF StatusFacts
    <3>2. Status'[q] # "active" /\ Status'[q] # "none"
      BY <1>1, <1>2, <1>4, <1>5, <1>6, <2>2, StatusIsNext DEF StatusFacts
    <3>3. (\E s \in sessions : s.selector = q) <=> Status[q] \in {"active", "used"}
      BY <1>10, StatusIs DEF StatusFacts
    <3>4. Status[q] # "none"
      BY <1>5, <2>2, StatusIs DEF StatusFacts
    <3> QED
      BY <1>6, <2>2, <3>1, <3>2, <3>3, <3>4, StatusIs, StatusIsNext DEF StatusFacts
  <2>3. CASE q # p /\ q # old
    <3>1. \A st : (\E s \in sessions' : s.selector = q /\ s.status = st)
                    <=> (\E s \in sessions : s.selector = q /\ s.status = st)
      BY <1>1, <1>2, <1>3, <2>3
    <3>2. q \in Issued' <=> q \in Issued
      BY <1>4, <2>3
    <3> QED
      BY <2>3, <3>1, <3>2, StatusIs, StatusIsNext DEF StatusFacts
  <2> QED
    BY <2>1, <2>2, <2>3
<1>12. /\ Status[p] = "none"
       /\ Status' = [Status EXCEPT ![p] = "active",
                                   ![old] = IF @ = "active" THEN "used" ELSE @]
  BY <1>5, <1>6, <1>11, StatusIs, StatusIsNext DEF StatusFacts
<1>13. Lineage!Exchange(r, old, p)
  BY <1>4, <1>5, <1>7, <1>8, <1>9, <1>12 DEF Lineage!Exchange
<1> QED
  BY <1>5, <1>6, <1>13 DEF LineageStep, Lineage!Next

-----------------------------------------------------------------------------
(* Every action *)

LEMMA LineageIssue ==
  ASSUME IInv, IInv', NEW r \in Request, IssueLookup(r) \/ IssueTokensTx(r)
  PROVE  LineageStep
<1>1. TypeOK
  BY DEF IInv
<1>2. CASE IssueLookup(r)
  <2>1. UNCHANGED <<sessions, tokens, rotated>>
    BY <1>2 DEF IssueLookup, store
  <2>2. CASE Answer(r, "issue", 500, {})
    BY <1>1, <2>1, <2>2, StepAnswer
  <2>3. ASSUME NEW guid, NEW meta, NEW at, NEW found,
               Goto(r, [pc |-> "insert", guid |-> guid, meta |-> meta, at |-> at,
                        found |-> found])
        PROVE  LineageStep
    <3> DEFINE local == [pc |-> "insert", guid |-> guid, meta |-> meta, at |-> at,
                         found |-> found]
    <3>1. Goto(r, local) /\ local.pc = "insert"
      BY <2>3
    <3> HIDE DEF local
    <3> QED
      BY <1>1, <2>1, <3>1, StepDrop
  <2> QED
    BY <1>2, <2>2, <2>3 DEF IssueLookup
<1>3. CASE IssueTokensTx(r)
  <2>1. req[r].pc = "insert" /\ UNCHANGED rotated
    BY <1>3 DEF IssueTokensTx
  <2>2. CASE Answer(r, "issue", 500, {}) /\ UNCHANGED <<sessions, tokens>>
    BY <1>1, <2>1, <2>2, StepAnswer
  <2>3. ASSUME NEW p \in Fresh, NEW u \in UserID, IssueRows(u, p, req[r]),
               Answer(r, "issue", 200, {p}) \/ Answer(r, "issue", 500, {})
        PROVE  LineageStep
    <3>1. ASSUME NEW code, NEW pairs, Answer(r, "issue", code, pairs)
          PROVE  LineageStep
      <4> DEFINE local == [pc |-> "respond", op |-> "issue", code |-> code,
                           pairs |-> pairs]
      <4>1. Goto(r, local) /\ local.pc = "respond"
        BY <3>1 DEF Answer
      <4> HIDE DEF local
      <4> QED
        BY <2>1, <2>3, <4>1, StepIssue
    <3> QED
      BY <2>3, <3>1
  <2>4. req[r].found \subseteq UserID
    BY <1>1, <2>1, LocalFields
  <2> QED
    BY <1>3, <2>2, <2>3, <2>4 DEF IssueTokensTx
<1> QED
  BY <1>2, <1>3

LEMMA LineageRefresh ==
  ASSUME IInv, IInv', NEW r \in Request,
         \/ RefreshMalformed(r) \/ GetActiveSession(r) \/ DetectTheft(r)
         \/ RevokeSessions(r) \/ RevokeCommit(r) \/ RotateTokensTx(r)
  PROVE  LineageStep
<1>1. TypeOK
  BY DEF IInv
\* On the way to a revocation there is nothing yet that it takes.
<1>2. ASSUME NEW user, NEW reason, NEW sel,
             Goto(r, [pc |-> "revoke", user |-> user, reason |-> reason,
                      selector |-> sel]),
             UNCHANGED <<sessions, tokens, rotated>>
      PROVE  LineageStep
  <2> DEFINE local == [pc |-> "revoke", user |-> user, reason |-> reason,
                       selector |-> sel]
  <2>1. Goto(r, local) /\ local.pc = "revoke"
    BY <1>2
  <2> HIDE DEF local
  <2> QED
    BY <1>1, <1>2, <2>1, StepDrop
<1>3. CASE RefreshMalformed(r)
  BY <1>1, <1>3, StepAnswer DEF RefreshMalformed, store
<1>4. CASE GetActiveSession(r)
  <2>1. req[r] = Idle /\ UNCHANGED <<sessions, tokens, rotated>>
    BY <1>4 DEF GetActiveSession, store
  <2>2. CASE Answer(r, "refresh", 401, {})
    BY <1>1, <2>1, <2>2, StepAnswer
  <2>3. ASSUME NEW sel, Goto(r, [pc |-> "find", selector |-> sel])
        PROVE  LineageStep
    <3> DEFINE local == [pc |-> "find", selector |-> sel]
    <3>1. Goto(r, local) /\ local.pc = "find"
      BY <2>3
    <3> HIDE DEF local
    <3> QED
      BY <1>1, <2>1, <3>1, StepDrop
  <2>4. ASSUME NEW token, NEW jti, NEW meta,
               NEW s \in GetActiveSessionBySelector(sessions, token.selector),
               CheckSession(r, s, jti, token, meta)
        PROVE  LineageStep
    <3>1. \/ Answer(r, "refresh", 401, {})
          \/ Goto(r, [pc |-> "revoke", user |-> s.user, reason |-> "ua",
                      selector |-> token.selector])
          \/ Goto(r, [pc |-> "rotate", selector |-> token.selector,
                      user |-> s.user, meta |-> meta, at |-> now])
      BY <2>4 DEF CheckSession
    <3>2. GetActiveSessionBySelector(sessions, token.selector) # {}
      BY <2>4
    <3> QED
      BY <1>2, <2>1, <2>2, <3>1, <3>2, StepGrant
  <2> QED
    BY <1>4, <2>2, <2>3, <2>4 DEF GetActiveSession
<1>5. CASE DetectTheft(r)
  <2>1. UNCHANGED <<sessions, tokens, rotated>>
    BY <1>5 DEF DetectTheft, store
  <2>2. CASE Answer(r, "refresh", 401, {})
    BY <1>1, <2>1, <2>2, StepAnswer
  <2> QED
    BY <1>2, <1>5, <2>1, <2>2 DEF DetectTheft
<1>6. CASE RevokeSessions(r)
  <2> DEFINE local == [pc |-> "revoking", rows |-> UserSessions(sessions, req[r].user)]
  <2>1. /\ Goto(r, local) /\ local.pc = "revoking"
        /\ local.rows = UserSessions(sessions, req[r].user)
        /\ req[r].pc = "revoke" /\ UNCHANGED <<sessions, tokens, rotated>>
    BY <1>6 DEF RevokeSessions, store
  <2>2. req[r].user \in UserID
    BY <1>1, <2>1, LocalFields
  <2> HIDE DEF local
  <2> QED
    BY <2>1, <2>2, StepSnapshot
<1>7. CASE RevokeCommit(r)
  <2>1. CASE UNCHANGED sessions
    BY <1>1, <1>7, <2>1, StepAnswer DEF RevokeCommit
  <2>2. CASE sessions' = DeleteAllUserSessions(sessions, req[r].rows)
    <3> DEFINE local == [pc |-> "respond", op |-> "refresh", code |-> 401, pairs |-> {}]
    <3>1. Goto(r, local) /\ local.pc = "respond"
      BY <1>7 DEF RevokeCommit, Answer
    <3> HIDE DEF local
    <3> QED
      BY <1>7, <2>2, <3>1, StepDeleted DEF RevokeCommit
  <2> QED
    BY <1>7, <2>1, <2>2 DEF RevokeCommit
<1>8. CASE RotateTokensTx(r)
  <2>1. req[r].pc = "rotate"
    BY <1>8 DEF RotateTokensTx
  <2>2. CASE Answer(r, "refresh", 401, {}) /\ UNCHANGED <<sessions, tokens, rotated>>
    BY <1>1, <2>2, StepAnswer
  <2>3. ASSUME NEW p \in Fresh, NEW at \in req[r].at..now,
               sessions' = CreateSession(MarkSessionAsUsed(sessions, req[r].selector),
                               NewSession(p, p, req[r].user, req[r].meta, at)),
               tokens' = tokens \cup {CreateAccessTokenWithJTI(req[r].user, at, p)},
               rotated' = rotated \cup {<<req[r].selector, p>>},
               NEW code, NEW pairs, Answer(r, "refresh", code, pairs)
        PROVE  LineageStep
    <3> DEFINE local == [pc |-> "respond", op |-> "refresh", code |-> code,
                         pairs |-> pairs]
    <3>1. Goto(r, local) /\ local.pc = "respond"
      BY <2>3 DEF Answer
    <3> HIDE DEF local
    <3> QED
      BY <2>1, <2>3, <3>1, StepExchange
  <2> QED
    BY <1>8, <2>2, <2>3 DEF RotateTokensTx
<1> QED
  BY <1>3, <1>4, <1>5, <1>6, <1>7, <1>8

LEMMA LineageBearer ==
  ASSUME IInv, IInv', NEW r \in Request,
         \/ AuthenticateAccessToken(r) \/ LogoutValidate(r) \/ LogoutInvalidate(r)
         \/ LogoutDelete(r) \/ LogoutCommit(r) \/ GetPublicGUID(r)
  PROVE  LineageStep
<1>1. TypeOK
  BY DEF IInv
<1>2. ASSUME NEW pc \in {"validate", "invalidate", "delete"}, NEW t,
             Goto(r, [pc |-> pc, token |-> t]),
             UNCHANGED <<sessions, tokens, rotated>>
      PROVE  LineageStep
  <2> DEFINE local == [pc |-> pc, token |-> t]
  <2>1. Goto(r, local) /\ local.pc \in {"validate", "invalidate", "delete"}
    BY <1>2
  <2> HIDE DEF local
  <2> QED
    BY <1>1, <1>2, <2>1, StepDrop
<1>3. CASE AuthenticateAccessToken(r)
  <2>1. UNCHANGED <<sessions, tokens, rotated>>
    BY <1>3 DEF AuthenticateAccessToken, store
  <2>2. ASSUME NEW op, Answer(r, op, 401, {})
        PROVE  LineageStep
    BY <1>1, <2>1, <2>2, StepAnswer
  <2>3. ASSUME NEW u, Goto(r, [pc |-> "guid", user |-> u])
        PROVE  LineageStep
    <3> DEFINE local == [pc |-> "guid", user |-> u]
    <3>1. Goto(r, local) /\ local.pc = "guid"
      BY <2>3
    <3> HIDE DEF local
    <3> QED
      BY <1>1, <2>1, <3>1, StepDrop
  <2>4. PICK op \in {"logout", "guid"} :
          \/ \E t \in tokens :
               Goto(r, IF op = "logout" THEN [pc |-> "validate", token |-> t]
                                        ELSE [pc |-> "guid", user |-> t.user])
          \/ Answer(r, op, 401, {})
    BY <1>3 DEF AuthenticateAccessToken
  <2> QED
    BY <1>2, <2>1, <2>2, <2>3, <2>4
<1>4. CASE LogoutValidate(r)
  <2>1. UNCHANGED <<sessions, tokens, rotated>>
    BY <1>4 DEF LogoutValidate, store
  <2> QED
    BY <1>1, <1>2, <1>4, <2>1, StepAnswer DEF LogoutValidate
<1>5. CASE LogoutInvalidate(r)
  <2>1. UNCHANGED <<sessions, tokens, rotated>>
    BY <1>5 DEF LogoutInvalidate, store
  <2> QED
    BY <1>1, <1>2, <1>5, <2>1, StepAnswer DEF LogoutInvalidate
<1>6. CASE LogoutDelete(r)
  <2> DEFINE t     == req[r].token
             local == [pc |-> "deleting", token |-> t,
                       rows |-> UserSessions(sessions, t.user)]
  <2>1. /\ Goto(r, local) /\ local.pc = "deleting"
        /\ local.rows = UserSessions(sessions, t.user)
        /\ req[r].pc = "delete" /\ UNCHANGED <<sessions, tokens, rotated>>
    BY <1>6 DEF LogoutDelete, store
  <2>2. t.user \in UserID
    BY <1>1, <2>1, LocalFields DEF AccessToken
  <2> HIDE DEF local, t
  <2> QED
    BY <2>1, <2>2, StepSnapshot
<1>7. CASE LogoutCommit(r)
  <2>1. CASE UNCHANGED sessions
    BY <1>1, <1>7, <2>1, StepAnswer DEF LogoutCommit
  <2>2. ASSUME sessions' = DeleteAllUserSessions(sessions, req[r].rows),
               NEW code, Answer(r, "logout", code, {})
        PROVE  LineageStep
    <3> DEFINE local == [pc |-> "respond", op |-> "logout", code |-> code, pairs |-> {}]
    <3>1. Goto(r, local) /\ local.pc = "respond"
      BY <2>2 DEF Answer
    <3> HIDE DEF local
    <3> QED
      BY <1>7, <2>2, <3>1, StepDeleted DEF LogoutCommit
  <2> QED
    BY <1>7, <2>1, <2>2 DEF LogoutCommit
<1>8. CASE GetPublicGUID(r)
  <2>1. UNCHANGED <<sessions, tokens, rotated>>
    BY <1>8 DEF GetPublicGUID, store
  <2> QED
    BY <1>1, <1>8, <2>1, StepAnswer DEF GetPublicGUID
<1> QED
  BY <1>3, <1>4, <1>5, <1>6, <1>7, <1>8

\* The answer, the webhooks, the clock, and a crash, after which nobody holds
\* anything.
LEMMA LineageOther ==
  ASSUME IInv,
         \/ \E r \in Request : Respond(r)
         \/ \E h \in hooks : SendWebhook(h)
         \/ Tick
         \/ Crash
         \/ UNCHANGED vars
  PROVE  LineageStep
<1>1. UNCHANGED <<sessions, tokens, rotated>>
  BY DEF Respond, SendWebhook, Tick, Crash, vars, store
<1>2. Status' = Status /\ Owner' = Owner /\ rotated' = rotated
  BY <1>1, TablesKept
<1>3. ASSUME NEW r \in Request, Respond(r)
      PROVE  LineageStep
  <2>1. Goto(r, Idle) /\ Idle.pc \notin {"rotate", "revoking", "deleting"}
    BY <1>3 DEF Respond
  <2>2. TypeOK
    BY DEF IInv
  <2> QED
    BY <1>1, <2>1, <2>2, StepDrop
<1>4. CASE UNCHANGED req
  <2>1. Granted' = Granted /\ Scope' = Scope
    BY <1>4 DEF Granted, Scope
  <2> QED
    BY <1>2, <2>1 DEF LineageStep, Lineage!vars
<1>5. CASE Crash
  <2>1. \A r \in Request : req'[r] = Idle
    BY <1>5 DEF Crash
  <2>2. Granted' = [r \in Request |-> {}] /\ Scope' = [r \in Request |-> {}]
    BY <2>1 DEF Granted, Scope
  <2>3. \A r \in Request : r \notin Lineage!Busy => Granted[r] = {} /\ Scope[r] = {}
    BY DEF Lineage!Busy
  <2>4. Lineage!GiveUp(Lineage!Busy)
    BY <1>2, <2>2, <2>3 DEF Lineage!GiveUp
  <2> QED
    BY <2>4 DEF LineageStep, Lineage!Next
<1> QED
  BY <1>3, <1>4, <1>5 DEF SendWebhook, Tick, vars

-----------------------------------------------------------------------------
(* The theorem *)

LEMMA LineageInit == Init => Lineage!Init
<1> SUFFICES ASSUME Init  PROVE Lineage!Init
  OBVIOUS
<1>1. sessions = {} /\ tokens = {} /\ rotated = {} /\ \A r \in Request : req[r] = Idle
  BY DEF Init
<1>2. Status = [p \in Pair |-> "none"] /\ Owner = [p \in Pair |-> {}]
  BY <1>1 DEF Status, Owner, HasRow, Issued, GetActiveSessionBySelector
<1>3. Granted = [r \in Request |-> {}] /\ Scope = [r \in Request |-> {}]
  BY <1>1 DEF Granted, Scope
<1> QED
  BY <1>1, <1>2, <1>3 DEF Lineage!Init

LEMMA LineageNext == IInv /\ IInv' /\ [Next]_vars => [Lineage!Next]_(Lineage!vars)
<1> SUFFICES ASSUME IInv, IInv', [Next]_vars  PROVE LineageStep
  BY DEF LineageStep
<1>1. ASSUME NEW r \in Request, Arrive(r) \/ Serve(r)
      PROVE  LineageStep
  BY <1>1, LineageIssue, LineageRefresh, LineageBearer, LineageOther DEF Arrive, Serve
<1> QED
  BY <1>1, LineageOther DEF Next

\* The handlers implement the abstract life of refresh sessions: only a pair seen
\* active is exchanged, for one new pair of the same user, what is used or revoked
\* is never active again, and a revocation takes all its user had alive when its
\* DELETE began, whatever overlaps and whatever fails.
THEOREM SessionsRefine == Spec => ImplementsLineage
  BY LineageInit, LineageNext, Invariant, PTL
     DEF Spec, ImplementsLineage, Lineage!Spec
=============================================================================
