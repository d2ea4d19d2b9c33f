-------------------------- MODULE PostgresTxProofs --------------------------
(***************************************************************************)
(* PostgresTx, for any number of connections, users and pairs: what the    *)
(* open transactions and the tables have to do with each other, and from   *)
(* it TypeOK, that a guid has one user and that only DELETEs deadlock; and *)
(* PostgresTx implements SessionLineage: taken statement by statement, the *)
(* transactions are the atomic steps that AuthService takes them for, as   *)
(* far as refresh sessions go.                                             *)
(***************************************************************************)
EXTENDS PostgresTx, FiniteSetTheorems, SequenceTheorems, TLAPS

USE DEF Idle, NoTx

\* The pairs that have a row in sessions.
Stored == {p \in Pair : \E s \in sessions : s.selector = p}

\* A committed row has the access token of its pair, and shares its selector with
\* no other row.
RowsBound ==
  /\ IsFiniteSet(Stored)
  /\ \A s \in sessions : \E t \in tokens : t.jti = s.selector /\ t.user = s.user
  /\ \A s1, s2 \in sessions : s1.selector = s2.selector => s1 = s2
  /\ \A t1, t2 \in tokens : t1.jti = t2.jti => t1 = t2

\* The rows that wait for their COMMIT are of pairs that nobody else has drawn.
RowsApart ==
  /\ \A c \in Conn : \A s \in tx[c].rows : s.selector \notin Issued
  /\ \A c, d \in Conn : \A s1 \in tx[c].rows, s2 \in tx[d].rows :
       s1.selector = s2.selector => c = d

\* Users, committed or not.
AnyUser == users \cup UNION {tx[c].users : c \in Conn}

\* One user for a guid and for an id, also across open transactions.
UsersApart == \A u1, u2 \in AnyUser : u1.guid = u2.guid \/ u1.id = u2.id => u1 = u2

\* What the transaction of c has written, by the statement it runs next.
Written(c) ==
  /\ work[c].pc \in {"idle", "createUser", "update"} => tx[c] = NoTx
  /\ work[c].pc = "insert" => tx[c].rows = {}
  /\ work[c].pc \in {"getUser", "commit"} =>
       \E s \in RefreshSession :
         /\ tx[c].rows = {s} /\ s.jti = s.selector
         /\ s.user = work[c].user /\ s.status = "active"
  /\ work[c].pc \in {"insert", "getUser", "commit"} =>
       tx[c].deleted = {} /\ tx[c].marked \subseteq work[c].old
  /\ work[c].pc = "delete" =>
       /\ tx[c].users = {} /\ tx[c].rows = {} /\ tx[c].marked = {}
       /\ tx[c].deleted \subseteq work[c].rows
       /\ \A i \in 1..Len(work[c].left) : work[c].left[i] \in work[c].rows

\* What the transaction of c knows of the tables: the pair it replaces is its
\* user's, and whatever row that pair or the snapshot of a DELETE has left is
\* among those it has locked or has still to visit.
Knows(c) ==
  /\ work[c].pc \in {"update", "insert", "getUser", "commit"} =>
       /\ \E p : work[c].old \subseteq {p}
       /\ \A p \in work[c].old : \E t \in tokens : t.jti = p /\ t.user = work[c].user
  /\ work[c].pc \in {"insert", "getUser", "commit"} =>
       work[c].old \cap Stored \subseteq tx[c].marked
  /\ work[c].pc = "delete" =>
       /\ work[c].rows \subseteq Issued
       /\ \A p \in work[c].rows \cap Stored :
            p \in tx[c].deleted \/ \E i \in 1..Len(work[c].left) : work[c].left[i] = p

IInv ==
  /\ TypeOK
  /\ RowsBound /\ RowsApart /\ UsersApart
  /\ \A c \in Conn : Written(c) /\ Knows(c)

-----------------------------------------------------------------------------
(* Types *)

LEMMA WorkFields ==
  ASSUME TypeOK, NEW c \in Conn
  PROVE  /\ work[c].pc \in {"idle", "createUser", "update", "insert", "getUser",
                            "commit", "delete"}
         /\ work[c].pc = "idle" <=> work[c] = Idle
         /\ work[c].pc = "createUser" =>
              work[c].guid \in Guid /\ work[c].meta \in UserMetadata
         /\ work[c].pc \in {"update", "insert", "getUser", "commit"} =>
              /\ work[c] \in [pc : {"update", "insert", "getUser", "commit"}, user : UserID,
                              meta : UserMetadata, old : SUBSET Pair]
              /\ work[c].user \in UserID /\ work[c].meta \in UserMetadata
              /\ work[c].old \in SUBSET Pair
         /\ work[c].pc = "delete" =>
              /\ work[c] \in [pc : {"delete"}, left : Seq(Pair), rows : SUBSET Pair]
              /\ work[c].left \in Seq(Pair) /\ work[c].rows \in SUBSET Pair
  BY DEF TypeOK, Work

\* A transaction that goes on with another statement, having written something.
LEMMA StepType ==
  ASSUME TypeOK, NEW c \in Conn, NEW next \in Work, NEW written \in Tx,
         Goto(c, next), Write(c, written), UNCHANGED tables
  PROVE  TypeOK'
  BY DEF TypeOK, Goto, Write, tables

LEMMA KeepType ==
  ASSUME TypeOK, NEW c \in Conn, NEW next \in Work, Goto(c, next),
         UNCHANGED <<tables, tx>>
  PROVE  TypeOK'
  BY DEF TypeOK, Goto, tables

LEMMA RollbackType == ASSUME TypeOK, NEW c \in Conn, Rollback(c)  PROVE TypeOK'
<1>1. Idle \in Work /\ NoTx \in Tx
  BY DEF Work, Tx
<1> QED
  BY <1>1, StepType DEF Rollback

\* The scan meets every row of the snapshot once.
LEMMA ScanIsComplete ==
  ASSUME NEW S \in SUBSET Pair, IsFiniteSet(S), NEW order \in SetToSeqs(S)
  PROVE  /\ order \in Seq(Pair)
         /\ \A p \in S : \E i \in 1..Len(order) : order[i] = p
         /\ \A i \in 1..Len(order) : order[i] \in S
<1>1. Cardinality(S) \in Nat
  BY FS_CardinalityType
<1> DEFINE D == 1..Cardinality(S)
<1>2. order \in [D -> S] /\ \A i, j \in D : i # j => order[i] # order[j]
  BY DEF SetToSeqs
<1>3. IsFiniteSet(D) /\ Cardinality(D) = Cardinality(S)
  BY <1>1, FS_Interval
<1>4. order \in Injection(D, S)
  BY <1>2 DEF Injection, IsInjective
<1>5. order \in Surjection(D, S)
  BY <1>3, <1>4, FS_Injection
<1>6. order \in Seq(S) /\ Len(order) = Cardinality(S)
  BY <1>1, <1>2
<1>7. order \in Seq(Pair)
  BY <1>6, SeqMonotonic
<1> QED
  BY <1>5, <1>6, <1>7 DEF Surjection

LEMMA SnapshotFinite ==
  ASSUME TypeOK, RowsBound, NEW u
  PROVE  /\ UserSessions(sessions, u) \in SUBSET Stored
         /\ UserSessions(sessions, u) \in SUBSET Pair
         /\ IsFiniteSet(UserSessions(sessions, u))
<1>1. UserSessions(sessions, u) \in SUBSET Stored
  BY DEF UserSessions, Stored, TypeOK, RefreshSession
<1> QED
  BY <1>1, FS_Subset DEF RowsBound, Stored

-----------------------------------------------------------------------------
(* Steps that commit nothing *)

\* Users of open transactions are among the users there are.
LEMMA UsersKept ==
  ASSUME UsersApart, users' \subseteq users,
         \A c \in Conn : tx'[c].users \subseteq tx[c].users
  PROVE  UsersApart'
<1>1. AnyUser' \subseteq AnyUser
  BY DEF AnyUser
<1> QED
  BY <1>1 DEF UsersApart

\* A transaction keeps what it knows while others commit: tokens are never taken
\* back, and no pair that was issued gets a row again.
LEMMA OthersStay ==
  ASSUME IInv, NEW d \in Conn, work'[d] = work[d], tx'[d] = tx[d],
         tokens \subseteq tokens', Stored' \cap Issued \subseteq Stored
  PROVE  Written(d)' /\ Knows(d)'
<1>1. Written(d) /\ Knows(d)
  BY DEF IInv
<1>2. Written(d)'
  BY <1>1 DEF Written
<1>3. Issued \subseteq Issued'
  BY DEF Issued
<1>4. ASSUME work[d].pc \in {"update", "insert", "getUser", "commit"}
      PROVE  /\ \E p : work[d].old \subseteq {p}
             /\ \A p \in work[d].old : \E t \in tokens' : t.jti = p /\ t.user = work[d].user
             /\ work[d].old \subseteq Issued
  BY <1>1, <1>4 DEF Knows, Issued
<1>5. work[d].pc \in {"insert", "getUser", "commit"} =>
        work[d].old \cap Stored' \subseteq tx[d].marked
  BY <1>1, <1>4 DEF Knows
<1>6. ASSUME work[d].pc = "delete"
      PROVE  /\ work[d].rows \subseteq Issued'
             /\ \A p \in work[d].rows \cap Stored' :
                  \/ p \in tx[d].deleted
                  \/ \E i \in 1..Len(work[d].left) : work[d].left[i] = p
  BY <1>1, <1>3, <1>6 DEF Knows
<1>7. Knows(d)'
  BY <1>4, <1>5, <1>6 DEF Knows
<1> QED
  BY <1>2, <1>7

LEMMA StepInv ==
  ASSUME IInv, NEW c \in Conn, NEW next \in Work, NEW written \in Tx,
         Goto(c, next), Write(c, written), UNCHANGED tables,
         Written(c)', Knows(c)',
         \/ written.rows \subseteq tx[c].rows
         \/ \E s : written.rows = {s} /\ s.selector \in Fresh,
         written.users \subseteq tx[c].users \/ UsersApart'
  PROVE  IInv'
<1>1. TypeOK'
  BY StepType DEF IInv
<1>2. /\ work'[c] = next /\ tx'[c] = written
      /\ \A d \in Conn \ {c} : work'[d] = work[d] /\ tx'[d] = tx[d]
  BY DEF Goto, Write, IInv, TypeOK
<1>3. users' = users /\ sessions' = sessions /\ tokens' = tokens /\ rotated' = rotated
  BY DEF tables
<1>4. Issued' = Issued /\ Stored' = Stored
  BY <1>3 DEF Issued, Stored
<1>5. RowsBound'
  BY <1>3, <1>4 DEF IInv, RowsBound
<1>6. RowsApart'
  <2>1. CASE written.rows \subseteq tx[c].rows
    BY <1>2, <1>4, <2>1 DEF IInv, RowsApart
  <2>2. CASE \E s : written.rows = {s} /\ s.selector \in Fresh
    <3>1. \A s \in written.rows :
            /\ s.selector \notin Issued
            /\ \A d \in Conn : \A x \in tx[d].rows : x.selector # s.selector
      BY <2>2 DEF Fresh
    <3> QED
      BY <1>2, <1>4, <3>1 DEF IInv, RowsApart
  <2> QED
    BY <2>1, <2>2
<1>7. UsersApart'
  BY <1>2, <1>3, UsersKept DEF IInv
<1>8. ASSUME NEW d \in Conn  PROVE Written(d)' /\ Knows(d)'
  <2>1. CASE d = c
    BY <2>1
  <2>2. CASE d # c
    BY <1>2, <1>3, <1>4, <2>2, OthersStay
  <2> QED
    BY <2>1, <2>2
<1> QED
  BY <1>1, <1>5, <1>6, <1>7, <1>8 DEF IInv

LEMMA KeepInv ==
  ASSUME IInv, NEW c \in Conn, NEW next \in Work, Goto(c, next),
         UNCHANGED <<tables, tx>>, Written(c)', Knows(c)'
  PROVE  IInv'
<1>1. tx[c] \in Tx /\ Write(c, tx[c])
  BY DEF IInv, TypeOK, Write
<1> QED
  BY <1>1, StepInv

\* A transaction that ends without COMMIT.
LEMMA RollbackInv == ASSUME IInv, NEW c \in Conn, Rollback(c)  PROVE IInv'
<1>1. Idle \in Work /\ NoTx \in Tx
  BY DEF Work, Tx
<1>2. work'[c] = Idle /\ tx'[c] = NoTx
  BY DEF Rollback, Goto, Write, IInv, TypeOK
<1>3. Written(c)' /\ Knows(c)'
  BY <1>2 DEF Written, Knows
<1>4. Goto(c, Idle) /\ Write(c, NoTx) /\ UNCHANGED tables
  BY DEF Rollback
<1>5. NoTx.rows \subseteq tx[c].rows /\ NoTx.users \subseteq tx[c].users
  OBVIOUS
<1> QED
  BY <1>1, <1>3, <1>4, <1>5, StepInv

\* A transaction that has not written anything begins.
LEMMA BeginInv == ASSUME IInv, NEW c \in Conn, Begin(c)  PROVE IInv'
<1>1. /\ work[c] = Idle /\ tx[c] = NoTx
      /\ UNCHANGED <<tables, tx>>
      /\ tokens' = tokens /\ sessions' = sessions /\ Issued' = Issued /\ Stored' = Stored
  BY DEF Begin, BeginIssue, LookupActive, BeginDelete, tables, IInv, Written, Issued, Stored
<1>2. tx' = tx
  BY <1>1
<1>3. CASE BeginIssue(c)
  <2>1. PICK guid \in Guid, meta \in UserMetadata :
          \/ \E u \in GetUserByGUID(users, guid) :
               Goto(c, [pc |-> "insert", user |-> u.id, meta |-> meta, old |-> {}])
          \/ Goto(c, [pc |-> "createUser", guid |-> guid, meta |-> meta])
    BY <1>3 DEF BeginIssue
  <2>2. ASSUME NEW id \in UserID,
               Goto(c, [pc |-> "insert", user |-> id, meta |-> meta, old |-> {}])
        PROVE  IInv'
    <3> DEFINE next == [pc |-> "insert", user |-> id, meta |-> meta, old |-> {}]
    <3>1. next \in Work /\ next.pc = "insert" /\ next.old = {}
      BY DEF Work
    <3> HIDE DEF next
    <3>2. work'[c] = next
      BY <2>2 DEF Goto, IInv, TypeOK, next
    <3>3. Written(c)' /\ Knows(c)'
      BY <1>1, <1>2, <3>1, <3>2 DEF Written, Knows
    <3> QED
      BY <1>1, <2>2, <3>1, <3>3, KeepInv DEF next
  <2>3. ASSUME Goto(c, [pc |-> "createUser", guid |-> guid, meta |-> meta])
        PROVE  IInv'
    <3> DEFINE next == [pc |-> "createUser", guid |-> guid, meta |-> meta]
    <3>1. next \in Work /\ next.pc = "createUser"
      BY DEF Work
    <3> HIDE DEF next
    <3>2. work'[c] = next
      BY <2>3 DEF Goto, IInv, TypeOK, next
    <3>3. Written(c)' /\ Knows(c)'
      BY <1>1, <1>2, <3>1, <3>2 DEF Written, Knows
    <3> QED
      BY <1>1, <2>3, <3>1, <3>3, KeepInv DEF next
  <2>4. \A u \in GetUserByGUID(users, guid) : u.id \in UserID
    BY DEF GetUserByGUID, IInv, TypeOK, User
  <2> QED
    BY <2>1, <2>2, <2>3, <2>4
<1>4. CASE LookupActive(c)
  <2>1. PICK p \in Pair, s \in sessions :
          /\ s.selector = p
          /\ Goto(c, [pc |-> "update", user |-> s.user, meta |-> s.meta, old |-> {p}])
    BY <1>4 DEF LookupActive, GetActiveSessionBySelector
  <2> DEFINE next == [pc |-> "update", user |-> s.user, meta |-> s.meta, old |-> {p}]
  <2>2. /\ next \in Work /\ next.pc = "update"
        /\ next.old = {p} /\ next.user = s.user
    BY DEF Work, IInv, TypeOK, RefreshSession
  <2> HIDE DEF next
  <2>3. work'[c] = next
    BY <2>1 DEF Goto, IInv, TypeOK, next
  <2>4. \E t \in tokens : t.jti = p /\ t.user = s.user
    BY <2>1 DEF IInv, RowsBound
  <2>5. Written(c)' /\ Knows(c)'
    BY <1>1, <1>2, <2>2, <2>3, <2>4 DEF Written, Knows
  <2> QED
    BY <1>1, <2>1, <2>2, <2>5, KeepInv DEF next
<1>5. CASE BeginDelete(c)
  <2>0. PICK u \in users : \E order \in SetToSeqs(UserSessions(sessions, u.id)) :
          Goto(c, [pc |-> "delete", left |-> order, rows |-> UserSessions(sessions, u.id)])
    BY <1>5 DEF BeginDelete
  <2>1. PICK order \in SetToSeqs(UserSessions(sessions, u.id)) :
          Goto(c, [pc |-> "delete", left |-> order, rows |-> UserSessions(sessions, u.id)])
    BY <2>0
  <2> DEFINE rows == UserSessions(sessions, u.id)
  <2> DEFINE next == [pc |-> "delete", left |-> order, rows |-> rows]
  <2>2. rows \in SUBSET Stored /\ rows \in SUBSET Pair /\ IsFiniteSet(rows)
    BY SnapshotFinite DEF IInv
  <2>3. /\ order \in Seq(Pair)
        /\ \A p \in rows : \E i \in 1..Len(order) : order[i] = p
        /\ \A i \in 1..Len(order) : order[i] \in rows
    BY <2>1, <2>2, ScanIsComplete
  <2>4. Stored \subseteq Issued
    BY DEF Stored, Issued, IInv, RowsBound
  <2> HIDE DEF rows
  <2>5. /\ next \in Work /\ next.pc = "delete"
        /\ next.left = order /\ next.rows = rows
    BY <2>2, <2>3 DEF Work
  <2> HIDE DEF next
  <2>6. work'[c] = next
    BY <2>1 DEF Goto, IInv, TypeOK, next, rows
  <2>7. Written(c)' /\ Knows(c)'
    BY <1>1, <1>2, <2>2, <2>3, <2>4, <2>5, <2>6 DEF Written, Knows
  <2> QED
    BY <1>1, <2>1, <2>5, <2>7, KeepInv DEF next, rows
<1> QED
  BY <1>3, <1>4, <1>5 DEF Begin

\* The INSERT of a user finds its guid and its id unused, by open transactions too.
LEMMA CreateUserInv == ASSUME IInv, NEW c \in Conn, CreateUserInTx(c)  PROVE IInv'
<1>1. work[c].pc = "createUser" /\ tx[c] = NoTx /\ ~Waits(c)
  BY DEF CreateUserInTx, IInv, Written
<1>2. CASE GetUserByGUID(users, work[c].guid) = {} /\ InsertUser(c)
  <2>1. PICK id \in FreshID :
          /\ Write(c, [tx[c] EXCEPT !.users = CreateUser(@, id, work[c].guid)])
          /\ Goto(c, [pc |-> "insert", user |-> id, meta |-> work[c].meta, old |-> {}])
          /\ UNCHANGED tables
    BY <1>2 DEF InsertUser
  <2> DEFINE n == [id |-> id, guid |-> work[c].guid]
             written == [tx[c] EXCEPT !.users = CreateUser(@, id, work[c].guid)]
             next == [pc |-> "insert", user |-> id, meta |-> work[c].meta, old |-> {}]
  <2>2. id \in UserID /\ \A u \in AnyUser : u.id # id
    BY DEF FreshID, AnyUser
  <2>3. \A u \in AnyUser : u.guid # work[c].guid
    <3>1. \A u \in users : u.guid # work[c].guid
      BY <1>2 DEF GetUserByGUID
    <3>2. \A d \in Conn : \A u \in tx[d].users : u.guid # work[c].guid
      BY <1>1 DEF Waits, WaitsFor
    <3> QED
      BY <3>1, <3>2 DEF AnyUser
  <2>4. /\ n \in User /\ n.id = id /\ n.guid = work[c].guid
        /\ written \in Tx /\ written.users = {n} /\ written.rows = {}
        /\ written.marked = {} /\ written.deleted = {}
    BY <1>1, <2>2, WorkFields DEF User, Tx, CreateUser, IInv
  <2>5. next \in Work /\ next.pc = "insert" /\ next.old = {}
    BY <1>1, <2>2, WorkFields DEF Work, IInv
  <2>6. Goto(c, next) /\ Write(c, written)
    BY <2>1
  <2> HIDE DEF n, written, next
  <2>7. /\ work'[c] = next /\ tx'[c] = written
        /\ \A d \in Conn \ {c} : tx'[d] = tx[d]
    BY <2>6 DEF Goto, Write, IInv, TypeOK
  <2>8. UsersApart'
    <3>1. AnyUser' \subseteq AnyUser \cup {n}
      BY <2>1, <2>4, <2>7 DEF AnyUser, tables
    <3> QED
      BY <2>2, <2>3, <2>4, <3>1 DEF IInv, UsersApart
  <2>9. Written(c)' /\ Knows(c)'
    BY <2>4, <2>5, <2>7 DEF Written, Knows
  <2> QED
    BY <1>1, <2>1, <2>4, <2>5, <2>6, <2>8, <2>9, StepInv
<1> QED
  BY <1>2, RollbackInv DEF CreateUserInTx

\* The INSERT of a session writes one row, of a fresh pair.
LEMMA InsertSessionInv == ASSUME IInv, NEW c \in Conn, InsertSession(c)  PROVE IInv'
<1>1. /\ work[c].pc = "insert" /\ tx[c].rows = {} /\ UNCHANGED tables
      /\ tx[c] \in Tx
  BY DEF InsertSession, IInv, Written, TypeOK
<1>2. PICK p \in Fresh :
        Write(c, [tx[c] EXCEPT !.rows = CreateSession(@,
                    NewSession(p, p, work[c].user, work[c].meta, 0))])
  BY DEF InsertSession
<1> DEFINE s == NewSession(p, p, work[c].user, work[c].meta, 0)
           written == [tx[c] EXCEPT !.rows = CreateSession(@, s)]
           next == [work[c] EXCEPT !.pc = IF work[c].old # {} THEN "getUser" ELSE "commit"]
<1>3. p \in Pair
  BY DEF Fresh
<1>4. /\ s \in RefreshSession /\ s.selector = p /\ s.jti = p
      /\ s.user = work[c].user /\ s.status = "active"
  BY <1>1, <1>3, WorkFields, TTLAssumption
     DEF NewSession, RefreshSession, CreateRefreshToken, IInv
<1> HIDE DEF s
<1>5. /\ written \in Tx /\ written.rows = {s} /\ written.users = tx[c].users
      /\ written.marked = tx[c].marked /\ written.deleted = tx[c].deleted
  BY <1>1, <1>4 DEF Tx, CreateSession
<1>6. /\ next \in Work /\ next.pc \in {"getUser", "commit"}
      /\ next.user = work[c].user /\ next.old = work[c].old
  BY <1>1, WorkFields DEF Work, IInv
<1>7. Goto(c, next) /\ Write(c, written)
  BY <1>2 DEF InsertSession, s
<1> HIDE DEF written, next
<1>8. work'[c] = next /\ tx'[c] = written
  BY <1>7 DEF Goto, Write, IInv, TypeOK
<1>9. sessions' = sessions /\ tokens' = tokens /\ Stored' = Stored /\ Issued' = Issued
  BY <1>1 DEF tables, Stored, Issued
<1>10. Written(c)'
  BY <1>1, <1>4, <1>5, <1>6, <1>8 DEF IInv, Written
<1>11. Knows(c)'
  BY <1>1, <1>5, <1>6, <1>8, <1>9 DEF IInv, Knows
<1> QED
  BY <1>1, <1>4, <1>5, <1>6, <1>7, <1>10, <1>11, StepInv

\* The UPDATE locks the row of the old pair, if it is still there.
LEMMA UpdateOldInv == ASSUME IInv, NEW c \in Conn, UpdateOld(c)  PROVE IInv'
<1>1. work[c].pc = "update" /\ tx[c] = NoTx /\ UNCHANGED tables /\ tx[c] \in Tx
  BY DEF UpdateOld, IInv, Written, TypeOK
<1> DEFINE rows == {p \in work[c].old : FindSessionBySelector(sessions, p) # {}}
           written == [tx[c] EXCEPT !.marked = rows]
           next == [work[c] EXCEPT !.pc = "insert"]
<1>2. rows = work[c].old \cap Stored /\ rows \in SUBSET Pair
  BY <1>1, WorkFields DEF FindSessionBySelector, Stored, IInv
<1>3. Goto(c, next) /\ Write(c, written)
  BY DEF UpdateOld
<1> HIDE DEF rows
<1>4. /\ written \in Tx /\ written.marked = rows /\ written.users = {}
      /\ written.rows = {} /\ written.deleted = {}
  BY <1>1, <1>2 DEF Tx
<1>5. /\ next \in Work /\ next.pc = "insert"
      /\ next.user = work[c].user /\ next.old = work[c].old
  BY <1>1, WorkFields DEF Work, IInv
<1> HIDE DEF written, next
<1>6. work'[c] = next /\ tx'[c] = written
  BY <1>3 DEF Goto, Write, IInv, TypeOK
<1>7. sessions' = sessions /\ tokens' = tokens /\ Stored' = Stored
  BY <1>1 DEF tables, Stored
<1>8. Written(c)'
  BY <1>2, <1>4, <1>5, <1>6 DEF Written
<1>9. Knows(c)'
  BY <1>1, <1>2, <1>4, <1>5, <1>6, <1>7 DEF IInv, Knows
<1> QED
  BY <1>1, <1>3, <1>4, <1>5, <1>8, <1>9, StepInv

LEMMA GetUserInv == ASSUME IInv, NEW c \in Conn, GetUserInTx(c)  PROVE IInv'
<1>1. work[c].pc = "getUser"
  BY DEF GetUserInTx
<1>2. CASE Goto(c, [work[c] EXCEPT !.pc = "commit"]) /\ UNCHANGED <<tables, tx>>
  <2> DEFINE next == [work[c] EXCEPT !.pc = "commit"]
  <2>1. /\ next \in Work /\ next.pc = "commit"
        /\ next.user = work[c].user /\ next.old = work[c].old
    BY <1>1, WorkFields DEF Work, IInv
  <2>2. Goto(c, next)
    BY <1>2
  <2> HIDE DEF next
  <2>3. /\ work'[c] = next /\ tx' = tx
        /\ sessions' = sessions /\ tokens' = tokens /\ Stored' = Stored
    BY <1>2, <2>2 DEF Goto, IInv, TypeOK, tables, Stored
  <2>4. Written(c)' /\ Knows(c)'
    BY <1>1, <2>1, <2>3 DEF IInv, Written, Knows
  <2> QED
    BY <1>2, <2>1, <2>2, <2>4, KeepInv
<1> QED
  BY <1>2, RollbackInv DEF GetUserInTx

\* The DELETE locks the next row of its snapshot, if it is still there.
LEMMA DeleteRowInv == ASSUME IInv, NEW c \in Conn, DeleteRow(c)  PROVE IInv'
<1>1. /\ work[c].pc = "delete" /\ work[c].left # <<>>
      /\ UNCHANGED tables /\ tx[c] \in Tx
  BY DEF DeleteRow, IInv, TypeOK
<1>2. work[c].left \in Seq(Pair) /\ work[c].rows \in SUBSET Pair
  BY <1>1, WorkFields DEF IInv
<1> DEFINE h == Head(work[c].left)
           rows == {p \in {h} : FindSessionBySelector(sessions, p) # {}}
           written == [tx[c] EXCEPT !.deleted = @ \cup rows]
           next == [work[c] EXCEPT !.left = Tail(@)]
<1>3. Target(c) = {h}
  BY <1>1 DEF Target
<1>4. Goto(c, next) /\ Write(c, written)
  BY <1>3 DEF DeleteRow
<1>5. /\ h \in Pair /\ h \in work[c].rows
      /\ Tail(work[c].left) \in Seq(Pair)
      /\ \A i \in 1..Len(Tail(work[c].left)) : Tail(work[c].left)[i] \in work[c].rows
      /\ \A i \in 1..Len(work[c].left) :
           work[c].left[i] = h \/ \E j \in 1..Len(Tail(work[c].left)) :
                                   Tail(work[c].left)[j] = work[c].left[i]
  <2>1. \A i \in 1..Len(work[c].left) : work[c].left[i] \in work[c].rows
    BY <1>1 DEF IInv, Written
  <2> HIDE DEF h
  <2> DEFINE q == work[c].left
  <2>2. q \in Seq(Pair) /\ q # <<>>
    BY <1>1, <1>2
  <2> HIDE DEF q
  <2>3. /\ Len(q) \in Nat \ {0} /\ Tail(q) \in Seq(Pair) /\ Len(Tail(q)) = Len(q) - 1
        /\ \A i \in 1..Len(Tail(q)) : Tail(q)[i] = q[i + 1]
        /\ Head(q) = q[1] /\ Head(q) \in Pair
    BY <2>2, HeadTailProperties, EmptySeq
  <2>4. \A i \in 1..Len(q) : i = 1 \/ (i - 1 \in 1..Len(Tail(q)) /\ Tail(q)[i - 1] = q[i])
    BY <2>3
  <2>5. \A i \in 1..Len(Tail(q)) : i + 1 \in 1..Len(q)
    BY <2>3
  <2>6. 1 \in 1..Len(q)
    BY <2>3
  <2> QED
    BY <2>1, <2>3, <2>4, <2>5, <2>6 DEF q, h
<1>6. h \in Stored => h \in rows
  BY DEF FindSessionBySelector, Stored
<1>7. rows \subseteq {h}
  OBVIOUS
<1> HIDE DEF h, rows
<1>8. /\ written \in Tx /\ written.deleted = tx[c].deleted \cup rows
      /\ written.rows = tx[c].rows /\ written.users = tx[c].users
      /\ written.marked = tx[c].marked
  BY <1>1, <1>5, <1>7 DEF Tx
<1>9. /\ next \in Work /\ next.pc = "delete"
      /\ next.left = Tail(work[c].left) /\ next.rows = work[c].rows
  BY <1>1, <1>5, WorkFields DEF Work, IInv
<1> HIDE DEF written, next
<1>10. work'[c] = next /\ tx'[c] = written
  BY <1>4 DEF Goto, Write, IInv, TypeOK
<1>11. sessions' = sessions /\ tokens' = tokens /\ Stored' = Stored /\ Issued' = Issued
  BY <1>1 DEF tables, Stored, Issued
<1>12. Written(c)'
  BY <1>1, <1>5, <1>7, <1>8, <1>9, <1>10 DEF IInv, Written
<1>13. Knows(c)'
  <2>1. ASSUME NEW p \in work[c].rows \cap Stored
        PROVE  p \in written.deleted \/ \E i \in 1..Len(next.left) : next.left[i] = p
    <3>1. p \in tx[c].deleted \/ \E i \in 1..Len(work[c].left) : work[c].left[i] = p
      BY <1>1 DEF IInv, Knows
    <3> QED
      BY <1>5, <1>6, <1>8, <1>9, <3>1
  <2> QED
    BY <1>1, <1>9, <1>10, <1>11, <2>1 DEF IInv, Knows
<1> QED
  BY <1>1, <1>4, <1>8, <1>9, <1>12, <1>13, StepInv

-----------------------------------------------------------------------------
(* COMMIT *)

\* What sessions holds after the COMMIT of c: the rows it left alone, the new one,
\* and the marked ones that were there.
LEMMA CommitRows ==
  ASSUME IInv, NEW c \in Conn, Commit(c)
  PROVE  /\ sessions' \subseteq RefreshSession
         /\ \A s \in sessions' :
              \/ s \in sessions /\ s.selector \notin tx[c].marked \cup tx[c].deleted
              \/ s \in tx[c].rows
              \/ /\ s.selector \in tx[c].marked /\ s.status = "used"
                 /\ \E s0 \in sessions : /\ s0.selector = s.selector /\ s0.user = s.user
                                         /\ s = [s0 EXCEPT !.status = "used"]
         /\ \A s \in sessions :
              s.selector \notin tx[c].marked \cup tx[c].deleted => s \in sessions'
         /\ tx[c].rows \subseteq sessions'
         /\ \A s \in sessions : s.selector \in tx[c].marked =>
              \E x \in sessions' : x.selector = s.selector /\ x.status = "used"
<1> DEFINE M == tx[c].marked
           D == tx[c].deleted
           Used == UNION {MarkSessionAsUsed(FindSessionBySelector(sessions, p), p) : p \in M}
<1>1. sessions' = {s \in sessions : s.selector \notin D \cup M} \cup tx[c].rows \cup Used
  BY DEF Commit, DeleteAllUserSessions
<1>2. /\ sessions \subseteq RefreshSession /\ tx[c].rows \subseteq RefreshSession
  BY DEF IInv, TypeOK, Tx
<1>3. ASSUME NEW s \in sessions
      PROVE  LET x == [s EXCEPT !.status = "used"]
             IN  /\ x \in RefreshSession /\ x.selector = s.selector
                 /\ x.user = s.user /\ x.status = "used"
  BY <1>2 DEF RefreshSession
<1>4. \A x : x \in Used <=>
               \E p \in M : \E s \in sessions :
                 s.selector = p /\ x = [s EXCEPT !.status = "used"]
  <2>1. ASSUME NEW p, NEW x
        PROVE  x \in MarkSessionAsUsed(FindSessionBySelector(sessions, p), p) <=>
                 \E s \in sessions : s.selector = p /\ x = [s EXCEPT !.status = "used"]
    BY DEF MarkSessionAsUsed, FindSessionBySelector
  <2> QED
    BY <2>1
<1> HIDE DEF M, D, Used
<1>5. sessions' \subseteq RefreshSession
  BY <1>1, <1>2, <1>3, <1>4
<1>6. \A s \in sessions' :
        \/ s \in sessions /\ s.selector \notin M \cup D
        \/ s \in tx[c].rows
        \/ /\ s.selector \in M /\ s.status = "used"
           /\ \E s0 \in sessions : /\ s0.selector = s.selector /\ s0.user = s.user
                                   /\ s = [s0 EXCEPT !.status = "used"]
  <2>1. ASSUME NEW s \in Used
        PROVE  /\ s.selector \in M /\ s.status = "used"
               /\ \E s0 \in sessions : /\ s0.selector = s.selector /\ s0.user = s.user
                                       /\ s = [s0 EXCEPT !.status = "used"]
    <3>1. PICK s0 \in sessions : s0.selector \in M /\ s = [s0 EXCEPT !.status = "used"]
      BY <1>4, <2>1
    <3> QED
      BY <1>3, <3>1
  <2> QED
    BY <1>1, <2>1
<1>7. \A s \in sessions : s.selector \notin M \cup D => s \in sessions'
  BY <1>1
<1>8. \A s \in sessions : s.selector \in M =>
        \E x \in sessions' : x.selector = s.selector /\ x.status = "used"
  <2>1. ASSUME NEW s \in sessions, s.selector \in M
        PROVE  [s EXCEPT !.status = "used"] \in sessions'
    BY <1>1, <1>4, <2>1
  <2> QED
    BY <1>3, <2>1
<1> QED
  BY <1>1, <1>5, <1>6, <1>7, <1>8 DEF M, D

\* A transaction commits at most one row, of a pair that has no token yet, and the
\* token of that row.
LEMMA CommitTokens ==
  ASSUME IInv, NEW c \in Conn, Commit(c)
  PROVE  /\ \E S : tx[c].rows = {} \/ (tx[c].rows = {S} /\ S \in RefreshSession)
         /\ tx[c].rows \subseteq RefreshSession
         /\ \A s \in tx[c].rows :
              /\ s.selector \in Pair \ Issued /\ s.jti = s.selector
              /\ s.user \in UserID
              /\ s.user = work[c].user /\ s.status = "active"
         /\ tokens \subseteq tokens'
         /\ \A t \in tokens' : t \in tokens \/
              \E s \in tx[c].rows : /\ t = CreateAccessTokenWithJTI(s.user, 0, s.jti)
                                    /\ t.jti = s.selector /\ t.user = s.user
                                    /\ t \in AccessToken
         /\ \A s \in tx[c].rows : \E t \in tokens' : t.jti = s.selector /\ t.user = s.user
         /\ Issued' = Issued \cup {s.selector : s \in tx[c].rows}
<1>1. work[c].pc \in {"commit", "delete"}
  BY DEF Commit
<1>2. tx[c].rows = {} \/ \E s \in RefreshSession :
        /\ tx[c].rows = {s} /\ s.jti = s.selector
        /\ s.user = work[c].user /\ s.status = "active"
  BY <1>1 DEF IInv, Written
<1>3. \A s \in tx[c].rows : s.selector \notin Issued
  BY DEF IInv, RowsApart
<1>4. tokens' = tokens \cup {CreateAccessTokenWithJTI(s.user, 0, s.jti) : s \in tx[c].rows}
  BY DEF Commit
<1>5. \A s \in tx[c].rows :
        /\ s.selector \in Pair \ Issued /\ s.jti = s.selector /\ s.user \in UserID
        /\ s.user = work[c].user /\ s.status = "active"
  BY <1>2, <1>3 DEF RefreshSession
<1>6. ASSUME NEW s \in tx[c].rows
      PROVE  LET t == CreateAccessTokenWithJTI(s.user, 0, s.jti)
             IN  t \in AccessToken /\ t.jti = s.selector /\ t.user = s.user
  BY <1>5, TTLAssumption DEF CreateAccessTokenWithJTI, AccessToken
<1>7. Issued' = Issued \cup {s.selector : s \in tx[c].rows}
  BY <1>4, <1>6 DEF Issued
<1> QED
  BY <1>2, <1>4, <1>5, <1>6, <1>7

LEMMA CommitInv == ASSUME IInv, NEW c \in Conn, Commit(c)  PROVE IInv'
<1> DEFINE R == tx[c].rows
<1>1. /\ work[c].pc = "commit" \/ work[c].pc = "delete"
      /\ users' = users \cup tx[c].users
      /\ rotated' = rotated \cup
           (IF work[c].pc = "commit" THEN work[c].old \X {s.selector : s \in R} ELSE {})
      /\ Write(c, NoTx) /\ Goto(c, Idle)
  BY DEF Commit
<1>2. /\ work'[c] = Idle /\ tx'[c] = NoTx
      /\ \A d \in Conn \ {c} : work'[d] = work[d] /\ tx'[d] = tx[d]
  BY <1>1 DEF Goto, Write, IInv, TypeOK
<1>3. Stored' \subseteq Stored \cup {s.selector : s \in R}
  <2>1. \A s \in sessions' : s \in R \/ \E s0 \in sessions : s0.selector = s.selector
    BY CommitRows
  <2> QED
    BY <2>1 DEF Stored
<1>4. TypeOK'
  <2>1. tx' \in [Conn -> Tx] /\ work' \in [Conn -> Work]
    BY <1>1 DEF Write, Goto, Tx, Work, IInv, TypeOK
  <2>2. users' \subseteq User
    BY <1>1 DEF IInv, TypeOK, Tx
  <2>3. tokens' \subseteq AccessToken
    BY CommitTokens DEF IInv, TypeOK
  <2>4. rotated' \subseteq Pair \X Pair
    <3>1. {s.selector : s \in R} \subseteq Pair
      BY CommitTokens
    <3>2. work[c].pc = "commit" => work[c].old \subseteq Pair
      BY WorkFields DEF IInv
    <3>3. rotated \subseteq Pair \X Pair
      BY DEF IInv, TypeOK
    <3> HIDE DEF R
    <3> QED
      BY <1>1, <3>1, <3>2, <3>3
  <2> QED
    BY <2>1, <2>2, <2>3, <2>4, CommitRows DEF TypeOK
<1>5. RowsBound'
  <2>1. IsFiniteSet(Stored')
    <3>1. IsFiniteSet(Stored)
      BY DEF IInv, RowsBound
    <3>2. CASE R = {}
      BY <1>3, <3>1, <3>2, FS_Subset
    <3>3. ASSUME NEW s, R = {s}  PROVE IsFiniteSet(Stored')
      <4>1. IsFiniteSet(Stored \cup {s.selector})
        BY <3>1, FS_AddElement
      <4>2. Stored' \subseteq Stored \cup {s.selector}
        BY <1>3, <3>3
      <4> QED
        BY <4>1, <4>2, FS_Subset
    <3> QED
      BY <3>2, <3>3, CommitTokens
  <2>2. \A s \in sessions' : \E t \in tokens' : t.jti = s.selector /\ t.user = s.user
    <3>1. \A s \in sessions : \E t \in tokens : t.jti = s.selector /\ t.user = s.user
      BY DEF IInv, RowsBound
    <3> QED
      BY <3>1, CommitRows, CommitTokens
  <2>3. ASSUME NEW s1 \in sessions', NEW s2 \in sessions', s1.selector = s2.selector
        PROVE  s1 = s2
    <3>1. \A x1, x2 \in sessions : x1.selector = x2.selector => x1 = x2
      BY DEF IInv, RowsBound
    <3>2. \A x \in sessions : x.selector \in Issued
      BY DEF IInv, RowsBound, Issued
    <3>3. \A x \in R : x.selector \notin Issued
      BY CommitTokens
    <3>4. \A x1, x2 \in R : x1 = x2
      BY CommitTokens
    <3>5. \A x \in sessions' :
            \/ x \in sessions /\ x.selector \notin tx[c].marked
            \/ x \in R
            \/ /\ x.selector \in tx[c].marked
               /\ \E s0 \in sessions : /\ s0.selector = x.selector
                                       /\ x = [s0 EXCEPT !.status = "used"]
      BY CommitRows
    <3> HIDE DEF R
    <3> QED
      BY <2>3, <3>1, <3>2, <3>3, <3>4, <3>5
  <2>4. \A t1, t2 \in tokens' : t1.jti = t2.jti => t1 = t2
    <3>1. \A t1, t2 \in tokens : t1.jti = t2.jti => t1 = t2
      BY DEF IInv, RowsBound
    <3>2. \A t \in tokens : t.jti \in Issued
      BY DEF Issued
    <3>3. \A x1, x2 \in R : x1 = x2
      BY CommitTokens
    <3> QED
      BY <3>1, <3>2, <3>3, CommitTokens
  <2> QED
    BY <2>1, <2>2, <2>3, <2>4 DEF RowsBound
<1>6. RowsApart'
  <2>1. /\ \A d \in Conn : \A s \in tx[d].rows : s.selector \notin Issued
        /\ \A d \in Conn \ {c} : \A s \in tx[d].rows : \A x \in R : s.selector # x.selector
        /\ \A d, e \in Conn : \A s1 \in tx[d].rows, s2 \in tx[e].rows :
             s1.selector = s2.selector => d = e
    BY DEF IInv, RowsApart
  <2>2. Issued' = Issued \cup {s.selector : s \in R}
    BY CommitTokens
  <2>3. tx'[c].rows = {} /\ \A d \in Conn \ {c} : tx'[d].rows = tx[d].rows
    BY <1>2
  <2> HIDE DEF R
  <2> QED
    BY <2>1, <2>2, <2>3 DEF RowsApart
<1>7. UsersApart'
  <2>1. AnyUser' \subseteq AnyUser
    BY <1>1, <1>2 DEF AnyUser
  <2> QED
    BY <2>1 DEF IInv, UsersApart
<1>8. ASSUME NEW d \in Conn  PROVE Written(d)' /\ Knows(d)'
  <2>1. CASE d = c
    BY <1>2, <2>1 DEF Written, Knows
  <2>2. CASE d # c
    <3>1. Stored' \cap Issued \subseteq Stored
      BY <1>3, CommitTokens
    <3>2. tokens \subseteq tokens'
      BY CommitTokens
    <3> QED
      BY <1>2, <2>2, <3>1, <3>2, OthersStay
  <2> QED
    BY <2>1, <2>2
<1> QED
  BY <1>4, <1>5, <1>6, <1>7, <1>8 DEF IInv

-----------------------------------------------------------------------------
LEMMA InvInit == Init => IInv
<1> SUFFICES ASSUME Init  PROVE IInv
  OBVIOUS
<1>1. TypeOK
  BY DEF Init, TypeOK, Tx, Work
<1>2. RowsBound
  <2>1. Stored = {}
    BY DEF Init, Stored
  <2> QED
    BY <2>1, FS_EmptySet DEF Init, RowsBound
<1>3. RowsApart /\ UsersApart
  BY DEF Init, RowsApart, UsersApart, AnyUser
<1>4. \A c \in Conn : Written(c) /\ Knows(c)
  BY DEF Init, Written, Knows
<1> QED
  BY <1>1, <1>2, <1>3, <1>4 DEF IInv

LEMMA InvNext == IInv /\ [Next]_vars => IInv'
<1> SUFFICES ASSUME IInv, [Next]_vars  PROVE IInv'
  OBVIOUS
<1>1. CASE UNCHANGED vars
  <2>1. /\ users' = users /\ sessions' = sessions /\ tokens' = tokens
        /\ rotated' = rotated /\ tx' = tx /\ work' = work
    BY <1>1 DEF vars
  <2>2. Stored' = Stored /\ Issued' = Issued /\ AnyUser' = AnyUser
    BY <2>1 DEF Stored, Issued, AnyUser
  <2>3. TypeOK' /\ RowsBound' /\ RowsApart' /\ UsersApart'
    BY <2>1, <2>2 DEF IInv, TypeOK, RowsBound, RowsApart, UsersApart
  <2>4. \A d \in Conn : Written(d)' /\ Knows(d)'
    BY <2>1, <2>2, OthersStay
  <2> QED
    BY <2>3, <2>4 DEF IInv
<1>2. ASSUME NEW c \in Conn, Begin(c)  PROVE IInv'
  BY <1>2, BeginInv
<1>3. ASSUME NEW c \in Conn, Statement(c)  PROVE IInv'
  BY <1>3, CreateUserInv, InsertSessionInv, UpdateOldInv, GetUserInv, DeleteRowInv, CommitInv
     DEF Statement
<1>4. ASSUME NEW c \in Conn, Rollback(c)  PROVE IInv'
  BY <1>4, RollbackInv
<1> QED
  BY <1>1, <1>2, <1>3, <1>4 DEF Next, Abort, Deadlock

LEMMA Invariant == Spec => []IInv
  BY InvInit, InvNext, PTL DEF Spec

\* Every reachable state of the tables and the transactions is well-formed.
THEOREM TypeCorrect == Spec => []TypeOK
<1>1. IInv => TypeOK
  BY DEF IInv
<1> QED
  BY <1>1, Invariant, PTL

\* The lookup of the user and its INSERT are two statements, and yet two
\* transactions never make two users of one guid, however many there are: the
\* INSERT waits for the other one, and fails if that one has committed.
THEOREM GuidsUnique == Spec => []OneUserPerGuid
<1>1. IInv => OneUserPerGuid
  BY DEF IInv, UsersApart, AnyUser, OneUserPerGuid
<1> QED
  BY <1>1, Invariant, PTL

\* Who is waited for has written something, and who waits is at a statement that
\* changes a row or inserts a user: only a DELETE that has locked a row already can be
\* both.  No rotation and no issue is ever the victim of a deadlock.
THEOREM DeadlockIsDeletes == Spec => []OnlyDeletesDeadlock
<1>1. IInv => OnlyDeletesDeadlock
  <2> SUFFICES ASSUME IInv, NEW C \in SUBSET Conn, Cycle(C), NEW c \in C
               PROVE  work[c].pc = "delete"
    BY DEF OnlyDeletesDeadlock
  <2>1. PICK d \in C : WaitsFor(d, c)
    BY DEF Cycle
  <2>2. tx[c] # NoTx
    BY <2>1 DEF WaitsFor, Locks
  <2>3. work[c].pc \notin {"idle", "createUser", "update"}
    BY <2>2 DEF IInv, Written
  <2>4. PICK e \in C : WaitsFor(c, e)
    BY DEF Cycle
  <2>5. work[c].pc = "createUser" \/ Target(c) # {}
    BY <2>4 DEF WaitsFor
  <2>6. work[c].pc \in {"createUser", "update", "delete"}
    BY <2>5 DEF Target
  <2> QED
    BY <2>3, <2>6
<1> QED
  BY <1>1, Invariant, PTL

-----------------------------------------------------------------------------
(* The refinement of SessionLineage *)

\* A step of SessionLineage, or none.
LineageStep == [Lineage!Next]_(Lineage!vars)

-----------------------------------------------------------------------------
(* The refinement mapping in terms of the tables *)

\* What the status of a pair says of the rows of sessions.
StatusFacts ==
  /\ Status \in [Pair -> {"none", "active", "used", "revoked"}]
  /\ \A p \in Pair :
       /\ Status[p] = "none" <=> p \notin Issued
       /\ Status[p] = "active" <=>
            \E s \in sessions : s.selector = p /\ s.status = "active"
       /\ Status[p] = "used" <=>
            \E s \in sessions : s.selector = p /\ s.status = "used"

LEMMA StatusIs == IInv => StatusFacts
<1> SUFFICES ASSUME IInv  PROVE StatusFacts
  OBVIOUS
<1>1. \A s \in sessions : s.selector \in Issued /\ s.status \in {"active", "used"}
  BY DEF IInv, RowsBound, Issued, TypeOK, RefreshSession
<1>2. \A s1, s2 \in sessions : s1.selector = s2.selector => s1 = s2
  BY DEF IInv, RowsBound
<1>3. ASSUME NEW p \in Pair
      PROVE  /\ Status[p] \in {"none", "active", "used", "revoked"}
             /\ Status[p] = "none" <=> p \notin Issued
             /\ Status[p] = "active" <=>
                  \E s \in sessions : s.selector = p /\ s.status = "active"
             /\ Status[p] = "used" <=>
                  \E s \in sessions : s.selector = p /\ s.status = "used"
  <2>1. CASE \E s \in sessions : s.selector = p /\ s.status = "active"
    BY <1>1, <1>2, <2>1 DEF Status, GetActiveSessionBySelector
  <2>2. CASE ~\E s \in sessions : s.selector = p /\ s.status = "active"
    <3>1. GetActiveSessionBySelector(sessions, p) = {}
      BY <2>2 DEF GetActiveSessionBySelector
    <3>2. FindSessionBySelector(sessions, p) # {} <=>
            \E s \in sessions : s.selector = p /\ s.status = "used"
      BY <1>1, <2>2 DEF FindSessionBySelector
    <3>3. FindSessionBySelector(sessions, p) # {} => p \in Issued
      BY <1>1 DEF FindSessionBySelector
    <3>4. Status[p] = IF FindSessionBySelector(sessions, p) # {} THEN "used"
                      ELSE IF p \in Issued THEN "revoked" ELSE "none"
      BY <3>1 DEF Status
    <3> QED
      BY <2>2, <3>2, <3>3, <3>4
  <2> QED
    BY <2>1, <2>2
<1>4. Status \in [Pair -> {"none", "active", "used", "revoked"}]
  BY <1>3 DEF Status
<1> QED
  BY <1>3, <1>4 DEF StatusFacts

LEMMA StatusIsNext == IInv' => StatusFacts'
  BY StatusIs, PTL

\* The owner of a pair is the user its access token names.
LEMMA OwnerIs ==
  ASSUME IInv, NEW t \in tokens
  PROVE  t.jti \in Pair /\ Owner[t.jti] = {t.user}
<1>1. t.jti \in Pair
  BY DEF IInv, TypeOK, AccessToken
<1>2. {x \in tokens : x.jti = t.jti} = {t}
  BY DEF IInv, RowsBound
<1> QED
  BY <1>1, <1>2 DEF Owner

\* The snapshot of a DELETE is what its user has alive.
LEMMA SnapshotIsLive ==
  ASSUME IInv, NEW u
  PROVE  UserSessions(sessions, u) = {p \in Lineage!Live : Owner[p] = {u}}
<1>1. \A p : p \in Lineage!Live <=> p \in Pair /\ \E s \in sessions : s.selector = p
  BY StatusIs DEF Lineage!Live, StatusFacts, IInv, TypeOK, RefreshSession
<1>2. ASSUME NEW s \in sessions
      PROVE  s.selector \in Pair /\ Owner[s.selector] = {s.user}
  <2>1. PICK t \in tokens : t.jti = s.selector /\ t.user = s.user
    BY DEF IInv, RowsBound
  <2> QED
    BY <2>1, OwnerIs
<1>3. \A p : p \in UserSessions(sessions, u) <=>
               \E s \in sessions : s.selector = p /\ s.user = u
  BY DEF UserSessions
<1> QED
  BY <1>1, <1>2, <1>3

-----------------------------------------------------------------------------
(* Steps of one connection that leave the tables alone *)

LEMMA TablesKept ==
  ASSUME UNCHANGED tables
  PROVE  Status' = Status /\ Owner' = Owner /\ rotated' = rotated
<1>1. sessions' = sessions /\ tokens' = tokens /\ rotated' = rotated
  BY DEF tables
<1> QED
  BY <1>1 DEF Status, Owner, Issued

\* The statements of a transaction that issues or rotates.
Rotating == {"update", "insert", "getUser", "commit"}

\* What a connection may exchange or is about to revoke is in its own work.
LEMMA HeldByOne ==
  ASSUME TypeOK, NEW c \in Conn, NEW next, Goto(c, next)
  PROVE  /\ Granted' = [Granted EXCEPT ![c] =
                          IF next.pc \in Rotating THEN next.old ELSE {}]
         /\ Scope' = [Scope EXCEPT ![c] = IF next.pc = "delete" THEN next.rows ELSE {}]
<1>1. work'[c] = next /\ \A d \in Conn \ {c} : work'[d] = work[d]
  BY DEF Goto, TypeOK
<1> QED
  BY <1>1 DEF Granted, Scope, Rotating

LEMMA HeldType ==
  ASSUME TypeOK
  PROVE  Granted \in [Conn -> SUBSET Pair] /\ Scope \in [Conn -> SUBSET Pair]
  BY WorkFields DEF Granted, Scope

LEMMA HeldSame ==
  ASSUME TypeOK, NEW c \in Conn, NEW next, Goto(c, next)
  PROVE  /\ Granted[c] = (IF next.pc \in Rotating THEN next.old ELSE {})
              => Granted' = Granted
         /\ Scope[c] = (IF next.pc = "delete" THEN next.rows ELSE {})
              => Scope' = Scope
<1> DEFINE g == IF next.pc \in Rotating THEN next.old ELSE {}
           d == IF next.pc = "delete" THEN next.rows ELSE {}
<1>1. Granted' = [Granted EXCEPT ![c] = g] /\ Scope' = [Scope EXCEPT ![c] = d]
  BY HeldByOne
<1> HIDE DEF g, d
<1>2. Granted[c] = g => Granted' = Granted
  BY <1>1, HeldType
<1>3. Scope[c] = d => Scope' = Scope
  BY <1>1, HeldType
<1> QED
  BY <1>2, <1>3 DEF g, d

\* A transaction goes on with the next statement.
LEMMA StepKeep ==
  ASSUME TypeOK, NEW c \in Conn, NEW next, Goto(c, next), UNCHANGED tables,
         \/ next.pc \in Rotating /\ next.old = Granted[c] /\ Scope[c] = {}
         \/ next.pc = "delete" /\ next.rows = Scope[c] /\ Granted[c] = {}
         \/ next.pc \notin Rotating \cup {"delete"} /\ Scope[c] = {} /\ Granted[c] = {}
  PROVE  LineageStep
<1>1. Granted' = Granted /\ Scope' = Scope
  BY HeldSame DEF Rotating
<1> QED
  BY <1>1, TablesKept DEF LineageStep, Lineage!vars

\* A transaction ends without COMMIT: what it meant to do does not happen.
LEMMA StepRollback == ASSUME TypeOK, NEW c \in Conn, Rollback(c)  PROVE LineageStep
<1>1. Goto(c, Idle) /\ UNCHANGED tables
  BY DEF Rollback
<1>2. Granted' = [Granted EXCEPT ![c] = {}] /\ Scope' = [Scope EXCEPT ![c] = {}]
  BY <1>1, HeldByOne DEF Rotating
<1>3. CASE c \in Lineage!Busy
  <2>1. Lineage!GiveUp({c})
    BY <1>1, <1>2, TablesKept, HeldType DEF Lineage!GiveUp
  <2>2. {c} \in SUBSET Lineage!Busy
    BY <1>3
  <2> QED
    BY <2>1, <2>2 DEF LineageStep, Lineage!Next
<1>4. CASE c \notin Lineage!Busy
  <2>1. Granted' = Granted /\ Scope' = Scope
    BY <1>2, <1>4, HeldType DEF Lineage!Busy
  <2> QED
    BY <1>1, <2>1, TablesKept DEF LineageStep, Lineage!vars
<1> QED
  BY <1>3, <1>4

\* The lookup before RotateTokensTx is Grant, the snapshot of a DELETE RevokeBegin.
LEMMA StepBegin == ASSUME IInv, NEW c \in Conn, Begin(c)  PROVE LineageStep
<1>1. work[c] = Idle /\ UNCHANGED tables /\ TypeOK
  BY DEF Begin, BeginIssue, LookupActive, BeginDelete, IInv
<1>2. Granted[c] = {} /\ Scope[c] = {} /\ c \notin Lineage!Busy
  BY <1>1 DEF Granted, Scope, Lineage!Busy
<1>3. CASE BeginIssue(c)
  <2>1. ASSUME NEW u, NEW meta,
               Goto(c, [pc |-> "insert", user |-> u, meta |-> meta, old |-> {}])
        PROVE  LineageStep
    <3> DEFINE next == [pc |-> "insert", user |-> u, meta |-> meta, old |-> {}]
    <3>1. Goto(c, next) /\ next.pc \in Rotating /\ next.old = {}
      BY <2>1 DEF Rotating
    <3> HIDE DEF next
    <3> QED
      BY <1>1, <1>2, <3>1, StepKeep
  <2>2. ASSUME NEW guid, NEW meta,
               Goto(c, [pc |-> "createUser", guid |-> guid, meta |-> meta])
        PROVE  LineageStep
    <3> DEFINE next == [pc |-> "createUser", guid |-> guid, meta |-> meta]
    <3>1. Goto(c, next) /\ next.pc \notin Rotating \cup {"delete"}
      BY <2>2 DEF Rotating
    <3> HIDE DEF next
    <3> QED
      BY <1>1, <1>2, <3>1, StepKeep
  <2> QED
    BY <1>3, <2>1, <2>2 DEF BeginIssue
<1>4. CASE LookupActive(c)
  <2>1. PICK p \in Pair, s \in sessions :
          /\ s.selector = p /\ s.status = "active"
          /\ Goto(c, [pc |-> "update", user |-> s.user, meta |-> s.meta, old |-> {p}])
    BY <1>4 DEF LookupActive, GetActiveSessionBySelector
  <2> DEFINE next == [pc |-> "update", user |-> s.user, meta |-> s.meta, old |-> {p}]
  <2>2. Goto(c, next) /\ next.pc = "update" /\ next.old = {p}
    BY <2>1
  <2> HIDE DEF next
  <2>3. Granted' = [Granted EXCEPT ![c] = {p}] /\ Scope' = Scope
    BY <1>1, <1>2, <2>2, HeldByOne, HeldSame DEF Rotating
  <2>4. Status[p] = "active"
    BY <2>1, StatusIs DEF StatusFacts
  <2>5. Lineage!Grant(c, p)
    BY <1>1, <1>2, <2>3, <2>4, TablesKept DEF Lineage!Grant
  <2> QED
    BY <2>5 DEF LineageStep, Lineage!Next
<1>5. CASE BeginDelete(c)
  <2>1. PICK u \in users : \E order \in SetToSeqs(UserSessions(sessions, u.id)) :
          Goto(c, [pc |-> "delete", left |-> order, rows |-> UserSessions(sessions, u.id)])
    BY <1>5 DEF BeginDelete
  <2>2. PICK order : Goto(c, [pc |-> "delete", left |-> order,
                              rows |-> UserSessions(sessions, u.id)])
    BY <2>1
  <2> DEFINE next == [pc |-> "delete", left |-> order, rows |-> UserSessions(sessions, u.id)]
  <2>3. Goto(c, next) /\ next.pc = "delete" /\ next.rows = UserSessions(sessions, u.id)
    BY <2>2
  <2> HIDE DEF next
  <2>4. Scope' = [Scope EXCEPT ![c] = UserSessions(sessions, u.id)] /\ Granted' = Granted
    BY <1>1, <1>2, <2>3, HeldByOne, HeldSame DEF Rotating
  <2>5. Lineage!RevokeBegin(c, u.id)
    BY <1>1, <1>2, <2>4, SnapshotIsLive, TablesKept DEF Lineage!RevokeBegin
  <2>6. u.id \in UserID
    BY DEF IInv, TypeOK, User
  <2> QED
    BY <2>5, <2>6 DEF LineageStep, Lineage!Next
<1> QED
  BY <1>3, <1>4, <1>5 DEF Begin

\* The statements between the begin of a transaction and its COMMIT are no step of
\* SessionLineage, unless they fail.
LEMMA StepStatement ==
  ASSUME IInv, NEW c \in Conn,
         \/ CreateUserInTx(c) \/ InsertSession(c) \/ UpdateOld(c) \/ GetUserInTx(c)
         \/ DeleteRow(c)
  PROVE  LineageStep
<1>1. TypeOK
  BY DEF IInv
<1>2. /\ work[c].pc \in Rotating => Granted[c] = work[c].old /\ Scope[c] = {}
      /\ work[c].pc = "delete" => Granted[c] = {} /\ Scope[c] = work[c].rows
      /\ work[c].pc = "createUser" => Granted[c] = {} /\ Scope[c] = {}
  BY DEF Granted, Scope, Rotating
<1>3. CASE CreateUserInTx(c)
  <2>1. ASSUME NEW id, NEW meta, UNCHANGED tables,
               Goto(c, [pc |-> "insert", user |-> id, meta |-> meta, old |-> {}])
        PROVE  LineageStep
    <3> DEFINE next == [pc |-> "insert", user |-> id, meta |-> meta, old |-> {}]
    <3>1. Goto(c, next) /\ next.pc \in Rotating /\ next.old = {}
      BY <2>1 DEF Rotating
    <3>2. Granted[c] = {} /\ Scope[c] = {}
      BY <1>2, <1>3 DEF CreateUserInTx
    <3> HIDE DEF next
    <3> QED
      BY <1>1, <2>1, <3>1, <3>2, StepKeep
  <2> QED
    BY <1>1, <1>3, <2>1, StepRollback DEF CreateUserInTx, InsertUser
<1>4. ASSUME work[c].pc \in Rotating, UNCHANGED tables, NEW st \in Rotating,
             Goto(c, [work[c] EXCEPT !.pc = st])
      PROVE  LineageStep
  <2> DEFINE next == [work[c] EXCEPT !.pc = st]
  <2>1. Goto(c, next) /\ next.pc \in Rotating /\ next.old = work[c].old
    BY <1>1, <1>4, WorkFields DEF Rotating
  <2> HIDE DEF next
  <2> QED
    BY <1>1, <1>2, <1>4, <2>1, StepKeep
<1>5. CASE InsertSession(c)
  <2>1. /\ work[c].pc \in Rotating /\ UNCHANGED tables
        /\ Goto(c, [work[c] EXCEPT !.pc = IF work[c].old # {} THEN "getUser" ELSE "commit"])
    BY <1>5 DEF InsertSession, Rotating
  <2> QED
    BY <1>4, <2>1 DEF Rotating
<1>6. CASE UpdateOld(c)
  BY <1>4, <1>6 DEF UpdateOld, Rotating
<1>7. CASE GetUserInTx(c)
  BY <1>1, <1>4, <1>7, StepRollback DEF GetUserInTx, Rotating
<1>8. CASE DeleteRow(c)
  <2>1. work[c].pc = "delete" /\ UNCHANGED tables
    BY <1>8 DEF DeleteRow
  <2> DEFINE next == [work[c] EXCEPT !.left = Tail(@)]
  <2>2. Goto(c, next) /\ next.pc = "delete" /\ next.rows = work[c].rows
    BY <1>1, <1>8, <2>1, WorkFields DEF DeleteRow
  <2> HIDE DEF next
  <2> QED
    BY <1>1, <1>2, <2>1, <2>2, StepKeep
<1> QED
  BY <1>3, <1>5, <1>6, <1>7, <1>8

-----------------------------------------------------------------------------
(* COMMIT *)

\* The COMMIT of a DELETE is RevokeEnd.
LEMMA StepDeleted ==
  ASSUME IInv, IInv', NEW c \in Conn, Commit(c), work[c].pc = "delete"
  PROVE  LineageStep
<1> DEFINE rows == work[c].rows
<1>1. /\ tx[c].rows = {} /\ tx[c].marked = {} /\ tx[c].deleted \subseteq rows
      /\ rows \subseteq Issued /\ work[c].left = <<>>
      /\ rows \cap Stored \subseteq tx[c].deleted
  BY DEF IInv, Written, Knows, Commit
<1>2. /\ \A s : s \in sessions' <=> s \in sessions /\ s.selector \notin tx[c].deleted
      /\ sessions \subseteq RefreshSession
  BY <1>1, CommitRows DEF IInv, TypeOK
<1>3. tokens' = tokens /\ rotated' = rotated
  BY <1>1 DEF Commit
<1>4. Owner' = Owner /\ Issued' = Issued
  BY <1>3 DEF Owner, Issued
<1>5. \A s \in sessions : s.selector \in Stored
  BY <1>2 DEF Stored, RefreshSession
<1>6. ASSUME NEW p \in Pair
      PROVE  Status'[p] = IF p \in rows THEN "revoked" ELSE Status[p]
  <2>1. CASE p \in rows
    <3>1. ~\E s \in sessions' : s.selector = p
      BY <1>1, <1>2, <1>5, <2>1
    <3> QED
      BY <1>1, <1>4, <2>1, <3>1, StatusIsNext DEF StatusFacts
  <2>2. CASE p \notin rows
    <3>1. \A s : s.selector = p => (s \in sessions' <=> s \in sessions)
      BY <1>1, <1>2, <2>2
    <3> QED
      BY <1>4, <2>2, <3>1, StatusIs, StatusIsNext DEF StatusFacts
  <2> QED
    BY <2>1, <2>2
<1>7. Status' = [p \in Pair |-> IF p \in rows THEN "revoked" ELSE Status[p]]
  BY <1>6, StatusIsNext DEF StatusFacts
<1>8. Goto(c, Idle) /\ TypeOK
  BY DEF Commit, IInv
<1>9. Granted[c] = {} /\ Scope[c] = rows
  BY DEF Granted, Scope
<1>10. Granted' = Granted /\ Scope' = [Scope EXCEPT ![c] = {}]
  BY <1>8, <1>9, HeldByOne, HeldSame DEF Rotating
<1> HIDE DEF rows
<1>11. CASE rows # {}
  <2>1. Lineage!RevokeEnd(c)
    BY <1>3, <1>4, <1>7, <1>9, <1>10, <1>11 DEF Lineage!RevokeEnd
  <2> QED
    BY <2>1 DEF LineageStep, Lineage!Next
<1>12. CASE rows = {}
  <2>1. Status' = Status
    BY <1>7, <1>12, StatusIs DEF StatusFacts
  <2>2. Scope' = Scope
    BY <1>8, <1>9, <1>10, <1>12, HeldType
  <2> QED
    BY <1>3, <1>4, <1>10, <2>1, <2>2 DEF LineageStep, Lineage!vars
<1> QED
  BY <1>11, <1>12

\* A transaction that commits a session commits one, and its pair is new.
LEMMA CommittedPair ==
  ASSUME IInv, NEW c \in Conn, Commit(c), work[c].pc = "commit"
  PROVE  \E s \in RefreshSession :
           /\ tx[c].rows = {s} /\ s.status = "active"
           /\ s.selector \in Pair \ Issued /\ s.user = work[c].user
           /\ Issued' = Issued \cup {s.selector}
           /\ Owner' = [Owner EXCEPT ![s.selector] = {s.user}]
           /\ rotated' = rotated \cup (work[c].old \X {s.selector})
<1>1. PICK s \in RefreshSession : tx[c].rows = {s} /\ s.status = "active"
  BY DEF IInv, Written
<1>2. /\ s.selector \in Pair \ Issued /\ s.user = work[c].user
      /\ Issued' = Issued \cup {s.selector}
      /\ tokens \subseteq tokens'
      /\ \A t \in tokens' : t \in tokens \/
           (t = CreateAccessTokenWithJTI(s.user, 0, s.jti)
            /\ t.jti = s.selector /\ t.user = s.user)
      /\ \E t \in tokens' : t.jti = s.selector /\ t.user = s.user
  BY <1>1, CommitTokens
<1>3. rotated' = rotated \cup (work[c].old \X {s.selector})
  BY <1>1 DEF Commit
<1>4. ASSUME NEW p \in Pair
      PROVE  Owner'[p] = IF p = s.selector THEN {s.user} ELSE Owner[p]
  <2>1. \A t \in tokens : t.jti # s.selector
    BY <1>2 DEF Issued
  <2>2. CASE p = s.selector
    <3>1. \A t \in tokens' : t.jti = p => t.user = s.user
      BY <1>2, <2>1, <2>2
    <3> QED
      BY <1>2, <2>2, <3>1 DEF Owner
  <2>3. CASE p # s.selector
    <3>1. {t \in tokens' : t.jti = p} = {t \in tokens : t.jti = p}
      BY <1>2, <2>3
    <3> QED
      BY <2>3, <3>1 DEF Owner
  <2> QED
    BY <2>2, <2>3
<1>5. Owner' = [Owner EXCEPT ![s.selector] = {s.user}]
  BY <1>4 DEF Owner
<1> QED
  BY <1>1, <1>2, <1>3, <1>5

\* The COMMIT of IssueTokensTx is Issue.
LEMMA StepIssued ==
  ASSUME IInv, IInv', NEW c \in Conn, Commit(c), work[c].pc = "commit", work[c].old = {}
  PROVE  LineageStep
<1>1. PICK s \in RefreshSession :
        /\ tx[c].rows = {s} /\ s.status = "active"
        /\ s.selector \in Pair \ Issued /\ s.user = work[c].user
        /\ Issued' = Issued \cup {s.selector}
        /\ Owner' = [Owner EXCEPT ![s.selector] = {s.user}]
        /\ rotated' = rotated \cup (work[c].old \X {s.selector})
  BY CommittedPair
<1>2. tx[c].marked = {} /\ tx[c].deleted = {}
  BY DEF IInv, Written
<1>3. \A x : x \in sessions' <=> x \in sessions \/ x = s
  BY <1>1, <1>2, CommitRows
<1>4. Status[s.selector] = "none" /\ Status' = [Status EXCEPT ![s.selector] = "active"]
  <2>1. \A p \in Pair : Status'[p] = IF p = s.selector THEN "active" ELSE Status[p]
    BY <1>1, <1>3, StatusIs, StatusIsNext DEF StatusFacts
  <2> QED
    BY <1>1, <2>1, StatusIs, StatusIsNext DEF StatusFacts
<1>5. Goto(c, Idle) /\ TypeOK /\ Granted[c] = {} /\ Scope[c] = {}
  BY DEF Commit, IInv, Granted, Scope
<1>6. Granted' = Granted /\ Scope' = Scope
  BY <1>5, HeldSame DEF Rotating
<1>7. s.user \in UserID
  BY DEF RefreshSession
<1>8. rotated' = rotated
  BY <1>1
<1>9. Lineage!Issue(s.user, s.selector)
  BY <1>1, <1>4, <1>6, <1>8 DEF Lineage!Issue
<1> QED
  BY <1>1, <1>7, <1>9 DEF LineageStep, Lineage!Next

\* The COMMIT of RotateTokensTx is Exchange.
LEMMA StepRotated ==
  ASSUME IInv, IInv', NEW c \in Conn, Commit(c), work[c].pc = "commit",
         NEW old, work[c].old = {old}
  PROVE  LineageStep
<1>1. PICK s \in RefreshSession :
        /\ tx[c].rows = {s} /\ s.status = "active"
        /\ s.selector \in Pair \ Issued /\ s.user = work[c].user
        /\ Issued' = Issued \cup {s.selector}
        /\ Owner' = [Owner EXCEPT ![s.selector] = {s.user}]
        /\ rotated' = rotated \cup (work[c].old \X {s.selector})
  BY CommittedPair
<1> DEFINE new == s.selector
<1>2. old \in Pair /\ old \in Issued /\ Owner[old] = {s.user}
  <2>1. PICK t \in tokens : t.jti = old /\ t.user = work[c].user
    BY DEF IInv, Knows
  <2> QED
    BY <1>1, <2>1, OwnerIs DEF Issued
<1>3. /\ tx[c].deleted = {} /\ tx[c].marked \subseteq {old}
      /\ old \in Stored => old \in tx[c].marked
  BY DEF IInv, Written, Knows
<1>4. rotated' = rotated \cup {<<old, new>>} /\ old # new
  BY <1>1, <1>2
<1>5. /\ \A x \in sessions : x.status \in {"active", "used"} /\ x.selector \in Pair
      /\ \A x1, x2 \in sessions : x1.selector = x2.selector => x1 = x2
  BY DEF IInv, TypeOK, RefreshSession, RowsBound
<1>6. ASSUME NEW p \in Pair
      PROVE  Status'[p] = IF p = new THEN "active"
                          ELSE IF p = old /\ Status[p] = "active" THEN "used"
                          ELSE Status[p]
  <2>1. CASE p = new
    <3>1. s \in sessions'
      BY <1>1, CommitRows
    <3> QED
      BY <1>1, <2>1, <3>1, StatusIsNext DEF StatusFacts
  <2>2. CASE p = old /\ p \in Stored
    <3>1. \E x \in sessions' : x.selector = p /\ x.status = "used"
      <4>1. PICK x0 \in sessions : x0.selector = p
        BY <2>2 DEF Stored
      <4> QED
        BY <1>3, <2>2, <4>1, CommitRows
    <3>2. Status'[p] = "used"
      BY <3>1, StatusIsNext DEF StatusFacts
    <3>3. Status[p] \in {"active", "used"}
      BY <1>5, <2>2, StatusIs DEF StatusFacts, Stored
    <3> QED
      BY <1>4, <2>2, <3>2, <3>3
  <2>3. CASE p = old /\ p \notin Stored
    <3>1. ~\E x \in sessions' : x.selector = p
      BY <1>1, <1>4, <2>3, CommitRows DEF Stored
    <3>2. ~\E x \in sessions : x.selector = p
      BY <2>3 DEF Stored
    <3> QED
      BY <1>1, <1>2, <1>4, <2>3, <3>1, <3>2, StatusIs, StatusIsNext DEF StatusFacts
  <2>4. CASE p # new /\ p # old
    <3>1. \A x : x.selector = p => (x \in sessions' <=> x \in sessions)
      BY <1>1, <1>3, <2>4, CommitRows
    <3> QED
      BY <1>1, <2>4, <3>1, StatusIs, StatusIsNext DEF StatusFacts
  <2> QED
    BY <2>1, <2>2, <2>3, <2>4
<1>7. /\ Status[new] = "none"
      /\ Status' = [Status EXCEPT ![new] = "active",
                                  ![old] = IF @ = "active" THEN "used" ELSE @]
  BY <1>1, <1>2, <1>4, <1>6, StatusIs, StatusIsNext DEF StatusFacts
<1>8. Goto(c, Idle) /\ TypeOK /\ Granted[c] = {old} /\ Scope[c] = {}
  BY DEF Commit, IInv, Granted, Scope
<1>9. Granted' = [Granted EXCEPT ![c] = {}] /\ Scope' = Scope
  BY <1>8, HeldByOne, HeldType DEF Rotating
<1>10. Owner' = [Owner EXCEPT ![new] = Owner[old]] /\ new \in Pair
  BY <1>1, <1>2
<1> HIDE DEF new
<1>11. Lineage!Exchange(c, old, new)
  BY <1>4, <1>7, <1>8, <1>9, <1>10 DEF Lineage!Exchange
<1> QED
  BY <1>2, <1>10, <1>11 DEF LineageStep, Lineage!Next

-----------------------------------------------------------------------------
(* The theorem *)

LEMMA LineageInit == Init => Lineage!Init
<1> SUFFICES ASSUME Init  PROVE Lineage!Init
  OBVIOUS
<1>1. sessions = {} /\ tokens = {} /\ rotated = {} /\ \A c \in Conn : work[c] = Idle
  BY DEF Init
<1>2. Status = [p \in Pair |-> "none"] /\ Owner = [p \in Pair |-> {}]
  BY <1>1 DEF Status, Owner, Issued, GetActiveSessionBySelector, FindSessionBySelector
<1>3. Granted = [c \in Conn |-> {}] /\ Scope = [c \in Conn |-> {}]
  BY <1>1 DEF Granted, Scope
<1> QED
  BY <1>1, <1>2, <1>3 DEF Lineage!Init

LEMMA LineageNext == IInv /\ IInv' /\ [Next]_vars => [Lineage!Next]_(Lineage!vars)
<1> SUFFICES ASSUME IInv, IInv', [Next]_vars  PROVE LineageStep
  BY DEF LineageStep
<1>1. TypeOK
  BY DEF IInv
<1>2. ASSUME NEW c \in Conn, Commit(c)  PROVE LineageStep
  <2>1. CASE work[c].pc = "delete"
    BY <1>2, <2>1, StepDeleted
  <2>2. CASE work[c].pc = "commit"
    <3>1. \E old : work[c].old \subseteq {old}
      BY <2>2 DEF IInv, Knows
    <3>2. work[c].old = {} \/ \E old : work[c].old = {old}
      BY <3>1
    <3> QED
      BY <1>2, <2>2, <3>2, StepIssued, StepRotated
  <2> QED
    BY <1>2, <2>1, <2>2 DEF Commit
<1>3. ASSUME NEW c \in Conn, Begin(c) \/ Statement(c)  PROVE LineageStep
  BY <1>2, <1>3, StepBegin, StepStatement DEF Statement
<1>4. ASSUME NEW c \in Conn, Rollback(c)  PROVE LineageStep
  BY <1>1, <1>4, StepRollback
<1>5. CASE UNCHANGED vars
  <2>1. UNCHANGED tables /\ work' = work
    BY <1>5 DEF vars, tables
  <2> QED
    BY <2>1, TablesKept DEF LineageStep, Lineage!vars, Granted, Scope
<1> QED
  BY <1>3, <1>4, <1>5 DEF Next, Abort, Deadlock

\* The transactions are atomic for the sessions, whatever statements interleave,
\* wait, deadlock or fail: AuthService may take IssueTokensTx and RotateTokensTx for
\* single steps, and a DELETE for its snapshot and its COMMIT.
THEOREM TransactionsRefine == Spec => ImplementsLineage
  BY LineageInit, LineageNext, Invariant, PTL
     DEF Spec, ImplementsLineage, Lineage!Spec
=============================================================================
