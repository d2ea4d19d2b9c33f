----------------------------- MODULE PostgresTx -----------------------------
(***************************************************************************)
(* The transactions of storage/postgres/storage.go, one statement at a     *)
(* time, as PostgreSQL runs them under READ COMMITTED: a statement sees    *)
(* what is committed and what its own transaction wrote; a statement that  *)
(* changes a row waits for the transaction that changed it before; an      *)
(* INSERT waits for another one of the same unique key; a cycle of waiting *)
(* transactions is broken by a victim.  AuthService commits in one step    *)
(* what takes several here; both implement SessionLineage.                 *)
(***************************************************************************)
EXTENDS TokenService, SequencesExt

CONSTANT Conn  \* connections of the pool that have a transaction to run

VARIABLES
  users,     \* committed rows of users
  sessions,  \* committed rows of sessions
  tokens,    \* access tokens of the pairs whose session was committed
  rotated,   \* history: <<old, new>> of every committed rotation
  tx,        \* what each open transaction has written
  work       \* which statement each connection runs next, and on what

vars == <<users, sessions, tokens, rotated, tx, work>>

\* Written and not committed: users and rows inserted, selectors of rows
\* marked used and of rows deleted.
Tx == [users : SUBSET User, rows : SUBSET RefreshSession,
       marked : SUBSET Pair, deleted : SUBSET Pair]

NoTx == [users |-> {}, rows |-> {}, marked |-> {}, deleted |-> {}]

Idle == [pc |-> "idle"]

\* old is the pair a rotation replaces, or empty.
Work ==
  {Idle}
  \cup [pc : {"createUser"}, guid : Guid, meta : UserMetadata]
  \cup [pc : {"update", "insert", "getUser", "commit"}, user : UserID,
         meta : UserMetadata, old : SUBSET Pair]
  \cup [pc : {"delete"}, left : Seq(Pair), rows : SUBSET Pair]

TypeOK ==
  /\ users \subseteq User
  /\ sessions \subseteq RefreshSession
  /\ tokens \subseteq AccessToken
  /\ rotated \subseteq Pair \X Pair
  /\ tx \in [Conn -> Tx]
  /\ work \in [Conn -> Work]

Init ==
  /\ users = {} /\ sessions = {} /\ tokens = {} /\ rotated = {}
  /\ tx = [c \in Conn |-> NoTx]
  /\ work = [c \in Conn |-> Idle]

-----------------------------------------------------------------------------
tables == <<users, sessions, tokens, rotated>>

Goto(c, next) == work' = [work EXCEPT ![c] = next]

Write(c, written) == tx' = [tx EXCEPT ![c] = written]

Issued == {t.jti : t \in tokens}

\* Pairs nobody has drawn: rand.Read and uuid.NewString never repeat a value.
Fresh == Pair \ (Issued \cup UNION {{s.selector : s \in tx[c].rows} : c \in Conn})

\* Bound: a transaction begins only while a fresh pair is left for it.
PairLeft ==
  Cardinality(Fresh) >
  Cardinality({c \in Conn : work[c].pc \in {"createUser", "update", "insert"}})

\* Mutant: the deferred Rollback is missing, the transaction stays open.
RollbackMissing(c) ==
  /\ Goto(c, Idle)
  /\ UNCHANGED <<tables, tx>>

\* The deferred Rollback: nothing was written, and no lock is held any more.
Rollback(c) ==
  /\ Goto(c, Idle)
  /\ Write(c, NoTx)
  /\ UNCHANGED tables

-----------------------------------------------------------------------------
(* What a statement waits for *)

\* A row is locked by the transaction that updated or deleted it.
Locks(d, p) == p \in tx[d].marked \cup tx[d].deleted

\* The row that the statement of c changes next.
Target(c) ==
  CASE work[c].pc = "update" -> work[c].old
    [] work[c].pc = "delete" /\ work[c].left # <<>> -> {Head(work[c].left)}
    [] OTHER -> {}

WaitsFor(c, d) ==
  /\ c # d
  /\ \/ \E p \in Target(c) : Locks(d, p)
     \/ work[c].pc = "createUser" /\ \E u \in tx[d].users : u.guid = work[c].guid

Waits(c) == \E d \in Conn : WaitsFor(c, d)

\* Each one waits for one of them and is waited for by one of them.
Cycle(C) ==
  /\ C # {}
  /\ \A c \in C : (\E d \in C : WaitsFor(c, d)) /\ (\E d \in C : WaitsFor(d, c))

-----------------------------------------------------------------------------
(* IssueTokensTx *)

\* BEGIN and the SELECT of the user.
BeginIssue(c) ==
  /\ work[c] = Idle
  /\ PairLeft
  /\ \E guid \in Guid, meta \in UserMetadata :
       LET found == GetUserByGUID(users, guid) IN
       \/ \E u \in found :
            Goto(c, [pc |-> "insert", user |-> u.id, meta |-> meta, old |-> {}])
       \/ found = {} /\ Goto(c, [pc |-> "createUser", guid |-> guid, meta |-> meta])
  /\ UNCHANGED <<tables, tx>>

\* Values of the sequence of users.id that no row has.
FreshID == UserID \ {u.id : u \in users \cup UNION {tx[c].users : c \in Conn}}

InsertUser(c) ==
  \E id \in FreshID :
    /\ Write(c, [tx[c] EXCEPT !.users = CreateUser(@, id, work[c].guid)])
    /\ Goto(c, [pc |-> "insert", user |-> id, meta |-> work[c].meta, old |-> {}])
    /\ UNCHANGED tables

\* Mutant: guid is not UNIQUE.
CreateUserNotUnique(c) == work[c].pc = "createUser" /\ InsertUser(c)

\* The INSERT of the user.  It waits for another INSERT of that guid, and fails
\* if that one has committed.
CreateUserInTx(c) ==
  /\ work[c].pc = "createUser"
  /\ ~Waits(c)
  /\ \/ GetUserByGUID(users, work[c].guid) = {} /\ InsertUser(c)
     \/ GetUserByGUID(users, work[c].guid) # {} /\ Rollback(c)

\* The INSERT of the session, of either transaction.
InsertSession(c) ==
  /\ work[c].pc = "insert"
  /\ \E p \in Fresh :
       Write(c, [tx[c] EXCEPT !.rows = CreateSession(@,
                   NewSession(p, p, work[c].user, work[c].meta, 0))])
  /\ Goto(c, [work[c] EXCEPT !.pc = IF work[c].old # {}
                                    THEN "getUser" ELSE "commit"])
  /\ UNCHANGED tables

-----------------------------------------------------------------------------
(* RotateTokensTx, after the lookup that RefreshTokens makes outside of it *)

LookupActive(c) ==
  /\ work[c] = Idle
  /\ PairLeft
  /\ \E p \in Pair : \E s \in GetActiveSessionBySelector(sessions, p) :
       Goto(c, [pc |-> "update", user |-> s.user, meta |-> s.meta, old |-> {p}])
  /\ UNCHANGED <<tables, tx>>

\* Mutant: the repository is made on the pool instead of the transaction.
UpdateOldOnPool(c) ==
  /\ work[c].pc = "update"
  /\ ~Waits(c)
  /\ \E p \in work[c].old : sessions' = MarkSessionAsUsed(sessions, p)
  /\ Goto(c, [work[c] EXCEPT !.pc = "insert"])
  /\ UNCHANGED <<users, tokens, rotated, tx>>

\* BEGIN and the UPDATE, of no row if the row was deleted meanwhile.
UpdateOld(c) ==
  /\ work[c].pc = "update"
  /\ ~Waits(c)
  /\ Write(c, [tx[c] EXCEPT !.marked =
                 {p \in work[c].old : FindSessionBySelector(sessions, p) # {}}])
  /\ Goto(c, [work[c] EXCEPT !.pc = "insert"])
  /\ UNCHANGED tables

GetUserInTx(c) ==
  /\ work[c].pc = "getUser"
  /\ \/ /\ GetUserByID(users, work[c].user) # {}
        /\ Goto(c, [work[c] EXCEPT !.pc = "commit"])
        /\ UNCHANGED <<tables, tx>>
     \/ GetUserByID(users, work[c].user) = {} /\ Rollback(c)

-----------------------------------------------------------------------------
(* DeleteAllUserSessions, a transaction of its own *)

\* The snapshot, and the order in which the scan meets its rows: an UPDATE moves
\* a row, so two scans may differ.
BeginDelete(c) ==
  /\ work[c] = Idle
  /\ \E u \in users :
       LET rows == UserSessions(sessions, u.id) IN
       \E order \in SetToSeqs(rows) :
         Goto(c, [pc |-> "delete", left |-> order, rows |-> rows])
  /\ UNCHANGED <<tables, tx>>

\* The next row is locked, or skipped if it was deleted meanwhile.
DeleteRow(c) ==
  /\ work[c].pc = "delete" /\ work[c].left # <<>>
  /\ ~Waits(c)
  /\ Write(c, [tx[c] EXCEPT !.deleted = @ \cup
                 {p \in Target(c) : FindSessionBySelector(sessions, p) # {}}])
  /\ Goto(c, [work[c] EXCEPT !.left = Tail(@)])
  /\ UNCHANGED tables

-----------------------------------------------------------------------------
\* COMMIT, of any of the three.
Commit(c) ==
  LET w == work[c]
      t == tx[c] IN
  /\ w.pc = "commit" \/ (w.pc = "delete" /\ w.left = <<>>)
  /\ users' = users \cup t.users
  /\ sessions' =
       DeleteAllUserSessions(sessions, t.deleted \cup t.marked) \cup t.rows
       \cup UNION {MarkSessionAsUsed(FindSessionBySelector(sessions, p), p) : p \in t.marked}
  /\ tokens' = tokens \cup {CreateAccessTokenWithJTI(s.user, 0, s.jti) : s \in t.rows}
  /\ rotated' = rotated \cup
       (IF w.pc = "commit" THEN w.old \X {s.selector : s \in t.rows} ELSE {})
  /\ Write(c, NoTx)
  /\ Goto(c, Idle)

\* The context is cancelled, the connection or PostgreSQL is lost.
Abort(c) == work[c] # Idle /\ Rollback(c)

\* After deadlock_timeout a member of the cycle gets an error.
Deadlock == \E C \in SUBSET Conn : Cycle(C) /\ \E c \in C : Rollback(c)

Begin(c) == BeginIssue(c) \/ LookupActive(c) \/ BeginDelete(c)

\* The statements of a transaction that has begun.
Statement(c) ==
  \/ CreateUserInTx(c)
  \/ InsertSession(c)
  \/ UpdateOld(c)
  \/ GetUserInTx(c)
  \/ DeleteRow(c)
  \/ Commit(c)

Next == (\E c \in Conn : Begin(c) \/ Statement(c) \/ Abort(c)) \/ Deadlock

Spec == Init /\ [][Next]_vars

\* A statement that is not waiting is run, and PostgreSQL queues the waiting ones
\* of a lock in their order, so a lock that is freed again and again is got in the
\* end.  The detector runs.  Nothing is asked of the clients.
FairSpec ==
  /\ Spec
  /\ \A c \in Conn : SF_vars(Statement(c))
  /\ WF_vars(Deadlock)

-----------------------------------------------------------------------------
\* The abstract specification of refresh sessions, as AuthService maps to it.
Status ==
  [p \in Pair |->
     IF GetActiveSessionBySelector(sessions, p) # {} THEN "active"
     ELSE IF FindSessionBySelector(sessions, p) # {} THEN "used"
     ELSE IF p \in Issued THEN "revoked"
     ELSE "none"]

Owner == [p \in Pair |-> {t.user : t \in {x \in tokens : x.jti = p}}]

Granted ==
  [c \in Conn |->
     IF work[c].pc \in {"update", "insert", "getUser", "commit"} THEN work[c].old ELSE {}]

Scope == [c \in Conn |-> IF work[c].pc = "delete" THEN work[c].rows ELSE {}]

Lineage == INSTANCE SessionLineage
  WITH Owners <- UserID, Client <- Conn,
       status <- Status, owner <- Owner, grant <- Granted, scope <- Scope

\* The transactions are atomic for the sessions: whatever statements interleave,
\* wait or fail, a pair is marked used together with the commit of the one that
\* replaces it, and a DELETE takes every row of its snapshot or none.
ImplementsLineage == Lineage!Spec

\* Two transactions that look up the same new guid make one user, the other one
\* fails: a guid has one row, of all that is committed.
OneUserPerGuid == \A u1, u2 \in users : u1.guid = u2.guid \/ u1.id = u2.id => u1 = u2

\* Only DELETEs of a user's sessions ever wait for each other in a circle: Logout and
\* a revocation may be the victim of the detector, an issue or a rotation never is.
\* (Before the statement that makes it wait it has written nothing, and no later
\* one waits.)
OnlyDeletesDeadlock ==
  \A C \in SUBSET Conn : Cycle(C) => \A c \in C : work[c].pc = "delete"

\* Every transaction ends, whoever holds the row it waits for: those that wait for
\* each other are told apart by the detector, and no other waits for good.
TxEnds == \A c \in Conn : work[c] # Idle ~> work[c] = Idle
=============================================================================
