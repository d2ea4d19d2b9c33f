---------------------------- MODULE SessionStore ----------------------------
(***************************************************************************)
(* The PostgreSQL side of the service: the tables users and sessions       *)
(* (migrations/00001_initial_schema.sql) and the statements the            *)
(* repositories run on them (storage/postgres/user.go, session.go).  Every *)
(* operator takes the table it reads or writes and returns rows or the     *)
(* table after the statement; AuthService says when they run.              *)
(***************************************************************************)
EXTENDS Naturals

CONSTANTS
  Guid,       \* public identifiers of users
  UserID,     \* values of the BIGSERIAL users.id
  Pair,       \* one member for each (selector, verifier, JTI) ever drawn
  UserAgent,  \* values of the User-Agent header
  IPAddress   \* client addresses

\* crypto/sha256 and hex: injective, and different from what it hashes.
Hash(v) == [sha256 |-> v]

User == [id : UserID, guid : Guid]

UserMetadata == [ua : UserAgent, ip : IPAddress]

\* A row of sessions.  The columns id and created_at are never read.
RefreshSession ==
  [selector : Pair, verifierHash : {Hash(p) : p \in Pair}, jti : Pair,
   user : UserID, meta : UserMetadata, expires : Nat,
   status : {"active", "used"}]

-----------------------------------------------------------------------------
(* UserRepository *)

GetUserByGUID(users, guid) == {u \in users : u.guid = guid}

GetUserByID(users, id) == {u \in users : u.id = id}

\* INSERT INTO users: the sequence gives an id no row has.
CreateUser(users, id, guid) == users \cup {[id |-> id, guid |-> guid]}

-----------------------------------------------------------------------------
(* SessionRepository *)

\* INSERT INTO sessions.  The foreign key on user_id refuses nothing: the row's user
\* is in the table by then (see SessionBinding), and no statement deletes a user.
CreateSession(sessions, row) == sessions \cup {row}

\* Mutant: the status is not part of the WHERE clause.
GetActiveSessionAnyStatus(sessions, selector) ==
  {s \in sessions : s.selector = selector}

\* Mutant: the WHERE clause names a status no row has.
GetActiveSessionWrongStatus(sessions, selector) ==
  {s \in sessions : s.selector = selector /\ s.status = "valid"}

\* status = 'active' is the only condition besides the selector: expires_at is
\* selected and never compared.
GetActiveSessionBySelector(sessions, selector) ==
  {s \in sessions : s.selector = selector /\ s.status = "active"}

FindSessionBySelector(sessions, selector) ==
  {s \in sessions : s.selector = selector}

\* Mutant: the UPDATE is lost.
MarkNothing(sessions, selector) == sessions

\* UPDATE without a condition on the status; the number of rows it changed is
\* not looked at, so a row already used or deleted is no error.
MarkSessionAsUsed(sessions, selector) ==
  {IF s.selector = selector THEN [s EXCEPT !.status = "used"] ELSE s :
     s \in sessions}

\* Mutant: the active rows are spared.
UsedSessions(sessions, user) ==
  {s.selector : s \in {x \in sessions : x.user = user /\ x.status = "used"}}

\* What DELETE ... WHERE user_id = user has in its snapshot.  Under READ
\* COMMITTED it deletes these rows, updated meanwhile or not, and no row that is
\* committed after the snapshot was taken.
UserSessions(sessions, user) ==
  {s.selector : s \in {x \in sessions : x.user = user}}

\* The end of that DELETE.
DeleteAllUserSessions(sessions, selectors) ==
  {s \in sessions : s.selector \notin selectors}
=============================================================================
