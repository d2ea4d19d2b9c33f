---------------------------- MODULE TokenService ----------------------------
(***************************************************************************)
(* TokenService (service/token.go) and the denylist it keeps in Redis      *)
(* (storage/redis/token.go), as operators over the clock and the denylist. *)
(* Time is counted in ticks; a duration is a number of ticks.              *)
(***************************************************************************)
EXTENDS Integers, SessionStore

CONSTANTS
  AccessTTL,   \* lifetime of an access token
  RefreshTTL,  \* lifetime of a refresh session
  JWTLeeWay    \* how long after exp the parser still accepts a token

ASSUME TTLAssumption ==
  AccessTTL \in Nat /\ RefreshTTL \in Nat /\ JWTLeeWay \in Nat

\* A signed access token: the claims jti, uid (= sub) and exp.
AccessToken == [jti : Pair, user : UserID, exp : Nat]

\* A key of the denylist: until when Redis keeps it, or without expiry.
DenylistEntry == [jti : Pair, persistent : BOOLEAN, until : Nat]

CreateAccessTokenWithJTI(user, now, jti) ==
  [jti |-> jti, user |-> user, exp |-> now + AccessTTL]

\* A refresh token "selector.verifier"; both parts come from one random draw.
CreateRefreshToken(pair) == [selector |-> pair, verifier |-> pair]

ValidateRefreshToken(token, verifierHash) == Hash(token.verifier) = verifierHash

\* Mutant: the row gets a status the table does not know.
NewSessionNamedNew(p, jti, user, meta, at) ==
  [selector |-> p, verifierHash |-> Hash(p), jti |-> jti, user |-> user,
   meta |-> meta, expires |-> at + RefreshTTL, status |-> "new"]

\* The session row of a new pair; status has the default of its column.
NewSession(p, jti, user, meta, at) ==
  LET token == CreateRefreshToken(p)
  IN  [selector |-> token.selector, verifierHash |-> Hash(token.verifier),
       jti |-> jti, user |-> user, meta |-> meta,
       expires |-> at + RefreshTTL, status |-> "active"]

-----------------------------------------------------------------------------
(* The denylist *)

\* What Redis still holds once the clock shows time: it drops a key when the
\* clock is past its expiry.
Unexpired(denylist, time) ==
  {e \in denylist : e.persistent \/ time <= e.until}

\* Mutant: the key lives a tick less than the token.
InvalidateTokenShort(denylist, jti, expiration, now) ==
  {e \in denylist : e.jti # jti} \cup
  {[jti |-> jti, persistent |-> expiration <= 0,
    until |-> IF expiration > 0 THEN now + expiration - 1 ELSE 0]}

\* Mutant: the expiration is left out.
InvalidateTokenForever(denylist, jti, expiration, now) ==
  {e \in denylist : e.jti # jti} \cup {[jti |-> jti, persistent |-> TRUE, until |-> 0]}

\* SET token "invalidated" with the given expiration.  The Redis client sends
\* EX/PX only for a positive duration: otherwise the key never expires.
InvalidateToken(denylist, jti, expiration, now) ==
  {e \in denylist : e.jti # jti} \cup
  {[jti |-> jti, persistent |-> expiration <= 0,
    until |-> IF expiration > 0 THEN now + expiration ELSE 0]}

IsTokenInvalidated(denylist, jti) == \E e \in denylist : e.jti = jti

\* The key is kept until the token's exp: time.Until(exp), negative after exp.
InvalidateAccessToken(denylist, token, now) ==
  InvalidateToken(denylist, token.jti, token.exp - now, now)

\* jwt.WithLeeway: a token is still valid JWTLeeWay after its exp.
NotExpired(token, now) == now < token.exp + JWTLeeWay

\* Denylist first, then signature and exp.  The signature is that of a token
\* the service signed; a forged one is refused like an expired one.
ValidateAccessToken(denylist, token, now) ==
  /\ ~IsTokenInvalidated(denylist, token.jti)
  /\ NotExpired(token, now)
=============================================================================
