--------------------------- MODULE SessionLineage ---------------------------
(***************************************************************************)
(* What the service promises about refresh sessions, without tables,       *)
(* transactions or HTTP: who owns a pair, what has become of it and which  *)
(* pair it was exchanged for.  A client of this specification is anything  *)
(* that exchanges or revokes.  An exchange and a revocation take two       *)
(* steps, because the program decides first and commits later: an exchange *)
(* is allowed while the pair is active, and a revocation takes the pairs   *)
(* its user has when it begins.                                            *)
(***************************************************************************)
CONSTANTS
  Owners,  \* users
  Pair,    \* token pairs
  Client   \* requests or connections

VARIABLES
  status,   \* what has become of each pair
  owner,    \* the user of each pair that was issued, as a set
  rotated,  \* <<old, new>> of every exchange
  grant,    \* the pair a client may exchange, as a set
  scope     \* the pairs a client is about to revoke

vars == <<status, owner, rotated, grant, scope>>

Live == {p \in Pair : status[p] \in {"active", "used"}}

\* Clients with something they decided and have not done.
Busy == {c \in Client : grant[c] # {} \/ scope[c] # {}}

Init ==
  /\ status = [p \in Pair |-> "none"]
  /\ owner = [p \in Pair |-> {}]
  /\ rotated = {}
  /\ grant = [c \in Client |-> {}]
  /\ scope = [c \in Client |-> {}]

\* A user gets a pair that was never issued before.
Issue(u, p) ==
  /\ status[p] = "none"
  /\ status' = [status EXCEPT ![p] = "active"]
  /\ owner' = [owner EXCEPT ![p] = {u}]
  /\ UNCHANGED <<rotated, grant, scope>>

\* Only an active pair can be exchanged, ...
Grant(c, p) ==
  /\ status[p] = "active"
  /\ c \notin Busy
  /\ grant' = [grant EXCEPT ![c] = {p}]
  /\ UNCHANGED <<status, owner, rotated, scope>>

\* ... for a new pair of the same user.  By then the old pair may have been
\* exchanged by another client, or revoked: it stays what it is.
Exchange(c, p, q) ==
  /\ p \in grant[c]
  /\ status[q] = "none"
  /\ status' = [status EXCEPT ![q] = "active",
                              ![p] = IF @ = "active" THEN "used" ELSE @]
  /\ owner' = [owner EXCEPT ![q] = owner[p]]
  /\ rotated' = rotated \cup {<<p, q>>}
  /\ grant' = [grant EXCEPT ![c] = {}]
  /\ UNCHANGED scope

\* A revocation takes every live pair of a user, and nobody else's.
RevokeBegin(c, u) ==
  /\ c \notin Busy
  /\ scope' = [scope EXCEPT ![c] = {p \in Live : owner[p] = {u}}]
  /\ UNCHANGED <<status, owner, rotated, grant>>

\* A pair that is revoked stays so.
RevokeEnd(c) ==
  /\ scope[c] # {}
  /\ status' = [p \in Pair |-> IF p \in scope[c] THEN "revoked" ELSE status[p]]
  /\ scope' = [scope EXCEPT ![c] = {}]
  /\ UNCHANGED <<owner, rotated, grant>>

\* Clients give up, or die: nothing of what they were about to do happens.
GiveUp(C) ==
  /\ grant' = [c \in Client |-> IF c \in C THEN {} ELSE grant[c]]
  /\ scope' = [c \in Client |-> IF c \in C THEN {} ELSE scope[c]]
  /\ UNCHANGED <<status, owner, rotated>>

Next ==
  \/ \E C \in SUBSET Busy : GiveUp(C)
  \/ \E u \in Owners, p \in Pair : Issue(u, p)
  \/ \E c \in Client :
       \/ \E p \in Pair : Grant(c, p)
       \/ \E p, q \in Pair : Exchange(c, p, q)
       \/ \E u \in Owners : RevokeBegin(c, u)
       \/ RevokeEnd(c)

Spec == Init /\ [][Next]_vars
=============================================================================
