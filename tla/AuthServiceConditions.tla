------------------------- MODULE AuthServiceConditions -------------------------
(***************************************************************************)
(* What holds of AuthService under a condition: how often a refresh token  *)
(* is exchanged when requests overlap, what the documentation may say of   *)
(* requests that do not, and what Logout keeps to as long as no store      *)
(* fails and the process does not crash.                                   *)
(***************************************************************************)
EXTENDS AuthServiceRefinement, FiniteSetTheorems

-----------------------------------------------------------------------------
(* Overlapping requests.  The argument is about SessionLineage: RotateTokensTx *)
(* and the lookup before it are its steps Exchange and Grant. *)

\* Requests that have seen the row of p active and have not rotated it yet.
Holders(p) == {r \in Request : p \in Granted[r]}

\* Exchanges made and exchanges still allowed: a request that has seen the row
\* active may exchange it once, and once it is exchanged no other sees it active.
OverlapInv ==
  \A p \in Pair :
    /\ IsFiniteSet(Successors(p))
    /\ Cardinality(Successors(p)) + Cardinality(Holders(p)) <= Cardinality(Request)

LEMMA HoldersFinite ==
  ASSUME IsFiniteSet(Request), NEW S \in SUBSET Request
  PROVE  /\ IsFiniteSet(S) /\ Cardinality(S) \in Nat
         /\ Cardinality(S) <= Cardinality(Request)
  BY FS_Subset, FS_CardinalityType

LEMMA OverlapInit == IsFiniteSet(Request) /\ Init => OverlapInv
<1> SUFFICES ASSUME IsFiniteSet(Request), Init, NEW p \in Pair
             PROVE  /\ IsFiniteSet(Successors(p))
                    /\ Cardinality(Successors(p)) + Cardinality(Holders(p))
                         <= Cardinality(Request)
  BY DEF OverlapInv
<1>1. Successors(p) = {}
  BY DEF Init, Successors
<1>2. Holders(p) \in SUBSET Request
  BY DEF Holders
<1> QED
  BY <1>1, <1>2, HoldersFinite, FS_EmptySet

\* A step that exchanges nothing and shows p active to nobody.
LEMMA OverlapKept ==
  ASSUME IsFiniteSet(Request), OverlapInv, NEW p \in Pair,
         NEW S, S = Successors(p), NEW H \in SUBSET Holders(p)
  PROVE  /\ IsFiniteSet(S)
         /\ Cardinality(S) + Cardinality(H) <= Cardinality(Request)
<1>1. IsFiniteSet(S) /\ Cardinality(S) \in Nat /\ Cardinality(Request) \in Nat
  BY FS_CardinalityType DEF OverlapInv
<1>2. IsFiniteSet(Holders(p)) /\ Cardinality(Holders(p)) \in Nat
  BY HoldersFinite DEF Holders
<1>3. Cardinality(H) <= Cardinality(Holders(p)) /\ Cardinality(H) \in Nat
  BY <1>2, FS_Subset, FS_CardinalityType
<1>4. Cardinality(S) + Cardinality(Holders(p)) <= Cardinality(Request)
  BY DEF OverlapInv
<1> QED
  BY <1>1, <1>2, <1>3, <1>4

\* A pair that is active has not been exchanged.
LEMMA ActiveHasNone ==
  ASSUME IInv, NEW p \in Pair, Status[p] = "active"
  PROVE  Successors(p) = {}
<1>1. PICK s \in sessions : s.selector = p /\ s.status = "active"
  BY StatusIs DEF StatusFacts
<1> QED
  BY <1>1 DEF IInv, Stored, StatusMatchesHistory

LEMMA OverlapNext ==
  ASSUME IsFiniteSet(Request), IInv, OverlapInv, LineageStep
  PROVE  OverlapInv'
<1> SUFFICES ASSUME NEW p \in Pair
             PROVE  /\ IsFiniteSet(Successors(p)')
                    /\ Cardinality(Successors(p)') + Cardinality(Holders(p)')
                         <= Cardinality(Request)
  BY DEF OverlapInv
<1> DEFINE S == Successors(p)'
           H == Holders(p)'
<1>0. Granted \in [Request -> SUBSET Pair]
  BY HeldType DEF IInv
\* Nothing is exchanged, and nobody is granted p.
<1>1. ASSUME rotated' = rotated, \A r \in Request : Granted'[r] \subseteq Granted[r]
      PROVE  IsFiniteSet(S) /\ Cardinality(S) + Cardinality(H) <= Cardinality(Request)
  <2>1. S = Successors(p) /\ H \in SUBSET Holders(p)
    BY <1>1 DEF Successors, Holders
  <2> HIDE DEF S, H
  <2> QED
    BY <2>1, OverlapKept
<1>2. ASSUME NEW C \in SUBSET Lineage!Busy, Lineage!GiveUp(C)
      PROVE  IsFiniteSet(S) /\ Cardinality(S) + Cardinality(H) <= Cardinality(Request)
  BY <1>1, <1>2 DEF Lineage!GiveUp
<1>3. ASSUME \/ \E u \in UserID, q \in Pair : Lineage!Issue(u, q)
             \/ \E r \in Request, u \in UserID : Lineage!RevokeBegin(r, u)
             \/ \E r \in Request : Lineage!RevokeEnd(r)
             \/ UNCHANGED Lineage!vars
      PROVE  IsFiniteSet(S) /\ Cardinality(S) + Cardinality(H) <= Cardinality(Request)
  <2>1. rotated' = rotated /\ Granted' = Granted
    BY <1>3 DEF Lineage!Issue, Lineage!RevokeBegin, Lineage!RevokeEnd, Lineage!vars
  <2> QED
    BY <1>1, <2>1
<1>4. ASSUME NEW r \in Request, NEW q \in Pair, Lineage!Grant(r, q)
      PROVE  IsFiniteSet(S) /\ Cardinality(S) + Cardinality(H) <= Cardinality(Request)
  <2>1. /\ rotated' = rotated /\ Status[q] = "active"
        /\ Granted' = [Granted EXCEPT ![r] = {q}]
    BY <1>4 DEF Lineage!Grant
  <2>2. S = Successors(p)
    BY <2>1 DEF Successors
  <2>3. H \in SUBSET Request
    BY DEF Holders
  <2>4. CASE p = q
    <3>1. S = {}
      BY <2>1, <2>2, <2>4, ActiveHasNone
    <3> HIDE DEF S, H
    <3> QED
      BY <2>3, <3>1, HoldersFinite, FS_EmptySet
  <2>5. CASE p # q
    <3>1. H \in SUBSET Holders(p)
      BY <1>0, <2>1, <2>5 DEF Holders
    <3> HIDE DEF S, H
    <3> QED
      BY <2>2, <3>1, OverlapKept
  <2> QED
    BY <2>4, <2>5
<1>5. ASSUME NEW r \in Request, NEW o \in Pair, NEW q \in Pair, Lineage!Exchange(r, o, q)
      PROVE  IsFiniteSet(S) /\ Cardinality(S) + Cardinality(H) <= Cardinality(Request)
  <2>1. /\ o \in Granted[r] /\ rotated' = rotated \cup {<<o, q>>}
        /\ Granted' = [Granted EXCEPT ![r] = {}]
    BY <1>5 DEF Lineage!Exchange
  <2>2. H = Holders(p) \ {r}
    BY <1>0, <2>1 DEF Holders
  <2>3. CASE p = o
    <3>1. S = Successors(p) \cup {q} /\ r \in Holders(p)
      BY <2>1, <2>3 DEF Successors, Holders
    <3>2. IsFiniteSet(Successors(p)) /\ Cardinality(Successors(p)) \in Nat
      BY FS_CardinalityType DEF OverlapInv
    <3>3. /\ IsFiniteSet(Holders(p)) /\ Cardinality(Holders(p)) \in Nat
          /\ Cardinality(Request) \in Nat
      BY HoldersFinite, FS_CardinalityType DEF Holders
    <3>4. Cardinality(Successors(p)) + Cardinality(Holders(p)) <= Cardinality(Request)
      BY DEF OverlapInv
    <3> HIDE DEF S, H
    <3>5. Cardinality(H) = Cardinality(Holders(p)) - 1
      BY <2>2, <3>1, <3>3, FS_RemoveElement
    <3>6. /\ IsFiniteSet(S)
          /\ \/ Cardinality(S) = Cardinality(Successors(p))
             \/ Cardinality(S) = Cardinality(Successors(p)) + 1
      BY <3>1, <3>2, FS_AddElement
    <3> QED
      BY <3>2, <3>3, <3>4, <3>5, <3>6
  <2>4. CASE p # o
    <3>1. S = Successors(p)
      BY <2>1, <2>4 DEF Successors
    <3>2. H \in SUBSET Holders(p)
      BY <2>2
    <3> HIDE DEF S, H
    <3> QED
      BY <3>1, <3>2, OverlapKept
  <2> QED
    BY <2>3, <2>4
<1> QED
  BY <1>2, <1>3, <1>4, <1>5 DEF LineageStep, Lineage!Next

\* A refresh token is exchanged at most as often as requests overlap, whatever
\* the number of requests: the race between the lookup of the active session and
\* the rotation gives each request that was in time one exchange.
THEOREM ExchangesBounded ==
  ASSUME IsFiniteSet(Request)
  PROVE  Spec => []ExchangesBoundedByOverlap
<1>1. Init => OverlapInv
  BY OverlapInit
<1>2. IInv /\ IInv' /\ OverlapInv /\ [Next]_vars => OverlapInv'
  BY LineageNext, OverlapNext DEF LineageStep
<1>3. OverlapInv => ExchangesBoundedByOverlap
  <2> SUFFICES ASSUME OverlapInv, NEW p \in Pair
               PROVE  Cardinality(Successors(p)) <= Cardinality(Request)
    BY DEF ExchangesBoundedByOverlap
  <2>1. /\ Cardinality(Successors(p)) \in Nat /\ Cardinality(Request) \in Nat
        /\ Cardinality(Holders(p)) \in Nat
    BY HoldersFinite, FS_CardinalityType DEF OverlapInv, Holders
  <2> QED
    BY <2>1 DEF OverlapInv
<1> QED
  BY <1>1, <1>2, <1>3, Invariant, PTL DEF Spec

-----------------------------------------------------------------------------
(* One request at a time.  The argument is about SessionLineage again. *)

\* No two requests overlap.
Alone == \A r1, r2 \in Request : r1 = r2

\* A pair and its successor have one owner; the successor does not outlive the
\* pair; a pair that may be exchanged is still active; and a revocation that takes a
\* pair takes its live successor.
AloneInv ==
  /\ SingleUse
  /\ \A p, q \in Pair : <<p, q>> \in rotated =>
       /\ Owner[p] = Owner[q]
       /\ q \in Lineage!Live => p \in Lineage!Live
  /\ \A r \in Request :
       /\ Granted[r] = {} \/ Scope[r] = {}
       /\ \A p \in Granted[r] : Status[p] = "active"
       /\ \A p, q \in Pair :
            <<p, q>> \in rotated /\ p \in Scope[r] /\ q \in Lineage!Live => q \in Scope[r]

LEMMA AloneInit == Init => AloneInv
<1> SUFFICES ASSUME Init  PROVE AloneInv
  OBVIOUS
<1>1. rotated = {} /\ \A r \in Request : Granted[r] = {} /\ Scope[r] = {}
  BY DEF Init, Granted, Scope, Idle
<1> QED
  BY <1>1 DEF AloneInv, SingleUse

\* Both pairs of an exchange have been issued.
LEMMA RotatedIssued ==
  ASSUME IInv, NEW p, NEW q, <<p, q>> \in rotated
  PROVE  p \in Pair /\ q \in Pair /\ Status[p] # "none" /\ Status[q] # "none"
<1>1. p \in Pair /\ q \in Pair
  BY DEF IInv, TypeOK
<1>2. p \in Issued /\ q \in Issued
  BY DEF IInv, Stored, HistoryIssued
<1> QED
  BY <1>1, <1>2, StatusIs DEF StatusFacts

LEMMA AloneNext ==
  ASSUME Alone, IInv, AloneInv, LineageStep
  PROVE  AloneInv'
<1>0. /\ Status \in [Pair -> {"none", "active", "used", "revoked"}]
      /\ Owner \in [Pair -> SUBSET UserID]
      /\ Granted \in [Request -> SUBSET Pair] /\ Scope \in [Request -> SUBSET Pair]
  BY StatusIs, HeldType DEF StatusFacts, IInv, Owner, TypeOK, AccessToken
<1>l. Lineage!Live = {p \in Pair : Status[p] \in {"active", "used"}}
  BY DEF Lineage!Live
<1>m. Lineage!Live' = {p \in Pair : Status'[p] \in {"active", "used"}}
  BY DEF Lineage!Live
\* Nothing changes but what the requests were about to do.
<1>1. ASSUME NEW C \in SUBSET Lineage!Busy, Lineage!GiveUp(C)
      PROVE  AloneInv'
  <2>1. Status' = Status /\ Owner' = Owner /\ rotated' = rotated
    BY <1>1 DEF Lineage!GiveUp
  <2>2. \A r \in Request : /\ Granted'[r] = {} \/ Granted'[r] = Granted[r]
                           /\ Scope'[r] = {} \/ Scope'[r] = Scope[r]
    BY <1>1 DEF Lineage!GiveUp
  <2>3. Lineage!Live' = Lineage!Live
    BY <2>1, <1>l, <1>m
  <2>4. SingleUse'
    BY <2>1 DEF AloneInv, SingleUse
  <2> QED
    BY <2>1, <2>2, <2>3, <2>4 DEF AloneInv
<1>2. CASE UNCHANGED Lineage!vars
  <2>1. /\ Status' = Status /\ Owner' = Owner /\ rotated' = rotated
        /\ Granted' = Granted /\ Scope' = Scope
    BY <1>2 DEF Lineage!vars
  <2>2. Lineage!Live' = Lineage!Live
    BY <2>1, <1>l, <1>m
  <2>3. SingleUse'
    BY <2>1 DEF AloneInv, SingleUse
  <2> QED
    BY <2>1, <2>2, <2>3 DEF AloneInv
\* A new pair has no predecessor, and is not among those about to be revoked.
<1>3. ASSUME NEW u \in UserID, NEW n \in Pair, Lineage!Issue(u, n)
      PROVE  AloneInv'
  <2>1. /\ Status[n] = "none" /\ rotated' = rotated
        /\ Granted' = Granted /\ Scope' = Scope
        /\ Status' = [Status EXCEPT ![n] = "active"]
        /\ Owner' = [Owner EXCEPT ![n] = {u}]
    BY <1>3 DEF Lineage!Issue
  <2>2. \A p, q \in Pair : <<p, q>> \in rotated =>
          /\ Owner'[p] = Owner[p] /\ Owner'[q] = Owner[q]
          /\ Status'[p] = Status[p] /\ Status'[q] = Status[q]
    BY <2>1, <1>0, RotatedIssued
  <2>3. \A p, q \in Pair : <<p, q>> \in rotated =>
          /\ p \in Lineage!Live' <=> p \in Lineage!Live
          /\ q \in Lineage!Live' <=> q \in Lineage!Live
    BY <2>2, <1>l, <1>m
  <2>4. \A r \in Request : \A p \in Granted[r] : Status'[p] = "active"
    BY <2>1, <1>0 DEF AloneInv
  <2>5. SingleUse'
    BY <2>1 DEF AloneInv, SingleUse
  <2>6. ASSUME NEW p \in Pair, NEW q \in Pair, <<p, q>> \in rotated'
        PROVE  /\ Owner'[p] = Owner'[q]
               /\ q \in Lineage!Live' => p \in Lineage!Live'
    <3>1. <<p, q>> \in rotated
      BY <2>1, <2>6
    <3>2. Owner[p] = Owner[q] /\ (q \in Lineage!Live => p \in Lineage!Live)
      BY <3>1 DEF AloneInv
    <3> QED
      BY <2>2, <2>3, <3>1, <3>2
  <2>7. \A r \in Request : \A p, q \in Pair :
          <<p, q>> \in rotated' /\ p \in Scope'[r] /\ q \in Lineage!Live'
            => q \in Scope'[r]
    BY <2>1, <2>3 DEF AloneInv
  <2>8. \A r \in Request : Granted'[r] = {} \/ Scope'[r] = {}
    BY <2>1 DEF AloneInv
  <2> QED
    BY <2>1, <2>4, <2>5, <2>6, <2>7, <2>8 DEF AloneInv
<1>4. ASSUME NEW r \in Request, NEW n \in Pair, Lineage!Grant(r, n)
      PROVE  AloneInv'
  <2>1. /\ Status[n] = "active" /\ r \notin Lineage!Busy
        /\ Status' = Status /\ Owner' = Owner /\ rotated' = rotated /\ Scope' = Scope
        /\ Granted' = [Granted EXCEPT ![r] = {n}]
    BY <1>4 DEF Lineage!Grant
  <2>2. Scope[r] = {}
    BY <2>1 DEF Lineage!Busy
  <2>3. Lineage!Live' = Lineage!Live
    BY <2>1, <1>l, <1>m
  <2>4. SingleUse'
    BY <2>1 DEF AloneInv, SingleUse
  <2>5. ASSUME NEW s \in Request
        PROVE  /\ Granted'[s] = {n} /\ Scope'[s] = {} /\ Status'[n] = "active"
    BY <2>1, <2>2, <1>0 DEF Alone
  <2> QED
    BY <2>1, <2>3, <2>4, <2>5 DEF AloneInv
\* The pair exchanged is active, nobody else having touched it meanwhile.
<1>5. ASSUME NEW r \in Request, NEW o \in Pair, NEW n \in Pair, Lineage!Exchange(r, o, n)
      PROVE  AloneInv'
  <2>1. /\ o \in Granted[r] /\ Status[n] = "none"
        /\ Status' = [Status EXCEPT ![n] = "active",
                                    ![o] = IF @ = "active" THEN "used" ELSE @]
        /\ Owner' = [Owner EXCEPT ![n] = Owner[o]]
        /\ rotated' = rotated \cup {<<o, n>>}
        /\ Granted' = [Granted EXCEPT ![r] = {}] /\ Scope' = Scope
    BY <1>5 DEF Lineage!Exchange
  <2>2. Status[o] = "active" /\ o # n /\ Scope[r] = {}
    BY <2>1 DEF AloneInv
  <2>3. \A q \in Pair : <<o, q>> \notin rotated
    BY <2>2, ActiveHasNone DEF Successors
  <2>4. /\ Status'[n] = "active" /\ Status'[o] = "used"
        /\ \A p \in Pair : p # n /\ p # o => Status'[p] = Status[p]
    BY <2>1, <2>2, <1>0
  <2>5. \A p \in Pair : p # n =>
          /\ p \in Lineage!Live' <=> p \in Lineage!Live
          /\ Owner'[p] = Owner[p]
    BY <2>1, <2>2, <2>4, <1>0, <1>l, <1>m
  <2>6. o \in Lineage!Live' /\ Owner'[o] = Owner'[n]
    BY <2>1, <2>2, <2>4, <1>0, <1>m
  <2>7. \A p, q \in Pair : <<p, q>> \in rotated => p # n /\ q # n
    BY <2>1, RotatedIssued
  <2>8. SingleUse'
    <3>1. ASSUME NEW p \in Pair, NEW q1 \in Pair, NEW q2 \in Pair,
                 <<p, q1>> \in rotated', <<p, q2>> \in rotated'
          PROVE  q1 = q2
      <4>1. CASE p = o
        BY <2>1, <2>3, <3>1, <4>1
      <4>2. CASE p # o
        BY <2>1, <3>1, <4>2 DEF AloneInv, SingleUse
      <4> QED
        BY <4>1, <4>2
    <3> QED
      BY <3>1 DEF SingleUse
  <2>9. ASSUME NEW p \in Pair, NEW q \in Pair, <<p, q>> \in rotated'
        PROVE  /\ Owner'[p] = Owner'[q]
               /\ q \in Lineage!Live' => p \in Lineage!Live'
    <3>1. CASE <<p, q>> \in rotated
      BY <3>1, <2>5, <2>7 DEF AloneInv
    <3>2. CASE p = o /\ q = n
      BY <3>2, <2>6
    <3> QED
      BY <2>1, <2>9, <3>1, <3>2
  <2>10. \A s \in Request : Granted'[s] = {} /\ Scope'[s] = {}
    BY <2>1, <2>2, <1>0 DEF Alone
  <2> QED
    BY <2>8, <2>9, <2>10 DEF AloneInv
\* What the user has alive includes the live successors of it.
<1>6. ASSUME NEW r \in Request, NEW u \in UserID, Lineage!RevokeBegin(r, u)
      PROVE  AloneInv'
  <2>1. /\ r \notin Lineage!Busy
        /\ Status' = Status /\ Owner' = Owner /\ rotated' = rotated /\ Granted' = Granted
        /\ Scope' = [Scope EXCEPT ![r] = {p \in Lineage!Live : Owner[p] = {u}}]
    BY <1>6 DEF Lineage!RevokeBegin
  <2>2. Granted[r] = {}
    BY <2>1 DEF Lineage!Busy
  <2>3. Lineage!Live' = Lineage!Live
    BY <2>1, <1>l, <1>m
  <2>4. SingleUse'
    BY <2>1 DEF AloneInv, SingleUse
  <2>5. ASSUME NEW s \in Request
        PROVE  /\ Granted'[s] = {}
               /\ Scope'[s] = {p \in Lineage!Live : Owner[p] = {u}}
    BY <2>1, <2>2, <1>0 DEF Alone
  <2>6. ASSUME NEW s \in Request, NEW p \in Pair, NEW q \in Pair,
               <<p, q>> \in rotated', p \in Scope'[s], q \in Lineage!Live'
        PROVE  q \in Scope'[s]
    BY <2>1, <2>3, <2>5, <2>6 DEF AloneInv
  <2> QED
    BY <2>1, <2>3, <2>4, <2>5, <2>6 DEF AloneInv
<1>7. ASSUME NEW r \in Request, Lineage!RevokeEnd(r)
      PROVE  AloneInv'
  <2>1. /\ Scope[r] # {} /\ Owner' = Owner /\ rotated' = rotated /\ Granted' = Granted
        /\ Status' = [p \in Pair |-> IF p \in Scope[r] THEN "revoked" ELSE Status[p]]
        /\ Scope' = [Scope EXCEPT ![r] = {}]
    BY <1>7 DEF Lineage!RevokeEnd
  <2>2. \A p \in Pair : p \in Lineage!Live' <=> p \in Lineage!Live /\ p \notin Scope[r]
    BY <2>1, <1>l, <1>m
  <2>3. \A p, q \in Pair : <<p, q>> \in rotated' =>
          /\ Owner'[p] = Owner'[q]
          /\ q \in Lineage!Live' => p \in Lineage!Live'
    BY <2>1, <2>2 DEF AloneInv
  <2>4. SingleUse'
    BY <2>1 DEF AloneInv, SingleUse
  <2>5. \A s \in Request : Granted'[s] = {} /\ Scope'[s] = {}
    BY <2>1, <1>0 DEF Alone, AloneInv
  <2> QED
    BY <2>3, <2>4, <2>5 DEF AloneInv
<1> QED
  BY <1>1, <1>2, <1>3, <1>4, <1>5, <1>6, <1>7 DEF LineageStep, Lineage!Next

LEMMA AloneInvariant ==
  ASSUME Alone
  PROVE  Spec => []AloneInv
<1>1. Init => AloneInv
  BY AloneInit
<1>2. IInv /\ IInv' /\ AloneInv /\ [Next]_vars => AloneInv'
  BY LineageNext, AloneNext DEF LineageStep
<1> QED
  BY <1>1, <1>2, Invariant, PTL DEF Spec

\* As long as requests do not overlap, a refresh token is exchanged at most once, as
\* README says, whatever fails and whenever the process crashes.
THEOREM SequentialSingleUse ==
  ASSUME Alone
  PROVE  Spec => []SingleUse
<1>1. AloneInv => SingleUse
  BY DEF AloneInv
<1> QED
  BY <1>1, AloneInvariant, PTL

\* As long as requests do not overlap, no session outlives the revocation of one it
\* descends from.
THEOREM SequentialRevocation ==
  ASSUME Alone
  PROVE  Spec => []RevocationEndsLineage
<1>1. IInv /\ AloneInv => RevocationEndsLineage
  <2> SUFFICES ASSUME IInv, AloneInv, NEW e \in rotated, HasRow(e[2])
               PROVE  HasRow(e[1])
    BY DEF RevocationEndsLineage
  <2>1. e = <<e[1], e[2]>> /\ e[1] \in Pair /\ e[2] \in Pair
    BY DEF IInv, TypeOK
  <2>2. \A p \in Pair : p \in Lineage!Live <=> HasRow(p)
    BY StatusIs DEF Lineage!Live, StatusFacts, HasRow, IInv, TypeOK, RefreshSession
  <2> QED
    BY <2>1, <2>2 DEF AloneInv
<1> QED
  BY <1>1, Invariant, AloneInvariant, PTL

-----------------------------------------------------------------------------
(* No failures: what Logout takes with it *)

\* A step of a handler changes the local state of its goroutine only.
LEMMA OnlyOneMoves ==
  ASSUME TypeOK, NEW r \in Request, Arrive(r) \/ Serve(r)
  PROVE  \A q \in Request \ {r} : req'[q] = req[q]
<1> DEFINE Others == \A q \in Request \ {r} : req'[q] = req[q]
<1>1. ASSUME NEW local, Goto(r, local)
      PROVE  Others
  BY <1>1, GotoReq
<1>2. ASSUME NEW op, NEW code, NEW pairs, Answer(r, op, code, pairs)
      PROVE  Others
  BY <1>1, <1>2 DEF Answer
<1> HIDE DEF Others
<1>3. IssueLookup(r) \/ RefreshMalformed(r) => Others
  BY <1>1, <1>2 DEF IssueLookup, RefreshMalformed
<1>4. GetActiveSession(r) => Others
  <2>1. ASSUME NEW s, NEW jti, NEW token, NEW meta, CheckSession(r, s, jti, token, meta)
        PROVE  Others
    BY <1>1, <1>2, <2>1, Zenon DEF CheckSession
  <2> QED
    BY <1>1, <1>2, <2>1, Zenon DEF GetActiveSession
<1>5. AuthenticateAccessToken(r) => Others
  BY <1>1, <1>2, Zenon DEF AuthenticateAccessToken
<1>6. IssueTokensTx(r) \/ RotateTokensTx(r) => Others
  BY <1>2, Zenon DEF IssueTokensTx, RotateTokensTx
<1>7. DetectTheft(r) \/ RevokeSessions(r) \/ RevokeCommit(r) => Others
  BY <1>1, <1>2, Zenon DEF DetectTheft, RevokeSessions, RevokeCommit
<1>8. LogoutValidate(r) \/ LogoutInvalidate(r) \/ LogoutDelete(r) => Others
  BY <1>1, <1>2, Zenon DEF LogoutValidate, LogoutInvalidate, LogoutDelete
<1>9. LogoutCommit(r) \/ GetPublicGUID(r) \/ Respond(r) => Others
  BY <1>1, <1>2, Zenon DEF LogoutCommit, GetPublicGUID, Respond
<1> QED
  BY <1>3, <1>4, <1>5, <1>6, <1>7, <1>8, <1>9 DEF Arrive, Serve, Others

\* r serves a Logout that will delete the session issued with the access token j: its
\* DELETE is still to come, or has the row in its snapshot.
Deletes(r, j) ==
  /\ req[r].pc \in {"delete", "deleting"} /\ req[r].token.jti = j
  /\ req[r].pc = "deleting" => j \in req[r].rows

\* A session outlives the revocation of its access token only while that Logout is
\* at work.
LogoutInv ==
  \A j \in invalidated : HasRow(j) => \E r \in Request : Deletes(r, j)

\* Whatever commits a row commits that of a pair never issued before.
LEMMA NoOldRow ==
  ASSUME IInv, NEW r \in Request,
         \/ IssueTokensTx(r) \/ RevokeCommit(r) \/ RotateTokensTx(r) \/ LogoutCommit(r)
  PROVE  \A j \in Issued : HasRow(j)' => HasRow(j)
<1>1. \A p \in Fresh : \A u, m, at : NewSession(p, p, u, m, at).selector \notin Issued
  BY NewRow DEF Fresh
<1>2. CASE sessions' = sessions
  BY <1>2 DEF HasRow
<1>3. ASSUME NEW p \in Fresh, NEW id, IssueRows(id, p, req[r])
      PROVE  \A j \in Issued : HasRow(j)' => HasRow(j)
  BY <1>1, <1>3 DEF IssueRows, CreateSession, HasRow
<1>4. ASSUME NEW p \in Fresh, NEW at,
             sessions' = CreateSession(MarkSessionAsUsed(sessions, req[r].selector),
                             NewSession(p, p, req[r].user, req[r].meta, at))
      PROVE  \A j \in Issued : HasRow(j)' => HasRow(j)
  <2>1. \A x \in MarkSessionAsUsed(sessions, req[r].selector) :
          \E s \in sessions : x.selector = s.selector
    BY MarkedRows DEF IInv, TypeOK
  <2> QED
    BY <1>1, <1>4, <2>1 DEF CreateSession, HasRow
<1>5. CASE sessions' = DeleteAllUserSessions(sessions, req[r].rows)
  BY <1>5 DEF DeleteAllUserSessions, HasRow
<1> QED
  BY <1>2, <1>3, <1>4, <1>5
     DEF IssueTokensTx, RevokeCommit, RotateTokensTx, LogoutCommit

\* The steps of a goroutine that is not about to delete for Logout.
LEMMA LogoutKept ==
  ASSUME IInv, LogoutInv, NEW r \in Request, req[r].pc \notin {"delete", "deleting"},
         \A q \in Request \ {r} : req'[q] = req[q],
         invalidated' = invalidated,
         \A j \in Issued : HasRow(j)' => HasRow(j)
  PROVE  LogoutInv'
<1> SUFFICES ASSUME NEW j \in invalidated', HasRow(j)'
             PROVE  \E q \in Request : Deletes(q, j)'
  BY DEF LogoutInv
<1>1. j \in invalidated /\ j \in Issued
  BY DEF IInv, Stored, HistoryIssued
<1>2. PICK q \in Request : Deletes(q, j)
  BY <1>1 DEF LogoutInv
<1>3. req'[q] = req[q]
  BY <1>2 DEF Deletes
<1> QED
  BY <1>2, <1>3 DEF Deletes

\* A row that was issued with an access token belongs to the token's user.
LEMMA RowOfToken ==
  ASSUME IInv, NEW t \in tokens, HasRow(t.jti)
  PROVE  t.jti \in UserSessions(sessions, t.user)
<1>1. PICK s \in sessions : s.selector = t.jti
  BY DEF HasRow
<1>2. s.user = t.user
  BY <1>1 DEF IInv, Stored, SessionBinding, TokensDistinct
<1> QED
  BY <1>1, <1>2 DEF UserSessions

LEMMA LogoutNext ==
  ASSUME ~Faulty, IInv, LogoutInv, [Next]_vars
  PROVE  LogoutInv'
<1>0. TypeOK
  BY DEF IInv
<1>1. ASSUME NEW r \in Request, LogoutInvalidate(r)
      PROVE  LogoutInv'
  <2> DEFINE t == req[r].token
  <2>1. /\ invalidated' = invalidated \cup {t.jti} /\ sessions' = sessions
        /\ req[r].pc = "invalidate"
        /\ Goto(r, [pc |-> "delete", token |-> t])
    BY <1>1 DEF LogoutInvalidate, store
  <2>2. /\ req'[r] = [pc |-> "delete", token |-> t]
        /\ \A q \in Request \ {r} : req'[q] = req[q]
    BY <1>0, <2>1, GotoReq
  <2>3. ASSUME NEW j, j = t.jti
        PROVE  Deletes(r, j)'
    BY <2>2, <2>3 DEF Deletes
  <2>4. ASSUME NEW j \in invalidated, HasRow(j)'
        PROVE  \E q \in Request : Deletes(q, j)'
    <3>1. PICK q \in Request : Deletes(q, j)
      BY <2>1, <2>4 DEF LogoutInv, HasRow
    <3>2. req'[q] = req[q]
      BY <2>1, <2>2, <3>1 DEF Deletes
    <3> QED
      BY <3>1, <3>2 DEF Deletes
  <2> QED
    BY <2>1, <2>3, <2>4 DEF LogoutInv
<1>2. ASSUME NEW r \in Request, LogoutDelete(r)
      PROVE  LogoutInv'
  <2> DEFINE t    == req[r].token
             rows == UserSessions(sessions, t.user)
  <2>1. /\ invalidated' = invalidated /\ sessions' = sessions
        /\ req[r].pc = "delete" /\ t \in tokens
        /\ Goto(r, [pc |-> "deleting", token |-> t, rows |-> rows])
    BY <1>2 DEF LogoutDelete, store, redis, IInv, Remembered
  <2>2. /\ req'[r] = [pc |-> "deleting", token |-> t, rows |-> rows]
        /\ \A q \in Request \ {r} : req'[q] = req[q]
    BY <1>0, <2>1, GotoReq
  <2> SUFFICES ASSUME NEW j \in invalidated, HasRow(j)
               PROVE  \E q \in Request : Deletes(q, j)'
    BY <2>1 DEF LogoutInv, HasRow
  <2>3. PICK q \in Request : Deletes(q, j)
    BY DEF LogoutInv
  <2>4. CASE q = r
    <3>1. t.jti = j /\ j \in rows
      BY <2>1, <2>3, <2>4, RowOfToken DEF Deletes
    <3>2. Deletes(r, j)'
      BY <2>2, <3>1 DEF Deletes
    <3> QED
      BY <3>2
  <2>5. CASE q # r
    <3>1. req'[q] = req[q]
      BY <2>2, <2>5
    <3> QED
      BY <2>3, <3>1 DEF Deletes
  <2> QED
    BY <2>4, <2>5
<1>3. ASSUME NEW r \in Request, LogoutCommit(r)
      PROVE  LogoutInv'
  <2>1. /\ invalidated' = invalidated /\ req[r].pc = "deleting"
        /\ sessions' = DeleteAllUserSessions(sessions, req[r].rows)
        /\ \A q \in Request \ {r} : req'[q] = req[q]
    BY <1>0, <1>3, OnlyOneMoves DEF LogoutCommit, redis, Serve
  <2> SUFFICES ASSUME NEW j \in invalidated, HasRow(j)'
               PROVE  \E q \in Request : Deletes(q, j)'
    BY <2>1 DEF LogoutInv
  <2>2. HasRow(j) /\ j \notin req[r].rows
    BY <2>1 DEF HasRow, DeleteAllUserSessions
  <2>3. PICK q \in Request : Deletes(q, j)
    BY <2>2 DEF LogoutInv
  <2>4. req'[q] = req[q]
    BY <2>1, <2>2, <2>3 DEF Deletes
  <2> QED
    BY <2>3, <2>4 DEF Deletes
<1>4. ASSUME NEW r \in Request, IssueTokensTx(r) \/ RevokeCommit(r) \/ RotateTokensTx(r)
      PROVE  LogoutInv'
  <2>1. invalidated' = invalidated /\ req[r].pc \notin {"delete", "deleting"}
    BY <1>4 DEF IssueTokensTx, RevokeCommit, RotateTokensTx, redis
  <2>2. \A q \in Request \ {r} : req'[q] = req[q]
    BY <1>0, <1>4, OnlyOneMoves DEF Serve
  <2> QED
    BY <1>4, <2>1, <2>2, NoOldRow, LogoutKept
<1>5. ASSUME NEW r \in Request,
             \/ Arrive(r) \/ DetectTheft(r) \/ RevokeSessions(r) \/ LogoutValidate(r)
             \/ GetPublicGUID(r) \/ Respond(r)
      PROVE  LogoutInv'
  <2>1. /\ invalidated' = invalidated /\ sessions' = sessions
        /\ req[r].pc \notin {"delete", "deleting"}
    BY <1>5 DEF Arrive, IssueLookup, RefreshMalformed, GetActiveSession,
         AuthenticateAccessToken, DetectTheft, RevokeSessions, LogoutValidate,
         GetPublicGUID, Respond, store, redis, Idle
  <2>2. \A q \in Request \ {r} : req'[q] = req[q]
    BY <1>0, <1>5, OnlyOneMoves DEF Serve
  <2>3. \A j \in Issued : HasRow(j)' => HasRow(j)
    BY <2>1 DEF HasRow
  <2> QED
    BY <2>1, <2>2, <2>3, LogoutKept
<1>6. CASE Tick \/ (\E h \in hooks : SendWebhook(h)) \/ UNCHANGED vars
  <2>1. invalidated' = invalidated /\ sessions' = sessions /\ req' = req
    BY <1>6 DEF Tick, SendWebhook, vars, store, redis
  <2> QED
    BY <2>1 DEF LogoutInv, HasRow, Deletes
<1> QED
  BY <1>1, <1>2, <1>3, <1>4, <1>5, <1>6 DEF Next, Serve, Crash

\* As long as no store fails and the process does not crash, a Logout that has put
\* the access token on the denylist takes the session of that token with it, however
\* many refreshes and other Logouts overlap.
THEOREM LogoutCompletes ==
  ASSUME ~Faulty
  PROVE  Spec => []LogoutIsComplete
<1>1. Init => LogoutInv
  BY DEF Init, LogoutInv
<1>2. IInv /\ LogoutInv /\ [Next]_vars => LogoutInv'
  BY LogoutNext
<1>3. IInv /\ LogoutInv => LogoutIsComplete
  <2> SUFFICES ASSUME IInv, LogoutInv, NEW j \in invalidated, NEW s \in sessions,
                      s.jti = j
               PROVE  \E r \in Request :
                        req[r].pc \in {"delete", "deleting"} /\ req[r].token.jti = j
    BY DEF LogoutIsComplete
  <2>1. HasRow(j)
    BY DEF HasRow, IInv, Stored, SessionBinding
  <2> QED
    BY <2>1 DEF LogoutInv, Deletes
<1> QED
  BY <1>1, <1>2, <1>3, Invariant, PTL DEF Spec
=============================================================================
